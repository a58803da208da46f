# untether: a TLA+ verification of the bridge and its clients

`untether` connects programs to Bluetooth Classic devices. An ESP32 firmware
component (`components/untether_spp`) keeps one RFCOMM link per configured device and
exposes each as a TCP server; Python clients (`python/src/untether_bt`) keep a TCP
connection to such a server, cut the byte stream into frames, and help to find out
what a vendor's app sends to a device; two example integrations show passive sensors in
Home Assistant. The modules in this directory model those parts, TLC checks them on small
instances, and TLAPS proves, for every value of the constants, the invariants of the
connection manager (with its handlers atomic and access by access), the order and
completeness of the data path, the invariants of both asyncio clients, that a client gets
the frames that were sent however the stream is cut, when a recorded tap is credited with its
own frames, what an accepted configuration promises, and the tools on the host that keep state.

Paths below are relative to the repository; `cpp` stands for
`components/untether_spp/untether_spp.cpp`.

## 1. Inventory

| component | state | operations | interacts with |
|---|---|---|---|
| bridge: connection manager (`cpp`) | `spp_ready_`, `connecting_idx_`, `connect_started_`; per device `channel`, `spp_open`, `spp_handle`, `want_reconnect`, `backoff_ms`, `last_attempt`, `open_at`, `pending_on_open` | `manage_connections_`, `send_on_open_` in the ESPHome loop task; `on_spp_event` (INIT, DISCOVERY_COMP, OPEN, CLOSE) in the Bluedroid task | calls `esp_spp_start_discovery`, `esp_spp_connect`, `esp_spp_write`; is called back by the stack; no lock |
| bridge: data path (`cpp`) | per device `rb_in`, `listen_fd`, `client_fd`, `spp_congested` | `tcp_setup_`, `tcp_service_` in the loop; DATA_IND, CONG, WRITE in the Bluedroid task | ring buffer between the two tasks; sockets; the link's credit |
| bridge: configuration (`components/untether_spp/__init__.py`, `cpp` setup) | what the user wrote, the validated configuration, build options; `devices_` and their rings | schemas, `_validate`, `to_code`, `add_device`, `setup`, restart | esphome; produces the devices the manager starts from |
| `SppConnection` (`connection.py`) | `_task`, `_reader`/`_writer`, `_connected`, `write_lock`, the local `backoff` | `start`, `stop`, `send`, `_run`, `_connect_once`, `_read_loop`, `_close` | an asyncio host, three callbacks, one bridge |
| `SppBridge`, `AsyncSppBridge` (`spp.py`) | `_sock`, `_leftover` | `connect`, `send_frame`, `read_frames`, `request`, `close` | `Framing`; one bridge |
| `Framing` (`framing.py`) | none | `build`, `iter_frames` with and without stuffing | the two clients above |
| captures (`capture.py`, `hci.py`, `btsnoop.py`) | packets, marks | load, `wire_events`, `rfcomm_frames`, `sdp_records`, `correlate`, `Recorder.mark`; L2CAP and ATT extraction; btsnoop and btsnooz | the phone's snoop log; the Android driver; the decoders |
| decoders (`rfcomm.py`, `sdp.py`, `bluez.py`) | none | parse, build, choose the SPP channel | captures; pybluez |
| Android driver (`android.py`, `uiauto.py`) | files on the phone | `tap`, `tap_and_mark`, `enable_hci_snoop`, `pull_btsnoop`, `pull_btsnoop_path` | adb; the phone's stack and screen; a `Recorder` |
| assigned numbers (`numbers.py`, `_assigned_numbers.py`, `gen_assigned_numbers.py`) | tables on disk, tables a process has imported | look-ups; regeneration | the Bluetooth registries |
| GATT helpers (`gatt.py`) | a backend client | connect, `start_notify`, `stop_notify`, `normalize_uuid` | bleak |
| app inspection (`apk.py`, `uiauto.py`) | none | pattern searches; `find_node`, `center` | jadx; uiautomator |
| Frida capture (`frida.py`, `frida_hooks/android_bt.js`) | the session; hooks in the app | `run`, `parse_hook_message`; the hooked calls | Frida; the vendor's app |
| example integrations (`examples/integrations`) | config entries, flows, entity data | parsers of advertisements; discovery and user flows; set-up, start, unload | Home Assistant; `advertising.py` reads the same bytes |

What is hard in each, and what makes it correct:

* **Connection manager.** Two tasks write the same fields. The stack answers late, never,
  or after the loop has given the attempt up, and DISCOVERY_COMP does not say whom it is
  about. Correct: one attempt at a time, results credited to the device they are about,
  no link the bridge does not know of, no device without link, attempt or turn, every
  attempt ends, every device gets its turn, the handshake is offered once per link.
* **Data path.** The link can drop or congest between the test, the `recv` and the write;
  ring and socket fill up; clients leave, break off and are replaced. Correct: bytes are
  never reordered or repeated, congestion loses none upstream (a write that the stack
  refuses does), departed clients free the slot.
* **SppConnection.** Cancellation and exceptions can arrive at every `await`. Correct:
  `connected` is true only while there is something to write to and somebody reading,
  nothing leaks (but for what a raising `on_state` does), a stopped object is quiet, a
  started one keeps its loop and heals.
* **Framing with its clients.** TCP cuts the stream anywhere, the bridge drops bytes, the
  stream holds noise. Correct: the result does not depend on the cuts, whole frames are
  delivered once and in order, a damaged frame costs at most one more, the buffer stays
  bounded.
* **AsyncSppBridge.** Tasks share one buffer and one reader, and each read is a suspension
  at which another task may take the bytes. Correct: each frame goes to exactly one task.
* **Marks and captures.** The mark, the tap, the frames it causes and the log's timestamps
  are four clocked events in an order nobody controls. Correct: each mark reads back
  exactly the frames of its action.
* **Capture sessions.** Logging begins when the stack next comes up, which moves the log
  away; the file is read while it grows; packets are split, cut short in the ring, or of no
  known kind. Correct: what is pulled is what was on the air, and what is decoded from it
  is what was meant, or nothing, as far as an 8-bit checksum can tell.
* **UI automation.** The screen changes between dump, search and tap, and a dump may fail
  silently. Correct: a tap on the screen that was dumped hits the label it was asked for.
* **Configuration.** Two forms, defaults and spellings of one address; a set-up that fails
  half-way. Correct: what is accepted can run, as it was written, and what can run is accepted.
* **Numbers and UUIDs.** One UUID has many spellings, tables are regenerated under running
  processes. Correct: a name is that of the number asked for, one characteristic is one
  subscription.
* **Frida.** The hook, the app and the host run at their own pace. Correct: from the loading
  of the hooks (of a spawned app: from its start) no write is missed, doubled or reordered.
* **Example integrations.** Discoveries and a user race to set up one sensor; the platforms
  register while advertisements come in. Correct: one entry per sensor, entities show the
  last reading.

`PROJECT.json` lists each hazard at its line, with the properties that cover it or the
reason why none does.

## 2. Modules

| module | models | its actions and the code |
|---|---|---|
| `SppLinks` | connection manager, N devices | one action per callback and per loop step. `Attempt`, `Timeout`: `manage_connections_`; `SendOnOpen`: `send_on_open_`; `SppInit`, `DiscoveryFound/Failed`, `OpenOk/OpenFailed`, `Close`, `Cong`, `WriteCongested`: the cases of `on_spp_event`. `QueryLost` and the refusals in `Dial`, `StartDiscovery` are the stack's |
| `MCSppLinks` | constants of `SppLinks` | `Remote` gives the devices different channels, so that a wrong one shows |
| `SppLinksProofs`, `SppRacesProofs`, `TcpBridgeProofs`, `SppConnectionProofs` | theorems about the module each is named for | section 5 |
| `SppBridgeProofs`, `TapProofs` | theorems about `Framing` and `SppBridge`; about `TapAndMark`, with `Capture` and `Hci` | section 5 |
| `SequenceFacts` | lemmas on sequences that these two and `HostProofs` rest on | section 5 |
| `HostProofs` | theorems about `AsyncBridge`, `BridgeConfig`, `PassiveSensors`, `AppUi`, `FridaCapture` and `GattClient` | section 5 |
| `SppRaces` | the same steps for one device, access by access | `loopAt` and `callAt` say which field access each task makes next; `millis()` wraps; `Fault` is an access to `devices_[-1]` that restarts the board |
| `SppSchedule` | the scan, the backoff and the timeout, N devices, with time | `Attempt`, `Timeout`, `Pass` are the three outcomes of `manage_connections_`; `Tick` is one unit |
| `BytePipe` | what one direction of the data path promises | abstract: a lossy pipe that keeps the order |
| `TcpBridge` | data path of one device | one action per socket or ring call of `tcp_service_` (`pc` between them), one per callback |
| `SppConnection` | the asyncio client | one action per stretch between two awaits; `run[t].at` is the await a task is in |
| `Framing` | `build` and `iter_frames` as operators | recursion as functions on indices |
| `SppBridge`, `MCSppBridge` | the request/response client over `Framing` | `Connect`, `Request`, `Recv`, `WindowEnds`, `Breaks`, `Close`; the device's items and TCP's cuts |
| `Capture` | `correlate`, `wire_events`, first fragments | operators over a log |
| `TapAndMark` | `tap_and_mark`, the app, the snoop log | EXTENDS `Capture` |
| `AsyncBridge` | `AsyncSppBridge`, shared by tasks | `ReadFrames`, `Request`, `Drained`, `ResumeReader`, `WindowOver`, `AClose`, `CloseEnds`: stretches between awaits; `Feed`, `FeedEof`, `ConnectionLost`: the transport |
| `Hci`, `Btsnoop`, `Rfcomm`, `Sdp`, `Bluez` | the decoders and their encoders | operators on bytes and records |
| `CaptureSession`, `MCTraffic` | the snoop log, `enable_hci_snoop`, the pulls, the views of a `Capture` | one action per adb call (`PutSetting`, `DisableBluetooth`, `EnableBluetooth`, `EnableFails`), `PullPath`, `PullBugreport`, `PullBlob`; the stack and the user are the others |
| `AppUi` | `uiauto.py`, `dump_ui`, `tap` | `Dump`, `Find`, `TapXy`, one per adb call; `Shows` is the app |
| `BridgeConfig`, `MCBridgeConfig` | schemas, `_validate`, `to_code`, `add_device`, `setup` | `WriteFlat`, `WriteDevice`, `StartOver` are the user; `Compile`, `ToCode`, `AddDevice`, `Setup`, `Restart` |
| `Advertising`, `SensorProtocols` | advertising data; the two sensors' `protocol.py` | operators on bytes |
| `PassiveSensors`, `MCBroadcasts` | both integrations' flows, set-up and entities | `Discovered`, `Confirmed`, `UserStarts`, `UserPicks`: `config_flow.py`; `Start`, `Unload`: `__init__.py`; `Hear`: `sensor.py` |
| `AssignedNumbers`, `Numbers`, `MCNumbers` | the tables, the look-ups, the generator | `AssignedNumbers` holds the numbers of every shipped table; publishing, generating, importing and asking are actions |
| `GattClient` | `gatt.py` over a backend | connections come and go; `start_notify`, `stop_notify`, notifications |
| `FridaCapture` | `FridaSession.run`, the hooks, the messages | one action per Frida call (`Spawn`, `Attach`, `Load`, `Resume`, `Detach`, `Raises`), per hooked call of the app, and `OnMessage` |
| `MCHost` | the tools from `AsyncBridge` on, side by side | each behaviour is one of one tool |

`SppLinks`, `SppRaces` and `SppSchedule` are three views of the same code because no
single one is checkable: the first leaves time out (each comparison of `millis()` may
come out either way, so every real schedule is a behaviour of it), the second takes
one device and splits every step, the third takes the clock and the index order and
lets answers come in time or not at all. `TcpBridge` shares with `SppLinks` only
`spp_open`, `spp_handle` and `spp_congested` of one device; its `OpenEvt` and `CloseEvt`
are what `OpenOk` and `Close` do to these.

Operators whose comment begins with `MUTANT:` are not part of any specification. Each
is a plausible bug; substituted for the definition next to it, it makes TLC find the
property named in `PROJECT.json` violated.

### Modelling choices

* One action per callback in `SppLinks` treats a callback as atomic; `SppRaces` does not,
  and is where properties of the interleaving are checked. `connecting_idx_` is neither
  volatile nor atomic, so a second read in the same expression may or may not see a new
  value; both outcomes are behaviours.
* The stack is external. It may refuse a call (the code ignores the status), lose a
  query, answer in any order, close a call that never opened. It never opens a call on a
  channel the peer does not listen on. It may fail any `esp_spp_write`, at once or in the
  status of a WRITE event, on open links too: `refused` (`SppLinks`, `SppRaces`) and `unsent`
  (`TcpBridge`) record whose handshake and which bytes that lost, since the code goes on as
  if they had been sent.
* In `SppRaces` an index that is read again as -1 makes the access miss the device; the
  write to `devices_[-1]` may also fault, after which the board starts anew.
* `SppLinks!late` and `SppRaces!late` record that an attempt was given up while the stack
  still worked on it. Several promises of the code rest on that not happening and are
  stated under `~late`; what holds regardless is stated without it.
* `TcpBridge` numbers bytes, so order, loss and repetition are visible. The loss of what a
  socket has no room for (`cpp` 245-246) is in the model.
* `SppConnection` follows asyncio from Python 3.12 on, where `wait_for` does not swallow a
  cancellation that races with the result. One `stop` at a time is modelled; `start` may
  overlap it when `"overlap" \in may`. With `"state" \in may` `on_state` may raise wherever it
  is called: in `_close` it then leaves the connection open and the writer in place, which
  `left` records until a later `_close`, or Python's garbage collection, closes it.
* A byte in `Framing` is a number below `Base`. The checksum is the code's sum, modulo
  `Base` to the width of the CRC field; a small `Base` makes accidental matches of LEN, EOI
  and CRC frequent instead of rare. The `crc` of a `Framing` is a parameter of the code: the
  model stands for one that fits the field, as the default does for two bytes. With the
  default and one byte, `to_bytes` raises for sums above 255.
* `may`, `framing` and `markFirst` are variables that never change: one run covers
  several surroundings, framings or habits.
* `AsyncBridge` follows asyncio from Python 3.12 on, too, where `wait_for` runs the read in
  the task that calls it. A `StreamReader` has one waiter, and who wakes clears it. A client
  connects again only when the tasks of the old link are done with it.
* The decoders work on bytes as far as a property can tell bytes apart: RFCOMM frames with
  their checksum, SDP elements, L2CAP payloads. Record and packet headers are records with
  the fields the readers look at, and data that zlib or struct would refuse are not among the
  inputs; rssi, opcode names and the wording of labels are left out. SDP sizes are exact up to
  2^30, which exceeds all data.
  A name in an assigned-number table is `<<table, number>>`.
* An intermediate result that several conjuncts use is bound with `\E x \in {...}`: TLC then
  computes it once.
* A `CaptureSession` ends with its pull, which keeps the snoop log, the host's reader and
  the properties about both in one behaviour. SDP data elements are recursive, which is
  why these modules are only model-checked.
* esphome, Home Assistant, bleak, Frida, pybluez, uiautomator, the phone's stack and the
  vendor's app are external, modelled from how the code uses them. The app that
  Frida watches writes its socket with `write(byte[])`; what it writes with `write(byte[], int,
  int)` is not in the model, and not claimed to be reported.
* The package of the Govee integration imports from `homeassistant.helpers.sensor`, so that
  Home Assistant may fail to load it: `loads` takes either value, and nothing is set up without
  it. Its updates have plain strings for keys, so its entities show no reading, and none is
  claimed for them.
* `MCHost` puts tools that share no state side by side: its states are the sum of theirs,
  not the product.

## 3. Runs

| run | module, cfg | shows | size |
|---|---|---|---|
| `links` | `MCSppLinks`, `SppLinks.cfg` | two devices, one channel to discover, three handles, late, lost and unordered answers: serialization, channels, links, no device forgotten (in time); real links, own CLOSE only, handshake offered once, sent or refused (always); every attempt ends and is retried | 99 thousand states |
| `links_channel` | `MCSppLinks`, `SppLinksChannel.cfg` | violation: a late DISCOVERY_COMP gives a device another's channel | |
| `races` | `SppRaces.cfg` | all interleavings of single accesses, with the clock wrapping and refused handshakes: handshake offered, newest link, not forgotten, full time budget | 4.6 million |
| `schedule` | `SppSchedule.cfg` | three devices: absent ones starve nobody | |
| `tcp_bridge` | `TcpBridge.cfg` | order in both directions (`BytePipe`), completeness upstream but for refused writes, departed clients reaped | 790 thousand |
| `tcp_wedged` | `TcpWedged.cfg` | violation: a client that leaves bytes behind while the link is down keeps the slot | |
| `connection` | `Connection.cfg` | quiet, closing and wedged bridges, raising callbacks (`on_state`, too), overlapping start and stop: served, nothing leaks, quiet after stop, the loop goes on and the connection heals | 211 thousand |
| `connection_stop` | `ConnectionStop.cfg` | violation: `stop` may wait for ever | |
| `bridge` | `Bridge.cfg` | three framings, frames, cut frames and noise in any chunks | 136 thousand |
| `tap` | `Tap.cfg` | a caller who marks first reads back exactly the action's frames; nobody's frames are credited to a later action | 1.6 million |
| `host` | `MCHost`, `Host.cfg` | the tools around the bridge: captures read back what was logged, RFCOMM and SDP as meant; an accepted configuration runs; labels; one subscription; no missed write; each frame once; a tap hits its label; a sensor is set up once and the meter's entities show its last reading | 723 thousand |
| `tap_mark_late` | `TapMarkLate.cfg` | violation: `tap_and_mark` loses frames that precede its mark | |

Why the bounds are enough:

* `links`: two devices are the least for which an answer can be credited to the wrong
  one, and every property speaks of at most two devices or two handles. Three handles
  let one device have an old link and a new call while the other holds a link. `MAX_DEVICES` is four;
  the theorems cover any number.
* `races`: two links let a CLOSE of the old one meet the OPEN of the new one. `AnswerTime`
  exceeds `ConnectTimeout`, so answers come late as well as in time; `Start = 29` of
  `Wrap = 32` lets every comparison straddle the wrap. `MaxTicks` allows an attempt that
  times out and a second one to its end.
* `schedule`: three devices, so that two failing ones precede the last; the backoff doubles
  to its cap.
* `tcp_bridge`: ring, socket and chunk of two bytes and four bytes down overflow the ring,
  fill the socket and span two clients; three bytes up need two chunks.
* `connection`: two connections (one closing, one open) and two tasks (an old one that has
  been cancelled, a new one); both are reused, so behaviours are unbounded.
* `bridge`: three items per connection, so that a damaged one lies between two others or
  follows one; framings as the two presets, and one whose LEN does not count the CRC.
* `tap`: two actions, so that there is a next mark to be credited; the time suffices
  for both with the app's reaction to each.
* `host`. Capture: two packets out of a table with whole, split, cut, continued, malformed
  and foreign ones, so that each kind meets each other kind, a restart and any cut of the
  file; one of the foreign packets is an SDP response that passes for an RFCOMM frame. Sensors: two addresses and three flows, the least for two flows of one sensor next
  to another one. Configuration: up to five entries, one more than `MaxDevices`, from a
  table with clashing, misspelt and incomplete ones. Numbers: two published rows, so that
  one may override a shipped name and one be foreign. GATT: two characteristics in all
  their spellings. Frida: four calls of the app. Asyncio: two tasks, two links of two
  frames in halves. UI: three screens, on which the same label is elsewhere, renamed,
  half scrolled out or absent.

### Fairness

* `SppLinks!Fairness`: the stack comes up, the loop keeps calling `manage_connections_`
  (weak fairness of `Timeout` and of "some attempt"), and the stack reports or loses what it
  was asked. Nothing is assumed of a single device or of success.
* `TcpBridge!FairSpec`: only that the loop task runs. The link and the clients owe nothing.
* `SppSchedule!Fairness`: the loop runs and time passes.
* `SppConnection!Fairness`: the event loop runs what is ready and timeouts expire (weak
  fairness); a bridge that is tried again and again answers now and then, and its
  handshake gets through now and then (strong fairness of `DialOk` and `GreetOk`). Only
  `Heals` needs the latter, and it is a statement about a bridge that exists.
* `MCHost` states no fairness: its properties are invariants.

## 4. Disagreements between the code and its words

Four are kept as runs (`findings` in `PROJECT.json`): the channel that lands on another
device, the client whose unread bytes hold the slot, the `stop` that never returns, the
frames that `tap_and_mark` does not read back. Four more are findings without a run:

* a continued SDP response can raise a `TypeError` that `sdp_records` does not catch, and with
  it every record of the capture is lost (`sdp.py` 85, `capture.py` 85);
* continuation fragments are "skipped and counted", but nothing counts them (`hci.py` 11, 123);
* `mux_command` looks up a masked octet in a table of shifted ones, so that PN and MSC are
  unknown and TEST is called PN (`rfcomm.py` 43, 133);
* the minor class of peripherals and of network access points is looked up with all six
  bits, though the tables name a sub-field (`numbers.py` 118, 125).

Others were met while modelling, and are recorded here and under `hazards`:

* a late OPEN for another device clears `connecting_idx_`; the device being connected is left
  without link, attempt or `want_reconnect` (`cpp` 114);
* a failed OPEN handled while the loop gives up the same attempt and claims the next one
  wipes out the new claim (`cpp` 101-114);
* when the link bounces inside `send_on_open_` the handshake can go out early, or twice
  (`cpp` 197-200);
* `now - connect_started_` wraps when DISCOVERY_COMP restarts the timer between the two
  reads, and the attempt loses its budget (`cpp` 159-163);
* a handshake that `esp_spp_write` refuses, or that fails in a WRITE event, is lost:
  the flag is cleared before the call and both statuses are ignored, so that link never gets
  one (`cpp` 146-149, 199-200);
* a chunk whose `esp_spp_write` fails is lost, although link and client stay as they are:
  `recv` has taken it from the socket. A refusal at once also sets `spp_congested`, which pauses
  the client until the next CONG or OPEN (`cpp` 146-149, 259-263);
* `connecting_idx_` is tested and read again: if the callback has set it to -1 in between,
  the loop reads and writes `devices_[-1]`, and so does the callback when the loop gives the
  attempt up (`cpp` 81-92, 160-167);
* bytes that the client's socket does not take are lost though they were in the ring
  (`cpp` 245-246), and what is left in the ring goes to the next client (`cpp` 240);
* `spp_congested` set for a refused write after the link was replaced pauses the client
  until the next CONG or OPEN (`cpp` 263);
* a low-index device whose link comes and goes can hold off a later one for ever, and so
  can absent devices if `MAX_BACKOFF_MS` does not outlast their failing attempts
  together (`cpp` 174-178);
* `start()` during `stop()` runs two loops over one reader and writer (`connection.py` 76-88);
  `wait_closed` has no timeout (`connection.py` 114); `send` can overtake `on_connect`
  (`connection.py` 136-141);
* `_close` calls `on_state` before it closes the writer: an `on_state` that raises leaves the
  connection open, and a `start` that follows overwrites the writer with nobody left to close it
  (`connection.py` 102-116, 129-131);
* a stray SOI with a plausible LEN holds back the frames behind it (`framing.py` 147-153), and
  with `len_counts_crc=False` the shortest frames are refused (`framing.py` 147);
* `correlate` compares the host's clock with the phone's (`capture.py` 133, 151): `tap`
  takes them as equal; first fragments count as whole PDUs (`hci.py` 121-128);
* a payload that is not RFCOMM passes for a frame if its lengths and eight bits of FCS happen to
  agree: the SDP response of transaction 0x6301 reads as a UA on DLCI 1 (`rfcomm.py` 140-188);
* the Govee integration imports `SensorDeviceClass` from `homeassistant.helpers.sensor` where the
  meter takes it from `homeassistant.components.sensor`, and keys its data with plain strings
  where the meter makes a `PassiveBluetoothEntityKey` (`govee_ble_re/__init__.py` 24, 56-61):
  if it loads at all, no entity of it shows a reading;
* on Python before 3.12, a second task in `AsyncSppBridge.read_frames` gets a `RuntimeError`
  from a read that runs in a task of its own, and frames it has collected are lost; `aclose`
  clears `_reader` and `_writer` after its await even if another task has connected
  meanwhile (`spp.py` 134, 156-158);
* a `uiautomator dump` that fails with exit status 0 makes `tap` act on the dump before
  (`android.py` 96-98);
* an exception between spawn and resume leaves the app suspended (`frida.py` 79-91).

## 5. Proofs

The theorems hold for every value of the constants that satisfies the assumptions named in
the modules. They go action by action, one lemma per conjunct that an action can disturb.
The inductive invariants of `SppRaces`, `SppConnection`, `AsyncBridge` and `TapAndMark` were checked by TLC
on a small instance before they were proved.

**`SppLinksProofs`** (for every `N`, `Handle`, `Remote`, `Config`, `OnOpen`; assumed: the configured
channels are right, `NoHandle` is not a handle, there is a device)

| theorem | states |
|---|---|
| `TypeCorrect` | `Spec => []TypeOK` |
| `OpenLinksAreReal` | `[]OpenHasLink`, late answers or not |
| `HandshakeOnce` | `[]HandshakeOncePerLink`, likewise: pending until it was sent or refused, and never offered twice |
| `OnlyOwnCloseHolds` | the action property `OnlyOwnClose` |
| `AttemptsSerialized` | `[]SerializedInTime`: one attempt at a time, as long as no answer comes late |
| `ChannelsOwn` | `[]ChannelIsOwnInTime` |
| `LinksKnown` | `[]LinkIsKnownInTime` |
| `NoneForgotten` | `[]NoDeviceForgottenInTime` |

The argument has two layers. `LinkInv` holds always: the stack's handles are apart
(`HandlesOwned`, about calls and links together), an open device's handle is that of a link to
it, and only live links were greeted or refused. `HandlesOwned` is what makes `OpenHasLink`
inductive: without it a CLOSE of one link could take down another device, since `by_handle_`
returns the first match; `DistinctHandles` and `ByHandleFinds` turn it into "`by_handle_`
finds the one". `InTimeInv` holds until `late`: `Serialized` makes the device of an answer
the connecting one, so that a DISCOVERY_COMP is credited rightly and an OPEN clears its own
attempt; `ConnectingIsDown` is needed for `LinkIsKnown`, because an OPEN for a device with a
link would overwrite its handle. `Timeout` either leaves nothing unanswered or sets `late`,
which is why the implication `~late => InTimeInv` is inductive.

**`SppRacesProofs`** (for any clock width, times, number of links; assumed: the budget
`ConnectTimeout` is shorter than the clock's round less the modelled ticks)

| theorem | states |
|---|---|
| `TypeCorrect`, `RaceCorrect` | types; the inductive invariant `RaceInv` |
| `LinkIsNewest` | `[]NewestLink`, at any interleaving of single accesses |
| `HandshakeHasItsTurn` | `[]HandshakeTried`, likewise |
| `DeviceKept` | `[]NotForgotten`, until an attempt is given up unanswered |
| `BudgetIsFull` | `[]FullBudget`, wherever the clock wraps |

`RaceInv` says of every pair of program points what is in between. `LinkInv`: which of
`handle`, `open` and the newest link agree while the handlers of OPEN and CLOSE are between
assignments that belong together. `GreetInv`: the handshake is pending, sent or refused, but for
the two accesses that offer it to the stack. `Fault` goes back to an initial state. `AttemptInv`, until `late`: no answer is outstanding or handled
before `connecting` is set, and the device is known. `TimeInv`: there are a start of the clock and two
moments, of the loop's last reading and of the attempt's start, that explain `clock`, `now` and
`started`, so that the wrapped difference is the real one.

**`TcpBridgeProofs`** (for any sizes of ring, socket and chunk, any number of bytes and clients;
assumed: the sizes are not zero)

| theorem | states |
|---|---|
| `TypeCorrect` | `Spec => []TypeOK` |
| `PipesInOrder` | `[]PipeInv`, the inductive invariant |
| `PipesRefine` | `BothInOrder`: each direction implements the abstract `BytePipe` |
| `OnlyRefusedLostUp` | `[]UpComplete`: until something breaks, the device misses only what `esp_spp_write` refused or failed to send |

Each direction is three sequences of numbered bytes, what was delivered, what is staged in
the middle and what is in the buffer behind; `Flows` says that each is increasing and lies
below the one behind it. Four lemmas say that producing, passing on, dropping from either
end and delivering keep `Flows`, and each action is one of these or none. Two actions throw bytes
away at the socket, and `Flows` is loose enough for them; that it implies the guard of
`BytePipe`'s delivery is the refinement. For `UpComplete` the strengthening is `Held`: until
something breaks, a client's connection is whole and a recv'd chunk waits on an open link.

**`SppConnectionProofs`** (for any number of connections and tasks, and any backoff)

| theorem | states |
|---|---|
| `TypeCorrect`, `ConnCorrect` | types; the inductive invariant `ConnInv` |
| `Served` | `[]ConnectedIsServed` |
| `NothingLeaks` | `[]NoLeak` |
| `StopQuiets` | `[]StoppedIsQuiet` |
| `Persists` | `[]KeepsRunning` |

With a raising `on_state`, `NothingLeaks` and `StopQuiets` except the connections in `left`, and
`Persists` is for callbacks that do not raise; `OneWriter` says that a writer
nobody reads for is one of those, and not reported as connected. `connected => writer # 0` holds whatever callers do. The rest is for callers of `start` and `stop`
that take turns, as the properties are: `OneTask` (every live task is the object's own or
the one a `stop` waits for), `OneWriter` (the writer is the connection of the task that greets
or reads), `NoLeak`, and `Unending` (a loop whose callbacks do not raise does not end by itself).
A cancellation or an exception unwinds a task through `_close`; what `Unwind` leaves behind is
one lemma, used by every action that raises; it has two cases, as
`on_state` returns or raises.

**`SppBridgeProofs`, on the parser** (for every framing that `FramingAssumption` allows: any base, any fields, stuffed
or not; assumed of a stuffed one, that its escape byte is neither SOI nor EOI, without which
`Stuffing` could not keep them out of the body as it says)

| theorem | states |
|---|---|
| `Continues` | parsing `s` and then `t` behind what `s` has left is parsing `s \o t` |
| `BuiltIsParsed` | `IterFrames(Build(frame))` is that frame and nothing left, and no proper prefix gives a frame |
| `Resynchronizes` | with stuffing, whatever came before, a whole frame behind a whole frame is found |

Both parsers are one walk over the buffer: at an index they wait (`Waits`), or they have
`Found` a frame or none and go on at `NextAt`; `FromScans` says so of the two recursive
functions of `Framing`. `Moves` is the heart: what the walk does at an index depends on
the bytes it goes past, so that it does the same in any buffer that holds these bytes there or `d`
bytes further on. From that follow, by induction from the end of the buffer, `Prefix` (the walk of
a longer buffer passes the index where the walk of the shorter one stops, with the same
frames) and `FromDrop` (what it does from there is the parse of the rest by itself), and from these
`Continues`.

`BuiltIsParsed` is about frames with `Fitting`: those whose length LEN can hold (for others
`to_bytes` raises in `build`) and, without stuffing, whose LEN is between 1 + CRC bytes and
`max_frame` (others `_iter_unstuffed` takes for a stray SOI). Its steps are the fields one by one:
`WrittenBack` (`FromBytes` undoes `ToBytes`, by induction on the width, with `Division`), `Understood`
(`DecodeInner` gives the frame back from LEN, body and CRC) and, with stuffing, `ReadBack` (`Decode`
undoes `Encode`: a stuffed body holds no SOI and no EOI, and `DecodeLater` says that decoding does not
look back). `OneStep` and `OneWait` then say that the walk takes a whole frame in one step and
waits at every proper prefix of it. `Resynchronizes` uses that a buffer that ends in an EOI leaves
nothing (`EndsClean`), and `Continues`.

Two things take more room than their content: that a recursively defined
function exists at all, since the provers only know that it is chosen (`Recursion` in
`SequenceFacts`, used for `FromBytes`, `ToBytes`, `Encode`, `Decode`, `FlattenSeq` and both parsers), and
that a step that keeps `framing` keeps what the parser computes (`ParseStays`). Two parses of
the same buffer are equal by induction on the index there; `Framing` writes its recursion as
functions on indices so that this is possible.

**`SppBridgeProofs`, on the client** (for every framing as above, any replies of frames, cut frames and noise, any
number of items and any cuts)

| theorem | states |
|---|---|
| `TypeCorrect` | `Spec => []TypeOK` |
| `ChunksAgree` | `[]ChunksDoNotMatter` |
| `AllDelivered` | `[](AllFit => Delivered)`: callers have got the frames that have come in whole, in order |

With `Continues` the invariant `Agrees`, that what was returned, collected and kept is the parse
of everything received, goes through `Recv` in one step; `RestBound` gives the bound on the
leftover. `AllDelivered` adds no state to it: what callers have is `IterFrames(Received)`, and
`Parses(k)`, by induction on the items, says that the parse of the first `k` items is their frames
and leaves nothing, so that `Continues` carries it over the next item, of which all
(`AfterWhole`) or the first bytes (`TakesFrom`) have come in. `AllFit` is `Fitting` for the frames of the
stream. It is needed: a body too short for the parser is skipped over, and if it holds an SOI
the parser may take that for a frame. The run also has such short frames, without an SOI.

**`TapProofs`** (for any number of actions and frames, any delays, and any clocks and window but for the
hypotheses below)

| theorem | states |
|---|---|
| `SessionCorrect` | the inductive invariant `TapInv` |
| `NoneCreditedLater` | `[]NeverCreditedLater`, if the phone's clock is not ahead of the host's |
| `ReadBack` | `[]ReadBackMarkedFirst`, if the clocks agree and the window is at least `MaxAdb + Reaction` |

The hypotheses are those of the tool: host and phone are compared by their clocks, and a
window shorter than the adb call and the reaction together cuts frames off. The run meets them with
equality.

`TapInv` is about time: an action begins when the app is done with the one before
(`OneByOne`); a PDU begins within the reaction to the tap that caused it (`LogInv`); a mark comes
when the app is done with all actions before its own, and marks are in the order of time (`MarksInv`);
a caller who marks first has one mark per action, `MaxAdb` before its tap at most (`FirstInv`).
Nothing is said of the order of the log, since `correlate` sorts.

The other half is what `correlate` makes of log and marks. `Lists(s, S)`, that the elements of
`s` are those of `S`, goes through maps (`ListsMap`), filters (`Sifted`), concatenation and the sort
(`ListsByTime`), so that `EventsRead` can say that the wire events are one for each record that
begins a PDU, with its time, whatever it carries. That the sort keeps the elements rests on `Places`:
the places that the elements take are all different (`Precedes` is a strict order), so by counting
every place is taken. `Credited` puts it together: mark `i` has the frames for which it is the last one
before them (`Holds`), within the window. The two theorems are then arithmetic on `TapInv`.

**`HostProofs`** (for any tasks, links and calls; any entries a user may write; any addresses and
flows; any screens and labels; anything the app writes; any peripheral and spelling)

| theorem | states |
|---|---|
| `AsyncCorrect` | the inductive invariant `AsyncInv` of `AsyncBridge` |
| `FramesAreShared` | `[]EachFrameOnce` |
| `AcceptedStarts` | `[]AcceptedIsStartable` under `BridgeConfigSpec` |
| `OneEntryEach` | `[]SetUpOnce` under `SensorSpec` |
| `TapsHit` | `[]TapHitsLabel` under `UiSpec` |
| `NoneMissed` | `[]NoWriteMissed` of `FridaCapture` |
| `OneEach` | `[]OneUuidOneSubscription` of `GattClient` |

`AsyncInv` has three parts. `StreamInv` says that the reader's buffer is the last halves fed, in order,
and is empty while a task waits; `LeftoverInv` that the leftover is the half frame taken last or
nothing; `Shared` that what the tasks have collected or returned are increasing, pairwise
disjoint and together all the frames completed by what was taken. The last two hold until a
read of another task has failed, after which frames collected there are lost with the
exception.

The invariant of `BridgeConfig` follows the configuration through its forms: `YamlOK`; `ConfigOK`
(what was compiled is the validation of what is written now, and the build's connections
cover its devices); `FirmwareOK` (`devices_` is a prefix of what the generated calls of
`add_device` make, all of it when set-up has run). "Distinct" is counted by the code with the
length of a set; `AsManyAsPlaces` turns that into "no two alike".

`SetUpOnce` is inductive with the types, as it speaks of the flows that may still
finish. For `TapsHit` the invariant adds that, while the screen stays, the file is the
dump of the tap in progress and a node that was found is on that screen; `UiAssumption` takes
from uiautomator that a shown node covers at least a pixel, without which its
centre need not be in it.

For `NoneMissed`, `FridaInv` says that the writes among what was reported and what is on its way
are, one for one, the hooked writes since `before`, and that an app that was spawned is suspended,
with nothing written, until its hooks are in. The three lists are maps of elements to
sequences (`FlatMap`), so that each grows by what the last call adds to it (`FlatMapConcat`
in `SequenceFacts`).

For `OneEach`, `PeripheralAssumption` and `SpellingAssumption` say which spellings a caller may use: a
number, four or eight digits, or the whole UUID, in capitals or braces or not. That `NormalizeUuid`
sends all spellings of one number to one UUID, and those of two numbers to two, is what the proof
turns on; the invariant is then that the backend's subscriptions are those asked for.

Only model-checked:

* liveness under fairness (`AttemptEnds`, `KeepsTrying`, `NoStarvation`, `QuietClientReaped`,
  `ReapedOnUsableLink`, `Heals`), which the prover does not support;
* `RecoversAfterCut`: it is not true of every framing, since a cut frame and the frame it swallows
  can together pass the CRC. The runs show it for theirs; `Resynchronizes` is the part that holds
  for all;
* `ShowsLastReading` and the properties of `CaptureSession`, which speak of what recursive decoders
  compute for the payloads of a run;
* `LabelsMeanTheNumber`, which is about tables that the run holds in full.

## 6. Not modelled

* `apk.py`: it runs a decompiler and searches its output with patterns. What it promises is
  what the patterns match; there is no state, order or failure to check.
* `AndroidDriver.launch`, `text`, `key`, `swipe`, `devices`: one adb call each, which keep nothing.
  For these two the components are listed as partly modelled.
* `GattClient` reads, writes and the listing of services, which pass through to bleak.
* Opcode and type names, rssi, titles and placeholders, printing: wording.
* The command line tools and examples other than the two integrations, which only call
  what is modelled.
* The nested tables of appearances and device classes in `gen_assigned_numbers.py`, which
  `Regenerate` leaves as shipped.
* Fields, headers and strings byte by byte where a record with the fields tells the same.
* Recovery of a task that goes on with a connection after an error was raised to it: the
  clients' classes leave that to their callers.

Runs check at most what they list: the definitions `TypeOK` of modules other than `SppLinks`
describe their state for a reader, and are in no run. Section 5 says for which of them
they are proved.

## 7. Plan

The most important behaviour came first: 1 to 8 are done, and 9 as far as section 5 goes.

1. Connection manager: `SppLinks`, `SppRaces`, `SppSchedule`.
2. First theorems: `SppLinksProofs`.
3. Data path: `BytePipe`, `TcpBridge`.
4. Client: `SppConnection`.
5. Stream and capture: `Framing`, `SppBridge`, `Capture`, `TapAndMark`.
6. Decoders and the sessions that feed them: `Rfcomm`, `Btsnoop`, `Hci`, `Sdp`, `Bluez`,
   `CaptureSession`.
7. `BridgeConfig`; `Numbers`, `GattClient`, `FridaCapture`, `AppUi`, `AsyncBridge`.
8. The example integrations: `Advertising`, `SensorProtocols`, `PassiveSensors`.
9. Proofs. Left: `RecoversAfterCut` under an assumption on the CRC; `ShowsLastReading`; the types of
   `SppSchedule`.
10. Composition: `SppConnection` on top of `TcpBridge`, so that "heals" is a statement about the
    bytes a client sends and a device receives.
