------------------------------ MODULE SppLinks ------------------------------
(***************************************************************************)
(* The connection manager of the ESP32 bridge, components/untether_spp.    *)
(*                                                                         *)
(* Two tasks share one UntetherSpp object: the Bluedroid task runs         *)
(* on_spp_event, the ESPHome loop task runs manage_connections_ and        *)
(* send_on_open_.  Here each callback and each loop step is one action;    *)
(* SppRaces splits the same steps into single accesses.  The Bluetooth     *)
(* stack is the environment: it keeps the SDP queries and the RFCOMM calls *)
(* it was asked for and answers them in any order, or not at all.          *)
(*                                                                         *)
(* Time is left out.  The three millis() comparisons (the connect timeout, *)
(* the backoff and the 300 ms settling delay) may come out either way at   *)
(* any moment, so every schedule of the real clock is a behaviour here;    *)
(* last_attempt, backoff_ms, connect_started_ and open_at, which feed only *)
(* those comparisons, and the index order of the scan, are in SppSchedule. *)
(***************************************************************************)
EXTENDS Naturals, FiniteSets

CONSTANTS
  N,            \* number of configured devices, devices_.size()
  Handle,       \* RFCOMM handles of the stack
  NoHandle,     \* spp_handle = 0
  Remote,       \* Remote[d]: the channel device d's SPP server listens on
  Config,       \* Config[d]: the configured channel, 0 to discover it
  OnOpen        \* the devices with a non-empty on_open handshake

Device == 1..N
NoDevice == 0   \* connecting_idx_ = -1

ASSUME NAssumption == N \in Nat \ {0}
ASSUME HandleAssumption == NoHandle \notin Handle
ASSUME ChannelAssumption ==
  /\ Remote \in [Device -> Nat \ {0}]
  /\ Config \in [Device -> Nat]
  /\ \A d \in Device : Config[d] \in {0, Remote[d]}
ASSUME OnOpenAssumption == OnOpen \subseteq Device

VARIABLES
  ready,        \* spp_ready_
  connecting,   \* connecting_idx_
  channel,      \* SppDevice.channel
  open,         \* SppDevice.spp_open
  handle,       \* SppDevice.spp_handle
  want,         \* SppDevice.want_reconnect
  congested,    \* SppDevice.spp_congested
  pending,      \* SppDevice.pending_on_open
  looking,      \* stack: devices with an SDP query outstanding
  calls,        \* stack: RFCOMM connects outstanding
  links,        \* stack: RFCOMM links that are up
  greeted,      \* history: handles of live links whose device got the handshake
  refused,      \* history: handles of live links the stack did not take it for
  late          \* history: was an attempt given up that the stack still works on?

bridge == <<ready, connecting, channel, open, handle, want, congested, pending>>
stack == <<looking, calls, links, greeted, refused>>
vars == <<ready, connecting, channel, open, handle, want, congested, pending,
          looking, calls, links, greeted, refused, late>>

Call == [h : Handle, dev : Device, ch : Nat]
Link == [h : Handle, dev : Device]

TypeOK ==
  /\ ready \in BOOLEAN
  /\ connecting \in Device \cup {NoDevice}
  /\ channel \in [Device -> Nat]
  /\ open \in [Device -> BOOLEAN]
  /\ handle \in [Device -> Handle \cup {NoHandle}]
  /\ want \in [Device -> BOOLEAN]
  /\ congested \in [Device -> BOOLEAN]
  /\ pending \in [Device -> BOOLEAN]
  /\ looking \subseteq Device
  /\ calls \subseteq Call
  /\ links \subseteq Link
  /\ greeted \subseteq Handle \cup {NoHandle}
  /\ refused \subseteq Handle \cup {NoHandle}
  /\ late \in BOOLEAN

-----------------------------------------------------------------------------
(* The stack, and the calls the bridge makes into it.                      *)

Used == {c.h : c \in calls} \cup {l.h : l \in links}

\* esp_spp_connect: the stack takes a handle for the call, or refuses it; the
\* bridge ignores the returned status.
Dial(d, ch) ==
  \/ \E h \in Handle \ Used : calls' = calls \cup {[h |-> h, dev |-> d, ch |-> ch]}
  \/ UNCHANGED calls

\* esp_spp_start_discovery: likewise accepted or refused, status ignored.
StartDiscovery(d) == looking' \in {looking, looking \cup {d}}

\* MUTANT: the failed device is not queued again.
NoRetry(d) == UNCHANGED want

\* A failed attempt leaves the device waiting for another.
Retry(d) == want' = [want EXCEPT ![d] = TRUE]

\* Nothing the bridge asked for is still unanswered.
Quiet == looking = {} /\ calls = {}

\* MUTANT: the handle is not compared, as if there were a single device.
ByHandleAnyOpen(h) == {d \in Device : open[d] /\ \A e \in Device : open[e] => d <= e}

\* by_handle_: the first device whose open link has this handle, as a set.
Bears(d, h) == open[d] /\ handle[d] = h
ByHandle(h) == {d \in Device : Bears(d, h) /\ \A e \in Device : Bears(e, h) => d <= e}

-----------------------------------------------------------------------------
(* The loop task.                                                          *)

\* MUTANT: a device is connected without waiting for the attempt in flight.
AttemptAtOnce(d) ==
  /\ ready
  /\ ~open[d]
  /\ want[d]
  /\ want' = [want EXCEPT ![d] = FALSE]
  /\ connecting' = d
  /\ IF channel[d] > 0
     THEN Dial(d, channel[d]) /\ UNCHANGED looking
     ELSE StartDiscovery(d) /\ UNCHANGED calls
  /\ UNCHANGED <<ready, channel, open, handle, congested, pending, links, greeted,
                 refused, late>>

\* manage_connections_, no attempt in flight: start one for a device that wants it.
Attempt(d) ==
  /\ ready
  /\ connecting = NoDevice
  /\ ~open[d]
  /\ want[d]
  /\ want' = [want EXCEPT ![d] = FALSE]
  /\ connecting' = d
  /\ IF channel[d] > 0
     THEN Dial(d, channel[d]) /\ UNCHANGED looking
     ELSE StartDiscovery(d) /\ UNCHANGED calls
  /\ UNCHANGED <<ready, channel, open, handle, congested, pending, links, greeted,
                 refused, late>>

\* MUTANT: the timed-out attempt keeps the radio.
TimeoutHolds ==
  /\ ready
  /\ connecting # NoDevice
  /\ Retry(connecting)
  /\ late' = (late \/ ~Quiet)
  /\ UNCHANGED <<ready, connecting, channel, open, handle, congested, pending>>
  /\ UNCHANGED stack

\* manage_connections_, an attempt in flight for over CONNECT_TIMEOUT_MS: give it
\* up.  Nothing is cancelled in the stack.
Timeout ==
  /\ ready
  /\ connecting # NoDevice
  /\ Retry(connecting)
  /\ connecting' = NoDevice
  /\ late' = (late \/ ~Quiet)
  /\ UNCHANGED <<ready, channel, open, handle, congested, pending>>
  /\ UNCHANGED stack

\* esp_spp_write of the handshake: the stack sends it, or refuses it at once or by
\* a failed WRITE event later.  send_on_open_ ignores the status, and the callback
\* looks at nothing of a WRITE event but its congestion flag.
WriteHandshake(h) ==
  \/ greeted' = greeted \cup {h} /\ UNCHANGED refused
  \/ refused' = refused \cup {h} /\ UNCHANGED greeted

\* MUTANT: pending_on_open stays set after the write.
SendOnOpenAgain(d) ==
  /\ pending[d]
  /\ open[d]
  /\ ~congested[d]
  /\ WriteHandshake(handle[d])
  /\ UNCHANGED <<ready, connecting, channel, open, handle, want, congested,
                 pending, looking, calls, links, late>>

\* send_on_open_: the flag goes first, so what the stack does with the write is not
\* known to anyone afterwards.
SendOnOpen(d) ==
  /\ pending[d]
  /\ open[d]
  /\ ~congested[d]
  /\ pending' = [pending EXCEPT ![d] = FALSE]
  /\ WriteHandshake(handle[d])
  /\ UNCHANGED <<ready, connecting, channel, open, handle, want, congested,
                 looking, calls, links, late>>

\* tcp_service_, where it touches the link state: a refused esp_spp_write.
WriteRefused(d) ==
  /\ open[d]
  /\ ~congested[d]
  /\ congested' = [congested EXCEPT ![d] = TRUE]
  /\ UNCHANGED <<ready, connecting, channel, open, handle, want, pending>>
  /\ UNCHANGED <<stack, late>>

-----------------------------------------------------------------------------
(* The Bluedroid task: one action per event of on_spp_event.               *)

SppInit ==
  /\ ~ready
  /\ ready' = TRUE
  /\ want' = [d \in Device |-> TRUE]
  /\ UNCHANGED <<connecting, channel, open, handle, congested, pending>>
  /\ UNCHANGED <<stack, late>>

\* MUTANT: connecting_idx_ is not checked before it is used.
DiscoveryFoundUnchecked(d) ==
  /\ d \in looking
  /\ looking' = looking \ {d}
  /\ channel' = [e \in Device |-> IF e = connecting THEN Remote[d] ELSE channel[e]]
  /\ Dial(connecting, Remote[d])
  /\ UNCHANGED <<ready, connecting, open, handle, want, congested, pending, links, greeted,
                 refused, late>>

\* DISCOVERY_COMP for a query about d.  The event does not name d: the bridge
\* takes it for the connecting device.
DiscoveryFound(d) ==
  /\ d \in looking
  /\ looking' = looking \ {d}
  /\ IF connecting = NoDevice
     THEN UNCHANGED <<channel, calls>>
     ELSE /\ channel' = [channel EXCEPT ![connecting] = Remote[d]]
          /\ Dial(connecting, Remote[d])
  /\ UNCHANGED <<ready, connecting, open, handle, want, congested, pending, links, greeted,
                 refused, late>>

DiscoveryFailed(d) ==
  /\ d \in looking
  /\ looking' = looking \ {d}
  /\ connecting' = NoDevice
  /\ IF connecting = NoDevice THEN UNCHANGED want ELSE Retry(connecting)
  /\ UNCHANGED <<ready, channel, open, handle, congested, pending, calls, links, greeted,
                 refused, late>>

\* MUTANT: OPEN is taken to be for the connecting device instead of by address.
OpenOkByIndex(c) ==
  LET who == IF connecting = NoDevice THEN c.dev ELSE connecting IN
  /\ c.ch = Remote[c.dev]
  /\ calls' = calls \ {c}
  /\ links' = links \cup {[h |-> c.h, dev |-> c.dev]}
  /\ handle' = [handle EXCEPT ![who] = c.h]
  /\ open' = [open EXCEPT ![who] = TRUE]
  /\ congested' = [congested EXCEPT ![who] = FALSE]
  /\ pending' = [pending EXCEPT ![who] = who \in OnOpen]
  /\ connecting' = NoDevice
  /\ UNCHANGED <<ready, channel, want, looking, greeted, refused, late>>

\* OPEN with success.  Only a call to the channel the peer listens on gets there.
OpenOk(c) ==
  /\ c.ch = Remote[c.dev]
  /\ calls' = calls \ {c}
  /\ links' = links \cup {[h |-> c.h, dev |-> c.dev]}
  /\ handle' = [handle EXCEPT ![c.dev] = c.h]
  /\ open' = [open EXCEPT ![c.dev] = TRUE]
  /\ congested' = [congested EXCEPT ![c.dev] = FALSE]
  /\ pending' = [pending EXCEPT ![c.dev] = c.dev \in OnOpen]
  /\ connecting' = NoDevice
  /\ UNCHANGED <<ready, channel, want, looking, greeted, refused, late>>

OpenFailed(c) ==
  /\ calls' = calls \ {c}
  /\ Retry(c.dev)
  /\ connecting' = NoDevice
  /\ UNCHANGED <<ready, channel, open, handle, congested, pending, looking, links,
                 greeted, refused, late>>

\* MUTANT: CLOSE does not ask for a reconnect.
CloseForgets(h) ==
  /\ h \in Used
  /\ calls' = {c \in calls : c.h # h}
  /\ links' = {l \in links : l.h # h}
  /\ greeted' = greeted \ {h}
  /\ refused' = refused \ {h}
  /\ open' = [d \in Device |-> open[d] /\ d \notin ByHandle(h)]
  /\ handle' = [d \in Device |-> IF d \in ByHandle(h) THEN NoHandle ELSE handle[d]]
  /\ UNCHANGED <<ready, connecting, channel, want, congested, pending, looking, late>>

\* CLOSE of handle h: a link that went down, or a call that closed before any OPEN.
Close(h) ==
  /\ h \in Used
  /\ calls' = {c \in calls : c.h # h}
  /\ links' = {l \in links : l.h # h}
  /\ greeted' = greeted \ {h}
  /\ refused' = refused \ {h}
  /\ open' = [d \in Device |-> open[d] /\ d \notin ByHandle(h)]
  /\ handle' = [d \in Device |-> IF d \in ByHandle(h) THEN NoHandle ELSE handle[d]]
  /\ want' = [d \in Device |-> want[d] \/ d \in ByHandle(h)]
  /\ UNCHANGED <<ready, connecting, channel, congested, pending, looking, late>>

\* CONG of a live link.
Cong(l, full) ==
  /\ congested' = [d \in Device |-> IF d \in ByHandle(l.h) THEN full ELSE congested[d]]
  /\ UNCHANGED <<ready, connecting, channel, open, handle, want, pending>>
  /\ UNCHANGED <<stack, late>>

\* WRITE completed with the congestion flag set; without it the event does nothing.
WriteCongested(l) ==
  /\ congested' = [d \in Device |-> congested[d] \/ d \in ByHandle(l.h)]
  /\ UNCHANGED <<ready, connecting, channel, open, handle, want, pending>>
  /\ UNCHANGED <<stack, late>>

\* The stack loses an SDP query without reporting anything.
QueryLost(d) ==
  /\ d \in looking
  /\ looking' = looking \ {d}
  /\ UNCHANGED bridge
  /\ UNCHANGED <<calls, links, greeted, refused, late>>

-----------------------------------------------------------------------------

Init ==
  /\ ready = FALSE
  /\ connecting = NoDevice
  /\ channel = Config
  /\ open = [d \in Device |-> FALSE]
  /\ handle = [d \in Device |-> NoHandle]
  /\ want = [d \in Device |-> FALSE]
  /\ congested = [d \in Device |-> FALSE]
  /\ pending = [d \in Device |-> FALSE]
  /\ looking = {}
  /\ calls = {}
  /\ links = {}
  /\ greeted = {}
  /\ refused = {}
  /\ late = FALSE

Loop == Timeout \/ \E d \in Device : Attempt(d) \/ SendOnOpen(d) \/ WriteRefused(d)

DiscoveryComp(d) == DiscoveryFound(d) \/ DiscoveryFailed(d)
OpenEvt(c) == OpenOk(c) \/ OpenFailed(c)

Callback ==
  \/ SppInit
  \/ \E d \in Device : DiscoveryComp(d) \/ QueryLost(d)
  \/ \E c \in calls : OpenEvt(c)
  \/ \E h \in Handle : Close(h)
  \/ \E l \in links : WriteCongested(l) \/ \E full \in BOOLEAN : Cong(l, full)

Next == Loop \/ Callback

\* Liveness: the stack comes up, the loop task keeps running, and the stack
\* eventually answers or loses what it was asked.
Fairness ==
  /\ WF_vars(SppInit)
  /\ WF_vars(Timeout)
  /\ \A d \in Device : WF_vars(DiscoveryComp(d) \/ QueryLost(d))
  /\ WF_vars(\E c \in calls : OpenEvt(c) \/ Close(c.h))
  /\ WF_vars(\E d \in Device : Attempt(d))

Spec == Init /\ [][Next]_vars
FairSpec == Spec /\ Fairness

-----------------------------------------------------------------------------
(* Properties.                                                             *)

\* Connections are serialized (manage_connections_: "one connect/discovery
\* outstanding at a time"): what the stack still owes an answer for is a single
\* query or call, and it is for the device in connecting_idx_.
Serialized ==
  /\ \A d \in looking : d = connecting
  /\ \A c \in calls : c.dev = connecting
  /\ \A c1, c2 \in calls : c1 = c2
  /\ looking = {} \/ calls = {}

\* A channel is only ever the device's own: DISCOVERY_COMP, which carries no
\* address, was attributed to the device that was asked.
ChannelIsOwn == \A d \in Device : channel[d] \in {0, Remote[d]}

\* No link of the stack is leaked: every one of them is the link its device knows
\* of, so its data and its CLOSE reach the device.
LinkIsKnown == \A l \in links : open[l.dev] /\ handle[l.dev] = l.h

\* Once the stack is up no device is forgotten: it has a link, or is being
\* connected, or is waiting for its turn ("Capped-backoff reconnect per device").
NoDeviceForgotten ==
  ready => \A d \in Device : open[d] \/ want[d] \/ connecting = d

\* The four promises above rest on one thing the code does not ensure: that the
\* stack is done with an attempt by the time manage_connections_ gives it up.
\* Until that has once failed, in whatever order the answers come, they hold.
SerializedInTime == ~late => Serialized

\* SDP results land on the device they are about, as long as none comes late.
ChannelIsOwnInTime == ~late => ChannelIsOwn

\* No link is lost track of, as long as no OPEN comes late.
LinkIsKnownInTime == ~late => LinkIsKnown

\* Every device has a link, an attempt or a turn, as long as no answer comes late.
NoDeviceForgottenInTime == ~late => NoDeviceForgotten

\* However late the stack answers: where the bridge thinks it has a link, the
\* stack has one with that handle, to that device, so that no write goes to
\* another device or to a dead handle.
OpenHasLink ==
  \A d \in Device : open[d] => [h |-> handle[d], dev |-> d] \in links

\* No two devices share a handle, so by_handle_ demultiplexes without ambiguity.
HandlesDistinct ==
  \A d, e \in Device : open[d] /\ open[e] /\ handle[d] = handle[e] => d = e

\* The handshake is tried exactly once per link, whatever CLOSE, OPEN and the
\* reuse of handles do in between: it is still pending exactly while the link was
\* not offered it, so no link is skipped and none gets it twice.  It is not said
\* to arrive: a refused handshake is not tried again (send_on_open_ ignores it).
HandshakeOncePerLink ==
  \A d \in OnOpen : open[d] =>
    /\ pending[d] <=> handle[d] \notin greeted \cup refused
    /\ handle[d] \notin greeted \cap refused

\* A link goes down, in the bridge's eyes, only when that very link does: trouble
\* on one device does not disturb the others.
OnlyOwnClose ==
  [][\A d \in Device : open[d] /\ ~open'[d] =>
        [h |-> handle[d], dev |-> d] \in links \ links']_vars

\* The radio is never held for ever: every attempt ends.
AttemptEnds == connecting # NoDevice ~> connecting = NoDevice

\* While answers come in time, a bridge with every device down keeps trying.
KeepsTrying ==
  []~late => []<>(connecting # NoDevice \/ \E d \in Device : open[d])
=============================================================================
