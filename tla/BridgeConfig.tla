---------------------------- MODULE BridgeConfig ----------------------------
(***************************************************************************)
(* components/untether_spp/__init__.py and the start of the firmware: from *)
(* the YAML of the bridge to the program that ESPHome generates and boots, *)
(* over edits, compilations and restarts.                                  *)
(*                                                                         *)
(* An entry is a record of the keys that were written.  A MAC address is   *)
(* [mac, spelled]; a hex string is a sequence of digits, Separator, Junk.  *)
(* esphome.config_validation is external: cv.mac_address forgets the       *)
(* spelling, cv.port is 1..65535.                                          *)
(***************************************************************************)
EXTENDS Integers, SequencesExt, FiniteSetsExt

CONSTANTS
  Written,      \* the entries a user may write
  MaxEntries    \* bound on the entries, of a list and in all

VARIABLES
  yaml,         \* [flat, devices]: each <<>> for absent, or <<what was written>>
  config,       \* the validated configuration: <<>>, or <<devices>>
  sdkconfig,    \* the connections that controller and host are built for
  devices_,     \* the firmware's devices, added one by one
  rings,        \* how many of them have their ring buffer, rb_in
  component     \* "constructed", "running" or "failed"

firmware == <<devices_, rings, component>>
bridgeConfigVars == <<yaml, config, sdkconfig, firmware>>

MaxDevices == 4
MaxPort == 65535
DefaultPort == 8888
Separator == -1
Junk == -2

BridgeConfigInit ==
  /\ yaml = [flat |-> <<>>, devices |-> <<>>]
  /\ config = <<>> /\ sdkconfig = 0
  /\ devices_ = <<>> /\ rings = 0 /\ component = "constructed"

-----------------------------------------------------------------------------
\* The schemas

Digits(text) == SelectSeq(text, LAMBDA c : c # Separator)

\* cv.Invalid is <<>>.
HexBytes(text) ==
  LET cleaned == Digits(text)
  IN IF Len(cleaned) % 2 # 0 \/ Contains(cleaned, Junk) THEN <<>>
     ELSE << [k \in 1..(Len(cleaned) \div 2) |-> 16 * cleaned[2 * k - 1] + cleaned[2 * k]] >>

WrittenOr(entry, key, default) == IF key \in DOMAIN entry THEN entry[key] ELSE default

\* A device as the schemas give it back, with their defaults.
Normalized(entry, port) ==
  [mac |-> entry.mac_address.mac, channel |-> WrittenOr(entry, "channel", 0),
   tcp_port |-> WrittenOr(entry, "tcp_port", port),
   on_open |-> HexBytes(WrittenOr(entry, "on_open_hex", <<>>))]

ValidFields(entry) ==
  /\ "channel" \in DOMAIN entry => entry.channel \in 0..30
  /\ "tcp_port" \in DOMAIN entry => entry.tcp_port \in 1..MaxPort
  /\ "on_open_hex" \in DOMAIN entry => HexBytes(entry.on_open_hex) # <<>>

MatchesSchema ==
  /\ \A k \in DOMAIN yaml.flat : ValidFields(yaml.flat[k])
  /\ \A k \in DOMAIN yaml.devices : \A i \in DOMAIN yaml.devices[k] :
       LET entry == yaml.devices[k][i]
       IN {"mac_address", "tcp_port"} \subseteq DOMAIN entry /\ ValidFields(entry)

-----------------------------------------------------------------------------
\* _validate: <<>> is cv.Invalid

Distinct(devices, key) ==
  Cardinality({devices[k][key] : k \in DOMAIN devices}) = Len(devices)

HasFlat == yaml.flat # <<>> /\ "mac_address" \in DOMAIN yaml.flat[1]
HasList == yaml.devices # <<>>

\* The flat keys are dropped in the list form.
Devices ==
  IF HasFlat THEN << Normalized(yaml.flat[1], DefaultPort) >>
  ELSE [k \in DOMAIN yaml.devices[1] |-> Normalized(yaml.devices[1][k], DefaultPort)]

\* MUTANT: addresses are compared as they were written.
AsWritten ==
  IF HasFlat = HasList THEN <<>>
  ELSE IF Len(Devices) \notin 1..MaxDevices \/ ~Distinct(Devices, "tcp_port")
            \/ (HasList /\ ~Distinct(yaml.devices[1], "mac_address")) THEN <<>>
  ELSE << Devices >>

Validate ==
  IF HasFlat = HasList THEN <<>>
  ELSE IF Len(Devices) \notin 1..MaxDevices \/ ~Distinct(Devices, "tcp_port")
            \/ ~Distinct(Devices, "mac") THEN <<>>
  ELSE << Devices >>

-----------------------------------------------------------------------------
\* Editing and compiling

Reset == devices_' = <<>> /\ rings' = 0 /\ component' = "constructed"
Discards == config' = <<>> /\ sdkconfig' = 0 /\ Reset

Listed == IF HasList THEN Len(yaml.devices[1]) ELSE 0

WriteFlat(entry) ==
  /\ yaml.flat = <<>> /\ Listed < MaxEntries
  /\ yaml' = [yaml EXCEPT !.flat = <<entry>>]
  /\ Discards

WriteDevice(entry) ==
  /\ Listed + Len(yaml.flat) < MaxEntries
  /\ yaml' = [yaml EXCEPT !.devices = IF HasList THEN << Append(@[1], entry) >>
                                      ELSE << <<entry>> >>]
  /\ Discards

StartOver ==
  /\ yaml # [flat |-> <<>>, devices |-> <<>>]
  /\ yaml' = [flat |-> <<>>, devices |-> <<>>]
  /\ Discards

\* Rejected: the edit goes on.
Compile ==
  /\ config = <<>> /\ MatchesSchema /\ Validate # <<>>
  /\ config' = Validate
  /\ UNCHANGED <<yaml, sdkconfig, firmware>>

\* to_code: the build options, and a call of add_device for each device.
ToCode ==
  /\ config # <<>> /\ sdkconfig = 0
  /\ sdkconfig' = Max({2, Len(config[1])})
  /\ UNCHANGED <<yaml, config, firmware>>

-----------------------------------------------------------------------------
\* The firmware

\* The program starts: the next add_device; the channel is a uint8_t, the port a uint16_t.
AddDevice ==
  /\ sdkconfig # 0 /\ Len(devices_) < Len(config[1])
  /\ LET device == config[1][Len(devices_) + 1]
     IN devices_' = Append(devices_, [target |-> device.mac, channel |-> device.channel % 256,
                                      tcp_port |-> device.tcp_port % 65536,
                                      on_open |-> device.on_open[1]])
  /\ UNCHANGED <<yaml, config, sdkconfig, rings, component>>

\* setup: a ring for each device, then Bluetooth and SPP; at the first that fails,
\* mark_failed, and ESPHome never calls loop.
Setup ==
  /\ sdkconfig # 0 /\ devices_ # <<>> /\ Len(devices_) = Len(config[1])
  /\ component = "constructed"
  /\ rings' \in 0..Len(devices_)
  /\ component' \in IF rings' < Len(devices_) THEN {"failed"} ELSE {"running", "failed"}
  /\ UNCHANGED <<yaml, config, sdkconfig, devices_>>

\* Power is cut, or the watchdog bites.
Restart ==
  /\ component # "constructed"
  /\ Reset
  /\ UNCHANGED <<yaml, config, sdkconfig>>

BridgeConfigNext ==
  \/ \E entry \in Written : WriteFlat(entry) \/ WriteDevice(entry)
  \/ StartOver \/ Compile \/ ToCode \/ AddDevice
  \/ Setup \/ Restart

BridgeConfigSpec == BridgeConfigInit /\ [][BridgeConfigNext]_bridgeConfigVars

-----------------------------------------------------------------------------
\* Properties

\* What was written describes a bridge: one form, no field out of its range, and each
\* device told from the others by its address and by its port.
Entries == IF HasFlat THEN yaml.flat ELSE yaml.devices[1]
PortOf(entry) == WrittenOr(entry, "tcp_port", DefaultPort)
Usable ==
  /\ HasFlat # HasList /\ (yaml.flat = <<>> \/ HasFlat)
  /\ Len(Entries) <= MaxDevices
  /\ \A k \in DOMAIN Entries :
       /\ "mac_address" \in DOMAIN Entries[k] /\ ValidFields(Entries[k])
       /\ yaml.devices # <<>> => "tcp_port" \in DOMAIN Entries[k]
  /\ \A j, k \in DOMAIN Entries : j # k =>
       /\ Entries[j].mac_address.mac # Entries[k].mac_address.mac
       /\ PortOf(Entries[j]) # PortOf(Entries[k])

\* The firmware of an accepted configuration can run: no two of its devices, however
\* their addresses were spelled, share an address (by_bda_ finds the first) or a port
\* (the second could not listen), and the controller allows a connection to each of
\* them at once.  What is usable is accepted, and the flat form means the list of one
\* (__init__.py _validate, "Accept the flat single-device form or a devices list").
\* After each restart loop runs for all the devices configured, each with its ring
\* buffer, or not at all (untether_spp.cpp setup).
AcceptedIsStartable ==
  /\ \A j, k \in DOMAIN devices_ : j # k =>
       devices_[j].target # devices_[k].target /\ devices_[j].tcp_port # devices_[k].tcp_port
  /\ devices_ # <<>> => sdkconfig >= Len(config[1])
  /\ \A k \in DOMAIN devices_ :
       /\ devices_[k].channel <= 30 /\ devices_[k].tcp_port # 0
       /\ devices_[k] = [target |-> Entries[k].mac_address.mac,
                         channel |-> WrittenOr(Entries[k], "channel", 0),
                         tcp_port |-> PortOf(Entries[k]),
                         on_open |-> HexBytes(WrittenOr(Entries[k], "on_open_hex", <<>>))[1]]
  /\ Usable => MatchesSchema /\ Validate # <<>>
  /\ component = "running" => Len(devices_) = Len(config[1]) /\ rings = Len(devices_)
=============================================================================
