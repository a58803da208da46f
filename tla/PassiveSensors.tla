--------------------------- MODULE PassiveSensors ---------------------------
(***************************************************************************)
(* The two example integrations, from the first advertisement of a sensor  *)
(* to what its entities show: config_flow.py, __init__.py, sensor.py, with *)
(* Home Assistant's flow manager and Bluetooth manager (external).         *)
(*                                                                         *)
(* Home Assistant keeps the last advertisement of each address and hands   *)
(* it to a callback that registers.  When a flow finishes it ends the      *)
(* other flows of that unique id.  It imports the package of an            *)
(* integration before it starts a flow.  The Govee one's __init__.py takes *)
(* SensorDeviceClass from homeassistant.helpers.sensor, which Home         *)
(* Assistant as we know it does not have: both outcomes are behaviours.    *)
(***************************************************************************)
EXTENDS Advertising, SensorProtocols

CONSTANTS
  Addr,          \* addresses of sensors
  Integrations,  \* what is installed: "meter" or "govee"
  Broadcasts,    \* integration -> names of what its sensors send
  Broadcast,     \* name -> [info, raw, means]: as parsed by Home Assistant, as
                 \* bytes, and the readings the sensor meant
  MaxFlows       \* bound on the flows in progress

VARIABLES
  integration,   \* never changes
  loads,         \* Home Assistant can import it; never changes
  heard,         \* address -> what was heard last: <<>> or <<name>>
  flows,         \* the flows in progress, by their id
  entries,       \* address -> "none", "forwarding" (its platforms), "running"
  entityData,    \* address -> the processor's data, by entity
  meant,         \* address -> the last reading its running entry was given
  replaced       \* addresses whose entry a flow has replaced

sensorVars == <<integration, loads, heard, flows, entries, entityData, meant, replaced>>

Confirm(a) == [step |-> "confirm", unique |-> {a}, offers |-> {}]
Pick(offers) == [step |-> "pick", unique |-> {}, offers |-> offers]
NoData == [e \in {} |-> 0]

SensorInit ==
  /\ integration \in Integrations
  /\ loads \in BOOLEAN /\ (integration = "meter" => loads)
  /\ heard = [a \in Addr |-> <<>>]
  /\ flows = [k \in {} |-> Pick({})]
  /\ entries = [a \in Addr |-> "none"]
  /\ entityData = [a \in Addr |-> NoData]
  /\ meant = [a \in Addr |-> <<>>]
  /\ replaced = {}

Configured(a) == entries[a] # "none"
OpenFor(a) == {k \in DOMAIN flows : a \in flows[k].unique}

\* parse_service_info, parse_advertisement
Parsed(info) ==
  IF integration = "meter" THEN ParseServiceInfo(info) ELSE ParseAdvertisement(info.maker)
Decoded(name) == Parsed(Broadcast[name].info)

-----------------------------------------------------------------------------
\* sensor.py of each: the update of one advertisement, merged into what is shown

\* _sensor_update_to_bluetooth_data_update; the rssi is left out
MeterUpdate(read) ==
  IF read = <<>> THEN NoData
  ELSE [temperature |-> read[1].temperature, humidity |-> read[1].humidity]
         @@ IF read[1].battery = NoBattery THEN NoData ELSE [battery |-> read[1].battery]

\* _service_info_to_update
GoveeUpdate(read) ==
  IF read = <<>> THEN NoData
  ELSE [temperature |-> read[1].temperature, humidity |-> read[1].humidity,
        battery |-> read[1].battery]

GoveeDescriptions == {"temperature", "humidity", "battery"}

\* _sensor_update_to_entities: what has a description.  Home Assistant makes an entity
\* of each PassiveBluetoothEntityKey; these keys are plain strings, on which that raises,
\* so the processor has the data and no entity shows it.
GoveeEntities(update) == Restrict(update, DOMAIN update \cap GoveeDescriptions)

Update(name) ==
  IF integration = "meter" THEN MeterUpdate(Decoded(name))
  ELSE GoveeEntities(GoveeUpdate(Decoded(name)))

Given(a, name) ==
  /\ entityData' = [entityData EXCEPT ![a] = Update(name) @@ @]
  /\ meant' = [meant EXCEPT ![a] = IF Broadcast[name].means # <<>>
                                   THEN Broadcast[name].means ELSE @]

\* A sensor is heard; a running entry's coordinator is given it at once.
Hear(a, name) ==
  /\ name \in Broadcasts[integration]
  /\ heard' = [heard EXCEPT ![a] = <<name>>]
  /\ IF entries[a] = "running" THEN Given(a, name) ELSE UNCHANGED <<entityData, meant>>
  /\ UNCHANGED <<integration, loads, flows, entries, replaced>>

-----------------------------------------------------------------------------
\* __init__.py

\* Home Assistant sets the entry up when its flow has finished, and after that
\* whenever it is loaded; nothing is shown before an advertisement.
SetUp(a) == entries' = [entries EXCEPT ![a] = "forwarding"]

\* MUTANT: scanning starts before the platforms have registered.
StartFirst(a) ==
  /\ entries[a] = "forwarding"
  /\ entries' = [entries EXCEPT ![a] = "running"]
  /\ meant' = [meant EXCEPT ![a] = IF heard[a] = <<>> THEN <<>> ELSE Broadcast[heard[a][1]].means]
  /\ UNCHANGED <<integration, loads, heard, flows, entityData, replaced>>

\* The processors have registered; async_start replays what was heard last.
Start(a) ==
  /\ entries[a] = "forwarding"
  /\ entries' = [entries EXCEPT ![a] = "running"]
  /\ IF heard[a] = <<>> THEN UNCHANGED <<entityData, meant>> ELSE Given(a, heard[a][1])
  /\ UNCHANGED <<integration, loads, heard, flows, replaced>>

\* async_unload_entry, and removal or a reload.
Unload(a) ==
  /\ entries[a] = "running"
  /\ entityData' = [entityData EXCEPT ![a] = NoData]
  /\ meant' = [meant EXCEPT ![a] = <<>>]
  /\ \/ entries' = [entries EXCEPT ![a] = "none"]
     \/ SetUp(a)
  /\ UNCHANGED <<integration, loads, heard, flows, replaced>>

-----------------------------------------------------------------------------
\* config_flow.py

\* A flow gets an id that none in progress has.
Starts(flow) ==
  \E id \in (1..MaxFlows) \ DOMAIN flows :
    flows' = [k \in DOMAIN flows \cup {id} |-> IF k = id THEN flow ELSE flows[k]]

\* async_create_entry: an entry of the same unique id would be replaced.
CreateEntry(a, own) ==
  /\ replaced' = IF Configured(a) THEN replaced \cup {a} ELSE replaced
  /\ SetUp(a)
  /\ flows' = Restrict(flows, {k \in DOMAIN flows \ {own} : a \notin flows[k].unique})
  /\ entityData' = [entityData EXCEPT ![a] = NoData]
  /\ meant' = [meant EXCEPT ![a] = <<>>]

\* async_step_bluetooth; one in progress, configured, not ours: the flow is over.
Discovered(a) ==
  /\ loads /\ heard[a] # <<>>
  /\ OpenFor(a) = {} /\ ~Configured(a) /\ Decoded(heard[a][1]) # <<>>
  /\ Starts(Confirm(a))
  /\ UNCHANGED <<integration, loads, heard, entries, entityData, meant, replaced>>

\* async_step_bluetooth_confirm
Confirmed(k) ==
  /\ flows[k].step = "confirm"
  /\ \E a \in flows[k].unique : CreateEntry(a, k)
  /\ UNCHANGED <<integration, loads, heard>>

\* async_step_user without input: what is known now, ours, and not configured.
UserStarts ==
  /\ loads
  /\ LET offers == {a \in Addr : heard[a] # <<>> /\ ~Configured(a)
                                  /\ Decoded(heard[a][1]) # <<>>}
     IN offers # {} /\ Starts(Pick(offers))
  /\ UNCHANGED <<integration, loads, heard, entries, entityData, meant, replaced>>

\* MUTANT: the configured addresses are those of when the form was made.
PicksUnchecked(k, a) ==
  /\ flows[k].step = "pick" /\ a \in flows[k].offers
  /\ CreateEntry(a, k)
  /\ UNCHANGED <<integration, loads, heard>>

\* async_step_user with the address; configured meanwhile: the flow is over.
UserPicks(k, a) ==
  /\ flows[k].step = "pick" /\ a \in flows[k].offers
  /\ IF Configured(a)
     THEN flows' = Restrict(flows, DOMAIN flows \ {k}) /\ UNCHANGED <<entries, entityData, meant, replaced>>
     ELSE CreateEntry(a, k)
  /\ UNCHANGED <<integration, loads, heard>>

SensorNext ==
  \/ \E a \in Addr, i \in Integrations : \E name \in Broadcasts[i] : Hear(a, name)
  \/ \E a \in Addr : Start(a) \/ Unload(a) \/ Discovered(a)
  \/ \E k \in DOMAIN flows : Confirmed(k)
  \/ \E k \in DOMAIN flows, a \in Addr : UserPicks(k, a)
  \/ UserStarts

SensorSpec == SensorInit /\ [][SensorNext]_sensorVars

-----------------------------------------------------------------------------
\* Properties

\* A sensor is set up once, whichever of the flows open for it finishes first: no flow
\* replaces its entry with a new one, and no form that offers to set it up alone stays
\* open (config_flow.py, _abort_if_unique_id_configured in both steps).
SetUpOnce ==
  /\ replaced = {}
  /\ \A a \in Addr : Configured(a) => OpenFor(a) = {}

\* The fields of what the code read that the sensor meant.
Says(read, reading) ==
  /\ read.temperature = reading.temperature /\ read.humidity = reading.humidity
  /\ read.battery = reading.battery

\* What an entity of the meter shows is of the last reading its entry was given, the one
\* replayed at the start included; battery may be older, when the reading has none.  A
\* reader of the raw bytes finds the same reading in them, of both sensors (sensor.py,
\* "Start scanning only after the platforms have registered their processors" of
\* __init__.py; advertising.py).
ShowsLastReading ==
  /\ \A a \in Addr : integration = "meter" /\ entries[a] = "running" =>
       IF meant[a] = <<>> THEN entityData[a] = NoData
       ELSE /\ {"temperature", "humidity"} \subseteq DOMAIN entityData[a]
            /\ entityData[a]["temperature"] = meant[a][1].temperature
            /\ entityData[a]["humidity"] = meant[a][1].humidity
            /\ meant[a][1].battery # NoBattery =>
                 "battery" \in DOMAIN entityData[a]
                   /\ entityData[a]["battery"] = meant[a][1].battery
  /\ \A a \in Addr : heard[a] # <<>> =>
       LET sent    == Broadcast[heard[a][1]]
           structs == ParseAd(sent.raw)
           maker   == ManufacturerData(structs)
           read    == Parsed([maker |-> [c \in {maker[i].company : i \in DOMAIN maker} |->
                                          maker[1].data],
                              service |-> ServiceData(structs)])
       IN /\ Len(read) = Len(sent.means)
          /\ \A i \in DOMAIN read : Says(read[i], sent.means[i])
=============================================================================
