\* The tools around the bridge.  Sessions: two packets of the table, a ring that keeps
\* six bytes of a payload.  Sensors: two addresses, three flows at once.  Bridge
\* configuration: up to five entries.  Assigned numbers: two rows published.
\* GATT: two characteristics.  Frida: four calls of the app.
\* Asyncio client: two tasks, two links of two frames, four calls on each.
\* App: three screens, two labels, two choices of fields.
SPECIFICATION HostSpec
CONSTANTS
  EpochDelta = 1000
  Traffic <- MCTraffic
  MaxPackets = 2
  SnapLength = 6
  Addr = {a1, a2}
  a1 = a1
  a2 = a2
  Integrations = {"meter", "govee"}
  Broadcasts <- MCBroadcasts
  Broadcast <- MCBroadcast
  MaxFlows = 3
  Written <- MCWritten
  MaxEntries = 5
  Rows <- MCRows
  Asked <- MCAsked
  MaxRows = 2
  Peripheral = {10807, 65505}
  Spelt <- MCSpelt
  Callbacks = {"f", "g"}
  Values = {"on", "off"}
  MaxWrites = 4
  Tasks = {t1, t2}
  Nobody = Nobody
  MaxLinks = 2
  MaxHalves = 4
  MaxCalls = 4
  Screens <- MCScreens
  Queries <- MCQueries
\* A session ends with its pull, a compilation with its firmware, run() when it returns.
CHECK_DEADLOCK FALSE
INVARIANTS
  PulledReadsAsLogged
  FramesReadBack
  ChannelIsAdvertised
  SetUpOnce
  ShowsLastReading
  AcceptedIsStartable
  LabelsMeanTheNumber
  OneUuidOneSubscription
  NoWriteMissed
  EachFrameOnce
  TapHitsLabel
