----------------------------- MODULE HostProofs -----------------------------
(***************************************************************************)
(* Theorems about the tools around the bridge, which share no state:       *)
(* PassiveSensors, for any sensors and any number of flows; AppUi, for any *)
(* screens and labels; BridgeConfig, for any entries a user may write;     *)
(* AsyncBridge, for any tasks; FridaCapture, for any app; GattClient, for  *)
(* any peripheral.                                                         *)
(***************************************************************************)
EXTENDS PassiveSensors, AppUi, BridgeConfig, AsyncBridge, FridaCapture, GattClient,
        SequenceFacts, FiniteSetTheorems

-----------------------------------------------------------------------------
\* PassiveSensors: a sensor is set up once


\* The state that config_flow.py and __init__.py keep; what is broadcast is any value.
SetUpTypeOK ==
  /\ entries \in [Addr -> {"none", "forwarding", "running"}]
  /\ flows \in [DOMAIN flows -> [step : {"confirm", "pick"}, unique : SUBSET Addr,
                                 offers : SUBSET Addr]]
  /\ replaced \subseteq Addr

\* The inductive invariant.  A flow that has taken a sensor's unique id may finish at any
\* time: none is there when the sensor has its entry.
SetUpInv == SetUpTypeOK /\ SetUpOnce

Flow == [step : {"confirm", "pick"}, unique : SUBSET Addr, offers : SUBSET Addr]

\* Flows end, and no new one takes a unique id.
LEMMA FlowsEnd ==
  ASSUME NEW ids \in SUBSET DOMAIN flows, flows' = Restrict(flows, ids), SetUpTypeOK
  PROVE  /\ flows' \in [DOMAIN flows' -> Flow] /\ DOMAIN flows' = ids
         /\ \A k \in ids : flows'[k] = flows[k]
         /\ \A a \in Addr : OpenFor(a)' = OpenFor(a) \cap ids
<1>1. DOMAIN flows' = ids /\ \A k \in ids : flows'[k] = flows[k]
  BY DEF Restrict
<1>2. flows' = [k \in ids |-> flows[k]] /\ \A k \in ids : flows[k] \in Flow
  BY DEF Restrict, SetUpTypeOK, Flow
<1>3. flows' \in [DOMAIN flows' -> Flow]
  BY <1>1, <1>2
<1>4. \A a \in Addr : OpenFor(a)' = OpenFor(a) \cap ids
  BY <1>1 DEF OpenFor
<1> QED
  BY <1>1, <1>3, <1>4

LEMMA Creates ==
  ASSUME SetUpInv, NEW a \in Addr, NEW own \in DOMAIN flows, CreateEntry(a, own), ~Configured(a)
  PROVE  SetUpInv'
<1> DEFINE kept == {k \in DOMAIN flows \ {own} : a \notin flows[k].unique}
<1>1. SetUpTypeOK /\ SetUpOnce
  BY DEF SetUpInv
<1>2. /\ replaced' = replaced /\ entries' = [entries EXCEPT ![a] = "forwarding"]
      /\ flows' = Restrict(flows, kept)
  BY DEF CreateEntry, SetUp
<1>3. /\ flows' \in [DOMAIN flows' -> Flow]
      /\ \A b \in Addr : OpenFor(b)' = OpenFor(b) \cap kept
  BY <1>1, <1>2, FlowsEnd
<1>4. OpenFor(a)' = {}
  BY <1>3 DEF OpenFor
<1>5. SetUpTypeOK'
  BY <1>1, <1>2, <1>3 DEF SetUpTypeOK, Flow
<1>6. \A b \in Addr : b # a => (Configured(b)' <=> Configured(b))
  BY <1>1, <1>2 DEF Configured, SetUpTypeOK
<1>7. SetUpOnce'
  BY <1>1, <1>2, <1>3, <1>4, <1>6 DEF SetUpOnce
<1> QED
  BY <1>5, <1>7 DEF SetUpInv

LEMMA StartsFlow ==
  ASSUME SetUpInv, NEW flow \in Flow, Starts(flow), UNCHANGED <<entries, replaced>>,
         \A a \in flow.unique : ~Configured(a)
  PROVE  SetUpInv'
<1>1. SetUpTypeOK /\ SetUpOnce
  BY DEF SetUpInv
<1>2. PICK id : flows' = [k \in DOMAIN flows \cup {id} |-> IF k = id THEN flow ELSE flows[k]]
  BY DEF Starts
<1>3. /\ DOMAIN flows' = DOMAIN flows \cup {id} /\ flows'[id] = flow
      /\ \A k \in DOMAIN flows : k # id => flows'[k] = flows[k]
  BY <1>2
<1>4. \A k \in DOMAIN flows' : (IF k = id THEN flow ELSE flows[k]) \in Flow
  BY <1>1, <1>3 DEF SetUpTypeOK, Flow
<1>5. SetUpTypeOK'
  BY <1>1, <1>2, <1>3, <1>4 DEF SetUpTypeOK, Flow
<1>6. ASSUME NEW a \in Addr, Configured(a)
      PROVE  OpenFor(a)' = {}
  <2>1. OpenFor(a) = {} /\ a \notin flow.unique
    BY <1>1, <1>6 DEF SetUpOnce
  <2> QED
    BY <1>3, <2>1 DEF OpenFor
<1>7. SetUpOnce'
  BY <1>1, <1>6 DEF SetUpOnce, Configured
<1> QED
  BY <1>5, <1>7 DEF SetUpInv

LEMMA SetUpStart == SensorInit => SetUpInv
BY DEF SensorInit, SetUpInv, SetUpTypeOK, SetUpOnce, Configured, OpenFor

LEMMA SetUpStep == SetUpInv /\ [SensorNext]_sensorVars => SetUpInv'
<1> SUFFICES ASSUME SetUpInv, [SensorNext]_sensorVars PROVE SetUpInv'
  OBVIOUS
<1>1. SetUpTypeOK /\ SetUpOnce
  BY DEF SetUpInv
<1>2. CASE UNCHANGED <<flows, entries, replaced>>
  BY <1>1, <1>2 DEF SetUpInv, SetUpTypeOK, SetUpOnce, Configured, OpenFor
<1>3. ASSUME NEW a \in Addr, Start(a) \/ Unload(a)
      PROVE  SetUpInv'
  <2>1. UNCHANGED <<flows, replaced>> /\ Configured(a)
    BY <1>3 DEF Start, Unload, Configured
  <2>2. \E state \in {"none", "forwarding", "running"} : entries' = [entries EXCEPT ![a] = state]
    BY <1>3 DEF Start, Unload, SetUp
  <2>3. SetUpTypeOK'
    BY <1>1, <2>1, <2>2 DEF SetUpTypeOK
  <2>4. \A b \in Addr : Configured(b)' => Configured(b)
    BY <1>1, <2>1, <2>2 DEF SetUpTypeOK, Configured
  <2>5. \A b \in Addr : OpenFor(b)' = OpenFor(b)
    BY <2>1 DEF OpenFor
  <2>6. SetUpOnce'
    BY <1>1, <2>1, <2>4, <2>5 DEF SetUpOnce
  <2> QED
    BY <2>3, <2>6 DEF SetUpInv
<1>4. ASSUME NEW a \in Addr, Discovered(a)
      PROVE  SetUpInv'
  <2>1. Confirm(a) \in Flow /\ Confirm(a).unique = {a}
    BY DEF Confirm, Flow
  <2> QED
    BY <1>4, <2>1, StartsFlow DEF Discovered
<1>5. CASE UserStarts
  <2>1. PICK offers \in SUBSET Addr : Starts(Pick(offers))
    BY <1>5 DEF UserStarts
  <2>2. Pick(offers) \in Flow /\ Pick(offers).unique = {}
    BY DEF Pick, Flow
  <2> QED
    BY <1>5, <2>1, <2>2, StartsFlow DEF UserStarts
<1>6. ASSUME NEW k \in DOMAIN flows, Confirmed(k)
      PROVE  SetUpInv'
  <2>1. PICK a \in flows[k].unique : CreateEntry(a, k)
    BY <1>6 DEF Confirmed
  <2>2. a \in Addr /\ k \in OpenFor(a)
    BY <1>1 DEF SetUpTypeOK, OpenFor
  <2>3. ~Configured(a)
    BY <1>1, <2>2 DEF SetUpOnce
  <2> QED
    BY <2>1, <2>2, <2>3, Creates
<1>7. ASSUME NEW k \in DOMAIN flows, NEW a \in Addr, UserPicks(k, a)
      PROVE  SetUpInv'
  <2>1. CASE Configured(a)
    <3>1. flows' = Restrict(flows, DOMAIN flows \ {k}) /\ UNCHANGED <<entries, replaced>>
      BY <1>7, <2>1 DEF UserPicks
    <3>2. /\ flows' \in [DOMAIN flows' -> Flow]
          /\ \A b \in Addr : OpenFor(b)' = OpenFor(b) \cap (DOMAIN flows \ {k})
      BY <1>1, <3>1, FlowsEnd
    <3> QED
      BY <1>1, <3>1, <3>2 DEF SetUpInv, SetUpTypeOK, SetUpOnce, Configured, Flow
  <2>2. CASE ~Configured(a)
    BY <1>7, <2>2, Creates DEF UserPicks
  <2> QED
    BY <2>1, <2>2
<1>8. CASE \E a \in Addr, i \in Integrations : \E name \in Broadcasts[i] : Hear(a, name)
  BY <1>2, <1>8 DEF Hear
<1>9. CASE UNCHANGED sensorVars
  BY <1>2, <1>9 DEF sensorVars
<1> QED
  BY <1>3, <1>4, <1>5, <1>6, <1>7, <1>8, <1>9 DEF SensorNext

\* Discovery, the form of the user, reloads and removals in any order, for any number of
\* sensors: an entry is never replaced by a second one of the same sensor, and no flow that
\* could do it stays open (config_flow.py, _abort_if_unique_id_configured).
THEOREM OneEntryEach == SensorSpec => []SetUpOnce
<1>1. SensorSpec => []SetUpInv
  BY SetUpStart, SetUpStep, PTL DEF SensorSpec
<1>2. SetUpInv => SetUpOnce
  BY DEF SetUpInv
<1> QED
  BY <1>1, <1>2, PTL

-----------------------------------------------------------------------------
\* AppUi: a tap hits its label

\* A node that a dump shows, as find_node gives it back, has the label and the bounds of
\* one on the screen.
Shown(name, query, node) ==
  \E i \in DOMAIN Screens[name] :
    /\ Matches(Screens[name][i], query)
    /\ node.bounds # <<>> /\ node.bounds = Screens[name][i].bounds

IsTap(tap) == tap = [at |-> tap.at, query |-> tap.query, node |-> tap.node]

UiTypeOK ==
  /\ screen \in DOMAIN Screens
  /\ remote = <<>> \/ \E name \in DOMAIN Screens : remote = <<name>>
  /\ IsTap(tapping)
  /\ tapping.at \in {"idle", "dumped", "found"}
  /\ tapping.at # "idle" => tapping.query \in Queries

\* The inductive invariant: the file is the one of the tap in progress, and what find_node
\* has found is in it.
UiInv ==
  /\ UiTypeOK
  /\ current => remote = <<screen>>
  /\ tapping.at = "found" =>
       remote # <<>> /\ Shown(remote[1], tapping.query, tapping.node[1])
  /\ TapHitsLabel

LEMMA ParsedNode ==
  ASSUME NEW name \in DOMAIN Screens, NEW i \in DOMAIN Screens[name], NEW query \in Queries
  PROVE  LET parsed == ParseUiDump(Screens[name])
             node == Screens[name][i]
         IN /\ parsed[i].bounds = ParseBounds(node.bounds)
            /\ Matches(parsed[i], query) <=> Matches(node, query)
<1>1. Screens[name] \in Seq(Node)
  BY UiAssumption
<1>2. Screens[name][i] \in Node
  BY <1>1
<1>3. query.fields \subseteq Field
  BY UiAssumption
<1> DEFINE node == Screens[name][i]
           b == ParseBounds(node.bounds)
           p == [node EXCEPT !.bounds = b]
<1>4. ParseUiDump(Screens[name])[i] = p
  BY DEF ParseUiDump
<1> HIDE DEF b
<1>5. p.bounds = b /\ p.text = node.text /\ p.desc = node.desc /\ p.resource_id = node.resource_id
  BY <1>2 DEF Node
<1>6. \A f \in Field : p[f] = node[f]
  BY <1>5 DEF Field
<1> HIDE DEF p, node
<1>7. Matches(p, query) <=> Matches(node, query)
  BY <1>3, <1>6 DEF Matches
<1> QED
  BY <1>4, <1>5, <1>7 DEF node, b

LEMMA FindsShown ==
  ASSUME NEW name \in DOMAIN Screens, NEW query \in Queries,
         NEW node, node = FindNode(ParseUiDump(Screens[name]), query, FALSE),
         node # <<>>, Center(node[1]) # <<>>
  PROVE  Shown(name, query, node[1])
<1> DEFINE parsed == ParseUiDump(Screens[name])
           I == {i \in 1..Len(parsed) : Matches(parsed[i], query) /\ (FALSE => parsed[i].clickable)}
<1>1. Screens[name] \in Seq(Node)
  BY UiAssumption
<1>2. Len(parsed) \in Nat /\ 1..Len(parsed) = DOMAIN Screens[name]
  BY <1>1 DEF ParseUiDump
<1>3. FindNode(parsed, query, FALSE) =
        (IF (IF I # {} THEN Min(I) ELSE 0) = 0 THEN <<>> ELSE <<parsed[IF I # {} THEN Min(I) ELSE 0]>>)
  BY DEF FindNode, SelectInSeq
<1>4. I # {}
  BY <1>3
<1>5. I \in SUBSET Nat
  BY <1>2
<1>6. Min(I) \in I
  <2> HIDE DEF I
  <2> QED
    BY <1>4, <1>5, LeastOne
<1>7. PICK i \in DOMAIN Screens[name] : node = <<parsed[i]>> /\ Matches(parsed[i], query)
  BY <1>2, <1>3, <1>4, <1>6
<1>8. node[1] = parsed[i]
  <2>1. \A x : <<x>>[1] = x
    OBVIOUS
  <2> QED
    BY <1>7, <2>1, Zenon
<1>9. /\ parsed[i].bounds = ParseBounds(Screens[name][i].bounds)
      /\ Matches(Screens[name][i], query)
  BY <1>7, ParsedNode
<1>10. parsed[i].bounds # <<>>
  BY <1>8 DEF Center
<1>11. parsed[i].bounds = Screens[name][i].bounds
  BY <1>9, <1>10 DEF ParseBounds
<1> QED
  BY <1>8, <1>9, <1>10, <1>11 DEF Shown

\* The centre of what covers a pixel is on it.
LEMMA CentreIsInside ==
  ASSUME NEW node, NEW b \in Seq(Int), HasArea(b), node.bounds = b, b # <<>>
  PROVE  Inside(Center(node), b)
<1>1. Center(node) = <<(b[1] + b[3]) \div 2, (b[2] + b[4]) \div 2>>
  BY DEF Center
<1>2. b[1] \in Int /\ b[2] \in Int /\ b[3] \in Int /\ b[4] \in Int
  <2>1. Len(b) = 4
    BY DEF HasArea
  <2>2. \A i \in 1..4 : b[i] \in Int
    BY <2>1, ElementOfSeq
  <2> QED
    BY <2>2
<1>3. \A lo, hi \in Int : lo < hi => lo <= (lo + hi) \div 2 /\ (lo + hi) \div 2 < hi
  OBVIOUS
<1>4. b[1] < b[3] /\ b[2] < b[4]
  BY DEF HasArea
<1> DEFINE x == (b[1] + b[3]) \div 2
           y == (b[2] + b[4]) \div 2
<1>5. b[1] <= x /\ x < b[3] /\ b[2] <= y /\ y < b[4]
  BY <1>2, <1>3, <1>4
<1>6. Center(node)[1] = x /\ Center(node)[2] = y
  BY <1>1
<1> QED
  BY <1>5, <1>6 DEF Inside

LEMMA UiStarts ==
  ASSUME UiInit
  PROVE  UiInv
BY DEF UiInit, UiInv, UiTypeOK, NotTapping, TapHitsLabel, IsTap

LEMMA UiKeeps ==
  ASSUME UiInv, [UiNext]_uiVars
  PROVE  UiInv'
<1> USE DEF UiTypeOK
<1>0. UiTypeOK /\ TapHitsLabel
  BY DEF UiInv
<1>1. ASSUME NEW name \in DOMAIN Screens, Shows(name)
      PROVE  UiInv'
  <2>1. /\ screen' = name /\ current' = FALSE /\ remote' = remote /\ tapping' = tapping
        /\ touched' = touched
    BY <1>1 DEF Shows
  <2>2. TapHitsLabel'
    BY <1>0, <2>1 DEF TapHitsLabel
  <2> QED
    BY <2>1, <2>2 DEF UiInv
<1>2. ASSUME NEW query \in Queries, Dump(query)
      PROVE  UiInv'
  <2>1. /\ tapping' = [at |-> "dumped", query |-> query, node |-> <<>>]
        /\ screen' = screen /\ touched' = touched
    BY <1>2 DEF Dump
  <2>2. tapping'.at = "dumped" /\ tapping'.query = query /\ IsTap(tapping')
    BY <2>1 DEF IsTap
  <2>3. (remote' = <<screen>> /\ current' = TRUE) \/ (remote' = remote /\ current' = FALSE)
    BY <1>2 DEF Dump
  <2>4. TapHitsLabel'
    BY <1>0, <2>1 DEF TapHitsLabel
  <2>5. UiTypeOK'
    BY <1>0, <2>1, <2>2, <2>3
  <2>6. current' => remote' = <<screen'>>
    BY <2>1, <2>3
  <2> QED
    BY <2>2, <2>4, <2>5, <2>6 DEF UiInv
<1>3. CASE Find
  <2> DEFINE node == IF remote = <<>> THEN <<>>
                     ELSE FindNode(ParseUiDump(Screens[remote[1]]), tapping.query, FALSE)
  <2>1. /\ tapping.at = "dumped" /\ screen' = screen /\ remote' = remote
        /\ current' = current /\ touched' = touched
    BY <1>3 DEF Find
  <2>2. TapHitsLabel'
    BY <1>0, <2>1 DEF TapHitsLabel
  <2>3. CASE node = <<>> \/ Center(node[1]) = <<>>
    <3>1. tapping' = NotTapping
      BY <1>3, <2>3 DEF Find
    <3>2. tapping'.at = "idle" /\ IsTap(tapping')
      BY <3>1 DEF NotTapping, IsTap
    <3> QED
      BY <2>1, <2>2, <3>2 DEF UiInv
  <2>4. CASE ~(node = <<>> \/ Center(node[1]) = <<>>)
    <3>1. tapping' = [tapping EXCEPT !.at = "found", !.node = node]
      BY <1>3, <2>4 DEF Find
    <3>a. tapping' = [at |-> "found", query |-> tapping.query, node |-> node]
      <4> HIDE DEF node
      <4> QED
        BY <1>0, <3>1 DEF IsTap
    <3>2. /\ tapping'.at = "found" /\ tapping'.query = tapping.query /\ tapping'.node = node
          /\ IsTap(tapping')
      <4> HIDE DEF node
      <4> QED
        BY <3>a DEF IsTap
    <3>0. remote # <<>>
      BY <2>4
    <3>3. remote # <<>> /\ remote[1] \in DOMAIN Screens
      BY <1>0, <3>0
    <3>4. Shown(remote[1], tapping.query, node[1])
      BY <1>0, <2>1, <2>4, <3>3, FindsShown
    <3>5. UiTypeOK'
      BY <1>0, <2>1, <3>2
    <3> HIDE DEF node
    <3> QED
      BY <2>1, <2>2, <3>2, <3>3, <3>4, <3>5 DEF UiInv, Shown
  <2> QED
    BY <2>3, <2>4
<1>4. CASE TapXy
  <2> DEFINE tap == [query |-> tapping.query, point |-> Center(tapping.node[1]),
                     on |-> screen, current |-> current]
  <2>1. /\ tapping.at = "found" /\ touched' = <<tap>> /\ tapping' = NotTapping
        /\ screen' = screen /\ remote' = remote /\ current' = current
    BY <1>4 DEF TapXy
  <2>2. tapping'.at = "idle" /\ IsTap(tapping')
    BY <2>1 DEF NotTapping, IsTap
  <2>3. UiTypeOK'
    BY <1>0, <2>1, <2>2
  <2>4. touched'[1].current = current /\ touched'[1].on = screen
        /\ touched'[1].query = tapping.query /\ touched'[1].point = Center(tapping.node[1])
    BY <2>1
  <2>5. ASSUME current
        PROVE  \E i \in DOMAIN Screens[screen] :
                 /\ Matches(Screens[screen][i], tapping.query)
                 /\ Screens[screen][i].bounds # <<>>
                 /\ Inside(Center(tapping.node[1]), Screens[screen][i].bounds)
    <3>1. Shown(screen, tapping.query, tapping.node[1])
      BY <2>1, <2>5 DEF UiInv
    <3> DEFINE node == tapping.node[1]
    <3>2. PICK i \in DOMAIN Screens[screen] :
            /\ Matches(Screens[screen][i], tapping.query)
            /\ node.bounds # <<>> /\ node.bounds = Screens[screen][i].bounds
      BY <3>1 DEF Shown
    <3>3. Screens[screen] \in Seq(Node)
      BY <1>0, UiAssumption
    <3>a. Screens[screen][i] \in Node
      BY <3>3
    <3>4. Screens[screen][i].bounds \in Seq(Int)
      BY <3>a DEF Node
    <3>5. HasArea(Screens[screen][i].bounds)
      BY <1>0, <3>2, UiAssumption
    <3>6. Inside(Center(node), Screens[screen][i].bounds)
      BY <3>2, <3>4, <3>5, CentreIsInside
    <3> QED
      BY <3>2, <3>6
  <2>6. TapHitsLabel'
    BY <2>4, <2>5 DEF TapHitsLabel
  <2> QED
    BY <2>1, <2>2, <2>3, <2>6 DEF UiInv
<1>5. CASE UNCHANGED uiVars
  <2>1. TapHitsLabel'
    BY <1>5 DEF uiVars, UiInv, TapHitsLabel
  <2> QED
    BY <1>5, <2>1 DEF uiVars, UiInv
<1> QED
  BY <1>1, <1>2, <1>3, <1>4, <1>5 DEF UiNext

\* A tap on the screen that its own dump shows hits a node with the label it was asked for
\* (uiauto.py find_node, center; android.py tap).
THEOREM TapsHit == UiSpec => []TapHitsLabel
<1>1. UiInv => TapHitsLabel
  BY DEF UiInv
<1> QED
  BY <1>1, UiStarts, UiKeeps, PTL DEF UiSpec

-----------------------------------------------------------------------------
\* BridgeConfig: what is accepted starts, and what is usable is accepted

\* What add_device makes of a validated device.
Booted(device) == [target |-> device.mac, channel |-> device.channel % 256,
                   tcp_port |-> device.tcp_port % 65536, on_open |-> device.on_open[1]]

YamlOK ==
  /\ yaml \in [flat : Seq(Written), devices : Seq(Seq(Written))]
  /\ Len(yaml.flat) <= 1 /\ Len(yaml.devices) <= 1
  /\ yaml.devices # <<>> => yaml.devices[1] # <<>>

\* The program was generated from a validation of what the user has written now.
ConfigOK ==
  /\ config # <<>> => MatchesSchema /\ Validate # <<>> /\ config = Validate
  /\ sdkconfig # 0 => config # <<>> /\ sdkconfig >= Len(config[1])

\* The firmware runs that program, from its first device on.
FirmwareOK ==
  /\ devices_ = <<>> \/ sdkconfig # 0
  /\ \E n \in Nat : /\ devices_ = [k \in 1..n |-> Booted(config[1][k])]
                    /\ n # 0 => n <= Len(config[1])
  /\ component = "running" =>
       devices_ # <<>> /\ Len(devices_) = Len(config[1]) /\ rings = Len(devices_)

\* The inductive invariant.
ConfigInv == YamlOK /\ ConfigOK /\ FirmwareOK

-----------------------------------------------------------------------------
\* Cardinality of an image: the values of a sequence are distinct when there are as many
\* of them as it has places.
LEMMA AsManyAsPlaces ==
  ASSUME NEW n \in Nat, NEW f, DOMAIN f = 1..n
  PROVE  Cardinality({f[k] : k \in 1..n}) = n <=> \A j, k \in 1..n : j # k => f[j] # f[k]
<1> DEFINE S == 1..n
           T == {f[k] : k \in S}
           g == [k \in S |-> f[k]]
<1>1. IsFiniteSet(S) /\ Cardinality(S) = n
  BY FS_Interval
<1>2. g \in Surjection(S, T)
  BY DEF Surjection
<1>3. Cardinality(T) = Cardinality(S) <=> g \in Injection(S, T)
  BY <1>1, <1>2, FS_Surjection
<1>4. g \in [S -> T]
  OBVIOUS
<1>5. g \in Injection(S, T) <=> \A j, k \in S : g[j] = g[k] => j = k
  BY <1>4 DEF Injection, IsInjective
<1> QED
  BY <1>1, <1>3, <1>5

LEMMA JustOne ==
  ASSUME NEW S, NEW s \in Seq(S), s # <<>>, Len(s) <= 1
  PROVE  Len(s) = 1 /\ DOMAIN s = 1..1
<1>1. Len(s) \in Nat \ {0} /\ DOMAIN s = 1..Len(s)
  BY EmptySeq, LenProperties
<1> QED
  BY <1>1

\* Devices are the entries, normalized.
LEMMA OneForEach ==
  ASSUME YamlOK, HasFlat # HasList
  PROVE  \E n \in Nat \ {0} :
           /\ Len(Devices) = n /\ DOMAIN Devices = 1..n /\ DOMAIN Entries = 1..n
           /\ Len(Entries) = n
           /\ \A k \in 1..n : Devices[k] = Normalized(Entries[k], DefaultPort)
<1>1. CASE HasFlat
  <2>a. yaml.flat \in Seq(Written) /\ yaml.flat # <<>> /\ Len(yaml.flat) <= 1
    BY <1>1 DEF YamlOK, HasFlat
  <2>1. Len(yaml.flat) = 1 /\ DOMAIN yaml.flat = 1..1
    BY <2>a, JustOne
  <2>2. Devices = << Normalized(yaml.flat[1], DefaultPort) >> /\ Entries = yaml.flat
    BY <1>1 DEF Devices, Entries
  <2>3. Len(Devices) = 1 /\ DOMAIN Devices = 1..1
    BY <2>2
  <2>4. Devices[1] = Normalized(Entries[1], DefaultPort)
    BY <2>2
  <2>5. \A k \in 1..1 : Devices[k] = Normalized(Entries[k], DefaultPort)
    BY <2>4
  <2> QED
    <3>1. 1 \in Nat \ {0} /\ Len(Entries) = 1 /\ DOMAIN Entries = 1..1
      BY <2>1, <2>2
    <3> QED
      BY <3>1, <2>3, <2>5
<1>2. CASE ~HasFlat
  <2> DEFINE list == yaml.devices[1]
  <2>b. HasList
    BY <1>2 DEF HasFlat, HasList
  <2>a. yaml.devices \in Seq(Seq(Written)) /\ yaml.devices # <<>> /\ list # <<>>
    BY <2>b DEF YamlOK, HasList
  <2>1. list \in Seq(Written) /\ list # <<>>
    BY <2>a
  <2>2. Entries = list
    BY <1>2 DEF Entries
  <2>3. Devices = [k \in DOMAIN list |-> Normalized(list[k], DefaultPort)]
    BY <1>2 DEF Devices
  <2>4. Len(list) \in Nat \ {0} /\ DOMAIN list = 1..Len(list)
    BY <2>1
  <2>5. DOMAIN Devices = 1..Len(list)
    BY <2>3, <2>4
  <2>6. Len(Devices) = Len(list)
    BY <2>4, <2>5
  <2>7. \A k \in 1..Len(list) : Devices[k] = Normalized(list[k], DefaultPort)
    BY <2>3, <2>4
  <2> QED
    BY <2>2, <2>4, <2>5, <2>6, <2>7
<1> QED
  BY <1>1, <1>2

LEMMA DistinctDevices ==
  ASSUME NEW n \in Nat, Len(Devices) = n, DOMAIN Devices = 1..n, NEW key
  PROVE  Distinct(Devices, key)
           <=> \A j, k \in 1..n : j # k => Devices[j][key] # Devices[k][key]
<1> DEFINE f == [k \in 1..n |-> Devices[k][key]]
<1>1. {f[k] : k \in 1..n} = {Devices[k][key] : k \in DOMAIN Devices}
  OBVIOUS
<1>2. Distinct(Devices, key) <=> Cardinality({f[k] : k \in 1..n}) = n
  BY <1>1 DEF Distinct
<1>3. Cardinality({f[k] : k \in 1..n}) = n <=> \A j, k \in 1..n : j # k => f[j] # f[k]
  <2>1. DOMAIN f = 1..n
    OBVIOUS
  <2> HIDE DEF f
  <2> QED
    BY <2>1, AsManyAsPlaces
<1> QED
  BY <1>2, <1>3


\* What _validate accepts of what the schemas accept.
LEMMA Accepts ==
  ASSUME YamlOK, MatchesSchema, Validate # <<>>
  PROVE  /\ Validate = << Devices >> /\ Len(Devices) = Len(Entries)
         /\ Len(Devices) \in Nat /\ DOMAIN Devices = 1..Len(Devices)
         /\ \A k \in DOMAIN Devices : Devices[k] = Normalized(Entries[k], DefaultPort)
         /\ \A k \in DOMAIN Devices : ValidFields(Entries[k])
         /\ \A j, k \in DOMAIN Devices : j # k =>
              Devices[j].mac # Devices[k].mac /\ Devices[j].tcp_port # Devices[k].tcp_port
<1>1. /\ HasFlat # HasList /\ Len(Devices) \in 1..MaxDevices
      /\ Distinct(Devices, "tcp_port") /\ Distinct(Devices, "mac")
      /\ Validate = << Devices >>
  BY DEF Validate
<1>2. PICK n \in Nat \ {0} :
        /\ Len(Devices) = n /\ DOMAIN Devices = 1..n /\ DOMAIN Entries = 1..n
        /\ Len(Entries) = n
        /\ \A k \in 1..n : Devices[k] = Normalized(Entries[k], DefaultPort)
  BY <1>1, OneForEach
<1>3. \A j, k \in 1..n : j # k => Devices[j]["mac"] # Devices[k]["mac"]
  BY <1>1, <1>2, DistinctDevices
<1>4. \A j, k \in 1..n : j # k => Devices[j]["tcp_port"] # Devices[k]["tcp_port"]
  BY <1>1, <1>2, DistinctDevices
<1>5. \A k \in 1..n : ValidFields(Entries[k])
  <2>1. CASE HasFlat
    BY <2>1, <1>2 DEF MatchesSchema, Entries
  <2>2. CASE ~HasFlat
    <3>0. HasList
      BY <2>2, <1>1 DEF HasFlat, HasList
    <3>1. yaml.devices # <<>> /\ Entries = yaml.devices[1]
      BY <2>2, <3>0 DEF HasList, Entries
    <3>2. yaml.devices \in Seq(Seq(Written))
      BY DEF YamlOK
    <3>3. 1 \in DOMAIN yaml.devices
      BY <3>1, <3>2, EmptySeq, LenProperties
    <3> QED
      BY <3>1, <3>3, <1>2 DEF MatchesSchema
  <2> QED
    BY <2>1, <2>2
<1> QED
  BY <1>1, <1>2, <1>3, <1>4, <1>5

\* The conversions to uint8_t and uint16_t keep what the schemas let through.
LEMMA OneFits ==
  ASSUME NEW entry, ValidFields(entry)
  PROVE  LET device == Normalized(entry, DefaultPort)
         IN /\ device.channel % 256 = device.channel /\ device.channel <= 30
            /\ device.tcp_port % 65536 = device.tcp_port /\ device.tcp_port # 0
<1> DEFINE channel == WrittenOr(entry, "channel", 0)
           port == WrittenOr(entry, "tcp_port", DefaultPort)
<1>1. channel \in 0..30
  BY DEF ValidFields, WrittenOr
<1>2. port \in 1..MaxPort
  <2>1. DefaultPort \in 1..MaxPort
    BY DEF DefaultPort, MaxPort
  <2> QED
    BY <2>1 DEF ValidFields, WrittenOr
<1>3. Normalized(entry, DefaultPort).channel = channel
      /\ Normalized(entry, DefaultPort).tcp_port = port
  BY DEF Normalized
<1> HIDE DEF channel, port
<1>4. channel % 256 = channel /\ channel <= 30
  BY <1>1
<1>5. port \in Nat /\ port # 0 /\ port <= 65535
  <2>1. MaxPort \in Nat /\ MaxPort <= 65535
    BY DEF MaxPort
  <2>2. port \in Nat /\ port # 0 /\ port <= MaxPort
    BY <1>2, <2>1
  <2> QED
    BY <2>1, <2>2
<1>6. port % 65536 = port
  BY <1>5
<1> QED
  BY <1>3, <1>4, <1>5, <1>6

\* What is usable matches the schemas and passes _validate.
LEMMA UsableMatches ==
  ASSUME YamlOK, Usable
  PROVE  MatchesSchema
<1>1. \A k \in DOMAIN Entries :
        /\ "mac_address" \in DOMAIN Entries[k] /\ ValidFields(Entries[k])
        /\ yaml.devices # <<>> => "tcp_port" \in DOMAIN Entries[k]
  BY DEF Usable
<1>2. CASE HasFlat
  <2>1. Entries = yaml.flat
    BY <1>2 DEF Entries
  <2>2. yaml.devices = <<>>
    BY <1>2 DEF Usable, HasFlat, HasList
  <2>3. DOMAIN yaml.devices = {}
    BY <2>2
  <2> QED
    BY <1>1, <2>1, <2>3 DEF MatchesSchema
<1>3. CASE ~HasFlat
  <2>1. Entries = yaml.devices[1]
    BY <1>3 DEF Entries
  <2>2. HasList
    BY <1>3 DEF Usable, HasFlat, HasList
  <2>3. yaml.flat = <<>> /\ yaml.devices # <<>>
    BY <1>3, <2>2 DEF Usable, HasList
  <2>4. DOMAIN yaml.flat = {}
    BY <2>3
  <2>5. yaml.devices \in Seq(Seq(Written)) /\ Len(yaml.devices) <= 1
    BY DEF YamlOK
  <2>6. DOMAIN yaml.devices = 1..1
    BY <2>3, <2>5, JustOne
  <2>7. \A i \in DOMAIN Entries :
          {"mac_address", "tcp_port"} \subseteq DOMAIN Entries[i] /\ ValidFields(Entries[i])
    BY <1>1, <2>3
  <2> QED
    BY <2>1, <2>4, <2>6, <2>7 DEF MatchesSchema
<1> QED
  BY <1>2, <1>3

LEMMA UsableValidates ==
  ASSUME YamlOK, Usable
  PROVE  Validate # <<>>
<1>1. HasFlat # HasList
  BY DEF Usable
<1>2. PICK n \in Nat \ {0} :
        /\ Len(Devices) = n /\ DOMAIN Devices = 1..n /\ DOMAIN Entries = 1..n
        /\ Len(Entries) = n
        /\ \A k \in 1..n : Devices[k] = Normalized(Entries[k], DefaultPort)
  BY <1>1, OneForEach
<1>3. Len(Devices) \in 1..MaxDevices
  BY <1>2 DEF Usable, MaxDevices
<1>4. \A k \in 1..n : /\ Devices[k].mac = Entries[k].mac_address.mac
                      /\ Devices[k].tcp_port = PortOf(Entries[k])
  BY <1>2 DEF Normalized, PortOf
<1>5. \A j, k \in 1..n : j # k =>
        /\ Entries[j].mac_address.mac # Entries[k].mac_address.mac
        /\ PortOf(Entries[j]) # PortOf(Entries[k])
  BY <1>2 DEF Usable
<1>6. \A j, k \in 1..n : j # k => Devices[j]["mac"] # Devices[k]["mac"]
  BY <1>4, <1>5
<1>7. \A j, k \in 1..n : j # k => Devices[j]["tcp_port"] # Devices[k]["tcp_port"]
  BY <1>4, <1>5
<1>8. Distinct(Devices, "mac") /\ Distinct(Devices, "tcp_port")
  BY <1>2, <1>6, <1>7, DistinctDevices
<1>9. Validate = << Devices >>
  BY <1>1, <1>3, <1>8 DEF Validate
<1> QED
  BY <1>9

-----------------------------------------------------------------------------
\* The steps

\* Whatever the user writes, the program is built anew.
LEMMA Rewritten ==
  ASSUME YamlOK', Discards
  PROVE  ConfigInv'
<1>1. /\ config' = <<>> /\ sdkconfig' = 0 /\ devices_' = <<>> /\ rings' = 0
      /\ component' = "constructed"
  BY DEF Discards, Reset
<1>2. ConfigOK'
  BY <1>1 DEF ConfigOK
<1>3. FirmwareOK'
  BY <1>1 DEF FirmwareOK
<1> QED
  BY <1>2, <1>3 DEF ConfigInv

LEMMA AppendMore ==
  ASSUME NEW S, NEW s \in Seq(S), NEW e \in S
  PROVE  Append(s, e) \in Seq(S) /\ Append(s, e) # <<>>
BY AppendProperties

LEMMA UserWrites ==
  ASSUME ConfigInv, NEW entry \in Written, WriteFlat(entry) \/ WriteDevice(entry)
  PROVE  ConfigInv'
<1>1. CASE WriteFlat(entry)
  <2>1. yaml' = [yaml EXCEPT !.flat = <<entry>>] /\ Discards
    BY <1>1 DEF WriteFlat
  <2>2. <<entry>> \in Seq(Written) /\ Len(<<entry>>) = 1
    OBVIOUS
  <2>a. yaml \in [flat : Seq(Written), devices : Seq(Seq(Written))]
    BY DEF ConfigInv, YamlOK
  <2>b. /\ yaml' \in [flat : Seq(Written), devices : Seq(Seq(Written))]
        /\ yaml'.flat = <<entry>> /\ yaml'.devices = yaml.devices
    BY <2>1, <2>2, <2>a
  <2>3. YamlOK'
    BY <2>2, <2>b DEF ConfigInv, YamlOK
  <2> QED
    BY <2>1, <2>3, Rewritten
<1>2. CASE WriteDevice(entry)
  <2> DEFINE list == IF HasList THEN Append(yaml.devices[1], entry) ELSE <<entry>>
  <2>1. yaml' = [yaml EXCEPT !.devices = << list >>] /\ Discards
    BY <1>2 DEF WriteDevice
  <2>2. list \in Seq(Written) /\ list # <<>>
    <3>1. CASE HasList
      <4>1. yaml.devices \in Seq(Seq(Written)) /\ yaml.devices # <<>>
        BY <3>1 DEF ConfigInv, YamlOK, HasList
      <4>2. yaml.devices[1] \in Seq(Written)
        BY <4>1, EmptySeq, ElementOfSeq
      <4> QED
        BY <3>1, <4>2, AppendMore
    <3>2. CASE ~HasList
      BY <3>2
    <3> QED
      BY <3>1, <3>2
  <2> HIDE DEF list
  <2>3. <<list>> \in Seq(Seq(Written)) /\ Len(<<list>>) = 1 /\ <<list>>[1] = list
    BY <2>2
  <2>a. yaml \in [flat : Seq(Written), devices : Seq(Seq(Written))]
    BY DEF ConfigInv, YamlOK
  <2>b. /\ yaml' \in [flat : Seq(Written), devices : Seq(Seq(Written))]
        /\ yaml'.flat = yaml.flat /\ yaml'.devices = <<list>>
    BY <2>1, <2>3, <2>a
  <2>4. YamlOK'
    BY <2>2, <2>3, <2>b DEF ConfigInv, YamlOK
  <2> QED
    BY <2>1, <2>4, Rewritten
<1> QED
  BY <1>1, <1>2

LEMMA YamlStays ==
  ASSUME UNCHANGED yaml
  PROVE  /\ YamlOK => YamlOK'
         /\ MatchesSchema => MatchesSchema'
         /\ Validate' = Validate
BY DEF YamlOK, MatchesSchema, Validate, Devices, HasFlat, HasList

LEMMA Compiles ==
  ASSUME ConfigInv, Compile
  PROVE  ConfigInv'
<1>1. /\ YamlOK' /\ MatchesSchema' /\ Validate' = Validate
  BY YamlStays DEF ConfigInv, Compile
<1>2. /\ config = <<>> /\ Validate # <<>> /\ config' = Validate
      /\ UNCHANGED <<sdkconfig, devices_, rings, component>>
  BY DEF Compile, firmware
<1>3. sdkconfig = 0
  BY <1>2 DEF ConfigInv, ConfigOK
<1>4. ConfigOK'
  BY <1>1, <1>2, <1>3 DEF ConfigOK
<1>5. devices_ = <<>> /\ component # "running"
  BY <1>2, <1>3 DEF ConfigInv, FirmwareOK
<1>6. FirmwareOK'
  BY <1>2, <1>5 DEF FirmwareOK
<1> QED
  BY <1>1, <1>4, <1>6 DEF ConfigInv

LEMMA GeneratesCode ==
  ASSUME ConfigInv, ToCode
  PROVE  ConfigInv'
<1>1. /\ config # <<>> /\ sdkconfig = 0 /\ sdkconfig' = Max({2, Len(config[1])})
      /\ UNCHANGED <<yaml, config, devices_, rings, component>>
  BY DEF ToCode, firmware
<1>2. /\ YamlOK /\ YamlOK' /\ MatchesSchema /\ MatchesSchema' /\ Validate' = Validate
      /\ Validate # <<>> /\ config = Validate
  BY <1>1, YamlStays DEF ConfigInv, ConfigOK
<1>3. config[1] = Devices /\ Len(Devices) \in Nat
  BY <1>2, Accepts
<1>4. sdkconfig' >= Len(config[1]) /\ sdkconfig' # 0
  <2> DEFINE n == Len(config[1])
  <2>1. n \in Nat
    BY <1>3
  <2> HIDE DEF n
  <2>2. \E x \in {2, n} : \A y \in {2, n} : x >= y
    BY <2>1
  <2>3. /\ Max({2, n}) \in {2, n}
        /\ \A y \in {2, n} : Max({2, n}) >= y
    BY <2>2 DEF Max
  <2>4. Max({2, n}) >= n /\ Max({2, n}) >= 2
    BY <2>3
  <2> QED
    BY <2>1, <2>3, <2>4, <1>1 DEF n
<1>5. ConfigOK'
  BY <1>1, <1>2, <1>4 DEF ConfigOK
<1>6. FirmwareOK'
  BY <1>1, <1>4 DEF ConfigInv, FirmwareOK
<1> QED
  BY <1>2, <1>5, <1>6 DEF ConfigInv

LEMMA AppendNext ==
  ASSUME NEW n \in Nat, NEW f
  PROVE  Append([k \in 1..n |-> f[k]], f[n + 1]) = [k \in 1..(n + 1) |-> f[k]]
<1> DEFINE S == {f[k] : k \in 1..(n + 1)}
           s == [k \in 1..n |-> f[k]]
           t == [k \in 1..(n + 1) |-> f[k]]
<1>1. s \in Seq(S) /\ Len(s) = n /\ f[n + 1] \in S
  OBVIOUS
<1>2. t \in Seq(S) /\ Len(t) = n + 1
  OBVIOUS
<1>3. \A k \in 1..n : s[k] = f[k] /\ t[k] = f[k]
  OBVIOUS
<1>4. t[n + 1] = f[n + 1]
  OBVIOUS
<1> HIDE DEF s, t, S
<1>5. /\ Append(s, f[n + 1]) \in Seq(S) /\ Len(Append(s, f[n + 1])) = n + 1
      /\ \A k \in 1..n : Append(s, f[n + 1])[k] = s[k]
      /\ Append(s, f[n + 1])[n + 1] = f[n + 1]
  BY <1>1, AppendProperties
<1>6. \A k \in 1..(n + 1) : Append(s, f[n + 1])[k] = t[k]
  BY <1>3, <1>4, <1>5
<1>7. Append(s, f[n + 1]) = t
  BY <1>2, <1>5, <1>6, SeqEqual
<1> QED
  BY <1>7 DEF s, t

LEMMA AddsDevice ==
  ASSUME ConfigInv, AddDevice
  PROVE  ConfigInv'
<1> DEFINE all == config[1]
<1>1. /\ sdkconfig # 0 /\ Len(devices_) < Len(all)
      /\ devices_' = Append(devices_, Booted(all[Len(devices_) + 1]))
      /\ UNCHANGED <<yaml, config, sdkconfig, rings, component>>
  BY DEF AddDevice, Booted
<1>2. YamlOK' /\ ConfigOK'
  BY <1>1, YamlStays DEF ConfigInv, ConfigOK
<1>3. component # "running"
  BY <1>1 DEF ConfigInv, FirmwareOK
<1>4. PICK n \in Nat : devices_ = [k \in 1..n |-> Booted(all[k])]
  BY DEF ConfigInv, FirmwareOK
<1>5. Len(devices_) = n
  BY <1>4
<1> DEFINE f == [k \in 1..(n + 1) |-> Booted(all[k])]
<1>6. /\ devices_ = [k \in 1..n |-> f[k]]
      /\ Booted(all[n + 1]) = f[n + 1]
      /\ f = [k \in 1..(n + 1) |-> f[k]]
  BY <1>4
<1>7. devices_' = f
  <2> HIDE DEF f
  <2> QED
    BY <1>1, <1>5, <1>6, AppendNext
<1>8. n + 1 <= Len(config'[1])
  <2>1. config = Validate /\ MatchesSchema /\ Validate # <<>> /\ YamlOK
    BY <1>1 DEF ConfigInv, ConfigOK
  <2>2. Len(all) \in Nat
    BY <2>1, Accepts
  <2> QED
    BY <1>1, <1>5, <2>2
<1>9. FirmwareOK'
  <2>1. n + 1 \in Nat /\ devices_' = [k \in 1..(n + 1) |-> Booted(config'[1][k])]
    BY <1>1, <1>7
  <2> QED
    BY <1>1, <1>3, <1>8, <2>1 DEF FirmwareOK
<1> QED
  BY <1>2, <1>9 DEF ConfigInv

LEMMA ConfigStarts ==
  ASSUME ConfigInv, Setup \/ Restart
  PROVE  ConfigInv'
<1>1. CASE Setup
  <2>1. /\ sdkconfig # 0 /\ devices_ # <<>> /\ Len(devices_) = Len(config[1])
        /\ rings' \in 0..Len(devices_)
        /\ component' \in IF rings' < Len(devices_) THEN {"failed"} ELSE {"running", "failed"}
        /\ UNCHANGED <<yaml, config, sdkconfig, devices_>>
    BY <1>1 DEF Setup
  <2>2. YamlOK' /\ ConfigOK'
    BY <2>1, YamlStays DEF ConfigInv, ConfigOK
  <2>3. PICK n \in Nat : /\ devices_ = [k \in 1..n |-> Booted(config[1][k])]
                         /\ n # 0 => n <= Len(config[1])
    BY DEF ConfigInv, FirmwareOK
  <2>4. Len(devices_) = n
    BY <2>3
  <2>5. component' = "running" => rings' = n
    BY <2>1, <2>4
  <2>6. FirmwareOK'
    BY <2>1, <2>3, <2>4, <2>5 DEF FirmwareOK
  <2> QED
    BY <2>2, <2>6 DEF ConfigInv
<1>2. CASE Restart
  <2>1. /\ devices_' = <<>> /\ rings' = 0 /\ component' = "constructed"
        /\ UNCHANGED <<yaml, config, sdkconfig>>
    BY <1>2 DEF Restart, Reset
  <2>2. YamlOK' /\ ConfigOK'
    BY <2>1, YamlStays DEF ConfigInv, ConfigOK
  <2>3. FirmwareOK'
    BY <2>1 DEF FirmwareOK
  <2> QED
    BY <2>2, <2>3 DEF ConfigInv
<1> QED
  BY <1>1, <1>2

LEMMA ConfigInitially ==
  ASSUME BridgeConfigInit
  PROVE  ConfigInv
<1>1. YamlOK
  BY DEF BridgeConfigInit, YamlOK
<1>2. ConfigOK
  BY DEF BridgeConfigInit, ConfigOK
<1>3. FirmwareOK
  BY DEF BridgeConfigInit, FirmwareOK
<1> QED
  BY <1>1, <1>2, <1>3 DEF ConfigInv

LEMMA ConfigKeeps ==
  ASSUME ConfigInv, [BridgeConfigNext]_bridgeConfigVars
  PROVE  ConfigInv'
<1>1. CASE BridgeConfigNext
  <2>1. ASSUME NEW entry \in Written, WriteFlat(entry) \/ WriteDevice(entry)
        PROVE  ConfigInv'
    BY <2>1, UserWrites
  <2>2. CASE StartOver
    <3>1. YamlOK' /\ Discards
      BY <2>2 DEF StartOver, YamlOK
    <3> QED
      BY <3>1, Rewritten
  <2>3. CASE Compile
    BY <2>3, Compiles
  <2>4. CASE ToCode
    BY <2>4, GeneratesCode
  <2>5. CASE AddDevice
    BY <2>5, AddsDevice
  <2>6. CASE Setup \/ Restart
    BY <2>6, ConfigStarts
  <2> QED
    BY <1>1, <2>1, <2>2, <2>3, <2>4, <2>5, <2>6 DEF BridgeConfigNext
<1>2. CASE UNCHANGED bridgeConfigVars
  <2>1. UNCHANGED <<yaml, config, sdkconfig, devices_, rings, component>>
    BY <1>2 DEF bridgeConfigVars, firmware
  <2>2. YamlOK' /\ ConfigOK'
    BY <2>1, YamlStays DEF ConfigInv, ConfigOK
  <2>3. FirmwareOK'
    BY <2>1 DEF ConfigInv, FirmwareOK
  <2> QED
    BY <2>2, <2>3 DEF ConfigInv
<1> QED
  BY <1>1, <1>2

-----------------------------------------------------------------------------
\* The theorems

LEMMA ConfigStartable ==
  ASSUME ConfigInv
  PROVE  AcceptedIsStartable
<1>1. Usable => MatchesSchema /\ Validate # <<>>
  BY UsableMatches, UsableValidates DEF ConfigInv
<1>2. component = "running" => Len(devices_) = Len(config[1]) /\ rings = Len(devices_)
  BY DEF ConfigInv, FirmwareOK
<1>3. PICK n \in Nat : /\ devices_ = [k \in 1..n |-> Booted(config[1][k])]
                       /\ n # 0 => n <= Len(config[1])
  BY DEF ConfigInv, FirmwareOK
<1>4. CASE n = 0
  <2>1. devices_ = <<>> /\ DOMAIN devices_ = {}
    BY <1>3, <1>4
  <2> QED
    BY <1>1, <1>2, <2>1 DEF AcceptedIsStartable
<1>5. CASE n # 0
  <2>1. n \in DOMAIN devices_ /\ DOMAIN devices_ = 1..n
    BY <1>3, <1>5
  <2>2. devices_ # <<>>
    BY <2>1
  <2>3. sdkconfig # 0 /\ sdkconfig >= Len(config[1])
    BY <2>2 DEF ConfigInv, ConfigOK, FirmwareOK
  <2>4. config = Validate /\ MatchesSchema /\ Validate # <<>> /\ YamlOK
    BY <2>3 DEF ConfigInv, ConfigOK
  <2>5. /\ config[1] = Devices
        /\ Len(Devices) \in Nat /\ DOMAIN Devices = 1..Len(Devices)
        /\ \A k \in DOMAIN Devices : Devices[k] = Normalized(Entries[k], DefaultPort)
        /\ \A k \in DOMAIN Devices : ValidFields(Entries[k])
        /\ \A j, k \in DOMAIN Devices : j # k =>
             Devices[j].mac # Devices[k].mac /\ Devices[j].tcp_port # Devices[k].tcp_port
    BY <2>4, Accepts
  <2>6. 1..n \subseteq DOMAIN Devices
    BY <1>3, <1>5, <2>5
  <2>7. \A k \in 1..n : LET device == Normalized(Entries[k], DefaultPort)
                        IN /\ device.channel % 256 = device.channel /\ device.channel <= 30
                           /\ device.tcp_port % 65536 = device.tcp_port
                           /\ device.tcp_port # 0
    BY <2>5, <2>6, OneFits
  <2>8. \A k \in 1..n :
          /\ devices_[k] = [target |-> Devices[k].mac, channel |-> Devices[k].channel,
                            tcp_port |-> Devices[k].tcp_port, on_open |-> Devices[k].on_open[1]]
          /\ Devices[k].channel <= 30 /\ Devices[k].tcp_port # 0
    BY <1>3, <2>5, <2>6, <2>7 DEF Booted
  <2>9. \A k \in 1..n : /\ devices_[k].target = Devices[k].mac
                        /\ devices_[k].tcp_port = Devices[k].tcp_port
                        /\ devices_[k].channel = Devices[k].channel
    <3> TAKE k \in 1..n
    <3>1. devices_[k] = [target |-> Devices[k].mac, channel |-> Devices[k].channel,
                         tcp_port |-> Devices[k].tcp_port, on_open |-> Devices[k].on_open[1]]
      BY <2>8
    <3> QED
      BY <3>1
  <2>10. \A j, k \in DOMAIN devices_ : j # k =>
           devices_[j].target # devices_[k].target /\ devices_[j].tcp_port # devices_[k].tcp_port
    BY <2>1, <2>5, <2>6, <2>9
  <2>11. \A k \in DOMAIN devices_ :
           devices_[k] = [target |-> Entries[k].mac_address.mac,
                          channel |-> WrittenOr(Entries[k], "channel", 0),
                          tcp_port |-> PortOf(Entries[k]),
                          on_open |-> HexBytes(WrittenOr(Entries[k], "on_open_hex", <<>>))[1]]
    <3>1. \A k \in 1..n :
            /\ Devices[k].mac = Entries[k].mac_address.mac
            /\ Devices[k].channel = WrittenOr(Entries[k], "channel", 0)
            /\ Devices[k].tcp_port = PortOf(Entries[k])
            /\ Devices[k].on_open = HexBytes(WrittenOr(Entries[k], "on_open_hex", <<>>))
      BY <2>5, <2>6 DEF Normalized, PortOf
    <3> QED
      BY <2>1, <2>8, <3>1
  <2> QED
    BY <1>1, <1>2, <2>1, <2>3, <2>8, <2>9, <2>10, <2>11 DEF AcceptedIsStartable
<1> QED
  BY <1>4, <1>5

\* A firmware built from an accepted configuration has the devices that were written, told
\* apart by address and port, with a connection for each; what is usable is accepted, and
\* loop runs with all rings or not at all (__init__.py _validate, to_code; cpp setup).
THEOREM AcceptedStarts == BridgeConfigSpec => []AcceptedIsStartable
<1>1. BridgeConfigInit => ConfigInv
  BY ConfigInitially
<1>2. ConfigInv /\ [BridgeConfigNext]_bridgeConfigVars => ConfigInv'
  BY ConfigKeeps
<1>3. ConfigInv => AcceptedIsStartable
  BY ConfigStartable
<1> QED
  BY <1>1, <1>2, <1>3, PTL DEF BridgeConfigSpec

-----------------------------------------------------------------------------
\* AsyncBridge: tasks that share a client share its frames and lose none

(* The inductive invariant.                                                *)

Places == {"idle", "draining", "reading", "fed", "failed", "cancelled", "closing"}

AsyncTypeOK ==
  /\ reader \in {"None", "open", "closing", "lost"}
  /\ stream \in [buffer : Seq(Nat), eof : BOOLEAN, waiter : Tasks \cup {Nobody}, broken : BOOLEAN]
  /\ leftover \in Seq(Nat)
  /\ task \in [Tasks -> [at : Places, out : Seq(Nat)]]
  /\ received \in [first : 1..2, last : Nat] /\ received.first <= received.last + 1
  /\ received.last <= MaxHalves \/ received.last <= 1
  /\ returned \in [Tasks -> Seq(Nat)]

\* The halves that read has taken from the reader.
Taken == received.last - Len(stream.buffer)

\* The reader holds the last halves that it was fed, in order, and none while a task
\* waits for one.
StreamInv ==
  /\ Taken + 1 >= received.first
  /\ \A i \in 1..Len(stream.buffer) : stream.buffer[i] = Taken + i
  /\ stream.waiter # Nobody => stream.buffer = <<>>
  /\ reader \in {"open", "closing"} => ~stream.broken

\* Only a call whose read has taken something has collected frames.
CallInv ==
  \A t \in Tasks : /\ task[t].at \in {"idle", "draining", "closing"} => task[t].out = <<>>
                   /\ task[t].at = "failed" => stream.broken

\* The half of a frame whose other half is still to come.
LeftoverInv ==
  leftover = IF Taken >= received.first /\ Taken % 2 = 1 THEN <<Taken>> ELSE <<>>

\* What each task has of the frames that the first n halves complete, from half f on.
Increasing(s) == \A i, j \in 1..Len(s) : i < j => s[i] < s[j]
Shared(has, f, n) ==
  /\ \A t \in Tasks : Increasing(has[t])
  /\ \A t \in Tasks : \A i \in 1..Len(has[t]) : f < 2 * has[t][i] /\ 2 * has[t][i] <= n
  /\ \A k \in Nat : f < 2 * k /\ 2 * k <= n => \E t \in Tasks : \E i \in 1..Len(has[t]) : has[t][i] = k
  /\ \A t, u \in Tasks : t # u =>
       \A i \in 1..Len(has[t]), j \in 1..Len(has[u]) : has[t][i] # has[u][j]

Has == [t \in Tasks |-> returned[t] \o task[t].out]

AsyncInv ==
  /\ AsyncTypeOK /\ StreamInv /\ CallInv
  /\ ~stream.broken => LeftoverInv /\ Shared(Has, received.first, Taken)

-----------------------------------------------------------------------------
(* Halves and frames.                                                      *)

LEMMA Halving ==
  ASSUME NEW n \in Nat
  PROVE  \E h \in Nat : \/ n = 2 * h /\ n % 2 = 0 /\ n \div 2 = h
                        \/ n = 2 * h + 1 /\ n % 2 = 1 /\ n \div 2 = h
<1>1. n \div 2 \in Nat
  OBVIOUS
<1>2. n = 2 * (n \div 2) \/ n = 2 * (n \div 2) + 1
  OBVIOUS
<1>3. n = 2 * (n \div 2) => n % 2 = 0
  BY <1>1
<1>4. n = 2 * (n \div 2) + 1 => n % 2 = 1
  BY <1>1
<1> QED
  BY Zenon, <1>1, <1>2, <1>3, <1>4

LEMMA Below == \A x, y, n \in Nat : 2 * x <= n /\ n < 2 * y => x < y
OBVIOUS

LEMMA Within == \A x, n, m \in Nat : 2 * x <= n /\ n <= m => 2 * x <= m
OBVIOUS

\* What the parser makes of halves that follow one another.
LEMMA FramesOfHalves ==
  ASSUME NEW base \in Nat, NEW s \in Seq(Nat), \A i \in 1..Len(s) : s[i] = base + i
  PROVE  /\ Complete(s) \in Seq(Nat) /\ Increasing(Complete(s))
         /\ \A i \in 1..Len(Complete(s)) :
              base + 2 <= 2 * Complete(s)[i] /\ 2 * Complete(s)[i] <= base + Len(s)
         /\ \A k \in Nat : base + 2 <= 2 * k /\ 2 * k <= base + Len(s) =>
              \E i \in 1..Len(Complete(s)) : Complete(s)[i] = k
         /\ Unfinished(s) = IF s # <<>> /\ (base + Len(s)) % 2 = 1
                            THEN <<base + Len(s)>> ELSE <<>>
<1> DEFINE skipped == IF s # <<>> /\ Head(s) % 2 = 0 THEN 1 ELSE 0
           n == (Len(s) - skipped) \div 2
           c == [k \in 1..n |-> s[skipped + 2 * k] \div 2]
<1>1. Complete(s) = c
  BY DEF Complete
<1>2. Len(s) \in Nat /\ (s = <<>> <=> Len(s) = 0) /\ (s # <<>> => Head(s) = base + 1)
  BY HeadTailProperties, EmptySeq
<1>3. skipped \in 0..1 /\ skipped <= Len(s)
  BY <1>2
<1>4. n \in Nat /\ 2 * n <= Len(s) - skipped /\ Len(s) - skipped < 2 * n + 2
  <2>1. Len(s) - skipped \in Nat
    BY <1>2, <1>3
  <2>2. \E h \in Nat : n = h /\ (Len(s) - skipped = 2 * h \/ Len(s) - skipped = 2 * h + 1)
    BY <2>1, Halving
  <2> HIDE DEF n
  <2> QED
    BY <1>2, <1>3, <2>2
<1>5. s # <<>> => \E h \in Nat : base + skipped = 2 * h
  <2> SUFFICES ASSUME s # <<>> PROVE \E h \in Nat : base + skipped = 2 * h
    OBVIOUS
  <2>1. PICK h \in Nat : \/ base + 1 = 2 * h /\ (base + 1) % 2 = 0
                         \/ base + 1 = 2 * h + 1 /\ (base + 1) % 2 = 1
    BY Halving
  <2>2. CASE (base + 1) % 2 = 0
    <3>1. skipped = 1 /\ base + 1 = 2 * h
      BY <1>2, <2>1, <2>2
    <3> QED
      BY <3>1
  <2>3. CASE (base + 1) % 2 = 1
    <3>1. skipped = 0 /\ base + 1 = 2 * h + 1
      BY <1>2, <2>1, <2>3
    <3> QED
      BY <3>1
  <2> QED
    BY <2>1, <2>2, <2>3
<1> HIDE DEF n, skipped
<1>6. CASE s = <<>>
  <2>1. n = 0 /\ c = <<>>
    BY <1>2, <1>3, <1>4, <1>6
  <2>2. Unfinished(s) = <<>>
    BY <1>6 DEF Unfinished
  <2> HIDE DEF c
  <2> QED
    BY <1>1, <1>2, <1>6, <2>1, <2>2 DEF Increasing
<1>7. CASE s # <<>>
  <2>1. PICK h \in Nat : base + skipped = 2 * h
    BY <1>5, <1>7
  <2>2. \A k \in 1..n : c[k] = h + k
    <3> TAKE k \in 1..n
    <3>1. skipped + 2 * k \in 1..Len(s) /\ base + (skipped + 2 * k) = 2 * (h + k)
      BY <1>2, <1>3, <1>4, <2>1
    <3>2. s[skipped + 2 * k] = 2 * (h + k)
      BY <3>1
    <3>3. h + k \in Nat
      BY <1>4
    <3>4. (2 * (h + k)) \div 2 = h + k
      BY <3>3
    <3> QED
      BY <3>2, <3>4
  <2>3. c \in Seq(Nat) /\ Len(c) = n
    <3>1. \A k \in 1..n : c[k] \in Nat
      BY <1>4, <2>2
    <3>2. c \in [1..n -> Nat]
      BY <3>1
    <3> QED
      BY <1>4, <3>2
  <2> HIDE DEF c
  <2>4. Increasing(c)
    BY <1>4, <2>2, <2>3 DEF Increasing
  <2>5. \A k \in 1..n : base + 2 <= 2 * c[k] /\ 2 * c[k] <= base + Len(s)
    <3> TAKE k \in 1..n
    <3>1. c[k] = h + k /\ 2 * (h + k) = base + skipped + 2 * k
      BY <2>1, <2>2, <1>3, <1>4
    <3> HIDE DEF c
    <3>2. base + 2 <= base + skipped + 2 * k /\ base + skipped + 2 * k <= base + Len(s)
      BY <1>2, <1>3, <1>4
    <3> QED
      BY <3>1, <3>2
  <2>6. ASSUME NEW k \in Nat, base + 2 <= 2 * k, 2 * k <= base + Len(s)
        PROVE  \E i \in 1..n : c[i] = k
    <3>1. k - h \in 1..n /\ h + (k - h) = k
      BY <1>2, <1>3, <1>4, <2>1, <2>6
    <3> QED
      BY <2>2, <3>1
  <2>7. Unfinished(s) = IF (base + Len(s)) % 2 = 1 THEN <<base + Len(s)>> ELSE <<>>
    <3>1. Last(s) = base + Len(s)
      BY <1>2, <1>7 DEF Last
    <3>2. (base + Len(s)) % 2 \in 0..1
      BY <1>2
    <3> QED
      BY <1>7, <3>1, <3>2 DEF Unfinished
  <2> QED
    BY <1>1, <1>7, <2>3, <2>4, <2>5, <2>6, <2>7
<1> QED
  BY <1>6, <1>7

-----------------------------------------------------------------------------
(* Sharing.                                                                *)

\* The frames that halves n + 1 to m complete, and a task that gets them.
Frames(s, f, n, m) ==
  /\ Increasing(s)
  /\ \A i \in 1..Len(s) : f < 2 * s[i] /\ n < 2 * s[i] /\ 2 * s[i] <= m
  /\ \A k \in Nat : f < 2 * k /\ n < 2 * k /\ 2 * k <= m => \E i \in 1..Len(s) : s[i] = k
Gets(t, s, has, all) ==
  all[t] = has[t] \o s /\ \A u \in Tasks : u # t => all[u] = has[u]

LEMMA Give ==
  ASSUME NEW has \in [Tasks -> Seq(Nat)], NEW all \in [Tasks -> Seq(Nat)],
         NEW f \in Nat, NEW n \in Nat, NEW m \in Nat, n <= m,
         NEW t \in Tasks, NEW s \in Seq(Nat),
         Shared(has, f, n), Frames(s, f, n, m), Gets(t, s, has, all)
  PROVE  Shared(all, f, m)
<1> USE DEF Frames, Gets
<1>1. has[t] \in Seq(Nat) /\ Len(has[t]) \in Nat /\ Len(s) \in Nat
  OBVIOUS
<1>2. /\ Len(all[t]) = Len(has[t]) + Len(s)
      /\ \A i \in 1..Len(all[t]) :
           all[t][i] = IF i <= Len(has[t]) THEN has[t][i] ELSE s[i - Len(has[t])]
  BY <1>1, ConcatProperties
<1>3. \A i \in 1..Len(has[t]) : has[t][i] \in Nat /\ f < 2 * has[t][i] /\ 2 * has[t][i] <= n
  BY <1>1, ElementOfSeq DEF Shared
<1>4. \A i \in 1..Len(s) : s[i] \in Nat
  BY ElementOfSeq
<1>5. \A i \in 1..Len(all[t]) :
        \/ i \in 1..Len(has[t]) /\ all[t][i] = has[t][i]
        \/ i - Len(has[t]) \in 1..Len(s) /\ all[t][i] = s[i - Len(has[t])] /\ i > Len(has[t])
  BY <1>1, <1>2
<1>6. Increasing(all[t])
  <2> SUFFICES ASSUME NEW i \in 1..Len(all[t]), NEW j \in 1..Len(all[t]), i < j
               PROVE  all[t][i] < all[t][j]
    BY DEF Increasing
  <2>1. CASE j \in 1..Len(has[t])
    <3>1. i \in 1..Len(has[t]) /\ all[t][i] = has[t][i] /\ all[t][j] = has[t][j]
      BY <1>1, <1>2, <2>1
    <3> QED
      BY <2>1, <3>1 DEF Shared, Increasing
  <2>2. CASE i \in 1..Len(has[t]) /\ j > Len(has[t])
    <3>1. j - Len(has[t]) \in 1..Len(s) /\ all[t][i] = has[t][i] /\ all[t][j] = s[j - Len(has[t])]
      BY <1>1, <1>2, <2>2
    <3>2. PICK x \in Nat : x = has[t][i] /\ 2 * x <= n
      BY <1>3, <2>2
    <3>3. PICK y \in Nat : y = s[j - Len(has[t])] /\ n < 2 * y
      BY <1>4, <3>1
    <3>4. x < y
      <4>1. n \in Nat /\ 2 * x <= n /\ n < 2 * y
        BY <3>2, <3>3
      <4> QED
        BY <4>1
    <3> QED
      BY <3>1, <3>2, <3>3, <3>4
  <2>3. CASE i > Len(has[t])
    <3>1. /\ i - Len(has[t]) \in 1..Len(s) /\ j - Len(has[t]) \in 1..Len(s)
          /\ i - Len(has[t]) < j - Len(has[t])
      BY <1>1, <1>2, <2>3
    <3>2. ~(i <= Len(has[t])) /\ ~(j <= Len(has[t]))
      BY <1>1, <1>2, <2>3
    <3>3. all[t][i] = s[i - Len(has[t])] /\ all[t][j] = s[j - Len(has[t])]
      BY <1>2, <3>2
    <3> QED
      BY <3>1, <3>3 DEF Increasing
  <2> QED
    BY <1>1, <1>5, <2>1, <2>2, <2>3
<1>7. \A i \in 1..Len(all[t]) : f < 2 * all[t][i] /\ 2 * all[t][i] <= m
  <2> TAKE i \in 1..Len(all[t])
  <2>1. CASE i \in 1..Len(has[t]) /\ all[t][i] = has[t][i]
    <3>1. PICK x \in Nat : x = has[t][i] /\ f < 2 * x /\ 2 * x <= n
      BY <1>3, <2>1
    <3>2. 2 * x <= m
      BY Zenon, <3>1, Within
    <3> QED
      BY <2>1, <3>1, <3>2
  <2>2. CASE i - Len(has[t]) \in 1..Len(s) /\ all[t][i] = s[i - Len(has[t])]
    BY <2>2
  <2> QED
    BY <1>5, <2>1, <2>2
<1>8. ASSUME NEW k \in Nat, f < 2 * k, 2 * k <= m
      PROVE  \E u \in Tasks : \E i \in 1..Len(all[u]) : all[u][i] = k
  <2>1. CASE 2 * k <= n
    <3>1. PICK u \in Tasks : \E i \in 1..Len(has[u]) : has[u][i] = k
      BY <1>8, <2>1 DEF Shared
    <3>2. PICK i \in 1..Len(has[u]) : has[u][i] = k
      BY <3>1
    <3>3. i \in 1..Len(all[u]) /\ all[u][i] = k
      <4>1. CASE u = t
        BY <1>1, <1>2, <3>2, <4>1
      <4>2. CASE u # t
        BY <3>2, <4>2
      <4> QED
        BY <4>1, <4>2
    <3> QED
      BY <3>3
  <2>2. CASE n < 2 * k
    <3>1. PICK i \in 1..Len(s) : s[i] = k
      BY <1>8, <2>2
    <3>2. i + Len(has[t]) \in 1..Len(all[t]) /\ (i + Len(has[t])) - Len(has[t]) = i
          /\ ~(i + Len(has[t]) <= Len(has[t]))
      BY <1>1, <1>2
    <3>3. all[t][i + Len(has[t])] = k
      BY <1>2, <3>1, <3>2
    <3> QED
      BY <3>2, <3>3
  <2> QED
    BY <2>1, <2>2
<1>9. ASSUME NEW u \in Tasks, u # t, NEW i \in 1..Len(all[t]), NEW j \in 1..Len(all[u])
      PROVE  all[t][i] # all[u][j]
  <2>1. all[u] = has[u] /\ has[u] \in Seq(Nat) /\ has[u][j] \in Nat /\ 2 * has[u][j] <= n
    BY <1>9, ElementOfSeq DEF Shared
  <2>2. CASE i \in 1..Len(has[t]) /\ all[t][i] = has[t][i]
    BY <1>9, <2>1, <2>2 DEF Shared
  <2>3. CASE i - Len(has[t]) \in 1..Len(s) /\ all[t][i] = s[i - Len(has[t])]
    <3>1. PICK x \in Nat : x = s[i - Len(has[t])] /\ n < 2 * x
      BY <1>4, <2>3
    <3>2. PICK y \in Nat : y = has[u][j] /\ 2 * y <= n
      BY <2>1
    <3>3. x < x \/ x # y
      BY Zenon, <3>1, <3>2, Below
    <3>4. x # y
      BY <3>3
    <3> QED
      BY <2>1, <2>3, <3>1, <3>2, <3>4
  <2> QED
    BY <1>5, <2>2, <2>3
<1>10. \A u \in Tasks : Increasing(all[u])
  BY <1>6 DEF Shared
<1>11. \A u \in Tasks : \A i \in 1..Len(all[u]) : f < 2 * all[u][i] /\ 2 * all[u][i] <= m
  <2> TAKE u \in Tasks
  <2> TAKE i \in 1..Len(all[u])
  <2>1. CASE u = t
    BY <1>7, <2>1
  <2>2. CASE u # t
    <3>1. all[u] = has[u] /\ i \in 1..Len(has[u]) /\ has[u][i] \in Nat
      BY <2>2, ElementOfSeq
    <3>2. f < 2 * has[u][i] /\ 2 * has[u][i] <= n
      BY <3>1 DEF Shared
    <3> QED
      BY <3>1, <3>2
  <2> QED
    BY <2>1, <2>2
<1>12. ASSUME NEW u \in Tasks, NEW v \in Tasks, u # v,
              NEW i \in 1..Len(all[u]), NEW j \in 1..Len(all[v])
       PROVE  all[u][i] # all[v][j]
  <2>1. CASE u = t
    BY <1>9, <1>12, <2>1
  <2>2. CASE v = t
    BY <1>9, <1>12, <2>2
  <2>3. CASE u # t /\ v # t
    <3>1. all[u] = has[u] /\ all[v] = has[v]
      BY <2>3
    <3>2. i \in 1..Len(has[u]) /\ j \in 1..Len(has[v])
      BY <3>1
    <3>3. \A x, y \in Tasks : x # y =>
            \A k \in 1..Len(has[x]), l \in 1..Len(has[y]) : has[x][k] # has[y][l]
      BY Zenon DEF Shared
    <3> QED
      BY <1>12, <3>1, <3>2, <3>3
  <2> QED
    BY <2>1, <2>2, <2>3
<1> QED
  BY Zenon, <1>8, <1>10, <1>11, <1>12 DEF Shared

-----------------------------------------------------------------------------
(* Steps.                                                                  *)

Streams == [buffer : Seq(Nat), eof : BOOLEAN, waiter : Tasks \cup {Nobody}, broken : BOOLEAN]
Suspended == [at : Places, out : Seq(Nat)]

LEMMA ParsedType ==
  ASSUME NEW s \in Seq(Nat)
  PROVE  Complete(s) \in Seq(Nat) /\ Unfinished(s) \in Seq(Nat)
<1> DEFINE skipped == IF s # <<>> /\ Head(s) % 2 = 0 THEN 1 ELSE 0
           n == (Len(s) - skipped) \div 2
           c == [k \in 1..n |-> s[skipped + 2 * k] \div 2]
<1>1. Len(s) \in Nat /\ (s = <<>> <=> Len(s) = 0)
  BY EmptySeq
<1>2. skipped \in 0..1 /\ skipped <= Len(s)
  BY <1>1
<1> HIDE DEF skipped
<1>3. Len(s) - skipped \in Nat
  BY <1>1, <1>2
<1>4. n \in Nat /\ 2 * n <= Len(s) - skipped
  <2>1. PICK m \in Nat : m = Len(s) - skipped
    BY <1>3
  <2>2. PICK h \in Nat : (m = 2 * h \/ m = 2 * h + 1) /\ m \div 2 = h
    BY Halving
  <2> QED
    BY <2>1, <2>2
<1> HIDE DEF n
<1>5. \A k \in 1..n : c[k] \in Nat
  <2> TAKE k \in 1..n
  <2>1. skipped + 2 * k \in 1..Len(s)
    BY <1>1, <1>2, <1>4
  <2>2. s[skipped + 2 * k] \in Nat
    BY <2>1, ElementOfSeq
  <2> QED
    BY <2>2, Halving
<1>6. c \in Seq(Nat)
  <2>1. c \in [1..n -> Nat]
    BY <1>5
  <2> QED
    BY <1>4, <2>1
<1>7. Unfinished(s) \in Seq(Nat)
  <2>1. CASE s = <<>>
    BY <2>1 DEF Unfinished
  <2>2. CASE s # <<>>
    <3>1. Last(s) \in Nat
      BY <1>1, <2>2, ElementOfSeq DEF Last
    <3> QED
      BY <3>1 DEF Unfinished
  <2> QED
    BY <2>1, <2>2
<1> QED
  BY <1>6, <1>7 DEF Complete, skipped, n

\* What read takes and leaves.
LEMMA ReadOnEffect ==
  ASSUME AsyncTypeOK, NEW t \in Tasks, NEW w \in Tasks \cup {Nobody}, ReadOn(t, w)
  PROVE  LET new == Complete(Halves(t))
         IN /\ new \in Seq(Nat) /\ leftover' = Unfinished(Halves(t)) /\ leftover' \in Seq(Nat)
            /\ stream' \in Streams /\ stream'.buffer = <<>> /\ stream'.broken = stream.broken
            /\ task' \in [Tasks -> Suspended] /\ returned' \in [Tasks -> Seq(Nat)]
            /\ \A u \in Tasks : u # t => task'[u] = task[u] /\ returned'[u] = returned[u]
            /\ \/ returned'[t] = returned[t] \o (task[t].out \o new) /\ task'[t] = Idle
               \/ /\ returned'[t] = returned[t] /\ task'[t].at = "reading"
                  /\ task'[t].out = task[t].out \o new
               \/ /\ stream.broken \/ w # Nobody
                  /\ returned'[t] = returned[t] /\ task'[t] = Idle
<1> DEFINE new == Complete(Halves(t))
           out == task[t].out \o new
<1>1. /\ stream \in Streams /\ task \in [Tasks -> Suspended] /\ returned \in [Tasks -> Seq(Nat)]
      /\ leftover \in Seq(Nat) /\ stream.buffer \in Seq(Nat) /\ task[t].out \in Seq(Nat)
      /\ returned[t] \in Seq(Nat)
  BY DEF AsyncTypeOK, Streams, Suspended
<1>2. Halves(t) \in Seq(Nat)
  BY <1>1, ConcatProperties DEF Halves
<1>3. new \in Seq(Nat) /\ Unfinished(Halves(t)) \in Seq(Nat)
  BY <1>2, ParsedType
<1>4. out \in Seq(Nat) /\ returned[t] \o out \in Seq(Nat)
  BY <1>1, <1>3, ConcatProperties
<1>5. leftover' = Unfinished(Halves(t))
  BY DEF ReadOn
<1>6. Idle \in Suspended
  BY DEF Idle, Suspended, Places
<1>7. [at |-> "reading", out |-> out] \in Suspended
  BY <1>4 DEF Suspended, Places
<1>8. ASSUME NEW x \in Tasks \cup {Nobody}
      PROVE  /\ [stream EXCEPT !.buffer = <<>>, !.waiter = x] \in Streams
             /\ [stream EXCEPT !.buffer = <<>>, !.waiter = x].buffer = <<>>
             /\ [stream EXCEPT !.buffer = <<>>, !.waiter = x].broken = stream.broken
  <2>1. <<>> \in Seq(Nat)
    OBVIOUS
  <2> QED
    BY <1>1, <2>1 DEF Streams
<1> DEFINE Emptied(x) == [stream EXCEPT !.buffer = <<>>, !.waiter = x]
<1>9. stream' = Emptied(w) \/ stream' = Emptied(t)
  BY Zenon DEF ReadOn
<1>10. /\ \/ Returns(t, out) \/ Fails(t)
          \/ task' = [task EXCEPT ![t] = [at |-> "reading", out |-> out]]
       /\ Returns(t, out) \/ Fails(t) \/ returned' = returned
       /\ \/ Returns(t, out) \/ stream.broken \/ w # Nobody
          \/ task' = [task EXCEPT ![t] = [at |-> "reading", out |-> out]]
  <2>1. \/ Returns(t, out) \/ Fails(t)
        \/ task' = [task EXCEPT ![t] = [at |-> "reading", out |-> out]]
    BY Zenon DEF ReadOn
  <2>2. Returns(t, out) \/ Fails(t) \/ returned' = returned
    BY Zenon DEF ReadOn
  <2>3. \/ Returns(t, out) \/ stream.broken \/ w # Nobody
        \/ task' = [task EXCEPT ![t] = [at |-> "reading", out |-> out]]
    BY Zenon DEF ReadOn
  <2> QED
    BY Zenon, <2>1, <2>2, <2>3
<1>11. \A x \in Tasks \cup {Nobody} : /\ Emptied(x) \in Streams
                                      /\ Emptied(x).buffer = <<>>
                                      /\ Emptied(x).broken = stream.broken
  BY Zenon, <1>8
<1> HIDE DEF new, out, Emptied
<1>12. stream' \in Streams /\ stream'.buffer = <<>> /\ stream'.broken = stream.broken
  BY <1>9, <1>11
<1>13. CASE Returns(t, out)
  BY <1>1, <1>3, <1>4, <1>5, <1>6, <1>13, <1>12 DEF Returns, out, new
<1>14. CASE task' = [task EXCEPT ![t] = [at |-> "reading", out |-> out]] /\ returned' = returned
  BY <1>1, <1>3, <1>5, <1>7, <1>14, <1>12 DEF out, new
<1>15. CASE Fails(t) /\ (stream.broken \/ w # Nobody)
  BY <1>1, <1>3, <1>5, <1>6, <1>15, <1>12 DEF Fails, new
<1>16. Fails(t) => returned' = returned
  BY DEF Fails
<1> QED
  BY Zenon, <1>13, <1>14, <1>15, <1>10, <1>16

\* What read takes follows what was left over.
LEMMA HalvesInOrder ==
  ASSUME AsyncTypeOK, StreamInv, LeftoverInv, NEW t
  PROVE  \E base \in Nat :
           /\ Halves(t) \in Seq(Nat) /\ base + Len(Halves(t)) = received.last
           /\ \A i \in 1..Len(Halves(t)) : Halves(t)[i] = base + i
           /\ Taken \in Nat
           /\ \/ base = Taken /\ (Taken < received.first \/ Taken % 2 = 0)
              \/ base + 1 = Taken /\ Taken >= received.first /\ Taken % 2 = 1
<1> DEFINE buffer == stream.buffer
<1>1. /\ buffer \in Seq(Nat) /\ Len(buffer) \in Nat /\ leftover \in Seq(Nat)
      /\ received.first \in 1..2 /\ received.last \in Nat
  BY AsyncAssumption DEF AsyncTypeOK
<1>2. Taken \in Nat /\ Taken + Len(buffer) = received.last
  <2>1. Taken + 1 >= received.first
    BY DEF StreamInv
  <2>2. Taken = received.last - Len(buffer)
    BY DEF Taken
  <2>3. \A k, m \in Int : \A f \in 1..2 : k + 1 >= f => k \in Nat /\ (k = m - Len(buffer) => k + Len(buffer) = m)
    BY <1>1
  <2>4. Taken \in Int /\ received.last \in Int /\ received.first \in 1..2
    BY <1>1, <2>2
  <2> QED
    BY <2>1, <2>2, <2>3, <2>4
<1>3. CASE Taken >= received.first /\ Taken % 2 = 1
  <2>1. leftover = <<Taken>> /\ Taken - 1 \in Nat
    BY <1>1, <1>2, <1>3 DEF LeftoverInv
  <2>2. Halves(t) \in Seq(Nat) /\ Len(Halves(t)) = 1 + Len(buffer)
    BY <1>1, <2>1, ConcatProperties DEF Halves
  <2>3. ASSUME NEW i \in 1..Len(Halves(t)) PROVE Halves(t)[i] = (Taken - 1) + i
    <3>1. CASE i = 1
      BY <1>1, <1>2, <2>1, <3>1 DEF Halves
    <3>2. CASE i # 1
      <4>1. i - 1 \in 1..Len(buffer)
        BY <1>1, <2>2, <3>2
      <4>2. Halves(t)[i] = buffer[i - 1]
        BY <1>1, <2>1, <2>2, <3>2 DEF Halves
      <4>3. buffer[i - 1] = Taken + (i - 1)
        BY <4>1 DEF StreamInv
      <4> QED
        BY <1>2, <4>2, <4>3
    <3> QED
      BY <3>1, <3>2
  <2>4. (Taken - 1) + Len(Halves(t)) = received.last /\ (Taken - 1) + 1 = Taken
    BY <1>1, <1>2, <2>2
  <2> QED
    BY <1>2, <1>3, <2>1, <2>2, <2>3, <2>4
<1>4. CASE ~(Taken >= received.first /\ Taken % 2 = 1)
  <2>1. leftover = <<>>
    BY <1>4 DEF LeftoverInv
  <2>2. Halves(t) = buffer
    BY <1>1, <2>1, ConcatEmptySeq DEF Halves
  <2>3. \A i \in 1..Len(Halves(t)) : Halves(t)[i] = Taken + i
    BY <2>2 DEF StreamInv
  <2>4. Taken < received.first \/ Taken % 2 = 0
    BY <1>1, <1>2, <1>4
  <2> QED
    BY <1>1, <1>2, <2>2, <2>3, <2>4
<1> QED
  BY <1>3, <1>4

\* Which frames that completes.
LEMMA Completed ==
  ASSUME NEW f \in 1..2, NEW n \in Nat, NEW base \in Nat, NEW k \in Nat, n + 1 >= f,
         \/ base = n /\ (n < f \/ n % 2 = 0)
         \/ base + 1 = n /\ n >= f /\ n % 2 = 1
  PROVE  base + 2 <= 2 * k <=> f < 2 * k /\ n < 2 * k
<1>1. PICK h \in Nat : \/ n = 2 * h /\ n % 2 = 0
                       \/ n = 2 * h + 1 /\ n % 2 = 1
  BY Zenon, Halving
<1>2. CASE n = 2 * h /\ n % 2 = 0
  BY <1>2
<1>3. CASE n = 2 * h + 1 /\ n % 2 = 1
  BY <1>3
<1> QED
  BY <1>1, <1>2, <1>3

LEMMA HasTypes ==
  ASSUME NEW given \in [Tasks -> Seq(Nat)], NEW calls \in [Tasks -> Suspended]
  PROVE  [t \in Tasks |-> given[t] \o calls[t].out] \in [Tasks -> Seq(Nat)]
<1> SUFFICES ASSUME NEW t \in Tasks PROVE given[t] \o calls[t].out \in Seq(Nat)
  OBVIOUS
<1>1. given[t] \in Seq(Nat) /\ calls[t].out \in Seq(Nat)
  BY DEF Suspended
<1> QED
  BY <1>1, ConcatProperties

LEMMA Regroup == \A a, b, c \in Seq(Nat) : (a \o b) \o c = a \o (b \o c)
BY ConcatAssociative

LEMMA ReadKeeps ==
  ASSUME AsyncInv, NEW t \in Tasks, NEW w \in Tasks \cup {Nobody}, ReadOn(t, w),
         UNCHANGED <<reader, received>>,
         w = Nobody \/ (w = stream.waiter /\ task[t].out = <<>>)
  PROVE  AsyncInv'
<1> DEFINE new == Complete(Halves(t))
<1>0. AsyncTypeOK /\ StreamInv /\ CallInv
  BY DEF AsyncInv
<1>1. /\ new \in Seq(Nat) /\ leftover' = Unfinished(Halves(t)) /\ leftover' \in Seq(Nat)
      /\ stream' \in Streams /\ stream'.buffer = <<>> /\ stream'.broken = stream.broken
      /\ task' \in [Tasks -> Suspended] /\ returned' \in [Tasks -> Seq(Nat)]
      /\ \A u \in Tasks : u # t => task'[u] = task[u] /\ returned'[u] = returned[u]
      /\ \/ returned'[t] = returned[t] \o (task[t].out \o new) /\ task'[t] = Idle
         \/ /\ returned'[t] = returned[t] /\ task'[t].at = "reading"
            /\ task'[t].out = task[t].out \o new
         \/ /\ stream.broken \/ w # Nobody
            /\ returned'[t] = returned[t] /\ task'[t] = Idle
  BY <1>0, ReadOnEffect
<1> HIDE DEF new
<1>2. AsyncTypeOK'
  BY <1>0, <1>1 DEF AsyncTypeOK, Streams, Suspended
<1>3. received.first \in 1..2 /\ received.last \in Nat /\ received.first <= received.last + 1
  BY <1>0, AsyncAssumption DEF AsyncTypeOK
<1>4. Taken' = received.last
  BY <1>1, <1>3 DEF Taken
<1>5. StreamInv'
  BY <1>0, <1>1, <1>3, <1>4 DEF StreamInv
<1>6. CallInv'
  <2> SUFFICES ASSUME NEW u \in Tasks
               PROVE  /\ task'[u].at \in {"idle", "draining", "closing"} => task'[u].out = <<>>
                      /\ task'[u].at = "failed" => stream'.broken
    BY DEF CallInv
  <2>1. CASE u # t
    BY <1>0, <1>1, <2>1 DEF CallInv
  <2>2. CASE task'[t] = Idle
    <3>1. task'[t].at = "idle" /\ task'[t].out = <<>>
      BY <2>2 DEF Idle
    <3> QED
      BY <2>1, <3>1
  <2>3. CASE task'[t].at = "reading"
    BY <2>1, <2>3
  <2> QED
    BY <1>1, <2>1, <2>2, <2>3
<1>7. ASSUME ~stream.broken
      PROVE  (LeftoverInv /\ Shared(Has, received.first, Taken))'
  <2>1. LeftoverInv /\ Shared(Has, received.first, Taken)
    BY <1>7 DEF AsyncInv
  <2>2. PICK base \in Nat :
          /\ Halves(t) \in Seq(Nat) /\ base + Len(Halves(t)) = received.last
          /\ \A i \in 1..Len(Halves(t)) : Halves(t)[i] = base + i
          /\ Taken \in Nat
          /\ \/ base = Taken /\ (Taken < received.first \/ Taken % 2 = 0)
             \/ base + 1 = Taken /\ Taken >= received.first /\ Taken % 2 = 1
    BY <1>0, <2>1, HalvesInOrder
  <2>3. /\ Increasing(new)
        /\ \A i \in 1..Len(new) :
             base + 2 <= 2 * new[i] /\ 2 * new[i] <= base + Len(Halves(t))
        /\ \A k \in Nat : base + 2 <= 2 * k /\ 2 * k <= base + Len(Halves(t)) =>
             \E i \in 1..Len(new) : new[i] = k
        /\ Unfinished(Halves(t)) = IF Halves(t) # <<>> /\ (base + Len(Halves(t))) % 2 = 1
                                   THEN <<base + Len(Halves(t))>> ELSE <<>>
    BY <2>2, FramesOfHalves DEF new
  <2>4. \A k \in Nat : base + 2 <= 2 * k <=> received.first < 2 * k /\ Taken < 2 * k
    BY <1>0, <1>3, <2>2, Completed DEF StreamInv
  <2>11. Taken <= received.last /\ received.first \in Nat
    <3>1. Len(stream.buffer) \in Nat
      BY <1>0 DEF AsyncTypeOK
    <3> QED
      BY <1>3, <3>1 DEF Taken
  <2>5. LeftoverInv'
    <3>1. leftover' = IF Halves(t) # <<>> /\ received.last % 2 = 1 THEN <<received.last>> ELSE <<>>
      BY <1>1, <2>2, <2>3
    <3>2. Taken <= received.last
      BY <2>11
    <3>3. CASE Halves(t) = <<>>
      <4>1. base = received.last
        BY <2>2, <3>3
      <4>2. base = Taken /\ (Taken < received.first \/ Taken % 2 = 0)
        BY <1>3, <2>2, <3>2, <4>1
      <4> QED
        BY <1>3, <1>4, <3>1, <3>3, <4>1, <4>2 DEF LeftoverInv
    <3>4. CASE Halves(t) # <<>>
      <4>1. Len(Halves(t)) > 0
        BY <2>2, <3>4, EmptySeq
      <4>2. received.last >= received.first
        BY <1>0, <1>3, <2>2, <3>2, <4>1 DEF StreamInv
      <4> QED
        BY <1>4, <3>1, <3>4, <4>2 DEF LeftoverInv
    <3> QED
      BY <3>3, <3>4
  <2>7. Has \in [Tasks -> Seq(Nat)] /\ Has' \in [Tasks -> Seq(Nat)]
    <3>1. returned \in [Tasks -> Seq(Nat)] /\ task \in [Tasks -> Suspended]
      BY <1>0 DEF AsyncTypeOK, Suspended
    <3>2. Has \in [Tasks -> Seq(Nat)]
      BY <3>1, HasTypes DEF Has
    <3>3. Has' \in [Tasks -> Seq(Nat)]
      BY <1>1, HasTypes DEF Has
    <3> QED
      BY <3>2, <3>3
  <2>6. Has'[t] = Has[t] \o new
    <3>1. returned[t] \in Seq(Nat) /\ task[t].out \in Seq(Nat)
      BY <1>0 DEF AsyncTypeOK
    <3>2. (returned[t] \o task[t].out) \o new = returned[t] \o (task[t].out \o new)
      <4>1. new \in Seq(Nat)
        BY <1>1
      <4> QED
        BY Zenon, <3>1, <4>1, Regroup
    <3>3. CASE returned'[t] = returned[t] \o (task[t].out \o new) /\ task'[t] = Idle
      <4>1. (returned[t] \o (task[t].out \o new)) \o <<>> = returned[t] \o (task[t].out \o new)
        BY <1>1, <3>1, ConcatProperties, ConcatEmptySeq
      <4>2. task'[t].out = <<>>
        BY <3>3 DEF Idle
      <4> QED
        BY <3>2, <3>3, <4>1, <4>2 DEF Has
    <3>4. CASE returned'[t] = returned[t] /\ task'[t].out = task[t].out \o new
      BY <3>2, <3>4 DEF Has
    <3>5. CASE w # Nobody /\ returned'[t] = returned[t] /\ task'[t] = Idle
      <4>1. task[t].out = <<>> /\ stream.buffer = <<>>
        BY <1>0, <3>5 DEF StreamInv
      <4>2. Taken = received.last
        BY <1>3, <4>1 DEF Taken
      <4>3. Len(new) = 0
        <5> SUFFICES ASSUME Len(new) # 0 PROVE FALSE
          OBVIOUS
        <5>1. 1 \in 1..Len(new) /\ new[1] \in Nat
          BY <1>1, ElementOfSeq
        <5>2. PICK k \in Nat : k = new[1]
          BY <5>1
        <5>3. base + 2 <= 2 * k /\ 2 * k <= received.last
          BY <2>2, <2>3, <5>1, <5>2
        <5>4. Taken < 2 * k
          BY <2>4, <5>3
        <5> QED
          BY <1>3, <4>2, <5>3, <5>4
      <4>4. new = <<>>
        BY <1>1, <4>3, EmptySeq
      <4>5. Has[t] \in Seq(Nat) /\ Has[t] \o <<>> = Has[t]
        BY <2>7, ConcatEmptySeq
      <4>6. task'[t].out = <<>>
        BY <3>5 DEF Idle
      <4>7. Has'[t] = Has[t]
        BY <3>5, <4>1, <4>6 DEF Has
      <4> QED
        BY <4>4, <4>5, <4>7
    <3> QED
      BY <1>1, <1>7, <3>3, <3>4, <3>5
  <2>8. \A u \in Tasks : u # t => Has'[u] = Has[u]
    BY <1>1 DEF Has
  <2>9. \A i \in 1..Len(new) :
          received.first < 2 * new[i] /\ Taken < 2 * new[i] /\ 2 * new[i] <= received.last
    <3> TAKE i \in 1..Len(new)
    <3>1. PICK k \in Nat : k = new[i]
      BY <1>1, ElementOfSeq
    <3>2. base + 2 <= 2 * k /\ 2 * k <= received.last
      BY <2>2, <2>3, <3>1
    <3> QED
      BY <2>4, <3>1, <3>2
  <2>10. \A k \in Nat : received.first < 2 * k /\ Taken < 2 * k /\ 2 * k <= received.last =>
           \E i \in 1..Len(new) : new[i] = k
    BY <2>2, <2>3, <2>4
  <2>12. Shared(Has', received.first, received.last)
    <3>1. Increasing(new)
      BY <2>3
    <3>2. PICK h \in [Tasks -> Seq(Nat)], all \in [Tasks -> Seq(Nat)] : h = Has /\ all = Has'
      BY <2>7
    <3>3. all[t] = h[t] \o new /\ \A u \in Tasks : u # t => all[u] = h[u]
      BY <2>6, <2>8, <3>2
    <3>4. Shared(h, received.first, Taken) /\ Taken \in Nat
      BY <2>1, <2>2, <3>2
    <3>5. PICK f \in Nat, n \in Nat, m \in Nat :
            f = received.first /\ n = Taken /\ m = received.last
      BY <1>3, <2>2, <2>11
    <3>6. new \in Seq(Nat) /\ n <= m /\ Shared(h, f, n)
      BY <1>1, <2>11, <3>4, <3>5
    <3>7. Frames(new, f, n, m)
      BY <2>9, <2>10, <3>1, <3>5 DEF Frames
    <3>8. Gets(t, new, h, all)
      BY <3>3 DEF Gets
    <3>9. Shared(all, f, m)
      BY <3>6, <3>7, <3>8, Give
    <3> QED
      BY <3>2, <3>5, <3>9
  <2> QED
    BY <1>4, <2>5, <2>12
<1> QED
  BY <1>1, <1>2, <1>5, <1>6, <1>7 DEF AsyncInv

\* A step that takes nothing from the reader and leaves every task its frames.
LEMMA Kept ==
  ASSUME AsyncInv, AsyncTypeOK', StreamInv', CallInv',
         ~stream'.broken => /\ ~stream.broken /\ Taken' = Taken /\ leftover' = leftover
                            /\ received'.first = received.first /\ Has' = Has
  PROVE  AsyncInv'
<1> SUFFICES ASSUME ~stream'.broken
             PROVE  LeftoverInv' /\ Shared(Has', received'.first, Taken')
  BY DEF AsyncInv
<1>1. LeftoverInv /\ Shared(Has, received.first, Taken)
  BY DEF AsyncInv
<1> QED
  BY <1>1 DEF LeftoverInv

LEMMA Types ==
  /\ Idle \in Suspended /\ Idle.at = "idle" /\ Idle.out = <<>>
  /\ NoStream \in Streams /\ NoStream.buffer = <<>> /\ ~NoStream.broken /\ NoStream.waiter = Nobody
<1>1. <<>> \in Seq(Nat)
  OBVIOUS
<1>2. NoStream.broken = FALSE /\ NoStream.eof = FALSE
  BY DEF NoStream
<1> QED
  BY <1>1, <1>2 DEF Idle, NoStream, Suspended, Places, Streams

LEMMA OpenLinkKeeps ==
  ASSUME AsyncInv, OpenLink
  PROVE  AsyncInv'
<1>1. /\ reader' = "open" /\ stream' = NoStream /\ leftover' = <<>> /\ task' = task
      /\ returned' = [t \in Tasks |-> <<>>] /\ \A t \in Tasks : task[t].at = "idle"
  BY DEF OpenLink, At
<1>2. PICK first \in 1..2 : received' = [first |-> first, last |-> first - 1]
  BY DEF OpenLink
<1>3. AsyncTypeOK /\ CallInv
  BY DEF AsyncInv
<1>4. received'.first = first /\ received'.last = first - 1
  BY <1>2
<1>5. received' \in [first : 1..2, last : Nat]
  <2>1. first - 1 \in Nat
    OBVIOUS
  <2> QED
    BY <1>2, <2>1
<1>6. AsyncTypeOK'
  <2>1. \A t \in Tasks : returned'[t] \in Seq(Nat)
    BY <1>1
  <2>2. returned' \in [Tasks -> Seq(Nat)]
    BY <1>1, <2>1
  <2>3. received'.first <= received'.last + 1 /\ received'.last <= 1
    BY <1>4
  <2>4. leftover' \in Seq(Nat)
    BY <1>1
  <2>5. stream' \in Streams
    BY <1>1, Types
  <2> QED
    BY <1>1, <1>3, <1>5, <2>2, <2>3, <2>4, <2>5 DEF AsyncTypeOK, Streams
<1>7. Taken' = first - 1
  BY <1>1, <1>4, Types DEF Taken
<1>8. StreamInv'
  BY <1>1, <1>4, <1>7, Types DEF StreamInv
<1>9. CallInv'
  BY <1>1, <1>3 DEF CallInv
<1>10. LeftoverInv'
  BY <1>1, <1>4, <1>7 DEF LeftoverInv
<1>11. \A t \in Tasks : Has'[t] = <<>>
  <2> TAKE t \in Tasks
  <2>1. task'[t].out = <<>> /\ returned'[t] = <<>>
    BY <1>1, <1>3 DEF CallInv
  <2>2. returned'[t] \o task'[t].out = <<>>
    BY <2>1, ConcatEmptySeq
  <2> QED
    BY <2>2 DEF Has
<1>12. Shared(Has', first, first - 1)
  BY <1>11 DEF Shared, Increasing
<1> QED
  BY <1>4, <1>6, <1>7, <1>8, <1>9, <1>10, <1>12 DEF AsyncInv

\* A call gives what it has collected to its caller.
LEMMA GivenFrames ==
  ASSUME AsyncTypeOK, NEW t \in Tasks, Returns(t, task[t].out)
  PROVE  /\ task' \in [Tasks -> Suspended] /\ returned' \in [Tasks -> Seq(Nat)] /\ Has' = Has
         /\ \A u \in Tasks : task'[u] = task[u] \/ task'[u] = Idle
<1>1. /\ returned[t] \in Seq(Nat) /\ task[t].out \in Seq(Nat) /\ task \in [Tasks -> Suspended]
      /\ returned \in [Tasks -> Seq(Nat)]
  BY DEF AsyncTypeOK, Suspended
<1>2. returned[t] \o task[t].out \in Seq(Nat)
  BY <1>1, ConcatProperties
<1>3. task' \in [Tasks -> Suspended] /\ returned' \in [Tasks -> Seq(Nat)]
  BY <1>1, <1>2, Types DEF Returns
<1>4. \A u \in Tasks : returned'[u] \o task'[u].out = returned[u] \o task[u].out
  <2> TAKE u \in Tasks
  <2>1. CASE u = t
    <3>1. returned'[u] = returned[t] \o task[t].out /\ task'[u] = Idle
      BY <1>1, <2>1 DEF Returns
    <3>2. task'[u].out = <<>>
      BY <3>1, Types
    <3> QED
      BY <1>2, <2>1, <3>1, <3>2, ConcatEmptySeq
  <2>2. CASE u # t
    BY <1>1, <2>2 DEF Returns
  <2> QED
    BY <2>1, <2>2
<1> QED
  BY <1>1, <1>3, <1>4 DEF Has, Returns

\* A call that has collected nothing ends, or is suspended elsewhere.
LEMMA Moved ==
  ASSUME AsyncTypeOK, NEW t \in Tasks, NEW call \in Suspended, call.out = task[t].out,
         task' = [task EXCEPT ![t] = call], returned' = returned
  PROVE  task' \in [Tasks -> Suspended] /\ Has' = Has
<1>1. task \in [Tasks -> Suspended]
  BY DEF AsyncTypeOK, Suspended
<1>2. \A u \in Tasks : task'[u].out = task[u].out
  BY <1>1
<1> QED
  BY <1>1, <1>2 DEF Has

LEMMA ReadFramesKeeps ==
  ASSUME AsyncInv, NEW t \in Tasks, ReadFrames(t)
  PROVE  AsyncInv'
<1>1. AsyncTypeOK /\ StreamInv /\ CallInv
  BY DEF AsyncInv
<1>2. task[t].out = <<>> /\ UNCHANGED <<reader, received>>
  BY <1>1 DEF ReadFrames, Calls, At, CallInv
<1>3. CASE stream.broken
  <2>1. Fails(t) /\ stream' = stream /\ leftover' = leftover
    BY <1>3 DEF ReadFrames
  <2>2. task' \in [Tasks -> Suspended] /\ Has' = Has
    BY <1>1, <1>2, <2>1, Moved, Types DEF Fails
  <2>3. AsyncTypeOK'
    BY <1>1, <1>2, <2>1, <2>2 DEF AsyncTypeOK, Fails, Suspended
  <2>4. StreamInv' /\ Taken' = Taken
    BY <1>1, <1>2, <2>1 DEF StreamInv, Taken
  <2>5. CallInv'
    BY <1>1, <2>1, Types DEF CallInv, Fails, AsyncTypeOK
  <2> QED
    BY <1>2, <1>3, <2>1, <2>2, <2>3, <2>4, <2>5, Kept
<1>4. CASE ReadOn(t, stream.waiter)
  <2>1. stream.waiter \in Tasks \cup {Nobody}
    BY <1>1 DEF AsyncTypeOK
  <2> QED
    BY <1>2, <1>4, <2>1, ReadKeeps
<1> QED
  BY <1>3, <1>4 DEF ReadFrames

\* A step that only moves a task, and what follows from the stream being left alone.
LEMMA MoveKeeps ==
  ASSUME AsyncInv, NEW t \in Tasks, NEW place \in Places,
         task' = [task EXCEPT ![t].at = place],
         UNCHANGED <<stream, leftover, received, returned>>,
         reader' \in {"None", "open", "closing", "lost"},
         reader' \in {"open", "closing"} => reader \in {"open", "closing"},
         place \in {"idle", "draining", "closing"} => task[t].out = <<>>, place # "failed"
  PROVE  AsyncInv'
<1> DEFINE call == [task[t] EXCEPT !.at = place]
<1>1. AsyncTypeOK /\ StreamInv /\ CallInv /\ task \in [Tasks -> Suspended]
  BY DEF AsyncInv, AsyncTypeOK, Suspended
<1>2. call \in Suspended /\ call.out = task[t].out /\ call.at = place
  BY <1>1 DEF Suspended
<1>3. task' = [task EXCEPT ![t] = call]
  OBVIOUS
<1> HIDE DEF call
<1>4. task' \in [Tasks -> Suspended] /\ Has' = Has
  BY <1>1, <1>2, <1>3, Moved
<1>5. AsyncTypeOK'
  BY <1>1, <1>4 DEF AsyncTypeOK, Suspended
<1>6. StreamInv' /\ Taken' = Taken
  BY <1>1 DEF StreamInv, Taken
<1>7. CallInv'
  BY <1>1, <1>2, <1>3 DEF CallInv
<1> QED
  BY <1>4, <1>5, <1>6, <1>7, Kept

LEMMA DrainedKeeps ==
  ASSUME AsyncInv, NEW t \in Tasks, Drained(t)
  PROVE  AsyncInv'
<1>1. AsyncTypeOK /\ StreamInv /\ CallInv /\ UNCHANGED <<reader, received>>
  BY DEF AsyncInv, Drained
<1>2. task[t].out = <<>>
  BY <1>1 DEF Drained, At, CallInv
<1>3. CASE Fails(t) /\ UNCHANGED <<stream, leftover>>
  <2>1. task' \in [Tasks -> Suspended] /\ Has' = Has
    BY <1>1, <1>2, <1>3, Moved, Types DEF Fails
  <2>2. AsyncTypeOK'
    BY <1>1, <1>3, <2>1 DEF AsyncTypeOK, Fails, Suspended
  <2>3. StreamInv' /\ Taken' = Taken
    BY <1>1, <1>3 DEF StreamInv, Taken
  <2>4. CallInv'
    BY <1>1, <1>3, Types DEF CallInv, Fails, AsyncTypeOK
  <2> QED
    BY <1>1, <1>3, <2>1, <2>2, <2>3, <2>4, Kept
<1>4. CASE ReadOn(t, stream.waiter)
  <2>1. stream.waiter \in Tasks \cup {Nobody}
    BY <1>1 DEF AsyncTypeOK
  <2> QED
    BY <1>1, <1>2, <1>4, <2>1, ReadKeeps
<1> QED
  BY <1>3, <1>4 DEF Drained

\* Whoever wakes forgets the waiter; another's frames are not touched by it.
LEMMA ForgetKeeps ==
  ASSUME AsyncInv, UNCHANGED <<reader, leftover, received>>, Has' = Has,
         stream' = [stream EXCEPT !.waiter = Nobody],
         task' \in [Tasks -> Suspended], returned' \in [Tasks -> Seq(Nat)],
         \A u \in Tasks : task'[u] = task[u] \/ task'[u] = Idle
  PROVE  AsyncInv'
<1>1. AsyncTypeOK /\ StreamInv /\ CallInv
  BY DEF AsyncInv
<1>2. /\ stream' \in Streams /\ stream'.buffer = stream.buffer /\ stream'.broken = stream.broken
      /\ stream'.waiter = Nobody
  BY <1>1 DEF AsyncTypeOK, Streams
<1>3. AsyncTypeOK'
  BY <1>1, <1>2 DEF AsyncTypeOK, Streams, Suspended
<1>4. StreamInv' /\ Taken' = Taken
  BY <1>1, <1>2 DEF StreamInv, Taken
<1>5. CallInv'
  BY <1>1, <1>2, Types DEF CallInv
<1> QED
  BY <1>2, <1>3, <1>4, <1>5, Kept

LEMMA ResumeReaderKeeps ==
  ASSUME AsyncInv, NEW t \in Tasks, ResumeReader(t)
  PROVE  AsyncInv'
<1>1. AsyncTypeOK /\ CallInv /\ UNCHANGED <<reader, received>>
  BY DEF AsyncInv, ResumeReader
<1>2. CASE ReadOn(t, Nobody)
  BY <1>1, <1>2, ReadKeeps
<1>3. CASE Returns(t, task[t].out) /\ stream' = [stream EXCEPT !.waiter = Nobody] /\ leftover' = leftover
  BY <1>1, <1>3, GivenFrames, ForgetKeeps
<1>4. CASE /\ At(t, {"failed"}) /\ Fails(t) /\ leftover' = leftover
           /\ stream' = [stream EXCEPT !.waiter = Nobody]
  <2>1. stream.broken /\ stream'.broken = stream.broken
    BY <1>1, <1>4 DEF CallInv, At, AsyncTypeOK
  <2>2. task' \in [Tasks -> Suspended] /\ \A u \in Tasks : task'[u] = task[u] \/ task'[u] = Idle
    BY <1>1, <1>4, Types DEF Fails, AsyncTypeOK, Suspended
  <2>3. /\ stream' \in Streams /\ stream'.buffer = stream.buffer /\ stream'.waiter = Nobody
    BY <1>1, <1>4 DEF AsyncTypeOK, Streams
  <2>4. AsyncTypeOK'
    BY <1>1, <1>4, <2>2, <2>3 DEF AsyncTypeOK, Streams, Suspended, Fails
  <2>5. StreamInv'
    BY <1>1, <2>1, <2>3 DEF StreamInv, Taken, AsyncInv
  <2>6. CallInv'
    BY <1>1, <2>1, <2>2, Types DEF CallInv
  <2> QED
    BY <2>1, <2>4, <2>5, <2>6, Kept
<1> QED
  BY <1>2, <1>3, <1>4 DEF ResumeReader

LEMMA CloseEndsKeeps ==
  ASSUME AsyncInv, NEW t \in Tasks, CloseEnds(t)
  PROVE  AsyncInv'
<1>1. AsyncTypeOK /\ StreamInv /\ CallInv /\ UNCHANGED <<stream, leftover, received, returned>>
  BY DEF AsyncInv, CloseEnds
<1>2. task[t].out = <<>> /\ task' = [task EXCEPT ![t] = Idle] /\ reader' = "None"
  BY <1>1 DEF CloseEnds, At, CallInv
<1>3. task' \in [Tasks -> Suspended] /\ Has' = Has
  BY <1>1, <1>2, Moved, Types
<1>4. AsyncTypeOK'
  BY <1>1, <1>2, <1>3 DEF AsyncTypeOK, Suspended
<1>5. StreamInv' /\ Taken' = Taken
  BY <1>1, <1>2 DEF StreamInv, Taken
<1>6. CallInv'
  BY <1>1, <1>2, Types DEF CallInv, AsyncTypeOK
<1> QED
  BY <1>1, <1>3, <1>4, <1>5, <1>6, Kept

LEMMA TasksKeep ==
  ASSUME AsyncInv, NEW t \in Tasks,
         \/ ReadFrames(t) \/ Request(t) \/ Drained(t)
         \/ WindowOver(t) \/ ResumeReader(t) \/ AClose(t) \/ CloseEnds(t)
  PROVE  AsyncInv'
<1>1. AsyncTypeOK /\ StreamInv /\ CallInv
  BY DEF AsyncInv
<1>2. CASE Request(t)
  <2>1. task[t].out = <<>>
    BY <1>1, <1>2 DEF Request, Calls, At, CallInv
  <2>2. reader' \in {"None", "open", "closing", "lost"}
    BY <1>1, <1>2 DEF Request, AsyncTypeOK
  <2> QED
    BY <1>2, <2>1, <2>2, MoveKeeps DEF Request, Places
<1>3. CASE WindowOver(t)
  <2>1. reader' \in {"None", "open", "closing", "lost"}
    BY <1>1, <1>3 DEF WindowOver, AsyncTypeOK
  <2> QED
    BY <1>3, <2>1, MoveKeeps DEF WindowOver, Places
<1>4. CASE AClose(t) /\ reader # "lost"
  <2>1. task[t].out = <<>>
    BY <1>1, <1>4 DEF AClose, At, CallInv
  <2>2. reader' = "closing" /\ reader \in {"open", "closing"}
    BY <1>1, <1>4 DEF AClose, AsyncTypeOK
  <2> QED
    BY <1>4, <2>1, <2>2, MoveKeeps DEF AClose, Places
<1>5. CASE AClose(t) /\ reader = "lost"
  <2>1. reader' = "None" /\ UNCHANGED <<task, stream, leftover, received, returned>>
    BY <1>5 DEF AClose
  <2>2. AsyncTypeOK' /\ StreamInv' /\ CallInv' /\ Has' = Has /\ Taken' = Taken
    BY <1>1, <2>1 DEF AsyncTypeOK, StreamInv, CallInv, Has, Taken
  <2> QED
    BY <2>1, <2>2, Kept
<1> QED
  BY <1>2, <1>3, <1>4, <1>5, ReadFramesKeeps, DrainedKeeps, ResumeReaderKeeps, CloseEndsKeeps

\* The waiter is woken; no call loses what it has collected.
LEMMA Woken ==
  ASSUME AsyncTypeOK, CallInv, NEW s \in Streams, Wake("fed", s), returned' = returned,
         stream.broken => s.broken
  PROVE  /\ task' \in [Tasks -> Suspended] /\ Has' = Has
         /\ stream' = [s EXCEPT !.waiter = Nobody] /\ stream' \in Streams
         /\ stream'.buffer = s.buffer /\ stream'.eof = s.eof /\ stream'.broken = s.broken
         /\ stream'.waiter = Nobody
         /\ CallInv'
<1>1. /\ stream' = [s EXCEPT !.waiter = Nobody] /\ stream' \in Streams
      /\ stream'.buffer = s.buffer /\ stream'.eof = s.eof /\ stream'.broken = s.broken
      /\ stream'.waiter = Nobody
  BY DEF Wake, Streams
<1>2. task \in [Tasks -> Suspended]
  BY DEF AsyncTypeOK, Suspended
<1>3. CASE task' = task
  BY <1>1, <1>2, <1>3 DEF Has, CallInv
<1>4. CASE stream.waiter \in Tasks /\ task' = [task EXCEPT ![stream.waiter].at = "fed"]
  <2>1. PICK t \in Tasks : t = stream.waiter
    BY <1>4
  <2> DEFINE call == [task[t] EXCEPT !.at = "fed"]
  <2>2. call \in Suspended /\ call.out = task[t].out /\ call.at = "fed"
    BY <1>2 DEF Suspended, Places
  <2>3. task' = [task EXCEPT ![t] = call]
    BY <1>4, <2>1
  <2> HIDE DEF call
  <2>4. task' \in [Tasks -> Suspended] /\ Has' = Has
    BY <2>2, <2>3, Moved
  <2>5. CallInv'
    BY <1>1, <1>2, <2>2, <2>3 DEF CallInv
  <2> QED
    BY <1>1, <2>4, <2>5
<1>5. stream.waiter \in Tasks \cup {Nobody}
  BY DEF AsyncTypeOK
<1> QED
  BY <1>3, <1>4, <1>5 DEF Wake

LEMMA FeedKeeps ==
  ASSUME AsyncInv, Feed
  PROVE  AsyncInv'
<1>1. AsyncTypeOK /\ StreamInv /\ CallInv /\ UNCHANGED <<reader, leftover, returned>>
  BY DEF AsyncInv, Feed
<1> DEFINE next == received.last + 1
           fed == [stream EXCEPT !.buffer = Append(@, next)]
<1>2. /\ received' = [received EXCEPT !.last = next] /\ Wake("fed", fed) /\ received.last < MaxHalves
  BY DEF Feed
<1>3. received \in [first : 1..2, last : Nat] /\ received.last \in Nat /\ next \in Nat
  BY <1>1 DEF AsyncTypeOK
<1>4. /\ stream \in Streams /\ stream.buffer \in Seq(Nat) /\ Len(stream.buffer) \in Nat
  BY <1>1 DEF AsyncTypeOK, Streams
<1> HIDE DEF next
<1>5. /\ Append(stream.buffer, next) \in Seq(Nat)
      /\ Len(Append(stream.buffer, next)) = Len(stream.buffer) + 1
      /\ \A i \in 1..Len(stream.buffer) : Append(stream.buffer, next)[i] = stream.buffer[i]
      /\ Append(stream.buffer, next)[Len(stream.buffer) + 1] = next
  BY <1>3, <1>4, AppendProperties
<1>6. fed \in Streams /\ fed.buffer = Append(stream.buffer, next) /\ fed.broken = stream.broken
  BY <1>4, <1>5 DEF Streams
<1> HIDE DEF fed
<1>7. /\ task' \in [Tasks -> Suspended] /\ Has' = Has /\ stream' \in Streams
      /\ stream'.buffer = Append(stream.buffer, next) /\ stream'.broken = stream.broken
      /\ stream'.waiter = Nobody /\ CallInv'
  BY <1>1, <1>2, <1>6, Woken
<1>8. received' \in [first : 1..2, last : Nat] /\ received'.first = received.first /\ received'.last = next
  BY <1>2, <1>3
<1>9. next <= MaxHalves /\ received.first <= next + 1
  BY <1>1, <1>2, <1>3, AsyncAssumption DEF AsyncTypeOK, next
<1>10. AsyncTypeOK'
  BY <1>1, <1>7, <1>8, <1>9 DEF AsyncTypeOK, Streams, Suspended
<1>11. Taken' = Taken
  <2>1. Len(stream'.buffer) = Len(stream.buffer) + 1 /\ received'.last = received.last + 1
    BY <1>5, <1>7, <1>8 DEF next
  <2> QED
    BY <1>3, <1>4, <2>1 DEF Taken
<1>12. \A i \in 1..Len(stream'.buffer) : stream'.buffer[i] = Taken + i
  <2> TAKE i \in 1..Len(stream'.buffer)
  <2>1. CASE i \in 1..Len(stream.buffer)
    BY <1>1, <1>5, <1>7, <2>1 DEF StreamInv
  <2>2. CASE i = Len(stream.buffer) + 1
    <3>1. next = Taken + i
      BY <1>3, <1>4, <2>2 DEF Taken, next
    <3> QED
      BY <1>5, <1>7, <2>2, <3>1
  <2> QED
    BY <1>4, <1>5, <1>7, <2>1, <2>2
<1>13. StreamInv'
  BY <1>1, <1>7, <1>8, <1>11, <1>12 DEF StreamInv
<1> QED
  BY <1>1, <1>7, <1>8, <1>10, <1>11, <1>13, Kept

LEMMA FeedEofKeeps ==
  ASSUME AsyncInv, FeedEof
  PROVE  AsyncInv'
<1>1. AsyncTypeOK /\ StreamInv /\ CallInv /\ UNCHANGED <<reader, leftover, received, returned>>
  BY DEF AsyncInv, FeedEof
<1> DEFINE ended == [stream EXCEPT !.eof = TRUE]
<1>2. stream \in Streams
  BY <1>1 DEF AsyncTypeOK, Streams
<1>3. ended \in Streams /\ ended.buffer = stream.buffer /\ ended.broken = stream.broken
  <2>1. TRUE \in BOOLEAN
    OBVIOUS
  <2> QED
    BY <1>2, <2>1 DEF Streams
<1>4. Wake("fed", ended)
  BY DEF FeedEof
<1> HIDE DEF ended
<1>5. /\ task' \in [Tasks -> Suspended] /\ Has' = Has /\ stream' \in Streams
      /\ stream'.buffer = stream.buffer /\ stream'.broken = stream.broken
      /\ stream'.waiter = Nobody /\ CallInv'
  BY <1>1, <1>3, <1>4, Woken
<1>6. AsyncTypeOK'
  BY <1>1, <1>5 DEF AsyncTypeOK, Streams, Suspended
<1>7. StreamInv' /\ Taken' = Taken
  BY <1>1, <1>5 DEF StreamInv, Taken
<1> QED
  BY <1>1, <1>5, <1>6, <1>7, Kept

LEMMA ConnectionLostKeeps ==
  ASSUME AsyncInv, ConnectionLost
  PROVE  AsyncInv'
<1> DEFINE broken == reader = "open"
           place == IF broken THEN "failed" ELSE "fed"
<1>1. /\ AsyncTypeOK /\ StreamInv /\ CallInv /\ UNCHANGED <<leftover, received, returned>>
      /\ reader' = "lost"
  BY DEF AsyncInv, ConnectionLost
<1>2. stream' = [stream EXCEPT !.waiter = Nobody, !.broken = broken, !.eof = ~broken \/ @]
  BY DEF ConnectionLost
<1>3. stream \in Streams /\ broken \in BOOLEAN /\ (~broken \/ stream.eof) \in BOOLEAN
  BY <1>1 DEF AsyncTypeOK, Streams
<1>4. ~stream.broken
  BY <1>1 DEF ConnectionLost, StreamInv
<1>5. \A t \in Tasks : task'[t] = task[t] \/ task'[t] = [task[t] EXCEPT !.at = place]
  BY DEF ConnectionLost
<1>6. task \in [Tasks -> Suspended] /\ \E f : task' = [t \in Tasks |-> f[t]]
  <2>1. \E wakes : task' = [t \in Tasks |-> IF t \in ToSet(wakes) THEN [task[t] EXCEPT !.at = place]
                                           ELSE task[t]]
    BY Zenon DEF ConnectionLost
  <2> QED
    BY <1>1, <2>1 DEF AsyncTypeOK, Suspended
<1> HIDE DEF broken
<1>7. /\ stream' \in Streams /\ stream'.buffer = stream.buffer
      /\ stream'.waiter = Nobody /\ stream'.broken = broken
  BY <1>2, <1>3 DEF Streams
<1>8. \A t \in Tasks : [task[t] EXCEPT !.at = place] \in Suspended
  BY <1>6 DEF Suspended, Places
<1>9. \A t \in Tasks : /\ task'[t] \in Suspended /\ task'[t].out = task[t].out
                       /\ task'[t].at = task[t].at \/ task'[t].at = place
  BY <1>5, <1>6, <1>8 DEF Suspended
<1>10. task' \in [Tasks -> Suspended] /\ Has' = Has
  BY <1>1, <1>6, <1>9 DEF Has
<1>11. AsyncTypeOK'
  BY <1>1, <1>7, <1>10 DEF AsyncTypeOK, Streams, Suspended
<1>12. StreamInv' /\ Taken' = Taken
  BY <1>1, <1>7 DEF StreamInv, Taken
<1>13. CallInv'
  BY <1>1, <1>4, <1>7, <1>9 DEF CallInv
<1> QED
  BY <1>1, <1>4, <1>10, <1>11, <1>12, <1>13, Kept

-----------------------------------------------------------------------------
(* The theorems.                                                           *)

LEMMA AsyncStart == AsyncInit => AsyncInv
<1> SUFFICES ASSUME AsyncInit PROVE AsyncInv
  OBVIOUS
<1>1. /\ reader = "None" /\ stream = NoStream /\ leftover = <<>>
      /\ \A t \in Tasks : task[t] = Idle /\ returned[t] = <<>>
      /\ received.first = 1 /\ received.last = 0
  BY DEF AsyncInit
<1>2. AsyncTypeOK
  <2>1. task \in [Tasks -> Suspended]
    BY Types DEF AsyncInit
  <2>2. returned \in [Tasks -> Seq(Nat)] /\ leftover \in Seq(Nat)
    BY DEF AsyncInit
  <2>3. received \in [first : 1..2, last : Nat]
    BY DEF AsyncInit
  <2> QED
    BY <1>1, <2>1, <2>2, <2>3, Types DEF AsyncTypeOK, Streams, Suspended
<1>3. Taken = 0
  <2>1. stream.buffer = <<>> /\ received.last = 0
    BY <1>1, Types
  <2>2. Len(stream.buffer) = 0
    BY <2>1
  <2>3. Taken = 0 - 0
    BY <2>1, <2>2 DEF Taken
  <2> QED
    BY <2>3
<1>4. StreamInv /\ CallInv /\ LeftoverInv
  BY <1>1, <1>3, Types DEF StreamInv, CallInv, LeftoverInv
<1>5. \A t \in Tasks : Has[t] = <<>>
  <2> TAKE t \in Tasks
  <2>1. task[t].out = <<>> /\ returned[t] = <<>>
    BY <1>1, Types
  <2>2. returned[t] \o task[t].out = <<>>
    BY <2>1, ConcatEmptySeq
  <2> QED
    BY <2>2 DEF Has
<1>6. Shared(Has, 1, 0)
  BY <1>5 DEF Shared, Increasing
<1> QED
  BY <1>1, <1>2, <1>3, <1>4, <1>6 DEF AsyncInv

LEMMA AsyncStep == AsyncInv /\ [AsyncNext]_asyncVars => AsyncInv'
<1> SUFFICES ASSUME AsyncInv, [AsyncNext]_asyncVars PROVE AsyncInv'
  OBVIOUS
<1>1. CASE UNCHANGED asyncVars
  <2>1. UNCHANGED <<reader, stream, leftover, task, received, returned>>
    BY <1>1 DEF asyncVars
  <2>2. AsyncTypeOK' /\ StreamInv' /\ CallInv' /\ Has' = Has /\ Taken' = Taken
    BY <2>1 DEF AsyncInv, AsyncTypeOK, StreamInv, CallInv, Has, Taken
  <2> QED
    BY <2>1, <2>2, Kept
<1> QED
  BY <1>1, OpenLinkKeeps, FeedKeeps, FeedEofKeeps, ConnectionLostKeeps, TasksKeep DEF AsyncNext

\* AsyncInv holds whatever the tasks of one event loop do with the client that they share,
\* and however their reads, drains and closing interleave with what the transport does: no
\* byte is taken twice, and frames of two tasks are apart (spp.py AsyncSppBridge).
THEOREM AsyncCorrect == AsyncSpec => []AsyncInv
BY AsyncStart, AsyncStep, PTL DEF AsyncSpec

LEMMA ExactlyOne == AsyncInv => EachFrameOnce
<1> SUFFICES ASSUME AsyncInv, ~stream.broken PROVE EachFrameOnce
  BY DEF EachFrameOnce
<1> DEFINE has(t) == returned[t] \o task[t].out
           complete == {k \in 1..MaxHalves : received.first < 2 * k /\ 2 * k <= Taken}
<1>1. AsyncTypeOK /\ StreamInv /\ Shared(Has, received.first, Taken)
  BY DEF AsyncInv
<1>2. \A t \in Tasks : Has[t] = has(t)
  BY DEF Has
<1>3. Has \in [Tasks -> Seq(Nat)]
  <2>1. returned \in [Tasks -> Seq(Nat)] /\ task \in [Tasks -> Suspended]
    BY <1>1 DEF AsyncTypeOK, Suspended
  <2> QED
    BY <2>1, HasTypes DEF Has
<1>4. /\ received.first \in 1..2 /\ received.last \in Nat /\ Taken \in Nat /\ Taken <= received.last
      /\ received.last <= MaxHalves \/ received.last <= 1
  <2>1. Len(stream.buffer) \in Nat /\ received \in [first : 1..2, last : Nat]
    BY <1>1 DEF AsyncTypeOK
  <2> QED
    BY <1>1, <2>1 DEF AsyncTypeOK, StreamInv, Taken
<1> HIDE DEF has
<1>5. ASSUME NEW t \in Tasks, NEW i \in DOMAIN has(t)
      PROVE  has(t)[i] \in complete
  <2>1. has(t) \in Seq(Nat) /\ i \in 1..Len(has(t)) /\ has(t)[i] \in Nat
    BY <1>2, <1>3, ElementOfSeq
  <2>2. PICK k \in Nat : k = has(t)[i]
    BY <2>1
  <2>3. received.first < 2 * k /\ 2 * k <= Taken
    BY <1>1, <1>2, <2>1, <2>2 DEF Shared
  <2>4. k \in 1..MaxHalves
    BY <1>4, <2>3, AsyncAssumption
  <2> QED
    BY <2>2, <2>3, <2>4
<1>6. ASSUME NEW t \in Tasks, NEW i \in DOMAIN has(t), NEW j \in DOMAIN has(t), i < j
      PROVE  has(t)[i] < has(t)[j]
  <2>1. has(t) \in Seq(Nat) /\ i \in 1..Len(has(t)) /\ j \in 1..Len(has(t))
    BY <1>2, <1>3
  <2> QED
    BY <1>1, <1>2, <1>6, <2>1 DEF Shared, Increasing
<1>7. ASSUME NEW k \in complete
      PROVE  Cardinality({t \in Tasks : k \in ToSet(has(t))}) = 1
  <2>1. k \in Nat /\ received.first < 2 * k /\ 2 * k <= Taken
    OBVIOUS
  <2>2. PICK t \in Tasks : \E i \in 1..Len(Has[t]) : Has[t][i] = k
    BY <1>1, <2>1 DEF Shared
  <2>3. \A u \in Tasks : k \in ToSet(has(u)) <=> \E i \in 1..Len(Has[u]) : Has[u][i] = k
    BY <1>2, <1>3 DEF ToSet
  <2>4. \A u \in Tasks : k \in ToSet(has(u)) => u = t
    <3> SUFFICES ASSUME NEW u \in Tasks, k \in ToSet(has(u)), u # t
                 PROVE  FALSE
      OBVIOUS
    <3>1. PICK i \in 1..Len(Has[t]) : Has[t][i] = k
      BY <2>2
    <3>2. PICK j \in 1..Len(Has[u]) : Has[u][j] = k
      BY <2>3
    <3>3. Has[t][i] # Has[u][j]
      BY <1>1 DEF Shared
    <3> QED
      BY <3>1, <3>2, <3>3
  <2>5. {u \in Tasks : k \in ToSet(has(u))} = {t}
    BY <2>2, <2>3, <2>4
  <2> QED
    BY <2>5, FS_Singleton
<1>8. Taken = received.last - Len(stream.buffer)
  BY DEF Taken
<1> QED
  BY <1>5, <1>6, <1>7, <1>8 DEF EachFrameOnce, has, ToSet

\* Each frame that the reads have completed is with exactly one task, in the device's
\* order, whatever tasks there are and however they interleave (spp.py, read_frames).
THEOREM FramesAreShared == AsyncSpec => []EachFrameOnce
BY AsyncCorrect, ExactlyOne, PTL

-----------------------------------------------------------------------------
\* FridaCapture: no write after the hooks is missed

Data == Values \cup {None}
Write == [transport : {"att", "rfcomm"}, data : Data, us : Nat]
Call == [t : {"ble_set", "ble_write", "rfcomm_write"}, data : Data, ms : Nat]
Notice == [t : {"err", "ready"}]
Message == Call \cup Notice
Event == [us : Nat, transport : {"att", "rfcomm"}, how : {"ble_set", "ble_write", "rfcomm_write"},
          data : Data]

FridaTypeOK ==
  /\ running \in {"stopped", "suspended", "running"}
  /\ at \in {"idle", "found", "attached", "loaded", "sleeping", "raised", "returned"}
  /\ spawned \in BOOLEAN /\ hooks \in SUBSET {"att", "rfcomm"} /\ charValue \in Data
  /\ writes \in Seq(Write) /\ before \in 0..Len(writes) /\ clock \in Nat
  /\ air \in Seq(Message) /\ events \in Seq(Event)

\* What is reported, and what should be.
Reported == WritesAmong(events \o Told(air))
Sent == SubSeq(writes, before + 1, Len(writes))
Out == Hooked(Sent)

\* A write as it is reported: its time loses what is less than a millisecond.
Means(event, write) ==
  /\ event.transport = write.transport /\ event.data = write.data
  /\ write.us - event.us \in 0..999
Begins(reported, out) ==
  /\ Len(reported) <= Len(out)
  /\ \A k \in 1..Len(reported) : Means(reported[k], out[k])

\* The inductive invariant.  Nothing is reported before the hooks are in place, and an
\* app that is stopped or suspended has written nothing: one that was spawned stays
\* suspended until its hooks are.
FridaInv ==
  /\ FridaTypeOK
  /\ at \in {"idle", "found", "attached"} => hooks = {} /\ air = <<>> /\ events = <<>>
  /\ at = "returned" => air = <<>>
  /\ running # "running" => writes = <<>>
  /\ spawned => at # "idle" /\ (at \in {"found", "attached", "loaded"} => running = "suspended")
  /\ at \in {"loaded", "sleeping", "returned"} =>
       /\ spawned => before = 0
       /\ Begins(Reported, Out)
       /\ at # "returned" => Len(Reported) = Len(Out)

-----------------------------------------------------------------------------
\* The three filters, as maps of elements to sequences.
Parse == [m \in Message |-> ParseHookMessage(m)]
IfWrite == [e \in Event |-> IF e.how # "ble_set" THEN <<e>> ELSE <<>>]
IfHooked(h) == [w \in Write |-> IF w.transport \in h THEN <<w>> ELSE <<>>]

Passing(h, s) == FlatMap(s, IfHooked(h))

LEMMA One ==
  ASSUME NEW S, NEW x \in S
  PROVE  <<x>> \in Seq(S) /\ Len(<<x>>) = 1 /\ <<x>>[1] = x
OBVIOUS

LEMMA ParseType == Parse \in [Message -> Seq(Event)]
<1>1. ASSUME NEW m \in Message PROVE ParseHookMessage(m) \in Seq(Event)
  <2>1. CASE m \in Notice
    <3>1. ParseHookMessage(m) = <<>>
      BY <2>1 DEF Notice, ParseHookMessage
    <3> QED
      BY <3>1, EmptySeq
  <2>2. CASE m \in Call
    <3>1. m.data \in Data /\ m.ms \in Nat /\ m.t \in {"ble_set", "ble_write", "rfcomm_write"}
      BY <2>2 DEF Call
    <3>2. 1000 * m.ms \in Nat
      BY <3>1
    <3>3. CASE m.t = "rfcomm_write"
      <4> DEFINE e == [us |-> 1000 * m.ms, transport |-> "rfcomm", how |-> m.t, data |-> m.data]
      <4>1. e \in Event
        BY <3>1, <3>2 DEF Event
      <4>2. ParseHookMessage(m) = <<e>>
        BY <3>3 DEF ParseHookMessage
      <4> HIDE DEF e
      <4> QED
        BY <4>1, <4>2, One
    <3>4. CASE m.t # "rfcomm_write"
      <4> DEFINE e == [us |-> 1000 * m.ms, transport |-> "att", how |-> m.t, data |-> m.data]
      <4>1. e \in Event
        BY <3>1, <3>2 DEF Event
      <4>2. ParseHookMessage(m) = <<e>>
        BY <3>1, <3>4 DEF ParseHookMessage
      <4> HIDE DEF e
      <4> QED
        BY <4>1, <4>2, One
    <3> QED
      BY <3>3, <3>4
  <2> QED
    BY <2>1, <2>2 DEF Message
<1> QED
  BY <1>1 DEF Parse

LEMMA IfWriteType == IfWrite \in [Event -> Seq(Event)]
<1>1. ASSUME NEW e \in Event PROVE (IF e.how # "ble_set" THEN <<e>> ELSE <<>>) \in Seq(Event)
  BY One, EmptySeq
<1> QED
  BY <1>1 DEF IfWrite

LEMMA IfHookedType ==
  ASSUME NEW h
  PROVE  IfHooked(h) \in [Write -> Seq(Write)]
<1>1. ASSUME NEW w \in Write PROVE (IF w.transport \in h THEN <<w>> ELSE <<>>) \in Seq(Write)
  BY One, EmptySeq
<1> QED
  BY <1>1 DEF IfHooked

LEMMA ToldIs ==
  ASSUME NEW s \in Seq(Message)
  PROVE  Told(s) = FlatMap(s, Parse)
<1>1. \A k \in 1..Len(s) : s[k] \in Message
  BY ElementOfSeq
<1>2. \A k \in 1..Len(s) : ParseHookMessage(s[k]) = Parse[s[k]]
  BY <1>1 DEF Parse
<1>3. [k \in 1..Len(s) |-> ParseHookMessage(s[k])] = [k \in 1..Len(s) |-> Parse[s[k]]]
  BY <1>2
<1> QED
  BY <1>3 DEF Told, FlatMap

LEMMA WritesAmongIs ==
  ASSUME NEW s \in Seq(Event)
  PROVE  WritesAmong(s) = FlatMap(s, IfWrite)
<1>1. \A k \in 1..Len(s) : s[k] \in Event
  BY ElementOfSeq
<1>2. \A k \in 1..Len(s) : (IF s[k].how # "ble_set" THEN <<s[k]>> ELSE <<>>) = IfWrite[s[k]]
  BY <1>1 DEF IfWrite
<1>3. [k \in 1..Len(s) |-> IF s[k].how # "ble_set" THEN <<s[k]>> ELSE <<>>]
        = [k \in 1..Len(s) |-> IfWrite[s[k]]]
  BY <1>2
<1> QED
  BY <1>3 DEF WritesAmong, FlatMap

\* Each of them takes what was appended to what it makes of that.
LEMMA ToldMore ==
  ASSUME NEW s \in Seq(Message), NEW r \in Seq(Message)
  PROVE  Told(s) \in Seq(Event) /\ Told(s \o r) = Told(s) \o Told(r)
<1>1. s \o r \in Seq(Message)
  BY ConcatProperties
<1>2. FlatMap(s, Parse) \in Seq(Event) /\ FlatMap(s \o r, Parse) = FlatMap(s, Parse) \o FlatMap(r, Parse)
  BY ParseType, FlatMapType, FlatMapConcat
<1>3. /\ Told(s) = FlatMap(s, Parse) /\ Told(r) = FlatMap(r, Parse)
      /\ Told(s \o r) = FlatMap(s \o r, Parse)
  BY <1>1, ToldIs
<1> QED
  BY <1>2, <1>3

LEMMA WritesMore ==
  ASSUME NEW s \in Seq(Event), NEW r \in Seq(Event)
  PROVE  WritesAmong(s) \in Seq(Event) /\ WritesAmong(s \o r) = WritesAmong(s) \o WritesAmong(r)
<1>1. s \o r \in Seq(Event)
  BY ConcatProperties
<1>2. FlatMap(s, IfWrite) \in Seq(Event) /\ FlatMap(s \o r, IfWrite) = FlatMap(s, IfWrite) \o FlatMap(r, IfWrite)
  BY IfWriteType, FlatMapType, FlatMapConcat
<1>3. /\ WritesAmong(s) = FlatMap(s, IfWrite) /\ WritesAmong(r) = FlatMap(r, IfWrite)
      /\ WritesAmong(s \o r) = FlatMap(s \o r, IfWrite)
  BY <1>1, WritesAmongIs
<1> QED
  BY <1>2, <1>3

LEMMA PassingMore ==
  ASSUME NEW h, NEW s \in Seq(Write), NEW r \in Seq(Write)
  PROVE  Passing(h, s) \in Seq(Write) /\ Passing(h, s \o r) = Passing(h, s) \o Passing(h, r)
<1> DEFINE F == IfHooked(h)
<1>1. F \in [Write -> Seq(Write)]
  BY IfHookedType
<1> HIDE DEF F
<1>2. FlatMap(s, F) \in Seq(Write) /\ FlatMap(s \o r, F) = FlatMap(s, F) \o FlatMap(r, F)
  BY <1>1, FlatMapType, FlatMapConcat
<1> QED
  BY <1>2 DEF Passing, F

LEMMA PassingFew ==
  ASSUME NEW h
  PROVE  /\ Passing(h, <<>>) = <<>>
         /\ \A w \in Write : Passing(h, <<w>>) = IF w.transport \in h THEN <<w>> ELSE <<>>
<1> DEFINE F == IfHooked(h)
<1>1. F \in [Write -> Seq(Write)]
  BY IfHookedType
<1>2. \A w \in Write : F[w] = IF w.transport \in h THEN <<w>> ELSE <<>>
  BY DEF IfHooked
<1> HIDE DEF F
<1>3. FlatMap(<<>>, F) = <<>> /\ \A w \in Write : FlatMap(<<w>>, F) = F[w]
  BY <1>1, FlatMapFew
<1>4. Passing(h, <<>>) = FlatMap(<<>>, F) /\ \A w \in Write : Passing(h, <<w>>) = FlatMap(<<w>>, F)
  BY DEF Passing, F
<1> QED
  BY <1>2, <1>3, <1>4

LEMMA Few ==
  /\ Told(<<>>) = <<>> /\ WritesAmong(<<>>) = <<>>
  /\ \A m \in Message : Told(<<m>>) = ParseHookMessage(m)
  /\ \A e \in Event : WritesAmong(<<e>>) = IF e.how # "ble_set" THEN <<e>> ELSE <<>>
<1>1. Told(<<>>) = <<>> /\ WritesAmong(<<>>) = <<>>
  BY EmptySeq, ToldIs, WritesAmongIs, ParseType, IfWriteType, FlatMapFew
<1>2. ASSUME NEW m \in Message PROVE Told(<<m>>) = ParseHookMessage(m)
  <2>1. Told(<<m>>) = FlatMap(<<m>>, Parse)
    BY One, ToldIs
  <2> QED
    BY <2>1, ParseType, FlatMapFew DEF Parse
<1>3. ASSUME NEW e \in Event
      PROVE  WritesAmong(<<e>>) = IF e.how # "ble_set" THEN <<e>> ELSE <<>>
  <2>1. WritesAmong(<<e>>) = FlatMap(<<e>>, IfWrite)
    BY One, WritesAmongIs
  <2>2. FlatMap(<<e>>, IfWrite) = IfWrite[e]
    BY IfWriteType, FlatMapFew
  <2> QED
    BY <2>1, <2>2 DEF IfWrite
<1> QED
  BY <1>1, <1>2, <1>3

\* What passes the hooks, by the map.
LEMMA OutIs == Sent \in Seq(Write) => Out = Passing(hooks, Sent)
<1> SUFFICES ASSUME Sent \in Seq(Write)
             PROVE  Out = Passing(hooks, Sent)
  OBVIOUS
<1> DEFINE s == Sent
           F == IfHooked(hooks)
<1>1. \A k \in 1..Len(s) : s[k] \in Write
  BY ElementOfSeq
<1>2. \A w \in Write : F[w] = IF w.transport \in hooks THEN <<w>> ELSE <<>>
  BY DEF IfHooked
<1> HIDE DEF s, F
<1>3. \A k \in 1..Len(s) : (IF s[k].transport \in hooks THEN <<s[k]>> ELSE <<>>) = F[s[k]]
  BY <1>1, <1>2
<1>4. [k \in 1..Len(s) |-> IF s[k].transport \in hooks THEN <<s[k]>> ELSE <<>>]
        = [k \in 1..Len(s) |-> F[s[k]]]
  BY <1>3
<1>5. Hooked(s) = FlatMap(s, F)
  BY <1>4 DEF Hooked, FlatMap
<1> QED
  BY <1>5 DEF Out, Passing, s, F

-----------------------------------------------------------------------------
\* What begins what.
LEMMA Appended ==
  ASSUME NEW S, NEW s \in Seq(S), NEW x \in S
  PROVE  /\ s \o <<x>> \in Seq(S) /\ Len(s \o <<x>>) = Len(s) + 1
         /\ \A k \in 1..Len(s) : (s \o <<x>>)[k] = s[k]
         /\ (s \o <<x>>)[Len(s) + 1] = x
OBVIOUS

LEMMA BeginsLonger ==
  ASSUME NEW r \in Seq(Event), NEW o \in Seq(Write), NEW w \in Write, Begins(r, o)
  PROVE  Begins(r, o \o <<w>>) /\ Len(o \o <<w>>) = Len(o) + 1
<1> DEFINE p == o \o <<w>>
<1>2. Len(p) = Len(o) + 1 /\ \A k \in 1..Len(o) : p[k] = o[k]
  BY Appended
<1> HIDE DEF p
<1>3. Len(r) \in Nat /\ Len(o) \in Nat /\ Len(r) <= Len(o)
  BY LenProperties DEF Begins
<1>4. \A k \in 1..Len(r) : p[k] = o[k]
  BY <1>2, <1>3
<1>5. Begins(r, p)
  BY <1>2, <1>3, <1>4 DEF Begins
<1> QED
  BY <1>2, <1>5 DEF p

LEMMA BeginsBoth ==
  ASSUME NEW r \in Seq(Event), NEW o \in Seq(Write), NEW w \in Write, NEW e \in Event,
         Begins(r, o), Len(r) = Len(o), Means(e, w)
  PROVE  Begins(r \o <<e>>, o \o <<w>>) /\ Len(r \o <<e>>) = Len(o \o <<w>>)
<1> DEFINE p == o \o <<w>>
           q == r \o <<e>>
           n == Len(r)
<1>2. n \in Nat /\ Len(o) = n
  BY LenProperties
<1>3. Len(p) = n + 1 /\ (\A k \in 1..n : p[k] = o[k]) /\ p[n + 1] = w
  BY <1>2, Appended
<1>4. Len(q) = n + 1 /\ (\A k \in 1..n : q[k] = r[k]) /\ q[n + 1] = e
  BY Appended
<1> HIDE DEF p, q, n
<1>6. \A k \in 1..n : Means(r[k], o[k])
  BY DEF Begins, n
<1>7. ASSUME NEW k \in 1..(n + 1) PROVE Means(q[k], p[k])
  <2>1. CASE k \in 1..n
    BY <1>3, <1>4, <1>6, <2>1
  <2>2. CASE k = n + 1
    BY <1>3, <1>4, <2>2
  <2> QED
    BY <1>2, <2>1, <2>2
<1>8. Begins(q, p)
  BY <1>2, <1>3, <1>4, <1>7 DEF Begins
<1> QED
  BY <1>3, <1>4, <1>8 DEF p, q

LEMMA BeginsShorter ==
  ASSUME NEW r \in Seq(Event), NEW x \in Seq(Event), NEW o \in Seq(Write), Begins(r \o x, o)
  PROVE  Begins(r, o)
<1> DEFINE q == r \o x
<1>1. Len(q) = Len(r) + Len(x) /\ \A k \in 1..Len(r) : q[k] = r[k]
  BY ConcatProperties
<1>2. Len(r) \in Nat /\ Len(x) \in Nat /\ Len(o) \in Nat
  BY LenProperties
<1>3. Len(q) <= Len(o) /\ \A k \in 1..Len(q) : Means(q[k], o[k])
  BY DEF Begins
<1> HIDE DEF q
<1>4. Len(r) <= Len(o) /\ \A k \in 1..Len(r) : k \in 1..Len(q)
  BY <1>1, <1>2, <1>3
<1> QED
  BY <1>1, <1>3, <1>4 DEF Begins

-----------------------------------------------------------------------------
\* Steps.

Phases == {"loaded", "sleeping", "returned"}

\* What a state has of what the app sent and the host was told.
LEMMA Kinds ==
  FridaInv => /\ Sent \in Seq(Write) /\ Out \in Seq(Write) /\ Told(air) \in Seq(Event)
              /\ Reported \in Seq(Event)
              /\ Reported = WritesAmong(events) \o WritesAmong(Told(air))
              /\ WritesAmong(events) \in Seq(Event) /\ WritesAmong(Told(air)) \in Seq(Event)
<1> SUFFICES ASSUME FridaInv
             PROVE  /\ Sent \in Seq(Write) /\ Out \in Seq(Write) /\ Told(air) \in Seq(Event)
                    /\ Reported \in Seq(Event)
                    /\ Reported = WritesAmong(events) \o WritesAmong(Told(air))
                    /\ WritesAmong(events) \in Seq(Event) /\ WritesAmong(Told(air)) \in Seq(Event)
  OBVIOUS
<1>1. writes \in Seq(Write) /\ before \in 0..Len(writes) /\ air \in Seq(Message)
      /\ events \in Seq(Event)
  BY DEF FridaInv, FridaTypeOK
<1>2. Sent \in Seq(Write)
  BY <1>1 DEF Sent
<1>3. Out \in Seq(Write)
  BY <1>2, OutIs, PassingMore
<1>4. Told(air) \in Seq(Event)
  BY <1>1, ToldMore
<1>5. Reported = WritesAmong(events) \o WritesAmong(Told(air))
  BY <1>1, <1>4, WritesMore DEF Reported
<1>6. WritesAmong(events) \in Seq(Event) /\ WritesAmong(Told(air)) \in Seq(Event)
  BY <1>1, <1>4, WritesMore
<1>7. Reported \in Seq(Event)
  BY <1>5, <1>6, ConcatProperties
<1> QED
  BY <1>2, <1>3, <1>4, <1>5, <1>6, <1>7

\* A message that is put on the air is reported last.
LEMMA SaidLast ==
  ASSUME FridaInv, NEW m \in Message, air' = Append(air, m), events' = events
  PROVE  /\ air' \in Seq(Message)
         /\ Reported' = Reported \o WritesAmong(ParseHookMessage(m))
<1>1. air \in Seq(Message) /\ events \in Seq(Event)
  BY DEF FridaInv, FridaTypeOK
<1>2. <<m>> \in Seq(Message) /\ air' = air \o <<m>>
  BY <1>1
<1>3. ParseHookMessage(m) \in Seq(Event)
  BY ParseType DEF Parse
<1> DEFINE told == Told(air)
           said == ParseHookMessage(m)
<1>4. told \in Seq(Event) /\ Told(air') = told \o said
  BY <1>1, <1>2, ToldMore, Few
<1>5. told \o said \in Seq(Event)
  BY <1>3, <1>4, ConcatProperties
<1>6. Reported' = WritesAmong(events \o Told(air'))
  BY DEF Reported
<1> HIDE DEF told, said
<1>7. WritesAmong(events \o (told \o said)) = WritesAmong(events) \o WritesAmong(told \o said)
  BY <1>1, <1>5, WritesMore
<1>8. WritesAmong(told \o said) = WritesAmong(told) \o WritesAmong(said)
  BY <1>3, <1>4, WritesMore DEF said
<1>9. /\ WritesAmong(events) \in Seq(Event) /\ WritesAmong(told) \in Seq(Event)
      /\ WritesAmong(said) \in Seq(Event)
  BY <1>1, <1>3, <1>4, WritesMore DEF said
<1> DEFINE a == WritesAmong(events)
           b == WritesAmong(told)
           c == WritesAmong(said)
<1>10. Reported = a \o b
  BY Kinds DEF told
<1>11. Reported' = a \o (b \o c)
  BY <1>4, <1>6, <1>7, <1>8
<1>12. a \in Seq(Event) /\ b \in Seq(Event) /\ c \in Seq(Event)
  BY <1>9
<1> HIDE DEF a, b, c
<1>13. a \o (b \o c) = (a \o b) \o c
  BY SMTT(60), <1>12, ConcatAssociative
<1>14. Reported' = Reported \o c
  BY <1>10, <1>11, <1>13
<1>15. air' \in Seq(Message)
  BY <1>1, <1>2, ConcatProperties
<1> QED
  BY <1>14, <1>15 DEF c, said

LEMMA OutIsNext == Sent' \in Seq(Write) => Out' = Passing(hooks', Sent')
<1>1. (Sent \in Seq(Write) => Out = Passing(hooks, Sent))'
  BY OutIs, PTL
<1> QED
  BY <1>1

Tells(e, transport, data) ==
  /\ e.transport = transport /\ e.data = data
  /\ e.us = 1000 * (Now \div 1000)

\* What a hook reports of a call.
LEMMA Heard ==
  ASSUME FridaInv, NEW transport \in {"att", "rfcomm"}, NEW kind, NEW data \in Data,
         kind \in {"ble_set", "ble_write", "rfcomm_write"},
         kind = "rfcomm_write" <=> transport = "rfcomm",
         Reports(transport, kind, data), events' = events
  PROVE  /\ air' \in Seq(Message)
         /\ ~(transport \in hooks /\ at # "returned") => air' = air /\ Reported' = Reported
         /\ transport \in hooks /\ at # "returned" /\ kind = "ble_set" => Reported' = Reported
         /\ transport \in hooks /\ at # "returned" /\ kind # "ble_set" =>
              \E e \in Event : Reported' = Reported \o <<e>> /\ Tells(e, transport, data)
<1>1. air \in Seq(Message) /\ clock \in Nat
  BY DEF FridaInv, FridaTypeOK
<1>2. Now \in Nat /\ Now \div 1000 \in Nat
  BY <1>1 DEF Now, CallUs
<1>3. CASE ~(transport \in hooks /\ at # "returned")
  <2>1. air' = air
    BY <1>3 DEF Reports
  <2> QED
    BY <1>1, <1>3, <2>1 DEF Reported
<1>4. CASE transport \in hooks /\ at # "returned"
  <2> DEFINE m == [t |-> kind, data |-> data, ms |-> Now \div 1000]
             e == [us |-> 1000 * (Now \div 1000), transport |-> transport, how |-> kind, data |-> data]
  <2>1. m \in Message /\ air' = Append(air, m)
    BY <1>2, <1>4 DEF Message, Call, Reports
  <2>2. ParseHookMessage(m) = <<e>>
    BY DEF ParseHookMessage
  <2>3. 1000 * (Now \div 1000) \in Nat
    BY <1>2
  <2>4. e \in Event /\ e.how = kind
    BY <2>3 DEF Event
  <2>5. Tells(e, transport, data)
    BY DEF Tells
  <2> HIDE DEF m, e
  <2>6. air' \in Seq(Message) /\ Reported' = Reported \o WritesAmong(<<e>>)
    BY <2>1, <2>2, SaidLast
  <2>7. WritesAmong(<<e>>) = IF kind # "ble_set" THEN <<e>> ELSE <<>>
    BY <2>4, Few
  <2>8. Reported \o <<>> = Reported
    BY Kinds, ConcatEmptySeq
  <2>9. CASE kind = "ble_set"
    <3>1. Reported' = Reported
      BY <2>6, <2>7, <2>8, <2>9
    <3> QED
      BY <1>4, <2>6, <2>9, <3>1
  <2>10. CASE kind # "ble_set"
    <3>1. Reported' = Reported \o <<e>>
      BY <2>6, <2>7, <2>10
    <3>2. \E f \in Event : Reported' = Reported \o <<f>> /\ Tells(f, transport, data)
      BY <2>4, <2>5, <3>1
    <3> QED
      BY <1>4, <2>6, <2>10, <3>2
  <2> QED
    BY <2>9, <2>10
<1> QED
  BY <1>3, <1>4

\* A write that goes out is the last to have done so.
LEMMA SentLast ==
  ASSUME FridaInv, NEW transport \in {"att", "rfcomm"}, NEW data \in Data,
         GoesOut(transport, data), hooks' = hooks, before' = before
  PROVE  \E w \in Write :
           /\ w.transport = transport /\ w.data = data /\ w.us = Now
           /\ writes' \in Seq(Write) /\ before' \in 0..Len(writes') /\ clock' \in Nat
           /\ Out' = IF transport \in hooks THEN Out \o <<w>> ELSE Out
<1> DEFINE w == [transport |-> transport, data |-> data, us |-> Now]
           b == before + 1
           n == Len(writes)
<1>1. /\ writes \in Seq(Write) /\ before \in 0..Len(writes) /\ clock \in Nat
  BY DEF FridaInv, FridaTypeOK
<1>2. w \in Write /\ w.transport = transport /\ w.data = data /\ w.us = Now
  BY <1>1 DEF Write, Now, CallUs
<1>3. writes' = Append(writes, w) /\ clock' \in Nat
  BY <1>1 DEF GoesOut
<1> HIDE DEF w
<1>4. n \in Nat /\ b \in 1..(n + 1) /\ before \in 0..n
  BY <1>1, LenProperties
<1>5. writes' \in Seq(Write) /\ Len(writes') = n + 1
  BY <1>1, <1>2, <1>3
<1>6. before' \in 0..Len(writes')
  BY <1>4, <1>5
<1>7. Sent' = SubSeq(Append(writes, w), b, n + 1)
  BY <1>3, <1>5 DEF Sent
<1>8. Sent = SubSeq(writes, b, n)
  BY DEF Sent
<1> HIDE DEF b, n
<1>9. SubSeq(Append(writes, w), b, n + 1) = SubSeq(writes, b, n) \o <<w>>
  BY <1>1, <1>2, <1>4 DEF n
<1>10. Sent' = Sent \o <<w>> /\ Sent \in Seq(Write) /\ <<w>> \in Seq(Write)
  BY <1>2, <1>7, <1>8, <1>9, Kinds, One
<1>11. Sent' \in Seq(Write)
  BY <1>10, ConcatProperties
<1>12. Out' = Passing(hooks', Sent')
  BY <1>11, OutIsNext
<1>13. Out' = Passing(hooks, Sent) \o Passing(hooks, <<w>>)
  BY <1>10, <1>11, <1>12, PassingMore
<1>14. Passing(hooks, Sent) = Out /\ Out \in Seq(Write) /\ Out \o <<>> = Out
  BY <1>10, OutIs, Kinds, ConcatEmptySeq
<1>15. Out' = IF transport \in hooks THEN Out \o <<w>> ELSE Out
  BY <1>2, <1>13, <1>14, PassingFew
<1> QED
  BY <1>2, <1>3, <1>5, <1>6, <1>15

\* Outside the app and the messages, what is reported and what went out stay.
LEMMA Quiet ==
  ASSUME UNCHANGED <<hooks, before, writes, air, events>>
  PROVE  Reported' = Reported /\ Out' = Out
<1>1. Reported' = Reported
  BY DEF Reported
<1>2. Sent' = Sent
  BY DEF Sent
<1>3. Out' = Out
  BY <1>2 DEF Out, Hooked
<1> QED
  BY <1>1, <1>3

LEMMA StartsUp ==
  ASSUME FridaInv, UserLaunches \/ Spawn \/ DoNotSpawn \/ Attach
  PROVE  FridaInv'
<1>1. at' \notin Phases /\ at \notin Phases
  BY DEF Phases, UserLaunches, Spawn, DoNotSpawn, Attach
<1>2. FridaTypeOK'
  BY DEF FridaInv, FridaTypeOK, UserLaunches, Spawn, DoNotSpawn, Attach
<1>3. at' \in {"idle", "found", "attached"} => hooks' = {} /\ air' = <<>> /\ events' = <<>>
  BY DEF FridaInv, UserLaunches, Spawn, DoNotSpawn, Attach
<1>4. running' # "running" => writes' = <<>>
  BY DEF FridaInv, UserLaunches, Spawn, DoNotSpawn, Attach
<1>5. spawned' => at' # "idle" /\ (at' \in {"found", "attached", "loaded"} => running' = "suspended")
  BY DEF FridaInv, FridaTypeOK, UserLaunches, Spawn, DoNotSpawn, Attach
<1> QED
  BY <1>1, <1>2, <1>3, <1>4, <1>5 DEF FridaInv, Phases

LEMMA Loads ==
  ASSUME FridaInv, NEW installed \in SUBSET {"att", "rfcomm"}, Load(installed)
  PROVE  FridaInv'
<1>1. /\ at = "attached" /\ at' = "loaded" /\ hooks' = installed /\ before' = Len(writes)
      /\ UNCHANGED <<running, spawned, charValue, writes, clock, events>>
  BY DEF Load
<1>2. events = <<>> /\ writes \in Seq(Write) /\ Len(writes) \in Nat /\ FridaTypeOK
  BY <1>1, LenProperties DEF FridaInv, FridaTypeOK
<1> DEFINE n == 2 - Cardinality(installed)
           err == [k \in 1..n |-> [t |-> "err"]]
           ready == <<[t |-> "ready"]>>
           notices == err \o ready
<1>3. n \in Nat
  <2>1. IsFiniteSet({"att", "rfcomm"}) /\ Cardinality({"att", "rfcomm"}) = 2
    <3>1. IsFiniteSet({"att"}) /\ Cardinality({"att"}) = 1 /\ "rfcomm" \notin {"att"}
      BY FS_Singleton
    <3>2. {"att", "rfcomm"} = {"att"} \cup {"rfcomm"}
      OBVIOUS
    <3> QED
      BY <3>1, <3>2, FS_AddElement
  <2>2. Cardinality(installed) \in Nat /\ Cardinality(installed) <= 2
    BY <2>1, FS_Subset, FS_CardinalityType
  <2> QED
    BY <2>2
<1> HIDE DEF n
<1>4. err \in Seq(Notice) /\ ready \in Seq(Notice)
  BY <1>3 DEF Notice
<1> HIDE DEF err, ready
<1>5. notices \in Seq(Notice) /\ air' = notices
  BY <1>4, ConcatProperties DEF Load, err, ready, n
<1> HIDE DEF notices
<1>6. \A k \in 1..Len(notices) : notices[k] \in Notice
  BY <1>5, ElementOfSeq
<1>7. notices \in Seq(Message)
  BY <1>5 DEF Message
<1>8. Told(notices) = <<>>
  <2>1. \A m \in Notice : m \in Message /\ Parse[m] = <<>>
    BY DEF Message, Notice, Parse, ParseHookMessage
  <2>2. FlatMap(notices, Parse) = <<>>
    BY <1>5, <2>1, ParseType, FlatMapNothing DEF Message
  <2> QED
    BY <1>7, <2>2, ToldIs
<1>9. Reported' = <<>>
  <2>1. Reported' = WritesAmong(<<>> \o <<>>)
    BY <1>1, <1>2, <1>5, <1>8 DEF Reported
  <2>2. <<>> \o <<>> = <<>>
    OBVIOUS
  <2> QED
    BY <2>1, <2>2, Few
<1>10. Out' = <<>>
  <2>1. Sent' = SubSeq(writes, Len(writes) + 1, Len(writes))
    BY <1>1 DEF Sent
  <2>2. Sent' = <<>>
    BY <1>2, <2>1, SubSeqEmpty
  <2>3. Sent' \in Seq(Write)
    BY <2>2, EmptySeq
  <2> QED
    BY <2>2, <2>3, OutIsNext, PassingFew
<1>11. Begins(<<>>, <<>>) /\ Len(<<>>) = Len(<<>>)
  BY EmptySeq DEF Begins
<1>12. FridaTypeOK'
  BY <1>1, <1>2, <1>5, <1>7 DEF FridaTypeOK
<1>13. spawned' => before' = 0
  BY <1>1, <1>2, EmptySeq DEF FridaInv, FridaTypeOK
<1> QED
  BY <1>1, <1>9, <1>10, <1>11, <1>12, <1>13 DEF FridaInv

LEMMA Proceeds ==
  ASSUME FridaInv, Resume \/ Raises
  PROVE  FridaInv'
<1>1. UNCHANGED <<spawned, hooks, charValue, writes, before, clock, air, events>>
  BY DEF Resume, Raises
<1>2. Reported' = Reported /\ Out' = Out
  BY <1>1, Quiet
<1>3. FridaTypeOK'
  BY <1>1 DEF FridaInv, FridaTypeOK, Resume, Raises
<1>4. CASE Resume
  <2>1. at = "loaded" /\ at' = "sleeping" /\ (running' = "running" \/ running' = running)
    BY <1>4 DEF Resume
  <2> QED
    BY <1>1, <1>2, <1>3, <2>1 DEF FridaInv
<1>5. CASE Raises
  <2>1. at' = "raised" /\ running' = running
    BY <1>5 DEF Raises
  <2> QED
    BY <1>1, <1>3, <2>1 DEF FridaInv
<1> QED
  BY <1>4, <1>5

LEMMA Detaches ==
  ASSUME FridaInv, Detach
  PROVE  FridaInv'
<1>1. /\ at = "sleeping" /\ at' = "returned" /\ air' = <<>>
      /\ UNCHANGED <<running, spawned, hooks, charValue, writes, before, clock, events>>
  BY DEF Detach
<1>2. FridaTypeOK'
  BY <1>1, EmptySeq DEF FridaInv, FridaTypeOK
<1>3. events \in Seq(Event)
  BY DEF FridaInv, FridaTypeOK
<1>4. Reported' = WritesAmong(events)
  <2>1. Reported' = WritesAmong(events \o <<>>)
    BY <1>1, Few DEF Reported
  <2> QED
    BY <1>3, <2>1, ConcatEmptySeq
<1>5. Out' = Out
  <2>1. Sent' = Sent
    BY <1>1 DEF Sent
  <2> QED
    BY <1>1, <2>1 DEF Out, Hooked
<1>6. Begins(Reported, Out)
  BY <1>1 DEF FridaInv
<1> DEFINE r == WritesAmong(events)
           x == WritesAmong(Told(air))
           o == Out
<1>7. r \in Seq(Event) /\ x \in Seq(Event) /\ o \in Seq(Write) /\ Begins(r \o x, o)
  BY <1>6, Kinds
<1> HIDE DEF r, x, o
<1>8. Begins(r, o)
  BY <1>7, BeginsShorter
<1> QED
  BY <1>1, <1>2, <1>4, <1>5, <1>8 DEF FridaInv, r, o

LEMMA SetsValue ==
  ASSUME FridaInv, NEW data \in Values, SetValue(data)
  PROVE  FridaInv'
<1>1. /\ running = "running" /\ Reports("att", "ble_set", data) /\ charValue' = data
      /\ clock' = clock + 1
      /\ UNCHANGED <<running, at, spawned, hooks, writes, before, events>>
  BY DEF SetValue, Runs
<1>2. data \in Data
  BY DEF Data
<1>3. /\ air' \in Seq(Message) /\ Reported' = Reported
      /\ ~("att" \in hooks /\ at # "returned") => air' = air
  BY <1>1, <1>2, Heard
<1>4. Out' = Out
  <2>1. Sent' = Sent
    BY <1>1 DEF Sent
  <2> QED
    BY <1>1, <2>1 DEF Out, Hooked
<1>5. FridaTypeOK'
  BY <1>1, <1>2, <1>3 DEF FridaInv, FridaTypeOK
<1> QED
  BY <1>1, <1>3, <1>4, <1>5 DEF FridaInv

\* A write of the app: what is reported and what goes out grow together.
LEMMA Writes ==
  ASSUME FridaInv, NEW transport \in {"att", "rfcomm"}, NEW kind, NEW data \in Data,
         kind \in {"ble_write", "rfcomm_write"}, kind = "rfcomm_write" <=> transport = "rfcomm",
         running = "running", Reports(transport, kind, data), GoesOut(transport, data),
         UNCHANGED <<running, at, spawned, hooks, charValue, before, events>>
  PROVE  FridaInv'
<1>1. /\ air' \in Seq(Message)
      /\ ~(transport \in hooks /\ at # "returned") => air' = air /\ Reported' = Reported
      /\ transport \in hooks /\ at # "returned" =>
           \E e \in Event : Reported' = Reported \o <<e>> /\ Tells(e, transport, data)
  BY Heard
<1>2. PICK w \in Write :
        /\ w.transport = transport /\ w.data = data /\ w.us = Now
        /\ writes' \in Seq(Write) /\ before' \in 0..Len(writes') /\ clock' \in Nat
        /\ Out' = IF transport \in hooks THEN Out \o <<w>> ELSE Out
  BY SentLast
<1>3. FridaTypeOK'
  BY <1>1, <1>2 DEF FridaInv, FridaTypeOK
<1>4. Reported \in Seq(Event) /\ Out \in Seq(Write)
  BY Kinds
<1>5. at \in Phases => Begins(Reported', Out') /\ (at # "returned" => Len(Reported') = Len(Out'))
  <2> SUFFICES ASSUME at \in Phases
               PROVE  Begins(Reported', Out') /\ (at # "returned" => Len(Reported') = Len(Out'))
    OBVIOUS
  <2>1. Begins(Reported, Out) /\ (at # "returned" => Len(Reported) = Len(Out))
    BY DEF FridaInv, Phases
  <2>2. CASE transport \notin hooks
    BY <1>1, <1>2, <2>1, <2>2
  <2>3. CASE transport \in hooks /\ at = "returned"
    <3>1. Reported' = Reported /\ Out' = Out \o <<w>>
      BY <1>1, <1>2, <2>3
    <3> QED
      BY <1>4, <2>1, <2>3, <3>1, BeginsLonger
  <2>4. CASE transport \in hooks /\ at # "returned"
    <3>1. PICK e \in Event : Reported' = Reported \o <<e>> /\ Tells(e, transport, data)
      BY <1>1, <2>4
    <3>2. Out' = Out \o <<w>>
      BY <1>2, <2>4
    <3>3. Means(e, w)
      <4>1. clock \in Nat
        BY DEF FridaInv, FridaTypeOK
      <4>2. Now - 1000 * (Now \div 1000) \in 0..999
        BY <4>1 DEF Now, CallUs
      <4> QED
        BY <1>2, <3>1, <4>2 DEF Tells, Means
    <3> QED
      BY <1>4, <2>1, <2>4, <3>1, <3>2, <3>3, BeginsBoth
  <2> QED
    BY <2>2, <2>3, <2>4
<1>6. at \in {"idle", "found", "attached"} => hooks' = {} /\ air' = <<>> /\ events' = <<>>
  BY <1>1 DEF FridaInv
<1>7. at = "returned" => air' = <<>>
  BY <1>1 DEF FridaInv
<1>8. at \in {"loaded", "sleeping", "returned"} /\ spawned => before' = 0
  BY DEF FridaInv
<1> QED
  BY <1>3, <1>5, <1>6, <1>7, <1>8 DEF FridaInv, Phases

\* What was on its way is reported.
LEMMA Arrives ==
  ASSUME FridaInv, OnMessage
  PROVE  FridaInv'
<1>1. /\ air # <<>> /\ air' = Tail(air) /\ events' = events \o ParseHookMessage(Head(air))
      /\ UNCHANGED <<running, at, spawned, hooks, charValue, writes, before, clock>>
  BY DEF OnMessage
<1>2. air \in Seq(Message) /\ events \in Seq(Event)
  BY DEF FridaInv, FridaTypeOK
<1> DEFINE m == Head(air)
           rest == Tail(air)
           said == ParseHookMessage(m)
           told == Told(rest)
<1>3. m \in Message /\ rest \in Seq(Message) /\ air = <<m>> \o rest /\ <<m>> \in Seq(Message)
  BY <1>1, <1>2, HeadTailProperties
<1> HIDE DEF m, rest
<1>4. said \in Seq(Event)
  BY <1>3, ParseType DEF Parse
<1>5. told \in Seq(Event) /\ Told(air) = said \o told
  BY <1>3, ToldMore, Few
<1>6. events' = events \o said /\ Told(air') = told
  BY <1>1 DEF m, rest
<1>7. Reported = WritesAmong(events \o Told(air)) /\ Reported' = WritesAmong(events' \o Told(air'))
  BY DEF Reported
<1> HIDE DEF said, told
<1>8. Reported' = Reported
  <2>1. events \o (said \o told) = (events \o said) \o told
    BY SMTT(60), <1>2, <1>4, <1>5, ConcatAssociative
  <2> QED
    BY <1>5, <1>6, <1>7, <2>1
<1>9. Out' = Out
  <2>1. Sent' = Sent
    BY <1>1 DEF Sent
  <2> QED
    BY <1>1, <2>1 DEF Out, Hooked
<1>10. events' \in Seq(Event) /\ air' \in Seq(Message)
  BY <1>1, <1>2, <1>3, <1>4, <1>6, ConcatProperties DEF rest
<1>11. FridaTypeOK'
  BY <1>1, <1>10 DEF FridaInv, FridaTypeOK
<1>12. at \notin {"idle", "found", "attached", "returned"}
  BY <1>1 DEF FridaInv
<1> QED
  BY <1>1, <1>8, <1>9, <1>11, <1>12 DEF FridaInv

\* The invariant is inductive.
LEMMA FridaSteps == FridaInv /\ [FridaNext]_fridaVars => FridaInv'
<1> SUFFICES ASSUME FridaInv, [FridaNext]_fridaVars
             PROVE  FridaInv'
  OBVIOUS
<1>1. CASE UserLaunches \/ Spawn \/ DoNotSpawn \/ Attach
  BY <1>1, StartsUp
<1>2. ASSUME NEW installed \in SUBSET {"att", "rfcomm"}, Load(installed)
      PROVE  FridaInv'
  BY <1>2, Loads
<1>3. CASE Resume \/ Raises
  BY <1>3, Proceeds
<1>4. CASE Detach
  BY <1>4, Detaches
<1>5. ASSUME NEW data \in Values, SetValue(data)
      PROVE  FridaInv'
  BY <1>5, SetsValue
<1>6. ASSUME NEW data \in Values, WriteSocket(data)
      PROVE  FridaInv'
  <2>1. data \in Data /\ running = "running"
    BY <1>6 DEF Data, WriteSocket, Runs
  <2> QED
    BY <1>6, <2>1, Writes DEF WriteSocket
<1>7. CASE WriteCharacteristic
  <2>1. charValue \in Data /\ running = "running"
    BY <1>7 DEF FridaInv, FridaTypeOK, WriteCharacteristic, Runs
  <2> DEFINE data == charValue
  <2>2. Reports("att", "ble_write", data) /\ GoesOut("att", data)
        /\ UNCHANGED <<running, at, spawned, hooks, charValue, before, events>>
    BY <1>7 DEF WriteCharacteristic
  <2> QED
    BY <2>1, <2>2, Writes
<1>8. CASE OnMessage
  BY <1>8, Arrives
<1>9. CASE UNCHANGED fridaVars
  <2>1. UNCHANGED <<running, at, spawned, hooks, charValue, writes, before, clock, air, events>>
    BY <1>9 DEF fridaVars
  <2>2. Reported' = Reported /\ Out' = Out
    BY <2>1, Quiet
  <2> QED
    BY <2>1, <2>2 DEF FridaInv, FridaTypeOK
<1> QED
  BY <1>1, <1>2, <1>3, <1>4, <1>5, <1>6, <1>7, <1>8, <1>9 DEF FridaNext

LEMMA FridaStart == FridaInit => FridaInv
<1> SUFFICES ASSUME FridaInit
             PROVE  FridaInv
  OBVIOUS
<1>1. /\ running = "stopped" /\ at = "idle" /\ spawned = FALSE /\ hooks = {} /\ charValue = None
      /\ writes = <<>> /\ before = 0 /\ clock = 0 /\ air = <<>> /\ events = <<>>
  BY DEF FridaInit
<1>2. FridaTypeOK
  <2>1. writes \in Seq(Write) /\ Len(writes) = 0 /\ air \in Seq(Message) /\ events \in Seq(Event)
    BY <1>1, EmptySeq
  <2>2. before \in 0..Len(writes) /\ clock \in Nat
    BY <1>1, <2>1
  <2>3. spawned \in BOOLEAN /\ hooks \in SUBSET {"att", "rfcomm"} /\ charValue \in Data
    BY <1>1 DEF Data
  <2> QED
    BY <1>1, <2>1, <2>2, <2>3 DEF FridaTypeOK
<1> QED
  BY <1>1, <1>2 DEF FridaInv

\* No write that goes out over a hooked transport is missing from what the host is told,
\* or is told twice, late or changed, whatever the app writes and however long it runs:
\* the hooks of a program that run() spawns are in place before its first call, and the
\* messages are reported in order (frida.py run; android_bt.js).
THEOREM NoneMissed == FridaInit /\ [][FridaNext]_fridaVars => []NoWriteMissed
<1>1. FridaInv => NoWriteMissed
  <2> SUFFICES ASSUME FridaInv
               PROVE  NoWriteMissed
    OBVIOUS
  <2> DEFINE r == Reported
             o == Out
  <2>1. at \in Phases => /\ spawned => before = 0
                         /\ Begins(r, o)
                         /\ at # "returned" => Len(r) = Len(o)
    BY DEF FridaInv, Phases
  <2>2. DOMAIN r = 1..Len(r)
    BY Kinds, LenProperties
  <2> HIDE DEF r, o
  <2>4. at \in Phases => Len(r) <= Len(o) /\ \A k \in DOMAIN r : Means(r[k], o[k])
    BY <2>1, <2>2 DEF Begins
  <2>5. at \in Phases =>
          /\ spawned => before = 0
          /\ Len(r) <= Len(o)
          /\ at # "returned" => Len(r) = Len(o)
          /\ \A k \in DOMAIN r :
               /\ r[k].transport = o[k].transport /\ r[k].data = o[k].data
               /\ o[k].us - r[k].us \in 0..999
    BY <2>1, <2>4 DEF Means
  <2> QED
    BY <2>5 DEF NoWriteMissed, Phases, Reported, Out, Sent, r, o
<1> QED
  BY <1>1, FridaStart, FridaSteps, PTL

-----------------------------------------------------------------------------
\* GattClient: one UUID, one subscription

\* What was said of the last call: nothing, who read or wrote, or who was notified.
CalledOK ==
  \/ called = NothingCalled
  \/ called.to = {"caller"}
  \/ called.of \in Peripheral /\ called.to = IF called.of \in DOMAIN asked THEN {asked[called.of]} ELSE {}

\* The inductive invariant: bleak has, under the full UUID of a characteristic, the
\* callback that the caller asked for.
GattInv ==
  /\ gattUp \in BOOLEAN
  /\ IsFiniteSet(DOMAIN asked) /\ DOMAIN asked \subseteq Peripheral
  /\ \A n \in DOMAIN asked : asked[n] \in Callbacks
  /\ DOMAIN notifying = {FullUuid(0, n) : n \in DOMAIN asked}
  /\ \A n \in DOMAIN asked : notifying[FullUuid(0, n)] = asked[n]
  /\ gattRaised # "unknown characteristic"
  /\ CalledOK

\* The spellings all become the full UUID.
LEMMA Normal ==
  ASSUME NEW uuid \in Spelt
  PROVE  /\ NormalizeUuid(uuid) = FullUuid(0, uuid.lo) /\ NumberOf(uuid) = uuid.lo
         /\ uuid.lo \in Peripheral
<1>1. /\ uuid.hi = 0 /\ uuid.lo \in Peripheral /\ Meant(uuid) = <<uuid.lo>>
      /\ \/ IsNumber(uuid)
         \/ uuid.digits \in {4, 8} /\ ~uuid.prefix
         \/ Stripped(uuid) = FullUuid(0, uuid.lo)
  BY SpellingAssumption
<1>2. NumberOf(uuid) = uuid.lo
  BY <1>1 DEF NumberOf
<1>3. NormalizeUuid(uuid) = FullUuid(0, uuid.lo)
  BY <1>1 DEF NormalizeUuid
<1> QED
  BY <1>1, <1>2, <1>3

LEMMA FullInjective ==
  ASSUME NEW m, NEW n, FullUuid(0, m) = FullUuid(0, n)
  PROVE  m = n
<1>1. FullUuid(0, m).lo = m /\ FullUuid(0, n).lo = n
  BY DEF FullUuid
<1> QED
  BY <1>1

LEMMA GattStart == GattInit => GattInv
<1> SUFFICES ASSUME GattInit
             PROVE  GattInv
  OBVIOUS
<1>1. /\ DOMAIN notifying = {} /\ DOMAIN asked = {} /\ gattUp = FALSE /\ gattRaised = "no"
      /\ called = NothingCalled
  BY DEF GattInit, NoCalls
<1>2. IsFiniteSet(DOMAIN asked)
  BY <1>1, FS_EmptySet
<1> QED
  BY <1>1, <1>2 DEF GattInv, CalledOK

\* The link goes, and with it every subscription.
LEMMA Ends ==
  ASSUME GattInv, LinkEnds, gattRaised' # "unknown characteristic"
  PROVE  GattInv'
<1>1. DOMAIN notifying' = {} /\ DOMAIN asked' = {} /\ gattUp' = FALSE /\ called' = NothingCalled
  BY DEF LinkEnds, NoCalls
<1>2. IsFiniteSet(DOMAIN asked')
  BY <1>1, FS_EmptySet
<1> QED
  BY <1>1, <1>2 DEF GattInv, CalledOK

LEMMA Subscribes ==
  ASSUME GattInv, NEW uuid \in Spelt, NEW callback \in Callbacks, Subscribe(uuid, callback)
  PROVE  GattInv'
<1> DEFINE n == uuid.lo
           full == FullUuid(0, n)
           works == gattUp /\ full \in Known \ DOMAIN notifying
<1>1. NormalizeUuid(uuid) = full /\ NumberOf(uuid) = n /\ n \in Peripheral
  BY Normal
<1>2. full \in Known
  BY <1>1 DEF Known
<1>3. /\ gattRaised' # "unknown characteristic"
      /\ notifying' = IF works THEN With(notifying, full, callback) ELSE notifying
      /\ asked' = IF works THEN With(asked, n, callback) ELSE asked
      /\ called' = NothingCalled /\ gattUp' = gattUp
  BY <1>1, <1>2 DEF Subscribe, Outcome
<1> HIDE DEF full
<1>4. CASE ~works
  BY <1>3, <1>4 DEF GattInv, CalledOK
<1>5. CASE works
  <2>1. /\ DOMAIN notifying' = DOMAIN notifying \cup {full} /\ DOMAIN asked' = DOMAIN asked \cup {n}
        /\ notifying'[full] = callback /\ asked'[n] = callback
        /\ \A u \in DOMAIN notifying \ {full} : notifying'[u] = notifying[u]
        /\ \A m \in DOMAIN asked \ {n} : asked'[m] = asked[m]
    BY <1>3, <1>5 DEF With
  <2>2. IsFiniteSet(DOMAIN asked') /\ DOMAIN asked' \subseteq Peripheral
    <3> DEFINE S == DOMAIN asked
    <3>1. IsFiniteSet(S) /\ S \subseteq Peripheral
      BY DEF GattInv
    <3> HIDE DEF S
    <3>2. IsFiniteSet(S \cup {n})
      BY <3>1, FS_AddElement
    <3> QED
      BY <1>1, <2>1, <3>1, <3>2 DEF S
  <2>3. \A m \in DOMAIN asked' : asked'[m] \in Callbacks
    BY <2>1 DEF GattInv
  <2>4. DOMAIN notifying' = {FullUuid(0, m) : m \in DOMAIN asked'}
    BY <2>1 DEF GattInv, full
  <2>5. ASSUME NEW m \in DOMAIN asked' PROVE notifying'[FullUuid(0, m)] = asked'[m]
    <3>1. CASE m = n
      BY <2>1, <3>1 DEF full
    <3>2. CASE m # n
      <4>1. m \in DOMAIN asked /\ FullUuid(0, m) # full
        BY <2>1, <3>2, FullInjective DEF full
      <4>2. FullUuid(0, m) \in DOMAIN notifying
        BY <4>1 DEF GattInv
      <4> QED
        BY <2>1, <3>2, <4>1, <4>2 DEF GattInv
    <3> QED
      BY <3>1, <3>2
  <2> QED
    BY <1>3, <2>2, <2>3, <2>4, <2>5 DEF GattInv, CalledOK
<1> QED
  BY <1>4, <1>5

LEMMA Unsubscribes ==
  ASSUME GattInv, NEW uuid \in Spelt, Unsubscribe(uuid)
  PROVE  GattInv'
<1> DEFINE n == uuid.lo
           full == FullUuid(0, n)
<1>1. NormalizeUuid(uuid) = full /\ NumberOf(uuid) = n /\ n \in Peripheral
  BY Normal
<1>2. full \in Known
  BY <1>1 DEF Known
<1>3. /\ gattRaised' # "unknown characteristic"
      /\ notifying' = IF gattUp THEN Without(notifying, full) ELSE notifying
      /\ asked' = IF gattUp THEN Without(asked, n) ELSE asked
      /\ called' = NothingCalled /\ gattUp' = gattUp
  BY <1>1, <1>2 DEF Unsubscribe, Outcome
<1> HIDE DEF full
<1>4. CASE ~gattUp
  BY <1>3, <1>4 DEF GattInv, CalledOK
<1>5. CASE gattUp
  <2>1. /\ DOMAIN notifying' = DOMAIN notifying \ {full} /\ DOMAIN asked' = DOMAIN asked \ {n}
        /\ \A u \in DOMAIN notifying \ {full} : notifying'[u] = notifying[u]
        /\ \A m \in DOMAIN asked \ {n} : asked'[m] = asked[m]
    BY <1>3, <1>5 DEF Without
  <2>2. IsFiniteSet(DOMAIN asked') /\ DOMAIN asked' \subseteq Peripheral
    <3> DEFINE S == DOMAIN asked
    <3>1. IsFiniteSet(S) /\ S \subseteq Peripheral
      BY DEF GattInv
    <3> HIDE DEF S
    <3>2. IsFiniteSet(S \ {n})
      BY <3>1, FS_RemoveElement
    <3> QED
      BY <2>1, <3>1, <3>2 DEF S
  <2>3. \A m \in DOMAIN asked' : asked'[m] \in Callbacks
    BY <2>1 DEF GattInv
  <2>4. \A m \in DOMAIN asked' : FullUuid(0, m) # full /\ FullUuid(0, m) \in DOMAIN notifying
    BY <2>1, FullInjective DEF GattInv, full
  <2>5. DOMAIN notifying' = {FullUuid(0, m) : m \in DOMAIN asked'}
    <3>1. DOMAIN notifying = {FullUuid(0, m) : m \in DOMAIN asked}
      BY DEF GattInv
    <3>2. ASSUME NEW u \in DOMAIN notifying' PROVE u \in {FullUuid(0, m) : m \in DOMAIN asked'}
      <4>1. PICK m \in DOMAIN asked : u = FullUuid(0, m)
        BY <2>1, <3>1, <3>2
      <4>2. m # n
        BY <2>1, <3>2, <4>1 DEF full
      <4> QED
        BY <2>1, <4>1, <4>2
    <3>3. ASSUME NEW m \in DOMAIN asked' PROVE FullUuid(0, m) \in DOMAIN notifying'
      BY <2>1, <2>4, <3>3
    <3> QED
      BY <3>2, <3>3
  <2>6. \A m \in DOMAIN asked' : notifying'[FullUuid(0, m)] = asked'[m]
    BY <2>1, <2>4 DEF GattInv
  <2> QED
    BY <1>3, <2>2, <2>3, <2>5, <2>6 DEF GattInv, CalledOK
<1> QED
  BY <1>4, <1>5 DEF GattInv

LEMMA Reaches ==
  ASSUME GattInv, NEW uuid \in Spelt, ReadOrWrite(uuid)
  PROVE  GattInv'
<1>1. NormalizeUuid(uuid) \in Known
  BY Normal DEF Known
<1>2. /\ gattRaised' # "unknown characteristic" /\ UNCHANGED <<gattUp, notifying, asked>>
      /\ called' = NothingCalled \/ called'.to = {"caller"}
  BY <1>1 DEF ReadOrWrite, Outcome
<1> QED
  BY <1>2 DEF GattInv, CalledOK

LEMMA Notified ==
  ASSUME GattInv, NEW n \in Peripheral, Notify(n)
  PROVE  GattInv'
<1> DEFINE full == FullUuid(0, n)
<1>1. /\ gattRaised' = "no" /\ UNCHANGED <<gattUp, notifying, asked>>
      /\ called'.of = n
      /\ called'.to = IF full \in DOMAIN notifying THEN {notifying[full]} ELSE {}
  BY DEF Notify
<1>2. full \in DOMAIN notifying <=> n \in DOMAIN asked
  BY FullInjective DEF GattInv
<1>3. n \in DOMAIN asked => notifying[full] = asked[n]
  BY DEF GattInv
<1>4. called'.to = IF n \in DOMAIN asked THEN {asked[n]} ELSE {}
  BY <1>1, <1>2, <1>3
<1> QED
  BY <1>1, <1>4 DEF GattInv, CalledOK

\* The invariant is inductive.
LEMMA GattSteps == GattInv /\ [GattNext]_gattVars => GattInv'
<1> SUFFICES ASSUME GattInv, [GattNext]_gattVars
             PROVE  GattInv'
  OBVIOUS
<1>1. CASE Connect
  <2>1. /\ gattUp' \in BOOLEAN /\ gattRaised' \in {"no", "other"} /\ called' = NothingCalled
        /\ notifying' = notifying /\ asked' = asked
    BY <1>1 DEF Connect
  <2> QED
    BY <2>1 DEF GattInv, CalledOK
<1>2. CASE Disconnect
  BY <1>2, Ends DEF Disconnect
<1>3. CASE LinkLost
  BY <1>3, Ends DEF LinkLost, GattInv
<1>4. ASSUME NEW uuid \in Spelt, NEW callback \in Callbacks, Subscribe(uuid, callback)
      PROVE  GattInv'
  BY <1>4, Subscribes
<1>5. ASSUME NEW uuid \in Spelt, Unsubscribe(uuid) \/ ReadOrWrite(uuid)
      PROVE  GattInv'
  BY <1>5, Unsubscribes, Reaches
<1>6. ASSUME NEW n \in Peripheral, Notify(n)
      PROVE  GattInv'
  BY <1>6, Notified
<1>7. CASE UNCHANGED gattVars
  BY <1>7 DEF gattVars, GattInv, CalledOK
<1> QED
  BY <1>1, <1>2, <1>3, <1>4, <1>5, <1>6, <1>7 DEF GattNext

\* As many UUIDs as numbers.
LEMMA AsMany ==
  ASSUME GattInv
  PROVE  Cardinality(DOMAIN notifying) = Cardinality(DOMAIN asked)
<1> DEFINE S == DOMAIN asked
           T == DOMAIN notifying
           f == [n \in S |-> FullUuid(0, n)]
<1>1. IsFiniteSet(S) /\ T = {FullUuid(0, n) : n \in S}
  BY DEF GattInv
<1>2. \A m, n \in S : f[m] = f[n] => m = n
  BY FullInjective
<1>3. f \in Bijection(S, T)
  <2>1. f \in [S -> T]
    BY <1>1
  <2>2. \A t \in T : \E n \in S : f[n] = t
    BY <1>1
  <2> QED
    BY <1>2, <2>1, <2>2 DEF Bijection, Injection, Surjection, IsInjective
<1>4. ExistsBijection(S, T)
  BY <1>3 DEF ExistsBijection
<1> HIDE DEF S, T, f
<1>5. Cardinality(S) = Cardinality(T)
  BY <1>1, <1>4, FS_Bijection
<1> QED
  BY <1>5 DEF S, T

\* However the caller spells the UUIDs, for any peripheral and any number of calls, a
\* characteristic is one to every call, and the callback asked for last is told (gatt.py
\* GattClient, normalize_uuid).
THEOREM OneEach == GattInit /\ [][GattNext]_gattVars => []OneUuidOneSubscription
<1>1. GattInv => OneUuidOneSubscription
  <2> SUFFICES ASSUME GattInv
               PROVE  OneUuidOneSubscription
    OBVIOUS
  <2>0. "caller" \notin Callbacks /\ 0 \notin DOMAIN asked /\ \A n \in DOMAIN asked : asked[n] \in Callbacks
    <3>1. "caller" \notin Callbacks /\ Peripheral \subseteq Nat \ {0}
      BY PeripheralAssumption
    <3>2. DOMAIN asked \subseteq Peripheral /\ \A n \in DOMAIN asked : asked[n] \in Callbacks
      BY DEF GattInv
    <3> QED
      BY <3>1, <3>2
  <2>1. {u.lo : u \in DOMAIN notifying} = DOMAIN asked
    <3>1. \A n \in DOMAIN asked : FullUuid(0, n).lo = n
      BY DEF FullUuid
    <3>2. DOMAIN notifying = {FullUuid(0, n) : n \in DOMAIN asked}
      BY DEF GattInv
    <3>3. ASSUME NEW u \in DOMAIN notifying PROVE u.lo \in DOMAIN asked
      BY <3>1, <3>2
    <3>4. ASSUME NEW n \in DOMAIN asked PROVE \E u \in DOMAIN notifying : u.lo = n
      BY <3>1, <3>2
    <3> QED
      BY <3>3, <3>4
  <2>2. Cardinality(DOMAIN notifying) = Cardinality(DOMAIN asked)
    BY AsMany
  <2>3. called.to \ {"caller"} =
          IF called.of \in DOMAIN asked /\ "caller" \notin called.to THEN {asked[called.of]} ELSE {}
    <3>1. CASE called = NothingCalled
      <4>1. called.of = 0 /\ called.to = {} /\ 0 \notin DOMAIN asked
        BY <2>0, <3>1 DEF NothingCalled
      <4> QED
        BY <4>1
    <3>2. CASE called.to = {"caller"}
      BY <3>2
    <3>3. CASE called.to = IF called.of \in DOMAIN asked THEN {asked[called.of]} ELSE {}
      <4>1. \A n \in DOMAIN asked : asked[n] # "caller"
        BY <2>0
      <4> QED
        BY <3>3, <4>1
    <3> QED
      BY <3>1, <3>2, <3>3 DEF GattInv, CalledOK
  <2>4. gattRaised # "unknown characteristic"
    BY DEF GattInv
  <2> QED
    BY <2>1, <2>2, <2>3, <2>4 DEF OneUuidOneSubscription
<1> QED
  BY <1>1, GattStart, GattSteps, PTL
=============================================================================
