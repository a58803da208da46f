---------------------------- MODULE FridaCapture ----------------------------
(***************************************************************************)
(* untether_bt.frida: FridaSession.run, the hooks it loads                 *)
(* (frida_hooks/android_bt.js) in the app they watch, and the messages     *)
(* that become WireEvents.  Frida is external: it delivers what the script *)
(* sends in order, later, and not after the session is detached; a program *)
(* that was spawned waits to be resumed.  The app has one thread and       *)
(* writes its socket with write(byte[]).                                   *)
(***************************************************************************)
EXTENDS Integers, SequencesExt, FiniteSets, TLC

CONSTANTS
  Values,       \* what the app writes
  MaxWrites     \* bound on the calls that the hooks watch

VARIABLES
  running,      \* of the app: "stopped", "suspended", "running"
  at,           \* of run(): where it is
  spawned,      \* run(spawn=True)
  hooks,        \* the transports whose hooks were put in place
  charValue,    \* the value of the app's characteristic
  writes,       \* the app's writes that go out: [transport, data, us]
  before,       \* how many of them there were when the hooks came
  clock,        \* the app's calls so far
  air,          \* messages on their way to the host
  events        \* the WireEvents that on_event was given

fridaVars == <<running, at, spawned, hooks, charValue, writes, before, clock, air, events>>
appVars == <<charValue, writes, clock>>

CallUs == 600   \* time between calls of the app
Now == CallUs * clock
None == "none"

FridaInit ==
  /\ running = "stopped" /\ at = "idle" /\ spawned = FALSE
  /\ hooks = {} /\ charValue = None
  /\ writes = <<>> /\ before = 0 /\ clock = 0
  /\ air = <<>> /\ events = <<>>

-----------------------------------------------------------------------------
\* run(): a call to Frida that raises ends it where it is

UserLaunches ==
  /\ running = "stopped" /\ at = "idle"
  /\ running' = "running"
  /\ UNCHANGED <<at, spawned, hooks, charValue, writes, before, clock, air, events>>

Spawn ==
  /\ at = "idle" /\ running = "stopped"
  /\ running' = "suspended" /\ at' = "found" /\ spawned' = TRUE
  /\ UNCHANGED <<hooks, charValue, writes, before, clock, air, events>>

DoNotSpawn ==
  /\ at = "idle" /\ running = "running"
  /\ at' = "found"
  /\ UNCHANGED <<running, spawned, hooks, charValue, writes, before, clock, air, events>>

\* MUTANT: the app is resumed as soon as it is attached to.
AttachAndResume ==
  /\ at = "found"
  /\ at' = "attached" /\ running' = "running"
  /\ UNCHANGED <<spawned, hooks, charValue, writes, before, clock, air, events>>

\* The session, the script and its handler.
Attach ==
  /\ at = "found"
  /\ at' = "attached"
  /\ UNCHANGED <<running, spawned, hooks, charValue, writes, before, clock, air, events>>

\* Each of the two groups of hooks may fail on this Android; the script says so.
Load(installed) ==
  /\ at = "attached"
  /\ at' = "loaded"
  /\ hooks' = installed /\ before' = Len(writes)
  /\ air' = [k \in 1..(2 - Cardinality(installed)) |-> [t |-> "err"]] \o <<[t |-> "ready"]>>
  /\ UNCHANGED <<running, spawned, charValue, writes, clock, events>>

Resume ==
  /\ at = "loaded"
  /\ at' = "sleeping"
  /\ running' = IF spawned THEN "running" ELSE running
  /\ UNCHANGED <<spawned, hooks, charValue, writes, before, clock, air, events>>

Raises ==
  /\ at \in {"found", "attached", "loaded"}
  /\ at' = "raised"
  /\ UNCHANGED <<running, spawned, hooks, charValue, writes, before, clock, air, events>>

\* The time is over, or the user interrupts; what detach raises is dropped.
Detach ==
  /\ at = "sleeping"
  /\ at' = "returned" /\ air' = <<>>
  /\ UNCHANGED <<running, spawned, hooks, charValue, writes, before, clock, events>>

-----------------------------------------------------------------------------
\* The app, and the hooks of its calls.  A message carries Date.now(), in ms.

Runs == running = "running" /\ clock < MaxWrites
Reports(transport, kind, data) ==
  air' = IF transport \in hooks /\ at # "returned"
         THEN Append(air, [t |-> kind, data |-> data, ms |-> Now \div 1000]) ELSE air

SetValue(data) ==
  /\ Runs
  /\ Reports("att", "ble_set", data)
  /\ charValue' = data /\ clock' = clock + 1
  /\ UNCHANGED <<running, at, spawned, hooks, writes, before, events>>

GoesOut(transport, data) ==
  /\ writes' = Append(writes, [transport |-> transport, data |-> data, us |-> Now])
  /\ clock' = clock + 1

\* MUTANT: an empty value is not worth a message.
WritesIfAny ==
  /\ Runs
  /\ IF charValue = None THEN UNCHANGED air
     ELSE Reports("att", "ble_write", charValue)
  /\ GoesOut("att", charValue)
  /\ UNCHANGED <<running, at, spawned, hooks, charValue, before, events>>

\* What was set last; without a value, an empty one.
WriteCharacteristic ==
  /\ Runs
  /\ Reports("att", "ble_write", charValue)
  /\ GoesOut("att", charValue)
  /\ UNCHANGED <<running, at, spawned, hooks, charValue, before, events>>

WriteSocket(data) ==
  /\ Runs
  /\ Reports("rfcomm", "rfcomm_write", data)
  /\ GoesOut("rfcomm", data)
  /\ UNCHANGED <<running, at, spawned, hooks, charValue, before, events>>

-----------------------------------------------------------------------------
\* The host

\* "ready" and "err" are no events.
ParseHookMessage(message) ==
  CASE message.t \in {"ble_write", "ble_set"} ->
         <<[us |-> 1000 * message.ms, transport |-> "att", how |-> message.t, data |-> message.data]>>
    [] message.t = "rfcomm_write" ->
         <<[us |-> 1000 * message.ms, transport |-> "rfcomm", how |-> message.t,
            data |-> message.data]>>
    [] OTHER -> <<>>

\* _on_message, on Frida's thread, while run() sleeps or is still at work.
OnMessage ==
  /\ air # <<>>
  /\ air' = Tail(air)
  /\ events' = events \o ParseHookMessage(Head(air))
  /\ UNCHANGED <<running, at, spawned, hooks, charValue, writes, before, clock>>

FridaNext ==
  \/ UserLaunches \/ Spawn \/ DoNotSpawn \/ Attach
  \/ \E installed \in SUBSET {"att", "rfcomm"} : Load(installed)
  \/ Resume \/ Raises \/ Detach
  \/ \E data \in Values : SetValue(data) \/ WriteSocket(data)
  \/ WriteCharacteristic
  \/ OnMessage

-----------------------------------------------------------------------------
\* Properties

\* What the messages on their way will be reported as; the writes among what is
\* reported; those of what went out that pass a hook.
Told(messages) == FlattenSeq([k \in 1..Len(messages) |-> ParseHookMessage(messages[k])])
WritesAmong(reported) ==
  FlattenSeq([k \in 1..Len(reported) |-> IF reported[k].how # "ble_set" THEN <<reported[k]>> ELSE <<>>])
Hooked(sent) ==
  FlattenSeq([k \in 1..Len(sent) |-> IF sent[k].transport \in hooks THEN <<sent[k]>> ELSE <<>>])

\* The writes reported so far are those that went out over the hooked transports since
\* the hooks came, all of them with what is still on its way, in order, with their
\* bytes, and their times right to the millisecond; of an app that was spawned, since
\* it began.  After detaching, they are the first of them (frida.py run, load before resume;
\* android_bt.js, "what bytes go out").
NoWriteMissed ==
  at \in {"loaded", "sleeping", "returned"} =>
    LET out      == Hooked(SubSeq(writes, before + 1, Len(writes)))
        reported == WritesAmong(events \o Told(air))
    IN /\ spawned => before = 0
       /\ Len(reported) <= Len(out)
       /\ at # "returned" => Len(reported) = Len(out)
       /\ \A k \in DOMAIN reported :
            /\ reported[k].transport = out[k].transport /\ reported[k].data = out[k].data
            /\ out[k].us - reported[k].us \in 0..999
=============================================================================
