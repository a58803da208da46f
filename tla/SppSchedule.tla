---------------------------- MODULE SppSchedule -----------------------------
(***************************************************************************)
(* When manage_connections_ gives the radio to which device.               *)
(*                                                                         *)
(* Time is discrete.  In every unit the loop task makes one pass, then the *)
(* stack reports what it has to, then time moves on.  An answer comes      *)
(* before its timeout or not at all (SppLinks has the late ones).          *)
(***************************************************************************)
EXTENDS Naturals

CONSTANTS
  N,               \* number of devices
  ConnectTimeout,  \* CONNECT_TIMEOUT_MS
  MinBackoff,      \* the initial backoff_ms, and that after an OPEN
  MaxBackoff,      \* MAX_BACKOFF_MS
  Configured       \* the devices with a configured channel

Device == 1..N
NoDevice == 0

ASSUME ScheduleAssumption ==
  /\ N \in Nat \ {0}
  /\ {ConnectTimeout, MinBackoff, MaxBackoff} \subseteq Nat \ {0}
  /\ MinBackoff <= MaxBackoff
  /\ Configured \subseteq Device

VARIABLES
  phase,       \* who acts next in this unit
  connecting,  \* connecting_idx_
  sinceStart,  \* now - connect_started_
  known,       \* devices with channel > 0
  state,       \* of each device: want_reconnect, being connected, or spp_open
  sinceTry,    \* now - last_attempt, up to MaxBackoff
  backoff      \* backoff_ms

vars == <<phase, connecting, sinceStart, known, state, sinceTry, backoff>>

TypeOK ==
  /\ phase \in {"loop", "events"}
  /\ connecting \in Device \cup {NoDevice}
  /\ sinceStart \in 0..(ConnectTimeout + 1)
  /\ known \subseteq Device
  /\ state \in [Device -> {"wants", "trying", "open"}]
  /\ sinceTry \in [Device -> 0..MaxBackoff]
  /\ backoff \in [Device -> MinBackoff..MaxBackoff]
  /\ \A d \in Device : state[d] = "trying" <=> connecting = d

Least(a, b) == IF a < b THEN a ELSE b

-----------------------------------------------------------------------------

Due(d) == state[d] = "wants" /\ sinceTry[d] >= backoff[d]

\* MUTANT: the backoff is not doubled.
DoubledNot(x) == x

\* std::min(backoff_ms * 2, MAX_BACKOFF_MS)
Doubled(x) == Least(2 * x, MaxBackoff)

\* The scan stops at the first device that is due.
ScanFinds(d) == Due(d) /\ \A e \in Device : e < d => ~Due(e)

\* manage_connections_ with nothing in flight.
Attempt(d) ==
  /\ phase = "loop"
  /\ connecting = NoDevice
  /\ ScanFinds(d)
  /\ phase' = "events"
  /\ connecting' = d
  /\ sinceStart' = 0
  /\ state' = [state EXCEPT ![d] = "trying"]
  /\ sinceTry' = [sinceTry EXCEPT ![d] = 0]
  /\ backoff' = [backoff EXCEPT ![d] = Doubled(@)]
  /\ UNCHANGED known

\* manage_connections_ with an attempt in flight for too long.
Timeout ==
  /\ phase = "loop"
  /\ connecting # NoDevice
  /\ sinceStart > ConnectTimeout
  /\ phase' = "events"
  /\ connecting' = NoDevice
  /\ state' = [state EXCEPT ![connecting] = "wants"]
  /\ UNCHANGED <<sinceStart, known, sinceTry, backoff>>

\* manage_connections_ with nothing to do.
Pass ==
  /\ phase = "loop"
  /\ IF connecting = NoDevice THEN \A d \in Device : ~Due(d)
                              ELSE sinceStart <= ConnectTimeout
  /\ phase' = "events"
  /\ UNCHANGED <<connecting, sinceStart, known, state, sinceTry, backoff>>

Loop == Timeout \/ Pass \/ \E d \in Device : Attempt(d)

-----------------------------------------------------------------------------
(* The stack's answers.                                                    *)

\* DISCOVERY_COMP with a channel; the connect gets a timeout of its own.
Found ==
  /\ phase = "events"
  /\ connecting \in Device \ known
  /\ known' = known \cup {connecting}
  /\ sinceStart' = 0
  /\ UNCHANGED <<phase, connecting, state, sinceTry, backoff>>

\* OPEN with success.
Opened ==
  /\ phase = "events"
  /\ connecting \in known
  /\ state' = [state EXCEPT ![connecting] = "open"]
  /\ backoff' = [backoff EXCEPT ![connecting] = MinBackoff]
  /\ connecting' = NoDevice
  /\ UNCHANGED <<phase, sinceStart, known, sinceTry>>

\* OPEN or DISCOVERY_COMP with a failure.
Failed ==
  /\ phase = "events"
  /\ connecting # NoDevice
  /\ state' = [state EXCEPT ![connecting] = "wants"]
  /\ connecting' = NoDevice
  /\ UNCHANGED <<phase, sinceStart, known, sinceTry, backoff>>

\* CLOSE
Closed(d) ==
  /\ phase = "events"
  /\ state[d] = "open"
  /\ state' = [state EXCEPT ![d] = "wants"]
  /\ UNCHANGED <<phase, connecting, sinceStart, known, sinceTry, backoff>>

Events == Found \/ Opened \/ Failed \/ \E d \in Device : Closed(d)

Tick ==
  /\ phase = "events"
  /\ phase' = "loop"
  /\ sinceStart' = IF connecting = NoDevice THEN 0 ELSE Least(sinceStart + 1, ConnectTimeout + 1)
  /\ sinceTry' = [d \in Device |-> Least(sinceTry[d] + 1, MaxBackoff)]
  /\ UNCHANGED <<connecting, known, state, backoff>>

-----------------------------------------------------------------------------

\* From ESP_SPP_INIT_EVT on, shortly or long after the boot.
Init ==
  /\ phase = "loop"
  /\ connecting = NoDevice /\ sinceStart = 0
  /\ known = Configured
  /\ state = [d \in Device |-> "wants"]
  /\ \E t \in {0, MinBackoff} : sinceTry = [d \in Device |-> t]
  /\ backoff = [d \in Device |-> MinBackoff]

Next == Loop \/ Events \/ Tick

\* The loop task runs and time passes.
Fairness == WF_vars(Loop) /\ WF_vars(Tick)

Spec == Init /\ [][Next]_vars /\ Fairness

-----------------------------------------------------------------------------
(* Properties.                                                             *)

Served(d) == state[d] = "wants" ~> state[d] = "trying"

\* A device in the end keeps its link or is not there; it does not come and go.
Settles(d) == <>[](state[d] = "open") \/ <>[](state[d] # "open")

\* Absent devices starve nobody: whatever the index of a device that wants a link,
\* it gets an attempt.  It needs MAX_BACKOFF_MS ("settles to MAX so its failed
\* pages barely disturb the other links") to outlast the failing attempts of all
\* the devices before it together, as the scan always starts at the first.
\* The first is served whatever the others do.
NoStarvation ==
  /\ Served(1)
  /\ (\A d \in Device : Settles(d)) => \A d \in Device : Served(d)
=============================================================================
