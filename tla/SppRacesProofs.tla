--------------------------- MODULE SppRacesProofs ---------------------------
(***************************************************************************)
(* Theorems about SppRaces: what holds of the shared fields between any    *)
(* two accesses of the two tasks, for every wrap of millis(), every        *)
(* timeout and backoff, any number of links.                               *)
(***************************************************************************)
EXTENDS SppRaces, TLAPS

LEMMA Constants ==
  /\ Wrap \in Nat \ {0} /\ ConnectTimeout \in Nat \ {0} /\ Settle \in Nat \ {0}
  /\ MinBackoff \in Nat \ {0} /\ MaxBackoff \in Nat \ {0} /\ MinBackoff <= MaxBackoff
  /\ MaxTicks \in Nat /\ MaxLinks \in Nat /\ AnswerTime \in Nat
  /\ ConnectTimeout + MaxTicks < Wrap
  /\ Start \subseteq Millis /\ Configured \subseteq BOOLEAN
BY TimeAssumption DEF Millis

LEMMA ModRange == \A x \in Nat : x % Wrap \in Millis
BY Constants DEF Millis

LEMMA ModSmall ==
  ASSUME NEW x \in Nat, x < 2 * Wrap
  PROVE  x % Wrap = IF x < Wrap THEN x ELSE x - Wrap
BY Constants

LEMMA ModNext ==
  ASSUME NEW x \in Nat, x < Wrap
  PROVE  (x + 1) % Wrap = IF x + 1 < Wrap THEN x + 1 ELSE x + 1 - Wrap
BY Constants

-----------------------------------------------------------------------------
(* The inductive invariant.                                                *)

\* The steps of the handlers that answer an attempt.
Answering == {"handle", "open", "openAt", "pending", "resolved", "failed",
              "found?", "found", "lost?", "lost"}

Newest == b.handle = opened /\ opened \in up

\* The link that is open is the newest, except while the handlers of OPEN and CLOSE
\* are between the assignments that belong together.
LinkInv ==
  /\ callAt \notin {"handle", "open", "ours?", "close"} /\ b.open => Newest
  /\ callAt \in {"handle", "open"} => ev = opened /\ opened \in up
  /\ callAt = "open" => b.handle = ev
  /\ callAt \in {"openAt", "pending"} => b.open
  /\ callAt = "ours?" /\ b.open => b.handle = opened /\ opened \in up \cup {ev}
  /\ callAt \in {"forget", "again"} => ~b.open

Greeted == b.pending \/ greets[b.handle] > 0 \/ b.handle \in refused

\* Its handshake is pending or was tried, but for the two accesses that write it, and
\* until the handler of OPEN has come to set it pending.
GreetInv ==
  b.open /\ loopAt # "write" =>
    /\ callAt \notin {"handle", "open", "openAt", "pending", "ours?", "close"} => Greeted
    /\ callAt = "ours?" /\ b.handle # ev => Greeted

Outstanding == query \/ calls > 0
Known == b.open \/ b.want \/ b.connecting

\* Until an attempt is given up unanswered there is one attempt at a time, from
\* Claim to the end of the handler that answers it, and the device is known.
AttemptInv ==
  /\ calls <= 1 /\ ~(query /\ calls = 1)
  /\ Outstanding => b.connecting /\ callAt \notin Answering
  /\ callAt \in Answering => b.connecting
  /\ loopAt \in {"scan", "take", "claim"} => ~b.connecting
  /\ loopAt = "start" => b.connecting /\ ~Outstanding /\ callAt \notin Answering
  /\ loopAt = "giveUp" => b.want \/ ~b.connecting
  /\ callAt \in {"openAt", "pending"} => b.open
  /\ callAt = "resolved" => b.open \/ b.want
  /\ callAt \notin {"forget", "again"} /\ loopAt # "claim" => Known

\* millis() after t ticks, from c.
After(c, t) == (c + t) % Wrap

\* The loop task is about to judge the age of an attempt, or to give it up.
Judging == loopAt \in {"age?", "expire", "giveUp"} \/ (b.connecting /\ loopAt # "start")

\* millis() started at c, the loop task last read it after t ticks, and the last
\* attempt was started with what it had read after s.
Timed(c, t, s) ==
  /\ clock = After(c, ticks)
  /\ s <= t /\ t <= ticks
  /\ loopAt # "manage" => now = After(c, t) /\ (ticks = t \/ (ticks = t + 1 /\ "loop" \in slow))
  /\ ~restarted /\ Judging => b.started = After(c, s) /\ began \in {s, s + 1}
  /\ ~restarted /\ loopAt = "expire" => ticks - began >= ConnectTimeout

TimeInv == \E c \in Millis, t \in 0..MaxTicks, s \in 0..MaxTicks : Timed(c, t, s)

RaceInv ==
  /\ TypeOK
  /\ LinkInv
  /\ GreetInv
  /\ ~late => AttemptInv
  /\ TimeInv

-----------------------------------------------------------------------------
(* Type correctness.                                                       *)

\* The loop task's step from one access to the next.
LEMMA LoopMoveType ==
  ASSUME TypeOK, NEW from, NEW to \in LoopSteps, LoopMove(from, to), b' \in Fields, now' \in Millis,
         UNCHANGED <<query, up, opened, restarted>>, calls' \in Nat, began' \in 0..MaxTicks,
         greets' \in [Links -> Nat], late' \in BOOLEAN,
         refused' \subseteq Links \cup {NoHandle}
  PROVE  TypeOK'
BY DEF TypeOK, LoopMove

LEMMA LoopType == TypeOK /\ LoopTask => TypeOK'
<1> SUFFICES ASSUME TypeOK, LoopTask PROVE TypeOK'
  OBVIOUS
<1>0. /\ b \in Fields /\ now \in Millis /\ clock \in Millis /\ calls \in Nat /\ ticks \in 0..MaxTicks
      /\ began \in 0..MaxTicks /\ greets \in [Links -> Nat] /\ late \in BOOLEAN /\ callAt \in CallSteps
      /\ query \in BOOLEAN /\ refused \subseteq Links \cup {NoHandle}
  BY DEF TypeOK
<1>1. CASE ReadNow \/ CheckConnecting \/ CheckAge \/ Scan \/ CheckPending \/ CheckOpen \/ ReadClock \/ CheckSettled
  <2>1. /\ b' \in Fields /\ now' \in Millis /\ UNCHANGED <<stack, history>>
        /\ \E from \in LoopSteps, to \in LoopSteps : LoopMove(from, to)
    BY <1>0, <1>1 DEF ReadNow, CheckConnecting, CheckAge, Scan, CheckPending, CheckOpen, ReadClock,
                      CheckSettled, LoopSteps
  <2> QED
    BY <1>0, <2>1, LoopMoveType DEF stack, history
<1>2. CASE Expire \/ GiveUp \/ Take \/ Claim \/ ClearPending
  <2>1. b' \in Fields
    BY <1>0, <1>2 DEF Expire, WantAgain, GiveUp, Take, Claim, ClearPending, Fields
  <2>2. /\ UNCHANGED <<now, stack, began, greets, refused, restarted>> /\ late' \in BOOLEAN
        /\ \E from \in LoopSteps, to \in LoopSteps : LoopMove(from, to)
    BY <1>0, <1>2 DEF Expire, GiveUp, Take, Claim, ClearPending, LoopSteps, history
  <2> QED
    BY <1>0, <2>1, <2>2, LoopMoveType DEF stack
<1>3. CASE StartAttempt
  <2>1. (IF 2 * b.backoff < MaxBackoff THEN 2 * b.backoff ELSE MaxBackoff) \in MinBackoff..MaxBackoff
    BY <1>0, Constants DEF Fields
  <2>2. b' \in Fields
    BY <1>0, <1>3, <2>1 DEF StartAttempt, Fields
  <2>3. /\ calls' \in Nat /\ query' \in BOOLEAN
        /\ began' = ticks /\ UNCHANGED <<now, up, opened, greets, refused, late, restarted>>
    <3>1. CASE b.channel
      BY <1>0, <1>3, <3>1 DEF StartAttempt
    <3>2. CASE ~b.channel
      <4>1. query' = TRUE /\ calls' = calls /\ UNCHANGED <<now, up, opened, greets, refused, late, restarted>> /\ began' = ticks
        BY <1>3, <3>2 DEF StartAttempt
      <4> QED
        BY <1>0, <4>1
    <3> QED
      BY <3>1, <3>2
  <2>4. loopAt' = "pending?" /\ UNCHANGED <<clock, ticks, callAt, ev>> /\ slow' \subseteq slow
    BY <1>3 DEF StartAttempt, LoopMove
  <2> QED
    BY <1>0, <2>2, <2>3, <2>4 DEF TypeOK, LoopSteps
<1>4. CASE WriteHandshake
  <2>1. greets' \in [Links -> Nat] /\ refused' \subseteq Links \cup {NoHandle}
    BY <1>0, <1>4 DEF WriteHandshake, Fields
  <2> QED
    BY <1>0, <1>4, <2>1, LoopMoveType DEF WriteHandshake, LoopSteps, stack
<1> QED
  BY <1>1, <1>2, <1>3, <1>4 DEF LoopTask

LEMMA EventType == TypeOK /\ Events => TypeOK'
<1> SUFFICES ASSUME TypeOK, Events PROVE TypeOK'
  OBVIOUS
<1>1. CASE DiscoveryFound \/ DiscoveryFailed \/ OpenFailed \/ Dies
  <2>1. /\ calls' \in Nat /\ query' \in {query, FALSE} /\ ev' = NoHandle /\ callAt' \in CallSteps
        /\ UNCHANGED <<clock, ticks, slow, b, loopAt, now, up, opened, history>>
    <3>1. calls \in Nat
      BY DEF TypeOK
    <3>2. CASE DiscoveryFound \/ DiscoveryFailed
      BY <3>1, <3>2 DEF DiscoveryFound, DiscoveryFailed, Event, CallSteps
    <3>3. CASE OpenFailed
      BY <3>1, <3>3 DEF OpenFailed, Event, CallSteps
    <3>4. CASE Dies
      <4>1. Event("idle", NoHandle) /\ UNCHANGED <<up, opened>>
        BY <3>4 DEF Dies
      <4>2. calls' \in Nat /\ query' \in {query, FALSE}
        <5>1. CASE calls > 0 /\ calls' = calls - 1 /\ UNCHANGED query
          BY <3>1, <5>1
        <5>2. CASE query' = FALSE /\ UNCHANGED calls
          BY <3>1, <5>2
        <5> QED
          BY <3>4, <5>1, <5>2 DEF Dies
      <4> QED
        BY <4>1, <4>2 DEF Event, CallSteps
    <3> QED
      BY <1>1, <3>2, <3>3, <3>4
  <2>2. query' \in BOOLEAN
    BY <2>1 DEF TypeOK
  <2> QED
    BY <2>1, <2>2 DEF TypeOK, history
<1>2. CASE OpenOk
  <2>1. opened' \in Links /\ opened' \in 0..MaxLinks /\ up' \subseteq Links /\ calls' \in Nat
    BY <1>2, Constants DEF OpenOk, TypeOK, Links
  <2> QED
    BY <1>2, <2>1 DEF OpenOk, Event, history, TypeOK, CallSteps
<1>3. CASE Close
  BY <1>3 DEF Close, Event, history, TypeOK, CallSteps
<1> QED
  BY <1>1, <1>2, <1>3 DEF Events

LEMMA CallMoveType ==
  ASSUME TypeOK, NEW from, NEW to \in CallSteps, CallMove(from, to), b' \in Fields,
         UNCHANGED <<query, up, opened, greets, refused, late>>, calls' \in Nat, began' \in 0..MaxTicks,
         restarted' \in BOOLEAN
  PROVE  TypeOK'
BY DEF TypeOK, CallMove

LEMMA HandlerType == TypeOK /\ Handler => TypeOK'
<1> SUFFICES ASSUME TypeOK, Handler PROVE TypeOK'
  OBVIOUS
<1>0. /\ b \in Fields /\ clock \in Millis /\ calls \in Nat /\ ticks \in 0..MaxTicks
      /\ began \in 0..MaxTicks /\ ev \in Links \cup {NoHandle} /\ restarted \in BOOLEAN
  BY DEF TypeOK
<1>1. ASSUME NEW from \in CallSteps, NEW to \in CallSteps, NEW value \in Fields, Assign(from, to, value)
      PROVE  TypeOK'
  BY <1>0, <1>1, CallMoveType DEF Assign, stack, history
<1>2. /\ [b EXCEPT !.handle = ev] \in Fields /\ [b EXCEPT !.open = TRUE] \in Fields
      /\ [b EXCEPT !.pending = TRUE] \in Fields /\ [b EXCEPT !.want = TRUE] \in Fields
      /\ [b EXCEPT !.connecting = FALSE] \in Fields /\ [b EXCEPT !.open = FALSE] \in Fields
      /\ [b EXCEPT !.handle = NoHandle] \in Fields
  BY <1>0 DEF Fields
<1>3. [b EXCEPT !.backoff = MinBackoff, !.openAt = clock] \in Fields
  <2>1. MinBackoff \in MinBackoff..MaxBackoff
    BY Constants
  <2> QED
    BY <1>0, <2>1 DEF Fields
<1>4. CASE SetHandle \/ SetOpen \/ SetOpenAt \/ SetPending \/ SetFailed \/ SetResolved
  BY <1>1, <1>2, <1>3, <1>4 DEF SetHandle, SetOpen, SetOpenAt, SetPending, SetFailed, SetResolved, CallSteps
<1>5. CASE CheckOurs \/ SetClosed \/ ForgetHandle \/ SetAgain \/ CheckFound \/ CheckLost
  BY <1>0, <1>1, <1>2, <1>5 DEF CheckOurs, SetClosed, ForgetHandle, SetAgain, CheckFound, CheckLost, CallSteps
<1>6. CASE SetLost
  BY <1>0, <1>2, <1>6, CallMoveType DEF SetLost, WantAgain, CallSteps, stack, history
<1>7. CASE ConnectFound
  <2>1. /\ [b EXCEPT !.channel = TRUE, !.started = clock] \in Fields
        /\ [b EXCEPT !.started = clock] \in Fields
    BY <1>0 DEF Fields
  <2> QED
    BY <1>0, <1>7, <2>1, CallMoveType DEF ConnectFound, CallSteps
<1> QED
  BY <1>4, <1>5, <1>6, <1>7 DEF Handler

LEMMA TickType == TypeOK /\ Tick => TypeOK'
<1> SUFFICES ASSUME TypeOK, Tick PROVE TypeOK'
  OBVIOUS
<1>1. clock' \in Millis /\ ticks' \in 0..MaxTicks /\ slow' \subseteq {"loop", "callback"}
  BY ModRange, Constants DEF Tick, TypeOK, Millis, Running
<1> QED
  BY <1>1 DEF Tick, TypeOK, stack, history

LEMMA TypeStep == TypeOK /\ [Work]_vars => TypeOK'
<1>1. TypeOK /\ UNCHANGED vars => TypeOK'
  BY DEF TypeOK, vars, stack, history
<1> QED
  BY <1>1, LoopType, EventType, HandlerType, TickType DEF Work

LEMMA TypeInit == Init => TypeOK
<1> SUFFICES ASSUME Init PROVE TypeOK
  OBVIOUS
<1>1. 0 \in Millis /\ MinBackoff \in MinBackoff..MaxBackoff /\ 0 \in 0..MaxTicks /\ 0 \in 0..MaxLinks
  BY Constants DEF Millis
<1>2. b \in Fields
  <2>1. PICK fixed \in Configured : b = Constructed(fixed)
    BY DEF Init
  <2>2. fixed \in BOOLEAN
    BY Constants
  <2> QED
    BY <1>1, <2>1, <2>2 DEF Constructed, Fields
<1>3. clock \in Millis
  BY Constants DEF Init
<1>4. greets \in [Links -> Nat]
  BY DEF Init
<1> QED
  BY <1>1, <1>2, <1>3, <1>4 DEF Init, TypeOK, LoopSteps, CallSteps

\* A board that restarts is where it was when it was switched on.
LEMMA RebootInit == Reboot => Init'
BY DEF Reboot, Init

\* The types the code relies on: millis() stays a uint32_t, the backoff between its
\* two limits, whatever the interleaving.
THEOREM TypeCorrect == Spec => []TypeOK
<1>1. Init' => TypeOK'
  BY TypeInit, PTL
<1>2. TypeOK /\ [Next]_vars => TypeOK'
  BY <1>1, TypeStep, RebootInit DEF Next, Fault
<1> QED
  BY <1>2, TypeInit, PTL DEF Spec

-----------------------------------------------------------------------------
(* The newest link.                                                        *)

\* The loop task leaves the link, and the event being handled, alone.
LEMMA LoopKeepsLink ==
  ASSUME TypeOK, LoopTask
  PROVE  /\ b'.open = b.open /\ b'.handle = b.handle
         /\ UNCHANGED <<callAt, ev, up, opened>>
<1>0. b \in Fields
  BY DEF TypeOK
<1>1. UNCHANGED <<callAt, ev, up, opened>>
  BY DEF LoopTask, LoopMove, ReadNow, CheckConnecting, CheckAge, Expire, GiveUp, Scan, Take, Claim, StartAttempt,
         CheckPending, CheckOpen, ReadClock, CheckSettled, ClearPending, WriteHandshake, stack
<1>2. CASE StartAttempt
  BY <1>0, <1>1, <1>2 DEF StartAttempt, Fields
<1>3. CASE Expire \/ GiveUp \/ Take \/ Claim \/ ClearPending
  BY <1>0, <1>1, <1>3 DEF Expire, WantAgain, GiveUp, Take, Claim, ClearPending, Fields
<1>4. CASE ReadNow \/ CheckConnecting \/ CheckAge \/ Scan \/ CheckPending \/ CheckOpen \/ ReadClock \/ CheckSettled \/ WriteHandshake
  BY <1>1, <1>4 DEF ReadNow, CheckConnecting, CheckAge, Scan, CheckPending, CheckOpen, ReadClock, CheckSettled, WriteHandshake
<1> QED
  BY <1>1, <1>2, <1>3, <1>4 DEF LoopTask

LEMMA LinkEvents == TypeOK /\ LinkInv /\ Events => LinkInv'
<1> SUFFICES ASSUME TypeOK, LinkInv, Events PROVE LinkInv'
  OBVIOUS
<1>1. CASE DiscoveryFound \/ DiscoveryFailed \/ OpenFailed \/ Dies
  <2>1. callAt = "idle" /\ callAt' \in {"found?", "lost?", "failed", "idle"} /\ UNCHANGED <<b, up, opened>>
    BY <1>1 DEF DiscoveryFound, DiscoveryFailed, OpenFailed, Dies, Event
  <2> QED
    BY <2>1 DEF LinkInv, Newest
<1>2. CASE OpenOk
  BY <1>2 DEF OpenOk, Event, LinkInv
<1>3. CASE Close
  <2>1. PICK h \in up : up' = up \ {h} /\ callAt = "idle" /\ callAt' = "ours?" /\ ev' = h /\ UNCHANGED <<b, opened>>
    BY <1>3 DEF Close, Event
  <2> QED
    BY <2>1 DEF LinkInv, Newest
<1> QED
  BY <1>1, <1>2, <1>3 DEF Events

LEMMA LinkHandler == TypeOK /\ LinkInv /\ Handler => LinkInv'
<1> SUFFICES ASSUME TypeOK, LinkInv, Handler PROVE LinkInv'
  OBVIOUS
<1>0. b \in Fields /\ UNCHANGED <<up, opened>>
  BY DEF TypeOK, Handler, SetHandle, SetOpen, SetOpenAt, SetPending, SetFailed, SetResolved, CheckOurs, SetClosed,
         ForgetHandle, SetAgain, CheckFound, CheckLost, SetLost, ConnectFound, Assign, stack
<1>1. CASE SetHandle
  BY <1>0, <1>1 DEF SetHandle, Assign, CallMove, LinkInv, Fields
<1>2. CASE SetOpen
  BY <1>0, <1>2 DEF SetOpen, Assign, CallMove, LinkInv, Newest, Fields
<1>3. CASE SetOpenAt
  BY <1>0, <1>3 DEF SetOpenAt, Assign, CallMove, LinkInv, Newest, Fields
<1>4. CASE SetPending
  BY <1>0, <1>4 DEF SetPending, Assign, CallMove, LinkInv, Newest, Fields
<1>5. CASE SetFailed
  BY <1>0, <1>5 DEF SetFailed, Assign, CallMove, LinkInv, Newest, Fields
<1>6. CASE SetResolved
  BY <1>0, <1>6 DEF SetResolved, Assign, CallMove, LinkInv, Newest, Fields
<1>7. CASE CheckOurs
  BY <1>0, <1>7 DEF CheckOurs, Assign, CallMove, LinkInv, Newest
<1>8. CASE SetClosed
  BY <1>0, <1>8 DEF SetClosed, Assign, CallMove, LinkInv, Newest, Fields
<1>9. CASE ForgetHandle
  BY <1>0, <1>9 DEF ForgetHandle, Assign, CallMove, LinkInv, Newest, Fields
<1>10. CASE SetAgain
  BY <1>0, <1>10 DEF SetAgain, Assign, CallMove, LinkInv, Newest, Fields
<1>11. CASE CheckFound \/ CheckLost
  BY <1>0, <1>11 DEF CheckFound, CheckLost, Assign, CallMove, LinkInv, Newest
<1>12. CASE SetLost
  BY <1>0, <1>12 DEF SetLost, WantAgain, CallMove, LinkInv, Newest, Fields
<1>13. CASE ConnectFound
  BY <1>0, <1>13 DEF ConnectFound, CallMove, LinkInv, Newest, Fields
<1> QED
  BY <1>1, <1>2, <1>3, <1>4, <1>5, <1>6, <1>7, <1>8, <1>9, <1>10, <1>11, <1>12, <1>13 DEF Handler

LEMMA LinkStep == TypeOK /\ LinkInv /\ [Work]_vars => LinkInv'
<1>1. TypeOK /\ LinkInv /\ LoopTask => LinkInv'
  BY LoopKeepsLink DEF LinkInv, Newest
<1>2. LinkInv /\ (Tick \/ UNCHANGED vars) => LinkInv'
  BY DEF Tick, vars, stack, history, LinkInv, Newest
<1> QED
  BY <1>1, <1>2, LinkEvents, LinkHandler DEF Work

-----------------------------------------------------------------------------
(* The handshake.                                                          *)

LEMMA GreetLoop == TypeOK /\ LinkInv /\ GreetInv /\ LoopTask => GreetInv'
<1> SUFFICES ASSUME TypeOK, LinkInv, GreetInv, LoopTask PROVE GreetInv'
  OBVIOUS
<1>0. b \in Fields /\ greets \in [Links -> Nat] /\ up \subseteq Links
  BY DEF TypeOK
<1>1. b'.open = b.open /\ b'.handle = b.handle /\ UNCHANGED <<callAt, ev, up, opened>>
  BY LoopKeepsLink
<1>2. CASE ClearPending
  BY <1>2 DEF ClearPending, LoopMove, GreetInv
<1>3. CASE WriteHandshake
  <2>1. loopAt = "write" /\ b' = b
    BY <1>3 DEF WriteHandshake, LoopMove
  <2>2. ASSUME b.handle \in up PROVE Greeted'
    BY <1>0, <1>3, <2>2 DEF WriteHandshake, Greeted
  <2>3. ASSUME b.open,
               callAt \notin {"handle", "open", "openAt", "pending", "ours?", "close"} \/ (callAt = "ours?" /\ b.handle # ev)
        PROVE  b.handle \in up
    BY <2>3 DEF LinkInv, Newest
  <2> QED
    BY <1>1, <2>1, <2>2, <2>3 DEF GreetInv
<1>4. CASE StartAttempt
  <2>1. b'.pending = b.pending /\ UNCHANGED <<greets, refused>> /\ loopAt # "write"
    BY <1>0, <1>4 DEF StartAttempt, LoopMove, Fields
  <2> QED
    BY <1>1, <2>1 DEF GreetInv, Greeted
<1>5. CASE Expire \/ GiveUp \/ Take \/ Claim
  <2>1. b'.pending = b.pending /\ UNCHANGED <<greets, refused>> /\ loopAt # "write"
    BY <1>0, <1>5 DEF Expire, WantAgain, GiveUp, Take, Claim, LoopMove, Fields, history
  <2> QED
    BY <1>1, <2>1 DEF GreetInv, Greeted
<1>6. CASE ReadNow \/ CheckConnecting \/ CheckAge \/ Scan \/ CheckPending \/ CheckOpen \/ ReadClock \/ CheckSettled
  <2>1. b' = b /\ UNCHANGED <<greets, refused>> /\ loopAt # "write"
    BY <1>6 DEF ReadNow, CheckConnecting, CheckAge, Scan, CheckPending, CheckOpen, ReadClock, CheckSettled, LoopMove, history
  <2> QED
    BY <1>1, <2>1 DEF GreetInv, Greeted
<1> QED
  BY <1>2, <1>3, <1>4, <1>5, <1>6 DEF LoopTask

LEMMA GreetEvents == GreetInv /\ Events => GreetInv'
<1> SUFFICES ASSUME GreetInv, Events PROVE GreetInv'
  OBVIOUS
<1>1. callAt = "idle" /\ callAt' \in {"idle", "handle", "failed", "found?", "lost?", "ours?"} /\ UNCHANGED <<b, loopAt, greets, refused>>
  BY DEF Events, DiscoveryFound, DiscoveryFailed, OpenOk, OpenFailed, Dies, Close, Event, history
<1> QED
  BY <1>1 DEF GreetInv, Greeted

LEMMA GreetHandler == TypeOK /\ LinkInv /\ GreetInv /\ Handler => GreetInv'
<1> SUFFICES ASSUME TypeOK, LinkInv, GreetInv, Handler PROVE GreetInv'
  OBVIOUS
<1>0. b \in Fields /\ UNCHANGED <<loopAt, greets, refused>>
  BY DEF TypeOK, Handler, SetHandle, SetOpen, SetOpenAt, SetPending, SetFailed, SetResolved, CheckOurs, SetClosed,
         ForgetHandle, SetAgain, CheckFound, CheckLost, SetLost, ConnectFound, Assign, CallMove, history
<1>1. CASE SetHandle
  BY <1>0, <1>1 DEF SetHandle, Assign, CallMove, GreetInv
<1>2. CASE SetOpen
  BY <1>0, <1>2 DEF SetOpen, Assign, CallMove, GreetInv
<1>3. CASE SetOpenAt
  BY <1>0, <1>3 DEF SetOpenAt, Assign, CallMove, GreetInv
<1>4. CASE SetPending
  BY <1>0, <1>4 DEF SetPending, Assign, CallMove, GreetInv, Greeted, Fields
<1>5. CASE SetFailed \/ SetResolved \/ SetLost
  <2>1. /\ callAt \in {"failed", "resolved", "lost"} /\ callAt' \in {"resolved", "idle"}
        /\ b'.open = b.open /\ b'.handle = b.handle /\ b'.pending = b.pending
    BY <1>0, <1>5 DEF SetFailed, SetResolved, SetLost, WantAgain, Assign, CallMove, Fields
  <2> QED
    BY <1>0, <2>1 DEF GreetInv, Greeted
<1>6. CASE CheckOurs
  BY <1>0, <1>6 DEF CheckOurs, Assign, CallMove, GreetInv, Greeted
<1>7. CASE SetClosed \/ ForgetHandle \/ SetAgain
  <2>1. ~b'.open
    BY <1>0, <1>7 DEF SetClosed, ForgetHandle, SetAgain, Assign, CallMove, LinkInv, Fields
  <2> QED
    BY <2>1 DEF GreetInv
<1>8. CASE CheckFound \/ CheckLost
  BY <1>0, <1>8 DEF CheckFound, CheckLost, Assign, CallMove, GreetInv, Greeted
<1>9. CASE ConnectFound
  <2>1. /\ callAt = "found" /\ callAt' = "idle"
        /\ b'.open = b.open /\ b'.handle = b.handle /\ b'.pending = b.pending
    BY <1>0, <1>9 DEF ConnectFound, CallMove, Fields
  <2> QED
    BY <1>0, <2>1 DEF GreetInv, Greeted
<1> QED
  BY <1>1, <1>2, <1>3, <1>4, <1>5, <1>6, <1>7, <1>8, <1>9 DEF Handler

LEMMA GreetStep == TypeOK /\ LinkInv /\ GreetInv /\ [Work]_vars => GreetInv'
<1>1. GreetInv /\ (Tick \/ UNCHANGED vars) => GreetInv'
  BY DEF Tick, vars, stack, history, GreetInv, Greeted
<1> QED
  BY <1>1, GreetLoop, GreetEvents, GreetHandler DEF Work

-----------------------------------------------------------------------------
(* One attempt at a time.                                                  *)

LEMMA AttemptLoop ==
  ASSUME TypeOK, AttemptInv, LoopTask, ~late'
  PROVE  AttemptInv'
<1>0. b \in Fields /\ calls \in Nat
  BY DEF TypeOK
<1>1. UNCHANGED callAt /\ b'.open = b.open
  BY LoopKeepsLink
<1>2. CASE ReadNow \/ CheckAge \/ CheckPending \/ CheckOpen \/ ReadClock \/ CheckSettled \/ WriteHandshake
  <2>1. /\ b' = b /\ UNCHANGED <<query, calls>>
        /\ loopAt # "claim" /\ loopAt' \in {"connecting?", "expire", "pending?", "open?", "manage", "clock", "settled?", "clear"}
    BY <1>2 DEF ReadNow, CheckAge, CheckPending, CheckOpen, ReadClock, CheckSettled, WriteHandshake, LoopMove, stack
  <2> QED
    BY <1>1, <2>1 DEF AttemptInv, Outstanding, Known
<1>3. CASE CheckConnecting
  <2>1. b' = b /\ UNCHANGED <<query, calls>> /\ loopAt = "connecting?" /\ loopAt' = IF b.connecting THEN "age?" ELSE "scan"
    BY <1>3 DEF CheckConnecting, LoopMove, stack
  <2> QED
    BY <1>1, <2>1 DEF AttemptInv, Outstanding, Known
<1>4. CASE Expire
  <2>1. /\ b'.connecting = b.connecting /\ (b'.want \/ (~b.connecting /\ b'.want = b.want))
        /\ UNCHANGED <<query, calls>> /\ loopAt = "expire" /\ loopAt' = "giveUp"
    BY <1>0, <1>4 DEF Expire, WantAgain, LoopMove, stack, Fields
  <2> QED
    BY <1>1, <2>1 DEF AttemptInv, Outstanding, Known
<1>5. CASE GiveUp
  <2>1. /\ ~b'.connecting /\ b'.want = b.want /\ UNCHANGED <<query, calls>>
        /\ loopAt = "giveUp" /\ loopAt' = "pending?"
    BY <1>0, <1>5 DEF GiveUp, LoopMove, stack, Fields
  <2>2. ~Outstanding /\ callAt = "idle"
    BY <1>0, <1>5 DEF GiveUp, Outstanding
  <2> QED
    BY <1>1, <2>1, <2>2 DEF AttemptInv, Outstanding, Known, Answering
<1>6. CASE Scan
  <2>1. b' = b /\ UNCHANGED <<query, calls>> /\ loopAt = "scan" /\ loopAt' \in {"take", "pending?"}
    BY <1>6 DEF Scan, LoopMove, stack
  <2> QED
    BY <1>1, <2>1 DEF AttemptInv, Outstanding, Known
<1>7. CASE Take
  <2>1. b'.connecting = b.connecting /\ UNCHANGED <<query, calls>> /\ loopAt = "take" /\ loopAt' = "claim"
    BY <1>0, <1>7 DEF Take, LoopMove, stack, Fields
  <2> QED
    BY <1>1, <2>1 DEF AttemptInv, Outstanding, Answering
<1>8. CASE Claim
  <2>1. b'.connecting /\ b'.want = b.want /\ UNCHANGED <<query, calls>> /\ loopAt = "claim" /\ loopAt' = "start"
    BY <1>0, <1>8 DEF Claim, LoopMove, stack, Fields
  <2> QED
    BY <1>1, <2>1 DEF AttemptInv, Outstanding, Known
<1>9. CASE StartAttempt
  <2>1. b'.connecting = b.connecting /\ b'.want = b.want /\ loopAt = "start" /\ loopAt' = "pending?"
    BY <1>0, <1>9 DEF StartAttempt, LoopMove, Fields
  <2>2. ~query /\ calls = 0
    BY <1>0, <2>1 DEF AttemptInv, Outstanding
  <2>3. (calls' = 1 /\ ~query') \/ (query' /\ calls' = 0)
    BY <1>9, <2>2 DEF StartAttempt
  <2> QED
    BY <1>1, <2>1, <2>3 DEF AttemptInv, Outstanding, Known
<1>10. CASE ClearPending
  <2>1. /\ b'.connecting = b.connecting /\ b'.want = b.want /\ UNCHANGED <<query, calls>>
        /\ loopAt = "clear" /\ loopAt' = "write"
    BY <1>0, <1>10 DEF ClearPending, LoopMove, stack, Fields
  <2> QED
    BY <1>1, <2>1 DEF AttemptInv, Outstanding, Known
<1> QED
  BY <1>2, <1>3, <1>4, <1>5, <1>6, <1>7, <1>8, <1>9, <1>10 DEF LoopTask

LEMMA AttemptEvents == ASSUME TypeOK, AttemptInv, Events PROVE AttemptInv'
<1>0. calls \in Nat /\ callAt = "idle" /\ UNCHANGED <<b, loopAt>>
  BY DEF TypeOK, Events, DiscoveryFound, DiscoveryFailed, OpenOk, OpenFailed, Dies, Close, Event
<1>1. CASE DiscoveryFound \/ DiscoveryFailed
  <2>1. query /\ ~query' /\ calls' = calls /\ callAt' \in {"found?", "lost?"}
    BY <1>1 DEF DiscoveryFound, DiscoveryFailed, Event
  <2> QED
    BY <1>0, <2>1 DEF AttemptInv, Outstanding, Known
<1>2. CASE OpenOk \/ OpenFailed
  <2>1. calls > 0 /\ calls' = calls - 1 /\ query' = query /\ callAt' \in {"handle", "failed"}
    BY <1>2 DEF OpenOk, OpenFailed, Event
  <2> QED
    BY <1>0, <2>1 DEF AttemptInv, Outstanding, Known
<1>3. CASE Dies
  <2>1. /\ callAt' = "idle"
        /\ (calls > 0 /\ calls' = calls - 1 /\ query' = query) \/ (query /\ ~query' /\ calls' = calls)
    BY <1>3 DEF Dies, Event
  <2> QED
    BY <1>0, <2>1 DEF AttemptInv, Outstanding, Known
<1>4. CASE Close
  <2>1. callAt' = "ours?" /\ UNCHANGED <<query, calls>>
    BY <1>4 DEF Close, Event
  <2> QED
    BY <1>0, <2>1 DEF AttemptInv, Outstanding, Known, Answering
<1> QED
  BY <1>1, <1>2, <1>3, <1>4 DEF Events

LEMMA AttemptHandler == ASSUME TypeOK, AttemptInv, Handler PROVE AttemptInv'
<1>0. b \in Fields /\ calls \in Nat
  BY DEF TypeOK
<1>1. UNCHANGED loopAt
  BY DEF Handler, SetHandle, SetOpen, SetOpenAt, SetPending, SetFailed, SetResolved, CheckOurs, SetClosed,
         ForgetHandle, SetAgain, CheckFound, CheckLost, SetLost, ConnectFound, Assign, CallMove
<1>2. CASE SetHandle \/ SetOpenAt \/ SetPending
  <2>1. /\ callAt \in {"handle", "openAt", "pending"}
        /\ callAt' = CASE callAt = "handle" -> "open" [] callAt = "openAt" -> "pending" [] OTHER -> "resolved"
        /\ b'.open = b.open /\ b'.want = b.want /\ b'.connecting = b.connecting /\ UNCHANGED <<query, calls>>
    BY <1>0, <1>2 DEF SetHandle, SetOpenAt, SetPending, Assign, CallMove, stack, Fields
  <2> QED
    BY <1>1, <2>1 DEF AttemptInv, Outstanding, Known, Answering
<1>3. CASE SetOpen
  <2>1. /\ callAt = "open" /\ callAt' = "openAt" /\ UNCHANGED <<query, calls>>
        /\ b'.open /\ b'.want = b.want /\ b'.connecting = b.connecting
    BY <1>0, <1>3 DEF SetOpen, Assign, CallMove, stack, Fields
  <2> QED
    BY <1>1, <2>1 DEF AttemptInv, Outstanding, Known, Answering
<1>4. CASE SetFailed \/ SetLost
  <2>1. /\ callAt \in {"failed", "lost"} /\ callAt' = "resolved" /\ UNCHANGED <<query, calls>>
        /\ b'.open = b.open /\ b'.connecting = b.connecting /\ (b'.want \/ (~b.connecting /\ b'.want = b.want))
    BY <1>0, <1>4 DEF SetFailed, SetLost, WantAgain, Assign, CallMove, stack, Fields
  <2>2. b.connecting
    BY <2>1 DEF AttemptInv, Answering
  <2> QED
    BY <1>1, <2>1, <2>2 DEF AttemptInv, Outstanding, Known, Answering
<1>5. CASE SetResolved
  <2>1. /\ callAt = "resolved" /\ callAt' = "idle" /\ UNCHANGED <<query, calls>>
        /\ b'.open = b.open /\ ~b'.connecting /\ b'.want = b.want
    BY <1>0, <1>5 DEF SetResolved, Assign, CallMove, stack, Fields
  <2> QED
    BY <1>1, <2>1 DEF AttemptInv, Outstanding, Known, Answering
<1>6. CASE CheckOurs
  <2>1. callAt = "ours?" /\ callAt' \in {"close", "idle"} /\ UNCHANGED <<b, query, calls>>
    BY <1>6 DEF CheckOurs, Assign, CallMove, stack
  <2> QED
    BY <1>1, <2>1 DEF AttemptInv, Outstanding, Known, Answering
<1>7. CASE SetClosed \/ ForgetHandle
  <2>1. /\ callAt \in {"close", "forget"} /\ callAt' \in {"forget", "again"} /\ UNCHANGED <<query, calls>>
        /\ b'.connecting = b.connecting /\ b'.want = b.want
    BY <1>0, <1>7 DEF SetClosed, ForgetHandle, Assign, CallMove, stack, Fields
  <2> QED
    BY <1>1, <2>1 DEF AttemptInv, Outstanding, Known, Answering
<1>8. CASE SetAgain
  <2>1. /\ callAt = "again" /\ callAt' = "idle" /\ UNCHANGED <<query, calls>>
        /\ b'.open = b.open /\ b'.connecting = b.connecting /\ b'.want
    BY <1>0, <1>8 DEF SetAgain, Assign, CallMove, stack, Fields
  <2> QED
    BY <1>1, <2>1 DEF AttemptInv, Outstanding, Known, Answering
<1>9. CASE CheckFound \/ CheckLost
  <2>1. /\ callAt \in {"found?", "lost?"} /\ UNCHANGED <<b, query, calls>>
        /\ callAt' \in IF b.connecting THEN {"found", "lost"} ELSE {"idle"}
    BY <1>9 DEF CheckFound, CheckLost, Assign, CallMove, stack
  <2> QED
    BY <1>1, <2>1 DEF AttemptInv, Outstanding, Known, Answering
<1>10. CASE ConnectFound
  <2>1. callAt = "found" /\ callAt' = "idle" /\ UNCHANGED query
    BY <1>10 DEF ConnectFound, CallMove
  <2>2. b.connecting /\ ~query /\ calls = 0
    BY <1>0, <2>1 DEF AttemptInv, Outstanding, Answering
  <2>3. b'.open = b.open /\ b'.connecting = b.connecting /\ b'.want = b.want /\ calls' = calls + 1
    BY <1>0, <1>10, <2>2 DEF ConnectFound, Fields
  <2> QED
    BY <1>1, <2>1, <2>2, <2>3 DEF AttemptInv, Outstanding, Known, Answering
<1> QED
  BY <1>2, <1>3, <1>4, <1>5, <1>6, <1>7, <1>8, <1>9, <1>10 DEF Handler

LEMMA AttemptStep == TypeOK /\ (~late => AttemptInv) /\ [Work]_vars => (~late => AttemptInv)'
<1> SUFFICES ASSUME TypeOK, ~late => AttemptInv, [Work]_vars, ~late' PROVE AttemptInv'
  OBVIOUS
<1>1. AttemptInv
  BY DEF Work, LoopTask, ReadNow, CheckConnecting, CheckAge, Expire, GiveUp, Scan, Take, Claim, StartAttempt,
         CheckPending, CheckOpen, ReadClock, CheckSettled, ClearPending, WriteHandshake,
         Events, DiscoveryFound, DiscoveryFailed, OpenOk, OpenFailed, Dies, Close, Event,
         Handler, SetHandle, SetOpen, SetOpenAt, SetPending, SetFailed, SetResolved, CheckOurs, SetClosed,
         ForgetHandle, SetAgain, CheckFound, CheckLost, SetLost, ConnectFound, Assign, Tick, history, vars
<1>2. CASE Tick \/ UNCHANGED vars
  BY <1>1, <1>2 DEF Tick, vars, stack, AttemptInv, Outstanding, Known
<1> QED
  BY <1>1, <1>2, AttemptLoop, AttemptEvents, AttemptHandler DEF Work

-----------------------------------------------------------------------------
(* The age of an attempt.                                                  *)

\* uint32_t subtraction gives the time between two readings of millis(), whether it
\* wrapped in between or not, as long as that time is below the wrap.
LEMMA SinceIsElapsed ==
  ASSUME NEW c \in Millis, NEW s \in 0..MaxTicks, NEW t \in s..MaxTicks
  PROVE  Since(After(c, t), After(c, s)) = t - s
<1> DEFINE x == After(c, t)
           y == After(c, s)
<1>1. /\ c \in Nat /\ c < Wrap /\ s \in Nat /\ t \in Nat /\ s <= t /\ t < Wrap /\ Wrap \in Nat
  BY Constants DEF Millis
<1>2. /\ x = IF c + t < Wrap THEN c + t ELSE c + t - Wrap
      /\ y = IF c + s < Wrap THEN c + s ELSE c + s - Wrap
  BY <1>1, ModSmall DEF After
<1> HIDE DEF x, y
<1>3. x + Wrap - y = (t - s) + Wrap \/ x + Wrap - y = t - s
  BY <1>1, <1>2
<1>4. ((t - s) + Wrap) % Wrap = t - s /\ (t - s) % Wrap = t - s
  BY <1>1, ModSmall
<1>5. (x + Wrap - y) % Wrap = t - s
  BY <1>3, <1>4
<1> QED
  BY <1>5 DEF Since, x, y

\* One tick later millis() is one further on, modulo the wrap.
LEMMA AfterNext ==
  ASSUME NEW c \in Millis, NEW t \in 0..MaxTicks
  PROVE  (After(c, t) + 1) % Wrap = After(c, t + 1)
<1> DEFINE x == After(c, t)
<1>1. /\ c \in Nat /\ c < Wrap /\ t \in Nat /\ t < Wrap /\ t + 1 < Wrap /\ Wrap \in Nat
  BY Constants DEF Millis
<1>2. x = IF c + t < Wrap THEN c + t ELSE c + t - Wrap
  BY <1>1, ModSmall DEF After
<1>3. After(c, t + 1) = IF c + t + 1 < Wrap THEN c + t + 1 ELSE c + t + 1 - Wrap
  BY <1>1, ModSmall DEF After
<1> HIDE DEF x
<1>4. x \in Nat /\ x < Wrap
  BY <1>1, <1>2
<1>5. (x + 1) % Wrap = IF x + 1 < Wrap THEN x + 1 ELSE x + 1 - Wrap
  BY <1>4, ModNext
<1>6. (x + 1) % Wrap = After(c, t + 1)
  BY <1>1, <1>2, <1>3, <1>5
<1> QED
  BY <1>6 DEF x

\* A step that neither reads the clock nor starts an attempt.
LEMMA TimedKept ==
  ASSUME NEW c, NEW t, NEW s, Timed(c, t, s), UNCHANGED <<clock, ticks, now, began>>,
         b'.started = b.started, restarted => restarted', Judging' => Judging,
         loopAt' = "expire" => loopAt = "expire", loopAt = "manage" => loopAt' = "manage",
         loopAt' # "manage" /\ "loop" \in slow => "loop" \in slow'
  PROVE  Timed(c, t, s)'
BY DEF Timed

LEMMA TimeLoop ==
  ASSUME TypeOK, TimeInv, LoopTask
  PROVE  TimeInv'
<1> PICK c \in Millis, t \in 0..MaxTicks, s \in 0..MaxTicks : Timed(c, t, s)
  BY DEF TimeInv
<1>0. b \in Fields /\ ticks \in 0..MaxTicks /\ began \in 0..MaxTicks
  BY DEF TypeOK
<1>1. Timed(c, t, s)' => TimeInv'
  BY DEF TimeInv
<1>2. CASE ReadNow \/ ReadClock
  <2>1. /\ b' = b /\ now' = clock /\ UNCHANGED <<clock, ticks, began, restarted>>
        /\ loopAt \in {"manage", "clock"} /\ loopAt' \in {"connecting?", "settled?"}
    BY <1>2 DEF ReadNow, ReadClock, LoopMove, history
  <2>2. s <= ticks
    BY <1>0 DEF Timed
  <2>3. Timed(c, ticks, s)'
    BY <1>0, <2>1, <2>2 DEF Timed, Judging
  <2> QED
    BY <1>0, <2>1, <2>3 DEF TimeInv
<1>3. CASE StartAttempt
  <2>1. /\ b'.started = now /\ began' = ticks /\ UNCHANGED <<clock, ticks, now>>
        /\ loopAt = "start" /\ loopAt' = "pending?" /\ slow' = slow
    BY <1>0, <1>3 DEF StartAttempt, LoopMove, Fields
  <2>2. Timed(c, t, t)'
    BY <1>0, <2>1 DEF Timed
  <2> QED
    BY <2>2 DEF TimeInv
<1>4. CASE CheckConnecting
  <2>1. /\ b' = b /\ UNCHANGED <<clock, ticks, now, began, restarted>> /\ slow' = slow
        /\ loopAt = "connecting?" /\ loopAt' = IF b.connecting THEN "age?" ELSE "scan"
    BY <1>4 DEF CheckConnecting, LoopMove, history
  <2>2. Judging' => Judging
    BY <2>1 DEF Judging
  <2> QED
    BY <1>1, <2>1, <2>2, TimedKept
<1>5. CASE CheckAge
  <2>1. /\ b' = b /\ UNCHANGED <<clock, ticks, now, began, restarted>> /\ slow' = slow
        /\ loopAt = "age?" /\ loopAt' = IF Since(now, b.started) > ConnectTimeout THEN "expire" ELSE "pending?"
    BY <1>5 DEF CheckAge, LoopMove, history
  <2>2. Judging
    BY <2>1 DEF Judging
  <2>3. CASE loopAt' = "pending?" \/ restarted
    BY <1>1, <2>1, <2>2, <2>3 DEF Timed
  <2>4. CASE loopAt' = "expire" /\ ~restarted
    <3>1. /\ b.started = After(c, s) /\ began \in {s, s + 1} /\ s <= t /\ t <= ticks
          /\ now = After(c, t) /\ Since(now, b.started) > ConnectTimeout
      BY <2>1, <2>2, <2>4 DEF Timed
    <3>2. t \in s..MaxTicks
      BY <3>1, Constants
    <3>3. t - s > ConnectTimeout
      BY <3>1, <3>2, SinceIsElapsed
    <3>4. ticks - began >= ConnectTimeout
      BY <1>0, <3>1, <3>3, Constants
    <3>5. Timed(c, t, s)'
      BY <2>1, <2>2, <3>4 DEF Timed
    <3> QED
      BY <1>1, <3>5
  <2> QED
    BY <2>1, <2>3, <2>4
<1>6. CASE Expire \/ GiveUp \/ Take \/ Claim \/ ClearPending
  <2>1. /\ b'.started = b.started /\ UNCHANGED <<clock, ticks, now, began, restarted>>
        /\ loopAt' # "expire" /\ loopAt' # "manage" /\ loopAt # "manage" /\ slow' = slow
    BY <1>0, <1>6 DEF Expire, WantAgain, GiveUp, Take, Claim, ClearPending, LoopMove, history, Fields
  <2>2. Judging' => Judging
    BY <1>0, <1>6 DEF Expire, WantAgain, GiveUp, Take, Claim, ClearPending, LoopMove, Fields, Judging
  <2> QED
    BY <1>1, <2>1, <2>2, TimedKept
<1>7. CASE Scan \/ CheckPending \/ CheckOpen \/ CheckSettled \/ WriteHandshake
  <2>1. /\ b' = b /\ UNCHANGED <<clock, ticks, now, began, restarted>>
        /\ loopAt \notin {"manage", "start"} /\ loopAt' \notin {"expire", "age?", "giveUp", "start"}
        /\ loopAt' # "manage" => slow' = slow
    BY <1>7 DEF Scan, CheckPending, CheckOpen, CheckSettled, WriteHandshake, LoopMove, history
  <2>2. Judging' => Judging
    BY <2>1 DEF Judging
  <2> QED
    BY <1>1, <2>1, <2>2, TimedKept
<1> QED
  BY <1>2, <1>3, <1>4, <1>5, <1>6, <1>7 DEF LoopTask

LEMMA TimeHandler ==
  ASSUME TypeOK, TimeInv, Handler
  PROVE  TimeInv'
<1> PICK c \in Millis, t \in 0..MaxTicks, s \in 0..MaxTicks : Timed(c, t, s)
  BY DEF TimeInv
<1>0. b \in Fields
  BY DEF TypeOK
<1>1. UNCHANGED <<clock, ticks, now, loopAt>> /\ ("loop" \in slow => "loop" \in slow')
  BY DEF Handler, SetHandle, SetOpen, SetOpenAt, SetPending, SetFailed, SetResolved, CheckOurs, SetClosed,
         ForgetHandle, SetAgain, CheckFound, CheckLost, SetLost, ConnectFound, Assign, CallMove
<1>2. CASE ConnectFound
  BY <1>1, <1>2 DEF ConnectFound, Timed, TimeInv
<1>3. CASE SetHandle \/ SetOpen \/ SetOpenAt \/ SetPending \/ SetFailed \/ SetResolved \/ SetLost
  <2>1. /\ b'.started = b.started /\ (b'.connecting => b.connecting) /\ UNCHANGED <<began, restarted>>
    BY <1>0, <1>3 DEF SetHandle, SetOpen, SetOpenAt, SetPending, SetFailed, SetResolved, SetLost, WantAgain,
                      Assign, history, Fields
  <2>2. Judging' => Judging
    BY <1>1, <2>1 DEF Judging
  <2>3. Timed(c, t, s)'
    BY <1>1, <2>1, <2>2, TimedKept
  <2> QED
    BY <2>3 DEF TimeInv
<1>4. CASE CheckOurs \/ SetClosed \/ ForgetHandle \/ SetAgain \/ CheckFound \/ CheckLost
  <2>1. /\ b'.started = b.started /\ (b'.connecting => b.connecting) /\ UNCHANGED <<began, restarted>>
    BY <1>0, <1>4 DEF CheckOurs, SetClosed, ForgetHandle, SetAgain, CheckFound, CheckLost, Assign, history, Fields
  <2>2. Judging' => Judging
    BY <1>1, <2>1 DEF Judging
  <2>3. Timed(c, t, s)'
    BY <1>1, <2>1, <2>2, TimedKept
  <2> QED
    BY <2>3 DEF TimeInv
<1> QED
  BY <1>2, <1>3, <1>4 DEF Handler

LEMMA TimeTick ==
  ASSUME TypeOK, TimeInv, Tick
  PROVE  TimeInv'
<1> PICK c \in Millis, t \in 0..MaxTicks, s \in 0..MaxTicks : Timed(c, t, s)
  BY DEF TimeInv
<1>1. /\ ticks \in 0..MaxTicks /\ began \in 0..MaxTicks /\ ticks' = ticks + 1
      /\ clock' = (clock + 1) % Wrap /\ slow' = Running
      /\ UNCHANGED <<b, loopAt, now, began, restarted>>
  BY DEF TypeOK, Tick, history
<1>2. clock' = After(c, ticks')
  BY <1>1, AfterNext DEF Timed
<1>3. loopAt # "manage" => ticks = t /\ "loop" \in slow'
  BY <1>1 DEF Timed, Tick, Running
<1>4. ~restarted /\ loopAt = "expire" => ticks' - began >= ConnectTimeout
  BY <1>1, Constants DEF Timed
<1>5. s <= t /\ t <= ticks'
  BY <1>1 DEF Timed
<1>6. Timed(c, t, s)'
  BY <1>1, <1>2, <1>3, <1>4, <1>5 DEF Timed, Judging
<1> QED
  BY <1>6 DEF TimeInv

LEMMA TimeStep == TypeOK /\ TimeInv /\ [Work]_vars => TimeInv'
<1>1. TimeInv /\ UNCHANGED <<clock, ticks, slow, b, loopAt, now, began, restarted>> => TimeInv'
  BY DEF TimeInv, Timed, Judging
<1>2. Events \/ UNCHANGED vars => UNCHANGED <<clock, ticks, slow, b, loopAt, now, began, restarted>>
  BY DEF Events, DiscoveryFound, DiscoveryFailed, OpenOk, OpenFailed, Dies, Close, Event, vars, history
<1> QED
  BY <1>1, <1>2, TimeLoop, TimeHandler, TimeTick DEF Work

-----------------------------------------------------------------------------
(* The theorems.                                                           *)

LEMMA RaceInit == Init => RaceInv
<1> SUFFICES ASSUME Init PROVE RaceInv
  OBVIOUS
<1>1. PICK fixed \in Configured : b = Constructed(fixed)
  BY DEF Init
<1>2. ~b.open /\ b.want /\ ~b.connecting
  BY <1>1 DEF Constructed
<1>3. LinkInv /\ GreetInv /\ AttemptInv
  BY <1>2 DEF Init, LinkInv, GreetInv, AttemptInv, Outstanding, Known, Answering
<1>4. TimeInv
  <2>1. clock \in Millis /\ clock \in Nat /\ clock < Wrap
    BY Constants DEF Init, Millis
  <2>2. clock = After(clock, 0)
    <3>1. clock + 0 = clock /\ clock < 2 * Wrap
      BY <2>1, Constants
    <3>2. clock % Wrap = clock
      BY <2>1, <3>1, ModSmall
    <3> QED
      BY <3>1, <3>2 DEF After
  <2>3. 0 \in 0..MaxTicks
    BY Constants
  <2>4. Timed(clock, 0, 0)
    BY <1>2, <2>2, <2>3 DEF Init, Timed, Judging
  <2> QED
    BY <2>1, <2>3, <2>4 DEF TimeInv
<1> QED
  BY <1>3, <1>4, TypeInit DEF RaceInv

\* Between any two accesses of the two tasks.
THEOREM RaceCorrect == Spec => []RaceInv
<1>1. RaceInv /\ [Work]_vars => RaceInv'
  BY TypeStep, LinkStep, GreetStep, AttemptStep, TimeStep DEF RaceInv
<1>2. Init' => RaceInv'
  BY RaceInit, PTL
<1>3. RaceInv /\ [Next]_vars => RaceInv'
  BY <1>1, <1>2, RebootInit DEF Next, Fault
<1> QED
  BY <1>3, RaceInit, PTL DEF Spec

\* What the bridge takes for its open link is the newest one, and it is up.
THEOREM LinkIsNewest == Spec => []NewestLink
<1>1. RaceInv => NewestLink
  BY DEF RaceInv, LinkInv, Newest, NewestLink
<1> QED
  BY <1>1, RaceCorrect, PTL

\* No interleaving passes over the handshake of an open link: it is pending, or the
\* stack was given it and sent or refused it.
THEOREM HandshakeHasItsTurn == Spec => []HandshakeTried
<1>1. RaceInv => HandshakeTried
  BY DEF RaceInv, GreetInv, Greeted, HandshakeTried
<1> QED
  BY <1>1, RaceCorrect, PTL

\* No interleaving makes the bridge forget the device, before an attempt is given up
\* unanswered.
THEOREM DeviceKept == Spec => []NotForgotten
<1>1. RaceInv => NotForgotten
  BY DEF RaceInv, AttemptInv, Known, NotForgotten
<1> QED
  BY <1>1, RaceCorrect, PTL

\* An attempt gets its whole timeout, to the tick, across a wrap of millis().
THEOREM BudgetIsFull == Spec => FullBudget
<1>1. RaceInv /\ [Next]_vars => [loopAt = "expire" /\ ~restarted => ticks - began >= ConnectTimeout]_loopAt
  BY DEF RaceInv, TimeInv, Timed
<1> QED
  BY <1>1, RaceCorrect, PTL DEF Spec, FullBudget
=============================================================================
