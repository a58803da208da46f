------------------------ MODULE SppConnectionProofs ------------------------
(***************************************************************************)
(* Theorems about SppConnection, for any number of connections and tasks.  *)
(* What a connected host can rely on whatever its callers do is proved for *)
(* every behaviour; the rest for callers of start and stop that take       *)
(* turns.  Then there is one background task at a time, and it alone has   *)
(* the writer.                                                             *)
(***************************************************************************)
EXTENDS SppConnection, TLAPS

RunRecord == [at : {"none", "new", "dial", "greet", "read", "closing", "backoff", "done"},
              conn : 0..Conns, then : {"backoff", "done"},
              backoff : 1..MaxBackoff, cancelled : BOOLEAN]

\* A task that has a connection to itself.
HasConn(t) == run[t].at \in {"greet", "read"}

\* Every live task is the object's own, or the one a stop waits for.
OneTask ==
  /\ \A t \in Task : ~Finished(t) => t = task \/ (stopping.at = "joining" /\ t = stopping.target)
  /\ stopping.at # "idle" => task = 0
  /\ wanted <=> task # 0
  /\ \A t \in Task : run[t].cancelled => ~Finished(t) /\ stopping.at = "joining" /\ t = stopping.target

\* The writer is the connection of the task that greets or reads, or one that on_state
\* made _close keep, which a stop or the next loop still finds.
OneWriter ==
  /\ \A t \in Task : HasConn(t) => writer # 0 /\ run[t].conn = writer
  /\ writer # 0 =>
       /\ (\E t \in Task : HasConn(t)) \/ (writer \in left /\ ~connected)
       /\ task # 0 \/ stopping.at = "joining"
  /\ \A t \in Task : run[t].at = "greet" => ~connected

\* A loop whose callbacks never raise does not end by itself.
Unending ==
  may \cap {"raise", "state"} = {} /\ task # 0 =>
    /\ ~Finished(task)
    /\ run[task].at = "closing" => run[task].then = "backoff"

TurnInv == OneTask /\ OneWriter /\ NoLeak /\ Unending

ConnInv ==
  /\ TypeOK
  /\ connected => writer # 0
  /\ InTurn => TurnInv

-----------------------------------------------------------------------------
(* What the steps do.                                                      *)

LEMMA Constants ==
  /\ Conns \in Nat \ {0} /\ Tasks \in Nat \ {0} /\ MaxBackoff \in Nat \ {0}
  /\ \A s \in Situations : s \subseteq Troubles
BY BoundsAssumption

\* The backoff doubles up to its maximum.
LEMMA DoubledType ==
  ASSUME NEW b \in 1..MaxBackoff
  PROVE  Doubled(b) \in 1..MaxBackoff
<1> DEFINE S == {2 * b, MaxBackoff}
<1>1. \E x \in S : \A y \in S : x <= y
  BY Constants
<1>2. Min(S) \in S /\ \A y \in S : Min(S) <= y
  BY <1>1 DEF Min
<1>3. 2 * b \in Nat /\ 2 * b >= 1 /\ MaxBackoff \in Nat /\ MaxBackoff >= 1
  BY Constants
<1> QED
  BY <1>2, <1>3 DEF Doubled

\* What leaves a try block does in the end: it closes, or on_state raises.
Leaves(t, then) == Closes(t, then) \/ CloseRaises(t)

LEMMA UnwindLeaves ==
  ASSUME NEW t, NEW then
  PROVE  /\ Unwind(t, then) => Leaves(t, then)
         /\ StateRaises(t) => "state" \in may /\ (Leaves(t, "done") \/ Leaves(t, "backoff"))
BY DEF Unwind, StateRaises, Leaves

\* A task that closes what it had forgets a cancellation.
LEMMA ClosesFacts ==
  ASSUME TypeOK, NEW t \in Task, NEW then \in {"backoff", "done"}, Closes(t, then)
  PROVE  /\ connected' = FALSE /\ writer' = 0 /\ closing' = closing \cup ({writer} \ {0})
         /\ left' = left \ {writer}
         /\ UNCHANGED <<task, stopping, drain, peer, unsent, wanted, may>>
         /\ run' \in [Task -> RunRecord]
         /\ run'[t].at = (IF writer = 0 THEN then ELSE "closing")
         /\ run'[t].then = then /\ run'[t].cancelled = FALSE
         /\ \A u \in Task \ {t} : run'[u] = run[u]
<1>1. run \in [Task -> RunRecord] /\ writer \in 0..Conns
  BY DEF TypeOK, RunRecord
<1>2. run' = [run EXCEPT ![t] = [run[t] EXCEPT !.at = IF writer = 0 THEN then ELSE "closing",
                                               !.conn = writer, !.then = then, !.cancelled = FALSE]]
  BY <1>1 DEF Closes, RunRecord
<1>3. run[t] \in RunRecord
  BY <1>1
<1>4. /\ run'[t] \in RunRecord
      /\ run'[t].at = (IF writer = 0 THEN then ELSE "closing")
      /\ run'[t].then = then /\ run'[t].cancelled = FALSE
  BY <1>1, <1>2, <1>3 DEF RunRecord
<1>5. run' \in [Task -> RunRecord] /\ \A u \in Task \ {t} : run'[u] = run[u]
  BY <1>1, <1>2, <1>4
<1> QED
  BY <1>4, <1>5 DEF Closes, DropLink

\* One whose on_state raises meanwhile ends, and the writer stays.
LEMMA RaisesFacts ==
  ASSUME TypeOK, NEW t \in Task, CloseRaises(t)
  PROVE  /\ "state" \in may
         /\ connected' = FALSE /\ left' = left \cup ({writer} \ {0})
         /\ UNCHANGED <<writer, closing, task, stopping, drain, peer, unsent, wanted, may>>
         /\ run' \in [Task -> RunRecord]
         /\ run'[t].at = "done" /\ run'[t].cancelled = FALSE
         /\ \A u \in Task \ {t} : run'[u] = run[u]
<1>1. run \in [Task -> RunRecord] /\ run[t] \in RunRecord /\ 0 \in 0..Conns
  BY Constants DEF TypeOK, RunRecord
<1>2. run' = [run EXCEPT ![t] = [run[t] EXCEPT !.at = "done", !.conn = 0, !.cancelled = FALSE]]
  BY <1>1 DEF CloseRaises, RunRecord
<1>3. [run[t] EXCEPT !.at = "done", !.conn = 0, !.cancelled = FALSE] \in RunRecord
  BY <1>1 DEF RunRecord
<1>4. /\ run' \in [Task -> RunRecord]
      /\ run'[t].at = "done" /\ run'[t].cancelled = FALSE
      /\ \A u \in Task \ {t} : run'[u] = run[u]
  BY <1>1, <1>2, <1>3 DEF RunRecord
<1> QED
  BY <1>4 DEF CloseRaises, KeepLink

-----------------------------------------------------------------------------
(* Type correctness.                                                       *)

LEMMA UnwindType ==
  ASSUME TypeOK, NEW t \in Task, NEW then \in {"backoff", "done"}, Leaves(t, then)
  PROVE  TypeOK'
<1>1. writer \in 0..Conns /\ closing \subseteq Conn /\ left \subseteq Conn /\ FALSE \in BOOLEAN
  BY DEF TypeOK
<1>2. CASE Closes(t, then)
  <2>1. /\ connected' = FALSE /\ writer' = 0 /\ closing' = closing \cup ({writer} \ {0})
        /\ left' = left \ {writer}
        /\ UNCHANGED <<task, stopping, drain, peer, unsent, wanted, may>>
        /\ run' \in [Task -> RunRecord]
    BY <1>2, ClosesFacts
  <2>2. closing' \subseteq Conn /\ left' \subseteq Conn /\ writer' \in 0..Conns
    BY <1>1, <2>1, Constants DEF Conn
  <2> QED
    BY <2>1, <2>2 DEF TypeOK, RunRecord
<1>3. CASE CloseRaises(t)
  <2>1. /\ connected' = FALSE /\ left' = left \cup ({writer} \ {0})
        /\ UNCHANGED <<writer, closing, task, stopping, drain, peer, unsent, wanted, may>>
        /\ run' \in [Task -> RunRecord]
    BY <1>3, RaisesFacts
  <2>2. left' \subseteq Conn
    BY <1>1, <2>1, Constants DEF Conn
  <2> QED
    BY <2>1, <2>2 DEF TypeOK, RunRecord
<1> QED
  BY <1>2, <1>3 DEF Leaves

\* What a step may write into a task's record.
LEMMA RecordUpdates ==
  ASSUME NEW r \in RunRecord, NEW a \in {"none", "new", "dial", "greet", "read", "closing", "backoff", "done"},
         NEW c \in 0..Conns
  PROVE  /\ [r EXCEPT !.at = a] \in RunRecord
         /\ [r EXCEPT !.at = a, !.conn = c] \in RunRecord
         /\ [r EXCEPT !.at = a, !.conn = c, !.backoff = 1] \in RunRecord
         /\ [r EXCEPT !.at = a, !.conn = c, !.cancelled = FALSE] \in RunRecord
<1>1. 1 \in 1..MaxBackoff /\ FALSE \in BOOLEAN
  BY Constants
<1>2. [r EXCEPT !.at = a] \in RunRecord /\ [r EXCEPT !.at = a, !.conn = c] \in RunRecord
  BY DEF RunRecord
<1>3. [r EXCEPT !.at = a, !.conn = c, !.backoff = 1] \in RunRecord
  BY <1>1 DEF RunRecord
<1>4. [r EXCEPT !.at = a, !.conn = c, !.cancelled = FALSE] \in RunRecord
  BY <1>1 DEF RunRecord
<1> QED
  BY <1>2, <1>3, <1>4

LEMMA IdleType == Idle \in RunRecord
BY Constants DEF Idle, RunRecord

\* A step that changes run alone keeps the types if run keeps its own.
LEMMA RunType ==
  ASSUME TypeOK, run' \in [Task -> RunRecord], UNCHANGED <<fields, stopping, drain, net, wanted, may>>
  PROVE  TypeOK'
BY DEF TypeOK, RunRecord, fields, net

LEMMA TypeCallers == TypeOK /\ (Start \/ Stop \/ Joined \/ StopDone \/ Send \/ SendDone) => TypeOK'
<1> SUFFICES ASSUME TypeOK, Start \/ Stop \/ Joined \/ StopDone \/ Send \/ SendDone PROVE TypeOK'
  OBVIOUS
<1>0. run \in [Task -> RunRecord] /\ writer \in 0..Conns /\ closing \subseteq Conn /\ unsent \subseteq Conn
      /\ left \subseteq Conn
      /\ stopping \in [at : {"idle", "joining", "closing"}, target : 0..Tasks, conn : 0..Conns]
  BY DEF TypeOK, RunRecord
<1>1. CASE Start
  <2>1. PICK t \in Task : task' = t /\ run' = [run EXCEPT ![t] = [Idle EXCEPT !.at = "new"]]
    BY <1>1 DEF Start, First
  <2>2. [Idle EXCEPT !.at = "new"] \in RunRecord
    <3>1. 0 \in 0..Conns
      BY Constants
    <3> QED
      BY <3>1, IdleType, RecordUpdates
  <2>3. run' \in [Task -> RunRecord] /\ task' \in 0..Tasks
    BY <1>0, <2>1, <2>2, Constants DEF Task
  <2> QED
    BY <1>1, <2>3 DEF Start, TypeOK, RunRecord, net
<1>2. StopCloses => /\ connected' = FALSE /\ writer' \in 0..Conns
                    /\ closing' \subseteq Conn /\ left' \subseteq Conn
                    /\ stopping' \in [at : {"idle", "joining", "closing"}, target : 0..Tasks, conn : 0..Conns]
  <2> SUFFICES ASSUME StopCloses
               PROVE  /\ connected' = FALSE /\ writer' \in 0..Conns
                      /\ closing' \subseteq Conn /\ left' \subseteq Conn
                      /\ stopping' \in [at : {"idle", "joining", "closing"}, target : 0..Tasks, conn : 0..Conns]
    OBVIOUS
  <2>1. CASE DropLink /\ stopping' = [at |-> IF writer = 0 THEN "idle" ELSE "closing",
                                     target |-> 0, conn |-> writer]
    BY <1>0, <2>1, Constants DEF DropLink, Conn
  <2>2. CASE KeepLink /\ stopping' = [at |-> "idle", target |-> 0, conn |-> 0]
    <3>1. /\ connected' = FALSE /\ writer' = writer /\ closing' = closing
          /\ left' = left \cup ({writer} \ {0})
      BY <2>2 DEF KeepLink
    <3>2. 0 \in 0..Tasks /\ 0 \in 0..Conns
      BY Constants
    <3> QED
      BY <1>0, <2>2, <3>1, <3>2 DEF Conn
  <2> QED
    BY <2>1, <2>2 DEF StopCloses
<1>3. CASE Stop
  <2>1. CASE ~Running /\ StopCloses /\ UNCHANGED run
    <3>1. wanted' = FALSE /\ connected' = FALSE /\ task' = 0 /\ 0 \in 0..Tasks
      BY <1>2, <1>3, <2>1, Constants DEF Stop
    <3>2. UNCHANGED <<run, drain, peer, unsent, may>>
      BY <1>3, <2>1 DEF Stop
    <3> QED
      BY <1>0, <1>2, <2>1, <3>1, <3>2 DEF TypeOK, RunRecord
  <2>2. CASE /\ Running
             /\ run' = [run EXCEPT ![task].cancelled = TRUE]
             /\ stopping' = [at |-> "joining", target |-> task, conn |-> 0]
             /\ UNCHANGED <<writer, connected, closing, left>>
    <3>1. task \in Task
      BY <2>2 DEF TypeOK, Running, Task
    <3>2. run' \in [Task -> RunRecord]
      BY <1>0, <2>2, <3>1 DEF RunRecord
    <3>3. stopping' \in [at : {"idle", "joining", "closing"}, target : 0..Tasks, conn : 0..Conns]
      BY <2>2, Constants DEF TypeOK
    <3>4. wanted' = FALSE /\ connected' = connected /\ task' = 0 /\ 0 \in 0..Tasks
      BY <1>3, <2>2, Constants DEF Stop
    <3>6. wanted' \in BOOLEAN /\ connected' \in BOOLEAN
      BY <3>4 DEF TypeOK
    <3>5. UNCHANGED <<writer, closing, left, drain, peer, unsent, may>>
      BY <1>3, <2>2 DEF Stop
    <3> QED
      BY <3>2, <3>3, <3>4, <3>5, <3>6 DEF TypeOK, RunRecord
  <2> QED
    BY <1>3, <2>1, <2>2 DEF Stop
<1>4. CASE Joined
  BY <1>2, <1>4 DEF Joined, TypeOK
<1>5. CASE StopDone
  BY <1>5, Constants DEF StopDone, TypeOK, fields, net
<1>6. CASE Send
  <2>1. writer \in Conn /\ drain' = writer /\ unsent' = unsent \cup {c \in {writer} : peer[c] = "stuck"}
    BY <1>0, <1>6 DEF Send, Conn
  <2> QED
    <3>1. unsent' \subseteq Conn /\ drain' \in 0..Conns
      BY <1>0, <2>1 DEF Conn
    <3> QED
      BY <1>6, <3>1 DEF Send, TypeOK, fields
<1>7. CASE SendDone
  BY <1>7, Constants DEF SendDone, TypeOK, fields, net
<1> QED
  BY <1>1, <1>3, <1>4, <1>5, <1>6, <1>7

LEMMA TypeTask == ASSUME TypeOK, NEW t \in Task, TaskStep(t) PROVE TypeOK'
<1>0. run \in [Task -> RunRecord] /\ writer \in 0..Conns /\ run[t] \in RunRecord
  BY DEF TypeOK, RunRecord
<1>a. run[t].then \in {"backoff", "done"} /\ 0 \in 0..Conns
  BY <1>0, Constants DEF RunRecord
<1>1. CASE Begin(t)
  <2>1. run' \in [Task -> RunRecord]
    BY <1>0, <1>1 DEF Begin, RunRecord
  <2> QED
    BY <1>1, <2>1, RunType DEF Begin
<1>2. CASE DialOk(t)
  <2>1. PICK c \in Conn : /\ writer' = c
                          /\ peer' = [peer EXCEPT ![c] = "live"]
                          /\ run' = [run EXCEPT ![t].at = "greet", ![t].conn = c]
    BY <1>2 DEF DialOk, First
  <2>2. c \in 0..Conns
    BY Constants DEF Conn
  <2>a. run' = [run EXCEPT ![t] = [run[t] EXCEPT !.at = "greet", !.conn = c]]
    BY <1>0, <2>1
  <2>b. run' \in [Task -> RunRecord]
    BY <1>0, <2>2, <2>a, RecordUpdates
  <2>3. peer' \in [Conn -> {"none", "live", "mute", "stuck", "eof"}]
    BY <2>1 DEF TypeOK
  <2> QED
    BY <1>2, <2>1, <2>2, <2>b, <2>3 DEF DialOk, TypeOK, RunRecord
<1>3. CASE DialFails(t) \/ GreetFails(t) \/ ReadFails(t) \/ Stale(t) \/ CallbackRaises(t)
  BY <1>3, UnwindLeaves, UnwindType DEF DialFails, GreetFails, ReadFails, Stale, CallbackRaises
<1>4. CASE GreetOk(t)
  <2>1. CASE Unwind(t, "done")
    BY <2>1, UnwindLeaves, UnwindType
  <2>2. CASE /\ writer # 0 /\ connected' = TRUE
             /\ run' = [run EXCEPT ![t].at = "read", ![t].conn = writer, ![t].backoff = 1]
             /\ UNCHANGED <<task, writer, stopping, drain, net, wanted, may>>
    <3>1. run' = [run EXCEPT ![t] = [run[t] EXCEPT !.at = "read", !.conn = writer, !.backoff = 1]]
      BY <1>0, <2>2
    <3>2. run' \in [Task -> RunRecord]
      BY <1>0, <3>1, RecordUpdates
    <3> QED
      BY <2>2, <3>2 DEF TypeOK, RunRecord, net
  <2> QED
    BY <1>4, <2>1, <2>2 DEF GreetOk
<1>5. CASE ReadChunk(t)
  <2>1. CASE Unwind(t, "done")
    BY <2>1, UnwindLeaves, UnwindType
  <2>2. CASE /\ run' = [run EXCEPT ![t].conn = writer]
             /\ UNCHANGED <<fields, stopping, drain, net, wanted, may>>
    <3>1. run' \in [Task -> RunRecord]
      BY <1>0, <2>2 DEF RunRecord
    <3> QED
      BY <2>2, <3>1, RunType
  <2> QED
    BY <1>5, <2>1, <2>2 DEF ReadChunk
<1>6. CASE CloseDone(t)
  <2>1. run' = [run EXCEPT ![t] = [run[t] EXCEPT !.at = run[t].then, !.conn = 0]]
    BY <1>0, <1>6 DEF CloseDone
  <2>2. run' \in [Task -> RunRecord]
    BY <1>0, <1>a, <2>1, RecordUpdates
  <2> QED
    BY <1>6, <2>2, RunType DEF CloseDone
<1>7. CASE Wake(t)
  <2>1. Doubled(run[t].backoff) \in 1..MaxBackoff
    BY <1>0, DoubledType DEF RunRecord
  <2>2. run' \in [Task -> RunRecord]
    BY <1>0, <1>7, <2>1 DEF Wake, RunRecord
  <2> QED
    BY <1>7, <2>2, RunType DEF Wake
<1>8. CASE Cancelled(t)
  <2>1. CASE Unwind(t, "done")
    BY <2>1, UnwindLeaves, UnwindType
  <2>2. CASE /\ run' = [run EXCEPT ![t].at = "done", ![t].cancelled = FALSE]
             /\ UNCHANGED <<fields, stopping, drain, net, wanted, may>>
    <3>1. run' \in [Task -> RunRecord]
      BY <1>0, <2>2 DEF RunRecord
    <3> QED
      BY <2>2, <3>1, RunType
  <2>3. CASE /\ run' = [run EXCEPT ![t].at = run[t].then, ![t].conn = 0, ![t].cancelled = FALSE]
             /\ UNCHANGED <<fields, stopping, drain, net, wanted, may>>
    <3>1. run' = [run EXCEPT ![t] = [run[t] EXCEPT !.at = run[t].then, !.conn = 0, !.cancelled = FALSE]]
      BY <1>0, <2>3
    <3>2. run' \in [Task -> RunRecord]
      BY <1>0, <1>a, <3>1, RecordUpdates
    <3> QED
      BY <2>3, <3>2, RunType
  <2> QED
    BY <1>8, <2>1, <2>2, <2>3 DEF Cancelled
<1>9. CASE StateRaises(t)
  BY <1>9, UnwindLeaves, UnwindType
<1> QED
  BY <1>1, <1>2, <1>3, <1>4, <1>5, <1>6, <1>7, <1>8, <1>9 DEF TaskStep

LEMMA TypeNet ==
  ASSUME TypeOK, NEW c \in Conn,
         \/ Collected(c) \/ Flushed(c) \/ PeerMutes(c) \/ PeerSticks(c)
         \/ PeerResumes(c) \/ PeerDrops(c)
  PROVE  TypeOK'
<1>1. CASE Flushed(c)
  BY <1>1 DEF Flushed, TypeOK, fields
<1>3. CASE Collected(c)
  BY <1>3 DEF Collected, TypeOK, fields
<1>2. ASSUME NEW how \in {"mute", "stuck", "live", "eof"}, PeerTurns(c, how) PROVE TypeOK'
  BY <1>2 DEF PeerTurns, TypeOK, fields
<1> QED
  BY <1>1, <1>2, <1>3 DEF PeerMutes, PeerSticks, PeerResumes, PeerDrops

LEMMA TypeStep == TypeOK /\ [Next]_vars => TypeOK'
<1>1. TypeOK /\ UNCHANGED vars => TypeOK'
  BY DEF TypeOK, vars
<1> QED
  BY <1>1, TypeCallers, TypeTask, TypeNet DEF Next

LEMMA TypeInit == Init => TypeOK
<1> SUFFICES ASSUME Init PROVE TypeOK
  OBVIOUS
<1>1. Idle \in RunRecord
  BY Constants DEF Idle, RunRecord
<1>2. run \in [Task -> RunRecord]
  BY <1>1 DEF Init
<1>3. /\ task \in 0..Tasks /\ writer \in 0..Conns /\ drain \in 0..Conns
      /\ stopping \in [at : {"idle", "joining", "closing"}, target : 0..Tasks, conn : 0..Conns]
  BY Constants DEF Init
<1>4. /\ connected \in BOOLEAN /\ wanted \in BOOLEAN
      /\ peer \in [Conn -> {"none", "live", "mute", "stuck", "eof"}]
      /\ closing \subseteq Conn /\ unsent \subseteq Conn /\ left \subseteq Conn
      /\ may \in Situations
  BY DEF Init
<1> QED
  BY <1>2, <1>3, <1>4 DEF TypeOK, RunRecord

\* Whatever callers, bridge and callbacks do, every field keeps its type; the backoff
\* stays between its two limits.
THEOREM TypeCorrect == Spec => []TypeOK
BY TypeInit, TypeStep, PTL DEF Spec

-----------------------------------------------------------------------------
(* Connected means that there is a writer, in every behaviour.             *)

LEMMA ServedStep ==
  ASSUME TypeOK, connected => writer # 0, [Next]_vars
  PROVE  connected' => writer' # 0
<1>0. 0 \notin Conn
  BY DEF Conn
<1>1. CASE Start \/ Stop \/ Joined \/ StopDone \/ Send \/ SendDone
  BY <1>1 DEF Start, Stop, StopCloses, DropLink, KeepLink, Joined, StopDone, Send, SendDone, fields
<1>2. ASSUME NEW t \in Task, TaskStep(t) PROVE connected' => writer' # 0
  <2>1. CASE \E then \in {"backoff", "done"} : Unwind(t, then) \/ Leaves(t, then)
    BY <2>1 DEF Unwind, Leaves, Closes, CloseRaises, DropLink, KeepLink
  <2>2. CASE Begin(t) \/ CloseDone(t) \/ Wake(t)
    BY <2>2 DEF Begin, CloseDone, Wake, fields
  <2>3. CASE DialOk(t)
    BY <1>0, <2>3 DEF DialOk, First
  <2>4. CASE GreetOk(t) \/ ReadChunk(t) \/ Cancelled(t)
    BY <2>1, <2>4 DEF GreetOk, ReadChunk, Cancelled, fields
  <2>5. CASE StateRaises(t)
    BY <2>1, <2>5, UnwindLeaves
  <2> QED
    BY <1>2, <2>1, <2>2, <2>3, <2>4, <2>5 DEF TaskStep, DialFails, GreetFails, ReadFails, Stale, CallbackRaises
<1>3. ASSUME NEW c \in Conn,
             \/ Collected(c) \/ Flushed(c) \/ PeerMutes(c) \/ PeerSticks(c)
             \/ PeerResumes(c) \/ PeerDrops(c)
      PROVE  connected' => writer' # 0
  BY <1>3 DEF Collected, Flushed, PeerMutes, PeerSticks, PeerResumes, PeerDrops, PeerTurns, fields
<1>4. CASE UNCHANGED vars
  BY <1>4 DEF vars
<1> QED
  BY <1>1, <1>2, <1>3, <1>4 DEF Next

-----------------------------------------------------------------------------
(* Callers that take turns.                                                *)

\* At most one task is live.
LEMMA OnlyOne ==
  ASSUME OneTask, NEW t \in Task, NEW u \in Task, ~Finished(t), ~Finished(u)
  PROVE  t = u
BY Constants DEF OneTask, Task

\* A live task without a connection takes a step of its own, to a place where it still
\* has none; only one whose callbacks may raise ends while it is the object's.
LEMMA QuietTurn ==
  ASSUME TypeOK, TurnInv, NEW t \in Task, ~Finished(t), ~HasConn(t),
         \A u \in Task \ {t} : run'[u] = run[u],
         ~HasConn(t)', run'[t].at # "closing", ~run'[t].cancelled,
         Finished(t)' => t # task \/ may \cap {"raise", "state"} # {},
         UNCHANGED <<fields, stopping, drain, net, wanted, may>>
  PROVE  TurnInv'
<1>1. OneTask'
  BY DEF TurnInv, OneTask, Finished, fields
<1>2. OneWriter'
  BY DEF TurnInv, OneWriter, HasConn, fields, net
<1>3. NoLeak'
  BY DEF TurnInv, NoLeak, InTurn, fields, net
<1>4. Unending'
  <2> SUFFICES ASSUME may \cap {"raise", "state"} = {}, task # 0
               PROVE  ~Finished(task)' /\ (run'[task].at = "closing" => run'[task].then = "backoff")
    BY DEF Unending, fields
  <2>1. CASE task = t
    BY <2>1 DEF fields
  <2>2. CASE task # t
    <3>1. task \in Task \ {t}
      BY <2>2 DEF TypeOK, Task
    <3> QED
      BY <3>1 DEF TurnInv, Unending, Finished, fields
  <2> QED
    BY <2>1, <2>2
<1> QED
  BY <1>1, <1>2, <1>3, <1>4 DEF TurnInv

\* A live task leaves its try block.
LEMMA LeaveTurn ==
  ASSUME TypeOK, TurnInv, InTurn, NEW t \in Task, ~Finished(t), NEW then \in {"backoff", "done"},
         Leaves(t, then), then = "done" => t # task \/ may \cap {"raise", "state"} # {}
  PROVE  TurnInv'
<1>0. /\ connected' = FALSE
      /\ UNCHANGED <<task, stopping, drain, peer, unsent, wanted, may>>
      /\ run'[t].cancelled = FALSE /\ run'[t].at \in {"closing", "backoff", "done"}
      /\ run'[t].at = "done" => t # task \/ may \cap {"raise", "state"} # {}
      /\ run'[t].at = "closing" /\ t = task => run'[t].then = "backoff" \/ may \cap {"raise", "state"} # {}
      /\ \A u \in Task \ {t} : run'[u] = run[u]
      /\ writer' = 0 \/ (writer' = writer /\ writer \in left')
      /\ \A c \in Conn : c = writer \/ c \in closing \/ c \in left =>
                           c = writer' \/ c \in closing' \/ c \in left'
  <2>1. CASE Closes(t, then)
    <3>1. /\ connected' = FALSE /\ writer' = 0 /\ closing' = closing \cup ({writer} \ {0})
          /\ left' = left \ {writer}
          /\ UNCHANGED <<task, stopping, drain, peer, unsent, wanted, may>>
          /\ run'[t].at = (IF writer = 0 THEN then ELSE "closing")
          /\ run'[t].then = then /\ run'[t].cancelled = FALSE
          /\ \A u \in Task \ {t} : run'[u] = run[u]
      BY <2>1, ClosesFacts
    <3> QED
      BY <3>1 DEF Conn
  <2>2. CASE CloseRaises(t)
    <3>1. /\ "state" \in may
          /\ connected' = FALSE /\ left' = left \cup ({writer} \ {0})
          /\ UNCHANGED <<writer, closing, task, stopping, drain, peer, unsent, wanted, may>>
          /\ run'[t].at = "done" /\ run'[t].cancelled = FALSE
          /\ \A u \in Task \ {t} : run'[u] = run[u]
      BY <2>2, RaisesFacts
    <3> QED
      BY <3>1
  <2> QED
    BY <2>1, <2>2 DEF Leaves
<1>1. OneTask'
  BY <1>0 DEF TurnInv, OneTask, Finished
<1>2. OneWriter'
  <2>1. \A u \in Task : ~HasConn(u)'
    <3> TAKE u \in Task
    <3>1. CASE u = t
      BY <1>0, <3>1 DEF HasConn
    <3>2. CASE u # t
      BY <1>0, <3>2, OnlyOne DEF HasConn, Finished, TurnInv
    <3> QED
      BY <3>1, <3>2
  <2>2. writer' # 0 => task' # 0 \/ stopping'.at = "joining"
    BY <1>0 DEF TurnInv, OneWriter
  <2> QED
    BY <1>0, <2>1, <2>2 DEF OneWriter, HasConn
<1>3. NoLeak'
  BY <1>0 DEF TurnInv, NoLeak
<1>4. Unending'
  <2> SUFFICES ASSUME may \cap {"raise", "state"} = {}, task # 0
               PROVE  ~Finished(task)' /\ (run'[task].at = "closing" => run'[task].then = "backoff")
    BY <1>0 DEF Unending
  <2>1. CASE task = t
    BY <1>0, <2>1 DEF Finished
  <2>2. CASE task # t
    <3>1. task \in Task \ {t}
      BY <2>2 DEF TypeOK, Task
    <3> QED
      BY <1>0, <3>1 DEF TurnInv, Unending, Finished
  <2> QED
    BY <2>1, <2>2
<1> QED
  BY <1>1, <1>2, <1>3, <1>4 DEF TurnInv

\* While no task is live nobody is told that there is a connection, and what writer there
\* is was left.
LEMMA NoneLive ==
  ASSUME OneWriter, connected => writer # 0, \A t \in Task : Finished(t)
  PROVE  /\ ~connected /\ (writer # 0 => writer \in left)
         /\ \A t \in Task : ~HasConn(t)
BY DEF OneWriter, HasConn, Finished

\* The callers' steps.
LEMMA TurnCallers ==
  ASSUME TypeOK, connected => writer # 0, TurnInv, InTurn,
         Start \/ Stop \/ Joined \/ StopDone \/ Send \/ SendDone
  PROVE  TurnInv'
<1>0. /\ run \in [Task -> RunRecord] /\ 0 \notin Task /\ task \in 0..Tasks
      /\ task # 0 => task \in Task
  BY Constants DEF TypeOK, RunRecord, Task
<1>1. CASE Start
  <2>1. stopping.at = "idle" /\ ~Running
    BY <1>1 DEF Start, InTurn
  <2>2. \A u \in Task : Finished(u)
    BY <1>0, <2>1 DEF TurnInv, OneTask, Running
  <2>3. PICK t \in Task : task' = t /\ run' = [run EXCEPT ![t] = [Idle EXCEPT !.at = "new"]]
    BY <1>1 DEF Start, First
  <2>4. /\ run'[t].at = "new" /\ run'[t].cancelled = FALSE
        /\ \A u \in Task \ {t} : run'[u] = run[u]
    BY <1>0, <2>3 DEF Idle
  <2>5. wanted' = TRUE /\ UNCHANGED <<writer, connected, stopping, peer, closing, left, may>>
    BY <1>1 DEF Start, net
  <2>6. \A u \in Task : ~HasConn(u)'
    BY <2>2, <2>4 DEF HasConn, Finished
  <2>7. OneTask'
    BY <1>0, <2>1, <2>2, <2>3, <2>4, <2>5 DEF TurnInv, OneTask, Finished
  <2>8. OneWriter'
    <3>1. ~connected /\ (writer # 0 => writer \in left) /\ task' # 0
      BY <1>0, <2>2, <2>3, NoneLive DEF TurnInv
    <3> QED
      BY <2>5, <2>6, <3>1 DEF OneWriter, HasConn
  <2>9. NoLeak' /\ Unending'
    BY <2>3, <2>4, <2>5 DEF TurnInv, NoLeak, InTurn, Unending, Finished
  <2> QED
    BY <2>7, <2>8, <2>9 DEF TurnInv
<1>2. ASSUME \A t \in Task : Finished(t), StopCloses, task' = 0, ~wanted', UNCHANGED <<run, peer, may>>
      PROVE  TurnInv'
  <2>0. ~connected
    BY <1>2, NoneLive DEF TurnInv
  <2>1. /\ writer' = 0 /\ connected' = FALSE /\ closing' = closing \cup ({writer} \ {0})
        /\ left' = left \ {writer}
        /\ stopping'.at \in {"idle", "closing"}
    BY <1>2, <2>0 DEF StopCloses, DropLink
  <2>2. \A t \in Task : Finished(t)' /\ ~HasConn(t)' /\ ~run'[t].cancelled
    BY <1>2 DEF Finished, HasConn, TurnInv, OneTask
  <2>3. OneTask' /\ OneWriter' /\ Unending'
    BY <1>2, <2>1, <2>2 DEF OneTask, OneWriter, Unending, HasConn
  <2>4. NoLeak'
    BY <1>2, <2>1, Constants DEF TurnInv, NoLeak, InTurn, Conn
  <2> QED
    BY <2>3, <2>4 DEF TurnInv
<1>3. CASE Stop
  <2>1. stopping.at = "idle" /\ task' = 0 /\ wanted' = FALSE /\ UNCHANGED <<peer, may>>
    BY <1>3 DEF Stop
  <2>2. CASE ~Running
    <3>1. \A t \in Task : Finished(t)
      BY <1>0, <2>1, <2>2 DEF TurnInv, OneTask, Running
    <3> QED
      BY <1>2, <1>3, <2>1, <2>2, <3>1 DEF Stop
  <2>3. CASE Running
    <3>1. /\ run' = [run EXCEPT ![task].cancelled = TRUE]
          /\ stopping' = [at |-> "joining", target |-> task, conn |-> 0]
          /\ UNCHANGED <<writer, connected, closing, left>>
      BY <1>3, <2>3 DEF Stop
    <3>2. task \in Task /\ ~Finished(task)
      BY <1>0, <2>3 DEF Running
    <3>3. /\ \A t \in Task : run'[t].at = run[t].at /\ run'[t].conn = run[t].conn
          /\ \A t \in Task \ {task} : run'[t] = run[t]
      BY <1>0, <3>1, <3>2 DEF RunRecord
    <3>4. OneTask'
      BY <1>0, <2>1, <3>1, <3>2, <3>3 DEF TurnInv, OneTask, Finished
    <3>5. OneWriter' /\ NoLeak' /\ Unending'
      BY <2>1, <3>1, <3>3 DEF TurnInv, OneWriter, HasConn, NoLeak, InTurn, Unending
    <3> QED
      BY <3>4, <3>5 DEF TurnInv
  <2> QED
    BY <2>2, <2>3
<1>4. CASE Joined
  <2>1. /\ stopping.at = "joining" /\ Finished(stopping.target) /\ StopCloses
        /\ UNCHANGED <<task, run, peer, wanted, may>>
    BY <1>4 DEF Joined
  <2>2. task = 0 /\ ~wanted
    BY <2>1 DEF TypeOK, TurnInv, OneTask
  <2>3. \A t \in Task : Finished(t)
    BY <1>0, <2>1, <2>2 DEF TurnInv, OneTask
  <2> QED
    BY <1>2, <2>1, <2>2, <2>3
<1>5. CASE StopDone
  <2>1. /\ stopping.at = "closing" /\ stopping'.at = "idle"
        /\ UNCHANGED <<task, writer, connected, run, peer, closing, left, wanted, may>>
    BY <1>5 DEF StopDone, fields, net
  <2> QED
    BY <2>1 DEF TurnInv, OneTask, OneWriter, NoLeak, InTurn, Unending, HasConn, Finished
<1>6. CASE Send \/ SendDone
  <2>1. UNCHANGED <<task, writer, connected, run, stopping, peer, closing, left, wanted, may>>
    BY <1>6 DEF Send, SendDone, fields, net
  <2> QED
    BY <2>1 DEF TurnInv, OneTask, OneWriter, NoLeak, InTurn, Unending, HasConn, Finished
<1> QED
  BY <1>1, <1>3, <1>4, <1>5, <1>6

\* The task's own steps.
LEMMA TurnTask ==
  ASSUME TypeOK, connected => writer # 0, TurnInv, InTurn, NEW t \in Task, TaskStep(t)
  PROVE  TurnInv'
<1>0. run \in [Task -> RunRecord] /\ run[t] \in RunRecord /\ 0 \notin Task
  BY DEF TypeOK, RunRecord, Task
<1>1. CASE Begin(t)
  <2>1. /\ run[t].at = "new" /\ ~run[t].cancelled
        /\ run'[t].at = "dial" /\ run'[t].cancelled = run[t].cancelled
        /\ \A u \in Task \ {t} : run'[u] = run[u]
    BY <1>0, <1>1 DEF Begin, At, RunRecord
  <2> QED
    BY <1>1, <2>1, QuietTurn DEF Begin, Finished, HasConn
<1>2. CASE Wake(t)
  <2>1. /\ run[t].at = "backoff" /\ ~run[t].cancelled
        /\ run'[t].at = "dial" /\ run'[t].cancelled = run[t].cancelled
        /\ \A u \in Task \ {t} : run'[u] = run[u]
    BY <1>0, <1>2 DEF Wake, At, RunRecord
  <2> QED
    BY <1>2, <2>1, QuietTurn DEF Wake, Finished, HasConn
<1>3. CASE CloseDone(t)
  <2>1. /\ run[t].at = "closing" /\ ~run[t].cancelled /\ run[t].then \in {"backoff", "done"}
        /\ run'[t].at = run[t].then /\ run'[t].cancelled = run[t].cancelled
        /\ \A u \in Task \ {t} : run'[u] = run[u]
    BY <1>0, <1>3 DEF CloseDone, At, RunRecord
  <2>2. run[t].then = "done" => t # task \/ may \cap {"raise", "state"} # {}
    BY <1>0, <2>1 DEF TurnInv, Unending
  <2> QED
    BY <1>3, <2>1, <2>2, QuietTurn DEF CloseDone, Finished, HasConn
<1>4. CASE DialOk(t)
  <2>1. PICK c \in Conn : /\ writer' = c
                          /\ peer' = [peer EXCEPT ![c] = "live"]
                          /\ run' = [run EXCEPT ![t].at = "greet", ![t].conn = c]
    BY <1>4 DEF DialOk, First
  <2>2. /\ run[t].at = "dial" /\ ~run[t].cancelled /\ c # 0
        /\ run'[t].at = "greet" /\ run'[t].conn = c /\ run'[t].cancelled = run[t].cancelled
        /\ \A u \in Task \ {t} : run'[u] = run[u]
    BY <1>0, <1>4, <2>1 DEF DialOk, At, RunRecord, Conn
  <2>3. UNCHANGED <<task, connected, stopping, closing, left, wanted, may>>
    BY <1>4 DEF DialOk
  <2>4. \A u \in Task : ~HasConn(u)
    BY <2>2, OnlyOne DEF TurnInv, HasConn, Finished
  <2>5. (writer # 0 => writer \in left) /\ ~connected
    BY <2>4 DEF TurnInv, OneWriter
  <2>10. task # 0 \/ stopping.at = "joining"
    BY <1>0, <2>2 DEF TurnInv, OneTask, Finished
  <2>6. OneTask'
    BY <2>2, <2>3 DEF TurnInv, OneTask, Finished
  <2>7. OneWriter'
    BY <2>1, <2>2, <2>3, <2>4, <2>5, <2>10 DEF OneWriter, HasConn
  <2>8. NoLeak'
    BY <2>1, <2>3, <2>5 DEF TurnInv, NoLeak, InTurn, TypeOK, Conn
  <2>9. Unending'
    <3>1. task # 0 => task \in Task
      BY DEF TypeOK, Task
    <3> QED
      BY <2>2, <2>3, <3>1 DEF TurnInv, Unending, Finished
  <2> QED
    BY <2>6, <2>7, <2>8, <2>9 DEF TurnInv
<1>5. CASE DialFails(t) \/ GreetFails(t) \/ ReadFails(t) \/ Stale(t)
  <2>1. ~Finished(t) /\ Leaves(t, "backoff")
    BY <1>5, UnwindLeaves DEF DialFails, GreetFails, ReadFails, Stale, At, Finished
  <2> QED
    BY <2>1, LeaveTurn
<1>6. CASE CallbackRaises(t)
  <2>1. ~Finished(t) /\ Leaves(t, "done") /\ "raise" \in may
    BY <1>6, UnwindLeaves DEF CallbackRaises, At, Finished
  <2> QED
    BY <2>1, LeaveTurn
<1>7. CASE GreetOk(t)
  <2>1. run[t].at = "greet" /\ ~run[t].cancelled /\ writer # 0
    BY <1>7 DEF GreetOk, At, TurnInv, OneWriter, HasConn
  <2>2. /\ run' = [run EXCEPT ![t].at = "read", ![t].conn = writer, ![t].backoff = 1]
        /\ UNCHANGED <<task, writer, stopping, drain, net, wanted, may>>
    BY <1>7, <2>1 DEF GreetOk
  <2>3. /\ run'[t].at = "read" /\ run'[t].conn = writer /\ run'[t].cancelled = run[t].cancelled
        /\ \A u \in Task \ {t} : run'[u] = run[u]
    BY <1>0, <2>2 DEF RunRecord
  <2>4. \A u \in Task \ {t} : ~HasConn(u)
    BY <2>1, OnlyOne DEF TurnInv, HasConn, Finished
  <2>5. OneTask'
    BY <2>1, <2>2, <2>3 DEF TurnInv, OneTask, Finished
  <2>6. OneWriter'
    <3>1. \A u \in Task : u # t => run'[u].at \notin {"greet", "read"}
      BY <2>3, <2>4 DEF HasConn
    <3>2. writer' = writer /\ HasConn(t)' /\ run'[t].at # "greet"
      BY <2>2, <2>3 DEF HasConn
    <3>3. task' # 0 \/ stopping'.at = "joining"
      BY <2>1, <2>2 DEF TurnInv, OneWriter
    <3> QED
      BY <2>1, <2>3, <3>1, <3>2, <3>3 DEF OneWriter, HasConn
  <2>7. NoLeak'
    BY <2>2 DEF TurnInv, NoLeak, InTurn, net
  <2>8. Unending'
    <3>1. task # 0 => task \in Task
      BY DEF TypeOK, Task
    <3> QED
      BY <2>2, <2>3, <3>1 DEF TurnInv, Unending, Finished
  <2> QED
    BY <2>5, <2>6, <2>7, <2>8 DEF TurnInv
<1>8. CASE ReadChunk(t)
  BY <1>8 DEF ReadChunk, At, TurnInv, OneWriter, HasConn
<1>9. CASE Cancelled(t)
  <2>1. run[t].cancelled /\ ~Finished(t) /\ t # task
    BY <1>0, <1>9 DEF Cancelled, TurnInv, OneTask
  <2>2. CASE Unwind(t, "done")
    BY <2>1, <2>2, UnwindLeaves, LeaveTurn
  <2>3. CASE /\ run[t].at \in {"new", "backoff"}
             /\ run' = [run EXCEPT ![t].at = "done", ![t].cancelled = FALSE]
             /\ UNCHANGED <<fields, stopping, drain, net, wanted, may>>
    <3>1. /\ run'[t].at = "done" /\ run'[t].cancelled = FALSE
          /\ \A u \in Task \ {t} : run'[u] = run[u]
      BY <1>0, <2>3 DEF RunRecord
    <3> QED
      BY <2>1, <2>3, <3>1, QuietTurn DEF Finished, HasConn
  <2>4. CASE /\ run[t].at = "closing"
             /\ run' = [run EXCEPT ![t].at = run[t].then, ![t].conn = 0, ![t].cancelled = FALSE]
             /\ UNCHANGED <<fields, stopping, drain, net, wanted, may>>
    <3>1. /\ run'[t].at \in {"backoff", "done"} /\ run'[t].cancelled = FALSE
          /\ \A u \in Task \ {t} : run'[u] = run[u]
      BY <1>0, <2>4 DEF RunRecord
    <3> QED
      BY <2>1, <2>4, <3>1, QuietTurn DEF Finished, HasConn
  <2> QED
    BY <1>9, <2>2, <2>3, <2>4 DEF Cancelled
<1>10. CASE StateRaises(t)
  <2>1. ~Finished(t) /\ "state" \in may /\ (Leaves(t, "done") \/ Leaves(t, "backoff"))
    BY <1>10, UnwindLeaves DEF StateRaises, At, Finished
  <2> QED
    BY <2>1, LeaveTurn
<1> QED
  BY <1>1, <1>2, <1>3, <1>4, <1>5, <1>6, <1>7, <1>8, <1>9, <1>10 DEF TaskStep

\* The transports and the far end.
LEMMA TurnNet ==
  ASSUME TypeOK, TurnInv, NEW c \in Conn,
         \/ Collected(c) \/ Flushed(c) \/ PeerMutes(c) \/ PeerSticks(c)
         \/ PeerResumes(c) \/ PeerDrops(c)
  PROVE  TurnInv'
<1>1. UNCHANGED <<task, writer, connected, run, stopping, wanted, may>>
  BY DEF Collected, Flushed, PeerMutes, PeerSticks, PeerResumes, PeerDrops, PeerTurns, fields
<1>4. writer' \in left => writer' \in left'
  BY <1>1 DEF Collected, Flushed, PeerMutes, PeerSticks, PeerResumes, PeerDrops, PeerTurns
<1>2. OneTask' /\ OneWriter' /\ Unending'
  BY <1>1, <1>4 DEF TurnInv, OneTask, OneWriter, Unending, HasConn, Finished
<1>3. NoLeak'
  <2>3. CASE Collected(c)
    BY <1>1, <2>3 DEF Collected, TurnInv, NoLeak, InTurn
  <2>1. CASE Flushed(c)
    BY <1>1, <2>1 DEF Flushed, TurnInv, NoLeak, InTurn, TypeOK
  <2>2. ASSUME NEW how, PeerTurns(c, how) PROVE NoLeak'
    BY <1>1, <2>2 DEF PeerTurns, TurnInv, NoLeak, InTurn, TypeOK
  <2> QED
    BY <2>1, <2>2, <2>3 DEF PeerMutes, PeerSticks, PeerResumes, PeerDrops
<1> QED
  BY <1>2, <1>3 DEF TurnInv

LEMMA ConnStep == ConnInv /\ [Next]_vars => ConnInv'
<1> SUFFICES ASSUME ConnInv, [Next]_vars PROVE ConnInv'
  OBVIOUS
<1>1. TypeOK /\ (connected => writer # 0) /\ (InTurn => TurnInv)
  BY DEF ConnInv
<1>2. TypeOK'
  BY <1>1, TypeStep
<1>3. connected' => writer' # 0
  BY <1>1, ServedStep
<1>4. may' = may
  <2>1. Start \/ Stop \/ Joined \/ StopDone \/ Send \/ SendDone => may' = may
    BY DEF Start, Stop, Joined, StopDone, Send, SendDone
  <2>2. ASSUME NEW t \in Task, TaskStep(t) PROVE may' = may
    <3>0. ASSUME NEW then, Unwind(t, then) \/ Leaves(t, then) PROVE may' = may
      BY <3>0 DEF Unwind, Leaves, Closes, CloseRaises
    <3>1. Begin(t) \/ DialOk(t) \/ DialFails(t) \/ GreetOk(t) \/ GreetFails(t) => may' = may
      BY <3>0 DEF Begin, DialOk, DialFails, GreetOk, GreetFails
    <3>2. ReadChunk(t) \/ ReadFails(t) \/ Stale(t) \/ CallbackRaises(t) => may' = may
      BY <3>0 DEF ReadChunk, ReadFails, Stale, CallbackRaises
    <3>3. CloseDone(t) \/ Wake(t) \/ Cancelled(t) \/ StateRaises(t) => may' = may
      BY <3>0, UnwindLeaves DEF CloseDone, Wake, Cancelled
    <3> QED
      BY <2>2, <3>1, <3>2, <3>3 DEF TaskStep
  <2>3. ASSUME NEW c \in Conn,
               \/ Collected(c) \/ Flushed(c) \/ PeerMutes(c) \/ PeerSticks(c)
               \/ PeerResumes(c) \/ PeerDrops(c)
        PROVE  may' = may
    BY <2>3 DEF Collected, Flushed, PeerMutes, PeerSticks, PeerResumes, PeerDrops, PeerTurns
  <2>4. UNCHANGED vars => may' = may
    BY DEF vars
  <2> QED
    BY <2>1, <2>2, <2>3, <2>4 DEF Next
<1>5. InTurn => TurnInv'
  <2>1. TurnInv /\ UNCHANGED vars => TurnInv'
    BY DEF TurnInv, OneTask, OneWriter, NoLeak, InTurn, Unending, HasConn, Finished, vars
  <2> QED
    BY <1>1, <2>1, TurnCallers, TurnTask, TurnNet DEF Next
<1> QED
  BY <1>2, <1>3, <1>4, <1>5 DEF ConnInv, InTurn

LEMMA ConnInit == Init => ConnInv
<1> SUFFICES ASSUME Init PROVE ConnInv
  OBVIOUS
<1>1. \A t \in Task : run[t] = Idle
  BY DEF Init
<1>2. OneTask /\ OneWriter /\ Unending
  BY <1>1 DEF Init, OneTask, OneWriter, Unending, HasConn, Finished, Idle
<1>3. NoLeak
  BY DEF Init, NoLeak
<1> QED
  BY <1>2, <1>3, TypeInit DEF ConnInv, TurnInv, Init

\* With callers that take turns one background task lives at a time, and it alone has
\* the writer, unless on_state raised in _close: then the writer is kept, until stop or
\* the loop started next closes it, or that loop's own connection takes its place and
\* nothing has it any more.
THEOREM ConnCorrect == Spec => []ConnInv
BY ConnInit, ConnStep, PTL DEF Spec

-----------------------------------------------------------------------------
(* What the callers rely on.                                               *)

\* A connected host has a connection to write to, and a task that reads it.
THEOREM Served == Spec => []ConnectedIsServed
<1>1. ConnInv => ConnectedIsServed
  <2> SUFFICES ASSUME ConnInv, connected
               PROVE  /\ writer # 0
                      /\ InTurn => /\ task # 0 \/ stopping.at = "joining"
                                   /\ \E t \in Task : run[t].at = "read" /\ run[t].conn = writer
    BY DEF ConnectedIsServed
  <2>1. writer # 0
    BY DEF ConnInv
  <2>2. ASSUME InTurn
        PROVE  /\ task # 0 \/ stopping.at = "joining"
               /\ \E t \in Task : run[t].at = "read" /\ run[t].conn = writer
    <3>1. PICK t \in Task : HasConn(t)
      BY <2>1, <2>2 DEF ConnInv, TurnInv, OneWriter
    <3>2. run[t].at = "read" /\ run[t].conn = writer
      BY <2>2, <3>1 DEF ConnInv, TurnInv, OneWriter, HasConn
    <3>3. t # 0 /\ (t = task \/ stopping.at = "joining")
      BY <2>2, <3>2 DEF ConnInv, TurnInv, OneTask, Finished, Task
    <3> QED
      BY <3>2, <3>3
  <2> QED
    BY <2>1, <2>2
<1> QED
  BY <1>1, ConnCorrect, PTL

\* What was opened is closed, whatever goes wrong in between, but for a connection that a
\* raising on_state kept from being closed.
THEOREM NothingLeaks == Spec => []NoLeak
<1>1. ConnInv => NoLeak
  BY DEF ConnInv, TurnInv, NoLeak
<1> QED
  BY <1>1, ConnCorrect, PTL

\* When stop has returned nothing runs, there is no writer, and what was open is closing,
\* but for a connection that was left before the loop stop ended had its own.
THEOREM StopQuiets == Spec => []StoppedIsQuiet
<1>1. ConnInv => StoppedIsQuiet
  <2> SUFFICES ASSUME ConnInv, InTurn, stopping.at = "idle", ~wanted
               PROVE  /\ \A t \in Task : Finished(t)
                      /\ writer = 0 /\ ~connected
                      /\ \A c \in Conn : peer[c] = "none" \/ c \in closing \/ c \in left
    BY DEF StoppedIsQuiet
  <2>1. \A t \in Task : Finished(t)
    BY DEF ConnInv, TurnInv, OneTask, Task
  <2>2. writer = 0 /\ ~connected
    BY <2>1, NoneLive DEF ConnInv, TurnInv, OneTask, OneWriter
  <2> QED
    BY <2>1, <2>2 DEF ConnInv, TurnInv, NoLeak, Conn
<1> QED
  BY <1>1, ConnCorrect, PTL

\* A wanted loop whose callbacks do not raise goes on until it is stopped.
THEOREM Persists == Spec => []KeepsRunning
<1>1. ConnInv => KeepsRunning
  BY DEF ConnInv, TurnInv, OneTask, Unending, KeepsRunning, Running
<1> QED
  BY <1>1, ConnCorrect, PTL
=============================================================================
