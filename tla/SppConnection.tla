--------------------------- MODULE SppConnection ----------------------------
(***************************************************************************)
(* untether_bt.SppConnection: one TCP connection to a bridge that a        *)
(* background asyncio task opens, reads and reopens, with the callers of   *)
(* start, stop and send beside it.                                         *)
(*                                                                         *)
(* asyncio switches tasks only where a coroutine awaits something that is  *)
(* not ready, so an action is what runs from one such await to the next.   *)
(* The object's fields belong to whoever runs: nothing locks them.         *)
(* Task.cancel only marks a task: the next thing that task does is to have *)
(* CancelledError raised at the await it is in.                            *)
(***************************************************************************)
EXTENDS Naturals, FiniteSetsExt

CONSTANTS
  Conns,           \* 1..Conns: TCP connections, reused once forgotten
  Tasks,           \* 1..Tasks: background tasks, reused once finished
  MaxBackoff,      \* reconnect_max, in units of reconnect_min
  Situations       \* which troubles a behaviour may hold, see may

\* start called while a stop is under way; a bridge that stops reading its socket;
\* on_connect or on_chunk raising something but OSError; on_state raising anything.
Troubles == {"overlap", "wedge", "raise", "state"}

ASSUME BoundsAssumption ==
  /\ {Conns, Tasks, MaxBackoff} \subseteq Nat \ {0}
  /\ Situations \subseteq SUBSET Troubles

VARIABLES
  task,        \* _task, 0 for None
  writer,      \* _writer (and _reader with it), 0 for None
  connected,   \* _connected
  run,         \* per task: where it is, on which connection, what comes next
  stopping,    \* the call of stop: where it is, and on what it waits
  drain,       \* the connection whose drain() the lock's holder awaits, or 0
  peer,        \* per connection: how its far end behaves
  closing,     \* connections whose transport was told to close
  unsent,      \* connections with bytes their peer does not take
  left,        \* history: open connections whose _close on_state cut short
  wanted,      \* history: was start called after the last stop?
  may          \* what the surroundings are capable of, fixed from the start

fields == <<task, writer, connected>>
net == <<peer, closing, unsent, left>>
vars == <<task, writer, connected, run, stopping, drain, peer, closing,
          unsent, left, wanted, may>>

Conn == 1..Conns
Task == 1..Tasks

Idle == [at |-> "none", conn |-> 0, then |-> "backoff", backoff |-> 1,
         cancelled |-> FALSE]

TypeOK ==
  /\ task \in 0..Tasks /\ writer \in 0..Conns
  /\ {connected, wanted} \subseteq BOOLEAN
  /\ run \in [Task -> [at : {"none", "new", "dial", "greet", "read",
                             "closing", "backoff", "done"},
                       conn : 0..Conns, then : {"backoff", "done"},
                       backoff : 1..MaxBackoff, cancelled : BOOLEAN]]
  /\ stopping \in [at : {"idle", "joining", "closing"},
                   target : 0..Tasks, conn : 0..Conns]
  /\ drain \in 0..Conns
  /\ peer \in [Conn -> {"none", "live", "mute", "stuck", "eof"}]
  /\ {closing, unsent, left} \subseteq SUBSET Conn
  /\ may \in Situations

Init ==
  /\ task = 0 /\ writer = 0 /\ connected = FALSE /\ wanted = FALSE
  /\ run = [t \in Task |-> Idle]
  /\ stopping = [at |-> "idle", target |-> 0, conn |-> 0]
  /\ drain = 0
  /\ peer = [c \in Conn |-> "none"] /\ closing = {} /\ unsent = {} /\ left = {}
  /\ may \in Situations

-----------------------------------------------------------------------------
\* Helpers

Finished(t) == run[t].at \in {"none", "done"}
Running == task # 0 /\ ~Finished(task)

\* Task t is at this await and no CancelledError is on its way to it.
At(t, place) == run[t].at = place /\ ~run[t].cancelled

\* MUTANT: the caller is left to report the loss.
DropLinkQuietly ==
  /\ connected' = connected
  /\ writer' = 0
  /\ closing' = closing \cup ({writer} \ {0})
  /\ left' = left \ {writer}

\* The synchronous part of _close.
DropLink ==
  /\ connected' = FALSE
  /\ writer' = 0
  /\ closing' = closing \cup ({writer} \ {0})
  /\ left' = left \ {writer}

\* The same when on_state(False) raises: _set_connected has noted the loss, but the
\* writer is neither closed nor forgotten.
KeepLink ==
  /\ "state" \in may
  /\ connected' = FALSE
  /\ left' = left \cup ({writer} \ {0})
  /\ UNCHANGED <<writer, closing>>

\* _close in the finally of task t, which waits only if there is a writer; after it
\* the backoff, or the end of the task.
Closes(t, then) ==
  /\ DropLink
  /\ run' = [run EXCEPT ![t].at = IF writer = 0 THEN then ELSE "closing",
                        ![t].conn = writer, ![t].then = then,
                        ![t].cancelled = FALSE]
  /\ UNCHANGED <<task, stopping, drain, peer, unsent, wanted, may>>

\* What on_state raises there, OSError or not, ends the task.
CloseRaises(t) ==
  /\ KeepLink
  /\ run' = [run EXCEPT ![t].at = "done", ![t].conn = 0, ![t].cancelled = FALSE]
  /\ UNCHANGED <<task, stopping, drain, peer, unsent, wanted, may>>

\* Task t leaves its try block.  on_state is called only if the state changes.
Unwind(t, then) == Closes(t, then) \/ (connected /\ CloseRaises(t))

Unreferenced(c) ==
  /\ peer[c] = "none" /\ c \notin {writer, drain, stopping.conn}
  /\ \A t \in Task : run[t].conn # c \/ Finished(t)

\* A new task or connection takes the first free number; which one is immaterial.
First(free) == {n \in free : \A m \in free : n <= m}

Doubled(b) == Min({2 * b, MaxBackoff})

-----------------------------------------------------------------------------
\* The callers of start and stop

Start ==
  /\ "overlap" \in may \/ stopping.at = "idle"
  /\ ~Running
  /\ \E t \in First({u \in Task : Finished(u) /\ stopping.target # u}) :
       /\ task' = t
       /\ run' = [run EXCEPT ![t] = [Idle EXCEPT !.at = "new"]]
  /\ wanted' = TRUE
  /\ UNCHANGED <<writer, connected, stopping, drain, net, may>>

\* The _close at the end of stop, which raises what on_state raises.
StopCloses ==
  \/ /\ DropLink
     /\ stopping' = [at |-> IF writer = 0 THEN "idle" ELSE "closing",
                     target |-> 0, conn |-> writer]
  \/ /\ connected /\ KeepLink
     /\ stopping' = [at |-> "idle", target |-> 0, conn |-> 0]

\* MUTANT: stop cancels the task and does not await it.
StopUnjoined ==
  /\ stopping.at = "idle"
  /\ task' = 0 /\ wanted' = FALSE
  /\ run' = [t \in Task |-> IF t = task /\ ~Finished(t)
                            THEN [run[t] EXCEPT !.cancelled = TRUE]
                            ELSE run[t]]
  /\ StopCloses
  /\ UNCHANGED <<drain, peer, unsent, may>>

Stop ==
  /\ stopping.at = "idle"
  /\ task' = 0 /\ wanted' = FALSE
  /\ \/ /\ ~Running
        /\ StopCloses
        /\ UNCHANGED run
     \/ /\ Running
        /\ run' = [run EXCEPT ![task].cancelled = TRUE]
        /\ stopping' = [at |-> "joining", target |-> task, conn |-> 0]
        /\ UNCHANGED <<writer, connected, closing, left>>
  /\ UNCHANGED <<drain, peer, unsent, may>>

Joined ==
  /\ stopping.at = "joining" /\ Finished(stopping.target)
  /\ StopCloses
  /\ UNCHANGED <<task, run, drain, peer, unsent, wanted, may>>

StopDone ==
  /\ stopping.at = "closing" /\ peer[stopping.conn] = "none"
  /\ stopping' = [at |-> "idle", target |-> 0, conn |-> 0]
  /\ UNCHANGED <<fields, run, drain, net, wanted, may>>

-----------------------------------------------------------------------------
\* The background task

Begin(t) ==
  /\ At(t, "new")
  /\ run' = [run EXCEPT ![t].at = "dial"]
  /\ UNCHANGED <<fields, stopping, drain, net, wanted, may>>

DialOk(t) ==
  /\ At(t, "dial")
  /\ \E c \in First({d \in Conn : Unreferenced(d)}) :
       /\ writer' = c
       /\ peer' = [peer EXCEPT ![c] = "live"]
       /\ run' = [run EXCEPT ![t].at = "greet", ![t].conn = c]
  /\ UNCHANGED <<task, connected, stopping, drain, closing, unsent, left, wanted, may>>

\* MUTANT: the exception is not one of those _run handles.
UnwindRaising(t, then) == Unwind(t, "done")

\* open_connection fails, or outlasts connect_timeout.
DialFails(t) == At(t, "dial") /\ Unwind(t, "backoff")

\* on_connect returns: it has sent a handshake through send, and so held the
\* write lock and drained.  The assertion at the head of _read_loop fails if
\* somebody has closed the connection meanwhile.
GreetOk(t) ==
  /\ At(t, "greet") /\ drain = 0 /\ writer \notin unsent
  /\ \/ /\ writer = 0
        /\ Unwind(t, "done")
     \/ /\ writer # 0
        /\ connected' = TRUE
        /\ run' = [run EXCEPT ![t].at = "read", ![t].conn = writer,
                              ![t].backoff = 1]
        /\ UNCHANGED <<task, writer, stopping, drain, net, wanted, may>>

\* on_state(True) raises after on_connect has returned: _connected is set by then, so
\* the finally calls on_state(False), which may raise in turn.
StateRaises(t) ==
  /\ "state" \in may
  /\ At(t, "greet") /\ drain = 0 /\ writer \notin unsent
  /\ Closes(t, "done") \/ Closes(t, "backoff") \/ CloseRaises(t)

\* MUTANT: there is no finally that closes what was opened.
GreetFailsUnclosed(t) ==
  /\ At(t, "greet") /\ drain = 0
  /\ run' = [run EXCEPT ![t].at = "backoff"]
  /\ UNCHANGED <<fields, stopping, drain, net, wanted, may>>

\* on_connect raises OSError, as send_raw does when there is no writer.
GreetFails(t) == At(t, "greet") /\ drain = 0 /\ Unwind(t, "backoff")

\* A chunk arrives and on_chunk takes it; the loop looks at _reader again, which
\* is the one it was if nobody has closed the connection.
ReadChunk(t) ==
  /\ At(t, "read") /\ peer[run[t].conn] = "live"
  /\ writer # run[t].conn
  /\ \/ /\ writer = 0
        /\ Unwind(t, "done")
     \/ /\ writer # 0
        /\ run' = [run EXCEPT ![t].conn = writer]
        /\ UNCHANGED <<fields, stopping, drain, net, wanted, may>>

\* MUTANT: the end of the stream is not caught.
ReadFailsRaising(t) ==
  /\ At(t, "read") /\ peer[run[t].conn] \in {"eof", "none"}
  /\ UnwindRaising(t, "backoff")

\* read returns b"", because the peer or this side has closed, or raises.
ReadFails(t) ==
  /\ At(t, "read") /\ peer[run[t].conn] \in {"eof", "none"}
  /\ Unwind(t, "backoff")

\* MUTANT: the loop reads on after stale_after.
StaleIgnored(t) ==
  /\ At(t, "read") /\ peer[run[t].conn] \in {"mute", "stuck"}
  /\ UNCHANGED vars

\* Nothing was read for stale_after.
Stale(t) ==
  /\ At(t, "read") /\ peer[run[t].conn] \in {"mute", "stuck"}
  /\ Unwind(t, "backoff")

\* on_connect or on_chunk raises: finally closes, and the task ends.
CallbackRaises(t) ==
  /\ "raise" \in may
  /\ At(t, "greet") \/ At(t, "read")
  /\ Unwind(t, "done")

\* wait_closed returns.
CloseDone(t) ==
  /\ At(t, "closing") /\ peer[run[t].conn] = "none"
  /\ run' = [run EXCEPT ![t].at = run[t].then, ![t].conn = 0]
  /\ UNCHANGED <<fields, stopping, drain, net, wanted, may>>

Wake(t) ==
  /\ At(t, "backoff")
  /\ run' = [run EXCEPT ![t].at = "dial", ![t].backoff = Doubled(@)]
  /\ UNCHANGED <<fields, stopping, drain, net, wanted, may>>

\* CancelledError is raised where t waits.  wait_closed is the one place that
\* swallows it: the task goes on as if it had not been cancelled.
Cancelled(t) ==
  /\ run[t].cancelled
  /\ \/ /\ run[t].at \in {"new", "backoff"}
        /\ run' = [run EXCEPT ![t].at = "done", ![t].cancelled = FALSE]
        /\ UNCHANGED <<fields, stopping, drain, net, wanted, may>>
     \/ /\ run[t].at \in {"dial", "greet", "read"}
        /\ Unwind(t, "done")
     \/ /\ run[t].at = "closing"
        /\ run' = [run EXCEPT ![t].at = run[t].then, ![t].conn = 0,
                              ![t].cancelled = FALSE]
        /\ UNCHANGED <<fields, stopping, drain, net, wanted, may>>

-----------------------------------------------------------------------------
\* The caller of send: write, then drain under the write lock

Send ==
  /\ drain = 0 /\ writer # 0
  /\ drain' = writer
  /\ unsent' = unsent \cup {c \in {writer} : peer[c] = "stuck"}
  /\ UNCHANGED <<fields, run, stopping, peer, closing, left, wanted, may>>

\* drain returns: at once if little is buffered, else when the peer takes the
\* bytes or the connection is lost.
SendDone ==
  /\ drain # 0
  /\ drain' = 0
  /\ UNCHANGED <<fields, run, stopping, net, wanted, may>>

-----------------------------------------------------------------------------
\* The transports and the far end

\* A connection that was left open and that nothing refers to any more may be closed
\* with its writer, by Python's garbage collector; nothing says when.
Collected(c) ==
  /\ c \in left /\ c \notin {writer, drain, stopping.conn}
  /\ \A t \in Task : run[t].conn # c \/ Finished(t)
  /\ closing' = closing \cup {c}
  /\ left' = left \ {c}
  /\ UNCHANGED <<fields, run, stopping, drain, peer, unsent, wanted, may>>

\* A transport that was told to close does so once its buffer is flushed or its
\* peer is gone.
Flushed(c) ==
  /\ c \in closing
  /\ c \notin unsent \/ peer[c] = "eof"
  /\ peer' = [peer EXCEPT ![c] = "none"]
  /\ closing' = closing \ {c}
  /\ unsent' = unsent \ {c}
  /\ UNCHANGED <<fields, run, stopping, drain, left, wanted, may>>

PeerTurns(c, how) ==
  /\ peer[c] \notin {"none", "eof", how}
  /\ peer' = [peer EXCEPT ![c] = how]
  /\ unsent' = IF how = "stuck" THEN unsent ELSE unsent \ {c}
  /\ UNCHANGED <<fields, run, stopping, drain, closing, left, wanted, may>>

PeerMutes(c) == PeerTurns(c, "mute")
PeerSticks(c) == "wedge" \in may /\ PeerTurns(c, "stuck")
PeerResumes(c) == PeerTurns(c, "live")
PeerDrops(c) == PeerTurns(c, "eof")

-----------------------------------------------------------------------------
TaskStep(t) ==
  \/ Begin(t) \/ DialOk(t) \/ DialFails(t) \/ GreetOk(t) \/ GreetFails(t) \/ StateRaises(t)
  \/ ReadChunk(t) \/ ReadFails(t) \/ Stale(t) \/ CallbackRaises(t)
  \/ CloseDone(t) \/ Wake(t) \/ Cancelled(t)

Next ==
  \/ Start \/ Stop \/ Joined \/ StopDone \/ Send \/ SendDone
  \/ \E t \in Task : TaskStep(t)
  \/ \E c \in Conn : \/ Collected(c) \/ Flushed(c) \/ PeerMutes(c) \/ PeerSticks(c)
                     \/ PeerResumes(c) \/ PeerDrops(c)

Spec == Init /\ [][Next]_vars

\* The event loop runs what is ready, timeouts expire, and a bridge that is
\* tried again and again is reached now and then.
Fairness ==
  /\ WF_vars(Joined) /\ WF_vars(StopDone)
  /\ WF_vars(drain \notin unsent /\ SendDone)
  /\ \A c \in Conn : WF_vars(Flushed(c))
  /\ \A t \in Task :
       /\ WF_vars(Begin(t)) /\ WF_vars(CloseDone(t)) /\ WF_vars(Wake(t))
       /\ WF_vars(Cancelled(t)) /\ WF_vars(ReadFails(t)) /\ WF_vars(Stale(t))
       /\ WF_vars(DialOk(t) \/ DialFails(t)) /\ SF_vars(DialOk(t))
       /\ SF_vars(GreetOk(t) \/ GreetFails(t)) /\ SF_vars(GreetOk(t))

FairSpec == Spec /\ Fairness

-----------------------------------------------------------------------------
\* Properties

\* Tasks on the same object never get into each other's way: start is not called
\* before the last stop has returned.
InTurn == "overlap" \notin may

\* A host that was told it is connected has a connection to write to, even when start
\* overlaps a stop, and with callers that take turns a live background task that reads
\* the very connection send writes to (_set_connected, _close).
ConnectedIsServed ==
  connected =>
    /\ writer # 0
    /\ InTurn => /\ task # 0 \/ stopping.at = "joining"
                 /\ \E t \in Task : run[t].at = "read" /\ run[t].conn = writer

\* Every connection is either the writer's or on its way to be closed: what was
\* opened is closed whatever goes wrong in between (the finally of _run), with one
\* exception, which an on_state that raises in _close makes: the writer it keeps open
\* is closed by the next _close, but a start before that overwrites it.
NoLeak ==
  InTurn => \A c \in Conn : peer[c] # "none" => c = writer \/ c \in closing \/ c \in left

\* When stop has returned, and nobody has called start since, nothing runs and
\* whatever was open is closed or has been told to ("Cancel the loop and close the
\* connection", stop), the writer on_state made _close keep included; but not a
\* connection left before, whose writer a start has overwritten since.
StoppedIsQuiet ==
  InTurn /\ stopping.at = "idle" /\ ~wanted =>
    /\ \A t \in Task : Finished(t)
    /\ writer = 0 /\ ~connected
    /\ \A c \in Conn : peer[c] = "none" \/ c \in closing \/ c \in left

\* A loop that was started and not stopped is running ("start the background
\* connect/read loop", start), whatever the bridge does.
KeepsRunning ==
  InTurn /\ may \cap {"raise", "state"} = {} /\ wanted /\ stopping.at = "idle" => Running

\* With well-behaved callbacks, over a network that drops connections and goes quiet, a
\* loop that is wanted gets its connection back, and does not stay with one that has gone
\* quiet ("one connection that stays up and heals itself", "tear down when inbound bytes
\* go quiet", module docstring).
GoneQuiet == connected /\ peer[writer] = "mute"
Heals == may = {} => []<>(connected \/ ~wanted) /\ []<>~GoneQuiet

\* stop comes back (connection.py stop: it awaits the task it has cancelled).
StopReturns == stopping.at # "idle" ~> stopping.at = "idle"
=============================================================================
