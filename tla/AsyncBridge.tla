---------------------------- MODULE AsyncBridge -----------------------------
(***************************************************************************)
(* AsyncSppBridge of spp.py: tasks of one event loop that share a client.  *)
(* Between two awaits a task runs alone; the loop resumes those woken in   *)
(* the order in which they were.                                           *)
(*                                                                         *)
(* asyncio is external, modelled from Python 3.12 on, where wait_for runs  *)
(* the read in the task that calls it.  A StreamReader has one waiter; who *)
(* wakes forgets it, in a finally, even if it is another's by then.        *)
(*                                                                         *)
(* The device's stream is halves of frames: 2k-1 and 2k make frame k.  A   *)
(* client that connects in the middle of a frame first gets its end.       *)
(***************************************************************************)
EXTENDS Integers, SequencesExt, FiniteSetsExt

CONSTANTS
  Tasks,      \* the tasks that share the client
  Nobody,     \* no task
  MaxLinks,   \* bound on the connections
  MaxHalves,  \* bound on what the device sends on one
  MaxCalls    \* bound on the calls made on one

ASSUME AsyncAssumption == Nobody \notin Tasks /\ {MaxLinks, MaxHalves, MaxCalls} \subseteq Nat

VARIABLES
  reader,     \* _reader and _writer: "None", or what became of the transport
  stream,     \* the reader: [buffer, eof, waiter, broken]
  leftover,   \* _leftover
  task,       \* task -> [at, out]: where it is suspended, frames it has collected
  woken,      \* tasks the loop will resume, in order
  received,   \* [first, last]: the halves the reader was fed
  returned,   \* task -> frames its calls on this link have returned
  made        \* [links, calls]: for the bounds

asyncVars == <<reader, stream, leftover, task, woken, received, returned, made>>

Idle == [at |-> "idle", out |-> <<>>]
NoStream == [buffer |-> <<>>, eof |-> FALSE, waiter |-> Nobody, broken |-> FALSE]

AsyncInit ==
  /\ reader = "None" /\ stream = NoStream /\ leftover = <<>> /\ woken = <<>>
  /\ task = [t \in Tasks |-> Idle]
  /\ received = [first |-> 1, last |-> 0]
  /\ returned = [t \in Tasks |-> <<>>]
  /\ made = [links |-> 0, calls |-> 0]

At(t, places) == task[t].at \in places
Calls(t) ==
  /\ reader # "None" /\ At(t, {"idle"}) /\ made.calls < MaxCalls
  /\ made' = [made EXCEPT !.calls = @ + 1]

\* iter_frames on a stream that is in order: what is complete, after the end of a frame
\* that began before, and the rest
Complete(halves) ==
  LET skipped == IF halves # <<>> /\ Head(halves) % 2 = 0 THEN 1 ELSE 0
  IN [k \in 1..((Len(halves) - skipped) \div 2) |-> halves[skipped + 2 * k] \div 2]
Unfinished(halves) ==
  IF halves = <<>> \/ Last(halves) % 2 = 0 THEN <<>> ELSE <<Last(halves)>>

-----------------------------------------------------------------------------
\* connect; a failed one changes nothing.  The tasks of the old link are done.
OpenLink ==
  /\ reader = "None" /\ \A t \in Tasks : At(t, {"idle"})
  /\ made.links < MaxLinks
  /\ reader' = "open" /\ stream' = NoStream /\ leftover' = <<>>
  /\ \E first \in 1..2 : received' = [first |-> first, last |-> first - 1]
  /\ returned' = [t \in Tasks |-> <<>>]
  /\ made' = [links |-> made.links + 1, calls |-> 0]
  /\ UNCHANGED <<task, woken>>

-----------------------------------------------------------------------------
\* read_frames

Returns(t, out) ==
  /\ returned' = [returned EXCEPT ![t] = @ \o out]
  /\ task' = [task EXCEPT ![t] = Idle]
Fails(t) == task' = [task EXCEPT ![t] = Idle] /\ UNCHANGED returned

\* MUTANT: what is left over belongs to the call, not to the client.
FreshHalves(t) == (IF At(t, {"idle", "draining"}) THEN <<>> ELSE leftover) \o stream.buffer

\* self._leftover + chunk
Halves(t) == leftover \o stream.buffer

\* The loop until it ends or waits.  read takes all there is at once; after that the
\* window may be over, the stream may have ended or broken, or somebody else may be
\* waiting, for which asyncio raises.
ReadOn(t, waiter) ==
  LET out == task[t].out \o Complete(Halves(t))
  IN /\ leftover' = Unfinished(Halves(t))
     /\ \/ /\ stream.buffer # <<>> \/ (stream.eof /\ ~stream.broken)
           /\ Returns(t, out)
           /\ stream' = [stream EXCEPT !.buffer = <<>>, !.waiter = waiter]
        \/ /\ ~stream.eof /\ ~stream.broken /\ waiter = Nobody
           /\ task' = [task EXCEPT ![t] = [at |-> "reading", out |-> out]]
           /\ stream' = [stream EXCEPT !.buffer = <<>>, !.waiter = t]
           /\ UNCHANGED returned
        \/ /\ stream.broken \/ (~stream.eof /\ waiter # Nobody)
           /\ Fails(t)
           /\ stream' = [stream EXCEPT !.buffer = <<>>, !.waiter = waiter]

ReadFrames(t) ==
  /\ Calls(t)
  /\ IF stream.broken THEN Fails(t) /\ UNCHANGED <<stream, leftover>>
     ELSE ReadOn(t, stream.waiter)
  /\ UNCHANGED <<reader, woken, received>>

\* request: the frame is written; drain may suspend, and the read comes after it.
Request(t) ==
  /\ Calls(t)
  /\ task' = [task EXCEPT ![t].at = "draining"]
  /\ UNCHANGED <<reader, stream, leftover, woken, received, returned>>

\* drain returns, or raises when the link is lost; aclose may have been faster.
Drained(t) ==
  /\ At(t, {"draining"})
  /\ \/ /\ reader \in {"lost", "None"}
        /\ Fails(t) /\ UNCHANGED <<stream, leftover>>
     \/ /\ reader # "None" /\ ~stream.broken
        /\ ReadOn(t, stream.waiter)
  /\ UNCHANGED <<reader, woken, received, made>>

\* The timeout of wait_for cancels the task, whether or not it was woken already.
WindowOver(t) ==
  /\ At(t, {"reading", "fed", "failed"})
  /\ task' = [task EXCEPT ![t].at = "cancelled"]
  /\ woken' = IF At(t, {"reading"}) THEN Append(woken, t) ELSE woken
  /\ UNCHANGED <<reader, stream, leftover, received, returned, made>>

\* The reader continues.  Another may have taken what it was woken for: the empty chunk
\* ends the window as the end of the stream would.
ResumeReader(t) ==
  /\ woken # <<>> /\ t = Head(woken) /\ woken' = Tail(woken)
  /\ LET forgets == stream' = [stream EXCEPT !.waiter = Nobody]
     IN \/ /\ At(t, {"fed"}) /\ stream.buffer # <<>>
           /\ ReadOn(t, Nobody)
        \/ /\ At(t, {"cancelled"}) \/ (At(t, {"fed"}) /\ stream.buffer = <<>>)
           /\ Returns(t, task[t].out) /\ forgets /\ UNCHANGED leftover
        \/ /\ At(t, {"failed"})
           /\ Fails(t) /\ forgets /\ UNCHANGED leftover
  /\ UNCHANGED <<reader, received, made>>

-----------------------------------------------------------------------------
\* aclose: the transport closes, and connection_lost ends it.

AClose(t) ==
  /\ reader # "None" /\ At(t, {"idle"})
  /\ IF reader = "lost"
     THEN reader' = "None" /\ UNCHANGED task
     ELSE reader' = "closing" /\ task' = [task EXCEPT ![t].at = "closing"]
  /\ UNCHANGED <<stream, leftover, woken, received, returned, made>>

\* wait_closed has returned, or raised an OSError; the finally.
CloseEnds(t) ==
  /\ woken # <<>> /\ t = Head(woken) /\ woken' = Tail(woken)
  /\ At(t, {"closing"})
  /\ reader' = "None" /\ task' = [task EXCEPT ![t] = Idle]
  /\ UNCHANGED <<stream, leftover, received, returned, made>>

-----------------------------------------------------------------------------
\* The transport and the device

\* The waiter, if it still waits, is woken.
Wake(place, s) ==
  LET t == stream.waiter
  IN /\ stream' = [s EXCEPT !.waiter = Nobody]
     /\ IF t = Nobody \/ ~At(t, {"reading"}) THEN UNCHANGED <<task, woken>>
        ELSE task' = [task EXCEPT ![t].at = place] /\ woken' = Append(woken, t)

Feed ==
  /\ reader = "open" /\ ~stream.eof /\ received.last < MaxHalves
  /\ received' = [received EXCEPT !.last = @ + 1]
  /\ Wake("fed", [stream EXCEPT !.buffer = Append(@, received.last + 1)])
  /\ UNCHANGED <<reader, leftover, returned, made>>

FeedEof ==
  /\ reader = "open" /\ ~stream.eof
  /\ Wake("fed", [stream EXCEPT !.eof = TRUE])
  /\ UNCHANGED <<reader, leftover, received, returned, made>>

\* connection_lost: an eof or the exception for the reader, then for who is closing.
ConnectionLost ==
  /\ reader = "closing" \/ reader = "open"
  /\ reader' = "lost"
  /\ LET closers == SetToSeq({t \in Tasks : At(t, {"closing"})})
         waiter  == stream.waiter
         wakes   == IF waiter # Nobody /\ At(waiter, {"reading"}) THEN <<waiter>> ELSE <<>>
         broken  == reader = "open"
     IN /\ stream' = [stream EXCEPT !.waiter = Nobody, !.broken = broken, !.eof = ~broken \/ @]
        /\ task' = [t \in Tasks |->
             IF t \in ToSet(wakes)
             THEN [task[t] EXCEPT !.at = IF broken THEN "failed" ELSE "fed"]
             ELSE task[t]]
        /\ woken' = woken \o wakes \o closers
  /\ UNCHANGED <<leftover, received, returned, made>>

AsyncNext ==
  \/ OpenLink \/ Feed \/ FeedEof \/ ConnectionLost
  \/ \E t \in Tasks : \/ ReadFrames(t) \/ Request(t) \/ Drained(t)
                      \/ WindowOver(t) \/ ResumeReader(t) \/ AClose(t) \/ CloseEnds(t)

AsyncSpec == AsyncInit /\ [][AsyncNext]_asyncVars

-----------------------------------------------------------------------------
\* Property

\* Tasks that share a client share its frames and lose none: on a link that has not
\* broken, each frame the reads have completed is with exactly one task, and each task
\* has its own in the device's order; a frame begun before the client connected is with
\* none (AsyncSppBridge.read_frames, its _leftover across tasks, windows and links).
EachFrameOnce ==
  LET has(t)   == returned[t] \o task[t].out
      taken    == received.last - Len(stream.buffer)
      complete == {k \in 1..MaxHalves : received.first < 2 * k /\ 2 * k <= taken}
  IN ~stream.broken =>
       /\ \A t \in Tasks : /\ ToSet(has(t)) \subseteq complete
                           /\ \A i, j \in DOMAIN has(t) : i < j => has(t)[i] < has(t)[j]
       /\ \A k \in complete : Cardinality({t \in Tasks : k \in ToSet(has(t))}) = 1
=============================================================================
