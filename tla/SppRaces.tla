------------------------------ MODULE SppRaces ------------------------------
(***************************************************************************)
(* The two tasks of the bridge, access by access, for one device.          *)
(*                                                                         *)
(* SppDevice and UntetherSpp are shared without a lock: the Bluedroid task *)
(* may run between any two accesses of the loop task and the other way     *)
(* round.  loopAt and callAt say which access each task makes next.        *)
(* millis() wraps at Wrap; time passes between any two accesses, but one   *)
(* pass through the loop or one callback takes no more than one tick.      *)
(*                                                                         *)
(* connecting_idx_ is not volatile: where the code reads it twice in a     *)
(* row, the build may read it once or twice.  Read again it may be -1, and *)
(* the write goes to devices_[-1], outside the vector: it may hit memory   *)
(* that matters to nothing here, or fault and restart the board.  Each of  *)
(* these outcomes is a behaviour (WantAgain, ConnectFound, Fault).         *)
(* spp_congested, which only delays the handshake, is in TcpBridge.        *)
(***************************************************************************)
EXTENDS Naturals

CONSTANTS
  Wrap,            \* millis() counts modulo Wrap (2^32)
  Start,           \* what millis() may be when the stack comes up
  ConnectTimeout,  \* CONNECT_TIMEOUT_MS
  MinBackoff,      \* the initial backoff_ms
  MaxBackoff,      \* MAX_BACKOFF_MS
  Settle,          \* the 300 ms of send_on_open_
  Configured,      \* which devices there are: with a configured channel, or without
  AnswerTime,      \* how long the stack may take to answer
  MaxTicks,        \* bound: how far time advances
  MaxLinks         \* bound: links opened

ASSUME TimeAssumption ==
  /\ {Wrap, ConnectTimeout, MinBackoff, MaxBackoff, Settle} \subseteq Nat \ {0}
  /\ ConnectTimeout + MaxTicks < Wrap
  /\ MinBackoff <= MaxBackoff
  /\ Start \subseteq 0..(Wrap - 1)
  /\ Configured \subseteq BOOLEAN
  /\ {AnswerTime, MaxTicks, MaxLinks} \subseteq Nat

Links == 1..MaxLinks
NoHandle == 0

VARIABLES
  clock,    \* millis()
  ticks,    \* time since the stack came up, never wrapping
  slow,     \* the tasks during whose current pass time has advanced
  b,        \* the shared fields of UntetherSpp and SppDevice
  loopAt,   \* loop task: its next access
  now,      \* loop task: its last reading of millis()
  callAt,   \* Bluedroid task: its next access
  ev,       \* Bluedroid task: the handle of the event it handles
  query,    \* stack: is an SDP query outstanding?
  calls,    \* stack: how many RFCOMM calls are outstanding
  up,       \* stack: the links that are up
  opened,   \* stack: how many links there have been
  began,    \* history: ticks when the last query or call was made
  greets,   \* history: handshakes each link got
  refused,  \* history: the handles the stack did not take a handshake for
  late,     \* history: was an attempt given up before its answer was dealt with?
  restarted \* history: did DISCOVERY_COMP ever set connect_started_?

stack == <<query, calls, up, opened>>
history == <<began, greets, refused, late, restarted>>
vars == <<clock, ticks, slow, b, loopAt, now, callAt, ev, query, calls, up, opened, began, greets,
          refused, late, restarted>>

Millis == 0..(Wrap - 1)
Fields == [connecting : BOOLEAN,          \* connecting_idx_ >= 0
           started : Millis,              \* connect_started_
           channel : BOOLEAN,             \* channel > 0
           open : BOOLEAN, handle : Links \cup {NoHandle}, want : BOOLEAN,
           lastAttempt : Millis, backoff : MinBackoff..MaxBackoff,
           pending : BOOLEAN, openAt : Millis]

LoopSteps == {"manage", "connecting?", "age?", "expire", "giveUp", "scan", "take", "claim",
              "start", "pending?", "open?", "clock", "settled?", "clear", "write"}
CallSteps == {"idle", "handle", "open", "openAt", "pending", "resolved", "failed",
              "ours?", "close", "forget", "again", "found?", "found", "lost?", "lost"}

TypeOK ==
  /\ clock \in Millis /\ now \in Millis
  /\ ticks \in 0..MaxTicks /\ began \in 0..MaxTicks
  /\ slow \subseteq {"loop", "callback"}
  /\ b \in Fields
  /\ loopAt \in LoopSteps /\ callAt \in CallSteps
  /\ ev \in Links \cup {NoHandle}
  /\ query \in BOOLEAN /\ calls \in Nat
  /\ up \subseteq Links /\ opened \in 0..MaxLinks
  /\ greets \in [Links -> Nat]
  /\ refused \subseteq Links \cup {NoHandle}
  /\ late \in BOOLEAN /\ restarted \in BOOLEAN

\* uint32_t subtraction.
Since(t, past) == (t + Wrap - past) % Wrap

-----------------------------------------------------------------------------
(* The loop task.                                                          *)

LoopMove(from, to) ==
  /\ loopAt = from
  /\ loopAt' = to
  /\ slow' = IF to = "manage" THEN slow \ {"loop"} ELSE slow
  /\ UNCHANGED <<clock, ticks, callAt, ev>>

\* manage_connections_
ReadNow ==
  /\ LoopMove("manage", "connecting?")
  /\ now' = clock
  /\ UNCHANGED <<b, stack, history>>

CheckConnecting ==
  /\ LoopMove("connecting?", IF b.connecting THEN "age?" ELSE "scan")
  /\ UNCHANGED <<b, now, stack, history>>

CheckAge ==
  /\ LoopMove("age?", IF Since(now, b.started) > ConnectTimeout THEN "expire" ELSE "pending?")
  /\ UNCHANGED <<b, now, stack, history>>

\* MUTANT: the device is not queued again.
WantNever == UNCHANGED b

\* devices_[connecting_idx_].want_reconnect = true, with the index read again or not:
\* read as -1, the write is not to the device (and may fault, see Fault).
WantAgain == b' = [b EXCEPT !.want = TRUE] \/ (~b.connecting /\ UNCHANGED b)

Expire ==
  /\ LoopMove("expire", "giveUp")
  /\ WantAgain
  /\ UNCHANGED <<now, stack, history>>

GiveUp ==
  /\ LoopMove("giveUp", "pending?")
  /\ b' = [b EXCEPT !.connecting = FALSE]
  /\ late' = (late \/ query \/ calls > 0 \/ callAt # "idle")
  /\ UNCHANGED <<now, stack, began, greets, refused, restarted>>

Scan ==
  /\ LoopMove("scan", IF ~b.open /\ b.want /\ Since(now, b.lastAttempt) >= b.backoff
                      THEN "take" ELSE "pending?")
  /\ UNCHANGED <<b, now, stack, history>>

Take ==
  /\ LoopMove("take", "claim")
  /\ b' = [b EXCEPT !.lastAttempt = now, !.want = FALSE]
  /\ UNCHANGED <<now, stack, history>>

Claim ==
  /\ LoopMove("claim", "start")
  /\ b' = [b EXCEPT !.connecting = TRUE]
  /\ UNCHANGED <<now, stack, history>>

\* MUTANT: connect_started_ is not set.
StartUntimed ==
  /\ LoopMove("start", "pending?")
  /\ b' = [b EXCEPT !.backoff = IF 2 * @ < MaxBackoff THEN 2 * @ ELSE MaxBackoff]
  /\ IF b.channel THEN calls' = calls + 1 /\ UNCHANGED query
                  ELSE query' = TRUE /\ UNCHANGED calls
  /\ began' = ticks
  /\ UNCHANGED <<now, up, opened, greets, refused, late, restarted>>

StartAttempt ==
  /\ LoopMove("start", "pending?")
  /\ b' = [b EXCEPT !.started = now,
                    !.backoff = IF 2 * @ < MaxBackoff THEN 2 * @ ELSE MaxBackoff]
  /\ IF b.channel THEN calls' = calls + 1 /\ UNCHANGED query
                  ELSE query' = TRUE /\ UNCHANGED calls
  /\ began' = ticks
  /\ UNCHANGED <<now, up, opened, greets, refused, late, restarted>>

\* send_on_open_
CheckPending ==
  /\ LoopMove("pending?", IF b.pending THEN "open?" ELSE "manage")
  /\ UNCHANGED <<b, now, stack, history>>

CheckOpen ==
  /\ LoopMove("open?", IF b.open THEN "clock" ELSE "manage")
  /\ UNCHANGED <<b, now, stack, history>>

\* MUTANT: pending_on_open is cleared before the delay is checked.
ReadClockClears ==
  /\ LoopMove("clock", "settled?")
  /\ now' = clock
  /\ b' = [b EXCEPT !.pending = FALSE]
  /\ UNCHANGED <<stack, history>>

ReadClock ==
  /\ LoopMove("clock", "settled?")
  /\ now' = clock
  /\ UNCHANGED <<b, stack, history>>

CheckSettled ==
  /\ LoopMove("settled?", IF Since(now, b.openAt) >= Settle THEN "clear" ELSE "manage")
  /\ UNCHANGED <<b, now, stack, history>>

ClearPending ==
  /\ LoopMove("clear", "write")
  /\ b' = [b EXCEPT !.pending = FALSE]
  /\ UNCHANGED <<now, stack, history>>

\* The handle is read for the write.  The stack sends it if that link is up, or
\* refuses it, at once or by a failed WRITE event; the status is ignored.
WriteHandshake ==
  /\ LoopMove("write", "manage")
  /\ \/ /\ b.handle \in up
        /\ greets' = [greets EXCEPT ![b.handle] = @ + 1]
        /\ UNCHANGED refused
     \/ refused' = refused \cup {b.handle} /\ UNCHANGED greets
  /\ UNCHANGED <<b, now, stack, began, late, restarted>>

LoopTask ==
  \/ ReadNow \/ CheckConnecting \/ CheckAge \/ Expire \/ GiveUp
  \/ Scan \/ Take \/ Claim \/ StartAttempt
  \/ CheckPending \/ CheckOpen \/ ReadClock \/ CheckSettled \/ ClearPending \/ WriteHandshake

-----------------------------------------------------------------------------
(* The Bluedroid task: events as they arrive, then the accesses of their   *)
(* handlers in on_spp_event.                                               *)

Event(first, h) ==
  /\ callAt = "idle"
  /\ callAt' = first
  /\ ev' = h
  /\ UNCHANGED <<clock, ticks, slow, b, loopAt, now, history>>

DiscoveryFound ==
  /\ query /\ query' = FALSE
  /\ Event("found?", NoHandle)
  /\ UNCHANGED <<calls, up, opened>>

DiscoveryFailed ==
  /\ query /\ query' = FALSE
  /\ Event("lost?", NoHandle)
  /\ UNCHANGED <<calls, up, opened>>

OpenOk ==
  /\ calls > 0 /\ calls' = calls - 1
  /\ opened < MaxLinks /\ opened' = opened + 1
  /\ up' = up \cup {opened'}
  /\ Event("handle", opened')
  /\ UNCHANGED query

OpenFailed ==
  /\ calls > 0 /\ calls' = calls - 1
  /\ Event("failed", NoHandle)
  /\ UNCHANGED <<query, up, opened>>

\* A call that closes before any OPEN, or a query that is never answered: nothing
\* in the bridge changes.
Dies ==
  /\ \/ calls > 0 /\ calls' = calls - 1 /\ UNCHANGED query
     \/ query /\ query' = FALSE /\ UNCHANGED calls
  /\ Event("idle", NoHandle)
  /\ UNCHANGED <<up, opened>>

Close ==
  /\ \E h \in up : up' = up \ {h} /\ Event("ours?", h)
  /\ UNCHANGED <<query, calls, opened>>

CallMove(from, to) ==
  /\ callAt = from
  /\ callAt' = to
  /\ slow' = IF to = "idle" THEN slow \ {"callback"} ELSE slow
  /\ ev' = IF to = "idle" THEN NoHandle ELSE ev
  /\ UNCHANGED <<clock, ticks, loopAt, now>>

\* One assignment of a handler.
Assign(from, to, value) ==
  /\ CallMove(from, to)
  /\ b' = value
  /\ UNCHANGED <<stack, history>>

\* MUTANT: a handle that is there already is kept.
SetHandleOnce == Assign("handle", "open", [b EXCEPT !.handle = IF @ = NoHandle THEN ev ELSE @])

\* OPEN
SetHandle == Assign("handle", "open", [b EXCEPT !.handle = ev])
SetOpen == Assign("open", "openAt", [b EXCEPT !.open = TRUE])
SetOpenAt == Assign("openAt", "pending", [b EXCEPT !.backoff = MinBackoff, !.openAt = clock])
SetPending == Assign("pending", "resolved", [b EXCEPT !.pending = TRUE])
SetFailed == Assign("failed", "resolved", [b EXCEPT !.want = TRUE])
SetResolved == Assign("resolved", "idle", [b EXCEPT !.connecting = FALSE])

\* CLOSE
CheckOurs == Assign("ours?", IF b.open /\ b.handle = ev THEN "close" ELSE "idle", b)
SetClosed == Assign("close", "forget", [b EXCEPT !.open = FALSE])
ForgetHandle == Assign("forget", "again", [b EXCEPT !.handle = NoHandle])
SetAgain == Assign("again", "idle", [b EXCEPT !.want = TRUE])

\* DISCOVERY_COMP
CheckFound == Assign("found?", IF b.connecting THEN "found" ELSE "idle", b)
CheckLost == Assign("lost?", IF b.connecting THEN "lost" ELSE "idle", b)

SetLost ==
  /\ CallMove("lost", "resolved")
  /\ WantAgain
  /\ UNCHANGED <<stack, history>>

ConnectFound ==
  /\ CallMove("found", "idle")
  /\ \/ /\ b' = [b EXCEPT !.channel = TRUE, !.started = clock]
        /\ calls' = calls + 1
     \/ /\ ~b.connecting
        /\ b' = [b EXCEPT !.started = clock]
        /\ UNCHANGED calls
  /\ began' = ticks
  /\ restarted' = TRUE
  /\ UNCHANGED <<query, up, opened, greets, refused, late>>

Handler ==
  \/ SetHandle \/ SetOpen \/ SetOpenAt \/ SetPending \/ SetFailed \/ SetResolved
  \/ CheckOurs \/ SetClosed \/ ForgetHandle \/ SetAgain
  \/ CheckFound \/ CheckLost \/ SetLost \/ ConnectFound

Events == DiscoveryFound \/ DiscoveryFailed \/ OpenOk \/ OpenFailed \/ Dies \/ Close

-----------------------------------------------------------------------------

\* Time passes.  No answer is outstanding for longer than AnswerTime.
Running == {t \in {"loop", "callback"} :
              IF t = "loop" THEN loopAt # "manage" ELSE callAt # "idle"}

Tick ==
  /\ ticks < MaxTicks
  /\ Running \cap slow = {}
  /\ slow' = Running
  /\ query \/ calls > 0 => ticks - began < AnswerTime
  /\ ticks' = ticks + 1
  /\ clock' = (clock + 1) % Wrap
  /\ UNCHANGED <<b, loopAt, now, callAt, ev, stack, history>>

\* UntetherSpp and SppDevice as they are constructed, once ESP_SPP_INIT_EVT has set
\* spp_ready_ and want_reconnect; fixed says whether a channel is configured.
Constructed(fixed) ==
  [connecting |-> FALSE, started |-> 0, channel |-> fixed,
   open |-> FALSE, handle |-> NoHandle, want |-> TRUE,
   lastAttempt |-> 0, backoff |-> MinBackoff, pending |-> FALSE, openAt |-> 0]

Init ==
  /\ clock \in Start
  /\ ticks = 0 /\ began = 0 /\ slow = {}
  /\ b \in {Constructed(fixed) : fixed \in Configured}
  /\ loopAt = "manage" /\ now = clock
  /\ callAt = "idle" /\ ev = NoHandle
  /\ query = FALSE /\ calls = 0 /\ up = {} /\ opened = 0
  /\ greets = [l \in Links |-> 0] /\ refused = {}
  /\ late = FALSE /\ restarted = FALSE

\* The board restarts: both tasks, the stack and its links begin anew, and with
\* them what the histories tell of.
Reboot ==
  /\ clock' \in Start
  /\ ticks' = 0 /\ began' = 0 /\ slow' = {}
  /\ b' \in {Constructed(fixed) : fixed \in Configured}
  /\ loopAt' = "manage" /\ now' = clock'
  /\ callAt' = "idle" /\ ev' = NoHandle
  /\ query' = FALSE /\ calls' = 0 /\ up' = {} /\ opened' = 0
  /\ greets' = [l \in Links |-> 0] /\ refused' = {}
  /\ late' = FALSE /\ restarted' = FALSE

\* connecting_idx_ read again as -1 after the check that it is not: the write to
\* devices_[-1] faults.  In expire, lost and found the check has passed.
Fault ==
  /\ ~b.connecting
  /\ loopAt = "expire" \/ callAt \in {"lost", "found"}
  /\ Reboot

Work == LoopTask \/ Events \/ Handler \/ Tick

Next == Work \/ Fault

Spec == Init /\ [][Next]_vars

-----------------------------------------------------------------------------
(* Properties.                                                             *)

\* No interleaving of the two tasks passes over the handshake: between callbacks, and
\* outside the two accesses that send it, an open link has it pending, or had its
\* turn, in which the stack sent the handshake or refused it (then it is lost:
\* nothing of it is pending any more, send_on_open_ having ignored the status).
HandshakeTried ==
  callAt = "idle" /\ b.open /\ loopAt # "write" =>
    b.pending \/ greets[b.handle] > 0 \/ b.handle \in refused

\* No interleaving makes the bridge give up on the device, until an attempt is
\* given up that is still unanswered, or whose answer is just being handled.
NotForgotten ==
  ~late /\ callAt = "idle" /\ loopAt # "claim" => b.open \/ b.want \/ b.connecting

\* An attempt is only given up when its query or call is as old as the timeout, to
\* the tick.  Where DISCOVERY_COMP restarts the clock this fails: connect_started_
\* moves past the now that manage_connections_ has read.
FullBudget ==
  [][loopAt = "expire" /\ ~restarted => ticks - began >= ConnectTimeout]_loopAt

\* What the bridge takes for its open link is the newest one, unless that link's
\* own CLOSE is being handled.
NewestLink ==
  callAt = "idle" /\ b.open => b.handle = opened /\ opened \in up
=============================================================================
