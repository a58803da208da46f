----------------------------- MODULE TapAndMark -----------------------------
(***************************************************************************)
(* untether_bt.android (AndroidDriver, tap_and_mark), the Recorder of      *)
(* untether_bt.capture, and the phone they drive: a harness taps one       *)
(* control of an app after another, marks each tap with the host's clock,  *)
(* pulls the phone's HCI capture and asks which frames each tap produced.  *)
(*                                                                         *)
(* The caller keeps to "drive one UI action at a time": it starts an       *)
(* action when the app's reaction to the last one is over.                 *)
(***************************************************************************)
EXTENDS Capture

CONSTANTS
  Habits,       \* what callers do: mark, then tap (TRUE), or call tap_and_mark (FALSE)
  ClockOffset,  \* the phone's clock minus the host's
  MaxAdb,       \* how long the adb calls of one tap may take
  Reaction,     \* how long after a tap the app still sends because of it
  MaxActions, MaxTime, MaxLog   \* bounds

ASSUME HarnessAssumption ==
  /\ Habits \subseteq BOOLEAN /\ ClockOffset \in Int
  /\ {MaxAdb, Reaction, MaxActions, MaxTime, MaxLog} \subseteq Nat

VARIABLES
  now,      \* the host's clock
  driver,   \* idle, finding (dump_ui), tapping (input tap), or pulled
  since,    \* when the driver's current call began
  actions,  \* actions begun; the last one is the current one
  landed,   \* when each action's tap reached the app; -1: not (yet)
  marks,    \* recorder.marks
  log,      \* the phone's capture, each record with the action that caused it
  markFirst \* which habit the caller has

vars == <<now, driver, since, actions, landed, marks, log, markFirst>>

TypeOK ==
  /\ markFirst \in Habits
  /\ now \in 0..MaxTime /\ since \in 0..now
  /\ driver \in {"idle", "finding", "tapping", "pulled"}
  /\ actions \in 0..MaxActions
  /\ landed \in [1..actions -> -1..now]
  /\ \A m \in ToSet(marks) : m.at \in 0..now /\ m.action \in 1..actions
  /\ \A r \in ToSet(log) : r.cause \in 0..actions
  /\ \A i \in DOMAIN log : log[i].id = i

Init ==
  /\ now = 0 /\ driver = "idle" /\ since = 0
  /\ actions = 0 /\ landed = <<>>
  /\ marks = <<>> /\ log = <<>> /\ markFirst \in Habits

Reacting(a) == landed[a] # -1 /\ now <= landed[a] + Reaction

-----------------------------------------------------------------------------
\* The harness

\* A caller who marks first does so now; tap begins with a dump of the screen.
TapStarts ==
  /\ driver = "idle" /\ actions < MaxActions
  /\ \A a \in 1..actions : ~Reacting(a)
  /\ driver' = "finding" /\ since' = now
  /\ actions' = actions + 1 /\ landed' = Append(landed, -1)
  /\ marks' = IF markFirst THEN Append(marks, [at |-> now, action |-> actions']) ELSE marks
  /\ UNCHANGED <<now, log, markFirst>>

\* No node matches, or adb fails before the tap has reached the phone: AdbError.
NotFound ==
  /\ driver = "finding"
  /\ driver' = "idle"
  /\ UNCHANGED <<now, since, actions, landed, marks, log, markFirst>>

\* The phone handles the tap while "input tap" is still running.
TapLands ==
  /\ driver = "finding"
  /\ driver' = "tapping"
  /\ landed' = [landed EXCEPT ![actions] = now]
  /\ UNCHANGED <<now, since, actions, marks, log, markFirst>>

\* adb returns; tap_and_mark then marks.
TapReturns ==
  /\ driver = "tapping"
  /\ driver' = "idle"
  /\ marks' = IF markFirst THEN marks
              ELSE Append(marks, [at |-> now, action |-> actions])
  /\ UNCHANGED <<now, since, actions, landed, log, markFirst>>

\* adb fails or times out after the tap has landed: what it raises passes through tap and
\* tap_and_mark, which makes no mark.
TapRaises ==
  /\ driver = "tapping"
  /\ driver' = "idle"
  /\ UNCHANGED <<now, since, actions, landed, marks, log, markFirst>>

\* pull_btsnoop
Pull ==
  /\ driver = "idle"
  /\ driver' = "pulled"
  /\ UNCHANGED <<now, since, actions, landed, marks, log, markFirst>>

-----------------------------------------------------------------------------
\* The phone

Record(cause, kind, start, cid, claims, has) ==
  [id |-> Len(log) + 1, at |-> now + ClockOffset, cause |-> cause, kind |-> kind,
   start |-> start, cid |-> cid, claims |-> claims, has |-> has]

\* The app sends because of action a: a PDU of one fragment, or of two of
\* which the second is logged like the first.
AppSends(a) ==
  /\ driver # "pulled" /\ Reacting(a) /\ Len(log) < MaxLog
  /\ \E cid \in {AttCid, 64}, has \in 1..2 :
       log' = Append(log, Record(a, "acl", TRUE, cid, 2, has))
  /\ UNCHANGED <<now, driver, since, actions, landed, marks, markFirst>>

AppContinues ==
  /\ driver # "pulled" /\ log # <<>> /\ Len(log) < MaxLog
  /\ Last(log).start /\ Last(log).has < Last(log).claims
  /\ log' = Append(log, Record(Last(log).cause, "acl", FALSE, Last(log).cid, 2, 1))
  /\ UNCHANGED <<now, driver, since, actions, landed, marks, markFirst>>

\* An HCI event of the controller, caused by no action.
ControllerReports ==
  /\ driver # "pulled" /\ Len(log) < MaxLog
  /\ log' = Append(log, Record(0, "event", TRUE, AttCid, 1, 1))
  /\ UNCHANGED <<now, driver, since, actions, landed, marks, markFirst>>

Tick ==
  /\ now < MaxTime /\ driver # "pulled"
  /\ driver \in {"finding", "tapping"} => now < since + MaxAdb
  /\ now' = now + 1
  /\ UNCHANGED <<driver, since, actions, landed, marks, log, markFirst>>

Next ==
  \/ TapStarts \/ NotFound \/ TapLands \/ TapReturns \/ TapRaises \/ Pull
  \/ \E a \in 1..actions : AppSends(a)
  \/ AppContinues \/ ControllerReports \/ Tick

Spec == Init /\ [][Next]_vars

-----------------------------------------------------------------------------
\* Properties

\* The bytes of a log entry: an H4 record of one fragment.
Snooped(r) ==
  [id |-> r.id, at |-> r.at, received |-> FALSE, cmdEvt |-> r.kind # "acl", kind |-> r.kind,
   size |-> 1 + 2 * Header + r.has, handle |-> 1, pb |-> IF r.start THEN 2 ELSE 1,
   total |-> Header + r.has, cid |-> r.cid, claims |-> r.claims,
   body |-> [b \in 1..r.has |-> 82]]

Packets == HciPackets([h4 |-> TRUE, records |-> [k \in DOMAIN log |-> Snooped(log[k])]])
Correlations == Correlate(WireEvents(Packets, TRUE), marks)

\* The PDUs of a capture that an action caused, by the record each starts with.
CausedBy(a) == {r.id : r \in {q \in ToSet(log) : q.cause = a /\ q.kind = "acl" /\ q.start}}
Ids(events) == {e.id : e \in ToSet(events)}

\* Each mark's correlation holds the frames its action produced, all of them and no
\* others ("read back exactly the frames it produced", capture.py correlate).
ReadBackExactly ==
  driver = "pulled" =>
    LET found == Correlations
    IN \A k \in DOMAIN found : Ids(found[k].events) = CausedBy(found[k].mark.action)

\* A caller who marks before each tap, and taps when the app is done with the last
\* one, does read back exactly that (capture.py Recorder.mark, correlate).
ReadBackMarkedFirst == markFirst => ReadBackExactly

\* Frames are never credited to an action that came after the one they belong to
\* (android.py tap_and_mark, whose marks come late, with capture.py correlate).
NeverCreditedLater ==
  driver = "pulled" =>
    LET found == Correlations
    IN \A k \in DOMAIN found : \A id \in Ids(found[k].events) :
         found[k].mark.action <= log[id].cause
=============================================================================
