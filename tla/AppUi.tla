------------------------------- MODULE AppUi --------------------------------
(***************************************************************************)
(* uiauto.py and AndroidDriver.tap: dump the screen, find a node by its    *)
(* label, tap its centre, while the app goes on changing its screen.       *)
(*                                                                         *)
(* A node is [text, desc, resource_id, bounds, clickable].  Labels match   *)
(* as substrings: a field is the set of the labels that occur in it.       *)
(* bounds are the four numbers of the attribute, <<>> when it is missing.  *)
(* "uiautomator dump" gives up on a screen that does not come to rest and  *)
(* still exits with 0; the file on the phone then is what it was.          *)
(***************************************************************************)
EXTENDS Integers, SequencesExt

CONSTANTS
  Screens,   \* name -> what is on that screen, in the order of the hierarchy
  Queries    \* labels callers ask for, each with the fields they ask to look in

Field == {"text", "desc", "resource_id"}
Node == [text : SUBSET STRING, desc : SUBSET STRING, resource_id : SUBSET STRING,
         bounds : Seq(Int), clickable : BOOLEAN]

\* What is on a screen covers at least a pixel, wherever it has been scrolled to.
HasArea(b) == Len(b) = 4 /\ b[1] < b[3] /\ b[2] < b[4]

ASSUME UiAssumption ==
  /\ \A name \in DOMAIN Screens :
       /\ Screens[name] \in Seq(Node)
       /\ \A i \in DOMAIN Screens[name] :
            LET b == Screens[name][i].bounds IN b # <<>> => HasArea(b)
  /\ Queries \subseteq [label : STRING, fields : SUBSET Field]

VARIABLES
  screen,    \* the screen the app shows
  remote,    \* the file of the last dump, <<name of the screen>> or <<>>
  tapping,   \* the tap in progress: [at, query, node]
  current,   \* the file is of this tap's dump, and the screen has not changed since
  touched    \* the last tap: <<[query, point, on, current]>> or <<>>

uiVars == <<screen, remote, tapping, current, touched>>

NotTapping == [at |-> "idle", query |-> <<>>, node |-> <<>>]

-----------------------------------------------------------------------------
\* uiauto.py

\* The pattern has no minus sign.
ParseBounds(bounds) == IF \E i \in DOMAIN bounds : bounds[i] < 0 THEN <<>> ELSE bounds

ParseUiDump(hierarchy) ==
  [i \in DOMAIN hierarchy |-> [hierarchy[i] EXCEPT !.bounds = ParseBounds(@)]]

Center(node) ==
  LET b == node.bounds
  IN IF b = <<>> THEN <<>> ELSE <<(b[1] + b[3]) \div 2, (b[2] + b[4]) \div 2>>

Matches(node, query) == \E f \in query.fields : query.label \in node[f]

\* The first that matches; <<>> is None.
FindNode(nodes, query, clickableOnly) ==
  LET k == SelectInSeq(nodes, LAMBDA node :
             Matches(node, query) /\ (clickableOnly => node.clickable))
  IN IF k = 0 THEN <<>> ELSE <<nodes[k]>>

-----------------------------------------------------------------------------
\* The app and the phone

UiInit ==
  /\ screen \in DOMAIN Screens /\ remote = <<>>
  /\ tapping = NotTapping /\ current = FALSE /\ touched = <<>>

\* The app shows another screen, by itself or because of what the user did.
Shows(name) ==
  /\ name # screen /\ screen' = name /\ current' = FALSE
  /\ UNCHANGED <<remote, tapping, touched>>

-----------------------------------------------------------------------------
\* AndroidDriver

\* MUTANT: a screen that was dumped before is not dumped again.
DumpOnce(query) ==
  /\ tapping.at = "idle"
  /\ tapping' = [at |-> "dumped", query |-> query, node |-> <<>>]
  /\ current' = TRUE
  /\ remote' = IF remote = <<>> THEN <<screen>> ELSE remote
  /\ UNCHANGED <<screen, touched>>

\* tap: the shell command of dump_ui
Dump(query) ==
  /\ tapping.at = "idle"
  /\ tapping' = [at |-> "dumped", query |-> query, node |-> <<>>]
  /\ \/ remote' = <<screen>> /\ current' = TRUE
     \/ remote' = remote /\ current' = FALSE
  /\ UNCHANGED <<screen, touched>>

\* cat fails without a file; tap raises without a node, or without its bounds.
Find ==
  /\ tapping.at = "dumped"
  /\ LET node == IF remote = <<>> THEN <<>>
                 ELSE FindNode(ParseUiDump(Screens[remote[1]]), tapping.query, FALSE)
     IN tapping' = IF node = <<>> \/ Center(node[1]) = <<>> THEN NotTapping
                   ELSE [tapping EXCEPT !.at = "found", !.node = node]
  /\ UNCHANGED <<screen, remote, current, touched>>

\* tap_xy; the app may react at once.
TapXy ==
  /\ tapping.at = "found"
  /\ touched' = <<[query |-> tapping.query, point |-> Center(tapping.node[1]),
                   on |-> screen, current |-> current]>>
  /\ tapping' = NotTapping
  /\ UNCHANGED <<screen, remote, current>>

UiNext ==
  \/ \E name \in DOMAIN Screens : Shows(name)
  \/ \E query \in Queries : Dump(query)
  \/ Find \/ TapXy

UiSpec == UiInit /\ [][UiNext]_uiVars

-----------------------------------------------------------------------------
\* Property

Inside(point, b) == /\ b[1] <= point[1] /\ point[1] < b[3]
                    /\ b[2] <= point[2] /\ point[2] < b[4]

\* A tap whose dump is of the screen it lands on hits a node with the label it was asked
\* for, in one of the fields asked for, whatever the dumps before it showed ("Re-dump
\* every step", TECHNIQUES.md; AndroidDriver.tap, uiauto.py).
TapHitsLabel ==
  touched # <<>> /\ touched[1].current =>
    LET nodes == Screens[touched[1].on]
    IN \E i \in DOMAIN nodes :
         /\ Matches(nodes[i], touched[1].query)
         /\ nodes[i].bounds # <<>> /\ Inside(touched[1].point, nodes[i].bounds)
=============================================================================
