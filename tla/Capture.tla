------------------------------ MODULE Capture -------------------------------
(***************************************************************************)
(* untether_bt.capture: from the packets of a capture to wire events, and  *)
(* from wire events and marks to correlations.                             *)
(***************************************************************************)
EXTENDS Hci

CONSTANT Window   \* window_us of correlate

ASSUME CaptureAssumption == Window \in Nat

\* Python's sort by timestamp, which is stable: the place of an element is behind all
\* that come before it.
Precedes(s, i, j) == s[i].at < s[j].at \/ (s[i].at = s[j].at /\ i < j)
ByTime(s) ==
  [k \in DOMAIN s |->
     s[CHOOSE i \in DOMAIN s : Cardinality({j \in DOMAIN s : Precedes(s, j, i)}) = k - 1]]

\* ATT PDUs first, then the other payloads; the sort keeps that order within a time.
WireEvents(packets, includeL2cap) ==
  LET att   == AttPdus(packets)
      other == Filtered(L2capPayloads(packets), LAMBDA p : p.cid # AttCid)
      Event(e, transport, data) ==
        [id |-> e.id, at |-> e.at, sent |-> ~e.received, transport |-> transport, data |-> data]
  IN ByTime([k \in DOMAIN att |-> Event(att[k], "att", att[k].value)]
            \o IF includeL2cap
               THEN [k \in DOMAIN other |-> Event(other[k], "l2cap", other[k].bytes)]
               ELSE <<>>)

\* MUTANT: a mark only counts for what comes strictly after it.
LatestStrict(marks, at) ==
  LET earlier == {i \in DOMAIN marks : marks[i].at < at}
  IN IF earlier = {} THEN 0 ELSE CHOOSE i \in earlier : \A j \in earlier : j <= i

\* MUTANT: the earliest mark at or after the time.
LatestAfter(marks, at) ==
  LET later == {i \in DOMAIN marks : marks[i].at >= at}
  IN IF later = {} THEN 0 ELSE CHOOSE i \in later : \A j \in later : i <= j

\* The last of the (sorted) marks at or before a time, or 0.
Latest(marks, at) ==
  LET earlier == {i \in DOMAIN marks : marks[i].at <= at}
  IN IF earlier = {} THEN 0 ELSE CHOOSE i \in earlier : \A j \in earlier : j <= i

Correlate(events, marks) ==
  LET sorted == ByTime(marks)
      inOrder == ByTime(events)
      Own(i, e) == Latest(sorted, e.at) = i /\ e.at - sorted[i].at <= Window
  IN [i \in DOMAIN sorted |->
       [mark |-> sorted[i],
        events |-> Filtered(inOrder, LAMBDA e : Own(i, e))]]
=============================================================================
