------------------------------ MODULE BytePipe ------------------------------
(***************************************************************************)
(* What a lossy byte pipe promises.  Bytes are numbered in the order in    *)
(* which they enter.  Any of them may be dropped; those that leave do so   *)
(* in that order and at most once.                                         *)
(***************************************************************************)
EXTENDS Naturals, SequencesExt

VARIABLES
  sent,   \* how many bytes have entered
  out     \* the bytes that have left, in the order in which they did

Init == sent = 0 /\ out = <<>>

Enter ==
  /\ sent' \in Nat
  /\ sent' > sent
  /\ UNCHANGED out

InOrder(s) == \A i, j \in DOMAIN s : i < j => s[i] < s[j]

\* One or several bytes leave.
Leave ==
  /\ IsStrictPrefix(out, out')
  /\ InOrder(out')
  /\ \A i \in DOMAIN out' : out'[i] \in 1..sent
  /\ UNCHANGED sent

Next == Enter \/ Leave

Spec == Init /\ [][Next]_<<sent, out>>
=============================================================================
