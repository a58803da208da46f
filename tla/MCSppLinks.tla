----------------------------- MODULE MCSppLinks -----------------------------
(* Small instances of SppLinks for TLC: two devices whose servers listen on  *)
(* different channels, the first with a configured channel and a handshake.  *)
EXTENDS SppLinks, TLC

MCRemote == [d \in Device |-> d]
MCConfig == [d \in Device |-> IF d = 1 THEN 1 ELSE 0]
MCDiscover == [d \in Device |-> 0]
MCOnOpen == {1}
HandleSymmetry == Permutations(Handle)
=============================================================================
