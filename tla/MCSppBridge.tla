---------------------------- MODULE MCSppBridge -----------------------------
(***************************************************************************)
(* SppBridge with bytes below 8, the markers and the stuffing of the       *)
(* presets (1, 2; 3, {1, 2, 3}, 3), and streams in which type, arguments   *)
(* and CRC collide with the markers.                                       *)
(***************************************************************************)
EXTENDS SppBridge

\* Divoom's NewMode: LEN in two bytes, no stuffing.
NewMode ==
  [soi |-> 1, eoi |-> 2, lenBytes |-> 2, crcBytes |-> 1, lenCountsCrc |-> TRUE,
   maxFrame |-> 9, stuffed |-> FALSE, escape |-> 3, targets |-> {1, 2, 3}, offset |-> 3]

\* Its TimeBox: byte-stuffed.
TimeBox == [NewMode EXCEPT !.lenBytes = 1, !.stuffed = TRUE]

\* A LEN that does not count the CRC.
BodyOnly == [NewMode EXCEPT !.lenCountsCrc = FALSE]

MCFramings == {NewMode, TimeBox, BodyOnly}

F1 == Frame(1, <<2>>)
F2 == Frame(7, <<3, 1>>)
F3 == Frame(2, <<>>)

\* Whole frames, a frame of which the bridge has dropped the end, noise
\* without an SOI, and noise that begins like a frame.
MCReplies ==
  {<<Whole(f)>> : f \in {F1, F2, F3}}
    \cup {<<Cut(F2, 3)>>}
    \cup {<<Noise(b)>> : b \in {<<2, 7>>, <<1, 7, 7>>, <<1, 5, 0, 2>>}}
=============================================================================
