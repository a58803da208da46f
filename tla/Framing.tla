------------------------------ MODULE Framing -------------------------------
(***************************************************************************)
(* untether_bt.framing: SOI | LEN | type args | CRC | EOI, optionally with *)
(* the part between the markers byte-stuffed.                              *)
(*                                                                         *)
(* A byte is a number below Base (256 in the code): everything the parser  *)
(* decides is a comparison of bytes or arithmetic on fields of bytes, and  *)
(* a smaller Base makes the collisions it must survive frequent.           *)
(***************************************************************************)
EXTENDS Integers, SequencesExt

CONSTANTS
  Base,       \* values of a byte
  Framings    \* the Framing objects there are

VARIABLE framing   \* self, which no operation changes

Byte == 0..(Base - 1)

ASSUME FramingAssumption ==
  /\ Base \in Nat \ {0}
  /\ \A f \in Framings :
       /\ {f.lenBytes, f.crcBytes} \subseteq Nat \ {0}
       /\ {f.soi, f.eoi, f.escape} \cup f.targets \subseteq Byte /\ f.soi # f.eoi
       /\ {f.lenCountsCrc, f.stuffed} \subseteq BOOLEAN
       /\ {f.maxFrame, f.offset} \subseteq Nat
       /\ f.stuffed => /\ {f.soi, f.eoi, f.escape} \subseteq f.targets
                       /\ f.escape \notin {f.soi, f.eoi}
                       /\ \A b \in f.targets : b + f.offset \in Byte \ f.targets

Soi == framing.soi
Eoi == framing.eoi
LenBytes == framing.lenBytes
CrcBytes == framing.crcBytes
MaxFrame == framing.maxFrame
Stuffed == framing.stuffed      \* is there a Stuffing?
Escape == framing.escape        \* of that Stuffing, as are Targets and Offset
Targets == framing.targets
Offset == framing.offset

Take(s, n) == SubSeq(s, 1, n)
Drop(s, n) == SubSeq(s, n + 1, Len(s))

-----------------------------------------------------------------------------
\* Fields

\* n.to_bytes(width, "little") and int.from_bytes(s, "little").
ToBytes(n, width) ==
  LET left[i \in 0..width] == IF i = 0 THEN n ELSE left[i - 1] \div Base
  IN [i \in 1..width |-> left[i - 1] % Base]
FromBytes(s) ==
  LET value[k \in 0..Len(s)] ==
        IF k = 0 THEN 0 ELSE s[Len(s) + 1 - k] + Base * value[k - 1]
  IN value[Len(s)]

Total(data) ==
  LET total[k \in 0..Len(data)] == IF k = 0 THEN 0 ELSE total[k - 1] + data[k]
  IN total[Len(data)]

\* MUTANT: crc_sum16 without the mask.
CrcWide(data) == Total(data)

\* self.crc: the sum, masked to the width of the CRC field.  For the two bytes of the
\* default it is crc_sum16; a Framing of another width is given its own function, since
\* with crc_sum16 a sum of 256 does not fit one byte and build raises OverflowError.
Crc(data) == FromBytes(ToBytes(Total(data), CrcBytes))

Counted == IF framing.lenCountsCrc THEN CrcBytes ELSE 0

-----------------------------------------------------------------------------
\* Stuffing

Encode(data) ==
  FlattenSeq([i \in DOMAIN data |->
    IF data[i] \in Targets THEN <<Escape, data[i] + Offset>> ELSE <<data[i]>>])

Decode(data) ==
  LET n == Len(data)
      decoded[i \in 1..(n + 2)] ==
        IF i > n THEN <<>>
        ELSE IF data[i] = Escape /\ i < n
             THEN <<(data[i + 1] + Base - Offset) % Base>> \o decoded[i + 2]
             ELSE <<data[i]>> \o decoded[i + 1]
  IN decoded[1]

-----------------------------------------------------------------------------
\* Building

Frame(type, args) == [type |-> type, args |-> args]
AFrame == [type : Byte, args : Seq(Byte)]

Build(frame) ==
  LET body == <<frame.type>> \o frame.args
      crcd == ToBytes(Len(body) + Counted, LenBytes) \o body
      inner == crcd \o ToBytes(Crc(crcd), CrcBytes)
  IN <<Soi>> \o (IF Stuffed THEN Encode(inner) ELSE inner) \o <<Eoi>>

-----------------------------------------------------------------------------
\* Parsing.  A frame that may be missing is a sequence of at most one.  "From" is what the
\* loop makes of the buffer from each index on.

DecodeInner(inner) ==
  LET bodyLen == FromBytes(Take(inner, LenBytes)) - Counted
      crcAt == LenBytes + bodyLen
  IN IF /\ Len(inner) >= LenBytes + 1 + CrcBytes
        /\ bodyLen >= 1
        /\ crcAt + CrcBytes = Len(inner)
        /\ FromBytes(Drop(inner, crcAt)) = Crc(Take(inner, crcAt))
     THEN <<Frame(inner[LenBytes + 1], SubSeq(inner, LenBytes + 2, crcAt))>>
     ELSE <<>>

\* LEN of a frame that would start at i, and the index of its EOI.
LenAt(buf, i) == FromBytes(SubSeq(buf, i + 1, i + LenBytes))
EndAt(buf, i) == i + 1 + LenBytes + LenAt(buf, i) - Counted + CrcBytes

\* "implausibly large LEN": what the parser does not wait for.
Implausible(len) == len < 1 + CrcBytes \/ len > MaxFrame

\* Must the parser wait for more bytes at i?
WaitsAt(buf, i) ==
  /\ buf[i] = Soi
  /\ \/ i + LenBytes > Len(buf)
     \/ ~Implausible(LenAt(buf, i)) /\ EndAt(buf, i) > Len(buf)

\* The frame at i of a buffer that need not wait there.
FrameAt(buf, i) ==
  IF \/ buf[i] # Soi
     \/ Implausible(LenAt(buf, i))
     \/ buf[EndAt(buf, i)] # Eoi
  THEN <<>>
  ELSE DecodeInner(SubSeq(buf, i + 1, EndAt(buf, i) - 1))

Parsed(frames, rest) == [frames |-> frames, rest |-> rest]
Before(found, parsed) == Parsed(found \o parsed.frames, parsed.rest)

UnstuffedFrom(buf) ==
  LET n == Len(buf)
      from[i \in 1..(n + 1)] ==
        IF i > n \/ WaitsAt(buf, i) THEN Parsed(<<>>, Drop(buf, i - 1))
        ELSE LET found == FrameAt(buf, i)
             IN IF found = <<>> THEN from[i + 1]
                ELSE Before(found, from[EndAt(buf, i) + 1])
  IN from

IterUnstuffed(buf) == UnstuffedFrom(buf)[1]

\* MUTANT: the parser stays at a frame it cannot decode.
StuffedFromStrict(buf) ==
  LET n == Len(buf)
      from[i \in 1..(n + 1)] ==
        IF i > n THEN Parsed(<<>>, <<>>)
        ELSE IF buf[i] # Soi THEN from[i + 1]
        ELSE LET j == SelectInSubSeq(buf, i + 1, n, LAMBDA b : b = Eoi)
                 found == DecodeInner(Decode(SubSeq(buf, i + 1, j - 1)))
             IN IF j = 0 \/ found = <<>> THEN Parsed(<<>>, Drop(buf, i - 1))
                ELSE Before(found, from[j + 1])
  IN from

StuffedFrom(buf) ==
  LET n == Len(buf)
      from[i \in 1..(n + 1)] ==
        IF i > n THEN Parsed(<<>>, <<>>)
        ELSE IF buf[i] # Soi THEN from[i + 1]
        ELSE LET j == SelectInSubSeq(buf, i + 1, n, LAMBDA b : b = Eoi)
             IN IF j = 0 THEN Parsed(<<>>, Drop(buf, i - 1))
                ELSE Before(DecodeInner(Decode(SubSeq(buf, i + 1, j - 1))),
                            from[j + 1])
  IN from

IterStuffed(buf) == StuffedFrom(buf)[1]

IterFrames(buf) == IF Stuffed THEN IterStuffed(buf) ELSE IterUnstuffed(buf)
=============================================================================
