-------------------------- MODULE SppBridgeProofs --------------------------
(***************************************************************************)
(* Theorems about SppBridge, for every framing, every number of items and  *)
(* every way to cut the stream; and, first, about what the parser of       *)
(* Framing makes of bytes, on which they rest.                             *)
(***************************************************************************)
EXTENDS SppBridge, SequenceFacts

-----------------------------------------------------------------------------
(* Fields.                                                                 *)

LEMMA FramingFacts ==
  ASSUME framing \in Framings
  PROVE  /\ Base \in Nat \ {0} /\ {LenBytes, CrcBytes} \subseteq Nat \ {0}
         /\ {MaxFrame, Offset} \subseteq Nat /\ Counted \in 0..CrcBytes
         /\ {Soi, Eoi, Escape} \cup Targets \subseteq Byte
         /\ Stuffed => \A b \in Targets : b + Offset \in Byte
         /\ Stuffed \in BOOLEAN
<1>1. framing.crcBytes \in Nat \ {0} /\ framing.lenCountsCrc \in BOOLEAN
  BY FramingAssumption
<1>2. Counted \in 0..CrcBytes
  BY <1>1 DEF Counted, CrcBytes
<1> QED
  BY <1>2, FramingAssumption
     DEF Soi, Eoi, LenBytes, CrcBytes, MaxFrame, Stuffed, Escape, Targets, Offset

LEMMA SumType ==
  ASSUME NEW data \in Seq(Nat)
  PROVE  Total(data) \in Nat
<1> DEFINE n == Len(data)
           op == [k \in 1..n |-> [v \in Nat |-> v + data[k]]]
           Sums(f) == f = [k \in 0..n |-> IF k = 0 THEN 0 ELSE f[k - 1] + data[k]]
           total == CHOOSE f : Sums(f)
<1>1. n \in Nat /\ \A k \in 1..n : data[k] \in Nat
  OBVIOUS
<1>2. op \in [1..n -> [Nat -> Nat]]
  BY <1>1
<1>3. Total(data) = total[n]
  BY DEF Total
<1> HIDE DEF n
<1>4. \E f : Sums(f)
  <2>i. Iteration(n, Nat, 0, op)
    BY <1>1, <1>2 DEF Iteration
  <2> HIDE DEF op
  <2>1. PICK f \in [0..n -> Nat] : Iterates(f, n, 0, op)
    BY <2>i, UpRecursion
  <2>2. ASSUME NEW k \in 1..n PROVE f[k] = f[k - 1] + data[k]
    <3>1. f[k] = op[k][f[k - 1]] /\ k - 1 \in 0..n
      BY <1>1, <2>1 DEF Iterates
    <3>2. f[k - 1] \in Nat
      BY <3>1
    <3> QED
      BY <3>1, <3>2 DEF op
  <2>3. Sums(f)
    BY <1>1, <2>1, <2>2 DEF Iterates
  <2> QED
    BY <2>3
<1>5. Sums(total)
  BY <1>4
<1> HIDE DEF total
<1> DEFINE T == {k \in 0..n : total[k] \in Nat}
<1>6. 0 \in T /\ \A k \in 1..n : k - 1 \in T => k \in T
  <2>1. 0 \in T
    BY <1>1, <1>5
  <2>2. ASSUME NEW k \in 1..n, k - 1 \in T PROVE k \in T
    <3>1. k \in 0..n /\ k # 0 /\ total[k - 1] \in Nat /\ data[k] \in Nat
      BY <1>1, <2>2
    <3>2. total[k] = total[k - 1] + data[k]
      BY <1>5, <3>1
    <3> QED
      BY <3>1, <3>2
  <2> QED
    BY <2>1, <2>2
<1> HIDE DEF T, Sums
<1>7. 0..n \subseteq T
  BY <1>1, <1>6, UpInduction
<1> QED
  BY <1>1, <1>3, <1>7 DEF T

\* The value of the last k bytes of s, for every k.
TailValues(f, s) ==
  /\ f[0] = 0 /\ \A k \in 0..Len(s) : f[k] \in Nat
  /\ \A k \in 1..Len(s) : f[k] = s[Len(s) + 1 - k] + Base * f[k - 1]
  /\ FromBytes(s) = f[Len(s)]

LEMMA Valued ==
  ASSUME NEW s \in Seq(Nat), framing \in Framings
  PROVE  \E f : TailValues(f, s)
<1> DEFINE n == Len(s)
           op == [k \in 1..n |-> [v \in Nat |-> s[n + 1 - k] + Base * v]]
           Values(f) == f = [k \in 0..n |-> IF k = 0 THEN 0 ELSE s[n + 1 - k] + Base * f[k - 1]]
           value == CHOOSE f : Values(f)
<1>1. n \in Nat /\ \A k \in 1..n : s[n + 1 - k] \in Nat
  OBVIOUS
<1>a. \A v \in Nat : Base * v \in Nat
  BY FramingFacts
<1>b. \A k \in 1..n, v \in Nat : s[n + 1 - k] + Base * v \in Nat
  <2>1. ASSUME NEW k \in 1..n, NEW v \in Nat
        PROVE  s[n + 1 - k] + Base * v \in Nat
    <3>1. s[n + 1 - k] \in Nat /\ Base * v \in Nat
      BY <1>1, <1>a
    <3> QED
      BY <3>1
  <2> QED
    BY <2>1
<1>2. op \in [1..n -> [Nat -> Nat]]
  BY <1>b
<1>3. FromBytes(s) = value[n]
  BY DEF FromBytes
<1> HIDE DEF n
<1>4. \E f : Values(f)
  <2>1. Iteration(n, Nat, 0, op)
    BY <1>1, <1>2 DEF Iteration
  <2> HIDE DEF op
  <2>2. PICK f \in [0..n -> Nat] : Iterates(f, n, 0, op)
    BY <2>1, UpRecursion
  <2>3. ASSUME NEW k \in 1..n PROVE f[k] = s[n + 1 - k] + Base * f[k - 1]
    <3>1. f[k] = op[k][f[k - 1]] /\ k - 1 \in 0..n
      BY <1>1, <2>2 DEF Iterates
    <3>2. f[k - 1] \in Nat
      BY <3>1
    <3> QED
      BY <3>1, <3>2 DEF op
  <2>4. Values(f)
    BY <1>1, <2>2, <2>3 DEF Iterates
  <2> QED
    BY <2>4
<1>5. Values(value)
  BY <1>4
<1> HIDE DEF value
<1>6. value[0] \in Nat
  BY <1>1, <1>5
<1>7. ASSUME NEW k \in 1..n, value[k - 1] \in Nat
      PROVE  value[k] \in Nat
  <2>1. k \in 0..n /\ k # 0
    BY <1>1
  <2>2. value[k] = s[n + 1 - k] + Base * value[k - 1]
    BY <1>5, <2>1
  <2> QED
    BY <1>7, <1>b, <2>2
<1>9. value[0] = 0 /\ \A k \in 1..n : value[k] = s[n + 1 - k] + Base * value[k - 1]
  <2>1. ASSUME NEW k \in 1..n PROVE value[k] = s[n + 1 - k] + Base * value[k - 1]
    <3>1. k \in 0..n /\ k # 0
      BY <1>1
    <3> QED
      BY <1>5, <3>1
  <2> QED
    BY <1>1, <1>5, <2>1
<1> HIDE DEF Values
<1>8. \A k \in 0..n : value[k] \in Nat
  BY <1>1, <1>6, <1>7, UpValues
<1>10. TailValues(value, s)
  BY <1>3, <1>8, <1>9 DEF TailValues, n
<1> QED
  BY <1>10

LEMMA ValueType ==
  ASSUME NEW s \in Seq(Nat), framing \in Framings
  PROVE  FromBytes(s) \in Nat
<1>1. PICK f : TailValues(f, s)
  BY Valued
<1>2. Len(s) \in 0..Len(s)
  BY LenProperties
<1> QED
  BY <1>1, <1>2 DEF TailValues

\* What is left of n after every byte.
Remainders(f, n, width) ==
  /\ f[0] = n /\ \A i \in 0..width : f[i] \in Int
  /\ \A i \in 1..width : f[i] = f[i - 1] \div Base
  /\ \A i \in 1..width : ToBytes(n, width)[i] = f[i - 1] % Base

LEMMA Taken ==
  ASSUME NEW n \in Int, NEW width \in Nat, framing \in Framings
  PROVE  /\ ToBytes(n, width) \in Seq(Byte) /\ Len(ToBytes(n, width)) = width
         /\ \E f : Remainders(f, n, width)
<1> DEFINE op == [k \in 1..width |-> [v \in Int |-> v \div Base]]
           Lefts(f) == f = [i \in 0..width |-> IF i = 0 THEN n ELSE f[i - 1] \div Base]
           left == CHOOSE f : Lefts(f)
<1>1. Base \in Nat \ {0}
  BY FramingFacts
<1>a. \A v \in Int : v \div Base \in Int /\ v % Base \in 0..(Base - 1)
  BY <1>1
<1>2. op \in [1..width -> [Int -> Int]]
  BY <1>a
<1>3. ToBytes(n, width) = [i \in 1..width |-> left[i - 1] % Base]
  BY DEF ToBytes
<1>4. \E f : Lefts(f)
  <2>1. Iteration(width, Int, n, op)
    BY <1>2 DEF Iteration
  <2> HIDE DEF op
  <2>2. PICK f \in [0..width -> Int] : Iterates(f, width, n, op)
    BY <2>1, UpRecursion
  <2>3. ASSUME NEW k \in 1..width PROVE f[k] = f[k - 1] \div Base
    <3>1. f[k] = op[k][f[k - 1]] /\ k - 1 \in 0..width
      BY <2>2 DEF Iterates
    <3>2. f[k - 1] \in Int
      BY <3>1
    <3> QED
      BY <3>1, <3>2 DEF op
  <2>4. Lefts(f)
    BY <2>2, <2>3 DEF Iterates
  <2> QED
    BY <2>4
<1>5. Lefts(left)
  BY <1>4
<1> HIDE DEF left
<1>6. left[0] \in Int
  BY <1>5
<1>7. ASSUME NEW k \in 1..width, left[k - 1] \in Int
      PROVE  left[k] \in Int
  <2>1. k \in 0..width /\ k # 0
    OBVIOUS
  <2>2. left[k] = left[k - 1] \div Base
    BY <1>5, <2>1
  <2> QED
    BY <1>7, <1>a, <2>2
<1>12. left[0] = n /\ \A k \in 1..width : left[k] = left[k - 1] \div Base
  <2>1. ASSUME NEW k \in 1..width PROVE left[k] = left[k - 1] \div Base
    <3>1. k \in 0..width /\ k # 0
      OBVIOUS
    <3> QED
      BY <1>5, <3>1
  <2> QED
    BY <1>5, <2>1
<1> HIDE DEF Lefts
<1>8. \A k \in 0..width : left[k] \in Int
  BY <1>6, <1>7, UpValues
<1>9. \A i \in 1..width : left[i - 1] % Base \in Byte
  <2>1. \A i \in 1..width : left[i - 1] \in Int
    BY <1>8
  <2> QED
    BY <1>a, <2>1 DEF Byte
<1> DEFINE bytes == [i \in 1..width |-> left[i - 1] % Base]
<1>10. bytes \in [1..width -> Byte]
  BY <1>9
<1> HIDE DEF bytes
<1>11. bytes \in Seq(Byte) /\ Len(bytes) = width
  BY <1>10
<1>13. ToBytes(n, width) = bytes /\ \A i \in 1..width : bytes[i] = left[i - 1] % Base
  BY <1>3 DEF bytes
<1>14. Remainders(left, n, width)
  BY <1>8, <1>12, <1>13 DEF Remainders
<1> QED
  BY <1>11, <1>13, <1>14

LEMMA BytesType ==
  ASSUME NEW n \in Int, NEW width \in Nat, framing \in Framings
  PROVE  ToBytes(n, width) \in Seq(Byte) /\ Len(ToBytes(n, width)) = width
BY Taken

-----------------------------------------------------------------------------
(* What is sent and what is read are bytes.                                *)

LEMMA Bytes ==
  ASSUME framing \in Framings
  PROVE  Byte \subseteq Nat /\ \A s \in Seq(Byte) : s \in Seq(Nat)
<1>1. Byte \subseteq Nat
  BY FramingFacts DEF Byte
<1> QED
  BY <1>1, SeqMonotonic

LEMMA DropType ==
  ASSUME NEW S, NEW s \in Seq(S), NEW n \in Nat, n <= Len(s)
  PROVE  /\ Drop(s, n) \in Seq(S) /\ Len(Drop(s, n)) = Len(s) - n
         /\ \A i \in 1..(Len(s) - n) : Drop(s, n)[i] = s[n + i]
<1> DEFINE m == n + 1
           l == Len(s)
<1>1. m \in Nat \ {0} /\ l \in Nat /\ l <= Len(s) /\ n <= l
  BY LenProperties
<1>2. Drop(s, n) = SubSeq(s, m, l)
  BY DEF Drop
<1> HIDE DEF m, l
<1>3. /\ SubSeq(s, m, l) \in Seq(S)
      /\ Len(SubSeq(s, m, l)) = IF m <= l THEN l - m + 1 ELSE 0
      /\ \A i \in 1..(l - m + 1) : SubSeq(s, m, l)[i] = s[m + i - 1]
  BY <1>1, Cuts
<1> USE DEF m, l
<1>4. Len(SubSeq(s, m, l)) = Len(s) - n
  BY <1>1, <1>3
<1>5. ASSUME NEW i \in 1..(Len(s) - n)
      PROVE  SubSeq(s, m, l)[i] = s[n + i]
  <2>1. i \in 1..(l - m + 1) /\ m + i - 1 = n + i
    BY <1>1
  <2> HIDE DEF m, l
  <2> QED
    BY <1>3, <2>1
<1> HIDE DEF m, l
<1> QED
  BY <1>2, <1>3, <1>4, <1>5

LEMMA EncodeType ==
  ASSUME NEW data \in Seq(Byte), framing \in Framings, Stuffed
  PROVE  Encode(data) \in Seq(Byte)
<1> DEFINE piece(i) == IF data[i] \in Targets THEN <<Escape, data[i] + Offset>> ELSE <<data[i]>>
           pieces == [i \in DOMAIN data |-> piece(i)]
<1>1. DOMAIN data = 1..Len(data) /\ Len(data) \in Nat
  OBVIOUS
<1>2. ASSUME NEW i \in 1..Len(data) PROVE piece(i) \in Seq(Byte)
  <2>1. data[i] \in Byte
    BY ElementOfSeq
  <2>2. CASE data[i] \in Targets
    <3>1. Escape \in Byte /\ data[i] + Offset \in Byte
      BY <2>2, FramingFacts
    <3> QED
      BY <2>2, <3>1
  <2>3. CASE data[i] \notin Targets
    BY <2>1, <2>3
  <2> QED
    BY <2>2, <2>3
<1>3. pieces \in [1..Len(data) -> Seq(Byte)]
  BY <1>1, <1>2
<1>4. Encode(data) = FlattenSeq(pieces)
  BY DEF Encode
<1> HIDE DEF pieces
<1>5. pieces \in Seq(Seq(Byte))
  BY <1>1, <1>3
<1> QED
  BY <1>4, <1>5, FlattenType

LEMMA CrcType ==
  ASSUME NEW data \in Seq(Byte), framing \in Framings
  PROVE  Crc(data) \in Nat
<1>1. Total(data) \in Int
  BY Bytes, SumType
<1>2. ToBytes(Total(data), CrcBytes) \in Seq(Byte)
  BY <1>1, BytesType, FramingFacts
<1>3. ToBytes(Total(data), CrcBytes) \in Seq(Nat)
  BY <1>2, Bytes
<1> QED
  BY <1>3, ValueType DEF Crc

LEMMA BuildType ==
  ASSUME NEW frame \in AFrame, framing \in Framings
  PROVE  Build(frame) \in Seq(Byte)
<1> DEFINE body == <<frame.type>> \o frame.args
           size == Len(body) + Counted
           crcd == ToBytes(size, LenBytes) \o body
           inner == crcd \o ToBytes(Crc(crcd), CrcBytes)
<1>1. body \in Seq(Byte) /\ Len(body) \in Nat
  <2>1. frame.type \in Byte /\ frame.args \in Seq(Byte)
    BY DEF AFrame
  <2>2. <<frame.type>> \in Seq(Byte)
    BY <2>1
  <2>3. body \in Seq(Byte)
    BY <2>1, <2>2, ConcatProperties
  <2> QED
    BY <2>3, LenProperties
<1>2. size \in Int /\ LenBytes \in Nat /\ CrcBytes \in Nat
  BY <1>1, FramingFacts
<1> HIDE DEF size, body
<1>3. crcd \in Seq(Byte)
  <2>1. ToBytes(size, LenBytes) \in Seq(Byte)
    BY <1>2, BytesType
  <2> QED
    BY <1>1, <2>1, ConcatProperties
<1> HIDE DEF crcd
<1>4. inner \in Seq(Byte)
  <2>1. ToBytes(Crc(crcd), CrcBytes) \in Seq(Byte)
    <3>1. Crc(crcd) \in Int
      BY <1>3, CrcType
    <3> QED
      BY <1>2, <3>1, BytesType
  <2> QED
    BY <1>3, <2>1, ConcatProperties
<1> HIDE DEF inner
<1> DEFINE sent == IF Stuffed THEN Encode(inner) ELSE inner
<1>5. sent \in Seq(Byte)
  BY <1>4, EncodeType
<1>6. Build(frame) = <<Soi>> \o sent \o <<Eoi>>
  BY DEF Build, inner, crcd, size, body
<1> HIDE DEF sent
<1>7. <<Soi>> \in Seq(Byte) /\ <<Eoi>> \in Seq(Byte)
  BY FramingFacts
<1>8. <<Soi>> \o sent \in Seq(Byte)
  BY <1>5, <1>7, ConcatProperties
<1> QED
  BY <1>6, <1>7, <1>8, ConcatProperties

\* What Decode makes of data from each index on.
Escaped(data, i) == data[i] = Escape /\ i < Len(data)
DecodedHead(data, i) ==
  IF Escaped(data, i) THEN <<(data[i + 1] + Base - Offset) % Base>> ELSE <<data[i]>>
Decodes(f, data) ==
  /\ \A i \in 1..(Len(data) + 2) : f[i] \in Seq(Byte)
  /\ \A i \in 1..(Len(data) + 2) :
       f[i] = IF i > Len(data) THEN <<>>
              ELSE DecodedHead(data, i) \o f[IF Escaped(data, i) THEN i + 2 ELSE i + 1]
  /\ Decode(data) = f[1]

LEMMA Decoded ==
  ASSUME NEW data \in Seq(Byte), framing \in Framings
  PROVE  \E f : Decodes(f, data)
<1> DEFINE n == Len(data)
           m == n + 2
           V == Seq(Byte)
           escaped(i) == data[i] = Escape /\ i < n
           head(i) == IF escaped(i) THEN <<(data[i + 1] + Base - Offset) % Base>> ELSE <<data[i]>>
           Decoding(f) ==
             f = [i \in 1..(n + 2) |->
                    IF i > n THEN <<>>
                    ELSE IF data[i] = Escape /\ i < n
                         THEN <<(data[i + 1] + Base - Offset) % Base>> \o f[i + 2]
                         ELSE <<data[i]>> \o f[i + 1]]
           decoded == CHOOSE f : Decoding(f)
           stop == (n + 1)..m
           base == [i \in 1..m |-> <<>>]
           op == [i \in 1..m |-> IF i \in 1..n THEN [v \in V |-> head(i) \o v] ELSE [v \in V |-> v]]
           next == [i \in 1..m |-> IF escaped(i) THEN i + 2 ELSE i + 1]
<1>1. n \in Nat /\ m \in Nat
  BY LenProperties
<1>2. Decode(data) = decoded[1]
  BY DEF Decode
<1>3. ASSUME NEW i \in 1..n PROVE head(i) \in V
  <2>1. data[i] \in Byte
    BY ElementOfSeq
  <2>2. CASE escaped(i)
    <3>1. i + 1 \in 1..n
      BY <1>1, <2>2
    <3>2. data[i + 1] \in Int /\ Base \in Nat \ {0} /\ Offset \in Int
      BY <3>1, ElementOfSeq, FramingFacts, Bytes
    <3> DEFINE x == data[i + 1] + Base - Offset
    <3>3. x \in Int
      BY <3>2
    <3> HIDE DEF x
    <3>4. x % Base \in Byte
      BY <3>2, <3>3 DEF Byte
    <3> USE DEF x
    <3> QED
      BY <2>2, <3>4
  <2>3. CASE ~escaped(i)
    BY <2>1, <2>3
  <2> QED
    BY <2>2, <2>3
<1>e. <<>> \in V
  BY EmptySeq
<1>4. ASSUME NEW i \in 1..n, NEW v \in V PROVE head(i) \o v \in V
  <2> DEFINE h == head(i)
  <2>1. h \in Seq(Byte)
    BY <1>3
  <2> HIDE DEF h
  <2>2. h \o v \in V
    BY <2>1, ConcatProperties
  <2> USE DEF h
  <2> QED
    BY <2>2
<1> HIDE DEF head
<1>5. base \in [1..m -> V]
  BY <1>e
<1>6. op \in [1..m -> [V -> V]]
  BY <1>4
<1>7. next \in [1..m -> Int]
  BY <1>1
<1>8. \A i \in 1..m : i \notin stop => next[i] \in (i + 1)..m
  BY <1>1
<1>9. \E f : Decoding(f)
  <2> HIDE DEF stop, base, op, next, V, m
  <2>0. Descent(m, V, stop, base, op, next)
    BY <1>1, <1>5, <1>6, <1>7, <1>8 DEF Descent
  <2>d. PICK f \in [1..m -> V] : Descends(f, m, stop, base, op, next)
    BY <2>0, DownRecursion
  <2>1. \A i \in 1..m : f[i] = IF i \in stop THEN base[i] ELSE op[i][f[next[i]]]
    BY <2>d DEF Descends
  <2>2. ASSUME NEW i \in 1..m
        PROVE  f[i] = IF i > n THEN <<>> ELSE head(i) \o f[IF escaped(i) THEN i + 2 ELSE i + 1]
    <3>1. CASE i > n
      <4>1. i \in stop
        BY <1>1, <3>1 DEF stop, m
      <4> QED
        BY <2>1, <3>1, <4>1 DEF base
    <3>2. CASE ~(i > n)
      <4>1. i \notin stop /\ i \in 1..n
        BY <1>1, <3>2 DEF stop
      <4>2. f[i] = op[i][f[next[i]]] /\ next[i] \in 1..m
        BY <1>1, <1>8, <2>1, <4>1
      <4>3. f[next[i]] \in V
        BY <4>2
      <4>4. f[i] = head(i) \o f[next[i]]
        BY <4>1, <4>2, <4>3 DEF op
      <4>5. next[i] = IF escaped(i) THEN i + 2 ELSE i + 1
        BY DEF next
      <4> QED
        BY <3>2, <4>4, <4>5
    <3> QED
      BY <3>1, <3>2
  <2>3. f = [i \in 1..(n + 2) |-> f[i]]
    BY DEF m
  <2>4. Decoding(f)
    BY <2>2, <2>3 DEF m, head
  <2> QED
    BY <2>4
<1>10. Decoding(decoded)
  BY <1>9
<1> HIDE DEF decoded
<1>11. ASSUME NEW i \in 1..m
       PROVE  decoded[i] = IF i > n THEN <<>>
                           ELSE head(i) \o decoded[IF escaped(i) THEN i + 2 ELSE i + 1]
  BY <1>10 DEF head
<1> HIDE DEF Decoding
<1>12. ASSUME NEW i \in 1..m, \A j \in (i + 1)..m : decoded[j] \in V
       PROVE  decoded[i] \in V
  <2>1. CASE i > n
    BY <1>11, <1>e, <2>1
  <2>2. CASE ~(i > n)
    <3> DEFINE j == IF escaped(i) THEN i + 2 ELSE i + 1
    <3>1. j \in (i + 1)..m /\ i \in 1..n
      BY <1>1, <2>2
    <3>2. decoded[i] = head(i) \o decoded[j]
      BY <1>11, <2>2
    <3> HIDE DEF j
    <3> QED
      BY <1>4, <1>12, <3>1, <3>2
  <2> QED
    BY <2>1, <2>2
<1>13. \A i \in 1..m : decoded[i] \in V
  <2> HIDE DEF m, V
  <2> QED
    BY <1>1, <1>12, DownValues
<1>14. \A i \in 1..n : head(i) = DecodedHead(data, i) /\ (escaped(i) <=> Escaped(data, i))
  BY DEF head, DecodedHead, Escaped
<1>15. ASSUME NEW i \in 1..m
       PROVE  decoded[i] = IF i > n THEN <<>>
                           ELSE DecodedHead(data, i) \o decoded[IF Escaped(data, i) THEN i + 2 ELSE i + 1]
  <2>1. CASE i > n
    BY <1>11, <2>1
  <2>2. CASE ~(i > n)
    <3>1. i \in 1..n
      BY <1>1, <2>2
    <3> QED
      BY <1>11, <1>14, <2>2, <3>1
  <2> QED
    BY <2>1, <2>2
<1>16. Decodes(decoded, data)
  BY <1>2, <1>13, <1>15 DEF Decodes
<1> QED
  BY <1>16

LEMMA DecodeType ==
  ASSUME NEW data \in Seq(Byte), framing \in Framings
  PROVE  Decode(data) \in Seq(Byte)
<1>1. PICK f : Decodes(f, data)
  BY Decoded
<1>2. 1 \in 1..(Len(data) + 2)
  BY LenProperties
<1> QED
  BY <1>1, <1>2 DEF Decodes

LEMMA DecodeInnerType ==
  ASSUME NEW inner \in Seq(Byte), framing \in Framings
  PROVE  DecodeInner(inner) \in Seq(AFrame)
<1> DEFINE len == FromBytes(Take(inner, LenBytes)) - Counted
           crcAt == LenBytes + len
           frame == Frame(inner[LenBytes + 1], SubSeq(inner, LenBytes + 2, crcAt))
           good == /\ Len(inner) >= LenBytes + 1 + CrcBytes
                   /\ len >= 1
                   /\ crcAt + CrcBytes = Len(inner)
                   /\ FromBytes(Drop(inner, crcAt)) = Crc(Take(inner, crcAt))
<1>1. DecodeInner(inner) = IF good THEN <<frame>> ELSE <<>>
  BY DEF DecodeInner
<1>2. CASE good
  <2>0. LenBytes \in Nat \ {0} /\ CrcBytes \in Nat \ {0} /\ Counted \in Int /\ Len(inner) \in Nat
    BY FramingFacts, LenProperties
  <2>1. Take(inner, LenBytes) \in Seq(Byte)
    <3> DEFINE l == LenBytes
    <3>1. l <= Len(inner) /\ l \in Int
      BY <1>2, <2>0
    <3> HIDE DEF l
    <3>2. SubSeq(inner, 1, l) \in Seq(Byte)
      BY <3>1, Cuts
    <3> QED
      BY <3>2 DEF l, Take
  <2>2. len \in Int
    BY <2>0, <2>1, Bytes, ValueType
  <2> DEFINE a == LenBytes + 1
             b == LenBytes + 2
             c == crcAt
  <2>3. a \in 1..Len(inner) /\ b \in Nat \ {0} /\ c \in Int /\ c <= Len(inner)
    <3> HIDE DEF len
    <3> QED
      BY <1>2, <2>0, <2>2
  <2> HIDE DEF c
  <2>4. inner[a] \in Byte
    BY <2>3, ElementOfSeq
  <2>5. SubSeq(inner, b, c) \in Seq(Byte)
    <3> HIDE DEF b
    <3> QED
      BY <2>3, Cuts
  <2>6. frame \in AFrame
    BY <2>4, <2>5 DEF AFrame, Frame, c
  <2> HIDE DEF frame
  <2> QED
    BY <1>1, <1>2, <2>6
<1>3. CASE ~good
  BY <1>1, <1>3, EmptySeq
<1> QED
  BY <1>2, <1>3

-----------------------------------------------------------------------------
(* Both parsers walk in the same way: at an index of the buffer they wait  *)
(* for more bytes, or find a frame or none and go on behind it.            *)

Results == [frames : Seq(AFrame), rest : Seq(Byte)]

\* The index of the EOI that ends a stuffed frame at i, or 0.
EoiAfter(buf, i) == SelectInSubSeq(buf, i + 1, Len(buf), LAMBDA b : b = Eoi)

Waits(buf, i) == IF Stuffed THEN buf[i] = Soi /\ EoiAfter(buf, i) = 0 ELSE WaitsAt(buf, i)
Found(buf, i) ==
  IF ~Stuffed THEN FrameAt(buf, i)
  ELSE IF buf[i] # Soi THEN <<>>
  ELSE DecodeInner(Decode(SubSeq(buf, i + 1, EoiAfter(buf, i) - 1)))
NextAt(buf, i) ==
  IF Stuffed THEN IF buf[i] # Soi THEN i + 1 ELSE EoiAfter(buf, i) + 1
  ELSE IF FrameAt(buf, i) = <<>> THEN i + 1 ELSE EndAt(buf, i) + 1

LEMMA BeforeFacts ==
  ASSUME NEW v \in Results
  PROVE  /\ Before(<<>>, v) = v
         /\ \A x \in Seq(AFrame) : Before(x, v) \in Results
         /\ \A x \in Seq(AFrame) : \A y \in Seq(AFrame) :
              Before(x, Before(y, v)) = Before(x \o y, v)
<1> DEFINE f == v.frames
<1>1. f \in Seq(AFrame) /\ v.rest \in Seq(Byte) /\ v = [frames |-> f, rest |-> v.rest]
  BY DEF Results
<1> HIDE DEF f
<1>2. <<>> \o f = f
  BY <1>1, ConcatEmptySeq
<1>3. Before(<<>>, v) = v
  BY <1>1, <1>2 DEF Before, Parsed, f
<1>4. ASSUME NEW x \in Seq(AFrame) PROVE Before(x, v) \in Results
  <2>1. x \o f \in Seq(AFrame)
    BY <1>1, ConcatProperties
  <2> QED
    BY <1>1, <2>1 DEF Before, Parsed, Results, f
<1>5. ASSUME NEW x \in Seq(AFrame), NEW y \in Seq(AFrame)
      PROVE  Before(x, Before(y, v)) = Before(x \o y, v)
  <2>1. (x \o y) \o f = x \o (y \o f)
    BY <1>1, ConcatAssociative
  <2> QED
    BY <2>1 DEF Before, Parsed, f
<1> QED
  BY <1>3, <1>4, <1>5

LEMMA EoiFacts ==
  ASSUME NEW buf \in Seq(Byte), NEW i \in 1..Len(buf), framing \in Framings
  PROVE  LET j == EoiAfter(buf, i)
         IN \/ j = 0 /\ \A k \in (i + 1)..Len(buf) : buf[k] # Eoi
            \/ /\ j \in (i + 1)..Len(buf) /\ buf[j] = Eoi
               /\ \A k \in (i + 1)..(j - 1) : buf[k] # Eoi
<1> DEFINE ends == {k \in (i + 1)..Len(buf) : buf[k] = Eoi}
           j == EoiAfter(buf, i)
<1>1. j = IF ends # {} THEN Min(ends) ELSE 0
  BY DEF EoiAfter, SelectInSubSeq
<1>2. ends \in SUBSET Nat /\ Len(buf) \in Nat
  BY LenProperties
<1>3. CASE ends = {}
  BY <1>1, <1>3
<1>4. CASE ends # {}
  <2> DEFINE m == Min(ends)
  <2>1. j = m
    BY <1>1, <1>4
  <2>2. m \in ends /\ \A k \in ends : m <= k
    <3> HIDE DEF ends
    <3> QED
      BY <1>2, <1>4, LeastOne
  <2> HIDE DEF m
  <2>3. m \in (i + 1)..Len(buf) /\ buf[m] = Eoi
    BY <2>2
  <2>4. ASSUME NEW k \in (i + 1)..(m - 1) PROVE buf[k] # Eoi
    BY <1>2, <2>2, <2>3
  <2> HIDE DEF j
  <2> QED
    BY <2>1, <2>3, <2>4 DEF j
<1> QED
  BY <1>3, <1>4

\* The fields that decide about a frame without stuffing.
LEMMA EndFacts ==
  ASSUME NEW buf \in Seq(Byte), NEW i \in 1..Len(buf), framing \in Framings,
         i + LenBytes <= Len(buf)
  PROVE  /\ LenAt(buf, i) \in Nat /\ EndAt(buf, i) \in Int
         /\ ~Implausible(LenAt(buf, i)) => EndAt(buf, i) >= i + LenBytes + 2
<1> DEFINE a == i + 1
           b == i + LenBytes
<1>1. a \in Nat \ {0} /\ b \in Int /\ b <= Len(buf)
  BY FramingFacts
<1>2. SubSeq(buf, a, b) \in Seq(Byte)
  <2> HIDE DEF a, b
  <2> QED
    BY <1>1, Cuts
<1>3. LenAt(buf, i) \in Nat
  BY <1>2, Bytes, ValueType DEF LenAt
<1> DEFINE l == LenAt(buf, i)
<1> HIDE DEF l
<1>4. EndAt(buf, i) = i + 1 + LenBytes + l - Counted + CrcBytes
  BY DEF EndAt, l
<1>5. l \in Nat
  BY <1>3 DEF l
<1>6. EndAt(buf, i) \in Int
  BY <1>4, <1>5, FramingFacts
<1>7. ~Implausible(l) => EndAt(buf, i) >= i + LenBytes + 2
  BY <1>4, <1>5, FramingFacts DEF Implausible
<1> QED
  BY <1>3, <1>6, <1>7 DEF l

LEMMA WalkFacts ==
  ASSUME NEW buf \in Seq(Byte), NEW i \in 1..Len(buf), framing \in Framings, ~Waits(buf, i)
  PROVE  Found(buf, i) \in Seq(AFrame) /\ NextAt(buf, i) \in (i + 1)..(Len(buf) + 1)
<1>0. Len(buf) \in Nat
  BY LenProperties
<1>e. <<>> \in Seq(AFrame)
  BY EmptySeq
<1>1. CASE Stuffed
  <2>1. CASE buf[i] # Soi
    BY <1>0, <1>1, <1>e, <2>1 DEF Found, NextAt
  <2>2. CASE buf[i] = Soi
    <3> DEFINE j == EoiAfter(buf, i)
               a == i + 1
               b == j - 1
    <3>1. j \in (i + 1)..Len(buf)
      BY <1>1, <2>2, EoiFacts DEF Waits
    <3>2. NextAt(buf, i) = j + 1
      BY <1>1, <2>2 DEF NextAt
    <3>3. Found(buf, i) = DecodeInner(Decode(SubSeq(buf, a, b)))
      BY <1>1, <2>2 DEF Found
    <3> HIDE DEF j
    <3>4. a \in Nat \ {0} /\ b \in Int /\ b <= Len(buf)
      BY <1>0, <3>1
    <3> HIDE DEF a, b
    <3>5. SubSeq(buf, a, b) \in Seq(Byte)
      BY <3>4, Cuts
    <3>6. Decode(SubSeq(buf, a, b)) \in Seq(Byte)
      BY <3>5, DecodeType
    <3>7. Found(buf, i) \in Seq(AFrame)
      BY <3>3, <3>6, DecodeInnerType
    <3> QED
      BY <1>0, <3>1, <3>2, <3>7
  <2> QED
    BY <2>1, <2>2
<1>2. CASE ~Stuffed
  <2>1. CASE FrameAt(buf, i) = <<>>
    BY <1>0, <1>2, <1>e, <2>1 DEF Found, NextAt
  <2>2. CASE FrameAt(buf, i) # <<>>
    <3> DEFINE j == EndAt(buf, i)
               a == i + 1
               b == j - 1
    <3>1. buf[i] = Soi /\ ~Implausible(LenAt(buf, i))
      BY <2>2 DEF FrameAt
    <3>a. i + LenBytes \in Int
      BY FramingFacts
    <3>2. ~(i + LenBytes > Len(buf)) /\ ~(j > Len(buf))
      BY <1>2, <3>1 DEF Waits, WaitsAt
    <3>3. i + LenBytes <= Len(buf)
      BY <1>0, <3>2, <3>a
    <3>4. j \in Int /\ j >= i + LenBytes + 2 /\ LenBytes \in Nat
      BY <3>1, <3>3, EndFacts, FramingFacts
    <3>5. NextAt(buf, i) = j + 1
      BY <1>2, <2>2 DEF NextAt
    <3>6. Found(buf, i) = DecodeInner(SubSeq(buf, a, b))
      BY <1>2, <2>2 DEF Found, FrameAt
    <3> HIDE DEF j
    <3>7. a \in Nat \ {0} /\ b \in Int /\ b <= Len(buf)
      BY <1>0, <3>2, <3>4
    <3> HIDE DEF a, b
    <3>8. SubSeq(buf, a, b) \in Seq(Byte)
      BY <3>7, Cuts
    <3>9. Found(buf, i) \in Seq(AFrame)
      BY <3>6, <3>8, DecodeInnerType
    <3> QED
      BY <1>0, <3>2, <3>4, <3>5, <3>9
  <2> QED
    BY <2>1, <2>2
<1> QED
  BY <1>1, <1>2

\* The walk from i on, given what f says of the later indices.
Scan(f, buf, i) ==
  IF i > Len(buf) \/ Waits(buf, i) THEN Parsed(<<>>, Drop(buf, i - 1))
  ELSE Before(Found(buf, i), f[NextAt(buf, i)])

\* The same as the two functions of Framing put it.
ScanUnstuffed(f, buf, i) ==
  IF i > Len(buf) \/ WaitsAt(buf, i) THEN Parsed(<<>>, Drop(buf, i - 1))
  ELSE LET found == FrameAt(buf, i)
       IN IF found = <<>> THEN f[i + 1] ELSE Before(found, f[EndAt(buf, i) + 1])
ScanStuffed(f, buf, i) ==
  IF i > Len(buf) THEN Parsed(<<>>, <<>>)
  ELSE IF buf[i] # Soi THEN f[i + 1]
  ELSE LET j == EoiAfter(buf, i)
       IN IF j = 0 THEN Parsed(<<>>, Drop(buf, i - 1))
          ELSE Before(DecodeInner(Decode(SubSeq(buf, i + 1, j - 1))), f[j + 1])

From(buf) == IF Stuffed THEN StuffedFrom(buf) ELSE UnstuffedFrom(buf)

LEMMA StopType ==
  ASSUME NEW buf \in Seq(Byte), NEW i \in 1..(Len(buf) + 1)
  PROVE  /\ Parsed(<<>>, Drop(buf, i - 1)) \in Results
         /\ i > Len(buf) => Drop(buf, i - 1) = <<>>
<1>1. i - 1 \in Nat /\ i - 1 <= Len(buf) /\ Len(buf) \in Nat
  BY LenProperties
<1>2. Drop(buf, i - 1) \in Seq(Byte) /\ Len(Drop(buf, i - 1)) = Len(buf) - (i - 1)
  <2> DEFINE m == i - 1
  <2> HIDE DEF m
  <2> QED
    BY <1>1, DropType DEF m
<1>3. i > Len(buf) => Drop(buf, i - 1) = <<>>
  BY <1>1, <1>2, EmptySeq
<1> QED
  BY <1>2, <1>3, EmptySeq DEF Parsed, Results

LEMMA SameScan ==
  ASSUME NEW buf \in Seq(Byte), NEW i \in 1..(Len(buf) + 1), framing \in Framings,
         NEW f, \A j \in (i + 1)..(Len(buf) + 1) : f[j] \in Results
  PROVE  /\ Scan(f, buf, i) \in Results
         /\ Stuffed => ScanStuffed(f, buf, i) = Scan(f, buf, i)
         /\ ~Stuffed => ScanUnstuffed(f, buf, i) = Scan(f, buf, i)
<1>0. Len(buf) \in Nat
  BY LenProperties
<1>1. CASE i > Len(buf)
  <2>1. Drop(buf, i - 1) = <<>> /\ Parsed(<<>>, Drop(buf, i - 1)) \in Results
    BY <1>1, StopType
  <2> QED
    BY <1>1, <2>1 DEF Scan, ScanStuffed, ScanUnstuffed
<1>2. CASE ~(i > Len(buf)) /\ Waits(buf, i)
  <2>1. Scan(f, buf, i) = Parsed(<<>>, Drop(buf, i - 1))
    BY <1>2 DEF Scan
  <2>2. Stuffed => ScanStuffed(f, buf, i) = Parsed(<<>>, Drop(buf, i - 1))
    BY <1>2 DEF ScanStuffed, Waits
  <2>3. ~Stuffed => ScanUnstuffed(f, buf, i) = Parsed(<<>>, Drop(buf, i - 1))
    BY <1>2 DEF ScanUnstuffed, Waits
  <2> QED
    BY <2>1, <2>2, <2>3, StopType
<1>3. CASE ~(i > Len(buf)) /\ ~Waits(buf, i)
  <2> DEFINE v == f[NextAt(buf, i)]
             w == f[i + 1]
  <2>0. i \in 1..Len(buf)
    BY <1>0, <1>3
  <2>1. Found(buf, i) \in Seq(AFrame) /\ NextAt(buf, i) \in (i + 1)..(Len(buf) + 1)
    BY <1>3, <2>0, WalkFacts
  <2>2. v \in Results
    BY <2>1
  <2>3. Scan(f, buf, i) = Before(Found(buf, i), v)
    BY <1>3 DEF Scan
  <2>4. w \in Results
    BY <1>0, <2>0
  <2>5. Before(Found(buf, i), v) \in Results
    <3> HIDE DEF v
    <3> QED
      BY <2>1, <2>2, BeforeFacts
  <2>6. Before(<<>>, w) = w
    <3> HIDE DEF w
    <3> QED
      BY <2>4, BeforeFacts
  <2>7. ASSUME Stuffed PROVE ScanStuffed(f, buf, i) = Scan(f, buf, i)
    <3>1. CASE buf[i] # Soi
      <4>1. ScanStuffed(f, buf, i) = w
        BY <1>3, <3>1 DEF ScanStuffed
      <4>2. Found(buf, i) = <<>> /\ v = w
        BY <2>7, <3>1 DEF Found, NextAt
      <4> QED
        BY <2>3, <2>6, <4>1, <4>2
    <3>2. CASE buf[i] = Soi
      <4> DEFINE j == EoiAfter(buf, i)
                 x == DecodeInner(Decode(SubSeq(buf, i + 1, j - 1)))
      <4>1. j # 0
        BY <1>3, <2>7, <3>2 DEF Waits
      <4>2. ScanStuffed(f, buf, i) = Before(x, f[j + 1])
        BY <1>3, <3>2, <4>1 DEF ScanStuffed
      <4>3. Found(buf, i) = x /\ NextAt(buf, i) = j + 1
        BY <2>7, <3>2 DEF Found, NextAt
      <4> QED
        BY <2>3, <4>2, <4>3
    <3> QED
      BY <3>1, <3>2
  <2>8. ASSUME ~Stuffed PROVE ScanUnstuffed(f, buf, i) = Scan(f, buf, i)
    <3>0. ~WaitsAt(buf, i) /\ Found(buf, i) = FrameAt(buf, i)
      BY <1>3, <2>8 DEF Waits, Found
    <3>1. CASE FrameAt(buf, i) = <<>>
      <4>1. ScanUnstuffed(f, buf, i) = w
        BY <1>3, <3>0, <3>1 DEF ScanUnstuffed
      <4>2. v = w
        BY <2>8, <3>1 DEF NextAt
      <4> QED
        BY <2>3, <2>6, <3>0, <3>1, <4>1, <4>2
    <3>2. CASE FrameAt(buf, i) # <<>>
      <4>1. ScanUnstuffed(f, buf, i) = Before(FrameAt(buf, i), f[EndAt(buf, i) + 1])
        BY <1>3, <3>0, <3>2 DEF ScanUnstuffed
      <4>2. NextAt(buf, i) = EndAt(buf, i) + 1
        BY <2>8, <3>2 DEF NextAt
      <4> QED
        BY <2>3, <3>0, <4>1, <4>2
    <3> QED
      BY <3>1, <3>2
  <2> QED
    BY <2>3, <2>5, <2>7, <2>8
<1> QED
  BY <1>1, <1>2, <1>3

LEMMA ScanExists ==
  ASSUME NEW buf \in Seq(Byte), framing \in Framings
  PROVE  \E f \in [1..(Len(buf) + 1) -> Results] :
           \A i \in 1..(Len(buf) + 1) : f[i] = Scan(f, buf, i)
<1> DEFINE n == Len(buf)
           m == n + 1
           stop == {i \in 1..m : i > n \/ Waits(buf, i)}
           base == [i \in 1..m |-> Parsed(<<>>, Drop(buf, i - 1))]
           op == [i \in 1..m |-> IF i \in stop THEN [v \in Results |-> v]
                                 ELSE [v \in Results |-> Before(Found(buf, i), v)]]
           next == [i \in 1..m |-> IF i \in stop THEN i ELSE NextAt(buf, i)]
<1>1. n \in Nat /\ m \in Nat
  BY LenProperties
<1>2. base \in [1..m -> Results]
  BY StopType
<1>3. ASSUME NEW i \in 1..m, i \notin stop
      PROVE  /\ i \in 1..n /\ ~Waits(buf, i)
             /\ Found(buf, i) \in Seq(AFrame) /\ NextAt(buf, i) \in (i + 1)..m
  <2>1. i \in 1..n /\ ~Waits(buf, i)
    BY <1>1, <1>3
  <2> QED
    BY <2>1, WalkFacts
<1>4. ASSUME NEW i \in 1..m, i \notin stop, NEW v \in Results
      PROVE  Before(Found(buf, i), v) \in Results
  BY <1>3, <1>4, BeforeFacts
<1>5. op \in [1..m -> [Results -> Results]]
  <2> HIDE DEF stop
  <2> QED
    BY <1>4
<1>6. next \in [1..m -> Int] /\ \A i \in 1..m : i \notin stop => next[i] \in (i + 1)..m
  <2> HIDE DEF stop
  <2> QED
    BY <1>1, <1>3
<1>7. Descent(m, Results, stop, base, op, next)
  <2> HIDE DEF stop, base, op, next, m
  <2> QED
    BY <1>1, <1>2, <1>5, <1>6 DEF Descent
<1>8. PICK f \in [1..m -> Results] : Descends(f, m, stop, base, op, next)
  <2> HIDE DEF stop, base, op, next, m
  <2> QED
    BY <1>7, DownRecursion
<1>9. ASSUME NEW i \in 1..m PROVE f[i] = Scan(f, buf, i)
  <2>1. f[i] = IF i \in stop THEN base[i] ELSE op[i][f[next[i]]]
    <3> HIDE DEF stop, base, op, next, m
    <3> QED
      BY <1>8 DEF Descends
  <2>2. CASE i \in stop
    <3>1. i > n \/ Waits(buf, i)
      BY <2>2
    <3> QED
      BY <2>1, <2>2, <3>1 DEF Scan
  <2>3. CASE i \notin stop
    <3>1. ~(i > n \/ Waits(buf, i)) /\ NextAt(buf, i) \in 1..m
      BY <1>1, <1>3, <2>3
    <3> HIDE DEF stop, m
    <3>2. next[i] = NextAt(buf, i)
      BY <2>3
    <3>3. f[next[i]] \in Results
      BY <3>1, <3>2
    <3>4. op[i][f[next[i]]] = Before(Found(buf, i), f[next[i]])
      BY <2>3, <3>3
    <3> HIDE DEF next, op
    <3> QED
      BY <2>1, <2>3, <3>1, <3>2, <3>4 DEF Scan
  <2> QED
    BY <2>2, <2>3
<1> QED
  BY <1>9

LEMMA FromScans ==
  ASSUME NEW buf \in Seq(Byte), framing \in Framings
  PROVE  \A i \in 1..(Len(buf) + 1) :
           From(buf)[i] \in Results /\ From(buf)[i] = Scan(From(buf), buf, i)
<1> DEFINE m == Len(buf) + 1
           S(f) == f = [i \in 1..(Len(buf) + 1) |-> ScanStuffed(f, buf, i)]
           U(f) == f = [i \in 1..(Len(buf) + 1) |-> ScanUnstuffed(f, buf, i)]
           from == From(buf)
<1>1. m \in Nat
  BY LenProperties
<1>2. PICK f \in [1..m -> Results] : \A i \in 1..m : f[i] = Scan(f, buf, i)
  BY ScanExists
<1>3. ASSUME NEW i \in 1..m PROVE \A j \in (i + 1)..m : f[j] \in Results
  BY <1>1, <1>2
<1>4. f = [i \in 1..m |-> f[i]]
  BY <1>2
<1>5. ASSUME Stuffed
      PROVE  \A i \in 1..m : from[i] = ScanStuffed(from, buf, i)
  <2>1. StuffedFrom(buf) = CHOOSE g : S(g)
    BY DEF StuffedFrom, ScanStuffed, EoiAfter
  <2>2. \A i \in 1..m : f[i] = ScanStuffed(f, buf, i)
    BY <1>2, <1>3, <1>5, SameScan
  <2>3. S(f)
    BY <1>4, <2>2
  <2>4. S(StuffedFrom(buf))
    <3> HIDE DEF S
    <3> QED
      BY <2>1, <2>3
  <2>5. from = StuffedFrom(buf)
    BY <1>5 DEF From
  <2>6. S(from)
    BY <2>4, <2>5
  <2> HIDE DEF from
  <2> QED
    BY <2>6
<1>6. ASSUME ~Stuffed
      PROVE  \A i \in 1..m : from[i] = ScanUnstuffed(from, buf, i)
  <2>1. UnstuffedFrom(buf) = CHOOSE g : U(g)
    BY DEF UnstuffedFrom, ScanUnstuffed
  <2>2. \A i \in 1..m : f[i] = ScanUnstuffed(f, buf, i)
    BY <1>2, <1>3, <1>6, SameScan
  <2>3. U(f)
    BY <1>4, <2>2
  <2>4. U(UnstuffedFrom(buf))
    <3> HIDE DEF U
    <3> QED
      BY <2>1, <2>3
  <2>5. from = UnstuffedFrom(buf)
    BY <1>6 DEF From
  <2>6. U(from)
    BY <2>4, <2>5
  <2> HIDE DEF from
  <2> QED
    BY <2>6
<1> HIDE DEF from
<1>7. ASSUME NEW i \in 1..m, \A j \in (i + 1)..m : from[j] \in Results
      PROVE  from[i] \in Results /\ from[i] = Scan(from, buf, i)
  BY <1>5, <1>6, <1>7, SameScan
<1>8. \A i \in 1..m : from[i] \in Results
  <2> HIDE DEF m
  <2> QED
    BY <1>1, <1>7, DownValues
<1>9. ASSUME NEW i \in 1..m PROVE \A j \in (i + 1)..m : from[j] \in Results
  BY <1>1, <1>8
<1>10. \A i \in 1..m : from[i] \in Results /\ from[i] = Scan(from, buf, i)
  BY <1>7, <1>9
<1> QED
  BY <1>10 DEF from

LEMMA IterIsFrom ==
  ASSUME NEW buf \in Seq(Byte), framing \in Framings
  PROVE  IterFrames(buf) = From(buf)[1] /\ IterFrames(buf) \in Results
<1>1. IterFrames(buf) = From(buf)[1]
  BY DEF IterFrames, From, IterStuffed, IterUnstuffed
<1>2. 1 \in 1..(Len(buf) + 1)
  BY LenProperties
<1> QED
  BY <1>1, <1>2, FromScans

-----------------------------------------------------------------------------
(* What the parser does at an index depends on the bytes it goes past: it  *)
(* does the same in a longer buffer, and in one that begins further on.    *)

\* s is to be found in u, d bytes later.
Within(s, u, d) ==
  /\ d \in Nat /\ Len(s) + d <= Len(u)
  /\ \A k \in 1..Len(s) : u[k + d] = s[k]

\* The part of s from a to b is that of u from p to q.
Same(s, u, d, a, b, p, q) ==
  /\ s \in Seq(Byte) /\ u \in Seq(Byte) /\ Within(s, u, d)
  /\ a \in Nat \ {0} /\ b \in Int /\ b <= Len(s) /\ p = a + d /\ q = b + d

Slice(s, a, b) == SubSeq(s, a, b)

LEMMA SameCut ==
  ASSUME NEW s, NEW u, NEW d, NEW a, NEW b, NEW p, NEW q, Same(s, u, d, a, b, p, q)
  PROVE  Slice(u, p, q) = Slice(s, a, b)
<1>s. s \in Seq(Byte) /\ u \in Seq(Byte)
  BY DEF Same
<1> DEFINE x == SubSeq(u, p, q)
           y == SubSeq(s, a, b)
<1>1. /\ d \in Nat /\ Len(s) \in Nat /\ Len(u) \in Nat
      /\ p \in Nat \ {0} /\ q \in Int /\ q <= Len(u)
  BY <1>s, LenProperties DEF Same, Within
<1>0. a \in Nat \ {0} /\ b \in Int /\ b <= Len(s) /\ p = a + d /\ q = b + d
  BY DEF Same
<1>2. /\ y \in Seq(Byte) /\ Len(y) = IF a <= b THEN b - a + 1 ELSE 0
      /\ \A i \in 1..(b - a + 1) : y[i] = s[a + i - 1]
  BY <1>s, <1>0, Cuts
<1>3. /\ x \in Seq(Byte) /\ Len(x) = IF p <= q THEN q - p + 1 ELSE 0
      /\ \A i \in 1..(q - p + 1) : x[i] = u[p + i - 1]
  BY <1>s, <1>1, Cuts
<1>4. Len(x) = Len(y)
  <2>1. Len(y) = IF a <= b THEN b - a + 1 ELSE 0
    BY <1>2
  <2>2. Len(x) = IF p <= q THEN q - p + 1 ELSE 0
    BY <1>3
  <2>3. p <= q <=> a <= b
    BY <1>0, <1>1
  <2>4. q - p = b - a
    BY <1>0, <1>1
  <2> HIDE DEF x, y
  <2> QED
    BY <2>1, <2>2, <2>3, <2>4
<1>5. ASSUME NEW i \in 1..Len(x) PROVE x[i] = y[i]
  <2> DEFINE k == a + i - 1
  <2>1. i \in 1..(b - a + 1) /\ i \in 1..(q - p + 1)
    <3> HIDE DEF x, y
    <3> QED
      BY <1>0, <1>1, <1>3, <1>5
  <2>2. k \in 1..Len(s) /\ p + i - 1 = k + d
    BY <1>0, <1>1, <2>1
  <2> HIDE DEF x, y, k
  <2>3. x[i] = u[k + d]
    BY <1>3, <2>1, <2>2
  <2>4. y[i] = s[k]
    BY <1>2, <2>1 DEF k
  <2> QED
    BY <2>2, <2>3, <2>4 DEF Same, Within
<1> HIDE DEF x, y
<1>6. x = y
  BY <1>2, <1>3, <1>4, <1>5, SeqEqual
<1> QED
  BY <1>6 DEF x, y, Slice

\* The first EOI behind an index moves with the bytes.
LEMMA SameEoi ==
  ASSUME NEW s \in Seq(Byte), NEW u \in Seq(Byte), NEW d, Within(s, u, d),
         NEW i \in 1..Len(s), framing \in Framings
  PROVE  /\ EoiAfter(s, i) # 0 => EoiAfter(u, i + d) = EoiAfter(s, i) + d
         /\ EoiAfter(s, i) = 0 /\ Len(u) = Len(s) + d => EoiAfter(u, i + d) = 0
<1> DEFINE j == EoiAfter(s, i)
           l == EoiAfter(u, i + d)
           n == Len(s)
           m == Len(u)
<1>1. /\ d \in Nat /\ n \in Nat /\ m \in Nat /\ n + d <= m /\ i + d \in 1..m
      /\ \A k \in 1..n : u[k + d] = s[k]
  BY LenProperties DEF Within
<1>2. \/ j = 0 /\ \A k \in (i + 1)..n : s[k] # Eoi
      \/ j \in (i + 1)..n /\ s[j] = Eoi /\ \A k \in (i + 1)..(j - 1) : s[k] # Eoi
  BY EoiFacts
<1>3. \/ l = 0 /\ \A k \in (i + d + 1)..m : u[k] # Eoi
      \/ l \in (i + d + 1)..m /\ u[l] = Eoi /\ \A k \in (i + d + 1)..(l - 1) : u[k] # Eoi
  <2> DEFINE e == i + d
  <2>1. e \in 1..Len(u)
    BY <1>1
  <2> HIDE DEF e
  <2>2. \/ EoiAfter(u, e) = 0 /\ \A k \in (e + 1)..Len(u) : u[k] # Eoi
        \/ /\ EoiAfter(u, e) \in (e + 1)..Len(u) /\ u[EoiAfter(u, e)] = Eoi
           /\ \A k \in (e + 1)..(EoiAfter(u, e) - 1) : u[k] # Eoi
    BY <2>1, EoiFacts
  <2> QED
    BY <2>2 DEF e
<1> HIDE DEF j, l, n, m
<1>4. ASSUME NEW k \in (i + d + 1)..m, k - d <= n
      PROVE  k - d \in (i + 1)..n /\ u[k] = s[k - d]
  <2>1. k - d \in (i + 1)..n /\ k - d \in 1..n /\ (k - d) + d = k
    BY <1>1, <1>4
  <2>2. u[(k - d) + d] = s[k - d]
    BY <1>1, <2>1
  <2> QED
    BY <2>1, <2>2
<1>5. ASSUME j # 0 PROVE l = j + d
  <2>1. j \in (i + 1)..n /\ s[j] = Eoi /\ \A k \in (i + 1)..(j - 1) : s[k] # Eoi
    BY <1>2, <1>5
  <2>2. u[j + d] = Eoi /\ j + d \in (i + d + 1)..m
    BY <1>1, <2>1
  <2>3. l \in (i + d + 1)..m /\ u[l] = Eoi /\ \A k \in (i + d + 1)..(l - 1) : u[k] # Eoi
    BY <1>3, <2>2
  <2>4. l <= j + d
    BY <1>1, <2>1, <2>2, <2>3
  <2>5. ASSUME l < j + d PROVE FALSE
    <3>1. l - d <= n
      BY <1>1, <2>1, <2>3, <2>5
    <3>2. s[l - d] = Eoi
      BY <1>4, <2>3, <3>1
    <3>3. l - d \in (i + 1)..(j - 1)
      BY <1>1, <2>1, <2>3, <2>5
    <3> QED
      BY <2>1, <3>2, <3>3
  <2> QED
    BY <1>1, <2>1, <2>3, <2>4, <2>5
<1>6. ASSUME j = 0, m = n + d PROVE l = 0
  <2>1. SUFFICES ASSUME l # 0 PROVE FALSE
    OBVIOUS
  <2>2. l \in (i + d + 1)..m /\ u[l] = Eoi
    BY <1>3, <2>1
  <2>3. l - d <= n
    BY <1>1, <1>6, <2>2
  <2>4. l - d \in (i + 1)..n /\ s[l - d] = Eoi
    BY <1>4, <2>2, <2>3
  <2> QED
    BY <1>2, <1>6, <2>4
<1> QED
  BY <1>5, <1>6 DEF j, l, m, n

\* So do the fields of a frame without stuffing.
LEMMA SameEnd ==
  ASSUME NEW s \in Seq(Byte), NEW u \in Seq(Byte), NEW d, Within(s, u, d),
         NEW i \in 1..Len(s), framing \in Framings, i + LenBytes <= Len(s)
  PROVE  LenAt(u, i + d) = LenAt(s, i) /\ EndAt(u, i + d) = EndAt(s, i) + d
<1> DEFINE a == i + 1
           b == i + LenBytes
           l == LenAt(s, i)
<1>1. d \in Nat /\ LenBytes \in Nat /\ a \in Nat \ {0} /\ b \in Int /\ b <= Len(s)
  BY FramingFacts DEF Within
<1> DEFINE p == i + d + 1
           q == i + d + LenBytes
<1>3. p = a + d /\ q = b + d
  BY <1>1
<1>2. Slice(u, p, q) = Slice(s, a, b)
  <2> HIDE DEF a, b, p, q
  <2>1. Same(s, u, d, a, b, p, q)
    BY <1>1, <1>3 DEF Same
  <2> QED
    BY <2>1, SameCut
<1>4. LenAt(u, i + d) = LenAt(s, i)
  BY <1>2 DEF LenAt, Slice
<1>5. l \in Nat
  BY EndFacts
<1> HIDE DEF l
<1>6. EndAt(s, i) = i + 1 + LenBytes + l - Counted + CrcBytes
  BY DEF EndAt, l
<1>7. EndAt(u, i + d) = i + d + 1 + LenBytes + l - Counted + CrcBytes
  BY <1>4 DEF EndAt, l
<1>8. EndAt(u, i + d) = EndAt(s, i) + d
  BY <1>1, <1>5, <1>6, <1>7, FramingFacts
<1> QED
  BY <1>4, <1>8

LEMMA Moves ==
  ASSUME NEW s \in Seq(Byte), NEW u \in Seq(Byte), NEW d, Within(s, u, d),
         NEW i \in 1..Len(s), framing \in Framings
  PROVE  /\ ~Waits(s, i) => /\ ~Waits(u, i + d)
                            /\ Found(u, i + d) = Found(s, i)
                            /\ NextAt(u, i + d) = NextAt(s, i) + d
         /\ Waits(s, i) /\ Len(u) = Len(s) + d => Waits(u, i + d)
<1>1. /\ d \in Nat /\ Len(s) \in Nat /\ Len(u) \in Nat /\ Len(s) + d <= Len(u)
      /\ u[i + d] = s[i]
  BY LenProperties DEF Within
<1>2. CASE Stuffed
  <2> DEFINE j == EoiAfter(s, i)
             l == EoiAfter(u, i + d)
  <2>1. /\ j # 0 => l = j + d
        /\ j = 0 /\ Len(u) = Len(s) + d => l = 0
    BY SameEoi
  <2>2. j # 0 => j \in (i + 1)..Len(s)
    BY EoiFacts
  <2>3. Waits(s, i) <=> (s[i] = Soi /\ j = 0)
    BY <1>2 DEF Waits
  <2>4. Waits(u, i + d) <=> (s[i] = Soi /\ l = 0)
    BY <1>1, <1>2 DEF Waits
  <2>5. CASE s[i] # Soi
    <3>1. Found(u, i + d) = Found(s, i)
      BY <1>1, <1>2, <2>5 DEF Found
    <3>2. NextAt(s, i) = i + 1 /\ NextAt(u, i + d) = i + d + 1
      BY <1>1, <1>2, <2>5 DEF NextAt
    <3> QED
      BY <1>1, <2>3, <2>4, <2>5, <3>1, <3>2
  <2>6. CASE s[i] = Soi /\ j = 0
    BY <2>1, <2>3, <2>4, <2>6
  <2>7. CASE s[i] = Soi /\ j # 0
    <3> DEFINE a == i + 1
               b == j - 1
    <3>1. Found(s, i) = DecodeInner(Decode(SubSeq(s, a, b))) /\ NextAt(s, i) = j + 1
      BY <1>2, <2>7 DEF Found, NextAt
    <3> DEFINE p == i + d + 1
               q == l - 1
    <3>2. /\ Found(u, i + d) = DecodeInner(Decode(SubSeq(u, p, q)))
          /\ NextAt(u, i + d) = l + 1
      BY <1>1, <1>2, <2>7 DEF Found, NextAt
    <3> HIDE DEF j, l
    <3>3. /\ l = j + d /\ a \in Nat \ {0} /\ b \in Int /\ b <= Len(s) /\ j \in Int
          /\ p = a + d /\ q = b + d /\ l # 0
      BY <1>1, <2>1, <2>2, <2>7
    <3> HIDE DEF a, b, p, q
    <3>c. Same(s, u, d, a, b, p, q)
      BY <3>3 DEF Same
    <3>e. Slice(u, p, q) = Slice(s, a, b)
      BY <3>c, SameCut
    <3>4. SubSeq(u, p, q) = SubSeq(s, a, b)
      BY <3>e DEF Slice
    <3>5. Found(u, i + d) = Found(s, i)
      BY <3>1, <3>2, <3>3, <3>4
    <3>6. NextAt(u, i + d) = NextAt(s, i) + d
      BY <1>1, <3>1, <3>2, <3>3
    <3> QED
      BY <2>3, <2>4, <2>7, <3>3, <3>5, <3>6
  <2> QED
    BY <2>5, <2>6, <2>7
<1>3. CASE ~Stuffed
  <2> DEFINE e == i + d
  <2>0. Waits(s, i) = WaitsAt(s, i) /\ Waits(u, e) = WaitsAt(u, e)
    BY <1>3 DEF Waits
  <2>f. /\ Found(s, i) = FrameAt(s, i) /\ Found(u, e) = FrameAt(u, e)
        /\ NextAt(s, i) = IF FrameAt(s, i) = <<>> THEN i + 1 ELSE EndAt(s, i) + 1
        /\ NextAt(u, e) = IF FrameAt(u, e) = <<>> THEN e + 1 ELSE EndAt(u, e) + 1
    BY <1>3 DEF Found, NextAt
  <2>e. e + 1 = i + 1 + d /\ e \in Int /\ LenBytes \in Nat
    BY <1>1, FramingFacts
  <2>1. CASE s[i] # Soi
    <3>1. u[e] # Soi
      BY <1>1, <2>1
    <3>2. FrameAt(s, i) = <<>> /\ FrameAt(u, e) = <<>> /\ ~WaitsAt(s, i) /\ ~WaitsAt(u, e)
      BY <2>1, <3>1 DEF FrameAt, WaitsAt
    <3> QED
      BY <2>0, <2>f, <2>e, <3>2
  <2>2. CASE s[i] = Soi /\ i + LenBytes > Len(s)
    <3>1. WaitsAt(s, i)
      BY <2>2 DEF WaitsAt
    <3>2. ASSUME Len(u) = Len(s) + d PROVE WaitsAt(u, e)
      <4>1. u[e] = Soi /\ e + LenBytes > Len(u)
        BY <1>1, <2>2, <2>e, <3>2
      <4> QED
        BY <4>1 DEF WaitsAt
    <3> QED
      BY <2>0, <3>1, <3>2
  <2>3. CASE s[i] = Soi /\ i + LenBytes <= Len(s)
    <3> DEFINE l == LenAt(s, i)
               j == EndAt(s, i)
    <3>1. LenAt(u, e) = l /\ EndAt(u, e) = j + d
      BY <2>3, SameEnd
    <3>2. l \in Nat /\ j \in Int /\ (~Implausible(l) => j >= i + LenBytes + 2)
      BY <2>3, EndFacts
    <3>3. u[e] = Soi /\ ~(i + LenBytes > Len(s)) /\ ~(e + LenBytes > Len(u))
      BY <1>1, <2>3, <2>e
    <3>4. /\ WaitsAt(s, i) <=> (~Implausible(l) /\ j > Len(s))
          /\ WaitsAt(u, e) <=> (~Implausible(l) /\ j + d > Len(u))
      BY <2>3, <3>1, <3>3 DEF WaitsAt
    <3> DEFINE x == DecodeInner(SubSeq(s, i + 1, j - 1))
               y == DecodeInner(SubSeq(u, e + 1, j + d - 1))
    <3>5. /\ FrameAt(s, i) = IF Implausible(l) \/ s[j] # Eoi THEN <<>> ELSE x
          /\ FrameAt(u, e) = IF Implausible(l) \/ u[j + d] # Eoi THEN <<>> ELSE y
      <4> HIDE DEF e
      <4>1. FrameAt(s, i) = IF Implausible(l) \/ s[j] # Eoi THEN <<>> ELSE x
        BY <2>3 DEF FrameAt
      <4>2. FrameAt(u, e) = IF Implausible(LenAt(u, e)) \/ u[EndAt(u, e)] # Eoi THEN <<>>
                            ELSE DecodeInner(SubSeq(u, e + 1, EndAt(u, e) - 1))
        BY <3>3 DEF FrameAt
      <4>3. FrameAt(u, e) = IF Implausible(l) \/ u[j + d] # Eoi THEN <<>> ELSE y
        <5> HIDE DEF l, j
        <5>1. DecodeInner(SubSeq(u, e + 1, EndAt(u, e) - 1)) = y
          <6> DEFINE q == EndAt(u, e) - 1
                     r == j + d - 1
                     p == e + 1
          <6>1. q = r
            BY <1>1, <3>1, <3>2
          <6>2. DecodeInner(SubSeq(u, p, q)) = DecodeInner(SubSeq(u, p, r))
            <7> HIDE DEF p, q, r
            <7> QED
              BY Zenon, <6>1
          <6> QED
            BY <6>2
        <5>2. Implausible(LenAt(u, e)) = Implausible(l) /\ u[EndAt(u, e)] = u[j + d]
          BY <3>1
        <5> HIDE DEF y
        <5> QED
          BY <4>2, <5>1, <5>2
      <4> QED
        BY <4>1, <4>3
    <3> HIDE DEF l, j, e, x, y
    <3>6. Len(u) = Len(s) + d => (WaitsAt(s, i) => WaitsAt(u, e))
      BY <1>1, <3>2, <3>4
    <3>7. ASSUME ~WaitsAt(s, i)
          PROVE  ~WaitsAt(u, e) /\ FrameAt(u, e) = FrameAt(s, i)
      <4>1. CASE Implausible(l)
        BY <3>4, <3>5, <4>1
      <4>2. CASE ~Implausible(l)
        <5> DEFINE a == i + 1
                   b == j - 1
        <5>1. j \in 1..Len(s) /\ j + d <= Len(u)
          BY <1>1, <2>e, <3>2, <3>4, <3>7, <4>2
        <5>2. u[j + d] = s[j]
          BY <5>1 DEF Within
        <5> DEFINE p == e + 1
                   q == j + d - 1
        <5>3. /\ a \in Nat \ {0} /\ b \in Int /\ b <= Len(s)
              /\ p = a + d /\ q = b + d /\ p \in Int
          BY <1>1, <2>e, <5>1
        <5>4. Slice(u, p, q) = Slice(s, a, b)
          <6> HIDE DEF a, b, p, q
          <6>1. Same(s, u, d, a, b, p, q)
            BY <5>3 DEF Same
          <6> QED
            BY <6>1, SameCut
        <5>5. ~(j + d > Len(u))
          BY <1>1, <3>2, <5>1
        <5>6. ~WaitsAt(u, e)
          BY <3>4, <5>5
        <5>7. y = x
          BY <5>4 DEF x, y, Slice
        <5>8. FrameAt(u, e) = FrameAt(s, i)
          BY <3>5, <4>2, <5>2, <5>7
        <5> QED
          BY <5>6, <5>8
      <4> QED
        BY <4>1, <4>2
    <3>8. ASSUME ~WaitsAt(s, i) PROVE NextAt(u, e) = NextAt(s, i) + d
      <4>1. EndAt(u, e) = EndAt(s, i) + d /\ EndAt(s, i) \in Int
        BY <3>1, <3>2 DEF j
      <4> QED
        BY <1>1, <2>f, <2>e, <3>7, <3>8, <4>1
    <3> QED
      BY <2>0, <2>f, <3>6, <3>7, <3>8 DEF e
  <2> QED
    BY <1>1, <2>1, <2>2, <2>3, FramingFacts
<1> QED
  BY <1>2, <1>3

LEMMA DropWithin ==
  ASSUME NEW u \in Seq(Byte), NEW k \in Nat, k <= Len(u)
  PROVE  /\ Drop(u, k) \in Seq(Byte) /\ Len(u) = Len(Drop(u, k)) + k
         /\ Within(Drop(u, k), u, k)
<1> DEFINE s == Drop(u, k)
<1>1. /\ s \in Seq(Byte) /\ Len(s) = Len(u) - k
      /\ \A i \in 1..(Len(u) - k) : s[i] = u[k + i]
  BY DropType
<1>2. Len(u) \in Nat
  BY LenProperties
<1> HIDE DEF s
<1>3. Len(u) = Len(s) + k
  BY <1>1, <1>2
<1>4. ASSUME NEW i \in 1..Len(s) PROVE u[i + k] = s[i]
  <2>1. i + k = k + i /\ i \in 1..(Len(u) - k)
    BY <1>1
  <2> QED
    BY <1>1, <2>1
<1>5. Within(s, u, k)
  BY <1>2, <1>3, <1>4 DEF Within
<1> QED
  BY <1>1, <1>3, <1>5 DEF s

\* Parsing a buffer from an index is parsing what begins there.
LEMMA FromDrop ==
  ASSUME NEW u \in Seq(Byte), NEW k \in Nat, k <= Len(u), framing \in Framings
  PROVE  IterFrames(Drop(u, k)) = From(u)[k + 1]
<1> DEFINE s == Drop(u, k)
           n == Len(s) + 1
           T == {j \in 1..n : From(s)[j] = From(u)[j + k]}
<1>1. s \in Seq(Byte) /\ Len(u) = Len(s) + k /\ Within(s, u, k)
  BY DropWithin
<1> HIDE DEF s
<1>2. n \in Nat /\ Len(s) \in Nat /\ Len(u) \in Nat
  BY <1>1, LenProperties
<1>3. ASSUME NEW i \in 1..n, \A j \in (i + 1)..n : j \in T
      PROVE  i \in T
  <2> DEFINE e == i + k
  <2>1. e \in 1..(Len(u) + 1) /\ i \in 1..(Len(s) + 1)
    BY <1>1, <1>2
  <2>2. From(s)[i] = Scan(From(s), s, i)
    BY <1>1, FromScans
  <2>3. From(u)[e] = Scan(From(u), u, e)
    <3> HIDE DEF e
    <3> QED
      BY <2>1, FromScans
  <2>4. CASE i > Len(s)
    <3>1. e > Len(u)
      BY <1>1, <1>2, <2>4
    <3> HIDE DEF e
    <3>2. Drop(s, i - 1) = <<>> /\ Drop(u, e - 1) = <<>>
      BY <1>1, <2>1, <2>4, <3>1, StopType
    <3>3. From(s)[i] = From(u)[e]
      BY <2>2, <2>3, <2>4, <3>1, <3>2 DEF Scan
    <3> QED
      BY <3>3 DEF e
  <2>5. CASE ~(i > Len(s)) /\ Waits(s, i)
    <3>1. i \in 1..Len(s) /\ ~(e > Len(u))
      BY <1>1, <1>2, <2>5
    <3>2. Waits(u, e)
      BY <1>1, <2>5, <3>1, Moves
    <3> DEFINE b == Len(s)
               q == Len(u)
    <3>3. Same(s, u, k, i, b, e, q)
      BY <1>1, <1>2, <3>1 DEF Same
    <3>4. Slice(u, e, q) = Slice(s, i, b)
      BY <3>3, SameCut
    <3>5. e - 1 + 1 = e /\ i - 1 + 1 = i
      BY <1>2, <2>1
    <3>6. Drop(s, i - 1) = Slice(s, i, b)
      BY <3>5 DEF Drop, Slice
    <3>7. Drop(u, e - 1) = Slice(u, e, q)
      <4> HIDE DEF e
      <4> QED
        BY <3>5 DEF Drop, Slice
    <3> HIDE DEF b, q
    <3>8. From(s)[i] = Parsed(<<>>, Drop(s, i - 1))
      BY <2>2, <2>5 DEF Scan
    <3>9. From(u)[e] = Parsed(<<>>, Drop(u, e - 1))
      <4> HIDE DEF e
      <4> QED
        BY <2>3, <3>2 DEF Scan
    <3> HIDE DEF e
    <3>10. From(s)[i] = From(u)[e]
      BY <3>4, <3>6, <3>7, <3>8, <3>9
    <3> QED
      BY <3>10 DEF e
  <2>6. CASE ~(i > Len(s)) /\ ~Waits(s, i)
    <3> DEFINE x == Found(s, i)
               m == NextAt(s, i)
    <3>1. i \in 1..Len(s) /\ ~(e > Len(u))
      BY <1>1, <1>2, <2>6
    <3>2. ~Waits(u, e) /\ Found(u, e) = x /\ NextAt(u, e) = m + k
      BY <1>1, <2>6, <3>1, Moves
    <3>3. m \in (i + 1)..n
      BY <1>1, <2>6, <3>1, WalkFacts
    <3>4. From(s)[m] = From(u)[m + k]
      BY <1>3, <3>3
    <3> HIDE DEF x, m, e
    <3>5. From(s)[i] = Before(x, From(s)[m])
      BY <2>2, <2>6 DEF Scan, x, m
    <3>6. From(u)[e] = Before(x, From(u)[m + k])
      BY <2>3, <3>1, <3>2 DEF Scan
    <3>7. From(s)[i] = From(u)[e]
      BY <3>4, <3>5, <3>6
    <3> QED
      BY <3>7 DEF e
  <2> QED
    BY <2>4, <2>5, <2>6
<1>4. 1..n \subseteq T
  <2> HIDE DEF T, n
  <2> QED
    BY <1>2, <1>3, DownInduction
<1>5. 1 \in 1..n /\ 1 + k = k + 1
  BY <1>2
<1>6. From(s)[1] = From(u)[k + 1]
  BY <1>4, <1>5
<1>7. IterFrames(s) = From(s)[1]
  BY <1>1, IterIsFrom
<1> QED
  BY <1>6, <1>7 DEF s

LEMMA BeforeParts ==
  ASSUME NEW x, NEW w, NEW v, v = Before(x, w)
  PROVE  v.frames = x \o w.frames /\ v.rest = w.rest
BY DEF Before, Parsed

\* From index i of s the parser goes on to p, where it stops; in a longer buffer u it has
\* found the same frames when it is at p.
Reaches(s, u, i, p) ==
  /\ p \in 1..(Len(s) + 1) /\ (p = Len(s) + 1 \/ Waits(s, p))
  /\ From(s)[i].rest = Drop(s, p - 1)
  /\ From(u)[i] = Before(From(s)[i].frames, From(u)[p])

LEMMA Prefix ==
  ASSUME NEW s \in Seq(Byte), NEW u \in Seq(Byte), Within(s, u, 0), framing \in Framings
  PROVE  \E p : Reaches(s, u, 1, p)
<1> DEFINE n == Len(s) + 1
           T == {i \in 1..n : \E p : Reaches(s, u, i, p)}
<1>1. n \in Nat /\ Len(s) \in Nat /\ Len(u) \in Nat /\ Len(s) <= Len(u)
  BY LenProperties DEF Within
<1>2. ASSUME NEW i \in 1..n, \A j \in (i + 1)..n : j \in T
      PROVE  i \in T
  <2>1. From(s)[i] = Scan(From(s), s, i) /\ From(s)[i] \in Results
    BY FromScans
  <2>2. i \in 1..(Len(u) + 1)
    BY <1>1
  <2>3. From(u)[i] = Scan(From(u), u, i) /\ From(u)[i] \in Results
    BY <2>2, FromScans
  <2>4. CASE i > Len(s) \/ Waits(s, i)
    <3>1. From(s)[i] = Parsed(<<>>, Drop(s, i - 1))
      BY <2>1, <2>4 DEF Scan
    <3>2. From(s)[i].frames = <<>> /\ From(s)[i].rest = Drop(s, i - 1)
      BY <3>1 DEF Parsed
    <3>3. From(u)[i] = Before(<<>>, From(u)[i])
      <4> DEFINE v == From(u)[i]
      <4>1. v \in Results
        BY <2>3
      <4> HIDE DEF v
      <4>2. Before(<<>>, v) = v
        BY <4>1, BeforeFacts
      <4> QED
        BY <4>2 DEF v
    <3>4. i = Len(s) + 1 \/ Waits(s, i)
      BY <1>1, <2>4
    <3>5. Reaches(s, u, i, i)
      BY <3>2, <3>3, <3>4 DEF Reaches
    <3> QED
      BY <3>5
  <2>5. CASE ~(i > Len(s)) /\ ~Waits(s, i)
    <3> DEFINE x == Found(s, i)
               m == NextAt(s, i)
    <3>1. i \in 1..Len(s) /\ ~(i > Len(u)) /\ i + 0 = i
      BY <1>1, <2>5
    <3>2. x \in Seq(AFrame) /\ m \in (i + 1)..n
      BY <2>5, <3>1, WalkFacts
    <3>3. ~Waits(u, i) /\ Found(u, i) = x /\ NextAt(u, i) = m
      <4> DEFINE d == 0
      <4>1. Within(s, u, d) /\ i + d = i /\ m + d = m
        BY <1>1, <3>1, <3>2
      <4>2. ~Waits(u, i + d) /\ Found(u, i + d) = Found(s, i)
            /\ NextAt(u, i + d) = NextAt(s, i) + d
        <5> HIDE DEF d
        <5> QED
          BY <2>5, <3>1, <4>1, Moves
      <4> QED
        BY <4>1, <4>2
    <3>4. PICK p : Reaches(s, u, m, p)
      BY <1>2, <3>2
    <3>5. From(s)[m] \in Results /\ m \in 1..n
      BY <3>2, FromScans
    <3> HIDE DEF x, m
    <3>6. From(s)[i] = Before(x, From(s)[m])
      BY <2>1, <2>5 DEF Scan, x, m
    <3>7. From(u)[i] = Before(x, From(u)[m])
      BY <2>3, <3>1, <3>3 DEF Scan
    <3> DEFINE y == From(s)[m].frames
               v == From(u)[p]
    <3>8. /\ p \in 1..(Len(s) + 1) /\ (p = Len(s) + 1 \/ Waits(s, p))
          /\ From(s)[m].rest = Drop(s, p - 1) /\ From(u)[m] = Before(y, v)
      BY <3>4 DEF Reaches
    <3>9. From(s)[i].frames = x \o y /\ From(s)[i].rest = Drop(s, p - 1)
      <4> DEFINE w == From(s)[m]
                 z == From(s)[i]
      <4>1. z = Before(x, w) /\ w.rest = Drop(s, p - 1) /\ y = w.frames
        BY <3>6, <3>8
      <4> HIDE DEF w, z, y
      <4>2. z.frames = x \o w.frames /\ z.rest = w.rest
        BY <4>1, BeforeParts
      <4>3. z.frames = x \o y /\ z.rest = Drop(s, p - 1)
        BY <4>1, <4>2
      <4> QED
        BY <4>3 DEF z
    <3>10. y \in Seq(AFrame)
      BY <3>5 DEF Results
    <3>11. v \in Results
      <4>1. p \in 1..(Len(u) + 1)
        BY <1>1, <3>8
      <4> QED
        BY <4>1, FromScans
    <3> HIDE DEF y, v
    <3>12. From(u)[i] = Before(x \o y, v)
      <4>1. Before(x, Before(y, v)) = Before(x \o y, v)
        BY <3>2, <3>10, <3>11, BeforeFacts
      <4> QED
        BY <3>7, <3>8, <4>1
    <3>13. Reaches(s, u, i, p)
      BY <3>8, <3>9, <3>12 DEF Reaches, v
    <3> QED
      BY <3>13
  <2> QED
    BY <2>4, <2>5
<1>3. 1..n \subseteq T
  <2> HIDE DEF T, n
  <2> QED
    BY <1>1, <1>2, DownInduction
<1>4. 1 \in 1..n
  BY <1>1
<1> QED
  BY <1>3, <1>4

-----------------------------------------------------------------------------
(* Parsing in chunks.                                                      *)

LEMMA Longer ==
  ASSUME NEW s \in Seq(Byte), NEW t \in Seq(Byte)
  PROVE  /\ s \o t \in Seq(Byte) /\ Len(s \o t) = Len(s) + Len(t)
         /\ Within(s, s \o t, 0)
         /\ \A m \in 0..Len(s) : Drop(s \o t, m) = Drop(s, m) \o t
<1> DEFINE u == s \o t
<1>1. u \in Seq(Byte) /\ Len(u) = Len(s) + Len(t) /\ Len(s) \in Nat /\ Len(t) \in Nat
  BY ConcatProperties, LenProperties
<1>2. \A k \in 1..Len(s) : u[k] = s[k]
  BY ConcatProperties
<1>3. \A k \in 1..Len(t) : u[Len(s) + k] = t[k]
  <2> SUFFICES ASSUME NEW k \in 1..Len(t) PROVE u[Len(s) + k] = t[k]
    OBVIOUS
  <2>1. Len(s) + k \in 1..(Len(s) + Len(t)) /\ Len(s) + k > Len(s)
    BY <1>1
  <2>2. u[Len(s) + k] = t[Len(s) + k - Len(s)] /\ Len(s) + k - Len(s) = k
    BY <1>1, <2>1, ConcatProperties
  <2> QED
    BY <2>2
<1>4. Within(s, u, 0)
  <2> HIDE DEF u
  <2>1. \A k \in 1..Len(s) : k + 0 = k
    OBVIOUS
  <2> QED
    BY <1>1, <1>2, <2>1 DEF Within
<1>5. ASSUME NEW m \in 0..Len(s)
      PROVE  Drop(u, m) = Drop(s, m) \o t
  <2> DEFINE a == Drop(u, m)
             d == Drop(s, m)
             b == d \o t
  <2> HIDE DEF u
  <2>1. /\ a \in Seq(Byte) /\ Len(a) = Len(s) + Len(t) - m
        /\ \A i \in 1..(Len(s) + Len(t) - m) : a[i] = u[m + i]
    <3> DEFINE n == Len(u)
    <3>1. n = Len(s) + Len(t) /\ m \in Nat /\ m <= n
      BY <1>1
    <3>2. a \in Seq(Byte) /\ Len(a) = n - m /\ \A i \in 1..(n - m) : a[i] = u[m + i]
      BY <1>1, <3>1, DropType
    <3> HIDE DEF n, a
    <3> QED
      BY <3>1, <3>2
  <2>2. /\ d \in Seq(Byte) /\ Len(d) = Len(s) - m
        /\ \A i \in 1..(Len(s) - m) : d[i] = s[m + i]
    <3>1. m \in Nat /\ m <= Len(s)
      BY <1>1
    <3> QED
      BY <3>1, DropType
  <2> HIDE DEF a, d
  <2>3. b \in Seq(Byte) /\ Len(b) = Len(s) - m + Len(t)
    BY <2>2, ConcatProperties
  <2>4. ASSUME NEW i \in 1..Len(b)
        PROVE  a[i] = b[i]
    <3>1. CASE i <= Len(d)
      <4>1. b[i] = d[i]
        BY <1>1, <2>2, <2>3, <3>1, ConcatProperties
      <4>2. d[i] = s[m + i] /\ m + i \in 1..Len(s)
        BY <1>1, <2>2, <3>1
      <4>3. a[i] = u[m + i]
        BY <1>1, <2>1, <2>3
      <4> QED
        BY <1>2, <4>1, <4>2, <4>3
    <3>2. CASE i > Len(d)
      <4> DEFINE j == i - Len(d)
      <4>1. b[i] = t[j]
        BY <1>1, <2>2, <2>3, <3>2, ConcatProperties
      <4>2. j \in 1..Len(t) /\ m + i = Len(s) + j
        BY <1>1, <2>2, <2>3, <3>2
      <4>3. a[i] = u[m + i]
        BY <1>1, <2>1, <2>3
      <4> HIDE DEF j
      <4>4. u[Len(s) + j] = t[j]
        BY <1>3, <4>2
      <4> QED
        BY <4>1, <4>2, <4>3, <4>4
    <3> QED
      BY <1>1, <2>2, <2>3, <3>1, <3>2
  <2>5. Len(a) = Len(b)
    BY <1>1, <2>1, <2>3
  <2> HIDE DEF b
  <2>6. a = b
    BY <2>1, <2>3, <2>4, <2>5, SeqEqual
  <2> QED
    BY <2>6 DEF a, b, d
<1> QED
  BY <1>1, <1>4, <1>5

\* Parsing s and then what comes after it, t, behind what s has left is parsing all of it
\* at once (spp.py read_frames: "iter_frames(self._leftover + chunk)").
LEMMA Continues ==
  ASSUME NEW s \in Seq(Byte), NEW t \in Seq(Byte), framing \in Framings
  PROVE  LET parsed == IterFrames(s)
         IN IterFrames(s \o t) = Before(parsed.frames, IterFrames(parsed.rest \o t))
<1> DEFINE u == s \o t
           parsed == IterFrames(s)
<1>1. u \in Seq(Byte) /\ Len(u) = Len(s) + Len(t) /\ Len(s) \in Nat /\ Len(t) \in Nat
  BY Longer, LenProperties
<1>2. Within(s, u, 0) /\ \A m \in 0..Len(s) : Drop(u, m) = Drop(s, m) \o t
  BY Longer
<1> HIDE DEF u
<1>3. PICK p : Reaches(s, u, 1, p)
  BY <1>1, <1>2, Prefix
<1>4. p - 1 \in 0..Len(s) /\ p - 1 \in Nat /\ p - 1 <= Len(u) /\ p - 1 + 1 = p
  BY <1>1, <1>3 DEF Reaches
<1>5. parsed = From(s)[1] /\ IterFrames(u) = From(u)[1]
  BY <1>1, IterIsFrom
<1>6. IterFrames(Drop(u, p - 1)) = From(u)[p]
  BY <1>1, <1>4, FromDrop
<1>7. Drop(u, p - 1) = parsed.rest \o t
  BY <1>2, <1>3, <1>4, <1>5 DEF Reaches
<1>8. From(u)[1] = Before(parsed.frames, From(u)[p])
  BY <1>3, <1>5 DEF Reaches
<1> HIDE DEF parsed
<1>9. IterFrames(u) = Before(parsed.frames, IterFrames(parsed.rest \o t))
  BY <1>5, <1>6, <1>7, <1>8
<1> QED
  BY <1>9 DEF u, parsed

\* Without stuffing what is left is shorter than the longest frame.
LEMMA RestBound ==
  ASSUME NEW s \in Seq(Byte), framing \in Framings, ~Stuffed
  PROVE  Len(IterFrames(s).rest) <= 1 + LenBytes + MaxFrame - Counted + CrcBytes
<1>1. /\ LenBytes \in Nat \ {0} /\ CrcBytes \in Nat \ {0} /\ MaxFrame \in Nat
      /\ Counted \in 0..CrcBytes /\ Len(s) \in Nat
  BY FramingFacts, LenProperties
<1>2. Within(s, s, 0)
  BY <1>1 DEF Within
<1>3. PICK p : Reaches(s, s, 1, p)
  BY <1>2, Prefix
<1>4. p \in 1..(Len(s) + 1) /\ p - 1 \in Nat /\ p - 1 <= Len(s)
  BY <1>1, <1>3 DEF Reaches
<1>5. IterFrames(s).rest = Drop(s, p - 1)
  BY <1>3, IterIsFrom DEF Reaches
<1>6. Len(IterFrames(s).rest) = Len(s) - (p - 1)
  BY <1>4, <1>5, DropType
<1>7. Len(s) - (p - 1) <= 1 + LenBytes + MaxFrame - Counted + CrcBytes
  <2>1. CASE p = Len(s) + 1 \/ p + LenBytes > Len(s)
    BY <1>1, <1>4, <2>1
  <2>2. CASE p \in 1..Len(s) /\ p + LenBytes <= Len(s) /\ Waits(s, p)
    <3>1. LenAt(s, p) \in Nat /\ EndAt(s, p) \in Int
      BY <2>2, EndFacts
    <3>2. ~Implausible(LenAt(s, p)) /\ EndAt(s, p) > Len(s)
      BY <1>1, <2>2 DEF Waits, WaitsAt
    <3>3. LenAt(s, p) <= MaxFrame
      BY <1>1, <3>1, <3>2 DEF Implausible
    <3>4. EndAt(s, p) = p + 1 + LenBytes + LenAt(s, p) - Counted + CrcBytes
      BY DEF EndAt
    <3> HIDE DEF Counted, LenBytes, CrcBytes, MaxFrame
    <3> QED
      BY <1>1, <1>4, <3>1, <3>2, <3>3, <3>4
  <2> QED
    BY <1>1, <1>3, <1>4, <2>1, <2>2 DEF Reaches
<1> QED
  BY <1>6, <1>7

\* Of nothing the parser makes nothing.
LEMMA ParsesNothing ==
  ASSUME framing \in Framings
  PROVE  IterFrames(<<>>) = Parsed(<<>>, <<>>)
<1> DEFINE s == <<>>
<1>1. s \in Seq(Byte) /\ Len(s) = 0
  OBVIOUS
<1> HIDE DEF s
<1>2. 1 \in 1..(Len(s) + 1) /\ 1 > Len(s)
  BY <1>1
<1>3. From(s)[1] = Scan(From(s), s, 1)
  BY <1>1, <1>2, FromScans
<1>4. Scan(From(s), s, 1) = Parsed(<<>>, Drop(s, 1 - 1))
  BY <1>2 DEF Scan
<1>5. Drop(s, 1 - 1) = <<>>
  BY <1>1, <1>2, StopType
<1>6. IterFrames(s) = Parsed(<<>>, <<>>)
  BY <1>1, <1>3, <1>4, <1>5, IterIsFrom
<1> QED
  BY <1>6 DEF s

-----------------------------------------------------------------------------
(* No step changes the framing, nor what the parser makes of a buffer.     *)

LEMMA DecodeStays ==
  ASSUME framing' = framing, NEW data
  PROVE  Decode(data)' = Decode(data)
<1> DEFINE n == Len(data)
           D(c) ==
             CHOOSE f :
               f = [i \in 1..(n + 2) |->
                      IF i > n THEN <<>>
                      ELSE IF data[i] = c.escape /\ i < n
                           THEN <<(data[i + 1] + Base - c.offset) % Base>> \o f[i + 2]
                           ELSE <<data[i]>> \o f[i + 1]]
<1>1. Decode(data) = D(framing)[1]
  BY DEF Decode, Escape, Offset
<1>2. Decode(data)' = D(framing')[1]
  BY DEF Decode, Escape, Offset
<1> HIDE DEF D
<1> QED
  BY <1>1, <1>2

LEMMA WalkStays ==
  ASSUME framing' = framing, NEW buf, NEW i
  PROVE  /\ Waits(buf, i)' = Waits(buf, i)
         /\ Found(buf, i)' = Found(buf, i)
         /\ NextAt(buf, i)' = NextAt(buf, i)
<1>1. /\ Soi' = Soi /\ Eoi' = Eoi /\ LenBytes' = LenBytes /\ CrcBytes' = CrcBytes
      /\ MaxFrame' = MaxFrame /\ Stuffed' = Stuffed /\ Counted' = Counted
  BY DEF Soi, Eoi, LenBytes, CrcBytes, MaxFrame, Stuffed, Counted
<1>2. EoiAfter(buf, i)' = EoiAfter(buf, i)
  <2> DEFINE E(c) == SelectInSubSeq(buf, i + 1, Len(buf), LAMBDA b : b = c.eoi)
  <2>1. EoiAfter(buf, i) = E(framing)
    BY DEF EoiAfter, Eoi, SelectInSubSeq
  <2>2. EoiAfter(buf, i)' = E(framing')
    BY DEF EoiAfter, Eoi, SelectInSubSeq
  <2> HIDE DEF E
  <2> QED
    BY <2>1, <2>2
<1>3. LenAt(buf, i)' = LenAt(buf, i) /\ EndAt(buf, i)' = EndAt(buf, i)
  BY <1>1 DEF LenAt, EndAt
<1>4. \A inner : DecodeInner(inner)' = DecodeInner(inner)
  BY <1>1 DEF DecodeInner, Crc
<1>5. \A len : Implausible(len)' = Implausible(len)
  BY <1>1 DEF Implausible
<1>6. WaitsAt(buf, i)' = WaitsAt(buf, i)
  BY <1>1, <1>3, <1>5 DEF WaitsAt
<1>7. FrameAt(buf, i)' = FrameAt(buf, i)
  BY <1>1, <1>3, <1>4, <1>5 DEF FrameAt
<1>8. Waits(buf, i)' = Waits(buf, i)
  BY <1>1, <1>2, <1>6 DEF Waits
<1>9. Found(buf, i)' = Found(buf, i)
  BY <1>1, <1>2, <1>4, <1>7, DecodeStays DEF Found
<1>10. NextAt(buf, i)' = NextAt(buf, i)
  BY <1>1, <1>2, <1>3, <1>7 DEF NextAt
<1> QED
  BY <1>8, <1>9, <1>10

LEMMA FromAlways ==
  framing \in Framings =>
    \A buf \in Seq(Byte) : \A i \in 1..(Len(buf) + 1) :
      From(buf)[i] \in Results /\ From(buf)[i] = Scan(From(buf), buf, i)
BY FromScans

LEMMA ParseStays ==
  ASSUME framing' = framing, framing \in Framings, NEW s \in Seq(Byte)
  PROVE  IterFrames(s)' = IterFrames(s)
<1> DEFINE n == Len(s) + 1
           f == From(s)
           g == From(s)'
           T == {i \in 1..n : g[i] = f[i]}
<1>1. n \in Nat /\ Len(s) \in Nat
  BY LenProperties
<1>2. \A i \in 1..n : f[i] = Scan(f, s, i)
  BY FromScans
<1>3. \A i \in 1..n : g[i] = Scan(g, s, i)
  <2>1. (framing \in Framings =>
           \A buf \in Seq(Byte) : \A i \in 1..(Len(buf) + 1) :
             From(buf)[i] \in Results /\ From(buf)[i] = Scan(From(buf), buf, i))'
    BY FromAlways, PTL
  <2>2. \A i \in 1..n : g[i] = (Scan(From(s), s, i))'
    BY <2>1
  <2>3. ASSUME NEW i PROVE (Scan(From(s), s, i))' = Scan(g, s, i)
    BY WalkStays DEF Scan, Before, Parsed
  <2> QED
    BY <2>2, <2>3
<1> HIDE DEF f, g
<1>4. ASSUME NEW i \in 1..n, \A j \in (i + 1)..n : j \in T
      PROVE  i \in T
  <2>1. CASE i > Len(s) \/ Waits(s, i)
    BY <1>2, <1>3, <2>1 DEF Scan
  <2>2. CASE ~(i > Len(s) \/ Waits(s, i))
    <3> DEFINE m == NextAt(s, i)
    <3>1. m \in (i + 1)..n
      BY <1>1, <2>2, WalkFacts
    <3>2. g[m] = f[m]
      BY <1>4, <3>1
    <3> HIDE DEF m
    <3>3. f[i] = Before(Found(s, i), f[m])
      BY <1>2, <2>2 DEF Scan, m
    <3>4. g[i] = Before(Found(s, i), g[m])
      BY <1>3, <2>2 DEF Scan, m
    <3> QED
      BY <3>2, <3>3, <3>4
  <2> QED
    BY <2>1, <2>2
<1>5. 1..n \subseteq T
  <2> HIDE DEF T, n
  <2> QED
    BY <1>1, <1>4, DownInduction
<1>6. IterFrames(s) = f[1] /\ IterFrames(s)' = g[1]
  BY DEF IterFrames, From, IterStuffed, IterUnstuffed, f, g
<1>7. 1 \in 1..n
  BY <1>1
<1> QED
  BY <1>5, <1>6, <1>7

-----------------------------------------------------------------------------
(* What is built is what is parsed.                                        *)

LEMMA Division ==
  ASSUME NEW b \in Nat \ {0}, NEW a \in 0..(b - 1), NEW v \in Nat
  PROVE  (a + b * v) \div b = v /\ (a + b * v) % b = a
OBVIOUS

\* The bytes of a number are the bytes it was read from.
LEMMA WrittenBack ==
  ASSUME NEW b \in Seq(Byte), framing \in Framings
  PROVE  ToBytes(FromBytes(b), Len(b)) = b
<1> DEFINE n == Len(b)
           v == FromBytes(b)
           c == ToBytes(v, n)
<1>1. n \in Nat /\ v \in Nat /\ b \in Seq(Nat)
  BY LenProperties, Bytes, ValueType
<1>2. PICK value : TailValues(value, b)
  BY <1>1, Valued
<1>3. c \in Seq(Byte) /\ Len(c) = n
  BY <1>1, BytesType
<1>4. PICK left : Remainders(left, v, n)
  BY <1>1, Taken
<1>5. Base \in Nat \ {0} /\ \A i \in 1..n : b[i] \in 0..(Base - 1)
  BY FramingFacts, ElementOfSeq DEF Byte
<1>6. /\ left[0] = value[n]
      /\ \A i \in 1..n : left[i] = left[i - 1] \div Base /\ c[i] = left[i - 1] % Base
  BY <1>2, <1>4 DEF TailValues, Remainders
<1>7. /\ \A k \in 0..n : value[k] \in Nat
      /\ \A k \in 1..n : value[k] = b[n + 1 - k] + Base * value[k - 1]
  BY <1>2 DEF TailValues
<1> HIDE DEF n, v, c
<1>8. ASSUME NEW i \in 1..n, left[i - 1] = value[n - (i - 1)]
      PROVE  left[i] = value[n - i] /\ c[i] = b[i]
  <2> DEFINE k == n - (i - 1)
  <2>1. k \in 1..n /\ n + 1 - k = i /\ k - 1 = n - i /\ n - i \in 0..n
    BY <1>1
  <2>2. left[i - 1] = b[i] + Base * value[n - i]
    BY <1>7, <1>8, <2>1
  <2>3. value[n - i] \in Nat /\ b[i] \in 0..(Base - 1)
    BY <1>5, <1>7, <2>1
  <2>4. left[i] = (b[i] + Base * value[n - i]) \div Base
        /\ c[i] = (b[i] + Base * value[n - i]) % Base
    BY <1>6, <2>2
  <2> DEFINE w == value[n - i]
             a == b[i]
  <2> HIDE DEF w, a
  <2>5. (a + Base * w) \div Base = w /\ (a + Base * w) % Base = a
    BY <1>5, <2>3, Division DEF w, a
  <2> QED
    BY <2>4, <2>5 DEF w, a
<1> DEFINE T == {i \in 0..n : left[i] = value[n - i]}
<1>9. 0 \in T
  BY <1>1, <1>6
<1>10. \A i \in 1..n : i - 1 \in T => i \in T
  BY <1>1, <1>8
<1>11. 0..n \subseteq T
  <2> HIDE DEF T
  <2> QED
    BY <1>1, <1>9, <1>10, UpInduction
<1>12. \A i \in 1..n : c[i] = b[i]
  <2>1. ASSUME NEW i \in 1..n PROVE c[i] = b[i]
    <3>1. i - 1 \in T
      <4> HIDE DEF T
      <4>1. i - 1 \in 0..n
        BY <1>1
      <4> QED
        BY <1>11, <4>1
    <3> QED
      BY <1>8, <3>1
  <2> QED
    BY <2>1
<1>13. c = b
  BY <1>3, <1>12, SeqEqual DEF n
<1> QED
  BY <1>13 DEF c, v, n

-----------------------------------------------------------------------------
\* The parts of a frame.
Body(frame) == <<frame.type>> \o frame.args
Size(frame) == Len(Body(frame)) + Counted
Checked(frame) == ToBytes(Size(frame), LenBytes) \o Body(frame)
Inner(frame) == Checked(frame) \o ToBytes(Crc(Checked(frame)), CrcBytes)

\* LEN can hold the length of the frame: n.to_bytes raises where it cannot.
Fits(frame) == FromBytes(ToBytes(Size(frame), LenBytes)) = Size(frame)

LEMMA BuildIs ==
  ASSUME NEW frame
  PROVE  Build(frame) = <<Soi>> \o (IF Stuffed THEN Encode(Inner(frame)) ELSE Inner(frame)) \o <<Eoi>>
BY DEF Build, Inner, Checked, Size, Body

\* u is s and then t.
Both(S, s, t) == s \in Seq(S) /\ t \in Seq(S)
Joins(S, u, s, t) ==
  /\ u \in Seq(S) /\ Len(u) = Len(s) + Len(t)
  /\ \A k \in 1..Len(s) : u[k] = s[k]
  /\ \A k \in 1..Len(t) : u[Len(s) + k] = t[k]

LEMMA Joined ==
  ASSUME NEW S, NEW s, NEW t, Both(S, s, t)
  PROVE  Joins(S, s \o t, s, t)
<1>1. /\ s \o t \in Seq(S) /\ Len(s \o t) = Len(s) + Len(t)
      /\ \A k \in 1..Len(s) : (s \o t)[k] = s[k]
      /\ \A k \in 1..Len(t) : (s \o t)[Len(s) + k] = t[k]
  BY DEF Both
<1> QED
  BY <1>1 DEF Joins

\* Where the first n bytes of s end.
Reaching(S, s, n) == s \in Seq(S) /\ n \in Nat /\ n <= Len(s)
LEMMA Starts ==
  ASSUME NEW S, NEW s, NEW n, Reaching(S, s, n)
  PROVE  /\ Take(s, n) \in Seq(S) /\ Len(Take(s, n)) = n
         /\ \A i \in 1..n : Take(s, n)[i] = s[i]
<1>1. s \in Seq(S) /\ n \in Nat /\ 1 \in Nat \ {0} /\ n \in Int /\ n <= Len(s)
  BY DEF Reaching
<1>2. /\ SubSeq(s, 1, n) \in Seq(S)
      /\ Len(SubSeq(s, 1, n)) = IF 1 <= n THEN n - 1 + 1 ELSE 0
      /\ \A i \in 1..(n - 1 + 1) : SubSeq(s, 1, n)[i] = s[1 + i - 1]
  BY <1>1, Cuts
<1> DEFINE a == SubSeq(s, 1, n)
<1> HIDE DEF a
<1>3. a \in Seq(S) /\ Len(a) = n /\ \A i \in 1..n : a[i] = s[i]
  BY <1>1, <1>2 DEF a
<1> QED
  BY <1>3 DEF a, Take

LEMMA Parts ==
  ASSUME NEW frame \in AFrame, framing \in Framings
  PROVE  /\ Body(frame) \in Seq(Byte) /\ Len(Body(frame)) = 1 + Len(frame.args)
         /\ Body(frame)[1] = frame.type
         /\ \A k \in 1..Len(frame.args) : Body(frame)[1 + k] = frame.args[k]
         /\ ToBytes(Size(frame), LenBytes) \in Seq(Byte)
         /\ Len(ToBytes(Size(frame), LenBytes)) = LenBytes
         /\ Checked(frame) \in Seq(Byte) /\ Len(Checked(frame)) = LenBytes + 1 + Len(frame.args)
         /\ ToBytes(Crc(Checked(frame)), CrcBytes) \in Seq(Byte)
         /\ Len(ToBytes(Crc(Checked(frame)), CrcBytes)) = CrcBytes
         /\ Inner(frame) \in Seq(Byte)
         /\ Len(Inner(frame)) = LenBytes + 1 + Len(frame.args) + CrcBytes
<1> DEFINE args == frame.args
           one == <<frame.type>>
           body == Body(frame)
           len == ToBytes(Size(frame), LenBytes)
           checked == Checked(frame)
           crc == ToBytes(Crc(checked), CrcBytes)
<1>1. one \in Seq(Byte) /\ Len(one) = 1 /\ one[1] = frame.type /\ args \in Seq(Byte) /\ Len(args) \in Nat
  BY LenProperties DEF AFrame
<1>2. body = one \o args
  BY DEF Body
<1> HIDE DEF one, args, body
<1>3. /\ body \in Seq(Byte) /\ Len(body) = 1 + Len(args) /\ body[1] = frame.type
      /\ \A k \in 1..Len(args) : body[1 + k] = args[k]
  <2>1. Both(Byte, one, args)
    BY <1>1 DEF Both
  <2>2. Joins(Byte, body, one, args)
    BY <1>2, <2>1, Joined
  <2>3. Len(one) = 1 /\ 1 \in 1..Len(one)
    BY <1>1
  <2>4. body[1] = one[1]
    BY <2>2, <2>3 DEF Joins
  <2> QED
    BY <1>1, <2>2, <2>3, <2>4 DEF Joins
<1>4. Size(frame) \in Int /\ LenBytes \in Nat /\ CrcBytes \in Nat
  BY <1>1, <1>3, FramingFacts DEF Size, body
<1>5. len \in Seq(Byte) /\ Len(len) = LenBytes
  BY <1>4, BytesType
<1>6. checked = len \o body
  BY DEF Checked, body
<1> HIDE DEF len, checked
<1>7. checked \in Seq(Byte) /\ Len(checked) = LenBytes + 1 + Len(args)
  <2>1. checked \in Seq(Byte) /\ Len(checked) = Len(len) + Len(body)
    <3>1. Joins(Byte, checked, len, body)
      BY <1>3, <1>5, <1>6, Joined DEF Both
    <3> QED
      BY <3>1 DEF Joins
  <2> QED
    BY <1>1, <1>3, <1>4, <1>5, <2>1
<1>8. Crc(checked) \in Int
  BY <1>7, CrcType
<1>9. crc \in Seq(Byte) /\ Len(crc) = CrcBytes
  BY <1>4, <1>8, BytesType
<1>10. Inner(frame) = checked \o crc
  BY DEF Inner, checked
<1> HIDE DEF crc
<1>11. Inner(frame) \in Seq(Byte) /\ Len(Inner(frame)) = LenBytes + 1 + Len(args) + CrcBytes
  <2>1. Joins(Byte, Inner(frame), checked, crc)
    BY <1>7, <1>9, <1>10, Joined DEF Both
  <2> QED
    BY <1>7, <1>9, <2>1 DEF Joins
<1> QED
  BY <1>3, <1>5, <1>7, <1>9, <1>11 DEF body, len, checked, crc, args

Halved(S, u, s, t) == s \in Seq(S) /\ t \in Seq(S) /\ u = s \o t
LEMMA Halves ==
  ASSUME NEW S, NEW u, NEW s, NEW t, Halved(S, u, s, t)
  PROVE  Take(u, Len(s)) = s /\ Drop(u, Len(s)) = t
<1> DEFINE m == Len(s)
           n == Len(t)
           a == Take(u, m)
           b == Drop(u, m)
<1>1. m \in Nat /\ n \in Nat /\ s \in Seq(S) /\ t \in Seq(S)
  BY LenProperties DEF Halved
<1>2. Joins(S, u, s, t)
  BY Joined DEF Both, Halved
<1> HIDE DEF m, n
<1>3. /\ u \in Seq(S) /\ Len(u) = m + n
      /\ \A k \in 1..m : u[k] = s[k]
      /\ \A k \in 1..n : u[m + k] = t[k]
  BY <1>2 DEF Joins, m, n
<1>4. m \in Nat /\ m <= Len(u) /\ Len(u) - m = n
  BY <1>1, <1>3
<1>5. a \in Seq(S) /\ Len(a) = m /\ \A i \in 1..m : a[i] = u[i]
  BY <1>3, <1>4, Starts DEF Reaching
<1>6. /\ b \in Seq(S) /\ Len(b) = Len(u) - m
      /\ \A i \in 1..(Len(u) - m) : b[i] = u[m + i]
  BY <1>3, <1>4, DropType
<1> HIDE DEF a, b
<1>7. a = s
  BY <1>1, <1>3, <1>5, SeqEqual DEF m
<1>8. b = t
  BY <1>1, <1>3, <1>4, <1>6, SeqEqual DEF n
<1> QED
  BY <1>7, <1>8 DEF a, b, m

\* A frame is decoded to what it was built from.
LEMMA Understood ==
  ASSUME NEW frame \in AFrame, framing \in Framings, Fits(frame)
  PROVE  /\ DecodeInner(Inner(frame)) = <<frame>>
         /\ FromBytes(Take(Inner(frame), LenBytes)) = Size(frame)
<1> DEFINE inner == Inner(frame)
           args == frame.args
           body == Body(frame)
           len == ToBytes(Size(frame), LenBytes)
           checked == Checked(frame)
           crc == ToBytes(Crc(checked), CrcBytes)
           crcAt == LenBytes + 1 + Len(args)
<1>1. /\ body \in Seq(Byte) /\ Len(body) = 1 + Len(args)
      /\ body[1] = frame.type /\ \A k \in 1..Len(args) : body[1 + k] = args[k]
      /\ len \in Seq(Byte) /\ Len(len) = LenBytes
      /\ checked \in Seq(Byte) /\ Len(checked) = crcAt
      /\ crc \in Seq(Byte) /\ Len(crc) = CrcBytes
      /\ inner \in Seq(Byte) /\ Len(inner) = crcAt + CrcBytes
  BY Parts
<1>2. LenBytes \in Nat \ {0} /\ CrcBytes \in Nat \ {0} /\ args \in Seq(Byte) /\ Len(args) \in Nat
      /\ Counted \in Int
  BY FramingFacts, LenProperties DEF AFrame
<1>3. inner = checked \o crc /\ checked = len \o body
  BY DEF Inner, Checked
<1>4. Size(frame) - Counted = 1 + Len(args)
  BY <1>1, <1>2 DEF Size
<1>5. FromBytes(len) = Size(frame)
  BY DEF Fits
<1>6. FromBytes(crc) = Crc(checked)
  <2> DEFINE b == ToBytes(Total(checked), CrcBytes)
  <2>1. Total(checked) \in Int
    BY <1>1, Bytes, SumType
  <2>2. b \in Seq(Byte) /\ Len(b) = CrcBytes
    BY <1>2, <2>1, BytesType
  <2>3. Crc(checked) = FromBytes(b)
    BY DEF Crc
  <2> HIDE DEF b
  <2>4. crc = b
    BY <2>2, <2>3, WrittenBack
  <2> QED
    BY <2>3, <2>4
<1> HIDE DEF inner, args, body, len, checked, crc
<1>7. Take(inner, crcAt) = checked /\ Drop(inner, crcAt) = crc
  <2>1. Halved(Byte, inner, checked, crc)
    BY <1>1, <1>3 DEF Halved
  <2>2. Take(inner, Len(checked)) = checked /\ Drop(inner, Len(checked)) = crc
    BY <2>1, Halves
  <2>3. Len(checked) = crcAt
    BY <1>1
  <2> HIDE DEF crcAt
  <2> QED
    BY <2>2, <2>3
<1>8. \A k \in 1..crcAt : inner[k] = checked[k]
  <2>1. Joins(Byte, inner, checked, crc)
    BY <1>1, <1>3, Joined DEF Both
  <2> QED
    BY <1>1, <2>1 DEF Joins
<1>9. /\ \A k \in 1..LenBytes : checked[k] = len[k]
      /\ \A k \in 1..(1 + Len(args)) : checked[LenBytes + k] = body[k]
  <2>1. Joins(Byte, checked, len, body)
    BY <1>1, <1>3, Joined DEF Both
  <2> QED
    BY <1>1, <2>1 DEF Joins
<1>10. Take(inner, LenBytes) = len
  <2> DEFINE w == LenBytes
             a == Take(inner, w)
  <2>1. w \in Nat /\ w <= crcAt /\ w <= Len(inner)
    BY <1>1, <1>2
  <2> HIDE DEF w
  <2>2. a \in Seq(Byte) /\ Len(a) = w /\ \A i \in 1..w : a[i] = inner[i]
    <3>1. Reaching(Byte, inner, w)
      BY <1>1, <2>1 DEF Reaching
    <3> QED
      BY <3>1, Starts
  <2> HIDE DEF a
  <2>4. \A i \in 1..w : a[i] = len[i]
    <3>1. ASSUME NEW i \in 1..w PROVE a[i] = len[i]
      <4>1. i \in 1..crcAt /\ i \in 1..LenBytes
        BY <1>1, <1>2, <2>1 DEF w
      <4> QED
        BY <1>8, <1>9, <2>2, <4>1
    <3> QED
      BY <3>1
  <2>5. a = len
    BY <1>1, <2>1, <2>2, <2>4, SeqEqual DEF w
  <2> QED
    BY <2>5 DEF a, w
<1>11. inner[LenBytes + 1] = frame.type
  <2>1. LenBytes + 1 \in 1..crcAt /\ 1 \in 1..(1 + Len(args))
    BY <1>2
  <2> QED
    BY <1>1, <1>8, <1>9, <2>1
<1>12. SubSeq(inner, LenBytes + 2, crcAt) = args
  <2> DEFINE p == LenBytes + 2
             a == SubSeq(inner, p, crcAt)
             l == Len(args)
  <2>c. \A x \in Nat : \A y \in Nat : (x + 1 + y) - (x + 2) + 1 = y /\ x + 1 + y + 1 = (x + 2) + y
    OBVIOUS
  <2>d. LenBytes \in Nat /\ l \in Nat
    BY <1>2
  <2>1. /\ p \in Nat \ {0} /\ crcAt \in Int /\ crcAt <= Len(inner)
        /\ crcAt - p + 1 = l /\ l \in Nat
    <3>1. crcAt - p + 1 = l
      BY <2>c, <2>d
    <3>2. p \in Nat \ {0} /\ crcAt \in Int
      BY <2>d
    <3>3. crcAt <= Len(inner)
      <4> HIDE DEF crcAt
      <4> QED
        BY <1>1, <1>2, <3>2
    <3> QED
      BY <2>d, <3>1, <3>2, <3>3
  <2>e. (IF p <= crcAt THEN crcAt - p + 1 ELSE 0) = l
    <3> HIDE DEF l
    <3>1. CASE p <= crcAt
      BY <2>1, <3>1
    <3>2. CASE ~(p <= crcAt)
      <4> HIDE DEF p, crcAt
      <4> QED
        BY <2>1, <3>2
    <3> QED
      BY <3>1, <3>2
  <2> HIDE DEF p, crcAt, l
  <2>2. a \in Seq(Byte) /\ Len(a) = (IF p <= crcAt THEN crcAt - p + 1 ELSE 0)
        /\ \A i \in 1..(crcAt - p + 1) : a[i] = inner[p + i - 1]
    BY <1>1, <2>1, Cuts
  <2>f. Len(a) = l /\ \A i \in 1..l : a[i] = inner[p + i - 1]
    BY <2>1, <2>2, <2>e
  <2> HIDE DEF a
  <2>3. ASSUME NEW i \in 1..l PROVE a[i] = args[i]
    <3>1. p + i - 1 = LenBytes + (1 + i) /\ p + i - 1 \in 1..crcAt /\ 1 + i \in 1..(1 + Len(args))
      BY <1>2 DEF p, crcAt, l
    <3>2. a[i] = inner[p + i - 1]
      BY <2>f
    <3>3. inner[p + i - 1] = checked[LenBytes + (1 + i)]
      BY <1>8, <3>1
    <3>4. checked[LenBytes + (1 + i)] = body[1 + i]
      BY <1>9, <3>1
    <3>5. body[1 + i] = args[i]
      BY <1>1 DEF l
    <3> QED
      BY <3>2, <3>3, <3>4, <3>5
  <2>4. a = args
    BY <1>2, <2>2, <2>f, <2>3, SeqEqual DEF l
  <2> QED
    BY <2>4 DEF a, p
<1>13. Frame(frame.type, args) = frame
  BY DEF Frame, AFrame, args
<1>14. /\ FromBytes(Take(inner, LenBytes)) - Counted = 1 + Len(args)
       /\ Len(inner) >= LenBytes + 1 + CrcBytes /\ 1 + Len(args) >= 1
       /\ LenBytes + (1 + Len(args)) = crcAt /\ crcAt + CrcBytes = Len(inner)
  BY <1>1, <1>2, <1>4, <1>5, <1>10
<1> HIDE DEF crcAt
<1>15. DecodeInner(inner) = <<Frame(frame.type, args)>>
  BY <1>6, <1>7, <1>11, <1>12, <1>14 DEF DecodeInner
<1> QED
  BY <1>5, <1>10, <1>13, <1>15 DEF inner

-----------------------------------------------------------------------------
(* A whole frame is found, and one whose end is missing is waited for.     *)

Framed(buf, x, mid, y) ==
  /\ mid \in Seq(Byte) /\ buf \in Seq(Byte) /\ Len(buf) = Len(mid) + 2
  /\ buf[1] = x /\ buf[Len(mid) + 2] = y
  /\ \A k \in 1..Len(mid) : buf[k + 1] = mid[k]

LEMMA Wrapped ==
  ASSUME NEW x \in Byte, NEW mid \in Seq(Byte), NEW y \in Byte
  PROVE  Framed(<<x>> \o mid \o <<y>>, x, mid, y)
<1> DEFINE a == <<x>>
           b == <<y>>
           h == a \o mid
           buf == h \o b
           n == Len(mid)
<1>1. a \in Seq(Byte) /\ Len(a) = 1 /\ a[1] = x /\ b \in Seq(Byte) /\ Len(b) = 1 /\ b[1] = y
  OBVIOUS
<1>n. n \in Nat
  BY LenProperties
<1> HIDE DEF a, b
<1>2. Joins(Byte, h, a, mid)
  BY <1>1, Joined DEF Both
<1>3. h \in Seq(Byte)
  BY <1>2 DEF Joins
<1> HIDE DEF h
<1>4. Joins(Byte, buf, h, b)
  BY <1>1, <1>3, Joined DEF Both
<1> HIDE DEF buf, n
<1>5. /\ Len(h) = 1 + n /\ h[1] = x /\ \A k \in 1..n : h[1 + k] = mid[k]
  BY <1>1, <1>2 DEF Joins, n
<1>6. /\ buf \in Seq(Byte) /\ Len(buf) = Len(h) + 1
      /\ \A k \in 1..Len(h) : buf[k] = h[k]
      /\ buf[Len(h) + 1] = y
  BY <1>1, <1>4 DEF Joins
<1>7. Len(buf) = n + 2 /\ buf[n + 2] = y
  <2>1. Len(h) + 1 = n + 2
    BY <1>5, <1>n
  <2> QED
    BY <1>6, <2>1
<1>8. buf[1] = x
  <2>1. 1 \in 1..Len(h)
    BY <1>5, <1>n
  <2> QED
    BY <1>5, <1>6, <2>1
<1>9. \A k \in 1..n : buf[k + 1] = mid[k]
  <2>1. ASSUME NEW k \in 1..n PROVE buf[k + 1] = mid[k]
    <3>1. k + 1 \in 1..Len(h) /\ k + 1 = 1 + k
      BY <1>5, <1>n
    <3> QED
      BY <1>5, <1>6, <3>1
  <2> QED
    BY <2>1
<1>10. Framed(buf, x, mid, y)
  BY <1>6, <1>7, <1>8, <1>9 DEF Framed, n
<1> QED
  BY <1>10 DEF buf, h, a, b

LEMMA Unwrapped ==
  ASSUME NEW x, NEW mid, NEW y, NEW buf, Framed(buf, x, mid, y)
  PROVE  /\ Within(mid, buf, 1) /\ Len(mid) \in Nat
         /\ SubSeq(buf, 2, Len(mid) + 1) = mid
<1> DEFINE n == Len(mid)
<1>1. mid \in Seq(Byte) /\ buf \in Seq(Byte) /\ n \in Nat
  BY LenProperties DEF Framed
<1>2. Len(buf) = n + 2 /\ \A k \in 1..n : buf[k + 1] = mid[k]
  BY DEF Framed
<1>3. Within(mid, buf, 1)
  BY <1>1, <1>2 DEF Within
<1> HIDE DEF n
<1>4. Same(mid, buf, 1, 1, n, 2, n + 1)
  BY <1>1, <1>3 DEF Same, n
<1>5. Slice(buf, 2, n + 1) = Slice(mid, 1, n)
  BY <1>4, SameCut
<1>6. Take(mid, n) = mid
  <2> DEFINE a == Take(mid, n)
  <2>1. Reaching(Byte, mid, n)
    BY <1>1 DEF Reaching, n
  <2>2. a \in Seq(Byte) /\ Len(a) = n /\ \A i \in 1..n : a[i] = mid[i]
    BY <2>1, Starts
  <2> HIDE DEF a
  <2>3. a = mid
    BY <1>1, <2>2, SeqEqual DEF n
  <2> QED
    BY <2>3 DEF a
<1> QED
  BY <1>1, <1>3, <1>5, <1>6 DEF Slice, Take, n

\* A buffer that is one step of the parser, and one at whose first byte it waits.
LEMMA OneStep ==
  ASSUME NEW buf \in Seq(Byte), framing \in Framings, Len(buf) >= 1,
         ~Waits(buf, 1), NextAt(buf, 1) = Len(buf) + 1
  PROVE  IterFrames(buf) = Parsed(Found(buf, 1), <<>>)
<1> DEFINE f == From(buf)
           n == Len(buf)
<1>1. n \in Nat /\ n >= 1 /\ 1 \in 1..n /\ 1 \in 1..(n + 1) /\ n + 1 \in 1..(n + 1)
  BY LenProperties
<1>2. IterFrames(buf) = f[1]
  BY IterIsFrom
<1>3. \A i \in 1..(n + 1) : f[i] = Scan(f, buf, i)
  BY FromScans
<1> HIDE DEF f
<1>4. f[n + 1] = Parsed(<<>>, Drop(buf, n + 1 - 1)) /\ Drop(buf, n + 1 - 1) = <<>>
  <2>1. n + 1 > Len(buf)
    BY <1>1
  <2>2. Drop(buf, n + 1 - 1) = <<>>
    BY <1>1, <2>1, StopType
  <2>3. f[n + 1] = Scan(f, buf, n + 1)
    BY <1>1, <1>3
  <2> DEFINE k == n + 1
             d == Drop(buf, k - 1)
  <2>4. k > Len(buf) /\ d = <<>> /\ f[k] = Scan(f, buf, k)
    BY <2>1, <2>2, <2>3
  <2> HIDE DEF k
  <2>5. Scan(f, buf, k) = Parsed(<<>>, d)
    BY <2>4 DEF Scan
  <2> HIDE DEF d
  <2>6. f[k] = Parsed(<<>>, d) /\ d = <<>>
    BY <2>4, <2>5
  <2> QED
    BY <2>6 DEF d, k
<1>5. f[1] = Before(Found(buf, 1), f[n + 1])
  <2>1. ~(1 > Len(buf))
    BY <1>1
  <2>2. f[1] = Scan(f, buf, 1)
    BY <1>1, <1>3
  <2> QED
    BY <2>1, <2>2 DEF Scan
<1>6. Found(buf, 1) \in Seq(AFrame)
  BY <1>1, WalkFacts
<1> DEFINE x == Found(buf, 1)
<1> HIDE DEF x
<1>7. x \o <<>> = x
  BY <1>6, ConcatEmptySeq DEF x
<1>8. Before(x, Parsed(<<>>, <<>>)) = Parsed(x, <<>>)
  BY <1>7 DEF Before, Parsed
<1> QED
  BY <1>2, <1>4, <1>5, <1>8 DEF x

LEMMA OneWait ==
  ASSUME NEW buf \in Seq(Byte), framing \in Framings, Len(buf) >= 1, Waits(buf, 1)
  PROVE  IterFrames(buf).frames = <<>>
<1> DEFINE f == From(buf)
<1>1. 1 \in 1..(Len(buf) + 1)
  BY LenProperties
<1>2. IterFrames(buf) = f[1]
  BY IterIsFrom
<1>3. f[1] = Scan(f, buf, 1)
  BY <1>1, FromScans
<1> HIDE DEF f
<1>4. f[1] = Parsed(<<>>, Drop(buf, 1 - 1))
  BY <1>3 DEF Scan
<1> QED
  BY <1>2, <1>4 DEF Parsed

\* The parser takes LEN for one a frame can have.
Plausible(frame) == Size(frame) >= 1 + CrcBytes /\ Size(frame) <= MaxFrame

LEMMA WholeUnstuffed ==
  ASSUME NEW frame \in AFrame, framing \in Framings, ~Stuffed, Fits(frame), Plausible(frame)
  PROVE  LET buf == Build(frame)
         IN /\ IterFrames(buf) = Parsed(<<frame>>, <<>>)
            /\ \A m \in 0..(Len(buf) - 1) : IterFrames(Take(buf, m)).frames = <<>>
<1> DEFINE buf == Build(frame)
           inner == Inner(frame)
           args == frame.args
           n == Len(buf)
           size == Size(frame)
<1>1. Framed(buf, Soi, inner, Eoi)
  <2>1. inner \in Seq(Byte) /\ Soi \in Byte /\ Eoi \in Byte
    BY Parts, FramingFacts
  <2>2. buf = <<Soi>> \o inner \o <<Eoi>>
    BY BuildIs
  <2> HIDE DEF buf, inner
  <2>3. Framed(<<Soi>> \o inner \o <<Eoi>>, Soi, inner, Eoi)
    BY <2>1, Wrapped
  <2> QED
    BY <2>2, <2>3
<1>2. /\ LenBytes \in Nat \ {0} /\ CrcBytes \in Nat \ {0} /\ Counted \in Nat /\ MaxFrame \in Nat
      /\ Len(args) \in Nat
  BY FramingFacts, LenProperties DEF AFrame
<1>3. Len(inner) = LenBytes + 1 + Len(args) + CrcBytes /\ size = 1 + Len(args) + Counted
  BY Parts DEF Size
<1>4. DecodeInner(inner) = <<frame>> /\ FromBytes(Take(inner, LenBytes)) = size
  BY Understood
<1> HIDE DEF buf, inner, args, size
<1>5. buf \in Seq(Byte) /\ Len(buf) = Len(inner) + 2 /\ buf[1] = Soi /\ buf[Len(inner) + 2] = Eoi
      /\ inner \in Seq(Byte)
  BY <1>1 DEF Framed
<1>6. Within(inner, buf, 1) /\ SubSeq(buf, 2, Len(inner) + 1) = inner
  BY <1>1, Unwrapped
<1>7. n = LenBytes + Len(args) + CrcBytes + 3
  BY <1>2, <1>3, <1>5
<1>8. LenAt(buf, 1) = size
  <2>1. Same(inner, buf, 1, 1, LenBytes, 2, LenBytes + 1)
    <3>1. LenBytes <= Len(inner)
      BY <1>2, <1>3
    <3> QED
      BY <1>2, <1>5, <1>6, <3>1 DEF Same
  <2>2. Slice(buf, 2, LenBytes + 1) = Slice(inner, 1, LenBytes)
    BY <2>1, SameCut
  <2>3. LenAt(buf, 1) = FromBytes(SubSeq(buf, 2, LenBytes + 1))
    <3>1. 1 + 1 = 2 /\ 1 + LenBytes = LenBytes + 1
      BY <1>2
    <3> QED
      BY <3>1 DEF LenAt
  <2> QED
    BY <1>4, <2>2, <2>3 DEF Slice, Take
<1>9. EndAt(buf, 1) = n
  <2>1. EndAt(buf, 1) = 1 + 1 + LenBytes + size - Counted + CrcBytes
    BY <1>8 DEF EndAt
  <2> QED
    BY <1>2, <1>3, <1>7, <2>1
<1>10. ~Implausible(size)
  BY <1>2, <1>3 DEF Implausible, Plausible, size
<1>11. 1 + LenBytes <= n /\ n >= 1 /\ n \in Nat
  BY <1>2, <1>7
<1>12. ~Waits(buf, 1)
  <2> HIDE DEF n
  <2>1. ~(1 + LenBytes > Len(buf)) /\ ~(EndAt(buf, 1) > Len(buf))
    BY <1>2, <1>9, <1>11 DEF n
  <2> QED
    BY <2>1 DEF Waits, WaitsAt
<1>13. Found(buf, 1) = <<frame>>
  <2>1. n - 1 = Len(inner) + 1 /\ buf[n] = Eoi
    BY <1>2, <1>3, <1>5
  <2> HIDE DEF n
  <2>2. FrameAt(buf, 1) = DecodeInner(SubSeq(buf, 1 + 1, n - 1))
    BY <1>5, <1>8, <1>9, <1>10, <2>1 DEF FrameAt
  <2>3. 1 + 1 = 2
    OBVIOUS
  <2> QED
    BY <1>4, <1>6, <2>1, <2>2, <2>3 DEF Found
<1>14. NextAt(buf, 1) = n + 1
  <2>1. FrameAt(buf, 1) = <<frame>> /\ <<frame>> # <<>>
    BY <1>13 DEF Found
  <2> QED
    BY <1>9, <2>1 DEF NextAt
<1>15. IterFrames(buf) = Parsed(<<frame>>, <<>>)
  BY <1>5, <1>11, <1>12, <1>13, <1>14, OneStep
<1>16. ASSUME NEW m \in 0..(n - 1) PROVE IterFrames(Take(buf, m)).frames = <<>>
  <2> DEFINE p == Take(buf, m)
  <2>1. Reaching(Byte, buf, m)
    BY <1>5, <1>11 DEF Reaching
  <2>2. p \in Seq(Byte) /\ Len(p) = m /\ \A i \in 1..m : p[i] = buf[i]
    BY <2>1, Starts
  <2> HIDE DEF p, n
  <2>3. CASE m = 0
    <3>1. p = <<>>
      BY <2>2, <2>3, EmptySeq
    <3> QED
      BY <3>1, ParsesNothing DEF Parsed, p
  <2>4. CASE m # 0
    <3>1. 1 \in 1..m /\ m >= 1 /\ m < n /\ m \in Nat
      BY <1>11, <2>4
    <3>2. p[1] = Soi
      BY <1>5, <2>2, <3>1
    <3>3. Within(p, buf, 0)
      BY <1>5, <1>11, <2>2, <3>1 DEF Within, n
    <3>4. WaitsAt(p, 1)
      <4>1. CASE 1 + LenBytes > m
        BY <2>2, <3>2, <4>1 DEF WaitsAt
      <4>2. CASE ~(1 + LenBytes > m)
        <5>1. 1 + LenBytes <= Len(p) /\ 1 \in 1..Len(p)
          BY <1>2, <2>2, <3>1, <4>2
        <5>2. LenAt(buf, 1 + 0) = LenAt(p, 1) /\ EndAt(buf, 1 + 0) = EndAt(p, 1) + 0
          BY <1>5, <2>2, <3>3, <5>1, SameEnd
        <5>3. 1 + 0 = 1
          OBVIOUS
        <5>4. EndAt(p, 1) \in Int
          BY <2>2, <5>1, EndFacts
        <5>5. LenAt(p, 1) = size /\ EndAt(p, 1) = n
          BY <1>8, <1>9, <5>2, <5>3, <5>4
        <5>6. EndAt(p, 1) > Len(p)
          BY <1>11, <2>2, <3>1, <5>5
        <5> QED
          BY <1>10, <3>2, <5>5, <5>6 DEF WaitsAt
      <4> QED
        BY <4>1, <4>2
    <3>5. Waits(p, 1)
      BY <3>4 DEF Waits
    <3>6. Len(p) >= 1
      BY <2>2, <3>1
    <3> QED
      BY <2>2, <3>5, <3>6, OneWait DEF p
  <2> QED
    BY <2>3, <2>4
<1> QED
  BY <1>15, <1>16 DEF buf, n

\* Noise without an SOI is passed over.
LEMMA PassesNoise ==
  ASSUME NEW buf \in Seq(Byte), framing \in Framings, \A k \in 1..Len(buf) : buf[k] # Soi
  PROVE  IterFrames(buf) = Parsed(<<>>, <<>>)
<1> DEFINE f == From(buf)
           n == Len(buf)
           none == Parsed(<<>>, <<>>)
           T == {i \in 1..(n + 1) : f[i] = none}
<1>1. n \in Nat /\ n + 1 \in Nat
  BY LenProperties
<1>2. IterFrames(buf) = f[1]
  BY IterIsFrom
<1>3. \A i \in 1..(n + 1) : f[i] \in Results /\ f[i] = Scan(f, buf, i)
  BY FromScans
<1> HIDE DEF f, none
<1>4. ASSUME NEW i \in 1..(n + 1), \A j \in (i + 1)..(n + 1) : f[j] = none
      PROVE  f[i] = none
  <2>1. CASE i > n
    <3>1. f[i] = Parsed(<<>>, Drop(buf, i - 1))
      BY <1>3, <2>1 DEF Scan
    <3>2. Drop(buf, i - 1) = <<>>
      BY <2>1, StopType
    <3> QED
      BY <3>1, <3>2 DEF none
  <2>2. CASE ~(i > n)
    <3>1. i \in 1..n /\ i + 1 \in (i + 1)..(n + 1) /\ i + 1 \in 1..(n + 1)
      BY <1>1, <2>2
    <3>2. buf[i] # Soi
      BY <3>1
    <3>3. ~Waits(buf, i) /\ Found(buf, i) = <<>>
      BY <3>2 DEF Waits, WaitsAt, Found, FrameAt
    <3>4. NextAt(buf, i) = i + 1
      BY <3>2, <3>3 DEF NextAt, Found
    <3>5. f[i] = Before(<<>>, f[i + 1])
      BY <1>3, <2>2, <3>3, <3>4 DEF Scan
    <3>6. Before(<<>>, f[i + 1]) = f[i + 1]
      BY <1>3, <3>1, BeforeFacts
    <3> QED
      BY <1>4, <3>1, <3>5, <3>6
  <2> QED
    BY <2>1, <2>2
<1>5. 1..(n + 1) \subseteq T
  <2>1. \A i \in 1..(n + 1) : (\A j \in (i + 1)..(n + 1) : j \in T) => i \in T
    BY <1>4
  <2> DEFINE m == n + 1
  <2>2. m \in Nat
    BY <1>1
  <2>3. \A i \in 1..m : (\A j \in (i + 1)..m : j \in T) => i \in T
    BY <2>1
  <2> HIDE DEF T, m
  <2>4. 1..m \subseteq T
    BY <2>2, <2>3, DownInduction
  <2> QED
    BY <2>4 DEF m
<1>6. 1 \in 1..(n + 1)
  BY <1>1
<1> QED
  BY <1>2, <1>5, <1>6 DEF none

-----------------------------------------------------------------------------
(* Stuffing.                                                               *)

LEMMA StuffingFacts ==
  ASSUME framing \in Framings, Stuffed
  PROVE  /\ {Soi, Eoi, Escape} \subseteq Targets /\ Soi # Eoi /\ Escape # Soi /\ Escape # Eoi
         /\ \A b \in Targets : b + Offset \in Byte /\ b + Offset \notin Targets
BY FramingAssumption DEF Stuffed, Soi, Eoi, Escape, Targets, Offset

\* From index d + 1 on, Decode makes of data what it makes of the rest alone.
LEMMA DecodeLater ==
  ASSUME NEW u \in Seq(Byte), NEW d \in Nat, d <= Len(u), NEW f, Decodes(f, u),
         framing \in Framings
  PROVE  Decode(Drop(u, d)) = f[d + 1]
<1> DEFINE z == Drop(u, d)
           n == Len(z)
           m == n + 2
<1>1. z \in Seq(Byte) /\ Len(z) = Len(u) - d /\ \A i \in 1..(Len(u) - d) : z[i] = u[d + i]
  BY DropType
<1> HIDE DEF z
<1>2. PICK g : Decodes(g, z)
  BY <1>1, Decoded
<1>3. n \in Nat /\ m \in Nat /\ Len(u) \in Nat /\ Len(u) = n + d
  BY <1>1, LenProperties
<1>4. \A i \in 1..n : z[i] = u[i + d]
  <2>1. Len(u) - d = n
    BY <1>3
  <2> HIDE DEF n
  <2>2. ASSUME NEW i \in 1..n PROVE z[i] = u[i + d]
    <3>1. d + i = i + d
      BY <1>3
    <3> QED
      BY <1>1, <2>1, <3>1
  <2> QED
    BY <2>2
<1>5. \A i \in 1..m : g[i] = IF i > n THEN <<>>
                               ELSE DecodedHead(z, i) \o g[IF Escaped(z, i) THEN i + 2 ELSE i + 1]
  BY <1>2 DEF Decodes
<1>6. \A i \in 1..(Len(u) + 2) :
        f[i] = IF i > Len(u) THEN <<>>
               ELSE DecodedHead(u, i) \o f[IF Escaped(u, i) THEN i + 2 ELSE i + 1]
  BY DEF Decodes
<1> HIDE DEF n
<1>7. ASSUME NEW i \in 1..m, \A j \in (i + 1)..m : g[j] = f[j + d]
      PROVE  g[i] = f[i + d]
  <2>0. i + d \in 1..(Len(u) + 2)
    BY <1>3
  <2>1. CASE i > n
    <3>1. i + d > Len(u)
      BY <1>3, <2>1
    <3> QED
      BY <1>5, <1>6, <2>0, <2>1, <3>1
  <2>2. CASE ~(i > n)
    <3>1. i \in 1..n /\ ~(i + d > Len(u)) /\ i + 1 \in (i + 1)..m /\ i + 2 \in (i + 1)..m
          /\ (i < n <=> i + d < Len(u)) /\ (i < n => i + 1 \in 1..n)
          /\ (i + 1) + d = (i + d) + 1 /\ (i + 2) + d = (i + d) + 2
      BY <1>3, <2>2
    <3>2. Escaped(z, i) <=> Escaped(u, i + d)
      BY <1>4, <3>1 DEF Escaped, n
    <3>3. DecodedHead(z, i) = DecodedHead(u, i + d)
      <4>1. CASE Escaped(z, i)
        <5>1. i < n
          BY <4>1 DEF Escaped, n
        <5>2. z[i + 1] = u[(i + d) + 1]
          BY <1>4, <3>1, <5>1
        <5> QED
          BY <3>2, <4>1, <5>2 DEF DecodedHead
      <4>2. CASE ~Escaped(z, i)
        BY <1>4, <3>1, <3>2, <4>2 DEF DecodedHead
      <4> QED
        BY <4>1, <4>2
    <3>4. g[IF Escaped(z, i) THEN i + 2 ELSE i + 1]
            = f[IF Escaped(u, i + d) THEN (i + d) + 2 ELSE (i + d) + 1]
      <4>1. g[i + 1] = f[(i + d) + 1] /\ g[i + 2] = f[(i + d) + 2]
        BY <1>7, <3>1
      <4> QED
        BY <3>2, <4>1
    <3>5. g[i] = DecodedHead(z, i) \o g[IF Escaped(z, i) THEN i + 2 ELSE i + 1]
      BY <1>5, <2>2
    <3>6. f[i + d] = DecodedHead(u, i + d) \o f[IF Escaped(u, i + d) THEN (i + d) + 2 ELSE (i + d) + 1]
      BY <1>6, <2>0, <3>1
    <3> QED
      BY <3>3, <3>4, <3>5, <3>6
  <2> QED
    BY <2>1, <2>2
<1> DEFINE T == {i \in 1..m : g[i] = f[i + d]}
<1>8. \A i \in 1..m : (\A j \in (i + 1)..m : j \in T) => i \in T
  BY <1>7
<1>9. 1..m \subseteq T
  <2> HIDE DEF T, m
  <2> QED
    BY <1>3, <1>8, DownInduction
<1>10. 1 \in 1..m /\ 1 + d = d + 1
  BY <1>3
<1>11. Decode(z) = g[1]
  BY <1>2 DEF Decodes
<1> QED
  BY <1>9, <1>10, <1>11 DEF z

LEMMA DecodeHead ==
  ASSUME NEW w, NEW z, NEW h, framing \in Framings, w \in Seq(Byte), z \in Seq(Byte),
         \/ Len(w) = 1 /\ w[1] # Escape /\ h = <<w[1]>>
         \/ Len(w) = 2 /\ w[1] = Escape /\ h = <<(w[2] + Base - Offset) % Base>>
  PROVE  Decode(w \o z) = h \o Decode(z)
<1> DEFINE u == w \o z
           d == Len(w)
<1>1. Joins(Byte, u, w, z)
  BY Joined DEF Both
<1>2. Halved(Byte, u, w, z)
  BY DEF Halved
<1>3. Drop(u, d) = z
  BY <1>2, Halves
<1> HIDE DEF u, d
<1>4. d \in {1, 2} /\ Len(z) \in Nat
  BY LenProperties DEF d
<1>5. /\ u \in Seq(Byte) /\ Len(u) = d + Len(z)
      /\ \A k \in 1..d : u[k] = w[k]
  BY <1>1 DEF Joins, d
<1>6. d \in Nat /\ d <= Len(u) /\ Len(u) >= 1 /\ 1 \in 1..(Len(u) + 2) /\ ~(1 > Len(u)) /\ 1 \in 1..d
  BY <1>4, <1>5
<1>7. PICK f : Decodes(f, u)
  BY <1>5, Decoded
<1>8. Decode(z) = f[d + 1]
  BY <1>3, <1>5, <1>6, <1>7, DecodeLater
<1>9. Decode(u) = f[1] /\ f[1] = DecodedHead(u, 1) \o f[IF Escaped(u, 1) THEN 1 + 2 ELSE 1 + 1]
  BY <1>6, <1>7 DEF Decodes
<1>10. u[1] = w[1]
  BY <1>5, <1>6
<1>11. DecodedHead(u, 1) = h /\ (IF Escaped(u, 1) THEN 1 + 2 ELSE 1 + 1) = d + 1
  <2>1. CASE d = 1
    <3>1. w[1] # Escape /\ h = <<w[1]>>
      BY <2>1 DEF d
    <3>2. ~Escaped(u, 1)
      BY <1>10, <3>1 DEF Escaped
    <3> QED
      BY <1>10, <2>1, <3>1, <3>2 DEF DecodedHead
  <2>2. CASE d = 2
    <3>1. w[1] = Escape /\ h = <<(w[2] + Base - Offset) % Base>>
      BY <2>2 DEF d
    <3>2. Escaped(u, 1)
      <4>1. 1 < Len(u)
        BY <1>4, <1>5, <2>2
      <4> QED
        BY <1>10, <3>1, <4>1 DEF Escaped
    <3>3. u[1 + 1] = w[2]
      <4>1. 1 + 1 = 2 /\ 2 \in 1..d
        BY <2>2
      <4> QED
        BY <1>5, <4>1
    <3> QED
      BY <2>2, <3>1, <3>2, <3>3 DEF DecodedHead
  <2> QED
    BY <1>4, <2>1, <2>2
<1> QED
  BY <1>8, <1>9, <1>11 DEF u

\* What a byte is on the wire.
StuffedByte == [b \in Byte |-> IF b \in Targets THEN <<Escape, b + Offset>> ELSE <<b>>]

LEMMA EncodeIsMap ==
  ASSUME framing \in Framings, Stuffed
  PROVE  /\ StuffedByte \in [Byte -> Seq(Byte)]
         /\ \A x \in Seq(Byte) : Encode(x) = FlatMap(x, StuffedByte)
<1>1. ASSUME NEW b \in Byte
      PROVE  (IF b \in Targets THEN <<Escape, b + Offset>> ELSE <<b>>) \in Seq(Byte)
  <2>1. Escape \in Byte
    BY FramingFacts
  <2>2. CASE b \in Targets
    <3>1. b + Offset \in Byte
      BY <2>2, StuffingFacts
    <3> DEFINE c == b + Offset
    <3> HIDE DEF c
    <3>2. <<Escape, c>> \in Seq(Byte)
      BY <2>1, <3>1 DEF c
    <3> QED
      BY <2>2, <3>2 DEF c
  <2>3. CASE b \notin Targets
    BY <2>3
  <2> QED
    BY <2>2, <2>3
<1>2. StuffedByte \in [Byte -> Seq(Byte)]
  BY <1>1 DEF StuffedByte
<1>3. ASSUME NEW x \in Seq(Byte) PROVE Encode(x) = FlatMap(x, StuffedByte)
  <2>1. DOMAIN x = 1..Len(x)
    OBVIOUS
  <2>2. \A i \in 1..Len(x) : x[i] \in Byte
    BY ElementOfSeq
  <2>3. [i \in DOMAIN x |-> IF x[i] \in Targets THEN <<Escape, x[i] + Offset>> ELSE <<x[i]>>]
          = [k \in 1..Len(x) |-> StuffedByte[x[k]]]
    BY <2>1, <2>2 DEF StuffedByte
  <2> QED
    BY <2>3 DEF Encode, FlatMap
<1> QED
  BY <1>2, <1>3

\* The bytes of a frame between its markers are stuffed without a marker, and read back.
Clean(e) == \A k \in 1..Len(e) : e[k] # Soi /\ e[k] # Eoi
RoundTrip(x) == Encode(x) \in Seq(Byte) /\ Clean(Encode(x)) /\ Decode(Encode(x)) = x

LEMMA CleanTogether ==
  ASSUME NEW s \in Seq(Byte), NEW t \in Seq(Byte), Clean(s), Clean(t)
  PROVE  Clean(s \o t)
<1> DEFINE u == s \o t
<1>1. Joins(Byte, u, s, t)
  BY Joined DEF Both
<1> HIDE DEF u
<1>2. Len(s) \in Nat /\ Len(t) \in Nat
  BY LenProperties
<1>3. ASSUME NEW k \in 1..Len(u) PROVE u[k] # Soi /\ u[k] # Eoi
  <2>1. CASE k <= Len(s)
    BY <1>1, <1>2, <2>1 DEF Joins, Clean
  <2>2. CASE ~(k <= Len(s))
    <3> DEFINE j == k - Len(s)
    <3>1. j \in 1..Len(t) /\ k = Len(s) + j
      BY <1>1, <1>2, <2>2 DEF Joins
    <3> HIDE DEF j
    <3>2. u[k] = t[j]
      BY <1>1, <3>1 DEF Joins
    <3> QED
      BY <3>1, <3>2 DEF Clean
  <2> QED
    BY <2>1, <2>2
<1> QED
  BY <1>3 DEF Clean, u

LEMMA OneMore ==
  ASSUME NEW b \in Byte, NEW x \in Seq(Byte), RoundTrip(x), framing \in Framings, Stuffed
  PROVE  RoundTrip(<<b>> \o x)
<1> DEFINE w == StuffedByte[b]
           e == Encode(x)
           one == <<b>>
<1>1. one \in Seq(Byte) /\ one \o x \in Seq(Byte)
  BY ConcatProperties
<1>2. Encode(one \o x) = w \o e
  <2>1. StuffedByte \in [Byte -> Seq(Byte)]
    BY EncodeIsMap
  <2> DEFINE F == StuffedByte
  <2> HIDE DEF F, one
  <2>2. FlatMap(one \o x, F) = FlatMap(one, F) \o FlatMap(x, F)
    BY <1>1, <2>1, FlatMapConcat DEF F
  <2>3. FlatMap(one, F) = F[b]
    BY <2>1, FlatMapFew DEF F, one
  <2>4. Encode(one \o x) = FlatMap(one \o x, F) /\ e = FlatMap(x, F)
    BY <1>1, EncodeIsMap DEF F
  <2> QED
    BY <2>2, <2>3, <2>4 DEF F
<1>3. /\ w \in Seq(Byte) /\ Clean(w)
      /\ \/ Len(w) = 1 /\ w[1] # Escape /\ one = <<w[1]>>
         \/ Len(w) = 2 /\ w[1] = Escape /\ one = <<(w[2] + Base - Offset) % Base>>
  <2>0. /\ Escape \in Byte /\ {Soi, Eoi, Escape} \subseteq Targets
        /\ Soi # Eoi /\ Escape # Soi /\ Escape # Eoi
    BY FramingFacts, StuffingFacts
  <2>1. CASE b \in Targets
    <3> DEFINE c == b + Offset
    <3>1. c \in Byte /\ c \notin Targets
      BY <2>1, StuffingFacts
    <3>2. w = <<Escape, c>>
      BY <2>1 DEF StuffedByte
    <3>3. (c + Base - Offset) % Base = b
      <4>1. Base \in Nat \ {0} /\ Offset \in Nat /\ b \in 0..(Base - 1)
        BY FramingFacts DEF Byte
      <4>2. c + Base - Offset = b + Base
        BY <4>1
      <4>3. (b + Base) % Base = b
        BY <4>1
      <4> QED
        BY <4>2, <4>3
    <3> HIDE DEF c, w
    <3>4. w \in Seq(Byte) /\ Len(w) = 2 /\ w[1] = Escape /\ w[2] = c
      BY <2>0, <3>1, <3>2
    <3>5. Clean(w)
      <4>1. \A k \in 1..2 : k = 1 \/ k = 2
        OBVIOUS
      <4> QED
        BY <2>0, <3>1, <3>4, <4>1 DEF Clean
    <3> QED
      BY <3>3, <3>4, <3>5
  <2>2. CASE b \notin Targets
    <3>1. w = <<b>>
      BY <2>2 DEF StuffedByte
    <3> HIDE DEF w
    <3>2. w \in Seq(Byte) /\ Len(w) = 1 /\ w[1] = b
      BY <3>1
    <3>3. Clean(w)
      BY <2>0, <2>2, <3>2 DEF Clean
    <3> QED
      BY <2>0, <2>2, <3>2, <3>3
  <2> QED
    BY <2>1, <2>2
<1>4. e \in Seq(Byte) /\ Clean(e) /\ Decode(e) = x
  BY DEF RoundTrip
<1> HIDE DEF w, e, one
<1>5. w \o e \in Seq(Byte) /\ Clean(w \o e)
  BY <1>3, <1>4, CleanTogether, ConcatProperties
<1>6. Decode(w \o e) = one \o Decode(e)
  BY <1>3, <1>4, DecodeHead
<1>7. RoundTrip(one \o x)
  BY <1>2, <1>4, <1>5, <1>6 DEF RoundTrip
<1> QED
  BY <1>7 DEF one

LEMMA HeadTail ==
  ASSUME NEW x \in Seq(Byte), NEW k \in Nat, k + 1 <= Len(x)
  PROVE  Drop(x, k) = <<x[k + 1]>> \o Drop(x, k + 1)
<1> DEFINE a == Drop(x, k)
           b == <<x[k + 1]>>
           c == Drop(x, k + 1)
           n == Len(x)
           u == b \o c
<1>1. n \in Nat /\ k \in Nat /\ k <= n /\ k + 1 \in Nat /\ k + 1 <= n /\ k + 1 \in 1..n
  BY LenProperties
<1>2. a \in Seq(Byte) /\ Len(a) = n - k /\ \A i \in 1..(n - k) : a[i] = x[k + i]
  BY <1>1, DropType
<1>3. c \in Seq(Byte) /\ Len(c) = n - (k + 1) /\ \A i \in 1..(n - (k + 1)) : c[i] = x[(k + 1) + i]
  <2> DEFINE m == k + 1
  <2>1. m \in Nat /\ m <= n
    BY <1>1
  <2> HIDE DEF m
  <2>2. Drop(x, m) \in Seq(Byte) /\ Len(Drop(x, m)) = n - m
        /\ \A i \in 1..(n - m) : Drop(x, m)[i] = x[m + i]
    BY <2>1, DropType
  <2> QED
    BY <2>2 DEF m
<1>4. b \in Seq(Byte) /\ Len(b) = 1 /\ b[1] = x[k + 1]
  BY <1>1, ElementOfSeq
<1> HIDE DEF a, b, c
<1>5. Joins(Byte, u, b, c)
  BY <1>3, <1>4, Joined DEF Both
<1> HIDE DEF u, n
<1>6. u \in Seq(Byte) /\ Len(u) = n - k
  BY <1>1, <1>3, <1>4, <1>5 DEF Joins
<1>7. ASSUME NEW i \in 1..(n - k) PROVE u[i] = x[k + i]
  <2>1. CASE i = 1
    BY <1>4, <1>5, <2>1 DEF Joins
  <2>2. CASE i # 1
    <3> DEFINE j == i - 1
    <3>1. j \in 1..(n - (k + 1)) /\ i = 1 + j /\ (k + 1) + j = k + i
      BY <1>1, <2>2
    <3> HIDE DEF j
    <3>2. u[i] = c[j]
      BY <1>3, <1>4, <1>5, <3>1 DEF Joins
    <3> QED
      BY <1>3, <3>1, <3>2
  <2> QED
    BY <2>1, <2>2
<1>8. a = u
  BY <1>2, <1>6, <1>7, SeqEqual
<1> QED
  BY <1>8 DEF a, b, c, u

LEMMA Ends ==
  ASSUME NEW x \in Seq(Byte)
  PROVE  Drop(x, 0) = x /\ Drop(x, Len(x)) = <<>>
<1> DEFINE a == Drop(x, 0)
           b == Drop(x, Len(x))
           n == Len(x)
<1>1. n \in Nat /\ 0 \in Nat /\ 0 <= n
  BY LenProperties
<1>2. a \in Seq(Byte) /\ Len(a) = n - 0 /\ \A i \in 1..(n - 0) : a[i] = x[0 + i]
  BY <1>1, DropType
<1>3. b \in Seq(Byte) /\ Len(b) = n - n
  BY <1>1, DropType
<1> HIDE DEF a, b
<1>4. Len(a) = n /\ \A i \in 1..n : a[i] = x[i]
  BY <1>1, <1>2
<1>5. a = x
  BY <1>2, <1>4, SeqEqual
<1>6. b = <<>>
  BY <1>1, <1>3, EmptySeq
<1> QED
  BY <1>5, <1>6 DEF a, b

LEMMA ReadBack ==
  ASSUME NEW x \in Seq(Byte), framing \in Framings, Stuffed
  PROVE  RoundTrip(x)
<1> DEFINE n == Len(x)
           T == {k \in 0..n : RoundTrip(Drop(x, n - k))}
<1>1. n \in Nat
  BY LenProperties
<1>2. RoundTrip(<<>>)
  <2>1. <<>> \in Seq(Byte) /\ Len(<<>>) = 0
    BY EmptySeq
  <2>2. Encode(<<>>) = <<>>
    BY <2>1, EncodeIsMap, FlatMapFew
  <2>3. PICK f : Decodes(f, <<>>)
    BY <2>1, Decoded
  <2>4. Decode(<<>>) = <<>>
    <3> DEFINE e == <<>>
    <3>1. Len(e) = 0 /\ Decodes(f, e)
      BY <2>1, <2>3
    <3> HIDE DEF e
    <3>2. 1 \in 1..(Len(e) + 2) /\ 1 > Len(e)
      BY <3>1
    <3>3. Decode(e) = <<>>
      BY <3>1, <3>2 DEF Decodes
    <3> QED
      BY <3>3 DEF e
  <2>5. Clean(<<>>)
    <3> DEFINE e == <<>>
    <3>1. Len(e) = 0
      BY <2>1
    <3> HIDE DEF e
    <3>2. Clean(e)
      BY <3>1 DEF Clean
    <3> QED
      BY <3>2 DEF e
  <2> QED
    BY <2>1, <2>2, <2>4, <2>5 DEF RoundTrip
<1>3. 0 \in T
  <2>1. n - 0 = Len(x) /\ 0 \in 0..n
    BY <1>1
  <2>2. Drop(x, n - 0) = <<>>
    BY <2>1, Ends
  <2> QED
    BY <1>2, <2>1, <2>2
<1>4. ASSUME NEW k \in 1..n, k - 1 \in T PROVE k \in T
  <2> DEFINE m == n - k
             y == Drop(x, m + 1)
  <2>1. m \in Nat /\ m + 1 \in Nat /\ m + 1 <= Len(x) /\ m + 1 \in 1..Len(x) /\ n - (k - 1) = m + 1
        /\ k \in 0..n
    BY <1>1
  <2>2. RoundTrip(y)
    BY <1>4, <2>1
  <2>3. x[m + 1] \in Byte
    BY <2>1, ElementOfSeq
  <2>4. y \in Seq(Byte)
    <3> DEFINE p == m + 1
    <3>1. p \in Nat /\ p <= Len(x)
      BY <2>1
    <3> HIDE DEF p
    <3>2. Drop(x, p) \in Seq(Byte)
      BY <3>1, DropType
    <3> QED
      BY <3>2 DEF p
  <2>5. Drop(x, m) = <<x[m + 1]>> \o y
    <3> HIDE DEF m
    <3> QED
      BY <2>1, HeadTail
  <2> HIDE DEF y, m
  <2>6. RoundTrip(<<x[m + 1]>> \o y)
    BY <2>2, <2>3, <2>4, OneMore
  <2>7. RoundTrip(Drop(x, m))
    BY <2>5, <2>6
  <2> QED
    BY <2>1, <2>7 DEF m
<1>5. 0..n \subseteq T
  <2>1. \A k \in 1..n : k - 1 \in T => k \in T
    BY <1>4
  <2> HIDE DEF T, n
  <2> QED
    BY <1>1, <1>3, <2>1, UpInduction
<1>6. n \in 0..n /\ n - n = 0
  BY <1>1
<1>7. RoundTrip(Drop(x, n - n))
  BY <1>5, <1>6
<1> QED
  BY <1>6, <1>7, Ends

LEMMA WholeStuffed ==
  ASSUME NEW frame \in AFrame, framing \in Framings, Stuffed, Fits(frame)
  PROVE  LET buf == Build(frame)
         IN /\ IterFrames(buf) = Parsed(<<frame>>, <<>>)
            /\ \A m \in 0..(Len(buf) - 1) : IterFrames(Take(buf, m)).frames = <<>>
<1> DEFINE buf == Build(frame)
           inner == Inner(frame)
           enc == Encode(inner)
           n == Len(buf)
<1>1. inner \in Seq(Byte) /\ Soi \in Byte /\ Eoi \in Byte
  BY Parts, FramingFacts
<1>2. enc \in Seq(Byte) /\ Clean(enc) /\ Decode(enc) = inner
  BY <1>1, ReadBack DEF RoundTrip
<1>3. DecodeInner(inner) = <<frame>>
  BY Understood
<1>4. buf = <<Soi>> \o enc \o <<Eoi>>
  BY BuildIs
<1> HIDE DEF buf, enc, inner
<1>5. Framed(buf, Soi, enc, Eoi)
  BY <1>1, <1>2, <1>4, Wrapped
<1>6. Within(enc, buf, 1) /\ SubSeq(buf, 2, Len(enc) + 1) = enc /\ Len(enc) \in Nat
  BY <1>5, Unwrapped
<1>7. /\ buf \in Seq(Byte) /\ Len(buf) = Len(enc) + 2 /\ buf[1] = Soi /\ buf[Len(enc) + 2] = Eoi
      /\ \A k \in 1..Len(enc) : buf[k + 1] = enc[k]
  BY <1>5 DEF Framed
<1> HIDE DEF n
<1>8. n \in Nat /\ n = Len(enc) + 2 /\ n >= 1 /\ 1 \in 1..n
  BY <1>6, <1>7 DEF n
<1>9. ASSUME NEW k \in 2..(n - 1) PROVE buf[k] # Eoi
  <2>1. k - 1 \in 1..Len(enc) /\ (k - 1) + 1 = k
    BY <1>6, <1>8
  <2> DEFINE j == k - 1
  <2> HIDE DEF j
  <2>2. buf[j + 1] = enc[j] /\ enc[j] # Eoi
    BY <1>2, <1>7, <2>1 DEF Clean, j
  <2> QED
    BY <2>1, <2>2 DEF j
<1>10. EoiAfter(buf, 1) = n
  <2> DEFINE j == EoiAfter(buf, 1)
  <2>1. \/ j = 0 /\ \A k \in (1 + 1)..n : buf[k] # Eoi
        \/ j \in (1 + 1)..n /\ buf[j] = Eoi
    BY <1>7, <1>8, EoiFacts DEF n
  <2> HIDE DEF j
  <2>2. buf[n] = Eoi /\ n \in (1 + 1)..n
    BY <1>6, <1>7, <1>8
  <2>3. j \in (1 + 1)..n /\ buf[j] = Eoi
    BY <2>1, <2>2
  <2>4. j \notin 2..(n - 1)
    BY <1>9, <2>3
  <2>5. j = n
    BY <1>8, <2>3, <2>4
  <2> QED
    BY <2>5 DEF j
<1>11. ~Waits(buf, 1)
  BY <1>8, <1>10 DEF Waits
<1>12. Found(buf, 1) = <<frame>>
  <2>1. 1 + 1 = 2 /\ n - 1 = Len(enc) + 1
    BY <1>6, <1>8
  <2>2. Found(buf, 1) = DecodeInner(Decode(SubSeq(buf, 1 + 1, n - 1)))
    BY <1>7, <1>10 DEF Found
  <2> QED
    BY <1>2, <1>3, <1>6, <2>1, <2>2
<1>13. NextAt(buf, 1) = n + 1
  BY <1>7, <1>10 DEF NextAt
<1>14. IterFrames(buf) = Parsed(<<frame>>, <<>>)
  BY <1>7, <1>8, <1>11, <1>12, <1>13, OneStep DEF n
<1>15. ASSUME NEW m \in 0..(n - 1) PROVE IterFrames(Take(buf, m)).frames = <<>>
  <2> DEFINE p == Take(buf, m)
  <2>1. Reaching(Byte, buf, m)
    BY <1>7, <1>8 DEF Reaching, n
  <2>2. p \in Seq(Byte) /\ Len(p) = m /\ \A i \in 1..m : p[i] = buf[i]
    BY <2>1, Starts
  <2> HIDE DEF p
  <2>3. CASE m = 0
    <3>1. p = <<>>
      BY <2>2, <2>3, EmptySeq
    <3> QED
      BY <3>1, ParsesNothing DEF Parsed, p
  <2>4. CASE m # 0
    <3>1. 1 \in 1..m /\ m >= 1 /\ m < n /\ m \in Nat
      BY <1>8, <2>4
    <3>2. p[1] = Soi
      BY <1>7, <2>2, <3>1
    <3>3. EoiAfter(p, 1) = 0
      <4> DEFINE j == EoiAfter(p, 1)
      <4>0. 1 \in 1..Len(p)
        BY <2>2, <3>1
      <4>1. j = 0 \/ (j \in (1 + 1)..Len(p) /\ p[j] = Eoi)
        BY <2>2, <4>0, EoiFacts
      <4> HIDE DEF j
      <4>2. ASSUME j \in (1 + 1)..Len(p), p[j] = Eoi PROVE FALSE
        <5>1. j \in 1..m /\ j \in 2..(n - 1)
          BY <1>8, <2>2, <3>1, <4>2
        <5> QED
          BY <1>9, <2>2, <4>2, <5>1
      <4> QED
        BY <4>1, <4>2 DEF j
    <3>4. Waits(p, 1)
      BY <3>2, <3>3 DEF Waits
    <3>5. Len(p) >= 1
      BY <2>2, <3>1
    <3> QED
      BY <2>2, <3>4, <3>5, OneWait DEF p
  <2> QED
    BY <2>3, <2>4
<1> QED
  BY <1>14, <1>15 DEF buf, n

-----------------------------------------------------------------------------
(* What the parser promises of frames.                                     *)

\* A frame that LEN can hold and, without stuffing, whose LEN the parser takes for one.
Fitting(frame) == Fits(frame) /\ (Stuffed \/ Plausible(frame))

\* What build has made of a frame, iter_frames gives back as that frame, and nothing of it
\* before its last byte is there (framing.py Framing.build, iter_frames).
THEOREM BuiltIsParsed ==
  ASSUME NEW frame \in AFrame, framing \in Framings, Fitting(frame)
  PROVE  LET buf == Build(frame)
         IN /\ IterFrames(buf) = Parsed(<<frame>>, <<>>)
            /\ \A m \in 0..(Len(buf) - 1) : IterFrames(Take(buf, m)).frames = <<>>
<1>1. CASE Stuffed
  BY <1>1, WholeStuffed DEF Fitting
<1>2. CASE ~Stuffed
  BY <1>2, WholeUnstuffed DEF Fitting
<1> QED
  BY <1>1, <1>2

LEMMA EndsClean ==
  ASSUME NEW s \in Seq(Byte), framing \in Framings, Stuffed, Len(s) >= 1, s[Len(s)] = Eoi
  PROVE  IterFrames(s).rest = <<>>
<1> DEFINE n == Len(s)
<1>1. n \in Nat /\ n >= 1
  BY LenProperties
<1>2. Within(s, s, 0)
  BY <1>1 DEF Within
<1>3. PICK p : Reaches(s, s, 1, p)
  BY <1>2, Prefix
<1>4. /\ p \in 1..(n + 1) /\ (p = n + 1 \/ Waits(s, p))
      /\ IterFrames(s).rest = Drop(s, p - 1)
  BY <1>3, IterIsFrom DEF Reaches
<1>5. ASSUME p \in 1..n, Waits(s, p) PROVE FALSE
  <2>1. s[p] = Soi /\ EoiAfter(s, p) = 0
    BY <1>5 DEF Waits
  <2>2. \A k \in (p + 1)..n : s[k] # Eoi
    <3>1. \/ EoiAfter(s, p) = 0 /\ (\A k \in (p + 1)..Len(s) : s[k] # Eoi)
          \/ EoiAfter(s, p) \in (p + 1)..Len(s)
      BY <1>5, EoiFacts
    <3>2. 0 \notin (p + 1)..Len(s)
      BY <1>1, <1>5
    <3> QED
      BY <2>1, <3>1, <3>2
  <2>3. p # n
    BY <2>1, StuffingFacts
  <2>4. n \in (p + 1)..n
    BY <1>1, <1>5, <2>3
  <2> QED
    BY <2>2, <2>4
<1>6. p = n + 1
  BY <1>1, <1>4, <1>5
<1>7. p - 1 = Len(s)
  BY <1>1, <1>6
<1> QED
  BY <1>4, <1>7, Ends

\* With stuffing, whatever came before, a whole frame that follows a whole frame is found
\* and nothing is left: damage costs no frame but the next ("each frame is the bytes
\* between an SOI and the next EOI", framing.py _iter_stuffed).
THEOREM Resynchronizes ==
  ASSUME NEW s \in Seq(Byte), NEW f \in AFrame, NEW g \in AFrame, framing \in Framings,
         Stuffed, Fitting(g)
  PROVE  LET before == s \o Build(f)
         IN IterFrames(before \o Build(g)) = Parsed(IterFrames(before).frames \o <<g>>, <<>>)
<1> DEFINE b == Build(f)
           c == Build(g)
           u == s \o b
           e == Encode(Inner(f))
<1>1. b \in Seq(Byte) /\ c \in Seq(Byte)
  BY BuildType
<1>2. e \in Seq(Byte) /\ Soi \in Byte /\ Eoi \in Byte
  BY Parts, EncodeType, FramingFacts
<1>3. b = <<Soi>> \o e \o <<Eoi>>
  BY BuildIs
<1> HIDE DEF b, c, e
<1>4. Framed(b, Soi, e, Eoi)
  BY <1>2, <1>3, Wrapped
<1>5. Len(b) = Len(e) + 2 /\ b[Len(b)] = Eoi /\ Len(e) \in Nat /\ Len(b) \in 1..Len(b)
  BY <1>2, <1>4, LenProperties DEF Framed
<1>6. Joins(Byte, u, s, b)
  BY <1>1, Joined DEF Both
<1> HIDE DEF u
<1>7. u \in Seq(Byte) /\ Len(u) >= 1 /\ u[Len(u)] = Eoi
  <2>1. u \in Seq(Byte) /\ Len(u) = Len(s) + Len(b) /\ u[Len(s) + Len(b)] = b[Len(b)]
    BY <1>5, <1>6 DEF Joins
  <2>2. Len(u) >= 1
    BY <1>5, <2>1, LenProperties
  <2> QED
    BY <1>5, <2>1, <2>2
<1>8. IterFrames(u).rest = <<>>
  BY <1>7, EndsClean
<1>9. IterFrames(c) = Parsed(<<g>>, <<>>)
  BY BuiltIsParsed DEF c
<1>10. IterFrames(u \o c) = Before(IterFrames(u).frames, IterFrames(IterFrames(u).rest \o c))
  BY <1>1, <1>7, Continues
<1>11. <<>> \o c = c
  BY <1>1, ConcatEmptySeq
<1>12. IterFrames(u \o c) = Before(IterFrames(u).frames, Parsed(<<g>>, <<>>))
  BY <1>8, <1>9, <1>10, <1>11
<1> QED
  BY <1>12 DEF Before, Parsed, u, b, c

-----------------------------------------------------------------------------
(* What the device has sent, and how much of it has been received.         *)

LEMMA ItemType ==
  ASSUME NEW item \in Item, framing \in Framings
  PROVE  BytesOf(item) \in Seq(Byte)
<1>1. CASE item \in [kind : {"frame"}, frame : AFrame]
  <2>1. item.kind = "frame" /\ item.frame \in AFrame
    BY <1>1
  <2> QED
    BY <2>1, BuildType DEF BytesOf
<1>2. CASE item \in [kind : {"cut"}, frame : AFrame, length : Nat]
  <2> DEFINE b == Build(item.frame)
             ends == {item.length, Len(b)}
             n == Min(ends)
  <2>1. item.kind = "cut" /\ item.frame \in AFrame /\ item.length \in Nat
    BY <1>2
  <2>2. b \in Seq(Byte) /\ Len(b) \in Nat
    BY <2>1, BuildType
  <2>3. BytesOf(item) = SubSeq(b, 1, n)
    BY <2>1 DEF BytesOf, Take
  <2> HIDE DEF b
  <2>4. ends \in SUBSET Nat /\ ends # {} /\ Len(b) \in ends
    BY <2>1, <2>2
  <2> HIDE DEF ends
  <2>5. n \in Nat /\ n <= Len(b)
    BY <2>4, LeastOne
  <2> HIDE DEF n
  <2>6. SubSeq(b, 1, n) \in Seq(Byte)
    BY <2>2, <2>5, Cuts
  <2> QED
    BY <2>3, <2>6
<1>3. CASE item \in [kind : {"noise"}, bytes : Seq(Byte)]
  <2>1. item.kind = "noise" /\ item.bytes \in Seq(Byte)
    BY <1>3
  <2> QED
    BY <2>1 DEF BytesOf
<1> QED
  BY <1>1, <1>2, <1>3 DEF Item

LEMMA BytesStay ==
  ASSUME framing' = framing, NEW item
  PROVE  BytesOf(item)' = BytesOf(item)
BY DEF BytesOf, Build, Encode, Crc, Counted, Soi, Eoi, LenBytes, CrcBytes, Stuffed, Escape,
       Targets, Offset

WireOf(its) == FlattenSeq([k \in 1..Len(its) |-> BytesOf(its[k])])

LEMMA WireType ==
  ASSUME NEW its \in Seq(Item), framing \in Framings
  PROVE  WireOf(its) \in Seq(Byte)
<1> DEFINE n == Len(its)
           b == [k \in 1..n |-> BytesOf(its[k])]
<1>1. n \in Nat
  BY LenProperties
<1>2. \A k \in 1..n : BytesOf(its[k]) \in Seq(Byte)
  BY ElementOfSeq, ItemType
<1>3. b \in Seq(Seq(Byte))
  <2>1. b \in [1..n -> Seq(Byte)]
    BY <1>2
  <2> HIDE DEF b, n
  <2> QED
    BY <1>1, <2>1
<1>4. WireOf(its) = FlattenSeq(b)
  BY DEF WireOf
<1> HIDE DEF b
<1> QED
  BY <1>3, <1>4, FlattenType

LEMMA WireConcat ==
  ASSUME NEW its \in Seq(Item), NEW reply \in Seq(Item), framing \in Framings
  PROVE  WireOf(its \o reply) = WireOf(its) \o WireOf(reply)
<1> DEFINE B(x) == [k \in 1..Len(x) |-> BytesOf(x[k])]
           all == its \o reply
<1>1. Len(its) \in Nat /\ Len(reply) \in Nat
  BY LenProperties
<1>2. all \in Seq(Item) /\ Len(all) = Len(its) + Len(reply)
  BY ConcatProperties
<1>3. \A k \in 1..Len(its) : all[k] = its[k]
  BY ConcatProperties
<1>4. \A k \in (Len(its) + 1)..Len(all) : all[k] = reply[k - Len(its)]
  BY <1>1, <1>2, ConcatProperties
<1> HIDE DEF all
<1>5. \A x \in Seq(Item) : B(x) \in Seq(Seq(Byte)) /\ Len(B(x)) = Len(x)
  <2> SUFFICES ASSUME NEW x \in Seq(Item)
               PROVE  B(x) \in Seq(Seq(Byte)) /\ Len(B(x)) = Len(x)
    OBVIOUS
  <2> DEFINE n == Len(x)
  <2>1. n \in Nat
    BY LenProperties
  <2>2. \A k \in 1..n : BytesOf(x[k]) \in Seq(Byte)
    BY ElementOfSeq, ItemType
  <2>3. B(x) \in [1..n -> Seq(Byte)]
    BY <2>2
  <2> HIDE DEF B, n
  <2>4. B(x) \in Seq(Seq(Byte)) /\ Len(B(x)) = n
    BY <2>1, <2>3
  <2> QED
    BY <2>4 DEF n
<1>6. B(all) = B(its) \o B(reply)
  <2> DEFINE c == B(all)
             d == B(its)
             e == B(reply)
             f == d \o e
  <2>1. /\ c \in Seq(Seq(Byte)) /\ Len(c) = Len(its) + Len(reply)
        /\ d \in Seq(Seq(Byte)) /\ Len(d) = Len(its)
        /\ e \in Seq(Seq(Byte)) /\ Len(e) = Len(reply)
    BY <1>2, <1>5
  <2>2. /\ \A k \in 1..Len(all) : c[k] = BytesOf(all[k])
        /\ \A k \in 1..Len(its) : d[k] = BytesOf(its[k])
        /\ \A k \in 1..Len(reply) : e[k] = BytesOf(reply[k])
    OBVIOUS
  <2> HIDE DEF c, d, e, B
  <2>3. /\ f \in Seq(Seq(Byte)) /\ Len(f) = Len(its) + Len(reply)
        /\ \A k \in 1..Len(its) : f[k] = d[k]
        /\ \A k \in (Len(its) + 1)..Len(f) : f[k] = e[k - Len(its)]
    <3> DEFINE V == Seq(Byte)
    <3>1. d \in Seq(V) /\ e \in Seq(V)
      BY <2>1
    <3> HIDE DEF V
    <3>2. f \in Seq(V) /\ Len(f) = Len(d) + Len(e)
      BY <3>1, ConcatProperties
    <3>3. \A k \in 1..Len(d) : f[k] = d[k]
      BY <3>1, ConcatProperties
    <3>4. \A k \in 1..(Len(d) + Len(e)) : k > Len(d) => f[k] = e[k - Len(d)]
      BY <3>1, ConcatProperties
    <3> HIDE DEF f
    <3>5. Len(f) = Len(its) + Len(reply)
      BY <2>1, <3>2
    <3>6. \A k \in (Len(its) + 1)..Len(f) : f[k] = e[k - Len(its)]
      <4>1. \A k \in (Len(d) + 1)..(Len(d) + Len(e)) : k \in 1..(Len(d) + Len(e)) /\ k > Len(d)
        BY <1>1, <2>1
      <4>2. \A k \in (Len(d) + 1)..(Len(d) + Len(e)) : f[k] = e[k - Len(d)]
        BY <3>4, <4>1
      <4> QED
        BY <2>1, <3>5, <4>2
    <3> QED
      BY <2>1, <3>2, <3>3, <3>5, <3>6 DEF V
  <2> HIDE DEF f
  <2>4. ASSUME NEW k \in 1..Len(f)
        PROVE  c[k] = f[k]
    <3>1. CASE k <= Len(its)
      <4>1. k \in 1..Len(its) /\ k \in 1..Len(all)
        BY <1>1, <1>2, <2>3, <3>1
      <4>2. f[k] = d[k]
        BY <2>3, <4>1
      <4> QED
        BY <1>3, <2>2, <4>1, <4>2
    <3>2. CASE k > Len(its)
      <4> DEFINE j == k - Len(its)
      <4>1. f[k] = e[j]
        <5>1. k \in (Len(its) + 1)..Len(f)
          BY <1>1, <2>3, <3>2
        <5> QED
          BY <2>3, <5>1
      <4>2. j \in 1..Len(reply) /\ k \in (Len(its) + 1)..Len(all) /\ k \in 1..Len(all)
        BY <1>1, <1>2, <2>3, <3>2
      <4>3. all[k] = reply[j]
        BY <1>4, <4>2
      <4> HIDE DEF j
      <4> QED
        BY <2>2, <4>1, <4>2, <4>3
    <3> QED
      BY <1>1, <2>3, <3>1, <3>2
  <2>5. Len(c) = Len(f)
    BY <1>2, <2>1, <2>3
  <2>6. c = f
    BY <2>1, <2>3, <2>4, <2>5, SeqEqual
  <2> QED
    BY <2>6 DEF c, d, e, f
<1>7. /\ WireOf(all) = FlattenSeq(B(all)) /\ WireOf(its) = FlattenSeq(B(its))
      /\ WireOf(reply) = FlattenSeq(B(reply))
  BY DEF WireOf
<1> HIDE DEF B
<1>8. FlattenSeq(B(its) \o B(reply)) = FlattenSeq(B(its)) \o FlattenSeq(B(reply))
  BY <1>5, FlattenConcat
<1> QED
  BY <1>6, <1>7, <1>8 DEF all

LEMMA StreamNext ==
  ASSUME framing' = framing
  PROVE  Stream = WireOf(items) /\ Stream' = WireOf(items')
<1>1. Stream = WireOf(items)
  BY DEF Stream, Wire, WireOf
<1>2. ASSUME NEW k PROVE BytesOf(items[k])' = BytesOf(items'[k])
  BY BytesStay
<1>3. [k \in 1..Len(items') |-> BytesOf(items[k])'] = [k \in 1..Len(items') |-> BytesOf(items'[k])]
  BY <1>2
<1>4. Stream' = FlattenSeq([k \in 1..Len(items') |-> BytesOf(items[k])'])
  BY DEF Stream, Wire
<1>5. WireOf(items') = FlattenSeq([k \in 1..Len(items') |-> BytesOf(items'[k])])
  BY DEF WireOf
<1> QED
  BY <1>1, <1>3, <1>4, <1>5

\* The device says no more, or more: what has been received is what it was.
LEMMA StreamGrows ==
  ASSUME NEW reply \in Seq(Item), framing' = framing, framing \in Framings,
         items \in Seq(Item), items' = items \o reply, seen \in 0..Len(Stream), seen' = seen
  PROVE  /\ items' \in Seq(Item) /\ seen' \in 0..Len(Stream')
         /\ Received' = Received /\ Received \in Seq(Byte)
<1> DEFINE s == Stream
           t == WireOf(reply)
<1>1. s \in Seq(Byte) /\ t \in Seq(Byte) /\ Stream' = s \o t
  BY StreamNext, WireType, WireConcat
<1>2. items' \in Seq(Item)
  BY ConcatProperties
<1> HIDE DEF s, t
<1>3. Len(s) \in Nat /\ Len(s \o t) = Len(s) + Len(t) /\ Len(t) \in Nat
  BY <1>1, ConcatProperties, LenProperties
<1>4. seen \in 0..Len(s)
  BY DEF s
<1>5. SubSeq(s \o t, 1, seen) = SubSeq(s, 1, seen)
  <2>1. CASE seen = 0
    BY <2>1, SubSeqEmpty
  <2>2. CASE seen # 0
    <3>1. 1 \in 1..Len(s) /\ seen \in 1..Len(s)
      BY <1>3, <1>4, <2>2
    <3> QED
      BY <1>1, <3>1, SubSeqOfConcat1
  <2> QED
    BY <2>1, <2>2
<1>6. SubSeq(s, 1, seen) \in Seq(Byte)
  BY <1>1, <1>3, <1>4, Cuts
<1>7. Received = SubSeq(s, 1, seen) /\ Received' = SubSeq(s \o t, 1, seen)
  BY <1>1 DEF Received, Take, s
<1>8. seen' \in 0..Len(Stream')
  BY <1>1, <1>3, <1>4
<1> QED
  BY <1>2, <1>5, <1>6, <1>7, <1>8

\* The next n bytes come in.
LEMMA ReceivedGrows ==
  ASSUME NEW n \in 1..(Len(Stream) - seen), framing' = framing, framing \in Framings,
         items \in Seq(Item), items' = items, seen \in 0..Len(Stream), seen' = seen + n
  PROVE  LET chunk == SubSeq(Stream, seen + 1, seen + n)
         IN /\ seen' \in 0..Len(Stream')
            /\ chunk \in Seq(Byte) /\ Received \in Seq(Byte)
            /\ Received' = Received \o chunk
<1> DEFINE s == Stream
           m == seen + 1
           k == seen + n
<1>1. s \in Seq(Byte) /\ Stream' = s
  BY StreamNext, WireType
<1> HIDE DEF s
<1>2. Len(s) \in Nat /\ seen \in 0..Len(s) /\ n \in 1..(Len(s) - seen)
  BY <1>1, LenProperties DEF s
<1>3. /\ seen \in Int /\ seen <= Len(s) /\ m \in Nat \ {0} /\ k \in Int /\ k <= Len(s)
      /\ k \in 0..Len(s) /\ k \in seen..Len(s) /\ 1 \in 1..(Len(s) + 1)
      /\ seen \in (1 - 1)..Len(s)
  BY <1>2
<1>4. SubSeq(s, 1, seen) \in Seq(Byte)
  BY <1>1, <1>3, Cuts
<1>5. SubSeq(s, 1, seen) \o SubSeq(s, m, k) = SubSeq(s, 1, k)
  <2> HIDE DEF k
  <2> QED
    BY <1>1, <1>3, ConcatAdjacentSubSeq
<1> HIDE DEF m, k
<1>6. SubSeq(s, m, k) \in Seq(Byte)
  BY <1>1, <1>3, Cuts
<1>7. Received = SubSeq(s, 1, seen) /\ Received' = SubSeq(s, 1, k)
  BY <1>1 DEF Received, Take, s, k
<1>8. seen' \in 0..Len(Stream')
  BY <1>1, <1>3 DEF k
<1> QED
  BY <1>4, <1>5, <1>6, <1>7, <1>8 DEF s, m, k

-----------------------------------------------------------------------------
(* The client.                                                             *)

LEMMA InitTypeOK == Init => TypeOK
<1> SUFFICES ASSUME Init PROVE TypeOK
  OBVIOUS
<1>1. framing \in Framings /\ items = <<>> /\ items \in Seq(Item) /\ Len(items) = 0
  BY EmptySeq DEF Init
<1>2. Stream \in Seq(Byte)
  <2>1. Stream = WireOf(items)
    BY DEF Stream, Wire, WireOf
  <2> QED
    BY <1>1, <2>1, WireType
<1>3. seen \in 0..Len(Stream)
  BY <1>2, LenProperties DEF Init
<1>4. /\ leftover \in Seq(Byte) /\ {out, returned} \subseteq Seq(AFrame) /\ out = <<>>
      /\ sock \in {"none", "up", "ended", "broken"} /\ window \in BOOLEAN
  BY EmptySeq DEF Init
<1>5. Len(items) <= MaxItems
  BY <1>1, ClientAssumption
<1> QED
  BY <1>1, <1>3, <1>4, <1>5 DEF TypeOK

\* What a reply adds to.
LEMMA ReplyType ==
  ASSUME NEW reply \in Replies \cup {<<>>}
  PROVE  reply \in Seq(Item)
BY EmptySeq, ClientAssumption

LEMMA RecvParses ==
  ASSUME TypeOK, NEW n \in 1..(Len(Stream) - seen), Recv(n)
  PROVE  LET parsed == IterFrames(leftover \o SubSeq(Stream, seen + 1, seen + n))
         IN parsed \in Results /\ out' = out \o parsed.frames /\ leftover' = parsed.rest
<1> DEFINE chunk == SubSeq(Stream, seen + 1, seen + n)
           parsed == IterFrames(leftover \o chunk)
<1>1. /\ framing \in Framings /\ framing' = framing /\ items \in Seq(Item) /\ items' = items
      /\ seen \in 0..Len(Stream) /\ seen' = seen + n /\ leftover \in Seq(Byte)
  BY DEF TypeOK, Recv
<1>2. chunk \in Seq(Byte)
  BY <1>1, ReceivedGrows
<1>3. out' = out \o parsed.frames /\ leftover' = parsed.rest
  BY DEF Recv
<1> HIDE DEF chunk
<1>4. leftover \o chunk \in Seq(Byte)
  BY <1>1, <1>2, ConcatProperties
<1>5. parsed \in Results
  BY <1>1, <1>4, IterIsFrom
<1> QED
  BY <1>3, <1>5 DEF chunk

LEMMA NextTypeOK == TypeOK /\ [Next]_vars => TypeOK'
<1> SUFFICES ASSUME TypeOK, [Next]_vars PROVE TypeOK'
  OBVIOUS
<1>1. /\ framing \in Framings /\ sock \in {"none", "up", "ended", "broken"}
      /\ leftover \in Seq(Byte) /\ window \in BOOLEAN
      /\ out \in Seq(AFrame) /\ returned \in Seq(AFrame) /\ (out # <<>> => window)
      /\ seen \in 0..Len(Stream) /\ items \in Seq(Item) /\ Len(items) <= MaxItems
  BY DEF TypeOK
<1>2. framing' = framing
  BY DEF Next, Connect, Request, WindowEnds, Breaks, Close, Recv, Speaks, PeerEnds, vars
<1>3. framing' \in Framings
  BY <1>1, <1>2
<1>4. <<>> \in Seq(Byte) /\ <<>> \in Seq(AFrame) /\ <<>> \in Seq(Item)
  BY EmptySeq
<1>5. items \o <<>> = items
  BY <1>1, ConcatEmptySeq
<1>6. ASSUME UNCHANGED <<items, seen>>
      PROVE  items' \in Seq(Item) /\ Len(items') <= MaxItems /\ seen' \in 0..Len(Stream')
  BY <1>1, <1>2, <1>4, <1>5, <1>6, StreamGrows
<1>7. ASSUME NEW reply \in Replies \cup {<<>>}, Len(items) + Len(reply) <= MaxItems,
             items' = items \o reply, seen' = seen
      PROVE  items' \in Seq(Item) /\ Len(items') <= MaxItems /\ seen' \in 0..Len(Stream')
  <2>1. reply \in Seq(Item)
    BY ReplyType
  <2>2. Len(items') = Len(items) + Len(reply)
    BY <1>1, <1>7, <2>1, ConcatProperties
  <2> QED
    BY <1>1, <1>2, <1>7, <2>1, <2>2, StreamGrows
<1>8. CASE Connect
  <2>1. Stream' \in Seq(Byte)
    <3>1. Stream' = WireOf(items') /\ items' = <<>>
      BY <1>2, <1>8, StreamNext DEF Connect
    <3> QED
      BY <1>1, <1>4, <3>1, WireType
  <2>2. seen' \in 0..Len(Stream')
    BY <1>8, <2>1, LenProperties DEF Connect
  <2>3. items' \in Seq(Item) /\ Len(items') <= MaxItems
    BY <1>4, <1>8, ClientAssumption DEF Connect
  <2> QED
    BY <1>1, <1>3, <1>4, <1>8, <2>2, <2>3 DEF Connect, TypeOK
<1>9. CASE Request
  <2>1. items' \in Seq(Item) /\ Len(items') <= MaxItems /\ seen' \in 0..Len(Stream')
    BY <1>7, <1>9 DEF Request
  <2> QED
    BY <1>1, <1>3, <1>9, <2>1 DEF Request, TypeOK
<1>10. CASE WindowEnds
  <2>1. returned \o out \in Seq(AFrame)
    BY <1>1, ConcatProperties
  <2> QED
    BY <1>1, <1>3, <1>4, <1>6, <1>10, <2>1 DEF WindowEnds, TypeOK
<1>11. CASE Breaks
  BY <1>1, <1>3, <1>4, <1>6, <1>11 DEF Breaks, TypeOK
<1>12. CASE Close
  BY <1>1, <1>3, <1>6, <1>12 DEF Close, TypeOK
<1>13. ASSUME NEW n \in 1..(Len(Stream) - seen), Recv(n)
       PROVE  TypeOK'
  <2>1. PICK parsed \in Results : out' = out \o parsed.frames /\ leftover' = parsed.rest
    BY <1>13, RecvParses
  <2>2. out' \in Seq(AFrame) /\ leftover' \in Seq(Byte)
    <3>1. parsed.frames \in Seq(AFrame) /\ parsed.rest \in Seq(Byte)
      BY DEF Results
    <3> QED
      BY <1>1, <2>1, <3>1, ConcatProperties
  <2>3. items' = items /\ seen' = seen + n /\ returned' = returned /\ window' /\ sock' = sock
        /\ window' \in BOOLEAN
    BY <1>1, <1>13 DEF Recv
  <2>4. seen' \in 0..Len(Stream')
    BY <1>1, <1>2, <2>3, ReceivedGrows
  <2> QED
    BY <1>1, <1>3, <2>2, <2>3, <2>4 DEF TypeOK
<1>14. CASE Speaks
  <2>1. items' \in Seq(Item) /\ Len(items') <= MaxItems /\ seen' \in 0..Len(Stream')
    BY <1>7, <1>14 DEF Speaks
  <2> QED
    BY <1>1, <1>3, <1>14, <2>1 DEF Speaks, TypeOK
<1>15. CASE PeerEnds
  BY <1>1, <1>3, <1>6, <1>15 DEF PeerEnds, TypeOK
<1>16. CASE UNCHANGED vars
  BY <1>1, <1>3, <1>6, <1>16 DEF vars, TypeOK
<1> QED
  BY <1>8, <1>9, <1>10, <1>11, <1>12, <1>13, <1>14, <1>15, <1>16 DEF Next

\* What the client keeps is what the parser makes of what has been received at once.
Agrees == Usable => Parsed(returned \o out, leftover) = IterFrames(Received)

LEMMA AgreesNext == TypeOK /\ Agrees /\ [Next]_vars => Agrees'
<1> SUFFICES ASSUME TypeOK, Agrees, [Next]_vars, Usable' PROVE
      Parsed(returned' \o out', leftover') = IterFrames(Received)'
  BY DEF Agrees
<1>1. /\ framing \in Framings /\ leftover \in Seq(Byte)
      /\ out \in Seq(AFrame) /\ returned \in Seq(AFrame) /\ (out # <<>> => window)
      /\ seen \in 0..Len(Stream) /\ items \in Seq(Item)
  BY DEF TypeOK
<1>2. framing' = framing
  BY DEF Next, Connect, Request, WindowEnds, Breaks, Close, Recv, Speaks, PeerEnds, vars
<1>3. ASSUME Received' \in Seq(Byte)
      PROVE  IterFrames(Received)' = IterFrames(Received')
  BY <1>1, <1>2, <1>3, ParseStays
<1>4. ASSUME NEW reply \in Replies \cup {<<>>}, items' = items \o reply, seen' = seen,
             sock \in {"up", "ended"}, UNCHANGED <<out, returned, leftover>>
      PROVE  Parsed(returned' \o out', leftover') = IterFrames(Received)'
  <2>1. Received' = Received /\ Received \in Seq(Byte)
    BY <1>1, <1>2, <1>4, ReplyType, StreamGrows
  <2>2. Parsed(returned \o out, leftover) = IterFrames(Received)
    BY <1>4 DEF Agrees, Usable
  <2> QED
    BY <1>3, <1>4, <2>1, <2>2
<1>5. items \o <<>> = items /\ <<>> \in Replies \cup {<<>>}
  BY <1>1, ConcatEmptySeq
<1>6. CASE Connect
  <2>1. out' = <<>> /\ returned' = <<>> /\ leftover' = <<>> /\ seen' = 0
    BY <1>1, <1>6 DEF Connect
  <2>2. Received' = <<>>
    BY <2>1, SubSeqEmpty DEF Received, Take
  <2>3. IterFrames(Received)' = Parsed(<<>>, <<>>)
    BY <1>1, <1>3, <2>2, ParsesNothing, EmptySeq
  <2>4. <<>> \o <<>> = <<>>
    OBVIOUS
  <2> QED
    BY <2>1, <2>3, <2>4
<1>7. CASE Request
  BY <1>4, <1>7 DEF Request
<1>8. CASE WindowEnds
  <2>1. /\ returned' = returned \o out /\ out' = <<>> /\ leftover' = leftover
        /\ items' = items /\ seen' = seen /\ sock' = sock
    BY <1>8 DEF WindowEnds
  <2>2. Received' = Received /\ Received \in Seq(Byte)
    BY <1>1, <1>2, <1>5, <2>1, ReplyType, StreamGrows
  <2>3. (returned \o out) \o <<>> = returned \o out
    <3>1. returned \o out \in Seq(AFrame)
      BY <1>1, ConcatProperties
    <3> QED
      BY <3>1, ConcatEmptySeq
  <2>4. Parsed(returned \o out, leftover) = IterFrames(Received)
    BY <2>1 DEF Agrees, Usable
  <2> QED
    BY <1>3, <2>1, <2>2, <2>3, <2>4
<1>9. CASE Breaks \/ Close
  BY <1>9 DEF Breaks, Close, Usable
<1>10. ASSUME NEW n \in 1..(Len(Stream) - seen), Recv(n)
       PROVE  Parsed(returned' \o out', leftover') = IterFrames(Received)'
  <2> DEFINE chunk == SubSeq(Stream, seen + 1, seen + n)
             parsed == IterFrames(leftover \o chunk)
  <2>1. /\ parsed \in Results /\ out' = out \o parsed.frames /\ leftover' = parsed.rest
        /\ returned' = returned /\ items' = items /\ seen' = seen + n /\ Usable
    BY <1>10, RecvParses DEF Recv, Usable
  <2>2. /\ chunk \in Seq(Byte) /\ Received \in Seq(Byte) /\ Received' = Received \o chunk
    BY <1>1, <1>2, <2>1, ReceivedGrows
  <2> HIDE DEF chunk
  <2>3. Parsed(returned \o out, leftover) = IterFrames(Received)
    BY <2>1 DEF Agrees
  <2>4. IterFrames(Received).frames = returned \o out /\ IterFrames(Received).rest = leftover
    BY <2>3 DEF Parsed
  <2>5. IterFrames(Received \o chunk) = Before(returned \o out, parsed)
    BY <1>1, <2>2, <2>4, Continues
  <2> DEFINE f == parsed.frames
  <2>6. f \in Seq(AFrame)
    BY <2>1 DEF Results
  <2>7. Before(returned \o out, parsed) = Parsed((returned \o out) \o f, parsed.rest)
    BY DEF Before
  <2> HIDE DEF f, parsed
  <2>8. (returned \o out) \o f = returned \o (out \o f)
    BY <1>1, <2>6, ConcatAssociative, SMTT(60)
  <2>9. Received' \in Seq(Byte)
    BY <2>2, ConcatProperties
  <2> QED
    BY <1>3, <2>1, <2>2, <2>5, <2>7, <2>8, <2>9 DEF f
<1>11. CASE Speaks
  BY <1>4, <1>11 DEF Speaks
<1>12. CASE PeerEnds
  BY <1>4, <1>5, <1>12 DEF PeerEnds
<1>13. CASE UNCHANGED vars
  <2>1. sock \in {"up", "ended"}
    BY <1>13 DEF vars, Usable
  <2> QED
    BY <1>4, <1>5, <1>13, <2>1 DEF vars
<1> QED
  BY <1>6, <1>7, <1>8, <1>9, <1>10, <1>11, <1>12, <1>13 DEF Next

LEMMA AgreesBounded == TypeOK /\ Agrees => ChunksDoNotMatter
<1> SUFFICES ASSUME TypeOK, Agrees, Usable
             PROVE  /\ Parsed(returned \o out, leftover) = IterFrames(Received)
                    /\ ~Stuffed => Len(leftover) <= 1 + LenBytes + MaxFrame - Counted + CrcBytes
  BY DEF ChunksDoNotMatter
<1>1. Parsed(returned \o out, leftover) = IterFrames(Received)
  BY DEF Agrees
<1>2. leftover = IterFrames(Received).rest
  BY <1>1 DEF Parsed
<1>3. framing \in Framings /\ items \in Seq(Item) /\ seen \in 0..Len(Stream)
  BY DEF TypeOK
<1>4. Received \in Seq(Byte)
  <2> DEFINE s == Stream
  <2>1. s \in Seq(Byte)
    <3>1. Stream = WireOf(items)
      BY DEF Stream, Wire, WireOf
    <3> QED
      BY <1>3, <3>1, WireType
  <2> HIDE DEF s
  <2>2. seen \in Int /\ seen <= Len(s) /\ Received = SubSeq(s, 1, seen)
    BY <1>3, <2>1, LenProperties DEF s, Received, Take
  <2> QED
    BY <2>1, <2>2, Cuts
<1> QED
  BY <1>1, <1>2, <1>3, <1>4, RestBound

\* Every state has the types that TypeOK gives (spp.py SppBridge).
THEOREM TypeCorrect == Spec => []TypeOK
BY InitTypeOK, NextTypeOK, PTL DEF Spec

\* However TCP cuts the stream and whenever windows end, callers get what one call of
\* iter_frames makes of all the bytes of the connection, and the same partial frame is
\* kept, which is bounded where frames are not stuffed (spp.py read_frames, framing.py
\* iter_frames): for every framing, every reply and every noise.
THEOREM ChunksAgree == Spec => []ChunksDoNotMatter
<1>1. Init => Agrees
  BY DEF Init, Agrees, Usable
<1>2. TypeOK /\ Agrees /\ [Next]_vars => Agrees'
  BY AgreesNext
<1>3. TypeOK /\ Agrees => ChunksDoNotMatter
  BY AgreesBounded
<1> QED
  BY <1>1, <1>2, <1>3, TypeCorrect, PTL DEF Spec

-----------------------------------------------------------------------------
(* What callers get is what was sent.                                      *)

\* Item is noise without an SOI, or a whole frame that the parser takes for one.
Plain(item) ==
  \/ item \in [kind : {"frame"}, frame : AFrame] /\ Fitting(item.frame)
  \/ item \in [kind : {"noise"}, bytes : Seq(Byte)] /\ Soi \notin ToSet(item.bytes)

\* The first m bytes of an item.
LEMMA FromItem ==
  ASSUME NEW item, Plain(item), framing \in Framings, NEW m \in 0..Len(BytesOf(item))
  PROVE  LET b == BytesOf(item)
             parsed == IterFrames(Take(b, m))
         IN /\ b \in Seq(Byte)
            /\ parsed \in Results
            /\ parsed.frames = IF m = Len(b) /\ item.kind = "frame" THEN <<item.frame>> ELSE <<>>
            /\ m = Len(b) => parsed.rest = <<>>
<1> DEFINE b == BytesOf(item)
           c == Take(b, m)
<1>1. item \in Item
  BY DEF Plain, Item
<1>2. b \in Seq(Byte) /\ Len(b) \in Nat
  BY <1>1, ItemType, LenProperties
<1>3. m \in Nat /\ m <= Len(b)
  BY <1>2
<1>4. c \in Seq(Byte) /\ Len(c) = m /\ \A i \in 1..m : c[i] = b[i]
  BY <1>2, <1>3, Starts DEF Reaching
<1>5. IterFrames(c) \in Results
  BY <1>4, IterIsFrom
<1>6. m = Len(b) => c = b
  <2> HIDE DEF c, b
  <2> QED
    BY <1>2, <1>4, SeqEqual
<1>7. CASE item \in [kind : {"frame"}, frame : AFrame] /\ Fitting(item.frame)
  <2>1. item.kind = "frame" /\ item.frame \in AFrame /\ b = Build(item.frame)
    BY <1>7 DEF BytesOf
  <2>2. /\ IterFrames(b) = Parsed(<<item.frame>>, <<>>)
        /\ \A k \in 0..(Len(b) - 1) : IterFrames(Take(b, k)).frames = <<>>
    BY <1>7, <2>1, BuiltIsParsed
  <2> HIDE DEF b, c
  <2>3. CASE m = Len(b)
    BY <1>2, <1>5, <1>6, <2>1, <2>2, <2>3 DEF b, c, Parsed
  <2>4. CASE m # Len(b)
    <3>1. m \in 0..(Len(b) - 1)
      BY <1>2, <1>3, <2>4
    <3>2. IterFrames(c).frames = <<>>
      BY <2>2, <3>1 DEF c
    <3> QED
      BY <1>2, <1>5, <2>4, <3>2 DEF b, c
  <2> QED
    BY <2>3, <2>4
<1>8. CASE item \in [kind : {"noise"}, bytes : Seq(Byte)] /\ Soi \notin ToSet(item.bytes)
  <2>1. item.kind = "noise" /\ b = item.bytes
    BY <1>8 DEF BytesOf
  <2>2. \A k \in 1..Len(b) : b[k] # Soi
    <3>1. Soi \notin ToSet(b)
      BY <1>8, <2>1
    <3> HIDE DEF b
    <3> QED
      BY <1>2, <3>1 DEF ToSet
  <2> HIDE DEF b, c
  <2>3. \A k \in 1..Len(c) : c[k] # Soi
    BY <1>2, <1>3, <1>4, <2>2
  <2>4. IterFrames(c) = Parsed(<<>>, <<>>)
    BY <1>4, <2>3, PassesNoise
  <2>5. item.kind # "frame"
    BY <2>1
  <2> QED
    BY <1>2, <1>5, <2>4, <2>5 DEF b, c, Parsed
<1> QED
  BY <1>7, <1>8 DEF Plain

\* A stream s that is parsed without a rest, and then c.
LEMMA AfterWhole ==
  ASSUME NEW s \in Seq(Byte), NEW c \in Seq(Byte), framing \in Framings, IterFrames(s).rest = <<>>
  PROVE  /\ IterFrames(s \o c).frames = IterFrames(s).frames \o IterFrames(c).frames
         /\ IterFrames(s \o c).rest = IterFrames(c).rest
<1> DEFINE p == IterFrames(s)
<1>1. IterFrames(s \o c) = Before(p.frames, IterFrames(p.rest \o c))
  BY Continues
<1>2. <<>> \o c = c
  BY ConcatEmptySeq
<1> HIDE DEF p
<1>3. IterFrames(s \o c) = Before(p.frames, IterFrames(c))
  BY <1>1, <1>2 DEF p
<1> DEFINE q == IterFrames(c)
           r == IterFrames(s \o c)
           x == p.frames
<1>4. r = Before(x, q)
  BY <1>3
<1> HIDE DEF q, r, x
<1>5. r.frames = x \o q.frames /\ r.rest = q.rest
  BY <1>4, BeforeParts
<1> QED
  BY <1>5 DEF p, q, r, x

\* What s \o b begins with.
LEMMA TakesFrom ==
  ASSUME NEW s \in Seq(Byte), NEW b \in Seq(Byte), NEW m \in 0..Len(s \o b)
  PROVE  /\ m <= Len(s) => Take(s \o b, m) = Take(s, m)
         /\ m >= Len(s) => /\ m - Len(s) \in 0..Len(b)
                           /\ Take(s \o b, m) = s \o Take(b, m - Len(s))
<1> DEFINE u == s \o b
           c == Take(u, m)
           n == Len(s)
<1>1. Joins(Byte, u, s, b)
  BY Joined DEF Both
<1> HIDE DEF u
<1>2. n \in Nat /\ Len(b) \in Nat /\ u \in Seq(Byte) /\ Len(u) = n + Len(b)
  BY <1>1, LenProperties DEF Joins
<1>3. m \in Nat /\ m <= Len(u)
  BY <1>2 DEF u
<1>4. c \in Seq(Byte) /\ Len(c) = m /\ \A i \in 1..m : c[i] = u[i]
  BY <1>2, <1>3, Starts DEF Reaching
<1>5. /\ \A i \in 1..n : u[i] = s[i]
      /\ \A i \in 1..Len(b) : u[n + i] = b[i]
  BY <1>1 DEF Joins
<1> HIDE DEF c, n
<1>6. ASSUME m <= n PROVE c = Take(s, m)
  <2> DEFINE d == Take(s, m)
  <2>1. Reaching(Byte, s, m)
    BY <1>3, <1>6 DEF Reaching, n
  <2>2. d \in Seq(Byte) /\ Len(d) = m /\ \A i \in 1..m : d[i] = s[i]
    BY <2>1, Starts
  <2> HIDE DEF d
  <2>3. \A i \in 1..m : c[i] = d[i]
    BY <1>2, <1>3, <1>4, <1>5, <1>6, <2>2
  <2>4. c = d
    BY <1>4, <2>2, <2>3, SeqEqual
  <2> QED
    BY <2>4 DEF d
<1>7. ASSUME m >= n PROVE m - n \in 0..Len(b) /\ c = s \o Take(b, m - n)
  <2> DEFINE k == m - n
             d == Take(b, k)
             e == s \o d
  <2>1. k \in 0..Len(b) /\ k \in Nat /\ m = n + k
    BY <1>2, <1>3, <1>7
  <2> HIDE DEF k
  <2>2. Reaching(Byte, b, k)
    BY <2>1 DEF Reaching
  <2>3. d \in Seq(Byte) /\ Len(d) = k /\ \A i \in 1..k : d[i] = b[i]
    BY <2>2, Starts
  <2> HIDE DEF d
  <2>4. Joins(Byte, e, s, d)
    BY <2>3, Joined DEF Both
  <2> HIDE DEF e
  <2>5. /\ e \in Seq(Byte) /\ Len(e) = m
        /\ \A i \in 1..n : e[i] = s[i]
        /\ \A i \in 1..k : e[n + i] = d[i]
    BY <2>1, <2>3, <2>4 DEF Joins, n
  <2>6. ASSUME NEW i \in 1..m PROVE c[i] = e[i]
    <3>1. CASE i <= n
      BY <1>2, <1>4, <1>5, <2>5, <3>1
    <3>2. CASE ~(i <= n)
      <4> DEFINE j == i - n
      <4>1. j \in 1..k /\ i = n + j /\ j \in 1..Len(b)
        BY <1>2, <2>1, <3>2
      <4> HIDE DEF j
      <4>2. u[i] = b[j] /\ e[i] = d[j] /\ d[j] = b[j]
        BY <1>5, <2>3, <2>5, <4>1
      <4> QED
        BY <1>4, <4>2
    <3> QED
      BY <3>1, <3>2
  <2>7. c = e
    BY <1>4, <2>5, <2>6, SeqEqual
  <2> QED
    BY <2>1, <2>7 DEF e, d, k
<1> QED
  BY <1>6, <1>7 DEF c, u, n

\* The bytes of the items, and the frames that callers are to get, in the order of the items.
ItemBytes == [k \in 1..Len(items) |-> BytesOf(items[k])]
Yields == [k \in 1..Len(items) |-> IF k \in WholeFrames THEN <<items[k].frame>> ELSE <<>>]
Got(k) == FlattenSeq(FirstParts(Yields, k))
OnWire(k) == FlattenSeq(FirstParts(ItemBytes, k))

\* As much of the first k items as has been received.
Arrived(k) == IF Len(OnWire(k)) <= seen THEN Len(OnWire(k)) ELSE seen
\* The parser has found in it what was to be found.
Parses(k) ==
  LET parsed == IterFrames(Take(OnWire(k), Arrived(k)))
  IN /\ parsed.frames = Got(k)
     /\ Len(OnWire(k)) <= seen => parsed.rest = <<>>

AllPlain == \A k \in 1..Len(items) : Plain(items[k])

LEMMA OnWireIs ==
  ASSUME NEW k \in 0..Len(items)
  PROVE  OnWire(k) = Wire(k)
<1>1. \A j \in 1..k : j \in 1..Len(items)
  OBVIOUS
<1>2. [j \in 1..k |-> ItemBytes[j]] = [j \in 1..k |-> BytesOf(items[j])]
  BY <1>1 DEF ItemBytes
<1> QED
  BY <1>2 DEF OnWire, Wire, FirstParts

LEMMA PartsStep ==
  ASSUME framing \in Framings, items \in Seq(Item), AllPlain, NEW k \in 1..Len(items)
  PROVE  /\ OnWire(k) = OnWire(k - 1) \o BytesOf(items[k]) /\ OnWire(k - 1) \in Seq(Byte)
         /\ BytesOf(items[k]) \in Seq(Byte)
         /\ Got(k) = Got(k - 1) \o Yields[k] /\ Got(k - 1) \in Seq(AFrame)
<1>0. Len(items) \in Nat /\ k \in Nat \ {0} /\ \A j \in 1..k : j \in 1..Len(items)
  BY LenProperties
<1>1. \A j \in 1..Len(items) : ItemBytes[j] \in Seq(Byte) /\ ItemBytes[j] = BytesOf(items[j])
  BY ElementOfSeq, ItemType DEF ItemBytes
<1>2. \A j \in 1..Len(items) : Yields[j] \in Seq(AFrame)
  <2>1. ASSUME NEW j \in 1..Len(items) PROVE Yields[j] \in Seq(AFrame)
    <3>1. CASE j \in WholeFrames
      <4>1. items[j].kind = "frame" /\ Plain(items[j])
        BY <3>1 DEF WholeFrames, AllPlain
      <4>2. items[j].frame \in AFrame
        BY <4>1 DEF Plain
      <4>3. <<items[j].frame>> \in Seq(AFrame)
        BY <4>2
      <4> QED
        BY <3>1, <4>3 DEF Yields
    <3>2. CASE j \notin WholeFrames
      BY <3>2, EmptySeq DEF Yields
    <3> QED
      BY <3>1, <3>2
  <2> QED
    BY <2>1
<1>3. Pieces(Byte, ItemBytes, k) /\ Pieces(AFrame, Yields, k)
  BY <1>0, <1>1, <1>2 DEF Pieces
<1>4. /\ FlattenSeq(FirstParts(ItemBytes, k)) = FlattenSeq(FirstParts(ItemBytes, k - 1)) \o ItemBytes[k]
      /\ FlattenSeq(FirstParts(ItemBytes, k - 1)) \in Seq(Byte)
  BY <1>3, FlattenStep
<1>5. /\ FlattenSeq(FirstParts(Yields, k)) = FlattenSeq(FirstParts(Yields, k - 1)) \o Yields[k]
      /\ FlattenSeq(FirstParts(Yields, k - 1)) \in Seq(AFrame)
  BY <1>3, FlattenStep
<1> QED
  BY <1>1, <1>4, <1>5 DEF OnWire, Got

LEMMA ParsesMore ==
  ASSUME framing \in Framings, items \in Seq(Item), AllPlain, seen \in Nat,
         NEW k \in 1..Len(items), Parses(k - 1)
  PROVE  Parses(k)
<1> DEFINE s == OnWire(k - 1)
           b == BytesOf(items[k])
           u == OnWire(k)
           y == Yields[k]
           item == items[k]
           n == Len(s)
           l == Len(b)
<1>1. /\ u = s \o b /\ s \in Seq(Byte) /\ b \in Seq(Byte)
      /\ Got(k) = Got(k - 1) \o y /\ Got(k - 1) \in Seq(AFrame)
  BY PartsStep
<1>2. Plain(item)
  BY DEF AllPlain
<1>w. k \in DOMAIN items /\ k \in 0..Len(items)
  BY LenProperties
<1>3. u = Wire(k)
  BY <1>w, OnWireIs
<1>4. y = IF Len(u) <= seen /\ item.kind = "frame" THEN <<item.frame>> ELSE <<>>
  <2>1. y = IF k \in WholeFrames THEN <<item.frame>> ELSE <<>>
    BY DEF Yields
  <2>2. k \in WholeFrames <=>
          item.kind = "frame" /\ Len(u) <= seen
            /\ (Stuffed \/ 1 + Len(item.frame.args) + Counted >= 1 + CrcBytes)
    BY <1>3, <1>w DEF WholeFrames, Complete
  <2>3. item.kind = "frame" => Stuffed \/ 1 + Len(item.frame.args) + Counted >= 1 + CrcBytes
    <3> SUFFICES ASSUME item.kind = "frame", ~Stuffed
                 PROVE  1 + Len(item.frame.args) + Counted >= 1 + CrcBytes
      OBVIOUS
    <3> DEFINE frame == item.frame
    <3>1. frame \in AFrame /\ Fitting(frame)
      BY <1>2 DEF Plain
    <3>2. Size(frame) >= 1 + CrcBytes
      BY <3>1 DEF Fitting, Plausible
    <3>3. Len(Body(frame)) = 1 + Len(frame.args)
      BY <3>1, Parts
    <3> HIDE DEF frame
    <3>4. 1 + Len(frame.args) + Counted >= 1 + CrcBytes
      BY <3>2, <3>3 DEF Size
    <3> QED
      BY <3>4 DEF frame
  <2> QED
    BY <2>1, <2>2, <2>3
<1> HIDE DEF s, b, u, y, item, n, l
<1>5. n \in Nat /\ l \in Nat /\ Len(u) = n + l /\ u \in Seq(Byte)
  <2>1. Joins(Byte, u, s, b)
    BY <1>1, Joined DEF Both
  <2> QED
    BY <1>1, <2>1, LenProperties DEF Joins, n, l
<1>6. /\ IterFrames(Take(s, Arrived(k - 1))).frames = Got(k - 1)
      /\ n <= seen => IterFrames(Take(s, Arrived(k - 1))).rest = <<>>
      /\ Arrived(k - 1) = IF n <= seen THEN n ELSE seen
  BY DEF Parses, Arrived, s, n
<1> DEFINE m == Arrived(k)
<1>7. m = (IF n + l <= seen THEN n + l ELSE seen) /\ m \in 0..Len(u)
  BY <1>5 DEF Arrived, u
<1> HIDE DEF m
<1>8. IterFrames(Take(u, m)).frames = Got(k)
      /\ (Len(u) <= seen => IterFrames(Take(u, m)).rest = <<>>)
  <2>1. CASE n <= seen
    <3>1. Take(s, n) = s
      <4>1. Halved(Byte, s, s, <<>>)
        BY <1>1, EmptySeq, ConcatEmptySeq DEF Halved
      <4> QED
        BY <4>1, Halves DEF n
    <3>2. IterFrames(s).frames = Got(k - 1) /\ IterFrames(s).rest = <<>>
      BY <1>6, <2>1, <3>1
    <3> DEFINE j == m - n
               c == Take(b, j)
    <3>3. m >= n /\ j \in 0..l /\ (j = l <=> Len(u) <= seen)
      BY <1>5, <1>7, <2>1
    <3>4. Take(u, m) = s \o c
      BY <1>1, <1>7, <3>3, TakesFrom DEF n
    <3> HIDE DEF j
    <3>5. /\ IterFrames(c).frames = IF j = l /\ item.kind = "frame" THEN <<item.frame>> ELSE <<>>
          /\ j = l => IterFrames(c).rest = <<>>
      BY <1>2, <3>3, FromItem DEF b, l, item
    <3>6. c \in Seq(Byte)
      <4>1. Reaching(Byte, b, j)
        BY <1>1, <1>5, <3>3 DEF Reaching, l
      <4> QED
        BY <4>1, Starts
    <3> HIDE DEF c
    <3>7. /\ IterFrames(s \o c).frames = IterFrames(s).frames \o IterFrames(c).frames
          /\ IterFrames(s \o c).rest = IterFrames(c).rest
      BY <1>1, <3>2, <3>6, AfterWhole
    <3>8. IterFrames(c).frames = y
      BY <1>4, <3>3, <3>5
    <3> QED
      BY <1>1, <3>2, <3>3, <3>4, <3>5, <3>7, <3>8
  <2>2. CASE ~(n <= seen)
    <3>1. m = seen /\ m <= n /\ ~(Len(u) <= seen)
      BY <1>5, <1>7, <2>2
    <3>2. Take(u, m) = Take(s, m)
      BY <1>1, <1>7, <3>1, TakesFrom DEF n
    <3>3. Got(k) = Got(k - 1)
      <4>1. y = <<>>
        BY <1>4, <3>1
      <4> QED
        BY <1>1, <4>1, ConcatEmptySeq
    <3> QED
      BY <1>6, <2>2, <3>1, <3>2, <3>3
  <2> QED
    BY <2>1, <2>2
<1> QED
  BY <1>8 DEF Parses, u, m

LEMMA ParsesAll ==
  ASSUME TypeOK, AllPlain
  PROVE  IterFrames(Received).frames = FramesOf(WholeFrames)
<1> DEFINE n == Len(items)
           T == {k \in 0..n : Parses(k)}
<1>1. /\ framing \in Framings /\ items \in Seq(Item) /\ seen \in 0..Len(Stream)
      /\ n \in Nat /\ DOMAIN items = 1..n
  BY LenProperties DEF TypeOK
<1>2. Stream = WireOf(items)
  BY DEF Stream, Wire, WireOf
<1>3. Stream \in Seq(Byte) /\ Len(Stream) \in Nat
  BY <1>1, <1>2, WireType, LenProperties
<1>4. seen \in Nat /\ seen <= Len(Stream)
  BY <1>1, <1>3
<1>5. Parses(0)
  <2>1. FirstParts(ItemBytes, 0) = <<>> /\ FirstParts(Yields, 0) = <<>>
    BY DEF FirstParts
  <2>2. OnWire(0) = <<>> /\ Got(0) = <<>>
    BY <2>1, FlattenFew DEF OnWire, Got
  <2>3. Len(OnWire(0)) = 0 /\ Arrived(0) = 0
    BY <1>4, <2>2 DEF Arrived
  <2>4. Take(OnWire(0), Arrived(0)) = <<>>
    BY <2>2, <2>3 DEF Take
  <2> QED
    BY <1>1, <2>2, <2>4, ParsesNothing DEF Parses, Parsed
<1>6. \A k \in 1..n : k - 1 \in T => k \in T
  <2>1. ASSUME NEW k \in 1..n, Parses(k - 1) PROVE Parses(k)
    BY <1>1, <1>4, <2>1, ParsesMore
  <2> QED
    BY <1>1, <2>1
<1>7. 0..n \subseteq T
  <2>1. 0 \in T
    BY <1>1, <1>5
  <2> HIDE DEF T, n
  <2> QED
    BY <1>1, <1>6, <2>1, UpInduction
<1>8. Parses(n) /\ n \in 0..Len(items)
  BY <1>1, <1>7
<1>9. OnWire(n) = Stream
  BY <1>8, OnWireIs DEF Stream
<1>10. Arrived(n) = seen
  BY <1>3, <1>4, <1>9 DEF Arrived
<1>11. Got(n) = FramesOf(WholeFrames)
  <2>1. FirstParts(Yields, n) = [k \in DOMAIN items |-> IF k \in WholeFrames THEN <<items[k].frame>> ELSE <<>>]
    BY <1>1 DEF FirstParts, Yields
  <2> QED
    BY <2>1 DEF Got, FramesOf
<1> QED
  BY <1>8, <1>9, <1>10, <1>11 DEF Parses, Received

\* Every whole frame on the connection is one that LEN can hold and, without stuffing,
\* whose LEN is between 1 + CRC bytes and max_frame (framing.py _iter_unstuffed).
AllFit == \A k \in DOMAIN items : items[k].kind = "frame" => Fitting(items[k].frame)

LEMMA AgreesDelivered == TypeOK /\ Agrees => (AllFit => Delivered)
<1> SUFFICES ASSUME TypeOK, Agrees, AllFit, Usable,
                    \A k \in DOMAIN items : Quiet(k) /\ Uncut(k)
             PROVE  returned \o out = FramesOf(WholeFrames)
  BY DEF Delivered
<1>1. AllPlain
  <2>1. ASSUME NEW k \in 1..Len(items) PROVE Plain(items[k])
    <3>1. k \in DOMAIN items /\ items[k] \in Item
      BY ElementOfSeq DEF TypeOK
    <3>2. /\ items[k].kind # "cut" /\ (items[k].kind = "noise" => Soi \notin ToSet(items[k].bytes))
          /\ (items[k].kind = "frame" => Fitting(items[k].frame))
      BY <3>1 DEF Quiet, Uncut, AllFit
    <3> QED
      BY <3>1, <3>2 DEF Item, Plain
  <2> QED
    BY <2>1 DEF AllPlain
<1>2. IterFrames(Received).frames = FramesOf(WholeFrames)
  BY <1>1, ParsesAll
<1>3. Parsed(returned \o out, leftover) = IterFrames(Received)
  BY DEF Agrees
<1> QED
  BY <1>2, <1>3 DEF Parsed

\* Between noise without an SOI, callers have got exactly the frames that have come in
\* whole, in order, however TCP has cut them (spp.py read_frames, framing.py iter_frames):
\* as long as the frames sent are frames the parser takes for one.
THEOREM AllDelivered == Spec => [](AllFit => Delivered)
<1>1. Init => Agrees
  BY DEF Init, Agrees, Usable
<1>2. TypeOK /\ Agrees /\ [Next]_vars => Agrees'
  BY AgreesNext
<1>3. TypeOK /\ Agrees => (AllFit => Delivered)
  BY AgreesDelivered
<1> QED
  BY <1>1, <1>2, <1>3, TypeCorrect, PTL DEF Spec

=============================================================================

