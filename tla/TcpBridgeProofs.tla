-------------------------- MODULE TcpBridgeProofs --------------------------
(***************************************************************************)
(* Theorems about TcpBridge, for every size of the buffers and every       *)
(* bound.  Each direction is a pipeline of three sequences of numbered     *)
(* bytes; Flows says that they are in order within each and from one to    *)
(* the next, and the lemmas say what a stage may do to it.                 *)
(***************************************************************************)
EXTENDS TcpBridge, SequenceTheorems, TLAPS

InOrder(s) == \A i, j \in DOMAIN s : i < j => s[i] < s[j]
Below(s, t) == \A i \in DOMAIN s, j \in DOMAIN t : s[i] < t[j]
Within(s, n) == \A i \in DOMAIN s : s[i] \in 1..n

\* The bytes of a direction of which n were produced: out has left, then mid, then in.
Flows(out, mid, in, n) ==
  /\ out \in Bytes /\ mid \in Bytes /\ in \in Bytes
  /\ InOrder(out) /\ InOrder(mid) /\ InOrder(in)
  /\ Below(out, mid) /\ Below(out, in) /\ Below(mid, in)
  /\ Within(out, n) /\ Within(mid, n) /\ Within(in, n)

-----------------------------------------------------------------------------
(* Sequences of bytes.                                                     *)

\* What is known of a prefix, by position.
LEMMA TakeFacts ==
  ASSUME NEW s \in Bytes, NEW n \in 0..Len(s)
  PROVE  /\ Take(s, n) \in Bytes
         /\ Len(Take(s, n)) = n
         /\ \A i \in 1..n : Take(s, n)[i] = s[i]
<1>1. \A i \in 1..n : s[i] \in Nat
  BY ElementOfSeq DEF Bytes
<1> QED
  BY <1>1, SubSeqProperties DEF Bytes, Take

\* What is known of a suffix, by position.
LEMMA DropFacts ==
  ASSUME NEW s \in Bytes, NEW n \in 0..Len(s)
  PROVE  /\ Drop(s, n) \in Bytes
         /\ Len(Drop(s, n)) = Len(s) - n
         /\ \A i \in 1..(Len(s) - n) : Drop(s, n)[i] = s[i + n]
<1>1. \A i \in (n + 1)..Len(s) : s[i] \in Nat
  BY ElementOfSeq DEF Bytes
<1>2. Len(s) \in Nat /\ n + 1 \in Int
  OBVIOUS
<1>3. /\ Drop(s, n) \in Bytes
      /\ Len(Drop(s, n)) = IF n + 1 <= Len(s) THEN Len(s) - (n + 1) + 1 ELSE 0
      /\ \A i \in 1..(Len(s) - (n + 1) + 1) : Drop(s, n)[i] = s[(n + 1) + i - 1]
  BY <1>1, <1>2, SubSeqProperties DEF Bytes, Drop
<1> QED
  BY <1>3

\* Cutting a sequence leaves nothing out.
LEMMA TakeDrop ==
  ASSUME NEW s \in Bytes, NEW n \in 0..Len(s)
  PROVE  Take(s, n) \o Drop(s, n) = s
<1>1. s \in Seq(Nat) /\ Len(s) \in Nat
  BY DEF Bytes
<1>2. 1 \in 1..(Len(s) + 1) /\ n \in (1 - 1)..Len(s) /\ Len(s) \in n..Len(s)
  BY <1>1
<1>3. SubSeq(s, 1, n) \o SubSeq(s, n + 1, Len(s)) = SubSeq(s, 1, Len(s))
  BY <1>1, <1>2, ConcatAdjacentSubSeq
<1> QED
  BY <1>1, <1>3, SubSeqFull DEF Take, Drop

\* The n bytes after the first k.
LEMMA NewBytesFacts ==
  ASSUME NEW k \in Nat, NEW n \in Nat
  PROVE  /\ NewBytes(k, n) \in Bytes
         /\ Len(NewBytes(k, n)) = n
         /\ \A i \in 1..n : NewBytes(k, n)[i] = k + i
<1>1. NewBytes(k, n) \in [1..n -> Nat]
  BY DEF NewBytes
<1>2. NewBytes(k, n) \in Seq(Nat)
  BY <1>1, SeqDef
<1> QED
  BY <1>1, <1>2 DEF NewBytes, Bytes

\* What is known of a concatenation, by position.
LEMMA ConcatFacts ==
  ASSUME NEW s \in Bytes, NEW t \in Bytes
  PROVE  /\ s \o t \in Bytes
         /\ Len(s \o t) = Len(s) + Len(t)
         /\ \A i \in DOMAIN (s \o t) :
              \/ i \in DOMAIN s /\ (s \o t)[i] = s[i]
              \/ i > Len(s) /\ i - Len(s) \in DOMAIN t /\ (s \o t)[i] = t[i - Len(s)]
<1>1. /\ s \o t \in Seq(Nat) /\ Len(s \o t) = Len(s) + Len(t)
      /\ \A i \in 1..(Len(s) + Len(t)) :
           (s \o t)[i] = IF i <= Len(s) THEN s[i] ELSE t[i - Len(s)]
  BY ConcatProperties DEF Bytes
<1>2. /\ DOMAIN s = 1..Len(s) /\ DOMAIN t = 1..Len(t) /\ DOMAIN (s \o t) = 1..(Len(s) + Len(t))
      /\ Len(s) \in Nat /\ Len(t) \in Nat
  BY <1>1, LenProperties DEF Bytes
<1> QED
  BY <1>1, <1>2 DEF Bytes

-----------------------------------------------------------------------------
(* Order along a pipeline.                                                 *)

\* Two sequences in order, one below the other, are in order end to end.
LEMMA OrderConcat ==
  ASSUME NEW s \in Bytes, NEW t \in Bytes, InOrder(s), InOrder(t), Below(s, t)
  PROVE  InOrder(s \o t)
<1> SUFFICES ASSUME NEW i \in DOMAIN (s \o t), NEW j \in DOMAIN (s \o t), i < j
             PROVE  (s \o t)[i] < (s \o t)[j]
  BY DEF InOrder
<1> DEFINE L == Len(s)
<1>1. /\ DOMAIN s = 1..L /\ DOMAIN t = 1..Len(t) /\ DOMAIN (s \o t) \subseteq Nat
      /\ L \in Nat
  BY ConcatFacts, LenProperties DEF Bytes
<1>2. /\ \/ i \in DOMAIN s /\ (s \o t)[i] = s[i]
         \/ i > L /\ i - L \in DOMAIN t /\ (s \o t)[i] = t[i - L]
      /\ \/ j \in DOMAIN s /\ (s \o t)[j] = s[j]
         \/ j > L /\ j - L \in DOMAIN t /\ (s \o t)[j] = t[j - L]
  BY ConcatFacts
<1> QED
  BY <1>1, <1>2 DEF InOrder, Below

\* A concatenation is below, above or within what both its parts are.
LEMMA ConcatBounds ==
  ASSUME NEW s \in Bytes, NEW t \in Bytes, NEW u \in Bytes, NEW n \in Nat
  PROVE  /\ Below(s, u) /\ Below(t, u) => Below(s \o t, u)
         /\ Below(u, s) /\ Below(u, t) => Below(u, s \o t)
         /\ Within(s, n) /\ Within(t, n) => Within(s \o t, n)
BY ConcatFacts DEF Below, Within

\* What is in a prefix and in what is left after a longer one is in the sequence,
\* in its order, the prefix first.
LEMMA CutOrder ==
  ASSUME NEW s \in Bytes, InOrder(s), NEW k \in 0..Len(s), NEW m \in 0..k
  PROVE  /\ Take(s, m) \in Bytes /\ Drop(s, k) \in Bytes
         /\ InOrder(Take(s, m)) /\ InOrder(Drop(s, k)) /\ Below(Take(s, m), Drop(s, k))
<1>1. /\ DOMAIN s = 1..Len(s) /\ Len(s) \in Nat /\ m \in 0..Len(s)
      /\ \A i \in 1..Len(s) : s[i] \in Nat
  BY LenProperties, ElementOfSeq DEF Bytes
<1>2. /\ Take(s, m) \in Bytes /\ DOMAIN Take(s, m) = 1..m
      /\ \A i \in 1..m : Take(s, m)[i] = s[i]
  BY <1>1, TakeFacts, LenProperties DEF Bytes
<1>3. /\ Drop(s, k) \in Bytes /\ DOMAIN Drop(s, k) = 1..(Len(s) - k)
      /\ \A i \in 1..(Len(s) - k) : Drop(s, k)[i] = s[i + k]
  BY DropFacts, LenProperties DEF Bytes
<1>4. \A i, j \in 1..Len(s) : i < j => s[i] < s[j]
  BY <1>1 DEF InOrder
<1>5. InOrder(Take(s, m))
  BY <1>1, <1>2, <1>4 DEF InOrder
<1>6. InOrder(Drop(s, k))
  <2> SUFFICES ASSUME NEW i \in 1..(Len(s) - k), NEW j \in 1..(Len(s) - k), i < j
               PROVE  s[i + k] < s[j + k]
    BY <1>3 DEF InOrder
  <2> QED
    BY <1>1, <1>4
<1>7. Below(Take(s, m), Drop(s, k))
  <2> SUFFICES ASSUME NEW i \in 1..m, NEW j \in 1..(Len(s) - k)
               PROVE  s[i] < s[j + k]
    BY <1>2, <1>3 DEF Below
  <2> QED
    BY <1>1, <1>4
<1> QED
  BY <1>2, <1>3, <1>5, <1>6, <1>7

\* Parts of a sequence keep its bounds.
LEMMA CutBounds ==
  ASSUME NEW s \in Bytes, NEW u \in Bytes, NEW n \in Nat, NEW k \in 0..Len(s)
  PROVE  /\ Below(s, u) => Below(Take(s, k), u) /\ Below(Drop(s, k), u)
         /\ Below(u, s) => Below(u, Take(s, k)) /\ Below(u, Drop(s, k))
         /\ Within(s, n) => Within(Take(s, k), n) /\ Within(Drop(s, k), n)
<1>1. DOMAIN s = 1..Len(s) /\ Len(s) \in Nat
  BY LenProperties DEF Bytes
<1>2. DOMAIN Take(s, k) = 1..k /\ \A i \in 1..k : Take(s, k)[i] = s[i]
  BY TakeFacts, LenProperties DEF Bytes
<1>3. /\ DOMAIN Drop(s, k) = 1..(Len(s) - k)
      /\ \A i \in 1..(Len(s) - k) : Drop(s, k)[i] = s[i + k]
  BY DropFacts, LenProperties DEF Bytes
<1>4. /\ \A i \in DOMAIN Take(s, k) : i \in DOMAIN s /\ Take(s, k)[i] = s[i]
      /\ \A i \in DOMAIN Drop(s, k) : i + k \in DOMAIN s /\ Drop(s, k)[i] = s[i + k]
  BY <1>1, <1>2, <1>3
<1>5. /\ Below(s, u) => Below(Take(s, k), u) /\ Below(Drop(s, k), u)
      /\ Below(u, s) => Below(u, Take(s, k)) /\ Below(u, Drop(s, k))
  BY <1>4 DEF Below
<1>6. Within(s, n) => Within(Take(s, k), n) /\ Within(Drop(s, k), n)
  BY <1>4 DEF Within
<1> QED
  BY <1>5, <1>6

\* New bytes are in order, above all earlier ones and within the new count.
LEMMA NewBytesOrder ==
  ASSUME NEW s \in Bytes, NEW n \in Nat, NEW k \in Nat, Within(s, n)
  PROVE  /\ NewBytes(n, k) \in Bytes /\ InOrder(NewBytes(n, k))
         /\ Below(s, NewBytes(n, k)) /\ Within(NewBytes(n, k), n + k)
         /\ Within(s, n + k)
<1>1. /\ NewBytes(n, k) \in Bytes /\ DOMAIN NewBytes(n, k) = 1..k
      /\ \A i \in 1..k : NewBytes(n, k)[i] = n + i
  BY NewBytesFacts, LenProperties DEF Bytes
<1> QED
  BY <1>1 DEF InOrder, Below, Within

-----------------------------------------------------------------------------
(* What a stage may do to a pipeline.                                      *)

\* k more bytes are produced: they are appended, or lost.
LEMMA FlowProduce ==
  ASSUME NEW a, NEW b, NEW c, NEW n \in Nat, NEW k \in Nat, Flows(a, b, c, n)
  PROVE  /\ Flows(a, b, c \o NewBytes(n, k), n + k)
         /\ Flows(a, b, c, n + k)
<1> DEFINE new == NewBytes(n, k)
<1>1. a \in Bytes /\ b \in Bytes /\ c \in Bytes
  BY DEF Flows
<1>2. /\ new \in Bytes /\ InOrder(new) /\ Within(new, n + k)
      /\ Below(a, new) /\ Below(b, new) /\ Below(c, new)
      /\ Within(a, n + k) /\ Within(b, n + k) /\ Within(c, n + k)
  BY <1>1, NewBytesOrder DEF Flows
<1>3. c \o new \in Bytes /\ InOrder(c \o new)
  BY <1>1, <1>2, ConcatFacts, OrderConcat DEF Flows
<1>4. n + k \in Nat
  OBVIOUS
<1>5. Below(a, c \o new) /\ Below(b, c \o new) /\ Within(c \o new, n + k)
  BY <1>1, <1>2, <1>4, ConcatBounds DEF Flows
<1> QED
  BY <1>2, <1>3, <1>5 DEF Flows

\* Of the first k bytes that wait, m move on; the others are lost.
LEMMA FlowMove ==
  ASSUME NEW a, NEW b, NEW c, NEW n \in Nat, Flows(a, b, c, n),
         NEW k \in 0..Len(c), NEW m \in 0..k
  PROVE  Flows(a, b \o Take(c, m), Drop(c, k), n)
<1>1. a \in Bytes /\ b \in Bytes /\ c \in Bytes /\ Len(c) \in Nat
  BY DEF Flows, Bytes
<1>2. /\ Take(c, m) \in Bytes /\ Drop(c, k) \in Bytes
      /\ InOrder(Take(c, m)) /\ InOrder(Drop(c, k)) /\ Below(Take(c, m), Drop(c, k))
  BY <1>1, CutOrder DEF Flows
<1>3. /\ Below(a, Take(c, m)) /\ Below(b, Take(c, m)) /\ Within(Take(c, m), n)
      /\ Below(a, Drop(c, k)) /\ Below(b, Drop(c, k)) /\ Within(Drop(c, k), n)
  <2>1. m \in 0..Len(c)
    BY <1>1
  <2> QED
    BY <1>1, <2>1, CutBounds DEF Flows
<1>4. b \o Take(c, m) \in Bytes /\ InOrder(b \o Take(c, m))
  BY <1>1, <1>2, <1>3, ConcatFacts, OrderConcat DEF Flows
<1>5. /\ Below(a, b \o Take(c, m)) /\ Below(b \o Take(c, m), Drop(c, k))
      /\ Within(b \o Take(c, m), n)
  BY <1>1, <1>2, <1>3, ConcatBounds DEF Flows
<1> QED
  BY <1>2, <1>3, <1>4, <1>5 DEF Flows

\* The first k bytes of the middle stage leave.
LEMMA FlowLeave ==
  ASSUME NEW a, NEW b, NEW c, NEW n \in Nat, Flows(a, b, c, n), NEW k \in 0..Len(b)
  PROVE  Flows(a \o Take(b, k), Drop(b, k), c, n)
<1>1. a \in Bytes /\ b \in Bytes /\ c \in Bytes /\ k \in 0..k
  BY DEF Flows
<1>2. /\ Take(b, k) \in Bytes /\ Drop(b, k) \in Bytes
      /\ InOrder(Take(b, k)) /\ InOrder(Drop(b, k)) /\ Below(Take(b, k), Drop(b, k))
  BY <1>1, CutOrder DEF Flows
<1>3. /\ Below(a, Take(b, k)) /\ Below(Take(b, k), c) /\ Within(Take(b, k), n)
      /\ Below(a, Drop(b, k)) /\ Below(Drop(b, k), c) /\ Within(Drop(b, k), n)
  BY <1>1, CutBounds DEF Flows
<1>4. a \o Take(b, k) \in Bytes /\ InOrder(a \o Take(b, k))
  BY <1>1, <1>2, <1>3, ConcatFacts, OrderConcat DEF Flows
<1>5. /\ Below(a \o Take(b, k), Drop(b, k)) /\ Below(a \o Take(b, k), c)
      /\ Within(a \o Take(b, k), n)
  BY <1>1, <1>2, <1>3, ConcatBounds DEF Flows
<1> QED
  BY <1>2, <1>3, <1>4, <1>5 DEF Flows

\* What waits is lost.
LEMMA FlowLose ==
  ASSUME NEW a, NEW b, NEW c, NEW n, Flows(a, b, c, n)
  PROVE  Flows(a, <<>>, c, n) /\ Flows(a, b, <<>>, n) /\ Flows(a, <<>>, <<>>, n)
<1>1. <<>> \in Bytes /\ DOMAIN <<>> = {}
  BY EmptySeq, LenProperties DEF Bytes
<1> QED
  BY <1>1 DEF Flows, InOrder, Below, Within

-----------------------------------------------------------------------------
(* Type correctness.                                                       *)

LEMMA Constants ==
  /\ RingCap \in Nat \ {0} /\ SockCap \in Nat \ {0} /\ Chunk \in Nat \ {0}
  /\ MaxDown \in Nat /\ MaxUp \in Nat
BY BoundsAssumption

\* One send to the client: of the first n bytes of the ring, those that fit.
LEMMA DrainMoves ==
  ASSUME TypeOK, Drain
  PROVE  \E n \in 1..Len(ring) : \E m \in 0..n :
           /\ m <= SockCap - Len(wire)
           /\ wire' = wire \o Take(ring, m)
           /\ ring' = Drop(ring, n)
<1>1. PICK n \in 1..Len(ring) :
        /\ wire' = wire \o Take(ring, Least(n, SockCap - Len(wire)))
        /\ ring' = Drop(ring, n)
  BY DEF Drain
<1>2. Len(wire) \in Nat /\ Len(ring) \in Nat /\ Len(wire) <= SockCap
  BY DEF TypeOK, Bytes
<1>3. /\ Least(n, SockCap - Len(wire)) \in 0..n
      /\ Least(n, SockCap - Len(wire)) <= SockCap - Len(wire)
  BY <1>2, Constants DEF Least
<1> QED
  BY <1>1, <1>3

\* One recv: the first bytes that wait, at most a chunk of them, go to buf.
LEMMA RecvMoves ==
  ASSUME TypeOK, Recv, inbox # <<>>
  PROVE  \E n \in 1..Len(inbox) :
           /\ n <= Chunk
           /\ buf' = Take(inbox, n) /\ buf' \in Bytes /\ Len(buf') = n
           /\ inbox' = Drop(inbox, n)
           /\ pc' = "write"
           /\ UNCHANGED <<slot, wire>>
<1> DEFINE n == Least(Chunk, Len(inbox))
<1>1. inbox \in Bytes /\ Len(inbox) \in Nat \ {0}
  BY EmptySeq DEF TypeOK, Bytes
<1>2. n \in 1..Len(inbox) /\ n <= Chunk
  BY <1>1, Constants DEF Least
<1>3. buf' = Take(inbox, n) /\ inbox' = Drop(inbox, Len(buf')) /\ pc' = "write" /\ UNCHANGED <<slot, wire>>
  BY DEF Recv
<1>4. buf' \in Bytes /\ Len(buf') = n
  BY <1>1, <1>2, <1>3, TakeFacts
<1> QED
  BY <1>2, <1>3, <1>4

\* The loop task's steps keep the types.
LEMMA TypeService == TypeOK /\ TcpService => TypeOK'
<1> SUFFICES ASSUME TypeOK, TcpService PROVE TypeOK'
  OBVIOUS
<1>0. <<>> \in Bytes /\ Len(<<>>) = 0
  BY EmptySeq DEF Bytes
<1>1. CASE Setup
  BY <1>1 DEF TypeOK, Setup, link
<1>2. CASE Accept
  BY <1>2 DEF TypeOK, Accept, link
<1>3. CASE Enter
  BY <1>3 DEF TypeOK, Enter, link, server
<1>4. CASE Drain
  <2>0. PICK n \in 1..Len(ring) : \E m \in 0..n :
          /\ m <= SockCap - Len(wire)
          /\ wire' = wire \o Take(ring, m) /\ ring' = Drop(ring, n)
    BY <1>4, DrainMoves
  <2>1. PICK m \in 0..n :
          /\ m <= SockCap - Len(wire)
          /\ wire' = wire \o Take(ring, m) /\ ring' = Drop(ring, n)
    BY <2>0
  <2>2. ring \in Bytes /\ wire \in Bytes /\ Len(ring) \in Nat /\ Len(wire) \in Nat
    BY DEF TypeOK, Bytes
  <2>3. Take(ring, m) \in Bytes /\ Len(Take(ring, m)) = m
    BY <2>2, TakeFacts
  <2>4. wire' \in Bytes /\ Len(wire') <= SockCap
    BY <2>1, <2>2, <2>3, ConcatFacts, Constants
  <2>5. ring' \in Bytes /\ Len(ring') <= RingCap
    BY <2>1, <2>2, DropFacts, Constants DEF TypeOK
  <2>6. pc' \in {"uplink", "drain"} /\ slot = "live"
    BY <1>4 DEF Drain
  <2> QED
    BY <1>4, <2>4, <2>5, <2>6 DEF TypeOK, Drain, link, server
<1>5. CASE DrainToNobody
  <2>1. PICK n \in 1..Len(ring) : ring' = Drop(ring, n)
    BY <1>5 DEF DrainToNobody
  <2>2. ring \in Bytes /\ Len(ring) \in Nat
    BY DEF TypeOK, Bytes
  <2>3. ring' \in Bytes /\ Len(ring') <= RingCap
    BY <2>1, <2>2, DropFacts, Constants DEF TypeOK
  <2>4. \/ slot' \in {"left", "reset"} /\ pc' = pc /\ wire' = wire /\ inbox' \in {inbox, <<>>}
        \/ slot' = "none" /\ pc' = "top" /\ wire' = <<>> /\ inbox' = <<>>
    BY <1>5 DEF DrainToNobody, FreeSlot, KeepSlot
  <2>5. pc = "drain" /\ broken' \in {broken, TRUE} /\ UNCHANGED <<listening, queue, buf, link, down, up, toClient, toDevice, unsent>>
    BY <1>5 DEF DrainToNobody
  <2>6. /\ slot' \in {"none", "left", "reset"} /\ pc' \in {"top", "drain"}
        /\ wire' \in Bytes /\ Len(wire') <= SockCap /\ inbox' \in Bytes
        /\ slot' = "none" => pc' = "top"
    BY <1>0, <2>4, <2>5, Constants DEF TypeOK
  <2> QED
    BY <2>3, <2>5, <2>6 DEF TypeOK, link
<1>6. CASE DrainDone
  BY <1>6 DEF TypeOK, DrainDone, link, server
<1>7. CASE Recv
  <2>1. CASE inbox # <<>>
    <3>1. PICK n \in 1..Len(inbox) :
            /\ n <= Chunk
            /\ buf' \in Bytes /\ Len(buf') = n
            /\ inbox' = Drop(inbox, n) /\ pc' = "write" /\ UNCHANGED <<slot, wire>>
      BY <1>7, <2>1, RecvMoves
    <3>2. inbox \in Bytes /\ Len(inbox) \in Nat
      BY DEF TypeOK, Bytes
    <3>3. inbox' \in Bytes
      BY <3>1, <3>2, DropFacts
    <3>4. buf' # <<>> /\ slot' # "none"
      BY <1>0, <1>7, <3>1 DEF TypeOK, Recv
    <3> QED
      BY <1>7, <3>1, <3>3, <3>4 DEF TypeOK, Recv, link
  <2>2. CASE inbox = <<>>
    BY <1>0, <1>7, <2>2, Constants DEF TypeOK, Recv, FreeSlot, KeepSlot, link
  <2> QED
    BY <2>1, <2>2
<1>8. CASE Probe
  BY <1>0, <1>8, Constants DEF TypeOK, Probe, FreeSlot, KeepSlot, link
<1>9. CASE Write
  <2>1. toDevice' \in Bytes /\ unsent' \subseteq Nat
    <3>1. \A i \in DOMAIN buf : buf[i] \in Nat
      BY LenProperties, ElementOfSeq DEF TypeOK, Bytes
    <3> QED
      BY <1>9, <3>1, ConcatFacts DEF TypeOK, Write, ToSet
  <2> QED
    BY <1>0, <1>9, <2>1, Constants DEF TypeOK, Write, link, server
<1>10. CASE Refused
  BY <1>10 DEF TypeOK, Refused, server
<1> QED
  BY <1>1, <1>2, <1>3, <1>4, <1>5, <1>6, <1>7, <1>8, <1>9, <1>10 DEF TcpService

\* So do the Bluedroid task's.
LEMMA TypeEvent == TypeOK /\ SppEvent => TypeOK'
<1> SUFFICES ASSUME TypeOK, SppEvent PROVE TypeOK'
  OBVIOUS
<1>1. CASE OpenEvt
  BY <1>1 DEF TypeOK, OpenEvt, server, service
<1>2. CASE CloseEvt
  BY <1>2 DEF TypeOK, CloseEvt, server, service
<1>3. CASE WriteEvt
  BY <1>3 DEF TypeOK, WriteEvt, server, service
<1>4. ASSUME NEW cong \in BOOLEAN, CongEvt(cong) PROVE TypeOK'
  BY <1>4 DEF TypeOK, CongEvt, server, service
<1>5. ASSUME NEW n \in 1..Chunk, DataInd(n) PROVE TypeOK'
  <2>1. n \in Nat /\ down' = down + n /\ down' \in 0..MaxDown /\ down \in Nat
    BY <1>5, Constants DEF TypeOK, DataInd
  <2>2. NewBytes(down, n) \in Bytes /\ Len(NewBytes(down, n)) = n
    BY <2>1, NewBytesFacts
  <2>3. ring' \in Bytes /\ Len(ring') <= RingCap
    <3>1. ring \in Bytes /\ Len(ring) <= RingCap
      BY DEF TypeOK
    <3>2. /\ ring \o NewBytes(down, n) \in Bytes
          /\ Len(ring \o NewBytes(down, n)) = Len(ring) + n
      BY <2>2, <3>1, ConcatFacts
    <3>3. ring' = IF Len(ring) + n <= RingCap THEN ring \o NewBytes(down, n) ELSE ring
      BY <1>5 DEF DataInd
    <3> QED
      BY <3>1, <3>2, <3>3
  <2> QED
    BY <1>5, <2>1, <2>3 DEF TypeOK, DataInd, server, service, link
<1> QED
  BY <1>1, <1>2, <1>3, <1>4, <1>5 DEF SppEvent

\* And the clients'.
LEMMA TypeClient == TypeOK /\ Client => TypeOK'
<1> SUFFICES ASSUME TypeOK, Client PROVE TypeOK'
  OBVIOUS
<1>0. <<>> \in Bytes
  BY EmptySeq DEF Bytes
<1>1. CASE Connect
  BY <1>1 DEF TypeOK, Connect, service, link
<1>2. CASE ClientSend
  <2>1. up' \in 0..MaxUp /\ up' \in Nat
    BY <1>2, Constants DEF TypeOK, ClientSend
  <2>2. inbox' \in Bytes
    BY <1>2, <2>1, AppendProperties DEF TypeOK, ClientSend, Bytes
  <2> QED
    BY <1>2, <2>1, <2>2 DEF TypeOK, ClientSend, server, service, link
<1>3. CASE ClientRead
  <2>1. PICK n \in 1..Len(wire) : toClient' = toClient \o Take(wire, n) /\ wire' = Drop(wire, n)
    BY <1>3 DEF ClientRead
  <2>2. wire \in Bytes /\ Len(wire) \in Nat
    BY DEF TypeOK, Bytes
  <2>3. Take(wire, n) \in Bytes /\ wire' \in Bytes /\ Len(wire') = Len(wire) - n
    BY <2>1, <2>2, TakeFacts, DropFacts
  <2>4. toClient' \in Bytes /\ Len(wire') <= SockCap
    BY <2>1, <2>2, <2>3, ConcatFacts, Constants DEF TypeOK
  <2> QED
    BY <1>3, <2>3, <2>4 DEF TypeOK, ClientRead, server, service, link
<1>4. CASE ClientLeave
  BY <1>4 DEF TypeOK, ClientLeave, service, link
<1>5. CASE ClientReset
  BY <1>0, <1>5 DEF TypeOK, ClientReset, service, link
<1> QED
  BY <1>1, <1>2, <1>3, <1>4, <1>5 DEF Client

LEMMA TypeInit == Init => TypeOK
<1> SUFFICES ASSUME Init PROVE TypeOK
  OBVIOUS
<1>1. <<>> \in Bytes /\ Len(<<>>) = 0
  BY EmptySeq DEF Bytes
<1>2. /\ Len(<<>>) <= RingCap /\ Len(<<>>) <= SockCap /\ Len(<<>>) <= Chunk
      /\ 0 \in 0..MaxDown /\ 0 \in 0..MaxUp
  BY <1>1, Constants
<1>3. /\ ring \in Bytes /\ Len(ring) <= RingCap
      /\ wire \in Bytes /\ Len(wire) <= SockCap
      /\ buf \in Bytes /\ Len(buf) <= Chunk
      /\ inbox \in Bytes /\ toClient \in Bytes /\ toDevice \in Bytes
  BY <1>1, <1>2 DEF Init
<1>4. /\ slot = "none" /\ queue \in 0..1 /\ pc = "top" /\ buf = <<>>
      /\ down \in 0..MaxDown /\ up \in 0..MaxUp /\ unsent \subseteq Nat
  BY <1>2 DEF Init
<1>5. listening = FALSE /\ open = FALSE /\ congested = FALSE /\ stalled = FALSE /\ broken = FALSE
  BY DEF Init
<1>6. listening \in BOOLEAN /\ {open, congested, stalled, broken} \subseteq BOOLEAN
  BY <1>5
<1> QED
  BY <1>3, <1>4, <1>6 DEF TypeOK

LEMMA TypeStep == TypeOK /\ [Next]_vars => TypeOK'
<1>1. TypeOK /\ UNCHANGED vars => TypeOK'
  BY DEF TypeOK, vars
<1> QED
  BY <1>1, TypeService, TypeEvent, TypeClient DEF Next

\* Ring and socket never hold more than they can, and between two passes over the
\* client nothing recv'd waits to be written.
THEOREM TypeCorrect == Spec => []TypeOK
BY TypeInit, TypeStep, PTL DEF Spec

-----------------------------------------------------------------------------
(* Order.                                                                  *)

\* The order of both directions, and where a byte on its way to the device is safe.
DownInv == Flows(toClient, wire, ring, down)
UpInv == Flows(toDevice, buf, inbox, up)

PipeInv ==
  /\ TypeOK
  /\ DownInv
  /\ UpInv

\* A byte that is dropped from the front of what waits disturbs nothing.
LEMMA FlowDrop ==
  ASSUME NEW a, NEW b, NEW c, NEW n \in Nat, Flows(a, b, c, n), NEW k \in 0..Len(c)
  PROVE  Flows(a, b, Drop(c, k), n)
<1>1. 0 \in 0..k /\ Take(c, 0) = <<>>
  BY SubSeqEmpty DEF Take
<1>2. Flows(a, b \o Take(c, 0), Drop(c, k), n)
  BY <1>1, FlowMove
<1>3. b \o <<>> = b
  BY ConcatEmptySeq DEF Flows, Bytes
<1> QED
  BY <1>1, <1>2, <1>3

\* The next byte of a client, appended.
LEMMA AppendNew ==
  ASSUME NEW s \in Bytes, NEW n \in Nat
  PROVE  Append(s, n + 1) = s \o NewBytes(n, 1)
<1>1. NewBytes(n, 1) = <<n + 1>>
  BY DEF NewBytes
<1>2. s \in Seq(Nat) /\ n + 1 \in Nat
  BY DEF Bytes
<1> QED
  BY <1>1, <1>2, AppendIsConcat

LEMMA DownStep == TypeOK /\ DownInv /\ [Next]_vars => DownInv'
<1> SUFFICES ASSUME TypeOK, DownInv, [Next]_vars PROVE DownInv'
  OBVIOUS
<1> DEFINE data == <<toClient, wire, ring, down>>
<1>0. down \in Nat /\ ring \in Bytes /\ wire \in Bytes /\ Len(ring) \in Nat /\ Len(wire) \in Nat
  BY Constants DEF TypeOK, Bytes
<1>1. CASE UNCHANGED data
  BY <1>1 DEF DownInv
<1>2. CASE Drain
  <2>1. PICK n \in 1..Len(ring) : \E m \in 0..n : wire' = wire \o Take(ring, m) /\ ring' = Drop(ring, n)
    BY <1>2, DrainMoves
  <2>2. PICK m \in 0..n : wire' = wire \o Take(ring, m) /\ ring' = Drop(ring, n)
    BY <2>1
  <2>3. Flows(toClient, wire \o Take(ring, m), Drop(ring, n), down)
    BY <1>0, FlowMove DEF DownInv
  <2> QED
    BY <1>2, <2>2, <2>3 DEF DownInv, Drain
<1>3. CASE DrainToNobody
  <2>1. PICK n \in 1..Len(ring) : ring' = Drop(ring, n)
    BY <1>3 DEF DrainToNobody
  <2>2. Flows(toClient, wire, Drop(ring, n), down)
    BY <1>0, FlowDrop DEF DownInv
  <2>3. Flows(toClient, <<>>, Drop(ring, n), down)
    BY <2>2, FlowLose
  <2>4. wire' \in {wire, <<>>} /\ UNCHANGED <<toClient, down>>
    BY <1>3 DEF DrainToNobody, FreeSlot, KeepSlot
  <2> QED
    BY <2>1, <2>2, <2>3, <2>4 DEF DownInv
<1>4. CASE Recv \/ Probe
  <2>1. wire' \in {wire, <<>>} /\ UNCHANGED <<toClient, ring, down>>
    BY <1>4 DEF Recv, Probe, FreeSlot, KeepSlot
  <2>2. Flows(toClient, <<>>, ring, down)
    BY FlowLose DEF DownInv
  <2> QED
    BY <2>1, <2>2 DEF DownInv
<1>5. ASSUME NEW n \in 1..Chunk, DataInd(n) PROVE DownInv'
  <2>1. n \in Nat
    BY Constants
  <2>2. Flows(toClient, wire, ring \o NewBytes(down, n), down + n) /\ Flows(toClient, wire, ring, down + n)
    BY <1>0, <2>1, FlowProduce DEF DownInv
  <2>3. /\ down' = down + n /\ UNCHANGED <<toClient, wire>>
        /\ ring' \in {ring \o NewBytes(down, n), ring}
    BY <1>5 DEF DataInd
  <2> QED
    BY <2>2, <2>3 DEF DownInv
<1>6. CASE ClientRead
  <2>1. PICK n \in 1..Len(wire) : toClient' = toClient \o Take(wire, n) /\ wire' = Drop(wire, n)
    BY <1>6 DEF ClientRead
  <2>2. Flows(toClient \o Take(wire, n), Drop(wire, n), ring, down)
    BY <1>0, FlowLeave DEF DownInv
  <2> QED
    BY <1>6, <2>1, <2>2 DEF DownInv, ClientRead
<1>7. CASE Setup \/ Accept \/ Enter \/ DrainDone \/ Write \/ Refused
  BY <1>1, <1>7 DEF Setup, Accept, Enter, DrainDone, Write, Refused
<1>8. CASE OpenEvt \/ CloseEvt \/ WriteEvt \/ \E cong \in BOOLEAN : CongEvt(cong)
  BY <1>1, <1>8 DEF OpenEvt, CloseEvt, WriteEvt, CongEvt
<1>9. CASE Connect \/ ClientSend \/ ClientLeave \/ ClientReset
  BY <1>1, <1>9 DEF Connect, ClientSend, ClientLeave, ClientReset
<1>10. CASE UNCHANGED vars
  BY <1>1, <1>10 DEF vars
<1> QED
  BY <1>2, <1>3, <1>4, <1>5, <1>6, <1>7, <1>8, <1>9, <1>10 DEF Next, TcpService, SppEvent, Client

LEMMA UpStep == TypeOK /\ UpInv /\ [Next]_vars => UpInv'
<1> SUFFICES ASSUME TypeOK, UpInv, [Next]_vars PROVE UpInv'
  OBVIOUS
<1> DEFINE data == <<toDevice, buf, inbox, up>>
<1>0. up \in Nat /\ buf \in Bytes /\ inbox \in Bytes /\ Len(buf) \in Nat /\ Len(inbox) \in Nat
  BY Constants DEF TypeOK, Bytes
<1>1. CASE UNCHANGED data
  BY <1>1 DEF UpInv
<1>2. CASE UNCHANGED <<toDevice, buf, up>> /\ inbox' = <<>>
  BY <1>2, FlowLose DEF UpInv
<1>3. CASE DrainToNobody \/ Probe \/ ClientReset
  <2>1. inbox' \in {inbox, <<>>} /\ UNCHANGED <<toDevice, buf, up>>
    BY <1>3 DEF DrainToNobody, Probe, ClientReset, FreeSlot, KeepSlot, service
  <2> QED
    BY <1>1, <1>2, <2>1
<1>4. CASE Recv
  <2>1. buf = <<>> /\ UNCHANGED <<toDevice, up>>
    BY <1>4 DEF TypeOK, Recv
  <2>2. CASE inbox # <<>>
    <3>1. PICK n \in 1..Len(inbox) : buf' = Take(inbox, n) /\ inbox' = Drop(inbox, n)
      BY <1>4, <2>2, RecvMoves
    <3>2. Flows(toDevice, buf \o Take(inbox, n), Drop(inbox, n), up)
      BY <1>0, FlowMove DEF UpInv
    <3>3. buf \o Take(inbox, n) = Take(inbox, n)
      BY <1>0, <2>1, TakeFacts, ConcatEmptySeq DEF Bytes
    <3> QED
      BY <2>1, <3>1, <3>2, <3>3 DEF UpInv
  <2>3. CASE inbox = <<>>
    BY <1>1, <1>4, <2>1, <2>3 DEF Recv, FreeSlot, KeepSlot
  <2> QED
    BY <2>2, <2>3
<1>5. CASE Write
  <2>1. Flows(toDevice \o Take(buf, Len(buf)), Drop(buf, Len(buf)), inbox, up)
    BY <1>0, FlowLeave DEF UpInv
  <2>2. Take(buf, Len(buf)) = buf /\ Drop(buf, Len(buf)) = <<>>
    BY <1>0, SubSeqFull, SubSeqEmpty DEF Take, Drop, Bytes
  <2>3. Flows(toDevice, <<>>, inbox, up)
    BY FlowLose DEF UpInv
  <2>4. toDevice' \in {toDevice, toDevice \o buf} /\ buf' = <<>> /\ UNCHANGED <<inbox, up>>
    BY <1>5 DEF Write
  <2> QED
    BY <2>1, <2>2, <2>3, <2>4 DEF UpInv
<1>6. CASE ClientSend
  <2>1. up' = up + 1 /\ inbox' = inbox \o NewBytes(up, 1) /\ UNCHANGED <<toDevice, buf>>
    BY <1>0, <1>6, AppendNew DEF ClientSend, service
  <2>2. Flows(toDevice, buf, inbox \o NewBytes(up, 1), up + 1)
    BY <1>0, FlowProduce DEF UpInv
  <2> QED
    BY <2>1, <2>2 DEF UpInv
<1>7. CASE Setup \/ Accept \/ Enter \/ Drain \/ DrainDone \/ Refused
  BY <1>1, <1>7 DEF Setup, Accept, Enter, Drain, DrainDone, Refused
<1>8. CASE OpenEvt \/ CloseEvt \/ WriteEvt \/ (\E cong \in BOOLEAN : CongEvt(cong)) \/ \E n \in 1..Chunk : DataInd(n)
  BY <1>1, <1>8 DEF OpenEvt, CloseEvt, WriteEvt, CongEvt, DataInd, service
<1>9. CASE Connect \/ ClientRead \/ ClientLeave
  BY <1>1, <1>9 DEF Connect, ClientRead, ClientLeave, service
<1>10. CASE UNCHANGED vars
  BY <1>1, <1>10 DEF vars
<1> QED
  BY <1>3, <1>4, <1>5, <1>6, <1>7, <1>8, <1>9, <1>10 DEF Next, TcpService, SppEvent, Client

LEMMA PipeInit == Init => PipeInv
<1> SUFFICES ASSUME Init PROVE PipeInv
  OBVIOUS
<1>1. <<>> \in Bytes /\ DOMAIN <<>> = {}
  BY EmptySeq, LenProperties DEF Bytes
<1>2. Flows(<<>>, <<>>, <<>>, 0)
  BY <1>1 DEF Flows, InOrder, Below, Within
<1> QED
  BY <1>2, TypeInit DEF Init, PipeInv, DownInv, UpInv

\* Bytes in the two pipelines are in order, over any number of clients and links.
THEOREM PipesInOrder == Spec => []PipeInv
<1>1. PipeInv /\ [Next]_vars => PipeInv'
  BY TypeStep, DownStep, UpStep DEF PipeInv
<1> QED
  BY <1>1, PipeInit, PTL DEF Spec

-----------------------------------------------------------------------------
(* The pipelines implement BytePipe.                                       *)

\* A sequence is a strict prefix of itself with something behind it.
LEMMA ConcatExtends ==
  ASSUME NEW s \in Bytes, NEW t \in Bytes, t # <<>>
  PROVE  IsStrictPrefix(s, s \o t)
<1>1. s \in Seq(Nat) /\ t \in Seq(Nat) /\ Len(s) \in Nat /\ Len(t) \in Nat
  BY DEF Bytes
<1>2. Len(s \o t) = Len(s) + Len(t)
  BY ConcatFacts
<1>3. SubSeq(s, 1, Len(s)) = SubSeq(s \o t, 1, Len(s))
  <2>1. CASE Len(s) = 0
    BY <2>1, SubSeqEmpty
  <2>2. CASE Len(s) # 0
    <3>1. 1 \in 1..Len(s) /\ Len(s) \in 1..Len(s)
      BY <1>1, <2>2
    <3> QED
      BY <1>1, <3>1, SubSeqOfConcat1
  <2> QED
    BY <2>1, <2>2
<1>4. s # s \o t
  BY <1>1, ConcatEqualIffEmpty
<1> QED
  BY <1>1, <1>2, <1>3, <1>4 DEF IsStrictPrefix, IsPrefix

\* The next bytes may leave when they extend what has left and stay in order.
LEMMA DownRefines ==
  ASSUME TypeOK, DownInv, [Next]_vars, DownInv'
  PROVE  [DownPipe!Next]_<<down, toClient>>
<1>1. CASE UNCHANGED <<down, toClient>>
  BY <1>1
<1>2. ASSUME NEW n \in 1..Chunk, DataInd(n) PROVE DownPipe!Enter
  BY <1>2, Constants DEF DataInd, TypeOK, DownPipe!Enter
<1>3. CASE ClientRead
  <2>1. PICK n \in 1..Len(wire) : toClient' = toClient \o Take(wire, n)
    BY <1>3 DEF ClientRead
  <2>2. wire \in Bytes /\ toClient \in Bytes /\ Len(wire) \in Nat
    BY DEF TypeOK, Bytes
  <2>3. Take(wire, n) \in Bytes /\ Take(wire, n) # <<>>
    BY <2>2, TakeFacts, EmptySeq
  <2>4. IsStrictPrefix(toClient, toClient')
    BY <2>1, <2>2, <2>3, ConcatExtends
  <2>5. InOrder(toClient') /\ Within(toClient', down') /\ UNCHANGED down
    BY <1>3 DEF ClientRead, DownInv, Flows
  <2> QED
    BY <2>4, <2>5 DEF DownPipe!Next, DownPipe!Leave, DownPipe!InOrder, DownPipe!IsStrictPrefix, DownPipe!IsPrefix,
                      InOrder, Within, IsStrictPrefix, IsPrefix
<1>4. CASE TcpService
  BY <1>1, <1>4 DEF TcpService, Setup, Accept, Enter, Drain, DrainToNobody, DrainDone, Recv, Probe, Write, Refused
<1>5. CASE OpenEvt \/ CloseEvt \/ WriteEvt \/ \E cong \in BOOLEAN : CongEvt(cong)
  BY <1>1, <1>5 DEF OpenEvt, CloseEvt, WriteEvt, CongEvt
<1>6. CASE Connect \/ ClientSend \/ ClientLeave \/ ClientReset
  BY <1>1, <1>6 DEF Connect, ClientSend, ClientLeave, ClientReset
<1>7. CASE UNCHANGED vars
  BY <1>1, <1>7 DEF vars
<1> QED
  BY <1>2, <1>3, <1>4, <1>5, <1>6, <1>7 DEF Next, SppEvent, Client, DownPipe!Next

LEMMA UpRefines ==
  ASSUME TypeOK, UpInv, [Next]_vars, UpInv'
  PROVE  [UpPipe!Next]_<<up, toDevice>>
<1>1. CASE UNCHANGED <<up, toDevice>>
  BY <1>1
<1>2. CASE ClientSend
  BY <1>2, Constants DEF ClientSend, TypeOK, UpPipe!Next, UpPipe!Enter
<1>3. CASE Write
  <2>1. buf # <<>> /\ buf \in Bytes /\ toDevice \in Bytes /\ UNCHANGED up
    BY <1>3 DEF TypeOK, Write
  <2>2. CASE toDevice' = toDevice \o buf
    <3>1. IsStrictPrefix(toDevice, toDevice')
      BY <2>1, <2>2, ConcatExtends
    <3>2. InOrder(toDevice') /\ Within(toDevice', up')
      BY DEF UpInv, Flows
    <3> QED
      BY <2>1, <3>1, <3>2 DEF UpPipe!Next, UpPipe!Leave, UpPipe!InOrder, UpPipe!IsStrictPrefix, UpPipe!IsPrefix,
                              InOrder, Within, IsStrictPrefix, IsPrefix
  <2> QED
    BY <1>1, <1>3, <2>1, <2>2 DEF Write
<1>4. CASE Setup \/ Accept \/ Enter \/ Drain \/ DrainToNobody \/ DrainDone \/ Recv \/ Probe \/ Refused
  BY <1>1, <1>4 DEF Setup, Accept, Enter, Drain, DrainToNobody, DrainDone, Recv, Probe, Refused
<1>5. CASE SppEvent
  BY <1>1, <1>5 DEF SppEvent, OpenEvt, CloseEvt, WriteEvt, CongEvt, DataInd
<1>6. CASE Connect \/ ClientRead \/ ClientLeave \/ ClientReset
  BY <1>1, <1>6 DEF Connect, ClientRead, ClientLeave, ClientReset
<1>7. CASE UNCHANGED vars
  BY <1>1, <1>7 DEF vars
<1> QED
  BY <1>2, <1>3, <1>4, <1>5, <1>6, <1>7 DEF Next, TcpService, Client

\* Both directions are byte pipes: what comes out of them came in, in that order and
\* at most once.
THEOREM PipesRefine == Spec => BothInOrder
<1>1. Init => DownPipe!Init /\ UpPipe!Init
  BY DEF Init, DownPipe!Init, UpPipe!Init
<1>2. /\ PipeInv /\ PipeInv' /\ [Next]_vars => [DownPipe!Next]_<<down, toClient>>
      /\ PipeInv /\ PipeInv' /\ [Next]_vars => [UpPipe!Next]_<<up, toDevice>>
  BY DownRefines, UpRefines DEF PipeInv
<1> QED
  BY <1>1, <1>2, PipesInOrder, PTL DEF Spec, BothInOrder, DownPipe!Spec, UpPipe!Spec

-----------------------------------------------------------------------------
(* What the device misses was refused by the stack.                        *)

\* Consecutive new bytes make up one run of new bytes.
LEMMA NewBytesNext ==
  ASSUME NEW k \in Nat, NEW n \in Nat
  PROVE  NewBytes(k, n) \o NewBytes(k + n, 1) = NewBytes(k, n + 1)
<1> DEFINE s == NewBytes(k, n)
           t == NewBytes(k + n, 1)
           u == NewBytes(k, n + 1)
<1>1. k + n \in Nat /\ 1 \in Nat /\ n + 1 \in Nat
  OBVIOUS
<1>2. /\ s \in Seq(Nat) /\ Len(s) = n
      /\ t \in Seq(Nat) /\ Len(t) = 1
      /\ u \in Seq(Nat) /\ Len(u) = n + 1
  BY <1>1, NewBytesFacts DEF Bytes
<1>3. /\ \A i \in 1..n : s[i] = k + i
      /\ \A i \in 1..1 : t[i] = k + n + i
      /\ \A i \in 1..(n + 1) : u[i] = k + i
  BY <1>1, NewBytesFacts
<1> HIDE DEF s, t, u
<1>4. /\ s \o t \in Seq(Nat) /\ Len(s \o t) = n + 1
      /\ \A i \in 1..(n + 1) : (s \o t)[i] = IF i <= n THEN s[i] ELSE t[i - n]
  <2>1. /\ s \o t \in Seq(Nat) /\ Len(s \o t) = Len(s) + Len(t)
        /\ \A i \in 1..(Len(s) + Len(t)) : (s \o t)[i] = IF i <= Len(s) THEN s[i] ELSE t[i - Len(s)]
    BY <1>2, ConcatProperties
  <2> QED
    BY <1>2, <2>1
<1>5. ASSUME NEW i \in 1..(n + 1) PROVE (s \o t)[i] = u[i]
  <2>1. CASE i \in 1..n
    BY <1>3, <1>4, <2>1
  <2>2. CASE i = n + 1
    <3>1. i - n = 1 /\ ~(i <= n)
      BY <2>2
    <3>2. t[1] = k + n + 1 /\ u[i] = k + i
      BY <1>3
    <3>3. (s \o t)[i] = t[1]
      BY <1>4, <3>1
    <3> QED
      BY <2>2, <3>2, <3>3
  <2>3. i \in 1..n \/ i = n + 1
    OBVIOUS
  <2> QED
    BY <2>1, <2>2, <2>3
<1>6. s \o t = u
  BY <1>2, <1>4, <1>5, SeqEqual
<1> QED
  BY <1>6 DEF s, t, u

\* What is at the front of a run of new bytes, and what is left of it.
IsRun(s, t, k, n) == s \in Bytes /\ t \in Bytes /\ k \in Nat /\ n \in Nat /\ s \o t = NewBytes(k, n)

Splits(s, t, k, n) ==
  /\ Len(s) \in 0..n
  /\ ToSet(s) = (k + 1)..(k + Len(s))
  /\ t = NewBytes(k + Len(s), n - Len(s))

LEMMA RunSplits ==
  ASSUME NEW s, NEW t, NEW k, NEW n, IsRun(s, t, k, n)
  PROVE  Splits(s, t, k, n)
<1>0. s \in Bytes /\ t \in Bytes /\ k \in Nat /\ n \in Nat /\ s \o t = NewBytes(k, n)
  BY DEF IsRun
<1> DEFINE L == Len(s)
           u == NewBytes(k, n)
<1>1. /\ u \in Seq(Nat) /\ Len(u) = n /\ \A i \in 1..n : u[i] = k + i
      /\ s \in Seq(Nat) /\ t \in Seq(Nat) /\ L \in Nat /\ Len(t) \in Nat /\ DOMAIN s = 1..L
  BY <1>0, NewBytesFacts, LenProperties DEF Bytes
<1>2. Len(s \o t) = L + Len(t) /\ \A i \in 1..(L + Len(t)) : (s \o t)[i] = IF i <= L THEN s[i] ELSE t[i - L]
  BY <1>0, <1>1, ConcatProperties
<1>3. n = L + Len(t) /\ \A i \in 1..n : u[i] = IF i <= L THEN s[i] ELSE t[i - L]
  BY <1>0, <1>1, <1>2
<1> HIDE DEF L, u
<1>4. ASSUME NEW i \in 1..L PROVE s[i] = k + i
  <2>1. i \in 1..n /\ i <= L
    BY <1>0, <1>1, <1>3
  <2>2. u[i] = s[i]
    BY <1>3, <2>1
  <2>3. u[i] = k + i
    BY <1>1, <2>1
  <2> QED
    BY <2>2, <2>3
<1>5. \A i \in 1..Len(t) : t[i] = k + L + i
  <2> SUFFICES ASSUME NEW i \in 1..Len(t) PROVE t[i] = k + L + i
    OBVIOUS
  <2>1. L + i \in 1..n /\ ~(L + i <= L) /\ (L + i) - L = i
    BY <1>0, <1>1, <1>3
  <2>2. u[L + i] = t[(L + i) - L]
    BY <1>3, <2>1
  <2>3. u[L + i] = k + (L + i)
    BY <1>1, <2>1
  <2>4. k + (L + i) = k + L + i
    BY <1>0, <1>1
  <2> QED
    BY <2>1, <2>2, <2>3, <2>4
<1>6. {s[i] : i \in 1..L} = (k + 1)..(k + L)
  <2>1. ASSUME NEW x \in (k + 1)..(k + L) PROVE \E i \in 1..L : s[i] = x
    <3>1. x - k \in 1..L /\ k + (x - k) = x
      BY <1>0, <1>1
    <3> QED
      BY <1>4, <3>1
  <2>2. \A i \in 1..L : s[i] \in (k + 1)..(k + L)
    BY <1>0, <1>1, <1>4
  <2> QED
    BY <2>1, <2>2
<1>7. t = NewBytes(k + L, n - L)
  <2>1. k + L \in Nat /\ n - L \in Nat /\ n - L = Len(t)
    BY <1>0, <1>1, <1>3
  <2> DEFINE from == k + L
             v == NewBytes(from, n - L)
  <2>2. from \in Nat /\ \A i \in 1..Len(t) : t[i] = from + i
    BY <1>0, <1>5, <2>1
  <2> HIDE DEF from
  <2>3. v \in Seq(Nat) /\ Len(v) = n - L /\ \A i \in 1..(n - L) : v[i] = from + i
    BY <2>1, <2>2, NewBytesFacts DEF Bytes
  <2> HIDE DEF v
  <2>4. t = v
    BY <1>0, <1>1, <2>1, <2>2, <2>3, SeqEqual
  <2> QED
    BY <2>4 DEF v, from
<1>8. ToSet(s) = {s[i] : i \in 1..L}
  BY <1>1 DEF ToSet
<1> QED
  BY <1>0, <1>1, <1>3, <1>6, <1>7, <1>8 DEF L, Splits

\* The bytes of a concatenation are those of its two parts.
LEMMA ToSetConcat ==
  ASSUME NEW s \in Bytes, NEW t \in Bytes
  PROVE  ToSet(s \o t) = ToSet(s) \cup ToSet(t)
<1> DEFINE L == Len(s)
           M == Len(t)
<1>1. /\ s \in Seq(Nat) /\ t \in Seq(Nat) /\ s \o t \in Seq(Nat)
      /\ L \in Nat /\ M \in Nat /\ DOMAIN s = 1..L /\ DOMAIN t = 1..M
      /\ DOMAIN (s \o t) = 1..(L + M)
      /\ \A i \in 1..(L + M) : (s \o t)[i] = IF i <= L THEN s[i] ELSE t[i - L]
  BY ConcatProperties, LenProperties DEF Bytes
<1> HIDE DEF L, M
<1>2. ASSUME NEW i \in 1..(L + M) PROVE (s \o t)[i] \in ToSet(s) \cup ToSet(t)
  <2>1. CASE i <= L
    <3>1. i \in 1..L
      BY <1>1, <2>1
    <3>2. (s \o t)[i] = s[i]
      BY <1>1, <2>1
    <3> QED
      BY <1>1, <3>1, <3>2 DEF ToSet
  <2>2. CASE ~(i <= L)
    <3>1. i - L \in 1..M
      BY <1>1, <2>2
    <3>2. (s \o t)[i] = t[i - L]
      BY <1>1, <2>2
    <3> QED
      BY <1>1, <3>1, <3>2 DEF ToSet
  <2> QED
    BY <2>1, <2>2
<1>3. ASSUME NEW i \in 1..L PROVE s[i] \in ToSet(s \o t)
  BY <1>1 DEF ToSet
<1>4. ASSUME NEW i \in 1..M PROVE t[i] \in ToSet(s \o t)
  <2>1. L + i \in 1..(L + M) /\ ~(L + i <= L) /\ (L + i) - L = i
    BY <1>1
  <2> QED
    BY <1>1, <2>1 DEF ToSet
<1> QED
  BY <1>1, <1>2, <1>3, <1>4 DEF ToSet

\* The first k bytes the clients sent have each been received or refused.
Settled(k) == ToSet(toDevice) \cup unsent = 1..k /\ ToSet(toDevice) \cap unsent = {}

\* The others wait in order.
Waiting(k) == buf \o inbox = NewBytes(k, up - k)

\* Until something breaks: no connection is reset, so nothing that waits is thrown away.
Accounted ==
  ~broken => slot # "reset" /\ \E k \in 0..up : Settled(k) /\ Waiting(k)

LEMMA AccountedComplete == TypeOK /\ Accounted => UpComplete
<1> SUFFICES ASSUME TypeOK, Accounted, ~broken PROVE UpComplete
  BY DEF UpComplete
<1>0. up \in Nat
  BY Constants DEF TypeOK
<1>1. PICK k \in 0..up : Settled(k) /\ Waiting(k)
  BY DEF Accounted
<1>2. Len(buf \o inbox) = up - k
  <2>1. k \in Nat /\ up - k \in Nat
    BY <1>0
  <2> QED
    BY <1>1, <2>1, NewBytesFacts DEF Waiting
<1>3. up - Len(buf \o inbox) = k
  BY <1>0, <1>2
<1> QED
  BY <1>1, <1>2, <1>3 DEF UpComplete, Settled, Waiting

LEMMA AccountedStep == TypeOK /\ Accounted /\ [Next]_vars => Accounted'
<1> SUFFICES ASSUME TypeOK, Accounted, [Next]_vars, ~broken'
             PROVE  slot' # "reset" /\ \E k \in 0..(up') : Settled(k)' /\ Waiting(k)'
  BY DEF Accounted
<1> USE DEF server, service, link
<1>0. /\ up \in Nat /\ buf \in Bytes /\ inbox \in Bytes /\ toDevice \in Bytes
      /\ Len(inbox) \in Nat /\ Len(buf) \in Nat /\ buf \o inbox \in Bytes
  BY Constants, ConcatFacts DEF TypeOK, Bytes
<1>1. ~broken
  BY DEF Next, TcpService, Setup, Accept, Enter, Drain, DrainToNobody, DrainDone, Recv, Probe, Write, Refused,
         SppEvent, OpenEvt, CloseEvt, WriteEvt, CongEvt, DataInd,
         Client, Connect, ClientSend, ClientRead, ClientLeave, ClientReset, vars
<1>2. slot' # "reset"
  <2>1. CASE TcpService
    BY <1>1, <2>1 DEF TcpService, Setup, Accept, Enter, Drain, DrainToNobody, DrainDone, Recv, Probe, Write, Refused,
                      FreeSlot, KeepSlot, Accounted
  <2>2. CASE SppEvent \/ UNCHANGED vars
    BY <1>1, <2>2 DEF SppEvent, OpenEvt, CloseEvt, WriteEvt, CongEvt, DataInd, vars, Accounted
  <2>3. CASE Client
    BY <1>1, <2>3 DEF Client, Connect, ClientSend, ClientRead, ClientLeave, ClientReset, Accounted
  <2> QED
    BY <2>1, <2>2, <2>3 DEF Next
<1>3. PICK k \in 0..up : Settled(k) /\ Waiting(k)
  BY <1>1 DEF Accounted
<1>4. CASE UNCHANGED <<toDevice, unsent, buf, inbox, up>>
  BY <1>2, <1>3, <1>4 DEF Settled, Waiting
<1>5. CASE Recv /\ inbox # <<>>
  <2>1. PICK n \in 1..Len(inbox) : buf' = Take(inbox, n) /\ inbox' = Drop(inbox, n)
    BY <1>5, RecvMoves
  <2>2. buf = <<>> /\ UNCHANGED <<toDevice, unsent, up>>
    BY <1>5 DEF TypeOK, Recv
  <2>3. n \in 0..Len(inbox)
    OBVIOUS
  <2>4. buf' \o inbox' = inbox
    BY <1>0, <2>1, <2>3, TakeDrop
  <2>5. buf \o inbox = inbox
    BY <1>0, <2>2, ConcatEmptySeq DEF Bytes
  <2>6. Settled(k)' /\ Waiting(k)'
    BY <1>3, <2>2, <2>4, <2>5 DEF Settled, Waiting
  <2> QED
    BY <1>2, <2>2, <2>6
<1>6. CASE Write
  <2>0. /\ buf' = <<>> /\ UNCHANGED <<inbox, up>>
        /\ \/ toDevice' = toDevice \o buf /\ unsent' = unsent
           \/ toDevice' = toDevice /\ unsent' = unsent \cup ToSet(buf)
    BY <1>6 DEF Write
  <2>1. PICK n \in Nat : n = up - k
    BY <1>0
  <2>2. PICK L \in Nat : L = Len(buf)
    BY <1>0
  <2>3. k \in Nat /\ buf \o inbox = NewBytes(k, n)
    BY <1>0, <1>3, <2>1 DEF Waiting
  <2>4. /\ L \in 0..n /\ ToSet(buf) = (k + 1)..(k + L)
        /\ inbox = NewBytes(k + L, n - L)
    <3>1. /\ Len(buf) \in 0..n
          /\ ToSet(buf) = (k + 1)..(k + Len(buf))
          /\ inbox = NewBytes(k + Len(buf), n - Len(buf))
      <4>1. IsRun(buf, inbox, k, n)
        BY <1>0, <2>3 DEF IsRun
      <4>2. Splits(buf, inbox, k, n)
        BY <4>1, RunSplits
      <4> QED
        BY <4>2 DEF Splits
    <3> QED
      BY <2>2, <3>1
  <2>5. ToSet(toDevice \o buf) = ToSet(toDevice) \cup ToSet(buf)
    BY <1>0, ToSetConcat
  <2>6. k + L \in 0..(up') /\ n - L = up' - (k + L)
    BY <1>0, <2>0, <2>1, <2>3, <2>4
  <2>7. 1..k \cup (k + 1)..(k + L) = 1..(k + L) /\ 1..k \cap (k + 1)..(k + L) = {}
    BY <2>3
  <2>8. ToSet(toDevice) \cup unsent = 1..k /\ ToSet(toDevice) \cap unsent = {}
    BY <1>3 DEF Settled
  <2>9. ToSet(toDevice') \cup unsent' = 1..(k + L) /\ ToSet(toDevice') \cap unsent' = {}
    <3> DEFINE a == 1..k
               c == (k + 1)..(k + L)
               e == 1..(k + L)
    <3>1. a \cup c = e /\ a \cap c = {} /\ ToSet(buf) = c
      BY <2>4, <2>7
    <3>2. ToSet(toDevice) \cup unsent = a
      BY <2>8
    <3> HIDE DEF a, c, e
    <3>3. CASE toDevice' = toDevice \o buf /\ unsent' = unsent
      <4>1. ToSet(toDevice') = ToSet(toDevice) \cup c
        BY <2>5, <3>1, <3>3
      <4>2. ToSet(toDevice') \cup unsent' = e /\ ToSet(toDevice') \cap unsent' = {}
        BY <2>8, <3>1, <3>2, <3>3, <4>1
      <4> QED
        BY <4>2 DEF e
    <3>4. CASE toDevice' = toDevice /\ unsent' = unsent \cup ToSet(buf)
      <4>1. ToSet(toDevice') \cup unsent' = e /\ ToSet(toDevice') \cap unsent' = {}
        BY <2>8, <3>1, <3>2, <3>4
      <4> QED
        BY <4>1 DEF e
    <3> QED
      BY <2>0, <3>3, <3>4
  <2>10. Settled(k + L)'
    BY <2>9 DEF Settled
  <2>11. buf' \o inbox' = inbox
    BY <1>0, <2>0, ConcatEmptySeq DEF Bytes
  <2>12. Waiting(k + L)'
    BY <2>4, <2>6, <2>11 DEF Waiting
  <2> QED
    BY <1>2, <2>6, <2>10, <2>12
<1>7. CASE ClientSend
  <2>1. up' = up + 1 /\ inbox' = inbox \o NewBytes(up, 1) /\ UNCHANGED <<toDevice, unsent, buf>>
    BY <1>0, <1>7, AppendNew DEF ClientSend
  <2>2. k \in Nat /\ up - k \in Nat /\ k + (up - k) = up /\ (up - k) + 1 = up' - k /\ k \in 0..(up')
    BY <1>0, <2>1
  <2>3. NewBytes(k, up - k) \o NewBytes(up, 1) = NewBytes(k, up' - k)
    BY <2>2, NewBytesNext
  <2>4. (buf \o inbox) \o NewBytes(up, 1) = buf \o (inbox \o NewBytes(up, 1))
    <3>1. NewBytes(up, 1) \in Seq(Nat) /\ buf \in Seq(Nat) /\ inbox \in Seq(Nat)
      BY <1>0, NewBytesFacts DEF Bytes
    <3>2. \A q, r, t \in Seq(Nat) : (q \o r) \o t = q \o (r \o t)
      BY ConcatAssociative
    <3> QED
      BY <3>1, <3>2
  <2>5. Settled(k)' /\ Waiting(k)'
    BY <1>3, <2>1, <2>3, <2>4 DEF Settled, Waiting
  <2> QED
    BY <1>2, <2>2, <2>5
<1>8. CASE DrainToNobody \/ Probe \/ (Recv /\ inbox = <<>>)
  BY <1>1, <1>2, <1>4, <1>8 DEF DrainToNobody, Probe, Recv, FreeSlot, KeepSlot, Accounted, TypeOK
<1>9. CASE Setup \/ Accept \/ Enter \/ Drain \/ DrainDone \/ Refused
  BY <1>4, <1>9 DEF Setup, Accept, Enter, Drain, DrainDone, Refused
<1>10. CASE SppEvent
  BY <1>4, <1>10 DEF SppEvent, OpenEvt, CloseEvt, WriteEvt, CongEvt, DataInd
<1>11. CASE Connect \/ ClientRead \/ ClientLeave
  BY <1>4, <1>11 DEF Connect, ClientRead, ClientLeave
<1>12. CASE ClientReset
  BY <1>12 DEF ClientReset
<1>13. CASE UNCHANGED vars
  BY <1>4, <1>13 DEF vars
<1> QED
  BY <1>5, <1>6, <1>7, <1>8, <1>9, <1>10, <1>11, <1>12, <1>13 DEF Next, TcpService, Client

\* As long as nothing breaks, every byte on its way to the device arrives, waits in
\* order, or was refused by the stack: congestion loses none.
THEOREM OnlyRefusedLostUp == Spec => []UpComplete
<1>1. Init => Accounted
  <2> SUFFICES ASSUME Init PROVE Accounted
    OBVIOUS
  <2>1. <<>> \o <<>> = <<>> /\ DOMAIN <<>> = {}
    BY EmptySeq, ConcatEmptySeq, LenProperties
  <2>2. NewBytes(0, 0 - 0) = <<>>
    BY NewBytesFacts, EmptySeq DEF Bytes
  <2>3. Settled(0)
    BY <2>1 DEF Init, Settled, ToSet
  <2>4. Waiting(0) /\ 0 \in 0..up
    BY <2>1, <2>2 DEF Init, Waiting
  <2> QED
    BY <2>3, <2>4 DEF Init, Accounted
<1>2. TypeOK /\ Accounted /\ [Next]_vars => Accounted'
  BY AccountedStep
<1> QED
  BY <1>1, <1>2, AccountedComplete, TypeCorrect, PTL DEF Spec
=============================================================================
