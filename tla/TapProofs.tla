----------------------------- MODULE TapProofs ------------------------------
(***************************************************************************)
(* Theorems about TapAndMark: what correlate reads back of a session, for  *)
(* any number of actions and frames.                                       *)
(***************************************************************************)
EXTENDS TapAndMark, SequenceFacts, FiniteSetTheorems

-----------------------------------------------------------------------------
(* What is in a list.                                                      *)

Lists(s, S) == s \in Seq(S) /\ ToSet(s) = S

LEMMA ListFacts ==
  ASSUME NEW S, NEW s, Lists(s, S)
  PROVE  /\ s \in Seq(S) /\ Len(s) \in Nat /\ DOMAIN s = 1..Len(s)
         /\ \A k \in 1..Len(s) : s[k] \in S
         /\ \A x \in S : \E k \in 1..Len(s) : s[k] = x
<1>1. s \in Seq(S) /\ ToSet(s) = S
  BY DEF Lists
<1>2. Len(s) \in Nat /\ DOMAIN s = 1..Len(s)
  BY <1>1, LenProperties
<1>3. \A k \in 1..Len(s) : s[k] \in S
  BY <1>1, ElementOfSeq
<1>4. \A x \in S : \E k \in 1..Len(s) : s[k] = x
  BY <1>1, <1>2 DEF ToSet
<1> QED
  BY <1>1, <1>2, <1>3, <1>4

LEMMA MakesList ==
  ASSUME NEW S, NEW s \in Seq(S), \A x \in S : \E k \in 1..Len(s) : s[k] = x
  PROVE  Lists(s, S)
<1>1. DOMAIN s = 1..Len(s) /\ \A k \in 1..Len(s) : s[k] \in S
  BY LenProperties, ElementOfSeq
<1>2. ToSet(s) = S
  BY <1>1 DEF ToSet
<1> QED
  BY <1>2 DEF Lists

LEMMA ListsMap ==
  ASSUME NEW S, NEW U, NEW F \in [S -> U], NEW s, Lists(s, S)
  PROVE  Lists([k \in DOMAIN s |-> F[s[k]]], {F[x] : x \in S})
<1> DEFINE t == [k \in DOMAIN s |-> F[s[k]]]
           T == {F[x] : x \in S}
           n == Len(s)
<1>1. /\ n \in Nat /\ DOMAIN s = 1..n /\ \A k \in 1..n : s[k] \in S
      /\ \A x \in S : \E k \in 1..n : s[k] = x
  BY ListFacts
<1>2. t \in [1..n -> T]
  BY <1>1
<1>3. \A k \in 1..n : t[k] = F[s[k]]
  BY <1>1
<1>4. ASSUME NEW y \in T PROVE \E k \in 1..n : t[k] = y
  <2>1. PICK x \in S : y = F[x]
    OBVIOUS
  <2> QED
    BY <1>1, <1>3, <2>1
<1> HIDE DEF t, T, n
<1>5. t \in Seq(T) /\ Len(t) = n
  BY <1>1, <1>2
<1>6. \A y \in T : \E k \in 1..Len(t) : t[k] = y
  BY <1>4, <1>5
<1>7. Lists(t, T)
  BY <1>5, <1>6, MakesList
<1> QED
  BY <1>7 DEF t, T

LEMMA ListsConcat ==
  ASSUME NEW S, NEW T, NEW s, NEW t, Lists(s, S), Lists(t, T)
  PROVE  Lists(s \o t, S \cup T)
<1> DEFINE U == S \cup T
           u == s \o t
           m == Len(s)
           n == Len(t)
<1>1. /\ s \in Seq(S) /\ m \in Nat /\ \A x \in S : \E k \in 1..m : s[k] = x
      /\ t \in Seq(T) /\ n \in Nat /\ \A x \in T : \E k \in 1..n : t[k] = x
  BY ListFacts
<1>2. s \in Seq(U) /\ t \in Seq(U)
  <2>1. S \subseteq U /\ T \subseteq U
    OBVIOUS
  <2> HIDE DEF U
  <2> QED
    BY <1>1, <2>1
<1> HIDE DEF U
<1>3. /\ u \in Seq(U) /\ Len(u) = m + n
      /\ \A i \in 1..(m + n) : u[i] = IF i <= m THEN s[i] ELSE t[i - m]
  BY <1>2, ConcatProperties
<1> HIDE DEF u, m, n
<1>4. \A k \in 1..m : k \in 1..(m + n) /\ u[k] = s[k]
  BY <1>1, <1>3
<1>5. ASSUME NEW k \in 1..n PROVE m + k \in 1..(m + n) /\ u[m + k] = t[k]
  <2>1. m + k \in 1..(m + n) /\ ~(m + k <= m) /\ (m + k) - m = k
    BY <1>1
  <2> QED
    BY <1>3, <2>1
<1>6. ASSUME NEW x \in U PROVE \E k \in 1..Len(u) : u[k] = x
  <2>1. CASE x \in S
    BY <1>1, <1>3, <1>4, <2>1
  <2>2. CASE x \in T
    <3>1. PICK k \in 1..n : t[k] = x
      BY <1>1, <2>2
    <3> QED
      BY <1>3, <1>5, <3>1
  <2> QED
    BY <2>1, <2>2 DEF U
<1>7. Lists(u, U)
  BY <1>3, <1>6, MakesList
<1> QED
  BY <1>7 DEF u, U

\* The elements of s that are in T.
Sift(s, T) == FlattenSeq([k \in DOMAIN s |-> IF s[k] \in T THEN <<s[k]>> ELSE <<>>])

LEMMA Sifted ==
  ASSUME NEW S, NEW s, Lists(s, S), NEW T, T \subseteq S
  PROVE  Lists(Sift(s, T), T)
<1> DEFINE n == Len(s)
           b == [k \in DOMAIN s |-> IF s[k] \in T THEN <<s[k]>> ELSE <<>>]
           V == Seq(T)
<1>1. /\ n \in Nat /\ DOMAIN s = 1..n /\ \A k \in 1..n : s[k] \in S
      /\ \A x \in S : \E k \in 1..n : s[k] = x
  BY ListFacts
<1>2. ASSUME NEW k \in 1..n
      PROVE  /\ b[k] = IF s[k] \in T THEN <<s[k]>> ELSE <<>>
             /\ b[k] \in V
  <2>1. b[k] = IF s[k] \in T THEN <<s[k]>> ELSE <<>>
    BY <1>1
  <2>2. CASE s[k] \in T
    <3>1. <<s[k]>> \in Seq(T)
      BY <2>2
    <3> QED
      BY <2>1, <2>2, <3>1
  <2>3. CASE s[k] \notin T
    BY <2>1, <2>3, EmptySeq
  <2> QED
    BY <2>1, <2>2, <2>3
<1>3. b \in [1..n -> V]
  <2>1. b = [k \in 1..n |-> b[k]]
    BY <1>1
  <2> HIDE DEF b, V
  <2> QED
    BY <1>2, <2>1
<1> HIDE DEF b
<1>4. b \in Seq(V) /\ Len(b) = n
  <2> HIDE DEF V, n
  <2> QED
    BY <1>1, <1>3
<1>5. PICK f : Flattens(f, b, T)
  BY <1>4, Flattened
<1>6. /\ f \in [0..n -> Seq(T)] /\ f[0] = <<>>
      /\ \A k \in 1..n : f[k] = f[k - 1] \o b[k]
      /\ FlattenSeq(b) = f[n]
  BY <1>4, <1>5 DEF Flattens
<1> HIDE DEF n, V
<1> DEFINE Of(k) == {s[j] : j \in 1..k} \cap T
           P == {k \in 0..n : Lists(f[k], Of(k))}
<1>7. 0 \in P
  <2>1. Of(0) = {}
    OBVIOUS
  <2>2. <<>> \in Seq({}) /\ ToSet(<<>>) = {}
    BY EmptySeq DEF ToSet
  <2>3. 0 \in 0..n
    BY <1>1
  <2> QED
    BY <1>6, <2>1, <2>2, <2>3 DEF Lists
<1>8. ASSUME NEW k \in 1..n, k - 1 \in P PROVE k \in P
  <2> DEFINE x == s[k]
             A == Of(k - 1)
             B == IF x \in T THEN {x} ELSE {}
  <2>1. k \in 0..n /\ Lists(f[k - 1], A)
    BY <1>1, <1>8
  <2>2. Lists(b[k], B)
    <3>1. CASE x \in T
      <4>1. b[k] = <<x>> /\ B = {x}
        BY <1>2, <3>1
      <4>2. <<x>> \in Seq({x}) /\ ToSet(<<x>>) = {x}
        BY DEF ToSet
      <4> QED
        BY <4>1, <4>2 DEF Lists
    <3>2. CASE x \notin T
      <4>1. b[k] = <<>> /\ B = {}
        BY <1>2, <3>2
      <4>2. <<>> \in Seq({}) /\ ToSet(<<>>) = {}
        BY EmptySeq DEF ToSet
      <4> QED
        BY <4>1, <4>2 DEF Lists
    <3> QED
      BY <3>1, <3>2
  <2>3. Of(k) = A \cup B
    <3>1. 1..k = (1..(k - 1)) \cup {k}
      BY <1>1
    <3>2. {s[j] : j \in 1..k} = {s[j] : j \in 1..(k - 1)} \cup {x}
      BY <3>1
    <3> QED
      BY <3>2
  <2> HIDE DEF A, B
  <2>4. Lists(f[k - 1] \o b[k], A \cup B)
    BY <2>1, <2>2, ListsConcat
  <2> HIDE DEF Of
  <2> QED
    BY <1>6, <2>1, <2>3, <2>4
<1>9. n \in P
  <2>1. \A k \in 1..n : k - 1 \in P => k \in P
    BY <1>8
  <2> HIDE DEF P
  <2>2. 0..n \subseteq P
    BY <1>1, <1>7, <2>1, UpInduction
  <2> QED
    BY <1>1, <2>2
<1>10. Of(n) = T
  BY <1>1
<1> QED
  BY <1>6, <1>9, <1>10 DEF Sift, b

-----------------------------------------------------------------------------
(* Sorting by time.                                                        *)

Timed(s) == s \in Seq(ToSet(s)) /\ \A k \in 1..Len(s) : s[k].at \in Int
Ahead(s, i) == {j \in DOMAIN s : Precedes(s, j, i)}
Rank(s, i) == Cardinality(Ahead(s, i))

\* No two elements have the same place, and each place has one.
LEMMA Places ==
  ASSUME NEW s, Timed(s)
  PROVE  /\ Len(s) \in Nat /\ DOMAIN s = 1..Len(s)
         /\ \A i \in DOMAIN s : Rank(s, i) \in 0..(Len(s) - 1)
         /\ \A i \in DOMAIN s, j \in DOMAIN s : Rank(s, i) = Rank(s, j) => i = j
         /\ \A k \in DOMAIN s : \E i \in DOMAIN s : Rank(s, i) = k - 1
<1> DEFINE n == Len(s)
           D == 1..n
           rank == [i \in D |-> Rank(s, i)]
<1>1. n \in Nat /\ DOMAIN s = D /\ \A k \in D : s[k].at \in Int
  BY LenProperties DEF Timed
<1>2. IsFiniteSet(D) /\ Cardinality(D) = n
  <2>1. IsFiniteSet(1..n) /\ Cardinality(1..n) = IF 1 > n THEN 0 ELSE n - 1 + 1
    BY <1>1, FS_Interval
  <2> QED
    BY <1>1, <2>1
<1> HIDE DEF n
<1>3. \A i \in D : i \in Nat
  BY <1>1
<1>4. \A i \in D : Ahead(s, i) \subseteq D /\ i \notin Ahead(s, i)
  BY <1>1, <1>3 DEF Ahead, Precedes
<1>5. \A i \in D, j \in D : i = j \/ i \in Ahead(s, j) \/ j \in Ahead(s, i)
  BY <1>1, <1>3 DEF Ahead, Precedes
<1>6. \A i \in D, j \in D : i \in Ahead(s, j) => Ahead(s, i) \subseteq Ahead(s, j)
  BY <1>1, <1>3 DEF Ahead, Precedes
<1> HIDE DEF D
<1>7. ASSUME NEW i \in D
      PROVE  IsFiniteSet(Ahead(s, i)) /\ Rank(s, i) \in Nat
  <2>1. IsFiniteSet(Ahead(s, i))
    BY <1>2, <1>4, FS_Subset
  <2> QED
    BY <2>1, FS_CardinalityType DEF Rank
<1>8. ASSUME NEW i \in D, NEW j \in D, i \in Ahead(s, j)
      PROVE  Rank(s, i) < Rank(s, j)
  <2> DEFINE A == Ahead(s, i)
             B == Ahead(s, j)
  <2>1. A \subseteq B /\ i \notin A /\ i \in B
    BY <1>4, <1>6, <1>8
  <2>2. IsFiniteSet(B) /\ Cardinality(A) \in Nat /\ Cardinality(B) \in Nat
    BY <1>7 DEF Rank
  <2> HIDE DEF A, B
  <2>3. Cardinality(A) <= Cardinality(B) /\ (Cardinality(B) = Cardinality(A) => B = A)
    BY <2>1, <2>2, FS_Subset
  <2>4. Cardinality(A) < Cardinality(B)
    BY <2>1, <2>2, <2>3
  <2> QED
    BY <2>4 DEF A, B, Rank
<1>9. ASSUME NEW i \in D PROVE Rank(s, i) \in 0..(n - 1)
  <2> DEFINE A == Ahead(s, i)
             B == D \ {i}
  <2>1. IsFiniteSet(B) /\ Cardinality(B) = n - 1
    <3>1. /\ IsFiniteSet(D \ {i})
          /\ Cardinality(D \ {i}) = IF i \in D THEN Cardinality(D) - 1 ELSE Cardinality(D)
      BY <1>2, FS_RemoveElement
    <3> QED
      BY <1>2, <3>1
  <2>2. A \subseteq B
    BY <1>4
  <2> HIDE DEF A, B
  <2>3. Cardinality(A) <= Cardinality(B)
    BY <2>1, <2>2, FS_Subset
  <2>4. Cardinality(A) <= n - 1
    BY <2>1, <2>3
  <2>5. Cardinality(A) \in Nat
    BY <1>7 DEF A, Rank
  <2> QED
    BY <1>1, <2>4, <2>5 DEF A, Rank
<1>10. ASSUME NEW i \in D, NEW j \in D, Rank(s, i) = Rank(s, j) PROVE i = j
  <2>1. CASE i \in Ahead(s, j)
    BY <1>7, <1>8, <1>10, <2>1
  <2>2. CASE j \in Ahead(s, i)
    BY <1>7, <1>8, <1>10, <2>2
  <2> QED
    BY <1>5, <2>1, <2>2
<1>11. \A k \in D : \E i \in D : Rank(s, i) = k - 1
  <2> DEFINE T == 0..(n - 1)
  <2>1. rank \in [D -> T] /\ \A i \in D : rank[i] = Rank(s, i)
    BY <1>9
  <2>2. IsFiniteSet(T) /\ Cardinality(T) = n
    <3>1. IsFiniteSet(0..(n - 1)) /\ Cardinality(0..(n - 1)) = IF 0 > n - 1 THEN 0 ELSE (n - 1) - 0 + 1
      BY <1>1, FS_Interval
    <3> QED
      BY <1>1, <3>1
  <2> HIDE DEF rank, T
  <2>3. \A i, j \in D : rank[i] = rank[j] => i = j
    BY <1>10, <2>1
  <2>4. rank \in Injection(D, T)
    BY <2>1, <2>3 DEF Injection, IsInjective
  <2>5. rank \in Surjection(D, T)
    BY <1>2, <2>2, <2>4, FS_Injection
  <2>6. \A k \in T : \E i \in D : rank[i] = k
    BY <2>5 DEF Surjection
  <2>7. \A k \in D : k - 1 \in T
    BY <1>1 DEF D, T
  <2> QED
    BY <2>1, <2>6, <2>7
<1> QED
  BY <1>1, <1>9, <1>10, <1>11 DEF D, n

LEMMA ListsByTime ==
  ASSUME NEW S, NEW s, Lists(s, S), \A x \in S : x.at \in Int
  PROVE  Lists(ByTime(s), S)
<1> DEFINE n == Len(s)
           D == 1..n
           pick == [k \in D |-> CHOOSE i \in D : Rank(s, i) = k - 1]
           t == ByTime(s)
<1>1. /\ n \in Nat /\ DOMAIN s = D /\ \A k \in D : s[k] \in S
      /\ \A x \in S : \E k \in D : s[k] = x
  BY ListFacts
<1>2. Timed(s)
  BY <1>1 DEF Lists, Timed
<1>3. /\ \A i \in D : Rank(s, i) \in 0..(n - 1)
      /\ \A i \in D, j \in D : Rank(s, i) = Rank(s, j) => i = j
      /\ \A k \in D : \E i \in D : Rank(s, i) = k - 1
  BY <1>1, <1>2, Places
<1>4. ASSUME NEW k \in D PROVE pick[k] \in D /\ Rank(s, pick[k]) = k - 1
  BY <1>3
<1>5. t = [k \in D |-> s[pick[k]]]
  BY <1>1 DEF ByTime, Rank, Ahead
<1> HIDE DEF t, pick, n
<1>6. t \in [1..n -> S]
  BY <1>1, <1>4, <1>5
<1>7. \A k \in 1..n : t[k] = s[pick[k]]
  BY <1>5
<1>8. t \in Seq(S) /\ Len(t) = n
  <2> HIDE DEF D
  <2> QED
    BY <1>1, <1>6
<1>9. ASSUME NEW x \in S PROVE \E k \in 1..Len(t) : t[k] = x
  <2>1. PICK i \in D : s[i] = x
    BY <1>1
  <2> DEFINE k == Rank(s, i) + 1
  <2>2. k \in D /\ Rank(s, i) = k - 1
    BY <1>1, <1>3
  <2>3. Rank(s, pick[k]) = k - 1 /\ pick[k] \in D
    BY <1>4, <2>2
  <2>4. pick[k] = i
    BY <1>3, <2>2, <2>3
  <2> QED
    BY <1>7, <1>8, <2>1, <2>2, <2>4
<1>10. Lists(t, S)
  BY <1>8, <1>9, MakesList
<1> QED
  BY <1>10 DEF t

\* What is in order already stays as it is.
LEMMA InOrder ==
  ASSUME NEW s, Timed(s), \A i \in 1..Len(s), j \in 1..Len(s) : i < j => s[i].at <= s[j].at
  PROVE  ByTime(s) = s
<1> DEFINE n == Len(s)
           D == 1..n
<1>1. /\ n \in Nat /\ DOMAIN s = D /\ \A k \in D : s[k].at \in Int
      /\ \A i \in D, j \in D : Rank(s, i) = Rank(s, j) => i = j
  BY Places DEF Timed
<1>2. ASSUME NEW k \in D PROVE Rank(s, k) = k - 1
  <2>1. ASSUME NEW j \in D PROVE Precedes(s, j, k) <=> j < k
    <3>1. j < k => s[j].at <= s[k].at
      OBVIOUS
    <3>2. k < j => s[k].at <= s[j].at
      OBVIOUS
    <3> QED
      BY <1>1, <3>1, <3>2 DEF Precedes
  <2>2. Ahead(s, k) = {j \in D : j < k}
    BY <1>1, <2>1 DEF Ahead
  <2>3. Ahead(s, k) = 1..(k - 1)
    BY <1>1, <2>2
  <2>4. Cardinality(1..(k - 1)) = IF 1 > k - 1 THEN 0 ELSE (k - 1) - 1 + 1
    BY <1>1, FS_Interval
  <2> QED
    BY <1>1, <2>3, <2>4 DEF Rank
<1>3. ASSUME NEW k \in D PROVE (CHOOSE i \in D : Rank(s, i) = k - 1) = k
  <2>1. \A i \in D : Rank(s, i) = k - 1 <=> i = k
    BY <1>1, <1>2
  <2> QED
    BY <2>1
<1>4. ByTime(s) = [k \in D |-> s[CHOOSE i \in D : Rank(s, i) = k - 1]]
  BY <1>1 DEF ByTime, Rank, Ahead
<1>5. ByTime(s) = [k \in D |-> s[k]]
  BY <1>3, <1>4
<1>6. s = [k \in D |-> s[k]]
  <2>1. s \in [DOMAIN s -> ToSet(s)]
    BY <1>1, ElementOfSeq DEF Timed
  <2> QED
    BY <1>1, <2>1
<1> QED
  BY <1>5, <1>6

-----------------------------------------------------------------------------
(* From log entries to wire events.                                        *)

Entry == [id : Nat, at : Int, cause : Nat, kind : {"acl", "event"}, start : BOOLEAN,
          cid : {AttCid, 64}, claims : 1..2, has : 1..2]

\* The entries that begin a PDU.
Begun(r) == r.kind = "acl" /\ r.start

\* An entry's packet, and what is made of that.
PacketOf(r) ==
  [Snooped(r) EXCEPT !.kind = KindOf(Snooped(r), TRUE), !.size = IF TRUE THEN @ - 1 ELSE @]
PayloadOf(r) == Payload(PacketOf(r))
AttEvent(e) ==
  [id |-> e.id, at |-> e.at, sent |-> ~e.received, transport |-> "att", data |-> e.value]
OtherEvent(e) ==
  [id |-> e.id, at |-> e.at, sent |-> ~e.received, transport |-> "l2cap", data |-> e.bytes]

LEMMA PacketFacts ==
  ASSUME NEW r \in Entry
  PROVE  LET q == PacketOf(r)
             p == PayloadOf(r)
         IN /\ Snooped(r).size > 0
            /\ q.kind = r.kind /\ q.size >= Header /\ (StartsPdu(q) <=> r.start)
            /\ p.id = r.id /\ p.at = r.at /\ p.cid = r.cid /\ p.bytes # <<>>
<1> DEFINE x == Snooped(r)
           q == PacketOf(r)
           p == PayloadOf(r)
<1>1. /\ r.id \in Nat /\ r.at \in Int /\ r.kind \in {"acl", "event"} /\ r.start \in BOOLEAN
      /\ r.cid \in {AttCid, 64} /\ r.claims \in 1..2 /\ r.has \in 1..2
  BY DEF Entry
<1>2. /\ x.size = 9 + r.has /\ x.kind = r.kind /\ x.pb = IF r.start THEN 2 ELSE 1
      /\ x.total = 4 + r.has /\ x.claims = r.claims /\ x.cid = r.cid
      /\ x.id = r.id /\ x.at = r.at /\ x.body = [b \in 1..r.has |-> 82]
  BY <1>1 DEF Snooped, Header
<1>3. /\ q.size = 8 + r.has /\ q.kind = r.kind /\ q.pb = x.pb /\ q.total = x.total
      /\ q.claims = x.claims /\ q.cid = x.cid /\ q.id = x.id /\ q.at = x.at /\ q.body = x.body
  BY <1>1, <1>2 DEF PacketOf, KindOf, Snooped
<1> HIDE DEF x, q
<1>4. FragmentSize(q) = 4 + r.has
  BY <1>1, <1>2, <1>3 DEF FragmentSize, AtMost, Header
<1>5. StartsPdu(q) <=> r.start
  BY <1>1, <1>2, <1>3, <1>4 DEF StartsPdu, Header
<1>6. /\ p.id = q.id /\ p.at = q.at /\ p.cid = q.cid
      /\ p.bytes = SubSeq(q.body, 1, AtMost(q.claims, FragmentSize(q) - Header))
  BY DEF PayloadOf, Payload, q
<1> HIDE DEF p
<1>7. p.bytes # <<>>
  <2> DEFINE body == q.body
             m == AtMost(q.claims, FragmentSize(q) - Header)
  <2>1. m \in 1..2 /\ m <= r.has
    BY <1>1, <1>2, <1>3, <1>4 DEF AtMost, Header
  <2>2. body \in Seq(Nat) /\ Len(body) = r.has
    BY <1>1, <1>2, <1>3
  <2> HIDE DEF body, m
  <2>3. Len(SubSeq(body, 1, m)) = m
    <3>1. 1 \in Nat \ {0} /\ m \in Int /\ m <= Len(body)
      BY <2>1, <2>2
    <3>2. Len(SubSeq(body, 1, m)) = IF 1 <= m THEN m - 1 + 1 ELSE 0
      BY <2>2, <3>1, Cuts
    <3> QED
      BY <2>1, <3>2
  <2> DEFINE b == SubSeq(body, 1, m)
  <2>4. Len(b) = m
    BY <2>3
  <2> HIDE DEF b
  <2>5. b # <<>>
    BY <2>1, <2>4
  <2> QED
    BY <1>6, <2>5 DEF body, m, b
<1> QED
  BY <1>1, <1>2, <1>3, <1>5, <1>6, <1>7 DEF x, q, p, Header

LogOK == log \in Seq(Entry) /\ \A k \in 1..Len(log) : log[k].id = k

LEMMA PayloadsRead ==
  ASSUME LogOK
  PROVE  Lists(L2capPayloads(Packets), {PayloadOf(r) : r \in {x \in ToSet(log) : Begun(x)}})
<1> DEFINE L == ToSet(log)
           R == {Snooped(r) : r \in L}
           Q == {PacketOf(r) : r \in L}
           A == {q \in Q : q.kind = "acl" /\ q.size >= Header}
           B == {q \in A : StartsPdu(q)}
           C == {Payload(q) : q \in B}
           records == [k \in DOMAIN log |-> Snooped(log[k])]
           some == Filtered(records, LAMBDA r : r.size > 0)
           starts == Filtered(AclFragments(Packets), StartsPdu)
<1>1. Lists(log, L) /\ \A r \in L : r \in Entry
  <2>1. log \in Seq(Entry) /\ DOMAIN log = 1..Len(log)
    BY LenProperties DEF LogOK
  <2>2. \A k \in DOMAIN log : log[k] \in Entry
    BY <2>1, ElementOfSeq
  <2>3. \A r \in L : r \in Entry
    BY <2>2 DEF ToSet
  <2>4. log \in Seq(L)
    <3>1. log \in [1..Len(log) -> L] /\ Len(log) \in Nat
      BY <2>1, <2>2, LenProperties DEF ToSet
    <3> QED
      BY <2>1, <3>1
  <2> QED
    BY <2>3, <2>4 DEF Lists
<1> HIDE DEF L
<1>2. Lists(records, R)
  <2> DEFINE F == [r \in L |-> Snooped(r)]
  <2>1. F \in [L -> R]
    OBVIOUS
  <2> HIDE DEF F, R
  <2>2. Lists([k \in DOMAIN log |-> F[log[k]]], {F[r] : r \in L})
    BY <1>1, <2>1, ListsMap
  <2> USE DEF F, R
  <2>3. \A k \in DOMAIN log : log[k] \in L
    BY <1>1, ListFacts
  <2>4. [k \in DOMAIN log |-> F[log[k]]] = records /\ {F[r] : r \in L} = R
    BY <2>3
  <2> QED
    BY <2>2, <2>4
<1>3. some = Sift(records, R) /\ Lists(some, R)
  <2> DEFINE s == records
  <2>1. DOMAIN s = 1..Len(s) /\ \A k \in 1..Len(s) : s[k] \in R
    BY <1>2, ListFacts
  <2>2. \A x \in R : x.size > 0
    BY <1>1, PacketFacts
  <2> HIDE DEF s
  <2>3. \A k \in DOMAIN s : s[k].size > 0 /\ s[k] \in R
    BY <2>1, <2>2
  <2> HIDE DEF R
  <2>4. [k \in DOMAIN s |-> IF s[k].size > 0 THEN <<s[k]>> ELSE <<>>]
          = [k \in DOMAIN s |-> IF s[k] \in R THEN <<s[k]>> ELSE <<>>]
    BY <2>3
  <2>5. some = Sift(s, R)
    BY <2>4 DEF some, s, Sift, Filtered
  <2> QED
    BY <1>2, <2>5, Sifted DEF s
<1> HIDE DEF records, some
<1>4. Lists(Packets, Q)
  <2> DEFINE G == [x \in R |-> [x EXCEPT !.kind = KindOf(x, TRUE), !.size = IF TRUE THEN @ - 1 ELSE @]]
             U == {G[x] : x \in R}
  <2>1. Packets = [k \in DOMAIN some |->
                     [some[k] EXCEPT !.kind = KindOf(some[k], TRUE), !.size = IF TRUE THEN @ - 1 ELSE @]]
    BY DEF Packets, HciPackets, some, records
  <2>2. \A k \in DOMAIN some : some[k] \in R
    BY <1>3, ListFacts
  <2>3. Packets = [k \in DOMAIN some |-> G[some[k]]]
    BY <2>1, <2>2
  <2>4. U = Q
    BY DEF PacketOf
  <2>5. G \in [R -> U]
    OBVIOUS
  <2> HIDE DEF G, R
  <2>6. Lists([k \in DOMAIN some |-> G[some[k]]], {G[x] : x \in R})
    BY <1>3, <2>5, ListsMap
  <2> QED
    BY <2>3, <2>4, <2>6
<1>5. Lists(AclFragments(Packets), A)
  <2> DEFINE s == Packets
  <2>1. DOMAIN s = 1..Len(s) /\ \A k \in 1..Len(s) : s[k] \in Q
    BY <1>4, ListFacts
  <2>2. AclFragments(s) = FlattenSeq([k \in DOMAIN s |->
                            IF s[k].kind = "acl" /\ s[k].size >= Header THEN <<s[k]>> ELSE <<>>])
    BY DEF AclFragments, Filtered
  <2> HIDE DEF s
  <2>3. \A k \in DOMAIN s : (s[k].kind = "acl" /\ s[k].size >= Header) <=> s[k] \in A
    BY <2>1
  <2>4. A \subseteq Q
    OBVIOUS
  <2> HIDE DEF A, Q
  <2>5. [k \in DOMAIN s |-> IF s[k].kind = "acl" /\ s[k].size >= Header THEN <<s[k]>> ELSE <<>>]
          = [k \in DOMAIN s |-> IF s[k] \in A THEN <<s[k]>> ELSE <<>>]
    BY <2>3
  <2>6. AclFragments(s) = Sift(s, A)
    BY <2>2, <2>5 DEF Sift
  <2> QED
    BY <1>4, <2>4, <2>6, Sifted DEF s
<1>6. Lists(starts, B)
  <2> DEFINE s == AclFragments(Packets)
  <2>1. DOMAIN s = 1..Len(s) /\ \A k \in 1..Len(s) : s[k] \in A
    BY <1>5, ListFacts
  <2>2. starts = FlattenSeq([k \in DOMAIN s |-> IF StartsPdu(s[k]) THEN <<s[k]>> ELSE <<>>])
    BY DEF Filtered
  <2> HIDE DEF s, starts, A
  <2>3. \A k \in DOMAIN s : StartsPdu(s[k]) <=> s[k] \in B
    BY <2>1
  <2>4. B \subseteq A
    OBVIOUS
  <2> HIDE DEF B
  <2>5. [k \in DOMAIN s |-> IF StartsPdu(s[k]) THEN <<s[k]>> ELSE <<>>]
          = [k \in DOMAIN s |-> IF s[k] \in B THEN <<s[k]>> ELSE <<>>]
    BY <2>3
  <2>6. starts = Sift(s, B)
    BY <2>2, <2>5 DEF Sift
  <2> QED
    BY <1>5, <2>4, <2>6, Sifted DEF s
<1>7. Lists(L2capPayloads(Packets), C)
  <2> DEFINE F == [q \in B |-> Payload(q)]
  <2>1. L2capPayloads(Packets) = [k \in DOMAIN starts |-> Payload(starts[k])]
    BY DEF L2capPayloads
  <2> HIDE DEF starts, B
  <2>2. \A k \in DOMAIN starts : starts[k] \in B
    BY <1>6, ListFacts
  <2>3. L2capPayloads(Packets) = [k \in DOMAIN starts |-> F[starts[k]]]
    BY <2>1, <2>2
  <2>4. F \in [B -> C] /\ {F[q] : q \in B} = C
    OBVIOUS
  <2> HIDE DEF F, C
  <2>5. Lists([k \in DOMAIN starts |-> F[starts[k]]], {F[q] : q \in B})
    BY <1>6, <2>4, ListsMap
  <2> QED
    BY <2>3, <2>4, <2>5
<1>8. C = {PayloadOf(r) : r \in {x \in L : Begun(x)}}
  <2>1. ASSUME NEW r \in L PROVE PacketOf(r) \in B <=> Begun(r)
    <3> DEFINE q == PacketOf(r)
    <3>1. q.kind = r.kind /\ q.size >= Header /\ (StartsPdu(q) <=> r.start)
      BY <1>1, PacketFacts
    <3>2. q \in Q
      OBVIOUS
    <3> HIDE DEF q, Q
    <3>3. q \in B <=> q.kind = "acl" /\ q.size >= Header /\ StartsPdu(q)
      BY <3>2
    <3> QED
      BY <3>1, <3>3 DEF Begun, q
  <2>2. \A q \in B : \E r \in L : q = PacketOf(r)
    OBVIOUS
  <2> HIDE DEF B
  <2> QED
    BY <2>1, <2>2 DEF PayloadOf
<1> QED
  BY <1>7, <1>8 DEF L

\* What the events are those of: the entries that begin a PDU, at their times.
Tells(E) ==
  /\ \A e \in E : \E k \in 1..Len(log) : Begun(log[k]) /\ e.id = k /\ e.at = log[k].at
  /\ \A k \in 1..Len(log) : Begun(log[k]) => \E e \in E : e.id = k /\ e.at = log[k].at

LEMMA EventsRead ==
  ASSUME LogOK
  PROVE  \E E : Lists(WireEvents(Packets, TRUE), E) /\ Tells(E)
<1> DEFINE P == {PayloadOf(r) : r \in {x \in ToSet(log) : Begun(x)}}
           A == {p \in P : p.cid = AttCid /\ p.bytes # <<>>}
           B == {AttPdu(p) : p \in A}
           C == {p \in P : p.cid # AttCid}
           D == {AttEvent(e) : e \in B}
           F == {OtherEvent(e) : e \in C}
           E == D \cup F
           payloads == L2capPayloads(Packets)
           pdus == Filtered(payloads, LAMBDA p : p.cid = AttCid /\ p.bytes # <<>>)
           att == AttPdus(Packets)
           other == Filtered(payloads, LAMBDA p : p.cid # AttCid)
           sA == [k \in DOMAIN att |-> AttEvent(att[k])]
           sO == [k \in DOMAIN other |-> OtherEvent(other[k])]
<1>1. Lists(payloads, P)
  BY PayloadsRead
<1>2. DOMAIN payloads = 1..Len(payloads) /\ \A k \in DOMAIN payloads : payloads[k] \in P
  BY <1>1, ListFacts
<1> HIDE DEF P, payloads
<1>3. Lists(pdus, A)
  <2> DEFINE s == payloads
  <2>1. pdus = FlattenSeq([k \in DOMAIN s |->
                 IF s[k].cid = AttCid /\ s[k].bytes # <<>> THEN <<s[k]>> ELSE <<>>])
    BY DEF Filtered
  <2>2. \A k \in DOMAIN s : (s[k].cid = AttCid /\ s[k].bytes # <<>>) <=> s[k] \in A
    BY <1>2
  <2>3. A \subseteq P
    OBVIOUS
  <2> HIDE DEF s, A, pdus
  <2>4. [k \in DOMAIN s |-> IF s[k].cid = AttCid /\ s[k].bytes # <<>> THEN <<s[k]>> ELSE <<>>]
          = [k \in DOMAIN s |-> IF s[k] \in A THEN <<s[k]>> ELSE <<>>]
    BY <2>2
  <2>5. pdus = Sift(s, A)
    BY <2>1, <2>4 DEF Sift
  <2> QED
    BY <1>1, <2>3, <2>5, Sifted DEF s
<1>4. Lists(att, B)
  <2> DEFINE G == [p \in A |-> AttPdu(p)]
  <2>1. att = [k \in DOMAIN pdus |-> AttPdu(pdus[k])]
    BY DEF AttPdus, payloads
  <2> HIDE DEF pdus, A, att
  <2>2. \A k \in DOMAIN pdus : pdus[k] \in A
    BY <1>3, ListFacts
  <2>3. att = [k \in DOMAIN pdus |-> G[pdus[k]]]
    BY <2>1, <2>2
  <2>4. G \in [A -> B] /\ {G[p] : p \in A} = B
    OBVIOUS
  <2> HIDE DEF G, B
  <2>5. Lists([k \in DOMAIN pdus |-> G[pdus[k]]], {G[p] : p \in A})
    BY <1>3, <2>4, ListsMap
  <2> QED
    BY <2>3, <2>4, <2>5
<1>5. Lists(other, C)
  <2> DEFINE s == payloads
  <2>1. other = FlattenSeq([k \in DOMAIN s |-> IF s[k].cid # AttCid THEN <<s[k]>> ELSE <<>>])
    BY DEF Filtered
  <2>2. \A k \in DOMAIN s : s[k].cid # AttCid <=> s[k] \in C
    BY <1>2
  <2>3. C \subseteq P
    OBVIOUS
  <2> HIDE DEF s, C, other
  <2>4. [k \in DOMAIN s |-> IF s[k].cid # AttCid THEN <<s[k]>> ELSE <<>>]
          = [k \in DOMAIN s |-> IF s[k] \in C THEN <<s[k]>> ELSE <<>>]
    BY <2>2
  <2>5. other = Sift(s, C)
    BY <2>1, <2>4 DEF Sift
  <2> QED
    BY <1>1, <2>3, <2>5, Sifted DEF s
<1>6. Lists(sA, D)
  <2> DEFINE G == [e \in B |-> AttEvent(e)]
  <2> HIDE DEF att, B
  <2>1. \A k \in DOMAIN att : att[k] \in B
    BY <1>4, ListFacts
  <2>2. sA = [k \in DOMAIN att |-> G[att[k]]]
    BY <2>1
  <2>3. G \in [B -> D] /\ {G[e] : e \in B} = D
    OBVIOUS
  <2> HIDE DEF G, D, sA
  <2>4. Lists([k \in DOMAIN att |-> G[att[k]]], {G[e] : e \in B})
    BY <1>4, <2>3, ListsMap
  <2> QED
    BY <2>2, <2>3, <2>4
<1>7. Lists(sO, F)
  <2> DEFINE G == [e \in C |-> OtherEvent(e)]
  <2> HIDE DEF other, C
  <2>1. \A k \in DOMAIN other : other[k] \in C
    BY <1>5, ListFacts
  <2>2. sO = [k \in DOMAIN other |-> G[other[k]]]
    BY <2>1
  <2>3. G \in [C -> F] /\ {G[e] : e \in C} = F
    OBVIOUS
  <2> HIDE DEF G, F, sO
  <2>4. Lists([k \in DOMAIN other |-> G[other[k]]], {G[e] : e \in C})
    BY <1>5, <2>3, ListsMap
  <2> QED
    BY <2>2, <2>3, <2>4
<1>8. WireEvents(Packets, TRUE) = ByTime(sA \o sO)
  BY DEF WireEvents, AttEvent, OtherEvent, att, other, payloads
<1>9. Lists(sA \o sO, E)
  <2> HIDE DEF sA, sO, D, F
  <2> QED
    BY <1>6, <1>7, ListsConcat
<1> HIDE DEF pdus, att, other, sA, sO
<1>10. \A r \in ToSet(log) : r \in Entry
  BY ElementOfSeq, LenProperties DEF LogOK, ToSet
<1>11. ASSUME NEW r \in ToSet(log), Begun(r)
       PROVE  \E e \in E : e.id = r.id /\ e.at = r.at
  <2> DEFINE p == PayloadOf(r)
  <2>1. p \in P /\ p.id = r.id /\ p.at = r.at /\ p.bytes # <<>>
    BY <1>10, <1>11, PacketFacts DEF P
  <2> HIDE DEF p
  <2>2. CASE p.cid = AttCid
    <3>1. p \in A
      BY <2>1, <2>2
    <3>2. AttEvent(AttPdu(p)) \in E
      BY <3>1
    <3>3. AttEvent(AttPdu(p)).id = p.id /\ AttEvent(AttPdu(p)).at = p.at
      BY DEF AttEvent, AttPdu
    <3> QED
      BY <2>1, <3>2, <3>3
  <2>3. CASE p.cid # AttCid
    <3>1. OtherEvent(p) \in E
      BY <2>1, <2>3
    <3>2. OtherEvent(p).id = p.id /\ OtherEvent(p).at = p.at
      BY DEF OtherEvent
    <3> QED
      BY <2>1, <3>1, <3>2
  <2> QED
    BY <2>2, <2>3
<1>12. ASSUME NEW e \in E
       PROVE  \E r \in ToSet(log) : Begun(r) /\ e.id = r.id /\ e.at = r.at
  <2>1. \E p \in P : e.id = p.id /\ e.at = p.at
    <3>1. CASE e \in D
      <4>1. PICK p \in A : e = AttEvent(AttPdu(p))
        BY <3>1
      <4>2. e.id = p.id /\ e.at = p.at
        BY <4>1 DEF AttEvent, AttPdu
      <4> QED
        BY <4>2
    <3>2. CASE e \in F
      <4>1. PICK p \in C : e = OtherEvent(p)
        BY <3>2
      <4>2. e.id = p.id /\ e.at = p.at
        BY <4>1 DEF OtherEvent
      <4> QED
        BY <4>2
    <3> QED
      BY <3>1, <3>2
  <2>2. PICK r \in ToSet(log) : Begun(r) /\ e.id = PayloadOf(r).id /\ e.at = PayloadOf(r).at
    BY <2>1 DEF P
  <2>3. PayloadOf(r).id = r.id /\ PayloadOf(r).at = r.at
    BY <1>10, PacketFacts
  <2> QED
    BY <2>2, <2>3
<1> HIDE DEF E
<1>13. \A e \in E : e.at \in Int
  <2>1. \A r \in Entry : r.at \in Int
    BY DEF Entry
  <2> QED
    BY <1>10, <1>12, <2>1
<1>14. Lists(WireEvents(Packets, TRUE), E)
  BY <1>8, <1>9, <1>13, ListsByTime
<1>15. Tells(E)
  <2>1. DOMAIN log = 1..Len(log) /\ \A k \in 1..Len(log) : log[k].id = k
    BY LenProperties DEF LogOK
  <2>2. ToSet(log) = {log[k] : k \in 1..Len(log)}
    BY <2>1 DEF ToSet
  <2> QED
    BY <1>11, <1>12, <2>1, <2>2 DEF Tells
<1> QED
  BY <1>14, <1>15

-----------------------------------------------------------------------------
(* From events and marks to correlations.                                  *)

\* Mark i is the last one at or before time t.
Holds(i, t) ==
  /\ i \in 1..Len(marks) /\ marks[i].at <= t
  /\ \A j \in 1..Len(marks) : marks[j].at <= t => j <= i

LEMMA LatestHolds ==
  ASSUME Timed(marks), NEW t \in Int, NEW i \in 1..Len(marks)
  PROVE  Latest(marks, t) = i <=> Holds(i, t)
<1> DEFINE n == Len(marks)
           earlier == {j \in DOMAIN marks : marks[j].at <= t}
           Top(k) == k \in earlier /\ \A j \in earlier : j <= k
           S == {n - j : j \in earlier}
<1>1. n \in Nat /\ DOMAIN marks = 1..n
  BY LenProperties DEF Timed
<1>2. Latest(marks, t) = IF earlier = {} THEN 0 ELSE CHOOSE k \in earlier : \A j \in earlier : j <= k
  BY DEF Latest
<1>3. Holds(i, t) <=> Top(i)
  BY <1>1 DEF Holds
<1>4. earlier \subseteq 1..n
  BY <1>1
<1> HIDE DEF earlier, n
<1>5. ASSUME NEW j \in earlier PROVE j \in Int /\ n - j \in Nat
  BY <1>1, <1>4
<1>6. earlier # {} => \E k \in earlier : Top(k)
  <2> SUFFICES ASSUME earlier # {} PROVE \E k \in earlier : Top(k)
    OBVIOUS
  <2>1. S \in SUBSET Nat /\ S # {}
    BY <1>5
  <2>2. Min(S) \in S /\ \A k \in S : Min(S) <= k
    <3> HIDE DEF S
    <3> QED
      BY <2>1, LeastOne
  <2>3. PICK k \in earlier : Min(S) = n - k
    BY <2>2
  <2>4. ASSUME NEW j \in earlier PROVE j <= k
    <3>1. n - k <= n - j
      BY <2>2, <2>3
    <3> QED
      BY <1>1, <1>5, <3>1
  <2> QED
    BY <2>3, <2>4
<1>7. \A k, l : Top(k) /\ Top(l) => k = l
  BY <1>5
<1>8. CASE earlier = {}
  <2>1. ~Top(i) /\ i # 0
    BY <1>8
  <2> QED
    BY <1>2, <1>3, <1>8, <2>1
<1>9. CASE earlier # {}
  <2>1. Top(Latest(marks, t))
    BY <1>2, <1>6, <1>9
  <2> QED
    BY <1>3, <1>7, <2>1
<1> QED
  BY <1>8, <1>9

\* A frame at time t belongs to mark i.
Owns(i, t) == Holds(i, t) /\ t - marks[i].at <= Window

LEMMA Credited ==
  ASSUME LogOK, Timed(marks),
         \A i \in 1..Len(marks), j \in 1..Len(marks) : i < j => marks[i].at <= marks[j].at
  PROVE  LET found == Correlations
         IN /\ DOMAIN found = 1..Len(marks)
            /\ \A i \in 1..Len(marks) :
                 /\ found[i].mark = marks[i]
                 /\ \A id : id \in Ids(found[i].events) <=>
                              /\ id \in 1..Len(log) /\ Begun(log[id])
                              /\ Owns(i, log[id].at)
<1> DEFINE events == WireEvents(Packets, TRUE)
           inOrder == ByTime(events)
           Own(i, e) == Latest(marks, e.at) = i /\ e.at - marks[i].at <= Window
           found == Correlations
           n == Len(marks)
<1>1. DOMAIN marks = 1..n
  BY LenProperties DEF Timed
<1>2. ByTime(marks) = marks
  BY InOrder
<1>3. found = [i \in 1..n |-> [mark |-> marks[i], events |-> Filtered(inOrder, LAMBDA e : Own(i, e))]]
  BY <1>1, <1>2 DEF Correlations, Correlate
<1>4. PICK E : Lists(events, E) /\ Tells(E)
  BY EventsRead
<1>5. /\ Len(log) \in Nat /\ \A k \in 1..Len(log) : log[k] \in Entry /\ log[k].at \in Int
  <2>1. log \in Seq(Entry)
    BY DEF LogOK
  <2>2. Len(log) \in Nat /\ \A k \in 1..Len(log) : log[k] \in Entry
    BY <2>1, ElementOfSeq, LenProperties
  <2>3. \A r \in Entry : r.at \in Int
    BY DEF Entry
  <2> QED
    BY <2>2, <2>3
<1>6. \A e \in E : e.at \in Int
  BY <1>4, <1>5 DEF Tells
<1> HIDE DEF events
<1>7. Lists(inOrder, E)
  BY <1>4, <1>6, ListsByTime
<1> HIDE DEF inOrder
<1>8. ASSUME NEW i \in 1..n
      PROVE  Lists(Filtered(inOrder, LAMBDA e : Own(i, e)), {e \in E : Own(i, e)})
  <2> DEFINE T == {e \in E : Own(i, e)}
             kept == Filtered(inOrder, LAMBDA e : Own(i, e))
  <2>1. kept = FlattenSeq([k \in DOMAIN inOrder |-> IF Own(i, inOrder[k]) THEN <<inOrder[k]>> ELSE <<>>])
    BY DEF Filtered
  <2>2. \A k \in DOMAIN inOrder : Own(i, inOrder[k]) <=> inOrder[k] \in T
    BY <1>7, ListFacts
  <2>3. T \subseteq E
    OBVIOUS
  <2> HIDE DEF T, kept
  <2>4. [k \in DOMAIN inOrder |-> IF Own(i, inOrder[k]) THEN <<inOrder[k]>> ELSE <<>>]
          = [k \in DOMAIN inOrder |-> IF inOrder[k] \in T THEN <<inOrder[k]>> ELSE <<>>]
    BY <2>2
  <2>5. kept = Sift(inOrder, T)
    BY <2>1, <2>4 DEF Sift
  <2> QED
    BY <1>7, <2>3, <2>5, Sifted DEF T, kept
<1>9. ASSUME NEW i \in 1..n, NEW id
      PROVE  id \in Ids(found[i].events) <=>
               /\ id \in 1..Len(log) /\ Begun(log[id])
               /\ Owns(i, log[id].at)
  <2> DEFINE kept == found[i].events
  <2>1. Lists(kept, {e \in E : Own(i, e)})
    BY <1>3, <1>8
  <2> HIDE DEF kept, found, n
  <2>2. id \in Ids(kept) <=> \E e \in E : Own(i, e) /\ e.id = id
    BY <2>1 DEF Ids, Lists
  <2>3. \A e \in E : Own(i, e) <=> Owns(i, e.at)
    BY <1>6, LatestHolds DEF Owns, n
  <2>4. (\E e \in E : Own(i, e) /\ e.id = id) <=>
          /\ id \in 1..Len(log) /\ Begun(log[id])
          /\ Owns(i, log[id].at)
    <3> HIDE DEF Own
    <3> QED
      BY <1>4, <2>3 DEF Tells
  <2> QED
    BY <2>2, <2>4 DEF kept
<1> QED
  BY <1>3, <1>9

-----------------------------------------------------------------------------
(* The inductive invariant.                                                *)

Landed(a) == landed[a] # -1

TimesOK ==
  /\ now \in Nat /\ since \in Nat /\ actions \in Nat /\ markFirst \in BOOLEAN
  /\ driver \in {"idle", "finding", "tapping", "pulled"}
  /\ landed \in [1..actions -> Int]
  /\ \A a \in 1..actions : Landed(a) => landed[a] \in 0..now
  /\ driver \in {"finding", "tapping"} => actions # 0
  /\ driver = "finding" => ~Landed(actions)

\* The app is done with an action before the next one begins.
OneByOne ==
  \A a \in 1..actions : a < actions /\ Landed(a) => landed[a] + Reaction < now

\* A PDU begins while the app reacts to the action that causes it.
Caused(r) ==
  /\ r.cause \in 1..actions /\ Landed(r.cause)
  /\ landed[r.cause] + ClockOffset <= r.at
  /\ r.at <= landed[r.cause] + Reaction + ClockOffset

LogInv == LogOK /\ \A k \in 1..Len(log) : Begun(log[k]) => Caused(log[k])

\* Marks are in order, and each comes when the app is done with the actions before its own.
MarksInv ==
  /\ marks \in Seq([at : Nat, action : Nat])
  /\ \A i \in 1..Len(marks) :
       /\ marks[i].at <= now /\ marks[i].action \in 1..actions
       /\ \A a \in 1..actions : a < marks[i].action /\ Landed(a) => landed[a] + Reaction < marks[i].at
  /\ \A i \in 1..Len(marks), j \in 1..Len(marks) : i < j => marks[i].at <= marks[j].at

\* A caller who marks first has one mark for each action, and the tap lands MaxAdb later
\* at the most.
FirstInv ==
  markFirst =>
    /\ Len(marks) = actions
    /\ \A a \in 1..actions :
         /\ marks[a].action = a
         /\ Landed(a) => marks[a].at <= landed[a] /\ landed[a] <= marks[a].at + MaxAdb
    /\ driver = "finding" => marks[actions].at = since /\ now <= since + MaxAdb

TapInv == TimesOK /\ OneByOne /\ LogInv /\ MarksInv /\ FirstInv

LEMMA InitTapInv == Init => TapInv
<1> SUFFICES ASSUME Init PROVE TapInv
  OBVIOUS
<1> USE DEF Init
<1>1. TimesOK /\ OneByOne
  BY HarnessAssumption DEF TimesOK, OneByOne
<1>2. LogInv
  BY EmptySeq DEF LogInv, LogOK
<1>3. MarksInv
  BY EmptySeq DEF MarksInv
<1>4. FirstInv
  BY DEF FirstInv
<1> QED
  BY <1>1, <1>2, <1>3, <1>4 DEF TapInv

\* The actions of the harness and of the phone.
Quietly == NotFound \/ TapRaises \/ Pull
Sending == (\E a \in 1..actions : AppSends(a)) \/ AppContinues \/ ControllerReports

LEMMA NextSplits ==
  [Next]_vars => \/ TapStarts \/ Quietly \/ TapLands \/ TapReturns
                 \/ Sending \/ Tick \/ UNCHANGED vars
BY DEF Next, Quietly, Sending

LEMMA Sends ==
  Sending => UNCHANGED <<now, driver, since, actions, landed, marks, markFirst>>
BY DEF Sending, AppSends, AppContinues, ControllerReports

LEMMA LandedMore ==
  ASSUME TimesOK
  PROVE  LET more == Append(landed, -1)
         IN /\ more \in [1..(actions + 1) -> Int] /\ more[actions + 1] = -1
            /\ \A a \in 1..actions : more[a] = landed[a]
<1> DEFINE n == actions
           more == Append(landed, -1)
<1>1. n \in Nat /\ landed \in [1..n -> Int]
  BY DEF TimesOK
<1> HIDE DEF n
<1>2. landed \in Seq(Int) /\ Len(landed) = n /\ -1 \in Int
  BY <1>1
<1>3. /\ more \in Seq(Int) /\ Len(more) = n + 1 /\ more[n + 1] = -1
      /\ \A i \in 1..n : more[i] = landed[i]
  BY <1>2, AppendProperties
<1> HIDE DEF more
<1>4. more \in [1..(n + 1) -> Int]
  BY <1>1, <1>3
<1> QED
  BY <1>3, <1>4 DEF n, more

LEMMA TimesNext == TapInv /\ [Next]_vars => TimesOK'
<1> SUFFICES ASSUME TapInv, [Next]_vars PROVE TimesOK'
  OBVIOUS
<1>0. TimesOK
  BY DEF TapInv
<1>1. CASE TapStarts
  <2>1. /\ actions' = actions + 1 /\ landed' = Append(landed, -1) /\ since' = now
        /\ driver' = "finding" /\ now' = now /\ markFirst' = markFirst
    BY <1>1 DEF TapStarts
  <2>2. /\ landed' \in [1..actions' -> Int] /\ landed'[actions'] = -1
        /\ \A a \in 1..actions : landed'[a] = landed[a]
    BY <1>0, <2>1, LandedMore
  <2>3. ASSUME NEW a \in 1..actions', landed'[a] # -1 PROVE landed'[a] \in 0..now'
    <3>1. a \in 1..actions
      BY <1>0, <2>1, <2>2, <2>3 DEF TimesOK
    <3> QED
      BY <1>0, <2>1, <2>2, <2>3, <3>1 DEF TimesOK, Landed
  <2> QED
    BY <1>0, <2>1, <2>2, <2>3 DEF TimesOK, Landed
<1>2. CASE Quietly
  BY <1>0, <1>2 DEF Quietly, NotFound, TapRaises, Pull, TimesOK, Landed
<1>3. CASE TapLands
  <2>1. /\ driver = "finding" /\ driver' = "tapping" /\ landed' = [landed EXCEPT ![actions] = now]
        /\ UNCHANGED <<now, since, actions, markFirst>>
    BY <1>3 DEF TapLands
  <2>2. actions \in 1..actions
    BY <1>0, <2>1 DEF TimesOK
  <2> QED
    BY <1>0, <2>1, <2>2 DEF TimesOK, Landed
<1>4. CASE TapReturns
  BY <1>0, <1>4 DEF TapReturns, TimesOK, Landed
<1>5. CASE Sending
  BY <1>0, <1>5, Sends DEF TimesOK, Landed
<1>6. CASE Tick
  <2>1. now' = now + 1 /\ UNCHANGED <<driver, since, actions, landed, markFirst>>
    BY <1>6 DEF Tick
  <2>2. \A a \in 1..actions : landed[a] \in 0..now => landed[a] \in 0..now'
    BY <1>0, <2>1 DEF TimesOK
  <2> QED
    BY <1>0, <2>1, <2>2 DEF TimesOK, Landed
<1>7. CASE UNCHANGED vars
  BY <1>0, <1>7 DEF vars, TimesOK, Landed
<1> QED
  BY <1>1, <1>2, <1>3, <1>4, <1>5, <1>6, <1>7, NextSplits

LEMMA OneByOneNext == TapInv /\ [Next]_vars => OneByOne'
<1> SUFFICES ASSUME TapInv, [Next]_vars PROVE OneByOne'
  OBVIOUS
<1>0. TimesOK /\ OneByOne /\ Reaction \in Nat
  BY HarnessAssumption DEF TapInv
<1>1. CASE TapStarts
  <2>1. /\ actions' = actions + 1 /\ landed' = Append(landed, -1) /\ now' = now
        /\ \A a \in 1..actions : ~Reacting(a)
    BY <1>1 DEF TapStarts
  <2>2. \A a \in 1..actions : landed'[a] = landed[a]
    BY <1>0, <2>1, LandedMore
  <2>3. \A a \in 1..actions : landed[a] = -1 \/ landed[a] + Reaction < now
    BY <1>0, <2>1 DEF Reacting, TimesOK
  <2> QED
    BY <1>0, <2>1, <2>2, <2>3 DEF OneByOne, Landed, TimesOK
<1>2. CASE Quietly
  BY <1>0, <1>2 DEF Quietly, NotFound, TapRaises, Pull, OneByOne, Landed
<1>3. CASE TapLands
  <2>1. landed' = [landed EXCEPT ![actions] = now] /\ UNCHANGED <<now, actions>>
    BY <1>3 DEF TapLands
  <2>2. \A a \in 1..actions : a < actions => landed'[a] = landed[a]
    BY <1>0, <2>1 DEF TimesOK
  <2> QED
    BY <1>0, <2>1, <2>2 DEF OneByOne, Landed
<1>4. CASE TapReturns
  BY <1>0, <1>4 DEF TapReturns, OneByOne, Landed
<1>5. CASE Sending
  BY <1>0, <1>5, Sends DEF OneByOne, Landed
<1>6. CASE Tick
  <2>1. now' = now + 1 /\ UNCHANGED <<actions, landed>>
    BY <1>6 DEF Tick
  <2>2. \A a \in 1..actions : landed[a] + Reaction < now => landed[a] + Reaction < now'
    BY <1>0, <2>1 DEF TimesOK
  <2> QED
    BY <1>0, <2>1, <2>2 DEF OneByOne, Landed
<1>7. CASE UNCHANGED vars
  BY <1>0, <1>7 DEF vars, OneByOne, Landed
<1> QED
  BY <1>1, <1>2, <1>3, <1>4, <1>5, <1>6, <1>7, NextSplits

LEMMA LogMore ==
  ASSUME LogOK, NEW r \in Entry, r.id = Len(log) + 1
  PROVE  LET more == Append(log, r)
         IN /\ more \in Seq(Entry) /\ Len(more) = Len(log) + 1 /\ more[Len(log) + 1] = r
            /\ \A k \in 1..Len(log) : more[k] = log[k]
            /\ \A k \in 1..Len(more) : more[k].id = k
<1> DEFINE n == Len(log)
           more == Append(log, r)
<1>1. n \in Nat /\ log \in Seq(Entry) /\ \A k \in 1..n : log[k].id = k
  BY LenProperties DEF LogOK
<1>2. /\ more \in Seq(Entry) /\ Len(more) = n + 1 /\ more[n + 1] = r
      /\ \A k \in 1..n : more[k] = log[k]
  BY <1>1, AppendProperties
<1> HIDE DEF n, more
<1>3. ASSUME NEW k \in 1..(n + 1) PROVE more[k].id = k
  <2>1. CASE k = n + 1
    BY <1>2, <2>1 DEF n
  <2>2. CASE k # n + 1
    <3>1. k \in 1..n
      BY <1>1, <2>2
    <3> QED
      BY <1>1, <1>2, <3>1
  <2> QED
    BY <2>1, <2>2
<1> QED
  BY <1>2, <1>3 DEF n, more

Fields(cause, kind, start, cid, claims, has) ==
  /\ cause \in Nat /\ kind \in {"acl", "event"} /\ start \in BOOLEAN
  /\ cid \in {AttCid, 64} /\ claims \in 1..2 /\ has \in 1..2

Recorded(r, cause, kind, start) ==
  /\ r \in Entry /\ r.id = Len(log) + 1 /\ r.at = now + ClockOffset
  /\ r.cause = cause /\ r.kind = kind /\ r.start = start

LEMMA RecordIs ==
  ASSUME TimesOK, LogOK, NEW cause, NEW kind, NEW start, NEW cid, NEW claims, NEW has,
         Fields(cause, kind, start, cid, claims, has)
  PROVE  Recorded(Record(cause, kind, start, cid, claims, has), cause, kind, start)
<1>1. now \in Nat /\ ClockOffset \in Int /\ Len(log) + 1 \in Nat
  BY HarnessAssumption, LenProperties DEF TimesOK, LogOK
<1>2. now + ClockOffset \in Int
  BY <1>1
<1> QED
  BY <1>1, <1>2 DEF Record, Entry, Fields, Recorded

\* What a step of the phone logs.
LEMMA Logs ==
  ASSUME TimesOK, LogOK, Sending
  PROVE  \E r \in Entry : /\ r.id = Len(log) + 1 /\ log' = Append(log, r)
                          /\ Begun(r) => Caused(r)
<1>0. now \in Nat /\ actions \in Nat /\ ClockOffset \in Int /\ Reaction \in Nat
  BY HarnessAssumption DEF TimesOK
<1>n. log \in Seq(Entry) /\ Len(log) \in Nat /\ \A k \in 1..Len(log) : log[k] \in Entry
  BY LenProperties, ElementOfSeq DEF LogOK
<1>1. CASE \E a \in 1..actions : AppSends(a)
  <2>1. PICK a \in 1..actions : AppSends(a)
    BY <1>1
  <2>2. PICK cid \in {AttCid, 64}, has \in 1..2 : log' = Append(log, Record(a, "acl", TRUE, cid, 2, has))
    BY <2>1 DEF AppSends
  <2> DEFINE r == Record(a, "acl", TRUE, cid, 2, has)
  <2>3. Fields(a, "acl", TRUE, cid, 2, has)
    BY <1>0 DEF Fields
  <2>4. r \in Entry /\ r.id = Len(log) + 1 /\ r.at = now + ClockOffset /\ r.cause = a
    <3>1. Recorded(r, a, "acl", TRUE)
      BY <2>3, RecordIs
    <3> QED
      BY <3>1 DEF Recorded
  <2>5. Landed(a) /\ now <= landed[a] + Reaction /\ landed[a] <= now /\ landed[a] \in Int
    BY <2>1 DEF AppSends, Reacting, Landed, TimesOK
  <2> HIDE DEF r
  <2>6. Caused(r)
    BY <1>0, <2>4, <2>5 DEF Caused
  <2> QED
    BY <2>2, <2>4, <2>6 DEF r
<1>2. CASE AppContinues
  <2>1. log # <<>> /\ log' = Append(log, Record(Last(log).cause, "acl", FALSE, Last(log).cid, 2, 1))
    BY <1>2 DEF AppContinues
  <2>2. Last(log) \in Entry
    <3>1. Len(log) # 0
      BY <1>n, <2>1, EmptySeq
    <3>2. Len(log) \in 1..Len(log)
      BY <1>n, <3>1
    <3> QED
      BY <1>n, <3>2 DEF Last
  <2> DEFINE r == Record(Last(log).cause, "acl", FALSE, Last(log).cid, 2, 1)
  <2>3. Fields(Last(log).cause, "acl", FALSE, Last(log).cid, 2, 1)
    BY <2>2 DEF Entry, Fields
  <2>4. r \in Entry /\ r.id = Len(log) + 1 /\ r.start = FALSE
    <3>1. Recorded(r, Last(log).cause, "acl", FALSE)
      BY <2>3, RecordIs
    <3> QED
      BY <3>1 DEF Recorded
  <2> HIDE DEF r
  <2>5. ~Begun(r)
    BY <2>4 DEF Begun
  <2> QED
    BY <2>1, <2>4, <2>5 DEF r
<1>3. CASE ControllerReports
  <2>1. log' = Append(log, Record(0, "event", TRUE, AttCid, 1, 1))
    BY <1>3 DEF ControllerReports
  <2> DEFINE r == Record(0, "event", TRUE, AttCid, 1, 1)
  <2>2. Fields(0, "event", TRUE, AttCid, 1, 1)
    BY DEF Fields
  <2>3. r \in Entry /\ r.id = Len(log) + 1 /\ r.kind = "event"
    <3>1. Recorded(r, 0, "event", TRUE)
      BY <2>2, RecordIs
    <3> QED
      BY <3>1 DEF Recorded
  <2> HIDE DEF r
  <2>4. ~Begun(r)
    BY <2>3 DEF Begun
  <2> QED
    BY <2>1, <2>3, <2>4 DEF r
<1> QED
  BY <1>1, <1>2, <1>3 DEF Sending

LEMMA LogNext == TapInv /\ [Next]_vars => LogInv'
<1> SUFFICES ASSUME TapInv, [Next]_vars PROVE LogInv'
  OBVIOUS
<1>0. TimesOK /\ LogInv /\ LogOK
  BY DEF TapInv, LogInv
<1>1. ASSUME UNCHANGED log, \A r : Caused(r) => Caused(r)' PROVE LogInv'
  BY <1>0, <1>1 DEF LogInv, LogOK
<1>2. CASE TapStarts
  <2>1. actions' = actions + 1 /\ landed' = Append(landed, -1) /\ UNCHANGED log
    BY <1>2 DEF TapStarts
  <2>2. \A a \in 1..actions : a \in 1..actions' /\ landed'[a] = landed[a]
    BY <1>0, <2>1, LandedMore DEF TimesOK
  <2> QED
    BY <1>1, <2>1, <2>2 DEF Caused, Landed
<1>3. CASE Quietly
  BY <1>0, <1>3 DEF Quietly, NotFound, TapRaises, Pull, LogInv, LogOK, Caused, Landed
<1>4. CASE TapLands
  <2>1. /\ landed' = [landed EXCEPT ![actions] = now] /\ UNCHANGED <<log, actions>>
        /\ ~Landed(actions)
    BY <1>0, <1>4 DEF TapLands, TimesOK
  <2>2. \A a \in 1..actions : Landed(a) => landed'[a] = landed[a]
    BY <1>0, <2>1 DEF TimesOK
  <2> QED
    BY <1>1, <2>1, <2>2 DEF Caused, Landed
<1>5. CASE TapReturns
  BY <1>0, <1>5 DEF TapReturns, LogInv, LogOK, Caused, Landed
<1>6. CASE Sending
  <2>1. PICK r \in Entry : /\ r.id = Len(log) + 1 /\ log' = Append(log, r)
                           /\ Begun(r) => Caused(r)
    BY <1>0, <1>6, Logs
  <2>2. Len(log) \in Nat
    BY <1>0, LenProperties DEF LogOK
  <2>3. /\ log' \in Seq(Entry) /\ Len(log') = Len(log) + 1 /\ log'[Len(log) + 1] = r
        /\ \A k \in 1..Len(log) : log'[k] = log[k]
        /\ \A k \in 1..Len(log') : log'[k].id = k
    BY <1>0, <2>1, LogMore
  <2>4. \A x : Caused(x)' <=> Caused(x)
    BY <1>6, Sends DEF Caused, Landed
  <2>5. ASSUME NEW k \in 1..Len(log'), Begun(log'[k]) PROVE Caused(log'[k])
    <3>1. CASE k = Len(log) + 1
      BY <2>1, <2>3, <2>5, <3>1
    <3>2. CASE k # Len(log) + 1
      <4>1. k \in 1..Len(log)
        BY <2>2, <2>3, <3>2
      <4> QED
        BY <1>0, <2>3, <2>5, <4>1 DEF LogInv
    <3> QED
      BY <3>1, <3>2
  <2>6. LogOK'
    BY <2>3 DEF LogOK
  <2> QED
    BY <2>4, <2>5, <2>6 DEF LogInv, Begun
<1>7. CASE Tick
  BY <1>0, <1>7 DEF Tick, LogInv, LogOK, Caused, Landed
<1>8. CASE UNCHANGED vars
  BY <1>0, <1>8 DEF vars, LogInv, LogOK, Caused, Landed
<1> QED
  BY <1>2, <1>3, <1>4, <1>5, <1>6, <1>7, <1>8, NextSplits

Marked(s, m) ==
  /\ s \in Seq([at : Nat, action : Nat]) /\ Len(s) = Len(marks) + 1 /\ s[Len(marks) + 1] = m
  /\ \A i \in 1..Len(marks) : s[i] = marks[i]

LEMMA MarkMore ==
  ASSUME MarksInv, NEW at \in Nat, NEW action \in Nat
  PROVE  /\ Len(marks) \in Nat
         /\ Marked(Append(marks, [at |-> at, action |-> action]), [at |-> at, action |-> action])
<1> DEFINE S == [at : Nat, action : Nat]
           m == [at |-> at, action |-> action]
<1>1. m \in S /\ marks \in Seq(S)
  BY DEF MarksInv
<1> HIDE DEF S, m
<1> QED
  BY <1>1, AppendProperties, LenProperties DEF Marked, S, m

LEMMA MarkTimes ==
  ASSUME MarksInv
  PROVE  \A i \in 1..Len(marks) : marks[i].at \in Nat
<1> DEFINE S == [at : Nat, action : Nat]
<1>1. marks \in Seq(S) /\ \A m \in S : m.at \in Nat
  BY DEF MarksInv
<1> HIDE DEF S
<1> QED
  BY <1>1, ElementOfSeq

LEMMA MarksNext == TapInv /\ [Next]_vars => MarksInv'
<1> SUFFICES ASSUME TapInv, [Next]_vars PROVE MarksInv'
  OBVIOUS
<1>0. /\ TimesOK /\ OneByOne /\ MarksInv
      /\ now \in Nat /\ actions \in Nat /\ Reaction \in Nat /\ landed \in [1..actions -> Int]
  BY HarnessAssumption DEF TapInv, TimesOK
\* A mark of the current action, of the current time.
<1>1. ASSUME NEW c \in {actions, actions + 1}, actions' = c, c # 0, now' = now,
             marks' = Append(marks, [at |-> now, action |-> c]),
             \A a \in 1..actions : landed'[a] = landed[a],
             \A a \in 1..actions : a < c /\ Landed(a) => landed[a] + Reaction < now
      PROVE  MarksInv'
  <2> DEFINE m == [at |-> now, action |-> c]
             n == Len(marks)
  <2>1. c \in Nat /\ m.at = now /\ m.action = c
    BY <1>0
  <2>2. n \in Nat /\ Marked(marks', m)
    BY <1>0, <1>1, <2>1, MarkMore
  <2> HIDE DEF m, n
  <2>3. /\ marks' \in Seq([at : Nat, action : Nat]) /\ Len(marks') = n + 1 /\ marks'[n + 1] = m
        /\ \A i \in 1..n : marks'[i] = marks[i]
    BY <2>2 DEF Marked, n
  <2>4. \A a \in 1..actions' : a < c => a \in 1..actions
    BY <1>0, <1>1
  <2>5. /\ \A i \in 1..n : marks[i].at \in Nat
        /\ \A i \in 1..n : marks[i].at <= now /\ marks[i].action \in 1..actions
        /\ \A i \in 1..n, a \in 1..actions :
             a < marks[i].action /\ Landed(a) => landed[a] + Reaction < marks[i].at
        /\ \A i \in 1..n, j \in 1..n : i < j => marks[i].at <= marks[j].at
    BY <1>0, MarkTimes DEF MarksInv, n
  <2>6. ASSUME NEW i \in 1..(n + 1)
        PROVE  /\ marks'[i].at <= now' /\ marks'[i].action \in 1..actions'
               /\ \A a \in 1..actions' : a < marks'[i].action /\ landed'[a] # -1 =>
                    landed'[a] + Reaction < marks'[i].at
    <3>1. CASE i = n + 1
      BY <1>0, <1>1, <2>1, <2>3, <2>4, <3>1 DEF Landed
    <3>2. CASE i # n + 1
      <4>1. i \in 1..n /\ marks'[i] = marks[i]
        BY <2>2, <2>3, <3>2
      <4>2. \A a \in 1..actions' : a < marks[i].action => a \in 1..actions
        BY <1>0, <2>5, <4>1
      <4>3. 1..actions \subseteq 1..actions'
        BY <1>0, <1>1
      <4> QED
        BY <1>1, <2>5, <4>1, <4>2, <4>3 DEF Landed
    <3> QED
      BY <3>1, <3>2
  <2>7. ASSUME NEW i \in 1..(n + 1), NEW j \in 1..(n + 1), i < j PROVE marks'[i].at <= marks'[j].at
    <3>1. i \in 1..n
      BY <2>2, <2>7
    <3>2. CASE j = n + 1
      BY <2>1, <2>3, <2>5, <3>1, <3>2
    <3>3. CASE j # n + 1
      <4>1. j \in 1..n
        BY <2>2, <3>3
      <4> QED
        BY <2>3, <2>5, <2>7, <3>1, <4>1
    <3> QED
      BY <3>2, <3>3
  <2> QED
    BY <2>3, <2>6, <2>7 DEF MarksInv, Landed
<1>2. ASSUME UNCHANGED marks, now' >= now, now' \in Nat, actions' \in {actions, actions + 1},
             \A i \in 1..Len(marks), a \in 1..actions :
               a < marks[i].action => landed'[a] = landed[a]
      PROVE  MarksInv'
  <2>1. ASSUME NEW i \in 1..Len(marks)
        PROVE  /\ marks[i].at <= now' /\ marks[i].action \in 1..actions'
               /\ \A a \in 1..actions' : a < marks[i].action /\ landed'[a] # -1 =>
                    landed'[a] + Reaction < marks[i].at
    <3>1. marks[i].at \in Nat
      BY <1>0, MarkTimes
    <3>2. marks[i].at <= now /\ marks[i].action \in 1..actions
      BY <1>0 DEF MarksInv
    <3>3. marks[i].at <= now' /\ marks[i].action \in 1..actions'
      BY <1>0, <1>2, <3>1, <3>2
    <3>4. \A a \in 1..actions' : a < marks[i].action => a \in 1..actions
      BY <1>0, <3>2
    <3> QED
      BY <1>0, <1>2, <3>3, <3>4 DEF MarksInv, Landed
  <2> QED
    BY <1>0, <1>2, <2>1 DEF MarksInv, Landed
<1>3. CASE TapStarts
  <2>1. /\ actions' = actions + 1 /\ landed' = Append(landed, -1) /\ now' = now
        /\ marks' = IF markFirst THEN Append(marks, [at |-> now, action |-> actions']) ELSE marks
        /\ \A a \in 1..actions : ~Reacting(a)
    BY <1>3 DEF TapStarts
  <2>2. \A a \in 1..actions : landed'[a] = landed[a]
    BY <1>0, <2>1, LandedMore
  <2>3. \A a \in 1..actions : Landed(a) => landed[a] + Reaction < now
    BY <1>0, <2>1 DEF Reacting, Landed
  <2>4. CASE markFirst
    <3> DEFINE c == actions + 1
    <3>1. c \in {actions, actions + 1} /\ c # 0 /\ actions' = c
      BY <1>0, <2>1
    <3>2. marks' = Append(marks, [at |-> now, action |-> c])
      BY <2>1, <2>4
    <3> HIDE DEF c
    <3> QED
      BY <1>1, <2>1, <2>2, <2>3, <3>1, <3>2
  <2>5. CASE ~markFirst
    BY <1>0, <1>2, <2>1, <2>2, <2>5
  <2> QED
    BY <2>4, <2>5
<1>4. CASE Quietly
  BY <1>0, <1>2, <1>4 DEF Quietly, NotFound, TapRaises, Pull
<1>5. CASE TapLands
  <2>1. landed' = [landed EXCEPT ![actions] = now] /\ UNCHANGED <<marks, now, actions>>
    BY <1>5 DEF TapLands
  <2>2. ASSUME NEW i \in 1..Len(marks), NEW a \in 1..actions, a < marks[i].action
        PROVE  landed'[a] = landed[a]
    <3>1. marks[i].action \in 1..actions
      BY <1>0 DEF MarksInv
    <3>2. a # actions
      BY <1>0, <2>2, <3>1
    <3> QED
      BY <1>0, <2>1, <3>2
  <2> QED
    BY <1>0, <1>2, <2>1, <2>2
<1>6. CASE TapReturns
  <2>1. /\ UNCHANGED <<now, actions, landed>> /\ driver = "tapping"
        /\ marks' = IF markFirst THEN marks ELSE Append(marks, [at |-> now, action |-> actions])
    BY <1>6 DEF TapReturns
  <2>2. CASE markFirst
    BY <1>0, <1>2, <2>1, <2>2
  <2>3. CASE ~markFirst
    <3>1. actions # 0 /\ actions \in {actions, actions + 1}
      BY <1>0, <2>1 DEF TimesOK
    <3>2. \A a \in 1..actions : a < actions /\ Landed(a) => landed[a] + Reaction < now
      BY <1>0 DEF OneByOne
    <3> QED
      BY <1>1, <2>1, <2>3, <3>1, <3>2
  <2> QED
    BY <2>2, <2>3
<1>7. CASE Sending
  BY <1>0, <1>2, <1>7, Sends
<1>8. CASE Tick
  BY <1>0, <1>2, <1>8 DEF Tick
<1>9. CASE UNCHANGED vars
  BY <1>0, <1>2, <1>9 DEF vars
<1> QED
  BY <1>3, <1>4, <1>5, <1>6, <1>7, <1>8, <1>9, NextSplits

LEMMA FirstNext == TapInv /\ [Next]_vars => FirstInv'
<1> SUFFICES ASSUME TapInv, [Next]_vars, markFirst' PROVE FirstInv'
  BY DEF FirstInv
<1>m. markFirst
  BY DEF Next, TapStarts, NotFound, TapLands, TapReturns, TapRaises, Pull, AppSends,
         AppContinues, ControllerReports, Tick, vars
<1>0. /\ TimesOK /\ MarksInv /\ MaxAdb \in Nat
      /\ now \in Nat /\ actions \in Nat /\ landed \in [1..actions -> Int]
      /\ Len(marks) = actions /\ \A a \in 1..actions : marks[a].action = a
      /\ \A a \in 1..actions : Landed(a) => marks[a].at <= landed[a] /\ landed[a] <= marks[a].at + MaxAdb
      /\ driver = "finding" => marks[actions].at = since /\ now <= since + MaxAdb
      /\ \A a \in 1..actions : marks[a].at <= now
  BY <1>m, HarnessAssumption DEF TapInv, TimesOK, FirstInv, MarksInv
<1>1. CASE TapStarts
  <2>1. /\ actions' = actions + 1 /\ landed' = Append(landed, -1) /\ now' = now /\ since' = now
        /\ marks' = Append(marks, [at |-> now, action |-> actions + 1])
    BY <1>1, <1>m DEF TapStarts
  <2> DEFINE m == [at |-> now, action |-> actions + 1]
  <2>2. /\ landed'[actions + 1] = -1
        /\ \A a \in 1..actions : landed'[a] = landed[a]
    BY <1>0, <2>1, LandedMore
  <2>3. m.at = now /\ m.action = actions + 1 /\ actions + 1 \in Nat
    BY <1>0
  <2>4. Marked(marks', m)
    BY <1>0, <2>1, <2>3, MarkMore
  <2> HIDE DEF m
  <2>5. /\ Len(marks') = actions + 1 /\ marks'[actions + 1] = m
        /\ \A a \in 1..actions : marks'[a] = marks[a]
    BY <1>0, <2>4 DEF Marked
  <2>6. ASSUME NEW a \in 1..(actions + 1)
        PROVE  /\ marks'[a].action = a
               /\ landed'[a] # -1 => marks'[a].at <= landed'[a] /\ landed'[a] <= marks'[a].at + MaxAdb
    <3>1. CASE a = actions + 1
      BY <2>2, <2>3, <2>5, <3>1
    <3>2. CASE a # actions + 1
      <4>1. a \in 1..actions
        BY <1>0, <3>2
      <4> QED
        BY <1>0, <2>2, <2>5, <4>1 DEF Landed
    <3> QED
      BY <3>1, <3>2
  <2>7. marks'[actions'].at = since' /\ now' <= since' + MaxAdb
    BY <1>0, <2>1, <2>3, <2>5
  <2> QED
    BY <2>1, <2>5, <2>6, <2>7 DEF FirstInv, Landed
<1>2. CASE Quietly
  BY <1>0, <1>2 DEF Quietly, NotFound, TapRaises, Pull, FirstInv, Landed
<1>3. CASE TapLands
  <2>1. /\ landed' = [landed EXCEPT ![actions] = now] /\ driver = "finding" /\ driver' = "tapping"
        /\ UNCHANGED <<marks, now, actions>>
    BY <1>3 DEF TapLands
  <2>2. actions \in 1..actions
    BY <1>0, <2>1 DEF TimesOK
  <2>3. marks[actions].at <= now /\ now <= marks[actions].at + MaxAdb
    BY <1>0, <2>1, <2>2
  <2>4. \A a \in 1..actions : landed'[a] = IF a = actions THEN now ELSE landed[a]
    BY <1>0, <2>1
  <2> QED
    BY <1>0, <2>1, <2>3, <2>4 DEF FirstInv, Landed
<1>4. CASE TapReturns
  BY <1>0, <1>4, <1>m DEF TapReturns, FirstInv, Landed
<1>5. CASE Sending
  BY <1>0, <1>5, Sends DEF FirstInv, Landed
<1>6. CASE Tick
  <2>1. /\ now' = now + 1 /\ UNCHANGED <<driver, since, actions, landed, marks>>
        /\ driver = "finding" => now < since + MaxAdb
    BY <1>6 DEF Tick
  <2>2. driver = "finding" => now' <= since + MaxAdb
    BY <1>0, <2>1 DEF TimesOK
  <2> QED
    BY <1>0, <2>1, <2>2 DEF FirstInv, Landed
<1>7. CASE UNCHANGED vars
  BY <1>0, <1>7 DEF vars, FirstInv, Landed
<1> QED
  BY <1>1, <1>2, <1>3, <1>4, <1>5, <1>6, <1>7, NextSplits

\* Every state has the types of a session, and the invariant of its times: an action ends
\* before the next begins, what the app sends falls between its tap and the end of its
\* reaction, and marks come in the order of their actions (android.py tap_and_mark).
THEOREM SessionCorrect == Spec => []TapInv
<1>1. Init => TapInv
  BY InitTapInv
<1>2. TapInv /\ [Next]_vars => TapInv'
  BY TimesNext, OneByOneNext, LogNext, MarksNext, FirstNext DEF TapInv
<1> QED
  BY <1>1, <1>2, PTL DEF Spec

-----------------------------------------------------------------------------
(* What is read back.                                                      *)

LEMMA Found ==
  ASSUME TapInv
  PROVE  LET found == Correlations
         IN /\ DOMAIN found = 1..Len(marks)
            /\ \A i \in 1..Len(marks) :
                 /\ found[i].mark = marks[i]
                 /\ \A id : id \in Ids(found[i].events) <=>
                              /\ id \in 1..Len(log) /\ Begun(log[id])
                              /\ Owns(i, log[id].at)
<1> DEFINE n == Len(marks)
<1>1. LogOK /\ MarksInv
  BY DEF TapInv, LogInv
<1>2. n \in Nat /\ DOMAIN marks = 1..n
  BY <1>1, LenProperties DEF MarksInv
<1>3. \A i \in 1..n : marks[i].at \in Int /\ marks[i] \in ToSet(marks)
  BY <1>1, <1>2, MarkTimes DEF ToSet
<1>4. marks \in Seq(ToSet(marks))
  <2>1. marks \in [1..n -> ToSet(marks)]
    <3>1. marks = [i \in 1..n |-> marks[i]]
      BY <1>1, <1>2 DEF MarksInv
    <3> QED
      BY <1>3, <3>1
  <2> HIDE DEF n
  <2> QED
    BY <1>2, <2>1
<1>5. Timed(marks)
  BY <1>3, <1>4 DEF Timed
<1>6. \A i \in 1..Len(marks), j \in 1..Len(marks) : i < j => marks[i].at <= marks[j].at
  BY <1>1 DEF MarksInv
<1> QED
  BY <1>1, <1>5, <1>6, Credited

LEMMA TimesOfLog ==
  ASSUME TapInv
  PROVE  /\ now \in Nat /\ actions \in Nat /\ Reaction \in Nat /\ ClockOffset \in Int
         /\ \A k \in 1..Len(log) : Begun(log[k]) =>
              /\ log[k].at \in Int /\ Caused(log[k]) /\ log[k].cause \in 1..actions
              /\ landed[log[k].cause] \in Int
         /\ \A i \in 1..Len(marks) : marks[i].at \in Int /\ marks[i].action \in 1..actions
<1>1. \A k \in 1..Len(log) : log[k] \in Entry
  BY ElementOfSeq DEF TapInv, LogInv, LogOK
<1>2. \A r \in Entry : r.at \in Int
  BY DEF Entry
<1>3. \A k \in 1..Len(log) : Begun(log[k]) => Caused(log[k])
  BY DEF TapInv, LogInv
<1>4. landed \in [1..actions -> Int] /\ now \in Nat /\ actions \in Nat
  BY DEF TapInv, TimesOK
<1>5. \A i \in 1..Len(marks) : marks[i].at \in Int /\ marks[i].action \in 1..actions
  <2>1. \A i \in 1..Len(marks) : marks[i].at \in Nat
    BY MarkTimes DEF TapInv
  <2>2. \A i \in 1..Len(marks) : marks[i].action \in 1..actions
    BY DEF TapInv, MarksInv
  <2> QED
    BY <2>1, <2>2
<1> QED
  BY <1>1, <1>2, <1>3, <1>4, <1>5, HarnessAssumption DEF Caused

LEMMA NotLater == ASSUME ClockOffset <= 0, TapInv PROVE NeverCreditedLater
<1> DEFINE found == Correlations
<1>1. /\ DOMAIN found = 1..Len(marks)
      /\ \A i \in 1..Len(marks) :
           /\ found[i].mark = marks[i]
           /\ \A id : id \in Ids(found[i].events) =>
                        /\ id \in 1..Len(log) /\ Begun(log[id])
                        /\ Owns(i, log[id].at)
  BY Found
<1> HIDE DEF found
<1>2. ASSUME NEW i \in 1..Len(marks), NEW id \in 1..Len(log), Begun(log[id]), Owns(i, log[id].at)
      PROVE  marks[i].action <= log[id].cause
  <2> DEFINE r == log[id]
             c == log[id].cause
             a == marks[i].action
  <2>1. /\ Reaction \in Nat /\ ClockOffset \in Int /\ r.at \in Int /\ c \in 1..actions
        /\ landed[c] \in Int /\ actions \in Nat /\ Caused(r)
        /\ marks[i].at \in Int /\ a \in 1..actions
    BY <1>2, TimesOfLog
  <2>2. Landed(c) /\ r.at <= landed[c] + Reaction + ClockOffset
    BY <2>1 DEF Caused
  <2>3. marks[i].at <= r.at
    BY <1>2 DEF Owns, Holds
  <2>4. c < a => landed[c] + Reaction < marks[i].at
    BY <2>1, <2>2 DEF TapInv, MarksInv
  <2> DEFINE t == r.at
             m == marks[i].at
             l == landed[c]
  <2>5. c \in Int /\ a \in Int /\ t \in Int /\ m \in Int /\ l \in Int
    BY <2>1
  <2>6. t <= l + Reaction + ClockOffset /\ m <= t /\ (c < a => l + Reaction < m)
    BY <2>2, <2>3, <2>4
  <2> HIDE DEF t, m, l, c, a
  <2>7. a <= c
    BY <2>1, <2>5, <2>6
  <2> QED
    BY <2>7 DEF c, a
<1> QED
  BY <1>1, <1>2 DEF NeverCreditedLater, found

LEMMA ReadsExactly ==
  ASSUME ClockOffset = 0, MaxAdb + Reaction <= Window, TapInv
  PROVE  ReadBackMarkedFirst
<1> SUFFICES ASSUME markFirst PROVE ReadBackExactly
  BY DEF ReadBackMarkedFirst
<1> DEFINE found == Correlations
<1>1. /\ DOMAIN found = 1..Len(marks)
      /\ \A i \in 1..Len(marks) :
           /\ found[i].mark = marks[i]
           /\ \A id : id \in Ids(found[i].events) <=>
                        /\ id \in 1..Len(log) /\ Begun(log[id])
                        /\ Owns(i, log[id].at)
  BY Found
<1> HIDE DEF found
<1>2. /\ MaxAdb \in Nat /\ Reaction \in Nat /\ Window \in Nat /\ actions \in Nat
      /\ Len(marks) = actions /\ \A a \in 1..actions : marks[a].action = a
      /\ \A a \in 1..actions : Landed(a) => marks[a].at <= landed[a] /\ landed[a] <= marks[a].at + MaxAdb
  BY HarnessAssumption, CaptureAssumption DEF TapInv, TimesOK, FirstInv
<1>3. ASSUME NEW id \in 1..Len(log), Begun(log[id]), NEW i \in 1..actions
      PROVE  Owns(i, log[id].at) <=> log[id].cause = i
  <2> DEFINE t == log[id].at
             c == log[id].cause
  <2>1. /\ t \in Int /\ c \in 1..actions /\ landed[c] \in Int /\ Caused(log[id])
        /\ \A j \in 1..actions : marks[j].at \in Int
    BY <1>2, <1>3, TimesOfLog
  <2>2. Landed(c) /\ landed[c] <= t /\ t <= landed[c] + Reaction
    BY <1>2, <2>1 DEF Caused
  <2>3. marks[c].at <= landed[c] /\ landed[c] <= marks[c].at + MaxAdb
    BY <1>2, <2>1, <2>2
  <2>4. \A j \in 1..actions : c < j => landed[c] + Reaction < marks[j].at
    BY <1>2, <2>1, <2>2 DEF TapInv, MarksInv
  <2> HIDE DEF t, c
  <2>5. marks[c].at <= t /\ t - marks[c].at <= Window
    <3> DEFINE m == marks[c].at
               l == landed[c]
    <3>1. m \in Int /\ l \in Int /\ t \in Int
      BY <2>1
    <3>2. m <= l /\ l <= m + MaxAdb /\ l <= t /\ t <= l + Reaction
      BY <2>2, <2>3
    <3> HIDE DEF m, l
    <3> QED
      BY <1>2, <3>1, <3>2 DEF m
  <2>6. \A j \in 1..actions : marks[j].at <= t => j <= c
    BY <1>2, <2>1, <2>2, <2>4
  <2>7. Holds(c, t)
    BY <1>2, <2>1, <2>5, <2>6 DEF Holds
  <2>8. Holds(i, t) => i = c
    BY <1>2, <2>1, <2>7 DEF Holds
  <2> QED
    BY <2>5, <2>7, <2>8 DEF Owns, t, c
<1>4. ASSUME NEW i \in 1..actions
      PROVE  Ids(found[i].events) = CausedBy(found[i].mark.action)
  <2>1. found[i].mark.action = i
    BY <1>1, <1>2
  <2>2. \A id : id \in Ids(found[i].events) <=> id \in 1..Len(log) /\ Begun(log[id]) /\ log[id].cause = i
    BY <1>1, <1>2, <1>3
  <2>3. DOMAIN log = 1..Len(log) /\ \A k \in 1..Len(log) : log[k].id = k
    BY LenProperties DEF TapInv, LogInv, LogOK
  <2>4. \A id : id \in CausedBy(i) <=> id \in 1..Len(log) /\ Begun(log[id]) /\ log[id].cause = i
    BY <2>3 DEF CausedBy, Begun, ToSet
  <2> QED
    BY <2>1, <2>2, <2>4
<1> QED
  BY <1>1, <1>2, <1>4 DEF ReadBackExactly, found

\* Unless the phone's clock is ahead, no frame is credited to an action after the one that
\* caused it, for either habit, any number of actions and frames, and any window
\* (android.py tap_and_mark, capture.py correlate).
THEOREM NoneCreditedLater == ASSUME ClockOffset <= 0 PROVE Spec => []NeverCreditedLater
<1>1. TapInv => NeverCreditedLater
  BY NotLater
<1> QED
  BY <1>1, SessionCorrect, PTL

\* A caller who marks before each tap reads back exactly the frames of each action, with
\* clocks that agree and a window that is as long as adb and the app's reaction can take,
\* for any number of actions and frames (capture.py Recorder.mark, correlate).
THEOREM ReadBack ==
  ASSUME ClockOffset = 0, MaxAdb + Reaction <= Window
  PROVE  Spec => []ReadBackMarkedFirst
<1>1. TapInv => ReadBackMarkedFirst
  BY ReadsExactly
<1> QED
  BY <1>1, SessionCorrect, PTL

=============================================================================
