--------------------------- MODULE SequenceFacts ----------------------------
(***************************************************************************)
(* Facts that the other proofs cite: induction on numbers without an       *)
(* operator as a parameter, functions that are defined by recursion exist, *)
(* and what FlattenSeq makes of sequences.                                 *)
(***************************************************************************)
EXTENDS Integers, SequencesExt, SequenceTheorems, WellFoundedInduction, TLAPS

-----------------------------------------------------------------------------
(* Induction and recursion.                                                *)

\* A set of numbers that is not empty has a least one.
LEMMA LeastOne ==
  ASSUME NEW S \in SUBSET Nat, S # {}
  PROVE  Min(S) \in S /\ \A k \in S : Min(S) <= k
<1>1. \E m \in S : \A k \in S : ~(<<k, m>> \in OpToRel(<, Nat))
  BY NatLessThanWellFounded, WFMin
<1>2. PICK m \in S : \A k \in S : ~(<<k, m>> \in OpToRel(<, Nat))
  BY <1>1
<1>3. ASSUME NEW k \in S
      PROVE  m <= k
  <2>1. <<k, m>> \notin OpToRel(<, Nat)
    BY <1>2
  <2>2. <<k, m>> \in Nat \X Nat /\ <<k, m>>[1] = k /\ <<k, m>>[2] = m
    OBVIOUS
  <2>3. ~(k < m)
    BY <2>1, <2>2 DEF OpToRel
  <2> QED
    BY <2>3
<1> QED
  BY <1>3 DEF Min

\* Induction on a rank: T holds everything that has a rank when it holds what it is
\* preceded by.
LEMMA RankInduction ==
  ASSUME NEW D, NEW rank \in [D -> Nat], NEW T,
         \A i \in D : (\A j \in D : rank[j] < rank[i] => j \in T) => i \in T
  PROVE  D \subseteq T
<1> DEFINE S == {rank[i] : i \in D \ T}
<1>1. SUFFICES ASSUME S # {} PROVE FALSE
  OBVIOUS
<1>2. S \in SUBSET Nat
  OBVIOUS
<1> DEFINE m == Min(S)
<1>3. m \in S /\ \A k \in S : m <= k
  BY <1>1, <1>2, LeastOne
<1> HIDE DEF m
<1>4. PICK i \in D \ T : rank[i] = m
  BY <1>3
<1>5. ASSUME NEW j \in D, rank[j] < rank[i], j \notin T
      PROVE  FALSE
  <2>1. rank[j] \in S /\ rank[j] \in Nat /\ rank[i] \in Nat
    BY <1>5
  <2> QED
    BY <1>3, <1>4, <1>5, <2>1
<1> QED
  BY <1>4, <1>5

\* A recursion: where it stops the value is base[i], elsewhere op[i] of the value at next[i],
\* which has a smaller rank.
Recurs(D, V, r, rank, stop, base, op, next) ==
  /\ r \in Nat /\ rank \in [D -> 0..r]
  /\ base \in [D -> V] /\ op \in [D -> [V -> V]] /\ next \in [D -> D]
  /\ \A i \in D : i \notin stop => rank[next[i]] < rank[i]
Solves(f, D, stop, base, op, next) ==
  \A i \in D : f[i] = IF i \in stop THEN base[i] ELSE op[i][f[next[i]]]

\* A function that is defined by recursion to smaller ranks exists.
LEMMA Recursion ==
  ASSUME NEW D, NEW V, NEW r, NEW rank, NEW stop, NEW base, NEW op, NEW next,
         Recurs(D, V, r, rank, stop, base, op, next)
  PROVE  \E f \in [D -> V] : Solves(f, D, stop, base, op, next)
<1> USE DEF Recurs, Solves
<1> DEFINE E(n) == {i \in D : rank[i] < n}
           Fits(f, n) == \A i \in E(n) :
                           f[i] = IF i \in stop THEN base[i] ELSE op[i][f[next[i]]]
           T == {n \in Nat : \E f \in [E(n) -> V] : Fits(f, n)}
           id == [n \in Nat |-> n]
<1>1. ASSUME NEW n \in Nat, n \in T
      PROVE  n + 1 \in T
  <2>1. PICK f \in [E(n) -> V] : Fits(f, n)
    BY <1>1
  <2> DEFINE g == [i \in E(n + 1) |->
                     IF i \in stop THEN base[i] ELSE op[i][f[next[i]]]]
  <2>2. ASSUME NEW i \in E(n + 1), i \notin stop
        PROVE  next[i] \in E(n) /\ f[next[i]] \in V
    <3>1. rank[next[i]] < rank[i] /\ rank[i] < n + 1 /\ next[i] \in D
      BY <2>2
    <3>2. rank[i] \in Nat /\ rank[next[i]] \in Nat
      BY <3>1
    <3> QED
      BY <3>1, <3>2
  <2>3. g \in [E(n + 1) -> V]
    BY <2>2
  <2>4. ASSUME NEW i \in E(n)
        PROVE  i \in E(n + 1) /\ g[i] = f[i]
    <3>1. rank[i] \in Nat /\ rank[i] < n
      OBVIOUS
    <3>2. i \in E(n + 1)
      BY <3>1
    <3> QED
      BY <2>1, <3>2
  <2>5. Fits(g, n + 1)
    BY <2>2, <2>4
  <2>6. n + 1 \in Nat
    OBVIOUS
  <2> HIDE DEF g, Fits, E
  <2> QED
    BY <2>3, <2>5, <2>6
<1>2. 0 \in T
  <2>1. E(0) = {}
    OBVIOUS
  <2> DEFINE f == [i \in E(0) |-> base[i]]
  <2>2. f \in [E(0) -> V] /\ Fits(f, 0)
    BY <2>1
  <2> HIDE DEF Fits, E, f
  <2> QED
    BY <2>2
<1>3. Nat \subseteq T
  <2> HIDE DEF T, Recurs, Solves
  <2>1. id \in [Nat -> Nat]
    OBVIOUS
  <2>2. ASSUME NEW i \in Nat, \A j \in Nat : id[j] < id[i] => j \in T
        PROVE  i \in T
    <3>1. CASE i = 0
      BY <1>2, <3>1
    <3>2. CASE i # 0
      <4>1. i - 1 \in Nat /\ id[i - 1] < id[i] /\ i - 1 + 1 = i
        BY <3>2
      <4>2. i - 1 \in T
        BY <2>2, <4>1
      <4>3. (i - 1) + 1 \in T
        BY <1>1, <4>1, <4>2
      <4> QED
        BY <4>1, <4>3
    <3> QED
      BY <3>1, <3>2
  <2> HIDE DEF id
  <2>3. \A i \in Nat : (\A j \in Nat : id[j] < id[i] => j \in T) => i \in T
    BY <2>2
  <2> QED
    BY <2>1, <2>3, RankInduction
<1>4. r + 1 \in Nat /\ E(r + 1) = D
  OBVIOUS
<1>5. PICK f \in [E(r + 1) -> V] : Fits(f, r + 1)
  BY <1>3, <1>4
<1> QED
  BY <1>4, <1>5

\* The two directions in which the framing code walks: from a to what its n-th step makes
\* of it, and from the end of a buffer back to its start.
LEMMA UpInduction ==
  ASSUME NEW n \in Nat, NEW T, 0 \in T, \A k \in 1..n : k - 1 \in T => k \in T
  PROVE  0..n \subseteq T
<1> DEFINE D == 0..n
           rank == [k \in D |-> k]
<1>1. rank \in [D -> Nat]
  OBVIOUS
<1>2. \A i \in D : (\A j \in D : rank[j] < rank[i] => j \in T) => i \in T
  <2>1. SUFFICES ASSUME NEW i \in D, \A j \in D : rank[j] < rank[i] => j \in T
                 PROVE  i \in T
    OBVIOUS
  <2>2. CASE i # 0
    <3>1. i - 1 \in D /\ i \in 1..n /\ rank[i - 1] < rank[i]
      BY <2>2
    <3> QED
      BY <2>1, <3>1
  <2> QED
    BY <2>2
<1> HIDE DEF D, rank
<1>3. D \subseteq T
  BY <1>1, <1>2, RankInduction
<1> QED
  BY <1>3 DEF D

LEMMA DownInduction ==
  ASSUME NEW n \in Nat, NEW T, \A i \in 1..n : (\A j \in (i + 1)..n : j \in T) => i \in T
  PROVE  1..n \subseteq T
<1> DEFINE D == 1..n
           rank == [k \in D |-> n - k]
<1>1. rank \in [D -> Nat]
  OBVIOUS
<1>2. \A i \in D : (\A j \in D : rank[j] < rank[i] => j \in T) => i \in T
  <2>1. SUFFICES ASSUME NEW i \in D, \A j \in D : rank[j] < rank[i] => j \in T
                 PROVE  i \in T
    OBVIOUS
  <2>2. \A j \in (i + 1)..n : j \in T
    BY <2>1
  <2> QED
    BY <2>2
<1> HIDE DEF D, rank
<1>3. D \subseteq T
  BY <1>1, <1>2, RankInduction
<1> QED
  BY <1>3 DEF D

Iterates(f, n, a, op) == f[0] = a /\ \A k \in 1..n : f[k] = op[k][f[k - 1]]
Iteration(n, V, a, op) == n \in Nat /\ a \in V /\ op \in [1..n -> [V -> V]]

LEMMA UpRecursion ==
  ASSUME NEW n, NEW V, NEW a, NEW op, Iteration(n, V, a, op)
  PROVE  \E f \in [0..n -> V] : Iterates(f, n, a, op)
<1> USE DEF Iteration, Iterates
<1> DEFINE D == 0..n
           stop == {0}
           rank == [k \in D |-> k]
           base == [k \in D |-> a]
           fun == [k \in D |-> IF k = 0 THEN [v \in V |-> v] ELSE op[k]]
           next == [k \in D |-> IF k = 0 THEN 0 ELSE k - 1]
<1>1. rank \in [D -> 0..n] /\ base \in [D -> V] /\ next \in [D -> D]
  OBVIOUS
<1>2. fun \in [D -> [V -> V]]
  OBVIOUS
<1>3. \A k \in D : k \notin stop => rank[next[k]] < rank[k]
  OBVIOUS
<1> HIDE DEF D, stop, rank, base, fun, next
<1>r. Recurs(D, V, n, rank, stop, base, fun, next)
  BY <1>1, <1>2, <1>3 DEF Recurs
<1>4. PICK f \in [D -> V] : Solves(f, D, stop, base, fun, next)
  BY <1>r, Recursion
<1> USE DEF D, stop, base, fun, next
<1>5. f[0] = a /\ \A k \in 1..n : f[k] = op[k][f[k - 1]]
  BY <1>4 DEF Solves
<1> QED
  BY <1>5

Descent(n, V, stop, base, op, next) ==
  /\ n \in Nat
  /\ base \in [1..n -> V] /\ op \in [1..n -> [V -> V]] /\ next \in [1..n -> Int]
  /\ \A i \in 1..n : i \notin stop => next[i] \in (i + 1)..n
Descends(f, n, stop, base, op, next) ==
  \A i \in 1..n : f[i] = IF i \in stop THEN base[i] ELSE op[i][f[next[i]]]

LEMMA DownRecursion ==
  ASSUME NEW n, NEW V, NEW stop, NEW base, NEW op, NEW next,
         Descent(n, V, stop, base, op, next)
  PROVE  \E f \in [1..n -> V] : Descends(f, n, stop, base, op, next)
<1> USE DEF Descent, Descends
<1> DEFINE D == 1..n
           rank == [k \in D |-> n - k]
           to == [k \in D |-> IF k \in stop THEN k ELSE next[k]]
<1>1. rank \in [D -> 0..n]
  OBVIOUS
<1>2. to \in [D -> D]
  OBVIOUS
<1>3. \A k \in D : k \notin stop => rank[to[k]] < rank[k]
  OBVIOUS
<1> HIDE DEF D, rank, to
<1>4. base \in [D -> V] /\ op \in [D -> [V -> V]]
  BY DEF D
<1>r. Recurs(D, V, n, rank, stop, base, op, to)
  BY <1>1, <1>2, <1>3, <1>4 DEF Recurs
<1>5. PICK f \in [D -> V] : Solves(f, D, stop, base, op, to)
  BY <1>r, Recursion
<1>6. \A i \in D : f[i] = IF i \in stop THEN base[i] ELSE op[i][f[next[i]]]
  BY <1>5 DEF to, Solves
<1> QED
  BY <1>5, <1>6 DEF D

\* What holds of the first value and of each one after one of which it holds.
LEMMA UpValues ==
  ASSUME NEW n \in Nat, NEW V, NEW f, f[0] \in V,
         \A k \in 1..n : f[k - 1] \in V => f[k] \in V
  PROVE  \A k \in 0..n : f[k] \in V
<1> DEFINE T == {k \in 0..n : f[k] \in V}
<1>1. 0 \in T /\ \A k \in 1..n : k - 1 \in T => k \in T
  OBVIOUS
<1> HIDE DEF T
<1>2. 0..n \subseteq T
  BY <1>1, UpInduction
<1> QED
  BY <1>2 DEF T

\* What holds of every value whose later ones it holds of.
LEMMA DownValues ==
  ASSUME NEW n \in Nat, NEW V, NEW f,
         \A i \in 1..n : (\A j \in (i + 1)..n : f[j] \in V) => f[i] \in V
  PROVE  \A i \in 1..n : f[i] \in V
<1> DEFINE T == {k \in 1..n : f[k] \in V}
<1>1. \A i \in 1..n : (\A j \in (i + 1)..n : j \in T) => i \in T
  OBVIOUS
<1> HIDE DEF T
<1>2. 1..n \subseteq T
  BY <1>1, DownInduction
<1> QED
  BY <1>2 DEF T

LEMMA Cuts ==
  ASSUME NEW S, NEW s \in Seq(S), NEW m \in Nat \ {0}, NEW n \in Int, n <= Len(s)
  PROVE  /\ SubSeq(s, m, n) \in Seq(S)
         /\ Len(SubSeq(s, m, n)) = IF m <= n THEN n - m + 1 ELSE 0
         /\ \A i \in 1..(n - m + 1) : SubSeq(s, m, n)[i] = s[m + i - 1]
<1>1. \A i \in m..n : s[i] \in S
  <2>1. ASSUME NEW i \in m..n PROVE i \in 1..Len(s)
    BY LenProperties
  <2> QED
    BY <2>1, ElementOfSeq
<1> QED
  BY <1>1, SubSeqProperties

-----------------------------------------------------------------------------
(* Concatenation.                                                          *)

\* f holds the concatenations of the first sequences of seqs.
Flattens(f, seqs, S) ==
  /\ f \in [0..Len(seqs) -> Seq(S)] /\ f[0] = <<>>
  /\ \A k \in 1..Len(seqs) : f[k] = f[k - 1] \o seqs[k]
  /\ FlattenSeq(seqs) = f[Len(seqs)]

LEMMA Flattened ==
  ASSUME NEW S, NEW seqs \in Seq(Seq(S))
  PROVE  \E f : Flattens(f, seqs, S)
<1> DEFINE n == Len(seqs)
           op == [k \in 1..n |-> [v \in Seq(S) |-> v \o seqs[k]]]
           Flat(f) == f = [i \in 1..n |-> IF i = 1 THEN seqs[i] ELSE f[i - 1] \o seqs[i]]
           flatten == CHOOSE f : Flat(f)
           g == [k \in 0..n |-> IF k = 0 THEN <<>> ELSE flatten[k]]
<1>1. n \in Nat
  OBVIOUS
<1>s. ASSUME NEW k \in 1..n PROVE seqs[k] \in Seq(S)
  BY ElementOfSeq
<1>a. ASSUME NEW k \in 1..n, NEW v \in Seq(S) PROVE v \o seqs[k] \in Seq(S)
  BY <1>s, ConcatProperties
<1>e. <<>> \in Seq(S)
  BY EmptySeq
<1>2. op \in [1..n -> [Seq(S) -> Seq(S)]]
  BY <1>a
<1>3. CASE n = 0
  <2>1. FlattenSeq(seqs) = <<>>
    BY <1>3 DEF FlattenSeq
  <2> DEFINE f == [k \in {0} |-> <<>>]
  <2>2. Flattens(f, seqs, S)
    BY <1>3, <1>e, <2>1 DEF Flattens
  <2> QED
    BY <2>2
<1>4. CASE n # 0
  <2>1. FlattenSeq(seqs) = flatten[n]
    BY <1>4 DEF FlattenSeq
  <2> HIDE DEF n
  <2>2. \E f : Flat(f)
    <3>1. Iteration(n, Seq(S), <<>>, op)
      BY <1>1, <1>2, <1>e DEF Iteration
    <3> HIDE DEF op
    <3>2. PICK f \in [0..n -> Seq(S)] : Iterates(f, n, <<>>, op)
      BY <3>1, UpRecursion
    <3> DEFINE h == [i \in 1..n |-> f[i]]
    <3>3. ASSUME NEW k \in 1..n
          PROVE  h[k] = IF k = 1 THEN seqs[k] ELSE h[k - 1] \o seqs[k]
      <4>1. f[k] = op[k][f[k - 1]] /\ k - 1 \in 0..n
        BY <1>1, <3>2 DEF Iterates
      <4>2. f[k - 1] \in Seq(S)
        BY <4>1
      <4>3. f[k] = f[k - 1] \o seqs[k]
        BY <4>1, <4>2 DEF op
      <4>4. CASE k = 1
        <5>1. f[k - 1] = <<>>
          BY <3>2, <4>4 DEF Iterates
        <5>2. f[k] = seqs[k]
          BY <1>s, <4>3, <5>1, ConcatEmptySeq
        <5> QED
          BY <4>4, <5>2
      <4>5. CASE k # 1
        <5>1. k - 1 \in 1..n
          BY <1>1, <4>5
        <5> QED
          BY <4>3, <4>5, <5>1
      <4> QED
        BY <4>4, <4>5
    <3>4. Flat(h)
      BY <3>3
    <3> QED
      BY <3>4
  <2>3. Flat(flatten)
    BY <2>2
  <2> HIDE DEF flatten
  <2>4. ASSUME NEW k \in 1..n
        PROVE  flatten[k] = IF k = 1 THEN seqs[k] ELSE flatten[k - 1] \o seqs[k]
    BY <2>3
  <2>5. g[0] = <<>> /\ \A k \in 1..n : g[k] = flatten[k]
    BY <1>1
  <2>6. ASSUME NEW k \in 1..n, g[k - 1] \in Seq(S)
        PROVE  g[k] = g[k - 1] \o seqs[k]
    <3>1. CASE k = 1
      <4>1. g[k - 1] = <<>> /\ g[k] = seqs[k]
        BY <2>4, <2>5, <3>1
      <4> QED
        BY <1>s, <4>1, ConcatEmptySeq
    <3>2. CASE k # 1
      <4>1. k - 1 \in 1..n
        BY <1>1, <3>2
      <4>2. g[k - 1] = flatten[k - 1] /\ g[k] = flatten[k]
        BY <2>5, <4>1
      <4> QED
        BY <2>4, <3>2, <4>2
    <3> QED
      BY <3>1, <3>2
  <2> DEFINE V == Seq(S)
  <2>7. g[0] \in V /\ \A k \in 1..n : g[k - 1] \in V => g[k] \in V
    BY <1>a, <1>e, <2>5, <2>6
  <2>8. DOMAIN g = 0..n /\ g = [k \in 0..n |-> g[k]]
    OBVIOUS
  <2> HIDE DEF g, V
  <2>9. \A k \in 0..n : g[k] \in V
    BY <1>1, <2>7, UpValues
  <2> USE DEF V
  <2>10. g \in [0..n -> Seq(S)]
    BY <2>8, <2>9
  <2>11. \A k \in 1..n : g[k] = g[k - 1] \o seqs[k]
    <3>1. ASSUME NEW k \in 1..n PROVE k - 1 \in 0..n
      BY <1>1
    <3> QED
      BY <2>6, <2>9, <3>1
  <2>12. FlattenSeq(seqs) = g[n]
    BY <1>1, <1>4, <2>1, <2>5
  <2>13. Flattens(g, seqs, S)
    BY <2>5, <2>10, <2>11, <2>12 DEF Flattens, n
  <2> QED
    BY <2>13
<1> QED
  BY <1>3, <1>4

LEMMA FlattenType ==
  ASSUME NEW S, NEW seqs \in Seq(Seq(S))
  PROVE  FlattenSeq(seqs) \in Seq(S)
<1>1. PICK f : Flattens(f, seqs, S)
  BY Flattened
<1>2. Len(seqs) \in 0..Len(seqs)
  OBVIOUS
<1> QED
  BY <1>1, <1>2 DEF Flattens

LEMMA FlattenConcat ==
  ASSUME NEW S, NEW s \in Seq(Seq(S)), NEW t \in Seq(Seq(S))
  PROVE  FlattenSeq(s \o t) = FlattenSeq(s) \o FlattenSeq(t)
<1> DEFINE m == Len(s)
           n == Len(t)
           u == s \o t
<1>1. u \in Seq(Seq(S)) /\ Len(u) = m + n /\ m \in Nat /\ n \in Nat
  OBVIOUS
<1>2. /\ \A k \in 1..m : u[k] = s[k] /\ s[k] \in Seq(S)
      /\ \A k \in 1..n : u[m + k] = t[k] /\ t[k] \in Seq(S)
  BY ElementOfSeq, ConcatProperties
<1> HIDE DEF u
<1>3. PICK f : Flattens(f, s, S)
  BY Flattened
<1>4. PICK g : Flattens(g, t, S)
  BY Flattened
<1>5. PICK h : Flattens(h, u, S)
  BY <1>1, Flattened
<1>6. /\ f \in [0..m -> Seq(S)] /\ f[0] = <<>> /\ \A k \in 1..m : f[k] = f[k - 1] \o s[k]
      /\ FlattenSeq(s) = f[m]
  BY <1>3 DEF Flattens
<1>7. /\ g \in [0..n -> Seq(S)] /\ g[0] = <<>> /\ \A k \in 1..n : g[k] = g[k - 1] \o t[k]
      /\ FlattenSeq(t) = g[n]
  BY <1>4 DEF Flattens
<1>8. /\ h[0] = <<>> /\ \A k \in 1..(m + n) : h[k] = h[k - 1] \o u[k]
      /\ FlattenSeq(u) = h[m + n]
  BY <1>1, <1>5 DEF Flattens
<1> HIDE DEF m, n
<1>9. h[m] = f[m]
  <2> DEFINE T == {k \in 0..m : h[k] = f[k]}
  <2>1. 0 \in T
    BY <1>1, <1>6, <1>8
  <2>2. ASSUME NEW k \in 1..m, k - 1 \in T PROVE k \in T
    <3>1. k \in 1..(m + n) /\ k \in 0..m
      BY <1>1
    <3>2. h[k] = h[k - 1] \o u[k] /\ f[k] = f[k - 1] \o s[k] /\ u[k] = s[k]
      BY <1>2, <1>6, <1>8, <3>1
    <3> QED
      BY <2>2, <3>1, <3>2
  <2> HIDE DEF T
  <2>3. 0..m \subseteq T
    BY <1>1, <2>1, <2>2, UpInduction
  <2> QED
    BY <1>1, <2>3 DEF T
<1>10. h[m + n] = f[m] \o g[n]
  <2> DEFINE T == {k \in 0..n : h[m + k] = f[m] \o g[k]}
  <2>1. f[m] \in Seq(S)
    BY <1>1, <1>6
  <2>2. 0 \in T
    <3>1. f[m] \o g[0] = f[m]
      BY <1>7, <2>1, ConcatEmptySeq
    <3>2. m + 0 = m /\ 0 \in 0..n
      BY <1>1
    <3>3. h[m + 0] = f[m] \o g[0]
      BY Zenon, <1>9, <3>1, <3>2
    <3> QED
      BY <3>2, <3>3
  <2>3. ASSUME NEW k \in 1..n, k - 1 \in T PROVE k \in T
    <3> DEFINE i == m + k
               a == f[m]
               b == g[k - 1]
               c == t[k]
    <3>1. i \in 1..(m + n) /\ k \in 0..n /\ k - 1 \in 0..n /\ i - 1 = m + (k - 1)
      BY <1>1
    <3>2. u[i] = c
      BY <1>2
    <3>3. h[i] = h[i - 1] \o c
      <4> HIDE DEF i, c
      <4> QED
        BY <1>8, <3>1, <3>2
    <3>4. h[m + (k - 1)] = a \o b
      BY <2>3
    <3>a. a \in Seq(S) /\ b \in Seq(S) /\ c \in Seq(S)
      BY <1>2, <1>7, <2>1, <3>1
    <3>5. h[i] = a \o (b \o c)
      <4>1. h[i - 1] = a \o b
        BY <3>1, <3>4
      <4> HIDE DEF i, a, b, c, T
      <4>2. (a \o b) \o c = a \o (b \o c)
        BY SMTT(60), <3>a, ConcatAssociative
      <4> QED
        BY Zenon, <3>3, <4>1, <4>2
    <3>6. g[k] = g[k - 1] \o t[k]
      BY <1>7
    <3> QED
      BY <3>1, <3>5, <3>6
  <2> HIDE DEF T
  <2>4. 0..n \subseteq T
    BY <1>1, <2>2, <2>3, UpInduction
  <2>5. n \in T
    BY <1>1, <2>4
  <2> QED
    BY <2>5 DEF T
<1> QED
  BY <1>6, <1>7, <1>8, <1>10 DEF u

\* What F makes of the elements of s, one after another.
FlatMap(s, F) == FlattenSeq([k \in 1..Len(s) |-> F[s[k]]])

LEMMA FlatMapArgs ==
  ASSUME NEW S, NEW T, NEW F \in [S -> Seq(T)], NEW s \in Seq(S)
  PROVE  /\ [k \in 1..Len(s) |-> F[s[k]]] \in Seq(Seq(T))
         /\ Len([k \in 1..Len(s) |-> F[s[k]]]) = Len(s)
<1> DEFINE n == Len(s)
           V == Seq(T)
           b == [k \in 1..n |-> F[s[k]]]
<1>1. n \in Nat
  BY LenProperties
<1>2. \A k \in 1..n : F[s[k]] \in V
  BY ElementOfSeq
<1>3. b \in [1..n -> V]
  BY <1>2
<1> HIDE DEF b, n, V
<1>4. b \in Seq(V) /\ Len(b) = n
  BY <1>1, <1>3
<1> QED
  BY <1>4 DEF b, n, V

LEMMA FlatMapType ==
  ASSUME NEW S, NEW T, NEW F \in [S -> Seq(T)], NEW s \in Seq(S)
  PROVE  FlatMap(s, F) \in Seq(T)
<1> DEFINE b == [k \in 1..Len(s) |-> F[s[k]]]
<1>1. b \in Seq(Seq(T))
  BY FlatMapArgs
<1>2. FlatMap(s, F) = FlattenSeq(b)
  BY DEF FlatMap
<1> HIDE DEF b
<1> QED
  BY <1>1, <1>2, FlattenType

LEMMA FlatMapConcat ==
  ASSUME NEW S, NEW T, NEW F \in [S -> Seq(T)], NEW s \in Seq(S), NEW t \in Seq(S)
  PROVE  FlatMap(s \o t, F) = FlatMap(s, F) \o FlatMap(t, F)
<1> DEFINE B(x) == [k \in 1..Len(x) |-> F[x[k]]]
           V == Seq(T)
           all == s \o t
<1>1. Len(s) \in Nat /\ Len(t) \in Nat
  BY LenProperties
<1>2. all \in Seq(S) /\ Len(all) = Len(s) + Len(t)
  BY ConcatProperties
<1>3. \A k \in 1..Len(s) : all[k] = s[k]
  BY ConcatProperties
<1>4. \A k \in (Len(s) + 1)..Len(all) : all[k] = t[k - Len(s)]
  BY <1>1, <1>2, ConcatProperties
<1> HIDE DEF all
<1>5. \A x \in Seq(S) : B(x) \in Seq(V) /\ Len(B(x)) = Len(x)
  BY FlatMapArgs
<1>6. B(all) = B(s) \o B(t)
  <2> DEFINE c == B(all)
             d == B(s)
             e == B(t)
             f == d \o e
  <2>1. /\ c \in Seq(V) /\ Len(c) = Len(s) + Len(t)
        /\ d \in Seq(V) /\ Len(d) = Len(s)
        /\ e \in Seq(V) /\ Len(e) = Len(t)
    BY <1>2, <1>5
  <2>2. /\ \A k \in 1..Len(all) : c[k] = F[all[k]]
        /\ \A k \in 1..Len(s) : d[k] = F[s[k]]
        /\ \A k \in 1..Len(t) : e[k] = F[t[k]]
    OBVIOUS
  <2> HIDE DEF c, d, e, B, V
  <2>3. f \in Seq(V) /\ Len(f) = Len(d) + Len(e)
    BY <2>1, ConcatProperties
  <2>4. \A k \in 1..Len(d) : f[k] = d[k]
    BY <2>1, ConcatProperties
  <2>5. \A k \in 1..(Len(d) + Len(e)) : k > Len(d) => f[k] = e[k - Len(d)]
    BY <2>1, ConcatProperties
  <2> HIDE DEF f
  <2>6. ASSUME NEW k \in 1..Len(f)
        PROVE  c[k] = f[k]
    <3>1. CASE k <= Len(s)
      <4>1. k \in 1..Len(s) /\ k \in 1..Len(all)
        BY <1>1, <1>2, <2>1, <2>3, <3>1
      <4>2. f[k] = d[k]
        BY <2>1, <2>4, <4>1
      <4> QED
        BY <1>3, <2>2, <4>1, <4>2
    <3>2. CASE k > Len(s)
      <4> DEFINE j == k - Len(s)
      <4>1. k \in 1..(Len(d) + Len(e)) /\ k > Len(d)
        BY <1>1, <2>1, <2>3, <3>2
      <4>2. f[k] = e[j]
        BY <2>1, <2>5, <4>1
      <4>3. j \in 1..Len(t) /\ k \in (Len(s) + 1)..Len(all) /\ k \in 1..Len(all)
        BY <1>1, <1>2, <2>1, <2>3, <3>2
      <4>4. all[k] = t[j]
        BY <1>4, <4>3
      <4> HIDE DEF j
      <4> QED
        BY <2>2, <4>2, <4>3, <4>4
    <3> QED
      BY <1>1, <2>1, <2>3, <3>1, <3>2
  <2>7. Len(c) = Len(f)
    BY <2>1, <2>3
  <2>8. c = f
    BY <2>1, <2>3, <2>6, <2>7, SeqEqual
  <2> QED
    BY <2>8 DEF c, d, e, f
<1>7. /\ FlatMap(all, F) = FlattenSeq(B(all)) /\ FlatMap(s, F) = FlattenSeq(B(s))
      /\ FlatMap(t, F) = FlattenSeq(B(t))
  BY DEF FlatMap
<1>8. B(s) \in Seq(Seq(T)) /\ B(t) \in Seq(Seq(T))
  BY <1>5
<1> HIDE DEF B
<1>9. FlattenSeq(B(s) \o B(t)) = FlattenSeq(B(s)) \o FlattenSeq(B(t))
  BY <1>8, FlattenConcat
<1> QED
  BY <1>6, <1>7, <1>9 DEF all

\* Nothing of nothing, and of one element what F makes of it.
LEMMA FlatMapFew ==
  ASSUME NEW S, NEW T, NEW F \in [S -> Seq(T)]
  PROVE  FlatMap(<<>>, F) = <<>> /\ \A x \in S : FlatMap(<<x>>, F) = F[x]
<1>1. FlatMap(<<>>, F) = <<>>
  <2> DEFINE b == [k \in 1..Len(<<>>) |-> F[<<>>[k]]]
  <2>1. b = <<>> /\ b \in Seq(Seq(T)) /\ Len(b) = 0
    OBVIOUS
  <2>2. FlatMap(<<>>, F) = FlattenSeq(b)
    BY DEF FlatMap
  <2> HIDE DEF b
  <2>3. PICK f : Flattens(f, b, T)
    BY <2>1, Flattened
  <2> QED
    BY <2>1, <2>2, <2>3 DEF Flattens
<1>2. ASSUME NEW x \in S PROVE FlatMap(<<x>>, F) = F[x]
  <2> DEFINE b == [k \in 1..Len(<<x>>) |-> F[<<x>>[k]]]
  <2>1. <<x>> \in Seq(S) /\ Len(<<x>>) = 1 /\ <<x>>[1] = x
    OBVIOUS
  <2>2. b \in Seq(Seq(T)) /\ Len(b) = 1
    BY <2>1, FlatMapArgs
  <2>3. b[1] = F[x]
    BY <2>1
  <2>4. FlatMap(<<x>>, F) = FlattenSeq(b)
    BY DEF FlatMap
  <2> HIDE DEF b
  <2>5. PICK f : Flattens(f, b, T)
    BY <2>2, Flattened
  <2>6. 1 \in 1..Len(b)
    BY <2>2
  <2>7. f[1] = f[1 - 1] \o b[1] /\ f[0] = <<>> /\ FlattenSeq(b) = f[1]
    BY <2>2, <2>5, <2>6 DEF Flattens
  <2>8. F[x] \in Seq(T) /\ 1 - 1 = 0
    OBVIOUS
  <2>9. <<>> \o F[x] = F[x]
    BY <2>8, ConcatEmptySeq
  <2> QED
    BY <2>3, <2>4, <2>7, <2>8, <2>9
<1> QED
  BY <1>1, <1>2

\* F makes nothing of elements none of which it makes something of.
LEMMA FlatMapNothing ==
  ASSUME NEW S, NEW T, NEW F \in [S -> Seq(T)], NEW U, U \subseteq S, \A x \in U : F[x] = <<>>,
         NEW s \in Seq(U)
  PROVE  FlatMap(s, F) = <<>>
<1> DEFINE n == Len(s)
           b == [k \in 1..n |-> F[s[k]]]
<1>1. s \in Seq(S) /\ n \in Nat
  BY LenProperties
<1>2. b \in Seq(Seq(T)) /\ Len(b) = n
  BY <1>1, FlatMapArgs
<1>3. \A k \in 1..n : s[k] \in U
  BY ElementOfSeq
<1>4. \A k \in 1..n : b[k] = <<>>
  BY <1>3
<1>5. FlatMap(s, F) = FlattenSeq(b)
  BY DEF FlatMap
<1> HIDE DEF b, n
<1>6. PICK f : Flattens(f, b, T)
  BY <1>2, Flattened
<1>7. /\ f[0] = <<>> /\ \A k \in 1..n : f[k] = f[k - 1] \o b[k]
      /\ FlattenSeq(b) = f[n]
  BY <1>2, <1>6 DEF Flattens
<1>8. f[n] = <<>>
  <2> DEFINE N == {k \in 0..n : f[k] = <<>>}
  <2>1. 0 \in N
    BY <1>1, <1>7
  <2>2. ASSUME NEW k \in 1..n, k - 1 \in N PROVE k \in N
    <3>1. f[k - 1] = <<>> /\ b[k] = <<>> /\ f[k] = f[k - 1] \o b[k]
      BY <1>4, <1>7, <2>2
    <3>2. <<>> \o <<>> = <<>>
      OBVIOUS
    <3> QED
      BY <1>1, <3>1, <3>2
  <2> HIDE DEF N
  <2>3. 0..n \subseteq N
    BY <1>1, <2>1, <2>2, UpInduction
  <2>4. n \in N
    BY <1>1, <2>3
  <2> QED
    BY <2>4 DEF N
<1> QED
  BY <1>5, <1>7, <1>8

LEMMA FlattenFew ==
  ASSUME NEW S
  PROVE  FlattenSeq(<<>>) = <<>> /\ \A x \in Seq(S) : FlattenSeq(<<x>>) = x
<1>1. FlattenSeq(<<>>) = <<>>
  <2> DEFINE b == <<>>
  <2>1. b \in Seq(Seq(S)) /\ Len(b) = 0
    OBVIOUS
  <2> HIDE DEF b
  <2>2. PICK f : Flattens(f, b, S)
    BY <2>1, Flattened
  <2>3. FlattenSeq(b) = <<>>
    BY <2>1, <2>2 DEF Flattens
  <2> QED
    BY <2>3 DEF b
<1>2. ASSUME NEW x \in Seq(S) PROVE FlattenSeq(<<x>>) = x
  <2> DEFINE b == <<x>>
             V == Seq(S)
  <2>1. x \in V
    OBVIOUS
  <2> HIDE DEF V
  <2>2. b \in Seq(V) /\ Len(b) = 1 /\ b[1] = x
    BY <2>1
  <2> HIDE DEF b
  <2>3. PICK f : Flattens(f, b, S)
    BY <2>2, Flattened DEF V
  <2>4. 1 \in 1..Len(b)
    BY <2>2
  <2>5. f[1] = f[1 - 1] \o b[1] /\ f[0] = <<>> /\ FlattenSeq(b) = f[1]
    BY <2>2, <2>3, <2>4 DEF Flattens
  <2>6. 1 - 1 = 0 /\ <<>> \o x = x
    BY ConcatEmptySeq
  <2> QED
    BY <2>2, <2>5, <2>6 DEF b
<1> QED
  BY <1>1, <1>2

\* The last part put after the others.
Pieces(S, F, k) == k \in Nat \ {0} /\ \A j \in 1..k : F[j] \in Seq(S)
FirstParts(F, k) == [j \in 1..k |-> F[j]]

LEMMA FlattenStep ==
  ASSUME NEW S, NEW F, NEW k, Pieces(S, F, k)
  PROVE  /\ FlattenSeq(FirstParts(F, k)) = FlattenSeq(FirstParts(F, k - 1)) \o F[k]
         /\ FlattenSeq(FirstParts(F, k - 1)) \in Seq(S)
<1> DEFINE V == Seq(S)
           i == k - 1
           a == FirstParts(F, i)
           b == <<F[k]>>
           c == FirstParts(F, k)
           d == a \o b
<1>1. k \in Nat \ {0} /\ i \in Nat /\ k \in 1..k /\ k = i + 1 /\ \A j \in 1..i : j \in 1..k
  BY DEF Pieces
<1>2. \A j \in 1..k : F[j] \in V
  BY DEF Pieces
<1> HIDE DEF V, i
<1>3. a \in Seq(V) /\ Len(a) = i /\ \A j \in 1..i : a[j] = F[j]
  <2>1. a \in [1..i -> V]
    BY <1>1, <1>2 DEF FirstParts
  <2>2. \A j \in 1..i : a[j] = F[j]
    BY DEF FirstParts
  <2> HIDE DEF a
  <2> QED
    BY <1>1, <2>1, <2>2
<1>4. c \in Seq(V) /\ Len(c) = k /\ \A j \in 1..k : c[j] = F[j]
  <2>1. c \in [1..k -> V]
    BY <1>1, <1>2 DEF FirstParts
  <2>2. \A j \in 1..k : c[j] = F[j]
    BY DEF FirstParts
  <2> HIDE DEF c
  <2> QED
    BY <1>1, <2>1, <2>2
<1>5. b \in Seq(V) /\ Len(b) = 1 /\ b[1] = F[k]
  BY <1>1, <1>2
<1> HIDE DEF a, b, c
<1>6. d \in Seq(V) /\ Len(d) = k /\ \A j \in 1..k : d[j] = F[j]
  <2>1. d \in Seq(V) /\ Len(d) = Len(a) + Len(b)
    BY <1>3, <1>5, ConcatProperties
  <2>2. \A j \in 1..i : d[j] = a[j]
    BY <1>3, <1>5, ConcatProperties
  <2>3. d[i + 1] = b[1]
    <3>1. \A j \in 1..(Len(a) + Len(b)) : j > Len(a) => d[j] = b[j - Len(a)]
      <4>1. a \in Seq(V) /\ b \in Seq(V)
        BY <1>3, <1>5
      <4> QED
        BY <4>1, ConcatProperties
    <3>2. i + 1 \in 1..(Len(a) + Len(b)) /\ i + 1 > Len(a) /\ (i + 1) - Len(a) = 1
      BY <1>1, <1>3, <1>5
    <3> HIDE DEF d
    <3> QED
      BY <3>1, <3>2
  <2> HIDE DEF d
  <2>4. Len(d) = k
    BY <1>1, <1>3, <1>5, <2>1
  <2>5. ASSUME NEW j \in 1..k PROVE d[j] = F[j]
    <3>1. j \in 1..i \/ j = k
      BY <1>1
    <3> QED
      BY <1>1, <1>3, <1>5, <2>2, <2>3, <3>1
  <2> QED
    BY <2>1, <2>4, <2>5
<1> HIDE DEF d
<1>7. c = d
  BY <1>4, <1>6, SeqEqual
<1>8. FlattenSeq(d) = FlattenSeq(a) \o FlattenSeq(b)
  BY <1>3, <1>5, FlattenConcat DEF V, d
<1>9. FlattenSeq(b) = F[k]
  BY <1>1, <1>2, FlattenFew DEF V, b
<1>10. FlattenSeq(a) \in Seq(S)
  BY <1>3, FlattenType DEF V
<1> QED
  BY <1>7, <1>8, <1>9, <1>10 DEF a, c, i

=============================================================================
