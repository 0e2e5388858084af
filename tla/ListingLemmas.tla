--------------------------- MODULE ListingLemmas ---------------------------
(***************************************************************************)
(* What the operators of ListingOps give for every sequence.               *)
(***************************************************************************)
EXTENDS ListingOps, FiniteSetTheorems, SequenceTheorems, WellFoundedInduction, TLAPS

(* Picking entries of a listing gives a listing of some of its entries.    *)
LEMMA PickSeq ==
  ASSUME NEW S, NEW q \in Seq(S), NEW K \in SUBSET DOMAIN q, NEW f \in Orders(K)
  PROVE  /\ Pick(q, f) \in Seq(S) /\ Queued(Pick(q, f)) \subseteq Queued(q)
         /\ Queued(Pick(q, f)) \subseteq { q[i] : i \in K }
<1>1. Cardinality(K) \in Nat
  <2>1. DOMAIN q = 1..Len(q) /\ Len(q) \in Nat
    BY LenProperties
  <2>2. IsFiniteSet(1..Len(q))
    BY <2>1, FS_Interval
  <2>3. IsFiniteSet(K)
    BY <2>1, <2>2, FS_Subset
  <2> QED
    BY <2>3, FS_CardinalityType
<1>2. f \in [1..Cardinality(K) -> K]
  BY DEF Orders
<1>3. \A i \in 1..Cardinality(K) : f[i] \in DOMAIN q /\ q[f[i]] \in S
  BY <1>2, ElementOfSeq, LenProperties
<1>4. Pick(q, f) = [i \in 1..Cardinality(K) |-> q[f[i]]]
  BY <1>2 DEF Pick
<1>5. Pick(q, f) \in Seq(S)
  BY <1>1, <1>3, <1>4, IsASeq
<1>6. \A i \in 1..Cardinality(K) : f[i] \in K
  BY <1>2
<1> QED
  BY <1>3, <1>4, <1>5, <1>6 DEF Queued

(* Removing entries leaves a listing of some of the entries.               *)
LEMMA WithoutSeq ==
  ASSUME NEW S, NEW q \in Seq(S), NEW D, NEW r \in Without(q, D)
  PROVE  r \in Seq(S) /\ Queued(r) \subseteq Queued(q)
<1> DEFINE K == { i \in DOMAIN q : q[i] \notin D }
<1>1. PICK f \in Orders(K) : r = Pick(q, f)
  BY DEF Without
<1> QED
  BY <1>1, PickSeq

(* A listing without double entries has none after a removal.              *)
LEMMA WithoutOnce ==
  ASSUME NEW S, NEW q \in Seq(S), NEW D, NEW r \in Without(q, D),
         \A i, j \in DOMAIN q : q[i] = q[j] => i = j
  PROVE  \A i, j \in DOMAIN r : r[i] = r[j] => i = j
<1> DEFINE K == { i \in DOMAIN q : q[i] \notin D }
<1>1. PICK f \in Orders(K) : r = Pick(q, f)
  BY DEF Without
<1>2. DOMAIN r = DOMAIN f /\ \A i \in DOMAIN f : r[i] = q[f[i]]
  BY <1>1 DEF Pick
<1>3. f \in [1..Cardinality(K) -> K] /\ \A i, j \in DOMAIN f : i # j => f[i] # f[j]
  BY DEF Orders
<1>4. \A i \in DOMAIN f : f[i] \in DOMAIN q
  BY <1>3
<1> QED
  BY <1>2, <1>3, <1>4

(* What is removed is gone.                                                *)
LEMMA WithoutGone ==
  ASSUME NEW S, NEW q \in Seq(S), NEW D, NEW r \in Without(q, D)
  PROVE  Queued(r) \cap D = {}
<1> DEFINE K == { i \in DOMAIN q : q[i] \notin D }
<1>1. PICK f \in Orders(K) : r = Pick(q, f)
  BY DEF Without
<1>2. Queued(r) \subseteq { q[i] : i \in K }
  BY <1>1, PickSeq
<1> QED
  BY <1>2

(* The entries of a queue, and of the queues the operations build.         *)
LEMMA QueuedFacts ==
  ASSUME NEW S, NEW q \in Seq(S)
  PROVE  /\ Queued(q) \subseteq S
         /\ \A x \in S : Append(q, x) \in Seq(S) /\ Queued(Append(q, x)) \subseteq Queued(q) \cup {x}
         /\ \A r \in Seq(S) : q \o r \in Seq(S) /\ Queued(q \o r) \subseteq Queued(q) \cup Queued(r)
         /\ q # <<>> => /\ Head(q) \in S /\ Head(q) \in Queued(q)
                        /\ Tail(q) \in Seq(S) /\ Queued(Tail(q)) \subseteq Queued(q)
<1>1. Queued(q) \subseteq S
  BY ElementOfSeq, LenProperties DEF Queued
<1>2. ASSUME NEW x \in S
      PROVE  Append(q, x) \in Seq(S) /\ Queued(Append(q, x)) \subseteq Queued(q) \cup {x}
  BY AppendProperties, LenProperties DEF Queued
<1>3. ASSUME NEW r \in Seq(S)
      PROVE  q \o r \in Seq(S) /\ Queued(q \o r) \subseteq Queued(q) \cup Queued(r)
  BY SMT, ConcatProperties, LenProperties DEF Queued
<1>4. ASSUME q # <<>>
      PROVE  /\ Head(q) \in S /\ Head(q) \in Queued(q)
             /\ Tail(q) \in Seq(S) /\ Queued(Tail(q)) \subseteq Queued(q)
  BY <1>4, HeadTailProperties, LenProperties, EmptySeq DEF Queued
<1> QED
  BY <1>1, <1>2, <1>3, <1>4

(* A push adds what is pushed, and nothing else.                           *)
LEMMA AppendQueued ==
  ASSUME NEW S, NEW q \in Seq(S), NEW x \in S
  PROVE  Append(q, x) # <<>> /\ Queued(Append(q, x)) = Queued(q) \cup {x}
<1> DEFINE r == Append(q, x)
<1>1. Len(q) \in Nat /\ DOMAIN q = 1..Len(q)
  BY LenProperties
<1>2. /\ r \in Seq(S) /\ r # <<>> /\ DOMAIN r = 1..(Len(q) + 1)
      /\ \A j \in 1..Len(q) : r[j] = q[j]
      /\ r[Len(q) + 1] = x
  BY AppendProperties, LenProperties
<1> HIDE DEF r
<1>3. \A j \in DOMAIN r : (j \in DOMAIN q /\ r[j] = q[j]) \/ r[j] = x
  BY <1>1, <1>2
<1>4. /\ Len(q) + 1 \in DOMAIN r
      /\ \A j \in DOMAIN q : j \in DOMAIN r /\ r[j] = q[j]
  BY <1>1, <1>2
<1>5. Queued(r) = Queued(q) \cup {x}
  BY <1>2, <1>3, <1>4 DEF Queued
<1> QED
  BY <1>2, <1>5 DEF r

-----------------------------------------------------------------------------
(* How often an entry is in a listing; that a removal has a result, and    *)
(* which.  Induction goes by the least counterexample.                     *)

Times(q, x) == Cardinality({ i \in DOMAIN q : q[i] = x })

LEMMA Smallest ==
  ASSUME NEW B \in SUBSET Nat, B # {}
  PROVE  \E m \in B : \A k \in B : m <= k
<1> DEFINE R == OpToRel(<, Nat)
<1>1. \A x, y \in Nat : x < y => <<x, y>> \in R
  BY DEF OpToRel
<1>2. IsWellFoundedOn(R, Nat)
  BY NatLessThanWellFounded
<1> HIDE DEF R
<1>3. PICK m \in B : \A k \in B : ~(<<k, m>> \in R)
  BY <1>2, WFMin
<1>4. ASSUME NEW k \in B PROVE m <= k
  <2>1. ~(k < m)
    BY <1>1, <1>3
  <2> QED
    BY <2>1
<1> QED
  BY <1>4

LEMMA FinitePositions ==
  ASSUME NEW n \in Nat, NEW K \in SUBSET (1..n)
  PROVE  IsFiniteSet(K) /\ Cardinality(K) \in Nat
<1>1. IsFiniteSet(1..n)
  BY FS_Interval
<1>2. IsFiniteSet(K)
  BY <1>1, FS_Subset
<1> QED
  BY <1>2, FS_CardinalityType

Ascends(f, n) == \A i, j \in 1..n : i < j => f[i] < f[j]

(* Every set of positions can be gone through upwards.                     *)
LEMMA Upwards ==
  ASSUME NEW n \in Nat, NEW K \in SUBSET (1..n)
  PROVE  \E f \in [1..Cardinality(K) -> K] : Ascends(f, Cardinality(K))
<1> DEFINE Good(m) == \A L \in SUBSET (1..m) :
                        \E f \in [1..Cardinality(L) -> L] : Ascends(f, Cardinality(L))
           B == { m \in Nat : ~Good(m) }
<1>1. CASE B # {}
  <2>1. PICK m \in B : \A k \in B : m <= k
    BY <1>1, Smallest
  <2>2. ASSUME NEW L \in SUBSET (1..m)
        PROVE  \E f \in [1..Cardinality(L) -> L] : Ascends(f, Cardinality(L))
    <3>0. m \in Nat /\ IsFiniteSet(L) /\ Cardinality(L) \in Nat
      <4>1. m \in Nat
        OBVIOUS
      <4> QED
        BY <4>1, FinitePositions
    <3>1. CASE L = {}
      <4>1. Cardinality(L) = 0 /\ 1..0 = {}
        BY <3>1, FS_EmptySet
      <4>2. [i \in {} |-> i] \in [{} -> L]
        OBVIOUS
      <4> QED
        BY <4>1, <4>2 DEF Ascends
    <3>2. CASE L # {}
      <4>1. m # 0
        <5>1. 1..0 = {}
          OBVIOUS
        <5> QED
          BY <3>2, <5>1
      <4>2. m - 1 \in Nat /\ m - 1 \notin B
        <5>1. m - 1 \in Nat /\ ~(m <= m - 1)
          BY <3>0, <4>1
        <5> QED
          BY <2>1, <5>1
      <4>3. Good(m - 1)
        BY <4>2
      <4>4. CASE m \notin L
        <5>1. L \in SUBSET (1..(m - 1))
          BY <3>0, <4>4
        <5> QED
          BY <4>3, <5>1
      <4>5. CASE m \in L
        <5> DEFINE L0 == L \ {m}
                   c == Cardinality(L0)
        <5>1. L0 \in SUBSET (1..(m - 1))
          BY <3>0
        <5>2. IsFiniteSet(L0) /\ c \in Nat /\ Cardinality(L) = c + 1
          <6>1. IsFiniteSet(L0) /\ Cardinality(L0) = Cardinality(L) - 1
            BY <3>0, <4>5, FS_RemoveElement
          <6>2. Cardinality(L0) \in Nat
            BY <6>1, FS_CardinalityType
          <6> QED
            BY <3>0, <6>1, <6>2
        <5>3. PICK f \in [1..c -> L0] : Ascends(f, c)
          BY <4>3, <5>1
        <5> HIDE DEF c
        <5> DEFINE g == [i \in 1..(c + 1) |-> IF i = c + 1 THEN m ELSE f[i]]
        <5>4. \A i \in 1..c : g[i] = f[i] /\ f[i] \in L0 /\ g[i] < m
          <6>1. \A i \in 1..c : f[i] \in L0
            BY <5>3
          <6>2. \A k \in L0 : k \in Nat /\ k < m
            BY <3>0, <5>1
          <6>3. \A i \in 1..c : g[i] = f[i]
            BY <5>2
          <6> QED
            BY <6>1, <6>2, <6>3
        <5>5. g[c + 1] = m /\ \A i \in 1..(c + 1) : i = c + 1 \/ i \in 1..c
          BY <5>2
        <5>6. g \in [1..(c + 1) -> L]
          BY <4>5, <5>4, <5>5
        <5> HIDE DEF g
        <5>7. Ascends(g, c + 1)
          <6>1. ASSUME NEW i \in 1..(c + 1), NEW j \in 1..(c + 1), i < j
                PROVE  g[i] < g[j]
            <7>1. i \in 1..c
              BY <5>2, <6>1
            <7>2. CASE j = c + 1
              BY <5>4, <5>5, <7>1, <7>2
            <7>3. CASE j \in 1..c
              BY <5>3, <5>4, <6>1, <7>1, <7>3 DEF Ascends
            <7> QED
              BY <5>5, <7>2, <7>3
          <6> QED
            BY <6>1 DEF Ascends
        <5> QED
          BY <5>2, <5>6, <5>7
      <4> QED
        BY <4>4, <4>5
    <3> QED
      BY <3>1, <3>2
  <2> QED
    BY <2>1, <2>2
<1>2. CASE B = {}
  <2>1. Good(n)
    BY <1>2
  <2> QED
    BY <2>1
<1> QED
  BY <1>1, <1>2

LEMMA WithoutSome ==
  ASSUME NEW S, NEW q \in Seq(S), NEW D
  PROVE  Without(q, D) # {}
<1> DEFINE K == { i \in DOMAIN q : q[i] \notin D }
           n == Cardinality(K)
<1>1. K \in SUBSET (1..Len(q)) /\ Len(q) \in Nat
  BY LenProperties
<1>2. PICK f \in [1..n -> K] : Ascends(f, n)
  BY <1>1, Upwards
<1>3. n \in Nat
  BY <1>1, FinitePositions
<1> HIDE DEF n, K
<1>4. \A i, j \in 1..n : i < j => f[i] < f[j]
  BY <1>2 DEF Ascends
<1>5. ASSUME NEW i \in 1..n, NEW j \in 1..n, i # j
      PROVE  f[i] # f[j]
  <2>1. f[i] \in K /\ f[j] \in K /\ K \subseteq Nat
    BY <1>1, <1>2, <1>5
  <2>2. i < j \/ j < i
    BY <1>3, <1>5
  <2>3. f[i] < f[j] \/ f[j] < f[i]
    BY <1>4, <2>2
  <2>4. f[i] \in Nat /\ f[j] \in Nat
    BY <2>1
  <2> QED
    BY <2>3, <2>4
<1>6. f \in Orders(K)
  BY <1>2, <1>5 DEF Orders, n
<1>7. \A i, j \in DOMAIN f : i < j => f[i] < f[j]
  BY <1>2, <1>4
<1> QED
  BY <1>6, <1>7 DEF Without, K

(* A removal takes every entry of D, and leaves the others as often.       *)
LEMMA WithoutTimes ==
  ASSUME NEW S, NEW q \in Seq(S), NEW D, NEW r \in Without(q, D), NEW x
  PROVE  Times(r, x) = IF x \in D THEN 0 ELSE Times(q, x)
<1> DEFINE K == { i \in DOMAIN q : q[i] \notin D }
           n == Cardinality(K)
           A == { i \in DOMAIN r : r[i] = x }
           C == { i \in DOMAIN q : q[i] = x }
<1>1. PICK f \in Orders(K) : r = Pick(q, f)
  BY DEF Without
<1>2. f \in [1..n -> K] /\ \A i, j \in 1..n : i # j => f[i] # f[j]
  BY DEF Orders
<1>3. DOMAIN r = 1..n /\ \A i \in 1..n : r[i] = q[f[i]]
  BY <1>1, <1>2 DEF Pick
<1>4. IsFiniteSet(DOMAIN q) /\ IsFiniteSet(K) /\ n \in Nat /\ IsFiniteSet(C)
  <2>1. DOMAIN q = 1..Len(q) /\ Len(q) \in Nat
    BY LenProperties
  <2>2. DOMAIN q \in SUBSET (1..Len(q)) /\ K \in SUBSET (1..Len(q)) /\ C \in SUBSET (1..Len(q))
    BY <2>1
  <2> QED
    BY <2>1, <2>2, FinitePositions
<1>5. CASE x \in D
  <2>1. A = {}
    BY <1>2, <1>3, <1>5
  <2> QED
    BY <1>5, <2>1, FS_EmptySet DEF Times
<1>6. CASE x \notin D
  <2>1. f \in Injection(1..n, K)
    BY <1>2 DEF Injection, IsInjective
  <2>2. Cardinality(1..n) = n
    BY <1>4, FS_Interval
  <2>3. f \in Surjection(1..n, K)
    BY <1>4, <2>1, <2>2, FS_Injection
  <2>4. \A k \in K : \E i \in 1..n : f[i] = k
    BY <2>3 DEF Surjection
  <2> DEFINE g == [i \in A |-> f[i]]
  <2>5. g \in [A -> C]
    BY <1>2, <1>3
  <2>6. \A i, j \in A : g[i] = g[j] => i = j
    BY <1>2, <1>3
  <2>7. \A k \in C : \E i \in A : g[i] = k
    BY <1>3, <1>6, <2>4
  <2>8. g \in Bijection(A, C)
    BY <2>5, <2>6, <2>7 DEF Bijection, Injection, Surjection, IsInjective
  <2>9. IsFiniteSet(A)
    <3>1. A \in SUBSET (1..n)
      BY <1>3
    <3> QED
      BY <1>4, <3>1, FinitePositions
  <2>10. Cardinality(A) = Cardinality(C)
    BY <2>8, <2>9, FS_Bijection DEF ExistsBijection
  <2> QED
    BY <1>6, <2>10 DEF Times
<1> QED
  BY <1>5, <1>6

LEMMA AppendTimes ==
  ASSUME NEW S, NEW q \in Seq(S), NEW x \in S, NEW y
  PROVE  /\ Times(q, y) \in Nat
         /\ Times(Append(q, x), y) = Times(q, y) + IF x = y THEN 1 ELSE 0
<1> DEFINE r == Append(q, x)
           n == Len(q)
           C == { i \in DOMAIN q : q[i] = y }
           A == { i \in DOMAIN r : r[i] = y }
<1>1. n \in Nat /\ DOMAIN q = 1..n
  BY LenProperties
<1>2. /\ DOMAIN r = 1..(n + 1) /\ r[n + 1] = x
      /\ \A j \in 1..n : r[j] = q[j]
  BY AppendProperties, LenProperties
<1>3. IsFiniteSet(C) /\ Cardinality(C) \in Nat
  <2>1. C \in SUBSET (1..n)
    BY <1>1
  <2> QED
    BY <1>1, <2>1, FinitePositions
<1> HIDE DEF r, n
<1>4. A = IF x = y THEN C \cup {n + 1} ELSE C
  <2>1. \A i \in 1..(n + 1) : i \in 1..n \/ i = n + 1
    BY <1>1
  <2>2. \A i \in 1..n : i \in 1..(n + 1) /\ i # n + 1
    BY <1>1
  <2>3. n + 1 \in 1..(n + 1)
    BY <1>1
  <2> QED
    BY <1>1, <1>2, <2>1, <2>2, <2>3
<1>5. n + 1 \notin C
  BY <1>1
<1> HIDE DEF A, C
<1>6. Cardinality(A) = Cardinality(C) + IF x = y THEN 1 ELSE 0
  <2>1. Cardinality(C \cup {n + 1}) = Cardinality(C) + 1
    BY <1>3, <1>5, FS_AddElement
  <2> QED
    BY <1>3, <1>4, <2>1
<1> QED
  BY <1>3, <1>6 DEF Times, r, A, C

LEMMA NoneTimes ==
  ASSUME NEW S, NEW q \in Seq(S), NEW y
  PROVE  /\ Times(<<>>, y) = 0
         /\ Times(q, y) = 0 <=> y \notin Queued(q)
<1>1. DOMAIN q = 1..Len(q) /\ Len(q) \in Nat
  BY LenProperties
<1> DEFINE C == { i \in DOMAIN q : q[i] = y }
<1>2. IsFiniteSet(C)
  <2>1. C \in SUBSET (1..Len(q))
    BY <1>1
  <2> QED
    BY <1>1, <2>1, FinitePositions
<1>3. { i \in DOMAIN <<>> : <<>>[i] = y } = {}
  OBVIOUS
<1>4. Times(<<>>, y) = 0
  BY <1>3, FS_EmptySet DEF Times
<1>5. C = {} <=> y \notin Queued(q)
  BY DEF Queued
<1>6. Cardinality(C) = 0 <=> C = {}
  BY <1>2, FS_EmptySet
<1> QED
  BY <1>4, <1>5, <1>6 DEF Times

-----------------------------------------------------------------------------
(* Loops that end *)

(* What holds of an element when it holds of all smaller ones holds of all.*)
LEMMA Downhill ==
  ASSUME NEW V, NEW mu \in [V -> Nat], NEW G,
         \A w \in V : (\A x \in V : mu[x] < mu[w] => x \in G) => w \in G
  PROVE  \A w \in V : w \in G
<1> DEFINE Bad == { mu[w] : w \in V \ G }
<1> SUFFICES ASSUME Bad # {} PROVE FALSE
  OBVIOUS
<1>1. Bad \in SUBSET Nat
  OBVIOUS
<1>2. PICK n \in Bad : \A k \in Bad : n <= k
  BY <1>1, Smallest
<1>3. PICK w \in V \ G : n = mu[w]
  BY <1>2
<1>4. PICK x \in V : mu[x] < mu[w] /\ x \notin G
  BY <1>3
<1>5. mu[x] \in Bad /\ mu[x] \in Nat /\ mu[w] \in Nat
  BY <1>4
<1>6. mu[w] <= mu[x]
  BY <1>2, <1>3, <1>5
<1> QED
  BY <1>4, <1>5, <1>6

(* A loop that goes from x to h[x] until it is in T, where it gives g[x],  *)
(* below n of the measure mu.                                              *)
Loops(V, mu, T, g, h, n, f) ==
  \A x \in V : mu[x] < n => f[x] = IF x \in T THEN g[x] ELSE f[h[x]]
Descending(V, mu, T, h) ==
  mu \in [V -> Nat] /\ \A x \in V : x \notin T => h[x] \in V /\ mu[h[x]] < mu[x]

LEMMA LoopsUpTo ==
  ASSUME NEW V, NEW mu, NEW T, NEW g, NEW h, Descending(V, mu, T, h), NEW n \in Nat
  PROVE  \E f : Loops(V, mu, T, g, h, n, f)
<1> DEFINE Bad == { m \in Nat : ~ \E f : Loops(V, mu, T, g, h, m, f) }
<1> SUFFICES ASSUME Bad # {} PROVE FALSE
  OBVIOUS
<1>0. \A x \in V : mu[x] \in Nat /\ (x \notin T => h[x] \in V /\ mu[h[x]] < mu[x])
  BY DEF Descending
<1>1. PICK m \in Bad : \A k \in Bad : m <= k
  BY Smallest
<1>2. m # 0
  <2>1. \A x \in V : ~(mu[x] < 0)
    BY <1>0
  <2>2. Loops(V, mu, T, g, h, 0, g)
    BY <2>1 DEF Loops
  <2> QED
    BY <2>2
<1>3. m - 1 \in Nat /\ m - 1 \notin Bad /\ m \in Nat
  BY <1>1, <1>2
<1>4. PICK f : Loops(V, mu, T, g, h, m - 1, f)
  BY <1>3
<1> DEFINE F == [x \in V |-> IF x \in T THEN g[x] ELSE f[h[x]]]
<1>5. \A x \in V : mu[x] < m - 1 => F[x] = f[x]
  BY <1>4 DEF Loops
<1>6. ASSUME NEW x \in V, mu[x] < m PROVE F[x] = IF x \in T THEN g[x] ELSE F[h[x]]
  <2>1. CASE x \in T
    BY <2>1
  <2>2. CASE x \notin T
    <3>1. h[x] \in V /\ mu[h[x]] < m - 1
      BY <1>0, <1>3, <1>6, <2>2
    <3>2. F[h[x]] = f[h[x]]
      BY <1>5, <3>1
    <3>3. F[x] = f[h[x]]
      BY <2>2
    <3> HIDE DEF F
    <3> QED
      BY <2>2, <3>2, <3>3
  <2> QED
    BY <2>1, <2>2
<1>7. Loops(V, mu, T, g, h, m, F)
  <2> HIDE DEF F
  <2> QED
    BY <1>6 DEF Loops
<1> QED
  BY <1>1, <1>7

LEMMA LoopsSame ==
  ASSUME NEW V, NEW mu, NEW T, NEW g, NEW h, Descending(V, mu, T, h),
         NEW n \in Nat, NEW m \in Nat, NEW e, NEW f,
         Loops(V, mu, T, g, h, n, e), Loops(V, mu, T, g, h, m, f)
  PROVE  \A x \in V : mu[x] < n /\ mu[x] < m => e[x] = f[x]
<1> DEFINE G == { x \in V : mu[x] < n /\ mu[x] < m => e[x] = f[x] }
<1>0. /\ mu \in [V -> Nat]
      /\ \A x \in V : mu[x] \in Nat /\ (x \notin T => h[x] \in V /\ mu[h[x]] < mu[x])
  BY DEF Descending
<1>1. ASSUME NEW x \in V, \A y \in V : mu[y] < mu[x] => y \in G, mu[x] < n, mu[x] < m
      PROVE  e[x] = f[x]
  <2>1. e[x] = (IF x \in T THEN g[x] ELSE e[h[x]]) /\ f[x] = (IF x \in T THEN g[x] ELSE f[h[x]])
    BY <1>1 DEF Loops
  <2>2. ASSUME x \notin T PROVE e[h[x]] = f[h[x]]
    <3>1. h[x] \in V /\ mu[h[x]] < mu[x] /\ mu[h[x]] < n /\ mu[h[x]] < m
      BY <1>0, <1>1, <2>2
    <3> QED
      BY <1>1, <3>1
  <2> QED
    BY <2>1, <2>2
<1>2. \A x \in V : (\A y \in V : mu[y] < mu[x] => y \in G) => x \in G
  BY <1>1
<1> HIDE DEF G
<1>3. \A x \in V : x \in G
  BY <1>0, <1>2, Downhill
<1> QED
  BY <1>3 DEF G

(* Such a loop has a result everywhere. *)
LEMMA LoopExists ==
  ASSUME NEW V, NEW mu, NEW T, NEW g, NEW h, Descending(V, mu, T, h)
  PROVE  \E f : f = [x \in V |-> IF x \in T THEN g[x] ELSE f[h[x]]]
<1> DEFINE L(n) == CHOOSE f : Loops(V, mu, T, g, h, n, f)
           r == [x \in V |-> L(mu[x] + 1)[x]]
<1>0. \A x \in V : mu[x] \in Nat /\ (x \notin T => h[x] \in V /\ mu[h[x]] < mu[x])
  BY DEF Descending
<1>1. \A n \in Nat : Loops(V, mu, T, g, h, n, L(n))
  BY LoopsUpTo
<1> HIDE DEF L
<1>2. ASSUME NEW x \in V PROVE r[x] = IF x \in T THEN g[x] ELSE r[h[x]]
  <2>1. mu[x] + 1 \in Nat /\ mu[x] < mu[x] + 1 /\ r[x] = L(mu[x] + 1)[x]
    BY <1>0
  <2>2. PICK e : e = L(mu[x] + 1)
    OBVIOUS
  <2>3. Loops(V, mu, T, g, h, mu[x] + 1, e) /\ r[x] = e[x]
    BY <1>1, <2>1, <2>2
  <2>4. e[x] = IF x \in T THEN g[x] ELSE e[h[x]]
    BY <2>1, <2>3 DEF Loops
  <2>5. ASSUME x \notin T PROVE r[h[x]] = e[h[x]]
    <3>1. h[x] \in V /\ mu[h[x]] \in Nat /\ mu[h[x]] < mu[x] + 1 /\ mu[h[x]] < mu[h[x]] + 1
          /\ mu[h[x]] + 1 \in Nat
      BY <1>0, <2>5
    <3>2. PICK f : f = L(mu[h[x]] + 1)
      OBVIOUS
    <3>3. Loops(V, mu, T, g, h, mu[h[x]] + 1, f) /\ r[h[x]] = f[h[x]]
      BY <1>1, <3>1, <3>2
    <3>4. PICK y, n, m : y = h[x] /\ n = mu[x] + 1 /\ m = mu[y] + 1
      OBVIOUS
    <3>5. /\ y \in V /\ n \in Nat /\ m \in Nat /\ mu[y] < n /\ mu[y] < m
          /\ Loops(V, mu, T, g, h, n, e) /\ Loops(V, mu, T, g, h, m, f)
      BY <2>1, <2>3, <3>1, <3>3, <3>4
    <3>6. e[y] = f[y]
      BY <3>5, LoopsSame
    <3> QED
      BY <3>3, <3>4, <3>6
  <2> HIDE DEF r
  <2> QED
    BY <2>3, <2>4, <2>5
<1>3. r = [x \in V |-> IF x \in T THEN g[x] ELSE r[h[x]]]
  <2> DEFINE q == [x \in V |-> IF x \in T THEN g[x] ELSE r[h[x]]]
  <2>1. \A x \in V : r[x] = q[x]
    BY <1>2
  <2> QED
    BY <2>1
<1> QED
  BY <1>3

(* What holds where such a loop ends, and at x if it does at h[x], holds   *)
(* everywhere.                                                             *)
LEMMA LoopAll ==
  ASSUME NEW V, NEW mu, NEW T, NEW h, Descending(V, mu, T, h), NEW G,
         \A x \in V : (x \notin T => h[x] \in G) => x \in G
  PROVE  \A x \in V : x \in G
<1>1. /\ mu \in [V -> Nat]
      /\ \A x \in V : x \notin T => h[x] \in V /\ mu[h[x]] < mu[x]
  BY DEF Descending
<1>2. \A w \in V : (\A x \in V : mu[x] < mu[w] => x \in G) => w \in G
  BY <1>1
<1> QED
  BY <1>1, <1>2, Downhill
=============================================================================
