---------------------------- MODULE ListingProofs ----------------------------
(***************************************************************************)
(* Theorems about listing.c and listing_foreach.c, for every size of the   *)
(* cache, all Garbage malloc may leave in it, and any number of            *)
(* listings, nodes and threads.  In this order: the cache remembers one    *)
(* entry (OneSlot); the nodes malloc gives and the turns of the sort, from *)
(* which the types follow; the first entry is the only one given           *)
(* (OnlyFirstGiven); the nodes from the head on (Chain); a listing without *)
(* a first node (StaysEmpty); the searches (SelectExact); what keeps the   *)
(* cache right (CacheKept); and what keeps the listings apart and each     *)
(* node in its place (ShapeKept).                                          *)
(***************************************************************************)
EXTENDS ListingForeach, ListingLemmas

(* The property of one cache; it is inductive with the shape of the record *)
(* alone, wherever the searches end and whatever numbers are cached.       *)
First(p) == p.to = "id" => p.n = 0
Sound(c) ==
  /\ c = [ids |-> c.ids, index |-> c.index, nodes |-> c.nodes]
  /\ DOMAIN c.index = Slot /\ \A j \in Slot : First(c.index[j])

IInv == DOMAIN cache = List /\ \A l \in List : Sound(cache[l])

LEMMA FirstFacts == First(NoIndex) /\ First(IdPtr(0))
BY DEF First, NoIndex, IdPtr

LEMMA SlotFacts ==
  /\ CacheSize - 1 \in Slot
  /\ \A j \in Slot : /\ j # 0 => j - 1 \in Slot
                     /\ j < CacheSize - 1 => j + 1 \in Slot
BY NumbersAssumption DEF Slot

-----------------------------------------------------------------------------
(* What the operations on one cache keep *)

LEMMA Reindexed ==
  ASSUME NEW c, Sound(c), NEW f, DOMAIN f = Slot, \A j \in Slot : First(f[j])
  PROVE  Sound([c EXCEPT !.index = f]) /\ \A a, b : Sound([ids |-> a, index |-> f, nodes |-> b])
<1>1. [c EXCEPT !.index = f] = [ids |-> c.ids, index |-> f, nodes |-> c.nodes]
  BY DEF Sound
<1>2. \A a, b : Sound([ids |-> a, index |-> f, nodes |-> b])
  BY DEF Sound
<1> QED
  BY <1>1, <1>2

LEMMA Renumbered ==
  ASSUME NEW c, Sound(c), NEW f
  PROVE  Sound([c EXCEPT !.ids = f])
<1>1. [c EXCEPT !.ids = f] = [ids |-> f, index |-> c.index, nodes |-> c.nodes]
  BY DEF Sound
<1> QED
  BY <1>1 DEF Sound

LEMMA SortSound ==
  ASSUME NEW c, Sound(c), NEW d \in Listing_Cache_Sort(c)
  PROVE  Sound(d)
<1>1. PICK f \in [Front(c) -> Front(c)] :
        d = [c EXCEPT !.index = [j \in Slot |-> IF j \in Front(c) THEN c.index[f[j]] ELSE c.index[j]]]
  BY DEF Listing_Cache_Sort
<1> DEFINE g == [j \in Slot |-> IF j \in Front(c) THEN c.index[f[j]] ELSE c.index[j]]
<1>2. Front(c) \subseteq Slot
  BY DEF Front
<1>3. \A j \in Front(c) : f[j] \in Slot
  BY <1>2
<1>4. DOMAIN g = Slot /\ \A j \in Slot : First(g[j])
  BY <1>3 DEF Sound
<1> HIDE DEF g
<1>5. Sound([c EXCEPT !.index = g])
  BY <1>4, Reindexed
<1> QED
  BY <1>1, <1>5 DEF g

LEMMA MovedSound ==
  ASSUME NEW f, DOMAIN f = Slot, \A j \in Slot : First(f[j]), NEW x, First(x)
  PROVE  /\ DOMAIN MovedDown(f, x) = Slot /\ \A j \in Slot : First(MovedDown(f, x)[j])
         /\ \A k : DOMAIN MovedUp(f, k, x) = Slot /\ \A j \in Slot : First(MovedUp(f, k, x)[j])
<1>1. \A j \in Slot : MovedDown(f, x)[j] = x \/ \E i \in Slot : MovedDown(f, x)[j] = f[i]
  BY SlotFacts DEF MovedDown
<1>2. ASSUME NEW k, NEW j \in Slot
      PROVE  MovedUp(f, k, x)[j] = x \/ \E i \in Slot : MovedUp(f, k, x)[j] = f[i]
  BY SlotFacts DEF MovedUp
<1>3. DOMAIN MovedDown(f, x) = Slot /\ \A k : DOMAIN MovedUp(f, k, x) = Slot
  BY DEF MovedDown, MovedUp
<1> QED
  BY <1>1, <1>2, <1>3

LEMMA DelSound ==
  ASSUME NEW c, Sound(c), NEW i, NEW d \in Listing_Cache_Del(c, i)
  PROVE  Sound(d)
<1>1. \/ d = c
      \/ \E k, a, b : d = [ids |-> a, index |-> MovedUp(c.index, k, NoIndex), nodes |-> b]
      \/ d = [c EXCEPT !.index[CacheSize - 1] = NoIndex, !.nodes[CacheSize - 1] = NULL]
  BY DEF Listing_Cache_Del
<1>2. CASE \E k, a, b : d = [ids |-> a, index |-> MovedUp(c.index, k, NoIndex), nodes |-> b]
  <2>1. PICK k, a, b : d = [ids |-> a, index |-> MovedUp(c.index, k, NoIndex), nodes |-> b]
    BY <1>2
  <2>2. /\ DOMAIN MovedUp(c.index, k, NoIndex) = Slot
        /\ \A j \in Slot : First(MovedUp(c.index, k, NoIndex)[j])
    BY MovedSound, FirstFacts DEF Sound
  <2> QED
    BY <2>1, <2>2, Reindexed
<1>3. CASE d = [c EXCEPT !.index[CacheSize - 1] = NoIndex, !.nodes[CacheSize - 1] = NULL]
  <2> DEFINE f == [c.index EXCEPT ![CacheSize - 1] = NoIndex]
             g == [c.nodes EXCEPT ![CacheSize - 1] = NULL]
  <2>1. d = [ids |-> c.ids, index |-> f, nodes |-> g]
    BY <1>3 DEF Sound
  <2>2. DOMAIN f = Slot /\ \A j \in Slot : First(f[j])
    BY FirstFacts DEF Sound
  <2> HIDE DEF f, g
  <2> QED
    BY <2>1, <2>2, Reindexed
<1> QED
  BY <1>1, <1>2, <1>3

LEMMA AddSound ==
  ASSUME NEW c, Sound(c), NEW i, NEW n, NEW d \in Listing_Cache_Add(c, i, n)
  PROVE  Sound(d)
<1>1. PICK e \in Listing_Cache_Del(c, i) :
        d \in Listing_Cache_Sort([ids   |-> MovedDown(e.ids, i), index |-> Indexed(e),
                                  nodes |-> MovedDown(e.nodes, n)])
  BY DEF Listing_Cache_Add
<1>2. Sound(e)
  BY <1>1, DelSound
<1>3. DOMAIN Indexed(e) = Slot /\ \A j \in Slot : First(Indexed(e)[j])
  BY <1>2, MovedSound, FirstFacts DEF Indexed, Sound
<1>4. Sound([ids |-> MovedDown(e.ids, i), index |-> Indexed(e), nodes |-> MovedDown(e.nodes, n)])
  BY <1>2, <1>3, Reindexed
<1> QED
  BY <1>1, <1>4, SortSound

-----------------------------------------------------------------------------
(* The steps *)

LEMMA Recached ==
  ASSUME IInv, NEW l, NEW c, l \in List => Sound(c), cache' = [cache EXCEPT ![l] = c]
  PROVE  IInv'
<1>1. DOMAIN cache' = List /\ \A m \in List : cache'[m] = IF m = l THEN c ELSE cache[m]
  BY DEF IInv
<1> QED
  BY <1>1 DEF IInv

LEMMA Uncached == IInv /\ UNCHANGED cache => IInv'
BY DEF IInv

LEMMA InsertSound == ASSUME IInv, NEW l, NEW i, NEW x, InsertNode(l, i, x) PROVE IInv'
<1>1. ASSUME NEW n, NEW c \in Listing_Cache_Add(Bumped(cache[l], i), i, n),
             cache' = [cache EXCEPT ![l] = c]
      PROVE  IInv'
  <2>1. l \in List => Sound(Bumped(cache[l], i))
    BY Renumbered DEF IInv, Bumped
  <2>2. l \in List => Sound(c)
    BY <1>1, <2>1, AddSound
  <2> QED
    BY <1>1, <2>2, Recached
<1>2. CASE UNCHANGED cache
  BY <1>2, Uncached
<1> QED
  BY <1>1, <1>2 DEF InsertNode, header

LEMMA RemoveSound == ASSUME IInv, NEW l, NEW i, RemoveNode(l, i) PROVE IInv'
<1>1. ASSUME NEW c \in Listing_Cache_Del(cache[l], i), cache' = [cache EXCEPT ![l] = Lowered(c, i)]
      PROVE  IInv'
  <2>1. l \in List => Sound(c)
    BY <1>1, DelSound DEF IInv
  <2>2. l \in List => Sound(Lowered(c, i))
    BY <2>1, Renumbered DEF Lowered
  <2> QED
    BY <1>1, <2>2, Recached
<1>2. CASE UNCHANGED cache
  BY <1>2, Uncached
<1> QED
  BY <1>1, <1>2 DEF RemoveNode, header

LEMMA AtSound == ASSUME IInv, NEW l \in List, NEW i, Listing_At(l, i) PROVE IInv'
<1>1. ASSUME NEW n, NEW c \in Listing_Cache_Add(cache[l], i, n), cache' = [cache EXCEPT ![l] = c]
      PROVE  IInv'
  BY <1>1, AddSound, Recached DEF IInv
<1>2. CASE UNCHANGED cache
  BY <1>2, Uncached
<1> QED
  BY <1>1, <1>2 DEF Listing_At, header, Stops

LEMMA SortStep == ASSUME IInv, NEW l \in List, Listing_Sort(l) PROVE IInv'
<1>1. ASSUME NEW s, NEW c \in Listing_Cache_Sort([cache[l] EXCEPT !.ids = s.ids]),
             cache' = [cache EXCEPT ![l] = c]
      PROVE  IInv'
  <2>1. Sound([cache[l] EXCEPT !.ids = s.ids])
    BY Renumbered DEF IInv
  <2> QED
    BY <1>1, <2>1, SortSound, Recached
<1>2. CASE UNCHANGED cache
  BY <1>2, Uncached
<1> HIDE DEF SortLoop
<1> QED
  BY <1>1, <1>2 DEF Listing_Sort, header, Stops

LEMMA NextSound == ASSUME IInv, Next PROVE IInv'
<1>1. CASE \E l \in List : \/ Listing_Init(l) \/ Listing_Free(l)
                           \/ \E k \in 1..MaxLinked : Client_Link(l, k)
                           \/ \E m \in List : Listing_Merge(l, m)
  BY <1>1, Uncached DEF Listing_Init, Listing_Free, Client_Link, Listing_Merge, header, Stops
<1>2. CASE Free_End
  BY <1>2, Uncached DEF Free_End, header
<1>3. CASE Free_Turn
  BY <1>3, RemoveSound DEF Free_Turn
<1>4. ASSUME NEW l \in List, NEW i, NEW x, Listing_Insert(l, i, x) PROVE IInv'
  BY <1>4, InsertSound DEF Listing_Insert
<1>5. ASSUME NEW l \in List, NEW i, Listing_Remove(l, i) PROVE IInv'
  BY <1>5, RemoveSound DEF Listing_Remove
<1> QED
  BY <1>1, <1>2, <1>3, <1>4, <1>5, AtSound, SortStep DEF Next

LEMMA Invariance == IInv /\ [ForeachNext]_allVars => IInv'
<1>1. ASSUME IInv, UNCHANGED allVars PROVE IInv'
  BY <1>1, Uncached DEF allVars, vars, header
<1>2. ASSUME IInv, Next PROVE IInv'
  BY <1>2, NextSound
<1>3. ASSUME IInv, NEW l, NEW T, Listing_Foreach(l, T) PROVE IInv'
  BY <1>3, Uncached DEF Listing_Foreach, header
<1>4. ASSUME IInv, NEW l, NEW T, NEW finds, Listing_Find(l, T, finds) PROVE IInv'
  BY <1>4, Uncached DEF Listing_Find
<1>5. ASSUME IInv, NEW l, NEW m, Listing_Clone(m, l) PROVE IInv'
  BY <1>5, Uncached DEF Listing_Clone, header
<1>6. ASSUME IInv, NEW th, Step(th) PROVE IInv'
  <2>1. CASE Push(th)
    BY <1>6, <2>1, InsertSound DEF Push
  <2>2. CASE Listing_Foreach_Queue_Next(th) \/ Callback(th)
    BY <1>6, <2>2, Uncached DEF Listing_Foreach_Queue_Next, Callback, vars, header, Stops
  <2> QED
    BY <1>6, <2>1, <2>2 DEF Step
<1>7. ASSUME IInv, Join PROVE IInv'
  BY <1>7, Uncached DEF Join, vars, header, Stops
<1> QED
  BY <1>1, <1>2, <1>3, <1>4, <1>5, <1>6, <1>7 DEF ForeachNext

-----------------------------------------------------------------------------
(* A header is as malloc left it, and malloc knows nothing of the header.  *)
LEMMA InitSound == ForeachInit => IInv
<1> SUFFICES ASSUME ForeachInit PROVE IInv
  OBVIOUS
<1>1. DOMAIN cache = List /\ \A l \in List : cache[l] \in Garbage[l]
  BY DEF ForeachInit, Init
<1>2. \A l \in List : cache[l] \in Cache /\ \A j \in Slot : cache[l].index[j].to # "id"
  BY <1>1, GarbageAssumption
<1> QED
  BY <1>1, <1>2 DEF IInv, Sound, First, Cache

(* Every pointer to a cached index is to the first one, whatever calls are *)
(* made, by any number of threads: the cache remembers the last entry it   *)
(* was given, and no other.                                                *)
THEOREM OneSlotHolds == ForeachSpec => []OneSlot
<1>1. ForeachSpec => []IInv
  BY InitSound, Invariance, PTL DEF ForeachSpec
<1>2. IInv => OneSlot
  BY DEF IInv, Sound, First, OneSlot
<1> QED
  BY <1>1, <1>2, PTL

-----------------------------------------------------------------------------
(* The nodes malloc gives *)

Below(n) == { m \in FreeNodes : m < n }

LEMMA FreeFacts ==
  /\ FreeNodes \subseteq Nat /\ IsFiniteSet(FreeNodes) /\ Cardinality(FreeNodes) \in Nat
  /\ \A n : /\ Below(n) \subseteq FreeNodes /\ IsFiniteSet(Below(n)) /\ Cardinality(Below(n)) \in Nat
  /\ \A k : Lowest(k) = { n \in FreeNodes : Cardinality(Below(n)) < k }
<1>1. FreeNodes \subseteq Nat /\ FreeNodes \subseteq Node /\ IsFiniteSet(Node)
  BY NumbersAssumption DEF FreeNodes
<1>2. IsFiniteSet(FreeNodes) /\ \A n : Below(n) \subseteq FreeNodes
  BY <1>1, FS_Subset DEF Below
<1>3. Cardinality(FreeNodes) \in Nat
  BY <1>2, FS_CardinalityType
<1>4. ASSUME NEW n PROVE IsFiniteSet(Below(n)) /\ Cardinality(Below(n)) \in Nat
  <2>1. IsFiniteSet(Below(n))
    BY <1>2, FS_Subset
  <2> QED
    BY <2>1, FS_CardinalityType
<1>5. \A k : Lowest(k) = { n \in FreeNodes : Cardinality(Below(n)) < k }
  BY DEF Lowest, Below
<1> QED
  BY <1>1, <1>2, <1>3, <1>4, <1>5

LEMMA BelowMore ==
  ASSUME NEW n \in FreeNodes, NEW m \in FreeNodes, n < m
  PROVE  Below(n) \cup {n} \subseteq Below(m)
<1>1. n \in Nat /\ m \in Nat
  BY FreeFacts
<1>2. ASSUME NEW x \in Below(n) PROVE x \in Below(m)
  <2>1. x \in FreeNodes /\ x \in Nat /\ x < n
    BY <1>2, FreeFacts DEF Below
  <2>2. x < m
    BY <1>1, <2>1
  <2> QED
    BY <2>1, <2>2 DEF Below
<1> QED
  BY <1>2 DEF Below

(* The lowest k + 1 of the free nodes are the lowest k and one more, which *)
(* is higher than those.                                                   *)
LEMMA OneMore ==
  ASSUME NEW k \in Nat, k < Cardinality(FreeNodes), Cardinality(Lowest(k)) = k
  PROVE  \E n \in FreeNodes :
           /\ Lowest(k) = Below(n)
           /\ Lowest(k + 1) = Lowest(k) \cup {n} /\ Cardinality(Lowest(k + 1)) = k + 1
<1> DEFINE B == FreeNodes \ Lowest(k)
<1>1. Lowest(k) \subseteq FreeNodes /\ IsFiniteSet(Lowest(k))
  <2>1. Lowest(k) \subseteq FreeNodes
    BY FreeFacts
  <2> QED
    BY <2>1, FreeFacts, FS_Subset
<1>2. B # {} /\ B \subseteq Nat
  <2>1. ASSUME B = {} PROVE FALSE
    <3>1. Lowest(k) = FreeNodes
      BY <1>1, <2>1
    <3> QED
      BY <3>1, FreeFacts
  <2> QED
    BY <2>1, FreeFacts
<1>3. PICK n \in B : \A m \in B : n <= m
  <2> HIDE DEF B
  <2> QED
    BY <1>2, Smallest
<1>4. n \in FreeNodes /\ n \in Nat /\ ~(Cardinality(Below(n)) < k)
  BY <1>3, FreeFacts
<1>5. Lowest(k) = Below(n)
  <2>1. ASSUME NEW m \in FreeNodes, m < n PROVE m \in Lowest(k)
    BY <1>3, <1>4, <2>1, FreeFacts
  <2>2. ASSUME NEW m \in Lowest(k) PROVE m < n
    <3>1. m \in FreeNodes /\ m \in Nat /\ Cardinality(Below(m)) < k
      BY <2>2, FreeFacts
    <3>2. ASSUME m > n PROVE FALSE
      <4>1. Below(n) \subseteq Below(m)
        BY <1>4, <3>1, <3>2, BelowMore
      <4>2. Cardinality(Below(n)) <= Cardinality(Below(m))
        BY <4>1, FreeFacts, FS_Subset
      <4> QED
        BY <1>4, <3>1, <4>2, FreeFacts
    <3>3. m # n
      BY <1>3, <2>2
    <3> QED
      BY <1>4, <3>1, <3>2, <3>3
  <2> QED
    BY <1>1, <2>1, <2>2 DEF Below
<1>6. Lowest(k + 1) = Lowest(k) \cup {n}
  <2>1. Cardinality(Below(n)) = k
    BY <1>5
  <2>2. n \in Lowest(k + 1)
    BY <1>4, <2>1, FreeFacts
  <2>3. ASSUME NEW m \in Lowest(k) PROVE m \in Lowest(k + 1)
    BY <2>3, FreeFacts
  <2>4. ASSUME NEW m \in Lowest(k + 1), m \notin Lowest(k), m # n PROVE FALSE
    <3>1. m \in FreeNodes /\ m \in Nat /\ Cardinality(Below(m)) < k + 1
      BY <2>4, FreeFacts
    <3>2. m > n
      BY <1>3, <1>4, <2>4, <3>1
    <3>3. Below(n) \cup {n} \subseteq Below(m)
      BY <1>4, <3>1, <3>2, BelowMore
    <3>4. n \notin Below(n)
      BY <1>4 DEF Below
    <3>5. Cardinality(Below(n) \cup {n}) = k + 1
      BY <2>1, <3>4, FreeFacts, FS_AddElement
    <3>6. Cardinality(Below(n) \cup {n}) <= Cardinality(Below(m))
      BY <3>3, FreeFacts, FS_Subset
    <3> QED
      BY <3>1, <3>5, <3>6, FreeFacts
  <2> QED
    BY <2>2, <2>3, <2>4
<1>7. Cardinality(Lowest(k + 1)) = k + 1
  <2>1. n \notin Lowest(k)
    BY <1>3
  <2> QED
    BY <1>1, <1>6, <2>1, FS_AddElement
<1> QED
  BY <1>4, <1>5, <1>6, <1>7

(* The lowest k of the free nodes are k, and can be gone through upwards.  *)
LEMMA LowestFacts ==
  ASSUME NEW k \in Nat, k <= Cardinality(FreeNodes)
  PROVE  /\ Cardinality(Lowest(k)) = k
         /\ \E f \in [1..k -> Lowest(k)] : Ascends(f, k)
<1> DEFINE N == Cardinality(FreeNodes)
           Filled(m) == /\ Cardinality(Lowest(m)) = m
                      /\ \E f \in [1..m -> Lowest(m)] : Ascends(f, m)
           B == { m \in Nat : m <= N /\ ~Filled(m) }
<1>0. N \in Nat
  BY FreeFacts
<1> HIDE DEF N
<1>1. CASE B # {}
  <2>1. PICK m \in B : \A j \in B : m <= j
    BY <1>1, Smallest
  <2>2. m # 0
    <3>1. Lowest(0) = {}
      BY FreeFacts
    <3>2. Cardinality(Lowest(0)) = 0
      BY <3>1, FS_EmptySet
    <3>3. [i \in 1..0 |-> i] \in [1..0 -> Lowest(0)]
      OBVIOUS
    <3>4. Filled(0)
      BY <3>2, <3>3 DEF Ascends
    <3> QED
      BY <3>4
  <2>3. PICK j \in Nat : m = j + 1 /\ j < N
    <3>1. m - 1 \in Nat /\ m = (m - 1) + 1 /\ m - 1 < N
      BY <1>0, <2>2
    <3> QED
      BY <3>1
  <2>4. Filled(j)
    BY <1>0, <2>1, <2>3
  <2>5. PICK n \in FreeNodes :
          /\ Lowest(j) = Below(n)
          /\ Lowest(j + 1) = Lowest(j) \cup {n} /\ Cardinality(Lowest(j + 1)) = j + 1
    BY <2>3, <2>4, OneMore DEF N
  <2>6. PICK f \in [1..j -> Lowest(j)] : Ascends(f, j)
    BY <2>4
  <2> DEFINE g == [i \in 1..(j + 1) |-> IF i = j + 1 THEN n ELSE f[i]]
  <2>7. \A i \in 1..j : g[i] = f[i] /\ f[i] \in Lowest(j) /\ g[i] < n
    <3>1. \A i \in 1..j : g[i] = f[i] /\ f[i] \in Lowest(j)
      OBVIOUS
    <3> QED
      BY <2>5, <3>1 DEF Below
  <2>8. g[j + 1] = n /\ \A i \in 1..(j + 1) : i = j + 1 \/ i \in 1..j
    OBVIOUS
  <2>9. g \in [1..(j + 1) -> Lowest(j + 1)]
    BY <2>5, <2>7, <2>8
  <2> HIDE DEF g
  <2>10. Ascends(g, j + 1)
    <3>1. ASSUME NEW a \in 1..(j + 1), NEW b \in 1..(j + 1), a < b
          PROVE  g[a] < g[b]
      <4>1. a \in 1..j
        BY <3>1
      <4>2. CASE b = j + 1
        BY <2>7, <2>8, <4>1, <4>2
      <4>3. CASE b \in 1..j
        BY <2>6, <2>7, <3>1, <4>1, <4>3 DEF Ascends
      <4> QED
        BY <2>8, <4>2, <4>3
    <3> QED
      BY <3>1 DEF Ascends
  <2>11. Filled(j + 1)
    BY <2>5, <2>9, <2>10
  <2> QED
    BY <2>1, <2>3, <2>11
<1>2. CASE B = {}
  <2>1. Filled(k)
    BY <1>2 DEF N
  <2> QED
    BY <2>1
<1> QED
  BY <1>1, <1>2

-----------------------------------------------------------------------------
(* The turns of Listing_Sort *)

Ended(l, s) == s.cur = tail[l] /\ s.sorted
Counted(s) == [s EXCEPT !.left = @ - 1]
Again(s) == [Counted(s) EXCEPT !.cur = s.head, !.cid = 0, !.sorted = TRUE]
Onto(s) == [Counted(s) EXCEPT !.cur = s.next[s.cur], !.cid = @ + 1]
Exchanged(s) == Swapped(Counted(s), s.cur, s.next[s.cur])

(* The state after one turn, as a set that is empty when there is none.    *)
AfterTurn(l, s) ==
  IF Ended(l, s) \/ s.left = 0 THEN {}
  ELSE IF s.cur = tail[l] THEN {Again(s)}
  ELSE IF s.cur \notin alloc THEN {}
  ELSE IF s.next[s.cur] \notin alloc THEN {}
  ELSE IF InOrder(s.cur, s.next[s.cur]) THEN {Onto(s)}
  ELSE IF s.prev[s.cur] \notin alloc \/ s.next[s.next[s.cur]] \notin alloc THEN {}
  ELSE {Exchanged(s)}
(* One turn from s, with g for the turns after it. *)
Turned(l, g, s) ==
  IF s.cur = tail[l] /\ s.sorted THEN {s}
  ELSE IF s.left = 0 THEN {}
  ELSE IF s.cur = tail[l] THEN g[Again(s)]
  ELSE IF s.cur \notin alloc THEN {}
  ELSE IF s.next[s.cur] \notin alloc THEN {}
  ELSE IF InOrder(s.cur, s.next[s.cur]) THEN g[Onto(s)]
  ELSE IF s.prev[s.cur] \notin alloc \/ s.next[s.next[s.cur]] \notin alloc THEN {}
  ELSE g[Exchanged(s)]
Start(l) ==
  [next |-> next, prev |-> prev, head |-> head[l], tail |-> tail[l],
   ids |-> cache[l].ids, cur |-> head[l], cid |-> 0, sorted |-> TRUE,
   left |-> MostTurns]

LEMMA TurnedFacts ==
  ASSUME NEW l, NEW s
  PROVE  /\ \A g, h : (\A t \in AfterTurn(l, s) : g[t] = h[t]) => Turned(l, g, s) = Turned(l, h, s)
         /\ \A g : \A x \in Turned(l, g, s) : \/ Ended(l, s) /\ x = s
                                              \/ \E t \in AfterTurn(l, s) : x \in g[t]
BY DEF Turned, AfterTurn, Ended

LEMMA MostTurnsNat == MostTurns \in Nat
<1>1. Cardinality(Node) \in Nat
  BY NumbersAssumption, FS_CardinalityType
<1>2. \A n \in Nat : (n + 1) * (n + 1) \in Nat
  OBVIOUS
<1> QED
  BY <1>1, <1>2 DEF MostTurns

(* A state of the sort is the record of its parts. *)
LEMMA SortRecord ==
  ASSUME NEW c \in SortState
  PROVE  /\ c = [next |-> c.next, prev |-> c.prev, head |-> c.head, tail |-> c.tail, ids |-> c.ids,
                 cur |-> c.cur, cid |-> c.cid, sorted |-> c.sorted, left |-> c.left]
         /\ c.next \in Links /\ c.prev \in Links /\ c.head \in NodePtr /\ c.tail \in NodePtr
         /\ c.ids \in [Slot -> Nat] /\ c.cur \in NodePtr /\ c.cid \in Nat
         /\ c.sorted \in BOOLEAN /\ c.left \in 0..MostTurns
BY DEF SortState

LEMMA CountedFacts ==
  ASSUME NEW s \in SortState, s.left # 0
  PROVE  /\ Counted(s) \in SortState /\ Counted(s).left = s.left - 1
         /\ Counted(s).next = s.next /\ Counted(s).prev = s.prev
         /\ Counted(s).head = s.head /\ Counted(s).tail = s.tail
         /\ Counted(s).ids = s.ids /\ Counted(s).cid = s.cid
         /\ Counted(s).cur = s.cur /\ Counted(s).sorted = s.sorted
<1>1. s.left - 1 \in 0..MostTurns
  BY MostTurnsNat DEF SortState
<1> QED
  BY <1>1 DEF Counted, SortState

LEMMA AgainFacts ==
  ASSUME NEW s \in SortState, s.left # 0
  PROVE  /\ Again(s) \in SortState /\ Again(s).left = s.left - 1
         /\ Again(s).next = s.next /\ Again(s).prev = s.prev
         /\ Again(s).head = s.head /\ Again(s).tail = s.tail
         /\ Again(s).ids = s.ids /\ Again(s).cid = 0
         /\ Again(s).cur = s.head /\ Again(s).sorted = TRUE
<1> DEFINE c == Counted(s)
<1>1. /\ c \in SortState /\ c.left = s.left - 1
      /\ c.next = s.next /\ c.prev = s.prev /\ c.head = s.head /\ c.tail = s.tail
      /\ c.ids = s.ids
  BY CountedFacts
<1>2. s.head \in NodePtr
  BY DEF SortState
<1> HIDE DEF c
<1> DEFINE a == [c EXCEPT !.cur = s.head, !.cid = 0, !.sorted = TRUE]
<1>3. a \in SortState
  BY <1>1, <1>2 DEF SortState
<1>4. /\ a.cur = s.head /\ a.cid = 0 /\ a.sorted = TRUE /\ a.left = c.left /\ a.ids = c.ids
      /\ a.next = c.next /\ a.prev = c.prev /\ a.head = c.head /\ a.tail = c.tail
  BY <1>1, SortRecord
<1>5. Again(s) = a
  BY DEF Again, c
<1> HIDE DEF a
<1> QED
  BY <1>1, <1>3, <1>4, <1>5

LEMMA OntoFacts ==
  ASSUME NEW s \in SortState, s.left # 0, s.cur \in Node
  PROVE  /\ Onto(s) \in SortState /\ Onto(s).left = s.left - 1
         /\ Onto(s).next = s.next /\ Onto(s).prev = s.prev
         /\ Onto(s).head = s.head /\ Onto(s).tail = s.tail
         /\ Onto(s).ids = s.ids /\ Onto(s).cid = s.cid + 1
         /\ Onto(s).cur = s.next[s.cur] /\ Onto(s).sorted = s.sorted
<1> DEFINE c == Counted(s)
           p == s.next[s.cur]
<1>1. /\ c \in SortState /\ c.left = s.left - 1
      /\ c.next = s.next /\ c.prev = s.prev /\ c.head = s.head /\ c.tail = s.tail
      /\ c.ids = s.ids /\ c.cid = s.cid /\ c.sorted = s.sorted
  BY CountedFacts
<1>2. p \in NodePtr
  BY DEF SortState, Links
<1>3. c.cid + 1 \in Nat
  BY <1>1 DEF SortState
<1> HIDE DEF c, p
<1> DEFINE a == [c EXCEPT !.cur = p, !.cid = @ + 1]
<1>4. a \in SortState
  BY <1>1, <1>2, <1>3 DEF SortState
<1>5. /\ a.cur = p /\ a.cid = c.cid + 1 /\ a.sorted = c.sorted /\ a.left = c.left /\ a.ids = c.ids
      /\ a.next = c.next /\ a.prev = c.prev /\ a.head = c.head /\ a.tail = c.tail
  BY <1>1, SortRecord
<1>6. Onto(s) = a
  BY DEF Onto, c, p
<1> HIDE DEF a
<1> QED
  BY <1>1, <1>4, <1>5, <1>6 DEF p

(* The links of the exchange of two neighbours. *)
SwapNext(s, a, b) == [s.next EXCEPT ![a] = s.next[b], ![b] = a, ![s.prev[a]] = b]
SwapPrev(s, a, b) == [s.prev EXCEPT ![b] = s.prev[a], ![a] = b, ![s.next[b]] = a]
LEMMA ExchangedFacts ==
  ASSUME NEW s \in SortState, s.left # 0, s.cur \in Node, s.next[s.cur] \in Node,
         s.prev[s.cur] \in Node, s.next[s.next[s.cur]] \in Node
  PROVE  LET a == s.cur
             b == s.next[a]
         IN  /\ Exchanged(s) \in SortState /\ Exchanged(s).left = s.left - 1
             /\ Exchanged(s).next = SwapNext(s, a, b) /\ Exchanged(s).prev = SwapPrev(s, a, b)
             /\ Exchanged(s).head = (IF a = s.head THEN b ELSE s.head)
             /\ Exchanged(s).tail = (IF b = s.tail THEN a ELSE s.tail)
             /\ Exchanged(s).cur = a /\ Exchanged(s).sorted = FALSE
<1> DEFINE c == Counted(s)
           a == s.cur
           b == s.next[a]
           i == [j \in Slot |-> IF c.ids[j] = c.cid THEN c.ids[j] + 1 ELSE c.ids[j]]
           h == IF a = s.head THEN b ELSE s.head
           t == IF b = s.tail THEN a ELSE s.tail
           n == SwapNext(s, a, b)
           p == SwapPrev(s, a, b)
<1>1. /\ c \in SortState /\ c.left = s.left - 1
      /\ c.next = s.next /\ c.prev = s.prev /\ c.head = s.head /\ c.tail = s.tail
      /\ c.ids = s.ids /\ c.cid = s.cid /\ c.cur = s.cur
  BY CountedFacts
<1>2. a \in Node /\ b \in Node /\ s.next \in Links /\ s.prev \in Links
      /\ s.head \in NodePtr /\ s.tail \in NodePtr
  BY DEF SortState
<1>3. n \in Links /\ p \in Links
  BY <1>2 DEF Links, SwapNext, SwapPrev, NodePtr
<1>4. h \in NodePtr /\ t \in NodePtr /\ c.cid + 1 \in Nat
  BY <1>1, <1>2 DEF NodePtr, SortState
<1>5. i \in [Slot -> Nat]
  BY <1>1 DEF SortState
<1>6. Exchanged(s) = [c EXCEPT !.next = n, !.prev = p, !.head = h, !.tail = t, !.ids = i,
                               !.cid = @ + 1, !.sorted = FALSE]
  BY <1>1 DEF Exchanged, Swapped, SwapNext, SwapPrev, SortState
<1> HIDE DEF c, a, b, i, h, t, n, p
<1> DEFINE e == [c EXCEPT !.next = n, !.prev = p, !.head = h, !.tail = t, !.ids = i,
                          !.cid = @ + 1, !.sorted = FALSE]
<1>7. e \in SortState
  BY <1>1, <1>3, <1>4, <1>5 DEF SortState
<1>8. /\ e.next = n /\ e.prev = p /\ e.head = h /\ e.tail = t /\ e.cur = c.cur
      /\ e.sorted = FALSE /\ e.left = c.left
  BY <1>1, SortRecord
<1> HIDE DEF e
<1>9. Exchanged(s) = e
  BY <1>6 DEF e
<1>10. /\ Exchanged(s) \in SortState /\ Exchanged(s).left = s.left - 1
       /\ Exchanged(s).next = n /\ Exchanged(s).prev = p
       /\ Exchanged(s).head = h /\ Exchanged(s).tail = t
       /\ Exchanged(s).cur = s.cur /\ Exchanged(s).sorted = FALSE
  BY <1>1, <1>7, <1>8, <1>9
<1> QED
  BY <1>10 DEF a, b, h, t, n, p

LEMMA AfterTurnFacts ==
  ASSUME alloc \subseteq Node, NEW l, NEW s \in SortState, NEW t \in AfterTurn(l, s)
  PROVE  t \in SortState /\ t.left = s.left - 1 /\ s.left # 0
<1>1. s.left # 0
  BY DEF AfterTurn
<1>2. \/ t = Again(s)
      \/ t = Onto(s) /\ s.cur \in Node
      \/ /\ t = Exchanged(s) /\ s.cur \in Node /\ s.next[s.cur] \in Node
         /\ s.prev[s.cur] \in Node /\ s.next[s.next[s.cur]] \in Node
  BY DEF AfterTurn
<1>3. CASE t = Again(s)
  BY <1>1, <1>3, AgainFacts
<1>4. CASE t = Onto(s) /\ s.cur \in Node
  BY <1>1, <1>4, OntoFacts
<1>5. CASE /\ t = Exchanged(s) /\ s.cur \in Node /\ s.next[s.cur] \in Node
           /\ s.prev[s.cur] \in Node /\ s.next[s.next[s.cur]] \in Node
  BY <1>1, <1>5, ExchangedFacts
<1> QED
  BY <1>1, <1>2, <1>3, <1>4, <1>5

(* The turns are bounded, so that they have a result. *)
LEMMA SortTurns ==
  ASSUME alloc \subseteq Node, NEW l
  PROVE  \E g : g = [s \in SortState |-> Turned(l, g, s)]
<1> DEFINE Fits(n, g) == \A s \in SortState : s.left < n => g[s] = Turned(l, g, s)
           Bad == { n \in Nat : ~ \E g : g = [s \in SortState |-> g[s]] /\ Fits(n, g) }
<1>0. \A s \in SortState : s.left \in Nat
  BY DEF SortState
<1>1. Bad = {}
  <2> SUFFICES ASSUME Bad # {} PROVE FALSE
    OBVIOUS
  <2>1. PICK n \in Bad : \A k \in Bad : n <= k
    BY Smallest
  <2>2. n # 0
    <3> DEFINE g == [s \in SortState |-> 0]
    <3>1. \A s \in SortState : ~(s.left < 0)
      BY <1>0
    <3>2. g = [s \in SortState |-> g[s]]
      OBVIOUS
    <3>3. Fits(0, g)
      BY <3>1
    <3> QED
      BY <3>2, <3>3
  <2>3. n - 1 \in Nat /\ n - 1 \notin Bad
    BY <2>1, <2>2
  <2>4. PICK g : g = [s \in SortState |-> g[s]] /\ Fits(n - 1, g)
    BY <2>3
  <2> DEFINE h == [s \in SortState |-> IF s.left < n - 1 THEN g[s] ELSE Turned(l, g, s)]
  <2>5. ASSUME NEW s \in SortState, s.left < n
        PROVE  h[s] = Turned(l, h, s)
    <3>1. h[s] = Turned(l, g, s)
      BY <2>4
    <3>2. ASSUME NEW t \in AfterTurn(l, s) PROVE g[t] = h[t]
      <4>1. t \in SortState /\ t.left = s.left - 1
        BY AfterTurnFacts
      <4>2. t.left < n - 1
        BY <1>0, <2>3, <2>5, <4>1
      <4> QED
        BY <4>1, <4>2
    <3> HIDE DEF h
    <3>3. Turned(l, g, s) = Turned(l, h, s)
      BY <3>2, TurnedFacts
    <3> QED
      BY <3>1, <3>3
  <2>6. h = [s \in SortState |-> h[s]]
    OBVIOUS
  <2>7. Fits(n, h)
    BY <2>5
  <2> HIDE DEF h
  <2> QED
    BY <2>1, <2>6, <2>7
<1>2. MostTurns + 1 \in Nat /\ MostTurns + 1 \notin Bad
  BY <1>1, MostTurnsNat
<1>3. PICK g : g = [s \in SortState |-> g[s]] /\ Fits(MostTurns + 1, g)
  BY <1>2
<1>4. \A s \in SortState : s.left < MostTurns + 1
  BY MostTurnsNat DEF SortState
<1>5. \A s \in SortState : g[s] = Turned(l, g, s)
  BY <1>3, <1>4
<1>6. g = [s \in SortState |-> Turned(l, g, s)]
  BY <1>3, <1>5
<1> QED
  BY <1>6

(* The sort takes its turns from Start. *)
LEMMA SortIs ==
  ASSUME alloc \subseteq Node, NEW l
  PROVE  \E g : /\ g = [s \in SortState |-> Turned(l, g, s)]
                /\ SortLoop(l) = g[Start(l)]
<1> DEFINE L == CHOOSE g : g = [s \in SortState |-> Turned(l, g, s)]
<1>1. L = [s \in SortState |-> Turned(l, L, s)]
  BY SortTurns
<1>2. SortLoop(l) = L[Start(l)]
  BY DEF SortLoop, Turned, Start, Again, Onto, Exchanged, Counted
<1> QED
  BY <1>1, <1>2

(* What every turn keeps holds in the end. *)
LEMMA SortKeeps ==
  ASSUME alloc \subseteq Node, NEW l, NEW I, I \subseteq SortState, Start(l) \in I,
         \A s \in I : AfterTurn(l, s) \subseteq I
  PROVE  \A t \in SortLoop(l) : t \in I /\ Ended(l, t)
<1>1. PICK g : g = [s \in SortState |-> Turned(l, g, s)] /\ SortLoop(l) = g[Start(l)]
  BY SortIs
<1> DEFINE Holds(s) == \A t \in g[s] : t \in I /\ Ended(l, t)
           Bad == { n \in Nat : \E s \in I : s.left = n /\ ~Holds(s) }
<1>2. Bad = {}
  <2> SUFFICES ASSUME Bad # {} PROVE FALSE
    OBVIOUS
  <2>1. PICK n \in Bad : \A k \in Bad : n <= k
    BY Smallest
  <2>2. PICK s \in I : s.left = n /\ ~Holds(s)
    BY <2>1
  <2>3. s \in SortState
    BY <2>2
  <2>4. g[s] = Turned(l, g, s)
    BY <1>1, <2>3
  <2>5. ASSUME NEW x \in g[s] PROVE x \in I /\ Ended(l, x)
    <3>1. CASE Ended(l, s) /\ x = s
      BY <2>2, <3>1
    <3>2. CASE \E t \in AfterTurn(l, s) : x \in g[t]
      <4>1. PICK t \in AfterTurn(l, s) : x \in g[t]
        BY <3>2
      <4>2. t \in I /\ t.left = s.left - 1 /\ s.left # 0
        BY <2>2, <2>3, <4>1, AfterTurnFacts
      <4>3. t.left \in Nat /\ t.left < n
        BY <2>1, <2>2, <2>3, <4>2
      <4>4. t.left \notin Bad
        BY <2>1, <4>3
      <4> QED
        BY <4>1, <4>2, <4>3, <4>4
    <3> QED
      BY <2>4, <2>5, <3>1, <3>2, TurnedFacts
  <2> QED
    BY <2>2, <2>5
<1>3. Start(l).left \in Nat
  BY MostTurnsNat DEF Start
<1>4. Holds(Start(l))
  BY <1>2, <1>3
<1> QED
  BY <1>1, <1>4

-----------------------------------------------------------------------------
(* The types *)

LEMMA CacheRecord ==
  ASSUME NEW c \in Cache
  PROVE  /\ c.ids \in [Slot -> Nat] /\ c.index \in [Slot -> IndexPtr] /\ c.nodes \in [Slot -> NodePtr]
         /\ c = [ids |-> c.ids, index |-> c.index, nodes |-> c.nodes]
BY DEF Cache

LEMMA PointersTyped == NoIndex \in IndexPtr /\ IdPtr(0) \in IndexPtr /\ NULL \in NodePtr /\ Wild \in NodePtr
BY DEF NoIndex, IdPtr, IndexPtr, NodePtr

LEMMA MovedTyped ==
  ASSUME NEW S, NEW f \in [Slot -> S], NEW x \in S
  PROVE  /\ MovedDown(f, x) \in [Slot -> S]
         /\ \A k : MovedUp(f, k, x) \in [Slot -> S]
<1>1. ASSUME NEW j \in Slot PROVE (IF j = 0 THEN x ELSE f[j - 1]) \in S
  BY SlotFacts
<1>2. ASSUME NEW k, NEW j \in Slot
      PROVE  (IF j < k THEN f[j] ELSE IF j < CacheSize - 1 THEN f[j + 1] ELSE x) \in S
  BY SlotFacts
<1> QED
  BY <1>1, <1>2 DEF MovedDown, MovedUp

LEMMA SortTyped ==
  ASSUME NEW c \in Cache, NEW d \in Listing_Cache_Sort(c)
  PROVE  d \in Cache /\ d.ids = c.ids /\ d.nodes = c.nodes
<1>1. PICK f \in [Front(c) -> Front(c)] :
        d = [c EXCEPT !.index = [j \in Slot |-> IF j \in Front(c) THEN c.index[f[j]] ELSE c.index[j]]]
  BY DEF Listing_Cache_Sort
<1> DEFINE g == [j \in Slot |-> IF j \in Front(c) THEN c.index[f[j]] ELSE c.index[j]]
<1>2. \A j \in Front(c) : f[j] \in Slot
  BY DEF Front
<1>3. g \in [Slot -> IndexPtr]
  BY <1>2, CacheRecord
<1>4. d = [c EXCEPT !.index = g]
  BY <1>1
<1> HIDE DEF g
<1> QED
  BY <1>3, <1>4, CacheRecord DEF Cache

LEMMA DelTyped ==
  ASSUME NEW c \in Cache, NEW i, NEW d \in Listing_Cache_Del(c, i)
  PROVE  d \in Cache
<1>1. \/ d = c
      \/ \E k, m : d = [ids |-> MovedUp(c.ids, k, c.ids[CacheSize - 1]),
                        index |-> MovedUp(c.index, m, NoIndex),
                        nodes |-> MovedUp(c.nodes, k, NULL)]
      \/ d = [c EXCEPT !.index[CacheSize - 1] = NoIndex, !.nodes[CacheSize - 1] = NULL]
  BY DEF Listing_Cache_Del
<1>2. /\ c.ids \in [Slot -> Nat] /\ c.index \in [Slot -> IndexPtr] /\ c.nodes \in [Slot -> NodePtr]
      /\ c.ids[CacheSize - 1] \in Nat
  BY CacheRecord, SlotFacts
<1>3. CASE \E k, m : d = [ids |-> MovedUp(c.ids, k, c.ids[CacheSize - 1]),
                          index |-> MovedUp(c.index, m, NoIndex),
                          nodes |-> MovedUp(c.nodes, k, NULL)]
  <2>1. PICK k, m : d = [ids |-> MovedUp(c.ids, k, c.ids[CacheSize - 1]),
                         index |-> MovedUp(c.index, m, NoIndex),
                         nodes |-> MovedUp(c.nodes, k, NULL)]
    BY <1>3
  <2>2. /\ MovedUp(c.ids, k, c.ids[CacheSize - 1]) \in [Slot -> Nat]
        /\ MovedUp(c.index, m, NoIndex) \in [Slot -> IndexPtr]
        /\ MovedUp(c.nodes, k, NULL) \in [Slot -> NodePtr]
    BY <1>2, MovedTyped, PointersTyped
  <2> QED
    BY <2>1, <2>2 DEF Cache
<1>4. CASE d = [c EXCEPT !.index[CacheSize - 1] = NoIndex, !.nodes[CacheSize - 1] = NULL]
  <2> DEFINE f == [c.index EXCEPT ![CacheSize - 1] = NoIndex]
             g == [c.nodes EXCEPT ![CacheSize - 1] = NULL]
  <2>1. f \in [Slot -> IndexPtr] /\ g \in [Slot -> NodePtr]
    BY <1>2, PointersTyped
  <2>2. c = [ids |-> c.ids, index |-> c.index, nodes |-> c.nodes]
    BY CacheRecord
  <2>3. d = [ids |-> c.ids, index |-> f, nodes |-> g]
    BY <1>4, <2>2
  <2> HIDE DEF f, g
  <2> QED
    BY <1>2, <2>1, <2>3 DEF Cache
<1> QED
  BY <1>1, <1>3, <1>4

(* What was added last is in front. *)
LEMMA AddTyped ==
  ASSUME NEW c \in Cache, NEW i \in Nat, NEW n \in NodePtr, NEW d \in Listing_Cache_Add(c, i, n)
  PROVE  d \in Cache /\ d.ids[0] = i /\ d.nodes[0] = n
<1>1. PICK e \in Listing_Cache_Del(c, i) :
        d \in Listing_Cache_Sort([ids   |-> MovedDown(e.ids, i), index |-> Indexed(e),
                                  nodes |-> MovedDown(e.nodes, n)])
  BY DEF Listing_Cache_Add
<1> DEFINE b == [ids |-> MovedDown(e.ids, i), index |-> Indexed(e), nodes |-> MovedDown(e.nodes, n)]
<1>2. e \in Cache
  BY <1>1, DelTyped
<1>3. /\ MovedDown(e.ids, i) \in [Slot -> Nat] /\ MovedDown(e.nodes, n) \in [Slot -> NodePtr]
      /\ Indexed(e) \in [Slot -> IndexPtr]
  BY <1>2, CacheRecord, MovedTyped, PointersTyped DEF Indexed
<1>4. b \in Cache
  BY <1>3 DEF Cache
<1>5. b.ids[0] = i /\ b.nodes[0] = n
  BY SlotFacts, NumbersAssumption DEF MovedDown, Slot
<1> HIDE DEF b
<1>6. d \in Cache /\ d.ids = b.ids /\ d.nodes = b.nodes
  BY <1>1, <1>4, SortTyped DEF b
<1> QED
  BY <1>5, <1>6

LEMMA NumbersTyped ==
  ASSUME NEW c \in Cache, NEW i \in Nat
  PROVE  Bumped(c, i) \in Cache /\ Lowered(c, i) \in Cache
<1>1. [j \in Slot |-> IF c.ids[j] >= i THEN c.ids[j] + 1 ELSE c.ids[j]] \in [Slot -> Nat]
  BY CacheRecord
<1>2. [j \in Slot |-> IF c.ids[j] > i THEN c.ids[j] - 1 ELSE c.ids[j]] \in [Slot -> Nat]
  BY CacheRecord
<1>3. \A f \in [Slot -> Nat] : [c EXCEPT !.ids = f] \in Cache
  BY DEF Cache
<1> QED
  BY <1>1, <1>2, <1>3 DEF Bumped, Lowered

(* The types of what the operations change. *)
Memory ==
  /\ alloc \subseteq Node /\ fault \in BOOLEAN
  /\ head \in [List -> NodePtr] /\ tail \in [List -> NodePtr]
  /\ count \in [List -> Nat] /\ cache \in [List -> Cache]
  /\ next \in Links /\ prev \in Links /\ data \in [Node -> Data]

LinkRecord == [head : NodePtr, tail : NodePtr, next : Links, prev : Links]

LEMMA LinksTyped ==
  ASSUME NEW f \in Links, NEW n \in Node, NEW p \in NodePtr
  PROVE  f[n] \in NodePtr /\ [f EXCEPT ![n] = p] \in Links
BY DEF Links

LEMMA FreshTyped ==
  ASSUME Memory, NEW n \in Node
  PROVE  Fresh(n).next \in Links /\ Fresh(n).prev \in Links
BY LinksTyped, PointersTyped DEF Memory, Fresh

LEMMA LinkedTyped ==
  ASSUME Memory, NEW l \in List, NEW i, NEW n \in Node, NEW s \in Linked(l, i, n)
  PROVE  s \in LinkRecord
<1> DEFINE fn == Fresh(n).next
           fp == Fresh(n).prev
<1>1. fn \in Links /\ fp \in Links /\ n \in NodePtr /\ alloc \subseteq Node
      /\ head[l] \in NodePtr /\ tail[l] \in NodePtr /\ Node \subseteq NodePtr
  BY FreshTyped DEF Memory, NodePtr
<1> HIDE DEF fn, fp
<1>2. CASE s \in IntoEmpty(l, n)
  BY <1>1, <1>2 DEF IntoEmpty, LinkRecord, fn, fp
<1>3. CASE s \in InFront(l, n)
  <2>1. head[l] \in Node
    BY <1>1, <1>3 DEF InFront
  <2>2. [fn EXCEPT ![n] = head[l]] \in Links /\ [fp EXCEPT ![head[l]] = n] \in Links
    BY <1>1, <2>1, LinksTyped
  <2>3. s = [head |-> n, tail |-> tail[l], next |-> [fn EXCEPT ![n] = head[l]],
             prev |-> [fp EXCEPT ![head[l]] = n]]
    BY <1>3 DEF InFront, fn, fp
  <2> QED
    BY <1>1, <2>2, <2>3 DEF LinkRecord
<1>4. CASE s \in AtEnd(l, n)
  <2>1. tail[l] \in Node
    BY <1>1, <1>4 DEF AtEnd
  <2>2. [fn EXCEPT ![tail[l]] = n] \in Links /\ [fp EXCEPT ![n] = tail[l]] \in Links
    BY <1>1, <2>1, LinksTyped
  <2>3. s = [head |-> head[l], tail |-> n, next |-> [fn EXCEPT ![tail[l]] = n],
             prev |-> [fp EXCEPT ![n] = tail[l]]]
    BY <1>4 DEF AtEnd, fn, fp
  <2> QED
    BY <1>1, <2>2, <2>3 DEF LinkRecord
<1>5. ASSUME NEW p, s \in After(l, n, p) PROVE s \in LinkRecord
  <2>1. p \in Node /\ next[p] \in Node
    BY <1>1, <1>5 DEF After
  <2> DEFINE fn1 == [fn EXCEPT ![n] = next[p]]
             fp1 == [fp EXCEPT ![next[p]] = n]
  <2>2. fn1 \in Links /\ fp1 \in Links
    BY <1>1, <2>1, LinksTyped
  <2>3. [fn1 EXCEPT ![p] = n] \in Links /\ [fp1 EXCEPT ![n] = p] \in Links
    BY <1>1, <2>1, <2>2, LinksTyped
  <2>4. s = [head |-> head[l], tail |-> tail[l], next |-> [fn1 EXCEPT ![p] = n],
             prev |-> [fp1 EXCEPT ![n] = p]]
    BY <1>5 DEF After, fn, fp
  <2> QED
    BY <1>1, <2>3, <2>4 DEF LinkRecord
<1>6. \/ s \in IntoEmpty(l, n) \/ s \in InFront(l, n) \/ s \in AtEnd(l, n)
      \/ \E p : s \in After(l, n, p)
  BY DEF Linked
<1> QED
  BY <1>2, <1>3, <1>4, <1>5, <1>6

LEMMA UnlinkedTyped ==
  ASSUME Memory, NEW l \in List, NEW p, NEW s \in Unlinked(l, p)
  PROVE  s \in LinkRecord /\ p \in Node
<1>1. /\ p \in Node /\ next[p] \in Node \cup {NULL} /\ prev[p] \in Node \cup {NULL}
  BY DEF Unlinked, Memory
<1>2. next \in Links /\ prev \in Links /\ next[p] \in NodePtr /\ prev[p] \in NodePtr
  BY <1>1 DEF Memory, NodePtr
<1> DEFINE h == IF head[l] = p THEN next[p] ELSE head[l]
           t == IF tail[l] = p THEN prev[p] ELSE tail[l]
           fn == IF prev[p] = NULL THEN next ELSE [next EXCEPT ![prev[p]] = next[p]]
           fp == IF next[p] = NULL THEN prev ELSE [prev EXCEPT ![next[p]] = prev[p]]
<1>3. h \in NodePtr /\ t \in NodePtr
  BY <1>2 DEF Memory
<1>4. fn \in Links /\ fp \in Links
  BY <1>1, <1>2, LinksTyped
<1>5. s = [head |-> h, tail |-> t, next |-> fn, prev |-> fp]
  BY DEF Unlinked
<1> HIDE DEF h, t, fn, fp
<1> QED
  BY <1>1, <1>3, <1>4, <1>5 DEF LinkRecord

LEMMA RelinkTyped ==
  ASSUME Memory, NEW l \in List, NEW s \in LinkRecord, Relink(l, s)
  PROVE  head' \in [List -> NodePtr] /\ tail' \in [List -> NodePtr] /\ next' \in Links /\ prev' \in Links
BY DEF Memory, LinkRecord, Relink

LEMMA InsertTyped ==
  ASSUME Memory, NEW l \in List, NEW i \in Nat, NEW x \in Data, InsertNode(l, i, x)
  PROVE  Memory'
<1>1. CASE UNCHANGED <<header, memory, fault>>
  BY <1>1 DEF header, memory, Memory
<1>2. CASE fault' = TRUE /\ UNCHANGED <<header, memory>>
  BY <1>2 DEF header, memory, Memory
<1>3. ASSUME NEW n \in Lowest(1), NEW s \in Linked(l, i, n),
             NEW c \in Listing_Cache_Add(Bumped(cache[l], i), i, n),
             Relink(l, s), cache' = [cache EXCEPT ![l] = c],
             alloc' = alloc \cup {n}, data' = [data EXCEPT ![n] = x],
             count' = [count EXCEPT ![l] = @ + 1], UNCHANGED fault
      PROVE  Memory'
  <2>1. n \in Node /\ n \in NodePtr
    BY DEF Lowest, FreeNodes, NodePtr
  <2>2. s \in LinkRecord
    BY <2>1, LinkedTyped
  <2>3. cache[l] \in Cache
    BY DEF Memory
  <2>4. c \in Cache
    BY <2>1, <2>3, NumbersTyped, AddTyped
  <2>5. /\ cache' \in [List -> Cache] /\ alloc' \subseteq Node /\ data' \in [Node -> Data]
        /\ count' \in [List -> Nat] /\ fault' \in BOOLEAN
    BY <1>3, <2>1, <2>4 DEF Memory
  <2> QED
    BY <1>3, <2>2, <2>5, RelinkTyped DEF Memory
<1> QED
  BY <1>1, <1>2, <1>3 DEF InsertNode

LEMMA RemoveTyped ==
  ASSUME Memory, NEW l \in List, NEW i \in Nat, RemoveNode(l, i)
  PROVE  Memory'
<1>1. CASE UNCHANGED <<header, memory, fault>>
  BY <1>1 DEF header, memory, Memory
<1>2. CASE fault' = TRUE /\ UNCHANGED <<header, memory>>
  BY <1>2 DEF header, memory, Memory
<1>3. ASSUME NEW p, NEW s \in Unlinked(l, p), NEW c \in Listing_Cache_Del(cache[l], i), i < count[l],
             Relink(l, s), cache' = [cache EXCEPT ![l] = Lowered(c, i)],
             alloc' = alloc \ {p}, count' = [count EXCEPT ![l] = @ - 1],
             UNCHANGED <<data, fault>>
      PROVE  Memory'
  <2>1. s \in LinkRecord
    BY UnlinkedTyped
  <2>2. cache[l] \in Cache /\ count[l] \in Nat
    BY DEF Memory
  <2>3. Lowered(c, i) \in Cache
    BY <2>2, NumbersTyped, DelTyped
  <2>4. count[l] - 1 \in Nat
    BY <1>3, <2>2
  <2>5. /\ cache' \in [List -> Cache] /\ alloc' \subseteq Node /\ data' \in [Node -> Data]
        /\ count' \in [List -> Nat] /\ fault' \in BOOLEAN
    BY <1>3, <2>3, <2>4 DEF Memory
  <2> QED
    BY <1>3, <2>1, <2>5, RelinkTyped DEF Memory
<1> QED
  BY <1>1, <1>2, <1>3 DEF RemoveNode

Upper == live \subseteq List /\ freeing \in List \cup {NULL} /\ calls \in [List -> Nat]

LEMMA TypeParts == TypeOK <=> Memory /\ Upper
BY DEF TypeOK, Memory, Upper

LEMMA MemorySame == Memory /\ UNCHANGED <<header, memory, fault>> => Memory'
BY DEF Memory, header, memory

LEMMA MemoryFault == Memory /\ UNCHANGED <<header, memory>> /\ fault' = TRUE => Memory'
BY DEF Memory, header, memory

LEMMA AtTyped ==
  ASSUME Memory, NEW l \in List, NEW i \in Nat, Listing_At(l, i)
  PROVE  Memory'
<1>1. CASE UNCHANGED <<header, memory, fault>>
  BY <1>1, MemorySame
<1>2. CASE Stops
  BY <1>2, MemoryFault DEF Stops
<1>3. ASSUME NEW n \in alloc, NEW c \in Listing_Cache_Add(cache[l], i, n),
             cache' = [cache EXCEPT ![l] = c], UNCHANGED <<head, tail, count, memory, fault>>
      PROVE  Memory'
  <2>1. n \in NodePtr /\ cache[l] \in Cache
    BY DEF Memory, NodePtr
  <2>2. cache' \in [List -> Cache]
    BY <1>3, <2>1, AddTyped DEF Memory
  <2> QED
    BY <1>3, <2>2 DEF Memory, memory
<1> QED
  BY <1>1, <1>2, <1>3 DEF Listing_At

LEMMA StartTyped ==
  ASSUME Memory, NEW l \in List
  PROVE  Start(l) \in SortState
<1>1. cache[l] \in Cache /\ head[l] \in NodePtr /\ tail[l] \in NodePtr /\ next \in Links /\ prev \in Links
  BY DEF Memory
<1>2. cache[l].ids \in [Slot -> Nat] /\ MostTurns \in 0..MostTurns
  BY <1>1, CacheRecord, MostTurnsNat
<1> QED
  BY <1>1, <1>2 DEF Start, SortState

LEMMA SortStepTyped ==
  ASSUME Memory, NEW l \in List, Listing_Sort(l)
  PROVE  Memory'
<1>1. CASE Stops
  BY <1>1, MemoryFault DEF Stops
<1>2. ASSUME NEW s \in SortLoop(l), NEW r \in SortLoop(l),
             NEW c \in Listing_Cache_Sort([cache[l] EXCEPT !.ids = r.ids]),
             Relink(l, s), cache' = [cache EXCEPT ![l] = c],
             UNCHANGED <<count, alloc, data, fault>>
      PROVE  Memory'
  <2>1. alloc \subseteq Node /\ cache[l] \in Cache
    BY DEF Memory
  <2>2. s \in SortState /\ r \in SortState
    BY <2>1, StartTyped, SortKeeps, AfterTurnFacts
  <2>3. s \in LinkRecord \/ Relink(l, [head |-> s.head, tail |-> s.tail, next |-> s.next, prev |-> s.prev])
    BY <1>2 DEF Relink
  <2>4. [head |-> s.head, tail |-> s.tail, next |-> s.next, prev |-> s.prev] \in LinkRecord
    BY <2>2 DEF LinkRecord, SortState
  <2>5. [cache[l] EXCEPT !.ids = r.ids] \in Cache
    BY <2>1, <2>2 DEF Cache, SortState
  <2>6. cache' \in [List -> Cache]
    BY <1>2, <2>5, SortTyped DEF Memory
  <2> QED
    BY <1>2, <2>3, <2>4, <2>6, RelinkTyped DEF Memory
<1>3. \/ Stops
      \/ \E s \in SortLoop(l) : \E r \in SortLoop(l) :
           \E c \in Listing_Cache_Sort([cache[l] EXCEPT !.ids = r.ids]) :
             /\ Relink(l, s) /\ cache' = [cache EXCEPT ![l] = c]
             /\ UNCHANGED <<count, alloc, data, fault>>
  <2> DEFINE ends == SortLoop(l)
  <2> HIDE DEF ends
  <2> QED
    BY DEF Listing_Sort, ends
<1> QED
  BY <1>1, <1>2, <1>3

LEMMA AscendsOnce ==
  ASSUME NEW k \in Nat, NEW f \in [1..k -> Nat], Ascends(f, k)
  PROVE  \A i, j \in 1..k : f[i] = f[j] => i = j
<1> SUFFICES ASSUME NEW i \in 1..k, NEW j \in 1..k, f[i] = f[j], i # j PROVE FALSE
  OBVIOUS
<1>1. f[i] \in Nat /\ f[j] \in Nat /\ (i < j \/ j < i)
  OBVIOUS
<1>2. f[i] < f[j] \/ f[j] < f[i]
  BY <1>1 DEF Ascends
<1> QED
  BY <1>1, <1>2

LEMMA LinkTyped ==
  ASSUME Memory, NEW l \in List, NEW k \in 1..MaxLinked, Client_Link(l, k)
  PROVE  Memory'
<1> DEFINE s == CHOOSE f \in [1..k -> Lowest(k)] : \A i, j \in 1..k : i < j => f[i] < f[j]
<1>0. k \in Nat /\ k <= Cardinality(FreeNodes)
  BY NumbersAssumption DEF Client_Link
<1>1. s \in [1..k -> Lowest(k)] /\ Ascends(s, k)
  <2>1. \E f \in [1..k -> Lowest(k)] : \A i, j \in 1..k : i < j => f[i] < f[j]
    BY <1>0, LowestFacts DEF Ascends
  <2> QED
    BY <2>1 DEF Ascends
<1>2. /\ head' = [head EXCEPT ![l] = s[1]] /\ tail' = [tail EXCEPT ![l] = s[k]]
      /\ next' = [n \in Node |-> IF \E i \in 1..(k - 1) : s[i] = n
                                 THEN s[(CHOOSE i \in 1..k : s[i] = n) + 1]
                                 ELSE IF n \in Lowest(k) THEN NULL ELSE next[n]]
      /\ prev' = [n \in Node |-> IF \E i \in 2..k : s[i] = n
                                 THEN s[(CHOOSE i \in 1..k : s[i] = n) - 1]
                                 ELSE IF n \in Lowest(k) THEN NULL ELSE prev[n]]
      /\ alloc' = alloc \cup Lowest(k) /\ count' = [count EXCEPT ![l] = k]
      /\ UNCHANGED <<cache, data, fault>>
  BY DEF Client_Link
<1> HIDE DEF s
<1>3. \A i \in 1..k : s[i] \in NodePtr
  BY <1>1 DEF Lowest, FreeNodes, NodePtr
<1>4. \A i, j \in 1..k : s[i] = s[j] => i = j
  <2>1. s \in [1..k -> Nat]
    BY <1>1, FreeFacts DEF Lowest
  <2> QED
    BY <1>0, <1>1, <2>1, AscendsOnce
<1>5. next' \in Links
  <2>1. ASSUME NEW n \in Node PROVE next'[n] \in NodePtr
    <3>1. CASE \E i \in 1..(k - 1) : s[i] = n
      <4>1. PICK i \in 1..(k - 1) : s[i] = n
        BY <3>1
      <4> DEFINE j == CHOOSE i1 \in 1..k : s[i1] = n
      <4>2. j \in 1..k /\ s[j] = n
        BY <1>0, <4>1
      <4>3. next'[n] = s[j + 1]
        BY <1>2, <3>1
      <4> HIDE DEF j
      <4>4. j = i
        BY <1>0, <1>4, <4>1, <4>2
      <4> QED
        BY <1>0, <1>3, <4>1, <4>3, <4>4
    <3>2. CASE ~(\E i \in 1..(k - 1) : s[i] = n)
      BY <1>2, <3>2, PointersTyped DEF Memory, Links
    <3> QED
      BY <3>1, <3>2
  <2> QED
    BY <1>2, <2>1 DEF Links
<1>6. prev' \in Links
  <2>1. ASSUME NEW n \in Node PROVE prev'[n] \in NodePtr
    <3>1. CASE \E i \in 2..k : s[i] = n
      <4>1. PICK i \in 2..k : s[i] = n
        BY <3>1
      <4> DEFINE j == CHOOSE i1 \in 1..k : s[i1] = n
      <4>2. j \in 1..k /\ s[j] = n
        BY <1>0, <4>1
      <4>3. prev'[n] = s[j - 1]
        BY <1>2, <3>1
      <4> HIDE DEF j
      <4>4. j = i
        BY <1>0, <1>4, <4>1, <4>2
      <4> QED
        BY <1>0, <1>3, <4>1, <4>3, <4>4
    <3>2. CASE ~(\E i \in 2..k : s[i] = n)
      BY <1>2, <3>2, PointersTyped DEF Memory, Links
    <3> QED
      BY <3>1, <3>2
  <2> QED
    BY <1>2, <2>1 DEF Links
<1>7. /\ head' \in [List -> NodePtr] /\ tail' \in [List -> NodePtr]
      /\ alloc' \subseteq Node /\ count' \in [List -> Nat]
  <2>1. s[1] \in NodePtr /\ s[k] \in NodePtr
    BY <1>0, <1>3
  <2>2. Lowest(k) \subseteq Node
    BY DEF Lowest, FreeNodes
  <2> QED
    BY <1>0, <1>2, <2>1, <2>2 DEF Memory
<1> QED
  BY <1>2, <1>5, <1>6, <1>7 DEF Memory

LEMMA NextTyped ==
  ASSUME Memory, Upper, Next
  PROVE  Memory' /\ Upper'
<1>1. ASSUME NEW l \in List, Listing_Init(l) PROVE Memory' /\ Upper'
  BY <1>1, PointersTyped DEF Listing_Init, Memory, Upper, memory
<1>2. ASSUME NEW l \in List, Listing_Free(l) PROVE Memory' /\ Upper'
  <2>1. Upper'
    BY <1>2 DEF Listing_Free, Call, Upper
  <2> QED
    BY <1>2, <2>1, MemorySame DEF Listing_Free
<1>3. ASSUME NEW l \in List, Call(l), UNCHANGED <<live, freeing>> PROVE Upper'
  BY <1>3 DEF Call, Upper
<1>4. ASSUME NEW l \in List, Listing_Sort(l) PROVE Memory' /\ Upper'
  <2>1. Call(l) /\ UNCHANGED <<live, freeing>>
    BY <1>4 DEF Listing_Sort, Stops
  <2> QED
    BY <1>3, <1>4, <2>1, SortStepTyped
<1>5. ASSUME NEW l \in List, NEW k \in 1..MaxLinked, Client_Link(l, k) PROVE Memory' /\ Upper'
  <2>1. Upper'
    BY <1>5 DEF Client_Link, Upper
  <2> QED
    BY <1>5, <2>1, LinkTyped
<1>6. ASSUME NEW l \in List, NEW i \in 0..(count[l] + 1), NEW x \in Data, Listing_Insert(l, i, x)
      PROVE  Memory' /\ Upper'
  <2>1. i \in Nat
    BY DEF Memory
  <2> QED
    BY <1>3, <1>6, <2>1, InsertTyped DEF Listing_Insert
<1>7. ASSUME NEW l \in List, NEW i \in 0..(count[l] + 1), Listing_Remove(l, i)
      PROVE  Memory' /\ Upper'
  <2>1. i \in Nat
    BY DEF Memory
  <2> QED
    BY <1>3, <1>7, <2>1, RemoveTyped DEF Listing_Remove
<1>8. ASSUME NEW l \in List, NEW i \in 0..(count[l] + 1), Listing_At(l, i)
      PROVE  Memory' /\ Upper'
  <2>1. i \in Nat
    BY DEF Memory
  <2>2. Call(l) /\ UNCHANGED <<live, freeing>>
    BY <1>8 DEF Listing_At, Stops
  <2> QED
    BY <1>3, <1>8, <2>1, <2>2, AtTyped
<1>9. ASSUME NEW l \in List, NEW m \in List, Listing_Merge(l, m) PROVE Memory' /\ Upper'
  <2>1. Call(l) /\ UNCHANGED <<live, freeing>>
    BY <1>9 DEF Listing_Merge, Stops
  <2>2. CASE Stops
    BY <1>3, <2>1, <2>2, MemoryFault DEF Stops
  <2>3. CASE /\ tail[l] \in alloc /\ head[m] \in alloc
             /\ next' = [next EXCEPT ![tail[l]] = head[m]]
             /\ prev' = [prev EXCEPT ![head[m]] = tail[l]]
             /\ head' = [head EXCEPT ![m] = NULL]
             /\ tail' = [tail EXCEPT ![l] = tail[m], ![m] = NULL]
             /\ count' = [count EXCEPT ![l] = @ + count[m], ![m] = 0]
             /\ UNCHANGED <<live, cache, alloc, data, freeing, fault>>
    <3>1. next' \in Links /\ prev' \in Links
      BY <2>3 DEF Memory, Links
    <3>2. head' \in [List -> NodePtr] /\ tail' \in [List -> NodePtr]
      BY <2>3, PointersTyped DEF Memory
    <3>3. count[l] + count[m] \in Nat
      BY DEF Memory
    <3>4. count' \in [List -> Nat]
      BY <2>3, <3>3 DEF Memory
    <3> QED
      BY <1>3, <2>1, <2>3, <3>1, <3>2, <3>4 DEF Memory
  <2> QED
    BY <1>9, <2>2, <2>3 DEF Listing_Merge
<1>10. CASE Free_Turn
  <2>1. freeing \in List
    BY <1>10 DEF Free_Turn, Upper
  <2> QED
    BY <1>10, <2>1, RemoveTyped DEF Free_Turn, Upper
<1>11. CASE Free_End
  <2>1. Upper'
    BY <1>11 DEF Free_End, Upper
  <2> QED
    BY <1>11, <2>1, MemorySame DEF Free_End
<1> QED
  BY <1>1, <1>2, <1>4, <1>5, <1>6, <1>7, <1>8, <1>9, <1>10, <1>11 DEF Next

(* A thread that is about to push has a node in hand and somewhere to push. *)
Places == {"idle", "next", "call", "push", "done"}
Pushing ==
  /\ pc \in [Thread -> Places] /\ at \in [Thread -> Nat] /\ item = [th \in Thread |-> item[th]]
  /\ job.list \in List \cup {NULL}
  /\ \A th \in Thread : pc[th] = "push" => job.list \in List /\ item[th] \in alloc

LEMMA PushingSame == Pushing /\ UNCHANGED foreach /\ alloc \subseteq alloc' => Pushing'
BY DEF Pushing, foreach

LEMMA ForeachTyped ==
  ASSUME Memory, Upper, Pushing, [ForeachNext]_allVars
  PROVE  Memory' /\ Upper' /\ Pushing'
<1>1. CASE UNCHANGED allVars
  BY <1>1, PushingSame DEF allVars, vars, header, memory, Memory, Upper
<1>2. CASE Idle /\ Next /\ UNCHANGED foreach
  <2>1. Pushing'
    BY <1>2 DEF Idle, Pushing, foreach
  <2> QED
    BY <1>2, <2>1, NextTyped
<1>3. ASSUME NEW l \in List, NEW T, NEW j, Starts(l, T, j), j.list \in List \cup {NULL}
      PROVE  Pushing' /\ calls' \in [List -> Nat]
  <2>1. PICK created \in SUBSET (T \ {Main}) :
          pc' = [th \in Thread |-> IF th \in created \cup {Main} THEN "next" ELSE "idle"]
    BY <1>3 DEF Starts
  <2>2. job' = j /\ UNCHANGED <<item, at>>
    BY <1>3 DEF Starts, Listing_Foreach_JobMeta_Setup
  <2>3. \A th \in Thread : pc'[th] \in {"next", "idle"}
    BY <2>1
  <2>4. Pushing'
    BY <1>3, <2>1, <2>2, <2>3 DEF Pushing, Places
  <2> QED
    BY <1>3, <2>4 DEF Starts, Call, Upper
<1>4. ASSUME NEW l \in List, NEW T, Listing_Foreach(l, T) PROVE Memory' /\ Upper' /\ Pushing'
  BY <1>3, <1>4, MemorySame DEF Listing_Foreach, Upper
<1>5. ASSUME NEW l \in List, NEW T, NEW finds, Listing_Find(l, T, finds)
      PROVE  Memory' /\ Upper' /\ Pushing'
  <2>1. PICK r \in (List \ live) \cup {NULL} :
          /\ Starts(l, T, [over |-> l, does |-> "push", list |-> r, finds |-> finds])
          /\ live' = live \cup ({r} \ {NULL})
          /\ head' = [m \in List |-> IF m = r THEN NULL ELSE head[m]]
          /\ tail' = [m \in List |-> IF m = r THEN NULL ELSE tail[m]]
          /\ count' = [m \in List |-> IF m = r THEN 0 ELSE count[m]]
          /\ UNCHANGED <<cache, memory, freeing, fault>>
    BY <1>5 DEF Listing_Find
  <2>2. Pushing' /\ calls' \in [List -> Nat]
    BY <1>3, <2>1
  <2>3. Memory'
    BY <2>1, PointersTyped DEF Memory, memory
  <2>4. Upper'
    BY <2>1, <2>2 DEF Upper
  <2> QED
    BY <2>2, <2>3, <2>4
<1>6. ASSUME NEW l \in List, NEW m \in List, Listing_Clone(m, l) PROVE Memory' /\ Upper' /\ Pushing'
  BY <1>3, <1>6, MemorySame DEF Listing_Clone, Upper
<1>7. ASSUME NEW th \in Thread, Listing_Foreach_Queue_Next(th) PROVE Memory' /\ Upper' /\ Pushing'
  <2>1. UNCHANGED <<vars, at, job>>
    BY <1>7 DEF Listing_Foreach_Queue_Next
  <2>2. Memory' /\ Upper' /\ alloc' = alloc
    BY <2>1, MemorySame DEF Upper, vars, memory
  <2>3. /\ item' = [item EXCEPT ![th] = cursor]
        /\ pc' = [pc EXCEPT ![th] = IF cursor = NULL THEN "done" ELSE "call"]
    BY <1>7 DEF Listing_Foreach_Queue_Next
  <2>4. Pushing'
    BY <2>1, <2>2, <2>3 DEF Pushing, Places
  <2> QED
    BY <2>2, <2>4
<1>8. ASSUME NEW th \in Thread, Callback(th) PROVE Memory' /\ Upper' /\ Pushing'
  <2>1. UNCHANGED <<live, header, memory, freeing, calls, item, job>> /\ alloc' = alloc
    BY <1>8 DEF Callback, vars, Stops, memory
  <2>2. Memory' /\ Upper'
    <3>1. fault' = fault \/ fault' = TRUE
      BY <1>8 DEF Callback, vars, Stops
    <3> QED
      BY <2>1, <3>1, MemorySame, MemoryFault DEF Upper
  <2>3. \/ pc' = [pc EXCEPT ![th] = "next"] /\ UNCHANGED at
        \/ /\ item[th] \in alloc /\ job.list # NULL
           /\ pc' = [pc EXCEPT ![th] = "push"] /\ at' = [at EXCEPT ![th] = count[job.list]]
        \/ UNCHANGED <<pc, at>>
    BY <1>8 DEF Callback
  <2>4. Pushing'
    <3>1. CASE UNCHANGED <<pc, at>>
      BY <2>1, <3>1 DEF Pushing
    <3>2. CASE pc' = [pc EXCEPT ![th] = "next"] /\ UNCHANGED at
      BY <2>1, <3>2 DEF Pushing, Places
    <3>3. CASE /\ item[th] \in alloc /\ job.list # NULL
               /\ pc' = [pc EXCEPT ![th] = "push"] /\ at' = [at EXCEPT ![th] = count[job.list]]
      <4>1. job.list \in List
        BY <3>3 DEF Pushing
      <4>2. count[job.list] \in Nat
        BY <4>1 DEF Memory
      <4> QED
        BY <2>1, <3>3, <4>1, <4>2 DEF Pushing, Places
    <3> QED
      BY <2>3, <3>1, <3>2, <3>3
  <2> QED
    BY <2>2, <2>4
<1>9. ASSUME NEW th \in Thread, Push(th) PROVE Memory' /\ Upper' /\ Pushing'
  <2>1. job.list \in List /\ item[th] \in alloc /\ at[th] \in Nat
    BY <1>9 DEF Push, Pushing
  <2>2. data[item[th]] \in Data
    BY <2>1 DEF Memory
  <2>3. Memory'
    BY <1>9, <2>1, <2>2, InsertTyped DEF Push
  <2>4. alloc \subseteq alloc'
    BY <1>9 DEF Push, InsertNode, memory
  <2>5. pc' = [pc EXCEPT ![th] = "next"] /\ UNCHANGED <<live, freeing, calls, item, at, job>>
    BY <1>9 DEF Push
  <2>6. Pushing'
    BY <2>4, <2>5 DEF Pushing, Places
  <2> QED
    BY <2>3, <2>5, <2>6 DEF Upper
<1>10. CASE Join
  <2>1. UNCHANGED <<live, header, memory, freeing, calls, item, at, job>> /\ alloc' = alloc
    BY <1>10 DEF Join, vars, Stops, memory
  <2>2. Memory' /\ Upper'
    <3>1. fault' = fault \/ fault' = TRUE
      BY <1>10 DEF Join, vars, Stops
    <3> QED
      BY <2>1, <3>1, MemorySame, MemoryFault DEF Upper
  <2>3. pc' = [th \in Thread |-> "idle"] \/ UNCHANGED pc
    BY <1>10 DEF Join
  <2>4. Pushing'
    BY <2>1, <2>3 DEF Pushing, Places
  <2> QED
    BY <2>2, <2>4
<1> QED
  BY <1>1, <1>2, <1>4, <1>5, <1>6, <1>7, <1>8, <1>9, <1>10 DEF ForeachNext, Step

LEMMA InitTyped == ForeachInit => Memory /\ Upper /\ Pushing
<1> SUFFICES ASSUME ForeachInit PROVE Memory /\ Upper /\ Pushing
  OBVIOUS
<1>1. cache \in [List -> Cache]
  <2>1. DOMAIN cache = List /\ cache = [l \in List |-> cache[l]] /\ \A l \in List : cache[l] \in Garbage[l]
    BY DEF ForeachInit, Init
  <2>2. \A l \in List : cache[l] \in Cache
    BY <2>1, GarbageAssumption
  <2> QED
    BY <2>1, <2>2
<1>2. Memory
  BY <1>1, NumbersAssumption, PointersTyped DEF ForeachInit, Init, Memory, Links
<1>3. Upper
  BY DEF ForeachInit, Init, Upper
<1>4. Pushing
  BY DEF ForeachInit, Pushing, Places
<1> QED
  BY <1>2, <1>3, <1>4

(* Every variable of Listing keeps its type, wherever the searches and the *)
(* sorts end: the cached indices stay numbers, so that no decrement of     *)
(* line 331 wraps around.                                                  *)
THEOREM TypeCorrect == ForeachSpec => []TypeOK
<1>1. Memory /\ Upper /\ Pushing /\ [ForeachNext]_allVars => Memory' /\ Upper' /\ Pushing'
  BY ForeachTyped
<1>2. ForeachSpec => [](Memory /\ Upper /\ Pushing)
  BY <1>1, InitTyped, PTL DEF ForeachSpec
<1> QED
  BY <1>2, TypeParts, PTL

-----------------------------------------------------------------------------
(* The first entry, and no other *)

(* A listing on which no call was made has no first node or counts one; so *)
(* has the one that is gone through, on which no other call was made.      *)
Begun(l) == calls[l] = 0 \/ (~Idle /\ job.over = l)
FirstCounted == \A l \in List : Begun(l) /\ head[l] # NULL => count[l] # 0
(* The threads have the first node, which stays the first: what is pushed  *)
(* to the listing itself goes behind it.                                   *)
Given ==
  /\ ~Idle => job.over \in List /\ cursor = head[job.over]
  /\ \A th \in Thread : pc[th] \in {"call", "push"} =>
       item[th] = cursor /\ cursor # NULL /\ (pc[th] = "push" /\ job.list = job.over => at[th] # 0)
FInv == FirstCounted /\ Given /\ (freeing # NULL => calls[freeing] # 0)

(* What an insertion does to the first nodes and the counts. *)
LEMMA InsertFirst ==
  ASSUME Memory, NEW l \in List, NEW i \in Nat, NEW x, InsertNode(l, i, x)
  PROVE  /\ \A m \in List : m # l => head'[m] = head[m] /\ count'[m] = count[m]
         /\ head[l] = NULL \/ i # 0 => head'[l] = head[l]
         /\ \/ head'[l] = head[l] /\ count'[l] = count[l]
            \/ count'[l] # 0
<1>1. ASSUME NEW n, NEW s \in Linked(l, i, n), head[l] = NULL \/ i # 0
      PROVE  s.head = head[l]
  BY <1>1 DEF Linked, IntoEmpty, AtEnd, After
<1>2. \/ UNCHANGED <<head, count>>
      \/ /\ count' = [count EXCEPT ![l] = @ + 1]
         /\ \E h : /\ head' = [head EXCEPT ![l] = h]
                   /\ head[l] = NULL \/ i # 0 => h = head[l]
  BY <1>1 DEF InsertNode, header, Relink
<1>3. count[l] + 1 # 0
  BY DEF Memory
<1> QED
  BY <1>2, <1>3 DEF Memory

LEMMA RemoveOther ==
  ASSUME Memory, NEW l \in List, NEW i, RemoveNode(l, i)
  PROVE  \A m \in List : m # l => head'[m] = head[m] /\ count'[m] = count[m]
<1>1. \/ UNCHANGED <<head, count>>
      \/ \E h, c : head' = [head EXCEPT ![l] = h] /\ count' = [count EXCEPT ![l] = c]
  BY DEF RemoveNode, header, Relink
<1> QED
  BY <1>1 DEF Memory

(* A call on a listing changes the first node and the count of no other,   *)
(* or it takes all nodes away from one.                                    *)
LEMMA NextFirst ==
  ASSUME Memory, Upper, Next, NEW m \in List, calls'[m] = 0, freeing # NULL => freeing # m,
         head[m] # NULL => count[m] # 0
  PROVE  head'[m] # NULL => count'[m] # 0
<1>0. head \in [List -> NodePtr] /\ count \in [List -> Nat]
  BY DEF Memory
<1>1. ASSUME NEW l \in List, Call(l) PROVE m # l
  <2>1. calls'[l] = calls[l] + 1 /\ calls[l] \in Nat
    BY <1>1 DEF Call, Upper
  <2> QED
    BY <2>1
<1>2. ASSUME NEW l \in List, Listing_Init(l) PROVE head'[m] # NULL => count'[m] # 0
  BY <1>0, <1>2 DEF Listing_Init
<1>3. ASSUME NEW l \in List, Listing_Free(l) PROVE head'[m] # NULL => count'[m] # 0
  BY <1>0, <1>3 DEF Listing_Free, header
<1>4. ASSUME NEW l \in List, Listing_Sort(l) PROVE head'[m] # NULL => count'[m] # 0
  <2> DEFINE ends == SortLoop(l)
  <2> HIDE DEF ends
  <2>1. Call(l)
    BY <1>4 DEF Listing_Sort
  <2>2. UNCHANGED <<head, count>> \/ \E h : head' = [head EXCEPT ![l] = h] /\ UNCHANGED count
    BY <1>4 DEF Listing_Sort, Relink, Stops, header, ends
  <2> QED
    BY <1>0, <1>1, <2>1, <2>2
<1>5. ASSUME NEW l \in List, NEW k \in 1..MaxLinked, Client_Link(l, k)
      PROVE  head'[m] # NULL => count'[m] # 0
  <2> DEFINE s == CHOOSE f \in [1..k -> Lowest(k)] : \A i, j \in 1..k : i < j => f[i] < f[j]
  <2>1. head' = [head EXCEPT ![l] = s[1]] /\ count' = [count EXCEPT ![l] = k]
    BY <1>5 DEF Client_Link
  <2>2. k # 0
    BY NumbersAssumption
  <2> HIDE DEF s
  <2> QED
    BY <1>0, <2>1, <2>2
<1>6. ASSUME NEW l \in List, NEW i \in 0..(count[l] + 1), NEW x \in Data, Listing_Insert(l, i, x)
      PROVE  head'[m] # NULL => count'[m] # 0
  <2>1. i \in Nat /\ m # l
    BY <1>0, <1>1, <1>6 DEF Listing_Insert
  <2> QED
    BY <1>6, <2>1, InsertFirst DEF Listing_Insert
<1>7. ASSUME NEW l \in List, NEW i, Listing_Remove(l, i)
      PROVE  head'[m] # NULL => count'[m] # 0
  BY <1>1, <1>7, RemoveOther DEF Listing_Remove
<1>8. ASSUME NEW l \in List, NEW i, Listing_At(l, i)
      PROVE  head'[m] # NULL => count'[m] # 0
  BY <1>8 DEF Listing_At, Stops, header
<1>9. ASSUME NEW l \in List, NEW o \in List, Listing_Merge(l, o)
      PROVE  head'[m] # NULL => count'[m] # 0
  <2>1. m # l
    BY <1>1, <1>9 DEF Listing_Merge
  <2>2. \/ UNCHANGED <<head, count>>
        \/ /\ head' = [head EXCEPT ![o] = NULL]
           /\ count' = [count EXCEPT ![l] = @ + count[o], ![o] = 0]
    BY <1>9 DEF Listing_Merge, Stops, header
  <2> QED
    BY <1>0, <2>1, <2>2
<1>10. CASE Free_Turn
  <2>1. freeing \in List /\ freeing # m
    BY <1>10 DEF Free_Turn, Upper
  <2> QED
    BY <1>10, <2>1, RemoveOther DEF Free_Turn
<1>11. CASE Free_End
  BY <1>11 DEF Free_End, header
<1> QED
  BY <1>2, <1>3, <1>4, <1>5, <1>6, <1>7, <1>8, <1>9, <1>10, <1>11 DEF Next

LEMMA NextCalls ==
  ASSUME Upper, Next
  PROVE  /\ \A l \in List : calls'[l] = 0 => calls[l] = 0
         /\ freeing' # NULL => freeing' \in List /\ (freeing' = freeing \/ calls'[freeing'] # 0)
<1>1. ASSUME NEW l \in List, Call(l)
      PROVE  calls'[l] # 0 /\ \A m \in List : calls'[m] = 0 => calls[m] = 0
  <2>1. calls[l] \in Nat /\ calls' = [calls EXCEPT ![l] = calls[l] + 1]
    BY <1>1 DEF Call, Upper
  <2>2. calls[l] + 1 # 0
    BY <2>1
  <2> QED
    BY <2>1, <2>2 DEF Upper
<1>2. \/ UNCHANGED calls
      \/ \E l \in List : Call(l)
  BY DEF Next, Listing_Init, Listing_Free, Listing_Sort, Client_Link, Listing_Insert, Listing_Remove,
     Listing_At, Listing_Merge, Free_Turn, Free_End
<1>3. \/ freeing' = freeing
      \/ freeing' = NULL
      \/ \E l \in List : Call(l) /\ freeing' = l
  BY DEF Next, Listing_Init, Listing_Free, Listing_Sort, Client_Link, Listing_Insert, Listing_Remove,
     Listing_At, Listing_Merge, Free_Turn, Free_End, Stops
<1> QED
  BY <1>1, <1>2, <1>3 DEF Upper

LEMMA FirstStep ==
  ASSUME MaxBefore = 0, Memory, Upper, Pushing, FInv, [ForeachNext]_allVars
  PROVE  FInv'
<1>1. ASSUME UNCHANGED <<head, count, calls, freeing, foreach>> PROVE FInv'
  BY <1>1 DEF FInv, FirstCounted, Given, Begun, Idle, foreach
<1>2. CASE Idle /\ Next /\ UNCHANGED foreach
  <2>1. Idle' /\ \A th \in Thread : pc'[th] = "idle"
    BY <1>2 DEF Idle, foreach
  <2>2. Given'
    BY <2>1 DEF Given
  <2>3. FirstCounted'
    <3>1. ASSUME NEW m \in List, calls'[m] = 0 PROVE head'[m] # NULL => count'[m] # 0
      <4>1. calls[m] = 0
        BY <1>2, <3>1, NextCalls
      <4>2. head[m] # NULL => count[m] # 0
        BY <4>1 DEF FInv, FirstCounted, Begun
      <4>3. freeing # NULL => freeing # m
        BY <4>1 DEF FInv
      <4> QED
        BY <1>2, <3>1, <4>2, <4>3, NextFirst
    <3> QED
      BY <2>1, <3>1 DEF FirstCounted, Begun
  <2>4. freeing' # NULL => calls'[freeing'] # 0
    <3>1. CASE freeing' = freeing /\ freeing' # NULL
      <4>1. calls[freeing] # 0 /\ freeing \in List
        BY <3>1 DEF FInv, Upper
      <4> QED
        BY <1>2, <3>1, <4>1, NextCalls
    <3> QED
      BY <1>2, <3>1, NextCalls
  <2> QED
    BY <2>2, <2>3, <2>4 DEF FInv
<1>3. ASSUME NEW l \in List, NEW T, NEW j, Starts(l, T, j), j.over = l, UNCHANGED freeing,
             \A m \in List : /\ m = l => head'[m] = head[m]
                             /\ head'[m] = head[m] \/ head'[m] = NULL
                             /\ head'[m] # NULL => count'[m] = count[m]
      PROVE  FInv'
  <2>1. PICK created \in SUBSET (T \ {Main}) :
          pc' = [th \in Thread |-> IF th \in created \cup {Main} THEN "next" ELSE "idle"]
    BY <1>3 DEF Starts
  <2>2. /\ job' = j /\ cursor' = head[l] /\ Idle /\ freeing = NULL
        /\ calls' = [calls EXCEPT ![l] = @ + 1] /\ calls[l] <= MaxBefore
    BY <1>3 DEF Starts, Listing_Foreach_JobMeta_Setup, Call, Runs
  <2>3. \A th \in Thread : pc'[th] \in {"next", "idle"}
    BY <2>1
  <2>4. Given'
    BY <1>3, <2>2, <2>3 DEF Given
  <2>5. calls[l] = 0
    BY <2>2 DEF Upper
  <2>6. ASSUME NEW m \in List, Begun(m)', head'[m] # NULL PROVE count'[m] # 0
    <3>1. calls[m] = 0
      BY <1>3, <2>2, <2>5, <2>6 DEF Begun, Upper
    <3> QED
      BY <1>3, <2>6, <3>1 DEF FInv, FirstCounted, Begun
  <2> QED
    BY <1>3, <2>2, <2>4, <2>6 DEF FInv, FirstCounted
<1>4. ASSUME NEW l \in List, NEW T, Listing_Foreach(l, T) PROVE FInv'
  BY <1>3, <1>4 DEF Listing_Foreach, header
<1>5. ASSUME NEW l \in List, NEW m, Listing_Clone(m, l) PROVE FInv'
  BY <1>3, <1>5 DEF Listing_Clone, header
<1>6. ASSUME NEW l \in List, NEW T, NEW finds, Listing_Find(l, T, finds) PROVE FInv'
  <2>1. PICK r \in (List \ live) \cup {NULL} :
          /\ Starts(l, T, [over |-> l, does |-> "push", list |-> r, finds |-> finds])
          /\ head' = [m \in List |-> IF m = r THEN NULL ELSE head[m]]
          /\ count' = [m \in List |-> IF m = r THEN 0 ELSE count[m]]
          /\ UNCHANGED freeing
    BY <1>6 DEF Listing_Find
  <2>2. l # r
    BY <2>1, NodeAssumption DEF Starts
  <2> QED
    BY <1>3, <2>1, <2>2
<1>7. ASSUME NEW th \in Thread, Listing_Foreach_Queue_Next(th) PROVE FInv'
  <2>1. /\ item' = [item EXCEPT ![th] = cursor] /\ cursor' = cursor /\ pc[th] = "next"
        /\ pc' = [pc EXCEPT ![th] = IF cursor = NULL THEN "done" ELSE "call"]
        /\ UNCHANGED <<head, count, calls, freeing, at, job>>
    BY <1>7 DEF Listing_Foreach_Queue_Next, Advanced, vars, header
  <2>2. ~Idle /\ ~Idle'
    BY <2>1 DEF Idle, Pushing
  <2>3. Given'
    BY <2>1, <2>2 DEF FInv, Given, Pushing
  <2> QED
    BY <2>1, <2>2, <2>3 DEF FInv, FirstCounted, Begun
<1>8. ASSUME NEW th \in Thread, Callback(th) PROVE FInv'
  <2>1. /\ pc[th] = "call" /\ UNCHANGED <<head, count, calls, freeing, item, cursor, job>>
        /\ \/ pc' = [pc EXCEPT ![th] = "next"] /\ UNCHANGED at
           \/ pc' = [pc EXCEPT ![th] = "push"] /\ at' = [at EXCEPT ![th] = count[job.list]]
           \/ UNCHANGED <<pc, at>>
    BY <1>8 DEF Callback, vars, Stops, header
  <2>2. ~Idle /\ ~Idle'
    BY <2>1 DEF Idle, Pushing
  <2>3. count[job.over] # 0
    BY <2>1, <2>2 DEF FInv, Given, FirstCounted, Begun
  <2>4. Given'
    BY <2>1, <2>2, <2>3 DEF FInv, Given, Pushing
  <2> QED
    BY <2>1, <2>2, <2>4 DEF FInv, FirstCounted, Begun
<1>9. ASSUME NEW th \in Thread, Push(th) PROVE FInv'
  <2>1. /\ pc[th] = "push" /\ job.list \in List /\ at[th] \in Nat
        /\ InsertNode(job.list, at[th], data[item[th]])
        /\ pc' = [pc EXCEPT ![th] = "next"]
        /\ UNCHANGED <<calls, freeing, item, at, cursor, job>>
    BY <1>9 DEF Push, Pushing
  <2>2. ~Idle /\ ~Idle'
    BY <2>1 DEF Idle, Pushing
  <2>3. job.over \in List /\ (job.list = job.over => at[th] # 0)
    BY <2>1, <2>2 DEF FInv, Given
  <2>4. head'[job.over] = head[job.over]
    BY <2>1, <2>3, InsertFirst
  <2>5. Given'
    BY <2>1, <2>2, <2>4 DEF FInv, Given, Pushing
  <2>6. ASSUME NEW m \in List, Begun(m)', head'[m] # NULL PROVE count'[m] # 0
    <3>1. Begun(m)
      BY <2>1, <2>2, <2>6 DEF Begun
    <3>2. head[m] # NULL => count[m] # 0
      BY <3>1 DEF FInv, FirstCounted
    <3> QED
      BY <2>1, <2>6, <3>2, InsertFirst
  <2> QED
    BY <2>1, <2>5, <2>6 DEF FInv, FirstCounted
<1>10. CASE Join
  <2>1. /\ UNCHANGED <<head, count, calls, freeing, item, at, cursor, job>>
        /\ pc' = [th \in Thread |-> "idle"] \/ UNCHANGED pc
    BY <1>10 DEF Join, vars, Stops, header
  <2>2. CASE pc' = [th \in Thread |-> "idle"]
    <3>1. Idle' /\ \A th \in Thread : pc'[th] = "idle"
      BY <2>2 DEF Idle
    <3> QED
      BY <2>1, <3>1 DEF FInv, FirstCounted, Begun, Given
  <2> QED
    BY <1>1, <2>1, <2>2 DEF foreach, FInv, FirstCounted, Begun, Given, Idle
<1>11. CASE UNCHANGED allVars
  BY <1>1, <1>11 DEF allVars, vars, header
<1> QED
  BY <1>2, <1>4, <1>5, <1>6, <1>7, <1>8, <1>9, <1>10, <1>11 DEF ForeachNext, Step

(* When a listing is gone through before any other call on it, its threads *)
(* are given its first entry and no other, in every turn, as long as the   *)
(* call lasts (listing_foreach.c:42-45), with any number of threads, and   *)
(* when the callback pushes into the listing itself.                       *)
THEOREM OnlyFirstGivenHolds ==
  ASSUME MaxBefore = 0
  PROVE  ForeachSpec => []OnlyFirstGiven
<1>1. Memory /\ Upper /\ Pushing /\ FInv /\ [ForeachNext]_allVars => FInv'
  BY FirstStep
<1>2. ForeachInit => FInv
  <2> SUFFICES ASSUME ForeachInit PROVE FInv
    OBVIOUS
  <2>1. Idle /\ freeing = NULL /\ (\A l \in List : head[l] = NULL) /\ \A th \in Thread : pc[th] = "idle"
    BY DEF ForeachInit, Init, Idle
  <2> QED
    BY <2>1 DEF FInv, FirstCounted, Given
<1>3. FInv => OnlyFirstGiven
  BY DEF FInv, Given, OnlyFirstGiven, Idle
<1>4. Memory /\ Upper /\ Pushing /\ [ForeachNext]_allVars => Memory' /\ Upper' /\ Pushing'
  BY ForeachTyped
<1> QED
  BY <1>1, <1>2, <1>3, <1>4, InitTyped, PTL DEF ForeachSpec

-----------------------------------------------------------------------------
(* The nodes from the head on *)

Most == Cardinality(Node)
Walks == NodePtr \X (0..Most)
Walked(f, w) ==
  IF w[1] \in alloc /\ w[2] > 0 THEN <<w[1]>> \o f[<<next[w[1]], w[2] - 1>>] ELSE <<>>

LEMMA MostNat == Most \in Nat /\ \A k \in Nat : k <= Most => k \in 0..Most
BY NumbersAssumption, FS_CardinalityType DEF Most

LEMMA WalkTurns ==
  ASSUME Memory
  PROVE  \E f : f = [w \in Walks |-> Walked(f, w)]
<1> DEFINE Fits(n, f) == \A w \in Walks : w[2] < n => f[w] = Walked(f, w)
           Bad == { n \in Nat : ~ \E f : f = [w \in Walks |-> f[w]] /\ Fits(n, f) }
<1>0. \A w \in Walks : w[1] \in NodePtr /\ w[2] \in 0..Most /\ w[2] \in Nat
  BY MostNat DEF Walks
<1>1. Bad = {}
  <2> SUFFICES ASSUME Bad # {} PROVE FALSE
    OBVIOUS
  <2>1. PICK n \in Bad : \A k \in Bad : n <= k
    BY Smallest
  <2>2. n # 0
    <3> DEFINE f == [w \in Walks |-> 0]
    <3>1. \A w \in Walks : ~(w[2] < 0)
      BY <1>0
    <3>2. f = [w \in Walks |-> f[w]]
      OBVIOUS
    <3>3. Fits(0, f)
      BY <3>1
    <3> QED
      BY <3>2, <3>3
  <2>3. n - 1 \in Nat /\ n - 1 \notin Bad
    BY <2>1, <2>2
  <2>4. PICK f : f = [w \in Walks |-> f[w]] /\ Fits(n - 1, f)
    BY <2>3
  <2> DEFINE g == [w \in Walks |-> IF w[2] < n - 1 THEN f[w] ELSE Walked(f, w)]
  <2>5. ASSUME NEW w \in Walks, w[2] < n
        PROVE  g[w] = Walked(g, w)
    <3>1. g[w] = Walked(f, w)
      BY <2>4
    <3>2. ASSUME w[1] \in alloc, w[2] > 0
          PROVE  g[<<next[w[1]], w[2] - 1>>] = f[<<next[w[1]], w[2] - 1>>]
      <4>1. next[w[1]] \in NodePtr
        BY <3>2 DEF Memory, Links
      <4>2. w[2] - 1 \in 0..Most /\ w[2] - 1 < n - 1
        BY <1>0, <2>3, <2>5, <3>2, MostNat
      <4>3. <<next[w[1]], w[2] - 1>> \in Walks
        BY <4>1, <4>2 DEF Walks
      <4> QED
        BY <4>2, <4>3
    <3> HIDE DEF g
    <3> QED
      BY <3>1, <3>2 DEF Walked
  <2>6. g = [w \in Walks |-> g[w]]
    OBVIOUS
  <2>7. Fits(n, g)
    BY <2>5
  <2> HIDE DEF g
  <2> QED
    BY <2>1, <2>6, <2>7
<1>2. Most + 1 \in Nat /\ Most + 1 \notin Bad
  BY <1>1, MostNat
<1>3. PICK f : f = [w \in Walks |-> f[w]] /\ Fits(Most + 1, f)
  BY <1>2
<1>4. \A w \in Walks : w[2] < Most + 1
  BY <1>0, MostNat
<1>5. \A w \in Walks : f[w] = Walked(f, w)
  BY <1>3, <1>4
<1>6. f = [w \in Walks |-> Walked(f, w)]
  BY <1>3, <1>5
<1> QED
  BY <1>6

LEMMA ChainIs ==
  ASSUME Memory
  PROVE  \E f : /\ f = [w \in Walks |-> Walked(f, w)]
                /\ \A l : Chain(l) = f[<<head[l], Most>>]
<1> DEFINE L == CHOOSE f : f = [w \in Walks |-> Walked(f, w)]
<1>1. L = [w \in Walks |-> Walked(L, w)]
  BY WalkTurns
<1>2. \A l : Chain(l) = L[<<head[l], Most>>]
  BY DEF Chain, Walked, Walks, Most
<1> QED
  BY <1>1, <1>2

(* A sequence of nodes that are linked from p on, to one that is the last. *)
Joined(s) == s \in Seq(alloc) /\ \A i \in 1..(Len(s) - 1) : next[s[i]] = s[i + 1]
Whole(p, s) ==
  /\ Joined(s)
  /\ s = <<>> => p \notin alloc
  /\ s # <<>> => s[1] = p /\ next[s[Len(s)]] \notin alloc

(* It stops where the links do, or because it is long enough.              *)
Stopped(s, k) == Len(s) = k \/ s = <<>> \/ next[s[Len(s)]] \notin alloc

(* The chain is what the links say, and what they say is the chain.        *)
ChainLinks ==
  \A l \in List :
    /\ Joined(Chain(l)) /\ Len(Chain(l)) <= Most
    /\ Stopped(Chain(l), Most)
    /\ head[l] \notin alloc => Chain(l) = <<>>
    /\ head[l] \in alloc => Chain(l) # <<>> /\ Chain(l)[1] = head[l]
ChainExact == \A l \in List : \A s : Whole(head[l], s) /\ Len(s) <= Most => Chain(l) = s

LEMMA ConsFacts ==
  ASSUME NEW S, NEW p \in S, NEW c \in Seq(S)
  PROVE  /\ <<p>> \o c \in Seq(S) /\ Len(<<p>> \o c) = Len(c) + 1 /\ (<<p>> \o c)[1] = p
         /\ \A i \in 1..Len(c) : (<<p>> \o c)[i + 1] = c[i]
<1>1. <<p>> \in Seq(S) /\ Len(<<p>>) = 1 /\ <<p>>[1] = p /\ Len(c) \in Nat
  BY LenProperties
<1>2. /\ <<p>> \o c \in Seq(S) /\ Len(<<p>> \o c) = 1 + Len(c)
      /\ \A i \in 1..(1 + Len(c)) : (<<p>> \o c)[i] = IF i <= 1 THEN <<p>>[i] ELSE c[i - 1]
  BY <1>1, ConcatProperties
<1>3. \A i \in 1..Len(c) : i + 1 \in 1..(1 + Len(c)) /\ ~(i + 1 <= 1) /\ (i + 1) - 1 = i
  BY <1>1
<1> HIDE DEF Walked
<1> QED
  BY <1>1, <1>2, <1>3

LEMMA ChainLinked == Memory => ChainLinks
<1> SUFFICES ASSUME Memory PROVE ChainLinks
  OBVIOUS
<1>1. PICK f : /\ f = [w \in Walks |-> Walked(f, w)]
               /\ \A l : Chain(l) = f[<<head[l], Most>>]
  BY ChainIs
<1> DEFINE Right(p, k) ==
             /\ Joined(f[<<p, k>>]) /\ Len(f[<<p, k>>]) <= k
             /\ Stopped(f[<<p, k>>], k)
             /\ p \notin alloc \/ k = 0 => f[<<p, k>>] = <<>>
             /\ p \in alloc /\ k # 0 => f[<<p, k>>] # <<>> /\ f[<<p, k>>][1] = p
           Bad == { k \in Nat : k <= Most /\ \E p \in NodePtr : ~Right(p, k) }
<1>2. ASSUME Bad # {} PROVE FALSE
  <2>1. PICK k \in Bad : \A j \in Bad : k <= j
    BY <1>2, Smallest
  <2>2. PICK p \in NodePtr : ~Right(p, k)
    OBVIOUS
  <2>3. k \in Nat /\ k <= Most /\ <<p, k>> \in Walks
    BY MostNat DEF Walks
  <2>4. f[<<p, k>>] = IF p \in alloc /\ k > 0 THEN <<p>> \o f[<<next[p], k - 1>>] ELSE <<>>
    BY <1>1, <2>3 DEF Walked
  <2>5. CASE p \notin alloc \/ k = 0
    <3>1. f[<<p, k>>] = <<>>
      BY <2>3, <2>4, <2>5
    <3>2. Len(<<>>) = 0 /\ <<>> \in Seq(alloc)
      OBVIOUS
    <3>3. Joined(f[<<p, k>>])
      BY <3>1, <3>2 DEF Joined
    <3> QED
      BY <2>2, <2>3, <2>5, <3>1, <3>2, <3>3 DEF Stopped
  <2>6. CASE p \in alloc /\ k # 0
    <3>0. next[p] \in NodePtr
      BY <2>6 DEF Memory, Links
    <3>1. k - 1 \in Nat /\ k - 1 <= Most /\ k - 1 \notin Bad
      <4>1. k - 1 \in Nat /\ k - 1 <= Most
        BY <2>3, <2>6, MostNat
      <4>2. ASSUME k - 1 \in Bad PROVE FALSE
        <5>1. k <= k - 1
          BY <2>1, <4>2
        <5> QED
          BY <4>1, <5>1
      <4> QED
        BY <4>1, <4>2
    <3> DEFINE c == f[<<next[p], k - 1>>]
    <3>2. Right(next[p], k - 1)
      BY <3>0, <3>1
    <3>3. f[<<p, k>>] = <<p>> \o c
      BY <2>3, <2>4, <2>6
    <3>4. c \in Seq(alloc) /\ Len(c) <= k - 1 /\ Len(c) \in Nat
          /\ \A i \in 1..(Len(c) - 1) : next[c[i]] = c[i + 1]
      BY <3>2, LenProperties DEF Joined
    <3>5. c # <<>> => c[1] = next[p]
      BY <3>2
    <3> HIDE DEF c
    <3> DEFINE d == <<p>> \o c
    <3>6. /\ d \in Seq(alloc) /\ Len(d) = Len(c) + 1 /\ d[1] = p
          /\ \A i \in 1..Len(c) : d[i + 1] = c[i]
      BY <2>6, <3>4, ConsFacts
    <3> HIDE DEF d
    <3>7. ASSUME NEW i \in 1..(Len(d) - 1) PROVE next[d[i]] = d[i + 1]
      <4>1. CASE i = 1
        <5>1. Len(c) # 0 /\ 1 \in 1..Len(c)
          BY <3>4, <3>6, <4>1
        <5>2. c # <<>>
          BY <5>1
        <5> QED
          BY <3>5, <3>6, <4>1, <5>1, <5>2
      <4>2. CASE i # 1
        <5>1. PICK j \in 1..(Len(c) - 1) : i = j + 1
          <6>1. i - 1 \in 1..(Len(c) - 1) /\ i = (i - 1) + 1
            BY <3>4, <3>6, <4>2
          <6> QED
            BY <6>1
        <5>2. j \in 1..Len(c) /\ j + 1 \in 1..Len(c)
          BY <3>4
        <5>3. d[i] = c[j] /\ d[i + 1] = c[j + 1]
          BY <3>6, <5>1, <5>2
        <5> QED
          BY <3>4, <5>3
      <4> QED
        BY <4>1, <4>2
    <3>8. d # <<>>
      BY <3>4, <3>6
    <3>9. Joined(d) /\ Len(d) <= k
      BY <3>4, <3>6, <3>7, <2>3 DEF Joined
    <3>10. Stopped(d, k)
      <4>1. CASE c = <<>>
        <5>1. Len(c) = 0 /\ Len(d) = 1 /\ d[Len(d)] = p
          BY <3>6, <4>1
        <5>2. next[p] \notin alloc \/ k - 1 = 0
          BY <3>2, <4>1 DEF c
        <5> QED
          BY <2>3, <5>1, <5>2 DEF Stopped
      <4>2. CASE c # <<>>
        <5>1. Len(c) \in 1..Len(c) /\ Len(d) = Len(c) + 1
          BY <3>4, <3>6, <4>2
        <5>2. d[Len(d)] = c[Len(c)]
          BY <3>6, <5>1
        <5>3. Len(c) = k - 1 \/ next[c[Len(c)]] \notin alloc
          BY <3>2, <4>2 DEF Stopped, c
        <5> QED
          BY <2>3, <5>1, <5>2, <5>3 DEF Stopped
      <4> QED
        BY <4>1, <4>2
    <3> QED
      BY <2>2, <2>6, <3>3, <3>6, <3>8, <3>9, <3>10 DEF d
  <2> QED
    BY <2>5, <2>6
<1>3. ASSUME NEW l \in List
      PROVE  /\ Joined(Chain(l)) /\ Len(Chain(l)) <= Most
             /\ Stopped(Chain(l), Most)
             /\ head[l] \notin alloc => Chain(l) = <<>>
             /\ head[l] \in alloc => Chain(l) # <<>> /\ Chain(l)[1] = head[l]
  <2>1. head[l] \in NodePtr /\ Most \in Nat
    BY MostNat DEF Memory
  <2>2. Right(head[l], Most)
    <3> HIDE DEF Right
    <3>1. Bad = {} /\ Most <= Most
      BY <1>2, MostNat
    <3> QED
      BY <2>1, <3>1
  <2>3. head[l] \in alloc => Most # 0
    BY NumbersAssumption, FS_EmptySet DEF Memory, Most
  <2> QED
    BY <1>1, <2>2, <2>3
<1> QED
  BY <1>3 DEF ChainLinks

LEMMA ChainWhole == Memory => ChainExact
<1> SUFFICES ASSUME Memory, NEW l \in List, NEW s, Whole(head[l], s), Len(s) <= Most
             PROVE  Chain(l) = s
  BY DEF ChainExact
<1> DEFINE c == Chain(l)
<1>1. /\ Joined(c) /\ Len(c) <= Most /\ Stopped(c, Most)
      /\ head[l] \notin alloc => c = <<>>
      /\ head[l] \in alloc => c # <<>> /\ c[1] = head[l]
  BY ChainLinked DEF ChainLinks
<1> HIDE DEF c
<1>2. /\ c \in Seq(alloc) /\ s \in Seq(alloc) /\ Len(c) \in Nat /\ Len(s) \in Nat
      /\ \A i \in 1..Len(c) : c[i] \in alloc
      /\ \A i \in 1..Len(s) : s[i] \in alloc
  BY <1>1, LenProperties, ElementOfSeq DEF Whole, Joined
<1>3. CASE s = <<>>
  BY <1>1, <1>3 DEF c, Whole
<1>4. CASE s # <<>>
  <2>1. Len(s) # 0 /\ s[1] = head[l] /\ next[s[Len(s)]] \notin alloc
    BY <1>2, <1>4 DEF Whole
  <2>2. s[1] \in alloc
    <3>1. 1 \in 1..Len(s)
      BY <1>2, <2>1
    <3> QED
      BY <1>2, <3>1
  <2>3. c # <<>> /\ c[1] = s[1] /\ Len(c) # 0
    BY <1>1, <1>2, <2>1, <2>2
  <2> DEFINE Bad == { i \in Nat : i \in 1..Len(c) /\ i \in 1..Len(s) /\ c[i] # s[i] }
  <2>4. ASSUME Bad # {} PROVE FALSE
    <3>1. PICK i \in Bad : \A j \in Bad : i <= j
      BY <2>4, Smallest
    <3>2. i # 1
      BY <2>3
    <3>3. PICK j \in Nat : i = j + 1 /\ j \in 1..(Len(c) - 1) /\ j \in 1..(Len(s) - 1)
      <4>1. i - 1 \in Nat /\ i = (i - 1) + 1 /\ i - 1 \in 1..(Len(c) - 1) /\ i - 1 \in 1..(Len(s) - 1)
        BY <1>2, <3>2
      <4> QED
        BY <4>1
    <3>4. j \in 1..Len(c) /\ j \in 1..Len(s) /\ ~(i <= j)
      BY <1>2, <3>3
    <3>5. c[j] = s[j]
      BY <3>1, <3>4
    <3> QED
      BY <1>1, <3>3, <3>5 DEF Joined, Whole
  <2>5. \A i \in 1..Len(c) : i \in 1..Len(s) => c[i] = s[i]
    BY <2>4
  <2> HIDE DEF Bad
  <2>6. ASSUME Len(c) > Len(s) PROVE FALSE
    <3>1. Len(s) \in 1..(Len(c) - 1) /\ Len(s) + 1 \in 1..Len(c) /\ Len(s) \in 1..Len(s)
          /\ Len(s) \in 1..Len(c)
      BY <1>2, <2>1, <2>6
    <3>2. next[c[Len(s)]] = c[Len(s) + 1]
      BY <1>1, <3>1 DEF Joined
    <3>3. c[Len(s)] = s[Len(s)]
      BY <2>5, <3>1
    <3> QED
      BY <1>2, <2>1, <3>1, <3>2, <3>3
  <2>7. ASSUME Len(c) < Len(s) PROVE FALSE
    <3>1. Len(c) \in 1..(Len(s) - 1) /\ Len(c) + 1 \in 1..Len(s) /\ Len(c) \in 1..Len(c)
          /\ Len(c) \in 1..Len(s) /\ Len(c) # Most
      BY <1>2, <2>3, <2>7, MostNat
    <3>2. next[s[Len(c)]] = s[Len(c) + 1]
      BY <3>1 DEF Joined, Whole
    <3>3. c[Len(c)] = s[Len(c)]
      BY <2>5, <3>1
    <3>4. next[c[Len(c)]] \notin alloc
      BY <1>1, <2>3, <3>1 DEF Stopped
    <3> QED
      BY <1>2, <3>1, <3>2, <3>3, <3>4
  <2>8. Len(c) = Len(s)
    BY <1>2, <2>6, <2>7
  <2>9. \A i \in 1..Len(c) : c[i] = s[i]
    BY <2>5, <2>8
  <2> QED
    BY <1>2, <2>8, <2>9, SeqEqual DEF c
<1> QED
  BY <1>3, <1>4

-----------------------------------------------------------------------------
(* A listing without a first node *)

Headless(l) == head[l] = NULL
Linking(l) == \E k \in 1..MaxLinked : Client_Link(l, k)

(* What IndexOf finds in an empty listing. *)
NoneFound == \A l \in List : Headless(l) => \A x : Listing_IndexOf(l, x) = -1
LEMMA NothingFound == Memory => NoneFound
<1> SUFFICES ASSUME Memory, NEW l \in List, Headless(l), NEW x PROVE Listing_IndexOf(l, x) = -1
  BY DEF NoneFound
<1>1. Chain(l) = <<>>
  BY ChainLinked, NodeAssumption DEF ChainLinks, Headless, Memory
<1>2. DOMAIN Chain(l) = {}
  BY <1>1
<1>3. { i \in DOMAIN Chain(l) : data[Chain(l)[i]] = x } = {}
  BY <1>2
<1> QED
  BY <1>3 DEF Listing_IndexOf

LEMMA RemoveEmpty ==
  ASSUME Memory, NEW m \in List, NEW i, RemoveNode(m, i), NEW l \in List, Headless(l)
  PROVE  Headless(l)'
<1>1. ASSUME NEW p, NEW s \in Unlinked(m, p), Relink(m, s) PROVE Headless(l)'
  <2>1. p \in alloc /\ p # NULL
    BY <1>1, NodeAssumption DEF Unlinked, Memory
  <2>2. m = l => s.head = NULL
    BY <1>1, <2>1 DEF Unlinked, Headless
  <2> QED
    BY <1>1, <2>2 DEF Relink, Headless, Memory
<1>2. UNCHANGED head \/ \E p : \E s \in Unlinked(m, p) : Relink(m, s)
  BY DEF RemoveNode, header
<1> QED
  BY <1>1, <1>2 DEF Headless

LEMMA SortEmpty ==
  ASSUME Memory, NEW m \in List, Listing_Sort(m), NEW l \in List, Headless(l)
  PROVE  Headless(l)'
<1> DEFINE I == { s \in SortState : s.head = NULL /\ s.cur \notin alloc }
           ends == SortLoop(m)
<1>1. UNCHANGED head \/ \E s \in ends : Relink(m, s)
  <2> HIDE DEF ends
  <2> QED
    BY DEF Listing_Sort, Stops, header, ends
<1>2. ASSUME NEW s \in ends, Relink(m, s) PROVE Headless(l)'
  <2>1. CASE m # l
    BY <1>2, <2>1 DEF Relink, Headless, Memory
  <2>2. CASE m = l
    <3>1. NULL \notin alloc /\ alloc \subseteq Node
      BY NodeAssumption DEF Memory
    <3>2. Start(m) \in I
      <4>1. Start(m) \in SortState
        BY StartTyped
      <4>2. Start(m).head = head[m] /\ Start(m).cur = head[m]
        BY DEF Start
      <4> QED
        BY <2>2, <3>1, <4>1, <4>2 DEF Headless
    <3>3. ASSUME NEW t \in I, NEW u \in AfterTurn(m, t) PROVE u \in I
      <4>1. u = Again(t) /\ t.left # 0
        BY <3>3 DEF AfterTurn
      <4> QED
        BY <3>1, <3>3, <4>1, AgainFacts
    <3>4. I \subseteq SortState /\ \A t \in I : AfterTurn(m, t) \subseteq I
      BY <3>3
    <3> HIDE DEF I
    <3>5. s \in I
      BY <3>1, <3>2, <3>4, SortKeeps DEF ends
    <3>6. s.head = NULL
      BY <3>5 DEF I
    <3> QED
      BY <1>2, <2>2, <3>6 DEF Relink, Headless, Memory
  <2> QED
    BY <2>1, <2>2
<1> HIDE DEF ends
<1> QED
  BY <1>1, <1>2 DEF Headless

LEMMA NextEmpty ==
  ASSUME Memory, Upper, Next, NEW l \in List, Headless(l), ~Linking(l)
  PROVE  Headless(l)'
<1>0. head \in [List -> NodePtr] /\ head[l] = NULL
  BY DEF Memory, Headless
<1>1. ASSUME NEW m \in List, Listing_Init(m) \/ Listing_Free(m) PROVE Headless(l)'
  BY <1>0, <1>1 DEF Listing_Init, Listing_Free, header, Headless
<1>2. ASSUME NEW m \in List, Listing_Sort(m) PROVE Headless(l)'
  BY <1>2, SortEmpty
<1>3. ASSUME NEW m \in List, NEW k \in 1..MaxLinked, Client_Link(m, k) PROVE Headless(l)'
  <2> DEFINE s == CHOOSE f \in [1..k -> Lowest(k)] : \A i, j \in 1..k : i < j => f[i] < f[j]
  <2>1. head' = [head EXCEPT ![m] = s[1]]
    BY <1>3 DEF Client_Link
  <2>2. m # l
    BY <1>3 DEF Linking
  <2> HIDE DEF s
  <2> QED
    BY <1>0, <2>1, <2>2 DEF Headless
<1>4. ASSUME NEW m \in List, NEW i \in 0..(count[m] + 1), NEW x \in Data, Listing_Insert(m, i, x)
      PROVE  Headless(l)'
  <2>1. i \in Nat
    BY DEF Memory
  <2> QED
    BY <1>0, <1>4, <2>1, InsertFirst DEF Listing_Insert, Headless
<1>5. ASSUME NEW m \in List, NEW i, Listing_Remove(m, i) PROVE Headless(l)'
  BY <1>5, RemoveEmpty DEF Listing_Remove
<1>6. ASSUME NEW m \in List, NEW i, Listing_At(m, i) PROVE Headless(l)'
  BY <1>0, <1>6 DEF Listing_At, Stops, header, Headless
<1>7. ASSUME NEW m \in List, NEW o \in List, Listing_Merge(m, o) PROVE Headless(l)'
  BY <1>0, <1>7 DEF Listing_Merge, Stops, header, Headless
<1>8. CASE Free_Turn
  BY <1>8, RemoveEmpty DEF Free_Turn, Upper
<1>9. CASE Free_End
  BY <1>0, <1>9 DEF Free_End, header, Headless
<1> QED
  BY <1>1, <1>2, <1>3, <1>4, <1>5, <1>6, <1>7, <1>8, <1>9 DEF Next

LEMMA StepEmpty ==
  ASSUME Memory, Upper, Pushing, [ForeachNext]_allVars, NEW l \in List, Headless(l), ~Linking(l)
  PROVE  Headless(l)'
<1>0. head \in [List -> NodePtr] /\ head[l] = NULL
  BY DEF Memory, Headless
<1>1. CASE Idle /\ Next /\ UNCHANGED foreach
  BY <1>1, NextEmpty
<1>2. ASSUME NEW m \in List, NEW T, NEW finds, Listing_Find(m, T, finds) PROVE Headless(l)'
  <2>1. PICK r : head' = [o \in List |-> IF o = r THEN NULL ELSE head[o]]
    BY <1>2 DEF Listing_Find
  <2> QED
    BY <1>0, <2>1 DEF Headless
<1>3. ASSUME NEW th \in Thread, Push(th) PROVE Headless(l)'
  BY <1>0, <1>3, InsertFirst DEF Push, Pushing, Headless
<1>4. CASE \/ \E m \in List : \E T : Listing_Foreach(m, T)
           \/ \E m, o \in List : Listing_Clone(o, m)
           \/ \E th \in Thread : Listing_Foreach_Queue_Next(th) \/ Callback(th)
           \/ Join \/ UNCHANGED allVars
  BY <1>0, <1>4 DEF Listing_Foreach, Listing_Clone, Listing_Foreach_Queue_Next, Callback, Join,
     Stops, allVars, vars, header, Headless
<1> QED
  BY <1>1, <1>2, <1>3, <1>4 DEF ForeachNext, Step

(* A listing that has no first node never gets one, and IndexOf never      *)
(* finds anything in it, whatever is inserted, sorted, merged or copied,   *)
(* unless the client links nodes by itself (listing.c:262-265).            *)
THEOREM StaysEmptyHolds == ForeachSpec => StaysEmpty
<1>1. Memory /\ Upper /\ Pushing /\ [ForeachNext]_allVars => Memory' /\ Upper' /\ Pushing'
  BY ForeachTyped
<1>2. ForeachSpec => [](Memory /\ Upper /\ Pushing)
  BY <1>1, InitTyped, PTL DEF ForeachSpec
<1> DEFINE A == \A l \in live : head[l] = NULL /\ (\A k \in 1..MaxLinked : ~Client_Link(l, k)) =>
                  head'[l] = NULL /\ \A x \in Data : Listing_IndexOf(l, x)' = -1
<1>3. Memory /\ Upper /\ Pushing /\ NoneFound' /\ [ForeachNext]_allVars => A
  <2> SUFFICES ASSUME Memory, Upper, Pushing, NoneFound', [ForeachNext]_allVars,
                      NEW l \in live, head[l] = NULL, \A k \in 1..MaxLinked : ~Client_Link(l, k)
               PROVE  head'[l] = NULL /\ \A x \in Data : Listing_IndexOf(l, x)' = -1
    OBVIOUS
  <2>1. l \in List /\ Headless(l) /\ ~Linking(l)
    BY DEF Upper, Headless, Linking
  <2>2. Headless(l)'
    BY <2>1, StepEmpty
  <2> QED
    BY <2>1, <2>2 DEF NoneFound, Headless
<1> HIDE DEF A
<1>4. ForeachSpec => [][A]_vars
  BY <1>2, <1>3, NothingFound, PTL DEF ForeachSpec
<1> QED
  BY <1>4 DEF StaysEmpty, A

-----------------------------------------------------------------------------
(* The search in the cache *)

Window == Slot \X Slot
Middle(w) == (w[1] + w[2]) \div 2
Width(w) == IF w[1] <= w[2] THEN w[2] - w[1] ELSE w[1] - w[2]
Probed(c, i, left, f, w) ==
  LET m == (w[1] + w[2]) \div 2
      p == c.index[m]
  IN  IF w[1] = m THEN m
      ELSE IF p = NoIndex THEN f[<<w[1], m>>]
      ELSE IF ~Readable(p) THEN -1
      ELSE IF i < Val(c, p) \/ (left /\ i = Val(c, p)) THEN f[<<w[1], m>>]
      ELSE f[<<m, w[2]>>]

Blocked(c, w) == c.index[Middle(w)] # NoIndex /\ ~Readable(c.index[Middle(w)])
Narrower(c, i, left, w) ==
  LET p == c.index[Middle(w)]
  IN  IF p = NoIndex \/ i < Val(c, p) \/ (left /\ i = Val(c, p)) THEN <<w[1], Middle(w)>>
      ELSE <<Middle(w), w[2]>>

LEMMA WidthFacts ==
  ASSUME NEW w \in Window
  PROVE  /\ w[1] \in Slot /\ w[2] \in Slot /\ Middle(w) \in Slot /\ w = <<w[1], w[2]>>
         /\ Width(w) \in Nat /\ Width(w) < CacheSize
         /\ w[1] # Middle(w) =>
              \A v \in {<<w[1], Middle(w)>>, <<Middle(w), w[2]>>} :
                /\ v \in Window /\ (v = w \/ Width(v) < Width(w))
                /\ w[1] <= w[2] => v[1] <= v[2] /\ Width(v) < Width(w)
<1>1. w[1] \in Slot /\ w[2] \in Slot /\ w = <<w[1], w[2]>>
  BY DEF Window
<1> DEFINE a == w[1]
           b == w[2]
           m == Middle(w)
<1>2. a \in Nat /\ b \in Nat /\ a < CacheSize /\ b < CacheSize /\ CacheSize \in Nat
      /\ w = <<a, b>> /\ m = (a + b) \div 2 /\ Width(w) = IF a <= b THEN b - a ELSE a - b
  BY <1>1, NumbersAssumption DEF Slot, Middle, Width
<1>3. m \in Nat /\ 2 * m <= a + b /\ a + b < 2 * m + 2
  <2> HIDE DEF a, b, m
  <2> QED
    BY <1>2
<1>4. \A x, y : Width(<<x, y>>) = IF x <= y THEN y - x ELSE x - y
  BY DEF Width
<1>5. \A x, y \in Slot : <<x, y>> \in Window
  BY DEF Window
<1>6. \A x \in Nat : x < CacheSize => x \in Slot
  BY <1>2 DEF Slot
<1> HIDE DEF a, b, m
<1>7. m \in Slot /\ Width(w) \in Nat /\ Width(w) < CacheSize
  BY <1>2, <1>3, <1>6
<1>8. ASSUME a # m
      PROVE  /\ <<a, m>> = w \/ Width(<<a, m>>) < Width(w)
             /\ <<m, b>> = w \/ Width(<<m, b>>) < Width(w)
             /\ a <= b => a <= m /\ Width(<<a, m>>) < Width(w) /\ m <= b /\ Width(<<m, b>>) < Width(w)
  <2>1. CASE a <= b
    BY <1>2, <1>3, <1>4, <1>8, <2>1
  <2>2. CASE b < a
    BY <1>2, <1>3, <1>4, <1>8, <2>2
  <2> QED
    BY <1>2, <2>1, <2>2
<1>9. a \in Slot /\ b \in Slot
  BY <1>1 DEF a, b
<1>10. <<a, m>> \in Window /\ <<m, b>> \in Window
  BY <1>5, <1>7, <1>9
<1> QED
  BY <1>1, <1>7, <1>8, <1>10 DEF a, b, m

LEMMA ProbedFacts ==
  ASSUME NEW c, NEW i, NEW left, NEW f, NEW w
  PROVE  /\ w[1] = Middle(w) => Probed(c, i, left, f, w) = w[1]
         /\ w[1] # Middle(w) /\ Blocked(c, w) => Probed(c, i, left, f, w) = -1
         /\ w[1] # Middle(w) /\ ~Blocked(c, w) =>
              Probed(c, i, left, f, w) = f[Narrower(c, i, left, w)]
<1>1. w[1] = Middle(w) => Probed(c, i, left, f, w) = w[1]
  BY DEF Probed, Middle
<1>2. w[1] # Middle(w) /\ Blocked(c, w) => Probed(c, i, left, f, w) = -1
  BY DEF Probed, Middle, Blocked
<1>3. w[1] # Middle(w) /\ ~Blocked(c, w) =>
        Probed(c, i, left, f, w) = f[Narrower(c, i, left, w)]
  BY Zenon DEF Probed, Middle, Blocked, Narrower
<1> QED
  BY <1>1, <1>2, <1>3

LEMMA NarrowerFacts ==
  ASSUME NEW c, NEW i, NEW left, NEW w \in Window, w[1] # Middle(w)
  PROVE  LET v == Narrower(c, i, left, w)
         IN  /\ v \in Window /\ (v = w \/ Width(v) < Width(w))
             /\ w[1] <= w[2] => v[1] <= v[2] /\ Width(v) < Width(w)
<1>1. Narrower(c, i, left, w) \in {<<w[1], Middle(w)>>, <<Middle(w), w[2]>>}
  BY DEF Narrower
<1> QED
  BY <1>1, WidthFacts

LEMMA ProbeTurns ==
  ASSUME NEW c, NEW i, NEW left
  PROVE  \E f : f = [w \in Window |-> Probed(c, i, left, f, w)]
<1> DEFINE Fits(n, f) == \A w \in Window : Width(w) < n => f[w] = Probed(c, i, left, f, w)
           Bad == { n \in Nat : ~ \E f : f = [w \in Window |-> f[w]] /\ Fits(n, f) }
<1>0. ASSUME NEW w \in Window PROVE Width(w) \in Nat /\ Width(w) < CacheSize
  BY WidthFacts
<1>1. Bad = {}
  <2> SUFFICES ASSUME Bad # {} PROVE FALSE
    OBVIOUS
  <2>1. PICK n \in Bad : \A k \in Bad : n <= k
    BY Smallest
  <2>2. n # 0
    <3>1. \A w \in Window : ~(Width(w) < 0)
      BY <1>0
    <3> DEFINE f == [w \in Window |-> 0]
    <3>2. f = [w \in Window |-> f[w]]
      OBVIOUS
    <3>3. Fits(0, f)
      BY <3>1
    <3> QED
      BY <3>2, <3>3
  <2>3. n - 1 \in Nat /\ n - 1 \notin Bad
    BY <2>1, <2>2
  <2>4. PICK f : f = [w \in Window |-> f[w]] /\ Fits(n - 1, f)
    BY <2>3
  <2> DEFINE g == [w \in Window |-> IF Width(w) < n - 1 THEN f[w] ELSE Probed(c, i, left, f, w)]
  <2>5. ASSUME NEW w \in Window, Width(w) < n
        PROVE  g[w] = Probed(c, i, left, g, w)
    <3> DEFINE v == Narrower(c, i, left, w)
    <3>1. g[w] = Probed(c, i, left, f, w)
      BY <2>4
    <3>2. \A x \in Window : Width(x) < n - 1 => g[x] = f[x]
      OBVIOUS
    <3> HIDE DEF g, v
    <3>3. CASE w[1] = Middle(w) \/ Blocked(c, w)
      BY <3>1, <3>3, ProbedFacts
    <3>4. CASE w[1] # Middle(w) /\ ~Blocked(c, w) /\ v = w
      BY <3>4, ProbedFacts DEF v
    <3>5. CASE w[1] # Middle(w) /\ ~Blocked(c, w) /\ v # w
      <4>1. v \in Window /\ Width(v) < Width(w)
        BY <3>5, NarrowerFacts DEF v
      <4>2. Width(v) < n - 1
        BY <1>0, <2>3, <2>5, <4>1
      <4>3. g[v] = f[v]
        BY <3>2, <4>1, <4>2
      <4> QED
        BY <3>1, <3>5, <4>3, ProbedFacts DEF v
    <3> QED
      BY <3>3, <3>4, <3>5
  <2>6. g = [w \in Window |-> g[w]]
    OBVIOUS
  <2>7. Fits(n, g)
    BY <2>5
  <2> HIDE DEF g
  <2> QED
    BY <2>1, <2>6, <2>7
<1>2. CacheSize \notin Bad /\ CacheSize \in Nat
  BY <1>1, NumbersAssumption
<1>3. PICK f : f = [w \in Window |-> f[w]] /\ Fits(CacheSize, f)
  BY <1>2
<1>4. \A w \in Window : f[w] = Probed(c, i, left, f, w)
  BY <1>0, <1>3
<1>5. f = [w \in Window |-> Probed(c, i, left, f, w)]
  BY <1>3, <1>4
<1> QED
  BY <1>5

(* The search ends at a slot, or at what it cannot read. *)
LEMMA ProbeSlot ==
  ASSUME NEW c, NEW i, NEW left
  PROVE  Probe(c, i, left) \in Slot \cup {-1}
<1> DEFINE L == CHOOSE f : f = [w \in Window |-> Probed(c, i, left, f, w)]
<1>1. L = [w \in Window |-> Probed(c, i, left, L, w)]
  BY ProbeTurns
<1>2. Probe(c, i, left) = L[<<0, CacheSize - 1>>]
  BY DEF Probe, Probed, Window
<1> HIDE DEF L
<1> DEFINE Holds(w) == L[w] \in Slot \cup {-1}
           Bad == { n \in Nat : \E w \in Window : w[1] <= w[2] /\ Width(w) = n /\ ~Holds(w) }
<1>3. ASSUME Bad # {} PROVE FALSE
  <2>1. PICK n \in Bad : \A k \in Bad : n <= k
    BY <1>3, Smallest
  <2>2. PICK w \in Window : w[1] <= w[2] /\ Width(w) = n /\ ~Holds(w)
    BY <2>1
  <2>3. L[w] = Probed(c, i, left, L, w)
    BY <1>1
  <2>4. CASE w[1] = Middle(w) \/ Blocked(c, w)
    <3>1. w[1] \in Slot
      BY WidthFacts
    <3> QED
      BY <2>2, <2>3, <2>4, <3>1, ProbedFacts
  <2>5. CASE w[1] # Middle(w) /\ ~Blocked(c, w)
    <3> DEFINE v == Narrower(c, i, left, w)
    <3>1. v \in Window /\ v[1] <= v[2] /\ Width(v) < Width(w)
      BY <2>2, <2>5, NarrowerFacts
    <3> HIDE DEF v
    <3>2. Width(v) \in Nat /\ Width(v) < n
      BY <2>2, <3>1, WidthFacts
    <3>3. Width(v) \notin Bad
      BY <2>1, <3>2
    <3>4. Holds(v)
      BY <3>1, <3>2, <3>3
    <3> QED
      BY <2>2, <2>3, <2>5, <3>4, ProbedFacts DEF v
  <2> QED
    BY <2>4, <2>5
<1>4. <<0, CacheSize - 1>> \in Window /\ 0 <= CacheSize - 1
  BY NumbersAssumption DEF Window, Slot
<1>5. Holds(<<0, CacheSize - 1>>)
  <2> DEFINE w == <<0, CacheSize - 1>>
  <2>1. w \in Window /\ w[1] <= w[2]
    BY <1>4
  <2> HIDE DEF w
  <2>2. Width(w) \in Nat
    BY <2>1, WidthFacts
  <2>3. Holds(w)
    BY <1>3, <2>1, <2>2
  <2> QED
    BY <2>3 DEF w
<1> QED
  BY <1>2, <1>5

-----------------------------------------------------------------------------
(* Going along the links *)

Onward(f) == [q \in NodePtr |-> IF q \in alloc THEN f[q] ELSE Wild]
WalkOf(f, p, k, s) == s = [m \in 0..k |-> IF m = 0 THEN p ELSE Onward(f)[s[m - 1]]]

LEMMA AlongIs ==
  ASSUME NEW f, NEW p, NEW k \in Nat, NEW s, WalkOf(f, p, k, s)
  PROVE  Along(f, p, k) = s[k]
<1> DEFINE L == CHOOSE g : g = [m \in 0..k |-> IF m = 0 THEN p ELSE Onward(f)[g[m - 1]]]
<1>1. L = [m \in 0..k |-> IF m = 0 THEN p ELSE Onward(f)[L[m - 1]]]
  BY DEF WalkOf
<1>2. Along(f, p, k) = L[k]
  BY DEF Along, Onward
<1> HIDE DEF L
<1> DEFINE Bad == { m \in Nat : m <= k /\ L[m] # s[m] }
<1>3. ASSUME Bad # {} PROVE FALSE
  <2>1. PICK m \in Bad : \A j \in Bad : m <= j
    BY <1>3, Smallest
  <2>2. m \in 0..k /\ m \in Nat
    OBVIOUS
  <2>3. L[m] = (IF m = 0 THEN p ELSE Onward(f)[L[m - 1]])
    BY <1>1, <2>2
  <2>4. s[m] = (IF m = 0 THEN p ELSE Onward(f)[s[m - 1]])
    BY <2>2 DEF WalkOf
  <2>5. m # 0
    BY <2>1, <2>3, <2>4
  <2>6. m - 1 \in Nat /\ m - 1 <= k /\ ~(m <= m - 1)
    BY <2>2, <2>5
  <2>7. L[m - 1] = s[m - 1]
    BY <2>1, <2>6
  <2> QED
    BY <2>1, <2>3, <2>4, <2>7
<1>4. L[k] = s[k]
  BY <1>3
<1> QED
  BY <1>2, <1>4

LEMMA AlongWild ==
  ASSUME Memory, NEW f, NEW k \in Nat
  PROVE  Along(f, Wild, k) = Wild
<1> DEFINE s == [m \in 0..k |-> Wild]
<1>1. Onward(f)[Wild] = Wild
  BY NodeAssumption DEF Onward, NodePtr, Memory
<1>2. \A m \in 0..k : m # 0 => s[m - 1] = Wild
  OBVIOUS
<1>3. \A m \in 0..k : s[m] = IF m = 0 THEN Wild ELSE Onward(f)[s[m - 1]]
  BY <1>1, <1>2
<1>4. s = [m \in 0..k |-> s[m]] /\ s[k] = Wild
  OBVIOUS
<1> HIDE DEF s
<1>5. WalkOf(f, Wild, k, s)
  BY <1>3, <1>4 DEF WalkOf
<1> QED
  BY <1>4, <1>5, AlongIs

(* Along next, and along prev where it points back. *)
LEMMA AlongChain ==
  ASSUME Memory, NEW c, Joined(c), NEW j \in 1..Len(c), NEW k \in 0..(Len(c) - j)
  PROVE  Along(next, c[j], k) = c[j + k]
<1> DEFINE s == [m \in 0..k |-> c[j + m]]
<1>0. Len(c) \in Nat /\ \A m \in 1..Len(c) : c[m] \in alloc /\ c[m] \in NodePtr
  BY LenProperties, ElementOfSeq DEF Joined, Memory, NodePtr
<1>1. ASSUME NEW m \in 0..k, m # 0 PROVE s[m] = Onward(next)[s[m - 1]]
  <2>1. m - 1 \in 0..k /\ (j + (m - 1)) \in 1..(Len(c) - 1) /\ (j + (m - 1)) + 1 = j + m
        /\ (j + (m - 1)) \in 1..Len(c)
    BY <1>0, <1>1
  <2>2. s[m - 1] = c[j + (m - 1)] /\ s[m] = c[j + m]
    BY <2>1
  <2>3. next[c[j + (m - 1)]] = c[j + m]
    BY <2>1 DEF Joined
  <2> HIDE DEF s
  <2> QED
    BY <1>0, <2>1, <2>2, <2>3 DEF Onward
<1>2. s[0] = c[j] /\ s[k] = c[j + k] /\ s = [m \in 0..k |-> s[m]] /\ k \in Nat
  <2>1. j + 0 = j /\ 0 \in 0..k /\ k \in 0..k
    BY <1>0
  <2> QED
    BY <2>1
<1> HIDE DEF s
<1>3. WalkOf(next, c[j], k, s)
  <2>1. \A m \in 0..k : s[m] = IF m = 0 THEN c[j] ELSE Onward(next)[s[m - 1]]
    BY <1>1, <1>2
  <2> QED
    BY <1>2, <2>1 DEF WalkOf
<1> QED
  BY <1>2, <1>3, AlongIs

LEMMA AlongBack ==
  ASSUME Memory, NEW c, Joined(c), \A i \in 2..Len(c) : prev[c[i]] = c[i - 1],
         NEW j \in 1..Len(c), NEW k \in 0..(j - 1)
  PROVE  Along(prev, c[j], k) = c[j - k]
<1> DEFINE s == [m \in 0..k |-> c[j - m]]
<1>0. Len(c) \in Nat /\ \A m \in 1..Len(c) : c[m] \in alloc /\ c[m] \in NodePtr
  BY LenProperties, ElementOfSeq DEF Joined, Memory, NodePtr
<1>1. ASSUME NEW m \in 0..k, m # 0 PROVE s[m] = Onward(prev)[s[m - 1]]
  <2>1. m - 1 \in 0..k /\ (j - (m - 1)) \in 2..Len(c) /\ (j - (m - 1)) - 1 = j - m
        /\ (j - (m - 1)) \in 1..Len(c)
    BY <1>0, <1>1
  <2>2. s[m - 1] = c[j - (m - 1)] /\ s[m] = c[j - m]
    BY <2>1
  <2>3. prev[c[j - (m - 1)]] = c[j - m]
    BY <2>1
  <2> HIDE DEF s
  <2> QED
    BY <1>0, <2>1, <2>2, <2>3 DEF Onward
<1>2. s[0] = c[j] /\ s[k] = c[j - k] /\ s = [m \in 0..k |-> s[m]] /\ k \in Nat
  <2>1. j - 0 = j /\ 0 \in 0..k /\ k \in 0..k
    BY <1>0
  <2> QED
    BY <2>1
<1> HIDE DEF s
<1>3. WalkOf(prev, c[j], k, s)
  <2>1. \A m \in 0..k : s[m] = IF m = 0 THEN c[j] ELSE Onward(prev)[s[m - 1]]
    BY <1>1, <1>2
  <2> QED
    BY <1>2, <2>1 DEF WalkOf
<1> QED
  BY <1>2, <1>3, AlongIs

(* A listing whose nodes are all of its chain. *)
LEMMA GoodFacts ==
  ASSUME Memory, NEW l \in List, Good(l), count[l] # 0
  PROVE  LET c == Chain(l)
         IN  /\ Joined(c) /\ Len(c) = count[l] /\ count[l] \in Nat
             /\ \A i \in 1..Len(c) : c[i] \in alloc
             /\ head[l] = c[1] /\ tail[l] = c[count[l]] /\ head[l] \in alloc
             /\ prev[c[1]] = NULL /\ \A i \in 2..Len(c) : prev[c[i]] = c[i - 1]
<1> DEFINE c == Chain(l)
<1>1. Joined(c) /\ Len(c) = count[l] /\ count[l] \in Nat
  BY ChainLinked DEF ChainLinks, Good, Memory
<1>2. /\ head[l] \notin alloc => c = <<>>
      /\ head[l] \in alloc => c # <<>> /\ c[1] = head[l]
  BY ChainLinked DEF ChainLinks
<1>3. Shaped(l)
  BY DEF Good
<1>4. /\ head[l] # NULL => c # <<>> /\ tail[l] = c[Len(c)]
      /\ \A i \in DOMAIN c : prev[c[i]] = IF i = 1 THEN NULL ELSE c[i - 1]
  BY <1>3 DEF Shaped
<1> HIDE DEF c
<1>5. c \in Seq(alloc) /\ DOMAIN c = 1..Len(c) /\ c # <<>>
  BY <1>1, LenProperties DEF Joined
<1>6. \A i \in 1..Len(c) : c[i] \in alloc
  BY <1>5, ElementOfSeq
<1>7. head[l] \in alloc /\ head[l] # NULL
  BY <1>2, <1>5, NodeAssumption DEF Memory
<1>8. prev[c[1]] = NULL /\ \A i \in 2..Len(c) : prev[c[i]] = c[i - 1]
  BY <1>1, <1>4, <1>5
<1> QED
  BY <1>1, <1>2, <1>4, <1>6, <1>7, <1>8 DEF c

LEMMA SelectRight ==
  ASSUME Memory, OneSlot, NEW l \in List, Good(l), NEW i \in 0..(count[l] - 1)
  PROVE  Listing_Node_Select(l, i) \in {Chain(l)[i + 1], Wild}
<1> DEFINE c == cache[l]
           spot == Probe(c, i, TRUE)
           p == c.index[spot]
           v == Val(c, p)
           s == Chain(l)
           n == count[l]
<1>1. n \in Nat /\ n # 0 /\ i \in Nat /\ i < n
  BY DEF Memory
<1>2. /\ Joined(s) /\ Len(s) = n /\ \A j \in 1..n : s[j] \in alloc
      /\ head[l] = s[1] /\ tail[l] = s[n] /\ \A j \in 2..Len(s) : prev[s[j]] = s[j - 1]
  BY <1>1, GoodFacts
<1>3. spot \in Slot \cup {-1}
  BY ProbeSlot
<1>4. \/ Listing_Node_Select(l, i) = Wild
      \/ /\ spot # -1 /\ Readable(p)
         /\ \/ Listing_Node_Select(l, i) = Along(next, head[l], i)
            \/ Listing_Node_Select(l, i) = Along(prev, tail[l], n - 1 - i)
            \/ i >= v /\ Listing_Node_Select(l, i) = Along(next, Cached(c, p), i - v)
            \/ ~(i >= v) /\ Listing_Node_Select(l, i) = Along(prev, Cached(c, p), v - i)
  BY DEF Listing_Node_Select, FromTail
<1> SUFFICES ASSUME spot \in Slot, Readable(p),
                    \/ Listing_Node_Select(l, i) = Along(next, head[l], i)
                    \/ Listing_Node_Select(l, i) = Along(prev, tail[l], n - 1 - i)
                    \/ i >= v /\ Listing_Node_Select(l, i) = Along(next, Cached(c, p), i - v)
                    \/ ~(i >= v) /\ Listing_Node_Select(l, i) = Along(prev, Cached(c, p), v - i)
             PROVE  Listing_Node_Select(l, i) \in {s[i + 1], Wild}
  BY <1>3, <1>4
<1>5. c \in Cache /\ p \in IndexPtr /\ (p.to = "id" => p.n = 0)
  BY CacheRecord DEF Memory, OneSlot
<1> HIDE DEF spot
<1>6. v \in Nat
  <2>1. CASE p.to = "id"
    <3>1. v = c.ids[0] /\ 0 \in Slot
      BY <1>5, <2>1, NumbersAssumption DEF Val, Slot
    <3> QED
      BY <1>5, <3>1, CacheRecord
  <2>2. CASE p.to # "id"
    BY <1>5, <2>2 DEF Val, IndexPtr
  <2> QED
    BY <2>1, <2>2
<1>7. \/ Cached(c, p) = Wild
      \/ v < n /\ Cached(c, p) = s[v + 1]
  <2>1. CASE p.to # "id"
    BY <2>1 DEF Cached
  <2>2. CASE p.to = "id"
    <3>1. c.ids[p.n] < n /\ c.nodes[p.n] = s[c.ids[p.n] + 1]
      BY <2>2 DEF Good
    <3>2. p.n \div 4 = 0 /\ p.n = 0
      BY <1>5, <2>2
    <3> QED
      BY <2>2, <3>1, <3>2 DEF Cached, Val
  <2> QED
    BY <2>1, <2>2
<1> HIDE DEF c, p, v, s, n
<1>8. CASE Listing_Node_Select(l, i) = Along(next, head[l], i)
  <2>1. 1 \in 1..Len(s) /\ i \in 0..(Len(s) - 1) /\ 1 + i = i + 1
    BY <1>1, <1>2
  <2>2. Along(next, s[1], i) = s[i + 1]
    BY <1>2, <2>1, AlongChain
  <2> QED
    BY <1>2, <1>8, <2>2
<1>9. CASE Listing_Node_Select(l, i) = Along(prev, tail[l], n - 1 - i)
  <2>1. n \in 1..Len(s) /\ n - 1 - i \in 0..(n - 1) /\ n - (n - 1 - i) = i + 1
    BY <1>1, <1>2
  <2>2. Along(prev, s[n], n - 1 - i) = s[i + 1]
    BY <1>2, <2>1, AlongBack
  <2> QED
    BY <1>2, <1>9, <2>2
<1>10. CASE i >= v /\ Listing_Node_Select(l, i) = Along(next, Cached(c, p), i - v)
  <2>1. i - v \in Nat
    BY <1>1, <1>6, <1>10
  <2>2. CASE Cached(c, p) = Wild
    BY <1>10, <2>1, <2>2, AlongWild
  <2>3. CASE v < n /\ Cached(c, p) = s[v + 1]
    <3>1. v + 1 \in 1..Len(s) /\ i - v \in 0..(Len(s) - (v + 1)) /\ (v + 1) + (i - v) = i + 1
      BY <1>1, <1>2, <1>6, <1>10, <2>3
    <3>2. Along(next, s[v + 1], i - v) = s[(v + 1) + (i - v)]
      BY <1>2, <3>1, AlongChain
    <3> QED
      BY <1>10, <2>3, <3>1, <3>2
  <2> QED
    BY <1>7, <2>2, <2>3
<1>11. CASE ~(i >= v) /\ Listing_Node_Select(l, i) = Along(prev, Cached(c, p), v - i)
  <2>1. v - i \in Nat
    BY <1>1, <1>6, <1>11
  <2>2. CASE Cached(c, p) = Wild
    BY <1>11, <2>1, <2>2, AlongWild
  <2>3. CASE v < n /\ Cached(c, p) = s[v + 1]
    <3>1. v + 1 \in 1..Len(s) /\ v - i \in 0..((v + 1) - 1) /\ (v + 1) - (v - i) = i + 1
      BY <1>1, <1>2, <1>6, <1>11, <2>3
    <3>2. Along(prev, s[v + 1], v - i) = s[(v + 1) - (v - i)]
      BY <1>2, <3>1, AlongBack
    <3> QED
      BY <1>11, <2>3, <3>1, <3>2
  <2> QED
    BY <1>7, <2>2, <2>3
<1> QED
  BY <1>8, <1>9, <1>10, <1>11

(* Right places lead to the right node: as long as the shape, the count    *)
(* and the cached entry of a listing are right, the search for a node from *)
(* the nearest known place (listing.c:185-231) ends at the node that was   *)
(* asked for, or nowhere, whatever Garbage stands in cache_index.          *)
THEOREM SelectExactHolds == ForeachSpec => []SelectExact
<1>1. Memory /\ Upper /\ OneSlot => SelectExact
  BY SelectRight DEF SelectExact, Upper
<1>2. TypeOK => Memory /\ Upper
  BY TypeParts
<1> QED
  BY <1>1, <1>2, TypeCorrect, OneSlotHolds, PTL

-----------------------------------------------------------------------------
(* What keeps the cache right *)

(* No node is twice in a chain that points back, so that there is a place  *)
(* in it for a node that is not in it.                                     *)
Once(c) == \A i, j \in 1..Len(c) : c[i] = c[j] => i = j
Backward(p, s) == \A i \in 1..Len(s) : p[s[i]] = IF i = 1 THEN NULL ELSE s[i - 1]
Forward(f, s) == \A i \in 1..(Len(s) - 1) : f[s[i]] = s[i + 1]

LEMMA OrderOnce ==
  ASSUME NEW p, NEW c \in Seq(Node), Backward(p, c)
  PROVE  Once(c)
<1>0. Len(c) \in Nat /\ \A i \in 1..Len(c) : c[i] \in Node /\ c[i] # NULL
  BY LenProperties, ElementOfSeq, NodeAssumption
<1> DEFINE Bad == { i \in Nat : i \in 1..Len(c) /\ \E j \in 1..Len(c) : i < j /\ c[i] = c[j] }
<1>1. ASSUME Bad # {} PROVE FALSE
  <2>1. PICK i \in Bad : \A k \in Bad : i <= k
    BY <1>1, Smallest
  <2>2. PICK j \in 1..Len(c) : i < j /\ c[i] = c[j]
    OBVIOUS
  <2>3. i \in Nat /\ j \in Nat /\ i \in 1..Len(c) /\ j # 1 /\ j - 1 \in 1..Len(c)
    BY <1>0, <2>2
  <2>4. p[c[i]] = c[j - 1] /\ c[j - 1] # NULL
    BY <1>0, <2>2, <2>3 DEF Backward
  <2>5. i # 1
    BY <2>3, <2>4 DEF Backward
  <2>6. i - 1 \in Nat /\ i - 1 \in 1..Len(c) /\ i - 1 < j - 1 /\ ~(i <= i - 1)
    BY <1>0, <2>2, <2>3, <2>5
  <2>7. c[i - 1] = c[j - 1]
    BY <2>3, <2>4, <2>5 DEF Backward
  <2>8. i - 1 \in Bad
    BY <2>3, <2>6, <2>7
  <2> QED
    BY <2>1, <2>6, <2>8
<1> SUFFICES ASSUME NEW i \in 1..Len(c), NEW j \in 1..Len(c), c[i] = c[j], i # j PROVE FALSE
  BY DEF Once
<1>2. (i < j \/ j < i) /\ i \in Nat /\ j \in Nat
  BY <1>0
<1> QED
  BY <1>1, <1>2

LEMMA Room ==
  ASSUME NEW c \in Seq(Node), Once(c), NEW n \in Node, \A i \in 1..Len(c) : c[i] # n
  PROVE  Len(c) + 1 <= Most
<1> DEFINE k == Len(c) + 1
           f == [i \in 1..k |-> IF i = k THEN n ELSE c[i]]
<1>0. Len(c) \in Nat /\ k \in Nat /\ Most \in Nat
  BY LenProperties, MostNat
<1>1. \A i \in 1..k : i # k => i \in 1..Len(c) /\ f[i] = c[i] /\ c[i] \in Node
  BY <1>0, ElementOfSeq
<1>2. f[k] = n
  BY <1>0
<1>3. f \in [1..k -> Node]
  BY <1>1
<1> HIDE DEF f
<1>4. \A i, j \in 1..k : f[i] = f[j] => i = j
  BY <1>1, <1>2 DEF Once
<1>5. IsFiniteSet(1..k) /\ Cardinality(1..k) = k
  BY <1>0, FS_Interval
<1> HIDE DEF k
<1>6. ASSUME Most < k PROVE FALSE
  <2>1. IsFiniteSet(Node) /\ Cardinality(Node) < Cardinality(1..k)
    BY <1>5, <1>6, NumbersAssumption DEF Most
  <2>2. \E i, j \in 1..k : i # j /\ f[i] = f[j]
    BY <1>3, <1>5, <2>1, FS_PigeonHole
  <2> QED
    BY <1>4, <2>2
<1>7. k <= Most
  BY <1>0, <1>6
<1> QED
  BY <1>7 DEF k

LEMMA GoodParts ==
  ASSUME Memory, NEW l \in List, Good(l), head[l] # NULL
  PROVE  LET c == Chain(l)
         IN  /\ Joined(c) /\ c \in Seq(Node) /\ Len(c) = count[l] /\ count[l] \in Nat /\ count[l] # 0
             /\ \A i \in 1..Len(c) : c[i] \in alloc
             /\ head[l] = c[1] /\ tail[l] = c[Len(c)] /\ head[l] \in alloc /\ tail[l] \in alloc
             /\ next[tail[l]] = NULL
             /\ \A i \in 1..Len(c) : prev[c[i]] = IF i = 1 THEN NULL ELSE c[i - 1]
             /\ Once(c)
<1> DEFINE c == Chain(l)
<1>1. Shaped(l) /\ count[l] = Len(c)
  BY DEF Good
<1>2. /\ c # <<>> /\ next[tail[l]] = NULL
      /\ \A i \in DOMAIN c : prev[c[i]] = IF i = 1 THEN NULL ELSE c[i - 1]
  BY <1>1 DEF Shaped
<1>3. Joined(c)
  BY ChainLinked DEF ChainLinks
<1> HIDE DEF c
<1>4. c \in Seq(alloc) /\ c \in Seq(Node) /\ DOMAIN c = 1..Len(c) /\ Len(c) \in Nat /\ Len(c) # 0
  BY <1>2, <1>3, LenProperties DEF Joined, Memory
<1>5. /\ Joined(c) /\ Len(c) = count[l] /\ count[l] \in Nat
      /\ \A i \in 1..Len(c) : c[i] \in alloc
      /\ head[l] = c[1] /\ tail[l] = c[count[l]] /\ head[l] \in alloc
  BY <1>1, <1>4, GoodFacts DEF c
<1>6. \A i \in 1..Len(c) : prev[c[i]] = IF i = 1 THEN NULL ELSE c[i - 1]
  BY <1>2, <1>4
<1>7. Once(c)
  BY <1>4, <1>6, OrderOnce DEF Backward
<1>8. tail[l] = c[Len(c)] /\ tail[l] \in alloc
  <2>1. Len(c) \in 1..Len(c)
    BY <1>4
  <2> QED
    BY <1>5, <2>1
<1> QED
  BY <1>1, <1>2, <1>4, <1>5, <1>6, <1>7, <1>8 DEF c

(* A listing is right when a sequence of nodes is what its links say, its  *)
(* count counts, and its cache has a place of.                             *)
MadeGood(l, s) ==
  /\ l \in live /\ head[l] \in alloc /\ s # <<>> /\ Whole(head[l], s) /\ Len(s) <= Most
  /\ tail[l] = s[Len(s)] /\ next[tail[l]] = NULL /\ count[l] = Len(s)
  /\ \A i \in 1..Len(s) : prev[s[i]] = IF i = 1 THEN NULL ELSE s[i - 1]
  /\ LET c == cache[l]
     IN  \A j \in Slot : c.index[j].to = "id" =>
           c.ids[c.index[j].n] < count[l] /\ c.nodes[c.index[j].n] = s[c.ids[c.index[j].n] + 1]
MadeGoodIsGood == \A l \in List : \A s : MadeGood(l, s) => Good(l)
LEMMA IsMadeGood == Memory => MadeGoodIsGood
<1> SUFFICES ASSUME Memory, NEW l \in List, NEW s, MadeGood(l, s) PROVE Good(l)
  BY DEF MadeGoodIsGood
<1>1. Chain(l) = s
  BY ChainWhole DEF ChainExact, MadeGood
<1>2. DOMAIN s = 1..Len(s)
  BY LenProperties DEF MadeGood, Whole, Joined
<1>3. head[l] # NULL
  BY NodeAssumption DEF MadeGood, Memory
<1>4. Shaped(l)
  BY <1>1, <1>2, <1>3 DEF Shaped, MadeGood
<1> QED
  BY <1>1, <1>4 DEF Good, MadeGood

(* A cache to which an entry was added has its index and its node. *)
LEMMA AddedRight ==
  ASSUME NEW c \in Cache, NEW i \in Nat, NEW n \in NodePtr, NEW d \in Listing_Cache_Add(c, i, n),
         \A j \in Slot : d.index[j].to = "id" => d.index[j].n = 0
  PROVE  \A j \in Slot : d.index[j].to = "id" =>
           d.ids[d.index[j].n] = i /\ d.nodes[d.index[j].n] = n
BY AddTyped

LEMMA AtKeeps ==
  ASSUME Memory, MadeGoodIsGood', OneSlot, OneSlot', NEW l \in List, Good(l), head[l] # NULL,
         NEW i \in 0..(count[l] - 1), Listing_At(l, i)
  PROVE  Good(l)'
<1>10. PICK c : c = Chain(l)
  OBVIOUS
<1>0. /\ Joined(c) /\ c \in Seq(Node) /\ Len(c) = count[l] /\ count[l] \in Nat /\ count[l] # 0
      /\ \A k \in 1..Len(c) : c[k] \in alloc
      /\ head[l] = c[1] /\ tail[l] = c[Len(c)] /\ head[l] \in alloc
      /\ next[tail[l]] = NULL
      /\ \A k \in 1..Len(c) : prev[c[k]] = IF k = 1 THEN NULL ELSE c[k - 1]
      /\ l \in live /\ Len(c) <= Most
  BY <1>10, GoodParts, ChainLinked DEF Good, ChainLinks
<1>1. i \in Nat /\ ~(i >= count[l])
  BY <1>0
<1>2. Listing_Node_Select(l, i) \in {c[i + 1], Wild}
  BY <1>10, SelectRight
<1>3. Whole(head[l], c) /\ c # <<>>
  <2>1. c # <<>>
    BY <1>0
  <2> QED
    BY <1>0, <2>1, NodeAssumption DEF Whole, Memory
<1>4. UNCHANGED <<live, head, tail, count, memory>>
  BY <1>1 DEF Listing_At, Stops, header
<1>5. Whole(head[l], c)'
  BY <1>3, <1>4 DEF Whole, Joined, memory
<1>6. ASSUME LET d == cache'[l]
             IN  \A j \in Slot : d.index[j].to = "id" =>
                   d.ids[d.index[j].n] < count[l] /\ d.nodes[d.index[j].n] = c[d.ids[d.index[j].n] + 1]
      PROVE  Good(l)'
  <2>1. MadeGood(l, c)'
    BY <1>0, <1>3, <1>4, <1>5, <1>6 DEF MadeGood, memory
  <2> QED
    BY <2>1 DEF MadeGoodIsGood
<1>7. CASE UNCHANGED cache
  BY <1>6, <1>7, <1>10 DEF Good
<1>8. ASSUME NEW n \in alloc, n = Listing_Node_Select(l, i), NEW d \in Listing_Cache_Add(cache[l], i, n),
             cache' = [cache EXCEPT ![l] = d]
      PROVE  Good(l)'
  <2>1. n = c[i + 1]
    BY <1>2, <1>8, NodeAssumption DEF Memory
  <2>2. cache[l] \in Cache /\ n \in NodePtr /\ cache'[l] = d
    BY <1>8 DEF Memory, NodePtr
  <2>3. \A j \in Slot : d.index[j].to = "id" => d.index[j].n = 0
    BY <2>2 DEF OneSlot
  <2>4. \A j \in Slot : d.index[j].to = "id" =>
           d.ids[d.index[j].n] = i /\ d.nodes[d.index[j].n] = n
    BY <1>1, <2>2, <2>3, AddedRight
  <2> QED
    BY <1>0, <1>1, <1>6, <2>1, <2>2, <2>4
<1>9. \/ UNCHANGED cache
      \/ \E n \in alloc : n = Listing_Node_Select(l, i) /\
           \E d \in Listing_Cache_Add(cache[l], i, n) : cache' = [cache EXCEPT ![l] = d]
  BY DEF Listing_At, Stops, header
<1> QED
  BY <1>7, <1>8, <1>9

(* In front of the first node, and behind the last one, the new node makes *)
(* a chain with the others.                                                *)
FrontLinks(c, n, f, p) ==
  /\ f = [[next EXCEPT ![n] = NULL] EXCEPT ![n] = c[1]]
  /\ p = [[prev EXCEPT ![n] = NULL] EXCEPT ![c[1]] = n]
EndLinks(c, n, f, p) ==
  /\ f = [[next EXCEPT ![n] = NULL] EXCEPT ![c[Len(c)]] = n]
  /\ p = [[prev EXCEPT ![n] = NULL] EXCEPT ![n] = c[Len(c)]]
Chained(c, n) ==
  /\ c \in Seq(Node) /\ c # <<>> /\ Once(c) /\ Forward(next, c) /\ Backward(prev, c)
  /\ next \in Links /\ prev \in Links /\ next[c[Len(c)]] = NULL
  /\ n \in Node /\ \A i \in 1..Len(c) : c[i] # n

LEMMA FrontChain ==
  ASSUME NEW c, NEW n, Chained(c, n), NEW f, NEW p, FrontLinks(c, n, f, p)
  PROVE  LET s == <<n>> \o c
         IN  /\ s \in Seq(Node) /\ Len(s) = Len(c) + 1 /\ s[1] = n /\ s[Len(s)] = c[Len(c)]
             /\ \A i \in 1..Len(c) : s[i + 1] = c[i]
             /\ Forward(f, s) /\ Backward(p, s) /\ f[s[Len(s)]] = NULL
<1> DEFINE s == <<n>> \o c
<1>0. Len(c) \in Nat /\ Len(c) # 0 /\ \A i \in 1..Len(c) : c[i] \in Node /\ c[i] # n
  BY LenProperties, ElementOfSeq DEF Chained
<1>1. /\ s \in Seq(Node) /\ Len(s) = Len(c) + 1 /\ s[1] = n
      /\ \A i \in 1..Len(c) : s[i + 1] = c[i]
  BY ConsFacts DEF Chained
<1> HIDE DEF s
<1>2. 1 \in 1..Len(c) /\ Len(c) \in 1..Len(c) /\ c[1] \in Node
  BY <1>0
<1>3. s[Len(s)] = c[Len(c)]
  BY <1>1, <1>2
<1>4. f[n] = c[1] /\ \A q \in Node : q # n => f[q] = next[q]
  BY DEF Links, Chained, FrontLinks
<1>5. p[c[1]] = n /\ p[n] = NULL /\ \A q \in Node : q # n /\ q # c[1] => p[q] = prev[q]
  BY <1>2 DEF Links, Chained, FrontLinks
<1>6. ASSUME NEW i \in 1..(Len(s) - 1) PROVE f[s[i]] = s[i + 1]
  <2>1. CASE i = 1
    BY <1>1, <1>2, <1>4, <2>1
  <2>2. CASE i # 1
    <3>1. PICK j \in 1..(Len(c) - 1) : i = j + 1
      <4>1. i - 1 \in 1..(Len(c) - 1) /\ i = (i - 1) + 1
        BY <1>0, <1>1, <2>2
      <4> QED
        BY <4>1
    <3>2. j \in 1..Len(c) /\ j + 1 \in 1..Len(c)
      BY <1>0
    <3>3. s[i] = c[j] /\ s[i + 1] = c[j + 1]
      BY <1>1, <3>1, <3>2
    <3>4. next[c[j]] = c[j + 1]
      BY DEF Forward, Chained
    <3> QED
      BY <1>0, <1>4, <3>2, <3>3, <3>4
  <2> QED
    BY <2>1, <2>2
<1>7. ASSUME NEW i \in 1..Len(s) PROVE p[s[i]] = IF i = 1 THEN NULL ELSE s[i - 1]
  <2>1. CASE i = 1
    BY <1>1, <1>5, <2>1
  <2>2. CASE i # 1
    <3>1. PICK j \in 1..Len(c) : i = j + 1
      <4>1. i - 1 \in 1..Len(c) /\ i = (i - 1) + 1
        BY <1>0, <1>1, <2>2
      <4> QED
        BY <4>1
    <3>2. s[i] = c[j] /\ i - 1 = j
      BY <1>0, <1>1, <3>1
    <3>3. CASE j = 1
      BY <1>1, <1>5, <3>2, <3>3, <2>2
    <3>4. CASE j # 1
      <4>1. PICK k \in 1..Len(c) : j = k + 1
        <5>1. j - 1 \in 1..Len(c) /\ j = (j - 1) + 1
          BY <1>0, <3>4
        <5> QED
          BY <5>1
      <4>2. c[j] # c[1]
        BY <1>2, <3>4 DEF Once, Chained
      <4>3. prev[c[j]] = c[k]
        <5>1. j - 1 = k
          BY <4>1
        <5> QED
          BY <3>4, <5>1 DEF Backward, Chained
      <4>4. s[j] = c[k]
        BY <1>1, <4>1
      <4> QED
        BY <1>0, <1>5, <2>2, <3>2, <4>2, <4>3, <4>4
    <3> QED
      BY <3>3, <3>4
  <2> QED
    BY <2>1, <2>2
<1>8. f[s[Len(s)]] = NULL
  BY <1>0, <1>2, <1>3, <1>4 DEF Chained
<1> QED
  BY <1>1, <1>3, <1>6, <1>7, <1>8 DEF Forward, Backward, s

LEMMA EndChain ==
  ASSUME NEW c, NEW n, Chained(c, n), NEW f, NEW p, EndLinks(c, n, f, p)
  PROVE  LET s == Append(c, n)
         IN  /\ s \in Seq(Node) /\ Len(s) = Len(c) + 1 /\ s[Len(s)] = n
             /\ \A i \in 1..Len(c) : s[i] = c[i]
             /\ Forward(f, s) /\ Backward(p, s) /\ f[s[Len(s)]] = NULL
<1> DEFINE s == Append(c, n)
<1>0. Len(c) \in Nat /\ Len(c) # 0 /\ \A i \in 1..Len(c) : c[i] \in Node /\ c[i] # n
  BY LenProperties, ElementOfSeq DEF Chained
<1>1. /\ s \in Seq(Node) /\ Len(s) = Len(c) + 1 /\ s[Len(c) + 1] = n
      /\ \A i \in 1..Len(c) : s[i] = c[i]
  BY AppendProperties DEF Chained
<1> HIDE DEF s
<1>2. Len(c) \in 1..Len(c) /\ c[Len(c)] \in Node /\ 1 \in 1..Len(c)
  BY <1>0
<1>3. f[c[Len(c)]] = n /\ f[n] = NULL /\ \A q \in Node : q # n /\ q # c[Len(c)] => f[q] = next[q]
  BY <1>2 DEF Links, Chained, EndLinks
<1>4. p[n] = c[Len(c)] /\ \A q \in Node : q # n => p[q] = prev[q]
  BY DEF Links, Chained, EndLinks
<1>5. ASSUME NEW i \in 1..(Len(s) - 1) PROVE f[s[i]] = s[i + 1]
  <2>1. i \in 1..Len(c) /\ s[i] = c[i]
    BY <1>0, <1>1
  <2>2. CASE i = Len(c)
    BY <1>1, <1>3, <2>1, <2>2
  <2>3. CASE i # Len(c)
    <3>1. i \in 1..(Len(c) - 1) /\ i + 1 \in 1..Len(c)
      BY <1>0, <2>1, <2>3
    <3>2. c[i] # c[Len(c)]
      BY <1>2, <2>1, <2>3 DEF Once, Chained
    <3>3. next[c[i]] = c[i + 1]
      BY <3>1 DEF Forward, Chained
    <3> QED
      BY <1>0, <1>1, <1>3, <2>1, <3>1, <3>2, <3>3
  <2> QED
    BY <2>2, <2>3
<1>6. ASSUME NEW i \in 1..Len(s) PROVE p[s[i]] = IF i = 1 THEN NULL ELSE s[i - 1]
  <2>1. CASE i = Len(c) + 1
    <3>1. i - 1 = Len(c) /\ i # 1
      BY <1>0, <2>1
    <3> QED
      BY <1>1, <1>2, <1>4, <2>1, <3>1
  <2>2. CASE i # Len(c) + 1
    <3>1. i \in 1..Len(c) /\ (i # 1 => i - 1 \in 1..Len(c))
      BY <1>0, <1>1, <2>2
    <3>2. s[i] = c[i] /\ c[i] # n /\ c[i] \in Node /\ (i # 1 => s[i - 1] = c[i - 1])
      BY <1>0, <1>1, <3>1
    <3>3. prev[c[i]] = IF i = 1 THEN NULL ELSE c[i - 1]
      BY <3>1 DEF Backward, Chained
    <3> QED
      BY <1>4, <3>2, <3>3
  <2> QED
    BY <2>1, <2>2
<1> QED
  BY <1>1, <1>3, <1>5, <1>6 DEF Forward, Backward, s

LEMMA EndsKeep ==
  ASSUME Memory, MadeGoodIsGood', OneSlot', NEW l \in List, Good(l), head[l] # NULL,
         NEW i \in {0, count[l]}, NEW x, InsertNode(l, i, x), UNCHANGED live
  PROVE  Good(l)'
<1>1. PICK c : c = Chain(l)
  OBVIOUS
<1>2. /\ Joined(c) /\ c \in Seq(Node) /\ Len(c) = count[l] /\ count[l] \in Nat /\ count[l] # 0
      /\ \A k \in 1..Len(c) : c[k] \in alloc
      /\ head[l] = c[1] /\ tail[l] = c[Len(c)] /\ head[l] \in alloc /\ tail[l] \in alloc
      /\ next[tail[l]] = NULL /\ Backward(prev, c) /\ Once(c)
      /\ l \in live /\ Len(c) <= Most /\ Forward(next, c)
  BY <1>1, GoodParts, ChainLinked DEF Good, ChainLinks, Backward, Forward, Joined
<1>3. c # <<>>
  BY <1>2
<1>4. CASE UNCHANGED <<header, memory>>
  <2>1. Whole(head[l], c)
    BY <1>2, <1>3, NodeAssumption DEF Whole, Memory
  <2>2. Whole(head[l], c)'
    BY <1>4, <2>1 DEF Whole, Joined, memory, header
  <2>3. MadeGood(l, c)'
    BY <1>1, <1>2, <1>3, <1>4, <2>2 DEF MadeGood, memory, header, Backward, Good
  <2> QED
    BY <2>3 DEF MadeGoodIsGood
<1>5. ASSUME NEW n \in Lowest(1), NEW s \in Linked(l, i, n),
             NEW d \in Listing_Cache_Add(Bumped(cache[l], i), i, n),
             Relink(l, s), cache' = [cache EXCEPT ![l] = d],
             alloc' = alloc \cup {n}, count' = [count EXCEPT ![l] = @ + 1]
      PROVE  Good(l)'
  <2>1. n \in Node /\ n \notin alloc /\ n \in NodePtr /\ i \in Nat
    BY <1>2 DEF Lowest, FreeNodes, NodePtr
  <2>2. \A k \in 1..Len(c) : c[k] # n
    BY <1>2, <2>1
  <2>3. Len(c) + 1 <= Most
    BY <1>2, <2>1, <2>2, Room
  <2>4. Bumped(cache[l], i) \in Cache /\ cache'[l] = d /\ count'[l] = count[l] + 1
    BY <1>5, <2>1, NumbersTyped DEF Memory
  <2>5. \A j \in Slot : d.index[j].to = "id" =>
           d.ids[d.index[j].n] = i /\ d.nodes[d.index[j].n] = n
    <3>1. \A j \in Slot : d.index[j].to = "id" => d.index[j].n = 0
      BY <2>4 DEF OneSlot
    <3> QED
      BY <2>1, <2>4, <3>1, AddedRight
  <2>6. next \in Links /\ prev \in Links /\ next' = s.next /\ prev' = s.prev
        /\ head'[l] = s.head /\ tail'[l] = s.tail
    BY <1>5 DEF Memory, Relink
  <2>7. ASSUME NEW t \in Seq(Node), Len(t) = Len(c) + 1, \A k \in 1..Len(t) : t[k] \in alloc \cup {n},
               Forward(next', t), Backward(prev', t), next'[t[Len(t)]] = NULL,
               head'[l] = t[1], tail'[l] = t[Len(t)], t[i + 1] = n
        PROVE  Good(l)'
    <3>1. t # <<>> /\ t[1] \in alloc'
      <4>1. 1 \in 1..Len(t)
        BY <1>2, <2>7
      <4> QED
        BY <1>5, <2>7, <4>1
    <3>2. t \in Seq(alloc')
      <4>1. t = [k \in 1..Len(t) |-> t[k]] /\ Len(t) \in Nat
        BY LenProperties
      <4> QED
        BY <1>5, <2>7, <4>1, SeqDef
    <3>3. Joined(t)'
      BY <2>7, <3>2 DEF Joined, Forward
    <3>4. NULL \notin alloc'
      BY <1>5, <2>1, NodeAssumption DEF Memory
    <3>5. Whole(head[l], t)'
      BY <2>7, <3>1, <3>3, <3>4 DEF Whole
    <3>6. i < count[l] + 1
      BY <1>2
    <3>7. MadeGood(l, t)'
      BY <1>2, <2>3, <2>4, <2>5, <2>7, <3>1, <3>5, <3>6 DEF MadeGood, Backward
    <3> QED
      BY <3>7 DEF MadeGoodIsGood
  <2>8. CASE i = 0
    <3> DEFINE t == <<n>> \o c
    <3>1. s \in InFront(l, n)
      BY <2>8 DEF Linked
    <3>2. /\ s.head = n /\ s.tail = tail[l]
          /\ s.next = [[next EXCEPT ![n] = NULL] EXCEPT ![n] = c[1]]
          /\ s.prev = [[prev EXCEPT ![n] = NULL] EXCEPT ![c[1]] = n]
      BY <1>2, <3>1 DEF InFront, Fresh
    <3>3. /\ t \in Seq(Node) /\ Len(t) = Len(c) + 1 /\ t[1] = n /\ t[Len(t)] = c[Len(c)]
          /\ \A k \in 1..Len(c) : t[k + 1] = c[k]
          /\ Forward(s.next, t) /\ Backward(s.prev, t) /\ s.next[t[Len(t)]] = NULL
      <4>1. Chained(c, n)
        BY <1>2, <1>3, <2>1, <2>2, <2>6 DEF Chained
      <4>2. FrontLinks(c, n, s.next, s.prev)
        BY <3>2 DEF FrontLinks
      <4> QED
        BY <4>1, <4>2, FrontChain
    <3> HIDE DEF t
    <3>4. ASSUME NEW k \in 1..Len(t) PROVE t[k] \in alloc \cup {n}
      <4>1. CASE k = 1
        BY <3>3, <4>1
      <4>2. CASE k # 1
        <5>1. Len(c) \in Nat /\ Len(t) = Len(c) + 1
          BY <1>2, <3>3
        <5>2. k - 1 \in 1..Len(c) /\ (k - 1) + 1 = k
          BY <4>2, <5>1
        <5>3. t[(k - 1) + 1] = c[k - 1]
          BY <3>3, <5>2
        <5> QED
          BY <1>2, <5>2, <5>3
      <4> QED
        BY <4>1, <4>2
    <3>5. /\ Forward(next', t) /\ Backward(prev', t) /\ next'[t[Len(t)]] = NULL
          /\ head'[l] = t[1] /\ tail'[l] = t[Len(t)] /\ t[i + 1] = n
      BY <1>2, <2>6, <2>8, <3>2, <3>3
    <3> QED
      BY <2>7, <3>3, <3>4, <3>5
  <2>9. CASE i # 0
    <3> DEFINE t == Append(c, n)
    <3>1. s \in AtEnd(l, n) /\ i = count[l]
      BY <2>9 DEF Linked
    <3>2. /\ s.head = head[l] /\ s.tail = n
          /\ s.next = [[next EXCEPT ![n] = NULL] EXCEPT ![c[Len(c)]] = n]
          /\ s.prev = [[prev EXCEPT ![n] = NULL] EXCEPT ![n] = c[Len(c)]]
      BY <1>2, <3>1 DEF AtEnd, Fresh
    <3>3. /\ t \in Seq(Node) /\ Len(t) = Len(c) + 1 /\ t[Len(t)] = n
          /\ \A k \in 1..Len(c) : t[k] = c[k]
          /\ Forward(s.next, t) /\ Backward(s.prev, t) /\ s.next[t[Len(t)]] = NULL
      <4>1. Chained(c, n)
        BY <1>2, <1>3, <2>1, <2>2, <2>6 DEF Chained
      <4>2. EndLinks(c, n, s.next, s.prev)
        BY <3>2 DEF EndLinks
      <4> QED
        BY <4>1, <4>2, EndChain
    <3> HIDE DEF t
    <3>4. ASSUME NEW k \in 1..Len(t) PROVE t[k] \in alloc \cup {n}
      <4>1. k = Len(t) \/ k \in 1..Len(c)
        BY <1>2, <3>3
      <4> QED
        BY <1>2, <3>3, <4>1
    <3>5. t[1] = c[1]
      <4>1. 1 \in 1..Len(c)
        BY <1>2
      <4> QED
        BY <3>3, <4>1
    <3> QED
      BY <1>2, <2>6, <2>7, <3>1, <3>2, <3>3, <3>4, <3>5
  <2> QED
    BY <2>8, <2>9
<1>6. \/ UNCHANGED <<header, memory>>
      \/ \E n \in Lowest(1) : \E s \in Linked(l, i, n) :
           \E d \in Listing_Cache_Add(Bumped(cache[l], i), i, n) :
             /\ Relink(l, s) /\ cache' = [cache EXCEPT ![l] = d]
             /\ alloc' = alloc \cup {n} /\ count' = [count EXCEPT ![l] = @ + 1]
  BY DEF InsertNode
<1> QED
  BY <1>4, <1>5, <1>6

(* Whatever Garbage malloc left, a right cache stays right when an entry   *)
(* is read, and when one is put in at either end: the search finds the     *)
(* right node, which is cached at its index; the only cached index that    *)
(* is pointed to is the one just added (listing.c:234-245, 260-274).       *)
THEOREM CacheKeptHolds == ForeachSpec => CacheKept
<1> DEFINE A == \A l \in live : Good(l) /\ head[l] # NULL /\
                  (\/ \E i \in 0..(count[l] - 1) : Listing_At(l, i)
                   \/ \E i \in {0, count[l]}, x \in Data : Listing_Insert(l, i, x)) => Good(l)'
<1>1. Memory /\ Upper /\ OneSlot /\ OneSlot' /\ MadeGoodIsGood' => A
  <2> SUFFICES ASSUME Memory, Upper, OneSlot, OneSlot', MadeGoodIsGood',
                      NEW l \in live, Good(l), head[l] # NULL,
                      \/ \E i \in 0..(count[l] - 1) : Listing_At(l, i)
                      \/ \E i \in {0, count[l]}, x \in Data : Listing_Insert(l, i, x)
               PROVE  Good(l)'
    OBVIOUS
  <2>1. l \in List
    BY DEF Upper
  <2> QED
    BY <2>1, AtKeeps, EndsKeep DEF Listing_Insert
<1>2. Memory /\ Upper /\ Pushing /\ [ForeachNext]_allVars => Memory' /\ Upper' /\ Pushing'
  BY ForeachTyped
<1>3. ForeachSpec => [](Memory /\ Upper /\ Pushing)
  BY <1>2, InitTyped, PTL DEF ForeachSpec
<1> HIDE DEF A
<1>4. ForeachSpec => [][A]_vars
  BY <1>1, <1>3, OneSlotHolds, IsMadeGood, PTL DEF ForeachSpec
<1> QED
  BY <1>4 DEF CacheKept, A

-----------------------------------------------------------------------------
(* What keeps the shape of the listings.  The nodes of a listing are a     *)
(* sequence of nodes of A, given the first and the last one, and the links.*)
Held(A, h, t, f, p, s) ==
  /\ s \in Seq(A) /\ Forward(f, s) /\ Backward(p, s)
  /\ s = <<>> => h = NULL /\ t = NULL
  /\ s # <<>> => h = s[1] /\ t = s[Len(s)] /\ f[t] = NULL

LEMMA RowSeq ==
  ASSUME NEW S, NEW k \in Nat, NEW f, DOMAIN f = 1..k, f = [i \in 1..k |-> f[i]],
         \A i \in 1..k : f[i] \in S
  PROVE  f \in Seq(S) /\ Len(f) = k /\ (k # 0 => f # <<>>) /\ (k = 0 => f = <<>>)
<1>1. f \in [1..k -> S]
  OBVIOUS
<1>2. f \in Seq(S) /\ Len(f) = k
  BY <1>1
<1>3. Len(<<>>) = 0
  OBVIOUS
<1>4. k = 0 => f = <<>>
  BY <1>2, EmptySeq
<1> QED
  BY <1>2, <1>3, <1>4

(* The same, element by element. *)
Row(A, h, t, f, p, k, s) ==
  /\ k = 0 => h = NULL /\ t = NULL
  /\ k # 0 => h = s[1] /\ t = s[k]
  /\ \A i \in 1..k : s[i] \in A
  /\ \A i \in 1..k : f[s[i]] = IF i = k THEN NULL ELSE s[i + 1]
  /\ \A i \in 1..k : p[s[i]] = IF i = 1 THEN NULL ELSE s[i - 1]

LEMMA HeldFacts ==
  ASSUME NEW A, A \subseteq Node, NEW h, NEW t, NEW f, NEW p, NEW s, Held(A, h, t, f, p, s)
  PROVE  /\ s \in Seq(Node) /\ Once(s) /\ Len(s) \in Nat /\ (s = <<>> <=> Len(s) = 0)
         /\ Row(A, h, t, f, p, Len(s), s)
<1>1. s \in Seq(Node) /\ s \in Seq(A) /\ Len(s) \in Nat /\ DOMAIN s = 1..Len(s)
  BY LenProperties DEF Held
<1>2. \A i \in 1..Len(s) : s[i] \in A /\ s[i] \in Node /\ s[i] # NULL
  BY <1>1, ElementOfSeq, NodeAssumption
<1>3. s = <<>> <=> Len(s) = 0
  BY <1>1, EmptySeq
<1>4. Once(s)
  BY <1>1, OrderOnce DEF Held
<1>5. ASSUME NEW i \in 1..Len(s) PROVE f[s[i]] = IF i = Len(s) THEN NULL ELSE s[i + 1]
  <2>1. CASE i = Len(s)
    BY <1>1, <1>3, <2>1 DEF Held
  <2>2. CASE i # Len(s)
    <3>1. Len(s) \in Nat
      BY <1>1
    <3>2. i \in 1..(Len(s) - 1)
      BY <2>2, <3>1
    <3> QED
      BY <2>2, <3>2 DEF Held, Forward
  <2> QED
    BY <2>1, <2>2
<1>6. \A i \in 1..Len(s) : p[s[i]] = IF i = 1 THEN NULL ELSE s[i - 1]
  BY DEF Held, Backward
<1>7. /\ Len(s) = 0 => h = NULL /\ t = NULL
      /\ Len(s) # 0 => h = s[1] /\ t = s[Len(s)]
  BY <1>3 DEF Held
<1>8. Row(A, h, t, f, p, Len(s), s)
  BY <1>2, <1>5, <1>6, <1>7 DEF Row
<1> QED
  BY <1>1, <1>3, <1>4, <1>8

(* The other way round, with the sequence given by its elements. *)
LEMMA HeldBack ==
  ASSUME NEW A, NEW h, NEW t, NEW f, NEW p, NEW k \in Nat, NEW s,
         DOMAIN s = 1..k, s = [i \in 1..k |-> s[i]], Row(A, h, t, f, p, k, s)
  PROVE  Held(A, h, t, f, p, s) /\ Len(s) = k
<1>1. s \in Seq(A) /\ Len(s) = k /\ (k # 0 => s # <<>>) /\ (k = 0 => s = <<>>)
  BY RowSeq DEF Row
<1>2. Forward(f, s)
  <2> SUFFICES ASSUME NEW i \in 1..(k - 1) PROVE f[s[i]] = s[i + 1]
    BY <1>1 DEF Forward
  <2>1. i \in 1..k /\ i # k
    OBVIOUS
  <2> QED
    BY <2>1 DEF Row
<1>3. Backward(p, s)
  BY <1>1 DEF Backward, Row
<1>4. k # 0 => f[s[k]] = NULL
  <2>1. k # 0 => k \in 1..k
    OBVIOUS
  <2> QED
    BY <2>1 DEF Row
<1> QED
  BY <1>1, <1>2, <1>3, <1>4 DEF Held, Row

(* A new node n between the first j nodes and the others.                  *)
InsertedAt(s, j, n) ==
  [i \in 1..(Len(s) + 1) |-> IF i <= j THEN s[i] ELSE IF i = j + 1 THEN n ELSE s[i - 1]]

Inserts(A, s, j, n, f, p, f2, p2) ==
  /\ n \notin A
  /\ f2[n] = IF j = Len(s) THEN NULL ELSE s[j + 1]
  /\ p2[n] = IF j = 0 THEN NULL ELSE s[j]
  /\ \A q \in A : /\ f2[q] = IF j # 0 /\ q = s[j] THEN n ELSE f[q]
                  /\ p2[q] = IF j # Len(s) /\ q = s[j + 1] THEN n ELSE p[q]

HeldWith(A, h, t, s, j, n, f2, p2) ==
  /\ Held(A \cup {n}, IF j = 0 THEN n ELSE h, IF j = Len(s) THEN n ELSE t, f2, p2,
          InsertedAt(s, j, n))
  /\ Len(InsertedAt(s, j, n)) = Len(s) + 1
LEMMA InsertHeld ==
  ASSUME NEW A, A \subseteq Node, NEW h, NEW t, NEW f, NEW p, NEW s, Held(A, h, t, f, p, s),
         NEW j \in 0..Len(s), NEW n, NEW f2, NEW p2, Inserts(A, s, j, n, f, p, f2, p2)
  PROVE  HeldWith(A, h, t, s, j, n, f2, p2)
<1> DEFINE u == InsertedAt(s, j, n)
<1>1. PICK k \in Nat : k = Len(s)
  BY HeldFacts
<1>0. Once(s) /\ Row(A, h, t, f, p, k, s)
  BY <1>1, HeldFacts
<1>2. /\ \A i \in 1..k : s[i] \in A /\ s[i] # n
      /\ \A i, m \in 1..k : s[i] = s[m] => i = m
      /\ \A i \in 1..k : f[s[i]] = IF i = k THEN NULL ELSE s[i + 1]
      /\ \A i \in 1..k : p[s[i]] = IF i = 1 THEN NULL ELSE s[i - 1]
  BY <1>0, <1>1 DEF Once, Row, Inserts
<1>3. /\ k = 0 => h = NULL /\ t = NULL
      /\ k # 0 => h = s[1] /\ t = s[k]
  BY <1>0 DEF Row
<1>4. /\ j \in 0..k
      /\ f2[n] = IF j = k THEN NULL ELSE s[j + 1]
      /\ p2[n] = IF j = 0 THEN NULL ELSE s[j]
      /\ \A q \in A : f2[q] = IF j # 0 /\ q = s[j] THEN n ELSE f[q]
      /\ \A q \in A : p2[q] = IF j # k /\ q = s[j + 1] THEN n ELSE p[q]
  BY <1>1 DEF Inserts
<1>5. k + 1 \in Nat /\ DOMAIN u = 1..(k + 1) /\ u = [i \in 1..(k + 1) |-> u[i]]
  BY <1>1 DEF InsertedAt
<1>6. \A i \in 1..(k + 1) : u[i] = IF i <= j THEN s[i] ELSE IF i = j + 1 THEN n ELSE s[i - 1]
  BY <1>1 DEF InsertedAt
<1> HIDE DEF u
<1>7. \A i \in 1..(k + 1) :
        \/ i <= j /\ i \in 1..k /\ u[i] = s[i]
        \/ i = j + 1 /\ u[i] = n
        \/ i > j + 1 /\ i - 1 \in 1..k /\ u[i] = s[i - 1]
  BY <1>4, <1>6
<1>8. \A i \in 1..(k + 1) : u[i] \in A \cup {n}
  BY <1>2, <1>7
<1>9. ASSUME NEW i \in 1..(k + 1) PROVE f2[u[i]] = IF i = k + 1 THEN NULL ELSE u[i + 1]
  <2>1. CASE i < j
    <3>1. i \in 1..k /\ i + 1 \in 1..k /\ i + 1 \in 1..(k + 1) /\ i # k /\ i # k + 1 /\ i # j /\ j \in 1..k
      BY <1>4, <2>1
    <3>2. u[i] = s[i] /\ u[i + 1] = s[i + 1]
      BY <1>4, <1>6, <2>1, <3>1
    <3>3. s[i] # s[j]
      BY <1>2, <3>1
    <3>4. f2[s[i]] = f[s[i]]
      BY <1>2, <1>4, <3>1, <3>3
    <3> QED
      BY <1>2, <3>1, <3>2, <3>4
  <2>2. CASE i = j
    <3>1. i \in 1..k /\ i + 1 \in 1..(k + 1) /\ i # k + 1 /\ j # 0
      BY <1>4, <2>2
    <3>2. u[i] = s[j] /\ u[i + 1] = n
      BY <1>4, <1>6, <2>2, <3>1
    <3> QED
      BY <1>2, <1>4, <2>2, <3>1, <3>2
  <2>3. CASE i = j + 1
    <3>1. CASE j = k
      BY <1>4, <1>6, <2>3, <3>1
    <3>2. CASE j # k
      <4>1. i + 1 \in 1..(k + 1) /\ i # k + 1 /\ ~(i + 1 <= j) /\ i + 1 # j + 1 /\ (i + 1) - 1 = j + 1
        BY <1>4, <2>3, <3>2
      <4>2. u[i] = n /\ u[i + 1] = s[j + 1]
        BY <1>4, <1>6, <2>3, <4>1
      <4> QED
        BY <1>4, <3>2, <4>1, <4>2
    <3> QED
      BY <3>1, <3>2
  <2>4. CASE i > j + 1
    <3>1. PICK m \in 1..k : i = m + 1 /\ m = i - 1
      BY <1>4, <2>4
    <3>2. u[i] = s[m] /\ m > j
      BY <1>4, <1>6, <2>4, <3>1
    <3>3. j # 0 => s[m] # s[j]
      <4>1. j # 0 => j \in 1..k
        BY <1>4
      <4>2. m # j
        BY <1>4, <3>2
      <4> QED
        BY <1>2, <4>1, <4>2
    <3>4. f2[s[m]] = f[s[m]]
      BY <1>2, <1>4, <3>3
    <3>5. CASE m = k
      BY <1>2, <3>1, <3>2, <3>4, <3>5
    <3>6. CASE m # k
      <4>1. m + 1 \in 1..k /\ i + 1 \in 1..(k + 1) /\ i # k + 1 /\ ~(i + 1 <= j) /\ i + 1 # j + 1
            /\ (i + 1) - 1 = m + 1
        BY <1>4, <3>1, <3>2, <3>6
      <4>2. u[i + 1] = s[m + 1]
        BY <1>6, <4>1
      <4> QED
        BY <1>2, <3>2, <3>4, <3>6, <4>1, <4>2
    <3> QED
      BY <3>5, <3>6
  <2> QED
    BY <1>4, <2>1, <2>2, <2>3, <2>4
<1>10. ASSUME NEW i \in 1..(k + 1) PROVE p2[u[i]] = IF i = 1 THEN NULL ELSE u[i - 1]
  <2>1. CASE i <= j
    <3>1. i \in 1..k /\ u[i] = s[i]
      BY <1>4, <1>6, <2>1
    <3>2. j # k => s[i] # s[j + 1]
      <4>1. j # k => j + 1 \in 1..k /\ i # j + 1
        BY <1>4, <2>1
      <4> QED
        BY <1>2, <3>1, <4>1
    <3>3. p2[u[i]] = IF i = 1 THEN NULL ELSE s[i - 1]
      BY <1>2, <1>4, <3>1, <3>2
    <3>4. i # 1 => u[i - 1] = s[i - 1]
      <4>1. i # 1 => i - 1 \in 1..(k + 1) /\ i - 1 <= j
        BY <1>4, <2>1
      <4> QED
        BY <1>6, <4>1
    <3> QED
      BY <3>3, <3>4
  <2>2. CASE i = j + 1
    <3>1. u[i] = n /\ (i = 1 <=> j = 0)
      BY <1>4, <1>6, <2>2
    <3>2. j # 0 => u[i - 1] = s[j]
      <4>1. j # 0 => i - 1 = j /\ j \in 1..(k + 1) /\ j <= j
        BY <1>4, <2>2
      <4> QED
        BY <1>6, <4>1
    <3> QED
      BY <1>4, <3>1, <3>2
  <2>3. CASE i = j + 2
    <3>1. j # k /\ j + 1 \in 1..k /\ j + 1 \in 1..(k + 1) /\ i # 1 /\ i - 1 = j + 1 /\ ~(i <= j)
          /\ i # j + 1 /\ ~(j + 1 <= j)
      BY <1>4, <2>3
    <3>2. u[i] = s[j + 1] /\ u[i - 1] = n
      BY <1>6, <3>1
    <3> QED
      BY <1>2, <1>4, <3>1, <3>2
  <2>4. CASE i > j + 2
    <3>1. PICK m \in 1..k : i = m + 1 /\ m = i - 1
      BY <1>4, <2>4
    <3>2. /\ ~(i <= j) /\ i # j + 1 /\ m # 1 /\ m # j + 1 /\ m \in 1..(k + 1)
          /\ ~(m <= j) /\ i # 1
      BY <1>4, <2>4, <3>1
    <3>3. u[i] = s[m] /\ u[m] = s[m - 1]
      BY <1>6, <3>1, <3>2
    <3>4. j # k => s[m] # s[j + 1]
      <4>1. j # k => j + 1 \in 1..k
        BY <1>4
      <4> QED
        BY <1>2, <3>2, <4>1
    <3>5. p2[s[m]] = p[s[m]]
      BY <1>2, <1>4, <3>4
    <3> QED
      BY <1>2, <3>1, <3>2, <3>3, <3>5
  <2> QED
    BY <1>4, <2>1, <2>2, <2>3, <2>4
<1>11. PICK h2 : h2 = IF j = 0 THEN n ELSE h
  OBVIOUS
<1>12. PICK t2 : t2 = IF j = k THEN n ELSE t
  OBVIOUS
<1>13. h2 = u[1] /\ t2 = u[k + 1]
  <2>1. 1 \in 1..(k + 1) /\ k + 1 \in 1..(k + 1)
    BY <1>1
  <2>2. j = 0 => u[1] = n
    BY <1>6, <2>1
  <2>3. j # 0 => u[1] = s[1] /\ h = s[1]
    BY <1>3, <1>4, <1>6, <2>1
  <2>4. j = k => u[k + 1] = n
    BY <1>6, <2>1
  <2>5. j # k => u[k + 1] = s[k] /\ t = s[k]
    <3>1. j # k => ~(k + 1 <= j) /\ k + 1 # j + 1 /\ (k + 1) - 1 = k /\ k # 0
      BY <1>4
    <3> QED
      BY <1>3, <1>6, <2>1, <3>1
  <2> QED
    BY <1>11, <1>12, <2>2, <2>3, <2>4, <2>5
<1>14. PICK k1 : k1 = k + 1 /\ k1 \in Nat /\ k1 # 0
  BY <1>1
<1>15. Row(A \cup {n}, h2, t2, f2, p2, k1, u)
  BY <1>8, <1>9, <1>10, <1>13, <1>14 DEF Row
<1>16. Held(A \cup {n}, h2, t2, f2, p2, u) /\ Len(u) = k1
  BY <1>5, <1>14, <1>15, HeldBack
<1> QED
  BY <1>1, <1>11, <1>12, <1>14, <1>16 DEF u, HeldWith

(* Without the node at place j.                                            *)
DroppedAt(s, j) == [i \in 1..(Len(s) - 1) |-> IF i < j THEN s[i] ELSE s[i + 1]]

Drops(A, B, x, f, p, f2, p2) ==
  \A q \in A \ {x} : /\ q \in B
                     /\ f2[q] = IF p[x] = q THEN f[x] ELSE f[q]
                     /\ p2[q] = IF f[x] = q THEN p[x] ELSE p[q]

HeldWithout(B, h, t, f, p, s, j, f2, p2) ==
  /\ Held(B, IF h = s[j] THEN f[s[j]] ELSE h, IF t = s[j] THEN p[s[j]] ELSE t, f2, p2,
          DroppedAt(s, j))
  /\ Len(DroppedAt(s, j)) = Len(s) - 1
LEMMA DropHeld ==
  ASSUME NEW A, A \subseteq Node, NEW h, NEW t, NEW f, NEW p, NEW s, Held(A, h, t, f, p, s),
         NEW j \in 1..Len(s), NEW B, NEW f2, NEW p2, Drops(A, B, s[j], f, p, f2, p2)
  PROVE  HeldWithout(B, h, t, f, p, s, j, f2, p2)
<1> DEFINE u == DroppedAt(s, j)
<1>1. PICK k \in Nat : k = Len(s)
  BY HeldFacts
<1>0. Once(s) /\ Row(A, h, t, f, p, k, s)
  BY <1>1, HeldFacts
<1>2. /\ \A i \in 1..k : s[i] \in A /\ s[i] # NULL
      /\ \A i, m \in 1..k : s[i] = s[m] => i = m
      /\ \A i \in 1..k : f[s[i]] = IF i = k THEN NULL ELSE s[i + 1]
      /\ \A i \in 1..k : p[s[i]] = IF i = 1 THEN NULL ELSE s[i - 1]
  BY <1>0, <1>1, NodeAssumption DEF Once, Row
<1>3. k # 0 => h = s[1] /\ t = s[k]
  BY <1>0 DEF Row
<1>4. PICK m \in Nat : k = m + 1 /\ m = k - 1
  BY <1>1
<1>5. j \in 1..k /\ k # 0 /\ 1 \in 1..k /\ k \in 1..k /\ h = s[1] /\ t = s[k]
  BY <1>1, <1>3, <1>4
<1>6. DOMAIN u = 1..m /\ u = [i \in 1..m |-> u[i]]
  BY <1>1, <1>4 DEF DroppedAt
<1>7. \A i \in 1..m : u[i] = IF i < j THEN s[i] ELSE s[i + 1]
  BY <1>1, <1>4 DEF DroppedAt
<1> HIDE DEF u
<1>8. \A i \in 1..k : i # j => /\ s[i] # s[j] /\ s[i] \in B
                               /\ f2[s[i]] = IF p[s[j]] = s[i] THEN f[s[j]] ELSE f[s[i]]
                               /\ p2[s[i]] = IF f[s[j]] = s[i] THEN p[s[j]] ELSE p[s[i]]
  <2> SUFFICES ASSUME NEW i \in 1..k, i # j
               PROVE  /\ s[i] # s[j] /\ s[i] \in B
                      /\ f2[s[i]] = IF p[s[j]] = s[i] THEN f[s[j]] ELSE f[s[i]]
                      /\ p2[s[i]] = IF f[s[j]] = s[i] THEN p[s[j]] ELSE p[s[i]]
    OBVIOUS
  <2>1. PICK q \in A : q = s[i] /\ q # s[j]
    BY <1>2, <1>5
  <2> QED
    BY <2>1 DEF Drops
<1>9. \A i \in 1..m : u[i] \in B
  <2> SUFFICES ASSUME NEW i \in 1..m PROVE u[i] \in B
    OBVIOUS
  <2>1. i \in 1..k /\ i + 1 \in 1..k /\ (i < j => i # j) /\ (~(i < j) => i + 1 # j)
    BY <1>4, <1>5
  <2> QED
    BY <1>7, <1>8, <2>1
<1>10. ASSUME NEW i \in 1..k, i # j
       PROVE  /\ i + 1 # j => f2[s[i]] = f[s[i]]
              /\ i + 1 = j => f2[s[i]] = f[s[j]]
              /\ i # j + 1 => p2[s[i]] = p[s[i]]
              /\ i = j + 1 => p2[s[i]] = p[s[j]]
  <2>1. p[s[j]] = s[i] <=> i + 1 = j
    <3>1. j = 1 => p[s[j]] = NULL /\ i + 1 # j
      BY <1>2, <1>5
    <3>2. j # 1 => p[s[j]] = s[j - 1] /\ j - 1 \in 1..k /\ (i + 1 = j <=> i = j - 1)
      BY <1>2, <1>5
    <3> QED
      BY <1>2, <3>1, <3>2
  <2>2. f[s[j]] = s[i] <=> i = j + 1
    <3>1. j = k => f[s[j]] = NULL /\ i # j + 1
      BY <1>2, <1>5
    <3>2. j # k => f[s[j]] = s[j + 1] /\ j + 1 \in 1..k
      BY <1>2, <1>5
    <3> QED
      BY <1>2, <3>1, <3>2
  <2> QED
    BY <1>8, <1>10, <2>1, <2>2
<1>11. ASSUME NEW i \in 1..m PROVE f2[u[i]] = IF i = m THEN NULL ELSE u[i + 1]
  <2>0. i \in 1..k /\ i + 1 \in 1..k /\ i # k /\ (i # m => i + 1 \in 1..m /\ (i + 1) + 1 = i + 2 /\ i + 2 \in 1..k)
        /\ (i = m => i + 1 = k)
    BY <1>4
  <2>1. CASE i + 1 < j
    <3>1. i < j /\ i # m /\ i # j /\ i + 1 # j
      BY <1>4, <1>5, <2>1
    <3>2. u[i] = s[i] /\ u[i + 1] = s[i + 1]
      BY <1>7, <2>0, <2>1, <3>1
    <3> QED
      BY <1>2, <1>10, <2>0, <3>1, <3>2
  <2>2. CASE i + 1 = j
    <3>1. i < j /\ i # j /\ ~(i + 1 < j)
      BY <1>5, <2>2
    <3>2. u[i] = s[i] /\ f2[u[i]] = f[s[j]]
      BY <1>7, <1>10, <2>0, <2>2, <3>1
    <3>3. i # m => u[i + 1] = s[i + 2]
      BY <1>7, <2>0, <3>1
    <3>4. f[s[j]] = IF j = k THEN NULL ELSE s[j + 1]
      BY <1>2, <1>5
    <3>5. (j = k <=> i = m) /\ j + 1 = i + 2
      BY <1>4, <2>0, <2>2
    <3> QED
      BY <3>2, <3>3, <3>4, <3>5
  <2>3. CASE i >= j
    <3>1. ~(i < j) /\ ~(i + 1 < j) /\ i + 1 # j /\ (i + 1) + 1 # j
      BY <1>5, <2>3
    <3>2. u[i] = s[i + 1] /\ (i # m => u[i + 1] = s[i + 2])
      BY <1>7, <2>0, <3>1
    <3>3. f2[s[i + 1]] = f[s[i + 1]]
      BY <1>10, <2>0, <3>1
    <3>4. f[s[i + 1]] = IF i + 1 = k THEN NULL ELSE s[i + 2]
      BY <1>2, <2>0
    <3>5. i + 1 = k <=> i = m
      BY <1>4
    <3> QED
      BY <3>2, <3>3, <3>4, <3>5
  <2> QED
    BY <1>5, <2>0, <2>1, <2>2, <2>3
<1>12. ASSUME NEW i \in 1..m PROVE p2[u[i]] = IF i = 1 THEN NULL ELSE u[i - 1]
  <2>0. i \in 1..k /\ i + 1 \in 1..k /\ i + 1 # 1 /\ (i + 1) - 1 = i /\ (i # 1 => i - 1 \in 1..m /\ (i - 1) + 1 = i)
    BY <1>4
  <2>1. CASE i < j
    <3>1. i # j /\ i # j + 1 /\ i - 1 < j
      BY <1>5, <2>1
    <3>2. u[i] = s[i] /\ (i # 1 => u[i - 1] = s[i - 1])
      BY <1>7, <2>0, <2>1, <3>1
    <3> QED
      BY <1>2, <1>10, <2>0, <3>1, <3>2
  <2>2. CASE i = j
    <3>1. i + 1 # j /\ i + 1 = j + 1 /\ ~(i < j) /\ i - 1 < j
      BY <1>5, <2>2
    <3>2. u[i] = s[i + 1] /\ p2[s[i + 1]] = p[s[j]] /\ (i # 1 => u[i - 1] = s[i - 1])
      BY <1>7, <1>10, <2>0, <3>1
    <3> QED
      BY <1>2, <1>5, <2>2, <3>2
  <2>3. CASE i > j
    <3>1. i + 1 # j /\ i + 1 # j + 1 /\ ~(i < j) /\ ~(i - 1 < j) /\ i # 1
      BY <1>5, <2>3
    <3>2. u[i] = s[i + 1] /\ u[i - 1] = s[i]
      BY <1>7, <2>0, <3>1
    <3>3. p2[s[i + 1]] = s[i]
      BY <1>2, <1>10, <2>0, <3>1
    <3> QED
      BY <3>1, <3>2, <3>3
  <2> QED
    BY <1>5, <2>0, <2>1, <2>2, <2>3
<1>13. PICK h2 : h2 = IF h = s[j] THEN f[s[j]] ELSE h
  OBVIOUS
<1>14. PICK t2 : t2 = IF t = s[j] THEN p[s[j]] ELSE t
  OBVIOUS
<1>15. m = 0 => h2 = NULL /\ t2 = NULL
  <2>1. m = 0 => j = 1 /\ k = 1
    BY <1>4, <1>5
  <2> QED
    BY <1>2, <1>5, <1>13, <1>14, <2>1
<1>16. m # 0 => h2 = u[1] /\ t2 = u[m]
  <2> SUFFICES ASSUME m # 0 PROVE h2 = u[1] /\ t2 = u[m]
    OBVIOUS
  <2>1. 1 \in 1..m /\ m \in 1..m /\ k # 1 /\ 1 + 1 = 2
    BY <1>4
  <2>2. h2 = u[1]
    <3>1. CASE j = 1
      <4>1. ~(1 < j) /\ h = s[j]
        BY <1>5, <3>1
      <4> QED
        BY <1>2, <1>5, <1>7, <1>13, <2>1, <3>1, <4>1
    <3>2. CASE j # 1
      <4>1. 1 < j /\ h # s[j]
        BY <1>2, <1>5, <3>2
      <4> QED
        BY <1>5, <1>7, <1>13, <2>1, <4>1
    <3> QED
      BY <3>1, <3>2
  <2>3. t2 = u[m]
    <3>1. CASE j = k
      <4>1. m < j /\ t = s[j] /\ j # 1 /\ j - 1 = m
        BY <1>4, <1>5, <2>1, <3>1
      <4> QED
        BY <1>2, <1>5, <1>7, <1>14, <2>1, <4>1
    <3>2. CASE j # k
      <4>1. ~(m < j) /\ t # s[j] /\ m + 1 = k
        BY <1>2, <1>4, <1>5, <3>2
      <4> QED
        BY <1>5, <1>7, <1>14, <2>1, <4>1
    <3> QED
      BY <3>1, <3>2
  <2> QED
    BY <2>2, <2>3
<1>17. Row(B, h2, t2, f2, p2, m, u)
  BY <1>9, <1>11, <1>12, <1>15, <1>16 DEF Row
<1>18. Held(B, h2, t2, f2, p2, u) /\ Len(u) = m
  BY <1>6, <1>17, HeldBack
<1> QED
  BY <1>1, <1>4, <1>13, <1>14, <1>18 DEF u, HeldWithout

(* With the nodes at the places j and j + 1 exchanged.                     *)
SwappedAt(s, j) ==
  [i \in 1..Len(s) |-> IF i = j THEN s[j + 1] ELSE IF i = j + 1 THEN s[j] ELSE s[i]]

Swaps(A, s, j, f, p, f2, p2) ==
  \A q \in A :
    /\ f2[q] = IF q = s[j - 1] THEN s[j + 1] ELSE IF q = s[j + 1] THEN s[j]
               ELSE IF q = s[j] THEN s[j + 2] ELSE f[q]
    /\ p2[q] = IF q = s[j + 2] THEN s[j] ELSE IF q = s[j] THEN s[j + 1]
               ELSE IF q = s[j + 1] THEN s[j - 1] ELSE p[q]

LEMMA SwapHeld ==
  ASSUME NEW A, A \subseteq Node, NEW h, NEW t, NEW f, NEW p, NEW s, Held(A, h, t, f, p, s),
         NEW j \in 2..(Len(s) - 2), NEW f2, NEW p2, Swaps(A, s, j, f, p, f2, p2)
  PROVE  Held(A, h, t, f2, p2, SwappedAt(s, j)) /\ Len(SwappedAt(s, j)) = Len(s)
<1> DEFINE u == SwappedAt(s, j)
<1>1. PICK k \in Nat : k = Len(s)
  BY HeldFacts
<1>0. Once(s) /\ Row(A, h, t, f, p, k, s)
  BY <1>1, HeldFacts
<1>2. /\ \A i \in 1..k : s[i] \in A
      /\ \A i, m \in 1..k : s[i] = s[m] => i = m
      /\ \A i \in 1..k : f[s[i]] = IF i = k THEN NULL ELSE s[i + 1]
      /\ \A i \in 1..k : p[s[i]] = IF i = 1 THEN NULL ELSE s[i - 1]
  BY <1>0, <1>1 DEF Once, Row
<1>3. k # 0 => h = s[1] /\ t = s[k]
  BY <1>0 DEF Row
<1>4. PICK m \in Nat : m = j - 1 /\ j = m + 1
  BY <1>1
<1>5. /\ m \in 1..k /\ m + 1 \in 1..k /\ m + 2 \in 1..k /\ m + 3 \in 1..k /\ k # 0
      /\ j + 1 = m + 2 /\ j + 2 = m + 3 /\ m + 1 # k /\ m + 2 # k /\ m # k
  BY <1>1, <1>4
<1>6. DOMAIN u = 1..k /\ u = [i \in 1..k |-> u[i]]
  BY <1>1 DEF SwappedAt
<1>7. \A i \in 1..k : u[i] = IF i = m + 1 THEN s[m + 2] ELSE IF i = m + 2 THEN s[m + 1] ELSE s[i]
  BY <1>1, <1>4, <1>5 DEF SwappedAt
<1> HIDE DEF u
<1>8. \A i \in 1..k : f2[s[i]] = IF i = m THEN s[m + 2] ELSE IF i = m + 2 THEN s[m + 1]
                                 ELSE IF i = m + 1 THEN s[m + 3] ELSE f[s[i]]
  <2> SUFFICES ASSUME NEW i \in 1..k
               PROVE  f2[s[i]] = IF i = m THEN s[m + 2] ELSE IF i = m + 2 THEN s[m + 1]
                                 ELSE IF i = m + 1 THEN s[m + 3] ELSE f[s[i]]
    OBVIOUS
  <2>1. /\ s[i] = s[m] <=> i = m
        /\ s[i] = s[m + 1] <=> i = m + 1
        /\ s[i] = s[m + 2] <=> i = m + 2
    BY <1>2, <1>5
  <2>2. s[j - 1] = s[m] /\ s[j] = s[m + 1] /\ s[j + 1] = s[m + 2] /\ s[j + 2] = s[m + 3] /\ s[i] \in A
    BY <1>2, <1>4, <1>5
  <2> QED
    BY <2>1, <2>2 DEF Swaps
<1>9. \A i \in 1..k : p2[s[i]] = IF i = m + 3 THEN s[m + 1] ELSE IF i = m + 1 THEN s[m + 2]
                                 ELSE IF i = m + 2 THEN s[m] ELSE p[s[i]]
  <2> SUFFICES ASSUME NEW i \in 1..k
               PROVE  p2[s[i]] = IF i = m + 3 THEN s[m + 1] ELSE IF i = m + 1 THEN s[m + 2]
                                 ELSE IF i = m + 2 THEN s[m] ELSE p[s[i]]
    OBVIOUS
  <2>1. /\ s[i] = s[m + 3] <=> i = m + 3
        /\ s[i] = s[m + 1] <=> i = m + 1
        /\ s[i] = s[m + 2] <=> i = m + 2
    BY <1>2, <1>5
  <2>2. s[j - 1] = s[m] /\ s[j] = s[m + 1] /\ s[j + 1] = s[m + 2] /\ s[j + 2] = s[m + 3] /\ s[i] \in A
    BY <1>2, <1>4, <1>5
  <2> QED
    BY <2>1, <2>2 DEF Swaps
<1>10. \A i \in 1..k : u[i] \in A
  BY <1>2, <1>5, <1>7
<1>11. ASSUME NEW i \in 1..k PROVE f2[u[i]] = IF i = k THEN NULL ELSE u[i + 1]
  <2>1. CASE i = m
    <3>1. u[i] = s[m] /\ u[i + 1] = s[m + 2]
      BY <1>5, <1>7, <2>1
    <3> QED
      BY <1>5, <1>8, <2>1, <3>1
  <2>2. CASE i = m + 1
    <3>1. u[i] = s[m + 2] /\ i + 1 = m + 2 /\ m + 2 # m + 1 /\ m + 2 # m
      BY <1>5, <1>7, <2>2
    <3>2. u[i + 1] = s[m + 1]
      BY <1>5, <1>7, <3>1
    <3> QED
      BY <1>5, <1>8, <2>2, <3>1, <3>2
  <2>3. CASE i = m + 2
    <3>1. i + 1 = m + 3 /\ m + 3 # m + 1 /\ m + 3 # m + 2 /\ m + 2 # m + 1 /\ m + 1 # m /\ m + 1 # m + 2
      BY <1>5, <2>3
    <3>2. u[i] = s[m + 1] /\ u[i + 1] = s[m + 3]
      BY <1>5, <1>7, <2>3, <3>1
    <3> QED
      BY <1>5, <1>8, <2>3, <3>1, <3>2
  <2>4. CASE i # m /\ i # m + 1 /\ i # m + 2
    <3>1. i # k => i + 1 \in 1..k /\ i + 1 # m + 1 /\ i + 1 # m + 2
      <4>1. i + 1 = m + 2 => i = m + 1
        BY <1>4
      <4> QED
        BY <1>4, <2>4, <4>1
    <3>2. u[i] = s[i] /\ (i # k => u[i + 1] = s[i + 1])
      BY <1>7, <2>4, <3>1
    <3>3. f2[s[i]] = f[s[i]]
      BY <1>8, <2>4
    <3> QED
      BY <1>2, <3>2, <3>3
  <2> QED
    BY <2>1, <2>2, <2>3, <2>4
<1>12. ASSUME NEW i \in 1..k PROVE p2[u[i]] = IF i = 1 THEN NULL ELSE u[i - 1]
  <2>1. CASE i = m + 1
    <3>1. i - 1 = m /\ i # 1 /\ m # m + 1 /\ m # m + 2 /\ m + 2 # m + 3 /\ m + 2 # m + 1
      BY <1>5, <2>1
    <3>2. u[i] = s[m + 2] /\ u[i - 1] = s[m]
      BY <1>5, <1>7, <2>1, <3>1
    <3> QED
      BY <1>5, <1>9, <3>1, <3>2
  <2>2. CASE i = m + 2
    <3>1. i - 1 = m + 1 /\ i # 1 /\ m + 2 # m + 1 /\ m + 1 # m + 3
      BY <1>5, <2>2
    <3>2. u[i] = s[m + 1] /\ u[i - 1] = s[m + 2]
      BY <1>5, <1>7, <2>2, <3>1
    <3> QED
      BY <1>5, <1>9, <3>1, <3>2
  <2>3. CASE i = m + 3
    <3>1. i - 1 = m + 2 /\ i # 1 /\ m + 2 # m + 1 /\ m + 3 # m + 1 /\ m + 3 # m + 2
      BY <1>5, <2>3
    <3>2. u[i] = s[m + 3] /\ u[i - 1] = s[m + 1]
      BY <1>5, <1>7, <2>3, <3>1
    <3> QED
      BY <1>5, <1>9, <3>1, <3>2
  <2>4. CASE i # m + 1 /\ i # m + 2 /\ i # m + 3
    <3>1. i # 1 => i - 1 \in 1..k /\ i - 1 # m + 1 /\ i - 1 # m + 2
      <4>1. (i - 1 = m + 1 => i = m + 2) /\ (i - 1 = m + 2 => i = m + 3)
        BY <1>4
      <4> QED
        BY <1>1, <2>4, <4>1
    <3>2. u[i] = s[i] /\ (i # 1 => u[i - 1] = s[i - 1])
      BY <1>7, <2>4, <3>1
    <3>3. p2[s[i]] = p[s[i]]
      BY <1>9, <2>4
    <3> QED
      BY <1>2, <3>2, <3>3
  <2> QED
    BY <2>1, <2>2, <2>3, <2>4
<1>13. h = u[1] /\ t = u[k]
  <2>1. 1 \in 1..k /\ k \in 1..k /\ 1 # m + 1 /\ 1 # m + 2 /\ k # m + 1 /\ k # m + 2
    BY <1>5
  <2> QED
    BY <1>3, <1>5, <1>7, <2>1
<1>14. Row(A, h, t, f2, p2, k, u)
  BY <1>5, <1>10, <1>11, <1>12, <1>13 DEF Row
<1>15. Held(A, h, t, f2, p2, u) /\ Len(u) = k
  BY <1>6, <1>14, HeldBack
<1> QED
  BY <1>1, <1>15 DEF u

(* One behind the other; no node is in both.                               *)
Foreign(s, r) == \A i \in 1..Len(s), j \in 1..Len(r) : s[i] # r[j]
JoinedTo(s, r) ==
  [i \in 1..(Len(s) + Len(r)) |-> IF i <= Len(s) THEN s[i] ELSE r[i - Len(s)]]

Joins(A, h, t, f, p, f2, p2) ==
  \A q \in A : /\ f2[q] = IF q = t THEN h ELSE f[q]
               /\ p2[q] = IF q = h THEN t ELSE p[q]

LEMMA JoinHeld ==
  ASSUME NEW A, A \subseteq Node, NEW h, NEW t, NEW f, NEW p, NEW s, Held(A, h, t, f, p, s),
         NEW h3, NEW t3, NEW r, Held(A, h3, t3, f, p, r), s # <<>>, r # <<>>,
         Foreign(s, r), NEW f2, NEW p2, Joins(A, h3, t, f, p, f2, p2)
  PROVE  Held(A, h, t3, f2, p2, JoinedTo(s, r)) /\ Len(JoinedTo(s, r)) = Len(s) + Len(r)
<1> DEFINE u == JoinedTo(s, r)
<1>1. PICK k \in Nat : k = Len(s) /\ k # 0
  BY HeldFacts
<1>2. PICK d \in Nat : d = Len(r) /\ d # 0
  BY HeldFacts
<1>3. Once(s) /\ Row(A, h, t, f, p, k, s)
  BY <1>1, HeldFacts
<1>4. Once(r) /\ Row(A, h3, t3, f, p, d, r)
  BY <1>2, HeldFacts
<1>5. /\ \A i \in 1..k : s[i] \in A
      /\ \A i, m \in 1..k : s[i] = s[m] => i = m
      /\ \A i \in 1..k : f[s[i]] = IF i = k THEN NULL ELSE s[i + 1]
      /\ \A i \in 1..k : p[s[i]] = IF i = 1 THEN NULL ELSE s[i - 1]
      /\ h = s[1] /\ t = s[k]
  BY <1>1, <1>3 DEF Once, Row
<1>6. /\ \A i \in 1..d : r[i] \in A
      /\ \A i, m \in 1..d : r[i] = r[m] => i = m
      /\ \A i \in 1..d : f[r[i]] = IF i = d THEN NULL ELSE r[i + 1]
      /\ \A i \in 1..d : p[r[i]] = IF i = 1 THEN NULL ELSE r[i - 1]
      /\ h3 = r[1] /\ t3 = r[d]
  BY <1>2, <1>4 DEF Once, Row
<1>7. /\ \A i \in 1..k, m \in 1..d : s[i] # r[m]
      /\ \A q \in A : f2[q] = IF q = t THEN h3 ELSE f[q]
      /\ \A q \in A : p2[q] = IF q = h3 THEN t ELSE p[q]
  BY <1>1, <1>2 DEF Foreign, Joins
<1>8. PICK e \in Nat : e = k + d /\ e # 0
  BY <1>1, <1>2
<1>9. DOMAIN u = 1..e /\ u = [i \in 1..e |-> u[i]] /\ Len(s) + Len(r) = e
  BY <1>1, <1>2, <1>8 DEF JoinedTo
<1>10. \A i \in 1..e : u[i] = IF i <= k THEN s[i] ELSE r[i - k]
  BY <1>1, <1>2, <1>8 DEF JoinedTo
<1> HIDE DEF u
<1>11. 1 \in 1..k /\ k \in 1..k /\ 1 \in 1..d /\ d \in 1..d
  BY <1>1, <1>2
<1>12. \A i \in 1..e : i <= k => i \in 1..k /\ u[i] = s[i]
  BY <1>8, <1>10
<1>13. \A i \in 1..d : k + i \in 1..e /\ u[k + i] = r[i] /\ k + i # 1
  <2> SUFFICES ASSUME NEW i \in 1..d PROVE k + i \in 1..e /\ u[k + i] = r[i] /\ k + i # 1
    OBVIOUS
  <2>1. k + i \in 1..e /\ ~(k + i <= k) /\ (k + i) - k = i /\ k + i # 1
    BY <1>1, <1>8
  <2> QED
    BY <1>10, <2>1
<1>14. \A i \in 1..e : i <= k \/ \E m \in 1..d : i = k + m
  <2> SUFFICES ASSUME NEW i \in 1..e, ~(i <= k) PROVE \E m \in 1..d : i = k + m
    OBVIOUS
  <2>1. i - k \in 1..d /\ i = k + (i - k)
    BY <1>8
  <2> QED
    BY <2>1
<1>15. \A i \in 1..e : u[i] \in A
  <2> SUFFICES ASSUME NEW i \in 1..e PROVE u[i] \in A
    OBVIOUS
  <2>1. CASE i <= k
    BY <1>5, <1>12, <2>1
  <2>2. CASE ~(i <= k)
    <3>1. PICK m \in 1..d : i = k + m
      BY <1>14, <2>2
    <3> QED
      BY <1>6, <1>13, <3>1
  <2> QED
    BY <2>1, <2>2
<1>16. ASSUME NEW i \in 1..e PROVE f2[u[i]] = IF i = e THEN NULL ELSE u[i + 1]
  <2>1. CASE i <= k
    <3>1. i \in 1..k /\ u[i] = s[i] /\ i # e /\ s[i] \in A
      BY <1>5, <1>2, <1>8, <1>12, <2>1
    <3>2. CASE i = k
      BY <1>5, <1>7, <1>6, <1>11, <1>13, <3>1, <3>2
    <3>3. CASE i # k
      <4>1. i + 1 \in 1..e /\ i + 1 <= k /\ s[i] # t
        BY <1>5, <1>8, <1>11, <2>1, <3>1, <3>3
      <4>2. u[i + 1] = s[i + 1]
        BY <1>12, <4>1
      <4> QED
        BY <1>5, <1>7, <3>1, <3>3, <4>1, <4>2
    <3> QED
      BY <3>2, <3>3
  <2>2. CASE ~(i <= k)
    <3>1. PICK m \in 1..d : i = k + m
      BY <1>14, <2>2
    <3>2. u[i] = r[m] /\ r[m] # t /\ r[m] \in A
      BY <1>5, <1>6, <1>7, <1>11, <1>13, <3>1
    <3>3. f2[u[i]] = IF m = d THEN NULL ELSE r[m + 1]
      BY <1>6, <1>7, <3>2
    <3>4. CASE m = d
      BY <1>8, <3>1, <3>3, <3>4
    <3>5. CASE m # d
      <4>1. m + 1 \in 1..d /\ i + 1 = k + (m + 1) /\ i # e
        BY <1>8, <3>1, <3>5
      <4> QED
        BY <1>13, <3>3, <3>5, <4>1
    <3> QED
      BY <3>4, <3>5
  <2> QED
    BY <2>1, <2>2
<1>17. ASSUME NEW i \in 1..e PROVE p2[u[i]] = IF i = 1 THEN NULL ELSE u[i - 1]
  <2>1. CASE i <= k
    <3>1. i \in 1..k /\ u[i] = s[i] /\ s[i] \in A /\ s[i] # h3
      BY <1>5, <1>6, <1>7, <1>11, <1>12, <2>1
    <3>2. i # 1 => i - 1 \in 1..e /\ i - 1 <= k
      BY <1>8, <2>1
    <3>3. i # 1 => u[i - 1] = s[i - 1]
      BY <1>12, <3>2
    <3> QED
      BY <1>5, <1>7, <3>1, <3>3
  <2>2. CASE ~(i <= k)
    <3>1. PICK m \in 1..d : i = k + m
      BY <1>14, <2>2
    <3>2. u[i] = r[m] /\ i # 1 /\ r[m] \in A
      BY <1>6, <1>13, <3>1
    <3>3. CASE m = 1
      <4>1. i - 1 = k /\ k \in 1..e /\ k <= k
        BY <1>1, <1>8, <3>1, <3>3
      <4>2. u[k] = s[k]
        BY <1>12, <4>1
      <4> QED
        BY <1>5, <1>7, <1>6, <3>2, <3>3, <4>1, <4>2
    <3>4. CASE m # 1
      <4>1. m - 1 \in 1..d /\ i - 1 = k + (m - 1)
        BY <1>1, <3>1, <3>4
      <4>2. u[i - 1] = r[m - 1]
        BY <1>13, <4>1
      <4>3. r[m] # h3
        BY <1>6, <1>11, <3>4
      <4> QED
        BY <1>6, <1>7, <3>2, <3>4, <4>2, <4>3
    <3> QED
      BY <3>3, <3>4
  <2> QED
    BY <2>1, <2>2
<1>18. h = u[1] /\ t3 = u[e]
  <2>1. 1 \in 1..e /\ 1 <= k /\ e = k + d
    BY <1>1, <1>8
  <2> QED
    BY <1>5, <1>6, <1>11, <1>12, <1>13, <2>1
<1>19. Row(A, h, t3, f2, p2, e, u)
  BY <1>8, <1>15, <1>16, <1>17, <1>18 DEF Row
<1>20. Held(A, h, t3, f2, p2, u) /\ Len(u) = e
  BY <1>9, <1>19, HeldBack
<1> QED
  BY <1>9, <1>20 DEF u

(* A listing none of whose nodes is touched.                               *)
LEMMA SameHeld ==
  ASSUME NEW A, A \subseteq Node, NEW h, NEW t, NEW f, NEW p, NEW s, Held(A, h, t, f, p, s),
         NEW B, NEW f2, NEW p2,
         \A i \in 1..Len(s) : s[i] \in B /\ f2[s[i]] = f[s[i]] /\ p2[s[i]] = p[s[i]]
  PROVE  Held(B, h, t, f2, p2, s)
<1>1. PICK k \in Nat : k = Len(s) /\ s \in Seq(Node)
  BY HeldFacts
<1>2. DOMAIN s = 1..k /\ s = [i \in 1..k |-> s[i]]
  BY <1>1, LenProperties
<1>3. Row(A, h, t, f, p, k, s)
  BY <1>1, HeldFacts
<1>4. Row(B, h, t, f2, p2, k, s)
  BY <1>1, <1>3 DEF Row
<1> QED
  BY <1>2, <1>4, HeldBack

-----------------------------------------------------------------------------
(* The listings that exist, each with its nodes, which no other has.       *)
HeldBy(l, s) == Held(alloc, head[l], tail[l], next, prev, s)
Laid(T) ==
  /\ \A l \in live : HeldBy(l, T[l])
  /\ \A l, m \in live : l # m => Foreign(T[l], T[m])
Chains == [l \in List |-> Chain(l)]

LEMMA NoMore ==
  ASSUME NEW c \in Seq(Node), Once(c)
  PROVE  Len(c) <= Most
<1>0. PICK k \in Nat : k = Len(c)
  BY LenProperties
<1>1. c \in [1..k -> Node] /\ Most \in Nat
  BY <1>0, LenProperties, MostNat
<1>2. IsFiniteSet(1..k) /\ Cardinality(1..k) = k
  <2>1. 1 \in Int /\ k \in Int
    BY <1>0
  <2>2. IsFiniteSet(1..k) /\ Cardinality(1..k) = IF 1 > k THEN 0 ELSE k - 1 + 1
    BY <2>1, FS_Interval
  <2> QED
    BY <1>0, <2>2
<1>3. ASSUME Most < k PROVE FALSE
  <2>1. IsFiniteSet(Node) /\ Cardinality(Node) < Cardinality(1..k)
    BY <1>2, <1>3, NumbersAssumption DEF Most
  <2>2. \E i, j \in 1..k : i # j /\ c[i] = c[j]
    BY <1>1, <1>2, <2>1, FS_PigeonHole
  <2> QED
    BY <1>0, <2>2 DEF Once
<1> QED
  BY <1>0, <1>1, <1>3

LEMMA HeldShaped ==
  ASSUME Memory, NEW l \in List, NEW s, HeldBy(l, s)
  PROVE  Chain(l) = s /\ Shaped(l)
<1>1. PICK k \in Nat : /\ k = Len(s) /\ s \in Seq(Node) /\ Once(s) /\ (s = <<>> <=> k = 0)
                       /\ Row(alloc, head[l], tail[l], next, prev, k, s)
  BY HeldFacts DEF HeldBy, Memory
<1>2. NULL \notin alloc
  BY NodeAssumption DEF Memory
<1>3. /\ s \in Seq(alloc) /\ Forward(next, s)
      /\ s = <<>> => head[l] = NULL /\ tail[l] = NULL
      /\ s # <<>> => head[l] = s[1] /\ tail[l] = s[k] /\ next[tail[l]] = NULL
  BY <1>1 DEF HeldBy, Held
<1>4. Whole(head[l], s)
  BY <1>1, <1>2, <1>3 DEF Whole, Joined, Forward
<1>5. Chain(l) = s
  BY <1>1, <1>4, ChainWhole, NoMore DEF ChainExact
<1>6. \A i \in 1..k : prev[s[i]] = IF i = 1 THEN NULL ELSE s[i - 1]
  BY <1>1 DEF Row
<1>7. s # <<>> => head[l] # NULL
  <2>1. s # <<>> => 1 \in 1..k
    BY <1>1
  <2> QED
    BY <1>1, <1>2, <1>3, <2>1 DEF Row
<1>8. DOMAIN s = 1..k
  BY <1>1, LenProperties
<1> QED
  BY <1>1, <1>3, <1>5, <1>6, <1>7, <1>8 DEF Shaped

LaidShaped == \A T : Laid(T) => AllShaped
LEMMA LaidIsShaped == Memory /\ live \subseteq List => LaidShaped
<1> SUFFICES ASSUME Memory, live \subseteq List, NEW T, Laid(T) PROVE AllShaped
  BY DEF LaidShaped
<1>1. \A l \in live : Chain(l) = T[l] /\ Shaped(l)
  BY HeldShaped DEF Laid
<1>2. \A l \in live : DOMAIN T[l] = 1..Len(T[l])
  BY LenProperties DEF Laid, HeldBy, Held
<1>3. ASSUME NEW l \in live, NEW m \in live, l # m PROVE Entries(l) \cap Entries(m) = {}
  <2>1. Foreign(T[l], T[m]) /\ Chain(l) = T[l] /\ Chain(m) = T[m]
    BY <1>1, <1>3 DEF Laid
  <2> QED
    BY <1>2, <2>1 DEF Entries, Foreign
<1> QED
  BY <1>1, <1>3 DEF AllShaped

LEMMA ShapedHeld ==
  ASSUME Memory, NEW l \in List, Shaped(l)
  PROVE  HeldBy(l, Chain(l)) /\ Entries(l) = { Chain(l)[i] : i \in 1..Len(Chain(l)) }
<1>1. PICK c : c = Chain(l)
  OBVIOUS
<1>2. /\ c \in Seq(alloc) /\ \A i \in 1..(Len(c) - 1) : next[c[i]] = c[i + 1]
      /\ head[l] \notin alloc => c = <<>>
      /\ head[l] \in alloc => c # <<>> /\ c[1] = head[l]
  BY <1>1, ChainLinked DEF ChainLinks, Joined
<1>3. /\ head[l] = NULL => tail[l] = NULL
      /\ head[l] # NULL => c # <<>> /\ tail[l] = c[Len(c)] /\ next[tail[l]] = NULL
      /\ \A i \in DOMAIN c : prev[c[i]] = IF i = 1 THEN NULL ELSE c[i - 1]
  BY <1>1 DEF Shaped
<1>4. DOMAIN c = 1..Len(c)
  BY <1>2, LenProperties
<1>5. Forward(next, c) /\ Backward(prev, c)
  BY <1>2, <1>3, <1>4 DEF Forward, Backward
<1>6. NULL \notin alloc
  BY NodeAssumption DEF Memory
<1>7. Held(alloc, head[l], tail[l], next, prev, c)
  BY <1>2, <1>3, <1>5, <1>6 DEF Held
<1> QED
  BY <1>1, <1>4, <1>7 DEF HeldBy, Entries

LEMMA ShapedIsLaid ==
  ASSUME Memory, live \subseteq List, AllShaped
  PROVE  Laid(Chains)
<1>1. \A l \in live : Chains[l] = Chain(l) /\ HeldBy(l, Chains[l])
  BY ShapedHeld DEF AllShaped, Chains
<1>2. ASSUME NEW l \in live, NEW m \in live, l # m PROVE Foreign(Chains[l], Chains[m])
  <2>1. /\ Entries(l) = { Chains[l][i] : i \in 1..Len(Chains[l]) }
        /\ Entries(m) = { Chains[m][i] : i \in 1..Len(Chains[m]) }
    BY <1>1, ShapedHeld DEF AllShaped
  <2>2. Entries(l) \cap Entries(m) = {}
    BY <1>2 DEF AllShaped
  <2> QED
    BY <2>1, <2>2 DEF Foreign
<1> QED
  BY <1>1, <1>2 DEF Laid

LEMMA EmptyHeld == \A A, f, p : Held(A, NULL, NULL, f, p, <<>>)
<1>1. Len(<<>>) = 0 /\ \A A : <<>> \in Seq(A)
  OBVIOUS
<1>2. \A i \in 1..(0 - 1) : FALSE
  OBVIOUS
<1>3. \A i \in 1..0 : FALSE
  OBVIOUS
<1> QED
  BY <1>1, <1>2, <1>3 DEF Held, Forward, Backward

(* What an insertion makes of the links.                                   *)
Placed(l, i, c, j) ==
  \/ i = 0 /\ j = 0
  \/ i # 0 /\ i = count[l] /\ j = Len(c)
  \/ i # 0 /\ i # count[l] /\ j \in 1..(Len(c) - 1) /\ c[j] = Listing_Node_Select(l, i)
Inserted(l, c, j, n, s) ==
  /\ Inserts(alloc, c, j, n, next, prev, s.next, s.prev)
  /\ s.head = IF j = 0 THEN n ELSE head[l]
  /\ s.tail = IF j = Len(c) THEN n ELSE tail[l]
NotLinked(l, n, s) ==
  /\ s.head = NULL /\ s.tail = NULL
  /\ \A q \in alloc : s.next[q] = next[q] /\ s.prev[q] = prev[q]

LEMMA LinkedPlace ==
  ASSUME Memory, NEW l \in List, NEW c, HeldBy(l, c), NEW i, NEW n \in Node, n \notin alloc,
         NEW s \in Linked(l, i, n)
  PROVE  \/ i = 0 /\ head[l] = NULL /\ NotLinked(l, n, s)
         \/ \E j \in 0..Len(c) : Placed(l, i, c, j) /\ Inserted(l, c, j, n, s)
         \/ /\ i # 0 /\ i # count[l]
            /\ Listing_Node_Select(l, i) \in alloc
            /\ \A j \in 1..Len(c) : c[j] # Listing_Node_Select(l, i)
<1>1. PICK k \in Nat : /\ k = Len(c) /\ c \in Seq(Node) /\ Once(c) /\ (c = <<>> <=> k = 0)
                       /\ Row(alloc, head[l], tail[l], next, prev, k, c)
  BY HeldFacts DEF HeldBy, Memory
<1>2. /\ \A j \in 1..k : c[j] \in alloc
      /\ \A j, m \in 1..k : c[j] = c[m] => j = m
      /\ \A j \in 1..k : next[c[j]] = IF j = k THEN NULL ELSE c[j + 1]
      /\ k = 0 => head[l] = NULL /\ tail[l] = NULL
      /\ k # 0 => head[l] = c[1] /\ tail[l] = c[k]
  BY <1>1 DEF Row, Once
<1>3. alloc \subseteq Node /\ NULL \notin alloc /\ next \in Links /\ prev \in Links
  BY NodeAssumption DEF Memory
<1> DEFINE fn == Fresh(n).next
           fp == Fresh(n).prev
<1>4. fn = [next EXCEPT ![n] = NULL] /\ fp = [prev EXCEPT ![n] = NULL]
  BY DEF Fresh
<1> HIDE DEF fn, fp
<1>5. CASE i = 0 /\ head[l] = NULL
  <2>1. s \in IntoEmpty(l, n)
    BY <1>5 DEF Linked
  <2>2. tail[l] = NULL
    BY <1>2, <1>3, <1>5
  <2>3. s.head = NULL /\ s.tail = NULL /\ s.next = fn /\ s.prev = fp
    BY <1>5, <2>1, <2>2 DEF IntoEmpty, fn, fp
  <2> QED
    BY <1>3, <1>4, <1>5, <2>3 DEF NotLinked, Links
<1>6. CASE i = 0 /\ head[l] # NULL
  <2>1. s \in InFront(l, n)
    BY <1>6 DEF Linked
  <2>2. k # 0 /\ 1 \in 1..k /\ head[l] = c[1] /\ c[1] \in alloc
    BY <1>2, <1>6
  <2>3. /\ s.head = n /\ s.tail = tail[l]
        /\ s.next = [fn EXCEPT ![n] = head[l]] /\ s.prev = [fp EXCEPT ![head[l]] = n]
    <3>1. s = [head |-> n, tail |-> tail[l], next |-> [fn EXCEPT ![n] = head[l]],
               prev |-> [fp EXCEPT ![head[l]] = n]]
      BY <2>1 DEF InFront, fn, fp
    <3> QED
      BY <3>1
  <2>4. /\ s.next[n] = c[1] /\ s.prev[n] = NULL
        /\ \A q \in alloc : s.next[q] = next[q] /\ s.prev[q] = IF q = c[1] THEN n ELSE prev[q]
    BY <1>3, <1>4, <2>2, <2>3 DEF Links
  <2>5. 0 + 1 = 1 /\ 0 # Len(c) /\ 0 \in 0..Len(c)
    BY <1>1, <2>2
  <2>6. Inserted(l, c, 0, n, s)
    BY <2>3, <2>4, <2>5 DEF Inserted, Inserts
  <2> QED
    BY <1>6, <2>5, <2>6 DEF Placed
<1>7. CASE i # 0 /\ i = count[l]
  <2>1. s \in AtEnd(l, n)
    BY <1>7 DEF Linked
  <2>2. k # 0 /\ k \in 1..k /\ tail[l] = c[k] /\ c[k] \in alloc
    <3>1. tail[l] \in alloc
      BY <2>1 DEF AtEnd
    <3> QED
      BY <1>1, <1>2, <1>3, <3>1
  <2>3. /\ s.head = head[l] /\ s.tail = n
        /\ s.next = [fn EXCEPT ![tail[l]] = n] /\ s.prev = [fp EXCEPT ![n] = tail[l]]
    <3>1. s = [head |-> head[l], tail |-> n, next |-> [fn EXCEPT ![tail[l]] = n],
               prev |-> [fp EXCEPT ![n] = tail[l]]]
      BY <2>1 DEF AtEnd, fn, fp
    <3> QED
      BY <3>1
  <2>4. /\ s.next[n] = NULL /\ s.prev[n] = c[k]
        /\ \A q \in alloc : s.prev[q] = prev[q] /\ s.next[q] = IF q = c[k] THEN n ELSE next[q]
    BY <1>3, <1>4, <2>2, <2>3 DEF Links
  <2>5. k # 0 /\ k = Len(c) /\ k \in 0..Len(c)
    BY <1>1, <2>2
  <2>6. Inserted(l, c, k, n, s)
    BY <2>3, <2>4, <2>5 DEF Inserted, Inserts
  <2> QED
    BY <1>7, <2>5, <2>6 DEF Placed
<1>8. CASE i # 0 /\ i # count[l]
  <2>1. PICK p : p = Listing_Node_Select(l, i)
    OBVIOUS
  <2>2. s \in After(l, n, p)
    BY <1>8, <2>1 DEF Linked
  <2>3. p \in alloc /\ next[p] \in alloc
    BY <2>2 DEF After
  <2>4. CASE \A j \in 1..k : c[j] # p
    BY <1>1, <1>8, <2>1, <2>3, <2>4
  <2>5. ASSUME NEW j \in 1..k, c[j] = p
        PROVE  \E m \in 0..Len(c) : Placed(l, i, c, m) /\ Inserted(l, c, m, n, s)
    <3>1. j # k /\ next[p] = c[j + 1] /\ c[j + 1] # c[j] /\ c[j + 1] \in alloc
      <4>1. j # k /\ next[p] = c[j + 1]
        BY <1>2, <1>3, <2>3, <2>5
      <4>2. j + 1 \in 1..k /\ j + 1 # j
        BY <4>1
      <4> QED
        BY <1>2, <4>1, <4>2
    <3>2. /\ s.head = head[l] /\ s.tail = tail[l]
          /\ s.next = [fn EXCEPT ![n] = next[p], ![p] = n]
          /\ s.prev = [fp EXCEPT ![next[p]] = n, ![n] = p]
      <4>1. s = [head |-> head[l], tail |-> tail[l], next |-> [fn EXCEPT ![n] = next[p], ![p] = n],
                 prev |-> [fp EXCEPT ![next[p]] = n, ![n] = p]]
        BY <2>2 DEF After, fn, fp
      <4> QED
        BY <4>1
    <3>3. c[j] # n /\ c[j + 1] # n /\ c[j] \in Node /\ c[j + 1] \in Node
      BY <1>3, <2>3, <2>5, <3>1
    <3>4. PICK d : d = c[j + 1]
      OBVIOUS
    <3>5. /\ s.next[n] = d /\ s.prev[n] = c[j]
          /\ \A q \in alloc : /\ s.next[q] = IF q = c[j] THEN n ELSE next[q]
                              /\ s.prev[q] = IF q = d THEN n ELSE prev[q]
      BY <1>3, <1>4, <2>3, <2>5, <3>1, <3>2, <3>3, <3>4 DEF Links
    <3>6. j # 0 /\ j # Len(c) /\ j \in 0..Len(c) /\ j \in 1..(Len(c) - 1)
      BY <1>1, <3>1
    <3>7. Inserted(l, c, j, n, s)
      BY <3>2, <3>4, <3>5, <3>6 DEF Inserted, Inserts
    <3> QED
      BY <1>8, <2>1, <2>5, <3>6, <3>7 DEF Placed
  <2> QED
    BY <2>4, <2>5
<1> QED
  BY <1>5, <1>6, <1>7, <1>8

LEMMA UnlinkedDrops ==
  ASSUME Memory, NEW l \in List, NEW x, NEW s \in Unlinked(l, x)
  PROVE  /\ x \in alloc /\ Drops(alloc, alloc \ {x}, x, next, prev, s.next, s.prev)
         /\ s.head = IF head[l] = x THEN next[x] ELSE head[l]
         /\ s.tail = IF tail[l] = x THEN prev[x] ELSE tail[l]
<1>1. x \in alloc
  BY DEF Unlinked
<1>2. alloc \subseteq Node /\ NULL \notin alloc /\ next \in Links /\ prev \in Links
  BY NodeAssumption DEF Memory
<1> DEFINE h == IF head[l] = x THEN next[x] ELSE head[l]
           t == IF tail[l] = x THEN prev[x] ELSE tail[l]
           fn == IF prev[x] = NULL THEN next ELSE [next EXCEPT ![prev[x]] = next[x]]
           fp == IF next[x] = NULL THEN prev ELSE [prev EXCEPT ![next[x]] = prev[x]]
<1>3. s = [head |-> h, tail |-> t, next |-> fn, prev |-> fp]
  BY DEF Unlinked
<1>4. \A q \in alloc \ {x} : /\ fn[q] = IF prev[x] = q THEN next[x] ELSE next[q]
                             /\ fp[q] = IF next[x] = q THEN prev[x] ELSE prev[q]
  BY <1>2 DEF Links
<1> HIDE DEF fn, fp
<1>5. s.head = h /\ s.tail = t /\ s.next = fn /\ s.prev = fp
  BY <1>3
<1> QED
  BY <1>1, <1>4, <1>5 DEF Drops

(* An operation that has to do with the nodes of l, and with new ones.     *)
Within(l) ==
  /\ live' = live
  /\ \A m \in List \ {l} : head'[m] = head[m] /\ tail'[m] = tail[m]
  /\ \A q \in alloc \ Entries(l) : q \in alloc' /\ next'[q] = next[q] /\ prev'[q] = prev[q]

LEMMA Rebuilt ==
  ASSUME Memory, live \subseteq List, AllShaped, LaidShaped', NEW l \in live, Within(l), NEW t,
         HeldBy(l, t)', \A i \in 1..Len(t) : t[i] \in Entries(l) \/ t[i] \notin alloc
  PROVE  AllShaped'
<1>1. PICK C : C = Chains /\ Laid(Chains)
  BY ShapedIsLaid
<1>2. /\ \A m \in live : HeldBy(m, C[m])
      /\ \A m, o \in live : m # o => Foreign(C[m], C[o])
  BY <1>1 DEF Laid
<1>3. \A m \in live : Chain(m) = C[m] /\ Shaped(m)
  BY <1>1 DEF Chains, AllShaped
<1>4. \A m \in live : \A i \in 1..Len(C[m]) : C[m][i] \in Entries(m) /\ C[m][i] \in alloc
  <2> SUFFICES ASSUME NEW m \in live, NEW i \in 1..Len(C[m])
               PROVE  C[m][i] \in Entries(m) /\ C[m][i] \in alloc
    OBVIOUS
  <2>1. Row(alloc, head[m], tail[m], next, prev, Len(C[m]), C[m])
    BY <1>2, HeldFacts DEF HeldBy, Memory
  <2>2. Entries(m) = { Chain(m)[k] : k \in 1..Len(Chain(m)) }
    BY <1>3, ShapedHeld
  <2> QED
    BY <1>3, <2>1, <2>2 DEF Row
<1>5. \A m \in live : m # l => Entries(m) \cap Entries(l) = {}
  BY DEF AllShaped
<1>6. PICK T : \A m \in live : T[m] = IF m = l THEN t ELSE C[m]
  <2> DEFINE U == [m \in live |-> IF m = l THEN t ELSE C[m]]
  <2>1. \A m \in live : U[m] = IF m = l THEN t ELSE C[m]
    OBVIOUS
  <2> QED
    BY <2>1
<1>7. ASSUME NEW m \in live PROVE HeldBy(m, T[m])'
  <2>1. CASE m = l
    BY <1>6, <2>1
  <2>2. CASE m # l
    <3>1. Held(alloc, head[m], tail[m], next, prev, C[m])
      BY <1>2 DEF HeldBy
    <3>2. \A i \in 1..Len(C[m]) : /\ C[m][i] \in alloc' /\ next'[C[m][i]] = next[C[m][i]]
                                  /\ prev'[C[m][i]] = prev[C[m][i]]
      BY <1>4, <1>5, <2>2 DEF Within
    <3>3. Held(alloc', head[m], tail[m], next', prev', C[m])
      <4>1. alloc \subseteq Node
        BY DEF Memory
      <4>2. PICK s : s = C[m]
        OBVIOUS
      <4>3. /\ Held(alloc, head[m], tail[m], next, prev, s)
            /\ \A i \in 1..Len(s) : /\ s[i] \in alloc' /\ next'[s[i]] = next[s[i]]
                                     /\ prev'[s[i]] = prev[s[i]]
        BY <3>1, <3>2, <4>2
      <4>4. Held(alloc', head[m], tail[m], next', prev', s)
        BY <4>1, <4>3, SameHeld
      <4> QED
        BY <4>2, <4>4
    <3>4. head'[m] = head[m] /\ tail'[m] = tail[m] /\ T[m] = C[m]
      BY <1>6, <2>2 DEF Within
    <3> QED
      BY <3>3, <3>4 DEF HeldBy
  <2> QED
    BY <2>1, <2>2
<1>8. ASSUME NEW m \in live, m # l PROVE Foreign(t, C[m]) /\ Foreign(C[m], t)
  BY <1>4, <1>5, <1>8 DEF Foreign
<1>9. ASSUME NEW m \in live, NEW o \in live, m # o PROVE Foreign(T[m], T[o])
  BY <1>2, <1>6, <1>8, <1>9
<1>10. live' = live
  BY DEF Within
<1>11. Laid(T)'
  BY <1>7, <1>9, <1>10 DEF Laid
<1> QED
  BY <1>11 DEF LaidShaped

LEMMA Untouched ==
  ASSUME Memory, live \subseteq List, AllShaped, LaidShaped', live' \subseteq live,
         UNCHANGED <<head, tail, alloc, next, prev>>
  PROVE  AllShaped'
<1>1. PICK C : C = Chains /\ Laid(Chains)
  BY ShapedIsLaid
<1>2. \A m \in live : HeldBy(m, C[m])'
  BY <1>1 DEF Laid, HeldBy
<1>3. Laid(C)'
  BY <1>1, <1>2 DEF Laid
<1> QED
  BY <1>3 DEF LaidShaped

(* What a listing has that is among Entries. *)
LEMMA EntriesHeld ==
  ASSUME Memory, NEW l \in live, live \subseteq List, AllShaped
  PROVE  \E c : /\ c = Chain(l) /\ HeldBy(l, c) /\ Entries(l) \subseteq alloc
                /\ \A i \in 1..Len(c) : c[i] \in Entries(l)
                /\ \A q \in Entries(l) : \E i \in 1..Len(c) : c[i] = q
<1>1. PICK c : c = Chain(l)
  OBVIOUS
<1>2. HeldBy(l, c) /\ Entries(l) = { c[i] : i \in 1..Len(c) }
  BY <1>1, ShapedHeld DEF AllShaped
<1>3. Row(alloc, head[l], tail[l], next, prev, Len(c), c)
  BY <1>2, HeldFacts DEF HeldBy, Memory
<1> QED
  BY <1>1, <1>2, <1>3 DEF Row

LEMMA InsertShaped ==
  ASSUME Memory, live \subseteq List, AllShaped, LaidShaped', UNCHANGED live,
         NEW l \in live, NEW i \in Nat, NEW x \in Data, InsertNode(l, i, x)
  PROVE  AllShaped' \/ Strays
<1>1. CASE UNCHANGED <<header, memory>>
  BY <1>1, Untouched DEF header, memory
<1>2. ASSUME NEW n \in Lowest(1), NEW s \in Linked(l, i, n), i <= count[l],
             Relink(l, s), alloc' = alloc \cup {n}
      PROVE  AllShaped' \/ Strays
  <2>1. PICK c : /\ c = Chain(l) /\ HeldBy(l, c) /\ Entries(l) \subseteq alloc
                 /\ \A m \in 1..Len(c) : c[m] \in Entries(l)
                 /\ \A q \in Entries(l) : \E m \in 1..Len(c) : c[m] = q
    BY EntriesHeld
  <2>2. n \in Node /\ n \notin alloc /\ l \in List /\ count[l] \in Nat
    BY DEF Lowest, FreeNodes, Memory
  <2>3. /\ head' = [head EXCEPT ![l] = s.head] /\ tail' = [tail EXCEPT ![l] = s.tail]
        /\ next' = s.next /\ prev' = s.prev
    BY <1>2 DEF Relink
  <2>4. /\ head'[l] = s.head /\ tail'[l] = s.tail
        /\ \A m \in List \ {l} : head'[m] = head[m] /\ tail'[m] = tail[m]
    BY <2>2, <2>3 DEF Memory
  <2>5. CASE NotLinked(l, n, s)
    <3>1. Within(l)
      BY <1>2, <2>3, <2>4, <2>5 DEF Within, NotLinked
    <3>2. PICK t : t = <<>>
      OBVIOUS
    <3>3. Held(alloc', head'[l], tail'[l], next', prev', t)
      BY <2>4, <2>5, <3>2, EmptyHeld DEF NotLinked
    <3>4. \A m \in 1..Len(t) : FALSE
      BY <3>2
    <3>5. HeldBy(l, t)'
      BY <3>3 DEF HeldBy
    <3> QED
      BY <3>1, <3>4, <3>5, Rebuilt
  <2>6. ASSUME NEW j \in 0..Len(c), Inserted(l, c, j, n, s) PROVE AllShaped'
    <3>1. PICK k \in Nat : k = Len(c)
      BY <2>1, HeldFacts DEF HeldBy, Memory
    <3>2. PICK t : t = InsertedAt(c, j, n)
      OBVIOUS
    <3>3. Inserts(alloc, c, j, n, next, prev, next', prev')
      BY <2>3, <2>6 DEF Inserted
    <3>4. /\ Held(alloc', IF j = 0 THEN n ELSE head[l], IF j = Len(c) THEN n ELSE tail[l], next', prev', t)
          /\ Len(t) = k + 1
      <4>1. Held(alloc, head[l], tail[l], next, prev, c) /\ alloc \subseteq Node
        BY <2>1 DEF HeldBy, Memory
      <4>2. HeldWith(alloc, head[l], tail[l], c, j, n, next', prev')
        BY <2>6, <3>3, <4>1, InsertHeld
      <4> QED
        BY <1>2, <3>1, <3>2, <4>2 DEF HeldWith
    <3>5. HeldBy(l, t)'
      BY <2>4, <2>6, <3>4 DEF HeldBy, Inserted
    <3>6. \A m \in 1..Len(t) : t[m] \in Entries(l) \/ t[m] \notin alloc
      <4> SUFFICES ASSUME NEW m \in 1..(k + 1) PROVE t[m] \in Entries(l) \/ t[m] \notin alloc
        BY <3>4
      <4>1. t[m] = IF m <= j THEN c[m] ELSE IF m = j + 1 THEN n ELSE c[m - 1]
        BY <3>1, <3>2 DEF InsertedAt
      <4>2. (m <= j => m \in 1..k) /\ (~(m <= j) /\ m # j + 1 => m - 1 \in 1..k)
        BY <3>1
      <4> QED
        BY <2>1, <2>2, <3>1, <4>1, <4>2
    <3>7. Within(l)
      <4>1. ASSUME NEW q \in alloc \ Entries(l) PROVE next'[q] = next[q] /\ prev'[q] = prev[q]
        <5>1. j # 0 => j \in 1..k
          BY <3>1
        <5>2. j # Len(c) => j + 1 \in 1..k
          BY <3>1
        <5>3. \A m \in 1..k : c[m] # q
          BY <2>1, <3>1, <4>1
        <5> QED
          BY <3>3, <4>1, <5>1, <5>2, <5>3 DEF Inserts
      <4> QED
        BY <1>2, <2>4, <4>1 DEF Within
    <3> QED
      BY <3>5, <3>6, <3>7, Rebuilt
  <2>7. CASE /\ i # 0 /\ i # count[l]
             /\ Listing_Node_Select(l, i) \in alloc
             /\ \A j \in 1..Len(c) : c[j] # Listing_Node_Select(l, i)
    <3>1. i \in 1..(count[l] - 1)
      BY <1>2, <2>2, <2>7
    <3>2. Listing_Node_Select(l, i) \notin Entries(l)
      BY <2>1, <2>7
    <3>3. \E y \in Data : InsertNode(l, i, y)
      OBVIOUS
    <3> QED
      BY <3>1, <3>2, <3>3 DEF Strays
  <2> QED
    BY <2>1, <2>2, <2>5, <2>6, <2>7, LinkedPlace
<1>3. \/ UNCHANGED <<header, memory>>
      \/ /\ i <= count[l]
         /\ \E n \in Lowest(1) : \E s \in Linked(l, i, n) : Relink(l, s) /\ alloc' = alloc \cup {n}
  BY DEF InsertNode
<1> QED
  BY <1>1, <1>2, <1>3

LEMMA RemoveShaped ==
  ASSUME Memory, live \subseteq List, AllShaped, LaidShaped', UNCHANGED live,
         NEW l \in live, NEW i \in Nat, RemoveNode(l, i)
  PROVE  AllShaped' \/ Strays
<1>1. CASE UNCHANGED <<header, memory>>
  BY <1>1, Untouched DEF header, memory
<1>2. ASSUME NEW x \in Target(l, i), NEW s \in Unlinked(l, x), i < count[l],
             Relink(l, s), alloc' = alloc \ {x}
      PROVE  AllShaped' \/ Strays
  <2>1. PICK c : /\ c = Chain(l) /\ HeldBy(l, c) /\ Entries(l) \subseteq alloc
                 /\ \A m \in 1..Len(c) : c[m] \in Entries(l)
                 /\ \A q \in Entries(l) : \E m \in 1..Len(c) : c[m] = q
    BY EntriesHeld
  <2>2. l \in List /\ count[l] \in Nat
    BY DEF Memory
  <2>3. /\ head' = [head EXCEPT ![l] = s.head] /\ tail' = [tail EXCEPT ![l] = s.tail]
        /\ next' = s.next /\ prev' = s.prev
    BY <1>2 DEF Relink
  <2>4. /\ head'[l] = s.head /\ tail'[l] = s.tail
        /\ \A m \in List \ {l} : head'[m] = head[m] /\ tail'[m] = tail[m]
    BY <2>2, <2>3 DEF Memory
  <2>5. /\ x \in alloc /\ Drops(alloc, alloc', x, next, prev, next', prev')
        /\ s.head = IF head[l] = x THEN next[x] ELSE head[l]
        /\ s.tail = IF tail[l] = x THEN prev[x] ELSE tail[l]
    BY <1>2, <2>2, <2>3, UnlinkedDrops
  <2>6. PICK k \in Nat : /\ k = Len(c) /\ (c = <<>> <=> k = 0)
                         /\ Row(alloc, head[l], tail[l], next, prev, k, c)
    BY <2>1, HeldFacts DEF HeldBy, Memory
  <2>7. CASE x \in Entries(l)
    <3>1. PICK j \in 1..k : c[j] = x
      BY <2>1, <2>6, <2>7
    <3>2. PICK t : t = DroppedAt(c, j)
      OBVIOUS
    <3>3. Held(alloc', s.head, s.tail, next', prev', t) /\ Len(t) = k - 1
      <4>1. Held(alloc, head[l], tail[l], next, prev, c) /\ alloc \subseteq Node
        BY <2>1 DEF HeldBy, Memory
      <4>2. j \in 1..Len(c) /\ Drops(alloc, alloc', c[j], next, prev, next', prev')
        BY <2>5, <2>6, <3>1
      <4>3. HeldWithout(alloc', head[l], tail[l], next, prev, c, j, next', prev')
        BY <4>1, <4>2, DropHeld
      <4> QED
        BY <2>5, <2>6, <3>1, <3>2, <4>3 DEF HeldWithout
    <3>4. HeldBy(l, t)'
      BY <2>4, <3>3 DEF HeldBy
    <3>5. \A m \in 1..Len(t) : t[m] \in Entries(l)
      <4> SUFFICES ASSUME NEW m \in 1..(k - 1) PROVE t[m] \in Entries(l)
        BY <3>3
      <4>1. t[m] = IF m < j THEN c[m] ELSE c[m + 1]
        BY <2>6, <3>2 DEF DroppedAt
      <4>2. m \in 1..k /\ m + 1 \in 1..k
        BY <2>6
      <4> QED
        BY <2>1, <2>6, <4>1, <4>2
    <3>6. ASSUME NEW q \in alloc \ Entries(l)
          PROVE  q \in alloc' /\ next'[q] = next[q] /\ prev'[q] = prev[q]
      <4>1. next[x] # q /\ prev[x] # q
        <5>1. \A m \in 1..k : c[m] # q
          BY <2>1, <2>6, <3>6
        <5>2. q # NULL
          BY NodeAssumption DEF Memory
        <5>3. /\ next[x] = IF j = k THEN NULL ELSE c[j + 1]
              /\ prev[x] = IF j = 1 THEN NULL ELSE c[j - 1]
          BY <2>6, <3>1 DEF Row
        <5>4. (j # k => j + 1 \in 1..k) /\ (j # 1 => j - 1 \in 1..k)
          BY <2>6
        <5> QED
          BY <5>1, <5>2, <5>3, <5>4
      <4> QED
        BY <2>5, <2>7, <3>6, <4>1 DEF Drops
    <3>7. Within(l)
      BY <2>4, <3>6 DEF Within
    <3> QED
      BY <3>4, <3>5, <3>7, Rebuilt
  <2>8. CASE x \notin Entries(l)
    <3>1. i # 0
      <4> SUFFICES ASSUME i = 0 PROVE FALSE
        OBVIOUS
      <4>1. x = head[l] /\ x # NULL
        BY <2>5, NodeAssumption DEF Target, Memory
      <4>2. k # 0 /\ head[l] = c[1] /\ 1 \in 1..k
        BY <2>6, <4>1 DEF Row
      <4> QED
        BY <2>1, <2>6, <2>8, <4>1, <4>2
    <3>2. i \in 1..(count[l] - 1)
      BY <1>2, <2>2, <3>1
    <3>3. ~(alloc \ alloc' \subseteq Entries(l))
      BY <1>2, <2>5, <2>8
    <3> QED
      BY <3>2, <3>3 DEF Strays
  <2> QED
    BY <2>7, <2>8
<1>3. \/ UNCHANGED <<header, memory>>
      \/ /\ i < count[l]
         /\ \E x \in Target(l, i) : \E s \in Unlinked(l, x) : Relink(l, s) /\ alloc' = alloc \ {x}
  BY DEF RemoveNode
<1> QED
  BY <1>1, <1>2, <1>3

(* While it is sorted, a listing keeps its nodes E, and the place where    *)
(* the sort is is one of them.                                             *)
SortedAs(E, s, c) ==
  /\ Held(alloc, s.head, s.tail, s.next, s.prev, c)
  /\ \A i \in 1..Len(c) : c[i] \in E
  /\ s.cur \in alloc => \E i \in 1..Len(c) : c[i] = s.cur
  /\ \A q \in alloc \ E : s.next[q] = next[q] /\ s.prev[q] = prev[q]
Sorting(E, s) == \E c : SortedAs(E, s, c)

LEMMA TurnHeld ==
  ASSUME Memory, NEW E, NEW l \in List, NEW s \in SortState, Sorting(E, s),
         NEW t \in AfterTurn(l, s)
  PROVE  Sorting(E, t)
<1>1. PICK c : SortedAs(E, s, c)
  BY DEF Sorting
<1>2. alloc \subseteq Node /\ NULL \notin alloc /\ s.left # 0 /\ s.next \in Links /\ s.prev \in Links
  BY NodeAssumption DEF Memory, AfterTurn, SortState
<1>3. PICK k \in Nat : /\ k = Len(c) /\ Once(c)
                       /\ Row(alloc, s.head, s.tail, s.next, s.prev, k, c)
  BY <1>1, <1>2, HeldFacts DEF SortedAs
<1>4. s.head \in alloc => \E i \in 1..k : c[i] = s.head
  <2>1. k # 0 => 1 \in 1..k
    OBVIOUS
  <2> QED
    BY <1>2, <1>3, <2>1 DEF Row
<1>5. CASE t = Again(s)
  <2>1. t.cur = s.head /\ t.head = s.head /\ t.tail = s.tail /\ t.next = s.next /\ t.prev = s.prev
    BY <1>2, <1>5, AgainFacts
  <2>2. SortedAs(E, t, c)
    BY <1>1, <1>3, <1>4, <2>1 DEF SortedAs
  <2> QED
    BY <2>2 DEF Sorting
<1>6. ASSUME s.cur \in alloc PROVE \E j \in 1..k : c[j] = s.cur
  BY <1>1, <1>3, <1>6 DEF SortedAs
<1>7. CASE t = Onto(s) /\ s.cur \in alloc
  <2>1. PICK j \in 1..k : c[j] = s.cur
    BY <1>6, <1>7
  <2>2. t.cur = s.next[s.cur] /\ t.head = s.head /\ t.tail = s.tail /\ t.next = s.next /\ t.prev = s.prev
    BY <1>2, <1>7, OntoFacts
  <2>3. s.next[c[j]] = IF j = k THEN NULL ELSE c[j + 1]
    BY <1>3 DEF Row
  <2>4. j # k => j + 1 \in 1..k
    OBVIOUS
  <2>5. t.cur \in alloc => \E i \in 1..k : c[i] = t.cur
    BY <1>2, <2>1, <2>2, <2>3, <2>4
  <2> QED
    BY <1>1, <1>3, <2>2, <2>5 DEF SortedAs, Sorting
<1>8. CASE /\ t = Exchanged(s) /\ s.cur \in alloc /\ s.next[s.cur] \in alloc
           /\ s.prev[s.cur] \in alloc /\ s.next[s.next[s.cur]] \in alloc
  <2>1. PICK j \in 1..k : c[j] = s.cur
    BY <1>6, <1>8
  <2>2. /\ \A i \in 1..k : c[i] \in alloc
        /\ \A i, m \in 1..k : c[i] = c[m] => i = m
        /\ \A i \in 1..k : s.next[c[i]] = IF i = k THEN NULL ELSE c[i + 1]
        /\ \A i \in 1..k : s.prev[c[i]] = IF i = 1 THEN NULL ELSE c[i - 1]
        /\ k # 0 => s.head = c[1] /\ s.tail = c[k]
    BY <1>3 DEF Row, Once
  <2>3. j # k /\ s.next[s.cur] = c[j + 1]
    BY <1>2, <1>8, <2>1, <2>2
  <2>4. j # 1 /\ s.prev[s.cur] = c[j - 1]
    BY <1>2, <1>8, <2>1, <2>2
  <2>5. j + 1 \in 1..k /\ j - 1 \in 1..k
    BY <2>3, <2>4
  <2>6. j + 1 # k /\ s.next[c[j + 1]] = c[(j + 1) + 1]
    BY <1>2, <1>8, <2>2, <2>3, <2>5
  <2>7. (j + 1) + 1 = j + 2 /\ j + 2 \in 1..k /\ j \in 2..(k - 2) /\ 1 \in 1..k /\ k \in 1..k /\ j + 1 # 1
    BY <2>3, <2>4, <2>5, <2>6
  <2>8. PICK a \in alloc, b \in alloc, z \in alloc, y \in alloc :
          a = c[j] /\ b = c[j + 1] /\ z = c[j - 1] /\ y = c[j + 2]
    BY <2>2, <2>5, <2>7
  <2>9. s.cur = a /\ s.next[a] = b /\ s.prev[a] = z /\ s.next[b] = y /\ s.prev[b] = a
    <3>1. (j + 1) - 1 = j
      OBVIOUS
    <3> QED
      BY <2>1, <2>2, <2>3, <2>4, <2>5, <2>6, <2>7, <2>8, <3>1
  <2>10. /\ t.next = SwapNext(s, a, b) /\ t.prev = SwapPrev(s, a, b) /\ t.cur = a
         /\ t.head = (IF a = s.head THEN b ELSE s.head)
         /\ t.tail = (IF b = s.tail THEN a ELSE s.tail)
    BY <1>2, <1>8, <2>9, ExchangedFacts
  <2>11. t.head = s.head /\ t.tail = s.tail
    BY <2>2, <2>4, <2>5, <2>6, <2>7, <2>8, <2>10
  <2>12. a \in Node /\ b \in Node /\ z \in Node /\ y \in Node
    BY <1>2
  <2>13. \A q \in alloc :
           /\ t.next[q] = IF q = z THEN b ELSE IF q = b THEN a ELSE IF q = a THEN y ELSE s.next[q]
           /\ t.prev[q] = IF q = y THEN a ELSE IF q = a THEN b ELSE IF q = b THEN z ELSE s.prev[q]
    BY <1>2, <2>9, <2>10, <2>12 DEF SwapNext, SwapPrev, Links
  <2>14. Swaps(alloc, c, j, s.next, s.prev, t.next, t.prev)
    BY <2>8, <2>13 DEF Swaps
  <2>15. PICK u : u = SwappedAt(c, j)
    OBVIOUS
  <2>16. Held(alloc, s.head, s.tail, t.next, t.prev, u) /\ Len(u) = k
    <3>1. j \in 2..(Len(c) - 2) /\ Held(alloc, s.head, s.tail, s.next, s.prev, c)
      BY <1>1, <1>3, <2>7 DEF SortedAs
    <3>2. PICK h, v, f, p, f2, p2 : /\ h = s.head /\ v = s.tail /\ f = s.next /\ p = s.prev
                                    /\ f2 = t.next /\ p2 = t.prev
      OBVIOUS
    <3>3. Held(alloc, h, v, f, p, c) /\ Swaps(alloc, c, j, f, p, f2, p2)
      BY <2>14, <3>1, <3>2
    <3>4. Held(alloc, h, v, f2, p2, SwappedAt(c, j)) /\ Len(SwappedAt(c, j)) = Len(c)
      BY <1>2, <3>1, <3>3, SwapHeld
    <3> QED
      BY <1>3, <2>15, <3>2, <3>4
  <2>17. \A i \in 1..k : u[i] = IF i = j THEN b ELSE IF i = j + 1 THEN a ELSE c[i]
    BY <1>3, <2>8, <2>15 DEF SwappedAt
  <2>18. /\ \A i \in 1..k : u[i] \in E
         /\ u[j + 1] = a /\ j + 1 \in 1..k
         /\ a \in E /\ b \in E /\ z \in E /\ y \in E
    <3>1. \A i \in 1..k : c[i] \in E
      BY <1>1, <1>3 DEF SortedAs
    <3>2. a \in E /\ b \in E /\ z \in E /\ y \in E
      BY <2>5, <2>7, <2>8, <3>1
    <3>3. j + 1 # j
      OBVIOUS
    <3> QED
      BY <2>5, <2>17, <3>1, <3>2, <3>3
  <2>19. \A q \in alloc \ E : t.next[q] = next[q] /\ t.prev[q] = prev[q]
    BY <1>1, <2>13, <2>18 DEF SortedAs
  <2> QED
    BY <2>10, <2>11, <2>16, <2>18, <2>19 DEF SortedAs, Sorting
<1>9. \/ t = Again(s)
      \/ t = Onto(s) /\ s.cur \in alloc
      \/ /\ t = Exchanged(s) /\ s.cur \in alloc /\ s.next[s.cur] \in alloc
         /\ s.prev[s.cur] \in alloc /\ s.next[s.next[s.cur]] \in alloc
  BY DEF AfterTurn
<1> QED
  BY <1>5, <1>7, <1>8, <1>9

LEMMA SortShaped ==
  ASSUME Memory, live \subseteq List, AllShaped, LaidShaped', NEW l \in live, Listing_Sort(l)
  PROVE  AllShaped'
<1>1. CASE UNCHANGED <<live, header, memory>>
  BY <1>1, Untouched DEF header, memory
<1>2. ASSUME NEW s \in SortLoop(l), Relink(l, s), UNCHANGED <<live, alloc>>
      PROVE  AllShaped'
  <2>1. PICK E : E = Entries(l)
    OBVIOUS
  <2>2. l \in List /\ alloc \subseteq Node
    BY DEF Memory
  <2>3. PICK c : /\ HeldBy(l, c) /\ E \subseteq alloc
                 /\ \A i \in 1..Len(c) : c[i] \in E
    BY <2>1, EntriesHeld
  <2>4. Row(alloc, head[l], tail[l], next, prev, Len(c), c) /\ Len(c) \in Nat
    BY <2>2, <2>3, HeldFacts DEF HeldBy
  <2>5. head[l] \in alloc => \E i \in 1..Len(c) : c[i] = head[l]
    <3>1. Len(c) # 0 => 1 \in 1..Len(c)
      BY <2>4
    <3>2. NULL \notin alloc
      BY <2>2, NodeAssumption
    <3> QED
      BY <2>4, <3>1, <3>2 DEF Row
  <2>6. /\ Start(l).head = head[l] /\ Start(l).tail = tail[l] /\ Start(l).next = next
        /\ Start(l).prev = prev /\ Start(l).cur = head[l]
    BY DEF Start
  <2>7. SortedAs(E, Start(l), c)
    BY <2>3, <2>5, <2>6 DEF SortedAs, HeldBy
  <2> DEFINE I == { r \in SortState : Sorting(E, r) }
  <2>8. Start(l) \in I
    BY <2>2, <2>7, StartTyped DEF Sorting
  <2>9. \A r \in I : AfterTurn(l, r) \subseteq I
    BY <2>2, TurnHeld, AfterTurnFacts
  <2>10. I \subseteq SortState
    OBVIOUS
  <2> HIDE DEF I
  <2>11. s \in I
    BY <1>2, <2>2, <2>8, <2>9, <2>10, SortKeeps
  <2>12. PICK t : SortedAs(E, s, t)
    BY <2>11 DEF I, Sorting
  <2>13. /\ head' = [head EXCEPT ![l] = s.head] /\ tail' = [tail EXCEPT ![l] = s.tail]
         /\ next' = s.next /\ prev' = s.prev
    BY <1>2 DEF Relink
  <2>14. /\ head'[l] = s.head /\ tail'[l] = s.tail
         /\ \A m \in List \ {l} : head'[m] = head[m] /\ tail'[m] = tail[m]
    BY <2>2, <2>13 DEF Memory
  <2>15. HeldBy(l, t)'
    BY <1>2, <2>12, <2>13, <2>14 DEF HeldBy, SortedAs
  <2>16. Within(l)
    BY <1>2, <2>1, <2>12, <2>13, <2>14 DEF Within, SortedAs
  <2>17. \A i \in 1..Len(t) : t[i] \in Entries(l)
    BY <2>1, <2>12 DEF SortedAs
  <2> QED
    BY <2>15, <2>16, <2>17, Rebuilt
<1>3. \/ UNCHANGED <<live, header, memory>>
      \/ \E s \in SortLoop(l) : Relink(l, s) /\ UNCHANGED <<live, alloc>>
  <2> DEFINE ends == SortLoop(l)
  <2> HIDE DEF ends
  <2> QED
    BY DEF Listing_Sort, Stops, ends
<1> QED
  BY <1>1, <1>2, <1>3

LEMMA FirstAndLast ==
  ASSUME Memory, NEW l \in live, live \subseteq List, AllShaped
  PROVE  /\ head[l] \in alloc => head[l] \in Entries(l)
         /\ tail[l] \in alloc => tail[l] \in Entries(l)
<1>1. PICK c : /\ HeldBy(l, c) /\ \A i \in 1..Len(c) : c[i] \in Entries(l)
  BY EntriesHeld
<1>2. PICK k \in Nat : k = Len(c) /\ Row(alloc, head[l], tail[l], next, prev, k, c)
  BY <1>1, HeldFacts DEF HeldBy, Memory
<1>3. k # 0 => 1 \in 1..k /\ k \in 1..k
  OBVIOUS
<1>4. NULL \notin alloc
  BY NodeAssumption DEF Memory
<1> QED
  BY <1>1, <1>2, <1>3, <1>4 DEF Row

LEMMA MergeShaped ==
  ASSUME Memory, live \subseteq List, AllShaped, LaidShaped', NEW dest \in live, NEW orig \in live,
         Listing_Merge(dest, orig)
  PROVE  AllShaped'
<1>1. CASE UNCHANGED <<live, header, memory>>
  BY <1>1, Untouched DEF header, memory
<1>2. CASE /\ tail[dest] \in alloc /\ head[orig] \in alloc
           /\ next' = [next EXCEPT ![tail[dest]] = head[orig]]
           /\ prev' = [prev EXCEPT ![head[orig]] = tail[dest]]
           /\ head' = [head EXCEPT ![orig] = NULL]
           /\ tail' = [tail EXCEPT ![dest] = tail[orig], ![orig] = NULL]
           /\ UNCHANGED <<live, alloc>>
  <2>0. /\ dest \in List /\ orig \in List /\ alloc \subseteq Node /\ NULL \notin alloc
        /\ next \in Links /\ prev \in Links
        /\ head \in [List -> NodePtr] /\ tail \in [List -> NodePtr]
    BY NodeAssumption DEF Memory
  <2>1. tail[dest] \in Entries(dest) /\ head[orig] \in Entries(orig)
    BY <1>2, FirstAndLast
  <2>2. PICK h, z : h = head[orig] /\ z = tail[dest]
    OBVIOUS
  <2>3. \A q \in alloc : /\ next'[q] = IF q = z THEN h ELSE next[q]
                         /\ prev'[q] = IF q = h THEN z ELSE prev[q]
    BY <1>2, <2>0, <2>2 DEF Links
  <2>4. head'[orig] = NULL /\ tail'[orig] = NULL
    BY <1>2, <2>0
  <2>5. \A m \in List : /\ m # orig => head'[m] = head[m]
                        /\ m # orig /\ m # dest => tail'[m] = tail[m]
    BY <1>2, <2>0
  <2>6. CASE dest = orig
    <3>1. Within(orig)
      BY <1>2, <2>1, <2>2, <2>3, <2>5, <2>6 DEF Within
    <3>2. PICK t : t = <<>>
      OBVIOUS
    <3>3. HeldBy(orig, t)'
      BY <2>4, <3>2, EmptyHeld DEF HeldBy
    <3>4. \A i \in 1..Len(t) : FALSE
      BY <3>2
    <3> QED
      BY <3>1, <3>3, <3>4, Rebuilt
  <2>7. CASE dest # orig
    <3>1. PICK C : C = Chains /\ Laid(Chains)
      BY ShapedIsLaid
    <3>2. /\ \A m \in live : HeldBy(m, C[m])
          /\ \A m, o \in live : m # o => Foreign(C[m], C[o])
      BY <3>1 DEF Laid
    <3>3. \A m \in live : Held(alloc, head[m], tail[m], next, prev, C[m])
      BY <3>2 DEF HeldBy
    <3>4. PICK s, r : s = C[dest] /\ r = C[orig]
      OBVIOUS
    <3>5. Held(alloc, head[dest], z, next, prev, s) /\ Held(alloc, h, tail[orig], next, prev, r)
      BY <2>2, <3>3, <3>4
    <3>6. PICK a \in Nat, b \in Nat :
            /\ a = Len(s) /\ b = Len(r) /\ (s = <<>> <=> a = 0) /\ (r = <<>> <=> b = 0)
            /\ Row(alloc, head[dest], z, next, prev, a, s)
            /\ Row(alloc, h, tail[orig], next, prev, b, r)
      BY <2>0, <3>5, HeldFacts
    <3>7. /\ s # <<>> /\ r # <<>> /\ a \in 1..a /\ 1 \in 1..b /\ z = s[a] /\ h = r[1]
          /\ z \in alloc /\ h \in alloc
      BY <1>2, <2>0, <2>2, <3>6 DEF Row
    <3>8. Foreign(s, r)
      BY <2>7, <3>2, <3>4
    <3>9. Joins(alloc, h, z, next, prev, next', prev')
      BY <2>3 DEF Joins
    <3>10. PICK hd, tl : hd = head[dest] /\ tl = tail[orig]
      OBVIOUS
    <3>11. PICK f, p, f2, p2 : f = next /\ p = prev /\ f2 = next' /\ p2 = prev'
      OBVIOUS
    <3>12. /\ Held(alloc, hd, z, f, p, s) /\ Held(alloc, h, tl, f, p, r)
           /\ Joins(alloc, h, z, f, p, f2, p2)
      BY <3>5, <3>9, <3>10, <3>11
    <3>13. Held(alloc, hd, tl, f2, p2, JoinedTo(s, r)) /\ Len(JoinedTo(s, r)) = Len(s) + Len(r)
      BY <2>0, <3>7, <3>8, <3>12, JoinHeld
    <3>14. PICK t : t = JoinedTo(s, r)
      OBVIOUS
    <3>15. tail'[dest] = tl /\ head'[dest] = hd
      BY <1>2, <2>0, <2>7, <3>10
    <3>16. HeldBy(dest, t)'
      BY <1>2, <3>11, <3>13, <3>14, <3>15 DEF HeldBy
    <3>17. PICK e : e = <<>>
      OBVIOUS
    <3>18. HeldBy(orig, e)' /\ Len(e) = 0
      BY <2>4, <3>17, EmptyHeld DEF HeldBy
    <3>19. PICK T : \A m \in live : T[m] = IF m = dest THEN t ELSE IF m = orig THEN e ELSE C[m]
      <4> DEFINE U == [m \in live |-> IF m = dest THEN t ELSE IF m = orig THEN e ELSE C[m]]
      <4>1. \A m \in live : U[m] = IF m = dest THEN t ELSE IF m = orig THEN e ELSE C[m]
        OBVIOUS
      <4> QED
        BY <4>1
    <3>20. ASSUME NEW m \in live, m # dest, m # orig
           PROVE  HeldBy(m, C[m])' /\ Foreign(C[m], t) /\ Foreign(t, C[m])
      <4>1. /\ Foreign(C[m], s) /\ Foreign(C[m], r)
        BY <3>2, <3>4, <3>20
      <4>2. PICK u, d : u = C[m] /\ d = Len(u)
        OBVIOUS
      <4>3. Row(alloc, head[m], tail[m], next, prev, d, u) /\ d \in Nat
        BY <2>0, <3>3, <4>2, HeldFacts
      <4>4. \A i \in 1..d : u[i] \in alloc /\ u[i] # z /\ u[i] # h
        BY <3>6, <3>7, <4>1, <4>2, <4>3 DEF Foreign, Row
      <4>5. \A i \in 1..Len(u) : u[i] \in alloc /\ next'[u[i]] = next[u[i]] /\ prev'[u[i]] = prev[u[i]]
        BY <2>3, <4>2, <4>4
      <4>6. Held(alloc, head[m], tail[m], next', prev', u)
        <5>1. Held(alloc, head[m], tail[m], next, prev, u)
          BY <3>3, <4>2
        <5> QED
          BY <2>0, <4>5, <5>1, SameHeld
      <4>7. HeldBy(m, C[m])'
        BY <1>2, <2>0, <2>5, <3>20, <4>2, <4>6 DEF HeldBy
      <4>8. \A i \in 1..(a + b) : t[i] = IF i <= a THEN s[i] ELSE r[i - a]
        BY <3>6, <3>14 DEF JoinedTo
      <4>9. Len(t) = a + b
        BY <3>6, <3>13, <3>14
      <4>10. ASSUME NEW i \in 1..(a + b), NEW j \in 1..d PROVE t[i] # u[j]
        <5>1. i <= a => i \in 1..a
          OBVIOUS
        <5>2. ~(i <= a) => i - a \in 1..b
          OBVIOUS
        <5> QED
          BY <3>6, <4>1, <4>2, <4>8, <5>1, <5>2 DEF Foreign
      <4> QED
        BY <4>2, <4>7, <4>9, <4>10 DEF Foreign
    <3>21. \A x : Foreign(x, e) /\ Foreign(e, x)
      BY <3>18 DEF Foreign
    <3>22. \A m \in live : HeldBy(m, T[m])'
      BY <3>16, <3>18, <3>19, <3>20
    <3>23. \A m, o \in live : m # o => Foreign(T[m], T[o])
      BY <2>7, <3>2, <3>19, <3>20, <3>21
    <3>24. live' = live
      BY <1>2
    <3>25. Laid(T)'
      BY <3>22, <3>23, <3>24 DEF Laid
    <3> QED
      BY <3>25 DEF LaidShaped
  <2> QED
    BY <2>6, <2>7
<1> QED
  BY <1>1, <1>2 DEF Listing_Merge, Stops

(* A new listing has no nodes. *)
LEMMA NewShaped ==
  ASSUME Memory, live \subseteq List, AllShaped, LaidShaped', NEW r, r \notin live,
         live' \subseteq live \cup {r}, r \in live' => head'[r] = NULL /\ tail'[r] = NULL,
         \A m \in live : head'[m] = head[m] /\ tail'[m] = tail[m],
         UNCHANGED <<alloc, next, prev>>
  PROVE  AllShaped'
<1>1. PICK C : C = Chains /\ Laid(Chains)
  BY ShapedIsLaid
<1>2. PICK e : e = <<>>
  OBVIOUS
<1>3. Len(e) = 0
  BY <1>2
<1>4. PICK T : \A m \in live' : T[m] = IF m = r THEN e ELSE C[m]
  <2> DEFINE U == [m \in live' |-> IF m = r THEN e ELSE C[m]]
  <2>1. \A m \in live' : U[m] = IF m = r THEN e ELSE C[m]
    OBVIOUS
  <2> QED
    BY <2>1
<1>5. \A x : Foreign(x, e) /\ Foreign(e, x)
  BY <1>3 DEF Foreign
<1>6. ASSUME NEW m \in live' PROVE HeldBy(m, T[m])'
  <2>1. CASE m = r
    BY <1>2, <1>4, <2>1, EmptyHeld DEF HeldBy
  <2>2. CASE m # r
    BY <1>1, <1>4, <2>2 DEF Laid, HeldBy
  <2> QED
    BY <2>1, <2>2
<1>7. \A m, o \in live' : m # o => Foreign(T[m], T[o])
  BY <1>1, <1>4, <1>5 DEF Laid
<1>8. Laid(T)'
  BY <1>6, <1>7 DEF Laid
<1> QED
  BY <1>8 DEF LaidShaped

LEMMA LinkShaped ==
  ASSUME Memory, live \subseteq List, AllShaped, LaidShaped', NEW l \in live, NEW k \in 1..MaxLinked,
         Client_Link(l, k)
  PROVE  AllShaped'
<1> DEFINE s == CHOOSE f \in [1..k -> Lowest(k)] : \A i, j \in 1..k : i < j => f[i] < f[j]
<1>0. k \in Nat /\ k # 0 /\ k <= Cardinality(FreeNodes)
  BY NumbersAssumption DEF Client_Link
<1>1. s \in [1..k -> Lowest(k)] /\ Ascends(s, k)
  <2>1. \E f \in [1..k -> Lowest(k)] : \A i, j \in 1..k : i < j => f[i] < f[j]
    BY <1>0, LowestFacts DEF Ascends
  <2> QED
    BY <2>1 DEF Ascends
<1>2. /\ head' = [head EXCEPT ![l] = s[1]] /\ tail' = [tail EXCEPT ![l] = s[k]]
      /\ next' = [n \in Node |-> IF \E i \in 1..(k - 1) : s[i] = n
                                 THEN s[(CHOOSE i \in 1..k : s[i] = n) + 1]
                                 ELSE IF n \in Lowest(k) THEN NULL ELSE next[n]]
      /\ prev' = [n \in Node |-> IF \E i \in 2..k : s[i] = n
                                 THEN s[(CHOOSE i \in 1..k : s[i] = n) - 1]
                                 ELSE IF n \in Lowest(k) THEN NULL ELSE prev[n]]
      /\ alloc' = alloc \cup Lowest(k) /\ UNCHANGED live /\ head[l] = NULL
  BY DEF Client_Link
<1> HIDE DEF s
<1>3. \A i \in 1..k : s[i] \in Lowest(k) /\ s[i] \in Node /\ s[i] \notin alloc
  BY <1>1 DEF Lowest, FreeNodes
<1>4. \A i, j \in 1..k : s[i] = s[j] => i = j
  <2>1. s \in [1..k -> Nat]
    BY <1>1, FreeFacts DEF Lowest
  <2> QED
    BY <1>0, <1>1, <2>1, AscendsOnce
<1>5. ASSUME NEW m \in 1..k PROVE next'[s[m]] = IF m = k THEN NULL ELSE s[m + 1]
  <2>1. CASE m = k
    <3>1. ~ \E i \in 1..(k - 1) : s[i] = s[m]
      <4> SUFFICES ASSUME NEW i \in 1..(k - 1), s[i] = s[m] PROVE FALSE
        OBVIOUS
      <4>1. i \in 1..k /\ i # k
        BY <1>0
      <4> QED
        BY <1>4, <2>1, <4>1
    <3> QED
      BY <1>2, <1>3, <2>1, <3>1
  <2>2. CASE m # k
    <3>1. m \in 1..(k - 1)
      BY <1>0, <2>2
    <3> DEFINE j == CHOOSE i1 \in 1..k : s[i1] = s[m]
    <3>2. j \in 1..k /\ s[j] = s[m]
      OBVIOUS
    <3>3. next'[s[m]] = s[j + 1]
      BY <1>2, <1>3, <3>1
    <3> HIDE DEF j
    <3>4. j = m
      BY <1>4, <3>2
    <3> QED
      BY <2>2, <3>3, <3>4
  <2> QED
    BY <2>1, <2>2
<1>6. ASSUME NEW m \in 1..k PROVE prev'[s[m]] = IF m = 1 THEN NULL ELSE s[m - 1]
  <2>1. CASE m = 1
    <3>1. ~ \E i \in 2..k : s[i] = s[m]
      <4> SUFFICES ASSUME NEW i \in 2..k, s[i] = s[m] PROVE FALSE
        OBVIOUS
      <4>1. i \in 1..k /\ i # 1
        BY <1>0
      <4> QED
        BY <1>4, <2>1, <4>1
    <3> QED
      BY <1>2, <1>3, <2>1, <3>1
  <2>2. CASE m # 1
    <3>1. m \in 2..k
      BY <1>0, <2>2
    <3> DEFINE j == CHOOSE i1 \in 1..k : s[i1] = s[m]
    <3>2. j \in 1..k /\ s[j] = s[m]
      OBVIOUS
    <3>3. prev'[s[m]] = s[j - 1]
      BY <1>2, <1>3, <3>1
    <3> HIDE DEF j
    <3>4. j = m
      BY <1>4, <3>2
    <3> QED
      BY <2>2, <3>3, <3>4
  <2> QED
    BY <2>1, <2>2
<1>7. PICK t : t = s
  OBVIOUS
<1>8. HeldBy(l, t)' /\ Len(t) = k
  <2>1. head'[l] = t[1] /\ tail'[l] = t[k]
    BY <1>2, <1>7 DEF Memory
  <2>2. \A i \in 1..k : t[i] \in alloc'
    BY <1>2, <1>3, <1>7
  <2>3. Row(alloc', head'[l], tail'[l], next', prev', k, t)
    BY <1>0, <1>5, <1>6, <1>7, <2>1, <2>2 DEF Row
  <2>4. DOMAIN t = 1..k /\ t = [i \in 1..k |-> t[i]]
    BY <1>1, <1>7
  <2>5. Held(alloc', head'[l], tail'[l], next', prev', t) /\ Len(t) = k
    BY <1>0, <2>3, <2>4, HeldBack
  <2> QED
    BY <2>5 DEF HeldBy
<1>9. Within(l)
  <2>1. ASSUME NEW q \in alloc PROVE q \in alloc' /\ next'[q] = next[q] /\ prev'[q] = prev[q]
    <3>1. q \in Node /\ q \notin Lowest(k) /\ \A i \in 1..k : s[i] # q
      BY <1>3, <2>1 DEF Memory, Lowest, FreeNodes
    <3>2. (~ \E i \in 1..(k - 1) : s[i] = q) /\ (~ \E i \in 2..k : s[i] = q)
      BY <1>0, <3>1
    <3> QED
      BY <1>2, <2>1, <3>1, <3>2
  <2>2. \A m \in List \ {l} : head'[m] = head[m] /\ tail'[m] = tail[m]
    BY <1>2 DEF Memory
  <2> QED
    BY <1>2, <2>1, <2>2 DEF Within
<1> QED
  BY <1>3, <1>7, <1>8, <1>9, Rebuilt

(* The listing that is being freed exists, and so does the one that        *)
(* threads push to.                                                        *)
Alive ==
  /\ freeing # NULL => freeing \in live
  /\ ~Idle /\ job.list # NULL => job.list \in live

LEMMA AliveStep == Alive /\ [ForeachNext]_allVars => Alive'
<1> SUFFICES ASSUME Alive, [ForeachNext]_allVars PROVE Alive'
  OBVIOUS
<1>1. CASE UNCHANGED allVars
  BY <1>1 DEF Alive, allVars, vars, foreach, Idle
<1>2. CASE Idle /\ Next /\ UNCHANGED foreach
  <2>1. ASSUME NEW l \in List, Listing_Free(l) PROVE freeing' \in live'
    BY <2>1 DEF Listing_Free, Call
  <2>2. ASSUME NEW l \in List, Listing_Init(l) PROVE freeing' = freeing /\ live \subseteq live'
    BY <2>2 DEF Listing_Init
  <2>3. ASSUME NEW l \in List, Listing_Sort(l) PROVE UNCHANGED <<freeing, live>>
    BY <2>3 DEF Listing_Sort, Stops
  <2>4. ASSUME NEW l \in List, NEW k, Client_Link(l, k) PROVE UNCHANGED <<freeing, live>>
    BY <2>4 DEF Client_Link
  <2>5. ASSUME NEW l \in List, NEW i, NEW x, Listing_Insert(l, i, x) PROVE UNCHANGED <<freeing, live>>
    BY <2>5 DEF Listing_Insert
  <2>6. ASSUME NEW l \in List, NEW i, Listing_Remove(l, i) \/ Listing_At(l, i)
        PROVE  UNCHANGED <<freeing, live>>
    BY <2>6 DEF Listing_Remove, Listing_At, Stops
  <2>7. ASSUME NEW l \in List, NEW m, Listing_Merge(l, m) PROVE UNCHANGED <<freeing, live>>
    BY <2>7 DEF Listing_Merge, Stops
  <2>8. CASE Free_Turn
    BY <1>2, <2>8 DEF Free_Turn, Alive, foreach, Idle
  <2>9. CASE Free_End
    BY <1>2, <2>9 DEF Free_End, Alive, foreach, Idle
  <2>10. (freeing' = freeing /\ live \subseteq live') \/ freeing' \in live' => Alive'
    BY <1>2 DEF Alive, foreach, Idle
  <2> QED
    BY <1>2, <2>1, <2>2, <2>3, <2>4, <2>5, <2>6, <2>7, <2>8, <2>9, <2>10 DEF Next
<1>3. ASSUME NEW l, NEW T, NEW j, Starts(l, T, j), live \subseteq live', freeing' = freeing,
             j.list # NULL => j.list \in live'
      PROVE  Alive'
  BY <1>3 DEF Alive, Starts, Listing_Foreach_JobMeta_Setup
<1>4. ASSUME NEW l, NEW T, Listing_Foreach(l, T) PROVE Alive'
  BY <1>3, <1>4 DEF Listing_Foreach
<1>5. ASSUME NEW l, NEW T, NEW finds, Listing_Find(l, T, finds) PROVE Alive'
  <2>1. PICK r \in (List \ live) \cup {NULL} :
          /\ Starts(l, T, [over |-> l, does |-> "push", list |-> r, finds |-> finds])
          /\ live' = live \cup ({r} \ {NULL}) /\ freeing' = freeing
    BY <1>5 DEF Listing_Find
  <2> QED
    BY <1>3, <2>1
<1>6. ASSUME NEW l, NEW m, Listing_Clone(m, l) PROVE Alive'
  BY <1>3, <1>6 DEF Listing_Clone
<1>7. ASSUME NEW th \in Thread, Step(th) PROVE Alive'
  <2>1. ~Idle /\ UNCHANGED <<live, freeing, job>>
    BY <1>7 DEF Step, Listing_Foreach_Queue_Next, Callback, Push, Stops, vars, Idle
  <2> QED
    BY <2>1 DEF Alive
<1>8. CASE Join
  <2>1. ~Idle /\ UNCHANGED <<live, freeing, job>>
    BY <1>8, ThreadAssumption DEF Join, Stops, vars, Idle
  <2> QED
    BY <2>1 DEF Alive
<1> QED
  BY <1>1, <1>2, <1>4, <1>5, <1>6, <1>7, <1>8 DEF ForeachNext

LEMMA InitAlive == ForeachInit => Alive
BY DEF ForeachInit, Init, Alive, Idle

LEMMA NextShaped ==
  ASSUME Memory, Upper, Alive, AllShaped, LaidShaped', Next
  PROVE  AllShaped' \/ Strays
<1>0. live \subseteq List /\ \A l \in List : count[l] \in Nat
  BY DEF Upper, Memory
<1>1. ASSUME NEW l \in List, Listing_Init(l) PROVE AllShaped'
  <2>1. /\ l \notin live /\ live' \subseteq live \cup {l} /\ head'[l] = NULL /\ tail'[l] = NULL
        /\ \A m \in live : head'[m] = head[m] /\ tail'[m] = tail[m]
        /\ UNCHANGED <<alloc, next, prev>>
    BY <1>0, <1>1 DEF Listing_Init, Memory, memory
  <2> QED
    BY <1>0, <2>1, NewShaped
<1>2. ASSUME NEW l \in List, Listing_Free(l) PROVE AllShaped'
  BY <1>0, <1>2, Untouched DEF Listing_Free, header, memory
<1>3. ASSUME NEW l \in List, Listing_Sort(l) PROVE AllShaped'
  BY <1>0, <1>3, SortShaped DEF Listing_Sort, Call
<1>4. ASSUME NEW l \in List, NEW k \in 1..MaxLinked, Client_Link(l, k) PROVE AllShaped'
  BY <1>0, <1>4, LinkShaped DEF Client_Link
<1>5. ASSUME NEW l \in List, NEW i \in 0..(count[l] + 1), NEW x \in Data, Listing_Insert(l, i, x)
      PROVE  AllShaped' \/ Strays
  <2>1. l \in live /\ i \in Nat /\ InsertNode(l, i, x) /\ UNCHANGED live
    BY <1>0, <1>5 DEF Listing_Insert, Call
  <2> QED
    BY <1>0, <2>1, InsertShaped
<1>6. ASSUME NEW l \in List, NEW i \in 0..(count[l] + 1), Listing_Remove(l, i)
      PROVE  AllShaped' \/ Strays
  <2>1. l \in live /\ i \in Nat /\ RemoveNode(l, i) /\ UNCHANGED live
    BY <1>0, <1>6 DEF Listing_Remove, Call
  <2> QED
    BY <1>0, <2>1, RemoveShaped
<1>7. ASSUME NEW l \in List, NEW i, Listing_At(l, i) PROVE AllShaped'
  BY <1>0, <1>7, Untouched DEF Listing_At, Stops, header, memory
<1>8. ASSUME NEW l \in List, NEW m \in List, Listing_Merge(l, m) PROVE AllShaped'
  BY <1>0, <1>8, MergeShaped DEF Listing_Merge, Call
<1>9. CASE Free_Turn
  <2>1. freeing \in live /\ RemoveNode(freeing, 0) /\ UNCHANGED live
    BY <1>9 DEF Free_Turn, Alive
  <2>2. 0 \in Nat
    OBVIOUS
  <2> QED
    BY <1>0, <2>1, <2>2, RemoveShaped
<1>10. CASE Free_End
  BY <1>0, <1>10, Untouched DEF Free_End, header, memory
<1> QED
  BY <1>1, <1>2, <1>3, <1>4, <1>5, <1>6, <1>7, <1>8, <1>9, <1>10 DEF Next

LEMMA StepShaped ==
  ASSUME Memory, Upper, Pushing, Alive, AllShaped, LaidShaped', [ForeachNext]_allVars
  PROVE  AllShaped' \/ Strays
<1>0. live \subseteq List
  BY DEF Upper
<1>1. CASE UNCHANGED <<live, header, memory>>
  BY <1>0, <1>1, Untouched DEF header, memory
<1>2. CASE Idle /\ Next /\ UNCHANGED foreach
  BY <1>2, NextShaped
<1>3. ASSUME NEW l, NEW T, NEW finds, Listing_Find(l, T, finds) PROVE AllShaped'
  <2>1. PICK r \in (List \ live) \cup {NULL} :
          /\ live' = live \cup ({r} \ {NULL})
          /\ head' = [m \in List |-> IF m = r THEN NULL ELSE head[m]]
          /\ tail' = [m \in List |-> IF m = r THEN NULL ELSE tail[m]]
          /\ UNCHANGED <<alloc, next, prev>>
    BY <1>3 DEF Listing_Find, memory
  <2>2. /\ r \notin live /\ live' \subseteq live \cup {r}
        /\ r \in live' => head'[r] = NULL /\ tail'[r] = NULL
        /\ \A m \in live : head'[m] = head[m] /\ tail'[m] = tail[m]
    BY <1>0, <2>1, NodeAssumption
  <2> QED
    BY <1>0, <2>1, <2>2, NewShaped
<1>4. ASSUME NEW th \in Thread, Push(th) PROVE AllShaped' \/ Strays
  <2>1. /\ pc[th] = "push" /\ InsertNode(job.list, at[th], data[item[th]]) /\ UNCHANGED live
    BY <1>4 DEF Push
  <2>2. job.list \in List /\ item[th] \in alloc /\ at[th] \in Nat
    BY <2>1 DEF Pushing
  <2>3. data[item[th]] \in Data
    BY <2>2 DEF Memory
  <2>4. job.list \in live
    BY <2>1, <2>2, NodeAssumption DEF Alive, Idle
  <2> QED
    BY <1>0, <2>1, <2>2, <2>3, <2>4, InsertShaped
<1>5. CASE \/ \E l \in List : \E T : Listing_Foreach(l, T)
           \/ \E l, m \in List : Listing_Clone(m, l)
           \/ \E th \in Thread : Listing_Foreach_Queue_Next(th) \/ Callback(th)
           \/ Join \/ UNCHANGED allVars
  BY <1>1, <1>5 DEF Listing_Foreach, Listing_Clone, Listing_Foreach_Queue_Next, Callback, Join,
     Stops, allVars, vars
<1> QED
  BY <1>2, <1>3, <1>4, <1>5 DEF ForeachNext, Step

(* In every listing that exists the nodes point to each other in both      *)
(* directions from head to tail, and no node is in two listings, as long   *)
(* as no step goes astray: whatever is inserted, removed, sorted, merged,  *)
(* freed, found or copied, with any cache and by any number of threads     *)
(* (listing.c:149-162, 260-284, 313-323, 336-340).                         *)
THEOREM ShapeKeptHolds == ForeachSpec => ShapeKept
<1>1. Memory /\ Upper /\ Pushing /\ [ForeachNext]_allVars => Memory' /\ Upper' /\ Pushing'
  BY ForeachTyped
<1>2. ForeachSpec => [](Memory /\ Upper /\ Pushing /\ Alive)
  BY <1>1, AliveStep, InitTyped, InitAlive, PTL DEF ForeachSpec
<1>3. Memory /\ Upper => LaidShaped
  BY LaidIsShaped DEF Upper
<1> DEFINE A == AllShaped => AllShaped' \/ Strays
<1>4. Memory /\ Upper /\ Pushing /\ Alive /\ LaidShaped' /\ [ForeachNext]_allVars => A
  BY StepShaped
<1> HIDE DEF A
<1>5. ForeachSpec => [][A]_vars
  BY <1>2, <1>3, <1>4, PTL DEF ForeachSpec
<1> QED
  BY <1>5 DEF ShapeKept, A
=============================================================================
