----------------------------- MODULE TaskProofs -----------------------------
(***************************************************************************)
(* For every finite set of addresses, every graph of dependencies and      *)
(* every sequence of calls: the two copies of an edge agree, the walks end *)
(* and find the whole tree and its circles, and nothing stale is used by a *)
(* client that detaches its tasks.                                         *)
(***************************************************************************)
EXTENDS Task, ListingLemmas

Types ==
  /\ live \subseteq Task /\ dirty \subseteq Task
  /\ depend \in [Task -> Seq(Task)] /\ blocks \in [Task -> Seq(Task)]

(* Mirror alone is not inductive: an address that malloc returns again     *)
(* must not be in a listing of a task that exists already.                 *)
Clean ==
  \A u \in live \ dirty : \A t \in Task \ (live \cup dirty) :
    Occurrences(depend[u], t) = 0 /\ Occurrences(blocks[u], t) = 0

IInv == Types /\ Mirror /\ Clean

-----------------------------------------------------------------------------
LEMMA Same == \A q, x : Occurrences(q, x) = Times(q, x)
BY DEF Occurrences, Times

LEMMA DelDependFacts ==
  ASSUME NEW dep \in [Task -> Seq(Task)], NEW E
  PROVE  /\ DelDepend(dep, E) \in [Task -> Seq(Task)]
         /\ \A t, d \in Task :
              /\ <<t, d>> \in E => Occurrences(DelDepend(dep, E)[t], d) = 0
              /\ <<t, d>> \notin E => Occurrences(DelDepend(dep, E)[t], d) = Occurrences(dep[t], d)
<1>1. ASSUME NEW t \in Task
      PROVE  DelDepend(dep, E)[t] \in Without(dep[t], { d \in Task : <<t, d>> \in E })
  <2>1. Without(dep[t], { d \in Task : <<t, d>> \in E }) # {}
    BY WithoutSome
  <2> QED
    BY <2>1 DEF DelDepend
<1>2. \A t \in Task : DelDepend(dep, E)[t] \in Seq(Task)
  BY <1>1, WithoutSeq
<1>3. DelDepend(dep, E) \in [Task -> Seq(Task)]
  BY <1>2 DEF DelDepend
<1>4. ASSUME NEW t \in Task, NEW d \in Task
      PROVE  /\ <<t, d>> \in E => Occurrences(DelDepend(dep, E)[t], d) = 0
             /\ <<t, d>> \notin E => Occurrences(DelDepend(dep, E)[t], d) = Occurrences(dep[t], d)
  <2> DEFINE D == { c \in Task : <<t, c>> \in E }
             r == DelDepend(dep, E)[t]
             q == dep[t]
  <2>1. q \in Seq(Task) /\ r \in Without(q, D)
    BY <1>1
  <2>2. d \in D <=> <<t, d>> \in E
    OBVIOUS
  <2> HIDE DEF D, r, q
  <2>3. Times(r, d) = IF d \in D THEN 0 ELSE Times(q, d)
    BY <2>1, WithoutTimes
  <2>4. /\ <<t, d>> \in E => Occurrences(r, d) = 0
        /\ <<t, d>> \notin E => Occurrences(r, d) = Occurrences(q, d)
    BY <2>2, <2>3, Same
  <2> QED
    BY <2>4 DEF r, q
<1> QED
  BY <1>3, <1>4

LEMMA DelBlocksFacts ==
  ASSUME NEW blk \in [Task -> Seq(Task)], NEW E
  PROVE  /\ DelBlocks(blk, E) \in [Task -> Seq(Task)]
         /\ \A t, d \in Task :
              /\ <<t, d>> \in E => Occurrences(DelBlocks(blk, E)[d], t) = 0
              /\ <<t, d>> \notin E => Occurrences(DelBlocks(blk, E)[d], t) = Occurrences(blk[d], t)
<1>1. ASSUME NEW d \in Task
      PROVE  DelBlocks(blk, E)[d] \in Without(blk[d], { t \in Task : <<t, d>> \in E })
  <2>1. Without(blk[d], { t \in Task : <<t, d>> \in E }) # {}
    BY WithoutSome
  <2> QED
    BY <2>1 DEF DelBlocks
<1>2. \A d \in Task : DelBlocks(blk, E)[d] \in Seq(Task)
  BY <1>1, WithoutSeq
<1>3. DelBlocks(blk, E) \in [Task -> Seq(Task)]
  BY <1>2 DEF DelBlocks
<1>4. ASSUME NEW t \in Task, NEW d \in Task
      PROVE  /\ <<t, d>> \in E => Occurrences(DelBlocks(blk, E)[d], t) = 0
             /\ <<t, d>> \notin E => Occurrences(DelBlocks(blk, E)[d], t) = Occurrences(blk[d], t)
  <2> DEFINE D == { c \in Task : <<c, d>> \in E }
             r == DelBlocks(blk, E)[d]
             q == blk[d]
  <2>1. q \in Seq(Task) /\ r \in Without(q, D)
    BY <1>1
  <2>2. t \in D <=> <<t, d>> \in E
    OBVIOUS
  <2> HIDE DEF D, r, q
  <2>3. Times(r, t) = IF t \in D THEN 0 ELSE Times(q, t)
    BY <2>1, WithoutTimes
  <2>4. /\ <<t, d>> \in E => Occurrences(r, t) = 0
        /\ <<t, d>> \notin E => Occurrences(r, t) = Occurrences(q, t)
    BY <2>2, <2>3, Same
  <2> QED
    BY <2>4 DEF r, q
<1> QED
  BY <1>3, <1>4

LEMMA EmptyFacts ==
  <<>> \in Seq(Task) /\ \A t : Occurrences(<<>>, t) = 0
BY EmptySeq, NoneTimes, Same

-----------------------------------------------------------------------------
(* The steps *)

(* Deleting edges, in both listings.                                       *)
LEMMA DelStep ==
  ASSUME IInv, NEW E, depend' = DelDepend(depend, E), blocks' = DelBlocks(blocks, E),
         UNCHANGED <<live, dirty>>
  PROVE  IInv'
<1>0. /\ depend \in [Task -> Seq(Task)] /\ blocks \in [Task -> Seq(Task)]
      /\ live \subseteq Task /\ dirty \subseteq Task
  BY DEF IInv, Types
<1>1. /\ DelDepend(depend, E) \in [Task -> Seq(Task)]
      /\ \A t, d \in Task :
           /\ <<t, d>> \in E => Occurrences(DelDepend(depend, E)[t], d) = 0
           /\ <<t, d>> \notin E => Occurrences(DelDepend(depend, E)[t], d) = Occurrences(depend[t], d)
  BY <1>0, DelDependFacts
<1>2. /\ DelBlocks(blocks, E) \in [Task -> Seq(Task)]
      /\ \A t, d \in Task :
           /\ <<t, d>> \in E => Occurrences(DelBlocks(blocks, E)[d], t) = 0
           /\ <<t, d>> \notin E => Occurrences(DelBlocks(blocks, E)[d], t) = Occurrences(blocks[d], t)
  BY <1>0, DelBlocksFacts
<1>3. Types'
  BY <1>0, <1>1, <1>2 DEF Types
<1>4. Mirror'
  <2>1. ASSUME NEW u \in live \ dirty, NEW d \in live \ dirty
        PROVE  Occurrences(depend'[u], d) = Occurrences(blocks'[d], u)
    <3>1. Occurrences(depend[u], d) = Occurrences(blocks[d], u)
      BY DEF IInv, Mirror
    <3>2. u \in Task /\ d \in Task
      BY <1>0
    <3> QED
      BY <1>1, <1>2, <3>1, <3>2
  <2> QED
    BY <2>1 DEF Mirror
<1>5. Clean'
  <2>1. ASSUME NEW u \in live \ dirty, NEW s \in Task \ (live \cup dirty)
        PROVE  Occurrences(depend'[u], s) = 0 /\ Occurrences(blocks'[u], s) = 0
    <3>1. Occurrences(depend[u], s) = 0 /\ Occurrences(blocks[u], s) = 0
      BY DEF IInv, Clean
    <3>2. u \in Task /\ s \in Task
      BY <1>0
    <3> QED
      BY <1>1, <1>2, <3>1, <3>2
  <2> QED
    BY <2>1 DEF Clean
<1> QED
  BY <1>3, <1>4, <1>5 DEF IInv

LEMMA InitStep == ASSUME IInv, NEW t \in Task, Task_Init(t) PROVE IInv'
<1>1. /\ t \notin live /\ live' = live \cup {t} /\ UNCHANGED dirty
      /\ depend' = [depend EXCEPT ![t] = <<>>] /\ blocks' = [blocks EXCEPT ![t] = <<>>]
  BY DEF Task_Init
<1>2. Types'
  BY <1>1, EmptyFacts DEF IInv, Types
<1>3. /\ depend'[t] = <<>> /\ blocks'[t] = <<>>
      /\ \A u \in Task \ {t} : depend'[u] = depend[u] /\ blocks'[u] = blocks[u]
  BY <1>1 DEF IInv, Types
<1>4. live \subseteq Task
  BY DEF IInv, Types
<1>5. ASSUME NEW u \in live \ dirty, t \notin dirty
      PROVE  Occurrences(depend[u], t) = 0 /\ Occurrences(blocks[u], t) = 0
  BY <1>1, <1>5 DEF IInv, Clean
<1>6. Mirror'
  <2>1. ASSUME NEW u \in live' \ dirty, NEW d \in live' \ dirty
        PROVE  Occurrences(depend'[u], d) = Occurrences(blocks'[d], u)
    <3>1. CASE u = t /\ d = t
      BY <1>3, <3>1, EmptyFacts
    <3>2. CASE u = t /\ d # t
      <4>1. d \in live \ dirty /\ d \in Task \ {t} /\ t \notin dirty
        BY <1>1, <1>4, <2>1, <3>2
      <4>2. Occurrences(blocks'[d], u) = 0
        BY <1>3, <1>5, <3>2, <4>1
      <4> QED
        BY <1>3, <3>2, <4>2, EmptyFacts
    <3>3. CASE u # t /\ d = t
      <4>1. u \in live \ dirty /\ u \in Task \ {t} /\ t \notin dirty
        BY <1>1, <1>4, <2>1, <3>3
      <4>2. Occurrences(depend'[u], d) = 0
        BY <1>3, <1>5, <3>3, <4>1
      <4> QED
        BY <1>3, <3>3, <4>2, EmptyFacts
    <3>4. CASE u # t /\ d # t
      BY <1>1, <1>3, <1>4, <2>1, <3>4 DEF IInv, Mirror
    <3> QED
      BY <3>1, <3>2, <3>3, <3>4
  <2> QED
    BY <1>1, <2>1 DEF Mirror
<1>7. Clean'
  <2>1. ASSUME NEW u \in live' \ dirty, NEW s \in Task \ (live' \cup dirty)
        PROVE  Occurrences(depend'[u], s) = 0 /\ Occurrences(blocks'[u], s) = 0
    <3>1. CASE u = t
      BY <1>3, <3>1, EmptyFacts
    <3>2. CASE u # t
      BY <1>1, <1>3, <1>4, <2>1, <3>2 DEF IInv, Clean
    <3> QED
      BY <3>1, <3>2
  <2> QED
    BY <1>1, <2>1 DEF Clean
<1> QED
  BY <1>2, <1>6, <1>7 DEF IInv

(* Whether or not the loops find the edges that have to go, they delete    *)
(* the same ones in both listings.                                         *)
LEMMA FreeStep == ASSUME IInv, NEW t \in Task, Task_Free(t) PROVE IInv'
<1> DEFINE E == FirstLoop(t) \cup SecondLoop(t)
           dep == DelDepend(depend, E)
           blk == DelBlocks(blocks, E)
<1>1. /\ t \in live /\ live' = live \ {t}
      /\ dirty' = IF depend[t] = <<>> /\ blocks[t] = <<>> THEN dirty ELSE dirty \cup {t}
      /\ depend' = [dep EXCEPT ![t] = <<>>] /\ blocks' = [blk EXCEPT ![t] = <<>>]
  BY DEF Task_Free
<1> HIDE DEF E
<1>0. depend \in [Task -> Seq(Task)] /\ blocks \in [Task -> Seq(Task)]
  BY DEF IInv, Types
<1>A. /\ dep \in [Task -> Seq(Task)]
      /\ \A u, d \in Task :
           /\ <<u, d>> \in E => Occurrences(dep[u], d) = 0
           /\ <<u, d>> \notin E => Occurrences(dep[u], d) = Occurrences(depend[u], d)
  BY <1>0, DelDependFacts
<1>B. /\ blk \in [Task -> Seq(Task)]
      /\ \A u, d \in Task :
           /\ <<u, d>> \in E => Occurrences(blk[d], u) = 0
           /\ <<u, d>> \notin E => Occurrences(blk[d], u) = Occurrences(blocks[d], u)
  BY <1>0, DelBlocksFacts
<1> HIDE DEF dep, blk
<1>2. dep \in [Task -> Seq(Task)] /\ blk \in [Task -> Seq(Task)]
  BY <1>A, <1>B
<1>3. live \subseteq Task /\ dirty \subseteq Task /\ dirty \subseteq dirty'
  BY <1>1 DEF IInv, Types
<1>4. Types'
  BY <1>1, <1>2, <1>3, EmptyFacts DEF Types
<1>5. \A u \in Task \ {t} : depend'[u] = dep[u] /\ blocks'[u] = blk[u]
  BY <1>1, <1>2
<1>6. Mirror'
  <2>1. ASSUME NEW u \in live' \ dirty', NEW d \in live' \ dirty'
        PROVE  Occurrences(depend'[u], d) = Occurrences(blocks'[d], u)
    <3>1. u \in live \ dirty /\ d \in live \ dirty /\ u \in Task \ {t} /\ d \in Task \ {t}
      BY <1>1, <1>3, <2>1
    <3>2. Occurrences(depend[u], d) = Occurrences(blocks[d], u)
      BY <3>1 DEF IInv, Mirror
    <3>3. Occurrences(dep[u], d) = Occurrences(blk[d], u)
      BY <1>A, <1>B, <3>1, <3>2
    <3> QED
      BY <1>5, <3>1, <3>3
  <2> QED
    BY <2>1 DEF Mirror
<1>7. Clean'
  <2>1. ASSUME NEW u \in live' \ dirty', NEW s \in Task \ (live' \cup dirty')
        PROVE  Occurrences(depend'[u], s) = 0 /\ Occurrences(blocks'[u], s) = 0
    <3>1. u \in live \ dirty /\ u \in Task \ {t} /\ s \notin dirty
      BY <1>1, <1>3, <2>1
    <3>2. Occurrences(depend[u], s) = 0 /\ Occurrences(blocks[u], s) = 0
      <4>1. CASE s # t
        BY <1>1, <2>1, <3>1, <4>1 DEF IInv, Clean
      <4>2. CASE s = t
        <5>1. depend[t] = <<>> /\ blocks[t] = <<>>
          BY <1>1, <2>1, <4>2
        <5>2. /\ Occurrences(depend[u], t) = Occurrences(blocks[t], u)
              /\ Occurrences(depend[t], u) = Occurrences(blocks[u], t)
          BY <1>1, <3>1, <4>2 DEF IInv, Mirror
        <5> QED
          BY <4>2, <5>1, <5>2, EmptyFacts
      <4> QED
        BY <4>1, <4>2
    <3>3. Occurrences(dep[u], s) = 0 /\ Occurrences(blk[u], s) = 0
      BY <1>A, <1>B, <3>1, <3>2
    <3> QED
      BY <1>5, <3>1, <3>3
  <2> QED
    BY <2>1 DEF Clean
<1> QED
  BY <1>4, <1>6, <1>7 DEF IInv

LEMMA AddStep ==
  ASSUME IInv, NEW t \in Task, NEW d \in Task, Task_Depend_Add(t, d)
  PROVE  IInv'
<1>1. /\ {t, d} \subseteq live /\ UNCHANGED <<live, dirty>>
      /\ depend' = [depend EXCEPT ![t] = Append(@, d)]
      /\ blocks' = [blocks EXCEPT ![d] = Append(@, t)]
  BY DEF Task_Depend_Add
<1>2. Types'
  BY <1>1, QueuedFacts DEF IInv, Types
<1>3. ASSUME NEW u \in Task, NEW s \in Task
      PROVE  /\ Occurrences(depend'[u], s) =
                  Occurrences(depend[u], s) + IF u = t /\ s = d THEN 1 ELSE 0
             /\ Occurrences(blocks'[u], s) =
                  Occurrences(blocks[u], s) + IF u = d /\ s = t THEN 1 ELSE 0
  <2>1. depend[u] \in Seq(Task) /\ blocks[u] \in Seq(Task)
    BY DEF IInv, Types
  <2>2. Occurrences(depend[u], s) \in Nat /\ Occurrences(blocks[u], s) \in Nat
    BY <2>1, AppendTimes, Same
  <2>3. /\ Occurrences(Append(depend[u], d), s) =
             Occurrences(depend[u], s) + IF d = s THEN 1 ELSE 0
        /\ Occurrences(Append(blocks[u], t), s) =
             Occurrences(blocks[u], s) + IF t = s THEN 1 ELSE 0
    BY <2>1, AppendTimes, Same
  <2>4. /\ depend'[u] = IF u = t THEN Append(depend[u], d) ELSE depend[u]
        /\ blocks'[u] = IF u = d THEN Append(blocks[u], t) ELSE blocks[u]
    BY <1>1 DEF IInv, Types
  <2>5. Occurrences(depend'[u], s) = Occurrences(depend[u], s) + IF u = t /\ s = d THEN 1 ELSE 0
    <3>1. CASE u = t
      BY <2>3, <2>4, <3>1
    <3>2. CASE u # t
      BY <2>2, <2>4, <3>2
    <3> QED
      BY <3>1, <3>2
  <2>6. Occurrences(blocks'[u], s) = Occurrences(blocks[u], s) + IF u = d /\ s = t THEN 1 ELSE 0
    <3>1. CASE u = d
      BY <2>3, <2>4, <3>1
    <3>2. CASE u # d
      BY <2>2, <2>4, <3>2
    <3> QED
      BY <3>1, <3>2
  <2> QED
    BY <2>5, <2>6
<1>4. live \subseteq Task
  BY DEF IInv, Types
<1>5. Mirror'
  <2>1. ASSUME NEW u \in live \ dirty, NEW s \in live \ dirty
        PROVE  Occurrences(depend'[u], s) = Occurrences(blocks'[s], u)
    <3>1. Occurrences(depend[u], s) = Occurrences(blocks[s], u)
      BY DEF IInv, Mirror
    <3> QED
      BY <1>3, <1>4, <3>1
  <2> QED
    BY <1>1, <2>1 DEF Mirror
<1>6. Clean'
  <2>1. ASSUME NEW u \in live \ dirty, NEW s \in Task \ (live \cup dirty)
        PROVE  Occurrences(depend'[u], s) = 0 /\ Occurrences(blocks'[u], s) = 0
    <3>1. Occurrences(depend[u], s) = 0 /\ Occurrences(blocks[u], s) = 0
      BY DEF IInv, Clean
    <3>2. s # t /\ s # d
      BY <1>1
    <3> QED
      BY <1>3, <1>4, <3>1, <3>2
  <2> QED
    BY <1>1, <2>1 DEF Clean
<1> QED
  BY <1>2, <1>5, <1>6 DEF IInv

LEMMA Step == IInv /\ [Next]_vars => IInv'
<1> SUFFICES ASSUME IInv, [Next]_vars PROVE IInv'
  OBVIOUS
<1>1. CASE UNCHANGED <<live, dirty, depend, blocks>>
  BY <1>1 DEF IInv, Types, Mirror, Clean
<1>2. ASSUME NEW t \in Task, NEW d \in Task, Task_Depend_Del(t, d) PROVE IInv'
  BY <1>2, DelStep DEF Task_Depend_Del
<1>3. \/ UNCHANGED <<live, dirty, depend, blocks>>
      \/ \E t \in Task : \/ Task_Init(t) \/ Task_Free(t)
                         \/ \E d \in Task : Task_Depend_Add(t, d) \/ Task_Depend_Del(t, d)
  BY DEF Next, vars, Task_setEnabled, Task_Reset, Task_ResetTree, Task_Do
<1> QED
  BY <1>1, <1>2, <1>3, InitStep, FreeStep, AddStep

LEMMA InitIInv == Init => IInv
BY EmptyFacts DEF Init, IInv, Types, Mirror, Clean

-----------------------------------------------------------------------------
(* The walks end *)

Graph == [Task -> Seq(Task)]

LEMMA Entry ==
  ASSUME NEW dep \in Graph, NEW t \in Task
  PROVE  /\ dep[t] \in Seq(Task) /\ Len(dep[t]) \in Nat /\ DOMAIN dep[t] = 1..Len(dep[t])
         /\ \A i \in DOMAIN dep[t] : dep[t][i] \in Task
<1>1. dep[t] \in Seq(Task)
  BY DEF Graph
<1> QED
  BY <1>1, LenProperties, ElementOfSeq

(* What is left to do for the frame on top of the stack: it is of task     *)
(* w[2], w[3] of its dependencies were looked at, and w[1] are the tasks   *)
(* on the stack.                                                           *)
Visits == (SUBSET Task) \X Task \X Nat

LEMMA VisitParts ==
  /\ \A w \in Visits : w[1] \in SUBSET Task /\ w[2] \in Task /\ w[3] \in Nat
  /\ \A P \in SUBSET Task, t \in Task, k \in Nat : <<P, t, k>> \in Visits
BY DEF Visits

Further(w) == <<w[1], w[2], w[3] + 1>>
Found(dep, w) == dep[w[2]][w[3] + 1]
Deeper(dep, w) == <<w[1] \cup {Found(dep, w)}, Found(dep, w), 0>>
More(dep, w) == w[3] < Len(dep[w[2]])

LEMMA NextVisits ==
  ASSUME NEW dep \in Graph, NEW w \in Visits
  PROVE  /\ Further(w) \in Visits
         /\ Len(dep[w[2]]) \in Nat /\ w[3] \in Nat /\ w[2] \in Task
         /\ More(dep, w) => Found(dep, w) \in Task /\ Deeper(dep, w) \in Visits
<1>1. w[1] \in SUBSET Task /\ w[2] \in Task /\ w[3] \in Nat
  BY VisitParts
<1>2. Further(w) \in Visits
  BY <1>1, VisitParts DEF Further
<1>3. Len(dep[w[2]]) \in Nat
  BY <1>1, Entry
<1>4. ASSUME More(dep, w) PROVE Found(dep, w) \in Task /\ Deeper(dep, w) \in Visits
  <2>1. w[3] + 1 \in 1..Len(dep[w[2]])
    BY <1>1, <1>3, <1>4 DEF More
  <2>2. Found(dep, w) \in Task
    BY <1>1, <2>1, Entry DEF Found
  <2>3. w[1] \cup {Found(dep, w)} \in SUBSET Task /\ 0 \in Nat
    BY <1>1, <2>2
  <2> QED
    BY <2>2, <2>3, VisitParts DEF Deeper
<1> QED
  BY <1>1, <1>2, <1>3, <1>4

(* A number that gets smaller with every turn.                             *)
Descends(dep, mu, B) ==
  /\ B \in Nat /\ mu \in [Visits -> 0..B]
  /\ \A w \in Visits : More(dep, w) =>
       /\ mu[Further(w)] < mu[w]
       /\ Found(dep, w) \notin w[1] => mu[Deeper(dep, w)] < mu[w]

(* The listings of all tasks have a greatest length.                       *)
LEMMA Longest ==
  ASSUME NEW dep \in Graph
  PROVE  \E B \in Nat : \A t \in Task : Len(dep[t]) <= B
<1> DEFINE Bound(S) == \E B \in Nat : \A t \in S : Len(dep[t]) <= B
           V == SUBSET Task
           mu == [S \in V |-> Cardinality(S)]
           G == { S \in V : Bound(S) }
<1>0. \A t \in Task : Len(dep[t]) \in Nat
  BY Entry
<1>1. \A S \in V : IsFiniteSet(S) /\ Cardinality(S) \in Nat
  BY TaskAssumption, FS_Subset, FS_CardinalityType
<1>2. mu \in [V -> Nat]
  BY <1>1
<1>3. ASSUME NEW S \in V, \A X \in V : mu[X] < mu[S] => X \in G
      PROVE  S \in G
  <2>1. CASE S = {}
    <3>1. \A t \in S : Len(dep[t]) <= 0
      BY <2>1
    <3> QED
      BY <3>1
  <2>2. CASE S # {}
    <3>1. PICK t \in S : TRUE
      BY <2>2
    <3>2. Cardinality(S \ {t}) = Cardinality(S) - 1
      BY <1>1, <3>1, FS_RemoveElement
    <3>3. S \ {t} \in V /\ mu[S \ {t}] < mu[S]
      BY <1>1, <3>2
    <3>4. S \ {t} \in G
      BY <1>3, <3>3
    <3>5. PICK B \in Nat : \A u \in S \ {t} : Len(dep[u]) <= B
      BY <3>4
    <3>6. t \in Task /\ \A u \in S : u \in Task
      BY <3>1
    <3>7. B + Len(dep[t]) \in Nat
      BY <1>0, <3>6
    <3>8. \A u \in S : Len(dep[u]) <= B + Len(dep[t])
      BY <1>0, <3>5, <3>6
    <3> QED
      BY <3>7, <3>8
  <2> QED
    BY <2>1, <2>2
<1> HIDE DEF mu, G
<1>4. \A S \in V : S \in G
  BY <1>2, <1>3, Downhill
<1> QED
  BY <1>4 DEF G

LEMMA Measure ==
  ASSUME NEW dep \in Graph
  PROVE  \E mu, B : Descends(dep, mu, B)
<1>1. PICK L \in Nat : \A t \in Task : Len(dep[t]) <= L
  BY Longest
<1> DEFINE N == Cardinality(Task)
           M == L + 1
           Off(w) == Cardinality(Task \ w[1])
           Rest(w) == IF More(dep, w) THEN Len(dep[w[2]]) - w[3] ELSE 0
           mu == [w \in Visits |-> Off(w) * M + Rest(w)]
<1>2. N \in Nat /\ M \in Nat /\ M = L + 1 /\ IsFiniteSet(Task)
  BY TaskAssumption, FS_CardinalityType
<1>3. ASSUME NEW w \in Visits
      PROVE  IsFiniteSet(Task \ w[1]) /\ Off(w) \in 0..N
  <2>1. Task \ w[1] \in SUBSET Task
    OBVIOUS
  <2>2. IsFiniteSet(Task \ w[1]) /\ Off(w) <= N
    BY <1>2, <2>1, FS_Subset
  <2> QED
    BY <1>2, <2>2, FS_CardinalityType
<1>4. ASSUME NEW w \in Visits
      PROVE  Rest(w) \in 0..L /\ (More(dep, w) => Rest(w) = Len(dep[w[2]]) - w[3] /\ Rest(w) > 0)
  BY <1>1, NextVisits DEF More
<1>5. /\ N * M + L \in Nat /\ N * M \in Nat
      /\ \A j \in Nat : j * M \in Nat
  BY <1>2
<1> HIDE DEF N, M
<1>6. ASSUME NEW j \in 0..N PROVE j * M \in 0..(N * M)
  BY <1>2
<1>7. ASSUME NEW w \in Visits PROVE Off(w) * M + Rest(w) \in 0..(N * M + L)
  <2> DEFINE a == Off(w)
             r == Rest(w)
             b == Off(w) * M
             c == N * M
  <2>0. a \in 0..N /\ r \in 0..L /\ c \in Nat
    BY <1>3, <1>4, <1>5
  <2>A. b \in 0..c
    BY <1>6, <2>0
  <2>1. a \in 0..N /\ r \in 0..L /\ b \in 0..c /\ c \in Nat
    BY <2>0, <2>A
  <2> HIDE DEF a, r, b, c
  <2>2. b + r \in 0..(c + L)
    BY <2>1
  <2> QED
    BY <2>2 DEF a, b, c, r
<1>8. mu \in [Visits -> 0..(N * M + L)]
  BY <1>7
<1>9. ASSUME NEW w \in Visits, More(dep, w)
      PROVE  mu[Further(w)] < mu[w]
  <2>1. Further(w) \in Visits /\ Off(Further(w)) = Off(w) /\ w[3] \in Nat /\ Len(dep[w[2]]) \in Nat
    BY NextVisits DEF Further
  <2>2. Rest(Further(w)) < Rest(w)
    BY <1>9, <2>1 DEF More, Further
  <2>A. Rest(Further(w)) \in Nat /\ Rest(w) \in Nat
    BY <1>4, <2>1
  <2>B. Off(w) * M \in Nat
    <3>1. Off(w) \in 0..N
      BY <1>3
    <3>2. Off(w) \in Nat
      BY <1>2, <3>1
    <3> QED
      BY <1>5, <3>2
  <2>3. Rest(Further(w)) \in Nat /\ Rest(w) \in Nat /\ Off(w) * M \in Nat
    BY <2>A, <2>B
  <2>4. mu[Further(w)] = Off(w) * M + Rest(Further(w)) /\ mu[w] = Off(w) * M + Rest(w)
    BY <2>1
  <2> HIDE DEF mu, Off, Rest
  <2> QED
    BY <2>2, <2>3, <2>4
<1>10. ASSUME NEW w \in Visits, More(dep, w), Found(dep, w) \notin w[1]
       PROVE  mu[Deeper(dep, w)] < mu[w]
  <2> DEFINE d == Found(dep, w)
             x == Deeper(dep, w)
             S == Task \ w[1]
  <2>1. x \in Visits /\ d \in Task /\ x[1] = w[1] \cup {d}
    BY <1>10, NextVisits DEF Deeper
  <2>2. Task \ x[1] = S \ {d} /\ d \in S
    BY <1>10, <2>1
  <2>3. Cardinality(S \ {d}) = Cardinality(S) - 1
    BY <1>3, <2>2, FS_RemoveElement
  <2>4. Off(x) = Off(w) - 1
    BY <2>2, <2>3
  <2> HIDE DEF x
  <2>A. Off(x) \in Nat /\ Off(w) \in Nat
    <3>1. Off(x) \in 0..N
      BY <1>3, <2>1
    <3>2. Off(w) \in 0..N
      BY <1>3
    <3> QED
      BY <1>2, <3>1, <3>2
  <2>B. Rest(x) \in 0..L /\ Rest(w) \in Nat
    BY <1>4, <2>1
  <2>5. Off(x) \in Nat /\ Off(w) \in Nat /\ Rest(x) \in 0..L /\ Rest(w) \in Nat
    BY <2>A, <2>B
  <2>6. mu[x] = Off(x) * M + Rest(x) /\ mu[w] = Off(w) * M + Rest(w)
    BY <2>1
  <2> HIDE DEF mu, Off, Rest, x
  <2>7. Off(w) * M = Off(x) * M + M
    <3>1. \A a, b \in Nat : a = b - 1 => b * M = a * M + M
      BY <1>2
    <3> QED
      BY <2>4, <2>5, <3>1
  <2>8. Off(x) * M \in Nat
    BY <1>2, <2>5
  <2> QED
    BY <1>2, <2>5, <2>6, <2>7, <2>8 DEF x
<1>11. Descends(dep, mu, N * M + L)
  BY <1>5, <1>8, <1>9, <1>10 DEF Descends
<1> QED
  BY <1>11

(* The same loop without the frames below the top one: what is popped, and *)
(* whether a circle is met, until the top frame has been popped.           *)
Visited(dep, f, w) ==
  IF ~More(dep, w) THEN [popped |-> <<w[2]>>, circ |-> FALSE]
  ELSE IF Found(dep, w) \in w[1] THEN [popped |-> f[Further(w)].popped, circ |-> TRUE]
  ELSE [popped |-> f[Deeper(dep, w)].popped \o f[Further(w)].popped,
        circ   |-> f[Deeper(dep, w)].circ \/ f[Further(w)].circ]

Visiting(dep, f) == \A w \in Visits : f[w] = Visited(dep, f, w)

LEMMA VisitingSome ==
  ASSUME NEW dep \in Graph
  PROVE  \E f : Visiting(dep, f)
<1> DEFINE Fits(mu, n, f) == \A w \in Visits : mu[w] < n => f[w] = Visited(dep, f, w)
<1>1. PICK mu, B : Descends(dep, mu, B)
  BY Measure
<1>2. /\ B \in Nat /\ mu \in [Visits -> 0..B]
      /\ \A w \in Visits : mu[w] \in Nat /\ mu[w] < B + 1
      /\ \A w \in Visits : More(dep, w) =>
           /\ mu[Further(w)] < mu[w]
           /\ Found(dep, w) \notin w[1] => mu[Deeper(dep, w)] < mu[w]
  BY <1>1 DEF Descends
<1> DEFINE Bad == { n \in Nat : ~ \E f : Fits(mu, n, f) }
<1>3. Bad = {}
  <2> SUFFICES ASSUME Bad # {} PROVE FALSE
    OBVIOUS
  <2>1. PICK n \in Bad : \A k \in Bad : n <= k
    BY Smallest
  <2>2. n # 0
    <3>1. \A w \in Visits : ~(mu[w] < 0)
      BY <1>2
    <3>2. \A f : Fits(mu, 0, f)
      BY <3>1
    <3> QED
      BY <3>2
  <2>3. n - 1 \in Nat /\ n - 1 \notin Bad /\ n \in Nat
    BY <2>1, <2>2
  <2>4. PICK f : Fits(mu, n - 1, f)
    BY <2>3
  <2> DEFINE g == [w \in Visits |-> Visited(dep, f, w)]
  <2>5. \A w \in Visits : mu[w] < n - 1 => g[w] = f[w]
    BY <2>4
  <2>6. ASSUME NEW w \in Visits, mu[w] < n
        PROVE  g[w] = Visited(dep, g, w)
    <3>1. g[w] = Visited(dep, f, w)
      OBVIOUS
    <3>2. ASSUME More(dep, w)
          PROVE  g[Further(w)] = f[Further(w)]
      <4>1. mu[Further(w)] < mu[w] /\ Further(w) \in Visits
        BY <1>2, <3>2, NextVisits
      <4>2. mu[Further(w)] < n - 1
        BY <1>2, <2>3, <2>6, <4>1
      <4> QED
        BY <2>5, <4>1, <4>2
    <3>3. ASSUME More(dep, w), Found(dep, w) \notin w[1]
          PROVE  g[Deeper(dep, w)] = f[Deeper(dep, w)]
      <4>1. mu[Deeper(dep, w)] < mu[w] /\ Deeper(dep, w) \in Visits
        BY <1>2, <3>3, NextVisits
      <4>2. mu[Deeper(dep, w)] < n - 1
        BY <1>2, <2>3, <2>6, <4>1
      <4> QED
        BY <2>5, <4>1, <4>2
    <3> HIDE DEF g
    <3> QED
      BY <3>1, <3>2, <3>3 DEF Visited
  <2>7. Fits(mu, n, g)
    BY <2>6
  <2> HIDE DEF g, Fits
  <2> QED
    BY <2>1, <2>7
<1>4. B + 1 \in Nat /\ B + 1 \notin Bad
  BY <1>2, <1>3
<1>5. PICK f : Fits(mu, B + 1, f)
  BY <1>4
<1>6. Visiting(dep, f)
  BY <1>2, <1>5 DEF Visiting
<1> QED
  BY <1>6

-----------------------------------------------------------------------------
(* What one walk gives *)

Results == [popped : Seq(Task), circ : BOOLEAN]

LEMMA ResultIs ==
  /\ \A p \in Seq(Task), c \in BOOLEAN :
       /\ [popped |-> p, circ |-> c] \in Results
       /\ [popped |-> p, circ |-> c].popped = p /\ [popped |-> p, circ |-> c].circ = c
  /\ \A r \in Results : r.popped \in Seq(Task) /\ r.circ \in BOOLEAN
                        /\ r = [popped |-> r.popped, circ |-> r.circ]
BY DEF Results

LEMMA Joins ==
  ASSUME NEW p \in Seq(Task), NEW q \in Seq(Task)
  PROVE  p \o q \in Seq(Task) /\ Queued(p \o q) = Queued(p) \cup Queued(q)
<1>1. p \o q \in Seq(Task) /\ Len(p \o q) = Len(p) + Len(q) /\ Len(p) \in Nat /\ Len(q) \in Nat
  BY ConcatProperties, LenProperties
<1>2. DOMAIN p = 1..Len(p) /\ DOMAIN q = 1..Len(q) /\ DOMAIN (p \o q) = 1..(Len(p) + Len(q))
  BY <1>1, LenProperties
<1>3. \A i \in 1..(Len(p) + Len(q)) : (p \o q)[i] = IF i <= Len(p) THEN p[i] ELSE q[i - Len(p)]
  BY ConcatProperties
<1>4. Queued(p \o q) \subseteq Queued(p) \cup Queued(q)
  <2>1. ASSUME NEW i \in 1..(Len(p) + Len(q))
        PROVE  (p \o q)[i] \in Queued(p) \cup Queued(q)
    <3>1. CASE i <= Len(p)
      BY <1>1, <1>2, <1>3, <3>1 DEF Queued
    <3>2. CASE ~(i <= Len(p))
      <4>1. i - Len(p) \in DOMAIN q
        BY <1>1, <1>2, <3>2
      <4> QED
        BY <1>3, <3>2, <4>1 DEF Queued
    <3> QED
      BY <3>1, <3>2
  <2> QED
    BY <1>2, <2>1 DEF Queued
<1>5. Queued(p) \subseteq Queued(p \o q)
  <2>1. ASSUME NEW i \in DOMAIN p
        PROVE  i \in DOMAIN (p \o q) /\ (p \o q)[i] = p[i]
    BY <1>1, <1>2, <1>3
  <2> QED
    BY <2>1 DEF Queued
<1>6. Queued(q) \subseteq Queued(p \o q)
  <2>1. ASSUME NEW i \in DOMAIN q
        PROVE  i + Len(p) \in DOMAIN (p \o q) /\ (p \o q)[i + Len(p)] = q[i]
    <3>1. /\ i \in Nat /\ i >= 1 /\ i + Len(p) \in 1..(Len(p) + Len(q))
          /\ ~(i + Len(p) <= Len(p)) /\ (i + Len(p)) - Len(p) = i
      BY <1>1, <1>2
    <3> QED
      BY <1>2, <1>3, <3>1
  <2> QED
    BY <2>1 DEF Queued
<1> QED
  BY <1>1, <1>4, <1>5, <1>6

LEMMA OneTask == \A t \in Task : <<t>> \in Seq(Task) /\ Queued(<<t>>) = {t}
<1>1. \A t \in Task : <<t>> \in Seq(Task) /\ DOMAIN <<t>> = {1} /\ <<t>>[1] = t
  OBVIOUS
<1> QED
  BY <1>1 DEF Queued

(* One turn, in terms of what is popped.                                   *)
Pops(f, w) == Queued(f[w].popped)

Turn(dep, f, w) ==
  /\ ~More(dep, w) => Pops(f, w) = {w[2]} /\ ~f[w].circ /\ f[w] = [popped |-> <<w[2]>>, circ |-> FALSE]
  /\ More(dep, w) /\ Found(dep, w) \in w[1] =>
       /\ Pops(f, w) = Pops(f, Further(w)) /\ f[w].circ
       /\ f[w] = [popped |-> f[Further(w)].popped, circ |-> TRUE]
  /\ More(dep, w) /\ Found(dep, w) \notin w[1] =>
       /\ Pops(f, w) = Pops(f, Deeper(dep, w)) \cup Pops(f, Further(w))
       /\ f[w].circ <=> f[Deeper(dep, w)].circ \/ f[Further(w)].circ
       /\ f[w] = [popped |-> f[Deeper(dep, w)].popped \o f[Further(w)].popped,
                  circ   |-> f[Deeper(dep, w)].circ \/ f[Further(w)].circ]

LEMMA Turns ==
  ASSUME NEW dep \in Graph, NEW f, Visiting(dep, f)
  PROVE  \A w \in Visits : f[w] \in Results /\ Turn(dep, f, w)
<1> DEFINE G == { w \in Visits : f[w] \in Results /\ Turn(dep, f, w) }
<1>1. PICK mu, B : Descends(dep, mu, B)
  BY Measure
<1>2. mu \in [Visits -> Nat]
  BY <1>1 DEF Descends
<1>3. ASSUME NEW w \in Visits, \A x \in Visits : mu[x] < mu[w] => x \in G
      PROVE  f[w] \in Results /\ Turn(dep, f, w)
  <2>1. f[w] = Visited(dep, f, w) /\ w[2] \in Task
    BY NextVisits DEF Visiting
  <2>2. ASSUME More(dep, w) PROVE f[Further(w)] \in Results
    BY <1>1, <1>3, <2>2, NextVisits DEF Descends
  <2>3. ASSUME More(dep, w), Found(dep, w) \notin w[1] PROVE f[Deeper(dep, w)] \in Results
    BY <1>1, <1>3, <2>3, NextVisits DEF Descends
  <2>4. CASE ~More(dep, w)
    <3>1. f[w] = [popped |-> <<w[2]>>, circ |-> FALSE]
      BY <2>1, <2>4 DEF Visited
    <3>A. <<w[2]>> \in Seq(Task) /\ FALSE \in BOOLEAN
      BY <2>1, OneTask
    <3>2. f[w] \in Results /\ f[w].popped = <<w[2]>> /\ f[w].circ = FALSE
      BY <3>1, <3>A DEF Results
    <3> QED
      BY <2>1, <2>4, <3>1, <3>2, OneTask DEF Turn, Pops
  <2>5. CASE More(dep, w) /\ Found(dep, w) \in w[1]
    <3>1. f[w] = [popped |-> f[Further(w)].popped, circ |-> TRUE]
      BY <2>1, <2>5 DEF Visited
    <3>A. f[Further(w)].popped \in Seq(Task) /\ TRUE \in BOOLEAN
      BY <2>2, <2>5, ResultIs
    <3>2. f[w] \in Results /\ f[w].popped = f[Further(w)].popped /\ f[w].circ = TRUE
      BY <3>1, <3>A DEF Results
    <3> QED
      BY <2>5, <3>1, <3>2 DEF Turn, Pops
  <2>6. CASE More(dep, w) /\ Found(dep, w) \notin w[1]
    <3> DEFINE p == f[Deeper(dep, w)].popped \o f[Further(w)].popped
               c == f[Deeper(dep, w)].circ \/ f[Further(w)].circ
    <3>1. f[w] = [popped |-> p, circ |-> c]
      BY <2>1, <2>6 DEF Visited
    <3>2. /\ f[Deeper(dep, w)].popped \in Seq(Task) /\ f[Further(w)].popped \in Seq(Task)
          /\ f[Deeper(dep, w)].circ \in BOOLEAN /\ f[Further(w)].circ \in BOOLEAN
      BY <2>2, <2>3, <2>6, ResultIs
    <3>3. /\ p \in Seq(Task) /\ c \in BOOLEAN
          /\ Queued(p) = Queued(f[Deeper(dep, w)].popped) \cup Queued(f[Further(w)].popped)
      BY <3>2, Joins
    <3> HIDE DEF p, c
    <3>4. f[w] \in Results /\ f[w].popped = p /\ f[w].circ = c
      BY <3>1, <3>3, ResultIs
    <3>5. Pops(f, w) = Pops(f, Deeper(dep, w)) \cup Pops(f, Further(w))
      BY <3>3, <3>4 DEF Pops
    <3> QED
      BY <2>6, <3>1, <3>4, <3>5 DEF Turn, c, p
  <2> QED
    BY <2>4, <2>5, <2>6
<1>4. \A w \in Visits : (\A x \in Visits : mu[x] < mu[w] => x \in G) => w \in G
  BY <1>3
<1> HIDE DEF G
<1>5. \A w \in Visits : w \in G
  BY <1>2, <1>4, Downhill
<1> QED
  BY <1>5 DEF G

(* The loop with the whole stack, as in Walk.                              *)
Stepped(dep, f, stk) ==
  IF stk = <<>> THEN [popped |-> <<>>, circ |-> FALSE]
  ELSE LET top  == Head(stk)
           next == dep[top.t][top.currdep + 1]
           rest == <<[top EXCEPT !.currdep = @ + 1]>> \o Tail(stk)
       IN  IF top.currdep >= Len(dep[top.t])
           THEN [f[Tail(stk)] EXCEPT !.popped = <<top.t>> \o @]
           ELSE IF depStack_hasTask(stk, next)
                THEN [f[rest] EXCEPT !.circ = TRUE]
                ELSE f[<<[t |-> next, currdep |-> 0]>> \o rest]

(* The tasks on a stack, and what is left to do for its top frame.         *)
TasksOn(stk) == { stk[i].t : i \in DOMAIN stk }
VisitOf(stk) == <<TasksOn(stk), Head(stk).t, Head(stk).currdep>>
OneOn(x) == [x EXCEPT !.currdep = @ + 1]
NewFrame(d) == [t |-> d, currdep |-> 0]

LEMMA FrameFacts ==
  /\ \A x \in Frame : x.t \in Task /\ x.currdep \in Nat
                      /\ OneOn(x) \in Frame /\ OneOn(x).t = x.t /\ OneOn(x).currdep = x.currdep + 1
  /\ \A d \in Task : NewFrame(d) \in Frame /\ NewFrame(d).t = d /\ NewFrame(d).currdep = 0
BY DEF Frame, OneOn, NewFrame

LEMMA Pushed ==
  ASSUME NEW x \in Frame, NEW s \in Seq(Frame), NEW c, c = <<x>> \o s
  PROVE  /\ c \in Seq(Frame) /\ c # <<>> /\ Head(c) = x /\ Tail(c) = s
         /\ TasksOn(c) = TasksOn(s) \cup {x.t} /\ TasksOn(c) \in SUBSET Task
         /\ Len(s) \in Nat /\ Len(c) = Len(s) + 1
<1>1. <<x>> \in Seq(Frame) /\ Len(<<x>>) = 1 /\ <<x>>[1] = x
  OBVIOUS
<1>2. Len(s) \in Nat /\ DOMAIN s = 1..Len(s)
  BY LenProperties
<1>3. /\ c \in Seq(Frame) /\ Len(c) = Len(s) + 1
      /\ \A i \in 1..(Len(s) + 1) : c[i] = IF i = 1 THEN x ELSE s[i - 1]
  <2>1. /\ <<x>> \o s \in Seq(Frame) /\ Len(<<x>> \o s) = 1 + Len(s)
        /\ \A i \in 1..(1 + Len(s)) : (<<x>> \o s)[i] = IF i <= 1 THEN <<x>>[i] ELSE s[i - 1]
    BY <1>1, ConcatProperties
  <2> QED
    BY <1>1, <1>2, <2>1
<1>4. DOMAIN c = 1..(Len(s) + 1)
  BY <1>3, LenProperties
<1>5. c # <<>> /\ Head(c) = x
  BY <1>2, <1>3
<1>6. Tail(c) = s
  <2>1. Tail(c) \in Seq(Frame) /\ Len(Tail(c)) = Len(s) /\ \A i \in 1..Len(s) : Tail(c)[i] = c[i + 1]
    BY <1>2, <1>3, <1>5
  <2>2. \A i \in 1..Len(s) : Tail(c)[i] = s[i]
    BY <1>2, <1>3, <2>1
  <2> QED
    BY <2>1, <2>2, SeqEqual
<1>7. TasksOn(c) = TasksOn(s) \cup {x.t}
  <2>1. \A i \in DOMAIN c : c[i].t \in TasksOn(s) \cup {x.t}
    BY <1>2, <1>3, <1>4 DEF TasksOn
  <2>2. ASSUME NEW i \in DOMAIN s PROVE s[i].t \in TasksOn(c)
    <3>1. i + 1 \in DOMAIN c /\ c[i + 1] = s[i]
      BY <1>2, <1>3, <1>4
    <3> QED
      BY <3>1 DEF TasksOn
  <2>3. 1 \in DOMAIN c /\ c[1] = x
    BY <1>2, <1>3, <1>4
  <2> QED
    BY <2>1, <2>2, <2>3 DEF TasksOn
<1>8. TasksOn(c) \in SUBSET Task
  <2>1. \A i \in DOMAIN c : c[i] \in Frame
    BY <1>3, ElementOfSeq, LenProperties
  <2> QED
    BY <2>1, FrameFacts DEF TasksOn
<1> QED
  BY <1>2, <1>3, <1>5, <1>6, <1>7, <1>8

LEMMA TopAndRest ==
  ASSUME NEW c \in Seq(Frame), c # <<>>
  PROVE  Head(c) \in Frame /\ Tail(c) \in Seq(Frame) /\ c = <<Head(c)>> \o Tail(c)
<1>1. Head(c) \in Frame /\ Tail(c) \in Seq(Frame)
  OBVIOUS
<1> DEFINE d == <<Head(c)>> \o Tail(c)
<1>2. /\ Len(c) \in Nat /\ Len(c) > 0 /\ Len(Tail(c)) = Len(c) - 1
      /\ \A i \in 1..(Len(c) - 1) : Tail(c)[i] = c[i + 1]
      /\ Head(c) = c[1]
  OBVIOUS
<1>3. /\ d \in Seq(Frame) /\ Len(d) = 1 + Len(Tail(c))
      /\ \A i \in 1..(1 + Len(Tail(c))) : d[i] = IF i <= 1 THEN <<Head(c)>>[i] ELSE Tail(c)[i - 1]
  BY <1>1, ConcatProperties
<1>4. Len(d) = Len(c) /\ \A i \in 1..Len(c) : d[i] = c[i]
  BY <1>2, <1>3
<1> QED
  BY <1>1, <1>3, <1>4, SeqEqual

(* Where a stack goes.                                                     *)
NextOn(x, s) == <<OneOn(x)>> \o s
PushOn(dep, w, x, s) == <<NewFrame(Found(dep, w))>> \o NextOn(x, s)
TopIs(dep, x, s, c, w) ==
  dep \in Graph /\ x \in Frame /\ s \in Seq(Frame) /\ c = <<x>> \o s /\ w = VisitOf(c)

LEMMA StackTurn ==
  ASSUME NEW dep, NEW x, NEW s, NEW c, NEW w, TopIs(dep, x, s, c, w)
  PROVE  /\ w \in Visits /\ w[2] = x.t
         /\ NextOn(x, s) \in Seq(Frame) /\ VisitOf(NextOn(x, s)) = Further(w)
         /\ More(dep, w) =>
              /\ PushOn(dep, w, x, s) \in Seq(Frame) /\ VisitOf(PushOn(dep, w, x, s)) = Deeper(dep, w)
              /\ NewFrame(Found(dep, w)) \in Frame
<1> DEFINE r == <<OneOn(x)>> \o s
           d == Found(dep, w)
           n == <<NewFrame(d)>> \o r
<1>0. dep \in Graph /\ x \in Frame /\ s \in Seq(Frame) /\ c = <<x>> \o s /\ w = VisitOf(c)
  BY DEF TopIs
<1>1. /\ x.t \in Task /\ x.currdep \in Nat /\ OneOn(x) \in Frame
      /\ OneOn(x).t = x.t /\ OneOn(x).currdep = x.currdep + 1
  BY <1>0, FrameFacts
<1>2. /\ c \in Seq(Frame) /\ c # <<>> /\ Head(c) = x /\ Tail(c) = s
      /\ TasksOn(c) = TasksOn(s) \cup {x.t} /\ TasksOn(c) \in SUBSET Task
  BY <1>0, Pushed
<1>3. w = <<TasksOn(c), x.t, x.currdep>>
  BY <1>0, <1>2 DEF VisitOf
<1>4. w \in Visits /\ w[1] = TasksOn(c) /\ w[2] = x.t /\ w[3] = x.currdep
  BY <1>1, <1>2, <1>3, VisitParts
<1>5. r \in Seq(Frame) /\ Head(r) = OneOn(x) /\ TasksOn(r) = TasksOn(c)
  BY <1>0, <1>1, <1>2, Pushed
<1>6. VisitOf(r) = Further(w)
  BY <1>1, <1>4, <1>5 DEF VisitOf, Further
<1>7. ASSUME More(dep, w)
      PROVE  n \in Seq(Frame) /\ VisitOf(n) = Deeper(dep, w) /\ NewFrame(d) \in Frame
  <2>1. d \in Task
    BY <1>4, <1>0, <1>7, NextVisits
  <2>2. NewFrame(d) \in Frame /\ NewFrame(d).t = d /\ NewFrame(d).currdep = 0
    BY <2>1, FrameFacts
  <2>3. n \in Seq(Frame) /\ Head(n) = NewFrame(d) /\ TasksOn(n) = TasksOn(c) \cup {d}
    <3> HIDE DEF r, d
    <3>1. n \in Seq(Frame) /\ Head(n) = NewFrame(d) /\ TasksOn(n) = TasksOn(r) \cup {NewFrame(d).t}
      BY <1>5, <2>2, Pushed
    <3> QED
      BY <1>5, <2>2, <3>1
  <2> QED
    BY <1>4, <2>2, <2>3 DEF VisitOf, Deeper
<1>8. r = NextOn(x, s) /\ n = PushOn(dep, w, x, s)
  BY DEF NextOn, PushOn
<1> HIDE DEF r, n, d
<1> QED
  BY <1>4, <1>5, <1>6, <1>7, <1>8 DEF d

(* What the loop does with it.                                             *)
TopGoes(dep, f, x, s, c, w) ==
  /\ ~More(dep, w) => Stepped(dep, f, c) = [f[s] EXCEPT !.popped = <<x.t>> \o @]
  /\ More(dep, w) /\ Found(dep, w) \in w[1] =>
       Stepped(dep, f, c) = [f[NextOn(x, s)] EXCEPT !.circ = TRUE]
  /\ More(dep, w) /\ Found(dep, w) \notin w[1] =>
       Stepped(dep, f, c) = f[PushOn(dep, w, x, s)]
LEMMA StackStep ==
  ASSUME NEW dep, NEW x, NEW s, NEW c, NEW w, TopIs(dep, x, s, c, w), NEW f
  PROVE  TopGoes(dep, f, x, s, c, w)
<1> DEFINE r == NextOn(x, s)
           d == Found(dep, w)
           n == PushOn(dep, w, x, s)
<1>0. dep \in Graph /\ x \in Frame /\ s \in Seq(Frame) /\ c = <<x>> \o s /\ w = VisitOf(c)
  BY DEF TopIs
<1>1. x.t \in Task /\ x.currdep \in Nat
  BY <1>0, FrameFacts
<1>2. /\ c # <<>> /\ Head(c) = x /\ Tail(c) = s /\ TasksOn(c) \in SUBSET Task
  BY <1>0, Pushed
<1>3. w = <<TasksOn(c), x.t, x.currdep>>
  BY <1>0, <1>2 DEF VisitOf
<1>4. w \in Visits /\ w[1] = TasksOn(c) /\ w[2] = x.t /\ w[3] = x.currdep
  <2>1. PICK P : P = TasksOn(c)
    OBVIOUS
  <2>2. P \in SUBSET Task /\ w = <<P, x.t, x.currdep>>
    BY <1>2, <1>3, <2>1
  <2>3. w \in Visits
    BY <1>1, <2>2, VisitParts
  <2> QED
    BY <1>3, <2>3
<1>5. More(dep, w) <=> ~(x.currdep >= Len(dep[x.t]))
  BY <1>1, <1>4, <1>0, Entry DEF More
<1>6. d = dep[x.t][x.currdep + 1]
  BY <1>4 DEF Found
<1>7. depStack_hasTask(c, d) <=> d \in w[1]
  BY <1>4 DEF depStack_hasTask, TasksOn
<1>8. Stepped(dep, f, c) =
        IF x.currdep >= Len(dep[x.t])
        THEN [f[s] EXCEPT !.popped = <<x.t>> \o @]
        ELSE IF depStack_hasTask(c, d) THEN [f[r] EXCEPT !.circ = TRUE]
        ELSE f[n]
  BY <1>2, <1>6 DEF Stepped, OneOn, NewFrame, NextOn, PushOn
<1> HIDE DEF r, d, n
<1>9. ~More(dep, w) => Stepped(dep, f, c) = [f[s] EXCEPT !.popped = <<x.t>> \o @]
  BY <1>5, <1>8
<1>10. More(dep, w) /\ d \in w[1] => Stepped(dep, f, c) = [f[r] EXCEPT !.circ = TRUE]
  BY <1>5, <1>7, <1>8
<1>11. More(dep, w) /\ d \notin w[1] => Stepped(dep, f, c) = f[n]
  BY <1>5, <1>7, <1>8
<1> QED
  BY <1>9, <1>10, <1>11 DEF r, d, n, TopGoes

(* The result of a stack: that of its top frame, then that of the others.  *)
Then(v, r) == [popped |-> v.popped \o r.popped, circ |-> v.circ \/ r.circ]
NoResult == [popped |-> <<>>, circ |-> FALSE]

LEMMA PlusIs ==
  ASSUME NEW v \in Results, NEW r \in Results
  PROVE  /\ Then(v, r) \in Results
         /\ Then(v, r).popped = v.popped \o r.popped /\ Then(v, r).circ = (v.circ \/ r.circ)
<1>1. v.popped \o r.popped \in Seq(Task) /\ (v.circ \/ r.circ) \in BOOLEAN
  BY ResultIs, Joins
<1> QED
  BY <1>1 DEF Then, Results

LEMMA PlusNothing == NoResult \in Results /\ \A v \in Results : Then(v, NoResult) = v
<1>1. <<>> \in Seq(Task) /\ FALSE \in BOOLEAN
  BY EmptySeq
<1>2. NoResult \in Results /\ NoResult.popped = <<>> /\ NoResult.circ = FALSE
  BY <1>1 DEF NoResult, Results
<1>3. ASSUME NEW v \in Results PROVE Then(v, NoResult) = v
  <2>1. v.popped \in Seq(Task) /\ v.circ \in BOOLEAN /\ v = [popped |-> v.popped, circ |-> v.circ]
    BY ResultIs
  <2>2. v.popped \o <<>> = v.popped
    BY <2>1, ConcatEmptySeq
  <2>3. Then(v, NoResult) = [popped |-> v.popped, circ |-> v.circ \/ FALSE]
    BY <1>2, <2>2 DEF Then
  <2>4. (v.circ \/ FALSE) = v.circ
    BY <2>1
  <2> QED
    BY <2>1, <2>3, <2>4
<1> QED
  BY <1>2, <1>3

LEMMA WithPopped ==
  ASSUME NEW r \in Results, NEW p \in Seq(Task)
  PROVE  [r EXCEPT !.popped = p] = [popped |-> p, circ |-> r.circ]
<1>1. /\ [r EXCEPT !.popped = p] \in Results
      /\ [r EXCEPT !.popped = p].popped = p /\ [r EXCEPT !.popped = p].circ = r.circ
  BY DEF Results
<1> QED
  BY <1>1, ResultIs

LEMMA WithCirc ==
  ASSUME NEW r \in Results
  PROVE  [r EXCEPT !.circ = TRUE] = [popped |-> r.popped, circ |-> TRUE]
<1>1. /\ [r EXCEPT !.circ = TRUE] \in Results
      /\ [r EXCEPT !.circ = TRUE].popped = r.popped /\ [r EXCEPT !.circ = TRUE].circ = TRUE
  BY DEF Results
<1> QED
  BY <1>1, ResultIs

LEMMA PlusOne ==
  ASSUME NEW r \in Results, NEW t \in Task
  PROVE  Then([popped |-> <<t>>, circ |-> FALSE], r) = [r EXCEPT !.popped = <<t>> \o @]
<1>1. r.circ \in BOOLEAN /\ r.popped \in Seq(Task)
  BY ResultIs
<1>2. Then([popped |-> <<t>>, circ |-> FALSE], r) = [popped |-> <<t>> \o r.popped, circ |-> FALSE \/ r.circ]
  BY DEF Then
<1>3. (FALSE \/ r.circ) = r.circ
  BY <1>1
<1>4. <<t>> \o r.popped \in Seq(Task)
  BY <1>1, OneTask, Joins
<1>5. [r EXCEPT !.popped = <<t>> \o r.popped] = [popped |-> <<t>> \o r.popped, circ |-> r.circ]
  BY <1>4, WithPopped
<1> QED
  BY <1>2, <1>3, <1>5

LEMMA PlusCirc ==
  ASSUME NEW v \in Results, NEW r \in Results
  PROVE  Then([popped |-> v.popped, circ |-> TRUE], r) = [Then(v, r) EXCEPT !.circ = TRUE]
<1>1. Then([popped |-> v.popped, circ |-> TRUE], r) = [popped |-> v.popped \o r.popped, circ |-> TRUE]
  <2>1. Then([popped |-> v.popped, circ |-> TRUE], r)
          = [popped |-> v.popped \o r.popped, circ |-> TRUE \/ r.circ]
    BY DEF Then
  <2>2. (TRUE \/ r.circ) = TRUE
    OBVIOUS
  <2> QED
    BY <2>1, <2>2
<1>2. Then(v, r) \in Results /\ Then(v, r).popped = v.popped \o r.popped
  BY PlusIs
<1>3. [Then(v, r) EXCEPT !.circ = TRUE] = [popped |-> v.popped \o r.popped, circ |-> TRUE]
  BY <1>2, WithCirc
<1> QED
  BY <1>1, <1>3

LEMMA PlusPlus ==
  ASSUME NEW v \in Results, NEW u \in Results, NEW r \in Results
  PROVE  Then(Then(v, u), r) = Then(v, Then(u, r))
<1>1. /\ v.popped \in Seq(Task) /\ u.popped \in Seq(Task) /\ r.popped \in Seq(Task)
      /\ v.circ \in BOOLEAN /\ u.circ \in BOOLEAN /\ r.circ \in BOOLEAN
  BY ResultIs
<1>2. (v.popped \o u.popped) \o r.popped = v.popped \o (u.popped \o r.popped)
  <2> DEFINE p == v.popped
             q == u.popped
             o == r.popped
  <2>1. p \in Seq(Task) /\ q \in Seq(Task) /\ o \in Seq(Task)
    BY <1>1
  <2> HIDE DEF p, q, o
  <2>2. (p \o q) \o o = p \o (q \o o)
    BY <2>1, ConcatAssociative
  <2> QED
    BY <2>2 DEF p, q, o
<1>3. ((v.circ \/ u.circ) \/ r.circ) = (v.circ \/ (u.circ \/ r.circ))
  BY <1>1
<1>4. Then(u, r).popped = u.popped \o r.popped /\ Then(u, r).circ = (u.circ \/ r.circ)
  BY PlusIs
<1>5. Then(Then(v, u), r)
        = [popped |-> (v.popped \o u.popped) \o r.popped, circ |-> (v.circ \/ u.circ) \/ r.circ]
  <2>1. Then(v, u).popped = v.popped \o u.popped /\ Then(v, u).circ = (v.circ \/ u.circ)
    BY PlusIs
  <2>2. Then(Then(v, u), r)
          = [popped |-> Then(v, u).popped \o r.popped, circ |-> Then(v, u).circ \/ r.circ]
    BY DEF Then
  <2> QED
    BY <2>1, <2>2
<1>6. Then(v, Then(u, r)) = [popped |-> v.popped \o Then(u, r).popped, circ |-> v.circ \/ Then(u, r).circ]
  BY DEF Then
<1> QED
  BY <1>2, <1>3, <1>4, <1>5, <1>6

(* The result of a stack, from the bottom up.                              *)
Stacked(f, g, s) == IF s = <<>> THEN NoResult ELSE Then(f[VisitOf(s)], g[Tail(s)])
Layered(f, n, g) ==
  \A s \in Seq(Frame) : Len(s) < n => g[s] \in Results /\ g[s] = Stacked(f, g, s)

LEMMA Lower ==
  ASSUME NEW s \in Seq(Frame), s # <<>>
  PROVE  Tail(s) \in Seq(Frame) /\ Len(Tail(s)) = Len(s) - 1 /\ Len(s) \in Nat /\ Len(s) # 0
OBVIOUS

LEMMA LayersSome ==
  ASSUME NEW dep \in Graph, NEW f, Visiting(dep, f), NEW n \in Nat
  PROVE  \E g : Layered(f, n, g)
<1> DEFINE Bad == { m \in Nat : ~ \E g : Layered(f, m, g) }
<1>1. Bad = {}
  <2> SUFFICES ASSUME Bad # {} PROVE FALSE
    OBVIOUS
  <2>1. PICK m \in Bad : \A k \in Bad : m <= k
    BY Smallest
  <2>2. m # 0
    <3>1. \A s \in Seq(Frame) : ~(Len(s) < 0)
      BY LenProperties
    <3>2. \A g : Layered(f, 0, g)
      BY <3>1 DEF Layered
    <3> QED
      BY <3>2
  <2>3. m - 1 \in Nat /\ m - 1 \notin Bad
    BY <2>1, <2>2
  <2>4. PICK g : Layered(f, m - 1, g)
    BY <2>3
  <2> DEFINE h == [s \in Seq(Frame) |-> Stacked(f, g, s)]
  <2>5. ASSUME NEW s \in Seq(Frame), Len(s) < m
        PROVE  h[s] \in Results /\ h[s] = Stacked(f, h, s)
    <3>1. CASE s = <<>>
      BY <3>1, PlusNothing DEF Stacked
    <3>2. CASE s # <<>>
      <4>1. Tail(s) \in Seq(Frame) /\ Len(Tail(s)) < m - 1 /\ Len(Tail(s)) \in Nat
        BY <2>5, <2>3, <3>2, Lower, LenProperties
      <4>2. g[Tail(s)] \in Results /\ g[Tail(s)] = Stacked(f, g, Tail(s))
        BY <2>4, <4>1 DEF Layered
      <4>3. h[Tail(s)] = g[Tail(s)]
        BY <4>1, <4>2
      <4>4. f[VisitOf(s)] \in Results
        <5>1. Head(s) \in Frame /\ s = <<Head(s)>> \o Tail(s)
          BY <3>2, TopAndRest
        <5>2. VisitOf(s) \in Visits
          <6>1. TopIs(dep, Head(s), Tail(s), s, VisitOf(s))
            BY <4>1, <5>1 DEF TopIs
          <6> QED
            BY <6>1, StackTurn
        <5> QED
          BY <5>2, Turns
      <4>5. h[s] = Then(f[VisitOf(s)], g[Tail(s)])
        BY <3>2 DEF Stacked
      <4> HIDE DEF h
      <4> QED
        BY <3>2, <4>2, <4>3, <4>4, <4>5, PlusIs DEF Stacked
    <3> QED
      BY <3>1, <3>2
  <2>6. Layered(f, m, h)
    BY <2>5 DEF Layered
  <2> HIDE DEF h
  <2> QED
    BY <2>1, <2>6
<1> QED
  BY <1>1

LEMMA LayersSame ==
  ASSUME NEW f, NEW n \in Nat, NEW m \in Nat, NEW g, NEW h, Layered(f, n, g), Layered(f, m, h)
  PROVE  \A s \in Seq(Frame) : Len(s) < n /\ Len(s) < m => g[s] = h[s]
<1> DEFINE V == Seq(Frame)
           mu == [s \in V |-> Len(s)]
           G == { s \in V : Len(s) < n /\ Len(s) < m => g[s] = h[s] }
<1>1. mu \in [V -> Nat]
  BY LenProperties
<1>2. ASSUME NEW s \in V, \A x \in V : mu[x] < mu[s] => x \in G, Len(s) < n, Len(s) < m
      PROVE  g[s] = h[s]
  <2>1. g[s] = Stacked(f, g, s) /\ h[s] = Stacked(f, h, s)
    BY <1>2 DEF Layered
  <2>2. CASE s = <<>>
    BY <2>1, <2>2 DEF Stacked
  <2>3. CASE s # <<>>
    <3>1. Tail(s) \in V /\ Len(Tail(s)) < Len(s) /\ Len(Tail(s)) < n /\ Len(Tail(s)) < m
      BY <1>2, <2>3, Lower, LenProperties
    <3>2. mu[Tail(s)] < mu[s]
      BY <3>1
    <3>3. Tail(s) \in G
      BY <1>2, <3>1, <3>2
    <3>4. g[Tail(s)] = h[Tail(s)]
      BY <3>1, <3>3
    <3> QED
      BY <2>1, <2>3, <3>4 DEF Stacked
  <2> QED
    BY <2>2, <2>3
<1>3. \A s \in V : (\A x \in V : mu[x] < mu[s] => x \in G) => s \in G
  BY <1>2
<1> HIDE DEF G, mu, V
<1>4. \A s \in V : s \in G
  BY <1>1, <1>3, Downhill
<1> QED
  BY <1>4 DEF G, V

LEMMA StackedSome ==
  ASSUME NEW dep \in Graph, NEW f, Visiting(dep, f)
  PROVE  \E g : \A s \in Seq(Frame) : g[s] \in Results /\ g[s] = Stacked(f, g, s)
<1> DEFINE L(n) == CHOOSE g : Layered(f, n, g)
           r == [s \in Seq(Frame) |-> L(Len(s) + 1)[s]]
<1>1. \A n \in Nat : Layered(f, n, L(n))
  BY LayersSome
<1> HIDE DEF L
<1>2. ASSUME NEW s \in Seq(Frame) PROVE r[s] \in Results /\ r[s] = Stacked(f, r, s)
  <2> DEFINE n == Len(s) + 1
  <2>1. n \in Nat /\ Len(s) \in Nat /\ Len(s) < n
    BY LenProperties
  <2>2. r[s] = L(n)[s] /\ Layered(f, n, L(n))
    BY <1>1, <2>1
  <2>3. L(n)[s] \in Results /\ L(n)[s] = Stacked(f, L(n), s)
    BY <2>1, <2>2 DEF Layered
  <2>4. ASSUME s # <<>> PROVE r[Tail(s)] = L(n)[Tail(s)]
    <3> DEFINE t == Tail(s)
    <3>1. t \in Seq(Frame) /\ Len(t) + 1 = Len(s) /\ Len(s) \in Nat /\ Len(t) < Len(s) /\ Len(t) < n
      BY <2>1, <2>4, Lower, LenProperties
    <3>2. r[t] = L(Len(s))[t] /\ Layered(f, Len(s), L(Len(s)))
      BY <1>1, <3>1
    <3> HIDE DEF t
    <3>3. PICK g, h : g = L(n) /\ h = L(Len(s))
      OBVIOUS
    <3>4. Layered(f, n, g) /\ Layered(f, Len(s), h)
      BY <2>2, <3>2, <3>3
    <3>5. g[t] = h[t]
      BY <2>1, <3>1, <3>4, LayersSame
    <3> QED
      BY <3>2, <3>3, <3>5 DEF t
  <2> HIDE DEF r, n
  <2> QED
    BY <2>2, <2>3, <2>4 DEF Stacked
<1> QED
  BY <1>2

Looping(dep, f) == f = [stk \in Seq(Frame) |-> Stepped(dep, f, stk)]

LEMMA LoopSome ==
  ASSUME NEW dep \in Graph, NEW v, Visiting(dep, v)
  PROVE  \E f : Looping(dep, f)
<1>1. PICK g : \A s \in Seq(Frame) : g[s] \in Results /\ g[s] = Stacked(v, g, s)
  BY StackedSome
<1> DEFINE f == [stk \in Seq(Frame) |-> g[stk]]
<1>2. \A s \in Seq(Frame) : f[s] = g[s]
  OBVIOUS
<1> HIDE DEF f
<1>3. \A s \in Seq(Frame) : f[s] \in Results
  BY <1>1, <1>2
<1>4. ASSUME NEW x \in Frame, NEW s \in Seq(Frame)
      PROVE  f[<<x>> \o s] = Then(v[VisitOf(<<x>> \o s)], f[s])
  <2>1. <<x>> \o s \in Seq(Frame) /\ <<x>> \o s # <<>> /\ Tail(<<x>> \o s) = s
    BY Pushed
  <2> QED
    BY <1>1, <1>2, <2>1 DEF Stacked
<1>5. ASSUME NEW c \in Seq(Frame), c # <<>> PROVE f[c] = Stepped(dep, f, c)
  <2>1. PICK x, s : x = Head(c) /\ s = Tail(c)
    OBVIOUS
  <2>2. x \in Frame /\ s \in Seq(Frame) /\ c = <<x>> \o s
    BY <1>5, <2>1, TopAndRest
  <2>3. PICK w : w = VisitOf(c)
    OBVIOUS
  <2> DEFINE r == NextOn(x, s)
             n == PushOn(dep, w, x, s)
  <2>C. TopIs(dep, x, s, c, w)
    BY <2>2, <2>3 DEF TopIs
  <2>A. /\ w \in Visits /\ w[2] = x.t
        /\ r \in Seq(Frame) /\ VisitOf(r) = Further(w)
        /\ More(dep, w) => n \in Seq(Frame) /\ VisitOf(n) = Deeper(dep, w) /\ NewFrame(Found(dep, w)) \in Frame
    BY <2>C, StackTurn
  <2>B. /\ ~More(dep, w) => Stepped(dep, f, c) = [f[s] EXCEPT !.popped = <<x.t>> \o @]
        /\ More(dep, w) /\ Found(dep, w) \in w[1] => Stepped(dep, f, c) = [f[r] EXCEPT !.circ = TRUE]
        /\ More(dep, w) /\ Found(dep, w) \notin w[1] => Stepped(dep, f, c) = f[n]
    <3>1. TopGoes(dep, f, x, s, c, w)
      BY <2>C, StackStep
    <3> QED
      BY <3>1 DEF TopGoes
  <2>5. f[c] = Then(v[w], f[s])
    BY <1>4, <2>2, <2>3
  <2>6. f[s] \in Results /\ v[w] \in Results /\ Turn(dep, v, w) /\ w[2] \in Task
    BY <1>3, <2>2, <2>A, Turns, NextVisits
  <2>7. OneOn(x) \in Frame /\ r = <<OneOn(x)>> \o s /\ n = <<NewFrame(Found(dep, w))>> \o r
    BY <2>2, FrameFacts DEF NextOn, PushOn
  <2>8. f[r] = Then(v[Further(w)], f[s])
    BY <1>4, <2>2, <2>A, <2>7
  <2>9. v[Further(w)] \in Results
    BY <2>A, NextVisits, Turns
  <2> HIDE DEF r, n
  <2>10. CASE ~More(dep, w)
    <3>1. v[w] = [popped |-> <<x.t>>, circ |-> FALSE]
      BY <2>A, <2>6, <2>10 DEF Turn
    <3>2. f[c] = [f[s] EXCEPT !.popped = <<x.t>> \o @]
      BY <2>A, <2>5, <2>6, <3>1, PlusOne
    <3> QED
      BY <2>B, <2>10, <3>2
  <2>11. CASE More(dep, w) /\ Found(dep, w) \in w[1]
    <3>1. v[w] = [popped |-> v[Further(w)].popped, circ |-> TRUE]
      BY <2>6, <2>11 DEF Turn
    <3>2. f[c] = [f[r] EXCEPT !.circ = TRUE]
      BY <2>5, <2>6, <2>8, <2>9, <3>1, PlusCirc
    <3> QED
      BY <2>B, <2>11, <3>2
  <2>12. CASE More(dep, w) /\ Found(dep, w) \notin w[1]
    <3>1. v[w] = Then(v[Deeper(dep, w)], v[Further(w)])
      BY <2>6, <2>12 DEF Turn, Then
    <3>2. v[Deeper(dep, w)] \in Results
      BY <2>A, <2>12, NextVisits, Turns
    <3>3. f[n] = Then(v[Deeper(dep, w)], f[r])
      BY <1>4, <2>2, <2>A, <2>7, <2>12
    <3>4. PICK a, b, o : a = v[Deeper(dep, w)] /\ b = v[Further(w)] /\ o = f[s]
      OBVIOUS
    <3>5. a \in Results /\ b \in Results /\ o \in Results
      BY <2>6, <2>9, <3>2, <3>4
    <3>7. Then(Then(a, b), o) = Then(a, Then(b, o))
      BY <3>5, PlusPlus
    <3>8. f[c] = f[n]
      BY <2>5, <2>8, <3>1, <3>3, <3>4, <3>7
    <3> QED
      BY <2>B, <2>12, <3>8
  <2> QED
    BY <2>10, <2>11, <2>12
<1>6. f[<<>>] = Stepped(dep, f, <<>>)
  <2>1. <<>> \in Seq(Frame)
    BY EmptySeq
  <2> QED
    BY <1>1, <1>2, <2>1 DEF Stacked, Stepped, NoResult
<1>7. \A c \in Seq(Frame) : f[c] = Stepped(dep, f, c)
  BY <1>5, <1>6
<1>8. f = [stk \in Seq(Frame) |-> Stepped(dep, f, stk)]
  BY <1>7 DEF f
<1> QED
  BY <1>8 DEF Looping

(* The loop does nothing to the frames below but go on with them.          *)
LEMMA LoopIs ==
  ASSUME NEW dep \in Graph, NEW v, Visiting(dep, v), NEW f, Looping(dep, f),
         NEW t \in Task
  PROVE  f[<<[t |-> t, currdep |-> 0]>>] = v[<<{t}, t, 0>>]
<1> DEFINE Right(w) == \A x \in Frame, s \in Seq(Frame) :
                         f[s] \in Results /\ VisitOf(<<x>> \o s) = w => f[<<x>> \o s] = Then(v[w], f[s])
           G == { w \in Visits : Right(w) }
<1>1. \A c \in Seq(Frame) : f[c] = Stepped(dep, f, c)
  BY DEF Looping
<1>2. PICK mu, B : Descends(dep, mu, B)
  BY Measure
<1>3. mu \in [Visits -> Nat]
  BY <1>2 DEF Descends
<1>4. ASSUME NEW w \in Visits, \A x \in Visits : mu[x] < mu[w] => x \in G,
             NEW x \in Frame, NEW s \in Seq(Frame), f[s] \in Results, VisitOf(<<x>> \o s) = w
      PROVE  f[<<x>> \o s] = Then(v[w], f[s])
  <2>1. PICK c : c = <<x>> \o s
    OBVIOUS
  <2> DEFINE r == NextOn(x, s)
             n == PushOn(dep, w, x, s)
  <2>C. TopIs(dep, x, s, c, w)
    BY <1>4, <2>1 DEF TopIs
  <2>A. /\ w[2] = x.t
        /\ r \in Seq(Frame) /\ VisitOf(r) = Further(w)
        /\ More(dep, w) => n \in Seq(Frame) /\ VisitOf(n) = Deeper(dep, w) /\ NewFrame(Found(dep, w)) \in Frame
    BY <2>C, StackTurn
  <2>B. /\ ~More(dep, w) => Stepped(dep, f, c) = [f[s] EXCEPT !.popped = <<x.t>> \o @]
        /\ More(dep, w) /\ Found(dep, w) \in w[1] => Stepped(dep, f, c) = [f[r] EXCEPT !.circ = TRUE]
        /\ More(dep, w) /\ Found(dep, w) \notin w[1] => Stepped(dep, f, c) = f[n]
    <3>1. TopGoes(dep, f, x, s, c, w)
      BY <2>C, StackStep
    <3> QED
      BY <3>1 DEF TopGoes
  <2>3. f[c] = Stepped(dep, f, c)
    BY <1>1, <2>1, Pushed
  <2>4. /\ v[w] \in Results /\ Turn(dep, v, w) /\ w[2] \in Task /\ OneOn(x) \in Frame
        /\ r = <<OneOn(x)>> \o s /\ n = <<NewFrame(Found(dep, w))>> \o r
    BY Turns, NextVisits, FrameFacts DEF NextOn, PushOn
  <2>5. Further(w) \in Visits /\ v[Further(w)] \in Results
    BY NextVisits, Turns
  <2>6. ASSUME More(dep, w) PROVE f[r] = Then(v[Further(w)], f[s]) /\ f[r] \in Results
    <3>1. Further(w) \in G
      BY <1>2, <1>4, <2>5, <2>6 DEF Descends
    <3>2. f[r] = Then(v[Further(w)], f[s])
      BY <1>4, <2>A, <2>4, <3>1
    <3> QED
      BY <1>4, <2>5, <3>2, PlusIs
  <2> HIDE DEF r, n
  <2>7. CASE ~More(dep, w)
    <3>1. v[w] = [popped |-> <<x.t>>, circ |-> FALSE]
      BY <2>A, <2>4, <2>7 DEF Turn
    <3>2. Then(v[w], f[s]) = [f[s] EXCEPT !.popped = <<x.t>> \o @]
      BY <1>4, <2>A, <2>4, <3>1, PlusOne
    <3> QED
      BY <2>1, <2>B, <2>3, <2>7, <3>2
  <2>8. CASE More(dep, w) /\ Found(dep, w) \in w[1]
    <3>1. v[w] = [popped |-> v[Further(w)].popped, circ |-> TRUE]
      BY <2>4, <2>8 DEF Turn
    <3>2. Then(v[w], f[s]) = [f[r] EXCEPT !.circ = TRUE]
      BY <1>4, <2>5, <2>6, <2>8, <3>1, PlusCirc
    <3> QED
      BY <2>1, <2>B, <2>3, <2>8, <3>2
  <2>9. CASE More(dep, w) /\ Found(dep, w) \notin w[1]
    <3>1. v[w] = Then(v[Deeper(dep, w)], v[Further(w)])
      BY <2>4, <2>9 DEF Turn, Then
    <3>2. Deeper(dep, w) \in Visits /\ v[Deeper(dep, w)] \in Results
      BY <2>9, NextVisits, Turns
    <3>3. Deeper(dep, w) \in G
      BY <1>2, <1>4, <2>9, <3>2 DEF Descends
    <3>4. f[n] = Then(v[Deeper(dep, w)], f[r])
      BY <2>A, <2>4, <2>6, <2>9, <3>3
    <3>5. PICK a, b, o : a = v[Deeper(dep, w)] /\ b = v[Further(w)] /\ o = f[s]
      OBVIOUS
    <3>6. a \in Results /\ b \in Results /\ o \in Results
      BY <1>4, <2>5, <3>2, <3>5
    <3>8. Then(Then(a, b), o) = Then(a, Then(b, o))
      BY <3>6, PlusPlus
    <3>9. Then(v[w], f[s]) = f[n]
      BY <2>6, <2>9, <3>1, <3>4, <3>5, <3>8
    <3> QED
      BY <2>1, <2>B, <2>3, <2>9, <3>9
  <2> QED
    BY <2>7, <2>8, <2>9
<1>5. \A w \in Visits : (\A x \in Visits : mu[x] < mu[w] => x \in G) => w \in G
  BY <1>4
<1> HIDE DEF G
<1>6. \A w \in Visits : w \in G
  BY <1>3, <1>5, Downhill
<1>7. \A w \in Visits : Right(w)
  BY <1>6 DEF G
<1> DEFINE x == NewFrame(t)
           w == <<{t}, t, 0>>
<1>8. f[<<>>] = NoResult /\ f[<<>>] \in Results /\ <<>> \in Seq(Frame)
  <2>1. <<>> \in Seq(Frame)
    BY EmptySeq
  <2> QED
    BY <1>1, <2>1, PlusNothing DEF Stepped, NoResult
<1>9. x \in Frame /\ x.t = t /\ x.currdep = 0
  BY FrameFacts
<1>10. <<x>> \o <<>> = <<x>>
  <2>1. <<x>> \in Seq(Frame)
    BY <1>9
  <2> QED
    BY <2>1, ConcatEmptySeq
<1>11. VisitOf(<<x>>) = w
  <2> HIDE DEF x
  <2>1. Head(<<x>>) = x /\ TasksOn(<<x>>) = TasksOn(<<>>) \cup {x.t}
    BY <1>8, <1>9, <1>10, Pushed
  <2>2. TasksOn(<<>>) = {}
    BY DEF TasksOn
  <2> QED
    BY <1>9, <2>1, <2>2 DEF VisitOf
<1>12. w \in Visits /\ v[w] \in Results
  <2>1. {t} \in SUBSET Task /\ 0 \in Nat
    OBVIOUS
  <2> QED
    BY <2>1, VisitParts, Turns
<1> HIDE DEF x, w
<1>13. f[<<x>>] = Then(v[w], f[<<>>])
  BY <1>7, <1>8, <1>9, <1>10, <1>11, <1>12
<1>14. f[<<x>>] = v[w]
  BY <1>8, <1>12, <1>13, PlusNothing
<1> QED
  BY <1>14 DEF x, w, NewFrame

(* Walk ends, and gives what the loop over the top frame gives.            *)
LEMMA WalkIs ==
  ASSUME NEW dep \in Graph
  PROVE  \E v : Visiting(dep, v) /\ \A t \in Task : Walk(dep, t) = v[<<{t}, t, 0>>]
<1>1. PICK v : Visiting(dep, v)
  BY VisitingSome
<1> DEFINE f == CHOOSE g : g = [stk \in Seq(Frame) |-> Stepped(dep, g, stk)]
<1>2. Looping(dep, f)
  BY <1>1, LoopSome DEF Looping
<1>3. \A t \in Task : Walk(dep, t) = f[<<[t |-> t, currdep |-> 0]>>]
  BY DEF Walk, Stepped
<1> HIDE DEF f
<1>4. ASSUME NEW t \in Task PROVE f[<<[t |-> t, currdep |-> 0]>>] = v[<<{t}, t, 0>>]
  BY <1>1, <1>2, LoopIs
<1>5. \A t \in Task : Walk(dep, t) = v[<<{t}, t, 0>>]
  BY <1>3, <1>4
<1> QED
  BY <1>1, <1>5

-----------------------------------------------------------------------------
(* What the walks find *)

LEMMA ReachFacts ==
  ASSUME NEW dep \in Graph, NEW t \in Task
  PROVE  /\ t \in Reach(dep, t) /\ Reach(dep, t) \in SUBSET Task /\ Closed(dep, Reach(dep, t))
         /\ \A X \in SUBSET Task : t \in X /\ Closed(dep, X) => Reach(dep, t) \subseteq X
<1>1. t \in Reach(dep, t) /\ Reach(dep, t) \in SUBSET Task
  BY DEF Reach
<1>2. \A X \in SUBSET Task : t \in X /\ Closed(dep, X) => Reach(dep, t) \subseteq X
  BY DEF Reach
<1>3. ASSUME NEW u \in Reach(dep, t), NEW i \in DOMAIN dep[u] PROVE dep[u][i] \in Reach(dep, t)
  <2>1. u \in Task /\ dep[u][i] \in Task
    BY <1>1, Entry
  <2>2. ASSUME NEW X \in SUBSET Task, t \in X, Closed(dep, X) PROVE dep[u][i] \in X
    BY <1>2, <2>2 DEF Closed
  <2> QED
    BY <2>1, <2>2 DEF Reach
<1>4. Closed(dep, Reach(dep, t))
  BY <1>3 DEF Closed
<1> QED
  BY <1>1, <1>2, <1>4

LEMMA FoundIs ==
  ASSUME NEW dep \in Graph, NEW w \in Visits, More(dep, w)
  PROVE  /\ w[3] + 1 \in DOMAIN dep[w[2]] /\ Found(dep, w) = dep[w[2]][w[3] + 1]
         /\ Deeper(dep, w)[1] = w[1] \cup {Found(dep, w)} /\ Deeper(dep, w)[2] = Found(dep, w)
         /\ Deeper(dep, w)[3] = 0
         /\ Found(dep, w) \in Task /\ Deeper(dep, w) \in Visits
<1>1. w[2] \in Task /\ w[3] \in Nat /\ Len(dep[w[2]]) \in Nat
  BY NextVisits
<1>2. w[3] + 1 \in DOMAIN dep[w[2]]
  BY <1>1, Entry DEF More
<1> QED
  BY <1>2, NextVisits DEF Found, Deeper

LEMMA FurtherIs ==
  ASSUME NEW w \in Visits
  PROVE  Further(w)[1] = w[1] /\ Further(w)[2] = w[2] /\ Further(w)[3] = w[3] + 1
BY DEF Further

(* Nothing outside of a closed set that the walk starts in is popped.      *)
LEMMA PopsWithin ==
  ASSUME NEW dep \in Graph, NEW v, Visiting(dep, v), NEW X \in SUBSET Task, Closed(dep, X)
  PROVE  \A w \in Visits : w[2] \in X => Pops(v, w) \subseteq X
<1> DEFINE G == { w \in Visits : w[2] \in X => Pops(v, w) \subseteq X }
<1>1. PICK mu, B : Descends(dep, mu, B)
  BY Measure
<1>2. mu \in [Visits -> Nat]
  BY <1>1 DEF Descends
<1>3. ASSUME NEW w \in Visits, \A x \in Visits : mu[x] < mu[w] => x \in G, w[2] \in X
      PROVE  Pops(v, w) \subseteq X
  <2>1. Turn(dep, v, w) /\ Further(w) \in Visits
    BY Turns, NextVisits
  <2>2. ASSUME More(dep, w) PROVE Pops(v, Further(w)) \subseteq X
    <3>1. Further(w) \in G
      BY <1>1, <1>3, <2>1, <2>2 DEF Descends
    <3> QED
      BY <1>3, <3>1, FurtherIs
  <2>3. ASSUME More(dep, w), Found(dep, w) \notin w[1] PROVE Pops(v, Deeper(dep, w)) \subseteq X
    <3>1. Deeper(dep, w) \in Visits /\ Deeper(dep, w)[2] = Found(dep, w) /\ Found(dep, w) \in X
      BY <1>3, <2>3, FoundIs DEF Closed
    <3>2. Deeper(dep, w) \in G
      BY <1>1, <1>3, <2>3, <3>1 DEF Descends
    <3> QED
      BY <3>1, <3>2
  <2>4. CASE ~More(dep, w)
    BY <1>3, <2>1, <2>4 DEF Turn
  <2>5. CASE More(dep, w) /\ Found(dep, w) \in w[1]
    BY <2>1, <2>2, <2>5 DEF Turn
  <2>6. CASE More(dep, w) /\ Found(dep, w) \notin w[1]
    BY <2>1, <2>2, <2>3, <2>6 DEF Turn
  <2> QED
    BY <2>4, <2>5, <2>6
<1>4. \A w \in Visits : (\A x \in Visits : mu[x] < mu[w] => x \in G) => w \in G
  BY <1>3
<1> HIDE DEF G
<1>5. \A w \in Visits : w \in G
  BY <1>2, <1>4, Downhill
<1> QED
  BY <1>5 DEF G

(* What a popped task depends on is popped too, or on the stack.           *)
Covered(dep, w, P) ==
  /\ w[2] \in P /\ P \cap w[1] = {w[2]}
  /\ \A u \in P \ {w[2]} : \A i \in DOMAIN dep[u] : dep[u][i] \in P \cup w[1]
  /\ \A i \in DOMAIN dep[w[2]] : i > w[3] => dep[w[2]][i] \in P \cup w[1]

LEMMA PopsCovered ==
  ASSUME NEW dep \in Graph, NEW v, Visiting(dep, v)
  PROVE  \A w \in Visits : w[2] \in w[1] => Covered(dep, w, Pops(v, w))
<1> DEFINE G == { w \in Visits : w[2] \in w[1] => Covered(dep, w, Pops(v, w)) }
<1>1. PICK mu, B : Descends(dep, mu, B)
  BY Measure
<1>2. mu \in [Visits -> Nat]
  BY <1>1 DEF Descends
<1>3. ASSUME NEW w \in Visits, \A x \in Visits : mu[x] < mu[w] => x \in G, w[2] \in w[1]
      PROVE  Covered(dep, w, Pops(v, w))
  <2>1. /\ Turn(dep, v, w) /\ Further(w) \in Visits /\ w[3] \in Nat /\ w[2] \in Task
        /\ Len(dep[w[2]]) \in Nat /\ DOMAIN dep[w[2]] = 1..Len(dep[w[2]])
    BY Turns, NextVisits, Entry
  <2> DEFINE d == Found(dep, w)
             A == Pops(v, Deeper(dep, w))
             C == Pops(v, Further(w))
             P == Pops(v, w)
  <2>2. ASSUME More(dep, w)
        PROVE  /\ w[2] \in C /\ C \cap w[1] = {w[2]}
               /\ \A u \in C \ {w[2]} : \A i \in DOMAIN dep[u] : dep[u][i] \in C \cup w[1]
               /\ \A i \in DOMAIN dep[w[2]] : i > w[3] + 1 => dep[w[2]][i] \in C \cup w[1]
    <3>1. Further(w) \in G
      BY <1>1, <1>3, <2>1, <2>2 DEF Descends
    <3>2. Covered(dep, Further(w), C)
      BY <1>3, <3>1, FurtherIs
    <3> QED
      BY <3>2, FurtherIs DEF Covered
  <2>3. ASSUME More(dep, w), d \notin w[1]
        PROVE  /\ d \in A /\ A \cap (w[1] \cup {d}) = {d}
               /\ \A u \in A \ {d} : \A i \in DOMAIN dep[u] : dep[u][i] \in A \cup w[1] \cup {d}
               /\ \A i \in DOMAIN dep[d] : i > 0 => dep[d][i] \in A \cup w[1] \cup {d}
    <3>1. Deeper(dep, w) \in Visits
      BY <2>3, FoundIs
    <3>2. Deeper(dep, w) \in G
      BY <1>1, <1>3, <2>3, <3>1 DEF Descends
    <3>3. Deeper(dep, w)[1] = w[1] \cup {d} /\ Deeper(dep, w)[2] = d /\ Deeper(dep, w)[3] = 0
      BY <2>3, FoundIs
    <3>4. Covered(dep, Deeper(dep, w), A)
      BY <3>2, <3>3
    <3> QED
      BY <3>3, <3>4 DEF Covered
  <2>4. ASSUME More(dep, w), NEW i \in DOMAIN dep[w[2]], i > w[3]
        PROVE  i > w[3] + 1 \/ dep[w[2]][i] = d
    <3>1. i \in Nat
      BY <2>1
    <3>2. i > w[3] + 1 \/ i = w[3] + 1
      BY <2>1, <2>4, <3>1
    <3> QED
      BY <2>4, <3>2, FoundIs
  <2>5. CASE ~More(dep, w)
    <3>1. P = {w[2]}
      BY <2>1, <2>5 DEF Turn
    <3>2. \A i \in DOMAIN dep[w[2]] : ~(i > w[3])
      BY <2>1, <2>5 DEF More
    <3> QED
      BY <1>3, <3>1, <3>2 DEF Covered
  <2>6. CASE More(dep, w) /\ d \in w[1]
    <3>1. P = C
      BY <2>1, <2>6 DEF Turn
    <3> HIDE DEF P, C, d
    <3> QED
      BY <2>2, <2>4, <2>6, <3>1 DEF Covered, P
  <2>7. CASE More(dep, w) /\ d \notin w[1]
    <3>1. P = A \cup C
      BY <2>1, <2>7 DEF Turn
    <3>2. \A i \in DOMAIN dep[d] : i > 0
      <4>1. d \in Task
        BY <2>7, FoundIs
      <4> QED
        BY <4>1, Entry
    <3> HIDE DEF P, A, C, d
    <3>3. w[2] \in P /\ P \cap w[1] = {w[2]}
      BY <2>2, <2>3, <2>7, <3>1
    <3>4. ASSUME NEW u \in P \ {w[2]}, NEW i \in DOMAIN dep[u]
          PROVE  dep[u][i] \in P \cup w[1]
      <4>1. CASE u \in C
        BY <2>2, <2>7, <3>1, <3>4, <4>1
      <4>2. CASE u \in A /\ u # d
        BY <2>3, <2>7, <3>1, <3>4, <4>2
      <4>3. CASE u = d
        BY <2>3, <2>7, <3>1, <3>2, <3>4, <4>3
      <4> QED
        BY <3>1, <4>1, <4>2, <4>3
    <3>5. ASSUME NEW i \in DOMAIN dep[w[2]], i > w[3] PROVE dep[w[2]][i] \in P \cup w[1]
      BY <2>2, <2>3, <2>4, <2>7, <3>1, <3>5
    <3>6. Covered(dep, w, P)
      BY <3>3, <3>4, <3>5 DEF Covered
    <3> QED
      BY <3>6 DEF P
  <2> QED
    BY <2>5, <2>6, <2>7
<1>4. \A w \in Visits : (\A x \in Visits : mu[x] < mu[w] => x \in G) => w \in G
  BY <1>3
<1> HIDE DEF G
<1>5. \A w \in Visits : w \in G
  BY <1>2, <1>4, Downhill
<1> QED
  BY <1>5 DEF G

(* A circle that is met is one: all tasks on the stack depend on the top.  *)
LEMMA CircIsCycle ==
  ASSUME NEW dep \in Graph, NEW v, Visiting(dep, v), NEW X \in SUBSET Task, Closed(dep, X)
  PROVE  \A w \in Visits :
           (/\ w[2] \in w[1] /\ w[1] \subseteq X /\ v[w].circ
            /\ \A p \in w[1] : w[2] \in Reach(dep, p))
           => \E u \in X : OnCycle(dep, u)
<1> DEFINE On1(w) == w[2] \in w[1] /\ w[1] \subseteq X /\ \A p \in w[1] : w[2] \in Reach(dep, p)
           Cyc == \E u \in X : OnCycle(dep, u)
           G == { w \in Visits : On1(w) /\ v[w].circ => Cyc }
<1>1. PICK mu, B : Descends(dep, mu, B)
  BY Measure
<1>2. mu \in [Visits -> Nat]
  BY <1>1 DEF Descends
<1>3. ASSUME NEW w \in Visits, \A x \in Visits : mu[x] < mu[w] => x \in G, On1(w), v[w].circ
      PROVE  Cyc
  <2>1. Turn(dep, v, w) /\ Further(w) \in Visits /\ w[1] \in SUBSET Task
    BY Turns, NextVisits, VisitParts
  <2>2. CASE ~More(dep, w)
    BY <1>3, <2>1, <2>2 DEF Turn
  <2>3. ASSUME More(dep, w), v[Further(w)].circ PROVE Cyc
    <3>1. Further(w) \in G
      BY <1>1, <1>3, <2>1, <2>3 DEF Descends
    <3>2. On1(Further(w))
      BY <1>3, FurtherIs
    <3> QED
      BY <2>3, <3>1, <3>2
  <2>4. CASE More(dep, w) /\ Found(dep, w) \in w[1]
    <3>1. w[2] \in Reach(dep, Found(dep, w)) /\ w[2] \in X
      BY <1>3, <2>4
    <3>2. OnCycle(dep, w[2])
      BY <2>4, <3>1, FoundIs DEF OnCycle
    <3> QED
      BY <3>1, <3>2
  <2>5. CASE More(dep, w) /\ Found(dep, w) \notin w[1]
    <3>1. CASE v[Further(w)].circ
      BY <2>3, <2>5, <3>1
    <3>2. CASE v[Deeper(dep, w)].circ
      <4> DEFINE d == Found(dep, w)
                 x == Deeper(dep, w)
      <4>1. /\ x \in Visits /\ x[1] = w[1] \cup {d} /\ x[2] = d /\ d \in Task
            /\ w[3] + 1 \in DOMAIN dep[w[2]] /\ d = dep[w[2]][w[3] + 1]
        BY <2>5, FoundIs
      <4>2. x \in G
        BY <1>1, <1>3, <2>5, <4>1 DEF Descends
      <4>3. d \in X
        BY <1>3, <4>1 DEF Closed
      <4>4. ASSUME NEW p \in x[1] PROVE d \in Reach(dep, p)
        <5>1. CASE p = d
          BY <4>1, <5>1, ReachFacts
        <5>2. CASE p \in w[1]
          <6>1. p \in Task /\ w[2] \in Reach(dep, p)
            BY <1>3, <2>1, <5>2
          <6>2. Closed(dep, Reach(dep, p))
            BY <6>1, ReachFacts
          <6> QED
            BY <4>1, <6>1, <6>2 DEF Closed
        <5> QED
          BY <4>1, <4>4, <5>1, <5>2
      <4>5. On1(x)
        BY <1>3, <4>1, <4>3, <4>4
      <4> QED
        BY <3>2, <4>2, <4>5
    <3> QED
      BY <1>3, <2>1, <2>5, <3>1, <3>2 DEF Turn
  <2> QED
    BY <2>2, <2>4, <2>5
<1>4. \A w \in Visits : (\A x \in Visits : mu[x] < mu[w] => x \in G) => w \in G
  BY <1>3
<1> HIDE DEF G
<1>5. \A w \in Visits : w \in G
  BY <1>2, <1>4, Downhill
<1>6. ASSUME NEW w \in Visits, On1(w), v[w].circ PROVE Cyc
  <2>1. w \in G
    BY <1>5
  <2> QED
    BY <1>6, <2>1 DEF G
<1> QED
  BY <1>6

(* When no circle is met, what is popped below the top frame is closed and *)
(* has no circle in it.                                                    *)
Acyclic(dep, w, P) ==
  /\ Closed(dep, P \ {w[2]})
  /\ \A i \in DOMAIN dep[w[2]] : i > w[3] => dep[w[2]][i] \in P \ {w[2]}
  /\ \A u \in P \ {w[2]} : ~OnCycle(dep, u)

LEMMA PopsTasks ==
  ASSUME NEW dep \in Graph, NEW v, Visiting(dep, v)
  PROVE  \A w \in Visits : Pops(v, w) \subseteq Task
<1>1. Task \in SUBSET Task /\ Closed(dep, Task)
  BY Entry DEF Closed
<1> QED
  BY <1>1, PopsWithin, NextVisits

LEMMA NotOnCycle ==
  ASSUME NEW dep \in Graph, NEW d \in Task, NEW X \in SUBSET Task, Closed(dep, X), d \notin X,
         \A i \in DOMAIN dep[d] : dep[d][i] \in X
  PROVE  ~OnCycle(dep, d)
<1>1. ASSUME NEW i \in DOMAIN dep[d] PROVE d \notin Reach(dep, dep[d][i])
  <2>1. dep[d][i] \in Task /\ dep[d][i] \in X
    BY Entry
  <2> QED
    BY <2>1, ReachFacts
<1> QED
  BY <1>1 DEF OnCycle

LEMMA NoCircIsAcyclic ==
  ASSUME NEW dep \in Graph, NEW v, Visiting(dep, v)
  PROVE  \A w \in Visits : w[2] \in w[1] /\ ~v[w].circ => Acyclic(dep, w, Pops(v, w))
<1> DEFINE G == { w \in Visits : w[2] \in w[1] /\ ~v[w].circ => Acyclic(dep, w, Pops(v, w)) }
<1>1. PICK mu, B : Descends(dep, mu, B)
  BY Measure
<1>2. mu \in [Visits -> Nat]
  BY <1>1 DEF Descends
<1>3. ASSUME NEW w \in Visits, \A x \in Visits : mu[x] < mu[w] => x \in G,
             w[2] \in w[1], ~v[w].circ
      PROVE  Acyclic(dep, w, Pops(v, w))
  <2>1. /\ Turn(dep, v, w) /\ Further(w) \in Visits /\ w[3] \in Nat /\ w[2] \in Task
        /\ Len(dep[w[2]]) \in Nat /\ DOMAIN dep[w[2]] = 1..Len(dep[w[2]])
    BY Turns, NextVisits, Entry
  <2> DEFINE d == Found(dep, w)
             A == Pops(v, Deeper(dep, w))
             C == Pops(v, Further(w))
             P == Pops(v, w)
  <2>2. CASE ~More(dep, w)
    <3>1. P = {w[2]}
      BY <2>1, <2>2 DEF Turn
    <3>2. \A i \in DOMAIN dep[w[2]] : ~(i > w[3])
      BY <2>1, <2>2 DEF More
    <3> QED
      BY <3>1, <3>2 DEF Acyclic, Closed
  <2>3. CASE More(dep, w) /\ d \in w[1]
    BY <1>3, <2>1, <2>3 DEF Turn
  <2>4. CASE More(dep, w) /\ d \notin w[1]
    <3>1. /\ Deeper(dep, w) \in Visits /\ d \in Task
          /\ Deeper(dep, w)[1] = w[1] \cup {d} /\ Deeper(dep, w)[2] = d /\ Deeper(dep, w)[3] = 0
      BY <2>4, FoundIs
    <3>2. P = A \cup C /\ ~v[Deeper(dep, w)].circ /\ ~v[Further(w)].circ
      BY <1>3, <2>1, <2>4 DEF Turn
    <3>3. Acyclic(dep, Deeper(dep, w), A)
      <4>1. Deeper(dep, w) \in G
        BY <1>1, <1>3, <2>4, <3>1 DEF Descends
      <4> QED
        BY <3>1, <3>2, <4>1
    <3>4. Acyclic(dep, Further(w), C)
      <4>1. Further(w) \in G
        BY <1>1, <1>3, <2>1, <2>4 DEF Descends
      <4> QED
        BY <1>3, <3>2, <4>1, FurtherIs
    <3>5. d \in A /\ A \cap (w[1] \cup {d}) = {d}
      BY <3>1, PopsCovered DEF Covered
    <3>6. A \subseteq Task
      BY <3>1, PopsTasks
    <3>7. \A i \in DOMAIN dep[d] : dep[d][i] \in A \ {d}
      <4>1. \A i \in DOMAIN dep[d] : i > 0
        BY <3>1, Entry
      <4> QED
        BY <3>1, <3>3, <4>1 DEF Acyclic
    <3>8. Closed(dep, A \ {d}) /\ \A u \in A \ {d} : ~OnCycle(dep, u)
      BY <3>1, <3>3 DEF Acyclic
    <3>9. ~OnCycle(dep, d)
      <4>1. A \ {d} \in SUBSET Task /\ d \notin A \ {d}
        BY <3>6
      <4> QED
        BY <3>1, <3>7, <3>8, <4>1, NotOnCycle
    <3>10. /\ Closed(dep, C \ {w[2]}) /\ \A u \in C \ {w[2]} : ~OnCycle(dep, u)
           /\ \A i \in DOMAIN dep[w[2]] : i > w[3] + 1 => dep[w[2]][i] \in C \ {w[2]}
      BY <3>4, FurtherIs DEF Acyclic
    <3>11. \A i \in DOMAIN dep[w[2]] : i > w[3] => i > w[3] + 1 \/ dep[w[2]][i] = d
      <4>1. \A i \in DOMAIN dep[w[2]] : i > w[3] => i > w[3] + 1 \/ i = w[3] + 1
        BY <2>1
      <4> QED
        BY <2>4, <4>1, FoundIs
    <3> HIDE DEF P, A, C, d
    <3>12. P \ {w[2]} = A \cup (C \ {w[2]})
      BY <1>3, <2>4, <3>2, <3>5
    <3>13. Closed(dep, P \ {w[2]})
      BY <3>7, <3>8, <3>10, <3>12 DEF Closed
    <3>14. \A u \in P \ {w[2]} : ~OnCycle(dep, u)
      BY <3>8, <3>9, <3>10, <3>12
    <3>15. \A i \in DOMAIN dep[w[2]] : i > w[3] => dep[w[2]][i] \in P \ {w[2]}
      BY <3>5, <3>10, <3>11, <3>12
    <3>16. Acyclic(dep, w, P)
      BY <3>13, <3>14, <3>15 DEF Acyclic
    <3> QED
      BY <3>16 DEF P
  <2> QED
    BY <2>2, <2>3, <2>4
<1>4. \A w \in Visits : (\A x \in Visits : mu[x] < mu[w] => x \in G) => w \in G
  BY <1>3
<1> HIDE DEF G
<1>5. \A w \in Visits : w \in G
  BY <1>2, <1>4, Downhill
<1>6. ASSUME NEW w \in Visits, w[2] \in w[1], ~v[w].circ PROVE Acyclic(dep, w, Pops(v, w))
  <2>1. w \in G
    BY <1>5
  <2> QED
    BY <1>6, <2>1 DEF G
<1> QED
  BY <1>6

-----------------------------------------------------------------------------
(* The queries give what the header says of them.                          *)

(* Walk pops exactly the tree, and meets a circle exactly if there is one. *)
LEMMA PoppedIsReach ==
  ASSUME NEW dep \in Graph, NEW t \in Task
  PROVE  /\ Popped(dep, t) = Reach(dep, t)
         /\ Task_hasCircDeps(dep, t) <=> \E u \in Reach(dep, t) : OnCycle(dep, u)
         /\ Task_hasCircDeps(dep, t) \in BOOLEAN
<1>1. PICK v : Visiting(dep, v) /\ \A s \in Task : Walk(dep, s) = v[<<{s}, s, 0>>]
  BY WalkIs
<1>2. PICK w : w = <<{t}, t, 0>>
  OBVIOUS
<1>3. w \in Visits /\ w[1] = {t} /\ w[2] = t /\ w[3] = 0 /\ Walk(dep, t) = v[w]
  BY <1>1, <1>2, VisitParts
<1> DEFINE P == Pops(v, w)
           R == Reach(dep, t)
<1>4. Popped(dep, t) = P
  BY <1>3 DEF Popped, Pops, Queued
<1>5. P \subseteq Task
  BY <1>1, <1>3, PopsTasks
<1>6. \A i \in DOMAIN dep[t] : i > 0
  BY Entry
<1>7. R \subseteq P
  <2>1. Covered(dep, w, P)
    BY <1>1, <1>3, PopsCovered
  <2>2. t \in P /\ Closed(dep, P)
    BY <1>3, <1>6, <2>1 DEF Covered, Closed
  <2> QED
    BY <1>5, <2>2, ReachFacts
<1>8. P \subseteq R
  <2>1. t \in R /\ R \in SUBSET Task /\ Closed(dep, R)
    BY ReachFacts
  <2> QED
    BY <1>1, <1>3, <2>1, PopsWithin
<1>9. ASSUME v[w].circ PROVE \E u \in R : OnCycle(dep, u)
  <2>1. t \in R /\ R \in SUBSET Task /\ Closed(dep, R)
    BY ReachFacts
  <2>2. w[2] \in w[1] /\ w[1] \subseteq R /\ \A p \in w[1] : w[2] \in Reach(dep, p)
    BY <1>3, <2>1
  <2> HIDE DEF R
  <2> QED
    BY <1>1, <1>3, <1>9, <2>1, <2>2, CircIsCycle
<1>10. ASSUME ~v[w].circ, NEW u \in R PROVE ~OnCycle(dep, u)
  <2>1. Acyclic(dep, w, P)
    BY <1>1, <1>3, <1>10, NoCircIsAcyclic
  <2>2. Closed(dep, P \ {t}) /\ (\A i \in DOMAIN dep[t] : dep[t][i] \in P \ {t})
        /\ \A s \in P \ {t} : ~OnCycle(dep, s)
    BY <1>3, <1>6, <2>1 DEF Acyclic
  <2>3. P \ {t} \in SUBSET Task /\ t \notin P \ {t}
    BY <1>5
  <2>4. ~OnCycle(dep, t)
    BY <2>2, <2>3, NotOnCycle
  <2> QED
    BY <1>7, <1>10, <2>2, <2>4
<1>11. Task_hasCircDeps(dep, t) = v[w].circ /\ v[w].circ \in BOOLEAN
  BY <1>1, <1>3, Turns DEF Task_hasCircDeps, Results
<1> QED
  BY <1>4, <1>7, <1>8, <1>9, <1>10, <1>11

-----------------------------------------------------------------------------
(* The steps, with what the walks find *)

(* If no task was freed with an edge on it, every pointer of a task that   *)
(* exists is to one that exists.                                           *)
LEMMA StaleStep == IInv /\ dirty = {} => NoStale
<1> SUFFICES ASSUME IInv, dirty = {}, NEW t \in live
             PROVE  Queued(depend[t]) \cup Queued(blocks[t]) \subseteq live
  BY DEF NoStale
<1>1. depend[t] \in Seq(Task) /\ blocks[t] \in Seq(Task)
  BY DEF IInv, Types
<1>2. ASSUME NEW s \in Task \ live
      PROVE  s \notin Queued(depend[t]) /\ s \notin Queued(blocks[t])
    <2>1. Occurrences(depend[t], s) = 0 /\ Occurrences(blocks[t], s) = 0
      BY DEF IInv, Clean
    <2> QED
      BY <1>1, <2>1, NoneTimes, Same
<1>3. Queued(depend[t]) \subseteq Task /\ Queued(blocks[t]) \subseteq Task
  BY <1>1, QueuedFacts
<1> QED
  BY <1>2, <1>3

LEMMA Depends ==
  ASSUME IInv
  PROVE  depend \in Graph /\ live \subseteq Task /\ \A t \in live : t \in Task
BY DEF IInv, Types, Graph

(* While all pointers of live tasks are to live tasks, the walk from one   *)
(* stays among them.                                                       *)
LEMMA WalkStays ==
  ASSUME IInv, NoStale, NEW t \in live
  PROVE  Popped(depend, t) \subseteq live
<1>1. depend \in Graph /\ live \in SUBSET Task /\ t \in Task
  BY Depends
<1>2. Closed(depend, live)
  BY DEF Closed, NoStale, Queued
<1> QED
  BY <1>1, <1>2, ReachFacts, PoppedIsReach

(* Free memory is used only after a task was freed with an edge on it.     *)
SafeInv == IInv /\ (dirty = {} => ~fault)

LEMMA SafeStep == SafeInv /\ [Next]_vars => SafeInv'
<1> SUFFICES ASSUME SafeInv, [Next]_vars PROVE SafeInv'
  OBVIOUS
<1>1. IInv /\ IInv'
  BY Step DEF SafeInv
<1>2. SUFFICES ASSUME dirty' = {} PROVE ~fault'
  BY <1>1 DEF SafeInv
<1>3. ASSUME dirty = {} PROVE NoStale /\ ~fault
  BY <1>1, <1>3, StaleStep DEF SafeInv
<1>4. CASE UNCHANGED <<dirty, fault>>
  BY <1>2, <1>3, <1>4
<1>5. ASSUME NEW t \in Task, Task_Free(t) PROVE ~fault'
  <2>1. t \in live /\ dirty = {}
    BY <1>2, <1>5 DEF Task_Free
  <2>2. Queued(depend[t]) \cup Queued(blocks[t]) \subseteq live
    BY <1>3, <2>1 DEF NoStale
  <2> QED
    BY <1>5, <2>2 DEF Task_Free
<1>6. ASSUME NEW t \in Task, Task_ResetTree(t) PROVE ~fault'
  <2>1. t \in live /\ dirty = {}
    BY <1>2, <1>6 DEF Task_ResetTree
  <2>2. Popped(depend, t) \subseteq live
    BY <1>1, <1>3, <2>1, WalkStays
  <2> QED
    BY <1>6, <2>2 DEF Task_ResetTree
<1>7. ASSUME NEW t \in Task, Task_Do(t) PROVE ~fault'
  <2>1. t \in live /\ dirty = {} /\ fault' = ReadsFree(t)
    BY <1>2, <1>7 DEF Task_Do
  <2>2. \A i \in DOMAIN depend[t] : depend[t][i] \in live
    BY <1>3, <2>1 DEF NoStale, Queued
  <2> QED
    BY <2>1, <2>2 DEF ReadsFree
<1> QED
  BY <1>4, <1>5, <1>6, <1>7
  DEF Next, vars, Task_Init, Task_Depend_Add, Task_Depend_Del, Task_setEnabled, Task_Reset

-----------------------------------------------------------------------------
(* The theorems *)

(* Every field keeps its type.                                             *)
THEOREM TypeCorrect == Spec => []TypeOK
<1>1. Init => TypeOK
  BY EmptyFacts DEF Init, TypeOK
<1>2. ASSUME IInv, IInv', TypeOK, [Next]_vars PROVE TypeOK'
  <2>1. /\ enable \in [Task -> BOOLEAN] /\ exec \in [Task -> BOOLEAN] /\ fault \in BOOLEAN
        /\ live' \subseteq Task /\ dirty' \subseteq Task
        /\ depend' \in [Task -> Seq(Task)] /\ blocks' \in [Task -> Seq(Task)]
    BY <1>2 DEF TypeOK, IInv, Types
  <2>2. \/ UNCHANGED <<enable, exec, fault>>
        \/ \E t \in Task, val \in BOOLEAN, old \in BOOLEAN :
             /\ enable' = [enable EXCEPT ![t] = val] \/ UNCHANGED enable
             /\ exec' = [exec EXCEPT ![t] = old] \/ UNCHANGED exec
             /\ fault' \in BOOLEAN
        \/ \E t \in Task : Task_ResetTree(t)
        \/ \E t \in Task : Task_Do(t)
    BY <1>2, <2>1
    DEF Next, vars, Task_Init, Task_Free, Task_Depend_Add, Task_Depend_Del, Task_setEnabled,
        Task_Reset
  <2>3. enable' \in [Task -> BOOLEAN] /\ exec' \in [Task -> BOOLEAN] /\ fault' \in BOOLEAN
    BY <2>1, <2>2 DEF Task_ResetTree, Task_Do, ReadsFree
  <2> QED
    BY <2>1, <2>3 DEF TypeOK
<1>3. Spec => []IInv
  BY InitIInv, Step, PTL DEF Spec
<1> QED
  BY <1>1, <1>2, <1>3, PTL DEF Spec

(* The two copies of every edge agree, between addresses that were never   *)
(* freed with an edge on them.                                             *)
THEOREM MirrorHolds == Spec => []Mirror
<1>1. Spec => []IInv
  BY InitIInv, Step, PTL DEF Spec
<1>2. IInv => Mirror
  BY DEF IInv
<1> QED
  BY <1>1, <1>2, PTL

(* If no task is freed with an edge on it, no listing of a task that       *)
(* exists has a pointer to one that does not.                              *)
THEOREM NoStaleIfDetached == Spec => [](dirty = {} => NoStale)
<1>1. Spec => []IInv
  BY InitIInv, Step, PTL DEF Spec
<1>2. IInv => (dirty = {} => NoStale)
  BY StaleStep
<1> QED
  BY <1>1, <1>2, PTL

(* The walks of task.c:93-161, which end for every graph of finitely many  *)
(* tasks, answer what task.h says: Task_isDependent, Task_isEnabled and    *)
(* Task_hasCircDeps go over the smallest set that is closed under the      *)
(* dependencies, whatever is shared, added twice or in a circle.           *)
THEOREM QueriesAgreeHolds == Spec => []QueriesAgree
<1>1. Spec => []IInv
  BY InitIInv, Step, PTL DEF Spec
<1>2. IInv => QueriesAgree
  <2> SUFFICES ASSUME IInv, NEW t \in live
      PROVE  /\ Popped(depend, t) = Reach(depend, t)
             /\ Task_isEnabled(depend, enable, t) = (\A u \in Reach(depend, t) : enable[u])
             /\ Task_hasCircDeps(depend, t) = (\E u \in Reach(depend, t) : OnCycle(depend, u))
    BY DEF QueriesAgree
  <2>1. depend \in Graph /\ t \in Task
    BY Depends
  <2>2. /\ Popped(depend, t) = Reach(depend, t) /\ t \in Reach(depend, t)
        /\ Task_hasCircDeps(depend, t) <=> \E u \in Reach(depend, t) : OnCycle(depend, u)
        /\ Task_hasCircDeps(depend, t) \in BOOLEAN
    BY <2>1, PoppedIsReach, ReachFacts
  <2>3. Task_isEnabled(depend, enable, t) = (\A u \in Reach(depend, t) : enable[u])
    BY <2>2 DEF Task_isEnabled
  <2> QED
    BY <2>2, <2>3
<1> QED
  BY <1>1, <1>2, PTL

(* A client that detaches its tasks before it frees them never makes the   *)
(* code use free memory: not in Task_Free, not in the walk of              *)
(* Task_ResetTree, not in Task_Do.                                         *)
THEOREM SafeIfDetachedHolds == Spec => []SafeIfDetached
<1>1. Init => SafeInv
  BY InitIInv DEF SafeInv, Init
<1>2. SafeInv => SafeIfDetached
  BY StaleStep DEF SafeInv, SafeIfDetached, NoStale
<1> QED
  BY <1>1, <1>2, SafeStep, PTL DEF Spec

(* What a step may clear depends on the flags being Booleans.              *)
ExecInv == IInv /\ exec \in [Task -> BOOLEAN]

ResetStep ==
  live' = live =>
    LET cleared == { t \in Task : exec[t] /\ ~exec'[t] }
    IN  \/ Cardinality(cleared) <= 1
        \/ \E t \in live : cleared = { u \in Reach(depend, t) : exec[u] }

LEMMA ExecStep == ExecInv /\ [Next]_vars => ExecInv' /\ ResetStep
<1> SUFFICES ASSUME ExecInv, [Next]_vars PROVE ExecInv' /\ ResetStep
  OBVIOUS
<1>1. IInv /\ IInv' /\ exec \in [Task -> BOOLEAN]
  BY Step DEF ExecInv
<1> DEFINE cleared == { t \in Task : exec[t] /\ ~exec'[t] }
<1>2. ASSUME cleared = {} PROVE ResetStep
  <2>1. Cardinality(cleared) <= 1
    BY <1>2, FS_EmptySet
  <2> QED
    BY <2>1 DEF ResetStep
<1>3. CASE UNCHANGED exec
  <2>1. cleared = {}
    BY <1>3
  <2> QED
    BY <1>1, <1>2, <1>3, <2>1 DEF ExecInv
<1>4. ASSUME NEW t \in Task, Task_Init(t) \/ Task_Free(t) PROVE ExecInv' /\ ResetStep
  <2>1. exec' = [exec EXCEPT ![t] = FALSE] /\ live' # live
    BY <1>4 DEF Task_Init, Task_Free
  <2> QED
    BY <1>1, <2>1 DEF ExecInv, ResetStep
<1>5. ASSUME NEW t \in Task, Task_Reset(t) PROVE ExecInv' /\ ResetStep
  <2>1. exec' = [exec EXCEPT ![t] = FALSE]
    BY <1>5 DEF Task_Reset
  <2>2. cleared = {} \/ cleared = {t}
    BY <1>1, <2>1
  <2>3. Cardinality(cleared) <= 1
    <3>1. Cardinality({}) = 0 /\ Cardinality({t}) = 1
      BY FS_EmptySet, FS_Singleton
    <3> HIDE DEF cleared
    <3> QED
      BY <2>2, <3>1
  <2>4. ResetStep
    BY <2>3 DEF ResetStep
  <2> QED
    BY <1>1, <2>1, <2>4 DEF ExecInv
<1>6. ASSUME NEW t \in Task, Task_ResetTree(t) PROVE ExecInv' /\ ResetStep
  <2>1. t \in live /\ exec' = [u \in Task |-> exec[u] /\ u \notin Popped(depend, t)]
    BY <1>6 DEF Task_ResetTree
  <2>2. Popped(depend, t) = Reach(depend, t) /\ Reach(depend, t) \subseteq Task
    BY <1>1, Depends, PoppedIsReach, ReachFacts
  <2>3. cleared = { u \in Reach(depend, t) : exec[u] }
    BY <2>1, <2>2
  <2>4. ResetStep
    BY <2>1, <2>3 DEF ResetStep
  <2>5. exec' \in [Task -> BOOLEAN]
    BY <2>1
  <2> QED
    BY <1>1, <2>4, <2>5 DEF ExecInv
<1>7. ASSUME NEW t \in Task, Task_Do(t) PROVE ExecInv' /\ ResetStep
  <2>1. exec' = [exec EXCEPT ![t] = @ \/ Task_Ready(depend, enable, exec, t)]
    BY <1>7 DEF Task_Do
  <2>2. \A u \in Task : exec[u] => exec'[u]
    BY <1>1, <2>1
  <2>3. exec' \in [Task -> BOOLEAN]
    BY <1>1, <2>1
  <2>4. cleared = {}
    BY <2>2
  <2> QED
    BY <1>1, <1>2, <2>3, <2>4 DEF ExecInv
<1> QED
  BY <1>3, <1>4, <1>5, <1>6, <1>7
  DEF Next, vars, Task_Depend_Add, Task_Depend_Del, Task_setEnabled

(* One call clears at most one task, or all that was executed in the tree  *)
(* of a task (task.c:183-205).                                             *)
THEOREM ResetsWholeTreeHolds == Spec => ResetsWholeTree
<1>1. Init => ExecInv
  BY InitIInv DEF ExecInv, Init
<1>2. ExecInv /\ [Next]_vars => ExecInv'
  BY ExecStep
<1>3. ExecInv /\ [Next]_vars => [ResetStep]_vars
  BY ExecStep
<1>4. Spec => [][ResetStep]_vars
  BY <1>1, <1>2, <1>3, PTL DEF Spec
<1> QED
  BY <1>4, PTL DEF ResetsWholeTree, ResetStep
=============================================================================
