-------------------------- MODULE TabulationProofs --------------------------
(***************************************************************************)
(* What holds of Tabulation for every set of indexes, data, values and     *)
(* hash routines: its three invariants.  The inductive one says, for every *)
(* step of a Foreach over the indexes, which of them have had their turn.  *)
(***************************************************************************)
EXTENDS Tabulation, ListingLemmas

Once(q) == \A j, k \in DOMAIN q : q[j] = q[k] => j = k
Tree(t) == \A h \in DOMAIN t : t[h] \in Seq(Datum) /\ t[h] # <<>> /\ Once(t[h])
In(t, h, d) == h \in DOMAIN t /\ d \in Queued(t[h])
Home(i, d) == index[i].hashgen[value[d]]
Rec(x) == x = [hashgen |-> x.hashgen, frees |-> x.frees, data |-> x.data]

Types ==
  /\ exists \in BOOLEAN /\ fault \in BOOLEAN
  /\ value \in [Datum -> Value] /\ alive \subseteq Datum
  /\ member \in [Id -> SUBSET Datum] /\ changed \subseteq Datum
  /\ DOMAIN index \subseteq Id
  /\ \A i \in DOMAIN index :
       /\ Rec(index[i]) /\ index[i].hashgen \in Hasher /\ index[i].frees \in BOOLEAN
       /\ Tree(index[i].data)
  /\ \A t \in todo : t.index \in DOMAIN index

(* Wherever an index lists a datum is its hash, freed if the index frees.  *)
Placed ==
  \A i \in DOMAIN index, d \in Datum \ changed : \A h :
    In(index[i].data, h, d) => h = Home(i, d) /\ (index[i].frees => d \notin alive)

(* What was added is there, but where an index has its turn still to come. *)
Members ==
  \A i \in DOMAIN index, d \in Datum \ changed :
    /\ Turn(i, "add", d) \in todo => d \in member[i]
    /\ Turn(i, "del", d) \in todo => d \notin member[i]
    /\ Turn(i, "add", d) \notin todo /\ Turn(i, "del", d) \notin todo =>
         (d \in member[i] <=> In(index[i].data, Home(i, d), d))

IInv == Types /\ Placed /\ Members

-----------------------------------------------------------------------------
(* The two operations on the listings of an index *)

LEMMA AppendedTree ==
  ASSUME NEW t, Tree(t), NEW h, NEW d \in Datum
  PROVE  /\ Tree(Appended(t, h, d))
         /\ \A g, e : In(Appended(t, h, d), g, e) <=> In(t, g, e) \/ (g = h /\ e = d)
<1> DEFINE a == Appended(t, h, d)
<1>1. CASE h \notin DOMAIN t
  <2>1. DOMAIN a = DOMAIN t \cup {h} /\ a[h] = <<d>> /\ \A g \in DOMAIN t : a[g] = t[g]
    BY <1>1 DEF Appended, Assigned
  <2>2. <<d>> \in Seq(Datum) /\ <<d>> # <<>> /\ Once(<<d>>) /\ Queued(<<d>>) = {d}
    BY DEF Once, Queued
  <2>3. Tree(a)
    BY <2>1, <2>2 DEF Tree
  <2>4. ASSUME NEW g, NEW e PROVE In(a, g, e) <=> In(t, g, e) \/ (g = h /\ e = d)
    BY <1>1, <2>1, <2>2 DEF In
  <2> HIDE DEF a
  <2> QED
    BY <2>3, <2>4 DEF a
<1>2. CASE h \in DOMAIN t /\ d \in Queued(t[h])
  BY <1>2 DEF Appended, In
<1>3. CASE h \in DOMAIN t /\ d \notin Queued(t[h])
  <2>1. DOMAIN a = DOMAIN t /\ a[h] = Append(t[h], d) /\ \A g \in DOMAIN t \ {h} : a[g] = t[g]
    BY <1>3 DEF Appended
  <2> DEFINE q == t[h]
             r == Append(t[h], d)
  <2>2. q \in Seq(Datum) /\ Once(q) /\ Len(q) \in Nat /\ DOMAIN q = 1..Len(q)
    BY <1>3, LenProperties DEF Tree
  <2>3. /\ r \in Seq(Datum) /\ r # <<>> /\ DOMAIN r = 1..(Len(q) + 1)
        /\ \A j \in 1..Len(q) : r[j] = q[j]
        /\ r[Len(q) + 1] = d
    BY <2>2, AppendProperties, LenProperties
  <2>10. t[h] = q /\ Append(t[h], d) = r
    OBVIOUS
  <2> HIDE DEF q, r
  <2>4. \A j \in DOMAIN r : (j \in DOMAIN q /\ r[j] = q[j]) \/ (j = Len(q) + 1 /\ r[j] = d)
    BY <2>2, <2>3
  <2>5. \A j \in DOMAIN q : j \in DOMAIN r /\ r[j] = q[j]
    BY <2>2, <2>3
  <2>6. \A j \in DOMAIN q : q[j] # d
    BY <1>3, <2>10 DEF Queued
  <2>7. Once(r)
    BY <2>2, <2>4, <2>6 DEF Once
  <2>8. Queued(r) = Queued(q) \cup {d}
    <3>1. Len(q) + 1 \in DOMAIN r
      BY <2>2, <2>3
    <3> QED
      BY <2>3, <2>4, <2>5, <3>1 DEF Queued
  <2>9. Tree(a)
    BY <2>1, <2>3, <2>7, <2>10 DEF Tree
  <2>11. ASSUME NEW g, NEW e PROVE In(a, g, e) <=> In(t, g, e) \/ (g = h /\ e = d)
    <3>1. CASE g = h
      BY <1>3, <2>1, <2>8, <2>10, <3>1 DEF In
    <3>2. CASE g # h
      BY <2>1, <3>2 DEF In
    <3> QED
      BY <3>1, <3>2
  <2> HIDE DEF a
  <2> QED
    BY <2>9, <2>11 DEF a
<1> QED
  BY <1>1, <1>2, <1>3

LEMMA RemovedSeq ==
  ASSUME NEW q \in Seq(Datum), Once(q), NEW d
  PROVE  /\ Removed(q, d) \in Seq(Datum) /\ Once(Removed(q, d))
         /\ Queued(Removed(q, d)) = Queued(q) \ {d}
<1>1. CASE d \notin Queued(q)
  BY <1>1 DEF Removed
<1>2. CASE d \in Queued(q)
  <2> DEFINE First(k) == q[k] = d /\ \A j \in 1..(k - 1) : q[j] # d
             k == IndexOf(q, d)
             n == Len(q)
             u == SubSeq(q, 1, k - 1)
             v == SubSeq(q, k + 1, n)
             r == u \o v
  <2>0. n \in Nat /\ DOMAIN q = 1..n /\ \A j \in 1..n : q[j] \in Datum
    BY LenProperties, ElementOfSeq
  <2>1. \E m \in DOMAIN q : First(m)
    <3>1. PICK m \in DOMAIN q : q[m] = d
      BY <1>2 DEF Queued
    <3>2. \A j \in 1..(m - 1) : j \in DOMAIN q /\ j # m
      BY <2>0
    <3> QED
      BY <3>1, <3>2 DEF Once
  <2>2. k \in DOMAIN q /\ q[k] = d
    BY <2>1 DEF IndexOf
  <2>3. r = Removed(q, d)
    BY <1>2 DEF Removed
  <2> HIDE DEF k, First
  <2> HIDE DEF n
  <2>4. /\ u \in Seq(Datum) /\ Len(u) = k - 1 /\ \A j \in 1..(k - 1) : u[j] = q[j]
        /\ v \in Seq(Datum) /\ Len(v) = n - k /\ \A j \in 1..(n - k) : v[j] = q[k + j]
    <3>1. k \in Int /\ 1 <= k /\ k <= n
      BY <2>0, <2>2
    <3>2. \A j \in 1..(k - 1) : q[j] \in Datum
      BY <2>0, <3>1
    <3>3. \A j \in (k + 1)..n : q[j] \in Datum
      BY <2>0, <3>1
    <3>4. /\ u \in Seq(Datum) /\ Len(u) = IF 1 <= k - 1 THEN (k - 1) - 1 + 1 ELSE 0
          /\ \A j \in 1..((k - 1) - 1 + 1) : u[j] = q[1 + j - 1]
      BY <3>1, <3>2, SubSeqProperties
    <3>5. /\ v \in Seq(Datum) /\ Len(v) = IF k + 1 <= n THEN n - (k + 1) + 1 ELSE 0
          /\ \A j \in 1..(n - (k + 1) + 1) : v[j] = q[(k + 1) + j - 1]
      BY <2>0, <3>1, <3>3, SubSeqProperties
    <3> HIDE DEF u, v
    <3>6. Len(u) = k - 1 /\ Len(v) = n - k
      BY <2>0, <3>1, <3>4, <3>5
    <3>7. \A j \in 1..(k - 1) : u[j] = q[j]
      <4>1. \A j \in 1..(k - 1) : j \in 1..((k - 1) - 1 + 1) /\ 1 + j - 1 = j
        BY <3>1
      <4> QED
        BY <3>4, <4>1
    <3>8. \A j \in 1..(n - k) : v[j] = q[k + j]
      <4>1. \A j \in 1..(n - k) : j \in 1..(n - (k + 1) + 1) /\ (k + 1) + j - 1 = k + j
        BY <2>0, <3>1
      <4> QED
        BY <3>5, <4>1
    <3> QED
      BY <3>4, <3>5, <3>6, <3>7, <3>8
  <2>5. /\ r \in Seq(Datum) /\ DOMAIN r = 1..(n - 1)
        /\ \A j \in 1..(n - 1) : r[j] = IF j < k THEN q[j] ELSE q[j + 1]
    <3>1. k \in Int /\ 1 <= k /\ k <= n
      BY <2>0, <2>2
    <3> HIDE DEF u, v
    <3>2. /\ r \in Seq(Datum) /\ Len(r) = (k - 1) + (n - k)
          /\ \A j \in 1..((k - 1) + (n - k)) : r[j] = IF j <= k - 1 THEN u[j] ELSE v[j - (k - 1)]
      <4>1. /\ r \in Seq(Datum) /\ Len(r) = Len(u) + Len(v)
            /\ \A j \in 1..(Len(u) + Len(v)) : r[j] = IF j <= Len(u) THEN u[j] ELSE v[j - Len(u)]
        BY <2>4, ConcatProperties
      <4> HIDE DEF r
      <4> QED
        BY <2>4, <4>1
    <3>3. DOMAIN r = 1..(n - 1)
      BY <2>0, <3>1, <3>2, LenProperties
    <3>4. ASSUME NEW j \in 1..(n - 1)
          PROVE  r[j] = IF j < k THEN q[j] ELSE q[j + 1]
      <4>1. CASE j < k
        BY <2>0, <2>4, <3>1, <3>2, <4>1
      <4>2. CASE ~(j < k)
        <5>1. j - (k - 1) \in 1..(n - k) /\ k + (j - (k - 1)) = j + 1
          BY <2>0, <3>1, <4>2
        <5>2. r[j] = v[j - (k - 1)]
          BY <2>0, <3>1, <3>2, <4>2
        <5> QED
          BY <2>4, <4>2, <5>1, <5>2
      <4> QED
        BY <4>1, <4>2
    <3> QED
      BY <3>2, <3>3, <3>4
  <2> HIDE DEF r
  <2> DEFINE from(j) == IF j < k THEN j ELSE j + 1
  <2>6. \A j \in DOMAIN r : from(j) \in DOMAIN q /\ from(j) # k /\ r[j] = q[from(j)]
    BY <2>0, <2>2, <2>5
  <2>7. \A i, j \in DOMAIN r : from(i) = from(j) => i = j
    BY <2>0, <2>2, <2>5
  <2>8. \A m \in DOMAIN q \ {k} : \E j \in DOMAIN r : r[j] = q[m]
    <3>1. ASSUME NEW m \in DOMAIN q, m < k PROVE \E j \in DOMAIN r : r[j] = q[m]
      <4>1. m \in 1..(n - 1)
        BY <2>0, <2>2, <3>1
      <4> QED
        BY <2>5, <3>1, <4>1
    <3>2. ASSUME NEW m \in DOMAIN q, m > k PROVE \E j \in DOMAIN r : r[j] = q[m]
      <4>1. m - 1 \in 1..(n - 1) /\ ~(m - 1 < k) /\ (m - 1) + 1 = m
        BY <2>0, <2>2, <3>2
      <4>2. r[m - 1] = q[m]
        BY <2>5, <4>1
      <4> QED
        BY <2>5, <4>1, <4>2
    <3> QED
      BY <2>0, <2>2, <3>1, <3>2
  <2> HIDE DEF from
  <2>9. Once(r)
    BY <2>6, <2>7 DEF Once
  <2>10. \A m \in DOMAIN q \ {k} : q[m] # d
    BY <2>2 DEF Once
  <2>11. Queued(r) = Queued(q) \ {d}
    BY <2>2, <2>6, <2>8, <2>10 DEF Queued
  <2> QED
    BY <2>3, <2>5, <2>9, <2>11
<1> QED
  BY <1>1, <1>2

LEMMA DeletedTree ==
  ASSUME NEW t, Tree(t), NEW h, NEW d \in Datum
  PROVE  /\ Tree(Deleted(t, h, d))
         /\ \A g, e : In(Deleted(t, h, d), g, e) <=> In(t, g, e) /\ ~(g = h /\ e = d)
<1> DEFINE b == Deleted(t, h, d)
           r == Removed(t[h], d)
<1>1. CASE h \notin DOMAIN t
  BY <1>1 DEF Deleted, In
<1>2. CASE h \in DOMAIN t
  <2>1. r \in Seq(Datum) /\ Once(r) /\ Queued(r) = Queued(t[h]) \ {d}
    BY <1>2, RemovedSeq DEF Tree
  <2> HIDE DEF r
  <2>2. CASE r = <<>>
    <3>1. DOMAIN b = DOMAIN t \ {h} /\ \A g \in DOMAIN b : b[g] = t[g]
      BY <1>2, <2>2 DEF Deleted, r
    <3>2. Queued(r) = {}
      BY <2>2 DEF Queued
    <3>3. ASSUME NEW g, NEW e PROVE In(b, g, e) <=> In(t, g, e) /\ ~(g = h /\ e = d)
      BY <1>2, <2>1, <3>1, <3>2 DEF In
    <3>4. Tree(b)
      BY <3>1 DEF Tree
    <3> HIDE DEF b
    <3> QED
      BY <3>3, <3>4 DEF b
  <2>3. CASE r # <<>>
    <3>1. DOMAIN b = DOMAIN t /\ b[h] = r /\ \A g \in DOMAIN b \ {h} : b[g] = t[g]
      BY <1>2, <2>3 DEF Deleted, r
    <3>2. ASSUME NEW g, NEW e PROVE In(b, g, e) <=> In(t, g, e) /\ ~(g = h /\ e = d)
      BY <1>2, <2>1, <3>1 DEF In
    <3>3. Tree(b)
      BY <2>1, <2>3, <3>1 DEF Tree
    <3> HIDE DEF b
    <3> QED
      BY <3>2, <3>3 DEF b
  <2> QED
    BY <2>2, <2>3
<1> QED
  BY <1>1, <1>2

-----------------------------------------------------------------------------
(* The steps *)

LEMMA InitIInv == Init => IInv
<1> SUFFICES ASSUME Init PROVE IInv
  OBVIOUS
<1>1. DOMAIN index = {} /\ todo = {}
  BY DEF Init
<1> QED
  BY <1>1 DEF Init, IInv, Types, Placed, Members

(* A step that leaves the table and the data alone.                        *)
LEMMA QuietStep ==
  ASSUME IInv, UNCHANGED <<index, value, alive, todo, history>>,
         exists' \in BOOLEAN, fault' \in BOOLEAN
  PROVE  IInv'
<1>1. Types'
  BY DEF IInv, Types, history
<1>2. Placed'
  BY DEF IInv, Placed, Home, history
<1>3. Members'
  BY DEF IInv, Members, Home, history
<1> QED
  BY <1>1, <1>2, <1>3 DEF IInv

LEMMA ChangeStep ==
  ASSUME IInv, NEW d \in Datum, NEW v \in Value, Client_Change(d, v)
  PROVE  IInv'
<1>1. /\ value' = [value EXCEPT ![d] = v] /\ alive' = alive \cup {d}
      /\ changed' = IF Listed(d) = {} THEN changed ELSE changed \cup {d}
      /\ UNCHANGED <<exists, index, todo, member, fault>> /\ todo = {}
  BY DEF Client_Change, Runs, Idle
<1>2. Types'
  BY <1>1 DEF IInv, Types
<1>3. changed \subseteq changed'
  BY <1>1
<1>4. ASSUME NEW i \in DOMAIN index, NEW e \in Datum \ changed', e # d
      PROVE  Home(i, e)' = Home(i, e) /\ (e \in alive' <=> e \in alive)
  <2>1. value'[e] = value[e]
    BY <1>1, <1>4 DEF IInv, Types
  <2> QED
    BY <1>1, <1>4, <2>1 DEF Home
<1>5. ASSUME d \notin changed', NEW i \in DOMAIN index, NEW h PROVE ~In(index[i].data, h, d)
  BY <1>1, <1>5 DEF Listed, In
<1>6. Placed'
  <2>1. ASSUME NEW i \in DOMAIN index, NEW e \in Datum \ changed', NEW h, In(index[i].data, h, e)
        PROVE  h = Home(i, e)' /\ (index[i].frees => e \notin alive')
    <3>1. e # d
      BY <1>5, <2>1
    <3> QED
      BY <1>3, <1>4, <2>1, <3>1 DEF IInv, Placed
  <2> QED
    BY <1>1, <2>1 DEF Placed
<1>7. Members'
  <2>1. ASSUME NEW i \in DOMAIN index, NEW e \in Datum \ changed'
        PROVE  e \in member[i] <=> In(index[i].data, Home(i, e)', e)
    <3>1. e \in member[i] <=> In(index[i].data, Home(i, e), e)
      BY <1>1, <1>3 DEF IInv, Members
    <3>2. CASE e = d
      BY <1>5, <3>1, <3>2
    <3>3. CASE e # d
      BY <1>4, <3>1, <3>3
    <3> QED
      BY <3>2, <3>3
  <2> QED
    BY <1>1, <2>1 DEF Members
<1> QED
  BY <1>2, <1>6, <1>7 DEF IInv

LEMMA FreeStep == ASSUME IInv, Table_Free PROVE IInv'
<1>1. DOMAIN index' = {} /\ todo' = {} /\ member' = [i \in Id |-> {}]
  BY DEF Table_Free, Runs, Idle
<1> QED
  BY <1>1 DEF Table_Free, IInv, Types, Placed, Members

(* A new index is empty, and nothing was added since.                      *)
LEMMA CreateStep ==
  ASSUME IInv, NEW i \in Id, NEW hasher \in Hasher, NEW frees \in BOOLEAN,
         Table_CreateIndex(i, hasher, frees)
  PROVE  IInv'
<1> DEFINE new == [hashgen |-> hasher, frees |-> frees, data |-> <<>>]
<1>1. todo = {} /\ UNCHANGED <<exists, value, alive, todo, changed>>
  BY DEF Table_CreateIndex, Runs, Idle
<1>2. CASE index' = Assigned(index, i, new) /\ member' = [member EXCEPT ![i] = {}] /\ UNCHANGED fault
  <2>1. /\ DOMAIN index' = DOMAIN index \cup {i} /\ index'[i] = new
        /\ \A j \in DOMAIN index \ {i} : index'[j] = index[j]
    BY <1>2 DEF Assigned
  <2>2. DOMAIN new.data = {} /\ Rec(new)
    BY DEF Rec
  <2> HIDE DEF new
  <2>3. new.hashgen = hasher /\ new.frees = frees
    BY DEF new
  <2>4. \A h, e : ~In(new.data, h, e)
    BY <2>2 DEF In
  <2>5. member' \in [Id -> SUBSET Datum] /\ member'[i] = {} /\ \A j \in Id \ {i} : member'[j] = member[j]
    BY <1>2 DEF IInv, Types
  <2>6. Types'
    BY <1>1, <1>2, <2>1, <2>2, <2>3, <2>5 DEF IInv, Types, Tree
  <2>7. Placed'
    <3>1. ASSUME NEW j \in DOMAIN index', NEW e \in Datum \ changed, NEW h, In(index'[j].data, h, e)
          PROVE  h = Home(j, e)' /\ (index'[j].frees => e \notin alive)
      <4>1. j # i
        BY <2>1, <2>4, <3>1
      <4>2. j \in DOMAIN index /\ index'[j] = index[j] /\ Home(j, e)' = Home(j, e)
        BY <1>1, <2>1, <4>1 DEF Home
      <4> QED
        BY <3>1, <4>2 DEF IInv, Placed
    <3> QED
      BY <1>1, <3>1 DEF Placed
  <2>8. Members'
    <3>1. ASSUME NEW j \in DOMAIN index', NEW e \in Datum \ changed
          PROVE  e \in member'[j] <=> In(index'[j].data, Home(j, e)', e)
      <4>1. CASE j = i
        BY <2>1, <2>4, <2>5, <4>1
      <4>2. CASE j # i
        <5>1. j \in DOMAIN index /\ index'[j] = index[j] /\ Home(j, e)' = Home(j, e)
          BY <1>1, <2>1, <4>2 DEF Home
        <5>2. j \in Id /\ member'[j] = member[j]
          BY <2>5, <4>2, <5>1 DEF IInv, Types
        <5> QED
          BY <1>1, <5>1, <5>2 DEF IInv, Members
      <4> QED
        BY <4>1, <4>2
    <3> QED
      BY <1>1, <3>1 DEF Members
  <2> QED
    BY <2>6, <2>7, <2>8 DEF IInv
<1>3. CASE fault' = (index # <<>>) /\ UNCHANGED <<index, member>>
  BY <1>1, <1>3, QuietStep DEF IInv, Types, history
<1> QED
  BY <1>2, <1>3 DEF Table_CreateIndex, Populated, Table_Index_Init

LEMMA DropStep == ASSUME IInv, NEW i \in Id, Table_DropIndex(i) PROVE IInv'
<1>1. /\ DOMAIN index' = DOMAIN index \ {i} /\ \A j \in DOMAIN index' : index'[j] = index[j]
      /\ todo = {} /\ UNCHANGED <<exists, value, alive, todo, changed, fault>>
  BY DEF Table_DropIndex, Runs, Idle
<1>2. member' \in [Id -> SUBSET Datum] /\ \A j \in Id \ {i} : member'[j] = member[j]
  BY DEF Table_DropIndex, IInv, Types
<1>3. ASSUME NEW j \in DOMAIN index', NEW e
      PROVE  j \in DOMAIN index /\ j \in Id /\ Home(j, e)' = Home(j, e) /\ member'[j] = member[j]
  BY <1>1, <1>2 DEF Home, IInv, Types
<1>4. Types'
  BY <1>1, <1>2 DEF IInv, Types
<1>5. Placed'
  BY <1>1, <1>3 DEF IInv, Placed
<1>6. Members'
  BY <1>1, <1>3 DEF IInv, Members
<1> QED
  BY <1>4, <1>5, <1>6 DEF IInv

(* The start of a Foreach: every index has its turn still to come.         *)
LEMMA AddStep == ASSUME IInv, NEW d \in Datum, Table_Add(d) \/ Table_Del(d) PROVE IInv'
<1>1. PICK does \in {"add", "del"} :
        /\ todo = {} /\ todo' = { Turn(i, does, d) : i \in DOMAIN index }
        /\ member' = [i \in Id |->
             IF does = "del" THEN member[i] \ {d}
             ELSE IF i \in DOMAIN index THEN member[i] \cup {d} ELSE member[i]]
        /\ UNCHANGED <<exists, index, value, alive, changed, fault>>
  BY DEF Table_Add, Table_Del, Foreach, Runs, Idle
<1>2. \A t \in todo' : t.index \in DOMAIN index
  BY <1>1 DEF Turn
<1>3. ASSUME NEW i \in DOMAIN index, NEW e, NEW o
      PROVE  Turn(i, o, e) \in todo' <=> o = does /\ e = d
  BY <1>1 DEF Turn
<1>4. Types'
  BY <1>1, <1>2 DEF IInv, Types
<1>5. Placed'
  <2>1. UNCHANGED <<index, value, alive, changed>>
    BY <1>1
  <2> QED
    BY <2>1 DEF IInv, Placed, Home
<1>6. Members'
  <2>1. ASSUME NEW i \in DOMAIN index, NEW e \in Datum \ changed
        PROVE  /\ Turn(i, "add", e) \in todo' => e \in member'[i]
               /\ Turn(i, "del", e) \in todo' => e \notin member'[i]
               /\ Turn(i, "add", e) \notin todo' /\ Turn(i, "del", e) \notin todo' =>
                    (e \in member'[i] <=> In(index[i].data, Home(i, e), e))
    <3>1. e \in member[i] <=> In(index[i].data, Home(i, e), e)
      BY <1>1 DEF IInv, Members
    <3>2. i \in Id
      BY DEF IInv, Types
    <3>3. e # d => (e \in member'[i] <=> e \in member[i])
      BY <1>1, <3>2
    <3>4. e = d => (e \in member'[i] <=> does = "add")
      BY <1>1, <3>2
    <3>5. /\ Turn(i, "add", e) \in todo' <=> does = "add" /\ e = d
          /\ Turn(i, "del", e) \in todo' <=> does = "del" /\ e = d
      BY <1>3
    <3> QED
      BY <1>1, <3>1, <3>3, <3>4, <3>5
  <2>2. UNCHANGED <<index, changed>> /\ \A i, e : Home(i, e)' = Home(i, e)
    BY <1>1 DEF Home
  <2> QED
    BY <2>1, <2>2 DEF Members
<1> QED
  BY <1>4, <1>5, <1>6 DEF IInv

(* A turn puts a datum into the listings of an index, or takes it out.     *)
LEMMA TurnFacts ==
  ASSUME IInv, NEW i \in DOMAIN index, NEW t, Tree(t), index' = [index EXCEPT ![i].data = t]
  PROVE  /\ DOMAIN index' = DOMAIN index
         /\ \A j \in DOMAIN index : /\ Rec(index'[j]) /\ index'[j].hashgen = index[j].hashgen
                                    /\ index'[j].frees = index[j].frees
                                    /\ index'[j].data = IF j = i THEN t ELSE index[j].data
<1>1. Rec(index[i])
  BY DEF IInv, Types
<1>2. [index[i] EXCEPT !.data = t] = [hashgen |-> index[i].hashgen, frees |-> index[i].frees, data |-> t]
  BY <1>1 DEF Rec
<1>3. DOMAIN index' = DOMAIN index /\ \A j \in DOMAIN index :
        index'[j] = IF j = i
                    THEN [hashgen |-> index[i].hashgen, frees |-> index[i].frees, data |-> t]
                    ELSE index[j]
  BY <1>2
<1> QED
  BY <1>3 DEF IInv, Types, Rec

LEMMA IndexAddStep ==
  ASSUME IInv, NEW i \in Id, NEW d \in Datum, Table_Index_Add(i, d)
  PROVE  IInv'
<1> DEFINE h == index[i].hashgen[value[d]]
           t == Appended(index[i].data, h, d)
<1>1. i \in DOMAIN index /\ Turn(i, "add", d) \in todo /\ UNCHANGED <<exists, value, history>>
  BY DEF Table_Index_Add, IInv, Types, Turn
<1>2. CASE fault' = TRUE /\ UNCHANGED <<index, alive, todo>>
  BY <1>1, <1>2, QuietStep DEF IInv, Types
<1>3. CASE /\ index' = [index EXCEPT ![i].data = t] /\ alive' = Cleaned(i, d)
           /\ todo' = todo \ {Turn(i, "add", d)} /\ UNCHANGED fault
  <2>1. Tree(t) /\ \A g, e : In(t, g, e) <=> In(index[i].data, g, e) \/ (g = h /\ e = d)
    BY <1>1, AppendedTree DEF IInv, Types
  <2> HIDE DEF t
  <2>2. /\ DOMAIN index' = DOMAIN index
        /\ \A j \in DOMAIN index : /\ Rec(index'[j]) /\ index'[j].hashgen = index[j].hashgen
                                   /\ index'[j].frees = index[j].frees
                                   /\ index'[j].data = IF j = i THEN t ELSE index[j].data
    BY <1>1, <1>3, <2>1, TurnFacts
  <2>3. alive' \subseteq alive /\ (index[i].frees => d \notin alive')
    BY <1>3 DEF Cleaned
  <2>4. /\ UNCHANGED <<value, member, changed>>
        /\ \A j \in DOMAIN index, e \in Datum : Home(j, e)' = Home(j, e)
    BY <1>1, <2>2 DEF Home, history
  <2>5. Types'
    BY <1>1, <1>3, <2>1, <2>2, <2>3, <2>4 DEF IInv, Types
  <2>6. Placed'
    <3>1. ASSUME NEW j \in DOMAIN index, NEW e \in Datum \ changed, NEW g, In(index'[j].data, g, e)
          PROVE  g = Home(j, e) /\ (index[j].frees => e \notin alive')
      <4>1. CASE In(index[j].data, g, e)
        BY <2>3, <4>1 DEF IInv, Placed
      <4>2. CASE j = i /\ g = h /\ e = d
        BY <2>3, <4>2 DEF Home
      <4> QED
        BY <2>1, <2>2, <3>1, <4>1, <4>2
    <3>2. /\ DOMAIN index' = DOMAIN index /\ changed' = changed
          /\ \A j \in DOMAIN index, e \in Datum :
               Home(j, e)' = Home(j, e) /\ index'[j].frees = index[j].frees
      BY <2>2, <2>4
    <3> QED
      BY <3>1, <3>2 DEF Placed
  <2>7. Members'
    <3>1. ASSUME NEW j \in DOMAIN index, NEW e \in Datum \ changed
          PROVE  /\ Turn(j, "add", e) \in todo' => e \in member[j]
                 /\ Turn(j, "del", e) \in todo' => e \notin member[j]
                 /\ Turn(j, "add", e) \notin todo' /\ Turn(j, "del", e) \notin todo' =>
                      (e \in member[j] <=> In(index'[j].data, Home(j, e), e))
      <4>1. /\ Turn(j, "add", e) \in todo => e \in member[j]
            /\ Turn(j, "del", e) \in todo => e \notin member[j]
            /\ Turn(j, "add", e) \notin todo /\ Turn(j, "del", e) \notin todo =>
                 (e \in member[j] <=> In(index[j].data, Home(j, e), e))
        BY DEF IInv, Members
      <4>2. CASE j = i /\ e = d
        <5>1. d \in member[i] /\ In(t, h, d) /\ h = Home(i, d)
          BY <1>1, <2>1, <4>1, <4>2 DEF Home
        <5> QED
          BY <1>3, <2>2, <4>1, <4>2, <5>1
      <4>3. CASE ~(j = i /\ e = d)
        <5>1. Turn(j, "add", e) # Turn(i, "add", d) /\ Turn(j, "del", e) # Turn(i, "add", d)
          BY <4>3 DEF Turn
        <5>2. In(index'[j].data, Home(j, e), e) <=> In(index[j].data, Home(j, e), e)
          BY <2>1, <2>2, <4>3
        <5> QED
          BY <1>3, <4>1, <5>1, <5>2
      <4> QED
        BY <4>2, <4>3
    <3> QED
      BY <2>2, <2>4, <3>1 DEF Members
  <2> QED
    BY <2>5, <2>6, <2>7 DEF IInv
<1> QED
  BY <1>2, <1>3 DEF Table_Index_Add

LEMMA IndexDelStep ==
  ASSUME IInv, NEW i \in Id, NEW d \in Datum, Table_Index_Del(i, d)
  PROVE  IInv'
<1> DEFINE h == index[i].hashgen[value[d]]
           t == Deleted(index[i].data, h, d)
<1>1. i \in DOMAIN index /\ Turn(i, "del", d) \in todo /\ UNCHANGED <<exists, value, alive, history>>
  BY DEF Table_Index_Del, IInv, Types, Turn
<1>2. CASE fault' = TRUE /\ UNCHANGED <<index, todo>>
  BY <1>1, <1>2, QuietStep DEF IInv, Types
<1>3. CASE /\ index' = [index EXCEPT ![i].data = t]
           /\ todo' = todo \ {Turn(i, "del", d)} /\ UNCHANGED fault
  <2>1. Tree(t) /\ \A g, e : In(t, g, e) <=> In(index[i].data, g, e) /\ ~(g = h /\ e = d)
    BY <1>1, DeletedTree DEF IInv, Types
  <2> HIDE DEF t
  <2>2. /\ DOMAIN index' = DOMAIN index
        /\ \A j \in DOMAIN index : /\ Rec(index'[j]) /\ index'[j].hashgen = index[j].hashgen
                                   /\ index'[j].frees = index[j].frees
                                   /\ index'[j].data = IF j = i THEN t ELSE index[j].data
    BY <1>1, <1>3, <2>1, TurnFacts
  <2>4. /\ UNCHANGED <<value, alive, member, changed>>
        /\ \A j \in DOMAIN index, e \in Datum : Home(j, e)' = Home(j, e)
    BY <1>1, <2>2 DEF Home, history
  <2>5. Types'
    BY <1>1, <1>3, <2>1, <2>2, <2>4 DEF IInv, Types
  <2>6. Placed'
    <3>1. ASSUME NEW j \in DOMAIN index, NEW e \in Datum \ changed, NEW g, In(index'[j].data, g, e)
          PROVE  g = Home(j, e) /\ (index[j].frees => e \notin alive)
      <4>1. In(index[j].data, g, e)
        BY <2>1, <2>2, <3>1
      <4> QED
        BY <4>1 DEF IInv, Placed
    <3>2. /\ DOMAIN index' = DOMAIN index /\ changed' = changed
          /\ \A j \in DOMAIN index, e \in Datum :
               Home(j, e)' = Home(j, e) /\ index'[j].frees = index[j].frees
      BY <2>2, <2>4
    <3> QED
      BY <2>4, <3>1, <3>2 DEF Placed
  <2>7. Members'
    <3>1. ASSUME NEW j \in DOMAIN index, NEW e \in Datum \ changed
          PROVE  /\ Turn(j, "add", e) \in todo' => e \in member[j]
                 /\ Turn(j, "del", e) \in todo' => e \notin member[j]
                 /\ Turn(j, "add", e) \notin todo' /\ Turn(j, "del", e) \notin todo' =>
                      (e \in member[j] <=> In(index'[j].data, Home(j, e), e))
      <4>1. /\ Turn(j, "add", e) \in todo => e \in member[j]
            /\ Turn(j, "del", e) \in todo => e \notin member[j]
            /\ Turn(j, "add", e) \notin todo /\ Turn(j, "del", e) \notin todo =>
                 (e \in member[j] <=> In(index[j].data, Home(j, e), e))
        BY DEF IInv, Members
      <4>2. CASE j = i /\ e = d
        <5>1. d \notin member[i] /\ ~In(t, h, d) /\ h = Home(i, d)
          BY <1>1, <2>1, <4>1, <4>2 DEF Home
        <5> QED
          BY <1>3, <2>2, <4>1, <4>2, <5>1
      <4>3. CASE ~(j = i /\ e = d)
        <5>1. Turn(j, "add", e) # Turn(i, "del", d) /\ Turn(j, "del", e) # Turn(i, "del", d)
          BY <4>3 DEF Turn
        <5>2. In(index'[j].data, Home(j, e), e) <=> In(index[j].data, Home(j, e), e)
          BY <2>1, <2>2, <4>3
        <5> QED
          BY <1>3, <4>1, <5>1, <5>2
      <4> QED
        BY <4>2, <4>3
    <3> QED
      BY <2>2, <2>4, <3>1 DEF Members
  <2> QED
    BY <2>5, <2>6, <2>7 DEF IInv
<1> QED
  BY <1>2, <1>3 DEF Table_Index_Del

LEMMA Step == IInv /\ [Next]_vars => IInv'
<1> SUFFICES ASSUME IInv, [Next]_vars PROVE IInv'
  OBVIOUS
<1>1. CASE UNCHANGED vars
  BY <1>1, QuietStep DEF vars, IInv, Types, history
<1>2. CASE Table_Init \/ \E i \in Id, d \in Datum : Table_Query(i, d)
  BY <1>2, QuietStep DEF Table_Init, Table_Query, IInv, Types
<1>3. CASE Next /\ ~(Table_Init \/ \E i \in Id, d \in Datum : Table_Query(i, d))
  BY <1>3, ChangeStep, FreeStep, CreateStep, DropStep, AddStep, IndexAddStep, IndexDelStep DEF Next
<1> QED
  BY <1>1, <1>2, <1>3

-----------------------------------------------------------------------------
(* The theorems *)

THEOREM Invariance == Spec => []IInv
BY InitIInv, Step, PTL DEF Spec

(* Every variable keeps its type, and no listing of an index is empty.     *)
THEOREM TypeCorrect == Spec => []TypeOK
<1>1. IInv => TypeOK
  BY DEF IInv, Types, Tree, TypeOK
<1> QED
  BY <1>1, Invariance, PTL

(* Between calls, an index lists exactly what was added since its creation *)
(* and not deleted since, each once and under its hash.                    *)
THEOREM IndexExactHolds == Spec => []IndexExact
<1>1. IInv => IndexExact
  <2> SUFFICES ASSUME IInv, Runs, NEW i \in DOMAIN index, NEW d \in Datum \ changed
               PROVE  LET t == index[i].data
                          home == index[i].hashgen[value[d]]
                      IN  /\ d \in member[i] <=> home \in DOMAIN t /\ d \in Queued(t[home])
                          /\ \A h \in DOMAIN t : d \in Queued(t[h]) => h = home
                          /\ \A h \in DOMAIN t : \A j, k \in DOMAIN t[h] :
                               {t[h][j], t[h][k]} = {d} => j = k
    BY DEF IndexExact
  <2> DEFINE t == index[i].data
             home == index[i].hashgen[value[d]]
  <2>1. d \in member[i] <=> home \in DOMAIN t /\ d \in Queued(t[home])
    BY DEF Runs, Idle, IInv, Members, Home, In
  <2>2. \A h \in DOMAIN t : d \in Queued(t[h]) => h = home
    BY DEF IInv, Placed, Home, In
  <2>3. \A h \in DOMAIN t : Once(t[h])
    BY DEF IInv, Types, Tree
  <2>4. \A h \in DOMAIN t : \A j, k \in DOMAIN t[h] : {t[h][j], t[h][k]} = {d} => j = k
    BY <2>3 DEF Once
  <2> QED
    BY <2>1, <2>2, <2>4
<1> QED
  BY <1>1, Invariance, PTL

(* What is listed by an index whose cleaning routine frees is freed.       *)
THEOREM ListedFreedHolds == Spec => []ListedFreed
<1>1. IInv => ListedFreed
  BY DEF IInv, Placed, In, ListedFreed, Listed
<1> QED
  BY <1>1, Invariance, PTL
=============================================================================
