---------------------------- MODULE BatchProofs ----------------------------
(***************************************************************************)
(* What holds of Batch for every set of nodes, routines, data and threads: *)
(* the nodes of a batch are allocated and in it once, a delete finds       *)
(* nothing but what matches, and at least one match, a run calls every     *)
(* node once, and only Batch_Free frees nodes.                             *)
(***************************************************************************)
EXTENDS Batch, ListingLemmas

Phase == {"idle", "next", "call", "push", "done"}
Call == [does : {"nothing", "find", "run", "free"},
         batcb : Func \cup {None}, sdata : Datum \cup {None}]
Nodes == UNION { [A -> Pair] : A \in SUBSET Addr }

Types ==
  /\ exists \in BOOLEAN /\ raced \in BOOLEAN
  /\ bat \in Seq(Addr) /\ node \in Nodes /\ op \in Call
  /\ todo \subseteq Addr /\ given \in [Addr -> Nat] /\ matches \in Seq(Addr)
  /\ pc \in [Thread -> Phase] /\ item \in [Thread -> Addr \cup {None}]
  /\ read \in [Thread -> Seq(Addr)] /\ adds \in [Pair -> Nat]

(* What the threads of a call have in hand is in the batch; they push in a *)
(* Find only, and what they push or read there matches.                    *)
Once == \A i, j \in DOMAIN bat : bat[i] = bat[j] => i = j
Allocated == op.does # "free" => Queued(bat) \subseteq alloc
InHand == \A t \in Thread : pc[t] \in {"call", "push"} => item[t] \in Queued(bat)
Todo == todo \subseteq Queued(bat)
Rest ==
  /\ op.does = "nothing" => todo = {} /\ \A t \in Thread : pc[t] = "idle"
  /\ \A t \in Thread : pc[t] = "push" => op.does = "find"

IInv == Types /\ Once /\ Allocated /\ InHand /\ Todo /\ Rest

-----------------------------------------------------------------------------
LEMMA NodesFacts ==
  ASSUME NEW n \in Nodes
  PROVE  /\ DOMAIN n \subseteq Addr /\ n \in [DOMAIN n -> Pair]
         /\ \A A \in SUBSET DOMAIN n : [a \in A |-> n[a]] \in Nodes
         /\ \A a \in Addr, p \in Pair :
              [b \in DOMAIN n \cup {a} |-> IF b = a THEN p ELSE n[b]] \in Nodes
<1>1. PICK A \in SUBSET Addr : n \in [A -> Pair]
  BY DEF Nodes
<1>2. \A B \in SUBSET Addr : \A m \in [B -> Pair] : m \in Nodes
  BY DEF Nodes
<1>3. ASSUME NEW B \in SUBSET DOMAIN n
      PROVE  [a \in B |-> n[a]] \in Nodes
  <2>1. B \in SUBSET Addr /\ [a \in B |-> n[a]] \in [B -> Pair]
    BY <1>1
  <2> QED
    BY <2>1, <1>2
<1>4. ASSUME NEW a \in Addr, NEW p \in Pair
      PROVE  [b \in DOMAIN n \cup {a} |-> IF b = a THEN p ELSE n[b]] \in Nodes
  <2> DEFINE m == [b \in DOMAIN n \cup {a} |-> IF b = a THEN p ELSE n[b]]
  <2>1. m \in [DOMAIN n \cup {a} -> Pair] /\ DOMAIN n \cup {a} \in SUBSET Addr
    BY <1>1
  <2> QED
    BY <2>1, <1>2
<1> QED
  BY <1>1, <1>3, <1>4

LEMMA TypesGiveTypeOK == IInv => TypeOK
<1> SUFFICES ASSUME IInv PROVE TypeOK
  OBVIOUS
<1>1. alloc \subseteq Addr /\ node \in [alloc -> Pair]
  BY NodesFacts DEF IInv, Types, alloc
<1> QED
  BY <1>1 DEF IInv, Types, Once, Allocated, TypeOK

LEMMA InitIInv == Init => IInv
<1> SUFFICES ASSUME Init PROVE IInv
  OBVIOUS
<1>1. <<>> \in Seq(Addr) /\ Queued(<<>>) = {} /\ DOMAIN <<>> = {}
  BY EmptySeq DEF Queued
<1>2. node \in Nodes
  <2>1. <<>> = [a \in {} |-> None]
    OBVIOUS
  <2>2. node \in [{} -> Pair]
    BY <2>1 DEF Init
  <2> QED
    BY <2>2 DEF Nodes
<1>3. op \in Call
  BY DEF Init, Quiet, Call
<1>4. Types
  BY <1>1, <1>2, <1>3 DEF Init, Types, Phase, NoCalls
<1>5. \A t \in Thread : pc[t] = "idle"
  BY DEF Init
<1> QED
  BY <1>1, <1>4, <1>5 DEF Init, IInv, Once, Allocated, InHand, Todo, Rest

-----------------------------------------------------------------------------
(* The steps *)

LEMMA NoneListed ==
  ASSUME IInv, NEW t \in Thread, pc[t] \in {"call", "push"}
  PROVE  item[t] \in Addr /\ item[t] \in Queued(bat)
BY QueuedFacts DEF IInv, Types, InHand

LEMMA AddStep ==
  ASSUME IInv, NEW p \in Pair, Batch_Add(p)
  PROVE  IInv'
<1>1. PICK a \in Addr \ alloc :
        /\ node' = [b \in alloc \cup {a} |-> IF b = a THEN p ELSE node[b]]
        /\ \/ bat' = <<a>> \o bat /\ adds' = [adds EXCEPT ![p] = @ + 1]
           \/ UNCHANGED <<bat, adds>>
  BY DEF Batch_Add, Pushed
<1>2. Idle /\ op.does = "nothing"
  BY DEF Batch_Add, Idle, Quiet
<1>3. bat \in Seq(Addr) /\ <<a>> \in Seq(Addr)
  BY DEF IInv, Types
<1>4. /\ <<a>> \o bat \in Seq(Addr)
      /\ Queued(bat) \subseteq Queued(<<a>> \o bat)
      /\ Queued(<<a>> \o bat) \subseteq Queued(bat) \cup {a}
      /\ DOMAIN (<<a>> \o bat) = 1..(Len(bat) + 1)
      /\ (<<a>> \o bat)[1] = a
      /\ \A i \in 1..(Len(bat) + 1) : i # 1 => (<<a>> \o bat)[i] = bat[i - 1]
  <2> DEFINE q == <<a>> \o bat
  <2>1. Len(<<a>>) = 1 /\ <<a>>[1] = a /\ Len(bat) \in Nat /\ DOMAIN bat = 1..Len(bat)
    BY <1>3, LenProperties
  <2>2. q \in Seq(Addr) /\ Len(q) = Len(bat) + 1
    BY <1>3, <2>1, ConcatProperties
  <2>3. DOMAIN q = 1..(Len(bat) + 1)
    BY <2>2, LenProperties
  <2>4. /\ q[1] = a
        /\ \A i \in 1..(Len(bat) + 1) : i # 1 => q[i] = bat[i - 1]
    BY <1>3, <2>1, <2>2, ConcatProperties
  <2>5. Queued(bat) \subseteq Queued(q)
    <3>1. ASSUME NEW i \in DOMAIN bat PROVE bat[i] \in Queued(q)
      <4>1. i + 1 \in DOMAIN q /\ i + 1 # 1 /\ (i + 1) - 1 = i
        BY <2>1, <2>3
      <4>2. q[i + 1] = bat[i]
        BY <4>1, <2>3, <2>4
      <4> QED
        BY <4>1, <4>2 DEF Queued
    <3> QED
      BY <3>1 DEF Queued
  <2>6. Queued(q) \subseteq Queued(bat) \cup {a}
    <3>1. ASSUME NEW i \in DOMAIN q PROVE q[i] \in Queued(bat) \cup {a}
      <4>1. i = 1 \/ i - 1 \in DOMAIN bat
        BY <2>1, <2>3
      <4> QED
        BY <4>1, <2>3, <2>4 DEF Queued
    <3> QED
      BY <3>1 DEF Queued
  <2> QED
    BY <2>2, <2>3, <2>4, <2>5, <2>6
<1>5. bat' \in Seq(Addr) /\ Queued(bat) \subseteq Queued(bat')
        /\ Queued(bat') \subseteq Queued(bat) \cup {a}
  BY <1>1, <1>3, <1>4
<1>6. node' \in Nodes /\ alloc' = alloc \cup {a}
  BY <1>1, NodesFacts DEF IInv, Types, alloc
<1>7. Once'
  <2>1. CASE UNCHANGED <<bat, adds>>
    BY <2>1 DEF IInv, Once
  <2>2. CASE bat' = <<a>> \o bat
    <3>1. \A i \in DOMAIN bat : bat[i] # a
      BY <1>1, <1>2 DEF IInv, Allocated, Queued
    <3>2. DOMAIN bat = 1..Len(bat) /\ Len(bat) \in Nat
      BY <1>3, LenProperties
    <3>3. SUFFICES ASSUME NEW i \in DOMAIN bat', NEW j \in DOMAIN bat', bat'[i] = bat'[j]
                   PROVE  i = j
      BY DEF Once
    <3>4. i \in 1..(Len(bat) + 1) /\ j \in 1..(Len(bat) + 1)
      BY <2>2, <1>4
    <3>5. /\ i # 1 => i - 1 \in DOMAIN bat /\ bat'[i] = bat[i - 1]
          /\ j # 1 => j - 1 \in DOMAIN bat /\ bat'[j] = bat[j - 1]
          /\ i = 1 => bat'[i] = a
          /\ j = 1 => bat'[j] = a
      BY <2>2, <1>4, <3>2, <3>4
    <3> QED
      BY <3>1, <3>3, <3>4, <3>5 DEF IInv, Once
  <2> QED
    BY <1>1, <2>1, <2>2
<1>8. adds' \in [Pair -> Nat]
  BY <1>1 DEF IInv, Types
<1>9. UNCHANGED <<exists, call, given, raced>>
  BY DEF Batch_Add
<1>10. Types'
  BY <1>5, <1>6, <1>8, <1>9 DEF IInv, Types, call
<1> QED
  BY <1>2, <1>5, <1>6, <1>7, <1>9, <1>10 DEF IInv, Allocated, InHand, Todo, Rest, call

LEMMA CallStep ==
  ASSUME IInv, NEW T \in SUBSET Thread, NEW o \in Call, o.does # "nothing", Foreach(T, o),
         adds' \in [Pair -> Nat], raced' \in BOOLEAN
  PROVE  IInv'
<1>1. op.does = "nothing"
  BY DEF Foreach, Idle, Quiet
<1>2. Queued(bat) \subseteq Addr /\ Queued(bat) \subseteq alloc
  BY <1>1, QueuedFacts DEF IInv, Types, Allocated
<1>3. pc' \in [Thread -> Phase] /\ \A t \in Thread : pc'[t] \notin {"call", "push"}
  BY DEF Foreach, Phase
<1>4. UNCHANGED <<exists, bat, node, item, read>>
        /\ op' = o /\ todo' = Queued(bat) /\ matches' = <<>> /\ given' = NoCalls
  BY DEF Foreach
<1>5. Types'
  BY <1>2, <1>3, <1>4, EmptySeq DEF IInv, Types, NoCalls
<1>6. alloc' = alloc
  BY <1>4 DEF alloc
<1> QED
  BY <1>2, <1>3, <1>4, <1>5, <1>6 DEF IInv, Once, Allocated, InHand, Todo, Rest

LEMMA ClientStep == ASSUME IInv, Client PROVE IInv'
<1>1. CASE Batch_Init
  <2>1. bat' = <<>> /\ exists' = TRUE /\ UNCHANGED <<node, call, history>> /\ op = Quiet
    BY <1>1 DEF Batch_Init, Idle
  <2>2. todo = {} /\ \A t \in Thread : pc[t] = "idle"
    BY <2>1 DEF IInv, Rest, Quiet
  <2>3. bat' \in Seq(Addr) /\ Queued(bat') = {} /\ DOMAIN bat' = {}
    BY <2>1, EmptySeq DEF Queued
  <2> QED
    BY <2>1, <2>2, <2>3 DEF IInv, Types, Once, Allocated, InHand, Todo, Rest, alloc, call, history
<1>2. ASSUME NEW p \in Pair, Batch_Add(p) PROVE IInv'
  BY <1>2, AddStep
<1>3. ASSUME NEW T \in SUBSET Thread, NEW f \in Func \cup {None}, NEW d \in Datum \cup {None},
             Batch_Del(T, f, d)
      PROVE  IInv'
  <2> DEFINE o == [does |-> "find", batcb |-> f, sdata |-> d]
  <2>1. o \in Call /\ o.does # "nothing" /\ Foreach(T, o)
    BY <1>3 DEF Call, Batch_Del
  <2>2. adds' \in [Pair -> Nat] /\ raced' \in BOOLEAN
    BY <1>3 DEF Batch_Del, IInv, Types
  <2> QED
    BY <2>1, <2>2, CallStep
<1>4. ASSUME NEW T \in SUBSET Thread, Batch_Run(T) \/ Batch_Free(T)
      PROVE  IInv'
  <2> DEFINE run == [Quiet EXCEPT !.does = "run"]
             free == [Quiet EXCEPT !.does = "free"]
  <2>1. run \in Call /\ free \in Call /\ run.does = "run" /\ free.does = "free"
    BY DEF Call, Quiet
  <2>2. adds' \in [Pair -> Nat] /\ raced' \in BOOLEAN
    BY <1>4 DEF Batch_Run, Batch_Free, IInv, Types
  <2> QED
    BY <1>4, <2>1, <2>2, CallStep DEF Batch_Run, Batch_Free
<1> QED
  BY <1>1, <1>2, <1>3, <1>4 DEF Client

LEMMA TurnStep == ASSUME IInv, NEW t \in Thread, Turn(t) PROVE IInv'
<1>1. pc[t] = "next" /\ UNCHANGED <<exists, bat, node, op, read, matches, history>>
  BY DEF Turn
<1>2. op.does # "nothing"
  BY <1>1 DEF IInv, Rest
<1>3. CASE todo = {} /\ pc' = [pc EXCEPT ![t] = "done"] /\ UNCHANGED <<todo, item>>
  <2>1. pc' \in [Thread -> Phase]
    BY <1>3 DEF IInv, Types, Phase
  <2> QED
    BY <1>1, <1>2, <1>3, <2>1 DEF IInv, Types, Once, Allocated, InHand, Todo, Rest, alloc, history
<1>4. ASSUME NEW a \in todo, todo' = todo \ {a}, item' = [item EXCEPT ![t] = a],
             pc' = [pc EXCEPT ![t] = "call"]
      PROVE  IInv'
  <2>1. pc' \in [Thread -> Phase] /\ item' \in [Thread -> Addr \cup {None}]
    BY <1>4 DEF IInv, Types, Phase
  <2>2. \A u \in Thread : /\ pc'[u] = IF u = t THEN "call" ELSE pc[u]
                         /\ item'[u] = IF u = t THEN a ELSE item[u]
    BY <1>4 DEF IInv, Types
  <2> QED
    BY <1>1, <1>2, <1>4, <2>1, <2>2
    DEF IInv, Types, Once, Allocated, InHand, Todo, Rest, alloc, history
<1> QED
  BY <1>3, <1>4 DEF Turn

(* A callback that is through leaves what the others have in hand.         *)
LEMMA AgainFacts ==
  ASSUME Types, NEW t \in Thread, Again(t)
  PROVE  /\ pc' \in [Thread -> Phase] /\ item' \in [Thread -> Addr \cup {None}]
         /\ pc'[t] = "next"
         /\ \A u \in Thread \ {t} : pc'[u] = pc[u] /\ item'[u] = item[u]
BY DEF Again, Types, Phase

LEMMA CallbackStep ==
  ASSUME IInv, NEW t \in Thread, FindCall(t) \/ FindPush(t) \/ RunCall(t) \/ FreeCall(t)
  PROVE  IInv'
<1>1. pc[t] \in {"call", "push"} /\ item[t] \in Addr
  BY NoneListed DEF FindCall, FindPush, RunCall, FreeCall
<1>2. op.does # "nothing" /\ UNCHANGED <<exists, bat, op, todo, adds, raced>>
  BY <1>1 DEF IInv, Rest, FindCall, FindPush, RunCall, FreeCall, history
<1>3. CASE Again(t) /\ UNCHANGED <<node, matches, read, given>>
  BY <1>1, <1>2, <1>3, AgainFacts
  DEF IInv, Types, Once, Allocated, InHand, Todo, Rest, alloc
<1>4. CASE FindCall(t) /\ ~Again(t)
  <2>1. /\ pc' = [pc EXCEPT ![t] = "push"] /\ read' = [read EXCEPT ![t] = matches]
        /\ op.does = "find" /\ UNCHANGED <<item, node, matches, history>>
    BY <1>4 DEF FindCall
  <2>2. pc' \in [Thread -> Phase] /\ read' \in [Thread -> Seq(Addr)]
          /\ \A u \in Thread : pc'[u] = IF u = t THEN "push" ELSE pc[u]
    BY <2>1 DEF IInv, Types, Phase
  <2>3. pc'[t] = "push" /\ \A u \in Thread \ {t} : pc'[u] = pc[u]
    BY <2>2
  <2> QED
    BY <1>1, <1>2, <2>1, <2>2, <2>3
    DEF IInv, Types, Once, Allocated, InHand, Todo, Rest, alloc, history
<1>5. CASE FindPush(t)
  <2>1. /\ matches' = Append(read[t], item[t]) /\ read' = [read EXCEPT ![t] = <<>>]
        /\ Again(t) /\ UNCHANGED <<node, given>>
    BY <1>5 DEF FindPush, history
  <2>2. matches' \in Seq(Addr) /\ read' \in [Thread -> Seq(Addr)]
    BY <1>1, <2>1, QueuedFacts, EmptySeq DEF IInv, Types
  <2> QED
    BY <1>1, <1>2, <2>1, <2>2, AgainFacts
    DEF IInv, Types, Once, Allocated, InHand, Todo, Rest, alloc
<1>6. CASE RunCall(t)
  <2>1. given' = [given EXCEPT ![item[t]] = @ + 1] /\ Again(t) /\ UNCHANGED <<node, matches, read>>
    BY <1>6 DEF RunCall
  <2> QED
    BY <1>1, <1>2, <2>1, AgainFacts
    DEF IInv, Types, Once, Allocated, InHand, Todo, Rest, alloc
<1>7. CASE FreeCall(t)
  <2>1. /\ node' = [a \in alloc \ {item[t]} |-> node[a]] /\ op.does = "free"
        /\ Again(t) /\ UNCHANGED <<matches, read, given>>
    BY <1>7 DEF FreeCall, history
  <2>2. node' \in Nodes
    BY <2>1, NodesFacts DEF IInv, Types, alloc
  <2> QED
    BY <1>1, <1>2, <2>1, <2>2, AgainFacts
    DEF IInv, Types, Once, Allocated, InHand, Todo, Rest
<1>8. FindCall(t) /\ Again(t) => UNCHANGED <<node, matches, read, given>>
  <2>1. ASSUME FindCall(t), Again(t), pc' = [pc EXCEPT ![t] = "push"] PROVE FALSE
    BY <2>1 DEF Again, IInv, Types
  <2> QED
    BY <2>1 DEF FindCall, history
<1> QED
  BY <1>3, <1>4, <1>5, <1>6, <1>7, <1>8

LEMMA EndStep == ASSUME IInv, End PROVE IInv'
<1>1. /\ op' = Quiet /\ todo' = {} /\ matches' = <<>>
      /\ pc' = [t \in Thread |-> "idle"] /\ item' = [t \in Thread |-> None]
      /\ read' = [t \in Thread |-> <<>>]
  BY DEF End, DelEnd, RunEnd, FreeEnd, Return
<1>2. op' \in Call /\ op'.does = "nothing"
  BY <1>1 DEF Quiet, Call
<1>3. <<>> \in Seq(Addr) /\ Queued(<<>>) = {} /\ DOMAIN <<>> = {}
  BY EmptySeq DEF Queued
<1>4. node' = node /\ given' = given /\ alloc' = alloc
  BY DEF End, DelEnd, RunEnd, FreeEnd, alloc, history
<1>5. /\ bat' \in Seq(Addr) /\ Once' /\ Queued(bat') \subseteq alloc
      /\ exists' \in BOOLEAN /\ raced' \in BOOLEAN /\ adds' \in [Pair -> Nat]
  <2>1. CASE DelEnd
    <3>1. /\ bat' \in Without(bat, Queued(matches)) /\ op.does = "find"
          /\ UNCHANGED <<exists, raced>>
      BY <2>1 DEF DelEnd
    <3>2. bat' \in Seq(Addr) /\ Queued(bat') \subseteq Queued(bat) /\ Once'
      BY <3>1, WithoutSeq, WithoutOnce DEF IInv, Types, Once
    <3>3. adds' \in [Pair -> Nat]
      BY <2>1 DEF DelEnd, IInv, Types
    <3> QED
      BY <3>1, <3>2, <3>3 DEF IInv, Types, Allocated
  <2>2. CASE RunEnd
    BY <2>2 DEF RunEnd, IInv, Types, Once, Allocated, history
  <2>3. CASE FreeEnd
    BY <2>3, <1>3 DEF FreeEnd, Once
  <2> QED
    BY <2>1, <2>2, <2>3 DEF End
<1>6. pc' \in [Thread -> Phase] /\ item' \in [Thread -> Addr \cup {None}]
        /\ read' \in [Thread -> Seq(Addr)] /\ \A t \in Thread : pc'[t] = "idle"
  BY <1>1, <1>3 DEF Phase
<1> QED
  BY <1>1, <1>2, <1>3, <1>4, <1>5, <1>6 DEF IInv, Types, Allocated, InHand, Todo, Rest

LEMMA Invariance == IInv /\ [Next]_vars => IInv'
<1>1. ASSUME IInv, UNCHANGED vars PROVE IInv'
  BY <1>1 DEF vars, call, history, IInv, Types, Once, Allocated, InHand, Todo, Rest, alloc
<1>2. ASSUME IInv, Next PROVE IInv'
  BY <1>2, ClientStep, TurnStep, CallbackStep, EndStep DEF Next, Step
<1> QED
  BY <1>1, <1>2

-----------------------------------------------------------------------------
(* What a delete finds *)

Matching == { a \in Queued(bat) : Batch_Del_Find_cb(op, node[a]) }
Has(t, a) == pc[t] \in {"call", "push"} /\ item[t] = a
Alone == \A t \in Thread \ {Main} : pc[t] = "idle"

(* Every match is still to be given, in the hands of a thread, or found,   *)
(* unless a push was lost; but then the push that undid it is there.       *)
Reads == \A t \in Thread : pc[t] # "push" => read[t] = <<>>
Started == op.does # "nothing" => pc[Main] # "idle"
Through == \A t \in Thread : pc[t] = "done" => todo = {}
Found ==
  op.does = "find" =>
    /\ Queued(matches) \subseteq Matching
    /\ \A t \in Thread : /\ Queued(read[t]) \subseteq Matching
                         /\ pc[t] = "push" => item[t] \in Matching
OneFound ==
  op.does = "find" => \A a \in Matching :
    a \in todo \/ matches # <<>> \/ \E t \in Thread : Has(t, a)
AllFound ==
  op.does = "find" /\ Alone =>
    /\ pc[Main] = "push" => read[Main] = matches
    /\ \A a \in Matching : a \in todo \/ a \in Queued(matches) \/ Has(Main, a)

FInv == Reads /\ Started /\ Through /\ Found /\ OneFound /\ AllFound

LEMMA NotFinding ==
  ASSUME op.does # "find", Reads, Started, Through
  PROVE  FInv
BY DEF FInv, Found, OneFound, AllFound

LEMMA InitFInv == Init => FInv
<1> SUFFICES ASSUME Init PROVE FInv
  OBVIOUS
<1>1. op.does # "find" /\ op.does = "nothing" /\ todo = {}
      /\ \A t \in Thread : pc[t] = "idle" /\ read[t] = <<>>
  BY DEF Init, Quiet
<1> QED
  BY <1>1, NotFinding DEF Reads, Started, Through

(* A call begins: no thread has read anything, and all is still to come.   *)
LEMMA FindsCall ==
  ASSUME IInv, FInv, NEW T \in SUBSET Thread, Main \in T, NEW o, Foreach(T, o)
  PROVE  FInv'
<1>1. op = Quiet /\ op.does = "nothing"
  BY DEF Foreach, Idle, Quiet
<1>2. \A t \in Thread : pc[t] = "idle" /\ read[t] = <<>>
  BY <1>1 DEF IInv, Rest, FInv, Reads
<1>3. /\ todo' = Queued(bat) /\ matches' = <<>> /\ UNCHANGED <<bat, read>>
      /\ \A t \in Thread : pc'[t] \in {"next", "idle"}
      /\ pc'[Main] = "next"
  BY ThreadAssumption DEF Foreach
<1>4. Reads' /\ Started' /\ Through'
  BY <1>2, <1>3 DEF Reads, Started, Through
<1>5. Queued(<<>>) = {}
  BY DEF Queued
<1>6. Found'
  <2>1. \A t \in Thread : Queued(read'[t]) = {} /\ pc'[t] # "push"
    BY <1>2, <1>3, <1>5
  <2> QED
    BY <1>3, <1>5, <2>1 DEF Found
<1>7. Matching' \subseteq todo'
  BY <1>3 DEF Matching
<1>8. OneFound'
  BY <1>7 DEF OneFound
<1>9. AllFound'
  BY <1>3, <1>7 DEF AllFound
<1> QED
  BY <1>4, <1>6, <1>8, <1>9 DEF FInv

LEMMA FindsClient == ASSUME IInv, FInv, Client PROVE FInv'
<1>1. ASSUME Batch_Init \/ \E p \in Pair : Batch_Add(p) PROVE FInv'
  <2>1. UNCHANGED <<op, todo, pc, read>> /\ op.does = "nothing"
    BY <1>1 DEF Batch_Init, Batch_Add, call, Idle, Quiet
  <2>2. op'.does # "find" /\ Reads' /\ Started' /\ Through'
    BY <2>1 DEF FInv, Reads, Started, Through
  <2>3. Found' /\ OneFound' /\ AllFound'
    BY <2>2 DEF Found, OneFound, AllFound
  <2> QED
    BY <2>2, <2>3 DEF FInv
<1>2. ASSUME NEW T \in SUBSET Thread, Main \in T, NEW f, NEW d,
             Batch_Del(T, f, d) \/ Batch_Run(T) \/ Batch_Free(T)
      PROVE  FInv'
  BY <1>2, FindsCall DEF Batch_Del, Batch_Run, Batch_Free
<1> QED
  BY <1>1, <1>2 DEF Client

LEMMA FindsTurn == ASSUME IInv, FInv, NEW t \in Thread, Turn(t) PROVE FInv'
<1>1. pc[t] = "next" /\ UNCHANGED <<bat, node, op, read, matches>> /\ Matching' = Matching
  BY DEF Turn, Matching
<1>2. PICK next \in {"call", "done"} : pc' = [pc EXCEPT ![t] = next]
  BY DEF Turn
<1>3. pc'[t] = next /\ \A u \in Thread \ {t} : pc'[u] = pc[u]
  BY <1>2 DEF IInv, Types
<1>4. Reads' /\ Started' /\ Found'
  <2>1. \A u \in Thread \ {t} : item'[u] = item[u]
    BY DEF Turn, IInv, Types
  <2>2. Reads' /\ Started'
    BY <1>1, <1>3, ThreadAssumption DEF FInv, Reads, Started
  <2>3. \A u \in Thread : pc'[u] = "push" => pc[u] = "push" /\ item'[u] = item[u]
    BY <1>3, <2>1
  <2>4. Found'
    BY <1>1, <2>3 DEF FInv, Found
  <2> QED
    BY <2>2, <2>4
<1>5. CASE todo = {} /\ next = "done" /\ UNCHANGED <<todo, item>>
  <2>1. Through'
    BY <1>5 DEF Through
  <2>2. \A u \in Thread, a \in Matching : Has(u, a)' <=> Has(u, a)
    BY <1>1, <1>3, <1>5 DEF Has
  <2>3. OneFound'
    BY <1>1, <1>5, <2>2 DEF FInv, OneFound
  <2>4. Alone' => Alone /\ (pc'[Main] = "push" => pc[Main] = "push")
    BY <1>1, <1>3, <1>5, ThreadAssumption DEF Alone
  <2>5. AllFound'
    BY <1>1, <1>5, <2>2, <2>4, ThreadAssumption DEF FInv, AllFound
  <2> QED
    BY <1>4, <2>1, <2>3, <2>5 DEF FInv
<1>6. ASSUME NEW a \in todo, next = "call", todo' = todo \ {a}, item' = [item EXCEPT ![t] = a]
      PROVE  FInv'
  <2>1. item'[t] = a /\ \A u \in Thread \ {t} : item'[u] = item[u]
    BY <1>6 DEF IInv, Types
  <2>2. Through'
    BY <1>3, <1>6 DEF FInv, Through
  <2>3. Has(t, a)' /\ \A u \in Thread, b \in Matching : Has(u, b) => Has(u, b)'
    BY <1>1, <1>3, <1>6, <2>1 DEF Has
  <2>4. OneFound'
    BY <1>1, <1>6, <2>3 DEF FInv, OneFound
  <2>5. AllFound'
    <3>1. ASSUME Alone', op.does = "find"
          PROVE  /\ t = Main /\ Alone /\ pc'[Main] # "push"
      BY <1>1, <1>3, <1>6, <3>1, ThreadAssumption DEF Alone
    <3> QED
      BY <1>1, <1>6, <2>3, <3>1, ThreadAssumption DEF FInv, AllFound
  <2> QED
    BY <1>4, <2>2, <2>4, <2>5 DEF FInv
<1>7. \/ todo = {} /\ next = "done" /\ UNCHANGED <<todo, item>>
      \/ next = "call" /\ \E a \in todo : todo' = todo \ {a} /\ item' = [item EXCEPT ![t] = a]
  <2>1. pc[t] = "next" /\ pc \in [Thread -> Phase]
    BY <1>1 DEF IInv, Types
  <2>2. pc' = [pc EXCEPT ![t] = "call"] => next = "call"
    BY <1>3, <2>1
  <2>3. pc' = [pc EXCEPT ![t] = "done"] => next = "done"
    BY <1>3, <2>1
  <2> QED
    BY <2>2, <2>3 DEF Turn
<1> QED
  BY <1>5, <1>6, <1>7

LEMMA FindsMatch == ASSUME IInv, FInv, NEW t \in Thread, FindCall(t) PROVE FInv'
<1>1. /\ pc[t] = "call" /\ op.does = "find" /\ read[t] = <<>> /\ item[t] \in Queued(bat)
      /\ UNCHANGED <<bat, node, op, todo, matches>> /\ Matching' = Matching
  BY NoneListed DEF FindCall, FInv, Reads, Matching
<1>2. CASE Batch_Del_Find_cb(op, node[item[t]])
  <2>1. /\ pc'[t] = "push" /\ \A u \in Thread \ {t} : pc'[u] = pc[u]
        /\ read'[t] = matches /\ \A u \in Thread \ {t} : read'[u] = read[u]
        /\ UNCHANGED item
    BY <1>2 DEF FindCall, IInv, Types
  <2>2. item[t] \in Matching
    BY <1>1, <1>2 DEF Matching
  <2>3. Reads' /\ Started' /\ Through'
    BY <1>1, <2>1, ThreadAssumption DEF FInv, Reads, Started, Through
  <2>4. Found'
    BY <1>1, <2>1, <2>2 DEF FInv, Found
  <2>5. \A u \in Thread, a \in Matching : Has(u, a) => Has(u, a)'
    BY <2>1 DEF Has
  <2>6. OneFound'
    BY <1>1, <2>5 DEF FInv, OneFound
  <2>7. Alone' => Alone /\ t = Main
    BY <1>1, <2>1 DEF Alone
  <2>8. AllFound'
    BY <1>1, <2>1, <2>5, <2>7, ThreadAssumption DEF FInv, AllFound
  <2> QED
    BY <2>3, <2>4, <2>6, <2>8 DEF FInv
<1>3. CASE ~Batch_Del_Find_cb(op, node[item[t]])
  <2>1. Again(t) /\ UNCHANGED read
    BY <1>3 DEF FindCall
  <2>2. pc'[t] = "next" /\ \A u \in Thread \ {t} : pc'[u] = pc[u] /\ item'[u] = item[u]
    BY <2>1, AgainFacts DEF IInv
  <2>3. item[t] \notin Matching
    BY <1>3 DEF Matching
  <2>4. Reads' /\ Started' /\ Through'
    BY <1>1, <2>1, <2>2, ThreadAssumption DEF FInv, Reads, Started, Through
  <2>5. Found'
    BY <1>1, <2>1, <2>2 DEF FInv, Found
  <2>6. \A u \in Thread, a \in Matching : Has(u, a) => Has(u, a)'
    BY <2>2, <2>3 DEF Has
  <2>7. OneFound'
    BY <1>1, <2>6 DEF FInv, OneFound
  <2>8. Alone' => Alone /\ pc'[Main] # "push"
    <3>1. ASSUME Alone' PROVE t = Main
      BY <2>2, <3>1 DEF Alone
    <3> QED
      BY <2>2, <3>1 DEF Alone
  <2>9. AllFound'
    BY <1>1, <2>6, <2>8, ThreadAssumption DEF FInv, AllFound
  <2> QED
    BY <2>4, <2>5, <2>7, <2>9 DEF FInv
<1> QED
  BY <1>2, <1>3

(* A push that was read before another is written undoes that one, but     *)
(* what it writes is not empty.                                            *)
LEMMA FindsPush == ASSUME IInv, FInv, NEW t \in Thread, FindPush(t) PROVE FInv'
<1>1. /\ pc[t] = "push" /\ op.does = "find" /\ matches' = Append(read[t], item[t]) /\ Again(t)
      /\ read' = [read EXCEPT ![t] = <<>>]
      /\ UNCHANGED <<bat, node, op, todo>> /\ Matching' = Matching
  BY DEF FindPush, Matching, IInv, Rest
<1>2. pc'[t] = "next" /\ \A u \in Thread \ {t} : pc'[u] = pc[u] /\ item'[u] = item[u]
  BY <1>1, AgainFacts DEF IInv
<1>3. read'[t] = <<>> /\ \A u \in Thread \ {t} : read'[u] = read[u]
  BY <1>1 DEF IInv, Types
<1>4. matches' # <<>> /\ Queued(matches') = Queued(read[t]) \cup {item[t]}
  <2>1. item[t] \in Addr /\ read[t] \in Seq(Addr)
    BY <1>1, NoneListed DEF IInv, Types
  <2> QED
    BY <1>1, <2>1, AppendQueued
<1>5. Reads' /\ Started' /\ Through'
  BY <1>1, <1>2, <1>3, ThreadAssumption DEF FInv, Reads, Started, Through
<1>6. Found'
  <2>1. Queued(<<>>) = {}
    BY DEF Queued
  <2>2. Queued(matches') \subseteq Matching
    BY <1>1, <1>4 DEF FInv, Found
  <2>3. \A u \in Thread : /\ Queued(read'[u]) \subseteq Matching
                          /\ pc'[u] = "push" => item'[u] \in Matching
    BY <1>1, <1>2, <1>3, <2>1 DEF FInv, Found
  <2> QED
    BY <1>1, <2>2, <2>3 DEF Found
<1>7. OneFound'
  BY <1>4 DEF OneFound
<1>8. AllFound'
  <2>1. ASSUME Alone' PROVE Alone /\ t = Main /\ pc'[Main] # "push"
    <3>1. t = Main
      BY <1>2, <2>1 DEF Alone
    <3> QED
      BY <1>2, <2>1, <3>1 DEF Alone
  <2>2. ASSUME Alone', NEW a \in Matching PROVE a \in todo \/ a \in Queued(matches')
    BY <1>1, <1>4, <2>1, <2>2 DEF FInv, AllFound, Has
  <2> QED
    BY <1>1, <2>1, <2>2 DEF AllFound
<1> QED
  BY <1>5, <1>6, <1>7, <1>8 DEF FInv

LEMMA FindsOther ==
  ASSUME IInv, FInv, NEW t \in Thread, RunCall(t) \/ FreeCall(t)
  PROVE  FInv'
<1>1. /\ pc[t] = "call" /\ op.does # "find" /\ Again(t)
      /\ UNCHANGED <<op, todo, read>>
  BY DEF RunCall, FreeCall
<1>2. pc'[t] = "next" /\ \A u \in Thread \ {t} : pc'[u] = pc[u]
  BY <1>1, AgainFacts DEF IInv
<1>3. Reads' /\ Started' /\ Through'
  BY <1>1, <1>2, ThreadAssumption DEF FInv, Reads, Started, Through
<1>4. Found' /\ OneFound' /\ AllFound'
  BY <1>1 DEF Found, OneFound, AllFound
<1> QED
  BY <1>3, <1>4 DEF FInv

LEMMA FindsEnd == ASSUME End PROVE FInv'
<1>1. /\ op' = Quiet /\ todo' = {}
      /\ \A t \in Thread : pc'[t] = "idle" /\ read'[t] = <<>>
  BY DEF End, DelEnd, RunEnd, FreeEnd, Return
<1>2. op'.does = "nothing"
  BY <1>1 DEF Quiet
<1>3. Reads' /\ Started' /\ Through'
  BY <1>1, <1>2 DEF Reads, Started, Through
<1>4. Found' /\ OneFound' /\ AllFound'
  BY <1>2 DEF Found, OneFound, AllFound
<1> QED
  BY <1>3, <1>4 DEF FInv

LEMMA Finds == IInv /\ FInv /\ [Next]_vars => FInv'
<1>1. ASSUME FInv, UNCHANGED vars PROVE FInv'
  <2>1. UNCHANGED <<bat, node, op, todo, pc, item, read, matches>>
    BY <1>1 DEF vars, call
  <2>2. Matching' = Matching /\ Alone' = Alone /\ \A t, a : Has(t, a)' = Has(t, a)
    BY <2>1 DEF Matching, Alone, Has
  <2>3. Reads' /\ Started' /\ Through' /\ Found' /\ OneFound' /\ AllFound'
    BY <1>1, <2>1, <2>2 DEF FInv, Reads, Started, Through, Found, OneFound, AllFound
  <2> QED
    BY <2>3 DEF FInv
<1>2. ASSUME IInv, FInv, Next PROVE FInv'
  BY <1>2, FindsClient, FindsTurn, FindsMatch, FindsPush, FindsOther, FindsEnd DEF Next, Step
<1> QED
  BY <1>1, <1>2

-----------------------------------------------------------------------------
(* How often a pair is in the batch.  An address is in it once, so that    *)
(* the entries of a pair are as many as its addresses.                     *)

Holding(p) == { a \in Queued(bat) : a \in alloc /\ node[a] = p }
HowOften(p) == Cardinality(Holding(p))

LEMMA OnceCount ==
  ASSUME NEW S, NEW q \in Seq(S), \A i, j \in DOMAIN q : q[i] = q[j] => i = j, NEW A
  PROVE  Cardinality({ i \in DOMAIN q : q[i] \in A }) = Cardinality({ a \in Queued(q) : a \in A })
<1> DEFINE C == { i \in DOMAIN q : q[i] \in A }
           D == { a \in Queued(q) : a \in A }
           f == [i \in C |-> q[i]]
<1>1. IsFiniteSet(C)
  <2>1. DOMAIN q = 1..Len(q) /\ Len(q) \in Nat
    BY LenProperties
  <2>2. C \in SUBSET (1..Len(q))
    BY <2>1
  <2> QED
    BY <2>1, <2>2, FinitePositions
<1>2. f \in [C -> D]
  BY DEF Queued
<1>3. \A i, j \in C : f[i] = f[j] => i = j
  OBVIOUS
<1>4. \A a \in D : \E i \in C : f[i] = a
  BY DEF Queued
<1>5. f \in Bijection(C, D)
  BY <1>2, <1>3, <1>4 DEF Bijection, Injection, Surjection, IsInjective
<1> QED
  BY <1>1, <1>5, FS_Bijection DEF ExistsBijection

LEMMA FiniteQueue ==
  ASSUME NEW S, NEW q \in Seq(S)
  PROVE  IsFiniteSet(Queued(q))
<1>1. DOMAIN q = 1..Len(q) /\ Len(q) \in Nat
  BY LenProperties
<1>2. IsFiniteSet(DOMAIN q)
  BY <1>1, FS_Interval
<1> DEFINE f == [i \in DOMAIN q |-> q[i]]
<1>3. f \in Surjection(DOMAIN q, Queued(q))
  BY DEF Surjection, Queued
<1> QED
  BY <1>2, <1>3, FS_Surjection

LEMMA HoldingFacts ==
  ASSUME IInv, NEW p
  PROVE  Cardinality(Listed(p)) = HowOften(p) /\ IsFiniteSet(Holding(p)) /\ HowOften(p) \in Nat
<1> DEFINE A == { a \in alloc : node[a] = p }
<1>1. bat \in Seq(Addr) /\ \A i, j \in DOMAIN bat : bat[i] = bat[j] => i = j
  BY DEF IInv, Types, Once
<1>2. Listed(p) = { i \in DOMAIN bat : bat[i] \in A }
  BY DEF Listed
<1>3. Holding(p) = { a \in Queued(bat) : a \in A }
  BY DEF Holding
<1>4. IsFiniteSet(Holding(p))
  <2>1. IsFiniteSet(Queued(bat))
    BY <1>1, FiniteQueue
  <2>2. Holding(p) \subseteq Queued(bat)
    BY DEF Holding
  <2> QED
    BY <2>1, <2>2, FS_Subset
<1>5. HowOften(p) \in Nat
  BY <1>4, FS_CardinalityType DEF HowOften
<1> HIDE DEF A
<1>6. Cardinality({ i \in DOMAIN bat : bat[i] \in A }) = Cardinality({ a \in Queued(bat) : a \in A })
  BY <1>1, OnceCount
<1>7. Cardinality(Listed(p)) = Cardinality(Holding(p))
  BY <1>2, <1>3, <1>6
<1> QED
  BY <1>4, <1>5, <1>7 DEF HowOften

(* What is taken out of a listing is what it is taken out of no more.      *)
LEMMA WithoutQueued ==
  ASSUME NEW S, NEW q \in Seq(S), NEW D, NEW r \in Without(q, D)
  PROVE  Queued(r) = Queued(q) \ D
<1>1. r \in Seq(S) /\ Queued(r) \subseteq Queued(q) /\ Queued(r) \cap D = {}
  BY WithoutSeq, WithoutGone
<1>2. ASSUME NEW x \in Queued(q), x \notin D PROVE x \in Queued(r)
  <2>1. Times(q, x) # 0 /\ Times(r, x) = Times(q, x)
    BY <1>2, NoneTimes, WithoutTimes
  <2> QED
    BY <1>1, <2>1, NoneTimes
<1> QED
  BY <1>1, <1>2

(* The entries are the adds since the last delete, or more when a delete   *)
(* has lost pushes, which takes several threads.                           *)
Counts ==
  op.does # "free" => \A p \in Pair : /\ HowOften(p) >= adds[p]
                                      /\ exists /\ ~raced => HowOften(p) = adds[p]
Nowhere == ~exists => bat = <<>> /\ \A p \in Pair : adds[p] = 0
Single == op.does = "find" /\ ~raced => Alone
CInv == Counts /\ Nowhere /\ Single

LEMMA EmptyHolds ==
  ASSUME bat = <<>>
  PROVE  \A p : HowOften(p) = 0
BY FS_EmptySet DEF HowOften, Holding, Queued

LEMMA CountsInit == Init => CInv
<1> SUFFICES ASSUME Init PROVE CInv
  OBVIOUS
<1>1. \A p \in Pair : HowOften(p) = 0 /\ adds[p] = 0
  BY EmptyHolds DEF Init
<1> QED
  BY <1>1 DEF Init, CInv, Counts, Nowhere, Single, Quiet

(* A step that leaves the batch, its nodes and the counts alone.           *)
LEMMA CountsSame ==
  ASSUME IInv, CInv, UNCHANGED <<exists, bat, node, adds>>, raced' \in BOOLEAN,
         raced => raced', op.does = "free" => op'.does = "free", Single'
  PROVE  CInv'
<1>1. \A p : HowOften(p)' = HowOften(p)
  BY DEF HowOften, Holding, alloc
<1>2. Counts'
  BY <1>1 DEF CInv, Counts
<1>3. Nowhere'
  BY DEF CInv, Nowhere
<1> QED
  BY <1>2, <1>3 DEF CInv

LEMMA CountsAdd ==
  ASSUME IInv, CInv, NEW p \in Pair, Batch_Add(p)
  PROVE  CInv'
<1>1. PICK a \in Addr \ alloc :
        /\ node' = [b \in alloc \cup {a} |-> IF b = a THEN p ELSE node[b]]
        /\ \/ bat' = <<a>> \o bat /\ adds' = [adds EXCEPT ![p] = @ + 1]
           \/ UNCHANGED <<bat, adds>>
  BY DEF Batch_Add, Pushed
<1>2. op.does = "nothing" /\ op' = op /\ exists /\ exists' = exists /\ raced' = raced
  BY DEF Batch_Add, Idle, Quiet, call
<1>3. Queued(bat) \subseteq alloc /\ a \notin Queued(bat) /\ bat \in Seq(Addr)
  BY <1>1, <1>2 DEF IInv, Allocated, Types
<1>4. Single' /\ Nowhere'
  BY <1>2 DEF Single, Nowhere
<1>5. alloc' = alloc \cup {a} /\ node'[a] = p /\ \A b \in alloc : node'[b] = node[b]
  BY <1>1 DEF alloc
<1>6. \A q \in Pair : /\ HowOften(q) >= adds[q] /\ (~raced => HowOften(q) = adds[q])
                      /\ HowOften(q) \in Nat /\ adds[q] \in Nat
  BY <1>2, HoldingFacts DEF CInv, Counts, IInv, Types
<1>7. CASE UNCHANGED <<bat, adds>>
  <2>1. \A q : Holding(q)' = Holding(q)
    BY <1>3, <1>5, <1>7 DEF Holding
  <2>2. \A q : HowOften(q)' = HowOften(q)
    BY <2>1 DEF HowOften
  <2>3. Counts'
    BY <1>2, <1>6, <1>7, <2>2 DEF Counts
  <2> QED
    BY <1>4, <2>3 DEF CInv
<1>8. CASE bat' = <<a>> \o bat /\ adds' = [adds EXCEPT ![p] = @ + 1]
  <2>1. Queued(bat') = Queued(bat) \cup {a}
    <3>1. <<a>> \in Seq(Addr) /\ Queued(<<a>>) = {a} /\ Len(<<a>>) = 1 /\ <<a>>[1] = a
      BY DEF Queued
    <3>2. Len(bat) \in Nat /\ DOMAIN bat = 1..Len(bat)
      BY <1>3, LenProperties
    <3>3. /\ bat' \in Seq(Addr) /\ Len(bat') = Len(bat) + 1
          /\ \A i \in 1..(Len(bat) + 1) : bat'[i] = IF i <= 1 THEN <<a>>[i] ELSE bat[i - 1]
      <4>1. /\ Len(<<a>> \o bat) = Len(<<a>>) + Len(bat) /\ <<a>> \o bat \in Seq(Addr)
            /\ \A i \in 1..(Len(<<a>>) + Len(bat)) :
                 (<<a>> \o bat)[i] = IF i <= Len(<<a>>) THEN <<a>>[i] ELSE bat[i - Len(<<a>>)]
        BY <1>3, <3>1, ConcatProperties
      <4>2. Len(<<a>>) + Len(bat) = Len(bat) + 1
        BY <3>1, <3>2
      <4> QED
        BY <1>8, <3>1, <4>1, <4>2
    <3>4. DOMAIN bat' = 1..(Len(bat) + 1)
      BY <3>3, LenProperties
    <3>5. a \in Queued(bat')
      <4>1. 1 \in 1..(Len(bat) + 1) /\ bat'[1] = a
        BY <3>1, <3>2, <3>3
      <4> QED
        BY <3>4, <4>1 DEF Queued
    <3>6. ASSUME NEW i \in DOMAIN bat PROVE bat[i] \in Queued(bat')
      <4>1. i + 1 \in 1..(Len(bat) + 1) /\ ~(i + 1 <= 1) /\ (i + 1) - 1 = i
        BY <3>2
      <4>2. bat'[i + 1] = bat[i]
        BY <3>3, <4>1
      <4> QED
        BY <3>4, <4>1, <4>2 DEF Queued
    <3>7. Queued(bat') \subseteq Queued(bat) \cup {a}
      BY <1>3, <1>8, <3>1, QueuedFacts
    <3> QED
      BY <3>5, <3>6, <3>7 DEF Queued
  <2>2. Holding(p)' = Holding(p) \cup {a} /\ a \notin Holding(p)
    BY <1>3, <1>5, <2>1 DEF Holding
  <2>3. \A q : q # p => Holding(q)' = Holding(q)
    BY <1>3, <1>5, <2>1 DEF Holding
  <2>4. HowOften(p)' = HowOften(p) + 1
    <3>1. IsFiniteSet(Holding(p))
      BY HoldingFacts
    <3>2. Cardinality(Holding(p) \cup {a}) = Cardinality(Holding(p)) + 1
      BY <2>2, <3>1, FS_AddElement
    <3> QED
      BY <2>2, <3>2 DEF HowOften
  <2>5. \A q : q # p => HowOften(q)' = HowOften(q)
    BY <2>3 DEF HowOften
  <2>6. adds'[p] = adds[p] + 1 /\ \A q \in Pair : q # p => adds'[q] = adds[q]
    BY <1>8 DEF IInv, Types
  <2>7. ASSUME NEW q \in Pair
        PROVE  HowOften(q)' >= adds'[q] /\ (~raced => HowOften(q)' = adds'[q])
    <3>1. CASE q = p
      <4>1. /\ HowOften(p) >= adds[p] /\ (~raced => HowOften(p) = adds[p])
            /\ HowOften(p) \in Nat /\ adds[p] \in Nat
        BY <1>6
      <4>2. HowOften(p) + 1 >= adds[p] + 1 /\ (~raced => HowOften(p) + 1 = adds[p] + 1)
        BY <4>1
      <4> QED
        BY <2>4, <2>6, <3>1, <4>2
    <3>2. CASE q # p
      BY <1>6, <2>5, <2>6, <3>2
    <3> QED
      BY <3>1, <3>2
  <2>8. Counts'
    BY <1>2, <2>7 DEF Counts
  <2> QED
    BY <1>4, <2>8 DEF CInv
<1> QED
  BY <1>1, <1>7, <1>8

(* A delete of one thread takes every entry that matches; with several it  *)
(* may leave some, but it takes no other.                                  *)
LEMMA CountsDel ==
  ASSUME IInv, FInv, CInv, DelEnd
  PROVE  CInv'
<1>1. /\ bat' \in Without(bat, Queued(matches)) /\ UNCHANGED <<exists, node, raced>>
      /\ adds' = [p \in Pair |-> IF Batch_Del_Find_cb(op, p) THEN 0 ELSE adds[p]]
      /\ op.does = "find" /\ op'.does = "nothing"
  BY DEF DelEnd, Return, Quiet
<1>2. bat \in Seq(Addr) /\ Queued(bat') = Queued(bat) \ Queued(matches)
  BY <1>1, WithoutQueued DEF IInv, Types
<1>3. Queued(matches) \subseteq Matching
  BY <1>1 DEF FInv, Found
<1>4. Alone => Queued(matches) = Matching
  <2>1. pc[Main] = "done"
    BY <1>1, ThreadAssumption DEF DelEnd, Joined, FInv, Started
  <2>2. todo = {} /\ \A a : ~Has(Main, a)
    BY <2>1, ThreadAssumption DEF FInv, Through, Has
  <2> QED
    BY <1>1, <1>3, <2>2 DEF FInv, AllFound
<1>5. alloc' = alloc
  BY <1>1 DEF alloc
<1>6. \A p \in Pair : /\ HowOften(p) >= adds[p] /\ (exists /\ ~raced => HowOften(p) = adds[p])
                      /\ HowOften(p) \in Nat /\ adds[p] \in Nat
  BY <1>1, HoldingFacts DEF CInv, Counts, IInv, Types
<1>7. IInv'
  BY EndStep DEF End
<1>8. ASSUME NEW p \in Pair
      PROVE  HowOften(p)' >= adds'[p] /\ (exists' /\ ~raced' => HowOften(p)' = adds'[p])
  <2>1. CASE ~Batch_Del_Find_cb(op, p)
    <3>1. \A a \in Queued(matches) : ~(a \in Queued(bat) /\ node[a] = p)
      BY <1>3, <2>1 DEF Matching
    <3>2. Holding(p)' = Holding(p)
      BY <1>1, <1>2, <1>5, <3>1 DEF Holding
    <3>3. HowOften(p)' = HowOften(p) /\ adds'[p] = adds[p]
      BY <1>1, <2>1, <3>2 DEF HowOften
    <3> QED
      BY <1>1, <1>6, <3>3
  <2>2. CASE Batch_Del_Find_cb(op, p)
    <3>1. adds'[p] = 0
      BY <1>1, <2>2
    <3>2. HowOften(p)' \in Nat
      <4>1. IsFiniteSet(Queued(bat'))
        BY <1>7, FiniteQueue DEF IInv, Types
      <4>2. Holding(p)' \subseteq Queued(bat')
        BY DEF Holding
      <4>3. IsFiniteSet(Holding(p)')
        BY <4>1, <4>2, FS_Subset
      <4> QED
        BY <4>3, FS_CardinalityType DEF HowOften
    <3>3. ~raced => HowOften(p)' = 0
      <4>1. ASSUME ~raced PROVE Holding(p)' = {}
        <5>1. Queued(matches) = Matching
          BY <1>1, <1>4, <4>1 DEF CInv, Single
        <5>2. \A a \in Queued(bat) : node[a] = p => a \in Queued(matches)
          BY <2>2, <5>1 DEF Matching
        <5> QED
          BY <1>1, <1>2, <5>2 DEF Holding
      <4> QED
        BY <4>1, FS_EmptySet DEF HowOften
    <3> QED
      BY <1>1, <3>1, <3>2, <3>3
  <2> QED
    BY <2>1, <2>2
<1>9. Counts'
  BY <1>8 DEF Counts
<1>10. Nowhere'
  <2>1. ASSUME ~exists PROVE bat' = <<>> /\ \A p \in Pair : adds'[p] = 0
    <3>1. bat = <<>> /\ \A p \in Pair : adds[p] = 0
      BY <2>1 DEF CInv, Nowhere
    <3>2. Queued(bat') = {}
      BY <1>2, <3>1 DEF Queued
    <3>3. bat' \in Seq(Addr) /\ DOMAIN bat' = {}
      BY <1>7, <3>2 DEF Queued, IInv, Types
    <3>4. bat' = <<>>
      BY <3>3, LenProperties, EmptySeq
    <3> QED
      BY <1>1, <3>1, <3>4
  <2> QED
    BY <1>1, <2>1 DEF Nowhere
<1>11. Single'
  BY <1>1 DEF Single
<1> QED
  BY <1>9, <1>10, <1>11 DEF CInv

LEMMA CountsClient == ASSUME IInv, CInv, Client PROVE CInv'
<1>1. CASE Batch_Init
  <2>1. bat' = <<>> /\ exists' = TRUE /\ ~exists /\ UNCHANGED <<op, adds>> /\ op = Quiet
    BY <1>1 DEF Batch_Init, Idle, call, history
  <2>2. \A p : HowOften(p)' = 0
    <3>1. Queued(bat') = {}
      BY <2>1 DEF Queued
    <3>2. \A p : Holding(p)' = {}
      BY <3>1 DEF Holding
    <3> QED
      BY <3>2, FS_EmptySet DEF HowOften
  <2>3. \A p \in Pair : adds'[p] = 0
    BY <2>1 DEF CInv, Nowhere
  <2> QED
    BY <2>1, <2>2, <2>3 DEF CInv, Counts, Nowhere, Single, Quiet
<1>2. ASSUME NEW p \in Pair, Batch_Add(p) PROVE CInv'
  BY <1>2, CountsAdd
<1>3. ASSUME NEW T \in SUBSET Thread, Main \in T, NEW f, NEW d,
             Batch_Del(T, f, d) \/ Batch_Run(T) \/ Batch_Free(T)
      PROVE  CInv'
  <2>1. UNCHANGED <<exists, bat, node, adds>> /\ op = Quiet
    BY <1>3 DEF Batch_Del, Batch_Run, Batch_Free, Foreach, Idle
  <2>2. raced' \in BOOLEAN /\ (raced => raced') /\ op.does # "free"
    <3>1. raced' \in BOOLEAN /\ (raced => raced')
      <4>1. raced \in BOOLEAN
        BY DEF IInv, Types
      <4>2. CASE Batch_Del(T, f, d)
        <5>1. raced' = (raced \/ T # {Main})
          BY <4>2 DEF Batch_Del
        <5> QED
          BY <5>1
      <4>3. CASE Batch_Run(T) \/ Batch_Free(T)
        BY <4>1, <4>3 DEF Batch_Run, Batch_Free
      <4> QED
        BY <1>3, <4>2, <4>3
    <3>2. op.does # "free"
      BY <2>1 DEF Quiet
    <3> QED
      BY <3>1, <3>2
  <2>3. Single'
    <3>1. CASE Batch_Del(T, f, d)
      <4>1. pc' = [t \in Thread |-> IF t \in T THEN "next" ELSE "idle"] /\ raced' = (raced \/ T # {Main})
        BY <3>1 DEF Batch_Del, Foreach
      <4>2. ~raced' => T = {Main}
        BY <4>1
      <4>3. T = {Main} => \A t \in Thread \ {Main} : pc'[t] = "idle"
        BY <4>1
      <4> QED
        BY <4>2, <4>3 DEF Single, Alone
    <3>2. CASE Batch_Run(T) \/ Batch_Free(T)
      BY <3>2 DEF Batch_Run, Batch_Free, Foreach, Single, Quiet
    <3> QED
      BY <1>3, <3>1, <3>2
  <2> QED
    BY <2>1, <2>2, <2>3, CountsSame
<1> QED
  BY <1>1, <1>2, <1>3 DEF Client

(* A thread that is idle stays so: a delete that one thread makes remains  *)
(* a delete of one thread.                                                 *)
LEMMA CountsThread == ASSUME IInv, CInv, NEW t \in Thread, Step(t) PROVE CInv'
<1>1. /\ pc[t] # "idle" /\ UNCHANGED <<exists, bat, op, adds, raced>>
      /\ node' = node \/ op.does = "free"
  BY DEF Step, Turn, FindCall, FindPush, RunCall, FreeCall, history
<1>2. \A u \in Thread \ {t} : pc'[u] = pc[u]
  <2>1. \E x : pc' = [pc EXCEPT ![t] = x]
    BY DEF Step, Turn, FindCall, FindPush, RunCall, FreeCall, Again
  <2> QED
    BY <2>1 DEF IInv, Types
<1>3. Single'
  <2>1. ASSUME Alone PROVE Alone'
    <3>1. t = Main
      BY <1>1, <2>1 DEF Alone
    <3> QED
      BY <1>2, <2>1, <3>1 DEF Alone
  <2> QED
    BY <1>1, <2>1 DEF CInv, Single
<1>4. CASE node' = node
  <2>1. raced' \in BOOLEAN
    BY <1>1 DEF IInv, Types
  <2> QED
    BY <1>1, <1>3, <1>4, <2>1, CountsSame
<1>5. CASE op.does = "free"
  BY <1>1, <1>3, <1>5 DEF CInv, Counts, Nowhere
<1> QED
  BY <1>1, <1>4, <1>5

LEMMA CountsStep == IInv /\ FInv /\ CInv /\ [Next]_vars => CInv'
<1>1. ASSUME IInv, CInv, UNCHANGED vars PROVE CInv'
  <2>1. UNCHANGED <<exists, bat, node, adds, raced, op, pc>>
    BY <1>1 DEF vars, call, history
  <2>2. Single' /\ raced' \in BOOLEAN
    BY <1>1, <2>1 DEF CInv, Single, Alone, IInv, Types
  <2> QED
    BY <1>1, <2>1, <2>2, CountsSame
<1>2. ASSUME IInv, CInv, RunEnd PROVE CInv'
  <2>1. UNCHANGED <<exists, bat, node, adds, raced>> /\ op.does # "free" /\ op'.does = "nothing"
    BY <1>2 DEF RunEnd, history, Return, Quiet
  <2>2. Single' /\ raced' \in BOOLEAN
    BY <1>2, <2>1 DEF Single, IInv, Types
  <2> QED
    BY <1>2, <2>1, <2>2, CountsSame
<1>3. ASSUME FreeEnd PROVE CInv'
  <2>1. exists' = FALSE /\ bat' = <<>> /\ \A p \in Pair : adds'[p] = 0
    BY <1>3 DEF FreeEnd
  <2>2. op'.does = "nothing"
    BY <1>3 DEF FreeEnd, Return, Quiet
  <2>3. \A p : HowOften(p)' = 0
    <3>1. Queued(bat') = {}
      BY <2>1 DEF Queued
    <3>2. \A p : Holding(p)' = {}
      BY <3>1 DEF Holding
    <3> QED
      BY <3>2, FS_EmptySet DEF HowOften
  <2> QED
    BY <2>1, <2>2, <2>3 DEF CInv, Counts, Nowhere, Single
<1>4. ASSUME IInv, FInv, CInv, Next PROVE CInv'
  BY <1>2, <1>3, <1>4, CountsClient, CountsThread, CountsDel DEF Next, End
<1> QED
  BY <1>1, <1>4

-----------------------------------------------------------------------------
(* How often a Run calls a node.  No two threads have the same one in hand *)
(* and none has one that is still to be given; a call counts a node once   *)
(* it is in nobody's hands.                                                *)

Apart ==
  \A t, u \in Thread : \A a \in Addr : Has(t, a) /\ Has(u, a) => t = u
Taken == \A t \in Thread : \A a \in Addr : Has(t, a) => a \notin todo
Waits(a) == a \in todo \/ \E t \in Thread : Has(t, a)
Called ==
  op.does = "run" =>
    \A a \in Addr : given[a] = IF a \in Queued(bat) /\ ~Waits(a) THEN 1 ELSE 0

GInv == Apart /\ Taken /\ Called

LEMMA CalledNothing ==
  ASSUME op.does # "run", \A t \in Thread : pc[t] \notin {"call", "push"}
  PROVE  GInv
BY DEF GInv, Apart, Taken, Called, Has

LEMMA CalledInit == Init => GInv
<1> SUFFICES ASSUME Init PROVE GInv
  OBVIOUS
<1>1. op.does # "run" /\ \A t \in Thread : pc[t] \notin {"call", "push"}
  BY DEF Init, Quiet
<1> QED
  BY <1>1, CalledNothing

LEMMA CalledForeach ==
  ASSUME IInv, NEW T \in SUBSET Thread, NEW o, Foreach(T, o)
  PROVE  GInv'
<1>1. bat' = bat /\ todo' = Queued(bat) /\ given' = NoCalls
      /\ \A t \in Thread : pc'[t] \notin {"call", "push"}
  BY DEF Foreach
<1>2. \A t \in Thread : \A a : ~Has(t, a)'
  BY <1>1 DEF Has
<1>3. \A a \in Addr : a \in Queued(bat') => Waits(a)'
  BY <1>1 DEF Waits
<1>4. Called'
  BY <1>1, <1>3 DEF Called, NoCalls
<1> QED
  BY <1>2, <1>4 DEF GInv, Apart, Taken

LEMMA CalledClient == ASSUME IInv, GInv, Client PROVE GInv'
<1>1. ASSUME Batch_Init \/ \E p \in Pair : Batch_Add(p) PROVE GInv'
  <2>1. op'.does # "run" /\ \A t \in Thread : pc'[t] = "idle"
    BY <1>1 DEF Batch_Init, Batch_Add, call, Idle, Quiet, IInv, Rest
  <2>2. \A t \in Thread : \A a : ~Has(t, a)'
    BY <2>1 DEF Has
  <2> QED
    BY <2>1, <2>2 DEF GInv, Apart, Taken, Called
<1>2. ASSUME NEW T \in SUBSET Thread, NEW f, NEW d,
             Batch_Del(T, f, d) \/ Batch_Run(T) \/ Batch_Free(T)
      PROVE  GInv'
  BY <1>2, CalledForeach DEF Batch_Del, Batch_Run, Batch_Free
<1> QED
  BY <1>1, <1>2 DEF Client

LEMMA CalledTurn == ASSUME IInv, GInv, NEW t \in Thread, Turn(t) PROVE GInv'
<1>1. pc[t] = "next" /\ UNCHANGED <<bat, op, given>>
  BY DEF Turn, history
<1>2. CASE todo = {} /\ pc' = [pc EXCEPT ![t] = "done"] /\ UNCHANGED <<todo, item>>
  <2>1. \A u \in Thread : pc'[u] = IF u = t THEN "done" ELSE pc[u]
    BY <1>2 DEF IInv, Types
  <2>2. \A u \in Thread : \A a : Has(u, a)' <=> Has(u, a)
    BY <1>1, <1>2, <2>1 DEF Has
  <2>3. \A a : Waits(a)' <=> Waits(a)
    BY <1>2, <2>2 DEF Waits
  <2>4. Called'
    BY <1>1, <2>3 DEF GInv, Called
  <2> QED
    BY <1>2, <2>2, <2>4 DEF GInv, Apart, Taken
<1>3. ASSUME NEW b \in todo, todo' = todo \ {b}, item' = [item EXCEPT ![t] = b],
             pc' = [pc EXCEPT ![t] = "call"]
      PROVE  GInv'
  <2>1. \A u \in Thread : /\ pc'[u] = IF u = t THEN "call" ELSE pc[u]
                         /\ item'[u] = IF u = t THEN b ELSE item[u]
    BY <1>3 DEF IInv, Types
  <2>2. \A u \in Thread : \A a : Has(u, a)' <=> IF u = t THEN a = b ELSE Has(u, a)
    BY <2>1 DEF Has
  <2>3. \A u \in Thread : ~Has(u, b)
    BY <1>3 DEF GInv, Taken, IInv, Types
  <2>4. \A a : Waits(a)' <=> Waits(a)
    <3>1. ~Has(t, b) /\ \A a : ~Has(t, a)
      BY <1>1 DEF Has
    <3> QED
      BY <1>3, <2>2, <3>1 DEF Waits
  <2>5. Called'
    BY <1>1, <2>4 DEF GInv, Called
  <2>6. Apart' /\ Taken'
    BY <1>3, <2>2, <2>3 DEF GInv, Apart, Taken
  <2> QED
    BY <2>5, <2>6 DEF GInv
<1> QED
  BY <1>2, <1>3 DEF Turn

(* A callback that is through lets go of its node, and of no other.        *)
LEMMA LetsGo ==
  ASSUME IInv, GInv, NEW t \in Thread, pc[t] \in {"call", "push"}, Again(t), todo' = todo
  PROVE  /\ Apart' /\ Taken' /\ item[t] \in Addr
         /\ \A a \in Addr : Waits(a)' <=> Waits(a) /\ a # item[t]
<1>1. item[t] \in Addr
  BY NoneListed
<1>2. pc'[t] = "next" /\ \A u \in Thread \ {t} : pc'[u] = pc[u] /\ item'[u] = item[u]
  BY AgainFacts DEF IInv
<1>3. \A u \in Thread : \A a : Has(u, a)' <=> u # t /\ Has(u, a)
  BY <1>2 DEF Has
<1>4. Has(t, item[t]) /\ \A a : Has(t, a) => a = item[t]
  BY DEF Has
<1>5. Apart' /\ Taken'
  BY <1>3 DEF GInv, Apart, Taken
<1>6. item[t] \notin todo /\ \A u \in Thread : Has(u, item[t]) => u = t
  BY <1>1, <1>4 DEF GInv, Apart, Taken
<1>7. \A a \in Addr : Waits(a)' <=> Waits(a) /\ a # item[t]
  BY <1>3, <1>4, <1>6 DEF Waits
<1> QED
  BY <1>1, <1>5, <1>7

LEMMA CalledCallback ==
  ASSUME IInv, GInv, NEW t \in Thread, FindCall(t) \/ FindPush(t) \/ RunCall(t) \/ FreeCall(t)
  PROVE  GInv'
<1>1. /\ pc[t] \in {"call", "push"} /\ op' = op /\ todo' = todo /\ bat' = bat
      /\ item[t] \in Queued(bat)
  BY NoneListed DEF FindCall, FindPush, RunCall, FreeCall
<1>2. CASE RunCall(t)
  <2>1. given' = [given EXCEPT ![item[t]] = @ + 1] /\ Again(t) /\ op.does = "run"
    BY <1>2 DEF RunCall
  <2>2. /\ Apart' /\ Taken' /\ item[t] \in Addr
        /\ \A a \in Addr : Waits(a)' <=> Waits(a) /\ a # item[t]
    BY <1>1, <2>1, LetsGo
  <2>3. Waits(item[t])
    BY <1>1 DEF Waits, Has
  <2>4. given[item[t]] = 0 /\ given'[item[t]] = 1
    BY <2>1, <2>2, <2>3 DEF GInv, Called, IInv, Types
  <2>5. \A a \in Addr : a # item[t] => given'[a] = given[a]
    BY <2>1 DEF IInv, Types
  <2>6. Called'
    <3>1. ASSUME NEW a \in Addr
          PROVE  given'[a] = IF a \in Queued(bat') /\ ~Waits(a)' THEN 1 ELSE 0
      <4>1. CASE a = item[t]
        BY <1>1, <2>2, <2>4, <4>1
      <4>2. CASE a # item[t]
        BY <1>1, <2>1, <2>2, <2>5, <4>2 DEF GInv, Called
      <4> QED
        BY <4>1, <4>2
    <3> QED
      BY <3>1 DEF Called
  <2> QED
    BY <2>2, <2>6 DEF GInv
<1>3. CASE Again(t) /\ op.does # "run"
  <2>1. Apart' /\ Taken'
    BY <1>1, <1>3, LetsGo
  <2> QED
    BY <1>1, <1>3, <2>1 DEF GInv, Called
<1>4. CASE FindCall(t) /\ ~Again(t)
  <2>1. pc' = [pc EXCEPT ![t] = "push"] /\ UNCHANGED item /\ pc[t] = "call" /\ op.does # "run"
    BY <1>4 DEF FindCall
  <2>2. \A u \in Thread : \A a : Has(u, a)' <=> Has(u, a)
    BY <2>1 DEF Has, IInv, Types
  <2> QED
    BY <1>1, <2>1, <2>2 DEF GInv, Apart, Taken, Called
<1>5. FindPush(t) => Again(t) /\ op.does # "run"
  BY DEF FindPush, IInv, Rest
<1>6. FreeCall(t) => Again(t) /\ op.does # "run"
  BY DEF FreeCall
<1>7. FindCall(t) => op.does # "run"
  BY DEF FindCall
<1> QED
  BY <1>2, <1>3, <1>4, <1>5, <1>6, <1>7

LEMMA CalledStep == IInv /\ GInv /\ [Next]_vars => GInv'
<1>1. ASSUME GInv, UNCHANGED vars PROVE GInv'
  <2>1. UNCHANGED <<bat, op, todo, pc, item, given>>
    BY <1>1 DEF vars, call, history
  <2>2. \A t, a : Has(t, a)' <=> Has(t, a)
    BY <2>1 DEF Has
  <2>3. \A a : Waits(a)' <=> Waits(a)
    BY <2>1, <2>2 DEF Waits
  <2> QED
    BY <1>1, <2>1, <2>2, <2>3 DEF GInv, Apart, Taken, Called
<1>2. ASSUME End PROVE GInv'
  <2>1. op'.does # "run" /\ \A t \in Thread : pc'[t] = "idle"
    BY <1>2 DEF End, DelEnd, RunEnd, FreeEnd, Return, Quiet
  <2>2. \A t \in Thread : \A a : ~Has(t, a)'
    BY <2>1 DEF Has
  <2> QED
    BY <2>1, <2>2 DEF GInv, Apart, Taken, Called
<1>3. ASSUME IInv, GInv, Next PROVE GInv'
  BY <1>2, <1>3, CalledClient, CalledTurn, CalledCallback DEF Next, Step
<1> QED
  BY <1>1, <1>3

-----------------------------------------------------------------------------
(* The theorems *)

(* Every variable keeps its type, and what is in a batch is allocated and  *)
(* in it once until Batch_Free: no call reads a freed node.                *)
THEOREM TypeCorrect == Spec => []TypeOK
<1>1. Spec => []IInv
  BY InitIInv, Invariance, PTL DEF Spec
<1> QED
  BY <1>1, TypesGiveTypeOK, PTL

(* Only Batch_Free frees nodes, those of the batch, and a node that left a *)
(* batch another way is never in one again.                                *)
THEOREM NeverReclaimedHolds == Spec => NeverReclaimed
<1>1. Spec => []IInv
  BY InitIInv, Invariance, PTL DEF Spec
<1>2. ASSUME IInv, [Next]_vars
      PROVE  [/\ alloc \ alloc' # {} => op.does = "free" /\ alloc \ alloc' \subseteq Queued(bat)
              /\ (alloc \ Queued(bat)) \cap Queued(bat') = {}]_vars
  <2>1. CASE \E p \in Pair : Batch_Add(p)
    <3>1. PICK p \in Pair, a \in Addr \ alloc :
            /\ alloc' = alloc \cup {a}
            /\ bat' = <<a>> \o bat \/ bat' = bat
      BY <2>1 DEF Batch_Add, Pushed, alloc
    <3>2. Queued(<<a>> \o bat) \subseteq {a} \cup Queued(bat)
      <4>1. <<a>> \in Seq(Addr) /\ bat \in Seq(Addr) /\ Queued(<<a>>) = {a}
        BY <1>2 DEF IInv, Types, Queued
      <4> QED
        BY <4>1, QueuedFacts
    <3> QED
      BY <3>1, <3>2
  <2>2. CASE DelEnd
    <3>1. alloc' = alloc /\ Queued(bat') \subseteq Queued(bat)
      BY <1>2, <2>2, WithoutSeq DEF DelEnd, alloc, IInv, Types
    <3> QED
      BY <3>1
  <2>3. CASE \E t \in Thread : FreeCall(t)
    <3>1. PICK t \in Thread : FreeCall(t)
      BY <2>3
    <3>2. item[t] \in Queued(bat)
      BY <1>2, <3>1, NoneListed DEF FreeCall
    <3>3. alloc' = alloc \ {item[t]} /\ bat' = bat /\ op.does = "free"
      BY <3>1 DEF FreeCall, alloc
    <3> QED
      BY <3>2, <3>3
  <2>4. CASE Batch_Init \/ FreeEnd
    BY <2>4 DEF Batch_Init, FreeEnd, alloc, Queued
  <2>5. CASE UNCHANGED <<bat, node>>
    BY <2>5 DEF alloc
  <2>6. \/ UNCHANGED <<bat, node>> \/ Batch_Init \/ FreeEnd \/ DelEnd
        \/ \E p \in Pair : Batch_Add(p)
        \/ \E t \in Thread : FreeCall(t)
    BY <1>2 DEF Next, Client, Step, End, Batch_Del, Batch_Run, Batch_Free, Foreach, Turn, FindCall,
       FindPush, RunCall, RunEnd, vars
  <2> QED
    BY <2>1, <2>2, <2>3, <2>4, <2>5, <2>6
<1>3. Spec => [][Next]_vars
  BY DEF Spec
<1> QED
  BY <1>1, <1>2, <1>3, PTL DEF NeverReclaimed

(* A delete finds only what matches, at least one match if there is one,   *)
(* and all matches with one thread.                                        *)
THEOREM DelExactHolds == Spec => []DelExact
<1>1. Spec => [](IInv /\ FInv)
  BY InitIInv, InitFInv, Invariance, Finds, PTL DEF Spec
<1>2. IInv /\ FInv => DelExact
  <2> SUFFICES ASSUME IInv, FInv, Joined, op.does = "find"
               PROVE  LET M == { bat[i] : i \in { j \in DOMAIN bat :
                                   /\ op.batcb \in {None, node[bat[j]].batcb}
                                   /\ op.sdata \in {None, node[bat[j]].sdata} } }
                      IN  /\ Queued(matches) \subseteq M
                          /\ M # {} => matches # <<>>
                          /\ (\A t \in Thread \ {Main} : pc[t] = "idle") => Queued(matches) = M
    BY DEF DelExact
  <2> DEFINE M == { bat[i] : i \in { j \in DOMAIN bat :
                      /\ op.batcb \in {None, node[bat[j]].batcb}
                      /\ op.sdata \in {None, node[bat[j]].sdata} } }
  <2>1. M = Matching
    BY DEF Matching, Queued, Batch_Del_Find_cb
  <2>2. todo = {} /\ \A t \in Thread : \A a : ~Has(t, a)
    <3>1. pc[Main] = "done"
      BY ThreadAssumption DEF Joined, FInv, Started
    <3> QED
      BY <3>1, ThreadAssumption DEF Joined, FInv, Through, Has
  <2>3. Queued(matches) \subseteq Matching /\ (Matching # {} => matches # <<>>)
    BY <2>2 DEF FInv, Found, OneFound
  <2>4. Alone => Queued(matches) = Matching
    BY <2>2, <2>3, ThreadAssumption DEF FInv, AllFound
  <2> HIDE DEF M
  <2>5. /\ Queued(matches) \subseteq M
        /\ M # {} => matches # <<>>
        /\ (\A t \in Thread \ {Main} : pc[t] = "idle") => Queued(matches) = M
    BY <2>1, <2>3, <2>4 DEF Alone
  <2> QED
    BY <2>5 DEF M
<1> QED
  BY <1>1, <1>2, PTL

(* A pair is in the batch as often as it was added since it was last       *)
(* deleted, or more often after a delete with several threads, whose lost  *)
(* pushes leave nodes in the batch (batch.c:5-13, 38-74); and a Run, with  *)
(* any number of threads, calls the routine of every entry exactly once    *)
(* (batch.c:77-83).                                                        *)
THEOREM AsOftenHolds == Spec => []AsOften
<1>1. Spec => [](IInv /\ FInv /\ CInv /\ GInv)
  BY InitIInv, InitFInv, CountsInit, CalledInit, Invariance, Finds, CountsStep, CalledStep,
     PTL DEF Spec
<1>2. IInv /\ FInv /\ GInv /\ Joined /\ op.does = "run" => given = EachOnce
  <2> SUFFICES ASSUME IInv, FInv, GInv, Joined, op.does = "run" PROVE given = EachOnce
    OBVIOUS
  <2>1. pc[Main] = "done"
    BY ThreadAssumption DEF Joined, FInv, Started
  <2>2. todo = {} /\ \A t \in Thread : \A a : ~Has(t, a)
    BY <2>1, ThreadAssumption DEF Joined, FInv, Through, Has
  <2>3. \A a : ~Waits(a)
    BY <2>2 DEF Waits
  <2>4. \A a \in Addr : given[a] = EachOnce[a]
    BY <2>3 DEF GInv, Called, EachOnce
  <2>5. given \in [Addr -> Nat] /\ EachOnce \in [Addr -> Nat]
    BY DEF EachOnce, IInv, Types
  <2> QED
    BY <2>4, <2>5
<1>3. IInv /\ FInv /\ CInv /\ GInv => AsOften
  <2> SUFFICES ASSUME IInv, FInv, CInv, GInv PROVE AsOften
    OBVIOUS
  <2>1. op.does # "free" => \A p \in Pair :
          /\ Cardinality(Listed(p)) >= adds[p]
          /\ exists /\ ~raced => Cardinality(Listed(p)) = adds[p]
    BY HoldingFacts DEF CInv, Counts
  <2> QED
    BY <1>2, <2>1 DEF AsOften
<1> QED
  BY <1>1, <1>3, PTL
=============================================================================
