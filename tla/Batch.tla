-------------------------------- MODULE Batch --------------------------------
(***************************************************************************)
(* batch.c over a listing as listing.h describes it: a sequence, and       *)
(* Listing_Foreach with n threads gives every entry to one of them.  What  *)
(* the promise leaves open is modelled: nothing in listing.h makes two     *)
(* pushes to one listing wait for each other, so the pushes of the threads *)
(* of a Listing_Find are a read and a write, and one can undo another.     *)
(*                                                                         *)
(* One thread of the client's calls these functions, and the routines of a *)
(* batch leave the batch alone.                                            *)
(***************************************************************************)
EXTENDS ListingOps

CONSTANTS Addr,           \* addresses of Batch_Nodes
          Func, Datum,    \* batcb and sdata
          Thread, Main,   \* the threads of a Listing_Foreach, the client's among them
          None,           \* no pattern, no node
          MaxListed       \* bound: entries of the batch

ASSUME ThreadAssumption == Main \in Thread
ASSUME NoneAssumption == None \notin Addr \cup Func \cup Datum

VARIABLES exists,         \* between Batch_Init and Batch_Free
          bat,            \* the listing: Batch_Nodes, the front first
          node,           \* the Batch_Nodes that are allocated: batcb and sdata by address
          op,             \* the call under way: its name and the pattern it looks for
          todo,           \* the entries its Listing_Foreach has not given yet
          pc, item,       \* by thread; "next", "call", "push", "done", or "idle" when it has none
          read,           \* by thread: matches as its push found it
          matches,        \* the result of the Listing_Find
          given,          \* history: how often the last Batch_Run has called each node
          adds,           \* history: how often a pair was added since it was last deleted
          raced           \* history: a delete has used several threads

call == <<op, todo, pc, item, read, matches>>
history == <<given, adds, raced>>
vars == <<exists, bat, node, call, history>>

alloc == DOMAIN node

Pair == [batcb : Func, sdata : Datum]
Quiet == [does |-> "nothing", batcb |-> None, sdata |-> None]
Idle == op = Quiet
NoCalls == [a \in Addr |-> 0]

Init ==
  /\ exists = FALSE /\ bat = <<>> /\ node = <<>>
  /\ op = Quiet /\ todo = {} /\ matches = <<>>
  /\ pc = [t \in Thread |-> "idle"] /\ item = [t \in Thread |-> None]
  /\ read = [t \in Thread |-> <<>>]
  /\ given = NoCalls /\ adds = [p \in Pair |-> 0] /\ raced = FALSE

Batch_Init ==
  /\ Idle /\ ~exists
  /\ exists' = TRUE /\ bat' = <<>>
  /\ UNCHANGED <<node, call, history>>

(* In the front, whatever is in the batch already.  fmalloc ends the       *)
(* program when there is no memory; Listing_PushFront returns, and the     *)
(* node is in no listing.                                                  *)
Pushed(q, a, p) == <<a>> \o q

Batch_Add(p) ==
  /\ Idle /\ exists /\ Len(bat) < MaxListed
  /\ \E a \in Addr \ alloc :
       /\ node' = [b \in alloc \cup {a} |-> IF b = a THEN p ELSE node[b]]
       /\ \/ bat' = Pushed(bat, a, p) /\ adds' = [adds EXCEPT ![p] = @ + 1]
          \/ UNCHANGED <<bat, adds>>
  /\ UNCHANGED <<exists, call, given, raced>>

(* Listing_Foreach on the batch with the threads of T. *)
Foreach(T, o) ==
  /\ Idle /\ exists
  /\ op' = o /\ todo' = Queued(bat) /\ matches' = <<>> /\ given' = NoCalls
  /\ pc' = [t \in Thread |-> IF t \in T THEN "next" ELSE "idle"]
  /\ UNCHANGED <<exists, bat, node, item, read>>

(* The three deletes: a pattern leaves out what it does not look for.      *)
(* get_nprocs() may be anything, and need not be the same twice.           *)
Batch_Del(T, f, d) ==
  /\ f # None \/ d # None
  /\ Foreach(T, [does |-> "find", batcb |-> f, sdata |-> d])
  /\ raced' = (raced \/ T # {Main})
  /\ UNCHANGED adds

Batch_Run(T) ==
  /\ Foreach(T, [Quiet EXCEPT !.does = "run"])
  /\ UNCHANGED <<adds, raced>>

Batch_Free(T) ==
  /\ Foreach(T, [Quiet EXCEPT !.does = "free"])
  /\ UNCHANGED <<adds, raced>>

Batch_Del_Find_cb_Slip(o, n) ==     \* || for && at line 28
  n.batcb = o.batcb \/ n.sdata = o.sdata
Batch_Del_Find_cb(o, n) ==
  /\ o.batcb = None \/ n.batcb = o.batcb
  /\ o.sdata = None \/ n.sdata = o.sdata

-----------------------------------------------------------------------------
(* The threads of a call. *)

Again(t) ==
  pc' = [pc EXCEPT ![t] = "next"] /\ item' = [item EXCEPT ![t] = None]

Turn_Slip(t) ==     \* without the mutex of listing_foreach.c: an entry in another's hands
  /\ pc[t] = "next"
  /\ \/ \E a \in todo \cup ({ item[u] : u \in Thread } \ {None}) :
          /\ todo' = todo \ {a}
          /\ item' = [item EXCEPT ![t] = a]
          /\ pc' = [pc EXCEPT ![t] = "call"]
     \/ /\ todo = {}
        /\ pc' = [pc EXCEPT ![t] = "done"]
        /\ UNCHANGED <<todo, item>>
  /\ UNCHANGED <<exists, bat, node, op, read, matches, history>>

Turn(t) ==
  /\ pc[t] = "next"
  /\ \/ \E a \in todo :
          /\ todo' = todo \ {a}
          /\ item' = [item EXCEPT ![t] = a]
          /\ pc' = [pc EXCEPT ![t] = "call"]
     \/ /\ todo = {}
        /\ pc' = [pc EXCEPT ![t] = "done"]
        /\ UNCHANGED <<todo, item>>
  /\ UNCHANGED <<exists, bat, node, op, read, matches, history>>

FindCall(t) ==
  /\ pc[t] = "call" /\ op.does = "find"
  /\ IF Batch_Del_Find_cb(op, node[item[t]])
     THEN /\ pc' = [pc EXCEPT ![t] = "push"]
          /\ read' = [read EXCEPT ![t] = matches] /\ UNCHANGED item
     ELSE Again(t) /\ UNCHANGED read
  /\ UNCHANGED <<exists, bat, node, op, todo, matches, history>>

FindPush_Slip(t) ==     \* frees the node there: a push that is lost leaves it in the batch
  /\ pc[t] = "push"
  /\ matches' = Append(read[t], item[t])
  /\ node' = [a \in alloc \ {item[t]} |-> node[a]]
  /\ read' = [read EXCEPT ![t] = <<>>]
  /\ Again(t)
  /\ UNCHANGED <<exists, bat, op, todo, history>>

FindPush(t) ==
  /\ pc[t] = "push"
  /\ matches' = Append(read[t], item[t])
  /\ read' = [read EXCEPT ![t] = <<>>]
  /\ Again(t)
  /\ UNCHANGED <<exists, bat, node, op, todo, history>>

(* batcb( sdata, cdata ) *)
RunCall(t) ==
  /\ pc[t] = "call" /\ op.does = "run"
  /\ given' = [given EXCEPT ![item[t]] = @ + 1]
  /\ Again(t)
  /\ UNCHANGED <<exists, bat, node, op, todo, read, matches, adds, raced>>

FreeCall(t) ==
  /\ pc[t] = "call" /\ op.does = "free"
  /\ node' = [a \in alloc \ {item[t]} |-> node[a]]
  /\ Again(t)
  /\ UNCHANGED <<exists, bat, op, todo, read, matches, history>>

Joined_Slip ==     \* line 82 of listing_foreach.c is missing
  ~Idle /\ pc[Main] = "done"
Joined == ~Idle /\ \A t \in Thread : pc[t] \in {"idle", "done"}

Return ==
  /\ op' = Quiet /\ todo' = {} /\ matches' = <<>>
  /\ pc' = [t \in Thread |-> "idle"] /\ item' = [t \in Thread |-> None]
  /\ read' = [t \in Thread |-> <<>>]

(* Every entry of matches is taken out of the batch, by its index.  The    *)
(* node itself stays allocated.                                            *)
DelEnd_Slip ==     \* with a free( item ) after line 35
  /\ Joined /\ op.does = "find"
  /\ bat' \in Without(bat, Queued(matches))
  /\ node' = [a \in alloc \ Queued(matches) |-> node[a]]
  /\ adds' = [p \in Pair |-> IF Batch_Del_Find_cb(op, p) THEN 0 ELSE adds[p]]
  /\ Return
  /\ UNCHANGED <<exists, given, raced>>

DelEnd ==
  /\ Joined /\ op.does = "find"
  /\ bat' \in Without(bat, Queued(matches))
  /\ adds' = [p \in Pair |-> IF Batch_Del_Find_cb(op, p) THEN 0 ELSE adds[p]]
  /\ Return
  /\ UNCHANGED <<exists, node, given, raced>>

RunEnd ==
  /\ Joined /\ op.does = "run"
  /\ Return
  /\ UNCHANGED <<exists, bat, node, history>>

FreeEnd ==
  /\ Joined /\ op.does = "free"
  /\ exists' = FALSE /\ bat' = <<>>
  /\ adds' = [p \in Pair |-> 0] /\ raced' = FALSE
  /\ Return
  /\ UNCHANGED <<node, given>>

Client ==
  \/ Batch_Init
  \/ \E p \in Pair : Batch_Add(p)
  \/ \E T \in { S \in SUBSET Thread : Main \in S } :
       \/ \E f \in Func \cup {None}, d \in Datum \cup {None} : Batch_Del(T, f, d)
       \/ Batch_Run(T) \/ Batch_Free(T)

Step(t) == Turn(t) \/ FindCall(t) \/ FindPush(t) \/ RunCall(t) \/ FreeCall(t)
End == DelEnd \/ RunEnd \/ FreeEnd

Next == Client \/ (\E t \in Thread : Step(t)) \/ End

Spec == Init /\ [][Next]_vars

(* A thread that can run does, and a call that can return does.            *)
FairSpec == Spec /\ (\A t \in Thread : WF_vars(Step(t))) /\ WF_vars(End)

-----------------------------------------------------------------------------
(* Properties *)

Listed(p) == { i \in DOMAIN bat : bat[i] \in alloc /\ node[bat[i]] = p }

(* Every variable keeps its type, and what is in the batch is allocated    *)
(* and in it once, until Batch_Free: no call reads a node that a delete    *)
(* has given back (batch.c:31-36).                                         *)
TypeOK ==
  /\ exists \in BOOLEAN /\ raced \in BOOLEAN
  /\ bat \in Seq(Addr) /\ alloc \subseteq Addr /\ node \in [alloc -> Pair]
  /\ todo \subseteq Addr /\ given \in [Addr -> Nat] /\ matches \in Seq(Addr)
  /\ read \in [Thread -> Seq(Addr)] /\ item \in [Thread -> Addr \cup {None}]
  /\ adds \in [Pair -> Nat]
  /\ \A i, j \in DOMAIN bat : bat[i] = bat[j] => i = j
  /\ op.does # "free" => Queued(bat) \subseteq alloc

(* What a delete finds matches its pattern; it finds one if there is one,  *)
(* and all with one thread.  Several threads may push at the same time and *)
(* lose each other's, but the last push is there (batch.c:38-48, 54-61,    *)
(* 67-74): batch.h:25 says "all".                                          *)
DelExact ==
  Joined /\ op.does = "find" =>
    LET M == { bat[i] : i \in { j \in DOMAIN bat :
                 /\ op.batcb \in {None, node[bat[j]].batcb}
                 /\ op.sdata \in {None, node[bat[j]].sdata} } }
    IN  /\ Queued(matches) \subseteq M
        /\ M # {} => matches # <<>>
        /\ (\A t \in Thread \ {Main} : pc[t] = "idle") => Queued(matches) = M

(* A pair of a routine and its data is in the batch as often as it was     *)
(* added since it was last deleted: batch.h:22 calls nodes unique by both, *)
(* which no line of batch.c looks at.  After a delete with several threads *)
(* there may be older ones, too.  A Run (batch.c:77-83) has, when its last *)
(* thread is through, called the routine of every entry once, so every     *)
(* pair as often as it is there, and nothing else.                         *)
EachOnce == [a \in Addr |-> IF a \in Queued(bat) THEN 1 ELSE 0]
AsOften ==
  /\ op.does # "free" => \A p \in Pair :
       /\ Cardinality(Listed(p)) >= adds[p]
       /\ exists /\ ~raced => Cardinality(Listed(p)) = adds[p]
  /\ Joined /\ op.does = "run" => given = EachOnce

(* Only Batch_Free frees nodes, and only those that are in the batch then. *)
(* One that was deleted, or that Add could not put into the listing, is    *)
(* never in a batch again: its memory is lost (batch.c:5-13, 31-36).       *)
NeverReclaimed ==
  [][/\ alloc \ alloc' # {} => op.does = "free" /\ alloc \ alloc' \subseteq Queued(bat)
     /\ (alloc \ Queued(bat)) \cap Queued(bat') = {}]_vars

(* Batch_Run comes back, and has then called the routine of every node     *)
(* once (batch.c:77-83), with any number of threads.                       *)
RunComplete == (op.does = "run") ~> (Idle /\ given = EachOnce)
=============================================================================
