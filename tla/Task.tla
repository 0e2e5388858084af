-------------------------------- MODULE Task --------------------------------
(***************************************************************************)
(* task.c: the tasks a client creates and frees, the edges between them,   *)
(* which every edge keeps twice (in depend of the dependent task and in    *)
(* blocks of the dependency), and the two flags.                           *)
(*                                                                         *)
(* A Task pointer is an address of Task.  free gives the address back to   *)
(* malloc, which may return it for a new task; a pointer that is still in  *)
(* a listing then points to the new one.  Using a pointer to memory that   *)
(* is free at that moment stops the model with a fault.                    *)
(***************************************************************************)
EXTENDS TaskGraph, ListingOps

CONSTANT MaxDeps,         \* bound: entries in a depend or blocks listing
         MaxEdges         \* bound: entries in all depend listings together
ASSUME TaskAssumption == IsFiniteSet(Task)
ASSUME BoundsAssumption == MaxDeps \in Nat /\ MaxEdges \in Nat

VARIABLES live,           \* the addresses of tasks that exist
          depend, blocks, enable, exec,   \* struct task_t, by address
          dirty,          \* addresses freed while the task had neighbours
          fault           \* a free address was dereferenced

vars == <<live, depend, blocks, enable, exec, dirty, fault>>

Init ==
  /\ live = {} /\ dirty = {} /\ fault = FALSE
  /\ depend = [t \in Task |-> <<>>] /\ blocks = [t \in Task |-> <<>>]
  /\ enable = [t \in Task |-> FALSE] /\ exec = [t \in Task |-> FALSE]

Task_Init(t) ==
  /\ ~fault /\ t \notin live
  /\ live' = live \cup {t}
  /\ depend' = [depend EXCEPT ![t] = <<>>]
  /\ blocks' = [blocks EXCEPT ![t] = <<>>]
  /\ enable' = [enable EXCEPT ![t] = TRUE]
  /\ exec' = [exec EXCEPT ![t] = FALSE]
  /\ UNCHANGED <<dirty, fault>>

(* A name that ends in _Slip is what a small mistake in the code would     *)
(* make of the next definition; the model does not use it.                 *)

(* What depend and blocks become when Task_Depend_Del(t, d) is called for  *)
(* every pair <<t, d>> of E.                                               *)
DelDepend_Slip(dep, E) ==     \* only the first entry is deleted
  [t \in Task |->
     IF \E i \in DOMAIN dep[t] : <<t, dep[t][i]>> \in E
     THEN LET i == CHOOSE k \in DOMAIN dep[t] :
                     <<t, dep[t][k]>> \in E /\ \A j \in 1..(k - 1) : <<t, dep[t][j]>> \notin E
          IN  SubSeq(dep[t], 1, i - 1) \o SubSeq(dep[t], i + 1, Len(dep[t]))
     ELSE dep[t]]
DelDepend(dep, E) ==
  [t \in Task |-> CHOOSE r \in Without(dep[t], { d \in Task : <<t, d>> \in E }) : TRUE]
DelBlocks_Slip(blk, E) == blk     \* lines 83-89 are missing
DelBlocks(blk, E) ==
  [d \in Task |-> CHOOSE r \in Without(blk[d], { t \in Task : <<t, d>> \in E }) : TRUE]

(* Task_Free as coded: for every dependency d it deletes t from the        *)
(* dependencies OF D, and for every task b that is left in blocks it       *)
(* deletes b from its own dependencies: the callbacks of the two loops are *)
(* exchanged.  The memory it looks at is the task's neighbours.  (What is  *)
(* left in the freed memory is not used: the model clears it.)             *)
FirstLoop(t)  == { <<d, t>> : d \in Queued(depend[t]) }
SecondLoop(t) == { <<t, b>> : b \in Queued(blocks[t]) \ Queued(depend[t]) }

Task_Free(t) ==
  /\ ~fault /\ t \in live
  /\ LET E == FirstLoop(t) \cup SecondLoop(t)
     IN  /\ depend' = [DelDepend(depend, E) EXCEPT ![t] = <<>>]
         /\ blocks' = [DelBlocks(blocks, E) EXCEPT ![t] = <<>>]
  /\ enable' = [enable EXCEPT ![t] = FALSE]
  /\ exec' = [exec EXCEPT ![t] = FALSE]
  /\ live' = live \ {t}
  /\ dirty' = IF depend[t] = <<>> /\ blocks[t] = <<>> THEN dirty ELSE dirty \cup {t}
  /\ fault' = ~(Queued(depend[t]) \cup Queued(blocks[t]) \subseteq live)

Edges == { p \in Task \X (1..MaxDeps) : p[2] \in DOMAIN depend[p[1]] }

Task_Depend_Add(target, d) ==
  /\ ~fault /\ {target, d} \subseteq live
  /\ target # d
  /\ Len(depend[target]) < MaxDeps /\ Len(blocks[d]) < MaxDeps
  /\ Cardinality(Edges) < MaxEdges
  /\ depend' = [depend EXCEPT ![target] = Append(@, d)]
  /\ blocks' = [blocks EXCEPT ![d] = Append(@, target)]
  /\ UNCHANGED <<live, enable, exec, dirty, fault>>

Task_Depend_Del(target, d) ==
  /\ ~fault /\ {target, d} \subseteq live
  /\ depend' = DelDepend(depend, {<<target, d>>})
  /\ blocks' = DelBlocks(blocks, {<<target, d>>})
  /\ UNCHANGED <<live, enable, exec, dirty, fault>>

Task_setEnabled(t, val) ==
  /\ ~fault /\ t \in live
  /\ enable' = [enable EXCEPT ![t] = val]
  /\ UNCHANGED <<live, depend, blocks, exec, dirty, fault>>

Task_Reset(t) ==
  /\ ~fault /\ t \in live
  /\ exec' = [exec EXCEPT ![t] = FALSE]
  /\ UNCHANGED <<live, depend, blocks, enable, dirty, fault>>

Task_ResetTree_Slip(t) ==     \* only the direct dependencies
  /\ ~fault /\ t \in live
  /\ exec' = [u \in Task |-> exec[u] /\ u \notin {t} \cup Queued(depend[t])]
  /\ fault' = ~(Popped(depend, t) \subseteq live)
  /\ UNCHANGED <<live, depend, blocks, enable, dirty>>

Task_ResetTree(t) ==
  /\ ~fault /\ t \in live
  /\ exec' = [u \in Task |-> exec[u] /\ u \notin Popped(depend, t)]
  /\ fault' = ~(Popped(depend, t) \subseteq live)
  /\ UNCHANGED <<live, depend, blocks, enable, dirty>>

(* Task_Do reads the dependencies up to the first that is not executed.    *)
ReadsFree(t) ==
  /\ enable[t] /\ ~exec[t]
  /\ \E i \in DOMAIN depend[t] :
       depend[t][i] \notin live /\ \A j \in 1..(i - 1) : exec[depend[t][j]]

Task_Do(t) ==
  /\ ~fault /\ t \in live
  /\ exec' = [exec EXCEPT ![t] = @ \/ Task_Ready(depend, enable, exec, t)]
  /\ fault' = ReadsFree(t)
  /\ UNCHANGED <<live, depend, blocks, enable, dirty>>

Next ==
  \E t \in Task :
    \/ Task_Init(t) \/ Task_Free(t)
    \/ \E d \in Task : Task_Depend_Add(t, d) \/ Task_Depend_Del(t, d)
    \/ \E val \in BOOLEAN : Task_setEnabled(t, val)
    \/ Task_Reset(t) \/ Task_ResetTree(t) \/ Task_Do(t)

Spec == Init /\ [][Next]_vars

-----------------------------------------------------------------------------
(* Properties *)

(* Every field keeps its type.                                             *)
TypeOK ==
  /\ live \subseteq Task /\ dirty \subseteq Task /\ fault \in BOOLEAN
  /\ depend \in [Task -> Seq(Task)] /\ blocks \in [Task -> Seq(Task)]
  /\ enable \in [Task -> BOOLEAN] /\ exec \in [Task -> BOOLEAN]

(* The two copies of every edge agree (task.c:66-90): as many entries for  *)
(* d in depend of t as for t in blocks of d, whatever was added twice,     *)
(* deleted, freed and allocated again, between addresses that were never   *)
(* freed with an edge still on them.                                       *)
Occurrences(q, x) == Cardinality({ i \in DOMAIN q : q[i] = x })
Mirror ==
  \A t, d \in live \ dirty : Occurrences(depend[t], d) = Occurrences(blocks[d], t)

(* A client that detaches every task from its neighbours before it frees   *)
(* it never meets free memory, and no listing keeps a pointer to it        *)
(* (task.c:55-63).                                                         *)
SafeIfDetached ==
  dirty = {} =>
    ~fault /\ \A t \in live : Queued(depend[t]) \cup Queued(blocks[t]) \subseteq live

(* The depth-first walks (task.c:93-161) answer what task.h:33-35 says,    *)
(* over the whole tree of a task: shared dependencies, dependencies added  *)
(* twice and circles included.                                             *)
QueriesAgree ==
  \A t \in live : LET tree == Reach(depend, t)
                  IN  tree \subseteq live =>
    /\ Popped(depend, t) = tree
    /\ Task_isEnabled(depend, enable, t) = (\A u \in tree : enable[u])
    /\ Task_hasCircDeps(depend, t) = (\E u \in tree : OnCycle(depend, u))

(* What one call clears is either one task or all that was executed in the *)
(* tree of some task (task.c:183-205), and nothing else.                   *)
ResetsWholeTree ==
  [][live' = live =>
       LET cleared == { t \in Task : exec[t] /\ ~exec'[t] }
       IN  \/ Cardinality(cleared) <= 1
           \/ \E t \in live : cleared = { u \in Reach(depend, t) : exec[u] }]_vars

(* What Task_Free is for (task.c:47-58: it takes itself out of its         *)
(* neighbours' listings): a task that exists has no pointer to one that    *)
(* does not.                                                               *)
NoStale == \A t \in live : Queued(depend[t]) \cup Queued(blocks[t]) \subseteq live
=============================================================================
