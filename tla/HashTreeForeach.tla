--------------------------- MODULE HashTreeForeach ---------------------------
(***************************************************************************)
(* hashtree_foreach.c on the trees of HashTree: the threads of one call    *)
(* take turns at moving a common stack through the tree, under a mutex,    *)
(* and call the callback with the node on its top, outside the mutex.  The *)
(* client makes no other call meanwhile, and the callback does not change  *)
(* the tree.                                                               *)
(*                                                                         *)
(* The stack is dereferenced before it is tested (line 94), so the call    *)
(* has no end: lines 108-114 and 166-171 are never reached.                *)
(*                                                                         *)
(* Left out: the copy of the key, whose malloc can fail and end a thread   *)
(* (lines 118-127, 143-148), and with it the hash the callback gets, which *)
(* line 124 fills with a byte of the stack's pointer; and pthread_create   *)
(* failing (line 162).  The threads start in one step.                     *)
(***************************************************************************)
EXTENDS HashTree

CONSTANT Thread           \* the threads of a call, the client's included

VARIABLES stack,          \* htStack, its top first: nodes and last_subnode
          started,
          pc,             \* by thread: outside "idle", before Queue_Next, in the callback
          item            \* the node whose data the callback got

foreach == <<stack, started, pc, item>>
allVars == <<vars, foreach>>

Frame(p) == [node |-> p, last |-> 0]
Idle == \A th \in Thread : pc[th] = "idle"

ForeachInit ==
  /\ Init
  /\ stack = <<>> /\ started = FALSE
  /\ pc = [th \in Thread |-> "idle"] /\ item = [th \in Thread |-> Root]

HashTree_Foreach ==
  /\ Runs /\ Idle
  /\ stack' = <<Frame(Root)>> /\ started' = FALSE
  /\ pc' = [th \in Thread |-> "next"]
  /\ UNCHANGED <<vars, item>>

(* The stacks there can be: a frame never counts past its node's subnodes. *)
Frames == { f \in [node : DOMAIN tree, last : Nat] :
              f.last = 0 \/ f.last < Len(tree[f.node].subnode) }
Stacks == Seq(Frames) \ {<<>>}

(* From the top of stack s down to a node without subnodes. *)
Down(s) ==
  LET down[r \in Stacks] ==
        LET top  == Head(r)
            node == tree[top.node]
        IN  IF node.hollow THEN [stack |-> r, fault |-> "NULL subnode"]
            ELSE IF node.subnode = <<>> THEN [stack |-> r, fault |-> "none"]
            ELSE down[<<Frame(Append(top.node, node.subnode[top.last + 1]))>> \o r]
  IN  down[s]

(* One turn of the loop of Queue_Next. *)
Turn(s, first) ==
  LET r == Tail(s)
  IN  IF first THEN Down(s)
      ELSE IF r = <<>> THEN [stack |-> r, fault |-> "NULL stack"]
      ELSE IF Head(r).last < Len(tree[Head(r).node].subnode) - 1
      THEN Down([r EXCEPT ![1].last = @ + 1])
      ELSE [stack |-> r, fault |-> "none"]

(* The loop goes on while the node on top HAS data. *)
Skips_Slip(d) == d = NULL
Skips(d) == d # NULL

Advance(s, first) ==
  LET go[a \in Stacks \X BOOLEAN] ==
        LET t == Turn(a[1], a[2])
        IN  IF t.fault = "none" /\ Skips(tree[Head(t.stack).node].data)
            THEN go[<<t.stack, FALSE>>] ELSE t
  IN  go[<<s, first>>]

Queue_Next_Slip(th) ==     \* the stack is not moved for the next thread
  /\ fault = "none" /\ pc[th] = "next"
  /\ LET r == Advance(stack, ~started)
     IN  /\ r.fault = "none"
         /\ item' = [item EXCEPT ![th] = Head(r.stack).node]
  /\ pc' = [pc EXCEPT ![th] = "call"]
  /\ UNCHANGED <<tree, fault, stack, started>>

Queue_Next(th) ==
  /\ fault = "none" /\ pc[th] = "next"
  /\ LET r == Advance(stack, ~started)
     IN  \/ /\ r.fault = "none"
            /\ stack' = r.stack /\ started' = TRUE
            /\ item' = [item EXCEPT ![th] = Head(r.stack).node]
            /\ pc' = [pc EXCEPT ![th] = "call"]
            /\ UNCHANGED fault
         \/ /\ r.fault # "none"
            /\ fault' = r.fault
            /\ UNCHANGED foreach
  /\ UNCHANGED tree

Callback(th) ==
  /\ fault = "none" /\ pc[th] = "call"
  /\ pc' = [pc EXCEPT ![th] = "next"]
  /\ UNCHANGED <<vars, stack, started, item>>

ForeachNext ==
  \/ Idle /\ Next /\ UNCHANGED foreach
  \/ HashTree_Foreach
  \/ \E th \in Thread : Queue_Next(th) \/ Callback(th)

ForeachSpec == ForeachInit /\ [][ForeachNext]_allVars

-----------------------------------------------------------------------------
(* Properties *)

(* No node is given twice: the nodes in the hands of two threads differ,   *)
(* and none of them is met again further down the stack                    *)
(* (hashtree_foreach.c:87-132: the stack moves under the mutex).           *)
InHand == { th \in Thread : pc[th] = "call" }
GivenOnce ==
  /\ \A t, u \in InHand : t # u => item[t] # item[u]
  /\ \A t \in InHand : \A i \in 2..Len(stack) : stack[i].node # item[t]

(* The callback is called for the nodes on the branch that have no data,   *)
(* and for no entry (hashtree_foreach.c:115).                              *)
NoEntryGiven == \A th \in InHand : Entry(item[th]) = NULL

(* What hashtree_foreach.c:107 says: the stack is validated, and the walk  *)
(* ends when it is invalid.                                                *)
StackValidated == fault # "NULL stack"
=============================================================================
