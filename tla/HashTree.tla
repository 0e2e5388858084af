------------------------------ MODULE HashTree ------------------------------
(***************************************************************************)
(* hashtree.c: a tree whose edges are the bytes of a key.  A node is named *)
(* by the bytes on the way to it from the root, which is <<>>.             *)
(*                                                                         *)
(* malloc may fail.  Dereferencing NULL, and a search that does not end,   *)
(* stop the model with a fault.  The search does not end when none of the  *)
(* subnodes has the byte it looks for, so that lines 65-76 and 115-116 of  *)
(* the source are never reached.                                           *)
(***************************************************************************)
EXTENDS Integers, Sequences, FiniteSets

CONSTANTS Byte,           \* the bytes that occur in keys
          Hashes,         \* the keys the client uses
          Data,           \* what it stores
          NULL

ASSUME ByteAssumption == Byte \subseteq 0..255
ASSUME HashesAssumption == Hashes \subseteq Seq(Byte)
ASSUME NullAssumption == NULL \notin Data

VARIABLES tree,           \* struct HashTree_Node, by node; empty when there is no tree
          fault           \* what stopped the program, or "none"

vars == <<tree, fault>>

(* The subnodes of a node are given by their bid.  A hollow node has an    *)
(* array with one subnode, and that subnode is NULL.                       *)
Leaf == [subnode |-> <<>>, hollow |-> FALSE, data |-> NULL]
Root == <<>>
Runs == fault = "none" /\ Root \in DOMAIN tree

Init == tree = [p \in {} |-> Leaf] /\ fault = "none"

HashTree_Init ==
  /\ fault = "none" /\ Root \notin DOMAIN tree
  /\ tree' = [p \in {Root} |-> Leaf]
  /\ UNCHANGED fault

-----------------------------------------------------------------------------
(* The names that end in _Slip are what a small mistake in the code would  *)
(* make of the next definition; the model does not use them.               *)

(* The search for bid b: its index, or 0 when the loop goes round for      *)
(* ever, which it does when a turn changes neither start nor end.          *)
Search_Slip(bids, b) == Len(bids)     \* the loop ends whatever it has found
Search(bids, b) ==
  LET loop[w \in (0..255) \X (0..255)] ==
        LET mid  == (w[1] + w[2]) \div 2
            bid  == bids[mid + 1]
            next == IF bid > b THEN <<w[1], mid>> ELSE IF bid < b THEN <<mid, w[2]>> ELSE w
        IN  IF next[1] = next[2] /\ bid = b THEN mid + 1
            ELSE IF next = w THEN 0 ELSE loop[next]
  IN  loop[<<0, Len(bids) - 1>>]

(* What the code meets when it looks in node p for byte b. *)
Look_Slip(p, b) ==     \* a search that finds nothing finds room
  IF tree[p].hollow THEN "NULL subnode"
  ELSE IF tree[p].subnode = <<>> \/ Search(tree[p].subnode, b) = 0 THEN "no subnode"
  ELSE "subnode"
Look(p, b) ==
  IF tree[p].hollow THEN "NULL subnode"
  ELSE IF tree[p].subnode = <<>> THEN "no subnode"
  ELSE IF Search(tree[p].subnode, b) = 0 THEN "endless search"
  ELSE "subnode"

(* Where the code gets to when it follows h from the root, a byte a turn:  *)
(* the node, how many bytes of h are used up, and what it meets there      *)
(* ("end": nothing, the key is used up).                                   *)
Follow(h) ==
  LET At(p, k) == [node |-> p, used |-> k,
                   meets |-> IF k = Len(h) THEN "end" ELSE Look(p, h[k + 1])]
      after[k \in 0..Len(h)] ==
        IF k = 0 THEN At(Root, 0)
        ELSE LET at   == after[k - 1]
                 bids == tree[at.node].subnode
             IN  IF at.meets # "subnode" THEN at
                 ELSE At(Append(at.node, bids[Search(bids, h[k])]), k)
  IN  after[Len(h)]

(* HashTree_Retrive only follows the key.  An empty array is a NULL        *)
(* pointer, and the search dereferences it.                                *)
HashTree_Retrive(h) ==
  /\ Runs
  /\ fault' = IF Follow(h).meets = "end" THEN "none" ELSE Follow(h).meets
  /\ UNCHANGED tree

(* The tree when n nodes have been created below node p for the bytes g,   *)
(* and the last of them, or p when n = 0, has become e.                    *)
Grown_Slip(p, g, n, e) ==     \* line 90: the new nodes get the data, too
  LET New(j) == p \o SubSeq(g, 1, j)
  IN  [q \in DOMAIN tree \cup { New(j) : j \in 1..n } |->
         IF q = New(n) THEN e
         ELSE IF \E j \in 0..(n - 1) : q = New(j)
         THEN [IF q = p THEN tree[p] ELSE e
                 EXCEPT !.subnode = <<g[Len(q) - Len(p) + 1]>>]
         ELSE tree[q]]
Grown(p, g, n, e) ==
  LET New(j) == p \o SubSeq(g, 1, j)
  IN  [q \in DOMAIN tree \cup { New(j) : j \in 1..n } |->
         IF q = New(n) THEN e
         ELSE IF \E j \in 0..(n - 1) : q = New(j)
         THEN [IF q = p THEN tree[p] ELSE Leaf
                 EXCEPT !.subnode = <<g[Len(q) - Len(p) + 1]>>]
         ELSE tree[q]]

(* Assign follows h and creates the nodes that are missing: for each an    *)
(* array of one subnode, and then the subnode.  When malloc fails it stops *)
(* where it is, with the array or without it.                              *)
HashTree_Assign(h, d) ==
  /\ Runs
  /\ LET at   == Follow(h)
         rest == SubSeq(h, at.used + 1, Len(h))
     IN  \/ /\ at.meets = "end"
            /\ tree' = [tree EXCEPT ![at.node].data = d]
            /\ UNCHANGED fault
         \/ /\ at.meets = "no subnode"
            /\ tree' = Grown(at.node, rest, Len(rest), [Leaf EXCEPT !.data = d])
            /\ UNCHANGED fault
         \/ /\ at.meets = "no subnode"
            /\ \E n \in 0..(Len(rest) - 1), array \in BOOLEAN :
                 LET last == IF n = 0 THEN tree[at.node] ELSE Leaf
                 IN  tree' = Grown(at.node, rest, n, [last EXCEPT !.hollow = array])
            /\ UNCHANGED fault
         \/ /\ at.meets \in {"NULL subnode", "endless search"}
            /\ fault' = at.meets
            /\ UNCHANGED tree

(* Release of a longer key than the empty one does not recurse: it calls   *)
(* HashTree_Retrive for the rest of the key, and then frees those subnodes *)
(* of the root that have neither data nor subnodes.                        *)
Unused_Slip(p) == tree[p].data = NULL \/ (tree[p].subnode = <<>> /\ ~tree[p].hollow)
Unused(p) == tree[p].data = NULL /\ tree[p].subnode = <<>> /\ ~tree[p].hollow

(* The subnodes of the root that are in use, moved to the front.           *)
InUse ==
  LET bids == tree[Root].subnode
      kept[i \in 0..Len(bids)] ==
        IF i = 0 THEN <<>>
        ELSE IF Unused(<<bids[i]>>) THEN kept[i - 1] ELSE Append(kept[i - 1], bids[i])
  IN  kept[Len(bids)]

Pruned_Slip ==     \* line 175 is missing: the freed subnodes are still counted
  [q \in { p \in DOMAIN tree : ~(Len(p) = 1 /\ Unused(p)) } |-> tree[q]]
Pruned ==
  [q \in { p \in DOMAIN tree : ~(Len(p) = 1 /\ Unused(p)) } |->
     IF q = Root THEN [tree[q] EXCEPT !.subnode = InUse] ELSE tree[q]]

HashTree_Release(h) ==
  /\ Runs
  /\ \/ /\ h = <<>>
        /\ tree' = [tree EXCEPT ![Root].data = NULL]
        /\ UNCHANGED fault
     \/ /\ h # <<>> /\ Follow(h).meets = "end"
        /\ tree' = Pruned
        /\ UNCHANGED fault
     \/ /\ h # <<>> /\ Follow(h).meets # "end"
        /\ fault' = Follow(h).meets
        /\ UNCHANGED tree

(* Free visits every subnode, the one that is NULL as well.                *)
HashTree_Free ==
  /\ Runs
  /\ \/ /\ \A p \in DOMAIN tree : ~tree[p].hollow
        /\ tree' = [p \in {} |-> Leaf]
        /\ UNCHANGED fault
     \/ /\ \E p \in DOMAIN tree : tree[p].hollow
        /\ fault' = "NULL subnode"
        /\ UNCHANGED tree

Next ==
  \/ HashTree_Init \/ HashTree_Free
  \/ \E h \in Hashes : \/ HashTree_Retrive(h) \/ HashTree_Release(h)
                       \/ \E d \in Data : HashTree_Assign(h, d)

Spec == Init /\ [][Next]_vars

-----------------------------------------------------------------------------
(* Properties *)

(* Every node but the root is, once, the subnode of its parent, and every  *)
(* subnode is a node (hashtree.c:41-91, 151-175): no assignment, no        *)
(* failing malloc and no pruning leaks a node or leaves a pointer to one   *)
(* that is freed.                                                          *)
Parent(p) == SubSeq(p, 1, Len(p) - 1)
TreeShape ==
  /\ \A p \in DOMAIN tree : \A i \in DOMAIN tree[p].subnode :
       Append(p, tree[p].subnode[i]) \in DOMAIN tree
  /\ \A p \in DOMAIN tree \ {Root} :
       /\ Parent(p) \in DOMAIN tree /\ ~tree[Parent(p)].hollow
       /\ Cardinality({ i \in DOMAIN tree[Parent(p)].subnode :
                          tree[Parent(p)].subnode[i] = p[Len(p)] }) = 1

(* The tree has one branch (hashtree.c:56-63): a client that stores two    *)
(* keys of which neither is the beginning of the other is stopped by the   *)
(* search, so all the keys it has stored are beginnings of the longest.    *)
OneBranch ==
  \A p, q \in DOMAIN tree : \A k \in 1..Len(p) : k <= Len(q) => p[k] = q[k]

(* HashTree_Retrive finds every node that exists, and no other, for every  *)
(* key of the client (hashtree.c:97-120).                                  *)
RetrieveFinds ==
  Root \in DOMAIN tree => \A h \in Hashes : (Follow(h).meets = "end") <=> h \in DOMAIN tree

(* What is stored for a key. *)
Entry(h) == IF h \in DOMAIN tree THEN tree[h].data ELSE NULL

(* HashTree_Assign (hashtree.c:32-94) sets the entry of its key, or, when  *)
(* a malloc fails, leaves a key that was not there without an entry; it    *)
(* never changes another entry, wherever it stops.                         *)
AssignExact ==
  [][\A h \in Hashes, d \in Data : HashTree_Assign(h, d) =>
       \A g \in Hashes : \/ Entry(g)' = Entry(g) /\ (g = h => Entry(g) \in {NULL, d} \/ fault' # "none")
                         \/ g = h /\ Entry(g)' = d]_vars

(* No call but HashTree_Free takes an entry away, HashTree_Release of its  *)
(* key included (hashtree.c:123-176), unless the key is empty.             *)
EntriesStay ==
  [][(Root \in DOMAIN tree') =>
       \A h \in Hashes \ {<<>>} : Entry(h) # NULL => Entry(h)' # NULL]_vars
=============================================================================
