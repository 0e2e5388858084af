------------------------------- MODULE Listing -------------------------------
(***************************************************************************)
(* listing.c as it is: the doubly linked nodes, and the cache of positions *)
(* in the header.  malloc leaves the cache of a new header as it finds it, *)
(* so the first call already works on garbage.                             *)
(*                                                                         *)
(* An operation that dereferences NULL, a freed node or garbage, or that   *)
(* does not return, stops the model with a fault.  The operators below     *)
(* give the set of results of a piece of code; the set is empty when it    *)
(* stops that way.                                                         *)
(***************************************************************************)
EXTENDS Integers, Sequences, FiniteSets

CONSTANTS List,           \* addresses of headers
          Node,           \* addresses of nodes
          NULL, Wild,     \* a node pointer that is NULL, and one that is garbage
          Data,           \* numbers: what a node holds, and what Sort compares
          CacheSize,      \* LISTING_CACHE_SIZE
          Uint,           \* the number of values of an unsigned int
          Garbage,        \* caches that malloc may leave in a new header, by address
          Contents,       \* what nodes hold at first: bound
          MaxLinked,      \* bound: nodes the client links by itself
          MaxCalls        \* bound: calls of the client after that, by listing

Slot == 0..(CacheSize - 1)
NodePtr == Node \cup {NULL, Wild}

(* What an entry of cache_index points to: nothing, memory that cannot be  *)
(* read, cacheIDs[n], or a readable word of value n behind the header or   *)
(* before it.  Nothing is ever written through cache_index.                *)
IndexPtr == [to : {"NULL", "unmapped", "id", "behind", "before"}, n : Nat]
NoIndex == [to |-> "NULL", n |-> 0]
IdPtr(j) == [to |-> "id", n |-> j]
Cache == [ids : [Slot -> Nat], index : [Slot -> IndexPtr], nodes : [Slot -> NodePtr]]

ASSUME NodeAssumption == NULL \notin Node \cup List /\ Wild \notin Node /\ NULL # Wild
ASSUME NumbersAssumption ==
  /\ Node \subseteq Nat /\ IsFiniteSet(Node) /\ Data \subseteq Nat /\ Contents \subseteq [Node -> Data]
  /\ MaxLinked \in Nat /\ MaxCalls \in [List -> Nat]
  /\ CacheSize \in Nat \ {0, 1} /\ Uint \in Nat \ {0}
(* Garbage does not point into the header it is found in, by chance.       *)
ASSUME GarbageAssumption ==
  Garbage \in [List -> SUBSET { c \in Cache : \A j \in Slot : c.index[j].to # "id" }]

VARIABLES live,                     \* the headers that exist
          head, tail, count, cache, \* Listing_Header, by address
          alloc,                    \* the nodes that exist
          next, prev, data,         \* Listing_Node, by address
          freeing,                  \* the header whose nodes are being freed, or NULL
          calls,
          fault

header == <<head, tail, count, cache>>
memory == <<alloc, next, prev, data>>
vars == <<live, header, memory, freeing, calls, fault>>

Init ==
  /\ live = {} /\ alloc = {} /\ freeing = NULL /\ calls = [l \in List |-> 0] /\ fault = FALSE
  /\ head = [l \in List |-> NULL] /\ tail = [l \in List |-> NULL]
  /\ count = [l \in List |-> 0]
  /\ cache \in [List -> UNION { Garbage[l] : l \in List }] /\ \A l \in List : cache[l] \in Garbage[l]
  /\ next = [n \in Node |-> NULL] /\ prev = [n \in Node |-> NULL]
  /\ data \in Contents

Runs == ~fault /\ freeing = NULL
Stops == fault' = TRUE /\ UNCHANGED <<live, header, memory, freeing>>
Call(l) ==
  Runs /\ l \in live /\ calls[l] < MaxCalls[l] /\ calls' = [calls EXCEPT ![l] = @ + 1]

-----------------------------------------------------------------------------
(* The cache.  The names that end in _Slip are what a small mistake, or a  *)
(* repair, in the code would make of the next definition; the model does   *)
(* not use them.                                                           *)

Readable(p) == p.to \in {"id", "behind", "before"}
Val(c, p) == IF p.to = "id" THEN c.ids[p.n] ELSE p.n

(* Without element k and the others moved up, with x at the end; x in      *)
(* front and the others moved down.                                        *)
MovedUp(f, k, x) ==
  [j \in Slot |-> IF j < k THEN f[j] ELSE IF j < CacheSize - 1 THEN f[j + 1] ELSE x]
MovedDown(f, x) == [j \in Slot |-> IF j = 0 THEN x ELSE f[j - 1]]

(* The place of the binary search for i in cache_index, to the left of the *)
(* entries that are equal or not; -1 when it reads what cannot be read.    *)
Probe(c, i, left) ==
  LET search[w \in Slot \X Slot] ==
        LET m == (w[1] + w[2]) \div 2
            p == c.index[m]
        IN  IF w[1] = m THEN m
            ELSE IF p = NoIndex THEN search[<<w[1], m>>]
            ELSE IF ~Readable(p) THEN -1
            ELSE IF i < Val(c, p) \/ (left /\ i = Val(c, p)) THEN search[<<w[1], m>>]
            ELSE search[<<m, w[2]>>]
  IN  search[<<0, CacheSize - 1>>]

Front(c) == { j \in Slot : \A k \in 0..j : c.index[k] # NoIndex }

(* The order of the entries up to the first NULL: by value, and equal ones *)
(* as they were.                                                           *)
Listing_Cache_Sort(c) ==
  LET Less(p, q) == Val(c, c.index[p]) < Val(c, c.index[q]) \/
                    (Val(c, c.index[p]) = Val(c, c.index[q]) /\ p < q)
  IN  IF Cardinality(Front(c)) > 1 /\ \E j \in Front(c) : ~Readable(c.index[j]) THEN {}
      ELSE { [c EXCEPT !.index = [j \in Slot |-> IF j \in Front(c) THEN c.index[f[j]]
                                                 ELSE c.index[j]]] :
               f \in { g \in [Front(c) -> Front(c)] :
                         \A j, k \in Front(c) : j < k => Less(g[j], g[k]) } }

(* The distance of the pointer from cacheIDs is divided by the size of a   *)
(* pointer once more than C does by itself.  Behind the header it is past  *)
(* the end of the arrays (a word close behind it, for which it is not, is  *)
(* not modelled); before it memmove writes outside of them.                *)
Listing_Cache_Del(c, i) ==
  LET at  == Probe(c, i, FALSE)
      p   == c.index[at]
      cid == IF p.to = "id" THEN p.n \div 8 ELSE CacheSize
  IN  IF at = -1 THEN {}
      ELSE IF ~Readable(p) THEN {}
      ELSE IF Val(c, p) # i THEN {c}
      ELSE IF p.to = "before" THEN {}
      ELSE IF cid < CacheSize - 1
      THEN {[ids   |-> MovedUp(c.ids, cid, c.ids[CacheSize - 1]),
             index |-> MovedUp(c.index, at, NoIndex),
             nodes |-> MovedUp(c.nodes, cid, NULL)]}
      ELSE {[c EXCEPT !.index[CacheSize - 1] = NoIndex, !.nodes[CacheSize - 1] = NULL]}

Indexed_Slip(d) ==     \* the entries that moved are pointed to where they are now
  MovedDown([j \in Slot |-> IF d.index[j].to = "id" THEN IdPtr((d.index[j].n + 1) % CacheSize)
                            ELSE d.index[j]], IdPtr(0))
Indexed(d) ==
  IF d.index[CacheSize - 1] = NoIndex THEN MovedDown(d.index, IdPtr(0)) ELSE d.index

Cache_Add_Slip(c, i, n) ==     \* line 116 is missing
  UNION { Listing_Cache_Sort([ids   |-> MovedDown(d.ids, i),
                              index |-> Indexed(d),
                              nodes |-> MovedDown(d.nodes, d.nodes[0])]) :
            d \in Listing_Cache_Del(c, i) }
Listing_Cache_Add(c, i, n) ==
  UNION { Listing_Cache_Sort([ids   |-> MovedDown(d.ids, i),
                              index |-> Indexed(d),
                              nodes |-> MovedDown(d.nodes, n)]) :
            d \in Listing_Cache_Del(c, i) }

-----------------------------------------------------------------------------
(* The nodes.                                                              *)

(* k steps along f from node p; Wild when a pointer cannot be followed.    *)
Along(f, p, k) ==
  LET step == [q \in NodePtr |-> IF q \in alloc THEN f[q] ELSE Wild]
      walk[m \in 0..k] == IF m = 0 THEN p ELSE step[walk[m - 1]]
  IN  walk[k]

Cached(c, p) == IF p.to = "id" THEN c.nodes[p.n \div 4] ELSE Wild

(* The node at index i, from the beginning, the end, or the cached node    *)
(* next to it.  Every caller dereferences what it gets, so Wild also       *)
(* stands for a search that stops.                                         *)
Nearest(i, v, last) ==
  IF i < v \div 2 THEN "head" ELSE IF i > ((last - v) % Uint) \div 2 THEN "tail" ELSE "cached"

FromTail_Slip(l, i) == Along(prev, tail[l], count[l] - i)     \* line 206: tx = count
FromTail(l, i) == Along(prev, tail[l], count[l] - 1 - i)

Listing_Node_Select(l, i) ==
  LET c    == cache[l]
      at   == Probe(c, i, TRUE)
      p    == c.index[at]
      from == Nearest(i, Val(c, p), count[l] - 1)
  IN  IF at = -1 THEN Wild
      ELSE IF ~Readable(p) THEN Wild
      ELSE IF from = "head" THEN Along(next, head[l], i)
      ELSE IF from = "tail" THEN FromTail(l, i)
      ELSE IF i >= Val(c, p) THEN Along(next, Cached(c, p), i - Val(c, p))
      ELSE Along(prev, Cached(c, p), Val(c, p) - i)

(* head, tail, next and prev once the new node n has been put in at index  *)
(* i.  In an empty list the pointers are compared with n, not assigned; in *)
(* the middle n comes after the node that was at i.                        *)
Fresh(n) == [next |-> [next EXCEPT ![n] = NULL], prev |-> [prev EXCEPT ![n] = NULL]]

IntoEmpty_Slip(l, n) ==     \* lines 263-264 assign
  {[head |-> n, tail |-> n, next |-> Fresh(n).next, prev |-> Fresh(n).prev]}
IntoEmpty(l, n) ==
  {[head |-> head[l], tail |-> tail[l], next |-> Fresh(n).next, prev |-> Fresh(n).prev]}

InFront(l, n) ==
  IF head[l] \notin alloc THEN {}
  ELSE {[head |-> n, tail |-> tail[l],
         next |-> [Fresh(n).next EXCEPT ![n] = head[l]],
         prev |-> [Fresh(n).prev EXCEPT ![head[l]] = n]]}

AtEnd(l, n) ==
  IF tail[l] \notin alloc THEN {}
  ELSE {[head |-> head[l], tail |-> n,
         next |-> [Fresh(n).next EXCEPT ![tail[l]] = n],
         prev |-> [Fresh(n).prev EXCEPT ![n] = tail[l]]]}

After_Slip(l, n, p) ==     \* line 281 is missing
  IF p \notin alloc THEN {}
  ELSE IF next[p] \notin alloc THEN {}
  ELSE {[head |-> head[l], tail |-> tail[l],
         next |-> [Fresh(n).next EXCEPT ![n] = next[p], ![p] = n],
         prev |-> [Fresh(n).prev EXCEPT ![n] = p]]}
After(l, n, p) ==
  IF p \notin alloc THEN {}
  ELSE IF next[p] \notin alloc THEN {}
  ELSE {[head |-> head[l], tail |-> tail[l],
         next |-> [Fresh(n).next EXCEPT ![n] = next[p], ![p] = n],
         prev |-> [Fresh(n).prev EXCEPT ![next[p]] = n, ![n] = p]]}

Linked(l, i, n) ==
  IF i = 0 THEN IF head[l] = NULL THEN IntoEmpty(l, n) ELSE InFront(l, n)
  ELSE IF i = count[l] THEN AtEnd(l, n)
  ELSE After(l, n, Listing_Node_Select(l, i))

(* The node's neighbours point to each other. *)
Unlinked(l, p) ==
  IF p \notin alloc THEN {}
  ELSE IF next[p] \notin alloc \cup {NULL} \/ prev[p] \notin alloc \cup {NULL} THEN {}
  ELSE {[head |-> IF head[l] = p THEN next[p] ELSE head[l],
         tail |-> IF tail[l] = p THEN prev[p] ELSE tail[l],
         next |-> IF prev[p] = NULL THEN next ELSE [next EXCEPT ![prev[p]] = next[p]],
         prev |-> IF next[p] = NULL THEN prev ELSE [prev EXCEPT ![next[p]] = prev[p]]]}

-----------------------------------------------------------------------------
(* The operations. *)

Relink(l, s) ==
  /\ head' = [head EXCEPT ![l] = s.head] /\ tail' = [tail EXCEPT ![l] = s.tail]
  /\ next' = s.next /\ prev' = s.prev

(* A new header.  Its cache is what malloc finds there: garbage, or what   *)
(* another listing left at this address.                                   *)
Listing_Init(l) ==
  /\ Runs /\ l \notin live
  /\ live' = live \cup {l}
  /\ head' = [head EXCEPT ![l] = NULL] /\ tail' = [tail EXCEPT ![l] = NULL]
  /\ count' = [count EXCEPT ![l] = 0]
  /\ UNCHANGED <<cache, memory, freeing, calls, fault>>

(* The struct is public: the client links its own k nodes into an empty    *)
(* listing.  Nodes are given in the order of their addresses.              *)
FreeNodes == Node \ alloc
Lowest(k) == { n \in FreeNodes : Cardinality({ m \in FreeNodes : m < n }) < k }

Client_Link(l, k) ==
  /\ Runs /\ l \in live /\ count[l] = 0 /\ head[l] = NULL
  /\ k <= Cardinality(FreeNodes)
  /\ LET s == CHOOSE f \in [1..k -> Lowest(k)] : \A i, j \in 1..k : i < j => f[i] < f[j]
     IN  /\ head' = [head EXCEPT ![l] = s[1]] /\ tail' = [tail EXCEPT ![l] = s[k]]
         /\ next' = [n \in Node |-> IF \E i \in 1..(k - 1) : s[i] = n
                                    THEN s[(CHOOSE i \in 1..k : s[i] = n) + 1]
                                    ELSE IF n \in Lowest(k) THEN NULL ELSE next[n]]
         /\ prev' = [n \in Node |-> IF \E i \in 2..k : s[i] = n
                                    THEN s[(CHOOSE i \in 1..k : s[i] = n) - 1]
                                    ELSE IF n \in Lowest(k) THEN NULL ELSE prev[n]]
  /\ alloc' = alloc \cup Lowest(k)
  /\ count' = [count EXCEPT ![l] = k]
  /\ UNCHANGED <<live, cache, data, freeing, calls, fault>>

Bumped(c, i) == [c EXCEPT !.ids = [j \in Slot |-> IF @[j] >= i THEN @[j] + 1 ELSE @[j]]]

InsertNode(l, i, x) ==
  \/ UNCHANGED <<header, memory, fault>>     \* out of range, or malloc fails
  \/ /\ i <= count[l]
     /\ \E n \in Lowest(1) :
          LET links  == Linked(l, i, n)
              caches == Listing_Cache_Add(Bumped(cache[l], i), i, n)
          IN  \/ /\ links # {} /\ caches # {}
                 /\ \E s \in links : Relink(l, s)
                 /\ \E c \in caches : cache' = [cache EXCEPT ![l] = c]
                 /\ alloc' = alloc \cup {n}
                 /\ data' = [data EXCEPT ![n] = x]
                 /\ count' = [count EXCEPT ![l] = @ + 1]
                 /\ UNCHANGED fault
              \/ /\ links = {} \/ caches = {}
                 /\ fault' = TRUE /\ UNCHANGED <<header, memory>>

Listing_Insert(l, i, x) ==
  /\ Call(l)
  /\ InsertNode(l, i, x)
  /\ UNCHANGED <<live, freeing>>

(* Line 307 compares: the pointer to the last node is whatever was in that *)
(* place of the stack, a node of any listing included.                     *)
Target(l, i) ==
  IF i = 0 THEN {head[l]}
  ELSE IF i = count[l] - 1 THEN alloc \cup {Wild}
  ELSE {Listing_Node_Select(l, i)}

Lowered_Slip(c, i) ==     \* line 330: not less, for greater
  [c EXCEPT !.ids = [j \in Slot |-> IF @[j] >= i THEN @[j] - 1 ELSE @[j]]]
Lowered(c, i) == [c EXCEPT !.ids = [j \in Slot |-> IF @[j] > i THEN @[j] - 1 ELSE @[j]]]

RemoveNode(l, i) ==
  \/ i >= count[l] /\ UNCHANGED <<header, memory, fault>>
  \/ /\ i < count[l]
     /\ \E p \in Target(l, i) :
          LET links  == Unlinked(l, p)
              caches == Listing_Cache_Del(cache[l], i)
          IN  \/ /\ links # {} /\ caches # {}
                 /\ \E s \in links : Relink(l, s)
                 /\ \E c \in caches : cache' = [cache EXCEPT ![l] = Lowered(c, i)]
                 /\ alloc' = alloc \ {p}
                 /\ count' = [count EXCEPT ![l] = @ - 1]
                 /\ UNCHANGED <<data, fault>>
              \/ /\ links = {} \/ caches = {}
                 /\ fault' = TRUE /\ UNCHANGED <<header, memory>>

Listing_Remove(l, i) ==
  /\ Call(l)
  /\ RemoveNode(l, i)
  /\ UNCHANGED <<live, freeing>>

(* The entry is data of the node, which is cached: the first of nodes.     *)
Listing_At(l, i) ==
  /\ Call(l)
  /\ \/ i >= count[l] /\ UNCHANGED <<live, header, memory, freeing, fault>>
     \/ /\ i < count[l]
        /\ LET n      == Listing_Node_Select(l, i)
               caches == Listing_Cache_Add(cache[l], i, n)
           IN  \/ /\ n \in alloc /\ caches # {}
                  /\ \E c \in caches : cache' = [cache EXCEPT ![l] = c]
                  /\ UNCHANGED <<live, head, tail, count, memory, freeing, fault>>
               \/ (n \notin alloc \/ caches = {}) /\ Stops

(* Every turn compares a node with the next one and, when the callback is  *)
(* false of them, exchanges the two, which needs a node on either side.    *)
(* The callback of the model is "not greater"; left counts the turns, of   *)
(* which a list of all the nodes takes no more than MostTurns.             *)
Swapped(s, a, b) ==
  [s EXCEPT !.next = [@ EXCEPT ![a] = s.next[b], ![b] = a, ![s.prev[a]] = b],
            !.prev = [@ EXCEPT ![b] = s.prev[a], ![a] = b, ![s.next[b]] = a],
            !.head = IF a = @ THEN b ELSE @,
            !.tail = IF b = @ THEN a ELSE @,
            !.ids = [j \in Slot |-> IF @[j] = s.cid THEN @[j] + 1 ELSE @[j]],
            !.cid = @ + 1, !.sorted = FALSE]

Links == [Node -> NodePtr]
MostTurns == (Cardinality(Node) + 1) * (Cardinality(Node) + 1)
SortState == [next : Links, prev : Links, head : NodePtr, tail : NodePtr, ids : [Slot -> Nat],
              cur : NodePtr, cid : Nat, sorted : BOOLEAN, left : 0..MostTurns]

InOrder_Slip(a, b) == data[b] <= data[a]     \* the arguments are exchanged
InOrder(a, b) == data[a] <= data[b]

SortLoop(l) ==
  LET end   == tail[l]
      start == [next |-> next, prev |-> prev, head |-> head[l], tail |-> tail[l],
                ids |-> cache[l].ids, cur |-> head[l], cid |-> 0, sorted |-> TRUE,
                left |-> MostTurns]
      turn[s \in SortState] ==
        LET a == s.cur
            b == s.next[a]
            rest == [s EXCEPT !.left = @ - 1]
        IN  IF a = end /\ s.sorted THEN {s}
            ELSE IF s.left = 0 THEN {}
            ELSE IF a = end THEN turn[[rest EXCEPT !.cur = s.head, !.cid = 0, !.sorted = TRUE]]
            ELSE IF a \notin alloc THEN {}
            ELSE IF b \notin alloc THEN {}
            ELSE IF InOrder(a, b) THEN turn[[rest EXCEPT !.cur = b, !.cid = @ + 1]]
            ELSE IF s.prev[a] \notin alloc \/ s.next[b] \notin alloc THEN {}
            ELSE turn[Swapped(rest, a, b)]
  IN  turn[start]

Listing_Sort(l) ==
  /\ Call(l)
  /\ LET ends   == SortLoop(l)
         caches == UNION { Listing_Cache_Sort([cache[l] EXCEPT !.ids = s.ids]) : s \in ends }
     IN  \/ /\ caches # {}
            /\ \E s \in ends : Relink(l, s)
            /\ \E c \in caches : cache' = [cache EXCEPT ![l] = c]
            /\ UNCHANGED <<live, count, alloc, data, freeing, fault>>
         \/ caches = {} /\ Stops

Listing_Merge(dest, orig) ==
  /\ Call(dest) /\ orig \in live
  /\ \/ /\ tail[dest] \in alloc /\ head[orig] \in alloc
        /\ next' = [next EXCEPT ![tail[dest]] = head[orig]]
        /\ prev' = [prev EXCEPT ![head[orig]] = tail[dest]]
        /\ head' = [head EXCEPT ![orig] = NULL]
        /\ tail' = [tail EXCEPT ![dest] = tail[orig], ![orig] = NULL]
        /\ count' = [count EXCEPT ![dest] = @ + count[orig], ![orig] = 0]
        /\ UNCHANGED <<live, cache, alloc, data, freeing, fault>>
     \/ ~(tail[dest] \in alloc /\ head[orig] \in alloc) /\ Stops

(* Listing_Free removes the first entry until there is none; each turn is  *)
(* a step, and nothing else runs meanwhile.                                *)
Listing_Free(l) ==
  /\ Call(l)
  /\ freeing' = l
  /\ UNCHANGED <<live, header, memory, fault>>

Free_Turn ==
  /\ ~fault /\ freeing # NULL /\ head[freeing] # NULL
  /\ RemoveNode(freeing, 0)
  /\ UNCHANGED <<live, freeing, calls>>

Free_End ==
  /\ ~fault /\ freeing # NULL /\ head[freeing] = NULL
  /\ live' = live \ {freeing} /\ freeing' = NULL
  /\ UNCHANGED <<header, memory, calls, fault>>

(* The nodes from the head on; in a circle no more than there are nodes.   *)
Chain(l) ==
  LET from[w \in NodePtr \X (0..Cardinality(Node))] ==
        IF w[1] \in alloc /\ w[2] > 0 THEN <<w[1]>> \o from[<<next[w[1]], w[2] - 1>>] ELSE <<>>
  IN  from[<<head[l], Cardinality(Node)>>]

(* The index of an entry x, by its place in the listing; -1 when it is not *)
(* found.                                                                  *)
Listing_IndexOf(l, x) ==
  LET found == { i \in DOMAIN Chain(l) : data[Chain(l)[i]] = x }
  IN  IF found = {} THEN -1
      ELSE (CHOOSE i \in found : \A j \in found : i <= j) - 1

Next ==
  \/ \E l \in List :
       \/ Listing_Init(l) \/ Listing_Free(l) \/ Listing_Sort(l)
       \/ \E k \in 1..MaxLinked : Client_Link(l, k)
       \/ \E i \in 0..(count[l] + 1) :
            \/ \E x \in Data : Listing_Insert(l, i, x)
            \/ Listing_Remove(l, i) \/ Listing_At(l, i)
       \/ \E m \in List : Listing_Merge(l, m)
  \/ Free_Turn \/ Free_End

Spec == Init /\ [][Next]_vars

-----------------------------------------------------------------------------
(* Properties *)

(* Every variable keeps its type; the cached indices are numbers, so none  *)
(* of the decrements of line 331 wraps around.                             *)
TypeOK ==
  /\ live \subseteq List /\ alloc \subseteq Node
  /\ freeing \in List \cup {NULL} /\ calls \in [List -> Nat] /\ fault \in BOOLEAN
  /\ head \in [List -> NodePtr] /\ tail \in [List -> NodePtr]
  /\ count \in [List -> Nat] /\ cache \in [List -> Cache]
  /\ next \in Links /\ prev \in Links /\ data \in [Node -> Data]

(* A listing without a first node never gets one, whatever is inserted,    *)
(* sorted or merged (listing.c:262-265): nothing a program puts into a new *)
(* listing is ever found in it.                                            *)
StaysEmpty ==
  [][\A l \in live : head[l] = NULL /\ (\A k \in 1..MaxLinked : ~Client_Link(l, k)) =>
       head'[l] = NULL /\ \A x \in Data : Listing_IndexOf(l, x)' = -1]_vars

(* The nodes of a listing point to each other in both directions, from     *)
(* head to tail, and no node is in two listings.                           *)
Shaped(l) ==
  LET c == Chain(l)
  IN  /\ head[l] = NULL => tail[l] = NULL
      /\ head[l] # NULL => c # <<>> /\ tail[l] = c[Len(c)] /\ next[tail[l]] = NULL
      /\ \A i \in DOMAIN c : prev[c[i]] = IF i = 1 THEN NULL ELSE c[i - 1]
Entries(l) == { Chain(l)[i] : i \in DOMAIN Chain(l) }
AllShaped ==
  /\ \A l \in live : Shaped(l)
  /\ \A l, m \in live : l # m => Entries(l) \cap Entries(m) = {}

(* Every operation keeps that: insertion at both ends and in the middle,   *)
(* removal, the exchange of two nodes in Sort, Merge, and Free             *)
(* (listing.c:149-162, 260-284, 313-323, 336-340); but not one that ends   *)
(* up at a node that is not of its listing: Remove of the last entry,      *)
(* which takes any node (listing.c:307), and Insert and Remove at an index *)
(* whose search was led astray, by a wrong count or by a node that the     *)
(* cache still had at another index when it was freed (listing.c:326).     *)
Strays ==
  \E l \in live : \E i \in 1..(count[l] - 1) :
    \/ RemoveNode(l, i) /\ ~(alloc \ alloc' \subseteq Entries(l))
    \/ (\E x \in Data : InsertNode(l, i, x)) /\ Listing_Node_Select(l, i) \notin Entries(l)
ShapeKept == [][AllShaped => AllShaped' \/ Strays]_vars

(* The count is the number of nodes, and a cached index is the place of    *)
(* the cached node.                                                        *)
Good(l) ==
  LET c == cache[l]
  IN  /\ l \in live /\ Shaped(l) /\ count[l] = Len(Chain(l))
      /\ \A j \in Slot : c.index[j].to = "id" =>
           /\ c.ids[c.index[j].n] < count[l]
           /\ c.nodes[c.index[j].n] = Chain(l)[c.ids[c.index[j].n] + 1]

(* What the operations do to the sequence of the nodes.  In the middle,    *)
(* the new node comes after the one at its index, and has index + 1, not   *)
(* index (listing.c:278-283).                                              *)
Added(s, k, t) == \E n \in Node : t = SubSeq(s, 1, k) \o <<n>> \o SubSeq(s, k + 1, Len(s))
SequenceExact ==
  [][\A l \in live : AllShaped /\ Good(l) /\ head[l] # NULL /\ ~fault' =>
       /\ \A i \in 0..count[l], x \in Data : Listing_Insert(l, i, x) /\ alloc' # alloc =>
            Added(Chain(l), IF i \in {0, count[l]} THEN i ELSE i + 1, Chain(l)')
       /\ \A i \in 0..(count[l] - 1) : Listing_Remove(l, i) /\ (i = 0 \/ i # count[l] - 1) =>
            Chain(l)' = SubSeq(Chain(l), 1, i) \o SubSeq(Chain(l), i + 2, count[l])
       /\ Listing_Sort(l) =>
            /\ Entries(l)' = Entries(l) /\ Len(Chain(l)') = Len(Chain(l))
            /\ \A i \in 2..count[l] : data[Chain(l)'[i - 1]] <= data[Chain(l)'[i]]
       /\ \A m \in live \ {l} : Listing_Merge(l, m) =>
            Chain(l)' = Chain(l) \o Chain(m)]_vars

(* Every pointer to a cached index is to the first one: the shift of the   *)
(* cache (listing.c:113-121) does not move the pointers with the entries,  *)
(* so that the cache remembers one entry, the last it was given.           *)
OneSlot == \A l \in List : \A j \in Slot : cache[l].index[j].to = "id" => cache[l].index[j].n = 0

(* As long as the cache is right, the search that starts at the nearest    *)
(* known place (listing.c:185-231) ends at the right node, or nowhere.     *)
SelectExact ==
  \A l \in live : Good(l) => \A i \in 0..(count[l] - 1) :
    Listing_Node_Select(l, i) \in {Chain(l)[i + 1], Wild}

(* Listing_At and insertion at both ends keep the cache right, whatever    *)
(* Garbage it started from (listing.c:234-245, 260-274, 287-291).  The     *)
(* other operations do not: a node in the middle is cached at the index    *)
(* before its own, Sort moves only one of the two entries it exchanges     *)
(* (listing.c:165-167), and Remove uncovers an older entry.                *)
CacheKept ==
  [][\A l \in live : Good(l) /\ head[l] # NULL /\
       (\/ \E i \in 0..(count[l] - 1) : Listing_At(l, i)
        \/ \E i \in {0, count[l]}, x \in Data : Listing_Insert(l, i, x)) => Good(l)']_vars
=============================================================================
