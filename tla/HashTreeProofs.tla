--------------------------- MODULE HashTreeProofs ---------------------------
(***************************************************************************)
(* The shape of the trees of hashtree.c, and what the calls do to the      *)
(* entries, for every set of bytes, keys, data and threads.                *)
(*                                                                         *)
(* The search and the walk along a key are recursive functions; SearchIs,  *)
(* InUseOne and FollowIs say that they exist and what one turn of them     *)
(* gives.  The inductive invariant, Shaped, says that a node has at most   *)
(* one subnode and that all the beginnings of its name are nodes, each the *)
(* subnode of the one before.  For the walk Walking is added: the nodes on *)
(* the stack get shorter from its top down, and none is longer than a node *)
(* in the hands of a thread.                                               *)
(***************************************************************************)
EXTENDS HashTreeForeach, ListingLemmas

-----------------------------------------------------------------------------
(* The search *)

Windows == (0..255) \X (0..255)
Size(w) == IF w[1] <= w[2] THEN w[2] - w[1] ELSE w[1] - w[2]
Mid(w) == (w[1] + w[2]) \div 2
Narrowed(bids, b, w) ==
  IF bids[Mid(w) + 1] > b THEN <<w[1], Mid(w)>>
  ELSE IF bids[Mid(w) + 1] < b THEN <<Mid(w), w[2]>> ELSE w
(* One turn of the search in window w, with f for the turns after it.      *)
Turned(bids, b, f, w) ==
  IF Narrowed(bids, b, w)[1] = Narrowed(bids, b, w)[2] /\ bids[Mid(w) + 1] = b THEN Mid(w) + 1
  ELSE IF Narrowed(bids, b, w) = w THEN 0 ELSE f[Narrowed(bids, b, w)]

(* A window is a pair of bytes, and no larger than 255. *)
LEMMA WindowFacts ==
  ASSUME NEW w \in Windows
  PROVE  /\ w[1] \in 0..255 /\ w[2] \in 0..255 /\ w = <<w[1], w[2]>>
         /\ Size(w) \in 0..255
<1>1. w[1] \in 0..255 /\ w[2] \in 0..255 /\ w = <<w[1], w[2]>>
  BY DEF Windows
<1>2. ASSUME NEW s \in 0..255, NEW e \in 0..255
      PROVE  (IF s <= e THEN e - s ELSE s - e) \in 0..255
  OBVIOUS
<1> QED
  BY <1>1, <1>2 DEF Size

(* The middle of a window lies in it, and is not its end unless that is its start. *)
LEMMA MidFacts ==
  ASSUME NEW w \in Windows
  PROVE  /\ Mid(w) \in 0..255
         /\ w[1] <= w[2] => w[1] <= Mid(w) /\ Mid(w) <= w[2] /\ (w[1] < w[2] => Mid(w) < w[2])
         /\ w[1] > w[2] => w[2] <= Mid(w) /\ Mid(w) < w[1]
<1>1. w[1] \in 0..255 /\ w[2] \in 0..255
  BY WindowFacts
<1>2. ASSUME NEW s \in 0..255, NEW e \in 0..255
      PROVE  /\ (s + e) \div 2 \in 0..255
             /\ s <= e => s <= (s + e) \div 2 /\ (s + e) \div 2 <= e /\ (s < e => (s + e) \div 2 < e)
             /\ s > e => e <= (s + e) \div 2 /\ (s + e) \div 2 < s
  OBVIOUS
<1> QED
  BY <1>1, <1>2 DEF Mid

(* A turn that does not end the search leaves a smaller window.            *)
LEMMA Narrows ==
  ASSUME NEW bids, NEW b, NEW w \in Windows, Narrowed(bids, b, w) # w
  PROVE  /\ Narrowed(bids, b, w) \in Windows
         /\ Size(Narrowed(bids, b, w)) \in Nat
         /\ Size(Narrowed(bids, b, w)) < Size(w)
<1> DEFINE m == Mid(w)
<1>1. /\ w[1] \in 0..255 /\ w[2] \in 0..255 /\ w = <<w[1], w[2]>>
  BY WindowFacts
<1>2. /\ m \in 0..255
      /\ w[1] <= w[2] => w[1] <= m /\ m <= w[2] /\ (w[1] < w[2] => m < w[2])
      /\ w[1] > w[2] => w[2] <= m /\ m < w[1]
  BY MidFacts
<1>3. Narrowed(bids, b, w) = <<w[1], m>> \/ Narrowed(bids, b, w) = <<m, w[2]>>
  BY DEF Narrowed
<1> HIDE DEF m
<1>4. ASSUME NEW s \in 0..255, NEW e \in 0..255, <<s, e>> \in {<<w[1], m>>, <<m, w[2]>>},
             <<s, e>> # w
      PROVE  /\ <<s, e>> \in Windows /\ Size(<<s, e>>) \in Nat
             /\ Size(<<s, e>>) < Size(w)
  <2>1. <<s, e>> \in Windows
    BY DEF Windows
  <2>2. Size(<<s, e>>) \in Nat
    BY <2>1, WindowFacts
  <2>3. (s = w[1] /\ e = m /\ m # w[2]) \/ (s = m /\ e = w[2] /\ m # w[1])
    BY <1>1, <1>4
  <2>4. Size(<<s, e>>) = IF s <= e THEN e - s ELSE s - e
    BY DEF Size
  <2>5. Size(w) = IF w[1] <= w[2] THEN w[2] - w[1] ELSE w[1] - w[2]
    BY DEF Size
  <2>6. ASSUME NEW x \in 0..255, NEW y \in 0..255, NEW n \in 0..255,
               x <= y => x <= n /\ n <= y /\ (x < y => n < y),
               x > y => y <= n /\ n < x,
               (s = x /\ e = n /\ n # y) \/ (s = n /\ e = y /\ n # x)
        PROVE  (IF s <= e THEN e - s ELSE s - e) < (IF x <= y THEN y - x ELSE x - y)
    <3>1. CASE x <= y
      BY <2>6, <3>1
    <3>2. CASE x > y
      BY <2>6, <3>2
    <3> QED
      BY <3>1, <3>2
  <2> QED
    <3>1. (IF s <= e THEN e - s ELSE s - e) < (IF w[1] <= w[2] THEN w[2] - w[1] ELSE w[1] - w[2])
      BY <1>1, <1>2, <2>3, <2>6
    <3> QED
      BY <2>1, <2>2, <2>4, <2>5, <3>1
<1> QED
  BY <1>1, <1>2, <1>3, <1>4

(* The search is well defined: its windows get smaller.                    *)
LEMMA SearchTurns ==
  ASSUME NEW bids, NEW b
  PROVE  \E f : f = [w \in Windows |-> Turned(bids, b, f, w)]
<1> DEFINE Fits(n, f) == \A w \in Windows : Size(w) < n => f[w] = Turned(bids, b, f, w)
           Bad == { n \in Nat : ~ \E f : f = [w \in Windows |-> f[w]] /\ Fits(n, f) }
<1>1. Bad = {}
  <2> SUFFICES ASSUME Bad # {} PROVE FALSE
    OBVIOUS
  <2>1. PICK n \in Bad : \A k \in Bad : n <= k
    BY Smallest
  <2>2. n # 0
    <3>1. \A w \in Windows : ~(Size(w) < 0)
      BY WindowFacts
    <3> DEFINE f == [w \in Windows |-> 0]
    <3>2. f = [w \in Windows |-> f[w]]
      OBVIOUS
    <3>3. Fits(0, f)
      BY <3>1
    <3> QED
      BY <3>2, <3>3
  <2>3. n - 1 \in Nat /\ n - 1 \notin Bad
    BY <2>1, <2>2
  <2>4. PICK f : f = [w \in Windows |-> f[w]] /\ Fits(n - 1, f)
    BY <2>3
  <2> DEFINE g == [w \in Windows |-> IF Size(w) < n - 1 THEN f[w] ELSE Turned(bids, b, f, w)]
  <2>5. ASSUME NEW w \in Windows, Size(w) < n
        PROVE  g[w] = Turned(bids, b, g, w)
    <3>1. g[w] = Turned(bids, b, f, w)
      BY <2>4
    <3>2. ASSUME Narrowed(bids, b, w) # w
          PROVE  g[Narrowed(bids, b, w)] = f[Narrowed(bids, b, w)]
      <4>1. /\ Narrowed(bids, b, w) \in Windows
            /\ Size(Narrowed(bids, b, w)) \in Nat
            /\ Size(Narrowed(bids, b, w)) < Size(w)
        BY <3>2, Narrows
      <4>2. Size(w) \in Nat
        BY WindowFacts
      <4>3. Size(Narrowed(bids, b, w)) < n - 1
        BY <2>3, <2>5, <4>1, <4>2
      <4> QED
        BY <4>1, <4>3
    <3> HIDE DEF g
    <3> QED
      BY <3>1, <3>2 DEF Turned
  <2>6. g = [w \in Windows |-> g[w]]
    OBVIOUS
  <2>7. Fits(n, g)
    BY <2>5
  <2> HIDE DEF g
  <2> QED
    BY <2>1, <2>6, <2>7
<1>2. 256 \notin Bad
  BY <1>1
<1>3. PICK f : f = [w \in Windows |-> f[w]] /\ Fits(256, f)
  BY <1>2
<1>4. \A w \in Windows : f[w] = Turned(bids, b, f, w)
  <2>1. \A w \in Windows : Size(w) < 256
    BY WindowFacts
  <2> QED
    BY <1>3, <2>1
<1>5. f = [w \in Windows |-> Turned(bids, b, f, w)]
  BY <1>3, <1>4
<1> QED
  BY <1>5

(* The search takes its turns from the window that is the whole array. *)
LEMMA SearchIs ==
  ASSUME NEW bids, NEW b
  PROVE  \E f : /\ f = [w \in Windows |-> Turned(bids, b, f, w)]
                /\ Search(bids, b) = f[<<0, Len(bids) - 1>>]
<1> DEFINE L == CHOOSE f : f = [w \in Windows |-> Turned(bids, b, f, w)]
<1>1. L = [w \in Windows |-> Turned(bids, b, L, w)]
  BY SearchTurns
<1>2. Search(bids, b) = L[<<0, Len(bids) - 1>>]
  BY DEF Search, Turned, Narrowed, Mid, Windows
<1> QED
  BY <1>1, <1>2

(* In an array of one subnode the search ends exactly when the subnode is  *)
(* the one it looks for.                                                   *)
LEMMA SearchOne ==
  ASSUME NEW a \in 0..255, NEW b \in 0..255
  PROVE  /\ a = b => Search(<<a>>, b) = 1
         /\ a # b => Search(<<a>>, b) = 0
<1> DEFINE w == <<0, 0>>
<1>1. PICK f : /\ f = [x \in Windows |-> Turned(<<a>>, b, f, x)]
               /\ Search(<<a>>, b) = f[<<0, Len(<<a>>) - 1>>]
  BY SearchIs
<1>2. w \in Windows /\ <<0, Len(<<a>>) - 1>> = w
  BY DEF Windows
<1>3. Mid(w) = 0 /\ Narrowed(<<a>>, b, w) = w
  BY DEF Mid, Narrowed
<1>4. f[w] = Turned(<<a>>, b, f, w)
  BY <1>1, <1>2
<1>5. <<a>>[Mid(w) + 1] = a
  BY <1>3
<1>6. f[w] = IF a = b THEN 1 ELSE 0
  BY <1>3, <1>4, <1>5 DEF Turned
<1> QED
  BY <1>1, <1>2, <1>6

(* The pruning of an array of one subnode, and of none.                    *)
LEMMA InUseNone ==
  ASSUME tree[Root].subnode = <<>>
  PROVE  InUse = <<>>
<1> DEFINE E(g) == [i \in 0..0 |->
                     IF i = 0 THEN <<>>
                     ELSE IF Unused(<<tree[Root].subnode[i]>>) THEN g[i - 1]
                          ELSE Append(g[i - 1], tree[Root].subnode[i])]
           L == CHOOSE g : g = E(g)
           f == [i \in 0..0 |-> <<>>]
<1>1. f = E(f)
  OBVIOUS
<1>2. L = E(L)
  BY <1>1
<1>3. InUse = L[0]
  BY DEF InUse
<1> QED
  BY <1>2, <1>3

(* The only subnode of the root is in use or not. *)
LEMMA InUseOne ==
  ASSUME NEW b, tree[Root].subnode = <<b>>
  PROVE  /\ Unused(<<b>>) => InUse = <<>>
         /\ ~Unused(<<b>>) => InUse = <<b>>
<1> DEFINE E(g) == [i \in 0..1 |->
                     IF i = 0 THEN <<>>
                     ELSE IF Unused(<<tree[Root].subnode[i]>>) THEN g[i - 1]
                          ELSE Append(g[i - 1], tree[Root].subnode[i])]
           L == CHOOSE g : g = E(g)
           f == [i \in 0..1 |->
                  IF i = 0 THEN <<>>
                  ELSE IF Unused(<<tree[Root].subnode[i]>>) THEN <<>>
                       ELSE Append(<<>>, tree[Root].subnode[i])]
<1>1. f = E(f)
  <2>1. \A i \in 0..1 : i # 0 => i - 1 = 0 /\ f[i - 1] = <<>>
    OBVIOUS
  <2> QED
    BY <2>1
<1>2. L = E(L)
  BY <1>1
<1>3. Len(tree[Root].subnode) = 1 /\ tree[Root].subnode[1] = b
  OBVIOUS
<1>4. InUse = L[1]
  BY <1>3 DEF InUse
<1> HIDE DEF L
<1>5. L[0] = <<>>
  BY <1>2
<1>6. L[1] = IF Unused(<<b>>) THEN L[0] ELSE Append(L[0], b)
  <2>1. 1 \in 0..1 /\ 1 # 0 /\ 1 - 1 = 0
    OBVIOUS
  <2>2. E(L)[1] = IF Unused(<<tree[Root].subnode[1]>>) THEN L[0]
                  ELSE Append(L[0], tree[Root].subnode[1])
    BY <2>1
  <2> QED
    BY <1>2, <1>3, <2>2
<1>7. Append(<<>>, b) = <<b>>
  OBVIOUS
<1> QED
  BY <1>4, <1>5, <1>6, <1>7
-----------------------------------------------------------------------------
(* The beginnings of a key *)

(* The first k entries of a sequence. *)
LEMMA Beginning ==
  ASSUME NEW S, NEW h \in Seq(S), NEW k \in 0..Len(h)
  PROVE  /\ SubSeq(h, 1, k) \in Seq(S) /\ Len(SubSeq(h, 1, k)) = k
         /\ \A i \in 1..k : SubSeq(h, 1, k)[i] = h[i]
<1>1. Len(h) \in Nat /\ \A i \in 1..Len(h) : h[i] \in S
  BY LenProperties, ElementOfSeq
<1>2. k \in Int /\ 1 \in Int /\ \A i \in 1..k : h[i] \in S
  BY <1>1
<1>3. /\ SubSeq(h, 1, k) \in Seq(S)
      /\ Len(SubSeq(h, 1, k)) = IF 1 <= k THEN k - 1 + 1 ELSE 0
      /\ \A i \in 1..(k - 1 + 1) : SubSeq(h, 1, k)[i] = h[1 + i - 1]
  BY <1>2, SubSeqProperties
<1> QED
  BY <1>1, <1>3

(* The beginning of a beginning is a beginning. *)
LEMMA BeginningOfBeginning ==
  ASSUME NEW S, NEW h \in Seq(S), NEW k \in 0..Len(h), NEW j \in 0..k
  PROVE  SubSeq(SubSeq(h, 1, k), 1, j) = SubSeq(h, 1, j)
<1> DEFINE s == SubSeq(h, 1, k)
<1>1. Len(h) \in Nat
  BY LenProperties
<1>2. /\ s \in Seq(S) /\ Len(s) = k /\ \A i \in 1..k : s[i] = h[i]
  BY Beginning
<1>3. j \in 0..Len(h) /\ j \in 0..Len(s)
  BY <1>1, <1>2
<1>4. /\ SubSeq(h, 1, j) \in Seq(S) /\ Len(SubSeq(h, 1, j)) = j
      /\ \A i \in 1..j : SubSeq(h, 1, j)[i] = h[i]
  BY <1>3, Beginning
<1> HIDE DEF s
<1>5. /\ SubSeq(s, 1, j) \in Seq(S) /\ Len(SubSeq(s, 1, j)) = j
      /\ \A i \in 1..j : SubSeq(s, 1, j)[i] = s[i]
  BY <1>2, <1>3, Beginning
<1>6. \A i \in 1..j : SubSeq(s, 1, j)[i] = SubSeq(h, 1, j)[i]
  BY <1>2, <1>4, <1>5
<1>7. SubSeq(s, 1, j) = SubSeq(h, 1, j)
  BY <1>4, <1>5, <1>6, SeqEqual
<1> QED
  BY <1>7 DEF s

(* One entry more of a beginning. *)
LEMMA NextBeginning ==
  ASSUME NEW S, NEW h \in Seq(S), NEW k \in 0..Len(h), k < Len(h)
  PROVE  /\ h[k + 1] \in S
         /\ Append(SubSeq(h, 1, k), h[k + 1]) = SubSeq(h, 1, k + 1)
<1> DEFINE s == SubSeq(h, 1, k)
           t == SubSeq(h, 1, k + 1)
           b == h[k + 1]
<1>1. Len(h) \in Nat
  BY LenProperties
<1>2. k + 1 \in 0..Len(h) /\ k + 1 \in 1..Len(h) /\ k \in Nat
  BY <1>1
<1>3. b \in S
  BY <1>2, ElementOfSeq
<1>4. s \in Seq(S) /\ Len(s) = k /\ \A i \in 1..k : s[i] = h[i]
  BY Beginning
<1>5. t \in Seq(S) /\ Len(t) = k + 1 /\ \A i \in 1..(k + 1) : t[i] = h[i]
  BY <1>2, Beginning
<1> HIDE DEF s, t
<1>6. /\ Append(s, b) \in Seq(S) /\ Len(Append(s, b)) = Len(s) + 1
      /\ \A i \in 1..Len(s) : Append(s, b)[i] = s[i]
      /\ Append(s, b)[Len(s) + 1] = b
  BY <1>3, <1>4, AppendProperties
<1>7. \A i \in 1..(k + 1) : Append(s, b)[i] = t[i]
  BY <1>2, <1>4, <1>5, <1>6
<1>8. Append(s, b) = t
  BY <1>4, <1>5, <1>6, <1>7, SeqEqual
<1> QED
  BY <1>3, <1>8 DEF s, t

(* The empty beginning and the whole sequence. *)
LEMMA ShortestLongest ==
  ASSUME NEW S, NEW h \in Seq(S)
  PROVE  SubSeq(h, 1, 0) = <<>> /\ SubSeq(h, 1, Len(h)) = h
BY SubSeqEmpty, SubSeqFull

-----------------------------------------------------------------------------
(* The inductive invariant.  A node has no subnode or one, a hollow one has *)
(* none, and all the beginnings of a node's name are nodes of which the    *)
(* next is the subnode: without it nothing says that the search, which     *)
(* ends only in an array of one, finds what Assign has put there.          *)

Node == [subnode : {<<>>} \cup { <<b>> : b \in Byte }, hollow : BOOLEAN, data : Data \cup {NULL}]
NodeType ==
  /\ tree = [p \in DOMAIN tree |-> tree[p]]
  /\ \A p \in DOMAIN tree : /\ p \in Seq(Byte) /\ tree[p] \in Node
                            /\ tree[p].hollow => tree[p].subnode = <<>>
SubnodeThere ==
  \A p \in DOMAIN tree : \A b \in Byte : tree[p].subnode = <<b>> => Append(p, b) \in DOMAIN tree
BeginningsThere ==
  \A p \in DOMAIN tree : \A k \in 1..Len(p) :
    /\ SubSeq(p, 1, k - 1) \in DOMAIN tree
    /\ tree[SubSeq(p, 1, k - 1)].subnode = <<p[k]>>
Shaped == NodeType /\ SubnodeThere /\ BeginningsThere

-----------------------------------------------------------------------------
(* Following a key *)

Reach(h, p, k) ==
  [node |-> p, used |-> k, meets |-> IF k = Len(h) THEN "end" ELSE Look(p, h[k + 1])]
(* One byte more of h, with f for the turns before.                        *)
Onward(h, f, k) ==
  IF k = 0 THEN Reach(h, Root, 0)
  ELSE IF f[k - 1].meets # "subnode" THEN f[k - 1]
  ELSE Reach(h, Append(f[k - 1].node,
                       tree[f[k - 1].node].subnode[Search(tree[f[k - 1].node].subnode, h[k])]), k)

(* The turns of following a key have a result. *)
LEMMA FollowTurns ==
  ASSUME NEW h, Len(h) \in Nat
  PROVE  \E f : f = [k \in 0..Len(h) |-> Onward(h, f, k)]
<1> DEFINE Fits(n, f) == \A k \in 0..Len(h) : k < n => f[k] = Onward(h, f, k)
           Bad == { n \in Nat : ~ \E f : f = [k \in 0..Len(h) |-> f[k]] /\ Fits(n, f) }
<1>1. Bad = {}
  <2> SUFFICES ASSUME Bad # {} PROVE FALSE
    OBVIOUS
  <2>1. PICK n \in Bad : \A k \in Bad : n <= k
    BY Smallest
  <2>2. n # 0
    <3> DEFINE f == [k \in 0..Len(h) |-> 0]
    <3>2. f = [k \in 0..Len(h) |-> f[k]]
      OBVIOUS
    <3>3. Fits(0, f)
      OBVIOUS
    <3> QED
      BY <3>2, <3>3
  <2>3. n - 1 \in Nat /\ n - 1 \notin Bad
    BY <2>1, <2>2
  <2>4. PICK f : f = [k \in 0..Len(h) |-> f[k]] /\ Fits(n - 1, f)
    BY <2>3
  <2> DEFINE g == [k \in 0..Len(h) |-> IF k < n - 1 THEN f[k] ELSE Onward(h, f, k)]
  <2>5. ASSUME NEW k \in 0..Len(h), k < n
        PROVE  g[k] = Onward(h, g, k)
    <3>1. g[k] = Onward(h, f, k)
      BY <2>4
    <3>2. k # 0 => g[k - 1] = f[k - 1]
      BY <2>3, <2>5
    <3> HIDE DEF g
    <3> QED
      BY <3>1, <3>2 DEF Onward
  <2>6. g = [k \in 0..Len(h) |-> g[k]]
    OBVIOUS
  <2>7. Fits(n, g)
    BY <2>5
  <2> HIDE DEF g
  <2> QED
    BY <2>1, <2>6, <2>7
<1>2. Len(h) + 1 \in Nat /\ Len(h) + 1 \notin Bad
  BY <1>1
<1>3. PICK f : f = [k \in 0..Len(h) |-> f[k]] /\ Fits(Len(h) + 1, f)
  BY <1>2
<1>4. \A k \in 0..Len(h) : f[k] = Onward(h, f, k)
  BY <1>3
<1>5. f = [k \in 0..Len(h) |-> Onward(h, f, k)]
  BY <1>3, <1>4
<1> QED
  BY <1>5

(* Follow takes its turns from the root to the end of the key. *)
LEMMA FollowIs ==
  ASSUME NEW h, Len(h) \in Nat
  PROVE  \E f : /\ f = [k \in 0..Len(h) |-> Onward(h, f, k)]
                /\ Follow(h) = f[Len(h)]
<1> DEFINE L == CHOOSE f : f = [k \in 0..Len(h) |-> Onward(h, f, k)]
<1>1. L = [k \in 0..Len(h) |-> Onward(h, L, k)]
  BY FollowTurns
<1>2. Follow(h) = L[Len(h)]
  BY DEF Follow, Onward, Reach
<1> QED
  BY <1>1, <1>2

(* What the invariant says of one node. *)
LEMMA NodeFacts ==
  ASSUME Shaped, NEW p \in DOMAIN tree
  PROVE  /\ p \in Seq(Byte) /\ tree[p] \in Node
         /\ tree[p].hollow => tree[p].subnode = <<>>
         /\ tree[p].subnode # <<>> => \E a \in Byte : tree[p].subnode = <<a>>
BY DEF Shaped, NodeType, Node

(* What the code meets in a node. *)
LEMMA LookFacts ==
  ASSUME Shaped, NEW p \in DOMAIN tree, NEW b \in Byte
  PROVE  /\ tree[p].subnode = <<>> /\ tree[p].hollow => Look(p, b) = "NULL subnode"
         /\ tree[p].subnode = <<>> /\ ~tree[p].hollow => Look(p, b) = "no subnode"
         /\ tree[p].subnode = <<b>> => Look(p, b) = "subnode" /\ Search(tree[p].subnode, b) = 1
         /\ tree[p].subnode # <<>> /\ tree[p].subnode # <<b>> => Look(p, b) = "endless search"
<1>2. ASSUME NEW a \in Byte, tree[p].subnode = <<a>>
      PROVE  /\ a = b => Look(p, b) = "subnode" /\ Search(tree[p].subnode, b) = 1
             /\ a # b => Look(p, b) = "endless search"
  <2>0. <<a>> # <<>>
    OBVIOUS
  <2>1. ~tree[p].hollow
    BY <1>2, <2>0, NodeFacts
  <2>2. a \in 0..255 /\ b \in 0..255
    BY ByteAssumption
  <2>3. /\ a = b => Search(<<a>>, b) = 1
        /\ a # b => Search(<<a>>, b) = 0
    BY <2>2, SearchOne
  <2>4. <<a>> # <<>>
    OBVIOUS
  <2> QED
    BY <1>2, <2>1, <2>3, <2>4 DEF Look
<1>4. tree[p].subnode = <<b>> => Look(p, b) = "subnode" /\ Search(tree[p].subnode, b) = 1
  BY <1>2
<1>5. ASSUME tree[p].subnode # <<>>, tree[p].subnode # <<b>>
      PROVE  Look(p, b) = "endless search"
  <2>1. PICK a \in Byte : tree[p].subnode = <<a>>
    BY <1>5, NodeFacts
  <2> QED
    BY <1>2, <1>5, <2>1
<1>6. tree[p].subnode # <<>> /\ tree[p].subnode # <<b>> => Look(p, b) = "endless search"
  BY <1>5
<1>7. ASSUME tree[p].subnode = <<>>, tree[p].hollow PROVE Look(p, b) = "NULL subnode"
  BY <1>7 DEF Look
<1>8. ASSUME tree[p].subnode = <<>>, ~tree[p].hollow PROVE Look(p, b) = "no subnode"
  BY <1>8 DEF Look
<1> QED
  BY <1>4, <1>6, <1>7, <1>8

(* Following a key leads to a beginning of it that is a node, the key      *)
(* itself or the last before the code meets something else than a subnode. *)
Found(h, n) ==
  /\ n \in 0..Len(h) /\ SubSeq(h, 1, n) \in DOMAIN tree
  /\ Follow(h).node = SubSeq(h, 1, n) /\ Follow(h).used = n
  /\ n = Len(h) => Follow(h).meets = "end"
  /\ n # Len(h) => /\ Follow(h).meets = Look(SubSeq(h, 1, n), h[n + 1])
                   /\ Look(SubSeq(h, 1, n), h[n + 1]) # "subnode"

LEMMA FollowFacts ==
  ASSUME Shaped, Root \in DOMAIN tree, NEW h \in Seq(Byte)
  PROVE  \E n \in 0..Len(h) : Found(h, n)
<1>1. Len(h) \in Nat
  BY LenProperties
<1>2. PICK f : /\ f = [k \in 0..Len(h) |-> Onward(h, f, k)]
               /\ Follow(h) = f[Len(h)]
  BY <1>1, FollowIs
<1>3. \A k \in 0..Len(h) : f[k] = Onward(h, f, k)
  BY <1>2
<1> DEFINE p(n) == SubSeq(h, 1, n)
           Good(k) == \E n \in 0..k : /\ p(n) \in DOMAIN tree
                                      /\ f[k] = Reach(h, p(n), n)
                                      /\ n # k => f[k].meets # "subnode"
           Bad == { k \in 0..Len(h) : ~Good(k) }
<1>4. \A n \in 0..Len(h) : /\ n = Len(h) => Reach(h, p(n), n).meets = "end"
                           /\ n # Len(h) => Reach(h, p(n), n).meets = Look(p(n), h[n + 1])
                           /\ Reach(h, p(n), n).node = p(n) /\ Reach(h, p(n), n).used = n
  BY DEF Reach
<1>5. Bad = {}
  <2> SUFFICES ASSUME Bad # {} PROVE FALSE
    OBVIOUS
  <2>1. PICK k \in Bad : \A j \in Bad : k <= j
    <3>1. Bad \in SUBSET Nat
      BY <1>1
    <3> QED
      BY <3>1, Smallest
  <2>2. k \in 0..Len(h) /\ ~Good(k)
    BY <2>1
  <2>3. k # 0
    <3>1. f[0] = Reach(h, Root, 0)
      BY <1>1, <1>3 DEF Onward
    <3>2. p(0) = Root
      BY ShortestLongest DEF Root
    <3>3. Good(0)
      <4>1. 0 \in 0..0 /\ p(0) \in DOMAIN tree /\ f[0] = Reach(h, p(0), 0)
        <5>1. 0 \in 0..0
          OBVIOUS
        <5> QED
          BY <3>1, <3>2, <5>1, Zenon
      <4> QED
        BY <4>1
    <3> QED
      BY <2>2, <3>3
  <2>4. k - 1 \in 0..Len(h) /\ Good(k - 1)
    <3>1. k - 1 \in 0..Len(h) /\ ~(k <= k - 1)
      BY <1>1, <2>2, <2>3
    <3> QED
      BY <2>1, <3>1
  <2>5. PICK n \in 0..(k - 1) : /\ p(n) \in DOMAIN tree
                                /\ f[k - 1] = Reach(h, p(n), n)
                                /\ n # k - 1 => f[k - 1].meets # "subnode"
    BY <2>4
  <2>6. CASE f[k - 1].meets # "subnode"
    <3>1. f[k] = f[k - 1]
      BY <1>3, <2>2, <2>3, <2>6 DEF Onward
    <3>2. n \in 0..k
      BY <2>2
    <3>3. Good(k)
      BY <2>5, <2>6, <3>1, <3>2
    <3> QED
      BY <2>2, <3>3
  <2>7. CASE f[k - 1].meets = "subnode"
    <3>1. n = k - 1 /\ p(k - 1) \in DOMAIN tree /\ f[k - 1] = Reach(h, p(k - 1), k - 1)
      BY <2>5, <2>7
    <3>2. k - 1 # Len(h) /\ k - 1 < Len(h) /\ k - 1 + 1 = k
      BY <1>1, <2>2
    <3>3. /\ h[k] \in Byte /\ Append(p(k - 1), h[k]) = p(k)
      BY <2>4, <3>2, NextBeginning
    <3>4. f[k - 1].node = p(k - 1) /\ Look(p(k - 1), h[k]) = "subnode"
      BY <1>4, <2>4, <2>7, <3>1, <3>2
    <3>5. tree[p(k - 1)].subnode = <<h[k]>> /\ Search(tree[p(k - 1)].subnode, h[k]) = 1
      BY <3>1, <3>3, <3>4, LookFacts
    <3>6. f[k] = Reach(h, Append(p(k - 1), <<h[k]>>[1]), k)
      <4>1. Onward(h, f, k)
              = Reach(h, Append(f[k - 1].node,
                       tree[f[k - 1].node].subnode[Search(tree[f[k - 1].node].subnode, h[k])]), k)
        BY <2>3, <2>7 DEF Onward
      <4> QED
        BY <1>3, <2>2, <3>4, <3>5, <4>1
    <3>7. f[k] = Reach(h, p(k), k)
      BY <3>3, <3>6
    <3>8. p(k) \in DOMAIN tree
      BY <3>1, <3>3, <3>5 DEF Shaped, SubnodeThere
    <3>9. Good(k)
      BY <2>2, <3>7, <3>8
    <3> QED
      BY <2>2, <3>9
  <2> QED
    BY <2>6, <2>7
<1>6. Good(Len(h))
  BY <1>1, <1>5
<1>7. PICK n \in 0..Len(h) : /\ p(n) \in DOMAIN tree
                             /\ f[Len(h)] = Reach(h, p(n), n)
                             /\ n # Len(h) => f[Len(h)].meets # "subnode"
  BY <1>6
<1>8. Found(h, n)
  BY <1>2, <1>4, <1>7 DEF Found
<1> QED
  BY <1>8

(* A key is followed to its end when, and only when, it is a node.         *)
LEMMA FollowEnds ==
  ASSUME Shaped, Root \in DOMAIN tree, NEW h \in Seq(Byte)
  PROVE  Follow(h).meets = "end" <=> h \in DOMAIN tree
<1>1. PICK n \in 0..Len(h) : Found(h, n)
  BY FollowFacts
<1>2. Len(h) \in Nat /\ SubSeq(h, 1, Len(h)) = h
  BY LenProperties, ShortestLongest
<1>3. CASE n = Len(h)
  BY <1>1, <1>2, <1>3 DEF Found
<1>4. CASE n # Len(h)
  <2>0. n \in 0..Len(h) /\ Len(h) \in Nat
    BY <1>1, <1>2
  <2>1. n < Len(h) /\ n + 1 \in 1..Len(h) /\ n + 1 - 1 = n
    BY <1>4, <2>0
  <2>2. h[n + 1] \in Byte
    BY <2>1, NextBeginning
  <2>3. h \in DOMAIN tree => tree[SubSeq(h, 1, n)].subnode = <<h[n + 1]>>
    BY <2>1 DEF Shaped, BeginningsThere
  <2>4. h \in DOMAIN tree => Look(SubSeq(h, 1, n), h[n + 1]) = "subnode"
    BY <1>1, <2>2, <2>3, LookFacts DEF Found
  <2>5. Look(SubSeq(h, 1, n), h[n + 1]) # "end"
    BY DEF Look
  <2> QED
    BY <1>1, <1>4, <2>4, <2>5 DEF Found
<1> QED
  BY <1>3, <1>4
-----------------------------------------------------------------------------
(* The shape of the tree *)

(* The invariant gives the shape that the runs check. *)
LEMMA ShapedTree ==
  ASSUME Shaped
  PROVE  TreeShape
<1>1. ASSUME NEW p \in DOMAIN tree, NEW i \in DOMAIN tree[p].subnode
      PROVE  Append(p, tree[p].subnode[i]) \in DOMAIN tree
  <2>1. PICK b \in Byte : tree[p].subnode = <<b>>
    <3>1. tree[p].subnode # <<>>
      BY <1>1
    <3> QED
      BY <3>1, NodeFacts
  <2>2. tree[p].subnode[i] = b
    BY <1>1, <2>1
  <2> QED
    BY <2>1, <2>2 DEF Shaped, SubnodeThere
<1>2. ASSUME NEW p \in DOMAIN tree \ {Root}
      PROVE  /\ Parent(p) \in DOMAIN tree /\ ~tree[Parent(p)].hollow
             /\ Cardinality({ i \in DOMAIN tree[Parent(p)].subnode :
                                tree[Parent(p)].subnode[i] = p[Len(p)] }) = 1
  <2>1. p \in Seq(Byte) /\ p # <<>> /\ Len(p) \in Nat
    BY NodeFacts, LenProperties DEF Root
  <2>2. Len(p) # 0
    BY <2>1, EmptySeq
  <2>3. Len(p) \in 1..Len(p)
    BY <2>1, <2>2
  <2>4. /\ SubSeq(p, 1, Len(p) - 1) \in DOMAIN tree
        /\ tree[SubSeq(p, 1, Len(p) - 1)].subnode = <<p[Len(p)]>>
    BY <2>3 DEF Shaped, BeginningsThere
  <2>5. Parent(p) \in DOMAIN tree /\ tree[Parent(p)].subnode = <<p[Len(p)]>>
    BY <2>4 DEF Parent
  <2> DEFINE b == p[Len(p)]
             I == { i \in DOMAIN tree[Parent(p)].subnode : tree[Parent(p)].subnode[i] = b }
  <2>6. <<b>> # <<>> /\ DOMAIN <<b>> = {1} /\ <<b>>[1] = b
    OBVIOUS
  <2>7. ~tree[Parent(p)].hollow
    BY <2>5, <2>6, NodeFacts
  <2>8. I = {1}
    BY <2>5, <2>6
  <2>9. Cardinality(I) = 1
    BY <2>8, FS_Singleton
  <2> QED
    BY <2>5, <2>7, <2>9
<1> QED
  BY <1>1, <1>2 DEF TreeShape

(* Two nodes whose names part would be below two subnodes of one node.     *)
LEMMA ShapedBranch ==
  ASSUME Shaped
  PROVE  OneBranch
<1> SUFFICES ASSUME NEW p \in DOMAIN tree, NEW q \in DOMAIN tree, NEW k \in 1..Len(p),
                    k <= Len(q), p[k] # q[k]
             PROVE  FALSE
  BY DEF OneBranch
<1>1. p \in Seq(Byte) /\ q \in Seq(Byte) /\ Len(p) \in Nat /\ Len(q) \in Nat
  BY NodeFacts, LenProperties
<1> DEFINE Parts == { i \in 1..Len(p) : i <= Len(q) /\ p[i] # q[i] }
<1>2. PICK i \in Parts : \A j \in Parts : i <= j
  <2>1. k \in Parts /\ Parts \in SUBSET Nat
    BY <1>1
  <2> QED
    BY <2>1, Smallest
<1>3. i \in 1..Len(p) /\ i \in 1..Len(q) /\ p[i] # q[i]
  BY <1>1, <1>2
<1>4. \A j \in 1..(i - 1) : p[j] = q[j]
  <2> SUFFICES ASSUME NEW j \in 1..(i - 1), p[j] # q[j] PROVE FALSE
    OBVIOUS
  <2>1. j \in 1..Len(p) /\ j <= Len(q) /\ ~(i <= j)
    BY <1>1, <1>3
  <2> QED
    BY <1>2, <2>1
<1>5. SubSeq(p, 1, i - 1) = SubSeq(q, 1, i - 1)
  <2>1. i - 1 \in 0..Len(p) /\ i - 1 \in 0..Len(q)
    BY <1>1, <1>3
  <2>2. /\ SubSeq(p, 1, i - 1) \in Seq(Byte) /\ Len(SubSeq(p, 1, i - 1)) = i - 1
        /\ \A j \in 1..(i - 1) : SubSeq(p, 1, i - 1)[j] = p[j]
    BY <1>1, <2>1, Beginning
  <2>3. /\ SubSeq(q, 1, i - 1) \in Seq(Byte) /\ Len(SubSeq(q, 1, i - 1)) = i - 1
        /\ \A j \in 1..(i - 1) : SubSeq(q, 1, i - 1)[j] = q[j]
    BY <1>1, <2>1, Beginning
  <2>4. \A j \in 1..(i - 1) : SubSeq(p, 1, i - 1)[j] = SubSeq(q, 1, i - 1)[j]
    BY <1>4, <2>2, <2>3
  <2> QED
    BY <2>2, <2>3, <2>4, SeqEqual
<1>6. /\ tree[SubSeq(p, 1, i - 1)].subnode = <<p[i]>>
      /\ tree[SubSeq(q, 1, i - 1)].subnode = <<q[i]>>
  BY <1>3 DEF Shaped, BeginningsThere
<1>7. <<p[i]>> = <<q[i]>>
  BY <1>5, <1>6
<1>8. p[i] = q[i]
  BY <1>7
<1> QED
  BY <1>3, <1>8

(* What is followed to its end is a node. *)
LEMMA ShapedRetrieve ==
  ASSUME Shaped
  PROVE  RetrieveFinds
BY FollowEnds, HashesAssumption DEF RetrieveFinds

-----------------------------------------------------------------------------
(* What Assign makes of the tree *)

(* What is left of a key when n bytes are used up. *)
LEMMA RestFacts ==
  ASSUME NEW S, NEW h \in Seq(S), NEW n \in 0..Len(h)
  PROVE  LET rest == SubSeq(h, n + 1, Len(h))
         IN  /\ Len(rest) = Len(h) - n
             /\ \A j \in 1..(Len(h) - n) : rest[j] = h[n + j]
             /\ \A j \in 0..(Len(h) - n) : SubSeq(h, 1, n) \o SubSeq(rest, 1, j) = SubSeq(h, 1, n + j)
<1> DEFINE rest == SubSeq(h, n + 1, Len(h))
<1>0. Len(h) \in Nat /\ n \in Int /\ n \in 0..Len(h)
  BY LenProperties
<1>1. \A i \in (n + 1)..Len(h) : h[i] \in S
  BY <1>0, ElementOfSeq
<1>2. /\ rest \in Seq(S)
      /\ Len(rest) = IF n + 1 <= Len(h) THEN Len(h) - (n + 1) + 1 ELSE 0
      /\ \A i \in 1..(Len(h) - (n + 1) + 1) : rest[i] = h[(n + 1) + i - 1]
  <2>1. n + 1 \in Int /\ Len(h) \in Int
    BY <1>0
  <2> QED
    BY <1>1, <2>1, SubSeqProperties
<1>3. Len(rest) = Len(h) - n
  BY <1>0, <1>2
<1>4. ASSUME NEW j \in 1..(Len(h) - n) PROVE rest[j] = h[n + j]
  <2>1. j \in 1..(Len(h) - (n + 1) + 1) /\ (n + 1) + j - 1 = n + j
    BY <1>0
  <2> QED
    BY <1>2, <2>1
<1>5. ASSUME NEW j \in 0..(Len(h) - n)
      PROVE  SubSeq(h, 1, n) \o SubSeq(rest, 1, j) = SubSeq(h, 1, n + j)
  <2> DEFINE a == SubSeq(h, 1, n)
             b == SubSeq(rest, 1, j)
             c == SubSeq(h, 1, n + j)
  <2>1. a \in Seq(S) /\ Len(a) = n /\ \A i \in 1..n : a[i] = h[i]
    BY Beginning
  <2>2. b \in Seq(S) /\ Len(b) = j /\ \A i \in 1..j : b[i] = rest[i]
    <3>1. j \in 0..Len(rest)
      BY <1>3
    <3> HIDE DEF rest
    <3> QED
      BY <1>2, <3>1, Beginning
  <2>3. c \in Seq(S) /\ Len(c) = n + j /\ \A i \in 1..(n + j) : c[i] = h[i]
    <3>1. n + j \in 0..Len(h)
      BY <1>0
    <3> QED
      BY <3>1, Beginning
  <2> HIDE DEF a, b, c, rest
  <2>4. /\ a \o b \in Seq(S) /\ Len(a \o b) = n + j
        /\ \A i \in 1..(n + j) : (a \o b)[i] = IF i <= n THEN a[i] ELSE b[i - n]
    BY <2>1, <2>2, ConcatProperties
  <2>5. ASSUME NEW i \in 1..(n + j) PROVE (a \o b)[i] = c[i]
    <3>1. CASE i <= n
      <4>1. i \in 1..n
        BY <1>0, <3>1
      <4> QED
        BY <2>1, <2>3, <2>4, <3>1, <4>1
    <3>2. CASE i > n
      <4>1. i - n \in 1..j /\ i - n \in 1..(Len(h) - n) /\ n + (i - n) = i /\ ~(i <= n)
        BY <1>0, <3>2
      <4> QED
        BY <1>4, <2>2, <2>3, <2>4, <4>1
    <3>3. i <= n \/ i > n
      BY <1>0
    <3> QED
      BY <3>1, <3>2, <3>3
  <2>6. a \o b = c
    BY <2>3, <2>4, <2>5, SeqEqual
  <2> QED
    BY <2>6 DEF a, b, c
<1> QED
  BY <1>3, <1>4, <1>5

(* Below the beginning of h that has n bytes, where there is no subnode,   *)
(* m nodes are created, and the last of them becomes e.                    *)
LEMMA GrownFacts ==
  ASSUME Shaped, NEW h \in Seq(Byte), NEW n \in 0..Len(h), NEW m \in 0..(Len(h) - n), NEW e,
         SubSeq(h, 1, n) \in DOMAIN tree, tree[SubSeq(h, 1, n)].subnode = <<>>,
         tree' = Grown(SubSeq(h, 1, n), SubSeq(h, n + 1, Len(h)), m, e)
  PROVE  /\ tree' = [q \in DOMAIN tree' |-> tree'[q]]
         /\ \A q : q \in DOMAIN tree' <=> q \in DOMAIN tree \/ \E j \in 1..m : q = SubSeq(h, 1, n + j)
         /\ \A j \in 1..m : SubSeq(h, 1, n + j) \notin DOMAIN tree
         /\ tree'[SubSeq(h, 1, n + m)] = e
         /\ \A j \in 0..(m - 1) :
              /\ j = 0 => tree'[SubSeq(h, 1, n + j)]
                           = [tree[SubSeq(h, 1, n)] EXCEPT !.subnode = <<h[n + j + 1]>>]
              /\ j # 0 => tree'[SubSeq(h, 1, n + j)] = [Leaf EXCEPT !.subnode = <<h[n + j + 1]>>]
         /\ \A q \in DOMAIN tree : q # SubSeq(h, 1, n) => tree'[q] = tree[q]
<1> DEFINE p == SubSeq(h, 1, n)
           g == SubSeq(h, n + 1, Len(h))
           B(j) == SubSeq(h, 1, n + j)
<1>1. Len(h) \in Nat /\ n \in 0..Len(h) /\ m \in 0..(Len(h) - n) /\ m \in Nat /\ n \in Nat
  BY LenProperties
<1>2. /\ \A j \in 1..(Len(h) - n) : g[j] = h[n + j]
      /\ \A j \in 0..(Len(h) - n) : p \o SubSeq(g, 1, j) = B(j)
  BY RestFacts
<1>3. \A j \in 0..m : p \o SubSeq(g, 1, j) = B(j) /\ Len(B(j)) = n + j
  <2> SUFFICES ASSUME NEW j \in 0..m PROVE p \o SubSeq(g, 1, j) = B(j) /\ Len(B(j)) = n + j
    OBVIOUS
  <2>1. j \in 0..(Len(h) - n) /\ n + j \in 0..Len(h)
    BY <1>1
  <2> QED
    BY <1>2, <2>1, Beginning
<1>4. B(0) = p /\ Len(p) = n
  <2>1. n + 0 = n
    BY <1>1
  <2>2. Len(p) = n
    BY Beginning
  <2> QED
    BY <2>1, <2>2
<1>5. ASSUME NEW j \in 1..m PROVE B(j) \notin DOMAIN tree
  <2> SUFFICES ASSUME B(j) \in DOMAIN tree PROVE FALSE
    OBVIOUS
  <2>1. n + j \in 0..Len(h) /\ n \in 0..(n + j) /\ n + 1 \in 1..(n + j) /\ n + 1 - 1 = n
    BY <1>1
  <2>2. Len(B(j)) = n + j /\ SubSeq(B(j), 1, n) = p
    BY <2>1, Beginning, BeginningOfBeginning
  <2>3. tree[SubSeq(B(j), 1, n)].subnode = <<B(j)[n + 1]>>
    <3>1. n + 1 \in 1..Len(B(j)) /\ B(j) \in DOMAIN tree
      BY <2>1, <2>2
    <3> HIDE DEF B
    <3>2. tree[SubSeq(B(j), 1, n + 1 - 1)].subnode = <<B(j)[n + 1]>>
      BY <3>1 DEF Shaped, BeginningsThere
    <3> QED
      BY <2>1, <3>2
  <2>4. <<B(j)[n + 1]>> # <<>>
    OBVIOUS
  <2> QED
    BY <2>2, <2>3, <2>4
<1>6. ASSUME NEW j \in 0..m, NEW k \in 0..m, B(j) = B(k) PROVE j = k
  <2>1. Len(B(j)) = n + j /\ Len(B(k)) = n + k
    BY <1>3
  <2>2. n + j = n + k
    BY <1>6, <2>1
  <2> HIDE DEF B
  <2> QED
    BY <1>1, <2>2
<1> HIDE DEF g, B, p
<1> DEFINE D == DOMAIN tree \cup { p \o SubSeq(g, 1, j) : j \in 1..m }
           V(q) == IF q = p \o SubSeq(g, 1, m) THEN e
                   ELSE IF \E j \in 0..(m - 1) : q = p \o SubSeq(g, 1, j)
                   THEN [IF q = p THEN tree[p] ELSE Leaf
                           EXCEPT !.subnode = <<g[Len(q) - Len(p) + 1]>>]
                   ELSE tree[q]
<1>7. tree' = [q \in D |-> V(q)]
  BY DEF Grown, g, p
<1>8. \A q : q \in D <=> q \in DOMAIN tree \/ \E j \in 1..m : q = B(j)
  <2>1. \A j \in 1..m : j \in 0..m
    BY <1>1
  <2>2. \A j \in 1..m : p \o SubSeq(g, 1, j) = B(j)
    BY <1>3, <2>1
  <2> QED
    BY <2>2
<1>9. m \in 0..m /\ \A j \in 0..(m - 1) : j \in 0..m /\ j # m
  BY <1>1
<1>10. V(B(m)) = e
  BY <1>3, <1>9
<1>11. ASSUME NEW j \in 0..(m - 1)
       PROVE  V(B(j)) = [IF B(j) = p THEN tree[p] ELSE Leaf EXCEPT !.subnode = <<h[n + j + 1]>>]
  <2>1. j \in 0..m /\ j # m /\ B(j) # B(m) /\ B(j) = p \o SubSeq(g, 1, j) /\ B(m) = p \o SubSeq(g, 1, m)
    BY <1>3, <1>6, <1>9
  <2>2. Len(B(j)) - Len(p) + 1 = j + 1 /\ j + 1 \in 1..(Len(h) - n) /\ n + (j + 1) = n + j + 1
    <3>1. Len(B(j)) = n + j /\ Len(p) = n
      BY <1>3, <1>4, <2>1
    <3>2. n + j - n + 1 = j + 1 /\ j + 1 \in 1..(Len(h) - n) /\ n + (j + 1) = n + j + 1
      BY <1>1
    <3> QED
      BY <3>1, <3>2
  <2>3. g[Len(B(j)) - Len(p) + 1] = h[n + j + 1]
    BY <1>2, <2>2
  <2> QED
    BY <2>1, <2>3
<1>12. ASSUME NEW q \in DOMAIN tree, q # p
       PROVE  V(q) = tree[q]
  <2>1. \A j \in 0..m : q # B(j)
    BY <1>1, <1>4, <1>5, <1>12
  <2> QED
    BY <1>3, <1>9, <2>1
<1>13. B(m) \in D /\ \A j \in 0..(m - 1) : B(j) \in D
  <2>1. p \in DOMAIN tree
    BY DEF p
  <2>2. \A j \in 0..m : j = 0 \/ j \in 1..m
    BY <1>1
  <2> QED
    BY <1>4, <1>8, <1>9, <2>1, <2>2
<1>14. \A j \in 0..(m - 1) : (B(j) = p <=> j = 0)
  BY <1>1, <1>4, <1>6, <1>9
<1> HIDE DEF V, D
<1>15. DOMAIN tree' = D /\ \A q \in D : tree'[q] = V(q)
  BY <1>7
<1>16. tree' = [q \in DOMAIN tree' |-> tree'[q]]
  BY <1>7
<1>17. tree'[B(m)] = e
  BY <1>10, <1>13, <1>15
<1>18. ASSUME NEW j \in 0..(m - 1)
       PROVE  /\ j = 0 => tree'[B(j)] = [tree[p] EXCEPT !.subnode = <<h[n + j + 1]>>]
              /\ j # 0 => tree'[B(j)] = [Leaf EXCEPT !.subnode = <<h[n + j + 1]>>]
  BY <1>11, <1>13, <1>14, <1>15
<1>19. \A q \in DOMAIN tree : q # p => tree'[q] = tree[q]
  BY <1>8, <1>12, <1>15
<1>20. \A q : q \in DOMAIN tree' <=> q \in DOMAIN tree \/ \E j \in 1..m : q = B(j)
  BY <1>8, <1>15
<1> QED
  BY <1>5, <1>16, <1>17, <1>18, <1>19, <1>20 DEF B, p

(* A node that gets a subnode is still a node. *)
LEMMA WithSubnode ==
  ASSUME NEW x \in Node, NEW b \in Byte
  PROVE  /\ [x EXCEPT !.subnode = <<b>>] \in Node
         /\ [x EXCEPT !.subnode = <<b>>].hollow = x.hollow
         /\ [x EXCEPT !.subnode = <<b>>].subnode = <<b>>
         /\ [x EXCEPT !.subnode = <<b>>].data = x.data
BY DEF Node

(* A new node has neither subnodes nor data. *)
LEMMA LeafFacts ==
  Leaf \in Node /\ ~Leaf.hollow /\ Leaf.subnode = <<>> /\ Leaf.data = NULL
BY DEF Leaf, Node

(* The nodes that Assign creates keep the shape of the tree. *)
LEMMA GrownShaped ==
  ASSUME Shaped, NEW h \in Seq(Byte), NEW n \in 0..Len(h), NEW m \in 0..(Len(h) - n), NEW e \in Node,
         e.subnode = <<>>,
         SubSeq(h, 1, n) \in DOMAIN tree, tree[SubSeq(h, 1, n)].subnode = <<>>,
         ~tree[SubSeq(h, 1, n)].hollow,
         tree' = Grown(SubSeq(h, 1, n), SubSeq(h, n + 1, Len(h)), m, e)
  PROVE  Shaped'
<1> DEFINE B(j) == SubSeq(h, 1, n + j)
<1>1. Len(h) \in Nat /\ n \in Nat /\ m \in Nat /\ n + m <= Len(h) /\ n + 0 = n
  BY LenProperties
<1>2. \A j \in 0..m : B(j) \in Seq(Byte) /\ Len(B(j)) = n + j
  <2> SUFFICES ASSUME NEW j \in 0..m PROVE B(j) \in Seq(Byte) /\ Len(B(j)) = n + j
    OBVIOUS
  <2>1. n + j \in 0..Len(h)
    BY <1>1
  <2> QED
    BY <2>1, Beginning
<1>3. /\ tree' = [q \in DOMAIN tree' |-> tree'[q]]
      /\ \A q : q \in DOMAIN tree' <=> q \in DOMAIN tree \/ \E j \in 1..m : q = B(j)
      /\ \A j \in 1..m : B(j) \notin DOMAIN tree
      /\ tree'[B(m)] = e
      /\ \A j \in 0..(m - 1) :
           /\ j = 0 => tree'[B(j)] = [tree[SubSeq(h, 1, n)] EXCEPT !.subnode = <<h[n + j + 1]>>]
           /\ j # 0 => tree'[B(j)] = [Leaf EXCEPT !.subnode = <<h[n + j + 1]>>]
      /\ \A q \in DOMAIN tree : q # SubSeq(h, 1, n) => tree'[q] = tree[q]
  BY GrownFacts
<1>4. B(0) = SubSeq(h, 1, n) /\ B(0) \in DOMAIN tree /\ tree[B(0)].subnode = <<>> /\ ~tree[B(0)].hollow
      /\ tree[B(0)] \in Node
  BY <1>1, NodeFacts
<1>5. ASSUME NEW j \in 0..(m - 1)
      PROVE  /\ h[n + j + 1] \in Byte /\ Append(B(j), h[n + j + 1]) = B(j + 1)
             /\ j \in 0..m /\ j + 1 \in 1..m
  <2>1. n + j \in 0..Len(h) /\ n + j < Len(h) /\ j \in 0..m /\ j + 1 \in 1..m /\ n + (j + 1) = n + j + 1
    BY <1>1
  <2>2. h[n + j + 1] \in Byte /\ Append(SubSeq(h, 1, n + j), h[n + j + 1]) = SubSeq(h, 1, n + j + 1)
    BY <2>1, NextBeginning
  <2> QED
    BY <2>1, <2>2
<1>6. ASSUME NEW k \in 1..Len(h), NEW j \in 0..m, k <= n + j
      PROVE  /\ SubSeq(B(j), 1, k - 1) = SubSeq(h, 1, k - 1) /\ B(j)[k] = h[k]
  <2>1. n + j \in 0..Len(h) /\ k - 1 \in 0..(n + j) /\ k \in 1..(n + j)
    BY <1>1, <1>6
  <2> QED
    BY <2>1, Beginning, BeginningOfBeginning
<1> HIDE DEF B
<1>7. ASSUME NEW j \in 0..(m - 1)
      PROVE  tree'[B(j)] \in Node /\ ~tree'[B(j)].hollow /\ tree'[B(j)].subnode = <<h[n + j + 1]>>
  <2>1. h[n + j + 1] \in Byte
    BY <1>5
  <2>2. CASE j = 0
    <3>1. tree'[B(j)] = [tree[B(0)] EXCEPT !.subnode = <<h[n + j + 1]>>]
      BY <1>3, <1>4, <2>2
    <3> QED
      BY <1>4, <2>1, <3>1, WithSubnode
  <2>3. CASE j # 0
    <3>1. tree'[B(j)] = [Leaf EXCEPT !.subnode = <<h[n + j + 1]>>]
      BY <1>3, <2>3
    <3> QED
      BY <2>1, <3>1, WithSubnode, LeafFacts
  <2> QED
    BY <2>2, <2>3
<1>8. \A j \in 0..m : j = m \/ j \in 0..(m - 1)
  BY <1>1
<1>9. ASSUME NEW q \in DOMAIN tree'
      PROVE  (q \in DOMAIN tree /\ q # B(0)) \/ \E j \in 0..m : q = B(j)
  <2>1. 0 \in 0..m /\ \A j \in 1..m : j \in 0..m
    BY <1>1
  <2> QED
    BY <1>3, <2>1
<1>10. NodeType'
  <2>1. ASSUME NEW q \in DOMAIN tree'
        PROVE  q \in Seq(Byte) /\ tree'[q] \in Node /\ (tree'[q].hollow => tree'[q].subnode = <<>>)
    <3>1. CASE q \in DOMAIN tree /\ q # B(0)
      BY <1>3, <1>4, <3>1, NodeFacts
    <3>2. ASSUME NEW j \in 0..m, q = B(j)
          PROVE  q \in Seq(Byte) /\ tree'[q] \in Node /\ (tree'[q].hollow => tree'[q].subnode = <<>>)
      <4>1. CASE j = m
        BY <1>2, <1>3, <3>2, <4>1
      <4>2. CASE j \in 0..(m - 1)
        BY <1>2, <1>7, <3>2, <4>2
      <4> QED
        BY <1>8, <4>1, <4>2
    <3> QED
      BY <1>9, <3>1, <3>2
  <2> QED
    BY <1>3, <2>1 DEF NodeType
<1>11. SubnodeThere'
  <2> SUFFICES ASSUME NEW q \in DOMAIN tree', NEW b \in Byte, tree'[q].subnode = <<b>>
               PROVE  Append(q, b) \in DOMAIN tree'
    BY DEF SubnodeThere
  <2>0. <<b>> # <<>>
    OBVIOUS
  <2>1. CASE q \in DOMAIN tree /\ q # B(0)
    <3>1. tree[q].subnode = <<b>>
      BY <1>3, <1>4, <2>1
    <3>2. Append(q, b) \in DOMAIN tree
      BY <2>1, <3>1 DEF Shaped, SubnodeThere
    <3> QED
      BY <1>3, <3>2
  <2>2. ASSUME NEW j \in 0..m, q = B(j) PROVE Append(q, b) \in DOMAIN tree'
    <3>1. j # m
      BY <1>3, <2>0, <2>2
    <3>2. j \in 0..(m - 1)
      BY <1>8, <3>1
    <3>3. <<b>> = <<h[n + j + 1]>>
      BY <1>7, <2>2, <3>2
    <3>4. b = h[n + j + 1]
      BY <3>3
    <3>5. Append(q, b) = B(j + 1) /\ j + 1 \in 1..m
      BY <1>5, <2>2, <3>2, <3>4
    <3> QED
      BY <1>3, <3>5
  <2> QED
    BY <1>9, <2>1, <2>2
<1>12. ASSUME NEW q \in DOMAIN tree, NEW k \in 1..Len(q)
       PROVE  /\ SubSeq(q, 1, k - 1) \in DOMAIN tree'
              /\ tree'[SubSeq(q, 1, k - 1)].subnode = <<q[k]>>
  <2>1. /\ SubSeq(q, 1, k - 1) \in DOMAIN tree
        /\ tree[SubSeq(q, 1, k - 1)].subnode = <<q[k]>>
    BY DEF Shaped, BeginningsThere
  <2>2. <<q[k]>> # <<>>
    OBVIOUS
  <2>3. SubSeq(q, 1, k - 1) # B(0)
    BY <1>4, <2>1, <2>2
  <2> QED
    BY <1>3, <1>4, <2>1, <2>3
<1>13. ASSUME NEW j \in 1..m, NEW k \in 1..Len(B(j))
       PROVE  /\ SubSeq(B(j), 1, k - 1) \in DOMAIN tree'
              /\ tree'[SubSeq(B(j), 1, k - 1)].subnode = <<B(j)[k]>>
  <2>0. j \in 0..m /\ 0 \in 0..m
    BY <1>1
  <2>1. Len(B(j)) = n + j /\ Len(B(0)) = n
    BY <1>1, <1>2, <2>0
  <2>2. k \in 1..(n + j)
    BY <2>1
  <2>3. k \in 1..Len(h) /\ k <= n + j
    BY <1>1, <2>0, <2>2
  <2>4. SubSeq(B(j), 1, k - 1) = SubSeq(h, 1, k - 1) /\ B(j)[k] = h[k]
    BY <1>6, <2>0, <2>3
  <2>5. CASE k <= n
    <3>1. k <= n + 0 /\ k \in 1..n
      BY <1>1, <2>2, <2>5
    <3>2. SubSeq(B(0), 1, k - 1) = SubSeq(h, 1, k - 1) /\ B(0)[k] = h[k]
      BY <1>6, <2>0, <2>3, <3>1
    <3>3. k \in 1..Len(B(0))
      BY <2>1, <3>1
    <3> QED
      BY <1>4, <1>12, <2>4, <3>2, <3>3
  <2>6. CASE k > n
    <3>1. k - 1 - n \in 0..(m - 1) /\ n + (k - 1 - n) = k - 1 /\ n + (k - 1 - n) + 1 = k
      BY <1>1, <2>2, <2>6
    <3>2. B(k - 1 - n) = SubSeq(h, 1, k - 1)
      BY <3>1 DEF B
    <3>3. tree'[B(k - 1 - n)].subnode = <<h[k]>>
      BY <1>7, <3>1
    <3>4. B(k - 1 - n) \in DOMAIN tree'
      <4>1. k - 1 - n = 0 \/ k - 1 - n \in 1..m
        BY <1>1, <3>1
      <4> QED
        BY <1>3, <1>4, <4>1
    <3> QED
      BY <2>4, <3>2, <3>3, <3>4
  <2>7. k <= n \/ k > n
    BY <1>1, <2>2
  <2> QED
    BY <2>5, <2>6, <2>7
<1>14. BeginningsThere'
  BY <1>3, <1>12, <1>13 DEF BeginningsThere
<1> QED
  BY <1>10, <1>11, <1>14 DEF Shaped

(* Who keeps the nodes and their subnodes keeps the shape of the tree.     *)
LEMMA SameSubnodes ==
  ASSUME Shaped, tree' = [q \in DOMAIN tree |-> tree'[q]],
         \A q \in DOMAIN tree : /\ tree'[q] \in Node /\ tree'[q].subnode = tree[q].subnode
                                /\ tree'[q].hollow = tree[q].hollow
  PROVE  Shaped'
<1>0. DOMAIN tree' = DOMAIN tree
  OBVIOUS
<1>1. NodeType'
  BY <1>0 DEF Shaped, NodeType
<1>2. SubnodeThere'
  BY <1>0 DEF Shaped, SubnodeThere
<1>3. BeginningsThere'
  BY <1>0 DEF Shaped, BeginningsThere
<1> QED
  BY <1>1, <1>2, <1>3 DEF Shaped

(* A tree that is only a root has the shape. *)
LEMMA OnlyRoot ==
  ASSUME NEW x \in Node, x.subnode = <<>>, tree' = [q \in {Root} |-> x]
  PROVE  Shaped'
<1>1. Root \in Seq(Byte) /\ Len(Root) = 0
  BY EmptySeq DEF Root
<1>2. DOMAIN tree' = {Root} /\ tree'[Root] = x
  OBVIOUS
<1>3. NodeType'
  BY <1>1, <1>2 DEF NodeType
<1>4. SubnodeThere'
  <2>1. \A b \in Byte : <<b>> # <<>>
    OBVIOUS
  <2> QED
    BY <1>2, <2>1 DEF SubnodeThere
<1>5. BeginningsThere'
  <2>1. ASSUME NEW q \in DOMAIN tree' PROVE 1..Len(q) = {}
    BY <1>1, <1>2
  <2> QED
    BY <2>1 DEF BeginningsThere
<1> QED
  BY <1>3, <1>4, <1>5 DEF Shaped

(* So has no tree at all. *)
LEMMA NoTree ==
  ASSUME tree = [p \in {} |-> Leaf]
  PROVE  Shaped
<1>1. DOMAIN tree = {}
  OBVIOUS
<1>2. tree = [p \in DOMAIN tree |-> tree[p]]
  OBVIOUS
<1> QED
  BY <1>1, <1>2 DEF Shaped, NodeType, SubnodeThere, BeginningsThere

(* Setting the data of a node. *)
LEMMA DataSet ==
  ASSUME Shaped, NEW h \in DOMAIN tree, NEW d \in Data \cup {NULL}, tree' = [tree EXCEPT ![h].data = d]
  PROVE  /\ Shaped' /\ DOMAIN tree' = DOMAIN tree /\ tree'[h].data = d
         /\ \A q \in DOMAIN tree : q # h => tree'[q] = tree[q]
<1>1. DOMAIN tree' = DOMAIN tree /\ tree'[h] = [tree[h] EXCEPT !.data = d]
  OBVIOUS
<1>2. \A q \in DOMAIN tree : q # h => tree'[q] = tree[q]
  OBVIOUS
<1>3. tree[h] \in Node /\ \A q \in DOMAIN tree : tree[q] \in Node
  BY NodeFacts
<1>4. ASSUME NEW x \in Node
      PROVE  /\ [x EXCEPT !.data = d] \in Node /\ [x EXCEPT !.data = d].subnode = x.subnode
             /\ [x EXCEPT !.data = d].hollow = x.hollow /\ [x EXCEPT !.data = d].data = d
  BY DEF Node
<1>5. \A q \in DOMAIN tree : /\ tree'[q] \in Node /\ tree'[q].subnode = tree[q].subnode
                             /\ tree'[q].hollow = tree[q].hollow
  BY <1>1, <1>2, <1>3, <1>4
<1>6. tree' = [q \in DOMAIN tree |-> tree'[q]]
  OBVIOUS
<1>7. Shaped'
  BY <1>5, <1>6, SameSubnodes
<1> QED
  BY <1>1, <1>2, <1>3, <1>4, <1>7

(* Pruning takes nothing away from the tree, or leaves the root alone.     *)
LEMMA PrunedFacts ==
  ASSUME Shaped, Root \in DOMAIN tree, tree' = Pruned
  PROVE  /\ Shaped'
         /\ \A q \in DOMAIN tree : tree[q].data # NULL =>
              q \in DOMAIN tree' /\ tree'[q].data = tree[q].data
<1> DEFINE Freed(q) == Len(q) = 1 /\ Unused(q)
           Left == { q \in DOMAIN tree : ~Freed(q) }
           x == [tree[Root] EXCEPT !.subnode = InUse]
<1>1. /\ DOMAIN tree' = Left /\ tree' = [q \in Left |-> tree'[q]]
      /\ \A q \in Left : (q = Root => tree'[q] = x) /\ (q # Root => tree'[q] = tree[q])
  BY DEF Pruned
<1>2. Root \in Left /\ tree[Root] \in Node
  <2>1. Len(Root) = 0
    BY DEF Root
  <2>2. ~Freed(Root)
    BY <2>1
  <2> QED
    BY <2>2, NodeFacts
<1>3. /\ x.data = tree[Root].data /\ x.hollow = tree[Root].hollow /\ x.subnode = InUse
      /\ (InUse = <<>> \/ \E b \in Byte : InUse = <<b>>) => x \in Node
  BY <1>2 DEF Node
<1> HIDE DEF x, Freed, Left
<1>4. \A q \in DOMAIN tree : tree[q].data # NULL => q \in DOMAIN tree' /\ tree'[q].data = tree[q].data
  <2>1. \A q \in DOMAIN tree : tree[q].data # NULL => q \in Left
    BY DEF Left, Freed, Unused
  <2> QED
    BY <1>1, <1>3, <2>1
<1>5. ASSUME NEW q \in DOMAIN tree, NEW k \in 1..Len(q)
      PROVE  /\ SubSeq(q, 1, k - 1) \in DOMAIN tree
             /\ tree[SubSeq(q, 1, k - 1)].subnode = <<q[k]>>
  BY DEF Shaped, BeginningsThere
<1>6. \A b \in Byte : Append(Root, b) = <<b>> /\ Len(<<b>>) = 1 /\ <<b>> # <<>>
  BY DEF Root
<1>7. CASE Left = DOMAIN tree
  <2>1. InUse = tree[Root].subnode
    <3>1. CASE tree[Root].subnode = <<>>
      BY <3>1, InUseNone
    <3>2. ASSUME NEW b \in Byte, tree[Root].subnode = <<b>> PROVE InUse = tree[Root].subnode
      <4>1. <<b>> \in DOMAIN tree
        BY <1>6, <3>2 DEF Shaped, SubnodeThere
      <4>2. ~Unused(<<b>>)
        BY <1>6, <1>7, <4>1 DEF Left, Freed
      <4> QED
        BY <3>2, <4>2, InUseOne
    <3> QED
      BY <3>1, <3>2, NodeFacts
  <2>2. x \in Node
    <3>1. InUse = <<>> \/ \E b \in Byte : InUse = <<b>>
      BY <2>1, NodeFacts
    <3> QED
      BY <1>3, <3>1
  <2>3. \A q \in DOMAIN tree : /\ tree'[q] \in Node /\ tree'[q].subnode = tree[q].subnode
                               /\ tree'[q].hollow = tree[q].hollow
    BY <1>1, <1>3, <1>7, <2>1, <2>2, NodeFacts
  <2>4. Shaped'
    BY <1>1, <1>7, <2>3, SameSubnodes
  <2> QED
    BY <1>4, <2>4
<1>8. CASE Left # DOMAIN tree
  <2>1. PICK r \in DOMAIN tree : Len(r) = 1 /\ Unused(r)
    BY <1>8 DEF Left, Freed
  <2>2. /\ SubSeq(r, 1, 0) = Root /\ tree[Root].subnode = <<r[1]>>
        /\ r \in Seq(Byte) /\ r[1] \in Byte /\ r = <<r[1]>>
    <3>1. r \in Seq(Byte) /\ 1 \in 1..Len(r) /\ 1 - 1 = 0
      BY <2>1, NodeFacts
    <3>2. SubSeq(r, 1, 0) = Root
      BY <3>1, ShortestLongest DEF Root
    <3>3. tree[SubSeq(r, 1, 1 - 1)].subnode = <<r[1]>>
      BY <1>5, <3>1
    <3>4. r[1] \in Byte
      BY <3>1, ElementOfSeq
    <3>5. r = <<r[1]>>
      BY <2>1, <3>1
    <3> QED
      BY <3>1, <3>2, <3>3, <3>4, <3>5
  <2>3. InUse = <<>>
    BY <2>1, <2>2, InUseOne
  <2>4. x \in Node /\ x.subnode = <<>>
    BY <1>3, <2>3
  <2>5. ASSUME NEW q \in DOMAIN tree PROVE q = Root \/ q = r
    <3>0. q \in Seq(Byte) /\ Len(q) \in Nat
      BY NodeFacts, LenProperties
    <3>1. CASE Len(q) = 0
      BY <3>0, <3>1, EmptySeq DEF Root
    <3>2. CASE Len(q) # 0
      <4>1. 1 \in 1..Len(q) /\ 1 - 1 = 0
        BY <3>0, <3>2
      <4>2. tree[SubSeq(q, 1, 0)].subnode = <<q[1]>>
        BY <1>5, <4>1
      <4>3. SubSeq(q, 1, 0) = Root
        BY <3>0, ShortestLongest DEF Root
      <4>4. <<q[1]>> = <<r[1]>>
        BY <2>2, <4>2, <4>3
      <4>5. q[1] = r[1]
        BY <4>4
      <4>6. CASE Len(q) = 1
        <5>1. q = <<q[1]>>
          BY <3>0, <4>6
        <5> QED
          BY <2>2, <4>4, <5>1
      <4>7. CASE Len(q) # 1
        <5>1. 2 \in 1..Len(q) /\ 1 \in 0..Len(q) /\ 2 - 1 = 1
          <6>1. Len(q) \in Nat /\ Len(q) # 0 /\ Len(q) # 1
            BY <3>0, <3>2, <4>7
          <6>2. ASSUME NEW n \in Nat, n # 0, n # 1
                PROVE  2 \in 1..n /\ 1 \in 0..n /\ 2 - 1 = 1
            BY <6>2
          <6> QED
            BY <6>1, <6>2
        <5>2. tree[SubSeq(q, 1, 1)].subnode = <<q[2]>>
          BY <1>5, <5>1
        <5>3. SubSeq(q, 1, 1) = r
          <6>1. /\ SubSeq(q, 1, 1) \in Seq(Byte) /\ Len(SubSeq(q, 1, 1)) = 1
                /\ \A i \in 1..1 : SubSeq(q, 1, 1)[i] = q[i]
            BY <3>0, <5>1, Beginning
          <6>2. \A i \in 1..1 : SubSeq(q, 1, 1)[i] = r[i]
            BY <4>5, <6>1
          <6> QED
            BY <2>1, <2>2, <6>1, <6>2, SeqEqual
        <5>4. <<q[2]>> # <<>>
          OBVIOUS
        <5>5. tree[r].subnode = <<>>
          BY <2>1 DEF Unused
        <5> QED
          BY <5>2, <5>3, <5>4, <5>5
      <4> QED
        BY <4>6, <4>7
    <3> QED
      BY <3>1, <3>2
  <2>6. Left = {Root}
    BY <1>2, <2>1, <2>5 DEF Left, Freed
  <2>7. tree' = [q \in {Root} |-> x]
    BY <1>1, <2>6
  <2>8. Shaped'
    BY <2>4, <2>7, OnlyRoot
  <2> QED
    BY <1>4, <2>8
<1> QED
  BY <1>7, <1>8

(* The ways of Assign: the key is a node, the nodes that are missing are   *)
(* created up to one of them, or the code stops.                           *)
AllMade(h, d, n, m, e) == m = Len(h) - n /\ e.data = d
SomeMade(h, n, m, e) == m < Len(h) - n /\ e.data = (IF m = 0 THEN tree[SubSeq(h, 1, n)].data ELSE NULL)

LEMMA AssignCases ==
  ASSUME Shaped, NEW h \in Seq(Byte), NEW d \in Data, HashTree_Assign(h, d)
  PROVE  \/ h \in DOMAIN tree /\ tree' = [tree EXCEPT ![h].data = d]
         \/ /\ h \notin DOMAIN tree
            /\ \E n \in 0..Len(h) : \E m \in 0..(Len(h) - n), e \in Node :
                 /\ n # Len(h) /\ SubSeq(h, 1, n) \in DOMAIN tree
                 /\ tree[SubSeq(h, 1, n)].subnode = <<>> /\ ~tree[SubSeq(h, 1, n)].hollow
                 /\ e.subnode = <<>>
                 /\ tree' = Grown(SubSeq(h, 1, n), SubSeq(h, n + 1, Len(h)), m, e)
                 /\ AllMade(h, d, n, m, e) \/ SomeMade(h, n, m, e)
         \/ tree' = tree /\ fault' # "none"
<1>0. Root \in DOMAIN tree /\ fault = "none"
  BY DEF HashTree_Assign, Runs
<1>1. PICK n \in 0..Len(h) : Found(h, n)
  BY <1>0, FollowFacts
<1>2. Len(h) \in Nat /\ n \in 0..Len(h)
  BY <1>1, LenProperties
<1> DEFINE at == Follow(h)
           rest == SubSeq(h, at.used + 1, Len(h))
           p == SubSeq(h, 1, n)
<1>3. at.node = p /\ at.used = n /\ p \in DOMAIN tree /\ tree[p] \in Node
  BY <1>1, NodeFacts DEF Found
<1>4. CASE at.meets = "end" /\ tree' = [tree EXCEPT ![at.node].data = d]
  <2>1. h \in DOMAIN tree
    BY <1>0, <1>4, FollowEnds
  <2>2. n = Len(h)
    <3> SUFFICES ASSUME n # Len(h) PROVE FALSE
      OBVIOUS
    <3>1. at.meets = Look(p, h[n + 1])
      BY <1>1 DEF Found
    <3>2. Look(p, h[n + 1]) # "end"
      BY DEF Look
    <3> QED
      BY <1>4, <3>1, <3>2
  <2>3. p = h
    BY <2>2, ShortestLongest
  <2> QED
    BY <1>3, <1>4, <2>1, <2>3
<1>5. ASSUME at.meets = "no subnode"
      PROVE  /\ n # Len(h) /\ h \notin DOMAIN tree /\ tree[p].subnode = <<>> /\ ~tree[p].hollow
             /\ n < Len(h) /\ Len(rest) = Len(h) - n /\ rest = SubSeq(h, n + 1, Len(h))
  <2>1. n # Len(h)
    BY <1>1, <1>5 DEF Found
  <2>2. at.meets = Look(p, h[n + 1])
    BY <1>1, <2>1 DEF Found
  <2>3. n < Len(h)
    BY <1>2, <2>1
  <2>4. h[n + 1] \in Byte
    BY <1>2, <2>3, NextBeginning
  <2>5. tree[p].subnode = <<>> /\ ~tree[p].hollow
    <3>1. /\ tree[p].subnode = <<>> /\ tree[p].hollow => Look(p, h[n + 1]) = "NULL subnode"
          /\ tree[p].subnode = <<h[n + 1]>> => Look(p, h[n + 1]) = "subnode"
          /\ tree[p].subnode # <<>> /\ tree[p].subnode # <<h[n + 1]>>
               => Look(p, h[n + 1]) = "endless search"
      BY <1>3, <2>4, LookFacts
    <3> QED
      BY <1>5, <2>2, <3>1
  <2>6. h \notin DOMAIN tree
    BY <1>0, <1>5, FollowEnds
  <2>7. Len(SubSeq(h, n + 1, Len(h))) = Len(h) - n
    BY <1>2, RestFacts
  <2> QED
    BY <1>3, <2>1, <2>3, <2>5, <2>6, <2>7
<1>6. CASE at.meets = "no subnode" /\ tree' = Grown(at.node, rest, Len(rest), [Leaf EXCEPT !.data = d])
  <2> DEFINE e == [Leaf EXCEPT !.data = d]
  <2>1. e \in Node /\ e.subnode = <<>> /\ e.data = d
    BY DEF Node, Leaf
  <2>2. Len(h) - n \in 0..(Len(h) - n)
    BY <1>2
  <2> HIDE DEF e
  <2>3. tree' = Grown(p, SubSeq(h, n + 1, Len(h)), Len(h) - n, e)
    BY <1>3, <1>5, <1>6 DEF e
  <2>4. AllMade(h, d, n, Len(h) - n, e)
    BY <2>1 DEF AllMade
  <2> QED
    BY <1>2, <1>3, <1>5, <1>6, <2>1, <2>2, <2>3, <2>4
<1>7. ASSUME at.meets = "no subnode", NEW m \in 0..(Len(rest) - 1), NEW array \in BOOLEAN,
             tree' = Grown(at.node, rest, m, [(IF m = 0 THEN tree[at.node] ELSE Leaf) EXCEPT !.hollow = array])
      PROVE  /\ h \notin DOMAIN tree
             /\ \E k \in 0..(Len(h) - n), e \in Node :
                 /\ n # Len(h) /\ SubSeq(h, 1, n) \in DOMAIN tree
                 /\ tree[SubSeq(h, 1, n)].subnode = <<>> /\ ~tree[SubSeq(h, 1, n)].hollow
                 /\ e.subnode = <<>>
                 /\ tree' = Grown(SubSeq(h, 1, n), SubSeq(h, n + 1, Len(h)), k, e)
                 /\ AllMade(h, d, n, k, e) \/ SomeMade(h, n, k, e)
  <2> DEFINE last == IF m = 0 THEN tree[p] ELSE Leaf
             e == [last EXCEPT !.hollow = array]
  <2>1. last \in Node /\ last.subnode = <<>> /\ last.data = IF m = 0 THEN tree[p].data ELSE NULL
    BY <1>3, <1>5, <1>7, LeafFacts
  <2>2. e \in Node /\ e.subnode = <<>> /\ e.data = last.data
    <3> HIDE DEF last
    <3> QED
      BY <2>1 DEF Node
  <2>3. m \in 0..(Len(h) - n) /\ m < Len(h) - n
    <3>1. m \in 0..(Len(rest) - 1) /\ Len(rest) = Len(h) - n
      BY <1>5, <1>7
    <3> HIDE DEF rest
    <3>2. m \in 0..(Len(h) - n - 1)
      BY <3>1
    <3> QED
      BY <1>2, <3>2
  <2>4. tree' = Grown(p, SubSeq(h, n + 1, Len(h)), m, e)
    BY <1>3, <1>5, <1>7
  <2> HIDE DEF e, last
  <2>5. SomeMade(h, n, m, e)
    BY <2>1, <2>2, <2>3 DEF SomeMade
  <2> QED
    BY <1>3, <1>5, <1>7, <2>2, <2>3, <2>4, <2>5
<1>8. CASE at.meets \in {"NULL subnode", "endless search"} /\ fault' = at.meets /\ tree' = tree
  BY <1>8
<1>9. \/ at.meets = "end" /\ tree' = [tree EXCEPT ![at.node].data = d]
      \/ at.meets = "no subnode" /\ tree' = Grown(at.node, rest, Len(rest), [Leaf EXCEPT !.data = d])
      \/ /\ at.meets = "no subnode"
         /\ \E m \in 0..(Len(rest) - 1), array \in BOOLEAN :
              tree' = Grown(at.node, rest, m, [(IF m = 0 THEN tree[at.node] ELSE Leaf) EXCEPT !.hollow = array])
      \/ at.meets \in {"NULL subnode", "endless search"} /\ fault' = at.meets /\ tree' = tree
  BY DEF HashTree_Assign
<1> HIDE DEF at, rest, p
<1> QED
  BY <1>2, <1>4, <1>6, <1>7, <1>8, <1>9

(* What the nodes that are created make of the entries. *)
LEMMA GrownEntries ==
  ASSUME Shaped, NEW h \in Seq(Byte), NEW n \in 0..Len(h), NEW m \in 0..(Len(h) - n), NEW e \in Node,
         m = 0 => e.data = tree[SubSeq(h, 1, n)].data,
         SubSeq(h, 1, n) \in DOMAIN tree, tree[SubSeq(h, 1, n)].subnode = <<>>,
         tree' = Grown(SubSeq(h, 1, n), SubSeq(h, n + 1, Len(h)), m, e)
  PROVE  /\ \A q : q # SubSeq(h, 1, n + m) => Entry(q)' = Entry(q)
         /\ Entry(SubSeq(h, 1, n + m))' = e.data
         /\ m = 0 => Entry(SubSeq(h, 1, n + m)) = e.data
         /\ m # 0 => Entry(SubSeq(h, 1, n + m)) = NULL
<1> DEFINE B(j) == SubSeq(h, 1, n + j)
           p == SubSeq(h, 1, n)
<1>1. Len(h) \in Nat /\ n \in Nat /\ m \in Nat /\ n + 0 = n
  BY LenProperties
<1>2. /\ tree' = [q \in DOMAIN tree' |-> tree'[q]]
      /\ \A q : q \in DOMAIN tree' <=> q \in DOMAIN tree \/ \E j \in 1..m : q = B(j)
      /\ \A j \in 1..m : B(j) \notin DOMAIN tree
      /\ tree'[B(m)] = e
      /\ \A j \in 0..(m - 1) :
           /\ j = 0 => tree'[B(j)] = [tree[SubSeq(h, 1, n)] EXCEPT !.subnode = <<h[n + j + 1]>>]
           /\ j # 0 => tree'[B(j)] = [Leaf EXCEPT !.subnode = <<h[n + j + 1]>>]
      /\ \A q \in DOMAIN tree : q # SubSeq(h, 1, n) => tree'[q] = tree[q]
  BY GrownFacts
<1>3. B(0) = p /\ p \in DOMAIN tree /\ tree[p] \in Node
  BY <1>1, NodeFacts
<1>4. ASSUME NEW x \in Node, NEW b PROVE [x EXCEPT !.subnode = <<b>>].data = x.data
  BY DEF Node
<1>p. SubSeq(h, 1, n) = p
  OBVIOUS
<1> HIDE DEF B, p
<1>5. m # 0 => m \in 1..m
  BY <1>1
<1>6. B(m) \in DOMAIN tree'
  BY <1>2, <1>3, <1>5
<1>7. Entry(B(m))' = e.data
  BY <1>2, <1>6 DEF Entry
<1>8. m = 0 => Entry(B(m)) = e.data
  BY <1>3 DEF Entry, p
<1>9. m # 0 => Entry(B(m)) = NULL
  BY <1>2, <1>5 DEF Entry
<1>10. ASSUME NEW q, q # B(m) PROVE Entry(q)' = Entry(q)
  <2>1. CASE q \in DOMAIN tree /\ q # p
    BY <1>2, <1>p, <2>1 DEF Entry
  <2>2. CASE q = p
    <3>1. m # 0
      BY <1>3, <1>10, <2>2
    <3>2. 0 \in 0..(m - 1)
      BY <1>1, <3>1
    <3>3. tree'[p] = [tree[p] EXCEPT !.subnode = <<h[n + 0 + 1]>>]
      BY <1>2, <1>3, <1>p, <3>2
    <3>4. tree'[p].data = tree[p].data
      BY <1>3, <3>3 DEF Node
    <3>5. p \in DOMAIN tree'
      BY <1>2, <1>3
    <3> QED
      BY <1>3, <2>2, <3>4, <3>5 DEF Entry
  <2>3. ASSUME NEW j \in 1..m, q = B(j) PROVE Entry(q)' = Entry(q)
    <3>1. j # m /\ j \in 0..(m - 1) /\ j # 0
      <4>1. j # m
        BY <1>10, <2>3
      <4> QED
        BY <1>1, <4>1
    <3>2. tree'[q] = [Leaf EXCEPT !.subnode = <<h[n + j + 1]>>]
      BY <1>2, <2>3, <3>1
    <3>3. tree'[q].data = NULL
      BY <1>4, <3>2, LeafFacts
    <3>4. q \in DOMAIN tree' /\ q \notin DOMAIN tree
      BY <1>2, <2>3
    <3> QED
      BY <3>3, <3>4 DEF Entry
  <2>4. CASE q \notin DOMAIN tree /\ ~ \E j \in 1..m : q = B(j)
    BY <1>2, <2>4 DEF Entry
  <2> QED
    BY <2>1, <2>2, <2>3, <2>4
<1> QED
  BY <1>7, <1>8, <1>9, <1>10 DEF B

(* Assign sets its entry or, when a malloc fails, no entry at all.         *)
LEMMA AssignEntries ==
  ASSUME Shaped, NEW h \in Seq(Byte), NEW d \in Data, HashTree_Assign(h, d)
  PROVE  /\ Shaped'
         /\ \A g : \/ Entry(g)' = Entry(g) /\ (g = h => Entry(g) = NULL \/ fault' # "none")
                   \/ g = h /\ Entry(g)' = d
<1>1. CASE h \in DOMAIN tree /\ tree' = [tree EXCEPT ![h].data = d]
  <2>1. /\ Shaped' /\ DOMAIN tree' = DOMAIN tree /\ tree'[h].data = d
        /\ \A q \in DOMAIN tree : q # h => tree'[q] = tree[q]
    BY <1>1, DataSet
  <2> QED
    BY <1>1, <2>1 DEF Entry
<1>2. ASSUME h \notin DOMAIN tree, NEW n \in 0..Len(h), NEW m \in 0..(Len(h) - n), NEW e \in Node,
             n # Len(h), SubSeq(h, 1, n) \in DOMAIN tree,
             tree[SubSeq(h, 1, n)].subnode = <<>>, ~tree[SubSeq(h, 1, n)].hollow,
             e.subnode = <<>>,
             tree' = Grown(SubSeq(h, 1, n), SubSeq(h, n + 1, Len(h)), m, e),
             AllMade(h, d, n, m, e) \/ SomeMade(h, n, m, e)
      PROVE  /\ Shaped'
             /\ \A g : \/ Entry(g)' = Entry(g) /\ (g = h => Entry(g) = NULL \/ fault' # "none")
                       \/ g = h /\ Entry(g)' = d
  <2>1. Len(h) \in Nat /\ n \in Nat /\ m \in Nat
    BY LenProperties
  <2>2. Shaped'
    BY <1>2, GrownShaped
  <2>3. m = 0 => e.data = tree[SubSeq(h, 1, n)].data
    <3>1. Len(h) - n # 0
      BY <1>2, <2>1
    <3> QED
      BY <1>2, <3>1 DEF AllMade, SomeMade
  <2> DEFINE q == SubSeq(h, 1, n + m)
  <2>4. /\ \A g : g # q => Entry(g)' = Entry(g)
        /\ Entry(q)' = e.data
        /\ m = 0 => Entry(q) = e.data
        /\ m # 0 => Entry(q) = NULL
    BY <1>2, <2>3, GrownEntries
  <2>5. Entry(h) = NULL
    BY <1>2 DEF Entry
  <2>6. CASE AllMade(h, d, n, m, e)
    <3>1. n + m = Len(h)
      BY <2>1, <2>6 DEF AllMade
    <3>2. q = h
      BY <3>1, ShortestLongest
    <3> QED
      BY <2>2, <2>4, <2>6, <3>2 DEF AllMade
  <2>7. CASE SomeMade(h, n, m, e)
    <3>1. Entry(q)' = Entry(q)
      BY <2>4, <2>7 DEF SomeMade
    <3> HIDE DEF q
    <3> QED
      BY <2>2, <2>4, <2>5, <3>1
  <2> QED
    BY <1>2, <2>6, <2>7
<1>3. CASE tree' = tree /\ fault' # "none"
  <2>1. Shaped'
    BY <1>3 DEF Shaped, NodeType, SubnodeThere, BeginningsThere
  <2> QED
    BY <1>3, <2>1 DEF Entry
<1> QED
  BY <1>1, <1>2, <1>3, AssignCases

-----------------------------------------------------------------------------
(* The invariant is inductive *)

(* A step that leaves the tree alone keeps the shape. *)
LEMMA SameTree ==
  ASSUME Shaped, tree' = tree
  PROVE  Shaped'
BY DEF Shaped, NodeType, SubnodeThere, BeginningsThere

(* The other calls of the client: each keeps the shape, and none but Free  *)
(* takes data away but the one for the empty key, from the root.           *)
LEMMA OtherCalls ==
  ASSUME Shaped, NEW h,
         HashTree_Init \/ HashTree_Free \/ HashTree_Retrive(h) \/ HashTree_Release(h)
  PROVE  /\ Shaped'
         /\ Root \in DOMAIN tree' =>
              \A g : g # <<>> /\ Entry(g) # NULL => Entry(g)' # NULL
<1>0. ASSUME tree' = tree
      PROVE  Shaped' /\ \A g : Entry(g) # NULL => Entry(g)' # NULL
  <2>1. Shaped'
    BY <1>0, SameTree
  <2> QED
    BY <1>0, <2>1 DEF Entry
<1>1. CASE HashTree_Init
  <2>1. Shaped'
    BY <1>1, OnlyRoot, LeafFacts DEF HashTree_Init
  <2>2. ASSUME NEW q \in DOMAIN tree PROVE FALSE
    <3>1. q \in Seq(Byte) /\ Len(q) \in Nat
      BY NodeFacts, LenProperties
    <3>2. q # <<>>
      BY <1>1 DEF HashTree_Init, Root
    <3>3. 1 \in 1..Len(q) /\ 1 - 1 = 0
      <4>1. Len(q) # 0
        BY <3>1, <3>2, EmptySeq
      <4> QED
        BY <3>1, <4>1
    <3>4. SubSeq(q, 1, 0) \in DOMAIN tree
      BY <3>3 DEF Shaped, BeginningsThere
    <3>5. SubSeq(q, 1, 0) = Root
      BY <3>1, ShortestLongest DEF Root
    <3> QED
      BY <1>1, <3>4, <3>5 DEF HashTree_Init
  <2>3. \A g : Entry(g) = NULL
    BY <2>2 DEF Entry
  <2> QED
    BY <2>1, <2>3
<1>2. CASE HashTree_Free
  <2>1. CASE tree' = [p \in {} |-> Leaf]
    <3>1. Shaped'
      <4>1. DOMAIN tree' = {} /\ tree' = [p \in DOMAIN tree' |-> tree'[p]]
        BY <2>1
      <4> QED
        BY <4>1 DEF Shaped, NodeType, SubnodeThere, BeginningsThere
    <3>2. DOMAIN tree' = {}
      BY <2>1
    <3> QED
      BY <3>1, <3>2
  <2>2. CASE tree' = tree
    BY <1>0, <2>2
  <2> QED
    BY <1>2, <2>1, <2>2 DEF HashTree_Free
<1>3. CASE HashTree_Retrive(h)
  BY <1>0, <1>3 DEF HashTree_Retrive
<1>4. CASE HashTree_Release(h)
  <2>0. Root \in DOMAIN tree
    BY <1>4 DEF HashTree_Release, Runs
  <2>1. CASE tree' = [tree EXCEPT ![Root].data = NULL]
    <3>1. /\ Shaped' /\ DOMAIN tree' = DOMAIN tree
          /\ \A q \in DOMAIN tree : q # Root => tree'[q] = tree[q]
      BY <2>0, <2>1, DataSet
    <3>2. \A g : g # <<>> => Entry(g)' = Entry(g)
      BY <3>1 DEF Entry, Root
    <3> QED
      BY <3>1, <3>2
  <2>2. CASE tree' = Pruned
    <3>1. /\ Shaped'
          /\ \A q \in DOMAIN tree : tree[q].data # NULL =>
               q \in DOMAIN tree' /\ tree'[q].data = tree[q].data
      BY <2>0, <2>2, PrunedFacts
    <3> QED
      BY <3>1 DEF Entry
  <2>3. CASE tree' = tree
    BY <1>0, <2>3
  <2> QED
    BY <1>4, <2>1, <2>2, <2>3 DEF HashTree_Release
<1> QED
  BY <1>1, <1>2, <1>3, <1>4

(* There is no tree in the beginning. *)
LEMMA ShapedInit == ForeachInit => Shaped
BY NoTree DEF ForeachInit, Init

(* A step keeps the shape, and the walk of the threads keeps the tree.     *)
LEMMA ShapedStep ==
  ASSUME Shaped, [ForeachNext]_allVars
  PROVE  /\ Shaped'
         /\ Root \in DOMAIN tree' =>
              \A g : g # <<>> /\ Entry(g) # NULL => Entry(g)' # NULL
<1> DEFINE Kept == \A g : g # <<>> /\ Entry(g) # NULL => Entry(g)' # NULL
<1>1. ASSUME tree' = tree
      PROVE  Shaped' /\ Kept
  <2>1. Shaped'
    BY <1>1, SameTree
  <2> QED
    BY <1>1, <2>1 DEF Entry
<1>2. CASE Next
  <2>1. CASE HashTree_Init \/ HashTree_Free
    BY <2>1, OtherCalls
  <2>2. ASSUME NEW h \in Hashes, HashTree_Retrive(h) \/ HashTree_Release(h)
        PROVE  Shaped' /\ (Root \in DOMAIN tree' => Kept)
    BY <2>2, OtherCalls
  <2>3. ASSUME NEW h \in Hashes, NEW d \in Data, HashTree_Assign(h, d)
        PROVE  Shaped' /\ Kept
    <3>1. h \in Seq(Byte)
      BY HashesAssumption
    <3>2. Shaped' /\ \A g : Entry(g)' = Entry(g) \/ Entry(g)' = d
      BY <2>3, <3>1, AssignEntries
    <3> QED
      BY <3>2, NullAssumption
  <2>4. CASE \E h \in Hashes, d \in Data : HashTree_Assign(h, d)
    BY <2>3, <2>4
  <2> QED
    BY <1>2, <2>1, <2>2, <2>4, Zenon DEF Next
<1>3. CASE HashTree_Foreach
  BY <1>1, <1>3 DEF HashTree_Foreach, vars
<1>4. ASSUME NEW th \in Thread, Queue_Next(th) \/ Callback(th)
      PROVE  Shaped' /\ Kept
  BY <1>1, <1>4 DEF Queue_Next, Callback, vars
<1>5. CASE UNCHANGED allVars
  BY <1>1, <1>5 DEF allVars, vars
<1> QED
  BY <1>2, <1>3, <1>4, <1>5 DEF ForeachNext

(* The shape holds in every state that the program can be in. *)
LEMMA ShapedHolds == ForeachSpec => []Shaped
<1>1. Shaped /\ [ForeachNext]_allVars => Shaped'
  BY ShapedStep
<1> QED
  BY <1>1, ShapedInit, PTL DEF ForeachSpec

-----------------------------------------------------------------------------
(* The tree is finite: its keys have a greatest length. *)
Bounded == \E n \in Nat : \A p \in DOMAIN tree : Len(p) <= n

LEMMA Widened ==
  ASSUME Shaped', Bounded, NEW m \in Nat,
         \A p \in DOMAIN tree' : p \in DOMAIN tree \/ Len(p) <= m
  PROVE  Bounded'
<1>0. \A p \in DOMAIN tree' : Len(p) \in Nat
  BY LenProperties DEF Shaped, NodeType
<1>1. PICK n \in Nat : \A p \in DOMAIN tree : Len(p) <= n
  BY DEF Bounded
<1>2. \A p \in DOMAIN tree' : Len(p) <= n + m
  BY <1>0, <1>1
<1>3. n + m \in Nat
  OBVIOUS
<1> QED
  BY <1>2, <1>3 DEF Bounded

LEMMA GrownLength ==
  ASSUME Shaped, NEW h \in Seq(Byte), NEW n \in 0..Len(h), NEW m \in 0..(Len(h) - n), NEW e,
         SubSeq(h, 1, n) \in DOMAIN tree, tree[SubSeq(h, 1, n)].subnode = <<>>,
         tree' = Grown(SubSeq(h, 1, n), SubSeq(h, n + 1, Len(h)), m, e)
  PROVE  \A q \in DOMAIN tree' : q \in DOMAIN tree \/ Len(q) <= Len(h)
<1>1. /\ tree' = [q \in DOMAIN tree' |-> tree'[q]]
      /\ \A q : q \in DOMAIN tree' <=> q \in DOMAIN tree \/ \E j \in 1..m : q = SubSeq(h, 1, n + j)
      /\ \A j \in 1..m : SubSeq(h, 1, n + j) \notin DOMAIN tree
      /\ tree'[SubSeq(h, 1, n + m)] = e
      /\ \A j \in 0..(m - 1) :
           /\ j = 0 => tree'[SubSeq(h, 1, n + j)]
                        = [tree[SubSeq(h, 1, n)] EXCEPT !.subnode = <<h[n + j + 1]>>]
           /\ j # 0 => tree'[SubSeq(h, 1, n + j)] = [Leaf EXCEPT !.subnode = <<h[n + j + 1]>>]
      /\ \A q \in DOMAIN tree : q # SubSeq(h, 1, n) => tree'[q] = tree[q]
  BY GrownFacts
<1>2. ASSUME NEW j \in 1..m PROVE Len(SubSeq(h, 1, n + j)) <= Len(h)
  <2>1. Len(h) \in Nat
    BY LenProperties
  <2>2. n + j \in 0..Len(h) /\ n + j <= Len(h)
    BY <2>1
  <2>3. Len(SubSeq(h, 1, n + j)) = n + j
    BY <2>2, Beginning
  <2> QED
    BY <2>2, <2>3
<1> QED
  BY <1>1, <1>2

(* Only an assignment makes nodes, and none longer than its key. *)
LEMMA BoundedStep ==
  ASSUME Shaped, Shaped', Bounded, [ForeachNext]_allVars
  PROVE  Bounded'
<1>1. ASSUME \A p \in DOMAIN tree' : p \in DOMAIN tree PROVE Bounded'
  <2>1. \A p \in DOMAIN tree' : p \in DOMAIN tree \/ Len(p) <= 0
    BY <1>1
  <2> QED
    BY <2>1, Widened
<1>2. CASE HashTree_Init
  <2>1. DOMAIN tree' = {<<>>}
    BY <1>2 DEF HashTree_Init, Root
  <2>2. \A p \in DOMAIN tree' : Len(p) <= 0
    BY <2>1
  <2> QED
    BY <2>2, Widened
<1>3. ASSUME HashTree_Free \/ \E h \in Hashes : HashTree_Retrive(h) \/ HashTree_Release(h)
      PROVE  \A p \in DOMAIN tree' : p \in DOMAIN tree
  BY <1>3 DEF HashTree_Free, HashTree_Retrive, HashTree_Release, Pruned
<1>4. ASSUME NEW h \in Hashes, NEW d \in Data, HashTree_Assign(h, d) PROVE Bounded'
  <2>1. h \in Seq(Byte) /\ Len(h) \in Nat
    BY HashesAssumption, LenProperties
  <2>2. CASE h \in DOMAIN tree /\ tree' = [tree EXCEPT ![h].data = d]
    BY <1>1, <2>2
  <2>3. ASSUME NEW n \in 0..Len(h), NEW m \in 0..(Len(h) - n), NEW e \in Node,
               SubSeq(h, 1, n) \in DOMAIN tree, tree[SubSeq(h, 1, n)].subnode = <<>>,
               tree' = Grown(SubSeq(h, 1, n), SubSeq(h, n + 1, Len(h)), m, e)
        PROVE  Bounded'
    <3>1. \A q \in DOMAIN tree' : q \in DOMAIN tree \/ Len(q) <= Len(h)
      BY <2>1, <2>3, GrownLength
    <3> QED
      BY <2>1, <3>1, Widened
  <2>4. CASE tree' = tree
    BY <1>1, <2>4
  <2> QED
    BY <1>4, <2>1, <2>2, <2>3, <2>4, AssignCases
<1>5. CASE tree' = tree
  BY <1>1, <1>5
<1>6. \/ HashTree_Init
      \/ HashTree_Free \/ \E h \in Hashes : HashTree_Retrive(h) \/ HashTree_Release(h)
      \/ \E h \in Hashes, d \in Data : HashTree_Assign(h, d)
      \/ tree' = tree
  BY DEF ForeachNext, Next, HashTree_Foreach, Queue_Next, Callback, allVars, vars
<1> QED
  BY <1>1, <1>2, <1>3, <1>4, <1>5, <1>6

LEMMA BoundedInit == ForeachInit => Bounded
BY DEF ForeachInit, Init, Bounded

-----------------------------------------------------------------------------
(* The stack of the walk *)

LEMMA FrameFacts ==
  ASSUME Shaped
  PROVE  /\ \A x \in Frames : /\ x.node \in DOMAIN tree /\ x.last = 0
                              /\ Len(x.node) \in Nat /\ tree[x.node] \in Node
         /\ \A p \in DOMAIN tree : Frame(p) \in Frames /\ Frame(p).node = p
<1>1. ASSUME NEW x \in Frames
      PROVE  x.node \in DOMAIN tree /\ x.last = 0 /\ Len(x.node) \in Nat /\ tree[x.node] \in Node
  <2>1. /\ x.node \in DOMAIN tree /\ x.last \in Nat
        /\ x.last = 0 \/ x.last < Len(tree[x.node].subnode)
    BY DEF Frames
  <2>2. Len(x.node) \in Nat /\ tree[x.node] \in Node
    BY <2>1, NodeFacts, LenProperties
  <2>3. Len(tree[x.node].subnode) \in {0, 1}
    BY <2>2 DEF Node
  <2>4. x.last = 0
    <3>1. PICK n, k : n = Len(tree[x.node].subnode) /\ k = x.last
      OBVIOUS
    <3>2. k \in Nat /\ n \in {0, 1} /\ (k = 0 \/ k < n)
      BY <2>1, <2>3, <3>1
    <3>3. n \in Int /\ n <= 1
      BY <3>2
    <3>4. k = 0
      BY <3>2, <3>3
    <3> QED
      BY <3>1, <3>4
  <2> QED
    BY <2>1, <2>2, <2>4
<1>2. ASSUME NEW p \in DOMAIN tree PROVE Frame(p) \in Frames /\ Frame(p).node = p
  BY DEF Frame, Frames
<1> QED
  BY <1>1, <1>2

(* Every node on it is longer than the ones below. *)
Chain(s) == \A i, j \in 1..Len(s) : i < j => Len(s[j].node) < Len(s[i].node)

LEMMA StackFacts ==
  ASSUME Shaped, NEW s \in Stacks
  PROVE  /\ s \in Seq(Frames) /\ s # <<>> /\ Len(s) \in Nat /\ Len(s) >= 1 /\ DOMAIN s = 1..Len(s)
         /\ Head(s) = s[1] /\ Head(s) \in Frames /\ \A i \in 1..Len(s) : s[i] \in Frames
         /\ Tail(s) \in Seq(Frames) /\ Len(Tail(s)) = Len(s) - 1
         /\ \A i \in 1..(Len(s) - 1) : Tail(s)[i] = s[i + 1]
<1>1. s \in Seq(Frames) /\ s # <<>>
  BY DEF Stacks
<1>2. Len(s) \in Nat /\ Len(s) >= 1 /\ DOMAIN s = 1..Len(s) /\ Head(s) = s[1]
  BY <1>1
<1>3. \A i \in 1..Len(s) : s[i] \in Frames
  BY <1>1, ElementOfSeq
<1>4. /\ Tail(s) \in Seq(Frames) /\ Len(Tail(s)) = Len(s) - 1
      /\ \A i \in 1..(Len(s) - 1) : Tail(s)[i] = s[i + 1]
  BY <1>1, <1>2
<1>5. Head(s) \in Frames
  BY <1>2, <1>3
<1> QED
  BY <1>1, <1>2, <1>3, <1>4, <1>5

LEMMA StackPushed ==
  ASSUME Shaped, NEW s \in Stacks, NEW x \in Frames
  PROVE  /\ <<x>> \o s \in Stacks /\ Head(<<x>> \o s) = x
         /\ Chain(s) /\ Len(Head(s).node) < Len(x.node) => Chain(<<x>> \o s)
<1> DEFINE c == <<x>> \o s
<1>1. s \in Seq(Frames) /\ Len(s) \in Nat /\ Len(s) >= 1 /\ Head(s) = s[1]
      /\ \A i \in 1..Len(s) : s[i] \in Frames
  BY StackFacts
<1>2. <<x>> \in Seq(Frames) /\ Len(<<x>>) = 1 /\ <<x>>[1] = x
  OBVIOUS
<1>3. /\ c \in Seq(Frames) /\ Len(c) = Len(s) + 1
      /\ \A i \in 1..(Len(s) + 1) : c[i] = IF i <= 1 THEN <<x>>[i] ELSE s[i - 1]
  BY <1>1, <1>2, ConcatProperties
<1> HIDE DEF c
<1>4. c[1] = x /\ \A i \in 2..(Len(s) + 1) : c[i] = s[i - 1] /\ i - 1 \in 1..Len(s)
  BY <1>1, <1>2, <1>3
<1>5. c # <<>> /\ Head(c) = x
  BY <1>1, <1>3, <1>4
<1>6. ASSUME Chain(s), Len(Head(s).node) < Len(x.node) PROVE Chain(c)
  <2>1. \A i \in 1..Len(s) : Len(s[i].node) \in Nat /\ Len(s[i].node) <= Len(s[1].node)
    BY <1>1, <1>6, FrameFacts DEF Chain
  <2>2. \A i \in 1..Len(s) : Len(s[i].node) < Len(x.node)
    BY <1>1, <1>6, <2>1, FrameFacts
  <2>3. ASSUME NEW i \in 1..(Len(s) + 1), NEW j \in 1..(Len(s) + 1), i < j
        PROVE  Len(c[j].node) < Len(c[i].node)
    <3>1. j \in 2..(Len(s) + 1) /\ c[j] = s[j - 1] /\ j - 1 \in 1..Len(s)
      BY <1>1, <1>4, <2>3
    <3>2. CASE i = 1
      BY <1>4, <2>2, <3>1, <3>2
    <3>3. CASE i # 1
      <4>1. i \in 2..(Len(s) + 1) /\ i - 1 < j - 1
        BY <1>1, <2>3, <3>3
      <4>2. c[i] = s[i - 1] /\ i - 1 \in 1..Len(s)
        BY <1>4, <4>1
      <4> QED
        BY <1>6, <3>1, <4>1, <4>2 DEF Chain
    <3> QED
      BY <3>2, <3>3
  <2> QED
    BY <1>3, <2>3 DEF Chain
<1>7. c \in Stacks
  BY <1>3, <1>5 DEF Stacks
<1> QED
  BY <1>5, <1>6, <1>7 DEF c

LEMMA StackPopped ==
  ASSUME Shaped, NEW s \in Stacks, Tail(s) # <<>>
  PROVE  /\ Tail(s) \in Stacks /\ Len(Tail(s)) < Len(s)
         /\ Chain(s) => Chain(Tail(s)) /\ Len(Head(Tail(s)).node) < Len(Head(s).node)
<1>1. /\ Len(s) \in Nat /\ Len(s) >= 1 /\ Head(s) = s[1]
      /\ Tail(s) \in Seq(Frames) /\ Len(Tail(s)) = Len(s) - 1
      /\ \A i \in 1..(Len(s) - 1) : Tail(s)[i] = s[i + 1]
  BY StackFacts
<1>2. Tail(s) \in Stacks /\ Len(Tail(s)) < Len(s)
  BY <1>1 DEF Stacks
<1>3. Len(s) - 1 >= 1 /\ Head(Tail(s)) = Tail(s)[1]
  <2>1. Len(Tail(s)) >= 1 /\ Head(Tail(s)) = Tail(s)[1]
    BY <1>2, StackFacts
  <2> QED
    BY <1>1, <2>1
<1>4. ASSUME Chain(s) PROVE Chain(Tail(s)) /\ Len(Head(Tail(s)).node) < Len(Head(s).node)
  <2>1. ASSUME NEW i \in 1..(Len(s) - 1), NEW j \in 1..(Len(s) - 1), i < j
        PROVE  Len(Tail(s)[j].node) < Len(Tail(s)[i].node)
    <3>1. i + 1 \in 1..Len(s) /\ j + 1 \in 1..Len(s) /\ i + 1 < j + 1
      BY <1>1, <2>1
    <3>2. Tail(s)[j] = s[j + 1] /\ Tail(s)[i] = s[i + 1]
      BY <1>1
    <3> QED
      BY <1>4, <3>1, <3>2 DEF Chain
  <2>2. Chain(Tail(s))
    BY <1>1, <2>1 DEF Chain
  <2>3. 1 \in 1..Len(s) /\ 2 \in 1..Len(s) /\ Tail(s)[1] = s[2]
    BY <1>1, <1>3
  <2>4. Len(s[2].node) < Len(s[1].node)
    BY <1>4, <2>3 DEF Chain
  <2> QED
    BY <1>1, <1>3, <2>2, <2>3, <2>4
<1> QED
  BY <1>2, <1>4

-----------------------------------------------------------------------------
(* The way down *)

Child(p) == Append(p, tree[p].subnode[1])
LEMMA ChildFacts ==
  ASSUME Shaped, NEW p \in DOMAIN tree, tree[p].subnode # <<>>
  PROVE  Child(p) \in DOMAIN tree /\ Len(Child(p)) = Len(p) + 1
<1>1. PICK b \in Byte : tree[p].subnode = <<b>>
  BY NodeFacts DEF Node
<1>2. p \in Seq(Byte) /\ tree[p].subnode[1] = b
  BY <1>1, NodeFacts
<1>3. Child(p) = Append(p, b) /\ Append(p, b) \in DOMAIN tree
  BY <1>1, <1>2 DEF Child, Shaped, SubnodeThere
<1> QED
  BY <1>2, <1>3, AppendProperties

(* One turn, with f for the turns after it. *)
Descent(f, r) ==
  IF tree[Head(r).node].hollow THEN [stack |-> r, fault |-> "NULL subnode"]
  ELSE IF tree[Head(r).node].subnode = <<>> THEN [stack |-> r, fault |-> "none"]
  ELSE f[<<Frame(Append(Head(r).node, tree[Head(r).node].subnode[Head(r).last + 1]))>> \o r]

Ends(r) == tree[Head(r).node].hollow \/ tree[Head(r).node].subnode = <<>>
Below(r) == <<Frame(Child(Head(r).node))>> \o r

LEMMA BelowFacts ==
  ASSUME Shaped, NEW r \in Stacks, ~Ends(r)
  PROVE  /\ Below(r) \in Stacks /\ Head(Below(r)).node = Child(Head(r).node)
         /\ Len(Head(Below(r)).node) = Len(Head(r).node) + 1
         /\ Chain(r) => Chain(Below(r))
         /\ \A f : Descent(f, r) = f[Below(r)]
<1> DEFINE p == Head(r).node
           x == Frame(Child(p))
<1>1. p \in DOMAIN tree /\ Head(r).last = 0 /\ Len(p) \in Nat /\ tree[p].subnode # <<>> /\ ~tree[p].hollow
  BY StackFacts, FrameFacts DEF Ends
<1>2. Child(p) \in DOMAIN tree /\ Len(Child(p)) = Len(p) + 1
  BY <1>1, ChildFacts
<1>3. x \in Frames /\ x.node = Child(p)
  BY <1>2, FrameFacts
<1>4. Len(p) < Len(x.node)
  BY <1>1, <1>2, <1>3
<1>5. Below(r) = <<x>> \o r
  BY DEF Below
<1>6. \A f : Descent(f, r) = f[Below(r)]
  BY <1>1 DEF Descent, Below, Child
<1> HIDE DEF x
<1>7. Below(r) \in Stacks /\ Head(Below(r)) = x /\ (Chain(r) => Chain(Below(r)))
  BY <1>3, <1>4, <1>5, StackPushed
<1> QED
  BY <1>2, <1>3, <1>6, <1>7

(* Going down ends: no key is longer than the longest of the tree. *)
AllBelow == [r \in Stacks |-> Below(r)]
LEMMA DownEnds ==
  ASSUME Shaped, Bounded
  PROVE  \E mu : Descending(Stacks, mu, { r \in Stacks : Ends(r) }, AllBelow)
<1>1. PICK n \in Nat : \A p \in DOMAIN tree : Len(p) <= n
  BY DEF Bounded
<1> DEFINE mu == [r \in Stacks |-> n - Len(Head(r).node)]
<1>2. \A r \in Stacks : mu[r] = n - Len(Head(r).node) /\ Len(Head(r).node) \in Nat /\ mu[r] \in Nat
  <2> SUFFICES ASSUME NEW r \in Stacks PROVE Len(Head(r).node) \in Nat /\ n - Len(Head(r).node) \in Nat
    OBVIOUS
  <2>1. Head(r).node \in DOMAIN tree /\ Len(Head(r).node) \in Nat
    BY StackFacts, FrameFacts
  <2> QED
    BY <1>1, <2>1
<1>3. ASSUME NEW r \in Stacks, ~Ends(r) PROVE AllBelow[r] \in Stacks /\ mu[AllBelow[r]] < mu[r]
  <2>1. /\ AllBelow[r] = Below(r) /\ Below(r) \in Stacks
        /\ Len(Head(Below(r)).node) = Len(Head(r).node) + 1
    BY <1>3, BelowFacts DEF AllBelow
  <2> QED
    BY <1>2, <2>1
<1>4. mu \in [Stacks -> Nat]
  BY <1>2
<1> QED
  BY <1>3, <1>4 DEF Descending

LEMMA DownIs ==
  ASSUME Shaped, Bounded
  PROVE  \E f : /\ f = [r \in Stacks |-> Descent(f, r)]
                /\ \A s : Down(s) = f[s]
<1> DEFINE T == { r \in Stacks : Ends(r) }
           g == [r \in Stacks |->
                   [stack |-> r, fault |-> IF tree[Head(r).node].hollow THEN "NULL subnode" ELSE "none"]]
           L == CHOOSE f : f = [r \in Stacks |-> Descent(f, r)]
<1>1. PICK mu : Descending(Stacks, mu, T, AllBelow)
  BY DownEnds
<1>2. PICK f : f = [r \in Stacks |-> IF r \in T THEN g[r] ELSE f[AllBelow[r]]]
  <2> HIDE DEF T, g
  <2> QED
    BY <1>1, LoopExists
<1>3. ASSUME NEW r \in Stacks PROVE (IF r \in T THEN g[r] ELSE f[AllBelow[r]]) = Descent(f, r)
  <2>1. CASE Ends(r)
    BY <2>1 DEF Ends, Descent
  <2>2. CASE ~Ends(r)
    BY <2>2, BelowFacts DEF AllBelow
  <2> QED
    BY <2>1, <2>2
<1>4. f = [r \in Stacks |-> Descent(f, r)]
  BY <1>2, <1>3
<1>5. L = [r \in Stacks |-> Descent(L, r)]
  BY <1>4
<1>6. \A s : Down(s) = L[s]
  BY DEF Down, Descent
<1> QED
  BY <1>5, <1>6

(* What the way down makes of stack s. *)
Lower(s, d) ==
  /\ d.stack \in Stacks /\ d.fault \in {"none", "NULL subnode"}
  /\ Chain(s) => Chain(d.stack)

LEMMA DownFacts ==
  ASSUME Shaped, Bounded
  PROVE  \A s \in Stacks : Lower(s, Down(s))
<1>1. PICK f : f = [r \in Stacks |-> Descent(f, r)] /\ \A s : Down(s) = f[s]
  BY DownIs
<1> DEFINE T == { r \in Stacks : Ends(r) }
           G == { r \in Stacks : Lower(r, f[r]) }
<1>2. PICK mu : Descending(Stacks, mu, T, AllBelow)
  BY DownEnds
<1>3. ASSUME NEW r \in Stacks, r \notin T => AllBelow[r] \in G PROVE r \in G
  <2>1. f[r] = Descent(f, r)
    BY <1>1
  <2>2. CASE Ends(r)
    <3>1. PICK x : x = f[r]
      OBVIOUS
    <3>2. \/ x = [stack |-> r, fault |-> "NULL subnode"]
          \/ x = [stack |-> r, fault |-> "none"]
      BY <2>1, <2>2, <3>1 DEF Ends, Descent
    <3>3. x.stack = r /\ (x.fault = "none" \/ x.fault = "NULL subnode")
      <4>1. CASE x = [stack |-> r, fault |-> "NULL subnode"]
        BY <4>1
      <4>2. CASE x = [stack |-> r, fault |-> "none"]
        BY <4>2
      <4> QED
        BY <3>2, <4>1, <4>2
    <3>4. Lower(r, f[r])
      BY <3>1, <3>3 DEF Lower
    <3> QED
      BY <3>4
  <2>3. CASE ~Ends(r)
    <3>1. /\ AllBelow[r] = Below(r)
          /\ Chain(r) => Chain(Below(r))
          /\ f[r] = f[Below(r)]
      BY <2>1, <2>3, BelowFacts DEF AllBelow
    <3>2. Lower(Below(r), f[Below(r)])
      BY <1>3, <2>3, <3>1
    <3>3. Lower(r, f[r])
      BY <3>1, <3>2 DEF Lower
    <3> QED
      BY <3>3
  <2> QED
    BY <2>2, <2>3
<1>4. \A r \in Stacks : r \in G
  <2> HIDE DEF T, G
  <2> QED
    BY <1>2, <1>3, LoopAll
<1> QED
  BY <1>1, <1>4

-----------------------------------------------------------------------------
(* The turns *)

(* After the first turn the stack only gets shorter. *)
LEMMA TurnAgain ==
  ASSUME Shaped, NEW s \in Stacks
  PROVE  Turn(s, FALSE) = IF Tail(s) = <<>> THEN [stack |-> Tail(s), fault |-> "NULL stack"]
                          ELSE [stack |-> Tail(s), fault |-> "none"]
<1>1. CASE Tail(s) = <<>>
  BY <1>1 DEF Turn
<1>2. CASE Tail(s) # <<>>
  <2>1. Tail(s) \in Stacks
    BY <1>2, StackPopped
  <2>2. Head(Tail(s)) \in Frames
    BY <2>1, StackFacts
  <2>3. Head(Tail(s)).last = 0 /\ tree[Head(Tail(s)).node] \in Node
    BY <2>2, FrameFacts
  <2>4. PICK t : t = tree[Head(Tail(s)).node]
    OBVIOUS
  <2>6. Len(t.subnode) \in {0, 1}
    <3>1. t \in Node
      BY <2>3, <2>4
    <3>2. PICK u : u = t.subnode
      OBVIOUS
    <3>3. u = <<>> \/ \E b \in Byte : u = <<b>>
      BY <3>1, <3>2 DEF Node
    <3>4. Len(u) \in {0, 1}
      BY <3>3
    <3> QED
      BY <3>2, <3>4
  <2>5. ~(Head(Tail(s)).last < Len(tree[Head(Tail(s)).node].subnode) - 1)
    <3>1. PICK m : m = Len(tree[Head(Tail(s)).node].subnode)
      OBVIOUS
    <3>2. m \in {0, 1}
      BY <2>4, <2>6, <3>1
    <3>3. ~(0 < m - 1)
      BY <3>2
    <3> QED
      BY <2>3, <3>1, <3>3
  <2> QED
    BY <1>2, <2>5 DEF Turn
<1> QED
  BY <1>1, <1>2

Turns == Stacks \X BOOLEAN
After(a) == Turn(a[1], a[2])
GoesOn(a) == After(a).fault = "none" /\ Skips(tree[Head(After(a).stack).node].data)
Again(f, a) == IF GoesOn(a) THEN f[<<After(a).stack, FALSE>>] ELSE After(a)

(* What one turn makes of the stack. *)
Taken(a, t) ==
  t.fault = "none" =>
    /\ t.stack \in Stacks
    /\ Chain(a[1]) => Chain(t.stack)
    /\ ~a[2] => Len(t.stack) < Len(a[1])
    /\ ~a[2] /\ Chain(a[1]) => Len(Head(t.stack).node) < Len(Head(a[1]).node)

LEMMA TurnFacts ==
  ASSUME Shaped, Bounded, NEW a \in Turns
  PROVE  Taken(a, After(a))
<1>1. a[1] \in Stacks /\ a[2] \in BOOLEAN
  BY DEF Turns
<1>2. CASE a[2] = TRUE
  <2>1. After(a) = Down(a[1])
    BY <1>2 DEF After, Turn
  <2>2. Lower(a[1], Down(a[1]))
    BY <1>1, DownFacts
  <2> QED
    BY <1>2, <2>1, <2>2 DEF Taken, Lower
<1>3. CASE a[2] = FALSE
  <2>1. After(a) = IF Tail(a[1]) = <<>> THEN [stack |-> Tail(a[1]), fault |-> "NULL stack"]
                   ELSE [stack |-> Tail(a[1]), fault |-> "none"]
    BY <1>1, <1>3, TurnAgain DEF After
  <2>2. CASE Tail(a[1]) = <<>>
    <3>1. PICK x, r : x = After(a) /\ r = Tail(a[1])
      OBVIOUS
    <3>2. x = [stack |-> r, fault |-> "NULL stack"]
      BY <2>1, <2>2, <3>1
    <3>3. x.fault = "NULL stack"
      BY <3>2
    <3> QED
      BY <3>1, <3>3 DEF Taken
  <2>3. CASE Tail(a[1]) # <<>>
    <3>1. After(a).stack = Tail(a[1])
      BY <2>1, <2>3
    <3>2. /\ Tail(a[1]) \in Stacks /\ Len(Tail(a[1])) < Len(a[1])
          /\ Chain(a[1]) => Chain(Tail(a[1])) /\ Len(Head(Tail(a[1])).node) < Len(Head(a[1]).node)
      BY <1>1, <2>3, StackPopped
    <3> QED
      BY <3>1, <3>2 DEF Taken
  <2> QED
    BY <2>2, <2>3
<1> QED
  BY <1>1, <1>2, <1>3

(* The loop ends: after the first turn the stack only gets shorter. *)
Rest == [a \in Turns |-> <<After(a).stack, FALSE>>]
LEMMA AdvanceEnds ==
  ASSUME Shaped, Bounded
  PROVE  \E mu : Descending(Turns, mu, { a \in Turns : ~GoesOn(a) }, Rest)
<1> DEFINE mu == [a \in Turns |-> IF a[2] THEN Len(Down(a[1]).stack) + 1 ELSE Len(a[1])]
<1>1. ASSUME NEW a \in Turns
      PROVE  mu[a] \in Nat /\ (GoesOn(a) => Rest[a] \in Turns /\ mu[Rest[a]] < mu[a])
  <2>1. a[1] \in Stacks /\ a[2] \in BOOLEAN /\ Len(a[1]) \in Nat
    BY StackFacts DEF Turns
  <2>2. Down(a[1]).stack \in Stacks
    BY <2>1, DownFacts DEF Lower
  <2>3. Len(Down(a[1]).stack) \in Nat
    BY <2>2, StackFacts
  <2>4. mu[a] = (IF a[2] THEN Len(Down(a[1]).stack) + 1 ELSE Len(a[1])) /\ mu[a] \in Nat
    BY <2>1, <2>3
  <2>5. ASSUME GoesOn(a) PROVE Rest[a] \in Turns /\ mu[Rest[a]] < mu[a]
    <3>1. /\ After(a).stack \in Stacks
          /\ ~a[2] => Len(After(a).stack) < Len(a[1])
      BY <2>5, TurnFacts DEF Taken, GoesOn
    <3>2. Rest[a] = <<After(a).stack, FALSE>> /\ Rest[a] \in Turns
      BY <3>1 DEF Turns, Rest
    <3>3. mu[Rest[a]] = Len(After(a).stack)
      <4>1. PICK b : b = Rest[a]
        OBVIOUS
      <4>2. b \in Turns /\ b[1] = After(a).stack /\ b[2] = FALSE
        BY <3>2, <4>1
      <4>3. mu[b] = Len(b[1])
        BY <4>2
      <4> QED
        BY <4>1, <4>2, <4>3
    <3>4. CASE a[2] = TRUE
      <4>1. After(a) = Down(a[1])
        BY <3>4 DEF After, Turn
      <4>2. mu[a] = Len(Down(a[1]).stack) + 1
        BY <2>4, <3>4
      <4> HIDE DEF mu
      <4> QED
        BY <2>3, <3>2, <3>3, <4>1, <4>2
    <3>5. CASE a[2] = FALSE
      <4>1. mu[a] = Len(a[1])
        BY <2>4, <3>5
      <4> HIDE DEF mu
      <4> QED
        BY <3>1, <3>2, <3>3, <3>5, <4>1
    <3> QED
      BY <2>1, <3>4, <3>5
  <2> QED
    BY <2>4, <2>5
<1>2. mu = [a \in Turns |-> mu[a]]
  OBVIOUS
<1> HIDE DEF mu
<1>3. mu \in [Turns -> Nat]
  BY <1>1, <1>2
<1> QED
  BY <1>1, <1>3 DEF Descending

LEMMA AdvanceIs ==
  ASSUME Shaped, Bounded
  PROVE  \E f : /\ f = [a \in Turns |-> Again(f, a)]
                /\ \A s, first : Advance(s, first) = f[<<s, first>>]
<1> DEFINE T == { a \in Turns : ~GoesOn(a) }
           g == [a \in Turns |-> After(a)]
           L == CHOOSE f : f = [a \in Turns |-> Again(f, a)]
<1>1. PICK mu : Descending(Turns, mu, T, Rest)
  BY AdvanceEnds
<1>2. PICK f : f = [a \in Turns |-> IF a \in T THEN g[a] ELSE f[Rest[a]]]
  <2> HIDE DEF T, g
  <2> QED
    BY <1>1, LoopExists
<1>3. \A a \in Turns : (IF a \in T THEN g[a] ELSE f[Rest[a]]) = Again(f, a)
  BY DEF Again, Rest
<1>4. f = [a \in Turns |-> Again(f, a)]
  BY <1>2, <1>3
<1>5. L = [a \in Turns |-> Again(L, a)]
  BY <1>4
<1>6. \A s, first : Advance(s, first) = L[<<s, first>>]
  BY DEF Advance, Again, GoesOn, After, Turns
<1> QED
  BY <1>5, <1>6

(* The walk stops on a node without data, and never comes back to one it   *)
(* has left.                                                               *)
Rests(a, t) ==
  t.fault = "none" =>
    /\ t.stack \in Stacks
    /\ ~Skips(tree[Head(t.stack).node].data)
    /\ Chain(a[1]) => Chain(t.stack)
    /\ ~a[2] /\ Chain(a[1]) => Len(Head(t.stack).node) < Len(Head(a[1]).node)

LEMMA AdvanceFacts ==
  ASSUME Shaped, Bounded
  PROVE  \A s \in Stacks, first \in BOOLEAN : Rests(<<s, first>>, Advance(s, first))
<1>1. PICK f : /\ f = [a \in Turns |-> Again(f, a)]
               /\ \A x, y : Advance(x, y) = f[<<x, y>>]
  BY AdvanceIs
<1> DEFINE T == { a \in Turns : ~GoesOn(a) }
           G == { a \in Turns : Rests(a, f[a]) }
<1>2. PICK mu : Descending(Turns, mu, T, Rest)
  BY AdvanceEnds
<1>3. ASSUME NEW a \in Turns, a \notin T => Rest[a] \in G PROVE a \in G
  <2>1. f[a] = Again(f, a) /\ Taken(a, After(a))
    BY <1>1, TurnFacts
  <2>2. CASE ~GoesOn(a)
    <3>1. f[a] = After(a)
      BY <2>1, <2>2 DEF Again
    <3>2. Rests(a, After(a))
      BY <2>1, <2>2 DEF Taken, GoesOn, Rests
    <3> QED
      BY <3>1, <3>2
  <2>3. CASE GoesOn(a)
    <3>1. PICK b : b = <<After(a).stack, FALSE>>
      OBVIOUS
    <3>2. f[a] = f[b] /\ Rest[a] = b /\ b[1] = After(a).stack /\ b[2] = FALSE
      BY <2>1, <2>3, <3>1 DEF Again, Rest
    <3>3. b \in Turns /\ Rests(b, f[b])
      BY <1>3, <2>3, <3>2
    <3>4. /\ After(a).stack \in Stacks
          /\ Chain(a[1]) => Chain(b[1])
          /\ ~a[2] /\ Chain(a[1]) => Len(Head(b[1]).node) < Len(Head(a[1]).node)
      BY <2>1, <2>3, <3>2 DEF Taken, GoesOn
    <3>5. ASSUME f[b].fault = "none", ~a[2], Chain(a[1])
          PROVE  Len(Head(f[b].stack).node) < Len(Head(a[1]).node)
      <4>1. /\ Len(Head(f[b].stack).node) < Len(Head(b[1]).node)
            /\ Len(Head(b[1]).node) < Len(Head(a[1]).node)
            /\ f[b].stack \in Stacks /\ b[1] \in Stacks /\ a[1] \in Stacks
        BY <3>2, <3>3, <3>4, <3>5 DEF Rests, Turns
      <4>2. /\ Len(Head(f[b].stack).node) \in Nat /\ Len(Head(b[1]).node) \in Nat
            /\ Len(Head(a[1]).node) \in Nat
        BY <4>1, StackFacts, FrameFacts
      <4>3. PICK i, j, k : /\ i = Len(Head(f[b].stack).node) /\ j = Len(Head(b[1]).node)
                           /\ k = Len(Head(a[1]).node)
        OBVIOUS
      <4>4. i \in Nat /\ j \in Nat /\ k \in Nat /\ i < j /\ j < k
        BY <4>1, <4>2, <4>3
      <4>5. i < k
        BY <4>4
      <4> QED
        BY <4>3, <4>5
    <3>6. Rests(a, f[b])
      BY <3>3, <3>4, <3>5 DEF Rests
    <3> QED
      BY <3>2, <3>6
  <2> QED
    BY <2>2, <2>3
<1>4. \A a \in Turns : a \in G
  <2> HIDE DEF T, G
  <2> QED
    BY <1>2, <1>3, LoopAll
<1> QED
  BY <1>1, <1>4 DEF Turns

-----------------------------------------------------------------------------
(* The calls *)

(* While a call runs, the nodes in hand have no data and are longer than   *)
(* all that is left on the stack below its top.                            *)
InHandLeft ==
  /\ \A t, u \in InHand : t # u => item[t] # item[u]
  /\ \A t \in InHand : /\ item[t] \in DOMAIN tree /\ tree[item[t]].data = NULL
                       /\ Len(Head(stack).node) <= Len(item[t])
Walking ==
  /\ pc = [t \in Thread |-> pc[t]] /\ item = [t \in Thread |-> item[t]]
  /\ started \in BOOLEAN
  /\ Idle \/ (/\ stack \in Stacks /\ Chain(stack)
              /\ started \/ InHand = {}
              /\ InHandLeft)

LEMMA WalkingInit == ForeachInit => Walking
BY DEF ForeachInit, Walking, Idle

LEMMA WalkingNext ==
  ASSUME Shaped, Bounded, Walking, NEW th \in Thread, Queue_Next(th)
  PROVE  Walking'
<1>1. /\ stack \in Stacks /\ Chain(stack) /\ started \in BOOLEAN /\ (started \/ InHand = {}) /\ InHandLeft
      /\ pc = [t \in Thread |-> pc[t]] /\ item = [t \in Thread |-> item[t]]
      /\ pc[th] = "next"
  BY DEF Walking, Idle, Queue_Next
<1>2. CASE UNCHANGED <<tree, foreach>>
  BY <1>2 DEF foreach, Walking, Idle, InHandLeft, InHand, Stacks, Frames, Chain
<1>3. ASSUME NEW r, r = Advance(stack, ~started), r.fault = "none",
             stack' = r.stack, started' = TRUE,
             item' = [item EXCEPT ![th] = Head(r.stack).node],
             pc' = [pc EXCEPT ![th] = "call"], tree' = tree
      PROVE  Walking'
  <2>1. Rests(<<stack, ~started>>, r)
    BY <1>1, <1>3, AdvanceFacts
  <2>2. /\ r.stack \in Stacks /\ tree[Head(r.stack).node].data = NULL /\ Chain(r.stack)
        /\ started => Len(Head(r.stack).node) < Len(Head(stack).node)
    BY <1>1, <1>3, <2>1 DEF Rests, Skips
  <2>3. PICK p : p = Head(r.stack).node
    OBVIOUS
  <2>4. p \in DOMAIN tree /\ Len(p) \in Nat /\ Len(Head(stack).node) \in Nat
    BY <1>1, <2>2, <2>3, StackFacts, FrameFacts
  <2>5. InHand' = InHand \cup {th} /\ th \notin InHand
    BY <1>1, <1>3 DEF InHand
  <2>6. item'[th] = p /\ \A t \in InHand : item'[t] = item[t]
    BY <1>1, <1>3, <2>3, <2>5 DEF InHand
  <2>7. ASSUME NEW t \in InHand PROVE Len(p) < Len(item[t])
    <3>1. Len(Head(stack).node) <= Len(item[t]) /\ Len(item[t]) \in Nat /\ started
      BY <1>1, <2>7, NodeFacts, LenProperties DEF InHandLeft
    <3>2. Len(p) < Len(Head(stack).node)
      BY <2>2, <2>3, <3>1
    <3> QED
      BY <2>4, <3>1, <3>2
  <2>8. InHandLeft'
    <3>1. \A t, u \in InHand' : t # u => item'[t] # item'[u]
      <4>1. ASSUME NEW t \in InHand PROVE item'[t] # p
        BY <2>4, <2>6, <2>7, <4>1
      <4>2. \A t, u \in InHand : t # u => item'[t] # item'[u]
        BY <1>1, <2>6 DEF InHandLeft
      <4> QED
        BY <2>5, <2>6, <4>1, <4>2
    <3>2. ASSUME NEW t \in InHand'
          PROVE  item'[t] \in DOMAIN tree' /\ tree'[item'[t]].data = NULL /\ Len(Head(stack').node) <= Len(item'[t])
      <4>1. CASE t = th
        BY <1>3, <2>2, <2>3, <2>4, <2>6, <4>1
      <4>2. CASE t # th
        <5>1. t \in InHand /\ item'[t] = item[t]
          BY <2>5, <2>6, <4>2
        <5>2. Len(p) < Len(item[t]) /\ Len(item[t]) \in Nat
          BY <1>1, <2>7, <5>1, NodeFacts, LenProperties DEF InHandLeft
        <5>3. Len(p) <= Len(item[t])
          BY <2>4, <5>2
        <5> QED
          BY <1>1, <1>3, <2>3, <5>1, <5>3 DEF InHandLeft
      <4> QED
        BY <4>1, <4>2
    <3> QED
      BY <3>1, <3>2 DEF InHandLeft
  <2>9. stack' \in Stacks' /\ Chain(stack')
    BY <1>3, <2>2 DEF Stacks, Frames
  <2>10. pc' = [t \in Thread |-> pc'[t]] /\ item' = [t \in Thread |-> item'[t]]
    BY <1>1, <1>3
  <2> QED
    BY <1>3, <2>8, <2>9, <2>10 DEF Walking, Chain
<1>4. tree' = tree
  BY DEF Queue_Next
<1> QED
  BY <1>2, <1>3, <1>4 DEF Queue_Next

LEMMA WalkingStep ==
  ASSUME Shaped, Bounded, Walking, [ForeachNext]_allVars
  PROVE  Walking'
<1>1. CASE Idle /\ UNCHANGED foreach
  BY <1>1 DEF foreach, Walking, Idle
<1>2. CASE HashTree_Foreach
  <2>1. tree' = tree /\ Root \in DOMAIN tree /\ stack' = <<Frame(Root)>> /\ item' = item
        /\ started' = FALSE /\ pc' = [t \in Thread |-> "next"]
    BY <1>2 DEF HashTree_Foreach, Runs, vars
  <2>2. Frame(Root) \in Frames
    BY <2>1, FrameFacts
  <2>3. stack' \in Stacks
    BY <2>1, <2>2 DEF Stacks
  <2>4. stack' \in Stacks'
    BY <2>1, <2>3 DEF Stacks, Frames
  <2>5. Len(stack') = 1
    BY <2>1
  <2>6. Chain(stack')
    BY <2>5 DEF Chain
  <2>7. InHand' = {}
    BY <2>1 DEF InHand
  <2>8. InHandLeft'
    BY <2>7 DEF InHandLeft
  <2> QED
    BY <2>1, <2>4, <2>6, <2>7, <2>8 DEF Walking, Chain
<1>3. ASSUME NEW th \in Thread, Callback(th) PROVE Walking'
  <2>1. /\ tree' = tree /\ stack' = stack /\ started' = started /\ item' = item
        /\ pc[th] = "call" /\ pc' = [pc EXCEPT ![th] = "next"]
    BY <1>3 DEF Callback, vars
  <2>2. InHand' \subseteq InHand
    BY <2>1 DEF Walking, InHand
  <2>3. InHandLeft => InHandLeft'
    BY <2>1, <2>2 DEF InHandLeft
  <2>4. Stacks' = Stacks
    BY <2>1 DEF Stacks, Frames
  <2>5. ~Idle
    BY <2>1 DEF Idle
  <2> QED
    BY <2>1, <2>2, <2>3, <2>4, <2>5 DEF Walking, Chain
<1>4. CASE UNCHANGED allVars
  BY <1>4 DEF allVars, vars, foreach, Walking, Idle, InHand, InHandLeft, Stacks, Frames, Chain
<1> QED
  BY <1>1, <1>2, <1>3, <1>4, WalkingNext DEF ForeachNext

LEMMA WalkingHolds == ForeachSpec => [](Shaped /\ Bounded /\ Walking)
<1>1. Shaped /\ Bounded /\ Walking /\ [ForeachNext]_allVars => (Shaped /\ Bounded /\ Walking)'
  BY ShapedStep, BoundedStep, WalkingStep
<1> QED
  BY <1>1, ShapedInit, BoundedInit, WalkingInit, PTL DEF ForeachSpec

-----------------------------------------------------------------------------
(* What holds of every tree, whatever the keys, the data and the threads *)

(* No assignment, no failing malloc, no pruning and no walk leaks a node   *)
(* or leaves a pointer to one that is freed (hashtree.c:32-94, 123-176).   *)
THEOREM TreeShapeHolds == ForeachSpec => []TreeShape
BY ShapedHolds, ShapedTree, PTL

(* All the keys stored are beginnings of the longest of them: the search   *)
(* (hashtree.c:56-63) never ends for any other.                            *)
THEOREM OneBranchHolds == ForeachSpec => []OneBranch
BY ShapedHolds, ShapedBranch, PTL

(* HashTree_Retrive finds every node, and nothing else (hashtree.c:97-120).*)
THEOREM RetrieveFindsHolds == ForeachSpec => []RetrieveFinds
BY ShapedHolds, ShapedRetrieve, PTL

(* HashTree_Assign (hashtree.c:32-94) sets the entry of its key, or none   *)
(* when a malloc fails, and never another one.                             *)
THEOREM AssignIsExact == ForeachSpec => AssignExact
<1> DEFINE Exact ==
      \A h \in Hashes, d \in Data : HashTree_Assign(h, d) =>
        \A g \in Hashes : \/ Entry(g)' = Entry(g) /\ (g = h => Entry(g) \in {NULL, d} \/ fault' # "none")
                          \/ g = h /\ Entry(g)' = d
<1>1. Shaped => [Exact]_vars
  <2> SUFFICES ASSUME Shaped, NEW h \in Hashes, NEW d \in Data, HashTree_Assign(h, d)
               PROVE  \A g \in Hashes :
                        \/ Entry(g)' = Entry(g) /\ (g = h => Entry(g) \in {NULL, d} \/ fault' # "none")
                        \/ g = h /\ Entry(g)' = d
    OBVIOUS
  <2>1. h \in Seq(Byte)
    BY HashesAssumption
  <2>2. \A g : \/ Entry(g)' = Entry(g) /\ (g = h => Entry(g) = NULL \/ fault' # "none")
               \/ g = h /\ Entry(g)' = d
    BY <2>1, AssignEntries
  <2> QED
    BY <2>2
<1> QED
  BY <1>1, ShapedHolds, PTL DEF AssignExact

(* No call but HashTree_Free takes away an entry, that of the empty key    *)
(* aside (hashtree.c:123-176).                                             *)
THEOREM EntriesStayHolds == ForeachSpec => EntriesStay
<1> DEFINE Kept == Root \in DOMAIN tree' =>
                     \A h \in Hashes \ {<<>>} : Entry(h) # NULL => Entry(h)' # NULL
<1>1. Shaped /\ [ForeachNext]_allVars => [Kept]_vars
  BY ShapedStep
<1> QED
  BY <1>1, ShapedHolds, PTL DEF EntriesStay, ForeachSpec

(* No node is given to two callbacks at a time, and none that is given is  *)
(* left on the stack (hashtree_foreach.c:87-132).                          *)
THEOREM GivenOnceHolds == ForeachSpec => []GivenOnce
<1>1. ASSUME Shaped, Walking PROVE GivenOnce
  <2>1. CASE Idle
    BY <2>1 DEF Idle, InHand, GivenOnce
  <2>2. ASSUME stack \in Stacks, Chain(stack), InHandLeft PROVE GivenOnce
    <3>1. ASSUME NEW t \in InHand, NEW i \in 2..Len(stack) PROVE stack[i].node # item[t]
      <4>1. Len(stack) \in Nat /\ Head(stack) = stack[1] /\ Head(stack) \in Frames
        BY <1>1, <2>2, StackFacts
      <4>2. 1 \in 1..Len(stack) /\ i \in 1..Len(stack) /\ 1 < i
        BY <4>1
      <4>3. Len(stack[i].node) < Len(stack[1].node) /\ stack[i] \in Frames
        BY <1>1, <2>2, <4>2, StackFacts DEF Chain
      <4>4. Len(stack[1].node) <= Len(item[t])
        BY <2>2, <4>1 DEF InHandLeft
      <4>5. Len(stack[i].node) \in Nat /\ Len(stack[1].node) \in Nat
        BY <1>1, <4>1, <4>3, FrameFacts
      <4> QED
        BY <4>3, <4>4, <4>5
    <3> QED
      BY <2>2, <3>1 DEF GivenOnce, InHandLeft
  <2> QED
    BY <1>1, <2>1, <2>2 DEF Walking
<1> QED
  BY <1>1, WalkingHolds, PTL

(* The callback gets no node that has an entry (hashtree_foreach.c:115). *)
THEOREM NoEntryGivenHolds == ForeachSpec => []NoEntryGiven
<1>1. ASSUME Walking PROVE NoEntryGiven
  BY <1>1 DEF Walking, Idle, InHand, InHandLeft, NoEntryGiven, Entry
<1> QED
  BY <1>1, WalkingHolds, PTL
=============================================================================
