------------------------------ MODULE BitString ------------------------------
(***************************************************************************)
(* bitstring.c: strings of bits packed into bytes, most significant bit    *)
(* first.  A byte is the set of the positions of its one bits, position 0  *)
(* being the most significant, so that bit n of a string is position n % 8 *)
(* of byte n / 8; the masks and shifts of the code act on those positions. *)
(* Bits that a shift moves out of the byte are lost, as they are when the  *)
(* code assigns the int they were promoted to back to a byte.              *)
(*                                                                         *)
(* Set and Get check their index.  Fill and Copy do not: their caller must *)
(* stay inside the strings, and the model makes no other calls.            *)
(***************************************************************************)
EXTENDS Integers

CONSTANTS BS,             \* the strings
          Length,         \* BitString.count, by string
          MaxCalls        \* bound: calls that change a string

ASSUME LengthAssumption == Length \in [BS -> Nat] /\ MaxCalls \in Nat

VARIABLES data,           \* BitString.data, by string
          calls

vars == <<data, calls>>

Byte == SUBSET (0..7)
BitString_Bits2Bytes(len) == (len \div 8) + (IF len % 8 # 0 THEN 1 ELSE 0)
Bytes(len) == 0..(BitString_Bits2Bytes(len) - 1)

Shr(x, k) == { p \in 0..7 : (p - k) \in x }
Shl(x, k) == { p \in 0..7 : (p + k) \in x }

OVERBYTE(bits) == bits % 8
(* The names that end in _Slip are what a small mistake in the code would  *)
(* make of the next definition; the model does not use them.               *)
UNDERBYTE_Slip(bits) == 8 - OVERBYTE(bits)
UNDERBYTE(bits) == 8 - (IF OVERBYTE(bits) # 0 THEN OVERBYTE(bits) ELSE 8)
ACCESSED_BYTES(start, count) ==
  ((count + OVERBYTE(start)) \div 8) + (IF OVERBYTE(count + start) # 0 THEN 1 ELSE 0)
BYTEWISE_BITMASK(i, start, count) ==
  (IF i = 0 THEN Shr(0..7, OVERBYTE(start)) ELSE 0..7) \cap
  (IF i = ACCESSED_BYTES(start, count) - 1 THEN Shl(0..7, UNDERBYTE(start + count)) ELSE 0..7)

-----------------------------------------------------------------------------
(* The routines, as functions of the bytes they are given. *)
BitString_Get(d, len, index) ==
  index >= 0 /\ index < len /\ (index % 8) \in d[index \div 8]

BitString_Set(d, len, index, value) ==
  IF index < 0 \/ index >= len THEN d
  ELSE [d EXCEPT ![index \div 8] = IF value THEN @ \cup {index % 8} ELSE @ \ {index % 8}]

(* The bytes a loop over ibyte = 0, 1, ... n - 1 changes, from byte first  *)
(* on; every turn changes a byte of its own.                               *)
Loop(d, first, n, Turn(_)) ==
  [i \in DOMAIN d |-> IF (i - first) \in 0..(n - 1) THEN Turn(i - first) ELSE d[i]]

BitString_Fill(d, index, count, value) ==
  LET first == index \div 8
      Turn(i) == IF value THEN d[first + i] \cup BYTEWISE_BITMASK(i, index, count)
                 ELSE d[first + i] \ BYTEWISE_BITMASK(i, index, count)
  IN  Loop(d, first, ACCESSED_BYTES(index, count), Turn)

Aligned_Slip(i, destIndex, o, origIndex, count) ==     \* lines 100-101 are missing
  LET first == origIndex \div 8
      right == OVERBYTE(destIndex) - OVERBYTE(origIndex)
  IN  IF right > 0 THEN Shr(o[first + i], right)
      ELSE Shl(o[first + i], -right) \cup
           (IF i < ACCESSED_BYTES(origIndex, count) - 1
            THEN Shr(o[first + i + 1], UNDERBYTE(-right)) ELSE {})

(* The byte of the origin o that the loop of Copy aligns with byte i of    *)
(* the destination.                                                        *)
Aligned(i, destIndex, o, origIndex, count) ==
  LET first == origIndex \div 8
      right == OVERBYTE(destIndex) - OVERBYTE(origIndex)
  IN  IF right > 0
      THEN Shr(o[first + i], right) \cup
           (IF i > 0 THEN Shl(o[first + i - 1], UNDERBYTE(right)) ELSE {})
      ELSE IF right < 0
      THEN Shl(o[first + i], -right) \cup
           (IF i < ACCESSED_BYTES(origIndex, count) - 1
            THEN Shr(o[first + i + 1], UNDERBYTE(-right)) ELSE {})
      ELSE o[first + i]

(* The loop ends with the shorter of the two ranges of bytes.              *)
Turns(destIndex, origIndex, count) ==
  LET d == ACCESSED_BYTES(destIndex, count)
      o == ACCESSED_BYTES(origIndex, count)
  IN  IF d < o THEN d ELSE o

CopyOther(d, destIndex, o, origIndex, count) ==
  LET first == destIndex \div 8
      Turn(i) == LET mask == BYTEWISE_BITMASK(i, destIndex, count)
                 IN  (d[first + i] \ mask) \cup
                     (Aligned(i, destIndex, o, origIndex, count) \cap mask)
  IN  Loop(d, first, Turns(destIndex, origIndex, count), Turn)

Zeros(len) == [i \in Bytes(len) |-> {}]

(* Copying a string to itself goes through a copy of it.                   *)
CopySelf(d, len, destIndex, origIndex, count) ==
  IF destIndex = origIndex THEN d
  ELSE CopyOther(d, destIndex, CopyOther(Zeros(len), 0, d, 0, len), origIndex, count)

BitString_Copy(dest, destIndex, orig, origIndex, count) ==
  IF dest = orig THEN CopySelf(data[dest], Length[dest], destIndex, origIndex, count)
  ELSE CopyOther(data[dest], destIndex, data[orig], origIndex, count)

-----------------------------------------------------------------------------
(* The calls a client may make: ranges that lie inside their string.       *)
Range(s) == { r \in (0..Length[s]) \X (0..Length[s]) : r[1] + r[2] <= Length[s] }

Init == data = [s \in BS |-> Zeros(Length[s])] /\ calls = 0

Set(s, index, value) ==
  /\ calls < MaxCalls
  /\ data' = [data EXCEPT ![s] = BitString_Set(@, Length[s], index, value)]
  /\ calls' = calls + 1

Fill(s, r, value) ==
  /\ calls < MaxCalls
  /\ data' = [data EXCEPT ![s] = BitString_Fill(@, r[1], r[2], value)]
  /\ calls' = calls + 1

Copy(dest, destIndex, orig, r) ==
  /\ calls < MaxCalls
  /\ destIndex + r[2] <= Length[dest]
  /\ data' = [data EXCEPT ![dest] = BitString_Copy(dest, destIndex, orig, r[1], r[2])]
  /\ calls' = calls + 1

Next ==
  \/ \E s \in BS, value \in BOOLEAN :
       \/ \E index \in -1..Length[s] : Set(s, index, value)
       \/ \E r \in Range(s) : Fill(s, r, value)
  \/ \E dest, orig \in BS : \E r \in Range(orig), destIndex \in 0..Length[dest] :
       Copy(dest, destIndex, orig, r)

Spec == Init /\ [][Next]_vars

-----------------------------------------------------------------------------
(* Properties.  They are about every call a client could make in the       *)
(* present state.                                                          *)

(* Every string keeps its bytes.                                           *)
TypeOK ==
  /\ calls \in Nat
  /\ data = [s \in BS |-> data[s]]
  /\ \A s \in BS : data[s] \in [Bytes(Length[s]) -> Byte]

(* The bytes d with the bits of the positions S replaced by New.           *)
Replaced(d, S, New(_)) ==
  [i \in DOMAIN d |->
     { p \in 0..7 : IF (8 * i + p) \in S THEN New(8 * i + p) ELSE p \in d[i] }]

(* BitString_Fill (bitstring.c:64-76) gives every bit of the range the     *)
(* value and changes no other bit, at every alignment and length.          *)
FillExact ==
  \A s \in BS, value \in BOOLEAN : \A r \in Range(s) :
    LET New(n) == value
    IN  BitString_Fill(data[s], r[1], r[2], value)
          = Replaced(data[s], r[1]..(r[1] + r[2] - 1), New)

(* Copying the bits k of K, and nothing else, for every call the client    *)
(* could make.                                                             *)
Copies(K(_, _, _)) ==
  \A dest, orig \in BS : \A r \in Range(orig), di \in 0..Length[dest] :
    di + r[2] <= Length[dest] =>
      LET New(n) == ((n - di + r[1]) % 8) \in data[orig][(n - di + r[1]) \div 8]
      IN  BitString_Copy(dest, di, orig, r[1], r[2])
            = Replaced(data[dest], { di + k : k \in K(di, r[1], r[2]) }, New)

(* BitString_Copy (bitstring.c:79-118) copies exactly the bits of the      *)
(* range that lie in the bytes its loop visits, from a string to another   *)
(* or to itself, and changes no other bit whatever the two alignments are. *)
(* When the destination's range lies in no more bytes than the origin's,   *)
(* those are all the bits.                                                 *)
Reached(di, oi, count) ==
  { k \in 0..(count - 1) : (di + k) \div 8 < di \div 8 + Turns(di, oi, count) }
CopyReached ==
  /\ Copies(Reached)
  /\ \A s \in BS : \A r \in Range(s), di \in 0..Length[s] :
       ACCESSED_BYTES(di, r[2]) <= ACCESSED_BYTES(r[1], r[2]) =>
         Reached(di, r[1], r[2]) = 0..(r[2] - 1)
=============================================================================
