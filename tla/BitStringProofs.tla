--------------------------- MODULE BitStringProofs ---------------------------
(***************************************************************************)
(* What Fill and Copy do to the bits of strings of every length.  The      *)
(* lemmas take the two divisions of the code apart: a range begins in bit  *)
(* o of byte f and ends before bit b of byte f + a, and the loops, masks   *)
(* and shifts are linear in f, o, a and b.                                 *)
(***************************************************************************)
EXTENDS BitString, TLAPS

LEMMA DivMod ==
  ASSUME NEW x \in Nat
  PROVE  /\ x \div 8 \in Nat /\ x % 8 \in 0..7
         /\ x = 8 * (x \div 8) + (x % 8)
  OBVIOUS

LEMMA DivModIs ==
  ASSUME NEW q \in Int, NEW r \in 0..7
  PROVE  (8 * q + r) \div 8 = q /\ (8 * q + r) % 8 = r
  OBVIOUS

(* The bytes of a range that starts in bit o of a byte and ends before bit *)
(* b of byte a after it.                                                   *)
LEMMA RangeFacts ==
  ASSUME NEW s \in Nat, NEW c \in Nat
  PROVE  \E f \in Nat, o \in 0..7, a \in Nat, b \in 0..7 :
           /\ s = 8 * f + o /\ o + c = 8 * a + b
           /\ s \div 8 = f /\ OVERBYTE(s) = o
           /\ ACCESSED_BYTES(s, c) = a + (IF b # 0 THEN 1 ELSE 0)
           /\ UNDERBYTE(s + c) = 8 - (IF b # 0 THEN b ELSE 8)
<1> DEFINE f == s \div 8
           o == s % 8
           a == (c + o) \div 8
           b == (c + o) % 8
<1>1. f \in Nat /\ o \in 0..7 /\ s = 8 * f + o
  BY DivMod
<1>2. a \in Nat /\ b \in 0..7 /\ c + o = 8 * a + b
  BY <1>1, DivMod
<1> HIDE DEF f, o, a, b
<1>3. s + c = 8 * (f + a) + b /\ f + a \in Int
  BY <1>1, <1>2
<1>4. (s + c) % 8 = b
  BY <1>2, <1>3, DivModIs
<1>5. c + s = s + c
  OBVIOUS
<1>6. ACCESSED_BYTES(s, c) = a + (IF b # 0 THEN 1 ELSE 0)
  BY <1>4, <1>5 DEF ACCESSED_BYTES, OVERBYTE, a, o
<1>7. UNDERBYTE(s + c) = 8 - (IF b # 0 THEN b ELSE 8)
  BY <1>4 DEF UNDERBYTE, OVERBYTE
<1>8. s \div 8 = f /\ OVERBYTE(s) = o
  BY DEF f, o, OVERBYTE
<1> QED
  BY <1>1, <1>2, <1>6, <1>7, <1>8, o + c = c + o

LEMMA AccessedNat ==
  ASSUME NEW s \in Nat, NEW c \in Nat
  PROVE  ACCESSED_BYTES(s, c) \in Nat
<1>1. PICK f \in Nat, o \in 0..7, a \in Nat, b \in 0..7 :
           /\ s = 8 * f + o /\ o + c = 8 * a + b
           /\ s \div 8 = f /\ OVERBYTE(s) = o
           /\ ACCESSED_BYTES(s, c) = a + (IF b # 0 THEN 1 ELSE 0)
           /\ UNDERBYTE(s + c) = 8 - (IF b # 0 THEN b ELSE 8)
  BY RangeFacts
<1> QED
  BY <1>1

(* The bytes of a string are those its bits lie in.                        *)
LEMMA BytesFacts ==
  ASSUME NEW len \in Nat
  PROVE  /\ BitString_Bits2Bytes(len) \in Nat
         /\ \A n \in Nat : n < len => n \div 8 \in Bytes(len)
         /\ \A i \in Bytes(len) : i \in Nat
<1>1. /\ len \div 8 \in Nat /\ len % 8 \in 0..7
      /\ len = 8 * (len \div 8) + (len % 8)
  BY DivMod
<1>2. ASSUME NEW n \in Nat, n < len
      PROVE  n \div 8 \in Bytes(len)
  <2>1. n \div 8 \in Nat /\ n % 8 \in 0..7 /\ n = 8 * (n \div 8) + (n % 8)
    BY DivMod
  <2> QED
    BY <1>1, <1>2, <2>1 DEF Bytes, BitString_Bits2Bytes
<1> QED
  BY <1>1, <1>2 DEF Bytes, BitString_Bits2Bytes

(* The mask of a turn of a loop has the bits of the range, and the turns   *)
(* of the loop are the bytes in which such bits lie.                       *)
LEMMA MaskFacts ==
  ASSUME NEW s \in Nat, NEW c \in Nat, NEW j \in Int, NEW p \in 0..7
  PROVE  /\ j \in 0..(ACCESSED_BYTES(s, c) - 1) =>
              (p \in BYTEWISE_BITMASK(j, s, c)
                 <=> 8 * (s \div 8 + j) + p \in s..(s + c - 1))
         /\ j \notin 0..(ACCESSED_BYTES(s, c) - 1) =>
              8 * (s \div 8 + j) + p \notin s..(s + c - 1)
<1>1. PICK f \in Nat, o \in 0..7, a \in Nat, b \in 0..7 :
           /\ s = 8 * f + o /\ o + c = 8 * a + b
           /\ s \div 8 = f /\ OVERBYTE(s) = o
           /\ ACCESSED_BYTES(s, c) = a + (IF b # 0 THEN 1 ELSE 0)
           /\ UNDERBYTE(s + c) = 8 - (IF b # 0 THEN b ELSE 8)
  BY RangeFacts
<1> DEFINE n == a + (IF b # 0 THEN 1 ELSE 0)
           u == 8 - (IF b # 0 THEN b ELSE 8)
<1>2. p \in BYTEWISE_BITMASK(j, s, c) <=>
        /\ j = 0 => p - o \in 0..7
        /\ j = n - 1 => p + u \in 0..7
  BY <1>1 DEF BYTEWISE_BITMASK, Shr, Shl
<1>3. 8 * (s \div 8 + j) + p \in s..(s + c - 1) <=> 8 * j + p >= o /\ 8 * j + p < 8 * a + b
  BY <1>1
<1>4. CASE j \notin 0..(n - 1)
  <2>1. ~(8 * j + p >= o /\ 8 * j + p < 8 * a + b)
    BY <1>1, <1>4
  <2> QED
    BY <1>1, <1>3, <1>4, <2>1
<1>5. CASE j \in 0..(n - 1)
  <2>1. (j = 0 => p - o \in 0..7) <=> 8 * j + p >= o
    BY <1>1, <1>5
  <2>2. (j = n - 1 => p + u \in 0..7) <=> 8 * j + p < 8 * a + b
    BY <1>1, <1>5
  <2> QED
    BY <1>1, <1>2, <1>3, <1>5, <2>1, <2>2
<1> QED
  BY <1>4, <1>5

-----------------------------------------------------------------------------
Filled(d, s, c, value) ==
  [i \in DOMAIN d |->
     { p \in 0..7 : IF (8 * i + p) \in s..(s + c - 1) THEN value ELSE p \in d[i] }]

(* Fill gives the bits of its range, and no other bit, the value.          *)
LEMMA FillReplaces ==
  ASSUME NEW len \in Nat, NEW d \in [Bytes(len) -> Byte],
         NEW s \in Nat, NEW c \in Nat, s + c <= len, NEW value \in BOOLEAN
  PROVE  BitString_Fill(d, s, c, value) = Filled(d, s, c, value)
<1> DEFINE f == s \div 8
           n == ACCESSED_BYTES(s, c)
           m(j) == BYTEWISE_BITMASK(j, s, c)
           R(i) == { p \in 0..7 : IF (8 * i + p) \in s..(s + c - 1) THEN value ELSE p \in d[i] }
           L(i) == IF (i - f) \in 0..(n - 1)
                   THEN IF value THEN d[f + (i - f)] \cup m(i - f) ELSE d[f + (i - f)] \ m(i - f)
                   ELSE d[i]
<1>1. BitString_Fill(d, s, c, value) = [i \in DOMAIN d |-> L(i)]
  BY DEF BitString_Fill, Loop
<1>2. ASSUME NEW i \in Bytes(len) PROVE L(i) = R(i)
  <2>1. i \in Int /\ f \in Int /\ f + (i - f) = i
    BY DivMod, BytesFacts
  <2>2. d[i] \subseteq 0..7
    BY DEF Byte
  <2>3. \A j : m(j) \subseteq 0..7
    BY DEF BYTEWISE_BITMASK, Shr, Shl
  <2>4. ASSUME NEW p \in 0..7
        PROVE  /\ i - f \in 0..(n - 1) => (p \in m(i - f) <=> 8 * i + p \in s..(s + c - 1))
               /\ i - f \notin 0..(n - 1) => 8 * i + p \notin s..(s + c - 1)
    <3>1. i - f \in Int /\ s \div 8 + (i - f) = i
      BY <2>1
    <3> QED
      BY <3>1, MaskFacts
  <2> HIDE DEF f, n, m
  <2> QED
    BY <2>1, <2>2, <2>3, <2>4
<1>3. DOMAIN d = Bytes(len)
  OBVIOUS
<1> HIDE DEF L, R
<1>4. [i \in DOMAIN d |-> L(i)] = [i \in DOMAIN d |-> R(i)]
  BY <1>2, <1>3
<1> QED
  BY <1>1, <1>4 DEF R, Filled

-----------------------------------------------------------------------------
(* What the loop of Copy aligns with bit p of byte j of the destination is *)
(* the bit of the origin that belongs there.                               *)
LEMMA AlignedBit ==
  ASSUME NEW len \in Nat, NEW o \in [Bytes(len) -> Byte],
         NEW di \in Nat, NEW oi \in Nat, NEW c \in Nat, oi + c <= len,
         NEW j \in 0..(ACCESSED_BYTES(oi, c) - 1), NEW p \in 0..7,
         8 * (di \div 8 + j) + p \in di..(di + c - 1)
  PROVE  p \in Aligned(j, di, o, oi, c)
           <=> ((8 * (di \div 8 + j) + p) - di + oi) % 8
                 \in o[((8 * (di \div 8 + j) + p) - di + oi) \div 8]
<1>1. PICK g \in Nat, oo \in 0..7, a \in Nat, b \in 0..7 :
           /\ oi = 8 * g + oo /\ oo + c = 8 * a + b
           /\ oi \div 8 = g /\ OVERBYTE(oi) = oo
           /\ ACCESSED_BYTES(oi, c) = a + (IF b # 0 THEN 1 ELSE 0)
           /\ UNDERBYTE(oi + c) = 8 - (IF b # 0 THEN b ELSE 8)
  BY RangeFacts
<1>2. PICK f \in Nat, od \in 0..7 :
           di = 8 * f + od /\ di \div 8 = f /\ OVERBYTE(di) = od
  BY DivMod DEF OVERBYTE
<1> DEFINE n == (8 * (di \div 8 + j) + p) - di + oi
           r == od - oo
           q == p - r
           A == ACCESSED_BYTES(oi, c)
<1>3. n = 8 * (g + j) + q /\ g + j \in Nat /\ j \in Nat /\ q \in Int
  BY <1>1, <1>2
<1>4. \A i \in Nat : i < len => i \div 8 \in Bytes(len)
  BY BytesFacts
<1>5. \A i \in Bytes(len) : o[i] \subseteq 0..7
  BY DEF Byte
<1>6. n \in oi..(oi + c - 1)
  BY <1>1, <1>2
<1>7. A = a + (IF b # 0 THEN 1 ELSE 0)
  BY <1>1
<1>8. \A k \in 0..(A - 1) : g + k \in Bytes(len)
  <2> SUFFICES ASSUME NEW k \in 0..(A - 1) PROVE g + k \in Bytes(len)
    OBVIOUS
  <2>1. CASE k = 0 /\ c = 0
    <3>1. oo # 0 /\ a = 0 /\ b = oo
      BY <1>1, <1>7, <2>1
    <3>2. 8 * g + oo <= len
      BY <1>1
    <3>3. 8 * g \in Nat /\ 8 * g < len
      BY <3>1, <3>2
    <3>4. (8 * g + 0) \div 8 = g
      BY DivModIs
    <3> QED
      BY <1>4, <2>1, <3>3, <3>4
  <2>2. CASE k = 0 /\ c # 0
    <3>1. oi \in Nat /\ oi < len
      BY <2>2
    <3> QED
      BY <1>1, <1>4, <2>2, <3>1
  <2>3. CASE k # 0
    <3>1. 8 * (g + k) \in Nat /\ 8 * (g + k) < oi + c
      BY <1>1, <1>7, <2>3
    <3>2. (8 * (g + k) + 0) \div 8 = g + k
      BY DivModIs
    <3>3. 8 * (g + k) < len
      BY <1>1, <3>1
    <3> QED
      BY <1>4, <3>1, <3>2, <3>3
  <2> QED
    BY <2>1, <2>2, <2>3
<1>9. Aligned(j, di, o, oi, c) =
        IF r > 0
        THEN Shr(o[g + j], r) \cup (IF j > 0 THEN Shl(o[g + j - 1], UNDERBYTE(r)) ELSE {})
        ELSE IF r < 0
        THEN Shl(o[g + j], -r) \cup (IF j < A - 1 THEN Shr(o[g + j + 1], UNDERBYTE(-r)) ELSE {})
        ELSE o[g + j]
  BY <1>1, <1>2 DEF Aligned
<1>0. j \in 0..(A - 1) /\ A \in Nat
  BY <1>1
<1> HIDE DEF A
<1>10. CASE r > 0
  <2>1. UNDERBYTE(r) = 8 - r
    <3>1. r % 8 = r
      BY <1>10
    <3> QED
      BY <1>10, <3>1 DEF UNDERBYTE, OVERBYTE
  <2>2. p \in Aligned(j, di, o, oi, c) <=>
          q \in o[g + j] \/ (j > 0 /\ q + 8 \in o[g + j - 1])
    BY <1>9, <1>10, <2>1 DEF Shr, Shl
  <2>3. CASE q >= 0
    <3>1. q \in 0..7
      BY <1>10, <2>3
    <3>2. n \div 8 = g + j /\ n % 8 = q
      BY <1>3, <3>1, DivModIs
    <3>3. j > 0 => q + 8 \notin o[g + j - 1]
      <4>1. j > 0 => g + (j - 1) \in Bytes(len) /\ g + (j - 1) = g + j - 1
        <5>1. j > 0 => j - 1 \in 0..(A - 1)
          BY <1>0
        <5>2. g + (j - 1) = g + j - 1
          BY <1>0
        <5> QED
          BY <1>8, <5>1, <5>2
      <4>2. q + 8 \notin 0..7
        BY <3>1
      <4> QED
        BY <1>5, <4>1, <4>2
    <3> QED
      BY <2>2, <3>2, <3>3
  <2>4. CASE q < 0
    <3>1. q + 8 \in 0..7
      BY <1>10, <2>4
    <3>2. j > 0
      BY <1>2, <1>3, <1>10, <2>4
    <3>3. n = 8 * (g + j - 1) + (q + 8)
      BY <1>3
    <3>4. n \div 8 = g + j - 1 /\ n % 8 = q + 8
      BY <1>3, <3>1, <3>3, DivModIs
    <3>5. q \notin o[g + j]
      <4>1. g + j \in Bytes(len)
        BY <1>0, <1>8
      <4>2. q \notin 0..7
        BY <2>4
      <4> QED
        BY <1>5, <4>1, <4>2
    <3> QED
      BY <2>2, <3>2, <3>4, <3>5
  <2> QED
    BY <1>3, <2>3, <2>4
<1>11. CASE r < 0
  <2>1. UNDERBYTE(-r) = 8 + r
    <3>1. (-r) % 8 = -r
      BY <1>11
    <3> QED
      BY <1>11, <3>1 DEF UNDERBYTE, OVERBYTE
  <2>2. p \in Aligned(j, di, o, oi, c) <=>
          q \in o[g + j] \/ (j < A - 1 /\ q - 8 \in o[g + j + 1])
    <3>1. p + -r = q /\ p - (8 + r) = q - 8
      OBVIOUS
    <3> QED
      BY <1>9, <1>11, <2>1, <3>1 DEF Shr, Shl
  <2>3. CASE q <= 7
    <3>1. q \in 0..7
      BY <1>11, <2>3
    <3>2. n \div 8 = g + j /\ n % 8 = q
      BY <1>3, <3>1, DivModIs
    <3>3. j < A - 1 => q - 8 \notin o[g + j + 1]
      <4>1. j < A - 1 => g + (j + 1) \in Bytes(len) /\ g + (j + 1) = g + j + 1
        BY <1>0, <1>1, <1>3, <1>8
      <4>2. q - 8 \notin 0..7
        BY <3>1
      <4> QED
        BY <1>5, <4>1, <4>2
    <3> QED
      BY <2>2, <3>2, <3>3
  <2>4. CASE q > 7
    <3>1. q - 8 \in 0..7
      BY <1>11, <2>4
    <3>2. j < A - 1
      BY <1>1, <1>3, <1>6, <1>7, <2>4
    <3>3. n = 8 * (g + j + 1) + (q - 8)
      BY <1>3
    <3>4. n \div 8 = g + j + 1 /\ n % 8 = q - 8
      BY <1>3, <3>1, <3>3, DivModIs
    <3>5. q \notin o[g + j]
      <4>1. g + j \in Bytes(len)
        BY <1>0, <1>8
      <4>2. q \notin 0..7
        BY <2>4
      <4> QED
        BY <1>5, <4>1, <4>2
    <3> QED
      BY <2>2, <3>2, <3>4, <3>5
  <2> QED
    BY <1>3, <2>3, <2>4
<1>12. CASE r = 0
  <2>1. q = p
    BY <1>12
  <2>2. n \div 8 = g + j /\ n % 8 = p
    BY <1>3, <2>1, DivModIs
  <2> QED
    BY <1>9, <1>12, <2>2
<1>13. r > 0 \/ r < 0 \/ r = 0
  OBVIOUS
<1> QED
  BY <1>10, <1>11, <1>12, <1>13

(* The bytes d with the bits the loop of Copy reaches taken from o.        *)
Copied(d, di, o, oi, c) ==
  [i \in DOMAIN d |->
     { p \in 0..7 : IF (8 * i + p) \in { di + k : k \in Reached(di, oi, c) }
                    THEN ((8 * i + p) - di + oi) % 8 \in o[((8 * i + p) - di + oi) \div 8]
                    ELSE p \in d[i] }]

(* Copy to another string copies the bits its loop reaches, and no other.  *)
LEMMA OtherReplaces ==
  ASSUME NEW dlen \in Nat, NEW d \in [Bytes(dlen) -> Byte], NEW di \in Nat,
         NEW olen \in Nat, NEW o \in [Bytes(olen) -> Byte], NEW oi \in Nat,
         NEW c \in Nat, di + c <= dlen, oi + c <= olen
  PROVE  CopyOther(d, di, o, oi, c) = Copied(d, di, o, oi, c)
<1> DEFINE f == di \div 8
           n == Turns(di, oi, c)
           m(j) == BYTEWISE_BITMASK(j, di, c)
           al(j) == Aligned(j, di, o, oi, c)
           Z == { di + k : k \in Reached(di, oi, c) }
           B(x) == (x - di + oi) % 8 \in o[(x - di + oi) \div 8]
           R(i) == { p \in 0..7 : IF (8 * i + p) \in Z THEN B(8 * i + p) ELSE p \in d[i] }
           L(i) == IF (i - f) \in 0..(n - 1)
                   THEN (d[f + (i - f)] \ m(i - f)) \cup (al(i - f) \cap m(i - f))
                   ELSE d[i]
<1>1. CopyOther(d, di, o, oi, c) = [i \in DOMAIN d |-> L(i)]
  BY DEF CopyOther, Loop
<1>2. /\ ACCESSED_BYTES(di, c) \in Nat /\ ACCESSED_BYTES(oi, c) \in Nat
      /\ n \in Nat /\ n <= ACCESSED_BYTES(di, c) /\ n <= ACCESSED_BYTES(oi, c)
  <2>1. ACCESSED_BYTES(di, c) \in Nat /\ ACCESSED_BYTES(oi, c) \in Nat
    BY AccessedNat
  <2> QED
    BY <2>1 DEF Turns
<1>3. ASSUME NEW i \in Bytes(dlen) PROVE L(i) = R(i)
  <2>1. i \in Int /\ f \in Nat /\ f + (i - f) = i
    BY DivMod, BytesFacts
  <2>2. d[i] \subseteq 0..7
    BY DEF Byte
  <2>3. \A j : m(j) \subseteq 0..7
    BY DEF BYTEWISE_BITMASK, Shr, Shl
  <2>4. ASSUME NEW p \in 0..7
        PROVE  8 * i + p \in Z <=> 8 * i + p \in di..(di + c - 1) /\ i < f + n
    <3>1. (8 * i + p) \div 8 = i
      BY <2>1, DivModIs
    <3>2. 8 * i + p \in Z <=> \E k \in 0..(c - 1) : 8 * i + p = di + k /\ (di + k) \div 8 < f + n
      BY DEF Reached
    <3>3. 8 * i + p \in Z => 8 * i + p \in di..(di + c - 1) /\ i < f + n
      BY <2>1, <3>1, <3>2
    <3>4. 8 * i + p \in di..(di + c - 1) =>
            (8 * i + p) - di \in 0..(c - 1) /\ 8 * i + p = di + ((8 * i + p) - di)
      BY <2>1
    <3> QED
      BY <3>1, <3>2, <3>3, <3>4
  <2>5. ASSUME NEW p \in 0..7, i - f \in 0..(n - 1)
        PROVE  /\ p \in m(i - f) <=> 8 * i + p \in Z
               /\ 8 * i + p \in Z => (p \in al(i - f) <=> B(8 * i + p))
    <3>1. i - f \in Int /\ di \div 8 + (i - f) = i /\ i < f + n
      BY <1>2, <2>1, <2>5
    <3>2. i - f \in 0..(ACCESSED_BYTES(di, c) - 1) /\ i - f \in 0..(ACCESSED_BYTES(oi, c) - 1)
      BY <1>2, <2>1, <2>5
    <3>3. p \in m(i - f) <=> 8 * i + p \in di..(di + c - 1)
      BY <3>1, <3>2, MaskFacts
    <3>4. 8 * i + p \in di..(di + c - 1) => (p \in al(i - f) <=> B(8 * i + p))
      <4>1. SUFFICES ASSUME 8 * (di \div 8 + (i - f)) + p \in di..(di + c - 1)
                     PROVE  p \in al(i - f) <=> B(8 * (di \div 8 + (i - f)) + p)
        BY <3>1
      <4> QED
        BY <3>2, <4>1, AlignedBit
    <3> QED
      BY <2>4, <3>1, <3>3, <3>4
  <2>6. ASSUME NEW p \in 0..7, i - f \notin 0..(n - 1)
        PROVE  8 * i + p \notin Z
    <3>1. i - f < 0 => 8 * i + p \notin di..(di + c - 1)
      <4>1. PICK od \in 0..7 : di = 8 * f + od
        BY DivMod
      <4> QED
        BY <2>1, <4>1
    <3>2. i - f < 0 \/ ~(i < f + n)
      BY <1>2, <2>1, <2>6
    <3> QED
      BY <2>4, <3>1, <3>2
  <2> HIDE DEF f, n, m, al, Z, B
  <2>7. CASE i - f \in 0..(n - 1)
    <3>1. \A p \in 0..7 : p \in L(i) <=> p \in R(i)
      BY <2>1, <2>5, <2>7
    <3>2. L(i) \subseteq 0..7
      BY <2>1, <2>2, <2>3, <2>7
    <3> QED
      BY <3>1, <3>2
  <2>8. CASE i - f \notin 0..(n - 1)
    BY <2>2, <2>6, <2>8
  <2> QED
    BY <2>7, <2>8
<1>4. DOMAIN d = Bytes(dlen)
  OBVIOUS
<1> HIDE DEF L, R
<1>5. [i \in DOMAIN d |-> L(i)] = [i \in DOMAIN d |-> R(i)]
  BY <1>3, <1>4
<1> QED
  BY <1>1, <1>5 DEF R, Z, B, Copied

-----------------------------------------------------------------------------
(* A string copied to itself goes through a copy with the same bits: the   *)
(* bits after the last one may differ, and are not read.                   *)
LEMMA SelfReplaces ==
  ASSUME NEW len \in Nat, NEW d \in [Bytes(len) -> Byte], NEW di \in Nat, NEW oi \in Nat,
         NEW c \in Nat, di + c <= len, oi + c <= len
  PROVE  CopySelf(d, len, di, oi, c) = Copied(d, di, d, oi, c)
<1> DEFINE Z == { di + k : k \in Reached(di, oi, c) }
           R == [i \in DOMAIN d |->
                  { p \in 0..7 : IF (8 * i + p) \in Z
                                 THEN ((8 * i + p) - di + oi) % 8
                                        \in d[((8 * i + p) - di + oi) \div 8]
                                 ELSE p \in d[i] }]
<1>1. CASE di = oi
  <2>1. CopySelf(d, len, di, oi, c) = d
    BY <1>1 DEF CopySelf
  <2>2. ASSUME NEW i \in Bytes(len), NEW p \in 0..7
        PROVE  /\ (8 * i + p) - di + oi = 8 * i + p
               /\ ((8 * i + p) - di + oi) % 8 = p
               /\ ((8 * i + p) - di + oi) \div 8 = i
    <3>1. i \in Int
      BY BytesFacts
    <3>2. (8 * i + p) - di + oi = 8 * i + p
      BY <1>1, <3>1
    <3> QED
      BY <3>1, <3>2, DivModIs
  <2>3. \A i \in Bytes(len) : d[i] \subseteq 0..7
    BY DEF Byte
  <2> HIDE DEF Z
  <2>4. ASSUME NEW i \in Bytes(len) PROVE d[i] = R[i]
    BY <2>2, <2>3
  <2>5. d = R
    BY <2>4
  <2> QED
    BY <2>1, <2>5 DEF Z, Copied
<1>2. CASE di # oi
  <2> DEFINE e == CopyOther(Zeros(len), 0, d, 0, len)
             Y == { 0 + k : k \in Reached(0, 0, len) }
  <2>1. Zeros(len) \in [Bytes(len) -> Byte] /\ DOMAIN Zeros(len) = Bytes(len)
    BY DEF Zeros, Byte
  <2>2. e = Copied(Zeros(len), 0, d, 0, len)
    BY <2>1, OtherReplaces
  <2>3. e \in [Bytes(len) -> Byte]
    BY <2>1, <2>2 DEF Byte, Copied
  <2>4. Y = 0..(len - 1)
    <3>1. Turns(0, 0, len) = ACCESSED_BYTES(0, len) /\ ACCESSED_BYTES(0, len) = BitString_Bits2Bytes(len)
      <4>1. len + 0 = len /\ 0 % 8 = 0
        OBVIOUS
      <4> QED
        BY <4>1 DEF Turns, ACCESSED_BYTES, OVERBYTE, BitString_Bits2Bytes
    <3>2. ASSUME NEW k \in 0..(len - 1)
          PROVE  (0 + k) \div 8 < 0 \div 8 + Turns(0, 0, len)
      <4>1. k \div 8 \in Bytes(len) /\ 0 + k = k /\ 0 \div 8 = 0
        BY BytesFacts
      <4> QED
        BY <3>1, <4>1, BytesFacts DEF Bytes
    <3>3. Reached(0, 0, len) = 0..(len - 1)
      BY <3>2 DEF Reached
    <3>4. \A k \in Int : 0 + k = k
      OBVIOUS
    <3>5. \A x \in 0..(len - 1) : x \in Y
      <4> SUFFICES ASSUME NEW x \in 0..(len - 1) PROVE \E k \in 0..(len - 1) : x = 0 + k
        BY <3>3
      <4> QED
        BY <3>4
    <3>6. \A x \in Y : x \in 0..(len - 1)
      BY <3>3, <3>4
    <3> QED
      BY <3>5, <3>6
  <2>5. ASSUME NEW n \in 0..(len - 1)
        PROVE  n % 8 \in e[n \div 8] <=> n % 8 \in d[n \div 8]
    <3>1. n \div 8 \in Bytes(len) /\ n % 8 \in 0..7
          /\ 8 * (n \div 8) + (n % 8) = n /\ n - 0 + 0 = n
      BY BytesFacts, DivMod
    <3>2. e[n \div 8] = { p \in 0..7 : IF (8 * (n \div 8) + p) \in Y
                              THEN ((8 * (n \div 8) + p) - 0 + 0) % 8
                                     \in d[((8 * (n \div 8) + p) - 0 + 0) \div 8]
                              ELSE p \in Zeros(len)[n \div 8] }
      BY <2>1, <2>2, <3>1 DEF Copied
    <3> HIDE DEF e, Y
    <3> QED
      BY <2>4, <3>1, <3>2
  <2>6. CopySelf(d, len, di, oi, c) = CopyOther(d, di, e, oi, c)
    BY <1>2 DEF CopySelf
  <2> HIDE DEF e
  <2> DEFINE Q == [i \in DOMAIN d |->
                    { p \in 0..7 : IF (8 * i + p) \in Z
                                   THEN ((8 * i + p) - di + oi) % 8
                                          \in e[((8 * i + p) - di + oi) \div 8]
                                   ELSE p \in d[i] }]
  <2>7. CopyOther(d, di, e, oi, c) = Copied(d, di, e, oi, c)
    BY <2>3, OtherReplaces
  <2>8. \A x \in Z : x - di + oi \in 0..(len - 1)
    BY DEF Reached
  <2> HIDE DEF Z
  <2>9. ASSUME NEW i \in Bytes(len) PROVE Q[i] = R[i]
    BY <2>5, <2>8
  <2>10. Q = R
    BY <2>9
  <2>11. Copied(d, di, e, oi, c) = Q
    BY DEF Z, Copied
  <2> QED
    BY <2>6, <2>7, <2>10, <2>11 DEF Z, Copied
<1> QED
  BY <1>1, <1>2

LEMMA CopyReplaces ==
  ASSUME LengthAssumption, TypeOK, NEW dest \in BS, NEW orig \in BS,
         NEW di \in Nat, NEW oi \in Nat, NEW c \in Nat,
         di + c <= Length[dest], oi + c <= Length[orig]
  PROVE  BitString_Copy(dest, di, orig, oi, c) = Copied(data[dest], di, data[orig], oi, c)
<1>1. /\ Length[dest] \in Nat /\ data[dest] \in [Bytes(Length[dest]) -> Byte]
      /\ Length[orig] \in Nat /\ data[orig] \in [Bytes(Length[orig]) -> Byte]
  BY DEF LengthAssumption, TypeOK
<1>2. CASE dest = orig
  <2>1. BitString_Copy(dest, di, orig, oi, c) = CopySelf(data[dest], Length[dest], di, oi, c)
    BY <1>2 DEF BitString_Copy
  <2> QED
    BY <1>1, <1>2, <2>1, SelfReplaces
<1>3. CASE dest # orig
  <2>1. BitString_Copy(dest, di, orig, oi, c) = CopyOther(data[dest], di, data[orig], oi, c)
    BY <1>3 DEF BitString_Copy
  <2> QED
    BY <1>1, <2>1, OtherReplaces
<1> QED
  BY <1>2, <1>3

-----------------------------------------------------------------------------
LEMMA RangeMember ==
  ASSUME LengthAssumption, NEW s \in BS, NEW r \in Range(s)
  PROVE  r[1] \in Nat /\ r[2] \in Nat /\ r[1] + r[2] <= Length[s] /\ Length[s] \in Nat
BY DEF Range, LengthAssumption

(* Every string keeps its bytes (bitstring.c:13-118), whatever the lengths *)
(* of the strings and however many calls there are.                        *)
THEOREM TypeCorrect == Spec => []TypeOK
<1> USE LengthAssumption
<1>1. Init => TypeOK
  <2>1. \A s \in BS : Zeros(Length[s]) \in [Bytes(Length[s]) -> Byte]
    BY DEF Zeros, Byte
  <2> QED
    BY <2>1 DEF Init, TypeOK
<1>2. TypeOK /\ [Next]_vars => TypeOK'
  <2> SUFFICES ASSUME TypeOK, [Next]_vars PROVE TypeOK'
    OBVIOUS
  <2>1. \A s \in BS : data[s] \in [Bytes(Length[s]) -> Byte] /\ Length[s] \in Nat
    BY DEF TypeOK, LengthAssumption
  <2>2. ASSUME NEW s \in BS, NEW d \in [Bytes(Length[s]) -> Byte],
               data' = [data EXCEPT ![s] = d], calls' = calls + 1
        PROVE  TypeOK'
    <3>1. data = [t \in BS |-> data[t]]
      BY DEF TypeOK
    <3>2. \A t \in BS : data'[t] = IF t = s THEN d ELSE data[t]
      BY <2>2, <3>1
    <3>3. data' = [t \in BS |-> data'[t]]
      BY <2>2, <3>1
    <3>4. calls' \in Nat
      BY <2>2 DEF TypeOK
    <3> QED
      BY <2>1, <3>2, <3>3, <3>4 DEF TypeOK
  <2>3. ASSUME NEW s \in BS, NEW value \in BOOLEAN, NEW index \in -1..Length[s], Set(s, index, value)
        PROVE  TypeOK'
    <3> DEFINE d == BitString_Set(data[s], Length[s], index, value)
    <3>1. d \in [Bytes(Length[s]) -> Byte]
      <4>1. CASE index < 0 \/ index >= Length[s]
        BY <2>1, <4>1 DEF BitString_Set
      <4>2. CASE ~(index < 0 \/ index >= Length[s])
        <5>1. index \in Nat
          BY <2>1, <4>2
        <5>2. index % 8 \in 0..7
          BY <5>1, DivMod
        <5> DEFINE b == index \div 8
                   new == IF value THEN data[s][b] \cup {index % 8} ELSE data[s][b] \ {index % 8}
        <5>3. d = [data[s] EXCEPT ![b] = new]
          BY <4>2 DEF BitString_Set
        <5>4. b \in Bytes(Length[s])
          BY <2>1, <4>2, <5>1, BytesFacts
        <5>5. data[s][b] \in SUBSET (0..7)
          BY <2>1, <5>4 DEF Byte
        <5>6. new \in Byte
          BY <5>2, <5>5 DEF Byte
        <5> HIDE DEF new, b
        <5> QED
          BY <2>1, <5>3, <5>6
      <4> QED
        BY <4>1, <4>2
    <3>2. data' = [data EXCEPT ![s] = d] /\ calls' = calls + 1
      BY <2>3 DEF Set, TypeOK
    <3> HIDE DEF d
    <3> QED
      BY <2>2, <3>1, <3>2
  <2>4. ASSUME NEW s \in BS, NEW value \in BOOLEAN, NEW r \in Range(s), Fill(s, r, value)
        PROVE  TypeOK'
    <3> DEFINE d == BitString_Fill(data[s], r[1], r[2], value)
    <3>1. d \in [Bytes(Length[s]) -> Byte]
      <4>1. r[1] \in Nat /\ r[2] \in Nat /\ r[1] + r[2] <= Length[s]
        BY RangeMember
      <4>2. d = Filled(data[s], r[1], r[2], value)
        BY <2>1, <4>1, FillReplaces
      <4> QED
        BY <2>1, <4>2 DEF Byte, Filled
    <3>2. data' = [data EXCEPT ![s] = d] /\ calls' = calls + 1
      BY <2>4 DEF Fill, TypeOK
    <3> HIDE DEF d
    <3> QED
      BY <2>2, <3>1, <3>2
  <2>5. ASSUME NEW dest \in BS, NEW orig \in BS, NEW r \in Range(orig),
               NEW di \in 0..Length[dest], Copy(dest, di, orig, r)
        PROVE  TypeOK'
    <3> DEFINE d == BitString_Copy(dest, di, orig, r[1], r[2])
    <3>1. d \in [Bytes(Length[dest]) -> Byte]
      <4>1. di \in Nat /\ di + r[2] <= Length[dest]
        BY <2>1, <2>5 DEF Copy
      <4>2. d = Copied(data[dest], di, data[orig], r[1], r[2])
        BY <4>1, RangeMember, CopyReplaces
      <4> QED
        BY <2>1, <4>2 DEF Copied, Byte
    <3>2. data' = [data EXCEPT ![dest] = d] /\ calls' = calls + 1
      BY <2>5 DEF Copy, TypeOK
    <3> HIDE DEF d
    <3> QED
      BY <2>2, <3>1, <3>2
  <2>6. CASE UNCHANGED vars
    BY <2>6 DEF TypeOK, vars
  <2> QED
    BY <2>3, <2>4, <2>5, <2>6 DEF Next
<1> QED
  BY <1>1, <1>2, PTL DEF Spec

(* BitString_Fill (bitstring.c:64-76) gives the bits of its range, and no  *)
(* other, the value: for strings of every length, whatever their bytes are *)
(* and wherever the range begins and ends.                                 *)
THEOREM FillSetsItsRange == Spec => []FillExact
<1>1. TypeOK => FillExact
  <2> SUFFICES ASSUME TypeOK, NEW s \in BS, NEW value \in BOOLEAN, NEW r \in Range(s)
               PROVE  BitString_Fill(data[s], r[1], r[2], value)
                        = [i \in DOMAIN data[s] |->
                             { p \in 0..7 : IF (8 * i + p) \in r[1]..(r[1] + r[2] - 1)
                                            THEN value ELSE p \in data[s][i] }]
    BY DEF FillExact, Replaced
  <2>1. Length[s] \in Nat /\ data[s] \in [Bytes(Length[s]) -> Byte]
    BY LengthAssumption DEF TypeOK, LengthAssumption
  <2>2. r[1] \in Nat /\ r[2] \in Nat /\ r[1] + r[2] <= Length[s]
    BY LengthAssumption, RangeMember
  <2>3. BitString_Fill(data[s], r[1], r[2], value) = Filled(data[s], r[1], r[2], value)
    BY <2>1, <2>2, FillReplaces
  <2> QED
    BY <2>3 DEF Filled
<1> QED
  BY <1>1, TypeCorrect, PTL

(* BitString_Copy (bitstring.c:79-118) copies the bits of its range that   *)
(* its loop reaches, between two strings and inside of one, and changes no *)
(* other bit; and they are the whole range when the destination's lies in  *)
(* no more bytes than the origin's.  For strings of every length, and all  *)
(* alignments of the two ranges.                                           *)
THEOREM CopyTakesWhatItReaches == Spec => []CopyReached
<1> USE LengthAssumption
<1>1. ASSUME TypeOK PROVE Copies(Reached)
  <2> SUFFICES ASSUME NEW dest \in BS, NEW orig \in BS, NEW r \in Range(orig),
                      NEW di \in 0..Length[dest], di + r[2] <= Length[dest]
               PROVE  BitString_Copy(dest, di, orig, r[1], r[2])
                        = [i \in DOMAIN data[dest] |->
                             { p \in 0..7 :
                                 IF (8 * i + p) \in { di + k : k \in Reached(di, r[1], r[2]) }
                                 THEN ((8 * i + p) - di + r[1]) % 8
                                        \in data[orig][((8 * i + p) - di + r[1]) \div 8]
                                 ELSE p \in data[dest][i] }]
    BY DEF Copies, Replaced
  <2>1. di \in Nat
    OBVIOUS
  <2>2. BitString_Copy(dest, di, orig, r[1], r[2])
          = Copied(data[dest], di, data[orig], r[1], r[2])
    BY <1>1, <2>1, RangeMember, CopyReplaces
  <2> QED
    BY <2>2 DEF Copied
<1>2. ASSUME NEW s \in BS, NEW r \in Range(s), NEW di \in 0..Length[s],
             ACCESSED_BYTES(di, r[2]) <= ACCESSED_BYTES(r[1], r[2])
      PROVE  Reached(di, r[1], r[2]) = 0..(r[2] - 1)
  <2>0. r[1] \in Nat /\ r[2] \in Nat /\ di \in Nat
    BY RangeMember
  <2>1. /\ r[1] \in Nat /\ r[2] \in Nat /\ di \in Nat
        /\ ACCESSED_BYTES(di, r[2]) \in Nat /\ ACCESSED_BYTES(r[1], r[2]) \in Nat
    BY <2>0, AccessedNat
  <2>2. Turns(di, r[1], r[2]) = ACCESSED_BYTES(di, r[2])
    BY <1>2, <2>1 DEF Turns
  <2>3. PICK f \in Nat, o \in 0..7, a \in Nat, b \in 0..7 :
           /\ di = 8 * f + o /\ o + r[2] = 8 * a + b
           /\ di \div 8 = f /\ OVERBYTE(di) = o
           /\ ACCESSED_BYTES(di, r[2]) = a + (IF b # 0 THEN 1 ELSE 0)
           /\ UNDERBYTE(di + r[2]) = 8 - (IF b # 0 THEN b ELSE 8)
    BY <2>1, RangeFacts
  <2>4. ASSUME NEW k \in 0..(r[2] - 1)
        PROVE  (di + k) \div 8 < di \div 8 + Turns(di, r[1], r[2])
    <3>1. /\ di + k = 8 * ((di + k) \div 8) + ((di + k) % 8)
          /\ (di + k) \div 8 \in Nat /\ (di + k) % 8 \in 0..7
      <4>1. di + k \in Nat
        BY <2>1
      <4> QED
        BY <4>1, DivMod
    <3> QED
      BY <2>1, <2>2, <2>3, <3>1
  <2> QED
    BY <2>4 DEF Reached
<1>3. TypeOK => CopyReached
  BY <1>1, <1>2 DEF CopyReached
<1> QED
  BY <1>3, TypeCorrect, PTL

=============================================================================
