---------------------------- MODULE CodegenProofs ---------------------------
(***************************************************************************)
(* One instruction from its source line to what a processor decodes, for   *)
(* every register, every literal and every label number.                   *)
(***************************************************************************)
EXTENDS CodegenCheck, EncodingProofs, WellFoundedInduction

(***************************************************************************)
(* Numbers and words.                                                      *)
(***************************************************************************)

(* The low byte of a number is a byte of a word. *)
LowByte(n, w, k) == n \in Int /\ n % 256 = Byte(w, k)

(* Then its digits are the bits of that byte. *)
LEMMA ByteDigits ==
    ASSUME NEW w, NEW k \in Nat, NEW n, LowByte(n, w, k)
    PROVE  /\ (n \div 1) % 2 = Bit(w, k)        /\ (n \div 2) % 2 = Bit(w, k + 1)
           /\ (n \div 4) % 2 = Bit(w, k + 2)    /\ (n \div 8) % 2 = Bit(w, k + 3)
           /\ (n \div 16) % 2 = Bit(w, k + 4)   /\ (n \div 32) % 2 = Bit(w, k + 5)
           /\ (n \div 64) % 2 = Bit(w, k + 6)   /\ (n \div 128) % 2 = Bit(w, k + 7)
<1> DEFINE b0 == Bit(w, k)      b1 == Bit(w, k + 1)  b2 == Bit(w, k + 2)  b3 == Bit(w, k + 3)
           b4 == Bit(w, k + 4)  b5 == Bit(w, k + 5)  b6 == Bit(w, k + 6)  b7 == Bit(w, k + 7)
           h == n \div 256
           low == b0 + 2 * b1 + 4 * b2 + 8 * b3 + 16 * b4 + 32 * b5 + 64 * b6 + 128 * b7
<1>1. /\ b0 \in 0..1 /\ b1 \in 0..1 /\ b2 \in 0..1 /\ b3 \in 0..1
      /\ b4 \in 0..1 /\ b5 \in 0..1 /\ b6 \in 0..1 /\ b7 \in 0..1
  BY DEF Bit
<1>2. Byte(w, k) = low
  BY DEF Byte
<1> HIDE DEF b0, b1, b2, b3, b4, b5, b6, b7
<1>3. low \in 0..255 /\ n \in Int /\ h \in Int /\ n = low + 256 * h
  BY <1>1, <1>2 DEF LowByte
<1> HIDE DEF h
<1>4. /\ (n \div 1) % 2 = b0 /\ (n \div 2) % 2 = b1
      /\ (n \div 4) % 2 = b2 /\ (n \div 8) % 2 = b3
  BY <1>1, <1>3
<1>5. /\ n \div 16 = b4 + 2 * (b5 + 2 * (b6 + 2 * (b7 + 2 * h)))
      /\ n \div 32 = b5 + 2 * (b6 + 2 * (b7 + 2 * h))
      /\ n \div 64 = b6 + 2 * (b7 + 2 * h)
      /\ n \div 128 = b7 + 2 * h
  BY <1>1, <1>3
<1>6. /\ (n \div 16) % 2 = b4 /\ (n \div 32) % 2 = b5
      /\ (n \div 64) % 2 = b6 /\ (n \div 128) % 2 = b7
  BY <1>1, <1>3, <1>5
<1> QED
  BY <1>4, <1>6 DEF b0, b1, b2, b3, b4, b5, b6, b7

(* A byte is one. *)
LEMMA ByteRange ==
    ASSUME NEW w, NEW k
    PROVE  Byte(w, k) \in 0..255
  BY DEF Byte, Bit

(* Digits of a number above its low bytes. *)
LEMMA UpperDigits ==
    ASSUME NEW n \in Int, NEW p \in {1, 2, 4, 8, 16, 32, 64, 128}
    PROVE  /\ (n \div 256) \div p = n \div (256 * p)
           /\ ((n \div 256) \div 256) \div p = n \div (65536 * p)
           /\ (((n \div 256) \div 256) \div 256) \div p = n \div (16777216 * p)
<1>1. (n \div 256) \div p = n \div (256 * p)
  OBVIOUS
<1>2. ((n \div 256) \div 256) \div p = n \div (65536 * p)
  OBVIOUS
<1>3. (((n \div 256) \div 256) \div 256) \div p = n \div (16777216 * p)
  OBVIOUS
<1> QED
  BY <1>1, <1>2, <1>3

(* ToInt inverts the two's complement of U32. *)
LEMMA WordOfInt ==
    ASSUME NEW w \in Word, NEW n, n = ToInt(w)
    PROVE  /\ n \in Int /\ (n < 0 <=> 31 \in w)
           /\ U32(n) = w
<1> DEFINE c0 == Byte(w, 0)  c1 == Byte(w, 8)  c2 == Byte(w, 16)
           h == Byte(w, 24) - 256 * Bit(w, 31)
           n2 == c2 + 256 * h
           n1 == c1 + 256 * n2
<1>1. c0 \in 0..255 /\ c1 \in 0..255 /\ c2 \in 0..255 /\ Byte(w, 24) \in 0..255
  BY ByteRange
<1>2. /\ n = c0 + 256 * c1 + 65536 * c2 + 16777216 * h
      /\ h \in Int /\ (h < 0 <=> 31 \in w)
  <2>1. Bit(w, 31) \in 0..1 /\ (Bit(w, 31) = 1 <=> 31 \in w)
    BY DEF Bit
  <2> QED
    BY <1>1, <2>1 DEF ToInt
<1>3. h % 256 = Byte(w, 24)
  BY <1>1 DEF Bit
<1> HIDE DEF c0, c1, c2, h
<1>4. /\ n1 \in Int /\ n2 \in Int /\ n \in Int /\ n = c0 + 256 * n1
      /\ (n < 0 <=> 31 \in w)
  BY <1>1, <1>2
<1>5. LowByte(n, w, 0) /\ LowByte(n1, w, 8) /\ LowByte(n2, w, 16) /\ LowByte(h, w, 24)
  <2>1. n % 256 = c0 /\ n1 % 256 = c1 /\ n2 % 256 = c2
    BY <1>1, <1>2, <1>4
  <2> QED
    BY <1>2, <1>3, <1>4, <2>1 DEF LowByte, c0, c1, c2
<1>6. n \div 256 = n1 /\ n1 \div 256 = n2 /\ n2 \div 256 = h
  BY <1>1, <1>2, <1>4
<1> HIDE DEF n2, n1
<1>7. ASSUME NEW p \in {1, 2, 4, 8, 16, 32, 64, 128}
      PROVE  /\ n1 \div p = n \div (256 * p)
             /\ n2 \div p = n \div (65536 * p)
             /\ h \div p = n \div (16777216 * p)
  <2>1. n2 = (n \div 256) \div 256 /\ h = ((n \div 256) \div 256) \div 256
    BY <1>6
  <2> QED
    BY <1>4, <1>6, <2>1, UpperDigits
<1> DEFINE P(b) == (n \div 2^b) % 2 = Bit(w, b)
<1>8. /\ P(0) /\ P(1) /\ P(2) /\ P(3) /\ P(4) /\ P(5) /\ P(6) /\ P(7)
  <2>1. /\ (n \div 1) % 2 = Bit(w, 0) /\ (n \div 2) % 2 = Bit(w, 1)
        /\ (n \div 4) % 2 = Bit(w, 2) /\ (n \div 8) % 2 = Bit(w, 3)
        /\ (n \div 16) % 2 = Bit(w, 4) /\ (n \div 32) % 2 = Bit(w, 5)
        /\ (n \div 64) % 2 = Bit(w, 6) /\ (n \div 128) % 2 = Bit(w, 7)
    BY <1>5, ByteDigits
  <2> QED
    BY <2>1
<1>9. /\ P(8) /\ P(9) /\ P(10) /\ P(11) /\ P(12) /\ P(13) /\ P(14) /\ P(15)
  <2>1. /\ (n1 \div 1) % 2 = Bit(w, 8) /\ (n1 \div 2) % 2 = Bit(w, 9)
        /\ (n1 \div 4) % 2 = Bit(w, 10) /\ (n1 \div 8) % 2 = Bit(w, 11)
        /\ (n1 \div 16) % 2 = Bit(w, 12) /\ (n1 \div 32) % 2 = Bit(w, 13)
        /\ (n1 \div 64) % 2 = Bit(w, 14) /\ (n1 \div 128) % 2 = Bit(w, 15)
    BY <1>5, ByteDigits
  <2>2. /\ n1 \div 1 = n \div 256 /\ n1 \div 2 = n \div 512
        /\ n1 \div 4 = n \div 1024 /\ n1 \div 8 = n \div 2048
        /\ n1 \div 16 = n \div 4096 /\ n1 \div 32 = n \div 8192
        /\ n1 \div 64 = n \div 16384 /\ n1 \div 128 = n \div 32768
    BY <1>7
  <2> QED
    BY <2>1, <2>2
<1>10. /\ P(16) /\ P(17) /\ P(18) /\ P(19) /\ P(20) /\ P(21) /\ P(22) /\ P(23)
  <2>1. /\ (n2 \div 1) % 2 = Bit(w, 16) /\ (n2 \div 2) % 2 = Bit(w, 17)
        /\ (n2 \div 4) % 2 = Bit(w, 18) /\ (n2 \div 8) % 2 = Bit(w, 19)
        /\ (n2 \div 16) % 2 = Bit(w, 20) /\ (n2 \div 32) % 2 = Bit(w, 21)
        /\ (n2 \div 64) % 2 = Bit(w, 22) /\ (n2 \div 128) % 2 = Bit(w, 23)
    BY <1>5, ByteDigits
  <2>2. /\ n2 \div 1 = n \div 65536 /\ n2 \div 2 = n \div 131072
        /\ n2 \div 4 = n \div 262144 /\ n2 \div 8 = n \div 524288
        /\ n2 \div 16 = n \div 1048576 /\ n2 \div 32 = n \div 2097152
        /\ n2 \div 64 = n \div 4194304 /\ n2 \div 128 = n \div 8388608
    BY <1>7
  <2> QED
    BY <2>1, <2>2
<1>11. /\ P(24) /\ P(25) /\ P(26) /\ P(27) /\ P(28) /\ P(29) /\ P(30)
  <2>1. /\ (h \div 1) % 2 = Bit(w, 24) /\ (h \div 2) % 2 = Bit(w, 25)
        /\ (h \div 4) % 2 = Bit(w, 26) /\ (h \div 8) % 2 = Bit(w, 27)
        /\ (h \div 16) % 2 = Bit(w, 28) /\ (h \div 32) % 2 = Bit(w, 29)
        /\ (h \div 64) % 2 = Bit(w, 30)
    BY <1>5, ByteDigits
  <2>2. /\ h \div 1 = n \div 16777216 /\ h \div 2 = n \div 33554432
        /\ h \div 4 = n \div 67108864 /\ h \div 8 = n \div 134217728
        /\ h \div 16 = n \div 268435456 /\ h \div 32 = n \div 536870912
        /\ h \div 64 = n \div 1073741824
    BY <1>7
  <2> QED
    BY <2>1, <2>2
<1>12. ASSUME NEW b \in 0..30 PROVE P(b)
  <2> HIDE DEF P
  <2>1. b \in 0..7 \/ b \in 8..15 \/ b \in 16..23 \/ b \in 24..30
    OBVIOUS
  <2> QED
    BY <1>8, <1>9, <1>10, <1>11, <2>1
<1>13. ASSUME NEW b \in 0..30 PROVE b \in U32(n) <=> b \in w
  <2>1. b \in U32(n) <=> (n \div 2^b) % 2 = 1
    BY DEF U32
  <2>2. (n \div 2^b) % 2 = Bit(w, b)
    BY <1>12
  <2> QED
    BY <2>1, <2>2 DEF Bit
<1>14. 31 \in U32(n) <=> 31 \in w
  BY <1>4 DEF U32
<1>15. U32(n) \subseteq 0..31 /\ w \subseteq 0..31
  BY U32Word DEF Word
<1> QED
  <2>1. ASSUME NEW b \in 0..31 PROVE b \in U32(n) <=> b \in w
    <3>1. b \in 0..30 \/ b = 31
      OBVIOUS
    <3> QED
      BY <1>13, <1>14, <3>1
  <2>2. U32(n) = w
    BY <1>15, <2>1
  <2> QED
    BY <1>4, <2>2

(* The lowest bit of a number that is not 0. *)
LEMMA LowestBit ==
    ASSUME NEW x \in SUBSET Nat, x # {}
    PROVE  Min(x) \in x /\ \A b \in x : Min(x) <= b
<1> DEFINE R == OpToRel(<, Nat)
<1>1. PICK k \in x : \A b \in x : <<b, k>> \notin R
  BY NatLessThanWellFounded, WFMin
<1>2. \A b \in x : ~(b < k)
  BY <1>1 DEF OpToRel
<1>3. \A b \in x : k <= b
  BY <1>2
<1> QED
  BY <1>3 DEF Min

(* The bits of x and of -x, added: none below the lowest bit of x, twice   *)
(* that bit, and one of each above.                                        *)
BitSum(x, y, k, b) == Bit(x, b) + Bit(y, b) = IF b < k THEN 0 ELSE IF b = k THEN 2 ELSE 1

(* A byte of such a sum: a carry comes out of the byte of bit k. *)
LEMMA ByteSum ==
    ASSUME NEW x, NEW y, NEW k \in Nat, NEW b \in Nat,
           \A c \in b..(b + 7) : BitSum(x, y, k, c)
    PROVE  Byte(x, b) + Byte(y, b) = IF k >= b + 8 THEN 0 ELSE IF k >= b THEN 256 ELSE 255
<1> DEFINE s(j) == Bit(x, b + j) + Bit(y, b + j)
<1>1. ASSUME NEW j \in 0..7
      PROVE  /\ Bit(x, b + j) \in 0..1 /\ Bit(y, b + j) \in 0..1
             /\ s(j) = IF b + j < k THEN 0 ELSE IF b + j = k THEN 2 ELSE 1
  <2>1. b + j \in b..(b + 7)
    OBVIOUS
  <2>2. BitSum(x, y, k, b + j)
    BY <2>1
  <2> QED
    BY <2>2 DEF BitSum, Bit
<1>2. Bit(x, b) = Bit(x, b + 0) /\ Bit(y, b) = Bit(y, b + 0)
  BY DEF Bit
<1> DEFINE t(j) == IF b + j < k THEN 0 ELSE IF b + j = k THEN 2 ELSE 1
<1>3. Byte(x, b) + Byte(y, b) = s(0) + 2 * s(1) + 4 * s(2) + 8 * s(3) + 16 * s(4)
                                  + 32 * s(5) + 64 * s(6) + 128 * s(7)
  BY <1>1, <1>2 DEF Byte
<1>4. Byte(x, b) + Byte(y, b) = t(0) + 2 * t(1) + 4 * t(2) + 8 * t(3) + 16 * t(4)
                                  + 32 * t(5) + 64 * t(6) + 128 * t(7)
  BY <1>1, <1>3
<1> QED
  BY <1>4

(* Negate is the minus of two's complement, on what fits an int. *)
LEMMA NegateValue ==
    ASSUME NEW x \in SUBSET (0..30), NEW y, y = Low(Negate(x), 32)
    PROVE  ToInt(y) = -ToInt(x) /\ ToInt(x) \in Int
<1>1. CASE x = {}
  <2>1. y = {}
    BY <1>1 DEF Low, Negate
  <2>2. \A b : Bit({}, b) = 0
    BY DEF Bit
  <2>3. \A b : Byte({}, b) = 0
    BY <2>2 DEF Byte
  <2>4. ToInt({}) = 0
    BY <2>2, <2>3 DEF ToInt
  <2> QED
    BY <1>1, <2>1, <2>4
<1>2. CASE x # {}
  <2> DEFINE k == Min(x)
  <2>1. k \in x /\ k \in 0..30 /\ \A b \in x : k <= b
    <3>1. x \in SUBSET Nat
      OBVIOUS
    <3>2. Min(x) \in x /\ \A b \in x : Min(x) <= b
      BY <1>2, <3>1, LowestBit
    <3> QED
      BY <3>2
  <2>2. \A b \in 0..31 : b \in y <=> b = k \/ (b > k /\ b \notin x)
    <3>1. Negate(x) = {b \in 0..63 : b = k \/ (b > k /\ b \notin x)}
      BY <1>2 DEF Negate
    <3> HIDE DEF k
    <3>2. y = Negate(x) \cap (0..31)
      BY DEF Low
    <3> QED
      BY <3>1, <3>2
  <2> HIDE DEF k
  <2>3. ASSUME NEW b \in 0..31 PROVE BitSum(x, y, k, b)
    BY <2>1, <2>2 DEF BitSum, Bit
  <2> DEFINE sum(b) == Byte(x, b) + Byte(y, b)
  <2>4. /\ sum(0) = IF k >= 8 THEN 0 ELSE 256
        /\ sum(8) = IF k >= 16 THEN 0 ELSE IF k >= 8 THEN 256 ELSE 255
        /\ sum(16) = IF k >= 24 THEN 0 ELSE IF k >= 16 THEN 256 ELSE 255
        /\ sum(24) = IF k >= 24 THEN 256 ELSE 255
    <3>1. ASSUME NEW b \in {0, 8, 16, 24}
          PROVE  sum(b) = IF k >= b + 8 THEN 0 ELSE IF k >= b THEN 256 ELSE 255
      <4>1. \A c \in b..(b + 7) : BitSum(x, y, k, c)
        BY <2>3
      <4> QED
        BY <2>1, <4>1, ByteSum
    <3> HIDE DEF sum
    <3> QED
      BY <2>1, <3>1
  <2>5. Bit(x, 31) = 0 /\ Bit(y, 31) = 1
    BY <2>1, <2>2 DEF Bit
  <2>6. /\ Byte(x, 0) \in 0..255 /\ Byte(x, 8) \in 0..255 /\ Byte(x, 16) \in 0..255
        /\ Byte(x, 24) \in 0..255 /\ Byte(y, 0) \in 0..255 /\ Byte(y, 8) \in 0..255
        /\ Byte(y, 16) \in 0..255 /\ Byte(y, 24) \in 0..255
    BY ByteRange
  <2>7. /\ ToInt(x) = Byte(x, 0) + 256 * Byte(x, 8) + 65536 * Byte(x, 16) + 16777216 * Byte(x, 24)
        /\ ToInt(y) = Byte(y, 0) + 256 * Byte(y, 8) + 65536 * Byte(y, 16)
                         + 16777216 * (Byte(y, 24) - 256)
    BY <2>5, <2>6 DEF ToInt
  <2> DEFINE x0 == Byte(x, 0)   x1 == Byte(x, 8)   x2 == Byte(x, 16)   x3 == Byte(x, 24)
             y0 == Byte(y, 0)   y1 == Byte(y, 8)   y2 == Byte(y, 16)   y3 == Byte(y, 24)
  <2>8. /\ x0 \in Int /\ x1 \in Int /\ x2 \in Int /\ x3 \in Int
        /\ y0 \in Int /\ y1 \in Int /\ y2 \in Int /\ y3 \in Int
        /\ ToInt(x) = x0 + 256 * x1 + 65536 * x2 + 16777216 * x3
        /\ ToInt(y) = y0 + 256 * y1 + 65536 * y2 + 16777216 * (y3 - 256)
    BY <2>6, <2>7
  <2>9. /\ x0 + y0 = IF k >= 8 THEN 0 ELSE 256
        /\ x1 + y1 = IF k >= 16 THEN 0 ELSE IF k >= 8 THEN 256 ELSE 255
        /\ x2 + y2 = IF k >= 24 THEN 0 ELSE IF k >= 16 THEN 256 ELSE 255
        /\ x3 + y3 = IF k >= 24 THEN 256 ELSE 255
    BY <2>4
  <2> HIDE DEF x0, x1, x2, x3, y0, y1, y2, y3
  <2>10. k \in Int
    BY <2>1
  <2> QED
    BY <2>8, <2>9, <2>10
<1> QED
  BY <1>1, <1>2

(* The magnitude of a literal that fits an int, and of one that fits the   *)
(* 12 bits of an immediate.                                                *)
LEMMA Magnitude ==
    ASSUME NEW m \in SUBSET (0..30), NEW v, v = ToInt(m)
    PROVE  /\ v \in Nat /\ U32(v) = m
           /\ v <= 2047 <=> m \subseteq 0..10
           /\ v = 2048 <=> m = {11}
<1>1. m \in Word /\ 31 \notin m
  BY DEF Word
<1>2. v \in Int /\ v >= 0 /\ U32(v) = m
  <2>1. v \in Int /\ (v < 0 <=> 31 \in m) /\ U32(v) = m
    BY <1>1, WordOfInt
  <2> QED
    BY <1>1, <2>1
<1>3. ASSUME v <= 2047 PROVE m \subseteq 0..10
  <2>1. ASSUME NEW b \in 11..30 PROVE b \notin U32(v)
    <3> DEFINE P(k) == k \notin U32(v)
    <3>1. /\ P(11) /\ P(12) /\ P(13) /\ P(14) /\ P(15) /\ P(16) /\ P(17) /\ P(18) /\ P(19)
          /\ P(20) /\ P(21) /\ P(22) /\ P(23) /\ P(24) /\ P(25) /\ P(26) /\ P(27) /\ P(28)
          /\ P(29) /\ P(30)
      BY <1>2, <1>3 DEF U32
    <3> HIDE DEF P
    <3>2. P(b)
      BY <3>1
    <3> QED
      BY <3>2 DEF P
  <2> QED
    BY <1>2, <2>1
<1>4. ASSUME m \subseteq 0..10 PROVE v <= 2047
  <2>1. \A b \in 11..31 : Bit(m, b) = 0
    BY <1>4 DEF Bit
  <2>2. Byte(m, 16) = 0 /\ Byte(m, 24) = 0 /\ Bit(m, 31) = 0
    BY <2>1 DEF Byte
  <2>3. Byte(m, 8) \in 0..7
    <3>1. /\ Bit(m, 11) = 0 /\ Bit(m, 12) = 0 /\ Bit(m, 13) = 0 /\ Bit(m, 14) = 0
          /\ Bit(m, 15) = 0 /\ Bit(m, 8) \in 0..1 /\ Bit(m, 9) \in 0..1 /\ Bit(m, 10) \in 0..1
      BY <2>1 DEF Bit
    <3> QED
      BY <3>1 DEF Byte
  <2>4. Byte(m, 0) \in 0..255
    BY ByteRange
  <2> QED
    BY <2>2, <2>3, <2>4 DEF ToInt
<1>5. ASSUME v = 2048 PROVE m = {11}
  <2> DEFINE P(k) == k \in U32(v)
  <2>1. /\ P(11)
        /\ ~P(0) /\ ~P(1) /\ ~P(2) /\ ~P(3) /\ ~P(4) /\ ~P(5) /\ ~P(6) /\ ~P(7) /\ ~P(8)
        /\ ~P(9) /\ ~P(10)
    BY <1>5 DEF U32
  <2>2. ASSUME NEW b \in 12..31 PROVE ~P(b)
    BY <1>2, <1>5, SignBits
  <2> HIDE DEF P
  <2>3. ASSUME NEW b \in 0..31 PROVE P(b) <=> b = 11
    BY <2>1, <2>2
  <2>4. \A b \in 0..31 : b \in m <=> b = 11
    BY <1>2, <2>3 DEF P
  <2>5. 11 \in m /\ \A b \in m : b = 11
    BY <1>1, <2>4
  <2> QED
    BY <2>5
<1>6. ASSUME m = {11} PROVE v = 2048
  <2>1. Byte(m, 0) = 0 /\ Byte(m, 8) = 8 /\ Byte(m, 16) = 0 /\ Byte(m, 24) = 0 /\ Bit(m, 31) = 0
    BY <1>6 DEF Byte, Bit
  <2> QED
    BY <2>1 DEF ToInt
<1> QED
  BY <1>2, <1>3, <1>4, <1>5, <1>6

(* What the lexer makes of a literal that fits an int is its value, and    *)
(* the range check tells whether 12 bits can hold that.                    *)
LEMMA LiteralValue ==
    ASSUME NEW lit, Small(lit)
    PROVE  /\ Value(lit) \in Int /\ ival(lit) = Value(lit)
           /\ is_within_range_12b(Value(lit)) <=> Fits12(lit)
<1> DEFINE m == lit.mag
           v == ToInt(m)
<1>1. m \in SUBSET (0..30) /\ m \subseteq LONG_MAX
  BY DEF Small, LONG_MAX
<1>2. /\ v \in Nat
      /\ v <= 2047 <=> m \subseteq 0..10
      /\ v = 2048 <=> m = {11}
  BY <1>1, Magnitude
<1>3. CASE lit.neg
  <2>1. ival(lit) = ToInt(Low(Negate(m), 32)) /\ Value(lit) = -v
    BY <1>1, <1>3 DEF ival, strtol, Value
  <2>2. ToInt(Low(Negate(m), 32)) = -v
    BY <1>1, NegateValue
  <2>3. Fits12(lit) <=> v <= 2048
    BY <1>2, <1>3 DEF Fits12
  <2> HIDE DEF v
  <2> QED
    BY <1>2, <2>1, <2>2, <2>3 DEF is_within_range_12b, MIN_12_BIT_SIGNED, MAX_12_BIT_SIGNED
<1>4. CASE ~lit.neg
  <2>1. ival(lit) = ToInt(Low(m, 32)) /\ Value(lit) = v
    BY <1>1, <1>4 DEF ival, strtol, Value
  <2>2. Low(m, 32) = m
    BY <1>1 DEF Low
  <2>3. Fits12(lit) <=> v <= 2047
    BY <1>2, <1>4 DEF Fits12
  <2> QED
    BY <1>2, <2>1, <2>2, <2>3 DEF is_within_range_12b, MIN_12_BIT_SIGNED, MAX_12_BIT_SIGNED
<1> QED
  BY <1>3, <1>4

(* Twelve bits hold a number of their range. *)
LEMMA Immediate12 ==
    ASSUME NEW n \in Int, is_within_range_12b(n)
    PROVE  SignExtend(Low(U32(n), 12), 12) = U32(n)
<1>1. -2048 <= n /\ n < 2048
  BY DEF is_within_range_12b, MIN_12_BIT_SIGNED, MAX_12_BIT_SIGNED
<1>2. ASSUME NEW b \in 11..31 PROVE b \in U32(n) <=> n < 0
  <2>1. CASE b = 11
    BY <1>1, <2>1 DEF U32
  <2>2. CASE b \in 12..31
    BY <1>1, <2>2, SignBits
  <2> QED
    BY <2>1, <2>2
<1> DEFINE x == SignExtend(Low(U32(n), 12), 12)
<1>3. 11 \in Low(U32(n), 12) <=> n < 0
  BY <1>2 DEF Low
<1>4. ASSUME NEW b \in 0..31 PROVE b \in x <=> b \in U32(n)
  <2>1. CASE b \in 0..11
    BY <2>1 DEF SignExtend, Low
  <2>2. CASE b \in 12..31
    <3>1. b \in x <=> n < 0
      BY <1>3, <2>2 DEF SignExtend, Low
    <3> QED
      BY <1>2, <2>2, <3>1
  <2> QED
    BY <2>1, <2>2
<1>5. x \subseteq 0..31 /\ U32(n) \subseteq 0..31
  BY U32Word DEF SignExtend, Low, Word
<1> QED
  BY <1>4, <1>5

(* The fields of a register, a minor and a major opcode hold theirs. *)
LEMMA FieldsFit ==
    /\ \A n \in 0..31 : Low(U32(n), 5) = U32(n)
    /\ \A n \in 0..7 : Low(U32(n), 3) = U32(n)
    /\ \A n \in 0..127 : Low(U32(n), 7) = U32(n)
<1>1. ASSUME NEW n \in 0..127
      PROVE  /\ U32(n) \subseteq 0..6
             /\ n \in 0..31 => U32(n) \subseteq 0..4
             /\ n \in 0..7 => U32(n) \subseteq 0..2
  <2> DEFINE P(k) == k \in U32(n)
  <2>1. /\ ~P(7) /\ ~P(8) /\ ~P(9) /\ ~P(10) /\ ~P(11)
        /\ n \in 0..31 => ~P(5) /\ ~P(6)
        /\ n \in 0..7 => ~P(3) /\ ~P(4) /\ ~P(5) /\ ~P(6)
    BY DEF U32
  <2>2. ASSUME NEW b \in 12..31 PROVE ~P(b)
    BY SignBits
  <2>3. U32(n) \subseteq 0..31
    BY U32Word DEF Word
  <2> HIDE DEF P
  <2>4. ASSUME NEW b \in U32(n)
        PROVE  b \in 0..6 /\ (n \in 0..31 => b \in 0..4) /\ (n \in 0..7 => b \in 0..2)
    <3>1. b \in 0..31 /\ P(b)
      BY <2>3, <2>4 DEF P
    <3> QED
      BY <2>1, <2>2, <3>1
  <2> QED
    BY <2>4
<1> QED
  BY <1>1 DEF Low

-----------------------------------------------------------------------------
(***************************************************************************)
(* The register names of the lexer.                                        *)
(***************************************************************************)

(* Row k of the ABI's table. *)
LEMMA AbiRows ==
    /\ AbiNames[1] = <<"zero", 0>> /\ AbiNames[2] = <<"ra", 0>> /\ AbiNames[3] = <<"sp", 0>>
    /\ AbiNames[4] = <<"gp", 0>> /\ AbiNames[5] = <<"tp", 0>> /\ AbiNames[6] = <<"t", 0>>
    /\ AbiNames[7] = <<"t", 1>> /\ AbiNames[8] = <<"t", 2>> /\ AbiNames[9] = <<"s", 0>>
    /\ AbiNames[10] = <<"s", 1>> /\ AbiNames[11] = <<"a", 0>> /\ AbiNames[12] = <<"a", 1>>
    /\ AbiNames[13] = <<"a", 2>> /\ AbiNames[14] = <<"a", 3>> /\ AbiNames[15] = <<"a", 4>>
    /\ AbiNames[16] = <<"a", 5>> /\ AbiNames[17] = <<"a", 6>> /\ AbiNames[18] = <<"a", 7>>
    /\ AbiNames[19] = <<"s", 2>> /\ AbiNames[20] = <<"s", 3>> /\ AbiNames[21] = <<"s", 4>>
    /\ AbiNames[22] = <<"s", 5>> /\ AbiNames[23] = <<"s", 6>> /\ AbiNames[24] = <<"s", 7>>
    /\ AbiNames[25] = <<"s", 8>> /\ AbiNames[26] = <<"s", 9>> /\ AbiNames[27] = <<"s", 10>>
    /\ AbiNames[28] = <<"s", 11>> /\ AbiNames[29] = <<"t", 3>> /\ AbiNames[30] = <<"t", 4>>
    /\ AbiNames[31] = <<"t", 5>> /\ AbiNames[32] = <<"t", 6>>
  BY DEF AbiNames

(* No two rows are the same. *)
LEMMA AbiUnique ==
    ASSUME NEW j \in 1..32, NEW k \in 1..32, AbiNames[j] = AbiNames[k]
    PROVE  j = k
<1>1. CASE j \in 1..8
  BY <1>1, AbiRows
<1>2. CASE j \in 9..16
  BY <1>2, AbiRows
<1>3. CASE j \in 17..24
  BY <1>3, AbiRows
<1>4. CASE j \in 25..32
  BY <1>4, AbiRows
<1> QED
  BY <1>1, <1>2, <1>3, <1>4

(* So a name is at one place. *)
LEMMA AbiAt ==
    ASSUME NEW name, NEW n, name # "x", NEW j \in 1..32, AbiNames[j] = <<name, n>>
    PROVE  AbiNumber(name, n) = j - 1
<1> DEFINE c == CHOOSE k \in 1..32 : AbiNames[k] = <<name, n>>
<1>1. c \in 1..32 /\ AbiNames[c] = <<name, n>>
  OBVIOUS
<1> HIDE DEF c
<1>2. c = j
  BY <1>1, AbiUnique
<1> QED
  BY <1>2 DEF AbiNumber, c

(* riscvass.l lines 91-103: every name the REG rules match has its number  *)
(* in the ABI, whether it is written xn or not.                            *)
LEMMA RegisterNumbers ==
    ASSUME NEW r \in Registers
    PROVE  register(r) = Number(r) /\ Number(r) \in 0..31
<1>1. CASE r.name = "zero" \/ r.name = "ra" \/ r.name = "sp" \/ r.name = "gp" \/ r.name = "tp"
  <2>1. r.n = 0
    BY <1>1 DEF Registers
  <2>2. /\ AbiNumber("zero", 0) = 0 /\ AbiNumber("ra", 0) = 1 /\ AbiNumber("sp", 0) = 2
        /\ AbiNumber("gp", 0) = 3 /\ AbiNumber("tp", 0) = 4
    BY AbiRows, AbiAt
  <2> QED
    BY <1>1, <2>1, <2>2 DEF register, Number
<1>2. CASE r.name = "a"
  <2>1. r.n \in 0..7
    BY <1>2 DEF Registers
  <2>2. AbiNames[11 + r.n] = <<"a", r.n>> /\ 11 + r.n \in 1..32
    BY <2>1, AbiRows
  <2>3. AbiNumber("a", r.n) = 10 + r.n
    BY <2>1, <2>2, AbiAt
  <2> QED
    BY <1>2, <2>1, <2>3 DEF register, Number
<1>3. CASE r.name = "t"
  <2>1. r.n \in 0..6
    BY <1>3 DEF Registers
  <2>2. CASE r.n \in 0..2
    <3>1. AbiNames[6 + r.n] = <<"t", r.n>> /\ 6 + r.n \in 1..32
      BY <2>2, AbiRows
    <3>2. AbiNumber("t", r.n) = 5 + r.n
      BY <2>2, <3>1, AbiAt
    <3> QED
      BY <1>3, <2>2, <3>2 DEF register, Number
  <2>3. CASE r.n \in 3..6
    <3>1. AbiNames[26 + r.n] = <<"t", r.n>> /\ 26 + r.n \in 1..32
      BY <2>3, AbiRows
    <3>2. AbiNumber("t", r.n) = 25 + r.n
      BY <2>3, <3>1, AbiAt
    <3> QED
      BY <1>3, <2>3, <3>2 DEF register, Number
  <2> QED
    BY <2>1, <2>2, <2>3
<1>4. CASE r.name = "s"
  <2>1. r.n \in 0..11
    BY <1>4 DEF Registers
  <2>2. CASE r.n \in 0..1
    <3>1. AbiNames[9 + r.n] = <<"s", r.n>> /\ 9 + r.n \in 1..32
      BY <2>2, AbiRows
    <3>2. AbiNumber("s", r.n) = 8 + r.n
      BY <2>2, <3>1, AbiAt
    <3> QED
      BY <1>4, <2>2, <3>2 DEF register, Number
  <2>3. CASE r.n \in 2..11
    <3>1. AbiNames[17 + r.n] = <<"s", r.n>> /\ 17 + r.n \in 1..32
      BY <2>3, AbiRows
    <3>2. AbiNumber("s", r.n) = 16 + r.n
      BY <2>3, <3>1, AbiAt
    <3> QED
      BY <1>4, <2>3, <3>2 DEF register, Number
  <2> QED
    BY <2>1, <2>2, <2>3
<1>5. CASE r.name = "x"
  <2>1. r.n \in 0..31
    BY <1>5 DEF Registers
  <2> QED
    BY <1>5, <2>1 DEF register, Number, AbiNumber
<1> QED
  BY <1>1, <1>2, <1>3, <1>4, <1>5 DEF Registers

-----------------------------------------------------------------------------
(***************************************************************************)
(* The rules.  The word that was emitted is the one of the line's rule     *)
(* (and an immediate passed its check); a line exits only by that check.   *)
(***************************************************************************)
EmittedByRule ==
    \/ line.rule = "R" /\ word = RWord(insn)
    \/ /\ line.rule = "I" /\ is_within_range_12b(insn.imm)
       /\ word = IWord(insn, Low(U32(insn.imm), 12))
    \/ line.rule = "LS" /\ word = LSWord(insn)
    \/ line.rule = "B" /\ word = BWord(insn, U32(insn.imm))
    \/ line.rule = "SYS" /\ word = SysWord(insn)
    \/ line.rule = "MV" /\ word = MvWord(insn)
    \/ line.rule = "RET" /\ word = RetWord

RuleInv ==
    /\ line \in Lines
    /\ outcome # "source" => insn = Parsed(line)
    /\ outcome = "emitted" => EmittedByRule
    /\ outcome = "exit" => line.rule = "I" /\ ~is_within_range_12b(insn.imm)

(* RuleInv holds of every line. *)
LEMMA RulesApply == Spec => []RuleInv
<1>1. Init => RuleInv
  BY DEF Init, RuleInv
<1>2. RuleInv /\ [Next]_vars => RuleInv'
  <2> SUFFICES ASSUME RuleInv, [Next]_vars PROVE RuleInv'
    OBVIOUS
  <2> USE DEF RuleInv, EmittedByRule
  <2>1. CASE Lex
    BY <2>1 DEF Lex
  <2>2. ASSUME outcome = "parsed" PROVE insn.rule = line.rule
    BY <2>2 DEF Parsed
  <2>3. CASE RType
    BY <2>2, <2>3 DEF RType, Rule, Emit
  <2>4. CASE IType
    BY <2>2, <2>4 DEF IType, Rule, Emit
  <2>5. CASE IOutOfRange
    BY <2>2, <2>5 DEF IOutOfRange, Rule
  <2>6. CASE LoadStore
    BY <2>2, <2>6 DEF LoadStore, Rule, Emit
  <2>7. CASE Branch
    BY <2>2, <2>7 DEF Branch, Rule, Emit
  <2>8. CASE System
    BY <2>2, <2>8 DEF System, Rule, Emit
  <2>9. CASE Mv
    BY <2>2, <2>9 DEF Mv, Rule, Emit
  <2>10. CASE Ret
    BY <2>2, <2>10 DEF Ret, Rule, Emit
  <2>11. CASE Done \/ UNCHANGED vars
    BY <2>11 DEF Done, vars
  <2> QED
    BY <2>1, <2>3, <2>4, <2>5, <2>6, <2>7, <2>8, <2>9, <2>10, <2>11 DEF Next
<1> QED
  BY <1>1, <1>2, PTL DEF Spec

(* The operands of the rules, in a line that was parsed. *)
LEMMA Operands ==
    ASSUME NEW l \in Lines, NEW i, i = Parsed(l)
    PROVE  /\ i.rule = l.rule /\ i.mn = l.mn
           /\ l.rule # "B" => i.imm = ival(l.lit)
           /\ l.rule = "B" => i.imm = l.offset
           /\ i.op1 = Number(l.op1) /\ i.op2 = Number(l.op2) /\ i.op3 = Number(l.op3)
           /\ i.op1 \in 0..31 /\ i.op2 \in 0..31 /\ i.op3 \in 0..31
<1>1. l.op1 \in Registers /\ l.op2 \in Registers /\ l.op3 \in Registers
  BY LinesAssumption
<1>2. /\ register(l.op1) = Number(l.op1) /\ Number(l.op1) \in 0..31
      /\ register(l.op2) = Number(l.op2) /\ Number(l.op2) \in 0..31
      /\ register(l.op3) = Number(l.op3) /\ Number(l.op3) \in 0..31
  BY <1>1, RegisterNumbers
<1> QED
  BY <1>2 DEF Parsed

(* An empty field. *)
LEMMA Zero == U32(0) = {} /\ {} \in Word /\ \A n : Low({}, n) = {}
<1>1. 0 \notin U32(0) /\ 1 \notin U32(0) /\ 2 \notin U32(0)
  BY DEF U32
<1>2. U32(0) \subseteq 0..2
  <2>1. Low(U32(0), 3) = U32(0)
    BY FieldsFit
  <2> QED
    BY <2>1 DEF Low
<1>3. U32(0) = {}
  BY <1>1, <1>2
<1> QED
  BY <1>3 DEF Word, Low

(* riscvass.y lines 258-275, encoding.cc lines 54-79: for every register   *)
(* and every offset a beq decodes as itself, with the registers of its     *)
(* line and the offset the encoder was given, cut to 13 signed bits and    *)
(* without bit 0; ecall is ecall.                                          *)
THEOREM ControlIsFaithful == Spec => []ControlFaithful
<1>1. RuleInv => ControlFaithful
  <2> SUFFICES ASSUME RuleInv PROVE ControlFaithful
    OBVIOUS
  <2>1. ASSUME Emitted("B", {"BEQ"})
        PROVE  /\ IsMnemonic(word, "BEQ")
               /\ {Fields(word).rs1, Fields(word).rs2} = {U32(Number(line.op1)), U32(Number(line.op2))}
               /\ ImmB(word) = SignExtend(Low(U32(line.offset), 13) \ {0}, 13)
               /\ -4096 <= line.offset /\ line.offset < 4096 => ImmB(word) = U32(line.offset) \ {0}
    <3>1. /\ line \in Lines /\ line.rule = "B" /\ line.mn = "BEQ" /\ insn = Parsed(line)
          /\ word = BWord(insn, U32(insn.imm))
      BY <2>1 DEF Emitted, RuleInv, EmittedByRule
    <3>2. /\ insn.mn = "BEQ" /\ insn.imm = line.offset
          /\ insn.op1 = Number(line.op1) /\ insn.op2 = Number(line.op2)
          /\ insn.op1 \in 0..31 /\ insn.op2 \in 0..31
      BY <3>1, Operands
    <3> DEFINE t == U32(line.offset)  r1 == U32(Number(line.op1))  r2 == U32(Number(line.op2))
    <3>3. word = emit_b_type_instruction(t, r1, r2, U32(0), U32(99))
      BY <3>1, <3>2 DEF BWord, opcode_branch, Opc, BEQ_32
    <3>4. t \in Word /\ r1 \in Word /\ r2 \in Word /\ U32(0) \in Word /\ U32(99) \in Word
      BY U32Word
    <3>5. /\ Slice(word, 6, 0) = Low(U32(99), 7) /\ Slice(word, 14, 12) = Low(U32(0), 3)
          /\ Slice(word, 19, 15) = Low(r2, 5) /\ Slice(word, 24, 20) = Low(r1, 5)
          /\ ImmB(word) = SignExtend(Even(Low(t, 13)), 13)
      <4> HIDE DEF t, r1, r2
      <4> QED
        BY <3>3, <3>4, BranchDecodes
    <3>6. Low(U32(99), 7) = U32(99) /\ Low(U32(0), 3) = U32(0) /\ Low(r1, 5) = r1 /\ Low(r2, 5) = r2
      BY <3>2, FieldsFit
    <3>7. IsMnemonic(word, "BEQ")
      BY <3>5, <3>6 DEF IsMnemonic, Fields, Mnemonics, Code
    <3>8. {Fields(word).rs1, Fields(word).rs2} = {r1, r2}
      BY <3>5, <3>6 DEF Fields
    <3>9. ImmB(word) = SignExtend(Low(t, 13) \ {0}, 13)
      BY <3>5 DEF Even
    <3>10. line.offset \in Int
      BY <3>1, LinesAssumption
    <3>11. ASSUME -4096 <= line.offset, line.offset < 4096 PROVE ImmB(word) = t \ {0}
      <4>1. SignExtend(Low(t, 13), 13) = t
        BY <3>11, <3>10, SignExtended
      <4> HIDE DEF t
      <4> QED
        BY <3>4, <3>9, <4>1 DEF SignExtend, Low, Word
    <3> QED
      BY <3>7, <3>8, <3>9, <3>11
  <2>2. ASSUME Emitted("SYS", {"ECALL"}) PROVE word = Mnemonics["ECALL"].opcode
    <3>1. /\ line \in Lines /\ line.rule = "SYS" /\ line.mn = "ECALL" /\ insn = Parsed(line)
          /\ word = SysWord(insn)
      BY <2>2 DEF Emitted, RuleInv, EmittedByRule
    <3>2. insn.mn = "ECALL"
      BY <3>1, Operands
    <3>3. word = emit_i_type_instruction({}, {}, {}, {}, U32(115))
      BY <3>1, <3>2, Zero DEF SysWord, opcode, Opc, ECALL_32
    <3>4. U32(115) \in SUBSET Int /\ {} \in SUBSET Int /\ U32(115) \subseteq 0..6
      <4>1. Low(U32(115), 7) = U32(115)
        BY FieldsFit
      <4> QED
        BY <4>1 DEF Low
    <3>5. \A b : b \in word <=> b \in 0..6 /\ b \in U32(115)
      BY <3>3, <3>4, IBits
    <3>6. word = U32(115)
      BY <3>4, <3>5
    <3> QED
      BY <3>6 DEF Mnemonics, Code
  <2> QED
    BY <2>1, <2>2 DEF ControlFaithful
<1> QED
  BY <1>1, RulesApply, PTL

(* A word that an n-bit field holds. *)
Fits(x, n) == x \in Word /\ Low(x, n) = x

(* Registers, minor and major opcodes, and no register, fit their fields. *)
LEMMA NumbersFit ==
    /\ \A n \in 0..31 : Fits(U32(n), 5)
    /\ \A n \in 0..7 : Fits(U32(n), 3)
    /\ Fits(U32(3), 7) /\ Fits(U32(19), 7) /\ Fits(U32(35), 7) /\ Fits(U32(51), 7)
  BY U32Word, FieldsFit DEF Fits

(* Operands that fit their fields are what a processor finds there. *)
LEMMA ImmediateFields ==
    ASSUME NEW rd, NEW rs1, NEW imm \in Word, NEW f, NEW op,
           Fits(rd, 5), Fits(rs1, 5), Fits(f, 3), Fits(op, 7),
           NEW w, w = emit_i_type_instruction(rd, rs1, imm, f, op)
    PROVE  /\ Fields(w).opcode = op /\ Fields(w).funct3 = f
           /\ Fields(w).rd = rd /\ Fields(w).rs1 = rs1
           /\ ImmI(w) = SignExtend(Low(imm, 12), 12)
  BY ImmediateDecodes DEF Fits, Fields

LEMMA StoreFields ==
    ASSUME NEW rs2, NEW rs1, NEW imm \in Word, NEW f, NEW op,
           Fits(rs2, 5), Fits(rs1, 5), Fits(f, 3), Fits(op, 7),
           NEW w, w = emit_s_type_instruction(rs2, rs1, imm, f, op)
    PROVE  /\ Fields(w).opcode = op /\ Fields(w).funct3 = f
           /\ Fields(w).rs2 = rs2 /\ Fields(w).rs1 = rs1
           /\ ImmS(w) = SignExtend(Low(imm, 12), 12)
  BY StoreDecodes DEF Fits, Fields

LEMMA RegisterFields ==
    ASSUME NEW rd, NEW rs1, NEW rs2, NEW f, NEW op,
           Fits(rd, 5), Fits(rs1, 5), Fits(rs2, 5), Fits(f, 3), Fits(op, 7),
           NEW w, w = emit_r_type_instruction({}, rs1, rs2, f, rd, op)
    PROVE  /\ Fields(w).opcode = op /\ Fields(w).funct3 = f /\ Fields(w).funct7 = {}
           /\ Fields(w).rd = rd /\ Fields(w).rs1 = rs1 /\ Fields(w).rs2 = rs2
<1>1. /\ Slice(w, 6, 0) = Low(op, 7) /\ Slice(w, 11, 7) = Low(rd, 5)
      /\ Slice(w, 14, 12) = Low(f, 3) /\ Slice(w, 19, 15) = Low(rs1, 5)
      /\ Slice(w, 24, 20) = Low(rs2, 5) /\ Slice(w, 31, 25) = Low({}, 7)
  BY Zero, RegisterDecodes DEF Fits
<1> QED
  BY <1>1, Zero DEF Fits, Fields

(* The operands of an emitted word are those of its line, and fit. *)
EmittedOperands ==
    /\ insn.mn = line.mn
    /\ line.rule # "B" => insn.imm = ival(line.lit)
    /\ insn.op1 = Number(line.op1) /\ insn.op2 = Number(line.op2) /\ insn.op3 = Number(line.op3)
    /\ Fits(U32(insn.op1), 5) /\ Fits(U32(insn.op2), 5) /\ Fits(U32(insn.op3), 5)

LEMMA EmittedOperandsHold == RuleInv /\ outcome = "emitted" => EmittedOperands
<1> SUFFICES ASSUME RuleInv, outcome = "emitted" PROVE EmittedOperands
  OBVIOUS
<1>1. line \in Lines /\ insn = Parsed(line)
  BY DEF RuleInv
<1> QED
  BY <1>1, Operands, NumbersFit DEF EmittedOperands

(* riscvass.l lines 81-103, riscvass.y lines 169-223: for every register   *)
(* and every literal, add, addi, slti, xori and mv decode to the mnemonic, *)
(* the registers and (when it fits an int) the literal of their line.      *)
THEOREM ArithmeticIsFaithful == Spec => []ArithmeticFaithful
<1>1. RuleInv => ArithmeticFaithful
  <2> SUFFICES ASSUME RuleInv PROVE ArithmeticFaithful
    OBVIOUS
  <2>0. outcome = "emitted" => EmittedOperands
    BY EmittedOperandsHold
  <2> USE DEF EmittedOperands
  <2>1. ASSUME Emitted("R", {"ADD"})
        PROVE  /\ IsMnemonic(word, line.mn) /\ Fields(word).funct7 = {}
               /\ Regs(line.op1, line.op2)  /\ Fields(word).rs2 = U32(Number(line.op3))
    <3>1. outcome = "emitted" /\ line.mn = "ADD" /\ word = RWord(insn)
      BY <2>1 DEF Emitted, RuleInv, EmittedByRule
    <3>2. word = emit_r_type_instruction({}, U32(insn.op2), U32(insn.op3), U32(0),
                                         U32(insn.op1), U32(51))
      BY <2>0, <3>1 DEF RWord, opcode, Opc, REG_32
    <3>3. /\ Fields(word).opcode = U32(51) /\ Fields(word).funct3 = U32(0)
          /\ Fields(word).funct7 = {} /\ Fields(word).rd = U32(insn.op1)
          /\ Fields(word).rs1 = U32(insn.op2) /\ Fields(word).rs2 = U32(insn.op3)
      BY <2>0, <3>1, <3>2, NumbersFit, RegisterFields
    <3> QED
      BY <2>0, <3>1, <3>3 DEF IsMnemonic, Mnemonics, Code, Regs
  <2>2. ASSUME Emitted("I", {"ADDI", "SLTI", "XORI"})
        PROVE  /\ IsMnemonic(word, line.mn) /\ Regs(line.op1, line.op2)
               /\ Small(line.lit) => ImmI(word) = U32(Value(line.lit))
    <3>1. /\ outcome = "emitted" /\ line.mn \in {"ADDI", "SLTI", "XORI"} /\ line.rule = "I"
          /\ is_within_range_12b(insn.imm)
          /\ word = IWord(insn, Low(U32(insn.imm), 12))
      BY <2>2 DEF Emitted, RuleInv, EmittedByRule
    <3> DEFINE imm == Low(U32(insn.imm), 12)
    <3>2. PICK f \in 0..7 :
             /\ Mnemonics[line.mn].opcode = U32(19) /\ Mnemonics[line.mn].funct3 = U32(f)
             /\ word = emit_i_type_instruction(U32(insn.op1), U32(insn.op2), imm, U32(f), U32(19))
      BY <2>0, <3>1 DEF IWord, opcode_immediate, Opc, IMM_32, Mnemonics, Code
    <3>3. imm \in Word /\ Low(imm, 12) = imm
      BY U32Word DEF Low, Word
    <3>4. /\ Fields(word).opcode = U32(19) /\ Fields(word).funct3 = U32(f)
          /\ Fields(word).rd = U32(insn.op1) /\ Fields(word).rs1 = U32(insn.op2)
          /\ ImmI(word) = SignExtend(imm, 12)
      <4> HIDE DEF imm
      <4> QED
        BY <2>0, <3>1, <3>2, <3>3, NumbersFit, ImmediateFields
    <3>5. ASSUME Small(line.lit) PROVE ImmI(word) = U32(Value(line.lit))
      <4>1. insn.imm = Value(line.lit) /\ Value(line.lit) \in Int
        BY <2>0, <3>1, <3>5, LiteralValue
      <4> QED
        BY <3>1, <3>4, <4>1, Immediate12
    <3> QED
      BY <2>0, <3>1, <3>2, <3>4, <3>5 DEF IsMnemonic, Regs
  <2>3. ASSUME Emitted("MV", {"MV"})
        PROVE  IsMnemonic(word, "ADDI") /\ Regs(line.op1, line.op2) /\ ImmI(word) = {}
    <3>1. outcome = "emitted" /\ word = MvWord(insn)
      BY <2>3 DEF Emitted, RuleInv, EmittedByRule
    <3>2. word = emit_i_type_instruction(U32(insn.op1), U32(insn.op2), {}, U32(0), U32(19))
      BY <3>1, Zero DEF MvWord, IMM_32
    <3>3. /\ Fields(word).opcode = U32(19) /\ Fields(word).funct3 = U32(0)
          /\ Fields(word).rd = U32(insn.op1) /\ Fields(word).rs1 = U32(insn.op2)
          /\ ImmI(word) = SignExtend(Low({}, 12), 12)
      BY <2>0, <3>1, <3>2, Zero, NumbersFit, ImmediateFields
    <3>4. ImmI(word) = {}
      BY <3>3, Zero DEF SignExtend
    <3> QED
      BY <2>0, <3>1, <3>3, <3>4 DEF IsMnemonic, Mnemonics, Code, Regs
  <2> QED
    BY <2>1, <2>2, <2>3 DEF ArithmeticFaithful
<1> QED
  BY <1>1, RulesApply, PTL

(* riscvass.y lines 224-243: for every register and every displacement     *)
(* that fits an int, a load or a store decodes to its mnemonic, its        *)
(* registers and the low 12 bits of the displacement, which are all of it  *)
(* when it fits them.                                                      *)
THEOREM MemoryIsFaithful == Spec => []MemoryFaithful
<1>1. RuleInv => MemoryFaithful
  <2> SUFFICES ASSUME RuleInv, Small(line.lit) PROVE MemoryFaithful
    BY DEF MemoryFaithful
  <2> DEFINE disp == U32(Value(line.lit))
             low == SignExtend(Low(disp, 12), 12)
             loads == {"LB", "LH", "LW", "LBU", "LHU"}
             stores == {"SB", "SH", "SW"}
  <2>0. outcome = "emitted" => EmittedOperands
    BY EmittedOperandsHold
  <2> USE DEF EmittedOperands
  <2>1. /\ disp \in Word /\ Value(line.lit) \in Int /\ ival(line.lit) = Value(line.lit)
        /\ Fits12(line.lit) => is_within_range_12b(Value(line.lit))
    BY LiteralValue, U32Word
  <2>2. ASSUME Emitted("LS", loads)
        PROVE  IsMnemonic(word, line.mn) /\ Regs(line.op1, line.op2) /\ ImmI(word) = low
    <3>1. /\ outcome = "emitted" /\ line.mn \in loads /\ line.rule = "LS"
          /\ word = LSWord(insn) /\ U32(insn.imm) = disp
      BY <2>0, <2>1, <2>2 DEF Emitted, RuleInv, EmittedByRule
    <3> HIDE DEF disp
    <3>2. PICK f \in 0..7 :
             /\ Mnemonics[line.mn].opcode = U32(3) /\ Mnemonics[line.mn].funct3 = U32(f)
             /\ word = emit_i_type_instruction(U32(insn.op1), U32(insn.op2), disp, U32(f), U32(3))
      BY <2>0, <3>1 DEF LSWord, is_load, opcode_load_store, Opc, LOAD_32, Mnemonics, Code
    <3>3. /\ Fields(word).opcode = U32(3) /\ Fields(word).funct3 = U32(f)
          /\ Fields(word).rd = U32(insn.op1) /\ Fields(word).rs1 = U32(insn.op2)
          /\ ImmI(word) = low
      BY <2>0, <2>1, <3>1, <3>2, NumbersFit, ImmediateFields
    <3> QED
      BY <2>0, <3>1, <3>2, <3>3 DEF IsMnemonic, Regs
  <2>3. ASSUME Emitted("LS", stores)
        PROVE  /\ IsMnemonic(word, line.mn) /\ ImmS(word) = low
               /\ Fields(word).rs2 = U32(Number(line.op1))
               /\ Fields(word).rs1 = U32(Number(line.op2))
    <3>1. /\ outcome = "emitted" /\ line.mn \in stores /\ line.rule = "LS"
          /\ word = LSWord(insn) /\ U32(insn.imm) = disp
      BY <2>0, <2>1, <2>3 DEF Emitted, RuleInv, EmittedByRule
    <3> HIDE DEF disp
    <3>2. U32(35) # U32(3)
      <4>1. 5 \in U32(35) /\ 5 \notin U32(3)
        BY DEF U32
      <4> QED
        BY <4>1
    <3>3. PICK f \in 0..7 :
             /\ Mnemonics[line.mn].opcode = U32(35) /\ Mnemonics[line.mn].funct3 = U32(f)
             /\ word = emit_s_type_instruction(U32(insn.op1), U32(insn.op2), disp, U32(f), U32(35))
      BY <2>0, <3>1, <3>2
         DEF LSWord, is_load, opcode_load_store, Opc, LOAD_32, STORE_32, Mnemonics, Code
    <3>4. /\ Fields(word).opcode = U32(35) /\ Fields(word).funct3 = U32(f)
          /\ Fields(word).rs2 = U32(insn.op1) /\ Fields(word).rs1 = U32(insn.op2)
          /\ ImmS(word) = low
      BY <2>0, <2>1, <3>1, <3>3, NumbersFit, StoreFields
    <3> QED
      BY <2>0, <3>1, <3>3, <3>4 DEF IsMnemonic
  <2>4. Fits12(line.lit) => low = disp
    BY <2>1, Immediate12
  <2> QED
    BY <2>2, <2>3, <2>4 DEF MemoryFaithful
<1> QED
  BY <1>1, RulesApply, PTL

(* riscvass.y lines 180-196, utils.h: for every literal that fits an int,  *)
(* the range check exits exactly when 12 bits cannot hold it.              *)
THEOREM RangeCheckIsExact == Spec => []RangeCheckExact
<1>1. RuleInv => RangeCheckExact
  <2> SUFFICES ASSUME RuleInv, line.rule = "I", Small(line.lit), outcome \in {"emitted", "exit"}
               PROVE  outcome = "exit" <=> ~Fits12(line.lit)
    BY DEF RangeCheckExact
  <2>1. line \in Lines /\ insn = Parsed(line)
    BY DEF RuleInv
  <2>2. insn.imm = Value(line.lit)
    BY <2>1, Operands, LiteralValue
  <2>3. outcome = "exit" <=> ~is_within_range_12b(insn.imm)
    BY DEF RuleInv, EmittedByRule
  <2> QED
    BY <2>2, <2>3, LiteralValue
<1> QED
  BY <1>1, RulesApply, PTL
=============================================================================
