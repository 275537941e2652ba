----------------------------- MODULE CpuProofs -----------------------------
(***************************************************************************)
(* Proofs about Alu, for all bytes and words, and about Cpu, for every     *)
(* program, memory and interrupt: decimal arithmetic, the ranges of the    *)
(* state, and the stack.                                                   *)
(***************************************************************************)
EXTENDS Cpu, SequenceTheorems, TLAPS

-----------------------------------------------------------------------------
(* The arithmetic of the instructions (Alu).                               *)

(* Quotients and remainders are digits: base 2, 16 and 256.                *)
LEMMA Digits2 ==
  ASSUME NEW q \in Int, NEW rest \in 0..1
  PROVE  (2 * q + rest) \div 2 = q /\ (2 * q + rest) % 2 = rest
OBVIOUS

LEMMA Digits16 ==
  ASSUME NEW q \in Int, NEW rest \in 0..15
  PROVE  (16 * q + rest) \div 16 = q /\ (16 * q + rest) % 16 = rest
OBVIOUS

LEMMA Digits256 ==
  ASSUME NEW q \in Int, NEW rest \in 0..255
  PROVE  (256 * q + rest) \div 256 = q /\ (256 * q + rest) % 256 = rest
OBVIOUS

LEMMA Split2 ==
  ASSUME NEW n \in Int
  PROVE  \E q \in Int, rest \in 0..1 : n = 2 * q + rest /\ n % 2 = rest
<1>1. PICK q \in Int : q = n \div 2
  OBVIOUS
<1>2. n - 2 * q \in 0..1 /\ n = 2 * q + (n - 2 * q)
  BY <1>1
<1>3. PICK rest \in 0..1 : n = 2 * q + rest
  BY <1>2
<1> QED  BY <1>3, Digits2

LEMMA Split16 ==
  ASSUME NEW n \in Int
  PROVE  \E q \in Int, rest \in 0..15 : n = 16 * q + rest /\ n \div 16 = q /\ n % 16 = rest
<1>1. PICK q \in Int : q = n \div 16
  OBVIOUS
<1>2. n - 16 * q \in 0..15 /\ n = 16 * q + (n - 16 * q)
  BY <1>1
<1>3. PICK rest \in 0..15 : n = 16 * q + rest
  BY <1>2
<1> QED  BY <1>3, Digits16

LEMMA Split256 ==
  ASSUME NEW n \in Int
  PROVE  \E q \in Int, rest \in 0..255 :
           n = 256 * q + rest /\ n \div 256 = q /\ n % 256 = rest
<1>1. PICK q \in Int : q = n \div 256
  OBVIOUS
<1>2. n - 256 * q \in 0..255 /\ n = 256 * q + (n - 256 * q)
  BY <1>1
<1>3. PICK rest \in 0..255 : n = 256 * q + rest
  BY <1>2
<1>4. (256 * q + rest) \div 256 = q /\ (256 * q + rest) % 256 = rest
  BY Digits256
<1> QED  BY <1>3, <1>4

(* Parities of two numbers and of their sum, carry included, leave the     *)
(* carry.                                                                  *)
LEMMA Parities ==
  ASSUME NEW x \in Int, NEW u \in Int, NEW k \in 0..1
  PROVE  ((x % 2) + (u % 2) + ((x + u + k) % 2)) % 2 = k
<1>1. PICK p \in Int, b \in 0..1 : x = 2 * p + b /\ x % 2 = b
  BY Split2
<1>2. PICK q \in Int, d \in 0..1 : u = 2 * q + d /\ u % 2 = d
  BY Split2
<1>3. PICK e \in 0..1, rest \in 0..1 : b + d + k = 2 * e + rest
  <2>1. b + d + k \in 0..3
    OBVIOUS
  <2> QED  BY <2>1
<1>4. (x + u + k) % 2 = rest
  <2>1. x + u + k = 2 * (p + q + e) + rest /\ p + q + e \in Int
    BY <1>1, <1>2, <1>3
  <2> QED  BY <2>1, Digits2
<1>5. b + d + rest = 2 * (b + d - e) + k /\ b + d - e \in Int
  BY <1>3
<1>6. (b + d + rest) % 2 = k
  BY <1>5, Digits2
<1> QED  BY <1>1, <1>2, <1>4, <1>6

(* The half carry, which Adc reads off bit 4 of an exclusive or, is the    *)
(* carry out of the sum of the low digits.                                 *)
LEMMA HalfCarry ==
  ASSUME NEW a \in Int, NEW n \in Int, NEW c \in 0..1
  PROVE  (Bit4(a) + Bit4(n) + Bit4(a + n + c)) % 2
           = IF (a % 16) + (n % 16) + c > 15 THEN 1 ELSE 0
<1>1. PICK x \in Int, y \in 0..15 :
        a = 16 * x + y /\ a \div 16 = x /\ a % 16 = y
  BY Split16
<1>2. PICK u \in Int, v \in 0..15 :
        n = 16 * u + v /\ n \div 16 = u /\ n % 16 = v
  BY Split16
<1>3. PICK k \in 0..1, rest \in 0..15 : y + v + c = 16 * k + rest
  <2>1. y + v + c \in 0..31
    OBVIOUS
  <2> QED  BY <2>1
<1>4. a + n + c = 16 * (x + u + k) + rest /\ x + u + k \in Int
  <2>1. a = 16 * x + y /\ n = 16 * u + v
    BY <1>1, <1>2
  <2> QED  BY <2>1, <1>3
<1>5. (a + n + c) \div 16 = x + u + k
  BY <1>4, Digits16
<1>6. ((x % 2) + (u % 2) + ((x + u + k) % 2)) % 2 = k
  BY Parities
<1>7. (Bit4(a) + Bit4(n) + Bit4(a + n + c)) % 2 = k
  BY <1>1, <1>2, <1>5, <1>6 DEF Bit4
<1>8. k = IF y + v + c > 15 THEN 1 ELSE 0
  BY <1>3
<1> QED  BY <1>1, <1>2, <1>7, <1>8

(* What is left of a sum of two bytes.                                     *)
LEMMA NinthBit ==
  ASSUME NEW m \in 0..511
  PROVE  /\ m % 256 = IF m > 255 THEN m - 256 ELSE m
         /\ (m \div 256) % 2 = IF m > 255 THEN 1 ELSE 0
<1>1. CASE m > 255
  BY <1>1
<1>2. CASE ~(m > 255)
  BY <1>2
<1> QED  BY <1>1, <1>2

LEMMA OnlyZero ==
  ASSUME NEW m \in (-255)..255
  PROVE  (m % 256 = 0) <=> (m = 0)
<1>1. CASE m < 0
  <2>1. m = 256 * (-1) + (m + 256) /\ m + 256 \in 1..255
    BY <1>1
  <2> QED  BY <1>1, <2>1
<1>2. CASE m >= 0
  BY <1>2
<1> QED  BY <1>1, <1>2

(* What Adc returns, without quotients and bits.                           *)
LEMMA AdcMeans ==
  ASSUME NEW a \in 0..255, NEW n \in 0..255, NEW c \in 0..1
  PROVE  /\ Adc(a, n, c).value = IF a + n + c > 255 THEN a + n + c - 256
                                  ELSE a + n + c
         /\ Adc(a, n, c).f.C = IF a + n + c > 255 THEN 1 ELSE 0
         /\ Adc(a, n, c).f.H = IF (a % 16) + (n % 16) + c > 15 THEN 1 ELSE 0
         /\ Adc(a, n, c).f.N = 0
<1>1. (Bit4(a) + Bit4(n) + Bit4(a + n + c)) % 2
         = IF (a % 16) + (n % 16) + c > 15 THEN 1 ELSE 0
  <2>1. a \in Int /\ n \in Int
    OBVIOUS
  <2> QED  BY <2>1, HalfCarry, Zenon
<1>2. /\ Adc(a, n, c).value = (a + n + c) % 256
      /\ Adc(a, n, c).f.C = ((a + n + c) \div 256) % 2
      /\ Adc(a, n, c).f.H = (Bit4(a) + Bit4(n) + Bit4(a + n + c)) % 2
      /\ Adc(a, n, c).f.N = 0
  BY DEF Adc, Flags
<1>3. a + n + c \in 0..511
  OBVIOUS
<1>4. /\ (a + n + c) % 256 = IF a + n + c > 255 THEN a + n + c - 256
                             ELSE a + n + c
      /\ ((a + n + c) \div 256) % 2 = IF a + n + c > 255 THEN 1 ELSE 0
  BY <1>3, NinthBit
<1> QED  BY <1>1, <1>2, <1>4

(* CP sets exactly the flags of SUB (cpAR8 and subAR8 compute them anew).  *)
THEOREM CompareIsSubtraction ==
  ASSUME NEW a \in Byte, NEW n \in Byte
  PROVE  ComparesAsSubtracts(a, n)
<1> SUFFICES ASSUME NEW i \in 0..255, NEW j \in 0..255
             PROVE  ComparesAsSubtracts(i, j)
  BY DEF Byte
<1>1. ((i - j - 0) % 256 = 0) <=> (i = j)
  <2>1. i - j - 0 \in (-255)..255
    OBVIOUS
  <2>2. ((i - j - 0) % 256 = 0) <=> (i - j - 0 = 0)
    BY <2>1, OnlyZero
  <2> QED  BY <2>2
<1>2. ((i % 16) - (j % 16) - 0 < 0) <=> (i % 16 < j % 16)
  OBVIOUS
<1>3. (i < j + 0) <=> (i < j)
  OBVIOUS
<1> QED  BY <1>1, <1>2, <1>3 DEF ComparesAsSubtracts, Cp, Sbc, Flags, Bit

(* The number of a decimal digit's tens and units.                         *)
LEMMA Digits10 ==
  ASSUME NEW q \in Int, NEW rest \in 0..9
  PROVE  (10 * q + rest) \div 10 = q /\ (10 * q + rest) % 10 = rest
OBVIOUS

LEMMA Digits100 ==
  ASSUME NEW q \in Int, NEW rest \in 0..99
  PROVE  (100 * q + rest) % 100 = rest
OBVIOUS

(* Daa corrects a sum of two decimal bytes.                                *)
LEMMA DigitsAdded ==
  ASSUME NEW x \in 0..9, NEW y \in 0..9, NEW u \in 0..9, NEW v \in 0..9,
         NEW c \in 0..1
  PROVE  DecimalSum(16 * x + y, 16 * u + v, c)
<1> DEFINE i == 16 * x + y
           j == 16 * u + v
           sum == Adc(i, j, c)
<1>1. i \div 16 = x /\ i % 16 = y /\ j \div 16 = u /\ j % 16 = v
  <2>1. i \div 16 = x /\ i % 16 = y
    OBVIOUS
  <2>2. j \div 16 = u /\ j % 16 = v
    OBVIOUS
  <2> QED  BY <2>1, <2>2
<1>2. i \in 0..255 /\ j \in 0..255
  OBVIOUS
<1>3. /\ sum.value = IF i + j + c > 255 THEN i + j + c - 256 ELSE i + j + c
      /\ sum.f.C = IF i + j + c > 255 THEN 1 ELSE 0
      /\ sum.f.H = IF (i % 16) + (j % 16) + c > 15 THEN 1 ELSE 0
      /\ sum.f.N = 0
  BY <1>2, AdcMeans
<1>4. (i % 16) + (j % 16) + c = y + v + c
  BY <1>1
<1>5. Decimal(i) + Decimal(j) + c = 10 * (x + u) + y + v + c
  BY <1>1 DEF Decimal
<1>6. PICK p \in 0..18, t \in 0..19 : p = x + u /\ t = y + v + c
  OBVIOUS
<1>7. PICK lo \in 0..1, hi \in 0..1 :
        /\ lo = IF t > 9 THEN 1 ELSE 0
        /\ hi = IF 10 * p + t > 99 THEN 1 ELSE 0
  OBVIOUS
<1>8. i + j + c = 16 * p + t
  BY <1>6
<1>9. PICK cc \in 0..1 : cc = IF 16 * p + t > 255 THEN 1 ELSE 0
  OBVIOUS
<1>10. PICK w \in 0..255 : w = 16 * p + t - 256 * cc
  <2>1. 16 * p + t >= 0 /\ 16 * p + t <= 511
    OBVIOUS
  <2>2. 16 * p + t - 256 * cc \in 0..255
    BY <1>9, <2>1
  <2> QED  BY <2>2
<1>11. sum.f.C = cc
  BY <1>3, <1>8, <1>9
<1>12. sum.value = w
  <2>1. w = IF i + j + c > 255 THEN i + j + c - 256 ELSE i + j + c
    BY <1>8, <1>9, <1>10
  <2> QED  BY <1>3, <2>1
<1> HIDE DEF i, j, sum
<1>13. 16 * p + t = 256 * cc + w
  BY <1>10
<1> DEFINE d == p + lo - 10 * hi
           e == t - 10 * lo
<1>14. /\ (w % 16 > 9 \/ t > 15) <=> lo = 1
       /\ (w > 153 \/ cc = 1) <=> hi = 1
       /\ (w + 6 * lo + 96 * hi) % 256 = AsBcd((10 * p + t) % 100)
  <2>1. d \in 0..9 /\ e \in 0..9
    BY <1>7
  <2>2. PICK g \in 0..255 : g = 16 * d + e
    BY <2>1
  <2>3. PICK m \in 0..99 : m = 10 * d + e
    BY <2>1
  <2>4. PICK k \in Int : k = hi - cc
    OBVIOUS
  <2>5. g = 16 * d + e /\ k = hi - cc /\ m = 10 * d + e
    BY <2>2, <2>3, <2>4
  <2>6. (w % 16 > 9 \/ t > 15) <=> lo = 1
    <3>1. CASE t > 15
      BY <1>7, <3>1
    <3>2. CASE t <= 15
      <4>1. w = 16 * (p - 16 * cc) + t
        BY <1>13
      <4>2. w % 16 = t
        BY <3>2, <4>1, Digits16
      <4> QED  BY <1>7, <3>2, <4>2
    <3> QED  BY <3>1, <3>2
  <2>7. (w > 153 \/ cc = 1) <=> hi = 1
    BY <1>7, <1>13
  <2>8. (10 * p + t) % 100 = m
    <3>1. 10 * p + t = 100 * hi + m
      BY <2>5
    <3> QED  BY <3>1, Digits100
  <2>9. AsBcd(m) = g
    <3>1. PICK dd \in 0..9, ee \in 0..9 : dd = d /\ ee = e
      BY <2>1
    <3>2. m = 10 * dd + ee /\ g = 16 * dd + ee
      BY <2>5, <3>1
    <3>3. m \div 10 = dd /\ m % 10 = ee
      BY <3>2, Digits10
    <3> QED  BY <3>2, <3>3 DEF AsBcd
  <2>10. (w + 6 * lo + 96 * hi) % 256 = g
    <3>1. w + 6 * lo + 96 * hi = 256 * k + g
      BY <1>13, <2>5
    <3>2. (256 * k + g) % 256 = g
      OBVIOUS
    <3> QED  BY <3>1, <3>2
  <2> QED  BY <2>6, <2>7, <2>8, <2>9, <2>10
<1>15. sum.f.H = 1 <=> t > 15
  BY <1>3, <1>4, <1>6
<1>16. sum.f.N = 0 /\ sum.f.N \in 0..1 /\ sum.f.H \in 0..1 /\ sum.f.C \in 0..1
  BY <1>3
<1>17. /\ Daa(w, sum.f).value =
             (w + (IF w % 16 > 9 \/ sum.f.H = 1 THEN 6 ELSE 0)
                + (IF w > 153 \/ sum.f.C = 1 THEN 96 ELSE 0)) % 256
       /\ Daa(w, sum.f).f.C = IF w > 153 \/ sum.f.C = 1 THEN 1 ELSE 0
  BY <1>16 DEF Daa, Flags, Bit
<1>18. /\ Daa(w, sum.f).value = AsBcd((10 * p + t) % 100)
       /\ Daa(w, sum.f).f.C = hi
  <2>1. (IF w % 16 > 9 \/ sum.f.H = 1 THEN 6 ELSE 0) = 6 * lo
    BY <1>14, <1>15
  <2>2. (IF w > 153 \/ sum.f.C = 1 THEN 96 ELSE 0) = 96 * hi
    BY <1>11, <1>14
  <2>3. (IF w > 153 \/ sum.f.C = 1 THEN 1 ELSE 0) = hi
    BY <1>11, <1>14
  <2> QED  BY <1>14, <1>17, <2>1, <2>2, <2>3
<1>19. hi = Bit(10 * p + t > 99)
  BY <1>7 DEF Bit
<1>20. Decimal(i) + Decimal(j) + c = 10 * p + t
  BY <1>5, <1>6
<1>21. Adc(i, j, c) = sum
  BY DEF sum
<1>22. DecimalSum(i, j, c)
  BY <1>12, <1>18, <1>19, <1>20, <1>21, Zenon DEF DecimalSum
<1> QED  BY <1>22 DEF i, j

(* ADC and then DAA add two decimal bytes and a carry (adcAR8, daa).       *)
THEOREM DecimalAddition ==
  ASSUME NEW a \in BcdBytes, NEW n \in BcdBytes, NEW c \in 0..1
  PROVE  DecimalSum(a, n, c)
<1>1. PICK x \in 0..9, y \in 0..9 : a = 16 * x + y
  BY DEF BcdBytes
<1>2. PICK u \in 0..9, v \in 0..9 : n = 16 * u + v
  BY DEF BcdBytes
<1>3. DecimalSum(16 * x + y, 16 * u + v, c)
  BY DigitsAdded, Zenon
<1> QED  BY <1>1, <1>2, <1>3, Zenon

-----------------------------------------------------------------------------
LEMMA SbcMeans ==
  ASSUME NEW a \in 0..255, NEW n \in 0..255, NEW c \in 0..1
  PROVE  /\ Sbc(a, n, c).value = IF a < n + c THEN a - n - c + 256
                                  ELSE a - n - c
         /\ Sbc(a, n, c).f.C = IF a < n + c THEN 1 ELSE 0
         /\ Sbc(a, n, c).f.H = IF (a % 16) - (n % 16) - c < 0 THEN 1 ELSE 0
         /\ Sbc(a, n, c).f.N = 1
<1>1. PICK m \in (-256)..255 : m = a - n - c
  OBVIOUS
<1>2. m % 256 = IF m < 0 THEN m + 256 ELSE m
  <2>1. CASE m < 0
    BY <2>1
  <2>2. CASE m >= 0
    BY <2>2
  <2> QED  BY <2>1, <2>2
<1>3. (a - n - c) % 256 = IF a < n + c THEN a - n - c + 256 ELSE a - n - c
  BY <1>1, <1>2
<1> QED  BY <1>3 DEF Sbc, Flags, Bit

(* Daa corrects a difference of two decimal bytes.                         *)
LEMMA DigitsSubtracted ==
  ASSUME NEW x \in 0..9, NEW y \in 0..9, NEW u \in 0..9, NEW v \in 0..9,
         NEW c \in 0..1
  PROVE  DecimalDifference(16 * x + y, 16 * u + v, c)
<1> DEFINE i == 16 * x + y
           j == 16 * u + v
           difference == Sbc(i, j, c)
<1>1. i \div 16 = x /\ i % 16 = y /\ j \div 16 = u /\ j % 16 = v
  <2>1. i \div 16 = x /\ i % 16 = y
    OBVIOUS
  <2>2. j \div 16 = u /\ j % 16 = v
    OBVIOUS
  <2> QED  BY <2>1, <2>2
<1>2. i \in 0..255 /\ j \in 0..255
  OBVIOUS
<1>3. /\ difference.value = IF i < j + c THEN i - j - c + 256 ELSE i - j - c
      /\ difference.f.C = IF i < j + c THEN 1 ELSE 0
      /\ difference.f.H = IF (i % 16) - (j % 16) - c < 0 THEN 1 ELSE 0
      /\ difference.f.N = 1
  BY <1>2, SbcMeans
<1>4. (i % 16) - (j % 16) - c = y - v - c
  BY <1>1
<1>5. Decimal(i) - Decimal(j) - c = 10 * (x - u) + (y - v - c)
  BY <1>1 DEF Decimal
<1>6. PICK p \in (-9)..9, t \in (-10)..9 : p = x - u /\ t = y - v - c
  OBVIOUS
<1>7. i - j - c = 16 * p + t
  BY <1>6
<1>8. PICK h \in 0..1, cc \in 0..1 :
        /\ h = IF t < 0 THEN 1 ELSE 0
        /\ cc = IF 16 * p + t < 0 THEN 1 ELSE 0
  OBVIOUS
<1>9. PICK w \in 0..255 : w = 16 * p + t + 256 * cc
  <2>1. 16 * p + t >= -256 /\ 16 * p + t <= 255
    BY <1>2, <1>7
  <2>2. 16 * p + t + 256 * cc \in 0..255
    BY <1>8, <2>1
  <2> QED  BY <2>2
<1>10. difference.f.H = h
  BY <1>3, <1>4, <1>6, <1>8
<1>11. difference.f.C = cc
  <2>1. i < j + c <=> 16 * p + t < 0
    BY <1>7
  <2> QED  BY <1>3, <1>8, <2>1
<1>12. difference.value = w
  <2>1. i < j + c <=> 16 * p + t < 0
    BY <1>7
  <2>2. w = IF i < j + c THEN i - j - c + 256 ELSE i - j - c
    BY <1>7, <1>8, <1>9, <2>1
  <2> QED  BY <1>3, <2>2
<1> HIDE DEF i, j, difference
<1>13. /\ w = 16 * p + t + 256 * cc
       /\ h = IF t < 0 THEN 1 ELSE 0
       /\ cc = IF 16 * p + t < 0 THEN 1 ELSE 0
  BY <1>8, <1>9, Zenon
<1>14. cc = IF 10 * p + t < 0 THEN 1 ELSE 0
  BY <1>13
<1>15. PICK d \in 0..9, e \in 0..9 : d = p - h + 10 * cc /\ e = t + 10 * h
  BY <1>13
<1>16. (w - (6 * h + 96 * cc)) % 256 = AsBcd((10 * p + t) % 100)
  <2>1. PICK m \in 0..99, k \in Int : m = 10 * d + e /\ k = -cc
    OBVIOUS
  <2>2. 10 * p + t = 100 * k + m
    BY <1>15, <2>1
  <2>3. (10 * p + t) % 100 = m
    BY <2>2, Digits100
  <2>4. m \div 10 = d /\ m % 10 = e
    BY <2>1, Digits10
  <2>5. w - (6 * h + 96 * cc) = 16 * d + e
    BY <1>13, <1>15
  <2>6. (16 * d + e) % 256 = 16 * d + e
    OBVIOUS
  <2> QED  BY <2>3, <2>4, <2>5, <2>6 DEF AsBcd
<1>17. difference.f.N = 1
  BY <1>3
<1>18. /\ Daa(w, difference.f).value = (w - (6 * h + 96 * cc)) % 256
       /\ Daa(w, difference.f).f.C = cc
  <2>1. difference.f.H = h /\ difference.f.C = cc
    BY <1>10, <1>11, Zenon
  <2> QED  BY <1>17, <2>1 DEF Daa, Flags, Bit
<1>19. cc = Bit(10 * p + t < 0)
  BY <1>14 DEF Bit
<1>20. Decimal(i) - Decimal(j) - c = 10 * p + t
  BY <1>5, <1>6
<1>21. Sbc(i, j, c) = difference /\ w = difference.value
  BY <1>12, Zenon DEF difference
<1>22. DecimalDifference(i, j, c)
  BY <1>16, <1>18, <1>19, <1>20, <1>21, Zenon DEF DecimalDifference
<1> QED  BY <1>22 DEF i, j

(* SBC and then DAA subtract two decimal bytes and a borrow (sbcAR8, daa). *)
THEOREM DecimalSubtraction ==
  ASSUME NEW a \in BcdBytes, NEW n \in BcdBytes, NEW c \in 0..1
  PROVE  DecimalDifference(a, n, c)
<1>1. PICK x \in 0..9, y \in 0..9 : a = 16 * x + y
  BY DEF BcdBytes
<1>2. PICK u \in 0..9, v \in 0..9 : n = 16 * u + v
  BY DEF BcdBytes
<1>3. DecimalDifference(16 * x + y, 16 * u + v, c)
  BY DigitsSubtracted, Zenon
<1> QED  BY <1>1, <1>2, <1>3, Zenon

-----------------------------------------------------------------------------
(* The range of a word, without its interval of numbers.                   *)
LEMMA WordRange ==
  ASSUME NEW n PROVE n \in Word <=> n \in Int /\ 0 <= n /\ n <= 65535
  <1>1. MaxWord \in Int
    BY DEF MaxWord
  <1>2. n \in Word <=> n \in Int /\ 0 <= n /\ n <= MaxWord
    BY <1>1 DEF Word
  <1> QED BY <1>2 DEF MaxWord

(* What Alu computes has its range.                                        *)
LEMMA FlagsTypes ==
  ASSUME NEW z, NEW n \in 0..1, NEW h \in 0..1, NEW c \in 0..1
  PROVE  Flags(z, n, h, c) \in FlagSet
  BY DEF Flags, FlagSet, Bit

(* Bits and bytes made of them.                                            *)
LEMMA Power == ASSUME NEW k \in 0..7 PROVE 2 ^ k \in {1, 2, 4, 8, 16, 32, 64, 128}
  <1>0. CASE k = 0
    BY <1>0
  <1>1. CASE k = 1
    BY <1>1
  <1>2. CASE k = 2
    BY <1>2
  <1>3. CASE k = 3
    BY <1>3
  <1>4. CASE k = 4
    BY <1>4
  <1>5. CASE k = 5
    BY <1>5
  <1>6. CASE k = 6
    BY <1>6
  <1>7. CASE k = 7
    BY <1>7
  <1> QED BY <1>0, <1>1, <1>2, <1>3, <1>4, <1>5, <1>6, <1>7

LEMMA BitOfTypes ==
  ASSUME NEW n \in Nat, NEW k \in 0..7 PROVE BitOf(n, k) \in 0..1
  BY Power DEF BitOf

LEMMA FromBitsTypes ==
  ASSUME NEW b, \A k \in 0..7 : b[k] \in 0..1 PROVE FromBits(b) \in Byte
  BY DEF FromBits, Byte

LEMMA BitTypes == ASSUME NEW P PROVE Bit(P) \in 0..1
  BY DEF Bit

(* What an operation makes: a byte and flags.                              *)
Makes(res) == res.value \in Byte /\ res.f \in FlagSet

LEMMA AdcTypes ==
  ASSUME NEW a \in Byte, NEW n \in Byte, NEW c \in 0..1 PROVE Makes(Adc(a, n, c))
  <1> DEFINE res == a + n + c
             half == (Bit4(a) + Bit4(n) + Bit4(res)) % 2
             carry == (res \div 256) % 2
  <1>1. half \in 0..1 /\ carry \in 0..1 /\ res % 256 \in Byte
    BY DEF Byte, Bit4
  <1> HIDE DEF half, carry
  <1>2. Flags(res % 256 = 0, 0, half, carry) \in FlagSet
    BY <1>1, FlagsTypes
  <1>3. Adc(a, n, c) = [value |-> res % 256, f |-> Flags(res % 256 = 0, 0, half, carry)]
    BY DEF Adc, half, carry
  <1> QED BY <1>1, <1>2, <1>3 DEF Makes

LEMMA SbcTypes ==
  ASSUME NEW a \in Byte, NEW n \in Byte, NEW c \in 0..1 PROVE Makes(Sbc(a, n, c))
  <1> DEFINE res == (a - n - c) % 256
  <1>1. res \in Byte
    BY DEF Byte
  <1>2. Flags(res = 0, 1, Bit((a % 16) - (n % 16) - c < 0), Bit(a < n + c)) \in FlagSet
    BY BitTypes, FlagsTypes
  <1> QED BY <1>1, <1>2 DEF Makes, Sbc

LEMMA CpTypes ==
  ASSUME NEW a \in Byte, NEW n \in Byte PROVE Makes(Cp(a, n))
  <1>1. Flags(a = n, 1, Bit(a % 16 < n % 16), Bit(a < n)) \in FlagSet
    BY BitTypes, FlagsTypes
  <1> QED BY <1>1 DEF Makes, Cp

LEMMA LogicTypes ==
  ASSUME NEW a \in Byte, NEW n \in Byte
  PROVE  Makes(And(a, n)) /\ Makes(Or(a, n)) /\ Makes(Xor(a, n))
  <1> DEFINE and == [k \in 0..7 |-> BitOf(a, k) * BitOf(n, k)]
             or == [k \in 0..7 |-> Bit(BitOf(a, k) + BitOf(n, k) > 0)]
             xor == [k \in 0..7 |-> (BitOf(a, k) + BitOf(n, k)) % 2]
  <1>1. ASSUME NEW k \in 0..7 PROVE and[k] \in 0..1 /\ or[k] \in 0..1 /\ xor[k] \in 0..1
    <2>1. BitOf(a, k) \in {0, 1} /\ BitOf(n, k) \in {0, 1}
      BY BitOfTypes DEF Byte
    <2>2. BitOf(a, k) * BitOf(n, k) \in 0..1 /\ (BitOf(a, k) + BitOf(n, k)) % 2 \in 0..1
      BY <2>1
    <2> QED BY <2>2, BitTypes
  <1> HIDE DEF and, or, xor
  <1>2. FromBits(and) \in Byte /\ FromBits(or) \in Byte /\ FromBits(xor) \in Byte
    BY <1>1, FromBitsTypes
  <1>3. \A z : Flags(z, 0, 1, 0) \in FlagSet /\ Flags(z, 0, 0, 0) \in FlagSet
    BY FlagsTypes
  <1>4. Makes(And(a, n))
    BY <1>2, <1>3 DEF Makes, And, and
  <1>5. Makes(Or(a, n))
    BY <1>2, <1>3 DEF Makes, Or, or
  <1>6. Makes(Xor(a, n))
    BY <1>2, <1>3 DEF Makes, Xor, xor
  <1> QED BY <1>4, <1>5, <1>6

LEMMA CountTypes ==
  ASSUME NEW v \in Byte, NEW g \in FlagSet PROVE Makes(Inc(v, g)) /\ Makes(Dec(v, g))
  <1>1. (v + 1) % 256 \in Byte /\ (v - 1) % 256 \in Byte /\ g.C \in 0..1
    BY DEF Byte, FlagSet
  <1>2. \A z, h : Flags(z, 0, Bit(h), g.C) \in FlagSet /\ Flags(z, 1, Bit(h), g.C) \in FlagSet
    BY <1>1, BitTypes, FlagsTypes
  <1> QED BY <1>1, <1>2 DEF Makes, Inc, Dec

LEMMA DaaTypes ==
  ASSUME NEW a \in Byte, NEW g \in FlagSet PROVE Makes(Daa(a, g))
  <1> DEFINE low == (g.N = 0 /\ a % 16 > 9) \/ g.H = 1
             high == (g.N = 0 /\ a > 153) \/ g.C = 1
             add == 6 * Bit(low) + 96 * Bit(high)
             res == (IF g.N = 1 THEN a - add ELSE a + add) % 256
  <1>1. Bit(low) \in 0..1 /\ Bit(high) \in 0..1
    BY BitTypes
  <1>2. res \in Byte
    BY <1>1 DEF Byte
  <1>3. g.N \in 0..1
    BY DEF FlagSet
  <1>4. Flags(res = 0, g.N, 0, Bit(high)) \in FlagSet
    BY <1>1, <1>3, FlagsTypes
  <1>5. Daa(a, g) = [value |-> res, f |-> Flags(res = 0, g.N, 0, Bit(high))]
    BY DEF Daa
  <1> HIDE DEF res, high
  <1> QED BY <1>2, <1>4, <1>5 DEF Makes

LEMMA FlipTypes ==
  ASSUME NEW a \in Byte, NEW g \in FlagSet
  PROVE  Makes(Cpl(a, g)) /\ Ccf(g) \in FlagSet /\ Scf(g) \in FlagSet
  <1>1. 255 - a \in Byte
    BY DEF Byte
  <1>2. g.Z \in 0..1 /\ g.C \in 0..1 /\ 1 - g.C \in 0..1
    BY DEF FlagSet
  <1>3. Makes(Cpl(a, g))
    BY <1>1, <1>2 DEF Makes, Cpl, FlagSet
  <1> QED BY <1>2, <1>3 DEF Ccf, Scf, FlagSet

LEMMA ShiftedTypes ==
  ASSUME NEW v \in Byte, NEW c \in 0..1, NEW op \in ShiftOps
  PROVE  Shifted(op, v, c) \in Byte /\ CarryOut(op, v) \in 0..1
  <1>1. CASE op = "RLC"
    BY <1>1 DEF Shifted, CarryOut, Byte
  <1>2. CASE op = "RRC"
    BY <1>2 DEF Shifted, CarryOut, Byte
  <1>3. CASE op = "RL"
    BY <1>3 DEF Shifted, CarryOut, Byte
  <1>4. CASE op = "RR"
    BY <1>4 DEF Shifted, CarryOut, Byte
  <1>5. CASE op = "SLA"
    BY <1>5 DEF Shifted, CarryOut, Byte
  <1>6. CASE op = "SRA"
    BY <1>6 DEF Shifted, CarryOut, Byte
  <1>7. CASE op = "SRL"
    BY <1>7 DEF Shifted, CarryOut, Byte
  <1>8. CASE op = "SWAP"
    BY <1>8 DEF Shifted, CarryOut, Byte
  <1> QED BY <1>1, <1>2, <1>3, <1>4, <1>5, <1>6, <1>7, <1>8 DEF ShiftOps

LEMMA ShiftTypes ==
  ASSUME NEW v \in Byte, NEW g \in FlagSet, NEW op \in ShiftOps
  PROVE  Makes(Shift(op, v, g)) /\ Makes(ShiftA(op, v, g))
  <1>1. g.C \in 0..1
    BY DEF FlagSet
  <1>2. Shifted(op, v, g.C) \in Byte /\ CarryOut(op, v) \in 0..1
    BY <1>1, ShiftedTypes
  <1>3. \A z : Flags(z, 0, 0, CarryOut(op, v)) \in FlagSet
    BY <1>2, FlagsTypes
  <1> QED BY <1>2, <1>3 DEF Makes, Shift, ShiftA

LEMMA BitsTypes ==
  ASSUME NEW v \in Byte, NEW g \in FlagSet, NEW k \in 0..7
  PROVE  ResBit(k, v) \in Byte /\ SetBit(k, v) \in Byte /\ TestBit(k, v, g) \in FlagSet
  <1>1. g.C \in 0..1
    BY DEF FlagSet
  <1>2. TestBit(k, v, g) \in FlagSet
    BY <1>1, FlagsTypes DEF TestBit
  <1>3. ASSUME NEW p \in {1, 2, 4, 8, 16, 32, 64, 128}
        PROVE  /\ v - p * ((v \div p) % 2) \in Byte
               /\ v + p * (1 - ((v \div p) % 2)) \in Byte
    <2>1. CASE p = 1
      BY <2>1 DEF Byte
    <2>2. CASE p = 2
      BY <2>2 DEF Byte
    <2>3. CASE p = 4
      BY <2>3 DEF Byte
    <2>4. CASE p = 8
      BY <2>4 DEF Byte
    <2>5. CASE p = 16
      BY <2>5 DEF Byte
    <2>6. CASE p = 32
      BY <2>6 DEF Byte
    <2>7. CASE p = 64
      BY <2>7 DEF Byte
    <2>8. CASE p = 128
      BY <2>8 DEF Byte
    <2> QED BY <2>1, <2>2, <2>3, <2>4, <2>5, <2>6, <2>7, <2>8
  <1>4. ResBit(k, v) \in Byte /\ SetBit(k, v) \in Byte
    BY <1>3, Power, Zenon DEF ResBit, SetBit, BitOf
  <1> QED BY <1>2, <1>4

(* Words.                                                                  *)
LEMMA Modulo ==
  ASSUME NEW n \in Int
  PROVE  n % 65536 \in Word /\ n % 4096 \in 0..4095
  BY WordRange

LEMMA WordTypes ==
  ASSUME NEW m \in Word, NEW n \in Word, NEW g \in FlagSet
  PROVE  AddWord(m, n, g).value \in Word /\ AddWord(m, n, g).f \in FlagSet
  <1> DEFINE half == (((m % 4096) + (n % 4096)) \div 4096) % 2
  <1>1. m \in Int /\ n \in Int /\ m + n \in Int
    BY WordRange
  <1>2. (m + n) % 65536 \in Word
    BY <1>1, Modulo
  <1>3. half \in 0..1
    <2> DEFINE x == m % 4096
               y == n % 4096
    <2>1. x \in 0..4095 /\ y \in 0..4095
      BY <1>1, Modulo
    <2> HIDE DEF x, y
    <2>2. ((x + y) \div 4096) % 2 \in 0..1
      BY <2>1
    <2> QED BY <2>2 DEF x, y
  <1>4. Bit(m + n > 65535) \in 0..1
    BY BitTypes
  <1> HIDE DEF half
  <1>5. AddWord(m, n, g) = [value |-> (m + n) % 65536,
                            f |-> [Z |-> g.Z, N |-> 0, H |-> half, C |-> Bit(m + n > 65535)]]
    BY DEF AddWord, half
  <1>6. g.Z \in 0..1
    BY DEF FlagSet
  <1> QED BY <1>2, <1>3, <1>4, <1>5, <1>6 DEF FlagSet

LEMMA SignedTypes == ASSUME NEW n \in Byte PROVE Signed(n) \in -128..127
  BY DEF Signed, Byte

LEMMA SpTypes ==
  ASSUME NEW s \in Word, NEW n \in Byte
  PROVE  AddToSp(s, n).value \in Word /\ AddToSp(s, n).f \in FlagSet
  <1>1. (s + Signed(n)) % 65536 \in Word
    <2>1. s + Signed(n) \in Int
      BY SignedTypes, WordRange
    <2> QED BY <2>1, Modulo
  <1> DEFINE half == Bit((s % 16) + (n % 16) > 15)
             carry == Bit((s % 256) + n > 255)
  <1>2. half \in 0..1 /\ carry \in 0..1
    BY BitTypes
  <1> DEFINE flags == Flags(FALSE, 0, half, carry)
  <1>3. flags \in FlagSet
    <2> HIDE DEF half, carry
    <2> QED BY <1>2 DEF Flags, FlagSet, Bit
  <1> DEFINE sum == (s + Signed(n)) % 65536
  <1>4. AddToSp(s, n) = [value |-> sum, f |-> flags]
    BY DEF AddToSp
  <1>5. sum \in Word
    BY <1>1
  <1> HIDE DEF flags, sum
  <1> QED BY <1>3, <1>4, <1>5

-----------------------------------------------------------------------------
(* The ranges of the state; memory keeps its addresses.                    *)
BytesIn(m) == \A a \in DOMAIN m : m[a] \in Byte
MemoryKept == DOMAIN mem = DOMAIN given /\ given \in Memories /\ BytesIn(mem)
Ranges ==
  /\ r \in [Registers -> Byte]
  /\ f \in FlagSet
  /\ sp \in Word /\ pc \in Word
  /\ ime \in BOOLEAN /\ halted \in BOOLEAN
  /\ MemoryKept

-----------------------------------------------------------------------------
(* The operands of an instruction, and what it takes from them and puts    *)
(* into them.                                                              *)
LEMMA Operands ==
  ASSUME NEW i, Decoded(i)
  PROVE  /\ i.n \in Word
         /\ {"n", "(n)"} \cap {i.x, i.y} # {} => i.n \in Byte
         /\ i.op = "LD" => /\ i.x \in Registers \cup InMemory
                           /\ i.y \in Registers \cup {"n"} \cup InMemory
         /\ i.op \in ArithmeticOps => i.y \in InRegisters \cup {"n"}
         /\ i.op \in {"INC", "DEC"} \cup ShiftOps => i.x \in InRegisters
         /\ i.op \in {"BIT", "RES", "SET"} => i.x \in InRegisters /\ i.n \in 0..7
         /\ i.op \in {"LD16", "INC16", "DEC16", "ADDHL"} =>
              i.x \in {"BC", "DE", "HL", "SP"}
         /\ i.op \in {"PUSH", "POP"} => i.x \in {"BC", "DE", "HL", "AF"}
         /\ i.op \in {"JR", "LDHLSP", "ADDSP"} => i.n \in Byte
  BY DEF Decoded, ArithmeticOps, AdjustOps, ShiftOps, InRegisters

LEMMA Bytes == ASSUME NEW v \in Word PROVE v \div 256 \in Byte /\ v % 256 \in Byte
  BY WordRange DEF Byte

LEMMA Words16 ==
  ASSUME NEW h \in Byte, NEW l \in Byte PROVE 256 * h + l \in Word /\ l + 256 * h \in Word
  BY WordRange DEF Byte

LEMMA LowByte == ASSUME NEW h \in Byte, NEW l \in Byte PROVE (256 * h + l) % 256 = l
  BY DEF Byte

LEMMA FlagByteTypes == ASSUME f \in FlagSet PROVE FlagByte \in Byte
  <1>1. f.Z \in 0..1 /\ f.N \in 0..1 /\ f.H \in 0..1 /\ f.C \in 0..1
    BY DEF FlagSet
  <1> QED BY <1>1 DEF FlagByte, Byte

LEMMA PairWord ==
  ASSUME Ranges, NEW x \in {"BC", "DE", "HL", "SP", "AF"} PROVE Pair(x) \in Word
  <1>1. \A y \in Registers : r[y] \in Byte
    BY DEF Ranges
  <1>2. FlagByte \in Byte /\ sp \in Word
    BY FlagByteTypes DEF Ranges
  <1> QED BY <1>1, <1>2, Words16 DEF Pair, Registers

LEMMA WithPairTypes ==
  ASSUME Ranges, NEW x \in {"BC", "DE", "HL", "SP", "AF"}, NEW v \in Word
  PROVE  WithPair(x, v) \in [Registers -> Byte]
  BY Bytes DEF WithPair, Registers, Ranges

LEMMA AddressWord ==
  ASSUME Ranges, NEW i, Decoded(i), NEW x \in InMemory, x \in {i.x, i.y}
  PROVE  Address(i, x) \in Word
  <1>1. Pair("HL") \in Word /\ Pair("BC") \in Word /\ Pair("DE") \in Word
    BY PairWord
  <1>2. 65280 + r["C"] \in Word
    BY WordRange DEF Ranges, Registers, Byte
  <1>3. i.n \in Word /\ (x = "(n)" => 65280 + i.n \in Word)
    <2>1. x = "(n)" => i.n \in Byte
      BY Operands
    <2>2. i.n \in Byte => 65280 + i.n \in Word
      BY WordRange DEF Byte
    <2> QED BY <2>1, <2>2, Operands
  <1> QED BY <1>1, <1>2, <1>3 DEF Address, InMemory

LEMMA GetByte ==
  ASSUME Ranges, NEW i, Decoded(i), Reads(i) \subseteq DOMAIN mem,
         NEW x \in {i.x, i.y}, x \in Registers \cup {"n"} \cup InMemory
  PROVE  Get(i, x) \in Byte
  <1>1. CASE x \in Registers
    BY <1>1 DEF Get, Ranges
  <1>2. CASE x = "n"
    BY <1>2, Operands DEF Get, Registers
  <1>3. CASE x \in InMemory
    <2>1. Address(i, x) \in Reads(i)
      BY <1>3 DEF Reads
    <2>2. mem[Address(i, x)] \in Byte
      BY <2>1 DEF Ranges, MemoryKept, BytesIn
    <2> QED BY <1>3, <2>2 DEF Get, Registers, InMemory
  <1> QED BY <1>1, <1>2, <1>3

LEMMA PutTypes ==
  ASSUME Ranges, NEW i, NEW x, NEW v \in Byte
  PROVE  /\ PutRegister(x, v) \in [Registers -> Byte]
         /\ DOMAIN PutMemory(i, x, v) = DOMAIN mem /\ BytesIn(PutMemory(i, x, v))
  <1>1. PutRegister(x, v) \in [Registers -> Byte]
    BY DEF PutRegister, Ranges
  <1>2. DOMAIN PutMemory(i, x, v) = DOMAIN mem
    BY DEF PutMemory
  <1>3. BytesIn(PutMemory(i, x, v))
    BY DEF PutMemory, BytesIn, Ranges, MemoryKept
  <1> QED BY <1>1, <1>2, <1>3

LEMMA PushedTypes ==
  ASSUME Ranges, NEW v \in Word
  PROVE  DOMAIN Pushed(v) = DOMAIN mem /\ BytesIn(Pushed(v))
  <1>1. v % 256 \in Byte /\ v \div 256 \in Byte
    BY Bytes
  <1>2. DOMAIN Pushed(v) = DOMAIN mem
    BY DEF Pushed
  <1>3. BytesIn(Pushed(v))
    <2> DEFINE lo == v % 256
               hi == v \div 256
               a1 == (sp - 2) % 65536
               a2 == (sp - 1) % 65536
    <2>1. Pushed(v) = [mem EXCEPT ![a1] = lo, ![a2] = hi]
      BY DEF Pushed
    <2>2. lo \in Byte /\ hi \in Byte
      BY <1>1
    <2> HIDE DEF lo, hi, a1, a2
    <2> QED BY <2>1, <2>2 DEF BytesIn, Ranges, MemoryKept
  <1> QED BY <1>2, <1>3

LEMMA PoppedWord ==
  ASSUME Ranges, {sp, (sp + 1) % 65536} \subseteq DOMAIN mem PROVE Popped \in Word
  <1>1. mem[sp] \in Byte /\ mem[(sp + 1) % 65536] \in Byte
    BY DEF Ranges, MemoryKept, BytesIn
  <1> QED BY <1>1, Words16 DEF Popped

LEMMA FollowingWord == ASSUME Ranges, NEW i PROVE Following(i) \in Word
  <1>1. Length(i) \in Int
    BY DEF Length
  <1> QED BY <1>1, Modulo, WordRange DEF Following, Ranges

LEMMA GoesOnWord ==
  ASSUME Ranges, NEW i, GoesOn(i) PROVE pc' \in Word /\ UNCHANGED <<ime, halted, given>>
  <1>1. pc' = Following(i) /\ UNCHANGED <<ime, halted, given>>
    BY Zenon DEF GoesOn
  <1> QED BY <1>1, FollowingWord

-----------------------------------------------------------------------------
(* Every instruction keeps the ranges.                                     *)
LEMMA Load8Keeps ==
  ASSUME Ranges, NEW i, Decoded(i), Reads(i) \subseteq DOMAIN mem, Load8(i)
  PROVE  Ranges'
  <1>1. pc' \in Word /\ UNCHANGED <<ime, halted, given, f, sp>>
    <2>1. GoesOn(i) /\ UNCHANGED <<f, sp>>
      BY DEF Load8
    <2> QED BY <2>1, GoesOnWord
  <1>2. CASE i.op = "NOP"
    BY <1>1, <1>2 DEF Load8, Ranges, MemoryKept, BytesIn
  <1>3. CASE i.op # "NOP"
    <2>1. i.op = "LD"
      BY <1>3 DEF Load8, Executes
    <2>2. i.x \in Registers \cup InMemory /\ Get(i, i.y) \in Byte
      BY <2>1, Operands, GetByte
    <2>3. DOMAIN mem' = DOMAIN mem /\ BytesIn(mem')
      <3>1. mem' = PutMemory(i, i.x, Get(i, i.y))
        BY <1>3 DEF Load8
      <3> QED BY <2>2, <3>1, PutTypes
    <2>4. ASSUME NEW d \in Int
          PROVE  WithPair("HL", (Pair("HL") + d) % 65536) \in [Registers -> Byte]
      <3>1. Pair("HL") \in Word
        BY PairWord
      <3>2. (Pair("HL") + d) % 65536 \in Word
        BY <3>1, WordRange, Modulo
      <3> QED BY <3>2, WithPairTypes
    <2>5. r' \in [Registers -> Byte]
      <3> DEFINE up == WithPair("HL", (Pair("HL") + 1) % 65536)
                 down == WithPair("HL", (Pair("HL") - 1) % 65536)
                 regs == IF "(HL+)" \in {i.x, i.y} THEN up
                         ELSE IF "(HL-)" \in {i.x, i.y} THEN down ELSE r
      <3>1. up \in [Registers -> Byte]
        BY <2>4
      <3>2. down \in [Registers -> Byte]
        <4>1. Pair("HL") \in Word
          BY PairWord
        <4>2. (Pair("HL") - 1) % 65536 \in Word
          BY <4>1, WordRange, Modulo
        <4> QED BY <4>2, WithPairTypes
      <3>3. r' = IF i.x \in Registers THEN [regs EXCEPT ![i.x] = Get(i, i.y)] ELSE regs
        BY <1>3 DEF Load8
      <3> HIDE DEF up, down
      <3>4. regs \in [Registers -> Byte]
        BY <3>1, <3>2 DEF Ranges
      <3> HIDE DEF regs
      <3> QED BY <3>3, <3>4, <2>2
    <2> QED BY <1>1, <2>3, <2>5 DEF Ranges, MemoryKept
  <1> QED BY <1>2, <1>3

LEMMA Load16Keeps ==
  ASSUME Ranges, NEW i, Decoded(i), Load16(i) PROVE Ranges'
  <1>1. pc' \in Word /\ UNCHANGED <<ime, halted, given>>
    <2>1. GoesOn(i)
      BY DEF Load16
    <2> QED BY <2>1, GoesOnWord
  <1>2. i.n \in Word /\ (i.op = "LD16" => i.x \in {"BC", "DE", "HL", "SP"})
         /\ (i.op = "LDHLSP" => i.n \in Byte)
    BY Operands
  <1>3. r' \in [Registers -> Byte] /\ f' \in FlagSet /\ sp' \in Word
         /\ DOMAIN mem' = DOMAIN mem /\ BytesIn(mem')
    <2>1. CASE i.op = "LD16"
      <3>1. r' = WithPair(i.x, i.n) /\ sp' = (IF i.x = "SP" THEN i.n ELSE sp)
             /\ UNCHANGED <<f, mem>>
        BY <2>1 DEF Load16
      <3>2. WithPair(i.x, i.n) \in [Registers -> Byte]
        BY <1>2, <2>1, WithPairTypes
      <3> QED BY <1>2, <3>1, <3>2 DEF Ranges, MemoryKept
    <2>2. CASE i.op = "LDSPHL"
      <3>1. sp' = Pair("HL") /\ UNCHANGED <<r, f, mem>>
        BY <2>2 DEF Load16
      <3> QED BY <3>1, PairWord DEF Ranges, MemoryKept
    <2>3. CASE i.op = "LDnnSP"
      <3> DEFINE lo == sp % 256
                 hi == sp \div 256
                 a == (i.n + 1) % 65536
      <3>1. mem' = [mem EXCEPT ![i.n] = lo, ![a] = hi] /\ UNCHANGED <<r, f, sp>>
        BY <2>3 DEF Load16
      <3>2. lo \in Byte /\ hi \in Byte
        BY Bytes DEF Ranges
      <3> HIDE DEF lo, hi, a
      <3>3. DOMAIN mem' = DOMAIN mem /\ BytesIn(mem')
        BY <3>1, <3>2 DEF Ranges, MemoryKept, BytesIn
      <3> QED BY <3>1, <3>3 DEF Ranges
    <2>4. CASE i.op = "LDHLSP"
      <3>1. r' = WithPair("HL", AddToSp(sp, i.n).value) /\ f' = AddToSp(sp, i.n).f
             /\ UNCHANGED <<sp, mem>>
        BY <2>4 DEF Load16
      <3>2. AddToSp(sp, i.n).value \in Word /\ AddToSp(sp, i.n).f \in FlagSet
        BY <1>2, <2>4, SpTypes DEF Ranges
      <3> QED BY <3>1, <3>2, WithPairTypes DEF Ranges, MemoryKept
    <2> QED BY <2>1, <2>2, <2>3, <2>4 DEF Load16, Executes
  <1> QED BY <1>1, <1>3 DEF Ranges, MemoryKept

LEMMA ComputedTypes ==
  ASSUME NEW op \in ArithmeticOps, NEW a \in Byte, NEW n \in Byte, NEW c \in 0..1
  PROVE  Makes(Computed(op, a, n, c))
  BY AdcTypes, SbcTypes, CpTypes, LogicTypes DEF Computed, ArithmeticOps

LEMMA ArithmeticKeeps ==
  ASSUME Ranges, NEW i, Decoded(i), Reads(i) \subseteq DOMAIN mem, Arithmetic(i)
  PROVE  Ranges'
  <1>1. pc' \in Word /\ UNCHANGED <<ime, halted, given, sp, mem>>
    <2>1. GoesOn(i) /\ UNCHANGED <<sp, mem>>
      BY Zenon DEF Arithmetic
    <2> QED BY <2>1, GoesOnWord
  <1>2. i.op \in ArithmeticOps
    BY DEF Arithmetic, Executes
  <1>3. Get(i, i.y) \in Byte
    <2>1. i.y \in Registers \cup {"n"} \cup InMemory
      BY <1>2, Operands DEF InRegisters, InMemory
    <2> QED BY <2>1, GetByte
  <1>4. r["A"] \in Byte /\ f.C \in 0..1
    BY DEF Ranges, Registers, FlagSet
  <1> DEFINE res == Computed(i.op, r["A"], Get(i, i.y), f.C)
  <1>5. Makes(res)
    BY <1>2, <1>3, <1>4, ComputedTypes
  <1>6. r' = [r EXCEPT !["A"] = res.value] /\ f' = res.f
    BY DEF Arithmetic
  <1> HIDE DEF res
  <1> QED BY <1>1, <1>5, <1>6 DEF Ranges, MemoryKept, BytesIn, Makes

LEMMA OperandByte ==
  ASSUME Ranges, NEW i, Decoded(i), Reads(i) \subseteq DOMAIN mem, i.x \in InRegisters
  PROVE  Get(i, i.x) \in Byte
  <1>1. i.x \in Registers \cup {"n"} \cup InMemory
    BY DEF InRegisters, InMemory
  <1> QED BY <1>1, GetByte

LEMMA PutKeeps ==
  ASSUME Ranges, NEW i, NEW v \in Byte, f' \in FlagSet,
         r' = PutRegister(i.x, v), mem' = PutMemory(i, i.x, v), UNCHANGED sp, GoesOn(i)
  PROVE  Ranges'
  <1>1. pc' \in Word /\ UNCHANGED <<ime, halted, given>>
    BY GoesOnWord
  <1>2. r' \in [Registers -> Byte] /\ DOMAIN mem' = DOMAIN mem /\ BytesIn(mem')
    BY PutTypes
  <1> QED BY <1>1, <1>2 DEF Ranges, MemoryKept

LEMMA CountKeeps ==
  ASSUME Ranges, NEW i, Decoded(i), Reads(i) \subseteq DOMAIN mem, Count(i)
  PROVE  Ranges'
  <1>1. i.op \in {"INC", "DEC"} /\ GoesOn(i) /\ UNCHANGED sp
    BY Zenon DEF Count, Executes
  <1> DEFINE res == IF i.op = "INC" THEN Inc(Get(i, i.x), f) ELSE Dec(Get(i, i.x), f)
  <1>2. Get(i, i.x) \in Byte /\ f \in FlagSet
    BY <1>1, Operands, OperandByte DEF Ranges
  <1>3. Makes(res)
    BY <1>2, CountTypes
  <1>4. r' = PutRegister(i.x, res.value) /\ mem' = PutMemory(i, i.x, res.value) /\ f' = res.f
    BY Zenon DEF Count
  <1> HIDE DEF res
  <1> QED BY <1>1, <1>3, <1>4, PutKeeps DEF Makes

LEMMA ShiftsKeeps ==
  ASSUME Ranges, NEW i, Decoded(i), Reads(i) \subseteq DOMAIN mem, Shifts(i)
  PROVE  Ranges'
  <1>1. i.op \in ShiftOps /\ GoesOn(i) /\ UNCHANGED sp
    BY Zenon DEF Shifts, Executes
  <1> DEFINE res == Shift(i.op, Get(i, i.x), f)
  <1>2. Get(i, i.x) \in Byte /\ f \in FlagSet
    BY <1>1, Operands, OperandByte DEF Ranges
  <1>3. Makes(res)
    BY <1>1, <1>2, ShiftTypes
  <1>4. r' = PutRegister(i.x, res.value) /\ mem' = PutMemory(i, i.x, res.value) /\ f' = res.f
    BY Zenon DEF Shifts
  <1> HIDE DEF res
  <1> QED BY <1>1, <1>3, <1>4, PutKeeps DEF Makes

LEMMA BitsKeeps ==
  ASSUME Ranges, NEW i, Decoded(i), Reads(i) \subseteq DOMAIN mem, Bits(i)
  PROVE  Ranges'
  <1>1. i.op \in {"BIT", "RES", "SET"} /\ GoesOn(i) /\ UNCHANGED sp
    BY Zenon DEF Bits, Executes
  <1> DEFINE v == Get(i, i.x)
             res == CASE i.op = "RES" -> ResBit(i.n, v)
                      [] i.op = "SET" -> SetBit(i.n, v)
                      [] i.op = "BIT" -> v
  <1>2. v \in Byte /\ f \in FlagSet /\ i.n \in 0..7
    BY <1>1, Operands, OperandByte DEF Ranges
  <1>3. r' = PutRegister(i.x, res) /\ mem' = PutMemory(i, i.x, res)
         /\ f' = IF i.op = "BIT" THEN TestBit(i.n, v, f) ELSE f
    BY Zenon DEF Bits
  <1> HIDE DEF v
  <1>4. res \in Byte /\ TestBit(i.n, v, f) \in FlagSet
    BY <1>1, <1>2, BitsTypes
  <1> HIDE DEF res
  <1>5. f' \in FlagSet
    BY <1>2, <1>3, <1>4
  <1> QED BY <1>1, <1>3, <1>4, <1>5, PutKeeps

LEMMA WordsKeeps ==
  ASSUME Ranges, NEW i, Decoded(i), Words(i) PROVE Ranges'
  <1>1. pc' \in Word /\ UNCHANGED <<ime, halted, given, mem>>
    <2>1. GoesOn(i) /\ UNCHANGED mem
      BY DEF Words
    <2> QED BY <2>1, GoesOnWord
  <1>2. r' \in [Registers -> Byte] /\ f' \in FlagSet /\ sp' \in Word
    <2>1. CASE i.op \in {"INC16", "DEC16"}
      <3> DEFINE d == IF i.op = "INC16" THEN 1 ELSE -1
                 v == (Pair(i.x) + d) % 65536
      <3>1. r' = WithPair(i.x, v) /\ sp' = (IF i.x = "SP" THEN v ELSE sp) /\ UNCHANGED f
        <4>1. CASE i.op = "INC16"
          BY <4>1 DEF Words
        <4>2. CASE i.op = "DEC16"
          BY <4>2 DEF Words
        <4> QED BY <2>1, <4>1, <4>2
      <3>2. v \in Word /\ i.x \in {"BC", "DE", "HL", "SP", "AF"}
        <4>1. i.x \in {"BC", "DE", "HL", "SP"}
          BY <2>1, Operands
        <4>2. Pair(i.x) \in Word
          BY <4>1, PairWord
        <4>3. Pair(i.x) + d \in Int
          BY <4>2, WordRange
        <4> QED BY <4>1, <4>3, Modulo
      <3> HIDE DEF v
      <3> QED BY <3>1, <3>2, WithPairTypes DEF Ranges
    <2>2. CASE i.op = "ADDHL"
      <3> DEFINE sum == AddWord(Pair("HL"), Pair(i.x), f)
      <3>1. r' = WithPair("HL", sum.value) /\ f' = sum.f /\ UNCHANGED sp
        BY <2>2 DEF Words
      <3>2. sum.value \in Word /\ sum.f \in FlagSet
        <4>1. i.x \in {"BC", "DE", "HL", "SP"}
          BY <2>2, Operands
        <4> QED BY <4>1, PairWord, WordTypes DEF Ranges
      <3> HIDE DEF sum
      <3> QED BY <3>1, <3>2, WithPairTypes DEF Ranges
    <2>3. CASE i.op = "ADDSP"
      <3> DEFINE sum == AddToSp(sp, i.n)
      <3>1. sp' = sum.value /\ f' = sum.f /\ UNCHANGED r
        BY <2>3 DEF Words
      <3>2. sum.value \in Word /\ sum.f \in FlagSet
        BY <2>3, Operands, SpTypes DEF Ranges
      <3> HIDE DEF sum
      <3> QED BY <3>1, <3>2 DEF Ranges
    <2> QED BY <2>1, <2>2, <2>3 DEF Words, Executes
  <1> QED BY <1>1, <1>2 DEF Ranges, MemoryKept, BytesIn

LEMMA AdjustKeeps ==
  ASSUME Ranges, NEW i, Adjust(i) PROVE Ranges'
  <1>1. pc' \in Word /\ UNCHANGED <<ime, halted, given, sp, mem>>
    <2>1. GoesOn(i) /\ UNCHANGED <<sp, mem>>
      BY Zenon DEF Adjust
    <2> QED BY <2>1, GoesOnWord
  <1> DEFINE a == r["A"]
             res == CASE i.op = "DAA" -> Daa(a, f)
                      [] i.op = "CPL" -> Cpl(a, f)
                      [] i.op = "CCF" -> [value |-> a, f |-> Ccf(f)]
                      [] i.op = "SCF" -> [value |-> a, f |-> Scf(f)]
                      [] i.op = "RLCA" -> ShiftA("RLC", a, f)
                      [] i.op = "RLA" -> ShiftA("RL", a, f)
                      [] i.op = "RRCA" -> ShiftA("RRC", a, f)
                      [] i.op = "RRA" -> ShiftA("RR", a, f)
  <1>2. r' = [r EXCEPT !["A"] = res.value] /\ f' = res.f /\ i.op \in AdjustOps
    BY Zenon DEF Adjust, Executes
  <1>3. a \in Byte /\ f \in FlagSet
    BY DEF Ranges, Registers
  <1> HIDE DEF a
  <1>4. /\ Makes(Daa(a, f)) /\ Makes(Cpl(a, f)) /\ Ccf(f) \in FlagSet /\ Scf(f) \in FlagSet
        /\ \A op \in ShiftOps : Makes(ShiftA(op, a, f))
    BY <1>3, DaaTypes, FlipTypes, ShiftTypes
  <1>5. Makes(res)
    <2>1. /\ Makes(ShiftA("RLC", a, f)) /\ Makes(ShiftA("RL", a, f))
          /\ Makes(ShiftA("RRC", a, f)) /\ Makes(ShiftA("RR", a, f))
      BY <1>4 DEF ShiftOps
    <2>2. /\ Makes([value |-> a, f |-> Ccf(f)])
          /\ Makes([value |-> a, f |-> Scf(f)])
      BY <1>3, <1>4 DEF Makes
    <2> QED BY <1>2, <1>4, <2>1, <2>2 DEF AdjustOps
  <1> HIDE DEF res
  <1> QED BY <1>1, <1>2, <1>5 DEF Ranges, MemoryKept, BytesIn, Makes

LEMMA Moved == ASSUME Ranges, NEW d \in Int PROVE (sp + d) % 65536 \in Word
  BY WordRange, Modulo DEF Ranges

LEMMA Descended == ASSUME Ranges PROVE (sp - 2) % 65536 \in Word
  BY WordRange, Modulo DEF Ranges

LEMMA PushKeeps ==
  ASSUME Ranges, NEW i, Decoded(i), Push(i) PROVE Ranges'
  <1>1. GoesOn(i) /\ mem' = Pushed(Pair(i.x)) /\ UNCHANGED <<r, f>> /\ i.op = "PUSH"
    BY DEF Push, Executes
  <1>2. sp' \in Word
    BY Descended DEF Push
  <1>3. Pair(i.x) \in Word
    BY <1>1, Operands, PairWord
  <1>4. pc' \in Word /\ UNCHANGED <<ime, halted, given>>
    BY <1>1, GoesOnWord
  <1> QED BY <1>1, <1>2, <1>3, <1>4, PushedTypes DEF Ranges, MemoryKept

LEMMA PoppedFlagsTypes == ASSUME Popped \in Word PROVE PoppedFlags \in FlagSet
  <1>1. Popped % 256 \in Nat
    BY WordRange
  <1>2. \A k \in 0..7 : BitOf(Popped % 256, k) \in 0..1
    BY <1>1, BitOfTypes
  <1>3. /\ BitOf(Popped % 256, 7) \in 0..1 /\ BitOf(Popped % 256, 6) \in 0..1
        /\ BitOf(Popped % 256, 5) \in 0..1 /\ BitOf(Popped % 256, 4) \in 0..1
    BY <1>2
  <1> QED BY <1>3 DEF PoppedFlags, FlagSet

LEMMA PopKeeps ==
  ASSUME Ranges, NEW i, Decoded(i), Reads(i) \subseteq DOMAIN mem, Pop(i) PROVE Ranges'
  <1>1. /\ GoesOn(i) /\ UNCHANGED mem /\ i.op = "POP"
        /\ r' = WithPair(i.x, Popped) /\ f' = IF i.x = "AF" THEN PoppedFlags ELSE f
    BY DEF Pop, Executes
  <1>2. sp' \in Word
    BY Moved DEF Pop
  <1>3. Popped \in Word
    BY <1>1, PoppedWord DEF Reads
  <1>4. pc' \in Word /\ UNCHANGED <<ime, halted, given>>
    BY <1>1, GoesOnWord
  <1>5. r' \in [Registers -> Byte]
    BY <1>1, <1>3, Operands, WithPairTypes
  <1>6. f' \in FlagSet
    BY <1>1, <1>3, PoppedFlagsTypes DEF Ranges
  <1> QED BY <1>1, <1>2, <1>4, <1>5, <1>6 DEF Ranges, MemoryKept, BytesIn

LEMMA JumpKeeps ==
  ASSUME Ranges, NEW i, Decoded(i), Jump(i) PROVE Ranges'
  <1>1. UNCHANGED <<r, f, sp, mem, ime, halted, given>> /\ i.op \in {"JP", "JR", "JPHL"}
    BY DEF Jump, Executes
  <1>2. pc' \in Word
    <2> DEFINE relative == (Following(i) + Signed(i.n)) % 65536
    <2>1. Following(i) \in Word /\ Pair("HL") \in Word /\ i.n \in Word
      BY FollowingWord, PairWord, Operands
    <2>2. i.op = "JR" => relative \in Word
      <3>1. i.op = "JR" => i.n \in Byte
        BY Operands
      <3>2. i.n \in Byte => Following(i) + Signed(i.n) \in Int
        BY <2>1, SignedTypes, WordRange
      <3> QED BY <3>1, <3>2, Modulo
    <2>3. pc' = IF ~Holds(i.cc) THEN Following(i)
                ELSE CASE i.op = "JP" -> i.n
                       [] i.op = "JR" -> relative
                       [] i.op = "JPHL" -> Pair("HL")
      BY DEF Jump
    <2> HIDE DEF relative
    <2> QED BY <1>1, <2>1, <2>2, <2>3
  <1> QED BY <1>1, <1>2 DEF Ranges, MemoryKept, BytesIn

LEMMA CallKeeps ==
  ASSUME Ranges, NEW i, Decoded(i), Call(i) PROVE Ranges'
  <1>1. UNCHANGED <<r, f, ime, halted, given>>
    BY DEF Call
  <1>2. Following(i) \in Word /\ i.n \in Word
    BY FollowingWord, Operands
  <1>3. CASE Holds(i.cc)
    <2>1. mem' = Pushed(Following(i)) /\ pc' = i.n
      BY <1>3 DEF Call
    <2>2. sp' \in Word
      BY <1>3, Descended DEF Call
    <2> QED BY <1>1, <1>2, <2>1, <2>2, PushedTypes DEF Ranges, MemoryKept
  <1>4. CASE ~Holds(i.cc)
    <2>1. pc' = Following(i) /\ UNCHANGED <<mem, sp>>
      BY <1>4 DEF Call
    <2> QED BY <1>1, <1>2, <2>1 DEF Ranges, MemoryKept, BytesIn
  <1> QED BY <1>3, <1>4

LEMMA ReturnKeeps ==
  ASSUME Ranges, NEW i, Reads(i) \subseteq DOMAIN mem, Return(i) PROVE Ranges'
  <1>1. UNCHANGED <<r, f, mem, halted, given>> /\ i.op \in {"RET", "RETI"}
    BY DEF Return, Executes
  <1>2. ime' \in BOOLEAN
    <2>1. ime' = (ime \/ i.op = "RETI")
      BY DEF Return
    <2> QED BY <2>1
  <1>3. pc' \in Word /\ sp' \in Word
    <2>1. Following(i) \in Word
      BY FollowingWord
    <2>2. Popped \in Word
      BY <1>1, PoppedWord DEF Reads
    <2>3. (sp + 2) % 65536 \in Word
      BY Moved
    <2> QED BY <2>1, <2>2, <2>3 DEF Return, Ranges
  <1> QED BY <1>1, <1>2, <1>3 DEF Ranges, MemoryKept, BytesIn

LEMMA SwitchKeeps ==
  ASSUME Ranges, NEW i, Switch(i) PROVE Ranges'
  <1>1. pc' = Following(i) /\ UNCHANGED <<r, f, sp, mem, halted, given>>
    BY Zenon DEF Switch
  <1>2. ime' \in BOOLEAN
    <2>1. ime' = (i.op = "EI")
      BY DEF Switch
    <2> QED BY <2>1
  <1> QED BY <1>1, <1>2, FollowingWord DEF Ranges, MemoryKept, BytesIn

LEMMA HaltKeeps ==
  ASSUME Ranges, NEW i, Halt(i) PROVE Ranges'
  <1>1. pc' = Following(i) /\ halted' = TRUE /\ UNCHANGED <<r, f, sp, mem, ime, given>>
    BY Zenon DEF Halt
  <1> QED BY <1>1, FollowingWord DEF Ranges, MemoryKept, BytesIn

LEMMA InterruptKeeps ==
  ASSUME Ranges, NEW i \in Requested, Interrupt(i) PROVE Ranges'
  <1>1. mem' = Pushed(pc) /\ ime' = FALSE /\ halted' = FALSE /\ UNCHANGED <<r, f, given>>
    BY DEF Interrupt
  <1>2. sp' \in Word
    BY Descended DEF Interrupt
  <1>3. pc' \in Word
    <2>1. i \in 0..4 /\ pc' = 64 + 8 * i
      BY InterruptsAssumption DEF Interrupt
    <2> QED BY <2>1, WordRange
  <1> QED BY <1>1, <1>2, <1>3, PushedTypes DEF Ranges, MemoryKept

LEMMA WakeKeeps == ASSUME Ranges, Wake PROVE Ranges'
  <1>1. halted' = FALSE /\ UNCHANGED <<r, f, sp, pc, mem, ime, given>>
    BY Zenon DEF Wake
  <1> QED BY <1>1 DEF Ranges, MemoryKept, BytesIn

(* No step leaves the ranges, where there is an instruction and memory.    *)
LEMMA NextKeeps ==
  ASSUME Ranges, Mapped, [Next]_vars PROVE Ranges'
  <1>1. CASE cpu_step
    <2>1. PICK i \in {Program[pc]} :
            \/ Load8(i) \/ Load16(i) \/ Arithmetic(i) \/ Count(i) \/ Words(i) \/ Adjust(i)
            \/ Shifts(i) \/ Bits(i) \/ Push(i) \/ Pop(i) \/ Jump(i) \/ Call(i)
            \/ Return(i) \/ Switch(i) \/ Halt(i)
      BY <1>1, Zenon DEF cpu_step
    <2>2. Decoded(i) /\ Reads(i) \subseteq DOMAIN mem
      BY ProgramAssumption DEF Mapped
    <2> QED BY <2>1, <2>2, Load8Keeps, Load16Keeps, ArithmeticKeeps, CountKeeps, WordsKeeps,
               AdjustKeeps, ShiftsKeeps, BitsKeeps, PushKeeps, PopKeeps, JumpKeeps,
               CallKeeps, ReturnKeeps, SwitchKeeps, HaltKeeps, Zenon
  <1>2. CASE \E i \in Requested : Interrupt(i)
    BY <1>2, InterruptKeeps, Zenon
  <1>3. CASE Wake
    BY <1>3, WakeKeeps, Zenon
  <1>4. CASE UNCHANGED vars
    <2>1. UNCHANGED <<r, f, sp, pc, mem, ime, halted, given>>
      BY <1>4, Zenon DEF vars
    <2> QED BY <2>1 DEF Ranges, MemoryKept, BytesIn
  <1> QED BY <1>1, <1>2, <1>3, <1>4, Zenon DEF Next

LEMMA InitRanges == ASSUME Init PROVE Ranges
  <1>1. r \in [Registers -> Byte]
    BY DEF Init, Registers, Byte
  <1>2. f \in FlagSet
    BY DEF Init, FlagSet
  <1>3. sp \in Word
    <2>1. sp = 65534
      BY DEF Init
    <2> QED BY <2>1, WordRange
  <1>4. pc \in Word
    <2>1. pc = Entry
      BY DEF Init
    <2>2. Entry \in Word
      BY ProgramAssumption
    <2> QED BY <2>1, <2>2
  <1>5. ime \in BOOLEAN /\ halted \in BOOLEAN
    <2>1. ime = TRUE /\ halted = FALSE
      BY DEF Init
    <2> QED BY <2>1
  <1>6. MemoryKept
    BY MemoriesAssumption DEF Init, MemoryKept, BytesIn
  <1> QED BY <1>1, <1>2, <1>3, <1>4, <1>5, <1>6 DEF Ranges
-----------------------------------------------------------------------------
(* The stack.                                                              *)
FrameSet == [return : Word, sp : Word, r : [Registers -> Byte], f : FlagSet]

(* Memory m holds the return address of a frame.                           *)
Held(m, frame) ==
  /\ frame.sp >= 2 /\ ReturnCells(frame) \subseteq DOMAIN m
  /\ m[frame.sp - 2] + 256 * m[frame.sp - 1] = frame.return

StackHolds ==
  /\ frames \in Seq(FrameSet)
  /\ \A k \in DOMAIN frames : Held(mem, frames[k])
  /\ \A j, k \in DOMAIN frames : j < k => frames[j].sp <= frames[k].sp - 2

(* All return addresses lie above the pointer if the last one does.        *)
LEMMA FrameWord ==
  ASSUME StackHolds, NEW k \in DOMAIN frames
  PROVE  frames[k].sp \in Int /\ frames[k].sp <= 65535 /\ frames[k].return \in Word
  <1>1. frames[k] \in FrameSet
    BY DEF StackHolds
  <1> QED BY <1>1, WordRange DEF FrameSet

LEMMA Above ==
  ASSUME Ranges, StackHolds, frames # <<>> => sp <= Head(frames).sp - 2
  PROVE  \A k \in DOMAIN frames : sp <= frames[k].sp - 2
  <1> SUFFICES ASSUME NEW k \in DOMAIN frames PROVE sp <= frames[k].sp - 2
    OBVIOUS
  <1>1. frames # <<>> /\ Head(frames) = frames[1] /\ 1 \in DOMAIN frames /\ k \in Nat /\ k >= 1
    BY DEF StackHolds
  <1>2. frames[1].sp \in Int /\ frames[k].sp \in Int /\ sp \in Int
    BY <1>1, FrameWord, WordRange DEF Ranges
  <1>3. k = 1 \/ frames[1].sp <= frames[k].sp - 2
    BY <1>1 DEF StackHolds
  <1> QED BY <1>1, <1>2, <1>3

(* What does not write to the return addresses keeps them.                 *)
LEMMA StaysHeld ==
  ASSUME StackHolds, frames' = frames, DOMAIN mem' = DOMAIN mem,
         \A k \in DOMAIN frames : \A c \in ReturnCells(frames[k]) : mem'[c] = mem[c]
  PROVE  StackHolds'
  <1>1. ASSUME NEW k \in DOMAIN frames PROVE Held(mem', frames[k])
    <2>1. /\ frames[k].sp >= 2 /\ ReturnCells(frames[k]) \subseteq DOMAIN mem
          /\ mem[frames[k].sp - 2] + 256 * mem[frames[k].sp - 1] = frames[k].return
      BY DEF StackHolds, Held
    <2>2. mem'[frames[k].sp - 2] = mem[frames[k].sp - 2]
           /\ mem'[frames[k].sp - 1] = mem[frames[k].sp - 1]
      BY DEF ReturnCells
    <2> QED BY <2>1, <2>2 DEF Held, ReturnCells
  <1> QED BY <1>1 DEF StackHolds

(* Pushing a word leaves it there and touches nothing above.               *)
LEMMA PushedCells ==
  ASSUME Ranges, sp >= 2, {sp - 2, sp - 1} \subseteq DOMAIN mem, NEW v \in Word
  PROVE  /\ Pushed(v)[sp - 2] + 256 * Pushed(v)[sp - 1] = v
         /\ \A c \in DOMAIN mem : c # sp - 2 /\ c # sp - 1 => Pushed(v)[c] = mem[c]
  <1> DEFINE lo == v % 256
             hi == v \div 256
  <1>1. (sp - 2) % 65536 = sp - 2 /\ (sp - 1) % 65536 = sp - 1 /\ sp \in Int
    <2>1. sp \in Word
      BY DEF Ranges
    <2>2. sp \in Int /\ 2 <= sp /\ sp <= 65535
      BY <2>1, WordRange
    <2> QED BY <2>2
  <1>2. Pushed(v) = [mem EXCEPT ![sp - 2] = lo, ![sp - 1] = hi]
    <2> DEFINE a1 == (sp - 2) % 65536
               a2 == (sp - 1) % 65536
    <2>1. Pushed(v) = [mem EXCEPT ![a1] = lo, ![a2] = hi]
      BY DEF Pushed
    <2>2. a1 = sp - 2 /\ a2 = sp - 1
      BY <1>1
    <2> HIDE DEF a1, a2, lo, hi
    <2> QED BY <2>1, <2>2
  <1>3. lo + 256 * hi = v
    <2>1. v \in Int
      BY WordRange
    <2> QED BY <2>1
  <1> HIDE DEF lo, hi
  <1>4. Pushed(v)[sp - 2] = lo /\ Pushed(v)[sp - 1] = hi
    BY <1>1, <1>2
  <1>5. \A c \in DOMAIN mem : c # sp - 2 /\ c # sp - 1 => Pushed(v)[c] = mem[c]
    BY <1>2
  <1> QED BY <1>3, <1>4, <1>5

(* Room to push, below all return addresses.                               *)
Room ==
  /\ sp >= 2 /\ {sp - 2, sp - 1} \subseteq DOMAIN mem
  /\ frames # <<>> => sp <= Head(frames).sp - 2

LEMMA PushKeepsCells ==
  ASSUME Ranges, StackHolds, Room, NEW v \in Word
  PROVE  \A k \in DOMAIN frames : \A c \in ReturnCells(frames[k]) : Pushed(v)[c] = mem[c]
  <1> SUFFICES ASSUME NEW k \in DOMAIN frames, NEW c \in ReturnCells(frames[k])
               PROVE  Pushed(v)[c] = mem[c]
    OBVIOUS
  <1>1. sp <= frames[k].sp - 2 /\ frames[k].sp \in Int /\ sp \in Int
    BY Above, FrameWord, WordRange DEF Room, Ranges
  <1>2. c \in DOMAIN mem
    BY DEF StackHolds, Held
  <1>3. c # sp - 2 /\ c # sp - 1
    BY <1>1 DEF ReturnCells
  <1> QED BY <1>2, <1>3, PushedCells DEF Room

(* The frames after a call and after a return.                             *)
LEMMA Longer ==
  ASSUME NEW S, NEW s \in Seq(S), NEW x \in S, NEW t, t = <<x>> \o s
  PROVE  /\ t \in Seq(S) /\ t # <<>> /\ Len(t) = Len(s) + 1
         /\ \A k \in DOMAIN t :
              \/ k = 1 /\ t[k] = x
              \/ k - 1 \in DOMAIN s /\ k - 1 < k /\ t[k] = s[k - 1]
  <1>1. t \in Seq(S) /\ Len(t) = Len(s) + 1
    OBVIOUS
  <1>2. t[1] = x
    OBVIOUS
  <1>3. ASSUME NEW k \in DOMAIN t, k # 1
        PROVE  k - 1 \in DOMAIN s /\ k - 1 < k /\ t[k] = s[k - 1]
    <2> DEFINE one == <<x>>
    <2>1. one \in Seq(S) /\ Len(one) = 1 /\ t = one \o s
      OBVIOUS
    <2>2. k \in 2..(Len(s) + 1) /\ Len(s) \in Nat
      BY <1>1, <1>3
    <2> HIDE DEF one
    <2>3. /\ k - 1 \in DOMAIN s /\ k - 1 < k
          /\ k \in 1..(Len(one) + Len(s)) /\ ~(k <= Len(one)) /\ k - Len(one) = k - 1
      BY <2>1, <2>2
    <2>4. \A j \in 1..(Len(one) + Len(s)) :
            t[j] = IF j <= Len(one) THEN one[j] ELSE s[j - Len(one)]
      BY <2>1, ConcatProperties
    <2>5. t[k] = s[k - Len(one)]
      BY <2>3, <2>4
    <2> QED BY <2>3, <2>5
  <1>4. t # <<>>
    BY <1>1
  <1> QED BY <1>1, <1>2, <1>3, <1>4

LEMMA Shorter ==
  ASSUME NEW S, NEW s \in Seq(S), s # <<>>, NEW t, t = Tail(s)
  PROVE  /\ t \in Seq(S) /\ Len(t) = Len(s) - 1
         /\ \A k \in DOMAIN t : k + 1 \in DOMAIN s /\ t[k] = s[k + 1]
  OBVIOUS

(* A call and an interrupt.                                                *)
LEMMA FramePushed ==
  ASSUME Ranges, StackHolds, Room, NEW v \in Word,
         mem' = Pushed(v), frames' = <<Frame(v)>> \o frames
  PROVE  StackHolds'
  <1> DEFINE new == Frame(v)
  <1>1. new \in FrameSet /\ new.sp = sp /\ new.return = v
    BY DEF Frame, FrameSet, Ranges
  <1>2. DOMAIN mem' = DOMAIN mem
    BY PushedTypes
  <1>3. Held(mem', new)
    <2>1. /\ sp >= 2 /\ {sp - 2, sp - 1} \subseteq DOMAIN mem'
          /\ mem'[sp - 2] + 256 * mem'[sp - 1] = v
      BY <1>2, PushedCells DEF Room
    <2> HIDE DEF new
    <2> QED BY <1>1, <2>1 DEF Held, ReturnCells
  <1>4. ASSUME NEW k \in DOMAIN frames PROVE Held(mem', frames[k])
    <2>1. /\ frames[k].sp >= 2 /\ ReturnCells(frames[k]) \subseteq DOMAIN mem
          /\ mem[frames[k].sp - 2] + 256 * mem[frames[k].sp - 1] = frames[k].return
      BY DEF StackHolds, Held
    <2>2. mem'[frames[k].sp - 2] = mem[frames[k].sp - 2]
           /\ mem'[frames[k].sp - 1] = mem[frames[k].sp - 1]
      BY PushKeepsCells DEF ReturnCells
    <2> QED BY <1>2, <2>1, <2>2 DEF Held, ReturnCells
  <1>5. /\ frames' \in Seq(FrameSet)
        /\ \A k \in DOMAIN frames' :
           \/ k = 1 /\ frames'[k] = new
           \/ k - 1 \in DOMAIN frames /\ k - 1 < k /\ frames'[k] = frames[k - 1]
    <2>1. frames \in Seq(FrameSet) /\ frames' = <<new>> \o frames
      BY DEF StackHolds
    <2> HIDE DEF new
    <2> QED BY <1>1, <2>1, Longer
  <1>6. ASSUME NEW j \in DOMAIN frames', NEW k \in DOMAIN frames', j < k
        PROVE  frames'[j].sp <= frames'[k].sp - 2
    <2>1. j \in Nat /\ k \in Nat /\ j >= 1 /\ k # 1
      BY <1>5, <1>6
    <2>2. k - 1 \in DOMAIN frames /\ frames'[k] = frames[k - 1]
      BY <1>5, <2>1
    <2>3. CASE j = 1
      <3>1. frames'[j] = new
        BY <1>5, <2>3 DEF StackHolds
      <3>2. sp <= frames[k - 1].sp - 2
        BY <2>2, Above DEF Room
      <3> QED BY <1>1, <2>2, <3>1, <3>2
    <2>4. CASE j # 1
      <3>1. j - 1 \in DOMAIN frames /\ frames'[j] = frames[j - 1] /\ j - 1 < k - 1
        BY <1>5, <1>6, <2>1, <2>4
      <3> QED BY <2>2, <3>1 DEF StackHolds
    <2> QED BY <2>3, <2>4
  <1>7. ASSUME NEW k \in DOMAIN frames' PROVE Held(mem', frames'[k])
    <2> HIDE DEF new
    <2>1. (k = 1 /\ frames'[k] = new)
           \/ (k - 1 \in DOMAIN frames /\ frames'[k] = frames[k - 1])
      BY <1>5
    <2>2. CASE frames'[k] = new
      BY <1>3, <2>2
    <2>3. CASE k - 1 \in DOMAIN frames /\ frames'[k] = frames[k - 1]
      BY <1>4, <2>3
    <2> QED BY <2>1, <2>2, <2>3
  <1> QED BY <1>5, <1>6, <1>7 DEF StackHolds

(* A return.                                                               *)
LEMMA FramePopped ==
  ASSUME StackHolds, frames # <<>>, frames' = Tail(frames), UNCHANGED mem
  PROVE  StackHolds'
  <1>1. /\ frames' \in Seq(FrameSet)
        /\ \A k \in DOMAIN frames' : k + 1 \in DOMAIN frames /\ frames'[k] = frames[k + 1]
    BY Shorter DEF StackHolds
  <1>2. ASSUME NEW k \in DOMAIN frames' PROVE Held(mem', frames'[k])
    BY <1>1 DEF StackHolds, Held, ReturnCells
  <1>3. ASSUME NEW j \in DOMAIN frames', NEW k \in DOMAIN frames', j < k
        PROVE  frames'[j].sp <= frames'[k].sp - 2
    <2>1. j + 1 < k + 1
      BY <1>1, <1>3
    <2> QED BY <1>1, <2>1 DEF StackHolds
  <1> QED BY <1>1, <1>2, <1>3 DEF StackHolds
-----------------------------------------------------------------------------
(* An instruction that is no call and no return writes where Writes says,  *)
(* or pushes.                                                              *)
Touches(i) == Writes(i) \cup IF i.op = "PUSH" THEN {sp - 2, sp - 1} ELSE {}

LEMMA PutElsewhere ==
  ASSUME NEW i, i.op \in Stores, i.x \in Registers \cup InMemory, NEW v,
         NEW c \in DOMAIN mem, c \notin Writes(i)
  PROVE  PutMemory(i, i.x, v)[c] = mem[c]
  <1>1. CASE i.x \in Registers
    BY <1>1 DEF PutMemory
  <1>2. CASE i.x \in InMemory
    <2>1. Address(i, i.x) \in Writes(i)
      BY <1>2 DEF Writes
    <2>2. c # Address(i, i.x) /\ i.x \notin Registers
      BY <2>1, <1>2 DEF Registers, InMemory
    <2> QED BY <2>2 DEF PutMemory
  <1> QED BY <1>1, <1>2

LEMMA BitKeepsMemory ==
  ASSUME NEW i, i.x \in InRegisters, NEW c \in DOMAIN mem
  PROVE  PutMemory(i, i.x, Get(i, i.x))[c] = mem[c]
  <1>1. CASE i.x \in Registers
    BY <1>1 DEF PutMemory
  <1>2. CASE i.x \notin Registers
    <2>1. i.x # "n"
      BY <1>2 DEF InRegisters
    <2> DEFINE a == Address(i, i.x)
    <2>2. Get(i, i.x) = mem[a]
      BY <1>2, <2>1 DEF Get
    <2>3. PutMemory(i, i.x, mem[a]) = [mem EXCEPT ![a] = mem[a]]
      BY <1>2 DEF PutMemory
    <2> HIDE DEF a
    <2> QED BY <2>2, <2>3
  <1> QED BY <1>1, <1>2

LEMMA Untouched ==
  ASSUME Ranges, NEW i, Decoded(i), i.op \in Pushes => sp >= 2,
         NEW c \in DOMAIN mem, c \notin Touches(i),
         \/ Load8(i) \/ Load16(i) \/ Arithmetic(i) \/ Count(i) \/ Words(i) \/ Adjust(i)
         \/ Shifts(i) \/ Bits(i) \/ Push(i) \/ Pop(i) \/ Jump(i) \/ Switch(i) \/ Halt(i)
  PROVE  mem'[c] = mem[c]
  <1> c \notin Writes(i)
    BY DEF Touches
  <1>1. CASE Load8(i)
    <2>1. CASE i.op = "NOP"
      BY <1>1, <2>1 DEF Load8
    <2>2. CASE i.op = "LD"
      <3>1. mem' = PutMemory(i, i.x, Get(i, i.y))
        BY <1>1, <2>2 DEF Load8
      <3>2. i.x \in Registers \cup InMemory /\ i.op \in Stores
        BY <2>2, Operands DEF Stores
      <3> QED BY <3>1, <3>2, PutElsewhere
    <2> QED BY <1>1, <2>1, <2>2 DEF Load8, Executes
  <1>2. CASE Load16(i)
    <2>1. CASE i.op = "LDnnSP"
      <3> DEFINE lo == sp % 256
                 hi == sp \div 256
                 a == (i.n + 1) % 65536
      <3>1. mem' = [mem EXCEPT ![i.n] = lo, ![a] = hi]
        BY <1>2, <2>1 DEF Load16
      <3>2. c # i.n /\ c # a
        BY <2>1 DEF Writes
      <3> HIDE DEF lo, hi, a
      <3> QED BY <3>1, <3>2
    <2>2. CASE i.op \in {"LD16", "LDSPHL", "LDHLSP"}
      <3>1. CASE i.op = "LD16"
        BY <1>2, <3>1 DEF Load16
      <3>2. CASE i.op = "LDSPHL"
        BY <1>2, <3>2 DEF Load16
      <3>3. CASE i.op = "LDHLSP"
        BY <1>2, <3>3 DEF Load16
      <3> QED BY <2>2, <3>1, <3>2, <3>3
    <2> QED BY <1>2, <2>1, <2>2 DEF Load16, Executes
  <1>3. CASE Count(i) \/ Shifts(i)
    <2>1. i.op \in Stores /\ i.x \in InRegisters
      <3>1. i.op \in {"INC", "DEC"} \cup ShiftOps
        BY <1>3, Zenon DEF Count, Shifts, Executes
      <3> QED BY <3>1, Operands DEF Stores
    <2>2. PICK v : mem' = PutMemory(i, i.x, v)
      BY <1>3, Zenon DEF Count, Shifts
    <2>3. i.x \in Registers \cup InMemory
      BY <2>1 DEF InRegisters, InMemory
    <2> QED BY <2>1, <2>2, <2>3, PutElsewhere
  <1>4. CASE Bits(i)
    <2>1. i.op \in {"BIT", "RES", "SET"}
      BY <1>4, Zenon DEF Bits, Executes
    <2>2. i.x \in InRegisters
      BY <2>1, Operands
    <2>3. CASE i.op = "BIT"
      <3>1. mem' = PutMemory(i, i.x, Get(i, i.x))
        BY <1>4, <2>3 DEF Bits
      <3> QED BY <2>2, <3>1, BitKeepsMemory
    <2>4. CASE i.op # "BIT"
      <3>1. PICK v : mem' = PutMemory(i, i.x, v)
        BY <1>4, Zenon DEF Bits
      <3>2. i.op \in Stores /\ i.x \in Registers \cup InMemory
        BY <2>1, <2>2, <2>4 DEF Stores, InRegisters, InMemory
      <3> QED BY <3>1, <3>2, PutElsewhere
    <2> QED BY <2>3, <2>4
  <1>5. CASE Push(i)
    <2>1. i.op = "PUSH" /\ mem' = Pushed(Pair(i.x))
      BY <1>5 DEF Push, Executes
    <2> DEFINE lo == Pair(i.x) % 256
               hi == Pair(i.x) \div 256
               a1 == (sp - 2) % 65536
               a2 == (sp - 1) % 65536
    <2>2. mem' = [mem EXCEPT ![a1] = lo, ![a2] = hi]
      BY <2>1 DEF Pushed
    <2>3. a1 = sp - 2 /\ a2 = sp - 1
      <3>1. sp >= 2 /\ sp \in Word
        BY <2>1 DEF Ranges, Pushes
      <3>2. sp \in Int /\ 2 <= sp /\ sp <= 65535
        BY <3>1, WordRange
      <3> QED BY <3>2
    <2>4. c # sp - 2 /\ c # sp - 1
      BY <2>1 DEF Touches
    <2> HIDE DEF lo, hi, a1, a2
    <2> QED BY <2>2, <2>3, <2>4
  <1>6. CASE Arithmetic(i) \/ Adjust(i) \/ Switch(i) \/ Halt(i)
    <2>1. UNCHANGED mem
      BY <1>6, Zenon DEF Arithmetic, Adjust, Switch, Halt
    <2> QED BY <2>1
  <1>7. CASE Words(i)
    BY <1>7 DEF Words
  <1>8. CASE Pop(i)
    BY <1>8 DEF Pop
  <1>9. CASE Jump(i)
    BY <1>9 DEF Jump
  <1> QED BY <1>1, <1>2, <1>3, <1>4, <1>5, <1>6, <1>7, <1>8, <1>9

(* These leave the frames.                                                 *)
LEMMA FramesStay ==
  ASSUME NEW i,
         \/ Load8(i) \/ Load16(i) \/ Arithmetic(i) \/ Count(i) \/ Words(i) \/ Adjust(i)
         \/ Shifts(i) \/ Bits(i) \/ Push(i) \/ Pop(i) \/ Jump(i) \/ Switch(i) \/ Halt(i)
  PROVE  frames' = frames
  <1>1. CASE GoesOn(i)
    BY <1>1, Zenon DEF GoesOn
  <1>2. CASE Jump(i)
    BY <1>2 DEF Jump
  <1>3. CASE Switch(i) \/ Halt(i)
    BY <1>3, Zenon DEF Switch, Halt
  <1>4. CASE Load8(i) \/ Load16(i) \/ Words(i)
    <2>1. Load8(i) => GoesOn(i)
      BY DEF Load8
    <2>2. Load16(i) => GoesOn(i)
      BY DEF Load16
    <2>3. Words(i) => GoesOn(i)
      BY DEF Words
    <2> QED BY <1>1, <1>4, <2>1, <2>2, <2>3
  <1>5. CASE Arithmetic(i) \/ Count(i) \/ Adjust(i) \/ Shifts(i) \/ Bits(i)
    BY <1>1, <1>5, Zenon DEF Arithmetic, Count, Adjust, Shifts, Bits
  <1>6. CASE Push(i) \/ Pop(i)
    BY <1>1, <1>6 DEF Push, Pop
  <1> QED BY <1>2, <1>3, <1>4, <1>5, <1>6
(* Memory keeps its addresses.                                             *)
LEMMA MemoryStays == ASSUME Ranges, Ranges', [Next]_vars PROVE DOMAIN mem' = DOMAIN mem
  <1>1. CASE cpu_step
    <2>1. PICK i \in {Program[pc]} :
            \/ Load8(i) \/ Load16(i) \/ Arithmetic(i) \/ Count(i) \/ Words(i) \/ Adjust(i)
            \/ Shifts(i) \/ Bits(i) \/ Push(i) \/ Pop(i) \/ Jump(i) \/ Call(i)
            \/ Return(i) \/ Switch(i) \/ Halt(i)
      BY <1>1, Zenon DEF cpu_step
    <2>2. CASE GoesOn(i)
      BY <2>2 DEF GoesOn, Ranges, MemoryKept
    <2>3. Load8(i) \/ Load16(i) \/ Words(i) \/ Push(i) \/ Pop(i) => GoesOn(i)
      <3>1. Load8(i) => GoesOn(i)
        BY DEF Load8
      <3>2. Load16(i) => GoesOn(i)
        BY DEF Load16
      <3>3. Words(i) => GoesOn(i)
        BY DEF Words
      <3>4. Push(i) \/ Pop(i) => GoesOn(i)
        BY DEF Push, Pop
      <3> QED BY <3>1, <3>2, <3>3, <3>4
    <2>4. Arithmetic(i) \/ Count(i) \/ Adjust(i) \/ Shifts(i) \/ Bits(i) => GoesOn(i)
      BY Zenon DEF Arithmetic, Count, Adjust, Shifts, Bits
    <2>5. Jump(i) \/ Call(i) \/ Return(i) \/ Switch(i) \/ Halt(i) => UNCHANGED given
      <3>1. Jump(i) => UNCHANGED given
        BY DEF Jump
      <3>2. Call(i) => UNCHANGED given
        BY DEF Call
      <3>3. Return(i) => UNCHANGED given
        BY DEF Return
      <3>4. Switch(i) \/ Halt(i) => UNCHANGED given
        BY Zenon DEF Switch, Halt
      <3> QED BY <3>1, <3>2, <3>3, <3>4
    <2>6. CASE UNCHANGED given
      BY <2>6 DEF Ranges, MemoryKept
    <2> QED BY <2>1, <2>2, <2>3, <2>4, <2>5, <2>6
  <1>2. CASE \E i \in Requested : Interrupt(i)
    <2>1. UNCHANGED given
      BY <1>2 DEF Interrupt
    <2> QED BY <2>1 DEF Ranges, MemoryKept
  <1>3. CASE Wake \/ UNCHANGED vars
    <2>1. UNCHANGED given
      BY <1>3, Zenon DEF Wake, vars
    <2> QED BY <2>1 DEF Ranges, MemoryKept
  <1> QED BY <1>1, <1>2, <1>3, Zenon DEF Next

(* Pointers into the stack, wherever it is.                                *)
LEMMA Wraps == ASSUME NEW n \in Int, -65536 <= n, n < 0 PROVE n % 65536 = n + 65536
  OBVIOUS

LEMMA Stays == ASSUME NEW n \in Int, 0 <= n, n <= 65535 PROVE n % 65536 = n
  OBVIOUS

LEMMA Around ==
  ASSUME NEW s \in Word, NEW t, t = (s - 2) % 65536
  PROVE  /\ t \in Word /\ (t + 1) % 65536 = (s - 1) % 65536 /\ (t + 2) % 65536 = s
         /\ t # (s - 1) % 65536 /\ (s - 1) % 65536 \in Word
  <1>1. s \in Int /\ 0 <= s /\ s <= 65535
    BY WordRange
  <1>2. CASE s = 0
    <2>1. s - 2 \in Int /\ -65536 <= s - 2 /\ s - 2 < 0
      BY <1>2
    <2>2. s - 1 \in Int /\ -65536 <= s - 1 /\ s - 1 < 0
      BY <1>2
    <2>3. t = s - 2 + 65536 /\ (s - 1) % 65536 = s - 1 + 65536
      BY <2>1, <2>2, Wraps
    <2>4. t = 65534 /\ (s - 1) % 65536 = 65535
      BY <1>2, <2>3
    <2>5. (t + 1) % 65536 = 65535 /\ (t + 2) % 65536 = 0
      BY <2>4
    <2> QED BY <1>2, <2>4, <2>5, WordRange
  <1>3. CASE s = 1
    <2>1. s - 2 \in Int /\ -65536 <= s - 2 /\ s - 2 < 0
      BY <1>3
    <2>2. s - 1 \in Int /\ 0 <= s - 1 /\ s - 1 <= 65535
      BY <1>3
    <2>3. t = s - 2 + 65536 /\ (s - 1) % 65536 = s - 1
      BY <2>1, <2>2, Wraps, Stays
    <2>4. t = 65535 /\ (s - 1) % 65536 = 0
      BY <1>3, <2>3
    <2>5. (t + 1) % 65536 = 0 /\ (t + 2) % 65536 = 1
      BY <2>4
    <2> QED BY <1>3, <2>4, <2>5, WordRange
  <1>4. CASE s >= 2
    <2>1. /\ s - 2 \in Int /\ 0 <= s - 2 /\ s - 2 <= 65535
          /\ s - 1 \in Int /\ 0 <= s - 1 /\ s - 1 <= 65535
      BY <1>1, <1>4
    <2>2. t = s - 2 /\ (s - 1) % 65536 = s - 1
      BY <2>1, Stays
    <2>3. t \in Word /\ s - 1 \in Word /\ t + 1 = s - 1 /\ t + 2 = s /\ t # s - 1
      BY <1>1, <1>4, <2>2, WordRange
    <2>4. s % 65536 = s
      BY <1>1, Stays
    <2> QED BY <2>2, <2>3, <2>4
  <1> QED BY <1>1, <1>2, <1>3, <1>4

(* No step of a program that keeps to the discipline loses a return        *)
(* address.                                                                *)
LEMMA StackKept ==
  ASSUME Ranges, StackHolds, Disciplined, [Next]_vars PROVE StackHolds'
  <1> DEFINE i == Program[pc]
  <1>0. Mapped /\ Decoded(i) /\ Ranges' /\ DOMAIN mem' = DOMAIN mem
    <2>1. Mapped
      BY DEF Disciplined
    <2>2. Ranges'
      BY <2>1, NextKeeps
    <2> QED BY <2>1, <2>2, MemoryStays, ProgramAssumption DEF Mapped
  <1>1. /\ ime \/ i.op \in Pushes => Room
        /\ \A k \in DOMAIN frames : Writes(i) \cap ReturnCells(frames[k]) = {}
        /\ i.op \in {"RET", "RETI"} /\ Holds(i.cc) => frames # <<>>
    BY DEF Disciplined, Room
  <1> HIDE DEF i
  <1>2. CASE cpu_step
    <2>1. \/ Load8(i) \/ Load16(i) \/ Arithmetic(i) \/ Count(i) \/ Words(i) \/ Adjust(i)
          \/ Shifts(i) \/ Bits(i) \/ Push(i) \/ Pop(i) \/ Jump(i) \/ Switch(i) \/ Halt(i)
          \/ Call(i) \/ Return(i)
      BY <1>2, Zenon DEF cpu_step, i
    <2>2. CASE Call(i)
      <3>1. CASE Holds(i.cc)
        <4>1. mem' = Pushed(Following(i)) /\ frames' = <<Frame(Following(i))>> \o frames
               /\ i.op \in Pushes
          BY <2>2, <3>1 DEF Call, Executes, Pushes
        <4> QED BY <1>1, <4>1, FollowingWord, FramePushed
      <3>2. CASE ~Holds(i.cc)
        <4>1. UNCHANGED <<mem, frames>>
          BY <2>2, <3>2 DEF Call
        <4> QED BY <4>1, StaysHeld
      <3> QED BY <3>1, <3>2
    <2>3. CASE Return(i)
      <3>1. UNCHANGED mem /\ i.op \in {"RET", "RETI"}
             /\ frames' = IF Holds(i.cc) THEN Tail(frames) ELSE frames
        BY <2>3 DEF Return, Executes
      <3> QED BY <1>1, <3>1, FramePopped, StaysHeld
    <2>4. CASE \/ Load8(i) \/ Load16(i) \/ Arithmetic(i) \/ Count(i) \/ Words(i) \/ Adjust(i)
               \/ Shifts(i) \/ Bits(i) \/ Push(i) \/ Pop(i) \/ Jump(i) \/ Switch(i) \/ Halt(i)
      <3>1. frames' = frames
        BY <2>4, FramesStay
      <3>2. ASSUME NEW k \in DOMAIN frames, NEW c \in ReturnCells(frames[k])
            PROVE  mem'[c] = mem[c]
        <4>1. c \in DOMAIN mem /\ c \notin Writes(i)
          BY <1>1 DEF StackHolds, Held
        <4>2. i.op \in Pushes => sp >= 2
          BY <1>1 DEF Room
        <4>3. i.op = "PUSH" => c # sp - 2 /\ c # sp - 1
          <5>1. i.op = "PUSH" => Room
            BY <1>1 DEF Pushes
          <5>2. Room => sp <= frames[k].sp - 2 /\ frames[k].sp \in Int /\ sp \in Int
            BY Above, FrameWord, WordRange DEF Room, Ranges
          <5> QED BY <5>1, <5>2 DEF ReturnCells
        <4> QED BY <1>0, <2>4, <4>1, <4>2, <4>3, Untouched DEF Touches
      <3> QED BY <1>0, <3>1, <3>2, StaysHeld
    <2> QED BY <2>1, <2>2, <2>3, <2>4
  <1>3. CASE \E j \in Requested : Interrupt(j)
    <2>1. ime /\ mem' = Pushed(pc) /\ frames' = <<Frame(pc)>> \o frames
      BY <1>3 DEF Interrupt
    <2> QED BY <1>1, <2>1, FramePushed DEF Ranges
  <1>4. CASE Wake \/ UNCHANGED vars
    <2>1. UNCHANGED <<mem, frames>>
      BY <1>4, Zenon DEF Wake, vars
    <2> QED BY <2>1, StaysHeld
  <1> QED BY <1>2, <1>3, <1>4, Zenon DEF Next

(* Only a return shortens the frames, and it finds its address.            *)
LEMMA ReturnsThere ==
  ASSUME Ranges, StackHolds, Disciplined, [Next]_vars, Len(frames') < Len(frames)
  PROVE  pc' = Head(frames).return /\ sp' = Head(frames).sp
  <1> DEFINE i == Program[pc]
  <1>0. i.op \in {"RET", "RETI"} /\ Holds(i.cc) =>
          frames # <<>> /\ sp = Head(frames).sp - 2
    BY DEF Disciplined
  <1>1. frames \in Seq(FrameSet) /\ Len(frames) \in Nat
    BY DEF StackHolds
  <1>2. \A x \in FrameSet : Len(<<x>> \o frames) = Len(frames) + 1
    BY <1>1, Longer
  <1>3. ASSUME NEW v \in Word PROVE frames' # <<Frame(v)>> \o frames
    <2>1. Frame(v) \in FrameSet
      BY DEF Frame, FrameSet, Ranges
    <2> QED BY <1>1, <1>2, <2>1
  <1>4. frames' # frames
    BY <1>1
  <1> HIDE DEF i
  <1>5. ~\E j \in Requested : Interrupt(j)
    <2> SUFFICES ASSUME NEW j \in Requested, Interrupt(j) PROVE FALSE
      OBVIOUS
    <2>1. frames' = <<Frame(pc)>> \o frames
      BY DEF Interrupt
    <2> QED BY <1>3, <2>1 DEF Ranges
  <1>6. ~Wake /\ ~UNCHANGED vars
    BY <1>4, Zenon DEF Wake, vars
  <1>7. ~Call(i)
    <2> SUFFICES ASSUME Call(i) PROVE FALSE
      OBVIOUS
    <2>1. frames' = frames \/ frames' = <<Frame(Following(i))>> \o frames
      BY DEF Call
    <2> QED BY <1>3, <1>4, <2>1, FollowingWord
  <1>8. Return(i)
    <2>1. cpu_step
      BY <1>5, <1>6, Zenon DEF Next
    <2>2. \/ Load8(i) \/ Load16(i) \/ Arithmetic(i) \/ Count(i) \/ Words(i) \/ Adjust(i)
          \/ Shifts(i) \/ Bits(i) \/ Push(i) \/ Pop(i) \/ Jump(i) \/ Switch(i) \/ Halt(i)
          \/ Call(i) \/ Return(i)
      BY <2>1, Zenon DEF cpu_step, i
    <2> QED BY <1>4, <1>7, <2>2, FramesStay
  <1>9. /\ i.op \in {"RET", "RETI"} /\ Holds(i.cc)
        /\ pc' = Popped /\ sp' = (sp + 2) % 65536
    BY <1>4, <1>8 DEF Return, Executes
  <1>10. frames # <<>> /\ sp = Head(frames).sp - 2
    BY <1>0, <1>9
  <1> DEFINE h == frames[1]
  <1>11. h = Head(frames) /\ h.sp \in Int /\ h.sp <= 65535 /\ Held(mem, h)
    <2>1. 1 \in DOMAIN frames /\ Head(frames) = frames[1]
      BY <1>1, <1>10
    <2> QED BY <2>1, FrameWord DEF StackHolds
  <1> HIDE DEF h
  <1>12. /\ (sp + 2) % 65536 = h.sp /\ (sp + 1) % 65536 = h.sp - 1 /\ sp = h.sp - 2
    <2>1. sp \in Int /\ 0 <= sp /\ sp = h.sp - 2
      BY <1>10, <1>11, WordRange DEF Ranges
    <2>2. /\ sp + 2 = h.sp /\ sp + 1 = h.sp - 1 /\ h.sp \in Int /\ h.sp - 1 \in Int
          /\ 0 <= h.sp - 1 /\ 0 <= h.sp /\ h.sp - 1 <= 65535 /\ h.sp <= 65535
      BY <1>11, <2>1
    <2>3. h.sp % 65536 = h.sp /\ (h.sp - 1) % 65536 = h.sp - 1
      BY <2>2, Stays
    <2>4. (sp + 2) % 65536 = h.sp
      BY <2>2, <2>3
    <2>5. (sp + 1) % 65536 = h.sp - 1
      BY <2>2, <2>3
    <2> QED BY <2>1, <2>4, <2>5
  <1>13. Popped = h.return
    BY <1>11, <1>12 DEF Popped, Held
  <1> QED BY <1>9, <1>11, <1>12, <1>13
-----------------------------------------------------------------------------
(* Whatever a program does between a call and its return, and whenever     *)
(* interrupts come, the return goes to the instruction after the call with *)
(* the stack pointer as it was, as long as the program keeps to the        *)
(* discipline of the stack (callN16, callCCN16, rstVec, ret, retCC, reti,  *)
(* cpu_handle_interrupts).                                                 *)
THEOREM CallsReturn == Spec /\ []Disciplined => ReturnsToCaller
  <1>1. Init => Ranges /\ StackHolds
    <2> SUFFICES ASSUME Init PROVE Ranges /\ StackHolds
      OBVIOUS
    <2>1. frames = <<>>
      BY DEF Init
    <2>2. StackHolds
      BY <2>1 DEF StackHolds
    <2> QED BY <2>2, InitRanges
  <1>2. Ranges /\ StackHolds /\ Disciplined /\ [Next]_vars => (Ranges /\ StackHolds)'
    <2>1. Disciplined => Mapped
      BY DEF Disciplined
    <2> QED BY <2>1, NextKeeps, StackKept
  <1>3. Ranges /\ StackHolds /\ Disciplined /\ [Next]_vars =>
          [Len(frames') < Len(frames) =>
             pc' = Head(frames).return /\ sp' = Head(frames).sp]_vars
    BY ReturnsThere
  <1> QED BY <1>1, <1>2, <1>3, PTL DEF Spec, ReturnsToCaller

(* An instruction and memory at every address, as the machine has them:    *)
(* then no program at all leaves what is modelled.                         *)
WholeMachine == DOMAIN Program = Word /\ Memories \subseteq [Word -> Byte]

LEMMA WholeIsMapped == ASSUME WholeMachine, Ranges PROVE Mapped
  <1>1. DOMAIN mem = Word
    BY DEF WholeMachine, Ranges, MemoryKept
  <1>2. pc \in DOMAIN Program /\ Decoded(Program[pc])
    BY ProgramAssumption DEF WholeMachine, Ranges
  <1>3. sp \in Word /\ (sp + 1) % 65536 \in Word
    BY Moved DEF Ranges
  <1>4. \A x \in {Program[pc].x, Program[pc].y} \cap InMemory : Address(Program[pc], x) \in Word
    BY <1>2, AddressWord
  <1> QED BY <1>1, <1>2, <1>3, <1>4 DEF Mapped, Reads

(* Whatever program runs, registers and memory stay bytes and pointers     *)
(* words: no instruction of gbz80ops.c lets a sum, a shift, a flag or a    *)
(* word on the stack out of its width.                                     *)
THEOREM TypeCorrect == WholeMachine /\ Spec => []TypeOK
  <1> SUFFICES ASSUME WholeMachine PROVE Spec => []TypeOK
    OBVIOUS
  <1>1. Init => Ranges
    BY InitRanges
  <1>2. Ranges /\ [Next]_vars => Ranges'
    BY NextKeeps, WholeIsMapped
  <1>3. Ranges => TypeOK
    BY WholeIsMapped DEF TypeOK, Ranges, MemoryKept, BytesIn, Mapped
  <1> QED BY <1>1, <1>2, <1>3, PTL DEF Spec

(* The flags as bits of F.                                                 *)
LEMMA FlagsInByte ==
  ASSUME f \in FlagSet
  PROVE  /\ BitOf(FlagByte, 7) = f.Z /\ BitOf(FlagByte, 6) = f.N
         /\ BitOf(FlagByte, 5) = f.H /\ BitOf(FlagByte, 4) = f.C
  <1>1. f.Z \in 0..1 /\ f.N \in 0..1 /\ f.H \in 0..1 /\ f.C \in 0..1
    BY DEF FlagSet
  <1>2. 2 ^ 7 = 128 /\ 2 ^ 6 = 64 /\ 2 ^ 5 = 32 /\ 2 ^ 4 = 16
    OBVIOUS
  <1>3. BitOf(FlagByte, 7) = (FlagByte \div 128) % 2 /\ BitOf(FlagByte, 6) = (FlagByte \div 64) % 2
         /\ BitOf(FlagByte, 5) = (FlagByte \div 32) % 2 /\ BitOf(FlagByte, 4) = (FlagByte \div 16) % 2
    BY <1>2 DEF BitOf
  <1> QED BY <1>1, <1>3 DEF FlagByte

(* What PUSH leaves at the stack pointer is what POP would take from it,   *)
(* the flags as bits of F included (pushR16, popR16).                      *)
PopsThePushed ==
  [][\A i \in {Program[pc]} : Push(i) =>
       Popped' = Pair(i.x) /\ (i.x = "AF" => PoppedFlags' = f)]_vars

LEMMA PushPops ==
  ASSUME Ranges, DOMAIN mem = Word, NEW i, Decoded(i), Push(i)
  PROVE  Popped' = Pair(i.x) /\ (i.x = "AF" => PoppedFlags' = f)
  <1>1. i.op = "PUSH" /\ mem' = Pushed(Pair(i.x)) /\ sp' = (sp - 2) % 65536
    BY DEF Push, Executes
  <1> DEFINE v == Pair(i.x)
             lo == v % 256
             hi == v \div 256
             a == (sp - 1) % 65536
             b == (sp' + 1) % 65536
  <1>2. v \in Word
    BY <1>1, Operands, PairWord
  <1>3. sp' \in Word /\ b = a /\ sp' # a /\ a \in Word
    BY <1>1, Around DEF Ranges
  <1>4. mem' = [mem EXCEPT ![sp'] = lo, ![a] = hi]
    BY <1>1 DEF Pushed
  <1>5. Popped' = mem'[sp'] + 256 * mem'[b]
    BY DEF Popped
  <1>6. lo + 256 * hi = v /\ v % 256 = lo
    <2>1. v \in Int
      BY <1>2, WordRange
    <2> HIDE DEF v
    <2> QED BY <2>1
  <1> HIDE DEF lo, hi, a, b, v
  <1>7. mem'[sp'] = lo /\ mem'[a] = hi
    BY <1>3, <1>4
  <1>8. Popped' = v
    BY <1>3, <1>5, <1>6, <1>7
  <1>9. ASSUME i.x = "AF" PROVE PoppedFlags' = f
    <2>1. v = 256 * r["A"] + FlagByte
      BY <1>9 DEF v, Pair
    <2>2. FlagByte \in Byte /\ r["A"] \in Byte /\ f \in FlagSet
      BY FlagByteTypes DEF Ranges, Registers
    <2>3. v % 256 = FlagByte
      BY <2>1, <2>2, LowByte
    <2>4. PoppedFlags' = [Z |-> BitOf(v % 256, 7), N |-> BitOf(v % 256, 6),
                          H |-> BitOf(v % 256, 5), C |-> BitOf(v % 256, 4)]
      BY <1>8 DEF PoppedFlags
    <2>5. PoppedFlags' = [Z |-> f.Z, N |-> f.N, H |-> f.H, C |-> f.C]
      BY <2>2, <2>3, <2>4, FlagsInByte
    <2> QED BY <2>2, <2>5 DEF FlagSet
  <1> QED BY <1>8, <1>9 DEF v

(* So it is for every program, at every value of the stack pointer, also   *)
(* where it wraps around zero.                                             *)
THEOREM PushedIsPopped == WholeMachine /\ Spec => PopsThePushed
  <1> SUFFICES ASSUME WholeMachine PROVE Spec => PopsThePushed
    OBVIOUS
  <1>1. Init => Ranges
    BY InitRanges
  <1>2. Ranges /\ [Next]_vars => Ranges'
    BY NextKeeps, WholeIsMapped
  <1>3. Ranges /\ [Next]_vars =>
          [\A i \in {Program[pc]} : Push(i) =>
             Popped' = Pair(i.x) /\ (i.x = "AF" => PoppedFlags' = f)]_vars
    <2> SUFFICES ASSUME Ranges, NEW i \in {Program[pc]}, Push(i)
                 PROVE  Popped' = Pair(i.x) /\ (i.x = "AF" => PoppedFlags' = f)
      OBVIOUS
    <2>1. Decoded(i) /\ DOMAIN mem = Word
      BY WholeIsMapped, ProgramAssumption DEF Mapped, WholeMachine, Ranges, MemoryKept
    <2> QED BY <2>1, PushPops
  <1> QED BY <1>1, <1>2, <1>3, PTL DEF Spec, PopsThePushed
=============================================================================
