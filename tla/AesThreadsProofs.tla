-------------------------- MODULE AesThreadsProofs --------------------------
(***************************************************************************)
(* aes.c is AES, and gcm_mult the product of GCM, for any threads, keys    *)
(* and work, if gcm_initialize is first called before threading begins.    *)
(*                                                                         *)
(* First the arithmetic, from the digits of bytes up: the powers of 3 that *)
(* the loops of aes_init_keygen_tables take are every byte but 0, so the   *)
(* S-boxes and the tables of rounds are those of FIPS 197; a round by      *)
(* tables is a round of FIPS 197; the loops of the key schedule make the   *)
(* words of FIPS 197.  Then the polynomials of GCM: the tables of          *)
(* gcm_setkey hold products by nibbles, and gcm_mult sums them up to the   *)
(* product in the field.  Last the threads: the static tables need no      *)
(* lock, and what each thread has in its context and has computed is what  *)
(* the full tables give.                                                   *)
(***************************************************************************)
EXTENDS AesThreads, FiniteSetTheorems, WellFoundedInduction, SequenceTheorems, TLAPS

-----------------------------------------------------------------------------
(***************************************************************************)
(* Digits: a byte is its eight binary digits, and XOR[x][y] is x ^ y, digit*)
(* by digit, so that bytes are a group under it.                           *)
(***************************************************************************)

\* The binary digit of x of weight w.
Digit(x, w) == (x \div w) % 2
Bit(x, w) == Digit(x, w) = 1

\* The byte with the digits d[1], ..., d[128].
LEMMA Halving ==
  ASSUME NEW x \in Byte
  PROVE  /\ x \div 2 \in Byte /\ x % 2 \in {0, 1} /\ x = 2 * (x \div 2) + (x % 2)
         /\ x # 0 => x \div 2 < x
         /\ (x \div 2) \div 2 = x \div 4
         /\ (x \div 2) \div 4 = x \div 8
         /\ (x \div 2) \div 8 = x \div 16
         /\ (x \div 2) \div 16 = x \div 32
         /\ (x \div 2) \div 32 = x \div 64
         /\ (x \div 2) \div 64 = x \div 128
         /\ (x \div 2) \div 128 = 0
         /\ x \div 1 = x
  BY DEF Byte

LEMMA Digits ==
  ASSUME NEW x \in Byte
  PROVE  /\ \A w \in {1, 2, 4, 8, 16, 32, 64, 128} : Digit(x, w) \in {0, 1}
         /\ x = Digit(x, 1) + 2 * Digit(x, 2) + 4 * Digit(x, 4) + 8 * Digit(x, 8)
                + 16 * Digit(x, 16) + 32 * Digit(x, 32) + 64 * Digit(x, 64)
                + 128 * Digit(x, 128)
  BY DEF Digit, Byte

LEMMA DigitsOf ==
  ASSUME NEW a \in {0, 1}, NEW b \in {0, 1}, NEW c \in {0, 1}, NEW d \in {0, 1},
         NEW e \in {0, 1}, NEW f \in {0, 1}, NEW g \in {0, 1}, NEW h \in {0, 1},
         NEW x, x = a + 2 * b + 4 * c + 8 * d + 16 * e + 32 * f + 64 * g + 128 * h
  PROVE  /\ x \in Byte
         /\ Digit(x, 1) = a /\ Digit(x, 2) = b /\ Digit(x, 4) = c /\ Digit(x, 8) = d
         /\ Digit(x, 16) = e /\ Digit(x, 32) = f /\ Digit(x, 64) = g
         /\ Digit(x, 128) = h
  BY DEF Digit, Byte

SumDigit(x, y, w) == (Digit(x, w) + Digit(y, w)) % 2

\* x ^ y, written down digit by digit.
DigitSum(x, y) ==
  SumDigit(x, y, 1) + 2 * SumDigit(x, y, 2) + 4 * SumDigit(x, y, 4)
    + 8 * SumDigit(x, y, 8) + 16 * SumDigit(x, y, 16) + 32 * SumDigit(x, y, 32)
    + 64 * SumDigit(x, y, 64) + 128 * SumDigit(x, y, 128)

Weights == {1, 2, 4, 8, 16, 32, 64, 128}

LEMMA SumDigits ==
  ASSUME NEW x \in Byte, NEW y \in Byte
  PROVE  /\ DigitSum(x, y) \in Byte
         /\ \A w \in Weights : Digit(DigitSum(x, y), w) = SumDigit(x, y, w)
<1>1. \A w \in Weights : SumDigit(x, y, w) \in {0, 1}
  BY Digits DEF SumDigit, Weights
<1> QED
  BY <1>1, DigitsOf DEF DigitSum, Weights

LEMMA SumHalves ==
  ASSUME NEW x \in Byte, NEW y \in Byte
  PROVE  DigitSum(x, y) = IF x = 0 THEN y
                          ELSE 2 * DigitSum(x \div 2, y \div 2) + ((x + y) % 2)
<1> DEFINE u == x \div 2
           v == y \div 2
<1>1. u \in Byte /\ v \in Byte
  BY Halving
<1>2. /\ Digit(u, 1) = Digit(x, 2) /\ Digit(u, 2) = Digit(x, 4)
      /\ Digit(u, 4) = Digit(x, 8) /\ Digit(u, 8) = Digit(x, 16)
      /\ Digit(u, 16) = Digit(x, 32) /\ Digit(u, 32) = Digit(x, 64)
      /\ Digit(u, 64) = Digit(x, 128) /\ Digit(u, 128) = 0
  BY Halving DEF Digit
<1>3. /\ Digit(v, 1) = Digit(y, 2) /\ Digit(v, 2) = Digit(y, 4)
      /\ Digit(v, 4) = Digit(y, 8) /\ Digit(v, 8) = Digit(y, 16)
      /\ Digit(v, 16) = Digit(y, 32) /\ Digit(v, 32) = Digit(y, 64)
      /\ Digit(v, 64) = Digit(y, 128) /\ Digit(v, 128) = 0
  BY Halving DEF Digit
<1>4. (x + y) % 2 = SumDigit(x, y, 1)
  BY DEF SumDigit, Digit, Byte
<1>5. CASE x = 0
  <2>1. \A w \in Weights : SumDigit(x, y, w) = Digit(y, w)
    <3>1. \A w \in Weights : Digit(x, w) = 0
      BY <1>5 DEF Digit, Weights
    <3>2. \A w \in Weights : Digit(y, w) \in {0, 1}
      BY Digits DEF Weights
    <3> QED
      BY <3>1, <3>2 DEF SumDigit
  <2> QED
    BY <1>5, <2>1, Digits DEF DigitSum, Weights
<1>6. CASE x # 0
  <2> DEFINE s(w) == SumDigit(x, y, w)
  <2>1. /\ SumDigit(u, v, 1) = s(2) /\ SumDigit(u, v, 2) = s(4)
        /\ SumDigit(u, v, 4) = s(8) /\ SumDigit(u, v, 8) = s(16)
        /\ SumDigit(u, v, 16) = s(32) /\ SumDigit(u, v, 32) = s(64)
        /\ SumDigit(u, v, 64) = s(128) /\ SumDigit(u, v, 128) = 0
    BY <1>2, <1>3 DEF SumDigit
  <2>2. \A w \in Weights : s(w) \in {0, 1}
    BY Digits DEF SumDigit, Weights
  <2>3. DigitSum(u, v) = s(2) + 2 * s(4) + 4 * s(8) + 8 * s(16) + 16 * s(32)
                         + 32 * s(64) + 64 * s(128)
    <3> HIDE DEF s
    <3> QED BY <2>1, <2>2 DEF DigitSum, Weights
  <2>4. DigitSum(x, y) = s(1) + 2 * s(2) + 4 * s(4) + 8 * s(8) + 16 * s(16)
                         + 32 * s(32) + 64 * s(64) + 128 * s(128)
    BY DEF DigitSum
  <2>5. (x + y) % 2 = s(1)
    BY <1>4
  <2> HIDE DEF s, u, v
  <2>6. 2 * DigitSum(u, v) + s(1) = DigitSum(x, y)
    BY <2>2, <2>3, <2>4 DEF Weights
  <2> QED
    BY <1>6, <2>5, <2>6 DEF u, v
<1> QED
  BY <1>5, <1>6

\* The recursion of XOR.
XorOn(f) ==
  f = [pair \in Byte \X Byte |->
         IF pair[1] = 0 THEN pair[2]
         ELSE 2 * f[<<pair[1] \div 2, pair[2] \div 2>>] + ((pair[1] + pair[2]) % 2)]

LEMMA XorExists == \E f : XorOn(f)
<1> DEFINE f == [pair \in Byte \X Byte |-> DigitSum(pair[1], pair[2])]
<1>1. ASSUME NEW pair \in Byte \X Byte
      PROVE  f[pair] = IF pair[1] = 0 THEN pair[2]
                       ELSE 2 * f[<<pair[1] \div 2, pair[2] \div 2>>]
                              + ((pair[1] + pair[2]) % 2)
  <2>1. pair[1] \in Byte /\ pair[2] \in Byte
    OBVIOUS
  <2>2. pair[1] \div 2 \in Byte /\ pair[2] \div 2 \in Byte
    BY <2>1, Halving
  <2>3. f[<<pair[1] \div 2, pair[2] \div 2>>] =
          DigitSum(pair[1] \div 2, pair[2] \div 2)
    BY <2>2
  <2> QED
    BY <2>1, <2>3, SumHalves
<1>2. f = [pair \in Byte \X Byte |-> f[pair]]
  OBVIOUS
<1> HIDE DEF f
<1>3. XorOn(f)
  BY <1>1, <1>2 DEF XorOn
<1> QED
  BY <1>3

LEMMA XorAgree ==
  ASSUME NEW f, XorOn(f), NEW x \in Byte, NEW y \in Byte
  PROVE  f[<<x, y>>] = DigitSum(x, y)
<1> DEFINE Upto(n) == \A a, b \in Byte : a < n => f[<<a, b>>] = DigitSum(a, b)
<1>1. ASSUME NEW a \in Byte, NEW b \in Byte
      PROVE  f[<<a, b>>] = IF a = 0 THEN b
                           ELSE 2 * f[<<a \div 2, b \div 2>>] + ((a + b) % 2)
  <2>1. <<a, b>> \in Byte \X Byte /\ <<a, b>>[1] = a /\ <<a, b>>[2] = b
    OBVIOUS
  <2> QED
    BY <2>1 DEF XorOn
<1>2. Upto(1)
  <2> SUFFICES ASSUME NEW a \in Byte, NEW b \in Byte, a < 1
               PROVE  f[<<a, b>>] = DigitSum(a, b)
    OBVIOUS
  <2>1. a = 0
    BY DEF Byte
  <2> QED
    BY <2>1, <1>1, SumHalves
<1>3. ASSUME NEW n \in Nat, Upto(n) PROVE Upto(2 * n)
  <2> SUFFICES ASSUME NEW a \in Byte, NEW b \in Byte, a < 2 * n
               PROVE  f[<<a, b>>] = DigitSum(a, b)
    OBVIOUS
  <2>1. a \div 2 \in Byte /\ b \div 2 \in Byte /\ a \div 2 < n
    <3>1. a \in Nat
      BY DEF Byte
    <3> QED
      BY <3>1, Halving
  <2>2. f[<<a \div 2, b \div 2>>] = DigitSum(a \div 2, b \div 2)
    BY <1>3, <2>1
  <2> QED
    BY <1>1, <2>2, SumHalves
<1> HIDE DEF Upto
<1>4. Upto(2 * 1) /\ 2 * 1 = 2
  BY <1>2, <1>3
<1>5. Upto(2 * 2) /\ 2 * 2 = 4
  BY <1>4, <1>3
<1>6. Upto(2 * 4) /\ 2 * 4 = 8
  BY <1>5, <1>3
<1>7. Upto(2 * 8) /\ 2 * 8 = 16
  BY <1>6, <1>3
<1>8. Upto(2 * 16) /\ 2 * 16 = 32
  BY <1>7, <1>3
<1>9. Upto(2 * 32) /\ 2 * 32 = 64
  BY <1>8, <1>3
<1>10. Upto(2 * 64) /\ 2 * 64 = 128
  BY <1>9, <1>3
<1>11. Upto(2 * 128) /\ 2 * 128 = 256
  BY <1>10, <1>3
<1>12. x < 256
  BY DEF Byte
<1> QED
  BY <1>11, <1>12 DEF Upto

LEMMA XorIs ==
  ASSUME NEW x \in Byte, NEW y \in Byte
  PROVE  XOR[x][y] = DigitSum(x, y)
<1> DEFINE f == CHOOSE f : f = [pair \in Byte \X Byte |->
         IF pair[1] = 0 THEN pair[2]
         ELSE 2 * f[<<pair[1] \div 2, pair[2] \div 2>>] + ((pair[1] + pair[2]) % 2)]
<1>1. XOR[x][y] = f[<<x, y>>]
  BY DEF XOR
<1>2. XorOn(f)
  BY XorExists DEF XorOn
<1> HIDE DEF f
<1> QED
  BY <1>1, <1>2, XorAgree

Xor(x, y) == XOR[x][y]

LEMMA XorByte ==
  \A x, y \in Byte : Xor(x, y) \in Byte
  BY XorIs, SumDigits DEF Xor

LEMMA XorBit ==
  ASSUME NEW x \in Byte, NEW y \in Byte, NEW w \in Weights
  PROVE  Bit(Xor(x, y), w) <=> (Bit(x, w) <=> ~ Bit(y, w))
<1>1. Digit(Xor(x, y), w) = SumDigit(x, y, w)
  BY XorIs, SumDigits DEF Xor
<1>2. Digit(x, w) \in {0, 1} /\ Digit(y, w) \in {0, 1}
  BY Digits DEF Weights
<1> QED
  BY <1>1, <1>2 DEF Bit, SumDigit

LEMMA SameByte ==
  ASSUME NEW x \in Byte, NEW y \in Byte,
         \A w \in Weights : Bit(x, w) <=> Bit(y, w)
  PROVE  x = y
<1>1. \A w \in Weights : Digit(x, w) = Digit(y, w)
  BY Digits DEF Bit, Weights
<1> QED
  BY <1>1, Digits DEF Weights

LEMMA ZeroByte == 0 \in Byte
  BY DEF Byte

\* Bytes under exclusive or are a group in which everything is its own inverse.
LEMMA XorLaws ==
  /\ \A x, y \in Byte : Xor(x, y) = Xor(y, x)
  /\ \A x, y, z \in Byte : Xor(Xor(x, y), z) = Xor(x, Xor(y, z))
  /\ \A x \in Byte : Xor(x, 0) = x /\ Xor(0, x) = x /\ Xor(x, x) = 0
  /\ \A x, y \in Byte : Xor(Xor(x, y), y) = x
<1> USE XorByte
<1>1. ASSUME NEW x \in Byte, NEW y \in Byte PROVE Xor(x, y) = Xor(y, x)
  <2>1. \A w \in Weights : Bit(Xor(x, y), w) <=> Bit(Xor(y, x), w)
    BY XorBit
  <2> QED BY <2>1, SameByte
<1>2. ASSUME NEW x \in Byte, NEW y \in Byte, NEW z \in Byte
      PROVE Xor(Xor(x, y), z) = Xor(x, Xor(y, z))
  <2>1. \A w \in Weights : Bit(Xor(Xor(x, y), z), w) <=> Bit(Xor(x, Xor(y, z)), w)
    <3> TAKE w \in Weights
    <3>1. /\ Bit(Xor(Xor(x, y), z), w) <=> (Bit(Xor(x, y), w) <=> ~ Bit(z, w))
          /\ Bit(Xor(x, y), w) <=> (Bit(x, w) <=> ~ Bit(y, w))
      BY XorBit
    <3>2. /\ Bit(Xor(x, Xor(y, z)), w) <=> (Bit(x, w) <=> ~ Bit(Xor(y, z), w))
          /\ Bit(Xor(y, z), w) <=> (Bit(y, w) <=> ~ Bit(z, w))
      BY XorBit
    <3> QED
      BY <3>1, <3>2
  <2> QED BY <2>1, SameByte
<1>3. 0 \in Byte /\ \A w \in Weights : ~ Bit(0, w)
  <2>1. \A w \in Weights : 0 \div w = 0
    BY DEF Weights
  <2>2. \A w \in Weights : Digit(0, w) = 0 % 2
    BY <2>1 DEF Digit
  <2>3. 0 % 2 = 0
    OBVIOUS
  <2> QED
    BY ZeroByte, <2>2, <2>3 DEF Bit
<1>4. ASSUME NEW x \in Byte PROVE Xor(x, 0) = x /\ Xor(0, x) = x /\ Xor(x, x) = 0
  <2>1. \A w \in Weights : /\ Bit(Xor(x, 0), w) <=> Bit(x, w)
                           /\ Bit(Xor(0, x), w) <=> Bit(x, w)
                           /\ ~ Bit(Xor(x, x), w)
    BY <1>3, XorBit
  <2> QED BY <1>3, <2>1, SameByte
<1>5. ASSUME NEW x \in Byte, NEW y \in Byte PROVE Xor(Xor(x, y), y) = x
  BY <1>2, <1>4
<1> QED
  BY <1>1, <1>2, <1>4, <1>5

-----------------------------------------------------------------------------
(***************************************************************************)
(* Multiplication by x in GF(2^8).                                         *)
(***************************************************************************)
Twice(a) == F!Double[a]

LEMMA TwiceBits ==
  ASSUME NEW a \in Byte
  PROVE  /\ Twice(a) \in Byte
         /\ Bit(Twice(a), 1) <=> Bit(a, 128)
         /\ Bit(Twice(a), 2) <=> (Bit(a, 1) <=> ~ Bit(a, 128))
         /\ Bit(Twice(a), 4) <=> Bit(a, 2)
         /\ Bit(Twice(a), 8) <=> (Bit(a, 4) <=> ~ Bit(a, 128))
         /\ Bit(Twice(a), 16) <=> (Bit(a, 8) <=> ~ Bit(a, 128))
         /\ Bit(Twice(a), 32) <=> Bit(a, 16)
         /\ Bit(Twice(a), 64) <=> Bit(a, 32)
         /\ Bit(Twice(a), 128) <=> Bit(a, 64)
<1> DEFINE s == (2 * a) % 256
           r == IF a >= 128 THEN 27 ELSE 0
<1>1. s \in Byte /\ r \in Byte /\ Byte = F!Byte
  BY DEF Byte, F!Byte
<1>2. Twice(a) = Xor(s, r)
  BY DEF Twice, F!Double, F!Plus, F!Byte, Byte, Xor, F!XOR, XOR
<1>3. /\ ~ Bit(s, 1) /\ (Bit(s, 2) <=> Bit(a, 1)) /\ (Bit(s, 4) <=> Bit(a, 2))
      /\ (Bit(s, 8) <=> Bit(a, 4)) /\ (Bit(s, 16) <=> Bit(a, 8))
      /\ (Bit(s, 32) <=> Bit(a, 16)) /\ (Bit(s, 64) <=> Bit(a, 32))
      /\ (Bit(s, 128) <=> Bit(a, 64))
  BY DEF Byte, Bit, Digit
<1>4. /\ Bit(a, 128) <=> a >= 128
      /\ Bit(27, 1) /\ Bit(27, 2) /\ ~ Bit(27, 4) /\ Bit(27, 8) /\ Bit(27, 16)
      /\ ~ Bit(27, 32) /\ ~ Bit(27, 64) /\ ~ Bit(27, 128)
      /\ \A w \in Weights : ~ Bit(0, w)
  BY DEF Byte, Bit, Digit, Weights
<1>5. Bit(a, 128) => r = 27
  BY <1>4
<1>6. ~ Bit(a, 128) => r = 0
  BY <1>4
<1>7. \A w \in Weights : Bit(Twice(a), w) <=> (Bit(s, w) <=> ~ Bit(r, w))
  BY <1>1, <1>2, XorBit
<1> HIDE DEF s, r
<1> QED
  BY <1>1, <1>2, <1>3, <1>4, <1>5, <1>6, <1>7, XorByte DEF Weights

LEMMA TwiceXor ==
  ASSUME NEW x \in Byte, NEW y \in Byte
  PROVE  Twice(Xor(x, y)) = Xor(Twice(x), Twice(y))
<1>1. /\ Xor(x, y) \in Byte /\ Twice(x) \in Byte /\ Twice(y) \in Byte
      /\ Twice(Xor(x, y)) \in Byte /\ Xor(Twice(x), Twice(y)) \in Byte
  BY XorByte, TwiceBits
<1>2. \A w \in Weights :
        Bit(Twice(Xor(x, y)), w) <=> Bit(Xor(Twice(x), Twice(y)), w)
  BY <1>1, XorBit, TwiceBits DEF Weights
<1> QED
  BY <1>1, <1>2, SameByte

LEMMA LeastOf ==
  ASSUME NEW T, T \subseteq Nat, T # {}
  PROVE  \E x \in T : \A y \in T : x <= y
<1>1. PICK x \in T : \A y \in T : ~ (<<y, x>> \in OpToRel(<, Nat))
  BY NatLessThanWellFounded, WFMin
<1>2. ASSUME NEW y \in T PROVE x <= y
  <2>1. x \in Nat /\ y \in Nat
    OBVIOUS
  <2>2. ~ (<<y, x>> \in {ss \in Nat \X Nat : ss[1] < ss[2]})
    BY <1>1 DEF OpToRel
  <2>3. <<y, x>> \in Nat \X Nat
    BY <2>1
  <2> QED
    BY <2>1, <2>2, <2>3
<1> QED
  BY <1>2

LEMMA Induct ==
  ASSUME NEW N \in Nat, NEW S, 0 \in S,
         \A n \in 0..N : n < N /\ n \in S => n + 1 \in S
  PROVE  \A n \in 0..N : n \in S
<1> DEFINE Bad == {n \in 0..N : n \notin S}
<1> SUFFICES ASSUME Bad # {} PROVE FALSE
  OBVIOUS
<1>1. PICK n \in Bad : \A m \in Bad : n <= m
  <2>1. Bad \subseteq Nat
    OBVIOUS
  <2> QED
    BY <2>1, LeastOf
<1>2. n - 1 \in 0..N /\ n - 1 \notin Bad /\ n - 1 < N
  BY <1>1
<1> QED
  BY <1>2

\* f starts with b, and S takes the value at k - 1 to the value at k.
StepsOn(f, N, b, S) ==
  f = [k \in 0..N |-> IF k = 0 THEN b ELSE S[<<k, f[k-1]>>]]

LEMMA RecursionExists ==
  ASSUME NEW N \in Nat, NEW V, NEW b \in V, NEW S \in [(1..N) \X V -> V]
  PROVE  \E f \in [0..N -> V] : StepsOn(f, N, b, S)
<1> DEFINE Good == {n \in 0..N : \E f \in [0..n -> V] : StepsOn(f, n, b, S)}
<1>1. 0 \in Good
  <2>1. [k \in 0..0 |-> b] \in [0..0 -> V]
    OBVIOUS
  <2>2. StepsOn([k \in 0..0 |-> b], 0, b, S)
    BY DEF StepsOn
  <2> QED
    BY <2>1, <2>2
<1>2. ASSUME NEW n \in 0..N, n < N, n \in Good PROVE n + 1 \in Good
  <2>1. PICK f \in [0..n -> V] : StepsOn(f, n, b, S)
    BY <1>2
  <2> DEFINE g == [k \in 0..(n+1) |-> IF k = n + 1 THEN S[<<n + 1, f[n]>>]
                                      ELSE f[k]]
  <2>2. f[n] \in V /\ <<n + 1, f[n]>> \in (1..N) \X V
    BY <1>2
  <2>3. S[<<n + 1, f[n]>>] \in V
    BY <2>2
  <2>4. g \in [0..(n+1) -> V]
    BY <2>3
  <2>5. ASSUME NEW k \in 0..(n+1)
        PROVE  g[k] = IF k = 0 THEN b ELSE S[<<k, g[k-1]>>]
    <3>1. CASE k = n + 1
      <4>1. g[k-1] = f[n] /\ k # 0
        BY <3>1
      <4> QED
        BY <3>1, <4>1
    <3>2. CASE k # n + 1
      <4>1. k \in 0..n /\ g[k] = f[k]
        BY <3>2
      <4>2. k # 0 => g[k-1] = f[k-1]
        BY <3>2
      <4>3. f[k] = IF k = 0 THEN b ELSE S[<<k, f[k-1]>>]
        BY <2>1, <4>1 DEF StepsOn
      <4> QED
        BY <4>1, <4>2, <4>3
    <3> QED
      BY <3>1, <3>2
  <2>6. StepsOn(g, n + 1, b, S)
    <3>1. g = [k \in 0..(n+1) |-> g[k]]
      OBVIOUS
    <3> HIDE DEF g
    <3> QED
      BY <2>5, <3>1 DEF StepsOn
  <2>7. n + 1 \in 0..N
    BY <1>2
  <2> QED
    BY <2>4, <2>6, <2>7
<1>3. N \in Good
  <2> HIDE DEF Good
  <2>1. \A n \in 0..N : n \in Good
    BY <1>1, <1>2, Induct
  <2> QED
    BY <2>1
<1> QED
  BY <1>3

\* Two functions that take the same steps are the same.
LEMMA RecursionUnique ==
  ASSUME NEW N \in Nat, NEW b, NEW S, NEW f, NEW g,
         StepsOn(f, N, b, S), StepsOn(g, N, b, S)
  PROVE  f = g
<1> DEFINE Same == {k \in 0..N : f[k] = g[k]}
<1>1. /\ \A k \in 0..N : f[k] = IF k = 0 THEN b ELSE S[<<k, f[k-1]>>]
      /\ \A k \in 0..N : g[k] = IF k = 0 THEN b ELSE S[<<k, g[k-1]>>]
  BY DEF StepsOn
<1>2. 0 \in Same
  <2>1. 0 \in 0..N
    OBVIOUS
  <2>2. f[0] = b /\ g[0] = b
    BY <1>1, <2>1
  <2> QED
    BY <2>1, <2>2
<1>3. \A n \in 0..N : n < N /\ n \in Same => n + 1 \in Same
  <2> SUFFICES ASSUME NEW n \in 0..N, n < N, n \in Same PROVE n + 1 \in Same
    OBVIOUS
  <2>1. n + 1 \in 0..N /\ n + 1 # 0 /\ (n + 1) - 1 = n
    OBVIOUS
  <2> QED
    BY <1>1, <2>1
<1> HIDE DEF Same
<1>4. \A k \in 0..N : k \in Same
  BY <1>2, <1>3, Induct
<1>5. f = [k \in 0..N |-> f[k]] /\ g = [k \in 0..N |-> g[k]]
  BY DEF StepsOn
<1> QED
  BY <1>4, <1>5 DEF Same

-----------------------------------------------------------------------------
(***************************************************************************)
(* The product of FIPS 197, from the highest digit of b down.              *)
(***************************************************************************)
Part(a, b, w) == IF Bit(b, w) THEN a ELSE 0
Level(a, b, w, v) == Xor(Part(a, b, w), Twice(v))
Times1(a, b) == Level(a, b, 128, 0)
Times2(a, b) == Level(a, b, 64, Times1(a, b))
Times3(a, b) == Level(a, b, 32, Times2(a, b))
Times4(a, b) == Level(a, b, 16, Times3(a, b))
Times5(a, b) == Level(a, b, 8, Times4(a, b))
Times6(a, b) == Level(a, b, 4, Times5(a, b))
Times7(a, b) == Level(a, b, 2, Times6(a, b))
Times(a, b) == Level(a, b, 1, Times7(a, b))

LEMMA LevelByte ==
  ASSUME NEW a \in Byte, NEW b, NEW w, NEW v \in Byte
  PROVE  Level(a, b, w, v) \in Byte
<1>1. Part(a, b, w) \in Byte
  BY ZeroByte DEF Part
<1> QED
  BY <1>1, TwiceBits, XorByte DEF Level

LEMMA TimesBytes ==
  ASSUME NEW a \in Byte, NEW b
  PROVE  /\ Times1(a, b) \in Byte /\ Times2(a, b) \in Byte /\ Times3(a, b) \in Byte
         /\ Times4(a, b) \in Byte /\ Times5(a, b) \in Byte /\ Times6(a, b) \in Byte
         /\ Times7(a, b) \in Byte /\ Times(a, b) \in Byte
<1>1. Times1(a, b) \in Byte
  BY LevelByte, ZeroByte DEF Times1
<1>2. Times2(a, b) \in Byte
  BY <1>1, LevelByte DEF Times2
<1>3. Times3(a, b) \in Byte
  BY <1>2, LevelByte DEF Times3
<1>4. Times4(a, b) \in Byte
  BY <1>3, LevelByte DEF Times4
<1>5. Times5(a, b) \in Byte
  BY <1>4, LevelByte DEF Times5
<1>6. Times6(a, b) \in Byte
  BY <1>5, LevelByte DEF Times6
<1>7. Times7(a, b) \in Byte
  BY <1>6, LevelByte DEF Times7
<1> QED
  BY <1>1, <1>2, <1>3, <1>4, <1>5, <1>6, <1>7, LevelByte DEF Times

LEMMA FTimesIs ==
  ASSUME NEW a \in Byte, NEW b \in Byte
  PROVE  F!Times(a, b) = Times(a, b)
<1> DEFINE Entry(p, i) ==
             IF i = 0 THEN 0
             ELSE F!Plus(a * ((b \div 2 ^ (8 - i)) % 2), F!Double[p[i-1]])
           p0 == [i \in 0..8 |->
                    CASE i = 0 -> 0 [] i = 1 -> Times1(a, b) [] i = 2 -> Times2(a, b)
                      [] i = 3 -> Times3(a, b) [] i = 4 -> Times4(a, b)
                      [] i = 5 -> Times5(a, b) [] i = 6 -> Times6(a, b)
                      [] i = 7 -> Times7(a, b) [] i = 8 -> Times(a, b)]
           On(p) == p = [i \in 0..8 |-> Entry(p, i)]
           p1 == CHOOSE p : On(p)
<1>1. F!Times(a, b) = p1[8]
  BY DEF F!Times
<1>2. \A x, y : F!Plus(x, y) = Xor(x, y)
  BY DEF F!Plus, Xor, F!XOR, XOR, F!Byte, Byte
<1>3. ASSUME NEW w \in Weights PROVE a * ((b \div w) % 2) = Part(a, b, w)
  <2>1. Digit(b, w) \in {0, 1}
    BY Digits DEF Weights
  <2>2. a * 0 = 0 /\ a * 1 = a
    BY DEF Byte
  <2>3. (b \div w) % 2 = Digit(b, w)
    BY DEF Digit
  <2> QED
    BY <2>1, <2>2, <2>3 DEF Part, Bit
<1>4. /\ 2 ^ (8 - 1) = 128 /\ 2 ^ (8 - 2) = 64 /\ 2 ^ (8 - 3) = 32
      /\ 2 ^ (8 - 4) = 16 /\ 2 ^ (8 - 5) = 8 /\ 2 ^ (8 - 6) = 4
      /\ 2 ^ (8 - 7) = 2 /\ 2 ^ (8 - 8) = 1
  OBVIOUS
<1>5. ASSUME NEW p
      PROVE  /\ Entry(p, 0) = 0
             /\ Entry(p, 1) = Level(a, b, 128, p[0])
             /\ Entry(p, 2) = Level(a, b, 64, p[1])
             /\ Entry(p, 3) = Level(a, b, 32, p[2])
             /\ Entry(p, 4) = Level(a, b, 16, p[3])
             /\ Entry(p, 5) = Level(a, b, 8, p[4])
             /\ Entry(p, 6) = Level(a, b, 4, p[5])
             /\ Entry(p, 7) = Level(a, b, 2, p[6])
             /\ Entry(p, 8) = Level(a, b, 1, p[7])
  <2>1. ASSUME NEW i \in 1..8, NEW w \in Weights, 2 ^ (8 - i) = w
        PROVE  Entry(p, i) = Level(a, b, w, p[i-1])
    BY <1>2, <1>3, <2>1 DEF Level, Twice
  <2> HIDE DEF Entry
  <2>2. \A i \in 1..8, w \in Weights :
          2 ^ (8 - i) = w => Entry(p, i) = Level(a, b, w, p[i-1])
    BY <2>1
  <2>3. 1 - 1 = 0 /\ 2 - 1 = 1 /\ 3 - 1 = 2 /\ 4 - 1 = 3 /\ 5 - 1 = 4 /\ 6 - 1 = 5
        /\ 7 - 1 = 6 /\ 8 - 1 = 7
    OBVIOUS
  <2>4. Entry(p, 0) = 0
    BY DEF Entry
  <2>5. /\ Entry(p, 1) = Level(a, b, 128, p[0])
        /\ Entry(p, 2) = Level(a, b, 64, p[1])
        /\ Entry(p, 3) = Level(a, b, 32, p[2])
        /\ Entry(p, 4) = Level(a, b, 16, p[3])
    BY <1>4, <2>2, <2>3 DEF Weights
  <2>6. /\ Entry(p, 5) = Level(a, b, 8, p[4])
        /\ Entry(p, 6) = Level(a, b, 4, p[5])
        /\ Entry(p, 7) = Level(a, b, 2, p[6])
        /\ Entry(p, 8) = Level(a, b, 1, p[7])
    BY <1>4, <2>2, <2>3 DEF Weights
  <2> QED
    BY <2>4, <2>5, <2>6
<1> HIDE DEF Entry
<1>6. On(p0)
  <2>1. /\ p0[0] = 0 /\ p0[1] = Times1(a, b) /\ p0[2] = Times2(a, b)
        /\ p0[3] = Times3(a, b) /\ p0[4] = Times4(a, b) /\ p0[5] = Times5(a, b)
        /\ p0[6] = Times6(a, b) /\ p0[7] = Times7(a, b) /\ p0[8] = Times(a, b)
    OBVIOUS
  <2>2. p0 = [i \in 0..8 |-> p0[i]]
    OBVIOUS
  <2> HIDE DEF p0
  <2>3. \A i \in 0..8 : p0[i] = Entry(p0, i)
    <3>1. 0..8 = {0, 1, 2, 3, 4, 5, 6, 7, 8}
      OBVIOUS
    <3>2. /\ p0[0] = Entry(p0, 0) /\ p0[1] = Entry(p0, 1) /\ p0[2] = Entry(p0, 2)
          /\ p0[3] = Entry(p0, 3) /\ p0[4] = Entry(p0, 4) /\ p0[5] = Entry(p0, 5)
          /\ p0[6] = Entry(p0, 6) /\ p0[7] = Entry(p0, 7) /\ p0[8] = Entry(p0, 8)
      BY <1>5, <2>1 DEF Times1, Times2, Times3, Times4, Times5, Times6, Times7, Times
    <3> QED
      BY <3>1, <3>2
  <2> QED
    BY <2>2, <2>3
<1>7. On(p1)
  BY <1>6
<1> HIDE DEF p1
<1>8. \A i \in 0..8 : p1[i] = Entry(p1, i)
  BY <1>7
<1>9. /\ p1[0] = 0 /\ p1[1] = Level(a, b, 128, p1[0])
      /\ p1[2] = Level(a, b, 64, p1[1]) /\ p1[3] = Level(a, b, 32, p1[2])
      /\ p1[4] = Level(a, b, 16, p1[3]) /\ p1[5] = Level(a, b, 8, p1[4])
      /\ p1[6] = Level(a, b, 4, p1[5]) /\ p1[7] = Level(a, b, 2, p1[6])
      /\ p1[8] = Level(a, b, 1, p1[7])
  BY <1>5, <1>8
<1> QED
  BY <1>1, <1>9 DEF Times1, Times2, Times3, Times4, Times5, Times6, Times7, Times

\* Four bytes may be added in any order.
LEMMA XorSwap ==
  ASSUME NEW a \in Byte, NEW b \in Byte, NEW c \in Byte, NEW d \in Byte
  PROVE  Xor(Xor(a, b), Xor(c, d)) = Xor(Xor(a, c), Xor(b, d))
<1>1. Xor(Xor(a, b), Xor(c, d)) = Xor(a, Xor(b, Xor(c, d)))
  BY XorLaws, XorByte
<1>2. Xor(b, Xor(c, d)) = Xor(Xor(b, c), d) /\ Xor(b, c) = Xor(c, b)
      /\ Xor(Xor(c, b), d) = Xor(c, Xor(b, d))
  BY XorLaws
<1>3. Xor(a, Xor(c, Xor(b, d))) = Xor(Xor(a, c), Xor(b, d))
  BY XorLaws, XorByte
<1> QED
  BY <1>1, <1>2, <1>3

LEMMA LevelXor ==
  ASSUME NEW a \in Byte, NEW c \in Byte, NEW b, NEW w, NEW u \in Byte, NEW v \in Byte
  PROVE  Level(Xor(a, c), b, w, Xor(u, v)) = Xor(Level(a, b, w, u), Level(c, b, w, v))
<1>1. Part(Xor(a, c), b, w) = Xor(Part(a, b, w), Part(c, b, w))
  BY XorLaws, ZeroByte DEF Part
<1>2. Part(a, b, w) \in Byte /\ Part(c, b, w) \in Byte
  BY ZeroByte DEF Part
<1>3. Twice(Xor(u, v)) = Xor(Twice(u), Twice(v)) /\ Twice(u) \in Byte /\ Twice(v) \in Byte
  BY TwiceXor, TwiceBits
<1> QED
  BY <1>1, <1>2, <1>3, XorSwap DEF Level

LEMMA TwiceZero == Twice(0) = 0
<1>1. Xor(0, 0) = 0
  BY XorLaws, ZeroByte
<1>2. Twice(0) \in Byte /\ Twice(0) = Xor(Twice(0), Twice(0))
  BY <1>1, TwiceXor, ZeroByte, TwiceBits
<1> QED
  BY <1>2, XorLaws

\* The product is linear in its first factor.
LEMMA TimesXor ==
  ASSUME NEW a \in Byte, NEW c \in Byte, NEW b
  PROVE  Times(Xor(a, c), b) = Xor(Times(a, b), Times(c, b))
<1> DEFINE e == Xor(a, c)
<1>1. /\ Times1(a, b) \in Byte /\ Times2(a, b) \in Byte /\ Times3(a, b) \in Byte
      /\ Times4(a, b) \in Byte /\ Times5(a, b) \in Byte /\ Times6(a, b) \in Byte
      /\ Times7(a, b) \in Byte
  BY TimesBytes
<1>2. /\ Times1(c, b) \in Byte /\ Times2(c, b) \in Byte /\ Times3(c, b) \in Byte
      /\ Times4(c, b) \in Byte /\ Times5(c, b) \in Byte /\ Times6(c, b) \in Byte
      /\ Times7(c, b) \in Byte
  BY TimesBytes
<1>3. Times1(e, b) = Xor(Times1(a, b), Times1(c, b))
  <2>1. Xor(0, 0) = 0
    BY XorLaws, ZeroByte
  <2>2. Level(Xor(a, c), b, 128, Xor(0, 0)) = Xor(Level(a, b, 128, 0), Level(c, b, 128, 0))
    BY ZeroByte, LevelXor
  <2> QED
    BY <2>1, <2>2 DEF Times1
<1>4. Times2(e, b) = Xor(Times2(a, b), Times2(c, b))
  BY <1>1, <1>2, <1>3, LevelXor DEF Times2
<1>5. Times3(e, b) = Xor(Times3(a, b), Times3(c, b))
  BY <1>1, <1>2, <1>4, LevelXor DEF Times3
<1>6. Times4(e, b) = Xor(Times4(a, b), Times4(c, b))
  BY <1>1, <1>2, <1>5, LevelXor DEF Times4
<1>7. Times5(e, b) = Xor(Times5(a, b), Times5(c, b))
  BY <1>1, <1>2, <1>6, LevelXor DEF Times5
<1>8. Times6(e, b) = Xor(Times6(a, b), Times6(c, b))
  BY <1>1, <1>2, <1>7, LevelXor DEF Times6
<1>9. Times7(e, b) = Xor(Times7(a, b), Times7(c, b))
  BY <1>1, <1>2, <1>8, LevelXor DEF Times7
<1> QED
  BY <1>1, <1>2, <1>9, LevelXor DEF Times

LEMMA LevelTwice ==
  ASSUME NEW a \in Byte, NEW b, NEW w, NEW v \in Byte
  PROVE  Level(Twice(a), b, w, Twice(v)) = Twice(Level(a, b, w, v))
<1>1. Part(Twice(a), b, w) = Twice(Part(a, b, w))
  BY TwiceZero DEF Part
<1>2. Part(a, b, w) \in Byte
  BY ZeroByte DEF Part
<1> QED
  BY <1>1, <1>2, TwiceBits, TwiceXor DEF Level

LEMMA TimesTwice ==
  ASSUME NEW a \in Byte, NEW b
  PROVE  Times(Twice(a), b) = Twice(Times(a, b))
<1> DEFINE e == Twice(a)
<1>1. /\ Times1(a, b) \in Byte /\ Times2(a, b) \in Byte /\ Times3(a, b) \in Byte
      /\ Times4(a, b) \in Byte /\ Times5(a, b) \in Byte /\ Times6(a, b) \in Byte
      /\ Times7(a, b) \in Byte
  BY TimesBytes
<1>3. Times1(e, b) = Twice(Times1(a, b))
  <2>2. Level(Twice(a), b, 128, Twice(0)) = Twice(Level(a, b, 128, 0))
    BY ZeroByte, LevelTwice
  <2> QED
    BY TwiceZero, <2>2 DEF Times1
<1>4. Times2(e, b) = Twice(Times2(a, b))
  BY <1>1, <1>3, LevelTwice DEF Times2
<1>5. Times3(e, b) = Twice(Times3(a, b))
  BY <1>1, <1>4, LevelTwice DEF Times3
<1>6. Times4(e, b) = Twice(Times4(a, b))
  BY <1>1, <1>5, LevelTwice DEF Times4
<1>7. Times5(e, b) = Twice(Times5(a, b))
  BY <1>1, <1>6, LevelTwice DEF Times5
<1>8. Times6(e, b) = Twice(Times6(a, b))
  BY <1>1, <1>7, LevelTwice DEF Times6
<1>9. Times7(e, b) = Twice(Times7(a, b))
  BY <1>1, <1>8, LevelTwice DEF Times7
<1> QED
  BY <1>1, <1>9, LevelTwice DEF Times

LEMMA TimesZero ==
  /\ \A b : Times(0, b) = 0
  /\ \A a \in Byte : Times(a, 0) = 0
<1>1. ASSUME NEW a, NEW b, \A w \in Weights : Part(a, b, w) = 0 PROVE Times(a, b) = 0
  <2>1. \A w \in Weights : Level(a, b, w, 0) = 0
    BY <1>1, TwiceZero, XorLaws, ZeroByte DEF Level
  <2> QED
    BY <2>1 DEF Weights, Times1, Times2, Times3, Times4, Times5, Times6, Times7, Times
<1>2. \A w \in Weights : ~ Bit(0, w)
  <2>1. \A w \in Weights : 0 \div w = 0
    BY DEF Weights
  <2>2. \A w \in Weights : Digit(0, w) = 0 % 2
    BY <2>1 DEF Digit
  <2>3. 0 % 2 = 0
    OBVIOUS
  <2> QED
    BY <2>2, <2>3 DEF Bit
<1> QED
  BY <1>1, <1>2 DEF Part

\* Doubling a small byte, and setting its last digit.
LEMMA SmallLevel ==
  ASSUME NEW v \in 0..127, NEW c \in {0, 1}
  PROVE  Xor(c, Twice(v)) = 2 * v + c
<1> DEFINE e == 2 * v
<1>1. v \in Byte /\ e \in Byte /\ e + c \in Byte /\ c \in Byte
  BY DEF Byte
<1>2. /\ ~ Bit(v, 128)
      /\ ~ Bit(e, 1) /\ (Bit(e, 2) <=> Bit(v, 1)) /\ (Bit(e, 4) <=> Bit(v, 2))
      /\ (Bit(e, 8) <=> Bit(v, 4)) /\ (Bit(e, 16) <=> Bit(v, 8))
      /\ (Bit(e, 32) <=> Bit(v, 16)) /\ (Bit(e, 64) <=> Bit(v, 32))
      /\ (Bit(e, 128) <=> Bit(v, 64))
  BY DEF Bit, Digit
<1>3. Twice(v) = e
  <2>1. \A w \in Weights : Bit(Twice(v), w) <=> Bit(e, w)
    <3> HIDE DEF e
    <3> QED BY <1>1, <1>2, TwiceBits DEF Weights
  <2> HIDE DEF e
  <2> QED
    BY <1>1, <2>1, SameByte, TwiceBits
<1>4. CASE c = 0
  BY <1>1, <1>3, <1>4, XorLaws
<1>5. CASE c = 1
  <2>1. /\ Bit(e + 1, 1) /\ (Bit(e + 1, 2) <=> Bit(v, 1)) /\ (Bit(e + 1, 4) <=> Bit(v, 2))
        /\ (Bit(e + 1, 8) <=> Bit(v, 4)) /\ (Bit(e + 1, 16) <=> Bit(v, 8))
        /\ (Bit(e + 1, 32) <=> Bit(v, 16)) /\ (Bit(e + 1, 64) <=> Bit(v, 32))
        /\ (Bit(e + 1, 128) <=> Bit(v, 64))
    BY DEF Bit, Digit
  <2>2. Bit(1, 1) /\ \A w \in Weights \ {1} : ~ Bit(1, w)
    BY DEF Bit, Digit, Weights
  <2> DEFINE d == e + 1
  <2>3. d \in Byte /\ 1 \in Byte
    BY <1>1, <1>5
  <2>4. /\ Bit(d, 1) /\ (Bit(d, 2) <=> Bit(e, 2)) /\ (Bit(d, 4) <=> Bit(e, 4))
        /\ (Bit(d, 8) <=> Bit(e, 8)) /\ (Bit(d, 16) <=> Bit(e, 16))
        /\ (Bit(d, 32) <=> Bit(e, 32)) /\ (Bit(d, 64) <=> Bit(e, 64))
        /\ (Bit(d, 128) <=> Bit(e, 128))
    BY <1>2, <2>1
  <2> HIDE DEF e, d
  <2>5. \A w \in Weights : Bit(Xor(1, e), w) <=> Bit(d, w)
    BY <1>1, <1>2, <2>2, <2>3, <2>4, XorBit DEF Weights
  <2>6. Xor(1, e) = d
    BY <1>1, <2>3, <2>5, SameByte, XorByte
  <2> QED
    BY <1>3, <1>5, <2>6 DEF d, e
<1> QED
  BY <1>4, <1>5

LEMMA TimesOne ==
  ASSUME NEW b \in Byte
  PROVE  Times(1, b) = b
<1>1. ASSUME NEW w \in Weights, NEW v \in 0..127
      PROVE  Level(1, b, w, v) = 2 * v + Digit(b, w)
  <2>1. Digit(b, w) \in {0, 1}
    BY Digits DEF Weights
  <2>2. Part(1, b, w) = Digit(b, w)
    BY <2>1 DEF Part, Bit
  <2> QED
    BY <2>1, <2>2, SmallLevel DEF Level
<1>2. /\ Digit(b, 1) \in {0, 1} /\ Digit(b, 2) \in {0, 1} /\ Digit(b, 4) \in {0, 1}
      /\ Digit(b, 8) \in {0, 1} /\ Digit(b, 16) \in {0, 1} /\ Digit(b, 32) \in {0, 1}
      /\ Digit(b, 64) \in {0, 1} /\ Digit(b, 128) \in {0, 1}
  BY Digits
<1>3. Times1(1, b) = Digit(b, 128)
  BY <1>1, <1>2 DEF Times1, Weights
<1>4. Times2(1, b) = 2 * Times1(1, b) + Digit(b, 64)
  BY <1>1, <1>2, <1>3 DEF Times2, Weights
<1>5. Times3(1, b) = 2 * Times2(1, b) + Digit(b, 32)
  <2>1. Times2(1, b) \in 0..127
    BY <1>2, <1>3, <1>4
  <2> QED
    BY <1>1, <2>1 DEF Times3, Weights
<1>6. Times4(1, b) = 2 * Times3(1, b) + Digit(b, 16)
  <2>1. Times3(1, b) \in 0..127
    BY <1>2, <1>3, <1>4, <1>5
  <2> QED
    BY <1>1, <2>1 DEF Times4, Weights
<1>7. Times5(1, b) = 2 * Times4(1, b) + Digit(b, 8)
  <2>1. Times4(1, b) \in 0..127
    BY <1>2, <1>3, <1>4, <1>5, <1>6
  <2> QED
    BY <1>1, <2>1 DEF Times5, Weights
<1>8. Times6(1, b) = 2 * Times5(1, b) + Digit(b, 4)
  <2>1. Times5(1, b) \in 0..127
    BY <1>2, <1>3, <1>4, <1>5, <1>6, <1>7
  <2> QED
    BY <1>1, <2>1 DEF Times6, Weights
<1>9. Times7(1, b) = 2 * Times6(1, b) + Digit(b, 2)
  <2>1. Times6(1, b) \in 0..127
    BY <1>2, <1>3, <1>4, <1>5, <1>6, <1>7, <1>8
  <2> QED
    BY <1>1, <2>1 DEF Times7, Weights
<1>10. Times(1, b) = 2 * Times7(1, b) + Digit(b, 1)
  <2>1. Times7(1, b) \in 0..127
    BY <1>2, <1>3, <1>4, <1>5, <1>6, <1>7, <1>8, <1>9
  <2> QED
    BY <1>1, <2>1 DEF Times, Weights
<1> QED
  BY <1>2, <1>3, <1>4, <1>5, <1>6, <1>7, <1>8, <1>9, <1>10, Digits

\* Products with the small constants of MixColumns and of its inverse.
Thrice(a) == Xor(Twice(a), a)

LEMMA TimesThrice ==
  ASSUME NEW a \in Byte, NEW b
  PROVE  Times(Thrice(a), b) = Thrice(Times(a, b))
  BY TimesXor, TimesTwice, TwiceBits DEF Thrice

-----------------------------------------------------------------------------

(***************************************************************************)
(* The loop's powers of 3.                                                 *)
(***************************************************************************)
LEMMA SameXor == F!XOR = XOR /\ F!Byte = Byte
  BY DEF F!XOR, XOR, F!Byte, Byte

LEMMA XtimeIs == \A x \in Byte : XTIME(x) = Twice(x)
<1>1. F!Double = [a \in Byte |-> XOR[(2 * a) % 256][IF a >= 128 THEN 27 ELSE 0]]
  BY SameXor DEF F!Double, F!Plus
<1> QED
  BY <1>1 DEF XTIME, Twice

LEMMA ThriceByte == \A x \in Byte : Thrice(x) \in Byte
  BY TwiceBits, XorByte DEF Thrice

LEMMA Times3Is == times_3 = [x \in Byte |-> Thrice(x)]
<1>1. \A x \in Byte : XOR[x][XTIME(x)] = Thrice(x)
  <2> SUFFICES ASSUME NEW x \in Byte PROVE XOR[x][XTIME(x)] = Thrice(x)
    OBVIOUS
  <2>1. XOR[x][XTIME(x)] = Xor(x, Twice(x))
    BY XtimeIs DEF Xor
  <2> QED
    BY <2>1, XorLaws, TwiceBits DEF Thrice
<1> QED
  BY <1>1 DEF times_3

twice_of(f) == [x \in Byte |-> f[f[x]]]
Eight == twice_of(twice_of(twice_of(times_3)))
PowEntry(x, i) == IF i = 0 THEN 1
                  ELSE IF i % 16 = 0 THEN Eight[Eight[x[i-16]]]
                  ELSE times_3[x[i-1]]
PowOn(x) == x = [i \in Byte |-> PowEntry(x, i)]

LEMMA Sixteenth ==
  ASSUME NEW g \in [0..16 -> Byte], \A k \in 1..16 : g[k] = Thrice(g[k-1])
  PROVE  Eight[Eight[g[0]]] = g[16]
<1> DEFINE t2 == twice_of(times_3)
           t4 == twice_of(t2)
<1>1. \A k \in 0..15 : times_3[g[k]] = g[k+1]
  <2>1. \A k \in 0..15 : k + 1 \in 1..16 /\ (k + 1) - 1 = k /\ g[k] \in Byte
    OBVIOUS
  <2> QED
    BY <2>1, Times3Is
<1>2. \A k \in 0..14 : t2[g[k]] = g[k+2]
  <2>1. \A k \in 0..14 : k \in 0..15 /\ k + 1 \in 0..15 /\ (k + 1) + 1 = k + 2 /\ g[k] \in Byte
    OBVIOUS
  <2> QED
    BY <2>1, <1>1 DEF twice_of
<1> HIDE DEF t2
<1>3. \A k \in 0..12 : t4[g[k]] = g[k+4]
  <2>1. \A k \in 0..12 : k \in 0..14 /\ k + 2 \in 0..14 /\ (k + 2) + 2 = k + 4 /\ g[k] \in Byte
    OBVIOUS
  <2> QED
    BY <2>1, <1>2 DEF twice_of
<1> HIDE DEF t4
<1>4. \A k \in 0..8 : Eight[g[k]] = g[k+8]
  <2>1. \A k \in 0..8 : k \in 0..12 /\ k + 4 \in 0..12 /\ (k + 4) + 4 = k + 8 /\ g[k] \in Byte
    OBVIOUS
  <2> QED
    BY <2>1, <1>3 DEF twice_of, Eight, t4, t2
<1> QED
  BY <1>4

PowStep == [s \in (1..255) \X Byte |-> Thrice(s[2])]

\* Three times as large at every step.
ByThrees(g) == g[0] = 1 /\ \A k \in 1..255 : g[k] = Thrice(g[k-1])

LEMMA ByThreesExist == \E g \in [0..255 -> Byte] : ByThrees(g)
<1>1. PowStep \in [(1..255) \X Byte -> Byte] /\ 1 \in Byte
  <2>1. 1 \in Byte
    BY DEF Byte
  <2> QED
    BY <2>1, ThriceByte DEF PowStep
<1>2. PICK g \in [0..255 -> Byte] : StepsOn(g, 255, 1, PowStep)
  BY <1>1, RecursionExists
<1>3. \A k \in 0..255 : g[k] = IF k = 0 THEN 1 ELSE PowStep[<<k, g[k-1]>>]
  BY <1>2 DEF StepsOn
<1>4. ASSUME NEW k \in 1..255 PROVE g[k] = Thrice(g[k-1])
  <2>1. k \in 0..255 /\ k # 0 /\ k - 1 \in 0..255
    OBVIOUS
  <2>2. <<k, g[k-1]>> \in (1..255) \X Byte
    BY <2>1
  <2>3. PowStep[<<k, g[k-1]>>] = Thrice(g[k-1])
    BY <2>2 DEF PowStep
  <2> QED
    BY <1>3, <2>1, <2>3
<1>5. g[0] = 1
  BY <1>3
<1> QED
  BY <1>4, <1>5 DEF ByThrees

LEMMA ByThreesOn ==
  ASSUME NEW g \in [0..255 -> Byte], ByThrees(g)
  PROVE  /\ PowOn(g)
         /\ \A x : PowOn(x) => \A i \in Byte : x[i] = g[i]
<1>1. ASSUME NEW i \in Byte, i # 0, i % 16 = 0
      PROVE  i - 16 \in Byte /\ Eight[Eight[g[i-16]]] = g[i]
  <2> DEFINE h == [k \in 0..16 |-> g[i - 16 + k]]
  <2>1. i - 16 \in Byte /\ i \in 16..255
    BY <1>1 DEF Byte
  <2>2. \A k \in 0..16 : i - 16 + k \in 0..255
    BY <2>1
  <2>3. h \in [0..16 -> Byte]
    BY <2>2
  <2>4. ASSUME NEW k \in 1..16 PROVE h[k] = Thrice(h[k-1])
    <3>1. i - 16 + k \in 1..255 /\ (i - 16 + k) - 1 = i - 16 + (k - 1) /\ k - 1 \in 0..16
      BY <2>1
    <3>2. h[k] = g[i - 16 + k] /\ h[k-1] = g[i - 16 + (k - 1)]
      BY <3>1
    <3> QED
      BY <3>1, <3>2 DEF ByThrees
  <2>5. h[0] = g[i-16] /\ h[16] = g[i]
    BY <2>1
  <2> HIDE DEF h
  <2>6. Eight[Eight[h[0]]] = h[16]
    BY <2>3, <2>4, Sixteenth
  <2> QED
    BY <2>1, <2>5, <2>6
<1>2. \A i \in Byte : i # 0 => i - 1 \in Byte /\ g[i-1] \in Byte /\ times_3[g[i-1]] = g[i]
  <2> SUFFICES ASSUME NEW i \in Byte, i # 0
               PROVE  i - 1 \in Byte /\ g[i-1] \in Byte /\ times_3[g[i-1]] = g[i]
    OBVIOUS
  <2>1. i \in 1..255 /\ i - 1 \in 0..255 /\ i - 1 \in Byte
    BY DEF Byte
  <2> QED
    BY <2>1, Times3Is DEF ByThrees
<1>3. \A i \in Byte : PowEntry(g, i) = g[i]
  BY <1>1, <1>2 DEF PowEntry, ByThrees
<1>4. PowOn(g)
  <2>1. g = [i \in Byte |-> g[i]]
    BY DEF Byte
  <2> QED
    BY <1>3, <2>1 DEF PowOn
<1>5. ASSUME NEW x, PowOn(x) PROVE \A i \in Byte : x[i] = g[i]
  <2> DEFINE Same == {n \in 0..255 : \A m \in 0..n : x[m] = g[m]}
  <2>1. \A i \in Byte : x[i] = PowEntry(x, i)
    BY <1>5 DEF PowOn
  <2>2. 0 \in Same
    <3>1. x[0] = g[0]
      BY <2>1, ZeroByte DEF PowEntry, ByThrees
    <3>2. \A m \in 0..0 : m = 0
      OBVIOUS
    <3> QED
      BY <3>1, <3>2
  <2>3. ASSUME NEW n \in 0..255, n < 255, n \in Same PROVE n + 1 \in Same
    <3> DEFINE i == n + 1
    <3>1. i \in Byte /\ i # 0
      <4>1. n \in 0..254
        BY <2>3
      <4> QED
        BY <4>1 DEF Byte
    <3>2. \A m \in 0..n : x[m] = g[m]
      BY <2>3
    <3>3. x[i-1] = g[i-1]
      <4>1. i - 1 \in 0..n
        OBVIOUS
      <4> QED
        BY <4>1, <3>2
    <3>4. i % 16 = 0 => x[i-16] = g[i-16]
      <4>1. i % 16 = 0 => i - 16 \in 0..n
        BY <3>1 DEF Byte
      <4> QED
        BY <4>1, <3>2
    <3>5. x[i] = g[i]
      <4> HIDE DEF i
      <4> QED
        BY <2>1, <3>1, <3>3, <3>4, <1>3 DEF PowEntry
    <3>6. \A m \in 0..(n+1) : m \in 0..n \/ m = n + 1
      OBVIOUS
    <3>7. n + 1 \in 0..255
      BY <2>3
    <3> QED
      BY <3>2, <3>5, <3>6, <3>7
  <2> HIDE DEF Same
  <2>4. \A n \in 0..255 : n \in Same
    BY <2>2, <2>3, Induct
  <2>5. \A n \in 0..255 : n \in 0..n
    OBVIOUS
  <2> QED
    BY <2>4, <2>5 DEF Same, Byte
<1> QED
  BY <1>4, <1>5

\* However many steps the loop is taken to make at once.
LEMMA PowIs == pow \in [Byte -> Byte] /\ ByThrees(pow)
<1> DEFINE x == CHOOSE x : PowOn(x)
<1>1. pow = [i \in Byte |-> x[i]]
  BY DEF pow, PowOn, PowEntry, Eight, twice_of
<1>2. PICK g \in [0..255 -> Byte] : ByThrees(g)
  BY ByThreesExist
<1>3. PowOn(x)
  BY <1>2, ByThreesOn
<1> HIDE DEF x
<1>4. \A i \in Byte : x[i] = g[i]
  BY <1>2, <1>3, ByThreesOn
<1>5. pow = g
  <2>1. g = [i \in Byte |-> g[i]]
    BY DEF Byte
  <2> QED
    BY <1>1, <1>4, <2>1
<1> QED
  BY <1>2, <1>5 DEF Byte

\* Products of numbers, digit by digit.
LEMMA TwiceIs ==
  ASSUME NEW a \in Byte
  PROVE  Twice(a) = IF a < 128 THEN 2 * a ELSE DigitSum(2 * a - 256, 27)
<1>1. Twice(a) = Xor((2 * a) % 256, IF a >= 128 THEN 27 ELSE 0)
  BY XtimeIs DEF XTIME, Xor
<1>2. CASE a < 128
  <2>1. (2 * a) % 256 = 2 * a /\ 2 * a \in Byte /\ ~ (a >= 128)
    BY <1>2 DEF Byte
  <2> QED
    BY <1>1, <1>2, <2>1, XorLaws
<1>3. CASE ~ (a < 128)
  <2>1. (2 * a) % 256 = 2 * a - 256 /\ 2 * a - 256 \in Byte /\ a >= 128 /\ 27 \in Byte
    BY <1>3 DEF Byte
  <2> QED
    BY <1>1, <1>3, <2>1, XorIs DEF Xor
<1> QED
  BY <1>2, <1>3

LEMMA XorNumber ==
  ASSUME NEW a \in Byte, NEW b \in Byte
  PROVE  Xor(a, b) = DigitSum(a, b)
  BY XorIs DEF Xor

LEMMA NumbersDoubled ==
  /\ Twice(1) = 2
  /\ Twice(3) = 6
  /\ Twice(5) = 10
  /\ Twice(10) = 20
  /\ Twice(15) = 30
  /\ Twice(17) = 34
  /\ Twice(19) = 38
  /\ Twice(20) = 40
  /\ Twice(26) = 52
  /\ Twice(40) = 80
  /\ Twice(46) = 92
  /\ Twice(50) = 100
  /\ Twice(51) = 102
  /\ Twice(53) = 106
  /\ Twice(55) = 110
  /\ Twice(56) = 112
  /\ Twice(57) = 114
  /\ Twice(59) = 118
  /\ Twice(67) = 134
  /\ Twice(85) = 170
  /\ Twice(92) = 184
  /\ Twice(95) = 190
  /\ Twice(97) = 194
  /\ Twice(110) = 220
  /\ Twice(112) = 224
  /\ Twice(114) = 228
  /\ Twice(127) = 254
  /\ Twice(141) = 1
  /\ Twice(143) = 5
  /\ Twice(145) = 57
  /\ Twice(150) = 55
  /\ Twice(161) = 89
  /\ Twice(163) = 93
  /\ Twice(184) = 107
  /\ Twice(189) = 97
  /\ Twice(203) = 141
  /\ Twice(211) = 189
  /\ Twice(220) = 163
  /\ Twice(224) = 219
  /\ Twice(225) = 217
  /\ Twice(228) = 211
  /\ Twice(248) = 235
  /\ Twice(255) = 229
  BY TwiceIs DEF DigitSum, SumDigit, Digit, Byte

LEMMA NumbersAdded ==
  /\ Xor(2, 1) = 3
  /\ Xor(6, 3) = 5
  /\ Xor(10, 5) = 15
  /\ Xor(30, 15) = 17
  /\ Xor(34, 17) = 51
  /\ Xor(38, 19) = 53
  /\ Xor(52, 26) = 46
  /\ Xor(55, 150) = 161
  /\ Xor(89, 161) = 248
  /\ Xor(92, 46) = 114
  /\ Xor(92, 80) = 12
  /\ Xor(92, 100) = 56
  /\ Xor(92, 107) = 55
  /\ Xor(92, 110) = 50
  /\ Xor(92, 184) = 228
  /\ Xor(92, 211) = 143
  /\ Xor(102, 51) = 85
  /\ Xor(106, 53) = 95
  /\ Xor(170, 85) = 255
  /\ Xor(189, 1) = 188
  /\ Xor(189, 118) = 203
  /\ Xor(189, 134) = 59
  /\ Xor(189, 194) = 127
  /\ Xor(189, 254) = 67
  /\ Xor(190, 95) = 225
  /\ Xor(224, 93) = 189
  /\ Xor(224, 118) = 150
  /\ Xor(224, 219) = 59
  /\ Xor(225, 112) = 145
  /\ Xor(225, 189) = 92
  /\ Xor(225, 217) = 56
  /\ Xor(228, 114) = 150
  /\ Xor(229, 255) = 26
  /\ Xor(235, 248) = 19
  BY XorNumber DEF DigitSum, SumDigit, Digit, Byte

LEMMA NumbersMultiplied ==
  /\ Times(225, 225) = 92
  /\ Times(92, 225) = 12
  /\ Times(92, 92) = 224
  /\ Times(224, 225) = 189
  /\ Times(189, 189) = 188
  /\ Times(189, 188) = 1
<1>0. Twice(0) = 0 /\ \A x \in Byte : Xor(x, 0) = x /\ Xor(0, x) = x
  BY TwiceZero, XorLaws
<1>1. Times(225, 225) = 92
  <2>1. /\ Part(225, 225, 128) = 225
        /\ Part(225, 225, 64) = 225
        /\ Part(225, 225, 32) = 225
        /\ Part(225, 225, 16) = 0
        /\ Part(225, 225, 8) = 0
        /\ Part(225, 225, 4) = 0
        /\ Part(225, 225, 2) = 0
        /\ Part(225, 225, 1) = 225
    BY DEF Part, Bit, Digit
  <2>2. /\ Times1(225, 225) = 225
        /\ Times2(225, 225) = 56
        /\ Times3(225, 225) = 145
        /\ Times4(225, 225) = 57
        /\ Times5(225, 225) = 114
        /\ Times6(225, 225) = 228
        /\ Times7(225, 225) = 211
        /\ Times(225, 225) = 92
    BY <1>0, <2>1, NumbersDoubled, NumbersAdded
       DEF Level, Byte, Times1, Times2, Times3, Times4, Times5, Times6, Times7, Times
  <2> QED
    BY <2>2
<1>2. Times(92, 225) = 12
  <2>1. /\ Part(92, 225, 128) = 92
        /\ Part(92, 225, 64) = 92
        /\ Part(92, 225, 32) = 92
        /\ Part(92, 225, 16) = 0
        /\ Part(92, 225, 8) = 0
        /\ Part(92, 225, 4) = 0
        /\ Part(92, 225, 2) = 0
        /\ Part(92, 225, 1) = 92
    BY DEF Part, Bit, Digit
  <2>2. /\ Times1(92, 225) = 92
        /\ Times2(92, 225) = 228
        /\ Times3(92, 225) = 143
        /\ Times4(92, 225) = 5
        /\ Times5(92, 225) = 10
        /\ Times6(92, 225) = 20
        /\ Times7(92, 225) = 40
        /\ Times(92, 225) = 12
    BY <1>0, <2>1, NumbersDoubled, NumbersAdded
       DEF Level, Byte, Times1, Times2, Times3, Times4, Times5, Times6, Times7, Times
  <2> QED
    BY <2>2
<1>3. Times(92, 92) = 224
  <2>1. /\ Part(92, 92, 128) = 0
        /\ Part(92, 92, 64) = 92
        /\ Part(92, 92, 32) = 0
        /\ Part(92, 92, 16) = 92
        /\ Part(92, 92, 8) = 92
        /\ Part(92, 92, 4) = 92
        /\ Part(92, 92, 2) = 0
        /\ Part(92, 92, 1) = 0
    BY DEF Part, Bit, Digit
  <2>2. /\ Times1(92, 92) = 0
        /\ Times2(92, 92) = 92
        /\ Times3(92, 92) = 184
        /\ Times4(92, 92) = 55
        /\ Times5(92, 92) = 50
        /\ Times6(92, 92) = 56
        /\ Times7(92, 92) = 112
        /\ Times(92, 92) = 224
    BY <1>0, <2>1, NumbersDoubled, NumbersAdded
       DEF Level, Byte, Times1, Times2, Times3, Times4, Times5, Times6, Times7, Times
  <2> QED
    BY <2>2
<1>4. Times(224, 225) = 189
  <2>1. /\ Part(224, 225, 128) = 224
        /\ Part(224, 225, 64) = 224
        /\ Part(224, 225, 32) = 224
        /\ Part(224, 225, 16) = 0
        /\ Part(224, 225, 8) = 0
        /\ Part(224, 225, 4) = 0
        /\ Part(224, 225, 2) = 0
        /\ Part(224, 225, 1) = 224
    BY DEF Part, Bit, Digit
  <2>2. /\ Times1(224, 225) = 224
        /\ Times2(224, 225) = 59
        /\ Times3(224, 225) = 150
        /\ Times4(224, 225) = 55
        /\ Times5(224, 225) = 110
        /\ Times6(224, 225) = 220
        /\ Times7(224, 225) = 163
        /\ Times(224, 225) = 189
    BY <1>0, <2>1, NumbersDoubled, NumbersAdded
       DEF Level, Byte, Times1, Times2, Times3, Times4, Times5, Times6, Times7, Times
  <2> QED
    BY <2>2
<1>5. Times(189, 189) = 188
  <2>1. /\ Part(189, 189, 128) = 189
        /\ Part(189, 189, 64) = 0
        /\ Part(189, 189, 32) = 189
        /\ Part(189, 189, 16) = 189
        /\ Part(189, 189, 8) = 189
        /\ Part(189, 189, 4) = 189
        /\ Part(189, 189, 2) = 0
        /\ Part(189, 189, 1) = 189
    BY DEF Part, Bit, Digit
  <2>2. /\ Times1(189, 189) = 189
        /\ Times2(189, 189) = 97
        /\ Times3(189, 189) = 127
        /\ Times4(189, 189) = 67
        /\ Times5(189, 189) = 59
        /\ Times6(189, 189) = 203
        /\ Times7(189, 189) = 141
        /\ Times(189, 189) = 188
    BY <1>0, <2>1, NumbersDoubled, NumbersAdded
       DEF Level, Byte, Times1, Times2, Times3, Times4, Times5, Times6, Times7, Times
  <2> QED
    BY <2>2
<1>6. Times(189, 188) = 1
  <2>1. /\ Part(189, 188, 128) = 189
        /\ Part(189, 188, 64) = 0
        /\ Part(189, 188, 32) = 189
        /\ Part(189, 188, 16) = 189
        /\ Part(189, 188, 8) = 189
        /\ Part(189, 188, 4) = 189
        /\ Part(189, 188, 2) = 0
        /\ Part(189, 188, 1) = 0
    BY DEF Part, Bit, Digit
  <2>2. /\ Times1(189, 188) = 189
        /\ Times2(189, 188) = 97
        /\ Times3(189, 188) = 127
        /\ Times4(189, 188) = 67
        /\ Times5(189, 188) = 59
        /\ Times6(189, 188) = 203
        /\ Times7(189, 188) = 141
        /\ Times(189, 188) = 1
    BY <1>0, <2>1, NumbersDoubled, NumbersAdded
       DEF Level, Byte, Times1, Times2, Times3, Times4, Times5, Times6, Times7, Times
  <2> QED
    BY <2>2
<1> QED
  BY <1>1, <1>2, <1>3, <1>4, <1>5, <1>6

LEMMA PowByte == \A i \in 0..255 : pow[i] \in Byte
  BY PowIs DEF Byte

LEMMA TimesPow ==
  ASSUME NEW j \in 0..255
  PROVE  \A i \in 0..(255 - j) : Times(pow[i], pow[j]) = pow[i + j]
<1> DEFINE Good == {i \in 0..(255 - j) : Times(pow[i], pow[j]) = pow[i + j]}
<1>1. 0 \in Good
  <2>1. pow[0] = 1 /\ pow[j] \in Byte /\ 0 + j = j /\ 0 \in 0..(255 - j)
    BY PowIs, PowByte DEF ByThrees
  <2> QED
    BY <2>1, TimesOne
<1>2. ASSUME NEW i \in 0..(255 - j), i < 255 - j, i \in Good PROVE i + 1 \in Good
  <2>1. i + 1 \in 1..255 /\ (i + 1) - 1 = i /\ i + 1 + j \in 1..255
        /\ (i + 1 + j) - 1 = i + j /\ i \in 0..255 /\ i + 1 \in 0..(255 - j)
    BY <1>2
  <2>2. pow[i + 1] = Thrice(pow[i]) /\ pow[i + 1 + j] = Thrice(pow[i + j])
    BY <2>1, PowIs DEF ByThrees
  <2>3. Times(Thrice(pow[i]), pow[j]) = Thrice(Times(pow[i], pow[j]))
    BY <2>1, PowByte, TimesThrice
  <2>4. Times(pow[i], pow[j]) = pow[i + j]
    BY <1>2
  <2> QED
    BY <2>1, <2>2, <2>3, <2>4
<1>3. 255 - j \in Nat
  OBVIOUS
<1> HIDE DEF Good
<1>4. \A i \in 0..(255 - j) : i \in Good
  BY <1>1, <1>2, <1>3, Induct
<1> QED
  BY <1>4 DEF Good

Adds(i, j, k) == /\ i \in 0..255 /\ j \in 0..255 /\ k \in 0..255
                 /\ i + j = k

LEMMA TimesPowers ==
  ASSUME NEW i, NEW j, NEW k, Adds(i, j, k)
  PROVE  Times(pow[i], pow[j]) = pow[k]
<1>1. i \in 0..(255 - j) /\ j \in 0..255 /\ i + j = k
  BY DEF Adds
<1> QED
  BY <1>1, TimesPow

LEMMA SomePowers ==
  /\ pow[0] = 1 /\ pow[15] = 53 /\ pow[17] = 225 /\ pow[51] = 12 /\ pow[85] = 189
  /\ pow[255] = 1
<1>1. /\ \A k \in 1..17 : pow[k] = Thrice(pow[k-1])
      /\ pow[0] = 1
  BY PowIs DEF ByThrees
<1>2. /\ pow[15] = 53
      /\ pow[16] = 95
      /\ pow[17] = 225
  <2>1. pow[1] = 3
    BY <1>1, NumbersDoubled, NumbersAdded DEF Thrice
  <2>2. pow[2] = 5
    BY <1>1, <2>1, NumbersDoubled, NumbersAdded DEF Thrice
  <2>3. pow[3] = 15
    BY <1>1, <2>2, NumbersDoubled, NumbersAdded DEF Thrice
  <2>4. pow[4] = 17
    BY <1>1, <2>3, NumbersDoubled, NumbersAdded DEF Thrice
  <2>5. pow[5] = 51
    BY <1>1, <2>4, NumbersDoubled, NumbersAdded DEF Thrice
  <2>6. pow[6] = 85
    BY <1>1, <2>5, NumbersDoubled, NumbersAdded DEF Thrice
  <2>7. pow[7] = 255
    BY <1>1, <2>6, NumbersDoubled, NumbersAdded DEF Thrice
  <2>8. pow[8] = 26
    BY <1>1, <2>7, NumbersDoubled, NumbersAdded DEF Thrice
  <2>9. pow[9] = 46
    BY <1>1, <2>8, NumbersDoubled, NumbersAdded DEF Thrice
  <2>10. pow[10] = 114
    BY <1>1, <2>9, NumbersDoubled, NumbersAdded DEF Thrice
  <2>11. pow[11] = 150
    BY <1>1, <2>10, NumbersDoubled, NumbersAdded DEF Thrice
  <2>12. pow[12] = 161
    BY <1>1, <2>11, NumbersDoubled, NumbersAdded DEF Thrice
  <2>13. pow[13] = 248
    BY <1>1, <2>12, NumbersDoubled, NumbersAdded DEF Thrice
  <2>14. pow[14] = 19
    BY <1>1, <2>13, NumbersDoubled, NumbersAdded DEF Thrice
  <2>15. pow[15] = 53
    BY <1>1, <2>14, NumbersDoubled, NumbersAdded DEF Thrice
  <2>16. pow[16] = 95
    BY <1>1, <2>15, NumbersDoubled, NumbersAdded DEF Thrice
  <2>17. pow[17] = 225
    BY <1>1, <2>16, NumbersDoubled, NumbersAdded DEF Thrice
  <2> QED
    BY <2>15, <2>16, <2>17
<1>3. pow[34] = 92
  <2>1. Adds(17, 17, 34)
    BY DEF Adds
  <2>3. Times(pow[17], pow[17]) = pow[34]
    BY <2>1, TimesPowers
  <2> QED
    BY <1>2, <2>3, NumbersMultiplied
<1>4. pow[51] = 12
  <2>1. Adds(34, 17, 51)
    BY DEF Adds
  <2>3. Times(pow[34], pow[17]) = pow[51]
    BY <2>1, TimesPowers
  <2> QED
    BY <1>2, <1>3, <2>3, NumbersMultiplied
<1>5. pow[68] = 224
  <2>1. Adds(34, 34, 68)
    BY DEF Adds
  <2>3. Times(pow[34], pow[34]) = pow[68]
    BY <2>1, TimesPowers
  <2> QED
    BY <1>2, <1>3, <1>4, <2>3, NumbersMultiplied
<1>6. pow[85] = 189
  <2>1. Adds(68, 17, 85)
    BY DEF Adds
  <2>3. Times(pow[68], pow[17]) = pow[85]
    BY <2>1, TimesPowers
  <2> QED
    BY <1>2, <1>3, <1>4, <1>5, <2>3, NumbersMultiplied
<1>7. pow[170] = 188
  <2>1. Adds(85, 85, 170)
    BY DEF Adds
  <2>3. Times(pow[85], pow[85]) = pow[170]
    BY <2>1, TimesPowers
  <2> QED
    BY <1>2, <1>3, <1>4, <1>5, <1>6, <2>3, NumbersMultiplied
<1>8. pow[255] = 1
  <2>1. Adds(85, 170, 255)
    BY DEF Adds
  <2>3. Times(pow[85], pow[170]) = pow[255]
    BY <2>1, TimesPowers
  <2> QED
    BY <1>2, <1>3, <1>4, <1>5, <1>6, <1>7, <2>3, NumbersMultiplied
<1> QED
  BY <1>1, <1>2, <1>3, <1>4, <1>5, <1>6, <1>7, <1>8

\* A power that is 1 makes its multiples 1.
LEMMA UnitMultiples ==
  ASSUME NEW d \in 1..254, pow[d] = 1
  PROVE  \A k \in 0..255 : \A m \in 0..255 : m = k * d => pow[m] = 1
<1> DEFINE Good == {k \in 0..255 : \A m \in 0..255 : m = k * d => pow[m] = 1}
<1>1. 0 \in Good
  BY PowIs DEF ByThrees
<1>2. ASSUME NEW k \in 0..255, k < 255, k \in Good PROVE k + 1 \in Good
  <2>1. SUFFICES ASSUME NEW m \in 0..255, m = (k + 1) * d PROVE pow[m] = 1
    BY <1>2
  <2>2. m = k * d + d
    BY <2>1
  <2>3. k * d \in Nat
    OBVIOUS
  <2> DEFINE n == k * d
  <2>4. n \in 0..255 /\ Adds(d, n, m)
    <3> HIDE DEF n
    <3> QED BY <2>2, <2>3 DEF Adds, n
  <2>5. pow[n] = 1
    BY <1>2, <2>4
  <2>6. Times(pow[d], pow[n]) = pow[m]
    <3> HIDE DEF n
    <3> QED BY <2>4, TimesPowers
  <2>7. Times(1, 1) = 1
    <3>1. 1 \in Byte
      BY DEF Byte
    <3> QED
      BY <3>1, TimesOne
  <2> QED
    BY <2>5, <2>6, <2>7
<1> HIDE DEF Good
<1>3. \A k \in 0..255 : k \in Good
  BY <1>1, <1>2, Induct
<1> QED
  BY <1>3 DEF Good

\* What divides 255 and is less divides 85, 51 or 15.
LEMMA Divisors ==
  ASSUME NEW d \in 1..254, NEW q \in 0..255, q * d = 255
  PROVE  \E k \in 0..255 : k * d \in {15, 51, 85}
<1>1. CASE d <= 15
  <2>1. d \in {1, 2, 3, 4, 5, 6, 7, 8, 9, 10, 11, 12, 13, 14, 15}
    BY <1>1
  <2>2. d \in {1, 3, 5, 15}
    BY <2>1
  <2>3. CASE d = 1
    BY <2>3
  <2>4. CASE d = 3
    BY <2>4
  <2>5. CASE d = 5
    BY <2>5
  <2>6. CASE d = 15
    BY <2>6
  <2> QED
    BY <2>2, <2>3, <2>4, <2>5, <2>6
<1>2. CASE q <= 15
  <2>1. q \in {0, 1, 2, 3, 4, 5, 6, 7, 8, 9, 10, 11, 12, 13, 14, 15}
    BY <1>2
  <2>2. d \in {17, 51, 85}
    BY <2>1
  <2>3. CASE d = 17
    BY <2>3
  <2>4. CASE d = 51
    BY <2>4
  <2>5. CASE d = 85
    BY <2>5
  <2> QED
    BY <2>2, <2>3, <2>4, <2>5
<1>3. d <= 15 \/ q <= 15
  <2> SUFFICES ASSUME d >= 16, q >= 16 PROVE FALSE
    OBVIOUS
  <2>1. PICK e \in Nat : d = 16 + e
    OBVIOUS
  <2>2. q * d = q * 16 + q * e
    BY <2>1
  <2>3. q * e \in Nat
    OBVIOUS
  <2> QED
    BY <2>2, <2>3
<1> QED
  BY <1>1, <1>2, <1>3

LEMMA NoUnit == \A d \in 1..254 : pow[d] # 1
<1> DEFINE Units == {d \in 1..254 : pow[d] = 1}
<1> SUFFICES ASSUME Units # {} PROVE FALSE
  OBVIOUS
<1>1. PICK d \in Units : \A e \in Units : d <= e
  <2>1. Units \subseteq Nat
    OBVIOUS
  <2> QED
    BY <2>1, LeastOf
<1>2. d \in 1..254 /\ pow[d] = 1
  OBVIOUS
<1> DEFINE q == 255 \div d
           r == 255 % d
           m == q * d
<1>3. q \in 0..255 /\ r \in 0..(d - 1) /\ 255 = m + r /\ m \in 0..255
  BY <1>2
<1>4. pow[m] = 1
  BY <1>2, <1>3, UnitMultiples
<1>5. pow[r] = 1
  <2> HIDE DEF q, r, m
  <2>1. Adds(m, r, 255)
    BY <1>2, <1>3 DEF Adds
  <2>2. Times(pow[m], pow[r]) = pow[255]
    BY <2>1, TimesPowers
  <2>3. pow[r] \in Byte
    BY <1>2, <1>3, PowByte
  <2> QED
    BY <1>4, <2>2, <2>3, TimesOne, SomePowers
<1>6. r = 0
  <2> HIDE DEF r
  <2>1. r \notin Units
    BY <1>1, <1>2, <1>3
  <2> QED
    BY <1>2, <1>3, <1>5, <2>1
<1>7. PICK k \in 0..255 : k * d \in {15, 51, 85}
  <2>1. q * d = 255
    <3> HIDE DEF q, r
    <3> QED BY <1>3, <1>6
  <2> HIDE DEF q, Units
  <2> QED
    BY <1>2, <1>3, <2>1, Divisors
<1>8. pow[15] = 1 \/ pow[51] = 1 \/ pow[85] = 1
  <2> DEFINE n == k * d
  <2>1. n \in 0..255 /\ n \in {15, 51, 85}
    BY <1>7
  <2>2. pow[n] = 1
    BY <1>2, <1>7, <2>1, UnitMultiples
  <2> HIDE DEF n
  <2> QED
    BY <2>1, <2>2
<1> QED
  BY <1>8, SomePowers

LEMMA PowNotZero == \A i \in 0..255 : pow[i] # 0
<1> SUFFICES ASSUME NEW i \in 0..255, pow[i] = 0 PROVE FALSE
  OBVIOUS
<1>1. Adds(i, 255 - i, 255)
  BY DEF Adds
<1> QED
  BY <1>1, TimesPowers, TimesZero, SomePowers

LEMMA PowInjective ==
  ASSUME NEW i \in 0..254, NEW j \in 0..254, i < j
  PROVE  pow[i] # pow[j]
<1> SUFFICES ASSUME pow[i] = pow[j] PROVE FALSE
  OBVIOUS
<1> DEFINE n == 255 - j
           m == i + n
<1>1. Adds(j, n, 255) /\ Adds(i, n, m) /\ m \in 1..254
  BY DEF Adds
<1> HIDE DEF m, n
<1>2. Times(pow[j], pow[n]) = pow[255] /\ Times(pow[i], pow[n]) = pow[m]
  BY <1>1, TimesPowers
<1> QED
  BY <1>1, <1>2, SomePowers, NoUnit

\* The loop of aes_init_keygen_tables over the powers of 3 reaches every byte
\* but 0 in its first 255 steps.
THEOREM PowersOf3 == \A x \in 1..255 : \E i \in 0..254 : pow[i] = x
<1> DEFINE f == [i \in 0..254 |-> pow[i]]
<1>1. f \in [0..254 -> 1..255]
  <2>1. \A i \in 0..254 : pow[i] \in Byte /\ pow[i] # 0
    BY PowByte, PowNotZero
  <2>2. \A y \in Byte : y # 0 => y \in 1..255
    BY DEF Byte
  <2> QED
    BY <2>1, <2>2
<1>2. \A i, j \in 0..254 : f[i] = f[j] => i = j
  <2> SUFFICES ASSUME NEW i \in 0..254, NEW j \in 0..254, f[i] = f[j], i # j
               PROVE  FALSE
    OBVIOUS
  <2>1. pow[i] = pow[j] /\ (i < j \/ j < i)
    OBVIOUS
  <2> QED
    BY <2>1, PowInjective
<1> HIDE DEF f
<1>3. f \in Injection(0..254, 1..255)
  BY <1>1, <1>2 DEF Injection, IsInjective
<1>4. IsFiniteSet(1..255) /\ Cardinality(0..254) = 255 /\ Cardinality(1..255) = 255
  <2>1. Cardinality(0..254) = IF 0 > 254 THEN 0 ELSE 254 - 0 + 1
    <3>1. 0 \in Int /\ 254 \in Int
      OBVIOUS
    <3> QED
      BY <3>1, FS_Interval, Zenon
  <2>2. Cardinality(1..255) = IF 1 > 255 THEN 0 ELSE 255 - 1 + 1
    <3>1. 1 \in Int /\ 255 \in Int
      OBVIOUS
    <3> QED
      BY <3>1, FS_Interval, Zenon
  <2>3. 1 \in Int /\ 255 \in Int
    OBVIOUS
  <2>4. IsFiniteSet(1..255)
    BY <2>3, FS_Interval, Zenon
  <2> QED
    BY <2>1, <2>2, <2>4
<1>5. f \in Surjection(0..254, 1..255)
  BY <1>3, <1>4, FS_Injection
<1> QED
  BY <1>5 DEF Surjection, f

LEMMA LogIs ==
  ASSUME NEW x \in 1..255
  PROVE  log[x] \in 1..255 /\ pow[log[x]] = x
<1>1. PICK i \in 0..254 : pow[i] = x
  BY PowersOf3
<1>2. \E k \in 1..255 : pow[k] = x
  <2>1. CASE i = 0
    BY <1>1, <2>1, SomePowers
  <2>2. CASE i # 0
    BY <1>1, <2>2
  <2> QED
    BY <2>1, <2>2
<1>3. log[x] = CHOOSE k \in 1..255 : pow[k] = x
  BY DEF log
<1> QED
  BY <1>2, <1>3

-----------------------------------------------------------------------------

(***************************************************************************)
(* Inverses and the S-box.                                                 *)
(***************************************************************************)
Pw(n) == pow[n % 255]

LEMMA PwStep ==
  ASSUME NEW n \in Nat
  PROVE  Pw(n + 1) = Thrice(Pw(n))
<1> DEFINE r == n % 255
<1>1. r \in 0..254
  OBVIOUS
<1>2. (n + 1) % 255 = IF r = 254 THEN 0 ELSE r + 1
  OBVIOUS
<1> HIDE DEF r
<1>3. r + 1 \in 1..255 /\ (r + 1) - 1 = r
  BY <1>1
<1>4. pow[r + 1] = Thrice(pow[r])
  BY <1>3, PowIs DEF ByThrees
<1> QED
  BY <1>1, <1>2, <1>4, SomePowers DEF Pw, r

LEMMA PwByte == \A n \in Nat : Pw(n) \in Byte
<1>1. \A n \in Nat : n % 255 \in 0..255
  OBVIOUS
<1> QED
  BY <1>1, PowByte DEF Pw

LEMMA TimesPw ==
  ASSUME NEW m \in Nat, NEW n \in Nat
  PROVE  Times(Pw(m), Pw(n)) = Pw(m + n)
<1> DEFINE Good == {i \in 0..m : Times(Pw(i), Pw(n)) = Pw(i + n)}
<1>1. 0 \in Good
  <2>1. 0 % 255 = 0
    OBVIOUS
  <2>2. Pw(0) = 1 /\ Pw(n) \in Byte /\ 0 + n = n
    BY <2>1, SomePowers, PwByte DEF Pw
  <2> QED
    BY <2>2, TimesOne
<1>2. ASSUME NEW i \in 0..m, i < m, i \in Good PROVE i + 1 \in Good
  <2>1. Pw(i + 1) = Thrice(Pw(i)) /\ Pw((i + n) + 1) = Thrice(Pw(i + n))
    BY PwStep
  <2>2. (i + 1) + n = (i + n) + 1 /\ i + 1 \in 0..m
    BY <1>2
  <2>3. Times(Pw(i), Pw(n)) = Pw(i + n)
    BY <1>2
  <2>4. Pw(i) \in Byte
    BY PwByte
  <2>5. Times(Thrice(Pw(i)), Pw(n)) = Thrice(Times(Pw(i), Pw(n)))
    BY <2>4, TimesThrice
  <2> QED
    BY <2>1, <2>2, <2>3, <2>5
<1> HIDE DEF Good
<1>3. \A i \in 0..m : i \in Good
  BY <1>1, <1>2, Induct
<1> QED
  BY <1>3 DEF Good

LEMMA PwIs ==
  ASSUME NEW k \in 0..255
  PROVE  Pw(k) = pow[k]
<1>1. CASE k = 255
  <2>1. 255 % 255 = 0
    OBVIOUS
  <2> QED
    BY <1>1, <2>1, SomePowers DEF Pw
<1>2. CASE k # 255
  <2>1. k % 255 = k
    BY <1>2
  <2> QED
    BY <2>1 DEF Pw
<1> QED
  BY <1>1, <1>2

\* A square, and the product so far with it.
Square(v) == LET s == Times(v[1], v[1]) IN <<s, Times(v[2], s)>>
SquareStep == [s \in (1..7) \X (Byte \X Byte) |-> Square(s[2])]
Squares(p, a) == p[0] = <<a, 1>> /\ \A i \in 1..7 : p[i] = Square(p[i-1])

LEMMA SquareBytes == \A v \in Byte \X Byte : Square(v) \in Byte \X Byte
  BY TimesBytes DEF Square

LEMMA FSquare ==
  ASSUME NEW v \in Byte \X Byte
  PROVE  <<F!Times(v[1], v[1]), F!Times(v[2], F!Times(v[1], v[1]))>> = Square(v)
<1>1. v[1] \in Byte /\ v[2] \in Byte
  OBVIOUS
<1>2. F!Times(v[1], v[1]) = Times(v[1], v[1]) /\ Times(v[1], v[1]) \in Byte
  BY <1>1, FTimesIs, TimesBytes
<1> QED
  BY <1>1, <1>2, FTimesIs DEF Square

InverseEntry(p, a, i) ==
  IF i = 0 THEN <<a, 1>>
  ELSE <<F!Times(p[i-1][1], p[i-1][1]),
         F!Times(p[i-1][2], F!Times(p[i-1][1], p[i-1][1]))>>
InverseOn(p, a) == p = [i \in 0..7 |-> InverseEntry(p, a, i)]

LEMMA InverseSquares ==
  ASSUME NEW a \in Byte
  PROVE  \E p : Squares(p, a) /\ F!Inverse[a] = p[7][2]
<1>1. <<a, 1>> \in Byte \X Byte
  <2>1. 1 \in Byte
    BY DEF Byte
  <2> QED
    BY <2>1
<1>2. \E p : InverseOn(p, a)
  <2>1. SquareStep \in [(1..7) \X (Byte \X Byte) -> Byte \X Byte]
    BY SquareBytes DEF SquareStep
  <2>2. PICK g \in [0..7 -> Byte \X Byte] : StepsOn(g, 7, <<a, 1>>, SquareStep)
    <3> DEFINE V == Byte \X Byte
    <3>1. <<a, 1>> \in V /\ SquareStep \in [(1..7) \X V -> V] /\ 7 \in Nat
      BY <1>1, <2>1
    <3> HIDE DEF V
    <3>2. \E g \in [0..7 -> V] : StepsOn(g, 7, <<a, 1>>, SquareStep)
      BY <3>1, RecursionExists
    <3> QED
      BY <3>2 DEF V
  <2>3. \A i \in 0..7 : InverseEntry(g, a, i) = g[i]
    <3> SUFFICES ASSUME NEW i \in 0..7 PROVE InverseEntry(g, a, i) = g[i]
      OBVIOUS
    <3>1. g[i] = IF i = 0 THEN <<a, 1>> ELSE SquareStep[<<i, g[i-1]>>]
      BY <2>2 DEF StepsOn
    <3>2. CASE i = 0
      BY <3>1, <3>2 DEF InverseEntry
    <3>3. CASE i # 0
      <4>1. i \in 1..7 /\ i - 1 \in 0..7
        BY <3>3
      <4>2. g[i-1] \in Byte \X Byte /\ <<i, g[i-1]>> \in (1..7) \X (Byte \X Byte)
        BY <4>1
      <4>3. SquareStep[<<i, g[i-1]>>] = Square(g[i-1])
        BY <4>2 DEF SquareStep
      <4> QED
        BY <3>1, <3>3, <4>2, <4>3, FSquare DEF InverseEntry
    <3> QED
      BY <3>2, <3>3
  <2>4. g = [i \in 0..7 |-> g[i]]
    OBVIOUS
  <2> QED
    BY <2>3, <2>4 DEF InverseOn
<1> DEFINE p == CHOOSE q : InverseOn(q, a)
<1>3. InverseOn(p, a)
  BY <1>2
<1>4. F!Inverse[a] = p[7][2]
  BY SameXor DEF F!Inverse, InverseOn, InverseEntry
<1> HIDE DEF p
<1>5. p[0] = <<a, 1>>
  BY <1>3 DEF InverseOn, InverseEntry
<1>6. \A i \in 1..7 : p[i] = InverseEntry(p, a, i)
  BY <1>3 DEF InverseOn
<1>7. ASSUME NEW i \in 1..7, p[i-1] \in Byte \X Byte
      PROVE  p[i] = Square(p[i-1]) /\ p[i] \in Byte \X Byte
  <2>1. i # 0
    OBVIOUS
  <2>2. p[i] = Square(p[i-1])
    BY <1>6, <1>7, <2>1, FSquare DEF InverseEntry
  <2> QED
    BY <1>7, <2>2, SquareBytes
<1>8. \A i \in 0..7 : p[i] \in Byte \X Byte
  <2> DEFINE Good == {i \in 0..7 : p[i] \in Byte \X Byte}
  <2>1. 0 \in Good
    BY <1>1, <1>5
  <2>2. ASSUME NEW i \in 0..7, i < 7, i \in Good PROVE i + 1 \in Good
    <3>1. i + 1 \in 1..7 /\ (i + 1) - 1 = i
      BY <2>2
    <3> QED
      BY <2>2, <3>1, <1>7
  <2> HIDE DEF Good
  <2>3. \A i \in 0..7 : i \in Good
    BY <2>1, <2>2, Induct
  <2> QED
    BY <2>3 DEF Good
<1>9. \A i \in 1..7 : i - 1 \in 0..7
  OBVIOUS
<1>10. Squares(p, a)
  BY <1>5, <1>7, <1>8, <1>9 DEF Squares
<1> QED
  BY <1>4, <1>10

LEMMA SevenSquares ==
  ASSUME NEW p, NEW a, Squares(p, a)
  PROVE  /\ p[0] = <<a, 1>> /\ p[1] = Square(p[0]) /\ p[2] = Square(p[1])
         /\ p[3] = Square(p[2]) /\ p[4] = Square(p[3]) /\ p[5] = Square(p[4])
         /\ p[6] = Square(p[5]) /\ p[7] = Square(p[6])
  BY DEF Squares

LEMMA SquarePw ==
  ASSUME NEW m \in Nat, NEW n \in Nat
  PROVE  Square(<<Pw(m), Pw(n)>>) = <<Pw(m + m), Pw(n + (m + m))>>
<1>1. Times(Pw(m), Pw(m)) = Pw(m + m) /\ m + m \in Nat
  BY TimesPw
<1>2. Times(Pw(n), Pw(m + m)) = Pw(n + (m + m))
  BY <1>1, TimesPw
<1> QED
  BY <1>1, <1>2 DEF Square

Doubled(e, s, f, t) == e \in Nat /\ s \in Nat /\ f = e + e /\ t = s + f

LEMMA SquareDoubled ==
  ASSUME NEW e, NEW s, NEW f, NEW t, Doubled(e, s, f, t)
  PROVE  Square(<<Pw(e), Pw(s)>>) = <<Pw(f), Pw(t)>>
<1>1. e \in Nat /\ s \in Nat /\ f = e + e /\ t = s + (e + e)
  BY DEF Doubled
<1>2. Square(<<Pw(e), Pw(s)>>) = <<Pw(e + e), Pw(s + (e + e))>>
  BY <1>1, SquarePw
<1> QED
  BY <1>1, <1>2, Zenon

\* The inverse of a power of 3 is the power that is left up to 255.
LEMMA InversePow ==
  ASSUME NEW k \in 0..255
  PROVE  F!Inverse[pow[k]] = pow[255 - k]
<1>1. pow[k] \in Byte /\ pow[k] = Pw(k)
  BY PowByte, PwIs
<1>2. PICK p : Squares(p, pow[k]) /\ F!Inverse[pow[k]] = p[7][2]
  BY <1>1, InverseSquares
<1>3. 0 % 255 = 0
  OBVIOUS
<1>4. Pw(0) = 1
  BY <1>3, SomePowers DEF Pw
<1> DEFINE e1 == k + k
           e2 == e1 + e1
           e3 == e2 + e2
           e4 == e3 + e3
           e5 == e4 + e4
           e6 == e5 + e5
           e7 == e6 + e6
           s1 == 0 + e1
           s2 == s1 + e2
           s3 == s2 + e3
           s4 == s3 + e4
           s5 == s4 + e5
           s6 == s5 + e6
           s7 == s6 + e7
<1>5. /\ Doubled(k, 0, e1, s1) /\ Doubled(e1, s1, e2, s2) /\ Doubled(e2, s2, e3, s3)
      /\ Doubled(e3, s3, e4, s4) /\ Doubled(e4, s4, e5, s5) /\ Doubled(e5, s5, e6, s6)
      /\ Doubled(e6, s6, e7, s7)
  BY DEF Doubled
<1>6. s7 % 255 = IF k = 0 THEN 0 ELSE 255 - k
  <2>1. s7 = 254 * k
    OBVIOUS
  <2> HIDE DEF s7
  <2> QED
    BY <2>1
<1> HIDE DEF e1, e2, e3, e4, e5, e6, e7, s1, s2, s3, s4, s5, s6, s7
<1>7. p[0] = <<Pw(k), Pw(0)>>
  BY <1>1, <1>2, <1>4, SevenSquares
<1>8. p[1] = <<Pw(e1), Pw(s1)>>
  BY <1>2, <1>5, <1>7, SevenSquares, SquareDoubled
<1>9. p[2] = <<Pw(e2), Pw(s2)>>
  BY <1>2, <1>5, <1>8, SevenSquares, SquareDoubled
<1>10. p[3] = <<Pw(e3), Pw(s3)>>
  BY <1>2, <1>5, <1>9, SevenSquares, SquareDoubled
<1>11. p[4] = <<Pw(e4), Pw(s4)>>
  BY <1>2, <1>5, <1>10, SevenSquares, SquareDoubled
<1>12. p[5] = <<Pw(e5), Pw(s5)>>
  BY <1>2, <1>5, <1>11, SevenSquares, SquareDoubled
<1>13. p[6] = <<Pw(e6), Pw(s6)>>
  BY <1>2, <1>5, <1>12, SevenSquares, SquareDoubled
<1>14. p[7] = <<Pw(e7), Pw(s7)>>
  BY <1>2, <1>5, <1>13, SevenSquares, SquareDoubled
<1>15. Pw(s7) = pow[255 - k]
  <2>1. CASE k = 0
    BY <1>6, <2>1, SomePowers DEF Pw
  <2>2. CASE k # 0
    BY <1>6, <2>2 DEF Pw
  <2> QED
    BY <2>1, <2>2
<1> QED
  BY <1>2, <1>14, <1>15

LEMMA InverseZero == F!Inverse[0] = 0
<1>1. PICK p : Squares(p, 0) /\ F!Inverse[0] = p[7][2]
  BY ZeroByte, InverseSquares
<1>2. Square(<<0, 1>>) = <<0, 0>> /\ Square(<<0, 0>>) = <<0, 0>>
  <2>1. 1 \in Byte
    BY DEF Byte
  <2> QED
    BY <2>1, TimesZero, ZeroByte DEF Square
<1> QED
  BY <1>1, <1>2, SevenSquares

LEMMA InverseTwice ==
  ASSUME NEW a \in Byte
  PROVE  F!Inverse[a] \in Byte /\ F!Inverse[F!Inverse[a]] = a
<1>1. CASE a = 0
  BY <1>1, InverseZero, ZeroByte
<1>2. CASE a # 0
  <2>1. a \in 1..255
    BY <1>2 DEF Byte
  <2>2. PICK k \in 0..254 : pow[k] = a
    BY <2>1, PowersOf3
  <2> DEFINE n == 255 - k
  <2>3. k \in 0..255 /\ n \in 0..255 /\ 255 - n = k
    BY <2>2
  <2> HIDE DEF n
  <2>4. F!Inverse[pow[k]] = pow[n]
    BY <2>3, InversePow DEF n
  <2> QED
    BY <2>2, <2>3, <2>4, InversePow, PowByte
<1> QED
  BY <1>1, <1>2

-----------------------------------------------------------------------------
(***************************************************************************)
(* The S-box as the loop makes it: bytes turned left and added.            *)
(***************************************************************************)

\* A byte turned left by one digit.
LEMMA TurnBits ==
  ASSUME NEW y \in Byte
  PROVE  /\ turn(y) \in Byte
         /\ Bit(turn(y), 1) <=> Bit(y, 128)
         /\ Bit(turn(y), 2) <=> Bit(y, 1)
         /\ Bit(turn(y), 4) <=> Bit(y, 2)
         /\ Bit(turn(y), 8) <=> Bit(y, 4)
         /\ Bit(turn(y), 16) <=> Bit(y, 8)
         /\ Bit(turn(y), 32) <=> Bit(y, 16)
         /\ Bit(turn(y), 64) <=> Bit(y, 32)
         /\ Bit(turn(y), 128) <=> Bit(y, 64)
<1>1. turn(y) = Digit(y, 128) + 2 * Digit(y, 1) + 4 * Digit(y, 2) + 8 * Digit(y, 4)
                + 16 * Digit(y, 8) + 32 * Digit(y, 16) + 64 * Digit(y, 32)
                + 128 * Digit(y, 64)
  <2>1. (2 * y) % 256 = 2 * (y % 128) /\ y \div 128 = Digit(y, 128)
    BY DEF Byte, Digit
  <2>2. y % 128 = Digit(y, 1) + 2 * Digit(y, 2) + 4 * Digit(y, 4) + 8 * Digit(y, 8)
                  + 16 * Digit(y, 16) + 32 * Digit(y, 32) + 64 * Digit(y, 64)
    BY DEF Byte, Digit
  <2> QED
    BY <2>1, <2>2, Digits DEF turn
<1>2. /\ Digit(y, 1) \in {0, 1} /\ Digit(y, 2) \in {0, 1} /\ Digit(y, 4) \in {0, 1}
      /\ Digit(y, 8) \in {0, 1} /\ Digit(y, 16) \in {0, 1} /\ Digit(y, 32) \in {0, 1}
      /\ Digit(y, 64) \in {0, 1} /\ Digit(y, 128) \in {0, 1}
  BY Digits
<1> QED
  BY <1>1, <1>2, DigitsOf DEF Bit

\* The digits of y turned left by two to six places.
LEMMA TurnsBits ==
  ASSUME NEW y \in Byte
  PROVE  LET y2 == turn(turn(y))
             y3 == turn(y2)
             y4 == turn(y3)
             y6 == turn(turn(y4))
         IN
         /\ y2 \in Byte
         /\ Bit(y2, 1) <=> Bit(y, 64)
         /\ Bit(y2, 2) <=> Bit(y, 128)
         /\ Bit(y2, 4) <=> Bit(y, 1)
         /\ Bit(y2, 8) <=> Bit(y, 2)
         /\ Bit(y2, 16) <=> Bit(y, 4)
         /\ Bit(y2, 32) <=> Bit(y, 8)
         /\ Bit(y2, 64) <=> Bit(y, 16)
         /\ Bit(y2, 128) <=> Bit(y, 32)
         /\ y3 \in Byte
         /\ Bit(y3, 1) <=> Bit(y, 32)
         /\ Bit(y3, 2) <=> Bit(y, 64)
         /\ Bit(y3, 4) <=> Bit(y, 128)
         /\ Bit(y3, 8) <=> Bit(y, 1)
         /\ Bit(y3, 16) <=> Bit(y, 2)
         /\ Bit(y3, 32) <=> Bit(y, 4)
         /\ Bit(y3, 64) <=> Bit(y, 8)
         /\ Bit(y3, 128) <=> Bit(y, 16)
         /\ y4 \in Byte
         /\ Bit(y4, 1) <=> Bit(y, 16)
         /\ Bit(y4, 2) <=> Bit(y, 32)
         /\ Bit(y4, 4) <=> Bit(y, 64)
         /\ Bit(y4, 8) <=> Bit(y, 128)
         /\ Bit(y4, 16) <=> Bit(y, 1)
         /\ Bit(y4, 32) <=> Bit(y, 2)
         /\ Bit(y4, 64) <=> Bit(y, 4)
         /\ Bit(y4, 128) <=> Bit(y, 8)
         /\ y6 \in Byte
         /\ Bit(y6, 1) <=> Bit(y, 4)
         /\ Bit(y6, 2) <=> Bit(y, 8)
         /\ Bit(y6, 4) <=> Bit(y, 16)
         /\ Bit(y6, 8) <=> Bit(y, 32)
         /\ Bit(y6, 16) <=> Bit(y, 64)
         /\ Bit(y6, 32) <=> Bit(y, 128)
         /\ Bit(y6, 64) <=> Bit(y, 1)
         /\ Bit(y6, 128) <=> Bit(y, 2)
<1> DEFINE t1 == turn(y)
           t2 == turn(t1)
           t3 == turn(t2)
           t4 == turn(t3)
           t5 == turn(t4)
           t6 == turn(t5)
<1>1. /\ t1 \in Byte
      /\ Bit(t1, 1) <=> Bit(y, 128)
      /\ Bit(t1, 2) <=> Bit(y, 1)
      /\ Bit(t1, 4) <=> Bit(y, 2)
      /\ Bit(t1, 8) <=> Bit(y, 4)
      /\ Bit(t1, 16) <=> Bit(y, 8)
      /\ Bit(t1, 32) <=> Bit(y, 16)
      /\ Bit(t1, 64) <=> Bit(y, 32)
      /\ Bit(t1, 128) <=> Bit(y, 64)
  <2> QED
    BY TurnBits
<1>2. /\ t2 \in Byte
      /\ Bit(t2, 1) <=> Bit(y, 64)
      /\ Bit(t2, 2) <=> Bit(y, 128)
      /\ Bit(t2, 4) <=> Bit(y, 1)
      /\ Bit(t2, 8) <=> Bit(y, 2)
      /\ Bit(t2, 16) <=> Bit(y, 4)
      /\ Bit(t2, 32) <=> Bit(y, 8)
      /\ Bit(t2, 64) <=> Bit(y, 16)
      /\ Bit(t2, 128) <=> Bit(y, 32)
  <2> HIDE DEF t1
  <2> QED
    BY <1>1, TurnBits
<1>3. /\ t3 \in Byte
      /\ Bit(t3, 1) <=> Bit(y, 32)
      /\ Bit(t3, 2) <=> Bit(y, 64)
      /\ Bit(t3, 4) <=> Bit(y, 128)
      /\ Bit(t3, 8) <=> Bit(y, 1)
      /\ Bit(t3, 16) <=> Bit(y, 2)
      /\ Bit(t3, 32) <=> Bit(y, 4)
      /\ Bit(t3, 64) <=> Bit(y, 8)
      /\ Bit(t3, 128) <=> Bit(y, 16)
  <2> HIDE DEF t2
  <2> QED
    BY <1>2, TurnBits
<1>4. /\ t4 \in Byte
      /\ Bit(t4, 1) <=> Bit(y, 16)
      /\ Bit(t4, 2) <=> Bit(y, 32)
      /\ Bit(t4, 4) <=> Bit(y, 64)
      /\ Bit(t4, 8) <=> Bit(y, 128)
      /\ Bit(t4, 16) <=> Bit(y, 1)
      /\ Bit(t4, 32) <=> Bit(y, 2)
      /\ Bit(t4, 64) <=> Bit(y, 4)
      /\ Bit(t4, 128) <=> Bit(y, 8)
  <2> HIDE DEF t3
  <2> QED
    BY <1>3, TurnBits
<1>5. /\ t5 \in Byte
      /\ Bit(t5, 1) <=> Bit(y, 8)
      /\ Bit(t5, 2) <=> Bit(y, 16)
      /\ Bit(t5, 4) <=> Bit(y, 32)
      /\ Bit(t5, 8) <=> Bit(y, 64)
      /\ Bit(t5, 16) <=> Bit(y, 128)
      /\ Bit(t5, 32) <=> Bit(y, 1)
      /\ Bit(t5, 64) <=> Bit(y, 2)
      /\ Bit(t5, 128) <=> Bit(y, 4)
  <2> HIDE DEF t4
  <2> QED
    BY <1>4, TurnBits
<1>6. /\ t6 \in Byte
      /\ Bit(t6, 1) <=> Bit(y, 4)
      /\ Bit(t6, 2) <=> Bit(y, 8)
      /\ Bit(t6, 4) <=> Bit(y, 16)
      /\ Bit(t6, 8) <=> Bit(y, 32)
      /\ Bit(t6, 16) <=> Bit(y, 64)
      /\ Bit(t6, 32) <=> Bit(y, 128)
      /\ Bit(t6, 64) <=> Bit(y, 1)
      /\ Bit(t6, 128) <=> Bit(y, 2)
  <2> HIDE DEF t5
  <2> QED
    BY <1>5, TurnBits
<1> QED
  BY <1>2, <1>3, <1>4, <1>6

Odd3(a, b, c) == ((a <=> ~ b) <=> ~ c)
Odd5(a, b, c, d, e) == ((((a <=> ~ b) <=> ~ c) <=> ~ d) <=> ~ e)

LEMMA MixedBits ==
  ASSUME NEW y \in Byte
  PROVE  /\ mixed(y) \in Byte
         /\ Bit(mixed(y), 1) <=>
              Odd5(Bit(y, 1), Bit(y, 128), Bit(y, 64), Bit(y, 32), Bit(y, 16))
         /\ Bit(mixed(y), 2) <=>
              Odd5(Bit(y, 2), Bit(y, 1), Bit(y, 128), Bit(y, 64), Bit(y, 32))
         /\ Bit(mixed(y), 4) <=>
              Odd5(Bit(y, 4), Bit(y, 2), Bit(y, 1), Bit(y, 128), Bit(y, 64))
         /\ Bit(mixed(y), 8) <=>
              Odd5(Bit(y, 8), Bit(y, 4), Bit(y, 2), Bit(y, 1), Bit(y, 128))
         /\ Bit(mixed(y), 16) <=>
              Odd5(Bit(y, 16), Bit(y, 8), Bit(y, 4), Bit(y, 2), Bit(y, 1))
         /\ Bit(mixed(y), 32) <=>
              Odd5(Bit(y, 32), Bit(y, 16), Bit(y, 8), Bit(y, 4), Bit(y, 2))
         /\ Bit(mixed(y), 64) <=>
              Odd5(Bit(y, 64), Bit(y, 32), Bit(y, 16), Bit(y, 8), Bit(y, 4))
         /\ Bit(mixed(y), 128) <=>
              Odd5(Bit(y, 128), Bit(y, 64), Bit(y, 32), Bit(y, 16), Bit(y, 8))
<1> DEFINE y1 == turn(y)
           y2 == turn(y1)
           y3 == turn(y2)
           y4 == turn(y3)
           x2 == Xor(y, y1)
           x3 == Xor(x2, y2)
           x4 == Xor(x3, y3)
<1>1. y1 \in Byte /\ y2 \in Byte /\ y3 \in Byte /\ y4 \in Byte
  BY TurnBits
<1>2. x2 \in Byte /\ x3 \in Byte /\ x4 \in Byte /\ Xor(x4, y4) \in Byte
  BY <1>1, XorByte
<1>3. mixed(y) = Xor(x4, y4)
  BY DEF mixed, Xor
<1> HIDE DEF x2, x3, x4
<1>4. ASSUME NEW w \in Weights
      PROVE  Bit(mixed(y), w)
               <=> Odd5(Bit(y, w), Bit(y1, w), Bit(y2, w), Bit(y3, w), Bit(y4, w))
  <2> HIDE DEF y1, y2, y3, y4
  <2>1. Bit(x2, w) <=> (Bit(y, w) <=> ~ Bit(y1, w))
    BY <1>1, XorBit DEF x2
  <2>2. Bit(x3, w) <=> (Bit(x2, w) <=> ~ Bit(y2, w))
    BY <1>1, <1>2, XorBit DEF x3
  <2>3. Bit(x4, w) <=> (Bit(x3, w) <=> ~ Bit(y3, w))
    BY <1>1, <1>2, XorBit DEF x4
  <2>4. Bit(mixed(y), w) <=> (Bit(x4, w) <=> ~ Bit(y4, w))
    BY <1>1, <1>2, <1>3, XorBit
  <2> QED
    BY <2>1, <2>2, <2>3, <2>4 DEF Odd5
<1>5. Bit(mixed(y), 1) <=>
        Odd5(Bit(y, 1), Bit(y, 128), Bit(y, 64), Bit(y, 32), Bit(y, 16))
  <2>1. /\ Bit(y1, 1) <=> Bit(y, 128)
        /\ Bit(y2, 1) <=> Bit(y, 64)
        /\ Bit(y3, 1) <=> Bit(y, 32)
        /\ Bit(y4, 1) <=> Bit(y, 16)
    BY TurnBits, TurnsBits
  <2>2. Bit(mixed(y), 1)
          <=> Odd5(Bit(y, 1), Bit(y1, 1), Bit(y2, 1), Bit(y3, 1), Bit(y4, 1))
    BY <1>4 DEF Weights
  <2> HIDE DEF y1, y2, y3, y4
  <2> QED
    BY <2>1, <2>2 DEF Odd5
<1>6. Bit(mixed(y), 2) <=>
        Odd5(Bit(y, 2), Bit(y, 1), Bit(y, 128), Bit(y, 64), Bit(y, 32))
  <2>1. /\ Bit(y1, 2) <=> Bit(y, 1)
        /\ Bit(y2, 2) <=> Bit(y, 128)
        /\ Bit(y3, 2) <=> Bit(y, 64)
        /\ Bit(y4, 2) <=> Bit(y, 32)
    BY TurnBits, TurnsBits
  <2>2. Bit(mixed(y), 2)
          <=> Odd5(Bit(y, 2), Bit(y1, 2), Bit(y2, 2), Bit(y3, 2), Bit(y4, 2))
    BY <1>4 DEF Weights
  <2> HIDE DEF y1, y2, y3, y4
  <2> QED
    BY <2>1, <2>2 DEF Odd5
<1>7. Bit(mixed(y), 4) <=>
        Odd5(Bit(y, 4), Bit(y, 2), Bit(y, 1), Bit(y, 128), Bit(y, 64))
  <2>1. /\ Bit(y1, 4) <=> Bit(y, 2)
        /\ Bit(y2, 4) <=> Bit(y, 1)
        /\ Bit(y3, 4) <=> Bit(y, 128)
        /\ Bit(y4, 4) <=> Bit(y, 64)
    BY TurnBits, TurnsBits
  <2>2. Bit(mixed(y), 4)
          <=> Odd5(Bit(y, 4), Bit(y1, 4), Bit(y2, 4), Bit(y3, 4), Bit(y4, 4))
    BY <1>4 DEF Weights
  <2> HIDE DEF y1, y2, y3, y4
  <2> QED
    BY <2>1, <2>2 DEF Odd5
<1>8. Bit(mixed(y), 8) <=>
        Odd5(Bit(y, 8), Bit(y, 4), Bit(y, 2), Bit(y, 1), Bit(y, 128))
  <2>1. /\ Bit(y1, 8) <=> Bit(y, 4)
        /\ Bit(y2, 8) <=> Bit(y, 2)
        /\ Bit(y3, 8) <=> Bit(y, 1)
        /\ Bit(y4, 8) <=> Bit(y, 128)
    BY TurnBits, TurnsBits
  <2>2. Bit(mixed(y), 8)
          <=> Odd5(Bit(y, 8), Bit(y1, 8), Bit(y2, 8), Bit(y3, 8), Bit(y4, 8))
    BY <1>4 DEF Weights
  <2> HIDE DEF y1, y2, y3, y4
  <2> QED
    BY <2>1, <2>2 DEF Odd5
<1>9. Bit(mixed(y), 16) <=>
        Odd5(Bit(y, 16), Bit(y, 8), Bit(y, 4), Bit(y, 2), Bit(y, 1))
  <2>1. /\ Bit(y1, 16) <=> Bit(y, 8)
        /\ Bit(y2, 16) <=> Bit(y, 4)
        /\ Bit(y3, 16) <=> Bit(y, 2)
        /\ Bit(y4, 16) <=> Bit(y, 1)
    BY TurnBits, TurnsBits
  <2>2. Bit(mixed(y), 16)
          <=> Odd5(Bit(y, 16), Bit(y1, 16), Bit(y2, 16), Bit(y3, 16), Bit(y4, 16))
    BY <1>4 DEF Weights
  <2> HIDE DEF y1, y2, y3, y4
  <2> QED
    BY <2>1, <2>2 DEF Odd5
<1>10. Bit(mixed(y), 32) <=>
        Odd5(Bit(y, 32), Bit(y, 16), Bit(y, 8), Bit(y, 4), Bit(y, 2))
  <2>1. /\ Bit(y1, 32) <=> Bit(y, 16)
        /\ Bit(y2, 32) <=> Bit(y, 8)
        /\ Bit(y3, 32) <=> Bit(y, 4)
        /\ Bit(y4, 32) <=> Bit(y, 2)
    BY TurnBits, TurnsBits
  <2>2. Bit(mixed(y), 32)
          <=> Odd5(Bit(y, 32), Bit(y1, 32), Bit(y2, 32), Bit(y3, 32), Bit(y4, 32))
    BY <1>4 DEF Weights
  <2> HIDE DEF y1, y2, y3, y4
  <2> QED
    BY <2>1, <2>2 DEF Odd5
<1>11. Bit(mixed(y), 64) <=>
        Odd5(Bit(y, 64), Bit(y, 32), Bit(y, 16), Bit(y, 8), Bit(y, 4))
  <2>1. /\ Bit(y1, 64) <=> Bit(y, 32)
        /\ Bit(y2, 64) <=> Bit(y, 16)
        /\ Bit(y3, 64) <=> Bit(y, 8)
        /\ Bit(y4, 64) <=> Bit(y, 4)
    BY TurnBits, TurnsBits
  <2>2. Bit(mixed(y), 64)
          <=> Odd5(Bit(y, 64), Bit(y1, 64), Bit(y2, 64), Bit(y3, 64), Bit(y4, 64))
    BY <1>4 DEF Weights
  <2> HIDE DEF y1, y2, y3, y4
  <2> QED
    BY <2>1, <2>2 DEF Odd5
<1>12. Bit(mixed(y), 128) <=>
        Odd5(Bit(y, 128), Bit(y, 64), Bit(y, 32), Bit(y, 16), Bit(y, 8))
  <2>1. /\ Bit(y1, 128) <=> Bit(y, 64)
        /\ Bit(y2, 128) <=> Bit(y, 32)
        /\ Bit(y3, 128) <=> Bit(y, 16)
        /\ Bit(y4, 128) <=> Bit(y, 8)
    BY TurnBits, TurnsBits
  <2>2. Bit(mixed(y), 128)
          <=> Odd5(Bit(y, 128), Bit(y1, 128), Bit(y2, 128), Bit(y3, 128), Bit(y4, 128))
    BY <1>4 DEF Weights
  <2> HIDE DEF y1, y2, y3, y4
  <2> QED
    BY <2>1, <2>2 DEF Odd5
<1> QED
  BY <1>2, <1>3, <1>5, <1>6, <1>7, <1>8, <1>9, <1>10, <1>11, <1>12

\* What undoes it.
unmix(z) ==
  LET y1 == turn(z)
      y3 == turn(turn(y1))
      y6 == turn(turn(turn(y3)))
  IN  Xor(Xor(y1, y3), y6)

LEMMA UnmixBits ==
  ASSUME NEW y \in Byte
  PROVE  /\ unmix(y) \in Byte
         /\ Bit(unmix(y), 1) <=> Odd3(Bit(y, 128), Bit(y, 32), Bit(y, 4))
         /\ Bit(unmix(y), 2) <=> Odd3(Bit(y, 1), Bit(y, 64), Bit(y, 8))
         /\ Bit(unmix(y), 4) <=> Odd3(Bit(y, 2), Bit(y, 128), Bit(y, 16))
         /\ Bit(unmix(y), 8) <=> Odd3(Bit(y, 4), Bit(y, 1), Bit(y, 32))
         /\ Bit(unmix(y), 16) <=> Odd3(Bit(y, 8), Bit(y, 2), Bit(y, 64))
         /\ Bit(unmix(y), 32) <=> Odd3(Bit(y, 16), Bit(y, 4), Bit(y, 128))
         /\ Bit(unmix(y), 64) <=> Odd3(Bit(y, 32), Bit(y, 8), Bit(y, 1))
         /\ Bit(unmix(y), 128) <=> Odd3(Bit(y, 64), Bit(y, 16), Bit(y, 2))
<1> DEFINE y1 == turn(y)
           y3 == turn(turn(y1))
           y6 == turn(turn(turn(y3)))
           x2 == Xor(y1, y3)
<1>1. y1 \in Byte /\ y3 \in Byte /\ y6 \in Byte
  BY TurnBits
<1>2. x2 \in Byte /\ Xor(x2, y6) \in Byte /\ unmix(y) = Xor(x2, y6)
  BY <1>1, XorByte DEF unmix
<1>3. ASSUME NEW w \in Weights
      PROVE  Bit(unmix(y), w) <=> Odd3(Bit(y1, w), Bit(y3, w), Bit(y6, w))
  <2> HIDE DEF y1, y3, y6
  <2>1. Bit(x2, w) <=> (Bit(y1, w) <=> ~ Bit(y3, w))
    BY <1>1, XorBit
  <2>2. Bit(unmix(y), w) <=> (Bit(x2, w) <=> ~ Bit(y6, w))
    <3> HIDE DEF x2
    <3> QED BY <1>1, <1>2, XorBit
  <2> QED
    BY <2>1, <2>2 DEF Odd3
<1>4. Bit(unmix(y), 1) <=> Odd3(Bit(y, 128), Bit(y, 32), Bit(y, 4))
  <2>1. /\ Bit(y1, 1) <=> Bit(y, 128)
        /\ Bit(y3, 1) <=> Bit(y, 32)
        /\ Bit(y6, 1) <=> Bit(y, 4)
    BY TurnBits, TurnsBits
  <2>2. Bit(unmix(y), 1) <=> Odd3(Bit(y1, 1), Bit(y3, 1), Bit(y6, 1))
    BY <1>3 DEF Weights
  <2> HIDE DEF y1, y3, y6
  <2> QED
    BY <2>1, <2>2 DEF Odd3
<1>5. Bit(unmix(y), 2) <=> Odd3(Bit(y, 1), Bit(y, 64), Bit(y, 8))
  <2>1. /\ Bit(y1, 2) <=> Bit(y, 1)
        /\ Bit(y3, 2) <=> Bit(y, 64)
        /\ Bit(y6, 2) <=> Bit(y, 8)
    BY TurnBits, TurnsBits
  <2>2. Bit(unmix(y), 2) <=> Odd3(Bit(y1, 2), Bit(y3, 2), Bit(y6, 2))
    BY <1>3 DEF Weights
  <2> HIDE DEF y1, y3, y6
  <2> QED
    BY <2>1, <2>2 DEF Odd3
<1>6. Bit(unmix(y), 4) <=> Odd3(Bit(y, 2), Bit(y, 128), Bit(y, 16))
  <2>1. /\ Bit(y1, 4) <=> Bit(y, 2)
        /\ Bit(y3, 4) <=> Bit(y, 128)
        /\ Bit(y6, 4) <=> Bit(y, 16)
    BY TurnBits, TurnsBits
  <2>2. Bit(unmix(y), 4) <=> Odd3(Bit(y1, 4), Bit(y3, 4), Bit(y6, 4))
    BY <1>3 DEF Weights
  <2> HIDE DEF y1, y3, y6
  <2> QED
    BY <2>1, <2>2 DEF Odd3
<1>7. Bit(unmix(y), 8) <=> Odd3(Bit(y, 4), Bit(y, 1), Bit(y, 32))
  <2>1. /\ Bit(y1, 8) <=> Bit(y, 4)
        /\ Bit(y3, 8) <=> Bit(y, 1)
        /\ Bit(y6, 8) <=> Bit(y, 32)
    BY TurnBits, TurnsBits
  <2>2. Bit(unmix(y), 8) <=> Odd3(Bit(y1, 8), Bit(y3, 8), Bit(y6, 8))
    BY <1>3 DEF Weights
  <2> HIDE DEF y1, y3, y6
  <2> QED
    BY <2>1, <2>2 DEF Odd3
<1>8. Bit(unmix(y), 16) <=> Odd3(Bit(y, 8), Bit(y, 2), Bit(y, 64))
  <2>1. /\ Bit(y1, 16) <=> Bit(y, 8)
        /\ Bit(y3, 16) <=> Bit(y, 2)
        /\ Bit(y6, 16) <=> Bit(y, 64)
    BY TurnBits, TurnsBits
  <2>2. Bit(unmix(y), 16) <=> Odd3(Bit(y1, 16), Bit(y3, 16), Bit(y6, 16))
    BY <1>3 DEF Weights
  <2> HIDE DEF y1, y3, y6
  <2> QED
    BY <2>1, <2>2 DEF Odd3
<1>9. Bit(unmix(y), 32) <=> Odd3(Bit(y, 16), Bit(y, 4), Bit(y, 128))
  <2>1. /\ Bit(y1, 32) <=> Bit(y, 16)
        /\ Bit(y3, 32) <=> Bit(y, 4)
        /\ Bit(y6, 32) <=> Bit(y, 128)
    BY TurnBits, TurnsBits
  <2>2. Bit(unmix(y), 32) <=> Odd3(Bit(y1, 32), Bit(y3, 32), Bit(y6, 32))
    BY <1>3 DEF Weights
  <2> HIDE DEF y1, y3, y6
  <2> QED
    BY <2>1, <2>2 DEF Odd3
<1>10. Bit(unmix(y), 64) <=> Odd3(Bit(y, 32), Bit(y, 8), Bit(y, 1))
  <2>1. /\ Bit(y1, 64) <=> Bit(y, 32)
        /\ Bit(y3, 64) <=> Bit(y, 8)
        /\ Bit(y6, 64) <=> Bit(y, 1)
    BY TurnBits, TurnsBits
  <2>2. Bit(unmix(y), 64) <=> Odd3(Bit(y1, 64), Bit(y3, 64), Bit(y6, 64))
    BY <1>3 DEF Weights
  <2> HIDE DEF y1, y3, y6
  <2> QED
    BY <2>1, <2>2 DEF Odd3
<1>11. Bit(unmix(y), 128) <=> Odd3(Bit(y, 64), Bit(y, 16), Bit(y, 2))
  <2>1. /\ Bit(y1, 128) <=> Bit(y, 64)
        /\ Bit(y3, 128) <=> Bit(y, 16)
        /\ Bit(y6, 128) <=> Bit(y, 2)
    BY TurnBits, TurnsBits
  <2>2. Bit(unmix(y), 128) <=> Odd3(Bit(y1, 128), Bit(y3, 128), Bit(y6, 128))
    BY <1>3 DEF Weights
  <2> HIDE DEF y1, y3, y6
  <2> QED
    BY <2>1, <2>2 DEF Odd3
<1> QED
  BY <1>2, <1>4, <1>5, <1>6, <1>7, <1>8, <1>9, <1>10, <1>11

LEMMA MixedUnmix ==
  ASSUME NEW y \in Byte
  PROVE  mixed(unmix(y)) = y /\ unmix(mixed(y)) = y
<1>1. unmix(y) \in Byte /\ mixed(y) \in Byte
  BY MixedBits, UnmixBits
<1>2. \A w \in Weights : Bit(mixed(unmix(y)), w) <=> Bit(y, w)
  BY <1>1, MixedBits, UnmixBits DEF Weights, Odd3, Odd5
<1>3. \A w \in Weights : Bit(unmix(mixed(y)), w) <=> Bit(y, w)
  BY <1>1, MixedBits, UnmixBits DEF Weights, Odd3, Odd5
<1> QED
  BY <1>1, <1>2, <1>3, SameByte, MixedBits, UnmixBits

LEMMA MixedZero == mixed(0) = 0
<1>1. turn(0) = 0
  BY DEF turn
<1>2. XOR[0][0] = 0
  BY XorLaws, ZeroByte DEF Xor
<1> QED
  BY <1>1, <1>2 DEF mixed

LEMMA FSbIs ==
  ASSUME NEW x \in Byte
  PROVE  FSb[x] = Xor(mixed(F!Inverse[x]), 99) /\ FSb[x] \in Byte
<1>1. 99 \in Byte
  BY DEF Byte
<1>2. CASE x = 0
  <2>1. Xor(0, 99) = 99
    BY <1>1, XorLaws
  <2> QED
    BY <1>1, <1>2, <2>1, MixedZero, InverseZero DEF FSb
<1>3. CASE x # 0
  <2>1. x \in 1..255
    BY <1>3 DEF Byte
  <2>2. log[x] \in 0..255 /\ pow[log[x]] = x
    <3>1. log[x] \in 1..255 /\ pow[log[x]] = x
      BY <2>1, LogIs
    <3>2. \A i \in 1..255 : i \in 0..255
      OBVIOUS
    <3> QED
      BY <3>1, <3>2
  <2>3. F!Inverse[x] = pow[255 - log[x]]
    BY <2>2, InversePow
  <2>4. FSb[x] = Xor(mixed(pow[255 - log[x]]), 99)
    BY <1>3 DEF FSb, Xor
  <2> QED
    BY <1>1, <2>3, <2>4, InverseTwice, MixedBits, XorByte
<1> QED
  BY <1>2, <1>3

LEMMA Parity ==
  ASSUME NEW m \in Nat, NEW n \in Nat
  PROVE  (m + n) % 2 = 1 <=> (m % 2 = 1 <=> ~ (n % 2 = 1))
<1>1. (m % 2) \in {0, 1} /\ (n % 2) \in {0, 1}
  OBVIOUS
<1>2. (m + n) % 2 = ((m % 2) + (n % 2)) % 2
  OBVIOUS
<1> QED
  BY <1>1, <1>2

SumOf(b, i) ==
  (b \div 2 ^ (i % 8)) + (b \div 2 ^ ((i + 4) % 8)) + (b \div 2 ^ ((i + 5) % 8))
    + (b \div 2 ^ ((i + 6) % 8)) + (b \div 2 ^ ((i + 7) % 8)) + (99 \div 2 ^ i)

SumAt(b, u, v, w, x, y, z) ==
  (b \div u) + (b \div v) + (b \div w) + (b \div x) + (b \div y) + (99 \div z)

LEMMA WeightsAre ==
  /\ 1 \in Weights /\ 2 \in Weights /\ 4 \in Weights /\ 8 \in Weights
  /\ 16 \in Weights /\ 32 \in Weights /\ 64 \in Weights /\ 128 \in Weights
  BY DEF Weights

\* The oddness of the sum is that of its digits.
OddAt(b, u, v, w, x, y, z) ==
  /\ SumAt(b, u, v, w, x, y, z) % 2 \in {0, 1}
  /\ SumAt(b, u, v, w, x, y, z) % 2 = 1 <=>
       (Odd5(Bit(b, u), Bit(b, v), Bit(b, w), Bit(b, x), Bit(b, y)) <=> ~ Bit(99, z))

LEMMA SumOddness ==
  ASSUME NEW b \in Byte, NEW u \in Weights, NEW v \in Weights, NEW w \in Weights,
         NEW x \in Weights, NEW y \in Weights, NEW z \in Weights
  PROVE  OddAt(b, u, v, w, x, y, z)
<1> DEFINE n1 == b \div u
           n2 == b \div v
           n3 == b \div w
           n4 == b \div x
           n5 == b \div y
           n6 == 99 \div z
<1>1. n1 \in Nat /\ n2 \in Nat /\ n3 \in Nat /\ n4 \in Nat /\ n5 \in Nat /\ n6 \in Nat
  <2>1. \A a \in Nat : \A k \in Weights : a \div k \in Nat
    BY DEF Weights
  <2>2. b \in Nat /\ 99 \in Nat
    BY DEF Byte
  <2> QED
    BY <2>1, <2>2
<1>2. /\ Bit(b, u) <=> n1 % 2 = 1
      /\ Bit(b, v) <=> n2 % 2 = 1
      /\ Bit(b, w) <=> n3 % 2 = 1
      /\ Bit(b, x) <=> n4 % 2 = 1
      /\ Bit(b, y) <=> n5 % 2 = 1
      /\ Bit(99, z) <=> n6 % 2 = 1
  BY DEF Bit, Digit
<1> HIDE DEF n1, n2, n3, n4, n5, n6
<1>3. /\ n1 + n2 \in Nat /\ n1 + n2 + n3 \in Nat /\ n1 + n2 + n3 + n4 \in Nat
      /\ n1 + n2 + n3 + n4 + n5 \in Nat /\ n1 + n2 + n3 + n4 + n5 + n6 \in Nat
  BY <1>1
<1>4. (n1 + n2) % 2 = 1 <=> (n1 % 2 = 1 <=> ~ (n2 % 2 = 1))
  BY <1>1, Parity
<1>5. (n1 + n2 + n3) % 2 = 1 <=> ((n1 + n2) % 2 = 1 <=> ~ (n3 % 2 = 1))
  BY <1>1, <1>3, Parity
<1>6. (n1 + n2 + n3 + n4) % 2 = 1 <=> ((n1 + n2 + n3) % 2 = 1 <=> ~ (n4 % 2 = 1))
  BY <1>1, <1>3, Parity
<1>7. (n1 + n2 + n3 + n4 + n5) % 2 = 1
        <=> ((n1 + n2 + n3 + n4) % 2 = 1 <=> ~ (n5 % 2 = 1))
  BY <1>1, <1>3, Parity
<1>8. (n1 + n2 + n3 + n4 + n5 + n6) % 2 = 1
        <=> ((n1 + n2 + n3 + n4 + n5) % 2 = 1 <=> ~ (n6 % 2 = 1))
  BY <1>1, <1>3, Parity
<1>9. (n1 + n2 + n3 + n4 + n5 + n6) % 2 \in {0, 1}
  BY <1>3
<1>10. (n1 + n2 + n3 + n4 + n5 + n6) % 2 = 1 <=>
         (Odd5(Bit(b, u), Bit(b, v), Bit(b, w), Bit(b, x), Bit(b, y)) <=> ~ Bit(99, z))
  BY <1>2, <1>4, <1>5, <1>6, <1>7, <1>8 DEF Odd5
<1> QED
  BY <1>9, <1>10 DEF OddAt, SumAt, n1, n2, n3, n4, n5, n6

\* The sums of FIPS 197 have the digits the turns give.
LEMMA SumsAreTurns ==
  ASSUME NEW b \in Byte
  PROVE
         /\ SumOf(b, 0) % 2 \in {0, 1}
         /\ SumOf(b, 0) % 2 = 1 <=> Bit(Xor(mixed(b), 99), 1)
         /\ SumOf(b, 1) % 2 \in {0, 1}
         /\ SumOf(b, 1) % 2 = 1 <=> Bit(Xor(mixed(b), 99), 2)
         /\ SumOf(b, 2) % 2 \in {0, 1}
         /\ SumOf(b, 2) % 2 = 1 <=> Bit(Xor(mixed(b), 99), 4)
         /\ SumOf(b, 3) % 2 \in {0, 1}
         /\ SumOf(b, 3) % 2 = 1 <=> Bit(Xor(mixed(b), 99), 8)
         /\ SumOf(b, 4) % 2 \in {0, 1}
         /\ SumOf(b, 4) % 2 = 1 <=> Bit(Xor(mixed(b), 99), 16)
         /\ SumOf(b, 5) % 2 \in {0, 1}
         /\ SumOf(b, 5) % 2 = 1 <=> Bit(Xor(mixed(b), 99), 32)
         /\ SumOf(b, 6) % 2 \in {0, 1}
         /\ SumOf(b, 6) % 2 = 1 <=> Bit(Xor(mixed(b), 99), 64)
         /\ SumOf(b, 7) % 2 \in {0, 1}
         /\ SumOf(b, 7) % 2 = 1 <=> Bit(Xor(mixed(b), 99), 128)
<1>1. SumOf(b, 0) % 2 \in {0, 1} /\ (SumOf(b, 0) % 2 = 1 <=> Bit(Xor(mixed(b), 99), 1))
  <2>0. OddAt(b, 1, 16, 32, 64, 128, 1)
    BY SumOddness, WeightsAre
  <2>1. SumOf(b, 0) = SumAt(b, 1, 16, 32, 64, 128, 1)
    BY DEF SumOf, SumAt
  <2>2. /\ SumOf(b, 0) % 2 \in {0, 1}
        /\ SumOf(b, 0) % 2 = 1 <=>
             (Odd5(Bit(b, 1), Bit(b, 16), Bit(b, 32), Bit(b, 64), Bit(b, 128))
               <=> ~ Bit(99, 1))
    BY <2>0, <2>1 DEF OddAt
  <2>3. Bit(Xor(mixed(b), 99), 1) <=> (Bit(mixed(b), 1) <=> ~ Bit(99, 1))
    <3>1. 99 \in Byte
      BY DEF Byte
    <3> QED
      BY <3>1, MixedBits, XorBit DEF Weights
  <2> QED
    BY <2>2, <2>3, MixedBits DEF Odd5
<1>2. SumOf(b, 1) % 2 \in {0, 1} /\ (SumOf(b, 1) % 2 = 1 <=> Bit(Xor(mixed(b), 99), 2))
  <2>0. OddAt(b, 2, 32, 64, 128, 1, 2)
    BY SumOddness, WeightsAre
  <2>1. SumOf(b, 1) = SumAt(b, 2, 32, 64, 128, 1, 2)
    BY DEF SumOf, SumAt
  <2>2. /\ SumOf(b, 1) % 2 \in {0, 1}
        /\ SumOf(b, 1) % 2 = 1 <=>
             (Odd5(Bit(b, 2), Bit(b, 32), Bit(b, 64), Bit(b, 128), Bit(b, 1))
               <=> ~ Bit(99, 2))
    BY <2>0, <2>1 DEF OddAt
  <2>3. Bit(Xor(mixed(b), 99), 2) <=> (Bit(mixed(b), 2) <=> ~ Bit(99, 2))
    <3>1. 99 \in Byte
      BY DEF Byte
    <3> QED
      BY <3>1, MixedBits, XorBit DEF Weights
  <2> QED
    BY <2>2, <2>3, MixedBits DEF Odd5
<1>3. SumOf(b, 2) % 2 \in {0, 1} /\ (SumOf(b, 2) % 2 = 1 <=> Bit(Xor(mixed(b), 99), 4))
  <2>0. OddAt(b, 4, 64, 128, 1, 2, 4)
    BY SumOddness, WeightsAre
  <2>1. SumOf(b, 2) = SumAt(b, 4, 64, 128, 1, 2, 4)
    BY DEF SumOf, SumAt
  <2>2. /\ SumOf(b, 2) % 2 \in {0, 1}
        /\ SumOf(b, 2) % 2 = 1 <=>
             (Odd5(Bit(b, 4), Bit(b, 64), Bit(b, 128), Bit(b, 1), Bit(b, 2))
               <=> ~ Bit(99, 4))
    BY <2>0, <2>1 DEF OddAt
  <2>3. Bit(Xor(mixed(b), 99), 4) <=> (Bit(mixed(b), 4) <=> ~ Bit(99, 4))
    <3>1. 99 \in Byte
      BY DEF Byte
    <3> QED
      BY <3>1, MixedBits, XorBit DEF Weights
  <2> QED
    BY <2>2, <2>3, MixedBits DEF Odd5
<1>4. SumOf(b, 3) % 2 \in {0, 1} /\ (SumOf(b, 3) % 2 = 1 <=> Bit(Xor(mixed(b), 99), 8))
  <2>0. OddAt(b, 8, 128, 1, 2, 4, 8)
    BY SumOddness, WeightsAre
  <2>1. SumOf(b, 3) = SumAt(b, 8, 128, 1, 2, 4, 8)
    BY DEF SumOf, SumAt
  <2>2. /\ SumOf(b, 3) % 2 \in {0, 1}
        /\ SumOf(b, 3) % 2 = 1 <=>
             (Odd5(Bit(b, 8), Bit(b, 128), Bit(b, 1), Bit(b, 2), Bit(b, 4))
               <=> ~ Bit(99, 8))
    BY <2>0, <2>1 DEF OddAt
  <2>3. Bit(Xor(mixed(b), 99), 8) <=> (Bit(mixed(b), 8) <=> ~ Bit(99, 8))
    <3>1. 99 \in Byte
      BY DEF Byte
    <3> QED
      BY <3>1, MixedBits, XorBit DEF Weights
  <2> QED
    BY <2>2, <2>3, MixedBits DEF Odd5
<1>5. SumOf(b, 4) % 2 \in {0, 1} /\ (SumOf(b, 4) % 2 = 1 <=> Bit(Xor(mixed(b), 99), 16))
  <2>0. OddAt(b, 16, 1, 2, 4, 8, 16)
    BY SumOddness, WeightsAre
  <2>1. SumOf(b, 4) = SumAt(b, 16, 1, 2, 4, 8, 16)
    BY DEF SumOf, SumAt
  <2>2. /\ SumOf(b, 4) % 2 \in {0, 1}
        /\ SumOf(b, 4) % 2 = 1 <=>
             (Odd5(Bit(b, 16), Bit(b, 1), Bit(b, 2), Bit(b, 4), Bit(b, 8))
               <=> ~ Bit(99, 16))
    BY <2>0, <2>1 DEF OddAt
  <2>3. Bit(Xor(mixed(b), 99), 16) <=> (Bit(mixed(b), 16) <=> ~ Bit(99, 16))
    <3>1. 99 \in Byte
      BY DEF Byte
    <3> QED
      BY <3>1, MixedBits, XorBit DEF Weights
  <2> QED
    BY <2>2, <2>3, MixedBits DEF Odd5
<1>6. SumOf(b, 5) % 2 \in {0, 1} /\ (SumOf(b, 5) % 2 = 1 <=> Bit(Xor(mixed(b), 99), 32))
  <2>0. OddAt(b, 32, 2, 4, 8, 16, 32)
    BY SumOddness, WeightsAre
  <2>1. SumOf(b, 5) = SumAt(b, 32, 2, 4, 8, 16, 32)
    BY DEF SumOf, SumAt
  <2>2. /\ SumOf(b, 5) % 2 \in {0, 1}
        /\ SumOf(b, 5) % 2 = 1 <=>
             (Odd5(Bit(b, 32), Bit(b, 2), Bit(b, 4), Bit(b, 8), Bit(b, 16))
               <=> ~ Bit(99, 32))
    BY <2>0, <2>1 DEF OddAt
  <2>3. Bit(Xor(mixed(b), 99), 32) <=> (Bit(mixed(b), 32) <=> ~ Bit(99, 32))
    <3>1. 99 \in Byte
      BY DEF Byte
    <3> QED
      BY <3>1, MixedBits, XorBit DEF Weights
  <2> QED
    BY <2>2, <2>3, MixedBits DEF Odd5
<1>7. SumOf(b, 6) % 2 \in {0, 1} /\ (SumOf(b, 6) % 2 = 1 <=> Bit(Xor(mixed(b), 99), 64))
  <2>0. OddAt(b, 64, 4, 8, 16, 32, 64)
    BY SumOddness, WeightsAre
  <2>1. SumOf(b, 6) = SumAt(b, 64, 4, 8, 16, 32, 64)
    BY DEF SumOf, SumAt
  <2>2. /\ SumOf(b, 6) % 2 \in {0, 1}
        /\ SumOf(b, 6) % 2 = 1 <=>
             (Odd5(Bit(b, 64), Bit(b, 4), Bit(b, 8), Bit(b, 16), Bit(b, 32))
               <=> ~ Bit(99, 64))
    BY <2>0, <2>1 DEF OddAt
  <2>3. Bit(Xor(mixed(b), 99), 64) <=> (Bit(mixed(b), 64) <=> ~ Bit(99, 64))
    <3>1. 99 \in Byte
      BY DEF Byte
    <3> QED
      BY <3>1, MixedBits, XorBit DEF Weights
  <2> QED
    BY <2>2, <2>3, MixedBits DEF Odd5
<1>8. SumOf(b, 7) % 2 \in {0, 1} /\ (SumOf(b, 7) % 2 = 1 <=> Bit(Xor(mixed(b), 99), 128))
  <2>0. OddAt(b, 128, 8, 16, 32, 64, 128)
    BY SumOddness, WeightsAre
  <2>1. SumOf(b, 7) = SumAt(b, 128, 8, 16, 32, 64, 128)
    BY DEF SumOf, SumAt
  <2>2. /\ SumOf(b, 7) % 2 \in {0, 1}
        /\ SumOf(b, 7) % 2 = 1 <=>
             (Odd5(Bit(b, 128), Bit(b, 8), Bit(b, 16), Bit(b, 32), Bit(b, 64))
               <=> ~ Bit(99, 128))
    BY <2>0, <2>1 DEF OddAt
  <2>3. Bit(Xor(mixed(b), 99), 128) <=> (Bit(mixed(b), 128) <=> ~ Bit(99, 128))
    <3>1. 99 \in Byte
      BY DEF Byte
    <3> QED
      BY <3>1, MixedBits, XorBit DEF Weights
  <2> QED
    BY <2>2, <2>3, MixedBits DEF Odd5
<1> QED
  BY <1>1, <1>2, <1>3, <1>4, <1>5, <1>6, <1>7, <1>8

\* The forward S-box that aes_init_keygen_tables computes from the powers of 3
\* is that of FIPS 197, an inverse and an affine map.
THEOREM SBoxIs ==
  ASSUME NEW x \in Byte
  PROVE  F!SBox[x] = FSb[x]
<1> DEFINE b == F!Inverse[x]
           s(i) == SumOf(b, i) % 2
           v == Xor(mixed(b), 99)
<1>1. b \in Byte /\ v \in Byte /\ FSb[x] = v
  BY FSbIs, InverseTwice
<1>2. F!SBox[x] = s(0) + 2 * s(1) + 4 * s(2) + 8 * s(3) + 16 * s(4) + 32 * s(5)
                    + 64 * s(6) + 128 * s(7)
  BY SameXor DEF F!SBox, SumOf
<1> HIDE DEF b
<1>3. /\ s(0) = Digit(v, 1) /\ s(1) = Digit(v, 2) /\ s(2) = Digit(v, 4)
      /\ s(3) = Digit(v, 8) /\ s(4) = Digit(v, 16) /\ s(5) = Digit(v, 32)
      /\ s(6) = Digit(v, 64) /\ s(7) = Digit(v, 128)
  <2>1. /\ Digit(v, 1) \in {0, 1} /\ Digit(v, 2) \in {0, 1} /\ Digit(v, 4) \in {0, 1}
        /\ Digit(v, 8) \in {0, 1} /\ Digit(v, 16) \in {0, 1} /\ Digit(v, 32) \in {0, 1}
        /\ Digit(v, 64) \in {0, 1} /\ Digit(v, 128) \in {0, 1}
    BY <1>1, Digits
  <2> QED
    BY <1>1, <2>1, SumsAreTurns DEF Bit
<1> HIDE DEF s, v
<1> QED
  BY <1>1, <1>2, <1>3, Digits

\* The reverse S-box of aes_init_keygen_tables undoes the forward one.
THEOREM RSbIs ==
  ASSUME NEW x \in Byte
  PROVE  RSb[x] \in Byte /\ FSb[RSb[x]] = x /\ RSb[FSb[x]] = x
<1>1. 99 \in Byte
  BY DEF Byte
<1>2. ASSUME NEW y \in Byte PROVE \E i \in Byte : FSb[i] = y
  <2> DEFINE b == unmix(Xor(y, 99))
             i == F!Inverse[b]
  <2>1. Xor(y, 99) \in Byte /\ b \in Byte /\ mixed(b) = Xor(y, 99)
    BY <1>1, XorByte, UnmixBits, MixedUnmix
  <2>2. i \in Byte /\ F!Inverse[i] = b
    BY <2>1, InverseTwice
  <2>3. FSb[i] = Xor(Xor(y, 99), 99)
    BY <2>1, <2>2, FSbIs
  <2>4. FSb[i] = y
    BY <1>1, <2>3, XorLaws
  <2> QED
    BY <2>2, <2>4
<1>3. \A y \in Byte : RSb[y] \in Byte /\ FSb[RSb[y]] = y
  <2>1. \A y \in Byte : RSb[y] = CHOOSE i \in Byte : FSb[i] = y
    BY DEF RSb
  <2> QED
    BY <1>2, <2>1
<1>4. ASSUME NEW i \in Byte, NEW j \in Byte, FSb[i] = FSb[j] PROVE i = j
  <2> DEFINE a == F!Inverse[i]
             c == F!Inverse[j]
  <2>1. a \in Byte /\ c \in Byte /\ F!Inverse[a] = i /\ F!Inverse[c] = j
    BY InverseTwice
  <2>2. Xor(mixed(a), 99) = Xor(mixed(c), 99)
    BY <1>4, FSbIs
  <2>3. mixed(a) = mixed(c)
    BY <1>1, <2>1, <2>2, MixedBits, XorLaws
  <2>4. a = c
    BY <2>1, <2>3, MixedUnmix
  <2> QED
    BY <2>1, <2>4
<1> QED
  BY <1>3, <1>4, FSbIs

-----------------------------------------------------------------------------

(***************************************************************************)
(* Columns: MixColumns on one word, and its inverse.                       *)
(***************************************************************************)
LEMMA MulIs ==
  ASSUME NEW x \in 1..255, NEW y \in Byte
  PROVE  MUL(x, y) = Times(x, y)
<1>1. x \in Byte /\ x # 0
  BY DEF Byte
<1>2. CASE y = 0
  BY <1>1, <1>2, TimesZero DEF MUL
<1>3. CASE y # 0
  <2>1. y \in 1..255
    BY <1>3 DEF Byte
  <2> DEFINE m == log[x]
             n == log[y]
  <2>2. m \in 1..255 /\ n \in 1..255 /\ pow[m] = x /\ pow[n] = y
    BY <2>1, LogIs
  <2>3. MUL(x, y) = Pw(m + n)
    BY <1>1, <1>3 DEF MUL, Pw
  <2> HIDE DEF m, n
  <2>4. m \in Nat /\ n \in Nat /\ m \in 0..255 /\ n \in 0..255
    BY <2>2
  <2>5. Times(Pw(m), Pw(n)) = Pw(m + n)
    BY <2>4, TimesPw
  <2>6. Pw(m) = x /\ Pw(n) = y
    BY <2>2, <2>4, PwIs
  <2> QED
    BY <2>3, <2>5, <2>6
<1> QED
  BY <1>2, <1>3

Sum4(a, b, c, d) == Xor(Xor(a, b), Xor(c, d))

LEMMA Sum4Laws ==
  ASSUME NEW a \in Byte, NEW b \in Byte, NEW c \in Byte, NEW d \in Byte
  PROVE  /\ Sum4(a, b, c, d) \in Byte
         /\ Sum4(a, b, c, d) = Sum4(d, a, b, c)
         /\ Sum4(a, b, c, d) = Sum4(c, d, a, b)
         /\ Sum4(a, b, c, d) = Sum4(b, c, d, a)
         /\ Twice(Sum4(a, b, c, d)) = Sum4(Twice(a), Twice(b), Twice(c), Twice(d))
         /\ Thrice(Sum4(a, b, c, d)) = Sum4(Thrice(a), Thrice(b), Thrice(c), Thrice(d))
<1>1. Xor(a, b) \in Byte /\ Xor(c, d) \in Byte /\ Xor(b, c) \in Byte /\ Xor(d, a) \in Byte
  BY XorByte
<1>2. Sum4(a, b, c, d) = Sum4(c, d, a, b)
  BY <1>1, XorLaws DEF Sum4
<1>3. ASSUME NEW w \in Byte, NEW x \in Byte, NEW y \in Byte, NEW z \in Byte
      PROVE  Sum4(w, x, y, z) = Sum4(z, w, x, y)
  <2>1. Xor(Xor(w, x), Xor(y, z)) = Xor(Xor(x, w), Xor(y, z))
    BY XorLaws
  <2>2. Xor(Xor(x, w), Xor(y, z)) = Xor(Xor(x, y), Xor(w, z))
    BY XorSwap
  <2>3. Xor(Xor(x, y), Xor(w, z)) = Xor(Xor(w, z), Xor(x, y))
    BY XorLaws, XorByte
  <2>4. Xor(w, z) = Xor(z, w)
    BY XorLaws
  <2> QED
    BY <2>1, <2>2, <2>3, <2>4 DEF Sum4
<1>4. Sum4(a, b, c, d) = Sum4(d, a, b, c) /\ Sum4(b, c, d, a) = Sum4(a, b, c, d)
  BY <1>3
<1>5. Twice(Sum4(a, b, c, d)) = Sum4(Twice(a), Twice(b), Twice(c), Twice(d))
  BY <1>1, TwiceXor DEF Sum4
<1>6. ASSUME NEW x \in Byte, NEW y \in Byte PROVE Thrice(Xor(x, y)) = Xor(Thrice(x), Thrice(y))
  BY TwiceXor, TwiceBits, XorSwap DEF Thrice
<1>7. Thrice(Sum4(a, b, c, d)) = Sum4(Thrice(a), Thrice(b), Thrice(c), Thrice(d))
  BY <1>1, <1>6 DEF Sum4
<1> QED
  BY <1>1, <1>2, <1>4, <1>5, <1>7, XorByte DEF Sum4

Crossed(a1, a2, a3, a4, b1, b2, b3, b4) ==
  Xor(Sum4(a1, a2, a3, a4), Sum4(b1, b2, b3, b4))
    = Sum4(Xor(a1, b1), Xor(a2, b2), Xor(a3, b3), Xor(a4, b4))

LEMMA XorSum4 ==
  ASSUME NEW a1 \in Byte, NEW a2 \in Byte, NEW a3 \in Byte, NEW a4 \in Byte,
         NEW b1 \in Byte, NEW b2 \in Byte, NEW b3 \in Byte, NEW b4 \in Byte
  PROVE  Crossed(a1, a2, a3, a4, b1, b2, b3, b4)
<1> DEFINE p == Xor(a1, a2)
           q == Xor(a3, a4)
           r == Xor(b1, b2)
           s == Xor(b3, b4)
<1>1. p \in Byte /\ q \in Byte /\ r \in Byte /\ s \in Byte
  BY XorByte
<1>2. Xor(p, r) = Xor(Xor(a1, b1), Xor(a2, b2))
  BY XorSwap
<1>3. Xor(q, s) = Xor(Xor(a3, b3), Xor(a4, b4))
  BY XorSwap
<1>4. Xor(Xor(p, q), Xor(r, s)) = Xor(Xor(p, r), Xor(q, s))
  <2> HIDE DEF p, q, r, s
  <2> QED
    BY <1>1, XorSwap
<1> QED
  BY <1>2, <1>3, <1>4 DEF Sum4, Crossed

\* A sum of sixteen by rows and by columns.
Transposed(a1, a2, a3, a4, b1, b2, b3, b4, c1, c2, c3, c4, d1, d2, d3, d4) ==
  Sum4(Sum4(a1, a2, a3, a4), Sum4(b1, b2, b3, b4),
       Sum4(c1, c2, c3, c4), Sum4(d1, d2, d3, d4))
    = Sum4(Sum4(a1, b1, c1, d1), Sum4(a2, b2, c2, d2),
           Sum4(a3, b3, c3, d3), Sum4(a4, b4, c4, d4))

LEMMA Sum4Transposed ==
  ASSUME NEW a1 \in Byte, NEW a2 \in Byte, NEW a3 \in Byte, NEW a4 \in Byte,
         NEW b1 \in Byte, NEW b2 \in Byte, NEW b3 \in Byte, NEW b4 \in Byte,
         NEW c1 \in Byte, NEW c2 \in Byte, NEW c3 \in Byte, NEW c4 \in Byte,
         NEW d1 \in Byte, NEW d2 \in Byte, NEW d3 \in Byte, NEW d4 \in Byte
  PROVE  Transposed(a1, a2, a3, a4, b1, b2, b3, b4,
                    c1, c2, c3, c4, d1, d2, d3, d4)
<1> DEFINE p == Xor(Sum4(a1, a2, a3, a4), Sum4(b1, b2, b3, b4))
           q == Xor(Sum4(c1, c2, c3, c4), Sum4(d1, d2, d3, d4))
           e1 == Xor(a1, b1)
           e2 == Xor(a2, b2)
           e3 == Xor(a3, b3)
           e4 == Xor(a4, b4)
           f1 == Xor(c1, d1)
           f2 == Xor(c2, d2)
           f3 == Xor(c3, d3)
           f4 == Xor(c4, d4)
<1>2. Crossed(a1, a2, a3, a4, b1, b2, b3, b4)
  BY XorSum4
<1>3. Crossed(c1, c2, c3, c4, d1, d2, d3, d4)
  BY XorSum4
<1>4. /\ e1 \in Byte /\ e2 \in Byte /\ e3 \in Byte /\ e4 \in Byte
      /\ f1 \in Byte /\ f2 \in Byte /\ f3 \in Byte /\ f4 \in Byte
  BY XorByte
<1>5. Xor(p, q) = Sum4(Xor(e1, f1), Xor(e2, f2), Xor(e3, f3), Xor(e4, f4))
  <2>1. p = Sum4(e1, e2, e3, e4) /\ q = Sum4(f1, f2, f3, f4)
    BY <1>2, <1>3 DEF Crossed
  <2> HIDE DEF p, q, e1, e2, e3, e4, f1, f2, f3, f4
  <2>2. Crossed(e1, e2, e3, e4, f1, f2, f3, f4)
    BY <1>4, XorSum4
  <2> QED
    BY <2>1, <2>2 DEF Crossed
<1> QED
  BY <1>5 DEF Sum4, Transposed

MixByte(a, b, c, d) == Sum4(Twice(a), Thrice(b), c, d)
InvByte(a, b, c, d) == Sum4(Times(14, a), Times(11, b), Times(13, c), Times(9, d))

LEMMA MixBytes ==
  ASSUME NEW a \in Byte, NEW b \in Byte, NEW c \in Byte, NEW d \in Byte
  PROVE  MixByte(a, b, c, d) \in Byte /\ InvByte(a, b, c, d) \in Byte
<1>1. 14 \in Byte /\ 11 \in Byte /\ 13 \in Byte /\ 9 \in Byte
  BY DEF Byte
<1>2. /\ Times(14, a) \in Byte /\ Times(11, b) \in Byte
      /\ Times(13, c) \in Byte /\ Times(9, d) \in Byte
  BY <1>1, TimesBytes
<1> QED
  BY <1>2, Sum4Laws, ThriceByte, TwiceBits DEF MixByte, InvByte

\* 2*14 + 3*9 + 13 + 11 is 1, and the other sums of the product are 0.
LEMMA Coefficients1 ==
  /\ Sum4(Twice(14), Thrice(9), 13, 11) = 1
  /\ Sum4(Twice(11), Thrice(14), 9, 13) = 0
  /\ Sum4(Twice(13), Thrice(11), 14, 9) = 0
  /\ Sum4(Twice(9), Thrice(13), 11, 14) = 0
<1>1. Twice(14) = 28 /\ Twice(9) = 18 /\ Twice(11) = 22 /\ Twice(13) = 26
  BY TwiceIs DEF Byte
<1>2. /\ Xor(18, 9) = 27 /\ Xor(28, 27) = 7 /\ Xor(13, 11) = 6 /\ Xor(7, 6) = 1
      /\ Xor(28, 14) = 18 /\ Xor(22, 18) = 4 /\ Xor(9, 13) = 4 /\ Xor(4, 4) = 0
      /\ Xor(22, 11) = 29 /\ Xor(26, 29) = 7 /\ Xor(14, 9) = 7 /\ Xor(7, 7) = 0
      /\ Xor(26, 13) = 23 /\ Xor(18, 23) = 5 /\ Xor(11, 14) = 5 /\ Xor(5, 5) = 0
  BY XorNumber DEF DigitSum, SumDigit, Digit, Byte
<1> QED
  BY <1>1, <1>2 DEF Sum4, Thrice

LEMMA TimesSum4 ==
  ASSUME NEW a \in Byte, NEW b \in Byte, NEW c \in Byte, NEW d \in Byte, NEW x
  PROVE  Sum4(Twice(Times(a, x)), Thrice(Times(b, x)), Times(c, x), Times(d, x))
           = Times(Sum4(Twice(a), Thrice(b), c, d), x)
<1>1. Twice(a) \in Byte /\ Thrice(b) \in Byte
  BY TwiceBits, ThriceByte
<1>2. Twice(Times(a, x)) = Times(Twice(a), x) /\ Thrice(Times(b, x)) = Times(Thrice(b), x)
  BY TimesTwice, TimesThrice
<1>3. /\ Times(Xor(Twice(a), Thrice(b)), x) = Xor(Times(Twice(a), x), Times(Thrice(b), x))
      /\ Times(Xor(c, d), x) = Xor(Times(c, x), Times(d, x))
  BY <1>1, TimesXor
<1>4. Xor(Twice(a), Thrice(b)) \in Byte /\ Xor(c, d) \in Byte
  BY <1>1, XorByte
<1> QED
  BY <1>2, <1>3, <1>4, TimesXor DEF Sum4

\* MixColumns of what its inverse makes, one byte of four.
LEMMA MixOfInv ==
  ASSUME NEW a \in Byte, NEW b \in Byte, NEW c \in Byte, NEW d \in Byte
  PROVE  MixByte(InvByte(a, b, c, d), InvByte(b, c, d, a),
                 InvByte(c, d, a, b), InvByte(d, a, b, c)) = a
<1>1. 14 \in Byte /\ 11 \in Byte /\ 13 \in Byte /\ 9 \in Byte
  BY DEF Byte
<1> DEFINE t(k, x) == Times(k, x)
<1>2. \A x \in Byte : t(14, x) \in Byte /\ t(11, x) \in Byte /\ t(13, x) \in Byte /\ t(9, x) \in Byte
  BY <1>1, TimesBytes
<1>3. /\ InvByte(b, c, d, a) = Sum4(t(9, a), t(14, b), t(11, c), t(13, d))
      /\ InvByte(c, d, a, b) = Sum4(t(13, a), t(9, b), t(14, c), t(11, d))
      /\ InvByte(d, a, b, c) = Sum4(t(11, a), t(13, b), t(9, c), t(14, d))
      /\ InvByte(a, b, c, d) = Sum4(t(14, a), t(11, b), t(13, c), t(9, d))
  BY <1>2, Sum4Laws DEF InvByte
<1> HIDE DEF t
<1>4. Twice(InvByte(a, b, c, d)) =
        Sum4(Twice(t(14, a)), Twice(t(11, b)), Twice(t(13, c)), Twice(t(9, d)))
  BY <1>2, <1>3, Sum4Laws
<1>5. Thrice(InvByte(b, c, d, a)) =
        Sum4(Thrice(t(9, a)), Thrice(t(14, b)), Thrice(t(11, c)), Thrice(t(13, d)))
  BY <1>2, <1>3, Sum4Laws
<1> DEFINE p(i, j, k, l, x) == Sum4(Twice(t(i, x)), Thrice(t(j, x)), t(k, x), t(l, x))
<1>6. MixByte(InvByte(a, b, c, d), InvByte(b, c, d, a),
              InvByte(c, d, a, b), InvByte(d, a, b, c))
        = Sum4(p(14, 9, 13, 11, a), p(11, 14, 9, 13, b),
               p(13, 11, 14, 9, c), p(9, 13, 11, 14, d))
  <2>1. /\ Twice(t(14, a)) \in Byte /\ Twice(t(11, b)) \in Byte
        /\ Twice(t(13, c)) \in Byte /\ Twice(t(9, d)) \in Byte
        /\ Thrice(t(9, a)) \in Byte /\ Thrice(t(14, b)) \in Byte
        /\ Thrice(t(11, c)) \in Byte /\ Thrice(t(13, d)) \in Byte
    BY <1>2, TwiceBits, ThriceByte
  <2>2. Transposed(
          Twice(t(14, a)), Twice(t(11, b)), Twice(t(13, c)), Twice(t(9, d)),
          Thrice(t(9, a)), Thrice(t(14, b)), Thrice(t(11, c)), Thrice(t(13, d)),
          t(13, a), t(9, b), t(14, c), t(11, d), t(11, a), t(13, b), t(9, c), t(14, d))
    BY <1>2, <2>1, Sum4Transposed
  <2> QED
    BY <1>3, <1>4, <1>5, <2>2 DEF MixByte, Transposed
<1>7. /\ p(14, 9, 13, 11, a) = Times(1, a) /\ p(11, 14, 9, 13, b) = Times(0, b)
      /\ p(13, 11, 14, 9, c) = Times(0, c) /\ p(9, 13, 11, 14, d) = Times(0, d)
  BY <1>1, TimesSum4, Coefficients1 DEF t
<1>8. Sum4(a, 0, 0, 0) = a
  BY XorLaws, ZeroByte DEF Sum4
<1> HIDE DEF p
<1> QED
  BY <1>6, <1>7, <1>8, TimesOne, TimesZero

IsWord(w) == /\ w = <<w[1], w[2], w[3], w[4]>>
             /\ w[1] \in Byte /\ w[2] \in Byte /\ w[3] \in Byte /\ w[4] \in Byte

LEMMA WordOfBytes ==
  ASSUME NEW a \in Byte, NEW b \in Byte, NEW c \in Byte, NEW d \in Byte
  PROVE  IsWord(<<a, b, c, d>>)
  BY DEF IsWord

MixWord(v) == << MixByte(v[1], v[2], v[3], v[4]), MixByte(v[2], v[3], v[4], v[1]),
                 MixByte(v[3], v[4], v[1], v[2]), MixByte(v[4], v[1], v[2], v[3]) >>
InvWord(v) == << InvByte(v[1], v[2], v[3], v[4]), InvByte(v[2], v[3], v[4], v[1]),
                 InvByte(v[3], v[4], v[1], v[2]), InvByte(v[4], v[1], v[2], v[3]) >>
SubWord(v) == <<FSb[v[1]], FSb[v[2]], FSb[v[3]], FSb[v[4]]>>
RSubWord(v) == <<RSb[v[1]], RSb[v[2]], RSb[v[3]], RSb[v[4]]>>

LEMMA XorWord ==
  ASSUME NEW v, NEW w, IsWord(v), IsWord(w)
  PROVE  /\ IsWord(xorw(v, w))
         /\ xorw(v, w) = xorw(w, v)
         /\ xorw(xorw(v, w), w) = v
         /\ xorw(v, w) = <<Xor(v[1], w[1]), Xor(v[2], w[2]), Xor(v[3], w[3]), Xor(v[4], w[4])>>
<1>1. xorw(v, w) = <<Xor(v[1], w[1]), Xor(v[2], w[2]), Xor(v[3], w[3]), Xor(v[4], w[4])>>
  BY DEF xorw, Xor
<1>2. xorw(w, v) = <<Xor(w[1], v[1]), Xor(w[2], v[2]), Xor(w[3], v[3]), Xor(w[4], v[4])>>
  BY DEF xorw, Xor
<1>3. IsWord(xorw(v, w))
  BY <1>1, XorByte, WordOfBytes DEF IsWord
<1>4. xorw(v, w) = xorw(w, v)
  BY <1>1, <1>2, XorLaws DEF IsWord
<1>5. xorw(xorw(v, w), w) = v
  <2> DEFINE u == xorw(v, w)
  <2>1. /\ u[1] = Xor(v[1], w[1]) /\ u[2] = Xor(v[2], w[2])
        /\ u[3] = Xor(v[3], w[3]) /\ u[4] = Xor(v[4], w[4])
    BY <1>1
  <2>2. xorw(u, w) = <<Xor(u[1], w[1]), Xor(u[2], w[2]), Xor(u[3], w[3]), Xor(u[4], w[4])>>
    BY DEF xorw, Xor
  <2> HIDE DEF u
  <2>3. /\ Xor(u[1], w[1]) = v[1] /\ Xor(u[2], w[2]) = v[2]
        /\ Xor(u[3], w[3]) = v[3] /\ Xor(u[4], w[4]) = v[4]
    BY <2>1, XorLaws DEF IsWord
  <2>4. xorw(u, w) = v
    BY <2>2, <2>3 DEF IsWord
  <2> QED
    BY <2>4 DEF u
<1> QED
  BY <1>1, <1>3, <1>4, <1>5

LEMMA WordMaps ==
  ASSUME NEW v, IsWord(v)
  PROVE  /\ IsWord(MixWord(v)) /\ IsWord(InvWord(v)) /\ IsWord(SubWord(v))
         /\ IsWord(RSubWord(v))
         /\ MixWord(InvWord(v)) = v
         /\ SubWord(RSubWord(v)) = v /\ RSubWord(SubWord(v)) = v
<1>1. v[1] \in Byte /\ v[2] \in Byte /\ v[3] \in Byte /\ v[4] \in Byte
      /\ v = <<v[1], v[2], v[3], v[4]>>
  BY DEF IsWord
<1>2. IsWord(MixWord(v)) /\ IsWord(InvWord(v))
  BY <1>1, MixBytes, WordOfBytes DEF MixWord, InvWord
<1>3. IsWord(SubWord(v))
  BY <1>1, FSbIs, WordOfBytes DEF SubWord
<1>4. IsWord(RSubWord(v))
  BY <1>1, RSbIs, WordOfBytes DEF RSubWord
<1>5. MixWord(InvWord(v)) = v
  <2>1. MixWord(InvWord(v)) =
          << MixByte(InvByte(v[1], v[2], v[3], v[4]), InvByte(v[2], v[3], v[4], v[1]),
                     InvByte(v[3], v[4], v[1], v[2]), InvByte(v[4], v[1], v[2], v[3])),
             MixByte(InvByte(v[2], v[3], v[4], v[1]), InvByte(v[3], v[4], v[1], v[2]),
                     InvByte(v[4], v[1], v[2], v[3]), InvByte(v[1], v[2], v[3], v[4])),
             MixByte(InvByte(v[3], v[4], v[1], v[2]), InvByte(v[4], v[1], v[2], v[3]),
                     InvByte(v[1], v[2], v[3], v[4]), InvByte(v[2], v[3], v[4], v[1])),
             MixByte(InvByte(v[4], v[1], v[2], v[3]), InvByte(v[1], v[2], v[3], v[4]),
                     InvByte(v[2], v[3], v[4], v[1]), InvByte(v[3], v[4], v[1], v[2])) >>
    BY DEF MixWord, InvWord
  <2> QED
    BY <1>1, <2>1, MixOfInv
<1>6. SubWord(RSubWord(v)) = v /\ RSubWord(SubWord(v)) = v
  BY <1>1, RSbIs DEF SubWord, RSubWord
<1> QED
  BY <1>2, <1>3, <1>4, <1>5, <1>6

LEMMA MixWordXor ==
  ASSUME NEW v, NEW w, IsWord(v), IsWord(w)
  PROVE  MixWord(xorw(v, w)) = xorw(MixWord(v), MixWord(w))
<1>1. ASSUME NEW a \in Byte, NEW b \in Byte, NEW c \in Byte, NEW d \in Byte,
             NEW e \in Byte, NEW f \in Byte, NEW g \in Byte, NEW h \in Byte
      PROVE  MixByte(Xor(a, e), Xor(b, f), Xor(c, g), Xor(d, h))
               = Xor(MixByte(a, b, c, d), MixByte(e, f, g, h))
  <2>1. Twice(Xor(a, e)) = Xor(Twice(a), Twice(e))
    BY TwiceXor
  <2>2. Thrice(Xor(b, f)) = Xor(Thrice(b), Thrice(f))
    BY TwiceXor, TwiceBits, XorSwap DEF Thrice
  <2>3. Twice(a) \in Byte /\ Thrice(b) \in Byte /\ Twice(e) \in Byte /\ Thrice(f) \in Byte
    BY TwiceBits, ThriceByte
  <2>4. Crossed(Twice(a), Thrice(b), c, d, Twice(e), Thrice(f), g, h)
    BY <2>3, XorSum4
  <2> QED
    BY <2>1, <2>2, <2>4 DEF MixByte, Crossed
<1> DEFINE Linear(a, b, c, d, e, f, g, h) ==
             MixByte(Xor(a, e), Xor(b, f), Xor(c, g), Xor(d, h))
               = Xor(MixByte(a, b, c, d), MixByte(e, f, g, h))
<1>2. \A a, b, c, d, e, f, g, h \in Byte : Linear(a, b, c, d, e, f, g, h)
  BY <1>1
<1> HIDE DEF Linear
<1>3. v[1] \in Byte /\ v[2] \in Byte /\ v[3] \in Byte /\ v[4] \in Byte
      /\ w[1] \in Byte /\ w[2] \in Byte /\ w[3] \in Byte /\ w[4] \in Byte
  BY DEF IsWord
<1>4. /\ Linear(v[1], v[2], v[3], v[4], w[1], w[2], w[3], w[4])
      /\ Linear(v[2], v[3], v[4], v[1], w[2], w[3], w[4], w[1])
      /\ Linear(v[3], v[4], v[1], v[2], w[3], w[4], w[1], w[2])
      /\ Linear(v[4], v[1], v[2], v[3], w[4], w[1], w[2], w[3])
  BY <1>2, <1>3
<1> QED
  BY <1>4, XorWord DEF MixWord, Linear, xorw, Xor

-----------------------------------------------------------------------------
(***************************************************************************)
(* The tables of rounds, and the static arrays once the loops have run.    *)
(***************************************************************************)
Tables == arrays(Loops)

LEMMA TablesAre ==
  /\ Tables.RCON = RCON /\ Tables.FSb = FSb /\ Tables.RSb = RSb
  /\ Tables.FT = FT /\ Tables.RT = RT
  BY DEF Tables, arrays, Loops

LEMMA TurnedTables ==
  ASSUME NEW f, NEW x \in Byte
  PROVE  LET t == four_tables(f) IN
         /\ t[1][x] = f[x]
         /\ t[2][x] = ROTL8(f[x])
         /\ t[3][x] = ROTL8(ROTL8(f[x]))
         /\ t[4][x] = ROTL8(ROTL8(ROTL8(f[x])))
  BY DEF four_tables, turned

LEMMA ForwardTables ==
  ASSUME NEW x \in Byte
  PROVE  LET y == FSb[x] IN
         /\ FT[1][x] = <<Twice(y), y, y, Thrice(y)>>
         /\ FT[2][x] = <<Thrice(y), Twice(y), y, y>>
         /\ FT[3][x] = <<y, Thrice(y), Twice(y), y>>
         /\ FT[4][x] = <<y, y, Thrice(y), Twice(y)>>
<1> DEFINE f == [i \in Byte |-> forward(FSb[i])]
           y == FSb[x]
<1>1. FT = four_tables(f)
  BY DEF FT
<1>2. f[x] = <<Twice(y), y, y, Thrice(y)>>
  BY FSbIs, XtimeIs DEF forward, Thrice, Xor
<1> HIDE DEF f
<1> QED
  BY <1>1, <1>2, TurnedTables DEF ROTL8

LEMMA ReverseTables ==
  ASSUME NEW x \in Byte
  PROVE  LET y == RSb[x] IN
         /\ RT[1][x] = <<Times(14, y), Times(9, y), Times(13, y), Times(11, y)>>
         /\ RT[2][x] = <<Times(11, y), Times(14, y), Times(9, y), Times(13, y)>>
         /\ RT[3][x] = <<Times(13, y), Times(11, y), Times(14, y), Times(9, y)>>
         /\ RT[4][x] = <<Times(9, y), Times(13, y), Times(11, y), Times(14, y)>>
<1> DEFINE f == [i \in Byte |-> reverse(RSb[i])]
           y == RSb[x]
<1>1. RT = four_tables(f)
  BY DEF RT
<1>2. f[x] = <<Times(14, y), Times(9, y), Times(13, y), Times(11, y)>>
  <2>1. 14 \in 1..255 /\ 9 \in 1..255 /\ 13 \in 1..255 /\ 11 \in 1..255
    OBVIOUS
  <2>2. y \in Byte
    BY RSbIs
  <2>3. /\ MUL(14, y) = Times(14, y) /\ MUL(9, y) = Times(9, y)
        /\ MUL(13, y) = Times(13, y) /\ MUL(11, y) = Times(11, y)
    BY <2>1, <2>2, MulIs
  <2> QED
    BY <2>3 DEF reverse
<1> HIDE DEF f
<1> QED
  BY <1>1, <1>2, TurnedTables DEF ROTL8

Column(t, a, b, c, d) == xorw(xorw(t[1][a], t[2][b]), xorw(t[3][c], t[4][d]))

LEMMA ForwardColumn ==
  ASSUME NEW a \in Byte, NEW b \in Byte, NEW c \in Byte, NEW d \in Byte
  PROVE  Column(FT, a, b, c, d) = MixWord(SubWord(<<a, b, c, d>>))
<1> DEFINE p == FSb[a]
           q == FSb[b]
           r == FSb[c]
           s == FSb[d]
<1>1. p \in Byte /\ q \in Byte /\ r \in Byte /\ s \in Byte
  BY FSbIs
<1>2. Column(FT, a, b, c, d) =
        << Sum4(Twice(p), Thrice(q), r, s), Sum4(p, Twice(q), Thrice(r), s),
           Sum4(p, q, Twice(r), Thrice(s)), Sum4(Thrice(p), q, r, Twice(s)) >>
  <2>1. /\ FT[1][a] = <<Twice(p), p, p, Thrice(p)>>
        /\ FT[2][b] = <<Thrice(q), Twice(q), q, q>>
        /\ FT[3][c] = <<r, Thrice(r), Twice(r), r>>
        /\ FT[4][d] = <<s, s, Thrice(s), Twice(s)>>
    BY ForwardTables
  <2> HIDE DEF p, q, r, s
  <2> QED
    BY <2>1 DEF Column, xorw, Xor, Sum4
<1>3. MixWord(SubWord(<<a, b, c, d>>)) =
        << MixByte(p, q, r, s), MixByte(q, r, s, p), MixByte(r, s, p, q), MixByte(s, p, q, r) >>
  BY DEF MixWord, SubWord
<1> HIDE DEF p, q, r, s
<1>4. /\ Twice(p) \in Byte /\ Twice(q) \in Byte /\ Twice(r) \in Byte /\ Twice(s) \in Byte
      /\ Thrice(p) \in Byte /\ Thrice(q) \in Byte /\ Thrice(r) \in Byte /\ Thrice(s) \in Byte
  BY <1>1, TwiceBits, ThriceByte
<1>5. /\ Sum4(p, Twice(q), Thrice(r), s) = MixByte(q, r, s, p)
      /\ Sum4(p, q, Twice(r), Thrice(s)) = MixByte(r, s, p, q)
      /\ Sum4(Thrice(p), q, r, Twice(s)) = MixByte(s, p, q, r)
  BY <1>1, <1>4, Sum4Laws DEF MixByte
<1> QED
  BY <1>2, <1>3, <1>5 DEF MixByte

LEMMA ReverseColumn ==
  ASSUME NEW a \in Byte, NEW b \in Byte, NEW c \in Byte, NEW d \in Byte
  PROVE  Column(RT, a, b, c, d) = InvWord(RSubWord(<<a, b, c, d>>))
<1> DEFINE p == RSb[a]
           q == RSb[b]
           r == RSb[c]
           s == RSb[d]
<1>1. p \in Byte /\ q \in Byte /\ r \in Byte /\ s \in Byte
  BY RSbIs
<1>2. Column(RT, a, b, c, d) =
        << Sum4(Times(14, p), Times(11, q), Times(13, r), Times(9, s)),
           Sum4(Times(9, p), Times(14, q), Times(11, r), Times(13, s)),
           Sum4(Times(13, p), Times(9, q), Times(14, r), Times(11, s)),
           Sum4(Times(11, p), Times(13, q), Times(9, r), Times(14, s)) >>
  <2>1. /\ RT[1][a] = <<Times(14, p), Times(9, p), Times(13, p), Times(11, p)>>
        /\ RT[2][b] = <<Times(11, q), Times(14, q), Times(9, q), Times(13, q)>>
        /\ RT[3][c] = <<Times(13, r), Times(11, r), Times(14, r), Times(9, r)>>
        /\ RT[4][d] = <<Times(9, s), Times(13, s), Times(11, s), Times(14, s)>>
    BY ReverseTables
  <2> HIDE DEF p, q, r, s
  <2> QED
    BY <2>1 DEF Column, xorw, Xor, Sum4
<1>3. InvWord(RSubWord(<<a, b, c, d>>)) =
        << InvByte(p, q, r, s), InvByte(q, r, s, p), InvByte(r, s, p, q), InvByte(s, p, q, r) >>
  BY DEF InvWord, RSubWord
<1> HIDE DEF p, q, r, s
<1>4. \A k \in {14, 11, 13, 9} : \A x : Times(k, x) \in Byte
  <2>1. 14 \in Byte /\ 11 \in Byte /\ 13 \in Byte /\ 9 \in Byte
    BY DEF Byte
  <2> QED
    BY <2>1, TimesBytes
<1>5. /\ Sum4(Times(9, p), Times(14, q), Times(11, r), Times(13, s)) = InvByte(q, r, s, p)
      /\ Sum4(Times(13, p), Times(9, q), Times(14, r), Times(11, s)) = InvByte(r, s, p, q)
      /\ Sum4(Times(11, p), Times(13, q), Times(9, r), Times(14, s)) = InvByte(s, p, q, r)
  BY <1>4, Sum4Laws DEF InvByte
<1> QED
  BY <1>2, <1>3, <1>5 DEF InvByte

-----------------------------------------------------------------------------

(***************************************************************************)
(* States as four columns, and as the sixteen bytes of FIPS 197.           *)
(***************************************************************************)
IsState(Y) == /\ Y = <<Y[1], Y[2], Y[3], Y[4]>>
              /\ IsWord(Y[1]) /\ IsWord(Y[2]) /\ IsWord(Y[3]) /\ IsWord(Y[4])

Flat(Y) == << Y[1][1], Y[1][2], Y[1][3], Y[1][4],
              Y[2][1], Y[2][2], Y[2][3], Y[2][4],
              Y[3][1], Y[3][2], Y[3][3], Y[3][4],
              Y[4][1], Y[4][2], Y[4][3], Y[4][4] >>

SubState(Y) == <<SubWord(Y[1]), SubWord(Y[2]), SubWord(Y[3]), SubWord(Y[4])>>
RSubState(Y) == <<RSubWord(Y[1]), RSubWord(Y[2]), RSubWord(Y[3]), RSubWord(Y[4])>>
MixState(Y) == <<MixWord(Y[1]), MixWord(Y[2]), MixWord(Y[3]), MixWord(Y[4])>>
InvState(Y) == <<InvWord(Y[1]), InvWord(Y[2]), InvWord(Y[3]), InvWord(Y[4])>>
AddState(Y, K) ==
  <<xorw(Y[1], K[1]), xorw(Y[2], K[2]), xorw(Y[3], K[3]), xorw(Y[4], K[4])>>

ShiftState(Y) ==
  << <<Y[1][1], Y[2][2], Y[3][3], Y[4][4]>>, <<Y[2][1], Y[3][2], Y[4][3], Y[1][4]>>,
     <<Y[3][1], Y[4][2], Y[1][3], Y[2][4]>>, <<Y[4][1], Y[1][2], Y[2][3], Y[3][4]>> >>
UnshiftState(Y) ==
  << <<Y[1][1], Y[4][2], Y[3][3], Y[2][4]>>, <<Y[2][1], Y[1][2], Y[4][3], Y[3][4]>>,
     <<Y[3][1], Y[2][2], Y[1][3], Y[4][4]>>, <<Y[4][1], Y[3][2], Y[2][3], Y[1][4]>> >>

\* The words of round r of a sequence of round keys.
KeyState(RK, r) == <<RK[4 * r + 1], RK[4 * r + 2], RK[4 * r + 3], RK[4 * r + 4]>>

LEMMA StateOfWords ==
  ASSUME NEW a, NEW b, NEW c, NEW d, IsWord(a), IsWord(b), IsWord(c), IsWord(d)
  PROVE  IsState(<<a, b, c, d>>)
  BY DEF IsState

LEMMA StateMaps ==
  ASSUME NEW Y, IsState(Y)
  PROVE  /\ IsState(SubState(Y)) /\ IsState(RSubState(Y)) /\ IsState(MixState(Y))
         /\ IsState(InvState(Y)) /\ IsState(ShiftState(Y)) /\ IsState(UnshiftState(Y))
         /\ MixState(InvState(Y)) = Y
         /\ SubState(RSubState(Y)) = Y
         /\ ShiftState(UnshiftState(Y)) = Y
         /\ ShiftState(SubState(Y)) = SubState(ShiftState(Y))
         /\ UnshiftState(RSubState(Y)) = RSubState(UnshiftState(Y))
<1>1. IsWord(Y[1]) /\ IsWord(Y[2]) /\ IsWord(Y[3]) /\ IsWord(Y[4])
      /\ Y = <<Y[1], Y[2], Y[3], Y[4]>>
  BY DEF IsState
<1>2. IsState(SubState(Y)) /\ IsState(RSubState(Y)) /\ IsState(MixState(Y)) /\ IsState(InvState(Y))
  BY <1>1, WordMaps, StateOfWords DEF SubState, RSubState, MixState, InvState
<1>3. /\ Y[1] = <<Y[1][1], Y[1][2], Y[1][3], Y[1][4]>>
      /\ Y[2] = <<Y[2][1], Y[2][2], Y[2][3], Y[2][4]>>
      /\ Y[3] = <<Y[3][1], Y[3][2], Y[3][3], Y[3][4]>>
      /\ Y[4] = <<Y[4][1], Y[4][2], Y[4][3], Y[4][4]>>
  BY <1>1 DEF IsWord
<1>4. IsState(ShiftState(Y))
  BY <1>1, WordOfBytes, StateOfWords DEF ShiftState, IsWord
<1>5. IsState(UnshiftState(Y))
  BY <1>1, WordOfBytes, StateOfWords DEF UnshiftState, IsWord
<1>6. MixState(InvState(Y)) = Y
  BY <1>1, WordMaps DEF MixState, InvState
<1>7. SubState(RSubState(Y)) = Y
  BY <1>1, WordMaps DEF SubState, RSubState
<1>8. ShiftState(UnshiftState(Y)) = Y
  BY <1>1, <1>3 DEF ShiftState, UnshiftState
<1>9. ShiftState(SubState(Y)) = SubState(ShiftState(Y))
  BY DEF ShiftState, SubState, SubWord
<1>10. UnshiftState(RSubState(Y)) = RSubState(UnshiftState(Y))
  BY DEF UnshiftState, RSubState, RSubWord
<1> QED
  BY <1>2, <1>4, <1>5, <1>6, <1>7, <1>8, <1>9, <1>10

LEMMA AddStates ==
  ASSUME NEW Y, NEW K, IsState(Y), IsState(K)
  PROVE  /\ IsState(AddState(Y, K))
         /\ AddState(AddState(Y, K), K) = Y
         /\ MixState(AddState(Y, K)) = AddState(MixState(Y), MixState(K))
<1>1. IsWord(Y[1]) /\ IsWord(Y[2]) /\ IsWord(Y[3]) /\ IsWord(Y[4])
      /\ Y = <<Y[1], Y[2], Y[3], Y[4]>>
  BY DEF IsState
<1>2. IsWord(K[1]) /\ IsWord(K[2]) /\ IsWord(K[3]) /\ IsWord(K[4])
      /\ K = <<K[1], K[2], K[3], K[4]>>
  BY DEF IsState
<1>3. IsState(AddState(Y, K))
  BY <1>1, <1>2, XorWord, StateOfWords DEF AddState
<1>4. AddState(AddState(Y, K), K) = Y
  BY <1>1, <1>2, XorWord DEF AddState
<1>5. MixState(AddState(Y, K)) = AddState(MixState(Y), MixState(K))
  BY <1>1, <1>2, MixWordXor DEF AddState, MixState
<1> QED
  BY <1>3, <1>4, <1>5

-----------------------------------------------------------------------------
(***************************************************************************)
(* The steps of FIPS 197 on columns.                                       *)
(***************************************************************************)
LEMMA FSubBytes ==
  ASSUME NEW Y, IsState(Y)
  PROVE  F!SubBytes(Flat(Y)) = Flat(SubState(Y))
<1>1. ASSUME NEW v, IsWord(v)
      PROVE  /\ F!SBox[v[1]] = FSb[v[1]] /\ F!SBox[v[2]] = FSb[v[2]]
             /\ F!SBox[v[3]] = FSb[v[3]] /\ F!SBox[v[4]] = FSb[v[4]]
  BY <1>1, SBoxIs DEF IsWord
<1> DEFINE s == Flat(Y)
           f == [i \in 0..15 |-> F!SBox[s[i + 1]]]
<1>2. F!SubBytes(s) = << f[0], f[1], f[2], f[3], f[4], f[5], f[6], f[7],
                         f[8], f[9], f[10], f[11], f[12], f[13], f[14], f[15] >>
  BY DEF F!SubBytes, F!Sixteen
<1>3. /\ f[0] = F!SBox[s[1]] /\ f[1] = F!SBox[s[2]] /\ f[2] = F!SBox[s[3]] /\ f[3] = F!SBox[s[4]]
      /\ f[4] = F!SBox[s[5]] /\ f[5] = F!SBox[s[6]] /\ f[6] = F!SBox[s[7]] /\ f[7] = F!SBox[s[8]]
      /\ f[8] = F!SBox[s[9]] /\ f[9] = F!SBox[s[10]] /\ f[10] = F!SBox[s[11]] /\ f[11] = F!SBox[s[12]]
      /\ f[12] = F!SBox[s[13]] /\ f[13] = F!SBox[s[14]] /\ f[14] = F!SBox[s[15]] /\ f[15] = F!SBox[s[16]]
  OBVIOUS
<1>4. /\ s[1] = Y[1][1] /\ s[2] = Y[1][2] /\ s[3] = Y[1][3] /\ s[4] = Y[1][4]
      /\ s[5] = Y[2][1] /\ s[6] = Y[2][2] /\ s[7] = Y[2][3] /\ s[8] = Y[2][4]
      /\ s[9] = Y[3][1] /\ s[10] = Y[3][2] /\ s[11] = Y[3][3] /\ s[12] = Y[3][4]
      /\ s[13] = Y[4][1] /\ s[14] = Y[4][2] /\ s[15] = Y[4][3] /\ s[16] = Y[4][4]
  BY DEF Flat
<1> HIDE DEF s, f
<1>5. /\ f[0] = FSb[Y[1][1]] /\ f[1] = FSb[Y[1][2]] /\ f[2] = FSb[Y[1][3]] /\ f[3] = FSb[Y[1][4]]
      /\ f[4] = FSb[Y[2][1]] /\ f[5] = FSb[Y[2][2]] /\ f[6] = FSb[Y[2][3]] /\ f[7] = FSb[Y[2][4]]
      /\ f[8] = FSb[Y[3][1]] /\ f[9] = FSb[Y[3][2]] /\ f[10] = FSb[Y[3][3]] /\ f[11] = FSb[Y[3][4]]
      /\ f[12] = FSb[Y[4][1]] /\ f[13] = FSb[Y[4][2]] /\ f[14] = FSb[Y[4][3]] /\ f[15] = FSb[Y[4][4]]
  BY <1>1, <1>3, <1>4 DEF IsState
<1> QED
  BY <1>2, <1>5 DEF s, Flat, SubState, SubWord

LEMMA FShiftRows ==
  ASSUME NEW Y, IsState(Y)
  PROVE  F!ShiftRows(Flat(Y)) = Flat(ShiftState(Y))
<1> DEFINE s == Flat(Y)
           f == [i \in 0..15 |-> s[1 + ((i + 4 * (i % 4)) % 16)]]
<1>2. F!ShiftRows(s) = << f[0], f[1], f[2], f[3], f[4], f[5], f[6], f[7],
                          f[8], f[9], f[10], f[11], f[12], f[13], f[14], f[15] >>
  BY DEF F!ShiftRows, F!Sixteen
<1>3. /\ f[0] = s[1] /\ f[1] = s[6] /\ f[2] = s[11] /\ f[3] = s[16]
      /\ f[4] = s[5] /\ f[5] = s[10] /\ f[6] = s[15] /\ f[7] = s[4]
      /\ f[8] = s[9] /\ f[9] = s[14] /\ f[10] = s[3] /\ f[11] = s[8]
      /\ f[12] = s[13] /\ f[13] = s[2] /\ f[14] = s[7] /\ f[15] = s[12]
  OBVIOUS
<1>4. /\ s[1] = Y[1][1] /\ s[2] = Y[1][2] /\ s[3] = Y[1][3] /\ s[4] = Y[1][4]
      /\ s[5] = Y[2][1] /\ s[6] = Y[2][2] /\ s[7] = Y[2][3] /\ s[8] = Y[2][4]
      /\ s[9] = Y[3][1] /\ s[10] = Y[3][2] /\ s[11] = Y[3][3] /\ s[12] = Y[3][4]
      /\ s[13] = Y[4][1] /\ s[14] = Y[4][2] /\ s[15] = Y[4][3] /\ s[16] = Y[4][4]
  BY DEF Flat
<1> HIDE DEF f
<1> QED
  BY <1>2, <1>3, <1>4 DEF Flat, ShiftState

LEMMA FMixColumns ==
  ASSUME NEW Y, IsState(Y)
  PROVE  F!MixColumns(Flat(Y)) = Flat(MixState(Y))
<1> DEFINE s == Flat(Y)
           at(i, r) == s[4 * (i \div 4) + 1 + ((i + r) % 4)]
           f == [i \in 0..15 |->
                   F!Plus(F!Plus(F!Double[at(i, 0)], F!Plus(F!Double[at(i, 1)], at(i, 1))),
                          F!Plus(at(i, 2), at(i, 3)))]
<1>1. \A x, y : F!Plus(x, y) = Xor(x, y)
  BY SameXor DEF F!Plus, Xor
<1>2. F!MixColumns(s) = << f[0], f[1], f[2], f[3], f[4], f[5], f[6], f[7],
                          f[8], f[9], f[10], f[11], f[12], f[13], f[14], f[15] >>
  BY DEF F!MixColumns, F!Sixteen
<1>3. \A i \in 0..15 : f[i] = MixByte(at(i, 0), at(i, 1), at(i, 2), at(i, 3))
  BY <1>1 DEF MixByte, Sum4, Thrice, Twice

<1>4. f[0] = MixByte(s[1], s[2], s[3], s[4])
  <2>1. /\ at(0, 0) = s[1] /\ at(0, 1) = s[2]
        /\ at(0, 2) = s[3] /\ at(0, 3) = s[4] /\ 0 \in 0..15
    OBVIOUS
  <2> HIDE DEF at, f
  <2> QED
    BY <1>3, <2>1
<1>5. f[1] = MixByte(s[2], s[3], s[4], s[1])
  <2>1. /\ at(1, 0) = s[2] /\ at(1, 1) = s[3]
        /\ at(1, 2) = s[4] /\ at(1, 3) = s[1] /\ 1 \in 0..15
    OBVIOUS
  <2> HIDE DEF at, f
  <2> QED
    BY <1>3, <2>1
<1>6. f[2] = MixByte(s[3], s[4], s[1], s[2])
  <2>1. /\ at(2, 0) = s[3] /\ at(2, 1) = s[4]
        /\ at(2, 2) = s[1] /\ at(2, 3) = s[2] /\ 2 \in 0..15
    OBVIOUS
  <2> HIDE DEF at, f
  <2> QED
    BY <1>3, <2>1
<1>7. f[3] = MixByte(s[4], s[1], s[2], s[3])
  <2>1. /\ at(3, 0) = s[4] /\ at(3, 1) = s[1]
        /\ at(3, 2) = s[2] /\ at(3, 3) = s[3] /\ 3 \in 0..15
    OBVIOUS
  <2> HIDE DEF at, f
  <2> QED
    BY <1>3, <2>1
<1>8. f[4] = MixByte(s[5], s[6], s[7], s[8])
  <2>1. /\ at(4, 0) = s[5] /\ at(4, 1) = s[6]
        /\ at(4, 2) = s[7] /\ at(4, 3) = s[8] /\ 4 \in 0..15
    OBVIOUS
  <2> HIDE DEF at, f
  <2> QED
    BY <1>3, <2>1
<1>9. f[5] = MixByte(s[6], s[7], s[8], s[5])
  <2>1. /\ at(5, 0) = s[6] /\ at(5, 1) = s[7]
        /\ at(5, 2) = s[8] /\ at(5, 3) = s[5] /\ 5 \in 0..15
    OBVIOUS
  <2> HIDE DEF at, f
  <2> QED
    BY <1>3, <2>1
<1>10. f[6] = MixByte(s[7], s[8], s[5], s[6])
  <2>1. /\ at(6, 0) = s[7] /\ at(6, 1) = s[8]
        /\ at(6, 2) = s[5] /\ at(6, 3) = s[6] /\ 6 \in 0..15
    OBVIOUS
  <2> HIDE DEF at, f
  <2> QED
    BY <1>3, <2>1
<1>11. f[7] = MixByte(s[8], s[5], s[6], s[7])
  <2>1. /\ at(7, 0) = s[8] /\ at(7, 1) = s[5]
        /\ at(7, 2) = s[6] /\ at(7, 3) = s[7] /\ 7 \in 0..15
    OBVIOUS
  <2> HIDE DEF at, f
  <2> QED
    BY <1>3, <2>1
<1>12. f[8] = MixByte(s[9], s[10], s[11], s[12])
  <2>1. /\ at(8, 0) = s[9] /\ at(8, 1) = s[10]
        /\ at(8, 2) = s[11] /\ at(8, 3) = s[12] /\ 8 \in 0..15
    OBVIOUS
  <2> HIDE DEF at, f
  <2> QED
    BY <1>3, <2>1
<1>13. f[9] = MixByte(s[10], s[11], s[12], s[9])
  <2>1. /\ at(9, 0) = s[10] /\ at(9, 1) = s[11]
        /\ at(9, 2) = s[12] /\ at(9, 3) = s[9] /\ 9 \in 0..15
    OBVIOUS
  <2> HIDE DEF at, f
  <2> QED
    BY <1>3, <2>1
<1>14. f[10] = MixByte(s[11], s[12], s[9], s[10])
  <2>1. /\ at(10, 0) = s[11] /\ at(10, 1) = s[12]
        /\ at(10, 2) = s[9] /\ at(10, 3) = s[10] /\ 10 \in 0..15
    OBVIOUS
  <2> HIDE DEF at, f
  <2> QED
    BY <1>3, <2>1
<1>15. f[11] = MixByte(s[12], s[9], s[10], s[11])
  <2>1. /\ at(11, 0) = s[12] /\ at(11, 1) = s[9]
        /\ at(11, 2) = s[10] /\ at(11, 3) = s[11] /\ 11 \in 0..15
    OBVIOUS
  <2> HIDE DEF at, f
  <2> QED
    BY <1>3, <2>1
<1>16. f[12] = MixByte(s[13], s[14], s[15], s[16])
  <2>1. /\ at(12, 0) = s[13] /\ at(12, 1) = s[14]
        /\ at(12, 2) = s[15] /\ at(12, 3) = s[16] /\ 12 \in 0..15
    OBVIOUS
  <2> HIDE DEF at, f
  <2> QED
    BY <1>3, <2>1
<1>17. f[13] = MixByte(s[14], s[15], s[16], s[13])
  <2>1. /\ at(13, 0) = s[14] /\ at(13, 1) = s[15]
        /\ at(13, 2) = s[16] /\ at(13, 3) = s[13] /\ 13 \in 0..15
    OBVIOUS
  <2> HIDE DEF at, f
  <2> QED
    BY <1>3, <2>1
<1>18. f[14] = MixByte(s[15], s[16], s[13], s[14])
  <2>1. /\ at(14, 0) = s[15] /\ at(14, 1) = s[16]
        /\ at(14, 2) = s[13] /\ at(14, 3) = s[14] /\ 14 \in 0..15
    OBVIOUS
  <2> HIDE DEF at, f
  <2> QED
    BY <1>3, <2>1
<1>19. f[15] = MixByte(s[16], s[13], s[14], s[15])
  <2>1. /\ at(15, 0) = s[16] /\ at(15, 1) = s[13]
        /\ at(15, 2) = s[14] /\ at(15, 3) = s[15] /\ 15 \in 0..15
    OBVIOUS
  <2> HIDE DEF at, f
  <2> QED
    BY <1>3, <2>1
<1>20. /\ s[1] = Y[1][1] /\ s[2] = Y[1][2] /\ s[3] = Y[1][3] /\ s[4] = Y[1][4]
      /\ s[5] = Y[2][1] /\ s[6] = Y[2][2] /\ s[7] = Y[2][3] /\ s[8] = Y[2][4]
      /\ s[9] = Y[3][1] /\ s[10] = Y[3][2] /\ s[11] = Y[3][3] /\ s[12] = Y[3][4]
      /\ s[13] = Y[4][1] /\ s[14] = Y[4][2] /\ s[15] = Y[4][3] /\ s[16] = Y[4][4]
  BY DEF Flat
<1> HIDE DEF f
<1> QED
  BY <1>2, <1>4, <1>5, <1>6, <1>7, <1>8, <1>9, <1>10, <1>11, <1>12, <1>13, <1>14, <1>15, <1>16, <1>17, <1>18, <1>19, <1>20 DEF Flat, MixState, MixWord

LEMMA FAddRoundKey ==
  ASSUME NEW Y, IsState(Y), NEW w, NEW r \in Nat, IsState(KeyState(w, r))
  PROVE  F!AddRoundKey(Flat(Y), w, r) = Flat(AddState(Y, KeyState(w, r)))
<1> DEFINE s == Flat(Y)
           K == KeyState(w, r)
           f == [i \in 0..15 |-> F!Plus(s[i + 1], w[4 * r + 1 + (i \div 4)][1 + (i % 4)])]
<1>1. \A x, y : F!Plus(x, y) = XOR[x][y]
  BY SameXor DEF F!Plus
<1>2. F!AddRoundKey(s, w, r) = << f[0], f[1], f[2], f[3], f[4], f[5], f[6], f[7],
                          f[8], f[9], f[10], f[11], f[12], f[13], f[14], f[15] >>
  BY DEF F!AddRoundKey, F!Sixteen
<1>3. 4 * r + 1 + 0 = 4 * r + 1 /\ 4 * r + 1 + 1 = 4 * r + 2 /\ 4 * r + 1 + 2 = 4 * r + 3
      /\ 4 * r + 1 + 3 = 4 * r + 4
  OBVIOUS
<1>4. \A i \in 0..15 : f[i] = XOR[s[i + 1]][w[4 * r + 1 + (i \div 4)][1 + (i % 4)]]
  BY <1>1
<1>5. /\ s[1] = Y[1][1] /\ s[2] = Y[1][2] /\ s[3] = Y[1][3] /\ s[4] = Y[1][4]
      /\ s[5] = Y[2][1] /\ s[6] = Y[2][2] /\ s[7] = Y[2][3] /\ s[8] = Y[2][4]
      /\ s[9] = Y[3][1] /\ s[10] = Y[3][2] /\ s[11] = Y[3][3] /\ s[12] = Y[3][4]
      /\ s[13] = Y[4][1] /\ s[14] = Y[4][2] /\ s[15] = Y[4][3] /\ s[16] = Y[4][4]
  BY DEF Flat
<1>6. K[1] = w[4 * r + 1] /\ K[2] = w[4 * r + 2] /\ K[3] = w[4 * r + 3] /\ K[4] = w[4 * r + 4]
  BY DEF KeyState
<1> HIDE DEF f, s, K
<1>7. f[0] = XOR[Y[1][1]][K[1][1]]
  <2>1. 0 \div 4 = 0 /\ 1 + (0 % 4) = 1 /\ 0 + 1 = 1 /\ 0 \in 0..15
    OBVIOUS
  <2> QED
    BY <1>3, <1>4, <1>5, <1>6, <2>1
<1>8. f[1] = XOR[Y[1][2]][K[1][2]]
  <2>1. 1 \div 4 = 0 /\ 1 + (1 % 4) = 2 /\ 1 + 1 = 2 /\ 1 \in 0..15
    OBVIOUS
  <2> QED
    BY <1>3, <1>4, <1>5, <1>6, <2>1
<1>9. f[2] = XOR[Y[1][3]][K[1][3]]
  <2>1. 2 \div 4 = 0 /\ 1 + (2 % 4) = 3 /\ 2 + 1 = 3 /\ 2 \in 0..15
    OBVIOUS
  <2> QED
    BY <1>3, <1>4, <1>5, <1>6, <2>1
<1>10. f[3] = XOR[Y[1][4]][K[1][4]]
  <2>1. 3 \div 4 = 0 /\ 1 + (3 % 4) = 4 /\ 3 + 1 = 4 /\ 3 \in 0..15
    OBVIOUS
  <2> QED
    BY <1>3, <1>4, <1>5, <1>6, <2>1
<1>11. f[4] = XOR[Y[2][1]][K[2][1]]
  <2>1. 4 \div 4 = 1 /\ 1 + (4 % 4) = 1 /\ 4 + 1 = 5 /\ 4 \in 0..15
    OBVIOUS
  <2> QED
    BY <1>3, <1>4, <1>5, <1>6, <2>1
<1>12. f[5] = XOR[Y[2][2]][K[2][2]]
  <2>1. 5 \div 4 = 1 /\ 1 + (5 % 4) = 2 /\ 5 + 1 = 6 /\ 5 \in 0..15
    OBVIOUS
  <2> QED
    BY <1>3, <1>4, <1>5, <1>6, <2>1
<1>13. f[6] = XOR[Y[2][3]][K[2][3]]
  <2>1. 6 \div 4 = 1 /\ 1 + (6 % 4) = 3 /\ 6 + 1 = 7 /\ 6 \in 0..15
    OBVIOUS
  <2> QED
    BY <1>3, <1>4, <1>5, <1>6, <2>1
<1>14. f[7] = XOR[Y[2][4]][K[2][4]]
  <2>1. 7 \div 4 = 1 /\ 1 + (7 % 4) = 4 /\ 7 + 1 = 8 /\ 7 \in 0..15
    OBVIOUS
  <2> QED
    BY <1>3, <1>4, <1>5, <1>6, <2>1
<1>15. f[8] = XOR[Y[3][1]][K[3][1]]
  <2>1. 8 \div 4 = 2 /\ 1 + (8 % 4) = 1 /\ 8 + 1 = 9 /\ 8 \in 0..15
    OBVIOUS
  <2> QED
    BY <1>3, <1>4, <1>5, <1>6, <2>1
<1>16. f[9] = XOR[Y[3][2]][K[3][2]]
  <2>1. 9 \div 4 = 2 /\ 1 + (9 % 4) = 2 /\ 9 + 1 = 10 /\ 9 \in 0..15
    OBVIOUS
  <2> QED
    BY <1>3, <1>4, <1>5, <1>6, <2>1
<1>17. f[10] = XOR[Y[3][3]][K[3][3]]
  <2>1. 10 \div 4 = 2 /\ 1 + (10 % 4) = 3 /\ 10 + 1 = 11 /\ 10 \in 0..15
    OBVIOUS
  <2> QED
    BY <1>3, <1>4, <1>5, <1>6, <2>1
<1>18. f[11] = XOR[Y[3][4]][K[3][4]]
  <2>1. 11 \div 4 = 2 /\ 1 + (11 % 4) = 4 /\ 11 + 1 = 12 /\ 11 \in 0..15
    OBVIOUS
  <2> QED
    BY <1>3, <1>4, <1>5, <1>6, <2>1
<1>19. f[12] = XOR[Y[4][1]][K[4][1]]
  <2>1. 12 \div 4 = 3 /\ 1 + (12 % 4) = 1 /\ 12 + 1 = 13 /\ 12 \in 0..15
    OBVIOUS
  <2> QED
    BY <1>3, <1>4, <1>5, <1>6, <2>1
<1>20. f[13] = XOR[Y[4][2]][K[4][2]]
  <2>1. 13 \div 4 = 3 /\ 1 + (13 % 4) = 2 /\ 13 + 1 = 14 /\ 13 \in 0..15
    OBVIOUS
  <2> QED
    BY <1>3, <1>4, <1>5, <1>6, <2>1
<1>21. f[14] = XOR[Y[4][3]][K[4][3]]
  <2>1. 14 \div 4 = 3 /\ 1 + (14 % 4) = 3 /\ 14 + 1 = 15 /\ 14 \in 0..15
    OBVIOUS
  <2> QED
    BY <1>3, <1>4, <1>5, <1>6, <2>1
<1>22. f[15] = XOR[Y[4][4]][K[4][4]]
  <2>1. 15 \div 4 = 3 /\ 1 + (15 % 4) = 4 /\ 15 + 1 = 16 /\ 15 \in 0..15
    OBVIOUS
  <2> QED
    BY <1>3, <1>4, <1>5, <1>6, <2>1
<1> QED
  BY <1>2, <1>7, <1>8, <1>9, <1>10, <1>11, <1>12, <1>13, <1>14, <1>15, <1>16, <1>17, <1>18, <1>19, <1>20, <1>21, <1>22 DEF s, K, Flat, AddState, xorw

LEMMA WordIsBytes ==
  ASSUME NEW w, IsWord(w)
  PROVE  w \in Seq(Byte) /\ Len(w) = 4
<1>1. ASSUME NEW a \in Byte, NEW b \in Byte, NEW c \in Byte, NEW d \in Byte
      PROVE  <<a, b, c, d>> \in Seq(Byte) /\ Len(<<a, b, c, d>>) = 4
  OBVIOUS
<1> QED
  BY <1>1 DEF IsWord

LEMMA BytesAreWord ==
  ASSUME NEW s \in Seq(Byte), Len(s) = 4
  PROVE  IsWord(s)
<1>1. s = <<s[1], s[2], s[3], s[4]>>
  OBVIOUS
<1>2. s[1] \in Byte /\ s[2] \in Byte /\ s[3] \in Byte /\ s[4] \in Byte
  BY ElementOfSeq
<1> QED
  BY <1>1, <1>2 DEF IsWord

\* The four bytes from offset 4 * i, as the macro reads them.
LEMMA LoadedWord ==
  ASSUME NEW s \in Seq(Byte), NEW i \in Nat, 4 * i + 4 <= Len(s)
  PROVE  /\ IsWord(load_word(s, i))
         /\ load_word(s, i) = <<s[4 * i + 1], s[4 * i + 2], s[4 * i + 3], s[4 * i + 4]>>
<1> DEFINE m == 4 * i + 1
           n == 4 * i + 4
           u == SubSeq(s, m, n)
<1>1. m \in Int /\ n \in Int /\ m <= n /\ n - m + 1 = 4
  OBVIOUS
<1>2. \A k \in m..n : s[k] \in Byte
  <2>1. \A k \in m..n : k \in 1..Len(s)
    OBVIOUS
  <2> QED
    BY <2>1, ElementOfSeq
<1>3. load_word(s, i) = u
  BY DEF load_word
<1>4. m + 1 - 1 = 4 * i + 1 /\ m + 2 - 1 = 4 * i + 2 /\ m + 3 - 1 = 4 * i + 3
      /\ m + 4 - 1 = 4 * i + 4
  OBVIOUS
<1> HIDE DEF m, n
<1>5. u \in Seq(Byte) /\ Len(u) = 4 /\ \A k \in 1..4 : u[k] = s[m + k - 1]
  BY <1>1, <1>2, SubSeqProperties
<1>6. u[1] = s[m + 1 - 1] /\ u[2] = s[m + 2 - 1] /\ u[3] = s[m + 3 - 1]
      /\ u[4] = s[m + 4 - 1]
  BY <1>5
<1>7. IsWord(u)
  BY <1>5, BytesAreWord
<1> QED
  BY <1>3, <1>4, <1>6, <1>7 DEF IsWord

\* What the macro reads from offset 4 * i.
Loaded(s, i) ==
  /\ IsWord(load_word(s, i))
  /\ load_word(s, i) = <<s[4 * i + 1], s[4 * i + 2], s[4 * i + 3], s[4 * i + 4]>>
InReach(s, i) == s \in Seq(Byte) /\ i \in Nat /\ 4 * i + 4 <= Len(s)

LEMMA WordIsLoaded ==
  ASSUME NEW s, NEW i, InReach(s, i)
  PROVE  Loaded(s, i)
  BY LoadedWord DEF Loaded, InReach

IsBlock(s) == s \in Seq(Byte) /\ Len(s) = 16
Columns(s) == <<load_word(s, 0), load_word(s, 1), load_word(s, 2), load_word(s, 3)>>

LEMMA BlockColumns ==
  ASSUME NEW s, IsBlock(s)
  PROVE  IsState(Columns(s)) /\ Flat(Columns(s)) = s
<1>1. s \in Seq(Byte) /\ Len(s) = 16
  BY DEF IsBlock
<1>2. Loaded(s, 0) /\ Loaded(s, 1) /\ Loaded(s, 2) /\ Loaded(s, 3)
  <2>1. InReach(s, 0) /\ InReach(s, 1) /\ InReach(s, 2) /\ InReach(s, 3)
    BY <1>1 DEF InReach
  <2> QED
    BY <2>1, WordIsLoaded
<1>3. /\ IsWord(load_word(s, 0)) /\ IsWord(load_word(s, 1))
      /\ IsWord(load_word(s, 2)) /\ IsWord(load_word(s, 3))
      /\ load_word(s, 0) = <<s[1], s[2], s[3], s[4]>>
      /\ load_word(s, 1) = <<s[5], s[6], s[7], s[8]>>
      /\ load_word(s, 2) = <<s[9], s[10], s[11], s[12]>>
      /\ load_word(s, 3) = <<s[13], s[14], s[15], s[16]>>
  BY <1>2 DEF Loaded
<1>4. s = << s[1], s[2], s[3], s[4], s[5], s[6], s[7], s[8],
               s[9], s[10], s[11], s[12], s[13], s[14], s[15], s[16] >>
  BY <1>1
<1> QED
  BY <1>3, <1>4, StateOfWords DEF Columns, Flat

LEMMA FlatIsBlock ==
  ASSUME NEW Y, IsState(Y)
  PROVE  /\ Y[1] \o Y[2] \o Y[3] \o Y[4] = Flat(Y)
         /\ IsBlock(Flat(Y))
<1>1. /\ Y[1] \in Seq(Byte) /\ Y[2] \in Seq(Byte) /\ Y[3] \in Seq(Byte) /\ Y[4] \in Seq(Byte)
      /\ Len(Y[1]) = 4 /\ Len(Y[2]) = 4 /\ Len(Y[3]) = 4 /\ Len(Y[4]) = 4
  BY WordIsBytes DEF IsState
<1> DEFINE p == Y[1] \o Y[2]
           q == p \o Y[3]
           s == q \o Y[4]
<1>2. p \in Seq(Byte) /\ Len(p) = 8
      /\ \A i \in 1..8 : p[i] = IF i <= 4 THEN Y[1][i] ELSE Y[2][i - 4]
  <2>1. p \in Seq(Byte) /\ Len(p) = Len(Y[1]) + Len(Y[2])
        /\ \A i \in 1..(Len(Y[1]) + Len(Y[2])) :
             p[i] = IF i <= Len(Y[1]) THEN Y[1][i] ELSE Y[2][i - Len(Y[1])]
    BY <1>1, ConcatProperties
  <2>2. Len(Y[1]) + Len(Y[2]) = 8
    BY <1>1
  <2> QED
    BY <1>1, <2>1, <2>2
<1> HIDE DEF p
<1>3. q \in Seq(Byte) /\ Len(q) = 12
      /\ \A i \in 1..12 : q[i] = IF i <= 8 THEN p[i] ELSE Y[3][i - 8]
  <2>1. q \in Seq(Byte) /\ Len(q) = Len(p) + Len(Y[3])
        /\ \A i \in 1..(Len(p) + Len(Y[3])) :
             q[i] = IF i <= Len(p) THEN p[i] ELSE Y[3][i - Len(p)]
    BY <1>1, <1>2, ConcatProperties
  <2>2. Len(p) + Len(Y[3]) = 12
    BY <1>1, <1>2
  <2> QED
    BY <1>1, <1>2, <2>1, <2>2
<1> HIDE DEF q
<1>4. s \in Seq(Byte) /\ Len(s) = 16
      /\ \A i \in 1..16 : s[i] = IF i <= 12 THEN q[i] ELSE Y[4][i - 12]
  <2>1. s \in Seq(Byte) /\ Len(s) = Len(q) + Len(Y[4])
        /\ \A i \in 1..(Len(q) + Len(Y[4])) :
             s[i] = IF i <= Len(q) THEN q[i] ELSE Y[4][i - Len(q)]
    BY <1>1, <1>3, ConcatProperties
  <2>2. Len(q) + Len(Y[4]) = 16
    BY <1>1, <1>3
  <2> QED
    BY <1>1, <1>3, <2>1, <2>2
<1>5. s = << s[1], s[2], s[3], s[4], s[5], s[6], s[7], s[8],
               s[9], s[10], s[11], s[12], s[13], s[14], s[15], s[16] >>
  <2> HIDE DEF s
  <2> QED BY <1>4
<1>6. /\ p[1] = Y[1][1] /\ p[2] = Y[1][2] /\ p[3] = Y[1][3] /\ p[4] = Y[1][4]
      /\ p[5] = Y[2][1] /\ p[6] = Y[2][2] /\ p[7] = Y[2][3] /\ p[8] = Y[2][4]
  BY <1>2
<1>7. /\ q[1] = p[1] /\ q[2] = p[2] /\ q[3] = p[3] /\ q[4] = p[4]
      /\ q[5] = p[5] /\ q[6] = p[6] /\ q[7] = p[7] /\ q[8] = p[8]
      /\ q[9] = Y[3][1] /\ q[10] = Y[3][2] /\ q[11] = Y[3][3] /\ q[12] = Y[3][4]
  BY <1>3
<1> HIDE DEF s
<1>8. /\ s[1] = q[1] /\ s[2] = q[2] /\ s[3] = q[3] /\ s[4] = q[4]
      /\ s[5] = q[5] /\ s[6] = q[6] /\ s[7] = q[7] /\ s[8] = q[8]
      /\ s[9] = q[9] /\ s[10] = q[10] /\ s[11] = q[11] /\ s[12] = q[12]
      /\ s[13] = Y[4][1] /\ s[14] = Y[4][2] /\ s[15] = Y[4][3] /\ s[16] = Y[4][4]
  BY <1>4
<1>9. s = Flat(Y)
  BY <1>5, <1>6, <1>7, <1>8 DEF Flat
<1> QED
  BY <1>4, <1>9 DEF s, q, p, IsBlock

-----------------------------------------------------------------------------
(***************************************************************************)
(* AES_FROUND, AES_RROUND and the last round, on columns.                  *)
(***************************************************************************)
LEMMA ForwardShifts ==
  ASSUME NEW Y
  PROVE  /\ shifted(Y, 0, 0, 1) = Y[1][1] /\ shifted(Y, 0, 1, 1) = Y[2][2]
         /\ shifted(Y, 0, 2, 1) = Y[3][3] /\ shifted(Y, 0, 3, 1) = Y[4][4]
         /\ shifted(Y, 1, 0, 1) = Y[2][1] /\ shifted(Y, 1, 1, 1) = Y[3][2]
         /\ shifted(Y, 1, 2, 1) = Y[4][3] /\ shifted(Y, 1, 3, 1) = Y[1][4]
         /\ shifted(Y, 2, 0, 1) = Y[3][1] /\ shifted(Y, 2, 1, 1) = Y[4][2]
         /\ shifted(Y, 2, 2, 1) = Y[1][3] /\ shifted(Y, 2, 3, 1) = Y[2][4]
         /\ shifted(Y, 3, 0, 1) = Y[4][1] /\ shifted(Y, 3, 1, 1) = Y[1][2]
         /\ shifted(Y, 3, 2, 1) = Y[2][3] /\ shifted(Y, 3, 3, 1) = Y[3][4]
  BY DEF shifted

\* A column that would be left of the first one is taken from the end.
LEMMA AroundFour ==
  ASSUME NEW c \in Int, NEW d \in 0..3, c = d - 4
  PROVE  c % 4 = d
<1>1. c % 4 = d % 4
  OBVIOUS
<1> QED
  BY <1>1

LEMMA ReverseShifts ==
  ASSUME NEW Y
  PROVE  /\ shifted(Y, 0, 0, -1) = Y[1][1] /\ shifted(Y, 0, 1, -1) = Y[4][2]
         /\ shifted(Y, 0, 2, -1) = Y[3][3] /\ shifted(Y, 0, 3, -1) = Y[2][4]
         /\ shifted(Y, 1, 0, -1) = Y[2][1] /\ shifted(Y, 1, 1, -1) = Y[1][2]
         /\ shifted(Y, 1, 2, -1) = Y[4][3] /\ shifted(Y, 1, 3, -1) = Y[3][4]
         /\ shifted(Y, 2, 0, -1) = Y[3][1] /\ shifted(Y, 2, 1, -1) = Y[2][2]
         /\ shifted(Y, 2, 2, -1) = Y[1][3] /\ shifted(Y, 2, 3, -1) = Y[4][4]
         /\ shifted(Y, 3, 0, -1) = Y[4][1] /\ shifted(Y, 3, 1, -1) = Y[3][2]
         /\ shifted(Y, 3, 2, -1) = Y[2][3] /\ shifted(Y, 3, 3, -1) = Y[1][4]
<1>1. 1 + ((0 + (-1) * 0) % 4) = 1
  OBVIOUS
<1>2. 1 + ((0 + (-1) * 1) % 4) = 4
  <2>1. (0 + (-1) * 1) \in Int /\ 3 \in 0..3 /\ (0 + (-1) * 1) = 3 - 4
    OBVIOUS
  <2>2. (0 + (-1) * 1) % 4 = 3
    BY <2>1, AroundFour
  <2> QED
    BY <2>2
<1>3. 1 + ((0 + (-1) * 2) % 4) = 3
  <2>1. (0 + (-1) * 2) \in Int /\ 2 \in 0..3 /\ (0 + (-1) * 2) = 2 - 4
    OBVIOUS
  <2>2. (0 + (-1) * 2) % 4 = 2
    BY <2>1, AroundFour
  <2> QED
    BY <2>2
<1>4. 1 + ((0 + (-1) * 3) % 4) = 2
  <2>1. (0 + (-1) * 3) \in Int /\ 1 \in 0..3 /\ (0 + (-1) * 3) = 1 - 4
    OBVIOUS
  <2>2. (0 + (-1) * 3) % 4 = 1
    BY <2>1, AroundFour
  <2> QED
    BY <2>2
<1>5. 1 + ((1 + (-1) * 0) % 4) = 2
  OBVIOUS
<1>6. 1 + ((1 + (-1) * 1) % 4) = 1
  OBVIOUS
<1>7. 1 + ((1 + (-1) * 2) % 4) = 4
  <2>1. (1 + (-1) * 2) \in Int /\ 3 \in 0..3 /\ (1 + (-1) * 2) = 3 - 4
    OBVIOUS
  <2>2. (1 + (-1) * 2) % 4 = 3
    BY <2>1, AroundFour
  <2> QED
    BY <2>2
<1>8. 1 + ((1 + (-1) * 3) % 4) = 3
  <2>1. (1 + (-1) * 3) \in Int /\ 2 \in 0..3 /\ (1 + (-1) * 3) = 2 - 4
    OBVIOUS
  <2>2. (1 + (-1) * 3) % 4 = 2
    BY <2>1, AroundFour
  <2> QED
    BY <2>2
<1>9. 1 + ((2 + (-1) * 0) % 4) = 3
  OBVIOUS
<1>10. 1 + ((2 + (-1) * 1) % 4) = 2
  OBVIOUS
<1>11. 1 + ((2 + (-1) * 2) % 4) = 1
  OBVIOUS
<1>12. 1 + ((2 + (-1) * 3) % 4) = 4
  <2>1. (2 + (-1) * 3) \in Int /\ 3 \in 0..3 /\ (2 + (-1) * 3) = 3 - 4
    OBVIOUS
  <2>2. (2 + (-1) * 3) % 4 = 3
    BY <2>1, AroundFour
  <2> QED
    BY <2>2
<1>13. 1 + ((3 + (-1) * 0) % 4) = 4
  OBVIOUS
<1>14. 1 + ((3 + (-1) * 1) % 4) = 3
  OBVIOUS
<1>15. 1 + ((3 + (-1) * 2) % 4) = 2
  OBVIOUS
<1>16. 1 + ((3 + (-1) * 3) % 4) = 1
  OBVIOUS
<1>17. 0 + 1 = 1 /\ 1 + 1 = 2 /\ 2 + 1 = 3 /\ 3 + 1 = 4
  OBVIOUS
<1> QED
  BY <1>1, <1>2, <1>3, <1>4, <1>5, <1>6, <1>7, <1>8, <1>9, <1>10, <1>11, <1>12, <1>13, <1>14, <1>15, <1>16, <1>17 DEF shifted

LEMMA StateBytes ==
  ASSUME NEW Y, IsState(Y)
  PROVE  /\ Y[1][1] \in Byte /\ Y[1][2] \in Byte /\ Y[1][3] \in Byte /\ Y[1][4] \in Byte
         /\ Y[2][1] \in Byte /\ Y[2][2] \in Byte /\ Y[2][3] \in Byte /\ Y[2][4] \in Byte
         /\ Y[3][1] \in Byte /\ Y[3][2] \in Byte /\ Y[3][3] \in Byte /\ Y[3][4] \in Byte
         /\ Y[4][1] \in Byte /\ Y[4][2] \in Byte /\ Y[4][3] \in Byte /\ Y[4][4] \in Byte
  BY DEF IsState, IsWord

\* A round key added from the left.
LEMMA KeyFromLeft ==
  ASSUME NEW RK, NEW r \in Nat, IsState(KeyState(RK, r)), NEW at, at = 4 * r + 1,
         NEW Y, IsState(Y)
  PROVE  << xorw(RK[at + 0], Y[1]), xorw(RK[at + 1], Y[2]),
            xorw(RK[at + 2], Y[3]), xorw(RK[at + 3], Y[4]) >> = AddState(Y, KeyState(RK, r))
<1> DEFINE K == KeyState(RK, r)
<1>1. at + 0 = 4 * r + 1 /\ at + 1 = 4 * r + 2 /\ at + 2 = 4 * r + 3 /\ at + 3 = 4 * r + 4
  OBVIOUS
<1>2. /\ K[1] = RK[at + 0] /\ K[2] = RK[at + 1] /\ K[3] = RK[at + 2] /\ K[4] = RK[at + 3]
  BY <1>1 DEF KeyState
<1> HIDE DEF K
<1>3. /\ IsWord(K[1]) /\ IsWord(K[2]) /\ IsWord(K[3]) /\ IsWord(K[4])
      /\ IsWord(Y[1]) /\ IsWord(Y[2]) /\ IsWord(Y[3]) /\ IsWord(Y[4])
  BY DEF IsState, K
<1>4. /\ xorw(K[1], Y[1]) = xorw(Y[1], K[1]) /\ xorw(K[2], Y[2]) = xorw(Y[2], K[2])
      /\ xorw(K[3], Y[3]) = xorw(Y[3], K[3]) /\ xorw(K[4], Y[4]) = xorw(Y[4], K[4])
  BY <1>3, XorWord
<1>5. << xorw(K[1], Y[1]), xorw(K[2], Y[2]), xorw(K[3], Y[3]), xorw(K[4], Y[4]) >>
        = AddState(Y, K)
  BY <1>4 DEF AddState
<1> QED
  BY <1>2, <1>5 DEF K

\* AES_FROUND, four reads of the tables for each column, is SubBytes, ShiftRows
\* and MixColumns of FIPS 197 and the addition of a round key.
THEOREM ForwardRound ==
  ASSUME NEW Y, IsState(Y), NEW RK, NEW r \in Nat, IsState(KeyState(RK, r)),
         NEW at, at = 4 * r + 1
  PROVE  table_round(FT, RK, at, Y, 1)
           = AddState(MixState(SubState(ShiftState(Y))), KeyState(RK, r))
<1> DEFINE c(i) == Column(FT, shifted(Y, i, 0, 1), shifted(Y, i, 1, 1),
                             shifted(Y, i, 2, 1), shifted(Y, i, 3, 1))
           Z == MixState(SubState(ShiftState(Y)))
<1>1. table_round(FT, RK, at, Y, 1) =
        << xorw(RK[at + 0], c(0)), xorw(RK[at + 1], c(1)),
           xorw(RK[at + 2], c(2)), xorw(RK[at + 3], c(3)) >>
  BY DEF table_round, Column
<1>2. c(0) = Z[1]
  <2>1. c(0) = Column(FT, Y[1][1], Y[2][2], Y[3][3], Y[4][4])
    BY ForwardShifts
  <2>2. Column(FT, Y[1][1], Y[2][2], Y[3][3], Y[4][4]) = MixWord(SubWord(<<Y[1][1], Y[2][2], Y[3][3], Y[4][4]>>))
    BY StateBytes, ForwardColumn
  <2> QED
    BY <2>1, <2>2 DEF MixState, SubState, ShiftState
<1>3. c(1) = Z[2]
  <2>1. c(1) = Column(FT, Y[2][1], Y[3][2], Y[4][3], Y[1][4])
    BY ForwardShifts
  <2>2. Column(FT, Y[2][1], Y[3][2], Y[4][3], Y[1][4]) = MixWord(SubWord(<<Y[2][1], Y[3][2], Y[4][3], Y[1][4]>>))
    BY StateBytes, ForwardColumn
  <2> QED
    BY <2>1, <2>2 DEF MixState, SubState, ShiftState
<1>4. c(2) = Z[3]
  <2>1. c(2) = Column(FT, Y[3][1], Y[4][2], Y[1][3], Y[2][4])
    BY ForwardShifts
  <2>2. Column(FT, Y[3][1], Y[4][2], Y[1][3], Y[2][4]) = MixWord(SubWord(<<Y[3][1], Y[4][2], Y[1][3], Y[2][4]>>))
    BY StateBytes, ForwardColumn
  <2> QED
    BY <2>1, <2>2 DEF MixState, SubState, ShiftState
<1>5. c(3) = Z[4]
  <2>1. c(3) = Column(FT, Y[4][1], Y[1][2], Y[2][3], Y[3][4])
    BY ForwardShifts
  <2>2. Column(FT, Y[4][1], Y[1][2], Y[2][3], Y[3][4]) = MixWord(SubWord(<<Y[4][1], Y[1][2], Y[2][3], Y[3][4]>>))
    BY StateBytes, ForwardColumn
  <2> QED
    BY <2>1, <2>2 DEF MixState, SubState, ShiftState
<1>6. IsState(Z)
  BY StateMaps
<1> HIDE DEF c, Z
<1>7. table_round(FT, RK, at, Y, 1) =
        << xorw(RK[at + 0], Z[1]), xorw(RK[at + 1], Z[2]),
           xorw(RK[at + 2], Z[3]), xorw(RK[at + 3], Z[4]) >>
  BY <1>1, <1>2, <1>3, <1>4, <1>5
<1>8. table_round(FT, RK, at, Y, 1) = AddState(Z, KeyState(RK, r))
  BY <1>6, <1>7, KeyFromLeft
<1> QED
  BY <1>8 DEF Z

\* AES_RROUND is the inverses of these, and the addition of a round key.
THEOREM ReverseRound ==
  ASSUME NEW Y, IsState(Y), NEW RK, NEW r \in Nat, IsState(KeyState(RK, r)),
         NEW at, at = 4 * r + 1
  PROVE  table_round(RT, RK, at, Y, -1)
           = AddState(InvState(RSubState(UnshiftState(Y))), KeyState(RK, r))
<1> DEFINE c(i) == Column(RT, shifted(Y, i, 0, -1), shifted(Y, i, 1, -1),
                             shifted(Y, i, 2, -1), shifted(Y, i, 3, -1))
           Z == InvState(RSubState(UnshiftState(Y)))
<1>1. table_round(RT, RK, at, Y, -1) =
        << xorw(RK[at + 0], c(0)), xorw(RK[at + 1], c(1)),
           xorw(RK[at + 2], c(2)), xorw(RK[at + 3], c(3)) >>
  BY DEF table_round, Column
<1>2. c(0) = Z[1]
  <2>1. c(0) = Column(RT, Y[1][1], Y[4][2], Y[3][3], Y[2][4])
    BY ReverseShifts
  <2>2. Column(RT, Y[1][1], Y[4][2], Y[3][3], Y[2][4]) = InvWord(RSubWord(<<Y[1][1], Y[4][2], Y[3][3], Y[2][4]>>))
    BY StateBytes, ReverseColumn
  <2> QED
    BY <2>1, <2>2 DEF InvState, RSubState, UnshiftState
<1>3. c(1) = Z[2]
  <2>1. c(1) = Column(RT, Y[2][1], Y[1][2], Y[4][3], Y[3][4])
    BY ReverseShifts
  <2>2. Column(RT, Y[2][1], Y[1][2], Y[4][3], Y[3][4]) = InvWord(RSubWord(<<Y[2][1], Y[1][2], Y[4][3], Y[3][4]>>))
    BY StateBytes, ReverseColumn
  <2> QED
    BY <2>1, <2>2 DEF InvState, RSubState, UnshiftState
<1>4. c(2) = Z[3]
  <2>1. c(2) = Column(RT, Y[3][1], Y[2][2], Y[1][3], Y[4][4])
    BY ReverseShifts
  <2>2. Column(RT, Y[3][1], Y[2][2], Y[1][3], Y[4][4]) = InvWord(RSubWord(<<Y[3][1], Y[2][2], Y[1][3], Y[4][4]>>))
    BY StateBytes, ReverseColumn
  <2> QED
    BY <2>1, <2>2 DEF InvState, RSubState, UnshiftState
<1>5. c(3) = Z[4]
  <2>1. c(3) = Column(RT, Y[4][1], Y[3][2], Y[2][3], Y[1][4])
    BY ReverseShifts
  <2>2. Column(RT, Y[4][1], Y[3][2], Y[2][3], Y[1][4]) = InvWord(RSubWord(<<Y[4][1], Y[3][2], Y[2][3], Y[1][4]>>))
    BY StateBytes, ReverseColumn
  <2> QED
    BY <2>1, <2>2 DEF InvState, RSubState, UnshiftState
<1>6. IsState(Z)
  BY StateMaps
<1> HIDE DEF c, Z
<1>7. table_round(RT, RK, at, Y, -1) =
        << xorw(RK[at + 0], Z[1]), xorw(RK[at + 1], Z[2]),
           xorw(RK[at + 2], Z[3]), xorw(RK[at + 3], Z[4]) >>
  BY <1>1, <1>2, <1>3, <1>4, <1>5
<1>8. table_round(RT, RK, at, Y, -1) = AddState(Z, KeyState(RK, r))
  BY <1>6, <1>7, KeyFromLeft
<1> QED
  BY <1>8 DEF Z

LEMMA ForwardLast ==
  ASSUME NEW Y, IsState(Y), NEW RK, NEW r \in Nat, IsState(KeyState(RK, r)),
         NEW at, at = 4 * r + 1
  PROVE  last_round(FSb, RK, at, Y, 1)
           = AddState(SubState(ShiftState(Y)), KeyState(RK, r))
<1> DEFINE Z == SubState(ShiftState(Y))
<1>1. last_round(FSb, RK, at, Y, 1) =
        << xorw(RK[at + 0], Z[1]), xorw(RK[at + 1], Z[2]),
           xorw(RK[at + 2], Z[3]), xorw(RK[at + 3], Z[4]) >>
  BY ForwardShifts DEF last_round, SubState, ShiftState, SubWord
<1>2. IsState(Z)
  BY StateMaps
<1> HIDE DEF Z
<1>3. last_round(FSb, RK, at, Y, 1) = AddState(Z, KeyState(RK, r))
  BY <1>1, <1>2, KeyFromLeft
<1> QED
  BY <1>3 DEF Z

LEMMA ReverseLast ==
  ASSUME NEW Y, IsState(Y), NEW RK, NEW r \in Nat, IsState(KeyState(RK, r)),
         NEW at, at = 4 * r + 1
  PROVE  last_round(RSb, RK, at, Y, -1)
           = AddState(RSubState(UnshiftState(Y)), KeyState(RK, r))
<1> DEFINE Z == RSubState(UnshiftState(Y))
<1>1. last_round(RSb, RK, at, Y, -1) =
        << xorw(RK[at + 0], Z[1]), xorw(RK[at + 1], Z[2]),
           xorw(RK[at + 2], Z[3]), xorw(RK[at + 3], Z[4]) >>
  BY ReverseShifts DEF last_round, RSubState, UnshiftState, RSubWord
<1>2. IsState(Z)
  BY StateMaps
<1> HIDE DEF Z
<1>3. last_round(RSb, RK, at, Y, -1) = AddState(Z, KeyState(RK, r))
  BY <1>1, <1>2, KeyFromLeft
<1> QED
  BY <1>3 DEF Z

Words4 == Byte \X Byte \X Byte \X Byte
States == Words4 \X Words4 \X Words4 \X Words4

LEMMA WordsAre == \A w : IsWord(w) <=> w \in Words4
  BY DEF IsWord, Words4

LEMMA StatesAre == \A Y : IsState(Y) <=> Y \in States
  BY WordsAre DEF IsState, States

\* A round of the code, the last round, and the columns after each round.
RoundOf(mode, Y, K) ==
  IF mode = "DECRYPT" THEN AddState(InvState(RSubState(UnshiftState(Y))), K)
  ELSE AddState(MixState(SubState(ShiftState(Y))), K)
LastOf(mode, Y, K) ==
  IF mode = "DECRYPT" THEN AddState(RSubState(UnshiftState(Y)), K)
  ELSE AddState(SubState(ShiftState(Y)), K)
RoundsGo(X, mode, RK, n, s) ==
  /\ X[0] = AddState(s, KeyState(RK, 0))
  /\ \A r \in 1..(n-1) : X[r] = RoundOf(mode, X[r-1], KeyState(RK, r))
KeysFor(RK, n) == \A r \in 0..n : IsState(KeyState(RK, r))

LEMMA RoundStates ==
  ASSUME NEW mode, NEW Y, NEW K, IsState(Y), IsState(K)
  PROVE  IsState(RoundOf(mode, Y, K)) /\ IsState(LastOf(mode, Y, K))
<1>1. IsState(InvState(RSubState(UnshiftState(Y)))) /\ IsState(MixState(SubState(ShiftState(Y))))
      /\ IsState(RSubState(UnshiftState(Y))) /\ IsState(SubState(ShiftState(Y)))
  BY StateMaps
<1> QED
  BY <1>1, AddStates DEF RoundOf, LastOf

LEMMA TableRounds ==
  ASSUME NEW mode, NEW Y, IsState(Y), NEW RK, NEW r \in Nat, IsState(KeyState(RK, r))
  PROVE  /\ RoundOf(mode, Y, KeyState(RK, r)) =
              IF mode = "DECRYPT" THEN table_round(RT, RK, 4 * r + 1, Y, -1)
              ELSE table_round(FT, RK, 4 * r + 1, Y, 1)
         /\ LastOf(mode, Y, KeyState(RK, r)) =
              IF mode = "DECRYPT" THEN last_round(RSb, RK, 4 * r + 1, Y, -1)
              ELSE last_round(FSb, RK, 4 * r + 1, Y, 1)
<1> DEFINE at == 4 * r + 1
<1>1. at = 4 * r + 1
  OBVIOUS
<1> HIDE DEF at
<1>2. /\ table_round(RT, RK, at, Y, -1) = AddState(InvState(RSubState(UnshiftState(Y))), KeyState(RK, r))
      /\ table_round(FT, RK, at, Y, 1) = AddState(MixState(SubState(ShiftState(Y))), KeyState(RK, r))
  BY <1>1, ForwardRound, ReverseRound
<1>3. /\ last_round(RSb, RK, at, Y, -1) = AddState(RSubState(UnshiftState(Y)), KeyState(RK, r))
      /\ last_round(FSb, RK, at, Y, 1) = AddState(SubState(ShiftState(Y)), KeyState(RK, r))
  BY <1>1, ForwardLast, ReverseLast
<1> QED
  BY <1>1, <1>2, <1>3 DEF RoundOf, LastOf

\* The states after the rounds exist and are states.
RoundEntry(X, mode, RK, s, r) ==
  IF r = 0 THEN AddState(s, KeyState(RK, 0)) ELSE RoundOf(mode, X[r-1], KeyState(RK, r))

RoundsOn(X, mode, RK, s, n) == X = [r \in 0..n |-> RoundEntry(X, mode, RK, s, r)]

LEMMA RoundsExist ==
  ASSUME NEW mode, NEW RK, NEW n \in Nat, NEW s, IsState(s), KeysFor(RK, n)
  PROVE  \E X \in [0..n -> States] : RoundsOn(X, mode, RK, s, n)
<1> DEFINE V == States
           S == [p \in (1..n) \X V |-> RoundOf(mode, p[2], KeyState(RK, p[1]))]
           b == AddState(s, KeyState(RK, 0))
<1>1. S \in [(1..n) \X V -> V]
  <2>1. ASSUME NEW r \in 1..n, NEW Y \in V PROVE RoundOf(mode, Y, KeyState(RK, r)) \in V
    <3>1. IsState(KeyState(RK, r)) /\ IsState(Y)
      BY StatesAre DEF KeysFor
    <3> QED
      BY <3>1, RoundStates, StatesAre
  <2> QED
    BY <2>1
<1>2. b \in V
  <2>1. 0 \in 0..n
    OBVIOUS
  <2> QED
    BY <2>1, AddStates, StatesAre DEF KeysFor
<1>3. PICK X \in [0..n -> V] : StepsOn(X, n, b, S)
  <2> HIDE DEF V, S, b
  <2> QED
    BY <1>1, <1>2, RecursionExists
<1>4. ASSUME NEW r \in 0..n PROVE X[r] = RoundEntry(X, mode, RK, s, r)
  <2>1. X[r] = IF r = 0 THEN b ELSE S[<<r, X[r-1]>>]
    BY <1>3 DEF StepsOn
  <2>2. CASE r = 0
    BY <2>1, <2>2 DEF RoundEntry
  <2>3. CASE r # 0
    <3>1. r \in 1..n /\ r - 1 \in 0..n
      BY <2>3
    <3>2. <<r, X[r-1]>> \in (1..n) \X V
      BY <3>1
    <3>3. S[<<r, X[r-1]>>] = RoundOf(mode, X[r-1], KeyState(RK, r))
      BY <3>2
    <3> QED
      BY <2>1, <2>3, <3>3 DEF RoundEntry
  <2> QED
    BY <2>2, <2>3
<1>5. X = [r \in 0..n |-> X[r]]
  OBVIOUS
<1> QED
  BY <1>4, <1>5 DEF RoundsOn

LEMMA RoundsAreStates ==
  ASSUME NEW mode, NEW RK, NEW n \in Nat, NEW s, IsState(s), KeysFor(RK, n),
         NEW X, RoundsGo(X, mode, RK, n, s)
  PROVE  \A r \in 0..(n-1) : IsState(X[r])
<1>1. CASE n = 0
  BY <1>1
<1>2. CASE n # 0
  <2> DEFINE Good == {r \in 0..(n-1) : IsState(X[r])}
  <2>1. 0 \in Good
    <3>1. 0 \in 0..(n-1) /\ 0 \in 0..n
      BY <1>2
    <3> QED
      BY <3>1, AddStates DEF RoundsGo, KeysFor
  <2>2. ASSUME NEW r \in 0..(n-1), r < n - 1, r \in Good PROVE r + 1 \in Good
    <3>1. r + 1 \in 1..(n-1) /\ (r + 1) - 1 = r /\ r + 1 \in 0..n /\ r + 1 \in 0..(n-1)
      BY <2>2
    <3>2. X[r+1] = RoundOf(mode, X[r], KeyState(RK, r + 1))
      BY <3>1 DEF RoundsGo
    <3> QED
      BY <2>2, <3>1, <3>2, RoundStates DEF KeysFor
  <2>3. n - 1 \in Nat
    BY <1>2
  <2> HIDE DEF Good
  <2>4. \A r \in 0..(n-1) : r \in Good
    BY <2>1, <2>2, <2>3, Induct
  <2> QED
    BY <2>4 DEF Good
<1> QED
  BY <1>1, <1>2

\* aes_cipher on a block, whichever way it goes.
CipherEntry(X, mode, RK, start, r) ==
  IF r = 0 THEN start
  ELSE IF mode = "DECRYPT" THEN table_round(Tables.RT, RK, 4 * r + 1, X[r-1], -1)
  ELSE table_round(Tables.FT, RK, 4 * r + 1, X[r-1], 1)
CipherStart(RK, input) ==
  << xorw(load_word(input, 0), RK[1]), xorw(load_word(input, 1), RK[2]),
     xorw(load_word(input, 2), RK[3]), xorw(load_word(input, 3), RK[4]) >>
CipherOn(X, mode, RK, start, n) == X = [r \in 0..n |-> CipherEntry(X, mode, RK, start, r)]
CipherEnd(X, mode, RK, n) ==
  IF mode = "DECRYPT" THEN last_round(Tables.RSb, RK, 4 * (n + 1) + 1, X[n], -1)
  ELSE last_round(Tables.FSb, RK, 4 * (n + 1) + 1, X[n], 1)

LEMMA CipherRounds ==
  ASSUME NEW mode, NEW RK, NEW n \in {10, 12, 14}, NEW input, IsBlock(input), KeysFor(RK, n)
  PROVE  \E X : /\ RoundsGo(X, mode, RK, n, Columns(input))
                /\ IsState(X[n-1])
                /\ aes_cipher(Tables, mode, RK, n, input)
                     = Flat(LastOf(mode, X[n-1], KeyState(RK, n)))
<1> DEFINE s == Columns(input)
           m == n - 1
           start == CipherStart(RK, input)
<1>1. rounds_by_table(n) = m /\ m \in Nat /\ m + 1 = n
  BY DEF rounds_by_table
<1>2. start = AddState(s, KeyState(RK, 0)) /\ IsState(s)
  <2>1. 4 * 0 + 1 = 1 /\ 4 * 0 + 2 = 2 /\ 4 * 0 + 3 = 3 /\ 4 * 0 + 4 = 4
    OBVIOUS
  <2> QED
    BY <2>1, BlockColumns DEF CipherStart, AddState, KeyState, Columns
<1> DEFINE X == CHOOSE p : CipherOn(p, mode, RK, start, m)
           end == CipherEnd(X, mode, RK, m)
<1>3. aes_cipher(Tables, mode, RK, n, input) = end[1] \o end[2] \o end[3] \o end[4]
  BY <1>1 DEF aes_cipher, CipherEnd, CipherOn, CipherEntry, CipherStart
<1>4. KeysFor(RK, m)
  BY <1>1 DEF KeysFor
<1> HIDE DEF s, m, start
<1>5. \E p : CipherOn(p, mode, RK, start, m)
  <2>1. PICK p \in [0..m -> States] : RoundsOn(p, mode, RK, s, m)
    BY <1>1, <1>2, <1>4, RoundsExist
  <2>2. ASSUME NEW r \in 0..m
        PROVE  RoundEntry(p, mode, RK, s, r) = CipherEntry(p, mode, RK, start, r)
    <3>1. CASE r = 0
      BY <3>1, <1>2 DEF RoundEntry, CipherEntry
    <3>2. CASE r # 0
      <4>1. r \in Nat /\ r - 1 \in 0..m /\ IsState(KeyState(RK, r))
        BY <1>1, <1>4, <3>2 DEF KeysFor
      <4>2. IsState(p[r-1])
        BY <4>1, <2>1, StatesAre
      <4> QED
        BY <3>2, <4>1, <4>2, TableRounds, TablesAre DEF RoundEntry, CipherEntry
    <3> QED
      BY <3>1, <3>2
  <2> QED
    BY <2>1, <2>2 DEF CipherOn, RoundsOn
<1>6. CipherOn(X, mode, RK, start, m)
  BY <1>5
<1> HIDE DEF X
<1>7. \A r \in 0..m : X[r] = CipherEntry(X, mode, RK, start, r)
  BY <1>6 DEF CipherOn
<1>8. X[0] = start
  BY <1>1, <1>7 DEF CipherEntry
<1>9. \A r \in 0..m : IsState(X[r])
  <2> DEFINE Good == {r \in 0..m : IsState(X[r])}
  <2>1. 0 \in Good
    <3>1. 0 \in 0..m
      BY <1>1
    <3> QED
      BY <1>2, <1>4, <1>8, <3>1, AddStates DEF KeysFor
  <2>2. ASSUME NEW r \in 0..m, r < m, r \in Good PROVE r + 1 \in Good
    <3>1. r + 1 \in 0..m /\ (r + 1) - 1 = r /\ r + 1 # 0 /\ r + 1 \in Nat
      BY <1>1, <2>2
    <3>2. IsState(KeyState(RK, r + 1))
      BY <1>4, <3>1 DEF KeysFor
    <3>3. X[r+1] = RoundOf(mode, X[r], KeyState(RK, r + 1))
      <4>1. X[r+1] = CipherEntry(X, mode, RK, start, r + 1)
        BY <1>7, <3>1
      <4> QED
        BY <2>2, <3>1, <3>2, <4>1, TableRounds, TablesAre DEF CipherEntry
    <3> QED
      BY <2>2, <3>1, <3>2, <3>3, RoundStates
  <2> HIDE DEF Good
  <2>3. \A r \in 0..m : r \in Good
    BY <1>1, <2>1, <2>2, Induct
  <2> QED
    BY <2>3 DEF Good
<1>10. ASSUME NEW r \in 1..m PROVE X[r] = RoundOf(mode, X[r-1], KeyState(RK, r))
  <2>1. r \in 0..m /\ r - 1 \in 0..m /\ r # 0 /\ r \in Nat
    BY <1>1
  <2>2. IsState(KeyState(RK, r)) /\ IsState(X[r-1])
    BY <1>4, <1>9, <2>1 DEF KeysFor
  <2> QED
    BY <1>7, <2>1, <2>2, TableRounds, TablesAre DEF CipherEntry
<1>11. RoundsGo(X, mode, RK, n, s)
  BY <1>2, <1>8, <1>10 DEF RoundsGo, m
<1>12. end = LastOf(mode, X[m], KeyState(RK, n)) /\ IsState(X[m]) /\ IsState(end)
  <2>1. IsState(KeyState(RK, n)) /\ n \in Nat /\ m \in 0..m
    BY <1>1 DEF KeysFor
  <2>2. IsState(X[m])
    BY <1>9, <2>1
  <2>3. end = LastOf(mode, X[m], KeyState(RK, n))
    BY <1>1, <2>1, <2>2, TableRounds, TablesAre DEF CipherEnd
  <2> QED
    BY <2>1, <2>2, <2>3, RoundStates
<1> HIDE DEF end
<1>13. aes_cipher(Tables, mode, RK, n, input) = Flat(end)
  BY <1>3, <1>12, FlatIsBlock
<1> QED
  BY <1>11, <1>12, <1>13 DEF m, s

\* The state of FIPS 197 after each round, when round m is the last.
FEntry(f, w, m, input, r) ==
  IF r = 0 THEN F!AddRoundKey(input, w, 0)
  ELSE F!AddRoundKey(IF r = m THEN F!ShiftRows(F!SubBytes(f[r-1]))
                     ELSE F!MixColumns(F!ShiftRows(F!SubBytes(f[r-1]))), w, r)
FOn(f, w, m, input) == f = [r \in 0..m |-> FEntry(f, w, m, input, r)]

LEMMA FRound ==
  ASSUME NEW Y, IsState(Y), NEW w, NEW r \in Nat, IsState(KeyState(w, r))
  PROVE  /\ F!AddRoundKey(F!MixColumns(F!ShiftRows(F!SubBytes(Flat(Y)))), w, r)
              = Flat(RoundOf("ENCRYPT", Y, KeyState(w, r)))
         /\ F!AddRoundKey(F!ShiftRows(F!SubBytes(Flat(Y))), w, r)
              = Flat(LastOf("ENCRYPT", Y, KeyState(w, r)))
<1> DEFINE Z == ShiftState(SubState(Y))
<1>1. F!ShiftRows(F!SubBytes(Flat(Y))) = Flat(Z) /\ IsState(Z) /\ Z = SubState(ShiftState(Y))
  <2>1. F!SubBytes(Flat(Y)) = Flat(SubState(Y)) /\ IsState(SubState(Y))
    BY FSubBytes, StateMaps
  <2>2. F!ShiftRows(Flat(SubState(Y))) = Flat(Z)
    BY <2>1, FShiftRows
  <2>3. IsState(Z)
    BY <2>1, StateMaps
  <2> QED
    BY <2>1, <2>2, <2>3, StateMaps
<1> HIDE DEF Z
<1>2. F!MixColumns(Flat(Z)) = Flat(MixState(Z)) /\ IsState(MixState(Z))
  BY <1>1, FMixColumns, StateMaps
<1>3. F!AddRoundKey(Flat(Z), w, r) = Flat(AddState(Z, KeyState(w, r)))
  BY <1>1, FAddRoundKey
<1>4. F!AddRoundKey(Flat(MixState(Z)), w, r) = Flat(AddState(MixState(Z), KeyState(w, r)))
  BY <1>2, FAddRoundKey
<1> QED
  BY <1>1, <1>2, <1>3, <1>4 DEF RoundOf, LastOf

\* The cipher of FIPS 197, from rounds on columns.
LEMMA FCipherIs ==
  ASSUME NEW w, NEW n \in Nat, n > 0, NEW s, IsState(s), KeysFor(w, n),
         NEW X, RoundsGo(X, "ENCRYPT", w, n, s)
  PROVE  F!Cipher(w, n, Flat(s)) = Flat(LastOf("ENCRYPT", X[n-1], KeyState(w, n)))
<1> DEFINE f == CHOOSE q : FOn(q, w, n, Flat(s))
           Y == [r \in 0..n |-> IF r = n THEN LastOf("ENCRYPT", X[n-1], KeyState(w, n)) ELSE X[r]]
<1>1. F!Cipher(w, n, Flat(s)) = f[n]
  BY DEF F!Cipher, FOn, FEntry
<1>2. \A r \in 0..(n-1) : IsState(X[r])
  BY RoundsAreStates
<1>3. ASSUME NEW r \in 0..n, r # 0, r # n, NEW g, g[r-1] = Flat(X[r-1])
      PROVE  FEntry(g, w, n, Flat(s), r) = Flat(X[r])
  <2>1. r \in 1..(n-1) /\ r - 1 \in 0..(n-1) /\ r \in Nat
    BY <1>3
  <2>2. IsState(X[r-1]) /\ IsState(KeyState(w, r))
    BY <1>2, <2>1 DEF KeysFor
  <2>3. X[r] = RoundOf("ENCRYPT", X[r-1], KeyState(w, r))
    BY <2>1 DEF RoundsGo
  <2> QED
    BY <1>3, <2>1, <2>2, <2>3, FRound DEF FEntry
<1>4. ASSUME NEW g PROVE FEntry(g, w, n, Flat(s), 0) = Flat(X[0])
  <2>1. 0 \in Nat /\ 0 \in 0..n
    OBVIOUS
  <2>2. F!AddRoundKey(Flat(s), w, 0) = Flat(AddState(s, KeyState(w, 0)))
    BY <2>1, FAddRoundKey DEF KeysFor
  <2> QED
    BY <2>2 DEF FEntry, RoundsGo
<1>5. ASSUME NEW g, g[n-1] = Flat(X[n-1])
      PROVE  FEntry(g, w, n, Flat(s), n) = Flat(LastOf("ENCRYPT", X[n-1], KeyState(w, n)))
  <2>1. n \in 0..n /\ n - 1 \in 0..(n-1) /\ n # 0
    OBVIOUS
  <2>2. IsState(X[n-1]) /\ IsState(KeyState(w, n))
    BY <1>2, <2>1 DEF KeysFor
  <2> QED
    BY <1>5, <2>1, <2>2, FRound DEF FEntry
<1>6. \E q : FOn(q, w, n, Flat(s))
  <2> DEFINE g == [r \in 0..n |-> Flat(Y[r])]
  <2>1. \A r \in 0..n : g[r] = IF r = n THEN Flat(LastOf("ENCRYPT", X[n-1], KeyState(w, n)))
                              ELSE Flat(X[r])
    OBVIOUS
  <2>2. g = [r \in 0..n |-> g[r]]
    OBVIOUS
  <2> HIDE DEF g, Y
  <2>3. ASSUME NEW r \in 0..n PROVE g[r] = FEntry(g, w, n, Flat(s), r)
    <3>1. CASE r = 0
      <4>1. r # n
        BY <3>1
      <4> QED
        BY <1>4, <2>1, <3>1, <4>1
    <3>2. CASE r = n
      <4>1. n - 1 \in 0..n /\ n - 1 # n
        OBVIOUS
      <4>2. g[n-1] = Flat(X[n-1])
        BY <2>1, <4>1
      <4> QED
        BY <1>5, <2>1, <3>2, <4>2
    <3>3. CASE r # 0 /\ r # n
      <4>1. r - 1 \in 0..n /\ r - 1 # n
        BY <3>3
      <4>2. g[r-1] = Flat(X[r-1])
        BY <2>1, <4>1
      <4> QED
        BY <1>3, <2>1, <3>3, <4>2
    <3> QED
      BY <3>1, <3>2, <3>3
  <2> QED
    BY <2>2, <2>3 DEF FOn
<1>7. FOn(f, w, n, Flat(s))
  BY <1>6
<1> HIDE DEF f
<1>8. \A r \in 0..n : f[r] = FEntry(f, w, n, Flat(s), r)
  BY <1>7 DEF FOn
<1> DEFINE Good == {r \in 0..(n-1) : f[r] = Flat(X[r])}
<1>9. 0 \in Good
  <2>1. 0 \in 0..n /\ 0 \in 0..(n-1)
    OBVIOUS
  <2> QED
    BY <1>4, <1>8, <2>1
<1>10. ASSUME NEW r \in 0..(n-1), r < n - 1, r \in Good PROVE r + 1 \in Good
  <2>1. r + 1 \in 0..n /\ r + 1 \in 0..(n-1) /\ r + 1 # 0 /\ r + 1 # n /\ (r + 1) - 1 = r
    BY <1>10
  <2>2. f[(r + 1) - 1] = Flat(X[(r + 1) - 1])
    BY <1>10, <2>1
  <2>3. FEntry(f, w, n, Flat(s), r + 1) = Flat(X[r + 1])
    BY <1>3, <2>1, <2>2
  <2> QED
    BY <1>8, <2>1, <2>3
<1>11. n - 1 \in Nat
  OBVIOUS
<1>12. n - 1 \in Good
  <2> HIDE DEF Good
  <2>1. \A r \in 0..(n-1) : r \in Good
    BY <1>9, <1>10, <1>11, Induct
  <2> QED
    BY <2>1, <1>11
<1> QED
  <2>1. n \in 0..n
    OBVIOUS
  <2> QED
    BY <1>1, <1>5, <1>8, <1>12, <2>1

\* Enciphering a block with aes_cipher is the cipher of FIPS 197, for any round
\* keys.
THEOREM Enciphers ==
  ASSUME NEW RK, NEW n \in {10, 12, 14}, NEW input, IsBlock(input), KeysFor(RK, n)
  PROVE  /\ aes_cipher(Tables, "ENCRYPT", RK, n, input) = F!Cipher(RK, n, input)
         /\ IsBlock(F!Cipher(RK, n, input))
<1>1. PICK X : /\ RoundsGo(X, "ENCRYPT", RK, n, Columns(input))
               /\ IsState(X[n-1])
               /\ aes_cipher(Tables, "ENCRYPT", RK, n, input)
                    = Flat(LastOf("ENCRYPT", X[n-1], KeyState(RK, n)))
  BY CipherRounds
<1>2. IsState(Columns(input)) /\ Flat(Columns(input)) = input
  BY BlockColumns
<1>3. n \in Nat /\ n > 0 /\ n \in 0..n
  OBVIOUS
<1>4. F!Cipher(RK, n, input) = Flat(LastOf("ENCRYPT", X[n-1], KeyState(RK, n)))
  BY <1>1, <1>2, <1>3, FCipherIs
<1>5. IsState(LastOf("ENCRYPT", X[n-1], KeyState(RK, n)))
  BY <1>1, <1>3, RoundStates DEF KeysFor
<1> QED
  BY <1>1, <1>4, <1>5, FlatIsBlock

\* The round keys d for decryption under the round keys w of FIPS 197.
Backwards(d, w, n) ==
  /\ KeyState(d, 0) = KeyState(w, n) /\ KeyState(d, n) = KeyState(w, 0)
  /\ \A i \in 1..(n-1) : MixState(KeyState(d, i)) = KeyState(w, n - i)

\* Deciphering with round keys d that are w backwards, all but the ends through
\* the inverse of MixColumns, aes_cipher finds what w enciphers to its input.
THEOREM Deciphers ==
  ASSUME NEW d, NEW w, NEW n \in {10, 12, 14}, NEW input, IsBlock(input),
         KeysFor(d, n), KeysFor(w, n), Backwards(d, w, n)
  PROVE  LET out == aes_cipher(Tables, "DECRYPT", d, n, input)
         IN  IsBlock(out) /\ F!Cipher(w, n, out) = input
<1> DEFINE s == Columns(input)
<1>1. PICK D : /\ RoundsGo(D, "DECRYPT", d, n, s)
               /\ IsState(D[n-1])
               /\ aes_cipher(Tables, "DECRYPT", d, n, input)
                    = Flat(LastOf("DECRYPT", D[n-1], KeyState(d, n)))
  BY CipherRounds
<1>2. IsState(s) /\ Flat(s) = input
  BY BlockColumns
<1> HIDE DEF s
<1>3. n \in Nat /\ n > 0 /\ n \in 0..n /\ 0 \in 0..n
  OBVIOUS
<1>4. \A r \in 0..(n-1) : IsState(D[r])
  BY <1>1, <1>2, <1>3, RoundsAreStates
<1> DEFINE back(Y) == RSubState(UnshiftState(Y))
           X == [j \in 0..(n-1) |-> back(D[n-1-j])]
           out == LastOf("DECRYPT", D[n-1], KeyState(d, n))
<1>5. ASSUME NEW Y, IsState(Y)
      PROVE  IsState(back(Y)) /\ SubState(ShiftState(back(Y))) = Y
             /\ MixState(InvState(back(Y))) = back(Y) /\ IsState(InvState(back(Y)))
  <2>1. IsState(UnshiftState(Y)) /\ IsState(RSubState(Y)) /\ ShiftState(UnshiftState(Y)) = Y
    BY <1>5, StateMaps
  <2>2. IsState(back(Y))
    BY <2>1, StateMaps
  <2>3. SubState(ShiftState(back(Y))) = Y
    <3>1. back(Y) = UnshiftState(RSubState(Y))
      BY <1>5, StateMaps
    <3>2. ShiftState(UnshiftState(RSubState(Y))) = RSubState(Y)
      BY <2>1, StateMaps
    <3>3. SubState(RSubState(Y)) = Y
      BY <1>5, StateMaps
    <3> QED
      BY <3>1, <3>2, <3>3
  <2>4. MixState(InvState(back(Y))) = back(Y) /\ IsState(InvState(back(Y)))
    BY <2>2, StateMaps
  <2> QED
    BY <2>2, <2>3, <2>4
<1>6. IsState(out) /\ AddState(out, KeyState(w, 0)) = back(D[n-1])
  <2>1. IsState(KeyState(d, n)) /\ KeyState(d, n) = KeyState(w, 0)
    BY <1>3 DEF KeysFor, Backwards
  <2>2. out = AddState(back(D[n-1]), KeyState(d, n))
    BY DEF LastOf
  <2>3. IsState(back(D[n-1]))
    BY <1>1, <1>5
  <2> HIDE DEF out, back
  <2> QED
    BY <2>1, <2>2, <2>3, AddStates
<1>7. ASSUME NEW j \in 1..(n-1)
      PROVE  back(D[n-1-j]) = RoundOf("ENCRYPT", back(D[n-1-(j-1)]), KeyState(w, j))
  <2> DEFINE i == n - j
             Y == D[n-1-j]
  <2>1. i \in 1..(n-1) /\ n - 1 - (j - 1) = i /\ i - 1 = n - 1 - j /\ n - i = j
        /\ n - 1 - j \in 0..(n-1) /\ i \in 0..(n-1) /\ j \in 0..n /\ i \in 0..n
    BY <1>3
  <2>2. D[i] = RoundOf("DECRYPT", Y, KeyState(d, i))
    BY <1>1, <2>1 DEF RoundsGo
  <2>3. IsState(Y) /\ IsState(D[i])
    BY <1>4, <2>1
  <2>4. IsState(KeyState(d, i)) /\ IsState(KeyState(w, j))
        /\ MixState(KeyState(d, i)) = KeyState(w, j)
    BY <2>1 DEF KeysFor, Backwards
  <2> HIDE DEF i, Y
  <2>5. D[i] = AddState(InvState(back(Y)), KeyState(d, i))
    BY <2>2 DEF RoundOf
  <2>6. MixState(D[i]) = AddState(MixState(InvState(back(Y))), KeyState(w, j))
    BY <1>5, <2>3, <2>4, <2>5, AddStates
  <2>7. MixState(D[i]) = AddState(back(Y), KeyState(w, j)) /\ IsState(back(Y))
    BY <1>5, <2>3, <2>6
  <2>8. SubState(ShiftState(back(D[i]))) = D[i]
    BY <1>5, <2>3
  <2>9. RoundOf("ENCRYPT", back(D[i]), KeyState(w, j)) = AddState(MixState(D[i]), KeyState(w, j))
    BY <2>8 DEF RoundOf
  <2>10. AddState(MixState(D[i]), KeyState(w, j)) = back(Y)
    BY <2>4, <2>7, AddStates
  <2> QED
    BY <2>1, <2>9, <2>10 DEF i, Y
<1>8. LastOf("ENCRYPT", back(D[0]), KeyState(w, n)) = s
  <2>1. 0 \in 0..(n-1)
    BY <1>3
  <2>2. IsState(D[0]) /\ D[0] = AddState(s, KeyState(d, 0)) /\ KeyState(d, 0) = KeyState(w, n)
        /\ IsState(KeyState(w, n))
    BY <1>1, <1>3, <1>4, <2>1 DEF RoundsGo, Backwards, KeysFor
  <2>3. SubState(ShiftState(back(D[0]))) = D[0]
    BY <1>5, <2>2
  <2>4. AddState(D[0], KeyState(w, n)) = s
    BY <1>2, <2>2, AddStates
  <2> QED
    BY <2>3, <2>4 DEF LastOf
<1> HIDE DEF out, back
<1>9. /\ \A j \in 0..(n-1) : X[j] = back(D[n-1-j])
      /\ \A j \in 1..(n-1) : X[j-1] = back(D[n-1-(j-1)]) /\ X[j] = back(D[n-1-j])
  OBVIOUS
<1> HIDE DEF X
<1>10. RoundsGo(X, "ENCRYPT", w, n, out)
  <2>1. X[0] = AddState(out, KeyState(w, 0))
    <3>1. 0 \in 0..(n-1) /\ n - 1 - 0 = n - 1
      BY <1>3
    <3> QED
      BY <1>6, <1>9, <3>1
  <2> QED
    BY <1>7, <1>9, <2>1 DEF RoundsGo
<1>11. X[n-1] = back(D[0])
  <2>1. n - 1 \in 0..(n-1) /\ n - 1 - (n - 1) = 0
    BY <1>3
  <2> QED
    BY <1>9, <2>1
<1>12. F!Cipher(w, n, Flat(out)) = Flat(s)
  <2>1. F!Cipher(w, n, Flat(out)) = Flat(LastOf("ENCRYPT", X[n-1], KeyState(w, n)))
    BY <1>3, <1>6, <1>10, FCipherIs
  <2> QED
    BY <1>8, <1>11, <2>1
<1> QED
  BY <1>1, <1>2, <1>6, <1>12, FlatIsBlock DEF out

-----------------------------------------------------------------------------
(***************************************************************************)
(* The key schedule: RCON, and the words that follow from those of a key.  *)
(***************************************************************************)

Turned1(v) == <<v[2], v[3], v[4], v[1]>>

\* What goes into word i of the schedule with the word nk before it, when v is
\* the word before it.
Temp(nk, i, v) ==
  IF i % nk = 0 THEN xorw(SubWord(Turned1(v)), ByteWord(RCON[(i \div nk) - 1]))
  ELSE IF nk > 6 /\ i % nk = 4 THEN SubWord(v) ELSE v

\* s, of m words, begins with the words of the key and goes on as FIPS 197 says.
Follows(s, key, nk, m) ==
  /\ s \in Seq(Words4) /\ Len(s) = m
  /\ \A k \in 1..nk : s[k] = load_word(key, k - 1)
  /\ \A i \in nk..(m-1) : s[i+1] = xorw(s[i-nk+1], Temp(nk, i, s[i]))

\* The constants of the rounds.
LEMMA RconExists ==
  \E f \in [0..9 -> Byte] : f = [i \in 0..9 |-> IF i = 0 THEN 1 ELSE Twice(f[i-1])]
<1> DEFINE V == Byte
           S == [p \in (1..9) \X V |-> Twice(p[2])]
<1>1. S \in [(1..9) \X V -> V] /\ 9 \in Nat /\ 1 \in V
  <2>1. 1 \in Byte
    BY DEF Byte
  <2> QED
    BY <2>1, TwiceBits
<1>2. PICK f \in [0..9 -> V] : StepsOn(f, 9, 1, S)
  <2> HIDE DEF V, S
  <2> QED
    BY <1>1, RecursionExists
<1>3. ASSUME NEW i \in 0..9 PROVE f[i] = IF i = 0 THEN 1 ELSE Twice(f[i-1])
  <2>1. f[i] = IF i = 0 THEN 1 ELSE S[<<i, f[i-1]>>]
    BY <1>2 DEF StepsOn
  <2>2. CASE i = 0
    BY <2>1, <2>2
  <2>3. CASE i # 0
    <3>1. <<i, f[i-1]>> \in (1..9) \X V
      BY <2>3
    <3> QED
      BY <2>1, <2>3, <3>1
  <2> QED
    BY <2>2, <2>3
<1>4. f = [i \in 0..9 |-> f[i]]
  OBVIOUS
<1> QED
  BY <1>3, <1>4

RconEntry(f, i) == IF i = 0 THEN 1 ELSE XTIME(f[i-1])
RconOn(f) == f = [i \in 0..9 |-> RconEntry(f, i)]

LEMMA RconIs ==
  RCON \in [0..9 -> Byte] /\ RCON[0] = 1 /\ \A i \in 1..9 : RCON[i] = Twice(RCON[i-1])
<1> DEFINE p == CHOOSE q : RconOn(q)
<1>1. RCON = [i \in 0..9 |-> p[i]]
  BY DEF RCON, RconOn, RconEntry
<1>2. \E q : RconOn(q)
  <2>1. PICK f \in [0..9 -> Byte] : f = [i \in 0..9 |-> IF i = 0 THEN 1 ELSE Twice(f[i-1])]
    BY RconExists
  <2>2. ASSUME NEW i \in 0..9 PROVE f[i] = RconEntry(f, i)
    <3>1. CASE i = 0
      BY <2>1, <3>1 DEF RconEntry
    <3>2. CASE i # 0
      <4>1. i - 1 \in 0..9
        BY <3>2
      <4>2. f[i] = Twice(f[i-1]) /\ f[i-1] \in Byte
        BY <2>1, <3>2, <4>1
      <4> QED
        BY <3>2, <4>2, XtimeIs DEF RconEntry
    <3> QED
      BY <3>1, <3>2
  <2>3. f = [i \in 0..9 |-> f[i]]
    OBVIOUS
  <2> QED
    BY <2>2, <2>3 DEF RconOn
<1>3. RconOn(p)
  BY <1>2
<1> HIDE DEF p
<1>4. \A i \in 0..9 : p[i] = RconEntry(p, i)
  BY <1>3 DEF RconOn
<1>5. \A i \in 0..9 : i \in {j \in 0..9 : p[j] \in Byte}
  <2> DEFINE Good == {j \in 0..9 : p[j] \in Byte}
  <2>1. 0 \in Good
    <3>1. 1 \in Byte /\ 0 \in 0..9
      BY DEF Byte
    <3> QED
      BY <1>4, <3>1 DEF RconEntry
  <2>2. ASSUME NEW j \in 0..9, j < 9, j \in Good PROVE j + 1 \in Good
    <3>1. j + 1 \in 0..9 /\ (j + 1) - 1 = j /\ j + 1 # 0
      BY <2>2
    <3>2. p[j+1] = XTIME(p[j]) /\ p[j] \in Byte
      BY <1>4, <2>2, <3>1 DEF RconEntry
    <3> QED
      BY <3>1, <3>2, XtimeIs, TwiceBits
  <2>3. 9 \in Nat
    OBVIOUS
  <2> HIDE DEF Good
  <2> QED
    BY <2>1, <2>2, <2>3, Induct DEF Good
<1>6. \A i \in 1..9 : p[i] = Twice(p[i-1])
  <2> TAKE i \in 1..9
  <2>1. i \in 0..9 /\ i - 1 \in 0..9 /\ i # 0
    OBVIOUS
  <2> QED
    BY <1>4, <1>5, <2>1, XtimeIs DEF RconEntry
<1>7. p[0] = 1
  BY <1>4 DEF RconEntry
<1>8. \A i \in 0..9 : RCON[i] = p[i]
  BY <1>1
<1>9. RCON \in [0..9 -> Byte]
  BY <1>1, <1>5
<1> QED
  <2>1. \A i \in 1..9 : i \in 0..9 /\ i - 1 \in 0..9
    OBVIOUS
  <2> QED
    BY <1>6, <1>7, <1>8, <1>9, <2>1

\* The Rcon of FIPS 197 counts from 1.
FRconEntry(f, i) == IF i = 1 THEN 1 ELSE F!Double[f[i-1]]
FRconOn(f) == f = [i \in 1..10 |-> FRconEntry(f, i)]
FRcon == CHOOSE f : FRconOn(f)

LEMMA FRconIs == \A i \in 1..10 : FRcon[i] = RCON[i-1]
<1>1. \E f : FRconOn(f)
  <2>1. PICK g \in [0..9 -> Byte] : g = [i \in 0..9 |-> IF i = 0 THEN 1 ELSE Twice(g[i-1])]
    BY RconExists
  <2> DEFINE f == [i \in 1..10 |-> g[i-1]]
  <2>2. ASSUME NEW i \in 1..10 PROVE f[i] = FRconEntry(f, i)
    <3>1. CASE i = 1
      BY <2>1, <3>1 DEF FRconEntry
    <3>2. CASE i # 1
      <4>1. i - 1 \in 0..9 /\ i - 1 \in 1..10 /\ i - 1 # 0
        BY <3>2
      <4>2. f[i] = g[i-1] /\ f[i-1] = g[(i-1)-1]
        BY <4>1
      <4>3. g[i-1] = Twice(g[(i-1)-1])
        BY <2>1, <4>1
      <4> QED
        BY <3>2, <4>2, <4>3 DEF FRconEntry, Twice
    <3> QED
      BY <3>1, <3>2
  <2>3. f = [i \in 1..10 |-> f[i]]
    OBVIOUS
  <2> HIDE DEF f
  <2> QED
    BY <2>2, <2>3 DEF FRconOn
<1>2. FRconOn(FRcon)
  BY <1>1 DEF FRcon
<1>3. \A i \in 1..10 : FRcon[i] = FRconEntry(FRcon, i)
  BY <1>2 DEF FRconOn
<1> DEFINE Good == {j \in 0..9 : FRcon[j+1] = RCON[j]}
<1>4. 0 \in Good
  <2>1. 0 + 1 = 1 /\ 1 \in 1..10 /\ 0 \in 0..9
    OBVIOUS
  <2> QED
    BY <1>3, <2>1, RconIs DEF FRconEntry
<1>5. ASSUME NEW j \in 0..9, j < 9, j \in Good PROVE j + 1 \in Good
  <2>1. j + 1 \in 0..9 /\ j + 1 \in 1..9 /\ (j + 1) - 1 = j /\ (j + 1) + 1 \in 1..10
        /\ (j + 1) + 1 # 1 /\ ((j + 1) + 1) - 1 = j + 1
    BY <1>5
  <2>2. FRcon[(j+1)+1] = F!Double[FRcon[j+1]]
    BY <1>3, <2>1 DEF FRconEntry
  <2>3. RCON[j+1] = Twice(RCON[j])
    BY <2>1, RconIs
  <2> QED
    BY <1>5, <2>1, <2>2, <2>3 DEF Twice
<1>6. 9 \in Nat
  OBVIOUS
<1>7. \A j \in 0..9 : j \in Good
  <2> HIDE DEF Good
  <2> QED
    BY <1>4, <1>5, <1>6, Induct
<1> QED
  <2> TAKE i \in 1..10
  <2>1. i - 1 \in 0..9 /\ (i - 1) + 1 = i
    OBVIOUS
  <2> QED
    BY <1>7, <2>1

LEMMA TempWord ==
  ASSUME NEW nk \in {4, 6, 8}, NEW i \in Nat, i >= nk, i < 11 * nk, NEW v, IsWord(v)
  PROVE  IsWord(Temp(nk, i, v))
<1>1. v[1] \in Byte /\ v[2] \in Byte /\ v[3] \in Byte /\ v[4] \in Byte
  BY DEF IsWord
<1>2. IsWord(Turned1(v))
  BY <1>1, WordOfBytes DEF Turned1
<1>3. IsWord(SubWord(Turned1(v))) /\ IsWord(SubWord(v))
  BY <1>2, WordMaps
<1>4. (i \div nk) - 1 \in 0..9
  OBVIOUS
<1>5. RCON[(i \div nk) - 1] \in Byte
  BY <1>4, RconIs
<1>6. IsWord(ByteWord(RCON[(i \div nk) - 1]))
  BY <1>5, ZeroByte, WordOfBytes DEF ByteWord
<1> QED
  BY <1>3, <1>6, XorWord DEF Temp

\* Two such sequences agree.
LEMMA FollowsUnique ==
  ASSUME NEW key, NEW nk \in {4, 6, 8}, NEW m \in Nat, NEW n \in Nat, m <= n,
         NEW s, NEW u, Follows(s, key, nk, m), Follows(u, key, nk, n)
  PROVE  \A k \in 1..m : s[k] = u[k]
<1> DEFINE Good == {k \in 0..m : \A j \in 1..k : s[j] = u[j]}
<1>1. 0 \in Good
  OBVIOUS
<1>2. ASSUME NEW k \in 0..m, k < m, k \in Good PROVE k + 1 \in Good
  <2>1. CASE k < nk
    <3>1. k + 1 \in 1..nk
      BY <2>1
    <3>2. s[k+1] = u[k+1]
      BY <3>1 DEF Follows
    <3> QED
      BY <1>2, <3>2
  <2>2. CASE k >= nk
    <3>1. k \in nk..(m-1) /\ k \in nk..(n-1) /\ k \in 1..k /\ k - nk + 1 \in 1..k
      BY <1>2, <2>2
    <3>2. s[k+1] = xorw(s[k-nk+1], Temp(nk, k, s[k])) /\ u[k+1] = xorw(u[k-nk+1], Temp(nk, k, u[k]))
      BY <3>1 DEF Follows
    <3>3. s[k] = u[k] /\ s[k-nk+1] = u[k-nk+1]
      BY <1>2, <3>1
    <3>4. s[k+1] = u[k+1]
      BY <3>2, <3>3
    <3> QED
      BY <1>2, <3>4
  <2> QED
    BY <2>1, <2>2
<1>3. m \in Good
  <2> HIDE DEF Good
  <2>1. \A k \in 0..m : k \in Good
    BY <1>1, <1>2, Induct
  <2> QED
    BY <2>1
<1> QED
  BY <1>3

IsKey(key, nk) == nk \in {4, 6, 8} /\ key \in Seq(Byte) /\ Len(key) = 4 * nk
KeyWords(key, nk) == [k \in 1..nk |-> load_word(key, k - 1)]

LEMMA KeyWordsFollow ==
  ASSUME NEW key, NEW nk, IsKey(key, nk)
  PROVE  /\ \A k \in 1..nk : IsWord(load_word(key, k - 1))
         /\ Follows(KeyWords(key, nk), key, nk, nk)
<1>1. ASSUME NEW k \in 1..nk PROVE IsWord(load_word(key, k - 1))
  <2>1. InReach(key, k - 1)
    BY DEF IsKey, InReach
  <2> QED
    BY <2>1, WordIsLoaded DEF Loaded
<1>2. KeyWords(key, nk) \in [1..nk -> Words4]
  BY <1>1, WordsAre DEF KeyWords
<1>3. nk \in Nat
  BY DEF IsKey
<1>4. KeyWords(key, nk) \in Seq(Words4) /\ Len(KeyWords(key, nk)) = nk
  BY <1>2, <1>3, IsASeq, LenProperties
<1>5. nk..(nk-1) = {}
  BY <1>3
<1>6. \A k \in 1..nk : KeyWords(key, nk)[k] = load_word(key, k - 1)
  BY DEF KeyWords
<1> QED
  BY <1>1, <1>4, <1>5, <1>6 DEF Follows

\* One word more.
NextWord(nk, s, m) == xorw(s[m-nk+1], Temp(nk, m, s[m]))

LEMMA NextIsWord ==
  ASSUME NEW nk \in {4, 6, 8}, NEW m \in Nat, m >= nk, m < 11 * nk, NEW s \in Seq(Words4),
         Len(s) = m
  PROVE  IsWord(NextWord(nk, s, m)) /\ IsWord(s[m]) /\ IsWord(s[m-nk+1])
<1>1. m \in 1..Len(s) /\ m - nk + 1 \in 1..Len(s)
  OBVIOUS
<1>2. IsWord(s[m]) /\ IsWord(s[m-nk+1])
  BY <1>1, ElementOfSeq, WordsAre
<1>3. IsWord(Temp(nk, m, s[m]))
  BY <1>2, TempWord
<1> QED
  BY <1>2, <1>3, XorWord DEF NextWord

LEMMA FollowsStep ==
  ASSUME NEW key, NEW nk \in {4, 6, 8}, NEW m \in Nat, m >= nk, m < 11 * nk, NEW s,
         Follows(s, key, nk, m)
  PROVE  Follows(Append(s, NextWord(nk, s, m)), key, nk, m + 1)
<1> DEFINE e == NextWord(nk, s, m)
           u == Append(s, e)
<1>1. s \in Seq(Words4) /\ Len(s) = m
  BY DEF Follows
<1>2. e \in Words4
  BY <1>1, NextIsWord, WordsAre
<1> HIDE DEF e
<1>3. /\ u \in Seq(Words4) /\ Len(u) = m + 1
      /\ \A i \in 1..m : u[i] = s[i]
      /\ u[m+1] = e
  BY <1>1, <1>2, AppendProperties
<1> HIDE DEF u
<1>4. \A k \in 1..nk : u[k] = load_word(key, k - 1)
  <2>1. \A k \in 1..nk : k \in 1..m
    OBVIOUS
  <2> QED
    BY <1>3, <2>1 DEF Follows
<1>5. ASSUME NEW i \in nk..((m+1)-1) PROVE u[i+1] = xorw(u[i-nk+1], Temp(nk, i, u[i]))
  <2>1. i \in 1..m /\ i - nk + 1 \in 1..m
    OBVIOUS
  <2>2. u[i] = s[i] /\ u[i-nk+1] = s[i-nk+1]
    BY <1>3, <2>1
  <2>3. CASE i = m
    BY <1>3, <2>2, <2>3 DEF e, NextWord
  <2>4. CASE i # m
    <3>1. i \in nk..(m-1) /\ i + 1 \in 1..m
      BY <2>4
    <3>2. s[i+1] = xorw(s[i-nk+1], Temp(nk, i, s[i]))
      BY <3>1 DEF Follows
    <3> QED
      BY <1>3, <2>2, <3>1, <3>2
  <2> QED
    BY <2>3, <2>4
<1> QED
  BY <1>3, <1>4, <1>5 DEF Follows, u, e

-----------------------------------------------------------------------------
(***************************************************************************)
(* The key expansion of FIPS 197.                                          *)
(***************************************************************************)
FSubstituted(v) == [k \in 1..4 |-> F!SBox[v[k]]]
FTemp(nk, s, i) ==
  IF i % nk = 0
  THEN F!xorw(FSubstituted(Turned1(s[i])), <<FRcon[i \div nk], 0, 0, 0>>)
  ELSE IF nk > 6 /\ i % nk = 4 THEN FSubstituted(s[i])
  ELSE s[i]
FNext(nk, s, i) == F!xorw(s[i - nk + 1], FTemp(nk, s, i))
FWords(f, key, nk, i) ==
  IF i = nk THEN [k \in 1..nk |-> SubSeq(key, 4 * k - 3, 4 * k)]
  ELSE Append(f[i-1], FNext(nk, f[i-1], i - 1))
FWordsOn(f, key, nk, m) == f = [i \in nk..m |-> FWords(f, key, nk, i)]

LEMMA SameXorw == \A v, w : F!xorw(v, w) = xorw(v, w)
  BY SameXor DEF F!xorw, xorw

LEMMA SubstitutedIs ==
  ASSUME NEW v, IsWord(v), NEW w
  PROVE  /\ xorw(FSubstituted(v), w) = xorw(SubWord(v), w)
         /\ xorw(w, FSubstituted(v)) = xorw(w, SubWord(v))
<1>1. /\ F!SBox[v[1]] = FSb[v[1]] /\ F!SBox[v[2]] = FSb[v[2]]
      /\ F!SBox[v[3]] = FSb[v[3]] /\ F!SBox[v[4]] = FSb[v[4]]
  BY SBoxIs DEF IsWord
<1>2. /\ FSubstituted(v)[1] = FSb[v[1]] /\ FSubstituted(v)[2] = FSb[v[2]]
      /\ FSubstituted(v)[3] = FSb[v[3]] /\ FSubstituted(v)[4] = FSb[v[4]]
  BY <1>1 DEF FSubstituted
<1> QED
  BY <1>2 DEF xorw, SubWord

LEMMA FNextIs ==
  ASSUME NEW nk \in {4, 6, 8}, NEW i \in Nat, i >= nk, i < 11 * nk, NEW s \in Seq(Words4),
         Len(s) = i
  PROVE  FNext(nk, s, i) = NextWord(nk, s, i)
<1>1. IsWord(s[i]) /\ IsWord(s[i-nk+1])
  BY NextIsWord
<1>2. i \div nk \in 1..10
  OBVIOUS
<1>3. FRcon[i \div nk] = RCON[(i \div nk) - 1]
  BY <1>2, FRconIs
<1>4. IsWord(Turned1(s[i]))
  BY <1>1, WordOfBytes DEF Turned1, IsWord
<1>5. CASE i % nk = 0
  BY <1>3, <1>4, <1>5, SameXorw, SubstitutedIs DEF FNext, FTemp, NextWord, Temp, ByteWord
<1>6. CASE i % nk # 0
  BY <1>1, <1>6, SameXorw, SubstitutedIs DEF FNext, FTemp, NextWord, Temp
<1> QED
  BY <1>5, <1>6

LEMMA WordsExist ==
  ASSUME NEW key, NEW nk, IsKey(key, nk), NEW m \in Nat, m >= nk, m <= 11 * nk
  PROVE  \E g : /\ g = [j \in 0..(m-nk) |-> g[j]]
                /\ \A j \in 0..(m-nk) : Follows(g[j], key, nk, nk + j)
                /\ g[0] = KeyWords(key, nk)
                /\ \A j \in 1..(m-nk) : g[j] = Append(g[j-1], NextWord(nk, g[j-1], nk + j - 1))
<1> DEFINE V == Seq(Words4)
           N == m - nk
           b == KeyWords(key, nk)
           S == [p \in (1..N) \X V |->
                   IF Len(p[2]) = nk + p[1] - 1
                   THEN Append(p[2], NextWord(nk, p[2], nk + p[1] - 1)) ELSE p[2]]
<1>1. nk \in {4, 6, 8} /\ nk \in Nat /\ N \in Nat /\ N = m - nk
  BY DEF IsKey
<1>2. Follows(b, key, nk, nk)
  BY KeyWordsFollow
<1>3. b \in V
  BY <1>2 DEF Follows
<1>4. S \in [(1..N) \X V -> V]
  <2>1. ASSUME NEW k \in 1..N, NEW s \in V, Len(s) = nk + k - 1
        PROVE  Append(s, NextWord(nk, s, nk + k - 1)) \in V
    <3> DEFINE i == nk + k - 1
    <3>1. i \in Nat /\ i >= nk /\ i < 11 * nk /\ Len(s) = i
      BY <1>1, <2>1
    <3> HIDE DEF i
    <3>2. NextWord(nk, s, i) \in Words4
      BY <1>1, <3>1, NextIsWord, WordsAre
    <3>3. Append(s, NextWord(nk, s, i)) \in V
      BY <3>2, AppendProperties
    <3> QED
      BY <3>3 DEF i
  <2> QED
    BY <2>1
<1>5. PICK g \in [0..N -> V] : StepsOn(g, N, b, S)
  <2> HIDE DEF V, S, b, N
  <2> QED
    BY <1>1, <1>3, <1>4, RecursionExists
<1>6. g[0] = b
  <2>1. 0 \in 0..N
    BY <1>1
  <2> QED
    BY <1>5, <2>1 DEF StepsOn
<1>7. ASSUME NEW k \in 1..N, Len(g[k-1]) = nk + k - 1
      PROVE  g[k] = Append(g[k-1], NextWord(nk, g[k-1], nk + k - 1))
  <2>1. k \in 0..N /\ k - 1 \in 0..N /\ k # 0
    BY <1>1
  <2>2. g[k] = S[<<k, g[k-1]>>]
    BY <1>5, <2>1 DEF StepsOn
  <2>3. g[k-1] \in V /\ <<k, g[k-1]>> \in (1..N) \X V
    BY <2>1
  <2> QED
    BY <1>7, <2>2, <2>3
<1> DEFINE Good == {j \in 0..N : Follows(g[j], key, nk, nk + j)}
<1>8. 0 \in Good
  <2>1. 0 \in 0..N /\ nk + 0 = nk
    BY <1>1
  <2> QED
    BY <1>2, <1>6, <2>1
<1>9. ASSUME NEW j \in 0..N, j < N, j \in Good PROVE j + 1 \in Good
  <2> DEFINE i == nk + j
  <2>1. j + 1 \in 1..N /\ j + 1 \in 0..N /\ (j + 1) - 1 = j /\ nk + (j + 1) - 1 = i
        /\ nk + (j + 1) = i + 1 /\ i \in Nat /\ i >= nk /\ i < 11 * nk
    BY <1>1, <1>9
  <2>2. Follows(g[j], key, nk, i)
    BY <1>9
  <2> HIDE DEF i
  <2>3. Len(g[j]) = i
    BY <2>2 DEF Follows
  <2>4. g[j+1] = Append(g[j], NextWord(nk, g[j], i))
    BY <1>7, <2>1, <2>3
  <2>5. Follows(g[j+1], key, nk, i + 1)
    BY <1>1, <2>1, <2>2, <2>4, FollowsStep
  <2> QED
    BY <2>1, <2>5
<1>10. \A j \in 0..N : Follows(g[j], key, nk, nk + j)
  <2> HIDE DEF Good
  <2>1. \A j \in 0..N : j \in Good
    BY <1>1, <1>8, <1>9, Induct
  <2> QED
    BY <2>1 DEF Good
<1>11. ASSUME NEW j \in 1..N PROVE g[j] = Append(g[j-1], NextWord(nk, g[j-1], nk + j - 1))
  <2>1. j - 1 \in 0..N /\ nk + (j - 1) = nk + j - 1
    BY <1>1
  <2>2. Len(g[j-1]) = nk + j - 1
    BY <1>10, <2>1 DEF Follows
  <2> QED
    BY <1>7, <2>2
<1>12. g = [j \in 0..N |-> g[j]]
  OBVIOUS
<1> QED
  BY <1>6, <1>10, <1>11, <1>12

LEMMA FExpansionFollows ==
  ASSUME NEW key, NEW nk, IsKey(key, nk)
  PROVE  /\ F!Rounds(key) = nk + 6
         /\ Follows(F!KeyExpansion(key), key, nk, 4 * (nk + 7))
<1> DEFINE m == 4 * (nk + 7)
           f == CHOOSE q : FWordsOn(q, key, nk, m)
<1>1. /\ nk \in {4, 6, 8} /\ nk \in Nat /\ Len(key) \div 4 = nk
      /\ m \in Nat /\ m >= nk /\ m <= 11 * nk
  BY DEF IsKey
<1>2. F!Rounds(key) = nk + 6 /\ 4 * (F!Rounds(key) + 1) = m
  BY <1>1 DEF F!Rounds
<1>3. F!KeyExpansion(key) = f[m]
  <2>1. F!KeyExpansion(key)
          = (CHOOSE q : FWordsOn(q, key, Len(key) \div 4, 4 * (F!Rounds(key) + 1)))
              [4 * (F!Rounds(key) + 1)]
    BY DEF F!KeyExpansion, FWordsOn, FWords, FNext, FTemp, FSubstituted, FRcon,
           FRconOn, FRconEntry, Turned1
  <2> QED
    BY <1>1, <1>2, <2>1
<1> HIDE DEF m
<1>4. [k \in 1..nk |-> SubSeq(key, 4 * k - 3, 4 * k)] = KeyWords(key, nk)
  <2>1. \A k \in 1..nk : 4 * (k - 1) + 1 = 4 * k - 3 /\ 4 * (k - 1) + 4 = 4 * k
    BY <1>1
  <2> QED
    BY <2>1 DEF KeyWords, load_word
<1>5. ASSUME NEW g, NEW i \in nk..m, i # nk, Follows(g[i-1], key, nk, i - 1)
      PROVE  FWords(g, key, nk, i) = Append(g[i-1], NextWord(nk, g[i-1], i - 1))
  <2>1. i - 1 \in Nat /\ i - 1 >= nk /\ i - 1 < 11 * nk
    BY <1>1, <1>5
  <2>2. g[i-1] \in Seq(Words4) /\ Len(g[i-1]) = i - 1
    BY <1>5 DEF Follows
  <2>3. FNext(nk, g[i-1], i - 1) = NextWord(nk, g[i-1], i - 1)
    BY <1>1, <2>1, <2>2, FNextIs
  <2> QED
    BY <1>5, <2>3 DEF FWords
<1>6. \E q : FWordsOn(q, key, nk, m)
  <2>1. PICK g : /\ \A j \in 0..(m-nk) : Follows(g[j], key, nk, nk + j)
                 /\ g[0] = KeyWords(key, nk)
                 /\ \A j \in 1..(m-nk) : g[j] = Append(g[j-1], NextWord(nk, g[j-1], nk + j - 1))
    BY <1>1, WordsExist
  <2> DEFINE q == [i \in nk..m |-> g[i-nk]]
  <2>2. ASSUME NEW i \in nk..m PROVE q[i] = FWords(q, key, nk, i)
    <3>1. CASE i = nk
      <4>1. i - nk = 0
        BY <1>1, <3>1
      <4> QED
        BY <1>4, <2>1, <3>1, <4>1 DEF FWords
    <3>2. CASE i # nk
      <4>1. i - 1 \in nk..m /\ i - nk \in 1..(m-nk) /\ i - nk - 1 \in 0..(m-nk)
            /\ (i - 1) - nk = i - nk - 1 /\ nk + (i - nk) - 1 = i - 1 /\ nk + (i - nk - 1) = i - 1
        BY <1>1, <3>2
      <4>2. q[i] = g[i-nk] /\ q[i-1] = g[i-nk-1]
        BY <4>1
      <4> HIDE DEF q
      <4>3. Follows(q[i-1], key, nk, i - 1)
        BY <2>1, <4>1, <4>2
      <4>4. q[i] = Append(q[i-1], NextWord(nk, q[i-1], i - 1))
        BY <2>1, <4>1, <4>2
      <4> QED
        BY <1>5, <3>2, <4>3, <4>4
    <3> QED
      BY <3>1, <3>2
  <2>3. q = [i \in nk..m |-> q[i]]
    OBVIOUS
  <2> HIDE DEF q
  <2> QED
    BY <2>2, <2>3 DEF FWordsOn
<1>7. FWordsOn(f, key, nk, m)
  BY <1>6
<1> HIDE DEF f
<1>8. \A i \in nk..m : f[i] = FWords(f, key, nk, i)
  BY <1>7 DEF FWordsOn
<1> DEFINE Good == {j \in 0..(m-nk) : Follows(f[nk + j], key, nk, nk + j)}
<1>9. 0 \in Good
  <2>1. nk + 0 = nk /\ nk \in nk..m /\ 0 \in 0..(m-nk)
    BY <1>1
  <2>2. f[nk] = KeyWords(key, nk)
    BY <1>4, <1>8, <2>1 DEF FWords
  <2> QED
    BY <2>1, <2>2, KeyWordsFollow
<1>10. ASSUME NEW j \in 0..(m-nk), j < m - nk, j \in Good PROVE j + 1 \in Good
  <2> DEFINE i == nk + j
  <2>1. /\ nk + (j + 1) = i + 1 /\ i + 1 \in nk..m /\ i + 1 # nk /\ (i + 1) - 1 = i
        /\ i \in Nat /\ i >= nk /\ i < 11 * nk /\ j + 1 \in 0..(m-nk)
    BY <1>1, <1>10
  <2>2. Follows(f[i], key, nk, i)
    BY <1>10
  <2> HIDE DEF i
  <2>3. FWords(f, key, nk, i + 1) = Append(f[i], NextWord(nk, f[i], i))
    BY <1>5, <2>1, <2>2
  <2>4. Follows(f[i+1], key, nk, i + 1)
    BY <1>1, <1>8, <2>1, <2>2, <2>3, FollowsStep
  <2> QED
    BY <2>1, <2>4
<1>11. m - nk \in Good
  <2> HIDE DEF Good
  <2>1. m - nk \in Nat
    BY <1>1
  <2>2. \A j \in 0..(m-nk) : j \in Good
    BY <1>9, <1>10, <2>1, Induct
  <2> QED
    BY <2>1, <2>2
<1>12. nk + (m - nk) = m
  BY <1>1
<1> QED
  BY <1>2, <1>3, <1>11, <1>12 DEF m

-----------------------------------------------------------------------------
(***************************************************************************)
(* aes_set_encryption_key: the loops for keys of four, six or eight.       *)
(***************************************************************************)

Carry(n, k, w) == IF n = 8 /\ k = 5 THEN SubWord(w) ELSE w
FirstOf(RK, i) == xorw(xorw(RK[1], ByteWord(RCON[i])), SubWord(Turned1(RK[Len(RK)])))

LEMMA CarryIs ==
  /\ \A w : sub_word(Tables, w) = SubWord(w)
  /\ \A w : sub_turned(Tables, w) = SubWord(Turned1(w))
  /\ \A n, k, w : carried(Tables, n, k, w) = Carry(n, k, w)
  /\ \A RK, i : first_word(Tables, RK, i) = FirstOf(RK, i)
<1>1. \A w : sub_word(Tables, w) = SubWord(w)
  BY TablesAre DEF sub_word, SubWord
<1>2. \A w : sub_turned(Tables, w) = SubWord(Turned1(w))
  BY TablesAre DEF sub_turned, SubWord, Turned1
<1>3. \A n, k, w : carried(Tables, n, k, w) = Carry(n, k, w)
  BY <1>1 DEF carried, Carry
<1>4. \A RK, i : first_word(Tables, RK, i) = FirstOf(RK, i)
  BY <1>2, TablesAre DEF first_word, FirstOf
<1> QED
  BY <1>1, <1>2, <1>3, <1>4

LEMMA CarryWord ==
  ASSUME NEW n, NEW k, NEW w, IsWord(w)
  PROVE  IsWord(Carry(n, k, w))
  BY WordMaps DEF Carry

LEMMA FirstWord ==
  ASSUME NEW n \in {4, 6, 8}, NEW RK \in Seq(Words4), Len(RK) = n, NEW i \in 0..9
  PROVE  IsWord(FirstOf(RK, i))
<1>1. 1 \in 1..Len(RK) /\ n \in 1..Len(RK)
  OBVIOUS
<1>2. IsWord(RK[1]) /\ IsWord(RK[n])
  BY <1>1, ElementOfSeq, WordsAre
<1>3. IsWord(Turned1(RK[n]))
  BY <1>2, WordOfBytes DEF Turned1, IsWord
<1>4. IsWord(ByteWord(RCON[i]))
  BY RconIs, ZeroByte, WordOfBytes DEF ByteWord
<1> QED
  BY <1>2, <1>3, <1>4, XorWord, WordMaps DEF FirstOf

ExpandEntry(w, RK, i, k) ==
  IF k = 1 THEN first_word(Tables, RK, i)
  ELSE xorw(RK[k], carried(Tables, Len(RK), k, w[k-1]))
ExpandOn(w, RK, i) == w = [k \in 1..Len(RK) |-> ExpandEntry(w, RK, i, k)]

\* The words one iteration of the loop adds after the words RK.
Expanded(e, RK, i) ==
  /\ e \in Seq(Words4) /\ Len(e) = Len(RK)
  /\ e[1] = FirstOf(RK, i)
  /\ \A k \in 2..Len(RK) : e[k] = xorw(RK[k], Carry(Len(RK), k, e[k-1]))

LEMMA ExpandIs ==
  ASSUME NEW n \in {4, 6, 8}, NEW RK \in Seq(Words4), Len(RK) = n, NEW i \in 0..9
  PROVE  Expanded(expand(Tables, RK, i), RK, i)
<1> DEFINE w == CHOOSE u : ExpandOn(u, RK, i)
           V == Words4
           S == [p \in (1..(n-1)) \X V |-> xorw(RK[p[1]+1], Carry(n, p[1] + 1, p[2]))]
           b == FirstOf(RK, i)
           e == expand(Tables, RK, i)
<1>1. e = [k \in 1..n |-> w[k]]
  BY DEF expand, ExpandOn, ExpandEntry
<1>2. b \in V
  BY FirstWord, WordsAre
<1>3. ASSUME NEW k \in 1..n PROVE IsWord(RK[k])
  BY <1>3, ElementOfSeq, WordsAre
<1>4. S \in [(1..(n-1)) \X V -> V]
  <2>1. ASSUME NEW k \in 1..(n-1), NEW v \in V PROVE xorw(RK[k+1], Carry(n, k + 1, v)) \in V
    <3>1. k + 1 \in 1..n
      OBVIOUS
    <3>2. IsWord(RK[k+1]) /\ IsWord(Carry(n, k + 1, v))
      BY <1>3, <3>1, CarryWord, WordsAre
    <3> QED
      BY <3>2, XorWord, WordsAre
  <2> QED
    BY <2>1
<1>5. n - 1 \in Nat
  OBVIOUS
<1>6. PICK g \in [0..(n-1) -> V] : StepsOn(g, n - 1, b, S)
  <2> HIDE DEF V, S, b
  <2> QED
    BY <1>2, <1>4, <1>5, RecursionExists
<1>7. \E u : ExpandOn(u, RK, i)
  <2> DEFINE u == [k \in 1..n |-> g[k-1]]
  <2>1. ASSUME NEW k \in 1..n PROVE u[k] = ExpandEntry(u, RK, i, k)
    <3>1. k - 1 \in 0..(n-1)
      OBVIOUS
    <3>2. u[k] = IF k - 1 = 0 THEN b ELSE S[<<k - 1, g[(k-1)-1]>>]
      BY <1>6, <3>1 DEF StepsOn
    <3>3. CASE k = 1
      BY <3>2, <3>3, CarryIs DEF ExpandEntry
    <3>4. CASE k # 1
      <4>1. k - 1 \in 1..(n-1) /\ (k - 1) - 1 \in 0..(n-1) /\ (k - 1) + 1 = k /\ k - 1 \in 1..n
            /\ k - 1 # 0
        BY <3>4
      <4>2. u[k-1] = g[(k-1)-1] /\ g[(k-1)-1] \in V
        BY <4>1
      <4>3. S[<<k - 1, g[(k-1)-1]>>] = xorw(RK[k], Carry(n, k, g[(k-1)-1]))
        BY <4>1, <4>2
      <4>4. u[k] = xorw(RK[k], Carry(n, k, u[k-1]))
        BY <3>2, <4>1, <4>2, <4>3
      <4> HIDE DEF u
      <4> QED
        BY <3>4, <4>4, CarryIs DEF ExpandEntry
    <3> QED
      BY <3>3, <3>4
  <2>2. u = [k \in 1..n |-> u[k]]
    OBVIOUS
  <2> HIDE DEF u
  <2> QED
    BY <2>1, <2>2 DEF ExpandOn
<1>8. ExpandOn(w, RK, i)
  BY <1>7
<1> HIDE DEF w
<1>9. \A k \in 1..n : w[k] = ExpandEntry(w, RK, i, k)
  BY <1>8 DEF ExpandOn
<1>10. w[1] = b
  BY <1>9, CarryIs DEF ExpandEntry
<1>11. ASSUME NEW k \in 2..n PROVE w[k] = xorw(RK[k], Carry(n, k, w[k-1]))
  <2>1. k \in 1..n /\ k # 1
    OBVIOUS
  <2> QED
    BY <1>9, <2>1, CarryIs DEF ExpandEntry
<1> DEFINE Good == {j \in 0..(n-1) : w[j+1] \in V}
<1>12. 0 \in Good
  <2>1. 0 + 1 = 1 /\ 0 \in 0..(n-1)
    OBVIOUS
  <2> QED
    BY <1>2, <1>10, <2>1
<1>13. ASSUME NEW j \in 0..(n-1), j < n - 1, j \in Good PROVE j + 1 \in Good
  <2>1. (j + 1) + 1 \in 2..n /\ ((j + 1) + 1) - 1 = j + 1 /\ (j + 1) + 1 \in 1..n
        /\ j + 1 \in 0..(n-1)
    BY <1>13
  <2>2. w[(j+1)+1] = xorw(RK[(j+1)+1], Carry(n, (j + 1) + 1, w[j+1]))
    BY <1>11, <2>1
  <2>3. IsWord(w[j+1])
    BY <1>13, WordsAre
  <2>4. IsWord(xorw(RK[(j+1)+1], Carry(n, (j + 1) + 1, w[j+1])))
    BY <1>3, <2>1, <2>3, CarryWord, XorWord
  <2> QED
    BY <2>1, <2>2, <2>4, WordsAre
<1>14. \A j \in 0..(n-1) : j \in Good
  <2> HIDE DEF Good
  <2> QED
    BY <1>5, <1>12, <1>13, Induct
<1>15. \A k \in 1..n : w[k] \in V
  <2> TAKE k \in 1..n
  <2>1. k - 1 \in 0..(n-1) /\ (k - 1) + 1 = k
    OBVIOUS
  <2> QED
    BY <1>14, <2>1
<1>16. e \in [1..n -> V] /\ \A k \in 1..n : e[k] = w[k]
  BY <1>1, <1>15
<1> HIDE DEF e
<1>17. e \in Seq(V) /\ Len(e) = n
  BY <1>16, IsASeq, LenProperties
<1>18. \A k \in 2..n : k \in 1..n /\ k - 1 \in 1..n
  OBVIOUS
<1>19. 1 \in 1..n
  OBVIOUS
<1> QED
  BY <1>10, <1>11, <1>16, <1>17, <1>18, <1>19 DEF Expanded, e

LEMMA InBlock ==
  ASSUME NEW n \in {4, 6, 8}, NEW q \in Nat, NEW m, m = n * q, NEW k \in 0..(n-1),
         NEW i, i = m + k
  PROVE  i % n = k /\ i \div n = q
<1>1. CASE n = 4
  BY <1>1
<1>2. CASE n = 6
  BY <1>2
<1>3. CASE n = 8
  BY <1>3
<1> QED
  BY <1>1, <1>2, <1>3

\* Index i is k places into block q of n, which begins at m.
PlacedAt(n, q, m, k, i) ==
  n \in {4, 6, 8} /\ q \in Nat /\ m = n * q /\ k \in 0..(n-1) /\ i = m + k
PlaceOf(n, q, k, i) == i % n = k /\ i \div n = q

LEMMA Places ==
  ASSUME NEW n, NEW q, NEW m, NEW k, NEW i, PlacedAt(n, q, m, k, i)
  PROVE  PlaceOf(n, q, k, i)
  BY InBlock DEF PlacedAt, PlaceOf

LEMMA XorWordsMove ==
  ASSUME NEW u, NEW v, NEW w, IsWord(u), IsWord(v), IsWord(w)
  PROVE  xorw(xorw(u, v), w) = xorw(u, xorw(w, v))
<1>1. /\ xorw(u, v) = <<Xor(u[1], v[1]), Xor(u[2], v[2]), Xor(u[3], v[3]), Xor(u[4], v[4])>>
      /\ xorw(w, v) = <<Xor(w[1], v[1]), Xor(w[2], v[2]), Xor(w[3], v[3]), Xor(w[4], v[4])>>
  BY DEF xorw, Xor
<1>2. ASSUME NEW a \in Byte, NEW b \in Byte, NEW c \in Byte
      PROVE  Xor(Xor(a, b), c) = Xor(a, Xor(c, b))
  BY XorLaws
<1> QED
  BY <1>1, <1>2 DEF IsWord, xorw, Xor

\* An iteration of the loop goes on as FIPS 197 says.
LEMMA LoopFollows ==
  ASSUME NEW key, NEW n \in {4, 6, 8}, NEW q \in 1..10, NEW m, m = n * q,
         NEW s, Follows(s, key, n, m)
  PROVE  Follows(s \o expand(Tables, SubSeq(s, m - n + 1, m), q - 1), key, n, m + n)
<1> DEFINE RK == SubSeq(s, m - n + 1, m)
           e == expand(Tables, RK, q - 1)
           u == s \o e
<1>1. m \in Nat /\ n \in Nat /\ m >= n /\ m - (m - n + 1) + 1 = n /\ m - n + 1 \in Int
      /\ m - n + 1 <= m
  OBVIOUS
<1>2. s \in Seq(Words4) /\ Len(s) = m
  BY DEF Follows
<1> DEFINE o == m - n + 1
<1>3. RK \in Seq(Words4) /\ Len(RK) = n /\ \A k \in 1..n : RK[k] = s[m-n+k]
  <2>1. \A k \in o..m : s[k] \in Words4
    <3>1. \A k \in o..m : k \in 1..Len(s)
      BY <1>1, <1>2
    <3> QED
      BY <1>2, <3>1, ElementOfSeq
  <2>2. o \in Int /\ m \in Int /\ o <= m /\ m - o + 1 = n
    BY <1>1
  <2>3. \A k \in 1..n : o + k - 1 = m - n + k
    BY <1>1
  <2> HIDE DEF o
  <2>4. RK = SubSeq(s, o, m)
    BY DEF o
  <2>5. /\ SubSeq(s, o, m) \in Seq(Words4) /\ Len(SubSeq(s, o, m)) = m - o + 1
        /\ \A k \in 1..(m-o+1) : SubSeq(s, o, m)[k] = s[o+k-1]
    BY <2>1, <2>2, SubSeqProperties
  <2> QED
    BY <2>2, <2>3, <2>4, <2>5
<1> HIDE DEF RK
<1>4. q - 1 \in 0..9 /\ 1 \in 1..n /\ n \in 1..n
  OBVIOUS
<1>5. Expanded(e, RK, q - 1)
  BY <1>3, <1>4, ExpandIs
<1> HIDE DEF e
<1>6. /\ e \in Seq(Words4) /\ Len(e) = n /\ e[1] = FirstOf(RK, q - 1)
      /\ \A k \in 2..n : e[k] = xorw(RK[k], Carry(n, k, e[k-1]))
  BY <1>3, <1>5 DEF Expanded
<1>7. /\ u \in Seq(Words4) /\ Len(u) = m + n
      /\ \A k \in 1..(m + n) : u[k] = IF k <= m THEN s[k] ELSE e[k-m]
  BY <1>2, <1>6, ConcatProperties
<1> HIDE DEF u
<1>8. \A k \in 1..n : u[k] = load_word(key, k - 1)
  <2>1. \A k \in 1..n : k \in 1..(m + n) /\ k <= m
    BY <1>1
  <2> QED
    BY <1>7, <2>1 DEF Follows
<1>9. ASSUME NEW i \in n..((m+n)-1) PROVE u[i+1] = xorw(u[i-n+1], Temp(n, i, u[i]))
  <2>1. CASE i < m
    <3>1. i \in n..(m-1) /\ i \in 1..(m+n) /\ i + 1 \in 1..(m+n) /\ i - n + 1 \in 1..(m+n)
          /\ i <= m /\ i + 1 <= m /\ i - n + 1 <= m
      BY <1>1, <2>1
    <3>2. u[i] = s[i] /\ u[i+1] = s[i+1] /\ u[i-n+1] = s[i-n+1]
      BY <1>7, <3>1
    <3> QED
      BY <3>1, <3>2 DEF Follows
  <2>2. CASE i >= m
    <3> DEFINE k == i - m + 1
    <3>1. k \in 1..n /\ k - 1 \in 0..(n-1) /\ m + (k - 1) = i /\ i + 1 = m + k
          /\ i + 1 \in 1..(m+n) /\ ~(i + 1 <= m) /\ (i + 1) - m = k
          /\ i - n + 1 = m - n + k /\ i - n + 1 \in 1..(m+n) /\ i - n + 1 <= m /\ i \in 1..(m+n)
      BY <1>1, <2>2
    <3>2. i % n = k - 1 /\ i \div n = q
      <4> DEFINE j == k - 1
      <4>1. q \in Nat /\ j \in 0..(n-1) /\ i = m + j
        BY <3>1
      <4> HIDE DEF j
      <4>2. PlacedAt(n, q, m, j, i)
        BY <4>1 DEF PlacedAt
      <4>3. PlaceOf(n, q, j, i)
        BY <4>2, Places
      <4> QED
        BY <4>3 DEF j, PlaceOf
    <3> HIDE DEF k
    <3>3. u[i+1] = e[k] /\ u[i-n+1] = RK[k]
      <4>1. u[i+1] = e[(i+1)-m]
        BY <1>7, <3>1
      <4>2. u[i-n+1] = s[i-n+1]
        BY <1>7, <3>1
      <4>3. RK[k] = s[m-n+k]
        BY <1>3, <3>1
      <4> QED
        BY <3>1, <4>1, <4>2, <4>3
    <3>4. CASE k = 1
      <4>1. i <= m /\ i = m
        BY <3>1, <3>4
      <4>2. u[i] = s[m] /\ RK[n] = s[m]
        <5>1. n \in 1..n /\ m - n + n = m
          BY <1>1
        <5> QED
          BY <1>3, <1>7, <3>1, <4>1, <5>1
      <4>3. Temp(n, i, u[i]) = xorw(SubWord(Turned1(RK[n])), ByteWord(RCON[q-1]))
        <5>1. i % n = 0 /\ (i \div n) - 1 = q - 1 /\ u[i] = RK[n]
          BY <3>2, <3>4, <4>2
        <5> QED
          BY <5>1 DEF Temp
      <4>4. e[k] = xorw(xorw(RK[1], ByteWord(RCON[q-1])), SubWord(Turned1(RK[n])))
        BY <1>3, <1>6, <3>4 DEF FirstOf
      <4>5. IsWord(RK[1]) /\ IsWord(ByteWord(RCON[q-1])) /\ IsWord(SubWord(Turned1(RK[n])))
        <5>0. Len(RK) = n
          BY <1>3
        <5>1. 1 \in 1..Len(RK) /\ n \in 1..Len(RK)
          BY <1>4, <5>0
        <5>2. IsWord(RK[1]) /\ IsWord(RK[n])
          BY <1>3, <5>1, ElementOfSeq, WordsAre
        <5>3. IsWord(Turned1(RK[n]))
          BY <5>2, WordOfBytes DEF Turned1, IsWord
        <5>4. IsWord(ByteWord(RCON[q-1]))
          BY <1>4, RconIs, ZeroByte, WordOfBytes DEF ByteWord
        <5> QED
          BY <5>2, <5>3, <5>4, WordMaps
      <4> QED
        BY <3>3, <3>4, <4>3, <4>4, <4>5, XorWordsMove
    <3>5. CASE k # 1
      <4>1. k \in 2..n /\ ~(i <= m) /\ i - m = k - 1 /\ k - 1 # 0
        BY <1>1, <3>1, <3>5
      <4>2. u[i] = e[k-1]
        BY <1>7, <3>1, <4>1
      <4>3. e[k] = xorw(RK[k], Carry(n, k, e[k-1]))
        BY <1>6, <4>1
      <4>4. Temp(n, i, u[i]) = Carry(n, k, u[i])
        <5>1. (n > 6 /\ i % n = 4) <=> (n = 8 /\ k = 5)
          BY <3>1, <3>2
        <5>2. i % n # 0
          BY <3>2, <4>1
        <5> QED
          BY <5>1, <5>2 DEF Temp, Carry
      <4> QED
        BY <3>3, <4>2, <4>3, <4>4
    <3> QED
      BY <3>4, <3>5
  <2> QED
    BY <1>1, <2>1, <2>2
<1> QED
  BY <1>7, <1>8, <1>9 DEF Follows, u, e, RK

FillEntry(f, words, i) ==
  IF i = 0 THEN words
  ELSE f[i-1] \o expand(Tables, SubSeq(f[i-1], Len(f[i-1]) - Len(words) + 1, Len(f[i-1])), i - 1)
FillOn(f, words, m) == f = [i \in 0..m |-> FillEntry(f, words, i)]
Iterations(rounds) == CASE rounds = 10 -> 10 [] rounds = 12 -> 8 [] rounds = 14 -> 7

\* The words after q iterations, when the next is made.
Grown(s, n, q) == s \o expand(Tables, SubSeq(s, Len(s) - n + 1, Len(s)), q - 1)

\* q keys' worth of words.
Block(n, q) == n * q
LEMMA Blocks ==
  ASSUME NEW n \in {4, 6, 8}, NEW q \in Nat
  PROVE  Block(n, q) \in Nat /\ Block(n, q + 1) = Block(n, q) + n /\ Block(n, 1) = n
<1>1. CASE n = 4
  BY <1>1 DEF Block
<1>2. CASE n = 6
  BY <1>2 DEF Block
<1>3. CASE n = 8
  BY <1>3 DEF Block
<1> QED
  BY <1>1, <1>2, <1>3

LEMMA GrownFollows ==
  ASSUME NEW key, NEW n \in {4, 6, 8}, NEW q \in 1..10, NEW s, Follows(s, key, n, Block(n, q))
  PROVE  Follows(Grown(s, n, q), key, n, Block(n, q + 1))
<1> DEFINE m == Block(n, q)
<1>1. m = n * q /\ Len(s) = m /\ q \in Nat
  BY DEF Block, Follows
<1>2. Block(n, q + 1) = m + n
  BY <1>1, Blocks
<1> HIDE DEF m
<1>3. Follows(s, key, n, m)
  BY DEF m
<1>4. Follows(s \o expand(Tables, SubSeq(s, m - n + 1, m), q - 1), key, n, m + n)
  BY <1>1, <1>3, LoopFollows
<1> QED
  BY <1>1, <1>2, <1>4 DEF Grown

LEMMA FillsExist ==
  ASSUME NEW key, NEW n, IsKey(key, n), NEW m \in 0..10
  PROVE  \E f : FillOn(f, KeyWords(key, n), m)
<1> DEFINE V == Seq(Words4)
           b == KeyWords(key, n)
           Fits(s, q) == Follows(s, key, n, Block(n, q))
           S == [p \in (1..m) \X V |-> IF Fits(p[2], p[1]) THEN Grown(p[2], n, p[1]) ELSE p[2]]
<1>1. n \in {4, 6, 8} /\ n \in Nat /\ m \in Nat
  BY DEF IsKey
<1>2. Follows(b, key, n, n) /\ Len(b) = n
  BY KeyWordsFollow DEF Follows
<1>3. b \in V
  BY <1>2 DEF Follows
<1>4. S \in [(1..m) \X V -> V]
  <2>1. ASSUME NEW q \in 1..m, NEW s \in V, Fits(s, q) PROVE Grown(s, n, q) \in V
    <3>1. q \in 1..10
      OBVIOUS
    <3> QED
      BY <1>1, <2>1, <3>1, GrownFollows DEF Follows
  <2> QED
    BY <2>1
<1>5. PICK g \in [0..m -> V] : StepsOn(g, m, b, S)
  <2> HIDE DEF V, S, b
  <2> QED
    BY <1>1, <1>3, <1>4, RecursionExists
<1>6. ASSUME NEW i \in 1..m, Fits(g[i-1], i) PROVE g[i] = Grown(g[i-1], n, i)
  <2>1. i \in 0..m /\ i - 1 \in 0..m /\ i # 0
    OBVIOUS
  <2>2. g[i] = S[<<i, g[i-1]>>] /\ <<i, g[i-1]>> \in (1..m) \X V
    BY <1>5, <2>1 DEF StepsOn
  <2> QED
    BY <1>6, <2>2
<1>7. g[0] = b
  <2>1. 0 \in 0..m
    BY <1>1
  <2> QED
    BY <1>5, <2>1 DEF StepsOn
<1> DEFINE Good == {j \in 0..m : Fits(g[j], j + 1)}
<1>8. 0 \in Good
  <2>1. 0 + 1 = 1 /\ 0 \in 0..m /\ 0 \in Nat
    BY <1>1
  <2>2. Block(n, 1) = n
    BY <1>1, <2>1, Blocks
  <2> QED
    BY <1>2, <1>7, <2>1, <2>2
<1>9. ASSUME NEW j \in 0..m, j < m, j \in Good PROVE j + 1 \in Good
  <2>1. j + 1 \in 1..m /\ j + 1 \in 1..10 /\ (j + 1) - 1 = j /\ j + 1 \in 0..m
    BY <1>9
  <2>2. g[j+1] = Grown(g[j], n, j + 1)
    BY <1>6, <1>9, <2>1
  <2>3. Follows(g[j], key, n, Block(n, j + 1))
    BY <1>9
  <2>4. Follows(Grown(g[j], n, j + 1), key, n, Block(n, (j + 1) + 1))
    BY <1>1, <2>1, <2>3, GrownFollows
  <2> QED
    BY <2>1, <2>2, <2>4
<1>10. \A j \in 0..m : Fits(g[j], j + 1)
  <2> HIDE DEF Good, Fits
  <2>1. \A j \in 0..m : j \in Good
    BY <1>1, <1>8, <1>9, Induct
  <2> QED
    BY <2>1 DEF Good
<1> HIDE DEF Fits
<1>11. ASSUME NEW i \in 0..m PROVE g[i] = FillEntry(g, b, i)
  <2>1. CASE i = 0
    BY <1>7, <2>1 DEF FillEntry
  <2>2. CASE i # 0
    <3>1. i \in 1..m /\ i - 1 \in 0..m /\ (i - 1) + 1 = i
      BY <2>2
    <3>2. g[i] = Grown(g[i-1], n, i)
      BY <1>6, <1>10, <3>1
    <3> QED
      BY <1>2, <2>2, <3>2 DEF FillEntry, Grown
  <2> QED
    BY <2>1, <2>2
<1>12. g = [i \in 0..m |-> g[i]]
  OBVIOUS
<1> QED
  BY <1>11, <1>12 DEF FillOn

\* What aes_set_encryption_key leaves in the buffer.
LEMMA EncryptionKeyFollows ==
  ASSUME NEW key, NEW n, IsKey(key, n)
  PROVE  Follows(aes_set_encryption_key(Tables, key, n + 6), key, n,
                 Block(n, Iterations(n + 6) + 1))
<1> DEFINE m == Iterations(n + 6)
           b == KeyWords(key, n)
           f == CHOOSE q : FillOn(q, b, m)
<1>1. n \in {4, 6, 8} /\ n \in Nat /\ Len(key) \div 4 = n
  BY DEF IsKey
<1>2. m \in 0..10 /\ m \in Nat
  <2>1. CASE n = 4
    BY <2>1 DEF Iterations
  <2>2. CASE n = 6
    BY <2>2 DEF Iterations
  <2>3. CASE n = 8
    BY <2>3 DEF Iterations
  <2> QED
    BY <1>1, <2>1, <2>2, <2>3
<1>3. aes_set_encryption_key(Tables, key, n + 6) = f[m]
  <2>1. aes_set_encryption_key(Tables, key, n + 6)
          = (CHOOSE q : FillOn(q, KeyWords(key, Len(key) \div 4), m))[m]
    BY DEF aes_set_encryption_key, FillOn, FillEntry, KeyWords, Iterations
  <2> QED
    BY <1>1, <2>1
<1> HIDE DEF m
<1>4. FillOn(f, b, m)
  BY <1>2, FillsExist
<1> HIDE DEF f
<1>5. Follows(b, key, n, n) /\ Len(b) = n
  BY KeyWordsFollow DEF Follows
<1> HIDE DEF b
<1>6. \A i \in 0..m : f[i] = FillEntry(f, b, i)
  BY <1>4 DEF FillOn
<1> DEFINE Good == {j \in 0..m : Follows(f[j], key, n, Block(n, j + 1))}
<1>7. 0 \in Good
  <2>1. 0 + 1 = 1 /\ 0 \in 0..m /\ 0 \in Nat
    BY <1>2
  <2>2. Block(n, 1) = n
    BY <1>1, <2>1, Blocks
  <2>3. f[0] = b
    BY <1>6, <2>1 DEF FillEntry
  <2> QED
    BY <1>5, <2>1, <2>2, <2>3
<1>8. ASSUME NEW j \in 0..m, j < m, j \in Good PROVE j + 1 \in Good
  <2>1. j + 1 \in 1..m /\ j + 1 \in 1..10 /\ (j + 1) - 1 = j /\ j + 1 \in 0..m /\ j + 1 # 0
    BY <1>2, <1>8
  <2>2. f[j+1] = Grown(f[j], n, j + 1)
    BY <1>5, <1>6, <2>1 DEF FillEntry, Grown
  <2>3. Follows(f[j], key, n, Block(n, j + 1))
    BY <1>8
  <2>4. Follows(Grown(f[j], n, j + 1), key, n, Block(n, (j + 1) + 1))
    BY <1>1, <2>1, <2>3, GrownFollows
  <2> QED
    BY <2>1, <2>2, <2>4
<1>9. m \in Good
  <2> HIDE DEF Good
  <2>1. \A j \in 0..m : j \in Good
    BY <1>2, <1>7, <1>8, Induct
  <2> QED
    BY <1>2, <2>1
<1> QED
  BY <1>3, <1>9 DEF m

\* aes_set_encryption_key fills at most 64 of the 68 words of the buffer, and
\* they begin with the key expansion of FIPS 197, for every key of every size.
THEOREM EncryptionKeyIs ==
  ASSUME NEW key, NEW n, IsKey(key, n)
  PROVE  LET E == aes_set_encryption_key(Tables, key, n + 6)
             w == F!KeyExpansion(key)
         IN  /\ E \in Seq(Words4) /\ w \in Seq(Words4)
             /\ Len(E) <= 64 /\ 4 * (n + 7) <= Len(E) /\ Len(w) = 4 * (n + 7)
             /\ \A k \in 1..(4 * (n + 7)) : w[k] = E[k]
<1> DEFINE E == aes_set_encryption_key(Tables, key, n + 6)
           w == F!KeyExpansion(key)
           l == Block(n, Iterations(n + 6) + 1)
           m == 4 * (n + 7)
<1>1. n \in {4, 6, 8}
  BY DEF IsKey
<1>2. l <= 64 /\ m <= l /\ l \in Nat /\ m \in Nat
  <2>1. CASE n = 4
    BY <2>1 DEF Iterations, Block
  <2>2. CASE n = 6
    BY <2>2 DEF Iterations, Block
  <2>3. CASE n = 8
    BY <2>3 DEF Iterations, Block
  <2> QED
    BY <1>1, <2>1, <2>2, <2>3
<1>3. Follows(E, key, n, l)
  BY EncryptionKeyFollows
<1>4. Follows(w, key, n, m)
  BY FExpansionFollows
<1> HIDE DEF E, w, l, m
<1>5. \A k \in 1..m : w[k] = E[k]
  BY <1>1, <1>2, <1>3, <1>4, FollowsUnique
<1>6. E \in Seq(Words4) /\ w \in Seq(Words4) /\ Len(E) = l /\ Len(w) = m
  BY <1>3, <1>4 DEF Follows
<1>7. /\ E \in Seq(Words4) /\ w \in Seq(Words4)
      /\ Len(E) <= 64 /\ m <= Len(E) /\ Len(w) = m
      /\ \A k \in 1..m : w[k] = E[k]
  BY <1>2, <1>5, <1>6
<1> QED
  BY <1>7 DEF E, w, m

LEMMA UnmixedIs ==
  ASSUME NEW w, IsWord(w)
  PROVE  unmixed(Tables, w) = InvWord(w)
<1>1. /\ FSb[w[1]] \in Byte /\ FSb[w[2]] \in Byte /\ FSb[w[3]] \in Byte /\ FSb[w[4]] \in Byte
  BY FSbIs DEF IsWord
<1>2. unmixed(Tables, w) = Column(RT, FSb[w[1]], FSb[w[2]], FSb[w[3]], FSb[w[4]])
  BY TablesAre DEF unmixed, Column
<1>3. Column(RT, FSb[w[1]], FSb[w[2]], FSb[w[3]], FSb[w[4]])
        = InvWord(RSubWord(<<FSb[w[1]], FSb[w[2]], FSb[w[3]], FSb[w[4]]>>))
  BY <1>1, ReverseColumn
<1>4. RSubWord(SubWord(w)) = w
  BY WordMaps
<1> QED
  BY <1>2, <1>3, <1>4 DEF SubWord

\* The words of a round, in a sequence of words that is long enough.
LEMMA KeyWordsOf ==
  ASSUME NEW s \in Seq(Words4), NEW n \in Nat, 4 * (n + 1) <= Len(s)
  PROVE  KeysFor(s, n)
<1> SUFFICES ASSUME NEW r \in 0..n PROVE IsState(KeyState(s, r))
  BY DEF KeysFor
<1>1. /\ 4 * r + 1 \in 1..Len(s) /\ 4 * r + 2 \in 1..Len(s)
      /\ 4 * r + 3 \in 1..Len(s) /\ 4 * r + 4 \in 1..Len(s)
  OBVIOUS
<1>2. /\ IsWord(s[4 * r + 1]) /\ IsWord(s[4 * r + 2])
      /\ IsWord(s[4 * r + 3]) /\ IsWord(s[4 * r + 4])
  BY <1>1, ElementOfSeq, WordsAre
<1> QED
  BY <1>2, StateOfWords DEF KeyState

\* Round keys are what the words at their places are.
SameKeys(s, u, n) == \A r \in 0..n : KeyState(s, r) = KeyState(u, r)

LEMMA SameWordsSameKeys ==
  ASSUME NEW s, NEW u, NEW n \in Nat, NEW m, m = 4 * (n + 1), \A k \in 1..m : s[k] = u[k]
  PROVE  SameKeys(s, u, n)
<1> SUFFICES ASSUME NEW r \in 0..n PROVE KeyState(s, r) = KeyState(u, r)
  BY DEF SameKeys
<1>1. /\ 4 * r + 1 \in 1..m /\ 4 * r + 2 \in 1..m
      /\ 4 * r + 3 \in 1..m /\ 4 * r + 4 \in 1..m
  OBVIOUS
<1> QED
  BY <1>1 DEF KeyState

LEMMA SameCipher ==
  ASSUME NEW s, NEW u, NEW n \in {10, 12, 14}, KeysFor(s, n), KeysFor(u, n), SameKeys(s, u, n),
         NEW input, IsBlock(input)
  PROVE  F!Cipher(s, n, input) = F!Cipher(u, n, input)
<1>1. PICK X : RoundsGo(X, "ENCRYPT", s, n, Columns(input))
  BY CipherRounds
<1>2. n \in Nat /\ n > 0 /\ n \in 0..n /\ 0 \in 0..n /\ \A r \in 1..(n-1) : r \in 0..n
  OBVIOUS
<1>3. RoundsGo(X, "ENCRYPT", u, n, Columns(input))
  BY <1>1, <1>2 DEF RoundsGo, SameKeys
<1>4. IsState(Columns(input)) /\ Flat(Columns(input)) = input
  BY BlockColumns
<1>5. F!Cipher(s, n, input) = Flat(LastOf("ENCRYPT", X[n-1], KeyState(s, n)))
  BY <1>1, <1>2, <1>4, FCipherIs
<1>6. F!Cipher(u, n, input) = Flat(LastOf("ENCRYPT", X[n-1], KeyState(u, n)))
  BY <1>2, <1>3, <1>4, FCipherIs
<1> QED
  BY <1>2, <1>5, <1>6 DEF SameKeys

-----------------------------------------------------------------------------
(***************************************************************************)
(* The schedule for decryption.                                            *)
(***************************************************************************)
ReversedWord(SK, n, g, w) == IF g \in {0, n} THEN w ELSE unmixed(Tables, w)
ReversedAt(SK, n, k) ==
  ReversedWord(SK, n, (k - 1) \div 4, SK[4 * (n - ((k - 1) \div 4)) + 1 + ((k - 1) % 4)])

\* aes_set_decryption_key leaves that expansion backwards, all but the ends
\* through the inverse of MixColumns.
THEOREM DecryptionKeyIs ==
  ASSUME NEW key, NEW nk, IsKey(key, nk), NEW n, n = nk + 6
  PROVE  LET d == aes_set_decryption_key(Tables, key, n)
             w == F!KeyExpansion(key)
         IN  /\ d \in Seq(Words4) /\ Len(d) = 4 * (n + 1)
             /\ KeysFor(d, n) /\ Backwards(d, w, n)
<1> DEFINE SK == aes_set_encryption_key(Tables, key, n)
           d == aes_set_decryption_key(Tables, key, n)
           w == F!KeyExpansion(key)
           m == 4 * (n + 1)
<1>1. n \in Nat /\ n \in {10, 12, 14} /\ m = 4 * (nk + 7) /\ m \in Nat /\ m = 4 * (n + 1)
  BY DEF IsKey
<1>2. /\ SK \in Seq(Words4) /\ w \in Seq(Words4) /\ m <= Len(SK) /\ Len(w) = m
      /\ \A k \in 1..m : w[k] = SK[k]
  BY <1>1, EncryptionKeyIs
<1>3. d = [k \in 1..m |-> ReversedAt(SK, n, k)]
  BY DEF aes_set_decryption_key, ReversedAt, ReversedWord
<1> HIDE DEF SK, d, w, m
<1>4. KeysFor(SK, n) /\ KeysFor(w, n)
  BY <1>1, <1>2, KeyWordsOf
<1>5. SameKeys(w, SK, n)
  BY <1>1, <1>2, SameWordsSameKeys
<1>6. ASSUME NEW r \in 0..n
      PROVE  KeyState(d, r) =
               LET K == KeyState(SK, n - r)
               IN  << ReversedWord(SK, n, r, K[1]), ReversedWord(SK, n, r, K[2]),
                      ReversedWord(SK, n, r, K[3]), ReversedWord(SK, n, r, K[4]) >>
  <2>1. ASSUME NEW c \in 0..3, NEW k, k = 4 * r + 1 + c
        PROVE  d[k] = ReversedWord(SK, n, r, SK[4 * (n - r) + 1 + c])
    <3>1. k \in 1..m /\ (k - 1) \div 4 = r /\ (k - 1) % 4 = c
      BY <1>1, <2>1
    <3> QED
      BY <1>3, <3>1 DEF ReversedAt
  <2>2. d[4 * r + 1] = ReversedWord(SK, n, r, SK[4 * (n - r) + 1])
    <3>1. 4 * r + 1 = 4 * r + 1 + 0 /\ 4 * (n - r) + 1 + 0 = 4 * (n - r) + 1 /\ 0 \in 0..3
      BY <1>1
    <3> QED
      BY <2>1, <3>1
  <2>3. d[4 * r + 2] = ReversedWord(SK, n, r, SK[4 * (n - r) + 2])
    <3>1. 4 * r + 2 = 4 * r + 1 + 1 /\ 4 * (n - r) + 1 + 1 = 4 * (n - r) + 2 /\ 1 \in 0..3
      BY <1>1
    <3> QED
      BY <2>1, <3>1
  <2>4. d[4 * r + 3] = ReversedWord(SK, n, r, SK[4 * (n - r) + 3])
    <3>1. 4 * r + 3 = 4 * r + 1 + 2 /\ 4 * (n - r) + 1 + 2 = 4 * (n - r) + 3 /\ 2 \in 0..3
      BY <1>1
    <3> QED
      BY <2>1, <3>1
  <2>5. d[4 * r + 4] = ReversedWord(SK, n, r, SK[4 * (n - r) + 4])
    <3>1. 4 * r + 4 = 4 * r + 1 + 3 /\ 4 * (n - r) + 1 + 3 = 4 * (n - r) + 4 /\ 3 \in 0..3
      BY <1>1
    <3> QED
      BY <2>1, <3>1
  <2> QED
    BY <2>2, <2>3, <2>4, <2>5 DEF KeyState
<1>7. ASSUME NEW r \in 0..n, r \in {0, n}
      PROVE  KeyState(d, r) = KeyState(w, n - r) /\ IsState(KeyState(d, r))
  <2>1. n - r \in 0..n
    BY <1>1
  <2>2. KeyState(d, r) = KeyState(SK, n - r)
    BY <1>6, <1>7 DEF ReversedWord, KeyState
  <2> QED
    BY <1>4, <1>5, <2>1, <2>2 DEF SameKeys, KeysFor
<1>8. ASSUME NEW r \in 0..n, r \notin {0, n}
      PROVE  MixState(KeyState(d, r)) = KeyState(w, n - r) /\ IsState(KeyState(d, r))
  <2> DEFINE K == KeyState(SK, n - r)
  <2>1. n - r \in 0..n
    BY <1>1
  <2>2. IsState(K) /\ K = KeyState(w, n - r)
    BY <1>4, <1>5, <2>1 DEF SameKeys, KeysFor
  <2>3. KeyState(d, r) = << ReversedWord(SK, n, r, K[1]), ReversedWord(SK, n, r, K[2]),
                            ReversedWord(SK, n, r, K[3]), ReversedWord(SK, n, r, K[4]) >>
    BY <1>6
  <2> HIDE DEF K
  <2>4. KeyState(d, r) = InvState(K)
    BY <1>8, <2>2, <2>3, UnmixedIs DEF ReversedWord, InvState, IsState
  <2> QED
    BY <2>2, <2>4, StateMaps
<1>9. KeysFor(d, n)
  BY <1>7, <1>8 DEF KeysFor
<1>10. Backwards(d, w, n)
  <2>1. 0 \in 0..n /\ n \in 0..n /\ n - 0 = n /\ n - n = 0
    BY <1>1
  <2>2. \A i \in 1..(n-1) : i \in 0..n /\ i \notin {0, n}
    BY <1>1
  <2> QED
    BY <1>7, <1>8, <2>1, <2>2 DEF Backwards
<1>11. d \in Seq(Words4) /\ Len(d) = m
  <2>1. ASSUME NEW k \in 1..m PROVE ReversedAt(SK, n, k) \in Words4
    <3> DEFINE g == (k - 1) \div 4
               j == 4 * (n - g) + 1 + ((k - 1) % 4)
    <3>1. j \in 1..Len(SK)
      BY <1>1, <1>2
    <3> HIDE DEF j, g
    <3>2. IsWord(SK[j])
      BY <1>2, <3>1, ElementOfSeq, WordsAre
    <3>3. IsWord(ReversedWord(SK, n, g, SK[j]))
      BY <3>2, UnmixedIs, WordMaps DEF ReversedWord
    <3> QED
      BY <3>3, WordsAre DEF ReversedAt, j, g
  <2>2. d \in [1..m -> Words4]
    BY <1>3, <2>1
  <2> QED
    BY <1>1, <2>2, IsASeq, LenProperties
<1>12. d \in Seq(Words4) /\ Len(d) = m /\ KeysFor(d, n) /\ Backwards(d, w, n)
  BY <1>9, <1>10, <1>11
<1> QED
  BY <1>12 DEF d, w, m

-----------------------------------------------------------------------------
(***************************************************************************)
(* aes_cipher_avx2: two blocks through the instructions for rounds.        *)
(***************************************************************************)

\* A round key as the sixteen bytes of a register.
LEMMA KeyBytesAre ==
  ASSUME NEW RK, NEW r \in Nat, IsState(KeyState(RK, r))
  PROVE  key_bytes(RK, 4 * r, 4) = Flat(KeyState(RK, r))
<1> DEFINE K == KeyState(RK, r)
           v == [k \in 0..3 |-> RK[4 * r + k + 1]]
           f == [i \in 1..16 |-> v[(i - 1) \div 4][1 + ((i - 1) % 4)]]
<1>1. key_bytes(RK, 4 * r, 4) = f
  <2>1. 0..(4-1) = 0..3 /\ 4 * 4 = 16
    OBVIOUS
  <2> QED
    BY <2>1 DEF key_bytes, store_words
<1>2. v[0] = K[1] /\ v[1] = K[2] /\ v[2] = K[3] /\ v[3] = K[4]
  <2>1. /\ 4 * r + 0 + 1 = 4 * r + 1 /\ 4 * r + 1 + 1 = 4 * r + 2
        /\ 4 * r + 2 + 1 = 4 * r + 3 /\ 4 * r + 3 + 1 = 4 * r + 4
    OBVIOUS
  <2> QED
    BY <2>1 DEF KeyState
<1> HIDE DEF v
<1>3. /\ f[1] = v[0][1] /\ f[2] = v[0][2] /\ f[3] = v[0][3] /\ f[4] = v[0][4]
      /\ f[5] = v[1][1] /\ f[6] = v[1][2] /\ f[7] = v[1][3] /\ f[8] = v[1][4]
      /\ f[9] = v[2][1] /\ f[10] = v[2][2] /\ f[11] = v[2][3] /\ f[12] = v[2][4]
      /\ f[13] = v[3][1] /\ f[14] = v[3][2] /\ f[15] = v[3][3] /\ f[16] = v[3][4]
  OBVIOUS
<1>4. f = << f[1], f[2], f[3], f[4], f[5], f[6], f[7], f[8],
             f[9], f[10], f[11], f[12], f[13], f[14], f[15], f[16] >>
  <2>1. f = [i \in 1..16 |-> f[i]]
    OBVIOUS
  <2> HIDE DEF f
  <2> QED
    BY <2>1
<1> HIDE DEF f, K
<1> QED
  BY <1>1, <1>2, <1>3, <1>4 DEF Flat, K

LEMMA XorBytesAre ==
  ASSUME NEW Y, IsState(Y), NEW K, IsState(K)
  PROVE  xor_bytes(Flat(Y), Flat(K)) = Flat(AddState(Y, K))
<1> DEFINE a == Flat(Y)
           b == Flat(K)
           f == xor_bytes(a, b)
<1>1. Len(a) = 16
  BY DEF Flat
<1>2. f = [i \in 1..16 |-> XOR[a[i]][b[i]]]
  BY <1>1 DEF xor_bytes
<1>3. /\ a[1] = Y[1][1] /\ a[2] = Y[1][2] /\ a[3] = Y[1][3] /\ a[4] = Y[1][4]
      /\ a[5] = Y[2][1] /\ a[6] = Y[2][2] /\ a[7] = Y[2][3] /\ a[8] = Y[2][4]
      /\ a[9] = Y[3][1] /\ a[10] = Y[3][2] /\ a[11] = Y[3][3] /\ a[12] = Y[3][4]
      /\ a[13] = Y[4][1] /\ a[14] = Y[4][2] /\ a[15] = Y[4][3] /\ a[16] = Y[4][4]
  BY DEF Flat
<1>4. /\ b[1] = K[1][1] /\ b[2] = K[1][2] /\ b[3] = K[1][3] /\ b[4] = K[1][4]
      /\ b[5] = K[2][1] /\ b[6] = K[2][2] /\ b[7] = K[2][3] /\ b[8] = K[2][4]
      /\ b[9] = K[3][1] /\ b[10] = K[3][2] /\ b[11] = K[3][3] /\ b[12] = K[3][4]
      /\ b[13] = K[4][1] /\ b[14] = K[4][2] /\ b[15] = K[4][3] /\ b[16] = K[4][4]
  BY DEF Flat
<1> HIDE DEF a, b, f
<1>5. f = << f[1], f[2], f[3], f[4], f[5], f[6], f[7], f[8],
             f[9], f[10], f[11], f[12], f[13], f[14], f[15], f[16] >>
  BY <1>2
<1>6. /\ f[1] = XOR[a[1]][b[1]] /\ f[2] = XOR[a[2]][b[2]]
      /\ f[3] = XOR[a[3]][b[3]] /\ f[4] = XOR[a[4]][b[4]]
      /\ f[5] = XOR[a[5]][b[5]] /\ f[6] = XOR[a[6]][b[6]]
      /\ f[7] = XOR[a[7]][b[7]] /\ f[8] = XOR[a[8]][b[8]]
      /\ f[9] = XOR[a[9]][b[9]] /\ f[10] = XOR[a[10]][b[10]]
      /\ f[11] = XOR[a[11]][b[11]] /\ f[12] = XOR[a[12]][b[12]]
      /\ f[13] = XOR[a[13]][b[13]] /\ f[14] = XOR[a[14]][b[14]]
      /\ f[15] = XOR[a[15]][b[15]] /\ f[16] = XOR[a[16]][b[16]]
  BY <1>2
<1>7. f = Flat(AddState(Y, K))
  BY <1>3, <1>4, <1>5, <1>6 DEF Flat, AddState, xorw
<1> QED
  BY <1>7 DEF f, a, b

\* The instructions are rounds of FIPS 197.
LEMMA AesencIs ==
  ASSUME NEW Y, IsState(Y), NEW RK, NEW r \in Nat, IsState(KeyState(RK, r))
  PROVE  /\ aesenc(Flat(Y), key_bytes(RK, 4 * r, 4))
              = Flat(RoundOf("ENCRYPT", Y, KeyState(RK, r)))
         /\ aesenclast(Flat(Y), key_bytes(RK, 4 * r, 4))
              = Flat(LastOf("ENCRYPT", Y, KeyState(RK, r)))
<1> DEFINE Z == SubState(ShiftState(Y))
<1>1. F!ShiftRows(F!SubBytes(Flat(Y))) = Flat(Z) /\ IsState(Z)
  <2>1. F!SubBytes(Flat(Y)) = Flat(SubState(Y)) /\ IsState(SubState(Y))
    BY FSubBytes, StateMaps
  <2>2. F!ShiftRows(Flat(SubState(Y))) = Flat(ShiftState(SubState(Y)))
        /\ IsState(ShiftState(SubState(Y)))
    BY <2>1, FShiftRows, StateMaps
  <2> QED
    BY <2>1, <2>2, StateMaps
<1> HIDE DEF Z
<1>2. F!MixColumns(Flat(Z)) = Flat(MixState(Z)) /\ IsState(MixState(Z))
  BY <1>1, FMixColumns, StateMaps
<1>3. key_bytes(RK, 4 * r, 4) = Flat(KeyState(RK, r))
  BY KeyBytesAre
<1> QED
  BY <1>1, <1>2, <1>3, XorBytesAre DEF aesenc, aesenclast, RoundOf, LastOf, Z

AvxEntry(f, RK, b, i) ==
  IF i = 0 THEN xor_bytes(b, key_bytes(RK, 0, 4))
  ELSE aesenc(f[i-1], key_bytes(RK, 4 * i, 4))
AvxOn(f, RK, b, m) == f = [i \in 0..m |-> AvxEntry(f, RK, b, i)]
AvxBlock(RK, n, b) ==
  aesenclast((CHOOSE f : AvxOn(f, RK, b, n - 1))[n - 1], key_bytes(RK, 4 * n, 4))

LEMMA AvxBlockIs ==
  ASSUME NEW RK, NEW n \in {10, 12, 14}, KeysFor(RK, n), NEW b, IsBlock(b)
  PROVE  AvxBlock(RK, n, b) = F!Cipher(RK, n, b)
<1> DEFINE s == Columns(b)
           m == n - 1
           f == CHOOSE q : AvxOn(q, RK, b, m)
<1>1. IsState(s) /\ Flat(s) = b
  BY BlockColumns
<1>2. n \in Nat /\ n > 0 /\ m \in Nat /\ m < n /\ m \in 0..m /\ 0 \in 0..m /\ n \in 0..n
      /\ 0 \in 0..n /\ m = n - 1
  OBVIOUS
<1>3. PICK X : RoundsGo(X, "ENCRYPT", RK, n, s)
  BY CipherRounds
<1> HIDE DEF s
<1>4. \A r \in 0..m : IsState(X[r])
  BY <1>1, <1>2, <1>3, RoundsAreStates
<1>5. ASSUME NEW g PROVE AvxEntry(g, RK, b, 0) = Flat(X[0])
  <2>1. IsState(KeyState(RK, 0)) /\ 0 \in Nat /\ 4 * 0 = 0
    BY <1>2 DEF KeysFor
  <2>2. key_bytes(RK, 0, 4) = Flat(KeyState(RK, 0))
    BY <2>1, KeyBytesAre
  <2>3. X[0] = AddState(s, KeyState(RK, 0))
    BY <1>3 DEF RoundsGo
  <2> QED
    BY <1>1, <2>1, <2>2, <2>3, XorBytesAre DEF AvxEntry
<1>6. ASSUME NEW g, NEW r \in 0..m, r # 0, g[r-1] = Flat(X[r-1])
      PROVE  AvxEntry(g, RK, b, r) = Flat(X[r])
  <2>1. r \in Nat /\ r - 1 \in 0..m /\ r \in 0..n /\ r \in 1..(n-1)
    BY <1>2, <1>6
  <2>2. IsState(X[r-1]) /\ IsState(KeyState(RK, r))
    BY <1>4, <2>1 DEF KeysFor
  <2>3. X[r] = RoundOf("ENCRYPT", X[r-1], KeyState(RK, r))
    BY <1>3, <2>1 DEF RoundsGo
  <2> QED
    BY <1>6, <2>1, <2>2, <2>3, AesencIs DEF AvxEntry
<1>7. \E q : AvxOn(q, RK, b, m)
  <2> DEFINE g == [r \in 0..m |-> Flat(X[r])]
  <2>1. g = [r \in 0..m |-> g[r]] /\ \A r \in 0..m : g[r] = Flat(X[r])
    OBVIOUS
  <2> HIDE DEF g
  <2>2. ASSUME NEW r \in 0..m PROVE g[r] = AvxEntry(g, RK, b, r)
    <3>1. CASE r = 0
      BY <1>5, <2>1, <3>1
    <3>2. CASE r # 0
      <4>1. r - 1 \in 0..m
        BY <1>2, <3>2
      <4> QED
        BY <1>6, <2>1, <3>2, <4>1
    <3> QED
      BY <3>1, <3>2
  <2> QED
    BY <2>1, <2>2 DEF AvxOn
<1>8. AvxOn(f, RK, b, m)
  BY <1>7
<1>9. AvxBlock(RK, n, b) = aesenclast(f[m], key_bytes(RK, 4 * n, 4))
  BY DEF AvxBlock
<1> HIDE DEF f, m
<1>10. \A r \in 0..m : f[r] = AvxEntry(f, RK, b, r)
  BY <1>8 DEF AvxOn
<1> DEFINE Good == {r \in 0..m : f[r] = Flat(X[r])}
<1>11. 0 \in Good
  BY <1>2, <1>5, <1>10
<1>12. ASSUME NEW r \in 0..m, r < m, r \in Good PROVE r + 1 \in Good
  <2>1. r + 1 \in 0..m /\ r + 1 # 0 /\ (r + 1) - 1 = r
    BY <1>2, <1>12
  <2>2. f[(r + 1) - 1] = Flat(X[(r + 1) - 1])
    BY <1>12, <2>1
  <2> QED
    BY <1>6, <1>10, <2>1, <2>2
<1>13. m \in Good
  <2> HIDE DEF Good
  <2>1. \A r \in 0..m : r \in Good
    BY <1>2, <1>11, <1>12, Induct
  <2> QED
    BY <1>2, <2>1
<1>14. F!Cipher(RK, n, b) = Flat(LastOf("ENCRYPT", X[n-1], KeyState(RK, n)))
  BY <1>1, <1>2, <1>3, FCipherIs
<1>15. aesenclast(Flat(X[m]), key_bytes(RK, 4 * n, 4))
         = Flat(LastOf("ENCRYPT", X[m], KeyState(RK, n)))
  <2>1. IsState(X[m]) /\ IsState(KeyState(RK, n))
    BY <1>2, <1>4 DEF KeysFor
  <2> QED
    BY <1>2, <2>1, AesencIs
<1> QED
  BY <1>2, <1>9, <1>13, <1>14, <1>15

IsTwoBlocks(b) == b \in Seq(Byte) /\ Len(b) = 32

LEMMA BlocksOfTwo ==
  ASSUME NEW b, IsTwoBlocks(b)
  PROVE  IsBlock(first_block(b)) /\ IsBlock(second_block(b))
<1> DEFINE s == SubSeq(b, 1, 16)
           u == SubSeq(b, 17, 32)
<1>1. \A k \in 1..32 : b[k] \in Byte
  BY ElementOfSeq DEF IsTwoBlocks
<1>2. (\A k \in 1..16 : b[k] \in Byte) /\ (\A k \in 17..32 : b[k] \in Byte)
  BY <1>1
<1>3. s \in Seq(Byte) /\ Len(s) = 16 - 1 + 1
  BY <1>2, SubSeqProperties
<1>4. u \in Seq(Byte) /\ Len(u) = 32 - 17 + 1
  BY <1>2, SubSeqProperties
<1>5. 16 - 1 + 1 = 16 /\ 32 - 17 + 1 = 16
  OBVIOUS
<1> QED
  BY <1>3, <1>4, <1>5 DEF first_block, second_block, IsBlock

\* aes_cipher_avx2 is the cipher of FIPS 197 on each of its two blocks.
THEOREM Avx2Is ==
  ASSUME NEW RK, NEW n \in {10, 12, 14}, KeysFor(RK, n), NEW b, IsTwoBlocks(b)
  PROVE  aes_cipher_avx2(RK, n, b)
           = F!Cipher(RK, n, first_block(b)) \o F!Cipher(RK, n, second_block(b))
<1>1. aes_cipher_avx2(RK, n, b)
        = AvxBlock(RK, n, SubSeq(b, 16 * 0 + 1, 16 * 0 + 16))
            \o AvxBlock(RK, n, SubSeq(b, 16 * 1 + 1, 16 * 1 + 16))
  <2>1. 4 * 0 = 0
    OBVIOUS
  <2> QED
    BY <2>1 DEF aes_cipher_avx2, main_rounds, AvxBlock, AvxOn, AvxEntry
<1>2. 16 * 0 + 1 = 1 /\ 16 * 0 + 16 = 16 /\ 16 * 1 + 1 = 17 /\ 16 * 1 + 16 = 32
  OBVIOUS
<1>3. aes_cipher_avx2(RK, n, b) = AvxBlock(RK, n, first_block(b)) \o AvxBlock(RK, n, second_block(b))
  BY <1>1, <1>2 DEF first_block, second_block
<1> QED
  BY <1>3, BlocksOfTwo, AvxBlockIs

-----------------------------------------------------------------------------
(***************************************************************************)
(* Polynomials over GF(2) as sets of exponents: sums, products, and the    *)
(* remainder of the mode.                                                  *)
(***************************************************************************)

\* Coefficients are counted modulo 2.
OddSet(S) == Cardinality(S) % 2 = 1

LEMMA SumMembers ==
  ASSUME NEW A, NEW B, NEW x
  PROVE  x \in xor64(A, B) <=> ~ (x \in A <=> x \in B)
  BY DEF xor64

\* Sets of which one or the other is odd.
LEMMA OddSum ==
  ASSUME NEW A, NEW B, IsFiniteSet(A), IsFiniteSet(B)
  PROVE  IsFiniteSet(xor64(A, B)) /\ (OddSet(xor64(A, B)) <=> ~ (OddSet(A) <=> OddSet(B)))
<1> DEFINE C == A \ B
           D == B \ A
           I == A \cap B
<1>1. IsFiniteSet(C) /\ IsFiniteSet(D) /\ IsFiniteSet(I)
  BY FS_Subset
<1>2. C \cap D = {} /\ C \cap I = {} /\ D \cap I = {}
  OBVIOUS
<1>3. A = C \cup I /\ B = D \cup I /\ xor64(A, B) = D \cup C
  BY DEF xor64
<1>4. IsFiniteSet(D \cup C) /\ Cardinality(D \cup C) = Cardinality(D) + Cardinality(C) - Cardinality(D \cap C)
  BY <1>1, FS_Union
<1>5. /\ Cardinality(C \cup I) = Cardinality(C) + Cardinality(I) - Cardinality(C \cap I)
      /\ Cardinality(D \cup I) = Cardinality(D) + Cardinality(I) - Cardinality(D \cap I)
  BY <1>1, FS_Union
<1>6. Cardinality({}) = 0
  BY FS_EmptySet
<1>7. Cardinality(C) \in Nat /\ Cardinality(D) \in Nat /\ Cardinality(I) \in Nat
  BY <1>1, FS_CardinalityType
<1>8. D \cap C = {}
  BY <1>2
<1> DEFINE c == Cardinality(C)
           d == Cardinality(D)
           i == Cardinality(I)
<1>9. /\ Cardinality(xor64(A, B)) = d + c
      /\ Cardinality(A) = c + i /\ Cardinality(B) = d + i
      /\ c \in Nat /\ d \in Nat /\ i \in Nat
  <2> HIDE DEF C, D, I
  <2>1. Cardinality(D \cup C) = d + c - 0
    BY <1>4, <1>6, <1>8
  <2>2. Cardinality(C \cup I) = c + i - 0 /\ Cardinality(D \cup I) = d + i - 0
    BY <1>2, <1>5, <1>6
  <2>3. c \in Nat /\ d \in Nat /\ i \in Nat
    BY <1>7
  <2> HIDE DEF c, d, i
  <2>4. d + c - 0 = d + c /\ c + i - 0 = c + i /\ d + i - 0 = d + i
    BY <2>3
  <2> QED
    BY <1>3, <2>1, <2>2, <2>3, <2>4
<1> HIDE DEF c, d, i, C, D, I
<1>10. ((d + c) % 2 = 1) <=> ~ ((c + i) % 2 = 1 <=> (d + i) % 2 = 1)
  BY <1>9
<1> QED
  BY <1>3, <1>4, <1>9, <1>10 DEF OddSet

\* A set with one element at most.
LEMMA OddOne ==
  ASSUME NEW S, NEW x, S \subseteq {x}
  PROVE  IsFiniteSet(S) /\ (OddSet(S) <=> x \in S)
<1>1. S = {} \/ S = {x}
  OBVIOUS
<1>2. IsFiniteSet({}) /\ Cardinality({}) = 0 /\ IsFiniteSet({x}) /\ Cardinality({x}) = 1
  BY FS_EmptySet, FS_Singleton
<1> QED
  BY <1>1, <1>2 DEF OddSet

LEMMA FiniteBelow ==
  ASSUME NEW m \in Nat, NEW P \in SUBSET (0..m)
  PROVE  IsFiniteSet(P) /\ P \subseteq Int
<1>1. P \subseteq Int /\ \A a \in P : a \in Nat /\ a <= m
  OBVIOUS
<1>2. P \in SUBSET Nat
  BY <1>1
<1>3. IsFiniteSet(P)
  BY <1>1, <1>2, FS_BoundedSetOfNaturals
<1> QED
  BY <1>1, <1>3

-----------------------------------------------------------------------------
\* The pairs that add up to n.
Terms(P, Q, n) == {a \in P : (n - a) \in Q}
\* P times x^k.
Moved(P, k) == {a + k : a \in P}

LEMMA ProductMembers ==
  ASSUME NEW P, NEW Q, NEW n
  PROVE  n \in PolynomialProduct(P, Q) <=> n \in 0..254 /\ OddSet(Terms(P, Q, n))
  BY DEF PolynomialProduct, Terms, OddSet

LEMMA ProductSum ==
  ASSUME NEW P \in SUBSET (0..127), NEW R \in SUBSET (0..127), NEW Q
  PROVE  PolynomialProduct(xor64(P, R), Q)
           = xor64(PolynomialProduct(P, Q), PolynomialProduct(R, Q))
<1>1. ASSUME NEW n
      PROVE  n \in PolynomialProduct(xor64(P, R), Q)
               <=> n \in xor64(PolynomialProduct(P, Q), PolynomialProduct(R, Q))
  <2>1. Terms(xor64(P, R), Q, n) = xor64(Terms(P, Q, n), Terms(R, Q, n))
    BY DEF Terms, xor64
  <2>2. IsFiniteSet(Terms(P, Q, n)) /\ IsFiniteSet(Terms(R, Q, n))
    <3>1. Terms(P, Q, n) \in SUBSET (0..127) /\ Terms(R, Q, n) \in SUBSET (0..127)
      BY DEF Terms
    <3> QED
      BY <3>1, FiniteBelow
  <2>3. OddSet(Terms(xor64(P, R), Q, n)) <=> ~ (OddSet(Terms(P, Q, n)) <=> OddSet(Terms(R, Q, n)))
    BY <2>1, <2>2, OddSum
  <2> QED
    BY <2>3, ProductMembers, SumMembers
<1> QED
  BY <1>1

LEMMA ProductNone ==
  ASSUME NEW Q
  PROVE  PolynomialProduct({}, Q) = {}
<1>1. ASSUME NEW n PROVE n \notin PolynomialProduct({}, Q)
  <2>1. Terms({}, Q, n) = {}
    BY DEF Terms
  <2>2. ~ OddSet({})
    BY FS_EmptySet DEF OddSet
  <2> QED
    BY <2>1, <2>2, ProductMembers
<1> QED
  BY <1>1

LEMMA ProductOne ==
  ASSUME NEW Q \in SUBSET (0..127)
  PROVE  PolynomialProduct({0}, Q) = Q
<1>1. ASSUME NEW n \in 0..254 PROVE n \in PolynomialProduct({0}, Q) <=> n \in Q
  <2>1. Terms({0}, Q, n) \subseteq {0}
    BY DEF Terms
  <2>2. OddSet(Terms({0}, Q, n)) <=> 0 \in Terms({0}, Q, n)
    BY <2>1, OddOne
  <2>3. n - 0 = n
    OBVIOUS
  <2>4. 0 \in Terms({0}, Q, n) <=> n \in Q
    BY <2>3 DEF Terms
  <2> QED
    BY <2>2, <2>4, ProductMembers
<1>2. PolynomialProduct({0}, Q) \subseteq 0..254 /\ Q \subseteq 0..254
  BY ProductMembers
<1> DEFINE A == PolynomialProduct({0}, Q)
<1> HIDE DEF A
<1>3. ASSUME NEW n PROVE n \in A <=> n \in Q
  <2>1. n \in A => n \in 0..254
    BY <1>2 DEF A
  <2>2. n \in Q => n \in 0..254
    BY <1>2
  <2>3. n \in 0..254 => (n \in A <=> n \in Q)
    BY <1>1 DEF A
  <2> QED
    BY <2>1, <2>2, <2>3
<1> QED
  BY <1>3 DEF A

\* A factor of x moves the product.
LEMMA ProductMoved ==
  ASSUME NEW P \in SUBSET (0..126), NEW Q \in SUBSET (0..127)
  PROVE  /\ PolynomialProduct(Moved(P, 1), Q) = Moved(PolynomialProduct(P, Q), 1)
         /\ PolynomialProduct(P, Q) \in SUBSET (0..253)
<1>1. ASSUME NEW n \in Int
      PROVE  OddSet(Terms(Moved(P, 1), Q, n)) <=> OddSet(Terms(P, Q, n - 1))
  <2> DEFINE S == Terms(P, Q, n - 1)
             T == Terms(Moved(P, 1), Q, n)
             f == [a \in S |-> a + 1]
  <2>1. S \in SUBSET (0..126)
    BY DEF Terms
  <2>2. IsFiniteSet(S)
    BY <2>1, FiniteBelow
  <2>3. \A a \in S : a + 1 \in T
    <3>1. \A a \in P : n - (a + 1) = (n - 1) - a
      OBVIOUS
    <3> QED
      BY <3>1 DEF Terms, Moved
  <2>4. \A b \in T : \E a \in S : b = a + 1
    <3>1. \A a \in P : n - (a + 1) = (n - 1) - a
      OBVIOUS
    <3> QED
      BY <3>1 DEF Terms, Moved
  <2> HIDE DEF S, T
  <2>5. f \in Bijection(S, T)
    <3>1. f \in [S -> T]
      BY <2>3
    <3>2. \A a, b \in S : f[a] = f[b] => a = b
      BY <2>1
    <3>3. \A b \in T : \E a \in S : f[a] = b
      BY <2>4
    <3> QED
      BY <3>1, <3>2, <3>3 DEF Bijection, Injection, Surjection, IsInjective
  <2>6. Cardinality(T) = Cardinality(S)
    BY <2>2, <2>5, FS_Bijection DEF ExistsBijection
  <2> QED
    BY <2>6 DEF OddSet, S, T
<1>2. ASSUME NEW n \in Int, n < 0 \/ n > 253 PROVE ~ OddSet(Terms(P, Q, n))
  <2>1. \A a \in P : (n - a) \notin 0..127
    BY <1>2
  <2>2. Terms(P, Q, n) = {}
    BY <2>1 DEF Terms
  <2> QED
    BY <2>2, FS_EmptySet DEF OddSet
<1>3. PolynomialProduct(P, Q) \in SUBSET (0..253)
  BY <1>2, ProductMembers
<1>4. ASSUME NEW n \in Int
      PROVE  n \in PolynomialProduct(Moved(P, 1), Q) <=> (n - 1) \in PolynomialProduct(P, Q)
  <2>1. CASE n \in 1..254
    BY <1>1, <2>1, ProductMembers
  <2>2. CASE n \notin 1..254
    <3>1. (n - 1) \notin PolynomialProduct(P, Q)
      BY <1>3, <2>2
    <3>2. n \in 0..254 => n - 1 < 0
      BY <2>2
    <3> QED
      BY <1>1, <1>2, <3>1, <3>2, ProductMembers
  <2> QED
    BY <2>1, <2>2
<1>5. \A n : n \in Moved(PolynomialProduct(P, Q), 1) <=> n \in Int /\ (n - 1) \in PolynomialProduct(P, Q)
  BY <1>3 DEF Moved
<1>6. \A n \in PolynomialProduct(Moved(P, 1), Q) : n \in Int
  BY ProductMembers
<1> QED
  BY <1>3, <1>4, <1>5, <1>6

\* What lies at x^128 and above, brought down.
High(P) == {n - 128 : n \in {m \in P : m >= 128}}
Four(a, b, c, d) == ~ (~ (~ (a <=> b) <=> c) <=> d)

LEMMA HighMembers ==
  ASSUME NEW P \in SUBSET (0..254)
  PROVE  /\ High(P) \in SUBSET (0..126)
         /\ \A n \in Int : n \in High(P) <=> n >= 0 /\ (n + 128) \in P
  BY DEF High

LEMMA ReductionMembers ==
  ASSUME NEW K \in SUBSET (0..126), NEW n \in 0..254
  PROVE  n \in PolynomialProduct(K, {0, 1, 2, 7})
           <=> Four(n \in K, (n - 1) \in K, (n - 2) \in K, (n - 7) \in K)
<1> DEFINE T(j) == {a \in K : a = n - j}
           S == xor64(xor64(xor64(T(0), T(1)), T(2)), T(7))
<1>1. \A j \in {0, 1, 2, 7} : T(j) \subseteq {n - j}
  OBVIOUS
<1>2. \A j \in {0, 1, 2, 7} : IsFiniteSet(T(j)) /\ (OddSet(T(j)) <=> (n - j) \in T(j))
  <2> TAKE j \in {0, 1, 2, 7}
  <2> DEFINE U == T(j)
             m == n - j
  <2>1. U \subseteq {m}
    BY <1>1
  <2> HIDE DEF U, m
  <2>2. IsFiniteSet(U) /\ (OddSet(U) <=> m \in U)
    BY <2>1, OddOne
  <2> QED
    BY <2>2 DEF U, m
<1>3. \A j \in {0, 1, 2, 7} : (n - j) \in T(j) <=> (n - j) \in K
  OBVIOUS
<1>4. Terms(K, {0, 1, 2, 7}, n) = S
  <2>1. ASSUME NEW a \in Int PROVE (n - a) \in {0, 1, 2, 7} <=> a = n - 0 \/ a = n - 1 \/ a = n - 2 \/ a = n - 7
    OBVIOUS
  <2>2. ASSUME NEW a PROVE a \in Terms(K, {0, 1, 2, 7}, n) <=> a \in S
    <3>1. a \in Terms(K, {0, 1, 2, 7}, n) <=> a \in K /\ (n - a) \in {0, 1, 2, 7}
      BY DEF Terms
    <3>2. \A j : a \in T(j) <=> a \in K /\ a = n - j
      OBVIOUS
    <3>3. n - 0 # n - 1 /\ n - 0 # n - 2 /\ n - 0 # n - 7 /\ n - 1 # n - 2 /\ n - 1 # n - 7
          /\ n - 2 # n - 7
      OBVIOUS
    <3>4. a \in K => a \in Int
      OBVIOUS
    <3>5. a \in S <=> a \in T(0) \/ a \in T(1) \/ a \in T(2) \/ a \in T(7)
      <4> HIDE DEF T
      <4>1. a \in S <=> ~ (~ (~ (a \in T(0) <=> a \in T(1)) <=> a \in T(2)) <=> a \in T(7))
        BY SumMembers
      <4> QED
        BY <3>2, <3>3, <4>1
    <3> HIDE DEF T, S
    <3> QED
      BY <2>1, <3>1, <3>2, <3>4, <3>5
  <2> HIDE DEF S
  <2> QED
    BY <2>2
<1> HIDE DEF T
<1>5. OddSet(S) <=> Four(OddSet(T(0)), OddSet(T(1)), OddSet(T(2)), OddSet(T(7)))
  <2>1. IsFiniteSet(T(0)) /\ IsFiniteSet(T(1)) /\ IsFiniteSet(T(2)) /\ IsFiniteSet(T(7))
    BY <1>2
  <2>2. /\ IsFiniteSet(xor64(T(0), T(1)))
        /\ OddSet(xor64(T(0), T(1))) <=> ~ (OddSet(T(0)) <=> OddSet(T(1)))
    BY <2>1, OddSum
  <2> DEFINE U == xor64(T(0), T(1))
             V == xor64(U, T(2))
  <2> HIDE DEF U
  <2>3. IsFiniteSet(V) /\ (OddSet(V) <=> ~ (OddSet(U) <=> OddSet(T(2))))
    BY <2>1, <2>2, OddSum DEF U
  <2> HIDE DEF V
  <2>4. OddSet(xor64(V, T(7))) <=> ~ (OddSet(V) <=> OddSet(T(7)))
    BY <2>1, <2>3, OddSum
  <2>5. S = xor64(V, T(7))
    BY DEF U, V
  <2> HIDE DEF S
  <2> QED
    BY <2>2, <2>3, <2>4, <2>5 DEF Four, U
<1> HIDE DEF S
<1>6. n - 0 = n
  OBVIOUS
<1>7. /\ OddSet(T(0)) <=> n \in K
      /\ OddSet(T(1)) <=> (n - 1) \in K
      /\ OddSet(T(2)) <=> (n - 2) \in K
      /\ OddSet(T(7)) <=> (n - 7) \in K
  BY <1>2, <1>3, <1>6
<1> QED
  BY <1>4, <1>5, <1>7, ProductMembers DEF Four

\* One step of the reduction, power by power.
At(P, n) == n >= 128 /\ n \in P
ReducedAt(P, n) ==
  ~ (n <= 127 /\ n \in P <=> Four(At(P, n + 128), At(P, n + 127), At(P, n + 126), At(P, n + 121)))

LEMMA ReducedMembers ==
  ASSUME NEW P \in SUBSET (0..254)
  PROVE  /\ Reduced(P) \in SUBSET (0..254)
         /\ \A n \in 0..254 : n \in Reduced(P) <=> ReducedAt(P, n)
<1> DEFINE M == PolynomialProduct(High(P), {0, 1, 2, 7})
<1>1. Reduced(P) = xor64(P \cap (0..127), M)
  BY DEF Reduced, High
<1>2. High(P) \in SUBSET (0..126) /\ M \subseteq 0..254
  <2> DEFINE K == High(P)
  <2>1. K \in SUBSET (0..126)
    BY HighMembers
  <2> HIDE DEF K
  <2>2. ASSUME NEW n, n \in PolynomialProduct(K, {0, 1, 2, 7}) PROVE n \in 0..254
    BY <2>2, ProductMembers
  <2> QED
    BY <2>1, <2>2 DEF K
<1>3. ASSUME NEW n \in 0..254 PROVE n \in Reduced(P) <=> ReducedAt(P, n)
  <2>1. n \in M <=> Four(n \in High(P), (n - 1) \in High(P), (n - 2) \in High(P), (n - 7) \in High(P))
    BY <1>2, ReductionMembers
  <2>2. /\ n \in High(P) <=> At(P, n + 128)
        /\ (n - 1) \in High(P) <=> At(P, n + 127)
        /\ (n - 2) \in High(P) <=> At(P, n + 126)
        /\ (n - 7) \in High(P) <=> At(P, n + 121)
    <3>1. (n - 1) + 128 = n + 127 /\ (n - 2) + 128 = n + 126 /\ (n - 7) + 128 = n + 121
      OBVIOUS
    <3>2. n \in Int /\ n - 1 \in Int /\ n - 2 \in Int /\ n - 7 \in Int
      OBVIOUS
    <3>3. /\ n >= 0 <=> n + 128 >= 128
          /\ n - 1 >= 0 <=> n + 127 >= 128
          /\ n - 2 >= 0 <=> n + 126 >= 128
          /\ n - 7 >= 0 <=> n + 121 >= 128
      OBVIOUS
    <3> QED
      BY <3>1, <3>2, <3>3, HighMembers DEF At
  <2> HIDE DEF M
  <2>3. n \in Reduced(P) <=> ~ (n \in P \cap (0..127) <=> n \in M)
    BY <1>1, SumMembers
  <2>4. n \in P \cap (0..127) <=> n <= 127 /\ n \in P
    OBVIOUS
  <2> QED
    BY <2>1, <2>2, <2>3, <2>4 DEF ReducedAt, Four
<1>4. Reduced(P) \in SUBSET (0..254)
  BY <1>1, <1>2 DEF xor64
<1> QED
  BY <1>3, <1>4

LEMMA ReducedSum ==
  ASSUME NEW P \in SUBSET (0..254), NEW R \in SUBSET (0..254)
  PROVE  Reduced(xor64(P, R)) = xor64(Reduced(P), Reduced(R))
<1>1. xor64(P, R) \in SUBSET (0..254)
  BY DEF xor64
<1>2. ASSUME NEW n \in 0..254
      PROVE  ReducedAt(xor64(P, R), n) <=> ~ (ReducedAt(P, n) <=> ReducedAt(R, n))
  BY SumMembers DEF ReducedAt, At, Four
<1>3. \A n \in 0..254 : n \in Reduced(xor64(P, R)) <=> n \in xor64(Reduced(P), Reduced(R))
  BY <1>1, <1>2, ReducedMembers, SumMembers
<1>4. Reduced(xor64(P, R)) \in SUBSET (0..254) /\ Reduced(P) \in SUBSET (0..254)
      /\ Reduced(R) \in SUBSET (0..254)
  BY <1>1, ReducedMembers
<1> DEFINE A == Reduced(xor64(P, R))
           B == Reduced(P)
           C == Reduced(R)
<1> HIDE DEF A, B, C
<1>5. xor64(B, C) \in SUBSET (0..254)
  BY <1>4 DEF xor64, B, C
<1>6. A = xor64(B, C)
  BY <1>3, <1>4, <1>5 DEF A, B, C
<1> QED
  BY <1>6 DEF A, B, C

SameBelow(A, B, m) == /\ A \in SUBSET (0..m) /\ B \in SUBSET (0..m)
                      /\ \A n \in 0..m : n \in A <=> n \in B
LEMMA SameSet ==
  ASSUME NEW A, NEW B, NEW m, SameBelow(A, B, m)
  PROVE  A = B
<1>1. ASSUME NEW n PROVE n \in A <=> n \in B
  BY DEF SameBelow
<1> QED
  BY <1>1

\* A polynomial of degree 127 at most, times x.
TimesX(P) ==
  {n \in 0..127 : ~ ((n - 1) \in P <=> 127 \in P /\ n \in {0, 1, 2, 7})}
Remainder(P) == Reduced(Reduced(P))

LEMMA MovedMembers ==
  ASSUME NEW P \in SUBSET (0..253)
  PROVE  /\ Moved(P, 1) \in SUBSET (1..254)
         /\ \A n \in Int : n \in Moved(P, 1) <=> (n - 1) \in P
  BY DEF Moved

\* Reduced once, a product has degree 133 at most; reduced twice, 127.
LEMMA ReducedDegrees ==
  ASSUME NEW P \in SUBSET (0..254)
  PROVE  /\ Reduced(P) \in SUBSET (0..133)
         /\ Remainder(P) \in SUBSET (0..127)
         /\ 127 \in Remainder(P) <=> 127 \in Reduced(P)
<1>1. Reduced(P) \in SUBSET (0..254) /\ \A n \in 0..254 : n \in Reduced(P) <=> ReducedAt(P, n)
  BY ReducedMembers
<1>2. ASSUME NEW n \in 0..254, n > 133 PROVE ~ ReducedAt(P, n)
  <2>1. ~ (n <= 127) /\ n + 128 \notin 0..254 /\ n + 127 \notin 0..254 /\ n + 126 \notin 0..254
        /\ n + 121 \notin 0..254
    BY <1>2
  <2> QED
    BY <2>1 DEF ReducedAt, At, Four
<1>3. Reduced(P) \in SUBSET (0..133)
  <2> DEFINE R == Reduced(P)
  <2>1. ASSUME NEW n \in R PROVE n \in 0..133
    <3>1. n \in 0..254
      BY <1>1
    <3>2. ReducedAt(P, n)
      BY <1>1, <3>1
    <3>3. ~ (n > 133)
      BY <1>2, <3>1, <3>2
    <3> QED
      BY <3>1, <3>3
  <2> QED
    BY <2>1
<1> DEFINE R == Reduced(P)
<1> HIDE DEF R
<1>4. R \in SUBSET (0..133) /\ R \in SUBSET (0..254)
  BY <1>1, <1>3 DEF R
<1>5. Reduced(R) \in SUBSET (0..254) /\ \A n \in 0..254 : n \in Reduced(R) <=> ReducedAt(R, n)
  BY <1>4, ReducedMembers
<1>6. ASSUME NEW n \in 0..254, n > 127 PROVE ~ ReducedAt(R, n)
  <2>1. ~ (n <= 127) /\ n + 128 \notin 0..133 /\ n + 127 \notin 0..133 /\ n + 126 \notin 0..133
        /\ n + 121 \notin 0..133
    BY <1>6
  <2> QED
    BY <1>4, <2>1 DEF ReducedAt, At, Four
<1> DEFINE Q == Reduced(R)
<1> HIDE DEF Q
<1>7. Q \in SUBSET (0..127)
  <2>1. ASSUME NEW n \in Q PROVE n \in 0..127
    <3>1. n \in 0..254
      BY <1>5 DEF Q
    <3>2. ReducedAt(R, n)
      BY <1>5, <3>1 DEF Q
    <3>3. ~ (n > 127)
      BY <1>6, <3>1, <3>2
    <3> QED
      BY <3>1, <3>3
  <2> QED
    BY <2>1
<1>8. 127 \in Q <=> 127 \in R
  <2>1. 127 \in Q <=> ReducedAt(R, 127)
    BY <1>5 DEF Q
  <2>2. /\ 127 + 128 = 255 /\ 127 + 127 = 254 /\ 127 + 126 = 253 /\ 127 + 121 = 248
        /\ 255 \notin R /\ 254 \notin R /\ 253 \notin R /\ 248 \notin R
    BY <1>4
  <2> QED
    BY <2>1, <2>2 DEF ReducedAt, At, Four
<1> QED
  BY <1>3, <1>7, <1>8 DEF Q, R, Remainder

Overflow(P) == IF 127 \in P THEN {0, 1, 2, 7, 128} ELSE {}

\* Multiplying by x and reducing is reducing and multiplying by x.
LEMMA ReducedMoved ==
  ASSUME NEW P \in SUBSET (0..253)
  PROVE  Reduced(Moved(P, 1)) = xor64(Moved(Reduced(P), 1), Overflow(P))
<1> DEFINE R == Reduced(P)
           X == Moved(P, 1)
<1>1. P \in SUBSET (0..254) /\ X \in SUBSET (0..254) /\ \A n \in Int : n \in X <=> (n - 1) \in P
  BY MovedMembers
<1>2. R \in SUBSET (0..133) /\ \A n \in 0..254 : n \in R <=> ReducedAt(P, n)
  BY <1>1, ReducedMembers, ReducedDegrees
<1> HIDE DEF X, R
<1>3. Reduced(X) \in SUBSET (0..254) /\ \A n \in 0..254 : n \in Reduced(X) <=> ReducedAt(X, n)
  BY <1>1, ReducedMembers
<1>4. Moved(R, 1) \in SUBSET (0..254) /\ \A n \in Int : n \in Moved(R, 1) <=> (n - 1) \in R
  <2>1. R \in SUBSET (0..253)
    BY <1>2
  <2> QED
    BY <2>1, MovedMembers
<1>5. Overflow(P) \in SUBSET (0..254)
  BY DEF Overflow
<1>6. ASSUME NEW n \in 1..254
      PROVE  ReducedAt(X, n) <=> ~ (ReducedAt(P, n - 1) <=> n \in Overflow(P))
  <2>1. /\ n \in X <=> (n - 1) \in P
        /\ (n + 128) \in X <=> (n - 1 + 128) \in P
        /\ (n + 127) \in X <=> (n - 1 + 127) \in P
        /\ (n + 126) \in X <=> (n - 1 + 126) \in P
        /\ (n + 121) \in X <=> (n - 1 + 121) \in P
    <3>1. /\ n + 128 - 1 = n - 1 + 128 /\ n + 127 - 1 = n - 1 + 127 /\ n + 126 - 1 = n - 1 + 126
          /\ n + 121 - 1 = n - 1 + 121
      OBVIOUS
    <3>2. n \in Int /\ n + 128 \in Int /\ n + 127 \in Int /\ n + 126 \in Int /\ n + 121 \in Int
      OBVIOUS
    <3> QED
      BY <1>1, <3>1, <3>2
  <2>2. n \in Overflow(P) <=> 127 \in P /\ n \in {0, 1, 2, 7, 128}
    BY DEF Overflow
  <2>3. n = 128 => n - 1 = 127
    OBVIOUS
  <2>4. /\ n = 1 => n - 1 + 127 = 127
        /\ n = 2 => n - 1 + 126 = 127
        /\ n = 7 => n - 1 + 121 = 127
    OBVIOUS
  <2>5. /\ n + 128 >= 128 /\ n + 127 >= 128 /\ (n + 126 >= 128 <=> n # 1)
        /\ n + 121 >= 128 <=> n >= 7
        /\ n - 1 + 128 >= 128 /\ (n - 1 + 127 >= 128 <=> n # 1) /\ (n - 1 + 126 >= 128 <=> n >= 3)
        /\ n - 1 + 121 >= 128 <=> n >= 8
        /\ n <= 127 <=> n - 1 <= 127 /\ n # 128
    OBVIOUS
  <2> QED
    BY <2>1, <2>2, <2>3, <2>4, <2>5 DEF ReducedAt, At, Four
<1>7. 0 \in Reduced(X) <=> 0 \in Overflow(P)
  <2>1. 0 \in Reduced(X) <=> ReducedAt(X, 0)
    BY <1>3
  <2>2. 0 \in X <=> FALSE
    BY <1>1
  <2>3. 128 \in X <=> 127 \in P
    BY <1>1
  <2> QED
    BY <2>1, <2>2, <2>3 DEF ReducedAt, At, Four, Overflow
<1>8. 0 \notin Moved(R, 1)
  BY <1>2, <1>4
<1>9. ASSUME NEW n \in 0..254
      PROVE  n \in Reduced(X) <=> n \in xor64(Moved(R, 1), Overflow(P))
  <2>1. CASE n = 0
    BY <1>7, <1>8, <2>1, SumMembers
  <2>2. CASE n # 0
    <3>1. n \in 1..254 /\ n - 1 \in 0..254 /\ n \in Int
      BY <2>2
    <3>2. n \in Reduced(X) <=> ~ ((n - 1) \in R <=> n \in Overflow(P))
      BY <1>2, <1>3, <1>6, <3>1
    <3> QED
      BY <1>4, <3>1, <3>2, SumMembers
  <2> QED
    BY <2>1, <2>2
<1> DEFINE A == Reduced(X)
           B == xor64(Moved(R, 1), Overflow(P))
<1>10. A \in SUBSET (0..254) /\ B \in SUBSET (0..254)
  BY <1>3, <1>4, <1>5 DEF xor64
<1>11. \A n \in 0..254 : n \in A <=> n \in B
  BY <1>9
<1> HIDE DEF A, B
<1>12. A = B
  <2>1. SameBelow(A, B, 254)
    BY <1>10, <1>11 DEF SameBelow
  <2> QED
    BY <2>1, SameSet
<1> QED
  BY <1>12 DEF A, B, X, R

LEMMA OverflowReduced == Reduced({0, 1, 2, 7, 128}) = {}
<1> DEFINE P == {0, 1, 2, 7, 128}
<1>1. P \in SUBSET (0..254)
  OBVIOUS
<1>2. Reduced(P) \in SUBSET (0..254) /\ \A n \in 0..254 : n \in Reduced(P) <=> ReducedAt(P, n)
  BY <1>1, ReducedMembers
<1>3. ASSUME NEW n \in 0..254 PROVE ~ ReducedAt(P, n)
  <2>1. n <= 127 /\ n \in P <=> n \in {0, 1, 2, 7}
    OBVIOUS
  <2>2. /\ At(P, n + 128) <=> n = 0
        /\ At(P, n + 127) <=> n = 1
        /\ At(P, n + 126) <=> n = 2
        /\ At(P, n + 121) <=> n = 7
    BY DEF At
  <2> QED
    BY <2>1, <2>2 DEF ReducedAt, Four
<1> DEFINE R == Reduced(P)
<1> HIDE DEF R
<1>4. R = {}
  <2>1. ASSUME NEW n \in R PROVE FALSE
    BY <1>2, <1>3 DEF R
  <2> QED
    BY <2>1
<1> QED
  BY <1>4 DEF R

LEMMA RemainderMoved ==
  ASSUME NEW P \in SUBSET (0..253)
  PROVE  Remainder(Moved(P, 1)) = TimesX(Remainder(P))
<1> DEFINE R == Reduced(P)
           V == Overflow(P)
           Q == Remainder(P)
           M == Moved(R, 1)
           N == Moved(Q, 1)
<1>1. P \in SUBSET (0..254)
  OBVIOUS
<1>2. R \in SUBSET (0..133) /\ R \in SUBSET (0..253) /\ R \in SUBSET (0..254)
  BY <1>1, ReducedDegrees
<1>3. Q \in SUBSET (0..127) /\ (127 \in Q <=> 127 \in R) /\ Q = Reduced(R)
  BY <1>1, ReducedDegrees DEF Remainder
<1>4. Reduced(Moved(P, 1)) = xor64(M, V)
  BY ReducedMoved
<1> HIDE DEF R, Q
<1>5. V \in SUBSET (0..254) /\ M \in SUBSET (0..254)
  BY <1>2, MovedMembers DEF Overflow
<1>6. Reduced(V) = {}
  <2>1. Reduced({}) = {}
    <3>1. {} \in SUBSET (0..254) /\ Reduced({}) \in SUBSET (0..254)
          /\ \A n \in 0..254 : n \in Reduced({}) <=> ReducedAt({}, n)
      BY ReducedMembers
    <3>2. \A n : ~ ReducedAt({}, n)
      BY DEF ReducedAt, At, Four
    <3> DEFINE A == Reduced({})
    <3> HIDE DEF A
    <3>3. A = {}
      BY <3>1, <3>2 DEF A
    <3> QED
      BY <3>3 DEF A
  <2> QED
    BY <2>1, OverflowReduced DEF Overflow
<1> HIDE DEF V, M
<1>7. Remainder(Moved(P, 1)) = xor64(Reduced(M), Reduced(V))
  BY <1>4, <1>5, ReducedSum DEF Remainder
<1>8. Reduced(M) = xor64(N, Overflow(R))
  BY <1>2, <1>3, ReducedMoved DEF M
<1>9. N \subseteq 1..128 /\ \A n \in Int : n \in N <=> (n - 1) \in Q
  BY <1>3 DEF Moved
<1>10. Reduced(M) \in SUBSET (0..254)
  BY <1>5, ReducedMembers
<1> DEFINE A == Reduced(M)
<1>11. Remainder(Moved(P, 1)) = A
  BY <1>6, <1>7 DEF xor64
<1>12. ASSUME NEW n \in 0..254 PROVE n \in A <=> n \in TimesX(Q)
  <2>1. n \in A <=> ~ (n \in N <=> n \in Overflow(R))
    BY <1>8, SumMembers
  <2>2. n \in N <=> (n - 1) \in Q
    BY <1>9
  <2>3. n \in Overflow(R) <=> 127 \in Q /\ n \in {0, 1, 2, 7, 128}
    BY <1>3 DEF Overflow
  <2> HIDE DEF A, N
  <2>4. CASE n <= 127
    BY <2>1, <2>2, <2>3, <2>4 DEF TimesX
  <2>5. CASE n > 127
    <3>1. n \notin 0..127 /\ ((n - 1) \in Q <=> 127 \in Q /\ n = 128)
      BY <1>3, <2>5
    <3> QED
      BY <2>1, <2>2, <2>3, <2>5, <3>1 DEF TimesX
  <2> QED
    BY <2>4, <2>5
<1> HIDE DEF A
<1>13. A \in SUBSET (0..254) /\ TimesX(Q) \in SUBSET (0..254)
  BY <1>10 DEF A, TimesX
<1>14. A = TimesX(Q)
  <2>1. SameBelow(A, TimesX(Q), 254)
    BY <1>12, <1>13 DEF SameBelow
  <2> QED
    BY <2>1, SameSet
<1> QED
  BY <1>11, <1>14 DEF Q

LEMMA RemainderSame ==
  ASSUME NEW Q \in SUBSET (0..127)
  PROVE  Remainder(Q) = Q
<1>1. Q \in SUBSET (0..254)
  OBVIOUS
<1>2. Reduced(Q) \in SUBSET (0..254) /\ \A n \in 0..254 : n \in Reduced(Q) <=> ReducedAt(Q, n)
  BY <1>1, ReducedMembers
<1>3. ASSUME NEW n \in 0..254 PROVE ReducedAt(Q, n) <=> n \in Q
  BY DEF ReducedAt, At, Four
<1> DEFINE R == Reduced(Q)
<1> HIDE DEF R
<1>4. SameBelow(R, Q, 254)
  BY <1>1, <1>2, <1>3 DEF SameBelow, R
<1>5. R = Q
  BY <1>4, SameSet
<1> QED
  BY <1>5 DEF Remainder, R

LEMMA ProductDegrees ==
  ASSUME NEW P, NEW Q
  PROVE  PolynomialProduct(P, Q) \in SUBSET (0..254)
  BY DEF PolynomialProduct

\* The product of the mode is linear in its first factor.
LEMMA FieldSum ==
  ASSUME NEW P \in SUBSET (0..127), NEW R \in SUBSET (0..127), NEW Q
  PROVE  FieldProduct(xor64(P, R), Q) = xor64(FieldProduct(P, Q), FieldProduct(R, Q))
<1> DEFINE A == PolynomialProduct(P, Q)
           B == PolynomialProduct(R, Q)
<1>1. A \in SUBSET (0..254) /\ B \in SUBSET (0..254)
  BY ProductDegrees
<1>2. PolynomialProduct(xor64(P, R), Q) = xor64(A, B)
  BY ProductSum
<1> HIDE DEF A, B
<1>3. Reduced(xor64(A, B)) = xor64(Reduced(A), Reduced(B))
  BY <1>1, ReducedSum
<1>4. Reduced(A) \in SUBSET (0..254) /\ Reduced(B) \in SUBSET (0..254)
  BY <1>1, ReducedMembers
<1> DEFINE C == Reduced(A)
           D == Reduced(B)
<1> HIDE DEF C, D
<1>5. Reduced(xor64(C, D)) = xor64(Reduced(C), Reduced(D))
  BY <1>4, ReducedSum DEF C, D
<1> QED
  BY <1>2, <1>3, <1>5 DEF FieldProduct, A, B, C, D

\* The field of GCM: multiplying a factor by x multiplies the product by x.
THEOREM FieldMoved ==
  ASSUME NEW P \in SUBSET (0..126), NEW Q \in SUBSET (0..127)
  PROVE  FieldProduct(Moved(P, 1), Q) = TimesX(FieldProduct(P, Q))
<1> DEFINE A == PolynomialProduct(P, Q)
<1>1. PolynomialProduct(Moved(P, 1), Q) = Moved(A, 1) /\ A \in SUBSET (0..253)
  BY ProductMoved
<1> HIDE DEF A
<1>2. Remainder(Moved(A, 1)) = TimesX(Remainder(A))
  BY <1>1, RemainderMoved
<1> QED
  BY <1>1, <1>2 DEF FieldProduct, Remainder, A

LEMMA FieldNone ==
  ASSUME NEW Q
  PROVE  FieldProduct({}, Q) = {}
<1>1. {} \in SUBSET (0..127)
  OBVIOUS
<1>2. Remainder({}) = {}
  BY <1>1, RemainderSame
<1> QED
  BY <1>2, ProductNone DEF FieldProduct, Remainder

LEMMA FieldOne ==
  ASSUME NEW Q \in SUBSET (0..127)
  PROVE  FieldProduct({0}, Q) = Q
  BY ProductOne, RemainderSame DEF FieldProduct, Remainder

LEMMA FieldDegrees ==
  ASSUME NEW P, NEW Q
  PROVE  FieldProduct(P, Q) \in SUBSET (0..127)
<1> DEFINE A == PolynomialProduct(P, Q)
<1>1. A \in SUBSET (0..254)
  BY ProductDegrees
<1> HIDE DEF A
<1>2. Remainder(A) \in SUBSET (0..127)
  BY <1>1, ReducedDegrees
<1> QED
  BY <1>2 DEF FieldProduct, Remainder, A

LEMMA TimesXSum ==
  ASSUME NEW A, NEW B
  PROVE  /\ TimesX(xor64(A, B)) = xor64(TimesX(A), TimesX(B))
         /\ TimesX(A) \in SUBSET (0..127)
<1>1. \A n : n \in TimesX(xor64(A, B)) <=> n \in xor64(TimesX(A), TimesX(B))
  BY DEF TimesX, xor64
<1> QED
  BY <1>1 DEF TimesX

\* By x^4 at once.
TimesX4(P) == TimesX(TimesX(TimesX(TimesX(P))))

LEMMA FieldMoved4 ==
  ASSUME NEW P \in SUBSET (0..123), NEW Q \in SUBSET (0..127)
  PROVE  FieldProduct(Moved(P, 4), Q) = TimesX4(FieldProduct(P, Q))
<1> DEFINE P1 == Moved(P, 1)
           P2 == Moved(P1, 1)
           P3 == Moved(P2, 1)
<1>1. P1 \in SUBSET (0..124)
  BY DEF Moved
<1> HIDE DEF P1
<1>2. P2 \in SUBSET (0..125)
  BY <1>1 DEF Moved
<1> HIDE DEF P2
<1>3. P3 \in SUBSET (0..126)
  BY <1>2 DEF Moved
<1>4. Moved(P, 4) = Moved(P3, 1)
  <2>1. \A n : n \in P1 <=> n \in Int /\ (n - 1) \in P
    BY DEF P1, Moved
  <2>2. \A n : n \in P2 <=> n \in Int /\ (n - 1) \in P1
    BY <1>1 DEF P2, Moved
  <2>3. \A n : n \in P3 <=> n \in Int /\ (n - 1) \in P2
    BY <1>2 DEF Moved
  <2> HIDE DEF P3
  <2>4. \A n : n \in Moved(P3, 1) <=> n \in Int /\ (n - 1) \in P3
    BY <1>3 DEF Moved
  <2>5. \A n : n \in Moved(P, 4) <=> n \in Int /\ (n - 4) \in P
    BY DEF Moved
  <2>6. ASSUME NEW n \in Int PROVE n \in Moved(P3, 1) <=> n \in Moved(P, 4)
    <3>1. n - 1 \in Int /\ n - 1 - 1 \in Int /\ n - 1 - 1 - 1 \in Int /\ n - 1 - 1 - 1 - 1 = n - 4
      OBVIOUS
    <3> QED
      BY <2>1, <2>2, <2>3, <2>4, <2>5, <3>1
  <2>7. \A n : n \in Moved(P3, 1) <=> n \in Moved(P, 4)
    BY <2>4, <2>5, <2>6
  <2> QED
    BY <2>7
<1> HIDE DEF P3
<1>5. FieldProduct(P1, Q) = TimesX(FieldProduct(P, Q))
  BY FieldMoved DEF P1
<1>6. P1 \in SUBSET (0..126) /\ P2 \in SUBSET (0..126)
  BY <1>1, <1>2
<1>7. FieldProduct(P2, Q) = TimesX(FieldProduct(P1, Q))
  BY <1>6, FieldMoved DEF P2
<1>8. FieldProduct(P3, Q) = TimesX(FieldProduct(P2, Q))
  BY <1>6, FieldMoved DEF P3
<1>9. FieldProduct(Moved(P3, 1), Q) = TimesX(FieldProduct(P3, Q))
  BY <1>3, FieldMoved
<1> QED
  BY <1>4, <1>5, <1>7, <1>8, <1>9 DEF TimesX4

LEMMA TimesX4Sum ==
  ASSUME NEW A, NEW B
  PROVE  TimesX4(xor64(A, B)) = xor64(TimesX4(A), TimesX4(B))
  BY TimesXSum DEF TimesX4

\* What it is, power by power: four coefficients come back at the bottom.
Falls(P, i, n) == (127 - i) \in P /\ n \in {3 - i, 4 - i, 5 - i, 10 - i}
TimesX4At(P, n) ==
  ~ (((n - 4) \in P) <=> Four(Falls(P, 0, n), Falls(P, 1, n), Falls(P, 2, n), Falls(P, 3, n)))

LEMMA TimesX4Members ==
  ASSUME NEW P \in SUBSET (0..127), NEW n \in 0..127
  PROVE  n \in TimesX4(P) <=> TimesX4At(P, n)
<1> DEFINE P1 == TimesX(P)
           P2 == TimesX(P1)
           P3 == TimesX(P2)
<1>1. /\ P1 \in SUBSET (0..127) /\ P2 \in SUBSET (0..127) /\ P3 \in SUBSET (0..127)
  BY DEF TimesX
<1>2. \A k \in Int : k \in P1 <=> k \in 0..127 /\ ~ ((k - 1) \in P <=> 127 \in P /\ k \in {0, 1, 2, 7})
  BY DEF TimesX
<1>3. \A k \in Int : k \in P2 <=> k \in 0..127 /\ ~ ((k - 1) \in P1 <=> 127 \in P1 /\ k \in {0, 1, 2, 7})
  BY DEF TimesX
<1>4. \A k \in Int : k \in P3 <=> k \in 0..127 /\ ~ ((k - 1) \in P2 <=> 127 \in P2 /\ k \in {0, 1, 2, 7})
  BY DEF TimesX
<1>5. n \in TimesX4(P) <=> ~ ((n - 1) \in P3 <=> 127 \in P3 /\ n \in {0, 1, 2, 7})
  BY DEF TimesX4, TimesX
<1> HIDE DEF P1, P2, P3
<1>6. /\ 127 \in P1 <=> 126 \in P
      /\ 126 \in P1 <=> 125 \in P
      /\ 125 \in P1 <=> 124 \in P
  BY <1>2
<1>7. /\ 127 \in P2 <=> 125 \in P
      /\ 126 \in P2 <=> 124 \in P
  BY <1>3, <1>6
<1>8. 127 \in P3 <=> 124 \in P
  BY <1>4, <1>7
<1>9. n - 1 - 1 = n - 2 /\ n - 2 - 1 = n - 3 /\ n - 3 - 1 = n - 4
      /\ n \in Int /\ n - 1 \in Int /\ n - 2 \in Int /\ n - 3 \in Int /\ n - 4 \in Int
  OBVIOUS
<1>10. /\ (n - 1) \in P3 <=> n >= 1 /\ ~ ((n - 2) \in P2 <=> 125 \in P /\ n \in {1, 2, 3, 8})
       /\ (n - 2) \in P2 <=> n >= 2 /\ ~ ((n - 3) \in P1 <=> 126 \in P /\ n \in {2, 3, 4, 9})
       /\ (n - 3) \in P1 <=> n >= 3 /\ ~ ((n - 4) \in P <=> 127 \in P /\ n \in {3, 4, 5, 10})
  BY <1>2, <1>3, <1>4, <1>6, <1>7, <1>9
<1>11. n < 4 => (n - 4) \notin P
  OBVIOUS
<1>12. /\ Falls(P, 0, n) <=> 127 \in P /\ n \in {3, 4, 5, 10}
       /\ Falls(P, 1, n) <=> 126 \in P /\ n \in {2, 3, 4, 9}
       /\ Falls(P, 2, n) <=> 125 \in P /\ n \in {1, 2, 3, 8}
       /\ Falls(P, 3, n) <=> 124 \in P /\ n \in {0, 1, 2, 7}
  BY DEF Falls
<1> QED
  BY <1>5, <1>8, <1>10, <1>11, <1>12 DEF TimesX4At, Four

-----------------------------------------------------------------------------

(***************************************************************************)
(* Pairs of 64 bits as polynomials: position p of the high half is the     *)
(* coefficient of x^(63-p), of the low half that of x^(127-p).             *)
(***************************************************************************)
IsPair(z) == /\ z = [hi |-> z.hi, lo |-> z.lo]
             /\ z.hi \in SUBSET (0..63) /\ z.lo \in SUBSET (0..63)
Poly(z) == {n \in 0..127 : IF n <= 63 THEN (63 - n) \in z.hi ELSE (127 - n) \in z.lo}

LEMMA PolyMembers ==
  ASSUME NEW z, NEW n \in 0..127
  PROVE  n \in Poly(z) <=> IF n <= 63 THEN (63 - n) \in z.hi ELSE (127 - n) \in z.lo
  BY DEF Poly

LEMMA PairSum ==
  ASSUME NEW a, NEW b, IsPair(a), IsPair(b)
  PROVE  IsPair(xor_pair(a, b)) /\ Poly(xor_pair(a, b)) = xor64(Poly(a), Poly(b))
<1> DEFINE c == xor_pair(a, b)
<1>1. c = [hi |-> xor64(a.hi, b.hi), lo |-> xor64(a.lo, b.lo)]
  BY DEF xor_pair
<1>2. c.hi = xor64(a.hi, b.hi) /\ c.lo = xor64(a.lo, b.lo)
  BY <1>1
<1>3. IsPair(c)
  BY <1>1, <1>2 DEF IsPair, xor64
<1> HIDE DEF c
<1>4. ASSUME NEW n \in 0..127 PROVE n \in Poly(c) <=> ~ (n \in Poly(a) <=> n \in Poly(b))
  BY <1>2, PolyMembers, SumMembers
<1>5. \A n : n \in Poly(c) <=> n \in xor64(Poly(a), Poly(b))
  BY <1>4 DEF Poly, xor64
<1> QED
  BY <1>3, <1>5 DEF c

LEMMA ZeroPoly == IsPair(ZeroPair) /\ Poly(ZeroPair) = {}
  BY DEF IsPair, ZeroPair, Poly

LEMMA ShiftedRight ==
  ASSUME NEW v \in SUBSET (0..63), NEW n \in 0..63, NEW p \in 0..63
  PROVE  p \in shr64(v, n) <=> (p + n) \in v
<1>1. p + n >= n /\ p + n - n = p
  OBVIOUS
<1>2. \A q \in v : p = q - n => q = p + n
  OBVIOUS
<1> QED
  BY <1>1, <1>2 DEF shr64

LEMMA ShiftedLeft ==
  ASSUME NEW v \in SUBSET (0..63), NEW n \in 0..63, NEW p \in 0..63
  PROVE  p \in shl64(v, n) <=> (p - n) \in v
<1>1. p - n + n = p /\ p < 64
  OBVIOUS
<1>2. \A q \in v : p = q + n => q = p - n
  OBVIOUS
<1> QED
  BY <1>1, <1>2 DEF shl64

LEMMA ShiftsStay ==
  ASSUME NEW v \in SUBSET (0..63), NEW n \in 0..63
  PROVE  shr64(v, n) \in SUBSET (0..63) /\ shl64(v, n) \in SUBSET (0..63)
  BY DEF shr64, shl64

\* The step of gcm_setkey from entry 8 to 4, to 2 and to 1, one bit to the right
\* and 0xe1 for a bit that falls out, multiplies by x in the field of GCM.
THEOREM HalfIs ==
  ASSUME NEW v, IsPair(v)
  PROVE  IsPair(half(v)) /\ Poly(half(v)) = TimesX(Poly(v))
<1> DEFINE r == IF 0 \in v.lo THEN {63, 62, 61, 56} ELSE {}
           h == xor64(shr64(v.hi, 1), r)
           l == shl64(v.hi, 63) \cup shr64(v.lo, 1)
           c == half(v)
<1>1. c = [hi |-> h, lo |-> l]
  BY DEF half
<1>2. c.hi = h /\ c.lo = l
  BY <1>1
<1>3. v.hi \in SUBSET (0..63) /\ v.lo \in SUBSET (0..63)
  BY DEF IsPair
<1>4. h \in SUBSET (0..63) /\ l \in SUBSET (0..63)
  <2>1. /\ shr64(v.hi, 1) \in SUBSET (0..63) /\ shl64(v.hi, 63) \in SUBSET (0..63)
        /\ shr64(v.lo, 1) \in SUBSET (0..63)
    BY <1>3, ShiftsStay
  <2>2. r \in SUBSET (0..63)
    OBVIOUS
  <2> QED
    BY <2>1, <2>2 DEF xor64
<1>5. IsPair(c)
  BY <1>1, <1>2, <1>4 DEF IsPair
<1>6. ASSUME NEW p \in 0..63
      PROVE  /\ p \in h <=> ~ ((p + 1) \in v.hi <=> 0 \in v.lo /\ p \in {63, 62, 61, 56})
             /\ p \in l <=> (p = 63 /\ 0 \in v.hi) \/ (p + 1) \in v.lo
  <2>1. /\ p \in shr64(v.hi, 1) <=> (p + 1) \in v.hi
        /\ p \in shl64(v.hi, 63) <=> (p - 63) \in v.hi
        /\ p \in shr64(v.lo, 1) <=> (p + 1) \in v.lo
    BY <1>3, ShiftedRight, ShiftedLeft
  <2>2. (p - 63) \in v.hi <=> p = 63 /\ 0 \in v.hi
    BY <1>3
  <2>3. p \in h <=> ~ (p \in shr64(v.hi, 1) <=> p \in r)
    BY SumMembers
  <2>4. p \in r <=> 0 \in v.lo /\ p \in {63, 62, 61, 56}
    OBVIOUS
  <2> QED
    BY <2>1, <2>2, <2>3, <2>4
<1> HIDE DEF h, l, c
<1> DEFINE P == Poly(v)
<1>7. 127 \in P <=> 0 \in v.lo
  BY PolyMembers
<1>8. ASSUME NEW n \in 0..127 PROVE n \in Poly(c) <=> n \in TimesX(P)
  <2>1. n \in TimesX(P) <=> ~ ((n - 1) \in P <=> 0 \in v.lo /\ n \in {0, 1, 2, 7})
    BY <1>7 DEF TimesX
  <2>2. CASE n = 0
    <3>1. (n - 1) \notin P
      BY <2>2 DEF Poly
    <3>2. n \in Poly(c) <=> 63 \in h
      BY <1>2, <2>2, PolyMembers
    <3>3. 63 \in h <=> 0 \in v.lo
      BY <1>3, <1>6
    <3> QED
      BY <2>1, <2>2, <3>1, <3>2, <3>3
  <2>3. CASE n \in 1..63
    <3>1. n - 1 \in 0..127 /\ n - 1 <= 63 /\ 63 - (n - 1) = 63 - n + 1 /\ 63 - n \in 0..63
      BY <2>3
    <3>2. (n - 1) \in P <=> (63 - n + 1) \in v.hi
      BY <3>1, PolyMembers
    <3>3. n \in Poly(c) <=> (63 - n) \in h
      BY <1>2, <2>3, PolyMembers
    <3>4. (63 - n) \in {63, 62, 61, 56} <=> n \in {0, 1, 2, 7}
      BY <2>3
    <3> HIDE DEF P
    <3> QED
      BY <1>6, <2>1, <3>1, <3>2, <3>3, <3>4
  <2>4. CASE n = 64
    <3>1. n - 1 = 63 /\ 63 - 63 = 0 /\ 127 - n = 63
      BY <2>4
    <3>2. (n - 1) \in P <=> 0 \in v.hi
      BY <3>1, PolyMembers
    <3>3. n \in Poly(c) <=> 63 \in l
      BY <1>2, <2>4, <3>1, PolyMembers
    <3>4. 63 \in l <=> 0 \in v.hi
      BY <1>3, <1>6
    <3> HIDE DEF P
    <3> QED
      BY <2>1, <2>4, <3>2, <3>3, <3>4
  <2>5. CASE n \in 65..127
    <3>1. n - 1 \in 0..127 /\ ~ (n - 1 <= 63) /\ 127 - (n - 1) = 127 - n + 1 /\ 127 - n \in 0..63
          /\ 127 - n # 63 /\ ~ (n <= 63) /\ n \notin {0, 1, 2, 7}
      BY <2>5
    <3>2. (n - 1) \in P <=> (127 - n + 1) \in v.lo
      BY <3>1, PolyMembers
    <3>3. n \in Poly(c) <=> (127 - n) \in l
      BY <1>2, <3>1, PolyMembers
    <3> HIDE DEF P
    <3> QED
      BY <1>6, <2>1, <3>1, <3>2, <3>3
  <2> QED
    BY <2>2, <2>3, <2>4, <2>5
<1>9. SameBelow(Poly(c), TimesX(P), 127)
  BY <1>8 DEF SameBelow, Poly, TimesX
<1>10. Poly(c) = TimesX(P)
  BY <1>9, SameSet
<1> QED
  BY <1>5, <1>10 DEF c

LEMMA PowersOf2 ==
  /\ 2 ^ 0 = 1 /\ 2 ^ 1 = 2 /\ 2 ^ 2 = 4 /\ 2 ^ 3 = 8 /\ 2 ^ 4 = 16 /\ 2 ^ 5 = 32 /\ 2 ^ 6 = 64
  /\ 2 ^ 7 = 128 /\ 2 ^ 8 = 256 /\ 2 ^ 9 = 512 /\ 2 ^ 10 = 1024 /\ 2 ^ 11 = 2048
  /\ 2 ^ 12 = 4096 /\ 2 ^ 13 = 8192 /\ 2 ^ 14 = 16384 /\ 2 ^ 15 = 32768
  OBVIOUS

LEMMA BitsAre ==
  ASSUME NEW n \in Int
  PROVE  /\ bits_of(n) \in SUBSET (0..15)
         /\ 0 \in bits_of(n) <=> (n \div 1) % 2 = 1
         /\ 1 \in bits_of(n) <=> (n \div 2) % 2 = 1
         /\ 2 \in bits_of(n) <=> (n \div 4) % 2 = 1
         /\ 3 \in bits_of(n) <=> (n \div 8) % 2 = 1
         /\ 4 \in bits_of(n) <=> (n \div 16) % 2 = 1
         /\ 5 \in bits_of(n) <=> (n \div 32) % 2 = 1
         /\ 6 \in bits_of(n) <=> (n \div 64) % 2 = 1
         /\ 7 \in bits_of(n) <=> (n \div 128) % 2 = 1
         /\ 8 \in bits_of(n) <=> (n \div 256) % 2 = 1
         /\ 9 \in bits_of(n) <=> (n \div 512) % 2 = 1
         /\ 10 \in bits_of(n) <=> (n \div 1024) % 2 = 1
         /\ 11 \in bits_of(n) <=> (n \div 2048) % 2 = 1
         /\ 12 \in bits_of(n) <=> (n \div 4096) % 2 = 1
         /\ 13 \in bits_of(n) <=> (n \div 8192) % 2 = 1
         /\ 14 \in bits_of(n) <=> (n \div 16384) % 2 = 1
         /\ 15 \in bits_of(n) <=> (n \div 32768) % 2 = 1
  BY PowersOf2 DEF bits_of

\* Numbers whose one bits are known.
HasBits(n, S) ==
  /\ n \in Int /\ S \in SUBSET (0..15)
  /\ (n \div 1) % 2 = 1 <=> 0 \in S
  /\ (n \div 2) % 2 = 1 <=> 1 \in S
  /\ (n \div 4) % 2 = 1 <=> 2 \in S
  /\ (n \div 8) % 2 = 1 <=> 3 \in S
  /\ (n \div 16) % 2 = 1 <=> 4 \in S
  /\ (n \div 32) % 2 = 1 <=> 5 \in S
  /\ (n \div 64) % 2 = 1 <=> 6 \in S
  /\ (n \div 128) % 2 = 1 <=> 7 \in S
  /\ (n \div 256) % 2 = 1 <=> 8 \in S
  /\ (n \div 512) % 2 = 1 <=> 9 \in S
  /\ (n \div 1024) % 2 = 1 <=> 10 \in S
  /\ (n \div 2048) % 2 = 1 <=> 11 \in S
  /\ (n \div 4096) % 2 = 1 <=> 12 \in S
  /\ (n \div 8192) % 2 = 1 <=> 13 \in S
  /\ (n \div 16384) % 2 = 1 <=> 14 \in S
  /\ (n \div 32768) % 2 = 1 <=> 15 \in S

LEMMA BitsFrom ==
  ASSUME NEW n, NEW S, HasBits(n, S)
  PROVE  bits_of(n) = S
<1>1. \A p \in 0..15 : p \in bits_of(n) <=> p \in S
  BY BitsAre DEF HasBits
<1>2. SameBelow(bits_of(n), S, 15)
  BY <1>1 DEF SameBelow, bits_of, HasBits
<1> QED
  BY <1>2, SameSet

\* The values of rem, and those of the table.
LEMMA BitsOfNibbles ==
  /\ bits_of(0) = {}
  /\ bits_of(1) = {0}
  /\ bits_of(2) = {1}
  /\ bits_of(3) = {0, 1}
  /\ bits_of(4) = {2}
  /\ bits_of(5) = {0, 2}
  /\ bits_of(6) = {1, 2}
  /\ bits_of(7) = {0, 1, 2}
  /\ bits_of(8) = {3}
  /\ bits_of(9) = {0, 3}
  /\ bits_of(10) = {1, 3}
  /\ bits_of(11) = {0, 1, 3}
  /\ bits_of(12) = {2, 3}
  /\ bits_of(13) = {0, 2, 3}
  /\ bits_of(14) = {1, 2, 3}
  /\ bits_of(15) = {0, 1, 2, 3}
<1>1. /\ HasBits(0, {})
      /\ HasBits(1, {0})
      /\ HasBits(2, {1})
      /\ HasBits(3, {0, 1})
  BY DEF HasBits
<1>2. /\ HasBits(4, {2})
      /\ HasBits(5, {0, 2})
      /\ HasBits(6, {1, 2})
      /\ HasBits(7, {0, 1, 2})
  BY DEF HasBits
<1>3. /\ HasBits(8, {3})
      /\ HasBits(9, {0, 3})
      /\ HasBits(10, {1, 3})
      /\ HasBits(11, {0, 1, 3})
  BY DEF HasBits
<1>4. /\ HasBits(12, {2, 3})
      /\ HasBits(13, {0, 2, 3})
      /\ HasBits(14, {1, 2, 3})
      /\ HasBits(15, {0, 1, 2, 3})
  BY DEF HasBits
<1> QED
  BY <1>1, <1>2, <1>3, <1>4, BitsFrom

LEMMA BitsOfLast4 ==
  /\ bits_of(0) = {}
  /\ bits_of(7200) = {5, 10, 11, 12}
  /\ bits_of(14400) = {6, 11, 12, 13}
  /\ bits_of(9312) = {5, 6, 10, 13}
  /\ bits_of(28800) = {7, 12, 13, 14}
  /\ bits_of(27808) = {5, 7, 10, 11, 13, 14}
  /\ bits_of(18624) = {6, 7, 11, 14}
  /\ bits_of(21728) = {5, 6, 7, 10, 12, 14}
  /\ bits_of(57600) = {8, 13, 14, 15}
  /\ bits_of(64800) = {5, 8, 10, 11, 12, 13, 14, 15}
  /\ bits_of(55616) = {6, 8, 11, 12, 14, 15}
  /\ bits_of(50528) = {5, 6, 8, 10, 14, 15}
  /\ bits_of(37248) = {7, 8, 12, 15}
  /\ bits_of(36256) = {5, 7, 8, 10, 11, 15}
  /\ bits_of(43456) = {6, 7, 8, 11, 13, 15}
  /\ bits_of(46560) = {5, 6, 7, 8, 10, 12, 13, 15}
<1>1. /\ HasBits(0, {})
      /\ HasBits(7200, {5, 10, 11, 12})
      /\ HasBits(14400, {6, 11, 12, 13})
      /\ HasBits(9312, {5, 6, 10, 13})
  BY DEF HasBits
<1>2. /\ HasBits(28800, {7, 12, 13, 14})
      /\ HasBits(27808, {5, 7, 10, 11, 13, 14})
      /\ HasBits(18624, {6, 7, 11, 14})
      /\ HasBits(21728, {5, 6, 7, 10, 12, 14})
  BY DEF HasBits
<1>3. /\ HasBits(57600, {8, 13, 14, 15})
      /\ HasBits(64800, {5, 8, 10, 11, 12, 13, 14, 15})
      /\ HasBits(55616, {6, 8, 11, 12, 14, 15})
      /\ HasBits(50528, {5, 6, 8, 10, 14, 15})
  BY DEF HasBits
<1>4. /\ HasBits(37248, {7, 8, 12, 15})
      /\ HasBits(36256, {5, 7, 8, 10, 11, 15})
      /\ HasBits(43456, {6, 7, 8, 11, 13, 15})
      /\ HasBits(46560, {5, 6, 7, 8, 10, 12, 13, 15})
  BY DEF HasBits
<1> QED
  BY <1>1, <1>2, <1>3, <1>4, BitsFrom

\* What the bits S that fall out of zl bring back to zh.
BackAt(S, p) ==
  Four(0 \in S /\ p \in {60, 59, 58, 53}, 1 \in S /\ p \in {61, 60, 59, 54},
       2 \in S /\ p \in {62, 61, 60, 55}, 3 \in S /\ p \in {63, 62, 61, 56})
Back(S, T) == /\ T \in SUBSET (0..63)
              /\ \A p \in 0..63 : p \in T <=> BackAt(S, p)

LEMMA Last4From ==
  ASSUME NEW S, NEW B \in SUBSET (0..15), \A p \in 0..63 : (p - 48) \in B <=> BackAt(S, p)
  PROVE  Back(S, shl64(B, 48))
<1>1. B \in SUBSET (0..63)
  OBVIOUS
<1>2. \A p \in 0..63 : p \in shl64(B, 48) <=> (p - 48) \in B
  BY <1>1, ShiftedLeft
<1>3. shl64(B, 48) \in SUBSET (0..63)
  BY <1>1, ShiftsStay
<1> QED
  BY <1>2, <1>3 DEF Back

LEMMA Last4Is ==
  ASSUME NEW r \in 0..15
  PROVE  Back(bits_of(r), last4[r + 1])
<1>1. CASE r = 0
  <2>1. bits_of(r) = {} /\ last4[r + 1] = shl64({}, 48)
    <3>1. last4[1] = shl64(bits_of(0), 48)
      BY DEF last4
    <3>2. r + 1 = 1
      BY <1>1
    <3>3. last4[r + 1] = shl64({}, 48)
      <4>1. bits_of(0) = {}
        BY BitsOfLast4
      <4> QED
        BY <3>1, <3>2, <4>1
    <3>4. bits_of(r) = {}
      BY <1>1, BitsOfNibbles
    <3> QED
      BY <3>3, <3>4
  <2>2. \A p \in 0..63 : (p - 48) \in {} <=> BackAt({}, p)
    BY DEF BackAt, Four
  <2> QED
    BY <2>1, <2>2, Last4From
<1>2. CASE r = 1
  <2>1. bits_of(r) = {0} /\ last4[r + 1] = shl64({5, 10, 11, 12}, 48)
    <3>1. last4[2] = shl64(bits_of(7200), 48)
      BY DEF last4
    <3>2. r + 1 = 2
      BY <1>2
    <3>3. last4[r + 1] = shl64({5, 10, 11, 12}, 48)
      <4>1. bits_of(7200) = {5, 10, 11, 12}
        BY BitsOfLast4
      <4> QED
        BY <3>1, <3>2, <4>1
    <3>4. bits_of(r) = {0}
      BY <1>2, BitsOfNibbles
    <3> QED
      BY <3>3, <3>4
  <2>2. \A p \in 0..63 : (p - 48) \in {5, 10, 11, 12} <=> BackAt({0}, p)
    BY DEF BackAt, Four
  <2> QED
    BY <2>1, <2>2, Last4From
<1>3. CASE r = 2
  <2>1. bits_of(r) = {1} /\ last4[r + 1] = shl64({6, 11, 12, 13}, 48)
    <3>1. last4[3] = shl64(bits_of(14400), 48)
      BY DEF last4
    <3>2. r + 1 = 3
      BY <1>3
    <3>3. last4[r + 1] = shl64({6, 11, 12, 13}, 48)
      <4>1. bits_of(14400) = {6, 11, 12, 13}
        BY BitsOfLast4
      <4> QED
        BY <3>1, <3>2, <4>1
    <3>4. bits_of(r) = {1}
      BY <1>3, BitsOfNibbles
    <3> QED
      BY <3>3, <3>4
  <2>2. \A p \in 0..63 : (p - 48) \in {6, 11, 12, 13} <=> BackAt({1}, p)
    BY DEF BackAt, Four
  <2> QED
    BY <2>1, <2>2, Last4From
<1>4. CASE r = 3
  <2>1. bits_of(r) = {0, 1} /\ last4[r + 1] = shl64({5, 6, 10, 13}, 48)
    <3>1. last4[4] = shl64(bits_of(9312), 48)
      BY DEF last4
    <3>2. r + 1 = 4
      BY <1>4
    <3>3. last4[r + 1] = shl64({5, 6, 10, 13}, 48)
      <4>1. bits_of(9312) = {5, 6, 10, 13}
        BY BitsOfLast4
      <4> QED
        BY <3>1, <3>2, <4>1
    <3>4. bits_of(r) = {0, 1}
      BY <1>4, BitsOfNibbles
    <3> QED
      BY <3>3, <3>4
  <2>2. \A p \in 0..63 : (p - 48) \in {5, 6, 10, 13} <=> BackAt({0, 1}, p)
    BY DEF BackAt, Four
  <2> QED
    BY <2>1, <2>2, Last4From
<1>5. CASE r = 4
  <2>1. bits_of(r) = {2} /\ last4[r + 1] = shl64({7, 12, 13, 14}, 48)
    <3>1. last4[5] = shl64(bits_of(28800), 48)
      BY DEF last4
    <3>2. r + 1 = 5
      BY <1>5
    <3>3. last4[r + 1] = shl64({7, 12, 13, 14}, 48)
      <4>1. bits_of(28800) = {7, 12, 13, 14}
        BY BitsOfLast4
      <4> QED
        BY <3>1, <3>2, <4>1
    <3>4. bits_of(r) = {2}
      BY <1>5, BitsOfNibbles
    <3> QED
      BY <3>3, <3>4
  <2>2. \A p \in 0..63 : (p - 48) \in {7, 12, 13, 14} <=> BackAt({2}, p)
    BY DEF BackAt, Four
  <2> QED
    BY <2>1, <2>2, Last4From
<1>6. CASE r = 5
  <2>1. bits_of(r) = {0, 2} /\ last4[r + 1] = shl64({5, 7, 10, 11, 13, 14}, 48)
    <3>1. last4[6] = shl64(bits_of(27808), 48)
      BY DEF last4
    <3>2. r + 1 = 6
      BY <1>6
    <3>3. last4[r + 1] = shl64({5, 7, 10, 11, 13, 14}, 48)
      <4>1. bits_of(27808) = {5, 7, 10, 11, 13, 14}
        BY BitsOfLast4
      <4> QED
        BY <3>1, <3>2, <4>1
    <3>4. bits_of(r) = {0, 2}
      BY <1>6, BitsOfNibbles
    <3> QED
      BY <3>3, <3>4
  <2>2. \A p \in 0..63 : (p - 48) \in {5, 7, 10, 11, 13, 14} <=> BackAt({0, 2}, p)
    BY DEF BackAt, Four
  <2> QED
    BY <2>1, <2>2, Last4From
<1>7. CASE r = 6
  <2>1. bits_of(r) = {1, 2} /\ last4[r + 1] = shl64({6, 7, 11, 14}, 48)
    <3>1. last4[7] = shl64(bits_of(18624), 48)
      BY DEF last4
    <3>2. r + 1 = 7
      BY <1>7
    <3>3. last4[r + 1] = shl64({6, 7, 11, 14}, 48)
      <4>1. bits_of(18624) = {6, 7, 11, 14}
        BY BitsOfLast4
      <4> QED
        BY <3>1, <3>2, <4>1
    <3>4. bits_of(r) = {1, 2}
      BY <1>7, BitsOfNibbles
    <3> QED
      BY <3>3, <3>4
  <2>2. \A p \in 0..63 : (p - 48) \in {6, 7, 11, 14} <=> BackAt({1, 2}, p)
    BY DEF BackAt, Four
  <2> QED
    BY <2>1, <2>2, Last4From
<1>8. CASE r = 7
  <2>1. bits_of(r) = {0, 1, 2} /\ last4[r + 1] = shl64({5, 6, 7, 10, 12, 14}, 48)
    <3>1. last4[8] = shl64(bits_of(21728), 48)
      BY DEF last4
    <3>2. r + 1 = 8
      BY <1>8
    <3>3. last4[r + 1] = shl64({5, 6, 7, 10, 12, 14}, 48)
      <4>1. bits_of(21728) = {5, 6, 7, 10, 12, 14}
        BY BitsOfLast4
      <4> QED
        BY <3>1, <3>2, <4>1
    <3>4. bits_of(r) = {0, 1, 2}
      BY <1>8, BitsOfNibbles
    <3> QED
      BY <3>3, <3>4
  <2>2. \A p \in 0..63 : (p - 48) \in {5, 6, 7, 10, 12, 14} <=> BackAt({0, 1, 2}, p)
    BY DEF BackAt, Four
  <2> QED
    BY <2>1, <2>2, Last4From
<1>9. CASE r = 8
  <2>1. bits_of(r) = {3} /\ last4[r + 1] = shl64({8, 13, 14, 15}, 48)
    <3>1. last4[9] = shl64(bits_of(57600), 48)
      BY DEF last4
    <3>2. r + 1 = 9
      BY <1>9
    <3>3. last4[r + 1] = shl64({8, 13, 14, 15}, 48)
      <4>1. bits_of(57600) = {8, 13, 14, 15}
        BY BitsOfLast4
      <4> QED
        BY <3>1, <3>2, <4>1
    <3>4. bits_of(r) = {3}
      BY <1>9, BitsOfNibbles
    <3> QED
      BY <3>3, <3>4
  <2>2. \A p \in 0..63 : (p - 48) \in {8, 13, 14, 15} <=> BackAt({3}, p)
    BY DEF BackAt, Four
  <2> QED
    BY <2>1, <2>2, Last4From
<1>10. CASE r = 9
  <2>1. bits_of(r) = {0, 3} /\ last4[r + 1] = shl64({5, 8, 10, 11, 12, 13, 14, 15}, 48)
    <3>1. last4[10] = shl64(bits_of(64800), 48)
      BY DEF last4
    <3>2. r + 1 = 10
      BY <1>10
    <3>3. last4[r + 1] = shl64({5, 8, 10, 11, 12, 13, 14, 15}, 48)
      <4>1. bits_of(64800) = {5, 8, 10, 11, 12, 13, 14, 15}
        BY BitsOfLast4
      <4> QED
        BY <3>1, <3>2, <4>1
    <3>4. bits_of(r) = {0, 3}
      BY <1>10, BitsOfNibbles
    <3> QED
      BY <3>3, <3>4
  <2>2. \A p \in 0..63 : (p - 48) \in {5, 8, 10, 11, 12, 13, 14, 15} <=> BackAt({0, 3}, p)
    BY DEF BackAt, Four
  <2> QED
    BY <2>1, <2>2, Last4From
<1>11. CASE r = 10
  <2>1. bits_of(r) = {1, 3} /\ last4[r + 1] = shl64({6, 8, 11, 12, 14, 15}, 48)
    <3>1. last4[11] = shl64(bits_of(55616), 48)
      BY DEF last4
    <3>2. r + 1 = 11
      BY <1>11
    <3>3. last4[r + 1] = shl64({6, 8, 11, 12, 14, 15}, 48)
      <4>1. bits_of(55616) = {6, 8, 11, 12, 14, 15}
        BY BitsOfLast4
      <4> QED
        BY <3>1, <3>2, <4>1
    <3>4. bits_of(r) = {1, 3}
      BY <1>11, BitsOfNibbles
    <3> QED
      BY <3>3, <3>4
  <2>2. \A p \in 0..63 : (p - 48) \in {6, 8, 11, 12, 14, 15} <=> BackAt({1, 3}, p)
    BY DEF BackAt, Four
  <2> QED
    BY <2>1, <2>2, Last4From
<1>12. CASE r = 11
  <2>1. bits_of(r) = {0, 1, 3} /\ last4[r + 1] = shl64({5, 6, 8, 10, 14, 15}, 48)
    <3>1. last4[12] = shl64(bits_of(50528), 48)
      BY DEF last4
    <3>2. r + 1 = 12
      BY <1>12
    <3>3. last4[r + 1] = shl64({5, 6, 8, 10, 14, 15}, 48)
      <4>1. bits_of(50528) = {5, 6, 8, 10, 14, 15}
        BY BitsOfLast4
      <4> QED
        BY <3>1, <3>2, <4>1
    <3>4. bits_of(r) = {0, 1, 3}
      BY <1>12, BitsOfNibbles
    <3> QED
      BY <3>3, <3>4
  <2>2. \A p \in 0..63 : (p - 48) \in {5, 6, 8, 10, 14, 15} <=> BackAt({0, 1, 3}, p)
    BY DEF BackAt, Four
  <2> QED
    BY <2>1, <2>2, Last4From
<1>13. CASE r = 12
  <2>1. bits_of(r) = {2, 3} /\ last4[r + 1] = shl64({7, 8, 12, 15}, 48)
    <3>1. last4[13] = shl64(bits_of(37248), 48)
      BY DEF last4
    <3>2. r + 1 = 13
      BY <1>13
    <3>3. last4[r + 1] = shl64({7, 8, 12, 15}, 48)
      <4>1. bits_of(37248) = {7, 8, 12, 15}
        BY BitsOfLast4
      <4> QED
        BY <3>1, <3>2, <4>1
    <3>4. bits_of(r) = {2, 3}
      BY <1>13, BitsOfNibbles
    <3> QED
      BY <3>3, <3>4
  <2>2. \A p \in 0..63 : (p - 48) \in {7, 8, 12, 15} <=> BackAt({2, 3}, p)
    BY DEF BackAt, Four
  <2> QED
    BY <2>1, <2>2, Last4From
<1>14. CASE r = 13
  <2>1. bits_of(r) = {0, 2, 3} /\ last4[r + 1] = shl64({5, 7, 8, 10, 11, 15}, 48)
    <3>1. last4[14] = shl64(bits_of(36256), 48)
      BY DEF last4
    <3>2. r + 1 = 14
      BY <1>14
    <3>3. last4[r + 1] = shl64({5, 7, 8, 10, 11, 15}, 48)
      <4>1. bits_of(36256) = {5, 7, 8, 10, 11, 15}
        BY BitsOfLast4
      <4> QED
        BY <3>1, <3>2, <4>1
    <3>4. bits_of(r) = {0, 2, 3}
      BY <1>14, BitsOfNibbles
    <3> QED
      BY <3>3, <3>4
  <2>2. \A p \in 0..63 : (p - 48) \in {5, 7, 8, 10, 11, 15} <=> BackAt({0, 2, 3}, p)
    BY DEF BackAt, Four
  <2> QED
    BY <2>1, <2>2, Last4From
<1>15. CASE r = 14
  <2>1. bits_of(r) = {1, 2, 3} /\ last4[r + 1] = shl64({6, 7, 8, 11, 13, 15}, 48)
    <3>1. last4[15] = shl64(bits_of(43456), 48)
      BY DEF last4
    <3>2. r + 1 = 15
      BY <1>15
    <3>3. last4[r + 1] = shl64({6, 7, 8, 11, 13, 15}, 48)
      <4>1. bits_of(43456) = {6, 7, 8, 11, 13, 15}
        BY BitsOfLast4
      <4> QED
        BY <3>1, <3>2, <4>1
    <3>4. bits_of(r) = {1, 2, 3}
      BY <1>15, BitsOfNibbles
    <3> QED
      BY <3>3, <3>4
  <2>2. \A p \in 0..63 : (p - 48) \in {6, 7, 8, 11, 13, 15} <=> BackAt({1, 2, 3}, p)
    BY DEF BackAt, Four
  <2> QED
    BY <2>1, <2>2, Last4From
<1>16. CASE r = 15
  <2>1. bits_of(r) = {0, 1, 2, 3} /\ last4[r + 1] = shl64({5, 6, 7, 8, 10, 12, 13, 15}, 48)
    <3>1. last4[16] = shl64(bits_of(46560), 48)
      BY DEF last4
    <3>2. r + 1 = 16
      BY <1>16
    <3>3. last4[r + 1] = shl64({5, 6, 7, 8, 10, 12, 13, 15}, 48)
      <4>1. bits_of(46560) = {5, 6, 7, 8, 10, 12, 13, 15}
        BY BitsOfLast4
      <4> QED
        BY <3>1, <3>2, <4>1
    <3>4. bits_of(r) = {0, 1, 2, 3}
      BY <1>16, BitsOfNibbles
    <3> QED
      BY <3>3, <3>4
  <2>2. \A p \in 0..63 : (p - 48) \in {5, 6, 7, 8, 10, 12, 13, 15} <=> BackAt({0, 1, 2, 3}, p)
    BY DEF BackAt, Four
  <2> QED
    BY <2>1, <2>2, Last4From
<1> QED
  BY <1>1, <1>2, <1>3, <1>4, <1>5, <1>6, <1>7, <1>8, <1>9, <1>10, <1>11, <1>12, <1>13, <1>14, <1>15, <1>16

LEMMA NibbleOf ==
  ASSUME NEW S \in SUBSET {0, 1, 2, 3}
  PROVE  \E n \in 0..15 : bits_of(n) = S
<1> DEFINE a == IF 0 \in S THEN 1 ELSE 0
           b == IF 1 \in S THEN 1 ELSE 0
           c == IF 2 \in S THEN 1 ELSE 0
           d == IF 3 \in S THEN 1 ELSE 0
           n == a + 2 * b + 4 * c + 8 * d
<1>1. /\ a \in {0, 1} /\ b \in {0, 1} /\ c \in {0, 1} /\ d \in {0, 1}
      /\ a = 1 <=> 0 \in S
      /\ b = 1 <=> 1 \in S
      /\ c = 1 <=> 2 \in S
      /\ d = 1 <=> 3 \in S
  OBVIOUS
<1> HIDE DEF a, b, c, d
<1>2. /\ n \in 0..15
      /\ (n \div 1) % 2 = a /\ (n \div 2) % 2 = b /\ (n \div 4) % 2 = c /\ (n \div 8) % 2 = d
  BY <1>1
<1>3. /\ n \div 16 = 0 /\ n \div 32 = 0 /\ n \div 64 = 0 /\ n \div 128 = 0
      /\ n \div 256 = 0 /\ n \div 512 = 0 /\ n \div 1024 = 0 /\ n \div 2048 = 0
      /\ n \div 4096 = 0 /\ n \div 8192 = 0 /\ n \div 16384 = 0 /\ n \div 32768 = 0
  BY <1>2
<1> HIDE DEF n
<1>4. 0 % 2 = 0 /\ \A p \in 4..15 : p \notin S
  OBVIOUS
<1>5. HasBits(n, S)
  BY <1>1, <1>2, <1>3, <1>4 DEF HasBits
<1> QED
  BY <1>2, <1>5, BitsFrom

\* The step of gcm_mult, four bits to the right and the entry of last4 for those
\* that fall out, multiplies by x^4 in the field of GCM.
THEOREM Shift4Is ==
  ASSUME NEW z, IsPair(z)
  PROVE  IsPair(shift4(z)) /\ Poly(shift4(z)) = TimesX4(Poly(z))
<1> DEFINE rem == z.lo \cap {0, 1, 2, 3}
           r == CHOOSE n \in 0..15 : bits_of(n) = rem
           T == last4[r + 1]
           h == xor64(shr64(z.hi, 4), T)
           l == shl64(z.hi, 60) \cup shr64(z.lo, 4)
           c == shift4(z)
<1>1. c = [hi |-> h, lo |-> l]
  BY DEF shift4
<1>2. c.hi = h /\ c.lo = l
  BY <1>1
<1>3. z.hi \in SUBSET (0..63) /\ z.lo \in SUBSET (0..63)
  BY DEF IsPair
<1>4. Back(rem, T)
  <2>1. rem \in SUBSET {0, 1, 2, 3}
    OBVIOUS
  <2>2. \E n \in 0..15 : bits_of(n) = rem
    <3> HIDE DEF rem
    <3> QED
      BY <2>1, NibbleOf
  <2>3. r \in 0..15 /\ bits_of(r) = rem
    BY <2>2
  <2> HIDE DEF r
  <2> QED
    BY <2>3, Last4Is
<1> HIDE DEF T
<1>5. h \in SUBSET (0..63) /\ l \in SUBSET (0..63)
  <2>1. /\ shr64(z.hi, 4) \in SUBSET (0..63) /\ shl64(z.hi, 60) \in SUBSET (0..63)
        /\ shr64(z.lo, 4) \in SUBSET (0..63)
    BY <1>3, ShiftsStay
  <2>2. T \in SUBSET (0..63)
    BY <1>4 DEF Back
  <2> QED
    BY <2>1, <2>2 DEF xor64
<1>6. IsPair(c)
  BY <1>1, <1>2, <1>5 DEF IsPair
<1>7. ASSUME NEW p \in 0..63
      PROVE  /\ p \in h <=> ~ ((p + 4) \in z.hi <=> BackAt(z.lo, p))
             /\ p \in l <=> (p - 60) \in z.hi \/ (p + 4) \in z.lo
  <2>1. /\ p \in shr64(z.hi, 4) <=> (p + 4) \in z.hi
        /\ p \in shl64(z.hi, 60) <=> (p - 60) \in z.hi
        /\ p \in shr64(z.lo, 4) <=> (p + 4) \in z.lo
    BY <1>3, ShiftedRight, ShiftedLeft
  <2>2. p \in h <=> ~ (p \in shr64(z.hi, 4) <=> p \in T)
    BY SumMembers
  <2>3. p \in T <=> BackAt(rem, p)
    BY <1>4 DEF Back
  <2>4. BackAt(rem, p) <=> BackAt(z.lo, p)
    BY DEF BackAt
  <2> QED
    BY <2>1, <2>2, <2>3, <2>4
<1> HIDE DEF h, l, c, rem
<1> DEFINE P == Poly(z)
<1>8. P \in SUBSET (0..127)
  BY DEF Poly
<1>9. /\ 127 \in P <=> 0 \in z.lo
      /\ 126 \in P <=> 1 \in z.lo
      /\ 125 \in P <=> 2 \in z.lo
      /\ 124 \in P <=> 3 \in z.lo
  BY PolyMembers
<1>10. ASSUME NEW n \in 0..127 PROVE n \in Poly(c) <=> n \in TimesX4(P)
  <2>1. n \in TimesX4(P) <=> TimesX4At(P, n)
    BY <1>8, TimesX4Members
  <2>2. CASE n <= 63
    <3>1. n \in Poly(c) <=> (63 - n) \in h
      BY <1>2, <2>2, PolyMembers
    <3>2. (63 - n) \in h <=> ~ ((63 - n + 4) \in z.hi <=> BackAt(z.lo, 63 - n))
      BY <1>7, <2>2
    <3>3. (n - 4) \in P <=> (63 - n + 4) \in z.hi
      <4>1. CASE n >= 4
        <5>1. n - 4 \in 0..127 /\ n - 4 <= 63 /\ 63 - (n - 4) = 63 - n + 4
          BY <2>2, <4>1
        <5> QED
          BY <5>1, PolyMembers
      <4>2. CASE n < 4
        <5>1. n - 4 \notin 0..127 /\ 63 - n + 4 \notin 0..63
          BY <4>2
        <5> QED
          BY <1>3, <1>8, <5>1
      <4> QED
        BY <4>1, <4>2
    <3>4. BackAt(z.lo, 63 - n) <=> Four(Falls(P, 0, n), Falls(P, 1, n), Falls(P, 2, n), Falls(P, 3, n))
      <4>1. /\ Falls(P, 0, n) <=> 0 \in z.lo /\ (63 - n) \in {60, 59, 58, 53}
            /\ Falls(P, 1, n) <=> 1 \in z.lo /\ (63 - n) \in {61, 60, 59, 54}
            /\ Falls(P, 2, n) <=> 2 \in z.lo /\ (63 - n) \in {62, 61, 60, 55}
            /\ Falls(P, 3, n) <=> 3 \in z.lo /\ (63 - n) \in {63, 62, 61, 56}
        <5> HIDE DEF P
        <5> QED
          BY <1>9 DEF Falls
      <4> QED
        BY <4>1 DEF BackAt, Four
    <3> QED
      BY <2>1, <3>1, <3>2, <3>3, <3>4 DEF TimesX4At
  <2>3. CASE n > 63
    <3>1. n \in Poly(c) <=> (127 - n) \in l
      BY <1>2, <2>3, PolyMembers
    <3>2. (127 - n) \in l <=> (127 - n - 60) \in z.hi \/ (127 - n + 4) \in z.lo
      BY <1>7, <2>3
    <3>3. ~ Four(Falls(P, 0, n), Falls(P, 1, n), Falls(P, 2, n), Falls(P, 3, n))
      BY <2>3 DEF Falls, Four
    <3>4. (n - 4) \in P <=> (127 - n - 60) \in z.hi \/ (127 - n + 4) \in z.lo
      <4>1. CASE n >= 68
        <5>1. n - 4 \in 0..127 /\ ~ (n - 4 <= 63) /\ 127 - (n - 4) = 127 - n + 4
              /\ 127 - n - 60 \notin 0..63
          BY <4>1
        <5> QED
          BY <1>3, <5>1, PolyMembers
      <4>2. CASE n < 68
        <5>1. n - 4 \in 0..127 /\ n - 4 <= 63 /\ 63 - (n - 4) = 127 - n - 60
              /\ 127 - n + 4 \notin 0..63
          BY <2>3, <4>2
        <5> QED
          BY <1>3, <5>1, PolyMembers
      <4> QED
        BY <4>1, <4>2
    <3> QED
      BY <2>1, <3>1, <3>2, <3>3, <3>4 DEF TimesX4At
  <2> QED
    BY <2>2, <2>3
<1>11. SameBelow(Poly(c), TimesX4(P), 127)
  BY <1>10 DEF SameBelow, Poly, TimesX4, TimesX
<1>12. Poly(c) = TimesX4(P)
  BY <1>11, SameSet
<1> QED
  BY <1>6, <1>12 DEF c

Pairs == [hi : SUBSET (0..63), lo : SUBSET (0..63)]

LEMMA PairsAre == \A z : IsPair(z) <=> z \in Pairs
  BY DEF IsPair, Pairs

\* The powers of x in the nibble n.
Nib(n) == {i \in 0..3 : (3 - i) \in bits_of(n)}

LEMMA NibMembers ==
  ASSUME NEW n \in 0..15
  PROVE  /\ 0 \in Nib(n) <=> (n \div 8) % 2 = 1
         /\ 1 \in Nib(n) <=> (n \div 4) % 2 = 1
         /\ 2 \in Nib(n) <=> (n \div 2) % 2 = 1
         /\ 3 \in Nib(n) <=> (n \div 1) % 2 = 1
         /\ Nib(n) \in SUBSET (0..3)
<1>1. n \in Int
  OBVIOUS
<1>2. 3 - 0 = 3 /\ 3 - 1 = 2 /\ 3 - 2 = 1 /\ 3 - 3 = 0
  OBVIOUS
<1> QED
  BY <1>1, <1>2, BitsAre DEF Nib

LEMMA NibsAre == Nib(0) = {} /\ Nib(1) = {3} /\ Nib(2) = {2} /\ Nib(4) = {1} /\ Nib(8) = {0}
  BY BitsOfNibbles DEF Nib

LEMMA NibSum ==
  ASSUME NEW m \in {2, 4, 8}, NEW j \in 0..(m-1)
  PROVE  Nib(m + j) = xor64(Nib(m), Nib(j))
<1>1. m \in 0..15 /\ j \in 0..15 /\ m + j \in 0..15
  OBVIOUS
<1> DEFINE n == m + j
<1>2. /\ (n \div 8) % 2 = 1 <=> ~ ((m \div 8) % 2 = 1 <=> (j \div 8) % 2 = 1)
      /\ (n \div 4) % 2 = 1 <=> ~ ((m \div 4) % 2 = 1 <=> (j \div 4) % 2 = 1)
      /\ (n \div 2) % 2 = 1 <=> ~ ((m \div 2) % 2 = 1 <=> (j \div 2) % 2 = 1)
      /\ (n \div 1) % 2 = 1 <=> ~ ((m \div 1) % 2 = 1 <=> (j \div 1) % 2 = 1)
  <2>1. CASE m = 2
    BY <2>1
  <2>2. CASE m = 4
    BY <2>2
  <2>3. CASE m = 8
    BY <2>3
  <2> QED
    BY <2>1, <2>2, <2>3
<1> HIDE DEF n
<1>3. n \in 0..15
  BY <1>1 DEF n
<1>4. \A i \in 0..3 : i \in Nib(n) <=> ~ (i \in Nib(m) <=> i \in Nib(j))
  BY <1>1, <1>2, <1>3, NibMembers
<1>5. Nib(n) \in SUBSET (0..3) /\ Nib(m) \in SUBSET (0..3) /\ Nib(j) \in SUBSET (0..3)
  BY <1>1, <1>3, NibMembers
<1>6. \A i : i \in Nib(n) <=> i \in xor64(Nib(m), Nib(j))
  BY <1>4, <1>5, SumMembers
<1> QED
  BY <1>6 DEF n

\* Entries of a table: products of Q by the nibbles below m.
ProductsOf(s, m, Q) ==
  /\ s \in Seq(Pairs) /\ Len(s) = m
  /\ \A n \in 0..(m-1) : Poly(s[n+1]) = FieldProduct(Nib(n), Q)

LEMMA UpperHalfIs ==
  ASSUME NEW m \in {2, 4, 8}, NEW Q, NEW below, ProductsOf(below, m, Q),
         NEW v, IsPair(v), Poly(v) = FieldProduct(Nib(m), Q)
  PROVE  ProductsOf(below \o upper_half(v, below), 2 * m, Q)
<1> DEFINE f == [j \in 1..(m-1) |-> xor_pair(v, below[j+1])]
           u == <<v>> \o f
           s == below \o u
<1>1. below \in Seq(Pairs) /\ Len(below) = m /\ m \in Nat /\ m - 1 \in Nat
      /\ \A n \in 0..(m-1) : Poly(below[n+1]) = FieldProduct(Nib(n), Q)
  BY DEF ProductsOf
<1>2. upper_half(v, below) = u
  BY <1>1 DEF upper_half
<1>3. \A k \in 1..m : IsPair(below[k])
  BY <1>1, ElementOfSeq, PairsAre
<1>4. f \in Seq(Pairs) /\ Len(f) = m - 1
  <2>1. \A j \in 1..(m-1) : IsPair(xor_pair(v, below[j+1]))
    BY <1>3, PairSum
  <2>2. f \in [1..(m-1) -> Pairs]
    BY <2>1, PairsAre
  <2> HIDE DEF f
  <2> QED
    BY <1>1, <2>2
<1>5. /\ u \in Seq(Pairs) /\ Len(u) = m /\ u[1] = v
      /\ \A k \in 2..m : u[k] = xor_pair(v, below[k])
  <2>1. <<v>> \in Seq(Pairs) /\ Len(<<v>>) = 1 /\ <<v>>[1] = v
    BY PairsAre
  <2>2. \A j \in 1..(m-1) : f[j] = xor_pair(v, below[j+1])
    OBVIOUS
  <2> HIDE DEF f
  <2>3. /\ u \in Seq(Pairs) /\ Len(u) = 1 + (m - 1)
        /\ \A k \in 1..(1 + (m - 1)) : u[k] = IF k <= 1 THEN <<v>>[k] ELSE f[k-1]
    BY <1>4, <2>1, ConcatProperties
  <2>4. 1 + (m - 1) = m /\ \A k \in 2..m : k - 1 \in 1..(m-1) /\ k - 1 + 1 = k /\ ~ (k <= 1)
        /\ k \in 1..m
    BY <1>1
  <2> HIDE DEF u
  <2>5. \A k \in 2..m : u[k] = xor_pair(v, below[k])
    BY <2>2, <2>3, <2>4
  <2> QED
    BY <1>1, <2>1, <2>3, <2>4, <2>5
<1> HIDE DEF f, u
<1>6. /\ s \in Seq(Pairs) /\ Len(s) = m + m
      /\ \A k \in 1..(m + m) : s[k] = IF k <= m THEN below[k] ELSE u[k-m]
  BY <1>1, <1>5, ConcatProperties
<1> HIDE DEF s
<1>7. m + m = 2 * m
  OBVIOUS
<1>8. ASSUME NEW j \in 0..(m-1) PROVE Poly(u[j+1]) = FieldProduct(Nib(m + j), Q)
  <2>1. m \in 0..15 /\ j \in 0..15
    OBVIOUS
  <2>2. Nib(m) \in SUBSET (0..127) /\ Nib(j) \in SUBSET (0..127)
    BY DEF Nib
  <2>3. FieldProduct(Nib(m + j), Q) = xor64(FieldProduct(Nib(m), Q), FieldProduct(Nib(j), Q))
    BY <2>2, FieldSum, NibSum
  <2>4. CASE j = 0
    <3>1. Poly(u[j+1]) = FieldProduct(Nib(m), Q)
      BY <1>5, <2>4
    <3>2. m + j = m
      BY <2>4
    <3> QED
      BY <3>1, <3>2
  <2>5. CASE j # 0
    <3>1. j + 1 \in 2..m /\ j + 1 \in 1..m
      BY <2>5
    <3>2. u[j+1] = xor_pair(v, below[j+1]) /\ IsPair(below[j+1])
      BY <1>3, <1>5, <3>1
    <3>3. Poly(u[j+1]) = xor64(Poly(v), Poly(below[j+1]))
      BY <3>2, PairSum
    <3> QED
      BY <1>1, <2>3, <3>3
  <2> QED
    BY <2>4, <2>5
<1>9. ASSUME NEW n \in 0..(m+m-1) PROVE Poly(s[n+1]) = FieldProduct(Nib(n), Q)
  <2>1. CASE n < m
    <3>1. n + 1 \in 1..(m+m) /\ n + 1 <= m /\ n \in 0..(m-1)
      BY <2>1
    <3> QED
      BY <1>1, <1>6, <3>1
  <2>2. CASE n >= m
    <3>1. n + 1 \in 1..(m+m) /\ ~ (n + 1 <= m) /\ n + 1 - m = n - m + 1 /\ n - m \in 0..(m-1)
          /\ m + (n - m) = n
      BY <2>2
    <3>2. s[n+1] = u[n-m+1]
      BY <1>6, <3>1
    <3> DEFINE j == n - m
    <3> HIDE DEF j
    <3>3. j \in 0..(m-1) /\ m + j = n /\ s[n+1] = u[j+1]
      BY <3>1, <3>2 DEF j
    <3> QED
      BY <1>8, <3>3
  <2> QED
    BY <2>1, <2>2
<1> DEFINE t == m + m
<1>11. t = 2 * m
  BY <1>7
<1>12. s = below \o upper_half(v, below)
  BY <1>2 DEF s
<1>13. ProductsOf(s, t, Q)
  <2> HIDE DEF t
  <2>1. Len(s) = t
    BY <1>6 DEF t
  <2>2. \A n \in 0..(t-1) : Poly(s[n+1]) = FieldProduct(Nib(n), Q)
    BY <1>9 DEF t
  <2> QED
    BY <1>6, <2>1, <2>2 DEF ProductsOf
<1> HIDE DEF t
<1> QED
  BY <1>11, <1>12, <1>13

\* Entry n of the tables of gcm_setkey is the product of the block by the nibble
\* n.
THEOREM MultTablesAre ==
  ASSUME NEW h, IsPair(block_pair(h))
  PROVE  ProductsOf(mult_tables(h), 16, Poly(block_pair(h)))
<1> DEFINE v8 == block_pair(h)
           v4 == half(v8)
           v2 == half(v4)
           v1 == half(v2)
           to1 == <<ZeroPair, v1>>
           to3 == to1 \o upper_half(v2, to1)
           to7 == to3 \o upper_half(v4, to3)
           Q == Poly(v8)
<1>1. mult_tables(h) = to7 \o upper_half(v8, to7)
  BY DEF mult_tables
<1>2. IsPair(v8) /\ Q \in SUBSET (0..127)
  BY DEF Poly
<1> HIDE DEF v8
<1>3. IsPair(v4) /\ Poly(v4) = TimesX(Q)
  BY <1>2, HalfIs
<1> HIDE DEF v4
<1>4. IsPair(v2) /\ Poly(v2) = TimesX(TimesX(Q))
  BY <1>3, HalfIs
<1> HIDE DEF v2
<1>5. IsPair(v1) /\ Poly(v1) = TimesX(TimesX(TimesX(Q)))
  BY <1>4, HalfIs
<1> HIDE DEF v1
<1> HIDE DEF Q
<1>6. FieldProduct({0}, Q) = Q
  BY <1>2, FieldOne
<1>7. Moved({0}, 1) = {1} /\ Moved({1}, 1) = {2} /\ Moved({2}, 1) = {3}
  BY DEF Moved
<1>8. {0} \in SUBSET (0..126) /\ {1} \in SUBSET (0..126) /\ {2} \in SUBSET (0..126)
  OBVIOUS
<1>9. /\ FieldProduct({1}, Q) = TimesX(Q)
      /\ FieldProduct({2}, Q) = TimesX(TimesX(Q))
      /\ FieldProduct({3}, Q) = TimesX(TimesX(TimesX(Q)))
  BY <1>2, <1>6, <1>7, <1>8, FieldMoved
<1>10. ProductsOf(to1, 2, Q)
  <2>1. IsPair(ZeroPair) /\ Poly(ZeroPair) = FieldProduct(Nib(0), Q)
    BY ZeroPoly, FieldNone, NibsAre
  <2>2. to1 \in Seq(Pairs) /\ Len(to1) = 2 /\ to1[1] = ZeroPair /\ to1[2] = v1
    BY <1>5, <2>1, PairsAre
  <2> HIDE DEF to1
  <2>3. \A n \in 0..(2-1) : (n = 0 /\ n + 1 = 1) \/ (n = 1 /\ n + 1 = 2)
    OBVIOUS
  <2>4. Poly(to1[2]) = FieldProduct(Nib(1), Q)
    BY <1>5, <1>9, <2>2, NibsAre
  <2>5. \A n \in 0..(2-1) : Poly(to1[n+1]) = FieldProduct(Nib(n), Q)
    BY <2>1, <2>2, <2>3, <2>4
  <2> QED
    BY <2>2, <2>5 DEF ProductsOf
<1> HIDE DEF to1
<1>11. ProductsOf(to3, 2 * 2, Q)
  BY <1>4, <1>9, <1>10, NibsAre, UpperHalfIs
<1> HIDE DEF to3
<1>12. ProductsOf(to3, 4, Q)
  <2>1. 2 * 2 = 4
    OBVIOUS
  <2> QED
    BY <1>11, <2>1
<1>13. ProductsOf(to7, 2 * 4, Q)
  BY <1>3, <1>9, <1>12, NibsAre, UpperHalfIs
<1> HIDE DEF to7
<1>14. ProductsOf(to7, 8, Q)
  <2>1. 2 * 4 = 8
    OBVIOUS
  <2> QED
    BY <1>13, <2>1
<1>15. ProductsOf(to7 \o upper_half(v8, to7), 2 * 8, Q)
  <2>1. Poly(v8) = FieldProduct(Nib(8), Q)
    BY <1>6, NibsAre DEF Q
  <2> QED
    BY <1>2, <1>14, <2>1, UpperHalfIs
<1>16. 2 * 8 = 16
  OBVIOUS
<1> QED
  BY <1>1, <1>15, <1>16 DEF Q, v8

-----------------------------------------------------------------------------
(***************************************************************************)
(* Blocks and their nibbles as polynomials, and gcm_mult: after nibble k, the*)
(* product by the last k+1 nibbles.                                        *)
(***************************************************************************)

LEMMA BitsOfByte ==
  ASSUME NEW n \in 0..255
  PROVE  bits_of(n) \in SUBSET (0..7)
<1>1. n \in Int
  OBVIOUS
<1>2. /\ (n \div 256) % 2 = 0 /\ (n \div 512) % 2 = 0 /\ (n \div 1024) % 2 = 0
      /\ (n \div 2048) % 2 = 0 /\ (n \div 4096) % 2 = 0 /\ (n \div 8192) % 2 = 0
      /\ (n \div 16384) % 2 = 0 /\ (n \div 32768) % 2 = 0
  OBVIOUS
<1>3. /\ 8 \notin bits_of(n) /\ 9 \notin bits_of(n) /\ 10 \notin bits_of(n)
      /\ 11 \notin bits_of(n) /\ 12 \notin bits_of(n) /\ 13 \notin bits_of(n)
      /\ 14 \notin bits_of(n) /\ 15 \notin bits_of(n)
  BY <1>1, <1>2, BitsAre
<1>4. bits_of(n) \in SUBSET (0..15)
  BY DEF bits_of
<1>5. \A p \in 0..15 : p \in 0..7 \/ p = 8 \/ p = 9 \/ p = 10 \/ p = 11 \/ p = 12 \/ p = 13
        \/ p = 14 \/ p = 15
  OBVIOUS
<1> QED
  BY <1>3, <1>4, <1>5

\* b[i+1], ..., b[i+8] are bytes.
EightBytes(b, i) == \A j \in 1..8 : b[i + j] \in 0..255

LEMMA WordBits ==
  ASSUME NEW b, NEW i \in Int, EightBytes(b, i), NEW q \in 0..63
  PROVE  q \in get_uint64_be(b, i) <=> (q % 8) \in bits_of(b[i + 8 - (q \div 8)])
<1> DEFINE k == 8 - (q \div 8)
           part(j) == shl64(bits_of(b[i + j]), 8 * (8 - j))
<1>1. \A j \in 1..8 : bits_of(b[i + j]) \in SUBSET (0..7)
  BY BitsOfByte DEF EightBytes
<1>2. \A j \in 1..8 : q \in part(j) <=> (q - 8 * (8 - j)) \in bits_of(b[i + j])
  <2> TAKE j \in 1..8
  <2> DEFINE v == bits_of(b[i + j])
             s == 8 * (8 - j)
  <2>1. v \in SUBSET (0..63) /\ s \in 0..63
    BY <1>1
  <2> HIDE DEF v, s
  <2>2. q \in shl64(v, s) <=> (q - s) \in v
    BY <2>1, ShiftedLeft
  <2> QED
    BY <2>2 DEF v, s
<1>3. k \in 1..8 /\ q - 8 * (8 - k) = q % 8 /\ i + k = i + 8 - (q \div 8)
  OBVIOUS
<1>4. \A j \in 1..8 : (q - 8 * (8 - j)) \in 0..7 => j = k
  OBVIOUS
<1> HIDE DEF k
<1>5. get_uint64_be(b, i) = UNION {part(j) : j \in 1..8}
  BY DEF get_uint64_be
<1> HIDE DEF part
<1>6. q \in get_uint64_be(b, i) <=> \E j \in 1..8 : q \in part(j)
  BY <1>5
<1>7. \A j \in 1..8 : q \in part(j) => j = k
  BY <1>1, <1>2, <1>4
<1>8. q \in get_uint64_be(b, i) <=> q \in part(k)
  BY <1>3, <1>6, <1>7
<1>9. q \in part(k) <=> (q % 8) \in bits_of(b[i + k])
  BY <1>2, <1>3
<1> QED
  BY <1>3, <1>8, <1>9

LEMMA WordStays ==
  ASSUME NEW b, NEW i
  PROVE  get_uint64_be(b, i) \in SUBSET (0..63)
<1>1. \A j \in 1..8 : shl64(bits_of(b[i + j]), 8 * (8 - j)) \in SUBSET (0..63)
  <2> TAKE j \in 1..8
  <2> DEFINE v == bits_of(b[i + j])
  <2>1. v \in SUBSET (0..63)
    BY DEF bits_of
  <2> HIDE DEF v
  <2>2. 8 * (8 - j) \in 0..63
    OBVIOUS
  <2>3. shl64(v, 8 * (8 - j)) \in SUBSET (0..63)
    BY <2>1, <2>2, ShiftsStay
  <2> QED
    BY <2>3 DEF v
<1> QED
  BY <1>1 DEF get_uint64_be

\* Sixteen bytes.
Bytes16(b) == \A j \in 1..16 : b[j] \in 0..255

LEMMA BlockPairIs ==
  ASSUME NEW b, Bytes16(b)
  PROVE  IsPair(block_pair(b)) /\ Poly(block_pair(b)) = Coefficients(b)
<1> DEFINE z == block_pair(b)
           h == get_uint64_be(b, 0)
           l == get_uint64_be(b, 8)
<1>1. z = [hi |-> h, lo |-> l]
  BY DEF block_pair
<1>2. z.hi = h /\ z.lo = l
  BY <1>1
<1>3. h \in SUBSET (0..63) /\ l \in SUBSET (0..63)
  BY WordStays
<1>4. EightBytes(b, 0) /\ EightBytes(b, 8)
  BY DEF EightBytes, Bytes16
<1>5. \A q \in 0..63 : /\ q \in h <=> (q % 8) \in bits_of(b[0 + 8 - (q \div 8)])
                       /\ q \in l <=> (q % 8) \in bits_of(b[8 + 8 - (q \div 8)])
  BY <1>4, WordBits
<1> HIDE DEF h, l
<1>6. IsPair(z)
  BY <1>1, <1>2, <1>3 DEF IsPair
<1> HIDE DEF z
<1>7. \A n : n \in Poly(z) <=> n \in Coefficients(b)
  <2>1. ASSUME NEW n \in 0..127, n <= 63
        PROVE  n \in Poly(z) <=> (7 - (n % 8)) \in bits_of(b[1 + (n \div 8)])
    <3> DEFINE q == 63 - n
    <3>1. q \in 0..63 /\ q % 8 = 7 - (n % 8) /\ 0 + 8 - (q \div 8) = 1 + (n \div 8)
      BY <2>1
    <3>2. n \in Poly(z) <=> q \in h
      BY <1>2, <2>1, PolyMembers
    <3> HIDE DEF q
    <3> QED
      BY <1>5, <3>1, <3>2
  <2>2. ASSUME NEW n \in 0..127, ~ (n <= 63)
        PROVE  n \in Poly(z) <=> (7 - (n % 8)) \in bits_of(b[1 + (n \div 8)])
    <3> DEFINE q == 127 - n
    <3>1. q \in 0..63 /\ q % 8 = 7 - (n % 8) /\ 8 + 8 - (q \div 8) = 1 + (n \div 8)
      BY <2>2
    <3>2. n \in Poly(z) <=> q \in l
      BY <1>2, <2>2, PolyMembers
    <3> HIDE DEF q
    <3> QED
      BY <1>5, <3>1, <3>2
  <2>3. \A n \in 0..127 : n \in Poly(z) <=> (7 - (n % 8)) \in bits_of(b[1 + (n \div 8)])
    BY <2>1, <2>2
  <2>4. Poly(z) \in SUBSET (0..127)
    BY DEF Poly
  <2> QED
    BY <2>3, <2>4 DEF Coefficients
<1> QED
  BY <1>6, <1>7 DEF z

\* The digits of a byte written out.
IsDigit(d) == d = 0 \/ d = 1
LEMMA DigitsOfSum ==
  ASSUME NEW d0, NEW d1, NEW d2, NEW d3, NEW d4, NEW d5, NEW d6, NEW d7,
         IsDigit(d0), IsDigit(d1), IsDigit(d2), IsDigit(d3),
         IsDigit(d4), IsDigit(d5), IsDigit(d6), IsDigit(d7),
         NEW n, n = d0 + 2 * d1 + 4 * d2 + 8 * d3 + 16 * d4 + 32 * d5 + 64 * d6 + 128 * d7
  PROVE  /\ n \in 0..255
         /\ (n \div 1) % 2 = d0 /\ (n \div 2) % 2 = d1
         /\ (n \div 4) % 2 = d2 /\ (n \div 8) % 2 = d3
         /\ (n \div 16) % 2 = d4 /\ (n \div 32) % 2 = d5
         /\ (n \div 64) % 2 = d6 /\ (n \div 128) % 2 = d7
<1>1. /\ d0 \in 0..1 /\ d1 \in 0..1 /\ d2 \in 0..1 /\ d3 \in 0..1
      /\ d4 \in 0..1 /\ d5 \in 0..1 /\ d6 \in 0..1 /\ d7 \in 0..1
  BY DEF IsDigit
<1>2. n \in 0..255
  BY <1>1
<1>3. /\ n \div 1 = n
      /\ n \div 2 = d1 + 2 * d2 + 4 * d3 + 8 * d4 + 16 * d5 + 32 * d6 + 64 * d7
      /\ n \div 4 = d2 + 2 * d3 + 4 * d4 + 8 * d5 + 16 * d6 + 32 * d7
      /\ n \div 8 = d3 + 2 * d4 + 4 * d5 + 8 * d6 + 16 * d7
  BY <1>1
<1>4. /\ n \div 16 = d4 + 2 * d5 + 4 * d6 + 8 * d7
      /\ n \div 32 = d5 + 2 * d6 + 4 * d7
      /\ n \div 64 = d6 + 2 * d7
      /\ n \div 128 = d7
  BY <1>1
<1>5. (n \div 1) % 2 = d0 /\ (n \div 2) % 2 = d1
  BY <1>1, <1>3
<1>6. (n \div 4) % 2 = d2 /\ (n \div 8) % 2 = d3
  BY <1>1, <1>3
<1>7. (n \div 16) % 2 = d4 /\ (n \div 32) % 2 = d5
  BY <1>1, <1>4
<1>8. (n \div 64) % 2 = d6 /\ (n \div 128) % 2 = d7
  BY <1>1, <1>4
<1> QED
  BY <1>2, <1>5, <1>6, <1>7, <1>8

LEMMA ByteOfIs ==
  ASSUME NEW v, NEW j \in 0..7, NEW p \in 0..7
  PROVE  p \in bits_of(byte_of(v, j)) <=> (8 * (7 - j) + p) \in v
<1> DEFINE n == byte_of(v, j)
           e == 8 * (7 - j)
           d(k) == IF (e + k) \in v THEN 1 ELSE 0
           bit(k) == IF (e + k) \in v THEN 2 ^ k ELSE 0
<1>1. n = bit(0) + bit(1) + bit(2) + bit(3) + bit(4) + bit(5) + bit(6) + bit(7)
  BY DEF byte_of
<1>2. /\ bit(0) = d(0) /\ bit(1) = 2 * d(1) /\ bit(2) = 4 * d(2) /\ bit(3) = 8 * d(3)
      /\ bit(4) = 16 * d(4) /\ bit(5) = 32 * d(5) /\ bit(6) = 64 * d(6) /\ bit(7) = 128 * d(7)
  BY PowersOf2
<1>3. /\ IsDigit(d(0)) /\ IsDigit(d(1)) /\ IsDigit(d(2)) /\ IsDigit(d(3))
      /\ IsDigit(d(4)) /\ IsDigit(d(5)) /\ IsDigit(d(6)) /\ IsDigit(d(7))
  BY DEF IsDigit
<1>4. \A k : d(k) = 1 <=> (e + k) \in v
  OBVIOUS
<1> HIDE DEF n, d, bit
<1>5. n = d(0) + 2 * d(1) + 4 * d(2) + 8 * d(3) + 16 * d(4) + 32 * d(5) + 64 * d(6) + 128 * d(7)
  BY <1>1, <1>2
<1>6. /\ n \in 0..255
      /\ (n \div 1) % 2 = d(0) /\ (n \div 2) % 2 = d(1)
      /\ (n \div 4) % 2 = d(2) /\ (n \div 8) % 2 = d(3)
      /\ (n \div 16) % 2 = d(4) /\ (n \div 32) % 2 = d(5)
      /\ (n \div 64) % 2 = d(6) /\ (n \div 128) % 2 = d(7)
  BY <1>3, <1>5, DigitsOfSum
<1>7. n \in Int
  BY <1>6
<1>8. /\ 0 \in bits_of(n) <=> d(0) = 1
      /\ 1 \in bits_of(n) <=> d(1) = 1
      /\ 2 \in bits_of(n) <=> d(2) = 1
      /\ 3 \in bits_of(n) <=> d(3) = 1
      /\ 4 \in bits_of(n) <=> d(4) = 1
      /\ 5 \in bits_of(n) <=> d(5) = 1
      /\ 6 \in bits_of(n) <=> d(6) = 1
      /\ 7 \in bits_of(n) <=> d(7) = 1
  BY <1>6, <1>7, BitsAre
<1>9. p = 0 \/ p = 1 \/ p = 2 \/ p = 3 \/ p = 4 \/ p = 5 \/ p = 6 \/ p = 7
  OBVIOUS
<1>10. p \in bits_of(n) <=> d(p) = 1
  BY <1>8, <1>9
<1> QED
  BY <1>4, <1>10 DEF n

LEMMA PutPairIs ==
  ASSUME NEW z
  PROVE  Coefficients(put_pair(z)) = Poly(z)
<1> DEFINE b == put_pair(z)
<1>1. \A j \in 0..7 : b[1 + j] = byte_of(z.hi, j) /\ b[9 + j] = byte_of(z.lo, j)
  <2>1. /\ b[1] = byte_of(z.hi, 0) /\ b[2] = byte_of(z.hi, 1)
        /\ b[3] = byte_of(z.hi, 2) /\ b[4] = byte_of(z.hi, 3)
        /\ b[5] = byte_of(z.hi, 4) /\ b[6] = byte_of(z.hi, 5)
        /\ b[7] = byte_of(z.hi, 6) /\ b[8] = byte_of(z.hi, 7)
    BY DEF put_pair
  <2>2. /\ b[9] = byte_of(z.lo, 0) /\ b[10] = byte_of(z.lo, 1)
        /\ b[11] = byte_of(z.lo, 2) /\ b[12] = byte_of(z.lo, 3)
        /\ b[13] = byte_of(z.lo, 4) /\ b[14] = byte_of(z.lo, 5)
        /\ b[15] = byte_of(z.lo, 6) /\ b[16] = byte_of(z.lo, 7)
    BY DEF put_pair
  <2> HIDE DEF b
  <2>3. \A j \in 0..7 : \/ j = 0 /\ 1 + j = 1 /\ 9 + j = 9
                        \/ j = 1 /\ 1 + j = 2 /\ 9 + j = 10
                        \/ j = 2 /\ 1 + j = 3 /\ 9 + j = 11
                        \/ j = 3 /\ 1 + j = 4 /\ 9 + j = 12
                        \/ j = 4 /\ 1 + j = 5 /\ 9 + j = 13
                        \/ j = 5 /\ 1 + j = 6 /\ 9 + j = 14
                        \/ j = 6 /\ 1 + j = 7 /\ 9 + j = 15
                        \/ j = 7 /\ 1 + j = 8 /\ 9 + j = 16
    OBVIOUS
  <2> QED
    BY <2>1, <2>2, <2>3
<1> HIDE DEF b
<1>2. ASSUME NEW n \in 0..127, n <= 63
      PROVE  (7 - (n % 8)) \in bits_of(b[1 + (n \div 8)]) <=> n \in Poly(z)
  <2> DEFINE j == n \div 8
             p == 7 - (n % 8)
  <2>1. j \in 0..7 /\ p \in 0..7 /\ 8 * (7 - j) + p = 63 - n
    BY <1>2
  <2> HIDE DEF j, p
  <2>2. p \in bits_of(b[1 + j]) <=> (63 - n) \in z.hi
    BY <1>1, <2>1, ByteOfIs
  <2> QED
    BY <1>2, <2>2, PolyMembers DEF j, p
<1>3. ASSUME NEW n \in 0..127, ~ (n <= 63)
      PROVE  (7 - (n % 8)) \in bits_of(b[1 + (n \div 8)]) <=> n \in Poly(z)
  <2> DEFINE j == (n \div 8) - 8
             p == 7 - (n % 8)
  <2>1. j \in 0..7 /\ p \in 0..7 /\ 8 * (7 - j) + p = 127 - n /\ 9 + j = 1 + (n \div 8)
    BY <1>3
  <2> HIDE DEF j, p
  <2>2. p \in bits_of(b[9 + j]) <=> (127 - n) \in z.lo
    BY <1>1, <2>1, ByteOfIs
  <2> QED
    BY <1>3, <2>1, <2>2, PolyMembers DEF p
<1>4. \A n \in 0..127 : (7 - (n % 8)) \in bits_of(b[1 + (n \div 8)]) <=> n \in Poly(z)
  BY <1>2, <1>3
<1>5. Poly(z) \in SUBSET (0..127)
  BY DEF Poly
<1>6. \A n : n \in Coefficients(b) <=> n \in Poly(z)
  BY <1>4, <1>5 DEF Coefficients
<1> QED
  BY <1>6 DEF b

LEMMA NibblesOfByte ==
  ASSUME NEW b \in 0..255, NEW p \in 0..3
  PROVE  /\ p \in bits_of(b % 16) <=> p \in bits_of(b)
         /\ p \in bits_of(b \div 16) <=> (p + 4) \in bits_of(b)
         /\ b % 16 \in 0..15 /\ b \div 16 \in 0..15
<1> DEFINE l == b % 16
           h == b \div 16
<1>1. b \in Int /\ l \in 0..15 /\ h \in 0..15
  OBVIOUS
<1>2. /\ (l \div 1) % 2 = (b \div 1) % 2 /\ (l \div 2) % 2 = (b \div 2) % 2
      /\ (l \div 4) % 2 = (b \div 4) % 2 /\ (l \div 8) % 2 = (b \div 8) % 2
  OBVIOUS
<1>3. /\ (h \div 1) % 2 = (b \div 16) % 2 /\ (h \div 2) % 2 = (b \div 32) % 2
      /\ (h \div 4) % 2 = (b \div 64) % 2 /\ (h \div 8) % 2 = (b \div 128) % 2
  OBVIOUS
<1> HIDE DEF l, h
<1>4. l \in Int /\ h \in Int
  BY <1>1
<1>5. \/ p = 0 /\ p + 4 = 4
      \/ p = 1 /\ p + 4 = 5
      \/ p = 2 /\ p + 4 = 6
      \/ p = 3 /\ p + 4 = 7
  OBVIOUS
<1>6. p \in bits_of(l) <=> p \in bits_of(b)
  BY <1>1, <1>2, <1>4, <1>5, BitsAre
<1>7. p \in bits_of(h) <=> (p + 4) \in bits_of(b)
  BY <1>1, <1>3, <1>4, <1>5, BitsAre
<1> QED
  BY <1>1, <1>6, <1>7 DEF l, h

LEMMA NibbleIs ==
  ASSUME NEW x, Bytes16(x), NEW k \in 0..31
  PROVE  /\ nibble(x, k) \in 0..15
         /\ \A i \in 0..3 : i \in Nib(nibble(x, k)) <=> (i + 124 - 4 * k) \in Coefficients(x)
<1> DEFINE e == k \div 2
           b == x[16 - e]
<1>1. e \in 0..15 /\ 16 - e \in 1..16
  OBVIOUS
<1>2. b \in 0..255
  BY <1>1 DEF Bytes16
<1>3. nibble(x, k) = IF k % 2 = 0 THEN b % 16 ELSE b \div 16
  BY DEF nibble
<1>4. nibble(x, k) \in 0..15
  BY <1>2, <1>3
<1>5. ASSUME NEW i \in 0..3
      PROVE  i \in Nib(nibble(x, k)) <=> (i + 124 - 4 * k) \in Coefficients(x)
  <2> DEFINE n == i + 124 - 4 * k
             p == 3 - i
  <2>1. i \in Nib(nibble(x, k)) <=> p \in bits_of(nibble(x, k))
    BY DEF Nib
  <2>2. n \in 0..127 /\ p \in 0..3
    OBVIOUS
  <2>3. n \in Coefficients(x) <=> (7 - (n % 8)) \in bits_of(x[1 + (n \div 8)])
    BY <2>2 DEF Coefficients
  <2>4. ASSUME k % 2 = 0 PROVE i \in Nib(nibble(x, k)) <=> n \in Coefficients(x)
    <3>1. k = 2 * e
      BY <2>4
    <3>2. n = 8 * (15 - e) + (4 + i)
      BY <3>1
    <3> HIDE DEF e
    <3>3. n \div 8 = 15 - e /\ n % 8 = 4 + i
      BY <1>1, <3>2
    <3>4. 1 + (n \div 8) = 16 - e /\ 7 - (n % 8) = p
      BY <1>1, <3>3
    <3>6. x[16 - e] = b
      OBVIOUS
    <3> HIDE DEF n, p, b
    <3>5. p \in bits_of(b % 16) <=> p \in bits_of(b)
      BY <1>2, <2>2, NibblesOfByte
    <3> QED
      BY <1>3, <2>1, <2>3, <2>4, <3>4, <3>5, <3>6
  <2>5. ASSUME k % 2 # 0 PROVE i \in Nib(nibble(x, k)) <=> n \in Coefficients(x)
    <3>1. k = 2 * e + 1
      BY <2>5
    <3>2. n = 8 * (15 - e) + i
      BY <3>1
    <3> HIDE DEF e
    <3>3. n \div 8 = 15 - e /\ n % 8 = i
      BY <1>1, <3>2
    <3>4. 1 + (n \div 8) = 16 - e /\ 7 - (n % 8) = p + 4
      BY <1>1, <3>3
    <3>6. x[16 - e] = b
      OBVIOUS
    <3> HIDE DEF n, p, b
    <3>5. p \in bits_of(b \div 16) <=> (p + 4) \in bits_of(b)
      BY <1>2, <2>2, NibblesOfByte
    <3> QED
      BY <1>3, <2>1, <2>3, <2>5, <3>4, <3>5, <3>6
  <2> HIDE DEF n
  <2> QED
    BY <2>4, <2>5 DEF n
<1> QED
  BY <1>4, <1>5

\* The last k+1 nibbles of x, as a polynomial of its own.
Top(x, k) == {m \in 0..(4 * k + 3) : (m + 124 - 4 * k) \in Coefficients(x)}

LEMMA TopStep ==
  ASSUME NEW x, Bytes16(x), NEW k \in 1..31
  PROVE  Top(x, k) = xor64(Moved(Top(x, k-1), 4), Nib(nibble(x, k)))
<1> DEFINE A == Top(x, k)
           M == Moved(Top(x, k-1), 4)
           N == Nib(nibble(x, k))
<1>1. \A m \in Int : m \in M <=> (m - 4) \in Top(x, k-1)
  <2>1. Top(x, k-1) \in SUBSET Int
    BY DEF Top
  <2> QED
    BY <2>1 DEF Moved
<1>2. \A m \in Int : m \in N <=> m \in 0..3 /\ (m + 124 - 4 * k) \in Coefficients(x)
  <2>1. N \in SUBSET (0..3)
    BY DEF Nib
  <2> QED
    BY <2>1, NibbleIs
<1>3. \A m \in Int : m \in A <=> m \in 0..(4*k+3) /\ (m + 124 - 4 * k) \in Coefficients(x)
  BY DEF Top
<1>4. M \in SUBSET Int /\ N \in SUBSET Int /\ A \in SUBSET Int
  BY DEF Moved, Nib, Top
<1>5. \A m \in Int : (m - 4) \in Top(x, k-1) <=>
        m \in 4..(4*k+3) /\ (m + 124 - 4 * k) \in Coefficients(x)
  <2> TAKE m \in Int
  <2>1. (m - 4) + 124 - 4 * (k-1) = m + 124 - 4 * k
    OBVIOUS
  <2>2. (m - 4) \in 0..(4 * (k-1) + 3) <=> m \in 4..(4*k+3)
    OBVIOUS
  <2> QED
    BY <2>1, <2>2 DEF Top
<1> HIDE DEF A, M, N
<1>6. \A m \in Int : m \in A <=> ~ (m \in M <=> m \in N)
  <2> TAKE m \in Int
  <2>1. m \in 0..(4*k+3) <=> (m \in 4..(4*k+3) \/ m \in 0..3)
    OBVIOUS
  <2>2. ~ (m \in 4..(4*k+3) /\ m \in 0..3)
    OBVIOUS
  <2> QED
    BY <1>1, <1>2, <1>3, <1>5, <2>1, <2>2
<1>7. \A m : m \in A <=> m \in xor64(M, N)
  BY <1>4, <1>6, SumMembers
<1> QED
  BY <1>7 DEF A, M, N

LEMMA TopEnds ==
  ASSUME NEW x, Bytes16(x)
  PROVE  /\ Top(x, 0) = Nib(nibble(x, 0))
         /\ Top(x, 31) = Coefficients(x)
         /\ \A k \in 0..30 : Top(x, k) \in SUBSET (0..123)
<1>1. \A i \in 0..3 : i \in Nib(nibble(x, 0)) <=> (i + 124 - 4 * 0) \in Coefficients(x)
  BY NibbleIs
<1>2. Nib(nibble(x, 0)) \in SUBSET (0..3)
  BY DEF Nib
<1>3. \A m : m \in Top(x, 0) <=> m \in Nib(nibble(x, 0))
  <2>1. 4 * 0 + 3 = 3
    OBVIOUS
  <2> QED
    BY <1>1, <1>2, <2>1 DEF Top
<1>4. \A m : m \in Top(x, 31) <=> m \in Coefficients(x)
  <2>1. 4 * 31 + 3 = 127 /\ \A m \in Int : m + 124 - 4 * 31 = m
    OBVIOUS
  <2>2. Coefficients(x) \in SUBSET (0..127)
    BY DEF Coefficients
  <2> QED
    BY <2>1, <2>2 DEF Top
<1>5. \A k \in 0..30 : Top(x, k) \in SUBSET (0..123)
  BY DEF Top
<1> QED
  BY <1>3, <1>4, <1>5

\* The pair after nibble k, from the one before it.
PairEntry(z, T, x, k) ==
  IF k = 0 THEN T[nibble(x, 0) + 1]
  ELSE xor_pair(shift4(z[k-1]), T[nibble(x, k) + 1])

PairsOn(z, T, x) == z = [k \in 0..31 |-> PairEntry(z, T, x, k)]

LEMMA EntryIs ==
  ASSUME NEW T, NEW Q, ProductsOf(T, 16, Q), NEW n \in 0..15
  PROVE  IsPair(T[n+1]) /\ Poly(T[n+1]) = FieldProduct(Nib(n), Q)
<1>1. T \in Seq(Pairs) /\ Len(T) = 16 /\ n \in 0..(16-1) /\ n + 1 \in 1..Len(T)
  BY DEF ProductsOf
<1>2. T[n+1] \in Pairs
  BY <1>1, ElementOfSeq
<1> QED
  BY <1>1, <1>2, PairsAre DEF ProductsOf

LEMMA PairsExist ==
  ASSUME NEW T, NEW Q, ProductsOf(T, 16, Q), NEW x, Bytes16(x)
  PROVE  \E z : PairsOn(z, T, x)
<1> DEFINE V == Pairs
           S == [p \in (1..31) \X V |-> xor_pair(shift4(p[2]), T[nibble(x, p[1]) + 1])]
           b == T[nibble(x, 0) + 1]
<1>1. \A k \in 0..31 : IsPair(T[nibble(x, k) + 1])
  BY NibbleIs, EntryIs
<1>2. S \in [(1..31) \X V -> V]
  <2>1. ASSUME NEW k \in 1..31, NEW y \in V
        PROVE  xor_pair(shift4(y), T[nibble(x, k) + 1]) \in V
    <3>1. IsPair(y) /\ k \in 0..31
      BY PairsAre
    <3>2. IsPair(shift4(y))
      BY <3>1, Shift4Is
    <3>3. IsPair(T[nibble(x, k) + 1])
      BY <1>1, <3>1
    <3>4. IsPair(xor_pair(shift4(y), T[nibble(x, k) + 1]))
      BY <3>2, <3>3, PairSum
    <3> QED
      BY <3>4, PairsAre
  <2> QED
    BY <2>1
<1>3. b \in V
  BY <1>1, PairsAre
<1>4. PICK z \in [0..31 -> V] : StepsOn(z, 31, b, S)
  <2> HIDE DEF V, S, b
  <2> QED
    BY <1>2, <1>3, RecursionExists
<1>5. ASSUME NEW k \in 0..31 PROVE z[k] = PairEntry(z, T, x, k)
  <2>1. z[k] = IF k = 0 THEN b ELSE S[<<k, z[k-1]>>]
    BY <1>4 DEF StepsOn
  <2>2. CASE k = 0
    BY <2>1, <2>2 DEF PairEntry
  <2>3. CASE k # 0
    <3>1. k \in 1..31 /\ k - 1 \in 0..31
      BY <2>3
    <3>2. <<k, z[k-1]>> \in (1..31) \X V
      BY <3>1
    <3>3. S[<<k, z[k-1]>>] = xor_pair(shift4(z[k-1]), T[nibble(x, k) + 1])
      BY <3>2
    <3> QED
      BY <2>1, <2>3, <3>3 DEF PairEntry
  <2> QED
    BY <2>2, <2>3
<1>6. z = [k \in 0..31 |-> z[k]]
  OBVIOUS
<1> QED
  BY <1>5, <1>6 DEF PairsOn

\* After nibble k: the product by the nibbles so far.
LEMMA PairsAreProducts ==
  ASSUME NEW T, NEW Q \in SUBSET (0..127), ProductsOf(T, 16, Q), NEW x, Bytes16(x),
         NEW z, PairsOn(z, T, x)
  PROVE  \A k \in 0..31 : IsPair(z[k]) /\ Poly(z[k]) = FieldProduct(Top(x, k), Q)
<1> DEFINE Products == {k \in 0..31 : IsPair(z[k]) /\ Poly(z[k]) = FieldProduct(Top(x, k), Q)}
<1>1. \A k \in 0..31 : z[k] = PairEntry(z, T, x, k)
  BY DEF PairsOn
<1>2. 0 \in Products
  <2>1. z[0] = T[nibble(x, 0) + 1]
    BY <1>1 DEF PairEntry
  <2>2. IsPair(z[0]) /\ Poly(z[0]) = FieldProduct(Nib(nibble(x, 0)), Q)
    BY <2>1, NibbleIs, EntryIs
  <2> QED
    BY <2>2, TopEnds
<1>3. ASSUME NEW n \in 0..31, n < 31, n \in Products PROVE n + 1 \in Products
  <2> DEFINE k == n + 1
             y == T[nibble(x, k) + 1]
  <2>1. k \in 0..31 /\ k \in 1..31 /\ k # 0 /\ k - 1 = n /\ n \in 0..30
    BY <1>3
  <2> HIDE DEF k
  <2>2. z[k] = xor_pair(shift4(z[n]), y)
    BY <1>1, <2>1 DEF PairEntry
  <2>3. nibble(x, k) \in 0..15
    BY <2>1, NibbleIs
  <2>4. IsPair(y) /\ Poly(y) = FieldProduct(Nib(nibble(x, k)), Q)
    BY <2>3, EntryIs
  <2> HIDE DEF y
  <2>5. IsPair(z[n]) /\ Poly(z[n]) = FieldProduct(Top(x, n), Q)
    BY <1>3
  <2>6. IsPair(shift4(z[n])) /\ Poly(shift4(z[n])) = TimesX4(Poly(z[n]))
    BY <2>5, Shift4Is
  <2>7. IsPair(z[k]) /\ Poly(z[k]) = xor64(Poly(shift4(z[n])), Poly(y))
    BY <2>2, <2>4, <2>6, PairSum
  <2>8. Top(x, n) \in SUBSET (0..123)
    BY <2>1, TopEnds
  <2>9. FieldProduct(Moved(Top(x, n), 4), Q) = TimesX4(FieldProduct(Top(x, n), Q))
    BY <2>8, FieldMoved4
  <2>10. Moved(Top(x, n), 4) \in SUBSET (0..127) /\ Nib(nibble(x, k)) \in SUBSET (0..127)
    BY <2>8 DEF Moved, Nib
  <2>11. Top(x, k) = xor64(Moved(Top(x, n), 4), Nib(nibble(x, k)))
    BY <2>1, TopStep
  <2>12. FieldProduct(Top(x, k), Q)
           = xor64(FieldProduct(Moved(Top(x, n), 4), Q), FieldProduct(Nib(nibble(x, k)), Q))
    BY <2>10, <2>11, FieldSum
  <2>13. Poly(z[k]) = FieldProduct(Top(x, k), Q)
    BY <2>4, <2>5, <2>6, <2>7, <2>9, <2>12
  <2> QED
    BY <2>1, <2>7, <2>13 DEF k
<1> HIDE DEF Products
<1>4. \A k \in 0..31 : k \in Products
  <2>1. \A n \in 0..31 : n < 31 /\ n \in Products => n + 1 \in Products
    BY <1>3
  <2> QED
    BY <1>2, <2>1, Induct
<1> QED
  BY <1>4 DEF Products

\* gcm_mult with the tables of gcm_setkey for h is the product by h in the field of
\* GCM, for every two blocks.
THEOREM ProductByTables ==
  ASSUME NEW h, Bytes16(h), NEW x, Bytes16(x)
  PROVE  Coefficients(gcm_mult(mult_tables(h), x))
           = FieldProduct(Coefficients(x), Coefficients(h))
<1> DEFINE T == mult_tables(h)
           Q == Coefficients(h)
           On(z) == z = [k \in 0..31 |->
                           IF k = 0 THEN T[nibble(x, 0) + 1]
                           ELSE xor_pair(shift4(z[k-1]), T[nibble(x, k) + 1])]
           z1 == CHOOSE z : On(z)
<1>1. gcm_mult(T, x) = put_pair(z1[31])
  BY DEF gcm_mult
<1>2. IsPair(block_pair(h)) /\ Poly(block_pair(h)) = Q
  BY BlockPairIs
<1>3. ProductsOf(T, 16, Q)
  BY <1>2, MultTablesAre
<1>4. Q \in SUBSET (0..127)
  BY DEF Coefficients
<1> HIDE DEF T, Q
<1>5. \A z : On(z) <=> PairsOn(z, T, x)
  BY DEF PairsOn, PairEntry
<1>6. \E z : On(z)
  BY <1>3, <1>5, PairsExist
<1> HIDE DEF On
<1>7. PairsOn(z1, T, x)
  BY <1>5, <1>6
<1> HIDE DEF z1
<1>8. IsPair(z1[31]) /\ Poly(z1[31]) = FieldProduct(Top(x, 31), Q)
  BY <1>3, <1>4, <1>7, PairsAreProducts
<1>9. Poly(z1[31]) = FieldProduct(Coefficients(x), Q)
  BY <1>8, TopEnds
<1>10. Coefficients(gcm_mult(T, x)) = Poly(z1[31])
  BY <1>1, PutPairIs
<1> QED
  BY <1>9, <1>10 DEF T, Q

-----------------------------------------------------------------------------
(***************************************************************************)
(* The threads: who fills the tables, and who reads them.                  *)
(***************************************************************************)

\* The loops that have run when Main stands where it does.
Before(at) == CASE at = "RCON" -> {}
                [] at = "sboxes" -> {"RCON"}
                [] at = "tables" -> {"RCON", "sboxes"}
                [] OTHER -> Loops

\* Only Main fills the tables, alone and with the flag unset; only a call that
\* found the flag set reads them; the flag means that all loops have run.
OnlyMainBuilds ==
  \A t \in Threads : pc[t] \in Building =>
    t = Main /\ ~threading /\ ~aes_tables_inited /\ Before(pc[t]) \subseteq done
OthersWait == \A t \in Threads \ {Main} : threading \/ pc[t] = "idle"
ReadersSawFlag == \A t \in Threads : pc[t] \in Reading => aes_tables_inited
KeysSawFlag == \A t \in Threads : ret[t] = <<0>> => aes_tables_inited
FlagMeansFilled == aes_tables_inited => done = Loops

IInv == /\ TypeOK /\ OnlyMainBuilds /\ OthersWait
        /\ ReadersSawFlag /\ KeysSawFlag /\ FlagMeansFilled

\* What a call may have returned, and whether that says the key was taken.
Answers == {<<>>, <<0>>, <<-1>>}
Took(r, t) == r[t] = <<0>>

LEMMA InitIInv == Init => IInv
<1>1. <<>> # <<0>>
  OBVIOUS
<1>2. Init => TypeOK /\ KeysSawFlag
  BY <1>1 DEF Init, TypeOK, KeysSawFlag
<1>3. Init => OnlyMainBuilds /\ OthersWait /\ ReadersSawFlag /\ FlagMeansFilled
  BY DEF Init, OnlyMainBuilds, OthersWait, ReadersSawFlag, FlagMeansFilled,
         Building, Reading
<1> QED
  BY <1>2, <1>3 DEF IInv

LEMMA StepIInv == IInv /\ [Next]_vars => IInv'
<1> SUFFICES ASSUME IInv, [Next]_vars PROVE IInv'
  OBVIOUS
<1> USE ThreadsAssumption
<1> USE DEF Building, Reading, Answers, Took
<1>1. CASE StartThreads
  BY <1>1 DEF StartThreads, IInv, TypeOK, OnlyMainBuilds, OthersWait,
              ReadersSawFlag, KeysSawFlag, FlagMeansFilled, tables, local
<1>2. ASSUME NEW t \in Threads, gcm_initialize(t) PROVE IInv'
  BY <1>2 DEF gcm_initialize, Idle, Goes, after_flag, IInv, TypeOK, OnlyMainBuilds,
              OthersWait, ReadersSawFlag, KeysSawFlag, FlagMeansFilled, tables, local, Before
<1>3. ASSUME NEW t \in Threads, NEW loop \in Loops, Fill(t, loop) PROVE IInv'
  BY <1>3 DEF Fill, Goes, Following, Loops, IInv, TypeOK, OnlyMainBuilds,
              OthersWait, ReadersSawFlag, KeysSawFlag, FlagMeansFilled, local, Before
<1>4. ASSUME NEW t \in Threads, SetFlag(t) PROVE IInv'
  BY <1>4 DEF SetFlag, Goes, IInv, TypeOK, OnlyMainBuilds,
              OthersWait, ReadersSawFlag, KeysSawFlag, FlagMeansFilled, local, Before
\* The other actions leave the tables, the flag and threading as they are, and
\* begin to read only when the flag is set.
<1>5. ASSUME NEW t \in Threads, NEW to \in {"idle"} \cup Reading,
             pc' = [pc EXCEPT ![t] = to], pc[t] = "idle" => (t = Main \/ threading),
             pc[t] \notin Building,
             to \in Reading => aes_tables_inited,
             ret' \in [Threads -> Answers],
             \A u \in Threads : Took(ret', u) => Took(ret, u) \/ aes_tables_inited,
             UNCHANGED <<tables, threading>>
      PROVE IInv'
  BY <1>5 DEF IInv, TypeOK, OnlyMainBuilds,
              OthersWait, ReadersSawFlag, KeysSawFlag, FlagMeansFilled, tables, Before
<1>6. ASSUME NEW t \in Threads, SetKey(t) PROVE IInv'
  <2> /\ ret \in [Threads -> {<<>>, <<0>>, <<-1>>}]
      /\ pc \in [Threads -> {"idle"} \cup Building \cup Reading]
      /\ \A u \in Threads : ret[u] = <<0>> \/ pc[u] \in Reading => aes_tables_inited
    BY DEF IInv, TypeOK, ReadersSawFlag, KeysSawFlag
  <2>1. ASSUME NEW s \in Setups, RefuseKey(t, s) PROVE IInv'
    BY <1>5, <2>1 DEF RefuseKey, Idle
  <2>2. ASSUME NEW s \in Setups, AcceptKey(t, s) PROVE IInv'
    BY <1>5, <2>2 DEF AcceptKey, Idle, Goes
  <2>3. CASE Expand(t)
    BY <1>5, <2>3 DEF Expand, Goes
  <2>4. CASE MakeTables(t)
    BY <1>5, <2>4 DEF MakeTables, Goes
  <2> QED
    BY <1>6, <2>1, <2>2, <2>3, <2>4 DEF SetKey
<1>7. ASSUME NEW t \in Threads, UseKey(t) PROVE IInv'
  <2> /\ ret \in [Threads -> {<<>>, <<0>>, <<-1>>}]
      /\ pc \in [Threads -> {"idle"} \cup Building \cup Reading]
      /\ \A u \in Threads : ret[u] = <<0>> \/ pc[u] \in Reading => aes_tables_inited
    BY DEF IInv, TypeOK, ReadersSawFlag, KeysSawFlag
  <2>1. ASSUME NEW w \in Works, StartCipher(t, w) PROVE IInv'
    BY <1>5, <2>1 DEF StartCipher, Begins, Idle, Goes
  <2>2. ASSUME NEW w \in Works, NEW name, NEW outcome, Does(t, w, name, outcome)
        PROVE IInv'
    BY <1>5, <2>2 DEF Does, Begins, Idle
  <2>3. CASE Cipher(t)
    BY <1>5, <2>3 DEF Cipher, Goes
  <2> QED
    BY <1>7, <2>1, <2>2, <2>3 DEF UseKey, Avx2, Vtype, Multiply
<1>8. CASE UNCHANGED vars
  BY <1>8 DEF vars, IInv, TypeOK, OnlyMainBuilds, OthersWait, ReadersSawFlag,
              KeysSawFlag, FlagMeansFilled, Before
<1> QED
  BY <1>1, <1>2, <1>3, <1>4, <1>6, <1>7, <1>8 DEF Next, Initialize

LEMMA AlwaysIInv == Spec => []IInv
BY InitIInv, StepIInv, PTL DEF Spec

\* Types: flags, program counters and answers stay what they are.
THEOREM TypeCorrect == Spec => []TypeOK
<1>1. IInv => TypeOK
  BY DEF IInv
<1> QED
  BY <1>1, AlwaysIInv, PTL

\* No thread fills the static tables of aes.c while another reads or fills
\* them, for any number of threads and without a lock.
THEOREM Exclusion == Spec => []NoWriterBesideReader
<1>1. IInv => NoWriterBesideReader
  BY DEF IInv, OnlyMainBuilds, ReadersSawFlag, NoWriterBesideReader
<1> QED
  BY <1>1, AlwaysIInv, PTL

\* The flag is up only when the three loops have run, and whoever reads the
\* tables finds them as these leave them.
THEOREM TablesComplete == Spec => []ReadersFindTables
<1>1. IInv => ReadersFindTables
  BY DEF IInv, ReadersSawFlag, FlagMeansFilled, ReadersFindTables
<1> QED
  BY <1>1, AlwaysIInv, PTL

-----------------------------------------------------------------------------

(***************************************************************************)
(* What a thread has of its own, in terms of the values alone: d says how  *)
(* the library was built, at is where the thread stands, c its context, s  *)
(* its set-up, r the answer, w its work and o the outcome.                 *)
(***************************************************************************)
IsCtx(c) == c = [mode |-> c.mode, rounds |-> c.rounds, rk |-> c.rk, H |-> c.H]

Schedule(d, s, n) ==
  IF d /\ s.mode = "DECRYPT" THEN aes_set_decryption_key(Tables, s.key, n)
  ELSE aes_set_encryption_key(Tables, s.key, n)
Ciphered(d, c, b) ==
  aes_cipher(Tables, IF d /\ c.mode = "DECRYPT" THEN "DECRYPT" ELSE "ENCRYPT", c.rk, c.rounds, b)

TakenFor(c, s) ==
  /\ s \in Setups /\ rounds_of(s.key) # 0
  /\ c.mode = s.mode /\ c.rounds = rounds_of(s.key)
ScheduledFor(d, c, s) == TakenFor(c, s) /\ c.rk = Schedule(d, s, c.rounds)
HashFor(d, c, s) == s.call = "gcm_setkey" => c.H = mult_tables(Ciphered(d, c, Zeros))

Worked(d, c, s, w, o) ==
  /\ w.call = "aes_cipher" => o = Ciphered(d, c, w.bytes)
  /\ w.call = "aes_cipher_avx2" =>
       c.mode = "ENCRYPT" /\ o = aes_cipher_avx2(c.rk, c.rounds, w.bytes)
  /\ w.call = "gcm_mult" => s.call = "gcm_setkey" /\ o = gcm_mult(c.H, w.bytes)

KeyGood(d, at, c, s, r) ==
  /\ IsCtx(c)
  /\ at = "expand" => TakenFor(c, s)
  /\ at = "zero" \/ r = <<0>> => ScheduledFor(d, c, s)
  /\ at \in {"expand", "zero"} => r = <<>>
  /\ r = <<0>> => HashFor(d, c, s)
WorkGood(d, at, c, s, r, w, o) ==
  /\ at \in {"expand", "zero"} => w = Nothing
  /\ w.call # "none" => w \in Works /\ r = <<0>>
  /\ at = "cipher" => w.call = "aes_cipher"
  /\ at # "cipher" => Worked(d, c, s, w, o)

Good(t) ==
  /\ KeyGood(decryption, pc[t], ctx[t], setup[t], ret[t])
  /\ WorkGood(decryption, pc[t], ctx[t], setup[t], ret[t], work[t], output[t])

Locals == /\ DOMAIN ctx = Threads /\ DOMAIN setup = Threads /\ DOMAIN work = Threads
          /\ DOMAIN output = Threads
          /\ decryption \in BOOLEAN
LInv == Locals /\ \A t \in Threads : Good(t)

LEMMA NothingDone ==
  ASSUME NEW d, NEW c, NEW s, NEW o
  PROVE  Worked(d, c, s, Nothing, o) /\ Nothing.call = "none"
  BY DEF Worked, Nothing

LEMMA Distinct == <<>> # <<0>> /\ <<>> # <<-1>> /\ <<0>> # <<-1>>
<1>1. <<>> # <<0>> /\ <<>> # <<-1>>
  OBVIOUS
<1>2. <<0>>[1] = 0 /\ <<-1>>[1] = -1 /\ 0 # -1
  OBVIOUS
<1> QED
  BY <1>1, <1>2

LEMMA InitLInv == Init => LInv
<1> SUFFICES ASSUME Init PROVE LInv
  OBVIOUS
<1>1. Locals
  BY DEF Init, Locals
<1>2. ASSUME NEW t \in Threads PROVE Good(t)
  <2>1. pc[t] = "idle" /\ ctx[t] = ZeroCtx /\ ret[t] = <<>> /\ work[t] = Nothing
    BY DEF Init
  <2>2. KeyGood(decryption, pc[t], ctx[t], setup[t], ret[t])
    BY <2>1, Distinct DEF KeyGood, IsCtx, ZeroCtx
  <2>3. WorkGood(decryption, pc[t], ctx[t], setup[t], ret[t], work[t], output[t])
    BY <2>1, NothingDone DEF WorkGood
  <2> QED
    BY <2>2, <2>3 DEF Good
<1> QED
  BY <1>1, <1>2 DEF LInv

\* When a thread reads the tables, what it computes is what Tables give.
LEMMA ReadersCompute ==
  ASSUME IInv, NEW t \in Threads, pc[t] \in Reading \/ Took(ret, t)
  PROVE  /\ done = Loops
         /\ \A s, n : schedule(arrays(done), s, n) = Schedule(decryption, s, n)
         /\ \A b : cipher(t, b) = Ciphered(decryption, ctx[t], b)
<1>1. done = Loops
  BY DEF IInv, ReadersSawFlag, KeysSawFlag, FlagMeansFilled, Took
<1> QED
  BY <1>1 DEF schedule, Schedule, cipher, Ciphered, decrypts, Tables

\* A step of thread t: all others keep what they have.
OthersStay(t) ==
  \A u \in Threads \ {t} :
    /\ pc'[u] = pc[u] /\ ctx'[u] = ctx[u] /\ setup'[u] = setup[u] /\ ret'[u] = ret[u]
    /\ work'[u] = work[u] /\ output'[u] = output[u]

LEMMA StepOfOne ==
  ASSUME LInv, NEW t \in Threads, OthersStay(t), Locals', decryption' = decryption,
         KeyGood(decryption, pc'[t], ctx'[t], setup'[t], ret'[t]),
         WorkGood(decryption, pc'[t], ctx'[t], setup'[t], ret'[t], work'[t], output'[t])
  PROVE  LInv'
<1>1. ASSUME NEW u \in Threads PROVE Good(u)'
  <2>1. CASE u = t
    BY <2>1 DEF Good
  <2>2. CASE u # t
    <3>1. pc'[u] = pc[u] /\ ctx'[u] = ctx[u] /\ setup'[u] = setup[u] /\ ret'[u] = ret[u]
          /\ work'[u] = work[u] /\ output'[u] = output[u]
      BY <2>2 DEF OthersStay
    <3>2. Good(u)
      BY DEF LInv
    <3> QED
      BY <3>1, <3>2 DEF Good
  <2> QED
    BY <2>1, <2>2
<1> QED
  BY <1>1 DEF LInv

-----------------------------------------------------------------------------
(***************************************************************************)
(* Every step keeps what the threads have.                                 *)
(***************************************************************************)

\* A context with some of its fields set.
LEMMA CtxWithMode ==
  ASSUME NEW c, IsCtx(c), NEW x, NEW e, e = [c EXCEPT !.mode = x]
  PROVE  IsCtx(e) /\ e.mode = x /\ e.rounds = c.rounds /\ e.rk = c.rk /\ e.H = c.H
<1>1. PICK m, n, k, h : c = [mode |-> m, rounds |-> n, rk |-> k, H |-> h]
  BY DEF IsCtx
<1>2. e = [mode |-> x, rounds |-> n, rk |-> k, H |-> h]
  BY <1>1
<1> QED
  BY <1>1, <1>2 DEF IsCtx

WithRounds(e, c, x, y) == e = [c EXCEPT !.mode = x, !.rounds = y]
LEMMA CtxWithRounds ==
  ASSUME NEW c, IsCtx(c), NEW x, NEW y, NEW e, WithRounds(e, c, x, y)
  PROVE  IsCtx(e) /\ e.mode = x /\ e.rounds = y /\ e.rk = c.rk /\ e.H = c.H
<1>1. PICK m, n, k, h : c = [mode |-> m, rounds |-> n, rk |-> k, H |-> h]
  BY DEF IsCtx
<1>2. e = [mode |-> x, rounds |-> y, rk |-> k, H |-> h]
  BY <1>1 DEF WithRounds
<1> QED
  BY <1>1, <1>2 DEF IsCtx

LEMMA CtxWithKeys ==
  ASSUME NEW c, IsCtx(c), NEW x, NEW e, e = [c EXCEPT !.rk = x]
  PROVE  IsCtx(e) /\ e.mode = c.mode /\ e.rounds = c.rounds /\ e.rk = x /\ e.H = c.H
<1>1. PICK m, n, k, h : c = [mode |-> m, rounds |-> n, rk |-> k, H |-> h]
  BY DEF IsCtx
<1>2. e = [mode |-> m, rounds |-> n, rk |-> x, H |-> h]
  BY <1>1
<1> QED
  BY <1>1, <1>2 DEF IsCtx

LEMMA CtxWithProducts ==
  ASSUME NEW c, IsCtx(c), NEW x, NEW e, e = [c EXCEPT !.H = x]
  PROVE  IsCtx(e) /\ e.mode = c.mode /\ e.rounds = c.rounds /\ e.rk = c.rk /\ e.H = x
<1>1. PICK m, n, k, h : c = [mode |-> m, rounds |-> n, rk |-> k, H |-> h]
  BY DEF IsCtx
<1>2. e = [mode |-> m, rounds |-> n, rk |-> k, H |-> x]
  BY <1>1
<1> QED
  BY <1>1, <1>2 DEF IsCtx

LEMMA ClearedCtx ==
  ASSUME NEW t, NEW s, IsCtx(ctx[t])
  PROVE  IsCtx(cleared(t, s))
  BY DEF cleared, IsCtx, ZeroCtx

LEMMA StepRefuse ==
  ASSUME IInv, LInv, NEW t \in Threads, NEW s \in Setups, RefuseKey(t, s)
  PROVE  LInv'
<1>1. /\ Locals /\ Good(t) /\ pc[t] = "idle"
      /\ pc \in [Threads -> {"idle"} \cup Building \cup Reading]
      /\ ret \in [Threads -> Answers]
  BY DEF LInv, IInv, TypeOK, Answers, RefuseKey, Idle
<1>2. OthersStay(t) /\ Locals' /\ decryption' = decryption
  BY <1>1 DEF RefuseKey, OthersStay, Locals
<1>3. pc'[t] = "idle" /\ ret'[t] = <<-1>> /\ work'[t] = Nothing
  BY <1>1 DEF RefuseKey, Locals
<1>4. IsCtx(ctx'[t])
  <2>1. IsCtx(cleared(t, s))
    BY <1>1, ClearedCtx DEF Good, KeyGood
  <2>2. IsCtx([cleared(t, s) EXCEPT !.mode = s.mode])
    BY <2>1, CtxWithMode
  <2>3. \/ ctx'[t] = cleared(t, s)
        \/ ctx'[t] = [cleared(t, s) EXCEPT !.mode = s.mode]
    BY <1>1 DEF RefuseKey, Locals
  <2> QED
    BY <2>1, <2>2, <2>3
<1>5. KeyGood(decryption, pc'[t], ctx'[t], setup'[t], ret'[t])
  BY <1>3, <1>4, Distinct DEF KeyGood
<1>6. WorkGood(decryption, pc'[t], ctx'[t], setup'[t], ret'[t], work'[t], output'[t])
  BY <1>3, NothingDone DEF WorkGood
<1> QED
  BY <1>2, <1>5, <1>6, StepOfOne

LEMMA StepAccept ==
  ASSUME IInv, LInv, NEW t \in Threads, NEW s \in Setups, AcceptKey(t, s)
  PROVE  LInv'
<1>1. /\ Locals /\ Good(t)
      /\ pc \in [Threads -> {"idle"} \cup Building \cup Reading]
      /\ ret \in [Threads -> Answers]
  BY DEF LInv, IInv, TypeOK, Answers
<1>2. OthersStay(t) /\ Locals' /\ decryption' = decryption
  BY <1>1 DEF AcceptKey, Goes, OthersStay, Locals
<1>3. pc'[t] = "expand" /\ ret'[t] = <<>> /\ work'[t] = Nothing /\ setup'[t] = s
      /\ rounds_of(s.key) # 0
  BY <1>1 DEF AcceptKey, Goes, Locals
<1>4. IsCtx(ctx'[t]) /\ ctx'[t].mode = s.mode /\ ctx'[t].rounds = rounds_of(s.key)
  <2>1. IsCtx(cleared(t, s))
    BY <1>1, ClearedCtx DEF Good, KeyGood
  <2>2. ctx'[t] = [cleared(t, s) EXCEPT !.mode = s.mode, !.rounds = rounds_of(s.key)]
    BY <1>1 DEF AcceptKey, Locals
  <2> DEFINE c == cleared(t, s)
             e == ctx'[t]
             m == s.mode
             n == rounds_of(s.key)
  <2> HIDE DEF c, e, m, n
  <2>3. IsCtx(c) /\ WithRounds(e, c, m, n)
    BY <2>1, <2>2 DEF c, e, m, n, WithRounds
  <2>4. IsCtx(e) /\ e.mode = m /\ e.rounds = n
    BY <2>3, CtxWithRounds
  <2> QED
    BY <2>4 DEF e, m, n
<1>5. KeyGood(decryption, pc'[t], ctx'[t], setup'[t], ret'[t])
  BY <1>3, <1>4, Distinct DEF KeyGood, TakenFor
<1>6. WorkGood(decryption, pc'[t], ctx'[t], setup'[t], ret'[t], work'[t], output'[t])
  BY <1>3, NothingDone DEF WorkGood
<1> QED
  BY <1>2, <1>5, <1>6, StepOfOne

LEMMA StepExpand ==
  ASSUME IInv, LInv, NEW t \in Threads, Expand(t)
  PROVE  LInv'
<1> DEFINE gcm == setup[t].call = "gcm_setkey"
           k == schedule(arrays(done), setup[t], ctx[t].rounds)
<1>1. /\ Locals /\ Good(t) /\ pc[t] = "expand"
      /\ pc \in [Threads -> {"idle"} \cup Building \cup Reading]
      /\ ret \in [Threads -> Answers]
  BY DEF LInv, IInv, TypeOK, Answers, Expand, Goes
<1>2. OthersStay(t) /\ Locals' /\ decryption' = decryption
  BY <1>1 DEF Expand, Goes, OthersStay, Locals
<1>3. /\ pc'[t] = (IF gcm THEN "zero" ELSE "idle")
      /\ ret'[t] = (IF gcm THEN ret[t] ELSE <<0>>)
      /\ ctx'[t] = [ctx[t] EXCEPT !.rk = k]
      /\ setup'[t] = setup[t] /\ work'[t] = work[t] /\ output'[t] = output[t]
  BY <1>1 DEF Expand, Goes, Locals
<1>4. k = Schedule(decryption, setup[t], ctx[t].rounds)
  BY <1>1, ReadersCompute DEF Reading, Took
<1> HIDE DEF k
<1>5. /\ IsCtx(ctx[t]) /\ TakenFor(ctx[t], setup[t]) /\ ret[t] = <<>> /\ work[t] = Nothing
  BY <1>1 DEF Good, KeyGood, WorkGood
<1>6. IsCtx(ctx'[t]) /\ ScheduledFor(decryption, ctx'[t], setup[t])
  <2> DEFINE c == ctx[t]
             e == ctx'[t]
  <2> HIDE DEF c, e
  <2>0. IsCtx(c) /\ e = [c EXCEPT !.rk = k]
    BY <1>3, <1>5 DEF c, e
  <2>1. IsCtx(e) /\ e.mode = c.mode /\ e.rounds = c.rounds /\ e.rk = k
    BY <2>0, CtxWithKeys
  <2> QED
    BY <2>1, <1>4, <1>5 DEF ScheduledFor, TakenFor, c, e
<1>7. KeyGood(decryption, pc'[t], ctx'[t], setup'[t], ret'[t])
  <2>1. CASE gcm
    BY <1>3, <1>5, <1>6, <2>1, Distinct DEF KeyGood
  <2>2. CASE ~gcm
    BY <1>3, <1>5, <1>6, <2>2 DEF KeyGood, HashFor
  <2> QED
    BY <2>1, <2>2
<1>8. WorkGood(decryption, pc'[t], ctx'[t], setup'[t], ret'[t], work'[t], output'[t])
  BY <1>3, <1>5, NothingDone DEF WorkGood
<1> QED
  BY <1>2, <1>7, <1>8, StepOfOne

LEMMA StepMakeTables ==
  ASSUME IInv, LInv, NEW t \in Threads, MakeTables(t)
  PROVE  LInv'
<1> DEFINE h == mult_tables(cipher(t, Zeros))
<1>1. /\ Locals /\ Good(t) /\ pc[t] = "zero"
      /\ pc \in [Threads -> {"idle"} \cup Building \cup Reading]
      /\ ret \in [Threads -> Answers]
  BY DEF LInv, IInv, TypeOK, Answers, MakeTables, Goes
<1>2. OthersStay(t) /\ Locals' /\ decryption' = decryption
  BY <1>1 DEF MakeTables, Goes, OthersStay, Locals
<1>3. /\ pc'[t] = "idle" /\ ret'[t] = <<0>> /\ ctx'[t] = [ctx[t] EXCEPT !.H = h]
      /\ setup'[t] = setup[t] /\ work'[t] = work[t] /\ output'[t] = output[t]
  BY <1>1 DEF MakeTables, Goes, Locals
<1>4. h = mult_tables(Ciphered(decryption, ctx[t], Zeros))
  BY <1>1, ReadersCompute DEF Reading, Took
<1> HIDE DEF h
<1>5. IsCtx(ctx[t]) /\ ScheduledFor(decryption, ctx[t], setup[t]) /\ work[t] = Nothing
  BY <1>1 DEF Good, KeyGood, WorkGood
<1>6. /\ IsCtx(ctx'[t]) /\ ctx'[t].mode = ctx[t].mode /\ ctx'[t].rounds = ctx[t].rounds
      /\ ctx'[t].rk = ctx[t].rk /\ ctx'[t].H = h
  BY <1>3, <1>5, CtxWithProducts
<1>7. ScheduledFor(decryption, ctx'[t], setup[t]) /\ HashFor(decryption, ctx'[t], setup[t])
  BY <1>4, <1>5, <1>6 DEF ScheduledFor, TakenFor, HashFor, Ciphered
<1>8. KeyGood(decryption, pc'[t], ctx'[t], setup'[t], ret'[t])
  BY <1>3, <1>6, <1>7 DEF KeyGood
<1>9. WorkGood(decryption, pc'[t], ctx'[t], setup'[t], ret'[t], work'[t], output'[t])
  BY <1>3, <1>5, NothingDone DEF WorkGood
<1> QED
  BY <1>2, <1>8, <1>9, StepOfOne

\* Work that is done at once, or begun.
LEMMA StepBegins ==
  ASSUME IInv, LInv, NEW t \in Threads, NEW w \in Works, NEW name, Begins(t, w, name),
         name # "none", name # "none" => pc'[t] = "cipher" \/ Worked(decryption, ctx[t], setup[t], w, output'[t]),
         pc'[t] \in {"idle", "cipher"}, pc'[t] = "cipher" => name = "aes_cipher",
         OthersStay(t), Locals',
         UNCHANGED <<decryption, ctx, setup, ret>>
  PROVE  LInv'
<1>1. Locals /\ Good(t) /\ ret[t] = <<0>> /\ w.call = name
  BY DEF LInv, Begins
<1>2. work'[t] = w /\ ctx'[t] = ctx[t] /\ setup'[t] = setup[t] /\ ret'[t] = ret[t]
  BY <1>1 DEF Begins, Locals
<1>3. KeyGood(decryption, pc'[t], ctx'[t], setup'[t], ret'[t])
  BY <1>1, <1>2 DEF Good, KeyGood
<1>4. WorkGood(decryption, pc'[t], ctx'[t], setup'[t], ret'[t], work'[t], output'[t])
  BY <1>1, <1>2 DEF WorkGood
<1> QED
  BY <1>3, <1>4, StepOfOne

LEMMA StepUse ==
  ASSUME IInv, LInv, NEW t \in Threads, UseKey(t)
  PROVE  LInv'
<1>1. /\ Locals /\ Good(t)
      /\ pc \in [Threads -> {"idle"} \cup Building \cup Reading]
      /\ ret \in [Threads -> Answers]
  BY DEF LInv, IInv, TypeOK, Answers
<1>2. ASSUME NEW w \in Works, StartCipher(t, w) PROVE LInv'
  <2>1. OthersStay(t) /\ Locals' /\ UNCHANGED <<decryption, ctx, setup, ret>>
    BY <1>1, <1>2 DEF StartCipher, Begins, Goes, OthersStay, Locals
  <2>2. pc'[t] = "cipher" /\ Begins(t, w, "aes_cipher")
    BY <1>1, <1>2 DEF StartCipher, Goes
  <2> QED
    BY <2>1, <2>2, StepBegins
<1>3. ASSUME NEW w \in Works, NEW name, name # "none", NEW x, Does(t, w, name, x),
             w.call = name => Worked(decryption, ctx[t], setup[t], w, x)
      PROVE LInv'
  <2>1. OthersStay(t) /\ Locals' /\ UNCHANGED <<decryption, ctx, setup, ret>>
    BY <1>1, <1>3 DEF Does, Begins, OthersStay, Locals
  <2>2. Begins(t, w, name) /\ pc'[t] = "idle" /\ output'[t] = x /\ w.call = name
    BY <1>1, <1>3 DEF Does, Begins, Idle, Locals
  <2>3. pc'[t] \in {"idle", "cipher"} /\ (pc'[t] = "cipher" => name = "aes_cipher")
    BY <2>2
  <2>4. Worked(decryption, ctx[t], setup[t], w, output'[t])
    BY <1>3, <2>2
  <2> QED
    BY <1>3, <2>1, <2>2, <2>3, <2>4, StepBegins
<1>4. ASSUME NEW w \in Works, Avx2(t, w) PROVE LInv'
  BY <1>3, <1>4 DEF Avx2, Worked
<1>5. ASSUME NEW w \in Works, Vtype(t, w) PROVE LInv'
  BY <1>3, <1>5 DEF Vtype, Worked
<1>6. ASSUME NEW w \in Works, Multiply(t, w) PROVE LInv'
  BY <1>3, <1>6 DEF Multiply, Worked
<1>7. CASE Cipher(t)
  <2>1. OthersStay(t) /\ Locals' /\ decryption' = decryption
    BY <1>1, <1>7 DEF Cipher, Goes, OthersStay, Locals
  <2>2. /\ pc[t] = "cipher" /\ pc'[t] = "idle" /\ output'[t] = cipher(t, work[t].bytes)
        /\ ctx'[t] = ctx[t] /\ setup'[t] = setup[t] /\ ret'[t] = ret[t] /\ work'[t] = work[t]
    BY <1>1, <1>7 DEF Cipher, Goes, Locals
  <2>3. output'[t] = Ciphered(decryption, ctx[t], work[t].bytes)
    BY <2>2, ReadersCompute DEF Reading, Took
  <2>4. work[t].call = "aes_cipher" /\ work[t] \in Works /\ ret[t] = <<0>>
    BY <1>1, <2>2 DEF Good, WorkGood
  <2>5. KeyGood(decryption, pc'[t], ctx'[t], setup'[t], ret'[t])
    BY <1>1, <2>2, <2>4 DEF Good, KeyGood
  <2>6. WorkGood(decryption, pc'[t], ctx'[t], setup'[t], ret'[t], work'[t], output'[t])
    BY <2>2, <2>3, <2>4 DEF WorkGood, Worked
  <2> QED
    BY <2>1, <2>5, <2>6, StepOfOne
<1> QED
  BY <1>2, <1>4, <1>5, <1>6, <1>7 DEF UseKey

LEMMA StepInitialize ==
  ASSUME IInv, LInv, NEW t \in Threads, Initialize(t)
  PROVE  LInv'
<1>1. /\ Locals /\ Good(t)
      /\ pc \in [Threads -> {"idle"} \cup Building \cup Reading]
  BY DEF LInv, IInv, TypeOK
<1>2. /\ UNCHANGED <<decryption, ctx, setup, ret, work, output>>
      /\ pc[t] \notin Reading
      /\ \E to \in {"idle"} \cup Building : pc' = [pc EXCEPT ![t] = to]
  <2>1. CASE gcm_initialize(t)
    BY <2>1 DEF gcm_initialize, Goes, after_flag, local, Building, Reading
  <2>2. ASSUME NEW loop \in Loops, Fill(t, loop)
        PROVE /\ UNCHANGED <<decryption, ctx, setup, ret, work, output>>
              /\ pc[t] \notin Reading
              /\ \E to \in {"idle"} \cup Building : pc' = [pc EXCEPT ![t] = to]
    <3>1. Following[loop] \in Building /\ loop \notin Reading
      BY <2>2 DEF Following, Loops, Building, Reading
    <3> QED
      BY <2>2, <3>1 DEF Fill, Goes, local
  <2>3. CASE SetFlag(t)
    BY <2>3 DEF SetFlag, Goes, local, Building, Reading
  <2> QED
    BY <2>1, <2>2, <2>3 DEF Initialize
<1>3. OthersStay(t) /\ Locals'
  BY <1>1, <1>2 DEF OthersStay, Locals
<1>4. pc'[t] \notin Reading /\ ctx'[t] = ctx[t] /\ setup'[t] = setup[t] /\ ret'[t] = ret[t]
      /\ work'[t] = work[t] /\ output'[t] = output[t]
  BY <1>1, <1>2 DEF Building, Reading
<1>5. KeyGood(decryption, pc'[t], ctx'[t], setup'[t], ret'[t])
  BY <1>1, <1>4 DEF Good, KeyGood, Reading
<1>6. WorkGood(decryption, pc'[t], ctx'[t], setup'[t], ret'[t], work'[t], output'[t])
  BY <1>1, <1>2, <1>4 DEF Good, WorkGood, Reading
<1> QED
  BY <1>2, <1>3, <1>5, <1>6, StepOfOne

LEMMA StepLInv == IInv /\ LInv /\ [Next]_vars => LInv'
<1> SUFFICES ASSUME IInv, LInv, [Next]_vars PROVE LInv'
  OBVIOUS
<1>1. CASE StartThreads \/ UNCHANGED vars
  <2>1. UNCHANGED <<decryption, pc, ctx, setup, ret, work, output>>
    BY <1>1 DEF StartThreads, local, vars
  <2> QED
    BY <2>1 DEF LInv, Locals, Good
<1>2. ASSUME NEW t \in Threads, SetKey(t) PROVE LInv'
  BY <1>2, StepRefuse, StepAccept, StepExpand, StepMakeTables DEF SetKey
<1> QED
  BY <1>1, <1>2, StepUse, StepInitialize DEF Next

LEMMA AlwaysLInv == Spec => [](IInv /\ LInv)
<1>1. Init => IInv /\ LInv
  BY InitIInv, InitLInv
<1>2. (IInv /\ LInv) /\ [Next]_vars => (IInv /\ LInv)'
  BY StepIInv, StepLInv
<1> QED
  BY <1>1, <1>2, PTL DEF Spec

-----------------------------------------------------------------------------
(***************************************************************************)
(* The schedules and the ciphers of the threads.                           *)
(***************************************************************************)

\* The round keys of a context are those of FIPS 197 for the key that was set,
\* forwards, or backwards to decrypt.
KeysAre(d, c, s) ==
  LET n == c.rounds
      m == 4 * (n + 1)
      w == F!KeyExpansion(s.key)
  IN  /\ n \in {10, 12, 14} /\ n = F!Rounds(s.key) /\ c.mode = s.mode
      /\ Expansion[s.key] = w
      /\ w \in Seq(Words4) /\ Len(w) = m
      /\ c.rk \in Seq(Words4) /\ m <= Len(c.rk) /\ Len(c.rk) <= 68
      /\ KeysFor(w, n) /\ KeysFor(c.rk, n)
      /\ IF d /\ s.mode = "DECRYPT" THEN Backwards(c.rk, w, n)
         ELSE \A k \in 1..m : w[k] = c.rk[k]

LEMMA SizesOfKeys ==
  ASSUME NEW s \in Setups, rounds_of(s.key) # 0
  PROVE  /\ \E nk : IsKey(s.key, nk) /\ rounds_of(s.key) = nk + 6
         /\ Expansion[s.key] = F!KeyExpansion(s.key)
<1>1. s.key \in Seq(Byte) /\ Len(s.key) \in Nat
  BY SetupsAssumption
<1>2. /\ Len(s.key) = 16 \/ Len(s.key) = 24 \/ Len(s.key) = 32
      /\ Len(s.key) = 16 => rounds_of(s.key) = 10
      /\ Len(s.key) = 24 => rounds_of(s.key) = 12
      /\ Len(s.key) = 32 => rounds_of(s.key) = 14
  <2> DEFINE l == Len(s.key)
  <2>1. rounds_of(s.key) = CASE l = 16 -> 10 [] l = 24 -> 12 [] l = 32 -> 14 [] OTHER -> 0
    BY DEF rounds_of
  <2>2. l \in Nat
    BY <1>1
  <2> HIDE DEF l
  <2>3. l = 16 \/ l = 24 \/ l = 32
    BY <2>1, <2>2
  <2>4. /\ l = 16 => rounds_of(s.key) = 10
        /\ l = 24 => rounds_of(s.key) = 12
        /\ l = 32 => rounds_of(s.key) = 14
    BY <2>1, <2>2
  <2> QED
    BY <2>3, <2>4 DEF l
<1>3. Expansion[s.key] = F!KeyExpansion(s.key)
  <2>1. s.key \in {r.key : r \in {q \in Setups : rounds_of(q.key) # 0}}
    OBVIOUS
  <2> QED
    BY <2>1 DEF Expansion
<1>4. CASE Len(s.key) = 16
  <2>1. IsKey(s.key, 4) /\ rounds_of(s.key) = 4 + 6
    BY <1>1, <1>2, <1>4 DEF IsKey
  <2> QED
    BY <2>1, <1>3
<1>5. CASE Len(s.key) = 24
  <2>1. IsKey(s.key, 6) /\ rounds_of(s.key) = 6 + 6
    BY <1>1, <1>2, <1>5 DEF IsKey
  <2> QED
    BY <2>1, <1>3
<1>6. CASE Len(s.key) = 32
  <2>1. IsKey(s.key, 8) /\ rounds_of(s.key) = 8 + 6
    BY <1>1, <1>2, <1>6 DEF IsKey
  <2> QED
    BY <2>1, <1>3
<1> QED
  BY <1>2, <1>4, <1>5, <1>6

LEMMA ScheduledKeys ==
  ASSUME NEW d, NEW c, NEW s, ScheduledFor(d, c, s)
  PROVE  KeysAre(d, c, s)
<1> DEFINE n == c.rounds
           m == 4 * (n + 1)
           w == F!KeyExpansion(s.key)
<1>1. s \in Setups /\ rounds_of(s.key) # 0 /\ c.mode = s.mode /\ n = rounds_of(s.key)
  BY DEF ScheduledFor, TakenFor
<1>2. PICK nk : IsKey(s.key, nk) /\ n = nk + 6
  BY <1>1, SizesOfKeys
<1>3. Expansion[s.key] = w
  BY <1>1, SizesOfKeys
<1>4. n \in {10, 12, 14} /\ m = 4 * (nk + 7) /\ n \in Nat /\ m \in Nat /\ m <= 60
  BY <1>2 DEF IsKey
<1>5. n = F!Rounds(s.key)
  BY <1>2, FExpansionFollows
<1>6. w \in Seq(Words4) /\ Len(w) = m
  BY <1>2, <1>4, EncryptionKeyIs
<1>7. KeysFor(w, n)
  BY <1>4, <1>6, KeyWordsOf
<1>8. CASE d /\ s.mode = "DECRYPT"
  <2>1. c.rk = aes_set_decryption_key(Tables, s.key, n)
    BY <1>8 DEF ScheduledFor, Schedule
  <2>2. c.rk \in Seq(Words4) /\ Len(c.rk) = m /\ KeysFor(c.rk, n) /\ Backwards(c.rk, w, n)
    BY <1>2, <2>1, DecryptionKeyIs
  <2>3. m <= Len(c.rk) /\ Len(c.rk) <= 68
    BY <1>4, <2>2
  <2> QED
    BY <1>1, <1>3, <1>4, <1>5, <1>6, <1>7, <1>8, <2>2, <2>3 DEF KeysAre
<1>9. CASE ~ (d /\ s.mode = "DECRYPT")
  <2>1. c.rk = aes_set_encryption_key(Tables, s.key, nk + 6)
    BY <1>2, <1>9 DEF ScheduledFor, Schedule
  <2>2. /\ c.rk \in Seq(Words4) /\ Len(c.rk) <= 64 /\ m <= Len(c.rk)
        /\ \A k \in 1..m : w[k] = c.rk[k]
    BY <1>2, <1>4, <2>1, EncryptionKeyIs
  <2>3. Len(c.rk) <= 68
    BY <2>2
  <2>4. KeysFor(c.rk, n)
    BY <1>4, <2>2, KeyWordsOf
  <2> QED
    BY <1>1, <1>3, <1>4, <1>5, <1>6, <1>7, <1>9, <2>2, <2>3, <2>4 DEF KeysAre
<1> QED
  BY <1>8, <1>9

LEMMA AnsweredKeys ==
  ASSUME LInv, NEW t \in Threads, Took(ret, t)
  PROVE  KeysAre(decryption, ctx[t], setup[t])
<1>1. ScheduledFor(decryption, ctx[t], setup[t])
  BY DEF LInv, Good, KeyGood, Took
<1> QED
  BY <1>1, ScheduledKeys

LEMMA GroupsAre ==
  ASSUME NEW rk, NEW i \in Nat, IsState(KeyState(rk, i))
  PROVE  group(rk, i) = Flat(KeyState(rk, i))
<1> DEFINE Y == KeyState(rk, i)
<1>1. Y[1] \o Y[2] \o Y[3] \o Y[4] = Flat(Y)
  BY FlatIsBlock
<1> QED
  BY <1>1 DEF group, KeyState

LEMMA ScheduleFromKeys ==
  ASSUME NEW d, NEW c, NEW s, KeysAre(d, c, s)
  PROVE  LET rk == c.rk
             n  == c.rounds
             w  == Expansion[s.key]
         IN  /\ n = F!Rounds(s.key)
             /\ Len(rk) <= 68
             /\ IF d /\ s.mode = "DECRYPT"
                THEN \A i \in 0..n :
                       (IF i \in {0, n} THEN group(rk, i) ELSE F!MixColumns(group(rk, i)))
                         = group(w, n - i)
                ELSE SubSeq(rk, 1, 4 * (n + 1)) = w
<1> DEFINE rk == c.rk
           n == c.rounds
           m == 4 * (n + 1)
           w == F!KeyExpansion(s.key)
<1>1. /\ n \in {10, 12, 14} /\ n = F!Rounds(s.key) /\ Expansion[s.key] = w
      /\ w \in Seq(Words4) /\ Len(w) = m
      /\ rk \in Seq(Words4) /\ m <= Len(rk) /\ Len(rk) <= 68
      /\ KeysFor(w, n) /\ KeysFor(rk, n)
  BY DEF KeysAre
<1>2. CASE d /\ s.mode = "DECRYPT"
  <2>1. Backwards(rk, w, n)
    BY <1>2 DEF KeysAre
  <2>2. ASSUME NEW i \in 0..n
        PROVE (IF i \in {0, n} THEN group(rk, i) ELSE F!MixColumns(group(rk, i)))
                = group(w, n - i)
    <3> HIDE DEF rk, w
    <3>1. i \in Nat /\ n - i \in Nat /\ n - i \in 0..n
      BY <1>1
    <3>2. IsState(KeyState(rk, i)) /\ IsState(KeyState(w, n - i))
      BY <1>1, <3>1 DEF KeysFor
    <3>3. group(rk, i) = Flat(KeyState(rk, i))
      BY <3>1, <3>2, GroupsAre
    <3>4. group(w, n - i) = Flat(KeyState(w, n - i))
      BY <3>1, <3>2, GroupsAre
    <3>5. F!MixColumns(Flat(KeyState(rk, i))) = Flat(MixState(KeyState(rk, i)))
      BY <3>2, FMixColumns
    <3>6. CASE i \in {0, n}
      <4>1. KeyState(rk, i) = KeyState(w, n - i)
        <5>1. n - 0 = n /\ n - n = 0
          BY <1>1
        <5> QED
          BY <2>1, <3>6, <5>1 DEF Backwards
      <4> QED
        BY <3>3, <3>4, <3>6, <4>1
    <3>7. CASE i \notin {0, n}
      <4>1. i \in 1..(n-1)
        BY <1>1, <3>7
      <4>2. MixState(KeyState(rk, i)) = KeyState(w, n - i)
        BY <2>1, <4>1 DEF Backwards
      <4> QED
        BY <3>3, <3>4, <3>5, <3>7, <4>2
    <3> QED
      BY <3>6, <3>7
  <2> QED
    BY <1>1, <1>2, <2>2
<1>3. CASE ~ (d /\ s.mode = "DECRYPT")
  <2>1. \A k \in 1..m : w[k] = rk[k]
    BY <1>3 DEF KeysAre
  <2>2. SubSeq(rk, 1, m) = w
    <3> HIDE DEF rk, w
    <3>1. m \in Nat /\ 1 \in 1..(Len(rk) + 1) /\ m \in 0..Len(rk) /\ m - 1 + 1 = m
      BY <1>1
    <3>2. SubSeq(rk, 1, m) \in Seq(Words4)
      BY <1>1, <3>1, SubSeqProperties
    <3>3. Len(SubSeq(rk, 1, m)) = m
      BY <1>1, <3>1, SubSeqProperties
    <3>4. ASSUME NEW k \in 1..m PROVE SubSeq(rk, 1, m)[k] = w[k]
      <4>1. SubSeq(rk, 1, m)[k] = rk[k]
        BY <1>1, <3>1, <3>4, SubSeqProperties
      <4> QED
        BY <2>1, <4>1
    <3> HIDE DEF m
    <3> QED
      BY <1>1, <3>2, <3>3, <3>4, SeqEqual
  <2> QED
    BY <1>1, <1>3, <2>2
<1> QED
  BY <1>2, <1>3

-----------------------------------------------------------------------------
\* What aes_cipher makes under such round keys.
LEMMA CipheredIs ==
  ASSUME NEW d \in BOOLEAN, NEW c, NEW s, KeysAre(d, c, s), NEW b, IsBlock(b)
  PROVE  IF d /\ s.mode = "DECRYPT" THEN Ciphers(s.key, Ciphered(d, c, b)) = b
         ELSE Ciphered(d, c, b) = Ciphers(s.key, b)
<1> DEFINE rk == c.rk
           n == c.rounds
           m == 4 * (n + 1)
           w == F!KeyExpansion(s.key)
<1>1. /\ n \in {10, 12, 14} /\ n = F!Rounds(s.key) /\ Expansion[s.key] = w /\ c.mode = s.mode
      /\ KeysFor(w, n) /\ KeysFor(rk, n)
  BY DEF KeysAre
<1>2. \A x : Ciphers(s.key, x) = F!Cipher(w, n, x)
  BY <1>1 DEF Ciphers
<1>3. CASE d /\ s.mode = "DECRYPT"
  <2>1. Backwards(rk, w, n)
    BY <1>3 DEF KeysAre
  <2>2. Ciphered(d, c, b) = aes_cipher(Tables, "DECRYPT", rk, n, b)
    BY <1>1, <1>3 DEF Ciphered
  <2> HIDE DEF rk, w, n
  <2>3. F!Cipher(w, n, aes_cipher(Tables, "DECRYPT", rk, n, b)) = b
    BY <1>1, <2>1, Deciphers
  <2> QED
    BY <1>2, <1>3, <2>2, <2>3
<1>4. CASE ~ (d /\ s.mode = "DECRYPT")
  <2>1. \A k \in 1..m : w[k] = rk[k]
    BY <1>4 DEF KeysAre
  <2>2. Ciphered(d, c, b) = aes_cipher(Tables, "ENCRYPT", rk, n, b)
    BY <1>1, <1>4 DEF Ciphered
  <2>3. n \in Nat
    BY <1>1
  <2>4. m = 4 * (n + 1)
    OBVIOUS
  <2> HIDE DEF rk, w, n, m
  <2>5. SameKeys(w, rk, n)
    BY <2>1, <2>3, <2>4, SameWordsSameKeys
  <2>6. F!Cipher(w, n, b) = F!Cipher(rk, n, b)
    BY <1>1, <2>5, SameCipher
  <2>7. aes_cipher(Tables, "ENCRYPT", rk, n, b) = F!Cipher(rk, n, b)
    BY <1>1, Enciphers
  <2> QED
    BY <1>2, <1>4, <2>2, <2>6, <2>7
<1> QED
  BY <1>3, <1>4

LEMMA TwoBlocksAre ==
  ASSUME NEW d, NEW c, NEW s, KeysAre(d, c, s), c.mode = "ENCRYPT", NEW b, IsTwoBlocks(b)
  PROVE  aes_cipher_avx2(c.rk, c.rounds, b)
           = Ciphers(s.key, first_block(b)) \o Ciphers(s.key, second_block(b))
<1> DEFINE rk == c.rk
           n == c.rounds
           m == 4 * (n + 1)
           w == F!KeyExpansion(s.key)
<1>1. /\ n \in {10, 12, 14} /\ n = F!Rounds(s.key) /\ Expansion[s.key] = w /\ c.mode = s.mode
      /\ KeysFor(w, n) /\ KeysFor(rk, n)
  BY DEF KeysAre
<1>2. \A x : Ciphers(s.key, x) = F!Cipher(w, n, x)
  BY <1>1 DEF Ciphers
<1>3. \A k \in 1..m : w[k] = rk[k]
  BY <1>1 DEF KeysAre
<1>4. n \in Nat
  BY <1>1
<1>5. m = 4 * (n + 1)
  OBVIOUS
<1>6. IsBlock(first_block(b)) /\ IsBlock(second_block(b))
  BY BlocksOfTwo
<1> HIDE DEF rk, w, n, m
<1>7. SameKeys(w, rk, n)
  BY <1>3, <1>4, <1>5, SameWordsSameKeys
<1>8. /\ F!Cipher(w, n, first_block(b)) = F!Cipher(rk, n, first_block(b))
      /\ F!Cipher(w, n, second_block(b)) = F!Cipher(rk, n, second_block(b))
  BY <1>1, <1>6, <1>7, SameCipher
<1>9. aes_cipher_avx2(rk, n, b) = F!Cipher(rk, n, first_block(b)) \o F!Cipher(rk, n, second_block(b))
  BY <1>1, Avx2Is
<1> QED
  BY <1>2, <1>8, <1>9 DEF rk, n

\* A key that was taken has left its key schedule in the context, whatever other
\* threads do and however the library was built.
THEOREM ScheduleIsExpansionHolds == Spec => []ScheduleIsExpansion
<1>1. IInv /\ LInv => ScheduleIsExpansion
  <2> SUFFICES ASSUME LInv, NEW t \in Threads, Ready(t)
               PROVE  LET rk == ctx[t].rk
                          n  == ctx[t].rounds
                          w  == Expansion[setup[t].key]
                      IN  /\ n = F!Rounds(setup[t].key)
                          /\ Len(rk) <= 68
                          /\ IF decrypts(setup[t].mode)
                             THEN \A i \in 0..n :
                                    (IF i \in {0, n} THEN group(rk, i)
                                     ELSE F!MixColumns(group(rk, i))) = group(w, n - i)
                             ELSE SubSeq(rk, 1, 4 * (n + 1)) = w
    BY DEF ScheduleIsExpansion
  <2>1. KeysAre(decryption, ctx[t], setup[t])
    BY AnsweredKeys DEF Ready, Took
  <2> QED
    BY <2>1, ScheduleFromKeys DEF decrypts
<1> QED
  BY <1>1, AlwaysLInv, PTL

\* What a thread did last under a key that was taken.
LEMMA DidUnderKey ==
  ASSUME LInv, NEW t \in Threads, pc[t] = "idle", work[t].call # "none"
  PROVE  /\ KeysAre(decryption, ctx[t], setup[t])
         /\ work[t] \in Works
         /\ Worked(decryption, ctx[t], setup[t], work[t], output[t])
<1>1. /\ work[t] \in Works /\ ret[t] = <<0>>
      /\ Worked(decryption, ctx[t], setup[t], work[t], output[t])
  BY DEF LInv, Good, WorkGood
<1> QED
  BY <1>1, AnsweredKeys DEF Took

\* What aes_cipher wrote is the block enciphered, or deciphered, as FIPS 197 says
\* under the key the thread set last.
THEOREM CipherIsAesHolds == Spec => []CipherIsAes
<1>1. IInv /\ LInv => CipherIsAes
  <2> SUFFICES ASSUME LInv, NEW t \in Threads, Did(t, "aes_cipher")
               PROVE  IF decrypts(setup[t].mode)
                      THEN Ciphers(setup[t].key, output[t]) = work[t].bytes
                      ELSE output[t] = Ciphers(setup[t].key, work[t].bytes)
    BY DEF CipherIsAes
  <2>1. pc[t] = "idle" /\ work[t].call = "aes_cipher" /\ decryption \in BOOLEAN
    BY DEF Did, LInv, Locals
  <2>2. /\ KeysAre(decryption, ctx[t], setup[t]) /\ work[t] \in Works
        /\ output[t] = Ciphered(decryption, ctx[t], work[t].bytes)
    BY <2>1, DidUnderKey DEF Worked
  <2>3. IsBlock(work[t].bytes)
    BY <2>1, <2>2, WorksAssumption DEF IsBlock
  <2> QED
    BY <2>1, <2>2, <2>3, CipheredIs DEF decrypts
<1> QED
  BY <1>1, AlwaysLInv, PTL

\* What aes_cipher_avx2 wrote is both blocks enciphered under that key.
THEOREM Avx2IsTwoBlocksHolds == Spec => []Avx2IsTwoBlocks
<1>1. IInv /\ LInv => Avx2IsTwoBlocks
  <2> SUFFICES ASSUME LInv, NEW t \in Threads, Did(t, "aes_cipher_avx2")
               PROVE  BothBlocks(t)
    BY DEF Avx2IsTwoBlocks
  <2>1. pc[t] = "idle" /\ work[t].call = "aes_cipher_avx2"
    BY DEF Did
  <2>2. /\ KeysAre(decryption, ctx[t], setup[t]) /\ work[t] \in Works
        /\ ctx[t].mode = "ENCRYPT"
        /\ output[t] = aes_cipher_avx2(ctx[t].rk, ctx[t].rounds, work[t].bytes)
    BY <2>1, DidUnderKey DEF Worked
  <2>3. IsTwoBlocks(work[t].bytes)
    BY <2>1, <2>2, WorksAssumption DEF IsTwoBlocks
  <2> DEFINE c == ctx[t]
             s == setup[t]
             b == work[t].bytes
  <2> HIDE DEF c, s, b
  <2>4. KeysAre(decryption, c, s) /\ c.mode = "ENCRYPT" /\ IsTwoBlocks(b)
    BY <2>2, <2>3 DEF c, s, b
  <2>5. aes_cipher_avx2(c.rk, c.rounds, b)
          = Ciphers(s.key, first_block(b)) \o Ciphers(s.key, second_block(b))
    BY <2>4, TwoBlocksAre
  <2> QED
    BY <2>2, <2>5 DEF BothBlocks, c, s, b
<1> QED
  BY <1>1, AlwaysLInv, PTL

LEMMA BytesOfBlock ==
  ASSUME NEW b, IsBlock(b)
  PROVE  Bytes16(b)
<1>1. b \in Seq(Byte) /\ Len(b) = 16
  BY DEF IsBlock
<1>2. \A j \in 1..16 : b[j] \in Byte
  BY <1>1, ElementOfSeq
<1> QED
  BY <1>2 DEF Bytes16, Byte

LEMMA ZerosAreBlock == IsBlock(Zeros)
<1>1. Zeros \in [1..16 -> Byte]
  BY DEF Zeros, Byte
<1>2. Zeros \in Seq(Byte) /\ Len(Zeros) = 16
  BY <1>1 DEF Zeros
<1> QED
  BY <1>2 DEF IsBlock

\* The block the tables of products are made for, under the round keys of s.
LEMMA HashKeyIs ==
  ASSUME NEW d \in BOOLEAN, NEW c, NEW s \in Setups, KeysAre(d, c, s), s.call = "gcm_setkey"
  PROVE  /\ Ciphered(d, c, Zeros) = Ciphers(s.key, Zeros)
         /\ IsBlock(Ciphers(s.key, Zeros))
<1>1. s.mode = "ENCRYPT" /\ "ENCRYPT" # "DECRYPT"
  BY SetupsAssumption
<1>2. Ciphered(d, c, Zeros) = Ciphers(s.key, Zeros)
  BY <1>1, ZerosAreBlock, CipheredIs
<1> DEFINE n == c.rounds
           w == F!KeyExpansion(s.key)
<1>3. n \in {10, 12, 14} /\ n = F!Rounds(s.key) /\ Expansion[s.key] = w /\ KeysFor(w, n)
  BY DEF KeysAre
<1>4. Ciphers(s.key, Zeros) = F!Cipher(w, n, Zeros)
  BY <1>3 DEF Ciphers
<1> HIDE DEF n, w
<1>5. IsBlock(F!Cipher(w, n, Zeros))
  BY <1>3, ZerosAreBlock, Enciphers
<1> QED
  BY <1>2, <1>4, <1>5

\* What gcm_mult wrote, for any thread, is the product in the field of GCM by the
\* cipher of the block of zeros, under the key the thread set last.
THEOREM MultIsProductHolds == Spec => []MultIsProduct
<1>1. IInv /\ LInv => MultIsProduct
  <2> SUFFICES ASSUME LInv, NEW t \in Threads, Did(t, "gcm_mult")
               PROVE  Coefficients(output[t]) =
                        FieldProduct(Coefficients(work[t].bytes),
                                     Coefficients(Ciphers(setup[t].key, Zeros)))
    BY DEF MultIsProduct
  <2>1. pc[t] = "idle" /\ work[t].call = "gcm_mult" /\ decryption \in BOOLEAN
    BY DEF Did, LInv, Locals
  <2>2. /\ KeysAre(decryption, ctx[t], setup[t]) /\ work[t] \in Works
        /\ setup[t].call = "gcm_setkey"
        /\ output[t] = gcm_mult(ctx[t].H, work[t].bytes)
    BY <2>1, DidUnderKey DEF Worked
  <2>3. KeyGood(decryption, pc[t], ctx[t], setup[t], ret[t]) /\ ret[t] = <<0>>
    BY <2>1 DEF LInv, Good, WorkGood
  <2>4. setup[t] \in Setups /\ HashFor(decryption, ctx[t], setup[t])
    BY <2>3 DEF KeyGood, ScheduledFor, TakenFor
  <2> DEFINE c == ctx[t]
             s == setup[t]
             x == work[t].bytes
             h == Ciphers(s.key, Zeros)
  <2>5. IsBlock(x)
    BY <2>1, <2>2, WorksAssumption DEF IsBlock
  <2>6. KeysAre(decryption, c, s) /\ s \in Setups /\ s.call = "gcm_setkey"
        /\ HashFor(decryption, c, s) /\ output[t] = gcm_mult(c.H, x)
    BY <2>2, <2>4
  <2> HIDE DEF c, s, x, h
  <2>7. Ciphered(decryption, c, Zeros) = h /\ IsBlock(h)
    BY <2>1, <2>6, HashKeyIs DEF h
  <2>8. output[t] = gcm_mult(mult_tables(h), x)
    BY <2>6, <2>7 DEF HashFor
  <2>9. Coefficients(output[t]) = FieldProduct(Coefficients(x), Coefficients(h))
    BY <2>5, <2>7, <2>8, BytesOfBlock, ProductByTables
  <2> QED
    BY <2>9 DEF x, h, s
<1> QED
  BY <1>1, AlwaysLInv, PTL

=============================================================================
