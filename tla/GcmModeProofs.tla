--------------------------- MODULE GcmModeProofs ----------------------------
(***************************************************************************)
(* The calls of gcm.c compute Galois/counter mode: GcmCalls against        *)
(* GcmMode, for blocks and counters of any length, messages of any length  *)
(* and in any number of pieces.                                            *)
(***************************************************************************)
EXTENDS GcmMode, WellFoundedInduction, SequenceTheorems, TLAPS

(***************************************************************************)
(* Induction and recursion over 0..N.                                      *)
(***************************************************************************)
LEMMA LeastOf ==
  ASSUME NEW T, T \subseteq Nat, T # {}
  PROVE  \E x \in T : \A y \in T : x <= y
<1>1. PICK x \in T : \A y \in T : ~ (<<y, x>> \in OpToRel(<, Nat))
  BY NatLessThanWellFounded, WFMin
<1>2. ASSUME NEW y \in T PROVE x <= y
  <2>1. x \in Nat /\ y \in Nat
    OBVIOUS
  <2>2. ~ (<<y, x>> \in {ss \in Nat \X Nat : ss[1] < ss[2]})
    BY <1>1 DEF OpToRel
  <2>3. <<y, x>> \in Nat \X Nat
    BY <2>1
  <2> QED
    BY <2>1, <2>2, <2>3
<1> QED
  BY <1>2

LEMMA Induct ==
  ASSUME NEW N \in Nat, NEW S, 0 \in S,
         \A n \in 0..N : n < N /\ n \in S => n + 1 \in S
  PROVE  \A n \in 0..N : n \in S
<1> DEFINE Bad == {n \in 0..N : n \notin S}
<1> SUFFICES ASSUME Bad # {} PROVE FALSE
  OBVIOUS
<1>1. PICK n \in Bad : \A m \in Bad : n <= m
  <2>1. Bad \subseteq Nat
    OBVIOUS
  <2> QED
    BY <2>1, LeastOf
<1>2. n - 1 \in 0..N /\ n - 1 \notin Bad /\ n - 1 < N
  BY <1>1
<1> QED
  BY <1>2

\* f starts with b, and S takes the value at k - 1 to the value at k.
StepsOn(f, N, b, S) ==
  f = [k \in 0..N |-> IF k = 0 THEN b ELSE S[<<k, f[k-1]>>]]

LEMMA RecursionExists ==
  ASSUME NEW N \in Nat, NEW V, NEW b \in V, NEW S \in [(1..N) \X V -> V]
  PROVE  \E f \in [0..N -> V] : StepsOn(f, N, b, S)
<1> DEFINE Good == {n \in 0..N : \E f \in [0..n -> V] : StepsOn(f, n, b, S)}
<1>1. 0 \in Good
  <2>1. [k \in 0..0 |-> b] \in [0..0 -> V]
    OBVIOUS
  <2>2. StepsOn([k \in 0..0 |-> b], 0, b, S)
    BY DEF StepsOn
  <2> QED
    BY <2>1, <2>2
<1>2. ASSUME NEW n \in 0..N, n < N, n \in Good PROVE n + 1 \in Good
  <2>1. PICK f \in [0..n -> V] : StepsOn(f, n, b, S)
    BY <1>2
  <2> DEFINE g == [k \in 0..(n+1) |-> IF k = n + 1 THEN S[<<n + 1, f[n]>>]
                                      ELSE f[k]]
  <2>2. f[n] \in V /\ <<n + 1, f[n]>> \in (1..N) \X V
    BY <1>2
  <2>3. S[<<n + 1, f[n]>>] \in V
    BY <2>2
  <2>4. g \in [0..(n+1) -> V]
    BY <2>3
  <2>5. ASSUME NEW k \in 0..(n+1)
        PROVE  g[k] = IF k = 0 THEN b ELSE S[<<k, g[k-1]>>]
    <3>1. CASE k = n + 1
      <4>1. g[k-1] = f[n] /\ k # 0
        BY <3>1
      <4> QED
        BY <3>1, <4>1
    <3>2. CASE k # n + 1
      <4>1. k \in 0..n /\ g[k] = f[k]
        BY <3>2
      <4>2. k # 0 => g[k-1] = f[k-1]
        BY <3>2
      <4>3. f[k] = IF k = 0 THEN b ELSE S[<<k, f[k-1]>>]
        BY <2>1, <4>1 DEF StepsOn
      <4> QED
        BY <4>1, <4>2, <4>3
    <3> QED
      BY <3>1, <3>2
  <2>6. StepsOn(g, n + 1, b, S)
    <3>1. g = [k \in 0..(n+1) |-> g[k]]
      OBVIOUS
    <3> HIDE DEF g
    <3> QED
      BY <2>5, <3>1 DEF StepsOn
  <2>7. n + 1 \in 0..N
    BY <1>2
  <2> QED
    BY <2>4, <2>6, <2>7
<1>3. N \in Good
  <2> HIDE DEF Good
  <2>1. \A n \in 0..N : n \in Good
    BY <1>1, <1>2, Induct
  <2> QED
    BY <2>1
<1> QED
  BY <1>3

-----------------------------------------------------------------------------
(***************************************************************************)
(* The counter: adding one with carry is adding one.                       *)
(***************************************************************************)
CounterBytes == [1..CTR_LEN -> 0..(BYTE - 1)]

LEMMA CounterLength == CTR_LEN \in Nat \ {0}
  BY BlockAssumption DEF CTR_LEN

\* A remainder and a quotient are known when they fit.
LEMMA DivisionIs ==
  ASSUME NEW q \in Nat, NEW d \in Nat \ {0}, NEW r \in Nat, r < d
  PROVE  (q * d + r) \div d = q /\ (q * d + r) % d = r
<1> DEFINE n == q * d + r
<1>1. n \in Nat /\ n = d * (n \div d) + (n % d) /\ n % d \in 0..(d - 1)
      /\ n \div d \in Nat
  OBVIOUS
<1>2. n \div d = q
  <2>1. CASE n \div d < q
    <3>1. PICK e \in Nat : q = (n \div d) + 1 + e
      <4>1. q - (n \div d) - 1 \in Nat
        BY <1>1, <2>1
      <4> QED
        BY <4>1, <1>1
    <3>2. q * d = (n \div d) * d + d + e * d
      BY <3>1, <1>1
    <3>3. e * d \in Nat
      BY <3>1
    <3> QED
      BY <1>1, <3>2, <3>3
  <2>2. CASE n \div d > q
    <3>1. PICK e \in Nat : n \div d = q + 1 + e
      <4>1. (n \div d) - q - 1 \in Nat
        BY <1>1, <2>2
      <4> QED
        BY <4>1, <1>1
    <3>2. (n \div d) * d = q * d + d + e * d
      BY <3>1
    <3>3. e * d \in Nat
      BY <3>1
    <3> QED
      BY <1>1, <3>2, <3>3
  <2> QED
    BY <1>1, <2>1, <2>2
<1> QED
  BY <1>1, <1>2

LEMMA PlaceFacts ==
  /\ Place \in [0..CTR_LEN -> Nat]
  /\ Place[0] = 1
  /\ \A m \in 1..CTR_LEN : Place[m] = BYTE * Place[m-1]
<1> DEFINE S == [p \in (1..CTR_LEN) \X Nat |-> BYTE * p[2]]
<1>1. S \in [(1..CTR_LEN) \X Nat -> Nat]
  BY BlockAssumption
<1>2. PICK f \in [0..CTR_LEN -> Nat] : StepsOn(f, CTR_LEN, 1, S)
  <2> HIDE DEF S
  <2> QED
    BY <1>1, CounterLength, RecursionExists
<1>3. f = [m \in 0..CTR_LEN |-> IF m = 0 THEN 1 ELSE BYTE * f[m-1]]
  <2>1. ASSUME NEW m \in 0..CTR_LEN, m # 0
        PROVE  S[<<m, f[m-1]>>] = BYTE * f[m-1]
    <3>1. <<m, f[m-1]>> \in (1..CTR_LEN) \X Nat
      BY <2>1, CounterLength
    <3> QED
      BY <3>1
  <2> HIDE DEF S
  <2> QED
    BY <1>2, <2>1 DEF StepsOn
<1>4. Place = CHOOSE p : p = [m \in 0..CTR_LEN |->
                                 IF m = 0 THEN 1 ELSE BYTE * p[m-1]]
  BY DEF Place
<1>5. Place = [m \in 0..CTR_LEN |-> IF m = 0 THEN 1 ELSE BYTE * Place[m-1]]
  BY <1>3, <1>4, Zenon
<1>6. Place[0] = 1 /\ \A m \in 1..CTR_LEN : Place[m] = BYTE * Place[m-1]
  BY <1>5, CounterLength
<1>7. \A m \in 0..CTR_LEN : m \in {n \in 0..CTR_LEN : Place[n] \in Nat}
  <2> DEFINE T == {n \in 0..CTR_LEN : Place[n] \in Nat}
  <2>1. 0 \in T
    BY <1>6, CounterLength
  <2>2. ASSUME NEW n \in 0..CTR_LEN, n < CTR_LEN, n \in T PROVE n + 1 \in T
    BY <1>6, <2>2, CounterLength, BlockAssumption
  <2> HIDE DEF T
  <2>3. \A m \in 0..CTR_LEN : m \in T
    BY <2>1, <2>2, CounterLength, Induct
  <2> QED
    BY <2>3 DEF T
<1> QED
  BY <1>5, <1>6, <1>7

LEMMA PlacesGrow ==
  \A m \in 0..CTR_LEN : Place[m] \in Nat \ {0} /\ (m > 0 => Place[m] > 1)
<1> DEFINE T == {n \in 0..CTR_LEN :
                   Place[n] \in Nat \ {0} /\ (n > 0 => Place[n] > 1)}
<1>1. 0 \in T
  BY PlaceFacts, CounterLength
<1>2. ASSUME NEW n \in 0..CTR_LEN, n < CTR_LEN, n \in T PROVE n + 1 \in T
  <2>1. Place[n + 1] = BYTE * Place[n] /\ Place[n] \in Nat \ {0}
    BY <1>2, PlaceFacts, CounterLength
  <2>2. BYTE * Place[n] >= BYTE
    BY <2>1, BlockAssumption
  <2>3. n + 1 \in 0..CTR_LEN /\ Place[n + 1] \in Nat
    BY <1>2, PlaceFacts, CounterLength
  <2> QED
    BY <2>1, <2>2, <2>3, BlockAssumption
<1> HIDE DEF T
<1>3. \A m \in 0..CTR_LEN : m \in T
  BY <1>1, <1>2, CounterLength, Induct
<1> QED
  BY <1>3 DEF T

\* The number the first i bytes of a counter stand for.
Value(ctr) ==
  CHOOSE v : v = [i \in 0..CTR_LEN |->
                    IF i = 0 THEN 0 ELSE v[i-1] * BYTE + ctr[i]]

LEMMA ValueFacts ==
  ASSUME NEW ctr \in CounterBytes
  PROVE  /\ AsNumber(ctr) = Value(ctr)[CTR_LEN]
         /\ Value(ctr)[0] = 0
         /\ \A i \in 0..CTR_LEN : Value(ctr)[i] \in Nat
         /\ \A i \in 1..CTR_LEN :
              Value(ctr)[i] = Value(ctr)[i-1] * BYTE + ctr[i]
<1> DEFINE S == [p \in (1..CTR_LEN) \X Nat |-> p[2] * BYTE + ctr[p[1]]]
           v == Value(ctr)
<1>0. \A i \in 1..CTR_LEN : ctr[i] \in Nat
  BY BlockAssumption DEF CounterBytes
<1>1. S \in [(1..CTR_LEN) \X Nat -> Nat]
  BY <1>0, BlockAssumption
<1>2. PICK f \in [0..CTR_LEN -> Nat] : StepsOn(f, CTR_LEN, 0, S)
  <2> HIDE DEF S
  <2> QED
    BY <1>1, CounterLength, RecursionExists
<1>3. f = [i \in 0..CTR_LEN |-> IF i = 0 THEN 0 ELSE f[i-1] * BYTE + ctr[i]]
  <2>1. ASSUME NEW i \in 0..CTR_LEN, i # 0
        PROVE  S[<<i, f[i-1]>>] = f[i-1] * BYTE + ctr[i]
    <3>1. <<i, f[i-1]>> \in (1..CTR_LEN) \X Nat
      BY <2>1, CounterLength
    <3> QED
      BY <3>1
  <2> HIDE DEF S
  <2> QED
    BY <1>2, <2>1 DEF StepsOn
<1>4. v = [i \in 0..CTR_LEN |-> IF i = 0 THEN 0 ELSE v[i-1] * BYTE + ctr[i]]
  BY <1>3, Zenon DEF Value
<1>5. v[0] = 0 /\ \A i \in 1..CTR_LEN : v[i] = v[i-1] * BYTE + ctr[i]
  BY <1>4, CounterLength
<1>6. \A i \in 0..CTR_LEN : v[i] \in Nat
  <2> DEFINE T == {n \in 0..CTR_LEN : v[n] \in Nat}
  <2> HIDE DEF v
  <2>1. 0 \in T
    BY <1>5, CounterLength
  <2>2. ASSUME NEW n \in 0..CTR_LEN, n < CTR_LEN, n \in T PROVE n + 1 \in T
    <3>1. v[n] \in Nat /\ n + 1 \in 1..CTR_LEN /\ ctr[n + 1] \in Nat
      BY <1>0, <2>2, CounterLength
    <3>2. v[n + 1] = v[n] * BYTE + ctr[n + 1]
      BY <1>5, <3>1
    <3>3. v[n] * BYTE + ctr[n + 1] \in Nat
      BY <3>1, BlockAssumption
    <3> QED
      BY <3>1, <3>2, <3>3
  <2> HIDE DEF T
  <2>3. \A m \in 0..CTR_LEN : m \in T
    BY <2>1, <2>2, CounterLength, Induct
  <2> QED
    BY <2>3 DEF T
<1>7. AsNumber(ctr) = v[CTR_LEN]
  BY DEF AsNumber, Value
<1> QED
  BY <1>5, <1>6, <1>7

\* The number of the first bytes is what remains above the place of the rest.
LEMMA ValueAbove ==
  ASSUME NEW ctr \in CounterBytes
  PROVE  \A m \in 0..CTR_LEN : \E r \in Nat :
           /\ r < Place[m]
           /\ AsNumber(ctr) = Value(ctr)[CTR_LEN - m] * Place[m] + r
<1> DEFINE v == Value(ctr)
           T == {m \in 0..CTR_LEN : \E r \in Nat :
                   /\ r < Place[m]
                   /\ AsNumber(ctr) = v[CTR_LEN - m] * Place[m] + r}
<1> HIDE DEF v
<1>0. /\ AsNumber(ctr) = v[CTR_LEN]
      /\ \A i \in 0..CTR_LEN : v[i] \in Nat
      /\ \A i \in 1..CTR_LEN : v[i] = v[i-1] * BYTE + ctr[i]
  BY ValueFacts DEF v
<1>1. 0 \in T
  <2>1. 0 < Place[0] /\ AsNumber(ctr) = v[CTR_LEN - 0] * Place[0] + 0
    BY <1>0, PlaceFacts, CounterLength
  <2> QED
    BY <2>1, CounterLength
<1>2. ASSUME NEW m \in 0..CTR_LEN, m < CTR_LEN, m \in T PROVE m + 1 \in T
  <2>1. PICK r \in Nat : /\ r < Place[m]
                         /\ AsNumber(ctr) = v[CTR_LEN - m] * Place[m] + r
    BY <1>2
  <2> DEFINE i == CTR_LEN - m
             q == v[i - 1]
             c == ctr[i]
             P == Place[m]
             s == c * P + r
  <2>2. i \in 1..CTR_LEN /\ i - 1 \in 0..CTR_LEN
    BY <1>2, CounterLength
  <2>3. q \in Nat /\ c \in 0..(BYTE - 1) /\ P \in Nat /\ v[i] = q * BYTE + c
    BY <1>0, <2>2, PlacesGrow DEF CounterBytes
  <2>4. Place[m + 1] = BYTE * P /\ v[CTR_LEN - (m + 1)] = q
    BY <1>2, PlaceFacts, CounterLength
  <2> HIDE DEF i, q, c, P
  <2>5. s \in Nat /\ s < BYTE * P
    <3>1. PICK e \in Nat : BYTE = c + 1 + e
      <4>1. BYTE - c - 1 \in Nat
        BY <2>3, BlockAssumption
      <4> QED
        BY <4>1, <2>3, BlockAssumption
    <3>2. BYTE * P = c * P + P + e * P
      BY <3>1, <2>3
    <3>3. c * P \in Nat /\ e * P \in Nat
      BY <3>1, <2>3
    <3>4. r < P
      BY <2>1 DEF P
    <3> QED
      BY <2>3, <3>2, <3>3, <3>4
  <2>6. AsNumber(ctr) = q * (BYTE * P) + s
    <3>1. AsNumber(ctr) = (q * BYTE + c) * P + r
      BY <2>1, <2>3 DEF i, P
    <3>2. (q * BYTE + c) * P = q * (BYTE * P) + c * P
      BY <2>3, BlockAssumption
    <3> QED
      BY <2>3, <3>1, <3>2, BlockAssumption
  <2>7. m + 1 \in 0..CTR_LEN
    BY <1>2, CounterLength
  <2> QED
    BY <2>4, <2>5, <2>6, <2>7
<1> HIDE DEF T
<1>3. \A m \in 0..CTR_LEN : m \in T
  BY <1>1, <1>2, CounterLength, Induct
<1> QED
  BY <1>3 DEF T, v

LEMMA NumberFits ==
  ASSUME NEW ctr \in CounterBytes
  PROVE  AsNumber(ctr) \in 0..(Counters - 1) /\ Counters \in Nat \ {0}
<1>1. PICK r \in Nat : /\ r < Place[CTR_LEN]
                       /\ AsNumber(ctr) = Value(ctr)[0] * Place[CTR_LEN] + r
  BY ValueAbove, CounterLength
<1>2. Value(ctr)[0] = 0 /\ Place[CTR_LEN] \in Nat \ {0}
  BY ValueFacts, PlacesGrow, CounterLength
<1> QED
  BY <1>1, <1>2 DEF Counters

\* The bytes of the number a counter stands for are the counter's.
LEMMA BytesOfNumber ==
  ASSUME NEW ctr \in CounterBytes
  PROVE  AsBytes(AsNumber(ctr)) = ctr
<1>1. ASSUME NEW i \in 1..CTR_LEN
      PROVE  (AsNumber(ctr) \div Place[CTR_LEN - i]) % BYTE = ctr[i]
  <2>1. CTR_LEN - i \in 0..CTR_LEN /\ CTR_LEN - (CTR_LEN - i) = i
        /\ i \in 0..CTR_LEN /\ i - 1 \in 0..CTR_LEN
    BY CounterLength
  <2>2. PICK r \in Nat :
          /\ r < Place[CTR_LEN - i]
          /\ AsNumber(ctr) = Value(ctr)[i] * Place[CTR_LEN - i] + r
    BY <2>1, ValueAbove
  <2>3. Value(ctr)[i] \in Nat /\ Place[CTR_LEN - i] \in Nat \ {0}
    BY <2>1, ValueFacts, PlacesGrow
  <2>4. AsNumber(ctr) \div Place[CTR_LEN - i] = Value(ctr)[i]
    BY <2>2, <2>3, DivisionIs
  <2> DEFINE q == Value(ctr)[i-1]
             c == ctr[i]
  <2>5. Value(ctr)[i] = q * BYTE + c /\ q \in Nat
    BY <2>1, ValueFacts
  <2>6. c \in Nat /\ c < BYTE /\ BYTE \in Nat \ {0}
    BY BlockAssumption DEF CounterBytes
  <2> HIDE DEF q, c
  <2>7. (q * BYTE + c) % BYTE = c
    BY <2>5, <2>6, DivisionIs
  <2>8. Value(ctr)[i] % BYTE = ctr[i]
    BY <2>5, <2>7 DEF c
  <2> QED
    BY <2>4, <2>8
<1> QED
  BY <1>1 DEF AsBytes, CounterBytes

\* gcm.c's increment adds one, and goes back to zero behind the last value.
LEMMA IncrementAddsOne ==
  ASSUME NEW ctr \in CounterBytes
  PROVE  /\ increment(ctr) \in CounterBytes
         /\ AsNumber(increment(ctr)) = (AsNumber(ctr) + 1) % Counters
<1> DEFINE up == increment(ctr)
           v == Value(ctr)
           w == Value(up)
           Carry(i) == \A j \in (i + 1)..CTR_LEN : ctr[j] = BYTE - 1
           Up(i) == IF v[i] + 1 = Place[i] THEN 0 ELSE v[i] + 1
           T == {i \in 0..CTR_LEN : /\ v[i] < Place[i]
                                    /\ w[i] = IF Carry(i) THEN Up(i) ELSE v[i]}
<1>1. \A i \in 1..CTR_LEN :
        /\ ctr[i] \in 0..(BYTE - 1)
        /\ up[i] = IF Carry(i) THEN (IF ctr[i] = BYTE - 1 THEN 0 ELSE ctr[i] + 1)
                   ELSE ctr[i]
  <2>1. ASSUME NEW i \in 1..CTR_LEN
        PROVE  /\ ctr[i] \in 0..(BYTE - 1)
               /\ (ctr[i] + 1) % BYTE = IF ctr[i] = BYTE - 1 THEN 0 ELSE ctr[i] + 1
    <3>1. ctr[i] \in 0..(BYTE - 1)
      BY DEF CounterBytes
    <3>2. BYTE % BYTE = 0
      BY BlockAssumption
    <3> QED
      BY <3>1, <3>2, BlockAssumption
  <2> QED
    BY <2>1 DEF increment
<1>2. up \in CounterBytes
  <2>1. up = [i \in 1..CTR_LEN |-> up[i]]
    BY DEF increment
  <2>2. \A i \in 1..CTR_LEN : up[i] \in 0..(BYTE - 1)
    BY <1>1, BlockAssumption
  <2> HIDE DEF up
  <2> QED
    BY <2>1, <2>2 DEF CounterBytes
<1> HIDE DEF up
<1>3. /\ v[0] = 0 /\ \A i \in 0..CTR_LEN : v[i] \in Nat
      /\ \A i \in 1..CTR_LEN : v[i] = v[i-1] * BYTE + ctr[i]
      /\ AsNumber(ctr) = v[CTR_LEN]
  BY ValueFacts
<1>4. /\ w[0] = 0 /\ \A i \in 0..CTR_LEN : w[i] \in Nat
      /\ \A i \in 1..CTR_LEN : w[i] = w[i-1] * BYTE + up[i]
      /\ AsNumber(up) = w[CTR_LEN]
  BY <1>2, ValueFacts
<1> HIDE DEF v, w
<1>5. 0 \in T
  BY <1>3, <1>4, PlaceFacts, CounterLength
<1>6. ASSUME NEW n \in 0..CTR_LEN, n < CTR_LEN, n \in T PROVE n + 1 \in T
  <2> DEFINE i == n + 1
             c == ctr[i]
             P == Place[n]
  <2>1. i \in 1..CTR_LEN /\ n \in Nat /\ i - 1 = n
    BY <1>6, CounterLength
  <2>2. Place[i] = BYTE * P /\ P \in Nat \ {0}
    BY <2>1, PlaceFacts, PlacesGrow
  <2>3. v[n] \in Nat /\ v[n] < P /\ w[n] = IF Carry(n) THEN Up(n) ELSE v[n]
    BY <1>3, <1>6
  <2>4. v[i] = v[n] * BYTE + c /\ w[i] = w[n] * BYTE + up[i]
    BY <1>3, <1>4, <2>1
  <2>5. c \in 0..(BYTE - 1) /\ BYTE \in Nat /\ BYTE > 1
    BY <1>1, <2>1, BlockAssumption
  <2>6. Carry(n) <=> c = BYTE - 1 /\ Carry(i)
    <3>1. (n + 1)..CTR_LEN = {i} \cup ((i + 1)..CTR_LEN)
      BY <2>1, CounterLength
    <3> QED
      BY <3>1
  <2>7. up[i] = IF Carry(i) THEN (IF c = BYTE - 1 THEN 0 ELSE c + 1) ELSE c
    BY <1>1, <2>1
  <2>8. PICK e \in Nat : P = v[n] + 1 + e
    <3>1. P - v[n] - 1 \in Nat
      BY <2>2, <2>3
    <3> QED
      BY <2>2, <2>3, <3>1
  <2>9. BYTE * P = v[n] * BYTE + BYTE + e * BYTE /\ e * BYTE \in Nat
        /\ (e = 0 => e * BYTE = 0) /\ (e > 0 => e * BYTE >= BYTE)
    BY <2>3, <2>5, <2>8
  <2>10. v[i] < Place[i]
    BY <2>2, <2>3, <2>4, <2>5, <2>9
  <2>11. w[i] = IF Carry(i) THEN Up(i) ELSE v[i]
    <3>1. CASE Carry(n) /\ e = 0
      <4>1. w[n] = 0 /\ up[i] = 0 /\ w[i] = 0
        BY <2>2, <2>3, <2>4, <2>5, <2>6, <2>7, <2>8, <3>1
      <4>2. v[i] + 1 = Place[i]
        BY <2>2, <2>3, <2>4, <2>5, <2>6, <2>9, <3>1
      <4> QED
        BY <2>6, <3>1, <4>1, <4>2
    <3>2. CASE Carry(n) /\ e # 0
      <4>1. w[n] = v[n] + 1 /\ up[i] = 0
        BY <2>2, <2>3, <2>6, <2>7, <2>8, <3>2
      <4>2. (v[n] + 1) * BYTE = v[n] * BYTE + BYTE
        BY <2>3, <2>5
      <4>3. v[n] * BYTE \in Nat
        BY <2>3, <2>5
      <4>4. w[i] = v[i] + 1
        BY <2>4, <2>5, <2>6, <3>2, <4>1, <4>2, <4>3
      <4>5. v[i] + 1 # Place[i]
        BY <2>2, <2>4, <2>5, <2>6, <2>8, <2>9, <3>2, <4>3
      <4> QED
        BY <2>6, <3>2, <4>4, <4>5
    <3>3. CASE ~ Carry(n) /\ Carry(i)
      <4>1. c # BYTE - 1 /\ w[n] = v[n] /\ up[i] = c + 1
        BY <2>3, <2>6, <2>7, <3>3
      <4>2. v[n] * BYTE \in Nat
        BY <2>3, <2>5
      <4>3. w[i] = v[i] + 1 /\ v[i] + 1 # Place[i]
        BY <2>2, <2>4, <2>5, <2>9, <4>1, <4>2
      <4> QED
        BY <3>3, <4>3
    <3>4. CASE ~ Carry(i)
      <4>1. w[n] = v[n] /\ up[i] = c
        BY <2>3, <2>6, <2>7, <3>4
      <4> QED
        BY <2>4, <3>4, <4>1
    <3> QED
      BY <2>6, <3>1, <3>2, <3>3, <3>4
  <2> QED
    BY <2>1, <2>10, <2>11
<1>7. CTR_LEN \in T
  <2> HIDE DEF T
  <2>1. \A i \in 0..CTR_LEN : i \in T
    BY <1>5, <1>6, CounterLength, Induct
  <2> QED
    BY <2>1, CounterLength
<1>8. w[CTR_LEN] = Up(CTR_LEN) /\ v[CTR_LEN] < Counters
  <2>1. Carry(CTR_LEN)
    BY CounterLength
  <2> QED
    BY <1>7, <2>1 DEF Counters
<1>9. (v[CTR_LEN] + 1) % Counters = Up(CTR_LEN)
  <2>1. v[CTR_LEN] \in Nat /\ Counters \in Nat \ {0} /\ Counters = Place[CTR_LEN]
    BY <1>3, CounterLength, NumberFits DEF Counters
  <2>2. Counters % Counters = 0
    BY <2>1
  <2> QED
    BY <1>8, <2>1, <2>2
<1> QED
  BY <1>2, <1>3, <1>4, <1>8, <1>9 DEF up

LEMMA RemainderOfSum ==
  ASSUME NEW x \in Nat, NEW k \in Nat, NEW C \in Nat \ {0}
  PROVE  ((x % C) + k) % C = (x + k) % C
<1>1. /\ x = (x \div C) * C + (x % C)
      /\ x \div C \in Nat /\ x % C \in Nat
  OBVIOUS
<1> DEFINE q == x \div C
           y == (x % C) + k
           p == y \div C
           r == y % C
<1>2. y = p * C + r /\ p \in Nat /\ r \in Nat /\ r < C /\ q \in Nat
  BY <1>1
<1>3. x + k = q * C + y
  BY <1>1
<1> HIDE DEF q, p, r, y
<1>4. q * C + (p * C + r) = (q + p) * C + r /\ q + p \in Nat
  BY <1>2
<1>5. (x + k) % C = r
  <2>1. ((q + p) * C + r) % C = r
    BY <1>2, <1>4, DivisionIs
  <2> QED
    BY <1>2, <1>3, <1>4, <2>1
<1> QED
  BY <1>5 DEF r, y

LEMMA RemaindersDiffer ==
  ASSUME NEW x \in Nat, NEW d \in Nat, NEW C \in Nat \ {0}, 0 < d, d < C
  PROVE  (x + d) % C # x % C
<1> DEFINE q == x \div C
           r == x % C
<1>1. x = q * C + r /\ q \in Nat /\ r \in Nat /\ r < C
  OBVIOUS
<1> HIDE DEF q, r
<1>2. CASE r + d < C
  <2>1. (q * C + (r + d)) % C = r + d
    BY <1>1, <1>2, DivisionIs
  <2>2. x + d = q * C + (r + d)
    BY <1>1
  <2> QED
    BY <1>1, <2>1, <2>2 DEF r
<1>3. CASE r + d >= C
  <2>1. r + d - C \in Nat /\ r + d - C < C /\ r + d - C # r /\ q + 1 \in Nat
    BY <1>1, <1>3
  <2>2. ((q + 1) * C + (r + d - C)) % C = r + d - C
    BY <2>1, DivisionIs
  <2>3. x + d = (q + 1) * C + (r + d - C)
    BY <1>1
  <2> QED
    BY <2>1, <2>2, <2>3 DEF r
<1> QED
  BY <1>1, <1>2, <1>3

\* The counter k blocks later.
CounterAfter(ctr, k) == AsBytes((AsNumber(ctr) + k) % Counters)

LEMMA CounterSteps ==
  ASSUME NEW ctr \in CounterBytes, NEW k \in Nat
  PROVE  /\ CounterAfter(ctr, k) \in CounterBytes
         /\ AsNumber(CounterAfter(ctr, k)) = (AsNumber(ctr) + k) % Counters
         /\ CounterAfter(ctr, 0) = ctr
         /\ increment(CounterAfter(ctr, k)) = CounterAfter(ctr, k + 1)
<1> DEFINE A == AsNumber(ctr)
           Right(n) == /\ CounterAfter(ctr, n) \in CounterBytes
                       /\ AsNumber(CounterAfter(ctr, n)) = (A + n) % Counters
           T == {n \in 0..k : Right(n)}
<1>1. A \in Nat /\ A < Counters /\ Counters \in Nat \ {0}
  BY NumberFits
<1>2. (A + 0) % Counters = A
  BY <1>1
<1>3. CounterAfter(ctr, 0) = ctr
  BY <1>2, BytesOfNumber DEF CounterAfter
<1> HIDE DEF A
<1>4. Right(0)
  BY <1>2, <1>3 DEF A
<1>5. ASSUME NEW n \in Nat, Right(n)
      PROVE  Right(n + 1) /\ increment(CounterAfter(ctr, n)) = CounterAfter(ctr, n + 1)
  <2> DEFINE u == increment(CounterAfter(ctr, n))
  <2>1. u \in CounterBytes
        /\ AsNumber(u) = (((A + n) % Counters) + 1) % Counters
    BY <1>5, IncrementAddsOne
  <2>2. A + n \in Nat /\ (A + n) + 1 = A + (n + 1)
    BY <1>1
  <2>3. (((A + n) % Counters) + 1) % Counters = (A + (n + 1)) % Counters
    BY <1>1, <2>2, RemainderOfSum
  <2>4. AsBytes(AsNumber(u)) = u
    BY <2>1, BytesOfNumber
  <2>5. u = CounterAfter(ctr, n + 1)
    BY <2>1, <2>3, <2>4 DEF CounterAfter, A
  <2> QED
    BY <2>1, <2>3, <2>5
<1>6. Right(k)
  <2>1. 0 \in T
    BY <1>4
  <2>2. ASSUME NEW n \in 0..k, n < k, n \in T PROVE n + 1 \in T
    BY <2>2, <1>5
  <2> HIDE DEF T
  <2>3. \A n \in 0..k : n \in T
    BY <2>1, <2>2, Induct
  <2> QED
    BY <2>3 DEF T
<1> QED
  BY <1>3, <1>5, <1>6 DEF A

LEMMA CounterAfterSum ==
  ASSUME NEW ctr \in CounterBytes, NEW j \in Nat, NEW k \in Nat
  PROVE  CounterAfter(CounterAfter(ctr, j), k) = CounterAfter(ctr, j + k)
<1>1. AsNumber(CounterAfter(ctr, j)) = (AsNumber(ctr) + j) % Counters
  BY CounterSteps
<1>2. /\ AsNumber(ctr) \in Nat /\ AsNumber(ctr) + j \in Nat
      /\ Counters \in Nat \ {0}
  BY NumberFits
<1>3. (((AsNumber(ctr) + j) % Counters) + k) % Counters
        = (AsNumber(ctr) + j + k) % Counters
  BY <1>2, RemainderOfSum
<1>4. AsNumber(ctr) + j + k = AsNumber(ctr) + (j + k)
  BY <1>2
<1> QED
  BY <1>1, <1>3, <1>4 DEF CounterAfter

\* Within one round of the counter no value comes back.
LEMMA CountersDiffer ==
  ASSUME NEW ctr \in CounterBytes, NEW j \in Nat, NEW k \in Nat,
         j < k, k < j + Counters
  PROVE  CounterAfter(ctr, j) # CounterAfter(ctr, k)
<1> DEFINE x == AsNumber(ctr) + j
           d == k - j
<1>1. x \in Nat /\ Counters \in Nat \ {0} /\ x + d = AsNumber(ctr) + k
  BY NumberFits
<1>2. d \in Nat /\ 0 < d /\ d < Counters
  BY <1>1
<1>3. (x + d) % Counters # x % Counters
  <2> HIDE DEF x, d
  <2> QED
    BY <1>1, <1>2, RemaindersDiffer
<1>4. /\ AsNumber(CounterAfter(ctr, j)) = x % Counters
      /\ AsNumber(CounterAfter(ctr, k)) = (x + d) % Counters
  BY <1>1, CounterSteps
<1> QED
  BY <1>3, <1>4

-----------------------------------------------------------------------------
(***************************************************************************)
(* Sequences, as functions.                                                *)
(***************************************************************************)
IsSeq(s) == Len(s) \in Nat /\ s = [i \in 1..Len(s) |-> s[i]]

LEMMA SeqOf ==
  ASSUME NEW n \in Nat, NEW s, s = [i \in 1..n |-> s[i]]
  PROVE  IsSeq(s) /\ Len(s) = n /\ s \in Seq({s[i] : i \in 1..n})
<1>1. s \in [1..n -> {s[i] : i \in 1..n}]
  OBVIOUS
<1>2. s \in Seq({s[i] : i \in 1..n})
  BY <1>1, SeqDef
<1>3. Len(s) = n
  BY <1>1, <1>2, LenProperties
<1> QED
  BY <1>2, <1>3 DEF IsSeq

LEMMA SeqElements ==
  ASSUME NEW s, IsSeq(s)
  PROVE  s \in Seq({s[i] : i \in 1..Len(s)})
  BY SeqOf DEF IsSeq

LEMMA SameSeq ==
  ASSUME NEW s, NEW t, IsSeq(s), IsSeq(t), Len(s) = Len(t),
         \A i \in 1..Len(s) : s[i] = t[i]
  PROVE  s = t
  BY DEF IsSeq

LEMMA EmptyIs ==
  /\ IsSeq(<<>>) /\ Len(<<>>) = 0
  /\ \A s : IsSeq(s) => (s = <<>> <=> Len(s) = 0)
<1>1. Len(<<>>) = 0
  OBVIOUS
<1>2. <<>> = [i \in 1..0 |-> <<>>[i]]
  OBVIOUS
<1>3. IsSeq(<<>>)
  BY <1>1, <1>2 DEF IsSeq
<1>4. ASSUME NEW s, IsSeq(s), Len(s) = 0 PROVE s = <<>>
  BY <1>1, <1>3, <1>4, SameSeq
<1> QED
  BY <1>1, <1>3, <1>4

LEMMA ConcatIs ==
  ASSUME NEW s, NEW t, IsSeq(s), IsSeq(t)
  PROVE  /\ IsSeq(s \o t) /\ Len(s \o t) = Len(s) + Len(t)
         /\ \A i \in 1..(Len(s) + Len(t)) :
              (s \o t)[i] = IF i <= Len(s) THEN s[i] ELSE t[i - Len(s)]
<1> DEFINE S == {s[i] : i \in 1..Len(s)} \cup {t[i] : i \in 1..Len(t)}
<1>1. s \in Seq(S) /\ t \in Seq(S)
  <2> DEFINE A == {s[i] : i \in 1..Len(s)}
             B == {t[i] : i \in 1..Len(t)}
  <2>1. A \subseteq S /\ B \subseteq S
    OBVIOUS
  <2>2. s \in Seq(A) /\ t \in Seq(B)
    BY SeqElements
  <2> HIDE DEF S, A, B
  <2> QED
    BY <2>1, <2>2, SeqMonotonic
<1> HIDE DEF S
<1>2. /\ s \o t \in Seq(S) /\ Len(s \o t) = Len(s) + Len(t)
      /\ \A i \in 1..(Len(s) + Len(t)) :
              (s \o t)[i] = IF i <= Len(s) THEN s[i] ELSE t[i - Len(s)]
  BY <1>1, ConcatProperties
<1>3. IsSeq(s \o t)
  BY <1>2, LenProperties DEF IsSeq
<1> QED
  BY <1>2, <1>3

LEMMA AppendIs ==
  ASSUME NEW s, NEW e, IsSeq(s)
  PROVE  /\ IsSeq(Append(s, e)) /\ Len(Append(s, e)) = Len(s) + 1
         /\ \A i \in 1..Len(s) : Append(s, e)[i] = s[i]
         /\ Append(s, e)[Len(s) + 1] = e
<1> DEFINE S == {s[i] : i \in 1..Len(s)} \cup {e}
<1>1. s \in Seq(S) /\ e \in S
  <2>1. {s[i] : i \in 1..Len(s)} \subseteq S /\ e \in S
    OBVIOUS
  <2> HIDE DEF S
  <2> QED
    BY <2>1, SeqElements, SeqMonotonic
<1> HIDE DEF S
<1>2. /\ Append(s, e) \in Seq(S) /\ Len(Append(s, e)) = Len(s) + 1
      /\ \A i \in 1..Len(s) : Append(s, e)[i] = s[i]
      /\ Append(s, e)[Len(s) + 1] = e
  BY <1>1, AppendProperties
<1>3. IsSeq(Append(s, e))
  BY <1>2, LenProperties DEF IsSeq
<1> QED
  BY <1>2, <1>3

LEMMA SubSeqIs ==
  ASSUME NEW s, NEW m \in Nat, NEW n \in Nat, m <= n + 1
  PROVE  /\ IsSeq(SubSeq(s, m, n)) /\ Len(SubSeq(s, m, n)) = n - m + 1
         /\ \A i \in 1..(n - m + 1) : SubSeq(s, m, n)[i] = s[m + i - 1]
<1> DEFINE S == {s[i] : i \in m..n}
<1>1. \A i \in m..n : s[i] \in S
  OBVIOUS
<1> HIDE DEF S
<1>2. /\ SubSeq(s, m, n) \in Seq(S)
      /\ Len(SubSeq(s, m, n)) = IF m <= n THEN n - m + 1 ELSE 0
      /\ \A i \in 1..(n - m + 1) : SubSeq(s, m, n)[i] = s[m + i - 1]
  BY <1>1, SubSeqProperties
<1>3. IsSeq(SubSeq(s, m, n))
  BY <1>2, LenProperties DEF IsSeq
<1> QED
  BY <1>2, <1>3

-----------------------------------------------------------------------------
(***************************************************************************)
(* Blocks.                                                                 *)
(***************************************************************************)
LEMMA BlockLength == BLOCK_LEN \in Nat /\ BLOCK_LEN > 1
  BY BlockAssumption

LEMMA BlocksFacts ==
  ASSUME NEW n \in Nat
  PROVE  /\ Blocks(n) \in Nat
         /\ n <= Blocks(n) * BLOCK_LEN
         /\ Blocks(n) * BLOCK_LEN < n + BLOCK_LEN
<1> DEFINE x == n + BLOCK_LEN - 1
           q == x \div BLOCK_LEN
<1>1. x \in Nat
  BY BlockLength
<1>2. x = q * BLOCK_LEN + (x % BLOCK_LEN) /\ q \in Nat
      /\ x % BLOCK_LEN \in Nat /\ x % BLOCK_LEN < BLOCK_LEN
  BY <1>1, BlockLength
<1>3. q * BLOCK_LEN \in Nat
  BY <1>2, BlockLength
<1>4. Blocks(n) = q
  BY DEF Blocks
<1> HIDE DEF q
<1> QED
  BY <1>1, <1>2, <1>3, <1>4, BlockLength

\* There is one number of blocks that n bytes fit into.
LEMMA BlocksAre ==
  ASSUME NEW n \in Nat, NEW b \in Nat,
         n <= b * BLOCK_LEN, b * BLOCK_LEN < n + BLOCK_LEN
  PROVE  Blocks(n) = b
<1> DEFINE c == Blocks(n)
<1>1. c \in Nat /\ n <= c * BLOCK_LEN /\ c * BLOCK_LEN < n + BLOCK_LEN
  BY BlocksFacts
<1> HIDE DEF c
<1>2. CASE c < b
  <2>1. PICK e \in Nat : b = c + 1 + e
    <3>1. b - c - 1 \in Nat
      BY <1>1, <1>2
    <3> QED
      BY <1>1, <3>1
  <2>2. b * BLOCK_LEN = c * BLOCK_LEN + BLOCK_LEN + e * BLOCK_LEN
        /\ e * BLOCK_LEN \in Nat /\ c * BLOCK_LEN \in Nat
    BY <1>1, <2>1, BlockLength
  <2> QED
    BY <1>1, <2>2, BlockLength
<1>3. CASE b < c
  <2>1. PICK e \in Nat : c = b + 1 + e
    <3>1. c - b - 1 \in Nat
      BY <1>1, <1>3
    <3> QED
      BY <1>1, <3>1
  <2>2. c * BLOCK_LEN = b * BLOCK_LEN + BLOCK_LEN + e * BLOCK_LEN
        /\ e * BLOCK_LEN \in Nat /\ b * BLOCK_LEN \in Nat
    BY <1>1, <2>1, BlockLength
  <2> QED
    BY <1>1, <2>2, BlockLength
<1> QED
  BY <1>1, <1>2, <1>3 DEF c

\* All blocks but the last are full.
LEMMA BlockPlace ==
  ASSUME NEW n \in Nat, NEW k \in 1..Blocks(n)
  PROVE  /\ (k - 1) * BLOCK_LEN \in Nat /\ (k - 1) * BLOCK_LEN < n
         /\ k * BLOCK_LEN = (k - 1) * BLOCK_LEN + BLOCK_LEN
         /\ k < Blocks(n) => k * BLOCK_LEN < n
<1> DEFINE N == Blocks(n)
<1>1. N \in Nat /\ N * BLOCK_LEN < n + BLOCK_LEN /\ k \in Nat /\ k <= N /\ k >= 1
  BY BlocksFacts
<1> HIDE DEF N
<1>2. (k - 1) * BLOCK_LEN \in Nat
  BY <1>1, BlockLength
<1>3. k * BLOCK_LEN = (k - 1) * BLOCK_LEN + BLOCK_LEN
  BY <1>1, BlockLength
<1>4. PICK e \in Nat : N = k + e
  <2>1. N - k \in Nat
    BY <1>1
  <2> QED
    BY <1>1, <2>1
<1>5. N * BLOCK_LEN = k * BLOCK_LEN + e * BLOCK_LEN /\ e * BLOCK_LEN \in Nat
      /\ (e > 0 => e * BLOCK_LEN >= BLOCK_LEN)
  BY <1>1, <1>4, BlockLength
<1>6. (k - 1) * BLOCK_LEN < n
  BY <1>1, <1>2, <1>3, <1>5, BlockLength
<1>7. k < N => k * BLOCK_LEN < n
  BY <1>1, <1>2, <1>3, <1>4, <1>5, BlockLength
<1> QED
  BY <1>2, <1>3, <1>6, <1>7 DEF N

-----------------------------------------------------------------------------
(***************************************************************************)
(* The running hash.                                                       *)
(***************************************************************************)
\* The first m blocks are those that Significant leaves out.
ZerosBefore(bs, m) ==
  /\ m \in 0..Len(bs)
  /\ \A k \in 1..m : bs[k] = ZeroBlock
  /\ m < Len(bs) => bs[m + 1] # ZeroBlock

LEMMA SignificantIs ==
  ASSUME NEW bs, IsSeq(bs)
  PROVE  \E m \in 0..Len(bs) :
           /\ ZerosBefore(bs, m)
           /\ Significant(bs) = SubSeq(bs, 1 + m, Len(bs))
<1> DEFINE leading == {n \in 0..Len(bs) : \A k \in 1..n : bs[k] = ZeroBlock}
           m == CHOOSE n \in leading : \A i \in leading : i <= n
<1>1. Len(bs) \in Nat
  BY DEF IsSeq
<1>2. \E n \in leading : \A i \in leading : i <= n
  <2> DEFINE R == {Len(bs) - n : n \in leading}
  <2>1. R \subseteq Nat
    BY <1>1
  <2>2. 0 \in leading
    BY <1>1
  <2>3. R # {}
    BY <2>2
  <2>4. PICK r \in R : \A x \in R : r <= x
    <3> HIDE DEF R
    <3> QED
      BY <2>1, <2>3, LeastOf
  <2>5. PICK n \in leading : r = Len(bs) - n
    BY <2>4
  <2>6. \A i \in leading : Len(bs) - i \in R /\ i \in Nat
    BY <1>1
  <2>7. \A i \in leading : i <= n
    <3> TAKE i \in leading
    <3>1. n \in Nat /\ i \in Nat /\ Len(bs) - n <= Len(bs) - i
      BY <2>4, <2>5, <2>6
    <3> QED
      BY <1>1, <3>1
  <2> QED
    BY <2>7
<1>3. m \in leading /\ \A i \in leading : i <= m
  <2> HIDE DEF leading
  <2> QED
    BY <1>2, Zenon
<1>4. Significant(bs) = SubSeq(bs, 1 + m, Len(bs))
  BY DEF Significant
<1> HIDE DEF m
<1>5. m < Len(bs) => bs[m + 1] # ZeroBlock
  <2> SUFFICES ASSUME m < Len(bs), bs[m + 1] = ZeroBlock PROVE FALSE
    OBVIOUS
  <2>1. m + 1 \in 0..Len(bs) /\ m \in Nat
    BY <1>1, <1>3
  <2>2. \A k \in 1..(m + 1) : k \in 1..m \/ k = m + 1
    BY <2>1
  <2>3. m + 1 \in leading
    BY <1>3, <2>1, <2>2
  <2> QED
    BY <1>3, <2>1, <2>3
<1> QED
  BY <1>3, <1>4, <1>5 DEF ZerosBefore

LEMMA ZerosBeforeOnce ==
  ASSUME NEW bs, IsSeq(bs), NEW m, NEW n, ZerosBefore(bs, m), ZerosBefore(bs, n)
  PROVE  m = n
<1>1. Len(bs) \in Nat /\ m \in 0..Len(bs) /\ n \in 0..Len(bs)
  BY DEF ZerosBefore, IsSeq
<1>2. ~ (m < n)
  BY <1>1 DEF ZerosBefore
<1>3. ~ (n < m)
  BY <1>1 DEF ZerosBefore
<1> QED
  BY <1>1, <1>2, <1>3

LEMMA SignificantFrom ==
  ASSUME NEW bs, IsSeq(bs), NEW m, ZerosBefore(bs, m)
  PROVE  /\ IsSeq(Significant(bs)) /\ Len(Significant(bs)) = Len(bs) - m
         /\ \A i \in 1..(Len(bs) - m) : Significant(bs)[i] = bs[m + i]
<1>1. Significant(bs) = SubSeq(bs, 1 + m, Len(bs))
  BY SignificantIs, ZerosBeforeOnce
<1>2. m \in Nat /\ Len(bs) \in Nat /\ m <= Len(bs)
  BY DEF ZerosBefore, IsSeq
<1>3. /\ IsSeq(SubSeq(bs, 1 + m, Len(bs)))
      /\ Len(SubSeq(bs, 1 + m, Len(bs))) = Len(bs) - (1 + m) + 1
      /\ \A i \in 1..(Len(bs) - (1 + m) + 1) :
           SubSeq(bs, 1 + m, Len(bs))[i] = bs[(1 + m) + i - 1]
  <2>1. 1 + m \in Nat /\ 1 + m <= Len(bs) + 1
    BY <1>2
  <2> QED
    BY <1>2, <2>1, SubSeqIs
<1>4. Len(bs) - (1 + m) + 1 = Len(bs) - m
  BY <1>2
<1>5. \A i \in 1..(Len(bs) - m) : (1 + m) + i - 1 = m + i
  BY <1>2
<1> QED
  BY <1>1, <1>3, <1>4, <1>5

LEMMA SignificantAppend ==
  ASSUME NEW bs, IsSeq(bs), NEW b
  PROVE  Significant(Append(bs, b)) =
           IF Significant(bs) = <<>> /\ b = ZeroBlock THEN <<>>
           ELSE Append(Significant(bs), b)
<1> DEFINE more == Append(bs, b)
           N == Len(bs)
<1>1. /\ IsSeq(more) /\ Len(more) = N + 1 /\ N \in Nat
      /\ \A i \in 1..N : more[i] = bs[i]
      /\ more[N + 1] = b
  BY AppendIs DEF IsSeq
<1>2. PICK m \in 0..N : ZerosBefore(bs, m)
  BY SignificantIs
<1>3. /\ IsSeq(Significant(bs)) /\ Len(Significant(bs)) = N - m
      /\ \A i \in 1..(N - m) : Significant(bs)[i] = bs[m + i]
  BY <1>2, SignificantFrom
<1> HIDE DEF more
<1>4. CASE m = N /\ b = ZeroBlock
  <2>1. ZerosBefore(more, N + 1)
    BY <1>1, <1>2, <1>4 DEF ZerosBefore
  <2>2. IsSeq(Significant(more)) /\ Len(Significant(more)) = 0
    <3>1. Len(more) - (N + 1) = 0
      BY <1>1
    <3> QED
      BY <1>1, <2>1, <3>1, SignificantFrom
  <2>3. Significant(bs) = <<>> /\ Significant(more) = <<>>
    BY <1>1, <1>3, <1>4, <2>2, EmptyIs
  <2> QED
    BY <1>4, <2>3 DEF more
<1>5. CASE ~ (m = N /\ b = ZeroBlock)
  <2>1. ZerosBefore(more, m)
    <3>1. m \in 0..Len(more) /\ \A k \in 1..m : k \in 1..N
      BY <1>1
    <3>2. m < Len(more) => more[m + 1] # ZeroBlock
      BY <1>1, <1>2, <1>5 DEF ZerosBefore
    <3> QED
      BY <1>1, <1>2, <3>1, <3>2 DEF ZerosBefore
  <2>2. /\ IsSeq(Significant(more)) /\ Len(Significant(more)) = N + 1 - m
        /\ \A i \in 1..(N + 1 - m) : Significant(more)[i] = more[m + i]
    <3>1. /\ IsSeq(Significant(more))
          /\ Len(Significant(more)) = Len(more) - m
          /\ \A i \in 1..(Len(more) - m) : Significant(more)[i] = more[m + i]
      BY <1>1, <2>1, SignificantFrom
    <3> QED
      BY <1>1, <3>1
  <2> DEFINE t == Append(Significant(bs), b)
  <2>3. /\ IsSeq(t) /\ Len(t) = N - m + 1
        /\ \A i \in 1..(N - m) : t[i] = bs[m + i]
        /\ t[N - m + 1] = b
    BY <1>3, AppendIs
  <2>4. \A i \in 1..(N + 1 - m) : Significant(more)[i] = t[i]
    <3> TAKE i \in 1..(N + 1 - m)
    <3> HIDE DEF t
    <3>1. CASE i = N - m + 1
      <4>1. m + i = N + 1
        BY <1>1, <3>1
      <4> QED
        BY <1>1, <2>2, <2>3, <3>1, <4>1
    <3>2. CASE i # N - m + 1
      <4>1. i \in 1..(N - m) /\ m + i \in 1..N
        BY <1>1, <3>2
      <4> QED
        BY <1>1, <2>2, <2>3, <4>1
    <3> QED
      BY <3>1, <3>2
  <2>5. N + 1 - m = N - m + 1
    BY <1>1
  <2> HIDE DEF t
  <2>6. Significant(more) = t
    BY <2>2, <2>3, <2>4, <2>5, SameSeq
  <2>7. Significant(bs) = <<>> <=> m = N
    BY <1>1, <1>3, EmptyIs
  <2> QED
    BY <1>5, <2>6, <2>7 DEF more, t
<1> QED
  BY <1>4, <1>5

\* The hash of these blocks, and a piece of data as a block.
HashOf(bs) == running_hash(Significant(bs), ZeroBlock)
AsBlock(b) == [i \in 1..BLOCK_LEN |-> IF i <= Len(b) THEN b[i] ELSE {}]

LEMMA NoBlocks == HashOf(<<>>) = HashZero
<1>1. ZerosBefore(<<>>, 0)
  BY EmptyIs DEF ZerosBefore
<1>2. IsSeq(Significant(<<>>)) /\ Len(Significant(<<>>)) = 0
  <2>1. Len(<<>>) - 0 = 0
    BY EmptyIs
  <2> QED
    BY <1>1, <2>1, EmptyIs, SignificantFrom
<1>3. Significant(<<>>) = <<>>
  BY <1>2, EmptyIs
<1> QED
  BY <1>3 DEF HashOf, HashZero

LEMMA XorFacts ==
  \A a, b : /\ xor({}, a) = a /\ xor(a, {}) = a /\ xor(a, b) = xor(b, a)
            /\ xor(xor(a, b), b) = a /\ xor(xor(a, b), a) = b
  BY DEF xor

\* XORing a piece of data in and multiplying takes one more block into the hash.
LEMMA MultiplyIn ==
  ASSUME NEW H, H # Null, NEW bs, IsSeq(bs), NEW b
  PROVE  gcm_mult(H, xor_in(HashOf(bs), b)) = HashOf(Append(bs, AsBlock(b)))
<1> DEFINE s == Significant(bs)
           p == AsBlock(b)
<1>1. xor_in(HashOf(bs), b) = running_hash(s, p)
  <2>1. HashOf(bs).absorbed = s /\ HashOf(bs).pending = ZeroBlock
    BY DEF HashOf, running_hash
  <2>2. \A i \in 1..BLOCK_LEN : ZeroBlock[i] = {}
    BY DEF ZeroBlock
  <2>3. [i \in 1..BLOCK_LEN |->
           IF i <= Len(b) THEN xor(ZeroBlock[i], b[i]) ELSE ZeroBlock[i]] = p
    BY <2>2, XorFacts DEF AsBlock
  <2> QED
    BY <2>1, <2>3 DEF xor_in
<1> HIDE DEF p
<1>2. Significant(Append(bs, p)) = IF s = <<>> /\ p = ZeroBlock THEN <<>>
                                   ELSE Append(s, p)
  BY SignificantAppend
<1> HIDE DEF s
<1>3. CASE s = <<>> /\ p = ZeroBlock
  BY <1>1, <1>2, <1>3 DEF gcm_mult, HashOf, HashZero, p
<1>4. CASE ~ (s = <<>> /\ p = ZeroBlock)
  <2>1. running_hash(s, p).absorbed = s /\ running_hash(s, p).pending = p
    BY DEF running_hash
  <2>2. HashZero.absorbed = <<>> /\ HashZero.pending = ZeroBlock
    BY DEF HashZero, running_hash
  <2>3. running_hash(s, p) # HashZero
    BY <1>4, <2>1, <2>2
  <2> QED
    BY <1>1, <1>2, <1>4, <2>1, <2>3 DEF gcm_mult, HashOf, p
<1> QED
  BY <1>3, <1>4

LEMMA PaddedIs ==
  ASSUME NEW bytes, IsSeq(bytes)
  PROVE  /\ IsSeq(Padded(bytes)) /\ Len(Padded(bytes)) = Blocks(Len(bytes))
         /\ \A k \in 1..Blocks(Len(bytes)) :
              /\ AsBlock(block_of(bytes, k)) = Padded(bytes)[k]
              /\ IsSeq(block_of(bytes, k))
<1>1. Len(bytes) \in Nat /\ Blocks(Len(bytes)) \in Nat
  BY BlocksFacts DEF IsSeq
<1>2. IsSeq(Padded(bytes)) /\ Len(Padded(bytes)) = Blocks(Len(bytes))
  <2>1. Padded(bytes) = [k \in 1..Blocks(Len(bytes)) |-> Padded(bytes)[k]]
    BY DEF Padded
  <2> QED
    BY <1>1, <2>1, SeqOf
<1>3. ASSUME NEW k \in 1..Blocks(Len(bytes))
      PROVE  /\ AsBlock(block_of(bytes, k)) = Padded(bytes)[k]
             /\ IsSeq(block_of(bytes, k))
  <2> DEFINE done == (k - 1) * BLOCK_LEN
             stop == IF k * BLOCK_LEN > Len(bytes) THEN Len(bytes)
                     ELSE k * BLOCK_LEN
             b == block_of(bytes, k)
  <2>1. done \in Nat /\ done < Len(bytes) /\ k * BLOCK_LEN = done + BLOCK_LEN
    BY <1>1, BlockPlace
  <2>2. b = SubSeq(bytes, done + 1, stop)
    BY DEF block_of
  <2>3. stop = IF done + BLOCK_LEN > Len(bytes) THEN Len(bytes)
               ELSE done + BLOCK_LEN
    BY <2>1
  <2> HIDE DEF done, stop, b
  <2>4. stop \in Nat /\ done + 1 \in Nat /\ done + 1 <= stop + 1
    BY <1>1, <2>1, <2>3, BlockLength
  <2>5. /\ IsSeq(b) /\ Len(b) = stop - (done + 1) + 1
        /\ \A i \in 1..(stop - (done + 1) + 1) : b[i] = bytes[done + 1 + i - 1]
    BY <2>2, <2>4, SubSeqIs
  <2>6. \A i \in 1..BLOCK_LEN :
          (IF i <= Len(b) THEN b[i] ELSE {})
            = IF done + i <= Len(bytes) THEN bytes[done + i] ELSE {}
    <3> TAKE i \in 1..BLOCK_LEN
    <3>1. Len(b) = stop - done
      BY <2>1, <2>4, <2>5
    <3>2. i <= Len(b) <=> done + i <= Len(bytes)
      BY <1>1, <2>1, <2>3, <3>1, BlockLength
    <3>3. i <= Len(b) => b[i] = bytes[done + i]
      <4>1. done + 1 + i - 1 = done + i /\ stop - (done + 1) + 1 = stop - done
        BY <2>1, <2>4
      <4> QED
        BY <2>5, <3>1, <4>1
    <3> QED
      BY <3>2, <3>3
  <2>7. Padded(bytes)[k] = [i \in 1..BLOCK_LEN |->
          IF done + i <= Len(bytes) THEN bytes[done + i] ELSE {}]
    BY DEF Padded, done
  <2> QED
    BY <2>5, <2>6, <2>7 DEF AsBlock, b
<1> QED
  BY <1>2, <1>3

\* Two sequences of blocks, the second up to its k-th.
Through(bs, cs, k) ==
  [j \in 1..(Len(bs) + k) |-> IF j <= Len(bs) THEN bs[j] ELSE cs[j - Len(bs)]]

LEMMA ThroughIs ==
  ASSUME NEW bs, NEW cs, IsSeq(bs), IsSeq(cs)
  PROVE  /\ Through(bs, cs, 0) = bs
         /\ Through(bs, cs, Len(cs)) = bs \o cs
         /\ \A k \in 0..Len(cs) : IsSeq(Through(bs, cs, k))
         /\ \A k \in 1..Len(cs) :
              Append(Through(bs, cs, k - 1), cs[k]) = Through(bs, cs, k)
<1>1. Len(bs) \in Nat /\ Len(cs) \in Nat
  BY DEF IsSeq
<1>2. \A k \in 0..Len(cs) :
        /\ IsSeq(Through(bs, cs, k)) /\ Len(Through(bs, cs, k)) = Len(bs) + k
        /\ \A j \in 1..(Len(bs) + k) :
             Through(bs, cs, k)[j] = IF j <= Len(bs) THEN bs[j]
                                     ELSE cs[j - Len(bs)]
  <2> TAKE k \in 0..Len(cs)
  <2>1. Len(bs) + k \in Nat
    BY <1>1
  <2>2. Through(bs, cs, k) = [j \in 1..(Len(bs) + k) |-> Through(bs, cs, k)[j]]
    BY DEF Through
  <2>3. IsSeq(Through(bs, cs, k)) /\ Len(Through(bs, cs, k)) = Len(bs) + k
    BY <2>1, <2>2, SeqOf
  <2> QED
    BY <2>3 DEF Through
<1>3. Through(bs, cs, 0) = bs
  <2>1. 0 \in 0..Len(cs) /\ Len(bs) + 0 = Len(bs)
    BY <1>1
  <2>2. /\ IsSeq(Through(bs, cs, 0)) /\ Len(Through(bs, cs, 0)) = Len(bs)
        /\ \A j \in 1..Len(bs) : Through(bs, cs, 0)[j] = bs[j]
    BY <1>1, <1>2, <2>1
  <2> QED
    BY <2>2, SameSeq
<1>4. Through(bs, cs, Len(cs)) = bs \o cs
  <2>1. Len(cs) \in 0..Len(cs)
    BY <1>1
  <2>2. /\ IsSeq(Through(bs, cs, Len(cs)))
        /\ Len(Through(bs, cs, Len(cs))) = Len(bs) + Len(cs)
        /\ \A j \in 1..(Len(bs) + Len(cs)) :
             Through(bs, cs, Len(cs))[j] = IF j <= Len(bs) THEN bs[j]
                                           ELSE cs[j - Len(bs)]
    BY <1>2, <2>1
  <2>3. /\ IsSeq(bs \o cs) /\ Len(bs \o cs) = Len(bs) + Len(cs)
        /\ \A j \in 1..(Len(bs) + Len(cs)) :
             (bs \o cs)[j] = IF j <= Len(bs) THEN bs[j] ELSE cs[j - Len(bs)]
    BY ConcatIs
  <2>4. \A j \in 1..(Len(bs) + Len(cs)) :
          Through(bs, cs, Len(cs))[j] = (bs \o cs)[j]
    BY <2>2, <2>3
  <2> QED
    BY <2>2, <2>3, <2>4, SameSeq
<1>5. ASSUME NEW k \in 1..Len(cs)
      PROVE  Append(Through(bs, cs, k - 1), cs[k]) = Through(bs, cs, k)
  <2> DEFINE s == Through(bs, cs, k - 1)
             t == Through(bs, cs, k)
             u == Append(s, cs[k])
             n == Len(bs) + k
  <2>1. k - 1 \in 0..Len(cs) /\ k \in 0..Len(cs) /\ n \in Nat /\ n >= 1
        /\ Len(bs) + (k - 1) = n - 1 /\ n - Len(bs) = k /\ ~ (n <= Len(bs))
    BY <1>1
  <2>2. /\ IsSeq(s) /\ Len(s) = n - 1
        /\ \A j \in 1..(n - 1) : s[j] = IF j <= Len(bs) THEN bs[j]
                                        ELSE cs[j - Len(bs)]
    BY <1>2, <2>1
  <2>3. /\ IsSeq(t) /\ Len(t) = n
        /\ \A j \in 1..n : t[j] = IF j <= Len(bs) THEN bs[j]
                                  ELSE cs[j - Len(bs)]
    BY <1>2, <2>1
  <2> HIDE DEF s, t, n
  <2>4. /\ IsSeq(u) /\ Len(u) = n - 1 + 1
        /\ \A j \in 1..(n - 1) : u[j] = s[j]
        /\ u[n - 1 + 1] = cs[k]
    BY <2>2, AppendIs
  <2>5. n - 1 + 1 = n /\ \A j \in 1..n : j \in 1..(n - 1) \/ j = n
    BY <2>1
  <2>6. \A j \in 1..n : u[j] = t[j]
    BY <2>1, <2>2, <2>3, <2>4, <2>5
  <2> HIDE DEF u
  <2>7. u = t
    BY <2>3, <2>4, <2>5, <2>6, SameSeq
  <2> QED
    BY <2>7 DEF u, s, t
<1> QED
  BY <1>2, <1>3, <1>4, <1>5

\* A function defined by steps is the one that satisfies them.
LEMMA StepsAgree ==
  ASSUME NEW N \in Nat, NEW f, NEW g,
         f[0] = g[0],
         \A k \in 1..N : f[k-1] = g[k-1] => f[k] = g[k]
  PROVE  f[N] = g[N]
<1> DEFINE T == {k \in 0..N : f[k] = g[k]}
<1>1. 0 \in T
  OBVIOUS
<1>2. ASSUME NEW k \in 0..N, k < N, k \in T PROVE k + 1 \in T
  <2>1. k + 1 \in 1..N /\ (k + 1) - 1 = k
    BY <1>2
  <2> QED
    BY <1>2, <2>1
<1> HIDE DEF T
<1>3. \A k \in 0..N : k \in T
  BY <1>1, <1>2, Induct
<1> QED
  BY <1>3 DEF T

\* The loop that hashes `bytes` takes their blocks, padded, into the hash.
LEMMA AbsorbIs ==
  ASSUME NEW H, H # Null, NEW bs, IsSeq(bs), NEW bytes, IsSeq(bytes)
  PROVE  absorb(H, HashOf(bs), bytes) = HashOf(bs \o Padded(bytes))
<1> DEFINE N == Blocks(Len(bytes))
           cs == Padded(bytes)
           st == CHOOSE step : step = [k \in 0..N |->
                   IF k = 0 THEN HashOf(bs)
                   ELSE gcm_mult(H, xor_in(step[k-1], block_of(bytes, k)))]
           g == [k \in 0..N |-> HashOf(Through(bs, cs, k))]
<1>1. N \in Nat /\ IsSeq(cs) /\ Len(cs) = N
  BY PaddedIs, BlocksFacts DEF IsSeq
<1>2. absorb(H, HashOf(bs), bytes) = st[N]
  BY DEF absorb
<1>3. \A k \in 1..N : AsBlock(block_of(bytes, k)) = cs[k]
  BY PaddedIs
<1> HIDE DEF N, cs
<1>4. \A k \in 1..N :
        gcm_mult(H, xor_in(HashOf(Through(bs, cs, k - 1)), block_of(bytes, k)))
          = HashOf(Through(bs, cs, k))
  <2> TAKE k \in 1..N
  <2>1. k - 1 \in 0..Len(cs) /\ k \in 1..Len(cs)
    BY <1>1
  <2>2. IsSeq(Through(bs, cs, k - 1))
        /\ Append(Through(bs, cs, k - 1), cs[k]) = Through(bs, cs, k)
    BY <1>1, <2>1, ThroughIs
  <2> QED
    BY <1>3, <2>2, MultiplyIn
<1>5. g = [k \in 0..N |->
             IF k = 0 THEN HashOf(bs)
             ELSE gcm_mult(H, xor_in(g[k-1], block_of(bytes, k)))]
  <2>1. ASSUME NEW k \in 0..N
        PROVE  HashOf(Through(bs, cs, k)) =
                 IF k = 0 THEN HashOf(bs)
                 ELSE gcm_mult(H, xor_in(g[k-1], block_of(bytes, k)))
    <3>1. CASE k = 0
      BY <1>1, <3>1, ThroughIs
    <3>2. CASE k # 0
      <4>1. k \in 1..N /\ k - 1 \in 0..N
        BY <1>1, <3>2
      <4> QED
        BY <1>4, <3>2, <4>1
    <3> QED
      BY <3>1, <3>2
  <2> QED
    BY <2>1
<1>6. st = [k \in 0..N |->
              IF k = 0 THEN HashOf(bs)
              ELSE gcm_mult(H, xor_in(st[k-1], block_of(bytes, k)))]
  <2> HIDE DEF g
  <2> QED
    BY <1>5, Zenon
<1>7. st[N] = g[N]
  <2>1. st[0] = g[0]
    <3> HIDE DEF st, g
    <3> QED
      BY <1>1, <1>5, <1>6
  <2>2. \A k \in 1..N : st[k-1] = g[k-1] => st[k] = g[k]
    <3> HIDE DEF st, g
    <3> QED
      BY <1>1, <1>5, <1>6
  <2> HIDE DEF st, g
  <2> QED
    BY <1>1, <2>1, <2>2, StepsAgree
<1>8. g[N] = HashOf(bs \o cs)
  <2>1. Through(bs, cs, Len(cs)) = bs \o cs
    BY <1>1, ThroughIs
  <2>2. N \in 0..N
    BY <1>1
  <2> QED
    BY <1>1, <2>1, <2>2
<1> QED
  BY <1>2, <1>7, <1>8 DEF cs

LEMMA AbsorbFirst ==
  ASSUME NEW H, H # Null, NEW bytes, IsSeq(bytes)
  PROVE  absorb(H, HashZero, bytes) = HashOf(Padded(bytes))
<1>1. IsSeq(<<>>) /\ IsSeq(Padded(bytes))
  BY EmptyIs, PaddedIs
<1>2. <<>> \o Padded(bytes) = Padded(bytes)
  BY <1>1, SeqElements, ConcatEmptySeq
<1> QED
  BY <1>1, <1>2, AbsorbIs, NoBlocks

-----------------------------------------------------------------------------
(***************************************************************************)
(* The first counter.                                                      *)
(***************************************************************************)
LEMMA OneIs == [ZeroCounter EXCEPT ![CTR_LEN] = 1] = AsBytes(1)
<1>1. ASSUME NEW i \in 1..CTR_LEN
      PROVE  [ZeroCounter EXCEPT ![CTR_LEN] = 1][i]
               = (1 \div Place[CTR_LEN - i]) % BYTE
  <2>1. CASE i = CTR_LEN
    <3>1. [ZeroCounter EXCEPT ![CTR_LEN] = 1][i] = 1
      BY <2>1 DEF ZeroCounter
    <3>2. Place[CTR_LEN - i] = 1
      BY <2>1, PlaceFacts, CounterLength
    <3>3. 1 \div 1 = 1 /\ 1 % BYTE = 1
      BY BlockAssumption
    <3> QED
      BY <3>1, <3>2, <3>3
  <2>2. CASE i # CTR_LEN
    <3>1. [ZeroCounter EXCEPT ![CTR_LEN] = 1][i] = 0
      BY <2>2 DEF ZeroCounter
    <3>2. Place[CTR_LEN - i] \in Nat \ {0} /\ Place[CTR_LEN - i] > 1
      <4>1. CTR_LEN - i \in 0..CTR_LEN /\ CTR_LEN - i > 0
        BY <2>2, CounterLength
      <4> QED
        BY <4>1, PlacesGrow
    <3>3. 1 \div Place[CTR_LEN - i] = 0
      <4>1. (0 * Place[CTR_LEN - i] + 1) \div Place[CTR_LEN - i] = 0
        BY <3>2, DivisionIs
      <4> QED
        BY <3>2, <4>1
    <3>4. 0 % BYTE = 0
      BY BlockAssumption
    <3> QED
      BY <3>1, <3>3, <3>4
  <2> QED
    BY <2>1, <2>2
<1> QED
  BY <1>1 DEF AsBytes, ZeroCounter

LEMMA OneIsCounter == AsBytes(1) \in CounterBytes
<1>1. [ZeroCounter EXCEPT ![CTR_LEN] = 1] \in CounterBytes
  <2>1. ZeroCounter \in CounterBytes /\ 1 \in 0..(BYTE - 1)
    BY BlockAssumption DEF ZeroCounter, CounterBytes
  <2> QED
    BY <2>1 DEF CounterBytes
<1> QED
  BY <1>1, OneIs

\* gcm_start's first counter is the one of the mode, for an IV of any length
\* whose bits a word can count.
LEMMA FirstCounterIs ==
  ASSUME NEW H, H # Null, NEW iv, IsSeq(iv), Len(iv) * 8 < WORD
  PROVE  first_counter(H, iv) = J0(iv)
<1>1. CASE Len(iv) = IV_LEN
  BY <1>1, OneIs DEF first_counter, J0
<1>2. CASE Len(iv) # IV_LEN
  <2> DEFINE bits == [ZeroBlock EXCEPT ![BLOCK_LEN] =
                        IF iv = <<>> THEN {} ELSE {[bits |-> Len(iv) * 8]}]
             h == gcm_mult(H, xor_in(absorb(H, HashZero, iv), iv_bits(Len(iv))))
             blocks == Significant(Padded(iv) \o <<bits>>)
  <2>1. iv_bits(Len(iv)) = bits
    <3>1. Len(iv) \in Nat /\ WORD \in Nat \ {0}
      BY BlockAssumption DEF IsSeq
    <3>2. (Len(iv) * 8) % WORD = Len(iv) * 8
      BY <3>1
    <3>3. Len(iv) * 8 = 0 <=> iv = <<>>
      BY <3>1, EmptyIs
    <3> QED
      BY <3>2, <3>3 DEF iv_bits
  <2>2. AsBlock(bits) = bits
    <3>1. bits = [i \in 1..BLOCK_LEN |-> bits[i]]
      BY DEF ZeroBlock
    <3> HIDE DEF bits
    <3>2. Len(bits) = BLOCK_LEN
      BY <3>1, BlockLength, SeqOf
    <3>3. \A i \in 1..BLOCK_LEN : i <= Len(bits)
      BY <3>2
    <3> QED
      BY <3>1, <3>3 DEF AsBlock
  <2> HIDE DEF bits
  <2>3. h = HashOf(Append(Padded(iv), bits))
    BY <2>1, <2>2, AbsorbFirst, PaddedIs, MultiplyIn
  <2>4. Append(Padded(iv), bits) = Padded(iv) \o <<bits>>
    <3> DEFINE S == {Padded(iv)[i] : i \in 1..Len(Padded(iv))} \cup {bits}
    <3>1. Padded(iv) \in Seq(S) /\ bits \in S
      <4> DEFINE A == {Padded(iv)[i] : i \in 1..Len(Padded(iv))}
      <4>1. Padded(iv) \in Seq(A) /\ A \subseteq S /\ bits \in S
        BY PaddedIs, SeqElements
      <4> HIDE DEF A, S
      <4> QED
        BY <4>1, SeqMonotonic
    <3> HIDE DEF S
    <3> QED
      BY <3>1, AppendIsConcat
  <2>5. h.absorbed = blocks
    BY <2>3, <2>4 DEF HashOf, running_hash
  <2>6. first_counter(H, iv)
          = counter_block(<<>>, h.absorbed, HashedCounter(h.absorbed))
    BY <1>2 DEF first_counter
  <2>7. J0(iv) = counter_block(<<>>, blocks, HashedCounter(blocks))
    BY <1>2 DEF J0, bits
  <2> QED
    BY <2>5, <2>6, <2>7
<1> QED
  BY <1>1, <1>2

-----------------------------------------------------------------------------
(***************************************************************************)
(* The loop of gcm_update.                                                 *)
(***************************************************************************)
IsCounter(y) == y = counter_block(y.native, y.hashed, y.ctr)
                  /\ y.ctr \in CounterBytes

\* The counter k blocks after y, and byte i of the keystream behind y.
Later(y, k) == counter_block(y.native, y.hashed, CounterAfter(y.ctr, k))
MaskFrom(key, y, i) ==
  aes_cipher(key, Later(y, 1 + ((i - 1) \div BLOCK_LEN)))
    [1 + ((i - 1) % BLOCK_LEN)]

\* Input and output are in the memory, and the same place or apart.
Room(mem, src, dst, n) ==
  /\ src \in Nat /\ dst \in Nat /\ n \in Nat
  /\ mem = [a \in DOMAIN mem |-> mem[a]]
  /\ \A i \in 1..n : src + i \in DOMAIN mem /\ dst + i \in DOMAIN mem
  /\ src = dst \/ src + n <= dst \/ dst + n <= src

\* The memory when the first p bytes have been done, and the ciphertext.
Written(key, y, mem, src, dst, p) ==
  [a \in DOMAIN mem |->
     IF a \in (dst + 1)..(dst + p)
     THEN xor(MaskFrom(key, y, a - dst), mem[src + (a - dst)]) ELSE mem[a]]
CipherOf(mode, key, y, mem, src, n) ==
  [i \in 1..n |->
     IF mode = "ENCRYPT" THEN xor(MaskFrom(key, y, i), mem[src + i])
     ELSE mem[src + i]]

\* Bytes done after k blocks, and the hash then.
Done(n, k) == IF k * BLOCK_LEN > n THEN n ELSE k * BLOCK_LEN
HashAfter(H, buf, bs, cs, k) ==
  IF H = Null THEN IF k = 0 THEN buf ELSE HashZero
  ELSE HashOf(Through(bs, cs, k))

LEMMA DoneIs ==
  ASSUME NEW n \in Nat
  PROVE  /\ Done(n, 0) = 0 /\ Done(n, Blocks(n)) = n
         /\ \A k \in 1..Blocks(n) : LET done == (k - 1) * BLOCK_LEN
                                        use == IF n - done < BLOCK_LEN
                                               THEN n - done ELSE BLOCK_LEN
            IN  /\ done \in Nat /\ use \in 1..BLOCK_LEN
                /\ Done(n, k - 1) = done /\ Done(n, k) = done + use
                /\ done + use <= n
                /\ \A i \in 1..BLOCK_LEN : i <= use <=> done + i <= n
<1>1. Done(n, 0) = 0
  BY BlockLength DEF Done
<1>2. Done(n, Blocks(n)) = n
  <2>1. n <= Blocks(n) * BLOCK_LEN /\ Blocks(n) * BLOCK_LEN \in Nat
    BY BlocksFacts, BlockLength
  <2> QED
    BY <2>1 DEF Done
<1>3. ASSUME NEW k \in 1..Blocks(n),
             NEW done, done = (k - 1) * BLOCK_LEN,
             NEW use, use = IF n - done < BLOCK_LEN THEN n - done ELSE BLOCK_LEN
      PROVE  /\ done \in Nat /\ use \in 1..BLOCK_LEN
             /\ Done(n, k - 1) = done /\ Done(n, k) = done + use
             /\ done + use <= n
             /\ \A i \in 1..BLOCK_LEN : i <= use <=> done + i <= n
  <2>1. done \in Nat /\ done < n /\ k * BLOCK_LEN = done + BLOCK_LEN
    BY <1>3, BlockPlace
  <2>2. Done(n, k - 1) = done
    BY <1>3, <2>1 DEF Done
  <2> QED
    BY <1>3, <2>1, <2>2, BlockLength DEF Done
<1> QED
  BY <1>1, <1>2, <1>3

\* The byte i behind `done` bytes, in block k, is masked with that block.
LEMMA MaskInBlock ==
  ASSUME NEW key, NEW y, NEW k \in Nat, k >= 1, NEW i \in 1..BLOCK_LEN
  PROVE  MaskFrom(key, y, (k - 1) * BLOCK_LEN + i) = aes_cipher(key, Later(y, k))[i]
<1> DEFINE x == (k - 1) * BLOCK_LEN + i
<1>1. PICK q \in Nat, r \in Nat : k = q + 1 /\ i = r + 1
  <2>1. k - 1 \in Nat /\ i - 1 \in Nat
    OBVIOUS
  <2> QED
    BY <2>1
<1>2. r < BLOCK_LEN /\ BLOCK_LEN \in Nat \ {0}
  BY <1>1, BlockLength
<1>3. (q * BLOCK_LEN + r) \div BLOCK_LEN = q /\ (q * BLOCK_LEN + r) % BLOCK_LEN = r
  BY <1>2, DivisionIs
<1>4. x - 1 = q * BLOCK_LEN + r
  <2>1. k - 1 = q /\ q * BLOCK_LEN \in Nat
    BY <1>1, <1>2
  <2> QED
    BY <1>1, <2>1
<1>5. 1 + ((x - 1) \div BLOCK_LEN) = k /\ 1 + ((x - 1) % BLOCK_LEN) = i
  <2>1. (x - 1) \div BLOCK_LEN = q /\ (x - 1) % BLOCK_LEN = r
    BY <1>3, <1>4
  <2> HIDE DEF x
  <2> QED
    BY <1>1, <2>1
<1> HIDE DEF x
<1>6. MaskFrom(key, y, x) = aes_cipher(key, Later(y, k))[i]
  BY <1>5 DEF MaskFrom
<1> QED
  BY <1>6 DEF x

UpdateStep(c, src, dst, n, last, k) ==
  LET done == (k - 1) * BLOCK_LEN
      use  == IF n - done < BLOCK_LEN THEN n - done ELSE BLOCK_LEN
      y    == counter_block(last.y.native, last.y.hashed, increment(last.y.ctr))
      new  == crypted(last.mem, aes_cipher(c.rk, y), src + done, dst + done, use)
      data == hashed(c.mode, last.mem, new, src + done, dst + done, use)
  IN  [y |-> y, mem |-> new, buf |-> gcm_mult(c.H, xor_in(last.buf, data))]

StateAfter(c, mem, src, dst, n, bs, k) ==
  [y |-> Later(c.y, k),
   mem |-> Written(c.rk, c.y, mem, src, dst, Done(n, k)),
   buf |-> HashAfter(c.H, c.buf, bs,
                     Padded(CipherOf(c.mode, c.rk, c.y, mem, src, n)), k)]

LEMMA CipherIs ==
  ASSUME NEW mode, NEW key, NEW y, NEW mem, NEW src, NEW n \in Nat
  PROVE  /\ IsSeq(CipherOf(mode, key, y, mem, src, n))
         /\ Len(CipherOf(mode, key, y, mem, src, n)) = n
<1> DEFINE ct == CipherOf(mode, key, y, mem, src, n)
<1>1. ct = [i \in 1..n |-> ct[i]]
  BY DEF CipherOf
<1> HIDE DEF ct
<1>2. IsSeq(ct) /\ Len(ct) = n
  BY <1>1, SeqOf
<1> QED
  BY <1>2 DEF ct

\* One block, the step for each part of the state.
LEMMA StepOfCounter ==
  ASSUME NEW c, IsCounter(c.y), NEW mem, NEW src, NEW dst, NEW n, NEW bs,
         NEW k \in Nat, k >= 1, NEW last,
         last = StateAfter(c, mem, src, dst, n, bs, k - 1)
  PROVE  UpdateStep(c, src, dst, n, last, k).y = Later(c.y, k)
<1>1. last.y = Later(c.y, k - 1)
  BY DEF StateAfter
<1>2. /\ last.y.native = c.y.native /\ last.y.hashed = c.y.hashed
      /\ last.y.ctr = CounterAfter(c.y.ctr, k - 1)
  BY <1>1 DEF Later, counter_block
<1>3. increment(CounterAfter(c.y.ctr, k - 1)) = CounterAfter(c.y.ctr, k)
  <2>1. k - 1 \in Nat /\ (k - 1) + 1 = k
    OBVIOUS
  <2> QED
    BY <2>1, CounterSteps DEF IsCounter
<1> QED
  BY <1>2, <1>3 DEF UpdateStep, Later

\* The memory: what the block reads has not been written yet.
LEMMA StepOfMemory ==
  ASSUME NEW c, IsCounter(c.y), NEW mem, NEW src, NEW dst, NEW n,
         Room(mem, src, dst, n), NEW bs, NEW k \in 1..Blocks(n), NEW last,
         last = StateAfter(c, mem, src, dst, n, bs, k - 1)
  PROVE  /\ UpdateStep(c, src, dst, n, last, k).mem
              = Written(c.rk, c.y, mem, src, dst, Done(n, k))
         /\ \A i \in 1..n : Done(n, k - 1) < i => last.mem[src + i] = mem[src + i]
<1> DEFINE done == (k - 1) * BLOCK_LEN
           use == IF n - done < BLOCK_LEN THEN n - done ELSE BLOCK_LEN
           e == aes_cipher(c.rk, Later(c.y, k))
           M(i) == MaskFrom(c.rk, c.y, i)
           W(p) == Written(c.rk, c.y, mem, src, dst, p)
<1>0. src \in Nat /\ dst \in Nat /\ n \in Nat /\ k \in Nat /\ k >= 1
      /\ (src = dst \/ src + n <= dst \/ dst + n <= src)
      /\ \A i \in 1..n : src + i \in DOMAIN mem
  <2>1. n \in Nat
    BY DEF Room
  <2> QED
    BY <2>1, BlocksFacts DEF Room
<1>1. /\ done \in Nat /\ use \in 1..BLOCK_LEN /\ done + use <= n
      /\ Done(n, k - 1) = done /\ Done(n, k) = done + use
  BY <1>0, DoneIs
<1>2. UpdateStep(c, src, dst, n, last, k).mem
        = crypted(W(done), e, src + done, dst + done, use)
  <2>1. last.mem = W(done)
    BY <1>1 DEF StateAfter
  <2>2. UpdateStep(c, src, dst, n, last, k).y = Later(c.y, k)
    BY <1>0, StepOfCounter
  <2> HIDE DEF W
  <2> QED
    BY <2>1, <2>2 DEF UpdateStep
<1>3. \A i \in 1..BLOCK_LEN : M(done + i) = e[i]
  BY <1>0, MaskInBlock
<1> HIDE DEF e, M, done, use
<1>4. DOMAIN W(done) = DOMAIN mem
      /\ \A a \in DOMAIN mem :
           W(done)[a] = IF a \in (dst + 1)..(dst + done)
                        THEN xor(M(a - dst), mem[src + (a - dst)]) ELSE mem[a]
  BY DEF Written, M
<1>5. \A i \in 1..n : done < i => W(done)[src + i] = mem[src + i]
  <2> TAKE i \in 1..n
  <2> HAVE done < i
  <2>1. src + i \in DOMAIN mem /\ src + i \notin (dst + 1)..(dst + done)
    BY <1>0, <1>1
  <2> QED
    BY <1>4, <2>1
<1>6. \A a \in DOMAIN mem :
        (IF a \in (dst + done + 1)..(dst + done + use)
         THEN xor(e[a - (dst + done)], W(done)[src + done + (a - (dst + done))])
         ELSE W(done)[a])
        = IF a \in (dst + 1)..(dst + (done + use))
          THEN xor(M(a - dst), mem[src + (a - dst)]) ELSE mem[a]
  <2> TAKE a \in DOMAIN mem
  <2> HIDE DEF W
  <2>1. CASE a \in (dst + done + 1)..(dst + done + use)
    <3> DEFINE i == a - (dst + done)
    <3>1. i \in 1..BLOCK_LEN /\ i \in Nat /\ done + i = a - dst
          /\ done + i \in 1..n /\ done < done + i
          /\ src + done + i = src + (done + i)
          /\ a \in (dst + 1)..(dst + (done + use))
      BY <1>0, <1>1, <2>1, BlockLength
    <3> HIDE DEF i
    <3>2. e[i] = M(done + i) /\ W(done)[src + (done + i)] = mem[src + (done + i)]
      BY <1>3, <1>5, <3>1
    <3>3. e[i] = M(a - dst) /\ W(done)[src + done + i] = mem[src + (a - dst)]
      BY <3>1, <3>2
    <3> QED
      BY <2>1, <3>1, <3>3 DEF i
  <2>2. CASE a \notin (dst + done + 1)..(dst + done + use)
    <3>1. a \in (dst + 1)..(dst + (done + use)) <=> a \in (dst + 1)..(dst + done)
      BY <1>0, <1>1, <2>2, BlockLength
    <3> QED
      BY <1>4, <2>2, <3>1
  <2> QED
    BY <2>1, <2>2
<1>7. crypted(W(done), e, src + done, dst + done, use) = W(done + use)
  <2>1. W(done + use) = [a \in DOMAIN mem |->
           IF a \in (dst + 1)..(dst + (done + use))
           THEN xor(M(a - dst), mem[src + (a - dst)]) ELSE mem[a]]
    BY DEF Written, M
  <2>2. crypted(W(done), e, src + done, dst + done, use) = [a \in DOMAIN mem |->
          IF a \in (dst + done + 1)..(dst + done + use)
          THEN xor(e[a - (dst + done)], W(done)[src + done + (a - (dst + done))])
          ELSE W(done)[a]]
    <3> HIDE DEF W
    <3> QED
      BY <1>4 DEF crypted
  <2> HIDE DEF W
  <2> QED
    BY <1>6, <2>1, <2>2
<1>8. \A i \in 1..n : Done(n, k - 1) < i => last.mem[src + i] = mem[src + i]
  <2>1. last.mem = W(done)
    BY <1>1 DEF StateAfter, done
  <2> HIDE DEF W
  <2> QED
    BY <1>1, <1>5, <2>1 DEF done
<1> QED
  BY <1>1, <1>2, <1>7, <1>8 DEF done, use, e

\* The hash takes in the block of ciphertext.
LEMMA StepOfHash ==
  ASSUME NEW c, IsCounter(c.y), NEW mem, NEW src, NEW dst, NEW n,
         Room(mem, src, dst, n), NEW bs, IsSeq(bs), NEW k \in 1..Blocks(n),
         NEW last, last = StateAfter(c, mem, src, dst, n, bs, k - 1)
  PROVE  UpdateStep(c, src, dst, n, last, k).buf
           = HashAfter(c.H, c.buf, bs,
                       Padded(CipherOf(c.mode, c.rk, c.y, mem, src, n)), k)
<1> DEFINE done == (k - 1) * BLOCK_LEN
           use == IF n - done < BLOCK_LEN THEN n - done ELSE BLOCK_LEN
           ct == CipherOf(c.mode, c.rk, c.y, mem, src, n)
           M(i) == MaskFrom(c.rk, c.y, i)
           new == UpdateStep(c, src, dst, n, last, k).mem
           data == hashed(c.mode, last.mem, new, src + done, dst + done, use)
<1>0. src \in Nat /\ dst \in Nat /\ n \in Nat /\ k \in Nat /\ k >= 1
      /\ \A i \in 1..n : dst + i \in DOMAIN mem
  <2>1. n \in Nat
    BY DEF Room
  <2> QED
    BY <2>1, BlocksFacts DEF Room
<1>1. /\ done \in Nat /\ use \in 1..BLOCK_LEN /\ done + use <= n
      /\ Done(n, k - 1) = done /\ Done(n, k) = done + use
      /\ \A i \in 1..BLOCK_LEN : i <= use <=> done + i <= n
  BY <1>0, DoneIs
<1>2. UpdateStep(c, src, dst, n, last, k).buf = gcm_mult(c.H, xor_in(last.buf, data))
  BY DEF UpdateStep
<1>3. new = Written(c.rk, c.y, mem, src, dst, done + use)
      /\ \A i \in 1..n : done < i => last.mem[src + i] = mem[src + i]
  BY <1>1, StepOfMemory
<1> HIDE DEF new, done, use
<1>4. \A i \in 1..use : data[i] = ct[done + i]
  <2> TAKE i \in 1..use
  <2>1. /\ done + i \in 1..n /\ done < done + i /\ done + i \in Nat
        /\ src + done + i = src + (done + i) /\ dst + done + i = dst + (done + i)
        /\ dst + (done + i) \in (dst + 1)..(dst + (done + use))
        /\ dst + (done + i) - dst = done + i
    BY <1>0, <1>1, BlockLength
  <2>2. dst + (done + i) \in DOMAIN mem
    BY <1>0, <2>1
  <2>3. new[dst + (done + i)] = xor(M(done + i), mem[src + (done + i)])
    <3> DEFINE a == dst + (done + i)
    <3>0. a \in DOMAIN mem
      BY <2>2
    <3>1. a \in (dst + 1)..(dst + (done + use)) /\ a - dst = done + i
      BY <1>0, <2>1
    <3> HIDE DEF a
    <3>2. new[a] = xor(M(a - dst), mem[src + (a - dst)])
      BY <1>3, <3>0, <3>1 DEF Written
    <3> QED
      BY <3>1, <3>2 DEF a
  <2>4. last.mem[src + (done + i)] = mem[src + (done + i)]
    BY <1>3, <2>1
  <2>5. data[i] = IF c.mode = "ENCRYPT" THEN new[dst + (done + i)]
                  ELSE last.mem[src + (done + i)]
    BY <2>1 DEF hashed
  <2>6. ct[done + i] = IF c.mode = "ENCRYPT"
                       THEN xor(M(done + i), mem[src + (done + i)])
                       ELSE mem[src + (done + i)]
    BY <2>1 DEF CipherOf
  <2> QED
    BY <2>3, <2>4, <2>5, <2>6
<1>5. Len(data) = use
  <2>1. data = [i \in 1..use |-> data[i]]
    BY DEF hashed
  <2> HIDE DEF data
  <2> QED
    BY <1>1, <2>1, SeqOf
<1>6. IsSeq(ct) /\ Len(ct) = n
  BY <1>0, CipherIs
<1>7. AsBlock(data) = Padded(ct)[k]
  <2> HIDE DEF data, ct
  <2>1. \A i \in 1..BLOCK_LEN :
          (IF i <= Len(data) THEN data[i] ELSE {})
            = IF done + i <= n THEN ct[done + i] ELSE {}
    <3> TAKE i \in 1..BLOCK_LEN
    <3>1. i <= use => i \in 1..use
      BY <1>1, BlockLength
    <3> QED
      BY <1>1, <1>4, <1>5, <3>1
  <2>2. Padded(ct)[k] = [i \in 1..BLOCK_LEN |->
                           IF done + i <= n THEN ct[done + i] ELSE {}]
    BY <1>6 DEF Padded, done
  <2> QED
    BY <2>1, <2>2 DEF AsBlock
<1>8. last.buf = HashAfter(c.H, c.buf, bs, Padded(ct), k - 1)
  BY DEF StateAfter
<1> HIDE DEF data, ct
<1>9. CASE c.H = Null
  BY <1>0, <1>2, <1>9 DEF HashAfter, gcm_mult, ct
<1>10. CASE c.H # Null
  <2>1. IsSeq(Padded(ct)) /\ Len(Padded(ct)) = Blocks(n)
    BY <1>6, PaddedIs
  <2>2. k - 1 \in 0..Len(Padded(ct)) /\ k \in 1..Len(Padded(ct))
    BY <1>0, <2>1
  <2>3. IsSeq(Through(bs, Padded(ct), k - 1))
        /\ Append(Through(bs, Padded(ct), k - 1), Padded(ct)[k])
             = Through(bs, Padded(ct), k)
    BY <2>1, <2>2, ThroughIs
  <2>4. last.buf = HashOf(Through(bs, Padded(ct), k - 1))
    BY <1>8, <1>10 DEF HashAfter
  <2>5. gcm_mult(c.H, xor_in(last.buf, data))
          = HashOf(Append(Through(bs, Padded(ct), k - 1), AsBlock(data)))
    BY <1>10, <2>3, <2>4, MultiplyIn
  <2> QED
    BY <1>2, <1>7, <1>10, <2>3, <2>5 DEF HashAfter, ct
<1> QED
  BY <1>9, <1>10

\* What gcm_update does, for any number of bytes.
LEMMA UpdateIs ==
  ASSUME NEW c, IsCounter(c.y), NEW mem, NEW src, NEW dst, NEW n,
         Room(mem, src, dst, n), NEW bs, IsSeq(bs),
         c.H = Null \/ c.buf = HashOf(bs)
  PROVE  LET did == gcm_update(c, mem, src, dst, n)
             ct  == CipherOf(c.mode, c.rk, c.y, mem, src, n)
         IN  /\ did.mem = Written(c.rk, c.y, mem, src, dst, n)
             /\ did.ctx = gcm_context(c.mode, c.len + n, c.add_len, c.H,
                            c.base_ectr, Later(c.y, Blocks(n)), did.ctx.buf, c.rk)
             /\ c.H # Null => did.ctx.buf = HashOf(bs \o Padded(ct))
<1> DEFINE N == Blocks(n)
           First == [y |-> c.y, buf |-> c.buf, mem |-> mem]
           st == CHOOSE step : step = [k \in 0..N |->
                   IF k = 0 THEN First
                   ELSE UpdateStep(c, src, dst, n, step[k-1], k)]
           S(k) == StateAfter(c, mem, src, dst, n, bs, k)
           g == [k \in 0..N |-> S(k)]
           did == gcm_update(c, mem, src, dst, n)
           ct == CipherOf(c.mode, c.rk, c.y, mem, src, n)
<1>0. n \in Nat /\ N \in Nat
  BY BlocksFacts DEF Room
<1>1. /\ did.mem = st[N].mem
      /\ did.ctx = gcm_context(c.mode, c.len + n, c.add_len, c.H, c.base_ectr,
                               st[N].y, st[N].buf, c.rk)
  BY DEF gcm_update, UpdateStep
<1>2. S(0) = First
  <2>1. Later(c.y, 0) = c.y
    BY CounterSteps DEF Later, IsCounter
  <2>2. Written(c.rk, c.y, mem, src, dst, 0) = mem
    <3>1. \A a \in DOMAIN mem : a \notin (dst + 1)..(dst + 0)
      BY DEF Room
    <3>2. Written(c.rk, c.y, mem, src, dst, 0) = [a \in DOMAIN mem |-> mem[a]]
      BY <3>1 DEF Written
    <3> QED
      BY <3>2 DEF Room
  <2>3. HashAfter(c.H, c.buf, bs, Padded(ct), 0) = c.buf
    BY <1>0, CipherIs, PaddedIs, ThroughIs DEF HashAfter
  <2>4. Done(n, 0) = 0
    BY <1>0, DoneIs
  <2> QED
    BY <2>1, <2>2, <2>3, <2>4 DEF StateAfter
<1>3. \A k \in 1..N : UpdateStep(c, src, dst, n, S(k - 1), k) = S(k)
  <2> TAKE k \in 1..N
  <2>1. PICK last : last = S(k - 1)
    OBVIOUS
  <2> DEFINE u == UpdateStep(c, src, dst, n, last, k)
  <2>2. u = [y |-> u.y, mem |-> u.mem, buf |-> u.buf]
    BY DEF UpdateStep
  <2>3. k \in Nat /\ k >= 1
    BY <1>0
  <2>4. u.y = Later(c.y, k)
    BY <2>1, <2>3, StepOfCounter
  <2>5. u.mem = Written(c.rk, c.y, mem, src, dst, Done(n, k))
    BY <2>1, StepOfMemory
  <2>6. u.buf = HashAfter(c.H, c.buf, bs, Padded(ct), k)
    BY <2>1, StepOfHash
  <2> HIDE DEF u
  <2>7. u = S(k)
    BY <2>2, <2>4, <2>5, <2>6 DEF StateAfter
  <2> QED
    BY <2>1, <2>7 DEF u
<1> HIDE DEF First, S, did, ct, N
<1>4. g = [k \in 0..N |-> IF k = 0 THEN First
                          ELSE UpdateStep(c, src, dst, n, g[k-1], k)]
  <2>1. ASSUME NEW k \in 0..N
        PROVE  S(k) = IF k = 0 THEN First
                      ELSE UpdateStep(c, src, dst, n, g[k-1], k)
    <3>1. CASE k = 0
      BY <1>2, <3>1
    <3>2. CASE k # 0
      <4>1. k \in 1..N /\ k - 1 \in 0..N
        BY <1>0, <3>2
      <4> QED
        BY <1>3, <3>2, <4>1
    <3> QED
      BY <3>1, <3>2
  <2> QED
    BY <2>1
<1>5. st = [k \in 0..N |-> IF k = 0 THEN First
                           ELSE UpdateStep(c, src, dst, n, st[k-1], k)]
  <2> HIDE DEF g
  <2> QED
    BY <1>4, Zenon
<1> HIDE DEF st, g
<1>6. st[N] = g[N]
  <2>1. st[0] = g[0]
    BY <1>0, <1>4, <1>5
  <2>2. \A k \in 1..N : st[k-1] = g[k-1] => st[k] = g[k]
    BY <1>0, <1>4, <1>5
  <2> QED
    BY <1>0, <2>1, <2>2, StepsAgree
<1>7. st[N] = S(N)
  <2>1. N \in 0..N
    BY <1>0
  <2> QED
    BY <1>6, <2>1 DEF g
<1>8. /\ st[N].y = Later(c.y, N)
      /\ st[N].mem = Written(c.rk, c.y, mem, src, dst, n)
      /\ st[N].buf = HashAfter(c.H, c.buf, bs, Padded(ct), N)
  <2>1. Done(n, N) = n
    BY <1>0, DoneIs DEF N
  <2> QED
    BY <1>7, <2>1 DEF S, StateAfter, ct
<1>9. c.H # Null => HashAfter(c.H, c.buf, bs, Padded(ct), N) = HashOf(bs \o Padded(ct))
  <2>1. IsSeq(Padded(ct)) /\ Len(Padded(ct)) = N
    BY <1>0, CipherIs, PaddedIs DEF ct, N
  <2> QED
    BY <2>1, ThroughIs DEF HashAfter
<1>10. did.ctx.buf = st[N].buf
  BY <1>1 DEF gcm_context
<1> QED
  BY <1>1, <1>8, <1>9, <1>10 DEF did, ct, N

-----------------------------------------------------------------------------
(***************************************************************************)
(* Messages in one call.                                                   *)
(***************************************************************************)
\* Counter mode from any counter.
CryptFrom(key, y, bytes) ==
  [i \in 1..Len(bytes) |-> xor(bytes[i], MaskFrom(key, y, i))]

LEMMA CryptIsFrom ==
  ASSUME NEW key, NEW iv
  PROVE  /\ \A i : Keystream(key, iv, i) = MaskFrom(key, J0(iv), i)
         /\ \A bytes : Crypt(key, iv, bytes) = CryptFrom(key, J0(iv), bytes)
<1>1. \A i : Keystream(key, iv, i) = MaskFrom(key, J0(iv), i)
  BY DEF Keystream, MaskFrom, Later, CounterAfter
<1> QED
  BY <1>1 DEF Crypt, CryptFrom

LEMMA CryptFromIs ==
  ASSUME NEW key, NEW y, NEW bytes, IsSeq(bytes)
  PROVE  /\ IsSeq(CryptFrom(key, y, bytes))
         /\ Len(CryptFrom(key, y, bytes)) = Len(bytes)
         /\ CryptFrom(key, y, CryptFrom(key, y, bytes)) = bytes
<1> DEFINE out == CryptFrom(key, y, bytes)
           back == CryptFrom(key, y, out)
<1>1. \A i \in 1..Len(bytes) : out[i] = xor(bytes[i], MaskFrom(key, y, i))
  BY DEF CryptFrom
<1>2. out = [i \in 1..Len(bytes) |-> out[i]]
  BY DEF CryptFrom
<1> HIDE DEF out
<1>3. IsSeq(out) /\ Len(out) = Len(bytes)
  BY <1>2, SeqOf DEF IsSeq
<1>4. back = [i \in 1..Len(bytes) |-> xor(out[i], MaskFrom(key, y, i))]
  BY <1>3 DEF CryptFrom
<1>5. \A i \in 1..Len(bytes) : xor(out[i], MaskFrom(key, y, i)) = bytes[i]
  BY <1>1, XorFacts
<1>6. back = [i \in 1..Len(bytes) |-> bytes[i]]
  BY <1>4, <1>5
<1> QED
  BY <1>3, <1>6 DEF out, IsSeq

\* These bytes are in the memory behind src.
Holds(mem, src, bytes) ==
  IsSeq(bytes) /\ \A i \in 1..Len(bytes) : mem[src + i] = bytes[i]

\* n values behind p.
Cut(w, p, n) == SubSeq(w, p + 1, p + n)

LEMMA CutIs ==
  ASSUME NEW w, NEW p \in Nat, NEW n \in Nat
  PROVE  /\ IsSeq(Cut(w, p, n)) /\ Len(Cut(w, p, n)) = n
         /\ \A i \in 1..n : Cut(w, p, n)[i] = w[p + i]
<1>1. PICK a \in Nat, b \in Nat : a = p + 1 /\ b = p + n
  OBVIOUS
<1>2. a <= b + 1 /\ b - a + 1 = n /\ \A i \in 1..n : a + i - 1 = p + i
  BY <1>1
<1>3. /\ IsSeq(SubSeq(w, a, b)) /\ Len(SubSeq(w, a, b)) = b - a + 1
      /\ \A i \in 1..(b - a + 1) : SubSeq(w, a, b)[i] = w[a + i - 1]
  <2>1. \A m, k \in Nat : m <= k + 1 =>
          /\ IsSeq(SubSeq(w, m, k)) /\ Len(SubSeq(w, m, k)) = k - m + 1
          /\ \A i \in 1..(k - m + 1) : SubSeq(w, m, k)[i] = w[m + i - 1]
    BY SubSeqIs
  <2> QED
    BY <1>2, <2>1
<1>4. SubSeq(w, a, b) = Cut(w, p, n)
  BY <1>1 DEF Cut
<1> QED
  BY <1>2, <1>3, <1>4

\* What a call writes is the input in counter mode, and what it hashes is the
\* ciphertext.
LEMMA OutputIs ==
  ASSUME NEW key, NEW y, NEW mem, NEW src, NEW dst, NEW bytes,
         Room(mem, src, dst, Len(bytes)), Holds(mem, src, bytes)
  PROVE  Cut(Written(key, y, mem, src, dst, Len(bytes)), dst, Len(bytes))
           = CryptFrom(key, y, bytes)
<1> DEFINE n == Len(bytes)
           M(i) == MaskFrom(key, y, i)
           out == CryptFrom(key, y, bytes)
           w == Written(key, y, mem, src, dst, n)
           cut == Cut(w, dst, n)
<1> USE DEF Holds
<1>0. n \in Nat /\ dst \in Nat /\ src \in Nat
      /\ \A i \in 1..n : dst + i \in DOMAIN mem
  BY DEF Room
<1>1. out = [i \in 1..n |-> xor(bytes[i], M(i))]
  BY DEF CryptFrom
<1>2. \A i \in 1..n : w[dst + i] = xor(bytes[i], M(i))
  <2> TAKE i \in 1..n
  <2> DEFINE a == dst + i
  <2>1. a \in DOMAIN mem
    BY <1>0
  <2>2. a \in (dst + 1)..(dst + n) /\ a - dst = i
    BY <1>0
  <2> HIDE DEF a
  <2>3. w[a] = xor(M(a - dst), mem[src + (a - dst)])
    BY <2>1, <2>2 DEF Written
  <2>4. w[a] = xor(M(i), bytes[i])
    BY <2>2, <2>3
  <2> QED
    BY <2>4, XorFacts DEF a
<1> HIDE DEF w
<1>3. IsSeq(cut) /\ Len(cut) = n /\ \A i \in 1..n : cut[i] = w[dst + i]
  BY <1>0, CutIs
<1> HIDE DEF cut
<1>4. cut = out
  <2>1. cut = [i \in 1..n |-> cut[i]]
    BY <1>3 DEF IsSeq
  <2> QED
    BY <1>1, <1>2, <1>3, <2>1
<1> QED
  BY <1>4 DEF cut, w

LEMMA CiphertextIs ==
  ASSUME NEW key, NEW y, NEW mem, NEW src, NEW n \in Nat,
         NEW bytes, Holds(mem, src, bytes), Len(bytes) = n, NEW mode
  PROVE  CipherOf(mode, key, y, mem, src, n)
           = IF mode = "ENCRYPT" THEN CryptFrom(key, y, bytes) ELSE bytes
<1> USE DEF Holds
<1>1. CASE mode = "ENCRYPT"
  <2>1. \A i \in 1..n : xor(MaskFrom(key, y, i), mem[src + i])
                          = xor(bytes[i], MaskFrom(key, y, i))
    BY XorFacts
  <2>2. CipherOf(mode, key, y, mem, src, n)
          = [i \in 1..n |-> xor(MaskFrom(key, y, i), mem[src + i])]
    BY <1>1 DEF CipherOf
  <2>3. CryptFrom(key, y, bytes)
          = [i \in 1..n |-> xor(bytes[i], MaskFrom(key, y, i))]
    BY DEF CryptFrom
  <2> QED
    BY <1>1, <2>1, <2>2, <2>3
<1>2. CASE mode # "ENCRYPT"
  <2>1. CipherOf(mode, key, y, mem, src, n) = [i \in 1..n |-> mem[src + i]]
    BY <1>2 DEF CipherOf
  <2>2. bytes = [i \in 1..n |-> bytes[i]]
    BY DEF IsSeq
  <2> QED
    BY <1>2, <2>1, <2>2
<1> QED
  BY <1>1, <1>2

\* A context in the middle of a message: keyed, started with this IV and this
\* data, and with this ciphertext hashed.
InMessageOf(c, key, iv, add, ct) ==
  /\ c.H = key /\ c.rk = key
  /\ c.len = Len(ct) /\ c.add_len = Len(add)
  /\ c.base_ectr = aes_cipher(key, J0(iv))
  /\ c.buf = HashOf(Padded(add) \o Padded(ct))

GoodIV(iv) == /\ IsSeq(iv) /\ Len(iv) * 8 < WORD
              /\ J0(iv).ctr \in CounterBytes

LEMMA J0IsCounter == \A iv : GoodIV(iv) => IsCounter(J0(iv))
  BY DEF GoodIV, IsCounter, J0, counter_block

LEMMA StartIs ==
  ASSUME NEW c, NEW key, key # Null, c.H = key, c.rk = key, NEW mode, NEW iv,
         GoodIV(iv), NEW add, IsSeq(add)
  PROVE  /\ InMessageOf(gcm_start(c, mode, iv, add), key, iv, add, <<>>)
         /\ gcm_start(c, mode, iv, add).mode = mode
         /\ gcm_start(c, mode, iv, add).y = J0(iv)
<1>1. first_counter(key, iv) = J0(iv)
  BY FirstCounterIs DEF GoodIV
<1>2. absorb(key, HashZero, add) = HashOf(Padded(add) \o Padded(<<>>))
  <2>1. absorb(key, HashZero, add) = HashOf(Padded(add))
    BY AbsorbFirst
  <2>2. Padded(<<>>) = <<>>
    <3>1. Blocks(0) = 0
      BY BlocksAre, BlockLength
    <3>2. IsSeq(Padded(<<>>)) /\ Len(Padded(<<>>)) = 0
      BY <3>1, EmptyIs, PaddedIs
    <3> QED
      BY <3>2, EmptyIs
  <2>3. Padded(add) \o <<>> = Padded(add)
    BY PaddedIs, SeqElements, ConcatEmptySeq
  <2> QED
    BY <2>1, <2>2, <2>3
<1>3. Len(<<>>) = 0
  BY EmptyIs
<1> DEFINE did == gcm_start(c, mode, iv, add)
<1>4. did = gcm_context(mode, 0, Len(add), key, aes_cipher(key, J0(iv)), J0(iv),
                        absorb(key, HashZero, add), key)
  BY <1>1 DEF gcm_start
<1> HIDE DEF did
<1>5. InMessageOf(did, key, iv, add, <<>>) /\ did.mode = mode /\ did.y = J0(iv)
  BY <1>2, <1>3, <1>4 DEF gcm_context, InMessageOf
<1> QED
  BY <1>5 DEF did

\* gcm_finish writes the tag of the mode.
LEMMA FinishIs ==
  ASSUME NEW c, NEW key, key # Null, NEW iv, NEW add, IsSeq(add),
         NEW ct, IsSeq(ct), InMessageOf(c, key, iv, add, ct),
         NEW tag_len \in Nat, tag_len <= BLOCK_LEN
  PROVE  LET did == gcm_finish(c, tag_len)
         IN  /\ did.tag = Tag(key, iv, add, ct, tag_len)
             /\ did.ctx.H = key /\ did.ctx.rk = key /\ did.ctx.y = c.y
             /\ did.ctx.len = c.len /\ did.ctx.add_len = c.add_len
             /\ did.ctx.mode = c.mode /\ did.ctx.base_ectr = c.base_ectr
<1> DEFINE L == length_block(Len(add), Len(ct))
           bs == Padded(add) \o Padded(ct)
           s == Significant(Append(bs, L))
           hash == GHASH(key, bs \o <<L>>)
           did == gcm_finish(c, tag_len)
           e == aes_cipher(key, J0(iv))
           buf == gcm_mult(c.H, xor_in(c.buf, length_block(c.add_len, c.len)))
<1>1. IsSeq(bs)
  BY PaddedIs, ConcatIs
<1>2. bs \o <<L>> = Append(bs, L)
  <2> DEFINE A == {bs[i] : i \in 1..Len(bs)}
             S == A \cup {L}
  <2>1. bs \in Seq(A)
    BY <1>1, SeqElements
  <2>2. A \subseteq S /\ L \in S
    OBVIOUS
  <2> HIDE DEF A, S, L, bs
  <2>3. bs \in Seq(S)
    BY <2>1, <2>2, SeqMonotonic
  <2> QED
    BY <2>2, <2>3, AppendIsConcat
<1>3. \A i \in 1..BLOCK_LEN :
        hash[i] = IF s = <<>> THEN {} ELSE {[key |-> key, ghash |-> s, at |-> i]}
  BY <1>2 DEF GHASH
<1>4. Tag(key, iv, add, ct, tag_len) = [i \in 1..tag_len |-> xor(e[i], hash[i])]
  BY DEF Tag
<1>5. CASE c.len = 0 /\ c.add_len = 0
  <2>1. did.ctx = c /\ did.tag = [i \in 1..tag_len |-> e[i]]
    BY <1>5 DEF gcm_finish, InMessageOf
  <2>2. s = <<>>
    <3>1. L = ZeroBlock
      BY <1>5 DEF InMessageOf, length_block, ZeroBlock
    <3>2. add = <<>> /\ ct = <<>>
      BY <1>5, EmptyIs DEF InMessageOf
    <3>3. Padded(<<>>) = <<>>
      <4>1. Blocks(0) = 0
        BY BlocksAre, BlockLength
      <4>2. IsSeq(Padded(<<>>)) /\ Len(Padded(<<>>)) = 0
        BY <4>1, EmptyIs, PaddedIs
      <4> QED
        BY <4>2, EmptyIs
    <3>4. bs = <<>>
      BY <3>2, <3>3
    <3>5. Significant(<<>>) = <<>>
      BY NoBlocks DEF HashOf, HashZero, running_hash
    <3> HIDE DEF L, bs
    <3> QED
      BY <1>1, <3>1, <3>4, <3>5, SignificantAppend
  <2>3. \A i \in 1..tag_len : xor(e[i], hash[i]) = e[i]
    <3> TAKE i \in 1..tag_len
    <3>1. i \in 1..BLOCK_LEN
      BY BlockLength
    <3> HIDE DEF s, hash, e
    <3>2. hash[i] = {}
      BY <1>3, <2>2, <3>1
    <3> QED
      BY <3>2, XorFacts
  <2> HIDE DEF did, e, hash
  <2>4. did.tag = Tag(key, iv, add, ct, tag_len)
    BY <1>4, <2>1, <2>3
  <2> QED
    BY <2>1, <2>4 DEF did, InMessageOf
<1>6. CASE ~ (c.len = 0 /\ c.add_len = 0)
  <2>1. /\ did.ctx = gcm_context(c.mode, c.len, c.add_len, c.H, c.base_ectr,
                                 c.y, buf, c.rk)
        /\ did.tag = [i \in 1..tag_len |->
                        xor(c.base_ectr[i], hash_byte(c.H, buf, i))]
    BY <1>6 DEF gcm_finish
  <2>2. buf = running_hash(s, ZeroBlock)
    <3>1. c.buf = HashOf(bs) /\ c.H = key
          /\ length_block(c.add_len, c.len) = L
      BY DEF InMessageOf
    <3>2. AsBlock(L) = L
      <4>1. L = [i \in 1..BLOCK_LEN |-> L[i]]
        BY DEF length_block, ZeroBlock
      <4> HIDE DEF L
      <4>2. Len(L) = BLOCK_LEN
        BY <4>1, BlockLength, SeqOf
      <4>3. \A i \in 1..BLOCK_LEN : i <= Len(L)
        BY <4>2
      <4> QED
        BY <4>1, <4>3 DEF AsBlock
    <3> HIDE DEF L, bs
    <3> QED
      BY <1>1, <3>1, <3>2, MultiplyIn DEF HashOf
  <2>3. \A i \in 1..BLOCK_LEN : hash_byte(c.H, buf, i) = hash[i]
    <3> TAKE i \in 1..BLOCK_LEN
    <3>1. buf.absorbed = s /\ buf.pending[i] = {} /\ c.H = key
      BY <2>2 DEF running_hash, ZeroBlock, InMessageOf
    <3> HIDE DEF buf, s, hash
    <3>2. hash_byte(key, buf, i)
            = xor(IF s = <<>> THEN {}
                  ELSE {[key |-> key, ghash |-> s, at |-> i]}, {})
      BY <3>1 DEF hash_byte
    <3> QED
      BY <1>3, <3>1, <3>2, XorFacts
  <2>4. c.base_ectr = e /\ c.H = key /\ c.rk = key
    BY DEF InMessageOf
  <2>5. \A i \in 1..tag_len : i \in 1..BLOCK_LEN
    BY BlockLength
  <2> HIDE DEF did, e, hash, buf
  <2>6. did.tag = Tag(key, iv, add, ct, tag_len)
    BY <1>4, <2>1, <2>3, <2>4, <2>5
  <2> QED
    BY <2>1, <2>4, <2>6 DEF did, gcm_context
<1> QED
  BY <1>5, <1>6

\* Behind whole blocks, padding goes on block by block.
LEMMA WholeBlocks ==
  ASSUME NEW a \in Nat, a % BLOCK_LEN = 0, NEW n \in Nat
  PROVE  /\ Blocks(a) * BLOCK_LEN = a
         /\ Blocks(a + n) = Blocks(a) + Blocks(n)
<1> DEFINE A == a \div BLOCK_LEN
           N == Blocks(n)
<1>1. A \in Nat /\ a = A * BLOCK_LEN
  BY BlockLength
<1>2. N \in Nat /\ n <= N * BLOCK_LEN /\ N * BLOCK_LEN < n + BLOCK_LEN
      /\ N * BLOCK_LEN \in Nat
  BY BlocksFacts, BlockLength
<1> HIDE DEF A, N
<1>3. Blocks(a) = A
  BY <1>1, BlocksAre, BlockLength
<1>4. (A + N) * BLOCK_LEN = a + N * BLOCK_LEN
  BY <1>1, <1>2, BlockLength
<1>5. Blocks(a + n) = A + N
  <2>1. a + n \in Nat /\ A + N \in Nat /\ a + n <= (A + N) * BLOCK_LEN
        /\ (A + N) * BLOCK_LEN < (a + n) + BLOCK_LEN
    BY <1>1, <1>2, <1>4, BlockLength
  <2> QED
    BY <2>1, BlocksAre
<1> QED
  BY <1>1, <1>3, <1>5 DEF N

LEMMA PaddedConcat ==
  ASSUME NEW s, NEW t, IsSeq(s), IsSeq(t), Len(s) % BLOCK_LEN = 0
  PROVE  Padded(s \o t) = Padded(s) \o Padded(t)
<1> DEFINE a == Len(s)
           n == Len(t)
           A == Blocks(a)
           N == Blocks(n)
           st == s \o t
           P == Padded(st)
           Q == Padded(s) \o Padded(t)
<1>1. a \in Nat /\ n \in Nat /\ A \in Nat /\ N \in Nat
  BY BlocksFacts DEF IsSeq
<1>2. A * BLOCK_LEN = a /\ Blocks(a + n) = A + N
  BY <1>1, WholeBlocks
<1>3. /\ IsSeq(st) /\ Len(st) = a + n
      /\ \A i \in 1..(a + n) : st[i] = IF i <= a THEN s[i] ELSE t[i - a]
  BY ConcatIs
<1>4. /\ IsSeq(P) /\ Len(P) = A + N
      /\ \A k \in 1..(A + N) : P[k] = [i \in 1..BLOCK_LEN |->
           IF (k - 1) * BLOCK_LEN + i <= a + n
           THEN st[(k - 1) * BLOCK_LEN + i] ELSE {}]
  <2> HIDE DEF A, N, st
  <2>1. IsSeq(P) /\ Len(P) = A + N
    BY <1>2, <1>3, PaddedIs
  <2>2. P = [k \in 1..(A + N) |-> [i \in 1..BLOCK_LEN |->
           IF (k - 1) * BLOCK_LEN + i <= a + n
           THEN st[(k - 1) * BLOCK_LEN + i] ELSE {}]]
    BY <1>2, <1>3 DEF Padded
  <2> QED
    BY <2>1, <2>2
<1>5. /\ IsSeq(Q) /\ Len(Q) = A + N
      /\ \A k \in 1..(A + N) :
           Q[k] = IF k <= A THEN Padded(s)[k] ELSE Padded(t)[k - A]
  <2>1. /\ IsSeq(Padded(s)) /\ Len(Padded(s)) = A
        /\ IsSeq(Padded(t)) /\ Len(Padded(t)) = N
    BY PaddedIs
  <2> HIDE DEF A, N
  <2>2. \A p, q : IsSeq(p) /\ IsSeq(q) =>
          /\ IsSeq(p \o q) /\ Len(p \o q) = Len(p) + Len(q)
          /\ \A i \in 1..(Len(p) + Len(q)) :
               (p \o q)[i] = IF i <= Len(p) THEN p[i] ELSE q[i - Len(p)]
    BY ConcatIs
  <2> QED
    BY <2>1, <2>2
<1>6. ASSUME NEW k \in 1..(A + N) PROVE P[k] = Q[k]
  <2>1. CASE k <= A
    <3>1. Padded(s)[k] = [i \in 1..BLOCK_LEN |->
             IF (k - 1) * BLOCK_LEN + i <= a
             THEN s[(k - 1) * BLOCK_LEN + i] ELSE {}]
      BY <2>1 DEF Padded
    <3>2. (k - 1) * BLOCK_LEN \in Nat /\ (k - 1) * BLOCK_LEN + BLOCK_LEN <= a
      <4>1. k \in 1..A
        BY <1>1, <2>1
      <4>2. (k - 1) * BLOCK_LEN \in Nat
            /\ k * BLOCK_LEN = (k - 1) * BLOCK_LEN + BLOCK_LEN
            /\ (k < A => k * BLOCK_LEN < a)
        BY <1>1, <4>1, BlockPlace
      <4> HIDE DEF A
      <4> QED
        BY <1>1, <1>2, <2>1, <4>1, <4>2, BlockLength
    <3>3. \A i \in 1..BLOCK_LEN :
            (IF (k - 1) * BLOCK_LEN + i <= a + n
             THEN st[(k - 1) * BLOCK_LEN + i] ELSE {})
              = IF (k - 1) * BLOCK_LEN + i <= a
                THEN s[(k - 1) * BLOCK_LEN + i] ELSE {}
      <4> TAKE i \in 1..BLOCK_LEN
      <4>1. PICK x \in Nat : x = (k - 1) * BLOCK_LEN + i
        BY <3>2, BlockLength
      <4>2. x <= a /\ x \in 1..(a + n)
        <5>1. PICK z \in Nat : z = (k - 1) * BLOCK_LEN
          BY <3>2
        <5> QED
          BY <1>1, <3>2, <4>1, <5>1, BlockLength
      <4>3. st[x] = s[x]
        BY <1>3, <4>2
      <4> HIDE DEF a, n, st
      <4> QED
        BY <4>1, <4>2, <4>3
    <3>4. P[k] = Padded(s)[k]
      <4>1. P[k] = [i \in 1..BLOCK_LEN |->
             IF (k - 1) * BLOCK_LEN + i <= a + n
             THEN st[(k - 1) * BLOCK_LEN + i] ELSE {}]
        BY <1>4
      <4> HIDE DEF P, st, a, n
      <4> QED
        BY <3>1, <3>3, <4>1, Zenon
    <3> QED
      BY <1>5, <2>1, <3>4
  <2>2. CASE ~ (k <= A)
    <3>1. PICK j \in 1..N : k = A + j
      <4>1. k - A \in 1..N /\ k = A + (k - A)
        BY <1>1, <2>2
      <4> QED
        BY <4>1
    <3>2. Padded(t)[j] = [i \in 1..BLOCK_LEN |->
             IF (j - 1) * BLOCK_LEN + i <= n
             THEN t[(j - 1) * BLOCK_LEN + i] ELSE {}]
      BY DEF Padded
    <3>3. (j - 1) * BLOCK_LEN \in Nat
          /\ (k - 1) * BLOCK_LEN = a + (j - 1) * BLOCK_LEN
      <4>1. (j - 1) * BLOCK_LEN \in Nat
        BY <1>1, BlockPlace
      <4> HIDE DEF A
      <4>2. (A + (j - 1)) * BLOCK_LEN = A * BLOCK_LEN + (j - 1) * BLOCK_LEN
        BY <1>1, BlockLength
      <4>3. k - 1 = A + (j - 1)
        BY <1>1, <3>1
      <4> QED
        BY <1>2, <4>1, <4>2, <4>3
    <3>4. \A i \in 1..BLOCK_LEN :
            (IF (k - 1) * BLOCK_LEN + i <= a + n
             THEN st[(k - 1) * BLOCK_LEN + i] ELSE {})
              = IF (j - 1) * BLOCK_LEN + i <= n
                THEN t[(j - 1) * BLOCK_LEN + i] ELSE {}
      <4> TAKE i \in 1..BLOCK_LEN
      <4>1. PICK x \in Nat : x = (j - 1) * BLOCK_LEN + i
        BY <3>3, BlockLength
      <4>2. (k - 1) * BLOCK_LEN + i = a + x /\ x >= 1
        <5>1. PICK z \in Nat : z = (j - 1) * BLOCK_LEN
          BY <3>3
        <5> QED
          BY <1>1, <3>3, <4>1, <5>1, BlockLength
      <4>3. (a + x <= a + n <=> x <= n) /\ (a + x) - a = x /\ ~ (a + x <= a)
            /\ (x <= n => a + x \in 1..(a + n))
        BY <1>1, <4>2
      <4>4. x <= n => st[a + x] = t[x]
        BY <1>3, <4>3
      <4> HIDE DEF a, n, st
      <4> QED
        BY <4>1, <4>2, <4>3, <4>4
    <3>5. P[k] = Padded(t)[j]
      <4>1. P[k] = [i \in 1..BLOCK_LEN |->
             IF (k - 1) * BLOCK_LEN + i <= a + n
             THEN st[(k - 1) * BLOCK_LEN + i] ELSE {}]
        BY <1>4
      <4> HIDE DEF P, st, a, n
      <4> QED
        BY <3>2, <3>4, <4>1, Zenon
    <3>6. k - A = j
      BY <1>1, <3>1
    <3> QED
      BY <1>5, <2>2, <3>5, <3>6
  <2> QED
    BY <2>1, <2>2
<1> HIDE DEF P, Q, A, N
<1>7. P = Q
  BY <1>4, <1>5, <1>6, SameSeq
<1> QED
  BY <1>7 DEF P, Q

LEMMA ConcatAgain ==
  ASSUME NEW r, NEW s, NEW t, IsSeq(r), IsSeq(s), IsSeq(t)
  PROVE  (r \o s) \o t = r \o (s \o t)
<1> DEFINE U == {r[i] : i \in 1..Len(r)} \cup {s[i] : i \in 1..Len(s)}
                  \cup {t[i] : i \in 1..Len(t)}
           A == {r[i] : i \in 1..Len(r)}
           B == {s[i] : i \in 1..Len(s)}
           C == {t[i] : i \in 1..Len(t)}
<1>1. A \subseteq U /\ B \subseteq U /\ C \subseteq U
  OBVIOUS
<1>2. r \in Seq(A) /\ s \in Seq(B) /\ t \in Seq(C)
  BY SeqElements
<1> HIDE DEF U, A, B, C
<1>3. r \in Seq(U) /\ s \in Seq(U) /\ t \in Seq(U)
  BY <1>1, <1>2, SeqMonotonic
<1> QED
  BY <1>3, ConcatAssociative

\* gcm_update in the middle of a message, behind whole blocks of it.
LEMMA UpdateInMessage ==
  ASSUME NEW c, NEW key, key # Null, NEW iv, NEW add, IsSeq(add),
         NEW ct, IsSeq(ct), InMessageOf(c, key, iv, add, ct),
         IsCounter(c.y), NEW mem, NEW src, NEW dst, NEW n,
         Room(mem, src, dst, n), Len(ct) % BLOCK_LEN = 0
  PROVE  LET did == gcm_update(c, mem, src, dst, n)
             new == CipherOf(c.mode, key, c.y, mem, src, n)
         IN  /\ did.mem = Written(key, c.y, mem, src, dst, n)
             /\ did.ctx.mode = c.mode
             /\ did.ctx.y = Later(c.y, Blocks(n))
             /\ InMessageOf(did.ctx, key, iv, add, ct \o new)
<1> DEFINE did == gcm_update(c, mem, src, dst, n)
           new == CipherOf(c.mode, key, c.y, mem, src, n)
           bs == Padded(add) \o Padded(ct)
<1>1. c.H = key /\ c.rk = key /\ c.buf = HashOf(bs)
  BY DEF InMessageOf
<1>2. IsSeq(bs)
  BY PaddedIs, ConcatIs
<1>3. IsSeq(new) /\ Len(new) = n /\ n \in Nat
  BY CipherIs DEF Room
<1> HIDE DEF bs
<1>4. /\ did.mem = Written(key, c.y, mem, src, dst, n)
      /\ did.ctx = gcm_context(c.mode, c.len + n, c.add_len, c.H,
                            c.base_ectr, Later(c.y, Blocks(n)), did.ctx.buf, c.rk)
      /\ did.ctx.buf = HashOf(bs \o Padded(new))
  BY <1>1, <1>2, UpdateIs
<1> HIDE DEF did, new
<1>5. bs \o Padded(new) = Padded(add) \o Padded(ct \o new)
  <2>1. Padded(ct \o new) = Padded(ct) \o Padded(new)
    BY <1>3, PaddedConcat
  <2>2. /\ IsSeq(Padded(add)) /\ IsSeq(Padded(ct)) /\ IsSeq(Padded(new))
    BY <1>3, PaddedIs
  <2>3. PICK p, q, r : p = Padded(add) /\ q = Padded(ct) /\ r = Padded(new)
    OBVIOUS
  <2>4. (p \o q) \o r = p \o (q \o r)
    BY <2>2, <2>3, ConcatAgain
  <2> QED
    BY <2>1, <2>3, <2>4 DEF bs
<1>6. c.len + n = Len(ct \o new)
  BY <1>3, ConcatIs DEF InMessageOf
<1>7. /\ did.ctx.mode = c.mode /\ did.ctx.y = Later(c.y, Blocks(n))
      /\ did.ctx.len = c.len + n /\ did.ctx.add_len = c.add_len
      /\ did.ctx.H = c.H /\ did.ctx.base_ectr = c.base_ectr /\ did.ctx.rk = c.rk
  BY <1>4 DEF gcm_context
<1>8. InMessageOf(did.ctx, key, iv, add, ct \o new)
  BY <1>1, <1>4, <1>5, <1>6, <1>7 DEF InMessageOf
<1> QED
  BY <1>4, <1>7, <1>8 DEF did, new

-----------------------------------------------------------------------------
(***************************************************************************)
(* A message in pieces.                                                    *)
(***************************************************************************)
LEMMA LaterIs ==
  ASSUME NEW y, IsCounter(y), NEW j \in Nat, NEW k \in Nat
  PROVE  /\ IsCounter(Later(y, j)) /\ Later(y, 0) = y
         /\ Later(Later(y, j), k) = Later(y, j + k)
<1>1. /\ Later(y, j).native = y.native /\ Later(y, j).hashed = y.hashed
      /\ Later(y, j).ctr = CounterAfter(y.ctr, j)
  BY DEF Later, counter_block
<1>2. y.ctr \in CounterBytes
  BY DEF IsCounter
<1>3. CounterAfter(y.ctr, j) \in CounterBytes /\ CounterAfter(y.ctr, 0) = y.ctr
  BY <1>2, CounterSteps
<1>4. IsCounter(Later(y, j))
  BY <1>1, <1>3 DEF IsCounter, Later
<1>5. Later(y, 0) = y
  BY <1>3 DEF Later, IsCounter
<1>6. Later(Later(y, j), k) = Later(y, j + k)
  BY <1>1, <1>2, CounterAfterSum DEF Later
<1> QED
  BY <1>4, <1>5, <1>6

\* Behind whole blocks the keystream goes on where it was.
LEMMA MaskGoesOn ==
  ASSUME NEW key, NEW y, IsCounter(y), NEW p \in Nat, p % BLOCK_LEN = 0,
         NEW i \in Nat, i >= 1
  PROVE  MaskFrom(key, Later(y, Blocks(p)), i) = MaskFrom(key, y, p + i)
<1> DEFINE A == Blocks(p)
           q == (i - 1) \div BLOCK_LEN
           r == (i - 1) % BLOCK_LEN
<1>1. A \in Nat /\ p = A * BLOCK_LEN
  BY WholeBlocks, BlocksFacts
<1>2. /\ q \in Nat /\ r \in Nat /\ r < BLOCK_LEN
      /\ i - 1 = q * BLOCK_LEN + r /\ BLOCK_LEN \in Nat \ {0}
  <2>1. i - 1 \in Nat
    OBVIOUS
  <2> QED
    BY <2>1, BlockLength
<1> HIDE DEF A, q, r
<1>3. (p + i) - 1 = (A + q) * BLOCK_LEN + r
  <2>1. (A + q) * BLOCK_LEN = A * BLOCK_LEN + q * BLOCK_LEN
    BY <1>1, <1>2
  <2>2. PICK u \in Nat, v \in Nat : u = A * BLOCK_LEN /\ v = q * BLOCK_LEN
    BY <1>1, <1>2
  <2> QED
    BY <1>1, <1>2, <2>1, <2>2
<1>4. ((p + i) - 1) \div BLOCK_LEN = A + q /\ ((p + i) - 1) % BLOCK_LEN = r
  BY <1>1, <1>2, <1>3, DivisionIs
<1>5. Later(Later(y, A), 1 + q) = Later(y, 1 + (A + q))
  <2>1. A + (1 + q) = 1 + (A + q) /\ 1 + q \in Nat
    BY <1>1, <1>2
  <2> QED
    BY <1>1, <2>1, LaterIs
<1>6. MaskFrom(key, Later(y, A), i) = aes_cipher(key, Later(Later(y, A), 1 + q))[1 + r]
  BY DEF MaskFrom, q, r
<1>7. MaskFrom(key, y, p + i) = aes_cipher(key, Later(y, 1 + (A + q)))[1 + r]
  <2>1. PICK x : x = p + i
    OBVIOUS
  <2> QED
    BY <1>4, <2>1 DEF MaskFrom
<1> QED
  BY <1>5, <1>6, <1>7 DEF A

\* Two updates, of p bytes and of n, do what one of all the bytes does: in
\* memory, in the ciphertext that is hashed and in the counter.
Joins(key, y, mem, src, dst, p, n, mode) ==
  LET then == Written(key, y, mem, src, dst, p)
      at   == Later(y, Blocks(p))
  IN  /\ Room(then, src + p, dst + p, n)
      /\ Written(key, at, then, src + p, dst + p, n)
           = Written(key, y, mem, src, dst, p + n)
      /\ CipherOf(mode, key, y, mem, src, p)
           \o CipherOf(mode, key, at, then, src + p, n)
           = CipherOf(mode, key, y, mem, src, p + n)
      /\ Later(at, Blocks(n)) = Later(y, Blocks(p + n))

LEMMA PiecesJoin ==
  ASSUME NEW key, NEW y, IsCounter(y), NEW mem, NEW src, NEW dst,
         NEW p \in Nat, p % BLOCK_LEN = 0, NEW n \in Nat,
         Room(mem, src, dst, p + n), NEW mode
  PROVE  Joins(key, y, mem, src, dst, p, n, mode)
<1> DEFINE then == Written(key, y, mem, src, dst, p)
           at == Later(y, Blocks(p))
           M(i) == MaskFrom(key, y, i)
           out == Written(key, at, then, src + p, dst + p, n)
           all == Written(key, y, mem, src, dst, p + n)
           c1 == CipherOf(mode, key, y, mem, src, p)
           c2 == CipherOf(mode, key, at, then, src + p, n)
           c == CipherOf(mode, key, y, mem, src, p + n)
<1>0. /\ src \in Nat /\ dst \in Nat
      /\ \A i \in 1..(p + n) : src + i \in DOMAIN mem /\ dst + i \in DOMAIN mem
      /\ src = dst \/ src + (p + n) <= dst \/ dst + (p + n) <= src
      /\ mem = [a \in DOMAIN mem |-> mem[a]]
  BY DEF Room
<1>1. \A i \in 1..n : MaskFrom(key, at, i) = M(p + i)
  BY MaskGoesOn
<1>2. /\ DOMAIN then = DOMAIN mem /\ then = [a \in DOMAIN mem |-> then[a]]
      /\ \A a \in DOMAIN mem :
           then[a] = IF a \in (dst + 1)..(dst + p)
                     THEN xor(M(a - dst), mem[src + (a - dst)]) ELSE mem[a]
  BY DEF Written
<1> HIDE DEF then, at
<1>3. Room(then, src + p, dst + p, n)
  <2>1. \A i \in 1..n : p + i \in 1..(p + n) /\ (src + p) + i = src + (p + i)
                        /\ (dst + p) + i = dst + (p + i)
    BY <1>0
  <2>2. \A i \in 1..n : (src + p) + i \in DOMAIN mem /\ (dst + p) + i \in DOMAIN mem
    BY <1>0, <2>1
  <2>3. \/ src + p = dst + p \/ (src + p) + n <= dst + p
        \/ (dst + p) + n <= src + p
    BY <1>0
  <2> QED
    BY <1>0, <1>2, <2>2, <2>3 DEF Room
\* What the second update reads, the first has not written.
<1>4. \A i \in 1..n : then[src + (p + i)] = mem[src + (p + i)]
  <2> TAKE i \in 1..n
  <2>1. src + (p + i) \in DOMAIN mem
    BY <1>0
  <2>2. src + (p + i) \notin (dst + 1)..(dst + p)
    BY <1>0
  <2> QED
    BY <1>2, <2>1, <2>2
<1>5. out = all
  <2>1. out = [a \in DOMAIN mem |->
                 IF a \in ((dst + p) + 1)..((dst + p) + n)
                 THEN xor(MaskFrom(key, at, a - (dst + p)),
                          then[(src + p) + (a - (dst + p))]) ELSE then[a]]
    BY <1>2 DEF Written
  <2>2. all = [a \in DOMAIN mem |->
                 IF a \in (dst + 1)..(dst + (p + n))
                 THEN xor(M(a - dst), mem[src + (a - dst)]) ELSE mem[a]]
    BY DEF Written
  <2>3. ASSUME NEW a \in DOMAIN mem,
               a \in ((dst + p) + 1)..((dst + p) + n)
        PROVE  out[a] = all[a]
    <3>1. PICK i \in 1..n : a = dst + (p + i)
      <4>1. a - (dst + p) \in 1..n /\ a = dst + (p + (a - (dst + p)))
        BY <1>0, <2>3
      <4> QED
        BY <4>1
    <3>2. /\ a - (dst + p) = i /\ a - dst = p + i
          /\ a \in (dst + 1)..(dst + (p + n))
          /\ (src + p) + i = src + (p + i)
      BY <1>0, <3>1
    <3>3. out[a] = xor(MaskFrom(key, at, i), then[src + (p + i)])
      BY <2>1, <2>3, <3>2
    <3>4. all[a] = xor(M(p + i), mem[src + (p + i)])
      BY <2>2, <3>2
    <3> QED
      BY <1>1, <1>4, <3>3, <3>4
  <2>4. ASSUME NEW a \in DOMAIN mem,
               a \notin ((dst + p) + 1)..((dst + p) + n)
        PROVE  out[a] = all[a]
    <3>1. a \in (dst + 1)..(dst + (p + n)) <=> a \in (dst + 1)..(dst + p)
      BY <1>0, <2>4
    <3>2. out[a] = then[a]
      BY <2>1, <2>4
    <3>3. all[a] = IF a \in (dst + 1)..(dst + p)
                   THEN xor(M(a - dst), mem[src + (a - dst)]) ELSE mem[a]
      BY <2>2, <3>1
    <3> QED
      BY <1>2, <3>2, <3>3
  <2>5. out = [a \in DOMAIN mem |-> out[a]] /\ all = [a \in DOMAIN mem |-> all[a]]
    BY <2>1, <2>2
  <2> HIDE DEF out, all
  <2> QED
    BY <2>3, <2>4, <2>5
<1>6. c1 \o c2 = c
  <2>1. /\ IsSeq(c1) /\ Len(c1) = p /\ IsSeq(c2) /\ Len(c2) = n
        /\ IsSeq(c) /\ Len(c) = p + n
    <3>1. p + n \in Nat
      OBVIOUS
    <3> QED
      BY <3>1, CipherIs
  <2>2. \A i \in 1..p : c1[i] = c[i]
    BY DEF CipherOf
  <2>3. \A i \in 1..n : c2[i] = c[p + i]
    <3> TAKE i \in 1..n
    <3>1. p + i \in 1..(p + n) /\ (src + p) + i = src + (p + i)
      BY <1>0
    <3>2. c2[i] = IF mode = "ENCRYPT"
                  THEN xor(MaskFrom(key, at, i), then[src + (p + i)])
                  ELSE then[src + (p + i)]
      BY <3>1 DEF CipherOf
    <3>3. c[p + i] = IF mode = "ENCRYPT"
                     THEN xor(M(p + i), mem[src + (p + i)])
                     ELSE mem[src + (p + i)]
      BY <3>1 DEF CipherOf
    <3> QED
      BY <1>1, <1>4, <3>2, <3>3
  <2> HIDE DEF c1, c2, c
  <2>4. /\ IsSeq(c1 \o c2) /\ Len(c1 \o c2) = p + n
        /\ \A i \in 1..(p + n) : (c1 \o c2)[i] = IF i <= p THEN c1[i] ELSE c2[i - p]
    BY <2>1, ConcatIs
  <2>5. \A i \in 1..(p + n) : (c1 \o c2)[i] = c[i]
    <3> TAKE i \in 1..(p + n)
    <3>1. CASE i <= p
      BY <2>2, <2>4, <3>1
    <3>2. CASE ~ (i <= p)
      <4>1. i - p \in 1..n /\ p + (i - p) = i
        BY <3>2
      <4> QED
        BY <2>3, <2>4, <3>2, <4>1
    <3> QED
      BY <3>1, <3>2
  <2> QED
    BY <2>1, <2>4, <2>5, SameSeq
<1>7. Later(at, Blocks(n)) = Later(y, Blocks(p + n))
  <2>1. Blocks(p) \in Nat /\ Blocks(n) \in Nat /\ Blocks(p + n) = Blocks(p) + Blocks(n)
    BY BlocksFacts, WholeBlocks
  <2> QED
    BY <2>1, LaterIs DEF at
<1> QED
  BY <1>3, <1>5, <1>6, <1>7 DEF then, at, Joins

\* Byte i of a message and byte j of it, or of its tag, are masked with
\* different bytes of the cipher, as the counter does not come around
\* (gcm_update's carry).
LEMMA MasksDiffer ==
  ASSUME NEW key, NEW y, IsCounter(y),
         NEW i \in Nat, NEW j \in Nat, i >= 1, j >= 1,
         NEW n \in Nat, i <= n, Blocks(n) < Counters
  PROVE  /\ j < i => MaskFrom(key, y, i) # MaskFrom(key, y, j)
         /\ j <= BLOCK_LEN => MaskFrom(key, y, i) # aes_cipher(key, y)[j]
<1> DEFINE q(x) == (x - 1) \div BLOCK_LEN
           r(x) == (x - 1) % BLOCK_LEN
<1>1. ASSUME NEW x \in Nat, x >= 1
      PROVE  /\ q(x) \in Nat /\ r(x) \in Nat /\ r(x) < BLOCK_LEN
             /\ x - 1 = q(x) * BLOCK_LEN + r(x)
             /\ MaskFrom(key, y, x)
                  = {[key |-> key, block |-> Later(y, 1 + q(x)), at |-> 1 + r(x)]}
  <2>1. x - 1 \in Nat
    BY <1>1
  <2>2. /\ q(x) \in Nat /\ r(x) \in Nat /\ r(x) < BLOCK_LEN
        /\ x - 1 = q(x) * BLOCK_LEN + r(x)
    BY <2>1, BlockLength
  <2>3. MaskFrom(key, y, x) = aes_cipher(key, Later(y, 1 + q(x)))[1 + r(x)]
    BY DEF MaskFrom
  <2> HIDE DEF q, r
  <2>4. 1 + r(x) \in 1..BLOCK_LEN
    BY <2>2, BlockLength
  <2> QED
    BY <2>2, <2>3, <2>4 DEF aes_cipher
<1>2. \A b : Later(y, b).ctr = CounterAfter(y.ctr, b)
  BY DEF Later, counter_block
<1>3. y.ctr \in CounterBytes
  BY DEF IsCounter
<1> HIDE DEF q, r
<1>4. q(i) < Blocks(n) /\ Blocks(n) \in Nat /\ Counters \in Nat
  <2>1. /\ Blocks(n) \in Nat /\ n <= Blocks(n) * BLOCK_LEN
        /\ Counters \in Nat \ {0}
    BY <1>3, BlocksFacts, NumberFits
  <2>2. i - 1 = q(i) * BLOCK_LEN + r(i) /\ q(i) \in Nat /\ r(i) \in Nat
    BY <1>1
  <2>3. ASSUME q(i) >= Blocks(n) PROVE FALSE
    <3>1. PICK e \in Nat : q(i) = Blocks(n) + e
      <4>1. q(i) - Blocks(n) \in Nat
        BY <2>1, <2>2, <2>3
      <4> QED
        BY <2>1, <2>2, <4>1
    <3>2. q(i) * BLOCK_LEN = Blocks(n) * BLOCK_LEN + e * BLOCK_LEN
          /\ Blocks(n) * BLOCK_LEN \in Nat /\ e * BLOCK_LEN \in Nat
      BY <2>1, <3>1, BlockLength
    <3> QED
      BY <2>1, <2>2, <3>2
  <2> QED
    BY <2>1, <2>2, <2>3
<1>5. ASSUME j < i, MaskFrom(key, y, i) = MaskFrom(key, y, j) PROVE FALSE
  <2>1. [key |-> key, block |-> Later(y, 1 + q(i)), at |-> 1 + r(i)]
          = [key |-> key, block |-> Later(y, 1 + q(j)), at |-> 1 + r(j)]
    BY <1>1, <1>5
  <2>2. Later(y, 1 + q(i)) = Later(y, 1 + q(j)) /\ r(i) = r(j)
    BY <1>1, <2>1
  <2>3. q(j) < q(i)
    <3>1. ASSUME q(j) >= q(i) PROVE FALSE
      <4>1. PICK e \in Nat : q(j) = q(i) + e
        <5>1. q(j) - q(i) \in Nat
          BY <1>1, <3>1
        <5> QED
          BY <1>1, <5>1
      <4>2. q(j) * BLOCK_LEN = q(i) * BLOCK_LEN + e * BLOCK_LEN
            /\ q(i) * BLOCK_LEN \in Nat /\ e * BLOCK_LEN \in Nat
        BY <1>1, <4>1, BlockLength
      <4>3. /\ i - 1 = q(i) * BLOCK_LEN + r(i) /\ r(i) \in Nat
            /\ j - 1 = q(j) * BLOCK_LEN + r(j) /\ r(j) \in Nat
        BY <1>1
      <4> QED
        BY <1>5, <2>2, <4>2, <4>3
    <3> QED
      BY <1>1, <3>1
  <2>4. CounterAfter(y.ctr, 1 + q(j)) # CounterAfter(y.ctr, 1 + q(i))
    <3>1. /\ 1 + q(j) \in Nat /\ 1 + q(i) \in Nat /\ 1 + q(j) < 1 + q(i)
          /\ 1 + q(i) < 1 + q(j) + Counters
      BY <1>1, <1>4, <2>3
    <3> QED
      BY <1>3, <3>1, CountersDiffer
  <2> QED
    BY <1>2, <2>2, <2>4
<1>6. ASSUME j <= BLOCK_LEN, MaskFrom(key, y, i) = aes_cipher(key, y)[j] PROVE FALSE
  <2>1. aes_cipher(key, y)[j] = {[key |-> key, block |-> y, at |-> j]}
    BY <1>6, BlockLength DEF aes_cipher
  <2>2. [key |-> key, block |-> Later(y, 1 + q(i)), at |-> 1 + r(i)]
          = [key |-> key, block |-> y, at |-> j]
    BY <1>1, <1>6, <2>1
  <2>3. Later(y, 1 + q(i)) = y
    BY <2>2
  <2>4. CounterAfter(y.ctr, 0) = y.ctr
    BY <1>3, CounterSteps
  <2>5. CounterAfter(y.ctr, 0) # CounterAfter(y.ctr, 1 + q(i))
    <3>1. 1 + q(i) \in Nat /\ 0 < 1 + q(i) /\ 1 + q(i) < 0 + Counters
      BY <1>1, <1>4
    <3> QED
      BY <1>3, <3>1, CountersDiffer
  <2> QED
    BY <1>2, <2>3, <2>4, <2>5
<1> QED
  BY <1>5, <1>6

\* One call on a keyed context is the mode: its output is the input in counter
\* mode, and its tag that of the ciphertext, whatever the context did before.
THEOREM CryptAndTagIsGcm ==
  ASSUME NEW c, NEW key, key # Null, c.H = key, c.rk = key,
         NEW mode, NEW iv, GoodIV(iv), NEW add, IsSeq(add),
         NEW mem, NEW src, NEW dst, NEW n, Room(mem, src, dst, n),
         NEW bytes, Holds(mem, src, bytes), Len(bytes) = n,
         NEW tag_len \in Nat, tag_len <= BLOCK_LEN
  PROVE  LET did == gcm_crypt_and_tag(c, mode, iv, add, mem, src, dst, n, tag_len)
             ct  == IF mode = "ENCRYPT" THEN Crypt(key, iv, bytes) ELSE bytes
         IN  /\ did.mem = Written(key, J0(iv), mem, src, dst, n)
             /\ Cut(did.mem, dst, n) = Crypt(key, iv, bytes)
             /\ did.tag = Tag(key, iv, add, ct, tag_len)
             /\ did.ctx.H = key /\ did.ctx.rk = key
<1> DEFINE s == gcm_start(c, mode, iv, add)
           up == gcm_update(s, mem, src, dst, n)
           fin == gcm_finish(up.ctx, tag_len)
           did == gcm_crypt_and_tag(c, mode, iv, add, mem, src, dst, n, tag_len)
           ct == IF mode = "ENCRYPT" THEN Crypt(key, iv, bytes) ELSE bytes
           new == CipherOf(mode, key, J0(iv), mem, src, n)
<1>1. did = [ctx |-> fin.ctx, mem |-> up.mem, tag |-> fin.tag]
  BY DEF gcm_crypt_and_tag
<1>2. InMessageOf(s, key, iv, add, <<>>) /\ s.mode = mode /\ s.y = J0(iv)
  BY StartIs
<1> HIDE DEF did, s
<1>3. Len(<<>>) % BLOCK_LEN = 0
  BY EmptyIs, BlockLength
<1>4. IsCounter(s.y)
  BY <1>2, J0IsCounter
<1>5. /\ up.mem = Written(key, J0(iv), mem, src, dst, n)
      /\ InMessageOf(up.ctx, key, iv, add, <<>> \o new)
  <2>1. /\ up.mem = Written(key, s.y, mem, src, dst, n)
        /\ InMessageOf(up.ctx, key, iv, add,
                       <<>> \o CipherOf(s.mode, key, s.y, mem, src, n))
    <3>1. PICK e : e = <<>>
      OBVIOUS
    <3>2. IsSeq(e) /\ InMessageOf(s, key, iv, add, e) /\ Len(e) % BLOCK_LEN = 0
      BY <1>2, <1>3, <3>1, EmptyIs
    <3>3. /\ gcm_update(s, mem, src, dst, n).mem
               = Written(key, s.y, mem, src, dst, n)
          /\ InMessageOf(gcm_update(s, mem, src, dst, n).ctx, key, iv, add,
                         e \o CipherOf(s.mode, key, s.y, mem, src, n))
      BY <1>4, <3>2, UpdateInMessage
    <3> QED
      BY <3>1, <3>3
  <2> QED
    BY <1>2, <2>1
<1>6. new = ct /\ IsSeq(ct)
  <2>1. Crypt(key, iv, bytes) = CryptFrom(key, J0(iv), bytes)
    BY CryptIsFrom
  <2>2. IsSeq(bytes) /\ IsSeq(CryptFrom(key, J0(iv), bytes))
    BY CryptFromIs DEF Holds
  <2>3. new = IF mode = "ENCRYPT" THEN CryptFrom(key, J0(iv), bytes) ELSE bytes
    <3>1. PICK y : y = J0(iv)
      OBVIOUS
    <3>2. CipherOf(mode, key, y, mem, src, n)
            = IF mode = "ENCRYPT" THEN CryptFrom(key, y, bytes) ELSE bytes
      <4>1. n \in Nat
        BY DEF Room
      <4> QED
        BY <4>1, CiphertextIs
    <3> QED
      BY <3>1, <3>2
  <2> QED
    BY <2>1, <2>2, <2>3
<1>7. <<>> \o new = ct
  <2> HIDE DEF new, ct
  <2> QED
    BY <1>6, SeqElements, ConcatEmptySeq
<1> HIDE DEF up, new, ct
<1>8. /\ fin.tag = Tag(key, iv, add, ct, tag_len)
      /\ fin.ctx.H = key /\ fin.ctx.rk = key
  BY <1>5, <1>6, <1>7, FinishIs
<1>9. Cut(Written(key, J0(iv), mem, src, dst, n), dst, n) = Crypt(key, iv, bytes)
  BY OutputIs, CryptIsFrom
<1> QED
  BY <1>1, <1>5, <1>8, <1>9 DEF did, ct

\* Counter mode twice is nothing done.
LEMMA TextComesBack ==
  ASSUME NEW key, NEW iv, NEW text, IsSeq(text)
  PROVE  /\ IsSeq(Crypt(key, iv, text)) /\ Len(Crypt(key, iv, text)) = Len(text)
         /\ Crypt(key, iv, Crypt(key, iv, text)) = text
<1>1. PICK y : \A bytes : Crypt(key, iv, bytes) = CryptFrom(key, y, bytes)
  BY CryptIsFrom
<1> QED
  BY <1>1, CryptFromIs

\* What gcm_auth_decrypt leaves behind: the text if the tag is the mode's,
\* zeros otherwise.
OpenedAs(did, key, iv, add, bytes, tag, dst) ==
  LET n == Len(bytes)
  IN  /\ did.ctx.H = key /\ did.ctx.rk = key
      /\ IF tag = Tag(key, iv, add, bytes, Len(tag))
         THEN did.ret = "OK" /\ Cut(did.mem, dst, n) = Crypt(key, iv, bytes)
         ELSE /\ did.ret = "GCM_AUTH_FAILURE"
              /\ \A i \in 1..n : Cut(did.mem, dst, n)[i] = {}

\* gcm_auth_decrypt on a keyed context authenticates and decrypts as the mode
\* says, in place or not, and clears what it wrote when the tag is another one.
THEOREM AuthDecryptIsGcm ==
  ASSUME NEW c, NEW key, key # Null, c.H = key, c.rk = key,
         NEW iv, GoodIV(iv), NEW add, IsSeq(add),
         NEW mem, NEW src, NEW dst, NEW bytes, Room(mem, src, dst, Len(bytes)),
         Holds(mem, src, bytes), NEW tag, IsSeq(tag), Len(tag) <= BLOCK_LEN
  PROVE  OpenedAs(gcm_auth_decrypt(c, iv, add, mem, src, dst, Len(bytes), tag),
                  key, iv, add, bytes, tag, dst)
<1>1. PICK len : len = Len(bytes)
  OBVIOUS
<1>2. Len(tag) \in Nat /\ len \in Nat /\ dst \in Nat
  BY <1>1 DEF IsSeq, Room
<1>3. PICK mode : mode = "DECRYPT"
  OBVIOUS
<1>4. PICK t : t = Len(tag)
  OBVIOUS
<1> DEFINE did == gcm_crypt_and_tag(c, mode, iv, add, mem, src, dst, len, t)
           end == gcm_auth_decrypt(c, iv, add, mem, src, dst, len, tag)
<1>5. /\ did.mem = Written(key, J0(iv), mem, src, dst, len)
      /\ Cut(did.mem, dst, len) = Crypt(key, iv, bytes)
      /\ did.tag = Tag(key, iv, add,
                       IF mode = "ENCRYPT" THEN Crypt(key, iv, bytes) ELSE bytes, t)
      /\ did.ctx.H = key /\ did.ctx.rk = key
  BY <1>1, <1>2, <1>4, CryptAndTagIsGcm
<1>6. end = IF did.tag = tag
            THEN [ret |-> "OK", ctx |-> did.ctx, mem |-> did.mem]
            ELSE [ret |-> "GCM_AUTH_FAILURE", ctx |-> did.ctx,
                  mem |-> wipe(did.mem, dst, len)]
  BY <1>3, <1>4 DEF gcm_auth_decrypt
<1>7. did.tag = Tag(key, iv, add, bytes, t)
  BY <1>3, <1>5
<1>8. DOMAIN did.mem = DOMAIN mem
  BY <1>5 DEF Written
<1> HIDE DEF did
<1>9. \A i \in 1..len : wipe(did.mem, dst, len)[dst + i] = {}
  <2> TAKE i \in 1..len
  <2>1. dst + i \in DOMAIN mem /\ dst + i \in (dst + 1)..(dst + len)
    BY <1>1, <1>2 DEF Room
  <2> QED
    BY <1>8, <2>1 DEF wipe
<1>10. \A w : \A i \in 1..len : Cut(w, dst, len)[i] = w[dst + i]
  BY <1>2, CutIs
<1>11. end.ctx = did.ctx
  BY <1>6
<1>12. ASSUME tag = Tag(key, iv, add, bytes, t)
       PROVE  end.ret = "OK" /\ Cut(end.mem, dst, len) = Crypt(key, iv, bytes)
  BY <1>5, <1>6, <1>7, <1>12
<1>13. ASSUME tag # Tag(key, iv, add, bytes, t)
       PROVE  /\ end.ret = "GCM_AUTH_FAILURE"
              /\ \A i \in 1..len : Cut(end.mem, dst, len)[i] = {}
  <2>1. end.ret = "GCM_AUTH_FAILURE" /\ end.mem = wipe(did.mem, dst, len)
    BY <1>6, <1>7, <1>13
  <2> QED
    BY <1>9, <1>10, <2>1
<1>14. /\ end.ctx.H = key /\ end.ctx.rk = key
       /\ IF tag = Tag(key, iv, add, bytes, t)
          THEN end.ret = "OK" /\ Cut(end.mem, dst, len) = Crypt(key, iv, bytes)
          ELSE /\ end.ret = "GCM_AUTH_FAILURE"
               /\ \A i \in 1..len : Cut(end.mem, dst, len)[i] = {}
  BY <1>5, <1>11, <1>12, <1>13
<1> HIDE DEF end
<1>15. end = gcm_auth_decrypt(c, iv, add, mem, src, dst, Len(bytes), tag)
  BY <1>1 DEF end
<1> QED
  BY <1>1, <1>4, <1>14, <1>15 DEF OpenedAs

=============================================================================
