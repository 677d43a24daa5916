-------------------------- MODULE Blake3TreeProofs --------------------------
(***************************************************************************)
(* What the algorithms under the hasher compute, for every length of input *)
(* and every width of the CPU's vectors:                                   *)
(*                                                                         *)
(*  - popcnt and round_down_to_power_of_2, recursive by halving;           *)
(*  - chunk_state_update, the function of the bytes a chunk holds however  *)
(*    they are cut up (UpdateHolds);                                       *)
(*  - the nodes of the tree over a message and over a part of it;          *)
(*  - blake3_compress_subtree_wide, a row of subtrees of the same size,    *)
(*    and compress_subtree_to_parent_node, the two children of the root    *)
(*    (PairIs);                                                            *)
(*  - the stack of chaining values: which subtrees its entries are, where  *)
(*    a merge is due, and what rolling it up yields (RollOverChunk,        *)
(*    RollOverPair);                                                       *)
(*  - output_root_bytes, a window of one unbounded output (OutputBytes).   *)
(*                                                                         *)
(* The definitions by recursion are functions that the code's definition   *)
(* CHOOSEs.  Of each the same four things are shown: that a function with  *)
(* its equation exists, that two of them agree, that the chosen one        *)
(* satisfies the equation, and what it therefore is.  Induct and NatMin    *)
(* turn the arguments by induction into ones about a least exception.      *)
(***************************************************************************)
EXTENDS Blake3Wide, Blake3Tree, WellFoundedInduction, SequenceTheorems, TLAPS

-----------------------------------------------------------------------------
(***************************************************************************)
(* popcnt and round_down_to_power_of_2.                                    *)
(***************************************************************************)
LEMMA NatMin ==
  ASSUME NEW T, T \subseteq Nat, T # {}
  PROVE  \E x \in T : \A y \in T : x <= y
<1>1. \E x \in T : \A y \in T : ~ (<<y, x>> \in OpToRel(<, Nat))
  BY NatLessThanWellFounded, WFMin
<1>2. PICK x \in T : \A y \in T : ~ (<<y, x>> \in OpToRel(<, Nat))
  BY <1>1
<1>3. ASSUME NEW y \in T PROVE x <= y
  <2>1. x \in Nat /\ y \in Nat
    OBVIOUS
  <2>2. ~ (<<y, x>> \in {ss \in Nat \X Nat : ss[1] < ss[2]})
    BY <1>2 DEF OpToRel
  <2>3. <<y, x>> \in Nat \X Nat
    BY <2>1
  <2>4. ~ (y < x)
    BY <2>2, <2>3
  <2> QED
    BY <2>1, <2>4
<1> QED
  BY <1>2, <1>3

\* Halving a positive number gives a smaller one.
LEMMA HalfFacts ==
  ASSUME NEW n \in Nat
  PROVE  /\ n \div 2 \in Nat
         /\ n > 0 => n \div 2 < n
         /\ n % 2 \in {0, 1}
         /\ n = 2 * (n \div 2) + (n % 2)
  OBVIOUS

(***************************************************************************)
(* Definition by descent: when P leads from every positive number to a     *)
(* smaller one, there is a function that takes the value b at 0 and        *)
(* S[n, its value at P[n]] at n > 0.  Halving is such a descent.           *)
(***************************************************************************)
Falls(P) == P \in [Nat -> Nat] /\ \A n \in Nat : n > 0 => P[n] < n

DescentOn(f, D, P, b, S) ==
  \A n \in D : f[n] = IF n = 0 THEN b ELSE S[n, f[P[n]]]

Halving == [n \in Nat |-> n \div 2]

\* Halving a positive number gives a smaller one.
LEMMA HalvingFalls == Falls(Halving) /\ \A n \in Nat : Halving[n] = n \div 2
<1>1. ASSUME NEW n \in Nat
      PROVE  n \div 2 \in Nat /\ (n > 0 => n \div 2 < n)
  BY HalfFacts
<1> QED
  BY <1>1 DEF Falls, Halving

\* Two such functions agree wherever both are defined.
LEMMA DescentAgree ==
  ASSUME NEW P, Falls(P), NEW b, NEW S, NEW m \in Nat, NEW n \in Nat,
         NEW f, NEW g, DescentOn(f, 0..m, P, b, S), DescentOn(g, 0..n, P, b, S)
  PROVE  \A i \in 0..m : i \in 0..n => f[i] = g[i]
<1> DEFINE Bad == {i \in 0..m : i \in 0..n /\ f[i] # g[i]}
<1> SUFFICES ASSUME Bad # {} PROVE FALSE
  OBVIOUS
<1>0. Bad \subseteq Nat
  OBVIOUS
<1>1. PICK i \in Bad : \A j \in Bad : i <= j
  BY <1>0, NatMin
<1>2. i \in Nat /\ i \in 0..m /\ i \in 0..n /\ f[i] # g[i]
  OBVIOUS
<1>3. i # 0
  BY <1>2 DEF DescentOn
<1>4. P[i] \in 0..m /\ P[i] \in 0..n /\ P[i] < i /\ P[i] \in Nat
  BY <1>2, <1>3 DEF Falls
<1>5. P[i] \notin Bad
  BY <1>1, <1>4, <1>2
<1>6. f[P[i]] = g[P[i]]
  BY <1>4, <1>5
<1> QED
  BY <1>2, <1>3, <1>6 DEF DescentOn

\* There is such a function up to every n.
LEMMA DescentPrefix ==
  ASSUME NEW P, Falls(P), NEW V, NEW b \in V, NEW S \in [Nat \X V -> V],
         NEW n \in Nat
  PROVE  \E f \in [0..n -> V] : DescentOn(f, 0..n, P, b, S)
<1> DEFINE Bad == {i \in Nat : ~ \E f \in [0..i -> V] :
                                    DescentOn(f, 0..i, P, b, S)}
<1> SUFFICES ASSUME Bad # {} PROVE FALSE
  OBVIOUS
<1>0. Bad \subseteq Nat
  OBVIOUS
<1>1. PICK i \in Bad : \A j \in Bad : i <= j
  BY <1>0, NatMin
<1>2. i # 0
  <2>1. [j \in 0..0 |-> b] \in [0..0 -> V]
    OBVIOUS
  <2>2. DescentOn([j \in 0..0 |-> b], 0..0, P, b, S)
    <3>1. \A j \in 0..0 : j = 0
      OBVIOUS
    <3> QED
      BY <3>1 DEF DescentOn
  <2>3. 0 \notin Bad
    BY <2>1, <2>2
  <2> QED
    BY <2>3
<1>3. i - 1 \in Nat /\ i - 1 \notin Bad
  <2>1. i \in Nat /\ i - 1 \in Nat /\ ~ (i <= i - 1)
    BY <1>0, <1>2
  <2> QED
    BY <1>1, <2>1
<1>4. PICK f \in [0..(i-1) -> V] : DescentOn(f, 0..(i-1), P, b, S)
  BY <1>3
<1> DEFINE g == [j \in 0..i |-> IF j = i THEN S[i, f[P[i]]] ELSE f[j]]
<1>5. P[i] \in 0..(i-1)
  <2>1. i \in Nat /\ i > 0
    BY <1>0, <1>2
  <2>2. P[i] \in Nat /\ P[i] < i
    BY <2>1 DEF Falls
  <2> QED
    BY <2>1, <2>2
<1>6. f[P[i]] \in V
  BY <1>5
<1>7. i \in Nat /\ \A j \in 0..i : j # i => j \in 0..(i-1)
  BY <1>0
<1>8. S[i, f[P[i]]] \in V
  <2>1. <<i, f[P[i]]>> \in Nat \X V
    BY <1>6, <1>7
  <2> QED
    BY <2>1
<1>10. g \in [0..i -> V]
  BY <1>8, <1>7
<1>11. \A j \in 0..i : g[j] = IF j = i THEN S[i, f[P[i]]] ELSE f[j]
  OBVIOUS
<1> HIDE DEF g
<1>12. ASSUME NEW j \in 0..i
       PROVE  g[j] = IF j = 0 THEN b ELSE S[j, g[P[j]]]
  <2>1. CASE j = i
    <3>1. P[i] \in 0..i /\ P[i] # i
      BY <1>5, <1>7
    <3>2. g[P[i]] = f[P[i]]
      BY <3>1, <1>11
    <3> QED
      BY <2>1, <3>2, <1>2, <1>7, <1>11
  <2>2. CASE j # i
    <3>1. j \in 0..(i-1) /\ j \in Nat
      BY <2>2, <1>7
    <3>2. j # 0 => P[j] \in 0..(i-1) /\ P[j] \in 0..i /\ P[j] # i
      <4> SUFFICES ASSUME j # 0
                   PROVE  P[j] \in 0..(i-1) /\ P[j] \in 0..i /\ P[j] # i
        OBVIOUS
      <4>1. P[j] \in Nat /\ P[j] < j
        BY <3>1 DEF Falls
      <4> QED
        BY <1>7, <3>1, <4>1
    <3>3. g[j] = f[j] /\ (j # 0 => g[P[j]] = f[P[j]])
      BY <2>2, <3>2, <1>11
    <3> QED
      BY <3>1, <3>3, <1>4 DEF DescentOn
  <2> QED
    BY <2>1, <2>2
<1>13. DescentOn(g, 0..i, P, b, S)
  BY <1>12 DEF DescentOn
<1> QED
  BY <1>0, <1>10, <1>13

\* And so for all numbers.
LEMMA DescentFunction ==
  ASSUME NEW P, Falls(P), NEW V, NEW b \in V, NEW S \in [Nat \X V -> V]
  PROVE  \E f \in [Nat -> V] : DescentOn(f, Nat, P, b, S)
<1> DEFINE F(n) == CHOOSE f \in [0..n -> V] : DescentOn(f, 0..n, P, b, S)
           f == [n \in Nat |-> F(n)[n]]
<1>1. ASSUME NEW n \in Nat
      PROVE  F(n) \in [0..n -> V] /\ DescentOn(F(n), 0..n, P, b, S)
  BY DescentPrefix
<1> HIDE DEF F
<1>2. f \in [Nat -> V]
  BY <1>1
<1>3. ASSUME NEW n \in Nat
      PROVE  f[n] = IF n = 0 THEN b ELSE S[n, f[P[n]]]
  <2>1. F(n)[n] = IF n = 0 THEN b ELSE S[n, F(n)[P[n]]]
    <3>1. DescentOn(F(n), 0..n, P, b, S) /\ n \in 0..n
      BY <1>1
    <3> QED
      BY <3>1 DEF DescentOn
  <2>2. P[n] \in Nat /\ (n # 0 => P[n] \in 0..n)
    BY DEF Falls
  <2>3. n # 0 => F(n)[P[n]] = F(P[n])[P[n]]
    <3> SUFFICES ASSUME n # 0 PROVE F(n)[P[n]] = F(P[n])[P[n]]
      OBVIOUS
    <3> DEFINE m == P[n]
    <3>1. m \in Nat /\ m \in 0..n /\ m \in 0..m
      BY <2>2
    <3> HIDE DEF m
    <3> QED
      BY <1>1, <3>1, DescentAgree DEF m
  <2> QED
    BY <2>1, <2>2, <2>3
<1>4. DescentOn(f, Nat, P, b, S)
  BY <1>3 DEF DescentOn
<1> QED
  BY <1>2, <1>4

(***************************************************************************)
(* popcnt                                                                  *)
(***************************************************************************)
LEMMA PopcntIsRecursive ==
  popcnt = [x \in Nat |-> IF x = 0 THEN 0 ELSE popcnt[x \div 2] + (x % 2)]
<1> DEFINE S == [p \in Nat \X Nat |-> p[2] + (p[1] % 2)]
<1>1. S \in [Nat \X Nat -> Nat]
  OBVIOUS
<1>2. PICK f \in [Nat -> Nat] : DescentOn(f, Nat, Halving, 0, S)
  BY <1>1, HalvingFalls, DescentFunction
<1>3. ASSUME NEW x \in Nat
      PROVE  f[x] = IF x = 0 THEN 0 ELSE f[x \div 2] + (x % 2)
  <2>1. x \div 2 \in Nat /\ f[x \div 2] \in Nat
    BY HalfFacts
  <2>2. S[x, f[x \div 2]] = f[x \div 2] + (x % 2)
    BY <2>1
  <2> QED
    BY <2>2, <1>2, HalvingFalls DEF DescentOn
<1>4. f = [x \in Nat |-> IF x = 0 THEN 0 ELSE f[x \div 2] + (x % 2)]
  BY <1>3
<1> QED
  BY <1>4 DEF popcnt

LEMMA PopcntType == ASSUME NEW n \in Nat PROVE popcnt[n] \in Nat
<1> DEFINE Bad == {i \in Nat : popcnt[i] \notin Nat}
<1> SUFFICES ASSUME Bad # {} PROVE FALSE
  OBVIOUS
<1>1. PICK i \in Bad : \A j \in Bad : i <= j
  BY NatMin
<1>2. i \in Nat /\ popcnt[i] \notin Nat
  OBVIOUS
<1>3. i # 0 /\ popcnt[i] = popcnt[i \div 2] + (i % 2)
  BY <1>2, PopcntIsRecursive
<1>4. i \div 2 \in Nat /\ i \div 2 < i
  BY <1>2, <1>3, HalfFacts
<1>5. popcnt[i \div 2] \in Nat
  BY <1>1, <1>2, <1>4
<1> QED
  BY <1>2, <1>3, <1>5

\* Doubling shifts a 0 in, doubling and adding one shifts a 1 in.
LEMMA PopcntShift ==
  ASSUME NEW n \in Nat
  PROVE  /\ popcnt[0] = 0
         /\ popcnt[2 * n] = popcnt[n]
         /\ popcnt[2 * n + 1] = popcnt[n] + 1
<1>1. popcnt[0] = 0
  BY PopcntIsRecursive
<1>2. 2 * n \in Nat /\ (2 * n) \div 2 = n /\ (2 * n) % 2 = 0
  OBVIOUS
<1>3. 2 * n + 1 \in Nat /\ (2 * n + 1) \div 2 = n /\ (2 * n + 1) % 2 = 1
  OBVIOUS
<1>4. popcnt[n] \in Nat
  BY PopcntType
<1>5. popcnt[2 * n] = popcnt[n]
  <2>1. CASE n = 0
    BY <2>1
  <2>2. CASE n # 0
    <3>1. 2 * n # 0
      BY <2>2
    <3>2. popcnt[2 * n] = popcnt[n] + 0
      BY <3>1, <1>2, PopcntIsRecursive
    <3> QED
      BY <3>2, <1>4
  <2> QED
    BY <2>1, <2>2
<1>6. popcnt[2 * n + 1] = popcnt[n] + 1
  <2>1. 2 * n + 1 # 0
    OBVIOUS
  <2> QED
    BY <2>1, <1>3, PopcntIsRecursive
<1> QED
  BY <1>1, <1>5, <1>6

\* Every number is one of the two forms.
LEMMA EvenOrOdd ==
  ASSUME NEW n \in Nat
  PROVE  \/ \E k \in Nat : n = 2 * k /\ (n > 0 => k < n)
         \/ \E k \in Nat : n = 2 * k + 1 /\ k < n
<1>1. CASE n % 2 = 0
  <2>1. n = 2 * (n \div 2) /\ n \div 2 \in Nat /\ (n > 0 => n \div 2 < n)
    BY <1>1
  <2> QED
    BY <2>1
<1>2. CASE n % 2 = 1
  <2>1. n = 2 * (n \div 2) + 1 /\ n \div 2 \in Nat /\ n \div 2 < n
    BY <1>2
  <2> QED
    BY <2>1
<1> QED
  BY <1>1, <1>2

LEMMA PopcntZero == ASSUME NEW n \in Nat, popcnt[n] = 0 PROVE n = 0
<1> DEFINE Bad == {i \in Nat : popcnt[i] = 0 /\ i # 0}
<1> SUFFICES ASSUME Bad # {} PROVE FALSE
  OBVIOUS
<1>1. PICK i \in Bad : \A j \in Bad : i <= j
  BY NatMin
<1>2. i \in Nat /\ popcnt[i] = 0 /\ i # 0
  OBVIOUS
<1>3. ASSUME NEW k \in Nat, i = 2 * k, k < i PROVE FALSE
  <2>1. popcnt[k] = 0 /\ k # 0
    BY <1>2, <1>3, PopcntShift
  <2> QED
    BY <1>1, <1>3, <2>1
<1>4. ASSUME NEW k \in Nat, i = 2 * k + 1 PROVE FALSE
  <2>1. popcnt[i] = popcnt[k] + 1 /\ popcnt[k] \in Nat
    BY <1>4, PopcntShift, PopcntType
  <2> QED
    BY <2>1, <1>2
<1>5. i > 0
  BY <1>2
<1>6. \/ \E k \in Nat : i = 2 * k /\ (i > 0 => k < i)
      \/ \E k \in Nat : i = 2 * k + 1 /\ k < i
  BY <1>2, EvenOrOdd
<1> QED
  BY <1>3, <1>4, <1>5, <1>6

\* Adding one clears the low 1 bits and sets one 0 bit.
LEMMA PopcntSucc == ASSUME NEW n \in Nat PROVE popcnt[n + 1] <= popcnt[n] + 1
<1> DEFINE Bad == {i \in Nat : ~ (popcnt[i + 1] <= popcnt[i] + 1)}
<1> SUFFICES ASSUME Bad # {} PROVE FALSE
  OBVIOUS
<1>1. PICK i \in Bad : \A j \in Bad : i <= j
  BY NatMin
<1>2. i \in Nat /\ ~ (popcnt[i + 1] <= popcnt[i] + 1)
  OBVIOUS
<1>3. ASSUME NEW k \in Nat, i = 2 * k PROVE FALSE
  <2>1. popcnt[i] = popcnt[k] /\ popcnt[i + 1] = popcnt[k] + 1
    BY <1>3, PopcntShift
  <2>2. popcnt[k] \in Nat
    BY PopcntType
  <2> QED
    BY <1>2, <2>1, <2>2
<1>4. ASSUME NEW k \in Nat, i = 2 * k + 1, k < i PROVE FALSE
  <2>1. k + 1 \in Nat /\ i + 1 = 2 * (k + 1)
    BY <1>4
  <2>2. popcnt[i] = popcnt[k] + 1 /\ popcnt[i + 1] = popcnt[k + 1]
    BY <1>4, <2>1, PopcntShift
  <2>3. popcnt[k + 1] <= popcnt[k] + 1
    BY <1>1, <1>2, <1>4
  <2>4. popcnt[k] \in Nat /\ popcnt[k + 1] \in Nat
    BY <2>1, PopcntType
  <2> QED
    BY <1>2, <2>2, <2>3, <2>4
<1> QED
  BY <1>2, <1>3, <1>4, EvenOrOdd

(***************************************************************************)
(* Powers of two                                                           *)
(***************************************************************************)
LEMMA Pow2One == IsPow2(1)
<1>1. 1 = 2 * 0 + 1
  OBVIOUS
<1>2. popcnt[1] = 1
  BY <1>1, PopcntShift
<1> QED
  BY <1>2 DEF IsPow2

LEMMA Pow2Positive == ASSUME NEW s, IsPow2(s) PROVE s \in Nat /\ s > 0
<1>1. s \in Nat /\ popcnt[s] = 1
  BY DEF IsPow2
<1>2. s # 0
  BY <1>1, PopcntShift
<1> QED
  BY <1>1, <1>2

LEMMA Pow2Double == ASSUME NEW s, IsPow2(s) PROVE IsPow2(2 * s)
  BY PopcntShift DEF IsPow2

\* A power of two is 1 or twice a smaller power of two.
LEMMA Pow2Cases ==
  ASSUME NEW s, IsPow2(s)
  PROVE  s = 1 \/ \E t \in Nat : IsPow2(t) /\ s = 2 * t /\ t < s
<1>1. s \in Nat /\ s > 0 /\ popcnt[s] = 1
  BY Pow2Positive DEF IsPow2
<1>2. ASSUME NEW k \in Nat, s = 2 * k, k < s
      PROVE  \E t \in Nat : IsPow2(t) /\ s = 2 * t /\ t < s
  BY <1>1, <1>2, PopcntShift DEF IsPow2
<1>3. ASSUME NEW k \in Nat, s = 2 * k + 1
      PROVE  s = 1
  <2>1. popcnt[k] = 0
    BY <1>1, <1>3, PopcntShift, PopcntType
  <2> QED
    BY <2>1, <1>3, PopcntZero
<1>4. \/ \E k \in Nat : s = 2 * k /\ k < s
      \/ \E k \in Nat : s = 2 * k + 1
  BY <1>1, EvenOrOdd
<1> QED
  BY <1>2, <1>3, <1>4

\* The multiples of a power of two have the bits of the factor, shifted.
LEMMA PopcntScale ==
  ASSUME NEW s, IsPow2(s), NEW q \in Nat
  PROVE  popcnt[s * q] = popcnt[q]
<1> DEFINE Bad == {i \in Nat : IsPow2(i) /\ popcnt[i * q] # popcnt[q]}
<1> SUFFICES ASSUME Bad # {} PROVE FALSE
  BY Pow2Positive
<1>1. PICK i \in Bad : \A j \in Bad : i <= j
  BY NatMin
<1>2. i \in Nat /\ IsPow2(i) /\ popcnt[i * q] # popcnt[q]
  OBVIOUS
<1>3. i # 1
  BY <1>2
<1>4. PICK t \in Nat : IsPow2(t) /\ i = 2 * t /\ t < i
  BY <1>2, <1>3, Pow2Cases
<1>5. popcnt[t * q] = popcnt[q]
  BY <1>1, <1>2, <1>4
<1>6. t * q \in Nat /\ i * q = 2 * (t * q)
  BY <1>4
<1>7. popcnt[i * q] = popcnt[t * q]
  BY <1>6, PopcntShift
<1> QED
  BY <1>2, <1>5, <1>7

\* Below a power of two, its predecessor has the most 1 bits.
LEMMA PopcntBelow ==
  ASSUME NEW s, IsPow2(s), NEW n \in Nat, n < s
  PROVE  popcnt[n] <= popcnt[s - 1]
<1> DEFINE Bad == {i \in Nat : /\ IsPow2(i)
                              /\ \E m \in Nat : /\ m < i
                                               /\ ~ (popcnt[m] <= popcnt[i - 1])}
<1> SUFFICES ASSUME Bad # {} PROVE FALSE
  BY Pow2Positive
<1>1. PICK i \in Bad : \A j \in Bad : i <= j
  BY NatMin
<1>2. i \in Nat /\ IsPow2(i)
  OBVIOUS
<1>3. PICK m \in Nat : m < i /\ ~ (popcnt[m] <= popcnt[i - 1])
  OBVIOUS
<1>4. i # 1
  <2>1. i = 1 => m = 0 /\ i - 1 = 0
    BY <1>3
  <2>2. popcnt[0] = 0
    BY PopcntShift
  <2> QED
    BY <2>1, <2>2, <1>3
<1>5. PICK t \in Nat : IsPow2(t) /\ i = 2 * t /\ t < i
  BY <1>2, <1>4, Pow2Cases
<1>6. t > 0 /\ t - 1 \in Nat /\ i - 1 = 2 * (t - 1) + 1
  BY <1>5, Pow2Positive
<1>7. popcnt[i - 1] = popcnt[t - 1] + 1
  BY <1>6, PopcntShift
<1>8. popcnt[t - 1] \in Nat
  BY <1>6, PopcntType
<1>9. ASSUME NEW k \in Nat, k < t PROVE popcnt[k] <= popcnt[t - 1]
  BY <1>1, <1>2, <1>5, <1>9
<1>10. ASSUME NEW k \in Nat, m = 2 * k \/ m = 2 * k + 1
       PROVE  FALSE
  <2>1. k < t
    BY <1>3, <1>5, <1>10
  <2>2. popcnt[k] \in Nat /\ popcnt[k] <= popcnt[t - 1]
    BY <2>1, <1>9, PopcntType
  <2>3. popcnt[m] = popcnt[k] \/ popcnt[m] = popcnt[k] + 1
    BY <1>10, PopcntShift
  <2> QED
    BY <2>2, <2>3, <1>3, <1>7, <1>8
<1> QED
  BY <1>10, EvenOrOdd

\* Of two powers of two the smaller divides the larger, which is at least its
\* double unless they are equal.
LEMMA Pow2Divides ==
  ASSUME NEW s, NEW t, IsPow2(s), IsPow2(t), t <= s
  PROVE  \E q \in Nat : IsPow2(q) /\ s = t * q
<1> DEFINE Bad == {i \in Nat : /\ IsPow2(i)
                              /\ \E r \in Nat :
                                   /\ IsPow2(r) /\ r <= i
                                   /\ ~ \E q \in Nat : IsPow2(q) /\ i = r * q}
<1> SUFFICES ASSUME Bad # {} PROVE FALSE
  BY Pow2Positive
<1>1. PICK i \in Bad : \A j \in Bad : i <= j
  BY NatMin
<1>2. i \in Nat /\ IsPow2(i)
  OBVIOUS
<1>3. PICK r \in Nat : /\ IsPow2(r) /\ r <= i
                       /\ ~ \E q \in Nat : IsPow2(q) /\ i = r * q
  OBVIOUS
<1>4. r # 1
  <2>1. i = 1 * i
    BY <1>2
  <2> QED
    BY <2>1, <1>2, <1>3
<1>5. PICK u \in Nat : IsPow2(u) /\ r = 2 * u
  BY <1>3, <1>4, Pow2Cases
<1>6. i # 1
  <2>1. u > 0
    BY <1>5, Pow2Positive
  <2> QED
    BY <2>1, <1>3, <1>5
<1>7. PICK v \in Nat : IsPow2(v) /\ i = 2 * v /\ v < i
  BY <1>2, <1>6, Pow2Cases
<1>8. u <= v
  BY <1>3, <1>5, <1>7
<1>9. PICK q \in Nat : IsPow2(q) /\ v = u * q
  BY <1>1, <1>2, <1>5, <1>7, <1>8
<1>10. i = r * q
  BY <1>5, <1>7, <1>9
<1> QED
  BY <1>3, <1>9, <1>10

LEMMA Pow2Gap ==
  ASSUME NEW s, NEW t, IsPow2(s), IsPow2(t), t < s
  PROVE  2 * t <= s
<1>1. s \in Nat /\ t \in Nat
  BY Pow2Positive
<1>2. PICK q \in Nat : s = t * q
  <2>1. t <= s
    BY <1>1
  <2> QED
    BY <2>1, Pow2Divides
<1>3. q # 0 /\ q # 1
  BY <1>1, <1>2
<1>4. PICK r \in Nat : q = r + 2
  <2>1. q - 2 \in Nat /\ q = (q - 2) + 2
    BY <1>3
  <2> QED
    BY <2>1
<1>5. s = t * r + 2 * t /\ t * r \in Nat
  BY <1>1, <1>2, <1>4
<1> QED
  BY <1>1, <1>5

(***************************************************************************)
(* round_down_to_power_of_2                                                *)
(***************************************************************************)
LEMMA RoundDownIsRecursive ==
  round_down_to_power_of_2 =
    [x \in Nat |-> IF x <= 1 THEN 1 ELSE 2 * round_down_to_power_of_2[x \div 2]]
<1> DEFINE S == [p \in Nat \X Nat |-> IF p[1] <= 1 THEN 1 ELSE 2 * p[2]]
<1>1. S \in [Nat \X Nat -> Nat]
  OBVIOUS
<1>2. PICK f \in [Nat -> Nat] : DescentOn(f, Nat, Halving, 1, S)
  BY <1>1, HalvingFalls, DescentFunction
<1>3. ASSUME NEW x \in Nat
      PROVE  f[x] = IF x <= 1 THEN 1 ELSE 2 * f[x \div 2]
  <2>1. x \div 2 \in Nat /\ f[x \div 2] \in Nat
    BY HalfFacts
  <2>2. S[x, f[x \div 2]] = IF x <= 1 THEN 1 ELSE 2 * f[x \div 2]
    BY <2>1
  <2>3. f[x] = IF x = 0 THEN 1 ELSE S[x, f[x \div 2]]
    BY <1>2, HalvingFalls DEF DescentOn
  <2>4. x = 0 => x <= 1
    OBVIOUS
  <2> HIDE DEF S
  <2> QED
    BY <2>2, <2>3, <2>4
<1>4. f = [x \in Nat |-> IF x <= 1 THEN 1 ELSE 2 * f[x \div 2]]
  BY <1>3
<1> QED
  BY <1>4 DEF round_down_to_power_of_2

\* The largest power of two that is at most x, for x > 0.
THEOREM RoundDown ==
  ASSUME NEW x \in Nat, x > 0
  PROVE  LET r == round_down_to_power_of_2[x]
         IN  IsPow2(r) /\ r <= x /\ x < 2 * r
<1> DEFINE Rounds(i) == LET r == round_down_to_power_of_2[i]
                        IN  IsPow2(r) /\ r <= i /\ i < 2 * r
           Bad == {i \in Nat : i > 0 /\ ~ Rounds(i)}
<1> SUFFICES ASSUME Bad # {} PROVE FALSE
  OBVIOUS
<1>1. PICK i \in Bad : \A j \in Bad : i <= j
  BY NatMin
<1>2. i \in Nat /\ i > 0 /\ ~ Rounds(i)
  OBVIOUS
<1>3. i # 1
  <2>1. round_down_to_power_of_2[1] = 1
    BY RoundDownIsRecursive
  <2> QED
    BY <2>1, <1>2, Pow2One
<1>4. PICK k \in Nat : (i = 2 * k \/ i = 2 * k + 1) /\ k < i
  BY <1>2, EvenOrOdd
<1>5. k > 0 /\ i \div 2 = k
  BY <1>2, <1>3, <1>4
<1>6. Rounds(k)
  BY <1>1, <1>2, <1>4, <1>5
<1>7. round_down_to_power_of_2[i] = 2 * round_down_to_power_of_2[k]
  BY <1>2, <1>3, <1>5, RoundDownIsRecursive
<1>8. IsPow2(round_down_to_power_of_2[i])
  BY <1>6, <1>7, Pow2Double
<1>9. round_down_to_power_of_2[k] \in Nat
  BY <1>6, Pow2Positive
<1>10. round_down_to_power_of_2[i] <= i /\ i < 2 * round_down_to_power_of_2[i]
  BY <1>4, <1>6, <1>7, <1>9
<1> QED
  BY <1>2, <1>8, <1>10

-----------------------------------------------------------------------------
(***************************************************************************)
(* Sequences, and the chains of compressions over them.                    *)
(***************************************************************************)
\* What holds at 0 and passes from each number to the next holds up to N.
LEMMA Induct ==
  ASSUME NEW N \in Nat, NEW S, 0 \in S,
         \A n \in 0..N : n < N /\ n \in S => n + 1 \in S
  PROVE  \A n \in 0..N : n \in S
<1> DEFINE Bad == {n \in 0..N : n \notin S}
<1> SUFFICES ASSUME Bad # {} PROVE FALSE
  OBVIOUS
<1>1. PICK n \in Bad : \A m \in Bad : n <= m
  <2>1. Bad \subseteq Nat
    OBVIOUS
  <2> QED
    BY <2>1, NatMin
<1>2. n - 1 \in 0..N /\ n - 1 \notin Bad /\ n - 1 < N
  BY <1>1
<1> QED
  BY <1>2

IsSeq(s) == Len(s) \in Nat /\ s = [i \in 1..Len(s) |-> s[i]]

\* A function on 1..n is a sequence of length n.
LEMMA SeqOf ==
  ASSUME NEW n \in Nat, NEW s, s = [i \in 1..n |-> s[i]]
  PROVE  IsSeq(s) /\ Len(s) = n /\ s \in Seq({s[i] : i \in 1..n})
<1>1. s \in [1..n -> {s[i] : i \in 1..n}]
  OBVIOUS
<1>2. s \in Seq({s[i] : i \in 1..n})
  BY <1>1, SeqDef
<1>3. Len(s) = n
  BY <1>1, <1>2, LenProperties
<1> QED
  BY <1>2, <1>3 DEF IsSeq

\* A sequence is the function of its elements.
LEMMA SeqElements ==
  ASSUME NEW s, IsSeq(s)
  PROVE  s \in Seq({s[i] : i \in 1..Len(s)})
  BY SeqOf DEF IsSeq

\* Sequences of one length with the same elements are the same.
LEMMA SameSeq ==
  ASSUME NEW s, NEW t, IsSeq(s), IsSeq(t), Len(s) = Len(t),
         \A i \in 1..Len(s) : s[i] = t[i]
  PROVE  s = t
  BY DEF IsSeq

\* The empty sequence is the only one of length 0.
LEMMA EmptyIs ==
  /\ IsSeq(<<>>) /\ Len(<<>>) = 0
  /\ \A s : IsSeq(s) => (s = <<>> <=> Len(s) = 0)
<1>1. Len(<<>>) = 0
  OBVIOUS
<1>2. <<>> = [i \in 1..0 |-> <<>>[i]]
  OBVIOUS
<1>3. IsSeq(<<>>)
  BY <1>1, <1>2 DEF IsSeq
<1>4. ASSUME NEW s, IsSeq(s), Len(s) = 0 PROVE s = <<>>
  BY <1>1, <1>3, <1>4, SameSeq
<1> QED
  BY <1>1, <1>3, <1>4

\* The elements of a concatenation.
LEMMA ConcatIs ==
  ASSUME NEW s, NEW t, IsSeq(s), IsSeq(t)
  PROVE  /\ IsSeq(s \o t) /\ Len(s \o t) = Len(s) + Len(t)
         /\ \A i \in 1..(Len(s) + Len(t)) :
              (s \o t)[i] = IF i <= Len(s) THEN s[i] ELSE t[i - Len(s)]
<1> DEFINE S == {s[i] : i \in 1..Len(s)} \cup {t[i] : i \in 1..Len(t)}
<1>1. s \in Seq(S) /\ t \in Seq(S)
  <2> DEFINE A == {s[i] : i \in 1..Len(s)}
             B == {t[i] : i \in 1..Len(t)}
  <2>1. A \subseteq S /\ B \subseteq S
    OBVIOUS
  <2>2. s \in Seq(A) /\ t \in Seq(B)
    BY SeqElements
  <2> HIDE DEF S, A, B
  <2> QED
    BY <2>1, <2>2, SeqMonotonic
<1> HIDE DEF S
<1>2. /\ s \o t \in Seq(S) /\ Len(s \o t) = Len(s) + Len(t)
      /\ \A i \in 1..(Len(s) + Len(t)) :
              (s \o t)[i] = IF i <= Len(s) THEN s[i] ELSE t[i - Len(s)]
  BY <1>1, ConcatProperties
<1>3. IsSeq(s \o t)
  BY <1>2, LenProperties DEF IsSeq
<1> QED
  BY <1>2, <1>3

\* The elements of a subsequence.
LEMMA SubSeqIs ==
  ASSUME NEW s, NEW m \in Nat, NEW n \in Nat, m <= n + 1
  PROVE  /\ IsSeq(SubSeq(s, m, n)) /\ Len(SubSeq(s, m, n)) = n - m + 1
         /\ \A i \in 1..(n - m + 1) : SubSeq(s, m, n)[i] = s[m + i - 1]
<1> DEFINE S == {s[i] : i \in m..n}
<1>1. \A i \in m..n : s[i] \in S
  OBVIOUS
<1> HIDE DEF S
<1>2. /\ SubSeq(s, m, n) \in Seq(S)
      /\ Len(SubSeq(s, m, n)) = IF m <= n THEN n - m + 1 ELSE 0
      /\ \A i \in 1..(n - m + 1) : SubSeq(s, m, n)[i] = s[m + i - 1]
  BY <1>1, SubSeqProperties
<1>3. IsSeq(SubSeq(s, m, n))
  BY <1>2, LenProperties DEF IsSeq
<1> QED
  BY <1>2, <1>3


\* The elements of a slice of the input.
LEMMA SliceIs ==
  ASSUME NEW s, NEW lo \in Nat, NEW hi \in Nat, lo <= hi
  PROVE  LET t == SubSeq(s, lo + 1, hi)
         IN  /\ IsSeq(t) /\ Len(t) = hi - lo
             /\ \A i \in 1..(hi - lo) : t[i] = s[lo + i]
<1> DEFINE m == lo + 1
<1>1. /\ m \in Nat /\ m <= hi + 1 /\ hi - m + 1 = hi - lo
      /\ \A i \in 1..(hi - lo) : m + i - 1 = lo + i
  OBVIOUS
<1> HIDE DEF m
<1>2. /\ IsSeq(SubSeq(s, m, hi)) /\ Len(SubSeq(s, m, hi)) = hi - m + 1
      /\ \A i \in 1..(hi - m + 1) : SubSeq(s, m, hi)[i] = s[m + i - 1]
  BY <1>1, SubSeqIs
<1> QED
  BY <1>1, <1>2 DEF m

\* A slice that takes everything is the whole.
LEMMA WholeSlice ==
  ASSUME NEW s, IsSeq(s)
  PROVE  SubSeq(s, 1, Len(s)) = s
<1> DEFINE n == Len(s)
           t == SubSeq(s, 1, n)
<1>1. n \in Nat /\ 1 <= n + 1 /\ n - 1 + 1 = n /\ \A i \in 1..n : 1 + i - 1 = i
  BY DEF IsSeq
<1>2. /\ IsSeq(t) /\ Len(t) = n - 1 + 1
      /\ \A i \in 1..(n - 1 + 1) : t[i] = s[1 + i - 1]
  BY <1>1, SubSeqIs
<1> HIDE DEF t
<1> QED
  BY <1>1, <1>2, SameSeq DEF t

-----------------------------------------------------------------------------
(***************************************************************************)
(* Chains of compressions: g[i] is the chaining value after i blocks.      *)
(***************************************************************************)
ChainOn(g, k, b, B, F, ctr) ==
  g = [i \in 0..k |-> IF i = 0 THEN b
                      ELSE compress(g[i-1], B[i], BLOCK_LEN, ctr, F[i])]

\* There is a chain over every sequence of blocks.
LEMMA ChainExists ==
  ASSUME NEW k \in Nat, NEW b, NEW B, NEW F, NEW ctr
  PROVE  \E g : ChainOn(g, k, b, B, F, ctr)
<1> DEFINE S == {j \in 0..k : \E g : ChainOn(g, j, b, B, F, ctr)}
<1>1. 0 \in S
  <2>1. ChainOn([i \in 0..0 |-> b], 0, b, B, F, ctr)
    BY DEF ChainOn
  <2> QED
    BY <2>1
<1>2. ASSUME NEW j \in 0..k, j < k, j \in S PROVE j + 1 \in S
  <2>1. PICK g : ChainOn(g, j, b, B, F, ctr)
    BY <1>2
  <2> DEFINE h == [i \in 0..(j+1) |->
                     IF i = j + 1
                     THEN compress(g[j], B[i], BLOCK_LEN, ctr, F[i])
                     ELSE g[i]]
  <2>2. ASSUME NEW i \in 0..(j+1)
        PROVE  h[i] = IF i = 0 THEN b
                      ELSE compress(h[i-1], B[i], BLOCK_LEN, ctr, F[i])
    <3>1. CASE i = j + 1
      <4>1. h[i - 1] = g[j] /\ i # 0
        BY <1>2, <3>1
      <4> QED
        BY <3>1, <4>1
    <3>2. CASE i \in 0..j
      <4>1. h[i] = g[i] /\ (i # 0 => h[i - 1] = g[i - 1])
        BY <3>2
      <4> QED
        BY <2>1, <3>2, <4>1 DEF ChainOn
    <3> QED
      BY <3>1, <3>2
  <2>3. h = [i \in 0..(j+1) |-> h[i]]
    OBVIOUS
  <2> HIDE DEF h
  <2>4. ChainOn(h, j + 1, b, B, F, ctr)
    BY <2>2, <2>3 DEF ChainOn
  <2> QED
    BY <1>2, <2>4
<1> HIDE DEF S
<1>3. k \in S
  BY <1>1, <1>2, Induct
<1> QED
  BY <1>3 DEF S

\* Two chains over the same blocks agree.
LEMMA ChainsAgree ==
  ASSUME NEW k \in Nat, NEW n \in Nat, n <= k, NEW b, NEW B, NEW F, NEW C,
         NEW E, NEW ctr, NEW g, ChainOn(g, k, b, B, F, ctr),
         NEW h, ChainOn(h, n, b, C, E, ctr),
         \A i \in 1..n : B[i] = C[i] /\ F[i] = E[i]
  PROVE  g[n] = h[n]
<1> DEFINE S == {i \in 0..n : g[i] = h[i]}
<1>1. 0 \in S
  <2>1. 0 \in 0..n /\ 0 \in 0..k
    OBVIOUS
  <2> QED
    BY <2>1 DEF ChainOn
<1>2. ASSUME NEW i \in 0..n, i < n, i \in S PROVE i + 1 \in S
  <2>1. /\ g[i + 1] = compress(g[i], B[i + 1], BLOCK_LEN, ctr, F[i + 1])
        /\ h[i + 1] = compress(h[i], C[i + 1], BLOCK_LEN, ctr, E[i + 1])
    <3>1. /\ i + 1 \in 0..k /\ i + 1 \in 0..n /\ i + 1 # 0 /\ (i + 1) - 1 = i
          /\ i + 1 \in 1..n
      BY <1>2
    <3> QED
      BY <3>1 DEF ChainOn
  <2> QED
    BY <1>2, <2>1
<1> HIDE DEF S
<1>3. n \in S
  BY <1>1, <1>2, Induct
<1> QED
  BY <1>3 DEF S

-----------------------------------------------------------------------------
(***************************************************************************)
(* The blocks of a sequence of bytes, and the chaining value after the     *)
(* first j of them.                                                        *)
(***************************************************************************)
BlockOf(bs, i) == DataBlock(SubSeq(bs, (i-1) * BLOCK_LEN + 1, i * BLOCK_LEN))

ByteChain(g, j, key, flags, ctr, bs) ==
  ChainOn(g, j, key, [i \in 1..j |-> BlockOf(bs, i)],
          [i \in 1..j |-> flags \cup maybe_start_flag(i - 1)], ctr)

BlockCV(key, flags, ctr, bs, j) ==
  (CHOOSE g : ByteChain(g, j, key, flags, ctr, bs))[j]

\* Any chain over the blocks of bs ends in the chaining value BlockCV names.
LEMMA BlockCVOf ==
  ASSUME NEW key, NEW flags, NEW ctr, NEW bs, NEW j \in Nat
  PROVE  /\ BlockCV(key, flags, ctr, bs, 0) = key
         /\ BlockCV(key, flags, ctr, bs, j + 1) =
              compress(BlockCV(key, flags, ctr, bs, j), BlockOf(bs, j + 1),
                       BLOCK_LEN, ctr, flags \cup maybe_start_flag(j))
<1> DEFINE G(i) == CHOOSE g : ByteChain(g, i, key, flags, ctr, bs)
<1>1. ASSUME NEW i \in Nat PROVE ByteChain(G(i), i, key, flags, ctr, bs)
  <2>1. \E g : ByteChain(g, i, key, flags, ctr, bs)
    BY ChainExists DEF ByteChain
  <2> QED
    BY <2>1
<1>2. /\ ByteChain(G(0), 0, key, flags, ctr, bs)
      /\ ByteChain(G(j), j, key, flags, ctr, bs)
      /\ ByteChain(G(j + 1), j + 1, key, flags, ctr, bs)
  BY <1>1
<1>3. /\ BlockCV(key, flags, ctr, bs, 0) = G(0)[0]
      /\ BlockCV(key, flags, ctr, bs, j) = G(j)[j]
      /\ BlockCV(key, flags, ctr, bs, j + 1) = G(j + 1)[j + 1]
  BY DEF BlockCV
<1> HIDE DEF G
<1>4. G(0)[0] = key
  BY <1>2 DEF ByteChain, ChainOn
<1>5. G(j + 1)[j + 1] = compress(G(j + 1)[j], BlockOf(bs, j + 1), BLOCK_LEN,
                                 ctr, flags \cup maybe_start_flag(j))
  <2>1. j + 1 \in 1..(j + 1) /\ j + 1 # 0 /\ (j + 1) - 1 = j /\ j + 1 \in 0..(j + 1)
    OBVIOUS
  <2> QED
    BY <1>2, <2>1 DEF ByteChain, ChainOn
<1>6. G(j + 1)[j] = G(j)[j]
  <2> DEFINE B == [i \in 1..(j+1) |-> BlockOf(bs, i)]
             F == [i \in 1..(j+1) |-> flags \cup maybe_start_flag(i - 1)]
             C == [i \in 1..j |-> BlockOf(bs, i)]
             E == [i \in 1..j |-> flags \cup maybe_start_flag(i - 1)]
  <2>1. /\ ChainOn(G(j + 1), j + 1, key, B, F, ctr)
        /\ ChainOn(G(j), j, key, C, E, ctr)
    BY <1>2 DEF ByteChain
  <2>2. \A i \in 1..j : B[i] = C[i] /\ F[i] = E[i]
    OBVIOUS
  <2> HIDE DEF B, F, C, E
  <2>3. j <= j + 1 /\ j + 1 \in Nat
    OBVIOUS
  <2> QED
    BY <2>1, <2>2, <2>3, ChainsAgree
<1> QED
  BY <1>3, <1>4, <1>5, <1>6

\* Before the first block the chaining value is the key.
LEMMA BlockCVStart ==
  ASSUME NEW key, NEW flags, NEW ctr, NEW bs
  PROVE  BlockCV(key, flags, ctr, bs, 0) = key
  BY BlockCVOf, 0 \in Nat

\* One more block is one more compression.
LEMMA BlockCVNext ==
  \A key, flags, ctr, bs : \A j \in Nat :
    BlockCV(key, flags, ctr, bs, j + 1) =
      compress(BlockCV(key, flags, ctr, bs, j), BlockOf(bs, j + 1),
               BLOCK_LEN, ctr, flags \cup maybe_start_flag(j))
<1> TAKE key, flags, ctr, bs
<1> TAKE j \in Nat
<1> QED
  BY BlockCVOf

\* A chain that goes on where the first j blocks ended.
LEMMA ChainFollows ==
  ASSUME NEW key, NEW flags, NEW ctr, NEW bs, NEW j \in Nat, NEW d \in Nat,
         NEW B, NEW F, NEW h,
         ChainOn(h, d, BlockCV(key, flags, ctr, bs, j), B, F, ctr),
         \A i \in 1..d : /\ B[i] = BlockOf(bs, j + i)
                         /\ F[i] = flags \cup maybe_start_flag(j + i - 1)
  PROVE  h[d] = BlockCV(key, flags, ctr, bs, j + d)
<1> DEFINE S == {i \in 0..d : h[i] = BlockCV(key, flags, ctr, bs, j + i)}
<1>1. 0 \in S
  <2>1. 0 \in 0..d /\ j + 0 = j
    OBVIOUS
  <2> QED
    BY <2>1 DEF ChainOn
<1>2. ASSUME NEW i \in 0..d, i < d, i \in S PROVE i + 1 \in S
  <2>1. h[i + 1] = compress(h[i], B[i + 1], BLOCK_LEN, ctr, F[i + 1])
    <3>1. i + 1 \in 0..d /\ i + 1 # 0 /\ (i + 1) - 1 = i
      BY <1>2
    <3> QED
      BY <3>1 DEF ChainOn
  <2>2. /\ B[i + 1] = BlockOf(bs, (j + i) + 1)
        /\ F[i + 1] = flags \cup maybe_start_flag(j + i)
    <3>1. i + 1 \in 1..d /\ j + (i + 1) = (j + i) + 1 /\ (j + (i + 1)) - 1 = j + i
      BY <1>2
    <3> QED
      BY <3>1
  <2> DEFINE x == j + i
  <2>3. x \in Nat /\ j + (i + 1) = x + 1
    OBVIOUS
  <2> HIDE DEF x
  <2>4. BlockCV(key, flags, ctr, bs, x + 1) =
          compress(BlockCV(key, flags, ctr, bs, x), BlockOf(bs, x + 1),
                   BLOCK_LEN, ctr, flags \cup maybe_start_flag(x))
    BY <2>3, BlockCVNext
  <2> QED
    BY <1>2, <2>1, <2>2, <2>3, <2>4 DEF x
<1> HIDE DEF S
<1>3. d \in S
  BY <1>1, <1>2, Induct
<1> QED
  BY <1>3 DEF S

\* The chaining value depends on the blocks only.
LEMMA SameBlocks ==
  ASSUME NEW key, NEW flags, NEW ctr, NEW bs, NEW cs, NEW n \in Nat,
         \A i \in 1..n : BlockOf(bs, i) = BlockOf(cs, i)
  PROVE  BlockCV(key, flags, ctr, bs, n) = BlockCV(key, flags, ctr, cs, n)
<1> DEFINE V(b, i) == BlockCV(key, flags, ctr, b, i)
           S == {i \in 0..n : V(bs, i) = V(cs, i)}
<1>1. 0 \in S
  BY BlockCVStart
<1>2. ASSUME NEW i \in 0..n, i < n, i \in S PROVE i + 1 \in S
  <2>1. i \in Nat /\ i + 1 \in 1..n
    BY <1>2
  <2>2. /\ V(bs, i + 1) = compress(V(bs, i), BlockOf(bs, i + 1), BLOCK_LEN,
                                   ctr, flags \cup maybe_start_flag(i))
        /\ V(cs, i + 1) = compress(V(cs, i), BlockOf(cs, i + 1), BLOCK_LEN,
                                   ctr, flags \cup maybe_start_flag(i))
    BY <2>1, BlockCVNext
  <2> QED
    BY <1>2, <2>1, <2>2
<1> HIDE DEF S
<1>3. n \in S
  BY <1>1, <1>2, Induct
<1> QED
  BY <1>3 DEF S

-----------------------------------------------------------------------------
(***************************************************************************)
(* What a chunk holds.                                                     *)
(***************************************************************************)
\* What the assumption on the lengths says.
LEMMA Lengths ==
  /\ BLOCK_LEN \in Nat /\ BLOCK_LEN > 0
  /\ CHUNK_LEN \in Nat /\ CHUNK_LEN > 0 /\ IsPow2(CHUNK_LEN)
  BY LenAssumption

\* Quotient and remainder are the only numbers of their kind.
LEMMA DivisionIs ==
  ASSUME NEW n \in Nat, NEW b \in Nat, b > 0, NEW q \in Nat, NEW r \in Nat,
         n = q * b + r, r < b
  PROVE  n \div b = q /\ n % b = r
<1> DEFINE p == n \div b
           s == n % b
<1>1. p \in Nat /\ s \in Nat /\ s < b /\ n = b * p + s
  OBVIOUS
<1> HIDE DEF p, s
<1>2. p * b \in Nat /\ q * b \in Nat /\ p * b = b * p
  BY <1>1
<1>3. ~ (p < q)
  <2> SUFFICES ASSUME p < q PROVE FALSE
    OBVIOUS
  <2>1. PICK e \in Nat : q = p + 1 + e
    <3>1. q - p - 1 \in Nat /\ q = p + 1 + (q - p - 1)
      BY <1>1
    <3> QED
      BY <3>1
  <2>2. q * b = p * b + b + e * b /\ e * b \in Nat
    BY <1>1, <2>1
  <2> QED
    BY <1>1, <1>2, <2>2
<1>4. ~ (q < p)
  <2> SUFFICES ASSUME q < p PROVE FALSE
    OBVIOUS
  <2>1. PICK e \in Nat : p = q + 1 + e
    <3>1. p - q - 1 \in Nat /\ p = q + 1 + (p - q - 1)
      BY <1>1
    <3> QED
      BY <3>1
  <2>2. p * b = q * b + b + e * b /\ e * b \in Nat
    BY <1>1, <2>1
  <2> QED
    BY <1>1, <1>2, <2>2
<1>5. p = q
  BY <1>1, <1>3, <1>4
<1> QED
  BY <1>1, <1>2, <1>5 DEF p, s

\* The blocks before the last one: d of them when n bytes reach into block d+1.
LEMMA DirectBlocksIs ==
  /\ direct_blocks(0) = 0
  /\ \A n, d \in Nat : d * BLOCK_LEN < n /\ n <= d * BLOCK_LEN + BLOCK_LEN
                         => direct_blocks(n) = d
<1>1. ASSUME NEW n \in Nat, NEW d \in Nat, d * BLOCK_LEN < n,
             n <= d * BLOCK_LEN + BLOCK_LEN
      PROVE  direct_blocks(n) = d
  <2>1. d * BLOCK_LEN \in Nat
    BY Lengths
  <2> DEFINE r == n - 1 - d * BLOCK_LEN
  <2>2. r \in Nat /\ r < BLOCK_LEN /\ n - 1 = d * BLOCK_LEN + r /\ n - 1 \in Nat
    BY <1>1, <2>1, Lengths
  <2> HIDE DEF r
  <2>3. (n - 1) \div BLOCK_LEN = d
    BY <2>2, Lengths, DivisionIs
  <2> QED
    BY <1>1, <2>1, <2>3 DEF direct_blocks
<1> QED
  BY <1>1 DEF direct_blocks

\* The last block, full or not, is left for the buffer.
LEMMA BlocksTaken ==
  ASSUME NEW n \in Nat
  PROVE  /\ direct_blocks(n) \in Nat
         /\ direct_blocks(n) * BLOCK_LEN \in Nat
         /\ n - direct_blocks(n) * BLOCK_LEN \in 0..BLOCK_LEN
         /\ n > 0 => n - direct_blocks(n) * BLOCK_LEN > 0
<1> DEFINE q == (n - 1) \div BLOCK_LEN
           s == (n - 1) % BLOCK_LEN
<1>1. CASE n = 0
  BY <1>1, Lengths DEF direct_blocks
<1>2. CASE n > 0
  <2>1. n - 1 \in Nat /\ BLOCK_LEN \in Nat /\ BLOCK_LEN > 0
    BY <1>2, Lengths
  <2>2. q \in Nat /\ s \in Nat /\ s < BLOCK_LEN /\ n - 1 = BLOCK_LEN * q + s
    BY <2>1
  <2>3. direct_blocks(n) = q
    BY <1>2 DEF direct_blocks
  <2> HIDE DEF q, s
  <2>4. q * BLOCK_LEN \in Nat /\ q * BLOCK_LEN = BLOCK_LEN * q
    BY <2>1, <2>2
  <2> QED
    BY <1>2, <2>1, <2>2, <2>3, <2>4
<1> QED
  BY <1>1, <1>2

-----------------------------------------------------------------------------
(***************************************************************************)
(* The state of a chunk that has taken in the bytes bs, in whatever pieces *)
(* they came.                                                              *)
(***************************************************************************)
LastBuf(bs) ==
  [i \in 1..BLOCK_LEN |->
     LET j == direct_blocks(Len(bs)) * BLOCK_LEN + i
     IN  IF j <= Len(bs) THEN bs[j] ELSE Zero]

Holds(key, flags, ctr, bs) ==
  LET d == direct_blocks(Len(bs))
  IN  chunk_state(BlockCV(key, flags, ctr, bs, d), ctr, LastBuf(bs),
                  Len(bs) - d * BLOCK_LEN, d, flags)

\* The fields of a chunk that holds bs.
LEMMA HoldsFields ==
  ASSUME NEW key, NEW flags, NEW ctr, NEW bs
  PROVE  LET c == Holds(key, flags, ctr, bs)
             d == direct_blocks(Len(bs))
         IN  /\ c.cv = BlockCV(key, flags, ctr, bs, d)
             /\ c.chunk_counter = ctr /\ c.buf = LastBuf(bs)
             /\ c.buf_len = Len(bs) - d * BLOCK_LEN
             /\ c.blocks_compressed = d /\ c.flags = flags
  BY DEF Holds, chunk_state

\* chunk_state_len counts the bytes held.
LEMMA HoldsLength ==
  ASSUME NEW key, NEW flags, NEW ctr, NEW bs, IsSeq(bs)
  PROVE  LET c == Holds(key, flags, ctr, bs)
         IN  /\ chunk_state_len(c) = Len(bs)
             /\ c.buf_len \in 0..BLOCK_LEN
             /\ c.buf_len = 0 <=> Len(bs) = 0
<1> DEFINE d == direct_blocks(Len(bs))
<1>1. /\ Len(bs) \in Nat /\ d \in Nat /\ d * BLOCK_LEN \in Nat
      /\ Len(bs) - d * BLOCK_LEN \in 0..BLOCK_LEN
      /\ Len(bs) > 0 => Len(bs) - d * BLOCK_LEN > 0
  BY BlocksTaken DEF IsSeq
<1>2. d * BLOCK_LEN = BLOCK_LEN * d
  BY <1>1, Lengths
<1> DEFINE c == Holds(key, flags, ctr, bs)
<1>3. c.buf_len = Len(bs) - d * BLOCK_LEN /\ c.blocks_compressed = d
  BY HoldsFields
<1> HIDE DEF c, d
<1>4. chunk_state_len(c) = BLOCK_LEN * d + (Len(bs) - d * BLOCK_LEN)
  BY <1>3 DEF chunk_state_len
<1>5. chunk_state_len(c) = Len(bs)
  BY <1>1, <1>2, <1>4
<1>6. c.buf_len \in 0..BLOCK_LEN /\ (c.buf_len = 0 <=> Len(bs) = 0)
  BY <1>1, <1>3
<1> QED
  BY <1>5, <1>6 DEF c

\* A chunk that was just reset holds nothing.
LEMMA FreshHolds ==
  ASSUME NEW key, NEW flags, NEW ctr
  PROVE  /\ fresh_chunk_state(key, flags, ctr) = Holds(key, flags, ctr, <<>>)
         /\ chunk_state(key, ctr, ZeroBuf, 0, 0, flags) =
              Holds(key, flags, ctr, <<>>)
<1>1. Len(<<>>) = 0 /\ direct_blocks(0) = 0 /\ 0 * BLOCK_LEN = 0
  BY DirectBlocksIs, Lengths
<1>2. LastBuf(<<>>) = ZeroBuf
  BY <1>1, Lengths DEF LastBuf, ZeroBuf
<1>3. BlockCV(key, flags, ctr, <<>>, 0) = key
  BY BlockCVStart
<1> QED
  BY <1>1, <1>2, <1>3 DEF Holds, fresh_chunk_state

\* The bytes of `rest` are those of `all` from block j on.
GoesOn(all, j, rest) ==
  /\ IsSeq(all) /\ IsSeq(rest)
  /\ Len(all) = j * BLOCK_LEN + Len(rest)
  /\ \A i \in 1..Len(rest) : rest[i] = all[j * BLOCK_LEN + i]

\* Block i of the rest is block j + i of the whole.
LEMMA BlocksGoOn ==
  ASSUME NEW all, NEW rest, NEW j \in Nat, GoesOn(all, j, rest),
         NEW i \in Nat, i > 0, i * BLOCK_LEN <= Len(rest)
  PROVE  BlockOf(rest, i) = BlockOf(all, j + i)
<1> DEFINE lo == (i - 1) * BLOCK_LEN
           hi == i * BLOCK_LEN
           m  == j * BLOCK_LEN
           s  == SubSeq(rest, lo + 1, hi)
           t  == SubSeq(all, m + lo + 1, m + hi)
<1>1. /\ lo \in Nat /\ hi \in Nat /\ m \in Nat /\ lo + BLOCK_LEN = hi
      /\ (j + i - 1) * BLOCK_LEN = m + lo /\ (j + i) * BLOCK_LEN = m + hi
      /\ BLOCK_LEN \in Nat
  BY Lengths
<1>2. hi <= Len(rest) /\ Len(rest) \in Nat
  BY DEF GoesOn, IsSeq
<1>3. /\ BlockOf(rest, i) = DataBlock(s)
      /\ BlockOf(all, j + i) = DataBlock(t)
  BY <1>1 DEF BlockOf
<1> HIDE DEF lo, hi, m
<1>4. /\ IsSeq(s) /\ Len(s) = hi - lo
      /\ \A x \in 1..(hi - lo) : s[x] = rest[lo + x]
  BY <1>1, SliceIs
<1>5. /\ IsSeq(t) /\ Len(t) = hi - lo
      /\ \A x \in 1..(hi - lo) : t[x] = all[m + (lo + x)]
  <2> DEFINE a == m + lo
             z == m + hi
  <2>1. a \in Nat /\ z \in Nat /\ a <= z /\ z - a = hi - lo
    BY <1>1
  <2>2. \A x \in 1..(hi - lo) : a + x = m + (lo + x)
    BY <1>1
  <2>3. t = SubSeq(all, a + 1, z)
    OBVIOUS
  <2> HIDE DEF a, z, t
  <2>4. IsSeq(t) /\ Len(t) = z - a /\ \A x \in 1..(z - a) : t[x] = all[a + x]
    BY <2>1, <2>3, SliceIs
  <2> QED
    BY <2>1, <2>2, <2>4
<1> HIDE DEF s, t
<1>6. \A x \in 1..(hi - lo) : rest[lo + x] = all[m + (lo + x)]
  <2> TAKE x \in 1..(hi - lo)
  <2>1. lo + x \in 1..Len(rest)
    BY <1>1, <1>2
  <2> QED
    BY <2>1 DEF GoesOn, m
<1>7. s = t
  BY <1>4, <1>5, <1>6, SameSeq
<1> QED
  BY <1>3, <1>7

\* An empty buffer after j blocks: what is left goes in, all but the last
\* block compressed at once.
LEMMA RestHolds ==
  ASSUME NEW key, NEW flags, NEW ctr, NEW all, NEW rest, NEW j \in Nat,
         GoesOn(all, j, rest), Len(rest) > 0 \/ j = 0
  PROVE  LET c    == chunk_state(BlockCV(key, flags, ctr, all, j), ctr,
                                 ZeroBuf, 0, j, flags)
             d    == direct_blocks(Len(rest))
             tail == SubSeq(rest, d * BLOCK_LEN + 1, Len(rest))
         IN  chunk_state_fill_buf(compress_direct(c, rest), tail) =
               Holds(key, flags, ctr, all)
<1> DEFINE c    == chunk_state(BlockCV(key, flags, ctr, all, j), ctr,
                               ZeroBuf, 0, j, flags)
           d    == direct_blocks(Len(rest))
           tail == SubSeq(rest, d * BLOCK_LEN + 1, Len(rest))
           n    == Len(rest) - d * BLOCK_LEN
<1>1. /\ Len(rest) \in Nat /\ Len(all) \in Nat
      /\ Len(all) = j * BLOCK_LEN + Len(rest)
  BY DEF GoesOn, IsSeq
<1>2. /\ d \in Nat /\ d * BLOCK_LEN \in Nat
      /\ n \in 0..BLOCK_LEN
      /\ Len(rest) > 0 => n > 0
  BY <1>1, BlocksTaken
<1>3. /\ j * BLOCK_LEN \in Nat
      /\ (j + d) * BLOCK_LEN = j * BLOCK_LEN + d * BLOCK_LEN
      /\ BLOCK_LEN \in Nat /\ BLOCK_LEN > 0
  BY <1>2, Lengths
<1>4. /\ c.cv = BlockCV(key, flags, ctr, all, j) /\ c.chunk_counter = ctr
      /\ c.buf = ZeroBuf /\ c.buf_len = 0 /\ c.blocks_compressed = j
      /\ c.flags = flags
  BY DEF chunk_state
<1> HIDE DEF c
<1>5. /\ IsSeq(tail) /\ Len(tail) = n
      /\ \A i \in 1..n : tail[i] = rest[d * BLOCK_LEN + i]
  <2>1. d * BLOCK_LEN <= Len(rest)
    BY <1>1, <1>2
  <2> HIDE DEF d
  <2> QED
    BY <1>1, <1>2, <2>1, SliceIs
<1>6. direct_blocks(Len(all)) = j + d
  <2>1. CASE Len(rest) > 0
    <3>1. /\ (j + d) * BLOCK_LEN < Len(all) /\ j + d \in Nat
          /\ Len(all) <= (j + d) * BLOCK_LEN + BLOCK_LEN
      BY <1>1, <1>2, <1>3, <2>1
    <3> QED
      BY <1>1, <3>1, DirectBlocksIs
  <2>2. CASE Len(rest) = 0
    <3>1. j = 0 /\ Len(all) = 0 /\ d = 0
      BY <1>1, <1>3, <2>2, DirectBlocksIs
    <3> QED
      BY <3>1, DirectBlocksIs
  <2> QED
    BY <1>1, <2>1, <2>2
<1> HIDE DEF d, tail
<1>7. compress_direct(c, rest) =
        chunk_state(BlockCV(key, flags, ctr, all, j + d), ctr, ZeroBuf, 0,
                    j + d, flags)
  <2> DEFINE B == [i \in 1..d |-> BlockOf(rest, i)]
             F == [i \in 1..d |-> c.flags \cup
                                    maybe_start_flag(c.blocks_compressed + i - 1)]
             g == CHOOSE x : x = [i \in 0..d |->
                     IF i = 0 THEN c.cv
                     ELSE compress(x[i-1],
                            DataBlock(SubSeq(rest, (i-1) * BLOCK_LEN + 1,
                                             i * BLOCK_LEN)),
                            BLOCK_LEN, c.chunk_counter,
                            c.flags \cup
                              maybe_start_flag(c.blocks_compressed + i - 1))]
  <2>1. compress_direct(c, rest) =
          chunk_state(g[d], c.chunk_counter, c.buf, c.buf_len,
                      c.blocks_compressed + d, c.flags)
    BY DEF compress_direct, d
  <2>2. ASSUME NEW x
        PROVE  ChainOn(x, d, c.cv, B, F, c.chunk_counter) <=>
                 x = [i \in 0..d |->
                     IF i = 0 THEN c.cv
                     ELSE compress(x[i-1],
                            DataBlock(SubSeq(rest, (i-1) * BLOCK_LEN + 1,
                                             i * BLOCK_LEN)),
                            BLOCK_LEN, c.chunk_counter,
                            c.flags \cup
                              maybe_start_flag(c.blocks_compressed + i - 1))]
    <3>1. \A i \in 0..d : i # 0 => i \in 1..d
      BY <1>2
    <3> QED
      BY <3>1 DEF ChainOn, BlockOf
  <2>3. ChainOn(g, d, c.cv, B, F, c.chunk_counter)
    <3>1. \E x : ChainOn(x, d, c.cv, B, F, c.chunk_counter)
      BY <1>2, ChainExists
    <3> QED
      BY <3>1, <2>2
  <2> HIDE DEF g
  <2>4. \A i \in 1..d : /\ B[i] = BlockOf(all, j + i)
                        /\ F[i] = flags \cup maybe_start_flag(j + i - 1)
    <3> TAKE i \in 1..d
    <3>1. B[i] = BlockOf(rest, i) /\ F[i] = flags \cup maybe_start_flag(j + i - 1)
      BY <1>4
    <3>2. i \in Nat /\ i > 0 /\ i * BLOCK_LEN <= d * BLOCK_LEN
      <4>1. i \in Nat /\ i > 0 /\ d - i \in Nat /\ d = i + (d - i)
        BY <1>2
      <4>2. (d - i) * BLOCK_LEN \in Nat /\ d * BLOCK_LEN = i * BLOCK_LEN + (d - i) * BLOCK_LEN
        BY <1>2, <1>3, <4>1
      <4> QED
        BY <4>1, <4>2, <1>3
    <3>3. i * BLOCK_LEN <= Len(rest)
      BY <1>1, <1>2, <1>3, <3>2
    <3> QED
      BY <3>1, <3>2, <3>3, BlocksGoOn
  <2> HIDE DEF B, F
  <2>5. g[d] = BlockCV(key, flags, ctr, all, j + d)
    BY <1>2, <1>4, <2>3, <2>4, ChainFollows
  <2> QED
    BY <1>4, <2>1, <2>5
<1>8. chunk_state_fill_buf(compress_direct(c, rest), tail) =
        chunk_state(BlockCV(key, flags, ctr, all, j + d), ctr, LastBuf(all),
                    n, j + d, flags)
  <2> DEFINE cv == BlockCV(key, flags, ctr, all, j + d)
             e == chunk_state(cv, ctr, ZeroBuf, 0, j + d, flags)
  <2>1. /\ e.cv = cv /\ e.chunk_counter = ctr
        /\ e.buf = ZeroBuf /\ e.buf_len = 0 /\ e.blocks_compressed = j + d
        /\ e.flags = flags
    BY DEF chunk_state
  <2>2. fill_take(e, Len(tail)) = n
    BY <1>2, <1>3, <1>5, <2>1 DEF fill_take
  <2> DEFINE buf == [i \in 1..BLOCK_LEN |->
                       IF i \in (0 + 1)..(0 + n) THEN tail[i - 0] ELSE ZeroBuf[i]]
  <2> HIDE DEF cv
  <2>3. chunk_state_fill_buf(e, tail) =
          chunk_state(cv, ctr, buf, 0 + n, j + d, flags)
    <3> HIDE DEF e, n
    <3> QED
    BY <2>1, <2>2 DEF chunk_state_fill_buf
  <2>4. buf = LastBuf(all)
    <3>1. ASSUME NEW i \in 1..BLOCK_LEN
          PROVE  buf[i] = LastBuf(all)[i]
      <4>1. LastBuf(all)[i] = IF (j + d) * BLOCK_LEN + i <= Len(all)
                              THEN all[(j + d) * BLOCK_LEN + i] ELSE Zero
        BY <1>6 DEF LastBuf
      <4>2. (j + d) * BLOCK_LEN + i <= Len(all) <=> i \in 1..n
        BY <1>1, <1>2, <1>3
      <4>3. ASSUME i \in 1..n PROVE tail[i] = all[(j + d) * BLOCK_LEN + i]
        <5>1. d * BLOCK_LEN + i \in 1..Len(rest)
          BY <1>1, <1>2, <4>3
        <5>2. rest[d * BLOCK_LEN + i] = all[j * BLOCK_LEN + (d * BLOCK_LEN + i)]
          BY <5>1 DEF GoesOn
        <5>3. j * BLOCK_LEN + (d * BLOCK_LEN + i) = (j + d) * BLOCK_LEN + i
          BY <1>2, <1>3
        <5> QED
          BY <1>5, <4>3, <5>2, <5>3
      <4>4. buf[i] = IF i \in 1..n THEN tail[i] ELSE Zero
        <5>1. i - 0 = i /\ 0 + 1 = 1 /\ 0 + n = n
          BY <1>2
        <5> HIDE DEF n
        <5> QED
          BY <5>1 DEF ZeroBuf
      <4> QED
        BY <4>1, <4>2, <4>3, <4>4
    <3>2. /\ buf = [i \in 1..BLOCK_LEN |-> buf[i]]
          /\ LastBuf(all) = [i \in 1..BLOCK_LEN |-> LastBuf(all)[i]]
      BY DEF LastBuf
    <3> HIDE DEF buf
    <3> QED
      BY <3>1, <3>2
  <2>5. 0 + n = n
    BY <1>2
  <2>6. compress_direct(c, rest) = e
    BY <1>7 DEF cv
  <2> HIDE DEF e, buf, n
  <2> QED
    BY <2>3, <2>4, <2>5, <2>6 DEF cv
<1>9. n = Len(all) - (j + d) * BLOCK_LEN
  BY <1>1, <1>2, <1>3
<1> QED
  BY <1>6, <1>8, <1>9 DEF Holds, d, tail, c

-----------------------------------------------------------------------------
(***************************************************************************)
(* chunk_state_fill_buf.                                                   *)
(***************************************************************************)
\* An empty input leaves a chunk as it is.
LEMMA NothingDirect ==
  ASSUME NEW c, NEW cv, NEW ctr, NEW buf, NEW bl, NEW d \in Nat, NEW flags,
         c = chunk_state(cv, ctr, buf, bl, d, flags), NEW rest, Len(rest) = 0
  PROVE  compress_direct(c, rest) = c
<1>1. direct_blocks(Len(rest)) = 0
  BY DirectBlocksIs
<1>2. /\ c.cv = cv /\ c.chunk_counter = ctr /\ c.buf = buf /\ c.buf_len = bl
      /\ c.blocks_compressed = d /\ c.flags = flags
  BY DEF chunk_state
<1> DEFINE B == [i \in 1..0 |-> BlockOf(rest, i)]
           F == [i \in 1..0 |-> c.flags \cup
                                  maybe_start_flag(c.blocks_compressed + i - 1)]
           g == CHOOSE x : x = [i \in 0..0 |->
                   IF i = 0 THEN c.cv
                   ELSE compress(x[i-1],
                          DataBlock(SubSeq(rest, (i-1) * BLOCK_LEN + 1,
                                           i * BLOCK_LEN)),
                          BLOCK_LEN, c.chunk_counter,
                          c.flags \cup
                            maybe_start_flag(c.blocks_compressed + i - 1))]
<1>3. compress_direct(c, rest) =
        chunk_state(g[0], c.chunk_counter, c.buf, c.buf_len,
                    c.blocks_compressed + 0, c.flags)
  BY <1>1 DEF compress_direct
<1>4. g[0] = c.cv
  <2>1. [i \in 0..0 |-> c.cv] = [i \in 0..0 |->
                   IF i = 0 THEN c.cv
                   ELSE compress([k \in 0..0 |-> c.cv][i-1],
                          DataBlock(SubSeq(rest, (i-1) * BLOCK_LEN + 1,
                                           i * BLOCK_LEN)),
                          BLOCK_LEN, c.chunk_counter,
                          c.flags \cup
                            maybe_start_flag(c.blocks_compressed + i - 1))]
    OBVIOUS
  <2>2. g = [i \in 0..0 |->
                   IF i = 0 THEN c.cv
                   ELSE compress(g[i-1],
                          DataBlock(SubSeq(rest, (i-1) * BLOCK_LEN + 1,
                                           i * BLOCK_LEN)),
                          BLOCK_LEN, c.chunk_counter,
                          c.flags \cup
                            maybe_start_flag(c.blocks_compressed + i - 1))]
    BY <2>1, Zenon
  <2> HIDE DEF g
  <2> QED
    BY <2>2
<1> HIDE DEF g
<1> QED
  BY <1>2, <1>3, <1>4

\* Filling the buffer with nothing changes nothing.
LEMMA NothingFilled ==
  ASSUME NEW c, NEW cv, NEW ctr, NEW buf, NEW bl \in 0..BLOCK_LEN, NEW d,
         NEW flags, c = chunk_state(cv, ctr, buf, bl, d, flags),
         buf = [i \in 1..BLOCK_LEN |-> buf[i]], NEW in, Len(in) = 0
  PROVE  chunk_state_fill_buf(c, in) = c
<1>1. /\ c.cv = cv /\ c.chunk_counter = ctr /\ c.buf = buf /\ c.buf_len = bl
      /\ c.blocks_compressed = d /\ c.flags = flags
  BY DEF chunk_state
<1>2. fill_take(c, Len(in)) = 0
  BY <1>1, Lengths DEF fill_take
<1>3. bl + 0 = bl /\ (bl + 1)..bl = {}
  BY Lengths
<1>4. [i \in 1..BLOCK_LEN |-> IF i \in (bl + 1)..bl THEN in[i - bl] ELSE buf[i]]
        = buf
  BY <1>3
<1> QED
  BY <1>1, <1>2, <1>3, <1>4 DEF chunk_state_fill_buf

-----------------------------------------------------------------------------
(***************************************************************************)
(* chunk_state_update appends its input to what the chunk holds.           *)
(***************************************************************************)
LEMMA UpdateFresh ==
  ASSUME NEW key, NEW flags, NEW ctr, NEW in, IsSeq(in)
  PROVE  chunk_state_update(Holds(key, flags, ctr, <<>>), in) =
           Holds(key, flags, ctr, in)
<1> DEFINE c == Holds(key, flags, ctr, <<>>)
           n == Len(in)
           rest == SubSeq(in, 0 + 1, n)
           tail == SubSeq(rest, direct_blocks(n - 0) * BLOCK_LEN + 1, n - 0)
<1>1. c.buf_len = 0
  BY HoldsLength, EmptyIs
<1>2. chunk_state_update(c, in) = chunk_state_fill_buf(compress_direct(c, rest), tail)
  <2>1. ~ (c.buf_len > 0)
    BY <1>1
  <2> HIDE DEF c
  <2> QED
    BY <2>1 DEF chunk_state_update
<1>3. n \in Nat /\ n - 0 = n
  BY DEF IsSeq
<1>4. rest = in
  <2>1. rest = SubSeq(in, 1, Len(in))
    OBVIOUS
  <2> HIDE DEF rest
  <2> QED
    BY <2>1, WholeSlice
<1>5. c = chunk_state(BlockCV(key, flags, ctr, in, 0), ctr, ZeroBuf, 0, 0, flags)
  BY FreshHolds, BlockCVStart
<1>6. GoesOn(in, 0, in)
  <2>1. 0 * BLOCK_LEN = 0
    BY Lengths
  <2>2. \A i \in 1..Len(in) : 0 + i = i
    OBVIOUS
  <2> QED
    BY <1>3, <2>1, <2>2 DEF GoesOn
<1> HIDE DEF c, rest
<1> QED
  BY <1>2, <1>3, <1>4, <1>5, <1>6, RestHolds DEF c

\* The buffer after `in` was copied behind what it held.
FilledBuf(bs, in) ==
  LET bl   == Len(bs) - direct_blocks(Len(bs)) * BLOCK_LEN
      take == IF BLOCK_LEN - bl > Len(in) THEN Len(in) ELSE BLOCK_LEN - bl
  IN  [i \in 1..BLOCK_LEN |->
         IF i \in (bl + 1)..(bl + take) THEN in[i - bl] ELSE LastBuf(bs)[i]]

\* After the buffer was filled the chunk holds the bytes that went in too.
LEMMA FillHolds ==
  ASSUME NEW key, NEW flags, NEW ctr, NEW bs, IsSeq(bs), NEW in, IsSeq(in)
  PROVE  LET c    == Holds(key, flags, ctr, bs)
             d    == direct_blocks(Len(bs))
             take == fill_take(c, Len(in))
         IN  /\ take = IF BLOCK_LEN - c.buf_len > Len(in) THEN Len(in)
                       ELSE BLOCK_LEN - c.buf_len
             /\ chunk_state_fill_buf(c, in) =
                  chunk_state(BlockCV(key, flags, ctr, bs, d), ctr,
                              FilledBuf(bs, in), c.buf_len + take, d, flags)
<1> DEFINE c    == Holds(key, flags, ctr, bs)
           d    == direct_blocks(Len(bs))
           take == fill_take(c, Len(in))
<1>1. /\ c.cv = BlockCV(key, flags, ctr, bs, d)
      /\ c.chunk_counter = ctr /\ c.buf = LastBuf(bs)
      /\ c.buf_len = Len(bs) - d * BLOCK_LEN
      /\ c.blocks_compressed = d /\ c.flags = flags
  BY HoldsFields
<1> HIDE DEF c
<1>2. take = IF BLOCK_LEN - c.buf_len > Len(in) THEN Len(in)
             ELSE BLOCK_LEN - c.buf_len
  BY DEF fill_take
<1>3. FilledBuf(bs, in) =
        [i \in 1..BLOCK_LEN |->
           IF i \in (c.buf_len + 1)..(c.buf_len + take)
           THEN in[i - c.buf_len] ELSE c.buf[i]]
  BY <1>1, <1>2 DEF FilledBuf
<1> HIDE DEF take, d
<1>4. chunk_state_fill_buf(c, in) =
        chunk_state(c.cv, c.chunk_counter,
          [i \in 1..BLOCK_LEN |->
             IF i \in (c.buf_len + 1)..(c.buf_len + take)
             THEN in[i - c.buf_len] ELSE c.buf[i]],
          c.buf_len + take, c.blocks_compressed, c.flags)
  BY DEF chunk_state_fill_buf, take
<1> QED
  BY <1>1, <1>2, <1>3, <1>4 DEF c, d, take

\* A byte of the buffer is the byte of the whole at its place.
LEMMA FilledBytes ==
  ASSUME NEW bs, IsSeq(bs), Len(bs) > 0, NEW in, IsSeq(in),
         NEW i \in 1..BLOCK_LEN
  PROVE  LET all == bs \o in
             at  == direct_blocks(Len(bs)) * BLOCK_LEN + i
         IN  FilledBuf(bs, in)[i] = IF at <= Len(all) THEN all[at] ELSE Zero
<1> DEFINE d  == direct_blocks(Len(bs))
           p  == d * BLOCK_LEN
           bl == Len(bs) - p
           take == IF BLOCK_LEN - bl > Len(in) THEN Len(in) ELSE BLOCK_LEN - bl
<1>1. /\ Len(bs) \in Nat /\ Len(in) \in Nat /\ BLOCK_LEN \in Nat
      /\ p \in Nat /\ bl \in 1..BLOCK_LEN
  BY BlocksTaken, Lengths DEF IsSeq
<1>2. /\ Len(bs \o in) = Len(bs) + Len(in)
      /\ \A j \in 1..(Len(bs) + Len(in)) :
           (bs \o in)[j] = IF j <= Len(bs) THEN bs[j] ELSE in[j - Len(bs)]
  BY ConcatIs
<1>3. FilledBuf(bs, in)[i] =
        IF i \in (bl + 1)..(bl + take) THEN in[i - bl] ELSE LastBuf(bs)[i]
  BY DEF FilledBuf
<1>4. LastBuf(bs)[i] = IF p + i <= Len(bs) THEN bs[p + i] ELSE Zero
  BY DEF LastBuf
<1> HIDE DEF p
<1>5. CASE i <= bl
  <2>1. /\ p + i <= Len(bs) /\ p + i <= Len(bs) + Len(in)
        /\ p + i \in 1..(Len(bs) + Len(in)) /\ i \notin (bl + 1)..(bl + take)
    BY <1>1, <1>5
  <2> QED
    BY <1>2, <1>3, <1>4, <2>1 DEF p
<1>6. CASE i > bl /\ i <= bl + Len(in)
  <2>1. /\ ~ (p + i <= Len(bs)) /\ p + i <= Len(bs) + Len(in)
        /\ p + i \in 1..(Len(bs) + Len(in)) /\ i \in (bl + 1)..(bl + take)
        /\ (p + i) - Len(bs) = i - bl
    BY <1>1, <1>6
  <2> QED
    BY <1>2, <1>3, <2>1 DEF p
<1>7. CASE i > bl + Len(in)
  <2>1. /\ ~ (p + i <= Len(bs)) /\ ~ (p + i <= Len(bs) + Len(in))
        /\ i \notin (bl + 1)..(bl + take)
    BY <1>1, <1>7
  <2> QED
    BY <1>2, <1>3, <1>4, <2>1 DEF p
<1>8. i <= bl \/ (i > bl /\ i <= bl + Len(in)) \/ i > bl + Len(in)
  BY <1>1
<1> QED
  BY <1>5, <1>6, <1>7, <1>8

\* The blocks that bs fills are those of bs \o in.
LEMMA BlocksOfPrefix ==
  ASSUME NEW bs, IsSeq(bs), NEW in, IsSeq(in), NEW d \in Nat,
         d * BLOCK_LEN <= Len(bs)
  PROVE  \A i \in 1..d : BlockOf(bs, i) = BlockOf(bs \o in, i)
<1> TAKE i \in 1..d
<1> DEFINE lo == (i - 1) * BLOCK_LEN
           hi == i * BLOCK_LEN
           s  == SubSeq(bs, lo + 1, hi)
           t  == SubSeq(bs \o in, lo + 1, hi)
<1>1. lo \in Nat /\ hi \in Nat /\ lo <= hi /\ hi <= Len(bs)
  <2>1. i - 1 \in Nat /\ d - i \in Nat /\ d = i + (d - i)
    OBVIOUS
  <2>2. /\ (i - 1) * BLOCK_LEN \in Nat /\ (d - i) * BLOCK_LEN \in Nat
        /\ d * BLOCK_LEN = i * BLOCK_LEN + (d - i) * BLOCK_LEN
        /\ i * BLOCK_LEN = (i - 1) * BLOCK_LEN + BLOCK_LEN
        /\ BLOCK_LEN \in Nat
    BY <2>1, Lengths
  <2> QED
    BY <2>2 DEF IsSeq
<1>2. BlockOf(bs, i) = DataBlock(s) /\ BlockOf(bs \o in, i) = DataBlock(t)
  BY DEF BlockOf
<1> HIDE DEF lo, hi
<1>3. /\ IsSeq(s) /\ Len(s) = hi - lo /\ \A x \in 1..(hi - lo) : s[x] = bs[lo + x]
      /\ IsSeq(t) /\ Len(t) = hi - lo
      /\ \A x \in 1..(hi - lo) : t[x] = (bs \o in)[lo + x]
  BY <1>1, SliceIs
<1>4. \A x \in 1..(hi - lo) : (bs \o in)[lo + x] = bs[lo + x]
  <2> TAKE x \in 1..(hi - lo)
  <2>1. lo + x \in 1..(Len(bs) + Len(in)) /\ lo + x <= Len(bs)
    BY <1>1 DEF IsSeq
  <2> QED
    BY <2>1, ConcatIs
<1> HIDE DEF s, t
<1>5. s = t
  BY <1>3, <1>4, SameSeq
<1> QED
  BY <1>2, <1>5

\* Taking in more bytes leaves the blocks compressed before as they were.
LEMMA PrefixCV ==
  ASSUME NEW key, NEW flags, NEW ctr, NEW bs, IsSeq(bs), NEW in, IsSeq(in)
  PROVE  LET d == direct_blocks(Len(bs))
         IN  BlockCV(key, flags, ctr, bs, d) = BlockCV(key, flags, ctr, bs \o in, d)
<1> DEFINE d == direct_blocks(Len(bs))
<1>1. d \in Nat /\ d * BLOCK_LEN <= Len(bs)
  BY BlocksTaken, Lengths DEF IsSeq
<1> HIDE DEF d
<1>2. \A i \in 1..d : BlockOf(bs, i) = BlockOf(bs \o in, i)
  BY <1>1, BlocksOfPrefix
<1> QED
  BY <1>1, <1>2, SameBlocks DEF d

-----------------------------------------------------------------------------
(***************************************************************************)
(* chunk_state_update.                                                     *)
(***************************************************************************)
\* The input fits the buffer.
LEMMA UpdateFits ==
  ASSUME NEW key, NEW flags, NEW ctr, NEW bs, IsSeq(bs), Len(bs) > 0,
         NEW in, IsSeq(in),
         Len(bs) - direct_blocks(Len(bs)) * BLOCK_LEN + Len(in) <= BLOCK_LEN
  PROVE  chunk_state_update(Holds(key, flags, ctr, bs), in) =
           Holds(key, flags, ctr, bs \o in)
<1> DEFINE c == Holds(key, flags, ctr, bs)
           n == Len(in)
           d == direct_blocks(Len(bs))
           take == fill_take(c, n)
           head == chunk_state_fill_buf(c, in)
           rest == SubSeq(in, take + 1, n)
           tail == SubSeq(rest, direct_blocks(n - take) * BLOCK_LEN + 1, n - take)
           all == bs \o in
           cv == BlockCV(key, flags, ctr, bs, d)
           bl == Len(bs) - d * BLOCK_LEN
<1>1. /\ n \in Nat /\ Len(bs) \in Nat /\ BLOCK_LEN \in Nat /\ BLOCK_LEN > 0
      /\ d \in Nat /\ d * BLOCK_LEN \in Nat /\ bl \in 1..BLOCK_LEN
  BY BlocksTaken, Lengths DEF IsSeq
<1>2. c.buf_len = bl
  BY HoldsFields
<1>3. take = n
  <2> HIDE DEF c, bl
  <2> QED
    BY <1>1, <1>2 DEF fill_take, bl
<1>4. head = chunk_state(cv, ctr, FilledBuf(bs, in), bl + n, d, flags)
  BY <1>2, <1>3, FillHolds
<1>5. chunk_state_update(c, in) =
        chunk_state_fill_buf(compress_direct(head, rest), tail)
  <2>1. c.buf_len > 0 /\ ~ (n > take)
    BY <1>1, <1>2, <1>3
  <2> HIDE DEF c
  <2> QED
    BY <2>1 DEF chunk_state_update
<1>6. IsSeq(rest) /\ Len(rest) = 0
  <2> HIDE DEF take, n
  <2>1. n <= n /\ n - n = 0
    BY <1>1
  <2>2. IsSeq(SubSeq(in, n + 1, n)) /\ Len(SubSeq(in, n + 1, n)) = n - n
    BY <1>1, <2>1, SliceIs
  <2> QED
    BY <1>3, <2>1, <2>2
<1>7. Len(tail) = 0
  <2>1. direct_blocks(n - take) * BLOCK_LEN = 0 /\ n - take = 0
    <3>1. n - take = 0
      BY <1>1, <1>3
    <3> QED
      BY <1>1, <3>1, DirectBlocksIs
  <2>2. tail = SubSeq(rest, 1, Len(rest))
    <3> DEFINE z == direct_blocks(n - take) * BLOCK_LEN
               y == n - take
    <3>1. z + 1 = 1 /\ y = Len(rest) /\ tail = SubSeq(rest, z + 1, y)
      <4>1. tail = SubSeq(rest, z + 1, y)
        OBVIOUS
      <4>2. z = 0 /\ y = 0
        BY <2>1
      <4> HIDE DEF z, y, tail, rest
      <4> QED
        BY <1>6, <4>1, <4>2
    <3> HIDE DEF z, y, tail, rest
    <3> QED
      BY <3>1
  <2> HIDE DEF tail, rest
  <2> QED
    BY <1>6, <2>2, WholeSlice
<1>8. compress_direct(head, rest) = head
  <2> HIDE DEF head, rest, cv, bl, d
  <2> QED
    BY <1>1, <1>4, <1>6, NothingDirect
<1>9. chunk_state_fill_buf(head, tail) = head
  <2>1. bl + n \in 0..BLOCK_LEN
    BY <1>1
  <2>2. FilledBuf(bs, in) = [i \in 1..BLOCK_LEN |-> FilledBuf(bs, in)[i]]
    BY DEF FilledBuf
  <2> HIDE DEF head, tail, cv, bl, d
  <2> QED
    BY <1>1, <1>4, <1>7, <2>1, <2>2, NothingFilled
<1>10. IsSeq(all) /\ Len(all) = Len(bs) + n
  BY ConcatIs
<1>11. direct_blocks(Len(all)) = d
  <2>1. d * BLOCK_LEN < Len(all) /\ Len(all) <= d * BLOCK_LEN + BLOCK_LEN
        /\ Len(all) \in Nat
    BY <1>1, <1>10
  <2> QED
    BY <1>1, <2>1, DirectBlocksIs
<1>12. BlockCV(key, flags, ctr, all, d) = cv
  BY PrefixCV
<1>13. LastBuf(all) = FilledBuf(bs, in)
  <2>1. \A i \in 1..BLOCK_LEN : LastBuf(all)[i] = FilledBuf(bs, in)[i]
    <3> TAKE i \in 1..BLOCK_LEN
    <3>1. LastBuf(all)[i] = IF d * BLOCK_LEN + i <= Len(all)
                            THEN all[d * BLOCK_LEN + i] ELSE Zero
      BY <1>11 DEF LastBuf
    <3> QED
      BY <3>1, FilledBytes
  <2>2. /\ FilledBuf(bs, in) = [i \in 1..BLOCK_LEN |-> FilledBuf(bs, in)[i]]
        /\ LastBuf(all) = [i \in 1..BLOCK_LEN |-> LastBuf(all)[i]]
    BY DEF FilledBuf, LastBuf
  <2> QED
    BY <2>1, <2>2
<1>14. Len(all) - d * BLOCK_LEN = bl + n
  BY <1>1, <1>10
<1>15. Holds(key, flags, ctr, all) = head
  BY <1>4, <1>11, <1>12, <1>13, <1>14 DEF Holds
<1> HIDE DEF c, head, rest, tail, all
<1> QED
  BY <1>5, <1>8, <1>9, <1>15 DEF c, all

\* The input completes the buffer and goes on.
LEMMA UpdateOverflows ==
  ASSUME NEW key, NEW flags, NEW ctr, NEW bs, IsSeq(bs), Len(bs) > 0,
         NEW in, IsSeq(in),
         Len(bs) - direct_blocks(Len(bs)) * BLOCK_LEN + Len(in) > BLOCK_LEN
  PROVE  chunk_state_update(Holds(key, flags, ctr, bs), in) =
           Holds(key, flags, ctr, bs \o in)
<1> DEFINE c == Holds(key, flags, ctr, bs)
           n == Len(in)
           d == direct_blocks(Len(bs))
           take == fill_take(c, n)
           head == chunk_state_fill_buf(c, in)
           ready == compress_buf(head)
           rest == SubSeq(in, take + 1, n)
           tail == SubSeq(rest, direct_blocks(n - take) * BLOCK_LEN + 1, n - take)
           all == bs \o in
           cv == BlockCV(key, flags, ctr, bs, d)
           bl == Len(bs) - d * BLOCK_LEN
<1>1. /\ n \in Nat /\ Len(bs) \in Nat /\ BLOCK_LEN \in Nat /\ BLOCK_LEN > 0
      /\ d \in Nat /\ d * BLOCK_LEN \in Nat /\ bl \in 1..BLOCK_LEN
      /\ bl + n > BLOCK_LEN
  BY BlocksTaken, Lengths DEF IsSeq
<1>2. c.buf_len = bl
  BY HoldsFields
<1>3. take = BLOCK_LEN - bl
  <2> HIDE DEF c, bl
  <2> QED
    BY <1>1, <1>2 DEF fill_take, bl
<1>4. head = chunk_state(cv, ctr, FilledBuf(bs, in), bl + take, d, flags)
  BY <1>2, <1>3, FillHolds
<1>5. chunk_state_update(c, in) =
        chunk_state_fill_buf(compress_direct(ready, rest), tail)
  <2>1. c.buf_len > 0 /\ n > take
    BY <1>1, <1>2, <1>3
  <2> HIDE DEF c
  <2> QED
    BY <2>1 DEF chunk_state_update
<1>6. IsSeq(all) /\ Len(all) = Len(bs) + n
      /\ \A j \in 1..(Len(bs) + n) :
           all[j] = IF j <= Len(bs) THEN bs[j] ELSE in[j - Len(bs)]
  BY ConcatIs
<1>7. (d + 1) * BLOCK_LEN = d * BLOCK_LEN + BLOCK_LEN /\ d + 1 \in Nat
      /\ (d + 1) * BLOCK_LEN = Len(bs) + take
  BY <1>1, <1>3
<1>8. BlockOf(all, d + 1) = DataBlock(FilledBuf(bs, in))
  <2> DEFINE p == d * BLOCK_LEN
             z == p + BLOCK_LEN
             s == SubSeq(all, p + 1, z)
  <2>1. BlockOf(all, d + 1) = DataBlock(s)
    <3>1. (d + 1) - 1 = d
      BY <1>1
    <3> QED
      BY <1>7, <3>1 DEF BlockOf
  <2>2. p \in Nat /\ z \in Nat /\ p <= z /\ z - p = BLOCK_LEN /\ z <= Len(all)
    BY <1>1, <1>6
  <2> HIDE DEF p, z
  <2>3. /\ IsSeq(s) /\ Len(s) = BLOCK_LEN
        /\ \A i \in 1..BLOCK_LEN : s[i] = all[p + i]
    BY <2>2, SliceIs
  <2> HIDE DEF s
  <2>4. \A i \in 1..BLOCK_LEN : s[i] = FilledBuf(bs, in)[i]
    <3> TAKE i \in 1..BLOCK_LEN
    <3>1. p + i <= Len(all)
      BY <1>1, <1>6, <2>2
    <3>2. FilledBuf(bs, in)[i] = all[p + i]
      BY <3>1, FilledBytes DEF p
    <3> QED
      BY <2>3, <3>2
  <2>5. s = FilledBuf(bs, in)
    <3>1. FilledBuf(bs, in) = [i \in 1..BLOCK_LEN |-> FilledBuf(bs, in)[i]]
      BY DEF FilledBuf
    <3>2. s = [i \in 1..BLOCK_LEN |-> s[i]]
      BY <2>3 DEF IsSeq
    <3> QED
      BY <2>4, <3>1, <3>2
  <2> QED
    BY <2>1, <2>5
<1>9. ready = chunk_state(BlockCV(key, flags, ctr, all, d + 1), ctr, ZeroBuf,
                          0, d + 1, flags)
  <2>1. /\ head.cv = cv /\ head.chunk_counter = ctr
        /\ head.buf = FilledBuf(bs, in) /\ head.blocks_compressed = d
        /\ head.flags = flags
    <3> HIDE DEF head, cv
    <3> QED
      BY <1>4 DEF chunk_state
  <2>2. cv = BlockCV(key, flags, ctr, all, d)
    BY PrefixCV
  <2> HIDE DEF head, cv, all, d
  <2>3. BlockCV(key, flags, ctr, all, d + 1) =
          compress(cv, DataBlock(FilledBuf(bs, in)), BLOCK_LEN, ctr,
                   flags \cup maybe_start_flag(d))
    BY <1>1, <1>8, <2>2, BlockCVNext
  <2> QED
    BY <2>1, <2>3 DEF compress_buf
<1>10. IsSeq(rest) /\ Len(rest) = n - take
       /\ \A i \in 1..(n - take) : rest[i] = in[take + i]
  <2>1. take \in Nat /\ take <= n
    BY <1>1, <1>3
  <2> HIDE DEF take, n
  <2> QED
    BY <1>1, <2>1, SliceIs
<1>11. GoesOn(all, d + 1, rest) /\ Len(rest) > 0
  <2> DEFINE p == (d + 1) * BLOCK_LEN
  <2>0. /\ p = Len(bs) + take /\ p \in Nat /\ take \in Nat /\ take < n
        /\ Len(rest) = n - take /\ Len(all) = Len(bs) + n
    <3>1. p = Len(bs) + take
      BY <1>7
    <3>2. take = BLOCK_LEN - (Len(bs) - d * BLOCK_LEN)
      BY <1>3
    <3> HIDE DEF p, take, all, rest, d
    <3> QED
      BY <1>1, <1>6, <1>10, <3>1, <3>2
  <2> HIDE DEF p, rest, all, take
  <2>1. Len(rest) > 0 /\ Len(all) = p + Len(rest)
    BY <1>1, <2>0
  <2>2. \A i \in 1..Len(rest) : rest[i] = all[p + i]
    <3> TAKE i \in 1..Len(rest)
    <3> DEFINE j == p + i
    <3>1. /\ j \in 1..(Len(bs) + n) /\ ~ (j <= Len(bs))
          /\ j - Len(bs) = take + i
      BY <1>1, <2>0
    <3>2. i \in 1..(n - take)
      BY <2>0
    <3> HIDE DEF j, n
    <3> QED
      BY <1>6, <1>10, <3>1, <3>2 DEF j
  <2> QED
    BY <1>6, <1>10, <2>1, <2>2 DEF GoesOn, p
<1>12. tail = SubSeq(rest, direct_blocks(Len(rest)) * BLOCK_LEN + 1, Len(rest))
  BY <1>10
<1> HIDE DEF c, head, ready, rest, tail, all, d
<1> QED
  BY <1>5, <1>7, <1>9, <1>11, <1>12, RestHolds DEF c, all

\* chunk_state_update takes its input in three ways: the buffer is filled up,
\* whole blocks are compressed from where they lie, the last bytes are kept.
\* Whatever the cuts, a chunk that holds bs and is given in then holds bs \o in.
THEOREM UpdateHolds ==
  ASSUME NEW key, NEW flags, NEW ctr, NEW bs, IsSeq(bs), NEW in, IsSeq(in)
  PROVE  chunk_state_update(Holds(key, flags, ctr, bs), in) =
           Holds(key, flags, ctr, bs \o in)
<1> DEFINE bl == Len(bs) - direct_blocks(Len(bs)) * BLOCK_LEN
<1>1. Len(bs) \in Nat /\ Len(in) \in Nat /\ bl \in Nat /\ BLOCK_LEN \in Nat
  BY BlocksTaken, Lengths DEF IsSeq
<1>2. CASE Len(bs) = 0
  <2>1. bs = <<>>
    BY <1>2, EmptyIs
  <2>2. bs \o in = in
    <3>1. IsSeq(bs \o in) /\ Len(bs \o in) = Len(bs) + Len(in)
          /\ \A i \in 1..(Len(bs) + Len(in)) :
               (bs \o in)[i] = IF i <= Len(bs) THEN bs[i] ELSE in[i - Len(bs)]
      BY ConcatIs
    <3>2. Len(bs \o in) = Len(in) /\ \A i \in 1..Len(in) : (bs \o in)[i] = in[i]
      BY <1>1, <1>2, <3>1
    <3> QED
      BY <3>1, <3>2, SameSeq
  <2> QED
    BY <2>1, <2>2, UpdateFresh
<1>3. CASE Len(bs) > 0 /\ bl + Len(in) <= BLOCK_LEN
  BY <1>3, UpdateFits
<1>4. CASE Len(bs) > 0 /\ bl + Len(in) > BLOCK_LEN
  BY <1>4, UpdateOverflows
<1> QED
  BY <1>1, <1>2, <1>3, <1>4

\* What a chunk would output now is the output of the chunk it holds.
LEMMA OutputHolds ==
  ASSUME NEW key, NEW flags, NEW ctr, NEW bs, IsSeq(bs)
  PROVE  chunk_state_output(Holds(key, flags, ctr, bs)) =
           ChunkOutput(key, flags, ctr, bs)
<1> DEFINE n == Len(bs)
           d == direct_blocks(n)
           blocks == IF n = 0 THEN 1 ELSE (n + BLOCK_LEN - 1) \div BLOCK_LEN
           Padded(b) == [i \in 1..BLOCK_LEN |->
                           LET j == (b - 1) * BLOCK_LEN + i
                           IN  IF j <= n THEN bs[j] ELSE Zero]
           FlagsOf(b) == flags \cup (IF b = 1 THEN {"CHUNK_START"} ELSE {})
                               \cup (IF b = blocks THEN {"CHUNK_END"} ELSE {})
           g == CHOOSE x : x = [b \in 0..(blocks - 1) |->
                  IF b = 0 THEN key
                  ELSE compress(x[b-1], DataBlock(Padded(b)), BLOCK_LEN, ctr,
                                FlagsOf(b))]
<1>1. ChunkOutput(key, flags, ctr, bs) =
        make_output(g[blocks - 1], DataBlock(Padded(blocks)),
                    n - (blocks - 1) * BLOCK_LEN, ctr, FlagsOf(blocks))
  BY DEF ChunkOutput
<1>2. /\ n \in Nat /\ d \in Nat /\ BLOCK_LEN \in Nat /\ BLOCK_LEN > 0
      /\ d * BLOCK_LEN \in Nat /\ n - d * BLOCK_LEN \in 0..BLOCK_LEN
      /\ n > 0 => n - d * BLOCK_LEN > 0
  BY BlocksTaken, Lengths DEF IsSeq
<1>3. blocks = d + 1
  <2>1. CASE n = 0
    BY <2>1, DirectBlocksIs
  <2>2. CASE n > 0
    <3> DEFINE r == n - 1 - d * BLOCK_LEN
    <3>0. (d + 1) * BLOCK_LEN = d * BLOCK_LEN + BLOCK_LEN
      <4> HIDE DEF d
      <4> QED
        BY <1>2
    <3> DEFINE p == d * BLOCK_LEN
               z == (d + 1) * BLOCK_LEN
    <3>1. /\ p \in Nat /\ z = p + BLOCK_LEN /\ n - p \in 1..BLOCK_LEN
          /\ d + 1 \in Nat /\ r = n - 1 - p
      BY <1>2, <2>2, <3>0
    <3> HIDE DEF p, z, r, d
    <3>2. /\ n + BLOCK_LEN - 1 = z + r
          /\ n + BLOCK_LEN - 1 \in Nat /\ r \in Nat /\ r < BLOCK_LEN
      BY <1>2, <3>1
    <3> USE DEF z
    <3> QED
      BY <1>2, <2>2, <3>1, <3>2, DivisionIs
  <2> QED
    BY <1>2, <2>1, <2>2
<1>4. blocks - 1 = d
  BY <1>2, <1>3
<1>5. Padded(blocks) = LastBuf(bs)
  BY <1>4 DEF LastBuf
<1>6. FlagsOf(blocks) = flags \cup maybe_start_flag(d) \cup {"CHUNK_END"}
  <2>1. blocks = 1 <=> d = 0
    BY <1>2, <1>3
  <2> HIDE DEF d, blocks
  <2> QED
    BY <2>1 DEF maybe_start_flag
<1>7. g[d] = BlockCV(key, flags, ctr, bs, d)
  <2> DEFINE B == [i \in 1..d |-> DataBlock(Padded(i))]
             F == [i \in 1..d |-> FlagsOf(i)]
  <2>1. ASSUME NEW x
        PROVE  ChainOn(x, d, key, B, F, ctr) <=>
                 x = [b \in 0..(blocks - 1) |->
                        IF b = 0 THEN key
                        ELSE compress(x[b-1], DataBlock(Padded(b)), BLOCK_LEN,
                                      ctr, FlagsOf(b))]
    <3>1. \A i \in 0..d : i # 0 => i \in 1..d
      BY <1>2
    <3> HIDE DEF blocks, d
    <3> QED
      BY <1>4, <3>1 DEF ChainOn
  <2>2. ChainOn(g, d, key, B, F, ctr)
    <3>1. \E x : ChainOn(x, d, key, B, F, ctr)
      BY <1>2, ChainExists
    <3> QED
      BY <3>1, <2>1
  <2> HIDE DEF g
  <2>3. \A i \in 1..d : /\ B[i] = BlockOf(bs, 0 + i)
                        /\ F[i] = flags \cup maybe_start_flag(0 + i - 1)
    <3> TAKE i \in 1..d
    <3>1. 0 + i = i /\ 0 + i - 1 = i - 1 /\ i # blocks /\ (i = 1 <=> i - 1 = 0)
      BY <1>2, <1>3
    <3>2. F[i] = flags \cup maybe_start_flag(i - 1)
      <4> HIDE DEF blocks, d
      <4> QED
        BY <3>1 DEF maybe_start_flag
    <3>3. Padded(i) = SubSeq(bs, (i - 1) * BLOCK_LEN + 1, i * BLOCK_LEN)
      <4> DEFINE lo == (i - 1) * BLOCK_LEN
                 hi == i * BLOCK_LEN
                 s  == SubSeq(bs, lo + 1, hi)
      <4>1. lo \in Nat /\ hi \in Nat /\ lo + BLOCK_LEN = hi /\ hi <= n
        <5> HIDE DEF d
        <5>1. i - 1 \in Nat /\ d - i \in Nat /\ d = i + (d - i) /\ i \in Nat
          BY <1>2
        <5>2. /\ (i - 1) * BLOCK_LEN \in Nat /\ (d - i) * BLOCK_LEN \in Nat
              /\ d * BLOCK_LEN = i * BLOCK_LEN + (d - i) * BLOCK_LEN
              /\ i * BLOCK_LEN = (i - 1) * BLOCK_LEN + BLOCK_LEN
          BY <1>2, <5>1
        <5> QED
          BY <1>2, <5>2
      <4> HIDE DEF hi
      <4>2. Padded(i) = [k \in 1..BLOCK_LEN |->
                           IF lo + k <= n THEN bs[lo + k] ELSE Zero]
        OBVIOUS
      <4>3. \A k \in 1..BLOCK_LEN : lo + k <= n
        BY <1>2, <4>1
      <4>4. Padded(i) = [k \in 1..BLOCK_LEN |-> bs[lo + k]]
        BY <4>2, <4>3
      <4> HIDE DEF lo
      <4>5. /\ IsSeq(s) /\ Len(s) = hi - lo
            /\ \A k \in 1..(hi - lo) : s[k] = bs[lo + k]
        <5>1. lo <= hi
          BY <1>2, <4>1
        <5> QED
          BY <4>1, <5>1, SliceIs
      <4>6. hi - lo = BLOCK_LEN
        BY <1>2, <4>1
      <4> HIDE DEF s, Padded
      <4>7. s = [k \in 1..BLOCK_LEN |-> bs[lo + k]]
        BY <4>5, <4>6 DEF IsSeq
      <4> QED
        BY <4>4, <4>7 DEF s, lo, hi
    <3> QED
      BY <3>1, <3>2, <3>3 DEF BlockOf
  <2>4. BlockCV(key, flags, ctr, bs, 0) = key
    BY BlockCVStart
  <2> HIDE DEF B, F, d
  <2>5. ChainOn(g, d, BlockCV(key, flags, ctr, bs, 0), B, F, ctr) /\ 0 \in Nat
    BY <2>2, <2>4
  <2>6. g[d] = BlockCV(key, flags, ctr, bs, 0 + d)
    BY <1>2, <2>3, <2>5, ChainFollows
  <2> QED
    BY <1>2, <2>6
<1>8. chunk_state_output(Holds(key, flags, ctr, bs)) =
        make_output(BlockCV(key, flags, ctr, bs, d), DataBlock(LastBuf(bs)),
                    n - d * BLOCK_LEN, ctr,
                    flags \cup maybe_start_flag(d) \cup {"CHUNK_END"})
  <2> DEFINE c == Holds(key, flags, ctr, bs)
  <2>1. /\ c.cv = BlockCV(key, flags, ctr, bs, d) /\ c.chunk_counter = ctr
        /\ c.buf = LastBuf(bs) /\ c.buf_len = n - d * BLOCK_LEN
        /\ c.blocks_compressed = d /\ c.flags = flags
    BY HoldsFields
  <2> HIDE DEF c, d
  <2> QED
    BY <2>1 DEF chunk_state_output, c
<1> HIDE DEF g, d, blocks, Padded, FlagsOf
<1> QED
  BY <1>1, <1>4, <1>5, <1>6, <1>7, <1>8

-----------------------------------------------------------------------------
(***************************************************************************)
(* The left subtree: the one power of two that leaves the right one a byte *)
(* and not more than itself.                                               *)
(***************************************************************************)
SplitsAt(c, n) == IsPow2(c) /\ c * CHUNK_LEN < n /\ n <= 2 * c * CHUNK_LEN

\* Multiples of the chunk length keep their order.
LEMMA TimesChunk ==
  \A a, b \in Nat : /\ a * CHUNK_LEN \in Nat
                    /\ (a + b) * CHUNK_LEN = a * CHUNK_LEN + b * CHUNK_LEN
                    /\ a <= b => a * CHUNK_LEN <= b * CHUNK_LEN
                    /\ a < b => a * CHUNK_LEN + CHUNK_LEN <= b * CHUNK_LEN
<1> TAKE a, b \in Nat
<1>1. \A x, y \in Nat : /\ x * CHUNK_LEN \in Nat
                        /\ (x + y) * CHUNK_LEN = x * CHUNK_LEN + y * CHUNK_LEN
  BY Lengths
<1>2. ASSUME a <= b PROVE a * CHUNK_LEN <= b * CHUNK_LEN
  <2>1. b - a \in Nat /\ b = a + (b - a)
    BY <1>2
  <2>2. b * CHUNK_LEN = a * CHUNK_LEN + (b - a) * CHUNK_LEN
    BY <1>1, <2>1
  <2> QED
    BY <1>1, <2>1, <2>2
<1>3. ASSUME a < b PROVE a * CHUNK_LEN + CHUNK_LEN <= b * CHUNK_LEN
  <2>1. b - a - 1 \in Nat /\ b = (a + 1) + (b - a - 1) /\ a + 1 \in Nat
    BY <1>3
  <2>2. /\ b * CHUNK_LEN = (a + 1) * CHUNK_LEN + (b - a - 1) * CHUNK_LEN
        /\ (a + 1) * CHUNK_LEN = a * CHUNK_LEN + 1 * CHUNK_LEN
        /\ (b - a - 1) * CHUNK_LEN \in Nat /\ a * CHUNK_LEN \in Nat
    BY <1>1, <2>1
  <2> QED
    BY <2>2, Lengths
<1> QED
  BY <1>1, <1>2, <1>3

\* No two powers of two split n bytes so.
LEMMA SplitUnique ==
  ASSUME NEW n \in Nat, NEW c, NEW d, SplitsAt(c, n), SplitsAt(d, n)
  PROVE  c = d
<1>1. c \in Nat /\ d \in Nat
  BY Pow2Positive DEF SplitsAt
<1>2. ASSUME NEW x \in Nat, NEW y \in Nat, SplitsAt(x, n), SplitsAt(y, n), x < y
      PROVE  FALSE
  <2>1. 2 * x <= y /\ 2 * x \in Nat
    <3>1. IsPow2(x) /\ IsPow2(y)
      BY <1>2 DEF SplitsAt
    <3> QED
      BY <1>2, <3>1, Pow2Gap
  <2>2. (2 * x) * CHUNK_LEN <= y * CHUNK_LEN /\ y * CHUNK_LEN \in Nat
        /\ (2 * x) * CHUNK_LEN \in Nat
    BY <2>1, TimesChunk
  <2> QED
    BY <1>2, <2>2 DEF SplitsAt
<1> QED
  BY <1>1, <1>2

\* One power of two does, for more than a chunk.
LEMMA SplitExists ==
  ASSUME NEW n \in Nat, n > CHUNK_LEN
  PROVE  LET r == round_down_to_power_of_2[(n - 1) \div CHUNK_LEN]
         IN  SplitsAt(r, n) /\ r \in 1..n
<1> DEFINE x == (n - 1) \div CHUNK_LEN
           s == (n - 1) % CHUNK_LEN
           r == round_down_to_power_of_2[x]
<1>1. /\ n - 1 \in Nat /\ x \in Nat /\ s \in Nat /\ s < CHUNK_LEN
      /\ n - 1 = CHUNK_LEN * x + s /\ n - 1 >= CHUNK_LEN
  BY Lengths
<1> HIDE DEF x, s
<1>2. x > 0
  <2> SUFFICES ASSUME x = 0 PROVE FALSE
    BY <1>1
  <2>1. CHUNK_LEN * x = 0
    BY Lengths
  <2> QED
    BY <1>1, <2>1, Lengths
<1>3. IsPow2(r) /\ r <= x /\ x < 2 * r /\ r \in Nat /\ r > 0
  <2>1. IsPow2(r) /\ r <= x /\ x < 2 * r
    BY <1>1, <1>2, RoundDown
  <2> QED
    BY <2>1, Pow2Positive
<1> HIDE DEF r
<1>4. /\ r * CHUNK_LEN <= x * CHUNK_LEN /\ x * CHUNK_LEN \in Nat
      /\ x * CHUNK_LEN + CHUNK_LEN <= (2 * r) * CHUNK_LEN
      /\ r * CHUNK_LEN \in Nat /\ (2 * r) * CHUNK_LEN \in Nat
      /\ x * CHUNK_LEN = CHUNK_LEN * x
  BY <1>1, <1>3, TimesChunk, Lengths
<1>5. SplitsAt(r, n)
  <2> DEFINE u == r * CHUNK_LEN
             v == x * CHUNK_LEN
             w == (2 * r) * CHUNK_LEN
  <2>1. /\ u <= v /\ v \in Nat /\ v + CHUNK_LEN <= w /\ u \in Nat /\ w \in Nat
        /\ n - 1 = v + s
    BY <1>1, <1>4
  <2>2. w = 2 * r * CHUNK_LEN
    OBVIOUS
  <2> HIDE DEF u, v, w
  <2>3. u < n /\ n <= w
    BY <1>1, <2>1, Lengths
  <2> QED
    BY <1>3, <2>2, <2>3 DEF SplitsAt, u
<1>6. r <= r * CHUNK_LEN
  <2>1. CHUNK_LEN - 1 \in Nat /\ r * CHUNK_LEN = r + r * (CHUNK_LEN - 1)
    BY <1>3, Lengths
  <2>2. r * (CHUNK_LEN - 1) \in Nat
    BY <1>3, <2>1
  <2> QED
    BY <1>3, <2>1, <2>2
<1>7. r \in 1..n
  BY <1>1, <1>3, <1>4, <1>6
<1> QED
  BY <1>5, <1>7 DEF r, x

\* left_len is the number of bytes of that power of two.
LEMMA LeftIs ==
  ASSUME NEW n \in Nat, n > CHUNK_LEN
  PROVE  LET c == LeftChunks(n)
         IN  /\ SplitsAt(c, n) /\ c \in Nat /\ c > 0
             /\ c * CHUNK_LEN \in Nat /\ c * CHUNK_LEN > 0
             /\ c * CHUNK_LEN < n /\ n - c * CHUNK_LEN \in Nat
             /\ n - c * CHUNK_LEN < n /\ n - c * CHUNK_LEN > 0
<1> DEFINE c == LeftChunks(n)
<1>1. \E r \in 1..n : IsPow2(r) /\ r * CHUNK_LEN < n /\ n <= 2 * r * CHUNK_LEN
  BY SplitExists DEF SplitsAt
<1>2. c \in 1..n /\ IsPow2(c) /\ c * CHUNK_LEN < n /\ n <= 2 * c * CHUNK_LEN
  BY <1>1 DEF LeftChunks
<1> HIDE DEF c
<1>3. c \in Nat /\ c > 0 /\ c * CHUNK_LEN \in Nat /\ 0 * CHUNK_LEN + CHUNK_LEN <= c * CHUNK_LEN
  BY <1>2, TimesChunk
<1>4. c * CHUNK_LEN > 0
  BY <1>3, Lengths
<1> QED
  BY <1>2, <1>3, <1>4 DEF SplitsAt, c

\* The bytes left_len counts are whole chunks.
LEMMA LeftChunksIs ==
  ASSUME NEW n \in Nat, NEW c, SplitsAt(c, n)
  PROVE  LeftChunks(n) = c
<1>1. n > CHUNK_LEN
  <2>1. c \in Nat /\ c > 0
    BY Pow2Positive DEF SplitsAt
  <2>2. 0 * CHUNK_LEN + CHUNK_LEN <= c * CHUNK_LEN /\ c * CHUNK_LEN \in Nat
    BY <2>1, TimesChunk
  <2> QED
    BY <2>2, Lengths DEF SplitsAt
<1> QED
  BY <1>1, LeftIs, SplitUnique

-----------------------------------------------------------------------------
(***************************************************************************)
(* The nodes of the tree over `bytes`, one for every part of them: what    *)
(* the definition of a node says of one part, given all the smaller ones.  *)
(***************************************************************************)
NodeBody(g, key, flags, ctr, bytes, p) ==
  LET lo   == p[1]
      n    == p[2]
      left == LeftChunks(n) * CHUNK_LEN
  IN  IF n <= CHUNK_LEN
      THEN ChunkOutput(key, flags, ctr + (lo \div CHUNK_LEN),
                       SubSeq(bytes, lo + 1, lo + n))
      ELSE parent_output(
             ParentBlock(output_chaining_value(g[<<lo, left>>]),
                         output_chaining_value(g[<<lo + left, n - left>>])),
             key, flags)

\* The definition of a node looks at smaller parts only.
LEMMA NodeLocal ==
  ASSUME NEW key, NEW flags, NEW ctr, NEW bytes, NEW g, NEW h,
         NEW p \in Nat \X Nat,
         \A q \in Nat \X Nat : q[2] < p[2] => g[q] = h[q]
  PROVE  NodeBody(g, key, flags, ctr, bytes, p) =
           NodeBody(h, key, flags, ctr, bytes, p)
<1> DEFINE lo == p[1]
           n == p[2]
           left == LeftChunks(n) * CHUNK_LEN
<1>1. lo \in Nat /\ n \in Nat
  OBVIOUS
<1>2. CASE n <= CHUNK_LEN
  BY <1>2 DEF NodeBody
<1>3. CASE ~ (n <= CHUNK_LEN)
  <2>1. /\ left \in Nat /\ left < n /\ n - left \in Nat /\ n - left < n
        /\ lo + left \in Nat
    BY <1>1, <1>3, LeftIs, Lengths
  <2> HIDE DEF left
  <2>2. g[<<lo, left>>] = h[<<lo, left>>]
    <3>1. <<lo, left>> \in Nat \X Nat /\ <<lo, left>>[2] = left
      BY <1>1, <2>1
    <3> QED
      BY <2>1, <3>1
  <2>3. g[<<lo + left, n - left>>] = h[<<lo + left, n - left>>]
    <3>1. <<lo + left, n - left>> \in Nat \X Nat
          /\ <<lo + left, n - left>>[2] = n - left
      BY <2>1
    <3> QED
      BY <2>1, <3>1
  <2> QED
    BY <2>2, <2>3 DEF NodeBody, left
<1> QED
  BY <1>2, <1>3

\* A function defined so on the parts of at most n bytes.
NodeOn(g, n, key, flags, ctr, bytes) ==
  g = [p \in Nat \X (0..n) |-> NodeBody(g, key, flags, ctr, bytes, p)]

\* From the nodes of at most n bytes to those of n + 1.
LEMMA NodeStep ==
  ASSUME NEW key, NEW flags, NEW ctr, NEW bytes, NEW n \in Nat,
         \E g : NodeOn(g, n, key, flags, ctr, bytes)
  PROVE  \E g : NodeOn(g, n + 1, key, flags, ctr, bytes)
<1> DEFINE Body(g, p) == NodeBody(g, key, flags, ctr, bytes, p)
<1>1. PICK g : g = [p \in Nat \X (0..n) |-> Body(g, p)]
  BY DEF NodeOn
<1> DEFINE h == [p \in Nat \X (0..(n+1)) |->
                   IF p[2] <= n THEN g[p] ELSE Body(g, p)]
<1> HIDE DEF Body
<1>2. ASSUME NEW q \in Nat \X Nat, q[2] <= n PROVE h[q] = g[q]
  <2>1. q \in Nat \X (0..(n+1))
    BY <1>2
  <2> QED
    BY <1>2, <2>1
<1>3. ASSUME NEW p \in Nat \X (0..(n+1)) PROVE h[p] = Body(h, p)
  <2>1. p \in Nat \X Nat /\ p[2] \in Nat /\ p[2] <= n + 1
    OBVIOUS
  <2>2. Body(g, p) = Body(h, p)
    <3>1. ASSUME NEW q \in Nat \X Nat, q[2] < p[2] PROVE g[q] = h[q]
      <4>1. q[2] \in Nat /\ q[2] <= n
        BY <2>1, <3>1
      <4> QED
        BY <1>2, <4>1
    <3> QED
      BY <2>1, <3>1, NodeLocal DEF Body
  <2>3. CASE p[2] <= n
    <3>1. p \in Nat \X (0..n)
      BY <2>1, <2>3
    <3>2. g[p] = Body(g, p)
      BY <1>1, <3>1
    <3> QED
      BY <1>2, <2>1, <2>2, <2>3, <3>2
  <2>4. CASE ~ (p[2] <= n)
    <3>1. h[p] = Body(g, p)
      BY <2>4
    <3> QED
      BY <2>2, <3>1
  <2> QED
    BY <2>3, <2>4
<1>4. h = [p \in Nat \X (0..(n+1)) |-> h[p]]
  OBVIOUS
<1> HIDE DEF h
<1>5. h = [p \in Nat \X (0..(n+1)) |-> Body(h, p)]
  BY <1>3, <1>4
<1> QED
  BY <1>5 DEF NodeOn, Body

\* There are such functions for every n.
LEMMA NodeExists ==
  ASSUME NEW key, NEW flags, NEW ctr, NEW bytes, NEW n \in Nat
  PROVE  \E g : NodeOn(g, n, key, flags, ctr, bytes)
<1> DEFINE S == {k \in 0..n : \E g : NodeOn(g, k, key, flags, ctr, bytes)}
           Body(g, p) == NodeBody(g, key, flags, ctr, bytes, p)
<1>1. 0 \in S
  <2> DEFINE h == [p \in Nat \X (0..0) |-> Body(0, p)]
  <2> HIDE DEF Body
  <2>1. ASSUME NEW p \in Nat \X (0..0) PROVE h[p] = Body(h, p)
    <3>1. p \in Nat \X Nat /\ p[2] = 0
      OBVIOUS
    <3>2. \A q \in Nat \X Nat : q[2] < p[2] => 0[q] = h[q]
      <4> TAKE q \in Nat \X Nat
      <4>1. q[2] \in Nat
        OBVIOUS
      <4> QED
        BY <3>1, <4>1
    <3>3. Body(0, p) = Body(h, p)
      <4> HIDE DEF h
      <4> QED
        BY <3>1, <3>2, NodeLocal DEF Body
    <3> QED
      BY <3>3
  <2>2. h = [p \in Nat \X (0..0) |-> h[p]]
    OBVIOUS
  <2> HIDE DEF h
  <2>3. h = [p \in Nat \X (0..0) |-> Body(h, p)]
    BY <2>1, <2>2
  <2>4. NodeOn(h, 0, key, flags, ctr, bytes)
    BY <2>3 DEF NodeOn, Body
  <2> QED
    BY <2>4
<1>2. ASSUME NEW k \in 0..n, k < n, k \in S PROVE k + 1 \in S
  <2>1. k \in Nat /\ k + 1 \in 0..n
    BY <1>2
  <2> QED
    BY <1>2, <2>1, NodeStep
<1> HIDE DEF S
<1>3. n \in S
  BY <1>1, <1>2, Induct
<1> QED
  BY <1>3 DEF S

\* They agree wherever both are defined.
LEMMA NodeAgree ==
  ASSUME NEW key, NEW flags, NEW ctr, NEW bytes, NEW m \in Nat, NEW n \in Nat,
         NEW g, NodeOn(g, m, key, flags, ctr, bytes),
         NEW h, NodeOn(h, n, key, flags, ctr, bytes)
  PROVE  \A p \in Nat \X Nat : p[2] <= m /\ p[2] <= n => g[p] = h[p]
<1> DEFINE Body(f, p) == NodeBody(f, key, flags, ctr, bytes, p)
           Differ(k) == \E p \in Nat \X Nat :
                          p[2] = k /\ k <= m /\ k <= n /\ g[p] # h[p]
           Bad == {k \in Nat : Differ(k)}
<1>0. g = [p \in Nat \X (0..m) |-> Body(g, p)] /\ h = [p \in Nat \X (0..n) |-> Body(h, p)]
  BY DEF NodeOn
<1>1. Bad = {}
  <2> SUFFICES ASSUME Bad # {} PROVE FALSE
    OBVIOUS
  <2>1. PICK k \in Bad : \A j \in Bad : k <= j
    <3>1. Bad \subseteq Nat
      OBVIOUS
    <3> HIDE DEF Bad
    <3> QED
      BY <3>1, NatMin
  <2>2. k \in Nat
    OBVIOUS
  <2>3. PICK p \in Nat \X Nat : p[2] = k /\ k <= m /\ k <= n /\ g[p] # h[p]
    OBVIOUS
  <2>4. ASSUME NEW q \in Nat \X Nat, q[2] < p[2] PROVE g[q] = h[q]
    <3>1. q[2] \in Nat /\ q[2] <= m /\ q[2] <= n /\ q[2] < k
      BY <2>2, <2>3, <2>4
    <3> SUFFICES ASSUME g[q] # h[q] PROVE FALSE
      OBVIOUS
    <3>2. Differ(q[2])
      BY <3>1
    <3> HIDE DEF Differ
    <3>3. q[2] \in Bad
      BY <3>1, <3>2
    <3> HIDE DEF Bad
    <3> QED
      BY <2>1, <2>2, <3>1, <3>3
  <2> HIDE DEF Body
  <2>5. Body(g, p) = Body(h, p)
    BY <2>4, NodeLocal DEF Body
  <2>6. p \in Nat \X (0..m) /\ p \in Nat \X (0..n)
    BY <2>2, <2>3
  <2>7. g[p] = Body(g, p) /\ h[p] = Body(h, p)
    BY <1>0, <2>6
  <2> QED
    BY <2>3, <2>5, <2>7
<1>2. ASSUME NEW p \in Nat \X Nat, p[2] <= m, p[2] <= n PROVE g[p] = h[p]
  <2> SUFFICES ASSUME g[p] # h[p] PROVE FALSE
    OBVIOUS
  <2>1. p[2] \in Nat
    OBVIOUS
  <2>2. Differ(p[2])
    BY <1>2
  <2> HIDE DEF Differ
  <2>3. p[2] \in Bad
    BY <2>1, <2>2
  <2> HIDE DEF Bad
  <2> QED
    BY <1>1, <2>3
<1> QED
  BY <1>2

\* The function that the definition names.
Node(key, flags, ctr, bytes) ==
  CHOOSE g : g = [p \in Nat \X Nat |-> NodeBody(g, key, flags, ctr, bytes, p)]

\* It satisfies the definition of a node everywhere.
LEMMA NodeIs ==
  ASSUME NEW key, NEW flags, NEW ctr, NEW bytes
  PROVE  Node(key, flags, ctr, bytes) =
           [p \in Nat \X Nat |->
              NodeBody(Node(key, flags, ctr, bytes), key, flags, ctr, bytes, p)]
<1> DEFINE Body(f, p) == NodeBody(f, key, flags, ctr, bytes, p)
           F(n) == CHOOSE g : NodeOn(g, n, key, flags, ctr, bytes)
           G == [p \in Nat \X Nat |-> F(p[2])[p]]
<1>1. ASSUME NEW n \in Nat PROVE NodeOn(F(n), n, key, flags, ctr, bytes)
  <2>1. \E g : NodeOn(g, n, key, flags, ctr, bytes)
    BY NodeExists
  <2> QED
    BY <2>1
<1> HIDE DEF F
<1>2. ASSUME NEW p \in Nat \X Nat PROVE G[p] = Body(G, p)
  <2> DEFINE n == p[2]
  <2>1. n \in Nat /\ p \in Nat \X (0..n) /\ G[p] = F(n)[p]
    OBVIOUS
  <2>2. F(n) = [q \in Nat \X (0..n) |-> Body(F(n), q)]
    BY <1>1, <2>1 DEF NodeOn
  <2> HIDE DEF Body
  <2>3. F(n)[p] = Body(F(n), p)
    BY <2>1, <2>2
  <2>4. ASSUME NEW q \in Nat \X Nat, q[2] < n PROVE F(n)[q] = G[q]
    <3>1. q[2] \in Nat /\ q[2] <= n /\ G[q] = F(q[2])[q]
      BY <2>1, <2>4
    <3>2. /\ NodeOn(F(n), n, key, flags, ctr, bytes)
          /\ NodeOn(F(q[2]), q[2], key, flags, ctr, bytes)
      BY <1>1, <2>1, <3>1
    <3>3. F(n)[q] = F(q[2])[q]
      BY <2>1, <3>1, <3>2, NodeAgree
    <3> QED
      BY <3>1, <3>3
  <2> HIDE DEF G
  <2>5. Body(F(n), p) = Body(G, p)
    BY <2>4, NodeLocal DEF Body
  <2> QED
    BY <2>1, <2>3, <2>5
<1>3. G = [p \in Nat \X Nat |-> G[p]]
  OBVIOUS
<1> HIDE DEF G, Body
<1>4. G = [p \in Nat \X Nat |-> Body(G, p)]
  BY <1>2, <1>3
<1> QED
  BY <1>4, Zenon DEF Node, Body

\* NodeOutput is the node of the whole.
LEMMA NodeOutputIs ==
  ASSUME NEW key, NEW flags, NEW ctr, NEW bytes
  PROVE  NodeOutput(key, flags, ctr, bytes) =
           Node(key, flags, ctr, bytes)[<<0, Len(bytes)>>]
  BY DEF NodeOutput, Node, NodeBody

-----------------------------------------------------------------------------
(***************************************************************************)
(* n elements of s from the one after place lo on.                         *)
(***************************************************************************)
Part(s, lo, n) == [i \in 1..n |-> s[lo + i]]

\* The elements of a part.
LEMMA PartIs ==
  ASSUME NEW s, NEW lo \in Nat, NEW n \in Nat
  PROVE  /\ IsSeq(Part(s, lo, n)) /\ Len(Part(s, lo, n)) = n
         /\ \A i \in 1..n : Part(s, lo, n)[i] = s[lo + i]
<1> DEFINE t == Part(s, lo, n)
<1>1. t = [i \in 1..n |-> t[i]] /\ \A i \in 1..n : t[i] = s[lo + i]
  BY DEF Part
<1> HIDE DEF t
<1>2. IsSeq(t) /\ Len(t) = n
  BY <1>1, SeqOf
<1> QED
  BY <1>1, <1>2 DEF t

\* A part of a part is a part of the whole.
LEMMA PartOfPart ==
  ASSUME NEW s, NEW lo \in Nat, NEW n \in Nat, NEW a \in Nat, NEW m \in Nat,
         a + m <= n
  PROVE  Part(Part(s, lo, n), a, m) = Part(s, lo + a, m)
<1>1. \A i \in 1..m : a + i \in 1..n /\ lo + (a + i) = (lo + a) + i
  OBVIOUS
<1>2. \A i \in 1..m : Part(s, lo, n)[a + i] = s[(lo + a) + i]
  <2> TAKE i \in 1..m
  <2> DEFINE j == a + i
  <2>1. j \in 1..n /\ lo + j = (lo + a) + i
    BY <1>1
  <2> HIDE DEF j
  <2>2. Part(s, lo, n)[j] = s[lo + j]
    BY <2>1, PartIs
  <2> QED
    BY <2>1, <2>2 DEF j
<1> QED
  BY <1>2 DEF Part

\* A slice is a part.
LEMMA PartIsSlice ==
  ASSUME NEW s, NEW lo \in Nat, NEW n \in Nat
  PROVE  SubSeq(s, lo + 1, lo + n) = Part(s, lo, n)
<1> DEFINE hi == lo + n
           t  == SubSeq(s, lo + 1, hi)
<1>1. hi \in Nat /\ lo <= hi /\ hi - lo = n
  OBVIOUS
<1> HIDE DEF hi
<1>2. /\ IsSeq(t) /\ Len(t) = hi - lo
      /\ \A i \in 1..(hi - lo) : t[i] = s[lo + i]
  BY <1>1, SliceIs
<1> HIDE DEF t
<1>3. t = [i \in 1..n |-> s[lo + i]]
  BY <1>1, <1>2 DEF IsSeq
<1> QED
  BY <1>3 DEF Part, t, hi

\* All of the elements are the sequence itself.
LEMMA WholePart ==
  ASSUME NEW s, IsSeq(s)
  PROVE  s = Part(s, 0, Len(s))
<1>1. \A i \in 1..Len(s) : 0 + i = i
  OBVIOUS
<1> QED
  BY <1>1 DEF Part, IsSeq

\* Where chunk number k begins.
At(k) == k * CHUNK_LEN

\* Chunks begin at multiples of the chunk length.
LEMMA AtFacts ==
  /\ At(0) = 0 /\ At(1) = CHUNK_LEN
  /\ \A a \in Nat : At(a) \in Nat
  /\ \A a, b \in Nat : /\ At(a + b) = At(a) + At(b)
                       /\ a <= b => At(a) <= At(b)
                       /\ a < b => At(a) + CHUNK_LEN <= At(b)
<1>1. At(0) = 0 /\ At(1) = CHUNK_LEN
  BY Lengths DEF At
<1> QED
  BY <1>1, TimesChunk DEF At

\* A chunk beginning names its chunk.
LEMMA ChunkNumber ==
  ASSUME NEW k \in Nat, NEW lo \in Nat
  PROVE  /\ lo \div CHUNK_LEN \in Nat
         /\ (k * CHUNK_LEN + lo) \div CHUNK_LEN = k + (lo \div CHUNK_LEN)
<1> DEFINE q == lo \div CHUNK_LEN
           r == lo % CHUNK_LEN
           x == k * CHUNK_LEN + lo
<1>1. /\ q \in Nat /\ r \in Nat /\ r < CHUNK_LEN /\ lo = CHUNK_LEN * q + r
      /\ CHUNK_LEN \in Nat /\ CHUNK_LEN > 0
  BY Lengths
<1> HIDE DEF q, r
<1>2. /\ x \in Nat /\ k + q \in Nat /\ x = (k + q) * CHUNK_LEN + r
  BY <1>1
<1> HIDE DEF x
<1>3. x \div CHUNK_LEN = k + q
  BY <1>1, <1>2, DivisionIs
<1> QED
  BY <1>1, <1>3 DEF x, q

NodeAt(key, flags, ctr, bytes, lo, n) == Node(key, flags, ctr, bytes)[<<lo, n>>]

\* `part` holds the bytes from chunk k on.
PartFrom(k, bytes, part, size) ==
  \A i \in 1..size : part[i] = bytes[At(k) + i]

\* The nodes of a part are nodes of the whole.
LEMMA NodeShift ==
  ASSUME NEW key, NEW flags, NEW ctr \in Nat, NEW k \in Nat, NEW bytes,
         NEW part, NEW size \in Nat, PartFrom(k, bytes, part, size),
         NEW from \in Nat, NEW len \in Nat, from + len <= size
  PROVE  NodeAt(key, flags, ctr + k, part, from, len) =
           NodeAt(key, flags, ctr, bytes, At(k) + from, len)
<1> DEFINE off == At(k)
           g == Node(key, flags, ctr + k, part)
           h == Node(key, flags, ctr, bytes)
           Differ(n) == \E lo \in Nat : /\ lo + n <= size
                                        /\ g[<<lo, n>>] # h[<<off + lo, n>>]
           Bad == {n \in Nat : Differ(n)}
<1>1. off \in Nat
  BY AtFacts
<1>2. \A p \in Nat \X Nat : /\ g[p] = NodeBody(g, key, flags, ctr + k, part, p)
                            /\ h[p] = NodeBody(h, key, flags, ctr, bytes, p)
  BY NodeIs
<1> HIDE DEF g, h
<1>3. Bad = {}
  <2> SUFFICES ASSUME Bad # {} PROVE FALSE
    OBVIOUS
  <2>1. PICK n \in Bad : \A m \in Bad : n <= m
    <3>1. Bad \subseteq Nat
      OBVIOUS
    <3> HIDE DEF Bad
    <3> QED
      BY <3>1, NatMin
  <2>2. n \in Nat
    OBVIOUS
  <2>3. PICK lo \in Nat : lo + n <= size /\ g[<<lo, n>>] # h[<<off + lo, n>>]
    OBVIOUS
  <2>4. ASSUME NEW m \in Nat, m < n, NEW a \in Nat, a + m <= size
        PROVE  g[<<a, m>>] = h[<<off + a, m>>]
    <3> SUFFICES ASSUME g[<<a, m>>] # h[<<off + a, m>>] PROVE FALSE
      OBVIOUS
    <3>1. m \in Bad
      BY <2>4
    <3> HIDE DEF Bad
    <3> QED
      BY <2>1, <2>2, <2>4, <3>1
  <2> HIDE DEF Bad, off
  <2>5. /\ <<lo, n>> \in Nat \X Nat /\ <<off + lo, n>> \in Nat \X Nat
        /\ <<lo, n>>[1] = lo /\ <<lo, n>>[2] = n
        /\ <<off + lo, n>>[1] = off + lo /\ <<off + lo, n>>[2] = n
    BY <1>1, <2>2
  <2>6. CASE n <= CHUNK_LEN
    <3>1. /\ g[<<lo, n>>] =
               ChunkOutput(key, flags, (ctr + k) + (lo \div CHUNK_LEN),
                           SubSeq(part, lo + 1, lo + n))
          /\ h[<<off + lo, n>>] =
               ChunkOutput(key, flags, ctr + ((off + lo) \div CHUNK_LEN),
                           SubSeq(bytes, (off + lo) + 1, (off + lo) + n))
      BY <1>2, <2>5, <2>6 DEF NodeBody
    <3>2. (ctr + k) + (lo \div CHUNK_LEN) = ctr + ((off + lo) \div CHUNK_LEN)
      <4>1. /\ lo \div CHUNK_LEN \in Nat
            /\ (off + lo) \div CHUNK_LEN = k + (lo \div CHUNK_LEN)
        BY ChunkNumber DEF off, At
      <4> QED
        BY <4>1
    <3>3. SubSeq(part, lo + 1, lo + n) = SubSeq(bytes, (off + lo) + 1, (off + lo) + n)
      <4> DEFINE z == off + lo
      <4>1. z \in Nat
        BY <1>1
      <4>2. \A i \in 1..n : part[lo + i] = bytes[z + i]
        <5> TAKE i \in 1..n
        <5>1. lo + i \in 1..size /\ off + (lo + i) = z + i
          BY <1>1, <2>2, <2>3
        <5> QED
          BY <5>1 DEF off, PartFrom
      <4> HIDE DEF z
      <4>3. Part(part, lo, n) = Part(bytes, z, n)
        BY <4>2 DEF Part
      <4>4. SubSeq(part, lo + 1, lo + n) = SubSeq(bytes, z + 1, z + n)
        <5>1. SubSeq(part, lo + 1, lo + n) = Part(part, lo, n)
          BY <2>2, PartIsSlice
        <5>2. SubSeq(bytes, z + 1, z + n) = Part(bytes, z, n)
          BY <2>2, <4>1, PartIsSlice
        <5> QED
          BY <4>3, <5>1, <5>2
      <4> QED
        BY <4>4 DEF z
    <3> QED
      BY <2>3, <3>1, <3>2, <3>3
  <2>7. CASE ~ (n <= CHUNK_LEN)
    <3> DEFINE left == LeftChunks(n) * CHUNK_LEN
    <3>1. /\ left \in Nat /\ left < n /\ n - left \in Nat /\ n - left < n
          /\ lo + left \in Nat /\ (lo + left) + (n - left) <= size
          /\ lo + left <= size /\ off + (lo + left) = (off + lo) + left
      BY <1>1, <2>2, <2>3, <2>7, LeftIs, Lengths
    <3>2. /\ g[<<lo, n>>] =
               parent_output(
                 ParentBlock(output_chaining_value(g[<<lo, left>>]),
                             output_chaining_value(g[<<lo + left, n - left>>])),
                 key, flags)
          /\ h[<<off + lo, n>>] =
               parent_output(
                 ParentBlock(output_chaining_value(h[<<off + lo, left>>]),
                             output_chaining_value(
                               h[<<(off + lo) + left, n - left>>])),
                 key, flags)
      BY <1>2, <2>5, <2>7 DEF NodeBody
    <3> HIDE DEF left
    <3>3. g[<<lo, left>>] = h[<<off + lo, left>>]
      BY <2>4, <3>1
    <3>4. g[<<lo + left, n - left>>] = h[<<(off + lo) + left, n - left>>]
      <4>1. g[<<lo + left, n - left>>] = h[<<off + (lo + left), n - left>>]
        BY <2>4, <3>1
      <4> QED
        BY <3>1, <4>1
    <3> QED
      BY <2>3, <3>2, <3>3, <3>4
  <2> QED
    BY <2>6, <2>7
<1> SUFFICES ASSUME g[<<from, len>>] # h[<<off + from, len>>] PROVE FALSE
  BY DEF g, h, NodeAt
<1>4. len \in Bad
  OBVIOUS
<1> HIDE DEF Bad
<1> QED
  BY <1>3, <1>4

-----------------------------------------------------------------------------
(***************************************************************************)
(* A node, in terms of its parts.                                          *)
(***************************************************************************)
LEMMA PartLeaf ==
  ASSUME NEW key, NEW flags, NEW ctr \in Nat, NEW s, NEW lo \in Nat,
         NEW n \in Nat, n <= CHUNK_LEN
  PROVE  NodeOutput(key, flags, ctr, Part(s, lo, n)) =
           ChunkOutput(key, flags, ctr, Part(s, lo, n))
<1> DEFINE t == Part(s, lo, n)
           g == Node(key, flags, ctr, t)
<1>1. IsSeq(t) /\ Len(t) = n
  BY PartIs
<1> HIDE DEF t
<1>2. <<0, n>> \in Nat \X Nat /\ <<0, n>>[1] = 0 /\ <<0, n>>[2] = n
  OBVIOUS
<1>3. g[<<0, n>>] = NodeBody(g, key, flags, ctr, t, <<0, n>>)
  BY <1>2, NodeIs
<1> HIDE DEF g
<1>4. g[<<0, n>>] = ChunkOutput(key, flags, ctr + (0 \div CHUNK_LEN),
                                SubSeq(t, 0 + 1, 0 + n))
  BY <1>2, <1>3 DEF NodeBody
<1>5. ctr + (0 \div CHUNK_LEN) = ctr /\ 0 + 1 = 1 /\ 0 + n = n
  BY Lengths
<1>6. SubSeq(t, 1, n) = t
  BY <1>1, WholeSlice
<1> QED
  BY <1>1, <1>4, <1>5, <1>6, NodeOutputIs DEF g, t

NodeSplits(key, flags, ctr, s, lo, n, c) ==
  NodeOutput(key, flags, ctr, Part(s, lo, n)) =
    parent_output(
      ParentBlock(NodeCV(key, flags, ctr, Part(s, lo, At(c))),
                  NodeCV(key, flags, ctr + c,
                         Part(s, lo + At(c), n - At(c)))),
      key, flags)

\* The node over more than a chunk is the parent of the nodes over its two parts.
LEMMA PartSplit ==
  ASSUME NEW key, NEW flags, NEW ctr \in Nat, NEW s, NEW lo \in Nat,
         NEW n \in Nat, NEW c \in Nat, SplitsAt(c, n)
  PROVE  NodeSplits(key, flags, ctr, s, lo, n, c)
<1> DEFINE left == At(c)
           t == Part(s, lo, n)
           u == Part(s, lo, left)
           v == Part(s, lo + left, n - left)
           g == Node(key, flags, ctr, t)
<1>1. /\ left \in Nat /\ left < n /\ n - left \in Nat /\ n > CHUNK_LEN
      /\ LeftChunks(n) = c
  <2>1. c > 0 /\ left \in Nat /\ left < n
    BY Pow2Positive, AtFacts DEF SplitsAt, At
  <2>2. CHUNK_LEN <= left
    <3>1. At(0) + CHUNK_LEN <= At(c)
      BY <2>1, AtFacts
    <3> QED
      BY <3>1, AtFacts, Lengths
  <2>3. LeftChunks(n) = c
    BY LeftChunksIs
  <2> QED
    BY <2>1, <2>2, <2>3, Lengths
<1>2. /\ IsSeq(t) /\ Len(t) = n /\ \A i \in 1..n : t[i] = s[lo + i]
      /\ IsSeq(u) /\ Len(u) = left /\ \A i \in 1..left : u[i] = s[lo + i]
      /\ IsSeq(v) /\ Len(v) = n - left
      /\ \A i \in 1..(n - left) : v[i] = s[(lo + left) + i]
  <2> HIDE DEF left
  <2>1. lo + left \in Nat
    BY <1>1
  <2> QED
    BY <1>1, <2>1, PartIs
<1> HIDE DEF t, u, v
<1>3. /\ <<0, n>> \in Nat \X Nat /\ <<0, n>>[1] = 0 /\ <<0, n>>[2] = n
      /\ 0 + left = left /\ ~ (n <= CHUNK_LEN)
  BY <1>1, Lengths
<1>4. g[<<0, n>>] = NodeBody(g, key, flags, ctr, t, <<0, n>>)
  BY <1>3, NodeIs
<1> HIDE DEF g
<1>5. g[<<0, n>>] = parent_output(
                      ParentBlock(output_chaining_value(g[<<0, left>>]),
                                  output_chaining_value(g[<<left, n - left>>])),
                      key, flags)
  <2>1. LeftChunks(n) * CHUNK_LEN = left
    BY <1>1 DEF At
  <2> HIDE DEF left
  <2>2. NodeBody(g, key, flags, ctr, t, <<0, n>>) =
          parent_output(
            ParentBlock(output_chaining_value(g[<<0, left>>]),
                        output_chaining_value(g[<<0 + left, n - left>>])),
            key, flags)
    BY <1>3, <2>1 DEF NodeBody
  <2> QED
    BY <1>3, <1>4, <2>2
<1> DEFINE z == 0
           m == n - left
<1>6. /\ z \in Nat /\ At(z) + z = 0 /\ left + z = left /\ ctr + z = ctr
      /\ m \in Nat /\ z + left <= left /\ z + m <= m
      /\ \A i \in 1..left : At(z) + i = i
  <2>1. At(z) = 0
    BY AtFacts
  <2> HIDE DEF left
  <2> QED
    BY <1>1, <2>1
<1> HIDE DEF z, m
<1>7. Node(key, flags, ctr, u)[<<z, left>>] = g[<<0, left>>]
  <2>1. \A i \in 1..left : u[i] = t[At(z) + i]
    <3> TAKE i \in 1..left
    <3>1. i \in 1..n
      BY <1>1
    <3> QED
      BY <1>2, <1>6, <3>1
  <2>0. PartFrom(z, t, u, left)
    BY <2>1 DEF PartFrom
  <2> HIDE DEF left
  <2>2. Node(key, flags, ctr + z, u)[<<z, left>>] = g[<<At(z) + z, left>>]
    <3>1. z + left <= left /\ left \in Nat /\ z \in Nat
      BY <1>1, <1>6
    <3>2. NodeAt(key, flags, ctr + z, u, z, left) =
            NodeAt(key, flags, ctr, t, At(z) + z, left)
      BY <2>0, <3>1, NodeShift
    <3> QED
      BY <3>2 DEF g, NodeAt
  <2> QED
    BY <1>6, <2>2
<1>8. Node(key, flags, ctr + c, v)[<<z, m>>] = g[<<left, m>>]
  <2>1. \A i \in 1..m : v[i] = t[At(c) + i]
    <3> TAKE i \in 1..m
    <3> HIDE DEF left
    <3>1. /\ left + i \in 1..n /\ (lo + left) + i = lo + (left + i)
          /\ i \in 1..(n - left)
      BY <1>1 DEF m
    <3>2. v[i] = t[left + i]
      BY <1>2, <3>1
    <3> QED
      BY <3>2 DEF left
  <2>0. PartFrom(c, t, v, m)
    BY <2>1 DEF PartFrom
  <2>2. Node(key, flags, ctr + c, v)[<<z, m>>] = g[<<At(c) + z, m>>]
    <3>1. z + m <= m /\ m \in Nat /\ z \in Nat
      BY <1>6
    <3>2. NodeAt(key, flags, ctr + c, v, z, m) =
            NodeAt(key, flags, ctr, t, At(c) + z, m)
      BY <2>0, <3>1, NodeShift
    <3> QED
      BY <3>2 DEF g, NodeAt
  <2> QED
    BY <1>6, <2>2
<1>9. /\ NodeOutput(key, flags, ctr, t) = g[<<0, n>>]
      /\ NodeOutput(key, flags, ctr, u) = g[<<0, left>>]
      /\ NodeOutput(key, flags, ctr + c, v) = g[<<left, n - left>>]
  <2> HIDE DEF left
  <2> QED
    BY <1>2, <1>7, <1>8, NodeOutputIs DEF g, z, m
<1> HIDE DEF left
<1> QED
  BY <1>5, <1>9 DEF NodeSplits, NodeCV, t, u, v, left

-----------------------------------------------------------------------------
(***************************************************************************)
(* The wide path splits a subtree where the tree does.                     *)
(***************************************************************************)
LEMMA LeftLenIs ==
  ASSUME NEW n \in Nat, n > CHUNK_LEN, NEW c, SplitsAt(c, n)
  PROVE  left_len(n) = At(c)
<1> DEFINE r == round_down_to_power_of_2[(n - 1) \div CHUNK_LEN]
<1>1. SplitsAt(r, n)
  BY SplitExists
<1>2. left_len(n) = r * CHUNK_LEN
  BY DEF left_len
<1> HIDE DEF r
<1>3. r = c
  BY <1>1, SplitUnique
<1> QED
  BY <1>2, <1>3 DEF At

\* The CPU computes a positive power of two of chunks at once.
LEMMA Degree ==
  /\ SIMD_DEGREE \in Nat /\ SIMD_DEGREE > 0
  /\ SIMD_DEGREE * CHUNK_LEN \in Nat
  /\ CHUNK_LEN <= SIMD_DEGREE * CHUNK_LEN
<1>1. SIMD_DEGREE \in Nat /\ SIMD_DEGREE > 0
  BY DegreeAssumption, Pow2Positive
<1>2. At(0) + CHUNK_LEN <= At(SIMD_DEGREE) /\ At(0) = 0 /\ At(SIMD_DEGREE) \in Nat
  BY <1>1, AtFacts
<1> QED
  BY <1>1, <1>2, Lengths DEF At

\* The left half of a subtree of 2h chunks is its first h chunks.
LEMMA WideLeft ==
  ASSUME NEW n \in Nat, ~ (n <= SIMD_DEGREE * CHUNK_LEN)
  PROVE  LET left == left_len(n)
         IN  left \in Nat /\ left < n /\ n - left \in Nat /\ n - left < n
<1> DEFINE c == LeftChunks(n)
<1>1. n > CHUNK_LEN
  BY Degree, Lengths
<1>2. /\ SplitsAt(c, n) /\ c * CHUNK_LEN \in Nat
      /\ c * CHUNK_LEN < n /\ n - c * CHUNK_LEN \in Nat
      /\ n - c * CHUNK_LEN < n
  BY <1>1, LeftIs
<1> HIDE DEF c
<1>3. left_len(n) = At(c)
  BY <1>1, <1>2, LeftLenIs
<1> QED
  BY <1>2, <1>3 DEF At

(***************************************************************************)
(* The recursion of the wide path: what it says of one part, given all the *)
(* smaller ones.                                                           *)
(***************************************************************************)
WideBody(g, key, flags, ctr, bytes, p) ==
  LET lo   == p[1]
      n    == p[2]
      left == left_len(n)
  IN  IF n <= SIMD_DEGREE * CHUNK_LEN
      THEN compress_chunks_parallel(SubSeq(bytes, lo + 1, lo + n), key,
             ctr + (lo \div CHUNK_LEN), flags)
      ELSE join_halves(g[<<lo, left>>], g[<<lo + left, n - left>>],
                       child_degree(left), key, flags)

\* The recursion looks at smaller parts only.
LEMMA WideLocal ==
  ASSUME NEW key, NEW flags, NEW ctr, NEW bytes, NEW g, NEW h,
         NEW p \in Nat \X Nat,
         \A q \in Nat \X Nat : q[2] < p[2] => g[q] = h[q]
  PROVE  WideBody(g, key, flags, ctr, bytes, p) =
           WideBody(h, key, flags, ctr, bytes, p)
<1> DEFINE lo == p[1]
           n == p[2]
           left == left_len(n)
<1>1. lo \in Nat /\ n \in Nat
  OBVIOUS
<1>2. CASE n <= SIMD_DEGREE * CHUNK_LEN
  BY <1>2 DEF WideBody
<1>3. CASE ~ (n <= SIMD_DEGREE * CHUNK_LEN)
  <2>1. left \in Nat /\ left < n /\ n - left \in Nat /\ n - left < n
    BY <1>1, <1>3, WideLeft
  <2> HIDE DEF left
  <2>2. g[<<lo, left>>] = h[<<lo, left>>]
    <3>1. <<lo, left>> \in Nat \X Nat /\ <<lo, left>>[2] = left
      BY <1>1, <2>1
    <3> QED
      BY <2>1, <3>1
  <2>3. g[<<lo + left, n - left>>] = h[<<lo + left, n - left>>]
    <3>1. <<lo + left, n - left>> \in Nat \X Nat
          /\ <<lo + left, n - left>>[2] = n - left
      BY <1>1, <2>1
    <3> QED
      BY <2>1, <3>1
  <2> QED
    BY <1>3, <2>2, <2>3 DEF WideBody, left
<1> QED
  BY <1>2, <1>3

\* A function defined so on the parts of at most n bytes.
WideOn(g, n, key, flags, ctr, bytes) ==
  g = [p \in Nat \X (0..n) |-> WideBody(g, key, flags, ctr, bytes, p)]

\* From the arrays of at most n bytes to those of n + 1.
LEMMA WideStep ==
  ASSUME NEW key, NEW flags, NEW ctr, NEW bytes, NEW n \in Nat,
         \E g : WideOn(g, n, key, flags, ctr, bytes)
  PROVE  \E g : WideOn(g, n + 1, key, flags, ctr, bytes)
<1> DEFINE Body(g, p) == WideBody(g, key, flags, ctr, bytes, p)
<1>1. PICK g : g = [p \in Nat \X (0..n) |-> Body(g, p)]
  BY DEF WideOn
<1> DEFINE h == [p \in Nat \X (0..(n+1)) |->
                   IF p[2] <= n THEN g[p] ELSE Body(g, p)]
<1> HIDE DEF Body
<1>2. ASSUME NEW q \in Nat \X Nat, q[2] <= n PROVE h[q] = g[q]
  <2>1. q \in Nat \X (0..(n+1))
    BY <1>2
  <2> QED
    BY <1>2, <2>1
<1>3. ASSUME NEW p \in Nat \X (0..(n+1)) PROVE h[p] = Body(h, p)
  <2>1. p \in Nat \X Nat /\ p[2] \in Nat /\ p[2] <= n + 1
    OBVIOUS
  <2>2. Body(g, p) = Body(h, p)
    <3>1. ASSUME NEW q \in Nat \X Nat, q[2] < p[2] PROVE g[q] = h[q]
      <4>1. q[2] \in Nat /\ q[2] <= n
        BY <2>1, <3>1
      <4> QED
        BY <1>2, <4>1
    <3> QED
      BY <2>1, <3>1, WideLocal DEF Body
  <2>3. CASE p[2] <= n
    <3>1. p \in Nat \X (0..n)
      BY <2>1, <2>3
    <3>2. g[p] = Body(g, p)
      BY <1>1, <3>1
    <3> QED
      BY <1>2, <2>1, <2>2, <2>3, <3>2
  <2>4. CASE ~ (p[2] <= n)
    <3>1. h[p] = Body(g, p)
      BY <2>4
    <3> QED
      BY <2>2, <3>1
  <2> QED
    BY <2>3, <2>4
<1>4. h = [p \in Nat \X (0..(n+1)) |-> h[p]]
  OBVIOUS
<1> HIDE DEF h
<1>5. h = [p \in Nat \X (0..(n+1)) |-> Body(h, p)]
  BY <1>3, <1>4
<1> QED
  BY <1>5 DEF WideOn, Body

\* There are such functions for every n.
LEMMA WideExists ==
  ASSUME NEW key, NEW flags, NEW ctr, NEW bytes, NEW n \in Nat
  PROVE  \E g : WideOn(g, n, key, flags, ctr, bytes)
<1> DEFINE S == {k \in 0..n : \E g : WideOn(g, k, key, flags, ctr, bytes)}
           Body(g, p) == WideBody(g, key, flags, ctr, bytes, p)
<1>1. 0 \in S
  <2> DEFINE h == [p \in Nat \X (0..0) |-> Body(0, p)]
  <2> HIDE DEF Body
  <2>1. ASSUME NEW p \in Nat \X (0..0) PROVE h[p] = Body(h, p)
    <3>1. p \in Nat \X Nat /\ p[2] = 0
      OBVIOUS
    <3>2. \A q \in Nat \X Nat : q[2] < p[2] => 0[q] = h[q]
      <4> TAKE q \in Nat \X Nat
      <4>1. q[2] \in Nat
        OBVIOUS
      <4> QED
        BY <3>1, <4>1
    <3>3. Body(0, p) = Body(h, p)
      <4> HIDE DEF h
      <4> QED
        BY <3>1, <3>2, WideLocal DEF Body
    <3> QED
      BY <3>3
  <2>2. h = [p \in Nat \X (0..0) |-> h[p]]
    OBVIOUS
  <2> HIDE DEF h
  <2>3. h = [p \in Nat \X (0..0) |-> Body(h, p)]
    BY <2>1, <2>2
  <2>4. WideOn(h, 0, key, flags, ctr, bytes)
    BY <2>3 DEF WideOn, Body
  <2> QED
    BY <2>4
<1>2. ASSUME NEW k \in 0..n, k < n, k \in S PROVE k + 1 \in S
  <2>1. k \in Nat /\ k + 1 \in 0..n
    BY <1>2
  <2> QED
    BY <1>2, <2>1, WideStep
<1> HIDE DEF S
<1>3. n \in S
  BY <1>1, <1>2, Induct
<1> QED
  BY <1>3 DEF S

\* They agree wherever both are defined.
LEMMA WideAgree ==
  ASSUME NEW key, NEW flags, NEW ctr, NEW bytes, NEW m \in Nat, NEW n \in Nat,
         NEW g, WideOn(g, m, key, flags, ctr, bytes),
         NEW h, WideOn(h, n, key, flags, ctr, bytes)
  PROVE  \A p \in Nat \X Nat : p[2] <= m /\ p[2] <= n => g[p] = h[p]
<1> DEFINE Body(f, p) == WideBody(f, key, flags, ctr, bytes, p)
           Differ(k) == \E p \in Nat \X Nat :
                          p[2] = k /\ k <= m /\ k <= n /\ g[p] # h[p]
           Bad == {k \in Nat : Differ(k)}
<1>0. g = [p \in Nat \X (0..m) |-> Body(g, p)] /\ h = [p \in Nat \X (0..n) |-> Body(h, p)]
  BY DEF WideOn
<1>1. Bad = {}
  <2> SUFFICES ASSUME Bad # {} PROVE FALSE
    OBVIOUS
  <2>1. PICK k \in Bad : \A j \in Bad : k <= j
    <3>1. Bad \subseteq Nat
      OBVIOUS
    <3> HIDE DEF Bad
    <3> QED
      BY <3>1, NatMin
  <2>2. k \in Nat
    OBVIOUS
  <2>3. PICK p \in Nat \X Nat : p[2] = k /\ k <= m /\ k <= n /\ g[p] # h[p]
    OBVIOUS
  <2>4. ASSUME NEW q \in Nat \X Nat, q[2] < p[2] PROVE g[q] = h[q]
    <3>1. q[2] \in Nat /\ q[2] <= m /\ q[2] <= n /\ q[2] < k
      BY <2>2, <2>3, <2>4
    <3> SUFFICES ASSUME g[q] # h[q] PROVE FALSE
      OBVIOUS
    <3>2. Differ(q[2])
      BY <3>1
    <3> HIDE DEF Differ
    <3>3. q[2] \in Bad
      BY <3>1, <3>2
    <3> HIDE DEF Bad
    <3> QED
      BY <2>1, <2>2, <3>1, <3>3
  <2> HIDE DEF Body
  <2>5. Body(g, p) = Body(h, p)
    BY <2>4, WideLocal DEF Body
  <2>6. p \in Nat \X (0..m) /\ p \in Nat \X (0..n)
    BY <2>2, <2>3
  <2>7. g[p] = Body(g, p) /\ h[p] = Body(h, p)
    BY <1>0, <2>6
  <2> QED
    BY <2>3, <2>5, <2>7
<1>2. ASSUME NEW p \in Nat \X Nat, p[2] <= m, p[2] <= n PROVE g[p] = h[p]
  <2> SUFFICES ASSUME g[p] # h[p] PROVE FALSE
    OBVIOUS
  <2>1. p[2] \in Nat
    OBVIOUS
  <2>2. Differ(p[2])
    BY <1>2
  <2> HIDE DEF Differ
  <2>3. p[2] \in Bad
    BY <2>1, <2>2
  <2> HIDE DEF Bad
  <2> QED
    BY <1>1, <2>3
<1> QED
  BY <1>2

\* The function that the definition names.
Wide(key, flags, ctr, bytes) ==
  CHOOSE g : g = [p \in Nat \X Nat |-> WideBody(g, key, flags, ctr, bytes, p)]

\* It satisfies the recursion everywhere.
LEMMA WideIs ==
  ASSUME NEW key, NEW flags, NEW ctr, NEW bytes
  PROVE  Wide(key, flags, ctr, bytes) =
           [p \in Nat \X Nat |->
              WideBody(Wide(key, flags, ctr, bytes), key, flags, ctr, bytes, p)]
<1> DEFINE Body(f, p) == WideBody(f, key, flags, ctr, bytes, p)
           F(n) == CHOOSE g : WideOn(g, n, key, flags, ctr, bytes)
           G == [p \in Nat \X Nat |-> F(p[2])[p]]
<1>1. ASSUME NEW n \in Nat PROVE WideOn(F(n), n, key, flags, ctr, bytes)
  <2>1. \E g : WideOn(g, n, key, flags, ctr, bytes)
    BY WideExists
  <2> QED
    BY <2>1
<1> HIDE DEF F
<1>2. ASSUME NEW p \in Nat \X Nat PROVE G[p] = Body(G, p)
  <2> DEFINE n == p[2]
  <2>1. n \in Nat /\ p \in Nat \X (0..n) /\ G[p] = F(n)[p]
    OBVIOUS
  <2>2. F(n) = [q \in Nat \X (0..n) |-> Body(F(n), q)]
    BY <1>1, <2>1 DEF WideOn
  <2> HIDE DEF Body
  <2>3. F(n)[p] = Body(F(n), p)
    BY <2>1, <2>2
  <2>4. ASSUME NEW q \in Nat \X Nat, q[2] < n PROVE F(n)[q] = G[q]
    <3>1. q[2] \in Nat /\ q[2] <= n /\ G[q] = F(q[2])[q]
      BY <2>1, <2>4
    <3>2. /\ WideOn(F(n), n, key, flags, ctr, bytes)
          /\ WideOn(F(q[2]), q[2], key, flags, ctr, bytes)
      BY <1>1, <2>1, <3>1
    <3>3. F(n)[q] = F(q[2])[q]
      BY <2>1, <3>1, <3>2, WideAgree
    <3> QED
      BY <3>1, <3>3
  <2> HIDE DEF G
  <2>5. Body(F(n), p) = Body(G, p)
    BY <2>4, WideLocal DEF Body
  <2> QED
    BY <2>1, <2>3, <2>5
<1>3. G = [p \in Nat \X Nat |-> G[p]]
  OBVIOUS
<1> HIDE DEF G, Body
<1>4. G = [p \in Nat \X Nat |-> Body(G, p)]
  BY <1>2, <1>3
<1> QED
  BY <1>4, Zenon DEF Wide, Body

\* The wide path with its parameters in the order of the nodes.
WideOf(key, flags, ctr, bytes) ==
  blake3_compress_subtree_wide(bytes, key, ctr, flags)

\* blake3_compress_subtree_wide is the array of the whole.
LEMMA WideOfIs ==
  ASSUME NEW key, NEW flags, NEW ctr, NEW bytes
  PROVE  WideOf(key, flags, ctr, bytes) =
           Wide(key, flags, ctr, bytes)[<<0, Len(bytes)>>]
  BY DEF WideOf, blake3_compress_subtree_wide, Wide, WideBody

WideAt(key, flags, ctr, bytes, lo, n) == Wide(key, flags, ctr, bytes)[<<lo, n>>]

\* The arrays of a part are arrays of the whole.
LEMMA WideShift ==
  ASSUME NEW key, NEW flags, NEW ctr \in Nat, NEW k \in Nat, NEW bytes,
         NEW part, NEW size \in Nat, PartFrom(k, bytes, part, size),
         NEW from \in Nat, NEW len \in Nat, from + len <= size
  PROVE  WideAt(key, flags, ctr + k, part, from, len) =
           WideAt(key, flags, ctr, bytes, At(k) + from, len)
<1> DEFINE off == At(k)
           g == Wide(key, flags, ctr + k, part)
           h == Wide(key, flags, ctr, bytes)
           Differ(n) == \E lo \in Nat : /\ lo + n <= size
                                        /\ g[<<lo, n>>] # h[<<off + lo, n>>]
           Bad == {n \in Nat : Differ(n)}
<1>1. off \in Nat
  BY AtFacts
<1>2. \A p \in Nat \X Nat : /\ g[p] = WideBody(g, key, flags, ctr + k, part, p)
                            /\ h[p] = WideBody(h, key, flags, ctr, bytes, p)
  BY WideIs
<1> HIDE DEF g, h
<1>3. Bad = {}
  <2> SUFFICES ASSUME Bad # {} PROVE FALSE
    OBVIOUS
  <2>1. PICK n \in Bad : \A m \in Bad : n <= m
    <3>1. Bad \subseteq Nat
      OBVIOUS
    <3> HIDE DEF Bad
    <3> QED
      BY <3>1, NatMin
  <2>2. n \in Nat
    OBVIOUS
  <2>3. PICK lo \in Nat : lo + n <= size /\ g[<<lo, n>>] # h[<<off + lo, n>>]
    OBVIOUS
  <2>4. ASSUME NEW m \in Nat, m < n, NEW a \in Nat, a + m <= size
        PROVE  g[<<a, m>>] = h[<<off + a, m>>]
    <3> SUFFICES ASSUME g[<<a, m>>] # h[<<off + a, m>>] PROVE FALSE
      OBVIOUS
    <3>1. m \in Bad
      BY <2>4
    <3> HIDE DEF Bad
    <3> QED
      BY <2>1, <2>2, <2>4, <3>1
  <2> HIDE DEF Bad, off
  <2>5. /\ <<lo, n>> \in Nat \X Nat /\ <<off + lo, n>> \in Nat \X Nat
        /\ <<lo, n>>[1] = lo /\ <<lo, n>>[2] = n
        /\ <<off + lo, n>>[1] = off + lo /\ <<off + lo, n>>[2] = n
    BY <1>1, <2>2
  <2>6. CASE n <= SIMD_DEGREE * CHUNK_LEN
    <3>1. /\ g[<<lo, n>>] =
               compress_chunks_parallel(SubSeq(part, lo + 1, lo + n), key,
                 (ctr + k) + (lo \div CHUNK_LEN), flags)
          /\ h[<<off + lo, n>>] =
               compress_chunks_parallel(
                 SubSeq(bytes, (off + lo) + 1, (off + lo) + n), key,
                 ctr + ((off + lo) \div CHUNK_LEN), flags)
      BY <1>2, <2>5, <2>6 DEF WideBody
    <3>2. (ctr + k) + (lo \div CHUNK_LEN) = ctr + ((off + lo) \div CHUNK_LEN)
      <4>1. /\ lo \div CHUNK_LEN \in Nat
            /\ (off + lo) \div CHUNK_LEN = k + (lo \div CHUNK_LEN)
        BY ChunkNumber DEF off, At
      <4> QED
        BY <4>1
    <3>3. SubSeq(part, lo + 1, lo + n) = SubSeq(bytes, (off + lo) + 1, (off + lo) + n)
      <4> DEFINE z == off + lo
      <4>1. z \in Nat
        BY <1>1
      <4>2. \A i \in 1..n : part[lo + i] = bytes[z + i]
        <5> TAKE i \in 1..n
        <5>1. lo + i \in 1..size /\ off + (lo + i) = z + i
          BY <1>1, <2>2, <2>3
        <5> QED
          BY <5>1 DEF off, PartFrom
      <4> HIDE DEF z
      <4>3. Part(part, lo, n) = Part(bytes, z, n)
        BY <4>2 DEF Part
      <4>4. SubSeq(part, lo + 1, lo + n) = SubSeq(bytes, z + 1, z + n)
        <5>1. SubSeq(part, lo + 1, lo + n) = Part(part, lo, n)
          BY <2>2, PartIsSlice
        <5>2. SubSeq(bytes, z + 1, z + n) = Part(bytes, z, n)
          BY <2>2, <4>1, PartIsSlice
        <5> QED
          BY <4>3, <5>1, <5>2
      <4> QED
        BY <4>4 DEF z
    <3> QED
      BY <2>3, <3>1, <3>2, <3>3
  <2>7. CASE ~ (n <= SIMD_DEGREE * CHUNK_LEN)
    <3> DEFINE left == left_len(n)
    <3>1. /\ left \in Nat /\ left < n /\ n - left \in Nat /\ n - left < n
          /\ lo + left \in Nat /\ (lo + left) + (n - left) <= size
          /\ lo + left <= size /\ off + (lo + left) = (off + lo) + left
      <4>1. left \in Nat /\ left < n /\ n - left \in Nat /\ n - left < n
        BY <2>2, <2>7, WideLeft
      <4> HIDE DEF left
      <4> QED
        BY <1>1, <2>2, <2>3, <4>1
    <3>2. /\ g[<<lo, n>>] =
               join_halves(g[<<lo, left>>], g[<<lo + left, n - left>>],
                           child_degree(left), key, flags)
          /\ h[<<off + lo, n>>] =
               join_halves(h[<<off + lo, left>>],
                           h[<<(off + lo) + left, n - left>>],
                           child_degree(left), key, flags)
      BY <1>2, <2>5, <2>7 DEF WideBody
    <3> HIDE DEF left
    <3>3. g[<<lo, left>>] = h[<<off + lo, left>>]
      BY <2>4, <3>1
    <3>4. g[<<lo + left, n - left>>] = h[<<(off + lo) + left, n - left>>]
      <4>1. g[<<lo + left, n - left>>] = h[<<off + (lo + left), n - left>>]
        BY <2>4, <3>1
      <4> QED
        BY <3>1, <4>1
    <3> QED
      BY <2>3, <3>2, <3>3, <3>4
  <2> QED
    BY <2>6, <2>7
<1> SUFFICES ASSUME g[<<from, len>>] # h[<<off + from, len>>] PROVE FALSE
  BY DEF g, h, WideAt
<1>4. len \in Bad
  OBVIOUS
<1> HIDE DEF Bad
<1> QED
  BY <1>3, <1>4

-----------------------------------------------------------------------------
(***************************************************************************)
(* The array of a subtree, in terms of its parts.                          *)
(***************************************************************************)
LEMMA WidePartLeaf ==
  ASSUME NEW key, NEW flags, NEW ctr \in Nat, NEW s, NEW lo \in Nat,
         NEW n \in Nat, n <= SIMD_DEGREE * CHUNK_LEN
  PROVE  WideOf(key, flags, ctr, Part(s, lo, n)) =
           compress_chunks_parallel(Part(s, lo, n), key, ctr, flags)
<1> DEFINE t == Part(s, lo, n)
           g == Wide(key, flags, ctr, t)
<1>1. IsSeq(t) /\ Len(t) = n
  BY PartIs
<1> HIDE DEF t
<1>2. <<0, n>> \in Nat \X Nat /\ <<0, n>>[1] = 0 /\ <<0, n>>[2] = n
  OBVIOUS
<1>3. g[<<0, n>>] = WideBody(g, key, flags, ctr, t, <<0, n>>)
  BY <1>2, WideIs
<1> HIDE DEF g
<1>4. g[<<0, n>>] = compress_chunks_parallel(SubSeq(t, 0 + 1, 0 + n), key,
                                             ctr + (0 \div CHUNK_LEN), flags)
  BY <1>2, <1>3 DEF WideBody
<1>5. ctr + (0 \div CHUNK_LEN) = ctr /\ 0 + 1 = 1 /\ 0 + n = n
  BY Lengths
<1>6. SubSeq(t, 1, n) = t
  BY <1>1, WholeSlice
<1> QED
  BY <1>1, <1>4, <1>5, <1>6, WideOfIs DEF g, t

WideSplits(key, flags, ctr, s, lo, n, c) ==
  WideOf(key, flags, ctr, Part(s, lo, n)) =
    join_halves(WideOf(key, flags, ctr, Part(s, lo, At(c))),
                WideOf(key, flags, ctr + c,
                       Part(s, lo + At(c), n - At(c))),
                child_degree(At(c)), key, flags)

\* The array of a subtree too large for the CPU joins those of its halves.
LEMMA WidePartSplit ==
  ASSUME NEW key, NEW flags, NEW ctr \in Nat, NEW s, NEW lo \in Nat,
         NEW n \in Nat, NEW c \in Nat, SplitsAt(c, n),
         ~ (n <= SIMD_DEGREE * CHUNK_LEN)
  PROVE  WideSplits(key, flags, ctr, s, lo, n, c)
<1> DEFINE left == At(c)
           t == Part(s, lo, n)
           u == Part(s, lo, left)
           v == Part(s, lo + left, n - left)
           g == Wide(key, flags, ctr, t)
<1>1. /\ left \in Nat /\ left < n /\ n - left \in Nat /\ n > CHUNK_LEN
      /\ left_len(n) = left
  <2>1. c > 0 /\ left \in Nat /\ left < n
    BY Pow2Positive, AtFacts DEF SplitsAt, At
  <2>2. CHUNK_LEN <= left
    <3>1. At(0) + CHUNK_LEN <= At(c)
      BY <2>1, AtFacts
    <3> QED
      BY <3>1, AtFacts, Lengths
  <2>3. left_len(n) = left
    <3> HIDE DEF left
    <3>1. n > CHUNK_LEN
      BY <2>1, <2>2, Lengths
    <3> USE DEF left
    <3> QED
      BY <3>1, LeftLenIs
  <2> QED
    BY <2>1, <2>2, <2>3, Lengths
<1>2. /\ IsSeq(t) /\ Len(t) = n /\ \A i \in 1..n : t[i] = s[lo + i]
      /\ IsSeq(u) /\ Len(u) = left /\ \A i \in 1..left : u[i] = s[lo + i]
      /\ IsSeq(v) /\ Len(v) = n - left
      /\ \A i \in 1..(n - left) : v[i] = s[(lo + left) + i]
  <2> HIDE DEF left
  <2>1. lo + left \in Nat /\ left \in Nat /\ n - left \in Nat
    BY <1>1
  <2>2. IsSeq(t) /\ Len(t) = n /\ \A i \in 1..n : t[i] = s[lo + i]
    BY PartIs
  <2>3. IsSeq(u) /\ Len(u) = left /\ \A i \in 1..left : u[i] = s[lo + i]
    BY <2>1, PartIs
  <2>4. /\ IsSeq(v) /\ Len(v) = n - left
        /\ \A i \in 1..(n - left) : v[i] = s[(lo + left) + i]
    BY <2>1, PartIs
  <2> QED
    BY <2>2, <2>3, <2>4
<1> HIDE DEF t, u, v
<1>3. /\ <<0, n>> \in Nat \X Nat /\ <<0, n>>[1] = 0 /\ <<0, n>>[2] = n
      /\ 0 + left = left
  BY <1>1, Lengths
<1>4. g[<<0, n>>] = WideBody(g, key, flags, ctr, t, <<0, n>>)
  BY <1>3, WideIs
<1> HIDE DEF g
<1>5. g[<<0, n>>] = join_halves(g[<<0, left>>], g[<<left, n - left>>],
                                child_degree(left), key, flags)
  <2>1. left_len(n) = left
    BY <1>1
  <2> HIDE DEF left
  <2>2. WideBody(g, key, flags, ctr, t, <<0, n>>) =
          join_halves(g[<<0, left>>], g[<<0 + left, n - left>>],
                      child_degree(left), key, flags)
    BY <1>3, <2>1 DEF WideBody
  <2> QED
    BY <1>3, <1>4, <2>2
<1> DEFINE z == 0
           m == n - left
<1>6. /\ z \in Nat /\ At(z) + z = 0 /\ left + z = left /\ ctr + z = ctr
      /\ m \in Nat /\ z + left <= left /\ z + m <= m
      /\ \A i \in 1..left : At(z) + i = i
  <2>1. At(z) = 0
    BY AtFacts
  <2> HIDE DEF left
  <2> QED
    BY <1>1, <2>1
<1> HIDE DEF z, m
<1>7. Wide(key, flags, ctr, u)[<<z, left>>] = g[<<0, left>>]
  <2>1. \A i \in 1..left : u[i] = t[At(z) + i]
    <3> TAKE i \in 1..left
    <3>1. i \in 1..n
      BY <1>1
    <3> QED
      BY <1>2, <1>6, <3>1
  <2>0. PartFrom(z, t, u, left)
    BY <2>1 DEF PartFrom
  <2> HIDE DEF left
  <2>2. Wide(key, flags, ctr + z, u)[<<z, left>>] = g[<<At(z) + z, left>>]
    <3>1. z + left <= left /\ left \in Nat /\ z \in Nat
      BY <1>1, <1>6
    <3>2. WideAt(key, flags, ctr + z, u, z, left) =
            WideAt(key, flags, ctr, t, At(z) + z, left)
      BY <2>0, <3>1, WideShift
    <3> QED
      BY <3>2 DEF g, WideAt
  <2> QED
    BY <1>6, <2>2
<1>8. Wide(key, flags, ctr + c, v)[<<z, m>>] = g[<<left, m>>]
  <2>1. \A i \in 1..m : v[i] = t[At(c) + i]
    <3> TAKE i \in 1..m
    <3> HIDE DEF left
    <3>1. /\ left + i \in 1..n /\ (lo + left) + i = lo + (left + i)
          /\ i \in 1..(n - left)
      BY <1>1 DEF m
    <3>2. v[i] = t[left + i]
      BY <1>2, <3>1
    <3> QED
      BY <3>2 DEF left
  <2>0. PartFrom(c, t, v, m)
    BY <2>1 DEF PartFrom
  <2>2. Wide(key, flags, ctr + c, v)[<<z, m>>] = g[<<At(c) + z, m>>]
    <3>1. z + m <= m /\ m \in Nat /\ z \in Nat
      BY <1>6
    <3>2. WideAt(key, flags, ctr + c, v, z, m) =
            WideAt(key, flags, ctr, t, At(c) + z, m)
      BY <2>0, <3>1, WideShift
    <3> QED
      BY <3>2 DEF g, WideAt
  <2> QED
    BY <1>6, <2>2
<1>9. /\ WideOf(key, flags, ctr, t) = g[<<0, n>>]
      /\ WideOf(key, flags, ctr, u) = g[<<0, left>>]
      /\ WideOf(key, flags, ctr + c, v) = g[<<left, n - left>>]
  <2> HIDE DEF left
  <2> QED
    BY <1>2, <1>7, <1>8, WideOfIs DEF g, z, m
<1> HIDE DEF left
<1> QED
  BY <1>5, <1>9 DEF WideSplits, t, u, v, left

-----------------------------------------------------------------------------
(***************************************************************************)
(* hash_one over the blocks of a full chunk is the chaining value of that  *)
(* chunk.                                                                  *)
(***************************************************************************)
BlocksOfChunk == CHUNK_LEN \div BLOCK_LEN

\* A full chunk holds every block but the last one compressed.
LEMMA FullChunk ==
  /\ BlocksOfChunk \in Nat /\ BlocksOfChunk > 0
  /\ BlocksOfChunk * BLOCK_LEN = CHUNK_LEN
  /\ direct_blocks(CHUNK_LEN) = BlocksOfChunk - 1
  /\ (BlocksOfChunk - 1) * BLOCK_LEN \in Nat
  /\ (BlocksOfChunk - 1) * BLOCK_LEN + BLOCK_LEN = CHUNK_LEN
<1> DEFINE n == CHUNK_LEN \div BLOCK_LEN
           r == CHUNK_LEN % BLOCK_LEN
<1>1. /\ n \in Nat /\ r = 0 /\ CHUNK_LEN = BLOCK_LEN * n + r
      /\ BLOCK_LEN \in Nat /\ BLOCK_LEN > 0 /\ CHUNK_LEN \in Nat
      /\ CHUNK_LEN > 0
  BY LenAssumption
<1> HIDE DEF n, r
<1>2. n > 0
  BY <1>1
<1>3. /\ n * BLOCK_LEN = CHUNK_LEN /\ (n - 1) * BLOCK_LEN \in Nat
      /\ (n - 1) * BLOCK_LEN + BLOCK_LEN = CHUNK_LEN
  <2>1. n - 1 \in Nat /\ (n - 1) * BLOCK_LEN = n * BLOCK_LEN - BLOCK_LEN
    BY <1>1, <1>2
  <2>2. \A x \in Nat : x * BLOCK_LEN \in Nat
    BY <1>1
  <2> QED
    BY <1>1, <2>1, <2>2
<1>4. direct_blocks(CHUNK_LEN) = n - 1
  <2> DEFINE d == n - 1
  <2>1. d \in Nat /\ d * BLOCK_LEN < CHUNK_LEN /\ CHUNK_LEN <= d * BLOCK_LEN + BLOCK_LEN
    BY <1>1, <1>2, <1>3
  <2> HIDE DEF d
  <2> QED
    BY <1>1, <2>1, DirectBlocksIs DEF d
<1> QED
  BY <1>1, <1>2, <1>3, <1>4 DEF BlocksOfChunk, n

\* The blocks of a chunk, as hash_one takes them from the input.
LEMMA ChunkBlocks ==
  ASSUME NEW in, NEW from \in Nat, NEW b \in 1..BlocksOfChunk
  PROVE  chunk_blocks(in, from)[b] = BlockOf(Part(in, from, CHUNK_LEN), b)
<1> DEFINE x == (b - 1) * BLOCK_LEN
           p == Part(in, from, CHUNK_LEN)
           a == from + x
<1>1. /\ x \in Nat /\ x + BLOCK_LEN <= CHUNK_LEN /\ b * BLOCK_LEN = x + BLOCK_LEN
      /\ BLOCK_LEN \in Nat /\ CHUNK_LEN \in Nat
  <2>1. /\ b - 1 \in Nat /\ BlocksOfChunk - b \in Nat /\ b \in Nat
        /\ BlocksOfChunk = b + (BlocksOfChunk - b)
    BY FullChunk
  <2>2. /\ (b - 1) * BLOCK_LEN \in Nat /\ b * BLOCK_LEN = (b - 1) * BLOCK_LEN + BLOCK_LEN
        /\ (BlocksOfChunk - b) * BLOCK_LEN \in Nat /\ b * BLOCK_LEN \in Nat
        /\ BlocksOfChunk * BLOCK_LEN = b * BLOCK_LEN + (BlocksOfChunk - b) * BLOCK_LEN
    BY <2>1, Lengths
  <2> QED
    BY <2>2, FullChunk, Lengths
<1>2. chunk_blocks(in, from)[b] = DataBlock(SubSeq(in, from + x + 1, from + b * BLOCK_LEN))
  BY DEF chunk_blocks, BlocksOfChunk
<1>3. BlockOf(p, b) = DataBlock(SubSeq(p, x + 1, b * BLOCK_LEN))
  BY DEF BlockOf
<1> HIDE DEF x, p
<1>4. a \in Nat /\ from + b * BLOCK_LEN = a + BLOCK_LEN
  BY <1>1
<1>5. SubSeq(in, from + x + 1, from + b * BLOCK_LEN) = SubSeq(in, a + 1, a + BLOCK_LEN)
  BY <1>4
<1> HIDE DEF a
<1>6. SubSeq(in, a + 1, a + BLOCK_LEN) = Part(in, a, BLOCK_LEN)
  BY <1>1, <1>4, PartIsSlice
<1>7. SubSeq(p, x + 1, x + BLOCK_LEN) = Part(p, x, BLOCK_LEN)
  BY <1>1, PartIsSlice
<1>8. Part(p, x, BLOCK_LEN) = Part(in, a, BLOCK_LEN)
  BY <1>1, PartOfPart DEF p, a
<1> QED
  BY <1>1, <1>2, <1>3, <1>5, <1>6, <1>7, <1>8 DEF p

HashFlags(flags, start, end, n) ==
  [b \in 1..n |-> flags \cup (IF b = 1 THEN start ELSE {})
                        \cup (IF b = n THEN end ELSE {})]

\* hash_one chains the blocks, with the first and the last block flagged.
LEMMA HashOneIs ==
  ASSUME NEW n \in Nat, NEW in, Len(in) = n, NEW key, NEW ctr,
         NEW flags, NEW start, NEW end
  PROVE  \E g : /\ ChainOn(g, n, key, in, HashFlags(flags, start, end, n), ctr)
                /\ hash_one(in, key, ctr, flags, start, end) = g[n]
<1> DEFINE F == HashFlags(flags, start, end, n)
           g == CHOOSE x : x = [b \in 0..n |->
                  IF b = 0 THEN key
                  ELSE compress(x[b-1], in[b], BLOCK_LEN, ctr,
                                flags \cup (IF b = 1 THEN start ELSE {})
                                      \cup (IF b = n THEN end ELSE {}))]
<1>1. hash_one(in, key, ctr, flags, start, end) = g[n]
  BY DEF hash_one
<1>2. ASSUME NEW x
      PROVE  ChainOn(x, n, key, in, F, ctr) <=>
               x = [b \in 0..n |->
                  IF b = 0 THEN key
                  ELSE compress(x[b-1], in[b], BLOCK_LEN, ctr,
                                flags \cup (IF b = 1 THEN start ELSE {})
                                      \cup (IF b = n THEN end ELSE {}))]
  <2>1. \A i \in 0..n : i # 0 => i \in 1..n
    OBVIOUS
  <2>2. \A b \in 1..n : F[b] = flags \cup (IF b = 1 THEN start ELSE {})
                                     \cup (IF b = n THEN end ELSE {})
    BY DEF HashFlags
  <2> HIDE DEF F
  <2> DEFINE G(i) == IF i = 0 THEN key
                     ELSE compress(x[i-1], in[i], BLOCK_LEN, ctr, F[i])
             H(i) == IF i = 0 THEN key
                     ELSE compress(x[i-1], in[i], BLOCK_LEN, ctr,
                            flags \cup (IF i = 1 THEN start ELSE {})
                                  \cup (IF i = n THEN end ELSE {}))
  <2>3. \A i \in 0..n : G(i) = H(i)
    <3> TAKE i \in 0..n
    <3>1. CASE i = 0
      BY <3>1
    <3>2. CASE i # 0
      <4>1. F[i] = flags \cup (IF i = 1 THEN start ELSE {})
                         \cup (IF i = n THEN end ELSE {})
        BY <2>1, <2>2, <3>2
      <4> QED
        BY <3>2, <4>1
    <3> QED
      BY <3>1, <3>2
  <2>4. ChainOn(x, n, key, in, F, ctr) <=> x = [i \in 0..n |-> G(i)]
    BY DEF ChainOn
  <2> HIDE DEF G, H
  <2>5. [i \in 0..n |-> G(i)] = [i \in 0..n |-> H(i)]
    BY <2>3
  <2> QED
    BY <2>4, <2>5 DEF H
<1>3. \E x : ChainOn(x, n, key, in, F, ctr)
  BY ChainExists
<1>4. ChainOn(g, n, key, in, F, ctr)
  BY <1>2, <1>3
<1> HIDE DEF g, F
<1> QED
  BY <1>1, <1>4 DEF F

\* So one input of hash_many yields the value of its chunk.
LEMMA ChunkHash ==
  ASSUME NEW in, NEW from \in Nat, NEW key, NEW flags, NEW ctr
  PROVE  hash_one(chunk_blocks(in, from), key, ctr, flags, {"CHUNK_START"},
                  {"CHUNK_END"}) =
           output_chaining_value(
             ChunkOutput(key, flags, ctr, Part(in, from, CHUNK_LEN)))
<1> DEFINE n == BlocksOfChunk
           d == n - 1
           p == Part(in, from, CHUNK_LEN)
           blocks == chunk_blocks(in, from)
           F == HashFlags(flags, {"CHUNK_START"}, {"CHUNK_END"}, n)
<1>1. /\ n \in Nat /\ n > 0 /\ d \in Nat /\ d + 1 = n
      /\ direct_blocks(CHUNK_LEN) = d /\ d * BLOCK_LEN \in Nat
      /\ d * BLOCK_LEN + BLOCK_LEN = CHUNK_LEN /\ n * BLOCK_LEN = CHUNK_LEN
  BY FullChunk
<1>2. IsSeq(p) /\ Len(p) = CHUNK_LEN
  BY PartIs, Lengths
<1>3. Len(blocks) = n
  <2>1. blocks = [b \in 1..n |-> blocks[b]]
    BY DEF chunk_blocks, BlocksOfChunk
  <2> HIDE DEF blocks
  <2> QED
    BY <1>1, <2>1, SeqOf
<1>4. \A b \in 1..n : blocks[b] = BlockOf(p, b)
  BY ChunkBlocks
<1>5. /\ \A b \in 1..d : F[b] = flags \cup maybe_start_flag(b - 1)
      /\ F[n] = flags \cup maybe_start_flag(d) \cup {"CHUNK_END"}
  <2> HIDE DEF n
  <2>1. \A b \in 1..n : F[b] = flags \cup (IF b = 1 THEN {"CHUNK_START"} ELSE {})
                                     \cup (IF b = n THEN {"CHUNK_END"} ELSE {})
    BY DEF HashFlags
  <2> HIDE DEF F
  <2> QED
    BY <1>1, <2>1 DEF maybe_start_flag
<1> HIDE DEF n, p, blocks, F
<1>6. PICK g : /\ ChainOn(g, n, key, blocks, F, ctr)
               /\ hash_one(blocks, key, ctr, flags, {"CHUNK_START"}, {"CHUNK_END"}) = g[n]
  BY <1>1, <1>3, HashOneIs DEF F
<1>7. g[n] = compress(g[d], BlockOf(p, n), BLOCK_LEN, ctr, F[n])
  <2>1. n \in 0..n /\ n # 0 /\ n - 1 = d /\ n \in 1..n
    BY <1>1
  <2> QED
    BY <1>4, <1>6, <2>1 DEF ChainOn
<1>8. g[d] = BlockCV(key, flags, ctr, p, d)
  <2> DEFINE h == [i \in 0..d |-> g[i]]
             z == 0
  <2>1. ChainOn(h, d, key, blocks, F, ctr)
    <3>1. \A i \in 0..d : i \in 0..n /\ (i # 0 => i - 1 \in 0..d)
      BY <1>1
    <3>2. \A i \in 0..d : h[i] = IF i = 0 THEN key
                                 ELSE compress(h[i-1], blocks[i], BLOCK_LEN, ctr, F[i])
      BY <1>6, <3>1 DEF ChainOn
    <3>3. h = [i \in 0..d |-> h[i]]
      OBVIOUS
    <3> HIDE DEF h
    <3> QED
      BY <3>2, <3>3 DEF ChainOn
  <2>2. h[d] = g[d]
    BY <1>1
  <2> HIDE DEF h, d
  <2>3. z \in Nat /\ BlockCV(key, flags, ctr, p, z) = key /\ z + d = d
    BY <1>1, BlockCVStart
  <2>4. \A i \in 1..d : /\ blocks[i] = BlockOf(p, z + i)
                        /\ F[i] = flags \cup maybe_start_flag(z + i - 1)
    <3> TAKE i \in 1..d
    <3>1. i \in 1..n /\ z + i = i /\ z + i - 1 = i - 1
      BY <1>1
    <3> HIDE DEF z
    <3> QED
      BY <1>4, <1>5, <3>1
  <2> HIDE DEF z
  <2>5. ChainOn(h, d, BlockCV(key, flags, ctr, p, z), blocks, F, ctr)
    BY <2>1, <2>3
  <2>6. h[d] = BlockCV(key, flags, ctr, p, z + d)
    BY <1>1, <2>3, <2>4, <2>5, ChainFollows
  <2> QED
    BY <2>2, <2>3, <2>6
<1>9. BlockOf(p, n) = DataBlock(LastBuf(p))
  <2> DEFINE x == d * BLOCK_LEN
  <2>1. BlockOf(p, n) = DataBlock(SubSeq(p, x + 1, x + BLOCK_LEN))
    BY <1>1 DEF BlockOf
  <2>2. x \in Nat /\ x + BLOCK_LEN = CHUNK_LEN /\ BLOCK_LEN \in Nat
    BY <1>1, Lengths
  <2>3. LastBuf(p) = [i \in 1..BLOCK_LEN |-> IF x + i <= CHUNK_LEN THEN p[x + i] ELSE Zero]
    BY <1>1, <1>2 DEF LastBuf
  <2> HIDE DEF x
  <2>4. SubSeq(p, x + 1, x + BLOCK_LEN) = Part(p, x, BLOCK_LEN)
    BY <2>2, PartIsSlice
  <2>5. \A i \in 1..BLOCK_LEN : x + i <= CHUNK_LEN
    BY <2>2
  <2> QED
    BY <2>1, <2>3, <2>4, <2>5 DEF Part
<1>10. output_chaining_value(ChunkOutput(key, flags, ctr, p)) =
         compress(BlockCV(key, flags, ctr, p, d), DataBlock(LastBuf(p)),
                  BLOCK_LEN, ctr,
                  flags \cup maybe_start_flag(d) \cup {"CHUNK_END"})
  <2> DEFINE c == Holds(key, flags, ctr, p)
             o == chunk_state_output(c)
  <2>1. /\ c.cv = BlockCV(key, flags, ctr, p, d) /\ c.chunk_counter = ctr
        /\ c.buf = LastBuf(p) /\ c.buf_len = CHUNK_LEN - d * BLOCK_LEN
        /\ c.blocks_compressed = d /\ c.flags = flags
    BY <1>1, <1>2, HoldsFields
  <2>2. CHUNK_LEN - d * BLOCK_LEN = BLOCK_LEN
    BY <1>1, Lengths
  <2>3. ChunkOutput(key, flags, ctr, p) = o
    BY <1>2, OutputHolds
  <2> HIDE DEF c, d
  <2>4. o = make_output(BlockCV(key, flags, ctr, p, d), DataBlock(LastBuf(p)),
                        BLOCK_LEN, ctr,
                        flags \cup maybe_start_flag(d) \cup {"CHUNK_END"})
    BY <2>1, <2>2 DEF chunk_state_output
  <2> QED
    BY <2>3, <2>4 DEF output_chaining_value, make_output
<1> QED
  BY <1>5, <1>6, <1>7, <1>8, <1>9, <1>10 DEF p, blocks

-----------------------------------------------------------------------------
(***************************************************************************)
(* A row of the tree: w subtrees of `size` chunks each, side by side.      *)
(***************************************************************************)
SubtreeCV(key, flags, ctr, s, lo, k, size) ==
  NodeCV(key, flags, ctr + k, Part(s, lo + At(k), At(size)))

Place(i, size) == (i - 1) * size

Row(key, flags, ctr, s, lo, size, w) ==
  [i \in 1..w |-> SubtreeCV(key, flags, ctr, s, lo, Place(i, size), size)]

\* The elements of a row.
LEMMA RowIs ==
  ASSUME NEW key, NEW flags, NEW ctr, NEW s, NEW lo, NEW size, NEW w \in Nat
  PROVE  LET r == Row(key, flags, ctr, s, lo, size, w)
         IN  /\ IsSeq(r) /\ Len(r) = w
             /\ \A i \in 1..w :
                  r[i] = SubtreeCV(key, flags, ctr, s, lo, Place(i, size), size)
<1> DEFINE r == Row(key, flags, ctr, s, lo, size, w)
<1>1. /\ r = [i \in 1..w |-> r[i]]
      /\ \A i \in 1..w :
           r[i] = SubtreeCV(key, flags, ctr, s, lo, Place(i, size), size)
  BY DEF Row
<1> HIDE DEF r
<1>2. IsSeq(r) /\ Len(r) = w
  BY <1>1, SeqOf
<1> QED
  BY <1>1, <1>2 DEF r

\* A sequence with the elements of a row is that row.
LEMMA IsRow ==
  ASSUME NEW key, NEW flags, NEW ctr, NEW s, NEW lo, NEW size, NEW w \in Nat,
         NEW t, IsSeq(t), Len(t) = w,
         \A i \in 1..w :
           t[i] = SubtreeCV(key, flags, ctr, s, lo, Place(i, size), size)
  PROVE  t = Row(key, flags, ctr, s, lo, size, w)
<1> DEFINE r == Row(key, flags, ctr, s, lo, size, w)
<1>1. /\ IsSeq(r) /\ Len(r) = w
      /\ \A i \in 1..w :
           r[i] = SubtreeCV(key, flags, ctr, s, lo, Place(i, size), size)
  BY RowIs
<1> HIDE DEF r
<1>2. t = r
  BY <1>1, SameSeq
<1> QED
  BY <1>2 DEF r

\* Places in a row of 2h elements.
LEMMA Places ==
  ASSUME NEW i \in Nat, i > 0, NEW size \in Nat
  PROVE  /\ Place(i, size) \in Nat
         /\ Place(2 * i - 1, size) = Place(i, 2 * size)
         /\ Place(2 * i, size) = Place(i, 2 * size) + size
         /\ Place(1, size) = 0 /\ Place(2, size) = size
         /\ Place(i, 1) = i - 1
  BY DEF Place

\* Twice a positive number is larger than it.
LEMMA Double ==
  ASSUME NEW c, IsPow2(c)
  PROVE  /\ c \in Nat /\ c > 0 /\ 2 * c \in Nat /\ IsPow2(2 * c)
         /\ At(c) \in Nat /\ At(2 * c) \in Nat
         /\ At(2 * c) - At(c) = At(c) /\ SplitsAt(c, At(2 * c))
<1>1. c \in Nat /\ c > 0 /\ 2 * c \in Nat /\ IsPow2(2 * c) /\ 2 * c = c + c
  BY Pow2Positive, Pow2Double
<1>2. /\ At(c + c) = At(c) + At(c) /\ At(c) \in Nat
      /\ At(0) = 0 /\ At(0) + CHUNK_LEN <= At(c)
  BY <1>1, AtFacts
<1>3. At(2 * c) = At(c) + At(c) /\ At(c) > 0
  BY <1>1, <1>2, Lengths
<1>4. SplitsAt(c, At(2 * c))
  <2>1. c * CHUNK_LEN < At(2 * c)
    BY <1>2, <1>3 DEF At
  <2>2. At(2 * c) <= 2 * c * CHUNK_LEN
    BY <1>2, <1>3 DEF At
  <2> QED
    BY <1>1, <2>1, <2>2 DEF SplitsAt
<1> QED
  BY <1>1, <1>2, <1>3, <1>4

\* Two subtrees of c chunks, side by side, under one parent.
LEMMA SubtreesJoin ==
  ASSUME NEW key, NEW flags, NEW ctr \in Nat, NEW s, NEW lo \in Nat,
         NEW k \in Nat, NEW c, IsPow2(c)
  PROVE  parent_cv(SubtreeCV(key, flags, ctr, s, lo, k, c),
                   SubtreeCV(key, flags, ctr, s, lo, k + c, c), key, flags) =
           SubtreeCV(key, flags, ctr, s, lo, k, 2 * c)
<1> DEFINE a == ctr + k
           x == lo + At(k)
           n == At(2 * c)
           left == At(c)
<1>1. /\ c \in Nat /\ n \in Nat /\ left \in Nat /\ SplitsAt(c, n)
      /\ n - left = left
  BY Double
<1>2. /\ a \in Nat /\ x \in Nat /\ a + c = ctr + (k + c)
      /\ x + left = lo + At(k + c)
  <2>1. At(k) \in Nat /\ At(k + c) = At(k) + At(c)
    BY <1>1, AtFacts
  <2> HIDE DEF left
  <2>2. a \in Nat /\ x \in Nat /\ a + c = ctr + (k + c)
    BY <1>1, <2>1
  <2>3. x + left = lo + (At(k) + left)
    BY <1>1, <2>1
  <2> QED
    BY <2>1, <2>2, <2>3 DEF left
<1> HIDE DEF a, x, n, left
<1>3. NodeOutput(key, flags, a, Part(s, x, n)) =
        parent_output(ParentBlock(NodeCV(key, flags, a, Part(s, x, left)),
                                  NodeCV(key, flags, a + c,
                                         Part(s, x + left, n - left))),
                      key, flags)
  <2>1. NodeSplits(key, flags, a, s, x, n, c)
    BY <1>1, <1>2, PartSplit
  <2> QED
    BY <2>1 DEF NodeSplits, left
<1>4. NodeCV(key, flags, a, Part(s, x, n)) =
        parent_cv(NodeCV(key, flags, a, Part(s, x, left)),
                  NodeCV(key, flags, a + c, Part(s, x + left, left)),
                  key, flags)
  BY <1>1, <1>3 DEF NodeCV, parent_cv
<1> QED
  BY <1>2, <1>4 DEF SubtreeCV, a, x, n, left

\* A row with nothing appended.
LEMMA NothingAppended ==
  ASSUME NEW s, IsSeq(s)
  PROVE  s \o <<>> = s
<1> DEFINE t == s \o <<>>
<1>1. Len(s) \in Nat /\ IsSeq(<<>>) /\ Len(<<>>) = 0 /\ Len(s) + 0 = Len(s)
  BY EmptyIs DEF IsSeq
<1>2. /\ IsSeq(t) /\ Len(t) = Len(s)
      /\ \A i \in 1..Len(s) : t[i] = IF i <= Len(s) THEN s[i] ELSE <<>>[i - Len(s)]
  BY <1>1, ConcatIs
<1> HIDE DEF t
<1>3. \A i \in 1..Len(s) : t[i] = s[i]
  BY <1>1, <1>2
<1>4. t = s
  BY <1>2, <1>3, SameSeq
<1> QED
  BY <1>4 DEF t

\* An even number of values leaves none without a partner.
LEMMA NothingLeft ==
  ASSUME NEW s, NEW n \in Nat
  PROVE  SubSeq(s, n + 1, n) = <<>>
<1> DEFINE t == SubSeq(s, n + 1, n)
<1>1. n <= n /\ n - n = 0
  OBVIOUS
<1>2. IsSeq(t) /\ Len(t) = n - n
  BY <1>1, SliceIs
<1> HIDE DEF t
<1> QED
  BY <1>1, <1>2, EmptyIs DEF t

\* hash_one over two chaining values is the value of their parent.
LEMMA ParentHash ==
  ASSUME NEW left, NEW right, NEW key, NEW flags
  PROVE  hash_one(<<ParentBlock(left, right)>>, key, 0, flags \cup {"PARENT"},
                  {}, {}) = parent_cv(left, right, key, flags)
<1> DEFINE in == <<ParentBlock(left, right)>>
           f == flags \cup {"PARENT"}
           n == 1
           F == HashFlags(f, {}, {}, n)
<1>1. Len(in) = n /\ in[1] = ParentBlock(left, right) /\ n \in Nat
  OBVIOUS
<1>2. F[1] = f
  BY DEF HashFlags
<1> HIDE DEF in, f, F, n
<1>3. PICK g : ChainOn(g, n, key, in, F, 0) /\ hash_one(in, key, 0, f, {}, {}) = g[n]
  <2>1. \E g : /\ ChainOn(g, n, key, in, HashFlags(f, {}, {}, n), 0)
               /\ hash_one(in, key, 0, f, {}, {}) = g[n]
    BY <1>1, HashOneIs
  <2> QED
    BY <2>1 DEF F
<1>4. g[1] = compress(g[0], in[1], BLOCK_LEN, 0, F[1]) /\ g[0] = key
  BY <1>3 DEF ChainOn, n
<1>5. hash_one(in, key, 0, f, {}, {}) =
        compress(key, ParentBlock(left, right), BLOCK_LEN, 0, f)
  BY <1>1, <1>2, <1>3, <1>4 DEF n
<1> QED
  BY <1>5 DEF in, f, parent_cv, parent_output, output_chaining_value, make_output

-----------------------------------------------------------------------------
\* An element of a row.
LEMMA RowElement ==
  ASSUME NEW key, NEW flags, NEW ctr, NEW s, NEW lo, NEW size, NEW w \in Nat,
         NEW i \in 1..w
  PROVE  Row(key, flags, ctr, s, lo, size, w)[i] =
           SubtreeCV(key, flags, ctr, s, lo, Place(i, size), size)
  BY DEF Row

\* compress_parents_parallel over a row is the row of the parents.
LEMMA ParentsRow ==
  ASSUME NEW key, NEW flags, NEW ctr \in Nat, NEW s, NEW lo \in Nat,
         NEW size, IsPow2(size), NEW w \in Nat
  PROVE  compress_parents_parallel(
           Row(key, flags, ctr, s, lo, size, 2 * w), key, flags) =
             Row(key, flags, ctr, s, lo, 2 * size, w)
<1> DEFINE n == 2 * w
           cvs == Row(key, flags, ctr, s, lo, size, n)
           array == [i \in 1..w |-> <<ParentBlock(cvs[2*i - 1], cvs[2*i])>>]
           f == flags \cup {"PARENT"}
           t == hash_many(array, key, 0, FALSE, f, {}, {})
           C(k, z) == SubtreeCV(key, flags, ctr, s, lo, k, z)
<1>1. n \in Nat /\ n \div 2 = w /\ 2 * (n \div 2) = n /\ size \in Nat
  BY Double
<1>2. Len(cvs) = n /\ \A i \in 1..n : cvs[i] = C(Place(i, size), size)
  BY <1>1, RowIs
<1> HIDE DEF cvs, C
<1>3. compress_parents_parallel(cvs, key, flags) = t \o SubSeq(cvs, n + 1, n)
  <2> HIDE DEF n
  <2> QED
    BY <1>1, <1>2 DEF compress_parents_parallel
<1>4. Len(array) = w
  <2>1. array = [i \in 1..w |-> array[i]]
    OBVIOUS
  <2> HIDE DEF array
  <2> QED
    BY <2>1, SeqOf
<1>5. \A i \in 1..w : array[i] = <<ParentBlock(cvs[2*i - 1], cvs[2*i])>>
  OBVIOUS
<1> HIDE DEF array
<1>6. IsSeq(t) /\ Len(t) = w
  <2>1. t = [i \in 1..w |-> t[i]]
    BY <1>4 DEF hash_many
  <2> HIDE DEF t
  <2> QED
    BY <2>1, SeqOf
<1>7. \A i \in 1..w : t[i] = hash_one(array[i], key, 0, f, {}, {})
  BY <1>4 DEF hash_many
<1> HIDE DEF t
<1>8. ASSUME NEW i \in 1..w PROVE t[i] = C(Place(i, 2 * size), 2 * size)
  <2> DEFINE a == 2 * i - 1
             b == 2 * i
             k == Place(i, 2 * size)
  <2>1. a \in 1..n /\ b \in 1..n /\ i \in Nat /\ i > 0
    BY <1>1
  <2>2. Place(a, size) = k /\ Place(b, size) = k + size /\ k \in Nat
    <3>1. 2 * size \in Nat
      BY <1>1
    <3> QED
      BY <1>1, <2>1, <3>1, Places
  <2>3. array[i] = <<ParentBlock(cvs[a], cvs[b])>>
    BY <1>5
  <2> HIDE DEF a, b, k, n
  <2>4. cvs[a] = C(k, size) /\ cvs[b] = C(k + size, size)
    BY <1>2, <2>1, <2>2
  <2>5. t[i] = parent_cv(C(k, size), C(k + size, size), key, flags)
    BY <1>7, <2>3, <2>4, ParentHash DEF f
  <2>6. parent_cv(C(k, size), C(k + size, size), key, flags) = C(k, 2 * size)
    BY <2>2, SubtreesJoin DEF C
  <2> QED
    BY <2>5, <2>6 DEF k
<1>9. t = Row(key, flags, ctr, s, lo, 2 * size, w)
  <2> DEFINE z == 2 * size
  <2>1. \A i \in 1..w : t[i] = SubtreeCV(key, flags, ctr, s, lo, Place(i, z), z)
    BY <1>8 DEF C
  <2> HIDE DEF z
  <2>2. t = Row(key, flags, ctr, s, lo, z, w)
    BY <1>6, <2>1, IsRow
  <2> QED
    BY <2>2 DEF z
<1>10. compress_parents_parallel(cvs, key, flags) = t
  <2>1. SubSeq(cvs, n + 1, n) = <<>>
    BY <1>1, NothingLeft
  <2>2. t \o <<>> = t
    BY <1>6, NothingAppended
  <2> QED
    BY <1>3, <2>1, <2>2
<1> QED
  BY <1>9, <1>10 DEF cvs

\* compress_chunks_parallel over whole chunks is the row of their values.
LEMMA ChunksRow ==
  ASSUME NEW key, NEW flags, NEW ctr \in Nat, NEW s, NEW lo \in Nat,
         NEW m \in Nat
  PROVE  compress_chunks_parallel(Part(s, lo, At(m)), key, ctr, flags) =
           Row(key, flags, ctr, s, lo, 1, m)
<1> DEFINE n == At(m)
           in == Part(s, lo, n)
           array == [i \in 1..m |-> chunk_blocks(in, (i - 1) * CHUNK_LEN)]
           t == hash_many(array, key, ctr, TRUE, flags, {"CHUNK_START"},
                          {"CHUNK_END"})
           full == Len(in) \div CHUNK_LEN
           rest == SubSeq(in, full * CHUNK_LEN + 1, Len(in))
<1>1. n \in Nat /\ full = m /\ Len(in) = n /\ IsSeq(in) /\ m * CHUNK_LEN = n
  <2>1. n \in Nat
    BY AtFacts
  <2>2. IsSeq(in) /\ Len(in) = n
    BY <2>1, PartIs
  <2>3. n = m * CHUNK_LEN
    BY DEF At
  <2> HIDE DEF n, in
  <2> DEFINE z == 0
  <2>4. z \in Nat /\ n = m * CHUNK_LEN + z /\ z < CHUNK_LEN
    BY <2>1, <2>3, Lengths
  <2> HIDE DEF z
  <2>5. n \div CHUNK_LEN = m
    BY <2>1, <2>4, DivisionIs, Lengths
  <2> QED
    BY <2>1, <2>2, <2>3, <2>5
<1>2. rest = <<>>
  <2> HIDE DEF n, in, full
  <2>1. SubSeq(in, n + 1, n) = <<>>
    BY <1>1, NothingLeft
  <2> QED
    BY <1>1, <2>1
<1>3. compress_chunks_parallel(in, key, ctr, flags) = t \o <<>>
  <2> HIDE DEF n, in, rest
  <2>1. compress_chunks_parallel(in, key, ctr, flags) =
          hash_many([i \in 1..full |-> chunk_blocks(in, (i - 1) * CHUNK_LEN)],
                    key, ctr, TRUE, flags, {"CHUNK_START"}, {"CHUNK_END"})
          \o (IF rest = <<>> THEN <<>> ELSE
                <<output_chaining_value(chunk_state_output(chunk_state_update(
                    fresh_chunk_state(key, flags, ctr + full), rest)))>>)
    BY DEF compress_chunks_parallel, rest
  <2> HIDE DEF full
  <2> QED
    BY <1>1, <1>2, <2>1
<1>4. Len(array) = m
  <2>1. array = [i \in 1..m |-> array[i]]
    OBVIOUS
  <2> HIDE DEF array
  <2> QED
    BY <2>1, SeqOf
<1>5. \A i \in 1..m : array[i] = chunk_blocks(in, (i - 1) * CHUNK_LEN)
  OBVIOUS
<1> HIDE DEF array, in, n, full, rest
<1>6. IsSeq(t) /\ Len(t) = m
  <2>1. t = [i \in 1..m |-> t[i]]
    BY <1>4 DEF hash_many
  <2> HIDE DEF t
  <2> QED
    BY <2>1, SeqOf
<1>7. \A i \in 1..m : t[i] = hash_one(array[i], key, ctr + (i - 1), flags,
                                      {"CHUNK_START"}, {"CHUNK_END"})
  BY <1>4 DEF hash_many
<1> HIDE DEF t
<1>8. ASSUME NEW i \in 1..m
      PROVE  t[i] = SubtreeCV(key, flags, ctr, s, lo, Place(i, 1), 1)
  <2> DEFINE k == i - 1
             x == lo + At(k)
             p == Part(s, x, CHUNK_LEN)
             c == ctr + k
  <2>1. /\ k \in Nat /\ Place(i, 1) = k /\ At(1) = CHUNK_LEN /\ c \in Nat
        /\ At(k) \in Nat /\ x \in Nat /\ At(k) + CHUNK_LEN <= n
        /\ (i - 1) * CHUNK_LEN = At(k)
    <3>1. k \in Nat /\ k < m /\ i \in Nat /\ i > 0
      OBVIOUS
    <3>2. Place(i, 1) = k
      BY DEF Place
    <3>3. (i - 1) * CHUNK_LEN = At(k)
      BY DEF At
    <3> HIDE DEF k
    <3>4. At(k) \in Nat /\ At(k) + CHUNK_LEN <= n /\ At(1) = CHUNK_LEN
      BY <3>1, AtFacts DEF n
    <3> QED
      BY <3>1, <3>2, <3>3, <3>4
  <2>2. array[i] = chunk_blocks(in, At(k))
    BY <1>5, <2>1
  <2>3. t[i] = hash_one(array[i], key, c, flags, {"CHUNK_START"}, {"CHUNK_END"})
    BY <1>7
  <2> HIDE DEF k, c
  <2>4. t[i] = output_chaining_value(ChunkOutput(key, flags, c, Part(in, At(k), CHUNK_LEN)))
    BY <2>1, <2>2, <2>3, ChunkHash
  <2>5. Part(in, At(k), CHUNK_LEN) = p
    BY <1>1, <2>1, Lengths, PartOfPart DEF in
  <2> HIDE DEF x, p
  <2>6. NodeOutput(key, flags, c, Part(s, x, CHUNK_LEN)) =
          ChunkOutput(key, flags, c, Part(s, x, CHUNK_LEN))
    <3>1. CHUNK_LEN \in Nat /\ CHUNK_LEN <= CHUNK_LEN
      BY Lengths
    <3> QED
      BY <2>1, <3>1, PartLeaf
  <2> QED
    BY <2>1, <2>4, <2>5, <2>6 DEF SubtreeCV, NodeCV, p, x, c
<1>9. t = Row(key, flags, ctr, s, lo, 1, m)
  <2> DEFINE z == 1
  <2>1. \A i \in 1..m : t[i] = SubtreeCV(key, flags, ctr, s, lo, Place(i, z), z)
    BY <1>8
  <2> HIDE DEF z
  <2>2. t = Row(key, flags, ctr, s, lo, z, m)
    BY <1>6, <2>1, IsRow
  <2> QED
    BY <2>2 DEF z
<1>10. compress_chunks_parallel(in, key, ctr, flags) = t
  BY <1>3, <1>6, NothingAppended
<1> QED
  BY <1>9, <1>10 DEF in, n

-----------------------------------------------------------------------------
\* The rows of two neighbouring subtrees of h chunks, one after the other.
LEMMA RowsSideBySide ==
  ASSUME NEW key, NEW flags, NEW ctr \in Nat, NEW s, NEW lo \in Nat,
         NEW size \in Nat, NEW w \in Nat, NEW h \in Nat, h = w * size
  PROVE  cv_array(Row(key, flags, ctr, s, lo, size, w),
                  Row(key, flags, ctr + h, s, lo + At(h), size, w), w) =
           Row(key, flags, ctr, s, lo, size, 2 * w)
<1> DEFINE c2 == ctr + h
           l2 == lo + At(h)
           left == Row(key, flags, ctr, s, lo, size, w)
           right == Row(key, flags, c2, s, l2, size, w)
           t == cv_array(left, right, w)
           n == 2 * w
<1>1. /\ Len(left) = w /\ Len(right) = w /\ n \in Nat /\ n = w + w
      /\ \A i \in 1..w :
           /\ left[i] = SubtreeCV(key, flags, ctr, s, lo, Place(i, size), size)
           /\ right[i] = SubtreeCV(key, flags, c2, s, l2, Place(i, size), size)
  BY RowIs
<1> HIDE DEF left, right
<1>2. t = [i \in 1..n |-> IF i > w THEN right[i - w]
                          ELSE IF i <= w THEN left[i] ELSE Garbage]
  BY <1>1 DEF cv_array
<1>3. IsSeq(t) /\ Len(t) = n
  <2>1. t = [i \in 1..n |-> t[i]]
    BY <1>2
  <2> HIDE DEF t, n
  <2> QED
    BY <1>1, <2>1, SeqOf
<1>4. ASSUME NEW i \in 1..n
      PROVE  t[i] = SubtreeCV(key, flags, ctr, s, lo, Place(i, size), size)
  <2>1. CASE i <= w
    <3>1. i \in 1..w /\ ~ (i > w)
      BY <2>1
    <3>2. t[i] = left[i]
      BY <1>2, <3>1
    <3> QED
      BY <1>1, <3>1, <3>2
  <2>2. CASE i > w
    <3> DEFINE j == i - w
               k == Place(j, size)
    <3>1. j \in 1..w /\ i = w + j
      BY <2>2
    <3>2. t[i] = right[j]
      BY <1>2, <2>2
    <3>3. k \in Nat /\ Place(i, size) = h + k
      <4> HIDE DEF j
      <4>1. k \in Nat
        BY <3>1, Places
      <4>2. (w + j - 1) * size = w * size + (j - 1) * size
        BY <3>1
      <4> QED
        BY <3>1, <4>1, <4>2 DEF Place
    <3> HIDE DEF j, k
    <3>4. right[j] = SubtreeCV(key, flags, c2, s, l2, k, size)
      BY <1>1, <3>1 DEF k
    <3>5. c2 + k = ctr + (h + k) /\ l2 + At(k) = lo + At(h + k)
      <4>1. At(h) \in Nat /\ At(k) \in Nat /\ At(h + k) = At(h) + At(k)
        BY <3>3, AtFacts
      <4> QED
        BY <3>3, <4>1
    <3> HIDE DEF c2, l2
    <3> QED
      BY <3>2, <3>3, <3>4, <3>5 DEF SubtreeCV
  <2> QED
    BY <2>1, <2>2
<1> HIDE DEF t, n
<1>5. t = Row(key, flags, ctr, s, lo, size, n)
  BY <1>1, <1>3, <1>4, IsRow
<1> QED
  BY <1>5 DEF t, n, left, right

-----------------------------------------------------------------------------
(***************************************************************************)
(* The wide path over a subtree of m chunks, m a power of two, is a row of *)
(* that subtree: as many values as the CPU computes at once, two if it is  *)
(* one, or a value for each chunk if the subtree has no more.              *)
(***************************************************************************)
Limit == IF SIMD_DEGREE = 1 THEN 2 ELSE SIMD_DEGREE

RowShape(m, w, size) ==
  /\ IsPow2(w) /\ IsPow2(size) /\ m = w * size
  /\ w = IF m <= Limit THEN m ELSE Limit

WideIsRow(key, flags, s, m, w, size) ==
  \A ctr, lo \in Nat :
    WideOf(key, flags, ctr, Part(s, lo, At(m))) =
      Row(key, flags, ctr, s, lo, size, w)

\* As many chunks as the CPU computes at once need no recursion.
LEMMA FewChunks ==
  ASSUME NEW key, NEW flags, NEW s, NEW m, IsPow2(m), m <= SIMD_DEGREE
  PROVE  RowShape(m, m, 1) /\ WideIsRow(key, flags, s, m, m, 1)
<1>1. m \in Nat /\ m > 0 /\ SIMD_DEGREE \in Nat /\ SIMD_DEGREE > 0 /\ IsPow2(1)
  BY Pow2Positive, Pow2One, DegreeAssumption
<1>2. RowShape(m, m, 1)
  BY <1>1 DEF RowShape, Limit
<1>3. ASSUME NEW ctr \in Nat, NEW lo \in Nat
      PROVE  WideOf(key, flags, ctr, Part(s, lo, At(m))) =
               Row(key, flags, ctr, s, lo, 1, m)
  <2> DEFINE n == At(m)
  <2>1. n \in Nat /\ n <= SIMD_DEGREE * CHUNK_LEN
    <3>1. At(m) \in Nat /\ At(m) <= At(SIMD_DEGREE)
      BY <1>1, AtFacts
    <3> QED
      BY <3>1 DEF At
  <2> HIDE DEF n
  <2>2. WideOf(key, flags, ctr, Part(s, lo, n)) =
          compress_chunks_parallel(Part(s, lo, n), key, ctr, flags)
    BY <2>1, WidePartLeaf
  <2>3. compress_chunks_parallel(Part(s, lo, At(m)), key, ctr, flags) =
           Row(key, flags, ctr, s, lo, 1, m)
    BY <1>1, ChunksRow
  <2> QED
    BY <2>2, <2>3 DEF n
<1> QED
  BY <1>2, <1>3 DEF WideIsRow

\* What the degree of the left half says of the row of both halves.
LEMMA HalfShape ==
  ASSUME NEW h, IsPow2(h), 2 * h > SIMD_DEGREE, NEW w, NEW size,
         RowShape(h, w, size)
  PROVE  /\ child_degree(At(h)) = w /\ w \in Nat /\ size \in Nat
         /\ w = 1 => h = 1 /\ size = 1 /\ RowShape(2 * h, 2, 1)
         /\ w # 1 => RowShape(2 * h, w, 2 * size)
<1> DEFINE D == SIMD_DEGREE
<1>1. /\ h \in Nat /\ h > 0 /\ D \in Nat /\ D > 0 /\ IsPow2(D)
      /\ w \in Nat /\ w > 0 /\ size \in Nat /\ size > 0
      /\ IsPow2(w) /\ IsPow2(size) /\ IsPow2(2 * size) /\ h = w * size
      /\ w = IF h <= Limit THEN h ELSE Limit
      /\ IsPow2(1) /\ IsPow2(2)
  <2>1. IsPow2(2 * 1)
    BY Pow2One, Pow2Double
  <2> QED
    BY <2>1, Pow2Positive, Pow2One, Pow2Double, DegreeAssumption DEF RowShape
<1>2. CASE D # 1
  <2>1. Limit = D
    BY <1>2 DEF Limit
  <2>2. D <= h
    <3>1. IsPow2(2 * h) /\ D < 2 * h
      BY <1>1, Pow2Double
    <3>2. 2 * D <= 2 * h
      BY <1>1, <3>1, Pow2Gap
    <3> QED
      BY <1>1, <3>2
  <2>3. w = D
    BY <1>1, <2>1, <2>2
  <2>4. child_degree(At(h)) = D
    BY <1>2 DEF child_degree
  <2>5. RowShape(2 * h, w, 2 * size)
    <3>1. 2 * h = w * (2 * size)
      BY <1>1
    <3>2. ~ (2 * h <= Limit)
      BY <1>1, <2>1
    <3> QED
      BY <1>1, <2>1, <2>3, <3>1, <3>2 DEF RowShape
  <2> QED
    BY <1>1, <1>2, <2>3, <2>4, <2>5
<1>3. CASE D = 1 /\ h = 1
  <2>1. Limit = 2 /\ w = 1 /\ size = 1
    <3>1. Limit = 2 /\ w = 1
      BY <1>1, <1>3 DEF Limit
    <3> QED
      BY <1>1, <1>3, <3>1
  <2>2. child_degree(At(h)) = 1
    BY <1>3, AtFacts, Lengths DEF child_degree
  <2>3. RowShape(2 * h, 2, 1)
    BY <1>1, <1>3, <2>1 DEF RowShape
  <2> QED
    BY <1>1, <1>3, <2>1, <2>2, <2>3
<1>4. CASE D = 1 /\ h # 1
  <2>1. Limit = 2 /\ w = 2
    BY <1>1, <1>4 DEF Limit
  <2>2. At(h) > CHUNK_LEN
    <3>1. At(1) + CHUNK_LEN <= At(h) /\ At(h) \in Nat
      <4> DEFINE z == 1
      <4>1. z \in Nat /\ z < h
        BY <1>1, <1>4
      <4> HIDE DEF z
      <4>2. At(z) + CHUNK_LEN <= At(h) /\ At(h) \in Nat
        BY <1>1, <4>1, AtFacts
      <4> QED
        BY <4>2 DEF z
    <3> QED
      BY <3>1, AtFacts, Lengths
  <2>3. child_degree(At(h)) = 2
    BY <1>4, <2>2 DEF child_degree
  <2>4. RowShape(2 * h, w, 2 * size)
    <3>1. 2 * h = w * (2 * size)
      BY <1>1
    <3>2. ~ (2 * h <= Limit)
      BY <1>1, <1>4, <2>1
    <3> QED
      BY <1>1, <2>1, <3>1, <3>2 DEF RowShape
  <2> QED
    BY <1>1, <2>1, <2>3, <2>4
<1> QED
  BY <1>2, <1>3, <1>4

\* What join_halves does with the rows of the two halves.
HalvesJoined(key, flags, ctr, s, lo, size, w, h) ==
  join_halves(Row(key, flags, ctr, s, lo, size, w),
              Row(key, flags, ctr + h, s, lo + At(h), size, w),
              w, key, flags) =
    IF w = 1 THEN Row(key, flags, ctr, s, lo, size, 2)
    ELSE Row(key, flags, ctr, s, lo, 2 * size, w)

\* The joined halves are a row of the subtree.
LEMMA HalvesJoin ==
  ASSUME NEW key, NEW flags, NEW ctr \in Nat, NEW s, NEW lo \in Nat,
         NEW size, IsPow2(size), NEW w \in Nat, NEW h \in Nat, h = w * size
  PROVE  HalvesJoined(key, flags, ctr, s, lo, size, w, h)
<1> DEFINE left == Row(key, flags, ctr, s, lo, size, w)
           right == Row(key, flags, ctr + h, s, lo + At(h), size, w)
           array == Row(key, flags, ctr, s, lo, size, 2 * w)
<1>1. size \in Nat /\ 2 * w \in Nat /\ w + w = 2 * w
  BY Pow2Positive
<1>2. Len(left) = w /\ Len(right) = w /\ IsSeq(array) /\ Len(array) = 2 * w
  BY <1>1, RowIs
<1>3. cv_array(left, right, w) = array
  BY <1>1, RowsSideBySide
<1>4. compress_parents_parallel(array, key, flags) =
        Row(key, flags, ctr, s, lo, 2 * size, w)
  BY ParentsRow
<1>5. w = 1 => array = Row(key, flags, ctr, s, lo, size, 2)
  <2> SUFFICES ASSUME w = 1 PROVE array = Row(key, flags, ctr, s, lo, size, 2)
    OBVIOUS
  <2>1. 2 * w = 2
    OBVIOUS
  <2> QED
    BY <2>1
<1> HIDE DEF left, right, array
<1>6. SubSeq(array, 1, Len(array)) = array
  BY <1>2, WholeSlice
<1>7. join_halves(left, right, w, key, flags) =
        IF w = 1 THEN SubSeq(array, 1, 2)
        ELSE compress_parents_parallel(SubSeq(array, 1, w + w), key, flags)
  BY <1>2, <1>3 DEF join_halves
<1>8. w = 1 => SubSeq(array, 1, 2) = array
  BY <1>2, <1>6
<1>9. SubSeq(array, 1, w + w) = array
  BY <1>1, <1>2, <1>6
<1> QED
  BY <1>4, <1>5, <1>7, <1>8, <1>9 DEF HalvesJoined, left, right

\* From the subtrees of h chunks to those of 2h.
LEMMA WideDouble ==
  ASSUME NEW key, NEW flags, NEW s, NEW h, IsPow2(h), 2 * h > SIMD_DEGREE,
         NEW w, NEW size, RowShape(h, w, size),
         WideIsRow(key, flags, s, h, w, size)
  PROVE  \E x, z : RowShape(2 * h, x, z) /\ WideIsRow(key, flags, s, 2 * h, x, z)
<1> DEFINE n == At(2 * h)
           left == At(h)
<1>1. /\ child_degree(left) = w /\ w \in Nat /\ size \in Nat
      /\ w = 1 => h = 1 /\ size = 1 /\ RowShape(2 * h, 2, 1)
      /\ w # 1 => RowShape(2 * h, w, 2 * size)
  BY HalfShape
<1>2. /\ h \in Nat /\ left \in Nat /\ n \in Nat /\ n - left = left
      /\ SplitsAt(h, n) /\ IsPow2(size) /\ h = w * size
  BY Double DEF RowShape
<1>3. ~ (n <= SIMD_DEGREE * CHUNK_LEN)
  <2>1. SIMD_DEGREE \in Nat /\ 2 * h \in Nat
    BY <1>2, Degree
  <2>2. At(SIMD_DEGREE) + CHUNK_LEN <= n /\ At(SIMD_DEGREE) \in Nat
    BY <2>1, AtFacts
  <2> HIDE DEF n
  <2> QED
    BY <1>2, <2>2, Lengths DEF At
<1> HIDE DEF n, left
<1>4. ASSUME NEW ctr \in Nat, NEW lo \in Nat
      PROVE  WideOf(key, flags, ctr, Part(s, lo, n)) =
               IF w = 1 THEN Row(key, flags, ctr, s, lo, size, 2)
               ELSE Row(key, flags, ctr, s, lo, 2 * size, w)
  <2> DEFINE c2 == ctr + h
             l2 == lo + left
  <2>1. WideSplits(key, flags, ctr, s, lo, n, h)
    BY <1>2, <1>3, WidePartSplit
  <2>2. WideOf(key, flags, ctr, Part(s, lo, n)) =
          join_halves(WideOf(key, flags, ctr, Part(s, lo, left)),
                      WideOf(key, flags, c2, Part(s, l2, left)), w, key, flags)
    BY <1>1, <1>2, <2>1 DEF WideSplits, left
  <2>3. c2 \in Nat /\ l2 \in Nat
    BY <1>2
  <2> HIDE DEF c2, l2
  <2>4. /\ WideOf(key, flags, ctr, Part(s, lo, left)) =
             Row(key, flags, ctr, s, lo, size, w)
        /\ WideOf(key, flags, c2, Part(s, l2, left)) =
             Row(key, flags, c2, s, l2, size, w)
    BY <2>3 DEF WideIsRow, left
  <2>5. join_halves(Row(key, flags, ctr, s, lo, size, w),
                    Row(key, flags, ctr + h, s, lo + At(h), size, w),
                    w, key, flags) =
          IF w = 1 THEN Row(key, flags, ctr, s, lo, size, 2)
          ELSE Row(key, flags, ctr, s, lo, 2 * size, w)
    <3>1. HalvesJoined(key, flags, ctr, s, lo, size, w, h)
      BY <1>1, <1>2, HalvesJoin
    <3> QED
      BY <3>1 DEF HalvesJoined
  <2> QED
    BY <2>2, <2>4, <2>5 DEF c2, l2, left
<1>5. CASE w = 1
  <2>1. WideIsRow(key, flags, s, 2 * h, 2, 1)
    BY <1>1, <1>4, <1>5 DEF WideIsRow, n
  <2> QED
    BY <1>1, <1>5, <2>1
<1>6. CASE w # 1
  <2>1. WideIsRow(key, flags, s, 2 * h, w, 2 * size)
    BY <1>4, <1>6 DEF WideIsRow, n
  <2> QED
    BY <1>1, <1>6, <2>1
<1> QED
  BY <1>5, <1>6

\* So it is for every power of two, as the least exception shows.
LEMMA WideRows ==
  ASSUME NEW key, NEW flags, NEW s, NEW m, IsPow2(m)
  PROVE  \E w, size : RowShape(m, w, size) /\ WideIsRow(key, flags, s, m, w, size)
<1> DEFINE Good(k) == \E w, size : /\ RowShape(k, w, size)
                                   /\ WideIsRow(key, flags, s, k, w, size)
           Bad == {k \in Nat : IsPow2(k) /\ ~ Good(k)}
<1>1. Bad = {}
  <2> SUFFICES ASSUME Bad # {} PROVE FALSE
    OBVIOUS
  <2>1. PICK k \in Bad : \A j \in Bad : k <= j
    <3>1. Bad \subseteq Nat
      OBVIOUS
    <3> HIDE DEF Bad
    <3> QED
      BY <3>1, NatMin
  <2>2. k \in Nat /\ IsPow2(k) /\ ~ Good(k)
    OBVIOUS
  <2>3. SIMD_DEGREE \in Nat /\ SIMD_DEGREE > 0
    BY Degree
  <2>4. ~ (k <= SIMD_DEGREE)
    BY <2>2, FewChunks
  <2>5. k # 1
    BY <2>3, <2>4
  <2>6. PICK h \in Nat : IsPow2(h) /\ k = 2 * h /\ h < k
    BY <2>2, <2>5, Pow2Cases
  <2>7. Good(h)
    <3> SUFFICES ASSUME ~ Good(h) PROVE FALSE
      OBVIOUS
    <3>1. h \in Bad
      BY <2>6
    <3> HIDE DEF Bad
    <3> QED
      BY <2>1, <2>2, <2>6, <3>1
  <2>8. PICK w, size : RowShape(h, w, size) /\ WideIsRow(key, flags, s, h, w, size)
    BY <2>7
  <2>9. 2 * h > SIMD_DEGREE
    BY <2>2, <2>3, <2>4, <2>6
  <2>10. Good(2 * h)
    BY <2>6, <2>8, <2>9, WideDouble
  <2> HIDE DEF Good
  <2> QED
    BY <2>2, <2>6, <2>10
<1>2. m \in Nat
  BY Pow2Positive
<1> SUFFICES ASSUME ~ Good(m) PROVE FALSE
  OBVIOUS
<1>3. m \in Bad
  BY <1>2
<1> HIDE DEF Bad
<1> QED
  BY <1>1, <1>3

-----------------------------------------------------------------------------
(***************************************************************************)
(* condense halves a row until two values are left.                        *)
(***************************************************************************)
Halve(cvs, key, flags) ==
  IF Len(cvs) > 2 THEN compress_parents_parallel(cvs, key, flags) ELSE cvs

RoundsOn(g, k, cvs, key, flags) ==
  g = [i \in 0..k |-> IF i = 0 THEN cvs ELSE Halve(g[i-1], key, flags)]

\* There is a function that takes k rounds of halving for every k.
LEMMA RoundsExist ==
  ASSUME NEW k \in Nat, NEW cvs, NEW key, NEW flags
  PROVE  \E g : RoundsOn(g, k, cvs, key, flags)
<1> DEFINE S == {j \in 0..k : \E g : RoundsOn(g, j, cvs, key, flags)}
<1>1. 0 \in S
  <2>1. RoundsOn([i \in 0..0 |-> cvs], 0, cvs, key, flags)
    BY DEF RoundsOn
  <2> QED
    BY <2>1
<1>2. ASSUME NEW j \in 0..k, j < k, j \in S PROVE j + 1 \in S
  <2>1. PICK g : RoundsOn(g, j, cvs, key, flags)
    BY <1>2
  <2> DEFINE h == [i \in 0..(j+1) |-> IF i = j + 1 THEN Halve(g[j], key, flags)
                                      ELSE g[i]]
  <2>2. ASSUME NEW i \in 0..(j+1)
        PROVE  h[i] = IF i = 0 THEN cvs ELSE Halve(h[i-1], key, flags)
    <3>1. CASE i = j + 1
      <4>1. h[i - 1] = g[j] /\ i # 0
        BY <1>2, <3>1
      <4> QED
        BY <3>1, <4>1
    <3>2. CASE i \in 0..j
      <4>1. h[i] = g[i] /\ (i # 0 => h[i - 1] = g[i - 1])
        BY <3>2
      <4> QED
        BY <2>1, <3>2, <4>1 DEF RoundsOn
    <3> QED
      BY <3>1, <3>2
  <2>3. h = [i \in 0..(j+1) |-> h[i]]
    OBVIOUS
  <2> HIDE DEF h
  <2>4. RoundsOn(h, j + 1, cvs, key, flags)
    BY <2>2, <2>3 DEF RoundsOn
  <2> QED
    BY <1>2, <2>4
<1> HIDE DEF S
<1>3. k \in S
  BY <1>1, <1>2, Induct
<1> QED
  BY <1>3 DEF S

\* condense is the rounds until two values are left.
LEMMA CondenseIs ==
  ASSUME NEW cvs, NEW n \in Nat, Len(cvs) = n, NEW key, NEW flags
  PROVE  \E g : /\ RoundsOn(g, n, cvs, key, flags)
                /\ condense(cvs, key, flags) = g[n]
<1> DEFINE g == CHOOSE x : x = [i \in 0..n |->
                  IF i = 0 THEN cvs
                  ELSE IF Len(x[i-1]) > 2
                       THEN compress_parents_parallel(x[i-1], key, flags)
                       ELSE x[i-1]]
<1>1. condense(cvs, key, flags) = g[n]
  BY DEF condense
<1>2. ASSUME NEW x
      PROVE  RoundsOn(x, n, cvs, key, flags) <=>
               x = [i \in 0..n |->
                  IF i = 0 THEN cvs
                  ELSE IF Len(x[i-1]) > 2
                       THEN compress_parents_parallel(x[i-1], key, flags)
                       ELSE x[i-1]]
  BY DEF RoundsOn, Halve
<1>3. \E x : RoundsOn(x, n, cvs, key, flags)
  BY RoundsExist
<1>4. RoundsOn(g, n, cvs, key, flags)
  BY <1>2, <1>3
<1> HIDE DEF g
<1> QED
  BY <1>1, <1>4

RowLeft(m, x, z, i, w) ==
  IsPow2(x) /\ IsPow2(z) /\ m = x * z /\ x >= 2 /\ (x = 2 \/ x + i <= w)

\* One round takes a row to the row of subtrees twice as large.
LEMMA RowHalves ==
  ASSUME NEW key, NEW flags, NEW ctr \in Nat, NEW s, NEW lo \in Nat,
         NEW m, NEW i \in Nat, NEW w \in Nat, NEW x, NEW z,
         RowLeft(m, x, z, i, w)
  PROVE  \E y, v : /\ RowLeft(m, y, v, i + 1, w)
                   /\ Halve(Row(key, flags, ctr, s, lo, z, x), key, flags) =
                        Row(key, flags, ctr, s, lo, v, y)
<1>1. x \in Nat /\ z \in Nat /\ x >= 2 /\ m = x * z /\ IsPow2(x) /\ IsPow2(z)
  BY Pow2Positive DEF RowLeft
<1> DEFINE r == Row(key, flags, ctr, s, lo, z, x)
<1>2. Len(r) = x
  BY <1>1, RowIs
<1> HIDE DEF r
<1>3. CASE x = 2
  <2>1. Halve(r, key, flags) = r
    BY <1>2, <1>3 DEF Halve
  <2>2. RowLeft(m, x, z, i + 1, w)
    BY <1>3 DEF RowLeft
  <2> QED
    BY <2>1, <2>2 DEF r
<1>4. CASE x # 2
  <2>1. PICK y \in Nat : IsPow2(y) /\ x = 2 * y
    BY <1>1, <1>4, Pow2Cases
  <2>2. Halve(r, key, flags) = compress_parents_parallel(r, key, flags)
    BY <1>1, <1>2, <1>4 DEF Halve
  <2>3. compress_parents_parallel(Row(key, flags, ctr, s, lo, z, 2 * y), key, flags) =
          Row(key, flags, ctr, s, lo, 2 * z, y)
    BY <1>1, <2>1, ParentsRow
  <2>4. RowLeft(m, y, 2 * z, i + 1, w)
    <3>1. y >= 2 /\ y + (i + 1) <= w
      BY <1>1, <1>4, <2>1 DEF RowLeft
    <3>2. IsPow2(2 * z) /\ m = y * (2 * z)
      BY <1>1, <2>1, Pow2Double
    <3> QED
      BY <2>1, <3>1, <3>2 DEF RowLeft
  <2> QED
    BY <2>1, <2>2, <2>3, <2>4 DEF r
<1> QED
  BY <1>3, <1>4

\* Two values are left of a row, the two halves of its subtree.
LEMMA CondenseRow ==
  ASSUME NEW key, NEW flags, NEW ctr \in Nat, NEW s, NEW lo \in Nat,
         NEW w, NEW size, IsPow2(w), w >= 2, IsPow2(size),
         NEW half \in Nat, w * size = 2 * half
  PROVE  condense(Row(key, flags, ctr, s, lo, size, w), key, flags) =
           Row(key, flags, ctr, s, lo, half, 2)
<1> DEFINE cvs == Row(key, flags, ctr, s, lo, size, w)
           m == w * size
           R(x, z) == Row(key, flags, ctr, s, lo, z, x)
<1>1. w \in Nat /\ size \in Nat /\ m \in Nat
  BY Pow2Positive
<1>2. Len(cvs) = w
  BY <1>1, RowIs
<1>3. PICK g : RoundsOn(g, w, cvs, key, flags) /\ condense(cvs, key, flags) = g[w]
  <2> HIDE DEF cvs
  <2> QED
    BY <1>1, <1>2, CondenseIs
<1> DEFINE S == {i \in 0..w : \E x, z : RowLeft(m, x, z, i, w) /\ g[i] = R(x, z)}
<1>4. 0 \in S
  <2>1. g[0] = cvs
    BY <1>1, <1>3 DEF RoundsOn
  <2>2. RowLeft(m, w, size, 0, w)
    BY <1>1 DEF RowLeft
  <2> QED
    BY <1>1, <2>1, <2>2
<1>5. ASSUME NEW i \in 0..w, i < w, i \in S PROVE i + 1 \in S
  <2>1. PICK x, z : RowLeft(m, x, z, i, w) /\ g[i] = R(x, z)
    BY <1>5
  <2>2. g[i + 1] = Halve(g[i], key, flags)
    <3>1. i + 1 \in 0..w /\ i + 1 # 0 /\ (i + 1) - 1 = i
      BY <1>1, <1>5
    <3> QED
      BY <1>3, <3>1 DEF RoundsOn
  <2>3. PICK y, v : /\ RowLeft(m, y, v, i + 1, w)
                    /\ Halve(Row(key, flags, ctr, s, lo, z, x), key, flags) =
                        Row(key, flags, ctr, s, lo, v, y)
    <3> HIDE DEF m
    <3>1. i \in Nat
      BY <1>1, <1>5
    <3> QED
      BY <1>1, <2>1, <3>1, RowHalves
  <2>4. g[i + 1] = R(y, v)
    BY <2>1, <2>2, <2>3
  <2> HIDE DEF m, R
  <2> QED
    BY <1>1, <1>5, <2>3, <2>4
<1> HIDE DEF S
<1>6. w \in S
  BY <1>1, <1>4, <1>5, Induct
<1>7. PICK x, z : RowLeft(m, x, z, w, w) /\ g[w] = R(x, z)
  BY <1>6 DEF S
<1>8. x = 2 /\ z = half
  <2>1. x \in Nat /\ z \in Nat /\ x >= 2 /\ (x = 2 \/ x + w <= w) /\ m = x * z
    BY <1>7, Pow2Positive DEF RowLeft
  <2>2. x = 2
    BY <1>1, <2>1
  <2>3. 2 * z = 2 * half
    BY <2>1, <2>2
  <2> QED
    BY <2>1, <2>2, <2>3
<1> QED
  BY <1>3, <1>7, <1>8

-----------------------------------------------------------------------------
(***************************************************************************)
(* The two values that a subtree of 2h chunks yields are those of the      *)
(* children of its root.                                                   *)
(***************************************************************************)
Pair(key, flags, ctr, s, lo, h) ==
  compress_subtree_to_parent_node(Part(s, lo, At(2 * h)), key, ctr, flags)

\* compress_subtree_to_parent_node hashes as many chunks at once as the CPU
\* can and condenses what it gets, yet for every width of the vectors and for
\* every power of two h it yields the values of the root's two children.
THEOREM PairIs ==
  ASSUME NEW key, NEW flags, NEW ctr \in Nat, NEW s, NEW lo \in Nat,
         NEW h, IsPow2(h)
  PROVE  /\ Pair(key, flags, ctr, s, lo, h)[1] =
              NodeCV(key, flags, ctr, Part(s, lo, At(h)))
         /\ Pair(key, flags, ctr, s, lo, h)[2] =
              NodeCV(key, flags, ctr + h, Part(s, lo + At(h), At(h)))
<1> DEFINE m == 2 * h
           in == Part(s, lo, At(m))
           r == Row(key, flags, ctr, s, lo, h, 2)
<1>1. h \in Nat /\ h > 0 /\ m \in Nat /\ IsPow2(m) /\ m >= 2
  BY Double
<1>2. PICK w, size : RowShape(m, w, size) /\ WideIsRow(key, flags, s, m, w, size)
  BY <1>1, WideRows
<1>3. IsPow2(w) /\ IsPow2(size) /\ w * size = 2 * h /\ w >= 2
  <2>1. IsPow2(w) /\ IsPow2(size) /\ m = w * size /\ w = IF m <= Limit THEN m ELSE Limit
    BY <1>2 DEF RowShape
  <2>2. Limit >= 2
    BY Degree DEF Limit
  <2> QED
    BY <1>1, <2>1, <2>2
<1>4. WideOf(key, flags, ctr, in) = Row(key, flags, ctr, s, lo, size, w)
  BY <1>2 DEF WideIsRow
<1> HIDE DEF in, m
<1>5. condense(Row(key, flags, ctr, s, lo, size, w), key, flags) = r
  BY <1>1, <1>3, CondenseRow
<1>6. compress_subtree_to_parent_node(in, key, ctr, flags) = SubSeq(r, 1, 2)
  BY <1>4, <1>5 DEF compress_subtree_to_parent_node, WideOf
<1>7. /\ IsSeq(r) /\ Len(r) = 2
      /\ \A i \in 1..2 : r[i] = SubtreeCV(key, flags, ctr, s, lo, Place(i, h), h)
  <2> DEFINE n == 2
             q == Row(key, flags, ctr, s, lo, h, n)
  <2>1. n \in Nat
    OBVIOUS
  <2> HIDE DEF n
  <2>2. /\ IsSeq(q) /\ Len(q) = n
        /\ \A i \in 1..n : q[i] = SubtreeCV(key, flags, ctr, s, lo, Place(i, h), h)
    BY <2>1, RowIs
  <2> QED
    BY <2>2 DEF n
<1> HIDE DEF r
<1>8. SubSeq(r, 1, 2) = r
  BY <1>7, WholeSlice
<1>9. /\ r[1] = SubtreeCV(key, flags, ctr, s, lo, Place(1, h), h)
      /\ r[2] = SubtreeCV(key, flags, ctr, s, lo, Place(2, h), h)
  BY <1>7
<1>10. Place(1, h) = 0 /\ Place(2, h) = h
  BY <1>1 DEF Place
<1>11. r[1] = NodeCV(key, flags, ctr, Part(s, lo, At(h)))
  <2>1. ctr + 0 = ctr /\ lo + At(0) = lo
    BY AtFacts
  <2>2. r[1] = NodeCV(key, flags, ctr + 0, Part(s, lo + At(0), At(h)))
    BY <1>9, <1>10 DEF SubtreeCV
  <2> QED
    BY <2>1, <2>2
<1>12. r[2] = NodeCV(key, flags, ctr + h, Part(s, lo + At(h), At(h)))
  BY <1>9, <1>10 DEF SubtreeCV
<1> QED
  BY <1>6, <1>8, <1>11, <1>12 DEF Pair, in, m

-----------------------------------------------------------------------------
(***************************************************************************)
(* Where the subtrees of a stack of chaining values may begin: every width *)
(* is a power of two, and all but the last begin at a multiple of twice    *)
(* their width.                                                            *)
(***************************************************************************)
Multiple(a, w) == \E q \in Nat : a = w * q

\* An odd multiple of a power of two has one 1 bit more than the even one before.
LEMMA PopcntOdd ==
  ASSUME NEW w, IsPow2(w), NEW j \in Nat
  PROVE  /\ popcnt[w * (2 * j)] = popcnt[j]
         /\ popcnt[w * (2 * j + 1)] = popcnt[j] + 1
         /\ popcnt[j] \in Nat
<1> DEFINE a == 2 * j
           b == 2 * j + 1
<1>1. /\ a \in Nat /\ b \in Nat /\ popcnt[j] \in Nat
      /\ popcnt[a] = popcnt[j] /\ popcnt[b] = popcnt[j] + 1
  BY PopcntShift, PopcntType
<1> HIDE DEF a, b
<1>2. popcnt[w * a] = popcnt[a] /\ popcnt[w * b] = popcnt[b]
  BY <1>1, PopcntScale
<1> QED
  BY <1>1, <1>2 DEF a, b

\* Adding a width at a multiple of twice that width adds a 1 bit.
LEMMA AddsBit ==
  ASSUME NEW w, IsPow2(w), NEW a \in Nat, Multiple(a, 2 * w)
  PROVE  popcnt[a + w] = popcnt[a] + 1
<1>1. PICK j \in Nat : a = 2 * w * j
  BY DEF Multiple
<1>2. w \in Nat
  BY Pow2Positive
<1>3. a = w * (2 * j) /\ a + w = w * (2 * j + 1)
  BY <1>1, <1>2
<1>4. popcnt[w * (2 * j + 1)] = popcnt[w * (2 * j)] + 1
  BY PopcntOdd
<1> QED
  BY <1>3, <1>4

\* At an odd multiple of the width it does not.
LEMMA AddsNone ==
  ASSUME NEW w, IsPow2(w), NEW a \in Nat, Multiple(a, w),
         ~ Multiple(a, 2 * w)
  PROVE  /\ popcnt[a + w] <= popcnt[a]
         /\ \E j \in Nat : a = w * (2 * j + 1)
<1>1. PICK q \in Nat : a = w * q
  BY DEF Multiple
<1>2. w \in Nat
  BY Pow2Positive
<1>3. PICK j \in Nat : q = 2 * j + 1
  <2>1. ASSUME NEW k \in Nat, q = 2 * k PROVE FALSE
    <3>1. a = 2 * w * k
      BY <1>1, <1>2, <2>1
    <3> QED
      BY <3>1 DEF Multiple
  <2> QED
    BY <2>1, EvenOrOdd
<1>4. a = w * (2 * j + 1) /\ a + w = w * (2 * (j + 1))
  BY <1>1, <1>2, <1>3
<1>5. popcnt[a] = popcnt[j] + 1
  BY <1>4, PopcntOdd
<1>6. popcnt[a + w] = popcnt[j + 1]
  <2> DEFINE z == j + 1
  <2>1. z \in Nat /\ a + w = w * (2 * z)
    BY <1>4
  <2> HIDE DEF z
  <2>2. popcnt[a + w] = popcnt[z]
    BY <2>1, PopcntOdd
  <2> QED
    BY <2>2 DEF z
<1>7. popcnt[j + 1] <= popcnt[j] + 1
  BY PopcntSucc
<1> QED
  BY <1>4, <1>5, <1>6, <1>7

\* An odd multiple of u is no multiple of twice u, nor of anything larger.
LEMMA OddMultiple ==
  ASSUME NEW u, NEW v, IsPow2(u), IsPow2(v), NEW j \in Nat, NEW q \in Nat,
         u * (2 * j + 1) = v * q
  PROVE  v <= u
<1>1. u \in Nat /\ v \in Nat /\ u > 0 /\ v > 0
  BY Pow2Positive
<1> SUFFICES ASSUME u < v PROVE FALSE
  BY <1>1
<1>2. IsPow2(2 * u) /\ 2 * u <= v
  BY Pow2Double, Pow2Gap
<1>3. PICK r \in Nat : v = 2 * u * r
  BY <1>2, Pow2Divides
<1>4. u * (2 * j + 1) = u * (2 * (r * q))
  BY <1>1, <1>3
<1>5. 2 * j + 1 = 2 * (r * q)
  <2> DEFINE x == 2 * j + 1
             y == 2 * (r * q)
  <2>1. x \in Nat /\ y \in Nat /\ u * x = u * y
    BY <1>4
  <2> HIDE DEF x, y
  <2>2. x = y
    <3>1. u * (x - y) = 0
      BY <1>1, <2>1
    <3> QED
      BY <1>1, <2>1, <3>1
  <2> QED
    BY <2>2 DEF x, y
<1>6. r * q \in Nat
  OBVIOUS
<1> HIDE DEF Multiple
<1> QED
  BY <1>5, <1>6

\* The next subtree is no wider than one at a multiple of twice its width,
\* and half as wide at most if it is at such a multiple itself.
LEMMA NextWidth ==
  ASSUME NEW u, NEW v, IsPow2(u), IsPow2(v), NEW b \in Nat,
         Multiple(b, 2 * u)
  PROVE  /\ Multiple(b + u, v) => v <= u
         /\ Multiple(b + u, 2 * v) => 2 * v <= u
<1>1. u \in Nat /\ v \in Nat /\ IsPow2(2 * v)
  BY Pow2Positive, Pow2Double
<1>2. PICK j \in Nat : b = 2 * u * j
  BY DEF Multiple
<1>3. b + u = u * (2 * j + 1)
  BY <1>1, <1>2
<1>4. ASSUME NEW x, IsPow2(x), Multiple(b + u, x) PROVE x <= u
  <2>1. PICK q \in Nat : b + u = x * q
    BY <1>4 DEF Multiple
  <2> QED
    BY <1>3, <1>4, <2>1, OddMultiple
<1> QED
  BY <1>1, <1>4

\* Where a merge is due the two widths are the same.
LEMMA SameWidths ==
  ASSUME NEW u, NEW v, IsPow2(u), IsPow2(v), NEW b \in Nat,
         Multiple(b, 2 * u), Multiple(b + u, v), ~ Multiple(b + u, 2 * v)
  PROVE  u = v
<1>1. u \in Nat /\ v \in Nat /\ b + u \in Nat
  BY Pow2Positive
<1>2. v <= u
  BY NextWidth
<1>3. u <= v
  <2>1. PICK j \in Nat : b + u = v * (2 * j + 1)
    <3> DEFINE a == b + u
    <3>1. a \in Nat /\ Multiple(a, v) /\ ~ Multiple(a, 2 * v)
      BY <1>1
    <3> HIDE DEF a
    <3>2. \E j \in Nat : a = v * (2 * j + 1)
      BY <3>1, AddsNone
    <3> QED
      BY <3>2 DEF a
  <2>2. PICK k \in Nat : b = 2 * u * k
    BY DEF Multiple
  <2>3. v * (2 * j + 1) = u * (2 * k + 1) /\ 2 * k + 1 \in Nat
    BY <1>1, <2>1, <2>2
  <2> QED
    BY <2>3, OddMultiple
<1> QED
  BY <1>1, <1>2, <1>3

-----------------------------------------------------------------------------
(***************************************************************************)
(* The n entries of a stack that cover the first `total` chunks of a text. *)
(***************************************************************************)
CVOf(key, flags, text, lo, w) ==
  NodeCV(key, flags, lo, Part(text, At(lo), At(w)))

\* Entry i is the value of the wd[i] chunks from chunk at[i] on.
Covers(key, flags, text, stack, n, at, wd, i) ==
  /\ at[i] \in Nat /\ IsPow2(wd[i]) /\ at[i+1] = at[i] + wd[i]
  /\ Multiple(at[i], wd[i])
  /\ i + 1 < n => Multiple(at[i], 2 * wd[i])
  /\ popcnt[at[i]] = i
  /\ stack[i] = CVOf(key, flags, text, at[i], wd[i])

Layout(key, flags, text, stack, n, total, at, wd) ==
  /\ n \in Nat /\ at[0] = 0 /\ at[n] = total
  /\ \A i \in 0..(n - 1) : Covers(key, flags, text, stack, n, at, wd, i)

StackOf(key, flags, text, stack, n, total) ==
  \E at, wd : Layout(key, flags, text, stack, n, total, at, wd)

\* The parent of two neighbouring subtrees of the same width is the subtree of both.
LEMMA CVsJoin ==
  ASSUME NEW key, NEW flags, NEW text, NEW lo \in Nat, NEW w, IsPow2(w)
  PROVE  parent_cv(CVOf(key, flags, text, lo, w),
                   CVOf(key, flags, text, lo + w, w), key, flags) =
           CVOf(key, flags, text, lo, 2 * w)
<1>1. w \in Nat /\ lo + w \in Nat /\ At(lo) \in Nat /\ At(lo + w) \in Nat
  <2>1. w \in Nat
    BY Double
  <2>2. lo + w \in Nat
    BY <2>1
  <2> QED
    BY <2>1, <2>2, AtFacts
<1>2. \A v : \A k \in Nat : At(k) \in Nat =>
        SubtreeCV(key, flags, 0, text, 0, k, v) = CVOf(key, flags, text, k, v)
  BY DEF SubtreeCV, CVOf
<1> DEFINE z == 0
<1>3. z \in Nat
  OBVIOUS
<1> HIDE DEF z
<1>4. parent_cv(SubtreeCV(key, flags, z, text, z, lo, w),
                SubtreeCV(key, flags, z, text, z, lo + w, w), key, flags) =
        SubtreeCV(key, flags, z, text, z, lo, 2 * w)
  BY <1>3, SubtreesJoin
<1> QED
  BY <1>1, <1>2, <1>4 DEF z

\* An empty stack covers no chunks.
LEMMA EmptyLayout ==
  ASSUME NEW key, NEW flags, NEW text, NEW stack
  PROVE  StackOf(key, flags, text, stack, 0, 0)
<1> DEFINE at == [i \in {0} |-> 0]
<1>1. Layout(key, flags, text, stack, 0, 0, at, at)
  BY DEF Layout
<1> HIDE DEF at
<1> QED
  BY <1>1 DEF StackOf

\* A push covers the subtree that starts where the stack ends.
LEMMA LayoutPush ==
  ASSUME NEW key, NEW flags, NEW text, NEW stack, NEW n \in Nat,
         NEW total \in Nat, StackOf(key, flags, text, stack, n, total),
         n = popcnt[total], NEW w, IsPow2(w), Multiple(total, w),
         NEW next, \A i \in 0..(n - 1) : next[i] = stack[i],
         next[n] = CVOf(key, flags, text, total, w)
  PROVE  StackOf(key, flags, text, next, n + 1, total + w)
<1>1. PICK at, wd : Layout(key, flags, text, stack, n, total, at, wd)
  BY DEF StackOf
<1> DEFINE at2 == [i \in 0..(n + 1) |-> IF i = n + 1 THEN total + w ELSE at[i]]
           wd2 == [i \in 0..n |-> IF i = n THEN w ELSE wd[i]]
<1>2. /\ at[0] = 0 /\ at[n] = total
      /\ \A i \in 0..(n - 1) : Covers(key, flags, text, stack, n, at, wd, i)
  BY <1>1 DEF Layout
<1>3. ASSUME NEW i \in 0..(n - 1)
      PROVE  Covers(key, flags, text, next, n + 1, at2, wd2, i)
  <2>1. Covers(key, flags, text, stack, n, at, wd, i)
    BY <1>2
  <2>2. Multiple(at[i], 2 * wd[i])
    <3>1. CASE i + 1 < n
      BY <2>1, <3>1 DEF Covers
    <3>2. CASE i + 1 = n
      <4> DEFINE a == at[i]
                 u == wd[i]
      <4>1. /\ a \in Nat /\ IsPow2(u) /\ total = a + u /\ Multiple(a, u)
            /\ popcnt[a] = i /\ popcnt[total] = i + 1
        BY <1>2, <2>1, <3>2 DEF Covers
      <4> HIDE DEF a, u
      <4>2. Multiple(a, 2 * u)
        <5> SUFFICES ASSUME ~ Multiple(a, 2 * u) PROVE FALSE
          OBVIOUS
        <5>1. popcnt[a + u] <= popcnt[a]
          BY <4>1, AddsNone
        <5> QED
          BY <4>1, <5>1
      <4> QED
        BY <4>2 DEF a, u
    <3> QED
      BY <3>1, <3>2
  <2>3. /\ at2[i] = at[i] /\ at2[i + 1] = at[i + 1] /\ wd2[i] = wd[i]
        /\ next[i] = stack[i]
    OBVIOUS
  <2> HIDE DEF at2, wd2
  <2> QED
    BY <2>1, <2>2, <2>3 DEF Covers
<1>4. Covers(key, flags, text, next, n + 1, at2, wd2, n)
  <2>1. at2[n] = total /\ at2[n + 1] = total + w /\ wd2[n] = w
    BY <1>2
  <2> HIDE DEF at2, wd2
  <2>2. ~ (n + 1 < n + 1)
    OBVIOUS
  <2> QED
    BY <2>1, <2>2 DEF Covers
<1>5. /\ at2[0] = 0 /\ at2[n + 1] = total + w
      /\ \A i \in 0..((n + 1) - 1) : i \in 0..(n - 1) \/ i = n
  BY <1>2
<1> HIDE DEF at2, wd2
<1>6. Layout(key, flags, text, next, n + 1, total + w, at2, wd2)
  BY <1>3, <1>4, <1>5 DEF Layout
<1> QED
  BY <1>6 DEF StackOf

\* While the stack holds more entries than its chunks have 1 bits, the two
\* uppermost are neighbours of the same width.
LEMMA TopsMatch ==
  ASSUME NEW key, NEW flags, NEW text, NEW stack, NEW n \in Nat,
         NEW total \in Nat, NEW at, NEW wd,
         Layout(key, flags, text, stack, n, total, at, wd),
         n >= 2, n > popcnt[total]
  PROVE  wd[n - 1] = wd[n - 2]
<1> DEFINE b == at[n - 2]
           u == wd[n - 2]
           v == wd[n - 1]
<1>1. /\ Covers(key, flags, text, stack, n, at, wd, n - 2)
      /\ Covers(key, flags, text, stack, n, at, wd, n - 1)
      /\ at[n] = total
  BY DEF Layout
<1>2. (n - 2) + 1 = n - 1 /\ (n - 1) + 1 = n /\ n - 1 < n
  OBVIOUS
<1>3. /\ b \in Nat /\ IsPow2(u) /\ Multiple(b, 2 * u) /\ at[n - 1] = b + u
  BY <1>1, <1>2 DEF Covers
<1>4. /\ b + u \in Nat /\ IsPow2(v) /\ Multiple(b + u, v)
      /\ popcnt[b + u] = n - 1 /\ total = b + u + v
  BY <1>1, <1>2, <1>3 DEF Covers
<1> HIDE DEF b, u, v
<1>5. ~ Multiple(b + u, 2 * v)
  <2> DEFINE a == b + u
  <2>1. a \in Nat /\ popcnt[a] = n - 1 /\ total = a + v
    BY <1>4
  <2> HIDE DEF a
  <2>2. ASSUME Multiple(a, 2 * v) PROVE FALSE
    <3>1. popcnt[a + v] = popcnt[a] + 1
      BY <1>4, <2>1, <2>2, AddsBit
    <3> QED
      BY <2>1, <3>1
  <2> QED
    BY <2>2 DEF a
<1>6. u = v
  BY <1>3, <1>4, <1>5, SameWidths
<1> QED
  BY <1>6 DEF u, v

\* So merging them keeps what the stack covers.
LEMMA LayoutMerge ==
  ASSUME NEW key, NEW flags, NEW text, NEW stack, NEW n \in Nat,
         NEW total \in Nat, StackOf(key, flags, text, stack, n, total),
         n >= 2, n > popcnt[total],
         NEW next, \A i \in 0..(n - 3) : next[i] = stack[i],
         next[n - 2] = parent_cv(stack[n - 2], stack[n - 1], key, flags)
  PROVE  StackOf(key, flags, text, next, n - 1, total)
<1>1. PICK at, wd : Layout(key, flags, text, stack, n, total, at, wd)
  BY DEF StackOf
<1> DEFINE at2 == [i \in 0..(n - 1) |-> IF i = n - 1 THEN total ELSE at[i]]
           wd2 == [i \in 0..(n - 2) |-> IF i = n - 2 THEN 2 * wd[n - 2]
                                        ELSE wd[i]]
<1>2. /\ at[0] = 0 /\ at[n] = total
      /\ \A i \in 0..(n - 1) : Covers(key, flags, text, stack, n, at, wd, i)
  BY <1>1 DEF Layout
<1>3. wd[n - 1] = wd[n - 2]
  BY <1>1, TopsMatch
<1>4. ASSUME NEW i \in 0..(n - 3)
      PROVE  Covers(key, flags, text, next, n - 1, at2, wd2, i)
  <2>1. Covers(key, flags, text, stack, n, at, wd, i)
    BY <1>2
  <2>2. /\ at2[i] = at[i] /\ at2[i + 1] = at[i + 1] /\ wd2[i] = wd[i]
        /\ next[i] = stack[i] /\ i + 1 < n
    OBVIOUS
  <2> HIDE DEF at2, wd2
  <2> QED
    BY <2>1, <2>2 DEF Covers
<1>5. Covers(key, flags, text, next, n - 1, at2, wd2, n - 2)
  <2> DEFINE b == at[n - 2]
             u == wd[n - 2]
  <2>1. /\ Covers(key, flags, text, stack, n, at, wd, n - 2)
        /\ Covers(key, flags, text, stack, n, at, wd, n - 1)
    BY <1>2
  <2>2. (n - 2) + 1 = n - 1 /\ (n - 1) + 1 = n /\ n - 1 < n
    OBVIOUS
  <2>3. /\ b \in Nat /\ IsPow2(u) /\ Multiple(b, 2 * u) /\ at[n - 1] = b + u
        /\ popcnt[b] = n - 2
        /\ stack[n - 2] = CVOf(key, flags, text, b, u)
    BY <2>1, <2>2 DEF Covers
  <2>4. /\ total = b + u + u
        /\ stack[n - 1] = CVOf(key, flags, text, b + u, u)
    BY <1>2, <1>3, <2>1, <2>2, <2>3 DEF Covers
  <2>5. at2[n - 2] = b /\ at2[n - 1] = total /\ wd2[n - 2] = 2 * u
    OBVIOUS
  <2> HIDE DEF at2, wd2, b, u
  <2>6. next[n - 2] = CVOf(key, flags, text, b, 2 * u)
    BY <2>3, <2>4, CVsJoin
  <2>7. IsPow2(2 * u) /\ b + u + u = b + 2 * u /\ ~ (n - 1 < n - 1)
    BY <2>3, Double
  <2> QED
    BY <2>2, <2>3, <2>4, <2>5, <2>6, <2>7 DEF Covers
<1>6. /\ at2[0] = 0 /\ at2[n - 1] = total /\ n - 1 \in Nat
      /\ \A i \in 0..((n - 1) - 1) : i \in 0..(n - 3) \/ i = n - 2
  BY <1>2
<1> HIDE DEF at2, wd2
<1>7. Layout(key, flags, text, next, n - 1, total, at2, wd2)
  BY <1>4, <1>5, <1>6 DEF Layout
<1> QED
  BY <1>7 DEF StackOf

\* Only the entries below n count.
LEMMA SameEntries ==
  ASSUME NEW key, NEW flags, NEW text, NEW stack, NEW n \in Nat, NEW total,
         StackOf(key, flags, text, stack, n, total),
         NEW next, \A i \in 0..(n - 1) : next[i] = stack[i]
  PROVE  StackOf(key, flags, text, next, n, total)
  BY DEF StackOf, Layout, Covers

-----------------------------------------------------------------------------
(***************************************************************************)
(* Rolling up a stack: from the output over what follows entry j to the    *)
(* output of the whole tree.                                               *)
(***************************************************************************)
RollBody(g, n, stack, key, flags, start, i) ==
  IF i = n THEN start
  ELSE parent_output(ParentBlock(stack[i], output_chaining_value(g[i+1])),
                     key, flags)

RollOn(g, lo, n, stack, key, flags, start) ==
  g = [i \in lo..n |-> RollBody(g, n, stack, key, flags, start, i)]

\* There is a roll-up over every stack.
LEMMA RollExists ==
  ASSUME NEW n \in Nat, NEW stack, NEW key, NEW flags, NEW start
  PROVE  \E g : RollOn(g, 0, n, stack, key, flags, start)
<1> DEFINE S == {k \in 0..n :
                   \E g : RollOn(g, n - k, n, stack, key, flags, start)}
<1>1. 0 \in S
  <2> DEFINE g == [i \in n..n |-> start]
  <2>1. RollOn(g, n, n, stack, key, flags, start)
    BY DEF RollOn, RollBody
  <2> HIDE DEF g
  <2>2. n - 0 = n /\ 0 \in 0..n
    OBVIOUS
  <2> QED
    BY <2>1, <2>2
<1>2. ASSUME NEW k \in 0..n, k < n, k \in S PROVE k + 1 \in S
  <2> DEFINE lo == n - k
  <2>1. lo \in Nat /\ lo > 0 /\ lo <= n /\ n - (k + 1) = lo - 1
        /\ k + 1 \in 0..n
    BY <1>2
  <2>2. PICK g : RollOn(g, lo, n, stack, key, flags, start)
    BY <1>2
  <2> HIDE DEF lo
  <2> DEFINE h == [i \in (lo - 1)..n |->
                     IF i >= lo THEN g[i]
                     ELSE RollBody(g, n, stack, key, flags, start, i)]
  <2>3. ASSUME NEW i \in (lo - 1)..n
        PROVE  h[i] = RollBody(h, n, stack, key, flags, start, i)
    <3>1. i = n \/ h[i + 1] = g[i + 1]
      BY <2>1
    <3> HIDE DEF h
    <3>2. RollBody(h, n, stack, key, flags, start, i) =
            RollBody(g, n, stack, key, flags, start, i)
      BY <3>1 DEF RollBody
    <3>3. CASE i >= lo
      <4>1. h[i] = g[i] /\ i \in lo..n
        BY <2>1, <3>3 DEF h
      <4>2. g[i] = RollBody(g, n, stack, key, flags, start, i)
        BY <2>2, <4>1 DEF RollOn
      <4> QED
        BY <3>2, <4>1, <4>2
    <3>4. CASE ~ (i >= lo)
      BY <3>2, <3>4 DEF h
    <3> QED
      BY <3>3, <3>4
  <2>4. h = [i \in (lo - 1)..n |-> h[i]]
    OBVIOUS
  <2> HIDE DEF h
  <2>5. RollOn(h, lo - 1, n, stack, key, flags, start)
    BY <2>3, <2>4 DEF RollOn
  <2> QED
    BY <2>1, <2>5
<1>3. \A k \in 0..n : k \in S
  <2> HIDE DEF S
  <2> QED
    BY <1>1, <1>2, Induct
<1>4. n \in S /\ n - n = 0
  BY <1>3
<1> QED
  BY <1>4

\* What is left of a text of `size` bytes from chunk k on.
Rest(key, flags, text, size, k) ==
  NodeOutput(key, flags, k, Part(text, At(k), size - At(k)))

\* `output` is that of all that follows entry i, and is no larger than the
\* entry before it allows.
Follows(key, flags, text, size, at, wd, i, output) ==
  /\ output = Rest(key, flags, text, size, at[i])
  /\ At(at[i]) < size
  /\ i > 0 => size - At(at[i]) <= At(wd[i - 1])

\* Every entry below j is as wide as its place allows.
Settled(at, wd, j) == \A i \in 0..(j - 1) : Multiple(at[i], 2 * wd[i])

\* The node from chunk k on is the parent of the entry at k and of what follows.
LEMMA NodeJoins ==
  ASSUME NEW key, NEW flags, NEW text, NEW size \in Nat, NEW a \in Nat,
         NEW w, IsPow2(w), At(a + w) < size, size - At(a + w) <= At(w)
  PROVE  /\ Rest(key, flags, text, size, a) =
              parent_output(
                ParentBlock(CVOf(key, flags, text, a, w),
                            output_chaining_value(
                              Rest(key, flags, text, size, a + w))),
                key, flags)
         /\ At(a) < size
         /\ size - At(a) <= At(2 * w)
<1>1. /\ w \in Nat /\ w > 0 /\ 2 * w \in Nat
      /\ At(w) \in Nat /\ At(2 * w) = At(w) + At(w)
  <2>1. w \in Nat /\ w > 0 /\ 2 * w \in Nat /\ 2 * w = w + w
    BY Double
  <2> QED
    BY <2>1, AtFacts
<1>2. At(a) \in Nat /\ At(a + w) = At(a) + At(w) /\ At(w) > 0
  <2>1. At(0) = 0 /\ At(0) + CHUNK_LEN <= At(w)
    BY <1>1, AtFacts
  <2>2. At(w) > 0
    BY <1>1, <2>1, Lengths
  <2>3. At(a) \in Nat /\ At(a + w) = At(a) + At(w)
    BY <1>1, AtFacts
  <2> QED
    BY <2>2, <2>3
<1> DEFINE lo == At(a)
           n  == size - lo
           z  == At(w)
<1>3. /\ lo \in Nat /\ n \in Nat /\ z \in Nat /\ z < n /\ n <= z + z
      /\ n - z = size - At(a + w) /\ lo + z = At(a + w)
  BY <1>1, <1>2
<1>4. SplitsAt(w, n)
  <2>1. w * CHUNK_LEN = z /\ 2 * w * CHUNK_LEN = z + z
    BY <1>1 DEF At
  <2> HIDE DEF n, z
  <2> QED
    BY <1>3, <2>1 DEF SplitsAt
<1> HIDE DEF lo, n
<1>5. NodeSplits(key, flags, a, text, lo, n, w)
  BY <1>1, <1>3, <1>4, PartSplit
<1>6. Rest(key, flags, text, size, a) =
        parent_output(
          ParentBlock(CVOf(key, flags, text, a, w),
                      output_chaining_value(
                        Rest(key, flags, text, size, a + w))),
          key, flags)
  BY <1>3, <1>5 DEF NodeSplits, Rest, CVOf, NodeCV, lo, n
<1> QED
  BY <1>1, <1>2, <1>3, <1>6 DEF lo, n

\* One round of the roll-up takes in one entry more.
LEMMA RollStep ==
  ASSUME NEW key, NEW flags, NEW text, NEW stack, NEW n, NEW total,
         NEW at, NEW wd, Layout(key, flags, text, stack, n, total, at, wd),
         NEW size \in Nat, NEW i \in Nat, i < n, Settled(at, wd, i + 1),
         NEW output, Follows(key, flags, text, size, at, wd, i + 1, output)
  PROVE  Follows(key, flags, text, size, at, wd, i,
                 parent_output(
                   ParentBlock(stack[i], output_chaining_value(output)),
                   key, flags))
<1> DEFINE a == at[i]
           w == wd[i]
<1>1. n \in Nat /\ Covers(key, flags, text, stack, n, at, wd, i)
  BY DEF Layout
<1>2. /\ a \in Nat /\ IsPow2(w) /\ at[i + 1] = a + w
      /\ stack[i] = CVOf(key, flags, text, a, w)
      /\ Multiple(a, 2 * w)
  BY <1>1 DEF Covers, Settled
<1>3. /\ output = Rest(key, flags, text, size, a + w)
      /\ At(a + w) < size /\ size - At(a + w) <= At(w)
  <2>1. i + 1 > 0 /\ (i + 1) - 1 = i
    OBVIOUS
  <2> QED
    BY <1>2, <2>1 DEF Follows
<1> HIDE DEF a, w
<1>4. /\ parent_output(ParentBlock(stack[i], output_chaining_value(output)),
                       key, flags) = Rest(key, flags, text, size, a)
      /\ At(a) < size /\ size - At(a) <= At(2 * w)
  BY <1>2, <1>3, NodeJoins
<1>5. ASSUME i > 0 PROVE size - At(a) <= At(wd[i - 1])
  <2> DEFINE b == at[i - 1]
             u == wd[i - 1]
  <2>1. /\ i - 1 \in 0..(n - 1) /\ (i - 1) + 1 = i
        /\ i - 1 \in 0..((i + 1) - 1)
    BY <1>1, <1>5
  <2>2. Covers(key, flags, text, stack, n, at, wd, i - 1)
    BY <2>1 DEF Layout
  <2>3. /\ b \in Nat /\ IsPow2(u) /\ a = b + u /\ Multiple(b, 2 * u)
    BY <2>1, <2>2 DEF Covers, Settled, a
  <2> HIDE DEF b, u
  <2>4. 2 * w <= u
    BY <1>2, <2>3, NextWidth
  <2>5. At(2 * w) <= At(u) /\ At(2 * w) \in Nat /\ At(u) \in Nat
    <3>1. u \in Nat /\ 2 * w \in Nat
      BY <1>2, <2>3, Double
    <3> QED
      BY <2>4, <3>1, AtFacts
  <2>6. At(a) \in Nat
    BY <1>2, AtFacts
  <2>7. size - At(a) <= At(u)
    BY <1>4, <2>5, <2>6
  <2> QED
    BY <2>7 DEF u
<1> QED
  BY <1>4, <1>5 DEF Follows, a

\* Rolled up to the bottom of the stack, the output is that of the root.
LEMMA RollUp ==
  ASSUME NEW key, NEW flags, NEW text, NEW stack, NEW n, NEW total,
         NEW at, NEW wd, Layout(key, flags, text, stack, n, total, at, wd),
         NEW size \in Nat, NEW j \in Nat, j <= n, Settled(at, wd, j),
         NEW start, Follows(key, flags, text, size, at, wd, j, start),
         NEW g, RollOn(g, 0, j, stack, key, flags, start)
  PROVE  g[0] = NodeOutput(key, flags, 0, Part(text, 0, size))
<1> DEFINE S == {k \in 0..j :
                   Follows(key, flags, text, size, at, wd, j - k, g[j - k])}
<1>1. 0 \in S
  <2>1. j - 0 = j /\ 0 \in 0..j /\ g[j] = start
    BY DEF RollOn, RollBody
  <2> QED
    BY <2>1
<1>2. ASSUME NEW k \in 0..j, k < j, k \in S PROVE k + 1 \in S
  <2> DEFINE i == j - (k + 1)
  <2>1. /\ i \in Nat /\ i + 1 = j - k /\ k + 1 \in 0..j /\ i < j /\ n \in Nat
        /\ i < n
    BY <1>2 DEF Layout
  <2>2. Follows(key, flags, text, size, at, wd, i + 1, g[i + 1])
    BY <1>2, <2>1
  <2>3. Settled(at, wd, i + 1)
    BY <2>1 DEF Settled
  <2>4. g[i] = parent_output(
                 ParentBlock(stack[i], output_chaining_value(g[i + 1])),
                 key, flags)
    BY <2>1 DEF RollOn, RollBody
  <2> HIDE DEF i
  <2>5. Follows(key, flags, text, size, at, wd, i, g[i])
    BY <2>1, <2>2, <2>3, <2>4, RollStep
  <2> QED
    BY <2>1, <2>5 DEF i
<1>3. \A k \in 0..j : k \in S
  <2> HIDE DEF S
  <2> QED
    BY <1>1, <1>2, Induct
<1>4. Follows(key, flags, text, size, at, wd, 0, g[0])
  <2>1. j \in S /\ j - j = 0
    BY <1>3
  <2> QED
    BY <2>1
<1>5. at[0] = 0 /\ At(0) = 0 /\ size - 0 = size
  BY AtFacts DEF Layout
<1> QED
  BY <1>4, <1>5 DEF Follows, Rest

-----------------------------------------------------------------------------
\* A stack with as many entries as its chunks have 1 bits is fully merged.
LEMMA AllSettled ==
  ASSUME NEW key, NEW flags, NEW text, NEW stack, NEW n, NEW total \in Nat,
         NEW at, NEW wd, Layout(key, flags, text, stack, n, total, at, wd)
  PROVE  /\ Settled(at, wd, n - 1)
         /\ n = popcnt[total] => Settled(at, wd, n)
<1>1. n \in Nat /\ at[n] = total
  BY DEF Layout
<1>2. Settled(at, wd, n - 1)
  <2>1. ASSUME NEW i \in 0..((n - 1) - 1) PROVE Multiple(at[i], 2 * wd[i])
    <3>1. i \in 0..(n - 1) /\ i + 1 < n
      BY <1>1
    <3>2. Covers(key, flags, text, stack, n, at, wd, i)
      BY <3>1 DEF Layout
    <3> QED
      BY <3>1, <3>2 DEF Covers
  <2> QED
    BY <2>1 DEF Settled
<1>3. ASSUME n = popcnt[total] PROVE Settled(at, wd, n)
  <2>1. ASSUME NEW i \in 0..(n - 1), i = n - 1
        PROVE  Multiple(at[i], 2 * wd[i])
    <3> DEFINE a == at[i]
               u == wd[i]
    <3>1. Covers(key, flags, text, stack, n, at, wd, i) /\ i + 1 = n
      BY <1>1, <2>1 DEF Layout
    <3>2. /\ a \in Nat /\ IsPow2(u) /\ total = a + u /\ Multiple(a, u)
          /\ popcnt[a] = i /\ popcnt[total] = i + 1
      BY <1>1, <1>3, <3>1 DEF Covers
    <3> HIDE DEF a, u
    <3>3. Multiple(a, 2 * u)
      <4> SUFFICES ASSUME ~ Multiple(a, 2 * u) PROVE FALSE
        OBVIOUS
      <4>1. popcnt[a + u] <= popcnt[a]
        BY <3>2, AddsNone
      <4> QED
        BY <3>2, <4>1
    <3> QED
      BY <3>3 DEF a, u
  <2>2. ASSUME NEW i \in 0..(n - 1) PROVE Multiple(at[i], 2 * wd[i])
    <3>1. i = n - 1 \/ i \in 0..((n - 1) - 1)
      BY <1>1
    <3> QED
      BY <1>2, <2>1, <3>1 DEF Settled
  <2> QED
    BY <2>2 DEF Settled
<1> QED
  BY <1>2, <1>3

\* Finalising over a chunk that holds bytes.
LEMMA RollOverChunk ==
  ASSUME NEW key, NEW flags, NEW text, NEW stack, NEW n \in Nat,
         NEW total \in Nat, StackOf(key, flags, text, stack, n, total),
         n = popcnt[total], NEW size \in Nat, NEW len \in Nat,
         len > 0, len <= CHUNK_LEN, size = At(total) + len,
         NEW g, RollOn(g, 0, n, stack, key, flags,
                       ChunkOutput(key, flags, total,
                                   Part(text, At(total), len)))
  PROVE  g[0] = NodeOutput(key, flags, 0, Part(text, 0, size))
<1>1. PICK at, wd : Layout(key, flags, text, stack, n, total, at, wd)
  BY DEF StackOf
<1> DEFINE start == ChunkOutput(key, flags, total, Part(text, At(total), len))
           lo    == At(total)
<1>2. lo \in Nat /\ at[n] = total
  BY <1>1, AtFacts DEF Layout
<1>3. size - lo = len /\ lo < size
  BY <1>2
<1>4. start = Rest(key, flags, text, size, total)
  <2>1. NodeOutput(key, flags, total, Part(text, lo, len)) =
          ChunkOutput(key, flags, total, Part(text, lo, len))
    BY <1>2, PartLeaf
  <2> QED
    BY <1>3, <2>1 DEF Rest
<1>5. ASSUME n > 0 PROVE size - lo <= At(wd[n - 1])
  <2>1. Covers(key, flags, text, stack, n, at, wd, n - 1)
    BY <1>1, <1>5 DEF Layout
  <2>2. wd[n - 1] \in Nat /\ wd[n - 1] > 0
    BY <2>1, Double DEF Covers
  <2> DEFINE u == wd[n - 1]
  <2>3. At(0) = 0 /\ At(0) + CHUNK_LEN <= At(u) /\ At(u) \in Nat
    BY <2>2, AtFacts
  <2> HIDE DEF u, lo
  <2>4. len <= At(u)
    BY <2>3, Lengths
  <2> QED
    BY <1>3, <2>4 DEF u
<1> HIDE DEF start, lo
<1>6. Follows(key, flags, text, size, at, wd, n, start)
  BY <1>2, <1>3, <1>4, <1>5 DEF Follows, lo
<1>7. Settled(at, wd, n) /\ n <= n
  BY <1>1, AllSettled
<1> QED
  BY <1>1, <1>6, <1>7, RollUp DEF start

\* Finalising under an empty chunk: the two uppermost values are the root's
\* children or, with more of the stack, of the last subtree.
LEMMA RollOverPair ==
  ASSUME NEW key, NEW flags, NEW text, NEW stack, NEW n \in Nat, n >= 2,
         NEW total \in Nat, StackOf(key, flags, text, stack, n, total),
         NEW g, RollOn(g, 0, n - 2, stack, key, flags,
                       parent_output(ParentBlock(stack[n - 2], stack[n - 1]),
                                     key, flags))
  PROVE  g[0] = NodeOutput(key, flags, 0, Part(text, 0, At(total)))
<1>1. PICK at, wd : Layout(key, flags, text, stack, n, total, at, wd)
  BY DEF StackOf
<1> DEFINE b == at[n - 2]
           u == wd[n - 2]
           a == at[n - 1]
           v == wd[n - 1]
           size == At(total)
<1>2. /\ Covers(key, flags, text, stack, n, at, wd, n - 2)
      /\ Covers(key, flags, text, stack, n, at, wd, n - 1)
      /\ at[n] = total
  BY <1>1 DEF Layout
<1>3. /\ (n - 2) + 1 = n - 1 /\ (n - 1) + 1 = n /\ n - 1 < n
      /\ n - 2 \in Nat /\ n - 2 < n /\ n - 2 <= n /\ n - 1 > 0
      /\ (n - 1) - 1 = n - 2
  OBVIOUS
<1>4. /\ b \in Nat /\ IsPow2(u) /\ Multiple(b, 2 * u) /\ a = b + u
  BY <1>2, <1>3 DEF Covers
<1>5. /\ a \in Nat /\ IsPow2(v) /\ Multiple(a, v) /\ total = a + v
      /\ stack[n - 1] = CVOf(key, flags, text, a, v)
  BY <1>2, <1>3 DEF Covers
<1> HIDE DEF b, u, a, v
<1>6. v <= u /\ u \in Nat /\ v \in Nat /\ v > 0
  BY <1>4, <1>5, NextWidth, Double
<1>7. /\ At(a) \in Nat /\ size = At(a) + At(v) /\ At(v) <= At(u)
      /\ At(v) \in Nat /\ At(u) \in Nat /\ size \in Nat
  BY <1>5, <1>6, AtFacts
<1>8. At(v) > 0
  <2>1. At(0) = 0 /\ At(0) + CHUNK_LEN <= At(v)
    BY <1>6, AtFacts
  <2> QED
    BY <1>7, <2>1, Lengths
<1>9. /\ At(a) < size /\ size - At(a) = At(v)
  BY <1>7, <1>8
<1>10. output_chaining_value(Rest(key, flags, text, size, a)) = stack[n - 1]
  BY <1>5, <1>9 DEF Rest, CVOf, NodeCV
<1> DEFINE last == Rest(key, flags, text, size, a)
<1>11. Follows(key, flags, text, size, at, wd, n - 1, last)
  BY <1>3, <1>7, <1>9 DEF Follows, a, u
<1> HIDE DEF last, size
<1>12. /\ Settled(at, wd, n - 1) /\ Settled(at, wd, n - 2)
  <2>1. Settled(at, wd, n - 1)
    BY <1>1, AllSettled
  <2> QED
    BY <2>1 DEF Settled
<1> DEFINE i == n - 2
<1>13. /\ i \in Nat /\ i < n /\ i <= n /\ Settled(at, wd, i + 1)
       /\ Follows(key, flags, text, size, at, wd, i + 1, last)
       /\ Settled(at, wd, i)
  BY <1>3, <1>11, <1>12
<1> HIDE DEF i
<1>14. Follows(key, flags, text, size, at, wd, i,
         parent_output(ParentBlock(stack[i], output_chaining_value(last)),
                       key, flags))
  BY <1>1, <1>7, <1>13, RollStep DEF size
<1> DEFINE start == parent_output(ParentBlock(stack[i], stack[n - 1]), key, flags)
<1>15. /\ Follows(key, flags, text, size, at, wd, i, start)
       /\ RollOn(g, 0, i, stack, key, flags, start)
  BY <1>10, <1>14 DEF last, i
<1> HIDE DEF start
<1>16. g[0] = NodeOutput(key, flags, 0, Part(text, 0, size))
  BY <1>1, <1>7, <1>13, <1>15, RollUp DEF size
<1> QED
  BY <1>16 DEF size

-----------------------------------------------------------------------------
(***************************************************************************)
(* Where the uppermost k entries of a stack may start.                     *)
(***************************************************************************)
StartsBody(ends, key, flags, text, cv, total) ==
  {lo \in 0..total :
     \E hi \in ends : lo < hi /\ cv = CVOf(key, flags, text, lo, hi - lo)}

StartsOn(g, k, key, flags, text, stack, n, total) ==
  g = [i \in 0..k |->
         IF i = 0 THEN {total}
         ELSE StartsBody(g[i - 1], key, flags, text, stack[n - i], total)]

\* There is a function that collects the starts.
LEMMA StartsExist ==
  ASSUME NEW key, NEW flags, NEW text, NEW stack, NEW n \in Nat, NEW total
  PROVE  \E g : StartsOn(g, n, key, flags, text, stack, n, total)
<1> DEFINE S == {k \in 0..n :
                   \E g : StartsOn(g, k, key, flags, text, stack, n, total)}
<1>1. 0 \in S
  <2> DEFINE g == [i \in 0..0 |-> {total}]
  <2>1. StartsOn(g, 0, key, flags, text, stack, n, total)
    BY DEF StartsOn
  <2> HIDE DEF g
  <2> QED
    BY <2>1
<1>2. ASSUME NEW k \in 0..n, k < n, k \in S PROVE k + 1 \in S
  <2>1. PICK g : StartsOn(g, k, key, flags, text, stack, n, total)
    BY <1>2
  <2> DEFINE h == [i \in 0..(k + 1) |->
                     IF i <= k THEN g[i]
                     ELSE StartsBody(g[k], key, flags, text,
                                     stack[n - (k + 1)], total)]
  <2>2. ASSUME NEW i \in 0..(k + 1)
        PROVE  h[i] = IF i = 0 THEN {total}
                      ELSE StartsBody(h[i - 1], key, flags, text,
                                      stack[n - i], total)
    <3>1. i = 0 \/ h[i - 1] = g[i - 1]
      OBVIOUS
    <3>2. CASE i <= k
      <4>1. h[i] = g[i] /\ i \in 0..k
        BY <3>2
      <4>2. g[i] = IF i = 0 THEN {total}
                   ELSE StartsBody(g[i - 1], key, flags, text,
                                   stack[n - i], total)
        BY <2>1, <4>1 DEF StartsOn
      <4> HIDE DEF h
      <4> QED
        BY <3>1, <4>1, <4>2
    <3>3. CASE i = k + 1
      <4>1. h[i] = StartsBody(g[k], key, flags, text, stack[n - i], total)
            /\ i # 0 /\ i - 1 = k
        BY <3>3
      <4> HIDE DEF h
      <4> QED
        BY <3>1, <4>1
    <3> QED
      BY <3>2, <3>3
  <2>3. h = [i \in 0..(k + 1) |-> h[i]] /\ k + 1 \in 0..n
    BY <1>2
  <2> HIDE DEF h
  <2>4. StartsOn(h, k + 1, key, flags, text, stack, n, total)
    BY <2>2, <2>3 DEF StartsOn
  <2> QED
    BY <2>3, <2>4
<1>3. \A k \in 0..n : k \in S
  <2> HIDE DEF S
  <2> QED
    BY <1>1, <1>2, Induct
<1> QED
  BY <1>3

\* The stack that covers its chunks reaches down to chunk 0.
LEMMA StartsReach ==
  ASSUME NEW key, NEW flags, NEW text, NEW stack, NEW n \in Nat,
         NEW total \in Nat, StackOf(key, flags, text, stack, n, total),
         NEW g, StartsOn(g, n, key, flags, text, stack, n, total)
  PROVE  0 \in g[n]
<1>1. PICK at, wd : Layout(key, flags, text, stack, n, total, at, wd)
  BY DEF StackOf
<1> DEFINE S == {k \in 0..n : at[n - k] \in g[k] /\ at[n - k] <= total
                              /\ at[n - k] \in Nat}
<1>2. 0 \in S
  <2>1. n - 0 = n /\ 0 \in 0..n /\ g[0] = {total} /\ at[n] = total
    BY <1>1 DEF StartsOn, Layout
  <2> QED
    BY <2>1
<1>3. ASSUME NEW k \in 0..n, k < n, k \in S PROVE k + 1 \in S
  <2> DEFINE i == n - (k + 1)
             lo == at[i]
             hi == at[i + 1]
  <2>1. /\ i \in 0..(n - 1) /\ i + 1 = n - k /\ k + 1 \in 0..n
        /\ k + 1 # 0 /\ (k + 1) - 1 = k
    BY <1>3
  <2>2. hi \in g[k] /\ hi <= total /\ hi \in Nat
    BY <1>3, <2>1
  <2>3. Covers(key, flags, text, stack, n, at, wd, i)
    BY <1>1, <2>1 DEF Layout
  <2>4. /\ lo \in Nat /\ wd[i] \in Nat /\ wd[i] > 0 /\ hi = lo + wd[i]
        /\ stack[i] = CVOf(key, flags, text, lo, wd[i])
    BY <2>3, Double DEF Covers
  <2>5. lo < hi /\ hi - lo = wd[i] /\ lo <= total /\ lo \in 0..total
    BY <2>2, <2>4
  <2>6. g[k + 1] = StartsBody(g[k], key, flags, text, stack[i], total)
    BY <2>1 DEF StartsOn
  <2> HIDE DEF i, lo, hi
  <2>7. lo \in g[k + 1]
    BY <2>2, <2>4, <2>5, <2>6 DEF StartsBody
  <2> QED
    BY <2>1, <2>4, <2>5, <2>7 DEF i, lo
<1>4. \A k \in 0..n : k \in S
  <2> HIDE DEF S
  <2> QED
    BY <1>2, <1>3, Induct
<1>5. n \in S /\ n - n = 0 /\ at[0] = 0
  BY <1>1, <1>4 DEF Layout
<1> QED
  BY <1>5

-----------------------------------------------------------------------------
(***************************************************************************)
(* The bytes of a root's output.                                           *)
(***************************************************************************)
OutByte(o, block, at) ==
  [block |-> compress(o.input_cv, o.block, o.block_len, block,
                      o.flags \cup {"ROOT"}),
   at |-> at]

\* Byte p of the unbounded output, which comes in blocks of `size` bytes.
ByteAt(o, p, size) == OutByte(o, p \div size, p % size)

\* The output goes on from block to block.
LEMMA BlocksOn ==
  ASSUME NEW size \in Nat, size > 0, NEW q \in Nat, NEW r \in Nat,
         NEW p, p = size * q + r
  PROVE  /\ p \div size = q + (r \div size)
         /\ p % size = r % size
         /\ r < size => r \div size = 0 /\ r % size = r
<1> DEFINE d == r \div size
           e == r % size
<1>1. d \in Nat /\ e \in Nat /\ e < size /\ r = size * d + e
  OBVIOUS
<1> HIDE DEF d, e
<1>2. p = (q + d) * size + e
  BY <1>1
<1> DEFINE z == q + d
<1>3. z \in Nat /\ p \in Nat /\ p = z * size + e
  BY <1>1, <1>2
<1> HIDE DEF z
<1>4. p \div size = z /\ p % size = e
  BY <1>1, <1>3, DivisionIs
<1>5. ASSUME r < size PROVE d = 0 /\ e = r
  <2> DEFINE o == 0
  <2>1. o \in Nat /\ r = o * size + r
    OBVIOUS
  <2> HIDE DEF o
  <2>2. r \div size = o /\ r % size = r
    BY <1>5, <2>1, DivisionIs
  <2> QED
    BY <2>2 DEF o, d, e
<1> QED
  BY <1>4, <1>5 DEF d, e, z

\* blake3_xof_many yields the bytes of its blocks, one after the other.
LEMMA XofBytesAre ==
  ASSUME NEW o, NEW block, NEW from, NEW n \in Nat
  PROVE  LET s == xof_bytes(o, block, from, n)
         IN  /\ IsSeq(s) /\ Len(s) = n
             /\ \A i \in 1..n : s[i] = OutByte(o, block, from + i - 1)
<1> DEFINE s == xof_bytes(o, block, from, n)
<1>1. s = [i \in 1..n |-> OutByte(o, block, from + i - 1)]
  BY DEF xof_bytes, OutByte
<1>2. s = [i \in 1..n |-> s[i]]
  BY <1>1
<1>3. \A i \in 1..n : s[i] = OutByte(o, block, from + i - 1)
  BY <1>1
<1> HIDE DEF s
<1>4. IsSeq(s) /\ Len(s) = n
  BY <1>2, SeqOf
<1> QED
  BY <1>3, <1>4 DEF s

ManyBlocks(o, start, whole, size) ==
  [i \in 1..(whole * size) |->
     xof_bytes(o, start + ((i - 1) \div size), (i - 1) % size, 1)[1]]

\* n whole blocks from a block on are n * 64 bytes of the output.
LEMMA ManyBlocksIs ==
  ASSUME NEW o, NEW start \in Nat, NEW whole \in Nat, NEW size \in Nat, size > 0
  PROVE  LET s == ManyBlocks(o, start, whole, size)
         IN  /\ IsSeq(s) /\ Len(s) = whole * size
             /\ \A i \in 1..(whole * size) :
                  s[i] = ByteAt(o, size * start + (i - 1), size)
<1> DEFINE s == ManyBlocks(o, start, whole, size)
           n == whole * size
<1>1. n \in Nat
  OBVIOUS
<1>2. ASSUME NEW i \in 1..n
      PROVE  s[i] = ByteAt(o, size * start + (i - 1), size)
  <2> DEFINE b == start + ((i - 1) \div size)
             a == (i - 1) % size
             r == i - 1
             p == size * start + r
  <2>1. s[i] = xof_bytes(o, b, a, 1)[1]
    BY DEF ManyBlocks
  <2>2. r \in Nat /\ a \in Nat /\ a + 1 - 1 = a
    BY <1>1
  <2>3. p \div size = b /\ p % size = a
    <3>1. /\ p \div size = start + (r \div size)
          /\ p % size = r % size
      <4>1. p = size * start + r /\ r \in Nat
        BY <2>2
      <4> HIDE DEF r, p
      <4> QED
        BY <4>1, BlocksOn
    <3> QED
      BY <3>1
  <2> HIDE DEF a, b, p, s
  <2>4. xof_bytes(o, b, a, 1)[1] = OutByte(o, b, a)
    BY <2>2 DEF xof_bytes, OutByte
  <2> QED
    BY <2>1, <2>3, <2>4 DEF ByteAt, p
<1>3. s = [i \in 1..n |-> s[i]]
  BY DEF ManyBlocks
<1> HIDE DEF s, n
<1>4. IsSeq(s) /\ Len(s) = n
  BY <1>1, <1>3, SeqOf
<1> QED
  BY <1>2, <1>4 DEF s, n

\* Three runs, one after the other.
RunsJoin(x, y, z, a, b, c) ==
  /\ IsSeq(x \o y \o z) /\ Len(x \o y \o z) = a + b + c
  /\ \A i \in 1..a : (x \o y \o z)[i] = x[i]
  /\ \A i \in 1..b : (x \o y \o z)[a + i] = y[i]
  /\ \A i \in 1..c : (x \o y \o z)[a + b + i] = z[i]

\* Three runs, one after the other, are one.
LEMMA ThreeRuns ==
  ASSUME NEW x, NEW y, NEW z, IsSeq(x), IsSeq(y), IsSeq(z),
         NEW a \in Nat, NEW b \in Nat, NEW c \in Nat,
         Len(x) = a, Len(y) = b, Len(z) = c
  PROVE  RunsJoin(x, y, z, a, b, c)
<1> DEFINE xy == x \o y
           s  == xy \o z
<1>1. /\ IsSeq(xy) /\ Len(xy) = a + b
      /\ \A i \in 1..(a + b) : xy[i] = IF i <= a THEN x[i] ELSE y[i - a]
  <2>1. /\ IsSeq(xy) /\ Len(xy) = Len(x) + Len(y)
        /\ \A i \in 1..(Len(x) + Len(y)) :
             xy[i] = IF i <= Len(x) THEN x[i] ELSE y[i - Len(x)]
    BY ConcatIs
  <2> HIDE DEF xy
  <2> QED
    BY <2>1
<1> HIDE DEF xy
<1>2. /\ IsSeq(s) /\ Len(s) = a + b + c
      /\ \A i \in 1..(a + b + c) :
           s[i] = IF i <= a + b THEN xy[i] ELSE z[i - (a + b)]
  <2>1. /\ IsSeq(s) /\ Len(s) = Len(xy) + Len(z)
        /\ \A i \in 1..(Len(xy) + Len(z)) :
             s[i] = IF i <= Len(xy) THEN xy[i] ELSE z[i - Len(xy)]
    BY <1>1, ConcatIs
  <2> HIDE DEF s
  <2> QED
    BY <1>1, <2>1
<1> HIDE DEF s
<1>3. ASSUME NEW i \in 1..a PROVE s[i] = x[i]
  BY <1>1, <1>2
<1>4. ASSUME NEW i \in 1..b PROVE s[a + i] = y[i]
  <2> DEFINE j == a + i
  <2>1. j \in 1..(a + b) /\ j \in 1..(a + b + c) /\ ~ (j <= a) /\ j - a = i
    OBVIOUS
  <2> HIDE DEF j
  <2>2. s[j] = y[i]
    BY <1>1, <1>2, <2>1
  <2> QED
    BY <2>2 DEF j
<1>5. ASSUME NEW i \in 1..c PROVE s[a + b + i] = z[i]
  <2> DEFINE j == a + b + i
  <2>1. j \in 1..(a + b + c) /\ ~ (j <= a + b) /\ j - (a + b) = i
    OBVIOUS
  <2> HIDE DEF j
  <2>2. s[j] = z[i]
    BY <1>2, <2>1
  <2> QED
    BY <2>2 DEF j
<1> QED
  BY <1>2, <1>3, <1>4, <1>5 DEF RunsJoin, s, xy

\* Where the three runs of output_root_bytes lie.
LEMMA RunsOf ==
  ASSUME NEW size \in Nat, size > 0, NEW seek \in Nat, NEW n \in Nat,
         NEW offset, offset = seek % size,
         NEW first, first = IF offset = 0 THEN 0
                            ELSE IF n > size - offset THEN size - offset ELSE n,
         NEW start, start = (seek \div size) + (IF offset = 0 THEN 0 ELSE 1),
         NEW whole, whole = (n - first) \div size,
         NEW last, last = (n - first) % size
  PROVE  /\ first \in Nat /\ start \in Nat /\ whole \in Nat /\ last \in Nat
         /\ whole * size \in Nat
         /\ last < size /\ first + whole * size + last = n
         /\ offset \in Nat /\ seek = size * (seek \div size) + offset
         /\ seek \div size \in Nat
         /\ \A i \in 1..first : offset + i - 1 \in Nat /\ offset + i - 1 < size
         /\ whole * size + last > 0 => seek + first = size * start
<1> DEFINE q == seek \div size
<1>1. /\ q \in Nat /\ offset \in Nat /\ offset < size /\ seek = size * q + offset
  OBVIOUS
<1>2. first \in Nat /\ first <= n /\ n - first \in Nat
  BY <1>1
<1>3. whole \in Nat /\ last \in Nat /\ last < size
      /\ n - first = size * whole + last
  BY <1>2
<1>4. size * whole = whole * size /\ whole * size \in Nat
  BY <1>3
<1>5. \A i \in 1..first : offset + i - 1 \in Nat /\ offset + i - 1 < size
  BY <1>1
<1>6. ASSUME whole * size + last > 0 PROVE seek + first = size * start
  <2>1. n - first > 0
    BY <1>3, <1>4, <1>6
  <2>2. CASE offset = 0
    <3>1. first = 0 /\ start = q
      BY <1>1, <2>2
    <3> QED
      BY <1>1, <2>2, <3>1
  <2>3. CASE offset # 0
    <3>1. first = size - offset /\ start = q + 1
      BY <1>1, <2>1, <2>3
    <3>2. size * (q + 1) = size * q + size
      BY <1>1
    <3> QED
      BY <1>1, <3>1, <3>2
  <2> QED
    BY <2>2, <2>3
<1> HIDE DEF q
<1>7. start \in Nat
  BY <1>1 DEF q
<1> DEFINE ws == whole * size
<1>8. first + ws + last = n
  <2>1. ws \in Nat /\ n - first = ws + last
    BY <1>3, <1>4
  <2> HIDE DEF ws
  <2> QED
    BY <1>2, <1>3, <2>1
<1> QED
  BY <1>1, <1>2, <1>3, <1>4, <1>5, <1>6, <1>7, <1>8 DEF q

\* output_root_bytes computes the end of a first block, whole blocks and the
\* start of a last one; together they are the n bytes from `seek` on of one
\* unbounded output, so that what is read does not depend on where one seeks.
THEOREM OutputBytes ==
  ASSUME NEW o, NEW seek \in Nat, NEW n \in Nat
  PROVE  output_root_bytes(o, seek, n) =
           [i \in 1..n |-> ByteAt(o, seek + i - 1, 2 * OUT_LEN)]
<1> DEFINE size   == 2 * OUT_LEN
           offset == seek % size
           first  == IF offset = 0 THEN 0
                     ELSE IF n > size - offset THEN size - offset ELSE n
           q      == seek \div size
           start  == (seek \div size) + (IF offset = 0 THEN 0 ELSE 1)
           whole  == (n - first) \div size
           last   == (n - first) % size
           x      == xof_bytes(o, q, offset, first)
           y      == ManyBlocks(o, start, whole, size)
           z      == xof_bytes(o, start + whole, 0, last)
           s      == x \o y \o z
           ws     == whole * size
<1>1. size \in Nat /\ size > 0
  BY LenAssumption
<1>2. output_root_bytes(o, seek, n) = s
  BY DEF output_root_bytes, ManyBlocks
<1> HIDE DEF size
<1>3. /\ first \in Nat /\ start \in Nat /\ whole \in Nat /\ last \in Nat
      /\ ws \in Nat /\ last < size /\ first + ws + last = n
      /\ offset \in Nat /\ seek = size * q + offset /\ q \in Nat
      /\ \A i \in 1..first : offset + i - 1 \in Nat /\ offset + i - 1 < size
      /\ ws + last > 0 => seek + first = size * start
  BY <1>1, RunsOf
<1> HIDE DEF offset, first, q, start, whole, last
<1>4. /\ IsSeq(x) /\ Len(x) = first
      /\ \A i \in 1..first : x[i] = OutByte(o, q, offset + i - 1)
  BY <1>3, XofBytesAre
<1>5. /\ IsSeq(y) /\ Len(y) = ws
      /\ \A i \in 1..ws : y[i] = ByteAt(o, size * start + (i - 1), size)
  BY <1>1, <1>3, ManyBlocksIs
<1>6. /\ IsSeq(z) /\ Len(z) = last
      /\ \A i \in 1..last : z[i] = OutByte(o, start + whole, i - 1)
  <2> DEFINE b == start + whole
             from == 0
  <2>1. LET t == xof_bytes(o, b, from, last)
        IN  /\ IsSeq(t) /\ Len(t) = last
            /\ \A i \in 1..last : t[i] = OutByte(o, b, from + i - 1)
    <3> HIDE DEF b, from
    <3> QED
      BY <1>3, XofBytesAre
  <2>2. \A i \in 1..last : 0 + i - 1 = i - 1
    OBVIOUS
  <2> QED
    BY <2>1, <2>2
<1> HIDE DEF x, y, z, ws
<1>7. /\ IsSeq(s) /\ Len(s) = n
      /\ \A i \in 1..first : s[i] = x[i]
      /\ \A i \in 1..ws : s[first + i] = y[i]
      /\ \A i \in 1..last : s[first + ws + i] = z[i]
  <2>1. first \in Nat /\ ws \in Nat /\ last \in Nat
        /\ IsSeq(x) /\ IsSeq(y) /\ IsSeq(z)
        /\ Len(x) = first /\ Len(y) = ws /\ Len(z) = last
    BY <1>3, <1>4, <1>5, <1>6
  <2>2. /\ IsSeq(s) /\ Len(s) = first + ws + last
        /\ \A i \in 1..first : s[i] = x[i]
        /\ \A i \in 1..ws : s[first + i] = y[i]
        /\ \A i \in 1..last : s[first + ws + i] = z[i]
    <3>1. RunsJoin(x, y, z, first, ws, last)
      BY <2>1, ThreeRuns
    <3> QED
      BY <3>1 DEF RunsJoin
  <2> HIDE DEF s
  <2> QED
    BY <1>3, <2>2
<1> HIDE DEF s
<1>8. ASSUME NEW i \in 1..n PROVE s[i] = ByteAt(o, seek + i - 1, size)
  <2>1. CASE i <= first
    <3> DEFINE r == offset + i - 1
               p == seek + i - 1
    <3>1. r \in Nat /\ r < size /\ i \in 1..first
      BY <1>3, <2>1
    <3>2. p = size * q + r
      <4> DEFINE sq == size * q
      <4>1. sq \in Nat /\ seek = sq + offset /\ offset \in Nat
        BY <1>1, <1>3
      <4> HIDE DEF sq
      <4>2. p = sq + r
        BY <4>1
      <4> QED
        BY <4>2 DEF sq
    <3>3. s[i] = OutByte(o, q, r)
      BY <1>4, <1>7, <3>1
    <3> HIDE DEF r, p
    <3>4. p \div size = q + (r \div size) /\ p % size = r % size
          /\ r \div size = 0 /\ r % size = r
      BY <1>1, <1>3, <3>1, <3>2, BlocksOn
    <3>5. p \div size = q /\ p % size = r
      BY <1>3, <3>4
    <3>6. s[i] = ByteAt(o, p, size)
      BY <3>3, <3>5 DEF ByteAt
    <3> QED
      BY <3>6 DEF p
  <2>2. CASE ~ (i <= first) /\ i <= first + ws
    <3> DEFINE j == i - first
    <3>1. j \in 1..ws /\ first + j = i /\ ws + last > 0
      BY <1>3, <2>2
    <3>2. size * start + (j - 1) = seek + i - 1
      <4>1. seek + first = size * start
        BY <1>3, <3>1
      <4> HIDE DEF j
      <4> QED
        BY <1>3, <3>1, <4>1
    <3> HIDE DEF j
    <3> QED
      BY <1>5, <1>7, <3>1, <3>2
  <2>3. CASE ~ (i <= first + ws)
    <3> DEFINE r == i - (first + ws) - 1
               p == seek + i - 1
               b == start + whole
    <3>1. r \in Nat /\ r < size /\ r + 1 \in 1..last
          /\ first + ws + (r + 1) = i /\ (r + 1) - 1 = r /\ b \in Nat
      <4>1. /\ first \in Nat /\ ws \in Nat /\ last \in Nat /\ b \in Nat
            /\ first + ws + last = n /\ last < size
        BY <1>3
      <4> HIDE DEF b
      <4> QED
        BY <1>1, <2>3, <4>1
    <3>2. p = size * b + r
      <4>1. seek + first = size * start
        BY <1>3, <2>3
      <4>2. size * b = size * start + size * whole /\ ws = size * whole
        BY <1>1, <1>3 DEF ws
      <4> HIDE DEF b
      <4>3. p = (seek + first) + ws + r
        BY <1>3
      <4> QED
        BY <4>1, <4>2, <4>3
    <3>3. s[i] = OutByte(o, b, r)
      <4> DEFINE k == r + 1
      <4>1. k \in 1..last /\ first + ws + k = i /\ k - 1 = r
        BY <3>1
      <4> HIDE DEF k, r, b
      <4>2. s[first + ws + k] = z[k] /\ z[k] = OutByte(o, start + whole, k - 1)
        BY <1>6, <1>7, <4>1
      <4> QED
        BY <4>1, <4>2 DEF b
    <3> HIDE DEF r, p, b
    <3>4. p \div size = b + (r \div size) /\ p % size = r % size
          /\ r \div size = 0 /\ r % size = r
      BY <1>1, <3>1, <3>2, BlocksOn
    <3>5. p \div size = b /\ p % size = r
      BY <3>1, <3>4
    <3>6. s[i] = ByteAt(o, p, size)
      BY <3>3, <3>5 DEF ByteAt
    <3> QED
      BY <3>6 DEF p
  <2> QED
    BY <2>1, <2>2, <2>3
<1>9. s = [i \in 1..n |-> s[i]]
  BY <1>7 DEF IsSeq
<1>10. s = [i \in 1..n |-> ByteAt(o, seek + i - 1, size)]
  BY <1>8, <1>9
<1> QED
  BY <1>2, <1>10 DEF size
=============================================================================
