------------------------------ MODULE Fips197 -------------------------------
(***************************************************************************)
(* The cipher as FIPS 197 defines it: a state of sixteen bytes, column by  *)
(* column, bytes as elements of GF(2^8), rounds of SubBytes, ShiftRows,    *)
(* MixColumns and AddRoundKey.                                             *)
(***************************************************************************)
EXTENDS Words

Plus(a, b) == XOR[a][b]
Double == [a \in Byte |-> Plus((2 * a) % 256, IF a >= 128 THEN 27 ELSE 0)]

\* The product of a and b, from the highest bit of b down.
Times(a, b) ==
  LET p[i \in 0..8] ==
        IF i = 0 THEN 0
        ELSE LET before == p[i-1]
             IN  Plus(a * ((b \div 2 ^ (8 - i)) % 2), Double[before])
  IN  p[8]

\* The inverse of a, and 0 for 0: a to the power 254, the product of the
\* squares a^2, a^4, ..., a^128.
Inverse ==
  LET next(square, product) == <<square, Times(product, square)>>
      powers(a) == LET p[i \in 0..7] ==
                         IF i = 0 THEN <<a, 1>>
                         ELSE LET b == p[i-1] IN next(Times(b[1], b[1]), b[2])
                   IN  p[7]
  IN  [a \in Byte |-> powers(a)[2]]

\* The inverse, then an affine map of the bits.
SBox ==
  LET bit(b, i) == ((b \div 2 ^ (i % 8)) + (b \div 2 ^ ((i + 4) % 8))
                     + (b \div 2 ^ ((i + 5) % 8)) + (b \div 2 ^ ((i + 6) % 8))
                     + (b \div 2 ^ ((i + 7) % 8)) + (99 \div 2 ^ i)) % 2
      affine(b) == bit(b, 0) + 2 * bit(b, 1) + 4 * bit(b, 2) + 8 * bit(b, 3)
                     + 16 * bit(b, 4) + 32 * bit(b, 5) + 64 * bit(b, 6)
                     + 128 * bit(b, 7)
  IN  [a \in Byte |-> affine(Inverse[a])]

SubBytes(s) == Sixteen([i \in 0..15 |-> SBox[s[i + 1]]])

\* Byte i is in row i % 4 of column i \div 4; row r moves by r columns.
ShiftRows(s) == Sixteen([i \in 0..15 |-> s[1 + ((i + 4 * (i % 4)) % 16)]])

MixColumns(s) ==
  LET in(i, r) == s[4 * (i \div 4) + 1 + ((i + r) % 4)]
  IN  Sixteen([i \in 0..15 |->
        Plus(Plus(Double[in(i, 0)], Plus(Double[in(i, 1)], in(i, 1))),
             Plus(in(i, 2), in(i, 3)))])

AddRoundKey(s, w, round) ==
  Sixteen([i \in 0..15 |->
             Plus(s[i + 1], w[4 * round + 1 + (i \div 4)][1 + (i % 4)])])

\* Number of rounds, and the words of the key schedule, for a key of Nk words.
Rounds(key) == 6 + (Len(key) \div 4)

KeyExpansion(key) ==
  LET Nk == Len(key) \div 4
      SubWord(v) == [k \in 1..4 |-> SBox[v[k]]]
      RotWord(v) == <<v[2], v[3], v[4], v[1]>>
      Rcon[i \in 1..10] == IF i = 1 THEN 1 ELSE Double[Rcon[i-1]]
      \* w[i], after the words w[0], ..., w[i-1] in the sequence w.
      next(w, i) ==
        LET temp == IF i % Nk = 0
                    THEN xorw(SubWord(RotWord(w[i])), <<Rcon[i \div Nk], 0, 0, 0>>)
                    ELSE IF Nk > 6 /\ i % Nk = 4 THEN SubWord(w[i])
                    ELSE w[i]
        IN  xorw(w[i - Nk + 1], temp)
      first[i \in Nk..(4 * (Rounds(key) + 1))] ==
        IF i = Nk THEN [k \in 1..Nk |-> SubSeq(key, 4 * k - 3, 4 * k)]
        ELSE LET before == first[i-1] IN Append(before, next(before, i - 1))
  IN  first[4 * (Rounds(key) + 1)]

Cipher(w, Nr, input) ==
  LET state[r \in 0..Nr] ==
        IF r = 0 THEN AddRoundKey(input, w, 0)
        ELSE LET before == state[r-1]
                 moved  == ShiftRows(SubBytes(before))
             IN  AddRoundKey(IF r = Nr THEN moved ELSE MixColumns(moved), w, r)
  IN  state[Nr]

=============================================================================
