-------------------------- MODULE Blake3Reference ---------------------------
(***************************************************************************)
(* The compression function as BLAKE3 is defined, for comparison: a word   *)
(* is the set of the positions of its 1 bits, the state is a 4x4 matrix    *)
(* that a round mixes by columns and then by diagonals, and between two    *)
(* rounds the message words are permuted, always in the same way.          *)
(***************************************************************************)
EXTENDS Integers, Sequences

Positions == 0..31

\* The bits of a sequence of four bytes, least significant first.
Bits(w) == {i \in Positions : (w[1 + (i \div 8)] \div 2 ^ (i % 8)) % 2 = 1}

Sum(v, w) ==
  LET carry(i) == \E j \in 0..(i - 1) :
                    /\ j \in v /\ j \in w
                    /\ \A k \in (j + 1)..(i - 1) : k \in v \/ k \in w
  IN  {i \in Positions : (((i \in v) # (i \in w)) # carry(i))}

Rotated(w, n) == {(i + 32 - n) % 32 : i \in w}
Either(v, w) == (v \ w) \cup (w \ v)

\* One column (or diagonal) <<a, b, c, d>> and the two message words x and y.
Quarter(col, x, y) ==
  LET a == Sum(Sum(col[1], col[2]), x)
      d == Rotated(Either(col[4], a), 16)
      c == Sum(col[3], d)
      b == Rotated(Either(col[2], c), 12)
      e == Sum(Sum(a, b), y)
      h == Rotated(Either(d, e), 8)
      f == Sum(c, h)
  IN  <<e, Rotated(Either(b, f), 7), f, h>>

\* Row r of the matrix moved by k * (r - 1) columns.
Skewed(s, k) ==
  LET column(i) == << s[1 + i][1], s[1 + ((i + k) % 4)][2],
                      s[1 + ((i + 2 * k) % 4)][3], s[1 + ((i + 3 * k) % 4)][4] >>
  IN  <<column(0), column(1), column(2), column(3)>>

Half(s, m(_), first) ==
  << Quarter(s[1], m(first), m(first + 1)),
     Quarter(s[2], m(first + 2), m(first + 3)),
     Quarter(s[3], m(first + 4), m(first + 5)),
     Quarter(s[4], m(first + 6), m(first + 7)) >>

Round(s, m(_)) == Skewed(Half(Skewed(Half(s, m, 0), 1), m, 8), 3)

Permutation == <<2, 6, 3, 10, 7, 0, 4, 13, 1, 11, 12, 5, 9, 14, 15, 8>>

\* Which message word is in place i in round r.
InPlace[r \in 0..6] ==
  [i \in 0..15 |-> IF r = 0 THEN i ELSE InPlace[r - 1][Permutation[i + 1]]]

\* The first words of the fractional parts of the square roots of the first
\* eight primes.
InitialVector ==
  << <<103, 230, 9, 106>>, <<133, 174, 103, 187>>, <<114, 243, 110, 60>>,
     <<58, 245, 79, 165>>, <<127, 82, 14, 81>>, <<140, 104, 5, 155>>,
     <<171, 217, 131, 31>>, <<25, 205, 224, 91>> >>

\* The sixteen words of the output, from a chaining value of eight words, a
\* message of sixteen, and the four words of counter, length and flags.
Compression(cv, message, parameters) ==
  LET m(r, i) == Bits(message[InPlace[r][i] + 1])
      column(i) == << Bits(cv[i]), Bits(cv[4 + i]), Bits(InitialVector[i]),
                      Bits(parameters[i]) >>
      s[r \in 0..7] == IF r = 0 THEN <<column(1), column(2), column(3), column(4)>>
                       ELSE Round(s[r-1], LAMBDA i : m(r - 1, i))
      end == s[7]
      word(k) == end[1 + (k % 4)][1 + (k \div 4)]
  IN  [k \in 0..15 |->
         IF k < 8 THEN Either(word(k), word(k + 8))
         ELSE Either(word(k), Bits(cv[k - 7]))]

=============================================================================
