-------------------------------- MODULE Aes ---------------------------------
(***************************************************************************)
(* The key schedule and the cipher of aes.c, and the two vector versions   *)
(* of the cipher.  T is what the static arrays hold (AesTables), a block   *)
(* or a key is a sequence of bytes, a round key buffer a sequence of words *)
(* indexed from 1.                                                         *)
(***************************************************************************)
EXTENDS AesTables

\* FSb on the bytes of w, and on those of w turned by a byte.
sub_word(T, w) == <<T.FSb[w[1]], T.FSb[w[2]], T.FSb[w[3]], T.FSb[w[4]]>>
sub_turned(T, w) == <<T.FSb[w[2]], T.FSb[w[3]], T.FSb[w[4]], T.FSb[w[1]]>>

\* RK[0] ^ RCON[i] ^ the substituted last word.
first_word(T, RK, i) ==
  xorw(xorw(RK[1], ByteWord(T.RCON[i])), sub_turned(T, RK[Len(RK)]))

\* Wrong on purpose: the second half of a 256-bit key is not substituted.
carried_linear(T, n, k, w) == w

\* What is XORed into word k of n: the word before it, through FSb in the
\* middle of a 256-bit key.
carried(T, n, k, w) == IF n = 8 /\ k = 5 THEN sub_word(T, w) ELSE w

\* One iteration of the loop of each case: as many words as RK has.
expand(T, RK, i) ==
  LET n == Len(RK)
      w[k \in 1..n] ==
        IF k = 1 THEN first_word(T, RK, i)
        ELSE LET before == w[k-1] IN xorw(RK[k], carried(T, n, k, before))
  IN  [k \in 1..n |-> w[k]]

\* The words the loop leaves in the buffer; 12 rounds fill more than they use.
aes_set_encryption_key(T, key, rounds) ==
  LET words == [i \in 1..(Len(key) \div 4) |-> load_word(key, i - 1)]
      iterations == CASE rounds = 10 -> 10 [] rounds = 12 -> 8
                      [] rounds = 14 -> 7
      filled[i \in 0..iterations] ==
        IF i = 0 THEN words
        ELSE LET before == filled[i-1]
                 last == SubSeq(before, Len(before) - Len(words) + 1, Len(before))
             IN  before \o expand(T, last, i - 1)
  IN  filled[iterations]

\* A word of the schedule through FSb and the reverse tables.
unmixed(T, w) ==
  xorw(xorw(T.RT[1][T.FSb[w[1]]], T.RT[2][T.FSb[w[2]]]),
       xorw(T.RT[3][T.FSb[w[3]]], T.RT[4][T.FSb[w[4]]]))

\* The round keys backwards, all but the first and the last unmixed.
aes_set_decryption_key(T, key, rounds) ==
  LET SK == aes_set_encryption_key(T, key, rounds)
      reversed(group, word) ==
        IF group \in {0, rounds} THEN word ELSE unmixed(T, word)
  IN  [k \in 1..(4 * (rounds + 1)) |->
         LET group == (k - 1) \div 4
         IN  reversed(group, SK[4 * (rounds - group) + 1 + ((k - 1) % 4)])]

-----------------------------------------------------------------------------
\* The byte that goes into byte k of column c: one column further for each
\* byte, to the right in encryption and to the left in decryption.
shifted(Y, c, k, step) == Y[1 + ((c + step * k) % 4)][k + 1]

\* AES_FROUND and AES_RROUND on the columns Y, with the round key at RK[at].
table_round(tables, RK, at, Y, step) ==
  LET column(c) ==
        xorw(RK[at + c],
             xorw(xorw(tables[1][shifted(Y, c, 0, step)],
                       tables[2][shifted(Y, c, 1, step)]),
                  xorw(tables[3][shifted(Y, c, 2, step)],
                       tables[4][shifted(Y, c, 3, step)])))
  IN  <<column(0), column(1), column(2), column(3)>>

last_round(sbox, RK, at, Y, step) ==
  LET column(c) ==
        xorw(RK[at + c],
             << sbox[shifted(Y, c, 0, step)], sbox[shifted(Y, c, 1, step)],
                sbox[shifted(Y, c, 2, step)], sbox[shifted(Y, c, 3, step)] >>)
  IN  <<column(0), column(1), column(2), column(3)>>

\* Wrong on purpose: the single round after the pairs is forgotten.
rounds_in_pairs(rounds) == 2 * ((rounds \div 2) - 1)

\* Pairs of rounds while i > 0, and one more.
rounds_by_table(rounds) == 2 * ((rounds \div 2) - 1) + 1

aes_cipher(T, mode, RK, rounds, input) ==
  LET start == << xorw(load_word(input, 0), RK[1]), xorw(load_word(input, 1), RK[2]),
                  xorw(load_word(input, 2), RK[3]), xorw(load_word(input, 3), RK[4]) >>
      n == rounds_by_table(rounds)
      X[r \in 0..n] ==
        IF r = 0 THEN start
        ELSE IF mode = "DECRYPT" THEN table_round(T.RT, RK, 4 * r + 1, X[r-1], -1)
        ELSE table_round(T.FT, RK, 4 * r + 1, X[r-1], 1)
      end == IF mode = "DECRYPT"
             THEN last_round(T.RSb, RK, 4 * (n + 1) + 1, X[n], -1)
             ELSE last_round(T.FSb, RK, 4 * (n + 1) + 1, X[n], 1)
  IN  end[1] \o end[2] \o end[3] \o end[4]

=============================================================================
