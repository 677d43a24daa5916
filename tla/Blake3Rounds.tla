---------------------------- MODULE Blake3Rounds ----------------------------
(***************************************************************************)
(* The compression function of blake3_portable.c, which the other modules  *)
(* keep uninterpreted, down to its 32-bit words.  A state is a function on *)
(* 0..15, as the array is indexed in the code; cv has its indices 0..7; a  *)
(* block is 64 bytes; the counter is the sequence of its eight bytes, the  *)
(* least significant first.                                                *)
(***************************************************************************)
EXTENDS Words

IV == [i \in 0..7 |->
  << <<\h67, \hE6, \h09, \h6A>>, <<\h85, \hAE, \h67, \hBB>>,
     <<\h72, \hF3, \h6E, \h3C>>, <<\h3A, \hF5, \h4F, \hA5>>,
     <<\h7F, \h52, \h0E, \h51>>, <<\h8C, \h68, \h05, \h9B>>,
     <<\hAB, \hD9, \h83, \h1F>>, <<\h19, \hCD, \hE0, \h5B>> >>[i + 1]]

MSG_SCHEDULE ==
  << <<0, 1, 2, 3, 4, 5, 6, 7, 8, 9, 10, 11, 12, 13, 14, 15>>,
     <<2, 6, 3, 10, 7, 0, 4, 13, 1, 11, 12, 5, 9, 14, 15, 8>>,
     <<3, 4, 10, 12, 13, 2, 7, 14, 6, 5, 9, 0, 11, 15, 8, 1>>,
     <<10, 7, 12, 9, 14, 3, 13, 15, 4, 0, 11, 2, 5, 8, 1, 6>>,
     <<12, 13, 9, 11, 15, 10, 14, 8, 7, 2, 5, 3, 0, 1, 6, 4>>,
     <<9, 14, 11, 5, 8, 12, 15, 1, 13, 3, 0, 10, 2, 6, 4, 7>>,
     <<11, 15, 5, 0, 1, 9, 8, 6, 14, 10, 2, 12, 3, 4, 7, 13>> >>

counter_low(counter) == SubSeq(counter, 1, 4)
counter_high(counter) == SubSeq(counter, 5, 8)

load_block_words(block) == [i \in 0..15 |-> load_word(block, i)]
load_key_words(key) == [i \in 0..7 |-> load_word(key, i)]

\* The first half of g, and with other rotations the second, on the words a, b,
\* c and d of the state.
half_g(v, x, by_d, by_b) ==
  LET a == add(add(v[1], v[2]), x)
      d == rotate_right(xorw(v[4], a), by_d)
      c == add(v[3], d)
  IN  <<a, rotate_right(xorw(v[2], c), by_b), c, d>>

stored(state, at, v) ==
  [state EXCEPT ![at[1]] = v[1], ![at[2]] = v[2], ![at[3]] = v[3], ![at[4]] = v[4]]

g(state, at, x, y) ==
  LET v == <<state[at[1]], state[at[2]], state[at[3]], state[at[4]]>>
  IN  stored(state, at, half_g(half_g(v, x, 16, 12), y, 8, 7))

\* Wrong on purpose: every round uses the schedule of the first one.
schedule_of_first(round) == MSG_SCHEDULE[1]

schedule_of(round) == MSG_SCHEDULE[round + 1]

\* The columns, then the rows, in the order they are mixed.
Mixed == << <<0, 4, 8, 12>>, <<1, 5, 9, 13>>, <<2, 6, 10, 14>>, <<3, 7, 11, 15>>,
            <<0, 5, 10, 15>>, <<1, 6, 11, 12>>, <<2, 7, 8, 13>>, <<3, 4, 9, 14>> >>

round_fn(state, msg, round) ==
  LET m(i) == msg[schedule_of(round)[i]]
      s[k \in 0..8] == IF k = 0 THEN state
                       ELSE g(s[k-1], Mixed[k], m(2 * k - 1), m(2 * k))
  IN  s[8]

compress_pre(cv, block, block_len, counter, flags) ==
  LET start == [i \in 0..15 |->
                  IF i < 8 THEN cv[i]
                  ELSE IF i < 12 THEN IV[i - 8]
                  ELSE << counter_low(counter), counter_high(counter),
                          ByteWord(block_len), ByteWord(flags) >>[i - 11]]
      r[k \in 0..7] == IF k = 0 THEN start
                       ELSE round_fn(r[k-1], load_block_words(block), k - 1)
  IN  r[7]

compress_in_place(cv, block, block_len, counter, flags) ==
  LET state == compress_pre(cv, block, block_len, counter, flags)
  IN  [i \in 0..7 |-> xorw(state[i], state[i + 8])]

compress_xof(cv, block, block_len, counter, flags) ==
  LET state == compress_pre(cv, block, block_len, counter, flags)
  IN  store_words([i \in 0..15 |->
                     IF i < 8 THEN xorw(state[i], state[i + 8])
                     ELSE xorw(state[i], cv[i - 8])], 16)

store_cv_words(cv) == store_words(cv, 8)

=============================================================================
