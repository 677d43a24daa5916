----------------------------- MODULE AesVectors -----------------------------
(***************************************************************************)
(* The two experiments with vector registers: aes_cipher_avx2 and          *)
(* aes_cipher_vtype, each meant to encrypt two blocks at once under the    *)
(* round keys RK of an aes_context.                                        *)
(***************************************************************************)
EXTENDS Aes

F == INSTANCE Fips197

\* Bytes, v ^ w byte by byte, and the words RK[i], ..., RK[i+n-1] as bytes,
\* with the indices of C.
xor_bytes(v, w) == [i \in 1..Len(v) |-> XOR[v[i]][w[i]]]
key_bytes(RK, i, n) == store_words([k \in 0..(n - 1) |-> RK[i + k + 1]], n)

\* _mm_aesenc_si128 and _mm_aesenclast_si128, as the processor defines them.
aesenc(state, key) ==
  LET moved == F!ShiftRows(F!SubBytes(state))
  IN  xor_bytes(F!MixColumns(moved), key)
aesenclast(state, key) ==
  LET moved == F!ShiftRows(F!SubBytes(state)) IN xor_bytes(moved, key)

\* Wrong on purpose: the loop of main rounds runs once more.
main_rounds_too_many(rounds) == rounds
main_rounds(rounds) == rounds - 1

aes_cipher_avx2(RK, rounds, input) ==
  LET key_schedule(i) == key_bytes(RK, 4 * i, 4)
      block(j) == SubSeq(input, 16 * j + 1, 16 * j + 16)
      state(j) ==
        LET s[i \in 0..main_rounds(rounds)] ==
              IF i = 0 THEN xor_bytes(block(j), key_schedule(0))
              ELSE LET before == s[i-1] IN aesenc(before, key_schedule(i))
        IN  aesenclast(s[main_rounds(rounds)], key_schedule(rounds))
  IN  state(0) \o state(1)

\* Two registers of vl lanes of 64 bits: the second starts eight bytes, and
\* two words of the round keys, after the first.
aes_cipher_vtype(RK, rounds, input, output, vl) ==
  LET state(at, word) ==
        LET s[i \in 0..rounds] ==
              xor_bytes(IF i = 0 THEN SubSeq(input, at + 1, at + 8 * vl)
                        ELSE s[i-1],
                        key_bytes(RK, 2 * i + word, 2 * vl))
        IN  s[rounds]
      stored(at, bytes, memory) ==
        [k \in 1..Len(memory) |->
           IF k \in (at + 1)..(at + 8 * vl) THEN bytes[k - at] ELSE memory[k]]
  IN  stored(8, state(8, 2), stored(0, state(0, 0), output))

=============================================================================
