------------------------------- MODULE GcmMode ------------------------------
(***************************************************************************)
(* What Galois/counter mode computes, written down directly: byte i of the *)
(* output is byte i of the input XORed with the keystream, whose block k   *)
(* is the cipher of the first counter plus k, and the tag is the cipher of *)
(* the first counter XORed with one hash, of the additional data, the      *)
(* ciphertext and the two lengths, each padded to blocks.                  *)
(***************************************************************************)
EXTENDS GcmCalls

\* What a byte with m bytes below it counts for, how many values the counter
\* has, and a number as the bytes of a counter.
Place[m \in 0..CTR_LEN] == IF m = 0 THEN 1 ELSE BYTE * Place[m-1]
Counters == Place[CTR_LEN]
AsBytes(n) ==
  [i \in 1..CTR_LEN |-> (n \div Place[CTR_LEN - i]) % BYTE]
AsNumber(ctr) ==
  LET value[i \in 0..CTR_LEN] ==
        IF i = 0 THEN 0 ELSE value[i-1] * BYTE + ctr[i]
  IN  value[CTR_LEN]

\* Zero-padded blocks; as a hash, they are the same without leading zeros.
Padded(bytes) ==
  [k \in 1..Blocks(Len(bytes)) |->
     [i \in 1..BLOCK_LEN |->
        IF (k - 1) * BLOCK_LEN + i <= Len(bytes)
        THEN bytes[(k - 1) * BLOCK_LEN + i] ELSE {}]]

Significant(blocks) ==
  LET leading == {n \in 0..Len(blocks) : \A k \in 1..n : blocks[k] = ZeroBlock}
  IN  SubSeq(blocks, 1 + (CHOOSE n \in leading : \A m \in leading : m <= n),
             Len(blocks))

GHASH(key, blocks) ==
  LET s == Significant(blocks)
  IN  [i \in 1..BLOCK_LEN |->
         IF s = <<>> THEN {} ELSE {[key |-> key, ghash |-> s, at |-> i]}]

\* The counter block before the one for the first block of data.
J0(iv) ==
  LET bits   == [ZeroBlock EXCEPT ![BLOCK_LEN] =
                   IF iv = <<>> THEN {} ELSE {[bits |-> Len(iv) * 8]}]
      blocks == Significant(Padded(iv) \o <<bits>>)
  IN  IF Len(iv) = IV_LEN
      THEN counter_block(iv, <<>>, AsBytes(1))
      ELSE counter_block(<<>>, blocks, HashedCounter(blocks))

Keystream(key, iv, i) ==
  LET j0 == J0(iv)
      k  == 1 + ((i - 1) \div BLOCK_LEN)
      y  == counter_block(j0.native, j0.hashed,
                          AsBytes((AsNumber(j0.ctr) + k) % Counters))
  IN  aes_cipher(key, y)[1 + ((i - 1) % BLOCK_LEN)]

\* Encryption and decryption are the same map.
Crypt(key, iv, bytes) ==
  [i \in 1..Len(bytes) |-> xor(bytes[i], Keystream(key, iv, i))]

Tag(key, iv, add, ciphertext, tag_len) ==
  LET lengths == length_block(Len(add), Len(ciphertext))
      hash    == GHASH(key, Padded(add) \o Padded(ciphertext) \o <<lengths>>)
  IN  [i \in 1..tag_len |-> xor(aes_cipher(key, J0(iv))[i], hash[i])]

=============================================================================
