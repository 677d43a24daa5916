------------------------------ MODULE GcmCalls ------------------------------
(***************************************************************************)
(* gcm.c: what each call does to a gcm_context and to the caller's memory. *)
(*                                                                         *)
(* A data byte is the set of the unknowns it is the XOR of, so that xor is *)
(* symmetric difference and the zero byte is {}.  The block cipher and the *)
(* multiplication by H stay uninterpreted: their results are unknowns that *)
(* name their arguments, except that zero times H is zero.  A running hash *)
(* is the sequence of blocks multiplied into it since it was zero, and the *)
(* block XORed onto that but not yet multiplied.                           *)
(***************************************************************************)
EXTENDS Integers, Sequences

CONSTANTS BLOCK_LEN,  \* bytes of a cipher block (16)
          IV_LEN,     \* bytes of an IV that is used as it is (12)
          BYTE,       \* values of a byte (256)
          WORD,       \* values of the word an IV's bit count goes into (2^32)
          KeySizes,   \* legal key sizes in bytes (16, 24, 32)
          Null,       \* the null pointer, and a table of zeros
          HashedCounter(_)  \* the last bytes of a hashed IV

CTR_LEN == BLOCK_LEN - IV_LEN

ASSUME BlockAssumption ==
  /\ BLOCK_LEN \in Nat /\ IV_LEN \in Nat \ {0}
  /\ IV_LEN < BLOCK_LEN
  /\ BYTE \in Nat /\ BYTE > 1
  /\ WORD \in Nat \ {0}

xor(a, b) == (a \ b) \cup (b \ a)

ZeroBlock == [i \in 1..BLOCK_LEN |-> {}]

-----------------------------------------------------------------------------
(***************************************************************************)
(* The running hash.  H is the key the tables HL and HH were computed for. *)
(***************************************************************************)
running_hash(absorbed, pending) == [absorbed |-> absorbed, pending |-> pending]

HashZero == running_hash(<<>>, ZeroBlock)

\* The first bytes of the hash are XORed with those of `bytes`.
xor_in(h, bytes) ==
  running_hash(h.absorbed,
               [i \in 1..BLOCK_LEN |->
                  IF i <= Len(bytes) THEN xor(h.pending[i], bytes[i])
                  ELSE h.pending[i]])

gcm_mult(H, h) ==
  IF H = Null \/ h = HashZero THEN HashZero
  ELSE running_hash(Append(h.absorbed, h.pending), ZeroBlock)

\* Block number k of a sequence of bytes, the last one possibly partial.
Blocks(n) == (n + BLOCK_LEN - 1) \div BLOCK_LEN
block_of(bytes, k) ==
  SubSeq(bytes, (k - 1) * BLOCK_LEN + 1,
         IF k * BLOCK_LEN > Len(bytes) THEN Len(bytes) ELSE k * BLOCK_LEN)

\* while (len > 0) { XOR up to 16 bytes in, multiply }
absorb(H, h, bytes) ==
  LET step[k \in 0..Blocks(Len(bytes))] ==
        IF k = 0 THEN h
        ELSE gcm_mult(H, xor_in(step[k-1], block_of(bytes, k)))
  IN  step[Blocks(Len(bytes))]

hash_byte(H, h, i) ==
  xor(IF h.absorbed = <<>> THEN {}
      ELSE {[key |-> H, ghash |-> h.absorbed, at |-> i]}, h.pending[i])

-----------------------------------------------------------------------------
(***************************************************************************)
(* The context.  rk points nowhere until aes_setkey; y is the cipher input *)
(* of the counter mode: the IV, or a hash in its place, and the counter's  *)
(* bytes, most significant first.                                          *)
(***************************************************************************)
counter_block(native, hashed, ctr) ==
  [native |-> native, hashed |-> hashed, ctr |-> ctr]

ZeroCounter == [i \in 1..CTR_LEN |-> 0]

gcm_context(mode, len, add_len, H, base_ectr, y, buf, rk) ==
  [mode |-> mode, len |-> len, add_len |-> add_len, H |-> H,
   base_ectr |-> base_ectr, y |-> y, buf |-> buf, rk |-> rk]

ZeroCtx == gcm_context("DECRYPT", 0, 0, Null, ZeroBlock,
                       counter_block(<<>>, <<>>, ZeroCounter), HashZero, Null)

\* A round key buffer of zeros.
ZeroKey == [name |-> Null, size |-> 0]

\* Defined when rk points somewhere; with no null key it always returns 0.
aes_cipher(rk, y) ==
  [i \in 1..BLOCK_LEN |-> {[key |-> rk, block |-> y, at |-> i]}]

\* The result and the context of gcm_setkey: the context is cleared first, and
\* aes_setkey points rk at its buffer before it looks at the key's size.
gcm_setkey(tables_inited, key) ==
  LET keyed(H, rk) == gcm_context("DECRYPT", 0, 0, H, ZeroBlock,
                                  counter_block(<<>>, <<>>, ZeroCounter),
                                  HashZero, rk)
  IN  IF ~ tables_inited THEN [ret |-> -1, ctx |-> ZeroCtx]
      ELSE IF key.size \notin KeySizes
      THEN [ret |-> -1, ctx |-> keyed(Null, ZeroKey)]
      ELSE [ret |-> 0, ctx |-> keyed(key, key)]

\* iv_len * 8 in the last bytes of a block, cut to a word.
iv_bits(n) ==
  [ZeroBlock EXCEPT ![BLOCK_LEN] =
     IF (n * 8) % WORD = 0 THEN {} ELSE {[bits |-> (n * 8) % WORD]}]

\* Wrong on purpose: a hashed IV is not closed with its length.
first_counter_open(H, iv) ==
  IF Len(iv) = IV_LEN
  THEN counter_block(iv, <<>>, [ZeroCounter EXCEPT ![CTR_LEN] = 1])
  ELSE LET h == absorb(H, HashZero, iv)
       IN  counter_block(<<>>, h.absorbed, HashedCounter(h.absorbed))

first_counter(H, iv) ==
  IF Len(iv) = IV_LEN
  THEN counter_block(iv, <<>>, [ZeroCounter EXCEPT ![CTR_LEN] = 1])
  ELSE LET h == gcm_mult(H, xor_in(absorb(H, HashZero, iv), iv_bits(Len(iv))))
       IN  counter_block(<<>>, h.absorbed, HashedCounter(h.absorbed))

\* Wrong on purpose: the hash of an earlier message is not cleared.
start_keeps_hash(c, mode, iv, add) ==
  LET y == first_counter(c.H, iv)
  IN  gcm_context(mode, 0, Len(add), c.H, aes_cipher(c.rk, y), y,
                  absorb(c.H, c.buf, add), c.rk)

gcm_start(c, mode, iv, add) ==
  LET y == first_counter(c.H, iv)
  IN  gcm_context(mode, 0, Len(add), c.H, aes_cipher(c.rk, y), y,
                  absorb(c.H, HashZero, add), c.rk)

\* Wrong on purpose: only the last byte counts.
increment_byte(ctr) == [ctr EXCEPT ![CTR_LEN] = (@ + 1) % BYTE]

\* for (i = 16; i > 12; i--) if (++y[i-1] != 0) break: a byte counts when all
\* the less significant ones went back to 0.
increment(ctr) ==
  [i \in 1..CTR_LEN |->
     IF \A j \in (i + 1)..CTR_LEN : ctr[j] = BYTE - 1
     THEN (ctr[i] + 1) % BYTE ELSE ctr[i]]

\* The memory after n bytes at src were XORed with ectr into those at dst.
crypted(mem, ectr, src, dst, n) ==
  [a \in DOMAIN mem |->
     IF a \in (dst + 1)..(dst + n)
     THEN xor(ectr[a - dst], mem[src + (a - dst)]) ELSE mem[a]]

\* Wrong on purpose: decryption hashes its input after writing its output.
hashed_late(mode, before, after, src, dst, n) ==
  [i \in 1..n |-> IF mode = "ENCRYPT" THEN after[dst + i] ELSE after[src + i]]

\* The ciphertext, which is what gets hashed: what encryption has written, or
\* what decryption reads before it writes, as both may be the same memory.
hashed(mode, before, after, src, dst, n) ==
  [i \in 1..n |-> IF mode = "ENCRYPT" THEN after[dst + i] ELSE before[src + i]]

\* n bytes from src to dst, which are the same place or do not overlap.
gcm_update(c, mem, src, dst, n) ==
  LET step[k \in 0..Blocks(n)] ==
        IF k = 0 THEN [y |-> c.y, buf |-> c.buf, mem |-> mem]
        ELSE LET last == step[k-1]
                 done == (k - 1) * BLOCK_LEN
                 use  == IF n - done < BLOCK_LEN THEN n - done ELSE BLOCK_LEN
                 y    == counter_block(last.y.native, last.y.hashed,
                                       increment(last.y.ctr))
                 new  == crypted(last.mem, aes_cipher(c.rk, y), src + done,
                                 dst + done, use)
                 data == hashed(c.mode, last.mem, new, src + done, dst + done,
                                use)
             IN  [y |-> y, mem |-> new,
                  buf |-> gcm_mult(c.H, xor_in(last.buf, data))]
      end == step[Blocks(n)]
  IN  [mem |-> end.mem,
       ctx |-> gcm_context(c.mode, c.len + n, c.add_len, c.H, c.base_ectr,
                           end.y, end.buf, c.rk)]

\* The two lengths as a block; their words never overflow in a run of the code.
length_block(add_len, len) ==
  [ZeroBlock EXCEPT ![1] =
     IF add_len = 0 /\ len = 0 THEN {} ELSE {[add |-> add_len, len |-> len]}]

\* Wrong on purpose: the lengths are hashed only if there is data.
finish_if_data(c, tag_len) ==
  LET buf == gcm_mult(c.H, xor_in(c.buf, length_block(c.add_len, c.len)))
  IN  IF c.len = 0
      THEN [ctx |-> c, tag |-> [i \in 1..tag_len |->
                                  xor(c.base_ectr[i], hash_byte(c.H, c.buf, i))]]
      ELSE [ctx |-> gcm_context(c.mode, c.len, c.add_len, c.H, c.base_ectr,
                                c.y, buf, c.rk),
            tag |-> [i \in 1..tag_len |-> xor(c.base_ectr[i],
                                              hash_byte(c.H, buf, i))]]

gcm_finish(c, tag_len) ==
  LET buf == gcm_mult(c.H, xor_in(c.buf, length_block(c.add_len, c.len)))
  IN  IF c.len = 0 /\ c.add_len = 0
      THEN [ctx |-> c, tag |-> [i \in 1..tag_len |-> c.base_ectr[i]]]
      ELSE [ctx |-> gcm_context(c.mode, c.len, c.add_len, c.H, c.base_ectr,
                                c.y, buf, c.rk),
            tag |-> [i \in 1..tag_len |-> xor(c.base_ectr[i],
                                              hash_byte(c.H, buf, i))]]

-----------------------------------------------------------------------------
(***************************************************************************)
(* The calls composed of the above.                                        *)
(***************************************************************************)
gcm_crypt_and_tag(c, mode, iv, add, mem, src, dst, n, tag_len) ==
  LET up  == gcm_update(gcm_start(c, mode, iv, add), mem, src, dst, n)
      fin == gcm_finish(up.ctx, tag_len)
  IN  [ctx |-> fin.ctx, mem |-> up.mem, tag |-> fin.tag]

\* Wrong on purpose: what failed to authenticate is left in the output.
wipe_nothing(mem, dst, n) == mem

wipe(mem, dst, n) ==
  [a \in DOMAIN mem |-> IF a \in (dst + 1)..(dst + n) THEN {} ELSE mem[a]]

gcm_auth_decrypt(c, iv, add, mem, src, dst, n, tag) ==
  LET did == gcm_crypt_and_tag(c, "DECRYPT", iv, add, mem, src, dst, n,
                               Len(tag))
  IN  IF did.tag = tag
      THEN [ret |-> "OK", ctx |-> did.ctx, mem |-> did.mem]
      ELSE [ret |-> "GCM_AUTH_FAILURE", ctx |-> did.ctx,
            mem |-> wipe(did.mem, dst, n)]

=============================================================================
