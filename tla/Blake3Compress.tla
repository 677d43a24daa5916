--------------------------- MODULE Blake3Compress ---------------------------
(***************************************************************************)
(* The data layer of blake3.c: one chunk being hashed (blake3_chunk_state) *)
(* and the outputs (output_t) it and the parent nodes produce.             *)
(*                                                                         *)
(* The compression function is kept uninterpreted: its result is the       *)
(* record of its arguments, so two chaining values are equal exactly when  *)
(* they were computed from the same blocks, lengths, counters and flags in *)
(* the same order.  An input byte is the pair <<message, position>>; Zero  *)
(* is the padding memset leaves in a buffer.  Flags are sets of names.     *)
(***************************************************************************)
EXTENDS Blake3Bits, Sequences

CONSTANTS BLOCK_LEN,  \* bytes of one compression block (64 in blake3.h)
          CHUNK_LEN,  \* bytes of one leaf of the tree (1024)
          OUT_LEN     \* bytes of a chaining value and of a key (32)

ASSUME LenAssumption ==
  /\ BLOCK_LEN \in Nat \ {0}
  /\ CHUNK_LEN \in Nat \ {0}
  /\ OUT_LEN \in Nat \ {0}
  /\ CHUNK_LEN % BLOCK_LEN = 0
  /\ IsPow2(CHUNK_LEN)

Zero == <<0, 0>>

(***************************************************************************)
(* Compression.  A block is either BLOCK_LEN bytes of input or the two     *)
(* chaining values of a parent's children; both forms have the same shape. *)
(***************************************************************************)
DataBlock(bytes) == [bytes |-> bytes, kids |-> <<>>]
ParentBlock(left, right) == [bytes |-> <<>>, kids |-> <<left, right>>]

compress(cv, block, block_len, counter, flags) ==
  [cv |-> cv, block |-> block, len |-> block_len, ctr |-> counter,
   flags |-> flags]

make_output(input_cv, block, block_len, counter, flags) ==
  [input_cv |-> input_cv, block |-> block, block_len |-> block_len,
   counter |-> counter, flags |-> flags]

output_chaining_value(o) ==
  compress(o.input_cv, o.block, o.block_len, o.counter, o.flags)

(***************************************************************************)
(* The extended output of a root node: byte i of the result is byte `at`   *)
(* of the 64-byte output block numbered by the counter.  As in the code,   *)
(* the run is a partial first block, whole blocks, and a partial last one. *)
(* A chaining value is half a block, so a block yields 2 * OUT_LEN bytes.  *)
(***************************************************************************)
xof_bytes(o, counter, from, n) ==
  LET block == compress(o.input_cv, o.block, o.block_len, counter,
                        o.flags \cup {"ROOT"})
  IN  [i \in 1..n |-> [block |-> block, at |-> from + i - 1]]

\* Wrong on purpose: the block after a partial first one is not the next one.
repeat_first_block(o, seek, out_len) ==
  LET size == 2 * OUT_LEN
  IN  [i \in 1..out_len |->
         LET at == (seek % size) + i - 1
         IN  xof_bytes(o, (seek \div size) +
                            (IF at < size THEN 0 ELSE (at \div size) - 1),
                       at % size, 1)[1]]

output_root_bytes(o, seek, out_len) ==
  LET size   == 2 * OUT_LEN
      offset == seek % size
      first  == IF offset = 0 THEN 0
                ELSE IF out_len > size - offset THEN size - offset ELSE out_len
      start  == (seek \div size) + (IF offset = 0 THEN 0 ELSE 1)
      whole  == (out_len - first) \div size
      xof_many == [i \in 1..(whole * size) |->
                     xof_bytes(o, start + ((i - 1) \div size),
                               (i - 1) % size, 1)[1]]
      last   == (out_len - first) % size
  IN  xof_bytes(o, seek \div size, offset, first)
        \o xof_many \o xof_bytes(o, start + whole, 0, last)

(***************************************************************************)
(* blake3_chunk_state                                                      *)
(***************************************************************************)
ZeroBuf == [i \in 1..BLOCK_LEN |-> Zero]

chunk_state(cv, chunk_counter, buf, buf_len, blocks_compressed, flags) ==
  [cv |-> cv, chunk_counter |-> chunk_counter, buf |-> buf,
   buf_len |-> buf_len, blocks_compressed |-> blocks_compressed,
   flags |-> flags]

\* What a chunk state is; cv and the bytes in buf are opaque.
IsChunkState(c) ==
  /\ c = chunk_state(c.cv, c.chunk_counter, c.buf, c.buf_len,
                     c.blocks_compressed, c.flags)
  /\ c.chunk_counter \in Nat
  /\ c.buf = [i \in 1..BLOCK_LEN |-> c.buf[i]]
  /\ c.buf_len \in 0..BLOCK_LEN
  /\ c.blocks_compressed \in Nat

chunk_state_init(key, flags) == chunk_state(key, 0, ZeroBuf, 0, 0, flags)

\* Wrong on purpose: the next chunk believes that it has begun already.
reset_keeps_blocks(self, key, chunk_counter) ==
  chunk_state(key, chunk_counter, ZeroBuf, 0, self.blocks_compressed,
              self.flags)

chunk_state_reset(self, key, chunk_counter) ==
  chunk_state(key, chunk_counter, ZeroBuf, 0, 0, self.flags)

\* A chunk state on the stack of the caller, for chunk number chunk_counter.
fresh_chunk_state(key, flags, chunk_counter) ==
  chunk_state(key, chunk_counter, ZeroBuf, 0, 0, flags)

chunk_state_len(self) == (BLOCK_LEN * self.blocks_compressed) + self.buf_len

\* How many of n bytes still fit in the block buffer.
fill_take(self, n) ==
  IF BLOCK_LEN - self.buf_len > n THEN n ELSE BLOCK_LEN - self.buf_len

chunk_state_fill_buf(self, input) ==
  LET take == fill_take(self, Len(input))
      buf  == [i \in 1..BLOCK_LEN |->
                 IF i \in (self.buf_len + 1)..(self.buf_len + take)
                 THEN input[i - self.buf_len] ELSE self.buf[i]]
  IN  chunk_state(self.cv, self.chunk_counter, buf, self.buf_len + take,
                  self.blocks_compressed, self.flags)

maybe_start_flag(blocks_compressed) ==
  IF blocks_compressed = 0 THEN {"CHUNK_START"} ELSE {}

\* The buffered block, known not to be the chunk's last, is compressed.
compress_buf(self) ==
  LET cv == compress(self.cv, DataBlock(self.buf), BLOCK_LEN,
                     self.chunk_counter,
                     self.flags \cup maybe_start_flag(self.blocks_compressed))
  IN  chunk_state(cv, self.chunk_counter, ZeroBuf, 0,
                  self.blocks_compressed + 1, self.flags)

\* Wrong on purpose: >= in the loop below, a full last block is not kept back.
eager_blocks(n) == n \div BLOCK_LEN

\* while (input_len > BLAKE3_BLOCK_LEN) takes this many blocks out of n bytes:
\* all of them but the last, which stays in the buffer even when it is full.
direct_blocks(n) == IF n = 0 THEN 0 ELSE (n - 1) \div BLOCK_LEN

compress_direct(self, input) ==
  LET k  == direct_blocks(Len(input))
      cv[i \in 0..k] ==
        IF i = 0 THEN self.cv
        ELSE compress(cv[i-1],
                      DataBlock(SubSeq(input, (i-1) * BLOCK_LEN + 1,
                                       i * BLOCK_LEN)),
                      BLOCK_LEN, self.chunk_counter,
                      self.flags \cup
                        maybe_start_flag(self.blocks_compressed + i - 1))
  IN  chunk_state(cv[k], self.chunk_counter, self.buf, self.buf_len,
                  self.blocks_compressed + k, self.flags)

chunk_state_update(self, input) ==
  LET n     == Len(input)
      take  == IF self.buf_len > 0 THEN fill_take(self, n) ELSE 0
      head  == IF self.buf_len > 0 THEN chunk_state_fill_buf(self, input)
               ELSE self
      ready == IF self.buf_len > 0 /\ n > take THEN compress_buf(head)
               ELSE head
      rest  == SubSeq(input, take + 1, n)
      tail  == SubSeq(rest, direct_blocks(n - take) * BLOCK_LEN + 1, n - take)
  IN  chunk_state_fill_buf(compress_direct(ready, rest), tail)

chunk_state_output(self) ==
  make_output(self.cv, DataBlock(self.buf), self.buf_len, self.chunk_counter,
              self.flags \cup maybe_start_flag(self.blocks_compressed)
                         \cup {"CHUNK_END"})

parent_output(block, key, flags) ==
  make_output(key, block, BLOCK_LEN, 0, flags \cup {"PARENT"})

parent_cv(left, right, key, flags) ==
  output_chaining_value(parent_output(ParentBlock(left, right), key, flags))

=============================================================================
