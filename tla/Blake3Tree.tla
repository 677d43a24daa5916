----------------------------- MODULE Blake3Tree -----------------------------
(***************************************************************************)
(* What a BLAKE3 hash is, independently of how the input arrives: the      *)
(* binary tree whose leaves are the chunks of the message, in which a      *)
(* node's left subtree takes "the largest power-of-2 number of chunks that *)
(* leaves at least 1 byte for the right subtree" (blake3.c, above          *)
(* left_len).  A chunk is a chain of its blocks, the first and the last    *)
(* one flagged, the last one padded with zeros; only the root carries ROOT.*)
(* The operators take the message as a sequence of bytes.                  *)
(***************************************************************************)
EXTENDS Blake3Compress

\* The output of chunk number ctr when it holds `bytes`.
ChunkOutput(key, flags, ctr, bytes) ==
  LET n      == Len(bytes)
      blocks == IF n = 0 THEN 1 ELSE (n + BLOCK_LEN - 1) \div BLOCK_LEN
      Padded(b) == [i \in 1..BLOCK_LEN |->
                      LET j == (b - 1) * BLOCK_LEN + i
                      IN  IF j <= n THEN bytes[j] ELSE Zero]
      FlagsOf(b) == flags \cup (IF b = 1 THEN {"CHUNK_START"} ELSE {})
                          \cup (IF b = blocks THEN {"CHUNK_END"} ELSE {})
      cv[b \in 0..(blocks - 1)] ==
        IF b = 0 THEN key
        ELSE compress(cv[b-1], DataBlock(Padded(b)), BLOCK_LEN, ctr,
                      FlagsOf(b))
  IN  make_output(cv[blocks - 1], DataBlock(Padded(blocks)),
                  n - (blocks - 1) * BLOCK_LEN, ctr, FlagsOf(blocks))

\* The chunks of the left subtree of a node over n > CHUNK_LEN bytes.
LeftChunks(n) ==
  CHOOSE c \in 1..n : IsPow2(c) /\ c * CHUNK_LEN < n /\ n <= 2 * c * CHUNK_LEN

\* The output of the node over `bytes`, whose first chunk is number ctr.
NodeOutput(key, flags, ctr, bytes) ==
  LET \* node[<<lo, n>>] is the node over the n bytes that start after byte lo.
      node[part \in Nat \X Nat] ==
        LET lo    == part[1]
            n     == part[2]
            left  == LeftChunks(n) * CHUNK_LEN
        IN  IF n <= CHUNK_LEN
            THEN ChunkOutput(key, flags, ctr + (lo \div CHUNK_LEN),
                             SubSeq(bytes, lo + 1, lo + n))
            ELSE parent_output(
                   ParentBlock(output_chaining_value(node[<<lo, left>>]),
                               output_chaining_value(
                                 node[<<lo + left, n - left>>])),
                   key, flags)
  IN  node[<<0, Len(bytes)>>]

NodeCV(key, flags, ctr, bytes) ==
  output_chaining_value(NodeOutput(key, flags, ctr, bytes))

\* n bytes of the unbounded output of a message's root, from byte `seek` on.
RootBytes(key, flags, bytes, seek, n) ==
  LET o == NodeOutput(key, flags, 0, bytes)
      size == 2 * OUT_LEN
  IN  [i \in 1..n |->
         [block |-> compress(o.input_cv, o.block, o.block_len,
                             (seek + i - 1) \div size, o.flags \cup {"ROOT"}),
          at |-> (seek + i - 1) % size]]

=============================================================================
