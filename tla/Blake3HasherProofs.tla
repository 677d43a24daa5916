------------------------- MODULE Blake3HasherProofs -------------------------
(***************************************************************************)
(* The incremental hasher, for every block, chunk and message length.      *)
(*                                                                         *)
(* Accounting, an inductive invariant of the counters: Init establishes it *)
(* and every action keeps it, and the properties of Blake3Hasher that      *)
(* speak of lengths, of the stack's height and of the alignment of         *)
(* subtrees follow from it.                                                *)
(*                                                                         *)
(* DataHolds, inductive together with Accounting: the entries of the stack *)
(* are the chaining values of subtrees that lie side by side from chunk 0  *)
(* on, the values still to be pushed go on from there, and the chunk holds *)
(* the bytes that follow.  So the output of a quiescent hasher is that of  *)
(* the tree over its message, and the hasher implements Blake3Hash.        *)
(***************************************************************************)
EXTENDS Blake3Hasher, Blake3TreeProofs, SequenceTheorems

-----------------------------------------------------------------------------
(***************************************************************************)
(* What chunk_state_update does to the counters of a chunk: it takes in    *)
(* all of its input, and always keeps the last bytes in the buffer.        *)
(***************************************************************************)
LEMMA DivisionFacts ==
  ASSUME NEW n \in Nat, NEW b \in Nat, b > 0
  PROVE  /\ n \div b \in Nat
         /\ n % b \in 0..(b - 1)
         /\ n = b * (n \div b) + (n % b)
  OBVIOUS

\* The blocks compressed straight from the input leave 1 to BLOCK_LEN bytes.
LEMMA DirectBlocks ==
  ASSUME NEW n \in Nat, n > 0
  PROVE  /\ direct_blocks(n) \in Nat
         /\ n - BLOCK_LEN * direct_blocks(n) \in 1..BLOCK_LEN
<1>1. BLOCK_LEN \in Nat /\ BLOCK_LEN > 0 /\ n - 1 \in Nat
  BY LenAssumption
<1>2. direct_blocks(n) = (n - 1) \div BLOCK_LEN
  BY DEF direct_blocks
<1>3. /\ (n - 1) \div BLOCK_LEN \in Nat
      /\ (n - 1) % BLOCK_LEN \in 0..(BLOCK_LEN - 1)
      /\ n - 1 = BLOCK_LEN * ((n - 1) \div BLOCK_LEN) + ((n - 1) % BLOCK_LEN)
  BY <1>1, DivisionFacts
<1>4. BLOCK_LEN * direct_blocks(n) \in Nat
  BY <1>1, <1>2, <1>3
<1> QED
  BY <1>1, <1>2, <1>3, <1>4

LEMMA ChunkInit ==
  ASSUME NEW k, NEW f, NEW n \in Nat
  PROVE  LET c == chunk_state(k, n, ZeroBuf, 0, 0, f)
         IN  /\ IsChunkState(c) /\ chunk_state_len(c) = 0
             /\ c.chunk_counter = n /\ c.flags = f
  BY LenAssumption DEF chunk_state, IsChunkState, chunk_state_len, ZeroBuf

LEMMA FillBuf ==
  ASSUME NEW c, IsChunkState(c), NEW in, Len(in) \in Nat
  PROVE  LET d    == chunk_state_fill_buf(c, in)
             take == fill_take(c, Len(in))
         IN  /\ IsChunkState(d)
             /\ take \in Nat /\ take <= Len(in)
             /\ d.buf_len = c.buf_len + take
             /\ take < Len(in) => d.buf_len = BLOCK_LEN
             /\ d.blocks_compressed = c.blocks_compressed
             /\ d.chunk_counter = c.chunk_counter /\ d.flags = c.flags
<1> DEFINE take == fill_take(c, Len(in))
           buf == [i \in 1..BLOCK_LEN |->
                     IF i \in (c.buf_len + 1)..(c.buf_len + take)
                     THEN in[i - c.buf_len] ELSE c.buf[i]]
<1>1. /\ take \in Nat /\ take <= Len(in) /\ c.buf_len + take \in 0..BLOCK_LEN
      /\ take < Len(in) => c.buf_len + take = BLOCK_LEN
  BY LenAssumption DEF IsChunkState, fill_take
<1>2. chunk_state_fill_buf(c, in) =
        chunk_state(c.cv, c.chunk_counter, buf, c.buf_len + take,
                    c.blocks_compressed, c.flags)
  BY DEF chunk_state_fill_buf
<1>3. buf = [i \in 1..BLOCK_LEN |-> buf[i]]
  OBVIOUS
<1> HIDE DEF take, buf
<1> QED
  BY <1>1, <1>2, <1>3 DEF IsChunkState, chunk_state, take

LEMMA CompressBuf ==
  ASSUME NEW c, IsChunkState(c)
  PROVE  LET d == compress_buf(c)
         IN  /\ IsChunkState(d)
             /\ d.buf_len = 0
             /\ d.blocks_compressed = c.blocks_compressed + 1
             /\ d.chunk_counter = c.chunk_counter /\ d.flags = c.flags
  BY LenAssumption DEF compress_buf, chunk_state, IsChunkState, ZeroBuf

LEMMA CompressDirect ==
  ASSUME NEW c, IsChunkState(c), NEW in, direct_blocks(Len(in)) \in Nat
  PROVE  LET d == compress_direct(c, in)
         IN  /\ IsChunkState(d)
             /\ d.buf_len = c.buf_len
             /\ d.blocks_compressed =
                  c.blocks_compressed + direct_blocks(Len(in))
             /\ d.chunk_counter = c.chunk_counter /\ d.flags = c.flags
  BY DEF compress_direct, chunk_state, IsChunkState

(***************************************************************************)
(* All the input is taken in, and a chunk that is not empty keeps its last *)
(* bytes in the buffer, to be compressed with the end flag later.          *)
(***************************************************************************)
THEOREM ChunkUpdate ==
  ASSUME NEW c, IsChunkState(c), chunk_state_len(c) > 0 => c.buf_len > 0,
         NEW X, NEW in \in Seq(X), Len(in) > 0 \/ c.buf_len > 0
  PROVE  LET d == chunk_state_update(c, in)
         IN  /\ IsChunkState(d)
             /\ chunk_state_len(d) = chunk_state_len(c) + Len(in)
             /\ d.buf_len > 0
             /\ d.chunk_counter = c.chunk_counter /\ d.flags = c.flags
<1> DEFINE n     == Len(in)
           take  == IF c.buf_len > 0 THEN fill_take(c, n) ELSE 0
           head  == IF c.buf_len > 0 THEN chunk_state_fill_buf(c, in) ELSE c
           ready == IF c.buf_len > 0 /\ n > take THEN compress_buf(head)
                    ELSE head
           rest  == SubSeq(in, take + 1, n)
           k     == direct_blocks(n - take)
           tail  == SubSeq(rest, k * BLOCK_LEN + 1, n - take)
           body  == compress_direct(ready, rest)
<1>1. /\ n \in Nat /\ (n > 0 \/ c.buf_len > 0)
      /\ BLOCK_LEN \in Nat /\ BLOCK_LEN > 0
  BY LenAssumption
<1>2. /\ take \in Nat /\ take <= n /\ IsChunkState(head)
      /\ head.buf_len = c.buf_len + take
      /\ take < n /\ c.buf_len > 0 => head.buf_len = BLOCK_LEN
      /\ head.blocks_compressed = c.blocks_compressed
      /\ head.chunk_counter = c.chunk_counter /\ head.flags = c.flags
  <2>1. CASE c.buf_len > 0
    BY <2>1, <1>1, FillBuf
  <2>2. CASE ~ (c.buf_len > 0)
    <3>1. take = 0 /\ head = c
      BY <2>2
    <3>2. c.buf_len \in Nat
      BY DEF IsChunkState
    <3> QED
      BY <2>2, <3>1, <3>2, <1>1
  <2> QED
    BY <2>1, <2>2
<1> HIDE DEF take, head
<1>3. c.buf_len \in Nat /\ c.blocks_compressed \in Nat
  BY DEF IsChunkState
<1>4. /\ IsChunkState(ready)
      /\ take < n => ready.buf_len = 0
      /\ take = n => ready.buf_len = c.buf_len + n
      /\ ready.chunk_counter = c.chunk_counter /\ ready.flags = c.flags
      /\ chunk_state_len(ready) = chunk_state_len(c) + take
  <2>1. CASE c.buf_len > 0 /\ n > take
    <3>1. /\ IsChunkState(ready) /\ ready.buf_len = 0
          /\ ready.blocks_compressed = c.blocks_compressed + 1
          /\ ready.chunk_counter = c.chunk_counter /\ ready.flags = c.flags
      BY <2>1, <1>2, CompressBuf
    <3> HIDE DEF ready
    <3>2. c.buf_len + take = BLOCK_LEN
      BY <2>1, <1>1, <1>2
    <3>3. BLOCK_LEN * (c.blocks_compressed + 1)
            = BLOCK_LEN * c.blocks_compressed + BLOCK_LEN
      BY <1>1, <1>3
    <3>4. BLOCK_LEN * c.blocks_compressed \in Nat
      BY <1>1, <1>3
    <3> QED
      BY <2>1, <1>1, <1>2, <1>3, <3>1, <3>2, <3>3, <3>4 DEF chunk_state_len
  <2>2. CASE ~ (c.buf_len > 0 /\ n > take)
    <3>1. ready = head
      BY <2>2
    <3>2. take < n => c.buf_len = 0 /\ take = 0
      BY <2>2, <1>1, <1>2, <1>3 DEF take
    <3>3. BLOCK_LEN * c.blocks_compressed \in Nat
      BY <1>1, <1>3
    <3> HIDE DEF ready
    <3> QED
      BY <3>1, <3>2, <3>3, <1>1, <1>2, <1>3 DEF chunk_state_len
  <2> QED
    BY <2>1, <2>2
<1> HIDE DEF ready
<1>5. Len(rest) = n - take /\ n - take \in Nat
  <2>1. \A i \in (take + 1)..n : in[i] \in X
    BY <1>2, ElementOfSeq
  <2>2. Len(rest) = IF take + 1 <= n THEN n - (take + 1) + 1 ELSE 0
    BY <2>1, <1>1, <1>2, SubSeqProperties
  <2> QED
    BY <2>2, <1>1, <1>2
<1>6. rest \in Seq(X)
  <2>1. \A i \in (take + 1)..n : in[i] \in X
    BY <1>2, ElementOfSeq
  <2> QED
    BY <2>1, <1>1, <1>2, SubSeqProperties
<1> HIDE DEF rest
<1>7. k \in Nat /\ k * BLOCK_LEN \in Nat /\ k * BLOCK_LEN = BLOCK_LEN * k
      /\ IF take = n THEN k = 0 ELSE n - take - k * BLOCK_LEN \in 1..BLOCK_LEN
  <2>1. CASE take = n
    <3>1. n - take = 0
      BY <2>1, <1>1
    <3>2. k = 0
      BY <3>1 DEF direct_blocks
    <3> HIDE DEF k
    <3> QED
      BY <3>2, <2>1, <1>1
  <2>2. CASE take # n
    <3>1. n - take > 0
      BY <2>2, <1>1, <1>2
    <3>2. k \in Nat /\ n - take - BLOCK_LEN * k \in 1..BLOCK_LEN
      BY <3>1, <1>5, DirectBlocks
    <3> HIDE DEF k
    <3> QED
      BY <2>2, <3>2, <1>1
  <2> QED
    BY <2>1, <2>2
<1>8. /\ IsChunkState(body) /\ body.buf_len = ready.buf_len
      /\ body.blocks_compressed = ready.blocks_compressed + k
      /\ body.chunk_counter = c.chunk_counter /\ body.flags = c.flags
  <2>1. direct_blocks(Len(rest)) = k
    BY <1>5
  <2> QED
    BY <2>1, <1>4, <1>7, CompressDirect
<1> HIDE DEF body, k
<1>9. Len(tail) = n - take - k * BLOCK_LEN /\ Len(tail) \in Nat
  <2>1. \A i \in (k * BLOCK_LEN + 1)..(n - take) : rest[i] \in X
    BY <1>5, <1>6, <1>7, ElementOfSeq
  <2>2. k * BLOCK_LEN + 1 \in Int /\ n - take \in Int
    BY <1>5, <1>7
  <2>3. Len(tail) = IF k * BLOCK_LEN + 1 <= n - take
                    THEN (n - take) - (k * BLOCK_LEN + 1) + 1 ELSE 0
    BY <2>1, <2>2, SubSeqProperties
  <2> HIDE DEF tail
  <2> DEFINE kb == k * BLOCK_LEN
  <2>4. /\ kb \in Nat
        /\ Len(tail) = IF kb + 1 <= n - take THEN (n - take) - (kb + 1) + 1 ELSE 0
    BY <2>3, <1>7
  <2>5. IF take = n THEN kb = 0 ELSE n - take - kb \in 1..BLOCK_LEN
    BY <1>1, <1>7
  <2> HIDE DEF kb
  <2>6. Len(tail) = n - take - kb /\ Len(tail) \in Nat
    BY <2>4, <2>5, <1>1, <1>2, <1>5
  <2> QED
    BY <2>6 DEF kb
<1> HIDE DEF tail
<1> DEFINE d == chunk_state_fill_buf(body, tail)
<1>10. chunk_state_update(c, in) = d
  BY DEF chunk_state_update, d, body, ready, head, take, rest, tail, k
<1>11. fill_take(body, Len(tail)) = Len(tail)
  <2>1. Len(tail) <= BLOCK_LEN - body.buf_len
    <3>1. CASE take = n
      <4>1. Len(tail) = 0
        BY <3>1, <1>1, <1>7, <1>9
      <4>2. body.buf_len \in 0..BLOCK_LEN
        BY <1>8 DEF IsChunkState
      <4> QED
        BY <4>1, <4>2, <1>1
    <3>2. CASE take # n
      BY <3>2, <1>1, <1>2, <1>4, <1>7, <1>8, <1>9
    <3> QED
      BY <3>1, <3>2
  <2>2. body.buf_len \in 0..BLOCK_LEN
    BY <1>8 DEF IsChunkState
  <2> QED
    BY <2>1, <2>2, <1>1, <1>9 DEF fill_take
<1>12. /\ IsChunkState(d) /\ d.buf_len = body.buf_len + Len(tail)
       /\ d.blocks_compressed = body.blocks_compressed
       /\ d.chunk_counter = c.chunk_counter /\ d.flags = c.flags
  BY <1>8, <1>9, <1>11, FillBuf
<1> HIDE DEF d
<1>13. d.buf_len > 0
  <2>1. CASE take = n
    <3>1. ready.buf_len = c.buf_len + n /\ ready.buf_len > 0
      BY <2>1, <1>1, <1>3, <1>4
    <3> QED
      BY <3>1, <1>1, <1>3, <1>8, <1>9, <1>12
  <2>2. CASE take # n
    <3>1. ready.buf_len = 0 /\ Len(tail) \in 1..BLOCK_LEN
      BY <2>2, <1>1, <1>2, <1>4, <1>7, <1>9
    <3> QED
      BY <3>1, <1>1, <1>8, <1>12
  <2> QED
    BY <2>1, <2>2
<1>14. chunk_state_len(d) = chunk_state_len(c) + n
  <2>1. ready.blocks_compressed \in Nat /\ ready.buf_len \in Nat
    BY <1>4 DEF IsChunkState
  <2>2. BLOCK_LEN * (ready.blocks_compressed + k)
          = BLOCK_LEN * ready.blocks_compressed + k * BLOCK_LEN
    BY <2>1, <1>1, <1>7
  <2>3. chunk_state_len(d) =
          BLOCK_LEN * ready.blocks_compressed + k * BLOCK_LEN
            + (ready.buf_len + Len(tail))
    BY <2>2, <1>8, <1>12 DEF chunk_state_len
  <2>4. BLOCK_LEN * ready.blocks_compressed \in Nat
    BY <2>1, <1>1
  <2> DEFINE kb == k * BLOCK_LEN
             rb == BLOCK_LEN * ready.blocks_compressed
  <2>5. chunk_state_len(d) = chunk_state_len(ready) + (n - take)
    <3>1. chunk_state_len(ready) = rb + ready.buf_len
      BY DEF chunk_state_len
    <3>2. kb \in Nat /\ rb \in Nat
      BY <2>4, <1>7
    <3>3. /\ chunk_state_len(d) = rb + kb + (ready.buf_len + Len(tail))
          /\ Len(tail) = n - take - kb
      BY <2>3, <1>9
    <3> HIDE DEF kb, rb
    <3> QED
      BY <2>1, <3>1, <3>2, <3>3, <1>1, <1>2
  <2>6. chunk_state_len(c) \in Nat
    BY <1>1, <1>3 DEF chunk_state_len
  <2> QED
    BY <2>5, <2>6, <1>1, <1>2, <1>4
<1> QED
  BY <1>10, <1>12, <1>13, <1>14

-----------------------------------------------------------------------------
(***************************************************************************)
(* Arithmetic of chunks and subtrees                                       *)
(***************************************************************************)
LEMMA Constants ==
  /\ BLOCK_LEN \in Nat /\ BLOCK_LEN > 0
  /\ CHUNK_LEN \in Nat /\ CHUNK_LEN > 0 /\ IsPow2(CHUNK_LEN)
  /\ MaxChunks \in Nat /\ MaxChunks > 0 /\ MaxLen \in Nat
  /\ MAX_DEPTH \in Nat
<1>1. MaxChunks \in Nat /\ MaxChunks > 0
  BY DepthAssumption, Pow2Positive
<1> QED
  BY <1>1, LenAssumption, DepthAssumption DEF MaxLen

\* k whole chunks and r bytes more fit in M chunks.
LEMMA ChunksFit ==
  ASSUME NEW k \in Nat, NEW M \in Nat, NEW r \in Nat,
         k * CHUNK_LEN + r <= M * CHUNK_LEN
  PROVE  k <= M /\ (r > 0 => k < M)
<1>1. CHUNK_LEN \in Nat /\ CHUNK_LEN > 0
  BY Constants
<1>2. ASSUME NEW d \in Nat, k = M + d, d > 0 \/ r > 0 PROVE FALSE
  <2>1. k * CHUNK_LEN = M * CHUNK_LEN + d * CHUNK_LEN
    BY <1>1, <1>2
  <2>2. d * CHUNK_LEN \in Nat /\ M * CHUNK_LEN \in Nat
    BY <1>1
  <2>3. d > 0 => d * CHUNK_LEN > 0
    BY <1>1
  <2> QED
    BY <1>2, <2>1, <2>2, <2>3
<1>3. ~ (k > M)
  <2> SUFFICES ASSUME k > M PROVE FALSE
    OBVIOUS
  <2>1. k - M \in Nat /\ k = M + (k - M) /\ k - M > 0
    OBVIOUS
  <2> QED
    BY <2>1, <1>2
<1>4. r > 0 => k # M
  BY <1>2
<1> QED
  BY <1>3, <1>4

\* A counter that is not the last one has few enough 1 bits for the stack.
LEMMA DepthBound ==
  ASSUME NEW c \in Nat, c < MaxChunks
  PROVE  popcnt[c] \in Nat /\ popcnt[c] <= MAX_DEPTH
<1>1. popcnt[c] <= popcnt[MaxChunks - 1]
  BY DepthAssumption, PopcntBelow
<1>2. popcnt[c] \in Nat /\ popcnt[MaxChunks - 1] \in Nat
  BY Constants, PopcntType
<1> QED
  BY <1>1, <1>2, DepthAssumption

\* A subtree of several chunks that starts at a multiple of its size m: its
\* middle has one more 1 bit than its start, its end at most one more.
LEMMA PairCounts ==
  ASSUME NEW m, IsPow2(m), m > 1, NEW q \in Nat
  PROVE  LET h == m \div 2
         IN  /\ h \in Nat /\ h > 0 /\ h < m
             /\ popcnt[m * q + h] = popcnt[m * q] + 1
             /\ popcnt[m * q + m] <= popcnt[m * q] + 1
<1>1. PICK h \in Nat : IsPow2(h) /\ m = 2 * h
  BY Pow2Cases
<1>2. m \div 2 = h /\ h > 0 /\ h < m /\ m \in Nat
  BY <1>1, Pow2Positive
<1>3. 2 * q + 1 \in Nat /\ q + 1 \in Nat
  OBVIOUS
<1>4. m * q + h = h * (2 * q + 1) /\ m * q + m = m * (q + 1)
  BY <1>1, <1>2
<1>5. popcnt[m * q] = popcnt[q] /\ popcnt[m * q + m] = popcnt[q + 1]
  BY <1>3, <1>4, PopcntScale
<1>6. popcnt[m * q + h] = popcnt[2 * q + 1]
  BY <1>1, <1>3, <1>4, PopcntScale
<1> QED
  BY <1>2, <1>5, <1>6, PopcntShift, PopcntSucc

\* A power of two of bytes that holds a chunk is a power of two of chunks,
\* and what it divides, counted in chunks, is a multiple of that.
LEMMA SubtreeChunks ==
  ASSUME NEW s, IsPow2(s), s >= CHUNK_LEN, NEW c \in Nat,
         (c * CHUNK_LEN) % s = 0
  PROVE  \E m \in Nat, q \in Nat :
           /\ IsPow2(m) /\ m > 0 /\ s = m * CHUNK_LEN /\ c = m * q
           /\ s \div CHUNK_LEN = m /\ s % CHUNK_LEN = 0
<1>1. PICK m \in Nat : IsPow2(m) /\ s = CHUNK_LEN * m
  BY Constants, Pow2Divides
<1>2. s \in Nat /\ s > 0 /\ m > 0
  BY <1>1, Pow2Positive
<1> DEFINE q == (c * CHUNK_LEN) \div s
<1>3. c * CHUNK_LEN \in Nat
  BY Constants
<1>4. q \in Nat /\ c * CHUNK_LEN = s * q
  <2>1. q \in Nat /\ c * CHUNK_LEN = s * q + ((c * CHUNK_LEN) % s)
    BY <1>2, <1>3, DivisionFacts
  <2> HIDE DEF q
  <2>2. s * q \in Nat
    BY <1>2, <2>1
  <2> QED
    BY <2>1, <2>2
<1> HIDE DEF q
<1>5. c * CHUNK_LEN = (m * q) * CHUNK_LEN
  BY <1>1, <1>4, Constants
<1>6. c = m * q
  <2>1. m * q \in Nat
    BY <1>4
  <2> DEFINE p == m * q
  <2>2. p \in Nat /\ c * CHUNK_LEN = p * CHUNK_LEN
    BY <2>1, <1>5
  <2> HIDE DEF p
  <2>3. c * CHUNK_LEN + 0 <= p * CHUNK_LEN /\ p * CHUNK_LEN + 0 <= c * CHUNK_LEN
    BY <2>2, <1>3
  <2>4. c <= p /\ p <= c
    BY <2>2, <2>3, ChunksFit
  <2>5. c = p
    BY <2>2, <2>4
  <2> QED
    BY <2>5 DEF p
<1>7. s = m * CHUNK_LEN
  BY <1>1, Constants
<1>8. s \div CHUNK_LEN = m /\ s % CHUNK_LEN = 0
  BY <1>7, Constants
<1> QED
  BY <1>1, <1>2, <1>4, <1>6, <1>7, <1>8

\* Halving a misaligned subtree never cuts into a chunk.
LEMMA HalvingKeepsChunks ==
  ASSUME NEW s, IsPow2(s), s >= CHUNK_LEN, NEW c \in Nat,
         (c * CHUNK_LEN) % s # 0
  PROVE  IsPow2(s \div 2) /\ s \div 2 >= CHUNK_LEN /\ s \div 2 < s
<1>1. s \in Nat /\ s > 0 /\ CHUNK_LEN \in Nat /\ CHUNK_LEN > 0
  BY Constants, Pow2Positive
<1>2. (c * CHUNK_LEN) % CHUNK_LEN = 0
  BY <1>1
<1>3. CHUNK_LEN < s
  BY <1>1, <1>2
<1>4. 2 * CHUNK_LEN <= s
  BY <1>3, Constants, Pow2Gap
<1>5. PICK h \in Nat : IsPow2(h) /\ s = 2 * h
  BY <1>1, <1>3, Pow2Cases
<1>6. s \div 2 = h
  BY <1>5
<1> QED
  BY <1>1, <1>4, <1>5, <1>6

-----------------------------------------------------------------------------
(***************************************************************************)
(* What the invariant says of the counters in any state                    *)
(***************************************************************************)
LEMMA Counters ==
  ASSUME TypeOK, Position
  PROVE  LET counter == chunk.chunk_counter
             len     == chunk_state_len(chunk)
         IN  /\ counter \in Nat /\ counter <= MaxChunks
             /\ len \in Nat /\ chunk.buf_len \in Nat
             /\ input_len \in Nat /\ fed \in Nat /\ fed <= MaxLen
             /\ input_len <= fed
             /\ subtree_len \in Nat /\ subtree_len <= MaxLen
             /\ cv_stack_len \in Nat /\ cv_stack_len <= MAX_DEPTH + 1
             /\ popcnt[counter] \in Nat /\ popcnt[0] = 0
             /\ popcnt[counter] = 0 => counter = 0
             /\ input_len > 0 \/ len > 0 =>
                  counter < MaxChunks /\ popcnt[counter] <= MAX_DEPTH
<1> DEFINE counter == chunk.chunk_counter
           len     == chunk_state_len(chunk)
<1>1. counter \in Nat /\ counter <= MaxChunks /\ chunk.buf_len \in Nat
  BY Constants DEF TypeOK, IsChunkState
<1>2. len \in Nat
  <2>1. chunk.blocks_compressed \in Nat
    BY DEF TypeOK, IsChunkState
  <2>2. BLOCK_LEN * chunk.blocks_compressed \in Nat
    BY <2>1, Constants
  <2> QED
    BY <1>1, <2>2 DEF chunk_state_len
<1>3. /\ input_len \in Nat /\ fed \in Nat /\ fed <= MaxLen /\ input_len <= fed
      /\ subtree_len \in Nat /\ subtree_len <= MaxLen
      /\ cv_stack_len \in Nat /\ cv_stack_len <= MAX_DEPTH + 1
  BY Constants DEF TypeOK
<1>4. popcnt[counter] \in Nat /\ popcnt[0] = 0 /\ (popcnt[counter] = 0 => counter = 0)
  BY <1>1, PopcntType, PopcntShift, PopcntZero
<1>5. ASSUME input_len > 0 \/ len > 0
      PROVE  counter < MaxChunks /\ popcnt[counter] <= MAX_DEPTH
  <2>1. counter * CHUNK_LEN + len = fed - input_len
    BY DEF Position
  <2>2. counter * CHUNK_LEN \in Nat
    BY <1>1, Constants
  <2>3. counter * CHUNK_LEN + (len + input_len) <= MaxChunks * CHUNK_LEN
    BY <1>2, <1>3, <2>1, <2>2 DEF MaxLen
  <2>4. len + input_len \in Nat /\ len + input_len > 0
    BY <1>2, <1>3, <1>5
  <2>5. counter < MaxChunks
    BY <1>1, <2>3, <2>4, Constants, ChunksFit
  <2> QED
    BY <1>1, <2>5, DepthBound
<1> QED
  BY <1>1, <1>2, <1>3, <1>4, <1>5

\* The subtree being hashed: m chunks, `half` of them in its left child.
LEMMA SubtreeCounts ==
  ASSUME TypeOK, Position, chunk_state_len(chunk) = 0,
         IsPow2(subtree_len), subtree_len \in CHUNK_LEN..input_len,
         (chunk.chunk_counter * CHUNK_LEN) % subtree_len = 0
  PROVE  LET counter == chunk.chunk_counter
             m       == subtree_len \div CHUNK_LEN
             half    == m \div 2
         IN  /\ m \in Nat /\ m > 0 /\ subtree_len = m * CHUNK_LEN
             /\ subtree_len % CHUNK_LEN = 0
             /\ counter + m <= MaxChunks
             /\ popcnt[counter + m] \in Nat
             /\ popcnt[counter + m] <= popcnt[counter] + 1
             /\ subtree_len > CHUNK_LEN =>
                  /\ half \in Nat /\ counter + half < MaxChunks
                  /\ popcnt[counter + half] = popcnt[counter] + 1
<1> DEFINE counter == chunk.chunk_counter
           len     == chunk_state_len(chunk)
<1>1. /\ counter \in Nat /\ input_len \in Nat /\ fed \in Nat /\ fed <= MaxLen
      /\ input_len <= fed /\ subtree_len \in Nat
  BY Counters
<1>2. CHUNK_LEN \in Nat /\ CHUNK_LEN > 0 /\ MaxChunks \in Nat
  BY Constants
<1>3. PICK m \in Nat, q \in Nat :
        /\ IsPow2(m) /\ m > 0 /\ subtree_len = m * CHUNK_LEN /\ counter = m * q
        /\ subtree_len \div CHUNK_LEN = m /\ subtree_len % CHUNK_LEN = 0
  <2>1. subtree_len >= CHUNK_LEN
    BY <1>1, <1>2
  <2> QED
    BY <1>1, <2>1, SubtreeChunks
<1>4. counter + m <= MaxChunks
  <2>1. counter * CHUNK_LEN = fed - input_len
    BY <1>1, <1>2 DEF Position
  <2>2. (counter + m) * CHUNK_LEN = counter * CHUNK_LEN + m * CHUNK_LEN
    BY <1>1, <1>2, <1>3
  <2>3. (counter + m) * CHUNK_LEN + 0 <= MaxChunks * CHUNK_LEN
    BY <1>1, <1>2, <1>3, <2>1, <2>2 DEF MaxLen
  <2> QED
    BY <1>1, <1>2, <2>3, ChunksFit
<1>5. popcnt[counter + m] \in Nat /\ popcnt[counter] \in Nat
  BY <1>1, PopcntType
<1>6. popcnt[counter + m] <= popcnt[counter] + 1
  <2>1. CASE m = 1
    BY <1>1, <2>1, PopcntSucc
  <2>2. CASE m # 1
    <3>1. m > 1
      BY <1>3, <2>2
    <3>2. popcnt[m * q + m] <= popcnt[m * q] + 1
      BY <1>3, <3>1, PairCounts
    <3> QED
      BY <1>3, <3>2
  <2> QED
    BY <2>1, <2>2
<1>7. ASSUME subtree_len > CHUNK_LEN
      PROVE  /\ m \div 2 \in Nat /\ counter + m \div 2 < MaxChunks
             /\ popcnt[counter + m \div 2] = popcnt[counter] + 1
  <2>1. m # 1
    BY <1>2, <1>3, <1>7
  <2>2. m > 1
    BY <1>3, <2>1
  <2>3. /\ m \div 2 \in Nat /\ m \div 2 < m
        /\ popcnt[counter + m \div 2] = popcnt[counter] + 1
    BY <1>3, <2>2, PairCounts
  <2> QED
    BY <1>1, <1>2, <1>4, <2>3
<1> QED
  BY <1>3, <1>4, <1>5, <1>6, <1>7

-----------------------------------------------------------------------------
(***************************************************************************)
(* Every action keeps Accounting                                           *)
(***************************************************************************)
\* A hasher on which a message starts: its chunk is fresh, its stack empty.
LEMMA Fresh ==
  ASSUME NEW k, NEW f, NEW c, c = chunk_state(k, 0, ZeroBuf, 0, 0, f)
  PROVE  /\ IsChunkState(c) /\ chunk_state_len(c) = 0
         /\ c.chunk_counter = 0 /\ c.flags = f
         /\ 0 * CHUNK_LEN + chunk_state_len(c) = 0
         /\ popcnt[0] = 0 /\ 0 \in 0..MaxChunks /\ 0 \in 0..(MAX_DEPTH + 1)
         /\ 0 \in 0..MaxLen /\ 0 <= CHUNK_LEN
  BY Constants, ChunkInit, PopcntShift

LEMMA InitAccounting == Init => Accounting
<1> SUFFICES ASSUME Init PROVE Accounting
  OBVIOUS
<1>1. PICK f \in {{}, {"KEYED_HASH"}} :
        chunk = chunk_state(key, 0, ZeroBuf, 0, 0, f)
  BY DEF Init, chunk_state_init
<1>2. /\ IsChunkState(chunk) /\ chunk_state_len(chunk) = 0
      /\ chunk.chunk_counter = 0 /\ flags = f
      /\ 0 * CHUNK_LEN + chunk_state_len(chunk) = 0
      /\ popcnt[0] = 0 /\ 0 \in 0..MaxChunks /\ 0 \in 0..(MAX_DEPTH + 1)
      /\ 0 \in 0..MaxLen /\ 0 <= CHUNK_LEN
  BY <1>1, Fresh DEF flags
<1>3. TypeOK
  <2>1. IsStack(cv_stack)
    BY DEF Init, IsStack, ZeroStack, GarbageStack
  <2>2. ~ Deriving
    BY <1>2 DEF Deriving
  <2> QED
    BY <1>2, <2>1, <2>2 DEF Init, TypeOK
<1>4. Position
  BY <1>2 DEF Init, Position
<1>5. Progress
  BY <1>2 DEF Init, Progress, EntriesFor
<1> QED
  BY <1>2, <1>3, <1>4, <1>5
  DEF Init, Accounting, PairUnderEmptyChunk, ReadyToFinalize

\* The calls that start a message on an idle hasher, with nothing to hash yet.
LEMMA StartKeeps ==
  ASSUME Accounting,
         \/ blake3_hasher_init
         \/ \E k \in Keys : blake3_hasher_init_keyed(k)
         \/ blake3_hasher_reset
         \/ derive_key_material
  PROVE  Accounting'
<1>1. /\ pc = "idle" /\ pc' = "idle"
      /\ input_len' = 0 /\ subtree_len' = 0 /\ pushes' = <<>>
      /\ cv_stack_len' = 0 /\ fed' = 0 /\ msg' = msg + 1
  BY DEF Accounting, Progress, Callable, blake3_hasher_init,
         blake3_hasher_init_keyed, blake3_hasher_reset, derive_key_material,
         hasher_init_base, NextMessage, locals
<1>2. \E k, f : /\ chunk' = chunk_state(k, 0, ZeroBuf, 0, 0, f)
                /\ f \in {{}, {"KEYED_HASH"}, {"DERIVE_KEY_MATERIAL"}}
  <2>1. flags \in {{}, {"KEYED_HASH"}, {"DERIVE_KEY_CONTEXT"},
                   {"DERIVE_KEY_MATERIAL"}}
    BY DEF Accounting, TypeOK
  <2>2. CASE blake3_hasher_init
    BY <2>2 DEF blake3_hasher_init, hasher_init_base, chunk_state_init
  <2>3. CASE \E k \in Keys : blake3_hasher_init_keyed(k)
    BY <2>3 DEF blake3_hasher_init_keyed, hasher_init_base, chunk_state_init
  <2>4. CASE blake3_hasher_reset
    BY <2>1, <2>4 DEF blake3_hasher_reset, chunk_state_reset, Callable,
                      Deriving, flags
  <2>5. CASE derive_key_material
    BY <2>5 DEF derive_key_material, hasher_init_base, chunk_state_init
  <2> QED
    BY <2>2, <2>3, <2>4, <2>5
<1>3. PICK f \in {{}, {"KEYED_HASH"}, {"DERIVE_KEY_MATERIAL"}} :
        /\ IsChunkState(chunk') /\ chunk_state_len(chunk') = 0
        /\ chunk'.chunk_counter = 0 /\ chunk'.flags = f
        /\ 0 * CHUNK_LEN + chunk_state_len(chunk') = 0
        /\ popcnt[0] = 0 /\ 0 \in 0..MaxChunks /\ 0 \in 0..(MAX_DEPTH + 1)
        /\ 0 \in 0..MaxLen /\ 0 <= CHUNK_LEN
  BY <1>2, Fresh
<1>4. TypeOK'
  <2>1. ~ Deriving'
    BY <1>3 DEF Deriving, flags
  <2>2. IsStack(cv_stack)' /\ caller_stack' = <<>>
    <3>1. IsStack(cv_stack) /\ (Deriving => IsStack(caller_stack))
          /\ (~ Deriving => caller_stack = <<>>)
      BY DEF Accounting, TypeOK
    <3> QED
      BY <3>1 DEF IsStack, ZeroStack, Callable, blake3_hasher_init,
                  blake3_hasher_init_keyed, blake3_hasher_reset,
                  derive_key_material
  <2>3. msg' \in Nat
    BY <1>1 DEF Accounting, TypeOK
  <2> QED
    BY <1>1, <1>3, <2>1, <2>2, <2>3 DEF TypeOK, flags
<1>5. Position'
  BY <1>1, <1>3 DEF Position
<1>6. Progress'
  BY <1>1, <1>3 DEF Progress, EntriesFor
<1> QED
  BY <1>1, <1>3, <1>4, <1>5, <1>6
  DEF Accounting, PairUnderEmptyChunk, ReadyToFinalize

\* The context of a key derivation, of n bytes, is fed to a fresh hasher.
LEMMA DeriveKeeps ==
  ASSUME Accounting, NEW n \in 0..MaxLen, init_derive_key_raw(n)
  PROVE  Accounting'
<1>1. /\ pc = "idle" /\ pc' = IF n = 0 THEN "idle" ELSE "loop"
      /\ input_len' = n /\ subtree_len' = 0 /\ pushes' = <<>>
      /\ cv_stack_len' = 0 /\ fed' = n /\ msg' = msg + 1
      /\ chunk' = chunk_state(IV, 0, ZeroBuf, 0, 0, {"DERIVE_KEY_CONTEXT"})
      /\ cv_stack' = GarbageStack /\ caller_stack' = cv_stack
  BY DEF Accounting, Progress, Callable, init_derive_key_raw,
         hasher_init_base, chunk_state_init
<1>2. /\ IsChunkState(chunk') /\ chunk_state_len(chunk') = 0
      /\ chunk'.chunk_counter = 0 /\ chunk'.flags = {"DERIVE_KEY_CONTEXT"}
      /\ 0 * CHUNK_LEN + chunk_state_len(chunk') = 0
      /\ popcnt[0] = 0 /\ 0 \in 0..MaxChunks /\ 0 \in 0..(MAX_DEPTH + 1)
      /\ 0 \in 0..MaxLen /\ 0 <= CHUNK_LEN
  BY <1>1, Fresh
<1>3. n \in Nat /\ n \in 0..n
  BY Constants
<1>4. TypeOK'
  <2>1. Deriving'
    BY <1>2 DEF Deriving, flags
  <2>2. IsStack(cv_stack)' /\ IsStack(caller_stack)'
    BY <1>1 DEF Accounting, TypeOK, IsStack, GarbageStack
  <2>3. msg' \in Nat
    BY <1>1 DEF Accounting, TypeOK
  <2> QED
    BY <1>1, <1>2, <1>3, <2>1, <2>2, <2>3 DEF TypeOK, flags
<1>5. Position'
  BY <1>1, <1>2, <1>3 DEF Position
<1>6. Progress'
  BY <1>1, <1>2, <1>3 DEF Progress, EntriesFor
<1> QED
  BY <1>1, <1>2, <1>4, <1>5, <1>6
  DEF Accounting, PairUnderEmptyChunk, ReadyToFinalize

\* Finalising, and a step of something else, leave the counters alone.
LEMMA OutputKeeps ==
  ASSUME Accounting, UNCHANGED <<struct, pc, locals, caller_stack, msg, fed>>
  PROVE  Accounting'
  BY DEF Accounting, TypeOK, Position, Progress, PairUnderEmptyChunk,
         ReadyToFinalize, AlignedSubtree, EntriesFor, OnePush, TwoPushes,
         IsStack, Deriving, flags, struct, locals

LEMMA UpdateKeeps ==
  ASSUME Accounting, NEW n \in 0..MaxLen, blake3_hasher_update(n)
  PROVE  Accounting'
<1> DEFINE counter == chunk.chunk_counter
           len     == chunk_state_len(chunk)
<1>1. /\ pc = "idle" /\ ~ Deriving
      /\ pc' = IF n = 0 THEN "idle" ELSE IF len > 0 THEN "fill" ELSE "loop"
      /\ fed + n <= MaxLen /\ fed' = fed + n /\ input_len' = n
      /\ UNCHANGED <<chunk, cv_stack_len, cv_stack, subtree_len, pushes,
                     caller_stack, msg>>
  BY DEF Callable, blake3_hasher_update, struct
<1>2. /\ input_len = 0 /\ subtree_len = 0 /\ pushes = <<>>
      /\ EntriesFor(counter)
      /\ len > 0 => cv_stack_len = popcnt[counter]
  BY <1>1 DEF Accounting, Progress, ReadyToFinalize
<1>3. /\ n \in Nat /\ fed \in Nat /\ len \in Nat /\ counter \in Nat
      /\ CHUNK_LEN \in Nat /\ MaxLen \in Nat /\ counter * CHUNK_LEN \in Nat
  BY Counters, Constants DEF Accounting
<1>4. TypeOK'
  <2>1. input_len' \in 0..(fed') /\ fed' \in 0..MaxLen
    BY <1>1, <1>3
  <2>2. pushes' = <<>> /\ ~ Deriving'
    BY <1>1, <1>2 DEF Deriving, flags
  <2> QED
    BY <1>1, <2>1, <2>2 DEF Accounting, TypeOK, IsStack, Deriving, flags
<1>5. Position'
  <2>1. /\ counter * CHUNK_LEN + len = fed - input_len
        /\ len <= CHUNK_LEN /\ (len > 0 => chunk.buf_len > 0)
    BY DEF Accounting, Position
  <2>2. counter * CHUNK_LEN + len = fed' - input_len'
    BY <1>1, <1>2, <1>3, <2>1
  <2> QED
    BY <1>1, <2>1, <2>2 DEF Position
<1>6. Progress'
  BY <1>1, <1>2, <1>3 DEF Progress, EntriesFor
<1> QED
  BY <1>1, <1>4, <1>5, <1>6
  DEF Accounting, PairUnderEmptyChunk, ReadyToFinalize

\* What is fed to a chunk is a sequence of bytes.
LEMMA InputBytes ==
  ASSUME NEW n \in Nat
  PROVE  /\ input(n) \in Seq({input(n)[i] : i \in 1..n})
         /\ Len(input(n)) = n
  BY DEF input, Bytes

LEMMA FillKeeps == ASSUME Accounting, FillChunk PROVE Accounting'
<1> DEFINE counter == chunk.chunk_counter
           len     == chunk_state_len(chunk)
           room    == CHUNK_LEN - len
           take    == IF room > input_len THEN input_len ELSE room
           full    == chunk_state_update(chunk, input(take))
           at      == [cv |-> output_chaining_value(chunk_state_output(full)),
                       at |-> counter]
<1>1. /\ pc = "fill" /\ chunk' = full /\ input_len' = input_len - take
      /\ IF input_len > take
         THEN pushes' = <<at>> /\ pc' = "merge"
         ELSE pushes' = pushes /\ pc' = "idle"
      /\ UNCHANGED <<cv_stack_len, cv_stack, subtree_len, caller_stack, msg,
                     fed>>
  BY DEF FillChunk
<1>2. /\ input_len > 0 /\ len > 0 /\ subtree_len = 0 /\ pushes = <<>>
      /\ EntriesFor(counter) /\ cv_stack_len = popcnt[counter]
  BY <1>1 DEF Accounting, Progress
<1>3. /\ fed \in Nat /\ len \in Nat /\ counter \in Nat /\ input_len \in Nat
      /\ CHUNK_LEN \in Nat /\ counter * CHUNK_LEN \in Nat
      /\ input_len <= fed
  BY Counters, Constants DEF Accounting
<1>4. /\ counter * CHUNK_LEN + len = fed - input_len
      /\ len <= CHUNK_LEN /\ chunk.buf_len > 0
  BY <1>2 DEF Accounting, Position
<1>5. /\ take \in Nat /\ take <= input_len /\ len + take <= CHUNK_LEN
      /\ input_len > take => len + take = CHUNK_LEN
  BY <1>3, <1>4
<1>6. /\ IsChunkState(full) /\ chunk_state_len(full) = len + take
      /\ full.buf_len > 0
      /\ full.chunk_counter = counter /\ full.flags = chunk.flags
  <2>1. IsChunkState(chunk)
    BY DEF Accounting, TypeOK
  <2>2. input(take) \in Seq({input(take)[i] : i \in 1..take})
        /\ Len(input(take)) = take
    BY <1>5, InputBytes
  <2> QED
    BY <1>4, <2>1, <2>2, ChunkUpdate
<1> HIDE DEF full, take, at
<1>7. TypeOK'
  <2>1. input_len' \in 0..(fed')
    BY <1>1, <1>3, <1>5
  <2>2. pushes' = <<>> \/ OnePush'
    BY <1>1, <1>2 DEF OnePush
  <2> QED
    BY <1>1, <1>6, <2>1, <2>2 DEF Accounting, TypeOK, IsStack, Deriving, flags
<1>8. Position'
  <2> DEFINE done == counter * CHUNK_LEN
  <2>1. counter * CHUNK_LEN + (len + take) = fed - (input_len - take)
    <3>1. /\ done \in Nat /\ len \in Nat /\ take \in Nat
          /\ fed \in Nat /\ input_len \in Nat
          /\ done + len = fed - input_len
      BY <1>3, <1>4, <1>5
    <3> HIDE DEF done, len
    <3>2. done + (len + take) = fed - (input_len - take)
      BY <3>1
    <3> QED
      BY <3>2 DEF done
  <2> QED
    BY <1>1, <1>5, <1>6, <2>1 DEF Position
<1>9. Progress'
  <2>1. CASE input_len > take
    <3>1. /\ pushes' = <<at>> /\ at.at = counter /\ input_len' > 0
          /\ chunk_state_len(chunk') = CHUNK_LEN
      BY <1>1, <1>3, <1>5, <1>6, <2>1 DEF at
    <3> QED
      BY <1>1, <1>2, <1>6, <2>1, <3>1 DEF Progress, EntriesFor, OnePush
  <2>2. CASE ~ (input_len > take)
    <3>1. input_len' = 0
      BY <1>1, <1>3, <1>5, <2>2
    <3> QED
      BY <1>1, <1>2, <1>6, <2>2, <3>1 DEF Progress, EntriesFor
  <2> QED
    BY <2>1, <2>2
<1>10. PairUnderEmptyChunk' /\ ReadyToFinalize'
  <2>1. chunk_state_len(chunk') > 0
    BY <1>1, <1>2, <1>3, <1>5, <1>6
  <2> QED
    BY <1>1, <1>2, <1>6, <2>1 DEF PairUnderEmptyChunk, ReadyToFinalize
<1> QED
  BY <1>7, <1>8, <1>9, <1>10 DEF Accounting

\* The next chunk's counter: the stack holds enough entries for it.
LEMMA ResetKeeps == ASSUME Accounting, ResetChunk PROVE Accounting'
<1> DEFINE counter == chunk.chunk_counter
           len     == chunk_state_len(chunk)
<1>1. /\ pc = "pushed" /\ pc' = "loop" /\ len > 0
      /\ chunk' = chunk_state(key, counter + 1, ZeroBuf, 0, 0, flags)
      /\ UNCHANGED <<cv_stack_len, cv_stack, input_len, subtree_len, pushes,
                     caller_stack, msg, fed>>
  BY DEF ResetChunk, chunk_state_reset, locals, flags
<1>2. /\ fed \in Nat /\ counter \in Nat /\ input_len \in Nat
      /\ cv_stack_len \in Nat /\ popcnt[counter] \in Nat
      /\ CHUNK_LEN \in Nat /\ MaxChunks \in Nat
  BY Counters, Constants DEF Accounting
<1>3. /\ input_len > 0 /\ pushes = <<>> /\ subtree_len = 0
      /\ len = CHUNK_LEN /\ cv_stack_len = popcnt[counter] + 1
  BY <1>1 DEF Accounting, Progress
<1>4. counter < MaxChunks
  BY <1>3, Counters DEF Accounting
<1>5. /\ IsChunkState(chunk') /\ chunk_state_len(chunk') = 0
      /\ chunk'.chunk_counter = counter + 1 /\ chunk'.flags = flags
  BY <1>1, <1>2, ChunkInit
<1>6. TypeOK'
  <2>1. counter + 1 \in 0..MaxChunks
    BY <1>2, <1>4
  <2>2. pushes' = <<>> /\ (Deriving' <=> Deriving)
    BY <1>1, <1>3, <1>5 DEF Deriving, flags
  <2> QED
    BY <1>1, <1>5, <2>1, <2>2 DEF Accounting, TypeOK, IsStack, flags
<1>7. Position'
  <2>1. counter * CHUNK_LEN + CHUNK_LEN = fed - input_len
    BY <1>3 DEF Accounting, Position
  <2>2. (counter + 1) * CHUNK_LEN = counter * CHUNK_LEN + CHUNK_LEN
    BY <1>2
  <2>3. (counter + 1) * CHUNK_LEN \in Nat /\ 0 <= CHUNK_LEN
    BY <1>2
  <2>4. (counter + 1) * CHUNK_LEN + 0 = fed - input_len
    BY <2>1, <2>2, <2>3
  <2> QED
    BY <1>1, <1>5, <2>3, <2>4 DEF Position
<1>8. Progress'
  <2>1. popcnt[counter + 1] <= cv_stack_len /\ counter + 1 # 0
    <3>1. popcnt[counter + 1] <= popcnt[counter] + 1
      BY <1>2, PopcntSucc
    <3> QED
      BY <1>2, <1>3, <3>1
  <2> QED
    BY <1>1, <1>2, <1>3, <1>5, <2>1 DEF Progress, EntriesFor
<1> QED
  BY <1>1, <1>6, <1>7, <1>8
  DEF Accounting, PairUnderEmptyChunk, ReadyToFinalize

LEMMA NextSubtreeKeeps == ASSUME Accounting, NextSubtree PROVE Accounting'
<1> DEFINE counter == chunk.chunk_counter
           len     == chunk_state_len(chunk)
<1>1. /\ pc = "loop" /\ pc' = "shrink" /\ input_len > CHUNK_LEN
      /\ subtree_len' = round_down_to_power_of_2[input_len]
      /\ UNCHANGED <<chunk, cv_stack_len, cv_stack, input_len, pushes,
                     caller_stack, msg, fed>>
  BY DEF NextSubtree, struct
<1>2. /\ fed \in Nat /\ input_len \in Nat /\ fed <= MaxLen /\ input_len <= fed
      /\ CHUNK_LEN \in Nat /\ IsPow2(CHUNK_LEN) /\ MaxLen \in Nat
  BY Counters, Constants DEF Accounting
<1>3. len = 0 /\ pushes = <<>> /\ EntriesFor(counter)
  BY <1>1 DEF Accounting, Progress
<1>4. /\ IsPow2(subtree_len') /\ subtree_len' \in Nat
      /\ subtree_len' <= input_len /\ input_len < 2 * subtree_len'
  BY <1>1, <1>2, RoundDown, Pow2Positive
<1>5. subtree_len' >= CHUNK_LEN
  <2> SUFFICES ASSUME subtree_len' < CHUNK_LEN PROVE FALSE
    BY <1>2, <1>4
  <2>1. 2 * subtree_len' <= CHUNK_LEN
    BY <1>2, <1>4, Pow2Gap
  <2> QED
    BY <1>1, <1>2, <1>4, <2>1
<1>6. TypeOK'
  <2>1. subtree_len' \in 0..MaxLen
    BY <1>2, <1>4
  <2>2. pushes' = <<>> /\ (Deriving' <=> Deriving)
    BY <1>1, <1>3 DEF Deriving, flags
  <2> QED
    BY <1>1, <2>1, <2>2 DEF Accounting, TypeOK, IsStack, flags
<1>7. Position'
  BY <1>1 DEF Accounting, Position
<1>8. Progress'
  BY <1>1, <1>2, <1>3, <1>4, <1>5 DEF Progress, EntriesFor
<1> QED
  BY <1>1, <1>6, <1>7, <1>8
  DEF Accounting, PairUnderEmptyChunk, ReadyToFinalize

LEMMA ShrinkKeeps == ASSUME Accounting, ShrinkSubtree PROVE Accounting'
<1> DEFINE counter == chunk.chunk_counter
           len     == chunk_state_len(chunk)
<1>1. /\ pc = "shrink" /\ pc' = "shrink"
      /\ (counter * CHUNK_LEN) % subtree_len # 0
      /\ subtree_len' = subtree_len \div 2
      /\ UNCHANGED <<chunk, cv_stack_len, cv_stack, input_len, pushes,
                     caller_stack, msg, fed>>
  BY DEF ShrinkSubtree, Misaligned, struct
<1>2. /\ counter \in Nat /\ input_len \in Nat /\ subtree_len \in Nat
      /\ subtree_len <= MaxLen /\ CHUNK_LEN \in Nat /\ MaxLen \in Nat
  BY Counters, Constants DEF Accounting
<1>3. /\ len = 0 /\ pushes = <<>> /\ EntriesFor(counter)
      /\ IsPow2(subtree_len) /\ subtree_len >= CHUNK_LEN
      /\ subtree_len <= input_len /\ input_len > CHUNK_LEN
  BY <1>1, <1>2 DEF Accounting, Progress
<1>4. /\ IsPow2(subtree_len') /\ subtree_len' \in Nat
      /\ subtree_len' >= CHUNK_LEN /\ subtree_len' < subtree_len
  BY <1>1, <1>2, <1>3, HalvingKeepsChunks, Pow2Positive
<1>5. TypeOK'
  <2>1. subtree_len' \in 0..MaxLen
    BY <1>2, <1>4
  <2>2. pushes' = <<>> /\ (Deriving' <=> Deriving)
    BY <1>1, <1>3 DEF Deriving, flags
  <2> QED
    BY <1>1, <2>1, <2>2 DEF Accounting, TypeOK, IsStack, flags
<1>6. Position'
  BY <1>1 DEF Accounting, Position
<1>7. Progress'
  <2>1. subtree_len' \in CHUNK_LEN..input_len
    BY <1>2, <1>3, <1>4
  <2> QED
    BY <1>1, <1>3, <1>4, <2>1 DEF Progress, EntriesFor
<1> QED
  BY <1>1, <1>5, <1>6, <1>7
  DEF Accounting, PairUnderEmptyChunk, ReadyToFinalize

\* The aligned subtree is hashed: the pushes it asks for.
LEMMA HashKeeps == ASSUME Accounting, HashSubtree PROVE Accounting'
<1> DEFINE counter == chunk.chunk_counter
           len     == chunk_state_len(chunk)
           half    == (subtree_len \div CHUNK_LEN) \div 2
           bytes   == input(subtree_len)
           pair    == compress_subtree_to_parent_node(bytes, key, counter,
                                                      flags)
           only    == [cv |-> one_chunk_cv(bytes), at |-> counter]
           left    == [cv |-> pair[1], at |-> counter]
           right   == [cv |-> pair[2], at |-> counter + half]
<1>1. /\ pc = "shrink" /\ pc' = "merge"
      /\ (counter * CHUNK_LEN) % subtree_len = 0
      /\ pushes' = IF subtree_len <= CHUNK_LEN THEN <<only>>
                   ELSE <<left, right>>
      /\ UNCHANGED <<chunk, cv_stack_len, cv_stack, input_len, subtree_len,
                     caller_stack, msg, fed>>
  BY DEF HashSubtree, Misaligned, struct, subtree_pushes
<1>2. input_len \in Nat /\ subtree_len \in Nat /\ CHUNK_LEN \in Nat
  BY Counters, Constants DEF Accounting
<1>3. /\ len = 0 /\ EntriesFor(counter)
      /\ IsPow2(subtree_len) /\ subtree_len \in CHUNK_LEN..input_len
      /\ input_len > CHUNK_LEN
  BY <1>1, <1>2 DEF Accounting, Progress
<1>4. \/ /\ subtree_len = CHUNK_LEN /\ OnePush' /\ pushes'[1].at = counter
      \/ /\ subtree_len > CHUNK_LEN /\ TwoPushes' /\ pushes'[1].at = counter
         /\ pushes'[2].at = counter + half
  <2> HIDE DEF pair
  <2>1. only.at = counter /\ left.at = counter /\ right.at = counter + half
    OBVIOUS
  <2> HIDE DEF only, left, right
  <2>2. CASE subtree_len <= CHUNK_LEN
    BY <1>1, <1>2, <1>3, <2>1, <2>2 DEF OnePush
  <2>3. CASE ~ (subtree_len <= CHUNK_LEN)
    BY <1>1, <1>2, <1>3, <2>1, <2>3 DEF TwoPushes
  <2> QED
    BY <2>2, <2>3
<1> HIDE DEF only, left, right, pair, bytes
<1>5. AlignedSubtree'
  BY <1>1, <1>2, <1>3, <1>4 DEF AlignedSubtree
<1>6. TypeOK'
  <2>1. Deriving' <=> Deriving
    BY <1>1 DEF Deriving, flags
  <2> QED
    BY <1>1, <1>4, <2>1 DEF Accounting, TypeOK, IsStack, flags
<1>7. Position'
  BY <1>1 DEF Accounting, Position
<1>8. Progress'
  BY <1>1, <1>2, <1>3, <1>4, <1>5 DEF Progress, EntriesFor
<1> QED
  BY <1>1, <1>6, <1>7, <1>8
  DEF Accounting, PairUnderEmptyChunk, ReadyToFinalize

\* The input moves past the subtree, and the counter with it.
LEMMA AdvanceKeeps == ASSUME Accounting, AdvanceInput PROVE Accounting'
<1> DEFINE counter == chunk.chunk_counter
           len     == chunk_state_len(chunk)
           m       == subtree_len \div CHUNK_LEN
<1>1. /\ pc = "pushed" /\ pc' = "loop" /\ len = 0
      /\ chunk' = [chunk EXCEPT !.chunk_counter = counter + m]
      /\ input_len' = input_len - subtree_len /\ subtree_len' = 0
      /\ UNCHANGED <<cv_stack_len, cv_stack, pushes, caller_stack, msg, fed>>
  BY DEF AdvanceInput
<1>2. /\ fed \in Nat /\ counter \in Nat /\ input_len \in Nat
      /\ input_len <= fed /\ subtree_len \in Nat
      /\ cv_stack_len \in Nat /\ popcnt[counter] \in Nat
      /\ CHUNK_LEN \in Nat /\ CHUNK_LEN > 0
      /\ MaxChunks \in Nat /\ MaxLen \in Nat
  BY Counters, Constants DEF Accounting
<1>3. /\ pushes = <<>> /\ AlignedSubtree
      /\ \/ subtree_len = CHUNK_LEN /\ cv_stack_len = popcnt[counter] + 1
         \/ subtree_len > CHUNK_LEN /\ cv_stack_len = popcnt[counter] + 2
  BY <1>1, <1>2 DEF Accounting, Progress
<1>4. /\ m \in Nat /\ m > 0 /\ subtree_len = m * CHUNK_LEN
      /\ counter + m <= MaxChunks
      /\ popcnt[counter + m] \in Nat
      /\ popcnt[counter + m] <= popcnt[counter] + 1
  BY <1>1, <1>3, SubtreeCounts DEF Accounting, AlignedSubtree
<1> HIDE DEF m
<1>5. /\ IsChunkState(chunk') /\ chunk_state_len(chunk') = 0
      /\ chunk'.chunk_counter = counter + m /\ chunk'.flags = flags
  <2>1. IsChunkState(chunk)
    BY DEF Accounting, TypeOK
  <2>2. counter + m \in Nat
    BY <1>2, <1>4
  <2>3. chunk' = chunk_state(chunk.cv, counter + m, chunk.buf, chunk.buf_len,
                             chunk.blocks_compressed, chunk.flags)
    BY <1>1, <2>1 DEF IsChunkState, chunk_state
  <2> QED
    BY <1>1, <2>1, <2>2, <2>3
    DEF IsChunkState, chunk_state, chunk_state_len, flags
<1>6. input_len' \in Nat /\ input_len' <= fed /\ subtree_len <= input_len
  BY <1>1, <1>2, <1>3 DEF AlignedSubtree
<1>7. TypeOK'
  <2>1. counter + m \in 0..MaxChunks /\ 0 \in 0..MaxLen /\ input_len' \in 0..fed
    BY <1>2, <1>4, <1>6
  <2>2. pushes' = <<>> /\ (Deriving' <=> Deriving)
    BY <1>1, <1>3, <1>5 DEF Deriving, flags
  <2> QED
    BY <1>1, <1>5, <2>1, <2>2 DEF Accounting, TypeOK, IsStack, flags
<1>8. Position'
  <2> DEFINE done == counter * CHUNK_LEN
             step == m * CHUNK_LEN
  <2>1. done + 0 = fed - input_len
    BY <1>1 DEF Accounting, Position
  <2>2. (counter + m) * CHUNK_LEN = done + step
    BY <1>2, <1>4
  <2>3. done \in Nat /\ step \in Nat /\ step = subtree_len /\ 0 <= CHUNK_LEN
    BY <1>2, <1>4
  <2> HIDE DEF done, step
  <2>4. done + step + 0 = fed - (input_len - subtree_len)
    BY <1>2, <2>1, <2>3
  <2> QED
    BY <1>1, <1>5, <2>2, <2>3, <2>4 DEF Position
<1>9. Progress'
  <2>1. popcnt[counter + m] <= cv_stack_len /\ counter + m # 0
    BY <1>2, <1>3, <1>4
  <2>2. input_len' = 0 => cv_stack_len >= 2
    <3>1. subtree_len < input_len \/ subtree_len > CHUNK_LEN
      BY <1>3 DEF AlignedSubtree
    <3>2. CASE subtree_len < input_len
      BY <1>1, <1>2, <3>2
    <3>3. CASE subtree_len > CHUNK_LEN
      BY <1>2, <1>3, <3>3
    <3> QED
      BY <3>1, <3>2, <3>3
  <2> QED
    BY <1>1, <1>3, <1>5, <2>1, <2>2 DEF Progress, EntriesFor
<1> QED
  BY <1>1, <1>7, <1>8, <1>9
  DEF Accounting, PairUnderEmptyChunk, ReadyToFinalize

\* What is left over goes to the chunk: it is not empty afterwards.
LEMMA TailKeeps == ASSUME Accounting, BufferTail PROVE Accounting'
<1> DEFINE counter == chunk.chunk_counter
           len     == chunk_state_len(chunk)
           full    == chunk_state_update(chunk, input(input_len))
<1>1. /\ pc = "loop" /\ input_len <= CHUNK_LEN /\ input_len' = 0
      /\ IF input_len > 0 THEN chunk' = full /\ pc' = "tail"
         ELSE chunk' = chunk /\ pc' = "idle"
      /\ UNCHANGED <<cv_stack_len, cv_stack, subtree_len, pushes,
                     caller_stack, msg, fed>>
  BY DEF BufferTail
<1>2. /\ fed \in Nat /\ counter \in Nat /\ input_len \in Nat
      /\ cv_stack_len \in Nat
      /\ CHUNK_LEN \in Nat /\ counter * CHUNK_LEN \in Nat
  BY Counters, Constants DEF Accounting
<1>3. /\ len = 0 /\ subtree_len = 0 /\ pushes = <<>> /\ EntriesFor(counter)
      /\ input_len = 0 /\ cv_stack_len > 0 => cv_stack_len >= 2
  BY <1>1 DEF Accounting, Progress
<1>4. counter * CHUNK_LEN + 0 = fed - input_len
  BY <1>3 DEF Accounting, Position
<1>5. CASE input_len > 0
  <2>1. /\ IsChunkState(full) /\ chunk_state_len(full) = input_len
        /\ full.buf_len > 0
        /\ full.chunk_counter = counter /\ full.flags = chunk.flags
    <3>1. IsChunkState(chunk)
      BY DEF Accounting, TypeOK
    <3>2. input(input_len) \in Seq({input(input_len)[i] : i \in 1..input_len})
          /\ Len(input(input_len)) = input_len
      BY <1>2, InputBytes
    <3>3. chunk_state_len(full) = 0 + input_len
      BY <1>3, <1>5, <3>1, <3>2, ChunkUpdate
    <3> QED
      BY <1>2, <1>3, <1>5, <3>1, <3>2, <3>3, ChunkUpdate
  <2> HIDE DEF full
  <2>2. chunk' = full /\ pc' = "tail"
    BY <1>1, <1>5
  <2>3. TypeOK'
    <3>1. 0 \in 0..fed
      BY <1>2
    <3>2. pushes' = <<>> /\ (Deriving' <=> Deriving)
      BY <1>1, <1>3, <2>1, <2>2 DEF Deriving, flags
    <3> QED
      BY <1>1, <2>1, <2>2, <3>1, <3>2 DEF Accounting, TypeOK, IsStack, flags
  <2>4. Position'
    <3> DEFINE done == counter * CHUNK_LEN
    <3>1. done \in Nat /\ done + 0 = fed - input_len
      BY <1>2, <1>4
    <3> HIDE DEF done
    <3>2. done + input_len = fed - 0
      BY <1>2, <3>1
    <3> QED
      BY <1>1, <2>1, <2>2, <3>2 DEF Position, done
  <2>5. Progress'
    BY <1>1, <1>3, <1>5, <2>1, <2>2 DEF Progress, EntriesFor
  <2> QED
    BY <2>2, <2>3, <2>4, <2>5
    DEF Accounting, PairUnderEmptyChunk, ReadyToFinalize
<1>6. CASE ~ (input_len > 0)
  <2>1. input_len = 0 /\ chunk' = chunk /\ pc' = "idle"
    BY <1>1, <1>2, <1>6
  <2>2. TypeOK'
    <3>1. 0 \in 0..fed
      BY <1>2
    <3>2. pushes' = <<>> /\ (Deriving' <=> Deriving)
      BY <1>1, <1>3, <2>1 DEF Deriving, flags
    <3> QED
      BY <1>1, <2>1, <3>1, <3>2 DEF Accounting, TypeOK, IsStack, flags
  <2>3. Position'
    BY <1>1, <2>1 DEF Accounting, Position
  <2>4. Progress'
    BY <1>1, <1>3, <2>1 DEF Progress, EntriesFor
  <2>5. PairUnderEmptyChunk' /\ ReadyToFinalize'
    BY <1>1, <1>2, <1>3, <2>1 DEF PairUnderEmptyChunk, ReadyToFinalize
  <2> QED
    BY <2>2, <2>3, <2>4, <2>5 DEF Accounting
<1> QED
  BY <1>5, <1>6

\* A merge only happens above the entries the counter calls for.
LEMMA MergeFacts ==
  ASSUME Accounting, NEW at \in Nat, MergeNeeded(at),
         popcnt[at] <= cv_stack_len, at = 0 => cv_stack_len = 0
  PROVE  /\ cv_stack_len >= 2 /\ cv_stack_len \in Nat
         /\ popcnt[at] <= cv_stack_len - 1 /\ at # 0
         /\ popcnt[at] \in Nat
<1>1. cv_stack_len \in Nat /\ popcnt[at] \in Nat /\ popcnt[0] = 0
  BY Counters, PopcntType DEF Accounting
<1>2. cv_stack_len > popcnt[at]
  BY DEF MergeNeeded
<1>3. at # 0
  BY <1>1, <1>2
<1>4. popcnt[at] # 0
  BY <1>3, PopcntZero
<1> QED
  BY <1>1, <1>2, <1>3, <1>4

\* The push at the head of the queue, when one is due.
LEMMA PushFacts ==
  ASSUME Accounting, pc = "merge"
  PROVE  LET counter == chunk.chunk_counter
             at      == Head(pushes).at
         IN  /\ at = pushes[1].at /\ at \in Nat /\ at < MaxChunks
             /\ popcnt[at] \in Nat /\ popcnt[at] <= MAX_DEPTH
             /\ \/ at = counter /\ EntriesFor(counter)
                \/ cv_stack_len = popcnt[at] /\ at # counter
<1> DEFINE counter == chunk.chunk_counter
           half    == (subtree_len \div CHUNK_LEN) \div 2
<1>1. /\ counter \in Nat /\ input_len \in Nat /\ CHUNK_LEN \in Nat
      /\ input_len > 0 => counter < MaxChunks
      /\ popcnt[counter] \in Nat
  BY Counters, Constants DEF Accounting
<1>2. /\ input_len > 0
      /\ \/ /\ OnePush \/ TwoPushes
            /\ pushes[1].at = counter /\ EntriesFor(counter)
         \/ /\ AlignedSubtree /\ subtree_len > CHUNK_LEN
            /\ chunk_state_len(chunk) = 0
            /\ OnePush /\ pushes[1].at = counter + half
            /\ cv_stack_len = popcnt[counter] + 1
  BY DEF Accounting, Progress
<1>3. Head(pushes).at = pushes[1].at
  BY <1>2 DEF OnePush, TwoPushes
<1>4. CASE pushes[1].at = counter /\ EntriesFor(counter)
  BY <1>1, <1>2, <1>3, <1>4, DepthBound
<1>5. CASE /\ AlignedSubtree /\ subtree_len > CHUNK_LEN
           /\ chunk_state_len(chunk) = 0
           /\ pushes[1].at = counter + half
           /\ cv_stack_len = popcnt[counter] + 1
  <2>1. /\ half \in Nat /\ counter + half < MaxChunks
        /\ popcnt[counter + half] = popcnt[counter] + 1
    BY <1>5, SubtreeCounts DEF Accounting, AlignedSubtree
  <2> HIDE DEF half
  <2>2. half # 0
    BY <1>1, <2>1
  <2>3. counter + half \in Nat /\ counter + half # counter
    BY <1>1, <2>1, <2>2
  <2> QED
    BY <1>3, <1>5, <2>1, <2>3, DepthBound
<1> QED
  BY <1>2, <1>4, <1>5

\* What a merge does to the stack.
LEMMA MergeTopFacts ==
  ASSUME Accounting, MergeTop
  PROVE  IsStack(cv_stack)' /\ cv_stack_len' = cv_stack_len - 1
<1>1. IsStack(cv_stack)
  BY DEF Accounting, TypeOK
<1>2. \E v : cv_stack' = [cv_stack EXCEPT ![cv_stack_len - 2] = v]
  BY DEF MergeTop
<1> QED
  BY <1>1, <1>2 DEF MergeTop, IsStack

LEMMA MergeBeforePushKeeps ==
  ASSUME Accounting, MergeBeforePush PROVE Accounting'
<1> DEFINE counter == chunk.chunk_counter
           at      == Head(pushes).at
<1>1. /\ pc = "merge" /\ pc' = "merge" /\ MergeNeeded(at)
      /\ MergeTop
      /\ UNCHANGED <<chunk, input_len, subtree_len, pushes, caller_stack, msg,
                     fed>>
  BY DEF MergeBeforePush, locals
<1>2. at = counter /\ EntriesFor(counter) /\ at \in Nat
  <2>1. cv_stack_len \in Nat /\ cv_stack_len > popcnt[at]
    BY <1>1, Counters DEF Accounting, MergeNeeded
  <2>2. /\ at \in Nat /\ popcnt[at] \in Nat
        /\ \/ at = counter /\ EntriesFor(counter)
           \/ cv_stack_len = popcnt[at] /\ at # counter
    BY <1>1, PushFacts
  <2> HIDE DEF at
  <2>3. cv_stack_len # popcnt[at]
    BY <2>1, <2>2
  <2> QED
    BY <2>2, <2>3
<1>3. /\ cv_stack_len >= 2 /\ cv_stack_len \in Nat
      /\ popcnt[counter] <= cv_stack_len - 1 /\ counter # 0
      /\ popcnt[counter] \in Nat
  BY <1>1, <1>2, MergeFacts DEF EntriesFor
<1>4. IsStack(cv_stack)' /\ cv_stack_len' = cv_stack_len - 1
  BY <1>1, MergeTopFacts
<1>5. pushes[1].at = counter
  BY <1>1, <1>2, PushFacts
<1>6. TypeOK'
  <2>1. cv_stack_len' \in 0..(MAX_DEPTH + 1)
    BY <1>3, <1>4, Counters, Constants DEF Accounting
  <2>2. /\ Deriving' <=> Deriving
        /\ OnePush' <=> OnePush
        /\ TwoPushes' <=> TwoPushes
    BY <1>1 DEF Deriving, flags, OnePush, TwoPushes
  <2> QED
    BY <1>1, <1>4, <2>1, <2>2 DEF Accounting, TypeOK, IsStack, flags
<1>7. Position'
  BY <1>1 DEF Accounting, Position
<1>8. EntriesFor(counter)'
  BY <1>1, <1>3, <1>4 DEF EntriesFor
<1>9. Progress'
  <2> DEFINE half == (subtree_len \div CHUNK_LEN) \div 2
  <2>1. subtree_len > CHUNK_LEN /\ AlignedSubtree
          /\ chunk_state_len(chunk) = 0 => counter + half # counter
    <3> SUFFICES ASSUME subtree_len > CHUNK_LEN, AlignedSubtree,
                        chunk_state_len(chunk) = 0
                 PROVE  counter + half # counter
      OBVIOUS
    <3>1. /\ half \in Nat /\ popcnt[counter + half] = popcnt[counter] + 1
      BY SubtreeCounts DEF Accounting, AlignedSubtree
    <3> HIDE DEF half
    <3> QED
      BY <1>3, <3>1
  <2> HIDE DEF half
  <2>2. /\ input_len > 0
        /\ \/ /\ subtree_len = 0 /\ chunk_state_len(chunk) = CHUNK_LEN
              /\ OnePush
           \/ /\ AlignedSubtree /\ subtree_len = CHUNK_LEN
              /\ chunk_state_len(chunk) = 0 /\ OnePush
           \/ /\ AlignedSubtree /\ subtree_len > CHUNK_LEN
              /\ chunk_state_len(chunk) = 0
              /\ TwoPushes /\ pushes[2].at = counter + half
    BY <1>1, <1>5, <2>1 DEF Accounting, Progress, half
  <2>3. /\ OnePush' <=> OnePush
        /\ TwoPushes' <=> TwoPushes
        /\ AlignedSubtree' <=> AlignedSubtree
        /\ half' = half
    BY <1>1 DEF OnePush, TwoPushes, AlignedSubtree, half
  <2> QED
    BY <1>1, <1>5, <1>8, <2>2, <2>3 DEF Progress, half
<1> QED
  BY <1>1, <1>6, <1>7, <1>9
  DEF Accounting, PairUnderEmptyChunk, ReadyToFinalize

LEMMA MergeTailKeeps == ASSUME Accounting, MergeTail PROVE Accounting'
<1> DEFINE counter == chunk.chunk_counter
<1>1. /\ pc = "tail" /\ pc' = "tail" /\ MergeNeeded(counter)
      /\ MergeTop
      /\ UNCHANGED <<chunk, input_len, subtree_len, pushes, caller_stack, msg,
                     fed>>
  BY DEF MergeTail, locals
<1>2. /\ input_len = 0 /\ chunk_state_len(chunk) > 0
      /\ subtree_len = 0 /\ pushes = <<>> /\ EntriesFor(counter)
  BY <1>1 DEF Accounting, Progress
<1>3. /\ cv_stack_len >= 2 /\ cv_stack_len \in Nat
      /\ popcnt[counter] <= cv_stack_len - 1 /\ counter # 0
      /\ popcnt[counter] \in Nat
  BY <1>1, <1>2, MergeFacts, Counters DEF EntriesFor, Accounting
<1>4. IsStack(cv_stack)' /\ cv_stack_len' = cv_stack_len - 1
  BY <1>1, MergeTopFacts
<1>5. TypeOK'
  <2>1. cv_stack_len' \in 0..(MAX_DEPTH + 1)
    BY <1>3, <1>4, Counters, Constants DEF Accounting
  <2>2. pushes' = <<>> /\ (Deriving' <=> Deriving)
    BY <1>1, <1>2 DEF Deriving, flags
  <2> QED
    BY <1>1, <1>4, <2>1, <2>2 DEF Accounting, TypeOK, IsStack, flags
<1>6. Position'
  BY <1>1 DEF Accounting, Position
<1>7. Progress'
  BY <1>1, <1>2, <1>3, <1>4 DEF Progress, EntriesFor
<1> QED
  BY <1>1, <1>5, <1>6, <1>7
  DEF Accounting, PairUnderEmptyChunk, ReadyToFinalize

\* update returns: as many entries as the counter has 1 bits.
LEMMA ReturnKeeps == ASSUME Accounting, ReturnFromUpdate PROVE Accounting'
<1> DEFINE counter == chunk.chunk_counter
<1>1. /\ pc = "tail" /\ pc' = "idle" /\ ~ MergeNeeded(counter)
      /\ UNCHANGED <<chunk, cv_stack_len, cv_stack, input_len, subtree_len,
                     pushes, caller_stack, msg, fed>>
  BY DEF ReturnFromUpdate, struct, locals
<1>2. /\ input_len = 0 /\ chunk_state_len(chunk) > 0
      /\ subtree_len = 0 /\ pushes = <<>> /\ EntriesFor(counter)
  BY <1>1 DEF Accounting, Progress
<1>3. cv_stack_len = popcnt[counter]
  <2>1. cv_stack_len \in Nat /\ popcnt[counter] \in Nat
    BY Counters DEF Accounting
  <2> QED
    BY <1>1, <1>2, <2>1 DEF MergeNeeded, EntriesFor
<1>4. TypeOK'
  <2>1. pushes' = <<>> /\ (Deriving' <=> Deriving)
    BY <1>1, <1>2 DEF Deriving, flags
  <2> QED
    BY <1>1, <2>1 DEF Accounting, TypeOK, IsStack, flags
<1>5. Position' /\ chunk.buf_len > 0
  BY <1>1, <1>2 DEF Accounting, Position
<1>6. Progress'
  BY <1>1, <1>2 DEF Progress, EntriesFor
<1>7. PairUnderEmptyChunk' /\ ReadyToFinalize'
  <2>1. chunk_state_len(chunk) # 0
    BY <1>2, Counters DEF Accounting
  <2> QED
    BY <1>1, <1>2, <1>3, <1>5, <2>1 DEF PairUnderEmptyChunk, ReadyToFinalize
<1> QED
  BY <1>4, <1>5, <1>6, <1>7 DEF Accounting

LEMMA Tails ==
  ASSUME NEW s, NEW x, NEW y
  PROVE  /\ s = <<x>> => Tail(s) = <<>>
         /\ s = <<x, y>> => Tail(s) = <<y>>
<1>1. ASSUME s = <<x>> PROVE Tail(s) = <<>>
  <2>1. s \in Seq({x, y}) /\ s # <<>> /\ Len(s) = 1
    BY <1>1
  <2>2. Tail(s) \in Seq({x, y}) /\ Len(Tail(s)) = 0
    BY <2>1, HeadTailProperties
  <2> QED
    BY <2>2, EmptySeq
<1>2. ASSUME s = <<x, y>> PROVE Tail(s) = <<y>>
  <2>1. s \in Seq({x, y}) /\ s # <<>> /\ Len(s) = 2 /\ s[2] = y
    BY <1>2
  <2>2. /\ Tail(s) \in Seq({x, y}) /\ Len(Tail(s)) = 1
        /\ \A i \in 1..Len(Tail(s)) : Tail(s)[i] = s[i+1]
    BY <2>1, HeadTailProperties
  <2>3. <<y>> \in Seq({x, y}) /\ Len(<<y>>) = 1 /\ <<y>>[1] = y
    OBVIOUS
  <2>4. Tail(s)[1] = y
    BY <2>1, <2>2
  <2> DEFINE t == Tail(s)
             r == <<y>>
  <2>5. /\ t \in Seq({x, y}) /\ Len(t) = 1 /\ t[1] = y
        /\ r \in Seq({x, y}) /\ Len(r) = 1 /\ r[1] = y
    BY <2>2, <2>3, <2>4
  <2> HIDE DEF t, r
  <2>6. t = r
    <3>1. \A i \in 1..Len(t) : t[i] = r[i]
      BY <2>5
    <3> QED
      BY <2>5, <3>1, SeqEqual
  <2> QED
    BY <2>6 DEF t, r
<1> QED
  BY <1>1, <1>2

\* A push takes the stack to one entry more than its counter has 1 bits.
LEMMA PushKeeps == ASSUME Accounting, PushCV PROVE Accounting'
<1> DEFINE counter == chunk.chunk_counter
           len     == chunk_state_len(chunk)
           half    == (subtree_len \div CHUNK_LEN) \div 2
           at      == Head(pushes).at
<1>1. /\ pc = "merge" /\ ~ MergeNeeded(at)
      /\ cv_stack' = [cv_stack EXCEPT ![cv_stack_len] = Head(pushes).cv]
      /\ cv_stack_len' = cv_stack_len + 1
      /\ pushes' = Tail(pushes)
      /\ pc' = IF Len(pushes) = 1 THEN "pushed" ELSE "merge"
      /\ UNCHANGED <<chunk, input_len, subtree_len, caller_stack, msg, fed>>
  BY DEF PushCV
<1>2. /\ cv_stack_len \in Nat /\ popcnt[counter] \in Nat /\ counter \in Nat
      /\ MAX_DEPTH \in Nat /\ CHUNK_LEN \in Nat /\ subtree_len \in Nat
  BY Counters, Constants DEF Accounting
<1>3. /\ at = pushes[1].at /\ popcnt[at] \in Nat /\ popcnt[at] <= MAX_DEPTH
      /\ cv_stack_len = popcnt[at]
  <2>1. /\ at = pushes[1].at /\ popcnt[at] \in Nat /\ popcnt[at] <= MAX_DEPTH
        /\ popcnt[at] <= cv_stack_len
    BY <1>1, <1>2, PushFacts DEF EntriesFor
  <2>2. ~ (cv_stack_len > popcnt[at])
    BY <1>1 DEF MergeNeeded
  <2> HIDE DEF at
  <2> QED
    BY <1>2, <2>1, <2>2
<1>4. /\ input_len > 0
      /\ \/ /\ subtree_len = 0 /\ len = CHUNK_LEN
            /\ OnePush /\ at = counter
         \/ /\ AlignedSubtree /\ subtree_len = CHUNK_LEN /\ len = 0
            /\ OnePush /\ at = counter
         \/ /\ AlignedSubtree /\ subtree_len > CHUNK_LEN /\ len = 0
            /\ TwoPushes /\ at = counter /\ pushes[2].at = counter + half
         \/ /\ AlignedSubtree /\ subtree_len > CHUNK_LEN /\ len = 0
            /\ OnePush /\ at = counter + half
            /\ cv_stack_len = popcnt[counter] + 1
  BY <1>1, <1>3 DEF Accounting, Progress
<1>5. /\ OnePush => pushes' = <<>> /\ pc' = "pushed"
      /\ TwoPushes => /\ pushes' = <<pushes[2]>> /\ pc' = "merge"
                      /\ OnePush' /\ pushes'[1] = pushes[2]
  <2>1. ASSUME OnePush PROVE pushes' = <<>> /\ pc' = "pushed"
    <3>1. Len(pushes) = 1 /\ Tail(pushes) = <<>>
      BY <2>1, Tails DEF OnePush
    <3> QED
      BY <1>1, <3>1
  <2>2. ASSUME TwoPushes
        PROVE  /\ pushes' = <<pushes[2]>> /\ pc' = "merge"
               /\ OnePush' /\ pushes'[1] = pushes[2]
    <3>1. Len(pushes) = 2 /\ Tail(pushes) = <<pushes[2]>>
      BY <2>2, Tails DEF TwoPushes
    <3>2. pushes' = <<pushes[2]>> /\ pc' = "merge"
      BY <1>1, <3>1
    <3> QED
      BY <3>2 DEF OnePush
  <2> QED
    BY <2>1, <2>2
<1> HIDE DEF at
<1>6. IsStack(cv_stack)'
  <2>1. IsStack(cv_stack)
    BY DEF Accounting, TypeOK
  <2> QED
    BY <1>1, <2>1 DEF IsStack
<1>7. /\ AlignedSubtree' <=> AlignedSubtree
      /\ chunk_state_len(chunk)' = len /\ half' = half
      /\ chunk'.chunk_counter = counter
  BY <1>1 DEF AlignedSubtree
<1>8. TypeOK'
  <2>1. cv_stack_len' \in 0..(MAX_DEPTH + 1)
    BY <1>1, <1>2, <1>3
  <2>2. /\ Deriving' <=> Deriving
        /\ pushes' = <<>> \/ OnePush'
        /\ pc' \in {"pushed", "merge"}
    BY <1>1, <1>4, <1>5 DEF Deriving, flags
  <2> QED
    BY <1>1, <1>6, <2>1, <2>2 DEF Accounting, TypeOK, IsStack, flags
<1>9. Position'
  BY <1>1 DEF Accounting, Position
<1>10. Progress'
  <2> HIDE DEF half, len
  <2>1. CASE OnePush /\ at = counter
    <3>1. cv_stack_len' = popcnt[counter] + 1 /\ pushes' = <<>> /\ pc' = "pushed"
      BY <1>1, <1>3, <1>5, <2>1
    <3>2. \/ subtree_len = 0 /\ len = CHUNK_LEN
          \/ AlignedSubtree /\ subtree_len = CHUNK_LEN /\ len = 0
          \/ /\ AlignedSubtree /\ subtree_len > CHUNK_LEN /\ len = 0
             /\ cv_stack_len = popcnt[counter] + 1
      BY <1>4, <2>1 DEF OnePush, TwoPushes
    <3>3. cv_stack_len # popcnt[counter] + 1
      BY <1>2, <1>3, <2>1
    <3> QED
      BY <1>1, <1>4, <1>7, <3>1, <3>2, <3>3 DEF Progress, len
  <2>2. CASE TwoPushes /\ at = counter
    <3>1. /\ cv_stack_len' = popcnt[counter] + 1 /\ pc' = "merge"
          /\ OnePush' /\ pushes'[1] = pushes[2]
      BY <1>1, <1>3, <1>5, <2>2
    <3>2. /\ AlignedSubtree /\ subtree_len > CHUNK_LEN /\ len = 0
          /\ pushes[2].at = counter + half
      BY <1>4, <2>2 DEF OnePush, TwoPushes
    <3> QED
      BY <1>1, <1>4, <1>7, <3>1, <3>2 DEF Progress, len, half
  <2>3. CASE OnePush /\ at # counter
    <3>1. /\ AlignedSubtree /\ subtree_len > CHUNK_LEN /\ len = 0
          /\ cv_stack_len = popcnt[counter] + 1
      BY <1>4, <2>3 DEF OnePush, TwoPushes
    <3>2. /\ cv_stack_len' = popcnt[counter] + 2 /\ pushes' = <<>>
          /\ pc' = "pushed"
      BY <1>1, <1>2, <1>5, <2>3, <3>1
    <3> QED
      BY <1>1, <1>4, <1>7, <3>1, <3>2 DEF Progress, len
  <2> QED
    BY <1>4, <2>1, <2>2, <2>3
<1> QED
  BY <1>1, <1>4, <1>5, <1>8, <1>9, <1>10
  DEF Accounting, PairUnderEmptyChunk, ReadyToFinalize

-----------------------------------------------------------------------------
(***************************************************************************)
(* The theorems                                                            *)
(***************************************************************************)
LEMMA StepKeeps == ASSUME Accounting, Step PROVE Accounting'
  BY FillKeeps, ResetKeeps, MergeBeforePushKeeps, PushKeeps, NextSubtreeKeeps,
     ShrinkKeeps, HashKeeps, AdvanceKeeps, TailKeeps, MergeTailKeeps,
     ReturnKeeps, StartKeeps DEF Step

LEMMA CallKeeps == ASSUME Accounting, Call PROVE Accounting'
<1>1. ASSUME \E seek \in Seeks, n \in OutLens :
               blake3_hasher_finalize_seek(seek, n)
      PROVE  Accounting'
  BY <1>1, OutputKeeps DEF blake3_hasher_finalize_seek
<1> QED
  BY <1>1, StartKeeps, DeriveKeeps, UpdateKeeps DEF Call

\* The counters hang together in every reachable state: the invariant that
\* the bounds of blake3.c's comments and assertions rest on.
THEOREM CountersHangTogether == Spec => []Accounting
<1>1. ASSUME Accounting, [Next]_vars PROVE Accounting'
  <2>1. CASE UNCHANGED vars
    BY <1>1, <2>1, OutputKeeps DEF vars
  <2>2. CASE Step
    BY <1>1, <2>2, StepKeeps
  <2>3. CASE Call
    BY <1>1, <2>3, CallKeeps
  <2> QED
    BY <1>1, <2>1, <2>2, <2>3 DEF Next
<1> QED
  BY <1>1, InitAccounting, PTL DEF Spec

\* Every variable keeps the type its declaration gives it.
THEOREM TypeCorrect == Spec => []TypeOK
<1>1. Accounting => TypeOK
  BY DEF Accounting
<1> QED
  BY <1>1, CountersHangTogether, PTL

\* No merge reads below the stack and no push writes above it, however long
\* the message: hasher_merge_cv_stack and hasher_push_cv of blake3.c.
THEOREM StackStaysInBounds == Spec => []StackInBounds
<1>1. ASSUME Accounting PROVE StackInBounds
  <2> DEFINE counter == chunk.chunk_counter
             at      == Head(pushes).at
  <2>1. cv_stack_len \in Nat /\ MAX_DEPTH \in Nat /\ counter \in Nat
    BY <1>1, Counters, Constants DEF Accounting
  <2>2. ASSUME pc = "merge"
        PROVE  /\ MergeNeeded(at) => cv_stack_len >= 2
               /\ ~ MergeNeeded(at) => cv_stack_len \in Slots
    <3>1. /\ at \in Nat /\ popcnt[at] \in Nat /\ popcnt[at] <= MAX_DEPTH
          /\ popcnt[at] <= cv_stack_len
          /\ cv_stack_len = popcnt[at] \/ EntriesFor(at)
      BY <1>1, <2>1, <2>2, PushFacts DEF EntriesFor
    <3> HIDE DEF at
    <3>2. ASSUME MergeNeeded(at) PROVE cv_stack_len >= 2
      <4>1. EntriesFor(at)
        BY <2>1, <3>1, <3>2 DEF MergeNeeded
      <4> QED
        BY <1>1, <3>1, <3>2, <4>1, MergeFacts DEF EntriesFor
    <3>3. ASSUME ~ MergeNeeded(at) PROVE cv_stack_len \in Slots
      BY <2>1, <3>1, <3>3 DEF MergeNeeded, Slots
    <3> QED
      BY <3>2, <3>3
  <2>3. ASSUME pc = "tail", MergeNeeded(counter) PROVE cv_stack_len >= 2
    <3>1. EntriesFor(counter)
      BY <1>1, <2>3 DEF Accounting, Progress
    <3> QED
      BY <1>1, <2>1, <2>3, <3>1, MergeFacts DEF EntriesFor
  <2> QED
    BY <2>2, <2>3 DEF StackInBounds
<1> QED
  BY <1>1, CountersHangTogether, PTL

\* Finalising under an empty chunk finds no stack or at least a pair: the
\* comment "always at least 2 CVs in the stack" of blake3_hasher_finalize_seek.
THEOREM PairIsThere == Spec => []PairUnderEmptyChunk
<1>1. Accounting => PairUnderEmptyChunk
  BY DEF Accounting
<1> QED
  BY <1>1, CountersHangTogether, PTL

\* Finalising over a chunk that holds bytes finds the stack fully merged and
\* the chunk's last block still in its buffer.
THEOREM FinalizeIsPrepared == Spec => []ReadyToFinalize
<1>1. Accounting => ReadyToFinalize
  BY DEF Accounting
<1> QED
  BY <1>1, CountersHangTogether, PTL

\* The subtrees that update hashes in one go are aligned and fit the input.
THEOREM SubtreesAreAligned == Spec => []SubtreeAligned
<1>1. ASSUME Accounting PROVE SubtreeAligned
  <2>1. CHUNK_LEN \in Nat /\ CHUNK_LEN > 0
    BY Constants
  <2>2. ASSUME pc = "merge", subtree_len > 0
        PROVE  /\ subtree_len % CHUNK_LEN = 0
               /\ (chunk.chunk_counter * CHUNK_LEN) % subtree_len = 0
    <3>1. AlignedSubtree /\ chunk_state_len(chunk) = 0
      BY <1>1, <2>2 DEF Accounting, Progress
    <3> QED
      BY <1>1, <3>1, SubtreeCounts DEF Accounting, AlignedSubtree
  <2>3. pc = "shrink" => IsPow2(subtree_len) /\ subtree_len \in CHUNK_LEN..input_len
    BY <1>1 DEF Accounting, Progress
  <2> QED
    BY <2>2, <2>3 DEF SubtreeAligned
<1> QED
  BY <1>1, CountersHangTogether, PTL

-----------------------------------------------------------------------------
(***************************************************************************)
(* The data behind the counters.                                           *)
(***************************************************************************)
TextOf(m) == [i \in Nat |-> <<m, i>>]

\* A chunk state holds exactly the bytes of its chunk that were consumed.
ChunkHolds(k, m, c) ==
  c = Holds(k, c.flags, c.chunk_counter,
            Part(TextOf(m), At(c.chunk_counter), chunk_state_len(c)))

\* Where the stack ends: what is being pushed starts there.
Total ==
  LET counter == chunk.chunk_counter
  IN  IF pc = "merge" THEN pushes[1].at
      ELSE IF pc = "pushed"
      THEN counter + (IF subtree_len <= CHUNK_LEN THEN 1
                      ELSE subtree_len \div CHUNK_LEN)
      ELSE counter

\* How many chunks each value that is being pushed stands for.
Width == IF subtree_len <= CHUNK_LEN THEN 1
         ELSE (subtree_len \div CHUNK_LEN) \div 2

\* The values being pushed are those of the w chunks from ps[j].at on.
PushesHold(k, f, m, ps, w) ==
  \A j \in 1..Len(ps) : ps[j].cv = CVOf(k, f, TextOf(m), ps[j].at, w)

(***************************************************************************)
(* At every step: the chunk holds its bytes, the stack covers the chunks   *)
(* before, and what is being pushed are the values that come next.         *)
(***************************************************************************)
DataHolds ==
  /\ ChunkHolds(key, msg, chunk)
  /\ StackOf(key, chunk.flags, TextOf(msg), cv_stack, cv_stack_len, Total)
  /\ PushesHold(key, chunk.flags, msg, pushes, Width)

-----------------------------------------------------------------------------
\* Bytes(lo, hi) is a part of the text of the message.
LEMMA BytesArePart ==
  ASSUME NEW from \in Nat, NEW n \in Nat
  PROVE  Bytes(from, n) = Part(TextOf(msg), from, n)
<1>1. ASSUME NEW i \in 1..n PROVE TextOf(msg)[from + i] = <<msg, from + i>>
  <2>1. from + i \in Nat
    OBVIOUS
  <2> QED
    BY <2>1 DEF TextOf
<1> QED
  BY <1>1 DEF Bytes, Part

\* What was taken and what comes next.
LEMMA PartsJoin ==
  ASSUME NEW s, NEW lo \in Nat, NEW a \in Nat, NEW b \in Nat
  PROVE  Part(s, lo, a) \o Part(s, lo + a, b) = Part(s, lo, a + b)
<1> DEFINE x == Part(s, lo, a)
           y == Part(s, lo + a, b)
           z == Part(s, lo, a + b)
           c == a + b
           m == lo + a
<1>1. c \in Nat /\ m \in Nat
  OBVIOUS
<1>2. /\ IsSeq(x) /\ Len(x) = a
      /\ \A i \in 1..a : x[i] = s[lo + i]
  BY PartIs
<1>3. /\ IsSeq(Part(s, m, b)) /\ Len(Part(s, m, b)) = b
      /\ \A i \in 1..b : Part(s, m, b)[i] = s[m + i]
  <2> HIDE DEF m
  <2> QED
    BY <1>1, PartIs
<1>4. /\ IsSeq(Part(s, lo, c)) /\ Len(Part(s, lo, c)) = c
      /\ \A i \in 1..c : Part(s, lo, c)[i] = s[lo + i]
  <2> HIDE DEF c
  <2> QED
    BY <1>1, PartIs
<1> HIDE DEF x, y, z
<1>5. /\ IsSeq(y) /\ Len(y) = b
      /\ \A i \in 1..b : y[i] = s[lo + a + i]
  BY <1>3 DEF y
<1>6. /\ IsSeq(z) /\ Len(z) = a + b
      /\ \A i \in 1..(a + b) : z[i] = s[lo + i]
  BY <1>4 DEF z
<1>7. /\ IsSeq(x \o y) /\ Len(x \o y) = a + b
      /\ \A i \in 1..(a + b) :
           (x \o y)[i] = IF i <= a THEN x[i] ELSE y[i - a]
  <2>1. /\ IsSeq(x \o y) /\ Len(x \o y) = Len(x) + Len(y)
        /\ \A i \in 1..(Len(x) + Len(y)) :
             (x \o y)[i] = IF i <= Len(x) THEN x[i] ELSE y[i - Len(x)]
    BY <1>2, <1>5, ConcatIs
  <2> QED
    BY <1>2, <1>5, <2>1
<1>8. ASSUME NEW i \in 1..(a + b) PROVE (x \o y)[i] = z[i]
  <2>1. CASE i <= a
    BY <1>2, <1>6, <1>7, <2>1
  <2>2. CASE ~ (i <= a)
    <3>1. i - a \in 1..b /\ lo + a + (i - a) = lo + i
      BY <2>2
    <3>2. y[i - a] = s[lo + i]
      BY <1>5, <3>1
    <3> QED
      BY <1>6, <1>7, <2>2, <3>2
  <2> QED
    BY <2>1, <2>2
<1>9. x \o y = z
  <2> DEFINE u == x \o y
  <2>1. /\ IsSeq(u) /\ Len(u) = a + b /\ \A i \in 1..Len(u) : u[i] = z[i]
    BY <1>7, <1>8
  <2> HIDE DEF u
  <2>2. u = z
    BY <1>6, <2>1, SameSeq
  <2> QED
    BY <2>2 DEF u
<1> QED
  BY <1>9 DEF x, y, z

\* A chunk that starts afresh holds nothing.
LEMMA FreshChunkHolds ==
  ASSUME NEW k, NEW f, NEW m, NEW ctr \in Nat, NEW c,
         c = chunk_state(k, ctr, ZeroBuf, 0, 0, f)
  PROVE  /\ ChunkHolds(k, m, c) /\ c.flags = f /\ c.chunk_counter = ctr
         /\ chunk_state_len(c) = 0
<1>1. /\ IsChunkState(c) /\ chunk_state_len(c) = 0
      /\ c.chunk_counter = ctr /\ c.flags = f
  BY ChunkInit
<1>2. c = Holds(k, f, ctr, <<>>)
  BY FreshHolds
<1>3. At(ctr) \in Nat
  BY AtFacts
<1>4. Part(TextOf(m), At(ctr), 0) = <<>>
  BY DEF Part
<1> QED
  BY <1>1, <1>2, <1>4 DEF ChunkHolds

\* An empty one is a fresh one.
LEMMA EmptyChunkIs ==
  ASSUME NEW k, NEW m, NEW c, ChunkHolds(k, m, c), chunk_state_len(c) = 0
  PROVE  c = chunk_state(k, c.chunk_counter, ZeroBuf, 0, 0, c.flags)
<1>1. Part(TextOf(m), At(c.chunk_counter), 0) = <<>>
  BY DEF Part
<1> DEFINE ctr == c.chunk_counter
           f   == c.flags
<1>2. c = Holds(k, f, ctr, <<>>)
  BY <1>1 DEF ChunkHolds
<1> HIDE DEF ctr, f
<1>3. chunk_state(k, ctr, ZeroBuf, 0, 0, f) = Holds(k, f, ctr, <<>>)
  BY FreshHolds
<1> QED
  BY <1>2, <1>3 DEF ctr, f

\* A chunk that takes in what follows in the text holds that as well.
LEMMA ChunkTakes ==
  ASSUME NEW k, NEW m, NEW c, ChunkHolds(k, m, c), IsChunkState(c),
         NEW n \in Nat, NEW in,
         in = Part(TextOf(m), At(c.chunk_counter) + chunk_state_len(c), n)
  PROVE  LET d == chunk_state_update(c, in)
         IN  /\ d = Holds(k, c.flags, c.chunk_counter,
                          Part(TextOf(m), At(c.chunk_counter),
                               chunk_state_len(c) + n))
             /\ chunk_state_len(d) = chunk_state_len(c) + n
             /\ d.chunk_counter = c.chunk_counter /\ d.flags = c.flags
             /\ ChunkHolds(k, m, d)
<1> DEFINE d   == chunk_state_update(c, in)
           f   == c.flags
           ctr == c.chunk_counter
           len == chunk_state_len(c)
           lo  == At(ctr)
           T   == TextOf(m)
           sum == len + n
<1>1. ctr \in Nat /\ len \in Nat /\ lo \in Nat /\ lo + len \in Nat
  <2>1. ctr \in Nat /\ c.blocks_compressed \in Nat /\ c.buf_len \in Nat
    BY Lengths DEF IsChunkState
  <2>2. BLOCK_LEN * c.blocks_compressed \in Nat
    BY <2>1, Lengths
  <2>3. len \in Nat
    BY <2>1, <2>2 DEF chunk_state_len
  <2>4. lo \in Nat
    BY <2>1, AtFacts
  <2> HIDE DEF lo, len
  <2> QED
    BY <2>1, <2>3, <2>4
<1>2. c = Holds(k, f, ctr, Part(T, lo, len)) /\ in = Part(T, lo + len, n)
  BY DEF ChunkHolds
<1> HIDE DEF f, ctr, len, lo, T
<1> DEFINE at == lo + len
<1>3. /\ IsSeq(Part(T, lo, len)) /\ IsSeq(in)
      /\ sum \in Nat
  <2>1. at \in Nat
    BY <1>1
  <2> HIDE DEF at
  <2>2. IsSeq(Part(T, at, n)) /\ IsSeq(Part(T, lo, len))
    BY <1>1, <2>1, PartIs
  <2> QED
    BY <1>1, <1>2, <2>2 DEF at
<1>4. d = Holds(k, f, ctr, Part(T, lo, sum))
  <2>1. d = Holds(k, f, ctr, Part(T, lo, len) \o in)
    BY <1>2, <1>3, UpdateHolds
  <2> QED
    <3>1. Part(T, lo, len) \o Part(T, lo + len, n) = Part(T, lo, len + n)
      BY <1>1, PartsJoin
    <3> HIDE DEF d
    <3> QED
      BY <1>2, <2>1, <3>1
<1> HIDE DEF d, sum
<1>5. IsSeq(Part(T, lo, sum)) /\ Len(Part(T, lo, sum)) = sum
  BY <1>1, <1>3, PartIs
<1>6. /\ chunk_state_len(d) = sum /\ d.chunk_counter = ctr /\ d.flags = f
  BY <1>4, <1>5, HoldsLength, HoldsFields
<1>7. ChunkHolds(k, m, d)
  BY <1>4, <1>6 DEF ChunkHolds, lo, T
<1> QED
  BY <1>4, <1>6, <1>7 DEF d, sum, f, ctr, len, lo, T

\* The output of a chunk state is that of the chunk it holds.
LEMMA ChunkGives ==
  ASSUME NEW k, NEW f, NEW ctr \in Nat, NEW m, NEW n \in Nat
  PROVE  chunk_state_output(Holds(k, f, ctr, Part(TextOf(m), At(ctr), n))) =
           ChunkOutput(k, f, ctr, Part(TextOf(m), At(ctr), n))
<1>1. At(ctr) \in Nat
  BY AtFacts
<1> DEFINE T  == TextOf(m)
           lo == At(ctr)
<1>2. lo \in Nat
  BY <1>1
<1> HIDE DEF T, lo
<1>3. IsSeq(Part(T, lo, n))
  BY <1>2, PartIs
<1>4. chunk_state_output(Holds(k, f, ctr, Part(T, lo, n))) =
        ChunkOutput(k, f, ctr, Part(T, lo, n))
  BY <1>3, OutputHolds
<1> QED
  BY <1>4 DEF T, lo

\* A full chunk is a subtree of width 1.
LEMMA FullChunkCV ==
  ASSUME NEW k, NEW f, NEW ctr \in Nat, NEW m
  PROVE  output_chaining_value(chunk_state_output(
           Holds(k, f, ctr, Part(TextOf(m), At(ctr), CHUNK_LEN)))) =
             CVOf(k, f, TextOf(m), ctr, 1)
<1> DEFINE T  == TextOf(m)
           lo == At(ctr)
           n  == CHUNK_LEN
<1>1. lo \in Nat /\ n \in Nat /\ n <= CHUNK_LEN /\ At(1) = n
  <2>1. At(1) = CHUNK_LEN /\ At(ctr) \in Nat
    BY AtFacts
  <2> QED
    BY <2>1, Lengths
<1>2. chunk_state_output(Holds(k, f, ctr, Part(T, lo, n))) =
        ChunkOutput(k, f, ctr, Part(T, lo, n))
  BY <1>1, ChunkGives
<1> HIDE DEF T, lo, n
<1>3. NodeOutput(k, f, ctr, Part(T, lo, n)) = ChunkOutput(k, f, ctr, Part(T, lo, n))
  BY <1>1, PartLeaf
<1> QED
  BY <1>1, <1>2, <1>3 DEF CVOf, NodeCV, T, lo, n

-----------------------------------------------------------------------------
\* An empty list of pushes holds nothing.
LEMMA NoPushes ==
  ASSUME NEW k, NEW f, NEW m, NEW w
  PROVE  PushesHold(k, f, m, <<>>, w)
<1>1. Len(<<>>) = 0
  BY EmptyIs
<1>2. ~ \E j \in 1..0 : TRUE
  OBVIOUS
<1> QED
  BY <1>1, <1>2 DEF PushesHold

\* A message that begins: an empty chunk over an empty stack.
LEMMA FreshData ==
  ASSUME NEW f, chunk' = chunk_state(key', 0, ZeroBuf, 0, 0, f),
         cv_stack_len' = 0, pushes' = <<>>, pc' # "merge", pc' # "pushed"
  PROVE  DataHolds'
<1>1. /\ ChunkHolds(key', msg', chunk')
      /\ chunk'.chunk_counter = 0
  <2> DEFINE z == 0
  <2>1. z \in Nat /\ chunk' = chunk_state(key', z, ZeroBuf, 0, 0, f)
    OBVIOUS
  <2> HIDE DEF z
  <2>2. ChunkHolds(key', msg', chunk') /\ chunk'.chunk_counter = z
    BY <2>1, FreshChunkHolds
  <2> QED
    BY <2>2 DEF z
<1>2. Total' = 0
  BY <1>1 DEF Total
<1>3. StackOf(key', chunk'.flags, TextOf(msg'), cv_stack', 0, 0)
  BY EmptyLayout
<1> QED
  BY <1>1, <1>2, <1>3, NoPushes DEF DataHolds

\* Nothing of the data changes.
LEMMA SameData ==
  ASSUME DataHolds, UNCHANGED <<struct, msg>>, pushes = <<>>, pushes' = <<>>,
         pc \notin {"merge", "pushed"}, pc' \notin {"merge", "pushed"}
  PROVE  DataHolds'
<1>1. Total' = Total
  BY DEF Total, struct
<1> QED
  BY <1>1, NoPushes DEF DataHolds, struct

\* Only the chunk changes, and keeps its number and flags.
LEMMA ChunkData ==
  ASSUME DataHolds, UNCHANGED <<key, cv_stack_len, cv_stack, msg>>,
         ChunkHolds(key, msg, chunk'), chunk'.flags = chunk.flags,
         chunk'.chunk_counter = chunk.chunk_counter,
         pushes = <<>>, pushes' = <<>>,
         pc \notin {"merge", "pushed"}, pc' \notin {"merge", "pushed"}
  PROVE  DataHolds'
<1>1. Total' = Total
  BY DEF Total
<1> QED
  BY <1>1, NoPushes DEF DataHolds

\* A new hasher holds nothing.
LEMMA InitData == Init => DataHolds
<1> SUFFICES ASSUME Init PROVE DataHolds
  OBVIOUS
<1>1. /\ \E f : chunk = chunk_state(key, 0, ZeroBuf, 0, 0, f)
      /\ cv_stack_len = 0 /\ pushes = <<>> /\ pc = "idle"
  BY DEF Init, chunk_state_init
<1>2. /\ ChunkHolds(key, msg, chunk) /\ chunk.chunk_counter = 0
  <2> DEFINE z == 0
  <2>1. PICK f : chunk = chunk_state(key, z, ZeroBuf, 0, 0, f)
    BY <1>1
  <2>2. z \in Nat
    OBVIOUS
  <2> HIDE DEF z
  <2>3. ChunkHolds(key, msg, chunk) /\ chunk.chunk_counter = z
    BY <2>1, <2>2, FreshChunkHolds
  <2> QED
    BY <2>3 DEF z
<1>3. Total = 0
  BY <1>1, <1>2 DEF Total
<1>4. StackOf(key, chunk.flags, TextOf(msg), cv_stack, 0, 0)
  BY EmptyLayout
<1> QED
  BY <1>1, <1>2, <1>3, <1>4, NoPushes DEF DataHolds

\* Every call that starts over holds nothing; the context is one input.
LEMMA StartData ==
  ASSUME Accounting, DataHolds,
         \/ blake3_hasher_init
         \/ \E k \in Keys : blake3_hasher_init_keyed(k)
         \/ blake3_hasher_reset
         \/ derive_key_material
         \/ \E n \in 0..MaxLen : init_derive_key_raw(n)
  PROVE  DataHolds'
<1>1. /\ pc = "idle" /\ pc' \in {"idle", "loop"} /\ cv_stack_len' = 0
      /\ pushes' = pushes
      /\ \E f : chunk' = chunk_state(key', 0, ZeroBuf, 0, 0, f)
  BY DEF blake3_hasher_init, blake3_hasher_init_keyed, blake3_hasher_reset,
         derive_key_material, init_derive_key_raw, Callable, hasher_init_base,
         chunk_state_init, chunk_state_reset, locals
<1>2. pushes = <<>>
  BY <1>1 DEF Accounting, Progress
<1> QED
  BY <1>1, <1>2, FreshData

\* Where the input that is left begins.
LEMMA InputIs ==
  ASSUME Accounting, NEW n \in Nat
  PROVE  /\ input(n) = Part(TextOf(msg),
                            At(chunk.chunk_counter) + chunk_state_len(chunk), n)
         /\ chunk.chunk_counter \in Nat /\ chunk_state_len(chunk) \in Nat
         /\ At(chunk.chunk_counter) \in Nat
         /\ chunk_state_len(chunk) = 0 =>
              input(n) = Part(TextOf(msg), At(chunk.chunk_counter), n)
<1> DEFINE counter == chunk.chunk_counter
           len     == chunk_state_len(chunk)
           lo      == At(counter)
<1>1. /\ counter \in Nat /\ len \in Nat
      /\ counter * CHUNK_LEN + len = fed - input_len
  BY Counters DEF Accounting, Position
<1>2. lo \in Nat /\ lo = counter * CHUNK_LEN
  BY <1>1, AtFacts DEF At
<1> HIDE DEF counter, len, lo
<1>3. lo + len = fed - input_len /\ lo + len \in Nat /\ lo + 0 = lo
  BY <1>1, <1>2
<1>4. Bytes(fed - input_len, n) = Part(TextOf(msg), fed - input_len, n)
  BY <1>3, BytesArePart
<1> QED
  BY <1>1, <1>2, <1>3, <1>4 DEF input, counter, len, lo

\* The partial chunk takes its share of the input.
LEMMA FillData == ASSUME Accounting, DataHolds, FillChunk PROVE DataHolds'
<1> DEFINE counter == chunk.chunk_counter
           len     == chunk_state_len(chunk)
           room    == CHUNK_LEN - len
           take    == IF room > input_len THEN input_len ELSE room
           full    == chunk_state_update(chunk, input(take))
           cv      == output_chaining_value(chunk_state_output(full))
<1>1. /\ pc = "fill" /\ chunk' = full
      /\ IF input_len > take
         THEN pushes' = <<[cv |-> cv, at |-> counter]>> /\ pc' = "merge"
         ELSE pc' = "idle" /\ pushes' = pushes
      /\ UNCHANGED <<key, cv_stack_len, cv_stack, subtree_len, msg>>
  BY DEF FillChunk
<1>2. /\ input_len \in Nat /\ len \in Nat /\ len <= CHUNK_LEN
      /\ counter \in Nat /\ CHUNK_LEN \in Nat
      /\ subtree_len = 0 /\ pushes = <<>> /\ IsChunkState(chunk)
  BY <1>1, Counters, Constants DEF Accounting, Progress, Position, TypeOK
<1> HIDE DEF len
<1>3. take \in Nat /\ (input_len > take => len + take = CHUNK_LEN)
  BY <1>2
<1> HIDE DEF take, room
<1>4. input(take) = Part(TextOf(msg), At(counter) + len, take)
  BY <1>3, InputIs DEF len
<1> DEFINE in == input(take)
<1>5. in = Part(TextOf(msg), At(counter) + len, take)
  BY <1>4
<1> HIDE DEF in
<1>6. /\ full = Holds(key, chunk.flags, counter,
                      Part(TextOf(msg), At(counter), len + take))
      /\ full.chunk_counter = counter /\ full.flags = chunk.flags
      /\ ChunkHolds(key, msg, full)
  <2>1. full = chunk_state_update(chunk, in)
    BY DEF in
  <2> HIDE DEF full
  <2>2. ChunkHolds(key, msg, chunk)
    BY DEF DataHolds
  <2> QED
    BY <1>2, <1>3, <1>5, <2>1, <2>2, ChunkTakes DEF len
<1> HIDE DEF full
<1>7. CASE input_len > take
  <2>1. cv = CVOf(key, chunk.flags, TextOf(msg), counter, 1)
    BY <1>2, <1>3, <1>6, <1>7, FullChunkCV
  <2> HIDE DEF cv
  <2>2. pushes' = <<[cv |-> cv, at |-> counter]>> /\ pc' = "merge"
    BY <1>1, <1>7
  <2>3. Total' = counter /\ Total = counter /\ Width' = 1
    BY <1>1, <1>2, <2>2 DEF Total, Width
  <2>4. PushesHold(key, chunk.flags, msg, pushes', 1)
    BY <2>1, <2>2 DEF PushesHold
  <2> HIDE DEF counter
  <2> QED
    BY <1>1, <1>6, <2>3, <2>4 DEF DataHolds
<1>8. CASE ~ (input_len > take)
  <2>1. pc' = "idle" /\ pushes' = <<>>
    BY <1>1, <1>2, <1>8
  <2> QED
    BY <1>1, <1>2, <1>6, <2>1, ChunkData
<1> QED
  BY <1>7, <1>8

\* The end of the input goes into the chunk.
LEMMA BufferData == ASSUME Accounting, DataHolds, BufferTail PROVE DataHolds'
<1>1. /\ pc = "loop" /\ pc' \in {"tail", "idle"}
      /\ chunk' = chunk \/ chunk' = chunk_state_update(chunk, input(input_len))
      /\ UNCHANGED <<key, cv_stack_len, cv_stack, pushes, msg>>
  BY DEF BufferTail
<1>2. input_len \in Nat /\ pushes = <<>> /\ IsChunkState(chunk)
  BY <1>1, Counters DEF Accounting, Progress, TypeOK
<1>3. input(input_len) = Part(TextOf(msg),
                              At(chunk.chunk_counter) + chunk_state_len(chunk),
                              input_len)
  BY <1>2, InputIs
<1> DEFINE in == input(input_len)
           d  == chunk_state_update(chunk, in)
<1>4. in = Part(TextOf(msg),
                At(chunk.chunk_counter) + chunk_state_len(chunk), input_len)
  BY <1>3
<1> HIDE DEF in
<1>5. /\ d.chunk_counter = chunk.chunk_counter /\ d.flags = chunk.flags
      /\ ChunkHolds(key, msg, d)
  <2>1. ChunkHolds(key, msg, chunk)
    BY DEF DataHolds
  <2> QED
    BY <1>2, <1>4, <2>1, ChunkTakes
<1>6. chunk' = chunk \/ chunk' = d
  BY <1>1 DEF in
<1> HIDE DEF d
<1>7. /\ ChunkHolds(key, msg, chunk') /\ chunk'.flags = chunk.flags
      /\ chunk'.chunk_counter = chunk.chunk_counter
  BY <1>5, <1>6 DEF DataHolds
<1> QED
  BY <1>1, <1>2, <1>7, ChunkData

-----------------------------------------------------------------------------
(***************************************************************************)
(* The chunk gives way to the next one.                                    *)
(***************************************************************************)
LEMMA NextChunkData ==
  ASSUME DataHolds, NEW n \in Nat,
         chunk' = chunk_state(key, n, ZeroBuf, 0, 0, chunk.flags),
         Total = n, UNCHANGED <<key, cv_stack_len, cv_stack, msg>>,
         pushes' = <<>>, pc' = "loop"
  PROVE  DataHolds'
<1>1. /\ ChunkHolds(key, msg, chunk') /\ chunk'.flags = chunk.flags
      /\ chunk'.chunk_counter = n
  BY FreshChunkHolds
<1>2. Total' = n
  BY <1>1 DEF Total
<1> QED
  BY <1>1, <1>2, NoPushes DEF DataHolds

\* The chunk that is complete gives its value to be pushed and starts anew.
LEMMA ResetData == ASSUME Accounting, DataHolds, ResetChunk PROVE DataHolds'
<1> DEFINE n == chunk.chunk_counter + 1
<1>1. /\ pc = "pushed" /\ pc' = "loop" /\ chunk_state_len(chunk) > 0
      /\ chunk' = chunk_state(key, n, ZeroBuf, 0, 0, chunk.flags)
      /\ UNCHANGED <<key, cv_stack_len, cv_stack, pushes, msg>>
  BY DEF ResetChunk, chunk_state_reset, locals
<1>2. /\ pushes = <<>> /\ subtree_len = 0
      /\ chunk.chunk_counter \in Nat /\ CHUNK_LEN \in Nat
  BY <1>1, Counters, Constants DEF Accounting, Progress
<1>3. n \in Nat /\ Total = n
  BY <1>1, <1>2 DEF Total
<1> HIDE DEF n
<1> QED
  BY <1>1, <1>2, <1>3, NextChunkData

\* Chunks that were hashed in a subtree are skipped by the chunk counter.
LEMMA AdvanceData == ASSUME Accounting, DataHolds, AdvanceInput PROVE DataHolds'
<1> DEFINE m == subtree_len \div CHUNK_LEN
           n == chunk.chunk_counter + m
<1>1. /\ pc = "pushed" /\ pc' = "loop" /\ chunk_state_len(chunk) = 0
      /\ chunk' = [chunk EXCEPT !.chunk_counter = @ + m]
      /\ UNCHANGED <<key, cv_stack_len, cv_stack, pushes, msg>>
  BY DEF AdvanceInput
<1>2. /\ pushes = <<>> /\ AlignedSubtree
      /\ subtree_len = CHUNK_LEN \/ subtree_len > CHUNK_LEN
      /\ chunk.chunk_counter \in Nat /\ CHUNK_LEN \in Nat /\ CHUNK_LEN > 0
      /\ subtree_len \in Nat
  <2>1. CHUNK_LEN # 0
    BY Constants
  <2> QED
    BY <1>1, <2>1, Counters, Constants DEF Accounting, Progress
<1>3. m \in Nat /\ (subtree_len = CHUNK_LEN => m = 1)
  <2>1. m \in Nat /\ subtree_len = m * CHUNK_LEN
    BY <1>1, <1>2, SubtreeCounts DEF Accounting, AlignedSubtree
  <2> HIDE DEF m
  <2>2. ASSUME subtree_len = CHUNK_LEN, m # 1 PROVE FALSE
    <3>1. CASE m = 0
      BY <1>2, <2>1, <2>2, <3>1
    <3>2. CASE m > 1
      <4>1. m * CHUNK_LEN = CHUNK_LEN + (m - 1) * CHUNK_LEN /\ m - 1 > 0
            /\ m - 1 \in Nat
        BY <1>2, <2>1, <3>2
      <4>2. (m - 1) * CHUNK_LEN > 0
        BY <1>2, <4>1
      <4> QED
        BY <1>2, <2>1, <2>2, <4>1, <4>2
    <3> QED
      BY <2>1, <2>2, <3>1, <3>2
  <2> QED
    BY <2>1, <2>2
<1> HIDE DEF m
<1>4. n \in Nat /\ Total = n
  BY <1>1, <1>2, <1>3 DEF Total, m
<1>5. chunk' = chunk_state(key, n, ZeroBuf, 0, 0, chunk.flags)
  <2>1. ChunkHolds(key, msg, chunk)
    BY DEF DataHolds
  <2>2. chunk = chunk_state(key, chunk.chunk_counter, ZeroBuf, 0, 0, chunk.flags)
    BY <1>1, <2>1, EmptyChunkIs
  <2> QED
    BY <1>1, <2>2 DEF chunk_state
<1> HIDE DEF n
<1> QED
  BY <1>1, <1>2, <1>4, <1>5, NextChunkData

-----------------------------------------------------------------------------
(***************************************************************************)
(* Merges and pushes.                                                      *)
(***************************************************************************)
LEMMA MergeTopData ==
  ASSUME Accounting, DataHolds, MergeTop, NEW total \in Nat, Total = total,
         cv_stack_len >= 2, cv_stack_len > popcnt[total]
  PROVE  StackOf(key, chunk.flags, TextOf(msg), cv_stack', cv_stack_len',
                 total)
<1> DEFINE n == cv_stack_len
<1>1. n \in Nat /\ n <= MAX_DEPTH + 1 /\ MAX_DEPTH \in Nat /\ IsStack(cv_stack)
  BY Counters, Constants DEF Accounting, TypeOK
<1>2. /\ n - 2 \in Slots
      /\ \A i \in 0..(n - 3) : i \in Slots /\ i # n - 2
  BY <1>1 DEF Slots
<1>3. /\ cv_stack' = [cv_stack EXCEPT ![n - 2] =
                        parent_cv(cv_stack[n - 2], cv_stack[n - 1], key, flags)]
      /\ cv_stack_len' = n - 1
  BY DEF MergeTop
<1>4. /\ cv_stack'[n - 2] =
           parent_cv(cv_stack[n - 2], cv_stack[n - 1], key, chunk.flags)
      /\ \A i \in 0..(n - 3) : cv_stack'[i] = cv_stack[i]
  BY <1>1, <1>2, <1>3 DEF IsStack, flags
<1>5. StackOf(key, chunk.flags, TextOf(msg), cv_stack, n, total)
  BY DEF DataHolds
<1> HIDE DEF n
<1>6. n >= 2 /\ n > popcnt[total]
  BY DEF n
<1>7. StackOf(key, chunk.flags, TextOf(msg), cv_stack', n - 1, total)
  BY <1>1, <1>4, <1>5, <1>6, LayoutMerge
<1> QED
  BY <1>3, <1>7

\* Merging two entries before a push.
LEMMA MergeBeforePushData ==
  ASSUME Accounting, DataHolds, MergeBeforePush PROVE DataHolds'
<1> DEFINE at == Head(pushes).at
<1>1. /\ pc = "merge" /\ pc' = "merge" /\ MergeNeeded(at)
      /\ MergeTop
      /\ UNCHANGED <<key, chunk, subtree_len, pushes, msg>>
  BY DEF MergeBeforePush, locals
<1>2. /\ at = pushes[1].at /\ at \in Nat /\ popcnt[at] \in Nat
      /\ \/ at = chunk.chunk_counter /\ EntriesFor(chunk.chunk_counter)
         \/ cv_stack_len = popcnt[at]
  BY <1>1, PushFacts
<1> HIDE DEF at
<1>3. cv_stack_len > popcnt[at] /\ cv_stack_len \in Nat
  BY <1>1, Counters DEF MergeNeeded, Accounting
<1>4. popcnt[at] <= cv_stack_len /\ (at = 0 => cv_stack_len = 0)
  <2>1. cv_stack_len # popcnt[at]
    BY <1>2, <1>3
  <2> QED
    BY <1>2, <2>1 DEF EntriesFor
<1>5. cv_stack_len >= 2
  BY <1>1, <1>2, <1>4, MergeFacts
<1>6. Total = at /\ Total' = at /\ Width' = Width
  BY <1>1, <1>2 DEF Total, Width
<1>7. StackOf(key, chunk.flags, TextOf(msg), cv_stack', cv_stack_len', at)
  BY <1>1, <1>2, <1>3, <1>5, <1>6, MergeTopData
<1> QED
  BY <1>1, <1>6, <1>7 DEF DataHolds

\* Merging two entries at the end of an update.
LEMMA MergeTailData == ASSUME Accounting, DataHolds, MergeTail PROVE DataHolds'
<1> DEFINE counter == chunk.chunk_counter
<1>1. /\ pc = "tail" /\ pc' = "tail" /\ MergeNeeded(counter)
      /\ MergeTop
      /\ UNCHANGED <<key, chunk, subtree_len, pushes, msg>>
  BY DEF MergeTail, locals
<1>2. /\ EntriesFor(counter) /\ counter \in Nat
  BY <1>1, Counters DEF Accounting, Progress
<1>3. cv_stack_len >= 2 /\ cv_stack_len > popcnt[counter]
  BY <1>1, <1>2, MergeFacts DEF EntriesFor, MergeNeeded
<1>4. Total = counter /\ Total' = counter /\ Width' = Width
  BY <1>1 DEF Total, Width
<1> HIDE DEF counter
<1>5. StackOf(key, chunk.flags, TextOf(msg), cv_stack', cv_stack_len', counter)
  BY <1>1, <1>2, <1>3, <1>4, MergeTopData
<1> QED
  BY <1>1, <1>4, <1>5 DEF DataHolds

\* The values being pushed stand for a power of two of chunks, at a multiple
\* of that number; two of them make up the subtree.
LEMMA WidthFacts ==
  ASSUME Accounting, pc = "merge"
  PROVE  LET counter == chunk.chunk_counter
         IN  /\ IsPow2(Width) /\ Width \in Nat
             /\ Multiple(counter, Width) /\ Multiple(counter + Width, Width)
             /\ subtree_len <= CHUNK_LEN =>
                  Width = 1 /\ OnePush /\ pushes[1].at = counter
             /\ ~ (subtree_len <= CHUNK_LEN) =>
                  /\ subtree_len \div CHUNK_LEN = Width + Width
                  /\ \/ /\ TwoPushes /\ pushes[1].at = counter
                        /\ pushes[2].at = counter + Width
                     \/ OnePush /\ pushes[1].at = counter + Width
<1> DEFINE counter == chunk.chunk_counter
           m       == subtree_len \div CHUNK_LEN
<1>1. counter \in Nat /\ CHUNK_LEN \in Nat /\ subtree_len \in Nat
  BY Counters, Constants DEF Accounting
<1>2. CASE subtree_len <= CHUNK_LEN
  <2>1. Width = 1
    BY <1>2 DEF Width
  <2>2. OnePush /\ pushes[1].at = counter
    <3>1. ~ (subtree_len > CHUNK_LEN)
      BY <1>1, <1>2
    <3> QED
      BY <3>1 DEF Accounting, Progress
  <2>3. counter = 1 * counter /\ counter + 1 = 1 * (counter + 1)
        /\ counter + 1 \in Nat
    BY <1>1
  <2>4. Multiple(counter, 1) /\ Multiple(counter + 1, 1)
    BY <1>1, <2>3 DEF Multiple
  <2> QED
    BY <1>2, <2>1, <2>2, <2>4, Pow2One
<1>3. CASE ~ (subtree_len <= CHUNK_LEN)
  <2>1. Width = m \div 2
    BY <1>3 DEF Width
  <2>2. subtree_len > CHUNK_LEN /\ subtree_len # 0 /\ subtree_len # CHUNK_LEN
    BY <1>1, <1>3
  <2>3. /\ AlignedSubtree
        /\ \/ /\ TwoPushes /\ pushes[1].at = counter
              /\ pushes[2].at = counter + m \div 2
           \/ OnePush /\ pushes[1].at = counter + m \div 2
    BY <2>2 DEF Accounting, Progress
  <2>4. subtree_len >= CHUNK_LEN
    BY <1>1, <2>2
  <2>5. PICK k \in Nat, q \in Nat :
          /\ IsPow2(k) /\ k > 0 /\ subtree_len = k * CHUNK_LEN
          /\ counter = k * q /\ m = k
    BY <1>1, <2>3, <2>4, SubtreeChunks DEF AlignedSubtree
  <2> HIDE DEF m
  <2>6. k # 1
    BY <1>1, <2>2, <2>5
  <2>7. PICK h \in Nat : IsPow2(h) /\ k = 2 * h
    BY <2>5, <2>6, Pow2Cases
  <2>8. m \div 2 = h /\ m = h + h
    BY <2>5, <2>7
  <2>9. Multiple(counter, h) /\ Multiple(counter + h, h)
    <3>1. counter = h * (2 * q) /\ counter + h = h * (2 * q + 1)
          /\ 2 * q \in Nat /\ 2 * q + 1 \in Nat
      BY <2>5, <2>7
    <3> QED
      BY <3>1 DEF Multiple
  <2> QED
    BY <1>3, <2>1, <2>3, <2>7, <2>8, <2>9 DEF m
<1> QED
  BY <1>2, <1>3

\* A value goes on the stack where the stack ends.
LEMMA PushData == ASSUME Accounting, DataHolds, PushCV PROVE DataHolds'
<1> DEFINE counter == chunk.chunk_counter
           at      == pushes[1].at
           n       == cv_stack_len
           w       == Width
<1>1. /\ pc = "merge" /\ ~ MergeNeeded(Head(pushes).at)
      /\ cv_stack' = [cv_stack EXCEPT ![n] = Head(pushes).cv]
      /\ cv_stack_len' = n + 1
      /\ pushes' = Tail(pushes)
      /\ pc' = IF Len(pushes) = 1 THEN "pushed" ELSE "merge"
      /\ UNCHANGED <<key, chunk, subtree_len, msg>>
  BY DEF PushCV
<1>2. /\ IsPow2(w) /\ w \in Nat
      /\ Multiple(counter, w) /\ Multiple(counter + w, w)
      /\ subtree_len <= CHUNK_LEN => w = 1 /\ OnePush /\ at = counter
      /\ ~ (subtree_len <= CHUNK_LEN) =>
           /\ subtree_len \div CHUNK_LEN = w + w
           /\ \/ /\ TwoPushes /\ at = counter
                 /\ pushes[2].at = counter + w
              \/ OnePush /\ at = counter + w
  BY <1>1, WidthFacts
<1>3. /\ n \in Nat /\ counter \in Nat /\ MAX_DEPTH \in Nat
      /\ IsStack(cv_stack)
  BY Counters, Constants DEF Accounting, TypeOK
<1>4. /\ Head(pushes) = pushes[1]
      /\ OnePush => /\ pushes' = <<>> /\ pc' = "pushed"
                    /\ Len(pushes) = 1
      /\ TwoPushes => /\ pushes' = <<pushes[2]>> /\ pc' = "merge"
                      /\ Len(pushes) = 2
  <2>1. ASSUME OnePush
        PROVE  /\ pushes' = <<>> /\ pc' = "pushed" /\ Head(pushes) = pushes[1]
               /\ Len(pushes) = 1
    <3>1. Len(pushes) = 1 /\ Tail(pushes) = <<>>
      BY <2>1, Tails DEF OnePush
    <3> QED
      BY <1>1, <2>1, <3>1 DEF OnePush
  <2>2. ASSUME TwoPushes
        PROVE  /\ pushes' = <<pushes[2]>> /\ pc' = "merge"
               /\ Head(pushes) = pushes[1] /\ Len(pushes) = 2
    <3>1. Len(pushes) = 2 /\ Tail(pushes) = <<pushes[2]>>
      BY <2>2, Tails DEF TwoPushes
    <3> QED
      BY <1>1, <2>2, <3>1 DEF TwoPushes
  <2> QED
    BY <1>2, <2>1, <2>2
<1>5. at \in Nat /\ n = popcnt[at] /\ n \in Slots
  <2>1. /\ at \in Nat /\ popcnt[at] \in Nat /\ popcnt[at] <= MAX_DEPTH
        /\ popcnt[at] <= n
    BY <1>1, <1>3, PushFacts DEF EntriesFor
  <2>2. ~ (n > popcnt[at])
    BY <1>1, <1>4 DEF MergeNeeded
  <2> HIDE DEF at
  <2> QED
    BY <1>3, <2>1, <2>2 DEF Slots
<1>6. Multiple(at, w)
  BY <1>2
<1>7. pushes[1].cv = CVOf(key, chunk.flags, TextOf(msg), at, w)
  BY <1>2, <1>4 DEF DataHolds, PushesHold
<1>8. /\ cv_stack'[n] = CVOf(key, chunk.flags, TextOf(msg), at, w)
      /\ \A i \in 0..(n - 1) : cv_stack'[i] = cv_stack[i]
  <2>1. \A i \in 0..(n - 1) : i \in Slots /\ i # n
    BY <1>3, <1>5 DEF Slots
  <2> HIDE DEF w, at, n
  <2> QED
    BY <1>1, <1>3, <1>4, <1>5, <1>7, <2>1 DEF IsStack
<1>9. StackOf(key, chunk.flags, TextOf(msg), cv_stack, n, at)
  BY <1>1 DEF DataHolds, Total
<1> HIDE DEF w, at, n
<1>10. StackOf(key, chunk.flags, TextOf(msg), cv_stack', n + 1, at + w)
  BY <1>2, <1>3, <1>5, <1>6, <1>8, <1>9, LayoutPush
<1>11. Width' = w
  BY <1>1 DEF Width, w
<1>12. CASE OnePush
  <2>1. pushes' = <<>> /\ pc' = "pushed"
    BY <1>4, <1>12
  <2>2. Total' = counter + (IF subtree_len <= CHUNK_LEN THEN 1
                            ELSE subtree_len \div CHUNK_LEN)
    BY <1>1, <2>1 DEF Total
  <2>3. Total' = at + w
    <3>1. CASE subtree_len <= CHUNK_LEN
      BY <1>2, <2>2, <3>1
    <3>2. CASE ~ (subtree_len <= CHUNK_LEN)
      <4>1. ~ TwoPushes
        BY <1>4, <1>12
      <4>2. at = counter + w /\ subtree_len \div CHUNK_LEN = w + w
        BY <1>2, <3>2, <4>1
      <4>3. Total' = counter + (w + w)
        BY <2>2, <3>2, <4>2
      <4> HIDE DEF counter
      <4> QED
        BY <1>2, <1>3, <4>2, <4>3
    <3> QED
      BY <3>1, <3>2
  <2> QED
    BY <1>1, <1>10, <2>1, <2>3, NoPushes DEF DataHolds, n
<1>13. CASE TwoPushes
  <2>1. pushes' = <<pushes[2]>> /\ pc' = "merge" /\ Len(pushes) = 2
    BY <1>4, <1>13
  <2>2. ~ OnePush
    BY <2>1 DEF OnePush
  <2>3. at = counter /\ pushes[2].at = counter + w
    BY <1>2, <2>2
  <2>4. Total' = at + w
    BY <2>1, <2>3 DEF Total
  <2>5. pushes[2].cv = CVOf(key, chunk.flags, TextOf(msg), pushes[2].at, w)
    BY <2>1 DEF DataHolds, PushesHold, w
  <2>6. PushesHold(key, chunk.flags, msg, pushes', w)
    BY <2>1, <2>5 DEF PushesHold
  <2> QED
    BY <1>1, <1>10, <1>11, <2>4, <2>6 DEF DataHolds, n
<1> QED
  BY <1>2, <1>12, <1>13

-----------------------------------------------------------------------------
(***************************************************************************)
(* A subtree is hashed: one chunk on its own, or the two halves of more.   *)
(***************************************************************************)
LEMMA OneChunkCV ==
  ASSUME NEW ctr \in Nat, ctr = chunk.chunk_counter, NEW bytes,
         bytes = Part(TextOf(msg), At(ctr), CHUNK_LEN)
  PROVE  one_chunk_cv(bytes) = CVOf(key, chunk.flags, TextOf(msg), ctr, 1)
<1> DEFINE fresh == fresh_chunk_state(key, chunk.flags, ctr)
           d     == chunk_state_update(fresh, bytes)
           lo    == At(ctr)
           T     == TextOf(msg)
           n     == CHUNK_LEN
<1>1. fresh = Holds(key, chunk.flags, ctr, <<>>)
  BY FreshHolds
<1>2. lo \in Nat /\ n \in Nat /\ bytes = Part(T, lo, n)
  <2>1. lo \in Nat
    BY AtFacts
  <2> QED
    BY <2>1, Lengths
<1> HIDE DEF lo, T, n
<1>3. IsSeq(bytes) /\ Len(bytes) = n
  <2>1. IsSeq(Part(T, lo, n)) /\ Len(Part(T, lo, n)) = n
    BY <1>2, PartIs
  <2> QED
    BY <1>2, <2>1
<1>4. d = Holds(key, chunk.flags, ctr, bytes)
  <2> HIDE DEF fresh
  <2> DEFINE none == <<>>
             f    == chunk.flags
  <2>1. IsSeq(none) /\ fresh = Holds(key, f, ctr, none)
    BY <1>1, EmptyIs
  <2> HIDE DEF none, f
  <2>4. chunk_state_update(Holds(key, f, ctr, none), bytes) =
          Holds(key, f, ctr, none \o bytes)
    BY <1>3, <2>1, UpdateHolds
  <2>2. d = Holds(key, chunk.flags, ctr, <<>> \o bytes)
    BY <2>1, <2>4 DEF none, f
  <2>3. <<>> \o bytes = bytes
    <3>1. bytes \in Seq({bytes[i] : i \in 1..Len(bytes)})
      BY <1>3, SeqElements
    <3> QED
      BY <3>1
  <2> QED
    BY <2>2, <2>3
<1>5. one_chunk_cv(bytes) = output_chaining_value(chunk_state_output(d))
  BY DEF one_chunk_cv, flags
<1> HIDE DEF d
<1> QED
  BY <1>2, <1>4, <1>5, FullChunkCV DEF lo, T, n

\* A subtree is hashed: its one value, or its two halves, are what comes next.
LEMMA HashData == ASSUME Accounting, DataHolds, HashSubtree PROVE DataHolds'
<1> DEFINE counter == chunk.chunk_counter
           bytes   == input(subtree_len)
           m       == subtree_len \div CHUNK_LEN
           T       == TextOf(msg)
           pair    == compress_subtree_to_parent_node(bytes, key, counter,
                                                      chunk.flags)
<1>1. /\ pc = "shrink" /\ pc' = "merge"
      /\ (counter * CHUNK_LEN) % subtree_len = 0
      /\ pushes' = subtree_pushes(bytes)
      /\ UNCHANGED <<key, chunk, cv_stack_len, cv_stack, subtree_len, msg>>
  BY DEF HashSubtree, Misaligned, struct
<1>2. /\ chunk_state_len(chunk) = 0
      /\ IsPow2(subtree_len) /\ subtree_len \in CHUNK_LEN..input_len
      /\ counter \in Nat /\ CHUNK_LEN \in Nat /\ CHUNK_LEN > 0
      /\ subtree_len \in Nat /\ subtree_len >= CHUNK_LEN
  BY <1>1, Counters, Constants DEF Accounting, Progress
<1>3. bytes = Part(T, At(counter), subtree_len) /\ At(counter) \in Nat
  BY <1>2, InputIs
<1>4. Total = counter /\ Width' = Width
  BY <1>1 DEF Total, Width
<1>5. CASE subtree_len <= CHUNK_LEN
  <2>1. subtree_len = CHUNK_LEN
    BY <1>2, <1>5
  <2>2. pushes' = <<[cv |-> one_chunk_cv(bytes), at |-> counter]>>
    BY <1>1, <1>5 DEF subtree_pushes
  <2> HIDE DEF bytes, m, T, pair
  <2>3. one_chunk_cv(bytes) = CVOf(key, chunk.flags, T, counter, 1)
    BY <1>2, <1>3, <2>1, OneChunkCV DEF T
  <2>4. Width = 1 /\ Total' = counter
    BY <1>1, <1>5, <2>2 DEF Width, Total
  <2>5. PushesHold(key, chunk.flags, msg, pushes', 1)
    BY <2>2, <2>3 DEF PushesHold, T
  <2> QED
    BY <1>1, <1>4, <2>4, <2>5 DEF DataHolds
<1>6. CASE ~ (subtree_len <= CHUNK_LEN)
  <2>1. PICK k \in Nat, q \in Nat :
          /\ IsPow2(k) /\ k > 0 /\ subtree_len = k * CHUNK_LEN
          /\ counter = k * q /\ m = k
    <3>1. (counter * CHUNK_LEN) % subtree_len = 0
      BY <1>1
    <3>2. /\ IsPow2(subtree_len) /\ subtree_len >= CHUNK_LEN
          /\ counter \in Nat
      BY <1>2
    <3> HIDE DEF counter
    <3>3. \E k \in Nat, q \in Nat :
            /\ IsPow2(k) /\ k > 0 /\ subtree_len = k * CHUNK_LEN
            /\ counter = k * q
            /\ subtree_len \div CHUNK_LEN = k /\ subtree_len % CHUNK_LEN = 0
      BY <3>1, <3>2, SubtreeChunks
    <3> QED
      BY <3>3
  <2>2. k # 1
    BY <1>2, <1>6, <2>1
  <2>3. PICK h \in Nat : IsPow2(h) /\ k = 2 * h
    BY <2>1, <2>2, Pow2Cases
  <2>4. m \div 2 = h /\ subtree_len = At(2 * h)
    BY <2>1, <2>3 DEF At
  <2>5. Width = h
    BY <1>6, <2>4 DEF Width
  <2>6. pushes' = <<[cv |-> pair[1], at |-> counter],
                    [cv |-> pair[2], at |-> counter + h]>>
    BY <1>1, <1>6, <2>4 DEF subtree_pushes, flags
  <2> DEFINE lo == At(counter)
  <2>7. pair = Pair(key, chunk.flags, counter, T, lo, h)
    BY <1>3, <2>4 DEF Pair
  <2> HIDE DEF bytes, m, T, pair
  <2>8. lo \in Nat
    BY <1>3
  <2>9. At(counter + h) = lo + At(h)
    BY <1>2, <2>3, AtFacts
  <2> HIDE DEF lo
  <2>10. /\ Pair(key, chunk.flags, counter, T, lo, h)[1] =
              NodeCV(key, chunk.flags, counter, Part(T, lo, At(h)))
         /\ Pair(key, chunk.flags, counter, T, lo, h)[2] =
              NodeCV(key, chunk.flags, counter + h, Part(T, lo + At(h), At(h)))
    BY <1>2, <2>3, <2>8, PairIs
  <2>11. /\ pair[1] = CVOf(key, chunk.flags, T, counter, h)
         /\ pair[2] = CVOf(key, chunk.flags, T, counter + h, h)
    BY <2>7, <2>9, <2>10 DEF CVOf, lo
  <2>12. Total' = counter
    BY <1>1, <2>6 DEF Total
  <2>13. PushesHold(key, chunk.flags, msg, pushes', h)
    <3> DEFINE p == [cv |-> pair[1], at |-> counter]
               r == [cv |-> pair[2], at |-> counter + h]
    <3>1. /\ p.cv = CVOf(key, chunk.flags, T, p.at, h)
          /\ r.cv = CVOf(key, chunk.flags, T, r.at, h)
      BY <2>11
    <3>2. pushes' = <<p, r>>
      BY <2>6
    <3> HIDE DEF p, r
    <3> QED
      BY <3>1, <3>2 DEF PushesHold, T
  <2> QED
    BY <1>1, <1>4, <2>5, <2>12, <2>13 DEF DataHolds
<1> QED
  BY <1>5, <1>6

-----------------------------------------------------------------------------
\* So each action of the hasher keeps the data together.
LEMMA DataKept ==
  ASSUME Accounting, DataHolds, [Next]_vars
  PROVE  DataHolds'
<1>1. CASE UNCHANGED vars \/ \E seek \in Seeks, n \in OutLens :
                               blake3_hasher_finalize_seek(seek, n)
  <2>1. UNCHANGED <<struct, pc, locals, msg>>
    BY <1>1 DEF vars, blake3_hasher_finalize_seek
  <2> QED
    BY <2>1 DEF DataHolds, Total, Width, struct, locals
<1>2. CASE \/ NextSubtree \/ ShrinkSubtree \/ ReturnFromUpdate
           \/ \E n \in 0..MaxLen : blake3_hasher_update(n)
  <2>1. /\ UNCHANGED <<struct, msg>> /\ pushes' = pushes
        /\ pc \in {"idle", "loop", "shrink", "tail"}
        /\ pc' \in {"idle", "fill", "loop", "shrink"}
    BY <1>2 DEF NextSubtree, ShrinkSubtree, ReturnFromUpdate,
                blake3_hasher_update, Callable, struct, locals
  <2>2. pushes = <<>>
    BY <2>1 DEF Accounting, Progress
  <2> QED
    BY <2>1, <2>2, SameData
<1>3. CASE \/ blake3_hasher_init
           \/ \E k \in Keys : blake3_hasher_init_keyed(k)
           \/ blake3_hasher_reset
           \/ derive_key_material
           \/ \E n \in 0..MaxLen : init_derive_key_raw(n)
  BY <1>3, StartData
<1>4. CASE FillChunk \/ BufferTail \/ ResetChunk \/ AdvanceInput
  BY <1>4, FillData, BufferData, ResetData, AdvanceData
<1>5. CASE MergeBeforePush \/ MergeTail \/ PushCV \/ HashSubtree
  BY <1>5, MergeBeforePushData, MergeTailData, PushData, HashData
<1> QED
  BY <1>1, <1>2, <1>3, <1>4, <1>5 DEF Next, Step, Call

\* Through every loop of blake3_hasher_update the stack, the values still to
\* be pushed and the chunk hold the message among them, each byte once and in
\* its place; with the counters this is inductive.
THEOREM DataHangsTogether == Spec => [](Accounting /\ DataHolds)
<1>1. ASSUME Accounting, DataHolds, [Next]_vars PROVE DataHolds'
  BY <1>1, DataKept
<1> QED
  BY <1>1, InitData, CountersHangTogether, PTL DEF Spec

-----------------------------------------------------------------------------
\* roll_up is the roll-up of its stack.
LEMMA RollUpIs ==
  ASSUME NEW output, NEW r \in Nat
  PROVE  \E g : /\ RollOn(g, 0, r, cv_stack, key, chunk.flags, output)
                /\ roll_up(output, r) = g[0]
<1> DEFINE up == CHOOSE g : g = [i \in 0..r |->
                   IF i = r THEN output
                   ELSE parent_output(
                          ParentBlock(cv_stack[i], output_chaining_value(g[i+1])),
                          key, flags)]
<1>1. roll_up(output, r) = up[0]
  BY DEF roll_up
<1>2. \E g : g = [i \in 0..r |->
                   IF i = r THEN output
                   ELSE parent_output(
                          ParentBlock(cv_stack[i], output_chaining_value(g[i+1])),
                          key, flags)]
  <2>1. \E g : RollOn(g, 0, r, cv_stack, key, chunk.flags, output)
    BY RollExists
  <2> QED
    BY <2>1 DEF RollOn, RollBody, flags
<1>3. RollOn(up, 0, r, cv_stack, key, chunk.flags, output)
  BY <1>2 DEF RollOn, RollBody, flags
<1> QED
  BY <1>1, <1>3

\* A quiescent hasher: what it counted, what its stack covers, what its chunk holds.
LEMMA TreeFacts ==
  ASSUME Accounting, DataHolds, pc = "idle"
  PROVE  LET counter == chunk.chunk_counter
             len     == chunk_state_len(chunk)
             T       == TextOf(msg)
         IN  /\ counter \in Nat /\ len \in Nat /\ len <= CHUNK_LEN
             /\ cv_stack_len \in Nat /\ fed \in Nat
             /\ At(counter) \in Nat /\ fed = At(counter) + len
             /\ Bytes(0, fed) = Part(T, 0, fed)
             /\ StackOf(key, chunk.flags, T, cv_stack, cv_stack_len, counter)
             /\ chunk_state_output(chunk) =
                  ChunkOutput(key, chunk.flags, counter,
                              Part(T, At(counter), len))
             /\ cv_stack_len = 0 => counter = 0
             /\ len > 0 => cv_stack_len = popcnt[counter]
             /\ len = 0 /\ cv_stack_len > 0 => cv_stack_len >= 2
<1> DEFINE counter == chunk.chunk_counter
           len     == chunk_state_len(chunk)
           T       == TextOf(msg)
<1>1. /\ counter \in Nat /\ len \in Nat /\ cv_stack_len \in Nat /\ fed \in Nat
      /\ popcnt[counter] \in Nat /\ (popcnt[counter] = 0 => counter = 0)
  BY Counters DEF Accounting
<1>2. /\ input_len = 0 /\ popcnt[counter] <= cv_stack_len
      /\ len <= CHUNK_LEN /\ counter * CHUNK_LEN + len = fed - input_len
      /\ len > 0 => cv_stack_len = popcnt[counter]
      /\ len = 0 /\ cv_stack_len > 0 => cv_stack_len >= 2
  BY DEF Accounting, Progress, EntriesFor, Position, ReadyToFinalize,
         PairUnderEmptyChunk
<1>3. At(counter) \in Nat /\ fed = At(counter) + len
  <2>1. At(counter) \in Nat /\ At(counter) = counter * CHUNK_LEN
    BY <1>1, AtFacts DEF At
  <2> HIDE DEF counter, len
  <2> QED
    BY <1>1, <1>2, <2>1
<1>4. Bytes(0, fed) = Part(T, 0, fed)
  BY <1>1, BytesArePart
<1>5. StackOf(key, chunk.flags, T, cv_stack, cv_stack_len, counter)
  BY DEF DataHolds, Total
<1>6. chunk = Holds(key, chunk.flags, counter, Part(T, At(counter), len))
  BY DEF DataHolds, ChunkHolds
<1>7. chunk_state_output(chunk) =
        ChunkOutput(key, chunk.flags, counter, Part(T, At(counter), len))
  <2> DEFINE f == chunk.flags
  <2>1. chunk = Holds(key, f, counter, Part(TextOf(msg), At(counter), len))
    BY <1>6
  <2> HIDE DEF f, counter, len
  <2>2. chunk_state_output(Holds(key, f, counter,
                                 Part(TextOf(msg), At(counter), len))) =
          ChunkOutput(key, f, counter, Part(TextOf(msg), At(counter), len))
    BY <1>1, ChunkGives
  <2> QED
    BY <2>1, <2>2 DEF f
<1> HIDE DEF counter, len, T
<1>8. cv_stack_len = 0 => counter = 0
  BY <1>1, <1>2
<1> QED
  BY <1>1, <1>2, <1>3, <1>4, <1>5, <1>7, <1>8 DEF counter, len, T

\* root_output is the root of the tree over all that was absorbed.
LEMMA RootIs ==
  ASSUME Accounting, DataHolds, pc = "idle"
  PROVE  root_output = NodeOutput(key, flags, 0, Bytes(0, fed))
<1> DEFINE counter == chunk.chunk_counter
           len     == chunk_state_len(chunk)
           T       == TextOf(msg)
           f       == chunk.flags
           n       == cv_stack_len
<1>1. /\ counter \in Nat /\ len \in Nat /\ len <= CHUNK_LEN
      /\ n \in Nat /\ fed \in Nat
      /\ At(counter) \in Nat /\ fed = At(counter) + len
      /\ Bytes(0, fed) = Part(T, 0, fed)
      /\ StackOf(key, f, T, cv_stack, n, counter)
      /\ chunk_state_output(chunk) =
           ChunkOutput(key, f, counter, Part(T, At(counter), len))
      /\ n = 0 => counter = 0
      /\ len > 0 => n = popcnt[counter]
      /\ len = 0 /\ n > 0 => n >= 2
  BY TreeFacts
<1>2. root_output =
        IF n = 0 THEN chunk_state_output(chunk)
        ELSE IF len > 0 THEN roll_up(chunk_state_output(chunk), n)
        ELSE roll_up(parent_output(ParentBlock(cv_stack[n - 2], cv_stack[n - 1]),
                                   key, f), n - 2)
  BY DEF root_output, flags
<1>3. \A output : \A r \in Nat :
        \E g : /\ RollOn(g, 0, r, cv_stack, key, f, output)
               /\ roll_up(output, r) = g[0]
  BY RollUpIs
<1> HIDE DEF counter, len, T, f, n
<1>4. root_output = NodeOutput(key, f, 0, Part(T, 0, fed))
  <2>1. CASE n = 0
    <3> DEFINE z == 0
    <3>1. counter = z /\ At(counter) = z /\ z \in Nat /\ fed = len
      <4>1. At(0) = 0 /\ counter = 0
        BY <1>1, <2>1, AtFacts
      <4> QED
        BY <1>1, <4>1
    <3> HIDE DEF z
    <3>2. NodeOutput(key, f, z, Part(T, z, fed)) = ChunkOutput(key, f, z, Part(T, z, fed))
      BY <1>1, <3>1, PartLeaf
    <3> QED
      BY <1>1, <1>2, <2>1, <3>1, <3>2 DEF z
  <2>2. CASE n # 0 /\ len > 0
    <3> DEFINE start == ChunkOutput(key, f, counter, Part(T, At(counter), len))
    <3>1. PICK g : /\ RollOn(g, 0, n, cv_stack, key, f, start)
                   /\ roll_up(start, n) = g[0]
      BY <1>1, <1>3
    <3>2. g[0] = NodeOutput(key, f, 0, Part(T, 0, fed))
      BY <1>1, <2>2, <3>1, RollOverChunk
    <3>3. root_output = roll_up(start, n)
      BY <1>1, <1>2, <2>2
    <3> QED
      BY <3>1, <3>2, <3>3
  <2>3. CASE n # 0 /\ ~ (len > 0)
    <3> DEFINE start == parent_output(
                          ParentBlock(cv_stack[n - 2], cv_stack[n - 1]), key, f)
               r     == n - 2
    <3>1. len = 0 /\ n >= 2 /\ r \in Nat /\ fed = At(counter)
      BY <1>1, <2>3
    <3>2. PICK g : /\ RollOn(g, 0, r, cv_stack, key, f, start)
                   /\ roll_up(start, r) = g[0]
      BY <3>1, <1>3
    <3>3. g[0] = NodeOutput(key, f, 0, Part(T, 0, At(counter)))
      BY <1>1, <3>1, <3>2, RollOverPair
    <3>4. root_output = roll_up(start, r)
      BY <1>2, <2>3
    <3> QED
      BY <3>1, <3>2, <3>3, <3>4
  <2> QED
    BY <2>1, <2>2, <2>3
<1> QED
  BY <1>1, <1>4 DEF f, flags

\* What blake3_hasher_finalize_seek rolls up is the root of the tree over all
\* the bytes absorbed so far, whatever calls of blake3_hasher_update brought
\* them and however many chunks at once the CPU hashed.
THEOREM HashOfTheTree == Spec => []HashIsTree
<1>1. ASSUME Accounting, DataHolds PROVE HashIsTree
  BY <1>1, RootIs DEF HashIsTree
<1> QED
  BY <1>1, DataHangsTogether, PTL

\* Between two calls, and between two rounds of the loop of an update, the
\* stack of chaining values is exactly the first chunk_counter chunks of the
\* message, as subtrees side by side: no merge paired the wrong entries and
\* none was forgotten.
THEOREM StackCovers == Spec => []StackCoversChunks
<1>1. ASSUME Accounting, DataHolds PROVE StackCoversChunks
  <2> DEFINE counter == chunk.chunk_counter
             T       == TextOf(msg)
             f       == chunk.flags
             n       == cv_stack_len
             Sub(lo, hi) == NodeCV(key, flags, lo,
                              Bytes(lo * CHUNK_LEN, (hi - lo) * CHUNK_LEN))
             Body(g, i) == IF i = 0 THEN {counter}
                           ELSE {lo \in 0..counter :
                                   \E hi \in g[i - 1] :
                                     lo < hi /\ cv_stack[n - i] = Sub(lo, hi)}
             starts == CHOOSE g : g = [i \in 0..n |-> Body(g, i)]
  <2> SUFFICES ASSUME pc \in {"idle", "loop"} PROVE 0 \in starts[n]
    BY DEF StackCoversChunks
  <2>1. counter \in Nat /\ n \in Nat
    BY <1>1, Counters DEF Accounting
  <2>2. StackOf(key, f, T, cv_stack, n, counter)
    BY <1>1 DEF DataHolds, Total
  <2>3. PICK h : StartsOn(h, n, key, f, T, cv_stack, n, counter)
    BY <2>1, StartsExist
  <2>4. ASSUME NEW g, StartsOn(g, n, key, f, T, cv_stack, n, counter)
        PROVE  0 \in g[n]
    <3> HIDE DEF f, T, counter, n
    <3> QED
      BY <2>1, <2>2, <2>4, StartsReach
  <2>5. ASSUME NEW lo \in Nat, NEW hi \in Nat, lo < hi
        PROVE  Sub(lo, hi) = CVOf(key, f, T, lo, hi - lo)
    <3> DEFINE w == hi - lo
               a == At(lo)
               b == At(w)
    <3>1. w \in Nat /\ a \in Nat /\ b \in Nat
      <4>1. w \in Nat
        BY <2>5
      <4> HIDE DEF w
      <4> QED
        BY <4>1, AtFacts
    <3>2. a = lo * CHUNK_LEN /\ b = (hi - lo) * CHUNK_LEN
      BY DEF At
    <3> HIDE DEF a, b
    <3>3. Bytes(a, b) = Part(T, a, b)
      BY <3>1, BytesArePart
    <3> QED
      BY <3>2, <3>3 DEF CVOf, flags, a, b
  <2> HIDE DEF Sub, f, T
  <2>6. ASSUME NEW g, NEW i \in 1..n, g[i - 1] \subseteq 0..counter
        PROVE  {lo \in 0..counter :
                  \E hi \in g[i - 1] :
                    lo < hi /\ cv_stack[n - i] = Sub(lo, hi)} =
                 StartsBody(g[i - 1], key, f, T, cv_stack[n - i], counter)
    <3>1. \A lo \in 0..counter : \A hi \in g[i - 1] :
            lo \in Nat /\ hi \in Nat
      BY <2>1, <2>6
    <3>2. \A lo \in 0..counter : \A hi \in g[i - 1] :
            lo < hi => Sub(lo, hi) = CVOf(key, f, T, lo, hi - lo)
      BY <2>5, <3>1
    <3> HIDE DEF counter, n
    <3> QED
      BY <3>2 DEF StartsBody
  <2>7. ASSUME NEW g, \/ g = [i \in 0..n |-> Body(g, i)]
                      \/ StartsOn(g, n, key, f, T, cv_stack, n, counter)
        PROVE  \A i \in 1..n : g[i - 1] \subseteq 0..counter
    <3>1. TAKE i \in 1..n
    <3>2. i - 1 \in 0..n /\ counter \in 0..counter
      BY <2>1
    <3> DEFINE j == i - 1
    <3>3. j \in 0..n
      BY <3>2
    <3> HIDE DEF j, counter, n
    <3>4. g[j] \subseteq 0..counter
      BY <2>7, <3>2, <3>3 DEF StartsOn, StartsBody
    <3> QED
      BY <3>4 DEF j
  <2>8. ASSUME NEW g
        PROVE  g = [i \in 0..n |-> Body(g, i)] <=>
                 StartsOn(g, n, key, f, T, cv_stack, n, counter)
    <3>1. ASSUME \A i \in 1..n : g[i - 1] \subseteq 0..counter
          PROVE  \A i \in 0..n :
                   Body(g, i) = IF i = 0 THEN {counter}
                                ELSE StartsBody(g[i - 1], key, f, T,
                                                cv_stack[n - i], counter)
      <4> TAKE i \in 0..n
      <4>1. CASE i = 0
        BY <4>1
      <4>2. CASE i # 0
        <5>1. i \in 1..n
          BY <2>1, <4>2
        <5>2. g[i - 1] \subseteq 0..counter
          BY <3>1, <5>1
        <5> QED
          BY <2>6, <4>2, <5>1, <5>2
      <4> QED
        BY <4>1, <4>2
    <3> HIDE DEF Body, counter, n
    <3> QED
      BY <2>7, <3>1 DEF StartsOn
  <2> HIDE DEF Body
  <2>9. \E g : g = [i \in 0..n |-> Body(g, i)]
    BY <2>3, <2>8
  <2>10. starts = [i \in 0..n |-> Body(starts, i)]
    BY <2>9
  <2> HIDE DEF starts
  <2> QED
    BY <2>4, <2>8, <2>10
<1> QED
  BY <1>1, DataHangsTogether, PTL

-----------------------------------------------------------------------------
(***************************************************************************)
(* The refinement of Blake3Hash.                                           *)
(***************************************************************************)
LEMMA SameRootBytes ==
  ASSUME NEW k, NEW f, NEW bytes, NEW seek, NEW n
  PROVE  Promise!RootBytes(k, f, bytes, seek, n) = RootBytes(k, f, bytes, seek, n)
<1>1. Promise!NodeOutput(k, f, 0, bytes) = NodeOutput(k, f, 0, bytes)
  BY DEF Promise!NodeOutput, NodeOutput, Promise!ChunkOutput, ChunkOutput,
         Promise!LeftChunks, LeftChunks, Promise!IsPow2, IsPow2,
         Promise!popcnt, popcnt, Promise!parent_output, parent_output,
         Promise!ParentBlock, ParentBlock, Promise!DataBlock, DataBlock,
         Promise!output_chaining_value, output_chaining_value,
         Promise!make_output, make_output, Promise!compress, compress,
         Promise!Zero, Zero
<1> QED
  BY <1>1 DEF Promise!RootBytes, RootBytes, Promise!compress, compress

\* What finalize writes are the bytes of the root.
LEMMA DigestIs ==
  ASSUME Accounting, DataHolds, pc = "idle", NEW seek \in Nat, NEW n \in Nat
  PROVE  output_root_bytes(root_output, seek, n) =
           Promise!RootBytes(key, flags, Bytes(0, fed), seek, n)
<1> DEFINE o == NodeOutput(key, flags, 0, Bytes(0, fed))
<1>1. root_output = o
  BY RootIs
<1> HIDE DEF o
<1>2. output_root_bytes(o, seek, n) =
        [i \in 1..n |-> ByteAt(o, seek + i - 1, 2 * OUT_LEN)]
  BY OutputBytes
<1>3. RootBytes(key, flags, Bytes(0, fed), seek, n) =
        [i \in 1..n |-> ByteAt(o, seek + i - 1, 2 * OUT_LEN)]
  BY DEF RootBytes, ByteAt, OutByte, o
<1> QED
  BY <1>1, <1>2, <1>3, SameRootBytes

\* Bytes of a message are a sequence of the kind that the promise hashes.
LEMMA MessageIs ==
  ASSUME NEW m \in Nat, NEW n \in Nat
  PROVE  LET b == [i \in 1..n |-> <<m, 0 + i>>]
         IN  b \in Seq(Nat \X Nat) /\ Len(b) = n /\ (n = 0 => b = <<>>)
  OBVIOUS

\* Before the first byte the message is empty.
LEMMA NothingFed == fed = 0 => Bytes(0, fed) = <<>>
  BY DEF Bytes

\* And so it is after a restart.
LEMMA NothingFedNext == fed' = 0 => Bytes(0, fed)' = <<>>
  BY DEF Bytes

\* Init of the hasher is Init of the promise.
LEMMA InitMaps == Init => Promise!HashInit
<1> SUFFICES ASSUME Init PROVE Promise!HashInit
  OBVIOUS
<1>1. /\ \/ key = IV /\ flags = {}
         \/ key \in Keys /\ flags = {"KEYED_HASH"}
      /\ fed = 0 /\ out = <<>>
  BY DEF Init, flags, chunk_state_init, chunk_state
<1>2. Bytes(0, fed) = <<>>
  BY <1>1, NothingFed
<1>3. <<key, flags>> \in {<<IV, {}>>} \cup (Keys \X {{"KEYED_HASH"}})
  BY <1>1
<1> QED
  BY <1>1, <1>2, <1>3 DEF Promise!HashInit

\* Each of the initialisers restarts the promise.
LEMMA RestartMaps ==
  ASSUME blake3_hasher_init \/ \E k \in Keys : blake3_hasher_init_keyed(k)
  PROVE  Promise!Restart
<1>1. /\ flags # {"DERIVE_KEY_CONTEXT"}
      /\ fed' = 0 /\ out' = <<>>
      /\ \/ key' = IV /\ flags' = {}
         \/ \E k \in Keys : key' = k /\ flags' = {"KEYED_HASH"}
  BY DEF blake3_hasher_init, blake3_hasher_init_keyed, Callable, Deriving,
         hasher_init_base, chunk_state_init, chunk_state, flags
<1>2. Bytes(0, fed)' = <<>>
  BY <1>1, NothingFedNext
<1> QED
  BY <1>1, <1>2 DEF Promise!Restart, Promise!Start, Promise!Deriving

\* blake3_hasher_reset rewinds the promise.
LEMMA RewindMaps == ASSUME blake3_hasher_reset PROVE Promise!Rewind
<1>1. /\ flags # {"DERIVE_KEY_CONTEXT"}
      /\ fed' = 0 /\ out' = <<>> /\ key' = key /\ flags' = flags
  BY DEF blake3_hasher_reset, Callable, Deriving, chunk_state_reset,
         chunk_state, flags
<1>2. Bytes(0, fed)' = <<>>
  BY <1>1, NothingFedNext
<1> QED
  BY <1>1, <1>2 DEF Promise!Rewind, Promise!Start, Promise!Deriving

\* The key derivation takes its context in one step of the promise.
LEMMA ContextMaps ==
  ASSUME Accounting, NEW n \in 0..MaxLen, init_derive_key_raw(n)
  PROVE  Promise!DeriveContext
<1>1. /\ flags # {"DERIVE_KEY_CONTEXT"}
      /\ fed' = n /\ out' = <<>> /\ key' = IV
      /\ flags' = {"DERIVE_KEY_CONTEXT"} /\ msg' = msg + 1
  BY DEF init_derive_key_raw, Callable, Deriving, hasher_init_base,
         chunk_state_init, chunk_state, flags, NextMessage
<1>2. n \in Nat /\ msg' \in Nat
  BY <1>1, Constants DEF Accounting, TypeOK
<1>3. Bytes(0, fed)' \in Seq(Nat \X Nat)
  <2>1. Bytes(0, fed)' = [i \in 1..n |-> <<msg', 0 + i>>]
    BY <1>1 DEF Bytes
  <2> QED
    BY <1>2, <2>1, MessageIs
<1> QED
  BY <1>1, <1>3 DEF Promise!DeriveContext, Promise!Deriving

\* Its second half starts under the key that the context hashes to.
LEMMA MaterialMaps ==
  ASSUME Accounting, DataHolds, derive_key_material
  PROVE  Promise!DeriveMaterial
<1>1. /\ pc = "idle" /\ flags = {"DERIVE_KEY_CONTEXT"}
      /\ key' = output_root_bytes(root_output, 0, OUT_LEN)
      /\ flags' = {"DERIVE_KEY_MATERIAL"}
      /\ fed' = 0 /\ out' = <<>>
  BY DEF derive_key_material, Deriving, hasher_init_base, chunk_state_init,
         chunk_state, flags
<1>2. output_root_bytes(root_output, 0, OUT_LEN) =
        Promise!RootBytes(key, flags, Bytes(0, fed), 0, OUT_LEN)
  <2>1. 0 \in Nat /\ OUT_LEN \in Nat
    BY LenAssumption
  <2> QED
    BY <1>1, <2>1, DigestIs
<1>3. Bytes(0, fed)' = <<>>
  BY <1>1, NothingFedNext
<1> QED
  BY <1>1, <1>2, <1>3
  DEF Promise!DeriveMaterial, Promise!Start, Promise!Deriving

\* Finalising yields the digest that was promised.
LEMMA DigestMaps ==
  ASSUME Accounting, DataHolds, NEW seek \in Seeks, NEW n \in OutLens,
         blake3_hasher_finalize_seek(seek, n)
  PROVE  Promise!Digest(seek, n)
<1>1. /\ pc = "idle" /\ flags # {"DERIVE_KEY_CONTEXT"}
      /\ out' = IF n = 0 THEN <<>> ELSE output_root_bytes(root_output, seek, n)
      /\ key' = key /\ chunk' = chunk /\ msg' = msg /\ fed' = fed
  BY DEF blake3_hasher_finalize_seek, Callable, Deriving, struct
<1>2. seek \in Nat /\ n \in Nat
  BY DepthAssumption
<1>3. output_root_bytes(root_output, seek, n) =
        Promise!RootBytes(key, flags, Bytes(0, fed), seek, n)
  BY <1>1, <1>2, DigestIs
<1>4. ASSUME n = 0
      PROVE  Promise!RootBytes(key, flags, Bytes(0, fed), seek, n) = <<>>
  BY <1>4 DEF Promise!RootBytes
<1>5. out' = Promise!RootBytes(key, flags, Bytes(0, fed), seek, n)
  BY <1>1, <1>3, <1>4
<1>6. flags' = flags /\ Bytes(0, fed)' = Bytes(0, fed)
  BY <1>1 DEF flags, Bytes
<1> QED
  BY <1>1, <1>5, <1>6 DEF Promise!Digest, Promise!Deriving

\* The promise absorbs the input of an update when it is called.
LEMMA AbsorbMaps ==
  ASSUME Accounting, NEW n \in 0..MaxLen, blake3_hasher_update(n)
  PROVE  Promise!Absorb
<1>1. /\ flags # {"DERIVE_KEY_CONTEXT"}
      /\ fed' = fed + n /\ out' = <<>>
      /\ key' = key /\ chunk' = chunk /\ msg' = msg
  BY DEF blake3_hasher_update, Callable, Deriving, struct
<1>2. /\ n \in Nat /\ fed \in Nat /\ fed + n \in Nat /\ msg \in Nat
      /\ fed <= fed + n
  BY Constants DEF Accounting, TypeOK
<1> DEFINE b == Bytes(0, fed)
           c == [i \in 1..(fed + n) |-> <<msg, 0 + i>>]
<1>3. Bytes(0, fed)' = c
  BY <1>1 DEF Bytes
<1>4. /\ b = [i \in 1..fed |-> <<msg, 0 + i>>]
      /\ \A i \in 1..fed : b[i] = <<msg, 0 + i>>
  BY DEF Bytes
<1>5. /\ c \in Seq(Nat \X Nat) /\ Len(c) = fed + n
      /\ \A i \in 1..fed : c[i] = <<msg, 0 + i>>
  BY <1>2, MessageIs
<1>6. b \in Seq(Nat \X Nat) /\ Len(b) = fed
  BY <1>2, <1>4, MessageIs
<1> HIDE DEF b, c
<1>7. SubSeq(c, 1, Len(b)) = b
  <2>1. b = [i \in 1..fed |-> b[i]]
    BY <1>6
  <2>2. SubSeq(c, 0 + 1, 0 + fed) = Part(c, 0, fed)
    BY <1>2, PartIsSlice
  <2>3. Part(c, 0, fed) = [i \in 1..fed |-> b[i]]
    <3>1. \A i \in 1..fed : c[0 + i] = b[i]
      BY <1>4, <1>5
    <3> QED
      BY <3>1 DEF Part
  <2> QED
    BY <1>2, <1>6, <2>1, <2>2, <2>3
<1>8. flags' = flags /\ Len(b) <= Len(c)
  BY <1>1, <1>2, <1>5, <1>6 DEF flags
<1> QED
  BY <1>1, <1>3, <1>5, <1>7, <1>8
  DEF Promise!Absorb, Promise!Deriving, b

\* The steps inside a call change nothing the caller can see.
LEMMA InnerMaps ==
  ASSUME Accounting, DataHolds,
         \/ FillChunk \/ ResetChunk
         \/ MergeBeforePush \/ PushCV
         \/ NextSubtree \/ ShrinkSubtree \/ HashSubtree \/ AdvanceInput
         \/ BufferTail \/ MergeTail \/ ReturnFromUpdate
         \/ UNCHANGED vars
  PROVE  UNCHANGED Promise!hashVars
<1>1. UNCHANGED <<key, msg, fed, out>>
  BY DEF FillChunk, ResetChunk, MergeBeforePush, PushCV, NextSubtree,
         ShrinkSubtree, HashSubtree, AdvanceInput, BufferTail, MergeTail,
         ReturnFromUpdate, struct, vars
<1>2. ASSUME NEW in, NEW n \in Nat, in = input(n)
      PROVE  chunk_state_update(chunk, in).flags = chunk.flags
  <2>1. /\ ChunkHolds(key, msg, chunk) /\ IsChunkState(chunk)
        /\ in = Part(TextOf(msg),
                     At(chunk.chunk_counter) + chunk_state_len(chunk), n)
    BY <1>2, InputIs DEF Accounting, TypeOK, DataHolds
  <2> QED
    BY <2>1, ChunkTakes
<1>3. chunk'.flags = chunk.flags
  <2>1. CASE FillChunk
    <3> DEFINE room == CHUNK_LEN - chunk_state_len(chunk)
               take == IF room > input_len THEN input_len ELSE room
    <3>1. chunk' = chunk_state_update(chunk, input(take))
      BY <2>1 DEF FillChunk
    <3>2. take \in Nat
      BY Counters, Constants DEF Accounting, Position
    <3> HIDE DEF take
    <3> QED
      BY <1>2, <3>1, <3>2
  <2>2. CASE BufferTail
    <3>1. \/ chunk' = chunk
          \/ chunk' = chunk_state_update(chunk, input(input_len))
      BY <2>2 DEF BufferTail
    <3>2. input_len \in Nat
      BY Counters DEF Accounting
    <3> QED
      BY <1>2, <3>1, <3>2
  <2>3. CASE ResetChunk
    BY <2>3 DEF ResetChunk, chunk_state_reset, chunk_state
  <2>4. CASE AdvanceInput
    <3>1. IsChunkState(chunk)
      BY DEF Accounting, TypeOK
    <3> QED
      BY <2>4, <3>1 DEF AdvanceInput, IsChunkState, chunk_state
  <2>5. CASE \/ MergeBeforePush \/ PushCV \/ NextSubtree \/ ShrinkSubtree
             \/ HashSubtree \/ MergeTail \/ ReturnFromUpdate \/ UNCHANGED vars
    <3>1. chunk' = chunk
      BY <2>5 DEF MergeBeforePush, PushCV, NextSubtree, ShrinkSubtree,
                  HashSubtree, MergeTail, ReturnFromUpdate, struct, vars
    <3> QED
      BY <3>1
  <2> QED
    BY <2>1, <2>2, <2>3, <2>4, <2>5
<1>4. flags' = flags /\ Bytes(0, fed)' = Bytes(0, fed)
  BY <1>1, <1>3 DEF flags, Bytes
<1> QED
  BY <1>1, <1>4 DEF Promise!hashVars

\* Every behaviour of the incremental hasher is one of Blake3Hash, which keeps
\* the key, the flags and the whole message and hashes it in one step: a reset
\* forgets all of the old message, both halves of a key derivation use the
\* key they should, and finalising changes nothing.
THEOREM HasherImplementsHash == Spec => ImplementsHash
<1>1. ASSUME Accounting, DataHolds, [Next]_vars
      PROVE  [Promise!HashNext]_(Promise!hashVars)
  <2>1. CASE UNCHANGED vars \/ (Step /\ ~ derive_key_material)
    BY <1>1, <2>1, InnerMaps DEF Step
  <2>2. CASE derive_key_material
    BY <1>1, <2>2, MaterialMaps DEF Promise!HashNext
  <2>3. CASE blake3_hasher_init \/ \E k \in Keys : blake3_hasher_init_keyed(k)
    BY <2>3, RestartMaps DEF Promise!HashNext
  <2>4. CASE \E n \in 0..MaxLen : init_derive_key_raw(n)
    BY <1>1, <2>4, ContextMaps DEF Promise!HashNext
  <2>5. CASE \E n \in 0..MaxLen : blake3_hasher_update(n)
    BY <1>1, <2>5, AbsorbMaps DEF Promise!HashNext
  <2>6. CASE \E seek \in Seeks, n \in OutLens :
               blake3_hasher_finalize_seek(seek, n)
    BY <1>1, <2>6, DigestMaps DEF Promise!HashNext
  <2>7. CASE blake3_hasher_reset
    BY <2>7, RewindMaps DEF Promise!HashNext
  <2> QED
    BY <1>1, <2>1, <2>2, <2>3, <2>4, <2>5, <2>6, <2>7 DEF Next, Call
<1> QED
  BY <1>1, InitMaps, DataHangsTogether, PTL
  DEF Spec, ImplementsHash, Promise!HashSpec
=============================================================================
