----------------------------- MODULE Blake3Wide -----------------------------
(***************************************************************************)
(* The many-chunks-at-once path of blake3.c: a subtree is hashed breadth   *)
(* first, SIMD_DEGREE chunks or parents at a time, into an array of        *)
(* chaining values that is then folded down to the two children of the     *)
(* subtree's root.  Arrays are sequences indexed from 1; an array slot     *)
(* nobody has written holds Garbage.                                       *)
(***************************************************************************)
EXTENDS Blake3Compress

CONSTANTS SIMD_DEGREE,      \* blake3_simd_degree(), what the CPU offers
          MAX_SIMD_DEGREE,  \* what the build allows for
          Garbage           \* the contents of uninitialised memory

ASSUME DegreeAssumption ==
  /\ IsPow2(SIMD_DEGREE)
  /\ IsPow2(MAX_SIMD_DEGREE)
  /\ SIMD_DEGREE <= MAX_SIMD_DEGREE

MAX_SIMD_DEGREE_OR_2 == IF MAX_SIMD_DEGREE > 2 THEN MAX_SIMD_DEGREE ELSE 2

(***************************************************************************)
(* hash_one and hash_many: every input is a sequence of whole blocks, the  *)
(* start and end flags go on its first and last block, and the counter     *)
(* moves from one input to the next only for chunks.                       *)
(***************************************************************************)
hash_one(input, key, counter, flags, flags_start, flags_end) ==
  LET blocks == Len(input)
      cv[b \in 0..blocks] ==
        IF b = 0 THEN key
        ELSE compress(cv[b-1], input[b], BLOCK_LEN, counter,
                      flags \cup (IF b = 1 THEN flags_start ELSE {})
                            \cup (IF b = blocks THEN flags_end ELSE {}))
  IN  cv[blocks]

hash_many(inputs, key, counter, increment, flags, f_start, f_end) ==
  [i \in 1..Len(inputs) |->
     hash_one(inputs[i], key, counter + (IF increment THEN i - 1 ELSE 0),
              flags, f_start, f_end)]

\* The blocks of the full chunk that starts after byte `from` of input.
chunk_blocks(input, from) ==
  [b \in 1..(CHUNK_LEN \div BLOCK_LEN) |->
     DataBlock(SubSeq(input, from + (b-1) * BLOCK_LEN + 1,
                      from + b * BLOCK_LEN))]

\* Wrong on purpose: the partial chunk at the end gets the first one's number.
stale_last_counter(input, key, chunk_counter, flags) ==
  LET full  == Len(input) \div CHUNK_LEN
      array == [i \in 1..full |-> chunk_blocks(input, (i - 1) * CHUNK_LEN)]
      fresh == fresh_chunk_state(key, flags, chunk_counter)
      rest  == SubSeq(input, full * CHUNK_LEN + 1, Len(input))
      last  == chunk_state_output(chunk_state_update(fresh, rest))
  IN  hash_many(array, key, chunk_counter, TRUE, flags, {"CHUNK_START"},
                {"CHUNK_END"})
        \o (IF rest = <<>> THEN <<>> ELSE <<output_chaining_value(last)>>)

compress_chunks_parallel(input, key, chunk_counter, flags) ==
  LET full  == Len(input) \div CHUNK_LEN
      array == [i \in 1..full |-> chunk_blocks(input, (i - 1) * CHUNK_LEN)]
      fresh == fresh_chunk_state(key, flags, chunk_counter + full)
      rest  == SubSeq(input, full * CHUNK_LEN + 1, Len(input))
      last  == chunk_state_output(chunk_state_update(fresh, rest))
  IN  hash_many(array, key, chunk_counter, TRUE, flags, {"CHUNK_START"},
                {"CHUNK_END"})
        \o (IF rest = <<>> THEN <<>> ELSE <<output_chaining_value(last)>>)

\* Pairs become parents; an odd child left over is passed up as it is.
compress_parents_parallel(child_cvs, key, flags) ==
  LET n     == Len(child_cvs)
      array == [i \in 1..(n \div 2) |->
                  <<ParentBlock(child_cvs[2*i - 1], child_cvs[2*i])>>]
  IN  hash_many(array, key, 0, FALSE, flags \cup {"PARENT"}, {}, {})
        \o SubSeq(child_cvs, 2 * (n \div 2) + 1, n)

left_len(content_len) ==
  round_down_to_power_of_2[(content_len - 1) \div CHUNK_LEN] * CHUNK_LEN

\* Wrong on purpose: two slots for every left half of several chunks.
degree_of_two(left_input_len) ==
  IF left_input_len > CHUNK_LEN THEN 2 ELSE SIMD_DEGREE

\* The slots the left half may fill before the right half's begin.
child_degree(left_input_len) ==
  IF left_input_len > CHUNK_LEN /\ SIMD_DEGREE = 1 THEN 2 ELSE SIMD_DEGREE

\* cv_array after both halves are written, the right one last.
cv_array(left, right, degree) ==
  [i \in 1..(degree + Len(right)) |->
     IF i > degree THEN right[i - degree]
     ELSE IF i <= Len(left) THEN left[i] ELSE Garbage]

\* Wrong on purpose: the values of both halves are handed up as they are.
never_compress(left, right, degree, key, flags) == left \o right

\* One node of the recursion, given its two halves.
join_halves(left, right, degree, key, flags) ==
  LET array == cv_array(left, right, degree)
  IN  IF Len(left) = 1 THEN SubSeq(array, 1, 2)
      ELSE compress_parents_parallel(
             SubSeq(array, 1, Len(left) + Len(right)), key, flags)

\* wide[<<lo, n>>] is the array for the n bytes that start after byte lo.
blake3_compress_subtree_wide(input, key, chunk_counter, flags) ==
  LET wide[part \in Nat \X Nat] ==
        LET lo   == part[1]
            n    == part[2]
            left == left_len(n)
        IN  IF n <= SIMD_DEGREE * CHUNK_LEN
            THEN compress_chunks_parallel(SubSeq(input, lo + 1, lo + n), key,
                   chunk_counter + (lo \div CHUNK_LEN), flags)
            ELSE join_halves(wide[<<lo, left>>], wide[<<lo + left, n - left>>],
                             child_degree(left), key, flags)
  IN  wide[<<0, Len(input)>>]

\* while (num_cvs > 2): every round halves the array, rounding up.
condense(cvs, key, flags) ==
  LET round[i \in 0..Len(cvs)] ==
        IF i = 0 THEN cvs
        ELSE LET previous == round[i-1]
             IN  IF Len(previous) > 2
                 THEN compress_parents_parallel(previous, key, flags)
                 ELSE previous
  IN  round[Len(cvs)]

\* The two chaining values under the root of a subtree of several chunks.
compress_subtree_to_parent_node(input, key, chunk_counter, flags) ==
  SubSeq(condense(blake3_compress_subtree_wide(input, key, chunk_counter,
                                               flags), key, flags), 1, 2)

=============================================================================
