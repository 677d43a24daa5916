-------------------------- MODULE Blake3Algorithms --------------------------
(***************************************************************************)
(* The functions of BLAKE3 that keep no state against what they stand for: *)
(* the wide path against the hash tree, the bit tricks against arithmetic, *)
(* the compression function against its definition, and the vector kernels *)
(* lane by lane.  The states enumerate the argument of these functions.    *)
(***************************************************************************)
EXTENDS Blake3Tree, Blake3Wide, Blake3BitTricks, Blake3Vector

CONSTANTS MaxWord,        \* bound: the largest argument
          MaxLen,         \* bound: bytes of input of the wide path
          Counters,       \* first chunk numbers of the wide path
          MaxCompressed,  \* bound: blocks compressed
          MaxInputs,      \* bound: inputs of the vector kernels
          Key

ASSUME ArgumentAssumption ==
  /\ MaxWord \in 0..(power[power[LogBits]] - 1)
  /\ Counters \subseteq Nat

VARIABLE argument

Start == argument = 0
Increment == argument < MaxWord /\ argument' = argument + 1
Enumeration == Start /\ [][Increment]_argument

-----------------------------------------------------------------------------
(***************************************************************************)
(* The wide path, on inputs of so many bytes.                              *)
(***************************************************************************)
Input(len) == [i \in 1..len |-> <<1, i>>]

\* The pair that hasher_push_cv gets holds the two children of the subtree's
\* root, whatever the SIMD degree: the breadth-first array, with its odd
\* leftovers, condenses into the tree of blake3.c:158-160.
PairIsRootsChildren ==
  argument \in (CHUNK_LEN + 1)..MaxLen =>
    \A counter \in Counters :
      compress_subtree_to_parent_node(Input(argument), Key, counter, {})
        = NodeOutput(Key, {}, counter, Input(argument)).block.kids

\* The chaining values blake3_compress_subtree_wide returns for len bytes.
NumberOfCvs(len, counter) ==
  Len(blake3_compress_subtree_wide(Input(len), Key, counter, {}))

\* The array is never empty, never longer than MAX_SIMD_DEGREE_OR_2 (the
\* assert at blake3.c:347), and never a lone value when there are several
\* chunks: that would be the root, compressed too early (blake3.c:258-263).
ArrayFits ==
  argument \in 1..MaxLen =>
    \A counter \in Counters :
      NumberOfCvs(argument, counter)
        \in (IF argument > CHUNK_LEN THEN 2 ELSE 1)..MAX_SIMD_DEGREE_OR_2

\* Where the recursion splits, the left half fills exactly the slots before
\* right_cvs (blake3.c:304), so the two halves are adjacent when they are read
\* as one array, and their number is what compress_parents_parallel asserts
\* (blake3.c:221-222).
HalvesAreAdjacent ==
  argument \in (SIMD_DEGREE * CHUNK_LEN + 1)..MaxLen =>
    \A counter \in Counters :
      LET left  == left_len(argument)
          right == argument - left
          after == counter + (left \div CHUNK_LEN)
      IN  /\ NumberOfCvs(left, counter) = child_degree(left)
          /\ NumberOfCvs(left, counter) + NumberOfCvs(right, after)
               \in 2..(2 * MAX_SIMD_DEGREE_OR_2)

-----------------------------------------------------------------------------
(***************************************************************************)
(* The bit tricks, on a word.                                              *)
(***************************************************************************)
Powers == {power[i] : i \in 0..(power[LogBits] - 1)}

\* The loops that stand in where a compiler has no builtin give the build the
\* same tree: clearing the lowest bit until none is left counts the bits, and
\* the binary search finds the largest power of two that is at most the word,
\* and 1 for 0, as round_down_to_power_of_2 promises (blake3_impl.h:135-136).
LoopsAreBuiltins ==
  /\ popcnt_loop[argument] = popcnt[argument]
  /\ round_down(argument) = round_down_to_power_of_2[argument]
  /\ round_down(argument) \in Powers
  /\ argument > 0 => /\ round_down(argument) <= argument
                     /\ argument < 2 * round_down(argument)

\* For a power of two, masking with subtree_len - 1 is taking the remainder
\* (blake3.c:516-518), for every count the hasher has seen so far.
MaskIsRemainder ==
  \A s \in Powers : misaligned(s, argument) <=> argument % s # 0

-----------------------------------------------------------------------------
(***************************************************************************)
(* The compression function, on a block with that number.                  *)
(***************************************************************************)
Portable == INSTANCE Blake3Rounds
Definition == INSTANCE Blake3Reference

\* Arguments that differ in every part: bytes all over the range, so that sums
\* carry, counters on both sides of the 32-bit boundary, partial blocks.
Some(k) == (argument * (37 + k) + k * k) % 256
Block == [i \in 1..64 |-> IF argument = 0 THEN 0 ELSE Some(i)]
Cv == IF argument = 0 THEN Portable!IV
      ELSE Portable!load_key_words(
             [i \in 1..32 |-> IF i % 4 = 0 THEN 255 ELSE 255 - Some(i)])
Counter == [i \in 1..8 |-> IF argument % 4 = 0 THEN 0
                           ELSE IF i <= 4 THEN 255 ELSE Some(i)]
BlockLen == IF argument = 0 THEN 0 ELSE 1 + (argument % 64)
Flags == IF argument = 0 THEN 11 ELSE argument % 128

\* Both forms of the portable compression function compute what BLAKE3
\* defines: the schedule table is the permutation applied round after round,
\* the mixed words are the columns and the diagonals, and the chaining value
\* is the first half of the output block.
CompressionIsDefined ==
  argument <= MaxCompressed =>
    LET xof == Portable!compress_xof(Cv, Block, BlockLen, Counter, Flags)
        cv  == Portable!compress_in_place(Cv, Block, BlockLen, Counter, Flags)
        out == Definition!Compression(
                 [i \in 1..8 |-> Cv[i - 1]],
                 [i \in 1..16 |-> SubSeq(Block, 4 * i - 3, 4 * i)],
                 << SubSeq(Counter, 1, 4), SubSeq(Counter, 5, 8),
                    <<BlockLen, 0, 0, 0>>, <<Flags, 0, 0, 0>> >>)
    IN  /\ \A i \in 0..15 :
             Definition!Bits(SubSeq(xof, 4 * i + 1, 4 * i + 4)) = out[i]
        /\ Portable!store_cv_words(cv) = SubSeq(xof, 1, 32)

-----------------------------------------------------------------------------
(***************************************************************************)
(* The vector kernels, on so many inputs or words.                         *)
(***************************************************************************)
Inputs == [i \in 1..argument |-> [b \in 1..2 |->
             [k \in 1..64 |-> (i * 100 + b * 90 + k * 31) % 256]]]
KeyWords == [i \in 1..8 |-> <<i, 200, 255, 255>>]

\* However vsetvl cuts the inputs into batches, and whichever registers the
\* compiler chose, every input has one output and it is what that input alone
\* would get: nothing is skipped, repeated or taken from another lane.  Where
\* the first word is Stale nothing is known of it, and nothing claimed.
LanesKeepApart ==
  argument \in 1..MaxInputs =>
    \A build \in Builds :
      LET alone(i) == hash_many_vector(<<Inputs[i]>>, 2, KeyWords, 3, build)
          outcomes == hash_many_vector(Inputs, 2, KeyWords, 3, build)
      IN  /\ outcomes # {}
          /\ \A out \in outcomes :
               Len(out) = argument
                 /\ \A i \in 1..argument : alone(i) = {<<out[i]>>}

\* blake3_vector_opt.c takes num_inputs down by what it reads: it stops, every
\* word mixed into the lane of its column, if the words fill whole pairs of
\* registers, and never stops properly if no more than one is left at the end.
WholePairsEnd ==
  argument \in 1..MaxInputs =>
    \A o \in compress_riscv_vtype(argument) :
      /\ argument % (2 * VLMAX) = 0 =>
           /\ ~ o.wraps
           /\ \A i \in 1..(2 * VLMAX) :
                o.cv[i] = [j \in 1..(argument \div (2 * VLMAX)) |->
                             (j - 1) * 2 * VLMAX + i]
      /\ argument % (2 * VLMAX) \in 1..VLMAX => o.wraps

=============================================================================
