------------------------- MODULE MCBlake3Algorithms -------------------------
(***************************************************************************)
(* The enumeration of Blake3Algorithms, the one fact about the compression *)
(* function that no definition of this project can give, that its          *)
(* constants are BLAKE3's, and what a comment says of a vector kernel.     *)
(***************************************************************************)
EXTENDS Blake3Algorithms

\* The published hash of the empty input.
HashOfNothing ==
  << 175, 19, 73, 185, 245, 249, 161, 166, 160, 64, 77, 234, 54, 220, 201, 73,
     155, 203, 37, 201, 173, 193, 18, 183, 204, 154, 147, 202, 228, 31, 50, 98 >>

\* One block of no bytes: the start and the end of a chunk, and the root.
ASSUME EmptyIsKnown ==
  LET zeros(n) == [i \in 1..n |-> 0]
      chunk_start_end_root == 11
      xof == Portable!compress_xof(Portable!IV, zeros(64), 0, zeros(8),
                                   chunk_start_end_root)
  IN  SubSeq(xof, 1, 32) = HashOfNothing

\* "cv0 = (cv0 XOR word0) + flags" (blake3_vector.c:23): in every lane of a
\* register, as some build at least would compute it for the first blocks.
VectorMixes ==
  argument \in 1..VLMAX =>
    LET cv0   == [i \in 1..argument |-> KeyWords[1]]
        words == [i \in 1..argument |-> load_word(Inputs[i][1], 0)]
    IN  \E build \in Builds :
          compress_in_place_vector(cv0, words, 3, build)
            = [i \in 1..argument |-> add(xorw(cv0[i], words[i]), ByteWord(3))]

=============================================================================
