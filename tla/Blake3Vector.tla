---------------------------- MODULE Blake3Vector ----------------------------
(***************************************************************************)
(* The two kernels written for the RISC-V vector extension.  Neither is    *)
(* the compression function, as the comments of blake3_vector.c say: what  *)
(* they do is work on several lanes at a time, as many as vsetvl grants.   *)
(* Inputs, words and lanes are sequences indexed from 1.                   *)
(***************************************************************************)
EXTENDS Words

CONSTANTS VLMAX,  \* lanes of a vector register, at least one
          Stale   \* what a register holds of which nothing is known

ASSUME VlmaxAssumption == VLMAX \in Nat \ {0}

\* What vsetvl may return when n lanes are asked for: between one and two
\* registers' worth the hardware is free to halve the work.
vsetvl(n) ==
  IF n <= VLMAX THEN {n}
  ELSE IF n >= 2 * VLMAX THEN {VLMAX}
  ELSE ((n + 1) \div 2)..VLMAX

-----------------------------------------------------------------------------
(***************************************************************************)
(* blake3_vector.c.  An input is a sequence of blocks, of which only the   *)
(* first word is used; an output is the eight words of a chaining value.   *)
(* The counter is stepped but reaches nothing.  The vector length that     *)
(* vxor and vadd are given is 0, so that they compute no lane: a lane of   *)
(* their result is what their destination register held before, and which  *)
(* register that is was the compiler's choice.  The 0 that the loads and   *)
(* stores of lines 22 and 74 to 81 are given beside their own vector       *)
(* length fits no such intrinsic, and is left out here.                    *)
(***************************************************************************)
mixed_lanes == 0

\* Builds differ in the destination of either operation: the register of its
\* first operand, that of its second, or another one.
Destinations == {"first", "second", "other"}
Builds == [vxor : Destinations, vadd : Destinations]

\* What the destination held before, from one lane to the same lane.
kept(destination, first, second) ==
  CASE destination = "first"  -> first
    [] destination = "second" -> second
    [] OTHER                  -> Stale

\* Lane i of a result, of which value is what the operation computes.
lane(i, value, destination, first, second) ==
  IF i <= mixed_lanes THEN value ELSE kept(destination, first, second)

compress_in_place_vector(cv0, words, flags, build) ==
  LET v_flags == ByteWord(flags)
      xored(i) == lane(i, xorw(cv0[i], words[i]), build.vxor, cv0[i], words[i])
  IN  [i \in 1..Len(cv0) |->
         lane(i, add(xored(i), v_flags), build.vadd, xored(i), v_flags)]

\* One batch: the inputs from number done + 1 on, vl of them, block by block.
batch(inputs, done, vl, blocks, key, flags, build) ==
  LET cv0[b \in 0..blocks] ==
        IF b = 0 THEN [i \in 1..vl |-> key[1]]
        ELSE compress_in_place_vector(
               cv0[b-1], [i \in 1..vl |-> load_word(inputs[done + i][b], 0)],
               flags, build)
  IN  [i \in 1..vl |-> <<cv0[blocks][i]>> \o Tail(key)]

\* Wrong on purpose: the inputs move on by a full register.
next_by_register(done, vl) == done + VLMAX

next_batch(done, vl) == done + vl

\* The outputs of all the inputs, one sequence for every course the batches
\* can take.
hash_many_vector(inputs, blocks, key, flags, build) ==
  LET n == Len(inputs)
      outputs[done \in 0..n] ==
        IF done = n THEN {<<>>}
        ELSE UNION {{batch(inputs, done, vl, blocks, key, flags, build) \o rest :
                       rest \in IF next_batch(done, vl) \in 0..n
                                THEN outputs[next_batch(done, vl)] ELSE {}} :
                    vl \in vsetvl(n - done)}
  IN  outputs[0]

-----------------------------------------------------------------------------
(***************************************************************************)
(* blake3_vector_opt.c.  A step mixes two registers of words of block into *)
(* the first words of cv, always the same ones; a lane is kept here as the *)
(* numbers of the words mixed into it.  num_inputs goes down by both       *)
(* registers: where that is more than is left, it wraps around, and the    *)
(* loop runs on far beyond the arrays.                                     *)
(***************************************************************************)
CvLanes == 1..(2 * VLMAX)

\* Wrong on purpose: the count goes down by one register only.
words_of_one_register(vl) == vl

words_of_step(vl) == 2 * vl

\* How the call can end for n words, one outcome for every course.
compress_riscv_vtype(n) ==
  LET ended[left \in 0..n] ==
        IF left = 0 THEN {[wraps |-> FALSE, cv |-> [i \in CvLanes |-> <<>>]]}
        ELSE UNION {
               IF words_of_step(vl) > left
               THEN {[wraps |-> TRUE, cv |-> [i \in CvLanes |-> <<>>]]}
               ELSE {[wraps |-> o.wraps,
                      cv |-> [i \in CvLanes |->
                                (IF i <= 2 * vl THEN <<n - left + i>> ELSE <<>>)
                                  \o o.cv[i]]] :
                       o \in ended[left - words_of_step(vl)]} :
               vl \in vsetvl(left)}
  IN  ended[n]

=============================================================================
