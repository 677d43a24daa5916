----------------------------- MODULE Blake3Bits -----------------------------
(***************************************************************************)
(* The integer helpers of blake3_impl.h that decide the shape of the hash  *)
(* tree: popcnt, and round_down_to_power_of_2 with the highest_one it is   *)
(* built on.  Both are recursive functions on Nat, halving their argument, *)
(* so that Blake3TreeProofs can reason about them.                         *)
(***************************************************************************)
EXTENDS Integers

\* The number of 1 bits of x.
popcnt[x \in Nat] ==
  IF x = 0 THEN 0 ELSE popcnt[x \div 2] + (x % 2)

\* 1 << highest_one(x | 1): the largest power of two that is at most x, and
\* 1 when x is 0.  Each halving of x shifts the highest bit down by one.
round_down_to_power_of_2[x \in Nat] ==
  IF x <= 1 THEN 1 ELSE 2 * round_down_to_power_of_2[x \div 2]

\* A power of two has a single 1 bit.
IsPow2(x) == x \in Nat /\ popcnt[x] = 1

=============================================================================
