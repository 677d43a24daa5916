--------------------------- MODULE Blake3BitTricks --------------------------
(***************************************************************************)
(* The bit tricks of blake3_impl.h and blake3.c as the code performs them, *)
(* for builds whose compiler offers no builtin.                            *)
(***************************************************************************)
EXTENDS Blake3Bits

CONSTANT LogBits  \* a word has 2^LogBits bits; LogBits is 6 in the code

ASSUME LogBitsAssumption == LogBits \in Nat

\* 1 << i
power[i \in Nat] == IF i = 0 THEN 1 ELSE 2 * power[i - 1]

\* x & y
both[pair \in Nat \X Nat] ==
  IF pair[1] = 0 THEN 0
  ELSE 2 * both[<<pair[1] \div 2, pair[2] \div 2>>]
         + (pair[1] % 2) * (pair[2] % 2)

\* Wrong on purpose: x is shifted, so zeros below the top bit count too.
shift_out(x) == x \div 2

\* while (x != 0) { count += 1; x &= x - 1; }
clear_lowest(x) == both[<<x, x - 1>>]

popcnt_loop[x \in Nat] ==
  IF x = 0 THEN 0 ELSE 1 + popcnt_loop[clear_lowest(x)]

\* The binary search for the highest bit.  A stage looks at the upper half of
\* the 2s bits that are still in question: the mask is s ones and s zeros.
upper_half(s) == power[s] * (power[s] - 1)

stage(so_far, s) ==
  IF both[<<so_far.x, upper_half(s)>>] # 0
  THEN [x |-> so_far.x \div power[s], c |-> so_far.c + s]
  ELSE so_far

\* s is 32, 16, 8, 4, 2 and 1 in the code.
highest_one(x) ==
  LET search[i \in 0..LogBits] ==
        IF i = 0 THEN [x |-> x, c |-> 0]
        ELSE stage(search[i-1], power[LogBits - i])
  IN  search[LogBits].c

\* 1ULL << highest_one(x | 1)
round_down(x) == power[highest_one(x + 1 - (x % 2))]

\* Wrong on purpose: the mask is the length itself.
misaligned_mask(subtree_len, count_so_far) ==
  both[<<subtree_len, count_so_far>>] # 0

\* (((uint64_t)(subtree_len - 1)) & count_so_far) != 0
misaligned(subtree_len, count_so_far) ==
  both[<<subtree_len - 1, count_so_far>>] # 0

=============================================================================
