------------------------------ MODULE GcmMult -------------------------------
(***************************************************************************)
(* The multiplication by H of gcm.c, by tables of sixteen products.  A     *)
(* uint64_t is the set of the positions of its one bits, a 128-bit value   *)
(* the pair of its halves (HH or zh, and HL or zl), a block the sequence   *)
(* of its sixteen bytes.                                                   *)
(***************************************************************************)
EXTENDS Integers, Sequences, FiniteSets

\* v ^ w, v >> n and v << n, kept to 64 bits.
xor64(v, w) == (v \ w) \cup (w \ v)
shr64(v, n) == {p - n : p \in {q \in v : q >= n}}
shl64(v, n) == {p + n : p \in {q \in v : q + n < 64}}

ZeroPair == [hi |-> {}, lo |-> {}]
xor_pair(a, b) == [hi |-> xor64(a.hi, b.hi), lo |-> xor64(a.lo, b.lo)]

\* The one bits of a number of up to 16 bits.
bits_of(n) == {p \in 0..15 : (n \div 2 ^ p) % 2 = 1}

\* GET_UINT32_BE twice, the first word into the high half of a uint64_t.
get_uint64_be(b, i) ==
  UNION {shl64(bits_of(b[i + j]), 8 * (8 - j)) : j \in 1..8}

block_pair(b) == [hi |-> get_uint64_be(b, 0), lo |-> get_uint64_be(b, 8)]

\* PUT_UINT32_BE of both halves of zh, then of zl.
byte_of(v, j) ==
  LET bit(p) == IF (8 * (7 - j) + p) \in v THEN 2 ^ p ELSE 0
  IN  bit(0) + bit(1) + bit(2) + bit(3) + bit(4) + bit(5) + bit(6) + bit(7)

put_pair(z) ==
  << byte_of(z.hi, 0), byte_of(z.hi, 1), byte_of(z.hi, 2), byte_of(z.hi, 3),
     byte_of(z.hi, 4), byte_of(z.hi, 5), byte_of(z.hi, 6), byte_of(z.hi, 7),
     byte_of(z.lo, 0), byte_of(z.lo, 1), byte_of(z.lo, 2), byte_of(z.lo, 3),
     byte_of(z.lo, 4), byte_of(z.lo, 5), byte_of(z.lo, 6), byte_of(z.lo, 7) >>

\* last4[rem] << 48, indexed from 1.
last4 ==
  LET table == << 0, 7200, 14400, 9312, 28800, 27808, 18624, 21728,
                  57600, 64800, 55616, 50528, 37248, 36256, 43456, 46560 >>
  IN  [r \in 1..16 |-> shl64(bits_of(table[r]), 48)]

-----------------------------------------------------------------------------
\* One bit to the right; a bit that falls out comes back as 0xe1 at the top.
half(v) ==
  [hi |-> xor64(shr64(v.hi, 1), IF 0 \in v.lo THEN {63, 62, 61, 56} ELSE {}),
   lo |-> shl64(v.hi, 63) \cup shr64(v.lo, 1)]

\* HH[i + j] and HL[i + j] for 0 <= j < i, from the entries below i.
upper_half(v, below) ==
  <<v>> \o [j \in 1..(Len(below) - 1) |-> xor_pair(v, below[j + 1])]

\* HH and HL for the block h, indexed from 1: entry 8 is h itself, entries 4,
\* 2 and 1 its halves.
mult_tables(h) ==
  LET v8 == block_pair(h)
      v4 == half(v8)
      v2 == half(v4)
      v1 == half(v2)
      to1  == <<ZeroPair, v1>>
      to3  == to1 \o upper_half(v2, to1)
      to7  == to3 \o upper_half(v4, to3)
  IN  to7 \o upper_half(v8, to7)

\* Nibble k of x from its end: of each byte the low one first.
nibble(x, k) ==
  LET byte == x[16 - (k \div 2)]
  IN  IF k % 2 = 0 THEN byte % 16 ELSE byte \div 16

\* Wrong on purpose: the bits that fall out of zl are lost.
shift4_lossy(z) ==
  [hi |-> shr64(z.hi, 4), lo |-> shl64(z.hi, 60) \cup shr64(z.lo, 4)]

\* rem and the four lines that follow it.
shift4(z) ==
  LET rem == z.lo \cap {0, 1, 2, 3}
      r == (CHOOSE n \in 0..15 : bits_of(n) = rem)
  IN  [hi |-> xor64(shr64(z.hi, 4), last4[r + 1]),
       lo |-> shl64(z.hi, 60) \cup shr64(z.lo, 4)]

gcm_mult(tables, x) ==
  LET z[k \in 0..31] ==
        IF k = 0 THEN tables[nibble(x, 0) + 1]
        ELSE LET before == z[k-1]
             IN  xor_pair(shift4(before), tables[nibble(x, k) + 1])
  IN  put_pair(z[31])

-----------------------------------------------------------------------------
(***************************************************************************)
(* The product as the mode defines it: bit i of a block, the leftmost bit  *)
(* first, is the coefficient of x^i, and polynomials over GF(2) are taken  *)
(* modulo x^128 + x^7 + x^2 + x + 1.                                       *)
(***************************************************************************)
Coefficients(b) ==
  {n \in 0..127 : (7 - (n % 8)) \in bits_of(b[1 + (n \div 8)])}

PolynomialProduct(P, Q) ==
  {n \in 0..254 : Cardinality({a \in P : (n - a) \in Q}) % 2 = 1}

\* x^128 is x^7 + x^2 + x + 1; twice, as the first time leaves degree 133.
Reduced(P) ==
  LET high == {n - 128 : n \in {m \in P : m >= 128}}
  IN  xor64(P \cap (0..127), PolynomialProduct(high, {0, 1, 2, 7}))

FieldProduct(P, Q) == Reduced(Reduced(PolynomialProduct(P, Q)))

=============================================================================
