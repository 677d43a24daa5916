------------------------------- MODULE Words --------------------------------
(***************************************************************************)
(* Bytes and the 32-bit words of aes.c and blake3_portable.c.  A word is   *)
(* the sequence of its four bytes, least significant first: that is how    *)
(* both libraries read words from memory and write them back, so loading   *)
(* and storing cut and join sequences.                                     *)
(***************************************************************************)
EXTENDS Integers, Sequences

Byte == 0..255

\* x ^ y, bit by bit, for bytes.
XOR ==
  LET bits[pair \in Byte \X Byte] ==
        LET x == pair[1]
            y == pair[2]
        IN  IF x = 0 THEN y
            ELSE 2 * bits[<<x \div 2, y \div 2>>] + ((x + y) % 2)
  IN  [x \in Byte |-> [y \in Byte |-> bits[<<x, y>>]]]

ZeroWord == <<0, 0, 0, 0>>

\* A byte as the least significant one of a word.
ByteWord(b) == <<b, 0, 0, 0>>

\* v ^ w
xorw(v, w) ==
  <<XOR[v[1]][w[1]], XOR[v[2]][w[2]], XOR[v[3]][w[3]], XOR[v[4]][w[4]]>>

\* v + w, modulo 2^32: a carry goes from each byte to the next.
add(v, w) ==
  LET s1 == v[1] + w[1]
      s2 == v[2] + w[2] + (s1 \div 256)
      s3 == v[3] + w[3] + (s2 \div 256)
      s4 == v[4] + w[4] + (s3 \div 256)
  IN  <<s1 % 256, s2 % 256, s3 % 256, s4 % 256>>

\* (w >> c) | (w << (32 - c)), for 0 < c < 32.
rotate_right(w, c) ==
  LET source(i) == w[1 + ((i - 1 + (c \div 8)) % 4)]
      r == c % 8
      byte(i) == (source(i) \div 2 ^ r) + ((source(i + 1) * 2 ^ (8 - r)) % 256)
  IN  <<byte(1), byte(2), byte(3), byte(4)>>

\* The sequence f[0], ..., f[15], written out.
Sixteen(f) ==
  << f[0], f[1], f[2], f[3], f[4], f[5], f[6], f[7],
     f[8], f[9], f[10], f[11], f[12], f[13], f[14], f[15] >>

\* Word number i of a sequence of bytes, counting from 0, and the bytes of the
\* words w[0], ..., w[n-1].
load_word(bytes, i) == SubSeq(bytes, 4 * i + 1, 4 * i + 4)
store_words(w, n) == [i \in 1..(4 * n) |-> w[(i - 1) \div 4][1 + ((i - 1) % 4)]]

=============================================================================
