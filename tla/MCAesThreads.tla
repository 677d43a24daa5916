---------------------------- MODULE MCAesThreads ----------------------------
(***************************************************************************)
(* Main sets keys of every size, and one of none, in both modes, and one   *)
(* for GCM; it enciphers, also two blocks at once, and multiplies.         *)
(* Another thread sets a key for GCM and enciphers.                        *)
(***************************************************************************)
EXTENDS AesThreads

CONSTANTS main, other

MCThreads == {main, other}

Counting(n) == [i \in 1..n |-> i - 1]
Falling(n) == [i \in 1..n |-> (255 - 7 * i) % 256]
Zero(n) == [i \in 1..n |-> 0]

MCSetups ==
  {[thread |-> main, call |-> "aes_setkey", mode |-> mode, key |-> key] :
     mode \in {"ENCRYPT", "DECRYPT"},
     key \in {Counting(16), Counting(24), Falling(32), Counting(8)}}
  \cup {[thread |-> main, call |-> "gcm_setkey", mode |-> "ENCRYPT", key |-> Zero(16)]}
  \cup {[thread |-> other, call |-> "gcm_setkey", mode |-> "ENCRYPT", key |-> key] :
          key \in {Falling(16), Falling(20)}}

\* In these blocks every nibble takes every value.
Turned(n) == [i \in 1..16 |-> ((n + 2 * i) % 16) + 16 * ((3 * n + i) % 16)]

MCWorks ==
  {[thread |-> main, call |-> "aes_cipher", bytes |-> bytes] :
     bytes \in {[i \in 1..16 |-> 17 * (i - 1)], Falling(16)}}
  \cup {[thread |-> main, call |-> name, bytes |-> Falling(32)] :
          name \in {"aes_cipher_avx2", "aes_cipher_vtype"}}
  \cup {[thread |-> main, call |-> "gcm_mult", bytes |-> Turned(n)] : n \in 0..15}
  \cup {[thread |-> other, call |-> "aes_cipher", bytes |-> Counting(16)]}

=============================================================================
