------------------------------- MODULE MCGcm --------------------------------
(***************************************************************************)
(* Instances of Gcm for TLC: blocks of three bytes, of which two are the   *)
(* counter.  A byte has two values, so that a counter has four.            *)
(***************************************************************************)
EXTENDS Gcm

CONSTANTS k1, k2, k3

Byte(name, i) == {[data |-> name, at |-> i]}
Bytes(name, n) == [i \in 1..n |-> Byte(name, i)]

\* Legal sizes, and one that is not.
MCKeySizes == {16, 24, 32}
MCKeys == {[name |-> k1, size |-> 16], [name |-> k2, size |-> 32],
           [name |-> k3, size |-> 20]}

\* Of one byte: used as it is.  Longer ones are hashed, and their counters
\* begin just before it wraps and in the middle.  A word can just count the
\* bits of the longest.
MCIVs == {Bytes("iv", 1), Bytes("iv", 2), [i \in 1..7 |-> {}], <<>>}
MCHashedCounter(blocks) ==
  IF blocks = <<>> THEN ZeroCounter
  ELSE [i \in 1..CTR_LEN |-> IF Len(blocks) = 1 \/ i = 1 THEN BYTE - 1 ELSE 0]

\* Nothing, part of a block, a block and a part; and zeros, which a hash can
\* only tell apart by their number.
MCAdds == {<<>>, Bytes("add", 2), Bytes("add", 4), <<{}>>, <<{}, {}, {}, {}>>}

MCContents == {Bytes("data", MaxLen), [i \in 1..MaxLen |-> {}]}
MCTagLens == {1, 3}

=============================================================================
