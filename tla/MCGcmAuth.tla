----------------------------- MODULE MCGcmAuth ------------------------------
(***************************************************************************)
(* Instances of GcmAuth for TLC: blocks of three bytes, texts and          *)
(* additional data around one block, some of them all zeros.               *)
(***************************************************************************)
EXTENDS GcmAuth

Bytes(name, n) == [i \in 1..n |-> {[data |-> name, at |-> i]}]
Zeros(n) == [i \in 1..n |-> {}]

MCKeySizes == {16, 24, 32}
MCKey == [name |-> "key", size |-> 16]
MCIVs == {Bytes("iv", 1), Zeros(4)}
MCHashedCounter(blocks) == [i \in 1..CTR_LEN |-> BYTE - 1]
MCAdds == {<<>>, Bytes("add", 2), Zeros(3)}
MCTexts == {<<>>, Bytes("text", 5), Zeros(1)}
MCTagLens == {1, 3}
MCNoise == {[data |-> "noise", at |-> 0]}

=============================================================================
