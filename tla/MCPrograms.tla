----------------------------- MODULE MCPrograms -----------------------------
(***************************************************************************)
(* The programs of the repository, each a process of its own: callers of   *)
(* the one-call client and main_encrypt.c on inputs of nothing, of less    *)
(* than a block and of two blocks of three bytes; the test program on      *)
(* files of up to three records, right and wrong; the two hashing programs *)
(* on up to five bytes.                                                    *)
(***************************************************************************)
EXTENDS AesGcm, GcmTest, HashFile

CONSTANTS k1, k2, k3

Bytes(name, n) == [i \in 1..n |-> {[data |-> name, at |-> i]}]
Zeros(n) == [i \in 1..n |-> {}]

MCKeySizes == {16, 24, 32}
MCHashedCounter(blocks) == [i \in 1..CTR_LEN |-> BYTE - 1]
MCGarbage == {[data |-> "garbage", at |-> 1]}

\* The client: the last key has no legal size.
MCKeys == {[name |-> k1, size |-> 16], [name |-> k2, size |-> 32],
           [name |-> k3, size |-> 20]}
MCIVs == {Bytes("iv", 1), Bytes("iv", 2), Zeros(3), Zeros(4)}
MCTexts == {<<>>, Bytes("text", 2), Zeros(6)}
MCFileKey == [name |-> "zeros", size |-> 16]
MCFileIV == Zeros(IV_LEN)

\* The records of the test files.
MCKey == [name |-> "key", size |-> 24]
ShortKey == [name |-> "short", size |-> 20]

Record(type, key, iv, aad, pt, tag_len) ==
  LET ct == Crypt(key, iv, pt)
  IN  [type |-> type, key |-> key, iv |-> iv, aad |-> aad, pt |-> pt, ct |-> ct,
       tag |-> Tag(key, iv, aad, ct, tag_len)]

Native == Bytes("iv", 1)
Hashed == Zeros(4)
Text == Bytes("text", 5)

Right ==
  {Record(type, MCKey, iv, aad, pt, 3) :
     type \in {1, 2}, iv \in {Native, Hashed}, aad \in {<<>>, Bytes("aad", 2)},
     pt \in {<<>>, Text}}

Flipped(bytes) == [bytes EXCEPT ![1] = xor(@, {[data |-> "flip", at |-> 0]})]
One == Record(1, MCKey, Native, <<>>, Text, 2)

\* Of every kind: a wrong tag, a wrong text, a key of no size, a mistake where
\* a failure is expected, a type that is not one.
Odd ==
  {[One EXCEPT !.type = t, !.tag = Flipped(@)] : t \in {1, 2, 3}}
  \cup {[One EXCEPT !.type = t, !.ct = Flipped(@)] : t \in {1, 2, 3}}
  \cup {[One EXCEPT !.type = t, !.pt = Flipped(@)] : t \in {1, 2}}
  \cup {[One EXCEPT !.type = t, !.key = ShortKey] : t \in {1, 2, 3}}
  \cup {[One EXCEPT !.type = t] : t \in {3, 4}}

MCTestFiles ==
  {<<>>} \cup {<<r, One>> : r \in Right} \cup {<<One, r, One>> : r \in Odd}

MCHashedFiles == {Bytes("file", n) : n \in 0..5}

\* One of the processes runs.
VARIABLE runs

vars == <<clientVars, testVars, hashVars, runs>>

Init ==
  /\ runs \in {"client", "gcmtest", "hash"}
  /\ ClientInit /\ TestInit /\ HashInit
  /\ runs # "client" => program = "caller"
  /\ runs # "hash" => hasher = "example" /\ content = <<>>

Next ==
  \/ runs = "client" /\ ClientNext /\ UNCHANGED <<testVars, hashVars, runs>>
  \/ runs = "gcmtest" /\ TestNext /\ UNCHANGED <<clientVars, hashVars, runs>>
  \/ runs = "hash" /\ HashNext /\ UNCHANGED <<clientVars, testVars, runs>>

Spec == Init /\ [][Next]_vars

=============================================================================
