----------------------------- MODULE Blake3Hash -----------------------------
(***************************************************************************)
(* What a blake3_hasher promises its caller, without chunks, buffers or a  *)
(* stack: it remembers the bytes absorbed since it was last (re)started    *)
(* and under which key, and a digest is the output of the BLAKE3 tree over *)
(* exactly those bytes.  Deriving a key is two hashes: the context is      *)
(* absorbed under the IV, and its digest becomes the key of the second.    *)
(***************************************************************************)
EXTENDS Blake3Tree

CONSTANTS IV,       \* the initialisation vector, the key of unkeyed hashing
          Keys,     \* the caller's keys
          Seeks,    \* the output offsets a caller asks for
          OutLens   \* and how many bytes it asks for

VARIABLES key,      \* the key in force
          flags,    \* the mode flags in force
          message,  \* the bytes absorbed
          out       \* what the last call returned, <<>> if nothing

hashVars == <<key, flags, message, out>>

Deriving == flags = {"DERIVE_KEY_CONTEXT"}

Start(k, f) ==
  /\ key' = k
  /\ flags' = f
  /\ message' = <<>>
  /\ out' = <<>>

HashInit ==
  /\ <<key, flags>> \in {<<IV, {}>>} \cup (Keys \X {{"KEYED_HASH"}})
  /\ message = <<>>
  /\ out = <<>>

Restart ==
  /\ ~ Deriving
  /\ \/ Start(IV, {})
     \/ \E k \in Keys : Start(k, {"KEYED_HASH"})

\* The context string is handed over as a whole.
DeriveContext ==
  /\ ~ Deriving
  /\ key' = IV
  /\ flags' = {"DERIVE_KEY_CONTEXT"}
  /\ message' \in Seq(Nat \X Nat)
  /\ out' = <<>>

DeriveMaterial ==
  /\ Deriving
  /\ Start(RootBytes(key, flags, message, 0, OUT_LEN),
           {"DERIVE_KEY_MATERIAL"})

\* The message grows at its end, or, on an empty call, stays as it is.
Absorb ==
  /\ ~ Deriving
  /\ message' \in Seq(Nat \X Nat)
  /\ Len(message) <= Len(message')
  /\ SubSeq(message', 1, Len(message)) = message
  /\ out' = <<>>
  /\ UNCHANGED <<key, flags>>

Digest(seek, n) ==
  /\ ~ Deriving
  /\ out' = RootBytes(key, flags, message, seek, n)
  /\ UNCHANGED <<key, flags, message>>

Rewind == ~ Deriving /\ Start(key, flags)

HashNext ==
  \/ Restart
  \/ DeriveContext
  \/ DeriveMaterial
  \/ Absorb
  \/ \E seek \in Seeks, n \in OutLens : Digest(seek, n)
  \/ Rewind

HashSpec == HashInit /\ [][HashNext]_hashVars

=============================================================================
