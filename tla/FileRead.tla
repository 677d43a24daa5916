------------------------------ MODULE FileRead ------------------------------
(***************************************************************************)
(* How the programs get at the bytes of a file: fseek and ftell give its   *)
(* length, malloc a buffer of that length, and fread fills it as far as it *)
(* comes; what it did not fill holds anything.                             *)
(***************************************************************************)
EXTENDS Integers, Sequences

CONSTANT Garbage  \* what uninitialised memory holds

buffer_after(content, n) ==
  [i \in 1..Len(content) |-> IF i <= n THEN content[i] ELSE Garbage]

=============================================================================
