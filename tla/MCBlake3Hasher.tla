--------------------------- MODULE MCBlake3Hasher ---------------------------
(***************************************************************************)
(* Instances of Blake3Hasher for TLC: blocks of two bytes and chunks of    *)
(* two blocks, so that a chunk has a first, a last and a partial block.    *)
(***************************************************************************)
EXTENDS Blake3Hasher

\* Output blocks have 2 * OUT_LEN = 2 bytes: these requests start inside or
\* between blocks and end in the first, a later or no block.
MCSeeks == {0, 1, 2}
MCOutLens == {0, 1, 4}

\* One request is enough where the output is not the question.
NoSeeks == {0}
OneBlock == {2}

\* WF_vars(Step) with its ENABLED spelled out, which TLC is slow to evaluate:
\* a call in progress always has a step to take, and no step leaves all of the
\* variables as they are.
InCall == pc # "idle" \/ Deriving
Fairness == []<>(~ InCall) \/ []<><<Step>>_vars
FairSpec == Init /\ [][Next]_vars /\ Fairness

\* "If there are no bytes in the chunk state, then the top of the stack is a
\* chunk hash" (blake3.c:599-600): a reader of finalize would rely on the top
\* being the output of a chunk, whose last block carries CHUNK_END.
TopIsChunkHash ==
  pc = "idle" /\ chunk_state_len(chunk) = 0 /\ cv_stack_len > 0
    => "CHUNK_END" \in cv_stack[cv_stack_len - 1].flags

=============================================================================
