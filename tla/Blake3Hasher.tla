---------------------------- MODULE Blake3Hasher ----------------------------
(***************************************************************************)
(* blake3_hasher: the incremental hasher of blake3.c, one step per loop    *)
(* iteration.  The state is the struct (key, chunk, cv_stack_len,          *)
(* cv_stack) and the locals of the blake3_hasher_update call in progress.  *)
(*                                                                         *)
(* A call runs from pc = "idle" back to "idle":                            *)
(*   fill    complete the partial chunk left by an earlier call            *)
(*   loop    the head of while (input_len > BLAKE3_CHUNK_LEN)              *)
(*   shrink  the head of the inner loop that halves subtree_len            *)
(*   merge   hasher_push_cv: merge, then push, each cv of `pushes`         *)
(*   pushed  the pushes are done                                           *)
(*   tail    the final hasher_merge_cv_stack                               *)
(* Byte i of message m is <<m, i>>: a (re)started hasher takes the bytes   *)
(* of the next message, so that what an earlier one left behind shows.     *)
(***************************************************************************)
EXTENDS Blake3Wide, Blake3Tree

CONSTANTS IV,           \* the initialisation vector
          Keys,         \* keys of keyed hashing
          MAX_DEPTH,    \* BLAKE3_MAX_DEPTH: the stack has one slot more
          MaxChunks,    \* bound: chunks a message may hold
          MaxMessages,  \* bound: how often the hasher is (re)started
          Seeks,        \* bound: output offsets asked for
          OutLens       \* bound: output lengths asked for

(***************************************************************************)
(* BLAKE3_MAX_DEPTH is 54 because a message has fewer than 2^64 bytes,     *)
(* 2^54 chunks: it is the number of 1 bits a chunk counter can have.       *)
(***************************************************************************)
ASSUME DepthAssumption ==
  /\ MAX_DEPTH \in Nat
  /\ IsPow2(MaxChunks)
  /\ popcnt[MaxChunks - 1] <= MAX_DEPTH
  /\ MaxMessages \in Nat
  /\ Seeks \subseteq Nat
  /\ OutLens \subseteq Nat

VARIABLES key, chunk, cv_stack_len, cv_stack,   \* the struct
          pc, input_len, subtree_len, pushes,   \* update's locals
          caller_stack,  \* the cv_stack of the hasher a key is derived for
          msg, fed,      \* history: the message, and how much of it was fed
          out            \* what the last call wrote to its caller

struct == <<key, chunk, cv_stack_len, cv_stack>>
locals == <<input_len, subtree_len, pushes>>
vars == <<struct, pc, locals, caller_stack, msg, fed, out>>

Slots == 0..MAX_DEPTH
MaxLen == MaxChunks * CHUNK_LEN

Bytes(from, n) == [i \in 1..n |-> <<msg, from + i>>]

\* What the call in progress has not consumed yet.
input(n) == Bytes(fed - input_len, n)

flags == chunk.flags

\* The context hasher of init_derive_key_raw is a local of that call: the
\* caller can do nothing until its key is derived.
Deriving == flags = {"DERIVE_KEY_CONTEXT"}
Callable == pc = "idle" /\ ~ Deriving

-----------------------------------------------------------------------------
(***************************************************************************)
(* Initialisation                                                          *)
(***************************************************************************)
GarbageStack == [i \in Slots |-> Garbage]
ZeroStack == [i \in Slots |-> Zero]

\* blake3_hasher_init clears the struct first; init_keyed does not.
Init ==
  /\ \/ key = IV /\ chunk = chunk_state_init(IV, {}) /\ cv_stack = ZeroStack
     \/ /\ key \in Keys
        /\ chunk = chunk_state_init(key, {"KEYED_HASH"})
        /\ cv_stack = GarbageStack
  /\ cv_stack_len = 0
  /\ pc = "idle"
  /\ input_len = 0 /\ subtree_len = 0 /\ pushes = <<>>
  /\ caller_stack = <<>>
  /\ msg = 1 /\ fed = 0
  /\ out = <<>>

hasher_init_base(k, f) ==
  /\ key' = k
  /\ chunk' = chunk_state_init(k, f)
  /\ cv_stack_len' = 0

NextMessage ==
  /\ msg < MaxMessages
  /\ msg' = msg + 1

blake3_hasher_init ==
  /\ Callable
  /\ NextMessage
  /\ hasher_init_base(IV, {})
  /\ cv_stack' = ZeroStack
  /\ fed' = 0 /\ out' = <<>>
  /\ UNCHANGED <<pc, locals, caller_stack>>

blake3_hasher_init_keyed(k) ==
  /\ Callable
  /\ NextMessage
  /\ hasher_init_base(k, {"KEYED_HASH"})
  /\ fed' = 0 /\ out' = <<>>
  /\ UNCHANGED <<cv_stack, pc, locals, caller_stack>>

blake3_hasher_reset ==
  /\ Callable
  /\ NextMessage
  /\ chunk' = chunk_state_reset(chunk, key, 0)
  /\ cv_stack_len' = 0
  /\ fed' = 0 /\ out' = <<>>
  /\ UNCHANGED <<key, cv_stack, pc, locals, caller_stack>>

\* The derivation of a key begins: a local hasher takes the n bytes of the
\* context; its stack is fresh memory, the caller's waits in caller_stack.
\* The context is one message, what is hashed under the derived key another.
init_derive_key_raw(n) ==
  /\ Callable
  /\ msg + 1 < MaxMessages
  /\ msg' = msg + 1
  /\ hasher_init_base(IV, {"DERIVE_KEY_CONTEXT"})
  /\ cv_stack' = GarbageStack
  /\ caller_stack' = cv_stack
  /\ fed' = n /\ out' = <<>>
  /\ input_len' = n
  /\ pc' = IF n = 0 THEN "idle" ELSE "loop"
  /\ UNCHANGED <<subtree_len, pushes>>

-----------------------------------------------------------------------------
(***************************************************************************)
(* blake3_hasher_finalize_seek                                             *)
(***************************************************************************)
\* up[i] is the output once only the i lowest entries of the stack remain.
roll_up(output, cvs_remaining) ==
  LET up[i \in 0..cvs_remaining] ==
        IF i = cvs_remaining THEN output
        ELSE parent_output(
               ParentBlock(cv_stack[i], output_chaining_value(up[i+1])),
               key, flags)
  IN  up[0]

root_output ==
  IF cv_stack_len = 0 THEN chunk_state_output(chunk)
  ELSE IF chunk_state_len(chunk) > 0
  THEN roll_up(chunk_state_output(chunk), cv_stack_len)
  ELSE roll_up(parent_output(ParentBlock(cv_stack[cv_stack_len - 2],
                                         cv_stack[cv_stack_len - 1]),
                             key, flags),
               cv_stack_len - 2)

blake3_hasher_finalize_seek(seek, out_len) ==
  /\ Callable
  /\ out' = IF out_len = 0 THEN <<>>
            ELSE output_root_bytes(root_output, seek, out_len)
  /\ UNCHANGED <<struct, pc, locals, caller_stack, msg, fed>>

\* The context's digest becomes the key of the hasher the caller asked for.
derive_key_material ==
  /\ pc = "idle" /\ Deriving
  /\ hasher_init_base(output_root_bytes(root_output, 0, OUT_LEN),
                      {"DERIVE_KEY_MATERIAL"})
  /\ cv_stack' = caller_stack
  /\ caller_stack' = <<>>
  /\ msg' = msg + 1 /\ fed' = 0 /\ out' = <<>>
  /\ UNCHANGED <<pc, locals>>

-----------------------------------------------------------------------------
(***************************************************************************)
(* blake3_hasher_update                                                    *)
(***************************************************************************)
\* The call, up to the test for a partial chunk.  No input is no call at all.
blake3_hasher_update(n) ==
  /\ Callable
  /\ fed + n <= MaxLen
  /\ fed' = fed + n /\ out' = <<>>
  /\ input_len' = n
  /\ pc' = IF n = 0 THEN "idle"
           ELSE IF chunk_state_len(chunk) > 0 THEN "fill" ELSE "loop"
  /\ UNCHANGED <<struct, subtree_len, pushes, caller_stack, msg>>

\* The partial chunk takes what it can; if input is left the chunk is full,
\* and not the last one, so its chaining value goes to the stack.
FillChunk ==
  LET room  == CHUNK_LEN - chunk_state_len(chunk)
      take  == IF room > input_len THEN input_len ELSE room
      full  == chunk_state_update(chunk, input(take))
      cv    == output_chaining_value(chunk_state_output(full))
  IN  /\ pc = "fill"
      /\ chunk' = full
      /\ input_len' = input_len - take
      /\ IF input_len > take
         THEN /\ pushes' = <<[cv |-> cv, at |-> chunk.chunk_counter]>>
              /\ pc' = "merge"
         ELSE pc' = "idle" /\ UNCHANGED pushes
      /\ UNCHANGED <<key, cv_stack_len, cv_stack, subtree_len, caller_stack,
                     msg, fed, out>>

\* Wrong on purpose: the next chunk gets the number of the one completed.
ResetSameNumber ==
  /\ pc = "pushed" /\ chunk_state_len(chunk) > 0
  /\ chunk' = chunk_state_reset(chunk, key, chunk.chunk_counter)
  /\ pc' = "loop"
  /\ UNCHANGED <<key, cv_stack_len, cv_stack, locals, caller_stack, msg, fed,
                 out>>

ResetChunk ==
  /\ pc = "pushed" /\ chunk_state_len(chunk) > 0
  /\ chunk' = chunk_state_reset(chunk, key, chunk.chunk_counter + 1)
  /\ pc' = "loop"
  /\ UNCHANGED <<key, cv_stack_len, cv_stack, locals, caller_stack, msg, fed,
                 out>>

(***************************************************************************)
(* hasher_merge_cv_stack and hasher_push_cv.  Entry i of the C array is    *)
(* cv_stack[i]; what lies at or above cv_stack_len is never cleared.       *)
(***************************************************************************)
\* Wrong on purpose: the stack only grows; or it is merged one entry too far.
NeverMerge(chunk_counter) == FALSE
MergeTooFar(chunk_counter) == cv_stack_len >= popcnt[chunk_counter]

MergeNeeded(chunk_counter) == cv_stack_len > popcnt[chunk_counter]

MergeTop ==
  /\ cv_stack' = [cv_stack EXCEPT ![cv_stack_len - 2] =
                    parent_cv(cv_stack[cv_stack_len - 2],
                              cv_stack[cv_stack_len - 1], key, flags)]
  /\ cv_stack_len' = cv_stack_len - 1

MergeBeforePush ==
  /\ pc = "merge" /\ MergeNeeded(Head(pushes).at)
  /\ MergeTop
  /\ UNCHANGED <<key, chunk, pc, locals, caller_stack, msg, fed, out>>

PushCV ==
  /\ pc = "merge" /\ ~ MergeNeeded(Head(pushes).at)
  /\ cv_stack' = [cv_stack EXCEPT ![cv_stack_len] = Head(pushes).cv]
  /\ cv_stack_len' = cv_stack_len + 1
  /\ pushes' = Tail(pushes)
  /\ pc' = IF Len(pushes) = 1 THEN "pushed" ELSE "merge"
  /\ UNCHANGED <<key, chunk, input_len, subtree_len, caller_stack, msg, fed,
                 out>>

(***************************************************************************)
(* The main loop: the largest power of two that fits the input is shrunk   *)
(* until it divides what was hashed so far.  subtree_len is a power of two *)
(* throughout, so the test of its low bits is a test of the remainder.     *)
(***************************************************************************)
\* Wrong on purpose: a last whole chunk is hashed instead of buffered.
NextSubtreeEager ==
  /\ pc = "loop" /\ input_len >= CHUNK_LEN
  /\ subtree_len' = round_down_to_power_of_2[input_len]
  /\ pc' = "shrink"
  /\ UNCHANGED <<struct, input_len, pushes, caller_stack, msg, fed, out>>

NextSubtree ==
  /\ pc = "loop" /\ input_len > CHUNK_LEN
  /\ subtree_len' = round_down_to_power_of_2[input_len]
  /\ pc' = "shrink"
  /\ UNCHANGED <<struct, input_len, pushes, caller_stack, msg, fed, out>>

\* Wrong on purpose: chunks are compared with bytes.
MisalignedCount == chunk.chunk_counter % subtree_len # 0

Misaligned == (chunk.chunk_counter * CHUNK_LEN) % subtree_len # 0

\* Wrong on purpose: the halved length is lost, as by a `continue` of the outer
\* loop in place of one more turn of the inner one.
ShrinkAndRestart ==
  /\ pc = "shrink" /\ Misaligned
  /\ subtree_len' = subtree_len \div 2
  /\ pc' = "loop"
  /\ UNCHANGED <<struct, input_len, pushes, caller_stack, msg, fed, out>>

ShrinkSubtree ==
  /\ pc = "shrink" /\ Misaligned
  /\ subtree_len' = subtree_len \div 2
  /\ UNCHANGED <<struct, pc, input_len, pushes, caller_stack, msg, fed, out>>

\* A subtree of one chunk is hashed on its own, outside self->chunk; a larger
\* one yields the two children of its root, pushed one after the other.
one_chunk_cv(bytes) ==
  LET fresh == fresh_chunk_state(key, flags, chunk.chunk_counter)
  IN  output_chaining_value(chunk_state_output(
                              chunk_state_update(fresh, bytes)))

\* Wrong on purpose: the second child is pushed at the end of the subtree.
pushes_at_end(bytes) ==
  LET counter == chunk.chunk_counter
      pair    == compress_subtree_to_parent_node(bytes, key, counter, flags)
  IN  IF subtree_len <= CHUNK_LEN
      THEN <<[cv |-> one_chunk_cv(bytes), at |-> counter]>>
      ELSE <<[cv |-> pair[1], at |-> counter],
             [cv |-> pair[2], at |-> counter + (subtree_len \div CHUNK_LEN)]>>

subtree_pushes(bytes) ==
  LET counter == chunk.chunk_counter
      pair    == compress_subtree_to_parent_node(bytes, key, counter, flags)
      half    == (subtree_len \div CHUNK_LEN) \div 2
  IN  IF subtree_len <= CHUNK_LEN
      THEN <<[cv |-> one_chunk_cv(bytes), at |-> counter]>>
      ELSE <<[cv |-> pair[1], at |-> counter],
             [cv |-> pair[2], at |-> counter + half]>>

HashSubtree ==
  /\ pc = "shrink" /\ ~ Misaligned
  /\ pushes' = subtree_pushes(input(subtree_len))
  /\ pc' = "merge"
  /\ UNCHANGED <<struct, input_len, subtree_len, caller_stack, msg, fed, out>>

AdvanceInput ==
  /\ pc = "pushed" /\ chunk_state_len(chunk) = 0
  /\ chunk' = [chunk EXCEPT
                 !.chunk_counter = @ + (subtree_len \div CHUNK_LEN)]
  /\ input_len' = input_len - subtree_len
  /\ subtree_len' = 0
  /\ pc' = "loop"
  /\ UNCHANGED <<key, cv_stack_len, cv_stack, pushes, caller_stack, msg, fed,
                 out>>

\* At most one chunk of input is left, or none.
BufferTail ==
  /\ pc = "loop" /\ input_len <= CHUNK_LEN
  /\ IF input_len > 0
     THEN /\ chunk' = chunk_state_update(chunk, input(input_len))
          /\ pc' = "tail"
     ELSE pc' = "idle" /\ UNCHANGED chunk
  /\ input_len' = 0
  /\ UNCHANGED <<key, cv_stack_len, cv_stack, subtree_len, pushes,
                 caller_stack, msg, fed, out>>

MergeTail ==
  /\ pc = "tail" /\ MergeNeeded(chunk.chunk_counter)
  /\ MergeTop
  /\ UNCHANGED <<key, chunk, pc, locals, caller_stack, msg, fed, out>>

\* Wrong on purpose: update returns without the final merges.
ReturnUnmerged ==
  /\ pc = "tail"
  /\ pc' = "idle"
  /\ UNCHANGED <<struct, locals, caller_stack, msg, fed, out>>

ReturnFromUpdate ==
  /\ pc = "tail" /\ ~ MergeNeeded(chunk.chunk_counter)
  /\ pc' = "idle"
  /\ UNCHANGED <<struct, locals, caller_stack, msg, fed, out>>

-----------------------------------------------------------------------------
Step ==
  \/ FillChunk \/ ResetChunk
  \/ MergeBeforePush \/ PushCV
  \/ NextSubtree \/ ShrinkSubtree \/ HashSubtree \/ AdvanceInput
  \/ BufferTail \/ MergeTail \/ ReturnFromUpdate
  \/ derive_key_material

Call ==
  \/ blake3_hasher_init
  \/ \E k \in Keys : blake3_hasher_init_keyed(k)
  \/ \E n \in 0..MaxLen : init_derive_key_raw(n)
  \/ \E n \in 0..MaxLen : blake3_hasher_update(n)
  \/ \E seek \in Seeks, n \in OutLens : blake3_hasher_finalize_seek(seek, n)
  \/ blake3_hasher_reset

Next == Step \/ Call

\* A call in progress runs to its end: one thread executes it, and nothing in
\* the library blocks.  The caller need never call again.
Spec == Init /\ [][Next]_vars /\ WF_vars(Step)

-----------------------------------------------------------------------------
(***************************************************************************)
(* Properties                                                              *)
(***************************************************************************)
OnePush == Len(pushes) = 1 /\ pushes = <<pushes[1]>>
TwoPushes == Len(pushes) = 2 /\ pushes = <<pushes[1], pushes[2]>>

IsStack(s) == s = [i \in Slots |-> s[i]]

\* Every variable has the type its C declaration gives it; key and the
\* chaining values are opaque.
TypeOK ==
  /\ IsChunkState(chunk)
  /\ chunk.chunk_counter \in 0..MaxChunks
  /\ flags \in {{}, {"KEYED_HASH"}, {"DERIVE_KEY_CONTEXT"},
                {"DERIVE_KEY_MATERIAL"}}
  /\ cv_stack_len \in 0..(MAX_DEPTH + 1)
  /\ IsStack(cv_stack)
  /\ pc \in {"idle", "fill", "loop", "shrink", "merge", "pushed", "tail"}
  /\ input_len \in 0..fed
  /\ subtree_len \in 0..MaxLen
  /\ pushes = <<>> \/ OnePush \/ TwoPushes
  /\ IF Deriving THEN IsStack(caller_stack) ELSE caller_stack = <<>>
  /\ msg \in Nat
  /\ fed \in 0..MaxLen

\* Whatever way the caller split the message into updates, and whatever the
\* struct held before the message began, the hash is that of the message
\* under the key and flags in force (all of update, finalize, reset, init).
HashIsTree ==
  pc = "idle" =>
    root_output = NodeOutput(key, flags, 0, Bytes(0, fed))

\* A merge always finds two entries, and a push a free slot: the index
\* arithmetic on cv_stack (blake3.c:417-421, 460-462) never leaves the array
\* of MAX_DEPTH + 1 entries that blake3.h:55-60 argues for.
StackInBounds ==
  /\ pc = "merge" /\ MergeNeeded(Head(pushes).at) => cv_stack_len >= 2
  /\ pc = "merge" /\ ~ MergeNeeded(Head(pushes).at) => cv_stack_len \in Slots
  /\ pc = "tail" /\ MergeNeeded(chunk.chunk_counter) => cv_stack_len >= 2

\* "There are always at least 2 CVs in the stack in this case" (blake3.c:608):
\* between calls, a stack that is not empty under an empty chunk holds a pair.
PairUnderEmptyChunk ==
  pc = "idle" /\ chunk_state_len(chunk) = 0 /\ cv_stack_len > 0
    => cv_stack_len >= 2

\* Once bytes are buffered no two entries of the stack wait to be merged
\* (blake3.c:596-599), and the chunk never compresses its last block early:
\* the end flag of that block is finalize's to set.
ReadyToFinalize ==
  pc = "idle" /\ chunk_state_len(chunk) > 0 =>
    /\ cv_stack_len = popcnt[chunk.chunk_counter]
    /\ chunk.buf_len > 0

\* The subtree that is hashed is whole chunks, a power of two of them, fits
\* the input, and starts at a multiple of its own length (blake3.c:503-509).
SubtreeAligned ==
  /\ pc = "shrink" => /\ IsPow2(subtree_len)
                      /\ subtree_len \in CHUNK_LEN..input_len
  /\ pc = "merge" /\ subtree_len > 0 =>
       /\ subtree_len % CHUNK_LEN = 0
       /\ (chunk.chunk_counter * CHUNK_LEN) % subtree_len = 0

\* Entry i of the stack is the chaining value of a subtree, and together they
\* cover the chunks hashed so far, in order and without a gap: lazy merging
\* leaves some subtrees split in two but never pairs the wrong ones.
StackCoversChunks ==
  LET Subtree(lo, hi) ==
        NodeCV(key, flags, lo, Bytes(lo * CHUNK_LEN, (hi - lo) * CHUNK_LEN))
      counter == chunk.chunk_counter
      \* Where the uppermost n entries may start, if they end at counter.
      starts[n \in 0..cv_stack_len] ==
        IF n = 0 THEN {counter}
        ELSE LET ends == starts[n - 1]
             IN  {lo \in 0..counter :
                    \E hi \in ends :
                      lo < hi /\ cv_stack[cv_stack_len - n] = Subtree(lo, hi)}
  IN  pc \in {"idle", "loop"} => 0 \in starts[cv_stack_len]

(***************************************************************************)
(* How the counters hang together while update runs: the inductive         *)
(* invariant behind the bounds above.  The chunk counter and the partial   *)
(* chunk say how much of the input was consumed; the stack is never        *)
(* shorter than the number of 1 bits of the counter, and is as long as     *)
(* that whenever a merge loop has ended; two pushes reach exactly one more *)
(* 1 bit, so the second one of a pair never merges.                        *)
(***************************************************************************)
Position ==
  LET len == chunk_state_len(chunk)
  IN  /\ chunk.chunk_counter * CHUNK_LEN + len = fed - input_len
      /\ len <= CHUNK_LEN
      /\ len > 0 => chunk.buf_len > 0

\* At least one entry per 1 bit, and none before the first chunk is complete.
EntriesFor(counter) ==
  /\ popcnt[counter] <= cv_stack_len
  /\ counter = 0 => cv_stack_len = 0

AlignedSubtree ==
  /\ IsPow2(subtree_len)
  /\ subtree_len \in CHUNK_LEN..input_len
  /\ (chunk.chunk_counter * CHUNK_LEN) % subtree_len = 0
  /\ subtree_len < input_len \/ subtree_len > CHUNK_LEN

Progress ==
  LET len     == chunk_state_len(chunk)
      counter == chunk.chunk_counter
      half    == (subtree_len \div CHUNK_LEN) \div 2
  IN
  /\ pc = "idle" =>
       input_len = 0 /\ subtree_len = 0 /\ pushes = <<>> /\ EntriesFor(counter)
  /\ pc = "fill" =>
       /\ input_len > 0 /\ len > 0 /\ subtree_len = 0 /\ pushes = <<>>
       /\ EntriesFor(counter) /\ cv_stack_len = popcnt[counter]
  /\ pc = "loop" =>
       /\ len = 0 /\ subtree_len = 0 /\ pushes = <<>> /\ EntriesFor(counter)
       /\ input_len = 0 /\ cv_stack_len > 0 => cv_stack_len >= 2
  /\ pc = "shrink" =>
       /\ len = 0 /\ pushes = <<>> /\ EntriesFor(counter)
       /\ IsPow2(subtree_len) /\ subtree_len \in CHUNK_LEN..input_len
       /\ input_len > CHUNK_LEN
  /\ pc = "merge" =>
       /\ input_len > 0
       /\ \/ /\ subtree_len = 0 /\ len = CHUNK_LEN /\ EntriesFor(counter)
             /\ OnePush /\ pushes[1].at = counter
          \/ /\ AlignedSubtree /\ subtree_len = CHUNK_LEN /\ len = 0
             /\ OnePush /\ pushes[1].at = counter
             /\ EntriesFor(counter)
          \/ /\ AlignedSubtree /\ subtree_len > CHUNK_LEN /\ len = 0
             /\ TwoPushes /\ pushes[1].at = counter
             /\ pushes[2].at = counter + half
             /\ EntriesFor(counter)
          \/ /\ AlignedSubtree /\ subtree_len > CHUNK_LEN /\ len = 0
             /\ OnePush /\ pushes[1].at = counter + half
             /\ cv_stack_len = popcnt[counter] + 1
  /\ pc = "pushed" =>
       /\ input_len > 0 /\ pushes = <<>>
       /\ \/ /\ subtree_len = 0 /\ len = CHUNK_LEN
             /\ cv_stack_len = popcnt[counter] + 1
          \/ /\ AlignedSubtree /\ subtree_len = CHUNK_LEN /\ len = 0
             /\ cv_stack_len = popcnt[counter] + 1
          \/ /\ AlignedSubtree /\ subtree_len > CHUNK_LEN /\ len = 0
             /\ cv_stack_len = popcnt[counter] + 2
  /\ pc = "tail" =>
       /\ input_len = 0 /\ len > 0 /\ subtree_len = 0 /\ pushes = <<>>
       /\ EntriesFor(counter)

Accounting ==
  TypeOK /\ Position /\ Progress /\ PairUnderEmptyChunk /\ ReadyToFinalize

\* Every call returns: the four loops of update all make progress.
EveryCallReturns == pc # "idle" ~> pc = "idle"

\* The incremental hasher implements the promise of Blake3Hash.
Promise == INSTANCE Blake3Hash WITH message <- Bytes(0, fed)
ImplementsHash == Promise!HashSpec

=============================================================================
