-------------------------------- MODULE Gcm ---------------------------------
(***************************************************************************)
(* A gcm_context and its caller, one action per call of gcm.c.  The caller *)
(* keeps the rules of gcm.h and of the comments above the functions: it    *)
(* sets a key before anything else, feeds whole blocks in every update but *)
(* the last of a message, and finishes a message once.  It may drop a      *)
(* message it has begun, use the context again under the same key, set     *)
(* another key, and let input and output be the same memory.               *)
(***************************************************************************)
EXTENDS GcmMode

CONSTANTS Keys,      \* the caller's keys, with their sizes
          IVs,       \* initialisation vectors
          Adds,      \* additional data
          Contents,  \* what input memory may hold: sequences of MaxLen bytes
          TagLens,   \* tag lengths asked for
          MaxLen     \* bound: bytes of a message

\* A word counts the bits of every IV, the counter of every IV is of bytes,
\* and it does not come around within a message.
ASSUME CallerAssumption ==
  /\ MaxLen \in Nat
  /\ Null \notin Keys
  /\ \A s \in Contents \cup IVs \cup Adds : s \in Seq({s[i] : i \in DOMAIN s})
  /\ \A c \in Contents : Len(c) = MaxLen
  /\ TagLens \subseteq 1..BLOCK_LEN
  /\ \A iv \in IVs : /\ Len(iv) * 8 < WORD
                     /\ J0(iv).ctr \in [1..CTR_LEN -> 0..(BYTE - 1)]
  /\ Blocks(MaxLen) <= Counters - 2

VARIABLES tables_inited,  \* aes_tables_inited
          ctx,            \* the gcm_context
          mem,            \* input at 1..MaxLen, other memory above
          tag,            \* what gcm_finish wrote
          phase,          \* where the caller is in its calls on ctx
          key, iv, add,   \* history: the arguments in force
          input, dst, fed \* history: the input, where output goes, how much

vars == <<tables_inited, ctx, mem, tag, phase, key, iv, add, input, dst, fed>>
message == <<iv, add, input, dst, fed>>

Mem == 1..(2 * MaxLen)
Fresh(content) == [a \in Mem |-> IF a <= MaxLen THEN content[a] ELSE {}]
NoInput == [a \in 1..MaxLen |-> {}]

Init ==
  /\ tables_inited = FALSE
  /\ ctx = ZeroCtx
  /\ mem = Fresh(NoInput)
  /\ tag = <<>>
  /\ phase = "zeroed"
  /\ key = Null
  /\ iv = <<>> /\ add = <<>> /\ input = NoInput /\ dst = 0 /\ fed = 0

\* aes_init_keygen_tables, which does nothing when the tables are there.
gcm_initialize ==
  /\ tables_inited' = TRUE
  /\ UNCHANGED <<ctx, mem, tag, phase, key, message>>

\* A caller may set a key at any time: the message in progress is dropped.
SetKey(k) ==
  LET set == gcm_setkey(tables_inited, k)
  IN  /\ ctx' = set.ctx
      /\ IF set.ret = 0 THEN phase' = "keyed" /\ key' = k
         ELSE phase' = "zeroed" /\ key' = Null
      /\ mem' = Fresh(NoInput) /\ tag' = <<>>
      /\ iv' = <<>> /\ add' = <<>> /\ input' = NoInput /\ dst' = 0 /\ fed' = 0
      /\ UNCHANGED tables_inited

Start(mode, v, a, content, to) ==
  /\ phase # "zeroed"
  /\ ctx' = gcm_start(ctx, mode, v, a)
  /\ phase' = "started"
  /\ mem' = Fresh(content) /\ tag' = <<>>
  /\ iv' = v /\ add' = a /\ input' = content /\ dst' = to /\ fed' = 0
  /\ UNCHANGED <<tables_inited, key>>

Update(n) ==
  LET did == gcm_update(ctx, mem, fed, dst + fed, n)
  IN  /\ phase = "started"
      /\ fed + n <= MaxLen
      /\ ctx' = did.ctx /\ mem' = did.mem
      /\ phase' = IF n % BLOCK_LEN = 0 THEN "started" ELSE "partial"
      /\ fed' = fed + n
      /\ UNCHANGED <<tables_inited, tag, key, iv, add, input, dst>>

Finish(tag_len) ==
  LET did == gcm_finish(ctx, tag_len)
  IN  /\ phase \in {"started", "partial"}
      /\ ctx' = did.ctx /\ tag' = did.tag
      /\ phase' = "finished"
      /\ UNCHANGED <<tables_inited, mem, key, message>>

gcm_zero_ctx ==
  /\ phase \in {"keyed", "finished"}
  /\ ctx' = ZeroCtx
  /\ mem' = Fresh(NoInput) /\ tag' = <<>>
  /\ phase' = "zeroed" /\ key' = Null
  /\ iv' = <<>> /\ add' = <<>> /\ input' = NoInput /\ dst' = 0 /\ fed' = 0
  /\ UNCHANGED tables_inited

Next ==
  \/ gcm_initialize
  \/ \E k \in Keys : SetKey(k)
  \/ \E mode \in {"ENCRYPT", "DECRYPT"}, v \in IVs, a \in Adds,
        content \in Contents, to \in {0, MaxLen} :
       Start(mode, v, a, content, to)
  \/ \E n \in 0..MaxLen : Update(n)
  \/ \E tag_len \in TagLens : Finish(tag_len)
  \/ gcm_zero_ctx

Spec == Init /\ [][Next]_vars

-----------------------------------------------------------------------------
InMessage == phase \in {"started", "partial", "finished"}

\* However a message is cut into updates, wherever its output goes and
\* whatever the context was used for before, the output is the input in
\* counter mode; the input not yet fed is still there (gcm_update, gcm_start).
OutputIsCounterMode ==
  InMessage =>
    /\ SubSeq(mem, dst + 1, dst + fed) = Crypt(key, iv, SubSeq(input, 1, fed))
    /\ SubSeq(mem, fed + 1, MaxLen) = SubSeq(input, fed + 1, MaxLen)

\* The tag is that of the additional data and the ciphertext, in either
\* direction, also when both are empty and gcm_finish hashes no lengths.
TagIsOfCiphertext ==
  phase = "finished" =>
    LET bytes == SubSeq(input, 1, fed)
        ciphertext == IF ctx.mode = "ENCRYPT" THEN Crypt(key, iv, bytes)
                      ELSE bytes
    IN  tag = Tag(key, iv, add, ciphertext, Len(tag))

\* No two bytes of a message, and no byte of its tag, are masked with the same
\* byte of the cipher, even when the counter wraps around inside the message:
\* the carry stays within the counter's bytes.
KeystreamIsFresh ==
  InMessage =>
    LET mask == [i \in 1..fed |-> xor(mem[dst + i], input[i])]
    IN  \A i \in 1..fed :
          /\ \A j \in 1..(i - 1) : mask[i] # mask[j]
          /\ \A j \in 1..BLOCK_LEN : mask[i] # ctx.base_ectr[j]

\* Where the running values stand between two calls: the counter has moved
\* once per block since the first one, and the hash is that of the additional
\* data and the ciphertext so far.
RunningValues ==
  InMessage =>
    /\ ctx.rk = key /\ ctx.H = key
    /\ ctx.len = fed /\ ctx.add_len = Len(add)
    /\ AsNumber(ctx.y.ctr)
         = (AsNumber(J0(iv).ctr) + Blocks(fed)) % Counters
    /\ phase # "finished" =>
         LET bytes == SubSeq(input, 1, fed)
             ciphertext == IF ctx.mode = "ENCRYPT" THEN Crypt(key, iv, bytes)
                           ELSE bytes
         IN  ctx.buf = running_hash(
                         Significant(Padded(add) \o Padded(ciphertext)),
                         ZeroBlock)

=============================================================================
