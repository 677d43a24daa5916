----------------------------- MODULE AesThreads -----------------------------
(***************************************************************************)
(* The threads of a program that uses aes.c and the key set-up of gcm.c.   *)
(* The static tables and their flag are shared and no lock protects them;  *)
(* each thread has a context of its own.  The callers follow the comments: *)
(* the tables are asked for by Main, before it starts any other thread.    *)
(* A later call finds the flag set, so every thread may make one then.     *)
(* A thread stands inside a call where it is about to touch the tables.    *)
(***************************************************************************)
EXTENDS AesVectors, GcmMult

CONSTANTS Threads, Main,
          Setups,  \* [thread, call, mode, key]: the keys threads set, and how
          Works    \* [thread, call, bytes]: what they do under a key

ASSUME ThreadsAssumption == Main \in Threads

\* Keys are of any length, for GCM always to encipher; blocks are whole.
ASSUME SetupsAssumption ==
  \A s \in Setups : /\ s.key \in Seq(Byte)
                    /\ s.call = "gcm_setkey" => s.mode = "ENCRYPT"

ASSUME WorksAssumption ==
  \A w \in Works :
    /\ w.bytes \in Seq(Byte)
    /\ w.call \in {"aes_cipher", "gcm_mult"} => Len(w.bytes) = 16
    /\ w.call \in {"aes_cipher_avx2", "aes_cipher_vtype"} => Len(w.bytes) = 32

VARIABLES decryption,    \* AES_DECRYPTION: how the library was built
          aes_tables_inited, done, \* the flag, and the loops that have run
          threading,     \* whether the threads other than Main run
          pc,            \* where each thread is
          ctx,           \* its context: mode, rounds, rk, and H's tables
          setup, ret,    \* the key it set last, and the answer, if any
          work, output   \* what it did last under that key, and the outcome

vars == <<decryption, aes_tables_inited, done, threading, pc,
          ctx, setup, ret, work, output>>
tables == <<aes_tables_inited, done>>
local == <<ctx, setup, ret, work, output>>

ZeroCtx == [mode |-> "none", rounds |-> 0, rk |-> <<>>, H |-> <<>>]
Nothing == [call |-> "none"]

Init ==
  /\ decryption \in BOOLEAN
  /\ aes_tables_inited = FALSE /\ done = {}
  /\ threading = FALSE
  /\ pc = [t \in Threads |-> "idle"]
  /\ ctx = [t \in Threads |-> ZeroCtx]
  /\ setup = [t \in Threads |-> Nothing] /\ ret = [t \in Threads |-> <<>>]
  /\ work = [t \in Threads |-> Nothing] /\ output = [t \in Threads |-> <<>>]

Goes(t, from, to) == pc[t] = from /\ pc' = [pc EXCEPT ![t] = to]
Idle(t) == pc[t] = "idle" /\ (t = Main \/ threading)

StartThreads ==
  /\ pc[Main] = "idle" /\ ~threading
  /\ threading' = TRUE
  /\ UNCHANGED <<decryption, tables, pc, local>>

-----------------------------------------------------------------------------
(***************************************************************************)
(* gcm_initialize, which is aes_init_keygen_tables.                        *)
(***************************************************************************)
\* Wrong on purpose: the tables are filled again, whatever the flag says.
after_flag_ignored == "RCON"

after_flag == IF aes_tables_inited THEN "idle" ELSE "RCON"

gcm_initialize(t) ==
  /\ Idle(t)
  /\ aes_tables_inited \/ ~threading
  /\ Goes(t, "idle", after_flag)
  /\ UNCHANGED <<decryption, tables, threading, local>>

\* The loop for RCON, that for the S-boxes and that for the tables of rounds.
Following == [RCON |-> "sboxes", sboxes |-> "tables", tables |-> "flag"]

\* Wrong on purpose: the flag is up when the S-boxes are there, and the last
\* loop is still to run.
FillUnderFlag(t, loop) ==
  /\ Goes(t, loop, Following[loop])
  /\ done' = done \cup {loop}
  /\ aes_tables_inited' = (aes_tables_inited \/ loop = "sboxes")
  /\ UNCHANGED <<decryption, threading, local>>

Fill(t, loop) ==
  /\ Goes(t, loop, Following[loop])
  /\ done' = done \cup {loop}
  /\ UNCHANGED <<decryption, aes_tables_inited, threading, local>>

SetFlag(t) ==
  /\ Goes(t, "flag", "idle")
  /\ aes_tables_inited' = TRUE
  /\ UNCHANGED <<decryption, done, threading, local>>

-----------------------------------------------------------------------------
(***************************************************************************)
(* aes_setkey and gcm_setkey, which clears its context before it.          *)
(***************************************************************************)
rounds_of(key) == CASE Len(key) = 16 -> 10 [] Len(key) = 24 -> 12
                    [] Len(key) = 32 -> 14 [] OTHER -> 0

cleared(t, s) == IF s.call = "gcm_setkey" THEN ZeroCtx ELSE ctx[t]

\* No tables, or a size that is not a key's: what the context has become.
RefuseKey(t, s) ==
  /\ Idle(t) /\ s.thread = t
  /\ \/ ~aes_tables_inited /\ ctx' = [ctx EXCEPT ![t] = cleared(t, s)]
     \/ /\ aes_tables_inited /\ rounds_of(s.key) = 0
        /\ ctx' = [ctx EXCEPT ![t] = [cleared(t, s) EXCEPT !.mode = s.mode]]
  /\ setup' = [setup EXCEPT ![t] = s] /\ ret' = [ret EXCEPT ![t] = <<-1>>]
  /\ work' = [work EXCEPT ![t] = Nothing] /\ output' = [output EXCEPT ![t] = <<>>]
  /\ UNCHANGED <<decryption, tables, threading, pc>>

AcceptKey(t, s) ==
  /\ Idle(t) /\ s.thread = t
  /\ aes_tables_inited /\ rounds_of(s.key) # 0
  /\ Goes(t, "idle", "expand")
  /\ ctx' = [ctx EXCEPT ![t] = [cleared(t, s) EXCEPT !.mode = s.mode,
                                                     !.rounds = rounds_of(s.key)]]
  /\ setup' = [setup EXCEPT ![t] = s] /\ ret' = [ret EXCEPT ![t] = <<>>]
  /\ work' = [work EXCEPT ![t] = Nothing] /\ output' = [output EXCEPT ![t] = <<>>]
  /\ UNCHANGED <<decryption, tables, threading>>

\* Whether mode means anything depends on how the library was built.
decrypts(mode) == decryption /\ mode = "DECRYPT"

schedule(T, s, rounds) ==
  IF decrypts(s.mode) THEN aes_set_decryption_key(T, s.key, rounds)
  ELSE aes_set_encryption_key(T, s.key, rounds)

Expand(t) ==
  LET gcm == setup[t].call = "gcm_setkey"
  IN  /\ Goes(t, "expand", IF gcm THEN "zero" ELSE "idle")
      /\ ctx' = [ctx EXCEPT ![t].rk = schedule(arrays(done), setup[t], ctx[t].rounds)]
      /\ ret' = IF gcm THEN ret ELSE [ret EXCEPT ![t] = <<0>>]
      /\ UNCHANGED <<decryption, tables, threading, setup, work, output>>

cipher(t, block) ==
  aes_cipher(arrays(done), IF decrypts(ctx[t].mode) THEN "DECRYPT" ELSE "ENCRYPT",
             ctx[t].rk, ctx[t].rounds, block)

\* The rest of gcm_setkey: the block of zeros, and the tables of products.
Zeros == [i \in 1..16 |-> 0]

MakeTables(t) ==
  /\ Goes(t, "zero", "idle")
  /\ ctx' = [ctx EXCEPT ![t].H = mult_tables(cipher(t, Zeros))]
  /\ ret' = [ret EXCEPT ![t] = <<0>>]
  /\ UNCHANGED <<decryption, tables, threading, setup, work, output>>

-----------------------------------------------------------------------------
(***************************************************************************)
(* Work under a key: a thread asks for it when its last key was taken.     *)
(***************************************************************************)
Begins(t, w, name) ==
  /\ Idle(t) /\ ret[t] = <<0>>
  /\ w.thread = t /\ w.call = name
  /\ work' = [work EXCEPT ![t] = w]

Does(t, w, name, outcome) ==
  /\ Begins(t, w, name)
  /\ output' = [output EXCEPT ![t] = outcome]
  /\ UNCHANGED <<decryption, tables, threading, pc, ctx, setup, ret>>

StartCipher(t, w) ==
  /\ Begins(t, w, "aes_cipher")
  /\ Goes(t, "idle", "cipher")
  /\ output' = [output EXCEPT ![t] = <<>>]
  /\ UNCHANGED <<decryption, tables, threading, ctx, setup, ret>>

Cipher(t) ==
  /\ Goes(t, "cipher", "idle")
  /\ output' = [output EXCEPT ![t] = cipher(t, work[t].bytes)]
  /\ UNCHANGED <<decryption, tables, threading, ctx, setup, ret, work>>

\* Neither of the two reads the tables; a register of 128 bits has two lanes.
Avx2(t, w) ==
  /\ ctx[t].mode = "ENCRYPT"
  /\ Does(t, w, "aes_cipher_avx2",
          aes_cipher_avx2(ctx[t].rk, ctx[t].rounds, w.bytes))

Vtype(t, w) ==
  /\ ctx[t].mode = "ENCRYPT"
  /\ Does(t, w, "aes_cipher_vtype",
          aes_cipher_vtype(ctx[t].rk, ctx[t].rounds, w.bytes, Zeros \o Zeros, 2))

Multiply(t, w) ==
  /\ setup[t].call = "gcm_setkey"
  /\ Does(t, w, "gcm_mult", gcm_mult(ctx[t].H, w.bytes))

-----------------------------------------------------------------------------
Initialize(t) ==
  \/ gcm_initialize(t)
  \/ \E loop \in Loops : Fill(t, loop)
  \/ SetFlag(t)

SetKey(t) ==
  \/ \E s \in Setups : RefuseKey(t, s) \/ AcceptKey(t, s)
  \/ Expand(t)
  \/ MakeTables(t)

UseKey(t) ==
  \/ \E w \in Works : \/ StartCipher(t, w) \/ Avx2(t, w) \/ Vtype(t, w)
                      \/ Multiply(t, w)
  \/ Cipher(t)

Next ==
  \/ StartThreads
  \/ \E t \in Threads : Initialize(t) \/ SetKey(t) \/ UseKey(t)

Spec == Init /\ [][Next]_vars

-----------------------------------------------------------------------------
Building == {"RCON", "sboxes", "tables", "flag"}
Reading == {"expand", "zero", "cipher"}

\* A thread is somewhere, and it only gets past the flag when that is set.
TypeOK ==
  /\ aes_tables_inited \in BOOLEAN /\ threading \in BOOLEAN
  /\ done \in SUBSET Loops
  /\ pc \in [Threads -> {"idle"} \cup Building \cup Reading]
  /\ ret \in [Threads -> {<<>>, <<0>>, <<-1>>}]

\* No thread writes the static tables while another one reads or writes them,
\* though nothing locks them (the comments at the flag of aes.c and in
\* aes_setkey): the flag alone keeps the callers apart.
NoWriterBesideReader ==
  \A t, u \in Threads :
    pc[t] \in Building => pc[u] \notin Reading /\ (u = t \/ pc[u] \notin Building)

\* No call reads the tables before every loop that fills them has run, and
\* until then the flag, which is all that aes_setkey looks at, is not up: it
\* never lets a key be expanded from a part of them.
ReadersFindTables ==
  /\ aes_tables_inited => done = Loops
  /\ \A t \in Threads : pc[t] \in Reading => done = Loops

Expansion == [k \in {s.key : s \in {r \in Setups : rounds_of(r.key) # 0}} |->
                F!KeyExpansion(k)]
Ready(t) == ret[t] = <<0>> /\ pc[t] = "idle"
group(rk, i) == rk[4 * i + 1] \o rk[4 * i + 2] \o rk[4 * i + 3] \o rk[4 * i + 4]

\* A key that was taken leaves the key schedule of FIPS 197 in the 68 words of
\* the context, for every key size; for decryption backwards, and what lies
\* between the ends such that MixColumns gives the schedule again.
ScheduleIsExpansion ==
  \A t \in Threads : Ready(t) =>
    LET rk == ctx[t].rk
        n  == ctx[t].rounds
        w  == Expansion[setup[t].key]
    IN  /\ n = F!Rounds(setup[t].key)
        /\ Len(rk) <= 68
        /\ IF decrypts(setup[t].mode)
           THEN \A i \in 0..n :
                  (IF i \in {0, n} THEN group(rk, i) ELSE F!MixColumns(group(rk, i)))
                    = group(w, n - i)
           ELSE SubSeq(rk, 1, 4 * (n + 1)) = w

Ciphers(key, block) == F!Cipher(Expansion[key], F!Rounds(key), block)
Did(t, name) == pc[t] = "idle" /\ work[t].call = name

\* What aes_cipher writes is the block under the cipher of FIPS 197, whatever
\* other threads do; decrypting, it is the block that cipher makes the input.
CipherIsAes ==
  \A t \in Threads : Did(t, "aes_cipher") =>
    IF decrypts(setup[t].mode)
    THEN Ciphers(setup[t].key, output[t]) = work[t].bytes
    ELSE output[t] = Ciphers(setup[t].key, work[t].bytes)

first_block(bytes) == SubSeq(bytes, 1, 16)
second_block(bytes) == SubSeq(bytes, 17, 32)
BothBlocks(t) ==
  output[t] = Ciphers(setup[t].key, first_block(work[t].bytes))
                \o Ciphers(setup[t].key, second_block(work[t].bytes))

\* aes_cipher_avx2 encrypts two blocks, each as aes_cipher would, under the
\* round keys aes.c has stored.
Avx2IsTwoBlocks == \A t \in Threads : Did(t, "aes_cipher_avx2") => BothBlocks(t)

\* The comments in aes_cipher_vtype: the main AES rounds, in software because
\* the vector extension has no AES instructions, then the final round.
VtypeIsTwoBlocks == \A t \in Threads : Did(t, "aes_cipher_vtype") => BothBlocks(t)

\* The product gcm_mult makes with the tables of gcm_setkey is the one of the
\* field of GCM, by the cipher of the block of zeros.
MultIsProduct ==
  \A t \in Threads : Did(t, "gcm_mult") =>
    Coefficients(output[t]) =
      FieldProduct(Coefficients(work[t].bytes),
                   Coefficients(Ciphers(setup[t].key, Zeros)))

=============================================================================
