------------------------------- MODULE AesGcm -------------------------------
(***************************************************************************)
(* The programs above gcm.c: a caller of aes_gcm_encrypt and               *)
(* aes_gcm_decrypt, which are one call each, with a context of their own   *)
(* and no tag, and main_encrypt.c, which is one call of gcm_crypt_and_tag. *)
(* None of them looks at what gcm_setkey returns, so the cipher may run    *)
(* with a context that has no round keys: a null pointer is read and the   *)
(* process stops, without an answer to the call.                           *)
(* The client takes the length of the input as an int and casts that of    *)
(* the key to uint: lengths here are below 2^31, where both stay the same. *)
(***************************************************************************)
EXTENDS GcmMode, FileRead

CONSTANTS Keys, IVs,  \* the arguments: keys with their sizes, and IVs
          Texts,      \* inputs, beside the outputs of earlier calls
          FileKey, FileIV,  \* the zeros main_encrypt.c uses
          MaxLen,     \* bound: bytes of an input
          MaxCalls    \* bound: calls made

\* Sequences of bytes, an IV's bits and its counter as in Gcm, and the counter
\* that stands for a hash of nothing.
ASSUME ClientAssumption ==
  /\ MaxLen \in Nat
  /\ Null \notin Keys
  /\ \A s \in Texts \cup IVs \cup {FileIV} : s \in Seq({s[i] : i \in DOMAIN s})
  /\ \A text \in Texts : Len(text) <= MaxLen
  /\ \A iv \in IVs \cup {FileIV} :
       Len(iv) * 8 < WORD /\ J0(iv).ctr \in [1..CTR_LEN -> 0..(BYTE - 1)]
  /\ HashedCounter(<<>>) \in [1..CTR_LEN -> 0..(BYTE - 1)]
  /\ FileKey # Null /\ FileKey.size \in KeySizes /\ Len(FileIV) = IV_LEN

VARIABLES program,        \* which of the programs runs
          running,        \* whether its process still does
          tables_inited,  \* aes_tables_inited
          calls           \* history: the calls made and what each returned, if it did

clientVars == <<program, running, tables_inited, calls>>

ClientInit ==
  /\ program \in {"caller", "main_encrypt"}
  /\ running = TRUE
  /\ tables_inited = FALSE
  /\ calls = <<>>

Mem == 1..(2 * MaxLen)
Holding(bytes) == [a \in Mem |-> IF a <= Len(bytes) THEN bytes[a] ELSE {}]

\* gcm_setkey, its result ignored, and gcm_crypt_and_tag from src to dst.
set_and_crypt(mode, key, iv, mem, src, dst, n, tag_len) ==
  gcm_crypt_and_tag(gcm_setkey(tables_inited, key).ctx, mode, iv, <<>>,
                    mem, src, dst, n, tag_len)

\* What the caller gets from a call that has run to its end: 0, whatever
\* happened on the way.
answer(op, key, iv, bytes, output) ==
  [op |-> op, inited |-> tables_inited, key |-> key, iv |-> iv,
   input |-> bytes, output |-> output, ret |-> <<0>>]

no_answer(op, key, iv, bytes) ==
  [op |-> op, inited |-> tables_inited, key |-> key, iv |-> iv,
   input |-> bytes, output |-> <<>>, ret |-> <<>>]

aes_gcm_encrypt(key, iv, bytes, dst) ==
  LET n == Len(bytes)
      did == set_and_crypt("ENCRYPT", key, iv, Holding(bytes), 0, dst, n, 0)
  IN  answer("encrypt", key, iv, bytes, SubSeq(did.mem, dst + 1, dst + n))

\* Wrong on purpose: input and output are swapped in the call.
decrypt_swapped(key, iv, bytes, dst) ==
  LET n == Len(bytes)
      did == set_and_crypt("DECRYPT", key, iv, Holding(bytes), dst, 0, n, 0)
  IN  answer("decrypt", key, iv, bytes, SubSeq(did.mem, dst + 1, dst + n))

aes_gcm_decrypt(key, iv, bytes, dst) ==
  LET n == Len(bytes)
      did == set_and_crypt("DECRYPT", key, iv, Holding(bytes), 0, dst, n, 0)
  IN  answer("decrypt", key, iv, bytes, SubSeq(did.mem, dst + 1, dst + n))

\* aes_cipher reads through rk, which a refused gcm_setkey may leave null.
has_round_keys(key) == gcm_setkey(tables_inited, key).ctx.rk # Null

gcm_initialize ==
  /\ running /\ program = "caller"
  /\ tables_inited' = TRUE
  /\ UNCHANGED <<program, running, calls>>

Encrypt(key, iv, bytes, dst) ==
  /\ running /\ program = "caller"
  /\ Len(calls) < MaxCalls
  /\ has_round_keys(key)
  /\ calls' = Append(calls, aes_gcm_encrypt(key, iv, bytes, dst))
  /\ UNCHANGED <<program, running, tables_inited>>

Decrypt(key, iv, bytes, dst) ==
  /\ running /\ program = "caller"
  /\ Len(calls) < MaxCalls
  /\ has_round_keys(key)
  /\ calls' = Append(calls, aes_gcm_decrypt(key, iv, bytes, dst))
  /\ UNCHANGED <<program, running, tables_inited>>

\* Either call without round keys.
Stop(op, key, iv, bytes) ==
  /\ running /\ program = "caller"
  /\ ~ has_round_keys(key)
  /\ running' = FALSE
  /\ calls' = Append(calls, no_answer(op, key, iv, bytes))
  /\ UNCHANGED <<program, tables_inited>>

\* main_encrypt.c without its argument, or with a file that does not open.
refuse ==
  /\ running /\ program = "main_encrypt"
  /\ running' = FALSE
  /\ UNCHANGED <<program, tables_inited, calls>>

\* The whole of main_encrypt.c when the file is there: fread may stop after n
\* bytes, which is not looked at, and gcm_initialize is not called.
main_encrypt(content, n) ==
  LET filesize == Len(content)
      pt == buffer_after(content, n)
      did == set_and_crypt("ENCRYPT", FileKey, FileIV, Holding(pt), 0,
                           MaxLen, filesize, BLOCK_LEN)
  IN  /\ running /\ program = "main_encrypt"
      /\ running' = FALSE
      /\ calls' = Append(calls,
                    IF has_round_keys(FileKey)
                    THEN answer("file", FileKey, FileIV, pt,
                                SubSeq(did.mem, MaxLen + 1, MaxLen + filesize))
                    ELSE no_answer("file", FileKey, FileIV, pt))
      /\ UNCHANGED <<program, tables_inited>>

Inputs == Texts \cup {calls[i].output : i \in 1..Len(calls)}

ClientNext ==
  \/ gcm_initialize
  \/ \E key \in Keys, iv \in IVs, bytes \in Inputs, dst \in {0, MaxLen} :
       Encrypt(key, iv, bytes, dst) \/ Decrypt(key, iv, bytes, dst)
  \/ \E op \in {"encrypt", "decrypt"}, key \in Keys, iv \in IVs,
        bytes \in Inputs : Stop(op, key, iv, bytes)
  \/ refuse
  \/ \E content \in Texts : \E n \in 0..Len(content) : main_encrypt(content, n)

ClientSpec == ClientInit /\ [][ClientNext]_clientVars

-----------------------------------------------------------------------------
Answered == {calls[i] : i \in {j \in 1..Len(calls) : calls[j].ret = <<0>>}}

\* A call that is answered under a key of a legal size has put its input in
\* counter mode under that key and that IV, the two calls being the same map;
\* an IV is never ignored.
AnsweredUnderKey ==
  \A c \in Answered :
    c.key.size \in KeySizes => c.output = Crypt(c.key, c.iv, c.input)

\* Decrypting what an earlier call encrypted, under its key and IV, gives the
\* input of that call back, even where gcm_setkey refused the key.
DecryptUndoesEncrypt ==
  \A i, j \in 1..Len(calls) :
    LET e == calls[i]
        d == calls[j]
    IN  /\ i < j /\ e.op = "encrypt" /\ d.op = "decrypt" /\ d.ret # <<>>
        /\ d.key = e.key /\ d.iv = e.iv /\ d.input = e.output
        => d.output = e.input

\* What aes.c:31-33 says of the tables: "If they have not been built before
\* attempted use, an error will be returned to the caller".
ErrorReachesCaller ==
  \A i \in 1..Len(calls) : ~ calls[i].inited => calls[i].ret = <<-1>>

=============================================================================
