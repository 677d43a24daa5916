--------------------------- MODULE ProgramsProofs ---------------------------
(***************************************************************************)
(* The programs around the two libraries, for any files, keys and inputs:  *)
(* the digests of the hashing programs are of their whole input, the       *)
(* verdict of the test program is that of its records and its buffer is    *)
(* given back, and what the one-call client is answered is counter mode    *)
(* under the key it gave.                                                  *)
(***************************************************************************)
EXTENDS AesGcm, GcmTest, HashFile, GcmModeProofs

-----------------------------------------------------------------------------
(***************************************************************************)
(* The hashing programs.  While example.c runs, what it has given to the   *)
(* hasher is the beginning of the input, as far as it was read; read       *)
(* returns 0 only at the end.                                              *)
(***************************************************************************)
Values == {content[i] : i \in DOMAIN content}

GivenIsTaken == hasher = "example" => given = SubSeq(content, 1, taken)

HashIInv ==
  /\ hasher \in {"example", "measure"}
  /\ content \in HashedFiles
  /\ taken \in 0..Len(content)
  /\ status \in {"running", "ok", "failed", "killed"}
  /\ GivenIsTaken
  /\ status # "ok" => digest = <<>>
  /\ status = "ok" /\ (hasher = "example" \/ taken = Len(content))
       => digest = <<content>>

\* The input is a sequence of its own bytes.
LEMMA ContentIsSequence ==
  ASSUME HashIInv
  PROVE  content \in Seq(Values) /\ Len(content) \in Nat
BY ReadAssumption, LenProperties DEF HashIInv, Values

\* fread that comes to the end has filled the whole buffer (FileRead).
LEMMA WholeBuffer ==
  ASSUME NEW S, NEW s \in Seq(S)
  PROVE  buffer_after(s, Len(s)) = s
<1>1. s = [i \in 1..Len(s) |-> s[i]]
  OBVIOUS
<1>2. \A i \in 1..Len(s) : i <= Len(s)
  OBVIOUS
<1> QED
  BY <1>1, <1>2, Zenon DEF buffer_after

LEMMA HashInitially == HashInit => HashIInv
<1> SUFFICES ASSUME HashInit PROVE HashIInv
  OBVIOUS
<1>1. content \in Seq({content[i] : i \in DOMAIN content})
  BY ReadAssumption DEF HashInit
<1>2. Len(content) \in Nat
  BY <1>1, LenProperties
<1>3. SubSeq(content, 1, 0) = <<>>
  BY SubSeqEmpty
<1> QED
  BY <1>2, <1>3 DEF HashInit, HashIInv, GivenIsTaken

\* One turn of example.c's loop: what was given and the piece that follows
\* are together the beginning of the input.
LEMMA ReadKeeps ==
  ASSUME HashIInv, NEW n \in 0..READ_LEN, Read(n)
  PROVE  HashIInv'
<1>1. content \in Seq(Values) /\ Len(content) \in Nat
  BY ContentIsSequence
<1>2. n \in Nat /\ taken \in Nat /\ taken + n \in 0..Len(content)
  BY <1>1, ReadAssumption DEF HashIInv, Read
<1>3. given = SubSeq(content, 1, taken) /\ hasher = "example"
  BY DEF HashIInv, GivenIsTaken, Read, Runs
<1>4. given' = SubSeq(content, 1, taken)
                 \o SubSeq(content, taken + 1, taken + n)
  BY <1>3 DEF Read
<1>5. given' = SubSeq(content, 1, taken + n)
  <2>1. /\ 1 \in 1..(Len(content) + 1)
        /\ taken \in (1 - 1)..Len(content)
        /\ taken + n \in taken..Len(content)
    BY <1>1, <1>2
  <2> QED
    BY <1>1, <1>4, <2>1, ConcatAdjacentSubSeq
<1>6. GivenIsTaken'
  BY <1>5 DEF Read, GivenIsTaken
<1>7. CASE last_read(n)
  <2>1. taken + n = Len(content)
    BY <1>1, <1>2, <1>7 DEF Read, last_read
  <2>2. given' = content
    BY <1>1, <1>5, <2>1, SubSeqFull
  <2> QED
    BY <1>2, <1>6, <1>7, <2>2 DEF HashIInv, Read
<1>8. CASE ~ last_read(n)
  BY <1>2, <1>6, <1>8 DEF HashIInv, Read, Runs
<1> QED
  BY <1>7, <1>8

\* main_blake3_measure.c hashes its buffer, which is the file if fread came
\* to the end.
LEMMA MeasureKeeps ==
  ASSUME HashIInv, NEW n \in 0..Len(content), Measure(n)
  PROVE  HashIInv'
<1>1. content \in Seq(Values) /\ Len(content) \in Nat
  BY ContentIsSequence
<1>2. n = Len(content) => given' = content
  BY <1>1, WholeBuffer DEF Measure
<1>3. hasher' = "measure"
  BY DEF Measure, Runs
<1> QED
  BY <1>2, <1>3 DEF HashIInv, Measure, GivenIsTaken

LEMMA HashStepKeeps == HashIInv /\ [HashNext]_hashVars => HashIInv'
<1> SUFFICES ASSUME HashIInv, [HashNext]_hashVars PROVE HashIInv'
  OBVIOUS
<1>1. CASE \E n \in 0..READ_LEN : Read(n)
  BY <1>1, ReadKeeps
<1>2. CASE ReadError
  BY <1>2 DEF HashIInv, ReadError, Runs, GivenIsTaken
<1>3. CASE NoFile
  BY <1>3 DEF HashIInv, NoFile, Runs, GivenIsTaken
<1>4. CASE NoMemory
  BY <1>4 DEF HashIInv, NoMemory, Runs, GivenIsTaken
<1>5. CASE \E n \in 0..Len(content) : Measure(n)
  BY <1>5, MeasureKeeps
<1>6. CASE UNCHANGED hashVars
  BY <1>6 DEF HashIInv, hashVars, GivenIsTaken
<1> QED
  BY <1>1, <1>2, <1>3, <1>4, <1>5, <1>6 DEF HashNext

\* A digest printed by a program that ended well is that of its whole input,
\* and no other run prints one (example.c, main_blake3_measure.c).
THEOREM DigestCorrect == HashSpec => []DigestIsOfInput
<1>1. HashIInv => DigestIsOfInput
  BY DEF HashIInv, DigestIsOfInput
<1> QED
  BY <1>1, HashInitially, HashStepKeeps, PTL DEF HashSpec

-----------------------------------------------------------------------------
(***************************************************************************)
(* A context without a key: gcm_setkey has refused the key's size, and the *)
(* tables of H are zeros.                                                  *)
(***************************************************************************)
LEMMA UpdateOfContext ==
  ASSUME NEW c, NEW mem, NEW src, NEW dst, NEW n
  PROVE  \E y, buf : gcm_update(c, mem, src, dst, n).ctx
                       = gcm_context(c.mode, c.len + n, c.add_len, c.H,
                                     c.base_ectr, y, buf, c.rk)
<1> DEFINE N == Blocks(n)
           First == [y |-> c.y, buf |-> c.buf, mem |-> mem]
           st == CHOOSE step : step = [k \in 0..N |->
                   IF k = 0 THEN First
                   ELSE UpdateStep(c, src, dst, n, step[k-1], k)]
<1>1. gcm_update(c, mem, src, dst, n).ctx
        = gcm_context(c.mode, c.len + n, c.add_len, c.H, c.base_ectr,
                      st[N].y, st[N].buf, c.rk)
  BY DEF gcm_update, UpdateStep
<1> HIDE DEF st
<1> QED
  BY <1>1

\* Its tags are the cipher of the first counter alone, under whatever rk is.
LEMMA TagWithoutKey ==
  ASSUME NEW c, c.H = Null, NEW mode, NEW iv, NEW add, NEW mem, NEW src, NEW dst,
         NEW n, NEW tag_len \in Nat, tag_len <= BLOCK_LEN, NEW i \in 1..tag_len
  PROVE  gcm_crypt_and_tag(c, mode, iv, add, mem, src, dst, n, tag_len).tag[i]
           = {[key |-> c.rk, block |-> first_counter(Null, iv), at |-> i]}
<1> DEFINE y == first_counter(Null, iv)
           s == gcm_start(c, mode, iv, add)
           up == gcm_update(s, mem, src, dst, n)
           fin == gcm_finish(up.ctx, tag_len)
<1>1. s.H = Null /\ s.base_ectr = aes_cipher(c.rk, y)
  BY DEF gcm_start, gcm_context
<1> HIDE DEF s, y
<1>2. up.ctx.H = Null /\ up.ctx.base_ectr = aes_cipher(c.rk, y)
  <2>1. PICK z, buf : up.ctx = gcm_context(s.mode, s.len + n, s.add_len, s.H,
                                           s.base_ectr, z, buf, s.rk)
    BY UpdateOfContext
  <2> HIDE DEF up
  <2> QED
    BY <1>1, <2>1 DEF gcm_context
<1> HIDE DEF up
<1>3. i \in 1..BLOCK_LEN
  BY BlockLength
<1>4. \A h : gcm_mult(Null, h) = HashZero
  BY DEF gcm_mult
<1>5. hash_byte(Null, HashZero, i) = {}
  BY <1>3 DEF hash_byte, HashZero, running_hash, ZeroBlock, xor
<1>6. fin.tag[i] = up.ctx.base_ectr[i]
  BY <1>2, <1>4, <1>5, XorFacts DEF gcm_finish
<1>7. up.ctx.base_ectr[i] = {[key |-> c.rk, block |-> y, at |-> i]}
  BY <1>2, <1>3 DEF aes_cipher
<1>8. gcm_crypt_and_tag(c, mode, iv, add, mem, src, dst, n, tag_len).tag = fin.tag
  BY DEF gcm_crypt_and_tag, s, up
<1> QED
  BY <1>6, <1>7, <1>8 DEF y

\* Keyed or not, what a call writes is its input in counter mode, from the
\* first counter and under the round keys of its context.
LEMMA OutputOfContext ==
  ASSUME NEW c, NEW mode, NEW iv, IsCounter(first_counter(c.H, iv)),
         NEW add, IsSeq(add), NEW mem, NEW src, NEW dst, NEW bytes,
         Room(mem, src, dst, Len(bytes)), Holds(mem, src, bytes), NEW tag_len
  PROVE  Cut(gcm_crypt_and_tag(c, mode, iv, add, mem, src, dst, Len(bytes),
                               tag_len).mem, dst, Len(bytes))
           = CryptFrom(c.rk, first_counter(c.H, iv), bytes)
<1> DEFINE y == first_counter(c.H, iv)
           s == gcm_start(c, mode, iv, add)
           n == Len(bytes)
           up == gcm_update(s, mem, src, dst, n)
<1>1. s.H = c.H /\ s.rk = c.rk /\ s.y = y /\ s.buf = absorb(c.H, HashZero, add)
  BY DEF gcm_start, gcm_context
<1>2. PICK bs : IsSeq(bs) /\ (c.H = Null \/ s.buf = HashOf(bs))
  <2>1. CASE c.H = Null
    BY <2>1, EmptyIs
  <2>2. CASE c.H # Null
    BY <1>1, <2>2, AbsorbFirst, PaddedIs
  <2> QED
    BY <2>1, <2>2
<1>3. gcm_crypt_and_tag(c, mode, iv, add, mem, src, dst, n, tag_len).mem = up.mem
  BY DEF gcm_crypt_and_tag
<1> HIDE DEF y, s
<1>4. up.mem = Written(c.rk, y, mem, src, dst, n)
  <2>1. IsCounter(s.y) /\ Room(mem, src, dst, n) /\ (s.H = Null \/ s.buf = HashOf(bs))
    BY <1>1, <1>2 DEF y
  <2>2. gcm_update(s, mem, src, dst, n).mem = Written(s.rk, s.y, mem, src, dst, n)
    BY <1>2, <2>1, UpdateIs
  <2> QED
    BY <1>1, <2>2
<1>5. Cut(Written(c.rk, y, mem, src, dst, n), dst, n) = CryptFrom(c.rk, y, bytes)
  BY OutputIs
<1> QED
  BY <1>3, <1>4, <1>5 DEF y

-----------------------------------------------------------------------------
(***************************************************************************)
(* The test program.  Each verify function tells right records from wrong  *)
(* ones: under a legal key it compares with the mode, and under any other  *)
(* key the tag is of the zeros that gcm_setkey leaves as round keys.       *)
(***************************************************************************)
LEMMA IsByteSequence ==
  ASSUME NEW s, s \in Seq({s[i] : i \in DOMAIN s})
  PROVE  IsSeq(s)
<1>1. \A S : s \in Seq(S) => IsSeq(s)
  BY LenProperties DEF IsSeq
<1> QED
  BY <1>1

LEMMA RecordIs ==
  ASSUME NEW r, IsRecord(r)
  PROVE  /\ GoodIV(r.iv) /\ IsSeq(r.aad) /\ IsSeq(r.pt) /\ IsSeq(r.ct)
         /\ IsSeq(r.tag) /\ Len(r.pt) = Len(r.ct) /\ Len(r.tag) <= BLOCK_LEN
         /\ Len(r.ct) \in Nat /\ Len(r.tag) \in Nat
<1>1. IsSeq(r.iv) /\ IsSeq(r.aad) /\ IsSeq(r.pt) /\ IsSeq(r.ct) /\ IsSeq(r.tag)
  BY IsByteSequence DEF IsRecord
<1> QED
  BY <1>1 DEF IsRecord, GoodIV, CounterBytes, IsSeq

LEMMA TestMemoryIs ==
  ASSUME NEW bytes, IsSeq(bytes), NEW src, src = 0, NEW n, n = Len(bytes)
  PROVE  Room(test_memory(bytes), src, n, n) /\ Holds(test_memory(bytes), src, bytes)
<1> DEFINE mem == test_memory(bytes)
<1>1. n \in Nat
  BY DEF IsSeq
<1>2. /\ DOMAIN mem = 1..(2 * n) /\ mem = [a \in DOMAIN mem |-> mem[a]]
      /\ \A a \in 1..(2 * n) : a <= n => mem[a] = bytes[a]
  BY DEF test_memory
<1> HIDE DEF mem
<1>3. Room(mem, src, n, n)
  BY <1>1, <1>2 DEF Room
<1>4. Holds(mem, src, bytes)
  BY <1>1, <1>2 DEF Holds
<1> QED
  BY <1>3, <1>4 DEF mem

LEMMA OutputIsCut ==
  ASSUME NEW r, Len(r.ct) \in Nat, NEW mem
  PROVE  output(r, mem) = Cut(mem, Len(r.ct), Len(r.ct))
<1>1. 2 * Len(r.ct) = Len(r.ct) + Len(r.ct)
  OBVIOUS
<1> QED
  BY <1>1 DEF output, Cut

LEMMA LegalRecord ==
  ASSUME NEW r, IsRecord(r), r.key.size \in KeySizes
  PROVE  verified(r) <=> Truthful(r)
<1> DEFINE k == r.key
           iv == r.iv
           ct == r.ct
           c == test_ctx(r)
           t == Len(r.tag)
<1>0. PICK src, n : src = 0 /\ n = Len(ct)
  OBVIOUS
<1>1. /\ GoodIV(iv) /\ IsSeq(r.aad) /\ IsSeq(r.pt) /\ IsSeq(ct)
      /\ IsSeq(r.tag) /\ Len(r.pt) = n /\ t <= BLOCK_LEN /\ n \in Nat /\ t \in Nat
  BY <1>0, RecordIs
<1>2. k # Null /\ c.H = k /\ c.rk = k
  BY DEF IsRecord, test_ctx, gcm_setkey, gcm_context
<1>3. \A mem : output(r, mem) = Cut(mem, n, n)
  BY <1>0, <1>1, OutputIsCut
<1> HIDE DEF k, c
<1>4. verify_gcm_encryption(r)
        <=> Crypt(k, iv, r.pt) = ct
            /\ Tag(k, iv, r.aad, Crypt(k, iv, r.pt), t) = r.tag
  <2>1. PICK mode, mem : mode = "ENCRYPT" /\ mem = test_memory(r.pt)
    OBVIOUS
  <2>2. Room(mem, src, n, n) /\ Holds(mem, src, r.pt)
    BY <1>0, <1>1, <2>1, TestMemoryIs
  <2> DEFINE did == gcm_crypt_and_tag(c, mode, iv, r.aad, mem, src, n, n, t)
  <2>3. /\ Cut(did.mem, n, n) = Crypt(k, iv, r.pt)
        /\ did.tag = Tag(k, iv, r.aad,
                         IF mode = "ENCRYPT" THEN Crypt(k, iv, r.pt) ELSE r.pt, t)
    BY <1>1, <1>2, <2>2, CryptAndTagIsGcm
  <2>4. verify_gcm_encryption(r) <=> output(r, did.mem) = ct /\ did.tag = r.tag
    BY <1>0, <2>1 DEF verify_gcm_encryption, c
  <2> HIDE DEF did
  <2> QED
    BY <1>3, <2>1, <2>3, <2>4
<1>5. OpenedAs(opened_record(r), k, iv, r.aad, ct, r.tag, n)
  <2>1. PICK mem : mem = test_memory(ct)
    OBVIOUS
  <2>2. Room(mem, src, n, Len(ct)) /\ Holds(mem, src, ct)
    BY <1>0, <1>1, <2>1, TestMemoryIs
  <2>3. OpenedAs(gcm_auth_decrypt(c, iv, r.aad, mem, src, n, Len(ct), r.tag),
                 k, iv, r.aad, ct, r.tag, n)
    BY <1>1, <1>2, <2>2, AuthDecryptIsGcm
  <2> QED
    BY <1>0, <2>1, <2>3 DEF opened_record, c
<1>6. /\ opened_record(r).ret = "OK" <=> r.tag = Tag(k, iv, r.aad, ct, t)
      /\ opened_record(r).ret = "GCM_AUTH_FAILURE"
           <=> r.tag # Tag(k, iv, r.aad, ct, t)
      /\ opened_record(r).ret = "OK"
           => output(r, opened_record(r).mem) = Crypt(k, iv, ct)
  BY <1>0, <1>3, <1>5 DEF OpenedAs
<1>7. Crypt(k, iv, ct) = r.pt <=> ct = Crypt(k, iv, r.pt)
  <2>1. \A s : IsSeq(s) => Crypt(k, iv, Crypt(k, iv, s)) = s
    BY TextComesBack
  <2> QED
    BY <1>1, <2>1
<1> DEFINE T == Tag(k, iv, r.aad, ct, t)
<1>8. Truthful(r) <=> CASE r.type \in {1, 2} -> r.tag = T /\ ct = Crypt(k, iv, r.pt)
                        [] r.type = 3 -> r.tag # T
                        [] OTHER -> TRUE
  BY DEF Truthful, k
<1> HIDE DEF ct, T
<1>9. CASE r.type = 1
  <2>1. verified(r) <=> verify_gcm_encryption(r)
    BY <1>9 DEF verified
  <2>2. Truthful(r) <=> r.tag = T /\ ct = Crypt(k, iv, r.pt)
    BY <1>8, <1>9
  <2> QED
    BY <1>4, <2>1, <2>2 DEF T
<1>10. CASE r.type = 2
  <2>1. verified(r) <=> verify_gcm_decryption(r)
    BY <1>10 DEF verified
  <2>2. Truthful(r) <=> r.tag = T /\ ct = Crypt(k, iv, r.pt)
    BY <1>8, <1>10
  <2>3. verify_gcm_decryption(r) <=> r.tag = T /\ Crypt(k, iv, ct) = r.pt
    BY <1>6 DEF T, verify_gcm_decryption
  <2> QED
    BY <1>7, <2>1, <2>2, <2>3
<1>11. CASE r.type = 3
  <2>1. verified(r) <=> verify_bad_decryption(r)
    BY <1>11 DEF verified
  <2>2. Truthful(r) <=> r.tag # T
    BY <1>8, <1>11
  <2> QED
    BY <1>6, <2>1, <2>2 DEF T, verify_bad_decryption
<1>12. CASE r.type \notin {1, 2, 3}
  BY <1>8, <1>12 DEF verified
<1> QED
  BY <1>9, <1>10, <1>11, <1>12

LEMMA IllegalRecord ==
  ASSUME NEW r, IsRecord(r), r.key.size \notin KeySizes
  PROVE  verified(r) <=> Truthful(r)
<1> DEFINE c == test_ctx(r)
           t == Len(r.tag)
<1>1. c.H = Null /\ c.rk = ZeroKey
  BY DEF test_ctx, gcm_setkey, gcm_context
<1>2. t \in Nat /\ t <= BLOCK_LEN /\ IsSeq(r.tag) /\ r.tag # <<>>
  BY RecordIs DEF IsRecord
<1>3. PICK one \in 1..t : one = 1
  <2>1. t # 0
    BY <1>2, EmptyIs
  <2> QED
    BY <1>2, <2>1
<1> HIDE DEF c
<1>4. \A mode, mem, src, dst, n :
        gcm_crypt_and_tag(c, mode, r.iv, r.aad, mem, src, dst, n, t).tag # r.tag
  <2> TAKE mode, mem, src, dst, n
  <2>1. PICK tag : tag = gcm_crypt_and_tag(c, mode, r.iv, r.aad, mem, src, dst, n,
                                           t).tag
    OBVIOUS
  <2>2. tag[one] = {[key |-> c.rk, block |-> first_counter(Null, r.iv), at |-> one]}
    BY <1>1, <1>2, <2>1, TagWithoutKey
  <2>3. PICK u : /\ u = [key |-> ZeroKey, block |-> first_counter(Null, r.iv),
                         at |-> one]
                 /\ u \in tag[one]
    BY <1>1, <2>2
  <2>4. "key" \in DOMAIN u /\ u.key = ZeroKey
    BY <2>3
  <2>5. u \notin r.tag[one]
    BY <1>3, <2>4 DEF IsRecord
  <2> QED
    BY <2>1, <2>3, <2>5
<1>5. ~ verify_gcm_encryption(r)
  BY <1>4 DEF verify_gcm_encryption, c
<1>6. opened_record(r).ret = "GCM_AUTH_FAILURE"
  BY <1>4 DEF opened_record, gcm_auth_decrypt, c
<1>7. ~ verify_gcm_decryption(r) /\ verify_bad_decryption(r)
  BY <1>6 DEF verify_gcm_decryption, verify_bad_decryption
<1>8. Truthful(r) <=> CASE r.type \in {1, 2} -> FALSE
                        [] r.type = 3 -> TRUE
                        [] OTHER -> TRUE
  BY DEF Truthful
<1> QED
  BY <1>5, <1>7, <1>8 DEF verified

LEMMA VerifiedIsTruthful ==
  ASSUME NEW f \in TestFiles, NEW i \in 1..Len(f)
  PROVE  verified(f[i]) <=> Truthful(f[i])
BY VectorAssumption, LegalRecord, IllegalRecord

Passed == <<0>>
Failed == <<1>>

TestTypeOK ==
  /\ testcount \in Nat /\ base \in Nat /\ next \in Nat \ {0}
  /\ stage \in {"idle", "verify"}
  /\ vd \in TestFiles \cup {<<>>}

\* What has been counted in this call, and what was found of it.
Counted ==
  /\ testcount - base = next - 1
  /\ next - 1 <= Len(vd)
  /\ \A i \in 1..(next - 1) : verified(vd[i])

TestIInv ==
  /\ TestTypeOK
  /\ BufferIsReleased
  /\ stage = "verify" \/ ret \in {Passed, Failed} => Counted
  /\ stage = "idle" /\ ret = Passed => next - 1 = Len(vd)
  /\ stage = "idle" /\ ret = Failed => next <= Len(vd) /\ ~ verified(vd[next])

LEMMA LengthIsNatural == TestTypeOK => Len(vd) \in Nat
<1>1. Len(<<>>) = 0
  OBVIOUS
<1>2. \A f \in TestFiles : Len(f) \in Nat
  BY VectorAssumption
<1> QED
  BY <1>1, <1>2 DEF TestTypeOK

\* The answers of a call that did not come to the loop are neither verdict.
LEMMA NoVerdict ==
  \A r \in {<<>>, <<-1>>, <<-2>>, <<-3>>} : r \notin {Passed, Failed}
BY DEF Passed, Failed

LEMMA VerdictsDiffer == Passed # Failed
BY DEF Passed, Failed

LEMMA TestInitially == TestInit => TestIInv
<1> SUFFICES ASSUME TestInit PROVE TestIInv
  OBVIOUS
<1>1. TestTypeOK /\ BufferIsReleased
  BY DEF TestInit, TestTypeOK, BufferIsReleased
<1>2. stage = "idle" /\ ret \notin {Passed, Failed}
  BY NoVerdict DEF TestInit
<1> QED
  BY <1>1, <1>2 DEF TestIInv

\* A call that gives up while loading.
LEMMA RefusalKeeps ==
  ASSUME TestIInv, FileMissing \/ MallocFails \/ ReadFails
  PROVE  TestIInv'
<1>1. stage' = "idle" /\ ret' \notin {Passed, Failed}
  BY NoVerdict DEF FileMissing, MallocFails, ReadFails, Begins, TestIInv, TestTypeOK
<1>2. TestTypeOK'
  BY DEF TestIInv, TestTypeOK, FileMissing, MallocFails, ReadFails, Begins
<1>3. BufferIsReleased'
  BY <1>1 DEF TestIInv, BufferIsReleased, FileMissing, MallocFails, ReadFails,
             Begins, heap_after_short_read
<1> QED
  BY <1>1, <1>2, <1>3 DEF TestIInv

LEMMA LoadKeeps ==
  ASSUME TestIInv, NEW file \in TestFiles, Load(file)
  PROVE  TestIInv'
<1>1. TestTypeOK' /\ BufferIsReleased'
  BY DEF TestIInv, TestTypeOK, BufferIsReleased, Load, Begins
<1>2. Len(vd') \in Nat
  BY <1>1, LengthIsNatural, VectorAssumption DEF Load
<1>3. testcount' - base' = 0 /\ next' = 1 /\ stage' = "verify"
  BY DEF TestIInv, TestTypeOK, Load, Begins
<1>4. Counted'
  BY <1>2, <1>3 DEF Counted
<1> QED
  BY <1>1, <1>3, <1>4 DEF TestIInv

LEMMA PassKeeps == ASSUME TestIInv, Pass PROVE TestIInv'
<1>1. Len(vd) \in Nat /\ Counted /\ TestTypeOK
  BY LengthIsNatural DEF TestIInv, Pass
<1>2. TestTypeOK' /\ BufferIsReleased'
  BY <1>1 DEF TestIInv, TestTypeOK, BufferIsReleased, Pass
<1>3. \A i \in 1..(next' - 1) : i \in 1..(next - 1) \/ i = next
  BY <1>1 DEF TestTypeOK, Pass
<1>4. Counted'
  BY <1>1, <1>3 DEF Counted, TestTypeOK, Pass
<1> QED
  BY <1>2, <1>4 DEF TestIInv, Pass

LEMMA EndKeeps == ASSUME TestIInv, Fail \/ AllDone PROVE TestIInv'
<1>1. Len(vd) \in Nat /\ Counted /\ TestTypeOK
  BY LengthIsNatural DEF TestIInv, Fail, AllDone
<1>2. /\ stage' = "idle" /\ heap' = "freed"
      /\ UNCHANGED <<testcount, base, vd, next>>
  BY DEF Fail, AllDone, Finish
<1>3. TestTypeOK' /\ BufferIsReleased' /\ Counted'
  BY <1>1, <1>2 DEF TestTypeOK, BufferIsReleased, Counted
<1>4. CASE Fail
  <2>1. ret' = Failed /\ next <= Len(vd) /\ ~ verified(vd[next])
    BY <1>4 DEF Fail, Finish, Failed
  <2> QED
    BY <2>1, <1>2, <1>3, VerdictsDiffer DEF TestIInv
<1>5. CASE AllDone
  <2>1. ret' = Passed /\ next > Len(vd)
    BY <1>5 DEF AllDone, Finish, Passed
  <2>2. next - 1 = Len(vd)
    BY <2>1, <1>1 DEF Counted, TestTypeOK
  <2> QED
    BY <2>1, <2>2, <1>2, <1>3, VerdictsDiffer DEF TestIInv
<1> QED
  BY <1>4, <1>5

LEMMA TestStepKeeps == TestIInv /\ [TestNext]_testVars => TestIInv'
<1> SUFFICES ASSUME TestIInv, [TestNext]_testVars PROVE TestIInv'
  OBVIOUS
<1>1. CASE FileMissing \/ MallocFails \/ ReadFails
  BY <1>1, RefusalKeeps
<1>2. ASSUME NEW file \in TestFiles, Load(file) PROVE TestIInv'
  BY <1>2, LoadKeeps
<1>3. CASE Pass
  BY <1>3, PassKeeps
<1>4. CASE Fail \/ AllDone
  BY <1>4, EndKeeps
<1>5. CASE UNCHANGED testVars
  BY <1>5 DEF testVars, TestIInv, TestTypeOK, BufferIsReleased, Counted
<1> QED
  BY <1>1, <1>2, <1>3, <1>4, <1>5 DEF TestNext

LEMMA TestAlways == TestSpec => []TestIInv
BY TestInitially, TestStepKeeps, PTL DEF TestSpec

\* However loading or testing ends, the buffer of the file is given back, and
\* no record is read from a buffer that is not there (startTest).
THEOREM BufferAlwaysReleased == TestSpec => []BufferIsReleased
<1>1. TestIInv => BufferIsReleased
  BY DEF TestIInv
<1> QED
  BY <1>1, TestAlways, PTL

\* The suite says PASSED exactly when every record is true of the mode, for
\* files of any number of records and any number of calls, and it has counted
\* exactly the records in front of the first wrong one.
THEOREM VerdictCorrect == TestSpec => []VerdictIsRight
<1>1. TestIInv => VerdictIsRight
  <2> SUFFICES ASSUME TestIInv, stage = "idle", ret \in {Passed, Failed}
               PROVE  /\ (ret = Passed) <=> \A i \in 1..Len(vd) : Truthful(vd[i])
                      /\ testcount - base = next - 1
                      /\ \A i \in 1..(next - 1) : Truthful(vd[i])
                      /\ ret = Passed => next - 1 = Len(vd)
    BY DEF VerdictIsRight, Passed, Failed
  <2>1. TestTypeOK /\ Counted /\ Len(vd) \in Nat
    BY LengthIsNatural DEF TestIInv
  <2>2. Len(<<>>) = 0
    OBVIOUS
  <2>3. \A i \in 1..Len(vd) : verified(vd[i]) <=> Truthful(vd[i])
    BY <2>1, <2>2, VerifiedIsTruthful DEF TestTypeOK
  <2>4. \A i \in 1..(next - 1) : i \in 1..Len(vd)
    BY <2>1 DEF TestTypeOK, Counted
  <2>5. CASE ret = Passed
    BY <2>1, <2>3, <2>4, <2>5 DEF TestIInv, Counted
  <2>6. CASE ret = Failed
    <3>1. next \in 1..Len(vd) /\ ~ verified(vd[next])
      BY <2>1, <2>6 DEF TestIInv, TestTypeOK
    <3> QED
      BY <2>1, <2>3, <2>4, <2>6, <3>1, VerdictsDiffer DEF Counted
  <2> QED
    BY <2>5, <2>6
<1> QED
  BY <1>1, TestAlways, PTL

-----------------------------------------------------------------------------
(***************************************************************************)
(* The one-call client.  A call is answered only if the tables were there, *)
(* and then its output is its input in counter mode, under the round keys  *)
(* that gcm_setkey leaves for its key and from the first counter for its   *)
(* IV, whether or not it was refused.  A call without an answer is the     *)
(* last one of the process.                                                *)
(***************************************************************************)
Ctx(key) == gcm_setkey(TRUE, key).ctx

Masked(key, iv, bytes) ==
  CryptFrom(Ctx(key).rk, first_counter(Ctx(key).H, iv), bytes)

IsCall(c) ==
  /\ IsSeq(c.input) /\ IsSeq(c.output) /\ Len(c.output) <= MaxLen
  /\ c.key # Null /\ GoodIV(c.iv)
  /\ c.ret = <<>> \/ (c.ret = <<0>> /\ c.output = Masked(c.key, c.iv, c.input))

ClientIInv ==
  /\ tables_inited \in BOOLEAN
  /\ IsSeq(calls)
  /\ \A i \in 1..Len(calls) :
       IsCall(calls[i]) /\ (calls[i].ret # <<>> \/ (~ running /\ i = Len(calls)))

LEMMA ClientArguments ==
  /\ \A iv \in IVs \cup {FileIV} : GoodIV(iv)
  /\ \A s \in Texts : IsSeq(s) /\ Len(s) <= MaxLen
  /\ \A key \in Keys \cup {FileKey} : key # Null
  /\ MaxLen \in Nat
<1>1. \A s \in Texts \cup IVs \cup {FileIV} : IsSeq(s)
  BY ClientAssumption, IsByteSequence
<1> QED
  BY <1>1, ClientAssumption DEF GoodIV, CounterBytes

LEMMA FirstCounterOfContext ==
  ASSUME NEW key, key # Null, NEW iv, GoodIV(iv)
  PROVE  IsCounter(first_counter(Ctx(key).H, iv))
<1>1. CASE key.size \in KeySizes
  <2>1. Ctx(key).H = key
    BY <1>1 DEF Ctx, gcm_setkey, gcm_context
  <2>2. first_counter(key, iv) = J0(iv)
    BY FirstCounterIs DEF GoodIV
  <2> QED
    BY <2>1, <2>2, J0IsCounter
<1>2. CASE key.size \notin KeySizes
  <2>1. Ctx(key).H = Null
    BY <1>2 DEF Ctx, gcm_setkey, gcm_context
  <2>2. \A h : gcm_mult(Null, h).absorbed = <<>>
    BY DEF gcm_mult, HashZero, running_hash
  <2>3. first_counter(Null, iv) =
          IF Len(iv) = IV_LEN THEN counter_block(iv, <<>>, AsBytes(1))
          ELSE counter_block(<<>>, <<>>, HashedCounter(<<>>))
    BY <2>2, OneIs DEF first_counter
  <2>4. AsBytes(1) \in CounterBytes /\ HashedCounter(<<>>) \in CounterBytes
    BY OneIsCounter, ClientAssumption DEF CounterBytes
  <2> QED
    BY <2>1, <2>3, <2>4 DEF IsCounter, counter_block
<1> QED
  BY <1>1, <1>2

LEMMA RoomInClient ==
  ASSUME NEW src, NEW dst, src = 0, dst \in {0, MaxLen}, NEW bytes, IsSeq(bytes),
         Len(bytes) <= MaxLen
  PROVE  /\ Room(Holding(bytes), src, dst, Len(bytes))
         /\ Holds(Holding(bytes), src, bytes)
<1> DEFINE mem == Holding(bytes)
<1>1. MaxLen \in Nat /\ Len(bytes) \in Nat
  BY ClientArguments DEF IsSeq
<1>2. /\ DOMAIN mem = 1..(2 * MaxLen) /\ mem = [a \in DOMAIN mem |-> mem[a]]
      /\ \A a \in 1..(2 * MaxLen) :
           mem[a] = IF a <= Len(bytes) THEN bytes[a] ELSE {}
  BY DEF Holding, Mem
<1> HIDE DEF mem
<1>3. Room(mem, src, dst, Len(bytes))
  BY <1>1, <1>2 DEF Room
<1>4. Holds(mem, src, bytes)
  BY <1>1, <1>2 DEF Holds
<1> QED
  BY <1>3, <1>4 DEF mem

Output(mode, key, iv, bytes, dst, tag_len) ==
  Cut(set_and_crypt(mode, key, iv, Holding(bytes), 0, dst, Len(bytes), tag_len).mem,
      dst, Len(bytes))

IsMasked(out, key, iv, bytes) ==
  out = Masked(key, iv, bytes) /\ IsSeq(out) /\ Len(out) = Len(bytes)

\* What set_and_crypt writes, for a caller that is answered.
LEMMA CallWrites ==
  ASSUME tables_inited = TRUE, NEW mode, NEW key, key # Null, NEW iv, GoodIV(iv),
         NEW bytes, IsSeq(bytes), Len(bytes) <= MaxLen, NEW dst \in {0, MaxLen},
         NEW tag_len
  PROVE  IsMasked(Output(mode, key, iv, bytes, dst, tag_len), key, iv, bytes)
<1>1. PICK src, mem, none : src = 0 /\ mem = Holding(bytes) /\ none = <<>>
  OBVIOUS
<1>2. Room(mem, src, dst, Len(bytes)) /\ Holds(mem, src, bytes)
  BY <1>1, RoomInClient
<1> DEFINE c == Ctx(key)
           did == gcm_crypt_and_tag(c, mode, iv, none, mem, src, dst, Len(bytes),
                                    tag_len)
<1>3. IsSeq(none) /\ IsCounter(first_counter(c.H, iv))
  BY <1>1, EmptyIs, FirstCounterOfContext
<1>4. Cut(did.mem, dst, Len(bytes)) = CryptFrom(c.rk, first_counter(c.H, iv), bytes)
  <2> HIDE DEF c
  <2> QED
    BY <1>2, <1>3, OutputOfContext
<1>5. did = set_and_crypt(mode, key, iv, Holding(bytes), 0, dst, Len(bytes), tag_len)
  BY <1>1 DEF set_and_crypt, Ctx
<1>6. /\ IsSeq(Masked(key, iv, bytes))
      /\ Len(Masked(key, iv, bytes)) = Len(bytes)
  BY CryptFromIs DEF Masked
<1>7. Cut(did.mem, dst, Len(bytes)) = Masked(key, iv, bytes)
  BY <1>4 DEF Masked
<1> QED
  BY <1>5, <1>6, <1>7 DEF Output, IsMasked

LEMMA AppendKeeps ==
  ASSUME ClientIInv, running, NEW c, IsCall(c), calls' = Append(calls, c),
         tables_inited' = tables_inited, c.ret # <<>> \/ ~ running'
  PROVE  ClientIInv'
<1>1. PICK n \in Nat : n = Len(calls)
  BY DEF ClientIInv, IsSeq
<1>2. PICK more : more = Append(calls, c)
  OBVIOUS
<1>3. /\ IsSeq(more) /\ Len(more) = n + 1 /\ more[n + 1] = c
      /\ \A i \in 1..n : more[i] = calls[i]
  BY <1>1, <1>2, AppendIs DEF ClientIInv
<1>4. \A i \in 1..(n + 1) : i \in 1..n \/ i = n + 1
  OBVIOUS
<1>5. \A i \in 1..n : IsCall(calls[i]) /\ calls[i].ret # <<>>
  BY <1>1 DEF ClientIInv
<1>6. \A i \in 1..(n + 1) :
        IsCall(more[i]) /\ (more[i].ret # <<>> \/ (~ running' /\ i = n + 1))
  BY <1>3, <1>4, <1>5
<1>7. calls' = more /\ tables_inited' \in BOOLEAN
  BY <1>2 DEF ClientIInv
<1>8. \A i : IsCall(calls[i])' <=> IsCall(calls'[i])
  BY DEF IsCall
<1> QED
  BY <1>3, <1>6, <1>7, <1>8 DEF ClientIInv

\* Without the tables a context has no round keys.
LEMMA KeysNeedTables ==
  ASSUME ClientIInv, NEW key, has_round_keys(key)
  PROVE  tables_inited = TRUE
BY DEF ClientIInv, has_round_keys, gcm_setkey, ZeroCtx, gcm_context

LEMMA InputsAre ==
  ASSUME ClientIInv, NEW bytes \in Inputs
  PROVE  IsSeq(bytes) /\ Len(bytes) <= MaxLen
BY ClientArguments DEF Inputs, ClientIInv, IsCall

LEMMA NotEmpty == <<0>> # <<>>
OBVIOUS

LEMMA EncryptKeeps ==
  ASSUME ClientIInv, NEW key \in Keys, NEW iv \in IVs, NEW bytes \in Inputs,
         NEW dst \in {0, MaxLen},
         Encrypt(key, iv, bytes, dst) \/ Decrypt(key, iv, bytes, dst)
  PROVE  ClientIInv'
<1>1. IsSeq(bytes) /\ Len(bytes) <= MaxLen /\ GoodIV(iv) /\ key # Null
  BY InputsAre, ClientArguments
<1>2. tables_inited = TRUE
  BY KeysNeedTables DEF Encrypt, Decrypt
<1>3. PICK enc, dec, none : enc = "ENCRYPT" /\ dec = "DECRYPT" /\ none = 0
  OBVIOUS
<1> DEFINE e == Output(enc, key, iv, bytes, dst, none)
           d == Output(dec, key, iv, bytes, dst, none)
<1>4. /\ aes_gcm_encrypt(key, iv, bytes, dst) = answer("encrypt", key, iv, bytes, e)
      /\ aes_gcm_decrypt(key, iv, bytes, dst) = answer("decrypt", key, iv, bytes, d)
  BY <1>3 DEF aes_gcm_encrypt, aes_gcm_decrypt, Output, Cut
<1>5. IsMasked(e, key, iv, bytes) /\ IsMasked(d, key, iv, bytes)
  BY <1>1, <1>2, CallWrites
<1> HIDE DEF e, d
<1>6. /\ IsCall(answer("encrypt", key, iv, bytes, e))
      /\ IsCall(answer("decrypt", key, iv, bytes, d))
      /\ answer("encrypt", key, iv, bytes, e).ret # <<>>
      /\ answer("decrypt", key, iv, bytes, d).ret # <<>>
  BY <1>1, <1>5, NotEmpty DEF answer, IsCall, IsMasked
<1>7. PICK c : IsCall(c) /\ c.ret # <<>> /\ calls' = Append(calls, c)
  BY <1>4, <1>6 DEF Encrypt, Decrypt
<1>8. tables_inited' = tables_inited /\ running
  BY DEF Encrypt, Decrypt
<1> QED
  BY <1>7, <1>8, AppendKeeps

LEMMA StopKeeps ==
  ASSUME ClientIInv, NEW op, NEW key \in Keys, NEW iv \in IVs, NEW bytes \in Inputs,
         Stop(op, key, iv, bytes)
  PROVE  ClientIInv'
<1>1. IsSeq(bytes) /\ GoodIV(iv) /\ key # Null /\ MaxLen \in Nat
  BY InputsAre, ClientArguments
<1>2. IsCall(no_answer(op, key, iv, bytes))
  BY <1>1, EmptyIs DEF no_answer, IsCall
<1>3. /\ calls' = Append(calls, no_answer(op, key, iv, bytes))
      /\ tables_inited' = tables_inited /\ running /\ ~ running'
  BY DEF Stop
<1> QED
  BY <1>2, <1>3, AppendKeeps

LEMMA FileKeeps ==
  ASSUME ClientIInv, NEW bytes \in Texts, NEW n, main_encrypt(bytes, n)
  PROVE  ClientIInv'
<1> DEFINE pt == buffer_after(bytes, n)
<1>1. /\ IsSeq(bytes) /\ Len(bytes) <= MaxLen /\ GoodIV(FileIV)
      /\ FileKey # Null /\ MaxLen \in Nat
  BY ClientArguments
<1>2. IsSeq(pt) /\ Len(pt) = Len(bytes)
  <2>1. Len(bytes) \in Nat /\ pt = [i \in 1..Len(bytes) |-> pt[i]]
    BY <1>1 DEF IsSeq, buffer_after
  <2> HIDE DEF pt
  <2> QED
    BY <2>1, SeqOf
<1> HIDE DEF pt
<1>3. PICK to, len, mode, all : /\ to = MaxLen /\ len = Len(bytes)
                                /\ mode = "ENCRYPT" /\ all = BLOCK_LEN
  OBVIOUS
<1> DEFINE out == Output(mode, FileKey, FileIV, pt, to, all)
<1>4. ASSUME tables_inited = TRUE
      PROVE  IsMasked(out, FileKey, FileIV, pt)
  <2>1. Len(pt) <= MaxLen /\ to \in {0, MaxLen}
    BY <1>1, <1>2, <1>3
  <2> QED
    BY <1>1, <1>2, <1>4, <2>1, CallWrites
<1>5. /\ tables_inited' = tables_inited /\ running /\ ~ running'
      /\ calls' = Append(calls, IF has_round_keys(FileKey)
                                THEN answer("file", FileKey, FileIV, pt, out)
                                ELSE no_answer("file", FileKey, FileIV, pt))
  BY <1>2, <1>3 DEF main_encrypt, pt, Output, Cut
<1> HIDE DEF out
<1>6. IsCall(no_answer("file", FileKey, FileIV, pt))
  BY <1>1, <1>2, EmptyIs DEF no_answer, IsCall
<1>7. ASSUME has_round_keys(FileKey)
      PROVE  IsCall(answer("file", FileKey, FileIV, pt, out))
  <2>1. tables_inited = TRUE
    BY <1>7, KeysNeedTables
  <2> QED
    BY <1>1, <1>2, <1>3, <1>4, <2>1 DEF answer, IsCall, IsMasked
<1> QED
  BY <1>5, <1>6, <1>7, AppendKeeps

LEMMA ClientInitially == ClientInit => ClientIInv
<1> SUFFICES ASSUME ClientInit PROVE ClientIInv
  OBVIOUS
<1>1. IsSeq(<<>>) /\ 1..Len(<<>>) = {}
  BY EmptyIs
<1> QED
  BY <1>1 DEF ClientInit, ClientIInv

LEMMA ClientStepKeeps == ClientIInv /\ [ClientNext]_clientVars => ClientIInv'
<1> SUFFICES ASSUME ClientIInv, [ClientNext]_clientVars PROVE ClientIInv'
  OBVIOUS
<1>1. CASE gcm_initialize
  BY <1>1 DEF gcm_initialize, ClientIInv
<1>2. ASSUME NEW key \in Keys, NEW iv \in IVs, NEW bytes \in Inputs,
             NEW dst \in {0, MaxLen},
             Encrypt(key, iv, bytes, dst) \/ Decrypt(key, iv, bytes, dst)
      PROVE  ClientIInv'
  BY <1>2, EncryptKeeps
<1>3. ASSUME NEW op, NEW key \in Keys, NEW iv \in IVs, NEW bytes \in Inputs,
             Stop(op, key, iv, bytes)
      PROVE  ClientIInv'
  BY <1>3, StopKeeps
<1>4. CASE refuse
  BY <1>4 DEF refuse, ClientIInv
<1>5. ASSUME NEW bytes \in Texts, NEW n, main_encrypt(bytes, n)
      PROVE  ClientIInv'
  BY <1>5, FileKeeps
<1>6. CASE UNCHANGED clientVars
  BY <1>6 DEF clientVars, ClientIInv
<1> QED
  BY <1>1, <1>2, <1>3, <1>4, <1>5, <1>6 DEF ClientNext

LEMMA ClientAlways == ClientSpec => []ClientIInv
BY ClientInitially, ClientStepKeeps, PTL DEF ClientSpec

\* Whoever is answered under a legal key got counter mode under that key and
\* that IV, in place or not, on inputs of any length and outputs of earlier
\* calls (aes_gcm_encrypt, aes_gcm_decrypt, main_encrypt.c).
THEOREM AnswersAreCounterMode == ClientSpec => []AnsweredUnderKey
<1>1. ClientIInv => AnsweredUnderKey
  <2> SUFFICES ASSUME ClientIInv, NEW i \in 1..Len(calls),
                      calls[i].ret # <<>>, calls[i].key.size \in KeySizes
               PROVE  calls[i].output
                        = Crypt(calls[i].key, calls[i].iv, calls[i].input)
    BY NotEmpty DEF AnsweredUnderKey, Answered
  <2>1. PICK c : c = calls[i]
    OBVIOUS
  <2>2. c.key # Null /\ GoodIV(c.iv) /\ c.output = Masked(c.key, c.iv, c.input)
    BY <2>1, NotEmpty DEF ClientIInv, IsCall
  <2>3. Ctx(c.key).H = c.key /\ Ctx(c.key).rk = c.key
    BY <2>1 DEF Ctx, gcm_setkey, gcm_context
  <2>4. first_counter(c.key, c.iv) = J0(c.iv)
    BY <2>2, FirstCounterIs DEF GoodIV
  <2>5. c.output = CryptFrom(c.key, J0(c.iv), c.input)
    BY <2>2, <2>3, <2>4 DEF Masked
  <2> QED
    BY <2>1, <2>5, CryptIsFrom
<1> QED
  BY <1>1, ClientAlways, PTL

\* Decryption gives back what was encrypted under the same key and IV, even a
\* key that gcm_setkey refused.
THEOREM DecryptionUndoes == ClientSpec => []DecryptUndoesEncrypt
<1>1. ClientIInv => DecryptUndoesEncrypt
  <2> SUFFICES ASSUME ClientIInv, NEW i \in 1..Len(calls), NEW j \in 1..Len(calls),
                      calls[j].ret # <<>>, i < j,
                      calls[i].op = "encrypt", calls[j].op = "decrypt",
                      calls[j].key = calls[i].key, calls[j].iv = calls[i].iv,
                      calls[j].input = calls[i].output
               PROVE  calls[j].output = calls[i].input
    BY DEF DecryptUndoesEncrypt
  <2>1. PICK e, d : e = calls[i] /\ d = calls[j]
    OBVIOUS
  <2>2. e.ret # <<>>
    BY <2>1 DEF ClientIInv, IsSeq
  <2>3. /\ e.output = Masked(e.key, e.iv, e.input) /\ IsSeq(e.input)
        /\ d.output = Masked(d.key, d.iv, d.input)
    BY <2>1, <2>2 DEF ClientIInv, IsCall
  <2>4. Masked(e.key, e.iv, Masked(e.key, e.iv, e.input)) = e.input
    BY <2>3, CryptFromIs DEF Masked
  <2> QED
    BY <2>1, <2>3, <2>4
<1> QED
  BY <1>1, ClientAlways, PTL

=============================================================================
