------------------------------- MODULE GcmTest ------------------------------
(***************************************************************************)
(* gcmtest.c: startTest loads a file of test records and runs them one by  *)
(* one until one fails.  main calls it once; the mobile build leaves main  *)
(* out, and an app may call it again, in the same process.  A record is    *)
(* what the file holds between two record types; the type 0 that ends a    *)
(* file is its end.                                                        *)
(***************************************************************************)
EXTENDS GcmMode

CONSTANTS TestFiles,    \* vector files: sequences of records
          MaxStarts     \* bound: calls of startTest

\* A record as rsp_processor.pl writes it: texts of one length, and IVs as in
\* Gcm.  Where the key has no size, the tag was not made with the zeros that
\* gcm_setkey leaves as round keys.
IsRecord(r) ==
  /\ \A s \in {r.iv, r.aad, r.pt, r.ct, r.tag} : s \in Seq({s[i] : i \in DOMAIN s})
  /\ Len(r.pt) = Len(r.ct) /\ Len(r.tag) <= BLOCK_LEN
  /\ Len(r.iv) * 8 < WORD /\ J0(r.iv).ctr \in [1..CTR_LEN -> 0..(BYTE - 1)]
  /\ r.key # Null
  /\ \/ r.key.size \in KeySizes
     \/ r.tag # <<>> /\ \A u \in r.tag[1] : "key" \in DOMAIN u => u.key # ZeroKey

ASSUME VectorAssumption ==
  \A f \in TestFiles :
    f \in Seq({f[i] : i \in DOMAIN f}) /\ \A i \in 1..Len(f) : IsRecord(f[i])

VARIABLES testcount,   \* the static counter
          stage,       \* "verify" inside verify_gcm, "idle" between calls
          vd, next,    \* the loaded records, and the one to be read next
          heap,        \* the buffer: "none", "allocated" or "freed"
          ret,         \* what startTest returned last, if anything
          starts, base \* history: calls made, testcount when the last began

testVars == <<testcount, stage, vd, next, heap, ret, starts, base>>

TestInit ==
  /\ testcount = 0 /\ stage = "idle" /\ vd = <<>> /\ next = 1
  /\ heap = "none" /\ ret = <<>> /\ starts = 0 /\ base = 0

-----------------------------------------------------------------------------
\* A context on the stack, which gcm_setkey clears; its result is ignored.
test_ctx(r) == gcm_setkey(TRUE, r.key).ctx

\* The caller's memory: the input, then a local buffer, which holds anything.
test_memory(bytes) ==
  [a \in 1..(2 * Len(bytes)) |->
     IF a <= Len(bytes) THEN bytes[a] ELSE {[stack |-> a]}]
output(r, mem) == SubSeq(mem, Len(r.ct) + 1, 2 * Len(r.ct))

\* Wrong on purpose: the tag is not compared.
verify_text_only(r) ==
  LET n == Len(r.ct)
      did == gcm_crypt_and_tag(test_ctx(r), "ENCRYPT", r.iv, r.aad,
                               test_memory(r.pt), 0, n, n, Len(r.tag))
  IN  output(r, did.mem) = r.ct

\* Each is TRUE when the function of that name returns 0.
verify_gcm_encryption(r) ==
  LET n == Len(r.ct)
      did == gcm_crypt_and_tag(test_ctx(r), "ENCRYPT", r.iv, r.aad,
                               test_memory(r.pt), 0, n, n, Len(r.tag))
  IN  output(r, did.mem) = r.ct /\ did.tag = r.tag

opened_record(r) ==
  gcm_auth_decrypt(test_ctx(r), r.iv, r.aad, test_memory(r.ct), 0, Len(r.ct),
                   Len(r.ct), r.tag)

verify_gcm_decryption(r) ==
  opened_record(r).ret = "OK" /\ output(r, opened_record(r).mem) = r.pt

verify_bad_decryption(r) == opened_record(r).ret = "GCM_AUTH_FAILURE"

\* The switch of verify_gcm; ret stays 0 for a type it does not know.
verified(r) ==
  CASE r.type = 1 -> verify_gcm_encryption(r)
    [] r.type = 2 -> verify_gcm_decryption(r)
    [] r.type = 3 -> verify_bad_decryption(r)
    [] OTHER -> TRUE

-----------------------------------------------------------------------------
Begins == stage = "idle" /\ starts < MaxStarts /\ starts' = starts + 1
            /\ base' = testcount

\* load_file_into_ram gives up: no file, no memory, or less than the file; in
\* the last two cases the file stays open.
FileMissing ==
  /\ Begins
  /\ ret' = <<-1>>
  /\ UNCHANGED <<testcount, stage, vd, next, heap>>

MallocFails ==
  /\ Begins
  /\ ret' = <<-2>>
  /\ UNCHANGED <<testcount, stage, vd, next, heap>>

\* Wrong on purpose: the buffer is kept.
heap_after_short_read_leak == "allocated"
heap_after_short_read == "freed"

ReadFails ==
  /\ Begins
  /\ ret' = <<-3>> /\ heap' = heap_after_short_read
  /\ UNCHANGED <<testcount, stage, vd, next>>

Load(file) ==
  /\ Begins
  /\ stage' = "verify" /\ vd' = file /\ next' = 1 /\ heap' = "allocated"
  /\ ret' = <<>>
  /\ UNCHANGED testcount

Pass ==
  /\ stage = "verify" /\ next <= Len(vd) /\ verified(vd[next])
  /\ testcount' = testcount + 1 /\ next' = next + 1
  /\ UNCHANGED <<stage, vd, heap, ret, starts, base>>

\* The first record that fails ends the loop; so does the end of the file.
Finish(status) ==
  /\ stage' = "idle" /\ ret' = status /\ heap' = "freed"
  /\ UNCHANGED <<testcount, vd, next, starts, base>>

Fail ==
  /\ stage = "verify" /\ next <= Len(vd) /\ ~ verified(vd[next])
  /\ Finish(<<1>>)

AllDone ==
  /\ stage = "verify" /\ next > Len(vd)
  /\ Finish(<<0>>)

TestNext ==
  \/ FileMissing \/ MallocFails \/ ReadFails
  \/ \E file \in TestFiles : Load(file)
  \/ Pass \/ Fail \/ AllDone

TestSpec == TestInit /\ [][TestNext]_testVars

-----------------------------------------------------------------------------
\* A record tells the truth about AES-GCM, by the definition of the mode.
Truthful(r) ==
  LET tag == Tag(r.key, r.iv, r.aad, r.ct, Len(r.tag))
      legal == r.key.size \in KeySizes
  IN  CASE r.type \in {1, 2} -> /\ legal /\ r.tag = tag
                                /\ r.ct = Crypt(r.key, r.iv, r.pt)
        [] r.type = 3 -> ~ legal \/ r.tag # tag
        [] OTHER -> TRUE

\* The suite says PASSED exactly when every record of the file is right, and
\* then it has counted all of them, however many calls came before; it stops
\* at the first wrong one and has counted those in front of it.
VerdictIsRight ==
  stage = "idle" /\ ret \in {<<0>>, <<1>>} =>
    /\ (ret = <<0>>) <=> \A i \in 1..Len(vd) : Truthful(vd[i])
    /\ testcount - base = next - 1
    /\ \A i \in 1..(next - 1) : Truthful(vd[i])
    /\ ret = <<0>> => next - 1 = Len(vd)

\* Whatever happens while loading, no call leaves its buffer behind, and the
\* records are read only while the buffer is there.
BufferIsReleased ==
  IF stage = "verify" THEN heap = "allocated" ELSE heap # "allocated"

=============================================================================
