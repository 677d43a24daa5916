# riscv-playground: TLA+ models of BLAKE3 and AES-GCM

The repository holds two C libraries that its author measures on RISC-V
hardware: the BLAKE3 hash and AES in Galois/counter mode. These modules model
the control of both: every call that changes state, every branch and early
return, and every loop whose order matters. The data they move is abstract.
Where the data is the point (the rounds of BLAKE3, AES, the multiplication of
GCM), separate modules compute it byte for byte. TLC checks the models on small
instances. TLAPS proves, for all sizes: the bounds of the hasher's stack, the
correctness of the feature cache, the safety of the unlocked AES tables,
that the calls of `gcm.c` compute Galois/counter mode however a message is cut, that a
damaged message does not open, what the programs above the libraries answer, and that
the algorithms underneath (BLAKE3's wide path, bit loops, compression function and vector
kernels, AES by tables, GHASH by tables) compute what they stand for.

Paths below are relative to `src/crypto_paral/final/` unless they say otherwise.

## 1. The system

| Part | Files | State | Operations |
|---|---|---|---|
| Incremental hasher | `BLAKE3/source/blake3.c`, `blake3.h` | `blake3_hasher`: key, chunk state, `cv_stack_len`, `cv_stack` | init, init_keyed, init_derive_key(_raw), update, finalize(_seek), reset |
| Chunk and output layer | `blake3.c:11-151`, `blake3_portable.c` | `blake3_chunk_state`, `output_t` | chunk_state_*, output_*, parent_output |
| Wide path | `blake3.c:154-372` | none: a recursion over local arrays | compress_chunks_parallel, compress_parents_parallel, compress_subtree_wide, compress_subtree_to_parent_node |
| Compression | `blake3_portable.c`, `blake3_impl.h` | none | compress_in_place, compress_xof, load and store of words |
| Bit helpers | `blake3_impl.h` | none | popcnt, highest_one, round_down_to_power_of_2 |
| Dispatch | `blake3_dispatch.c` | `g_cpu_features`, shared by every thread | get_cpu_features, compress_in_place, compress_xof, xof_many, hash_many, simd_degree |
| Vector kernels | `blake3_vector.c`, `blake3_vector_opt.c` | none | hash_many variants for RISC-V, which nothing calls |
| Hashing programs | `example.c`, `main_blake3_measure.c` | one hasher | main |
| AES-GCM context | `AES-GCM/source/gcm.c`, `gcm.h` | `gcm_context`, the caller's memory | initialize, setkey, start, update, finish, crypt_and_tag, auth_decrypt, zero_ctx |
| AES | `AES-GCM/source/aes.c` | tables and `aes_tables_inited`, shared; `aes_context` | init_keygen_tables, setkey, cipher |
| AES on vectors | `aes_avx2.c`, `aes_vtype.c` | none | aes_cipher_avx2, aes_cipher_vtype, which nothing calls |
| Client and file program | `aes-gcm.c`, `main_encrypt.c` | none between calls | aes_gcm_encrypt, aes_gcm_decrypt, main |
| Test program | `gcmtest.c` | static `testcount`, the loaded file | startTest, load_file_into_ram, verify_gcm |

`src/crypto_paral/AES-GCM` and `src/crypto_paral/BLAKE3` hold earlier copies.
Every C file there is byte for byte the one of the same name under `final`, so
the modules are models of both; `PROJECT.json` names the lines under `final`.

How they interact:

- `blake3_hasher_update` fills the chunk state, then hands the largest aligned
  power of two of whole chunks to the wide path. That path asks the dispatcher
  for the SIMD degree **several times** and for a kernel per batch. It returns
  two chaining values, which update pushes on the stack, merging lazily.
- Every call of the dispatcher reads `g_cpu_features`. The first ones find it
  empty, detect, and write it, without a lock.
- `gcm_start` encrypts the first counter, `gcm_update` steps it and the
  running hash, and `gcm_finish` combines both. `gcm_auth_decrypt` calls all
  three and wipes the output if the tag is not the expected one. Input and
  output may be the same memory.
- `aes_gcm_encrypt`, `aes_gcm_decrypt` and `main_encrypt.c` put a whole message
  through a context of their own and ignore what `gcm_setkey` returns.
- `gcmtest.c` runs the records of a file through contexts of its own and stops at
  the first one that fails. `example.c` and `main_blake3_measure.c` feed a file
  to one hasher, in the pieces that `read` returns or at once.

What is hard here, and the property that makes each part correct:

- **Hasher.** The number of ways to cut a message into updates is exponential.
  Each cut leaves chunk and stack in different states, and yet the hash must be
  the one of the tree. The stack is written without a bounds check; only the
  arithmetic of 1 bits in the chunk counter keeps it in its array. A value must
  not be merged before it is known not to be the root.
- **Wide path.** The result must not depend on the SIMD degree, and the two
  halves of the recursion must lie next to each other in one array.
- **Dispatch.** Several threads race to fill the cache. The degree and the
  kernel are decided in different functions, at different times.
- **AES-GCM.** Counter, hash and length carry over from update to update, and
  nothing of an abandoned message may carry over to the next. The counter wraps
  inside messages. In place, decryption destroys what it has yet to hash if it
  goes in the wrong order. Plaintext is written before the tag is known.
- **AES.** The tables are static, filled once behind a flag, and nothing locks
  them: the comments ask callers to do it before they start threads. Three
  unrolled key schedules with their own strides fill one buffer, and the rounds go
  two at a time through tables that were built at run time. GHASH goes through
  tables of sixteen products per key.
- **Vector kernels.** A batch is as long as `vsetvl` decides, which the hardware
  may choose between limits; what is left is counted down in an unsigned. The vector
  length is an argument of every intrinsic: one that is given 0 does nothing.
- **Programs.** Errors are returned as codes that no caller looks at; reads may
  come short; a test that stops early must still say how far it got.

`PROJECT.json` lists every hazard with its line and the properties that cover it.
Some are covered only in part or not at all, because the code relies on its callers
there and has no promise that a property could state; section 5 lists them.

## 2. The modules

```
Blake3Bits --> Blake3Compress --+--> Blake3Wide --+--> Blake3Hasher --> MCBlake3Hasher
                                |                 |        |  implements
                                +--> Blake3Tree --+        v
                                                      Blake3Hash
Blake3Bits --> Blake3BitTricks --+
Blake3Tree, Blake3Wide ----------+--> Blake3Algorithms --> MCBlake3Algorithms
Words --> Blake3Rounds ----------+
Words --> Blake3Vector ----------+
          Blake3Reference -------+
Blake3Dispatch --> MCBlake3Dispatch

GcmCalls --> GcmMode --+--> Gcm     --> MCGcm
                       +--> GcmAuth --> MCGcmAuth
                       +--> AesGcm  --+
FileRead --> AesGcm, HashFile         +--> MCPrograms
                       +--> GcmTest --+
                            HashFile -+
Words --> AesTables --> Aes --> AesVectors --> AesThreads --> MCAesThreads
Words --> Fips197 ----------------> AesVectors      GcmMult --> AesThreads
```

| Module | What it models |
|---|---|
| `Blake3Bits` | `popcnt` and `round_down_to_power_of_2` as arithmetic, recursive functions so that they can be proved about |
| `Blake3BitTricks` | the same helpers as the bit loops of a build without compiler builtins, on words of `2^LogBits` bits; the mask test of `blake3.c:531` |
| `Blake3Compress` | the chunk state with its buffer, `output_t`, `chunk_state_update`, parents, the ROOT flag, extended output |
| `Words` | bytes and 32-bit words: exclusive or, addition with its carries, rotation |
| `Blake3Rounds` | the portable compression function down to its bits: rounds, schedule, byte order, both forms of output |
| `Blake3Reference` | reference: the same function over sets of bits, with the permutation in place of the schedule |
| `Blake3Vector` | the two RISC-V kernels: batches, lanes and counts, and what lanes hold that no operation computes |
| `Blake3Algorithms` | the functions of BLAKE3 without state beside what they stand for, the properties, and an enumeration of arguments |
| `Blake3Tree` | reference: the BLAKE3 tree of a byte sequence, with no buffer and no stack |
| `Blake3Wide` | the wide path for a given `SIMD_DEGREE`, as functions from input to array |
| `Blake3Hasher` | the struct and a running update, **one action per loop iteration**: fill, shrink, push, merge, tail |
| `Blake3Hash` | abstract specification: a hasher remembers the bytes absorbed and answers with their tree hash |
| `Blake3Dispatch` | threads that fill the feature cache, one step per CPUID/XGETBV group and per access to the cache, and what each operation makes of the features |
| `GcmCalls` | the functions of `gcm.c`, statement by statement where the order matters, on a context and the caller's memory |
| `GcmMode` | reference: counter mode and its tag, written down directly |
| `Gcm` | one context and a caller, one action per call |
| `GcmAuth` | a sender and a receiver under one key, and a channel that damages messages |
| `AesGcm` | callers of the one-call client, and `main_encrypt.c`, with the results they ignore |
| `GcmTest` | the test program: loading, the records one by one, the counter and the verdict |
| `FileRead`, `HashFile` | how the programs get a file, and the two hashing programs |
| `AesTables` | the tables, as the loops of `aes_init_keygen_tables` compute them |
| `Aes` | the three key schedules, the decryption schedule, the cipher by tables in both directions |
| `AesVectors` | the AVX2 cipher, and the loop of `aes_vtype.c` |
| `GcmMult` | `gcm_mult` and the tables of products in `gcm_setkey`, and the product in the field they stand for |
| `Fips197` | reference: AES as the standard defines it |
| `AesThreads` | threads with contexts of their own over the shared tables: initialise, set a key, use it |
| `Blake3TreeProofs` | theorems about `Blake3Bits`, `Blake3Compress`, `Blake3Tree` and `Blake3Wide` |
| `Blake3KernelsProofs` | theorems about `Blake3Dispatch` and about what `Blake3Algorithms` compares: `Blake3Wide`, `Blake3BitTricks`, `Blake3Rounds`, `Blake3Vector` |
| other `*Proofs` | theorems about the module they are named after |

Correspondence of state and actions:

- `Blake3Hasher`: `key`, `chunk`, `cv_stack_len`, `cv_stack` are the fields of
  the struct. `input_len`, `subtree_len` and `pushes` are locals of the update
  in progress, `pc` says which loop it is in. `caller_stack` is the caller's
  struct during `init_derive_key`, whose context hasher is a local of that call.
  `msg`, `fed` are history. Stack entries above `cv_stack_len` keep their old
  values, as in the C array.
- `Blake3Dispatch`: `g_cpu_features` is the cache, `features[t]` the local of
  thread `t`. The type of the cache is `atomic_int` or a plain `int` that is
  accessed once per read and write, so a read sees some value written whole. On
  32-bit hosts, and on builds without x86, the guards of the code apply
  (`entry`, `Load`). `host` is a record of what CPUID, the OS and the build say.
- `Gcm`: `ctx` has the fields of `gcm_context`. `mem` is memory with the input
  at its start and other memory behind, so that output may go over the input
  (`dst = 0`) or elsewhere (`dst = MaxLen`).

- `AesThreads`: `aes_tables_inited` is the flag and `done` the set of loops
  that have filled their tables; `arrays(done)` is what a reader then finds. A
  thread stands inside a call (`pc`) wherever it is about to touch the tables, so
  every interleaving of those accesses is there. `decryption` is the build:
  `AES_DECRYPTION` on or off, chosen in `Init`.
- `GcmTest`: `testcount` is the static counter that survives calls of
  `startTest`; `heap` is the state of the buffer.
- `HashFile`: `taken` and `given` are the bytes read and the bytes given to the
  hasher; `status` is the exit status, and `killed` a failed `malloc` that is not
  looked at.

`Blake3Wide` takes `SIMD_DEGREE` as a constant although the code asks for it
again and again. `OneAnswer` of `Blake3Dispatch`, which is proved, is what
justifies this: all the answers a process gets are the same.

### Abstractions

- **Compression, block cipher and multiplication by H are uninterpreted** in the
  modules about modes, trees and contexts (what they compute is the subject of
  `Blake3Rounds`, `Aes` and `GcmMult`): a value is the record of the arguments it was computed from, so two values are
  equal only if they were computed alike. What the models say of authenticity
  therefore assumes no collision. It concerns what is hashed, in which order and
  with which lengths and flags, not cryptographic strength.
- **A byte of AES-GCM is a set of symbols**, XOR is the symmetric difference,
  zero is the empty set. What is masked twice with the same keystream becomes
  visible again, as in the code.
- **The running hash** keeps the blocks hashed, without leading zero blocks,
  which leave a hash of zero alone: two inputs that differ by them only are
  told apart by nothing but their length.
- **A hashed IV** gives a counter that is an arbitrary function of the blocks
  (`HashedCounter`); the instances choose values just before the wrap.
- **A build of `blake3_vector.c`** is the choice of a destination register for the
  two operations that are given a vector length of 0 (lines 24 and 27): with it they
  compute no lane, and what a lane of the result holds is what that register held
  before (`mixed_lanes`, `kept`, `Builds`): the first operand, the second, or something
  unknown (`Stale`), of which no property claims anything. No build of the file exists today: it is
  guarded by `RISCV_VECTOR`, which nothing defines, and lines 22 and 74 to 81 give loads
  and stores an additional 0 that no such intrinsic takes. The model leaves that 0 out.
- **Lengths** are naturals. `aes-gcm.c` takes `int input_length` to a `size_t` and casts
  `key_len` to `uint`; both are the identity below 2^31 and 2^32, the lengths modelled.
- **A lane of `blake3_vector_opt.c`** is kept as the numbers of the words mixed
  into it. `aes_cipher_vtype` runs with registers of 128 bits, two lanes.
- **A byte of BLAKE3 input** is a message number and a position, so that a byte
  lost, moved, repeated or left from an earlier message shows.

## 3. The runs

Deadlock is checked except where an enumeration of inputs or a process really
ends; each such cfg says so.

| Run | Shows |
|---|---|
| `splits` | One message, every way to cut it into updates. The root that finalize would compute is the root of the tree (`HashIsTree`); the stack covers the chunks hashed, in order, without gap (`StackCoversChunks`), stays in bounds (`StackInBounds`), is ready for finalize (`ReadyToFinalize`, `PairUnderEmptyChunk`); subtrees are aligned (`SubtreeAligned`). `Accounting` is the inductive invariant of the proofs, checked before it was proved. Every call returns (`EveryCallReturns`). |
| `reuse` | Three messages through one struct, restarted by every init, by reset and by key derivation in any order between calls, with seeks. Refines `Blake3Hash` (`ImplementsHash`). |
| `algorithms` | The functions without state. Wide path: the pair pushed holds the children of the subtree's root (`PairIsRootsChildren`), arrays are never overrun (`ArrayFits`), halves are adjacent (`HalvesAreAdjacent`). Bit loops compute the arithmetic (`LoopsAreBuiltins`, `MaskIsRemainder`). Both forms of the portable compression function are BLAKE3's (`CompressionIsDefined`), and the empty input gets its published hash (the assumption `EmptyIsKnown`, which TLC evaluates). The first vector kernel keeps lanes apart however `vsetvl` cuts the input and whatever registers a build uses (`LanesKeepApart`); the second ends properly on whole pairs of registers and wraps its count otherwise (`WholePairsEnd`). |
| `dispatch` | Two threads, any calls. The cache is empty or complete; equal questions get equal answers; no instruction runs that the host lacks; degree and kernel fit; a filled cache stays as it is. |
| `gcm` | One context, message after message. Output and tag are those of the definition (`OutputIsCounterMode`, `TagIsOfCiphertext`), no keystream byte is used twice in a message or its tag (`KeystreamIsFresh`), counter and hash stand where they should between calls (`RunningValues`). |
| `gcm_auth` | What was sealed opens; what opens was sealed; otherwise the output is wiped. |
| `aes` | Two threads over the shared tables. Nobody fills them while another reads or fills them (`NoWriterBesideReader`): a later call of `gcm_initialize` finds the flag and writes nothing. The flag is not up before the last table is full, and readers find all of them (`ReadersFindTables`). The key schedules of all sizes, forwards and backwards, are FIPS 197's (`ScheduleIsExpansion`), so are the cipher in both directions and both builds (`CipherIsAes`) and the AVX2 cipher on two blocks (`Avx2IsTwoBlocks`); `gcm_mult` is the product in the field (`MultIsProduct`). |
| `programs` | Client: an answered call is counter mode under its own key and IV (`AnsweredUnderKey`), decrypting undoes encrypting (`DecryptUndoesEncrypt`). Test program: it passes exactly the right files and counts to the first wrong record (`VerdictIsRight`), and no failure of loading leaves its buffer behind (`BufferIsReleased`). Hashing programs: exit status 0 comes with the digest of the whole input, however reads cut it (`DigestIsOfInput`). |
| `top_of_stack` | **Violation.** The comment at `blake3.c:599-600`, see section 6. |
| `aes_gcm_error` | **Violation.** The comment at `aes.c:31-33`, see section 6. |
| `aes_vtype` | **Violation.** The comments of `aes_vtype.c`, see section 6. |
| `vector_mix` | **Violation.** The comment at `blake3_vector.c:23`, see section 6. |

### Bounds, and why they are enough

| Run | Bounds | States | Why |
|---|---|---|---|
| `splits` | blocks of 2 bytes, chunks of 2 blocks, 16 chunks, degree 2 of 4, stack depth 4 | 18,954 | a chunk has a first, a last and a partial block; sixteen chunks give four levels of merges and every alignment of subtrees of 1, 2, 4, 8 and 16 chunks; the widest subtree exceeds the degree, so the recursion and the condensing loop both run; the stack gets to its last slot; the shrink loop halves up to three times, a merge loop merges several pairs, and the outer loop goes round again |
| `reuse` | 3 messages of up to 4 chunks, degree 1 | 96,414 | derivation takes two messages, so one may precede or follow; a stale stack of two levels; seeks 0, 1, 2 and lengths 0, 1, 4 with output blocks of 2 bytes start and end in and between blocks, and leave the first block |
| `algorithms`, `vector_mix` | wide path: up to 80 bytes, 20 chunks of 4, first chunk 0 or 5, degree 4 in a build for 8; words up to 4096 of 16 bits; 97 blocks; up to 24 inputs and registers of 4 lanes | 4,097 (one per argument, each evaluating all that applies to it) | odd leftovers, lone chunks, partial last chunks, two levels of recursion; every mask of the bit search but the highest; sums that carry through all bytes and counters on both sides of 32 bits; `vsetvl` at, under and between its limits. Degrees 1 and 2 run in `reuse` and `splits`, and the theorems cover all sizes |
| `dispatch` | 2 threads, 11 hosts, 2 blocks of extended output | 197,513 | hosts differ in what each detection step looks at; two threads are the smallest race, and the theorems cover any number |
| `gcm` | 3-byte blocks, 1-byte native IV, 2-byte counter of 2-valued bytes, IVs of up to 7 bytes, messages up to 6 | 6,725 | four counter values, so the carry and the wrap fall inside a message of two blocks; an IV of the longest length whose bit count fits its word (64 in place of 2^32); additional data of nothing, a part, a block and a part, and zeros |
| `gcm_auth` | two messages, one damage each, every kind of damage | 176,401 | the second message sees what the first left in both contexts |
| `aes` | 2 threads; keys of 16, 24, 32, and of illegal sizes; real blocks of 16 bytes | 3,280 | all three schedules, both directions, both builds; sixteen factors in which every nibble takes every value, so that every entry of the product tables is used |
| `programs`, `aes_gcm_error` | two client calls under keys of 16, 32 and (illegal) 20 bytes; files of up to 3 records, two calls of `startTest`; input of up to 5 bytes in buffers of 2 | 7,242 | encrypt, then decrypt its output; a wrong record of every kind between right ones; the counter of a second call; reads that fill the buffer, part of it, or end on its edge |

Assumed of the caller, from `gcm.h` and the comments: a key is set first, every
update but the last is of whole blocks, a tag has 1 to 16 bytes, a message has
fewer than 2^32 - 2 blocks (`Blocks(MaxLen) <= Counters - 2`), an IV has fewer
than 2^29 bytes (`Len(iv) * 8 < WORD`), and the AES tables are asked for before
threading begins. The code checks none of these. `KeystreamIsFresh`,
`OutputIsCounterMode` and `OpenedWasSealed` hold up to exactly these limits: the
instances reach the last block before the counter repeats, the longest IV before
its bit count is cut, and tags of a whole block.

### Fairness

`Blake3Hasher` alone states fairness: `WF_vars(Step)`, over the steps of a
call in progress only. One thread executes such a call, nothing in it blocks or
waits, so it takes its next step as long as it has one. Nothing makes the caller
call again. TLC takes minutes to evaluate `ENABLED` of a step that hashes, even with
four chunks, so the run `splits` has it spelled out (`FairSpec` in `MCBlake3Hasher`):
either no call is in progress again and again, or steps are taken again and again. The
two say the same because a call in progress always has a step, which the deadlock check
of this run confirms (the caller has no action then), and every step
changes a variable. All other runs are about safety.

## 4. What is proved

Eight modules hold proofs. They are about the same definitions the runs check, with
the constants arbitrary.

`Blake3TreeProofs`
: What the algorithms under the hasher compute, for inputs of any length, blocks
  and chunks of any size, and any `SIMD_DEGREE`. `popcnt` and
  `round_down_to_power_of_2` over all naturals (`RoundDown`, `PopcntBelow`).
  `UpdateHolds`: `chunk_state_update` appends, however the bytes are cut up.
  `PairIs`: `compress_subtree_to_parent_node` yields the chaining values of the two
  children of a subtree's root. `OutputBytes`: `output_root_bytes` is a window of one
  unbounded output. Lemmas on a stack of chaining values (`LayoutPush`,
  `LayoutMerge`, `TopsMatch`) and on rolling it up (`RollOverChunk`,
  `RollOverPair`).

`Blake3HasherProofs`
: The counters. `ChunkUpdate`: `chunk_state_update` keeps a chunk state well formed,
  counts every byte once, and keeps back a non-empty last block.
  `CountersHangTogether`: `Spec => []Accounting`, and from it `TypeCorrect`,
  `StackStaysInBounds`, `PairIsThere`, `FinalizeIsPrepared`,
  `SubtreesAreAligned`.
  The data. `DataHangsTogether`: `Spec => [](Accounting /\ DataHolds)`, and from it
  `HashOfTheTree` (`HashIsTree`), `StackCovers` (`StackCoversChunks`) and
  `HasherImplementsHash`, the refinement of `Blake3Hash` step by step
  (`ImplementsHash`). With these every safety property of the runs `splits` and `reuse`
  is a theorem.

`Blake3KernelsProofs`
: The dispatcher: `DispatchTypeCorrect`, `CacheCorrect`, `CacheForGood`, `SameAnswer`,
  `DegreeCorrect`, `RunsOnlyWhatHostHas`, for any number of threads and any set
  of hosts.
  The wide path, for inputs of any length, whole chunks or not, from any chunk number,
  with any key and flags, and for every pair of degrees. `SubtreePair`: it yields the
  children of the subtree's root (`PairIs` has this for powers of two of chunks, which
  is what update asks for). `PairAlwaysRootsChildren`, `ArrayAlwaysFits`,
  `HalvesAlwaysAdjacent`: three properties of the run `algorithms`.
  The bit loops, for words of any width: `LoopsAlwaysBuiltins`, `MaskAlwaysRemainder`.
  The compression function: `CompressionIs`, for every chaining value, block, counter,
  length and flags, and `CompressionAlwaysDefined`, the property of the run.
  The vector kernels, for registers of any length and any number of inputs:
  `LanesAlwaysApart` (in every build, with the vector length of 0 the code passes; it says
  whose values an output is made of, and not that they are mixed, which they are not),
  `WholePairsAlwaysEnd`.

`AesThreadsProofs`
: `TypeCorrect`, `Exclusion`, `TablesComplete`: without a lock, the tables are
  never read half filled nor written beside a reader, for any number of threads,
  any keys and any work.
  Then what they compute, for every key, block and round key. `PowersOf3`, `SBoxIs`,
  `RSbIs`: the loops of `aes_init_keygen_tables` make the S-boxes of the standard.
  `ForwardRound`, `ReverseRound`, `Enciphers`, `Deciphers`: rounds by tables are rounds
  of the standard, so `aes_cipher` enciphers, and with a reversed schedule deciphers, as
  FIPS 197 says. `EncryptionKeyIs`, `DecryptionKeyIs`: the schedules of all three sizes.
  `Avx2Is`: the vector cipher on its two blocks. `FieldMoved`, `HalfIs`, `Shift4Is`,
  `MultTablesAre`, `ProductByTables`: `gcm_mult` with the tables of `gcm_setkey` is
  multiplication in the field of GCM, for every two blocks.
  From these, for any threads: `ScheduleIsExpansionHolds`, `CipherIsAesHolds`,
  `Avx2IsTwoBlocksHolds` and `MultIsProductHolds`, the other four properties of the
  run `aes`.

`GcmModeProofs`
: What the functions of `gcm.c` compute, for blocks, counters, IVs, data and texts of any
  length. Lemmas: the carry loop adds one to the counter, and coming round takes
  as many steps as there are counters; two updates in a row, the first of whole
  blocks, do what one update of both inputs does (`PiecesJoin`); an update in
  place does what an update elsewhere does. Theorems: `CryptAndTagIsGcm` and
  `AuthDecryptIsGcm`, the two calls for a whole message against `Crypt` and `Tag`
  of `GcmMode`, in whatever state the keyed context was before.

`GcmProofs`
: `ValuesRun`, `OutputCorrect`, `TagCorrect`, `FreshKeystream`: all four properties
  of the run `gcm`, for any number of messages in any pieces.

`GcmAuthProofs`
: `UndamagedOpens` and `NoForgedMessageOpens`: both properties of the run
  `gcm_auth`, for any number of messages and of damages.

`ProgramsProofs`
: `DigestCorrect`: the digest that comes with exit status 0 is that of the whole
  input, for inputs of any length and content, any size of buffer, and reads that
  deliver any part of what was asked for.
  `BufferAlwaysReleased`: no way out of `startTest` keeps the buffer of the file.
  `VerdictCorrect`: the loop over the records passes exactly the right files, for
  files of any length and any number of calls. It contains that the verify
  functions tell right records from wrong ones (`VerifiedIsTruthful`), also under
  keys that `gcm_setkey` refuses.
  `AnswersAreCounterMode` and `DecryptionUndoes`: both properties of the client,
  for any sequence of calls, outputs of earlier calls as inputs included.

Assumptions: `LenAssumption` (positive lengths, a chunk is a power of two
and whole blocks), `DegreeAssumption` (degrees are powers of two, the build's maximum is
no smaller than the degree), `LogBitsAssumption` and `VlmaxAssumption` (a word has a power of
two of bits, a register one lane at least), `ArgumentAssumption` (the enumerated arguments
are words of that width, chunk numbers are naturals), `DepthAssumption` (`MAX_DEPTH` counts the 1 bits
of any chunk counter, as `blake3.h:55-60` argues for 54), `HostAssumption`
(a 64-bit x86 CPU has SSE2, AVX512VL comes with AVX512F, leaf 7 says what the
CPU has), `ThreadsAssumption` (one of the threads is the main one), `SetupsAssumption`
and `WorksAssumption` (keys and blocks are bytes, the blocks whole; `gcm_setkey`
asks `aes_setkey` for `ENCRYPT`, as `gcm.c` does; keys may have any length),
`ReadAssumption` (files are sequences, buffers are not empty), `BlockAssumption`
(a counter and an IV fit a block, a byte has two values at least),
`CallerAssumption`, `ChannelAssumption` and `ClientAssumption` (the rules for
callers at the end of section 3; arguments are sequences of bytes, the counter of a
hashed IV consists of bytes; no key is the null pointer, and `gcm_auth` runs under a
key of a legal size; noise on the channel is not made of results of the cipher
under the key), `VectorAssumption` (test files are sequences of records whose two
texts have one length; the rules for callers hold for the records; a record with
a key of an illegal size does not carry the very tag that the all-zero round keys
left by `gcm_setkey` would make). TLC evaluates each in a run.

**The argument for the stack.** None of the bounds is inductive. The height of the
stack after a push depends on how many merges came before it, and that depends on
the number of 1 bits in the chunk counter. `Accounting` therefore relates, at
every point of update,

- `Position`: chunk counter and partial chunk to the bytes consumed;
- `Progress`: the height of the stack to `popcnt` of the counter. It is at least
  that number, equals it whenever a merge loop has ended, and is one more after a
  push, two more after the second push of a pair. The second push of a pair never
  merges, because a subtree is aligned and its half is a bit the counter does
  not have;
- `PairUnderEmptyChunk` and `ReadyToFinalize`, which finalize relies on.

The proof has one lemma per action. The arithmetic is in lemmas of its own
(`SubtreeCounts`, `PairCounts`, `ChunksFit`, `DepthBound`).

**The argument for the data of the hasher.** `HashIsTree` speaks of calls that have
returned. `DataHolds` says the same of every step between: the chunk holds the
bytes of its chunk (`ChunkHolds`), the stack is a row of subtrees from chunk 0 up to
where the next value goes (`StackOf`), and what is being pushed are the values of the
subtrees that follow (`PushesHold`). `StackOf` gives every entry a first chunk and
a width, a power of two; the first chunk of entry `i` has `i` 1 bits, and all but the
last entry begin at a multiple of twice their width. From this and the counters in
`Accounting` it follows that a merge which is due finds two neighbours of the same
width, hence the children of one node (`TopsMatch`), and that a stack with one entry
per 1 bit is the row of left children along the right edge of the tree, so that rolling
it up yields the root (`AllSettled`, `RollUp`). Under an empty chunk the last pair was
never merged; finalize starts from it, and the same holds (`RollOverPair`).

What a subtree contributes is the wide path's business. Its recursion returns a row
of equally large subtrees, as many as the CPU hashes at once, or two if it
hashes one, or as many as there are chunks (`WideRows`); each round of condensing
halves the row (`RowHalves`) until the root's children are left. The tree, the wide
path, the rounds and the chains of compressions are recursive functions that
a definition picks with `CHOOSE`: each is shown to exist, to be the only one with its
equation, and then evaluated, with a least exception in place of induction
(`NatMin`, `Induct`).

That argument needs rows of equal subtrees, and an input of any length has none: its last
chunk may be partial and every level may leave one over. `WideStands` therefore says only
that the array, condensed for as many rounds as it needs, narrows to what the tree
of the bytes is, with a limit on how many values it holds (`Limit`): exactly the degree for a
left half, at most that for a right one. Pairing values side by side commutes with
putting two arrays next to each other if the left one has an even length
(`PairsJoin`), and so a level of the recursion is a round of condensing (`SubtreeSplits`).

For the refinement the calls map to the steps of `Blake3Hash` of the same name, and
the loops of an update to stuttering: the promise absorbs the input when update is
called. The derived key is a digest of the context, so that
`HashIsTree` is used in the middle of a behaviour and not only where it is asked for.

**The argument for dispatch.** Threads write only what they detected, detection
depends on the host alone, and every thread that dispatches holds the complete
result. `TypeOK`, `CacheIsComplete` and "every answer given is the one for the
detected features" are inductive together, and the other properties follow.

**The argument for the tables.** `NoWriterBesideReader` alone is not inductive: it
does not say why nobody else is there. `OnlyMainBuilds` does (whoever fills the
tables is the main thread, before threading, with the flag unset), with
`OthersWait`, and the flag carries the rest: readers have seen it
(`ReadersSawFlag`, `KeysSawFlag`), and it means that all loops have run
(`FlagMeansFilled`).

**The argument for the bit loops.** `&` is computed digit by digit, from the lowest
(`AndStep`); what is proved of it goes by halving (`HalfInduct`). Clearing the lowest 1
takes exactly one off the sum of the digits (`LowestCleared`). The binary search keeps
its invariant from stage to stage (`StageNarrows`): what is left of the word is less
than a power of two, with as many digits as are still in question, and it is the
word divided by the power of what was counted.

**The argument for the compression function.** The reference computes with sets of
bits, the code with four bytes. A word is the set of its bits (`BitsEqual`): exclusive or is
symmetric difference (`BitsXor`); addition byte by byte with its carry makes the same
digits as carrying from bit to bit (`ByteAdds`, `BitsAdd`); a rotation by 16 or 8 moves bytes,
by 12 or 7 nibbles and bits across them (`RotateBy16` to `RotateBy7`). Half of `g` is then
half of the reference's step (`HalfIs`). Each of the seven rows of `MSG_SCHEDULE` is the one
before it permuted (`RowsFollow`), so words taken by row are words permuted round after
round. A state of sixteen words is a matrix: the first four mixes are its columns, the
other four its diagonals, which the reference reaches by skewing the rows
(`ColumnsMixed`, `DiagonalsMixed`, `RoundIs`).

**The argument for the vector kernels.** What `hash_many_vector` yields is a recursion
over what is done so far, with a choice at each step. There is one function with that
equation, and all its values are the row of what each input yields alone
(`HashManyIs`): every lane is beyond `mixed_lanes` and keeps what one of the registers
held in the same place (`LanesKept`), so a lane of a batch sees one input only
(`BatchIs`), and batches that start
where the last one ended join to one row (`BatchJoins`). For the second kernel, whole
pairs of registers are always granted in full (`FullStep`), so the count comes down to
0; with a rest of up to one register it cannot (`OddEnds`).

**The argument for AES.** A byte is its eight digits (`Digits`), and `XOR` adds
digit by digit (`XorBit`); that makes bytes a group, and the product of the standard, digit by
digit, bilinear. The loop over `pow` and `log` walks through the powers of 3: they
differ from one another up to the 255th (`PowersOf3`), so they are all bytes but 0 and
`pow[255 - log[x]]` is the inverse. The four rotations and additions the loop makes
of it are the affine map, column by column of its matrix. An entry of a table of
rounds is then a column of MixColumns times a byte, and four of them make a column of
the new state. The loops of the key schedule extend a sequence by four, six or eight
words; what FIPS 197 computes word by word is compared index by index, again with
`Induct`. Decryption inverts `MixColumns` on the round keys, which is linear, so that
it can change places with `AddRoundKey`.

**The argument for GHASH.** A polynomial is the set of its exponents, a sum the
symmetric difference, and a coefficient of a product counts pairs modulo 2 (`OddSum`).
Reduction is linear (`ReducedSum`), and multiplying by x and reducing is reducing and
multiplying by x (`RemainderMoved`): what crosses x^127 comes back as 1 + x + x^2 + x^7.
So `FieldProduct` is linear in a factor and x comes out of it. With a 128-bit value
read as a polynomial (`Poly`), one bit to the right with 0xe1 is x, four bits with the
entry of `last4` are x^4, for each of the sixteen entries (`Last4Is`). After nibble k
the loop holds the product by the last k+1 nibbles (`PairsAreProducts`).

**What a thread has.** `LInv` says of each thread that its context, its answer and its
last output are what the *full* tables give for the key and the block it set last
(`KeyGood`, `WorkGood`). With `IInv`, which says that whoever reads the tables
finds them full, this is inductive, and the four properties follow from the theorems
above.

**The argument for the hashing programs.** `GivenIsTaken`: what the hasher was
given is the beginning of the input up to what was taken. Reading 0 bytes means
that all was taken.

**The argument for the test program.** `Counted`: the counter has moved by the
number of records read in this call, and all of them verified. A verdict then
says where the reading stopped: behind the last record, or at the first wrong one.
That `verify_gcm_encryption` and its two siblings answer for the truth of a record
follows from `CryptAndTagIsGcm` and `AuthDecryptIsGcm` for a legal key. With an
illegal key nothing is done to counter and hash that a record could rely on: the tag
is made under the zeros of `gcm_zero_ctx`, and a right record cannot have it.

**The argument for the modes.** None of the four properties of `Gcm` is inductive:
the output alone does not say where the counter stands, and the tag does not say
what was hashed. `IInv` of `GcmProofs` says that memory, counter and hash after
any number of updates are those of **one** update of all the bytes fed so far
(`AtFed`, `Hashed`), and that between updates these are whole blocks. `PiecesJoin`
is the step. The rest is about one update of a whole message, which loops
over blocks: the loops of `gcm_update` are recursive functions over `0..n`,
and a fact about them is proved by taking the set of the numbers it holds for and
the smallest number outside of it (`LeastOf`, `Induct`), which takes the place of the
library's induction rules. `FreshKeystream` is the counter's arithmetic: `Place`
weighs its bytes, `AsNumber` is a bijection, and two blocks that are less than
`Counters` apart have different counters.

**The argument for the channel.** `SealedOpens` follows from the two theorems on
`gcm.c`: `IInv` keeps both contexts keyed with the same key, says that every
message sealed is the one of the definition, and that what is on the wire is
a sealed message, damaged or not. `OpenedWasSealed` needs that tags are injective, up to the
hash and the cipher being so (a value is the record of what it was computed from):
`ClosedBlocks` finds the last block again behind leading zeros, `LengthBlockTells`
the two lengths in it, `PaddedSame` the data and the ciphertext without their
padding, `FirstCounterTells` the IV, native or hashed. `IInv` was checked by TLC on
the instance of the run, and with two damages per message, before it was
proved.

**The argument for the client.** `ClientIInv`: every answered call has counter mode as
its output (`IsMasked`), under the round keys that `gcm_setkey` leaves, legal or not; a
call without an answer is the last one of the process. Counter mode is its own
inverse, so decryption undoes encryption.

**Only model-checked:** `EmptyIsKnown`, a published value for one input, which evaluation
settles; it ties the constants of `Blake3Rounds` to the world outside, as no definition
within the project could, and no proof uses it. `EveryCallReturns`, which is liveness:
`ENABLED` and fairness are out of the provers' reach. The four violations are counterexamples, and TLC shows them.

## 5. What is not modelled

| Part | Why |
|---|---|
| x86 assembly kernels (`blake3_*_x86-64_unix.S`) | vendored; the dispatcher's choice among them is modelled, what they compute is taken to be the compression function |
| threads that call `gcm_initialize` at the same time for the first time | the comments forbid it, and the model keeps the rule; the race between `aes.c:150` and `aes.c:207` is therefore outside of every property |
| a message of more than 2^32 - 2 blocks, a tag of no or of more than 16 bytes (`gcm.c:330`, `gcm.c:393`) | the code checks neither and documents the limits only; the properties hold up to them and say nothing beyond |
| a short `fread` in `main_blake3_measure.c:23` | modelled, but the digest of the half-filled buffer is judged by no property: the code promises nothing for it |
| encryption under round keys of zeros, after a key of a wrong size (`aes-gcm.c:19`) | modelled, and `ErrorReachesCaller` shows the other half, the null pointer; nothing in the repository says what the call should return for such a key |
| the total that `gcmtest.c` prints after several files | `testcount` is modelled and carries over; `VerdictIsRight` judges by how much it grew in a call |
| printing, times, hexadecimal input | `print_with_commas`, `fprintf`, `clock` and the byte cursor of `verify_gcm` carry no state that a property is about |
| ELF files, perf scripts, plots, CSV, `src/basic/hello.c` | no program logic |

## 6. Findings

All are divergences between a comment and the code; the fourth is a bug of the code.

1. `blake3.c:599-600` says that with an empty chunk state "the top of the stack
   is a chunk hash". After one update of four chunks it is the chaining value of
   a parent, because update pushes the halves of a subtree (`blake3.c:553-555`).
   finalize starts from the top **two** entries and is right either way. Run
   `top_of_stack`.
2. `aes.c:31-33` says that if the tables were not built "an error will be
   returned to the caller". `aes_setkey` does return -1, but `aes_gcm_encrypt`,
   `aes_gcm_decrypt` and `main_encrypt.c` drop it and go on to the cipher with a
   null round key pointer; `main_encrypt.c` never calls `gcm_initialize`, which
   `gcm.h:58` requires. Run `aes_gcm_error`.
3. The comments of `aes_vtype.c` announce the main rounds of AES in software and
   a final round. The loop XORs round keys into the state and nothing else, its
   second register starts eight bytes after the first, and its round keys are two
   words apart. With two lanes the last eight of 32 bytes are not written. Run
   `aes_vtype`. `aes_avx2.c`, with the same signature, does encrypt the blocks.
4. The comment at `blake3_vector.c:23` announces `cv0 = (cv0 XOR word0) + flags`. The last
   argument of a vector intrinsic is the vector length, and lines 24 and 27 pass 0, so
   that no lane of `*cv0` is computed: in no build does the register become that value.
   Run `vector_mix`. The 0 looks like one argument too many that was meant to follow
   `vl`, as in lines 22 and 74 to 81, where it does follow it, and where it is an error
   to the compiler. Nothing defines `RISCV_VECTOR`, so no build notices either.

## 7. How the project grew, and what is left

In this order: bit helpers, chunk layer, tree, wide path, hasher, abstract
hash, proofs of the stack's bounds; GCM calls, context, channel, clients;
dispatch and its proofs; words and the portable compression function, vector
kernels; AES tables, schedules, cipher and multiplication, under threads, with
proofs; the test program and the hashing programs, with proofs; the proofs of the
modes, the channel and the client; the proofs of the wide path, of the hasher's data
and of its refinement; the proofs of AES and of the multiplication of GCM; the proofs of
the algorithms of BLAKE3.

Every safety property that a passing run checks is now a theorem. Left: the
termination of update by a ranking function, as far as it can be said without
`ENABLED`; and a model of what the x86 kernels compute, should they be brought into
the repository as something other than vendored assembly.
