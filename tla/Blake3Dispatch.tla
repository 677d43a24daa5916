--------------------------- MODULE Blake3Dispatch ---------------------------
(***************************************************************************)
(* blake3_dispatch.c: threads hash at once, and every call of a kernel     *)
(* first asks get_cpu_features, which reads a global cache and, while that *)
(* is UNDEFINED, detects the features step by step and stores them.  The   *)
(* cache is an atomic int, or an aligned int that is read and written in   *)
(* one access; nothing orders the threads.                                 *)
(*                                                                         *)
(* A host is a CPU, its operating system and a build: what cpuid says in   *)
(* leaf 1 (`has`, the truth) and in leaf 7 (`leaf7`, which means something *)
(* only if max_id reaches it), the register states XCR0 enables, and what  *)
(* the preprocessor was told.                                              *)
(***************************************************************************)
EXTENDS Integers

CONSTANTS Threads,    \* the threads that hash
          Hosts,      \* the hosts considered
          MaxBlocks   \* bound: blocks of extended output asked for in a call

Feature == {"SSE2", "SSSE3", "SSE41", "AVX", "AVX2", "AVX512F", "AVX512VL"}
Leaf7 == {"AVX2", "AVX512F", "AVX512VL"}
Kernel == {"avx512", "avx2", "sse41", "sse2", "neon", "portable"}

\* The cache before anyone has filled it: a bit that is no feature's.
UNDEFINED == {"UNDEFINED"}

Host == [x86 : BOOLEAN, amd64 : BOOLEAN, neon : BOOLEAN, win32 : BOOLEAN,
         compiled : SUBSET Kernel, has : SUBSET (Feature \cup {"OSXSAVE"}),
         max_id : Nat, leaf7 : SUBSET Leaf7, states : SUBSET {"AVX", "ZMM"}]

ASSUME HostAssumption ==
  /\ Hosts \subseteq Host
  /\ MaxBlocks \in Nat
  /\ \A h \in Hosts :
       /\ h.amd64 => h.x86 /\ "SSE2" \in h.has
       /\ h.neon => ~ h.x86
       /\ h.max_id >= 7 => h.leaf7 = h.has \cap Leaf7
       /\ "AVX512VL" \in h.has => "AVX512F" \in h.has

Op == {"compress_in_place", "compress_xof", "xof_many", "hash_many",
       "simd_degree"}

VARIABLES host,            \* where the program runs
          g_cpu_features,  \* the cache
          pc, op, left,    \* per thread: where it is, in which call, and how
                           \* many blocks the call has left to output
          features,        \* per thread: the local of get_cpu_features
          used,            \* history: kernels and privileged instructions run
          chosen,          \* history: the kernel each operation has got
          degrees          \* history: what blake3_simd_degree has returned

vars == <<host, g_cpu_features, pc, op, left, features, used, chosen, degrees>>

Init ==
  /\ host \in Hosts
  /\ g_cpu_features = UNDEFINED
  /\ pc = [t \in Threads |-> "idle"]
  /\ op = [t \in Threads |-> "simd_degree"]
  /\ left = [t \in Threads |-> 0]
  /\ features = [t \in Threads |-> {}]
  /\ used = {} /\ chosen = {} /\ degrees = {}

-----------------------------------------------------------------------------
(***************************************************************************)
(* The steps of get_cpu_features.                                          *)
(***************************************************************************)
leaf1_features(h) ==
  (IF h.amd64 THEN {"SSE2"} ELSE h.has \cap {"SSE2"})
    \cup (h.has \cap {"SSSE3", "SSE41"})

xgetbv_features(h) == IF "AVX" \in h.states THEN h.has \cap {"AVX"} ELSE {}

leaf7_features(h) ==
  h.leaf7 \cap ({"AVX2"} \cup (IF "ZMM" \in h.states
                               THEN {"AVX512F", "AVX512VL"} ELSE {}))

after_leaf1(h) == IF "OSXSAVE" \in h.has THEN "xgetbv" ELSE "store"

\* Wrong on purpose: leaf 7 is read whatever the largest leaf is.
leaf7_unchecked(h) == IF "AVX" \in h.states THEN "leaf7" ELSE "store"

after_xgetbv(h) ==
  IF "AVX" \in h.states /\ h.max_id >= 7 THEN "leaf7" ELSE "store"

\* Wrong on purpose: the features are collected in the cache itself.
published_early(t, at, found) == g_cpu_features' = found

\* Wrong on purpose: a thread that detects marks the cache as empty first.
published_afresh(t, at, found) ==
  g_cpu_features' = CASE at = "leaf1" -> UNDEFINED
                      [] at = "store" -> found
                      [] OTHER        -> g_cpu_features

\* What other threads see after thread t has found some features: they are
\* collected in a local, which is stored when it is complete.
published(t, at, found) ==
  g_cpu_features' = IF at = "store" THEN found ELSE g_cpu_features

\* Wrong on purpose: the cache is used without a look at whether it is filled.
LoadUnchecked(t) ==
  /\ pc[t] = "load"
  /\ features' = [features EXCEPT ![t] = g_cpu_features]
  /\ pc' = [pc EXCEPT ![t] = "dispatch"]
  /\ UNCHANGED <<host, g_cpu_features, op, left, used, chosen, degrees>>

Load(t) ==
  /\ pc[t] = "load"
  /\ IF g_cpu_features # UNDEFINED
     THEN /\ features' = [features EXCEPT ![t] = g_cpu_features]
          /\ pc' = [pc EXCEPT ![t] = "dispatch"]
     ELSE /\ features' = [features EXCEPT ![t] = {}]
          /\ pc' = [pc EXCEPT ![t] = "leaf1"]
  /\ UNCHANGED <<host, g_cpu_features, op, left, used, chosen, degrees>>

\* A step of the detection: thread t, at `at`, finds some more and goes on.
Detect(t, at, more, next) ==
  /\ pc[t] = at
  /\ features' = [features EXCEPT ![t] = @ \cup more]
  /\ pc' = [pc EXCEPT ![t] = next]
  /\ published(t, at, features[t] \cup more)
  /\ UNCHANGED <<host, op, left, chosen, degrees>>

DetectLeaf1(t) ==
  /\ Detect(t, "leaf1", leaf1_features(host), after_leaf1(host))
  /\ UNCHANGED used

DetectXgetbv(t) ==
  /\ Detect(t, "xgetbv", xgetbv_features(host), after_xgetbv(host))
  /\ used' = used \cup {"xgetbv"}

DetectLeaf7(t) ==
  /\ Detect(t, "leaf7", leaf7_features(host), "store")
  /\ UNCHANGED used

Store(t) ==
  /\ Detect(t, "store", {}, "dispatch")
  /\ UNCHANGED used

-----------------------------------------------------------------------------
(***************************************************************************)
(* What each operation makes of the features f.                            *)
(***************************************************************************)
both_avx512(f) == {"AVX512F", "AVX512VL"} \subseteq f

sse_or_portable(h, f) ==
  IF h.x86 /\ "sse41" \in h.compiled /\ "SSE41" \in f THEN "sse41"
  ELSE IF h.x86 /\ "sse2" \in h.compiled /\ "SSE2" \in f THEN "sse2"
  ELSE "portable"

\* blake3_compress_in_place and blake3_compress_xof.
compress_kernel(h, f) ==
  IF h.x86 /\ "avx512" \in h.compiled /\ "AVX512VL" \in f THEN "avx512"
  ELSE sse_or_portable(h, f)

hash_many_kernel(h, f) ==
  IF h.x86 /\ "avx512" \in h.compiled /\ both_avx512(f) THEN "avx512"
  ELSE IF h.x86 /\ "avx2" \in h.compiled /\ "AVX2" \in f THEN "avx2"
  ELSE IF sse_or_portable(h, f) # "portable" THEN sse_or_portable(h, f)
  ELSE IF h.neon THEN "neon" ELSE "portable"

\* Wrong on purpose: one of the two features is taken for both.
degree_by_either(h, f) ==
  IF h.x86 /\ "avx512" \in h.compiled /\ f \cap {"AVX512F", "AVX512VL"} # {}
  THEN 16
  ELSE IF h.x86 /\ "avx2" \in h.compiled /\ "AVX2" \in f THEN 8
  ELSE IF sse_or_portable(h, f) # "portable" THEN 4
  ELSE IF h.neon THEN 4 ELSE 1

simd_degree(h, f) ==
  IF h.x86 /\ "avx512" \in h.compiled /\ both_avx512(f) THEN 16
  ELSE IF h.x86 /\ "avx2" \in h.compiled /\ "AVX2" \in f THEN 8
  ELSE IF sse_or_portable(h, f) # "portable" THEN 4
  ELSE IF h.neon THEN 4 ELSE 1

\* Whether blake3_xof_many has a kernel; it calls blake3_compress_xof for
\* every block otherwise.
has_xof_many(h, f) ==
  /\ h.x86 /\ ~ h.win32
  /\ "avx512" \in h.compiled /\ "AVX512VL" \in f

entry(h) == IF h.x86 THEN "load" ELSE "dispatch"

\* A thread makes a call; no blocks of extended output are no work.
Call(t, o, blocks) ==
  /\ pc[t] = "idle"
  /\ o = "xof_many" \/ blocks = 1
  /\ op' = [op EXCEPT ![t] = o]
  /\ left' = [left EXCEPT ![t] = blocks]
  /\ pc' = [pc EXCEPT ![t] = IF blocks = 0 THEN "idle" ELSE entry(host)]
  /\ UNCHANGED <<host, g_cpu_features, features, used, chosen, degrees>>

Run(t, o, kernel) ==
  /\ used' = used \cup {kernel}
  /\ chosen' = chosen \cup {[op |-> o, kernel |-> kernel]}

Return(t) ==
  /\ pc' = [pc EXCEPT ![t] = "idle"]
  /\ UNCHANGED <<op, left>>

AnswerDegree(t) ==
  /\ pc[t] = "dispatch" /\ op[t] = "simd_degree"
  /\ degrees' = degrees \cup {simd_degree(host, features[t])}
  /\ Return(t)
  /\ UNCHANGED <<host, g_cpu_features, features, used, chosen>>

HashMany(t) ==
  /\ pc[t] = "dispatch" /\ op[t] = "hash_many"
  /\ Run(t, "hash_many", hash_many_kernel(host, features[t]))
  /\ Return(t)
  /\ UNCHANGED <<host, g_cpu_features, features, degrees>>

CompressInPlace(t) ==
  /\ pc[t] = "dispatch" /\ op[t] = "compress_in_place"
  /\ Run(t, "compress_in_place", compress_kernel(host, features[t]))
  /\ Return(t)
  /\ UNCHANGED <<host, g_cpu_features, features, degrees>>

XofMany(t) ==
  /\ pc[t] = "dispatch" /\ op[t] = "xof_many"
  /\ IF has_xof_many(host, features[t])
     THEN Run(t, "xof_many", "avx512") /\ Return(t)
     ELSE /\ op' = [op EXCEPT ![t] = "compress_xof"]
          /\ pc' = [pc EXCEPT ![t] = entry(host)]
          /\ UNCHANGED <<left, used, chosen>>
  /\ UNCHANGED <<host, g_cpu_features, features, degrees>>

\* One block, alone or of those that blake3_xof_many loops over: each one
\* asks for the features again.
CompressXof(t) ==
  /\ pc[t] = "dispatch" /\ op[t] = "compress_xof"
  /\ Run(t, "compress_xof", compress_kernel(host, features[t]))
  /\ left' = [left EXCEPT ![t] = @ - 1]
  /\ pc' = [pc EXCEPT ![t] = IF left[t] > 1 THEN entry(host) ELSE "idle"]
  /\ UNCHANGED <<host, g_cpu_features, op, features, degrees>>

Next ==
  \E t \in Threads :
    \/ \E o \in Op, blocks \in 0..MaxBlocks : Call(t, o, blocks)
    \/ Load(t)
    \/ DetectLeaf1(t) \/ DetectXgetbv(t) \/ DetectLeaf7(t) \/ Store(t)
    \/ AnswerDegree(t) \/ HashMany(t)
    \/ CompressInPlace(t) \/ XofMany(t) \/ CompressXof(t)

Spec == Init /\ [][Next]_vars

-----------------------------------------------------------------------------
\* What detection comes to on a host, all at once.
detected(h) ==
  leaf1_features(h) \cup
    (IF "OSXSAVE" \in h.has /\ "AVX" \in h.states
     THEN xgetbv_features(h) \cup (IF h.max_id >= 7 THEN leaf7_features(h)
                                   ELSE {})
     ELSE {})

Where == {"idle", "load", "leaf1", "xgetbv", "leaf7", "store", "dispatch"}

\* Every thread is somewhere in the code, with a set of features, and a call
\* in progress has a block to output or its one answer to give.
TypeOK ==
  /\ host \in Hosts
  /\ g_cpu_features \in {UNDEFINED} \cup SUBSET Feature
  /\ pc \in [Threads -> Where]
  /\ op \in [Threads -> Op]
  /\ left \in [Threads -> 0..MaxBlocks]
  /\ \A t \in Threads : pc[t] # "idle" => left[t] > 0
  /\ features \in [Threads -> SUBSET Feature]
  /\ used \subseteq Kernel \cup {"xgetbv"}
  /\ chosen \subseteq [op : Op, kernel : Kernel]
  /\ degrees \subseteq {1, 4, 8, 16}

\* The cache is empty or complete, and so is what a thread dispatches on,
\* whoever detected it; a thread half way holds the part it has found.
CacheIsComplete ==
  /\ g_cpu_features \in {UNDEFINED, detected(host)}
  /\ \A t \in Threads :
       /\ pc[t] = "leaf1" => features[t] = {}
       /\ pc[t] = "xgetbv" =>
            features[t] = leaf1_features(host) /\ "OSXSAVE" \in host.has
       /\ pc[t] = "leaf7" =>
            /\ features[t] = leaf1_features(host) \cup xgetbv_features(host)
            /\ "OSXSAVE" \in host.has /\ "AVX" \in host.states
            /\ host.max_id >= 7
       /\ pc[t] = "store" => features[t] = detected(host)
       /\ pc[t] = "dispatch" /\ host.x86 => features[t] = detected(host)
       /\ pc[t] \in {"load", "leaf1", "xgetbv", "leaf7", "store"} => host.x86

\* Two calls of blake3_simd_degree agree, and so do two calls of the same
\* operation on its kernel, whichever threads make them and whenever:
\* blake3_compress_subtree_wide asks for the degree twice at every level of
\* its recursion and sizes its arrays by the answers (blake3.c:277, 296).
OneAnswer ==
  /\ \A d, e \in degrees : d = e
  /\ \A a, b \in chosen : a.op = b.op => a.kernel = b.kernel

\* The instructions a kernel is made of, and what may run: what the CPU has,
\* as far as the operating system keeps the registers.
Needs(instruction) ==
  CASE instruction = "avx512" -> {"AVX512F", "AVX512VL"}
    [] instruction = "avx2"   -> {"AVX2"}
    [] instruction = "sse41"  -> {"SSE41"}
    [] instruction = "sse2"   -> {"SSE2"}
    [] instruction = "neon"   -> {"NEON"}
    [] instruction = "xgetbv" -> {"OSXSAVE"}
    [] OTHER -> {}

Usable(h) ==
  (h.has \cap {"SSE2", "SSSE3", "SSE41", "OSXSAVE"})
    \cup (IF h.neon THEN {"NEON"} ELSE {})
    \cup (IF "OSXSAVE" \in h.has /\ "AVX" \in h.states
          THEN h.has \cap ({"AVX", "AVX2"} \cup
                           (IF "ZMM" \in h.states THEN {"AVX512F", "AVX512VL"}
                            ELSE {}))
          ELSE {})

\* No thread ever runs an instruction the CPU does not have or the operating
\* system does not support, not even while another one is still detecting.
RunsWhatHostHas == \A i \in used : Needs(i) \subseteq Usable(host)

Lanes(kernel) ==
  CASE kernel = "avx512" -> 16
    [] kernel = "avx2" -> 8
    [] kernel \in {"sse41", "sse2", "neon"} -> 4
    [] OTHER -> 1

\* The degree that sizes the batches is the number of lanes of the kernel that
\* hashes them, and no more than the build makes room for (blake3_impl.h:64-70).
DegreeFillsKernel ==
  \A d \in degrees :
    /\ \A c \in chosen : c.op = "hash_many" => d = Lanes(c.kernel)
    /\ d <= (IF host.x86 THEN 16 ELSE IF host.neon THEN 4 ELSE 1)

\* Once filled the cache keeps its value, though several threads may each have
\* found it empty and store what they detected.
FilledForGood ==
  [][g_cpu_features # UNDEFINED => g_cpu_features' = g_cpu_features]_vars

=============================================================================
