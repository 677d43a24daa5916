------------------------ MODULE Blake3KernelsProofs -------------------------
(***************************************************************************)
(* What blake3_dispatch.c chooses and what the kernels compute.  For any   *)
(* set of hosts and any number of threads no kernel runs where it cannot;  *)
(* for any SIMD degree the wide path ends with the children of the tree's  *)
(* root; the loops that stand in for builtins, the portable compression    *)
(* function and the vector kernels do what their definitions say, for any  *)
(* word, any block and any register length.                                *)
(***************************************************************************)
EXTENDS Blake3Algorithms, Blake3Dispatch, Blake3TreeProofs

-----------------------------------------------------------------------------
(***************************************************************************)
(* The detection of the CPU's features, and the kernels chosen by it.      *)
(***************************************************************************)
\* Features are sets of names of features, detected step by step or at once.
LEMMA FeaturesAreFeatures ==
  ASSUME NEW h \in Hosts
  PROVE  /\ leaf1_features(h) \in SUBSET Feature
         /\ xgetbv_features(h) \in SUBSET Feature
         /\ leaf7_features(h) \in SUBSET Feature
         /\ detected(h) \in SUBSET Feature
  BY DEF leaf1_features, xgetbv_features, leaf7_features, detected, Feature

\* Whatever the features, an operation has a kernel, and a degree one of four.
LEMMA KernelsAreKernels ==
  ASSUME NEW h, NEW f
  PROVE  /\ compress_kernel(h, f) \in Kernel
         /\ hash_many_kernel(h, f) \in Kernel
         /\ simd_degree(h, f) \in {1, 4, 8, 16}
  BY DEF compress_kernel, hash_many_kernel, simd_degree, sse_or_portable,
         Kernel

\* Where get_cpu_features is not called its local decides nothing.
LEMMA FeaturesMatterOnX86 ==
  ASSUME NEW h, ~ h.x86, NEW f, NEW g
  PROVE  /\ compress_kernel(h, f) = compress_kernel(h, g)
         /\ hash_many_kernel(h, f) = hash_many_kernel(h, g)
         /\ simd_degree(h, f) = simd_degree(h, g)
         /\ ~ has_xof_many(h, f)
  BY DEF compress_kernel, hash_many_kernel, simd_degree, sse_or_portable,
         has_xof_many

\* Every field has its type at first.
THEOREM TypeInitially == Init => TypeOK
  BY HostAssumption DEF Init, TypeOK, Where, Op

\* One step keeps every field of the state in its type.
THEOREM TypeStep == TypeOK /\ [Next]_vars => TypeOK'
<1> SUFFICES ASSUME TypeOK, [Next]_vars PROVE TypeOK'
  OBVIOUS
<1> USE DEF TypeOK
<1>h. host \in Hosts /\ MaxBlocks \in Nat
  BY HostAssumption
<1>f. /\ leaf1_features(host) \in SUBSET Feature
      /\ xgetbv_features(host) \in SUBSET Feature
      /\ leaf7_features(host) \in SUBSET Feature
  BY <1>h, FeaturesAreFeatures
<1>1. ASSUME NEW t \in Threads, NEW o \in Op, NEW blocks \in 0..MaxBlocks,
             Call(t, o, blocks)
      PROVE  TypeOK'
  BY <1>1 DEF Call, entry, Where
<1>2. ASSUME NEW t \in Threads, Load(t)
      PROVE  TypeOK'
  BY <1>2, SMTT(30) DEF Load, Where
<1>3. ASSUME NEW t \in Threads, NEW at \in Where \ {"idle"}, NEW more \in SUBSET Feature,
             NEW next \in Where, Detect(t, at, more, next),
             used' \subseteq used \cup {"xgetbv"}
      PROVE  TypeOK'
  <2>1. features[t] \cup more \in SUBSET Feature
    BY <1>3
  <2> QED
    BY <1>3, <2>1 DEF Detect, published
<1>4. ASSUME NEW t \in Threads,
             DetectLeaf1(t) \/ DetectXgetbv(t) \/ DetectLeaf7(t) \/ Store(t)
      PROVE  TypeOK'
  <2>1. /\ after_leaf1(host) \in Where /\ after_xgetbv(host) \in Where
        /\ {"leaf1", "xgetbv", "leaf7", "store", "dispatch"}
             \subseteq Where \ {"idle"}
    BY DEF after_leaf1, after_xgetbv, Where
  <2> QED
    BY <1>3, <1>4, <1>f, <2>1
       DEF DetectLeaf1, DetectXgetbv, DetectLeaf7, Store
<1>5. ASSUME NEW t \in Threads, AnswerDegree(t)
      PROVE  TypeOK'
  <2>1. simd_degree(host, features[t]) \in {1, 4, 8, 16}
    BY KernelsAreKernels
  <2> QED
    BY <1>5, <2>1 DEF AnswerDegree, Return, Where
<1>r. ASSUME NEW t \in Threads, NEW o \in Op, NEW kernel \in Kernel,
             Run(t, o, kernel)
      PROVE  /\ used' \subseteq Kernel \cup {"xgetbv"}
             /\ chosen' \subseteq [op : Op, kernel : Kernel]
  BY <1>r DEF Run
<1>6. ASSUME NEW t \in Threads, HashMany(t) \/ CompressInPlace(t)
      PROVE  TypeOK'
  <2>1. /\ hash_many_kernel(host, features[t]) \in Kernel
        /\ compress_kernel(host, features[t]) \in Kernel
        /\ "hash_many" \in Op /\ "compress_in_place" \in Op
    BY KernelsAreKernels DEF Op
  <2>2. /\ used' \subseteq Kernel \cup {"xgetbv"}
        /\ chosen' \subseteq [op : Op, kernel : Kernel]
    BY <1>6, <1>r, <2>1 DEF HashMany, CompressInPlace
  <2> QED
    BY <1>6, <2>2 DEF HashMany, CompressInPlace, Return, Where
<1>7. ASSUME NEW t \in Threads, XofMany(t)
      PROVE  TypeOK'
  <2>1. /\ "avx512" \in Kernel /\ "xof_many" \in Op /\ "compress_xof" \in Op
        /\ entry(host) \in Where /\ "idle" \in Where
    BY DEF Kernel, entry, Where, Op
  <2>2. /\ used' \subseteq Kernel \cup {"xgetbv"}
        /\ chosen' \subseteq [op : Op, kernel : Kernel]
    BY <1>7, <1>r, <2>1 DEF XofMany
  <2> QED
    BY <1>7, <2>1, <2>2 DEF XofMany, Return
<1>8. ASSUME NEW t \in Threads, CompressXof(t)
      PROVE  TypeOK'
  <2>1. /\ compress_kernel(host, features[t]) \in Kernel
        /\ "compress_xof" \in Op
        /\ entry(host) \in Where /\ "idle" \in Where
    BY KernelsAreKernels DEF entry, Where, Op
  <2>2. /\ used' \subseteq Kernel \cup {"xgetbv"}
        /\ chosen' \subseteq [op : Op, kernel : Kernel]
    BY <1>8, <1>r, <2>1 DEF CompressXof
  <2>3. left[t] \in 0..MaxBlocks /\ left[t] > 0
    BY <1>8 DEF CompressXof
  <2>4. left[t] - 1 \in 0..MaxBlocks
    BY <1>h, <2>3
  <2>5. \A u \in Threads : pc'[u] # "idle" => left'[u] > 0
    BY <1>8, <2>3 DEF CompressXof
  <2> QED
    BY <1>8, <2>1, <2>2, <2>4, <2>5 DEF CompressXof
<1>9. CASE UNCHANGED vars
  BY <1>9 DEF vars
<1> QED
  BY <1>1, <1>2, <1>4, <1>5, <1>6, <1>7, <1>8, <1>9 DEF Next

\* The types of the state hold in every behaviour of any number of threads.
THEOREM DispatchTypeCorrect == Spec => []TypeOK
  BY TypeInitially, TypeStep, PTL DEF Spec

-----------------------------------------------------------------------------
\* At first the cache is empty and no thread is in a call.
THEOREM CacheInitially == Init => CacheIsComplete
  BY DEF Init, CacheIsComplete

\* The cache stays empty or complete, and a local in its stage of detection.
THEOREM CacheStep ==
  TypeOK /\ CacheIsComplete /\ [Next]_vars => CacheIsComplete'
<1> SUFFICES ASSUME TypeOK, CacheIsComplete, [Next]_vars
             PROVE  CacheIsComplete'
  OBVIOUS
<1>h. /\ host \in Hosts
      /\ pc \in [Threads -> Where]
      /\ features \in [Threads -> SUBSET Feature]
  BY DEF TypeOK
<1> USE DEF CacheIsComplete
<1>1. ASSUME NEW t \in Threads, NEW o \in Op, NEW blocks \in 0..MaxBlocks,
             Call(t, o, blocks)
      PROVE  CacheIsComplete'
  BY <1>1, <1>h DEF Call, entry
<1>2. ASSUME NEW t \in Threads, Load(t)
      PROVE  CacheIsComplete'
  BY <1>2, <1>h DEF Load
<1>3. ASSUME NEW t \in Threads, DetectLeaf1(t)
      PROVE  CacheIsComplete'
  BY <1>3, <1>h DEF DetectLeaf1, Detect, published, after_leaf1, detected
<1>4. ASSUME NEW t \in Threads, DetectXgetbv(t)
      PROVE  CacheIsComplete'
  BY <1>4, <1>h
     DEF DetectXgetbv, Detect, published, after_xgetbv, detected,
         xgetbv_features
<1>5. ASSUME NEW t \in Threads, DetectLeaf7(t)
      PROVE  CacheIsComplete'
  BY <1>5, <1>h DEF DetectLeaf7, Detect, published, detected
<1>6. ASSUME NEW t \in Threads, Store(t)
      PROVE  CacheIsComplete'
  BY <1>6, <1>h DEF Store, Detect, published
<1>7. ASSUME NEW t \in Threads,
             AnswerDegree(t) \/ HashMany(t) \/ CompressInPlace(t)
      PROVE  CacheIsComplete'
  BY <1>7, <1>h DEF AnswerDegree, HashMany, CompressInPlace, Return
<1>8. ASSUME NEW t \in Threads, XofMany(t) \/ CompressXof(t)
      PROVE  CacheIsComplete'
  BY <1>8, <1>h DEF XofMany, CompressXof, Return, entry
<1>9. CASE UNCHANGED vars
  BY <1>9 DEF vars
<1> QED
  BY <1>1, <1>2, <1>3, <1>4, <1>5, <1>6, <1>7, <1>8, <1>9 DEF Next

\* At every moment the cache is empty or holds the complete detection, and so
\* does a thread that dispatches: nobody acts on features half detected.
THEOREM CacheCorrect == Spec => []CacheIsComplete
  BY TypeInitially, TypeStep, CacheInitially, CacheStep, PTL DEF Spec

\* What has been stored is never replaced by something else.
THEOREM CacheForGood == Spec => FilledForGood
<1>1. TypeOK /\ CacheIsComplete /\ [Next]_vars =>
        (g_cpu_features # UNDEFINED => g_cpu_features' = g_cpu_features)
  <2> SUFFICES ASSUME TypeOK, CacheIsComplete, [Next]_vars,
                      g_cpu_features # UNDEFINED
               PROVE  g_cpu_features' = g_cpu_features
    OBVIOUS
  <2>1. ASSUME NEW t \in Threads, Store(t)
        PROVE  g_cpu_features' = g_cpu_features
    BY <2>1 DEF Store, Detect, published, CacheIsComplete
  <2> QED
    BY <2>1 DEF Next, vars, Call, Load, DetectLeaf1, DetectXgetbv, DetectLeaf7,
                Detect, published, AnswerDegree, HashMany, CompressInPlace,
                XofMany, CompressXof
<1> QED
  BY <1>1, DispatchTypeCorrect, CacheCorrect, PTL DEF Spec, FilledForGood

-----------------------------------------------------------------------------
\* The kernel an operation gets from the complete detection.
kernel_for(o, h) ==
  CASE o = "hash_many" -> hash_many_kernel(h, detected(h))
    [] o = "xof_many" -> "avx512"
    [] OTHER -> compress_kernel(h, detected(h))

\* The invariant over the history: every answer given so far is the one the
\* complete detection gives, and nothing else has run but the instruction that
\* asks for the register states, on a CPU that has it.
AnswersOfDetected ==
  /\ \A d \in degrees : d = simd_degree(host, detected(host))
  /\ \A c \in chosen :
       /\ c.kernel = kernel_for(c.op, host)
       /\ c.op = "xof_many" => has_xof_many(host, detected(host))
  /\ \A i \in used :
       \/ i = "xgetbv" /\ "OSXSAVE" \in host.has
       \/ \E c \in chosen : c.kernel = i

\* A call that dispatches uses what it would from the complete detection.
LEMMA DispatchOnDetected ==
  ASSUME CacheIsComplete, NEW t \in Threads, pc[t] = "dispatch"
  PROVE  /\ simd_degree(host, features[t]) = simd_degree(host, detected(host))
         /\ compress_kernel(host, features[t])
              = compress_kernel(host, detected(host))
         /\ hash_many_kernel(host, features[t])
              = hash_many_kernel(host, detected(host))
         /\ has_xof_many(host, features[t])
              => has_xof_many(host, detected(host))
<1>1. CASE host.x86
  <2>1. features[t] = detected(host)
    BY <1>1 DEF CacheIsComplete
  <2> QED
    BY <2>1
<1>2. CASE ~ host.x86
  BY <1>2, FeaturesMatterOnX86
<1> QED
  BY <1>1, <1>2

\* Every answer a step gives is the one of the complete detection.
THEOREM AnswersStep ==
  CacheIsComplete /\ AnswersOfDetected /\ [Next]_vars => AnswersOfDetected'
<1> SUFFICES ASSUME CacheIsComplete, AnswersOfDetected, [Next]_vars
             PROVE  AnswersOfDetected'
  OBVIOUS
<1> USE DEF AnswersOfDetected
<1>1. CASE UNCHANGED <<host, used, chosen, degrees>>
  BY <1>1
<1>2. ASSUME NEW t \in Threads, DetectXgetbv(t)
      PROVE  AnswersOfDetected'
  BY <1>2 DEF DetectXgetbv, Detect, CacheIsComplete
<1>3. ASSUME NEW t \in Threads, AnswerDegree(t)
      PROVE  AnswersOfDetected'
  BY <1>3, DispatchOnDetected DEF AnswerDegree
<1>4. ASSUME NEW t \in Threads, NEW o, NEW kernel, Run(t, o, kernel),
             kernel = kernel_for(o, host),
             o = "xof_many" => has_xof_many(host, detected(host)),
             UNCHANGED <<host, degrees>>
      PROVE  AnswersOfDetected'
  <2>1. /\ host' = host /\ degrees' = degrees
        /\ used' = used \cup {kernel}
        /\ chosen' = chosen \cup {[op |-> o, kernel |-> kernel]}
    BY <1>4 DEF Run
  <2>2. \A c \in chosen' :
          /\ c.kernel = kernel_for(c.op, host)
          /\ c.op = "xof_many" => has_xof_many(host, detected(host))
    BY <1>4, <2>1
  <2>3. \A i \in used' : \/ i = "xgetbv" /\ "OSXSAVE" \in host.has
                        \/ \E c \in chosen' : c.kernel = i
    <3>1. [op |-> o, kernel |-> kernel].kernel = kernel
      OBVIOUS
    <3> QED
      BY <2>1, <3>1
  <2> QED
    BY <2>1, <2>2, <2>3
<1>5. ASSUME NEW t \in Threads, HashMany(t)
      PROVE  AnswersOfDetected'
  BY <1>4, <1>5, DispatchOnDetected DEF HashMany, kernel_for
<1>6. ASSUME NEW t \in Threads, CompressInPlace(t)
      PROVE  AnswersOfDetected'
  BY <1>4, <1>6, DispatchOnDetected DEF CompressInPlace, kernel_for
<1>7. ASSUME NEW t \in Threads, XofMany(t)
      PROVE  AnswersOfDetected'
  BY <1>4, <1>7, DispatchOnDetected DEF XofMany, kernel_for
<1>8. ASSUME NEW t \in Threads, CompressXof(t)
      PROVE  AnswersOfDetected'
  BY <1>4, <1>8, DispatchOnDetected DEF CompressXof, kernel_for
<1> QED
  BY <1>1, <1>2, <1>3, <1>5, <1>6, <1>7, <1>8
     DEF Next, vars, Call, Load, DetectLeaf1, DetectLeaf7, Store, Detect

\* The three parts of the invariant hold in every behaviour.
LEMMA AnswersAlways ==
  Spec => [](TypeOK /\ CacheIsComplete /\ AnswersOfDetected)
<1>1. Init => AnswersOfDetected
  BY DEF Init, AnswersOfDetected
<1> QED
  BY <1>1, AnswersStep, DispatchTypeCorrect, CacheCorrect, PTL DEF Spec

\* However many threads ask, and whenever, two calls of blake3_simd_degree or
\* of the same operation get the same answer.
THEOREM SameAnswer == Spec => []OneAnswer
<1>1. AnswersOfDetected => OneAnswer
  BY DEF AnswersOfDetected, OneAnswer
<1> QED
  BY <1>1, AnswersAlways, PTL

\* The degree is the number of lanes of the kernel that hashes the batches, and
\* within the arrays of the build.
THEOREM DegreeCorrect == Spec => []DegreeFillsKernel
<1>1. TypeOK /\ AnswersOfDetected => DegreeFillsKernel
  <2> SUFFICES ASSUME TypeOK, AnswersOfDetected, NEW d \in degrees
               PROVE  /\ \A c \in chosen :
                           c.op = "hash_many" => d = Lanes(c.kernel)
                      /\ d <= (IF host.x86 THEN 16
                               ELSE IF host.neon THEN 4 ELSE 1)
    BY DEF DegreeFillsKernel
  <2>1. d = simd_degree(host, detected(host))
    BY DEF AnswersOfDetected
  <2>2. d = Lanes(hash_many_kernel(host, detected(host)))
    BY <2>1 DEF simd_degree, hash_many_kernel, sse_or_portable, Lanes
  <2>3. d <= (IF host.x86 THEN 16 ELSE IF host.neon THEN 4 ELSE 1)
    BY <2>1 DEF simd_degree, sse_or_portable
  <2> QED
    BY <2>2, <2>3 DEF AnswersOfDetected, kernel_for
<1> QED
  BY <1>1, AnswersAlways, PTL

\* A kernel picked from the complete detection needs only what the host can
\* run.
LEMMA DetectedIsUsable ==
  ASSUME NEW h \in Hosts
  PROVE  /\ detected(h) \subseteq Usable(h)
         /\ Needs(compress_kernel(h, detected(h))) \subseteq Usable(h)
         /\ Needs(hash_many_kernel(h, detected(h))) \subseteq Usable(h)
         /\ has_xof_many(h, detected(h)) => Needs("avx512") \subseteq Usable(h)
<1>1. h \in Host
  BY HostAssumption
<1>2. detected(h) \subseteq Usable(h)
  BY <1>1, HostAssumption
     DEF detected, leaf1_features, xgetbv_features, leaf7_features, Usable,
         Leaf7
<1>3. "AVX512VL" \in detected(h) => "AVX512F" \in Usable(h)
  BY <1>1, HostAssumption
     DEF detected, leaf1_features, xgetbv_features, leaf7_features, Usable,
         Leaf7
<1>4. "neon" # hash_many_kernel(h, detected(h)) \/ "NEON" \in Usable(h)
  BY DEF hash_many_kernel, sse_or_portable, Usable
<1> QED
  BY <1>2, <1>3, <1>4
     DEF Needs, compress_kernel, hash_many_kernel, sse_or_portable,
         both_avx512, has_xof_many

\* No thread runs an instruction that the host does not support, at any moment
\* of anybody's detection.
THEOREM RunsOnlyWhatHostHas == Spec => []RunsWhatHostHas
<1>1. TypeOK /\ AnswersOfDetected => RunsWhatHostHas
  <2> SUFFICES ASSUME TypeOK, AnswersOfDetected, NEW i \in used
               PROVE  Needs(i) \subseteq Usable(host)
    BY DEF RunsWhatHostHas
  <2>1. host \in Hosts
    BY DEF TypeOK
  <2>2. CASE i = "xgetbv" /\ "OSXSAVE" \in host.has
    BY <2>2 DEF Needs, Usable
  <2>3. ASSUME NEW c \in chosen, c.kernel = i
        PROVE  Needs(i) \subseteq Usable(host)
    BY <2>1, <2>3, DetectedIsUsable DEF AnswersOfDetected, kernel_for
  <2> QED
    BY <2>2, <2>3 DEF AnswersOfDetected
<1> QED
  BY <1>1, AnswersAlways, PTL

-----------------------------------------------------------------------------
(***************************************************************************)
(* One round of compress_parents_parallel: neighbours become parents.      *)
(***************************************************************************)
Pairs(key, flags, v) == compress_parents_parallel(v, key, flags)

IsPairs(key, flags, v, t) ==
  /\ IsSeq(t) /\ Len(t) = (Len(v) + 1) \div 2
  /\ \A i \in 1..(Len(v) \div 2) :
       t[i] = parent_cv(v[2 * i - 1], v[2 * i], key, flags)
  /\ Len(v) % 2 = 1 => t[Len(t)] = v[Len(v)]

\* What is left of an array whose length is even, and of one that is odd.
LEMMA Leftover ==
  ASSUME NEW v, IsSeq(v)
  PROVE  LET n == Len(v)
             r == SubSeq(v, 2 * (n \div 2) + 1, n)
         IN  /\ IsSeq(r) /\ Len(r) = n % 2
             /\ n % 2 = 1 => r[1] = v[n]
<1> DEFINE n == Len(v)
           h == 2 * (n \div 2)
           r == SubSeq(v, h + 1, n)
<1>1. n \in Nat /\ h \in Nat /\ n = h + (n % 2) /\ n % 2 \in 0..1
  <2>1. n \in Nat
    BY DEF IsSeq
  <2> HIDE DEF n
  <2> QED
    BY <2>1
<1> HIDE DEF n, h
<1>2. h <= n /\ n - h = n % 2
  BY <1>1
<1>3. IsSeq(r) /\ Len(r) = n - h /\ \A i \in 1..(n - h) : r[i] = v[h + i]
  BY <1>1, <1>2, SliceIs
<1> HIDE DEF r
<1>4. n % 2 = 1 => r[1] = v[n]
  BY <1>1, <1>2, <1>3
<1> QED
  BY <1>2, <1>3, <1>4 DEF r, h, n

\* compress_parents_parallel, element by element.
LEMMA PairsAre ==
  ASSUME NEW key, NEW flags, NEW v, IsSeq(v)
  PROVE  IsPairs(key, flags, v, Pairs(key, flags, v))
<1> DEFINE n == Len(v)
           w == n \div 2
           array == [i \in 1..w |-> <<ParentBlock(v[2*i - 1], v[2*i])>>]
           f == flags \cup {"PARENT"}
           t == hash_many(array, key, 0, FALSE, f, {}, {})
           r == SubSeq(v, 2 * w + 1, n)
           p == Pairs(key, flags, v)
<1>1. n \in Nat /\ w \in Nat /\ n = 2 * w + (n % 2) /\ n % 2 \in 0..1
  <2>1. n \in Nat
    BY DEF IsSeq
  <2> HIDE DEF n
  <2> QED
    BY <2>1
<1>2. p = t \o r
  BY DEF Pairs, compress_parents_parallel
<1>3. IsSeq(r) /\ Len(r) = n % 2 /\ (n % 2 = 1 => r[1] = v[n])
  BY Leftover
<1> HIDE DEF n, w, r, p
<1>4. Len(array) = w
  <2>1. array = [i \in 1..w |-> array[i]]
    OBVIOUS
  <2> HIDE DEF array
  <2> QED
    BY <1>1, <2>1, SeqOf
<1>5. \A i \in 1..w : array[i] = <<ParentBlock(v[2*i - 1], v[2*i])>>
  OBVIOUS
<1> HIDE DEF array
<1>6. IsSeq(t) /\ Len(t) = w
  <2>1. t = [i \in 1..w |-> t[i]]
    BY <1>4 DEF hash_many
  <2> HIDE DEF t
  <2> QED
    BY <1>1, <2>1, SeqOf
<1>7. \A i \in 1..w : t[i] = hash_one(array[i], key, 0, f, {}, {})
  BY <1>4 DEF hash_many
<1> HIDE DEF t
<1>8. ASSUME NEW i \in 1..w PROVE t[i] = parent_cv(v[2*i - 1], v[2*i], key, flags)
  BY <1>5, <1>7, ParentHash
<1>9. /\ IsSeq(p) /\ Len(p) = w + (n % 2)
      /\ \A i \in 1..(w + (n % 2)) : p[i] = IF i <= w THEN t[i] ELSE r[i - w]
  BY <1>2, <1>3, <1>6, ConcatIs
<1>10. w + (n % 2) = (n + 1) \div 2
  BY <1>1
<1>11. \A i \in 1..w : p[i] = parent_cv(v[2*i - 1], v[2*i], key, flags)
  BY <1>1, <1>8, <1>9
<1>12. n % 2 = 1 => p[Len(p)] = v[n]
  <2> SUFFICES ASSUME n % 2 = 1 PROVE p[Len(p)] = v[n]
    OBVIOUS
  <2>1. Len(p) = w + 1 /\ ~ (w + 1 <= w) /\ (w + 1) - w = 1
    BY <1>1, <1>9
  <2> QED
    BY <1>1, <1>3, <1>9, <2>1
<1> QED
  BY <1>9, <1>10, <1>11, <1>12 DEF IsPairs, p, n, w

\* Nothing else is the array of pairs.
LEMMA PairsUnique ==
  ASSUME NEW key, NEW flags, NEW v, IsSeq(v), NEW s, NEW t,
         IsPairs(key, flags, v, s), IsPairs(key, flags, v, t)
  PROVE  s = t
<1> DEFINE n == Len(v)
<1>1. n \in Nat
  BY DEF IsSeq
<1>2. /\ IsSeq(s) /\ IsSeq(t) /\ Len(s) = (n + 1) \div 2 /\ Len(t) = Len(s)
      /\ \A i \in 1..(n \div 2) : s[i] = t[i]
      /\ n % 2 = 1 => s[Len(s)] = t[Len(s)]
  BY DEF IsPairs
<1> HIDE DEF n
<1>3. ASSUME NEW i \in 1..Len(s) PROVE s[i] = t[i]
  <2>1. i \in 1..(n \div 2) \/ (n % 2 = 1 /\ i = Len(s))
    BY <1>1, <1>2
  <2> QED
    BY <1>2, <2>1
<1> QED
  BY <1>2, <1>3, SameSeq

\* Pairs of an even number of values and of others, one after the other, are
\* the pairs of both.
LEMMA PairsJoin ==
  ASSUME NEW key, NEW flags, NEW a, NEW b, IsSeq(a), IsSeq(b),
         NEW m \in Nat, Len(a) = 2 * m
  PROVE  Pairs(key, flags, a \o b) = Pairs(key, flags, a) \o Pairs(key, flags, b)
<1> DEFINE v == a \o b
           n == Len(b)
           x == Pairs(key, flags, a)
           y == Pairs(key, flags, b)
           t == x \o y
           P(c, d) == parent_cv(c, d, key, flags)
<1>1. /\ n \in Nat /\ IsSeq(v) /\ Len(v) = 2 * m + n
      /\ \A i \in 1..(2 * m + n) : v[i] = IF i <= 2 * m THEN a[i] ELSE b[i - 2 * m]
  BY ConcatIs DEF IsSeq
<1>2. /\ IsSeq(x) /\ Len(x) = m
      /\ \A i \in 1..m : x[i] = P(a[2 * i - 1], a[2 * i])
  <2>1. IsPairs(key, flags, a, x)
    BY PairsAre
  <2>2. (2 * m + 1) \div 2 = m /\ (2 * m) \div 2 = m
    OBVIOUS
  <2> QED
    BY <2>1, <2>2 DEF IsPairs
<1>3. /\ IsSeq(y) /\ Len(y) = (n + 1) \div 2
      /\ \A i \in 1..(n \div 2) : y[i] = P(b[2 * i - 1], b[2 * i])
      /\ n % 2 = 1 => y[Len(y)] = b[n]
  <2>1. IsPairs(key, flags, b, y)
    BY PairsAre
  <2> QED
    BY <2>1 DEF IsPairs
<1> HIDE DEF x, y, n, v, P
<1>4. /\ IsSeq(t) /\ Len(t) = m + Len(y)
      /\ \A i \in 1..(m + Len(y)) : t[i] = IF i <= m THEN x[i] ELSE y[i - m]
  BY <1>2, <1>3, ConcatIs
<1> HIDE DEF t
<1>5. Len(t) = (2 * m + n + 1) \div 2
  BY <1>1, <1>3, <1>4
<1>6. ASSUME NEW i \in 1..((2 * m + n) \div 2)
      PROVE  t[i] = P(v[2 * i - 1], v[2 * i])
  <2>1. CASE i <= m
    <3>1. /\ i \in 1..m /\ 2 * i - 1 \in 1..(2 * m + n) /\ 2 * i \in 1..(2 * m + n)
          /\ 2 * i - 1 <= 2 * m /\ 2 * i <= 2 * m /\ i \in 1..(m + Len(y))
      BY <1>1, <1>3, <2>1
    <3> QED
      BY <1>1, <1>2, <1>4, <3>1
  <2>2. CASE ~ (i <= m)
    <3> DEFINE j == i - m
    <3>1. /\ j \in 1..(n \div 2) /\ i \in 1..(m + Len(y))
          /\ 2 * i - 1 \in 1..(2 * m + n) /\ 2 * i \in 1..(2 * m + n)
          /\ ~ (2 * i - 1 <= 2 * m) /\ ~ (2 * i <= 2 * m)
          /\ (2 * i - 1) - 2 * m = 2 * j - 1 /\ 2 * i - 2 * m = 2 * j
      BY <1>1, <1>3, <2>2
    <3>2. t[i] = y[j] /\ v[2 * i - 1] = b[2 * j - 1] /\ v[2 * i] = b[2 * j]
      BY <1>1, <1>4, <2>2, <3>1
    <3> QED
      BY <1>3, <3>1, <3>2
  <2> QED
    BY <2>1, <2>2
<1>7. (2 * m + n) % 2 = 1 => t[Len(t)] = v[2 * m + n]
  <2> SUFFICES ASSUME (2 * m + n) % 2 = 1 PROVE t[Len(t)] = v[2 * m + n]
    OBVIOUS
  <2>1. n % 2 = 1 /\ n > 0 /\ Len(y) > 0
    BY <1>1, <1>3
  <2>2. t[Len(t)] = y[Len(y)]
    <3>1. Len(t) \in 1..(m + Len(y)) /\ ~ (Len(t) <= m) /\ Len(t) - m = Len(y)
      BY <1>1, <1>3, <1>4, <2>1
    <3> QED
      BY <1>4, <3>1
  <2>3. v[2 * m + n] = b[n]
    <3>1. 2 * m + n \in 1..(2 * m + n) /\ ~ (2 * m + n <= 2 * m) /\ (2 * m + n) - 2 * m = n
      BY <1>1, <2>1
    <3> QED
      BY <1>1, <3>1
  <2> QED
    BY <1>3, <2>1, <2>2, <2>3
<1>8. IsPairs(key, flags, v, t)
  BY <1>1, <1>4, <1>5, <1>6, <1>7 DEF IsPairs, P
<1>9. IsPairs(key, flags, v, Pairs(key, flags, v))
  BY <1>1, PairsAre
<1> QED
  BY <1>1, <1>8, <1>9, PairsUnique DEF v, t, x, y

-----------------------------------------------------------------------------
(***************************************************************************)
(* The powers of two.                                                      *)
(***************************************************************************)
\* Each is twice the one before.
LEMMA PowerIs ==
  /\ power[0] = 1
  /\ \A i \in Nat : power[i] \in Nat /\ power[i] > 0 /\ power[i + 1] = 2 * power[i]
<1> DEFINE P == [n \in Nat |-> IF n = 0 THEN 0 ELSE n - 1]
           S == [p \in Nat \X Nat |-> 2 * p[2]]
<1>1. Falls(P) /\ \A n \in Nat : n # 0 => P[n] = n - 1
  <2>1. P \in [Nat -> Nat] /\ \A n \in Nat : P[n] = IF n = 0 THEN 0 ELSE n - 1
    OBVIOUS
  <2> HIDE DEF P
  <2> QED
    BY <2>1 DEF Falls
<1>2. 1 \in Nat /\ S \in [Nat \X Nat -> Nat]
  OBVIOUS
<1>s. ASSUME NEW n \in Nat, NEW y \in Nat PROVE S[n, y] = 2 * y
  <2>1. <<n, y>> \in Nat \X Nat
    OBVIOUS
  <2> QED
    BY <2>1
<1> HIDE DEF P, S
<1>3. PICK f \in [Nat -> Nat] : DescentOn(f, Nat, P, 1, S)
  BY <1>1, <1>2, DescentFunction
<1>4. ASSUME NEW i \in Nat
      PROVE  f[i] = IF i = 0 THEN 1 ELSE 2 * f[i - 1]
  <2>1. i # 0 => f[i - 1] \in Nat
    OBVIOUS
  <2> QED
    BY <1>1, <1>s, <1>3, <2>1 DEF DescentOn
<1>5. f = [i \in Nat |-> IF i = 0 THEN 1 ELSE 2 * f[i - 1]]
  BY <1>4
<1>6. power = [i \in Nat |-> IF i = 0 THEN 1 ELSE 2 * power[i - 1]]
  BY <1>5 DEF power
<1>7. power[0] = 1 /\ \A i \in Nat : power[i + 1] = 2 * power[i]
  <2>1. \A i \in Nat : i + 1 \in Nat /\ i + 1 # 0 /\ (i + 1) - 1 = i
    OBVIOUS
  <2> QED
    BY <1>6, <2>1
<1>8. ASSUME NEW N \in Nat PROVE power[N] \in Nat /\ power[N] > 0
  <2> DEFINE T == {i \in Nat : power[i] \in Nat /\ power[i] > 0}
  <2>1. 0 \in T
    BY <1>7
  <2>2. ASSUME NEW i \in 0..N, i < N, i \in T PROVE i + 1 \in T
    BY <1>7, <2>2
  <2> HIDE DEF T
  <2>3. N \in T
    <3>1. \A i \in 0..N : i \in T
      BY <2>1, <2>2, Induct
    <3> QED
      BY <3>1
  <2> QED
    BY <2>3 DEF T
<1> QED
  BY <1>7, <1>8

-----------------------------------------------------------------------------
(***************************************************************************)
(* Rounds of pairs, g[j] being what is left after j of them.               *)
(***************************************************************************)
PairsOn(g, e, key, flags, v) ==
  g[0] = v /\ \A j \in 0..(e - 1) : g[j + 1] = Pairs(key, flags, g[j])

\* After e rounds one value is left.
ReducesTo(key, flags, v, e, x) ==
  \E g : PairsOn(g, e, key, flags, v) /\ g[e] = <<x>>

\* After e rounds two values are left, and not before.
Narrows(key, flags, v, e, x, y) ==
  \E g : /\ PairsOn(g, e, key, flags, v) /\ g[e] = <<x, y>>
         /\ \A j \in 0..(e - 1) : IsSeq(g[j]) /\ Len(g[j]) > 2

\* One value stays as it is, two become their parent.
LEMMA PairsOfFew ==
  ASSUME NEW key, NEW flags, NEW x, NEW y
  PROVE  /\ Pairs(key, flags, <<x>>) = <<x>>
         /\ Pairs(key, flags, <<x, y>>) = <<parent_cv(x, y, key, flags)>>
         /\ IsSeq(<<x>>) /\ Len(<<x>>) = 1 /\ IsSeq(<<x, y>>) /\ Len(<<x, y>>) = 2
<1>1. IsSeq(<<x>>) /\ Len(<<x>>) = 1 /\ IsSeq(<<x, y>>) /\ Len(<<x, y>>) = 2
  BY DEF IsSeq
<1> DEFINE p == parent_cv(x, y, key, flags)
<1>2. IsSeq(<<p>>) /\ Len(<<p>>) = 1
  BY DEF IsSeq
<1>3. IsPairs(key, flags, <<x>>, <<x>>)
  <2> DEFINE v == <<x>>
  <2>1. IsSeq(v) /\ Len(v) = 1
    BY <1>1
  <2> HIDE DEF v
  <2>2. (Len(v) + 1) \div 2 = Len(v) /\ Len(v) \div 2 = 0
    BY <2>1
  <2>3. \A i \in 1..(Len(v) \div 2) : FALSE
    BY <2>2
  <2>4. IsPairs(key, flags, v, v)
    BY <2>1, <2>2, <2>3 DEF IsPairs
  <2> QED
    BY <2>4 DEF v
<1>4. IsPairs(key, flags, <<x, y>>, <<p>>)
  <2> DEFINE v == <<x, y>>
             t == <<p>>
  <2>1. /\ IsSeq(v) /\ Len(v) = 2 /\ IsSeq(t) /\ Len(t) = 1
        /\ v[1] = x /\ v[2] = y /\ t[1] = p
    BY <1>1, <1>2
  <2>2. p = parent_cv(x, y, key, flags)
    OBVIOUS
  <2> HIDE DEF v, t, p
  <2>3. \A i \in 1..(Len(v) \div 2) :
          t[i] = parent_cv(v[2 * i - 1], v[2 * i], key, flags)
    <3>1. \A i \in 1..(Len(v) \div 2) : i = 1
      BY <2>1
    <3> QED
      BY <2>1, <2>2, <3>1
  <2>4. (Len(v) + 1) \div 2 = Len(t) /\ ~ (Len(v) % 2 = 1)
    BY <2>1
  <2>5. IsPairs(key, flags, v, t)
    BY <2>1, <2>3, <2>4 DEF IsPairs
  <2> QED
    BY <2>5 DEF v, t
<1>5. IsPairs(key, flags, <<x>>, Pairs(key, flags, <<x>>))
  BY <1>1, PairsAre
<1>6. IsPairs(key, flags, <<x, y>>, Pairs(key, flags, <<x, y>>))
  BY <1>1, PairsAre
<1> HIDE DEF p
<1>7. Pairs(key, flags, <<x>>) = <<x>>
  BY <1>1, <1>3, <1>5, PairsUnique
<1>8. Pairs(key, flags, <<x, y>>) = <<p>>
  BY <1>1, <1>4, <1>6, PairsUnique
<1> QED
  BY <1>1, <1>7, <1>8 DEF p

\* Two values have one parent.
LEMMA PairsOfTwo ==
  ASSUME NEW key, NEW flags, NEW x, NEW y
  PROVE  Pairs(key, flags, <<x, y>>) = <<parent_cv(x, y, key, flags)>>
<1> DEFINE one == <<x>>
<1>1. /\ Pairs(key, flags, one) = one
      /\ Pairs(key, flags, <<x, y>>) = <<parent_cv(x, y, key, flags)>>
      /\ IsSeq(one) /\ Len(one) = 1 /\ IsSeq(<<x, y>>) /\ Len(<<x, y>>) = 2
  BY PairsOfFew
<1> QED
  BY <1>1

\* One value is left of one value after no round.
LEMMA SingleReduces ==
  ASSUME NEW key, NEW flags, NEW x
  PROVE  ReducesTo(key, flags, <<x>>, 0, x)
<1> DEFINE g == [j \in 0..0 |-> <<x>>]
<1>1. g[0] = <<x>>
  OBVIOUS
<1> HIDE DEF g
<1>2. PairsOn(g, 0, key, flags, <<x>>)
  BY <1>1 DEF PairsOn
<1> QED
  BY <1>1, <1>2 DEF ReducesTo

\* Rounds with one more appended.
LEMMA OneMoreRound ==
  ASSUME NEW key, NEW flags, NEW v, NEW e \in Nat, NEW g, PairsOn(g, e, key, flags, v)
  PROVE  \E h : /\ PairsOn(h, e + 1, key, flags, v)
                /\ h[e + 1] = Pairs(key, flags, g[e])
<1> DEFINE h == [j \in 0..(e + 1) |-> IF j = e + 1 THEN Pairs(key, flags, g[e])
                                      ELSE g[j]]
<1>1. h[e + 1] = Pairs(key, flags, g[e]) /\ \A j \in 0..e : h[j] = g[j]
  OBVIOUS
<1> HIDE DEF h
<1>2. ASSUME NEW j \in 0..e PROVE h[j + 1] = Pairs(key, flags, h[j])
  <2>1. CASE j = e
    BY <1>1, <2>1
  <2>2. CASE j # e
    <3>1. j \in 0..(e - 1) /\ j + 1 \in 0..e
      BY <2>2
    <3> QED
      BY <1>1, <3>1 DEF PairsOn
  <2> QED
    BY <2>1, <2>2
<1>3. h[0] = v
  BY <1>1 DEF PairsOn
<1>4. PairsOn(h, e + 1, key, flags, v)
  <2>1. (e + 1) - 1 = e
    OBVIOUS
  <2> QED
    BY <1>2, <1>3, <2>1 DEF PairsOn
<1> QED
  BY <1>1, <1>4

\* One more round leaves that value.
LEMMA StaysReduced ==
  ASSUME NEW key, NEW flags, NEW v, NEW x, NEW e \in Nat,
         ReducesTo(key, flags, v, e, x)
  PROVE  ReducesTo(key, flags, v, e + 1, x)
<1>1. PICK g : PairsOn(g, e, key, flags, v) /\ g[e] = <<x>>
  BY DEF ReducesTo
<1>2. PICK h : PairsOn(h, e + 1, key, flags, v) /\ h[e + 1] = Pairs(key, flags, g[e])
  BY <1>1, OneMoreRound
<1>3. Pairs(key, flags, <<x>>) = <<x>>
  BY PairsOfFew
<1>4. h[e + 1] = <<x>>
  BY <1>1, <1>2, <1>3
<1> QED
  BY <1>2, <1>4 DEF ReducesTo

\* And any number of rounds more.
LEMMA RemainsReduced ==
  ASSUME NEW key, NEW flags, NEW v, NEW x, NEW e \in Nat,
         ReducesTo(key, flags, v, e, x), NEW f \in Nat, e <= f
  PROVE  ReducesTo(key, flags, v, f, x)
<1> DEFINE S == {k \in Nat : ReducesTo(key, flags, v, e + k, x)}
<1>1. 0 \in S
  OBVIOUS
<1>2. ASSUME NEW k \in 0..(f - e), k < f - e, k \in S PROVE k + 1 \in S
  <2>1. k \in Nat /\ e + k \in Nat /\ (e + k) + 1 = e + (k + 1)
    BY <1>2
  <2>2. ReducesTo(key, flags, v, e + k, x)
    BY <1>2
  <2>3. ReducesTo(key, flags, v, (e + k) + 1, x)
    BY <2>1, <2>2, StaysReduced
  <2> QED
    BY <2>1, <2>3
<1>3. f - e \in Nat /\ e + (f - e) = f
  OBVIOUS
<1> HIDE DEF S
<1>4. f - e \in S
  <2>1. \A k \in 0..(f - e) : k \in S
    BY <1>1, <1>2, <1>3, Induct
  <2> QED
    BY <1>3, <2>1
<1> QED
  BY <1>3, <1>4 DEF S

\* Two values left become one in another round.
LEMMA NarrowsReduces ==
  ASSUME NEW key, NEW flags, NEW v, NEW x, NEW y, NEW e \in Nat,
         Narrows(key, flags, v, e, x, y)
  PROVE  ReducesTo(key, flags, v, e + 1, parent_cv(x, y, key, flags))
<1>1. PICK g : PairsOn(g, e, key, flags, v) /\ g[e] = <<x, y>>
  BY DEF Narrows
<1>2. PICK h : PairsOn(h, e + 1, key, flags, v) /\ h[e + 1] = Pairs(key, flags, g[e])
  BY <1>1, OneMoreRound
<1> DEFINE two == <<x, y>>
           one == <<parent_cv(x, y, key, flags)>>
<1>3. Pairs(key, flags, two) = one
  BY PairsOfTwo
<1> HIDE DEF two, one
<1>4. h[e + 1] = <<parent_cv(x, y, key, flags)>>
  BY <1>1, <1>2, <1>3 DEF two, one
<1> QED
  BY <1>2, <1>4 DEF ReducesTo

\* Rounds without the first one.
LEMMA OneRoundLess ==
  ASSUME NEW key, NEW flags, NEW v, NEW e \in Nat, NEW g,
         PairsOn(g, e + 1, key, flags, v)
  PROVE  \E h : /\ PairsOn(h, e, key, flags, Pairs(key, flags, v))
                /\ \A j \in 0..e : h[j] = g[j + 1]
<1> DEFINE h == [j \in 0..e |-> g[j + 1]]
<1>1. \A j \in 0..e : h[j] = g[j + 1]
  OBVIOUS
<1> HIDE DEF h
<1>2. g[0] = v /\ \A j \in 0..e : g[j + 1] = Pairs(key, flags, g[j])
  <2>1. (e + 1) - 1 = e
    OBVIOUS
  <2> QED
    BY <2>1 DEF PairsOn
<1>3. h[0] = Pairs(key, flags, v)
  <2>1. 0 \in 0..e /\ 0 + 1 = 1
    OBVIOUS
  <2> QED
    BY <1>1, <1>2, <2>1
<1>4. ASSUME NEW j \in 0..(e - 1) PROVE h[j + 1] = Pairs(key, flags, h[j])
  <2>1. j \in 0..e /\ j + 1 \in 0..e
    OBVIOUS
  <2> QED
    BY <1>1, <1>2, <2>1
<1>5. PairsOn(h, e, key, flags, Pairs(key, flags, v))
  BY <1>3, <1>4 DEF PairsOn
<1> QED
  BY <1>1, <1>5

\* A round taken is a round less to take.
LEMMA LaterReduces ==
  ASSUME NEW key, NEW flags, NEW v, NEW x, NEW e \in Nat,
         ReducesTo(key, flags, v, e + 1, x)
  PROVE  ReducesTo(key, flags, Pairs(key, flags, v), e, x)
<1>1. PICK g : PairsOn(g, e + 1, key, flags, v) /\ g[e + 1] = <<x>>
  BY DEF ReducesTo
<1>2. PICK h : /\ PairsOn(h, e, key, flags, Pairs(key, flags, v))
               /\ \A j \in 0..e : h[j] = g[j + 1]
  BY <1>1, OneRoundLess
<1> QED
  BY <1>1, <1>2 DEF ReducesTo

\* The same of two values left.
LEMMA LaterNarrows ==
  ASSUME NEW key, NEW flags, NEW v, NEW x, NEW y, NEW e \in Nat,
         Narrows(key, flags, v, e, x, y), Len(v) > 2
  PROVE  \E d \in Nat : Narrows(key, flags, Pairs(key, flags, v), d, x, y)
<1>1. PICK g : /\ PairsOn(g, e, key, flags, v) /\ g[e] = <<x, y>>
               /\ \A j \in 0..(e - 1) : IsSeq(g[j]) /\ Len(g[j]) > 2
  BY DEF Narrows
<1>2. e # 0
  <2> SUFFICES ASSUME e = 0 PROVE FALSE
    OBVIOUS
  <2>1. v = <<x, y>>
    BY <1>1 DEF PairsOn
  <2>2. Len(v) = 2
    BY <2>1, PairsOfFew
  <2> QED
    BY <2>2
<1> DEFINE d == e - 1
<1>3. d \in Nat /\ d + 1 = e
  BY <1>2
<1> HIDE DEF d
<1>4. PICK h : /\ PairsOn(h, d, key, flags, Pairs(key, flags, v))
               /\ \A j \in 0..d : h[j] = g[j + 1]
  BY <1>1, <1>3, OneRoundLess
<1>5. h[d] = <<x, y>>
  BY <1>1, <1>3, <1>4
<1>6. ASSUME NEW j \in 0..(d - 1) PROVE IsSeq(h[j]) /\ Len(h[j]) > 2
  <2>1. j \in 0..d /\ j + 1 \in 0..(e - 1)
    BY <1>3
  <2> QED
    BY <1>1, <1>4, <2>1
<1>7. Narrows(key, flags, Pairs(key, flags, v), d, x, y)
  BY <1>4, <1>5, <1>6 DEF Narrows
<1> QED
  BY <1>3, <1>7

\* The lengths of what is left after each round.
LEMMA RoundsShrink ==
  ASSUME NEW key, NEW flags, NEW v, IsSeq(v), NEW e \in Nat,
         Len(v) \in 1..power[e], NEW g, PairsOn(g, e, key, flags, v)
  PROVE  \A j \in 0..e : /\ IsSeq(g[j]) /\ Len(g[j]) \in 1..power[e - j]
                         /\ Len(v) = power[e] => Len(g[j]) = power[e - j]
<1> DEFINE S == {j \in 0..e : /\ IsSeq(g[j]) /\ Len(g[j]) \in 1..power[e - j]
                              /\ Len(v) = power[e] => Len(g[j]) = power[e - j]}
<1>1. 0 \in S
  BY DEF PairsOn
<1>2. ASSUME NEW j \in 0..e, j < e, j \in S PROVE j + 1 \in S
  <2> DEFINE l == Len(g[j])
             k == e - (j + 1)
  <2>1. k \in Nat /\ k + 1 = e - j /\ j + 1 \in 0..e /\ j \in 0..(e - 1)
    BY <1>2
  <2>2. /\ IsSeq(g[j]) /\ l \in 1..power[k + 1]
        /\ Len(v) = power[e] => l = power[k + 1]
    BY <1>2, <2>1
  <2>3. power[k] \in Nat /\ power[k] > 0 /\ power[k + 1] = 2 * power[k]
    BY <2>1, PowerIs
  <2>4. IsPairs(key, flags, g[j], g[j + 1])
    <3>1. g[j + 1] = Pairs(key, flags, g[j])
      BY <2>1 DEF PairsOn
    <3> QED
      BY <2>2, <3>1, PairsAre
  <2> HIDE DEF l, k
  <2>5. IsSeq(g[j + 1]) /\ Len(g[j + 1]) = (l + 1) \div 2
    BY <2>4 DEF IsPairs, l
  <2>6. l \in 1..(2 * power[k]) /\ (Len(v) = power[e] => l = 2 * power[k])
    BY <2>2, <2>3
  <2>7. (l + 1) \div 2 \in 1..power[k]
    BY <2>3, <2>6
  <2>8. l = 2 * power[k] => (l + 1) \div 2 = power[k]
    BY <2>3
  <2>9. /\ Len(g[j + 1]) \in 1..power[k]
        /\ Len(v) = power[e] => Len(g[j + 1]) = power[k]
    BY <2>5, <2>6, <2>7, <2>8
  <2> QED
    BY <2>1, <2>5, <2>9 DEF k
<1> HIDE DEF S
<1>3. \A j \in 0..e : j \in S
  BY <1>1, <1>2, Induct
<1> QED
  BY <1>3 DEF S

\* Two sequences of one element, one after the other.
LEMMA TwoOnes == ASSUME NEW x, NEW y PROVE <<x>> \o <<y>> = <<x, y>>
<1> DEFINE s == <<x>>
           t == <<y>>
           u == <<x, y>>
           c == s \o t
<1>1. /\ IsSeq(s) /\ IsSeq(t) /\ IsSeq(u) /\ Len(s) = 1 /\ Len(t) = 1 /\ Len(u) = 2
      /\ s[1] = x /\ t[1] = y /\ u[1] = x /\ u[2] = y
  BY PairsOfFew
<1> HIDE DEF s, t, u
<1>2. /\ IsSeq(c) /\ Len(c) = 2
      /\ \A i \in 1..2 : c[i] = IF i <= 1 THEN s[i] ELSE t[i - 1]
  BY <1>1, ConcatIs
<1> HIDE DEF c
<1>3. ASSUME NEW i \in 1..2 PROVE c[i] = u[i]
  <2>1. i = 1 \/ i = 2
    OBVIOUS
  <2> QED
    BY <1>1, <1>2, <2>1
<1>4. c = u
  BY <1>1, <1>2, <1>3, SameSeq
<1> QED
  BY <1>4 DEF c, s, t, u

\* The values under a full subtree and those under its right neighbour, one
\* after the other, narrow down to the values of the two.
LEMMA NeighboursNarrow ==
  ASSUME NEW key, NEW flags, NEW a, NEW b, IsSeq(a), IsSeq(b), NEW e \in Nat,
         Len(a) = power[e], Len(b) \in 1..power[e], NEW x, NEW y,
         ReducesTo(key, flags, a, e, x), ReducesTo(key, flags, b, e, y)
  PROVE  Narrows(key, flags, a \o b, e, x, y)
<1>1. PICK f : PairsOn(f, e, key, flags, a) /\ f[e] = <<x>>
  BY DEF ReducesTo
<1>2. PICK g : PairsOn(g, e, key, flags, b) /\ g[e] = <<y>>
  BY DEF ReducesTo
<1>3. /\ power[e] \in Nat /\ power[e] > 0 /\ Len(a) \in 1..power[e]
      /\ 0 \in 0..e /\ e \in 0..e
  <2>1. power[e] \in Nat /\ power[e] > 0
    BY PowerIs
  <2> QED
    BY <2>1
<1>4. \A j \in 0..e : IsSeq(f[j]) /\ Len(f[j]) = power[e - j]
  BY <1>1, <1>3, RoundsShrink
<1>5. \A j \in 0..e : IsSeq(g[j]) /\ Len(g[j]) \in 1..power[e - j]
  BY <1>2, RoundsShrink
<1> DEFINE h == [j \in 0..e |-> f[j] \o g[j]]
<1>6. \A j \in 0..e : h[j] = f[j] \o g[j]
  OBVIOUS
<1> HIDE DEF h
<1>7. ASSUME NEW j \in 0..(e - 1)
      PROVE  /\ h[j + 1] = Pairs(key, flags, h[j])
             /\ IsSeq(h[j]) /\ Len(h[j]) > 2
  <2> DEFINE k == e - (j + 1)
             m == power[k]
  <2>1. /\ k \in Nat /\ k + 1 = e - j /\ j \in 0..e /\ j + 1 \in 0..e
    OBVIOUS
  <2>2. m \in Nat /\ m > 0 /\ power[e - j] = 2 * m
    BY <2>1, PowerIs
  <2>3. /\ IsSeq(f[j]) /\ Len(f[j]) = 2 * m
        /\ IsSeq(g[j]) /\ Len(g[j]) \in 1..(2 * m)
    BY <1>4, <1>5, <2>1, <2>2
  <2> HIDE DEF m, k
  <2>4. f[j + 1] = Pairs(key, flags, f[j]) /\ g[j + 1] = Pairs(key, flags, g[j])
    BY <1>1, <1>2 DEF PairsOn
  <2>5. Pairs(key, flags, f[j] \o g[j]) =
          Pairs(key, flags, f[j]) \o Pairs(key, flags, g[j])
    BY <2>2, <2>3, PairsJoin
  <2>6. IsSeq(h[j]) /\ Len(h[j]) = 2 * m + Len(g[j])
    <3>1. IsSeq(f[j] \o g[j]) /\ Len(f[j] \o g[j]) = Len(f[j]) + Len(g[j])
      BY <2>3, ConcatIs
    <3> QED
      BY <1>6, <2>1, <2>3, <3>1
  <2>7. Len(h[j]) > 2
    <3> DEFINE z == Len(g[j])
    <3>1. z \in 1..(2 * m) /\ Len(h[j]) = 2 * m + z
      BY <2>3, <2>6
    <3> HIDE DEF z
    <3> QED
      BY <2>2, <3>1
  <2> QED
    BY <1>6, <2>1, <2>4, <2>5, <2>6, <2>7
<1>8. h[0] = a \o b
  BY <1>1, <1>2, <1>3, <1>6 DEF PairsOn
<1>9. h[e] = <<x, y>>
  <2>1. h[e] = <<x>> \o <<y>>
    BY <1>1, <1>2, <1>3, <1>6
  <2> QED
    BY <2>1, TwoOnes
<1>10. PairsOn(h, e, key, flags, a \o b)
  BY <1>7, <1>8 DEF PairsOn
<1> QED
  BY <1>7, <1>9, <1>10 DEF Narrows

\* condense takes just the rounds that narrow an array down to two values.
LEMMA CondenseNarrows ==
  ASSUME NEW key, NEW flags, NEW v, IsSeq(v), NEW e \in Nat, NEW x, NEW y,
         Narrows(key, flags, v, e, x, y)
  PROVE  condense(v, key, flags) = <<x, y>>
<1> DEFINE n == Len(v)
           two == <<x, y>>
<1>1. PICK g : /\ PairsOn(g, e, key, flags, v) /\ g[e] = two
               /\ \A j \in 0..(e - 1) : IsSeq(g[j]) /\ Len(g[j]) > 2
  BY DEF Narrows
<1>2. n \in Nat /\ Len(two) = 2
  BY PairsOfFew DEF IsSeq
<1>3. PICK r : RoundsOn(r, n, v, key, flags) /\ condense(v, key, flags) = r[n]
  BY <1>2, CondenseIs
<1> HIDE DEF n, two
<1>4. \A j \in 0..e : Len(g[j]) \in Nat /\ Len(g[j]) + j <= n
  <2> DEFINE S == {j \in 0..e : Len(g[j]) \in Nat /\ Len(g[j]) + j <= n}
  <2>1. 0 \in S
    BY <1>1, <1>2 DEF PairsOn, n
  <2>2. ASSUME NEW j \in 0..e, j < e, j \in S PROVE j + 1 \in S
    <3>1. j \in 0..(e - 1) /\ j + 1 \in 0..e
      BY <2>2
    <3>2. IsSeq(g[j]) /\ Len(g[j]) > 2 /\ Len(g[j]) \in Nat /\ Len(g[j]) + j <= n
      BY <1>1, <2>2, <3>1
    <3>3. g[j + 1] = Pairs(key, flags, g[j])
      BY <1>1, <3>1 DEF PairsOn
    <3>4. IsPairs(key, flags, g[j], g[j + 1])
      BY <3>2, <3>3, PairsAre
    <3>5. Len(g[j + 1]) = (Len(g[j]) + 1) \div 2
      BY <3>4 DEF IsPairs
    <3>6. Len(g[j + 1]) \in Nat /\ Len(g[j + 1]) + (j + 1) <= n
      <4> DEFINE l == Len(g[j])
      <4>1. l \in Nat /\ l > 2 /\ l + j <= n /\ Len(g[j + 1]) = (l + 1) \div 2
        BY <3>2, <3>5
      <4> HIDE DEF l
      <4>2. (l + 1) \div 2 \in Nat /\ (l + 1) \div 2 <= l - 1 /\ j \in Nat
        BY <4>1
      <4> QED
        BY <1>2, <4>1, <4>2
    <3> QED
      BY <3>1, <3>6
  <2> HIDE DEF S
  <2>3. \A j \in 0..e : j \in S
    BY <2>1, <2>2, Induct
  <2> QED
    BY <2>3 DEF S
<1>5. e <= n
  <2>1. e \in 0..e
    OBVIOUS
  <2>2. Len(g[e]) + e <= n
    BY <1>4, <2>1
  <2> QED
    BY <1>1, <1>2, <2>2
<1>6. \A i \in 0..n : r[i] = IF i = 0 THEN v ELSE Halve(r[i - 1], key, flags)
  BY <1>3 DEF RoundsOn
<1>7. \A j \in 0..e : r[j] = g[j]
  <2> DEFINE S == {j \in 0..e : r[j] = g[j]}
  <2>1. 0 \in S
    BY <1>1, <1>2, <1>6 DEF PairsOn
  <2>2. ASSUME NEW j \in 0..e, j < e, j \in S PROVE j + 1 \in S
    <3>1. /\ j \in 0..(e - 1) /\ j + 1 \in 0..e /\ j + 1 \in 0..n
          /\ (j + 1) - 1 = j /\ j + 1 # 0
      BY <1>2, <1>5, <2>2
    <3>2. r[j + 1] = Halve(g[j], key, flags)
      BY <1>6, <2>2, <3>1
    <3>3. Halve(g[j], key, flags) = Pairs(key, flags, g[j])
      BY <1>1, <3>1 DEF Halve, Pairs
    <3>4. g[j + 1] = Pairs(key, flags, g[j])
      BY <1>1, <3>1 DEF PairsOn
    <3> QED
      BY <3>1, <3>2, <3>3, <3>4
  <2> HIDE DEF S
  <2>3. \A j \in 0..e : j \in S
    BY <2>1, <2>2, Induct
  <2> QED
    BY <2>3 DEF S
<1>8. r[n] = two
  <2> DEFINE S == {i \in 0..(n - e) : r[e + i] = two}
  <2>1. 0 \in S
    BY <1>1, <1>2, <1>5, <1>7
  <2>2. ASSUME NEW i \in 0..(n - e), i < n - e, i \in S PROVE i + 1 \in S
    <3>1. /\ e + (i + 1) \in 0..n /\ e + (i + 1) # 0
          /\ (e + (i + 1)) - 1 = e + i /\ i + 1 \in 0..(n - e)
      BY <1>2, <1>5, <2>2
    <3>2. r[e + (i + 1)] = Halve(two, key, flags)
      BY <1>6, <2>2, <3>1
    <3>3. Halve(two, key, flags) = two
      BY <1>2 DEF Halve
    <3> QED
      BY <3>1, <3>2, <3>3
  <2>3. n - e \in Nat /\ e + (n - e) = n
    BY <1>2, <1>5
  <2> HIDE DEF S
  <2>4. n - e \in S
    <3>1. \A i \in 0..(n - e) : i \in S
      BY <2>1, <2>2, <2>3, Induct
    <3> QED
      BY <2>3, <3>1
  <2> QED
    BY <2>3, <2>4 DEF S
<1> QED
  BY <1>3, <1>8 DEF two

-----------------------------------------------------------------------------
(***************************************************************************)
(* compress_chunks_parallel on any number of bytes: a value for every      *)
(* chunk, the last one being of what is left.                              *)
(***************************************************************************)
ValueAt(key, flags, ctr, s, lo, n) == NodeCV(key, flags, ctr, Part(s, lo, n))

\* The bytes of the i-th of the chunks of n bytes.
ChunkSize(n, i) ==
  IF n - At(i - 1) > CHUNK_LEN THEN CHUNK_LEN ELSE n - At(i - 1)

IsChunks(key, flags, ctr, s, lo, n, v) ==
  /\ IsSeq(v) /\ n <= At(Len(v)) /\ At(Len(v)) < n + CHUNK_LEN
  /\ \A i \in 1..Len(v) :
       v[i] = ValueAt(key, flags, ctr + (i - 1), s, lo + At(i - 1), ChunkSize(n, i))

ChunksOf(key, flags, ctr, s, lo, n) ==
  compress_chunks_parallel(Part(s, lo, n), key, ctr, flags)

\* hash_many on the full chunks at the front of an input.
FullChunks(in, key, ctr, flags, m) ==
  hash_many([i \in 1..m |-> chunk_blocks(in, (i - 1) * CHUNK_LEN)], key, ctr,
            TRUE, flags, {"CHUNK_START"}, {"CHUNK_END"})

\* It gives the values of the chunks.
LEMMA FullChunksAre ==
  ASSUME NEW key, NEW flags, NEW ctr \in Nat, NEW s, NEW lo \in Nat,
         NEW m \in Nat, NEW n \in Nat, At(m) <= n
  PROVE  LET t == FullChunks(Part(s, lo, n), key, ctr, flags, m)
         IN  /\ IsSeq(t) /\ Len(t) = m
             /\ \A i \in 1..m :
                  t[i] = ValueAt(key, flags, ctr + (i - 1), s, lo + At(i - 1),
                                 CHUNK_LEN)
<1> DEFINE in == Part(s, lo, n)
           array == [i \in 1..m |-> chunk_blocks(in, (i - 1) * CHUNK_LEN)]
           t == FullChunks(in, key, ctr, flags, m)
<1>1. Len(array) = m
  <2>1. array = [i \in 1..m |-> array[i]]
    OBVIOUS
  <2> HIDE DEF array
  <2> QED
    BY <2>1, SeqOf
<1>2. \A i \in 1..m : array[i] = chunk_blocks(in, (i - 1) * CHUNK_LEN)
  OBVIOUS
<1>3. t = hash_many(array, key, ctr, TRUE, flags, {"CHUNK_START"}, {"CHUNK_END"})
  BY DEF FullChunks
<1> HIDE DEF array, in, t
<1>4. IsSeq(t) /\ Len(t) = m
  <2>1. t = [i \in 1..m |-> t[i]]
    BY <1>1, <1>3 DEF hash_many
  <2> QED
    BY <2>1, SeqOf
<1>5. \A i \in 1..m : t[i] = hash_one(array[i], key, ctr + (i - 1), flags,
                                      {"CHUNK_START"}, {"CHUNK_END"})
  BY <1>1, <1>3 DEF hash_many
<1>6. ASSUME NEW i \in 1..m
      PROVE  t[i] = ValueAt(key, flags, ctr + (i - 1), s, lo + At(i - 1), CHUNK_LEN)
  <2> DEFINE k == i - 1
             x == lo + At(k)
             p == Part(s, x, CHUNK_LEN)
             c == ctr + k
  <2>1. /\ k \in Nat /\ c \in Nat /\ At(k) \in Nat /\ x \in Nat
        /\ At(k) + CHUNK_LEN <= n /\ (i - 1) * CHUNK_LEN = At(k)
    <3>1. k \in Nat /\ k < m
      OBVIOUS
    <3>2. (i - 1) * CHUNK_LEN = At(k)
      BY DEF At
    <3> HIDE DEF k
    <3>3. At(k) \in Nat /\ At(k) + CHUNK_LEN <= At(m) /\ At(m) \in Nat
      BY <3>1, AtFacts
    <3> QED
      BY <3>1, <3>2, <3>3, Lengths
  <2>2. array[i] = chunk_blocks(in, At(k))
    BY <1>2, <2>1
  <2>3. t[i] = hash_one(array[i], key, c, flags, {"CHUNK_START"}, {"CHUNK_END"})
    BY <1>5
  <2> HIDE DEF k, c
  <2>4. t[i] = output_chaining_value(ChunkOutput(key, flags, c, Part(in, At(k), CHUNK_LEN)))
    BY <2>1, <2>2, <2>3, ChunkHash
  <2>5. Part(in, At(k), CHUNK_LEN) = p
    BY <2>1, Lengths, PartOfPart DEF in
  <2> HIDE DEF x, p
  <2>6. NodeOutput(key, flags, c, Part(s, x, CHUNK_LEN)) =
          ChunkOutput(key, flags, c, Part(s, x, CHUNK_LEN))
    <3>1. CHUNK_LEN \in Nat /\ CHUNK_LEN <= CHUNK_LEN
      BY Lengths
    <3> QED
      BY <2>1, <3>1, PartLeaf
  <2> QED
    BY <2>4, <2>5, <2>6 DEF ValueAt, NodeCV, p, x, c, k
<1> QED
  BY <1>4, <1>6 DEF t, in

\* What is left over is hashed as a chunk of its own.
LEMMA LastChunkIs ==
  ASSUME NEW key, NEW flags, NEW ctr \in Nat, NEW s, NEW lo \in Nat,
         NEW r \in Nat, r <= CHUNK_LEN
  PROVE  output_chaining_value(chunk_state_output(chunk_state_update(
           fresh_chunk_state(key, flags, ctr), Part(s, lo, r)))) =
             ValueAt(key, flags, ctr, s, lo, r)
<1> DEFINE rest == Part(s, lo, r)
<1>1. IsSeq(rest)
  BY PartIs
<1>2. NodeOutput(key, flags, ctr, rest) = ChunkOutput(key, flags, ctr, rest)
  BY PartLeaf
<1> HIDE DEF rest
<1>3. chunk_state_update(fresh_chunk_state(key, flags, ctr), rest) =
        Holds(key, flags, ctr, rest)
  <2>1. fresh_chunk_state(key, flags, ctr) = Holds(key, flags, ctr, <<>>)
    BY FreshHolds
  <2>2. chunk_state_update(Holds(key, flags, ctr, <<>>), rest) =
          Holds(key, flags, ctr, rest)
    BY <1>1, UpdateFresh
  <2> QED
    BY <2>1, <2>2
<1>4. chunk_state_output(Holds(key, flags, ctr, rest)) =
        ChunkOutput(key, flags, ctr, rest)
  BY <1>1, OutputHolds
<1> QED
  BY <1>2, <1>3, <1>4 DEF ValueAt, NodeCV, rest

\* A number and its whole chunks.
LEMMA WholeChunks ==
  ASSUME NEW n \in Nat
  PROVE  \E q \in Nat : \E r \in Nat :
           /\ q = n \div CHUNK_LEN /\ r < CHUNK_LEN /\ n = At(q) + r
           /\ At(q) \in Nat /\ q * CHUNK_LEN = At(q)
<1> DEFINE q == n \div CHUNK_LEN
           r == n % CHUNK_LEN
<1>1. /\ q \in Nat /\ r \in Nat /\ r < CHUNK_LEN /\ n = CHUNK_LEN * q + r
      /\ CHUNK_LEN \in Nat
  BY Lengths
<1> HIDE DEF q, r
<1>2. q * CHUNK_LEN = CHUNK_LEN * q
  BY <1>1
<1>3. At(q) \in Nat /\ At(q) = q * CHUNK_LEN
  BY <1>1, AtFacts DEF At
<1>4. n = At(q) + r
  BY <1>1, <1>2, <1>3
<1> QED
  BY <1>1, <1>3, <1>4 DEF q

\* The size of a full chunk and that of the last one.
LEMMA ChunkSizes ==
  ASSUME NEW q \in Nat, NEW r \in Nat, r < CHUNK_LEN
  PROVE  /\ \A i \in 1..q : ChunkSize(At(q) + r, i) = CHUNK_LEN
         /\ ChunkSize(At(q) + r, q + 1) = r
<1>1. ASSUME NEW i \in 1..q PROVE ChunkSize(At(q) + r, i) = CHUNK_LEN
  <2> DEFINE k == i - 1
             n == At(q) + r
  <2>1. k \in Nat /\ k < q
    OBVIOUS
  <2> HIDE DEF n
  <2>2. ChunkSize(n, i) = IF n - At(k) > CHUNK_LEN THEN CHUNK_LEN ELSE n - At(k)
    BY DEF ChunkSize
  <2> HIDE DEF k
  <2>3. At(k) \in Nat /\ At(q) \in Nat /\ At(k) + CHUNK_LEN <= At(q)
    BY <2>1, AtFacts
  <2>4. n \in Nat /\ n - At(k) \in Nat /\ n - At(k) >= CHUNK_LEN
    BY <2>3, Lengths DEF n
  <2>5. ChunkSize(n, i) = CHUNK_LEN
    BY <2>2, <2>4, Lengths
  <2> QED
    BY <2>5 DEF n
<1>2. ChunkSize(At(q) + r, q + 1) = r
  <2> DEFINE n == At(q) + r
  <2>1. (q + 1) - 1 = q
    OBVIOUS
  <2>2. At(q) \in Nat /\ n - At(q) = r
    <3>1. At(q) \in Nat
      BY AtFacts
    <3> QED
      BY <3>1
  <2> HIDE DEF n
  <2>3. ChunkSize(n, q + 1) = IF n - At(q) > CHUNK_LEN THEN CHUNK_LEN ELSE n - At(q)
    BY <2>1 DEF ChunkSize
  <2>4. ChunkSize(n, q + 1) = r
    BY <2>2, <2>3, Lengths
  <2> QED
    BY <2>4 DEF n
<1> QED
  BY <1>1, <1>2

\* compress_chunks_parallel, element by element.
LEMMA ChunksAre ==
  ASSUME NEW key, NEW flags, NEW ctr \in Nat, NEW s, NEW lo \in Nat,
         NEW n \in Nat
  PROVE  IsChunks(key, flags, ctr, s, lo, n, ChunksOf(key, flags, ctr, s, lo, n))
<1> DEFINE in == Part(s, lo, n)
           full == Len(in) \div CHUNK_LEN
           rest == SubSeq(in, full * CHUNK_LEN + 1, Len(in))
           last == output_chaining_value(chunk_state_output(chunk_state_update(
                     fresh_chunk_state(key, flags, ctr + full), rest)))
           v == ChunksOf(key, flags, ctr, s, lo, n)
           V(i) == ValueAt(key, flags, ctr + (i - 1), s, lo + At(i - 1), ChunkSize(n, i))
<1>1. v = FullChunks(in, key, ctr, flags, full) \o
            (IF rest = <<>> THEN <<>> ELSE <<last>>)
  BY DEF ChunksOf, compress_chunks_parallel, FullChunks
<1>2. IsSeq(in) /\ Len(in) = n
  BY PartIs
<1>3. PICK q \in Nat, r \in Nat :
        /\ q = n \div CHUNK_LEN /\ r < CHUNK_LEN /\ n = At(q) + r
        /\ At(q) \in Nat /\ q * CHUNK_LEN = At(q)
  BY WholeChunks
<1>4. full = q
  BY <1>2, <1>3
<1> DEFINE t == FullChunks(in, key, ctr, flags, q)
           c == ctr + q
           x == lo + At(q)
<1>5. IsSeq(t) /\ Len(t) = q
      /\ \A i \in 1..q : t[i] = ValueAt(key, flags, ctr + (i - 1), s, lo + At(i - 1), CHUNK_LEN)
  <2>1. At(q) <= n
    BY <1>3
  <2> QED
    BY <2>1, FullChunksAre
<1>6. rest = Part(s, x, r)
  <2>1. rest = SubSeq(in, At(q) + 1, At(q) + r)
    BY <1>2, <1>3, <1>4
  <2>2. SubSeq(in, At(q) + 1, At(q) + r) = Part(in, At(q), r)
    BY <1>3, PartIsSlice
  <2>3. Part(in, At(q), r) = Part(s, x, r)
    BY <1>3, PartOfPart
  <2> QED
    BY <2>1, <2>2, <2>3
<1>7. x \in Nat /\ c \in Nat /\ r <= CHUNK_LEN
  BY <1>3, Lengths
<1>8. last = ValueAt(key, flags, c, s, x, r)
  <2>1. last = output_chaining_value(chunk_state_output(chunk_state_update(
                 fresh_chunk_state(key, flags, c), Part(s, x, r))))
    BY <1>4, <1>6
  <2> HIDE DEF last, x, c
  <2> QED
    BY <1>7, <2>1, LastChunkIs
<1>9. rest = <<>> <=> r = 0
  <2>1. IsSeq(Part(s, x, r)) /\ Len(Part(s, x, r)) = r
    BY <1>7, PartIs
  <2> QED
    BY <1>6, <2>1, EmptyIs
<1>10. v = t \o (IF r = 0 THEN <<>> ELSE <<last>>)
  <2> HIDE DEF v, t, rest, last, full, in
  <2> QED
    BY <1>1, <1>4, <1>9 DEF t
<1>11. /\ \A i \in 1..q : ChunkSize(n, i) = CHUNK_LEN
       /\ ChunkSize(n, q + 1) = r
  BY <1>3, ChunkSizes
<1>12. \A i \in 1..q : t[i] = V(i)
  BY <1>5, <1>11
<1> HIDE DEF in, full, rest, last, v, t, V
<1>13. CASE r = 0
  <2>1. v = t
    BY <1>5, <1>10, <1>13, NothingAppended
  <2>2. n <= At(Len(v)) /\ At(Len(v)) < n + CHUNK_LEN
    BY <1>3, <1>5, <1>13, <2>1, Lengths
  <2> QED
    BY <1>5, <1>12, <2>1, <2>2 DEF IsChunks, V, v
<1>14. CASE r # 0
  <2> DEFINE b == <<last>>
  <2>1. v = t \o b
    BY <1>10, <1>14
  <2>2. IsSeq(b) /\ Len(b) = 1 /\ b[1] = last
    BY DEF IsSeq
  <2> HIDE DEF b
  <2>3. /\ IsSeq(v) /\ Len(v) = q + 1
        /\ \A i \in 1..(q + 1) : v[i] = IF i <= q THEN t[i] ELSE b[i - q]
    BY <1>5, <2>1, <2>2, ConcatIs
  <2>4. last = V(q + 1)
    <3>1. (q + 1) - 1 = q
      OBVIOUS
    <3> QED
      BY <1>8, <1>11, <3>1 DEF V
  <2>5. ASSUME NEW i \in 1..Len(v) PROVE v[i] = V(i)
    <3>1. i \in 1..q \/ (i = q + 1 /\ ~ (i <= q) /\ i - q = 1)
      BY <2>3
    <3>2. CASE i \in 1..q
      BY <1>12, <2>3, <3>2
    <3>3. CASE i = q + 1 /\ ~ (i <= q) /\ i - q = 1
      <4>1. v[i] = b[1]
        BY <2>3, <3>3
      <4> QED
        BY <2>2, <2>4, <3>3, <4>1
    <3> QED
      BY <3>1, <3>2, <3>3
  <2>6. n <= At(Len(v)) /\ At(Len(v)) < n + CHUNK_LEN
    <3>1. At(q + 1) = At(q) + CHUNK_LEN
      BY AtFacts
    <3>2. At(Len(v)) = At(q) + CHUNK_LEN
      BY <2>3, <3>1
    <3>3. r > 0 /\ r <= CHUNK_LEN /\ CHUNK_LEN \in Nat
      BY <1>3, <1>14, Lengths
    <3>4. n = At(q) + r /\ At(q) \in Nat
      BY <1>3
    <3> QED
      BY <3>2, <3>3, <3>4
  <2> QED
    BY <2>3, <2>5, <2>6 DEF IsChunks, V, v
<1> QED
  BY <1>13, <1>14

\* Where n lies between two multiples of CHUNK_LEN says how many chunks it is.
LEMMA ChunkCount ==
  ASSUME NEW n \in Nat, NEW a \in Nat, NEW b \in Nat, n <= At(a), At(b) < n + CHUNK_LEN
  PROVE  b <= a
<1> SUFFICES ASSUME a < b PROVE FALSE
  OBVIOUS
<1>1. At(a) \in Nat /\ At(b) \in Nat /\ At(a) + CHUNK_LEN <= At(b)
  BY AtFacts
<1> QED
  BY <1>1, Lengths

\* The values of the chunks are determined.
LEMMA ChunksUnique ==
  ASSUME NEW key, NEW flags, NEW ctr, NEW s, NEW lo, NEW n \in Nat,
         NEW u, IsChunks(key, flags, ctr, s, lo, n, u),
         NEW v, IsChunks(key, flags, ctr, s, lo, n, v)
  PROVE  u = v
<1>1. /\ IsSeq(u) /\ n <= At(Len(u)) /\ At(Len(u)) < n + CHUNK_LEN
      /\ IsSeq(v) /\ n <= At(Len(v)) /\ At(Len(v)) < n + CHUNK_LEN
      /\ \A i \in 1..Len(u) : u[i] =
           ValueAt(key, flags, ctr + (i - 1), s, lo + At(i - 1), ChunkSize(n, i))
      /\ \A i \in 1..Len(v) : v[i] =
           ValueAt(key, flags, ctr + (i - 1), s, lo + At(i - 1), ChunkSize(n, i))
  BY DEF IsChunks
<1>2. Len(u) \in Nat /\ Len(v) \in Nat
  BY <1>1 DEF IsSeq
<1>3. Len(u) = Len(v)
  <2>1. Len(u) <= Len(v) /\ Len(v) <= Len(u)
    BY <1>1, <1>2, ChunkCount
  <2> QED
    BY <1>2, <2>1
<1>4. \A i \in 1..Len(u) : u[i] = v[i]
  BY <1>1, <1>3
<1> QED
  BY <1>1, <1>3, <1>4, SameSeq

\* The chunks of two parts, the first one c chunks, one after the other.
ChunksJoined(key, flags, ctr, s, lo, n, c) ==
  ChunksOf(key, flags, ctr, s, lo, n) =
    ChunksOf(key, flags, ctr, s, lo, At(c)) \o
      ChunksOf(key, flags, ctr + c, s, lo + At(c), n - At(c))

\* That is how the chunks of a whole are.
LEMMA ChunksSplit ==
  ASSUME NEW key, NEW flags, NEW ctr \in Nat, NEW s, NEW lo \in Nat,
         NEW n \in Nat, NEW c \in Nat, At(c) < n
  PROVE  ChunksJoined(key, flags, ctr, s, lo, n, c)
<1> DEFINE w == At(c)
           m == n - w
           a == ChunksOf(key, flags, ctr, s, lo, w)
           b == ChunksOf(key, flags, ctr + c, s, lo + w, m)
           v == a \o b
           V(i) == ValueAt(key, flags, ctr + (i - 1), s, lo + At(i - 1), ChunkSize(n, i))
<1>1. w \in Nat /\ m \in Nat /\ m > 0 /\ w + m = n
  <2>1. At(c) \in Nat
    BY AtFacts
  <2> QED
    BY <2>1
<1>2. IsChunks(key, flags, ctr, s, lo, w, a)
  BY <1>1, ChunksAre
<1>3. IsChunks(key, flags, ctr + c, s, lo + w, m, b)
  <2> DEFINE x == ctr + c
             y == lo + w
  <2>1. x \in Nat /\ y \in Nat
    BY <1>1
  <2> HIDE DEF x, y, m, w
  <2>2. IsChunks(key, flags, x, s, y, m, ChunksOf(key, flags, x, s, y, m))
    BY <1>1, <2>1, ChunksAre
  <2> QED
    BY <2>2 DEF x, y
<1>4. IsSeq(a) /\ Len(a) = c
      /\ \A i \in 1..c : a[i] = ValueAt(key, flags, ctr + (i - 1), s, lo + At(i - 1), ChunkSize(w, i))
  <2>1. IsSeq(a) /\ w <= At(Len(a)) /\ At(Len(a)) < w + CHUNK_LEN
        /\ \A i \in 1..Len(a) : a[i] = ValueAt(key, flags, ctr + (i - 1), s, lo + At(i - 1), ChunkSize(w, i))
    BY <1>2 DEF IsChunks
  <2>2. Len(a) \in Nat
    BY <2>1 DEF IsSeq
  <2>3. w <= At(c) /\ At(c) < w + CHUNK_LEN
    BY <1>1, Lengths
  <2>4. Len(a) <= c /\ c <= Len(a)
    <3> HIDE DEF w, a
    <3> QED
      BY <1>1, <2>1, <2>2, <2>3, ChunkCount
  <2> QED
    BY <2>1, <2>2, <2>4
<1>5. IsSeq(b) /\ m <= At(Len(b)) /\ At(Len(b)) < m + CHUNK_LEN
      /\ \A i \in 1..Len(b) : b[i] = ValueAt(key, flags, (ctr + c) + (i - 1), s, (lo + w) + At(i - 1), ChunkSize(m, i))
  BY <1>3 DEF IsChunks
<1> DEFINE l == Len(b)
<1>6. l \in Nat
  BY <1>5 DEF IsSeq
<1> HIDE DEF l
<1>7. /\ IsSeq(v) /\ Len(v) = c + l
      /\ \A i \in 1..(c + l) : v[i] = IF i <= c THEN a[i] ELSE b[i - c]
  <2> HIDE DEF a, b
  <2> QED
    BY <1>4, <1>5, ConcatIs DEF l
<1> HIDE DEF a, b, v
<1>8. \A i \in 1..c : ChunkSize(w, i) = CHUNK_LEN /\ ChunkSize(n, i) = CHUNK_LEN
  <2> TAKE i \in 1..c
  <2> DEFINE k == i - 1
  <2>1. k \in Nat /\ k < c
    OBVIOUS
  <2>2. /\ ChunkSize(w, i) = IF w - At(k) > CHUNK_LEN THEN CHUNK_LEN ELSE w - At(k)
        /\ ChunkSize(n, i) = IF n - At(k) > CHUNK_LEN THEN CHUNK_LEN ELSE n - At(k)
    BY DEF ChunkSize
  <2> HIDE DEF k
  <2>3. At(k) \in Nat /\ At(k) + CHUNK_LEN <= w
    BY <2>1, AtFacts
  <2> HIDE DEF w, m
  <2> QED
    BY <1>1, <2>2, <2>3, Lengths
<1>9. ASSUME NEW i \in 1..(c + l) PROVE v[i] = V(i)
  <2>1. CASE i <= c
    <3>1. i \in 1..c
      BY <2>1
    <3> QED
      BY <1>4, <1>7, <1>8, <3>1
  <2>2. CASE ~ (i <= c)
    <3> DEFINE j == i - c
               k == j - 1
    <3>1. j \in 1..l /\ k \in Nat /\ c + k = i - 1
      BY <1>6, <2>2
    <3>2. v[i] = b[j]
      BY <1>7, <2>2
    <3>3. b[j] = ValueAt(key, flags, (ctr + c) + k, s, (lo + w) + At(k), ChunkSize(m, j))
      BY <1>5, <3>1 DEF l
    <3>4. ChunkSize(m, j) = IF m - At(k) > CHUNK_LEN THEN CHUNK_LEN ELSE m - At(k)
      BY DEF ChunkSize
    <3> HIDE DEF j, k
    <3>5. At(k) \in Nat /\ At(i - 1) = w + At(k)
      <4>1. At(c + k) = At(c) + At(k) /\ At(k) \in Nat
        BY <3>1, AtFacts
      <4> QED
        BY <3>1, <4>1
    <3> HIDE DEF m, w
    <3>6. (ctr + c) + k = ctr + (i - 1) /\ (lo + w) + At(k) = lo + At(i - 1)
      BY <1>1, <3>1, <3>5
    <3>7. ChunkSize(m, j) = ChunkSize(n, i)
      <4>1. m - At(k) = n - At(i - 1)
        BY <1>1, <3>5
      <4> QED
        BY <3>4, <4>1 DEF ChunkSize
    <3> QED
      BY <3>2, <3>3, <3>6, <3>7 DEF V
  <2> QED
    BY <2>1, <2>2
<1>10. n <= At(Len(v)) /\ At(Len(v)) < n + CHUNK_LEN
  <2>1. At(c + l) = w + At(l) /\ At(l) \in Nat
    BY <1>6, AtFacts
  <2>2. m <= At(l) /\ At(l) < m + CHUNK_LEN
    BY <1>5 DEF l
  <2> HIDE DEF m, w
  <2> QED
    BY <1>1, <1>7, <2>1, <2>2, Lengths
<1>11. IsChunks(key, flags, ctr, s, lo, n, v)
  BY <1>7, <1>9, <1>10 DEF IsChunks, V
<1>12. IsChunks(key, flags, ctr, s, lo, n, ChunksOf(key, flags, ctr, s, lo, n))
  BY ChunksAre
<1>13. v = ChunksOf(key, flags, ctr, s, lo, n)
  BY <1>11, <1>12, ChunksUnique
<1> QED
  BY <1>13 DEF ChunksJoined, v, a, b, m, w

-----------------------------------------------------------------------------
(***************************************************************************)
(* Arrays of values that stand for n bytes: rounds of pairs leave the      *)
(* value of the subtree over them, and before that the values of its two   *)
(* children, however many values there are.                                *)
(***************************************************************************)
\* A larger power has a larger exponent.
LEMMA PowersGrow ==
  ASSUME NEW i \in Nat, NEW j \in Nat, power[i] < power[j]
  PROVE  i < j
<1> SUFFICES ASSUME j <= i PROVE FALSE
  OBVIOUS
<1> DEFINE S == {k \in 0..(i - j) : power[j] <= power[j + k]}
<1>1. power[j] \in Nat /\ power[i] \in Nat
  BY PowerIs
<1>2. 0 \in S
  BY <1>1
<1>3. ASSUME NEW k \in 0..(i - j), k < i - j, k \in S PROVE k + 1 \in S
  <2>1. k + 1 \in 0..(i - j) /\ j + k \in Nat /\ (j + k) + 1 = j + (k + 1)
    BY <1>3
  <2>2. power[j + k] \in Nat /\ power[(j + k) + 1] = 2 * power[j + k]
    BY <2>1, PowerIs
  <2>3. power[j] <= power[j + k]
    BY <1>3
  <2>4. power[j] <= power[j + (k + 1)]
    BY <1>1, <2>1, <2>2, <2>3
  <2> QED
    BY <2>1, <2>4
<1>4. i - j \in Nat /\ j + (i - j) = i
  OBVIOUS
<1> HIDE DEF S
<1>5. i - j \in S
  <2>1. \A k \in 0..(i - j) : k \in S
    BY <1>2, <1>3, <1>4, Induct
  <2> QED
    BY <1>4, <2>1
<1>6. power[j] <= power[i]
  BY <1>4, <1>5 DEF S
<1> QED
  BY <1>1, <1>6

\* The powers of two are the powers.
LEMMA Pow2IsPower ==
  ASSUME NEW c, IsPow2(c)
  PROVE  \E j \in Nat : c = power[j]
<1> DEFINE Bad == {k \in Nat : IsPow2(k) /\ ~ \E j \in Nat : k = power[j]}
<1>1. Bad = {}
  <2> SUFFICES ASSUME Bad # {} PROVE FALSE
    OBVIOUS
  <2>1. PICK k \in Bad : \A m \in Bad : k <= m
    <3>1. Bad \subseteq Nat
      OBVIOUS
    <3> HIDE DEF Bad
    <3> QED
      BY <3>1, NatMin
  <2>2. k \in Nat /\ IsPow2(k) /\ ~ \E j \in Nat : k = power[j]
    OBVIOUS
  <2>3. k # 1
    BY <2>2, PowerIs
  <2>4. PICK t \in Nat : IsPow2(t) /\ k = 2 * t /\ t < k
    BY <2>2, <2>3, Pow2Cases
  <2>5. t \notin Bad
    BY <2>1, <2>2, <2>4
  <2>6. PICK j \in Nat : t = power[j]
    BY <2>4, <2>5
  <2>7. j + 1 \in Nat /\ k = power[j + 1]
    BY <2>4, <2>6, PowerIs
  <2> QED
    BY <2>2, <2>7
<1>2. c \in Nat /\ c \notin Bad
  BY <1>1, Pow2Positive
<1> QED
  BY <1>2

\* The two children of the node over n bytes are left after some rounds.
NarrowsDown(key, flags, ctr, s, lo, n, v) ==
  \A c : SplitsAt(c, n) =>
    \E e \in Nat :
      Narrows(key, flags, v, e, ValueAt(key, flags, ctr, s, lo, At(c)),
              ValueAt(key, flags, ctr + c, s, lo + At(c), n - At(c)))

\* The node over n bytes is left after as many rounds as there can be.
Reduces(key, flags, ctr, s, lo, n, v) ==
  \A e \in Nat : Len(v) <= power[e] =>
    ReducesTo(key, flags, v, e, ValueAt(key, flags, ctr, s, lo, n))

Stands(key, flags, ctr, s, lo, n, v) ==
  /\ IsSeq(v) /\ Len(v) > 0
  /\ n <= CHUNK_LEN => Len(v) = 1
  /\ n > CHUNK_LEN => Len(v) > 1 /\ NarrowsDown(key, flags, ctr, s, lo, n, v)
  /\ Reduces(key, flags, ctr, s, lo, n, v)

\* A chunk's value stands for the chunk.
LEMMA OneStands ==
  ASSUME NEW key, NEW flags, NEW ctr, NEW s, NEW lo, NEW n \in Nat,
         n <= CHUNK_LEN
  PROVE  Stands(key, flags, ctr, s, lo, n, <<ValueAt(key, flags, ctr, s, lo, n)>>)
<1> DEFINE x == ValueAt(key, flags, ctr, s, lo, n)
           v == <<x>>
<1>1. IsSeq(v) /\ Len(v) = 1
  BY PairsOfFew
<1>2. ASSUME NEW e \in Nat PROVE ReducesTo(key, flags, <<x>>, e, x)
  <2> HIDE DEF x
  <2> DEFINE z == 0
  <2>1. ReducesTo(key, flags, <<x>>, z, x)
    BY SingleReduces
  <2>2. z \in Nat /\ z <= e
    OBVIOUS
  <2> HIDE DEF z
  <2> QED
    BY <2>1, <2>2, RemainsReduced
<1>3. Reduces(key, flags, ctr, s, lo, n, v)
  BY <1>2 DEF Reduces
<1>4. ~ (n > CHUNK_LEN)
  BY Lengths
<1> HIDE DEF v
<1>5. Stands(key, flags, ctr, s, lo, n, v)
  BY <1>1, <1>3, <1>4 DEF Stands
<1> QED
  BY <1>5 DEF v

\* Facts of a subtree of n bytes that is split after c chunks.
LEMMA SplitFacts ==
  ASSUME NEW n \in Nat, NEW c, SplitsAt(c, n)
  PROVE  /\ c \in Nat /\ c > 0 /\ IsPow2(c) /\ At(c) \in Nat /\ At(c) > 0
         /\ CHUNK_LEN <= At(c) /\ At(c) < n
         /\ n - At(c) \in Nat /\ n - At(c) > 0 /\ n - At(c) < n
         /\ n - At(c) <= At(c) /\ n > CHUNK_LEN /\ At(2 * c) = At(c) + At(c)
<1>1. IsPow2(c) /\ c \in Nat /\ c > 0 /\ 2 * c = c + c
  BY Pow2Positive DEF SplitsAt
<1>2. /\ At(c) \in Nat /\ At(c + c) = At(c) + At(c)
      /\ At(0) = 0 /\ At(0) + CHUNK_LEN <= At(c)
  BY <1>1, AtFacts
<1>3. At(c) < n /\ n <= At(2 * c)
  BY <1>1 DEF SplitsAt, At
<1> QED
  BY <1>1, <1>2, <1>3, Lengths

\* The arrays of the two halves, one after the other, stand for the whole when
\* the left one is full.
LEMMA HalvesStand ==
  ASSUME NEW key, NEW flags, NEW ctr \in Nat, NEW s, NEW lo \in Nat,
         NEW n \in Nat, NEW c, SplitsAt(c, n), NEW a, NEW b,
         Stands(key, flags, ctr, s, lo, At(c), a),
         Stands(key, flags, ctr + c, s, lo + At(c), n - At(c), b),
         NEW j \in Nat, Len(a) = power[j], Len(b) <= power[j]
  PROVE  Stands(key, flags, ctr, s, lo, n, a \o b)
<1> DEFINE w == At(c)
           x == ValueAt(key, flags, ctr, s, lo, w)
           y == ValueAt(key, flags, ctr + c, s, lo + w, n - w)
           z == ValueAt(key, flags, ctr, s, lo, n)
           v == a \o b
           p == power[j]
<1>1. /\ c \in Nat /\ n > CHUNK_LEN
  BY SplitFacts
<1>2. p \in Nat /\ p > 0 /\ power[j + 1] = 2 * p
  BY PowerIs
<1>3. /\ IsSeq(a) /\ IsSeq(b) /\ Len(a) = p /\ Len(b) \in Nat /\ Len(b) \in 1..p
  <2>1. IsSeq(a) /\ IsSeq(b) /\ Len(b) > 0
    BY DEF Stands
  <2>2. Len(b) \in Nat
    BY <2>1 DEF IsSeq
  <2> HIDE DEF p
  <2>3. Len(a) = p /\ Len(b) <= p
    BY DEF p
  <2> QED
    BY <1>2, <2>1, <2>2, <2>3
<1>4. ReducesTo(key, flags, a, j, x)
  <2>1. Reduces(key, flags, ctr, s, lo, w, a)
    BY DEF Stands
  <2>2. Len(a) <= power[j]
    BY <1>2
  <2> QED
    BY <2>1, <2>2 DEF Reduces
<1>5. ReducesTo(key, flags, b, j, y)
  <2>1. Reduces(key, flags, ctr + c, s, lo + w, n - w, b)
    BY DEF Stands
  <2> QED
    BY <2>1 DEF Reduces
<1>6. parent_cv(x, y, key, flags) = z
  <2>1. NodeSplits(key, flags, ctr, s, lo, n, c)
    BY <1>1, PartSplit
  <2> QED
    BY <2>1 DEF NodeSplits, ValueAt, NodeCV, parent_cv
<1> HIDE DEF x, y, z
<1>7. Narrows(key, flags, v, j, x, y)
  <2>1. Len(a) = power[j] /\ Len(b) \in 1..power[j]
    BY <1>3
  <2> QED
    BY <1>3, <1>4, <1>5, <2>1, NeighboursNarrow
<1>8. ReducesTo(key, flags, v, j + 1, z)
  <2> HIDE DEF v
  <2> QED
    BY <1>6, <1>7, NarrowsReduces
<1>9. IsSeq(v) /\ Len(v) = p + Len(b)
  BY <1>3, ConcatIs
<1> HIDE DEF v
<1>10. Reduces(key, flags, ctr, s, lo, n, v)
  <2> SUFFICES ASSUME NEW e \in Nat, Len(v) <= power[e]
               PROVE  ReducesTo(key, flags, v, e, z)
    BY DEF Reduces, z
  <2>1. power[j] < power[e]
    <3>1. power[e] \in Nat
      BY PowerIs
    <3> QED
      BY <1>2, <1>3, <1>9, <3>1
  <2>2. j < e
    BY <2>1, PowersGrow
  <2> DEFINE k == j + 1
  <2>3. k \in Nat /\ k <= e
    BY <2>2
  <2>4. ReducesTo(key, flags, v, k, z)
    BY <1>8
  <2> HIDE DEF k
  <2> QED
    BY <2>3, <2>4, RemainsReduced
<1>11. NarrowsDown(key, flags, ctr, s, lo, n, v)
  <2> SUFFICES ASSUME NEW d, SplitsAt(d, n)
               PROVE  \E e \in Nat :
                        Narrows(key, flags, v, e, ValueAt(key, flags, ctr, s, lo, At(d)),
                                ValueAt(key, flags, ctr + d, s, lo + At(d), n - At(d)))
    BY DEF NarrowsDown
  <2>1. d = c
    BY SplitUnique
  <2> QED
    BY <1>7, <2>1 DEF x, y
<1>12. Len(v) > 1 /\ ~ (n <= CHUNK_LEN)
  BY <1>1, <1>2, <1>3, <1>9, Lengths
<1> QED
  BY <1>9, <1>10, <1>11, <1>12 DEF Stands, v

\* A round of pairs leaves an array that stands for the same, while there are
\* more than two values.
LEMMA PairsStand ==
  ASSUME NEW key, NEW flags, NEW ctr, NEW s, NEW lo, NEW n \in Nat, NEW v,
         Stands(key, flags, ctr, s, lo, n, v), Len(v) > 2
  PROVE  Stands(key, flags, ctr, s, lo, n, Pairs(key, flags, v))
<1> DEFINE p == Pairs(key, flags, v)
           l == Len(v)
<1>1. IsSeq(v) /\ l \in Nat /\ l > 2
  BY DEF Stands, IsSeq
<1>2. n > CHUNK_LEN /\ ~ (n <= CHUNK_LEN)
  <2>1. n <= CHUNK_LEN => l = 1
    BY DEF Stands
  <2> HIDE DEF l
  <2> QED
    BY <1>1, <2>1, Lengths
<1>3. IsSeq(p) /\ Len(p) = (l + 1) \div 2
  <2>1. IsPairs(key, flags, v, p)
    BY <1>1, PairsAre
  <2> QED
    BY <2>1 DEF IsPairs
<1>4. NarrowsDown(key, flags, ctr, s, lo, n, v) /\ Reduces(key, flags, ctr, s, lo, n, v)
  BY <1>2 DEF Stands
<1>5. Len(p) > 1
  <2> HIDE DEF l
  <2> QED
    BY <1>1, <1>3
<1>6. ASSUME NEW e \in Nat, Len(p) <= power[e]
      PROVE  ReducesTo(key, flags, p, e, ValueAt(key, flags, ctr, s, lo, n))
  <2> DEFINE x == ValueAt(key, flags, ctr, s, lo, n)
             q == power[e]
  <2>1. q \in Nat /\ power[e + 1] = 2 * q /\ Len(p) <= q
    BY <1>6, PowerIs
  <2>2. l <= power[e + 1] /\ e + 1 \in Nat
    <3> HIDE DEF l, q, p
    <3> QED
      BY <1>1, <1>3, <2>1
  <2>3. ReducesTo(key, flags, v, e + 1, x)
    BY <1>4, <2>2 DEF Reduces
  <2> HIDE DEF x
  <2>4. ReducesTo(key, flags, Pairs(key, flags, v), e, x)
    BY <2>3, LaterReduces
  <2> QED
    BY <2>4 DEF x
<1>7. ASSUME NEW c, SplitsAt(c, n)
      PROVE  \E e \in Nat :
               Narrows(key, flags, p, e, ValueAt(key, flags, ctr, s, lo, At(c)),
                       ValueAt(key, flags, ctr + c, s, lo + At(c), n - At(c)))
  <2> DEFINE x == ValueAt(key, flags, ctr, s, lo, At(c))
             y == ValueAt(key, flags, ctr + c, s, lo + At(c), n - At(c))
  <2>1. PICK e \in Nat : Narrows(key, flags, v, e, x, y)
    BY <1>4, <1>7 DEF NarrowsDown
  <2> HIDE DEF x, y
  <2>2. \E d \in Nat : Narrows(key, flags, Pairs(key, flags, v), d, x, y)
    BY <1>1, <2>1, LaterNarrows
  <2> QED
    BY <2>2 DEF x, y
<1> HIDE DEF p
<1>8. Reduces(key, flags, ctr, s, lo, n, p) /\ NarrowsDown(key, flags, ctr, s, lo, n, p)
  BY <1>6, <1>7 DEF Reduces, NarrowsDown
<1>9. Len(p) \in Nat /\ Len(p) > 0
  <2>1. Len(p) \in Nat
    BY <1>3 DEF IsSeq
  <2> QED
    BY <1>5, <2>1
<1> QED
  BY <1>2, <1>3, <1>5, <1>8, <1>9 DEF Stands, p

\* The bounds on a number of chunks.
LEMMA ChunksLength ==
  ASSUME NEW key, NEW flags, NEW ctr, NEW s, NEW lo, NEW n \in Nat, NEW v,
         IsChunks(key, flags, ctr, s, lo, n, v)
  PROVE  /\ Len(v) \in Nat
         /\ \A a \in Nat : n <= At(a) => Len(v) <= a
         /\ \A b \in Nat : At(b) < n + CHUNK_LEN => b <= Len(v)
<1>1. IsSeq(v) /\ n <= At(Len(v)) /\ At(Len(v)) < n + CHUNK_LEN
  BY DEF IsChunks
<1> DEFINE l == Len(v)
<1>2. l \in Nat /\ n <= At(l) /\ At(l) < n + CHUNK_LEN
  BY <1>1 DEF IsSeq
<1> HIDE DEF l
<1>3. \A a \in Nat : n <= At(a) => l <= a
  BY <1>2, ChunkCount
<1>4. \A b \in Nat : At(b) < n + CHUNK_LEN => b <= l
  BY <1>2, ChunkCount
<1> QED
  BY <1>2, <1>3, <1>4 DEF l

\* The value of a chunk or of part of one.
LEMMA LoneChunk ==
  ASSUME NEW key, NEW flags, NEW ctr \in Nat, NEW s, NEW lo \in Nat,
         NEW n \in Nat, n > 0, n <= CHUNK_LEN
  PROVE  ChunksOf(key, flags, ctr, s, lo, n) = <<ValueAt(key, flags, ctr, s, lo, n)>>
<1> DEFINE v == ChunksOf(key, flags, ctr, s, lo, n)
           x == ValueAt(key, flags, ctr, s, lo, n)
           z == 0
           u == 1
<1>1. IsChunks(key, flags, ctr, s, lo, n, v)
  BY ChunksAre
<1>2. At(z) = 0 /\ At(u) = CHUNK_LEN /\ z \in Nat /\ u \in Nat /\ u = z + 1
  BY AtFacts
<1> HIDE DEF v
<1>3. Len(v) = 1
  <2> HIDE DEF z, u
  <2>1. Len(v) <= u /\ u <= Len(v) /\ Len(v) \in Nat
    <3>1. n <= At(u) /\ At(u) < n + CHUNK_LEN
      BY <1>2, Lengths
    <3> QED
      BY <1>1, <1>2, <3>1, ChunksLength
  <2>2. Len(v) = u
    BY <1>2, <2>1
  <2> QED
    BY <2>2 DEF u
<1>4. v[1] = x
  <2>1. v[1] = ValueAt(key, flags, ctr + (1 - 1), s, lo + At(1 - 1), ChunkSize(n, 1))
    <3>1. \A i \in 1..Len(v) :
            v[i] = ValueAt(key, flags, ctr + (i - 1), s, lo + At(i - 1), ChunkSize(n, i))
      BY <1>1 DEF IsChunks
    <3>2. 1 \in 1..Len(v)
      BY <1>3
    <3> QED
      BY <3>1, <3>2
  <2>2. 1 - 1 = 0 /\ At(0) = 0
    BY AtFacts
  <2>3. ChunkSize(n, 1) = n
    <3>1. ChunkSize(n, 1) = IF n - At(1 - 1) > CHUNK_LEN THEN CHUNK_LEN ELSE n - At(1 - 1)
      BY DEF ChunkSize
    <3>2. n - At(1 - 1) = n
      BY <2>2
    <3> QED
      BY <3>1, <3>2, Lengths
  <2>4. ctr + (1 - 1) = ctr /\ lo + At(1 - 1) = lo
    BY <2>2
  <2> QED
    BY <2>1, <2>3, <2>4
<1>5. v = <<x>>
  <2> DEFINE t == <<x>>
  <2>1. IsSeq(t) /\ Len(t) = 1 /\ t[1] = x /\ IsSeq(v)
    BY <1>1, PairsOfFew DEF IsChunks
  <2> HIDE DEF t
  <2>2. \A i \in 1..Len(v) : v[i] = t[i]
    <3>1. \A i \in 1..Len(v) : i = 1
      BY <1>3
    <3> QED
      BY <1>4, <2>1, <3>1
  <2>3. v = t
    BY <1>3, <2>1, <2>2, SameSeq
  <2> QED
    BY <2>3 DEF t
<1> QED
  BY <1>5 DEF v

\* The values of the chunks stand for all of them.
LEMMA ChunksStand ==
  ASSUME NEW key, NEW flags, NEW s, NEW n \in Nat, n > 0
  PROVE  \A ctr, lo \in Nat :
           Stands(key, flags, ctr, s, lo, n, ChunksOf(key, flags, ctr, s, lo, n))
<1> DEFINE Good(k) == \A ctr, lo \in Nat :
             Stands(key, flags, ctr, s, lo, k, ChunksOf(key, flags, ctr, s, lo, k))
           Bad == {k \in Nat : k > 0 /\ ~ Good(k)}
<1>1. Bad = {}
  <2> SUFFICES ASSUME Bad # {} PROVE FALSE
    OBVIOUS
  <2> HIDE DEF Good
  <2>1. PICK k \in Bad : \A m \in Bad : k <= m
    <3>1. Bad \subseteq Nat
      OBVIOUS
    <3> HIDE DEF Bad
    <3> QED
      BY <3>1, NatMin
  <2>2. k \in Nat /\ k > 0 /\ ~ Good(k)
    OBVIOUS
  <2>3. \A m \in Nat : m > 0 /\ m < k => Good(m)
    BY <2>1, <2>2
  <2> HIDE DEF Bad
  <2>4. PICK ctr \in Nat, lo \in Nat :
          ~ Stands(key, flags, ctr, s, lo, k, ChunksOf(key, flags, ctr, s, lo, k))
    BY <2>2 DEF Good
  <2>5. CASE k <= CHUNK_LEN
    <3>1. ChunksOf(key, flags, ctr, s, lo, k) = <<ValueAt(key, flags, ctr, s, lo, k)>>
      BY <2>2, <2>5, LoneChunk
    <3>2. Stands(key, flags, ctr, s, lo, k, <<ValueAt(key, flags, ctr, s, lo, k)>>)
      BY <2>2, <2>5, OneStands
    <3> QED
      BY <2>4, <3>1, <3>2
  <2>6. CASE ~ (k <= CHUNK_LEN)
    <3> DEFINE c == LeftChunks(k)
               w == At(c)
               c2 == ctr + c
               l2 == lo + w
               m == k - w
               a == ChunksOf(key, flags, ctr, s, lo, w)
               b == ChunksOf(key, flags, c2, s, l2, m)
    <3>1. SplitsAt(c, k)
      <4>1. k > CHUNK_LEN
        BY <2>2, <2>6, Lengths
      <4> QED
        BY <2>2, <4>1, LeftIs
    <3> HIDE DEF c
    <3>2. /\ c \in Nat /\ IsPow2(c) /\ w \in Nat /\ w > 0 /\ w < k
          /\ m \in Nat /\ m > 0 /\ m < k /\ m <= w
      BY <2>2, <3>1, SplitFacts
    <3>3. c2 \in Nat /\ l2 \in Nat
      BY <3>2
    <3>4. ChunksOf(key, flags, ctr, s, lo, k) = a \o b
      <4>1. c \in Nat /\ k \in Nat /\ At(c) < k
        BY <2>2, <3>2
      <4>2. ChunksOf(key, flags, ctr, s, lo, k) =
              ChunksOf(key, flags, ctr, s, lo, At(c)) \o
                ChunksOf(key, flags, ctr + c, s, lo + At(c), k - At(c))
        <5>1. ChunksJoined(key, flags, ctr, s, lo, k, c)
          BY <4>1, ChunksSplit
        <5> QED
          BY <5>1 DEF ChunksJoined
      <4> QED
        BY <4>2
    <3>5. PICK j \in Nat : c = power[j]
      BY <3>2, Pow2IsPower
    <3> HIDE DEF m, w, c2, l2
    <3>6. Stands(key, flags, ctr, s, lo, w, a)
      <4>1. Good(w)
        BY <2>3, <3>2
      <4> QED
        BY <4>1 DEF Good
    <3>7. Stands(key, flags, c2, s, l2, m, b)
      <4>1. Good(m)
        BY <2>3, <3>2
      <4> QED
        BY <3>3, <4>1 DEF Good
    <3>8. Len(a) = c
      <4>1. IsChunks(key, flags, ctr, s, lo, w, a)
        BY <3>2, ChunksAre
      <4>2. w <= At(c) /\ At(c) < w + CHUNK_LEN
        BY <3>2, Lengths DEF w
      <4> HIDE DEF a
      <4>3. Len(a) \in Nat /\ Len(a) <= c /\ c <= Len(a)
        BY <3>2, <4>1, <4>2, ChunksLength
      <4> QED
        BY <3>2, <4>3
    <3>9. Len(b) <= c
      <4>1. IsChunks(key, flags, c2, s, l2, m, b)
        BY <3>2, <3>3, ChunksAre
      <4>2. m <= At(c)
        BY <3>2 DEF w
      <4> HIDE DEF b
      <4> QED
        BY <3>2, <4>1, <4>2, ChunksLength
    <3>10. Stands(key, flags, ctr, s, lo, k, a \o b)
      <4> HIDE DEF a, b
      <4>1. /\ Stands(key, flags, ctr, s, lo, At(c), a)
            /\ Stands(key, flags, ctr + c, s, lo + At(c), k - At(c), b)
        BY <3>6, <3>7 DEF c2, l2, m, w
      <4>2. Len(a) = power[j] /\ Len(b) <= power[j]
        BY <3>5, <3>8, <3>9
      <4> QED
        BY <2>2, <3>1, <4>1, <4>2, HalvesStand
    <3> QED
      BY <2>4, <3>4, <3>10
  <2> QED
    BY <2>5, <2>6
<1>2. n \notin Bad
  BY <1>1
<1> QED
  BY <1>2

-----------------------------------------------------------------------------
(***************************************************************************)
(* The wide path over any number of bytes.                                 *)
(***************************************************************************)
\* The limit is MAX_SIMD_DEGREE_OR_2, for the degree in use.
LEMMA LimitIs ==
  /\ Limit \in Nat /\ Limit >= 2 /\ SIMD_DEGREE <= Limit
  /\ SIMD_DEGREE = 1 => Limit = 2
  /\ SIMD_DEGREE # 1 => Limit = SIMD_DEGREE
<1>1. SIMD_DEGREE \in Nat /\ SIMD_DEGREE > 0
  BY Degree
<1> QED
  BY <1>1 DEF Limit

\* The left half's array fills its slots, and there are at least as many as
\* the right half's array has values.
LEMMA RightFits ==
  ASSUME NEW n \in Nat, ~ (n <= SIMD_DEGREE * CHUNK_LEN), NEW c, SplitsAt(c, n),
         NEW w, NEW size, RowShape(c, w, size),
         NEW l \in Nat, l > 0, l <= Limit, n - At(c) <= CHUNK_LEN => l = 1
  PROVE  /\ w \in Nat /\ w > 0 /\ IsPow2(w) /\ l <= w /\ w <= Limit
         /\ child_degree(At(c)) = w
<1> DEFINE D == SIMD_DEGREE
<1>1. /\ c \in Nat /\ c > 0 /\ IsPow2(c) /\ At(c) \in Nat /\ n <= At(2 * c)
      /\ At(1) = CHUNK_LEN /\ n - At(c) <= At(c) /\ 2 * c \in Nat
  <2>1. n - At(c) <= At(c) /\ At(2 * c) = At(c) + At(c) /\ At(c) \in Nat /\ c \in Nat /\ c > 0 /\ IsPow2(c)
    BY SplitFacts
  <2> QED
    BY <2>1, AtFacts
<1>2. D \in Nat /\ D > 0 /\ IsPow2(D) /\ At(D) < n /\ At(D) \in Nat
  <2>1. D \in Nat /\ D > 0 /\ IsPow2(D)
    BY Degree, DegreeAssumption
  <2>2. At(D) \in Nat /\ ~ (n <= At(D))
    BY <2>1, AtFacts DEF At
  <2> QED
    BY <2>1, <2>2
<1>3. 2 * c > D
  <2> SUFFICES ASSUME 2 * c <= D PROVE FALSE
    BY <1>1, <1>2
  <2>1. At(2 * c) <= At(D) /\ At(2 * c) \in Nat
    BY <1>1, <1>2, AtFacts
  <2> QED
    BY <1>1, <1>2, <2>1
<1>4. /\ child_degree(At(c)) = w /\ w \in Nat
  BY <1>1, <1>3, HalfShape
<1>5. w > 0 /\ IsPow2(w) /\ w = IF c <= Limit THEN c ELSE Limit
  BY Pow2Positive DEF RowShape
<1>6. w <= Limit
  BY <1>1, <1>5, LimitIs
<1>7. l <= w
  <2>1. CASE D # 1
    <3>1. D <= c
      <4>1. IsPow2(2 * c)
        BY <1>1, Pow2Double
      <4>2. 2 * D <= 2 * c
        BY <1>2, <1>3, <4>1, Pow2Gap
      <4> QED
        BY <1>1, <1>2, <4>2
    <3>2. Limit = D
      BY <2>1, LimitIs
    <3>3. w = D
      BY <1>1, <1>2, <1>5, <3>1, <3>2
    <3> QED
      BY <1>2, <3>2, <3>3
  <2>2. CASE D = 1 /\ c # 1
    <3>1. Limit = 2
      BY <2>2, LimitIs
    <3>2. w = 2
      BY <1>1, <1>5, <2>2, <3>1
    <3> QED
      BY <3>1, <3>2
  <2>3. CASE D = 1 /\ c = 1
    <3>1. n - At(c) <= CHUNK_LEN
      BY <1>1, <2>3
    <3>2. l = 1
      BY <3>1
    <3> QED
      BY <1>4, <1>5, <3>2
  <2> QED
    BY <2>1, <2>2, <2>3
<1> QED
  BY <1>4, <1>5, <1>6, <1>7

\* Read as one array, a full left half and the right half are just the values
\* of both.
LEMMA ArraysSideBySide ==
  ASSUME NEW a, NEW b, IsSeq(a), IsSeq(b), NEW w \in Nat, Len(a) = w
  PROVE  cv_array(a, b, w) = a \o b
<1> DEFINE v == cv_array(a, b, w)
           u == a \o b
           l == Len(b)
<1>1. l \in Nat
  BY DEF IsSeq
<1>2. /\ IsSeq(u) /\ Len(u) = w + l
      /\ \A i \in 1..(w + l) : u[i] = IF i <= w THEN a[i] ELSE b[i - w]
  BY ConcatIs
<1> HIDE DEF u
<1>3. v = [i \in 1..(w + l) |-> IF i > w THEN b[i - w]
                                ELSE IF i <= w THEN a[i] ELSE Garbage]
  BY DEF cv_array
<1> HIDE DEF v, l
<1>4. IsSeq(v) /\ Len(v) = w + l
  <2>1. v = [i \in 1..(w + l) |-> v[i]]
    BY <1>3
  <2>2. w + l \in Nat
    BY <1>1
  <2> QED
    BY <2>1, <2>2, SeqOf
<1>5. \A i \in 1..(w + l) : v[i] = u[i]
  <2> TAKE i \in 1..(w + l)
  <2>1. i \in Int /\ (i > w <=> ~ (i <= w))
    BY <1>1
  <2>2. v[i] = IF i > w THEN b[i - w] ELSE IF i <= w THEN a[i] ELSE Garbage
    BY <1>3
  <2> QED
    BY <1>2, <2>1, <2>2
<1>6. v = u
  BY <1>2, <1>4, <1>5, SameSeq
<1> QED
  BY <1>6 DEF v, u

\* join_halves then leaves two single values, or their pairs.
Joined(key, flags, a, b, w) ==
  join_halves(a, b, w, key, flags) =
    IF w = 1 THEN a \o b ELSE Pairs(key, flags, a \o b)

\* It does so for every two arrays of which the left one is full.
LEMMA JoinIs ==
  ASSUME NEW key, NEW flags, NEW a, NEW b, IsSeq(a), IsSeq(b),
         NEW w \in Nat, w > 0, Len(a) = w, Len(b) > 0, Len(b) <= w
  PROVE  Joined(key, flags, a, b, w)
<1> DEFINE u == a \o b
           l == Len(b)
<1>1. l \in Nat /\ l > 0 /\ l <= w
  BY DEF IsSeq
<1>2. IsSeq(u) /\ Len(u) = w + l
  BY ConcatIs
<1>3. cv_array(a, b, w) = u
  BY ArraysSideBySide
<1> HIDE DEF u
<1>4. join_halves(a, b, w, key, flags) =
        IF w = 1 THEN SubSeq(u, 1, 2)
        ELSE compress_parents_parallel(SubSeq(u, 1, w + l), key, flags)
  BY <1>3 DEF join_halves
<1> HIDE DEF l
<1>5. SubSeq(u, 1, w + l) = u
  BY <1>2, WholeSlice
<1>6. w = 1 => w + l = 2
  BY <1>1
<1>7. w = 1 => SubSeq(u, 1, 2) = u
  BY <1>5, <1>6
<1> QED
  BY <1>4, <1>5, <1>7 DEF Joined, Pairs, u

WideStands(key, flags, s, n) ==
  \A ctr, lo \in Nat :
    LET v == WideOf(key, flags, ctr, Part(s, lo, n))
    IN  Stands(key, flags, ctr, s, lo, n, v) /\ Len(v) <= Limit

\* From the arrays of fewer bytes to that of n.
LEMMA SubtreeSplits ==
  ASSUME NEW key, NEW flags, NEW s, NEW n \in Nat,
         ~ (n <= SIMD_DEGREE * CHUNK_LEN),
         \A m \in Nat : m > 0 /\ m < n => WideStands(key, flags, s, m)
  PROVE  WideStands(key, flags, s, n)
<1> DEFINE c == LeftChunks(n)
           x == At(c)
           m == n - x
<1>1. SplitsAt(c, n)
  <2>1. n > CHUNK_LEN
    BY Degree, Lengths
  <2> QED
    BY <2>1, LeftIs
<1> HIDE DEF c
<1>2. /\ c \in Nat /\ IsPow2(c) /\ x \in Nat /\ x > 0 /\ x < n
      /\ m \in Nat /\ m > 0 /\ m < n
  BY <1>1, SplitFacts
<1>3. PICK w, size : RowShape(c, w, size) /\ WideIsRow(key, flags, s, c, w, size)
  BY <1>2, WideRows
<1> SUFFICES ASSUME NEW ctr \in Nat, NEW lo \in Nat
             PROVE  LET v == WideOf(key, flags, ctr, Part(s, lo, n))
                    IN  Stands(key, flags, ctr, s, lo, n, v) /\ Len(v) <= Limit
  BY DEF WideStands
<1> DEFINE c2 == ctr + c
           l2 == lo + x
           a == WideOf(key, flags, ctr, Part(s, lo, x))
           b == WideOf(key, flags, c2, Part(s, l2, m))
           v == WideOf(key, flags, ctr, Part(s, lo, n))
<1>4. c2 \in Nat /\ l2 \in Nat
  BY <1>2
<1>5. v = join_halves(a, b, child_degree(x), key, flags)
  <2>1. WideSplits(key, flags, ctr, s, lo, n, c)
    BY <1>1, <1>2, WidePartSplit
  <2> QED
    BY <2>1 DEF WideSplits
<1> HIDE DEF c2, l2, v, m
<1>6. Stands(key, flags, ctr, s, lo, x, a) /\ Len(a) <= Limit
  <2>1. WideStands(key, flags, s, x)
    BY <1>2
  <2> QED
    BY <2>1 DEF WideStands
<1>7. Stands(key, flags, c2, s, l2, m, b) /\ Len(b) <= Limit
  <2>1. WideStands(key, flags, s, m)
    BY <1>2
  <2> QED
    BY <1>4, <2>1 DEF WideStands
<1>8. Len(a) = w
  <2>1. w \in Nat
    BY <1>3, Pow2Positive DEF RowShape
  <2>2. a = Row(key, flags, ctr, s, lo, size, w)
    BY <1>3 DEF WideIsRow
  <2> QED
    BY <2>1, <2>2, RowIs
<1> HIDE DEF a, b
<1>9. IsSeq(a) /\ IsSeq(b) /\ Len(b) \in Nat /\ Len(b) > 0
  <2>1. IsSeq(a) /\ IsSeq(b) /\ Len(b) > 0
    BY <1>6, <1>7 DEF Stands
  <2> QED
    BY <2>1 DEF IsSeq
<1>10. /\ w \in Nat /\ w > 0 /\ IsPow2(w) /\ Len(b) <= w /\ w <= Limit
       /\ child_degree(At(c)) = w
  <2> DEFINE l == Len(b)
  <2>1. l \in Nat /\ l > 0 /\ l <= Limit
    BY <1>7, <1>9
  <2>2. n - At(c) <= CHUNK_LEN => l = 1
    BY <1>7 DEF Stands, m
  <2> HIDE DEF l
  <2>3. /\ w \in Nat /\ w > 0 /\ IsPow2(w) /\ l <= w /\ w <= Limit
        /\ child_degree(At(c)) = w
    BY <1>1, <1>3, <2>1, <2>2, RightFits
  <2> QED
    BY <2>3 DEF l
<1> DEFINE u == a \o b
<1>11. v = IF w = 1 THEN u ELSE Pairs(key, flags, u)
  <2>1. v = join_halves(a, b, w, key, flags)
    BY <1>5, <1>10
  <2> QED
    <3>1. Joined(key, flags, a, b, w)
      BY <1>8, <1>9, <1>10, JoinIs
    <3> QED
      BY <2>1, <3>1 DEF Joined
<1>12. Stands(key, flags, ctr, s, lo, n, u)
  <2>1. PICK j \in Nat : w = power[j]
    BY <1>10, Pow2IsPower
  <2>2. /\ Stands(key, flags, ctr, s, lo, At(c), a)
        /\ Stands(key, flags, ctr + c, s, lo + At(c), n - At(c), b)
    BY <1>6, <1>7 DEF c2, l2, m
  <2>3. Len(a) = power[j] /\ Len(b) <= power[j]
    BY <1>8, <1>10, <2>1
  <2> QED
    BY <1>1, <2>2, <2>3, HalvesStand
<1>13. Len(u) = w + Len(b)
  BY <1>8, <1>9, ConcatIs
<1> HIDE DEF u
<1>14. Limit \in Nat /\ Limit >= 2
  BY LimitIs
<1> DEFINE l == Len(b)
<1>15. l \in Nat /\ l > 0 /\ l <= w /\ Len(u) = w + l
  BY <1>9, <1>10, <1>13
<1> HIDE DEF l
<1>16. CASE w = 1
  <2>1. Len(u) <= Limit
    BY <1>14, <1>15, <1>16
  <2> QED
    BY <1>11, <1>12, <1>16, <2>1 DEF v
<1>17. CASE w # 1
  <2>1. Len(u) > 2
    BY <1>10, <1>15, <1>17
  <2>2. Stands(key, flags, ctr, s, lo, n, Pairs(key, flags, u))
    BY <1>12, <2>1, PairsStand
  <2>3. IsPairs(key, flags, u, Pairs(key, flags, u))
    BY <1>12, PairsAre DEF Stands
  <2>4. Len(Pairs(key, flags, u)) = (w + l + 1) \div 2
    BY <1>15, <2>3 DEF IsPairs
  <2>5. (w + l + 1) \div 2 <= w
    BY <1>10, <1>15
  <2>6. Len(Pairs(key, flags, u)) <= Limit
    BY <1>10, <1>14, <1>15, <2>4, <2>5
  <2> QED
    BY <1>11, <1>17, <2>2, <2>6 DEF v
<1> QED
  BY <1>16, <1>17

\* The array of the wide path stands for its input, whatever its length, and is
\* no longer than what the CPU does at once, or two.
LEMMA WideAlwaysStands ==
  ASSUME NEW key, NEW flags, NEW s, NEW n \in Nat, n > 0
  PROVE  WideStands(key, flags, s, n)
<1> DEFINE Bad == {k \in Nat : k > 0 /\ ~ WideStands(key, flags, s, k)}
<1>1. Bad = {}
  <2> SUFFICES ASSUME Bad # {} PROVE FALSE
    OBVIOUS
  <2>1. PICK k \in Bad : \A m \in Bad : k <= m
    <3>1. Bad \subseteq Nat
      OBVIOUS
    <3> HIDE DEF Bad
    <3> QED
      BY <3>1, NatMin
  <2>2. k \in Nat /\ k > 0 /\ ~ WideStands(key, flags, s, k)
    OBVIOUS
  <2>3. \A m \in Nat : m > 0 /\ m < k => WideStands(key, flags, s, m)
    BY <2>1, <2>2
  <2> HIDE DEF Bad
  <2>4. CASE k <= SIMD_DEGREE * CHUNK_LEN
    <3>1. ASSUME NEW ctr \in Nat, NEW lo \in Nat
          PROVE  LET v == WideOf(key, flags, ctr, Part(s, lo, k))
                 IN  Stands(key, flags, ctr, s, lo, k, v) /\ Len(v) <= Limit
      <4> DEFINE v == ChunksOf(key, flags, ctr, s, lo, k)
      <4>1. WideOf(key, flags, ctr, Part(s, lo, k)) = v
        BY <2>2, <2>4, WidePartLeaf DEF ChunksOf
      <4>2. Stands(key, flags, ctr, s, lo, k, v)
        BY <2>2, ChunksStand
      <4>3. IsChunks(key, flags, ctr, s, lo, k, v)
        BY <2>2, ChunksAre
      <4> HIDE DEF v
      <4>4. SIMD_DEGREE \in Nat /\ k <= At(SIMD_DEGREE)
        BY <2>4, Degree DEF At
      <4>5. Len(v) <= SIMD_DEGREE /\ Len(v) \in Nat
        BY <2>2, <4>3, <4>4, ChunksLength
      <4>6. Len(v) <= Limit
        BY <4>4, <4>5, LimitIs
      <4> QED
        BY <4>1, <4>2, <4>6
    <3>2. WideStands(key, flags, s, k)
      BY <3>1 DEF WideStands
    <3> QED
      BY <2>2, <3>2
  <2>5. CASE ~ (k <= SIMD_DEGREE * CHUNK_LEN)
    <3>1. WideStands(key, flags, s, k)
      BY <2>2, <2>3, <2>5, SubtreeSplits
    <3> QED
      BY <2>2, <3>1
  <2> QED
    BY <2>4, <2>5
<1>2. n \notin Bad
  BY <1>1
<1> QED
  BY <1>2

-----------------------------------------------------------------------------
(***************************************************************************)
(* What the wide path gives, for every key, input and first chunk number.  *)
(***************************************************************************)
\* blake3_compress_subtree_wide: as many values as fit, at least two of several
\* chunks.
LEMMA WideCount ==
  ASSUME NEW key, NEW flags, NEW ctr \in Nat, NEW in, IsSeq(in),
         NEW n \in Nat, n = Len(in), n > 0
  PROVE  LET v == blake3_compress_subtree_wide(in, key, ctr, flags)
         IN  /\ IsSeq(v) /\ Len(v) \in Nat /\ Len(v) > 0 /\ Len(v) <= Limit
             /\ n > CHUNK_LEN => Len(v) > 1
             /\ Stands(key, flags, ctr, in, 0, n, v)
<1> DEFINE v == WideOf(key, flags, ctr, in)
           z == 0
<1>1. Part(in, z, n) = in
  BY WholePart
<1>2. WideStands(key, flags, in, n)
  BY WideAlwaysStands
<1>3. Stands(key, flags, ctr, in, z, n, v) /\ Len(v) <= Limit
  <2>1. z \in Nat
    OBVIOUS
  <2> HIDE DEF z
  <2> QED
    BY <1>1, <1>2, <2>1 DEF WideStands
<1> HIDE DEF v, z
<1>4. IsSeq(v) /\ Len(v) > 0 /\ (n > CHUNK_LEN => Len(v) > 1)
  BY <1>3 DEF Stands
<1>5. Len(v) \in Nat
  BY <1>4 DEF IsSeq
<1> QED
  BY <1>3, <1>4, <1>5 DEF v, WideOf, z

\* compress_subtree_to_parent_node: the two children of the root, for every key,
\* input of more than a chunk and first chunk number.
THEOREM SubtreePair ==
  ASSUME NEW key, NEW flags, NEW ctr \in Nat, NEW in, IsSeq(in), Len(in) > CHUNK_LEN
  PROVE  compress_subtree_to_parent_node(in, key, ctr, flags) =
           NodeOutput(key, flags, ctr, in).block.kids
<1> DEFINE n == Len(in)
           z == 0
           c == LeftChunks(n)
           w == At(c)
           x == ValueAt(key, flags, ctr, in, z, w)
           y == ValueAt(key, flags, ctr + c, in, z + w, n - w)
           v == blake3_compress_subtree_wide(in, key, ctr, flags)
<1>1. n \in Nat /\ n > CHUNK_LEN /\ n > 0 /\ z \in Nat
  BY Lengths DEF IsSeq
<1>2. Part(in, z, n) = in
  BY WholePart
<1> HIDE DEF n
<1>3. SplitsAt(c, n) /\ c \in Nat
  BY <1>1, LeftIs
<1> HIDE DEF c
<1>4. IsSeq(v) /\ Stands(key, flags, ctr, in, z, n, v)
  BY <1>1, WideCount DEF n
<1> HIDE DEF v, z
<1>5. PICK e \in Nat : Narrows(key, flags, v, e, x, y)
  BY <1>1, <1>3, <1>4 DEF Stands, NarrowsDown
<1>6. NodeOutput(key, flags, ctr, in).block.kids = <<x, y>>
  <2>1. NodeSplits(key, flags, ctr, in, z, n, c)
    BY <1>1, <1>3, PartSplit
  <2>2. NodeOutput(key, flags, ctr, in) = parent_output(ParentBlock(x, y), key, flags)
    BY <1>2, <2>1 DEF NodeSplits, ValueAt
  <2> HIDE DEF x, y
  <2> QED
    BY <2>2 DEF parent_output, make_output, ParentBlock
<1> DEFINE two == <<x, y>>
<1>7. condense(v, key, flags) = two
  <2> HIDE DEF x, y
  <2> QED
    BY <1>4, <1>5, CondenseNarrows
<1>8. IsSeq(two) /\ Len(two) = 2
  <2> HIDE DEF x, y
  <2> QED
    BY PairsOfFew
<1> HIDE DEF two
<1>9. SubSeq(two, 1, 2) = two
  BY <1>8, WholeSlice
<1>10. compress_subtree_to_parent_node(in, key, ctr, flags) = two
  BY <1>7, <1>9 DEF compress_subtree_to_parent_node, v
<1> QED
  BY <1>6, <1>10 DEF two

\* MAX_SIMD_DEGREE_OR_2 has room for what the CPU computes at once.
LEMMA LimitFits == MAX_SIMD_DEGREE_OR_2 \in Nat /\ Limit <= MAX_SIMD_DEGREE_OR_2
<1>1. /\ MAX_SIMD_DEGREE \in Nat /\ SIMD_DEGREE \in Nat
      /\ SIMD_DEGREE <= MAX_SIMD_DEGREE /\ SIMD_DEGREE > 0
  BY DegreeAssumption, Pow2Positive
<1>2. Limit \in Nat /\ (SIMD_DEGREE = 1 => Limit = 2) /\ (SIMD_DEGREE # 1 => Limit = SIMD_DEGREE)
  BY LimitIs
<1> QED
  BY <1>1, <1>2 DEF MAX_SIMD_DEGREE_OR_2

-----------------------------------------------------------------------------
(***************************************************************************)
(* The properties of the enumeration.                                      *)
(***************************************************************************)
ArgumentInv == argument \in 0..MaxWord

\* The bounds of the arguments are numbers.
LEMMA MaxWordIs == MaxWord \in Nat /\ Counters \subseteq Nat
<1>1. power[LogBits] \in Nat /\ power[power[LogBits]] \in Nat
  BY PowerIs, LogBitsAssumption
<1>2. MaxWord \in 0..(power[power[LogBits]] - 1) /\ Counters \subseteq Nat
  BY ArgumentAssumption
<1> QED
  BY <1>1, <1>2

\* The argument stays in its range.
THEOREM EnumerationBound == Enumeration => []ArgumentInv
<1>1. Start => ArgumentInv
  BY MaxWordIs DEF Start, ArgumentInv
<1>2. ArgumentInv /\ [Increment]_argument => ArgumentInv'
  BY MaxWordIs DEF ArgumentInv, Increment
<1> QED
  BY <1>1, <1>2, PTL DEF Enumeration

\* An input of n bytes.
LEMMA InputIs ==
  ASSUME NEW n \in Nat
  PROVE  IsSeq(Input(n)) /\ Len(Input(n)) = n
<1> DEFINE s == Input(n)
<1>1. s = [i \in 1..n |-> s[i]]
  BY DEF Input
<1> HIDE DEF s
<1>2. IsSeq(s) /\ Len(s) = n
  BY <1>1, SeqOf
<1> QED
  BY <1>2 DEF s

\* The wide path gives the children of the root, for every degree and length.
THEOREM PairAlwaysRootsChildren == Enumeration => []PairIsRootsChildren
<1>1. ArgumentInv => PairIsRootsChildren
  <2> SUFFICES ASSUME ArgumentInv, argument \in (CHUNK_LEN + 1)..MaxLen,
                      NEW counter \in Counters
               PROVE  compress_subtree_to_parent_node(Input(argument), Key, counter, {})
                        = NodeOutput(Key, {}, counter, Input(argument)).block.kids
    BY DEF PairIsRootsChildren
  <2> DEFINE in == Input(argument)
  <2>1. argument \in Nat /\ counter \in Nat /\ argument > CHUNK_LEN
    BY MaxWordIs, Lengths DEF ArgumentInv
  <2>2. IsSeq(in) /\ Len(in) > CHUNK_LEN
    BY <2>1, InputIs
  <2> HIDE DEF in
  <2>3. compress_subtree_to_parent_node(in, Key, counter, {}) =
          NodeOutput(Key, {}, counter, in).block.kids
    BY <2>1, <2>2, SubtreePair
  <2> QED
    BY <2>3 DEF in
<1> QED
  BY <1>1, EnumerationBound, PTL

\* How many values the wide path gives.
LEMMA CountIs ==
  ASSUME NEW n \in Nat, n > 0, NEW counter \in Nat
  PROVE  /\ NumberOfCvs(n, counter) \in Nat
         /\ NumberOfCvs(n, counter) \in 1..Limit
         /\ n > CHUNK_LEN => NumberOfCvs(n, counter) > 1
<1> DEFINE in == Input(n)
           v == blake3_compress_subtree_wide(in, Key, counter, {})
<1>1. IsSeq(in) /\ Len(in) = n
  BY InputIs
<1> HIDE DEF in
<1>2. /\ Len(v) \in Nat /\ Len(v) > 0 /\ Len(v) <= Limit
      /\ n > CHUNK_LEN => Len(v) > 1
  BY <1>1, WideCount
<1> HIDE DEF v
<1>3. Len(v) \in 1..Limit
  BY <1>2, LimitIs
<1> QED
  BY <1>2, <1>3 DEF NumberOfCvs, v, in

\* There is room for them in the arrays of the code.
THEOREM ArrayAlwaysFits == Enumeration => []ArrayFits
<1>1. ArgumentInv => ArrayFits
  <2> SUFFICES ASSUME ArgumentInv, argument \in 1..MaxLen, NEW counter \in Counters
               PROVE  NumberOfCvs(argument, counter)
                        \in (IF argument > CHUNK_LEN THEN 2 ELSE 1)..MAX_SIMD_DEGREE_OR_2
    BY DEF ArrayFits
  <2> DEFINE n == NumberOfCvs(argument, counter)
  <2>1. argument \in Nat /\ argument > 0 /\ counter \in Nat
    BY MaxWordIs DEF ArgumentInv
  <2>2. n \in Nat /\ n \in 1..Limit /\ (argument > CHUNK_LEN => n > 1)
    BY <2>1, CountIs
  <2> HIDE DEF n
  <2>3. MAX_SIMD_DEGREE_OR_2 \in Nat /\ Limit <= MAX_SIMD_DEGREE_OR_2 /\ Limit \in Nat
    BY LimitFits, LimitIs
  <2>4. n \in (IF argument > CHUNK_LEN THEN 2 ELSE 1)..MAX_SIMD_DEGREE_OR_2
    BY <2>2, <2>3
  <2> QED
    BY <2>4 DEF n
<1> QED
  BY <1>1, EnumerationBound, PTL

\* The two halves are side by side in theirs.
THEOREM HalvesAlwaysAdjacent == Enumeration => []HalvesAreAdjacent
<1>1. ArgumentInv => HalvesAreAdjacent
  <2> SUFFICES ASSUME ArgumentInv, argument \in (SIMD_DEGREE * CHUNK_LEN + 1)..MaxLen,
                      NEW counter \in Counters
               PROVE  LET l     == left_len(argument)
                          r     == argument - l
                          after == counter + (l \div CHUNK_LEN)
                      IN  /\ NumberOfCvs(l, counter) = child_degree(l)
                          /\ NumberOfCvs(l, counter) + NumberOfCvs(r, after)
                               \in 2..(2 * MAX_SIMD_DEGREE_OR_2)
    BY DEF HalvesAreAdjacent
  <2> DEFINE n == argument
             c == LeftChunks(n)
             l == left_len(n)
             r == n - l
             after == counter + (l \div CHUNK_LEN)
             p == NumberOfCvs(l, counter)
             q == NumberOfCvs(r, after)
  <2>1. /\ n \in Nat /\ counter \in Nat /\ ~ (n <= SIMD_DEGREE * CHUNK_LEN)
        /\ n > CHUNK_LEN
    BY MaxWordIs, Degree, Lengths DEF ArgumentInv
  <2> HIDE DEF n
  <2>2. SplitsAt(c, n)
    BY <2>1, LeftIs
  <2> HIDE DEF c
  <2>3. l = At(c)
    BY <2>1, <2>2, LeftLenIs
  <2>4. /\ c \in Nat /\ IsPow2(c) /\ l \in Nat /\ l > 0 /\ r \in Nat /\ r > 0
    BY <2>1, <2>2, <2>3, SplitFacts
  <2> HIDE DEF l, r
  <2>5. after \in Nat
    <3>1. l \div CHUNK_LEN \in Nat
      BY <2>4, Lengths
    <3> QED
      BY <2>1, <3>1
  <2> HIDE DEF after
  <2>6. p \in 1..Limit /\ q \in 1..Limit /\ q \in Nat /\ (r <= CHUNK_LEN => q = 1)
    <3>1. p \in 1..Limit /\ q \in 1..Limit /\ q \in Nat
      BY <2>1, <2>4, <2>5, CountIs
    <3>2. r <= CHUNK_LEN => q = 1
      <4> DEFINE in == Input(r)
                 v == blake3_compress_subtree_wide(in, Key, after, {})
                 z == 0
      <4>1. IsSeq(in) /\ Len(in) = r
        BY <2>4, InputIs
      <4> HIDE DEF in
      <4>2. Stands(Key, {}, after, in, z, r, v)
        BY <2>4, <2>5, <4>1, WideCount
      <4> HIDE DEF v, z
      <4>3. r <= CHUNK_LEN => Len(v) = 1
        BY <4>2 DEF Stands
      <4> QED
        BY <4>3 DEF NumberOfCvs, v, in
    <3> QED
      BY <3>1, <3>2
  <2> HIDE DEF q
  <2>7. PICK w, size : RowShape(c, w, size) /\ WideIsRow(Key, {}, Input(l), c, w, size)
    BY <2>4, WideRows
  <2>8. w \in Nat /\ w > 0 /\ child_degree(l) = w
    <3>1. q > 0 /\ q <= Limit /\ (n - At(c) <= CHUNK_LEN => q = 1)
      BY <2>3, <2>6, LimitIs DEF r
    <3>2. w \in Nat /\ w > 0 /\ child_degree(At(c)) = w
      BY <2>1, <2>2, <2>6, <2>7, <3>1, RightFits
    <3> QED
      BY <2>3, <3>2
  <2>9. p = w
    <3> DEFINE in == Input(l)
               z == 0
    <3>1. IsSeq(in) /\ Len(in) = l
      BY <2>4, InputIs
    <3>2. Part(in, z, l) = in
      BY <3>1, WholePart
    <3>3. z \in Nat /\ l = At(c)
      BY <2>3
    <3>4. WideIsRow(Key, {}, in, c, w, size)
      BY <2>7
    <3> HIDE DEF in, z
    <3>5. WideOf(Key, {}, counter, in) = Row(Key, {}, counter, in, z, size, w)
      BY <2>1, <3>2, <3>3, <3>4 DEF WideIsRow
    <3>6. Len(Row(Key, {}, counter, in, z, size, w)) = w
      BY <2>8, RowIs
    <3> QED
      BY <3>5, <3>6 DEF NumberOfCvs, WideOf, in
  <2> HIDE DEF p
  <2>10. MAX_SIMD_DEGREE_OR_2 \in Nat /\ Limit <= MAX_SIMD_DEGREE_OR_2 /\ Limit \in Nat
    BY LimitFits, LimitIs
  <2>11. p + q \in 2..(2 * MAX_SIMD_DEGREE_OR_2)
    BY <2>6, <2>10
  <2> QED
    BY <2>8, <2>9, <2>11 DEF p, q, after, r, l, n
<1> QED
  BY <1>1, EnumerationBound, PTL

-----------------------------------------------------------------------------
(***************************************************************************)
(* x & y                                                                   *)
(***************************************************************************)
And(x, y) == both[<<x, y>>]

\* The recursion of both defines a function.
LEMMA BothIsRecursive ==
  both = [pair \in Nat \X Nat |->
            IF pair[1] = 0 THEN 0
            ELSE 2 * both[<<pair[1] \div 2, pair[2] \div 2>>]
                   + (pair[1] % 2) * (pair[2] % 2)]
<1> DEFINE V == [Nat -> Nat]
           b == [y \in Nat |-> 0]
           S == [p \in Nat \X V |->
                   [y \in Nat |-> 2 * p[2][y \div 2] + (p[1] % 2) * (y % 2)]]
<1>1. b \in V
  OBVIOUS
<1>2. \A p \in Nat \X V : [y \in Nat |-> 2 * p[2][y \div 2] + (p[1] % 2) * (y % 2)] \in V
  <2> TAKE p \in Nat \X V
  <2>1. p[1] \in Nat /\ p[2] \in [Nat -> Nat]
    OBVIOUS
  <2>2. ASSUME NEW y \in Nat PROVE 2 * p[2][y \div 2] + (p[1] % 2) * (y % 2) \in Nat
    <3>1. y \div 2 \in Nat /\ y % 2 \in {0, 1} /\ p[1] % 2 \in {0, 1}
      BY <2>1
    <3>2. p[2][y \div 2] \in Nat
      BY <2>1, <3>1
    <3> DEFINE u == p[2][y \div 2]
               d == p[1] % 2
               e == y % 2
    <3> HIDE DEF u, d, e
    <3>3. 2 * u + d * e \in Nat
      BY <3>1, <3>2 DEF u, d, e
    <3> QED
      BY <3>3 DEF u, d, e
  <2> QED
    BY <2>2
<1>3. S \in [Nat \X V -> V]
  BY <1>2
<1>4. ASSUME NEW x \in Nat, NEW h \in V
      PROVE  S[x, h] = [y \in Nat |-> 2 * h[y \div 2] + (x % 2) * (y % 2)]
  <2>1. <<x, h>> \in Nat \X V
    OBVIOUS
  <2>2. S[<<x, h>>] = [y \in Nat |-> 2 * h[y \div 2] + (x % 2) * (y % 2)]
    BY <2>1
  <2> HIDE DEF S
  <2> QED
    BY <2>2
<1> HIDE DEF S
<1>5. PICK f \in [Nat -> V] : DescentOn(f, Nat, Halving, b, S)
  <2> HIDE DEF b, V
  <2> QED
    BY <1>1, <1>3, HalvingFalls, DescentFunction
<1> DEFINE g == [pair \in Nat \X Nat |-> f[pair[1]][pair[2]]]
<1>6. ASSUME NEW x \in Nat, NEW y \in Nat
      PROVE  g[<<x, y>>] = IF x = 0 THEN 0
                           ELSE 2 * g[<<x \div 2, y \div 2>>] + (x % 2) * (y % 2)
  <2>1. x \div 2 \in Nat /\ y \div 2 \in Nat
    OBVIOUS
  <2>2. g[<<x, y>>] = f[x][y] /\ g[<<x \div 2, y \div 2>>] = f[x \div 2][y \div 2]
    BY <2>1
  <2>3. f[x \div 2] \in V
    BY <1>5, <2>1
  <2>4. b[y] = 0
    OBVIOUS
  <2> HIDE DEF V, b, g
  <2> DEFINE h == f[x \div 2]
             t == S[x, h]
  <2>5. f[x] = IF x = 0 THEN b ELSE t
    BY <1>5, HalvingFalls DEF DescentOn
  <2> HIDE DEF h
  <2>6. t = [z \in Nat |-> 2 * h[z \div 2] + (x % 2) * (z % 2)]
    BY <1>4, <2>3 DEF h
  <2> HIDE DEF t
  <2>7. t[y] = 2 * h[y \div 2] + (x % 2) * (y % 2)
    BY <2>6
  <2> QED
    BY <2>2, <2>4, <2>5, <2>7 DEF h
<1>7. g = [pair \in Nat \X Nat |->
             IF pair[1] = 0 THEN 0
             ELSE 2 * g[<<pair[1] \div 2, pair[2] \div 2>>]
                    + (pair[1] % 2) * (pair[2] % 2)]
  <2> DEFINE R(pair) == IF pair[1] = 0 THEN 0
                        ELSE 2 * g[<<pair[1] \div 2, pair[2] \div 2>>]
                               + (pair[1] % 2) * (pair[2] % 2)
  <2>1. g = [pair \in Nat \X Nat |-> g[pair]]
    OBVIOUS
  <2> HIDE DEF g
  <2>2. ASSUME NEW pair \in Nat \X Nat PROVE g[pair] = R(pair)
    <3>1. pair[1] \in Nat /\ pair[2] \in Nat /\ pair = <<pair[1], pair[2]>>
      OBVIOUS
    <3> DEFINE x == pair[1]
               y == pair[2]
    <3>2. g[<<x, y>>] = IF x = 0 THEN 0
                        ELSE 2 * g[<<x \div 2, y \div 2>>] + (x % 2) * (y % 2)
      BY <1>6, <3>1
    <3> QED
      BY <3>1, <3>2
  <2> QED
    BY <2>1, <2>2
<1> QED
  BY <1>7 DEF both

\* One bit after the other, from the lowest one up.
LEMMA AndStep ==
  ASSUME NEW x \in Nat, NEW y \in Nat
  PROVE  And(x, y) = IF x = 0 THEN 0
                     ELSE 2 * And(x \div 2, y \div 2) + (x % 2) * (y % 2)
<1>1. <<x, y>> \in Nat \X Nat /\ <<x, y>>[1] = x /\ <<x, y>>[2] = y
  OBVIOUS
<1> QED
  BY <1>1, BothIsRecursive DEF And

\* Induction from every half to its double and the number after that.
LEMMA HalfInduct ==
  ASSUME NEW S, 0 \in S, \A k \in Nat : k \in S => 2 * k \in S /\ 2 * k + 1 \in S
  PROVE  \A n \in Nat : n \in S
<1> DEFINE Bad == {n \in Nat : n \notin S}
<1>1. Bad = {}
  <2> SUFFICES ASSUME Bad # {} PROVE FALSE
    OBVIOUS
  <2>1. PICK n \in Bad : \A m \in Bad : n <= m
    <3>1. Bad \subseteq Nat
      OBVIOUS
    <3> HIDE DEF Bad
    <3> QED
      BY <3>1, NatMin
  <2>2. n \in Nat /\ n \notin S
    OBVIOUS
  <2>3. \A k \in Nat : k < n => k \in S
    BY <2>1, <2>2
  <2> HIDE DEF Bad
  <2>4. n > 0
    BY <2>2
  <2>5. CASE \E k \in Nat : n = 2 * k /\ (n > 0 => k < n)
    BY <2>2, <2>3, <2>4, <2>5
  <2>6. CASE \E k \in Nat : n = 2 * k + 1 /\ k < n
    BY <2>2, <2>3, <2>6
  <2> QED
    BY <2>2, <2>5, <2>6, EvenOrOdd
<1> QED
  BY <1>1

\* x & y is a number.
LEMMA AndType ==
  \A x, y \in Nat : And(x, y) \in Nat
<1> DEFINE S == {x \in Nat : \A y \in Nat : And(x, y) \in Nat}
<1>1. 0 \in S
  BY AndStep
<1>2. ASSUME NEW k \in Nat, k \in S, NEW d \in {0, 1} PROVE 2 * k + d \in S
  <2>1. ASSUME NEW y \in Nat PROVE And(2 * k + d, y) \in Nat
    <3> DEFINE x == 2 * k + d
               e == y % 2
               h == y \div 2
    <3>1. x \in Nat /\ x \div 2 = k /\ x % 2 = d /\ h \in Nat /\ e \in {0, 1}
      OBVIOUS
    <3>2. And(k, h) \in Nat
      BY <1>2, <3>1
    <3> HIDE DEF x
    <3>3. And(x, y) = IF x = 0 THEN 0 ELSE 2 * And(k, h) + d * e
      BY <3>1, AndStep
    <3> HIDE DEF e, h
    <3>4. d * e \in Nat
      BY <3>1
    <3>5. And(x, y) \in Nat
      BY <3>2, <3>3, <3>4
    <3> QED
      BY <3>5 DEF x
  <2> QED
    BY <2>1
<1>3. ASSUME NEW k \in Nat, k \in S PROVE 2 * k \in S /\ 2 * k + 1 \in S
  <2>1. 2 * k + 0 \in S /\ 2 * k + 1 \in S
    BY <1>2, <1>3
  <2> QED
    BY <2>1
<1> HIDE DEF S
<1>4. \A n \in Nat : n \in S
  BY <1>1, <1>3, HalfInduct
<1> QED
  BY <1>4 DEF S

\* Of two doubles, a bit added to each.
LEMMA AndBits ==
  ASSUME NEW k \in Nat, NEW m \in Nat, NEW d \in {0, 1}, NEW e \in {0, 1}
  PROVE  And(2 * k + d, 2 * m + e) = 2 * And(k, m) + d * e
<1> DEFINE x == 2 * k + d
           y == 2 * m + e
           a == And(k, m)
<1>1. /\ x \in Nat /\ x \div 2 = k /\ x % 2 = d
      /\ y \in Nat /\ y \div 2 = m /\ y % 2 = e
      /\ x = 0 => k = 0 /\ d = 0
  OBVIOUS
<1>2. k = 0 => a = 0
  BY AndStep
<1>3. a \in Nat
  BY AndType
<1> HIDE DEF x, y
<1>4. And(x, y) = IF x = 0 THEN 0 ELSE 2 * a + d * e
  BY <1>1, AndStep
<1> HIDE DEF a
<1>5. x = 0 => 2 * a + d * e = 0
  BY <1>1, <1>2
<1>6. And(x, y) = 2 * a + d * e
  BY <1>4, <1>5
<1> QED
  BY <1>6 DEF x, y, a

\* The four cases.
LEMMA AndCases ==
  ASSUME NEW k \in Nat, NEW m \in Nat
  PROVE  /\ And(2 * k, 2 * m) = 2 * And(k, m)
         /\ And(2 * k + 1, 2 * m) = 2 * And(k, m)
         /\ And(2 * k, 2 * m + 1) = 2 * And(k, m)
         /\ And(2 * k + 1, 2 * m + 1) = 2 * And(k, m) + 1
<1> DEFINE a == And(k, m)
<1>1. a \in Nat
  BY AndType
<1>2. /\ And(2 * k + 0, 2 * m + 0) = 2 * a + 0 * 0
      /\ And(2 * k + 1, 2 * m + 0) = 2 * a + 1 * 0
      /\ And(2 * k + 0, 2 * m + 1) = 2 * a + 0 * 1
      /\ And(2 * k + 1, 2 * m + 1) = 2 * a + 1 * 1
  BY AndBits
<1>3. 2 * k + 0 = 2 * k /\ 2 * m + 0 = 2 * m
  OBVIOUS
<1> HIDE DEF a
<1>4. 2 * a + 0 * 0 = 2 * a /\ 2 * a + 1 * 0 = 2 * a /\ 2 * a + 0 * 1 = 2 * a
      /\ 2 * a + 1 * 1 = 2 * a + 1
  BY <1>1
<1>5. /\ And(2 * k, 2 * m) = 2 * a
      /\ And(2 * k + 1, 2 * m) = 2 * a
      /\ And(2 * k, 2 * m + 1) = 2 * a
      /\ And(2 * k + 1, 2 * m + 1) = 2 * a + 1
  BY <1>2, <1>3, <1>4
<1> QED
  BY <1>5 DEF a

\* Nothing is in common with 0.
LEMMA AndZero == \A x \in Nat : And(0, x) = 0 /\ And(x, 0) = 0
<1> DEFINE S == {x \in Nat : And(x, 0) = 0}
<1>1. \A x \in Nat : And(0, x) = 0
  BY AndStep
<1>2. 0 \in S
  BY <1>1
<1>3. ASSUME NEW k \in Nat, k \in S PROVE 2 * k \in S /\ 2 * k + 1 \in S
  <2>1. And(k, 0) = 0
    BY <1>3
  <2> DEFINE z == 0
  <2>2. z \in Nat /\ 2 * z = z
    OBVIOUS
  <2> HIDE DEF z
  <2>3. And(2 * k, 2 * z) = 2 * And(k, z) /\ And(2 * k + 1, 2 * z) = 2 * And(k, z)
    BY <2>2, AndCases
  <2>4. And(2 * k, z) = 2 * And(k, z) /\ And(2 * k + 1, z) = 2 * And(k, z)
    BY <2>2, <2>3
  <2> QED
    BY <2>1, <2>4 DEF z
<1> HIDE DEF S
<1>4. \A n \in Nat : n \in S
  BY <1>2, <1>3, HalfInduct
<1> QED
  BY <1>1, <1>4 DEF S

\* The order of the operands does not matter.
LEMMA AndCommutes == \A x, y \in Nat : And(x, y) = And(y, x)
<1> DEFINE S == {x \in Nat : \A y \in Nat : And(x, y) = And(y, x)}
<1>1. 0 \in S
  BY AndZero
<1>2. ASSUME NEW k \in Nat, k \in S PROVE 2 * k \in S /\ 2 * k + 1 \in S
  <2>1. ASSUME NEW y \in Nat
        PROVE  And(2 * k, y) = And(y, 2 * k) /\ And(2 * k + 1, y) = And(y, 2 * k + 1)
    <3>1. PICK m \in Nat : y = 2 * m \/ y = 2 * m + 1
      BY EvenOrOdd
    <3>2. And(k, m) = And(m, k)
      BY <1>2
    <3>3. CASE y = 2 * m
      BY <3>2, <3>3, AndCases
    <3>4. CASE y = 2 * m + 1
      BY <3>2, <3>4, AndCases
    <3> QED
      BY <3>1, <3>3, <3>4
  <2> QED
    BY <2>1
<1> HIDE DEF S
<1>3. \A n \in Nat : n \in S
  BY <1>1, <1>2, HalfInduct
<1> QED
  BY <1>3 DEF S

\* A number has all its bits in common with itself.
LEMMA AndSelf == \A x \in Nat : And(x, x) = x
<1> DEFINE S == {x \in Nat : And(x, x) = x}
<1>1. 0 \in S
  BY AndZero
<1>2. ASSUME NEW k \in Nat, k \in S PROVE 2 * k \in S /\ 2 * k + 1 \in S
  <2>1. And(k, k) = k
    BY <1>2
  <2> QED
    BY <2>1, AndCases
<1> HIDE DEF S
<1>3. \A n \in Nat : n \in S
  BY <1>1, <1>2, HalfInduct
<1> QED
  BY <1>3 DEF S

-----------------------------------------------------------------------------
(***************************************************************************)
(* popcnt's loop                                                           *)
(***************************************************************************)
\* Clearing the lowest bit leaves a smaller number with a bit less.
LEMMA LowestCleared ==
  \A x \in Nat : x > 0 => /\ clear_lowest(x) \in Nat /\ clear_lowest(x) < x
                          /\ popcnt[clear_lowest(x)] + 1 = popcnt[x]
<1> DEFINE Clears(x) == /\ clear_lowest(x) \in Nat /\ clear_lowest(x) < x
                        /\ popcnt[clear_lowest(x)] + 1 = popcnt[x]
           S == {x \in Nat : x > 0 => Clears(x)}
<1>1. 0 \in S
  OBVIOUS
<1>2. ASSUME NEW k \in Nat, k \in S PROVE 2 * k \in S /\ 2 * k + 1 \in S
  <2>1. 2 * k \in S
    <3> SUFFICES ASSUME 2 * k > 0 PROVE Clears(2 * k)
      OBVIOUS
    <3> DEFINE m == k - 1
               z == And(k, m)
    <3>1. k > 0 /\ m \in Nat /\ 2 * k - 1 = 2 * m + 1
      OBVIOUS
    <3>2. z \in Nat /\ z < k /\ popcnt[z] + 1 = popcnt[k]
      BY <1>2, <3>1 DEF clear_lowest, And
    <3> HIDE DEF m
    <3>3. clear_lowest(2 * k) = 2 * z
      BY <3>1, AndCases DEF clear_lowest, And
    <3> HIDE DEF z
    <3>4. popcnt[2 * z] = popcnt[z] /\ popcnt[2 * k] = popcnt[k]
      BY <3>2, PopcntShift
    <3> QED
      BY <3>2, <3>3, <3>4
  <2>2. 2 * k + 1 \in S
    <3>1. (2 * k + 1) - 1 = 2 * k
      OBVIOUS
    <3>2. clear_lowest(2 * k + 1) = 2 * k
      BY <3>1, AndCases, AndSelf DEF clear_lowest, And
    <3>3. popcnt[2 * k] = popcnt[k] /\ popcnt[2 * k + 1] = popcnt[k] + 1
      BY PopcntShift
    <3> QED
      BY <3>2, <3>3
  <2> QED
    BY <2>1, <2>2
<1> HIDE DEF S
<1>3. \A n \in Nat : n \in S
  BY <1>1, <1>2, HalfInduct
<1> QED
  BY <1>3 DEF S

\* The recursion of popcnt_loop defines a function.
LEMMA LoopIsRecursive ==
  popcnt_loop = [x \in Nat |-> IF x = 0 THEN 0 ELSE 1 + popcnt_loop[clear_lowest(x)]]
<1> DEFINE P == [x \in Nat |-> IF x = 0 THEN 0 ELSE clear_lowest(x)]
           S == [p \in Nat \X Nat |-> 1 + p[2]]
<1>1. S \in [Nat \X Nat -> Nat] /\ 0 \in Nat
  OBVIOUS
<1>2. \A n \in Nat : P[n] = IF n = 0 THEN 0 ELSE clear_lowest(n)
  OBVIOUS
<1>3. Falls(P)
  <2>1. P \in [Nat -> Nat]
    BY LowestCleared
  <2> HIDE DEF P
  <2> QED
    BY <1>2, <2>1, LowestCleared DEF Falls
<1>4. ASSUME NEW n \in Nat, NEW y \in Nat PROVE S[n, y] = 1 + y
  <2>1. <<n, y>> \in Nat \X Nat
    OBVIOUS
  <2> QED
    BY <2>1
<1> HIDE DEF P, S
<1>5. PICK f \in [Nat -> Nat] : DescentOn(f, Nat, P, 0, S)
  BY <1>1, <1>3, DescentFunction
<1>6. ASSUME NEW x \in Nat
      PROVE  f[x] = IF x = 0 THEN 0 ELSE 1 + f[clear_lowest(x)]
  <2>1. CASE x = 0
    BY <1>5, <2>1 DEF DescentOn
  <2>2. CASE x # 0
    <3>1. clear_lowest(x) \in Nat
      BY <2>2, LowestCleared
    <3>2. f[clear_lowest(x)] \in Nat
      BY <1>5, <3>1
    <3>3. f[x] = S[x, f[clear_lowest(x)]]
      BY <1>2, <1>5, <2>2 DEF DescentOn
    <3> QED
      BY <1>4, <2>2, <3>2, <3>3
  <2> QED
    BY <2>1, <2>2
<1>7. f = [x \in Nat |-> IF x = 0 THEN 0 ELSE 1 + f[clear_lowest(x)]]
  BY <1>6
<1> QED
  BY <1>7 DEF popcnt_loop

\* The loop counts the bits.
LEMMA LoopCounts == \A x \in Nat : popcnt_loop[x] = popcnt[x]
<1> DEFINE Bad == {x \in Nat : popcnt_loop[x] # popcnt[x]}
<1>1. Bad = {}
  <2> SUFFICES ASSUME Bad # {} PROVE FALSE
    OBVIOUS
  <2>1. PICK x \in Bad : \A m \in Bad : x <= m
    <3>1. Bad \subseteq Nat
      OBVIOUS
    <3> HIDE DEF Bad
    <3> QED
      BY <3>1, NatMin
  <2>2. x \in Nat /\ popcnt_loop[x] # popcnt[x]
    OBVIOUS
  <2>3. \A k \in Nat : k < x => popcnt_loop[k] = popcnt[k]
    BY <2>1, <2>2
  <2> HIDE DEF Bad
  <2>4. x # 0
    <3>1. popcnt_loop[0] = 0 /\ popcnt[0] = 0
      BY LoopIsRecursive, PopcntIsRecursive
    <3> QED
      BY <2>2, <3>1
  <2> DEFINE z == clear_lowest(x)
  <2>5. z \in Nat /\ z < x /\ popcnt[z] + 1 = popcnt[x]
    BY <2>2, <2>4, LowestCleared
  <2>6. popcnt_loop[x] = 1 + popcnt_loop[z]
    BY <2>2, <2>4, LoopIsRecursive
  <2> HIDE DEF z
  <2>7. popcnt_loop[z] = popcnt[z] /\ popcnt[z] \in Nat
    BY <2>3, <2>5, PopcntType
  <2> QED
    BY <2>2, <2>5, <2>6, <2>7
<1> QED
  BY <1>1

-----------------------------------------------------------------------------
(***************************************************************************)
(* Masks                                                                   *)
(***************************************************************************)
\* A mask with zeros below leaves what is above.
LEMMA AndAbove ==
  ASSUME NEW s \in Nat
  PROVE  \A q, y, r \in Nat :
           r < power[s] => And(power[s] * q + r, power[s] * y) = power[s] * And(q, y)
<1> DEFINE Kept(k) == \A q, y, r \in Nat :
             r < power[k] => And(power[k] * q + r, power[k] * y) = power[k] * And(q, y)
           S == {k \in Nat : Kept(k)}
<1>1. 0 \in S
  <2>1. ASSUME NEW q \in Nat, NEW y \in Nat, NEW r \in Nat, r < power[0]
        PROVE  And(power[0] * q + r, power[0] * y) = power[0] * And(q, y)
    <3>1. power[0] = 1 /\ r = 0
      BY <2>1, PowerIs
    <3>3. And(q, y) \in Nat
      BY AndType
    <3> DEFINE a == And(q, y)
    <3> HIDE DEF a
    <3>2. power[0] * q + r = q /\ power[0] * y = y /\ power[0] * a = a
      BY <3>1, <3>3 DEF a
    <3> QED
      BY <3>2 DEF a
  <2> QED
    BY <2>1
<1>2. ASSUME NEW k \in 0..s, k < s, k \in S PROVE k + 1 \in S
  <2> DEFINE p == power[k]
  <2>1. p \in Nat /\ p > 0 /\ power[k + 1] = 2 * p
    BY PowerIs
  <2>2. \A q, y, r \in Nat : r < p => And(p * q + r, p * y) = p * And(q, y)
    BY <1>2
  <2> HIDE DEF p
  <2>3. ASSUME NEW q \in Nat, NEW y \in Nat, NEW r \in Nat, r < 2 * p
        PROVE  And((2 * p) * q + r, (2 * p) * y) = (2 * p) * And(q, y)
    <3> DEFINE u == p * q
               v == p * y
               a == And(q, y)
    <3>a. a \in Nat
      BY AndType
    <3>1. /\ u \in Nat /\ v \in Nat /\ a \in Nat
          /\ (2 * p) * q = 2 * u /\ (2 * p) * y = 2 * v /\ (2 * p) * a = 2 * (p * a)
      <4> HIDE DEF a
      <4>1. u \in Nat /\ v \in Nat
        BY <2>1
      <4>2. (2 * p) * q = 2 * u /\ (2 * p) * y = 2 * v /\ (2 * p) * a = 2 * (p * a)
        BY <2>1, <3>a
      <4> QED
        BY <3>a, <4>1, <4>2
    <3>2. PICK h \in Nat : r = 2 * h \/ r = 2 * h + 1
      BY EvenOrOdd
    <3>3. h < p
      BY <2>1, <2>3, <3>2
    <3>4. And(u + h, v) = p * a
      BY <2>2, <3>3
    <3> HIDE DEF u, v, a
    <3>5. u + h \in Nat
      BY <3>1
    <3>6. /\ And(2 * (u + h), 2 * v) = 2 * (p * a)
          /\ And(2 * (u + h) + 1, 2 * v) = 2 * (p * a)
      BY <3>1, <3>4, <3>5, AndCases
    <3>7. 2 * u + r = 2 * (u + h) \/ 2 * u + r = 2 * (u + h) + 1
      BY <3>1, <3>2
    <3>8. And(2 * u + r, 2 * v) = 2 * (p * a)
      BY <3>6, <3>7
    <3> QED
      BY <3>1, <3>8 DEF a
  <2>4. k + 1 \in Nat
    OBVIOUS
  <2> QED
    BY <2>1, <2>3, <2>4
<1> HIDE DEF S
<1>3. s \in S
  <2>1. \A k \in 0..s : k \in S
    BY <1>1, <1>2, Induct
  <2> QED
    BY <2>1
<1> QED
  BY <1>3 DEF S

\* A mask of s ones leaves the remainder.
LEMMA AndBelow ==
  ASSUME NEW s \in Nat
  PROVE  \A q, r \in Nat :
           r < power[s] => And(power[s] * q + r, power[s] - 1) = r
<1> DEFINE Kept(k) == \A q, r \in Nat :
             r < power[k] => And(power[k] * q + r, power[k] - 1) = r
           S == {k \in Nat : Kept(k)}
<1>1. 0 \in S
  <2>1. ASSUME NEW q \in Nat, NEW r \in Nat, r < power[0]
        PROVE  And(power[0] * q + r, power[0] - 1) = r
    <3>1. power[0] = 1 /\ r = 0
      BY <2>1, PowerIs
    <3>2. power[0] * q + r = q /\ power[0] - 1 = 0
      BY <3>1
    <3> QED
      BY <3>1, <3>2, AndZero
  <2> QED
    BY <2>1
<1>2. ASSUME NEW k \in 0..s, k < s, k \in S PROVE k + 1 \in S
  <2> DEFINE p == power[k]
  <2>1. p \in Nat /\ p > 0 /\ power[k + 1] = 2 * p
    BY PowerIs
  <2>2. \A q, r \in Nat : r < p => And(p * q + r, p - 1) = r
    BY <1>2
  <2> HIDE DEF p
  <2>3. ASSUME NEW q \in Nat, NEW r \in Nat, r < 2 * p
        PROVE  And((2 * p) * q + r, 2 * p - 1) = r
    <3> DEFINE u == p * q
               v == p - 1
    <3>1. /\ u \in Nat /\ v \in Nat
          /\ (2 * p) * q = 2 * u /\ 2 * p - 1 = 2 * v + 1
      BY <2>1
    <3>2. PICK h \in Nat : r = 2 * h \/ r = 2 * h + 1
      BY EvenOrOdd
    <3>3. h < p
      BY <2>1, <2>3, <3>2
    <3>4. And(u + h, v) = h
      BY <2>2, <3>3
    <3> HIDE DEF u, v
    <3>5. u + h \in Nat
      BY <3>1
    <3>6. /\ And(2 * (u + h), 2 * v + 1) = 2 * h
          /\ And(2 * (u + h) + 1, 2 * v + 1) = 2 * h + 1
      BY <3>1, <3>4, <3>5, AndCases
    <3>7. CASE r = 2 * h
      <4>1. 2 * u + r = 2 * (u + h)
        BY <3>1, <3>7
      <4> QED
        BY <3>1, <3>6, <3>7, <4>1
    <3>8. CASE r = 2 * h + 1
      <4>1. 2 * u + r = 2 * (u + h) + 1
        BY <3>1, <3>8
      <4> QED
        BY <3>1, <3>6, <3>8, <4>1
    <3> QED
      BY <3>2, <3>7, <3>8
  <2>4. k + 1 \in Nat
    OBVIOUS
  <2> QED
    BY <2>1, <2>3, <2>4
<1> HIDE DEF S
<1>3. s \in S
  <2>1. \A k \in 0..s : k \in S
    BY <1>1, <1>2, Induct
  <2> QED
    BY <2>1
<1> QED
  BY <1>3 DEF S

\* Division by a positive number.
LEMMA Divided ==
  ASSUME NEW x \in Nat, NEW p \in Nat, p > 0
  PROVE  \E q, r \in Nat : /\ x = p * q + r /\ r < p
                           /\ q = x \div p /\ r = x % p
<1> DEFINE q == x \div p
           r == x % p
<1>1. q \in Nat /\ r \in Nat /\ r < p /\ x = p * q + r
  OBVIOUS
<1> HIDE DEF q, r
<1> QED
  BY <1>1 DEF q, r

\* The mask of a subtree's length leaves the remainder.
LEMMA MaskLeaves ==
  ASSUME NEW i \in Nat, NEW x \in Nat
  PROVE  And(power[i] - 1, x) = x % power[i]
<1> DEFINE p == power[i]
<1>1. p \in Nat /\ p > 0 /\ p - 1 \in Nat
  <2>1. p \in Nat /\ p > 0
    BY PowerIs
  <2> HIDE DEF p
  <2> QED
    BY <2>1
<1>2. \A q, r \in Nat : r < p => And(p * q + r, p - 1) = r
  BY AndBelow
<1> HIDE DEF p
<1>3. PICK q \in Nat, r \in Nat : x = p * q + r /\ r < p /\ r = x % p
  BY <1>1, Divided
<1>4. And(x, p - 1) = r
  BY <1>2, <1>3
<1>5. And(p - 1, x) = And(x, p - 1)
  BY <1>1, AndCommutes
<1> QED
  BY <1>3, <1>4, <1>5 DEF p

-----------------------------------------------------------------------------
(***************************************************************************)
(* The binary search for the highest bit                                   *)
(***************************************************************************)
\* Exponents add.
LEMMA PowerAdds ==
  ASSUME NEW a \in Nat, NEW b \in Nat
  PROVE  power[a + b] = power[a] * power[b]
<1> DEFINE S == {k \in 0..b : power[a + k] = power[a] * power[k]}
<1>1. power[a] \in Nat
  BY PowerIs
<1>2. 0 \in S
  <2>1. a + 0 = a /\ power[0] = 1
    BY PowerIs
  <2>2. power[a] * power[0] = power[a]
    BY <1>1, <2>1
  <2> QED
    BY <2>1, <2>2
<1>3. ASSUME NEW k \in 0..b, k < b, k \in S PROVE k + 1 \in S
  <2> DEFINE x == power[a]
             y == power[k]
  <2>1. x \in Nat /\ y \in Nat /\ power[k + 1] = 2 * y
    BY PowerIs
  <2>2. a + k \in Nat /\ (a + k) + 1 = a + (k + 1) /\ k + 1 \in 0..b
    BY <1>3
  <2>3. power[a + k] = x * y
    BY <1>3
  <2>4. power[a + (k + 1)] = 2 * power[a + k]
    BY <2>2, PowerIs
  <2> HIDE DEF x, y
  <2>5. power[a + (k + 1)] = x * power[k + 1]
    <3>1. 2 * (x * y) = x * (2 * y)
      BY <2>1
    <3> QED
      BY <2>1, <2>3, <2>4, <3>1
  <2> QED
    BY <2>2, <2>5 DEF x
<1> HIDE DEF S
<1>4. b \in S
  <2>1. \A k \in 0..b : k \in S
    BY <1>2, <1>3, Induct
  <2> QED
    BY <2>1
<1> QED
  BY <1>4 DEF S

\* What one has found so far of the highest bit of z, with 2^m bits to go.
Narrowed(z, sf, m) ==
  /\ sf.x \in Nat /\ sf.c \in Nat
  /\ sf.x > 0 /\ sf.x < power[power[m]]
  /\ \E r \in Nat : z = sf.x * power[sf.c] + r /\ r < power[sf.c]

\* A stage halves the bits in question.
LEMMA StageNarrows ==
  ASSUME NEW z \in Nat, NEW m \in Nat, NEW sf, sf = [x |-> sf.x, c |-> sf.c],
         Narrowed(z, sf, m + 1)
  PROVE  LET t == stage(sf, power[m])
         IN  t = [x |-> t.x, c |-> t.c] /\ Narrowed(z, t, m)
<1> DEFINE s == power[m]
           p == power[s]
           x == sf.x
           c == sf.c
           d == power[c]
           t == stage(sf, s)
<1>1. s \in Nat /\ p \in Nat /\ p > 0 /\ p - 1 \in Nat /\ power[power[m + 1]] = p * p
  <2>1. s \in Nat /\ power[m + 1] = 2 * s
    BY PowerIs
  <2>2. 2 * s = s + s
    BY <2>1
  <2>3. power[s + s] = p * p
    BY <2>1, PowerAdds
  <2>4. p \in Nat /\ p > 0
    BY <2>1, PowerIs
  <2> HIDE DEF p, s
  <2>5. p - 1 \in Nat
    BY <2>4
  <2> QED
    BY <2>1, <2>2, <2>3, <2>4, <2>5
<1>2. /\ x \in Nat /\ c \in Nat /\ x > 0 /\ x < p * p
      /\ \E r \in Nat : z = x * d + r /\ r < d
  BY <1>1 DEF Narrowed
<1>3. d \in Nat /\ d > 0
  BY <1>2, PowerIs
<1>4. \A q, y, r \in Nat : r < p => And(p * q + r, p * y) = p * And(q, y)
  BY <1>1, AndAbove
<1>5. \A q, r \in Nat : r < p => And(p * q + r, p - 1) = r
  BY <1>1, AndBelow
<1>6. t = IF And(x, p * (p - 1)) # 0 THEN [x |-> x \div p, c |-> c + s] ELSE sf
  BY DEF stage, upper_half, And
<1>p. power[c + s] = d * p
  BY <1>1, <1>2, PowerAdds
<1> HIDE DEF p, s, x, c, d, t
<1>7. PICK q \in Nat, r \in Nat : x = p * q + r /\ r < p /\ q = x \div p
  BY <1>1, <1>2, Divided
<1>8. q < p
  <2> SUFFICES ASSUME p <= q PROVE FALSE
    BY <1>1, <1>7
  <2>1. p * p <= p * q
    BY <1>1, <1>7
  <2> QED
    BY <1>1, <1>2, <1>7, <2>1
<1>9. And(q, p - 1) = q
  <2> DEFINE zero == 0
  <2>1. zero \in Nat /\ p * zero + q = q
    BY <1>1, <1>7
  <2>2. And(p * zero + q, p - 1) = q
    BY <1>5, <1>7, <1>8, <2>1
  <2> QED
    BY <2>1, <2>2
<1>10. And(x, p * (p - 1)) = p * q
  BY <1>1, <1>4, <1>7, <1>9
<1>11. p * q = 0 <=> q = 0
  BY <1>1, <1>7
<1>12. PICK e \in Nat : z = x * d + e /\ e < d
  BY <1>2
<1>13. CASE q # 0
  <2>1. t = [x |-> q, c |-> c + s]
    BY <1>6, <1>7, <1>10, <1>11, <1>13
  <2>2. t.x = q /\ t.c = c + s /\ c + s \in Nat
    BY <1>1, <1>2, <2>1
  <2> DEFINE f == r * d + e
  <2>3. f \in Nat /\ z = q * (d * p) + f /\ f < d * p
    <3>1. x * d = q * (d * p) + r * d
      BY <1>1, <1>3, <1>7
    <3>2. r * d \in Nat /\ q * (d * p) \in Nat /\ x * d \in Nat
      BY <1>1, <1>2, <1>3, <1>7
    <3>3. r * d + d <= d * p
      <4>1. r + 1 <= p
        BY <1>1, <1>7
      <4>2. (r + 1) * d <= p * d
        BY <1>1, <1>3, <1>7, <4>1
      <4> QED
        BY <1>1, <1>3, <1>7, <4>2
    <3>4. d * p \in Nat
      BY <1>1, <1>3
    <3> QED
      BY <1>3, <1>12, <3>1, <3>2, <3>3, <3>4
  <2> HIDE DEF f
  <2>4. q > 0
    BY <1>7, <1>13
  <2>5. Narrowed(z, t, m)
    BY <1>p, <1>7, <1>8, <2>2, <2>3, <2>4 DEF Narrowed, p, s
  <2> QED
    BY <2>1, <2>2, <2>5 DEF t, s
<1>14. CASE q = 0
  <2>1. t = sf
    BY <1>6, <1>10, <1>11, <1>14
  <2>2. x < p
    BY <1>1, <1>7, <1>14
  <2>3. Narrowed(z, t, m)
    BY <1>2, <2>1, <2>2 DEF Narrowed, p, s, x, c, d
  <2> QED
    BY <2>1, <2>3 DEF t, s
<1> QED
  BY <1>13, <1>14

\* The stages of the search are defined.
LEMMA SearchIs ==
  ASSUME NEW z \in Nat
  PROVE  \E search :
           /\ highest_one(z) = search[LogBits].c
           /\ search[0] = [x |-> z, c |-> 0]
           /\ \A i \in 0..LogBits : i < LogBits =>
                search[i + 1] = stage(search[i], power[LogBits - (i + 1)])
<1> DEFINE Stages(f) == [i \in 0..LogBits |->
                           IF i = 0 THEN [x |-> z, c |-> 0]
                           ELSE stage(f[i-1], power[LogBits - i])]
           V == [x : Nat, c : Nat]
           P == [n \in Nat |-> IF n = 0 THEN 0 ELSE n - 1]
           S == [p \in Nat \X V |->
                   IF p[1] <= LogBits THEN stage(p[2], power[LogBits - p[1]]) ELSE p[2]]
           b == [x |-> z, c |-> 0]
<1>1. Falls(P) /\ \A n \in Nat : n # 0 => P[n] = n - 1
  <2>1. P \in [Nat -> Nat] /\ \A n \in Nat : P[n] = IF n = 0 THEN 0 ELSE n - 1
    OBVIOUS
  <2> HIDE DEF P
  <2> QED
    BY <2>1 DEF Falls
<1>2. ASSUME NEW sf \in V, NEW s \in Nat PROVE stage(sf, s) \in V
  <2>1. power[s] \in Nat /\ power[s] > 0 /\ sf.x \in Nat /\ sf.c \in Nat
    BY PowerIs
  <2> DEFINE p == power[s]
             x == sf.x
             c == sf.c
             q == x \div p
  <2> HIDE DEF p, x, c
  <2>2. q \in Nat /\ c + s \in Nat
    BY <2>1 DEF p, x, c
  <2> HIDE DEF q
  <2>3. [x |-> q, c |-> c + s] \in V
    BY <2>2
  <2>4. stage(sf, s) = [x |-> q, c |-> c + s] \/ stage(sf, s) = sf
    BY DEF stage, q, p, x, c
  <2> HIDE DEF V
  <2> QED
    BY <2>3, <2>4
<1>3. S \in [Nat \X V -> V] /\ b \in V
  <2>1. ASSUME NEW p \in Nat \X V
        PROVE  (IF p[1] <= LogBits THEN stage(p[2], power[LogBits - p[1]]) ELSE p[2]) \in V
    <3>1. p[1] \in Nat /\ p[2] \in V
      <4> HIDE DEF V
      <4> QED
        OBVIOUS
    <3>2. CASE p[1] <= LogBits
      <4> DEFINE k == LogBits - p[1]
      <4>1. k \in Nat
        BY <3>1, <3>2, LogBitsAssumption
      <4> HIDE DEF k, V
      <4>2. power[k] \in Nat
        BY <4>1, PowerIs
      <4>3. stage(p[2], power[k]) \in V
        BY <1>2, <3>1, <4>2
      <4> QED
        BY <3>2, <4>3 DEF k
    <3> HIDE DEF V
    <3> QED
      BY <3>1, <3>2
  <2>2. b \in V
    OBVIOUS
  <2> HIDE DEF V
  <2> QED
    BY <2>1, <2>2
<1>4. ASSUME NEW n \in Nat, NEW y \in V, n <= LogBits
      PROVE  S[n, y] = stage(y, power[LogBits - n])
  <2> HIDE DEF V
  <2>1. <<n, y>> \in Nat \X V
    OBVIOUS
  <2>2. S[<<n, y>>] = stage(y, power[LogBits - n])
    BY <1>4, <2>1
  <2> HIDE DEF S
  <2> QED
    BY <2>2
<1> HIDE DEF P, S, V, b
<1>5. PICK f \in [0..LogBits -> V] : DescentOn(f, 0..LogBits, P, b, S)
  BY <1>1, <1>3, LogBitsAssumption, DescentPrefix
<1>6. ASSUME NEW i \in 0..LogBits
      PROVE  f[i] = IF i = 0 THEN b ELSE stage(f[i-1], power[LogBits - i])
  <2>1. CASE i = 0
    BY <1>5, <2>1 DEF DescentOn
  <2>2. CASE i # 0
    <3>1. i \in Nat /\ i <= LogBits /\ i - 1 \in 0..LogBits
      BY <2>2, LogBitsAssumption
    <3>2. f[i - 1] \in V
      BY <1>5, <3>1
    <3>3. f[i] = S[i, f[i - 1]]
      BY <1>1, <1>5, <2>2, <3>1 DEF DescentOn
    <3> QED
      BY <1>4, <2>2, <3>1, <3>2, <3>3
  <2> QED
    BY <2>1, <2>2
<1>7. f = Stages(f)
  BY <1>5, <1>6 DEF b
<1> DEFINE search == CHOOSE g : g = Stages(g)
<1>8. search = Stages(search)
  <2> HIDE DEF Stages
  <2> QED
    BY <1>7
<1>9. highest_one(z) = search[LogBits].c
  BY DEF highest_one
<1> HIDE DEF search
<1>10. 0 \in 0..LogBits
  BY LogBitsAssumption
<1>11. search[0] = [x |-> z, c |-> 0]
  BY <1>8, <1>10
<1>12. ASSUME NEW i \in 0..LogBits, i < LogBits
       PROVE  search[i + 1] = stage(search[i], power[LogBits - (i + 1)])
  <2> DEFINE j == i + 1
  <2>1. j \in 0..LogBits /\ j # 0 /\ j - 1 = i
    BY <1>12, LogBitsAssumption
  <2> HIDE DEF j
  <2>2. search[j] = stage(search[j - 1], power[LogBits - j])
    BY <1>8, <2>1
  <2> QED
    BY <2>1, <2>2 DEF j
<1> QED
  BY <1>9, <1>11, <1>12

\* The binary search finds the highest bit.
LEMMA HighestIs ==
  ASSUME NEW z \in Nat, z > 0, z < power[power[LogBits]]
  PROVE  LET h == highest_one(z)
         IN  h \in Nat /\ power[h] <= z /\ z < 2 * power[h]
<1>1. PICK search :
        /\ highest_one(z) = search[LogBits].c
        /\ search[0] = [x |-> z, c |-> 0]
        /\ \A i \in 0..LogBits : i < LogBits =>
             search[i + 1] = stage(search[i], power[LogBits - (i + 1)])
  BY SearchIs
<1> DEFINE Good(i) == /\ search[i] = [x |-> search[i].x, c |-> search[i].c]
                      /\ Narrowed(z, search[i], LogBits - i)
           T == {i \in 0..LogBits : Good(i)}
<1>2. LogBits \in Nat
  BY LogBitsAssumption
<1>3. 0 \in T
  <2>1. search[0].x = z /\ search[0].c = 0 /\ LogBits - 0 = LogBits /\ 0 \in 0..LogBits
    BY <1>1, <1>2
  <2>2. 0 \in Nat /\ z = z * 1 + 0 /\ 0 < 1 /\ power[0] = 1
    BY PowerIs
  <2>3. Narrowed(z, search[0], LogBits - 0)
    BY <2>1, <2>2 DEF Narrowed
  <2> QED
    BY <1>1, <2>1, <2>3
<1>4. ASSUME NEW i \in 0..LogBits, i < LogBits, i \in T PROVE i + 1 \in T
  <2> DEFINE m == LogBits - (i + 1)
             sf == search[i]
  <2>1. m \in Nat /\ m + 1 = LogBits - i /\ i + 1 \in 0..LogBits
    BY <1>2, <1>4
  <2>2. search[i + 1] = stage(sf, power[m])
    BY <1>1, <1>4
  <2>3. sf = [x |-> sf.x, c |-> sf.c] /\ Narrowed(z, sf, LogBits - i)
    BY <1>4
  <2> DEFINE j == i + 1
  <2>4. search[j] = stage(sf, power[m]) /\ LogBits - j = m
    BY <2>2
  <2> HIDE DEF m, sf
  <2> DEFINE t == stage(sf, power[m])
  <2>5. t = [x |-> t.x, c |-> t.c] /\ Narrowed(z, t, m)
    BY <2>1, <2>3, StageNarrows
  <2> HIDE DEF t
  <2>6. search[j] = t
    BY <2>4 DEF t
  <2> HIDE DEF j
  <2>7. Good(j)
    BY <2>4, <2>5, <2>6
  <2>8. j \in 0..LogBits
    BY <2>1 DEF j
  <2> HIDE DEF Good
  <2>9. j \in T
    BY <2>7, <2>8
  <2> HIDE DEF T
  <2> QED
    BY <2>9 DEF j
<1> HIDE DEF T
<1>5. LogBits \in T
  <2>1. \A i \in 0..LogBits : i \in T
    BY <1>2, <1>3, <1>4, Induct
  <2> QED
    BY <1>2, <2>1
<1> DEFINE sf == search[LogBits]
           d == power[sf.c]
<1>6. Narrowed(z, sf, 0)
  <2>1. LogBits - LogBits = 0
    BY <1>2
  <2> QED
    BY <1>5, <2>1 DEF T
<1>7. power[power[0]] = 2
  <2>1. power[0] = 1 /\ power[0 + 1] = 2 * power[0] /\ 0 + 1 = 1
    BY PowerIs
  <2> QED
    BY <2>1
<1> HIDE DEF sf, d
<1>8. sf.c \in Nat /\ sf.x = 1 /\ \E r \in Nat : z = sf.x * d + r /\ r < d
  BY <1>6, <1>7 DEF Narrowed, d
<1>9. d \in Nat
  BY <1>8, PowerIs DEF d
<1>10. PICK r \in Nat : z = sf.x * d + r /\ r < d
  BY <1>8
<1>11. d <= z /\ z < 2 * d
  BY <1>8, <1>9, <1>10
<1>12. highest_one(z) = sf.c
  BY <1>1 DEF sf
<1> QED
  BY <1>8, <1>11, <1>12 DEF d

\* A power of two has one bit.
LEMMA PowerIsPow2 == ASSUME NEW i \in Nat PROVE IsPow2(power[i])
<1> DEFINE T == {k \in 0..i : IsPow2(power[k])}
<1>1. 0 \in T
  BY PowerIs, Pow2One
<1>2. ASSUME NEW k \in 0..i, k < i, k \in T PROVE k + 1 \in T
  <2>1. power[k + 1] = 2 * power[k] /\ k + 1 \in 0..i
    BY <1>2, PowerIs
  <2>2. IsPow2(2 * power[k])
    BY <1>2, Pow2Double
  <2> QED
    BY <2>1, <2>2
<1> HIDE DEF T
<1>3. i \in T
  <2>1. \A k \in 0..i : k \in T
    BY <1>1, <1>2, Induct
  <2> QED
    BY <2>1
<1> QED
  BY <1>3 DEF T

\* What the search gives for a word.
LEMMA RoundDownIs ==
  ASSUME NEW x \in Nat, x < power[power[LogBits]]
  PROVE  LET r == round_down(x)
         IN  /\ r \in Powers
             /\ r = round_down_to_power_of_2[x]
             /\ x > 0 => r <= x /\ x < 2 * r
<1> DEFINE z == x + 1 - (x % 2)
           h == highest_one(z)
           r == power[h]
           big == power[LogBits]
           top == power[big]
<1>1. big \in Nat /\ big > 0
  BY PowerIs, LogBitsAssumption
<1> HIDE DEF big
<1>2. \E m \in Nat : top = 2 * m
  <2>1. big - 1 \in Nat /\ (big - 1) + 1 = big
    BY <1>1
  <2>2. power[big - 1] \in Nat /\ power[(big - 1) + 1] = 2 * power[big - 1]
    BY <2>1, PowerIs
  <2> QED
    BY <2>1, <2>2
<1>3. x < top
  BY DEF big
<1> HIDE DEF top
<1>4. PICK k \in Nat : x = 2 * k \/ x = 2 * k + 1
  BY EvenOrOdd
<1>5. z = 2 * k + 1
  <2>1. CASE x = 2 * k
    <3>1. (2 * k) % 2 = 0
      OBVIOUS
    <3> QED
      BY <2>1, <3>1
  <2>2. CASE x = 2 * k + 1
    <3>1. (2 * k + 1) % 2 = 1
      OBVIOUS
    <3> QED
      BY <2>2, <3>1
  <2> QED
    BY <1>4, <2>1, <2>2
<1> HIDE DEF z
<1>6. z \in Nat /\ z > 0 /\ z < top /\ x <= z /\ z <= x + 1
  BY <1>2, <1>3, <1>4, <1>5
<1>7. h \in Nat /\ r <= z /\ z < 2 * r
  <2>1. z < power[power[LogBits]]
    BY <1>6 DEF top, big
  <2> QED
    BY <1>6, <2>1, HighestIs
<1> HIDE DEF h
<1>8. r \in Nat /\ r > 0
  BY <1>7, PowerIs
<1>9. h < big
  <2>1. r < top /\ top \in Nat
    BY <1>2, <1>6, <1>7, <1>8
  <2> QED
    BY <1>1, <1>7, <2>1, PowersGrow DEF top
<1>10. r \in Powers
  <2>1. h \in 0..(power[LogBits] - 1)
    BY <1>1, <1>7, <1>9 DEF big
  <2> QED
    BY <2>1 DEF Powers
<1>11. r = 1 \/ \E m \in Nat : r = 2 * m
  <2>1. CASE h = 0
    BY <2>1, PowerIs
  <2>2. CASE h # 0
    <3>1. h - 1 \in Nat /\ (h - 1) + 1 = h
      BY <1>7, <2>2
    <3>2. power[h - 1] \in Nat /\ power[(h - 1) + 1] = 2 * power[h - 1]
      BY <3>1, PowerIs
    <3> QED
      BY <3>1, <3>2
  <2> QED
    BY <2>1, <2>2
<1>12. IsPow2(r)
  BY <1>7, PowerIsPow2
<1>13. round_down(x) = r
  BY DEF round_down, r, h, z
<1> HIDE DEF r
<1>14. x > 0 => r <= x /\ x < 2 * r
  BY <1>4, <1>5, <1>6, <1>7, <1>8, <1>11
<1> DEFINE rd == round_down_to_power_of_2[x]
<1>15. r = rd
  <2>1. CASE x = 0
    <3>1. r = 1
      BY <1>6, <1>7, <1>8, <2>1
    <3>2. rd = 1
      BY <2>1, RoundDownIsRecursive
    <3> QED
      BY <3>1, <3>2
  <2>2. CASE x > 0
    <3>1. IsPow2(rd) /\ rd <= x /\ x < 2 * rd
      BY <2>2, RoundDown
    <3> HIDE DEF rd
    <3>2. rd \in Nat
      BY <3>1, Pow2Positive
    <3>3. ~ (r < rd)
      BY <1>8, <1>12, <1>14, <2>2, <3>1, <3>2, Pow2Gap
    <3>4. ~ (rd < r)
      <4>1. rd < r => 2 * rd <= r
        BY <1>12, <3>1, Pow2Gap
      <4>2. r <= x
        BY <1>14, <2>2
      <4> QED
        BY <1>8, <3>1, <3>2, <4>1, <4>2
    <3> QED
      BY <1>8, <3>2, <3>3, <3>4
  <2> QED
    BY <2>1, <2>2
<1> QED
  BY <1>10, <1>13, <1>14, <1>15

\* An argument is a word.
LEMMA ArgumentIsWord ==
  ASSUME ArgumentInv
  PROVE  argument \in Nat /\ argument < power[power[LogBits]]
<1> DEFINE top == power[power[LogBits]]
<1>1. power[LogBits] \in Nat /\ top \in Nat
  BY PowerIs, LogBitsAssumption
<1>2. MaxWord \in 0..(top - 1)
  BY ArgumentAssumption
<1> HIDE DEF top
<1>3. argument \in Nat /\ argument < top
  BY <1>1, <1>2 DEF ArgumentInv
<1> QED
  BY <1>3 DEF top

\* The loops of the code and the builtins agree on every word, of every width.
THEOREM LoopsAlwaysBuiltins == Enumeration => []LoopsAreBuiltins
<1>1. ArgumentInv => LoopsAreBuiltins
  <2> SUFFICES ASSUME ArgumentInv PROVE LoopsAreBuiltins
    OBVIOUS
  <2>1. argument \in Nat /\ argument < power[power[LogBits]]
    BY ArgumentIsWord
  <2>2. popcnt_loop[argument] = popcnt[argument]
    BY <2>1, LoopCounts
  <2>3. LET r == round_down(argument)
        IN  /\ r \in Powers
            /\ r = round_down_to_power_of_2[argument]
            /\ argument > 0 => r <= argument /\ argument < 2 * r
    BY <2>1, RoundDownIs
  <2> QED
    BY <2>2, <2>3 DEF LoopsAreBuiltins
<1> QED
  BY <1>1, EnumerationBound, PTL

\* The mask of the code is the remainder, for every power of two and count.
THEOREM MaskAlwaysRemainder == Enumeration => []MaskIsRemainder
<1>1. ArgumentInv => MaskIsRemainder
  <2> SUFFICES ASSUME ArgumentInv, NEW i \in 0..(power[LogBits] - 1)
               PROVE  misaligned(power[i], argument) <=> argument % power[i] # 0
    BY DEF MaskIsRemainder, Powers
  <2>1. argument \in Nat
    BY ArgumentIsWord
  <2>2. i \in Nat
    <3>1. power[LogBits] \in Nat
      BY PowerIs, LogBitsAssumption
    <3> QED
      BY <3>1
  <2>3. And(power[i] - 1, argument) = argument % power[i]
    BY <2>1, <2>2, MaskLeaves
  <2> QED
    BY <2>3 DEF misaligned, And
<1> QED
  BY <1>1, EnumerationBound, PTL

-----------------------------------------------------------------------------
(***************************************************************************)
(* Digits: a byte is its eight binary digits, and XOR[x][y] is x ^ y, digit*)
(* by digit, so that bytes are a group under it.                           *)
(***************************************************************************)

\* The binary digit of x of weight w.
Digit(x, w) == (x \div w) % 2
Bit(x, w) == Digit(x, w) = 1

\* The byte with the digits d[1], ..., d[128].
LEMMA HalfByte ==
  ASSUME NEW x \in Byte
  PROVE  /\ x \div 2 \in Byte /\ x % 2 \in {0, 1} /\ x = 2 * (x \div 2) + (x % 2)
         /\ x # 0 => x \div 2 < x
         /\ (x \div 2) \div 2 = x \div 4
         /\ (x \div 2) \div 4 = x \div 8
         /\ (x \div 2) \div 8 = x \div 16
         /\ (x \div 2) \div 16 = x \div 32
         /\ (x \div 2) \div 32 = x \div 64
         /\ (x \div 2) \div 64 = x \div 128
         /\ (x \div 2) \div 128 = 0
         /\ x \div 1 = x
  BY DEF Byte

\* A byte is the sum of its digits.
LEMMA Digits ==
  ASSUME NEW x \in Byte
  PROVE  /\ \A w \in {1, 2, 4, 8, 16, 32, 64, 128} : Digit(x, w) \in {0, 1}
         /\ x = Digit(x, 1) + 2 * Digit(x, 2) + 4 * Digit(x, 4) + 8 * Digit(x, 8)
                + 16 * Digit(x, 16) + 32 * Digit(x, 32) + 64 * Digit(x, 64)
                + 128 * Digit(x, 128)
  BY DEF Digit, Byte

\* The digits of such a sum are those it was made of.
LEMMA DigitsOf ==
  ASSUME NEW a \in {0, 1}, NEW b \in {0, 1}, NEW c \in {0, 1}, NEW d \in {0, 1},
         NEW e \in {0, 1}, NEW f \in {0, 1}, NEW g \in {0, 1}, NEW h \in {0, 1},
         NEW x, x = a + 2 * b + 4 * c + 8 * d + 16 * e + 32 * f + 64 * g + 128 * h
  PROVE  /\ x \in Byte
         /\ Digit(x, 1) = a /\ Digit(x, 2) = b /\ Digit(x, 4) = c /\ Digit(x, 8) = d
         /\ Digit(x, 16) = e /\ Digit(x, 32) = f /\ Digit(x, 64) = g
         /\ Digit(x, 128) = h
  BY DEF Digit, Byte

SumDigit(x, y, w) == (Digit(x, w) + Digit(y, w)) % 2

\* x ^ y, written down digit by digit.
DigitSum(x, y) ==
  SumDigit(x, y, 1) + 2 * SumDigit(x, y, 2) + 4 * SumDigit(x, y, 4)
    + 8 * SumDigit(x, y, 8) + 16 * SumDigit(x, y, 16) + 32 * SumDigit(x, y, 32)
    + 64 * SumDigit(x, y, 64) + 128 * SumDigit(x, y, 128)

Weights == {1, 2, 4, 8, 16, 32, 64, 128}

\* The digits of a digitwise sum.
LEMMA SumDigits ==
  ASSUME NEW x \in Byte, NEW y \in Byte
  PROVE  /\ DigitSum(x, y) \in Byte
         /\ \A w \in Weights : Digit(DigitSum(x, y), w) = SumDigit(x, y, w)
<1>1. \A w \in Weights : SumDigit(x, y, w) \in {0, 1}
  BY Digits DEF SumDigit, Weights
<1> QED
  BY <1>1, DigitsOf DEF DigitSum, Weights

\* A digitwise sum, from that of the halves: the recursion of XOR.
LEMMA SumHalves ==
  ASSUME NEW x \in Byte, NEW y \in Byte
  PROVE  DigitSum(x, y) = IF x = 0 THEN y
                          ELSE 2 * DigitSum(x \div 2, y \div 2) + ((x + y) % 2)
<1> DEFINE u == x \div 2
           v == y \div 2
<1>1. u \in Byte /\ v \in Byte
  BY HalfByte
<1>2. /\ Digit(u, 1) = Digit(x, 2) /\ Digit(u, 2) = Digit(x, 4)
      /\ Digit(u, 4) = Digit(x, 8) /\ Digit(u, 8) = Digit(x, 16)
      /\ Digit(u, 16) = Digit(x, 32) /\ Digit(u, 32) = Digit(x, 64)
      /\ Digit(u, 64) = Digit(x, 128) /\ Digit(u, 128) = 0
  BY HalfByte DEF Digit
<1>3. /\ Digit(v, 1) = Digit(y, 2) /\ Digit(v, 2) = Digit(y, 4)
      /\ Digit(v, 4) = Digit(y, 8) /\ Digit(v, 8) = Digit(y, 16)
      /\ Digit(v, 16) = Digit(y, 32) /\ Digit(v, 32) = Digit(y, 64)
      /\ Digit(v, 64) = Digit(y, 128) /\ Digit(v, 128) = 0
  BY HalfByte DEF Digit
<1>4. (x + y) % 2 = SumDigit(x, y, 1)
  BY DEF SumDigit, Digit, Byte
<1>5. CASE x = 0
  <2>1. \A w \in Weights : SumDigit(x, y, w) = Digit(y, w)
    <3>1. \A w \in Weights : Digit(x, w) = 0
      BY <1>5 DEF Digit, Weights
    <3>2. \A w \in Weights : Digit(y, w) \in {0, 1}
      BY Digits DEF Weights
    <3> QED
      BY <3>1, <3>2 DEF SumDigit
  <2> QED
    BY <1>5, <2>1, Digits DEF DigitSum, Weights
<1>6. CASE x # 0
  <2> DEFINE s(w) == SumDigit(x, y, w)
  <2>1. /\ SumDigit(u, v, 1) = s(2) /\ SumDigit(u, v, 2) = s(4)
        /\ SumDigit(u, v, 4) = s(8) /\ SumDigit(u, v, 8) = s(16)
        /\ SumDigit(u, v, 16) = s(32) /\ SumDigit(u, v, 32) = s(64)
        /\ SumDigit(u, v, 64) = s(128) /\ SumDigit(u, v, 128) = 0
    BY <1>2, <1>3 DEF SumDigit
  <2>2. \A w \in Weights : s(w) \in {0, 1}
    BY Digits DEF SumDigit, Weights
  <2>3. DigitSum(u, v) = s(2) + 2 * s(4) + 4 * s(8) + 8 * s(16) + 16 * s(32)
                         + 32 * s(64) + 64 * s(128)
    <3> HIDE DEF s
    <3> QED BY <2>1, <2>2 DEF DigitSum, Weights
  <2>4. DigitSum(x, y) = s(1) + 2 * s(2) + 4 * s(4) + 8 * s(8) + 16 * s(16)
                         + 32 * s(32) + 64 * s(64) + 128 * s(128)
    BY DEF DigitSum
  <2>5. (x + y) % 2 = s(1)
    BY <1>4
  <2> HIDE DEF s, u, v
  <2>6. 2 * DigitSum(u, v) + s(1) = DigitSum(x, y)
    BY <2>2, <2>3, <2>4 DEF Weights
  <2> QED
    BY <1>6, <2>5, <2>6 DEF u, v
<1> QED
  BY <1>5, <1>6

\* The recursion of XOR.
XorOn(f) ==
  f = [pair \in Byte \X Byte |->
         IF pair[1] = 0 THEN pair[2]
         ELSE 2 * f[<<pair[1] \div 2, pair[2] \div 2>>] + ((pair[1] + pair[2]) % 2)]

\* A function satisfies the recursion of XOR.
LEMMA XorExists == \E f : XorOn(f)
<1> DEFINE f == [pair \in Byte \X Byte |-> DigitSum(pair[1], pair[2])]
<1>1. ASSUME NEW pair \in Byte \X Byte
      PROVE  f[pair] = IF pair[1] = 0 THEN pair[2]
                       ELSE 2 * f[<<pair[1] \div 2, pair[2] \div 2>>]
                              + ((pair[1] + pair[2]) % 2)
  <2>1. pair[1] \in Byte /\ pair[2] \in Byte
    OBVIOUS
  <2>2. pair[1] \div 2 \in Byte /\ pair[2] \div 2 \in Byte
    BY <2>1, HalfByte
  <2>3. f[<<pair[1] \div 2, pair[2] \div 2>>] =
          DigitSum(pair[1] \div 2, pair[2] \div 2)
    BY <2>2
  <2> QED
    BY <2>1, <2>3, SumHalves
<1>2. f = [pair \in Byte \X Byte |-> f[pair]]
  OBVIOUS
<1> HIDE DEF f
<1>3. XorOn(f)
  BY <1>1, <1>2 DEF XorOn
<1> QED
  BY <1>3

\* Only the digitwise sum satisfies it.
LEMMA XorAgree ==
  ASSUME NEW f, XorOn(f), NEW x \in Byte, NEW y \in Byte
  PROVE  f[<<x, y>>] = DigitSum(x, y)
<1> DEFINE Upto(n) == \A a, b \in Byte : a < n => f[<<a, b>>] = DigitSum(a, b)
<1>1. ASSUME NEW a \in Byte, NEW b \in Byte
      PROVE  f[<<a, b>>] = IF a = 0 THEN b
                           ELSE 2 * f[<<a \div 2, b \div 2>>] + ((a + b) % 2)
  <2>1. <<a, b>> \in Byte \X Byte /\ <<a, b>>[1] = a /\ <<a, b>>[2] = b
    OBVIOUS
  <2> QED
    BY <2>1 DEF XorOn
<1>2. Upto(1)
  <2> SUFFICES ASSUME NEW a \in Byte, NEW b \in Byte, a < 1
               PROVE  f[<<a, b>>] = DigitSum(a, b)
    OBVIOUS
  <2>1. a = 0
    BY DEF Byte
  <2> QED
    BY <2>1, <1>1, SumHalves
<1>3. ASSUME NEW n \in Nat, Upto(n) PROVE Upto(2 * n)
  <2> SUFFICES ASSUME NEW a \in Byte, NEW b \in Byte, a < 2 * n
               PROVE  f[<<a, b>>] = DigitSum(a, b)
    OBVIOUS
  <2>1. a \div 2 \in Byte /\ b \div 2 \in Byte /\ a \div 2 < n
    <3>1. a \in Nat
      BY DEF Byte
    <3> QED
      BY <3>1, HalfByte
  <2>2. f[<<a \div 2, b \div 2>>] = DigitSum(a \div 2, b \div 2)
    BY <1>3, <2>1
  <2> QED
    BY <1>1, <2>2, SumHalves
<1> HIDE DEF Upto
<1>4. Upto(2 * 1) /\ 2 * 1 = 2
  BY <1>2, <1>3
<1>5. Upto(2 * 2) /\ 2 * 2 = 4
  BY <1>4, <1>3
<1>6. Upto(2 * 4) /\ 2 * 4 = 8
  BY <1>5, <1>3
<1>7. Upto(2 * 8) /\ 2 * 8 = 16
  BY <1>6, <1>3
<1>8. Upto(2 * 16) /\ 2 * 16 = 32
  BY <1>7, <1>3
<1>9. Upto(2 * 32) /\ 2 * 32 = 64
  BY <1>8, <1>3
<1>10. Upto(2 * 64) /\ 2 * 64 = 128
  BY <1>9, <1>3
<1>11. Upto(2 * 128) /\ 2 * 128 = 256
  BY <1>10, <1>3
<1>12. x < 256
  BY DEF Byte
<1> QED
  BY <1>11, <1>12 DEF Upto

\* So XOR is the digitwise sum.
LEMMA XorIs ==
  ASSUME NEW x \in Byte, NEW y \in Byte
  PROVE  XOR[x][y] = DigitSum(x, y)
<1> DEFINE f == CHOOSE f : f = [pair \in Byte \X Byte |->
         IF pair[1] = 0 THEN pair[2]
         ELSE 2 * f[<<pair[1] \div 2, pair[2] \div 2>>] + ((pair[1] + pair[2]) % 2)]
<1>1. XOR[x][y] = f[<<x, y>>]
  BY DEF XOR
<1>2. XorOn(f)
  BY XorExists DEF XorOn
<1> HIDE DEF f
<1> QED
  BY <1>1, <1>2, XorAgree

Xor(x, y) == XOR[x][y]

\* x ^ y is a byte.
LEMMA XorByte ==
  \A x, y \in Byte : Xor(x, y) \in Byte
  BY XorIs, SumDigits DEF Xor

\* A bit of x ^ y is set where the bits of x and y differ.
LEMMA XorBit ==
  ASSUME NEW x \in Byte, NEW y \in Byte, NEW w \in Weights
  PROVE  Bit(Xor(x, y), w) <=> (Bit(x, w) <=> ~ Bit(y, w))
<1>1. Digit(Xor(x, y), w) = SumDigit(x, y, w)
  BY XorIs, SumDigits DEF Xor
<1>2. Digit(x, w) \in {0, 1} /\ Digit(y, w) \in {0, 1}
  BY Digits DEF Weights
<1> QED
  BY <1>1, <1>2 DEF Bit, SumDigit

-----------------------------------------------------------------------------
(***************************************************************************)
(* A word as the set of its bits, as in the definition of BLAKE3.          *)
(***************************************************************************)
Word == Byte \X Byte \X Byte \X Byte
Bits(w) == Definition!Bits(w)

\* 2^k, for a bit of a byte.
Weight(k) == <<1, 2, 4, 8, 16, 32, 64, 128>>[k + 1]

\* The weights are the powers of two.
LEMMA WeightIs ==
  ASSUME NEW k \in 0..7
  PROVE  2 ^ k = Weight(k) /\ Weight(k) \in Weights
<1>1. /\ 2 ^ 0 = 1 /\ 2 ^ 1 = 2 /\ 2 ^ 2 = 4 /\ 2 ^ 3 = 8 /\ 2 ^ 4 = 16
      /\ 2 ^ 5 = 32 /\ 2 ^ 6 = 64 /\ 2 ^ 7 = 128
  OBVIOUS
<1>2. k = 0 \/ k = 1 \/ k = 2 \/ k = 3 \/ k = 4 \/ k = 5 \/ k = 6 \/ k = 7
  OBVIOUS
<1>3. /\ Weight(0) = 1 /\ Weight(1) = 2 /\ Weight(2) = 4 /\ Weight(3) = 8
      /\ Weight(4) = 16 /\ Weight(5) = 32 /\ Weight(6) = 64 /\ Weight(7) = 128
  BY DEF Weight
<1>4. 2 ^ k = Weight(k)
  <2>1. CASE k = 0
    BY <1>1, <1>3, <2>1, Zenon
  <2>2. CASE k = 1
    BY <1>1, <1>3, <2>2, Zenon
  <2>3. CASE k = 2
    BY <1>1, <1>3, <2>3, Zenon
  <2>4. CASE k = 3
    BY <1>1, <1>3, <2>4, Zenon
  <2>5. CASE k = 4
    BY <1>1, <1>3, <2>5, Zenon
  <2>6. CASE k = 5
    BY <1>1, <1>3, <2>6, Zenon
  <2>7. CASE k = 6
    BY <1>1, <1>3, <2>7, Zenon
  <2>8. CASE k = 7
    BY <1>1, <1>3, <2>8, Zenon
  <2> QED
    BY <1>2, <2>1, <2>2, <2>3, <2>4, <2>5, <2>6, <2>7, <2>8
<1>5. Weight(k) \in Weights
  BY <1>2, <1>3 DEF Weights
<1> QED
  BY <1>4, <1>5

\* The four bytes of a word.
LEMMA WordParts ==
  ASSUME NEW w \in Word
  PROVE  /\ w = <<w[1], w[2], w[3], w[4]>>
         /\ w[1] \in Byte /\ w[2] \in Byte /\ w[3] \in Byte /\ w[4] \in Byte
         /\ \A j \in 1..4 : w[j] \in Byte
  BY DEF Word

\* Bit k of byte j.
LEMMA BitsAre ==
  ASSUME NEW w, NEW j \in 0..3, NEW k \in 0..7
  PROVE  8 * j + k \in Bits(w) <=> Bit(w[j + 1], Weight(k))
<1> DEFINE i == 8 * j + k
<1>1. i \in 0..31 /\ i \div 8 = j /\ i % 8 = k
  OBVIOUS
<1> HIDE DEF i
<1>2. 1 + (i \div 8) = j + 1 /\ 2 ^ (i % 8) = Weight(k)
  <2>1. 1 + j = j + 1
    OBVIOUS
  <2>2. 2 ^ k = Weight(k)
    BY WeightIs, Zenon
  <2> QED
    BY <1>1, <2>1, <2>2, Zenon
<1>3. i \in Bits(w) <=> (w[j + 1] \div Weight(k)) % 2 = 1
  BY <1>1, <1>2 DEF Bits, Definition!Bits, Definition!Positions
<1> QED
  BY <1>3 DEF Bit, Digit, i

\* The bits of a word have places.
LEMMA BitsInPlaces == ASSUME NEW w PROVE Bits(w) \subseteq 0..31
  BY DEF Bits, Definition!Bits, Definition!Positions

\* Every position is that of a bit of a byte.
LEMMA PlaceIs ==
  ASSUME NEW p \in 0..31
  PROVE  \E j \in 0..3, k \in 0..7 : p = 8 * j + k
<1>1. p \div 8 \in 0..3 /\ p % 8 \in 0..7 /\ p = 8 * (p \div 8) + (p % 8)
  OBVIOUS
<1> DEFINE j == p \div 8
           k == p % 8
<1> HIDE DEF j, k
<1>2. j \in 0..3 /\ k \in 0..7 /\ p = 8 * j + k
  BY <1>1 DEF j, k
<1> QED
  BY <1>2

\* The bits tell a set of positions.
LEMMA BitsEqual ==
  ASSUME NEW w, NEW T, T \subseteq 0..31,
         \A j \in 0..3, k \in 0..7 : Bit(w[j + 1], Weight(k)) <=> 8 * j + k \in T
  PROVE  Bits(w) = T
<1>1. \A p \in 0..31 : p \in Bits(w) <=> p \in T
  BY PlaceIs, BitsAre
<1> HIDE DEF Bits
<1> QED
  BY <1>1, BitsInPlaces

\* v ^ w
LEMMA BitsXor ==
  ASSUME NEW v \in Word, NEW w \in Word
  PROVE  /\ xorw(v, w) \in Word
         /\ Bits(xorw(v, w)) = Definition!Either(Bits(v), Bits(w))
<1> DEFINE x == xorw(v, w)
           T == Definition!Either(Bits(v), Bits(w))
<1>1. \A j \in 1..4 : x[j] = Xor(v[j], w[j])
  BY DEF xorw, Xor
<1>2. \A j \in 1..4 : v[j] \in Byte /\ w[j] \in Byte
  BY WordParts
<1>3. x = <<x[1], x[2], x[3], x[4]>>
  BY DEF xorw
<1> HIDE DEF x
<1>4. \A j \in 1..4 : x[j] \in Byte
  BY <1>1, <1>2, XorByte
<1>5. x \in Word
  BY <1>3, <1>4 DEF Word
<1>6. ASSUME NEW j \in 0..3, NEW k \in 0..7
      PROVE  Bit(x[j + 1], Weight(k)) <=> 8 * j + k \in T
  <2>1. j + 1 \in 1..4 /\ Weight(k) \in Weights
    BY WeightIs
  <2>2. Bit(x[j + 1], Weight(k)) <=>
          (Bit(v[j + 1], Weight(k)) <=> ~ Bit(w[j + 1], Weight(k)))
    BY <1>1, <1>2, <2>1, XorBit
  <2>3. 8 * j + k \in T <=> (8 * j + k \in Bits(v) <=> ~ (8 * j + k \in Bits(w)))
    BY DEF Definition!Either
  <2> QED
    BY <2>2, <2>3, BitsAre
<1>7. T \subseteq 0..31
  BY BitsInPlaces DEF Definition!Either
<1> HIDE DEF T
<1>8. Bits(x) = T
  BY <1>6, <1>7, BitsEqual
<1> QED
  BY <1>5, <1>8 DEF x, T

-----------------------------------------------------------------------------
(***************************************************************************)
(* Addition.                                                               *)
(***************************************************************************)
\* The carries between the bits of two bytes that are added.
Ripples(x, y, c) ==
  /\ \A k \in 0..8 : c[k] \in {0, 1}
  /\ \A k \in 0..7 :
       c[k + 1] = (Digit(x, Weight(k)) + Digit(y, Weight(k)) + c[k]) \div 2

\* A bit of the sum, and what is carried.
LEMMA BitAdds ==
  ASSUME NEW d \in {0, 1}, NEW e \in {0, 1}, NEW c \in {0, 1}
  PROVE  /\ (d + e + c) % 2 \in {0, 1}
         /\ (d + e + c) \div 2 \in {0, 1}
         /\ d + e + c = ((d + e + c) % 2) + 2 * ((d + e + c) \div 2)
<1>1. d + e + c \in 0..3
  OBVIOUS
<1> QED
  BY <1>1

\* Adding two bytes and a carry.
LEMMA ByteAdds ==
  ASSUME NEW x \in Byte, NEW y \in Byte, NEW c, Ripples(x, y, c)
  PROVE  LET z == (x + y + c[0]) % 256
         IN  /\ z \in Byte /\ (x + y + c[0]) \div 256 = c[8]
             /\ \A k \in 0..7 :
                  Digit(z, Weight(k))
                    = (Digit(x, Weight(k)) + Digit(y, Weight(k)) + c[k]) % 2
<1> DEFINE dx(k) == Digit(x, Weight(k))
           dy(k) == Digit(y, Weight(k))
           s(k) == (dx(k) + dy(k) + c[k]) % 2
           t == s(0) + 2 * s(1) + 4 * s(2) + 8 * s(3) + 16 * s(4) + 32 * s(5)
                  + 64 * s(6) + 128 * s(7)
<1>1. ASSUME NEW k \in 0..7
      PROVE  /\ dx(k) \in {0, 1} /\ dy(k) \in {0, 1} /\ s(k) \in {0, 1}
             /\ c[k] \in {0, 1} /\ c[k + 1] \in {0, 1}
             /\ dx(k) + dy(k) + c[k] = s(k) + 2 * c[k + 1]
  <2>1. dx(k) \in {0, 1} /\ dy(k) \in {0, 1}
    BY WeightIs, Digits DEF Weights
  <2>2. c[k] \in {0, 1} /\ c[k + 1] \in {0, 1}
        /\ c[k + 1] = (dx(k) + dy(k) + c[k]) \div 2
    <3>1. k \in 0..8 /\ k + 1 \in 0..8
      OBVIOUS
    <3> QED
      BY <3>1 DEF Ripples
  <2> DEFINE a == dx(k)
             b == dy(k)
             e == c[k]
  <2> HIDE DEF a, b, e
  <2>3. (a + b + e) % 2 \in {0, 1} /\ a + b + e = ((a + b + e) % 2) + 2 * ((a + b + e) \div 2)
    BY <2>1, <2>2, BitAdds DEF a, b, e
  <2> QED
    BY <2>1, <2>2, <2>3 DEF a, b, e
<1>2. x = dx(0) + 2 * dx(1) + 4 * dx(2) + 8 * dx(3) + 16 * dx(4) + 32 * dx(5)
            + 64 * dx(6) + 128 * dx(7)
  BY Digits DEF Weight
<1>3. y = dy(0) + 2 * dy(1) + 4 * dy(2) + 8 * dy(3) + 16 * dy(4) + 32 * dy(5)
            + 64 * dy(6) + 128 * dy(7)
  BY Digits DEF Weight
<1>4. /\ Weight(0) = 1 /\ Weight(1) = 2 /\ Weight(2) = 4 /\ Weight(3) = 8
      /\ Weight(4) = 16 /\ Weight(5) = 32 /\ Weight(6) = 64 /\ Weight(7) = 128
  BY DEF Weight
<1> HIDE DEF dx, dy, s
<1>5. \A k \in 0..7 : s(k) \in {0, 1}
  BY <1>1
<1>6. /\ t \in Byte /\ Digit(t, 1) = s(0) /\ Digit(t, 2) = s(1) /\ Digit(t, 4) = s(2)
      /\ Digit(t, 8) = s(3) /\ Digit(t, 16) = s(4) /\ Digit(t, 32) = s(5)
      /\ Digit(t, 64) = s(6) /\ Digit(t, 128) = s(7)
  <2>1. /\ s(0) \in {0, 1} /\ s(1) \in {0, 1} /\ s(2) \in {0, 1} /\ s(3) \in {0, 1}
        /\ s(4) \in {0, 1} /\ s(5) \in {0, 1} /\ s(6) \in {0, 1} /\ s(7) \in {0, 1}
    BY <1>5
  <2> QED
    BY <2>1, DigitsOf
<1>7. /\ dx(0) + dy(0) + c[0] = s(0) + 2 * c[1] /\ dx(1) + dy(1) + c[1] = s(1) + 2 * c[2]
      /\ dx(2) + dy(2) + c[2] = s(2) + 2 * c[3] /\ dx(3) + dy(3) + c[3] = s(3) + 2 * c[4]
      /\ dx(4) + dy(4) + c[4] = s(4) + 2 * c[5] /\ dx(5) + dy(5) + c[5] = s(5) + 2 * c[6]
      /\ dx(6) + dy(6) + c[6] = s(6) + 2 * c[7] /\ dx(7) + dy(7) + c[7] = s(7) + 2 * c[8]
  <2>1. /\ 0 + 1 = 1 /\ 1 + 1 = 2 /\ 2 + 1 = 3 /\ 3 + 1 = 4
        /\ 4 + 1 = 5 /\ 5 + 1 = 6 /\ 6 + 1 = 7 /\ 7 + 1 = 8
    OBVIOUS
  <2>2. \A k \in 0..7 : dx(k) + dy(k) + c[k] = s(k) + 2 * c[k + 1]
    BY <1>1
  <2> QED
    BY <2>1, <2>2
<1>8. x + y + c[0] = t + 256 * c[8]
  <2>1. \A k \in 0..7 : dx(k) \in Int /\ dy(k) \in Int /\ s(k) \in Int /\ c[k] \in Int /\ c[k + 1] \in Int
    BY <1>1
  <2>2. /\ c[0] \in Int /\ c[1] \in Int /\ c[2] \in Int /\ c[3] \in Int /\ c[4] \in Int
        /\ c[5] \in Int /\ c[6] \in Int /\ c[7] \in Int /\ c[8] \in Int
    <3>1. 7 + 1 = 8
      OBVIOUS
    <3> QED
      BY <2>1, <3>1
  <2>3. /\ dx(0) \in Int /\ dx(1) \in Int /\ dx(2) \in Int /\ dx(3) \in Int
        /\ dx(4) \in Int /\ dx(5) \in Int /\ dx(6) \in Int /\ dx(7) \in Int
        /\ dy(0) \in Int /\ dy(1) \in Int /\ dy(2) \in Int /\ dy(3) \in Int
        /\ dy(4) \in Int /\ dy(5) \in Int /\ dy(6) \in Int /\ dy(7) \in Int
        /\ s(0) \in Int /\ s(1) \in Int /\ s(2) \in Int /\ s(3) \in Int
        /\ s(4) \in Int /\ s(5) \in Int /\ s(6) \in Int /\ s(7) \in Int
    BY <2>1
  <2> DEFINE a0 == dx(0)
             a1 == dx(1)
             a2 == dx(2)
             a3 == dx(3)
             a4 == dx(4)
             a5 == dx(5)
             a6 == dx(6)
             a7 == dx(7)
             b0 == dy(0)
             b1 == dy(1)
             b2 == dy(2)
             b3 == dy(3)
             b4 == dy(4)
             b5 == dy(5)
             b6 == dy(6)
             b7 == dy(7)
             e0 == s(0)
             e1 == s(1)
             e2 == s(2)
             e3 == s(3)
             e4 == s(4)
             e5 == s(5)
             e6 == s(6)
             e7 == s(7)
             o0 == c[0]
             o1 == c[1]
             o2 == c[2]
             o3 == c[3]
             o4 == c[4]
             o5 == c[5]
             o6 == c[6]
             o7 == c[7]
             o8 == c[8]
  <2> HIDE DEF a0, a1, a2, a3, a4, a5, a6, a7,
               b0, b1, b2, b3, b4, b5, b6, b7,
               e0, e1, e2, e3, e4, e5, e6, e7,
               o0, o1, o2, o3, o4, o5, o6, o7,
               o8
  <2>4. /\ a0 \in Int /\ a1 \in Int /\ a2 \in Int /\ a3 \in Int /\ a4 \in Int
        /\ a5 \in Int /\ a6 \in Int /\ a7 \in Int /\ b0 \in Int /\ b1 \in Int
        /\ b2 \in Int /\ b3 \in Int /\ b4 \in Int /\ b5 \in Int /\ b6 \in Int
        /\ b7 \in Int /\ e0 \in Int /\ e1 \in Int /\ e2 \in Int /\ e3 \in Int
        /\ e4 \in Int /\ e5 \in Int /\ e6 \in Int /\ e7 \in Int /\ o0 \in Int
        /\ o1 \in Int /\ o2 \in Int /\ o3 \in Int /\ o4 \in Int /\ o5 \in Int
        /\ o6 \in Int /\ o7 \in Int /\ o8 \in Int
    BY <2>2, <2>3 DEF a0, a1, a2, a3, a4, a5, a6, a7,
           b0, b1, b2, b3, b4, b5, b6, b7,
           e0, e1, e2, e3, e4, e5, e6, e7,
           o0, o1, o2, o3, o4, o5, o6, o7,
           o8
  <2>5. /\ a0 + b0 + o0 = e0 + 2 * o1
        /\ a1 + b1 + o1 = e1 + 2 * o2
        /\ a2 + b2 + o2 = e2 + 2 * o3
        /\ a3 + b3 + o3 = e3 + 2 * o4
        /\ a4 + b4 + o4 = e4 + 2 * o5
        /\ a5 + b5 + o5 = e5 + 2 * o6
        /\ a6 + b6 + o6 = e6 + 2 * o7
        /\ a7 + b7 + o7 = e7 + 2 * o8
    BY <1>7 DEF a0, a1, a2, a3, a4, a5, a6, a7,
           b0, b1, b2, b3, b4, b5, b6, b7,
           e0, e1, e2, e3, e4, e5, e6, e7,
           o0, o1, o2, o3, o4, o5, o6, o7,
           o8
  <2>6. (a0 + 2 * a1 + 4 * a2 + 8 * a3) + (b0 + 2 * b1 + 4 * b2 + 8 * b3) + o0
        = (e0 + 2 * e1 + 4 * e2 + 8 * e3) + 16 * o4
    BY <2>4, <2>5
  <2>7. (a4 + 2 * a5 + 4 * a6 + 8 * a7) + (b4 + 2 * b5 + 4 * b6 + 8 * b7) + o4
        = (e4 + 2 * e5 + 4 * e6 + 8 * e7) + 16 * o8
    BY <2>4, <2>5
  <2>8. /\ x = (a0 + 2 * a1 + 4 * a2 + 8 * a3) + 16 * (a4 + 2 * a5 + 4 * a6 + 8 * a7)
        /\ y = (b0 + 2 * b1 + 4 * b2 + 8 * b3) + 16 * (b4 + 2 * b5 + 4 * b6 + 8 * b7)
        /\ t = (e0 + 2 * e1 + 4 * e2 + 8 * e3) + 16 * (e4 + 2 * e5 + 4 * e6 + 8 * e7)
    <3>1. /\ x = a0 + 2 * a1 + 4 * a2 + 8 * a3 + 16 * a4 + 32 * a5 + 64 * a6 + 128 * a7
          /\ y = b0 + 2 * b1 + 4 * b2 + 8 * b3 + 16 * b4 + 32 * b5 + 64 * b6 + 128 * b7
          /\ t = e0 + 2 * e1 + 4 * e2 + 8 * e3 + 16 * e4 + 32 * e5 + 64 * e6 + 128 * e7
      BY <1>2, <1>3 DEF a0, a1, a2, a3, a4, a5, a6, a7,
             b0, b1, b2, b3, b4, b5, b6, b7,
             e0, e1, e2, e3, e4, e5, e6, e7,
             o0, o1, o2, o3, o4, o5, o6, o7,
             o8
    <3> HIDE DEF t
    <3> QED
      BY <2>4, <3>1
  <2> HIDE DEF t
  <2>9. x + y + o0 = t + 256 * o8
    BY <2>4, <2>6, <2>7, <2>8
  <2> QED
    BY <2>9 DEF o0, o8
<1> HIDE DEF t
<1>9. c[8] \in {0, 1}
  <2>1. 7 + 1 = 8
    OBVIOUS
  <2> QED
    BY <1>1, <2>1
<1>10. (x + y + c[0]) % 256 = t /\ (x + y + c[0]) \div 256 = c[8]
  <2>1. t \in 0..255
    BY <1>6 DEF Byte
  <2> DEFINE o == c[8]
  <2>2. (t + 256 * o) % 256 = t /\ (t + 256 * o) \div 256 = o
    <3> HIDE DEF o
    <3> QED
      BY <1>9, <2>1 DEF o
  <2> QED
    BY <1>8, <2>2
<1>11. ASSUME NEW k \in 0..7 PROVE Digit(t, Weight(k)) = s(k)
  <2>1. k = 0 \/ k = 1 \/ k = 2 \/ k = 3 \/ k = 4 \/ k = 5 \/ k = 6 \/ k = 7
    OBVIOUS
  <2> QED
    BY <1>4, <1>6, <2>1
<1> QED
  BY <1>6, <1>10, <1>11 DEF s, dx, dy

\* What the bits below position i carry to it.
Carry(v, w, i) ==
  \E j \in 0..(i - 1) : /\ j \in v /\ j \in w
                        /\ \A k \in (j + 1)..(i - 1) : k \in v \/ k \in w

\* A carry comes from the place before, or passes through it.
LEMMA CarryStep ==
  ASSUME NEW v, NEW w
  PROVE  /\ ~ Carry(v, w, 0)
         /\ \A i \in Nat : Carry(v, w, i + 1) <=>
              \/ i \in v /\ i \in w
              \/ (i \in v \/ i \in w) /\ Carry(v, w, i)
<1>1. ~ Carry(v, w, 0)
  BY DEF Carry
<1>2. ASSUME NEW i \in Nat, Carry(v, w, i + 1)
      PROVE  \/ i \in v /\ i \in w
             \/ (i \in v \/ i \in w) /\ Carry(v, w, i)
  <2>1. PICK j \in 0..i : /\ j \in v /\ j \in w
                          /\ \A k \in (j + 1)..i : k \in v \/ k \in w
    <3>1. (i + 1) - 1 = i
      OBVIOUS
    <3> QED
      BY <1>2, <3>1 DEF Carry
  <2>2. CASE j = i
    BY <2>1, <2>2
  <2>3. CASE j # i
    <3>1. j \in 0..(i - 1) /\ i \in (j + 1)..i
      BY <2>1, <2>3
    <3>2. \A k \in (j + 1)..(i - 1) : k \in (j + 1)..i
      BY <3>1
    <3>3. Carry(v, w, i)
      BY <2>1, <3>1, <3>2 DEF Carry
    <3> QED
      BY <2>1, <3>1, <3>3
  <2> QED
    BY <2>2, <2>3
<1>3. ASSUME NEW i \in Nat, i \in v, i \in w PROVE Carry(v, w, i + 1)
  <2>1. i \in 0..((i + 1) - 1) /\ (i + 1)..((i + 1) - 1) = {}
    OBVIOUS
  <2> QED
    BY <1>3, <2>1 DEF Carry
<1>4. ASSUME NEW i \in Nat, i \in v \/ i \in w, Carry(v, w, i)
      PROVE  Carry(v, w, i + 1)
  <2>1. PICK j \in 0..(i - 1) : /\ j \in v /\ j \in w
                                /\ \A k \in (j + 1)..(i - 1) : k \in v \/ k \in w
    BY <1>4 DEF Carry
  <2>2. j \in 0..((i + 1) - 1)
    OBVIOUS
  <2>3. ASSUME NEW k \in (j + 1)..((i + 1) - 1) PROVE k \in v \/ k \in w
    <3>1. k = i \/ k \in (j + 1)..(i - 1)
      OBVIOUS
    <3> QED
      BY <1>4, <2>1, <3>1
  <2> QED
    BY <2>1, <2>2, <2>3 DEF Carry
<1> QED
  BY <1>1, <1>2, <1>3, <1>4

\* A bit of a sum of words: the two bits and the carry.
LEMMA SumIs ==
  ASSUME NEW v, NEW w
  PROVE  /\ Definition!Sum(v, w) \subseteq 0..31
         /\ \A i \in 0..31 :
              i \in Definition!Sum(v, w) <=>
                ((i \in v <=> ~ (i \in w)) <=> ~ Carry(v, w, i))
<1>1. Definition!Sum(v, w)
        = {i \in 0..31 : ((i \in v) # (i \in w)) # Carry(v, w, i)}
  BY DEF Definition!Sum, Definition!Positions, Carry
<1>2. ASSUME NEW i \in 0..31
      PROVE  (((i \in v) # (i \in w)) # Carry(v, w, i)) <=>
               ((i \in v <=> ~ (i \in w)) <=> ~ Carry(v, w, i))
  <2>1. Carry(v, w, i) \in BOOLEAN
    BY DEF Carry
  <2> QED
    BY <2>1
<1> QED
  BY <1>1, <1>2

\* v + w
LEMMA BitsAdd ==
  ASSUME NEW v \in Word, NEW w \in Word
  PROVE  /\ add(v, w) \in Word
         /\ Bits(add(v, w)) = Definition!Sum(Bits(v), Bits(w))
<1> DEFINE V == Bits(v)
           W == Bits(w)
           carried(i) == IF Carry(V, W, i) THEN 1 ELSE 0
           c(j) == [k \in 0..8 |-> carried(8 * j + k)]
           z(j) == (v[j + 1] + w[j + 1] + c(j)[0]) % 256
           T == Definition!Sum(V, W)
<1>1. \A j \in 0..3 : v[j + 1] \in Byte /\ w[j + 1] \in Byte
  <2>1. \A j \in 0..3 : j + 1 \in 1..4
    OBVIOUS
  <2> QED
    BY <2>1, WordParts
<1>2. ASSUME NEW j \in 0..3, NEW k \in 0..7
      PROVE  /\ 8 * j + k \in V <=> Digit(v[j + 1], Weight(k)) = 1
             /\ 8 * j + k \in W <=> Digit(w[j + 1], Weight(k)) = 1
             /\ Digit(v[j + 1], Weight(k)) \in {0, 1}
             /\ Digit(w[j + 1], Weight(k)) \in {0, 1}
  <2>1. Digit(v[j + 1], Weight(k)) \in {0, 1} /\ Digit(w[j + 1], Weight(k)) \in {0, 1}
    BY <1>1, WeightIs, Digits DEF Weights
  <2> QED
    BY <2>1, BitsAre DEF Bit
<1>3. ASSUME NEW i \in Nat
      PROVE  /\ carried(i) \in {0, 1} /\ (carried(i) = 1 <=> Carry(V, W, i))
             /\ (carried(i + 1) = 1 <=> \/ i \in V /\ i \in W
                                        \/ (i \in V \/ i \in W) /\ carried(i) = 1)
  <2> HIDE DEF V, W
  <2>1. Carry(V, W, i + 1) <=> \/ i \in V /\ i \in W
                               \/ (i \in V \/ i \in W) /\ Carry(V, W, i)
    BY CarryStep
  <2> QED
    BY <2>1
<1>4. carried(0) = 0
  <2> HIDE DEF V, W
  <2> QED
    BY CarryStep
<1> HIDE DEF V, W, carried
<1>5. ASSUME NEW j \in 0..3, NEW k \in 0..8
      PROVE  c(j)[k] = carried(8 * j + k) /\ c(j)[k] \in {0, 1}
  <2>1. 8 * j + k \in Nat
    OBVIOUS
  <2> QED
    BY <1>3, <2>1
<1> HIDE DEF c
<1>6. ASSUME NEW j \in 0..3
      PROVE  Ripples(v[j + 1], w[j + 1], c(j))
  <2>1. ASSUME NEW k \in 0..7
        PROVE  c(j)[k + 1] = (Digit(v[j + 1], Weight(k)) + Digit(w[j + 1], Weight(k))
                                + c(j)[k]) \div 2
    <3> DEFINE i == 8 * j + k
               d == Digit(v[j + 1], Weight(k))
               e == Digit(w[j + 1], Weight(k))
               o == carried(i)
               p == carried(i + 1)
    <3>1. i \in Nat /\ k \in 0..8 /\ k + 1 \in 0..8 /\ 8 * j + (k + 1) = i + 1 /\ i + 1 \in Nat
      OBVIOUS
    <3>2. c(j)[k] = o /\ c(j)[k + 1] = p
      BY <1>5, <3>1
    <3>3. (i \in V <=> d = 1) /\ (i \in W <=> e = 1) /\ d \in {0, 1} /\ e \in {0, 1}
      BY <1>2
    <3> HIDE DEF i
    <3>4. /\ o \in {0, 1} /\ p \in {0, 1}
          /\ (p = 1 <=> \/ i \in V /\ i \in W
                        \/ (i \in V \/ i \in W) /\ o = 1)
      BY <1>3, <3>1
    <3> HIDE DEF d, e, o, p
    <3>5. p = (d + e + o) \div 2
      BY <3>3, <3>4
    <3> QED
      BY <3>2, <3>5 DEF d, e
  <2> QED
    BY <1>5, <2>1 DEF Ripples
<1>7. ASSUME NEW j \in 0..3
      PROVE  /\ z(j) \in Byte
             /\ (v[j + 1] + w[j + 1] + c(j)[0]) \div 256 = c(j)[8]
             /\ \A k \in 0..7 :
                  Digit(z(j), Weight(k))
                    = (Digit(v[j + 1], Weight(k)) + Digit(w[j + 1], Weight(k)) + c(j)[k]) % 2
  BY <1>1, <1>6, ByteAdds
<1>8. /\ c(0)[0] = 0 /\ c(1)[0] = c(0)[8] /\ c(2)[0] = c(1)[8] /\ c(3)[0] = c(2)[8]
  <2>1. /\ c(0)[0] = carried(8 * 0 + 0)
        /\ c(1)[0] = carried(8 * 1 + 0) /\ c(0)[8] = carried(8 * 0 + 8)
        /\ c(2)[0] = carried(8 * 2 + 0) /\ c(1)[8] = carried(8 * 1 + 8)
        /\ c(3)[0] = carried(8 * 3 + 0) /\ c(2)[8] = carried(8 * 2 + 8)
    BY <1>5
  <2>2. /\ 8 * 0 + 0 = 0 /\ 8 * 1 + 0 = 8 /\ 8 * 0 + 8 = 8 /\ 8 * 2 + 0 = 16
        /\ 8 * 1 + 8 = 16 /\ 8 * 3 + 0 = 24 /\ 8 * 2 + 8 = 24
    OBVIOUS
  <2> QED
    BY <1>4, <2>1, <2>2
<1>9. add(v, w) = <<z(0), z(1), z(2), z(3)>>
  <2>1. v[1] + w[1] = v[1] + w[1] + c(0)[0]
    <3>1. v[1] \in Byte /\ w[1] \in Byte
      BY WordParts
    <3>2. v[1] \in Int /\ w[1] \in Int
      BY <3>1 DEF Byte
    <3>3. \A o : o = 0 => v[1] + w[1] = v[1] + w[1] + o
      BY <3>2
    <3> QED
      BY <1>8, <3>3
  <2>2. /\ (v[1] + w[1] + c(0)[0]) \div 256 = c(1)[0]
        /\ (v[2] + w[2] + c(1)[0]) \div 256 = c(2)[0]
        /\ (v[3] + w[3] + c(2)[0]) \div 256 = c(3)[0]
    <3>1. 0 + 1 = 1 /\ 1 + 1 = 2 /\ 2 + 1 = 3
      OBVIOUS
    <3>2. /\ (v[0 + 1] + w[0 + 1] + c(0)[0]) \div 256 = c(0)[8]
          /\ (v[1 + 1] + w[1 + 1] + c(1)[0]) \div 256 = c(1)[8]
          /\ (v[2 + 1] + w[2 + 1] + c(2)[0]) \div 256 = c(2)[8]
      BY <1>7
    <3> QED
      BY <1>8, <3>1, <3>2
  <2>3. /\ z(0) = (v[1] + w[1] + c(0)[0]) % 256 /\ z(1) = (v[2] + w[2] + c(1)[0]) % 256
        /\ z(2) = (v[3] + w[3] + c(2)[0]) % 256 /\ z(3) = (v[4] + w[4] + c(3)[0]) % 256
    <3>1. 0 + 1 = 1 /\ 1 + 1 = 2 /\ 2 + 1 = 3 /\ 3 + 1 = 4
      OBVIOUS
    <3> QED
      BY <3>1
  <2> HIDE DEF z
  <2> DEFINE s1 == v[1] + w[1]
             s2 == v[2] + w[2] + (s1 \div 256)
             s3 == v[3] + w[3] + (s2 \div 256)
             s4 == v[4] + w[4] + (s3 \div 256)
  <2>4. add(v, w) = <<s1 % 256, s2 % 256, s3 % 256, s4 % 256>>
    BY DEF add
  <2>5. s1 = v[1] + w[1] + c(0)[0]
    BY <2>1
  <2>6. s2 = v[2] + w[2] + c(1)[0]
    BY <2>2, <2>5
  <2> HIDE DEF s1
  <2>7. s3 = v[3] + w[3] + c(2)[0]
    BY <2>2, <2>6
  <2> HIDE DEF s2
  <2>8. s4 = v[4] + w[4] + c(3)[0]
    BY <2>2, <2>7
  <2> HIDE DEF s3, s4
  <2> QED
    BY <2>3, <2>4, <2>5, <2>6, <2>7, <2>8
<1>10. add(v, w) \in Word
  BY <1>7, <1>9 DEF Word
<1>11. ASSUME NEW j \in 0..3 PROVE add(v, w)[j + 1] = z(j)
  <2>1. j = 0 \/ j = 1 \/ j = 2 \/ j = 3
    OBVIOUS
  <2>2. 0 + 1 = 1 /\ 1 + 1 = 2 /\ 2 + 1 = 3 /\ 3 + 1 = 4
    OBVIOUS
  <2> HIDE DEF z
  <2> QED
    BY <1>9, <2>1, <2>2
<1> HIDE DEF z, T
<1>12. ASSUME NEW j \in 0..3, NEW k \in 0..7
       PROVE  Bit(add(v, w)[j + 1], Weight(k)) <=> 8 * j + k \in T
  <2> DEFINE i == 8 * j + k
             d == Digit(v[j + 1], Weight(k))
             e == Digit(w[j + 1], Weight(k))
             o == c(j)[k]
  <2>1. i \in 0..31 /\ i \in Nat /\ k \in 0..8
    OBVIOUS
  <2>2. (i \in V <=> d = 1) /\ (i \in W <=> e = 1) /\ d \in {0, 1} /\ e \in {0, 1}
    BY <1>2
  <2>3. Digit(add(v, w)[j + 1], Weight(k)) = (d + e + o) % 2
    BY <1>7, <1>11
  <2>4. o \in {0, 1} /\ o = carried(i)
    BY <1>5, <2>1
  <2> HIDE DEF i
  <2>5. o = 1 <=> Carry(V, W, i)
    BY <1>3, <2>1, <2>4
  <2>6. i \in T <=> ((i \in V <=> ~ (i \in W)) <=> ~ Carry(V, W, i))
    BY <2>1, SumIs DEF T
  <2> HIDE DEF d, e, o
  <2>7. (d + e + o) % 2 = 1 <=> ((d = 1 <=> ~ (e = 1)) <=> ~ (o = 1))
    BY <2>2, <2>4
  <2> QED
    BY <2>2, <2>3, <2>5, <2>6, <2>7 DEF Bit, i
<1>13. T \subseteq 0..31
  BY SumIs DEF T
<1>14. Bits(add(v, w)) = T
  BY <1>12, <1>13, BitsEqual
<1> QED
  BY <1>10, <1>14 DEF T, V, W

-----------------------------------------------------------------------------
(***************************************************************************)
(* Rotation.                                                               *)
(***************************************************************************)
\* A bit of a rotated word is the bit n places further.
LEMMA RotatedIs ==
  ASSUME NEW T, T \subseteq 0..31, NEW n \in 1..31
  PROVE  /\ Definition!Rotated(T, n) \subseteq 0..31
         /\ \A p \in 0..31 : p \in Definition!Rotated(T, n) <=> (p + n) % 32 \in T
<1>1. Definition!Rotated(T, n) = {(i + 32 - n) % 32 : i \in T}
  BY DEF Definition!Rotated
<1>2. \A i \in 0..31 : (i + 32 - n) % 32 \in 0..31 /\ (((i + 32 - n) % 32) + n) % 32 = i
  OBVIOUS
<1>3. \A p \in 0..31 : (p + n) % 32 \in 0..31 /\ (((p + n) % 32) + 32 - n) % 32 = p
  OBVIOUS
<1>4. ASSUME NEW p \in 0..31
      PROVE  p \in Definition!Rotated(T, n) <=> (p + n) % 32 \in T
  <2>1. ASSUME p \in Definition!Rotated(T, n) PROVE (p + n) % 32 \in T
    <3>1. PICK i \in T : p = (i + 32 - n) % 32
      BY <1>1, <2>1
    <3> QED
      BY <1>2, <3>1
  <2>2. ASSUME (p + n) % 32 \in T PROVE p \in Definition!Rotated(T, n)
    BY <1>1, <1>3, <2>2
  <2> QED
    BY <2>1, <2>2
<1> QED
  BY <1>1, <1>2, <1>4

\* Byte j of a rotated word, from the two bytes it is taken from.
Turned(x, y, r) == (x \div 2 ^ r) + ((y * 2 ^ (8 - r)) % 256)

\* A byte of a word rotated by 4 bits, and 8k more, from two neighbours.
LEMMA TurnedBy4 ==
  ASSUME NEW x \in Byte, NEW y \in Byte
  PROVE  /\ Turned(x, y, 4) \in Byte
         /\ \A k \in 0..3 : Digit(Turned(x, y, 4), Weight(k)) = Digit(x, Weight(k + 4))
         /\ \A k \in 4..7 : Digit(Turned(x, y, 4), Weight(k)) = Digit(y, Weight(k - 4))
<1> DEFINE dx(w) == Digit(x, w)
           dy(w) == Digit(y, w)
           z == Turned(x, y, 4)
<1>1. \A w \in {1, 2, 4, 8, 16, 32, 64, 128} : dx(w) \in {0, 1} /\ dy(w) \in {0, 1}
  BY Digits
<1>2. x = dx(1) + 2 * dx(2) + 4 * dx(4) + 8 * dx(8) + 16 * dx(16) + 32 * dx(32)
            + 64 * dx(64) + 128 * dx(128)
  BY Digits
<1>3. y = dy(1) + 2 * dy(2) + 4 * dy(4) + 8 * dy(8) + 16 * dy(16) + 32 * dy(32)
            + 64 * dy(64) + 128 * dy(128)
  BY Digits
<1>4. z = (x \div 16) + ((y * 16) % 256)
  <2>1. 2 ^ 4 = 16 /\ 8 - 4 = 4
    OBVIOUS
  <2> QED
    BY <2>1, Zenon DEF Turned
<1> HIDE DEF dx, dy, z
<1>5. x \div 16 = dx(16) + 2 * dx(32) + 4 * dx(64) + 8 * dx(128)
  BY <1>1, <1>2
<1>6. (y * 16) % 256 = 16 * dy(1) + 32 * dy(2) + 64 * dy(4) + 128 * dy(8)
  BY <1>1, <1>3
<1>7. z = dx(16) + 2 * dx(32) + 4 * dx(64) + 8 * dx(128)
            + 16 * dy(1) + 32 * dy(2) + 64 * dy(4) + 128 * dy(8)
  BY <1>1, <1>4, <1>5, <1>6
<1>8. /\ z \in Byte
      /\ Digit(z, 1) = dx(16) /\ Digit(z, 2) = dx(32)
      /\ Digit(z, 4) = dx(64) /\ Digit(z, 8) = dx(128)
      /\ Digit(z, 16) = dy(1) /\ Digit(z, 32) = dy(2)
      /\ Digit(z, 64) = dy(4) /\ Digit(z, 128) = dy(8)
  BY <1>1, <1>7, DigitsOf
<1>9. /\ Weight(0) = 1 /\ Weight(1) = 2 /\ Weight(2) = 4 /\ Weight(3) = 8
      /\ Weight(4) = 16 /\ Weight(5) = 32 /\ Weight(6) = 64 /\ Weight(7) = 128
  BY DEF Weight
<1>10. ASSUME NEW k \in 0..3 PROVE Digit(z, Weight(k)) = dx(Weight(k + 4))
  <2>1. (k = 0 /\ k + 4 = 4) \/ (k = 1 /\ k + 4 = 5) \/ (k = 2 /\ k + 4 = 6)
          \/ (k = 3 /\ k + 4 = 7)
    OBVIOUS
  <2> QED
    BY <1>8, <1>9, <2>1
<1>11. ASSUME NEW k \in 4..7 PROVE Digit(z, Weight(k)) = dy(Weight(k - 4))
  <2>1. (k = 4 /\ k - 4 = 0) \/ (k = 5 /\ k - 4 = 1) \/ (k = 6 /\ k - 4 = 2)
          \/ (k = 7 /\ k - 4 = 3)
    OBVIOUS
  <2> QED
    BY <1>8, <1>9, <2>1
<1> QED
  BY <1>8, <1>10, <1>11 DEF z, dx, dy

\* By 7 bits.
LEMMA TurnedBy7 ==
  ASSUME NEW x \in Byte, NEW y \in Byte
  PROVE  /\ Turned(x, y, 7) \in Byte
         /\ Digit(Turned(x, y, 7), Weight(0)) = Digit(x, Weight(7))
         /\ \A k \in 1..7 : Digit(Turned(x, y, 7), Weight(k)) = Digit(y, Weight(k - 1))
<1> DEFINE dx(w) == Digit(x, w)
           dy(w) == Digit(y, w)
           z == Turned(x, y, 7)
<1>1. \A w \in {1, 2, 4, 8, 16, 32, 64, 128} : dx(w) \in {0, 1} /\ dy(w) \in {0, 1}
  BY Digits
<1>2. x = dx(1) + 2 * dx(2) + 4 * dx(4) + 8 * dx(8) + 16 * dx(16) + 32 * dx(32)
            + 64 * dx(64) + 128 * dx(128)
  BY Digits
<1>3. y = dy(1) + 2 * dy(2) + 4 * dy(4) + 8 * dy(8) + 16 * dy(16) + 32 * dy(32)
            + 64 * dy(64) + 128 * dy(128)
  BY Digits
<1>4. z = (x \div 128) + ((y * 2) % 256)
  <2>1. 2 ^ 7 = 128 /\ 8 - 7 = 1 /\ 2 ^ 1 = 2
    OBVIOUS
  <2> QED
    BY <2>1, Zenon DEF Turned
<1> HIDE DEF dx, dy, z
<1>5. x \div 128 = dx(128)
  BY <1>1, <1>2
<1>6. (y * 2) % 256 = 2 * dy(1) + 4 * dy(2) + 8 * dy(4) + 16 * dy(8) + 32 * dy(16)
                        + 64 * dy(32) + 128 * dy(64)
  BY <1>1, <1>3
<1>7. z = dx(128) + 2 * dy(1) + 4 * dy(2) + 8 * dy(4) + 16 * dy(8) + 32 * dy(16)
            + 64 * dy(32) + 128 * dy(64)
  BY <1>1, <1>4, <1>5, <1>6
<1>8. /\ z \in Byte
      /\ Digit(z, 1) = dx(128) /\ Digit(z, 2) = dy(1)
      /\ Digit(z, 4) = dy(2) /\ Digit(z, 8) = dy(4)
      /\ Digit(z, 16) = dy(8) /\ Digit(z, 32) = dy(16)
      /\ Digit(z, 64) = dy(32) /\ Digit(z, 128) = dy(64)
  BY <1>1, <1>7, DigitsOf
<1>9. /\ Weight(0) = 1 /\ Weight(1) = 2 /\ Weight(2) = 4 /\ Weight(3) = 8
      /\ Weight(4) = 16 /\ Weight(5) = 32 /\ Weight(6) = 64 /\ Weight(7) = 128
  BY DEF Weight
<1>10. ASSUME NEW k \in 1..7 PROVE Digit(z, Weight(k)) = dy(Weight(k - 1))
  <2>1. \/ k = 1 /\ k - 1 = 0
        \/ k = 2 /\ k - 1 = 1
        \/ k = 3 /\ k - 1 = 2
        \/ k = 4 /\ k - 1 = 3
        \/ k = 5 /\ k - 1 = 4
        \/ k = 6 /\ k - 1 = 5
        \/ k = 7 /\ k - 1 = 6
    OBVIOUS
  <2> QED
    BY <1>8, <1>9, <2>1
<1> QED
  BY <1>8, <1>9, <1>10 DEF z, dx, dy

\* By whole bytes.
LEMMA TurnedBy0 ==
  ASSUME NEW x \in Byte, NEW y \in Byte
  PROVE  Turned(x, y, 0) = x
<1>1. Turned(x, y, 0) = (x \div 1) + ((y * 256) % 256)
  <2>1. 2 ^ 0 = 1 /\ 8 - 0 = 8 /\ 2 ^ 8 = 256
    OBVIOUS
  <2> QED
    BY <2>1, Zenon DEF Turned
<1>2. x \div 1 = x /\ (y * 256) % 256 = 0 /\ x \in Int
  BY DEF Byte
<1> QED
  BY <1>1, <1>2

\* The bytes of a word rotated by the code's four distances.
LEMMA RotateIs ==
  ASSUME NEW w
  PROVE  /\ rotate_right(w, 16)
             = << Turned(w[3], w[4], 0), Turned(w[4], w[1], 0),
                  Turned(w[1], w[2], 0), Turned(w[2], w[3], 0) >>
         /\ rotate_right(w, 12)
             = << Turned(w[2], w[3], 4), Turned(w[3], w[4], 4),
                  Turned(w[4], w[1], 4), Turned(w[1], w[2], 4) >>
         /\ rotate_right(w, 8)
             = << Turned(w[2], w[3], 0), Turned(w[3], w[4], 0),
                  Turned(w[4], w[1], 0), Turned(w[1], w[2], 0) >>
         /\ rotate_right(w, 7)
             = << Turned(w[1], w[2], 7), Turned(w[2], w[3], 7),
                  Turned(w[3], w[4], 7), Turned(w[4], w[1], 7) >>
  BY DEF rotate_right, Turned

\* Whole bytes move.
LEMMA RotateBy16 ==
  ASSUME NEW w \in Word
  PROVE  /\ rotate_right(w, 16) \in Word
         /\ Bits(rotate_right(w, 16)) = Definition!Rotated(Bits(w), 16)
<1> DEFINE z == rotate_right(w, 16)
           T == Definition!Rotated(Bits(w), 16)
<1>1. w[1] \in Byte /\ w[2] \in Byte /\ w[3] \in Byte /\ w[4] \in Byte
  BY WordParts
<1>2. z = <<w[3], w[4], w[1], w[2]>>
  BY <1>1, RotateIs, TurnedBy0
<1> HIDE DEF z
<1>3. z \in Word
  BY <1>1, <1>2 DEF Word
<1>4. \A j \in 0..3 : z[j + 1] = w[((j + 2) % 4) + 1]
  <2>1. \A j \in 0..3 : \/ j + 1 = 1 /\ ((j + 2) % 4) + 1 = 3
                        \/ j + 1 = 2 /\ ((j + 2) % 4) + 1 = 4
                        \/ j + 1 = 3 /\ ((j + 2) % 4) + 1 = 1
                        \/ j + 1 = 4 /\ ((j + 2) % 4) + 1 = 2
    OBVIOUS
  <2> QED
    BY <1>2, <2>1
<1>5. ASSUME NEW j \in 0..3, NEW k \in 0..7
      PROVE  Bit(z[j + 1], Weight(k)) <=> 8 * j + k \in T
  <2> DEFINE m == (j + 2) % 4
             p == 8 * j + k
  <2>1. m \in 0..3 /\ p \in 0..31 /\ (p + 16) % 32 = 8 * m + k
    OBVIOUS
  <2>2. z[j + 1] = w[m + 1]
    BY <1>4
  <2> HIDE DEF m, p
  <2>3. p \in T <=> 8 * m + k \in Bits(w)
    BY <2>1, RotatedIs, BitsInPlaces
  <2> HIDE DEF T
  <2>4. 8 * m + k \in Bits(w) <=> Bit(w[m + 1], Weight(k))
    BY <2>1, BitsAre
  <2> QED
    BY <2>2, <2>3, <2>4 DEF p
<1>6. T \subseteq 0..31
  BY RotatedIs, BitsInPlaces
<1> HIDE DEF T
<1>7. Bits(z) = T
  BY <1>5, <1>6, BitsEqual
<1> QED
  BY <1>3, <1>7 DEF z, T

\* Rotation by 8.
LEMMA RotateBy8 ==
  ASSUME NEW w \in Word
  PROVE  /\ rotate_right(w, 8) \in Word
         /\ Bits(rotate_right(w, 8)) = Definition!Rotated(Bits(w), 8)
<1> DEFINE z == rotate_right(w, 8)
           T == Definition!Rotated(Bits(w), 8)
<1>1. w[1] \in Byte /\ w[2] \in Byte /\ w[3] \in Byte /\ w[4] \in Byte
  BY WordParts
<1>2. z = <<w[2], w[3], w[4], w[1]>>
  BY <1>1, RotateIs, TurnedBy0
<1> HIDE DEF z
<1>3. z \in Word
  BY <1>1, <1>2 DEF Word
<1>4. \A j \in 0..3 : z[j + 1] = w[((j + 1) % 4) + 1]
  <2>1. \A j \in 0..3 : \/ j + 1 = 1 /\ ((j + 1) % 4) + 1 = 2
                        \/ j + 1 = 2 /\ ((j + 1) % 4) + 1 = 3
                        \/ j + 1 = 3 /\ ((j + 1) % 4) + 1 = 4
                        \/ j + 1 = 4 /\ ((j + 1) % 4) + 1 = 1
    OBVIOUS
  <2> QED
    BY <1>2, <2>1
<1>5. ASSUME NEW j \in 0..3, NEW k \in 0..7
      PROVE  Bit(z[j + 1], Weight(k)) <=> 8 * j + k \in T
  <2> DEFINE m == (j + 1) % 4
             p == 8 * j + k
  <2>1. m \in 0..3 /\ p \in 0..31 /\ (p + 8) % 32 = 8 * m + k
    OBVIOUS
  <2>2. z[j + 1] = w[m + 1]
    BY <1>4
  <2> HIDE DEF m, p
  <2>3. p \in T <=> 8 * m + k \in Bits(w)
    BY <2>1, RotatedIs, BitsInPlaces
  <2> HIDE DEF T
  <2>4. 8 * m + k \in Bits(w) <=> Bit(w[m + 1], Weight(k))
    BY <2>1, BitsAre
  <2> QED
    BY <2>2, <2>3, <2>4 DEF p
<1>6. T \subseteq 0..31
  BY RotatedIs, BitsInPlaces
<1> HIDE DEF T
<1>7. Bits(z) = T
  BY <1>5, <1>6, BitsEqual
<1> QED
  BY <1>3, <1>7 DEF z, T

\* A byte is made of parts of two.
LEMMA RotateBy12 ==
  ASSUME NEW w \in Word
  PROVE  /\ rotate_right(w, 12) \in Word
         /\ Bits(rotate_right(w, 12)) = Definition!Rotated(Bits(w), 12)
<1> DEFINE z == rotate_right(w, 12)
           T == Definition!Rotated(Bits(w), 12)
<1>1. w[1] \in Byte /\ w[2] \in Byte /\ w[3] \in Byte /\ w[4] \in Byte
  BY WordParts
<1>2. z = << Turned(w[2], w[3], 4), Turned(w[3], w[4], 4),
             Turned(w[4], w[1], 4), Turned(w[1], w[2], 4) >>
  BY RotateIs
<1> HIDE DEF z
<1>3. z \in Word
  BY <1>1, <1>2, TurnedBy4 DEF Word
<1>4. \A j \in 0..3 :
        /\ z[j + 1] = Turned(w[((j + 1) % 4) + 1], w[((j + 2) % 4) + 1], 4)
        /\ w[((j + 1) % 4) + 1] \in Byte /\ w[((j + 2) % 4) + 1] \in Byte
  <2>1. \A j \in 0..3 :
          \/ j + 1 = 1 /\ ((j + 1) % 4) + 1 = 2 /\ ((j + 2) % 4) + 1 = 3
          \/ j + 1 = 2 /\ ((j + 1) % 4) + 1 = 3 /\ ((j + 2) % 4) + 1 = 4
          \/ j + 1 = 3 /\ ((j + 1) % 4) + 1 = 4 /\ ((j + 2) % 4) + 1 = 1
          \/ j + 1 = 4 /\ ((j + 1) % 4) + 1 = 1 /\ ((j + 2) % 4) + 1 = 2
    OBVIOUS
  <2> QED
    BY <1>1, <1>2, <2>1
<1>5. ASSUME NEW j \in 0..3, NEW k \in 0..7
      PROVE  Bit(z[j + 1], Weight(k)) <=> 8 * j + k \in T
  <2> DEFINE m == (j + 1) % 4
             n == (j + 2) % 4
             p == 8 * j + k
  <2>1. /\ m \in 0..3 /\ n \in 0..3 /\ p \in 0..31
        /\ k \in 0..3 => k + 4 \in 0..7 /\ (p + 12) % 32 = 8 * m + (k + 4)
        /\ k \in 4..7 => k - 4 \in 0..7 /\ (p + 12) % 32 = 8 * n + (k - 4)
        /\ k \in 0..3 \/ k \in 4..7
    OBVIOUS
  <2>2. /\ z[j + 1] = Turned(w[m + 1], w[n + 1], 4)
        /\ w[m + 1] \in Byte /\ w[n + 1] \in Byte
    BY <1>4
  <2> HIDE DEF m, n, p
  <2>3. p \in T <=> (p + 12) % 32 \in Bits(w)
    BY <2>1, RotatedIs, BitsInPlaces
  <2> HIDE DEF T
  <2>4. CASE k \in 0..3
    <3>1. Digit(z[j + 1], Weight(k)) = Digit(w[m + 1], Weight(k + 4))
      BY <2>2, <2>4, TurnedBy4
    <3>2. 8 * m + (k + 4) \in Bits(w) <=> Bit(w[m + 1], Weight(k + 4))
      BY <2>1, <2>4, BitsAre
    <3> QED
      BY <2>1, <2>3, <2>4, <3>1, <3>2 DEF p, Bit
  <2>5. CASE k \in 4..7
    <3>1. Digit(z[j + 1], Weight(k)) = Digit(w[n + 1], Weight(k - 4))
      BY <2>2, <2>5, TurnedBy4
    <3>2. 8 * n + (k - 4) \in Bits(w) <=> Bit(w[n + 1], Weight(k - 4))
      BY <2>1, <2>5, BitsAre
    <3> QED
      BY <2>1, <2>3, <2>5, <3>1, <3>2 DEF p, Bit
  <2> QED
    BY <2>1, <2>4, <2>5
<1>6. T \subseteq 0..31
  BY RotatedIs, BitsInPlaces
<1> HIDE DEF T
<1>7. Bits(z) = T
  BY <1>5, <1>6, BitsEqual
<1> QED
  BY <1>3, <1>7 DEF z, T

\* Rotation by 7.
LEMMA RotateBy7 ==
  ASSUME NEW w \in Word
  PROVE  /\ rotate_right(w, 7) \in Word
         /\ Bits(rotate_right(w, 7)) = Definition!Rotated(Bits(w), 7)
<1> DEFINE z == rotate_right(w, 7)
           T == Definition!Rotated(Bits(w), 7)
<1>1. w[1] \in Byte /\ w[2] \in Byte /\ w[3] \in Byte /\ w[4] \in Byte
  BY WordParts
<1>2. z = << Turned(w[1], w[2], 7), Turned(w[2], w[3], 7),
             Turned(w[3], w[4], 7), Turned(w[4], w[1], 7) >>
  BY RotateIs
<1> HIDE DEF z
<1>3. z \in Word
  BY <1>1, <1>2, TurnedBy7 DEF Word
<1>4. \A j \in 0..3 :
        /\ z[j + 1] = Turned(w[((j + 0) % 4) + 1], w[((j + 1) % 4) + 1], 7)
        /\ w[((j + 0) % 4) + 1] \in Byte /\ w[((j + 1) % 4) + 1] \in Byte
  <2>1. \A j \in 0..3 :
          \/ j + 1 = 1 /\ ((j + 0) % 4) + 1 = 1 /\ ((j + 1) % 4) + 1 = 2
          \/ j + 1 = 2 /\ ((j + 0) % 4) + 1 = 2 /\ ((j + 1) % 4) + 1 = 3
          \/ j + 1 = 3 /\ ((j + 0) % 4) + 1 = 3 /\ ((j + 1) % 4) + 1 = 4
          \/ j + 1 = 4 /\ ((j + 0) % 4) + 1 = 4 /\ ((j + 1) % 4) + 1 = 1
    OBVIOUS
  <2> QED
    BY <1>1, <1>2, <2>1
<1>5. ASSUME NEW j \in 0..3, NEW k \in 0..7
      PROVE  Bit(z[j + 1], Weight(k)) <=> 8 * j + k \in T
  <2> DEFINE m == (j + 0) % 4
             n == (j + 1) % 4
             p == 8 * j + k
  <2>1. /\ m \in 0..3 /\ n \in 0..3 /\ p \in 0..31
        /\ k = 0 => 7 \in 0..7 /\ (p + 7) % 32 = 8 * m + (7)
        /\ k \in 1..7 => k - 1 \in 0..7 /\ (p + 7) % 32 = 8 * n + (k - 1)
        /\ k = 0 \/ k \in 1..7
    OBVIOUS
  <2>2. /\ z[j + 1] = Turned(w[m + 1], w[n + 1], 7)
        /\ w[m + 1] \in Byte /\ w[n + 1] \in Byte
    BY <1>4
  <2> HIDE DEF m, n, p
  <2>3. p \in T <=> (p + 7) % 32 \in Bits(w)
    BY <2>1, RotatedIs, BitsInPlaces
  <2> HIDE DEF T
  <2>4. CASE k = 0
    <3>1. Digit(z[j + 1], Weight(k)) = Digit(w[m + 1], Weight(7))
      BY <2>2, <2>4, TurnedBy7
    <3>2. 8 * m + (7) \in Bits(w) <=> Bit(w[m + 1], Weight(7))
      BY <2>1, <2>4, BitsAre
    <3> QED
      BY <2>1, <2>3, <2>4, <3>1, <3>2 DEF p, Bit
  <2>5. CASE k \in 1..7
    <3>1. Digit(z[j + 1], Weight(k)) = Digit(w[n + 1], Weight(k - 1))
      BY <2>2, <2>5, TurnedBy7
    <3>2. 8 * n + (k - 1) \in Bits(w) <=> Bit(w[n + 1], Weight(k - 1))
      BY <2>1, <2>5, BitsAre
    <3> QED
      BY <2>1, <2>3, <2>5, <3>1, <3>2 DEF p, Bit
  <2> QED
    BY <2>1, <2>4, <2>5
<1>6. T \subseteq 0..31
  BY RotatedIs, BitsInPlaces
<1> HIDE DEF T
<1>7. Bits(z) = T
  BY <1>5, <1>6, BitsEqual
<1> QED
  BY <1>3, <1>7 DEF z, T

-----------------------------------------------------------------------------
(***************************************************************************)
(* The mixing function: g is the quarter round of the definition.          *)
(***************************************************************************)
\* The compression function uses the operators on words of this module.
LEMMA SameWords ==
  \A v, w :
    /\ Portable!xorw(v, w) = xorw(v, w) /\ Portable!add(v, w) = add(v, w)
    /\ Portable!load_word(v, w) = load_word(v, w)
    /\ Portable!store_words(v, w) = store_words(v, w)
    /\ Portable!rotate_right(v, 16) = rotate_right(v, 16)
    /\ Portable!rotate_right(v, 12) = rotate_right(v, 12)
    /\ Portable!rotate_right(v, 8) = rotate_right(v, 8)
    /\ Portable!rotate_right(v, 7) = rotate_right(v, 7)
    /\ Portable!ByteWord(v) = ByteWord(v)
<1>1. Portable!XOR = XOR
  BY DEF Portable!XOR, XOR, Portable!Byte, Byte
<1>2. \A v, w : Portable!xorw(v, w) = xorw(v, w)
  BY <1>1 DEF Portable!xorw, xorw
<1>3. \A v, w : Portable!add(v, w) = add(v, w)
  BY Zenon DEF Portable!add, add
<1>4. \A v, w : Portable!load_word(v, w) = load_word(v, w)
  BY Zenon DEF Portable!load_word, load_word
<1>5. \A v, w : Portable!store_words(v, w) = store_words(v, w)
  BY Zenon DEF Portable!store_words, store_words
<1>6. \A v, w : Portable!rotate_right(v, w) = rotate_right(v, w)
  BY Zenon DEF Portable!rotate_right, rotate_right
<1>7. \A v : Portable!ByteWord(v) = ByteWord(v)
  BY Zenon DEF Portable!ByteWord, ByteWord
<1> QED
  BY <1>2, <1>3, <1>4, <1>5, <1>6, <1>7

\* A column of words as one of sets of bits.
Column(v) == <<Bits(v[1]), Bits(v[2]), Bits(v[3]), Bits(v[4])>>
Words4 == Word \X Word \X Word \X Word

\* Half of g, and half of the quarter round.
HalfQuarter(col, x, m, n) ==
  LET a == Definition!Sum(Definition!Sum(col[1], col[2]), x)
      d == Definition!Rotated(Definition!Either(col[4], a), m)
      c == Definition!Sum(col[3], d)
  IN  <<a, Definition!Rotated(Definition!Either(col[2], c), n), c, d>>

\* Half of g is half of the quarter round, on the bits.
LEMMA HalfIs ==
  ASSUME NEW v \in Words4, NEW x \in Word
  PROVE  /\ Portable!half_g(v, x, 16, 12) \in Words4
         /\ Column(Portable!half_g(v, x, 16, 12)) = HalfQuarter(Column(v), Bits(x), 16, 12)
         /\ Portable!half_g(v, x, 8, 7) \in Words4
         /\ Column(Portable!half_g(v, x, 8, 7)) = HalfQuarter(Column(v), Bits(x), 8, 7)
<1>1. v[1] \in Word /\ v[2] \in Word /\ v[3] \in Word /\ v[4] \in Word
  BY DEF Words4
<1> DEFINE a == add(add(v[1], v[2]), x)
           t == xorw(v[4], a)
           A == Definition!Sum(Definition!Sum(Bits(v[1]), Bits(v[2])), Bits(x))
           E == Definition!Either(Bits(v[4]), A)
<1> HIDE DEF Bits
<1>2. a \in Word /\ Bits(a) = A
  <2>1. add(v[1], v[2]) \in Word /\ Bits(add(v[1], v[2])) = Definition!Sum(Bits(v[1]), Bits(v[2]))
    BY <1>1, BitsAdd
  <2> QED
    BY <2>1, BitsAdd
<1>3. t \in Word /\ Bits(t) = E
  <2> HIDE DEF a, A
  <2> QED
    BY <1>1, <1>2, BitsXor
<1>4. ASSUME NEW m, NEW n,
             \A w \in Word : /\ rotate_right(w, m) \in Word
                             /\ Bits(rotate_right(w, m)) = Definition!Rotated(Bits(w), m)
                             /\ rotate_right(w, n) \in Word
                             /\ Bits(rotate_right(w, n)) = Definition!Rotated(Bits(w), n)
      PROVE  LET d == rotate_right(t, m)
                 c == add(v[3], d)
                 b == rotate_right(xorw(v[2], c), n)
                 z == <<a, b, c, d>>
             IN  z \in Words4 /\ Column(z) = HalfQuarter(Column(v), Bits(x), m, n)
  <2> DEFINE d == rotate_right(t, m)
             c == add(v[3], d)
             u == xorw(v[2], c)
             b == rotate_right(u, n)
             D == Definition!Rotated(E, m)
             C == Definition!Sum(Bits(v[3]), D)
             U == Definition!Either(Bits(v[2]), C)
             B == Definition!Rotated(U, n)
  <2>1. d \in Word /\ Bits(d) = D
    BY <1>3, <1>4
  <2>2. HalfQuarter(Column(v), Bits(x), m, n) = <<A, B, C, D>>
    BY DEF HalfQuarter, Column
  <2> HIDE DEF d, D, a, A, t, E
  <2>3. c \in Word /\ Bits(c) = C
    BY <1>1, <2>1, BitsAdd
  <2> HIDE DEF c, C
  <2>4. u \in Word /\ Bits(u) = U
    BY <1>1, <2>3, BitsXor
  <2> HIDE DEF u, U
  <2>5. b \in Word /\ Bits(b) = B
    BY <1>4, <2>4
  <2> HIDE DEF b, B
  <2>6. <<a, b, c, d>> \in Words4
    BY <1>2, <2>1, <2>3, <2>5 DEF Words4
  <2>7. Column(<<a, b, c, d>>) = <<A, B, C, D>>
    BY <1>2, <2>1, <2>3, <2>5 DEF Column
  <2>8. <<a, b, c, d>> \in Words4 /\ Column(<<a, b, c, d>>) = HalfQuarter(Column(v), Bits(x), m, n)
    BY <2>2, <2>6, <2>7
  <2> QED
    BY <2>8 DEF a, t, b, u, c, d
<1>5. /\ Portable!half_g(v, x, 16, 12)
           = LET d == rotate_right(t, 16)
                 c == add(v[3], d)
             IN  <<a, rotate_right(xorw(v[2], c), 12), c, d>>
      /\ Portable!half_g(v, x, 8, 7)
           = LET d == rotate_right(t, 8)
                 c == add(v[3], d)
             IN  <<a, rotate_right(xorw(v[2], c), 7), c, d>>
  BY SameWords DEF Portable!half_g
<1> HIDE DEF a, t, A, E
<1>6. LET d == rotate_right(t, 16)
          c == add(v[3], d)
          b == rotate_right(xorw(v[2], c), 12)
          z == <<a, b, c, d>>
      IN  z \in Words4 /\ Column(z) = HalfQuarter(Column(v), Bits(x), 16, 12)
  BY <1>4, RotateBy16, RotateBy12
<1>7. LET d == rotate_right(t, 8)
          c == add(v[3], d)
          b == rotate_right(xorw(v[2], c), 7)
          z == <<a, b, c, d>>
      IN  z \in Words4 /\ Column(z) = HalfQuarter(Column(v), Bits(x), 8, 7)
  BY <1>4, RotateBy8, RotateBy7
<1> QED
  BY <1>5, <1>6, <1>7

\* Both halves.
Mix(v, x, y) == Portable!half_g(Portable!half_g(v, x, 16, 12), y, 8, 7)

\* Both halves are the quarter round.
LEMMA MixIs ==
  ASSUME NEW v \in Words4, NEW x \in Word, NEW y \in Word
  PROVE  /\ Mix(v, x, y) \in Words4
         /\ Column(Mix(v, x, y)) = Definition!Quarter(Column(v), Bits(x), Bits(y))
<1> DEFINE u == Portable!half_g(v, x, 16, 12)
<1>1. u \in Words4 /\ Column(u) = HalfQuarter(Column(v), Bits(x), 16, 12)
  BY HalfIs
<1>2. Mix(v, x, y) = Portable!half_g(u, y, 8, 7)
  BY DEF Mix
<1> HIDE DEF u
<1>3. Mix(v, x, y) \in Words4 /\ Column(Mix(v, x, y)) = HalfQuarter(Column(u), Bits(y), 8, 7)
  BY <1>1, <1>2, HalfIs
<1>4. ASSUME NEW col, NEW p, NEW q
      PROVE  HalfQuarter(HalfQuarter(col, p, 16, 12), q, 8, 7) = Definition!Quarter(col, p, q)
  BY DEF HalfQuarter, Definition!Quarter
<1> QED
  BY <1>1, <1>3, <1>4

\* g mixes four words of the state and leaves the others.
States == [0..15 -> Word]
Taken(state, at) == <<state[at[1]], state[at[2]], state[at[3]], state[at[4]]>>

\* Words p, q, r and s of the state are a quarter round, the others stay.
Mixes(state, p, q, r, s, x, y) ==
  LET at   == <<p, q, r, s>>
      next == Portable!g(state, at, x, y)
  IN  /\ next \in States
      /\ Column(Taken(next, at))
           = Definition!Quarter(Column(Taken(state, at)), Bits(x), Bits(y))
      /\ \A i \in 0..15 \ {p, q, r, s} : next[i] = state[i]

\* g mixes the four words it is given, and leaves the others.
LEMMA GIs ==
  ASSUME NEW state \in States, NEW p \in 0..15, NEW q \in 0..15, NEW r \in 0..15,
         NEW s \in 0..15, p # q, p # r, p # s, q # r, q # s, r # s,
         NEW x \in Word, NEW y \in Word
  PROVE  Mixes(state, p, q, r, s, x, y)
<1> DEFINE at == <<p, q, r, s>>
           next == Portable!g(state, at, x, y)
           v == Taken(state, at)
           z == Mix(v, x, y)
<1>1. v \in Words4
  BY DEF Taken, Words4, States
<1>2. z \in Words4 /\ Column(z) = Definition!Quarter(Column(v), Bits(x), Bits(y))
  BY <1>1, MixIs
<1>3. next = [state EXCEPT ![p] = z[1], ![q] = z[2], ![r] = z[3], ![s] = z[4]]
  BY DEF Portable!g, Portable!stored, Mix, Taken
<1> HIDE DEF z, next
<1>4. z[1] \in Word /\ z[2] \in Word /\ z[3] \in Word /\ z[4] \in Word
      /\ z = <<z[1], z[2], z[3], z[4]>>
  BY <1>2 DEF Words4
<1>5. next \in States /\ \A i \in 0..15 \ {p, q, r, s} : next[i] = state[i]
  <2> HIDE DEF Word
  <2> QED
    BY <1>3, <1>4 DEF States
<1>6. next[p] = z[1] /\ next[q] = z[2] /\ next[r] = z[3] /\ next[s] = z[4]
  BY <1>3 DEF States
<1>7. Taken(next, at) = z
  BY <1>4, <1>6 DEF Taken
<1> QED
  BY <1>2, <1>5, <1>7 DEF next, Mixes

-----------------------------------------------------------------------------
(***************************************************************************)
(* The message schedule.                                                   *)
(***************************************************************************)
\* Row r of the table, and where the permutation takes a place.
Scheduled(r, i) == Portable!schedule_of(r)[i + 1]
Permuted(i) == Definition!Permutation[i + 1]

\* The permutation of the message words, written out.
LEMMA PermutedIs ==
  /\ \A i \in 0..15 : Permuted(i) \in 0..15
  /\ Permuted(0) = 2 /\ Permuted(1) = 6 /\ Permuted(2) = 3 /\ Permuted(3) = 10
  /\ Permuted(4) = 7 /\ Permuted(5) = 0 /\ Permuted(6) = 4 /\ Permuted(7) = 13
  /\ Permuted(8) = 1 /\ Permuted(9) = 11 /\ Permuted(10) = 12 /\ Permuted(11) = 5
  /\ Permuted(12) = 9 /\ Permuted(13) = 14 /\ Permuted(14) = 15 /\ Permuted(15) = 8
<1>1. /\ Permuted(0) = 2 /\ Permuted(1) = 6 /\ Permuted(2) = 3 /\ Permuted(3) = 10
      /\ Permuted(4) = 7 /\ Permuted(5) = 0 /\ Permuted(6) = 4 /\ Permuted(7) = 13
      /\ Permuted(8) = 1 /\ Permuted(9) = 11 /\ Permuted(10) = 12 /\ Permuted(11) = 5
      /\ Permuted(12) = 9 /\ Permuted(13) = 14 /\ Permuted(14) = 15 /\ Permuted(15) = 8
  BY DEF Permuted, Definition!Permutation
<1> HIDE DEF Permuted
<1>2. \A i \in 0..15 : i = 0 \/ i = 1 \/ i = 2 \/ i = 3 \/ i = 4 \/ i = 5 \/ i = 6 \/ i = 7
                        \/ i = 8 \/ i = 9 \/ i = 10 \/ i = 11 \/ i = 12 \/ i = 13 \/ i = 14 \/ i = 15
  OBVIOUS
<1>3. \A i \in 0..15 : Permuted(i) \in 0..15
  BY <1>1, <1>2
<1> QED
  BY <1>1, <1>3

\* The schedule of round 0.
LEMMA Row0 ==
  /\ Scheduled(0, 0) = 0 /\ Scheduled(0, 1) = 1 /\ Scheduled(0, 2) = 2 /\ Scheduled(0, 3) = 3
  /\ Scheduled(0, 4) = 4 /\ Scheduled(0, 5) = 5 /\ Scheduled(0, 6) = 6 /\ Scheduled(0, 7) = 7
  /\ Scheduled(0, 8) = 8 /\ Scheduled(0, 9) = 9 /\ Scheduled(0, 10) = 10 /\ Scheduled(0, 11) = 11
  /\ Scheduled(0, 12) = 12 /\ Scheduled(0, 13) = 13 /\ Scheduled(0, 14) = 14 /\ Scheduled(0, 15) = 15
<1>1. Portable!schedule_of(0) = << 0, 1, 2, 3, 4, 5, 6, 7, 8, 9, 10, 11, 12, 13, 14, 15 >>
  <2>1. 0 + 1 = 1
    OBVIOUS
  <2> QED
    BY <2>1 DEF Portable!schedule_of, Portable!MSG_SCHEDULE
<1> QED
  BY <1>1 DEF Scheduled

\* Of round 1.
LEMMA Row1 ==
  /\ Scheduled(1, 0) = 2 /\ Scheduled(1, 1) = 6 /\ Scheduled(1, 2) = 3 /\ Scheduled(1, 3) = 10
  /\ Scheduled(1, 4) = 7 /\ Scheduled(1, 5) = 0 /\ Scheduled(1, 6) = 4 /\ Scheduled(1, 7) = 13
  /\ Scheduled(1, 8) = 1 /\ Scheduled(1, 9) = 11 /\ Scheduled(1, 10) = 12 /\ Scheduled(1, 11) = 5
  /\ Scheduled(1, 12) = 9 /\ Scheduled(1, 13) = 14 /\ Scheduled(1, 14) = 15 /\ Scheduled(1, 15) = 8
<1>1. Portable!schedule_of(1) = << 2, 6, 3, 10, 7, 0, 4, 13, 1, 11, 12, 5, 9, 14, 15, 8 >>
  <2>1. 1 + 1 = 2
    OBVIOUS
  <2> QED
    BY <2>1 DEF Portable!schedule_of, Portable!MSG_SCHEDULE
<1> QED
  BY <1>1 DEF Scheduled

\* Of round 2.
LEMMA Row2 ==
  /\ Scheduled(2, 0) = 3 /\ Scheduled(2, 1) = 4 /\ Scheduled(2, 2) = 10 /\ Scheduled(2, 3) = 12
  /\ Scheduled(2, 4) = 13 /\ Scheduled(2, 5) = 2 /\ Scheduled(2, 6) = 7 /\ Scheduled(2, 7) = 14
  /\ Scheduled(2, 8) = 6 /\ Scheduled(2, 9) = 5 /\ Scheduled(2, 10) = 9 /\ Scheduled(2, 11) = 0
  /\ Scheduled(2, 12) = 11 /\ Scheduled(2, 13) = 15 /\ Scheduled(2, 14) = 8 /\ Scheduled(2, 15) = 1
<1>1. Portable!schedule_of(2) = << 3, 4, 10, 12, 13, 2, 7, 14, 6, 5, 9, 0, 11, 15, 8, 1 >>
  <2>1. 2 + 1 = 3
    OBVIOUS
  <2> QED
    BY <2>1 DEF Portable!schedule_of, Portable!MSG_SCHEDULE
<1> QED
  BY <1>1 DEF Scheduled

\* Of round 3.
LEMMA Row3 ==
  /\ Scheduled(3, 0) = 10 /\ Scheduled(3, 1) = 7 /\ Scheduled(3, 2) = 12 /\ Scheduled(3, 3) = 9
  /\ Scheduled(3, 4) = 14 /\ Scheduled(3, 5) = 3 /\ Scheduled(3, 6) = 13 /\ Scheduled(3, 7) = 15
  /\ Scheduled(3, 8) = 4 /\ Scheduled(3, 9) = 0 /\ Scheduled(3, 10) = 11 /\ Scheduled(3, 11) = 2
  /\ Scheduled(3, 12) = 5 /\ Scheduled(3, 13) = 8 /\ Scheduled(3, 14) = 1 /\ Scheduled(3, 15) = 6
<1>1. Portable!schedule_of(3) = << 10, 7, 12, 9, 14, 3, 13, 15, 4, 0, 11, 2, 5, 8, 1, 6 >>
  <2>1. 3 + 1 = 4
    OBVIOUS
  <2> QED
    BY <2>1 DEF Portable!schedule_of, Portable!MSG_SCHEDULE
<1> QED
  BY <1>1 DEF Scheduled

\* Of round 4.
LEMMA Row4 ==
  /\ Scheduled(4, 0) = 12 /\ Scheduled(4, 1) = 13 /\ Scheduled(4, 2) = 9 /\ Scheduled(4, 3) = 11
  /\ Scheduled(4, 4) = 15 /\ Scheduled(4, 5) = 10 /\ Scheduled(4, 6) = 14 /\ Scheduled(4, 7) = 8
  /\ Scheduled(4, 8) = 7 /\ Scheduled(4, 9) = 2 /\ Scheduled(4, 10) = 5 /\ Scheduled(4, 11) = 3
  /\ Scheduled(4, 12) = 0 /\ Scheduled(4, 13) = 1 /\ Scheduled(4, 14) = 6 /\ Scheduled(4, 15) = 4
<1>1. Portable!schedule_of(4) = << 12, 13, 9, 11, 15, 10, 14, 8, 7, 2, 5, 3, 0, 1, 6, 4 >>
  <2>1. 4 + 1 = 5
    OBVIOUS
  <2> QED
    BY <2>1 DEF Portable!schedule_of, Portable!MSG_SCHEDULE
<1> QED
  BY <1>1 DEF Scheduled

\* Of round 5.
LEMMA Row5 ==
  /\ Scheduled(5, 0) = 9 /\ Scheduled(5, 1) = 14 /\ Scheduled(5, 2) = 11 /\ Scheduled(5, 3) = 5
  /\ Scheduled(5, 4) = 8 /\ Scheduled(5, 5) = 12 /\ Scheduled(5, 6) = 15 /\ Scheduled(5, 7) = 1
  /\ Scheduled(5, 8) = 13 /\ Scheduled(5, 9) = 3 /\ Scheduled(5, 10) = 0 /\ Scheduled(5, 11) = 10
  /\ Scheduled(5, 12) = 2 /\ Scheduled(5, 13) = 6 /\ Scheduled(5, 14) = 4 /\ Scheduled(5, 15) = 7
<1>1. Portable!schedule_of(5) = << 9, 14, 11, 5, 8, 12, 15, 1, 13, 3, 0, 10, 2, 6, 4, 7 >>
  <2>1. 5 + 1 = 6
    OBVIOUS
  <2> QED
    BY <2>1 DEF Portable!schedule_of, Portable!MSG_SCHEDULE
<1> QED
  BY <1>1 DEF Scheduled

\* Of round 6.
LEMMA Row6 ==
  /\ Scheduled(6, 0) = 11 /\ Scheduled(6, 1) = 15 /\ Scheduled(6, 2) = 5 /\ Scheduled(6, 3) = 0
  /\ Scheduled(6, 4) = 1 /\ Scheduled(6, 5) = 9 /\ Scheduled(6, 6) = 8 /\ Scheduled(6, 7) = 6
  /\ Scheduled(6, 8) = 14 /\ Scheduled(6, 9) = 10 /\ Scheduled(6, 10) = 2 /\ Scheduled(6, 11) = 12
  /\ Scheduled(6, 12) = 3 /\ Scheduled(6, 13) = 4 /\ Scheduled(6, 14) = 7 /\ Scheduled(6, 15) = 13
<1>1. Portable!schedule_of(6) = << 11, 15, 5, 0, 1, 9, 8, 6, 14, 10, 2, 12, 3, 4, 7, 13 >>
  <2>1. 6 + 1 = 7
    OBVIOUS
  <2> QED
    BY <2>1 DEF Portable!schedule_of, Portable!MSG_SCHEDULE
<1> QED
  BY <1>1 DEF Scheduled

\* A row is the one before it, permuted.
LEMMA RowsFollow ==
  /\ \A r \in 0..6, i \in 0..15 : Scheduled(r, i) \in 0..15
  /\ \A i \in 0..15 : Scheduled(0, i) = i
  /\ \A r \in 1..6, i \in 0..15 : Scheduled(r, i) = Scheduled(r - 1, Permuted(i))
<1> HIDE DEF Scheduled, Permuted
<1>1. \A i \in 0..15 : i = 0 \/ i = 1 \/ i = 2 \/ i = 3 \/ i = 4 \/ i = 5 \/ i = 6 \/ i = 7
                        \/ i = 8 \/ i = 9 \/ i = 10 \/ i = 11 \/ i = 12 \/ i = 13 \/ i = 14 \/ i = 15
  OBVIOUS
<1>2. \A i \in 0..15 : Scheduled(0, i) = i
  BY <1>1, Row0
<1>3. \A i \in 0..15 : Scheduled(1, i) = Scheduled(0, Permuted(i))
  BY <1>1, Row0, Row1, PermutedIs
<1>4. \A i \in 0..15 : Scheduled(2, i) = Scheduled(1, Permuted(i))
  BY <1>1, Row1, Row2, PermutedIs
<1>5. \A i \in 0..15 : Scheduled(3, i) = Scheduled(2, Permuted(i))
  BY <1>1, Row2, Row3, PermutedIs
<1>6. \A i \in 0..15 : Scheduled(4, i) = Scheduled(3, Permuted(i))
  BY <1>1, Row3, Row4, PermutedIs
<1>7. \A i \in 0..15 : Scheduled(5, i) = Scheduled(4, Permuted(i))
  BY <1>1, Row4, Row5, PermutedIs
<1>8. \A i \in 0..15 : Scheduled(6, i) = Scheduled(5, Permuted(i))
  BY <1>1, Row5, Row6, PermutedIs
<1>9. \A r \in 1..6, i \in 0..15 : Scheduled(r, i) = Scheduled(r - 1, Permuted(i))
  <2>1. \A r \in 1..6 : \/ r = 1 /\ r - 1 = 0
                        \/ r = 2 /\ r - 1 = 1
                        \/ r = 3 /\ r - 1 = 2
                        \/ r = 4 /\ r - 1 = 3
                        \/ r = 5 /\ r - 1 = 4
                        \/ r = 6 /\ r - 1 = 5
    OBVIOUS
  <2> QED
    BY <1>3, <1>4, <1>5, <1>6, <1>7, <1>8, <2>1
<1>10. \A r \in 0..6, i \in 0..15 : Scheduled(r, i) \in 0..15
  <2> DEFINE T == {r \in 0..6 : \A i \in 0..15 : Scheduled(r, i) \in 0..15}
  <2>1. 0 \in T
    BY <1>2
  <2>2. ASSUME NEW r \in 0..6, r < 6, r \in T PROVE r + 1 \in T
    <3>1. r + 1 \in 1..6 /\ (r + 1) - 1 = r /\ r + 1 \in 0..6
      BY <2>2
    <3>2. \A i \in 0..15 : Scheduled(r + 1, i) = Scheduled(r, Permuted(i))
      BY <1>9, <3>1
    <3> QED
      BY <2>2, <3>1, <3>2, PermutedIs
  <2> HIDE DEF T
  <2>3. \A r \in 0..6 : r \in T
    BY <2>1, <2>2, Induct
  <2> QED
    BY <2>3 DEF T
<1> QED
  BY <1>2, <1>9, <1>10

\* The table of the code is the permutation, applied round after round.
LEMMA InPlaceIs ==
  ASSUME NEW r \in 0..6, NEW i \in 0..15
  PROVE  Definition!InPlace[r][i] = Scheduled(r, i)
<1> DEFINE Rows(f) == [a \in 0..6 |-> [b \in 0..15 |->
                         IF a = 0 THEN b ELSE f[a - 1][Permuted(b)]]]
           h == [a \in 0..6 |-> [b \in 0..15 |-> Scheduled(a, b)]]
           f == Definition!InPlace
<1> HIDE DEF Scheduled
<1>1. h = Rows(h)
  <2> HIDE DEF Permuted
  <2>1. ASSUME NEW a \in 0..6, NEW b \in 0..15
        PROVE  Scheduled(a, b) = IF a = 0 THEN b ELSE h[a - 1][Permuted(b)]
    <3>1. CASE a = 0
      BY <3>1, RowsFollow
    <3>2. CASE a # 0
      <4>1. a \in 1..6 /\ a - 1 \in 0..6 /\ Permuted(b) \in 0..15
        BY <3>2, PermutedIs
      <4>2. h[a - 1][Permuted(b)] = Scheduled(a - 1, Permuted(b))
        BY <4>1
      <4> QED
        BY <3>2, <4>1, <4>2, RowsFollow
    <3> QED
      BY <3>1, <3>2
  <2> QED
    BY <2>1
<1>2. f = CHOOSE g : g = Rows(g)
  BY DEF Definition!InPlace, Permuted
<1> HIDE DEF f, h, Permuted
<1>3. f = Rows(f)
  <2> HIDE DEF Rows
  <2> QED
    BY <1>1, <1>2
<1>4. \A a \in 0..6, b \in 0..15 : f[a][b] = IF a = 0 THEN b ELSE f[a - 1][Permuted(b)]
  BY <1>3
<1> HIDE DEF Rows
<1> DEFINE T == {a \in 0..6 : \A b \in 0..15 : f[a][b] = Scheduled(a, b)}
<1>6. 0 \in T
  BY <1>4, RowsFollow
<1>7. ASSUME NEW a \in 0..6, a < 6, a \in T PROVE a + 1 \in T
  <2> DEFINE n == a + 1
  <2>1. n \in 1..6 /\ n \in 0..6 /\ n - 1 = a /\ n # 0
    BY <1>7
  <2> HIDE DEF n
  <2>2. \A b \in 0..15 : f[n][b] = Scheduled(n, b)
    <3> TAKE b \in 0..15
    <3>1. Permuted(b) \in 0..15
      BY PermutedIs
    <3>2. f[n][b] = f[a][Permuted(b)]
      BY <1>4, <2>1
    <3>3. f[a][Permuted(b)] = Scheduled(a, Permuted(b))
      BY <1>7, <3>1
    <3> QED
      BY <2>1, <3>2, <3>3, RowsFollow
  <2> QED
    BY <2>1, <2>2 DEF n
<1> HIDE DEF T
<1>8. \A a \in 0..6 : a \in T
  BY <1>6, <1>7, Induct
<1> QED
  BY <1>8 DEF T, f

-----------------------------------------------------------------------------
(***************************************************************************)
(* A round.                                                                *)
(***************************************************************************)
Entry(state, at) == Column(Taken(state, at))

\* The matrix of the definition, by columns and by diagonals.
Matrix(state) ==
  << Entry(state, <<0, 4, 8, 12>>), Entry(state, <<1, 5, 9, 13>>),
     Entry(state, <<2, 6, 10, 14>>), Entry(state, <<3, 7, 11, 15>>) >>
Diagonals(state) ==
  << Entry(state, <<0, 5, 10, 15>>), Entry(state, <<1, 6, 11, 12>>),
     Entry(state, <<2, 7, 8, 13>>), Entry(state, <<3, 4, 9, 14>>) >>

\* Moving the rows makes columns of diagonals and back.
LEMMA SkewedIs ==
  ASSUME NEW state
  PROVE  /\ Definition!Skewed(Matrix(state), 1) = Diagonals(state)
         /\ Definition!Skewed(Diagonals(state), 3) = Matrix(state)
<1> HIDE DEF Bits
<1>1. /\ (0 + 1) % 4 = 1 /\ (0 + 2 * 1) % 4 = 2 /\ (0 + 3 * 1) % 4 = 3
      /\ (1 + 1) % 4 = 2 /\ (1 + 2 * 1) % 4 = 3 /\ (1 + 3 * 1) % 4 = 0
      /\ (2 + 1) % 4 = 3 /\ (2 + 2 * 1) % 4 = 0 /\ (2 + 3 * 1) % 4 = 1
      /\ (3 + 1) % 4 = 0 /\ (3 + 2 * 1) % 4 = 1 /\ (3 + 3 * 1) % 4 = 2
      /\ (0 + 3) % 4 = 3 /\ (0 + 2 * 3) % 4 = 2 /\ (0 + 3 * 3) % 4 = 1
      /\ (1 + 3) % 4 = 0 /\ (1 + 2 * 3) % 4 = 3 /\ (1 + 3 * 3) % 4 = 2
      /\ (2 + 3) % 4 = 1 /\ (2 + 2 * 3) % 4 = 0 /\ (2 + 3 * 3) % 4 = 3
      /\ (3 + 3) % 4 = 2 /\ (3 + 2 * 3) % 4 = 1 /\ (3 + 3 * 3) % 4 = 0
  OBVIOUS
<1>2. Definition!Skewed(Matrix(state), 1) = Diagonals(state)
  BY <1>1 DEF Definition!Skewed, Matrix, Diagonals, Entry, Column, Taken
<1>3. Definition!Skewed(Diagonals(state), 3) = Matrix(state)
  BY <1>1 DEF Definition!Skewed, Matrix, Diagonals, Entry, Column, Taken
<1> QED
  BY <1>2, <1>3

\* The columns are mixed, one after the other.
LEMMA ColumnsMixed ==
  ASSUME NEW s0 \in States, NEW s1, NEW s2, NEW s3, NEW s4,
         NEW x1 \in Word, NEW x2 \in Word, NEW x3 \in Word, NEW x4 \in Word,
         NEW x5 \in Word, NEW x6 \in Word, NEW x7 \in Word, NEW x8 \in Word,
         s1 = Portable!g(s0, <<0, 4, 8, 12>>, x1, x2),
         s2 = Portable!g(s1, <<1, 5, 9, 13>>, x3, x4),
         s3 = Portable!g(s2, <<2, 6, 10, 14>>, x5, x6),
         s4 = Portable!g(s3, <<3, 7, 11, 15>>, x7, x8)
  PROVE  /\ s4 \in States
         /\ Matrix(s4)
              = << Definition!Quarter(Matrix(s0)[1], Bits(x1), Bits(x2)),
                   Definition!Quarter(Matrix(s0)[2], Bits(x3), Bits(x4)),
                   Definition!Quarter(Matrix(s0)[3], Bits(x5), Bits(x6)),
                   Definition!Quarter(Matrix(s0)[4], Bits(x7), Bits(x8)) >>
<1> HIDE DEF Bits, Word
<1>1. /\ s1 \in States
      /\ Entry(s1, <<0, 4, 8, 12>>)
           = Definition!Quarter(Entry(s0, <<0, 4, 8, 12>>), Bits(x1), Bits(x2))
      /\ Entry(s1, <<1, 5, 9, 13>>) = Entry(s0, <<1, 5, 9, 13>>)
      /\ Entry(s1, <<2, 6, 10, 14>>) = Entry(s0, <<2, 6, 10, 14>>)
      /\ Entry(s1, <<3, 7, 11, 15>>) = Entry(s0, <<3, 7, 11, 15>>)
  <2>0. /\ 0 \in 0..15 /\ 4 \in 0..15 /\ 8 \in 0..15 /\ 12 \in 0..15
        /\ 0 # 4 /\ 0 # 8 /\ 0 # 12 /\ 4 # 8 /\ 4 # 12 /\ 8 # 12
    OBVIOUS
  <2>1. Mixes(s0, 0, 4, 8, 12, x1, x2)
    BY <2>0, GIs, Zenon
  <2>2. \A i \in 0..15 \ {0, 4, 8, 12} : s1[i] = s0[i]
    BY <2>1 DEF Mixes
  <2>3. /\ s1[1] = s0[1] /\ s1[5] = s0[5] /\ s1[9] = s0[9] /\ s1[13] = s0[13]
        /\ s1[2] = s0[2] /\ s1[6] = s0[6] /\ s1[10] = s0[10] /\ s1[14] = s0[14]
        /\ s1[3] = s0[3] /\ s1[7] = s0[7] /\ s1[11] = s0[11] /\ s1[15] = s0[15]
    BY <2>2
  <2>4. s1 \in States /\ Entry(s1, <<0, 4, 8, 12>>)
           = Definition!Quarter(Entry(s0, <<0, 4, 8, 12>>), Bits(x1), Bits(x2))
    BY <2>1 DEF Entry, Mixes
  <2>5. /\ Entry(s1, <<1, 5, 9, 13>>) = Entry(s0, <<1, 5, 9, 13>>)
        /\ Entry(s1, <<2, 6, 10, 14>>) = Entry(s0, <<2, 6, 10, 14>>)
        /\ Entry(s1, <<3, 7, 11, 15>>) = Entry(s0, <<3, 7, 11, 15>>)
    BY <2>3 DEF Entry, Taken
  <2> QED
    BY <2>4, <2>5
<1>2. /\ s2 \in States
      /\ Entry(s2, <<1, 5, 9, 13>>)
           = Definition!Quarter(Entry(s1, <<1, 5, 9, 13>>), Bits(x3), Bits(x4))
      /\ Entry(s2, <<0, 4, 8, 12>>) = Entry(s1, <<0, 4, 8, 12>>)
      /\ Entry(s2, <<2, 6, 10, 14>>) = Entry(s1, <<2, 6, 10, 14>>)
      /\ Entry(s2, <<3, 7, 11, 15>>) = Entry(s1, <<3, 7, 11, 15>>)
  <2>0. /\ 1 \in 0..15 /\ 5 \in 0..15 /\ 9 \in 0..15 /\ 13 \in 0..15
        /\ 1 # 5 /\ 1 # 9 /\ 1 # 13 /\ 5 # 9 /\ 5 # 13 /\ 9 # 13
    OBVIOUS
  <2>1. Mixes(s1, 1, 5, 9, 13, x3, x4)
    BY <1>1, <2>0, GIs, Zenon
  <2>2. \A i \in 0..15 \ {1, 5, 9, 13} : s2[i] = s1[i]
    BY <2>1 DEF Mixes
  <2>3. /\ s2[0] = s1[0] /\ s2[4] = s1[4] /\ s2[8] = s1[8] /\ s2[12] = s1[12]
        /\ s2[2] = s1[2] /\ s2[6] = s1[6] /\ s2[10] = s1[10] /\ s2[14] = s1[14]
        /\ s2[3] = s1[3] /\ s2[7] = s1[7] /\ s2[11] = s1[11] /\ s2[15] = s1[15]
    BY <2>2
  <2>4. s2 \in States /\ Entry(s2, <<1, 5, 9, 13>>)
           = Definition!Quarter(Entry(s1, <<1, 5, 9, 13>>), Bits(x3), Bits(x4))
    BY <2>1 DEF Entry, Mixes
  <2>5. /\ Entry(s2, <<0, 4, 8, 12>>) = Entry(s1, <<0, 4, 8, 12>>)
        /\ Entry(s2, <<2, 6, 10, 14>>) = Entry(s1, <<2, 6, 10, 14>>)
        /\ Entry(s2, <<3, 7, 11, 15>>) = Entry(s1, <<3, 7, 11, 15>>)
    BY <2>3 DEF Entry, Taken
  <2> QED
    BY <2>4, <2>5
<1>3. /\ s3 \in States
      /\ Entry(s3, <<2, 6, 10, 14>>)
           = Definition!Quarter(Entry(s2, <<2, 6, 10, 14>>), Bits(x5), Bits(x6))
      /\ Entry(s3, <<0, 4, 8, 12>>) = Entry(s2, <<0, 4, 8, 12>>)
      /\ Entry(s3, <<1, 5, 9, 13>>) = Entry(s2, <<1, 5, 9, 13>>)
      /\ Entry(s3, <<3, 7, 11, 15>>) = Entry(s2, <<3, 7, 11, 15>>)
  <2>0. /\ 2 \in 0..15 /\ 6 \in 0..15 /\ 10 \in 0..15 /\ 14 \in 0..15
        /\ 2 # 6 /\ 2 # 10 /\ 2 # 14 /\ 6 # 10 /\ 6 # 14 /\ 10 # 14
    OBVIOUS
  <2>1. Mixes(s2, 2, 6, 10, 14, x5, x6)
    BY <1>2, <2>0, GIs, Zenon
  <2>2. \A i \in 0..15 \ {2, 6, 10, 14} : s3[i] = s2[i]
    BY <2>1 DEF Mixes
  <2>3. /\ s3[0] = s2[0] /\ s3[4] = s2[4] /\ s3[8] = s2[8] /\ s3[12] = s2[12]
        /\ s3[1] = s2[1] /\ s3[5] = s2[5] /\ s3[9] = s2[9] /\ s3[13] = s2[13]
        /\ s3[3] = s2[3] /\ s3[7] = s2[7] /\ s3[11] = s2[11] /\ s3[15] = s2[15]
    BY <2>2
  <2>4. s3 \in States /\ Entry(s3, <<2, 6, 10, 14>>)
           = Definition!Quarter(Entry(s2, <<2, 6, 10, 14>>), Bits(x5), Bits(x6))
    BY <2>1 DEF Entry, Mixes
  <2>5. /\ Entry(s3, <<0, 4, 8, 12>>) = Entry(s2, <<0, 4, 8, 12>>)
        /\ Entry(s3, <<1, 5, 9, 13>>) = Entry(s2, <<1, 5, 9, 13>>)
        /\ Entry(s3, <<3, 7, 11, 15>>) = Entry(s2, <<3, 7, 11, 15>>)
    BY <2>3 DEF Entry, Taken
  <2> QED
    BY <2>4, <2>5
<1>4. /\ s4 \in States
      /\ Entry(s4, <<3, 7, 11, 15>>)
           = Definition!Quarter(Entry(s3, <<3, 7, 11, 15>>), Bits(x7), Bits(x8))
      /\ Entry(s4, <<0, 4, 8, 12>>) = Entry(s3, <<0, 4, 8, 12>>)
      /\ Entry(s4, <<1, 5, 9, 13>>) = Entry(s3, <<1, 5, 9, 13>>)
      /\ Entry(s4, <<2, 6, 10, 14>>) = Entry(s3, <<2, 6, 10, 14>>)
  <2>0. /\ 3 \in 0..15 /\ 7 \in 0..15 /\ 11 \in 0..15 /\ 15 \in 0..15
        /\ 3 # 7 /\ 3 # 11 /\ 3 # 15 /\ 7 # 11 /\ 7 # 15 /\ 11 # 15
    OBVIOUS
  <2>1. Mixes(s3, 3, 7, 11, 15, x7, x8)
    BY <1>3, <2>0, GIs, Zenon
  <2>2. \A i \in 0..15 \ {3, 7, 11, 15} : s4[i] = s3[i]
    BY <2>1 DEF Mixes
  <2>3. /\ s4[0] = s3[0] /\ s4[4] = s3[4] /\ s4[8] = s3[8] /\ s4[12] = s3[12]
        /\ s4[1] = s3[1] /\ s4[5] = s3[5] /\ s4[9] = s3[9] /\ s4[13] = s3[13]
        /\ s4[2] = s3[2] /\ s4[6] = s3[6] /\ s4[10] = s3[10] /\ s4[14] = s3[14]
    BY <2>2
  <2>4. s4 \in States /\ Entry(s4, <<3, 7, 11, 15>>)
           = Definition!Quarter(Entry(s3, <<3, 7, 11, 15>>), Bits(x7), Bits(x8))
    BY <2>1 DEF Entry, Mixes
  <2>5. /\ Entry(s4, <<0, 4, 8, 12>>) = Entry(s3, <<0, 4, 8, 12>>)
        /\ Entry(s4, <<1, 5, 9, 13>>) = Entry(s3, <<1, 5, 9, 13>>)
        /\ Entry(s4, <<2, 6, 10, 14>>) = Entry(s3, <<2, 6, 10, 14>>)
    BY <2>3 DEF Entry, Taken
  <2> QED
    BY <2>4, <2>5
<1> HIDE DEF Entry
<1> QED
  BY <1>1, <1>2, <1>3, <1>4 DEF Matrix

\* And then the diagonals.
LEMMA DiagonalsMixed ==
  ASSUME NEW s0 \in States, NEW s1, NEW s2, NEW s3, NEW s4,
         NEW x1 \in Word, NEW x2 \in Word, NEW x3 \in Word, NEW x4 \in Word,
         NEW x5 \in Word, NEW x6 \in Word, NEW x7 \in Word, NEW x8 \in Word,
         s1 = Portable!g(s0, <<0, 5, 10, 15>>, x1, x2),
         s2 = Portable!g(s1, <<1, 6, 11, 12>>, x3, x4),
         s3 = Portable!g(s2, <<2, 7, 8, 13>>, x5, x6),
         s4 = Portable!g(s3, <<3, 4, 9, 14>>, x7, x8)
  PROVE  /\ s4 \in States
         /\ Diagonals(s4)
              = << Definition!Quarter(Diagonals(s0)[1], Bits(x1), Bits(x2)),
                   Definition!Quarter(Diagonals(s0)[2], Bits(x3), Bits(x4)),
                   Definition!Quarter(Diagonals(s0)[3], Bits(x5), Bits(x6)),
                   Definition!Quarter(Diagonals(s0)[4], Bits(x7), Bits(x8)) >>
<1> HIDE DEF Bits, Word
<1>1. /\ s1 \in States
      /\ Entry(s1, <<0, 5, 10, 15>>)
           = Definition!Quarter(Entry(s0, <<0, 5, 10, 15>>), Bits(x1), Bits(x2))
      /\ Entry(s1, <<1, 6, 11, 12>>) = Entry(s0, <<1, 6, 11, 12>>)
      /\ Entry(s1, <<2, 7, 8, 13>>) = Entry(s0, <<2, 7, 8, 13>>)
      /\ Entry(s1, <<3, 4, 9, 14>>) = Entry(s0, <<3, 4, 9, 14>>)
  <2>0. /\ 0 \in 0..15 /\ 5 \in 0..15 /\ 10 \in 0..15 /\ 15 \in 0..15
        /\ 0 # 5 /\ 0 # 10 /\ 0 # 15 /\ 5 # 10 /\ 5 # 15 /\ 10 # 15
    OBVIOUS
  <2>1. Mixes(s0, 0, 5, 10, 15, x1, x2)
    BY <2>0, GIs, Zenon
  <2>2. \A i \in 0..15 \ {0, 5, 10, 15} : s1[i] = s0[i]
    BY <2>1 DEF Mixes
  <2>3. /\ s1[1] = s0[1] /\ s1[6] = s0[6] /\ s1[11] = s0[11] /\ s1[12] = s0[12]
        /\ s1[2] = s0[2] /\ s1[7] = s0[7] /\ s1[8] = s0[8] /\ s1[13] = s0[13]
        /\ s1[3] = s0[3] /\ s1[4] = s0[4] /\ s1[9] = s0[9] /\ s1[14] = s0[14]
    BY <2>2
  <2>4. s1 \in States /\ Entry(s1, <<0, 5, 10, 15>>)
           = Definition!Quarter(Entry(s0, <<0, 5, 10, 15>>), Bits(x1), Bits(x2))
    BY <2>1 DEF Entry, Mixes
  <2>5. /\ Entry(s1, <<1, 6, 11, 12>>) = Entry(s0, <<1, 6, 11, 12>>)
        /\ Entry(s1, <<2, 7, 8, 13>>) = Entry(s0, <<2, 7, 8, 13>>)
        /\ Entry(s1, <<3, 4, 9, 14>>) = Entry(s0, <<3, 4, 9, 14>>)
    BY <2>3 DEF Entry, Taken
  <2> QED
    BY <2>4, <2>5
<1>2. /\ s2 \in States
      /\ Entry(s2, <<1, 6, 11, 12>>)
           = Definition!Quarter(Entry(s1, <<1, 6, 11, 12>>), Bits(x3), Bits(x4))
      /\ Entry(s2, <<0, 5, 10, 15>>) = Entry(s1, <<0, 5, 10, 15>>)
      /\ Entry(s2, <<2, 7, 8, 13>>) = Entry(s1, <<2, 7, 8, 13>>)
      /\ Entry(s2, <<3, 4, 9, 14>>) = Entry(s1, <<3, 4, 9, 14>>)
  <2>0. /\ 1 \in 0..15 /\ 6 \in 0..15 /\ 11 \in 0..15 /\ 12 \in 0..15
        /\ 1 # 6 /\ 1 # 11 /\ 1 # 12 /\ 6 # 11 /\ 6 # 12 /\ 11 # 12
    OBVIOUS
  <2>1. Mixes(s1, 1, 6, 11, 12, x3, x4)
    BY <1>1, <2>0, GIs, Zenon
  <2>2. \A i \in 0..15 \ {1, 6, 11, 12} : s2[i] = s1[i]
    BY <2>1 DEF Mixes
  <2>3. /\ s2[0] = s1[0] /\ s2[5] = s1[5] /\ s2[10] = s1[10] /\ s2[15] = s1[15]
        /\ s2[2] = s1[2] /\ s2[7] = s1[7] /\ s2[8] = s1[8] /\ s2[13] = s1[13]
        /\ s2[3] = s1[3] /\ s2[4] = s1[4] /\ s2[9] = s1[9] /\ s2[14] = s1[14]
    BY <2>2
  <2>4. s2 \in States /\ Entry(s2, <<1, 6, 11, 12>>)
           = Definition!Quarter(Entry(s1, <<1, 6, 11, 12>>), Bits(x3), Bits(x4))
    BY <2>1 DEF Entry, Mixes
  <2>5. /\ Entry(s2, <<0, 5, 10, 15>>) = Entry(s1, <<0, 5, 10, 15>>)
        /\ Entry(s2, <<2, 7, 8, 13>>) = Entry(s1, <<2, 7, 8, 13>>)
        /\ Entry(s2, <<3, 4, 9, 14>>) = Entry(s1, <<3, 4, 9, 14>>)
    BY <2>3 DEF Entry, Taken
  <2> QED
    BY <2>4, <2>5
<1>3. /\ s3 \in States
      /\ Entry(s3, <<2, 7, 8, 13>>)
           = Definition!Quarter(Entry(s2, <<2, 7, 8, 13>>), Bits(x5), Bits(x6))
      /\ Entry(s3, <<0, 5, 10, 15>>) = Entry(s2, <<0, 5, 10, 15>>)
      /\ Entry(s3, <<1, 6, 11, 12>>) = Entry(s2, <<1, 6, 11, 12>>)
      /\ Entry(s3, <<3, 4, 9, 14>>) = Entry(s2, <<3, 4, 9, 14>>)
  <2>0. /\ 2 \in 0..15 /\ 7 \in 0..15 /\ 8 \in 0..15 /\ 13 \in 0..15
        /\ 2 # 7 /\ 2 # 8 /\ 2 # 13 /\ 7 # 8 /\ 7 # 13 /\ 8 # 13
    OBVIOUS
  <2>1. Mixes(s2, 2, 7, 8, 13, x5, x6)
    BY <1>2, <2>0, GIs, Zenon
  <2>2. \A i \in 0..15 \ {2, 7, 8, 13} : s3[i] = s2[i]
    BY <2>1 DEF Mixes
  <2>3. /\ s3[0] = s2[0] /\ s3[5] = s2[5] /\ s3[10] = s2[10] /\ s3[15] = s2[15]
        /\ s3[1] = s2[1] /\ s3[6] = s2[6] /\ s3[11] = s2[11] /\ s3[12] = s2[12]
        /\ s3[3] = s2[3] /\ s3[4] = s2[4] /\ s3[9] = s2[9] /\ s3[14] = s2[14]
    BY <2>2
  <2>4. s3 \in States /\ Entry(s3, <<2, 7, 8, 13>>)
           = Definition!Quarter(Entry(s2, <<2, 7, 8, 13>>), Bits(x5), Bits(x6))
    BY <2>1 DEF Entry, Mixes
  <2>5. /\ Entry(s3, <<0, 5, 10, 15>>) = Entry(s2, <<0, 5, 10, 15>>)
        /\ Entry(s3, <<1, 6, 11, 12>>) = Entry(s2, <<1, 6, 11, 12>>)
        /\ Entry(s3, <<3, 4, 9, 14>>) = Entry(s2, <<3, 4, 9, 14>>)
    BY <2>3 DEF Entry, Taken
  <2> QED
    BY <2>4, <2>5
<1>4. /\ s4 \in States
      /\ Entry(s4, <<3, 4, 9, 14>>)
           = Definition!Quarter(Entry(s3, <<3, 4, 9, 14>>), Bits(x7), Bits(x8))
      /\ Entry(s4, <<0, 5, 10, 15>>) = Entry(s3, <<0, 5, 10, 15>>)
      /\ Entry(s4, <<1, 6, 11, 12>>) = Entry(s3, <<1, 6, 11, 12>>)
      /\ Entry(s4, <<2, 7, 8, 13>>) = Entry(s3, <<2, 7, 8, 13>>)
  <2>0. /\ 3 \in 0..15 /\ 4 \in 0..15 /\ 9 \in 0..15 /\ 14 \in 0..15
        /\ 3 # 4 /\ 3 # 9 /\ 3 # 14 /\ 4 # 9 /\ 4 # 14 /\ 9 # 14
    OBVIOUS
  <2>1. Mixes(s3, 3, 4, 9, 14, x7, x8)
    BY <1>3, <2>0, GIs, Zenon
  <2>2. \A i \in 0..15 \ {3, 4, 9, 14} : s4[i] = s3[i]
    BY <2>1 DEF Mixes
  <2>3. /\ s4[0] = s3[0] /\ s4[5] = s3[5] /\ s4[10] = s3[10] /\ s4[15] = s3[15]
        /\ s4[1] = s3[1] /\ s4[6] = s3[6] /\ s4[11] = s3[11] /\ s4[12] = s3[12]
        /\ s4[2] = s3[2] /\ s4[7] = s3[7] /\ s4[8] = s3[8] /\ s4[13] = s3[13]
    BY <2>2
  <2>4. s4 \in States /\ Entry(s4, <<3, 4, 9, 14>>)
           = Definition!Quarter(Entry(s3, <<3, 4, 9, 14>>), Bits(x7), Bits(x8))
    BY <2>1 DEF Entry, Mixes
  <2>5. /\ Entry(s4, <<0, 5, 10, 15>>) = Entry(s3, <<0, 5, 10, 15>>)
        /\ Entry(s4, <<1, 6, 11, 12>>) = Entry(s3, <<1, 6, 11, 12>>)
        /\ Entry(s4, <<2, 7, 8, 13>>) = Entry(s3, <<2, 7, 8, 13>>)
    BY <2>3 DEF Entry, Taken
  <2> QED
    BY <2>4, <2>5
<1> HIDE DEF Entry
<1> QED
  BY <1>1, <1>2, <1>3, <1>4 DEF Diagonals

\* A round of the definition, on a function of message words.
HalfBy(s, w, first) ==
  << Definition!Quarter(s[1], w[first], w[first + 1]),
     Definition!Quarter(s[2], w[first + 2], w[first + 3]),
     Definition!Quarter(s[3], w[first + 4], w[first + 5]),
     Definition!Quarter(s[4], w[first + 6], w[first + 7]) >>

RoundBy(s, w) ==
  Definition!Skewed(HalfBy(Definition!Skewed(HalfBy(s, w, 0), 1), w, 8), 3)

\* The message words in the order of a round.
InOrder(msg, round) == [i \in 0..15 |-> Bits(msg[Scheduled(round, i)])]

\* round_fn goes through the columns and then the diagonals.
LEMMA RoundSteps ==
  ASSUME NEW state, NEW msg, NEW round
  PROVE  \E s : /\ s[0] = state
                /\ Portable!round_fn(state, msg, round) = s[8]
                /\ s[1] = Portable!g(s[0], <<0, 4, 8, 12>>, msg[Scheduled(round, 0)],
                                     msg[Scheduled(round, 1)])
                /\ s[2] = Portable!g(s[1], <<1, 5, 9, 13>>, msg[Scheduled(round, 2)],
                                     msg[Scheduled(round, 3)])
                /\ s[3] = Portable!g(s[2], <<2, 6, 10, 14>>, msg[Scheduled(round, 4)],
                                     msg[Scheduled(round, 5)])
                /\ s[4] = Portable!g(s[3], <<3, 7, 11, 15>>, msg[Scheduled(round, 6)],
                                     msg[Scheduled(round, 7)])
                /\ s[5] = Portable!g(s[4], <<0, 5, 10, 15>>, msg[Scheduled(round, 8)],
                                     msg[Scheduled(round, 9)])
                /\ s[6] = Portable!g(s[5], <<1, 6, 11, 12>>, msg[Scheduled(round, 10)],
                                     msg[Scheduled(round, 11)])
                /\ s[7] = Portable!g(s[6], <<2, 7, 8, 13>>, msg[Scheduled(round, 12)],
                                     msg[Scheduled(round, 13)])
                /\ s[8] = Portable!g(s[7], <<3, 4, 9, 14>>, msg[Scheduled(round, 14)],
                                     msg[Scheduled(round, 15)])
<1> DEFINE m(i) == msg[Portable!schedule_of(round)[i]]
           Step(k, st) == Portable!g(st, Portable!Mixed[k], m(2 * k - 1), m(2 * k))
           Steps(f) == [k \in 0..8 |-> IF k = 0 THEN state ELSE Step(k, f[k-1])]
           s1 == Step(1, state)
           s2 == Step(2, s1)
           s3 == Step(3, s2)
           s4 == Step(4, s3)
           s5 == Step(5, s4)
           s6 == Step(6, s5)
           s7 == Step(7, s6)
           s8 == Step(8, s7)
           f == [k \in 0..8 |-> IF k = 0 THEN state
                                ELSE IF k = 1 THEN s1
                                ELSE IF k = 2 THEN s2
                                ELSE IF k = 3 THEN s3
                                ELSE IF k = 4 THEN s4
                                ELSE IF k = 5 THEN s5
                                ELSE IF k = 6 THEN s6
                                ELSE IF k = 7 THEN s7
                                ELSE s8]
           s == CHOOSE h : h = Steps(h)
<1>1. f = Steps(f)
  <2> HIDE DEF Step
  <2>1. /\ f[0] = state /\ f[1] = s1 /\ f[2] = s2 /\ f[3] = s3 /\ f[4] = s4
        /\ f[5] = s5 /\ f[6] = s6 /\ f[7] = s7 /\ f[8] = s8
    <3> HIDE DEF s1, s2, s3, s4, s5, s6, s7, s8
    <3> QED
      OBVIOUS
  <2>2. f = [k \in 0..8 |-> f[k]]
    OBVIOUS
  <2> HIDE DEF f
  <2>3. ASSUME NEW k \in 0..8 PROVE f[k] = IF k = 0 THEN state ELSE Step(k, f[k-1])
    <3>1. \/ k = 0
          \/ k = 1 /\ k - 1 = 0
          \/ k = 2 /\ k - 1 = 1
          \/ k = 3 /\ k - 1 = 2
          \/ k = 4 /\ k - 1 = 3
          \/ k = 5 /\ k - 1 = 4
          \/ k = 6 /\ k - 1 = 5
          \/ k = 7 /\ k - 1 = 6
          \/ k = 8 /\ k - 1 = 7
      OBVIOUS
    <3> QED
      BY <2>1, <3>1
  <2> QED
    BY <2>2, <2>3
<1>2. Portable!round_fn(state, msg, round) = s[8]
  BY DEF Portable!round_fn
<1>3. s = Steps(s)
  <2> HIDE DEF f, Steps
  <2> QED
    BY <1>1
<1> HIDE DEF s, f, Step
<1>4. s[0] = state /\ \A k \in 1..8 : s[k] = Step(k, s[k - 1])
  <2>1. \A k \in 0..8 : s[k] = IF k = 0 THEN state ELSE Step(k, s[k - 1])
    BY <1>3
  <2>2. 0 \in 0..8 /\ \A k \in 1..8 : k \in 0..8 /\ k # 0
    OBVIOUS
  <2> HIDE DEF Steps
  <2> QED
    BY <2>1, <2>2
<1> HIDE DEF Steps
<1>5. s[1] = Portable!g(s[0], <<0, 4, 8, 12>>, msg[Scheduled(round, 0)], msg[Scheduled(round, 1)])
  <2>1. 1 \in 1..8 /\ 1 - 1 = 0 /\ 2 * 1 - 1 = 0 + 1 /\ 2 * 1 = 1 + 1
    OBVIOUS
  <2>2. s[1] = Step(1, s[0])
    BY <1>4, <2>1, Zenon
  <2>3. Portable!Mixed[1] = <<0, 4, 8, 12>>
    BY DEF Portable!Mixed
  <2>4. Step(1, s[0]) = Portable!g(s[0], <<0, 4, 8, 12>>, m(0 + 1), m(1 + 1))
    BY <2>1, <2>3, Zenon DEF Step
  <2> QED
    BY <2>2, <2>4, Zenon DEF Scheduled
<1>6. s[2] = Portable!g(s[1], <<1, 5, 9, 13>>, msg[Scheduled(round, 2)], msg[Scheduled(round, 3)])
  <2>1. 2 \in 1..8 /\ 2 - 1 = 1 /\ 2 * 2 - 1 = 2 + 1 /\ 2 * 2 = 3 + 1
    OBVIOUS
  <2>2. s[2] = Step(2, s[1])
    BY <1>4, <2>1, Zenon
  <2>3. Portable!Mixed[2] = <<1, 5, 9, 13>>
    BY DEF Portable!Mixed
  <2>4. Step(2, s[1]) = Portable!g(s[1], <<1, 5, 9, 13>>, m(2 + 1), m(3 + 1))
    BY <2>1, <2>3, Zenon DEF Step
  <2> QED
    BY <2>2, <2>4, Zenon DEF Scheduled
<1>7. s[3] = Portable!g(s[2], <<2, 6, 10, 14>>, msg[Scheduled(round, 4)], msg[Scheduled(round, 5)])
  <2>1. 3 \in 1..8 /\ 3 - 1 = 2 /\ 2 * 3 - 1 = 4 + 1 /\ 2 * 3 = 5 + 1
    OBVIOUS
  <2>2. s[3] = Step(3, s[2])
    BY <1>4, <2>1, Zenon
  <2>3. Portable!Mixed[3] = <<2, 6, 10, 14>>
    BY DEF Portable!Mixed
  <2>4. Step(3, s[2]) = Portable!g(s[2], <<2, 6, 10, 14>>, m(4 + 1), m(5 + 1))
    BY <2>1, <2>3, Zenon DEF Step
  <2> QED
    BY <2>2, <2>4, Zenon DEF Scheduled
<1>8. s[4] = Portable!g(s[3], <<3, 7, 11, 15>>, msg[Scheduled(round, 6)], msg[Scheduled(round, 7)])
  <2>1. 4 \in 1..8 /\ 4 - 1 = 3 /\ 2 * 4 - 1 = 6 + 1 /\ 2 * 4 = 7 + 1
    OBVIOUS
  <2>2. s[4] = Step(4, s[3])
    BY <1>4, <2>1, Zenon
  <2>3. Portable!Mixed[4] = <<3, 7, 11, 15>>
    BY DEF Portable!Mixed
  <2>4. Step(4, s[3]) = Portable!g(s[3], <<3, 7, 11, 15>>, m(6 + 1), m(7 + 1))
    BY <2>1, <2>3, Zenon DEF Step
  <2> QED
    BY <2>2, <2>4, Zenon DEF Scheduled
<1>9. s[5] = Portable!g(s[4], <<0, 5, 10, 15>>, msg[Scheduled(round, 8)], msg[Scheduled(round, 9)])
  <2>1. 5 \in 1..8 /\ 5 - 1 = 4 /\ 2 * 5 - 1 = 8 + 1 /\ 2 * 5 = 9 + 1
    OBVIOUS
  <2>2. s[5] = Step(5, s[4])
    BY <1>4, <2>1, Zenon
  <2>3. Portable!Mixed[5] = <<0, 5, 10, 15>>
    BY DEF Portable!Mixed
  <2>4. Step(5, s[4]) = Portable!g(s[4], <<0, 5, 10, 15>>, m(8 + 1), m(9 + 1))
    BY <2>1, <2>3, Zenon DEF Step
  <2> QED
    BY <2>2, <2>4, Zenon DEF Scheduled
<1>10. s[6] = Portable!g(s[5], <<1, 6, 11, 12>>, msg[Scheduled(round, 10)], msg[Scheduled(round, 11)])
  <2>1. 6 \in 1..8 /\ 6 - 1 = 5 /\ 2 * 6 - 1 = 10 + 1 /\ 2 * 6 = 11 + 1
    OBVIOUS
  <2>2. s[6] = Step(6, s[5])
    BY <1>4, <2>1, Zenon
  <2>3. Portable!Mixed[6] = <<1, 6, 11, 12>>
    BY DEF Portable!Mixed
  <2>4. Step(6, s[5]) = Portable!g(s[5], <<1, 6, 11, 12>>, m(10 + 1), m(11 + 1))
    BY <2>1, <2>3, Zenon DEF Step
  <2> QED
    BY <2>2, <2>4, Zenon DEF Scheduled
<1>11. s[7] = Portable!g(s[6], <<2, 7, 8, 13>>, msg[Scheduled(round, 12)], msg[Scheduled(round, 13)])
  <2>1. 7 \in 1..8 /\ 7 - 1 = 6 /\ 2 * 7 - 1 = 12 + 1 /\ 2 * 7 = 13 + 1
    OBVIOUS
  <2>2. s[7] = Step(7, s[6])
    BY <1>4, <2>1, Zenon
  <2>3. Portable!Mixed[7] = <<2, 7, 8, 13>>
    BY DEF Portable!Mixed
  <2>4. Step(7, s[6]) = Portable!g(s[6], <<2, 7, 8, 13>>, m(12 + 1), m(13 + 1))
    BY <2>1, <2>3, Zenon DEF Step
  <2> QED
    BY <2>2, <2>4, Zenon DEF Scheduled
<1>12. s[8] = Portable!g(s[7], <<3, 4, 9, 14>>, msg[Scheduled(round, 14)], msg[Scheduled(round, 15)])
  <2>1. 8 \in 1..8 /\ 8 - 1 = 7 /\ 2 * 8 - 1 = 14 + 1 /\ 2 * 8 = 15 + 1
    OBVIOUS
  <2>2. s[8] = Step(8, s[7])
    BY <1>4, <2>1, Zenon
  <2>3. Portable!Mixed[8] = <<3, 4, 9, 14>>
    BY DEF Portable!Mixed
  <2>4. Step(8, s[7]) = Portable!g(s[7], <<3, 4, 9, 14>>, m(14 + 1), m(15 + 1))
    BY <2>1, <2>3, Zenon DEF Step
  <2> QED
    BY <2>2, <2>4, Zenon DEF Scheduled
<1> QED
  BY <1>2, <1>4, <1>5, <1>6, <1>7, <1>8, <1>9, <1>10, <1>11, <1>12

\* A round of the code is one of the definition.
LEMMA RoundIs ==
  ASSUME NEW state \in States, NEW msg \in States, NEW round \in 0..6
  PROVE  /\ Portable!round_fn(state, msg, round) \in States
         /\ Matrix(Portable!round_fn(state, msg, round))
              = RoundBy(Matrix(state), InOrder(msg, round))
<1> DEFINE w(i) == msg[Scheduled(round, i)]
           x == InOrder(msg, round)
<1>1. PICK s : /\ s[0] = state
               /\ Portable!round_fn(state, msg, round) = s[8]
               /\ s[1] = Portable!g(s[0], <<0, 4, 8, 12>>, w(0), w(1))
               /\ s[2] = Portable!g(s[1], <<1, 5, 9, 13>>, w(2), w(3))
               /\ s[3] = Portable!g(s[2], <<2, 6, 10, 14>>, w(4), w(5))
               /\ s[4] = Portable!g(s[3], <<3, 7, 11, 15>>, w(6), w(7))
               /\ s[5] = Portable!g(s[4], <<0, 5, 10, 15>>, w(8), w(9))
               /\ s[6] = Portable!g(s[5], <<1, 6, 11, 12>>, w(10), w(11))
               /\ s[7] = Portable!g(s[6], <<2, 7, 8, 13>>, w(12), w(13))
               /\ s[8] = Portable!g(s[7], <<3, 4, 9, 14>>, w(14), w(15))
  BY RoundSteps
<1>2. \A i \in 0..15 : w(i) \in Word /\ x[i] = Bits(w(i))
  <2> HIDE DEF Word
  <2> QED
    BY RowsFollow DEF InOrder, States
<1> HIDE DEF w, x
<1>3. /\ w(0) \in Word /\ w(1) \in Word /\ w(2) \in Word /\ w(3) \in Word
      /\ w(4) \in Word /\ w(5) \in Word /\ w(6) \in Word /\ w(7) \in Word
      /\ w(8) \in Word /\ w(9) \in Word /\ w(10) \in Word /\ w(11) \in Word
      /\ w(12) \in Word /\ w(13) \in Word /\ w(14) \in Word /\ w(15) \in Word
  BY <1>2
<1>4. /\ x[0] = Bits(w(0)) /\ x[1] = Bits(w(1)) /\ x[2] = Bits(w(2)) /\ x[3] = Bits(w(3))
      /\ x[4] = Bits(w(4)) /\ x[5] = Bits(w(5)) /\ x[6] = Bits(w(6)) /\ x[7] = Bits(w(7))
      /\ x[8] = Bits(w(8)) /\ x[9] = Bits(w(9)) /\ x[10] = Bits(w(10)) /\ x[11] = Bits(w(11))
      /\ x[12] = Bits(w(12)) /\ x[13] = Bits(w(13)) /\ x[14] = Bits(w(14)) /\ x[15] = Bits(w(15))
  BY <1>2
<1>5. /\ s[4] \in States
      /\ Matrix(s[4]) = << Definition!Quarter(Matrix(s[0])[1], Bits(w(0)), Bits(w(1))),
                           Definition!Quarter(Matrix(s[0])[2], Bits(w(2)), Bits(w(3))),
                           Definition!Quarter(Matrix(s[0])[3], Bits(w(4)), Bits(w(5))),
                           Definition!Quarter(Matrix(s[0])[4], Bits(w(6)), Bits(w(7))) >>
  BY <1>1, <1>3, ColumnsMixed
<1>6. /\ s[8] \in States
      /\ Diagonals(s[8]) = << Definition!Quarter(Diagonals(s[4])[1], Bits(w(8)), Bits(w(9))),
                              Definition!Quarter(Diagonals(s[4])[2], Bits(w(10)), Bits(w(11))),
                              Definition!Quarter(Diagonals(s[4])[3], Bits(w(12)), Bits(w(13))),
                              Definition!Quarter(Diagonals(s[4])[4], Bits(w(14)), Bits(w(15))) >>
  BY <1>1, <1>3, <1>5, DiagonalsMixed
<1>7. Matrix(s[4]) = HalfBy(Matrix(state), x, 0)
  <2>1. /\ 0 + 1 = 1 /\ 0 + 2 = 2 /\ 0 + 3 = 3 /\ 0 + 4 = 4 /\ 0 + 5 = 5 /\ 0 + 6 = 6 /\ 0 + 7 = 7
    OBVIOUS
  <2> QED
    BY <1>1, <1>4, <1>5, <2>1 DEF HalfBy
<1>8. Diagonals(s[8]) = HalfBy(Diagonals(s[4]), x, 8)
  <2>1. /\ 8 + 1 = 9 /\ 8 + 2 = 10 /\ 8 + 3 = 11 /\ 8 + 4 = 12 /\ 8 + 5 = 13 /\ 8 + 6 = 14
        /\ 8 + 7 = 15
    OBVIOUS
  <2> QED
    BY <1>4, <1>6, <2>1 DEF HalfBy
<1>9. Matrix(s[8]) = RoundBy(Matrix(state), x)
  BY <1>7, <1>8, SkewedIs DEF RoundBy
<1> QED
  BY <1>1, <1>6, <1>9 DEF x

-----------------------------------------------------------------------------
(***************************************************************************)
(* The seven rounds.                                                       *)
(***************************************************************************)
Prepared(cv, len, counter, flags) ==
  [i \in 0..15 |->
     IF i < 8 THEN cv[i]
     ELSE IF i < 12 THEN Portable!IV[i - 8]
     ELSE << Portable!counter_low(counter), Portable!counter_high(counter),
             Portable!ByteWord(len), Portable!ByteWord(flags) >>[i - 11]]

\* compress_pre goes through seven rounds.
LEMMA PreSteps ==
  ASSUME NEW cv, NEW block, NEW len, NEW counter, NEW flags
  PROVE  \E r : /\ r[0] = Prepared(cv, len, counter, flags)
                /\ Portable!compress_pre(cv, block, len, counter, flags) = r[7]
                /\ \A k \in 1..7 :
                     r[k] = Portable!round_fn(r[k-1], Portable!load_block_words(block), k - 1)
<1> DEFINE start == Prepared(cv, len, counter, flags)
           msg == Portable!load_block_words(block)
           Step(k, st) == Portable!round_fn(st, msg, k - 1)
           Steps(f) == [k \in 0..7 |-> IF k = 0 THEN start ELSE Step(k, f[k-1])]
           s1 == Step(1, start)
           s2 == Step(2, s1)
           s3 == Step(3, s2)
           s4 == Step(4, s3)
           s5 == Step(5, s4)
           s6 == Step(6, s5)
           s7 == Step(7, s6)
           f == [k \in 0..7 |-> IF k = 0 THEN start
                                ELSE IF k = 1 THEN s1
                                ELSE IF k = 2 THEN s2
                                ELSE IF k = 3 THEN s3
                                ELSE IF k = 4 THEN s4
                                ELSE IF k = 5 THEN s5
                                ELSE IF k = 6 THEN s6
                                ELSE s7]
           r == CHOOSE h : h = Steps(h)
<1>1. f = Steps(f)
  <2> HIDE DEF Step, start
  <2>1. /\ f[0] = start /\ f[1] = s1 /\ f[2] = s2 /\ f[3] = s3 /\ f[4] = s4
        /\ f[5] = s5 /\ f[6] = s6 /\ f[7] = s7
    <3> HIDE DEF s1, s2, s3, s4, s5, s6, s7
    <3> QED
      OBVIOUS
  <2>2. f = [k \in 0..7 |-> f[k]]
    OBVIOUS
  <2> HIDE DEF f
  <2>3. ASSUME NEW k \in 0..7 PROVE f[k] = IF k = 0 THEN start ELSE Step(k, f[k-1])
    <3>1. \/ k = 0
          \/ k = 1 /\ k - 1 = 0
          \/ k = 2 /\ k - 1 = 1
          \/ k = 3 /\ k - 1 = 2
          \/ k = 4 /\ k - 1 = 3
          \/ k = 5 /\ k - 1 = 4
          \/ k = 6 /\ k - 1 = 5
          \/ k = 7 /\ k - 1 = 6
      OBVIOUS
    <3> QED
      BY <2>1, <3>1
  <2> QED
    BY <2>2, <2>3
<1>2. Portable!compress_pre(cv, block, len, counter, flags) = r[7]
  BY DEF Portable!compress_pre, Prepared
<1>3. r = Steps(r)
  <2> HIDE DEF f, Steps
  <2> QED
    BY <1>1
<1> HIDE DEF r, f, Step, start
<1>4. r[0] = start /\ \A k \in 1..7 : r[k] = Step(k, r[k - 1])
  <2>1. \A k \in 0..7 : r[k] = IF k = 0 THEN start ELSE Step(k, r[k - 1])
    BY <1>3
  <2>2. 0 \in 0..7 /\ \A k \in 1..7 : k \in 0..7 /\ k # 0
    OBVIOUS
  <2> HIDE DEF Steps
  <2> QED
    BY <2>1, <2>2
<1> QED
  BY <1>2, <1>4 DEF Step, start

\* The definition too, from its first matrix.
FirstMatrix(cv, parameters) ==
  LET column(i) == << Bits(cv[i]), Bits(cv[4 + i]), Bits(Definition!InitialVector[i]),
                      Bits(parameters[i]) >>
  IN  <<column(1), column(2), column(3), column(4)>>

MessageOf(message, r) ==
  [i \in 0..15 |-> Bits(message[Definition!InPlace[r][i] + 1])]

Chained(cv, end) ==
  LET word(k) == end[1 + (k % 4)][1 + (k \div 4)]
  IN  [k \in 0..15 |->
         IF k < 8 THEN Definition!Either(word(k), word(k + 8))
         ELSE Definition!Either(word(k), Bits(cv[k - 7]))]

\* The definition goes from its first matrix through seven rounds.
LEMMA ReferenceSteps ==
  ASSUME NEW cv, NEW message, NEW parameters
  PROVE  \E s : /\ s[0] = FirstMatrix(cv, parameters)
                /\ Definition!Compression(cv, message, parameters) = Chained(cv, s[7])
                /\ \A k \in 1..7 : s[k] = RoundBy(s[k-1], MessageOf(message, k - 1))
<1> DEFINE start == FirstMatrix(cv, parameters)
           m(q, i) == Bits(message[Definition!InPlace[q][i] + 1])
           Step(k, st) == Definition!Round(st, LAMBDA i : m(k - 1, i))
           Steps(f) == [k \in 0..7 |-> IF k = 0 THEN start ELSE Step(k, f[k-1])]
           s1 == Step(1, start)
           s2 == Step(2, s1)
           s3 == Step(3, s2)
           s4 == Step(4, s3)
           s5 == Step(5, s4)
           s6 == Step(6, s5)
           s7 == Step(7, s6)
           f == [k \in 0..7 |-> IF k = 0 THEN start
                                ELSE IF k = 1 THEN s1
                                ELSE IF k = 2 THEN s2
                                ELSE IF k = 3 THEN s3
                                ELSE IF k = 4 THEN s4
                                ELSE IF k = 5 THEN s5
                                ELSE IF k = 6 THEN s6
                                ELSE s7]
           s == CHOOSE h : h = Steps(h)
<1>1. f = Steps(f)
  <2> HIDE DEF Step, start
  <2>1. /\ f[0] = start /\ f[1] = s1 /\ f[2] = s2 /\ f[3] = s3 /\ f[4] = s4
        /\ f[5] = s5 /\ f[6] = s6 /\ f[7] = s7
    <3> HIDE DEF s1, s2, s3, s4, s5, s6, s7
    <3> QED
      OBVIOUS
  <2>2. f = [k \in 0..7 |-> f[k]]
    OBVIOUS
  <2> HIDE DEF f
  <2>3. ASSUME NEW k \in 0..7 PROVE f[k] = IF k = 0 THEN start ELSE Step(k, f[k-1])
    <3>1. \/ k = 0
          \/ k = 1 /\ k - 1 = 0
          \/ k = 2 /\ k - 1 = 1
          \/ k = 3 /\ k - 1 = 2
          \/ k = 4 /\ k - 1 = 3
          \/ k = 5 /\ k - 1 = 4
          \/ k = 6 /\ k - 1 = 5
          \/ k = 7 /\ k - 1 = 6
      OBVIOUS
    <3> QED
      BY <2>1, <3>1
  <2> QED
    BY <2>2, <2>3
<1>2. Definition!Compression(cv, message, parameters) = Chained(cv, s[7])
  BY DEF Definition!Compression, Chained, FirstMatrix, Bits
<1>3. s = Steps(s)
  <2> HIDE DEF f, Steps
  <2> QED
    BY <1>1
<1> HIDE DEF s, f, Steps, s1, s2, s3, s4, s5, s6, s7
<1>4. ASSUME NEW k \in 1..7, NEW st
      PROVE  Step(k, st) = RoundBy(st, MessageOf(message, k - 1))
  <2> DEFINE w == MessageOf(message, k - 1)
  <2>1. \A i \in 0..15 : w[i] = m(k - 1, i)
    BY DEF MessageOf
  <2> HIDE DEF w, m
  <2>2. /\ w[0] = m(k - 1, 0) /\ w[0 + 1] = m(k - 1, 0 + 1)
        /\ w[0 + 2] = m(k - 1, 0 + 2) /\ w[0 + 3] = m(k - 1, 0 + 3)
        /\ w[0 + 4] = m(k - 1, 0 + 4) /\ w[0 + 5] = m(k - 1, 0 + 5)
        /\ w[0 + 6] = m(k - 1, 0 + 6) /\ w[0 + 7] = m(k - 1, 0 + 7)
        /\ w[8] = m(k - 1, 8) /\ w[8 + 1] = m(k - 1, 8 + 1)
        /\ w[8 + 2] = m(k - 1, 8 + 2) /\ w[8 + 3] = m(k - 1, 8 + 3)
        /\ w[8 + 4] = m(k - 1, 8 + 4) /\ w[8 + 5] = m(k - 1, 8 + 5)
        /\ w[8 + 6] = m(k - 1, 8 + 6) /\ w[8 + 7] = m(k - 1, 8 + 7)
    BY <2>1
  <2> QED
    BY <2>2, Zenon DEF Definition!Round, Definition!Half, RoundBy, HalfBy, w
<1> HIDE DEF Step, start
<1>5. s[0] = start /\ \A k \in 1..7 : s[k] = Step(k, s[k - 1])
  <2>1. \A k \in 0..7 : s[k] = IF k = 0 THEN start ELSE Step(k, s[k - 1])
    BY <1>3 DEF Steps
  <2>2. 0 \in 0..7 /\ \A k \in 1..7 : k \in 0..7 /\ k # 0
    OBVIOUS
  <2> QED
    BY <2>1, <2>2
<1> QED
  BY <1>2, <1>4, <1>5 DEF start

\* The words of the initial vector.
LEMMA VectorIs ==
  \A i \in 0..7 : /\ Portable!IV[i] \in Word
                  /\ Portable!IV[i] = Definition!InitialVector[i + 1]
<1>1. Portable!IV[0] \in Word /\ Portable!IV[0] = Definition!InitialVector[0 + 1]
  <2>1. Portable!IV[0] = <<103, 230, 9, 106>>
    BY DEF Portable!IV
  <2>2. Definition!InitialVector[0 + 1] = <<103, 230, 9, 106>>
    BY DEF Definition!InitialVector
  <2>3. <<103, 230, 9, 106>> \in Word
    BY DEF Word, Byte
  <2> QED
    BY <2>1, <2>2, <2>3
<1>2. Portable!IV[1] \in Word /\ Portable!IV[1] = Definition!InitialVector[1 + 1]
  <2>1. Portable!IV[1] = <<133, 174, 103, 187>>
    BY DEF Portable!IV
  <2>2. Definition!InitialVector[1 + 1] = <<133, 174, 103, 187>>
    BY DEF Definition!InitialVector
  <2>3. <<133, 174, 103, 187>> \in Word
    BY DEF Word, Byte
  <2> QED
    BY <2>1, <2>2, <2>3
<1>3. Portable!IV[2] \in Word /\ Portable!IV[2] = Definition!InitialVector[2 + 1]
  <2>1. Portable!IV[2] = <<114, 243, 110, 60>>
    BY DEF Portable!IV
  <2>2. Definition!InitialVector[2 + 1] = <<114, 243, 110, 60>>
    BY DEF Definition!InitialVector
  <2>3. <<114, 243, 110, 60>> \in Word
    BY DEF Word, Byte
  <2> QED
    BY <2>1, <2>2, <2>3
<1>4. Portable!IV[3] \in Word /\ Portable!IV[3] = Definition!InitialVector[3 + 1]
  <2>1. Portable!IV[3] = <<58, 245, 79, 165>>
    BY DEF Portable!IV
  <2>2. Definition!InitialVector[3 + 1] = <<58, 245, 79, 165>>
    BY DEF Definition!InitialVector
  <2>3. <<58, 245, 79, 165>> \in Word
    BY DEF Word, Byte
  <2> QED
    BY <2>1, <2>2, <2>3
<1>5. Portable!IV[4] \in Word /\ Portable!IV[4] = Definition!InitialVector[4 + 1]
  <2>1. Portable!IV[4] = <<127, 82, 14, 81>>
    BY DEF Portable!IV
  <2>2. Definition!InitialVector[4 + 1] = <<127, 82, 14, 81>>
    BY DEF Definition!InitialVector
  <2>3. <<127, 82, 14, 81>> \in Word
    BY DEF Word, Byte
  <2> QED
    BY <2>1, <2>2, <2>3
<1>6. Portable!IV[5] \in Word /\ Portable!IV[5] = Definition!InitialVector[5 + 1]
  <2>1. Portable!IV[5] = <<140, 104, 5, 155>>
    BY DEF Portable!IV
  <2>2. Definition!InitialVector[5 + 1] = <<140, 104, 5, 155>>
    BY DEF Definition!InitialVector
  <2>3. <<140, 104, 5, 155>> \in Word
    BY DEF Word, Byte
  <2> QED
    BY <2>1, <2>2, <2>3
<1>7. Portable!IV[6] \in Word /\ Portable!IV[6] = Definition!InitialVector[6 + 1]
  <2>1. Portable!IV[6] = <<171, 217, 131, 31>>
    BY DEF Portable!IV
  <2>2. Definition!InitialVector[6 + 1] = <<171, 217, 131, 31>>
    BY DEF Definition!InitialVector
  <2>3. <<171, 217, 131, 31>> \in Word
    BY DEF Word, Byte
  <2> QED
    BY <2>1, <2>2, <2>3
<1>8. Portable!IV[7] \in Word /\ Portable!IV[7] = Definition!InitialVector[7 + 1]
  <2>1. Portable!IV[7] = <<25, 205, 224, 91>>
    BY DEF Portable!IV
  <2>2. Definition!InitialVector[7 + 1] = <<25, 205, 224, 91>>
    BY DEF Definition!InitialVector
  <2>3. <<25, 205, 224, 91>> \in Word
    BY DEF Word, Byte
  <2> QED
    BY <2>1, <2>2, <2>3
<1>9. \A i \in 0..7 : i = 0 \/ i = 1 \/ i = 2 \/ i = 3 \/ i = 4 \/ i = 5 \/ i = 6 \/ i = 7
  OBVIOUS
<1> QED
  BY <1>1, <1>2, <1>3, <1>4, <1>5, <1>6, <1>7, <1>8, <1>9

-----------------------------------------------------------------------------
(***************************************************************************)
(* Words loaded and stored.                                                *)
(***************************************************************************)
\* A sequence of four bytes is a word.
LEMMA FourIsWord ==
  ASSUME NEW s, IsSeq(s), Len(s) = 4, \A j \in 1..4 : s[j] \in Byte
  PROVE  s \in Word
<1> DEFINE t == <<s[1], s[2], s[3], s[4]>>
<1>1. t \in Word
  BY DEF Word
<1>2. IsSeq(t) /\ Len(t) = 4
  <2>1. Len(t) = 4 /\ t = [i \in 1..4 |-> t[i]]
    OBVIOUS
  <2> HIDE DEF t
  <2> QED
    BY <2>1 DEF IsSeq
<1>3. ASSUME NEW i \in 1..4 PROVE s[i] = t[i]
  <2>1. i = 1 \/ i = 2 \/ i = 3 \/ i = 4
    OBVIOUS
  <2> QED
    BY <2>1
<1> HIDE DEF t
<1>4. s = t
  BY <1>2, <1>3, SameSeq
<1> QED
  BY <1>1, <1>4

\* The word at an offset.
LEMMA LoadedIs ==
  ASSUME NEW s, NEW i \in Nat, \A j \in 1..4 : s[4 * i + j] \in Byte
  PROVE  SubSeq(s, 4 * i + 1, 4 * i + 4) \in Word
<1> DEFINE t == SubSeq(s, 4 * i + 1, 4 * i + 4)
           m == 4 * i + 1
           n == 4 * i + 4
<1>1. m \in Nat /\ n \in Nat /\ m <= n + 1 /\ n - m + 1 = 4
  OBVIOUS
<1>2. \A j \in 1..4 : m + j - 1 = 4 * i + j
  OBVIOUS
<1>3. t = SubSeq(s, m, n)
  OBVIOUS
<1> HIDE DEF m, n, t
<1>4. IsSeq(t) /\ Len(t) = 4 /\ \A j \in 1..4 : t[j] = s[m + j - 1]
  BY <1>1, <1>3, SubSeqIs
<1>5. \A j \in 1..4 : t[j] \in Byte
  BY <1>2, <1>4
<1>6. t \in Word
  BY <1>4, <1>5, FourIsWord
<1> QED
  BY <1>6 DEF t

\* A stored word is at its offset.
LEMMA StoredIs ==
  ASSUME NEW n \in Nat, NEW w, \A k \in 0..(n - 1) : w[k] \in Word
  PROVE  LET b == store_words(w, n)
         IN  /\ IsSeq(b) /\ Len(b) = 4 * n
             /\ \A i \in 1..(4 * n) : b[i] = w[(i - 1) \div 4][1 + ((i - 1) % 4)]
             /\ \A k \in 0..(n - 1) : SubSeq(b, 4 * k + 1, 4 * k + 4) = w[k]
<1> DEFINE b == store_words(w, n)
           N == 4 * n
<1>1. N \in Nat
  OBVIOUS
<1>2. b = [i \in 1..N |-> w[(i - 1) \div 4][1 + ((i - 1) % 4)]]
  BY DEF store_words
<1> HIDE DEF b
<1>3. IsSeq(b) /\ Len(b) = N
  <2>1. b = [i \in 1..N |-> b[i]]
    BY <1>2
  <2> HIDE DEF N
  <2> QED
    BY <1>1, <2>1, SeqOf
<1>4. \A i \in 1..N : b[i] = w[(i - 1) \div 4][1 + ((i - 1) % 4)]
  BY <1>2
<1>5. ASSUME NEW k \in 0..(n - 1) PROVE SubSeq(b, 4 * k + 1, 4 * k + 4) = w[k]
  <2> DEFINE t == SubSeq(b, 4 * k + 1, 4 * k + 4)
             p == 4 * k + 1
             q == 4 * k + 4
             v == w[k]
  <2>1. p \in Nat /\ q \in Nat /\ p <= q + 1 /\ q - p + 1 = 4
    OBVIOUS
  <2>2. t = SubSeq(b, p, q)
    OBVIOUS
  <2>3. ASSUME NEW j \in 1..4 PROVE b[p + j - 1] = v[j]
    <3> DEFINE i == p + j - 1
    <3>1. i \in 1..N /\ (i - 1) \div 4 = k /\ 1 + ((i - 1) % 4) = j
      <4>1. i = 4 * k + j /\ i \in 1..N
        OBVIOUS
      <4> HIDE DEF i
      <4>2. (i - 1) \div 4 = k /\ (i - 1) % 4 = j - 1
        BY <4>1
      <4> QED
        BY <4>1, <4>2
    <3> HIDE DEF i, N
    <3>2. b[i] = v[j]
      BY <1>4, <3>1
    <3> QED
      BY <3>2 DEF i
  <2> HIDE DEF p, q, t
  <2>4. IsSeq(t) /\ Len(t) = 4 /\ \A j \in 1..4 : t[j] = b[p + j - 1]
    BY <2>1, <2>2, SubSeqIs
  <2>5. v \in Word
    OBVIOUS
  <2> HIDE DEF v
  <2>6. IsSeq(v) /\ Len(v) = 4
    <3>1. v = <<v[1], v[2], v[3], v[4]>>
      BY <2>5, WordParts
    <3>2. Len(<<v[1], v[2], v[3], v[4]>>) = 4
          /\ <<v[1], v[2], v[3], v[4]>> = [i \in 1..4 |-> <<v[1], v[2], v[3], v[4]>>[i]]
      OBVIOUS
    <3>3. Len(v) = 4 /\ v = [i \in 1..4 |-> v[i]]
      BY <3>1, <3>2
    <3> QED
      BY <3>3 DEF IsSeq
  <2>7. t = v
    BY <2>3, <2>4, <2>6, SameSeq
  <2> QED
    BY <2>7 DEF t, v
<1> QED
  BY <1>3, <1>4, <1>5 DEF b

\* The words of a state in the matrix.
LEMMA MatrixWords ==
  ASSUME NEW state, NEW k \in 0..15
  PROVE  Matrix(state)[1 + (k % 4)][1 + (k \div 4)] = Bits(state[k])
<1> HIDE DEF Bits
<1>1. CASE k = 0
  <2>1. 1 + (k % 4) = 1 /\ 1 + (k \div 4) = 1
    BY <1>1
  <2> QED
    BY <1>1, <2>1 DEF Matrix, Entry, Column, Taken
<1>2. CASE k = 1
  <2>1. 1 + (k % 4) = 2 /\ 1 + (k \div 4) = 1
    BY <1>2
  <2> QED
    BY <1>2, <2>1 DEF Matrix, Entry, Column, Taken
<1>3. CASE k = 2
  <2>1. 1 + (k % 4) = 3 /\ 1 + (k \div 4) = 1
    BY <1>3
  <2> QED
    BY <1>3, <2>1 DEF Matrix, Entry, Column, Taken
<1>4. CASE k = 3
  <2>1. 1 + (k % 4) = 4 /\ 1 + (k \div 4) = 1
    BY <1>4
  <2> QED
    BY <1>4, <2>1 DEF Matrix, Entry, Column, Taken
<1>5. CASE k = 4
  <2>1. 1 + (k % 4) = 1 /\ 1 + (k \div 4) = 2
    BY <1>5
  <2> QED
    BY <1>5, <2>1 DEF Matrix, Entry, Column, Taken
<1>6. CASE k = 5
  <2>1. 1 + (k % 4) = 2 /\ 1 + (k \div 4) = 2
    BY <1>6
  <2> QED
    BY <1>6, <2>1 DEF Matrix, Entry, Column, Taken
<1>7. CASE k = 6
  <2>1. 1 + (k % 4) = 3 /\ 1 + (k \div 4) = 2
    BY <1>7
  <2> QED
    BY <1>7, <2>1 DEF Matrix, Entry, Column, Taken
<1>8. CASE k = 7
  <2>1. 1 + (k % 4) = 4 /\ 1 + (k \div 4) = 2
    BY <1>8
  <2> QED
    BY <1>8, <2>1 DEF Matrix, Entry, Column, Taken
<1>9. CASE k = 8
  <2>1. 1 + (k % 4) = 1 /\ 1 + (k \div 4) = 3
    BY <1>9
  <2> QED
    BY <1>9, <2>1 DEF Matrix, Entry, Column, Taken
<1>10. CASE k = 9
  <2>1. 1 + (k % 4) = 2 /\ 1 + (k \div 4) = 3
    BY <1>10
  <2> QED
    BY <1>10, <2>1 DEF Matrix, Entry, Column, Taken
<1>11. CASE k = 10
  <2>1. 1 + (k % 4) = 3 /\ 1 + (k \div 4) = 3
    BY <1>11
  <2> QED
    BY <1>11, <2>1 DEF Matrix, Entry, Column, Taken
<1>12. CASE k = 11
  <2>1. 1 + (k % 4) = 4 /\ 1 + (k \div 4) = 3
    BY <1>12
  <2> QED
    BY <1>12, <2>1 DEF Matrix, Entry, Column, Taken
<1>13. CASE k = 12
  <2>1. 1 + (k % 4) = 1 /\ 1 + (k \div 4) = 4
    BY <1>13
  <2> QED
    BY <1>13, <2>1 DEF Matrix, Entry, Column, Taken
<1>14. CASE k = 13
  <2>1. 1 + (k % 4) = 2 /\ 1 + (k \div 4) = 4
    BY <1>14
  <2> QED
    BY <1>14, <2>1 DEF Matrix, Entry, Column, Taken
<1>15. CASE k = 14
  <2>1. 1 + (k % 4) = 3 /\ 1 + (k \div 4) = 4
    BY <1>15
  <2> QED
    BY <1>15, <2>1 DEF Matrix, Entry, Column, Taken
<1>16. CASE k = 15
  <2>1. 1 + (k % 4) = 4 /\ 1 + (k \div 4) = 4
    BY <1>16
  <2> QED
    BY <1>16, <2>1 DEF Matrix, Entry, Column, Taken
<1>17. k = 0 \/ k = 1 \/ k = 2 \/ k = 3 \/ k = 4 \/ k = 5 \/ k = 6 \/ k = 7
         \/ k = 8 \/ k = 9 \/ k = 10 \/ k = 11 \/ k = 12 \/ k = 13 \/ k = 14 \/ k = 15
  OBVIOUS
<1> QED
  BY <1>1, <1>2, <1>3, <1>4, <1>5, <1>6, <1>7, <1>8,
     <1>9, <1>10, <1>11, <1>12, <1>13, <1>14, <1>15, <1>16, <1>17

-----------------------------------------------------------------------------
(***************************************************************************)
(* The compression function of the code is that of BLAKE3.                 *)
(***************************************************************************)
Xof(cv, block, len, counter, flags) ==
  Portable!compress_xof(cv, block, len, counter, flags)

\* The arguments as the definition has them.
Defined(cv, block, len, counter, flags) ==
  Definition!Compression(
    [i \in 1..8 |-> cv[i - 1]],
    [i \in 1..16 |-> SubSeq(block, 4 * i - 3, 4 * i)],
    << SubSeq(counter, 1, 4), SubSeq(counter, 5, 8), <<len, 0, 0, 0>>, <<flags, 0, 0, 0>> >>)

\* The sixteen words out are the defined ones, and the eight of a chaining
\* value the first half of them.
Compresses(cv, block, len, counter, flags) ==
  /\ \A i \in 0..15 :
       Bits(SubSeq(Xof(cv, block, len, counter, flags), 4 * i + 1, 4 * i + 4))
         = Defined(cv, block, len, counter, flags)[i]
  /\ Portable!store_cv_words(Portable!compress_in_place(cv, block, len, counter, flags))
       = SubSeq(Xof(cv, block, len, counter, flags), 1, 32)

\* The message words, in the order of each round.
LEMMA MessageIs ==
  ASSUME NEW block, \A i \in 1..64 : block[i] \in Byte
  PROVE  /\ Portable!load_block_words(block) \in States
         /\ \A k \in 1..7 :
              MessageOf([i \in 1..16 |-> SubSeq(block, 4 * i - 3, 4 * i)], k - 1)
                = InOrder(Portable!load_block_words(block), k - 1)
<1> DEFINE msg == Portable!load_block_words(block)
           message == [i \in 1..16 |-> SubSeq(block, 4 * i - 3, 4 * i)]
<1>1. ASSUME NEW j \in 0..15
      PROVE  msg[j] \in Word /\ message[j + 1] = msg[j]
  <2>1. /\ j \in Nat /\ j + 1 \in 1..16 /\ 4 * (j + 1) - 3 = 4 * j + 1
        /\ 4 * (j + 1) = 4 * j + 4 /\ \A i \in 1..4 : 4 * j + i \in 1..64
    OBVIOUS
  <2>2. msg[j] = SubSeq(block, 4 * j + 1, 4 * j + 4)
    BY SameWords DEF Portable!load_block_words, load_word
  <2>3. SubSeq(block, 4 * j + 1, 4 * j + 4) \in Word
    BY <2>1, LoadedIs
  <2>4. message[j + 1] = SubSeq(block, 4 * (j + 1) - 3, 4 * (j + 1))
    BY <2>1
  <2> QED
    BY <2>1, <2>2, <2>3, <2>4
<1>2. msg = [i \in 0..15 |-> msg[i]]
  BY DEF Portable!load_block_words
<1> HIDE DEF msg, message
<1>3. msg \in States
  <2> HIDE DEF Word
  <2> QED
    BY <1>1, <1>2 DEF States
<1>4. ASSUME NEW k \in 1..7
      PROVE  MessageOf(message, k - 1) = InOrder(msg, k - 1)
  <2> DEFINE r == k - 1
  <2>1. r \in 0..6
    OBVIOUS
  <2> HIDE DEF r, Bits
  <2>2. ASSUME NEW i \in 0..15
        PROVE  Bits(message[Definition!InPlace[r][i] + 1]) = Bits(msg[Scheduled(r, i)])
    <3>1. Definition!InPlace[r][i] = Scheduled(r, i) /\ Scheduled(r, i) \in 0..15
      BY <2>1, InPlaceIs, RowsFollow
    <3> QED
      BY <1>1, <3>1
  <2>3. MessageOf(message, r) = InOrder(msg, r)
    BY <2>2 DEF MessageOf, InOrder
  <2> QED
    BY <2>3 DEF r
<1> QED
  BY <1>3, <1>4 DEF msg, message

\* The states the rounds begin with.
LEMMA PreparedIs ==
  ASSUME NEW cv, \A i \in 0..7 : cv[i] \in Word, NEW len \in Byte,
         NEW counter, \A i \in 1..8 : counter[i] \in Byte, NEW flags \in Byte
  PROVE  /\ Prepared(cv, len, counter, flags) \in States
         /\ Matrix(Prepared(cv, len, counter, flags))
              = FirstMatrix([i \in 1..8 |-> cv[i - 1]],
                            << SubSeq(counter, 1, 4), SubSeq(counter, 5, 8),
                               <<len, 0, 0, 0>>, <<flags, 0, 0, 0>> >>)
<1> DEFINE p == Prepared(cv, len, counter, flags)
           c == [i \in 1..8 |-> cv[i - 1]]
           l == SubSeq(counter, 1, 4)
           h == SubSeq(counter, 5, 8)
           u == <<len, 0, 0, 0>>
           v == <<flags, 0, 0, 0>>
           q == <<l, h, u, v>>
<1>1. l \in Word /\ h \in Word
  <2> DEFINE zero == 0
             one == 1
  <2>1. /\ zero \in Nat /\ one \in Nat /\ 4 * zero + 1 = 1 /\ 4 * zero + 4 = 4
        /\ 4 * one + 1 = 5 /\ 4 * one + 4 = 8
        /\ \A j \in 1..4 : 4 * zero + j \in 1..8 /\ 4 * one + j \in 1..8
    OBVIOUS
  <2> HIDE DEF zero, one
  <2>2. /\ SubSeq(counter, 4 * zero + 1, 4 * zero + 4) \in Word
        /\ SubSeq(counter, 4 * one + 1, 4 * one + 4) \in Word
    BY <2>1, LoadedIs
  <2> QED
    BY <2>1, <2>2
<1>2. u \in Word /\ v \in Word
  BY DEF Word, Byte
<1>3. /\ Portable!counter_low(counter) = l /\ Portable!counter_high(counter) = h
      /\ Portable!ByteWord(len) = u /\ Portable!ByteWord(flags) = v
  BY DEF Portable!counter_low, Portable!counter_high, Portable!ByteWord
<1> HIDE DEF l, h, u, v
<1>4. p = [i \in 0..15 |-> IF i < 8 THEN cv[i]
                          ELSE IF i < 12 THEN Portable!IV[i - 8] ELSE q[i - 11]]
  BY <1>3 DEF Prepared
<1>5. /\ q[1] = l /\ q[2] = h /\ q[3] = u /\ q[4] = v
  OBVIOUS
<1> HIDE DEF p, q
<1>6. /\ p[0] = cv[0] /\ p[1] = cv[1] /\ p[2] = cv[2] /\ p[3] = cv[3]
      /\ p[4] = cv[4] /\ p[5] = cv[5] /\ p[6] = cv[6] /\ p[7] = cv[7]
      /\ p[8] = Portable!IV[0] /\ p[9] = Portable!IV[1]
      /\ p[10] = Portable!IV[2] /\ p[11] = Portable!IV[3]
      /\ p[12] = l /\ p[13] = h /\ p[14] = u /\ p[15] = v
  BY <1>4, <1>5
<1>7. p = [i \in 0..15 |-> p[i]]
  BY <1>4
<1>8. p \in States
  <2>1. ASSUME NEW i \in 0..15 PROVE p[i] \in Word
    <3>1. \/ i = 0 \/ i = 1 \/ i = 2 \/ i = 3 \/ i = 4 \/ i = 5 \/ i = 6 \/ i = 7
          \/ i = 8 \/ i = 9 \/ i = 10 \/ i = 11 \/ i = 12 \/ i = 13 \/ i = 14 \/ i = 15
      OBVIOUS
    <3>2. /\ cv[0] \in Word /\ cv[1] \in Word /\ cv[2] \in Word /\ cv[3] \in Word
          /\ cv[4] \in Word /\ cv[5] \in Word /\ cv[6] \in Word /\ cv[7] \in Word
      OBVIOUS
    <3>3. /\ Portable!IV[0] \in Word /\ Portable!IV[1] \in Word
          /\ Portable!IV[2] \in Word /\ Portable!IV[3] \in Word
      BY VectorIs
    <3> HIDE DEF Word
    <3> QED
      BY <1>1, <1>2, <1>6, <3>1, <3>2, <3>3
  <2> HIDE DEF Word
  <2> QED
    BY <1>7, <2>1 DEF States
<1>9. Matrix(p) = FirstMatrix(c, q)
  <2>1. /\ c[1] = cv[0] /\ c[2] = cv[1] /\ c[3] = cv[2] /\ c[4] = cv[3]
        /\ c[4 + 1] = cv[4] /\ c[4 + 2] = cv[5] /\ c[4 + 3] = cv[6] /\ c[4 + 4] = cv[7]
    OBVIOUS
  <2>2. /\ Portable!IV[0] = Definition!InitialVector[1]
        /\ Portable!IV[1] = Definition!InitialVector[2]
        /\ Portable!IV[2] = Definition!InitialVector[3]
        /\ Portable!IV[3] = Definition!InitialVector[4]
    <3>1. 0 + 1 = 1 /\ 1 + 1 = 2 /\ 2 + 1 = 3 /\ 3 + 1 = 4
      OBVIOUS
    <3> QED
      BY <3>1, VectorIs
  <2> HIDE DEF c, Bits
  <2> QED
    BY <1>5, <1>6, <2>1, <2>2 DEF Matrix, Entry, Column, Taken, FirstMatrix
<1> QED
  BY <1>8, <1>9 DEF p, c, q, l, h, u, v

\* The state after seven rounds.
LEMMA PreIs ==
  ASSUME NEW cv, \A i \in 0..7 : cv[i] \in Word,
         NEW block, \A i \in 1..64 : block[i] \in Byte, NEW len \in Byte,
         NEW counter, \A i \in 1..8 : counter[i] \in Byte, NEW flags \in Byte
  PROVE  LET end == Portable!compress_pre(cv, block, len, counter, flags)
         IN  /\ end \in States
             /\ Defined(cv, block, len, counter, flags)
                  = Chained([i \in 1..8 |-> cv[i - 1]], Matrix(end))
<1> DEFINE c == [i \in 1..8 |-> cv[i - 1]]
           message == [i \in 1..16 |-> SubSeq(block, 4 * i - 3, 4 * i)]
           q == << SubSeq(counter, 1, 4), SubSeq(counter, 5, 8),
                   <<len, 0, 0, 0>>, <<flags, 0, 0, 0>> >>
           msg == Portable!load_block_words(block)
           p == Prepared(cv, len, counter, flags)
<1>1. Defined(cv, block, len, counter, flags) = Definition!Compression(c, message, q)
  BY DEF Defined
<1>2. p \in States /\ Matrix(p) = FirstMatrix(c, q)
  BY PreparedIs
<1>3. msg \in States /\ \A k \in 1..7 : MessageOf(message, k - 1) = InOrder(msg, k - 1)
  BY MessageIs
<1>4. PICK r : /\ r[0] = p
               /\ Portable!compress_pre(cv, block, len, counter, flags) = r[7]
               /\ \A k \in 1..7 : r[k] = Portable!round_fn(r[k-1], msg, k - 1)
  BY PreSteps
<1> HIDE DEF c, message, q, p, msg
<1>5. PICK s : /\ s[0] = FirstMatrix(c, q)
               /\ Definition!Compression(c, message, q) = Chained(c, s[7])
               /\ \A k \in 1..7 : s[k] = RoundBy(s[k-1], MessageOf(message, k - 1))
  BY ReferenceSteps
<1> DEFINE T == {k \in 0..7 : r[k] \in States /\ s[k] = Matrix(r[k])}
<1>6. 0 \in T
  BY <1>2, <1>4, <1>5
<1>7. ASSUME NEW k \in 0..7, k < 7, k \in T PROVE k + 1 \in T
  <2> DEFINE n == k + 1
  <2>1. n \in 1..7 /\ n \in 0..7 /\ n - 1 = k /\ k \in 0..6
    BY <1>7
  <2> HIDE DEF n
  <2>2. r[n] = Portable!round_fn(r[k], msg, k)
    BY <1>4, <2>1
  <2>3. s[n] = RoundBy(s[k], InOrder(msg, k))
    BY <1>3, <1>5, <2>1
  <2>4. r[n] \in States /\ Matrix(r[n]) = RoundBy(Matrix(r[k]), InOrder(msg, k))
    <3> DEFINE u == r[k]
    <3>1. u \in States
      BY <1>7
    <3>2. r[n] = Portable!round_fn(u, msg, k)
      BY <2>2
    <3> HIDE DEF u, T
    <3>3. r[n] \in States /\ Matrix(r[n]) = RoundBy(Matrix(u), InOrder(msg, k))
      <4>1. u \in States /\ msg \in States /\ k \in 0..6
        BY <1>3, <2>1, <3>1
      <4>2. /\ Portable!round_fn(u, msg, k) \in States
            /\ Matrix(Portable!round_fn(u, msg, k)) = RoundBy(Matrix(u), InOrder(msg, k))
        BY <4>1, RoundIs, Zenon
      <4> QED
        BY <3>2, <4>2
    <3> QED
      BY <3>3 DEF u
  <2>5. n \in T
    BY <1>7, <2>1, <2>3, <2>4
  <2> HIDE DEF T
  <2> QED
    BY <2>5 DEF n
<1> HIDE DEF T
<1>8. 7 \in T
  <2>1. \A k \in 0..7 : k \in T
    BY <1>6, <1>7, Induct
  <2> QED
    BY <2>1
<1>9. r[7] \in States /\ s[7] = Matrix(r[7])
  BY <1>8 DEF T
<1> QED
  BY <1>1, <1>4, <1>5, <1>9 DEF c

\* The output words of a state.
LEMMA OutIs ==
  ASSUME NEW cv, NEW st
  PROVE  LET w == [i \in 0..15 |-> IF i < 8 THEN xorw(st[i], st[i + 8])
                                   ELSE xorw(st[i], cv[i - 8])]
             d == Chained([i \in 1..8 |-> cv[i - 1]], Matrix(st))
         IN  (\A i \in 0..15 : st[i] \in Word) /\ (\A i \in 0..7 : cv[i] \in Word) =>
               \A i \in 0..15 : w[i] \in Word /\ Bits(w[i]) = d[i]
<1> DEFINE c == [i \in 1..8 |-> cv[i - 1]]
           w == [i \in 0..15 |-> IF i < 8 THEN xorw(st[i], st[i + 8])
                                 ELSE xorw(st[i], cv[i - 8])]
           d == Chained(c, Matrix(st))
<1> SUFFICES ASSUME \A i \in 0..15 : st[i] \in Word, \A i \in 0..7 : cv[i] \in Word,
                    NEW i \in 0..15
             PROVE  w[i] \in Word /\ Bits(w[i]) = d[i]
  OBVIOUS
<1>1. \A k \in 0..15 : Matrix(st)[1 + (k % 4)][1 + (k \div 4)] = Bits(st[k])
  BY MatrixWords
<1>2. d[i] = IF i < 8 THEN Definition!Either(Matrix(st)[1 + (i % 4)][1 + (i \div 4)],
                             Matrix(st)[1 + ((i + 8) % 4)][1 + ((i + 8) \div 4)])
             ELSE Definition!Either(Matrix(st)[1 + (i % 4)][1 + (i \div 4)], Bits(c[i - 7]))
  <2> HIDE DEF Matrix, c, Bits
  <2> QED
    BY DEF Chained
<1>3. CASE i < 8
  <2>1. i + 8 \in 0..15
    BY <1>3
  <2>2. d[i] = Definition!Either(Bits(st[i]), Bits(st[i + 8]))
    <3> HIDE DEF d, Bits, Matrix
    <3> QED
      BY <1>1, <1>2, <1>3, <2>1
  <2>3. w[i] = xorw(st[i], st[i + 8])
    BY <1>3
  <2> HIDE DEF w, d
  <2> QED
    BY <2>1, <2>2, <2>3, BitsXor
<1>4. CASE ~ (i < 8)
  <2>1. i - 8 \in 0..7 /\ i - 7 \in 1..8 /\ (i - 7) - 1 = i - 8
    BY <1>4
  <2>2. c[i - 7] = cv[i - 8]
    BY <2>1
  <2>3. d[i] = Definition!Either(Bits(st[i]), Bits(cv[i - 8]))
    <3> HIDE DEF d, Bits, Matrix, c
    <3> QED
      BY <1>1, <1>2, <1>4, <2>2
  <2>4. w[i] = xorw(st[i], cv[i - 8])
    BY <1>4
  <2> HIDE DEF w, d
  <2> QED
    BY <2>1, <2>3, <2>4, BitsXor
<1> QED
  BY <1>3, <1>4

StoredAs(w, n) ==
  LET b == store_words(w, n)
  IN  /\ IsSeq(b) /\ Len(b) = 4 * n
      /\ \A i \in 1..(4 * n) : b[i] = w[(i - 1) \div 4][1 + ((i - 1) % 4)]
      /\ \A k \in 0..(n - 1) : SubSeq(b, 4 * k + 1, 4 * k + 4) = w[k]

\* What is stored, as one fact.
LEMMA StoredAsIs ==
  ASSUME NEW n \in Nat, NEW w, \A k \in 0..(n - 1) : w[k] \in Word
  PROVE  StoredAs(w, n)
BY StoredIs DEF StoredAs

\* Both forms of the portable compression function compute what BLAKE3
\* defines, for every chaining value, block, length, counter and flags.
THEOREM CompressionIs ==
  ASSUME NEW cv, \A i \in 0..7 : cv[i] \in Word,
         NEW block, \A i \in 1..64 : block[i] \in Byte, NEW len \in Byte,
         NEW counter, \A i \in 1..8 : counter[i] \in Byte, NEW flags \in Byte
  PROVE  Compresses(cv, block, len, counter, flags)
<1> DEFINE st == Portable!compress_pre(cv, block, len, counter, flags)
           d == Defined(cv, block, len, counter, flags)
           w == [i \in 0..15 |-> IF i < 8 THEN xorw(st[i], st[i + 8])
                                 ELSE xorw(st[i], cv[i - 8])]
           h == [i \in 0..7 |-> xorw(st[i], st[i + 8])]
           x == Xof(cv, block, len, counter, flags)
<1>1. st \in States /\ d = Chained([i \in 1..8 |-> cv[i - 1]], Matrix(st))
  BY PreIs
<1> HIDE DEF st, d
<1>2. \A i \in 0..15 : st[i] \in Word
  <2> HIDE DEF Word
  <2> QED
    BY <1>1 DEF States
<1>3. \A i \in 0..15 : w[i] \in Word /\ Bits(w[i]) = d[i]
  BY <1>1, <1>2, OutIs
<1>4. x = store_words(w, 16)
  BY SameWords DEF Xof, Portable!compress_xof, st
<1>5. Portable!store_cv_words(Portable!compress_in_place(cv, block, len, counter, flags))
        = store_words(h, 8)
  BY SameWords DEF Portable!store_cv_words, Portable!compress_in_place, st
<1>6. \A i \in 0..7 : h[i] = w[i]
  OBVIOUS
<1> HIDE DEF w, h, x
<1>7. /\ IsSeq(x) /\ Len(x) = 64
      /\ \A i \in 1..64 : x[i] = w[(i - 1) \div 4][1 + ((i - 1) % 4)]
      /\ \A k \in 0..15 : SubSeq(x, 4 * k + 1, 4 * k + 4) = w[k]
  <2> DEFINE n == 16
  <2>1. n \in Nat /\ n - 1 = 15 /\ 4 * n = 64
    OBVIOUS
  <2>2. x = store_words(w, n)
    BY <1>4
  <2> HIDE DEF n
  <2>4. \A k \in 0..(n - 1) : w[k] \in Word
    BY <1>3, <2>1
  <2>5. StoredAs(w, n)
    BY <2>1, <2>4, StoredAsIs
  <2>3. /\ IsSeq(x) /\ Len(x) = 4 * n
        /\ \A i \in 1..(4 * n) : x[i] = w[(i - 1) \div 4][1 + ((i - 1) % 4)]
        /\ \A k \in 0..(n - 1) : SubSeq(x, 4 * k + 1, 4 * k + 4) = w[k]
    BY <2>2, <2>5 DEF StoredAs
  <2> QED
    BY <2>1, <2>3
<1>8. \A i \in 0..15 : Bits(SubSeq(x, 4 * i + 1, 4 * i + 4)) = d[i]
  BY <1>3, <1>7
<1>9. store_words(h, 8) = SubSeq(x, 1, 32)
  <2> DEFINE n == 8
             o == 1
             e == 32
             a == store_words(h, 8)
             b == SubSeq(x, 1, 32)
  <2>1. n \in Nat /\ n - 1 = 7 /\ 4 * n = 32 /\ o \in Nat /\ e \in Nat /\ o <= e + 1
        /\ e - o + 1 = 32 /\ \A i \in 1..32 : o + i - 1 = i
    OBVIOUS
  <2>2. a = store_words(h, n) /\ b = SubSeq(x, o, e)
    OBVIOUS
  <2> HIDE DEF n, o, e, a, b
  <2>3. \A i \in 0..7 : h[i] \in Word
    BY <1>3, <1>6
  <2>4. /\ IsSeq(a) /\ Len(a) = 4 * n
        /\ \A i \in 1..(4 * n) : a[i] = h[(i - 1) \div 4][1 + ((i - 1) % 4)]
    <3>1. \A k \in 0..(n - 1) : h[k] \in Word
      BY <2>1, <2>3
    <3>2. StoredAs(h, n)
      BY <2>1, <3>1, StoredAsIs
    <3> QED
      BY <2>2, <3>2 DEF StoredAs
  <2>5. IsSeq(b) /\ Len(b) = e - o + 1 /\ \A i \in 1..(e - o + 1) : b[i] = x[o + i - 1]
    <3>1. o \in Nat /\ e \in Nat /\ o <= e + 1
      BY <2>1
    <3>2. /\ IsSeq(SubSeq(x, o, e)) /\ Len(SubSeq(x, o, e)) = e - o + 1
          /\ \A i \in 1..(e - o + 1) : SubSeq(x, o, e)[i] = x[o + i - 1]
      BY <3>1, SubSeqIs
    <3>3. b = SubSeq(x, o, e)
      BY <2>2
    <3> QED
      BY <3>2, <3>3
  <2>6. ASSUME NEW i \in 1..32 PROVE a[i] = b[i]
    <3> DEFINE t == (i - 1) \div 4
               j == 1 + ((i - 1) % 4)
    <3>1. t \in 0..7 /\ i \in 1..64
      OBVIOUS
    <3> HIDE DEF t, j
    <3>2. a[i] = h[t][j]
      <4>1. i \in 1..(4 * n)
        BY <2>1
      <4> QED
        BY <2>4, <4>1 DEF t, j
    <3>3. x[i] = w[t][j]
      BY <1>7, <3>1 DEF t, j
    <3>4. b[i] = x[i]
      <4>1. i \in 1..(e - o + 1) /\ o + i - 1 = i
        BY <2>1
      <4> QED
        BY <2>5, <4>1
    <3> QED
      BY <1>6, <3>1, <3>2, <3>3, <3>4
  <2>7. a = b
    BY <2>1, <2>4, <2>5, <2>6, SameSeq
  <2> QED
    BY <2>7 DEF a, b
<1>10. \A i \in 0..15 : Bits(SubSeq(x, 4 * i + 1, 4 * i + 4))
                          = Defined(cv, block, len, counter, flags)[i]
  BY <1>8 DEF d
<1> QED
  BY <1>5, <1>9, <1>10 DEF Compresses, x

-----------------------------------------------------------------------------
(***************************************************************************)
(* The blocks of the enumeration are blocks, the words words.              *)
(***************************************************************************)
\* The bytes of the blocks are bytes.
LEMMA SomeIsByte ==
  ASSUME argument \in Nat, NEW k \in Nat
  PROVE  Some(k) \in Byte
<1> DEFINE n == argument * (37 + k) + k * k
<1>1. n \in Nat
  OBVIOUS
<1> HIDE DEF n
<1>2. n % 256 \in 0..255
  BY <1>1
<1> QED
  BY <1>2 DEF Some, Byte, n

\* The words of the chaining value.
LEMMA CvIs ==
  ASSUME argument \in Nat
  PROVE  \A i \in 0..7 : Cv[i] \in Word
<1>1. CASE argument = 0
  <2>1. \A i \in 0..7 : Portable!IV[i] \in Word
    <3> HIDE DEF Word
    <3> QED
      BY VectorIs
  <2>2. Cv = Portable!IV
    BY <1>1 DEF Cv
  <2> QED
    BY <2>1, <2>2
<1>2. CASE argument # 0
  <2> DEFINE key == [i \in 1..32 |-> IF i % 4 = 0 THEN 255 ELSE 255 - Some(i)]
  <2>1. \A i \in 1..32 : key[i] \in Byte
    <3> SUFFICES ASSUME NEW i \in 1..32 PROVE key[i] \in Byte
      OBVIOUS
    <3> DEFINE b == Some(i)
    <3>1. key[i] = IF i % 4 = 0 THEN 255 ELSE 255 - b
      OBVIOUS
    <3>2. b \in 0..255
      BY SomeIsByte DEF Byte
    <3> HIDE DEF b, key
    <3>3. CASE i % 4 = 0
      BY <3>1, <3>3 DEF Byte
    <3>4. CASE i % 4 # 0
      BY <3>1, <3>2, <3>4 DEF Byte
    <3> QED
      BY <3>3, <3>4
  <2>2. Cv = Portable!load_key_words(key)
    BY <1>2 DEF Cv
  <2> HIDE DEF key
  <2>3. ASSUME NEW i \in 0..7 PROVE Cv[i] \in Word
    <3>1. Cv[i] = SubSeq(key, 4 * i + 1, 4 * i + 4)
      BY <2>2, SameWords DEF Portable!load_key_words, load_word
    <3>2. i \in Nat /\ \A j \in 1..4 : 4 * i + j \in 1..32
      OBVIOUS
    <3>3. SubSeq(key, 4 * i + 1, 4 * i + 4) \in Word
      BY <2>1, <3>2, LoadedIs
    <3> QED
      BY <3>1, <3>3
  <2> QED
    BY <2>3
<1> QED
  BY <1>1, <1>2

\* The compression of every block that the states enumerate.
THEOREM CompressionAlwaysDefined == Enumeration => []CompressionIsDefined
<1>1. ArgumentInv => CompressionIsDefined
  <2> SUFFICES ASSUME ArgumentInv PROVE CompressionIsDefined
    OBVIOUS
  <2>1. argument \in Nat
    BY ArgumentIsWord
  <2>2. \A i \in 0..7 : Cv[i] \in Word
    BY <2>1, CvIs
  <2>3. \A i \in 1..64 : Block[i] \in Byte
    <3>1. \A i \in 1..64 : Some(i) \in Byte
      BY <2>1, SomeIsByte
    <3>2. 0 \in Byte
      BY DEF Byte
    <3> QED
      BY <3>1, <3>2 DEF Block
  <2>4. \A i \in 1..8 : Counter[i] \in Byte
    <3>1. \A i \in 1..8 : Some(i) \in Byte
      BY <2>1, SomeIsByte
    <3>2. 0 \in Byte /\ 255 \in Byte
      BY DEF Byte
    <3> QED
      BY <3>1, <3>2 DEF Counter
  <2>5. BlockLen \in Byte
    BY <2>1 DEF BlockLen, Byte
  <2>6. Flags \in Byte
    BY <2>1 DEF Flags, Byte
  <2>7. Compresses(Cv, Block, BlockLen, Counter, Flags)
    <3> HIDE DEF Word
    <3> QED
      BY <2>2, <2>3, <2>4, <2>5, <2>6, CompressionIs
  <2> QED
    BY <2>7, Zenon DEF CompressionIsDefined, Compresses, Xof, Defined, Bits
<1> QED
  BY <1>1, EnumerationBound, PTL

-----------------------------------------------------------------------------
(***************************************************************************)
(* The vector kernels.                                                     *)
(***************************************************************************)
\* A grant is never empty, and never more than what was asked for.
LEMMA GrantIs ==
  ASSUME NEW m \in Nat, m > 0
  PROVE  /\ vsetvl(m) # {} /\ vsetvl(m) \subseteq 1..m
         /\ \A vl \in vsetvl(m) : vl <= VLMAX
         /\ m <= VLMAX => vsetvl(m) = {m}
         /\ m >= 2 * VLMAX => vsetvl(m) = {VLMAX}
<1>1. VLMAX \in Nat /\ VLMAX > 0
  BY VlmaxAssumption
<1>2. CASE m <= VLMAX
  BY <1>1, <1>2 DEF vsetvl
<1>3. CASE m > VLMAX /\ m >= 2 * VLMAX
  BY <1>1, <1>3 DEF vsetvl
<1>4. CASE m > VLMAX /\ ~ (m >= 2 * VLMAX)
  <2> DEFINE h == (m + 1) \div 2
  <2>1. h \in Nat /\ 1 <= h /\ h <= VLMAX
    BY <1>1, <1>4
  <2>2. vsetvl(m) = h..VLMAX
    BY <1>1, <1>4 DEF vsetvl
  <2> HIDE DEF h
  <2> QED
    BY <1>1, <1>4, <2>1, <2>2
<1> QED
  BY <1>1, <1>2, <1>3, <1>4

\* What one lane goes through, block by block.
LaneStep(v, input, b, flags, build) ==
  kept(build.vadd, kept(build.vxor, v, load_word(input[b], 0)), ByteWord(flags))

\* Every lane is beyond mixed_lanes, and so what a destination held.
LEMMA LanesKept ==
  ASSUME NEW cv0, Len(cv0) \in Nat, NEW words, NEW flags, NEW build
  PROVE  compress_in_place_vector(cv0, words, flags, build)
           = [i \in 1..Len(cv0) |-> kept(build.vadd, kept(build.vxor, cv0[i], words[i]),
                                        ByteWord(flags))]
<1> DEFINE n == Len(cv0)
<1>1. ASSUME NEW i \in 1..n, NEW value, NEW destination, NEW first, NEW second
      PROVE  lane(i, value, destination, first, second)
               = kept(destination, first, second)
  BY <1>1 DEF lane, mixed_lanes
<1> HIDE DEF n
<1> QED
  BY <1>1 DEF compress_in_place_vector, n

LaneOn(g, n, input, key, flags, build) ==
  g = [b \in 0..n |-> IF b = 0 THEN key[1] ELSE LaneStep(g[b-1], input, b, flags, build)]

\* There is such a course for any number of blocks.
LEMMA LaneExists ==
  ASSUME NEW n \in Nat, NEW input, NEW key, NEW flags, NEW build
  PROVE  \E g : LaneOn(g, n, input, key, flags, build)
<1> DEFINE S == {j \in 0..n : \E g : LaneOn(g, j, input, key, flags, build)}
<1>1. 0 \in S
  <2>1. LaneOn([i \in 0..0 |-> key[1]], 0, input, key, flags, build)
    BY DEF LaneOn
  <2> QED
    BY <2>1
<1>2. ASSUME NEW j \in 0..n, j < n, j \in S PROVE j + 1 \in S
  <2>1. PICK g : LaneOn(g, j, input, key, flags, build)
    BY <1>2
  <2> DEFINE h == [i \in 0..(j+1) |-> IF i = j + 1 THEN LaneStep(g[j], input, i, flags, build)
                                      ELSE g[i]]
  <2>2. ASSUME NEW i \in 0..(j+1)
        PROVE  h[i] = IF i = 0 THEN key[1] ELSE LaneStep(h[i-1], input, i, flags, build)
    <3>1. CASE i = j + 1
      <4>1. h[i - 1] = g[j] /\ i # 0
        BY <1>2, <3>1
      <4> QED
        BY <3>1, <4>1
    <3>2. CASE i \in 0..j
      <4>1. h[i] = g[i] /\ (i # 0 => h[i - 1] = g[i - 1])
        BY <3>2
      <4> QED
        BY <2>1, <3>2, <4>1 DEF LaneOn
    <3> QED
      BY <3>1, <3>2
  <2>3. h = [i \in 0..(j+1) |-> h[i]]
    OBVIOUS
  <2> HIDE DEF h
  <2>4. LaneOn(h, j + 1, input, key, flags, build)
    BY <2>2, <2>3 DEF LaneOn
  <2> QED
    BY <1>2, <2>4
<1> HIDE DEF S
<1>3. n \in S
  BY <1>1, <1>2, Induct
<1> QED
  BY <1>3 DEF S

Lane(n, input, key, flags, build) == CHOOSE g : LaneOn(g, n, input, key, flags, build)

\* The output of one input alone.
OutputOf(n, input, key, flags, build) == <<Lane(n, input, key, flags, build)[n]>> \o Tail(key)

\* A batch gives each of its inputs its own output.
LEMMA BatchIs ==
  ASSUME NEW inputs, NEW done, NEW vl \in Nat, NEW n \in Nat, NEW key, NEW flags, NEW build
  PROVE  batch(inputs, done, vl, n, key, flags, build)
           = [i \in 1..vl |-> OutputOf(n, inputs[done + i], key, flags, build)]
<1> DEFINE words(b) == [i \in 1..vl |-> load_word(inputs[done + i][b], 0)]
           start == [i \in 1..vl |-> key[1]]
           MixLanes(v, b) == compress_in_place_vector(v, words(b), flags, build)
           Steps(c) == [b \in 0..n |-> IF b = 0 THEN start ELSE MixLanes(c[b-1], b)]
           course(i) == Lane(n, inputs[done + i], key, flags, build)
           f == [b \in 0..n |-> [i \in 1..vl |-> course(i)[b]]]
           r == CHOOSE c : c = Steps(c)
<1>1. ASSUME NEW i \in 1..vl
      PROVE  LaneOn(course(i), n, inputs[done + i], key, flags, build)
  <2>1. \E g : LaneOn(g, n, inputs[done + i], key, flags, build)
    BY LaneExists
  <2> QED
    BY <2>1 DEF Lane
<1> HIDE DEF course
<1>2. ASSUME NEW b \in 1..n PROVE f[b] = MixLanes(f[b - 1], b)
  <2> DEFINE v == f[b - 1]
  <2>1. v = [i \in 1..vl |-> course(i)[b - 1]] /\ f[b] = [i \in 1..vl |-> course(i)[b]]
    OBVIOUS
  <2> HIDE DEF f, v
  <2>2. Len(v) = vl
    <3>1. v = [i \in 1..vl |-> v[i]]
      BY <2>1
    <3> QED
      BY <3>1, SeqOf
  <2>3. ASSUME NEW i \in 1..vl
        PROVE  course(i)[b] = kept(build.vadd, kept(build.vxor, v[i], words(b)[i]),
                                   ByteWord(flags))
    <3>1. course(i)[b] = LaneStep(course(i)[b - 1], inputs[done + i], b, flags, build)
      BY <1>1 DEF LaneOn
    <3>2. words(b)[i] = load_word(inputs[done + i][b], 0) /\ v[i] = course(i)[b - 1]
      BY <2>1
    <3> QED
      BY <3>1, <3>2 DEF LaneStep
  <2> HIDE DEF words
  <2>4. MixLanes(v, b) = [i \in 1..vl |-> kept(build.vadd,
                                             kept(build.vxor, v[i], words(b)[i]),
                                             ByteWord(flags))]
    BY <2>2, LanesKept
  <2>5. MixLanes(v, b) = f[b]
    BY <2>1, <2>3, <2>4
  <2> QED
    BY <2>5 DEF v
<1>3. f[0] = start
  <2>1. ASSUME NEW i \in 1..vl PROVE course(i)[0] = key[1]
    BY <1>1 DEF LaneOn
  <2> QED
    BY <2>1
<1>4. f = Steps(f)
  <2>1. f = [b \in 0..n |-> f[b]]
    OBVIOUS
  <2> HIDE DEF f, start, MixLanes
  <2>2. ASSUME NEW b \in 0..n PROVE f[b] = IF b = 0 THEN start ELSE MixLanes(f[b - 1], b)
    BY <1>2, <1>3
  <2> QED
    BY <2>1, <2>2
<1>5. r = Steps(r)
  <2> HIDE DEF f, Steps
  <2> QED
    BY <1>4
<1>6. batch(inputs, done, vl, n, key, flags, build) = [i \in 1..vl |-> <<r[n][i]>> \o Tail(key)]
  BY DEF batch
<1> DEFINE S == {b \in 0..n : r[b] = f[b]}
<1>7. r[n] = f[n]
  <2> HIDE DEF r, f, start, MixLanes
  <2>1. 0 \in S
    BY <1>3, <1>5
  <2>2. ASSUME NEW b \in 0..n, b < n, b \in S PROVE b + 1 \in S
    <3>1. b + 1 \in 1..n /\ b + 1 \in 0..n /\ (b + 1) - 1 = b /\ b + 1 # 0
      BY <2>2
    <3>2. r[b + 1] = MixLanes(r[b], b + 1)
      BY <1>5, <3>1
    <3>3. f[b + 1] = MixLanes(f[b], b + 1)
      BY <1>2, <3>1
    <3> QED
      BY <2>2, <3>1, <3>2, <3>3
  <2> HIDE DEF S
  <2>3. n \in S
    BY <2>1, <2>2, Induct
  <2> QED
    BY <2>3 DEF S
<1>8. \A i \in 1..vl : r[n][i] = course(i)[n]
  <2>1. f[n] = [i \in 1..vl |-> course(i)[n]]
    OBVIOUS
  <2> HIDE DEF r, f
  <2> QED
    BY <1>7, <2>1
<1> HIDE DEF r
<1> QED
  BY <1>6, <1>8 DEF OutputOf, course

\* The outputs of the inputs after the first k.
OutputsFrom(inputs, k, n, blocks, key, flags, build) ==
  [i \in 1..(n - k) |-> OutputOf(blocks, inputs[k + i], key, flags, build)]

Joins(inputs, n, done, vl, blocks, key, flags, build) ==
  batch(inputs, done, vl, blocks, key, flags, build)
      \o OutputsFrom(inputs, done + vl, n, blocks, key, flags, build)
    = OutputsFrom(inputs, done, n, blocks, key, flags, build)

\* A batch and the outputs of the inputs after it are the outputs from its
\* first input on.
LEMMA BatchJoins ==
  ASSUME NEW inputs, NEW n \in Nat, NEW done \in Nat, NEW vl \in Nat, done + vl <= n,
         NEW blocks \in Nat, NEW key, NEW flags, NEW build
  PROVE  Joins(inputs, n, done, vl, blocks, key, flags, build)
<1> DEFINE out(k) == OutputOf(blocks, inputs[k], key, flags, build)
           from(k) == OutputsFrom(inputs, k, n, blocks, key, flags, build)
           a == batch(inputs, done, vl, blocks, key, flags, build)
           next == done + vl
           l == n - next
           m == n - done
           b == from(next)
           c == from(done)
<1>1. a = [i \in 1..vl |-> out(done + i)]
  BY BatchIs
<1>2. b = [i \in 1..l |-> out(next + i)] /\ c = [i \in 1..m |-> out(done + i)]
  BY DEF OutputsFrom
<1>3. l \in Nat /\ m \in Nat /\ m = vl + l /\ next = done + vl
  OBVIOUS
<1> HIDE DEF out, a, b, c, l, m, next
<1>4. IsSeq(a) /\ Len(a) = vl /\ IsSeq(b) /\ Len(b) = l /\ IsSeq(c) /\ Len(c) = m
  <2>1. a = [i \in 1..vl |-> a[i]] /\ b = [i \in 1..l |-> b[i]] /\ c = [i \in 1..m |-> c[i]]
    BY <1>1, <1>2
  <2> QED
    BY <1>3, <2>1, SeqOf
<1> DEFINE j == a \o b
<1>5. /\ IsSeq(j) /\ Len(j) = vl + l
      /\ \A i \in 1..(vl + l) : j[i] = IF i <= vl THEN a[i] ELSE b[i - vl]
  BY <1>4, ConcatIs
<1> HIDE DEF j
<1>6. ASSUME NEW i \in 1..m PROVE j[i] = c[i]
  <2>1. CASE i <= vl
    <3>1. j[i] = a[i] /\ i \in 1..vl
      BY <1>3, <1>5, <2>1
    <3> QED
      BY <1>1, <1>2, <3>1
  <2>2. CASE ~ (i <= vl)
    <3>1. j[i] = b[i - vl] /\ i - vl \in 1..l /\ next + (i - vl) = done + i
      BY <1>3, <1>5, <2>2
    <3> QED
      BY <1>2, <3>1
  <2> QED
    BY <2>1, <2>2
<1>7. j = c
  BY <1>3, <1>4, <1>5, <1>6, SameSeq
<1> QED
  BY <1>7 DEF j, a, b, c, next, Joins

\* However the batches are cut, the outputs are those of the inputs alone.
LEMMA HashManyIs ==
  ASSUME NEW inputs, Len(inputs) \in Nat, NEW blocks \in Nat, NEW key, NEW flags, NEW build
  PROVE  hash_many_vector(inputs, blocks, key, flags, build)
           = {[i \in 1..Len(inputs) |-> OutputOf(blocks, inputs[i], key, flags, build)]}
<1> DEFINE n == Len(inputs)
           from(k) == OutputsFrom(inputs, k, n, blocks, key, flags, build)
           Body(f, k) ==
             IF k = n THEN {<<>>}
             ELSE UNION {{batch(inputs, k, vl, blocks, key, flags, build) \o rest :
                            rest \in IF next_batch(k, vl) \in 0..n
                                     THEN f[next_batch(k, vl)] ELSE {}} :
                         vl \in vsetvl(n - k)}
           all == [k \in 0..n |-> {from(k)}]
           r == CHOOSE f : f = [k \in 0..n |-> Body(f, k)]
<1>1. hash_many_vector(inputs, blocks, key, flags, build) = r[0]
  BY DEF hash_many_vector
<1>2. n \in Nat
  OBVIOUS
<1> HIDE DEF n
<1>3. ASSUME NEW f, NEW k \in 0..n, \A h \in 0..n : h > k => f[h] = {from(h)}
      PROVE  Body(f, k) = {from(k)}
  <2>1. CASE k = n
    <3>1. from(k) = <<>>
      <4> DEFINE s == from(k)
      <4>1. n - k = 0
        BY <1>2, <2>1
      <4>2. s = [i \in 1..0 |-> s[i]]
        BY <4>1 DEF OutputsFrom
      <4> HIDE DEF s
      <4>3. IsSeq(s) /\ Len(s) = 0
        BY <4>2, SeqOf
      <4>4. s = <<>>
        BY <4>3, EmptyIs
      <4> QED
        BY <4>4 DEF s
    <3> QED
      BY <2>1, <3>1
  <2>2. CASE k # n
    <3> DEFINE G == vsetvl(n - k)
               Course(vl) == {batch(inputs, k, vl, blocks, key, flags, build) \o rest :
                                rest \in IF next_batch(k, vl) \in 0..n
                                         THEN f[next_batch(k, vl)] ELSE {}}
    <3>1. G # {} /\ G \subseteq 1..(n - k)
      <4>1. n - k \in Nat /\ n - k > 0
        BY <1>2, <2>2
      <4> QED
        BY <4>1, GrantIs
    <3>2. ASSUME NEW vl \in G PROVE Course(vl) = {from(k)}
      <4>1. vl \in Nat /\ k \in Nat /\ k + vl \in 0..n /\ k + vl > k /\ k + vl <= n
        BY <1>2, <3>1
      <4>2. f[k + vl] = {from(k + vl)}
        BY <1>3, <4>1
      <4>3. batch(inputs, k, vl, blocks, key, flags, build) \o from(k + vl) = from(k)
        <5>1. n \in Nat /\ k \in Nat /\ vl \in Nat /\ k + vl <= n /\ blocks \in Nat
          BY <1>2, <4>1
        <5>2. batch(inputs, k, vl, blocks, key, flags, build)
                  \o OutputsFrom(inputs, k + vl, n, blocks, key, flags, build)
                = OutputsFrom(inputs, k, n, blocks, key, flags, build)
          <6>1. Joins(inputs, n, k, vl, blocks, key, flags, build)
            BY <5>1, BatchJoins
          <6> QED
            BY <6>1 DEF Joins
        <5> QED
          BY <5>2
      <4> HIDE DEF from
      <4>4. Course(vl) = {batch(inputs, k, vl, blocks, key, flags, build) \o from(k + vl)}
        BY <4>1, <4>2 DEF next_batch
      <4> QED
        BY <4>3, <4>4
    <3>3. Body(f, k) = UNION {Course(vl) : vl \in G}
      BY <2>2
    <3> HIDE DEF G, Course, Body, from
    <3> QED
      BY <3>1, <3>2, <3>3
  <2> QED
    BY <2>1, <2>2
<1> HIDE DEF Body, from
<1>4. all = [k \in 0..n |-> Body(all, k)]
  <2>1. \A h \in 0..n : all[h] = {from(h)}
    OBVIOUS
  <2>2. all = [k \in 0..n |-> all[k]]
    OBVIOUS
  <2> HIDE DEF all
  <2>3. ASSUME NEW k \in 0..n PROVE all[k] = Body(all, k)
    <3>1. Body(all, k) = {from(k)}
      BY <1>3, <2>1
    <3> QED
      BY <2>1, <3>1
  <2> QED
    BY <2>2, <2>3
<1>5. r = [k \in 0..n |-> Body(r, k)]
  <2> HIDE DEF all
  <2> QED
    BY <1>4
<1> HIDE DEF r
<1> DEFINE S == {d \in 0..n : \A h \in 0..n : n - h <= d => r[h] = {from(h)}}
<1>6. 0 \in S
  <2>1. ASSUME NEW h \in 0..n, n - h <= 0 PROVE r[h] = {from(h)}
    <3>1. \A q \in 0..n : q > h => r[q] = {from(q)}
      BY <1>2, <2>1
    <3>2. Body(r, h) = {from(h)}
      BY <1>3, <3>1
    <3> QED
      BY <1>5, <3>2
  <2> QED
    BY <1>2, <2>1
<1>7. ASSUME NEW d \in 0..n, d < n, d \in S PROVE d + 1 \in S
  <2>1. ASSUME NEW h \in 0..n, n - h <= d + 1 PROVE r[h] = {from(h)}
    <3>1. ASSUME NEW q \in 0..n, q > h PROVE r[q] = {from(q)}
      <4>1. n - q <= d
        BY <1>2, <2>1, <3>1
      <4> QED
        BY <1>7, <4>1
    <3>2. Body(r, h) = {from(h)}
      BY <1>3, <3>1
    <3> QED
      BY <1>5, <3>2
  <2>2. d + 1 \in 0..n
    BY <1>2, <1>7
  <2> QED
    BY <2>1, <2>2
<1>8. \A d \in 0..n : d \in S
  <2> HIDE DEF S
  <2> QED
    BY <1>2, <1>6, <1>7, Induct
<1>9. r[0] = {from(0)}
  <2>1. n \in S
    BY <1>2, <1>8
  <2>2. 0 \in 0..n /\ n - 0 <= n
    BY <1>2
  <2> QED
    BY <2>1, <2>2
<1>10. from(0) = [i \in 1..n |-> OutputOf(blocks, inputs[i], key, flags, build)]
  <2>1. n - 0 = n /\ \A i \in 1..n : 0 + i = i
    BY <1>2
  <2> QED
    BY <2>1 DEF from, OutputsFrom
<1> QED
  BY <1>1, <1>9, <1>10 DEF n

\* What the property says of one build.
LanesApartIn(build) ==
  LET alone(i) == hash_many_vector(<<Inputs[i]>>, 2, KeyWords, 3, build)
      outcomes == hash_many_vector(Inputs, 2, KeyWords, 3, build)
  IN  /\ outcomes # {}
      /\ \A out \in outcomes :
           Len(out) = argument
             /\ \A i \in 1..argument : alone(i) = {<<out[i]>>}

\* Every lane has the output of its own input, for any number of inputs.
LEMMA LanesAreOwn ==
  ASSUME argument \in Nat
  PROVE  LanesKeepApart
<1> SUFFICES ASSUME argument \in 1..MaxInputs, NEW build \in Builds
             PROVE  LanesApartIn(build)
  BY DEF LanesKeepApart, LanesApartIn
<1> DEFINE n == argument
           out(x) == OutputOf(2, x, KeyWords, 3, build)
           all == [i \in 1..n |-> out(Inputs[i])]
           outcomes == hash_many_vector(Inputs, 2, KeyWords, 3, build)
           alone(i) == hash_many_vector(<<Inputs[i]>>, 2, KeyWords, 3, build)
<1>1. Len(Inputs) = n /\ n \in Nat
  <2>1. Inputs = [i \in 1..n |-> Inputs[i]]
    BY DEF Inputs
  <2> QED
    BY <2>1, SeqOf
<1>2. outcomes = {all}
  BY <1>1, HashManyIs
<1>3. ASSUME NEW i \in 1..n PROVE alone(i) = {<<out(Inputs[i])>>}
  <2> DEFINE s == <<Inputs[i]>>
             x == Inputs[i]
  <2>1. Len(s) = 1 /\ 1 \in Nat /\ s[1] = x
    OBVIOUS
  <2> HIDE DEF s, x
  <2>2. hash_many_vector(s, 2, KeyWords, 3, build) = {[j \in 1..Len(s) |-> out(s[j])]}
    <3>1. Len(s) \in Nat /\ 2 \in Nat
      BY <2>1
    <3> HIDE <2>1
    <3> QED
      BY <3>1, HashManyIs
  <2>3. [j \in 1..Len(s) |-> out(s[j])] = <<out(x)>>
    <3> DEFINE y == out(x)
               t == [j \in 1..Len(s) |-> out(s[j])]
               u == <<y>>
    <3>1. t = [j \in 1..1 |-> t[j]] /\ t[1] = y
      BY <2>1
    <3> HIDE DEF y, t
    <3>2. u = [j \in 1..1 |-> u[j]] /\ u[1] = y
      OBVIOUS
    <3> HIDE DEF u
    <3>3. t = u
      BY <3>1, <3>2
    <3> QED
      BY <3>3 DEF t, u, y
  <2> QED
    BY <2>2, <2>3 DEF s, x
<1> HIDE DEF out
<1>4. Len(all) = n /\ \A i \in 1..n : all[i] = out(Inputs[i])
  <2>1. all = [i \in 1..n |-> all[i]] /\ \A i \in 1..n : all[i] = out(Inputs[i])
    OBVIOUS
  <2> HIDE DEF all
  <2> QED
    BY <1>1, <2>1, SeqOf
<1> HIDE DEF all, outcomes, alone
<1> QED
  BY <1>2, <1>3, <1>4 DEF LanesApartIn, outcomes, alone

-----------------------------------------------------------------------------
(***************************************************************************)
(* The loop over pairs of registers, and how it can end.                   *)
(***************************************************************************)
\* The step with vl lanes when k of the n words are left, before an end o.
MixedIn(n, k, vl, o) ==
  [wraps |-> o.wraps,
   cv |-> [i \in CvLanes |-> (IF i <= 2 * vl THEN <<n - k + i>> ELSE <<>>) \o o.cv[i]]]

Untouched(b) == [wraps |-> b, cv |-> [i \in CvLanes |-> <<>>]]

\* How the loop can end from k words left, if f tells how it can from fewer.
EndsBody(n, f, k) ==
  IF k = 0 THEN {Untouched(FALSE)}
  ELSE UNION {IF words_of_step(vl) > k THEN {Untouched(TRUE)}
              ELSE {MixedIn(n, k, vl, o) : o \in f[k - words_of_step(vl)]} :
              vl \in vsetvl(k)}

EndsOn(f, m, n) == f = [k \in 0..m |-> EndsBody(n, f, k)]

\* It looks at fewer words only.
LEMMA EndsLocal ==
  ASSUME NEW n \in Nat, NEW k \in Nat, NEW f, NEW h, \A j \in 0..(k-1) : f[j] = h[j]
  PROVE  EndsBody(n, f, k) = EndsBody(n, h, k)
<1>1. CASE k = 0
  BY <1>1 DEF EndsBody
<1>2. CASE k # 0
  <2> DEFINE G == vsetvl(k)
             Course(e, vl) == IF words_of_step(vl) > k THEN {Untouched(TRUE)}
                              ELSE {MixedIn(n, k, vl, o) : o \in e[k - words_of_step(vl)]}
  <2>1. G \subseteq 1..k
    BY <1>2, GrantIs
  <2>2. ASSUME NEW vl \in G PROVE Course(f, vl) = Course(h, vl)
    <3>1. words_of_step(vl) \in Nat /\ words_of_step(vl) > 0
      BY <2>1 DEF words_of_step
    <3>2. ~ (words_of_step(vl) > k) => k - words_of_step(vl) \in 0..(k-1)
      BY <3>1
    <3>3. ~ (words_of_step(vl) > k) => f[k - words_of_step(vl)] = h[k - words_of_step(vl)]
      BY <3>2
    <3> QED
      BY <3>3
  <2>3. /\ EndsBody(n, f, k) = UNION {Course(f, vl) : vl \in G}
        /\ EndsBody(n, h, k) = UNION {Course(h, vl) : vl \in G}
    BY <1>2 DEF EndsBody
  <2> HIDE DEF G, Course
  <2> QED
    BY <2>2, <2>3
<1> QED
  BY <1>1, <1>2

\* There is a function that tells it for every count up to m.
LEMMA EndsExist ==
  ASSUME NEW m \in Nat, NEW n \in Nat
  PROVE  \E f : EndsOn(f, m, n)
<1> DEFINE S == {j \in 0..m : \E f : EndsOn(f, j, n)}
<1>1. 0 \in S
  <2> DEFINE f == [k \in 0..0 |-> {Untouched(FALSE)}]
  <2>1. \A k \in 0..0 : EndsBody(n, f, k) = {Untouched(FALSE)}
    BY DEF EndsBody
  <2>2. f = [k \in 0..0 |-> EndsBody(n, f, k)]
    BY <2>1
  <2> HIDE DEF f
  <2>3. EndsOn(f, 0, n)
    BY <2>2 DEF EndsOn
  <2> QED
    BY <2>3
<1>2. ASSUME NEW j \in 0..m, j < m, j \in S PROVE j + 1 \in S
  <2>1. PICK f : EndsOn(f, j, n)
    BY <1>2
  <2> DEFINE h == [k \in 0..(j+1) |-> IF k = j + 1 THEN EndsBody(n, f, k) ELSE f[k]]
  <2>2. \A k \in 0..j : h[k] = f[k]
    OBVIOUS
  <2>3. h[j + 1] = EndsBody(n, f, j + 1)
    OBVIOUS
  <2>4. h = [k \in 0..(j+1) |-> h[k]]
    OBVIOUS
  <2> HIDE DEF h
  <2>5. ASSUME NEW k \in 0..(j+1) PROVE h[k] = EndsBody(n, h, k)
    <3>1. \A i \in 0..(k-1) : f[i] = h[i]
      BY <2>2
    <3>2. EndsBody(n, f, k) = EndsBody(n, h, k)
      BY <3>1, EndsLocal
    <3>3. CASE k = j + 1
      BY <2>3, <3>2, <3>3
    <3>4. CASE k # j + 1
      <4>1. k \in 0..j
        BY <3>4
      <4>2. f[k] = EndsBody(n, f, k)
        BY <2>1, <4>1 DEF EndsOn
      <4> QED
        BY <2>2, <3>2, <4>1, <4>2
    <3> QED
      BY <3>3, <3>4
  <2>6. EndsOn(h, j + 1, n)
    BY <2>4, <2>5 DEF EndsOn
  <2>7. j + 1 \in 0..m
    BY <1>2
  <2> QED
    BY <2>6, <2>7
<1> HIDE DEF S
<1>3. m \in S
  BY <1>1, <1>2, Induct
<1> QED
  BY <1>3 DEF S

\* The call tells it for all the words.
LEMMA EndsAre ==
  ASSUME NEW n \in Nat
  PROVE  \E f : EndsOn(f, n, n) /\ compress_riscv_vtype(n) = f[n]
<1> DEFINE r == CHOOSE f : f = [k \in 0..n |-> EndsBody(n, f, k)]
<1>1. compress_riscv_vtype(n) = r[n]
  BY DEF compress_riscv_vtype, EndsBody, Untouched, MixedIn
<1>2. \E f : f = [k \in 0..n |-> EndsBody(n, f, k)]
  BY EndsExist DEF EndsOn
<1>3. r = [k \in 0..n |-> EndsBody(n, r, k)]
  BY <1>2
<1>4. EndsOn(r, n, n)
  <2> HIDE DEF r
  <2> QED
    BY <1>3 DEF EndsOn
<1> QED
  BY <1>1, <1>4

\* With a pair of registers of words or more left, a step takes just that.
LEMMA FullStep ==
  ASSUME NEW n \in Nat, NEW m \in Nat, NEW f, EndsOn(f, m, n), NEW k \in 0..m,
         k >= 2 * VLMAX
  PROVE  f[k] = {MixedIn(n, k, VLMAX, o) : o \in f[k - 2 * VLMAX]}
<1>1. VLMAX \in Nat /\ VLMAX > 0 /\ k \in Nat /\ k > 0
  BY VlmaxAssumption
<1>2. vsetvl(k) = {VLMAX}
  BY <1>1, GrantIs
<1>3. words_of_step(VLMAX) = 2 * VLMAX /\ ~ (words_of_step(VLMAX) > k) /\ k # 0
  BY <1>1 DEF words_of_step
<1>4. EndsBody(n, f, k) = {MixedIn(n, k, VLMAX, o) : o \in f[k - 2 * VLMAX]}
  BY <1>2, <1>3 DEF EndsBody
<1>5. f[k] = EndsBody(n, f, k)
  BY DEF EndsOn
<1> QED
  BY <1>4, <1>5

\* Whole pairs of registers: the words of every lane, in their order.
Woven(n, k, q) ==
  [i \in CvLanes |-> [j \in 1..q |-> n - k + ((j - 1) * (2 * VLMAX)) + i]]

\* A step before the others puts its word of every lane first.
LEMMA WeaveFirst ==
  ASSUME NEW n \in Nat, NEW k \in Nat, NEW q \in Nat, NEW o,
         o.cv = Woven(n, k, q)
  PROVE  MixedIn(n, k + 2 * VLMAX, VLMAX, o).cv = Woven(n, k + 2 * VLMAX, q + 1)
<1> DEFINE P == 2 * VLMAX
           d == k + P
           new == [i \in CvLanes |->
                     (IF i <= P THEN <<n - d + i>> ELSE <<>>) \o o.cv[i]]
<1>1. P \in Nat /\ CvLanes = 1..P
  BY VlmaxAssumption DEF CvLanes
<1>2. MixedIn(n, d, VLMAX, o).cv = new
  BY DEF MixedIn
<1> HIDE DEF P
<1>3. ASSUME NEW i \in CvLanes
      PROVE  new[i] = [j \in 1..(q + 1) |-> n - d + ((j - 1) * P) + i]
  <2> DEFINE a == n - d + i
             s == <<a>>
             t == o.cv[i]
             u == s \o t
             v == [j \in 1..(q + 1) |-> n - d + ((j - 1) * P) + i]
  <2>1. i \in Nat /\ i <= P
    BY <1>1
  <2>2. new[i] = u
    BY <2>1
  <2>3. IsSeq(s) /\ Len(s) = 1 /\ s[1] = a
    <3> HIDE DEF a
    <3>1. Len(s) = 1 /\ s = [j \in 1..1 |-> s[j]] /\ s[1] = a
      OBVIOUS
    <3> QED
      BY <3>1 DEF IsSeq
  <2>4. t = [j \in 1..q |-> n - k + ((j - 1) * P) + i]
    BY DEF Woven, P
  <2> HIDE DEF t, s, new
  <2>5. IsSeq(t) /\ Len(t) = q
    <3>1. t = [j \in 1..q |-> t[j]]
      BY <2>4
    <3> QED
      BY <3>1, SeqOf
  <2>6. IsSeq(v) /\ Len(v) = q + 1
    <3>1. v = [j \in 1..(q + 1) |-> v[j]] /\ q + 1 \in Nat
      OBVIOUS
    <3> HIDE DEF v
    <3> QED
      BY <3>1, SeqOf
  <2>7. /\ IsSeq(u) /\ Len(u) = 1 + q
        /\ \A j \in 1..(1 + q) : u[j] = IF j <= 1 THEN s[j] ELSE t[j - 1]
    <3>1. /\ IsSeq(s \o t) /\ Len(s \o t) = Len(s) + Len(t)
          /\ \A j \in 1..(Len(s) + Len(t)) :
               (s \o t)[j] = IF j <= Len(s) THEN s[j] ELSE t[j - Len(s)]
      BY <2>3, <2>5, ConcatIs
    <3>2. u = s \o t
      OBVIOUS
    <3> HIDE DEF u
    <3> QED
      BY <2>3, <2>5, <3>1, <3>2
  <2> HIDE DEF u
  <2>8. ASSUME NEW j \in 1..(q + 1) PROVE u[j] = v[j]
    <3>1. v[j] = n - d + ((j - 1) * P) + i
      OBVIOUS
    <3> HIDE DEF v
    <3>2. CASE j = 1
      <4>1. u[j] = a
        BY <2>3, <2>7, <3>2
      <4>2. (j - 1) * P = 0
        BY <1>1, <3>2
      <4> QED
        BY <1>1, <2>1, <3>1, <4>1, <4>2
    <3>3. CASE j # 1
      <4> DEFINE e == j - 2
                 x == e * P
                 y == (j - 1) * P
      <4>1. e \in Nat /\ j - 1 \in 1..q /\ (j - 1) - 1 = e /\ j - 1 = e + 1
        BY <3>3
      <4>2. u[j] = t[j - 1]
        BY <2>7, <3>3
      <4>3. t[j - 1] = n - k + x + i
        BY <2>4, <4>1
      <4> HIDE DEF e
      <4>4. x \in Nat /\ y = x + P
        BY <1>1, <4>1
      <4> HIDE DEF x
      <4>5. v[j] = n - d + y + i
        BY <3>1
      <4> HIDE DEF y
      <4>6. n - k + x + i = n - d + y + i
        BY <1>1, <2>1, <4>4
      <4> QED
        BY <4>2, <4>3, <4>5, <4>6
    <3> QED
      BY <3>2, <3>3
  <2>9. u = v
    <3> HIDE DEF v
    <3> QED
      BY <2>6, <2>7, <2>8, SameSeq
  <2> QED
    BY <2>2, <2>9
<1>4. new = Woven(n, d, q + 1)
  <2>1. new = [i \in CvLanes |-> new[i]]
    OBVIOUS
  <2> HIDE DEF new, d
  <2> QED
    BY <1>3, <2>1 DEF Woven, P
<1> QED
  BY <1>2, <1>4 DEF P

\* From whole pairs of registers the loop ends, with every word in its lane.
LEMMA WholeEnds ==
  ASSUME NEW n \in Nat, NEW f, EndsOn(f, n, n), NEW q \in Nat, n = q * (2 * VLMAX)
  PROVE  \A o \in f[n] : ~ o.wraps /\ o.cv = Woven(n, n, q)
<1> DEFINE P == 2 * VLMAX
           Good(x) == x * P <= n =>
                        \A o \in f[x * P] : ~ o.wraps /\ o.cv = Woven(n, x * P, x)
           S == {x \in 0..q : Good(x)}
<1>1. P \in Nat /\ P > 0
  BY VlmaxAssumption
<1> HIDE DEF P
<1>2. 0 \in S
  <2>1. 0 * P = 0 /\ 0 \in 0..n
    BY <1>1
  <2>2. f[0] = {Untouched(FALSE)}
    <3>1. EndsBody(n, f, 0) = {Untouched(FALSE)}
      BY DEF EndsBody
    <3> QED
      BY <2>1, <3>1 DEF EndsOn
  <2>3. ~ Untouched(FALSE).wraps /\ Untouched(FALSE).cv = [i \in CvLanes |-> <<>>]
    BY DEF Untouched
  <2>4. Woven(n, 0, 0) = [i \in CvLanes |-> <<>>]
    <3>1. ASSUME NEW i \in CvLanes
          PROVE  [j \in 1..0 |-> n - 0 + ((j - 1) * (2 * VLMAX)) + i] = <<>>
      <4> DEFINE s == [j \in 1..0 |-> n - 0 + ((j - 1) * (2 * VLMAX)) + i]
      <4>1. s = [j \in 1..0 |-> s[j]]
        OBVIOUS
      <4> HIDE DEF s
      <4>2. IsSeq(s) /\ Len(s) = 0
        BY <4>1, SeqOf
      <4>3. s = <<>>
        BY <4>2, EmptyIs
      <4> QED
        BY <4>3 DEF s
    <3> QED
      BY <3>1 DEF Woven
  <2>5. Good(0)
    BY <2>1, <2>2, <2>3, <2>4
  <2> HIDE DEF Good
  <2> QED
    BY <2>5
<1>3. ASSUME NEW x \in 0..q, x < q, x \in S PROVE x + 1 \in S
  <2> DEFINE k == x * P
             h == (x + 1) * P
  <2>1. k \in Nat /\ h = k + P /\ h \in Nat /\ k <= h /\ h >= P /\ h - P = k
    BY <1>1
  <2>2. SUFFICES ASSUME h <= n
                 PROVE  \A o \in f[h] : ~ o.wraps /\ o.cv = Woven(n, h, x + 1)
    BY <1>3
  <2>3. \A o \in f[k] : ~ o.wraps /\ o.cv = Woven(n, k, x)
    BY <1>3, <2>1, <2>2
  <2> HIDE DEF k, h
  <2>4. f[h] = {MixedIn(n, h, VLMAX, o) : o \in f[k]}
    <3>1. h \in 0..n /\ h >= 2 * VLMAX
      BY <2>1, <2>2 DEF P
    <3>2. f[h] = {MixedIn(n, h, VLMAX, o) : o \in f[h - 2 * VLMAX]}
      BY <3>1, FullStep
    <3> QED
      BY <2>1, <3>2 DEF P
  <2>5. ASSUME NEW o \in f[k]
        PROVE  /\ ~ MixedIn(n, h, VLMAX, o).wraps
               /\ MixedIn(n, h, VLMAX, o).cv = Woven(n, h, x + 1)
    <3>1. ~ o.wraps /\ o.cv = Woven(n, k, x)
      BY <2>3
    <3>2. ~ MixedIn(n, h, VLMAX, o).wraps
      BY <3>1 DEF MixedIn
    <3>3. MixedIn(n, k + 2 * VLMAX, VLMAX, o).cv = Woven(n, k + 2 * VLMAX, x + 1)
      BY <2>1, <3>1, WeaveFirst
    <3> QED
      BY <2>1, <3>2, <3>3 DEF P
  <2> QED
    BY <2>4, <2>5
<1> HIDE DEF S
<1>4. \A x \in 0..q : x \in S
  BY <1>2, <1>3, Induct
<1>5. q \in S
  BY <1>4
<1> QED
  BY <1>5 DEF S, P

\* With one register's worth or less over, every end is a wrap.
LEMMA OddEnds ==
  ASSUME NEW n \in Nat, NEW f, EndsOn(f, n, n), NEW q \in Nat, NEW r \in 1..VLMAX,
         n = (q * (2 * VLMAX)) + r
  PROVE  \A o \in f[n] : o.wraps
<1> DEFINE P == 2 * VLMAX
           Good(x) == (x * P) + r <= n => \A o \in f[(x * P) + r] : o.wraps
           S == {x \in 0..q : Good(x)}
<1>1. P \in Nat /\ P > 0 /\ r \in Nat /\ r > 0 /\ r <= VLMAX /\ VLMAX \in Nat
  BY VlmaxAssumption
<1> HIDE DEF P
<1>2. 0 \in S
  <2>1. (0 * P) + r = r
    BY <1>1
  <2>2. ASSUME r <= n PROVE f[r] = {Untouched(TRUE)}
    <3>1. vsetvl(r) = {r} /\ words_of_step(r) > r
      BY <1>1, GrantIs DEF words_of_step
    <3>2. EndsBody(n, f, r) = {Untouched(TRUE)}
      <4> DEFINE Course(vl) == IF words_of_step(vl) > r THEN {Untouched(TRUE)}
                               ELSE {MixedIn(n, r, vl, o) : o \in f[r - words_of_step(vl)]}
      <4>1. EndsBody(n, f, r) = UNION {Course(vl) : vl \in vsetvl(r)}
        <5>1. r # 0
          BY <1>1
        <5> QED
          BY <5>1 DEF EndsBody
      <4>2. Course(r) = {Untouched(TRUE)}
        BY <3>1
      <4> HIDE DEF Course
      <4> QED
        BY <3>1, <4>1, <4>2
    <3>3. r \in 0..n
      BY <1>1, <2>2
    <3> QED
      BY <3>2, <3>3 DEF EndsOn
  <2>3. Untouched(TRUE).wraps
    BY DEF Untouched
  <2>4. Good(0)
    BY <2>1, <2>2, <2>3
  <2> HIDE DEF Good
  <2> QED
    BY <2>4
<1>3. ASSUME NEW x \in 0..q, x < q, x \in S PROVE x + 1 \in S
  <2> DEFINE k == (x * P) + r
             h == ((x + 1) * P) + r
  <2>1. k \in Nat /\ h = k + P /\ h \in Nat /\ k <= h /\ h >= P /\ h - P = k
    BY <1>1
  <2>2. SUFFICES ASSUME h <= n PROVE \A o \in f[h] : o.wraps
    BY <1>3
  <2>3. \A o \in f[k] : o.wraps
    BY <1>3, <2>1, <2>2
  <2> HIDE DEF k, h
  <2>4. f[h] = {MixedIn(n, h, VLMAX, o) : o \in f[k]}
    <3>1. h \in 0..n /\ h >= 2 * VLMAX
      BY <2>1, <2>2 DEF P
    <3>2. f[h] = {MixedIn(n, h, VLMAX, o) : o \in f[h - 2 * VLMAX]}
      BY <3>1, FullStep
    <3> QED
      BY <2>1, <3>2 DEF P
  <2>5. ASSUME NEW o \in f[k] PROVE MixedIn(n, h, VLMAX, o).wraps
    BY <2>3 DEF MixedIn
  <2> QED
    BY <2>4, <2>5
<1> HIDE DEF S
<1>4. \A x \in 0..q : x \in S
  BY <1>2, <1>3, Induct
<1>5. q \in S
  BY <1>4
<1> QED
  BY <1>5 DEF S, P

\* How the loop ends, for every number of words and every course of vsetvl.
LEMMA PairsEnd ==
  ASSUME argument \in Nat
  PROVE  WholePairsEnd
<1> DEFINE n == argument
           P == 2 * VLMAX
           q == n \div P
           r == n % P
<1>1. P \in Nat /\ P > 0 /\ VLMAX \in Nat /\ CvLanes = 1..P
  BY VlmaxAssumption DEF CvLanes
<1>2. q \in Nat /\ r \in Nat /\ n = (q * P) + r
  <2> HIDE DEF P
  <2> QED
    BY <1>1
<1>3. PICK f : EndsOn(f, n, n) /\ compress_riscv_vtype(n) = f[n]
  BY EndsAre
<1>4. ASSUME NEW o \in f[n], r = 0
      PROVE  /\ ~ o.wraps
             /\ \A i \in 1..P : o.cv[i] = [j \in 1..q |-> (j - 1) * 2 * VLMAX + i]
  <2>1. n = q * (2 * VLMAX)
    <3> HIDE DEF q, r
    <3> QED
      BY <1>1, <1>2, <1>4
  <2> HIDE DEF q, r
  <2>2. ~ o.wraps /\ o.cv = Woven(n, n, q)
    BY <1>2, <1>3, <2>1, WholeEnds
  <2>3. ASSUME NEW i \in 1..P
        PROVE  o.cv[i] = [j \in 1..q |-> (j - 1) * 2 * VLMAX + i]
    <3>1. o.cv[i] = [j \in 1..q |-> n - n + ((j - 1) * (2 * VLMAX)) + i]
      BY <1>1, <2>2 DEF Woven
    <3>2. ASSUME NEW j \in 1..q
          PROVE  n - n + ((j - 1) * (2 * VLMAX)) + i = (j - 1) * 2 * VLMAX + i
      <4> DEFINE e == j - 1
                 v == VLMAX
      <4>1. e \in Nat /\ v \in Nat
        BY <1>1
      <4> HIDE DEF e, v
      <4>2. e * (2 * v) = e * 2 * v /\ e * 2 * v \in Int
        BY <4>1
      <4>3. n - n + (e * (2 * v)) + i = e * 2 * v + i
        BY <4>2
      <4> QED
        BY <4>3 DEF e, v
    <3> QED
      BY <3>1, <3>2
  <2> QED
    BY <2>2, <2>3
<1>5. ASSUME NEW o \in f[n], r \in 1..VLMAX PROVE o.wraps
  <2>1. n = (q * (2 * VLMAX)) + r
    BY <1>2
  <2> HIDE DEF q, r
  <2> QED
    BY <1>2, <1>3, <1>5, <2>1, OddEnds
<1> QED
  BY <1>3, <1>4, <1>5 DEF WholePairsEnd

\* The lanes of the vector kernel keep apart.
THEOREM LanesAlwaysApart == Enumeration => []LanesKeepApart
<1>1. ArgumentInv => LanesKeepApart
  BY ArgumentIsWord, LanesAreOwn
<1> QED
  BY <1>1, EnumerationBound, PTL

\* The loop over pairs of registers ends on whole pairs, and wraps otherwise.
THEOREM WholePairsAlwaysEnd == Enumeration => []WholePairsEnd
<1>1. ArgumentInv => WholePairsEnd
  BY ArgumentIsWord, PairsEnd
<1> QED
  BY <1>1, EnumerationBound, PTL

=============================================================================
