-------------------------- MODULE MCBlake3Dispatch --------------------------
(***************************************************************************)
(* Instances of Blake3Dispatch for TLC: CPUs that differ in what each step *)
(* of the detection looks at, and builds of each kind.                     *)
(***************************************************************************)
EXTENDS Blake3Dispatch

X86Kernels == {"avx512", "avx2", "sse41", "sse2"}
Sse == {"SSE2", "SSSE3", "SSE41"}
Avx512 == {"AVX512F", "AVX512VL"}

\* An amd64 build with every kernel.
On(has, max_id, leaf7, states) ==
  [x86 |-> TRUE, amd64 |-> TRUE, neon |-> FALSE, win32 |-> FALSE,
   compiled |-> X86Kernels, has |-> has, max_id |-> max_id, leaf7 |-> leaf7,
   states |-> states]

Modern == Feature \cup {"OSXSAVE"}
Avx == Sse \cup {"AVX", "OSXSAVE"}

ManyHosts ==
  { On(Modern, 7, Leaf7, {"AVX", "ZMM"}),
    \* The operating system keeps the AVX registers only, or none.
    On(Modern, 7, Leaf7, {"AVX"}),
    On(Modern \ {"OSXSAVE"}, 7, Leaf7, {}),
    \* AVX512F without AVX512VL.
    On(Modern \ {"AVX512VL"}, 7, Leaf7 \ {"AVX512VL"}, {"AVX", "ZMM"}),
    \* No leaf 7, and something in the registers if it is read all the same.
    On(Avx, 6, Leaf7, {"AVX"}),
    On({"SSE2"}, 1, {}, {}),
    \* Other builds: Windows, some kernels left out, 32 bits, NEON, RISC-V.
    [On(Modern, 7, Leaf7, {"AVX", "ZMM"}) EXCEPT !.win32 = TRUE],
    [On(Modern, 7, Leaf7, {"AVX", "ZMM"}) EXCEPT
       !.compiled = {"avx2", "sse2"}],
    [On({}, 1, {}, {}) EXCEPT !.amd64 = FALSE],
    [On({}, 0, {}, {}) EXCEPT !.x86 = FALSE, !.amd64 = FALSE, !.neon = TRUE],
    [On({}, 0, {}, {}) EXCEPT !.x86 = FALSE, !.amd64 = FALSE] }

=============================================================================
