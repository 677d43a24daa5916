\* Three messages through one struct, keyed, unkeyed and under derived keys, with
\* every way to restart it, on a build without SIMD kernels.
CONSTANTS
  BLOCK_LEN = 2
  CHUNK_LEN = 4
  OUT_LEN = 1
  SIMD_DEGREE = 1
  MAX_SIMD_DEGREE = 1
  Garbage = Garbage
  IV = IV
  Keys = {k1}
  MAX_DEPTH = 2
  MaxChunks = 4
  MaxMessages = 3
  Seeks <- MCSeeks
  OutLens <- MCOutLens
SPECIFICATION Spec
PROPERTIES
  ImplementsHash
