\* The comment on the top of the stack in blake3_hasher_finalize_seek.
CONSTANTS
  BLOCK_LEN = 2
  CHUNK_LEN = 4
  OUT_LEN = 1
  SIMD_DEGREE = 2
  MAX_SIMD_DEGREE = 4
  Garbage = Garbage
  IV = IV
  Keys = {k1}
  MAX_DEPTH = 3
  MaxChunks = 8
  MaxMessages = 1
  Seeks <- NoSeeks
  OutLens <- OneBlock
SPECIFICATION Spec
INVARIANTS
  TopIsChunkHash
