\* One message of up to sixteen chunks, in every split into updates: subtrees
\* of up to eight chunks, wider than the SIMD degree.  Every call comes back.
CONSTANTS
  BLOCK_LEN = 2
  CHUNK_LEN = 4
  OUT_LEN = 1
  SIMD_DEGREE = 2
  MAX_SIMD_DEGREE = 4
  Garbage = Garbage
  IV = IV
  Keys = {k1}
  MAX_DEPTH = 4
  MaxChunks = 16
  MaxMessages = 1
  Seeks <- NoSeeks
  OutLens <- OneBlock
SPECIFICATION FairSpec
INVARIANTS
  TypeOK
  HashIsTree
  StackInBounds
  PairUnderEmptyChunk
  ReadyToFinalize
  SubtreeAligned
  StackCoversChunks
  Accounting
PROPERTIES
  EveryCallReturns
