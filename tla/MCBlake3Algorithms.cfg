\* Words up to 4096; of these, the first ones also as lengths, blocks, lanes.
CONSTANTS
  BLOCK_LEN = 2
  CHUNK_LEN = 4
  OUT_LEN = 1
  SIMD_DEGREE = 4
  MAX_SIMD_DEGREE = 8
  LogBits = 4
  VLMAX = 4
  MaxWord = 4096
  MaxLen = 80
  Counters = {0, 5}
  MaxCompressed = 96
  MaxInputs = 24
  Key = k1
  Garbage = Garbage
  Stale = Stale
SPECIFICATION Enumeration
\* The arguments are enumerated up to MaxWord, then the enumeration stops.
CHECK_DEADLOCK FALSE
INVARIANTS
  PairIsRootsChildren
  ArrayFits
  HalvesAreAdjacent
  LoopsAreBuiltins
  MaskIsRemainder
  CompressionIsDefined
  LanesKeepApart
  WholePairsEnd
