\* A call made before gcm_initialize.
CONSTANTS
  BLOCK_LEN = 3
  IV_LEN = 1
  BYTE = 2
  WORD = 64
  Null = Null
  k1 = k1
  k2 = k2
  k3 = k3
  MaxLen = 6
  MaxCalls = 2
  READ_LEN = 2
  MaxStarts = 2
  Garbage <- MCGarbage
  KeySizes <- MCKeySizes
  HashedCounter <- MCHashedCounter
  Keys <- MCKeys
  IVs <- MCIVs
  Texts <- MCTexts
  FileKey <- MCFileKey
  FileIV <- MCFileIV
  TestFiles <- MCTestFiles
  HashedFiles <- MCHashedFiles
SPECIFICATION Spec
\* All programs end, or are stopped.
CHECK_DEADLOCK FALSE
INVARIANTS
  ErrorReachesCaller
