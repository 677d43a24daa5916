\* Two sealed messages through the same two contexts, each damaged at most once.
CONSTANTS
  BLOCK_LEN = 3
  IV_LEN = 1
  BYTE = 2
  WORD = 64
  Null = Null
  MaxLen = 6
  MaxSealed = 2
  MaxFaults = 1
  KeySizes <- MCKeySizes
  HashedCounter <- MCHashedCounter
  Key <- MCKey
  IVs <- MCIVs
  Adds <- MCAdds
  Texts <- MCTexts
  TagLens <- MCTagLens
  Noise <- MCNoise
SPECIFICATION Spec
\* The last message sealed may arrive and be opened.
CHECK_DEADLOCK FALSE
INVARIANTS
  SealedOpens
  OpenedWasSealed
