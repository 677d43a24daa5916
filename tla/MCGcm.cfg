\* Messages of up to two blocks, in every split into updates, through one context.
CONSTANTS
  BLOCK_LEN = 3
  IV_LEN = 1
  BYTE = 2
  WORD = 64
  Null = Null
  k1 = k1
  k2 = k2
  k3 = k3
  MaxLen = 6
  KeySizes <- MCKeySizes
  HashedCounter <- MCHashedCounter
  Keys <- MCKeys
  IVs <- MCIVs
  Adds <- MCAdds
  Contents <- MCContents
  TagLens <- MCTagLens
SPECIFICATION Spec
INVARIANTS
  OutputIsCounterMode
  TagIsOfCiphertext
  KeystreamIsFresh
  RunningValues
