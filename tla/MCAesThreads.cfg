\* aes: tables, key schedules, ciphers and products of two threads.
CONSTANTS
  main = main
  other = other
  Threads <- MCThreads
  Main = main
  Setups <- MCSetups
  Works <- MCWorks
SPECIFICATION Spec
INVARIANTS
  NoWriterBesideReader
  ReadersFindTables
  ScheduleIsExpansion
  CipherIsAes
  Avx2IsTwoBlocks
  MultIsProduct
