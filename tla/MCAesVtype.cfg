\* aes_vtype: what the comments of aes_vtype.c say its loop computes.
CONSTANTS
  main = main
  other = other
  Threads <- MCThreads
  Main = main
  Setups <- MCSetups
  Works <- MCWorks
SPECIFICATION Spec
INVARIANT VtypeIsTwoBlocks
