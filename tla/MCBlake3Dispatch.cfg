\* Two threads, each making any calls in any order, on eleven hosts.
CONSTANTS
  Threads = {t1, t2}
  Hosts <- ManyHosts
  MaxBlocks = 2
SPECIFICATION Spec
INVARIANTS
  CacheIsComplete
  OneAnswer
  RunsWhatHostHas
  DegreeFillsKernel
PROPERTIES
  FilledForGood
