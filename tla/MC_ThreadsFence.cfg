SPECIFICATION FairSpec
CONSTANTS
  t1 = t1
  t2 = t2
  t3 = t3
  Threads <- MCThreads
  MaxCalls = 3
  SpuriousCAS = FALSE
INVARIANTS FenceInv Isolation
PROPERTIES ImplementsRendezvous EveryRoundEnds
