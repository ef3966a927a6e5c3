SPECIFICATION Spec
CONSTANTS
  t0 = t0
  t1 = t1
  Threads <- Two
  Leader = t0
  Workloads = 2
  Operations <- TwoOperations
  Modes = {TRUE, FALSE}
  DbMayFail = TRUE
  SpuriousCAS = {TRUE, FALSE}
  Word = 256
INVARIANTS TypeOK OpenWhileUsed FlushIsLast ExactReport PrintedBehind DirectSizeAfterFlush
PROPERTIES EveryWorkloadEnds
