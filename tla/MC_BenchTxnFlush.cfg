SPECIFICATION Spec
CONSTANTS
  t0 = t0
  t1 = t1
  Threads <- Two
  Leader = t0
  Workloads = 2
  Operations <- TwoOperations
  Modes = {TRUE}
  DbMayFail = FALSE
  SpuriousCAS = {FALSE}
  Word = 256
INVARIANTS SizeReadAfterFlush
