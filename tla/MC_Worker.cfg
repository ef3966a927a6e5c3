SPECIFICATION Spec
CONSTANTS
  t0 = t0
  t1 = t1
  Threads <- Two
  Workloads <- AllWorkloads
INVARIANTS TypeOK BuffersFit DrawnKeysExist PureInsertsAreNew
PROPERTIES EveryOperationEnds
