SPECIFICATION Spec
CONSTANTS
  t0 = t0
  t1 = t1
  Threads <- Two
  Workloads <- ReadUpsert
INVARIANTS InsertsAreNew
