SPECIFICATION Spec
CONSTANTS
  t0 = t0
  t1 = t1
  Threads <- Two
  Leader = t0
  Base = 2
  Keys = {0, 1, 2}
  Workloads <- Loads
  Engines = {"wiredtiger"}
  PoolSize = 1
  Chunk = 2
INVARIANTS BulkUndisturbed
