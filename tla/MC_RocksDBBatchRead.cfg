SPECIFICATION Spec
CONSTANTS
  t0 = t0
  t1 = t1
  Threads <- Two
  Leader = t0
  Base = 3
  Keys = {1, 2, 3}
  Workloads <- Mixed
INVARIANTS BatchReadTouchesBatch
