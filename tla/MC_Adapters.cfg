SPECIFICATION Spec
CONSTANTS
  t0 = t0
  t1 = t1
  Threads <- Two
  Leader = t0
  Base = 2
  Keys = {0, 1, 2}
  Workloads <- Shipped
  Engines = {"leveldb", "lmdb", "wiredtiger", "mongodb", "redis", "ustore_ucset", "ustore_flight", "ustore_rocksdb", "rocksdb_transaction", "ustore_transaction"}
  PoolSize = 1
  Chunk = 2
INVARIANTS TypeOK ScanTouchesAll ClosedClean ClientsOwned
PROPERTIES ImplementsDataAccessor EveryCallEnds
