SPECIFICATION Spec
CONSTANTS
  MaxThreads = 4
  MaxRecords = 9
  MaxOperations = 9
  MaxLength = 2
  MaxKey = 1
INVARIANTS TypeOK DisjointKeys RecordsCovered Even OperationsShared
