\* A step of flushMemtable fails; ReadLatest is violated: the failed
\* table is never retried and the next flush drops it from memory.
CONSTANTS
  Keys = {k1, k2}
  k1 = k1
  k2 = k2
  Values = {v1, v2}
  NoValue = NoValue
  EmptyValue = EmptyValue
  ReadError = ReadError
  PartitionNum = 1
  KeyPartition <- MCKeyPartition
  MemtableNums = 2
  MemtableSize = 1
  CompactBatchCount = 1
  MaxTableId = 4
  MaxCommits = 4
  BatchKeys = 1
  MaxCrashes = 0
  MaxCompactions = 0
  FlushMayFail = TRUE
  CompactMayFail = FALSE
  MayClose = FALSE
SPECIFICATION SafetySpec
INVARIANT ReadLatest
