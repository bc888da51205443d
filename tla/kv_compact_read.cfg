\* Get while Compact runs; ReadLatest is violated: the index already
\* points into the temporary file while Get reads the old one.
CONSTANTS
  Keys = {k1, k2}
  k1 = k1
  k2 = k2
  Values = {v1, v2}
  NoValue = NoValue
  EmptyValue = EmptyValue
  ReadError = ReadError
  PartitionNum = 2
  KeyPartition <- MCKeyPartition
  MemtableNums = 2
  MemtableSize = 1
  CompactBatchCount = 2
  MaxTableId = 4
  MaxCommits = 4
  BatchKeys = 1
  MaxCrashes = 0
  MaxCompactions = 2
  FlushMayFail = FALSE
  CompactMayFail = FALSE
  MayClose = FALSE
SPECIFICATION SafetySpec
INVARIANT ReadLatest
