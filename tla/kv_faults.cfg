\* Failing flush steps and failing rewrites of Compact: the file Compact
\* renames into place still holds exactly the live records.
CONSTANTS
  Keys = {k1, k2}
  k1 = k1
  k2 = k2
  Values = {v1, v2}
  NoValue = NoValue
  EmptyValue = EmptyValue
  ReadError = ReadError
  PartitionNum = 1
  KeyPartition <- MCKeyPartition
  MemtableNums = 2
  MemtableSize = 1
  CompactBatchCount = 2
  MaxTableId = 4
  MaxCommits = 4
  BatchKeys = 1
  MaxCrashes = 0
  MaxCompactions = 2
  FlushMayFail = TRUE
  CompactMayFail = TRUE
  MayClose = FALSE
SPECIFICATION SafetySpec
PROPERTY CompactLeavesOnlyLive
