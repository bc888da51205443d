\* Batches of up to two keys and flushes interleaved with two calls of
\* partitions with batched rewrites: once Compact returns, Get is unchanged.
CONSTANTS
  Keys = {k1, k2}
  k1 = k1
  k2 = k2
  Values = {v1, v2}
  NoValue = NoValue
  EmptyValue = EmptyValue
  ReadError = ReadError
  PartitionNum = 2
  KeyPartition <- MCKeyPartition
  MemtableNums = 2
  MemtableSize = 1
  CompactBatchCount = 2
  MaxTableId = 4
  MaxCommits = 3
  BatchKeys = 2
  MaxCrashes = 0
  MaxCompactions = 2
  FlushMayFail = FALSE
  CompactMayFail = FALSE
  MayClose = FALSE
SPECIFICATION SafetySpec
INVARIANT ReadLatestWhenIdle
