\* Writes, rotations, backpressure, the flush goroutine and one crash with
\* recovery under the fairness of Spec; no compaction, no failing step.
CONSTANTS
  Keys = {k1, k2}
  k1 = k1
  k2 = k2
  Values = {v1, v2}
  NoValue = NoValue
  EmptyValue = EmptyValue
  ReadError = ReadError
  PartitionNum = 1
  KeyPartition <- MCKeyPartition
  MemtableNums = 2
  MemtableSize = 1
  CompactBatchCount = 1
  MaxTableId = 4
  MaxCommits = 3
  BatchKeys = 1
  MaxCrashes = 1
  MaxCompactions = 0
  FlushMayFail = FALSE
  CompactMayFail = FALSE
  MayClose = TRUE
SPECIFICATION Spec
INVARIANTS TypeOK FlushQueueMirrorsImmutables ExistAgreesWithGet
PROPERTIES KVSpecRefined QueuedTableFlushed
