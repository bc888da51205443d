\* Writes, batched writes, rotation, explicit syncs and one crash with
\* reopen: 4-byte blocks, 1-byte headers, 8-byte segments.
CONSTANTS
  BlockSize = 4
  ChunkHeaderSize = 1
  SegmentSize = 8
  DataSizes = {1, 3, 8}
  SyncEachWrite = FALSE
  BytesPerSync = 4
  MaxWrites = 4
  MaxPending = 2
  MaxSegments = 3
  MaxCrashes = 1
SPECIFICATION Spec
INVARIANTS TypeOK DurablePrefix ResumeAtChunk
PROPERTY WALSpecRefined
