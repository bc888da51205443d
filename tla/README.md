# TLA+ models of nnv

This directory holds TLA+ specifications of the concurrent and failure-prone
parts of nnv (`src/`), with the TLC configurations that check them.
Every module is written from the Go source. `PROJECT.json` maps each
definition to the lines it models, lists the runs and the mutants that
show each property can fail, and lists the hazards of the code with the
properties that cover them.

## The system

nnv has two subsystems: a storage engine and a vector-search edge layer.

**The key-value engine (`src/kv`, derived from lotusdb).**
- `DB` keeps an active memtable and a FIFO of immutable memtables
  (`activeMem`, `immuMems`). Each memtable is backed by a WAL (`src/kv/wal`).
- `Batch.Commit` runs under `db.mu`. It calls `waitMemtableSpace`. That
  sends a full active table on `flushChan` (capacity `MemtableNums-1`),
  appends it to `immuMems` and opens table `id+1`. When the channel stays
  full it times out.
- The goroutine `listenMemtableFlush` runs `flushMemtable` under
  `flushLock`: value log, sync, `index.PutBatch`, `index.DeleteBatch`,
  index sync, WAL delete, then the pop of `immuMems[0]` under `db.mu`.
- `Compact` runs one goroutine per value-log partition. Each keeps the
  records the index still points at, rewrites them into a temporary file,
  deletes the old file and renames the new one.
- `Open` replays every WAL as a memtable and flushes all but the newest.
  `Close` closes `flushChan` and waits up to one second for the listener.
- `Get` and `Exist` ask the memtables newest first, then the index.

**The edge layer (`src/edge`, `src/pkg/index`).**
- The gRPC handlers of `Edge` manage collections through three flag maps
  (`checker`, `loadchecker`, `auth`), the `Datas` map, a vector store
  (`vectorstore.go`), a bitmap index and the Disk store. Each RPC runs in
  its own goroutine and answers on a channel. No lock is held across the
  steps of one handler.
- VectorSearch, FilterSearch and HybridSearch answer on a capacity-1
  channel from a goroutine that fetches every hit from Disk.
- `pkg/index/inverted.go` is a typed inverted index: one posting bitmap
  per value, cached in memory with dirty flags over a key-value storage,
  fed through `withcontext.SinkWithContext` and flushed at the end of a
  batch.

## Modules

| Module | Models | Checked by |
|---|---|---|
| `KVSpec` | the abstract map that callers of `DB.Put/Delete/Get` rely on | as the refinement target of `KVStore` |
| `KVStore`, `MCKVStore` | the KV engine: writes, rotation, flush, Open, Close, Compact, crash | kv_* |
| `WAL`, `MCWAL` | one WAL: segments and blocks, Write, WriteAll, rotation, Sync, Close, Delete, crash, Open, readers | wal_durable |
| `WALSpec` | the abstract log a WAL's caller relies on: appends, Sync, a crash that cuts only unsynced records | as the refinement target of `WAL` |
| `Collections`, `MCCollections` | the collection and data RPCs of `Edge`, and the three searches | col_* |
| `InvertedIndex`, `MCInvertedIndex` | the inverted index: batches, processChange, flush, Search | inv_batches |

### KVStore

State:
- `mem`, `size` and `walIds` are the memtables and their WAL files.
- `activeMem`, `immuMems` and `flushChan` are the fields of `DB`.
- `flusher` is the `flushMemtable` call in progress. `flushLock` says who
  holds it.
- `writer` is a `Commit` blocked in `waitMemtableSpace`. It holds `db.mu`.
- `index` and `vlog` are the index and the value-log partitions. `temp` is
  Compact's temporary file; `compact[p]` is partition p's goroutine.
- `phase` is `up`, `down` (crashed), `open` (Open's flushes), `closing`
  or `closed`.
- `kv` and `lastWrites` are history variables recording the commits:
  the map, and the values the last commit wrote.

Actions, in code order:
- Writes: `WriteBatch(b)` commits a batch `b` from `Batches`: up to
  `BatchKeys` keys, each with a `PutRecord` or a `DeleteRecord`. A
  `DB.Put`/`DB.Delete` is the one-key case through a pooled batch. The
  commit puts every pending record into the active table in one step
  (`PutBatch`), as `putBatch` does under `db.mu`. It is one of `CommitPut` (room left),
  `CommitRotate` (the send succeeds) or `CommitBlock` (the send blocks),
  then `WriterSend` or `WriterTimeout`.
- Flush: `FlushReceive`, then `FlushAcquire`, `FlushVlog`, `FlushPut`,
  `FlushDel`, `FlushWal` and `FlushPop`. `FlushFail` is any early return.
- Close: `CloseStart` closes `flushChan` under `db.mu`. `CloseWait`
  receives the listener's signal. `CloseTimeout` is the timer firing.
  Once closed, every flush step fails.
- Restart: `Crash`, `Recover` (`openAllMemtables`), and Open's flush loop
  `OpenFlushNext` and `OpenDone`.
- Compaction: `CompactStart`, `CompactScan`, `CompactEnd`, `CompactRename`
  and `CompactFinish`, with `RewriteOk` and `RewriteFail`.

`Get` and `Exist` are state functions (`GetFrom`, `ExistFrom`). They are
read atomically, which is exact for the memtables because both hold
`db.mu.RLock`. `MCKVStore` instantiates `KVSpec` with
`store <- Visible` and `last <- [n |-> commits, writes |-> lastWrites]`,
and checks `KVSpecRefined == KV!Spec`. `KVSpec!Batch(w)` writes all keys
of `w` in one step.

Data is abstracted:
- A memtable maps each key to its newest record.
- A value-log file is a sequence of `[key, value]`.
- A position is `[part, n]`, the n-th record of a partition.
- Table fullness is a count of batches (`MemtableSize`).

`memtable.go` and `vlog.go` are not in the repository, so their parts
(`LogRecord`, `openAllMemtables`, `valueLog.read`) are modelled from the
spec and marked `spec_modelled`.

### WAL

State:
- `files` maps a segment id to its chunks (`[k, b, o, e, n]`: record,
  start block and offset, end, length) and the count of synced chunks.
- `active`, `older`, `bytesWrite`, `pending` and `pendingSize` are the
  fields of `WAL`. `open` says a WAL object exists.
- `written` is the history of positions returned since the last Open.
  `returned` is every position ever returned. `promised` is how many
  records of `written` the last `Sync()`, or a Write with `Options.Sync`,
  covered: what the caller has been told is durable.
- `pending` holds each pending record's length and number (the number of
  the call that handed it over). A `Write` between `PendingWrites` and
  `WriteAll` lands in the log before the pending records.

The chunk layout of `segment.go` is not in the repository. It is modelled
from the spec: a header per chunk, padding at the end of a block, and
records split across blocks (`Pad`, `Fill`, `PutChunk`). Sizes are scaled
down to 4-byte blocks, 1-byte headers and 8-byte segments, so that
records span blocks and segments rotate within a few writes.

Actions:
- `Write`, `PendingWrites`, `WriteAll`, `OpenNewActiveSegment`, `Sync`.
- `Close`: closes the files without syncing them.
- `Delete`: removes every segment.
- `Crash`: keeps the synced chunks of each file and a prefix of the rest.
- `Open`: makes the largest id active.

`WALSpec` is the promise without segments: `log`, a sequence of record
numbers, and `durable`, the length of its prefix that is durable.
Appends add new records at the end (`AppendRecords`, or `AppendSynced`
for a Write with `Options.Sync`). `Sync` makes the whole log durable. A
`Crash` keeps a prefix of at least `durable` records, and `Reset` empties
the log. `MCWAL` maps `log` to the record numbers of the chunks of every
file in segment-id order (`ReaderLog`, what `LogOf` returns). It maps
`durable` to `promised`, and checks `WALSpecRefined == Log!Spec`. `Sync()`
syncs only the active segment, so the promise for older segments rests
on rotation having synced them.

Readers are state functions. `NewReader` is `LogOf`, and
`NewReaderWithStart` is `StartLoop` translated from the code.

### Collections

- One record per collection name in `col`. Its fields are:
  - the flag maps (`checker`, `loadchecker`, `auth`);
  - `datas`, `space` and `bitmap`, the entries of `Datas`, the vector
    space and the in-memory index;
  - `cfg` and `savedIdx`, the persisted config and index files;
  - `idx`, `vec` and `disk`, the ids in the index, the vector space and
    Disk.
- Each request `r` has a program counter `pc[r]` with one label per step
  of its handler, and `op`, `name` and `rid` (the document id).
- `rlocks` counts the read locks of `indexdb.indexLock` that a panic
  left held.
- `ExistsCheck` and `LoadedCheck` are the `existsCollection` and
  `alreadyLoadCollection` tests every handler starts with. `First` and
  `AfterExists` say where each handler goes next.
- Handlers are one action per step:
  - `Create*`, `Drop*`, `GetReply`, `Load*`, `Release*` and `FlushCommit`;
  - `Insert*`, `Update*` and `Delete*`, with their rollbacks;
    `DeleteDiskAgain` is the second `Disk.Delete` of the document's key
    that `Delete` makes after `RemoveVector`. `DropDisk` is the
    `AscendKeys` loop, which stops at the first failing `Disk.Delete`;
  - the searches: `VectorScan`, `FilterIndex`, `HybridScan`,
    `HybridMerge` and `FetchLoop`;
  - the reply channel: `Send`, `SearchPanic`, `SearchReceive` and
    `SearchDone`.
- The persistence helpers (`CommitCollection`, `CommitConfig`,
  `CommitIndex`, `LoadData`) are not in the repository. `CommitFail`
  is the error paths of `CommitConfig` and `CommitIndex`; a failed
  `CommitIndex` leaves the config file written. They are
  modelled by their effect on the files, and may fail when
  `HelpersMayFail` is TRUE. `Disk.Put` and `Disk.Delete` may fail when
  `DiskPutMayFail` and `DiskDeleteMayFail` are TRUE.
- Scores and ranking are abstracted to the set of hits.

### InvertedIndex

State:
- `storage` maps a value to its stored posting set.
- `cached`, `cset` and `dirty` are `setCache`.
- `pc`, `toFlush` and `result` describe the `InsertUpdateDelete`
  goroutine.
- `docs` is the value each document has in the changes sent so far.
- `changes` counts the changes sent.

Values are tuples of small numbers, so that lexicographic order and
prefix behave as they do for `toByteSortable` strings.

Actions:
- `InsertUpdateDelete` sends a change.
- `ProcessChange` applies it: the old value's set loses the id, the new
  one gains it.
- `EndOfChanges` closes the channel. `Cancel` is ctx cancellation.
- `FlushTerm` writes one dirty set, or fails. `FlushDone` ends the flush.
- `Search` evaluates one of the eight operators. It loads the terms it
  scans into the cache (`Load`).

`Matches` is the reference meaning of each operator.

## Runs

| Run | Expect | Properties | What it shows |
|---|---|---|---|
| kv_core | pass | TypeOK, FlushQueueMirrorsImmutables, ExistAgreesWithGet, KVSpecRefined, QueuedTableFlushed | Rotation, backpressure, the flush goroutine, Close with its timeout, and a crash with recovery implement `KVSpec`. The pop of `immuMems[0]` removes the flushed table. Exist agrees with Get. Under fairness, every queued table has its WAL deleted, unless Close closes the files first. |
| kv_compact | pass | ReadLatestWhenIdle | Two-key batches and two Compacts over two partitions, interleaved with flushes: every key of a committed batch reads its new value, and once Compact returns every Get is unchanged (spec P3, P4). |
| kv_faults | pass | CompactLeavesOnlyLive | With failing flush steps and failing rewrites, the file Compact renames into place holds exactly the live records. |
| kv_flush_fail | violation | ReadLatest | A failed flush is never retried, and the next flush pops the failed table: its writes vanish from Get. |
| kv_compact_read | violation | ReadLatest | A Get during Compact reads the old or a deleted file at positions already moved. |
| col_serial | pass | TypeOK, VectorsOnDisk | Serially, on two collections and three documents, with failing Disk.Put, Disk.Delete and helpers, every vector in a collection's space has its Disk record between RPCs. This covers the Insert and Update rollbacks, the order of Delete's steps, a DeleteCollection stopped by a failing Disk.Delete, and a re-created name. |
| col_concurrent | pass | VectorsOnDisk | With two concurrent RPCs and failing Disk.Put and helpers, the rollbacks of Insert and Update keep the vector space inside Disk. Searches may panic on an evicted `Datas` entry or index, and a Release may block behind a leaked index read lock. DeleteCollection and the document Delete are left out (see below). |
| col_create_race | violation | CreateReportsExisting | Two concurrent CreateCollections of one name both succeed. |
| col_data_race | violation | IndexCoversDisk | An Update racing a Delete writes the document back to Disk after Delete removed it from the index. |
| col_search_leak | violation | NoLeakedSearch | A VectorSearch over vectors not yet on Disk sends a reply after every failing Disk.Get, with no return after it, and its goroutine blocks for ever. |
| wal_durable | pass | TypeOK, DurablePrefix, ResumeAtChunk, WALSpecRefined | After a crash a fresh reader returns a prefix of the chunks written, in order (spec P1). NewReaderWithStart at a chunk returns it and every later chunk. The WAL implements `WALSpec`: a crash never loses a record a `Sync()` covered. These hold with Close, Delete and reopen in between. |
| inv_batches | pass | TypeOK, PostingsMatchDocuments, SearchMatchesPostings | Over an index reopened on earlier postings, with cancelled batches and failing flushes, each document is in exactly one posting set: the one for its value (spec 4.5). After a batch reports success, each operator returns exactly the documents it selects. |

Each violation run has a finding in `PROJECT.json`, with the code line
and what the spec says instead. Every property of a passing run has a
mutant: a plausible bug in the mapped code that TLC then finds. Examples
are a rotation without sync, a flush that
returns instead of continuing, and a `processChange` that skips the
remove.

`WAL.tla` also states `ResumeAfterCrash`: NewReaderWithStart is correct
at every position ever returned, including one whose chunk a crash lost.
Under the bounds of wal_durable TLC finds it violated within seconds.
`StartLoop` compares block and offset component-wise (`wal.go:192`), so
after a crash and two new writes a reader from an old position skips a
chunk that is on disk. This is listed as a hazard. NewReaderWithStart
has no caller in this repository.

`SegmentWithinSize` (no segment outgrows SegmentSize, spec 4.1) is
stated but not checked. `Write` rejects a record by its length plus the
header against SegmentSize (`wal.go:308`), while `isFull` uses
maxDataWriteSize. A 7-byte record under wal_durable's constants passes
the check, rotates even from an empty segment, and makes a 10-byte
segment. wal_durable's record sizes leave this band out; the hazard
records it.

The Collections module also defines invariants that fail and that no
run checks; each is a hazard note:
- `RegistryConsistent` fails one RPC at a time with failing helpers: a
  CreateCollection failing at CommitCollection keeps its flags
  (`edge.go:212`).
- `IndexCoversDisk` fails one RPC at a time with failing `Disk.Put`,
  after a failed Update (`edge.go:846`). It also fails with failing
  `Disk.Delete`: DeleteCollection stops `AscendKeys` at the first error,
  drops it and replies success, leaving records behind (`edge.go:328`).
  With two RPCs it fails through Insert racing Release or
  DeleteCollection (`edge.go:526`, `edge.go:655`).
- `StoresAgree` fails for the same reasons.

Two panics are modelled. `getDist` (`edge.go:93`) dereferences a nil
`*EdgeData` when a concurrent Release deleted the `Datas` entry; the
recovered panic is the reply (`FullScan`). `FilterSearch` and
`HybridSearch` dereference a missing index between `indexLock.RLock`
and `RUnlock`, with no defer (`edge.go:1176`, `edge.go:1302`). The read
lock is never released (`rlocks`), and every later ReleaseCollection
blocks for ever in `indexLock.Lock` (`edge.go:537`, `Stuck`). `Done`
accepts such a blocked Release, like a leaked search goroutine, as the
end of a run. TLC reaches both under col_concurrent's constants.

With the document Delete among col_concurrent's RPCs, `VectorsOnDisk`
is violated. Delete's second `Disk.Delete` (`edge.go:992`) removes the
record a concurrent Update put back. This is the unlocked Update/Delete
race that col_data_race shows (`edge.go:906`), in the other order, and
it is noted on that hazard. col_concurrent leaves Delete out so that
`VectorsOnDisk` still checks the Insert and Update rollbacks
concurrently; col_serial checks it with Delete, one RPC at a time.

### Bounds

- KV: two keys and two values.
  - `MemtableNums = 2` and `MemtableSize = 1`: every commit after the
    first rotates, and the third rotation finds the channel full.
  - `MaxTableId = 4`. `MaxCommits` is 3 in kv_core and kv_compact and 4
    elsewhere.
  - `BatchKeys = 2` in kv_compact, so a batch can write both keys, mixing
    a Put and a Delete. It is 1 elsewhere: two-key batches multiply the
    states by about 40, and kv_core's refinement check evaluates `Get`
    on every step.
  - One crash, two Compacts.
  - `PartitionNum = 2` where parallel partitions matter, and 1 where two
    live records must share a partition.
- WAL: record sizes {1, 3, 8}, up to 4 records, 2 pending writes,
  3 segments and 1 crash. With these, a record fills a segment, splits
  across blocks and crosses a rotation.
- Collections:
  - one request at a time in col_serial, with two collections, up to
    10 RPCs and three document ids, so a search over three vectors
    truncates to top-K 2;
  - two requests (three for the search leak) elsewhere, up to 5 RPCs in
    col_concurrent;
  - two document ids elsewhere, and top-K 2.
- InvertedIndex: two documents; four values (`<<1>>`, `<<1,1>>`,
  `<<1,2>>`, `<<2>>`), which include a prefix pair and an order pair;
  3 changes.

The passing runs together fire every action and every disjunct. `Done`
is the stutter of a finished bounded run. It keeps TLC from reporting
the end of the bounds as a deadlock.

### Fairness

Only kv_core checks liveness. Its `Spec` assumes weak fairness of:
- every step of the flush goroutine and of Open's flush loop;
- the blocked writer's send-or-timeout, because the timer always fires;
- `CloseWait \/ CloseTimeout`, because Close's timer always fires;
- `Recover`, because the process is restarted.

`FlushPop` needs `db.mu`, which a blocked writer may take again and
again. It gets strong fairness, because Go's `sync.Mutex` hands the lock
to a waiter that has starved for more than 1 ms. Writers and callers get
no fairness. The other runs check safety with `SafetySpec` or with a
`Spec` whose fairness they do not use.

## Not modelled

- Quantization, distance kernels, HNSW and the flat IVF index: these are
  floating-point code, out of TLC's reach, and `IndexFlat` has no caller.
- The document DB under `backup/`, the gRPC wiring, the generated stubs
  and the unused `highmem` files.
- `DB.Sync`. The model's crash keeps every record, so a sync would change
  nothing it can observe.
- The Hash index variant,
  which stores the value in the index.
- The lock of the WAL: every WAL of the engine has one writer at a time.

The hazards in `PROJECT.json` that no property covers each carry a note
saying why.
