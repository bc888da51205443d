------------------------------ MODULE KVStore ------------------------------
(***************************************************************************)
(* The log-structured engine of src/kv (kvstore.go, batch.go): an active  *)
(* memtable and a queue of immutable ones, each backed by a WAL file; the *)
(* listenMemtableFlush goroutine fed through the buffered flushChan; the  *)
(* value log and index written by flushMemtable; Compact; and a process   *)
(* crash followed by Open, which flushes the recovered immutable tables.  *)
(*                                                                         *)
(* Data is abstracted to a few keys and values.  A memtable is a function *)
(* from keys to the newest record of the key in it; a value-log file is a *)
(* sequence of records and a position is [part, n], the n-th record of   *)
(* partition part (a ChunkPosition names no file, and records of equal   *)
(* size make the n-th chunk of any file start at the same offset).       *)
(***************************************************************************)
EXTENDS Integers, Sequences, SequencesExt, FiniteSets

CONSTANTS
  Keys, Values,
  NoValue,          \* what Get reports for ErrKeyNotFound
  EmptyValue,       \* the zero-length value []byte{}; in Values or not
  ReadError,        \* what Get reports when the value log cannot be read
  PartitionNum,     \* Options.PartitionNum
  KeyPartition,     \* hash(key) % PartitionNum
  MemtableNums,     \* Options.MemtableNums
  MemtableSize,     \* batches a memtable holds before isFull()
  CompactBatchCount,\* Options.CompactBatchCount
  MaxTableId,       \* bound: largest memtable id
  MaxCommits,       \* bound: committed batches
  BatchKeys,        \* bound: keys one batch writes
  MaxCrashes,       \* bound: process crashes
  MaxCompactions,   \* bound: calls of Compact
  FlushMayFail,     \* a step of flushMemtable may return an error
  CompactMayFail,   \* rewriteValidRecords may return an error
  MayClose          \* the client may call DB.Close

Partitions == 0 .. PartitionNum - 1
TableIds   == 1 .. MaxTableId

ASSUME /\ {NoValue, ReadError} \cap Values = {} /\ NoValue # ReadError
       /\ KeyPartition \in [Keys -> Partitions]
       /\ MemtableNums \in Nat \ {0, 1}
       /\ MemtableSize \in Nat \ {0}
       /\ CompactBatchCount \in Nat \ {0} /\ BatchKeys \in Nat \ {0}
       /\ FlushMayFail \in BOOLEAN /\ CompactMayFail \in BOOLEAN /\ MayClose \in BOOLEAN

VARIABLES
  phase,       \* "up" | "open" (Open flushing recovered tables) | "down" |
               \* "closing" (Close holds db.mu, flushChan closed) | "closed"
  mem,         \* mem[t]: contents of memtable t (= replay of its WAL)
  size,        \* size[t]: batches written to memtable t
  walIds,      \* memtable ids whose WAL file exists on disk
  activeMem,   \* db.activeMem
  immuMems,    \* db.immuMems, oldest first
  flushChan,   \* db.flushChan, buffered with capacity MemtableNums-1
  openQueue,   \* tables Open still has to flush before it returns
  flusher,     \* the flushMemtable call in progress
  flushLock,   \* db.flushLock: "free" | "flush" | "compact"
  writer,      \* a Batch.Commit blocked in waitMemtableSpace, holding db.mu
  index,       \* index[k]: KeyPosition of k, or NoPos
  vlog,        \* vlog[p]: records of value-log partition p
  temp,        \* temp[p]: records of the compaction file of partition p
  compact,     \* compact[p]: state of Compact's goroutine for partition p
  kv,          \* history: the value of each key after the last commit
  lastWrites,  \* history: key -> value written, for the keys of the last commit
  commits, crashes, compactions

vars == <<phase, mem, size, walIds, activeMem, immuMems, flushChan, openQueue,
          flusher, flushLock, writer, index, vlog, temp, compact, kv, lastWrites,
          commits, crashes, compactions>>

(***************************************************************************)
(* Records: a memtable holds a LogRecord (Normal with its value, Deleted) *)
(* per key; the value log holds ValueLogRecords.                          *)
(***************************************************************************)
Normal  == "Normal"
Deleted == "Deleted"
LogRecord == [type : {Normal}, value : Values] \cup [type : {Deleted}, value : {NoValue}]
NoRec      == [type |-> "None", value |-> NoValue]
EmptyTable == [k \in Keys |-> NoRec]
VRec  == [key : Keys, value : Values]
NoPos == [part |-> -1, n |-> 0]
Pos   == [part : Partitions, n : Nat \ {0}]

FlushSteps == {"idle", "lock", "vlog", "put", "del", "wal", "pop"}
FlushIdle  == [st |-> "idle", table |-> 0, pos |-> [k \in Keys |-> NoPos]]
WriterIdle == [st |-> "idle", batch |-> <<>>]
CompactIdle == [st |-> "idle", cur |-> 0, valid |-> <<>>]

FlushChanCap   == MemtableNums - 1   \* make(chan *memtable, MemtableNums-1)
InitialTableID == 1

(***************************************************************************)
(* The read path of Batch.Get: the memtables newest first, where a        *)
(* Deleted record answers ErrKeyNotFound and only a non-empty value       *)
(* answers (len(value) != 0); then the index and the value log.  Layers   *)
(* are the tables in memory, or while the process is down the tables Open *)
(* would rebuild from the WAL files.                                       *)
(***************************************************************************)
Answers(t, k) == mem[t][k].type = Deleted \/ (mem[t][k].type = Normal /\ mem[t][k].value # EmptyValue)

\* A set of table ids in ascending order, as openAllMemtables sorts them.
Ascending(S) == [i \in 1 .. Cardinality(S) |-> CHOOSE t \in S : Cardinality({u \in S : u < t}) = i - 1]

MemLayers      == <<activeMem>> \o Reverse(immuMems)
RecoveryLayers == Reverse(Ascending(walIds))

ReadPos(p) == IF p.n <= Len(vlog[p.part]) THEN vlog[p.part][p.n].value ELSE ReadError

GetFrom(layers, k) ==
  LET i == SelectInSeq(layers, LAMBDA t : Answers(t, k))
  IN  IF i # 0 THEN mem[layers[i]][k].value
      ELSE IF index[k] = NoPos THEN NoValue
      ELSE ReadPos(index[k])

\* Mutant: Exist skips a Deleted record as it skips an empty value.
ExistIgnoresTombstone(layers, k) ==
  LET i == SelectInSeq(layers, LAMBDA t : mem[t][k].type = Normal /\ mem[t][k].value # EmptyValue)
  IN  IF i # 0 THEN TRUE ELSE index[k] # NoPos

\* Batch.Exist: the same walk as Get, answering whether the record found
\* is not a Deleted one, and past the memtables whether the index has a
\* position for the key.
ExistFrom(layers, k) ==
  LET i == SelectInSeq(layers, LAMBDA t : Answers(t, k))
  IN  IF i # 0 THEN mem[layers[i]][k].type = Normal ELSE index[k] # NoPos

\* After a crash, or once Close has closed the memtables, what the next Open
\* reads back from the WAL files.
Get(k) == GetFrom(IF phase \in {"down", "closed"} THEN RecoveryLayers ELSE MemLayers, k)

\* DB.Exist: a read-only batch from the pool whose Exist walks the open
\* memtables; committing a read-only batch writes nothing.
Exist(k) == ExistFrom(MemLayers, k)

Visible == [k \in Keys |-> Get(k)]

-----------------------------------------------------------------------------
Init ==
  /\ phase = "up"
  /\ mem = [t \in TableIds |-> EmptyTable]
  /\ size = [t \in TableIds |-> 0]
  /\ walIds = {InitialTableID}
  /\ activeMem = InitialTableID
  /\ immuMems = <<>>
  /\ flushChan = <<>>
  /\ openQueue = <<>>
  /\ flusher = FlushIdle
  /\ flushLock = "free"
  /\ writer = WriterIdle
  /\ index = [k \in Keys |-> NoPos]
  /\ vlog = [p \in Partitions |-> <<>>]
  /\ temp = [p \in Partitions |-> <<>>]
  /\ compact = [p \in Partitions |-> CompactIdle]
  /\ kv = [k \in Keys |-> NoValue]
  /\ lastWrites = [k \in {} |-> NoValue]
  /\ commits = 0 /\ crashes = 0 /\ compactions = 0

\* The record Batch.Put and Batch.Delete leave in pendingWrites.
PutRecord(v) == [type |-> Normal, value |-> v]
DeleteRecord == [type |-> Deleted, value |-> NoValue]

\* The pendingWrites of a batch: one record for each key written, up to
\* BatchKeys keys (a second Put or Delete of a key replaces its record).
Batches == UNION {[S -> {PutRecord(v) : v \in Values} \cup {DeleteRecord}] :
                    S \in {S \in SUBSET Keys : S # {} /\ Cardinality(S) <= BatchKeys}}

\* Mutant: putBatch stops after the first pending record.
PutBatchFirstOnly(t, b) ==
  LET k0 == CHOOSE k \in DOMAIN b : TRUE IN [k \in Keys |-> IF k = k0 THEN b[k] ELSE t[k]]

\* memtable.putBatch: every pending record of batch b into table t.
PutBatch(t, b) == [k \in Keys |-> IF k \in DOMAIN b THEN b[k] ELSE t[k]]

(***************************************************************************)
(* Batch.Commit of a batch b, under db.mu, which the batch holds from    *)
(* NewBatch (or init) on: waitMemtableSpace, then activeMem.putBatch of *)
(* all of pendingWrites with one batch id.                               *)
(***************************************************************************)
Committed(b) ==
  /\ kv' = [k \in Keys |-> IF k \in DOMAIN b THEN b[k].value ELSE kv[k]]
  /\ lastWrites' = [k \in DOMAIN b |-> b[k].value]
  /\ commits' = commits + 1

\* Bug variant: isFull() tested one batch too late.
CommitPutOffByOne(b) ==
  /\ phase = "up" /\ writer.st = "idle" /\ commits < MaxCommits
  /\ size[activeMem] <= MemtableSize
  /\ mem' = [mem EXCEPT ![activeMem] = PutBatch(@, b)]
  /\ size' = [size EXCEPT ![activeMem] = @ + 1]
  /\ Committed(b)
  /\ UNCHANGED <<phase, walIds, activeMem, immuMems, flushChan, openQueue, flusher,
                 flushLock, writer, index, vlog, temp, compact, crashes, compactions>>

\* The active memtable has room: putBatch into it.
CommitPut(b) ==
  /\ phase = "up" /\ writer.st = "idle" /\ commits < MaxCommits
  /\ size[activeMem] < MemtableSize
  /\ mem' = [mem EXCEPT ![activeMem] = PutBatch(@, b)]
  /\ size' = [size EXCEPT ![activeMem] = @ + 1]
  /\ Committed(b)
  /\ UNCHANGED <<phase, walIds, activeMem, immuMems, flushChan, openQueue, flusher,
                 flushLock, writer, index, vlog, temp, compact, crashes, compactions>>

\* The send on flushChan succeeds: the full table becomes immutable, a
\* memtable with tableID+1 is opened and the batch is written to it.
RotateAndPut(b) ==
  LET n == activeMem + 1 IN
  /\ n <= MaxTableId
  /\ Len(flushChan) < FlushChanCap
  /\ flushChan' = Append(flushChan, activeMem)
  /\ immuMems' = Append(immuMems, activeMem)
  /\ activeMem' = n
  /\ walIds' = walIds \cup {n}
  /\ mem' = [mem EXCEPT ![n] = PutBatch(EmptyTable, b)]
  /\ size' = [size EXCEPT ![n] = 1]
  /\ Committed(b)

CommitRotate(b) ==
  /\ phase = "up" /\ writer.st = "idle" /\ commits < MaxCommits
  /\ size[activeMem] >= MemtableSize
  /\ RotateAndPut(b)
  /\ UNCHANGED <<phase, openQueue, flusher, flushLock, writer, index, vlog, temp,
                 compact, crashes, compactions>>

\* flushChan is full: the select blocks, still holding db.mu.
CommitBlock(b) ==
  /\ phase = "up" /\ writer.st = "idle" /\ commits < MaxCommits
  /\ size[activeMem] >= MemtableSize
  /\ Len(flushChan) >= FlushChanCap
  /\ writer' = [st |-> "wait", batch |-> b]
  /\ UNCHANGED <<phase, mem, size, walIds, activeMem, immuMems, flushChan, openQueue,
                 flusher, flushLock, index, vlog, temp, compact, kv, lastWrites, commits,
                 crashes, compactions>>

\* The blocked send completes once the flush goroutine has received.
WriterSend ==
  /\ phase = "up" /\ writer.st = "wait"
  /\ RotateAndPut(writer.batch)
  /\ writer' = WriterIdle
  /\ UNCHANGED <<phase, openQueue, flusher, flushLock, index, vlog, temp, compact,
                 crashes, compactions>>

\* timer.C fires: ErrWaitMemtableSpaceTimeOut, db.mu released by Commit.
WriterTimeout ==
  /\ phase = "up" /\ writer.st = "wait"
  /\ writer' = WriterIdle
  /\ UNCHANGED <<phase, mem, size, walIds, activeMem, immuMems, flushChan, openQueue,
                 flusher, flushLock, index, vlog, temp, compact, kv, lastWrites, commits,
                 crashes, compactions>>

(***************************************************************************)
(* flushMemtable(table), run by listenMemtableFlush for each table it     *)
(* receives from flushChan, and by Open for each recovered immutable      *)
(* table.  Each step is one of the calls of the function; any of them    *)
(* may fail, and the function then logs and returns.                      *)
(***************************************************************************)
FlushVars == <<flusher, flushLock, index, vlog, walIds, immuMems>>
OtherThanFlush == <<phase, mem, size, activeMem, flushChan, openQueue, writer, temp,
                    compact, kv, lastWrites, commits, crashes, compactions>>

\* The listener keeps receiving from flushChan after Close has closed it:
\* a closed buffered channel still delivers what it holds.
FlushReceive ==
  /\ phase \in {"up", "closing", "closed"} /\ flusher.st = "idle" /\ flushChan # <<>>
  /\ flusher' = [FlushIdle EXCEPT !.st = "lock", !.table = Head(flushChan)]
  /\ flushChan' = Tail(flushChan)
  /\ UNCHANGED <<phase, mem, size, walIds, activeMem, immuMems, openQueue, flushLock,
                 writer, index, vlog, temp, compact, kv, lastWrites, commits, crashes, compactions>>

OpenFlushNext ==
  /\ phase = "open" /\ flusher.st = "idle" /\ openQueue # <<>>
  /\ flusher' = [FlushIdle EXCEPT !.st = "lock", !.table = Head(openQueue)]
  /\ openQueue' = Tail(openQueue)
  /\ UNCHANGED <<phase, mem, size, walIds, activeMem, immuMems, flushChan, flushLock,
                 writer, index, vlog, temp, compact, kv, lastWrites, commits, crashes, compactions>>

\* Bug variant: Open returns without flushing the recovered tables.
OpenDoneEarly ==
  /\ phase = "open" /\ flusher.st = "idle"
  /\ phase' = "up"
  /\ UNCHANGED <<mem, size, walIds, activeMem, immuMems, flushChan, openQueue, flusher,
                 flushLock, writer, index, vlog, temp, compact, kv, lastWrites, commits, crashes,
                 compactions>>

\* Open returns and starts listenMemtableFlush.
OpenDone ==
  /\ phase = "open" /\ flusher.st = "idle" /\ openQueue = <<>>
  /\ phase' = "up"
  /\ UNCHANGED <<mem, size, walIds, activeMem, immuMems, flushChan, openQueue, flusher,
                 flushLock, writer, index, vlog, temp, compact, kv, lastWrites, commits, crashes,
                 compactions>>

FlushAcquire ==
  /\ flusher.st = "lock" /\ flushLock = "free"
  /\ flushLock' = "flush"
  /\ flusher' = [flusher EXCEPT !.st = "vlog"]
  /\ UNCHANGED <<index, vlog, walIds, immuMems>> /\ UNCHANGED OtherThanFlush

\* Iterate the table, keep the Normal records and vlog.writeBatch them:
\* each partition gets its records appended, the positions are kept.
LiveKeys(t, p) == SetToSeq({k \in Keys : mem[t][k].type = Normal /\ KeyPartition[k] = p})

\* Bug variant: positions counted from 0 instead of 1.
FlushVlogFromZero ==
  LET t == flusher.table
      pos(k) == LET p == KeyPartition[k]
                    s == LiveKeys(t, p)
                IN  [part |-> p, n |-> Len(vlog[p]) + (CHOOSE i \in 1 .. Len(s) : s[i] = k) - 1]
  IN
  /\ flusher.st = "vlog" /\ phase # "closed"
  /\ vlog' = [p \in Partitions |->
               vlog[p] \o [i \in 1 .. Len(LiveKeys(t, p)) |->
                            [key |-> LiveKeys(t, p)[i], value |-> mem[t][LiveKeys(t, p)[i]].value]]]
  /\ flusher' = [flusher EXCEPT !.st = "put",
                   !.pos = [k \in Keys |-> IF mem[t][k].type = Normal THEN pos(k) ELSE NoPos]]
  /\ UNCHANGED <<index, walIds, immuMems, flushLock>> /\ UNCHANGED OtherThanFlush

FlushVlog ==
  LET t == flusher.table
      pos(k) == LET p == KeyPartition[k]
                    s == LiveKeys(t, p)
                IN  [part |-> p, n |-> Len(vlog[p]) + CHOOSE i \in 1 .. Len(s) : s[i] = k]
  IN
  /\ flusher.st = "vlog" /\ phase # "closed"
  /\ vlog' = [p \in Partitions |->
               vlog[p] \o [i \in 1 .. Len(LiveKeys(t, p)) |->
                            [key |-> LiveKeys(t, p)[i], value |-> mem[t][LiveKeys(t, p)[i]].value]]]
  /\ flusher' = [flusher EXCEPT !.st = "put",
                   !.pos = [k \in Keys |-> IF mem[t][k].type = Normal THEN pos(k) ELSE NoPos]]
  /\ UNCHANGED <<index, walIds, immuMems, flushLock>> /\ UNCHANGED OtherThanFlush

\* index.PutBatch(keyPos)
FlushPut ==
  /\ flusher.st = "put" /\ phase # "closed"
  /\ index' = [k \in Keys |-> IF flusher.pos[k] # NoPos THEN flusher.pos[k] ELSE index[k]]
  /\ flusher' = [flusher EXCEPT !.st = "del"]
  /\ UNCHANGED <<vlog, walIds, immuMems, flushLock>> /\ UNCHANGED OtherThanFlush

\* Bug variant: index.DeleteBatch left out.
FlushDelSkipped ==
  /\ flusher.st = "del" /\ phase # "closed"
  /\ flusher' = [flusher EXCEPT !.st = "wal"]
  /\ UNCHANGED <<index, vlog, walIds, immuMems, flushLock>> /\ UNCHANGED OtherThanFlush

\* index.DeleteBatch(deletedKeys)
FlushDel ==
  /\ flusher.st = "del" /\ phase # "closed"
  /\ index' = [k \in Keys |-> IF mem[flusher.table][k].type = Deleted THEN NoPos ELSE index[k]]
  /\ flusher' = [flusher EXCEPT !.st = "wal"]
  /\ UNCHANGED <<vlog, walIds, immuMems, flushLock>> /\ UNCHANGED OtherThanFlush

\* index.Sync(), then table.deleteWAl()
FlushWal ==
  /\ flusher.st = "wal" /\ phase # "closed"
  /\ walIds' = walIds \ {flusher.table}
  /\ flusher' = [flusher EXCEPT !.st = "pop"]
  /\ UNCHANGED <<index, vlog, immuMems, flushLock>> /\ UNCHANGED OtherThanFlush

\* Bug variant: drops the newest immutable table instead of the oldest.
FlushPopNewest ==
  /\ flusher.st = "pop"
  /\ writer.st # "wait" /\ phase # "closing"
  /\ immuMems' = Front(immuMems)
  /\ flushLock' = "free"
  /\ flusher' = FlushIdle
  /\ UNCHANGED <<index, vlog, walIds>> /\ UNCHANGED OtherThanFlush

\* db.mu.Lock(); drop immuMems[0] -- whichever table that is; unlock.
FlushPop ==
  /\ flusher.st = "pop"
  /\ writer.st # "wait" /\ phase # "closing"
  /\ immuMems' = Tail(immuMems)
  /\ flushLock' = "free"
  /\ flusher' = FlushIdle
  /\ UNCHANGED <<index, vlog, walIds>> /\ UNCHANGED OtherThanFlush

\* vlog.writeBatch/sync, index.PutBatch, DeleteBatch, Sync or deleteWAl
\* returns an error: flushMemtable logs it and returns.  Once Close has
\* closed the value log and the index, every one of them fails.
FlushFail ==
  /\ FlushMayFail \/ phase = "closed"
  /\ flusher.st \in {"vlog", "put", "del", "wal"}
  /\ flushLock' = "free"
  /\ flusher' = FlushIdle
  /\ UNCHANGED <<index, vlog, walIds, immuMems>> /\ UNCHANGED OtherThanFlush

(***************************************************************************)
(* DB.Close: under db.mu it closes flushChan and waits, for at most one   *)
(* second, for the listener to signal on closeChan -- which it does only  *)
(* after receiving every table left in flushChan and flushing it, and a   *)
(* flush ends by taking db.mu.  It then closes the memtables, the index   *)
(* and the value log, releases the file lock and sets db.closed, so that  *)
(* every later Batch operation returns ErrDBClosed.  Close racing a       *)
(* Compact is not modelled: Close starts with every Compact goroutine     *)
(* idle.                                                                  *)
(***************************************************************************)
CloseStart ==
  /\ MayClose /\ phase = "up" /\ writer.st = "idle"
  /\ \A p \in Partitions : compact[p].st = "idle"
  /\ phase' = "closing"
  /\ UNCHANGED <<mem, size, walIds, activeMem, immuMems, flushChan, openQueue, flusher,
                 flushLock, writer, index, vlog, temp, compact, kv, lastWrites, commits, crashes,
                 compactions>>

\* <-db.closeChan: the listener found flushChan closed and empty while idle.
CloseWait ==
  /\ phase = "closing" /\ flusher.st = "idle" /\ flushChan = <<>>
  /\ phase' = "closed"
  /\ UNCHANGED <<mem, size, walIds, activeMem, immuMems, flushChan, openQueue, flusher,
                 flushLock, writer, index, vlog, temp, compact, kv, lastWrites, commits, crashes,
                 compactions>>

\* <-closeTimeout: Close goes on while the listener still has work; its
\* later send on the unbuffered closeChan is never received.
CloseTimeout ==
  /\ phase = "closing"
  /\ phase' = "closed"
  /\ UNCHANGED <<mem, size, walIds, activeMem, immuMems, flushChan, openQueue, flusher,
                 flushLock, writer, index, vlog, temp, compact, kv, lastWrites, commits, crashes,
                 compactions>>

(***************************************************************************)
(* A crash of the process loses everything in memory; the WAL files, the  *)
(* value log, the index and any compaction file stay on disk.  Open then  *)
(* reopens every WAL as a memtable (id order, the last one active, a new  *)
(* table 1 if there is none) and flushes the others before returning.     *)
(***************************************************************************)
Crash ==
  /\ phase # "down" /\ crashes < MaxCrashes
  /\ phase' = "down"
  /\ immuMems' = <<>> /\ flushChan' = <<>> /\ openQueue' = <<>>
  /\ flusher' = FlushIdle /\ flushLock' = "free" /\ writer' = WriterIdle
  /\ compact' = [p \in Partitions |-> CompactIdle]
  /\ crashes' = crashes + 1
  /\ UNCHANGED <<mem, size, walIds, activeMem, index, vlog, temp, kv, lastWrites, commits, compactions>>

Recover ==
  LET fresh == walIds = {}
      ids   == IF fresh THEN {InitialTableID} ELSE walIds
      order == Ascending(ids)
  IN
  /\ phase = "down"
  /\ phase' = "open"
  /\ walIds' = ids
  /\ mem' = IF fresh THEN [mem EXCEPT ![InitialTableID] = EmptyTable] ELSE mem
  /\ size' = IF fresh THEN [size EXCEPT ![InitialTableID] = 0] ELSE size
  /\ activeMem' = Last(order)
  /\ immuMems' = Front(order)
  /\ openQueue' = Front(order)
  /\ UNCHANGED <<flushChan, flusher, flushLock, writer, index, vlog, temp, compact, kv, lastWrites,
                 commits, crashes, compactions>>

(***************************************************************************)
(* Compact: under flushLock, one goroutine per partition scans its value  *)
(* log, keeps the records the index still points at, rewrites them in    *)
(* batches to the temporary file (moving the index to the new positions), *)
(* then deletes the old file and renames the temporary one into place.    *)
(* A leftover temporary file from an earlier run is reopened, not emptied.*)
(***************************************************************************)
CompactVars == <<compact, temp, index, vlog, flushLock, compactions>>
OtherThanCompact == <<phase, mem, size, walIds, activeMem, immuMems, flushChan, openQueue,
                      flusher, writer, kv, lastWrites, commits, crashes>>

CompactStart ==
  /\ phase = "up" /\ flushLock = "free" /\ compactions < MaxCompactions
  /\ flushLock' = "compact"
  /\ compact' = [p \in Partitions |-> [CompactIdle EXCEPT !.st = "scan"]]
  /\ compactions' = compactions + 1
  /\ UNCHANGED <<temp, index, vlog>> /\ UNCHANGED OtherThanCompact

\* rewriteValidRecords(newVlogFile, recs, p): WriteAll, then index.PutBatch.
RewriteIndex(p, recs) ==
  [k \in Keys |-> IF \E i \in 1 .. Len(recs) : recs[i].key = k
                  THEN [part |-> p, n |-> Len(temp[p]) + CHOOSE i \in 1 .. Len(recs) : recs[i].key = k]
                  ELSE index[k]]

\* Bug variant: the records are rewritten but index.PutBatch is left out.
RewriteOkNoIndex(p, recs) ==
  /\ temp' = [temp EXCEPT ![p] = @ \o recs]
  /\ UNCHANGED index

RewriteOk(p, recs) ==
  /\ temp' = [temp EXCEPT ![p] = @ \o recs]
  /\ index' = RewriteIndex(p, recs)

\* Any error of the rewrite: newVlogFile.Delete() and the goroutine returns.
RewriteFail(p, recs) ==
  /\ CompactMayFail /\ recs # <<>>
  /\ temp' = [temp EXCEPT ![p] = <<>>]
  /\ compact' = [compact EXCEPT ![p] = [CompactIdle EXCEPT !.st = "failed"]]
  /\ UNCHANGED index

\* Bug variant: liveness decided by the key's partition, not its position.
KeepRecordByPartition(p, n) == index[vlog[p][n].key].part = p

\* keyPos.partition == part && DeepEqual(keyPos.position, pos)
KeepRecord(p, n) == index[vlog[p][n].key] = [part |-> p, n |-> n]

\* One iteration of the scan loop: reader.Next() returns record n.
CompactScan(p) ==
  LET n    == compact[p].cur + 1
      rec  == vlog[p][n]
      pos  == index[rec.key]
      kept == IF KeepRecord(p, n) THEN Append(compact[p].valid, rec)
              ELSE compact[p].valid
  IN
  /\ compact[p].st = "scan" /\ n <= Len(vlog[p])
  /\ \/ /\ pos = NoPos                       \* keyPos == nil: continue
        /\ compact' = [compact EXCEPT ![p].cur = n]
        /\ UNCHANGED <<temp, index>>
     \/ /\ pos # NoPos /\ n % CompactBatchCount # 0
        /\ compact' = [compact EXCEPT ![p].cur = n, ![p].valid = kept]
        /\ UNCHANGED <<temp, index>>
     \/ /\ pos # NoPos /\ n % CompactBatchCount = 0
        /\ \/ /\ RewriteOk(p, kept)
              /\ compact' = [compact EXCEPT ![p].cur = n, ![p].valid = <<>>]
           \/ RewriteFail(p, kept)
  /\ UNCHANGED <<vlog, flushLock, compactions>> /\ UNCHANGED OtherThanCompact

\* reader.Next() returns io.EOF: rewrite what is left, delete the old file.
CompactEnd(p) ==
  LET recs == compact[p].valid IN
  /\ compact[p].st = "scan" /\ compact[p].cur = Len(vlog[p])
  /\ \/ /\ RewriteOk(p, recs)
        /\ vlog' = [vlog EXCEPT ![p] = <<>>]
        /\ compact' = [compact EXCEPT ![p] = [CompactIdle EXCEPT !.st = "swap"]]
     \/ /\ RewriteFail(p, recs)
        /\ UNCHANGED vlog
  /\ UNCHANGED <<flushLock, compactions>> /\ UNCHANGED OtherThanCompact

\* newVlogFile.RenameFileExt, and walFiles[p] reopened on the renamed file.
CompactRename(p) ==
  /\ compact[p].st = "swap"
  /\ vlog' = [vlog EXCEPT ![p] = temp[p]]
  /\ temp' = [temp EXCEPT ![p] = <<>>]
  /\ compact' = [compact EXCEPT ![p].st = "done"]
  /\ UNCHANGED <<index, flushLock, compactions>> /\ UNCHANGED OtherThanCompact

\* g.Wait() returns and the deferred flushLock.Unlock() runs.
CompactFinish ==
  /\ flushLock = "compact"
  /\ \A p \in Partitions : compact[p].st \in {"done", "failed"}
  /\ flushLock' = "free"
  /\ compact' = [p \in Partitions |-> CompactIdle]
  /\ UNCHANGED <<temp, index, vlog, compactions>> /\ UNCHANGED OtherThanCompact

-----------------------------------------------------------------------------
\* Nothing is left to do once the bounds on commits, crashes and
\* compactions are spent and every background step has completed.
Quiescent ==
  /\ phase \in {"up", "closed"} /\ writer.st = "idle" /\ flusher.st = "idle" /\ flushChan = <<>>
  /\ flushLock = "free"
  /\ commits = MaxCommits \/ activeMem = MaxTableId \/ phase = "closed"
  /\ crashes = MaxCrashes /\ compactions = MaxCompactions

Done == Quiescent /\ UNCHANGED vars

\* Batch.Commit of a batch b from NewBatch, and DB.Put and DB.Delete as a
\* one-record batch of batchPool (makeBatch): init takes db.mu (lock), so
\* one Commit runs at a time and no writer is blocked in it; Commit's
\* deferred unlock and reset return it to the pool.
WriteBatch(b) == CommitPut(b) \/ CommitRotate(b) \/ CommitBlock(b)

Next ==
  \/ \E b \in Batches : WriteBatch(b)
  \/ WriterSend \/ WriterTimeout
  \/ FlushReceive \/ OpenFlushNext \/ OpenDone
  \/ FlushAcquire \/ FlushVlog \/ FlushPut \/ FlushDel \/ FlushWal \/ FlushPop \/ FlushFail
  \/ CloseStart \/ CloseWait \/ CloseTimeout
  \/ Crash \/ Recover
  \/ CompactStart \/ CompactFinish
  \/ \E p \in Partitions : CompactScan(p) \/ CompactEnd(p) \/ CompactRename(p)
  \/ Done

(***************************************************************************)
(* The flush goroutine, Open's flushes, the Compact goroutines and the    *)
(* restart after a crash all run to completion once enabled.  FlushPop    *)
(* waits for db.mu, which a blocked writer holds only until its send or   *)
(* timeout; Go's mutex hands the lock to a waiter starving for over 1ms,  *)
(* so FlushPop gets it if it is enabled infinitely often.  Close's wait  *)
(* ends by the signal or by its one-second timer.                         *)
(***************************************************************************)
Fairness ==
  /\ WF_vars(FlushReceive) /\ WF_vars(OpenFlushNext) /\ WF_vars(OpenDone)
  /\ WF_vars(FlushAcquire) /\ WF_vars(FlushVlog) /\ WF_vars(FlushPut)
  /\ WF_vars(FlushDel) /\ WF_vars(FlushWal) /\ SF_vars(FlushPop)
  /\ WF_vars(WriterSend \/ WriterTimeout) /\ WF_vars(CloseWait \/ CloseTimeout)
  /\ WF_vars(Recover)
  /\ \A p \in Partitions : WF_vars(CompactScan(p) \/ CompactEnd(p) \/ CompactRename(p))
  /\ WF_vars(CompactFinish)

Spec == Init /\ [][Next]_vars /\ Fairness

\* The same behaviours without fairness, for runs that check only safety.
SafetySpec == Init /\ [][Next]_vars

-----------------------------------------------------------------------------
(***************************************************************************)
(* Properties.                                                             *)
(***************************************************************************)
TypeOK ==
  /\ phase \in {"up", "open", "down", "closing", "closed"}
  /\ mem \in [TableIds -> [Keys -> LogRecord \cup {NoRec}]]
  /\ size \in [TableIds -> 0 .. MemtableSize]
  /\ walIds \subseteq TableIds /\ activeMem \in TableIds
  /\ immuMems \in Seq(TableIds) /\ flushChan \in Seq(TableIds) /\ openQueue \in Seq(TableIds)
  /\ flusher.st \in FlushSteps /\ flusher.pos \in [Keys -> Pos \cup {NoPos}]
  /\ flushLock \in {"free", "flush", "compact"}
  /\ writer.st \in {"idle", "wait"}
  /\ index \in [Keys -> Pos \cup {NoPos}]
  /\ vlog \in [Partitions -> Seq(VRec)] /\ temp \in [Partitions -> Seq(VRec)]
  /\ \A p \in Partitions : compact[p].st \in {"idle", "scan", "swap", "done", "failed"}
  /\ kv \in [Keys -> Values \cup {NoValue}]

\* The table being flushed, if any.
InFlight == IF flusher.st = "idle" THEN <<>> ELSE <<flusher.table>>

(***************************************************************************)
(* flushMemtable ends by dropping immuMems[0] without checking it is the  *)
(* table it flushed.  That is right only if the immutable tables, oldest  *)
(* first, are exactly the one being flushed followed by those still in    *)
(* flushChan (or still to be flushed by Open), in the same order.         *)
(***************************************************************************)
FlushQueueMirrorsImmutables ==
  /\ phase \in {"up", "closing"} => immuMems = InFlight \o flushChan
  /\ phase = "open" => immuMems = InFlight \o openQueue

(***************************************************************************)
(* Batch.Get returns, for every key, the value of the last committed Put  *)
(* or ErrKeyNotFound after a Delete -- across rotations, flushes, and a   *)
(* crash with the Open that follows it (spec P2).                         *)
(***************************************************************************)
ReadLatest == \A k \in Keys : Get(k) = kv[k]

(***************************************************************************)
(* DB.Exist and DB.Get agree while the DB is open: Exist reports a key    *)
(* exactly when Get finds a value for it, through rotations, flushes that *)
(* move records from the memtables to the index, and Open's recovery.     *)
(***************************************************************************)
ExistAgreesWithGet ==
  phase \in {"up", "open", "closing"} =>
    \A k \in Keys : Exist(k) = (Get(k) # NoValue)

(***************************************************************************)
(* Once Compact has returned, every Get answers as before it (spec P3).   *)
(***************************************************************************)
CompactIdleEverywhere == \A p \in Partitions : compact[p].st = "idle"
ReadLatestWhenIdle == CompactIdleEverywhere => ReadLatest

(***************************************************************************)
(* The file Compact renames into place holds only live records: each one  *)
(* is what the index resolves its key to, and every key the index places *)
(* in that partition is found there (spec P3: exactly one record per key  *)
(* survives, the one the index points to).                                *)
(***************************************************************************)
LiveOnly(p) ==
  /\ \A i \in 1 .. Len(vlog[p]) : index[vlog[p][i].key] = [part |-> p, n |-> i]
  /\ \A k \in Keys : index[k].part = p => index[k].n <= Len(vlog[p])

CompactLeavesOnlyLive ==
  [][\A p \in Partitions : compact[p].st = "swap" /\ compact'[p].st = "done" => LiveOnly(p)']_vars

(***************************************************************************)
(* Every table handed to the flush goroutine has its WAL deleted in the    *)
(* end, unless Close closes the files first (the WAL then stays for the   *)
(* next Open): nothing queued for flushing is left behind.                *)
(***************************************************************************)
QueuedTableFlushed ==
  \A t \in TableIds :
    (t \in Range(flushChan) \/ t \in Range(openQueue)) ~> (t \notin walIds \/ phase = "closed")
=============================================================================
