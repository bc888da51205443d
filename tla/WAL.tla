-------------------------------- MODULE WAL --------------------------------
(***************************************************************************)
(* The segmented write-ahead log of src/kv/wal/wal.go, the file format of *)
(* the value log and of the memtable logs.  A WAL is a set of segment     *)
(* files named by increasing ids; the one with the largest id is the      *)
(* active segment that takes new writes, the others (olderSegments) are   *)
(* only read.  A segment is a sequence of chunks laid out in blocks of    *)
(* BlockSize bytes, each chunk with a header of ChunkHeaderSize bytes; a  *)
(* record that does not fit in the rest of a block is split over several  *)
(* chunks.                                                                 *)
(*                                                                         *)
(* A file keeps, across a crash, its synced chunks and any prefix of the  *)
(* unsynced ones (what the page cache happened to write back).  The WAL   *)
(* object of a process (active, olderSegments, bytesWrite, the pending    *)
(* writes) is lost by a crash and rebuilt by Open.  `written` and        *)
(* `returned` are history variables: the chunk positions Write and        *)
(* WriteAll returned, in order since the last Open, and all of them.      *)
(*                                                                         *)
(* The segment file itself (segment.go: Write, writeAll, Sync, the reader *)
(* of one segment) is not under src; its layout is modelled from the spec *)
(* (length-prefixed chunks across fixed-size blocks).                      *)
(***************************************************************************)
EXTENDS Naturals, Sequences, SequencesExt, FiniteSets

CONSTANTS
  BlockSize,        \* blockSize of segment.go
  ChunkHeaderSize,  \* chunkHeaderSize of segment.go
  SegmentSize,      \* Options.SegmentSize
  DataSizes,        \* the lengths of the records written
  SyncEachWrite,    \* Options.Sync
  BytesPerSync,     \* Options.BytesPerSync
  MaxWrites,        \* bound on the records handed to the WAL
  MaxPending,       \* bound on the pending writes of one WriteAll
  MaxSegments,      \* bound on the segments OpenNewActiveSegment opens
  MaxCrashes        \* bound on process crashes

ASSUME
  /\ ChunkHeaderSize \in Nat \ {0} /\ BlockSize > ChunkHeaderSize
  /\ SegmentSize \in Nat \ {0} /\ DataSizes \subseteq Nat \ {0}
  /\ SyncEachWrite \in BOOLEAN /\ BytesPerSync \in Nat
  /\ {MaxWrites, MaxPending, MaxSegments, MaxCrashes} \subseteq Nat

VARIABLES
  files,      \* segment id -> [chunks, synced]: the files on disk
  open,       \* a WAL object exists (Open returned, no crash since)
  active,     \* activeSegment.id
  older,      \* the ids of olderSegments
  bytesWrite, \* WAL.bytesWrite
  pending,    \* pendingWrites: each record's length and number
  pendingSize,\* pendingSize
  count,      \* records handed to Write or PendingWrites so far
  crashes,    \* crashes so far
  written,    \* history: the positions returned, in order, since the last Open
  returned,   \* history: every position ever returned
  promised    \* history: the records of written that a synced Write or Sync covered

vars == <<files, open, active, older, bytesWrite, pending, pendingSize, count, crashes, written, returned, promised>>

H == ChunkHeaderSize
B == BlockSize

(***************************************************************************)
(* Chunk layout of segment.Write (spec-modelled).  A position is a block  *)
(* number and an offset in it; Off is its byte offset in the file.        *)
(***************************************************************************)
Off(p) == p.b * B + p.o

\* Before a write, the rest of a block too short for a header is padding.
Pad(p) == IF p.o + H >= B THEN [b |-> p.b + 1, o |-> 0] ELSE p

\* The end of n bytes of data written from p: each chunk carries a header,
\* a chunk that does not fit fills its block and the rest goes on in the next.
RECURSIVE Fill(_, _)
Fill(p, n) ==
  IF n + H <= B - p.o THEN [b |-> p.b, o |-> p.o + n + H]
  ELSE Fill([b |-> p.b + 1, o |-> 0], n - (B - p.o - H))

Origin == [b |-> 0, o |-> 0]

\* The end of a segment: after its last chunk.
End(f) == IF f.chunks = <<>> THEN Origin ELSE Last(f.chunks).e

\* segment.Size()
Size(f) == Off(End(f))

\* segment.Write(data): the chunk with its start, end and record number k.
PutChunk(f, k, n) ==
  LET s == Pad(End(f)) IN
  [f EXCEPT !.chunks = Append(@, [k |-> k, n |-> n, b |-> s.b, o |-> s.o, e |-> Fill(s, n)])]

\* segment.writeAll(data): the records one after the other, in order.
RECURSIVE PutAll(_, _)
PutAll(f, rs) ==
  IF rs = <<>> THEN f ELSE PutAll(PutChunk(f, Head(rs).k, Head(rs).n), Tail(rs))

EmptySegment == [chunks |-> <<>>, synced |-> 0]

\* Mutant: the sync counts one chunk too many.
SyncedPastEnd(f) == [f EXCEPT !.synced = Len(f.chunks) + 1]

\* segment.Sync(): every chunk written so far is durable.
Synced(f) == [f EXCEPT !.synced = Len(f.chunks)]

\* The position returned for a chunk of segment id.
PosOf(id, c) == [k |-> c.k, s |-> id, b |-> c.b, o |-> c.o]

\* Positions of the chunks appended to segment id from index i on.
NewPositions(id, f, i) == [j \in 1..(Len(f.chunks) - i) |-> PosOf(id, f.chunks[i + j])]

-----------------------------------------------------------------------------
(***************************************************************************)
(* Code of wal.go.                                                         *)
(***************************************************************************)

\* maxDataWriteSize: the bytes a record may take, as wal.go estimates it.
maxDataWriteSize(n) == H + n + (n \div B + 1) * H

\* Mutant: the estimate leaves out the chunk headers.
isFullDataOnly(n) == Size(files[active]) + n > SegmentSize

\* isFull(delta)
isFull(n) == Size(files[active]) + maxDataWriteSize(n) > SegmentSize

\* Mutant: rotation without syncing the old segment.
RotatedFilesNoSync == (active + 1 :> EmptySegment) @@ files

\* rotateActiveSegment: sync the active segment, reset bytesWrite, open
\* segment id+1 and retire the old one to olderSegments.  Results are the
\* files and the new active id.
RotatedFiles == (active + 1 :> EmptySegment) @@ [files EXCEPT ![active] = Synced(@)]

Init ==
  /\ files = (1 :> EmptySegment)
  /\ open = TRUE /\ active = 1 /\ older = {}
  /\ bytesWrite = 0 /\ pending = <<>> /\ pendingSize = 0
  /\ count = 0 /\ crashes = 0 /\ written = <<>> /\ returned = {} /\ promised = 0

\* Write(data): ErrValueTooLarge by the header-plus-data check; rotation
\* when isFull; the chunk; bytesWrite += ChunkSize; the sync policy.
Write(n) ==
  /\ open /\ count < MaxWrites
  /\ count' = count + 1
  /\ IF n + H > SegmentSize
     THEN UNCHANGED <<files, active, older, bytesWrite, written, returned, promised>>
     ELSE
       LET rot == isFull(n)
           id  == IF rot THEN active + 1 ELSE active
           fs  == IF rot THEN RotatedFiles ELSE files
           bw0 == IF rot THEN 0 ELSE bytesWrite
           f   == PutChunk(fs[id], count + 1, n)
           c   == Last(f.chunks)
           bw  == bw0 + (Off(c.e) - Off(c))
           sync == SyncEachWrite \/ (BytesPerSync > 0 /\ bw >= BytesPerSync)
       IN /\ files' = [fs EXCEPT ![id] = IF sync THEN Synced(f) ELSE f]
          /\ active' = id
          /\ older' = IF rot THEN older \cup {active} ELSE older
          /\ bytesWrite' = IF sync THEN 0 ELSE bw
          /\ written' = Append(written, PosOf(id, c))
          /\ returned' = returned \cup {PosOf(id, c)}
          /\ promised' = IF SyncEachWrite THEN Len(written) + 1 ELSE promised
  /\ UNCHANGED <<open, pending, pendingSize, crashes>>

\* PendingWrites(data)
PendingWrites(n) ==
  /\ open /\ count < MaxWrites /\ Len(pending) < MaxPending
  /\ pending' = Append(pending, [n |-> n, k |-> count + 1])
  /\ pendingSize' = pendingSize + maxDataWriteSize(n)
  /\ count' = count + 1
  /\ UNCHANGED <<files, open, active, older, bytesWrite, crashes, written, returned, promised>>

\* WriteAll(): nothing to do without pending writes; ErrPendingSizeTooLarge;
\* rotation when the batch does not fit; segment.writeAll; the deferred
\* ClearPendingWrites on every path after the lock.
WriteAll ==
  /\ open /\ pending # <<>>
  /\ IF pendingSize > SegmentSize
     THEN UNCHANGED <<files, active, older, bytesWrite, written, returned>>
     ELSE
       LET rot == Size(files[active]) + pendingSize > SegmentSize
           id  == IF rot THEN active + 1 ELSE active
           fs  == IF rot THEN RotatedFiles ELSE files
           f   == PutAll(fs[id], pending)
       IN /\ files' = [fs EXCEPT ![id] = f]
          /\ active' = id
          /\ older' = IF rot THEN older \cup {active} ELSE older
          /\ bytesWrite' = IF rot THEN 0 ELSE bytesWrite
          /\ written' = written \o NewPositions(id, f, Len(fs[id].chunks))
          /\ returned' = returned \cup Range(NewPositions(id, f, Len(fs[id].chunks)))
  /\ pending' = <<>> /\ pendingSize' = 0
  /\ UNCHANGED <<open, count, crashes, promised>>

\* OpenNewActiveSegment(): sync, then segment id+1 becomes the active one.
OpenNewActiveSegment ==
  /\ open /\ active < MaxSegments
  /\ files' = RotatedFiles
  /\ active' = active + 1 /\ older' = older \cup {active}
  /\ UNCHANGED <<open, bytesWrite, pending, pendingSize, count, crashes, written, returned, promised>>

\* Mutant: Sync returns without syncing the segment file.
SyncNoFsync ==
  /\ open
  /\ promised' = Len(written)
  /\ UNCHANGED <<files, open, active, older, bytesWrite, pending, pendingSize, count, crashes, written, returned>>

\* Sync(): activeSegment.Sync() under wal.mu; the caller now holds every
\* record written so far as durable.
Sync ==
  /\ open
  /\ files' = [files EXCEPT ![active] = Synced(@)]
  /\ promised' = Len(written)
  /\ UNCHANGED <<open, active, older, bytesWrite, pending, pendingSize, count, crashes, written, returned>>

\* The process dies: every file keeps its synced chunks and a prefix of
\* the rest; the WAL object and its pending writes are gone.
Crash ==
  /\ open /\ crashes < MaxCrashes
  /\ \E keep \in [DOMAIN files -> 0..MaxWrites] :
       /\ \A id \in DOMAIN files : files[id].synced <= keep[id] /\ keep[id] <= Len(files[id].chunks)
       /\ files' = [id \in DOMAIN files |->
                      [chunks |-> SubSeq(files[id].chunks, 1, keep[id]), synced |-> keep[id]]]
  /\ open' = FALSE /\ crashes' = crashes + 1
  /\ pending' = <<>> /\ pendingSize' = 0 /\ bytesWrite' = 0
  /\ UNCHANGED <<active, older, count, written, returned, promised>>

\* The chunk positions that are on disk, in the order a reader returns them:
\* segment ids ascending, chunks in file order.
SegmentOrder(ids) == SetToSortSeq(ids, <)
LogOf(ids) == LET o == SegmentOrder(ids) IN
  FlattenSeq([i \in 1..Len(o) |-> NewPositions(o[i], files[o[i]], 0)])

\* Open(options): the segment ids of the directory sorted, the largest one
\* active and the others older (an empty directory, which gives segment
\* 1, is Init).  The
\* history goes on from what a reader of the reopened log returns.
Open ==
  /\ ~open
  /\ open' = TRUE
  /\ active' = Max(DOMAIN files)
  /\ older' = DOMAIN files \ {Max(DOMAIN files)}
  /\ written' = LogOf(DOMAIN files)
  /\ UNCHANGED <<files, bytesWrite, pending, pendingSize, count, crashes, returned, promised>>

\* Close(): every older segment and then the active one is closed (the
\* ids go to renameIds, used only by RenameFileExt).  A file close does
\* not sync: the files keep every chunk, and the WAL object is done with,
\* its pending writes with it.  The next use is a fresh Open.
Close ==
  /\ open
  /\ open' = FALSE
  /\ pending' = <<>> /\ pendingSize' = 0 /\ bytesWrite' = 0
  /\ UNCHANGED <<files, active, older, count, crashes, written, returned, promised>>

\* Delete(): every segment file is removed.  The directory is empty, so
\* the next Open starts again at segment 1 with an empty log; the
\* positions returned by the removed log no longer name anything.
Delete ==
  /\ open
  /\ files' = (1 :> EmptySegment)
  /\ open' = FALSE /\ active' = 1 /\ older' = {}
  /\ pending' = <<>> /\ pendingSize' = 0 /\ bytesWrite' = 0
  /\ written' = <<>> /\ returned' = {} /\ promised' = 0
  /\ UNCHANGED <<count, crashes>>

-----------------------------------------------------------------------------
(***************************************************************************)
(* Readers.  NewReader (NewReaderWithMax(0)) has one segment reader per   *)
(* segment of the WAL, sorted by id; Reader.Next reads the chunks of each *)
(* in turn.  A reader's state is <<i, j>>: segment reader i, before chunk *)
(* j of it.                                                                *)
(***************************************************************************)
Readers == SegmentOrder(older \cup {active})

NewReader == LogOf(older \cup {active})

\* CurrentChunkPosition: the chunk the segment reader is at, or the end of
\* its segment, with the padding of a full block skipped.
CurPos(i, j) ==
  LET id == Readers[i]  ch == files[id].chunks IN
  IF j <= Len(ch) THEN [s |-> id, b |-> ch[j].b, o |-> ch[j].o]
  ELSE LET p == Pad(End(files[id])) IN [s |-> id, b |-> p.b, o |-> p.o]

\* The segment reader after i whose first chunk Reader.Next returns, or
\* Len(Readers) + 1 at io.EOF.
NextNonEmpty(i) ==
  LET js == {j \in (i + 1)..Len(Readers) : files[Readers[j]].chunks # <<>>} IN
  IF js = {} THEN Len(Readers) + 1 ELSE Min(js)

\* Mutant: the chunk at the start position itself is skipped.
RECURSIVE StartLoopStrict(_, _, _)
StartLoopStrict(p, i, j) ==
  IF i > Len(Readers) THEN <<i, 1>>
  ELSE IF Readers[i] < p.s THEN StartLoopStrict(p, i + 1, 1)
  ELSE LET c == CurPos(i, j) IN
       IF c.b >= p.b /\ c.o > p.o THEN <<i, j>>
       ELSE IF j <= Len(files[Readers[i]].chunks) THEN StartLoopStrict(p, i, j + 1)
       ELSE LET n == NextNonEmpty(i) IN
            IF n > Len(Readers) THEN <<n, 1>> ELSE StartLoopStrict(p, n, 2)

\* The loop of NewReaderWithStart(startPos): skip segment readers with a
\* smaller id, stop where block and offset are both at least the start's,
\* otherwise Next (which moves to the next segment reader at the end of
\* one).  The result is the reader state the loop stops in.
RECURSIVE StartLoop(_, _, _)
StartLoop(p, i, j) ==
  IF i > Len(Readers) THEN <<i, 1>>
  ELSE IF Readers[i] < p.s THEN StartLoop(p, i + 1, 1)
  ELSE LET c == CurPos(i, j) IN
       IF c.b >= p.b /\ c.o >= p.o THEN <<i, j>>
       ELSE IF j <= Len(files[Readers[i]].chunks) THEN StartLoop(p, i, j + 1)
       ELSE LET n == NextNonEmpty(i) IN
            IF n > Len(Readers) THEN <<n, 1>> ELSE StartLoop(p, n, 2)

\* The chunks a reader in state <<i, j>> returns.
Rest(st) ==
  IF st[1] > Len(Readers) THEN <<>>
  ELSE SubSeq(NewPositions(Readers[st[1]], files[Readers[st[1]]], 0), st[2], Len(files[Readers[st[1]]].chunks))
       \o FlattenSeq([i \in 1..(Len(Readers) - st[1]) |->
                        NewPositions(Readers[st[1] + i], files[Readers[st[1] + i]], 0)])

NewReaderWithStart(p) == Rest(StartLoop(p, 1, 1))

\* Positions ordered as the log orders them.
Before(x, y) == <<x.s, x.b, x.o>> # <<y.s, y.b, y.o>> /\
  (x.s < y.s \/ (x.s = y.s /\ (x.b < y.b \/ (x.b = y.b /\ x.o < y.o))))

-----------------------------------------------------------------------------
Next ==
  \/ \E n \in DataSizes : Write(n) \/ PendingWrites(n)
  \/ WriteAll \/ OpenNewActiveSegment \/ Sync \/ Crash \/ Open
  \/ Close \/ Delete

Spec == Init /\ [][Next]_vars

-----------------------------------------------------------------------------
Position == [k : Nat, s : Nat, b : Nat, o : Nat]

TypeOK ==
  /\ \A id \in DOMAIN files :
       /\ files[id].synced \in 0..Len(files[id].chunks)
       /\ \A c \in Range(files[id].chunks) : c.n \in DataSizes
  /\ open \in BOOLEAN /\ active \in DOMAIN files /\ older \subseteq DOMAIN files
  /\ bytesWrite \in Nat /\ pending \in Seq([n : DataSizes, k : 1..MaxWrites]) /\ pendingSize \in Nat
  /\ count \in 0..MaxWrites /\ crashes \in 0..MaxCrashes
  /\ written \in Seq(Position) /\ returned \subseteq Position /\ promised \in 0..MaxWrites

\* Spec P1: what a fresh Reader of the files returns -- after a crash, what
\* Open and NewReader would return -- is a prefix of the chunks written, in
\* write order: a chunk never survives a chunk written before it.  This
\* rests on rotateActiveSegment and OpenNewActiveSegment syncing the old
\* segment before new writes go elsewhere, and on Open making the largest
\* id active.
DurablePrefix == IsPrefix(LogOf(DOMAIN files), written)

\* Write and WriteAll rotate before a segment would grow past SegmentSize:
\* no segment file is larger (spec 4.1, Write).  Write's size check
\* (wal.go:308) and isFull disagree for a record whose length lies between
\* maxDataWriteSize and SegmentSize - ChunkHeaderSize (7 bytes with the
\* wal_durable constants): such a record breaks it.
SegmentWithinSize == \A id \in DOMAIN files : Size(files[id]) <= SegmentSize

\* NewReaderWithStart(pos) at the position of a chunk of the log returns
\* that chunk and every later one, in log order (spec 4.1: resuming from
\* a ChunkPosition by linearly skipping the chunks before it).
ResumeAtChunk == open =>
  \A p \in Range(NewReader) :
    NewReaderWithStart(p) = SelectSeq(NewReader, LAMBDA x : ~Before(x, p))

\* NewReaderWithStart(pos) at any position a Write or WriteAll ever
\* returned -- one whose chunk a crash lost included -- returns exactly
\* the chunks of the log from pos on.
ResumeAfterCrash == open =>
  \A p \in returned :
    NewReaderWithStart(p) = SelectSeq(NewReader, LAMBDA x : ~Before(x, p))
=============================================================================
