------------------------------- MODULE MCWAL -------------------------------
(***************************************************************************)
(* The WAL instantiated for TLC.  Sizes are scaled down from the code's   *)
(* 32 KiB blocks and 7-byte headers so that records span blocks, blocks   *)
(* end in padding and segments rotate within a few writes.                *)
(***************************************************************************)
EXTENDS WAL

\* The log as a fresh reader of the files returns it (LogOf): the record
\* numbers of the chunks of every segment, ids ascending.
RECURSIVE RecordsFrom(_)
RecordsFrom(i) ==
  IF i > Max(DOMAIN files) THEN <<>>
  ELSE (IF i \in DOMAIN files
        THEN [j \in 1 .. Len(files[i].chunks) |-> files[i].chunks[j].k] ELSE <<>>)
       \o RecordsFrom(i + 1)

ReaderLog == RecordsFrom(1)

Log == INSTANCE WALSpec WITH log <- ReaderLog, durable <- promised

(***************************************************************************)
(* The segmented WAL implements the abstract log: every Write and WriteAll *)
(* appends its records after all earlier ones, and a process crash cuts   *)
(* the log only from the end and never below what a Sync() -- or a Write  *)
(* with Options.Sync -- covered when it returned.  wal.Sync syncs only   *)
(* the active segment, so this rests on rotateActiveSegment and           *)
(* OpenNewActiveSegment syncing the old one before writes go to the next, *)
(* and on Open making the segment with the largest id active.            *)
(***************************************************************************)
WALSpecRefined == Log!Spec
=============================================================================
