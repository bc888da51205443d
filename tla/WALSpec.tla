------------------------------ MODULE WALSpec ------------------------------
(***************************************************************************)
(* What the write-ahead log of src/kv/wal promises its caller, without    *)
(* segments, blocks or chunks: an append-only sequence of records, and    *)
(* the length of its prefix that the caller has been told is durable.     *)
(* Records are named by the number of the call that handed them over.    *)
(*                                                                         *)
(*  - AppendRecords: Write or WriteAll adds new records at the end of the *)
(*    log; with Options.Sync the write is durable when it returns.        *)
(*  - Sync: everything appended so far is durable.                         *)
(*  - Crash: the log keeps a prefix at least as long as the durable one;  *)
(*    what was not synced may be lost, but only from the end.             *)
(*  - Reset: Delete removes every record.                                  *)
(* Reading the log (Open, NewReader, Next) changes nothing: a reader      *)
(* returns `log`.                                                          *)
(***************************************************************************)
EXTENDS Naturals, Sequences, SequencesExt

VARIABLES
  log,     \* the records a reader of the files returns, in order
  durable  \* the length of the prefix of log the caller knows is durable

vars == <<log, durable>>

TypeOK == /\ log \in Seq(Nat) /\ durable \in 0 .. Len(log)

Init == log = <<>> /\ durable = 0

\* New records, none of them already in the log, are added at its end.
Appended(new) == /\ Len(new) > Len(log)
                 /\ IsPrefix(log, new)
                 /\ \A j \in (Len(log) + 1) .. Len(new) : new[j] \notin Range(log)

AppendRecords == LET new == log' IN Appended(new) /\ UNCHANGED durable

AppendSynced == LET new == log' IN Appended(new) /\ durable' = Len(new)

Sync == durable' = Len(log) /\ UNCHANGED log

Crash == LET new == log' IN
  \E m \in durable .. Len(log) : new = SubSeq(log, 1, m) /\ UNCHANGED durable

Reset == log' = <<>> /\ durable' = 0

Next == AppendRecords \/ AppendSynced \/ Sync \/ Crash \/ Reset

Spec == Init /\ [][Next]_vars
=============================================================================
