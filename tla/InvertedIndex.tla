---------------------------- MODULE InvertedIndex ----------------------------
(***************************************************************************)
(* The typed inverted index of src/pkg/index/inverted.go: one posting set *)
(* (a roaring bitmap of document ids) per distinct value, cached in       *)
(* memory (setCache) over a key-value storage, with a dirty flag per      *)
(* cached set.  InsertUpdateDelete starts a goroutine that holds inv.mu,  *)
(* applies the changes it receives on a channel (SinkWithContext of       *)
(* src/pkg/withcontext) and then flushes the dirty sets; Search holds     *)
(* inv.mu too, so it runs between two batches.                             *)
(*                                                                         *)
(* Values are strings, written as tuples of small numbers so that the     *)
(* byte order of toByteSortable (lexicographic) and StartsWith (prefix)   *)
(* mean what they mean for strings.  The storage package is not under     *)
(* src; Get, Put, Delete, ForEach, PrefixScan and RangeScan are modelled  *)
(* from the spec as a map from keys to sets.  `docs` is the caller: the   *)
(* value each document has in the changes sent so far, from which the     *)
(* next change's PreviousData is taken.                                    *)
(***************************************************************************)
EXTENDS Naturals, Sequences, SequencesExt, FiniteSets

CONSTANTS
  Ids,            \* document ids
  Values,         \* the values of the indexed field (tuples, as strings)
  Nil,            \* no value: PreviousData or CurrentData is nil
  Operators,      \* the Search operators exercised
  MaxChanges,     \* bound on the changes sent
  MayCancel,      \* the caller's context may be cancelled during a batch
  StorageMayFail  \* storage.Put and storage.Delete may return an error

ASSUME
  /\ Nil \notin Values
  /\ Operators \subseteq {"eq", "ne", "prefix", "gt", "ge", "lt", "le", "range"}
  /\ MaxChanges \in Nat /\ MayCancel \in BOOLEAN /\ StorageMayFail \in BOOLEAN

VARIABLES
  storage,  \* value -> the posting set stored under its key ({} when absent)
  cached,   \* the values with an entry in setCache
  cset,     \* value -> the cached set
  dirty,    \* value -> the cached item's isDirty
  pc,       \* the InsertUpdateDelete goroutine: "idle", "sink" or "flush"
  toFlush,  \* the dirty entries flush has still to write
  result,   \* what the last batch reported on errC: "none", "ok" or "err"
  docs,     \* the caller: id -> the value in the last change received
  changes   \* changes sent so far

vars == <<storage, cached, cset, dirty, pc, toFlush, result, docs, changes>>

Cache == <<cached, cset, dirty>>

\* NewIndexInverted over a storage that holds the postings of documents
\* indexed before, with an empty setCache.
Init ==
  /\ docs \in [Ids -> Values \cup {Nil}]
  /\ storage = [v \in Values |-> {i \in Ids : docs[i] = v}]
  /\ cached = {} /\ cset = [v \in Values |-> {}] /\ dirty = [v \in Values |-> FALSE]
  /\ pc = "idle" /\ toFlush = {} /\ result = "none" /\ changes = 0

\* The keys present in storage (flush deletes the key of an empty set).
Keys == {v \in Values : storage[v] # {}}

\* What the index holds for v: the cached set, or the stored one.
Effective(v) == IF v \in cached THEN cset[v] ELSE storage[v]

\* Mutant: getSetCacheItem builds the item but does not store it in setCache.
LoadNoStore(S) ==
  /\ cached' = cached
  /\ cset' = [v \in Values |-> IF v \in S \ cached THEN storage[v] ELSE cset[v]]

\* getSetCacheItem for the values in S: those not yet cached are read from
\* storage (or from the bytes a scan passes) and cached, not dirty.
Load(S) ==
  /\ cached' = cached \cup S
  /\ cset' = [v \in Values |-> IF v \in S \ cached THEN storage[v] ELSE cset[v]]

\* CheckedAdd / CheckedRemove on the cached set of v, with
\* isDirty = changed || isDirty.
AddTo(c, d, v, id) == <<[c EXCEPT ![v] = @ \cup {id}], [d EXCEPT ![v] = (id \notin c[v]) \/ @]>>
RemoveFrom(c, d, v, id) == <<[c EXCEPT ![v] = @ \ {id}], [d EXCEPT ![v] = (id \in c[v]) \/ @]>>

-----------------------------------------------------------------------------
\* InsertUpdateDelete(ctx, in): the goroutine takes inv.mu.
InsertUpdateDelete ==
  /\ pc = "idle" /\ changes < MaxChanges
  /\ pc' = "sink" /\ result' = "none"
  /\ UNCHANGED <<storage, cached, cset, dirty, toFlush, docs, changes>>

\* Mutant: an update adds the id to the current value's set but leaves it
\* in the previous one's.
ProcessChangeNoRemove(id, cur) ==
  /\ pc = "sink" /\ changes < MaxChanges
  /\ LET prev == docs[id]
         used == {v \in {prev, cur} : v # Nil /\ prev # cur}
         c0 == [v \in Values |-> IF v \in used \ cached THEN storage[v] ELSE cset[v]]
         rm == IF prev # Nil /\ prev # cur /\ cur = Nil THEN RemoveFrom(c0, dirty, prev, id) ELSE <<c0, dirty>>
         ad == IF cur # Nil /\ prev # cur THEN AddTo(rm[1], rm[2], cur, id) ELSE rm
     IN /\ cached' = cached \cup used
        /\ cset' = ad[1] /\ dirty' = ad[2]
        /\ docs' = [docs EXCEPT ![id] = cur]
  /\ changes' = changes + 1
  /\ UNCHANGED <<storage, pc, toFlush, result>>

\* SinkWithContext receives one change and calls processChange: blank,
\* insert, delete, update (remove from the previous value's set, then add
\* to the current one's) or a change to the same value.
ProcessChange(id, cur) ==
  /\ pc = "sink" /\ changes < MaxChanges
  /\ LET prev == docs[id]
         used == {v \in {prev, cur} : v # Nil /\ prev # cur}
         c0 == [v \in Values |-> IF v \in used \ cached THEN storage[v] ELSE cset[v]]
         rm == IF prev # Nil /\ prev # cur THEN RemoveFrom(c0, dirty, prev, id) ELSE <<c0, dirty>>
         ad == IF cur # Nil /\ prev # cur THEN AddTo(rm[1], rm[2], cur, id) ELSE rm
     IN /\ cached' = cached \cup used
        /\ cset' = ad[1] /\ dirty' = ad[2]
        /\ docs' = [docs EXCEPT ![id] = cur]
  /\ changes' = changes + 1
  /\ UNCHANGED <<storage, pc, toFlush, result>>

\* The caller closes in: SinkWithContext reports nil and flush starts on
\* every cached entry that is dirty.
EndOfChanges ==
  /\ pc = "sink"
  /\ pc' = "flush" /\ toFlush' = {v \in cached : dirty[v]}
  /\ UNCHANGED <<storage, cached, cset, dirty, result, docs, changes>>

\* ctx.Done() wins the select: the error is reported and the goroutine
\* returns without flush; what was applied stays in the cache.
Cancel ==
  /\ MayCancel /\ pc = "sink"
  /\ pc' = "idle" /\ result' = "err"
  /\ UNCHANGED <<storage, Cache, toFlush, docs, changes>>

\* Mutant: deleting an emptied set's key returns from flush (return nil
\* in place of continue), leaving the remaining dirty sets unwritten.
FlushTermReturnOnDelete(v) ==
  /\ pc = "flush" /\ v \in toFlush
  /\ \/ /\ storage' = [storage EXCEPT ![v] = cset[v]]
        /\ IF cset[v] = {}
             THEN pc' = "idle" /\ result' = "ok" /\ toFlush' = {}
             ELSE toFlush' = toFlush \ {v} /\ UNCHANGED <<pc, result>>
     \/ /\ StorageMayFail
        /\ pc' = "idle" /\ result' = "err"
        /\ UNCHANGED <<storage, toFlush>>
  /\ UNCHANGED <<Cache, docs, changes>>

\* One iteration of flush: an empty set deletes the key, any other is put;
\* either may fail, which ends flush with the error.  isDirty stays set.
FlushTerm(v) ==
  /\ pc = "flush" /\ v \in toFlush
  /\ \/ /\ storage' = [storage EXCEPT ![v] = cset[v]]
        /\ toFlush' = toFlush \ {v}
        /\ UNCHANGED <<pc, result>>
     \/ /\ StorageMayFail
        /\ pc' = "idle" /\ result' = "err"
        /\ UNCHANGED <<storage, toFlush>>
  /\ UNCHANGED <<Cache, docs, changes>>

FlushDone ==
  /\ pc = "flush" /\ toFlush = {}
  /\ pc' = "idle" /\ result' = "ok"
  /\ UNCHANGED <<storage, Cache, toFlush, docs, changes>>

-----------------------------------------------------------------------------
(***************************************************************************)
(* Search(query, endQuery, operator).                                      *)
(***************************************************************************)
RECURSIVE LexLess(_, _)
\* toByteSortable order of two strings: lexicographic.
LexLess(a, b) ==
  \/ a = <<>> /\ b # <<>>
  \/ a # <<>> /\ b # <<>> /\ (Head(a) < Head(b) \/ (Head(a) = Head(b) /\ LexLess(Tail(a), Tail(b))))

\* storage.RangeScan(start, end, inclusive): a missing bound is open, and
\* inclusive applies to both bounds.
InScan(k, start, end, inclusive) ==
  /\ start = Nil \/ LexLess(start, k) \/ (inclusive /\ k = start)
  /\ end = Nil \/ LexLess(k, end) \/ (inclusive /\ k = end)

\* The values whose sets Search collects, by operator: Equals reads the
\* query's set; NotEquals iterates storage skipping the query's key;
\* StartsWith prefix-scans storage; the comparisons range-scan it.
Scanned(op, q, e) ==
  CASE op = "eq"     -> {q}
    [] op = "ne"     -> Keys \ {q}
    [] op = "prefix" -> {k \in Keys : IsPrefix(q, k)}
    [] op = "gt"     -> {k \in Keys : InScan(k, q, Nil, FALSE)}
    [] op = "ge"     -> {k \in Keys : InScan(k, q, Nil, TRUE)}
    [] op = "lt"     -> {k \in Keys : InScan(k, Nil, q, FALSE)}
    [] op = "le"     -> {k \in Keys : InScan(k, Nil, q, TRUE)}
    [] op = "range"  -> {k \in Keys : InScan(k, q, e, TRUE)}

\* The bitmap Search returns: the one set, or FastOr of the sets.
SearchResult(op, q, e) == UNION {Effective(v) : v \in Scanned(op, q, e)}

\* Search caches every set it reads (getSetCacheItem); the result itself
\* is returned to the caller and changes no other state.
Search(op, q, e) ==
  /\ pc = "idle"
  /\ Load(Scanned(op, q, e))
  /\ UNCHANGED <<storage, dirty, pc, toFlush, result, docs, changes>>

-----------------------------------------------------------------------------
Next ==
  \/ InsertUpdateDelete \/ EndOfChanges \/ Cancel \/ FlushDone
  \/ \E id \in Ids, cur \in Values \cup {Nil} : ProcessChange(id, cur)
  \/ \E v \in Values : FlushTerm(v)
  \/ \E op \in Operators, q, e \in Values : Search(op, q, e)

Spec == Init /\ [][Next]_vars

-----------------------------------------------------------------------------
TypeOK ==
  /\ storage \in [Values -> SUBSET Ids] /\ cached \subseteq Values
  /\ cset \in [Values -> SUBSET Ids] /\ dirty \in [Values -> BOOLEAN]
  /\ pc \in {"idle", "sink", "flush"} /\ toFlush \subseteq cached
  /\ result \in {"none", "ok", "err"}
  /\ docs \in [Ids -> Values \cup {Nil}] /\ changes \in 0..MaxChanges
  /\ \A v \in Values \ cached : cset[v] = {} /\ ~dirty[v]

\* The value a Search operator is meant to select (spec 4.5).
Matches(op, v, q, e) ==
  CASE op = "eq"     -> v = q
    [] op = "ne"     -> v # q
    [] op = "prefix" -> IsPrefix(q, v)
    [] op = "gt"     -> LexLess(q, v)
    [] op = "ge"     -> ~LexLess(v, q)
    [] op = "lt"     -> LexLess(v, q)
    [] op = "le"     -> ~LexLess(q, v)
    [] op = "range"  -> ~LexLess(v, q) /\ ~LexLess(e, v)

\* Every document is in exactly the posting set of the value of its last
\* change, and in no other -- the spec's "a document's field value is
\* represented in at most one posting set" -- whatever the interleaving of
\* changes, loads from storage by Search, flushes and cancelled batches.
\* It rests on processChange removing the id from the previous value's set
\* and on getSetCacheItem reading a set from storage only once.
PostingsMatchDocuments ==
  \A id \in Ids, v \in Values : id \in Effective(v) <=> docs[id] = v

\* After InsertUpdateDelete reported success, every operator of Search
\* returns the documents whose value it selects.  The scans read storage,
\* so this rests on flush writing every set changed since it was last
\* written -- also those of an earlier batch that failed, which the
\* sticky isDirty keeps -- and on deleting the key of an emptied set.
SearchMatchesPostings ==
  (pc = "idle" /\ result = "ok") =>
    \A op \in Operators, q, e \in Values :
      SearchResult(op, q, e) = UNION {Effective(v) : v \in {w \in Values : Matches(op, w, q, e)}}
=============================================================================
