----------------------------- MODULE Collections -----------------------------
(***************************************************************************)
(* The collection handlers of src/edge/edge.go.  Every RPC runs in its own *)
(* goroutine; each lock-protected section it executes is one step, so the *)
(* handlers of concurrent requests interleave between sections.            *)
(*                                                                         *)
(* Per collection name the state is: the three flag maps of stateManager  *)
(* (checker, loadchecker, auth), the entry of Edge.Datas, the entry of     *)
(* VectorStore.Space, the bitmap index of indexdb, the persisted config    *)
(* and index files, and the document ids held by the bitmap index (idx),  *)
(* the vector space (vec), the persisted index (savedIdx) and the Disk    *)
(* store (disk).  A document is its autoCommitID; all documents carry the *)
(* same external id, so PureSearch by id finds every one of them.         *)
(***************************************************************************)
EXTENDS Naturals, FiniteSets, FiniteSetsExt

CONSTANTS
  Names,          \* collection names
  Reqs,           \* concurrent RPCs (goroutines)
  Ops,            \* the RPCs clients issue: a subset of RPCs
  Created,        \* names an earlier CreateCollection has created (empty and loaded)
  MaxRequests,    \* bound: RPCs started
  MaxIds,         \* bound: documents inserted (autoCommitID values)
  TopK,           \* the topK of search requests
  Euclidean,      \* the collection uses the Euclidean distance (hits above 100 are skipped)
  DiskPutMayFail,    \* Disk.Put may return an error
  DiskDeleteMayFail, \* Disk.Delete may return an error
  HelpersMayFail  \* the persistence helpers of the edge package (CreateIndex, CommitCollection,
                  \* CommitConfig, CommitIndex, LoadCommitCollectionConifg, LoadCommitIndex,
                  \* LoadData) may return an error

ASSUME TopK \in Nat /\ Euclidean \in BOOLEAN /\ DiskPutMayFail \in BOOLEAN /\ DiskDeleteMayFail \in BOOLEAN /\ HelpersMayFail \in BOOLEAN

Ids == 1 .. MaxIds
RPCs == {"create", "drop", "get", "load", "release", "flush", "insert", "update", "delete",
         "vsearch", "fsearch", "hsearch"}
Searches == {"vsearch", "fsearch", "hsearch"}

ASSUME Ops \subseteq RPCs /\ Created \subseteq Names

VARIABLES col, pc, op, name, rid, nextId, started, createOk,
  chan,      \* the capacity-1 reply channel c of a search RPC: "empty", "ok" or "err"
  answered,  \* the search RPC's handler has received from c and returned
  todo,      \* the candidate ids the search goroutine has still to fetch from Disk
  rlocks     \* read locks of indexdb.indexLock that a panic left unreleased

search == <<chan, answered, todo, rlocks>>

vars == <<col, pc, op, name, rid, nextId, started, createOk, chan, answered, todo, rlocks>>

Absent == [checker |-> FALSE, loadchecker |-> FALSE, auth |-> FALSE, datas |-> FALSE,
           space |-> FALSE, bitmap |-> FALSE, cfg |-> FALSE,
           savedIdx |-> {}, idx |-> {}, vec |-> {}, disk |-> {}]

\* The state a successful CreateCollection leaves.
Fresh == [Absent EXCEPT !.checker = TRUE, !.loadchecker = TRUE, !.auth = TRUE, !.datas = TRUE,
                        !.space = TRUE, !.bitmap = TRUE, !.cfg = TRUE]

Init ==
  /\ col = [n \in Names |-> IF n \in Created THEN Fresh ELSE Absent]
  /\ pc = [r \in Reqs |-> "idle"]
  /\ op = [r \in Reqs |-> "create"]
  /\ name = [r \in Reqs |-> CHOOSE n \in Names : TRUE]
  /\ rid = [r \in Reqs |-> 0]
  /\ nextId = 1 /\ started = 0
  /\ createOk = [n \in Names |-> IF n \in Created THEN 1 ELSE 0]
  /\ chan = [r \in Reqs |-> "empty"] /\ answered = [r \in Reqs |-> FALSE]
  /\ todo = [r \in Reqs |-> {}] /\ rlocks = 0

-----------------------------------------------------------------------------
C(r) == col[name[r]]

\* col[name[r]] with the fields of upd changed
Upd(r, upd) == col' = [col EXCEPT ![name[r]] = [f \in DOMAIN @ |-> IF f \in DOMAIN upd THEN upd[f] ELSE @[f]]]

At(r, l) == pc[r] = l
Goto(r, l) == pc' = [pc EXCEPT ![r] = l]
\* c <- reply{...}; return -- the goroutine ends and the RPC returns.
Reply(r) == Goto(r, "idle")

Rest == <<col, op, name, rid, nextId, started, createOk, search>>

Step(r, l, upd) == Upd(r, upd) /\ Goto(r, l) /\ UNCHANGED <<op, name, rid, nextId, started, createOk, search>>
Skip(r, l) == Goto(r, l) /\ UNCHANGED Rest
Answer(r, upd) == Step(r, "idle", upd)

\* The first label of each handler, and the label after its existence test.
First == [create |-> "c_check", drop |-> "dc_check", get |-> "g_check", load |-> "l_check",
          release |-> "r_check", flush |-> "fl_check", insert |-> "i_check", update |-> "u_check", delete |-> "x_check",
          vsearch |-> "vs_check", fsearch |-> "fs_check", hsearch |-> "hs_check"]
AfterExists == [create |-> "c_vscheck", drop |-> "dc_datas", get |-> "g_reply", load |-> "l_auth",
                release |-> "r_auth", flush |-> "fl_auth", insert |-> "i_auth", update |-> "u_auth", delete |-> "x_auth",
                vsearch |-> "vs_auth", fsearch |-> "fs_auth", hsearch |-> "hs_auth"]

\* Mutant: the id drawn is the counter after its increment.
StartPreIncrement(r) ==
  /\ At(r, "idle") /\ started < MaxRequests
  /\ \E o \in Ops, n \in Names :
       LET draws == o \in {"insert", "update"} IN
       /\ draws => nextId <= MaxIds
       /\ op' = [op EXCEPT ![r] = o] /\ name' = [name EXCEPT ![r] = n]
       /\ pc' = [pc EXCEPT ![r] = First[o]]
       /\ rid' = [rid EXCEPT ![r] = IF draws THEN nextId + 1 ELSE 0]
       /\ nextId' = IF draws THEN nextId + 1 ELSE nextId
  /\ started' = started + 1
  /\ UNCHANGED <<col, createOk, search>>

\* An RPC arrives.  The autoCommitID an Insert will draw is taken here
\* (unique and increasing, as autoCommitID is); Update takes one as well,
\* for the Insert it falls back to when the document is not found.
Start(r) ==
  /\ At(r, "idle") /\ started < MaxRequests
  /\ \E o \in Ops, n \in Names :
       LET draws == o \in {"insert", "update"} IN
       /\ draws => nextId <= MaxIds
       /\ op' = [op EXCEPT ![r] = o] /\ name' = [name EXCEPT ![r] = n]
       /\ pc' = [pc EXCEPT ![r] = First[o]]
       /\ rid' = [rid EXCEPT ![r] = IF draws THEN nextId ELSE 0]
       /\ nextId' = IF draws THEN nextId + 1 ELSE nextId
  /\ started' = started + 1
  /\ UNCHANGED <<col, createOk, search>>

\* existsCollection(name) (checker map, under its RLock), the first test of
\* every handler: CreateCollection replies ErrCollectionExists if it holds,
\* the others fail if it does not, except DeleteCollection, which then
\* replies success without doing anything.
ExistsCheck(r) ==
  /\ At(r, First[op[r]])
  /\ IF C(r).checker = (op[r] = "create") THEN Reply(r) /\ UNCHANGED Rest
     ELSE Skip(r, AfterExists[op[r]])

\* alreadyLoadCollection(name) (auth map): Load replies success at once if
\* it holds, Release if it does not; Insert and Delete fail if it does not.
LoadedCheck(r) ==
  LET o == op[r] IN
  /\ o \in {"load", "release", "flush", "insert", "update", "delete"} \cup Searches
  /\ At(r, AfterExists[o])
  /\ IF C(r).auth = (o = "load") THEN Reply(r) /\ UNCHANGED Rest
     ELSE Skip(r, [load |-> "l_cfg", release |-> "r_commit", flush |-> "fl_commit", insert |-> "i_add", update |-> "u_find",
                   delete |-> "x_find", vsearch |-> "v_scan", fsearch |-> "f_scan", hsearch |-> "h_scan"][o])

\* GetCollection: past existsCollection it replies the collection's name
\* with Status true, whether or not the collection is loaded.
GetReply(r) == At(r, "g_reply") /\ Reply(r) /\ UNCHANGED Rest

-----------------------------------------------------------------------------
(***************************************************************************)
(* CreateCollection                                                        *)
(***************************************************************************)
\* Datas.Set, then VectorStore.CreateCollection's RLock'd existence test;
\* when it fails the handler deletes the Datas entry again and replies.
CreateVsCheck(r) ==
  /\ At(r, "c_vscheck")
  /\ IF C(r).space THEN Answer(r, [datas |-> FALSE]) ELSE Step(r, "c_vsset", [datas |-> TRUE])

\* Space[name] = newXxVectorstore(cfg) under slock.
CreateVsSet(r) == At(r, "c_vsset") /\ Step(r, "c_index", [space |-> TRUE, vec |-> {}])

\* indexdb.CreateIndex: a new, empty bitmap index for the name.  On an
\* error the handler deletes the Datas entry and drops the vector space.
CreateIndex(r) ==
  /\ At(r, "c_index")
  /\ \/ Step(r, "c_flags", [bitmap |-> TRUE, idx |-> {}])
     \/ HelpersMayFail /\ Answer(r, [datas |-> FALSE, space |-> FALSE, vec |-> {}])

\* checker and loadchecker set to true, each under its own lock.
CreateFlags(r) == At(r, "c_flags") /\ Step(r, "c_auth", [checker |-> TRUE, loadchecker |-> TRUE])

CreateAuth(r) == At(r, "c_auth") /\ Step(r, "c_commit", [auth |-> TRUE])

\* A failure of CommitCollection or of CommitConfig deletes the Datas entry
\* and drops the vector space; the three flags and the bitmap index stay.
CreateCommitFail(r) ==
  /\ HelpersMayFail /\ pc[r] \in {"c_commit", "c_config"}
  /\ Answer(r, [datas |-> FALSE, space |-> FALSE, vec |-> {}])

CreateCommit(r) == At(r, "c_commit") /\ Skip(r, "c_config")

CreateConfig(r) ==
  /\ At(r, "c_config")
  /\ Upd(r, [cfg |-> TRUE]) /\ Reply(r)
  /\ createOk' = [createOk EXCEPT ![name[r]] = @ + 1]
  /\ UNCHANGED <<op, name, rid, nextId, started, search>>

(***************************************************************************)
(* DeleteCollection                                                        *)
(***************************************************************************)
\* Datas.Del and delete(auth.collections, name).
DropAuth(r) == At(r, "dc_datas") /\ Step(r, "dc_checker", [datas |-> FALSE, auth |-> FALSE])

\* delete from checker, then from loadchecker.
DropChecker(r) == At(r, "dc_checker") /\ Step(r, "dc_vs", [checker |-> FALSE, loadchecker |-> FALSE])

\* VectorStore.DropCollection (returns nil when absent).
DropVs(r) == At(r, "dc_vs") /\ Step(r, "dc_index", [space |-> FALSE, vec |-> {}])

DropIndex(r) == At(r, "dc_index") /\ Step(r, "dc_disk", [bitmap |-> FALSE, idx |-> {}])

\* Disk.AscendKeys deleting the "name_" keys in ascending order; a failing
\* Disk.Delete stops the scan, its error is dropped, and the keys from it
\* on stay.  Then allremover(name), which removes the persisted files, and
\* the success reply.
DropDisk(r) ==
  /\ At(r, "dc_disk")
  /\ \/ Upd(r, [disk |-> {}, cfg |-> FALSE, savedIdx |-> {}])
     \/ /\ DiskDeleteMayFail
        /\ \E k \in C(r).disk : Upd(r, [disk |-> {d \in C(r).disk : d >= k}, cfg |-> FALSE, savedIdx |-> {}])
  /\ Reply(r)
  /\ createOk' = [createOk EXCEPT ![name[r]] = 0]
  /\ UNCHANGED <<op, name, rid, nextId, started, search>>

(***************************************************************************)
(* LoadCollection                                                          *)
(***************************************************************************)
\* LoadCommitCollectionConifg: fails when no config file was committed.
LoadConfig(r) ==
  /\ At(r, "l_cfg")
  /\ \/ C(r).cfg /\ Skip(r, "l_index")
     \/ (~C(r).cfg \/ HelpersMayFail) /\ Reply(r) /\ UNCHANGED Rest

\* LoadCommitIndex: the bitmap index is read back from its file.
LoadIndex(r) ==
  /\ At(r, "l_index")
  /\ \/ Step(r, "l_data", [bitmap |-> TRUE, idx |-> C(r).savedIdx])
     \/ HelpersMayFail /\ Reply(r) /\ UNCHANGED Rest

\* Datas.Set, then LoadData, which rebuilds the vector space from the
\* collection's records; its error is returned with the Datas entry set.
LoadData(r) ==
  /\ At(r, "l_data")
  /\ \/ Step(r, "l_flags", [datas |-> TRUE, space |-> TRUE, vec |-> C(r).disk])
     \/ HelpersMayFail /\ Answer(r, [datas |-> TRUE])

LoadFlags(r) == At(r, "l_flags") /\ Answer(r, [loadchecker |-> TRUE, auth |-> TRUE])

(***************************************************************************)
(* ReleaseCollection                                                       *)
(***************************************************************************)
\* The error replies of CommitConfig, then CommitIndex, which writes the
\* bitmap index (an absent index makes it fail): a failing CommitIndex
\* leaves the config file CommitConfig wrote.
CommitFail(r) ==
  \/ HelpersMayFail /\ Reply(r) /\ UNCHANGED Rest
  \/ (HelpersMayFail \/ ~C(r).bitmap) /\ Answer(r, [cfg |-> TRUE])

ReleaseCommit(r) ==
  /\ At(r, "r_commit")
  /\ \/ /\ C(r).bitmap
        /\ Step(r, "r_evict", [cfg |-> TRUE, savedIdx |-> C(r).idx])
     \/ CommitFail(r)

\* Datas.Del and delete(indexdb.indexes, name).
\* The delete from indexdb.indexes is under indexLock.Lock, which waits
\* for every read lock to be released.
ReleaseEvict(r) ==
  /\ At(r, "r_evict") /\ rlocks = 0
  /\ Step(r, "r_space", [datas |-> FALSE, bitmap |-> FALSE, idx |-> {}])

\* delete(VectorStore.Space, name).
ReleaseSpace(r) == At(r, "r_space") /\ Step(r, "r_flags", [space |-> FALSE, vec |-> {}])

ReleaseFlags(r) == At(r, "r_flags") /\ Answer(r, [loadchecker |-> FALSE, auth |-> FALSE])

(***************************************************************************)
(* Flush                                                                   *)
(***************************************************************************)
\* CommitConfig, CommitIndex and VectorStore.Commit (which does nothing),
\* then the reply; the collection stays loaded.
FlushCommit(r) ==
  /\ At(r, "fl_commit")
  /\ \/ /\ C(r).bitmap
        /\ Answer(r, [cfg |-> TRUE, savedIdx |-> C(r).idx])
     \/ CommitFail(r)

(***************************************************************************)
(* Insert: index, vector space, then Disk; a Disk failure is rolled back. *)
(* A nil bitmap index (indexes[name] absent) panics, and recover() turns  *)
(* the panic into the reply.                                               *)
(***************************************************************************)
InsertAdd(r) ==
  /\ At(r, "i_add")
  /\ IF C(r).bitmap THEN Step(r, "i_vec", [idx |-> C(r).idx \cup {rid[r]}])
     ELSE Reply(r) /\ UNCHANGED Rest

\* VectorStore.InsertVector: ErrCollectionNotFound when the space is gone,
\* returned without undoing the index entry.
InsertVector(r) ==
  /\ At(r, "i_vec")
  /\ IF C(r).space THEN Step(r, "i_disk", [vec |-> C(r).vec \cup {rid[r]}])
     ELSE Reply(r) /\ UNCHANGED Rest

InsertDisk(r) ==
  /\ At(r, "i_disk")
  /\ \/ Answer(r, [disk |-> C(r).disk \cup {rid[r]}])
     \/ DiskPutMayFail /\ Skip(r, "i_undo")

\* Mutant: the rollback leaves the index entry in place.
InsertUndoKeepIndex(r) ==
  /\ At(r, "i_undo")
  /\ IF C(r).bitmap THEN Step(r, "i_undo_vec", [idx |-> C(r).idx])
     ELSE Reply(r) /\ UNCHANGED Rest

\* indexes[name].Remove(autoID) (panics if the index is gone).
InsertUndoIndex(r) ==
  /\ At(r, "i_undo")
  /\ IF C(r).bitmap THEN Step(r, "i_undo_vec", [idx |-> C(r).idx \ {rid[r]}])
     ELSE Reply(r) /\ UNCHANGED Rest

\* Mutant: the rollback leaves the vector in place.
InsertUndoKeepVector(r) == At(r, "i_undo_vec") /\ Answer(r, [vec |-> C(r).vec])

\* VectorStore.RemoveVector(autoID), its error ignored.
InsertUndoVector(r) == At(r, "i_undo_vec") /\ Answer(r, [vec |-> C(r).vec \ {rid[r]}])

(***************************************************************************)
(* Update: PureSearch for the id; when nothing is found the reply carries *)
(* IsCreate and the RPC runs Insert.  Otherwise Disk.Get, index Remove and *)
(* Add, UpdateVector, Disk.Put.  When Disk.Put fails the handler removes  *)
(* the document from the index and the vector space -- not from Disk,    *)
(* where the old record stays -- and replies with the error.              *)
(***************************************************************************)
UpdateFind(r) ==
  /\ At(r, "u_find")
  /\ \/ /\ C(r).bitmap /\ C(r).idx # {}
        /\ rid' = [rid EXCEPT ![r] = Min(C(r).idx)]
        /\ Goto(r, "u_disk") /\ UNCHANGED <<col, op, name, nextId, started, createOk, search>>
     \/ /\ C(r).bitmap /\ C(r).idx = {}
        /\ op' = [op EXCEPT ![r] = "insert"]
        /\ Goto(r, "i_check") /\ UNCHANGED <<col, name, rid, nextId, started, createOk, search>>
     \/ ~C(r).bitmap /\ Reply(r) /\ UNCHANGED Rest

UpdateDisk(r) ==
  /\ At(r, "u_disk")
  /\ IF rid[r] \in C(r).disk THEN Skip(r, "u_remove") ELSE Reply(r) /\ UNCHANGED Rest

\* indexes[name].Remove(id, old metadata), then .Add(id, new metadata).
UpdateRemove(r) ==
  /\ At(r, "u_remove")
  /\ IF C(r).bitmap THEN Step(r, "u_add", [idx |-> C(r).idx \ {rid[r]}])
     ELSE Reply(r) /\ UNCHANGED Rest

UpdateAdd(r) ==
  /\ At(r, "u_add")
  /\ IF C(r).bitmap THEN Step(r, "u_vec", [idx |-> C(r).idx \cup {rid[r]}])
     ELSE Reply(r) /\ UNCHANGED Rest

UpdateVector(r) ==
  /\ At(r, "u_vec")
  /\ IF C(r).space THEN Step(r, "u_put", [vec |-> C(r).vec \cup {rid[r]}])
     ELSE Reply(r) /\ UNCHANGED Rest

\* Disk.Put of the record under "name_id".
UpdatePut(r) ==
  /\ At(r, "u_put")
  /\ \/ Answer(r, [disk |-> C(r).disk \cup {rid[r]}])
     \/ DiskPutMayFail /\ Skip(r, "u_undo")

UpdateUndoIndex(r) ==
  /\ At(r, "u_undo")
  /\ IF C(r).bitmap THEN Step(r, "u_undo_vec", [idx |-> C(r).idx \ {rid[r]}])
     ELSE Reply(r) /\ UNCHANGED Rest

\* RemoveVector, then the error reply.
UpdateUndoVector(r) == At(r, "u_undo_vec") /\ Answer(r, [vec |-> C(r).vec \ {rid[r]}])

(***************************************************************************)
(* Delete: PureSearch for the id, Disk.Get and Disk.Delete, index Remove, *)
(* RemoveVector, Disk.Delete again; each error is replied at once.        *)
(***************************************************************************)
DeleteFind(r) ==
  /\ At(r, "x_find")
  /\ IF C(r).bitmap /\ C(r).idx # {}
     THEN /\ rid' = [rid EXCEPT ![r] = Min(C(r).idx)]
          /\ Goto(r, "x_disk") /\ UNCHANGED <<col, op, name, nextId, started, createOk, search>>
     ELSE Reply(r) /\ UNCHANGED Rest

DeleteDisk(r) ==
  /\ At(r, "x_disk")
  /\ \/ /\ rid[r] \in C(r).disk
        /\ Step(r, "x_idx", [disk |-> C(r).disk \ {rid[r]}])
     \/ /\ rid[r] \notin C(r).disk \/ DiskDeleteMayFail
        /\ Reply(r) /\ UNCHANGED Rest

DeleteIndex(r) ==
  /\ At(r, "x_idx")
  /\ IF C(r).bitmap THEN Step(r, "x_vec", [idx |-> C(r).idx \ {rid[r]}])
     ELSE Reply(r) /\ UNCHANGED Rest

\* Mutant: the vector is left in the space.
DeleteVectorKeep(r) ==
  /\ At(r, "x_vec")
  /\ IF C(r).space THEN Step(r, "x_disk2", [vec |-> C(r).vec])
     ELSE Reply(r) /\ UNCHANGED Rest

\* RemoveVector: ErrCollectionNotFound when the space is gone.
DeleteVector(r) ==
  /\ At(r, "x_vec")
  /\ IF C(r).space THEN Step(r, "x_disk2", [vec |-> C(r).vec \ {rid[r]}])
     ELSE Reply(r) /\ UNCHANGED Rest

\* Disk.Delete of "name_id" once more, then the reply: it removes a record
\* that a concurrent Update put back since the first Disk.Delete.
DeleteDiskAgain(r) ==
  /\ At(r, "x_disk2")
  /\ \/ Answer(r, [disk |-> C(r).disk \ {rid[r]}])
     \/ DiskDeleteMayFail /\ Reply(r) /\ UNCHANGED Rest

(***************************************************************************)
(* VectorSearch, FilterSearch and HybridSearch.  The goroutine sends its  *)
(* replies on c (capacity 1); the RPC handler receives the first one and  *)
(* returns.  An error while fetching a hit, and a FullScan error, are     *)
(* sent without a return: the goroutine carries on (after a FullScan      *)
(* error rs is nil and the loop over rs.ids panics, so recover() sends    *)
(* once more), and finally sends the success reply.  A send on a full c   *)
(* whose handler has returned blocks for ever.                            *)
(***************************************************************************)
Send(r, v) == chan[r] = "empty" /\ chan' = [chan EXCEPT ![r] = v]

\* FullScan(topK): the min(topK, len) nearest vectors of the space.
Nearest(S) == {T \in SUBSET S : Cardinality(T) = IF Cardinality(S) < TopK THEN Cardinality(S) ELSE TopK}

\* VectorStore.FullScan: an absent space is an error, sent on c without a
\* return, so the goroutine goes on to range over a nil rs and panics.
\* getDist then reads the distance of the Datas entry; with no entry it
\* dereferences a nil *EdgeData, and recover() sends the panic.
FullScan(r, next) ==
  \/ /\ ~C(r).space
     /\ Send(r, "err") /\ Goto(r, "s_panic")
     /\ UNCHANGED <<col, op, name, rid, nextId, started, createOk, answered, todo, rlocks>>
  \/ /\ C(r).space /\ ~C(r).datas
     /\ Send(r, "err") /\ Goto(r, "s_exit")
     /\ UNCHANGED <<col, op, name, rid, nextId, started, createOk, answered, todo, rlocks>>
  \/ /\ C(r).space /\ C(r).datas
     /\ \E T \in Nearest(C(r).vec) : todo' = [todo EXCEPT ![r] = T]
     /\ Goto(r, next)
     /\ UNCHANGED <<col, op, name, rid, nextId, started, createOk, chan, answered, rlocks>>

\* VectorSearch: FullScan(topK), then the loop over rs.ids.
VectorScan(r) == At(r, "v_scan") /\ FullScan(r, "s_loop")

\* HybridSearch: FullScan(topK) and the score map, then the merge.
HybridScan(r) == At(r, "h_scan") /\ FullScan(r, "h_merge")

\* The bitmap index of the collection, under the indexLock RLock, keeps
\* the ids of S it matches with the filter.  A missing index is a nil
\* dereference between RLock and RUnlock: recover() sends the error and
\* the read lock is never released.
IndexFilter(r, S) ==
  \/ /\ ~C(r).bitmap
     /\ Send(r, "err") /\ Goto(r, "s_exit") /\ rlocks' = rlocks + 1
     /\ UNCHANGED <<col, op, name, rid, nextId, started, createOk, answered, todo>>
  \/ /\ C(r).bitmap
     /\ \E T \in SUBSET S : todo' = [todo EXCEPT ![r] = T]
     /\ Goto(r, "s_loop")
     /\ UNCHANGED <<col, op, name, rid, nextId, started, createOk, chan, answered, rlocks>>

\* FilterSearch: indexes[name].PureSearch(filter).
FilterIndex(r) == At(r, "f_scan") /\ IndexFilter(r, C(r).idx)

\* HybridSearch: indexes[name].SearchWitCandidates(candidates, filter).
HybridMerge(r) == At(r, "h_merge") /\ IndexFilter(r, todo[r] \cap C(r).idx)

\* One iteration of the loop over the hits: with skip, a Euclidean hit
\* with a score above 100 may be passed over; otherwise Disk.Get, whose
\* error is sent on c without leaving the loop.  After the loop the
\* success reply.
FetchLoop(r, skip) ==
  /\ At(r, "s_loop")
  /\ \/ /\ todo[r] # {}
        /\ LET n == Min(todo[r]) IN
           /\ todo' = [todo EXCEPT ![r] = @ \ {n}]
           /\ \/ n \in C(r).disk /\ UNCHANGED chan
              \/ n \notin C(r).disk /\ Send(r, "err")
              \/ skip /\ UNCHANGED chan
        /\ UNCHANGED <<pc, col, op, name, rid, nextId, started, createOk, answered, rlocks>>
     \/ /\ todo[r] = {}
        /\ Send(r, "ok") /\ Goto(r, "s_exit")
        /\ UNCHANGED <<col, op, name, rid, nextId, started, createOk, answered, todo, rlocks>>

\* VectorSearch's loop: Euclidean hits above 100 are skipped.
VectorFetch(r) == op[r] = "vsearch" /\ FetchLoop(r, Euclidean)

\* FilterSearch's loop: every candidate is fetched, with score 100.
FilterFetch(r) == op[r] = "fsearch" /\ FetchLoop(r, FALSE)

\* HybridSearch's loop: Euclidean hits above 100 are skipped; the sort
\* and the truncation to topK change only the order and length of the
\* reply.
HybridFetch(r) == op[r] = "hsearch" /\ FetchLoop(r, Euclidean)

\* The panic of range rs.ids on a nil rs, sent by recover().
SearchPanic(r) ==
  /\ At(r, "s_panic")
  /\ Send(r, "err") /\ Goto(r, "s_exit")
  /\ UNCHANGED <<col, op, name, rid, nextId, started, createOk, answered, todo, rlocks>>

\* res := <-c; return res.Result, res.Error
SearchReceive(r) ==
  /\ op[r] \in Searches /\ pc[r] # "idle" /\ ~answered[r] /\ chan[r] # "empty"
  /\ chan' = [chan EXCEPT ![r] = "empty"] /\ answered' = [answered EXCEPT ![r] = TRUE]
  /\ UNCHANGED <<col, pc, op, name, rid, nextId, started, createOk, todo, rlocks>>

\* The goroutine has returned and the handler has answered the RPC.
SearchDone(r) ==
  /\ At(r, "s_exit") /\ answered[r]
  /\ Goto(r, "idle")
  /\ chan' = [chan EXCEPT ![r] = "empty"] /\ answered' = [answered EXCEPT ![r] = FALSE]
  /\ UNCHANGED <<col, op, name, rid, nextId, started, createOk, todo, rlocks>>

-----------------------------------------------------------------------------
\* A search goroutine whose handler has returned while c is full: its next
\* send blocks for ever.
Leaked(r) == answered[r] /\ chan[r] # "empty" /\ pc[r] # "s_exit"

\* A ReleaseCollection waiting for indexLock.Lock behind a read lock that
\* is never released.
Stuck(r) == At(r, "r_evict") /\ rlocks > 0

\* Nothing is left to do: every RPC has been answered and the bound on RPCs
\* is spent, or every request slot holds a leaked search goroutine or a
\* Release stuck on the index lock, which stay blocked.
Done ==
  /\ \A r \in Reqs : pc[r] = "idle" \/ Leaked(r) \/ Stuck(r)
  /\ started = MaxRequests \/ \A r \in Reqs : Leaked(r) \/ Stuck(r)
  /\ UNCHANGED vars

\* One step of the handler goroutine of RPC r.
Handler(r) ==
       \/ ExistsCheck(r) \/ LoadedCheck(r) \/ GetReply(r)
       \/ CreateVsCheck(r) \/ CreateVsSet(r) \/ CreateIndex(r) \/ CreateFlags(r)
       \/ CreateAuth(r) \/ CreateCommitFail(r) \/ CreateCommit(r) \/ CreateConfig(r)
       \/ DropAuth(r) \/ DropChecker(r) \/ DropVs(r) \/ DropIndex(r) \/ DropDisk(r)
       \/ LoadConfig(r) \/ LoadIndex(r) \/ LoadData(r) \/ LoadFlags(r)
       \/ ReleaseCommit(r) \/ ReleaseEvict(r) \/ ReleaseSpace(r) \/ ReleaseFlags(r)
       \/ FlushCommit(r)
       \/ InsertAdd(r) \/ InsertVector(r) \/ InsertDisk(r) \/ InsertUndoIndex(r) \/ InsertUndoVector(r)
       \/ UpdateFind(r) \/ UpdateDisk(r) \/ UpdateRemove(r) \/ UpdateAdd(r) \/ UpdateVector(r)
       \/ UpdatePut(r) \/ UpdateUndoIndex(r) \/ UpdateUndoVector(r)
       \/ DeleteFind(r) \/ DeleteDisk(r) \/ DeleteIndex(r) \/ DeleteVector(r) \/ DeleteDiskAgain(r)
       \/ VectorScan(r) \/ HybridScan(r) \/ FilterIndex(r) \/ HybridMerge(r)
       \/ VectorFetch(r) \/ FilterFetch(r) \/ HybridFetch(r) \/ SearchPanic(r)
       \/ SearchReceive(r) \/ SearchDone(r)

Next == (\E r \in Reqs : Start(r) \/ Handler(r)) \/ Done

Spec == Init /\ [][Next]_vars

-----------------------------------------------------------------------------
Labels == {"idle"} \cup {First[o] : o \in RPCs} \cup {AfterExists[o] : o \in RPCs} \cup
          {"c_vsset", "c_index", "c_flags", "c_auth", "c_commit", "c_config",
           "dc_checker", "dc_vs", "dc_index", "dc_disk", "l_cfg", "l_index", "l_data", "l_flags",
           "r_commit", "r_evict", "r_space", "r_flags", "fl_commit", "i_add", "i_vec", "i_disk", "i_undo",
           "i_undo_vec", "u_find", "u_disk", "u_remove", "u_add", "u_vec", "u_put", "u_undo",
           "u_undo_vec", "v_scan", "f_scan", "h_scan", "h_merge", "s_loop", "s_panic", "s_exit", "x_find", "x_disk", "x_idx", "x_vec", "x_disk2"}

TypeOK ==
  /\ col \in [Names -> [checker : BOOLEAN, loadchecker : BOOLEAN, auth : BOOLEAN, datas : BOOLEAN,
                        space : BOOLEAN, bitmap : BOOLEAN, cfg : BOOLEAN, savedIdx : SUBSET Ids,
                        idx : SUBSET Ids, vec : SUBSET Ids, disk : SUBSET Ids]]
  /\ pc \in [Reqs -> Labels] /\ op \in [Reqs -> RPCs] /\ name \in [Reqs -> Names]
  /\ rid \in [Reqs -> {0} \cup Ids] /\ nextId \in 1 .. MaxIds + 1
  /\ started \in 0 .. MaxRequests /\ createOk \in [Names -> Nat]
  /\ chan \in [Reqs -> {"empty", "ok", "err"}] /\ answered \in [Reqs -> BOOLEAN]
  /\ todo \in [Reqs -> SUBSET Ids] /\ rlocks \in 0 .. MaxRequests

\* No RPC that changes collection n is in flight (searches only read).
Quiet(n) == \A r \in Reqs : pc[r] = "idle" \/ name[r] # n \/ op[r] \in Searches

\* The lifecycle states the three flag maps are meant to encode, with the
\* in-memory stores each implies.
Unregistered(c) == ~c.checker /\ ~c.loadchecker /\ ~c.auth /\ ~c.datas /\ ~c.space /\ ~c.bitmap
Loaded(c) == c.checker /\ c.loadchecker /\ c.auth /\ c.datas /\ c.space /\ c.bitmap /\ c.cfg
Released(c) == c.checker /\ ~c.loadchecker /\ ~c.auth /\ ~c.datas /\ ~c.space /\ ~c.bitmap /\ c.cfg

\* Whenever no RPC on a collection is in flight, its flags, its Datas entry,
\* its vector space, its bitmap index and its config file describe one
\* lifecycle state (unregistered, loaded or released) -- the state machine
\* the three maps of stateManager stand for.  Broken by a handler that
\* returns between its updates, or by two handlers interleaving theirs:
\* one RPC at a time with HelpersMayFail, CreateCollection's error paths
\* after the flags are set break it (edge.go:212).
RegistryConsistent == \A n \in Names : Quiet(n) =>
  Unregistered(col[n]) \/ Loaded(col[n]) \/ Released(col[n])

\* Whenever no RPC on a collection is in flight, every vector in its
\* vector space has its record on Disk.  A search fetches every hit from
\* Disk, and each hit without a record costs an error send on c.
VectorsOnDisk == \A n \in Names : Quiet(n) => col[n].vec \subseteq col[n].disk

\* Whenever no RPC on a collection is in flight, every document on Disk is
\* in the bitmap index -- the one in memory, or the committed file when
\* the index is not loaded.  Delete finds a document only through
\* PureSearch on that index, so a document outside it can never be
\* deleted, and LoadData brings it back into the vector space.
IndexCoversDisk == \A n \in Names : Quiet(n) =>
  col[n].disk \subseteq (IF col[n].bitmap THEN col[n].idx ELSE col[n].savedIdx)

\* Whenever no RPC on a loaded collection is in flight, its bitmap index,
\* its vector space and Disk hold the same documents: Insert, Update and
\* Delete change the three stores in turn, Release commits the index and
\* LoadCollection rebuilds the index from its file and the space from
\* Disk.  An index entry without a record makes FilterSearch send a
\* Disk.Get error; a record outside the space is never a search hit.
\* One RPC at a time with DiskDeleteMayFail, a DeleteCollection that
\* stops at a failing Disk.Delete leaves records that a re-created
\* collection of that name then holds on Disk only.
StoresAgree == \A n \in Names : Quiet(n) /\ col[n].space /\ col[n].bitmap =>
  col[n].idx = col[n].disk /\ col[n].vec = col[n].disk

\* No search goroutine is left blocked for ever: whenever the handler has
\* received its reply and returned, the goroutine has no send left to do.
\* Broken when the goroutine sends on c more than twice -- the sends after
\* an error that are not followed by a return.
NoLeakedSearch == \A r \in Reqs : ~Leaked(r)

\* CreateCollection succeeds at most once for a name between two
\* DeleteCollections: the spec says it errors if the name exists.
CreateReportsExisting == \A n \in Names : createOk[n] <= 1
=============================================================================
