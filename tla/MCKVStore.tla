----------------------------- MODULE MCKVStore -----------------------------
(***************************************************************************)
(* KVStore instantiated for TLC: two keys, one in each partition when     *)
(* there are two, and the refinement of the abstract map KVSpec.           *)
(***************************************************************************)
EXTENDS KVStore

CONSTANTS k1, k2

MCKeyPartition == [k \in Keys |-> IF k = k1 THEN 0 ELSE PartitionNum - 1]

KV == INSTANCE KVSpec WITH store <- Visible,
                           last <- [n |-> commits, writes |-> lastWrites]

(***************************************************************************)
(* DB.Get, as seen by a caller, behaves as the abstract map.  A commit   *)
(* of Put(k, v) or Delete(k) makes Get(k) answer v or ErrKeyNotFound and  *)
(* changes no other answer; a Batch commit does so for all its keys in   *)
(* one step (spec P4); rotations, flushes, a blocked writer, Close, a     *)
(* crash and the recovery of Open change no answer at all.               *)
(***************************************************************************)
KVSpecRefined == KV!Spec
=============================================================================
