------------------------------ MODULE KVSpec ------------------------------
(***************************************************************************)
(* What the key-value engine of src/kv promises its callers: a map from   *)
(* keys to values in which a committed Put makes Get return the value and *)
(* a committed Delete makes Get report ErrKeyNotFound (here NoValue), and *)
(* a committed Batch does both for all its keys in one step (spec P4).    *)
(* last records the latest write and how many writes there have been, so  *)
(* that a write changes exactly the keys written, to the values written,  *)
(* and nothing else changes what Get returns.  The engine (KVStore) is    *)
(* shown to implement this specification with the value DB.Get would     *)
(* return for every key as the refinement mapping of store.               *)
(***************************************************************************)
EXTENDS Naturals

CONSTANTS Keys, Values, NoValue

ASSUME NoValue \notin Values

VARIABLES store, last

vars == <<store, last>>

\* The writes of one commit: a new value for each of a nonempty set of keys.
Writes == UNION {[S -> Values \cup {NoValue}] : S \in SUBSET Keys \ {{}}}

TypeOK ==
  /\ store \in [Keys -> Values \cup {NoValue}]
  /\ last \in [n : Nat, writes : Writes \cup {[k \in {} |-> NoValue]}]

Init ==
  /\ store = [k \in Keys |-> NoValue]
  /\ last = [n |-> 0, writes |-> [k \in {} |-> NoValue]]

\* w gives the new value of each key it writes, NoValue for a Delete.
Write(w) ==
  /\ last' = [n |-> last.n + 1, writes |-> w]
  /\ store' = [k \in Keys |-> IF k \in DOMAIN w THEN w[k] ELSE store[k]]

Put(k, v) == Write([x \in {k} |-> v])

Delete(k) == Write([x \in {k} |-> NoValue])

Batch(w) == Write(w)

Next ==
  \/ \E k \in Keys : Delete(k) \/ \E v \in Values : Put(k, v)
  \/ \E w \in Writes : Batch(w)

Spec == Init /\ [][Next]_vars
=============================================================================
