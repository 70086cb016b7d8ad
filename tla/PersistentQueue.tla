-------------------------- MODULE PersistentQueue --------------------------
(***************************************************************************)
(* The record store behind every durable queue of the SDK                  *)
(* (packages/browser/src/storage.ts).  The IndexedDB object store and its  *)
(* in-memory stand-in behave alike: each numbers its rows with an          *)
(* auto-increment key of its own that starts at 1 and is never reused, a   *)
(* bounded read returns the rows with the smallest keys, and a delete      *)
(* removes whatever rows carry the given keys.                             *)
(*                                                                         *)
(* A row keeps its key, so the order of the rows is the order of the keys  *)
(* and the rows can be a set.                                              *)
(***************************************************************************)
EXTENDS Naturals, FiniteSets

Row(Value) == [id : Nat \ {0}, value : Value]

Store(Value) == [next : Nat \ {0}, rows : SUBSET Row(Value)]

(* Mutant: keys are counted from 0. *)
EmptyStoreFromZero == [next |-> 0, rows |-> {}]

EmptyStore == [next |-> 1, rows |-> {}]

(* add: append the value under the next key. *)
Add(s, v) ==
  [next |-> s.next + 1,
   rows |-> s.rows \union {[id |-> s.next, value |-> v]}]

(* Mutant: the rows with the largest keys are read. *)
GetAllNewest(s, limit) ==
  {r \in s.rows :
      Cardinality({q \in s.rows : q.id > r.id}) < limit}

(* getAll(limit): the `limit` rows with the smallest keys. *)
GetAll(s, limit) ==
  {r \in s.rows :
      Cardinality({q \in s.rows : q.id < r.id}) < limit}

(* deleteMany(ids): drop the rows that carry one of the keys. *)
DeleteMany(s, ids) ==
  [s EXCEPT !.rows = {r \in @ : r.id \notin ids}]

Ids(rows) == {r.id : r \in rows}
Values(rows) == {r.value : r \in rows}
=============================================================================
