-------------------------- MODULE MCAnalyticsQueue --------------------------
(***************************************************************************)
(* Instances of AnalyticsQueue for TLC: which stores the pages reach,      *)
(* and the symmetry of the operations and of the flush calls.              *)
(***************************************************************************)
EXTENDS AnalyticsQueue, TLC

CONSTANTS t1, t2

(* Both pages reach IndexedDB, as in an ordinary browser. *)
BothIdb == t1 :> {IndexedDB} @@ t2 :> {IndexedDB}

(* One page whose transactions fail now and then. *)
FlakyIdb == t1 :> {IndexedDB, t1}

Symmetric == Permutations(Op) \union Permutations(Call)
=============================================================================
