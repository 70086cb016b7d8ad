-------------------------- MODULE MCCatchTransport --------------------------
(***************************************************************************)
(* Instances of CatchTransport for TLC.                                    *)
(***************************************************************************)
EXTENDS CatchTransport, TLC

(* setItem always works. *)
SavesWork == {TRUE}

Symmetric == Permutations(Event) \union Permutations(Call)
=============================================================================
