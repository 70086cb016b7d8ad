--------------------------- MODULE MCCatchClient ---------------------------
(***************************************************************************)
(* An instance of CatchClient for TLC: the sizes a handshake may give the  *)
(* ring, below, at and above its least capacity.                           *)
(***************************************************************************)
EXTENDS CatchClient

Resizes == {0, 2}
=============================================================================
