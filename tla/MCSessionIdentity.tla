------------------------- MODULE MCSessionIdentity -------------------------
(* Tabs are interchangeable.                                               *)
EXTENDS SessionIdentity

CONSTANTS t1, t2, alice
MCTabs == {t1, t2}
MCUsers == {alice}
TabSymmetry == Permutations(MCTabs)
=============================================================================
