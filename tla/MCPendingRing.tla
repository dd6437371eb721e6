--------------------------- MODULE MCPendingRing ---------------------------
(* Instances of PendingRing for TLC.                                       *)
EXTENDS PendingRing, TLC

CONSTANTS k1, k2, p1, p2

MCCallers == {k1, k2}
MCOne == {p1}
MCTwo == {p1, p2}
MCFunction == {TRUE}
MCAny == {TRUE, FALSE}
Symmetry == Permutations(Callers)
=============================================================================
