--------------------------- MODULE MCAsyncClient ---------------------------
(* Instances of AsyncClient for TLC.                                       *)
EXTENDS AsyncClient, TLC

CONSTANTS k1, k2, k3, p1, p2

MCTwoCallers == {k1, k2}
MCThreeCallers == {k1, k2, k3}
MCOneProcessor == {p1}
MCTwoProcessors == {p1, p2}
Symmetry == Permutations({k1, k2, k3}) \cup Permutations({p1, p2})
=============================================================================
