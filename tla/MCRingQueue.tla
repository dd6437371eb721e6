---------------------------- MODULE MCRingQueue ----------------------------
(* Instances of RingQueue for TLC.                                         *)
EXTENDS RingQueue

CONSTANTS c1, c2

MCTwo == {c1, c2}
=============================================================================
