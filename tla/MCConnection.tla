--------------------------- MODULE MCConnection ---------------------------
(* Instances of Connection for TLC.                                        *)
EXTENDS Connection

MCStreams == {<<2, 5, 12>>, <<6, 8, 10>>, <<4, 7>>, <<7, 11>>}
MCShort == {<<3, 5>>}
MCBoth == {TRUE, FALSE}
MCSync == {FALSE}
=============================================================================
