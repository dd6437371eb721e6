---------------------------- MODULE BoundedFifo ----------------------------
(***************************************************************************)
(* What queue.c promises its users: a first-in first-out channel with room *)
(* for Capacity items.  Items are named by their rank in push order, which *)
(* is all that order, loss and duplication can be about.                   *)
(***************************************************************************)
EXTENDS Naturals, Sequences

CONSTANTS Capacity,  (* how many items fit                                 *)
          MaxItems   (* bound: how many items are ever put                 *)

VARIABLES sent,      (* number of items put so far                         *)
          buf,       (* the items in transit, oldest first                 *)
          got        (* the items taken so far, in the order taken         *)

vars == <<sent, buf, got>>

Init == /\ sent = 0
        /\ buf = <<>>
        /\ got = <<>>

Put == /\ sent < MaxItems
       /\ Len(buf) < Capacity
       /\ sent' = sent + 1
       /\ buf' = Append(buf, sent + 1)
       /\ UNCHANGED got

Take == /\ buf # <<>>
        /\ got' = Append(got, Head(buf))
        /\ buf' = Tail(buf)
        /\ UNCHANGED sent

Next == Put \/ Take

Spec == Init /\ [][Next]_vars
=============================================================================
