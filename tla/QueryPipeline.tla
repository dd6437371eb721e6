--------------------------- MODULE QueryPipeline ---------------------------
(***************************************************************************)
(* What the client promises the users of opo_client_query: up to Capacity  *)
(* queries are outstanding, and they finish one by one in the order they   *)
(* were issued, each with the answer to itself or with an error that says  *)
(* its answer is lost.  Queries are named by their rank, 1, 2, 3, ...      *)
(***************************************************************************)
EXTENDS Integers, Sequences

CONSTANTS Capacity,    (* how many queries may be outstanding              *)
          MaxQueries   (* bound: how many queries are ever issued          *)

VARIABLES issued,      (* number of queries issued so far                  *)
          ready,       (* outcomes awaiting their callback, oldest first   *)
          done         (* outcomes handed to callbacks, oldest first       *)

vars == <<issued, ready, done>>

(* The outcome of query k: k for its own answer, -m when the answer to a   *)
(* later query m came in its place.                                        *)
Outcome(k) == {[id |-> k, resp |-> r] : r \in {k} \cup {-m : m \in k + 1 .. issued}}

Init == /\ issued = 0
        /\ ready = <<>>
        /\ done = <<>>

Issue == /\ issued < MaxQueries
         /\ issued < Len(done) + Capacity
         /\ issued' = issued + 1
         /\ UNCHANGED <<ready, done>>

Resolve == LET k == Len(done) + Len(ready) + 1
           IN  /\ k <= issued
               /\ \E o \in Outcome(k) : ready' = Append(ready, o)
               /\ UNCHANGED <<issued, done>>

Finish == /\ ready # <<>>
          /\ done' = Append(done, Head(ready))
          /\ ready' = Tail(ready)
          /\ UNCHANGED issued

Next == Issue \/ Resolve \/ Finish

Spec == Init /\ [][Next]_vars
=============================================================================
