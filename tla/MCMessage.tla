----------------------------- MODULE MCMessage -----------------------------
(* Instances of Message for TLC.                                           *)
EXTENDS Message, Walks

MCLeaves == {UuidCell(32), StrCell(1004)}
MCKeys == {0, 3, 300}
MCValues == {[cells |-> <<Cell("ARRAY", 6, 5), Shift(Fixed("TRU"), 5), Shift(DecCell(3), 6)>>,
              calls |-> <<"begin_array", "boolean", "decimal", "end_array">>]}
MCBoth == {TRUE, FALSE}
MCAnswers == {"on", "stop", "err"}
MCAll == {Callback(k) : k \in Kinds \ Containers} \cup
         {"begin_object", "end_object", "begin_array", "end_array"}
MCHeard == {MCAll, MCAll \ {"begin_array", "null", "key"}}

(* What the theorems of MessageProofs take of keys and values: the keys    *)
(* fit, and the value that is pushed is an encoded one: a walk through it. *)
MCPlace(cell, ends, at, open) == [cell |-> cell, ends |-> ends, pos |-> at, open |-> open]
MCWalk == [n \in 0 .. 4 |-> << MCPlace(0, FALSE, 0, <<>>), MCPlace(1, FALSE, 5, <<1>>),
                               MCPlace(2, FALSE, 6, <<1>>), MCPlace(3, FALSE, 11, <<1>>),
                               MCPlace(1, TRUE, 11, <<>>) >>[n + 1]]
ASSUME MCHonest == /\ \A key \in MCKeys : key <= 65535
                   /\ \A v \in MCValues : EncodedBy(v, MCWalk) /\ OneValue(v)
=============================================================================
