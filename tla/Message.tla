------------------------------ MODULE Message ------------------------------
(***************************************************************************)
(* A message built with opo_builder and read with opo_val_iterate: what    *)
(* the two promise each other.                                             *)
(***************************************************************************)
EXTENDS Builder

CONSTANTS Answers, Heard

VARIABLES set, pos, frames, fresh, cont, err, events

Reader == INSTANCE Reader

reader == <<set, pos, frames, fresh, cont, err, events>>
vars == <<builder, reader>>

MessageInit == Init /\ Reader!Init
MessageNext == \/ Build /\ UNCHANGED reader
               \/ Reader!Read /\ UNCHANGED builder

Spec == MessageInit /\ [][MessageNext]_vars
-----------------------------------------------------------------------------
Junk(cs) == \E i \in DOMAIN cs : cs[i].kind = "JUNK"
Taken == msg # <<>> /\ pos = 0 /\ ~Junk(msg)
Finished == msg = <<>> /\ cells # <<>> /\ stack = <<>>
AsHeard(s) == LET heard[n \in 0 .. Len(s)] ==
                      IF n = 0 THEN <<>>
                      ELSE IF s[n] \in set THEN Append(heard[n - 1], s[n]) ELSE heard[n - 1]
              IN  heard[Len(s)]
Prefix(s, t) == Len(s) <= Len(t) /\ s = SubSeq(t, 1, Len(s))

(* The message stays inside its buffer, but for the arrays just opened one *)
(* after the other, five bytes each: opo_builder_push_array does not ask   *)
(* for room, and every call that does makes good for them.                 *)
JustOpened == {i \in DOMAIN cells : \A j \in i .. Len(cells) : cells[j].kind = "ARRAY"}
WithinBuffer == cells # <<>> => cur < end + 5 * Cardinality(JustOpened)

(* The stack has the starts of the open values, outermost first, wherever  *)
(* the buffer has moved.                                                   *)
StackPoints == /\ \A i \in DOMAIN stack :
                     \E j \in DOMAIN cells : /\ cells[j].at = stack[i]
                                             /\ cells[j].kind \in {opened[i], "JUNK"}
                                             /\ cells[j].field = NoSize
               /\ \A i, j \in DOMAIN stack : i < j => stack[i] < stack[j]

(* A finished message is exactly as long as a reader takes it to be, which *)
(* is how the client knows how much to send and where to cut the stream.   *)
SizeAgrees == Finished /\ ~Junk(cells) => MsgBSize(cells) = cur

(* The members of the container c, found without a walk: values inside c   *)
(* and inside no other container in c.                                     *)
Inside(d, c) == c.at < d.at /\ d.at < c.at + 5 + c.field
Members(c) == {i \in DOMAIN msg :
                 /\ Inside(msg[i], c)
                 /\ msg[i].kind \notin {"KEY1", "KEY2"}
                 /\ ~\E j \in DOMAIN msg : /\ msg[j].kind \in Containers
                                           /\ Inside(msg[j], c) /\ Inside(msg[i], msg[j])}

(* opo_val_member_count, which walks an object two values at a time, finds *)
(* every member: keys are there for all members of objects and for none of *)
(* an array.                                                               *)
CountsMembers == Taken => \A i \in DOMAIN msg :
                            msg[i].kind \in Containers =>
                                Reader!MemberCount(msg[i]) = Cardinality(Members(msg[i]))

(* The path of a value, found upwards: the key it has in an object, the    *)
(* index it has in an array, behind the path of what it is in.             *)
KeyPart(n) == [key |-> n, index |-> Reader!NoIndex]
IndexPart(i) == [key |-> 1, index |-> i]
Around(i) == {j \in DOMAIN msg : msg[j].kind \in Containers /\ i \in Members(msg[j])}
Part(i, j) == IF msg[j].kind = "OBJ" THEN KeyPart(msg[i - 1].field)
              ELSE IndexPart(Cardinality({m \in Members(msg[j]) : m < i}))
PathTo[i \in Nat] == IF Around(i) = {} THEN <<>>
                     ELSE LET j == CHOOSE j \in Around(i) : TRUE IN Append(PathTo[j], Part(i, j))

(* A key given twice in an object hides the later member and all in it, as *)
(* does the empty key: a path ends at an empty part.                       *)
Visible[i \in Nat] ==
    \A j \in Around(i) : /\ Visible[j] /\ Part(i, j).key # 0
                         /\ \A m \in Members(msg[j]) : m < i => Part(m, j) # Part(i, j)

(* The member i of the container j is what a part of a path asks for; a    *)
(* digit may also be the key of a member.                                  *)
Asked(part, i, j) == IF msg[j].kind = "OBJ" THEN part.key = Part(i, j).key
                     ELSE part.index = Part(i, j).index
Leads(part, j) == msg[j].kind \in Containers /\ \E i \in Members(msg[j]) : Asked(part, i, j)

(* opo_val_get finds every value under its path, the first of those that   *)
(* have the same, and nothing under a path that no value has.              *)
FoundByPath ==
    LET values == {i \in DOMAIN msg : msg[i].kind \notin {"KEY1", "KEY2"} /\ Visible[i]}
        parts == {KeyPart(n) : n \in KeyLengths \ {0}} \cup {IndexPart(n) : n \in 0 .. 2}
    IN  Taken => \A i \in values :
                    /\ Reader!Get(PathTo[i]) = msg[i].at
                    /\ \A part \in parts : ~Leads(part, i) =>
                           Reader!Get(Append(PathTo[i], part)) = Reader!Nowhere

(* The iteration never leaves the boundaries of the values.                *)
ReaderOnBoundary == Reader!GoesOn => Reader!Here # {}

(* What comes out of a message is what went in, in the same order: the     *)
(* whole of it, or what comes before a callback that said stop.            *)
ReadsBack == ~err => /\ Prefix(events, AsHeard(calls))
                     /\ pos > Id /\ frames = <<>> /\ cont => events = AsHeard(calls)

(* Once an answer that is looked at was stop no callback is made, not even *)
(* those for the ends of the open values.                                  *)
StopEnds == [][~cont => events' = events]_vars

(* A buffer that grew too large was replaced by one the builder owns.      *)
GrownIsOwned == msg = <<>> /\ end > Room => own
=============================================================================
