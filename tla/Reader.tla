------------------------------- MODULE Reader -------------------------------
(***************************************************************************)
(* val_iterate of src/opo/val.c on the value of a message.  The recursion  *)
(* is a stack of frames, one for each running call, with the end of its    *)
(* range.  A callback lets the iteration go on, answers that it should     *)
(* stop, or sets err; one that is not set is not called.                   *)
(***************************************************************************)
EXTENDS Wire

CONSTANTS Answers,   (* what callbacks do: subset of {"on", "stop", "err"} *)
          Heard      (* sets of callbacks a caller may have set            *)

VARIABLES msg,       (* the message read                                   *)
          set,       (* the callbacks that are set                         *)
          pos,       (* val                                                *)
          frames,    (* the running calls, innermost last                  *)
          fresh,     (* the innermost call has not tested cont yet         *)
          cont, err,
          events     (* history: callbacks made                            *)

Init == /\ set = {} /\ pos = 0 /\ frames = <<>> /\ fresh = FALSE
        /\ cont = TRUE /\ err = FALSE
        /\ events = <<>>

(* opo_val_iterate: one value, at the offset the message id ends.          *)
Begin == /\ msg # <<>>
         /\ msg[1].kind # "JUNK"
         /\ frames = <<>>
         /\ pos = 0
         /\ set' \in Heard
         /\ pos' = 8
         /\ frames' = <<[kind |-> "TOP", end |-> 9]>>
         /\ fresh' = TRUE
         /\ UNCHANGED <<cont, err, events>>

Depth == Len(frames)
Frame == frames[Depth]
GoesOn == Depth > 0 /\ pos < Frame.end /\ (fresh \/ (cont /\ ~err))
Here == {i \in DOMAIN msg : msg[i].at = pos}

(* A callback made; its answer is looked at, or not.  An error stays.      *)
Tell(name, looked) ==
    IF name \in set
    THEN \E a \in Answers : /\ events' = Append(events, name)
                            /\ cont' = ~(looked /\ a = "stop")
                            /\ err' = (err \/ a = "err")
    ELSE UNCHANGED <<events, cont, err>>

(* A leaf or a key.  The answers of uuid and time are not looked at.       *)
Leaf == /\ GoesOn
        /\ \E i \in Here :
             /\ msg[i].kind \notin Containers
             /\ Tell(Callback(msg[i].kind), msg[i].kind \notin {"UUID", "TIME"})
             /\ pos' = pos + BSize(msg[i])
        /\ fresh' = FALSE
        /\ UNCHANGED <<set, frames>>

(* An object or array: its members are the range of a call of their own,   *)
(* unless begin_object or begin_array said to stop.                        *)
Descend == /\ GoesOn
           /\ \E i \in Here :
                /\ msg[i].kind \in Containers
                /\ Tell(Begins(msg[i].kind), TRUE)
                /\ IF cont'
                   THEN /\ frames' = Append(frames, [kind |-> msg[i].kind, end |-> pos + BSize(msg[i])])
                        /\ pos' = pos + 5
                        /\ fresh' = TRUE
                   ELSE /\ pos' = pos + 1
                        /\ fresh' = FALSE
                        /\ frames' = frames
           /\ set' = set

(* A call returns; the one below passes over the value and tells its end.  *)
Resume == /\ Depth > 1
          /\ ~GoesOn
          /\ frames' = SubSeq(frames, 1, Depth - 1)
          /\ pos' = Frame.end
          /\ fresh' = FALSE
          /\ set' = set

(* Seeded defect: the end told although the iteration was stopped.         *)
AscendAlways == Resume /\ Tell(Ends(Frame.kind), TRUE)

Ascend == /\ Resume
          /\ IF cont THEN Tell(Ends(Frame.kind), TRUE)
                     ELSE UNCHANGED <<events, cont, err>>

Return == /\ Depth = 1
          /\ ~GoesOn
          /\ frames' = <<>>
          /\ UNCHANGED <<set, pos, fresh, cont, err, events>>

Read == Begin \/ Leaf \/ Descend \/ Ascend \/ Return
-----------------------------------------------------------------------------
(* opo_val_next; where no value starts it is taken to go one byte on.      *)
Next(offset) == IF \E i \in DOMAIN msg : msg[i].at = offset
                THEN offset + BSize(msg[CHOOSE i \in DOMAIN msg : msg[i].at = offset])
                ELSE offset + 1

CellAt(offset) == msg[CHOOSE i \in DOMAIN msg : msg[i].at = offset]

(* opo_val_member_count of the container c: from opo_val_members on, one   *)
(* value or a key and a value at a time.                                   *)
MemberCount(c) ==
    LET count[offset \in Nat] ==
            IF c.at + BSize(c) <= offset THEN 0
            ELSE 1 + count[IF c.kind = "OBJ" THEN Next(Next(offset)) ELSE Next(offset)]
    IN  count[c.at + 5]

(* val_key: the length of the key at an offset, 0 where there is none.     *)
ValKey(offset) == IF CellAt(offset).kind \in {"KEY1", "KEY2"} THEN CellAt(offset).field ELSE 0

(* opo_val_get.  A part of a path is a key, given by its length and never  *)
(* empty, and also an index when its text is a number.  The parts end at a *)
(* value that has no members, or not the one asked for.                    *)
NoIndex == -1
Nowhere == -1

(* Seeded defect: a key taken that only begins as the part does.           *)
SeekPrefix(c, part) ==
    LET end == c.at + BSize(c)
        member[offset \in Nat] ==
            IF end <= offset THEN Nowhere
            ELSE IF part.key <= ValKey(offset) THEN Next(offset)
            ELSE member[Next(Next(offset))]
        element[i \in Nat] ==
            IF i = 0 THEN c.at + 5
            ELSE IF end <= element[i - 1] THEN element[i - 1]
            ELSE Next(element[i - 1])
    IN  CASE c.kind = "OBJ" -> member[c.at + 5]
          [] c.kind = "ARRAY" /\ part.index # NoIndex /\ element[part.index] < end -> element[part.index]
          [] OTHER -> Nowhere

Seek(c, part) ==
    LET end == c.at + BSize(c)
        member[offset \in Nat] ==
            IF end <= offset THEN Nowhere
            ELSE IF ValKey(offset) = part.key THEN Next(offset)
            ELSE member[Next(Next(offset))]
        element[i \in Nat] ==
            IF i = 0 THEN c.at + 5
            ELSE IF end <= element[i - 1] THEN element[i - 1]
            ELSE Next(element[i - 1])
    IN  CASE c.kind = "OBJ" -> member[c.at + 5]
          [] c.kind = "ARRAY" /\ part.index # NoIndex /\ element[part.index] < end -> element[part.index]
          [] OTHER -> Nowhere

Get(path) == LET walk[n \in 0 .. Len(path)] ==
                     IF n = 0 THEN 8
                     ELSE IF walk[n - 1] = Nowhere THEN Nowhere
                     ELSE Seek(CellAt(walk[n - 1]), path[n])
             IN  walk[Len(path)]
=============================================================================
