------------------------------ MODULE Builder ------------------------------
(***************************************************************************)
(* src/opo/builder.c: a message is built in one pass into a buffer that    *)
(* grows, with the offsets of the open objects and arrays on a stack and   *)
(* their sizes written when they are closed.  A call that is refused       *)
(* reports it in err and changes nothing: it is an action not enabled.     *)
(* malloc and realloc do not fail here, and a builder whose message was    *)
(* taken is not used again.                                                *)
(***************************************************************************)
EXTENDS Wire, FiniteSets

CONSTANTS MaxDepth,   (* OPO_MSG_MAX_DEPTH                                 *)
          Room,       (* the size of the first buffer                      *)
          Increment,  (* MSG_INC                                           *)
          Owners,     (* who may own that buffer: TRUE is the builder,     *)
                      (* FALSE the caller of opo_builder_init              *)
          KeyLengths, (* lengths of the keys callers pass                  *)
          Leaves,     (* the leaves callers push                           *)
          Values,     (* the encoded values callers push                   *)
          MaxCells    (* bound: how many cells a message has               *)

(* Cells as callers push them, with their sizes and where they are from    *)
(* the beginning of the value.                                             *)
Pushable == [kind : Kinds, field : Nat, bytes : Nat \ {0}, at : Nat]

ASSUME BuilderAssumption == /\ MaxDepth \in Nat \ {0}
                            /\ Room \in Nat /\ 8 < Room
                            /\ Increment \in Nat /\ 4 <= Increment
                            /\ Owners \subseteq BOOLEAN
                            /\ KeyLengths \subseteq Nat
                            /\ Leaves \subseteq Pushable
                            /\ \A leaf \in Leaves : /\ leaf.at = 0
                                                    /\ leaf.kind \notin Containers \cup {"KEY1", "KEY2"}
                            /\ \A v \in Values : /\ v.cells \in Seq(Pushable) \ {<<>>}
                                                /\ v.cells[1].at = 0
                            /\ MaxCells \in Nat

VARIABLES cells,      (* the message so far                                *)
          cur, end,   (* offsets from head                                 *)
          own,
          stack,      (* the stack, up to top                              *)
          msg,        (* the message taken, or none                        *)
          opened,     (* history: the kinds of the values on the stack     *)
          calls       (* history: what was pushed and closed, in order     *)

buffer == <<cells, cur, end>>
history == <<opened, calls>>
builder == <<buffer, own, stack, msg, history>>

Id == 8               (* the bytes before the value, for the message id    *)
NoKey == -1

Init == /\ cells = <<>>
        /\ cur = Id
        /\ end = Room
        /\ own \in Owners
        /\ stack = <<>>
        /\ msg = <<>>
        /\ opened = <<>> /\ calls = <<>>
-----------------------------------------------------------------------------
(* The buffer *)

(* Seeded defect: a new buffer without what the old one held.              *)
AssuredEmpty(b, size) ==
    IF b.end > b.cur + size THEN b
    ELSE [b EXCEPT !.end = @ + Increment + size,
                   !.cells = [i \in DOMAIN @ |-> [@[i] EXCEPT !.kind = "JUNK"]]]

(* builder_assure.  A buffer the builder does not own is replaced by a new *)
(* one, and what was in it is not copied: the cells are then whatever the  *)
(* new memory holds.                                                       *)
Assured(b, size) ==
    IF b.end > b.cur + size THEN b
    ELSE [b EXCEPT !.end = @ + Increment + size,
                   !.cells = IF own THEN @ ELSE [i \in DOMAIN @ |-> [@[i] EXCEPT !.kind = "JUNK"]]]

(* The bytes of cells appended at cur.                                     *)
Filled(b, cs, size) ==
    [b EXCEPT !.cells = @ \o [i \in DOMAIN cs |-> Shift(cs[i], b.cur)], !.cur = @ + size]

(* builder_push_key, for a call that has a key.                            *)
Keyed(key) == LET b == [cells |-> cells, cur |-> cur, end |-> end]
              IN  IF key = NoKey THEN b
                  ELSE Filled(Assured(b, key + 4), <<KeyCell(key)>>, KeyCell(key).bytes)

Becomes(b) == /\ cells' = b.cells /\ cur' = b.cur /\ end' = b.end
              /\ Len(b.cells) <= MaxCells

Called(key, what) == calls' = calls \o (IF key = NoKey THEN <<>> ELSE <<"key">>) \o what
-----------------------------------------------------------------------------
(* What a reader of the buffer finds at the start of the innermost open    *)
(* value.                                                                  *)
Top == stack[Len(stack)]
TopKind(kind) == \E i \in DOMAIN cells : cells[i].at = Top /\ cells[i].kind \in {kind, "JUNK"}

(* Seeded defect: the kind of the open value not looked at.                *)
MayPushUnchecked(key) == IF stack = <<>> THEN cur <= Id /\ key = NoKey ELSE TRUE

(* check_key: one value at the root and no key for it, keys for the        *)
(* members of objects and of nothing else.                                 *)
MayPush(key) == IF stack = <<>> THEN cur <= Id /\ key = NoKey
                ELSE IF key = NoKey THEN TopKind("ARRAY") ELSE TopKind("OBJ")

(* Seeded defect: a string asks for room for its text only.                *)
NeedShort(c) == IF c.kind \in {"STR1", "STR2", "STR4"} THEN c.field ELSE BSize(c)

(* builder_assure for a leaf: a string of any length asks for the most its *)
(* length may take.                                                        *)
Need(c) == IF c.kind \in {"STR1", "STR2", "STR4"} THEN c.field + 6 ELSE BSize(c)

PushLeaf(leaf, key) ==
    /\ msg = <<>>
    /\ MayPush(key)
    /\ Becomes(Filled(Assured(Keyed(key), Need(leaf)), <<leaf>>, leaf.bytes))
    /\ Called(key, <<Callback(leaf.kind)>>)
    /\ UNCHANGED <<own, stack, msg, opened>>

(* The bytes of an encoded value are copied.                               *)
PushVal(v, key) ==
    LET size == BSize(v.cells[1])
    IN  /\ msg = <<>>
        /\ MayPush(key)
        /\ Becomes(Filled(Assured(Keyed(key), size), v.cells, size))
        /\ Called(key, v.calls)
        /\ UNCHANGED <<own, stack, msg, opened>>

(* Seeded defect: the start taken before the key is written.               *)
OpenBeforeKey(kind, key) == /\ msg = <<>>
                            /\ Len(stack) <= MaxDepth
                            /\ MayPush(key)
                            /\ stack' = Append(stack, cur)
                            /\ opened' = Append(opened, kind)
                            /\ Called(key, <<Begins(kind)>>)
                            /\ UNCHANGED <<own, msg>>

(* A value opened: its start goes on the stack, which takes one more than  *)
(* MaxDepth.                                                               *)
Open(kind, key) == /\ msg = <<>>
                   /\ Len(stack) <= MaxDepth
                   /\ MayPush(key)
                   /\ stack' = Append(stack, Keyed(key).cur)
                   /\ opened' = Append(opened, kind)
                   /\ Called(key, <<Begins(kind)>>)
                   /\ UNCHANGED <<own, msg>>

PushObject(key) == /\ Open("OBJ", key)
                   /\ Becomes(Filled(Assured(Keyed(key), 5), <<Cell("OBJ", NoSize, 5)>>, 5))

(* opo_builder_push_array writes its five bytes without asking for room.   *)
PushArray(key) == /\ Open("ARRAY", key)
                  /\ Becomes(Filled(Keyed(key), <<Cell("ARRAY", NoSize, 5)>>, 5))
-----------------------------------------------------------------------------
(* Seeded defect: the size of a value with its own five bytes.             *)
ClosedWithHead(offsets) ==
    [i \in DOMAIN cells |-> IF cells[i].at \in offsets
                            THEN [cells[i] EXCEPT !.field = cur - cells[i].at] ELSE cells[i]]

(* The sizes of the open values at these offsets written.                  *)
Closed(offsets) ==
    [i \in DOMAIN cells |-> IF cells[i].at \in offsets
                            THEN [cells[i] EXCEPT !.field = cur - cells[i].at - 5] ELSE cells[i]]

Pop == /\ msg = <<>>
       /\ stack # <<>>
       /\ cells' = Closed({Top})
       /\ stack' = SubSeq(stack, 1, Len(stack) - 1)
       /\ opened' = SubSeq(opened, 1, Len(opened) - 1)
       /\ calls' = Append(calls, Ends(opened[Len(opened)]))
       /\ UNCHANGED <<cur, end, own, msg>>

(* opo_builder_finish, alone or as the beginning of opo_builder_take.      *)
CloseAll == /\ stack' = <<>>
            /\ opened' = <<>>
            /\ calls' = calls \o [i \in DOMAIN opened |-> Ends(opened[Len(opened) + 1 - i])]
            /\ own' = own

Finish == /\ msg = <<>>
          /\ stack # <<>>
          /\ cells' = Closed({stack[i] : i \in DOMAIN stack})
          /\ CloseAll
          /\ UNCHANGED <<cur, end, msg>>

(* opo_msg_bsize of what is in the buffer.                                 *)
MsgBSize(cs) == BSize(cs[1]) + Id

(* The builder's own buffer becomes the message; of a caller's buffer as   *)
(* much is copied as the message says it is long.                          *)
Take == /\ msg = <<>>
        /\ cells # <<>>
        /\ LET done == Closed({stack[i] : i \in DOMAIN stack})
               copied == {i \in DOMAIN done : done[i].at < MsgBSize(done)}
           IN  msg' = IF own \/ cells[1].kind = "JUNK" THEN done
                      ELSE SubSeq(done, 1, Cardinality(copied))
        /\ CloseAll
        /\ cells' = <<>> /\ cur' = 0 /\ end' = 0

Build == \/ \E key \in KeyLengths \cup {NoKey} :
              \/ \E leaf \in Leaves : PushLeaf(leaf, key)
              \/ \E v \in Values : PushVal(v, key)
              \/ PushObject(key)
              \/ PushArray(key)
         \/ Pop
         \/ Finish
         \/ Take
=============================================================================
