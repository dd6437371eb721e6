------------------------------ MODULE Convert ------------------------------
(***************************************************************************)
(* src/opo/opo.c: an ojc tree made into a message, opo_ojc_to_msg, and the *)
(* message made into a tree again, opo_msg_to_ojc.                         *)
(*                                                                         *)
(* A tree is the sequence of its values in the order they are written,     *)
(* each with the position of its parent.  A value has its type; what it    *)
(* says, n: the whole number, the double, the length of a text, the        *)
(* instant a time text means, in nanoseconds; the form of its text; and    *)
(* the length of its key, which stands for the key.  A message is a        *)
(* sequence of the cells of Wire, each with what it says.  malloc does not *)
(* fail.                                                                   *)
(***************************************************************************)
EXTENDS Wire, FiniteSets

CONSTANTS Plain, Leaves,    (* leaves trees have: [type, form, n]          *)
          KeyLengths,       (* lengths of the keys                         *)
          Max1, Max2, Max4, (* the largest int8_t, int16_t and int32_t     *)
          Max8,             (* the largest int64_t                         *)
          Doubles,          (* the doubles; the length of the text that is *)
          DecLen, Rounded,  (* written of one, the double the text reads as *)
          MaxDepth,         (* OPO_MSG_MAX_DEPTH                           *)
          MaxValues,        (* bound: how many values a tree has           *)
          MaxVaried         (* bound: of how many values the trees with    *)
                            (* other leaves than the Plain ones are        *)

(* The leaves of ojc: a number that does not fit an int64_t and a word are *)
(* kept as their text.  A text is a uuid; a time as strftime writes it; a  *)
(* time skewed, with a month, day, hour, minute or second out of its range *)
(* that timegm makes an instant of all the same; or any other.             *)
OjcLeaves == [type : {"NULL", "TRUE", "FALSE"}, form : {"none"}, n : {0}]
             \cup [type : {"FIXNUM"}, form : {"none"}, n : -Max8 - 1 .. Max8]
             \cup [type : {"DECIMAL"}, form : {"none"}, n : Doubles]
             \cup [type : {"NUMBER", "WORD", "STRING"}, form : {"text"}, n : Nat]
             \cup [type : {"STRING"}, form : {"uuid", "time", "skewed"}, n : Int]

ASSUME ConvertAssumption == /\ \A k \in KeyLengths : k \in Nat /\ k <= 65535
                            /\ {Max1, Max2, Max4, Max8} \subseteq Nat
                            /\ Max1 < Max2 /\ Max2 < Max4 /\ Max4 < Max8
                            /\ Plain \cup Leaves \subseteq OjcLeaves
                            /\ Doubles \subseteq Nat /\ DecLen \in [Doubles -> Nat]
                            /\ Rounded \in [Doubles -> Doubles]
                            /\ MaxDepth \in Nat \ {0}
                            /\ MaxVaried <= MaxValues

VARIABLES phase,      (* who is at work                                    *)
          tree,       (* the tree to convert                               *)
          wire, w,    (* the message so far, and where it ends             *)
          next, open, (* the value to write; the objects and arrays being  *)
                      (* written: [value, at], at its place in wire        *)
          val, stack, key, (* where the reader is; parents: [value, end]   *)
          made,       (* the tree made from the message                    *)
          err

writer == <<wire, w, next, open>>
reader == <<val, stack, key, made, err>>
vars == <<phase, tree, writer, reader>>

Id == 8               (* the bytes before the value, for the message id    *)
NoKey == -1
Branches == {"OBJECT", "ARRAY"}
Value(v, k, parent) == [type |-> v.type, form |-> v.form, n |-> v.n, key |-> k, parent |-> parent]
Branch(type) == [type |-> type, form |-> "none", n |-> 0]
Item(cell, form, n) == [cell |-> cell, form |-> form, n |-> n]

Init == /\ phase = "grow"
        /\ tree = <<>>
        /\ wire = <<>> /\ w = Id /\ next = 1 /\ open = <<>>
        /\ val = Id /\ stack = <<>> /\ key = NoKey
        /\ made = <<>>
        /\ err = "OK"
-----------------------------------------------------------------------------
(* The ojc library (external): the caller's tree, a value at a time.       *)

(* A value and those it is in.                                             *)
Around[i \in 0 .. Len(tree)] == IF i = 0 THEN {} ELSE {i} \cup Around[tree[i].parent]

InObjectAt(i) == i # 0 /\ tree[i].type = "OBJECT"
Varied == \E i \in DOMAIN tree : \E v \in Leaves : Value(tree[i], NoKey, 0) = Value(v, NoKey, 0)
Places == IF tree = <<>> THEN {0} ELSE {i \in Around[Len(tree)] : tree[i].type \in Branches}

Grow == /\ phase = "grow"
        /\ Len(tree) < IF Varied THEN MaxVaried ELSE MaxValues
        /\ \E parent \in Places :
             \E k \in IF InObjectAt(parent) THEN KeyLengths ELSE {NoKey},
                v \in Plain \cup {Branch(b) : b \in Branches} \cup (IF Len(tree) < MaxVaried THEN Leaves ELSE {}) :
                  tree' = Append(tree, Value(v, k, parent))
        /\ UNCHANGED <<phase, writer, reader>>

Convert == /\ phase = "grow"
           /\ tree # <<>>
           /\ phase' = "write"
           /\ UNCHANGED <<tree, writer, reader>>
-----------------------------------------------------------------------------
(* Two's complement in one, two, four or eight bytes.                      *)
Maximum == [INT1 |-> Max1, INT2 |-> Max2, INT4 |-> Max4, INT8 |-> Max8]
Unsigned(n, max) == n % (2 * max + 2)

(* detect_uuid; time_parse, which looks at no range, takes the instant     *)
(* modulo 2^64 and has one instant, NO_TIME, for what is not a time.       *)
IsUuid(v) == v.form = "uuid"
NoTime == 2 * Max8 + 1
IsTime(v) == v.form \in {"time", "skewed"} /\ Unsigned(v.n, Max8) # NoTime
TextLen(v) == CASE v.form = "uuid" -> 36
                [] v.form \in {"time", "skewed"} -> 30
                [] OTHER -> v.n

(* isize_bytes                                                             *)
ISizeBytes(n) == CASE n \in -Max1 - 1 .. Max1 -> 1
                   [] n \in (-Max2 - 1 .. Max2) \ (-Max1 - 1 .. Max1) -> 2
                   [] n < -Max4 - 1 \/ n > Max4 -> 8
                   [] OTHER -> 4

(* Seeded defect: 256 taken for a length of one byte.                      *)
SizeBytesOff(n) == CASE n <= 256 -> 1
                     [] 256 < n /\ n <= 65535 -> 2
                     [] OTHER -> 4

(* size_bytes, of lengths up to four bytes                                 *)
SizeBytes(n) == CASE n <= 255 -> 1
                  [] 255 < n /\ n <= 65535 -> 2
                  [] OTHER -> 4

(* wire_size of a value without its members, and of a key.                 *)
OwnSize(v) == 1 + CASE v.type \in {"NULL", "TRUE", "FALSE"} -> 0
                    [] IsUuid(v)          -> 16
                    [] IsTime(v)          -> 8
                    [] v.type = "FIXNUM"  -> ISizeBytes(v.n)
                    [] v.type = "DECIMAL" -> DecLen[v.n] + 1
                    [] v.type \in Branches -> 4
                    [] OTHER -> TextLen(v) + SizeBytes(TextLen(v)) + 1
KeySize(k) == IF k = NoKey THEN 0 ELSE k + SizeBytes(k) + 2

(* wire_size: of the first values of the tree, and of all of them.         *)
SizeOf[i \in 0 .. Len(tree)] ==
    IF i = 0 THEN 0 ELSE SizeOf[i - 1] + OwnSize(tree[i]) + KeySize(tree[i].key)
WireSize == SizeOf[Len(tree)]

(* The bytes opo_ojc_msg_size promises and opo_ojc_to_msg allocates.       *)
MsgSize == WireSize + Id

(* Seeded defect: the sign not restored.                                   *)
SignLost(n, max) == n

Signed(n, max) == IF n > max THEN n - 2 * max - 2 ELSE n
IntKind(n) == CASE ISizeBytes(n) = 1 -> "INT1"
                [] ISizeBytes(n) = 2 -> "INT2"
                [] ISizeBytes(n) = 4 -> "INT4"
                [] ISizeBytes(n) = 8 -> "INT8"

(* wire_fill of a value without its members.  A double is written in       *)
(* digits, of which the reader makes a double again.                       *)
Filled(v) == CASE v.type = "NULL"    -> Item(Fixed("NULL"), "none", 0)
               [] v.type = "TRUE"    -> Item(Fixed("TRU"), "none", 0)
               [] v.type = "FALSE"   -> Item(Fixed("FALS"), "none", 0)
               [] IsUuid(v)          -> Item(UuidCell(32), v.form, v.n)
               [] IsTime(v)          -> Item(Fixed("TIME"), "time", Unsigned(v.n, Max8))
               [] v.type = "FIXNUM"  -> Item(Fixed(IntKind(v.n)), v.form, Unsigned(v.n, Maximum[IntKind(v.n)]))
               [] v.type = "DECIMAL" -> Item(DecCell(DecLen[v.n]), v.form, Rounded[v.n])
               [] v.type = "OBJECT"  -> Item(Cell("OBJ", NoSize, 5), "none", 0)
               [] v.type = "ARRAY"   -> Item(Cell("ARRAY", NoSize, 5), "none", 0)
               [] OTHER -> Item(StrCell(TextLen(v)), v.form, v.n)
KeyItem(k) == Item(KeyCell(k), "key", k)

Innermost(s) == s[Len(s)]
Outer(s) == SubSeq(s, 1, Len(s) - 1)
MemberNext == /\ next <= Len(tree)
              /\ open # <<>> => tree[next].parent = Innermost(open).value

(* The message and where it ends with a key written, if there is one.      *)
Placed(item, at) == [item EXCEPT !.cell.at = at]
Keyed(k) == IF k = NoKey THEN wire ELSE Append(wire, Placed(KeyItem(k), w))
Behind(k) == IF k = NoKey THEN w ELSE w + KeyCell(k).bytes

(* A value is written, behind its key when it is a member of an object.    *)
Fill == /\ phase = "write"
        /\ MemberNext
        /\ LET v == tree[next]
           IN  /\ wire' = Append(Keyed(v.key), Placed(Filled(v), Behind(v.key)))
               /\ w' = Behind(v.key) + Filled(v).cell.bytes
               /\ open' = IF v.type \in Branches
                          THEN Append(open, [value |-> next, at |-> Len(wire')])
                          ELSE open
        /\ next' = next + 1
        /\ UNCHANGED <<phase, tree, reader>>

(* The last member is written: the size goes in.                           *)
FillSize == /\ phase = "write"
            /\ open # <<>> /\ ~MemberNext
            /\ LET at == Innermost(open).at
               IN  wire' = [wire EXCEPT ![at].cell.field = w - (wire[at].cell.at + 1) - 4]
            /\ open' = Outer(open)
            /\ UNCHANGED <<phase, tree, w, next, reader>>

Written == /\ phase = "write"
           /\ open = <<>> /\ next > Len(tree)
           /\ phase' = "read"
           /\ UNCHANGED <<tree, writer, reader>>
-----------------------------------------------------------------------------
(* opo_val_to_ojc *)

End == Id + BSize(wire[1].cell)
Reading == phase = "read" /\ err = "OK" /\ val < End
Here == {wire[i] : i \in {j \in DOMAIN wire : wire[j].cell.at = val}}

(* Seeded defect: a parent left one byte late.                             *)
SurroundingLate == IF stack # <<>> /\ Innermost(stack).end < val THEN Outer(stack) ELSE stack

(* At most one parent is left before a key or a value is read.             *)
Surrounding == IF stack # <<>> /\ Innermost(stack).end <= val THEN Outer(stack) ELSE stack

(* push_parse_value, with the parents s                                    *)
InObject(s) == s # <<>> /\ made[Innermost(s).value].type = "OBJECT"
Attach(v, s) == IF InObject(s) /\ key = NoKey
                THEN /\ err' = "missing key"
                     /\ UNCHANGED <<made, key>>
                ELSE /\ made' = Append(made, Value(v, IF InObject(s) THEN key ELSE NoKey,
                                                   IF s = <<>> THEN 0 ELSE Innermost(s).value))
                     /\ key' = IF InObject(s) THEN NoKey ELSE key
                     /\ err' = err

(* The ojc value of a leaf's cell: numbers get their sign back; a time is  *)
(* taken without one, and its text is written anew.                        *)
Parsed(item) ==
    LET kind == item.cell.kind
    IN  CASE kind = "NULL" -> [type |-> "NULL", form |-> "none", n |-> 0]
          [] kind = "TRU"  -> [type |-> "TRUE", form |-> "none", n |-> 0]
          [] kind = "FALS" -> [type |-> "FALSE", form |-> "none", n |-> 0]
          [] kind \in DOMAIN Maximum -> [type |-> "FIXNUM", form |-> "none", n |-> Signed(item.n, Maximum[kind])]
          [] kind = "DEC"  -> [type |-> "DECIMAL", form |-> "none", n |-> item.n]
          [] OTHER         -> [type |-> "STRING", form |-> item.form, n |-> item.n]

ReadKey == /\ Reading
           /\ \E item \in Here : /\ item.cell.kind \in {"KEY1", "KEY2"}
                                 /\ key' = item.n
                                 /\ val' = val + BSize(item.cell)
           /\ stack' = Surrounding
           /\ UNCHANGED <<phase, tree, writer, made, err>>

ReadLeaf == /\ Reading
            /\ \E item \in Here : /\ item.cell.kind \notin Containers \cup {"KEY1", "KEY2"}
                                  /\ Attach(Parsed(item), Surrounding)
                                  /\ val' = val + BSize(item.cell)
            /\ stack' = Surrounding
            /\ UNCHANGED <<phase, tree, writer>>

(* An object or array; its members come next.                              *)
ReadBranch ==
    /\ Reading
    /\ Len(Surrounding) < MaxDepth
    /\ \E item \in Here :
         /\ item.cell.kind \in Containers
         /\ Attach(Branch(IF item.cell.kind = "OBJ" THEN "OBJECT" ELSE "ARRAY"), Surrounding)
         /\ stack' = IF err' = "OK"
                     THEN Append(Surrounding, [value |-> Len(made'), end |-> val + BSize(item.cell)])
                     ELSE Surrounding
    /\ val' = val + 5
    /\ UNCHANGED <<phase, tree, writer>>

ReadTooDeep == /\ Reading
               /\ Len(Surrounding) >= MaxDepth
               /\ \E item \in Here : item.cell.kind \in Containers
               /\ err' = "too deeply nested"
               /\ val' = val + 1
               /\ stack' = Surrounding
               /\ UNCHANGED <<phase, tree, writer, key, made>>

ReadDone == /\ phase = "read"
            /\ ~(err = "OK" /\ val < End)
            /\ phase' = "done"
            /\ UNCHANGED <<tree, writer, reader>>
-----------------------------------------------------------------------------
Next == \/ Grow \/ Convert
        \/ Fill \/ FillSize \/ Written
        \/ ReadKey \/ ReadLeaf \/ ReadBranch \/ ReadTooDeep \/ ReadDone

Spec == Init /\ [][Next]_vars
-----------------------------------------------------------------------------
(* What the buffer is allocated for is what is written: never a byte past  *)
(* its end and, with every size written, not a byte less; and it is what a *)
(* reader, and the client that sends it, take the message's size to be.    *)
SizesAgree == /\ phase = "write" => w <= MsgSize
              /\ phase \in {"read", "done"} => w = MsgSize /\ End = MsgSize

(* The values the reader has to leave before value i: those around the one *)
(* before it and not around it.                                            *)
Left(i) == {j \in Around[i - 1] : tree[j].type \in Branches} \ Around[i]

(* The reader leaves one of them when it reads a key, one when a value.    *)
NestingKept == \A i \in 2 .. Len(tree) :
                  Cardinality(Left(i)) <= IF tree[i].key = NoKey THEN 1 ELSE 2
Shallow == \A i \in DOMAIN tree : tree[i].type \in Branches => Cardinality(Around[i]) <= MaxDepth

(* What does not survive the wire: a double that needs more digits than    *)
(* are written; a time not written as strftime would, before 1970, or too  *)
(* late for 64 bits of nanoseconds.                                        *)
Altered(v) == \/ v.type = "DECIMAL" /\ Rounded[v.n] # v.n
              \/ IsTime(v) /\ (v.form = "skewed" \/ v.n \notin 0 .. NoTime)

(* Big numbers and words come back as strings.                             *)
AsRead(v) == IF v.type \in {"NUMBER", "WORD"} THEN [v EXCEPT !.type = "STRING"] ELSE v
Source == [i \in DOMAIN tree |-> AsRead(tree[i])]

(* A tree comes back as it went, exactly if at no place more values end    *)
(* than the reader leaves, it is not too deep and no value in it is one    *)
(* that does not survive.                                                  *)
BackAsItWent == phase = "done" =>
                   (made = Source /\ err = "OK" <=> /\ NestingKept /\ Shallow
                                                   /\ \A i \in DOMAIN tree : ~Altered(tree[i]))

(* Even in a wrong place no value is lost or made up, unless the reader    *)
(* gives up, which it tells; and none is changed but those that do not     *)
(* survive, which stay doubles or times.                                   *)
ValuesKept == /\ Len(made) <= Len(tree)
              /\ \A i \in DOMAIN made :
                    /\ made[i].type = Source[i].type
                    /\ \/ made[i].form = Source[i].form /\ made[i].n = Source[i].n
                       \/ Altered(tree[i]) /\ made[i].form \in {"none", "time"}
              /\ phase = "done" /\ err = "OK" => Len(made) = Len(tree)
=============================================================================
