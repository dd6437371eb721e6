-------------------------------- MODULE Wire --------------------------------
(***************************************************************************)
(* Encoded values as builder.c writes them and val.c reads them.  A value  *)
(* is a run of cells: a leaf or a key is one cell, an object or array is a *)
(* cell followed by the cells of its members.  A cell has its kind (the    *)
(* type byte), its field (the length it carries), the bytes it really      *)
(* takes (those of its members not included) and its offset.               *)
(***************************************************************************)
EXTENDS Integers, Sequences

Cell(kind, field, bytes) == [kind |-> kind, field |-> field, bytes |-> bytes, at |-> 0]
Shift(c, offset) == [c EXCEPT !.at = @ + offset]
NoSize == -1     (* the length of a container nobody has written yet       *)

Containers == {"OBJ", "ARRAY"}

(* What a kind takes besides the length it carries, in bytes.              *)
Overhead == [NULL |-> 1, TRU |-> 1, FALS |-> 1,
             INT1 |-> 2, INT2 |-> 3, INT4 |-> 5, INT8 |-> 9,
             STR1 |-> 3, STR2 |-> 4, STR4 |-> 6, KEY1 |-> 3, KEY2 |-> 4,
             DEC |-> 2, UUID |-> 17, TIME |-> 9, OBJ |-> 5, ARRAY |-> 5]
Kinds == DOMAIN Overhead
Sized == Containers \cup {"STR1", "STR2", "STR4", "KEY1", "KEY2", "DEC"}

(* Seeded defect: the zero byte after a text not counted.                  *)
BSizeNoZero(c) == IF c.kind \in {"STR1", "STR2", "STR4"}
                  THEN Overhead[c.kind] + c.field - 1
                  ELSE Overhead[c.kind] + (IF c.kind \in Sized THEN c.field ELSE 0)

(* opo_val_bsize: what a reader takes the size of a value to be.           *)
BSize(c) == Overhead[c.kind] + (IF c.kind \in Sized THEN c.field ELSE 0)

(* The callback that gets a leaf or a key.                                 *)
Callback(kind) == CASE kind = "NULL" -> "null"
                    [] kind \in {"TRU", "FALS"} -> "boolean"
                    [] kind \in {"INT1", "INT2", "INT4", "INT8"} -> "fixnum"
                    [] kind \in {"STR1", "STR2", "STR4"} -> "string"
                    [] kind \in {"KEY1", "KEY2"} -> "key"
                    [] kind = "DEC" -> "decimal"
                    [] kind = "UUID" -> "uuid"
                    [] kind = "TIME" -> "time"
Begins(kind) == IF kind = "OBJ" THEN "begin_object" ELSE "begin_array"
Ends(kind) == IF kind = "OBJ" THEN "end_object" ELSE "end_array"

(* The encodings: a null, a number or a time; the text of a string with    *)
(* its length in one, two or four bytes and a zero byte; the same for a    *)
(* key, with at most two bytes for the length; the text of a double; a     *)
(* byte of a uuid for every two of the digits fill_uuid knows, 0-9 and a-f.*)
Fixed(kind) == Cell(kind, 0, Overhead[kind])
StrCell(n) == CASE n <= 255 -> Cell("STR1", n, n + 3)
                [] 255 < n /\ n <= 65535 -> Cell("STR2", n, n + 4)
                [] OTHER -> Cell("STR4", n, n + 6)
KeyCell(n) == IF n <= 255 THEN Cell("KEY1", n, n + 3)
                          ELSE Cell("KEY2", n % 65536, n + 4)
DecCell(n) == Cell("DEC", n, n + 2)
UuidCell(digits) == Cell("UUID", 0, 1 + digits \div 2)
=============================================================================
