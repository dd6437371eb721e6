---------------------------- MODULE ConvertProofs ----------------------------
(***************************************************************************)
(* Proofs about Convert: what becomes of an ojc tree that opo_ojc_to_msg   *)
(* makes a message of and opo_msg_to_ojc a tree again, for every tree.     *)
(*                                                                         *)
(* First what is written for one value and what is read from it; then that *)
(* the message holds the items of the tree's values one behind the other,  *)
(* with the sizes wire_size has for them; then that the reader is in front *)
(* of one of them and has made the values before it; and last what parents *)
(* the reader has there, on which depends where it puts the value.         *)
(***************************************************************************)
EXTENDS Convert, Induction, SequenceTheorems, FiniteSetTheorems

(* A value of a tree without its place in it, and with it.                 *)
OjcValue(v) == \/ [type |-> v.type, form |-> v.form, n |-> v.n] \in OjcLeaves
               \/ v.type \in Branches /\ v.form = "none" /\ v.n = 0
Types == {"NULL", "TRUE", "FALSE", "FIXNUM", "DECIMAL", "NUMBER", "WORD", "STRING"} \cup Branches
Forms == {"none", "text", "uuid", "time", "skewed"}
Keys == KeyLengths \cup {NoKey}
TreeValues == {v \in [type : Types, form : Forms, n : Int, key : Keys, parent : Nat] : OjcValue(v)}

(* The limits of numbers, and what a number written in a kind's bytes is.  *)
LEMMA Limits ==
  /\ Max1 \in Nat /\ Max2 \in Nat /\ Max4 \in Nat /\ Max8 \in Nat
  /\ Max1 < Max2 /\ Max2 < Max4 /\ Max4 < Max8
BY ConvertAssumption

(* A double, what it is written in and what it is read as.                 *)
LEMMA DoubleTyped ==
  ASSUME NEW d \in Doubles
  PROVE  d \in Nat /\ DecLen[d] \in Nat /\ Rounded[d] \in Nat
<1>1. Doubles \subseteq Nat /\ DecLen \in [Doubles -> Nat] /\ Rounded \in [Doubles -> Doubles]
  BY ConvertAssumption
<1> QED
  BY <1>1

(* A number of one remainder more than the other.                          *)
LEMMA OneMod ==
  ASSUME NEW n \in Int, NEW m \in Nat \ {0}, 0 <= n, n < m
  PROVE  n % m = n /\ (n - m) % m = n
OBVIOUS

(* A number that fits its kind gets back the sign it was written without.  *)
LEMMA SignKept ==
  ASSUME NEW max \in Nat, NEW n \in -max - 1 .. max
  PROVE  Unsigned(n, max) \in Nat /\ Signed(Unsigned(n, max), max) = n
<1>1. CASE n >= 0
  <2>1. n % (2 * max + 2) = n
    <3> DEFINE m == 2 * max + 2
    <3>1. m \in Nat \ {0} /\ 0 <= n /\ n < m
      BY <1>1
    <3> HIDE DEF m
    <3>2. n % m = n
      BY <3>1, OneMod
    <3> QED
      BY <3>2 DEF m
  <2> QED
    BY <1>1, <2>1 DEF Unsigned, Signed
<1>2. CASE n < 0
  <2>1. n % (2 * max + 2) = n + 2 * max + 2
    <3> DEFINE m == 2 * max + 2
               k == n + m
    <3>1. m \in Nat \ {0} /\ k \in Int /\ 0 <= k /\ k < m /\ k - m = n
      BY <1>2
    <3> HIDE DEF m, k
    <3>2. n % m = k
      BY <3>1, OneMod
    <3> QED
      BY <3>2 DEF m, k
  <2>2. n + 2 * max + 2 > max /\ n + 2 * max + 2 \in Nat
    BY <1>2
  <2> QED
    BY <1>2, <2>1, <2>2 DEF Unsigned, Signed
<1> QED
  BY <1>1, <1>2

(* An instant is kept modulo 2^64: as it is exactly if it is from 1970 on  *)
(* and not too late.                                                       *)
LEMMA TimeKept ==
  ASSUME NEW max \in Nat, NEW n \in Int
  PROVE  /\ Unsigned(n, max) \in 0 .. 2 * max + 1
         /\ n \in 0 .. 2 * max + 1 <=> Unsigned(n, max) = n
<1> DEFINE m == 2 * max + 2
<1>1. m \in Nat \ {0} /\ m - 1 = 2 * max + 1
  OBVIOUS
<1> HIDE DEF m
<1>2. n % m \in 0 .. m - 1
  BY <1>1
<1>3. n \in 0 .. m - 1 => n % m = n
  BY <1>1, OneMod
<1> QED
  BY <1>1, <1>2, <1>3 DEF m, Unsigned

(* The kind a number is written in has room for it.                        *)
LEMMA IntFits ==
  ASSUME NEW n \in -Max8 - 1 .. Max8
  PROVE  /\ IntKind(n) \in {"INT1", "INT2", "INT4", "INT8"}
         /\ Maximum[IntKind(n)] \in Nat /\ n \in -Maximum[IntKind(n)] - 1 .. Maximum[IntKind(n)]
         /\ ISizeBytes(n) = Overhead[IntKind(n)] - 1
<1>0. Max1 \in Nat /\ Max2 \in Nat /\ Max4 \in Nat /\ Max8 \in Nat
      /\ Max1 < Max2 /\ Max2 < Max4 /\ Max4 < Max8
  BY Limits
<1>1. CASE n \in -Max1 - 1 .. Max1
  <2>1. ISizeBytes(n) = 1
    BY <1>0, <1>1 DEF ISizeBytes
  <2>2. IntKind(n) = "INT1"
    BY <2>1 DEF IntKind
  <2> QED
    BY <1>0, <1>1, <2>1, <2>2 DEF Maximum, Overhead
<1>2. CASE n \in (-Max2 - 1 .. Max2) \ (-Max1 - 1 .. Max1)
  <2>1. ISizeBytes(n) = 2
    BY <1>0, <1>2 DEF ISizeBytes
  <2>2. IntKind(n) = "INT2"
    BY <2>1 DEF IntKind
  <2> QED
    BY <1>0, <1>2, <2>1, <2>2 DEF Maximum, Overhead
<1>3. CASE n < -Max4 - 1 \/ n > Max4
  <2>1. ISizeBytes(n) = 8
    BY <1>0, <1>3 DEF ISizeBytes
  <2>2. IntKind(n) = "INT8"
    BY <2>1 DEF IntKind
  <2> QED
    BY <1>0, <1>3, <2>1, <2>2 DEF Maximum, Overhead
<1>4. CASE n \notin -Max2 - 1 .. Max2 /\ ~(n < -Max4 - 1 \/ n > Max4)
  <2>1. ISizeBytes(n) = 4
    BY <1>0, <1>4 DEF ISizeBytes
  <2>2. IntKind(n) = "INT4"
    BY <2>1 DEF IntKind
  <2> QED
    BY <1>0, <1>4, <2>1, <2>2 DEF Maximum, Overhead
<1> QED
  BY <1>0, <1>1, <1>2, <1>3, <1>4

(* What a value written is, but for its place.                             *)
FilledAs(v) ==
    LET c == Filled(v).cell
    IN  /\ c.kind \in Kinds \ {"KEY1", "KEY2"} /\ c.field \in Nat \cup {NoSize} /\ c.bytes \in Nat \ {0}
        /\ c.bytes = OwnSize(v)
        /\ v.type \in Branches <=> c.kind \in Containers
        /\ v.type \in Branches => c.bytes = 5 /\ c.field = NoSize /\ (v.type = "OBJECT" <=> c.kind = "OBJ")
        /\ v.type \notin Branches => BSize(c) = c.bytes /\ c.field # NoSize

(* What is made of it again: what does not survive is not what it was.     *)
Same(m, v) == /\ m.type = AsRead(v).type
              /\ m.form = v.form /\ m.n = v.n <=> ~Altered(v)
              /\ Altered(v) => m.form \in {"none", "time"}

(* What is neither a double nor a time survives.                           *)
LEMMA Unaltered ==
  ASSUME NEW v, v.type # "DECIMAL", ~IsTime(v)
  PROVE  ~Altered(v)
BY DEF Altered

ParsedAs(v) == \A item : /\ item.cell.kind = Filled(v).cell.kind
                         /\ item.form = Filled(v).form /\ item.n = Filled(v).n
                         => Same(Parsed(item), v)

(* What the cells of numbers and of texts are.                             *)
LEMMA FixedIs ==
  ASSUME NEW kind \in Kinds
  PROVE  /\ Fixed(kind).kind = kind /\ Fixed(kind).field = 0 /\ Fixed(kind).bytes = Overhead[kind]
         /\ Overhead[kind] \in Nat \ {0}
         /\ kind \notin Sized => BSize(Fixed(kind)) = Overhead[kind]
BY DEF Fixed, Cell, Kinds, Overhead, BSize

(* A text of any length, with its length in one, two or four bytes.        *)
LEMMA TextIs ==
  ASSUME NEW n \in Nat
  PROVE  LET c == StrCell(n)
         IN  /\ c.kind \in {"STR1", "STR2", "STR4"} /\ c.field = n
             /\ c.bytes = 1 + n + SizeBytes(n) + 1 /\ c.bytes \in Nat \ {0} /\ BSize(c) = c.bytes
<1> DEFINE c == StrCell(n)
<1>1. SizeBytes(n) = IF n <= 255 THEN 1 ELSE IF n <= 65535 THEN 2 ELSE 4
  BY DEF SizeBytes
<1>2. /\ c.kind = IF n <= 255 THEN "STR1" ELSE IF n <= 65535 THEN "STR2" ELSE "STR4"
      /\ c.field = n /\ c.bytes = n + IF n <= 255 THEN 3 ELSE IF n <= 65535 THEN 4 ELSE 6
  BY DEF StrCell, Cell
<1> HIDE DEF c
<1>3. BSize(c) = c.bytes
  BY <1>2 DEF BSize, Overhead, Sized, Containers
<1> QED
  BY <1>1, <1>2, <1>3 DEF c

(* A text that is no uuid and no time.                                     *)
LEMMA StringFilled ==
  ASSUME NEW v \in TreeValues, v.type \in {"NUMBER", "WORD", "STRING"}, ~IsUuid(v), ~IsTime(v)
  PROVE  FilledAs(v) /\ ParsedAs(v)
<1>1. v.form \in {"text", "time", "skewed"} /\ TextLen(v) \in Nat /\ v.n \in Int /\ ~Altered(v)
  BY Unaltered DEF TreeValues, OjcValue, OjcLeaves, IsUuid, TextLen, Branches
<1>2. Filled(v) = Item(StrCell(TextLen(v)), v.form, v.n)
  BY DEF Filled
<1>3. OwnSize(v) = 1 + (TextLen(v) + SizeBytes(TextLen(v)) + 1)
  BY DEF OwnSize, Branches
<1> DEFINE n == TextLen(v)
           c == StrCell(n)
<1>4. c.kind \in {"STR1", "STR2", "STR4"} /\ c.field = n
      /\ c.bytes = 1 + n + SizeBytes(n) + 1 /\ c.bytes \in Nat \ {0} /\ BSize(c) = c.bytes
  BY <1>1, TextIs
<1>5. Filled(v).cell = c /\ Filled(v).form = v.form /\ Filled(v).n = v.n
  BY <1>2 DEF Item
<1>6. OwnSize(v) = 1 + (n + SizeBytes(n) + 1) /\ n \in Nat /\ SizeBytes(n) \in Nat
  <2>1. SizeBytes(n) = IF n <= 255 THEN 1 ELSE IF n <= 65535 THEN 2 ELSE 4
    BY <1>1 DEF SizeBytes
  <2> QED
    BY <1>1, <1>3, <2>1
<1> HIDE DEF c, n
<1>7. FilledAs(v)
  BY <1>4, <1>5, <1>6 DEF FilledAs, Kinds, Overhead, Containers, Branches, NoSize
<1>8. ASSUME NEW item, item.cell.kind = c.kind, item.form = v.form, item.n = v.n PROVE Same(Parsed(item), v)
  <2>1. Parsed(item) = [type |-> "STRING", form |-> item.form, n |-> item.n]
    BY <1>4, <1>8 DEF Parsed, Maximum
  <2>2. AsRead(v).type = "STRING"
    BY DEF AsRead, TreeValues
  <2> QED
    BY <1>1, <1>8, <2>1, <2>2 DEF Same
<1> QED
  BY <1>5, <1>7, <1>8 DEF ParsedAs

(* A uuid: its bytes.                                                      *)
LEMMA UuidFilled ==
  ASSUME NEW v \in TreeValues, v.type \in {"NUMBER", "WORD", "STRING"}, IsUuid(v)
  PROVE  FilledAs(v) /\ ParsedAs(v)
<1>1. v.form = "uuid" /\ v.n \in Int /\ v.type = "STRING" /\ ~Altered(v)
  BY Unaltered DEF TreeValues, OjcValue, OjcLeaves, IsUuid, IsTime, Branches
<1>2. Filled(v) = Item(UuidCell(32), v.form, v.n)
  BY <1>1 DEF Filled, IsTime
<1>3. OwnSize(v) = 17
  BY <1>1 DEF OwnSize, Branches, IsTime, IsUuid
<1>4. UuidCell(32) = [kind |-> "UUID", field |-> 0, bytes |-> 17, at |-> 0]
  BY DEF UuidCell, Cell
<1>5. Filled(v).cell = [kind |-> "UUID", field |-> 0, bytes |-> 17, at |-> 0]
      /\ Filled(v).form = v.form /\ Filled(v).n = v.n
  BY <1>2, <1>4 DEF Item
<1>6. FilledAs(v)
  BY <1>1, <1>3, <1>5 DEF FilledAs, Kinds, Overhead, Containers, Branches, NoSize, BSize, Sized
<1>7. ASSUME NEW item, item.cell.kind = "UUID", item.form = v.form, item.n = v.n PROVE Same(Parsed(item), v)
  <2>1. Parsed(item) = [type |-> "STRING", form |-> item.form, n |-> item.n]
    BY <1>7 DEF Parsed, Maximum
  <2>2. AsRead(v).type = "STRING"
    BY <1>1 DEF AsRead, TreeValues
  <2> QED
    BY <1>1, <1>7, <2>1, <2>2 DEF Same
<1> QED
  BY <1>5, <1>6, <1>7 DEF ParsedAs

(* A time, which comes back as strftime writes it, modulo 2^64.            *)
LEMMA TimeFilled ==
  ASSUME NEW v \in TreeValues, v.type \in {"NUMBER", "WORD", "STRING"}, IsTime(v)
  PROVE  FilledAs(v) /\ ParsedAs(v)
<1>1. v.form \in {"time", "skewed"} /\ v.n \in Int /\ v.type = "STRING"
  BY DEF TreeValues, OjcValue, OjcLeaves, IsTime, Branches
<1>2. Filled(v) = Item(Fixed("TIME"), "time", Unsigned(v.n, Max8))
  BY <1>1 DEF Filled, IsUuid
<1>3. OwnSize(v) = 9
  BY <1>1 DEF OwnSize, Branches, IsTime, IsUuid
<1>4. Fixed("TIME") = [kind |-> "TIME", field |-> 0, bytes |-> 9, at |-> 0]
  BY DEF Fixed, Cell, Overhead
<1>5. Filled(v).cell = [kind |-> "TIME", field |-> 0, bytes |-> 9, at |-> 0]
      /\ Filled(v).form = "time" /\ Filled(v).n = Unsigned(v.n, Max8)
  BY <1>2, <1>4 DEF Item
<1>6. FilledAs(v)
  BY <1>1, <1>3, <1>5 DEF FilledAs, Kinds, Overhead, Containers, Branches, NoSize, BSize, Sized
<1>7. Altered(v) <=> v.form = "skewed" \/ Unsigned(v.n, Max8) # v.n
  <2>1. v.n \in 0 .. NoTime <=> Unsigned(v.n, Max8) = v.n
    BY <1>1, Limits, TimeKept DEF NoTime
  <2> QED
    BY <1>1, <2>1 DEF Altered
<1>8. ASSUME NEW item, item.cell.kind = "TIME", item.form = "time", item.n = Unsigned(v.n, Max8)
      PROVE  Same(Parsed(item), v)
  <2>1. Parsed(item) = [type |-> "STRING", form |-> item.form, n |-> item.n]
    BY <1>8 DEF Parsed, Maximum
  <2>2. AsRead(v).type = "STRING"
    BY <1>1 DEF AsRead, TreeValues
  <2> QED
    BY <1>1, <1>7, <1>8, <2>1, <2>2 DEF Same
<1> QED
  BY <1>5, <1>6, <1>8 DEF ParsedAs

(* A number, in the fewest bytes that hold it.                             *)
LEMMA NumberFilled ==
  ASSUME NEW v \in TreeValues, v.type = "FIXNUM"
  PROVE  FilledAs(v) /\ ParsedAs(v)
<1>1. v.form = "none" /\ v.n \in -Max8 - 1 .. Max8 /\ ~Altered(v)
  BY Unaltered DEF TreeValues, OjcValue, OjcLeaves, IsTime, Branches
<1> DEFINE k == IntKind(v.n)
           max == Maximum[k]
<1>2. Filled(v) = Item(Fixed(k), v.form, Unsigned(v.n, max))
  BY <1>1 DEF Filled, IsUuid, IsTime
<1>3. OwnSize(v) = 1 + ISizeBytes(v.n)
  BY <1>1 DEF OwnSize, Branches, IsTime, IsUuid
<1>4. /\ k \in {"INT1", "INT2", "INT4", "INT8"}
      /\ max \in Nat /\ v.n \in -max - 1 .. max
      /\ ISizeBytes(v.n) = Overhead[k] - 1
  BY <1>1, IntFits
<1> HIDE DEF k
<1>5. k \in Kinds /\ k \notin Sized /\ k \notin Containers /\ k \notin {"KEY1", "KEY2"}
  BY <1>4 DEF Kinds, Sized, Containers, Overhead
<1>6. Fixed(k).kind = k /\ Fixed(k).field = 0 /\ Fixed(k).bytes = Overhead[k]
      /\ Overhead[k] \in Nat \ {0} /\ BSize(Fixed(k)) = Overhead[k]
  BY <1>5, FixedIs
<1>7. Filled(v).cell = Fixed(k) /\ Filled(v).form = v.form /\ Filled(v).n = Unsigned(v.n, max)
  BY <1>2 DEF Item
<1>8. FilledAs(v)
  BY <1>3, <1>4, <1>5, <1>6, <1>7 DEF FilledAs, Branches, NoSize
<1>9. ASSUME NEW item, item.cell.kind = k, item.form = v.form, item.n = Unsigned(v.n, max)
      PROVE  Same(Parsed(item), v)
  <2>1. k \in DOMAIN Maximum
    BY <1>4 DEF Maximum
  <2>2. Parsed(item) = [type |-> "FIXNUM", form |-> "none", n |-> Signed(item.n, Maximum[k])]
    BY <1>4, <1>9, <2>1 DEF Parsed
  <2>3. AsRead(v).type = "FIXNUM"
    BY DEF AsRead, TreeValues
  <2>4. Signed(Unsigned(v.n, max), max) = v.n
    <3> HIDE DEF max
    <3> QED
      BY <1>4, SignKept
  <2> QED
    BY <1>1, <1>9, <2>2, <2>3, <2>4 DEF Same
<1> QED
  BY <1>6, <1>7, <1>8, <1>9 DEF ParsedAs

(* Null, true, false and a double, which comes back rounded.               *)
LEMMA OtherFilled ==
  ASSUME NEW v \in TreeValues, v.type \in {"NULL", "TRUE", "FALSE", "DECIMAL"}
  PROVE  FilledAs(v) /\ ParsedAs(v)
<1> DEFINE f == Filled(v)
           kind == f.cell.kind
<1>1. /\ v.form = "none" /\ (v.type # "DECIMAL" => v.n = 0) /\ v.n \in Nat
      /\ v.type = "DECIMAL" => DecLen[v.n] \in Nat
  <2>1. v.form = "none" /\ (v.type # "DECIMAL" => v.n = 0) /\ (v.type = "DECIMAL" => v.n \in Doubles)
    BY DEF TreeValues, OjcValue, OjcLeaves, Branches
  <2> QED
    BY <2>1, DoubleTyped
<1>2. ~IsUuid(v) /\ ~IsTime(v)
  BY <1>1 DEF IsUuid, IsTime
<1>3. f.form = "none" /\ f.n = (IF v.type = "DECIMAL" THEN Rounded[v.n] ELSE v.n) /\ FilledAs(v)
      /\ kind = (CASE v.type = "NULL" -> "NULL" [] v.type = "TRUE" -> "TRU" [] v.type = "FALSE" -> "FALS"
                   [] v.type = "DECIMAL" -> "DEC")
  <2>1. CASE v.type = "NULL"
    BY <1>1, <1>2, <2>1 DEF Filled, Item, Fixed, DecCell, Cell, Overhead, OwnSize, FilledAs, Kinds, Containers, Branches, NoSize, BSize, Sized
  <2>2. CASE v.type = "TRUE"
    BY <1>1, <1>2, <2>2 DEF Filled, Item, Fixed, DecCell, Cell, Overhead, OwnSize, FilledAs, Kinds, Containers, Branches, NoSize, BSize, Sized
  <2>3. CASE v.type = "FALSE"
    BY <1>1, <1>2, <2>3 DEF Filled, Item, Fixed, DecCell, Cell, Overhead, OwnSize, FilledAs, Kinds, Containers, Branches, NoSize, BSize, Sized
  <2>4. CASE v.type = "DECIMAL"
    BY <1>1, <1>2, <2>4 DEF Filled, Item, Fixed, DecCell, Cell, Overhead, OwnSize, FilledAs, Kinds, Containers, Branches, NoSize, BSize, Sized
  <2> QED
    BY <2>1, <2>2, <2>3, <2>4
<1>4. AsRead(v).type = v.type
  BY DEF AsRead
<1> HIDE DEF f
<1>5. ASSUME NEW item, item.cell.kind = kind, item.form = f.form, item.n = f.n PROVE Same(Parsed(item), v)
  <2>1. Parsed(item).type = v.type /\ Parsed(item).form = "none" /\ Parsed(item).n = f.n
    <3>1. CASE v.type = "NULL"
      BY <1>1, <1>3, <1>5, <3>1 DEF Parsed, Maximum
    <3>2. CASE v.type = "TRUE"
      BY <1>1, <1>3, <1>5, <3>2 DEF Parsed, Maximum
    <3>3. CASE v.type = "FALSE"
      BY <1>1, <1>3, <1>5, <3>3 DEF Parsed, Maximum
    <3>4. CASE v.type = "DECIMAL"
      BY <1>1, <1>3, <1>5, <3>4 DEF Parsed, Maximum
    <3> QED
      BY <3>1, <3>2, <3>3, <3>4
  <2> QED
    BY <1>1, <1>2, <1>3, <1>4, <2>1 DEF Same, Altered
<1> QED
  BY <1>3, <1>5 DEF ParsedAs, f

(* An object or array: its size is not known yet.                          *)
LEMMA BranchFilled ==
  ASSUME NEW v \in TreeValues, v.type \in Branches
  PROVE  FilledAs(v) /\ v.form = "none" /\ v.n = 0
<1>1. v.form = "none" /\ v.n = 0
  BY DEF TreeValues, OjcValue, OjcLeaves, Branches
<1>2. ~IsUuid(v) /\ ~IsTime(v)
  BY <1>1 DEF IsUuid, IsTime
<1>3. CASE v.type = "OBJECT"
  BY <1>1, <1>2, <1>3 DEF Filled, Item, Cell, Overhead, OwnSize, FilledAs, Kinds, Containers, Branches, NoSize
<1>4. CASE v.type = "ARRAY"
  BY <1>1, <1>2, <1>4 DEF Filled, Item, Cell, Overhead, OwnSize, FilledAs, Kinds, Containers, Branches, NoSize
<1> QED
  BY <1>1, <1>3, <1>4 DEF Branches

(* Every value is written in the bytes counted for it, and a leaf comes    *)
(* back as it was if it is one that survives.                              *)
LEMMA ValueFilled ==
  ASSUME NEW v \in TreeValues
  PROVE  /\ FilledAs(v)
         /\ v.type \in Branches => v.form = "none" /\ v.n = 0
         /\ v.type \notin Branches => ParsedAs(v)
<1>1. v.type \in Branches \/ v.type \in {"NULL", "TRUE", "FALSE", "FIXNUM", "DECIMAL", "NUMBER", "WORD", "STRING"}
  BY DEF TreeValues, OjcValue, OjcLeaves
<1>2. CASE v.type \in {"NUMBER", "WORD", "STRING"}
  BY <1>2, StringFilled, UuidFilled, TimeFilled DEF Branches
<1>3. CASE v.type \notin {"NUMBER", "WORD", "STRING"}
  BY <1>1, <1>3, NumberFilled, OtherFilled, BranchFilled
<1> QED
  BY <1>2, <1>3

(* The same of a key.                                                      *)
LEMMA KeyFilled ==
  ASSUME NEW k \in KeyLengths
  PROVE  LET c == KeyCell(k)
         IN  /\ c.kind \in {"KEY1", "KEY2"} /\ c.field \in Nat /\ c.bytes \in Nat \ {0}
             /\ BSize(c) = c.bytes /\ c.bytes = KeySize(k) /\ k # NoKey /\ k \in Nat
<1>1. k \in Nat /\ k <= 65535
  BY ConvertAssumption
<1> DEFINE c == KeyCell(k)
<1>2. k % 65536 = k
  BY <1>1, OneMod
<1>3. SizeBytes(k) = IF k <= 255 THEN 1 ELSE 2
  BY <1>1 DEF SizeBytes
<1>4. /\ c.kind = IF k <= 255 THEN "KEY1" ELSE "KEY2"
      /\ c.field = k /\ c.bytes = k + IF k <= 255 THEN 3 ELSE 4
  BY <1>1, <1>2 DEF KeyCell, Cell
<1>5. KeySize(k) = k + SizeBytes(k) + 2 /\ k # NoKey
  BY <1>1 DEF KeySize, NoKey
<1> HIDE DEF c
<1>6. BSize(c) = c.bytes
  BY <1>1, <1>4 DEF BSize, Overhead, Sized, Containers
<1> QED
  BY <1>1, <1>3, <1>4, <1>5, <1>6 DEF c

(* Values come after the one they are in, so what a value is in is defined *)
(* by the equation that Around is given by.                                *)
Ordered == tree \in Seq(TreeValues) /\ \A i \in DOMAIN tree : tree[i].parent < i

(* What is around a value, without recursion: itself and what is around    *)
(* its parent.                                                             *)
AroundIs == /\ DOMAIN Around = 0 .. Len(tree)
            /\ Around[0] = {}
            /\ \A i \in 1 .. Len(tree) : Around[i] = {i} \cup Around[tree[i].parent]

(* In a tree whose values come behind their parents that is so.            *)
LEMMA AroundTrue == Ordered => AroundIs
<1> SUFFICES ASSUME Ordered PROVE AroundIs
  OBVIOUS
<1> DEFINE N == Len(tree)
           Is(f, n) == f = [i \in 0 .. n |-> IF i = 0 THEN {} ELSE {i} \cup f[tree[i].parent]]
           S == {n \in Nat : n <= N => \E f : Is(f, n)}
<1>1. N \in Nat /\ \A i \in 1 .. N : tree[i].parent \in Nat /\ tree[i].parent < i
  BY DEF Ordered, TreeValues
<1> HIDE DEF N
<1>2. 0 \in S
  <2> DEFINE f == [i \in 0 .. 0 |-> {}]
  <2>1. \A i \in 0 .. 0 : i = 0
    OBVIOUS
  <2>2. Is(f, 0)
    BY <2>1
  <2> QED
    BY <2>2
<1>3. ASSUME NEW n \in Nat, n \in S PROVE n + 1 \in S
  <2> SUFFICES ASSUME n + 1 <= N PROVE \E f : Is(f, n + 1)
    BY <1>3
  <2>1. PICK f : Is(f, n)
    BY <1>1, <1>3
  <2> DEFINE x == {n + 1} \cup f[tree[n + 1].parent]
             g == [i \in 0 .. n + 1 |-> IF i <= n THEN f[i] ELSE x]
  <2>2. \A i \in 0 .. n : i \in 0 .. n + 1 /\ g[i] = f[i]
    <3> HIDE DEF x
    <3> QED
      BY <1>3
  <2>3. ASSUME NEW i \in 0 .. n + 1
        PROVE  g[i] = IF i = 0 THEN {} ELSE {i} \cup g[tree[i].parent]
    <3>1. CASE i = 0
      <4>1. f[0] = {} /\ 0 \in 0 .. n
        BY <2>1, <1>3
      <4> HIDE DEF g
      <4> QED
        BY <2>2, <3>1, <4>1
    <3>2. CASE i # 0 /\ i <= n
      <4>1. i \in 1 .. N /\ tree[i].parent \in 0 .. n /\ i \in 0 .. n
        BY <1>1, <1>3, <3>2
      <4>2. f[i] = {i} \cup f[tree[i].parent]
        BY <2>1, <3>2, <4>1
      <4> HIDE DEF g
      <4> QED
        BY <2>2, <3>2, <4>1, <4>2
    <3>3. CASE i = n + 1
      <4>1. i \in 1 .. N /\ tree[i].parent \in 0 .. n /\ ~(i <= n) /\ i # 0
        BY <1>1, <1>3, <3>3
      <4>2. g[i] = x
        BY <4>1
      <4>3. g[tree[i].parent] = f[tree[i].parent]
        <5> HIDE DEF g
        <5> QED
          BY <2>2, <4>1
      <4> HIDE DEF g
      <4> QED
        BY <3>3, <4>1, <4>2, <4>3
    <3> QED
      BY <1>3, <3>1, <3>2, <3>3
  <2>4. DOMAIN g = 0 .. n + 1 /\ g = [i \in 0 .. n + 1 |-> g[i]]
    OBVIOUS
  <2> HIDE DEF g
  <2>5. Is(g, n + 1)
    BY <2>3, <2>4
  <2> QED
    BY <2>5
<1>4. N \in S
  <2> HIDE DEF S
  <2> QED
    BY <1>1, <1>2, <1>3, SetInduction
<1>5. \E f : f = [i \in 0 .. Len(tree) |-> IF i = 0 THEN {} ELSE {i} \cup f[tree[i].parent]]
  BY <1>1, <1>4 DEF N
<1>6. Around = [i \in 0 .. Len(tree) |-> IF i = 0 THEN {} ELSE {i} \cup Around[tree[i].parent]]
  BY <1>5 DEF Around
<1> HIDE DEF S, Is
<1>7. 0 \in 0 .. Len(tree) /\ \A i \in 1 .. Len(tree) : i \in 0 .. Len(tree) /\ i # 0
  BY <1>1 DEF N
<1> QED
  BY <1>6, <1>7 DEF AroundIs

(* The size of the first values, without recursion.                        *)
SizesOf == /\ SizeOf[0] = 0
           /\ \A i \in 1 .. Len(tree) : SizeOf[i] = SizeOf[i - 1] + OwnSize(tree[i]) + KeySize(tree[i].key)

(* In every tree it is so.                                                 *)
LEMMA SizeTrue == tree \in Seq(TreeValues) => SizesOf
<1> SUFFICES ASSUME tree \in Seq(TreeValues) PROVE SizesOf
  OBVIOUS
<1> DEFINE N == Len(tree)
           more(i) == OwnSize(tree[i])
           keys(i) == KeySize(tree[i].key)
           Is(f, n) == f = [i \in 0 .. n |-> IF i = 0 THEN 0 ELSE f[i - 1] + more(i) + keys(i)]
           S == {n \in Nat : n <= N => \E f : Is(f, n)}
<1>1. N \in Nat
  OBVIOUS
<1> HIDE DEF N, more, keys
<1>2. 0 \in S
  <2> DEFINE f == [i \in 0 .. 0 |-> 0]
  <2>1. \A i \in 0 .. 0 : i = 0
    OBVIOUS
  <2>2. Is(f, 0)
    BY <2>1
  <2> QED
    BY <2>2
<1>3. ASSUME NEW n \in Nat, n \in S PROVE n + 1 \in S
  <2> SUFFICES ASSUME n + 1 <= N PROVE \E f : Is(f, n + 1)
    BY <1>3
  <2>1. PICK f : Is(f, n)
    BY <1>1, <1>3
  <2> DEFINE x == f[n] + more(n + 1) + keys(n + 1)
             g == [i \in 0 .. n + 1 |-> IF i <= n THEN f[i] ELSE x]
  <2>2. \A i \in 0 .. n : i \in 0 .. n + 1 /\ g[i] = f[i]
    <3> HIDE DEF x
    <3> QED
      BY <1>3
  <2>3. ASSUME NEW i \in 0 .. n + 1
        PROVE  g[i] = IF i = 0 THEN 0 ELSE g[i - 1] + more(i) + keys(i)
    <3>1. CASE i = 0
      <4>1. f[0] = 0 /\ 0 \in 0 .. n
        BY <2>1, <1>3
      <4> HIDE DEF g
      <4> QED
        BY <2>2, <3>1, <4>1
    <3>2. CASE i # 0 /\ i <= n
      <4>1. i - 1 \in 0 .. n /\ i \in 0 .. n
        BY <1>3, <3>2
      <4>2. f[i] = f[i - 1] + more(i) + keys(i)
        BY <2>1, <3>2, <4>1
      <4>3. g[i] = f[i] /\ g[i - 1] = f[i - 1]
        BY <2>2, <4>1, Zenon
      <4> HIDE DEF g
      <4> QED
        BY <3>2, <4>2, <4>3
    <3>3. CASE i = n + 1
      <4>1. i - 1 = n /\ n \in 0 .. n /\ ~(i <= n) /\ i # 0
        BY <1>3, <3>3
      <4>2. g[i] = x
        BY <4>1
      <4>3. g[n] = f[n]
        <5> HIDE DEF g
        <5> QED
          BY <2>2, <4>1
      <4> HIDE DEF g
      <4> QED
        BY <3>3, <4>1, <4>2, <4>3
    <3> QED
      BY <1>3, <3>1, <3>2, <3>3
  <2>4. DOMAIN g = 0 .. n + 1 /\ g = [i \in 0 .. n + 1 |-> g[i]]
    OBVIOUS
  <2> HIDE DEF g
  <2>5. Is(g, n + 1)
    BY <2>3, <2>4
  <2> QED
    BY <2>5
<1>4. N \in S
  <2> HIDE DEF S
  <2> QED
    BY <1>1, <1>2, <1>3, SetInduction
<1>5. \E f : f = [i \in 0 .. Len(tree) |-> IF i = 0 THEN 0 ELSE f[i - 1] + OwnSize(tree[i]) + KeySize(tree[i].key)]
  BY <1>1, <1>4 DEF N, more, keys
<1>6. SizeOf = [i \in 0 .. Len(tree) |->
                  IF i = 0 THEN 0 ELSE SizeOf[i - 1] + OwnSize(tree[i]) + KeySize(tree[i].key)]
  BY <1>5 DEF SizeOf
<1> HIDE DEF S, Is
<1>7. 0 \in 0 .. Len(tree) /\ \A i \in 1 .. Len(tree) : i \in 0 .. Len(tree) /\ i # 0
  BY <1>1 DEF N
<1> QED
  BY <1>6, <1>7 DEF SizesOf

(* What is counted for a value and for its key.                            *)
LEMMA Counted ==
  ASSUME NEW v \in TreeValues
  PROVE  /\ OwnSize(v) \in Nat \ {0} /\ KeySize(v.key) \in Nat
         /\ v.key = NoKey => KeySize(v.key) = 0
         /\ v.key # NoKey => v.key \in KeyLengths
<1>1. OwnSize(v) \in Nat \ {0}
  BY ValueFilled DEF FilledAs
<1>2. v.key = NoKey \/ v.key \in KeyLengths
  BY DEF TreeValues, Keys
<1>3. v.key = NoKey => KeySize(v.key) = 0
  BY DEF KeySize
<1>4. v.key \in KeyLengths => KeySize(v.key) \in Nat
  BY KeyFilled
<1> QED
  BY <1>1, <1>2, <1>3, <1>4

(* No part of a tree is counted larger than the whole.                     *)
LEMMA SizesGrow ==
  ASSUME tree \in Seq(TreeValues)
  PROVE  \A i \in 0 .. Len(tree) : SizeOf[i] \in Nat /\ SizeOf[i] <= SizeOf[Len(tree)]
<1> DEFINE N == Len(tree)
           S == {i \in Nat : i <= N => SizeOf[i] \in Nat}
           T == {k \in Nat : k <= N => SizeOf[N - k] <= SizeOf[N]}
           more(i) == OwnSize(tree[i]) + KeySize(tree[i].key)
<1>1. N \in Nat /\ \A i \in 1 .. N : tree[i] \in TreeValues
  OBVIOUS
<1>2. SizeOf[0] = 0 /\ \A i \in 1 .. N : more(i) \in Nat /\ (SizeOf[i - 1] \in Nat => SizeOf[i] = SizeOf[i - 1] + more(i))
  <2>1. SizeOf[0] = 0 /\ \A i \in 1 .. N : SizeOf[i] = SizeOf[i - 1] + OwnSize(tree[i]) + KeySize(tree[i].key)
    BY SizeTrue DEF SizesOf
  <2>2. \A i \in 1 .. N : OwnSize(tree[i]) \in Nat /\ KeySize(tree[i].key) \in Nat
    BY <1>1, Counted
  <2>3. \A a, b, c \in Nat : a + b + c = a + (b + c) /\ b + c \in Nat
    OBVIOUS
  <2> QED
    BY <2>1, <2>2, <2>3
<1> HIDE DEF N, more
<1>3. N \in Nat /\ 0 \in S
  BY <1>1, <1>2
<1>4. ASSUME NEW i \in Nat, i \in S PROVE i + 1 \in S
  <2> SUFFICES ASSUME i + 1 <= N PROVE SizeOf[i + 1] \in Nat
    OBVIOUS
  <2>1. i + 1 \in 1 .. N /\ (i + 1) - 1 = i /\ SizeOf[i] \in Nat
    BY <1>3, <1>4
  <2> QED
    BY <1>2, <2>1
<1>5. \A i \in 0 .. N : SizeOf[i] \in Nat
  <2>1. Nat \subseteq S
    <3> HIDE DEF S
    <3> QED
      BY <1>3, <1>4, SetInduction
  <2> QED
    BY <1>3, <2>1
<1>6. 0 \in T
  <2>1. SizeOf[N] \in Nat /\ N - 0 = N
    BY <1>3, <1>5
  <2> QED
    BY <2>1
<1>7. ASSUME NEW k \in Nat, k \in T PROVE k + 1 \in T
  <2> SUFFICES ASSUME k + 1 <= N PROVE SizeOf[N - (k + 1)] <= SizeOf[N]
    OBVIOUS
  <2> DEFINE j == N - k
  <2>1. j \in 1 .. N /\ j - 1 \in 0 .. N /\ j \in 0 .. N /\ N - (k + 1) = j - 1 /\ SizeOf[j] <= SizeOf[N] /\ N \in 0 .. N
    BY <1>3, <1>7
  <2> HIDE DEF j
  <2>2. SizeOf[j] = SizeOf[j - 1] + more(j) /\ more(j) \in Nat /\ SizeOf[j - 1] \in Nat /\ SizeOf[N] \in Nat
    BY <1>2, <1>5, <2>1
  <2> QED
    BY <2>1, <2>2
<1>8. Nat \subseteq T
  <2> HIDE DEF T
  <2> QED
    BY <1>6, <1>7, SetInduction
<1>9. ASSUME NEW i \in 0 .. N PROVE SizeOf[i] <= SizeOf[N]
  <2>1. N - i \in Nat /\ N - i <= N /\ N - (N - i) = i
    BY <1>3
  <2> QED
    BY <1>8, <2>1
<1> QED
  BY <1>5, <1>9 DEF N

(* What a leaf of ojc is.                                                  *)
LEMMA LeafTyped ==
  ASSUME NEW v \in OjcLeaves
  PROVE  v.type \in Types /\ v.form \in Forms /\ v.n \in Int /\ v = [type |-> v.type, form |-> v.form, n |-> v.n]
<1>1. -Max8 - 1 .. Max8 \subseteq Int
  BY Limits
<1>2. \A d \in Doubles : d \in Int
  BY DoubleTyped
<1>3. /\ [type : {"NULL", "TRUE", "FALSE"}, form : {"none"}, n : {0}] \subseteq [type : Types, form : Forms, n : Int]
      /\ [type : {"FIXNUM"}, form : {"none"}, n : -Max8 - 1 .. Max8] \subseteq [type : Types, form : Forms, n : Int]
  BY <1>1 DEF Types, Forms
<1>4. [type : {"DECIMAL"}, form : {"none"}, n : Doubles] \subseteq [type : Types, form : Forms, n : Int]
  BY <1>2 DEF Types, Forms
<1>5. /\ [type : {"NUMBER", "WORD", "STRING"}, form : {"text"}, n : Nat] \subseteq [type : Types, form : Forms, n : Int]
      /\ [type : {"STRING"}, form : {"uuid", "time", "skewed"}, n : Int] \subseteq [type : Types, form : Forms, n : Int]
  BY DEF Types, Forms
<1>6. v \in [type : Types, form : Forms, n : Int]
  BY <1>3, <1>4, <1>5 DEF OjcLeaves
<1> QED
  BY <1>6
-----------------------------------------------------------------------------
(* The caller's tree: every value but the first is in an object or array   *)
(* around the value before it.                                             *)
TreeInv ==
    /\ Ordered
    /\ \A i \in 1 .. Len(tree) : Around[i] \subseteq 1 .. i
    /\ \A i \in 1 .. Len(tree) : \A j \in Around[i] : /\ Around[j] \subseteq Around[i]
                                                      /\ j # i => tree[j].type \in Branches
    /\ \A i \in 2 .. Len(tree) : /\ tree[i].parent \in Around[i - 1]
                                 /\ tree[tree[i].parent].type \in Branches
                                 /\ tree[i].key # NoKey <=> tree[tree[i].parent].type = "OBJECT"
    /\ tree # <<>> => tree[1].parent = 0 /\ tree[1].key = NoKey

(* A value more leaves what is around the others.                          *)
LEMMA AroundKept ==
  ASSUME Ordered, Ordered', Len(tree) <= Len(tree'), \A i \in DOMAIN tree : tree'[i] = tree[i]
  PROVE  \A i \in 0 .. Len(tree) : (Around')[i] = Around[i]
<1> DEFINE N == Len(tree)
           S == {n \in Nat : \A i \in 0 .. n : i <= N => (Around')[i] = Around[i]}
<1>1. N \in Nat /\ Len(tree') \in Nat /\ N <= Len(tree')
      /\ \A i \in 1 .. N : tree'[i] = tree[i] /\ tree[i].parent \in Nat /\ tree[i].parent < i
  BY SMTT(30) DEF Ordered, TreeValues
<1>2. Around[0] = {} /\ \A i \in 1 .. N : Around[i] = {i} \cup Around[tree[i].parent]
  BY AroundTrue DEF AroundIs
<1>3. AroundIs'
  BY AroundTrue, PTL
<1>4. (Around')[0] = {} /\ \A i \in 1 .. Len(tree') : (Around')[i] = {i} \cup (Around')[tree'[i].parent]
  BY <1>3 DEF AroundIs
<1> DEFINE a == Around
           b == Around'
<1>5. a[0] = {} /\ b[0] = {} /\ \A i \in 1 .. N : /\ a[i] = {i} \cup a[tree[i].parent]
                                                  /\ b[i] = {i} \cup b[tree[i].parent]
  BY <1>1, <1>2, <1>4
<1> HIDE DEF a, b, N
<1> DEFINE T == {n \in Nat : \A i \in 0 .. n : i <= N => b[i] = a[i]}
<1>6. 0 \in T
  <2>1. \A i \in 0 .. 0 : i = 0
    OBVIOUS
  <2> QED
    BY <1>5, <2>1
<1>7. ASSUME NEW n \in Nat, n \in T PROVE n + 1 \in T
  <2> SUFFICES ASSUME NEW i \in 0 .. n + 1, i <= N PROVE b[i] = a[i]
    OBVIOUS
  <2>1. CASE i <= n
    BY <1>7, <2>1
  <2>2. CASE i = n + 1
    <3>1. i \in 1 .. N /\ tree[i].parent \in 0 .. n /\ tree[i].parent <= N
      BY <1>1, <2>2
    <3>2. b[tree[i].parent] = a[tree[i].parent]
      BY <1>7, <3>1
    <3> QED
      BY <1>5, <3>1, <3>2
  <2> QED
    BY <2>1, <2>2
<1>8. Nat \subseteq T
  <2> HIDE DEF T
  <2> QED
    BY <1>6, <1>7, SetInduction
<1>9. \A i \in 0 .. N : b[i] = a[i]
  <2> SUFFICES ASSUME NEW i \in 0 .. N PROVE b[i] = a[i]
    OBVIOUS
  <2>0. i \in Nat /\ i \in 0 .. i /\ i <= N
    BY <1>1
  <2>1. i \in T /\ i \in 0 .. i /\ i <= N
    BY <1>8, <2>0
  <2> QED
    BY <2>1
<1> QED
  BY <1>9 DEF a, b, N

(* A value more is a tree: what is around it is around its parent.         *)
LEMMA GrowTree ==
  ASSUME TreeInv, Grow
  PROVE  TreeInv'
<1> DEFINE N == Len(tree)
<1>1. PICK parent \in Places : \E k \in IF InObjectAt(parent) THEN KeyLengths ELSE {NoKey},
                                  v \in Plain \cup {Branch(b) : b \in Branches} \cup (IF Len(tree) < MaxVaried THEN Leaves ELSE {}) :
                                     tree' = Append(tree, Value(v, k, parent))
  BY Zenon DEF Grow
<1>2. PICK k \in IF InObjectAt(parent) THEN KeyLengths ELSE {NoKey},
           v \in Plain \cup {Branch(b) : b \in Branches} \cup (IF Len(tree) < MaxVaried THEN Leaves ELSE {}) :
              tree' = Append(tree, Value(v, k, parent))
  BY <1>1, Zenon
<1> DEFINE x == Value(v, k, parent)
<1>3. N \in Nat /\ tree \in Seq(TreeValues) /\ \A i \in 1 .. N : tree[i].parent \in Nat /\ tree[i].parent < i
  BY DEF TreeInv, Ordered, TreeValues
<1>4. AroundIs
  BY AroundTrue DEF TreeInv
<1>5. /\ parent \in Nat /\ parent <= N
      /\ tree = <<>> => parent = 0
      /\ tree # <<>> => parent \in Around[N] /\ tree[parent].type \in Branches /\ N \in 1 .. N
  <2>1. CASE tree = <<>>
    BY <1>3, <2>1 DEF Places
  <2>2. CASE tree # <<>>
    <3>1. N \in 1 .. N
      BY <1>3, <2>2
    <3>2. parent \in Around[N] /\ tree[parent].type \in Branches
      BY <2>2 DEF Places
    <3>3. parent \in 1 .. N
      BY <3>1, <3>2 DEF TreeInv
    <3> QED
      BY <2>2, <3>1, <3>2, <3>3
  <2> QED
    BY <2>1, <2>2
<1>6. k \in Keys
  BY DEF Keys
<1>7. x \in TreeValues
  <2>1. v \in OjcLeaves \/ \E b \in Branches : v = Branch(b)
    BY ConvertAssumption
  <2>2. CASE v \in OjcLeaves
    <3>1. v.type \in Types /\ v.form \in Forms /\ v.n \in Int /\ v = [type |-> v.type, form |-> v.form, n |-> v.n]
      BY <2>2, LeafTyped
    <3> HIDE DEF x
    <3>2. x = [type |-> v.type, form |-> v.form, n |-> v.n, key |-> k, parent |-> parent]
      BY DEF x, Value
    <3>3. OjcValue(x)
      BY <2>2, <3>1, <3>2 DEF OjcValue
    <3> QED
      BY <1>5, <1>6, <3>1, <3>2, <3>3 DEF TreeValues
  <2>3. CASE \E b \in Branches : v = Branch(b)
    <3>1. PICK b \in Branches : v = Branch(b)
      BY <2>3
    <3>2. x = [type |-> b, form |-> "none", n |-> 0, key |-> k, parent |-> parent]
      BY <3>1 DEF Value, Branch
    <3> HIDE DEF x
    <3>3. x \in [type : Types, form : Forms, n : Int, key : Keys, parent : Nat]
      <4>1. b \in Types /\ "none" \in Forms
        BY DEF Types, Forms
      <4> QED
        BY <1>5, <1>6, <3>2, <4>1
    <3>4. OjcValue(x)
      BY <3>2 DEF OjcValue
    <3> QED
      BY <3>3, <3>4 DEF TreeValues
  <2> QED
    BY <2>1, <2>2, <2>3
<1>8. x.parent = parent /\ x.key = k
  BY DEF Value
<1> HIDE DEF x
<1>9. /\ tree' \in Seq(TreeValues) /\ Len(tree') = N + 1 /\ tree'[N + 1] = x
      /\ \A i \in 1 .. N : tree'[i] = tree[i]
      /\ DOMAIN tree = 1 .. N /\ DOMAIN tree' = 1 .. N + 1
  BY <1>2, <1>3, <1>7 DEF x
<1> HIDE DEF N
<1>10. Ordered'
  BY <1>3, <1>5, <1>8, <1>9 DEF Ordered
<1>11. \A i \in 0 .. N : (Around')[i] = Around[i]
  <2>1. Len(tree) <= Len(tree')
    BY <1>3, <1>9 DEF N
  <2> QED
    BY <1>9, <1>10, <2>1, AroundKept DEF N, TreeInv
<1>12. AroundIs'
  BY <1>10, AroundTrue, PTL
<1>13. (Around')[N + 1] = {N + 1} \cup Around[parent]
  <2>1. N + 1 \in 1 .. N + 1 /\ parent \in 0 .. N
    BY <1>3, <1>5
  <2>2. (Around')[N + 1] = {N + 1} \cup (Around')[tree'[N + 1].parent]
    BY <1>9, <1>12, <2>1 DEF AroundIs
  <2> QED
    BY <1>8, <1>9, <1>11, <2>1, <2>2
<1>14. Around[parent] \subseteq 1 .. N
  <2>1. CASE parent = 0
    BY <1>4, <2>1 DEF AroundIs
  <2>2. CASE parent # 0
    <3>1. parent \in 1 .. N /\ parent \in 1 .. Len(tree)
      BY <1>3, <1>5, <2>2 DEF N
    <3>2. Around[parent] \subseteq 1 .. parent
      BY <3>1 DEF TreeInv
    <3> QED
      BY <1>3, <3>1, <3>2
  <2> QED
    BY <2>1, <2>2
<1>15. ASSUME NEW i \in 1 .. Len(tree') PROVE (Around')[i] \subseteq 1 .. i
  <2>1. CASE i = N + 1
    BY <1>3, <1>13, <1>14, <2>1
  <2>2. CASE i # N + 1
    <3>1. i \in 0 .. N /\ i \in 1 .. Len(tree)
      BY <1>3, <1>9, <2>2 DEF N
    <3> QED
      BY <1>11, <3>1 DEF TreeInv
  <2> QED
    BY <2>1, <2>2
<1>16. ASSUME NEW i \in 2 .. Len(tree')
       PROVE  /\ tree'[i].parent \in (Around')[i - 1]
              /\ tree'[tree'[i].parent].type \in Branches
              /\ tree'[i].key # NoKey <=> tree'[tree'[i].parent].type = "OBJECT"
  <2>1. CASE i = N + 1
    <3>1. tree # <<>> /\ i - 1 = N /\ N \in 0 .. N
      <4>1. i - 1 = N /\ N # 0 /\ N \in 0 .. N
        BY <1>3, <1>9, <2>1
      <4> QED
        BY <4>1 DEF N
    <3>2. parent \in Around[N] /\ tree[parent].type \in Branches /\ N \in 1 .. Len(tree)
      BY <1>5, <3>1 DEF N
    <3>3. parent \in 1 .. N
      <4>1. Around[N] \subseteq 1 .. N
        BY <3>2 DEF TreeInv
      <4> QED
        BY <3>2, <4>1
    <3>4. k # NoKey <=> tree[parent].type = "OBJECT"
      <4>1. \A l \in KeyLengths : l # NoKey
        BY KeyFilled
      <4> QED
        BY <3>3, <4>1 DEF InObjectAt
    <3> QED
      BY <1>8, <1>9, <1>11, <2>1, <3>1, <3>2, <3>3, <3>4
  <2>2. CASE i # N + 1
    <3>1. i \in 2 .. Len(tree) /\ i \in 1 .. N /\ i - 1 \in 0 .. N /\ i - 1 \in 1 .. Len(tree)
      BY <1>3, <1>9, <2>2 DEF N
    <3>2. tree[i].parent \in Around[i - 1] /\ tree[tree[i].parent].type \in Branches
          /\ (tree[i].key # NoKey <=> tree[tree[i].parent].type = "OBJECT")
          /\ Around[i - 1] \subseteq 1 .. i - 1
      BY <3>1 DEF TreeInv
    <3>3. tree[i].parent \in 1 .. N
      BY <1>3, <3>1, <3>2
    <3> QED
      BY <1>9, <1>11, <3>1, <3>2, <3>3
  <2> QED
    BY <2>1, <2>2
<1>17. tree'[1].parent = 0 /\ tree'[1].key = NoKey
  <2>1. CASE tree = <<>>
    <3>1. N = 0 /\ parent = 0 /\ k = NoKey
      BY <1>5, <2>1 DEF N, InObjectAt
    <3> QED
      BY <1>8, <1>9, <3>1
  <2>2. CASE tree # <<>>
    <3>1. 1 \in 1 .. N
      BY <1>5, <1>3, <2>2 DEF N
    <3> QED
      BY <1>9, <2>2, <3>1 DEF TreeInv
  <2> QED
    BY <2>1, <2>2
<1>18. ASSUME NEW i \in 1 .. Len(tree'), NEW j \in (Around')[i]
       PROVE  (Around')[j] \subseteq (Around')[i] /\ (j # i => tree'[j].type \in Branches)
  <2>1. CASE i # N + 1
    <3>1. i \in 0 .. N /\ i \in 1 .. N /\ i \in 1 .. Len(tree)
      BY <1>3, <1>9, <2>1 DEF N
    <3>2. j \in Around[i] /\ (Around')[i] = Around[i]
      BY <1>11, <1>18, <3>1
    <3>3. j \in 1 .. i
      BY <3>1, <3>2 DEF TreeInv
    <3>4. j \in 1 .. N /\ j \in 0 .. N
      BY <1>3, <3>1, <3>3
    <3>5. Around[j] \subseteq Around[i] /\ (j # i => tree[j].type \in Branches)
      BY <3>1, <3>2 DEF TreeInv
    <3> QED
      BY <1>9, <1>11, <3>2, <3>4, <3>5
  <2>2. CASE i = N + 1 /\ j # N + 1
    <3>1. j \in Around[parent]
      BY <1>13, <1>18, <2>2
    <3>2. j \in 0 .. N /\ j \in 1 .. N
      BY <1>3, <1>14, <3>1
    <3>3. parent # 0
      BY <1>4, <3>1 DEF AroundIs
    <3>4. parent \in 1 .. Len(tree) /\ tree # <<>>
      BY <1>3, <1>5, <3>3 DEF N
    <3>5. Around[j] \subseteq Around[parent] /\ (j # parent => tree[j].type \in Branches)
      BY <3>1, <3>4 DEF TreeInv
    <3>6. tree[parent].type \in Branches
      BY <1>5, <3>4
    <3> QED
      BY <1>9, <1>11, <1>13, <2>2, <3>2, <3>5, <3>6
  <2>3. CASE i = N + 1 /\ j = N + 1
    BY <2>3
  <2> QED
    BY <2>1, <2>2, <2>3
<1> QED
  BY <1>10, <1>15, <1>16, <1>17, <1>18 DEF TreeInv

(* What a message is a sequence of.                                        *)
Items == [cell : [kind : Kinds, field : Int, bytes : Nat \ {0}, at : Nat],
          form : Forms \cup {"key"}, n : Int]

(* What is written for a value is an item.                                 *)
LEMMA ItemTyped ==
  ASSUME NEW kind \in Kinds, NEW field \in Int, NEW bytes \in Nat \ {0},
         NEW f \in Forms \cup {"key"}, NEW n \in Int
  PROVE  Item(Cell(kind, field, bytes), f, n) \in Items
<1>1. Item(Cell(kind, field, bytes), f, n)
        = [cell |-> [kind |-> kind, field |-> field, bytes |-> bytes, at |-> 0], form |-> f, n |-> n]
  BY DEF Item, Cell
<1> QED
  BY <1>1 DEF Items

(* The item of every value.                                                *)
LEMMA ItemFilled ==
  ASSUME NEW v \in TreeValues
  PROVE  Filled(v) \in Items
<1>1. v.form \in Forms /\ v.n \in Int /\ "none" \in Forms
  BY DEF TreeValues, Forms
<1>2. v.type \in Branches \/ v.type \in {"NULL", "TRUE", "FALSE", "FIXNUM", "DECIMAL", "NUMBER", "WORD", "STRING"}
  BY DEF TreeValues, OjcValue, OjcLeaves
<1>3. \A kind \in Kinds : Fixed(kind) = Cell(kind, 0, Overhead[kind]) /\ Overhead[kind] \in Nat \ {0}
  BY FixedIs DEF Fixed
<1>4. v.type \notin {"NUMBER", "WORD", "STRING"} => ~IsUuid(v) /\ ~IsTime(v)
  <2>1. v.type \notin {"NUMBER", "WORD", "STRING"} => v.form = "none"
    BY DEF TreeValues, OjcValue, OjcLeaves
  <2> QED
    BY <2>1 DEF IsUuid, IsTime
<1>5. CASE IsUuid(v)
  <2>1. Filled(v) = Item(UuidCell(32), v.form, v.n)
    <3>1. v.type = "STRING" /\ ~IsTime(v)
      BY <1>2, <1>4, <1>5 DEF IsUuid, IsTime, TreeValues, OjcValue, OjcLeaves, Branches
    <3> QED
      BY <1>5, <3>1 DEF Filled
  <2>2. UuidCell(32) = Cell("UUID", 0, 17) /\ "UUID" \in Kinds
    BY DEF UuidCell, Kinds, Overhead
  <2> QED
    BY <1>1, <2>1, <2>2, ItemTyped
<1>6. CASE IsTime(v)
  <2>1. v.type = "STRING" /\ ~IsUuid(v) /\ v.n \in Int
    BY <1>2, <1>4, <1>6 DEF IsUuid, IsTime, TreeValues, OjcValue, OjcLeaves, Branches
  <2>2. Filled(v) = Item(Fixed("TIME"), "time", Unsigned(v.n, Max8))
    BY <1>6, <2>1 DEF Filled
  <2>3. Unsigned(v.n, Max8) \in Int /\ "TIME" \in Kinds /\ "time" \in Forms
    BY <2>1, Limits, TimeKept DEF Kinds, Overhead, Forms
  <2> QED
    BY <1>1, <1>3, <2>2, <2>3, ItemTyped
<1>7. CASE v.type = "FIXNUM"
  <2>1. v.n \in -Max8 - 1 .. Max8
    BY <1>7 DEF TreeValues, OjcValue, OjcLeaves, Branches
  <2> DEFINE k == IntKind(v.n)
             u == Unsigned(v.n, Maximum[k])
  <2>2. Filled(v) = Item(Fixed(k), v.form, u)
    BY <1>4, <1>7 DEF Filled
  <2>3. /\ k \in {"INT1", "INT2", "INT4", "INT8"}
        /\ Maximum[k] \in Nat /\ v.n \in -Maximum[k] - 1 .. Maximum[k]
    BY <2>1, IntFits
  <2>4. u \in Int
    BY <2>3, SignKept
  <2>5. k \in Kinds
    BY <2>3 DEF Kinds, Overhead
  <2> HIDE DEF k, u
  <2> QED
    BY <1>1, <1>3, <2>2, <2>4, <2>5, ItemTyped
<1>8. CASE v.type = "DECIMAL"
  <2> DEFINE n == DecLen[v.n]
  <2>1. Filled(v) = Item(Cell("DEC", n, n + 2), v.form, Rounded[v.n])
    BY <1>4, <1>8 DEF Filled, DecCell
  <2>2. v.n \in Doubles /\ "DEC" \in Kinds
    BY <1>8 DEF TreeValues, OjcValue, OjcLeaves, Branches, Kinds, Overhead
  <2>3. n \in Nat /\ Rounded[v.n] \in Int
    BY <2>2, DoubleTyped
  <2> HIDE DEF n
  <2>4. n \in Int /\ n + 2 \in Nat \ {0}
    BY <2>3
  <2> QED
    BY <1>1, <2>1, <2>2, <2>3, <2>4, ItemTyped
<1>9. CASE v.type \in {"NUMBER", "WORD", "STRING"} /\ ~IsUuid(v) /\ ~IsTime(v)
  <2> DEFINE n == TextLen(v)
  <2>1. n \in Nat
    BY <1>9 DEF TreeValues, OjcValue, OjcLeaves, IsUuid, TextLen, Branches
  <2>2. Filled(v) = Item(StrCell(n), v.form, v.n)
    BY <1>9 DEF Filled
  <2> HIDE DEF n
  <2>3. StrCell(n) = Cell("STR1", n, n + 3) \/ StrCell(n) = Cell("STR2", n, n + 4) \/ StrCell(n) = Cell("STR4", n, n + 6)
    BY <2>1 DEF StrCell
  <2>4. {"STR1", "STR2", "STR4"} \subseteq Kinds /\ n + 3 \in Nat \ {0} /\ n + 4 \in Nat \ {0} /\ n + 6 \in Nat \ {0} /\ n \in Int
    BY <2>1 DEF Kinds, Overhead
  <2> QED
    BY <1>1, <2>2, <2>3, <2>4, ItemTyped
<1>10. CASE v.type \in {"NULL", "TRUE", "FALSE"}
  <2>1. \E kind \in {"NULL", "TRU", "FALS"} : Filled(v) = Item(Fixed(kind), "none", 0)
    BY <1>4, <1>10 DEF Filled
  <2>2. {"NULL", "TRU", "FALS"} \subseteq Kinds
    BY DEF Kinds, Overhead
  <2> QED
    BY <1>1, <1>3, <2>1, <2>2, ItemTyped
<1>11. CASE v.type \in Branches
  <2>1. \E kind \in Containers : Filled(v) = Item(Cell(kind, NoSize, 5), "none", 0)
    BY <1>4, <1>11 DEF Filled, Branches, Containers
  <2>2. Containers \subseteq Kinds /\ NoSize \in Int
    BY DEF Kinds, Overhead, Containers, NoSize
  <2> QED
    BY <1>1, <2>1, <2>2, ItemTyped
<1> QED
  BY <1>2, <1>5, <1>6, <1>7, <1>8, <1>9, <1>10, <1>11

(* The item of every key.                                                  *)
LEMMA ItemKey ==
  ASSUME NEW k \in KeyLengths
  PROVE  KeyItem(k) \in Items /\ KeyItem(k).cell = KeyCell(k)
<1> DEFINE c == KeyCell(k)
<1>1. c.kind \in {"KEY1", "KEY2"} /\ c.field \in Nat /\ c.bytes \in Nat \ {0} /\ k \in Nat
  BY KeyFilled
<1>2. c = Cell(c.kind, c.field, c.bytes)
  BY DEF KeyCell, Cell
<1>3. KeyItem(k) = Item(c, "key", k)
  BY DEF KeyItem
<1> HIDE DEF c
<1>4. {"KEY1", "KEY2"} \subseteq Kinds
  BY DEF Kinds, Overhead
<1>5. Item(Cell(c.kind, c.field, c.bytes), "key", k) \in Items
  <2>1. c.kind \in Kinds /\ c.field \in Int /\ c.bytes \in Nat \ {0} /\ k \in Int /\ "key" \in Forms \cup {"key"}
    BY <1>1, <1>4
  <2> QED
    BY <2>1, ItemTyped
<1> QED
  BY <1>2, <1>3, <1>5 DEF Item, c

(* An item in its place.                                                   *)
LEMMA ItemPlaced ==
  ASSUME NEW item \in Items, NEW at \in Nat
  PROVE  LET p == Placed(item, at)
         IN  /\ p \in Items
             /\ p.cell.at = at /\ p.cell.kind = item.cell.kind /\ p.cell.field = item.cell.field
             /\ p.cell.bytes = item.cell.bytes /\ BSize(p.cell) = BSize(item.cell)
             /\ p.form = item.form /\ p.n = item.n
<1>1. item = [cell |-> item.cell, form |-> item.form, n |-> item.n]
      /\ item.cell = [kind |-> item.cell.kind, field |-> item.cell.field, bytes |-> item.cell.bytes, at |-> item.cell.at]
      /\ item.cell.kind \in Kinds /\ item.cell.field \in Int /\ item.cell.bytes \in Nat \ {0}
      /\ item.form \in Forms \cup {"key"} /\ item.n \in Int
  BY DEF Items
<1> DEFINE p == Placed(item, at)
           c == [kind |-> item.cell.kind, field |-> item.cell.field, bytes |-> item.cell.bytes, at |-> at]
<1>2. p = [cell |-> c, form |-> item.form, n |-> item.n]
  BY <1>1 DEF Placed
<1>3. p \in Items
  BY <1>1, <1>2 DEF Items
<1>4. BSize(p.cell) = BSize(item.cell)
  BY <1>2 DEF BSize
<1> QED
  BY <1>2, <1>3, <1>4

(* Items one behind the other from Id on, up to the place to.              *)
EndOf(item) == item.cell.at + item.cell.bytes
Laid(ws, to) ==
    /\ ws \in Seq(Items) /\ to \in Nat
    /\ \A j \in DOMAIN ws : EndOf(ws[j]) <= to
    /\ \A i, j \in DOMAIN ws : i < j => EndOf(ws[i]) <= ws[j].cell.at
    /\ \A j \in DOMAIN ws : j + 1 \in DOMAIN ws => ws[j + 1].cell.at = EndOf(ws[j])
    /\ ws = <<>> => to = Id
    /\ ws # <<>> => ws[1].cell.at = Id /\ EndOf(ws[Len(ws)]) = to

(* One item more.                                                          *)
LEMMA LaidMore ==
  ASSUME NEW ws, NEW to, Laid(ws, to), NEW item \in Items, item.cell.at = to
  PROVE  Laid(Append(ws, item), to + item.cell.bytes)
<1> DEFINE n == Len(ws)
           all == Append(ws, item)
           b == item.cell.bytes
<1>1. ws \in Seq(Items) /\ to \in Nat /\ n \in Nat /\ DOMAIN ws = 1 .. n
  BY DEF Laid
<1>2. /\ all \in Seq(Items) /\ Len(all) = n + 1 /\ DOMAIN all = 1 .. n + 1 /\ all # <<>>
      /\ \A j \in 1 .. n : all[j] = ws[j]
      /\ all[n + 1] = item
  BY <1>1
<1>3. b \in Nat /\ EndOf(item) = to + b
  BY DEF Items, EndOf
<1>4. \A j \in 1 .. n : EndOf(ws[j]) \in Nat /\ EndOf(ws[j]) <= to
  <2>1. \A j \in 1 .. n : ws[j] \in Items
    BY <1>1
  <2>2. \A x \in Items : EndOf(x) \in Nat
    BY DEF Items, EndOf
  <2> QED
    BY <1>1, <2>1, <2>2 DEF Laid
<1> HIDE DEF all, n, b
<1>5. ASSUME NEW j \in DOMAIN all PROVE EndOf(all[j]) <= to + b
  <2>1. CASE j = n + 1
    BY <1>1, <1>2, <1>3, <2>1
  <2>2. CASE j # n + 1
    <3>1. j \in 1 .. n /\ all[j] = ws[j]
      BY <1>1, <1>2, <2>2
    <3>2. EndOf(all[j]) \in Nat /\ EndOf(all[j]) <= to
      BY <1>4, <3>1
    <3> QED
      BY <1>1, <1>3, <3>2
  <2> QED
    BY <2>1, <2>2
<1>6. \A i, j \in DOMAIN all : i < j => EndOf(all[i]) <= all[j].cell.at
  <2> SUFFICES ASSUME NEW i \in DOMAIN all, NEW j \in DOMAIN all, i < j PROVE EndOf(all[i]) <= all[j].cell.at
    OBVIOUS
  <2>1. i \in 1 .. n /\ all[i] = ws[i]
    BY <1>1, <1>2
  <2>2. CASE j \in 1 .. n
    BY <1>1, <1>2, <2>1, <2>2 DEF Laid
  <2>3. CASE j = n + 1
    BY <1>2, <1>4, <2>1, <2>3
  <2> QED
    BY <1>1, <1>2, <2>2, <2>3
<1>7. ASSUME NEW j \in DOMAIN all, j + 1 \in DOMAIN all PROVE all[j + 1].cell.at = EndOf(all[j])
  <2>1. j \in 1 .. n /\ all[j] = ws[j]
    BY <1>1, <1>2, <1>7
  <2>2. CASE j + 1 \in 1 .. n
    BY <1>1, <1>2, <2>1, <2>2 DEF Laid
  <2>3. CASE j = n
    <3>1. ws # <<>> /\ EndOf(ws[n]) = to
      BY <1>1, <2>1 DEF Laid, n
    <3> QED
      BY <1>2, <2>1, <2>3, <3>1
  <2> QED
    BY <1>1, <2>1, <2>2, <2>3
<1>8. all[1].cell.at = Id /\ EndOf(all[Len(all)]) = to + b
  <2>1. CASE ws = <<>>
    <3>1. n = 0 /\ to = Id
      BY <2>1 DEF Laid, n
    <3> QED
      BY <1>2, <1>3, <3>1
  <2>2. CASE ws # <<>>
    <3>1. 1 \in 1 .. n
      BY <1>1, <2>2 DEF n
    <3> QED
      BY <1>2, <1>3, <2>2, <3>1 DEF Laid
  <2> QED
    BY <2>1, <2>2
<1> QED
  BY <1>1, <1>2, <1>3, <1>5, <1>6, <1>7, <1>8 DEF Laid, all, b

(* Another length in an item leaves all where they are.                    *)
LEMMA LaidSame ==
  ASSUME NEW ws, NEW to, Laid(ws, to), NEW all \in Seq(Items), Len(all) = Len(ws),
         \A j \in DOMAIN ws : all[j].cell.at = ws[j].cell.at /\ all[j].cell.bytes = ws[j].cell.bytes
  PROVE  Laid(all, to)
<1>1. ws \in Seq(Items) /\ DOMAIN all = DOMAIN ws /\ DOMAIN ws = 1 .. Len(ws) /\ Len(ws) \in Nat
  BY DEF Laid
<1>2. \A j \in DOMAIN ws : EndOf(all[j]) = EndOf(ws[j])
  BY DEF EndOf
<1>3. ws = <<>> <=> all = <<>>
  BY <1>1
<1>4. ws # <<>> => 1 \in DOMAIN ws /\ Len(ws) \in DOMAIN ws
  BY <1>1
<1> QED
  BY <1>1, <1>2, <1>3, <1>4 DEF Laid
-----------------------------------------------------------------------------
(* Where an item is; behind the last one there is nothing.                 *)
At(j) == IF j \in DOMAIN wire THEN wire[j].cell.at ELSE w

(* The next one begins where one ends, and no two begin in one place.      *)
LEMMA AtNext ==
  ASSUME Laid(wire, w), NEW j \in DOMAIN wire
  PROVE  /\ At(j) = wire[j].cell.at /\ At(j + 1) = wire[j].cell.at + wire[j].cell.bytes
         /\ At(j) \in Nat /\ wire[j].cell.bytes \in Nat \ {0} /\ At(j + 1) \in Nat
         /\ At(j) < w /\ At(j + 1) <= w
         /\ \A i \in DOMAIN wire : wire[i].cell.at = At(j) => i = j
<1>1. wire \in Seq(Items) /\ w \in Nat /\ DOMAIN wire = 1 .. Len(wire) /\ Len(wire) \in Nat
  BY DEF Laid
<1>2. \A i \in DOMAIN wire : /\ wire[i].cell.at \in Nat /\ wire[i].cell.bytes \in Nat \ {0}
                             /\ EndOf(wire[i]) = wire[i].cell.at + wire[i].cell.bytes
                             /\ wire[i].cell.at < EndOf(wire[i])
  <2>1. \A i \in DOMAIN wire : wire[i] \in Items
    BY <1>1
  <2>2. \A x \in Items : x.cell.at \in Nat /\ x.cell.bytes \in Nat \ {0} /\ EndOf(x) = x.cell.at + x.cell.bytes
                         /\ x.cell.at < EndOf(x)
    BY DEF Items, EndOf
  <2> QED
    BY <2>1, <2>2
<1>3. At(j) = wire[j].cell.at
  BY DEF At
<1>4. At(j + 1) = EndOf(wire[j])
  <2>1. CASE j + 1 \in DOMAIN wire
    BY <2>1 DEF At, Laid
  <2>2. CASE j + 1 \notin DOMAIN wire
    <3>1. j = Len(wire) /\ wire # <<>>
      BY <1>1, <2>2
    <3> QED
      BY <2>2, <3>1 DEF At, Laid
  <2> QED
    BY <2>1, <2>2
<1>5. EndOf(wire[j]) <= w
  BY DEF Laid
<1>6. ASSUME NEW i \in DOMAIN wire, wire[i].cell.at = At(j) PROVE i = j
  <2>1. CASE i < j
    <3>1. EndOf(wire[i]) <= wire[j].cell.at
      BY <2>1 DEF Laid
    <3> QED
      BY <1>2, <1>3, <1>6, <3>1
  <2>2. CASE j < i
    <3>1. EndOf(wire[j]) <= wire[i].cell.at
      BY <2>2 DEF Laid
    <3> QED
      BY <1>2, <1>3, <1>6, <3>1
  <2> QED
    BY <1>1, <2>1, <2>2
<1> QED
  BY <1>1, <1>2, <1>3, <1>4, <1>5, <1>6
-----------------------------------------------------------------------------
(* The item of a value, with its size or without, and that of a key.       *)
ValueAt(item, v) == /\ item.cell.kind = Filled(v).cell.kind /\ item.cell.bytes = Filled(v).cell.bytes
                    /\ item.form = Filled(v).form /\ item.n = Filled(v).n
                    /\ v.type \notin Branches => BSize(item.cell) = item.cell.bytes
KeyAt(item, k) == item.cell.kind \in {"KEY1", "KEY2"} /\ BSize(item.cell) = item.cell.bytes /\ item.n = k

(* The items are those of the first n values of the tree, of value i at    *)
(* place p[i], each behind its key if it has one.                          *)
Holds(ws, p, n) ==
    /\ p \in [0 .. n -> Nat] /\ p[0] = 0 /\ p[n] = Len(ws)
    /\ \A i \in 1 .. n :
          /\ p[i] \in DOMAIN ws /\ ValueAt(ws[p[i]], tree[i])
          /\ tree[i].key = NoKey => p[i] = p[i - 1] + 1
          /\ tree[i].key # NoKey => p[i] = p[i - 1] + 2 /\ p[i - 1] + 1 \in DOMAIN ws /\ KeyAt(ws[p[i - 1] + 1], tree[i].key)

(* One place more.                                                         *)
Further(p, n, to) == [i \in 0 .. n + 1 |-> IF i <= n THEN p[i] ELSE to]

(* A value written behind those that are there.                            *)
LEMMA HoldsMore ==
  ASSUME NEW ws \in Seq(Items), NEW n \in Nat, NEW p, Holds(ws, p, n), NEW all \in Seq(Items),
         Len(ws) < Len(all), \A j \in DOMAIN ws : all[j] = ws[j],
         ValueAt(all[Len(all)], tree[n + 1]),
         tree[n + 1].key = NoKey => Len(all) = Len(ws) + 1,
         tree[n + 1].key # NoKey => Len(all) = Len(ws) + 2 /\ KeyAt(all[Len(ws) + 1], tree[n + 1].key)
  PROVE  LET q == Further(p, n, Len(all))
         IN  Holds(all, q, n + 1) /\ q[n + 1] = Len(all) /\ \A i \in 0 .. n : q[i] = p[i]
<1> DEFINE q == Further(p, n, Len(all))
           L == Len(all)
<1>1. Len(ws) \in Nat /\ DOMAIN ws = 1 .. Len(ws) /\ L \in Nat /\ DOMAIN all = 1 .. L
      /\ Len(ws) < L /\ L \in 1 .. L /\ Len(ws) + 1 \in 1 .. L
  OBVIOUS
<1>2. p \in [0 .. n -> Nat] /\ p[0] = 0 /\ p[n] = Len(ws)
  BY DEF Holds
<1> HIDE DEF L
<1>3. /\ q \in [0 .. n + 1 -> Nat] /\ q[n + 1] = L /\ \A i \in 0 .. n : q[i] = p[i]
  <2>1. q = [i \in 0 .. n + 1 |-> IF i <= n THEN p[i] ELSE L]
    BY DEF Further, L
  <2>2. n + 1 \in 0 .. n + 1 /\ ~(n + 1 <= n) /\ \A i \in 0 .. n : i \in 0 .. n + 1 /\ i <= n
    OBVIOUS
  <2>3. \A i \in 0 .. n + 1 : i <= n => i \in 0 .. n
    OBVIOUS
  <2> HIDE DEF q
  <2> QED
    BY <1>1, <1>2, <2>1, <2>2, <2>3
<1> HIDE DEF q
<1>4. q[0] = 0
  BY <1>2, <1>3
<1>5. ASSUME NEW i \in 1 .. n + 1
      PROVE  /\ q[i] \in DOMAIN all /\ ValueAt(all[q[i]], tree[i])
             /\ tree[i].key = NoKey => q[i] = q[i - 1] + 1
             /\ tree[i].key # NoKey => q[i] = q[i - 1] + 2 /\ q[i - 1] + 1 \in DOMAIN all /\ KeyAt(all[q[i - 1] + 1], tree[i].key)
  <2>1. CASE i \in 1 .. n
    <3>1. q[i] = p[i] /\ q[i - 1] = p[i - 1]
      BY <1>3, <2>1
    <3>2. /\ p[i] \in DOMAIN ws /\ ValueAt(ws[p[i]], tree[i])
          /\ tree[i].key = NoKey => p[i] = p[i - 1] + 1
          /\ tree[i].key # NoKey => p[i] = p[i - 1] + 2 /\ p[i - 1] + 1 \in DOMAIN ws /\ KeyAt(ws[p[i - 1] + 1], tree[i].key)
      BY <2>1 DEF Holds
    <3>3. \A j \in DOMAIN ws : j \in DOMAIN all /\ all[j] = ws[j]
      <4>1. \A j \in 1 .. Len(ws) : j \in 1 .. L
        BY <1>1
      <4> QED
        BY <1>1, <4>1
    <3> QED
      BY <3>1, <3>2, <3>3
  <2>2. CASE i = n + 1
    <3>1. q[i] = L /\ q[i - 1] = Len(ws) /\ L \in DOMAIN all /\ Len(ws) + 1 \in DOMAIN all
      <4>1. i - 1 = n /\ n \in 0 .. n
        BY <2>2
      <4>2. L \in DOMAIN all /\ Len(ws) + 1 \in DOMAIN all
        BY <1>1
      <4> QED
        BY <1>2, <1>3, <2>2, <4>1, <4>2
    <3> QED
      BY <2>2, <3>1 DEF L
  <2> QED
    BY <2>1, <2>2
<1> QED
  BY <1>3, <1>4, <1>5 DEF Holds, q, L

(* The places are in the order of the values.                              *)
LEMMA HoldsOrder ==
  ASSUME NEW ws, NEW n \in Nat, NEW p, Holds(ws, p, n)
  PROVE  \A i, j \in 0 .. n : i < j => p[i] < p[j]
<1> DEFINE S == {m \in Nat : \A i, j \in 0 .. n : i < j /\ j <= m => p[i] < p[j]}
<1>1. 0 \in S
  OBVIOUS
<1>2. \A i \in 0 .. n : p[i] \in Nat
  BY DEF Holds
<1>3. \A i \in 1 .. n : p[i - 1] < p[i]
  <2> SUFFICES ASSUME NEW i \in 1 .. n PROVE p[i - 1] < p[i]
    OBVIOUS
  <2>1. i - 1 \in 0 .. n /\ i \in 0 .. n
    OBVIOUS
  <2>2. p[i] = p[i - 1] + 1 \/ p[i] = p[i - 1] + 2
    BY DEF Holds
  <2> QED
    BY <1>2, <2>1, <2>2
<1>4. ASSUME NEW m \in Nat, m \in S PROVE m + 1 \in S
  <2> SUFFICES ASSUME NEW i \in 0 .. n, NEW j \in 0 .. n, i < j, j <= m + 1 PROVE p[i] < p[j]
    OBVIOUS
  <2>1. CASE j <= m
    BY <1>4, <2>1
  <2>2. CASE j = m + 1
    <3>1. j \in 1 .. n /\ j - 1 = m /\ m \in 0 .. n /\ p[m] < p[j] /\ (i = m \/ (i < m /\ p[i] < p[m]))
      BY <1>3, <1>4, <2>2
    <3> QED
      BY <1>2, <3>1
  <2> QED
    BY <2>1, <2>2
<1>5. Nat \subseteq S
  <2> HIDE DEF S
  <2> QED
    BY <1>1, <1>4, SetInduction
<1>6. n \in S
  BY <1>5
<1> QED
  BY <1>6

(* Which objects and arrays are being written: p is where the items are.   *)
OpenInv(p) ==
    /\ open \in Seq([value : Nat, at : Nat])
    /\ \A d \in DOMAIN open : /\ open[d].value \in 1 .. next - 1
                              /\ open[d].at = p[open[d].value]
                              /\ tree[open[d].value].type \in Branches
    /\ \A d \in DOMAIN open : Around[open[d].value] = {open[e].value : e \in 1 .. d}

(* The next value's parent is one of them; the first is written last, and  *)
(* its size is then that of all there is.                                  *)
RootInv == /\ next = 1 => open = <<>>
           /\ open # <<>> => open[1].value = 1
           /\ next > 1 /\ open = <<>> => next > Len(tree) /\ End = w
           /\ next > 1 /\ next <= Len(tree) => \E d \in DOMAIN open : open[d].value = tree[next].parent

(* Where a value ends, as its own item has it.                             *)
SpanAt(p, j) == wire[p[j]].cell.at + BSize(wire[p[j]].cell)

(* What is being written is around all that follows it; what is not has    *)
(* the end of what it is around, and of nothing behind.                    *)
SpanInv(p) ==
    /\ \A d \in DOMAIN open : \A i \in open[d].value .. next - 1 : open[d].value \in Around[i]
    /\ \A d, e \in DOMAIN open : d < e => open[d].value < open[e].value
    /\ \A j \in 1 .. next - 1 : tree[j].type \in Branches /\ (\A d \in DOMAIN open : open[d].value # j) =>
          /\ SpanAt(p, j) <= w
          /\ \A i \in j .. Len(tree) : j \in Around[i] => i < next /\ At(p[i] + 1) <= SpanAt(p, j)
          /\ \A i \in j + 1 .. next - 1 : j \notin Around[i] => SpanAt(p, j) <= At(p[i - 1] + 1)

(* What is written: items one behind the other, of the values so far.      *)
WireInv(p) == Laid(wire, w) /\ Holds(wire, p, next - 1) /\ OpenInv(p) /\ SpanInv(p)

(* What is written is as long as wire_size has it for the values so far.   *)
WriteInv == /\ next \in Nat \ {0} /\ next <= Len(tree) + 1
            /\ w = Id + SizeOf[next - 1]
            /\ RootInv
            /\ \E p : WireInv(p)

(* Nothing written.                                                        *)
Blank == wire = <<>> /\ w = Id /\ next = 1 /\ open = <<>>

(* Before the first value, all of this holds.                              *)
LEMMA BlankWrite == TreeInv /\ Blank => WriteInv
<1> SUFFICES ASSUME TreeInv, Blank PROVE WriteInv
  OBVIOUS
<1> DEFINE p == [i \in 0 .. 0 |-> 0]
<1>1. tree \in Seq(TreeValues) /\ Len(tree) \in Nat /\ SizeOf[0] = 0
  BY SizeTrue DEF TreeInv, Ordered, SizesOf
<1>2. Laid(wire, w)
  <2>1. wire \in Seq(Items) /\ w \in Nat /\ DOMAIN wire = {} /\ w = Id
    BY DEF Blank, Id
  <2> QED
    BY <2>1 DEF Laid, Blank
<1>3. Holds(wire, p, next - 1)
  <2>1. next - 1 = 0 /\ Len(wire) = 0 /\ 0 \in 0 .. 0 /\ 1 .. 0 = {}
    BY DEF Blank
  <2>2. p \in [0 .. 0 -> Nat] /\ p[0] = 0
    BY <2>1
  <2> HIDE DEF p
  <2> QED
    BY <2>1, <2>2 DEF Holds
<1>4. OpenInv(p)
  <2>1. open \in Seq([value : Nat, at : Nat]) /\ DOMAIN open = {}
    BY DEF Blank
  <2> QED
    BY <2>1 DEF OpenInv
<1> HIDE DEF p
<1>5. WireInv(p)
  <2>1. DOMAIN open = {} /\ 1 .. next - 1 = {}
    BY DEF Blank
  <2>2. SpanInv(p)
    BY <2>1 DEF SpanInv
  <2> QED
    BY <1>2, <1>3, <1>4, <2>2 DEF WireInv
<1>6. RootInv
  BY DEF Blank, RootInv
<1>7. next \in Nat \ {0} /\ next <= Len(tree) + 1 /\ w = Id + SizeOf[next - 1]
  <2>1. next - 1 = 0
    BY DEF Blank
  <2> QED
    BY <1>1, <2>1 DEF Blank, Id
<1> QED
  BY <1>5, <1>6, <1>7 DEF WriteInv

(* What is defined by the tree is kept with it.                            *)
LEMMA TreeKept ==
  ASSUME tree' = tree
  PROVE  Around' = Around /\ SizeOf' = SizeOf
BY DEF Around, SizeOf

(* The same tree is one.                                                   *)
LEMMA SameTree ==
  ASSUME TreeInv, tree' = tree
  PROVE  TreeInv'
<1>1. Around' = Around
  BY TreeKept
<1> QED
  BY <1>1 DEF TreeInv, Ordered

(* A value, with its key, and the part of the size that is counted for it. *)
LEMMA FillWire ==
  ASSUME TreeInv, WriteInv, Fill, NEW p, WireInv(p)
  PROVE  LET q == Further(p, next - 1, Len(wire'))
         IN  /\ Laid(wire', w') /\ Holds(wire', q, next)
             /\ q[next] = Len(wire') /\ \A i \in 0 .. next - 1 : q[i] = p[i]
             /\ w' = Id + SizeOf[next]
             /\ wire' \in Seq(Items) /\ wire' # <<>>
             /\ Len(wire) < Len(wire') /\ \A j \in DOMAIN wire : wire'[j] = wire[j]
             /\ next = 1 /\ tree[next].type \notin Branches => Id + BSize(wire'[1].cell) = w'
<1> DEFINE v == tree[next]
           k == v.key
           item == Placed(Filled(v), Behind(k))
           ki == Placed(KeyItem(k), w)
           b == Filled(v).cell.bytes
           kb == KeyCell(k).bytes
<1>1. /\ next \in 1 .. Len(tree) /\ next \in Nat \ {0} /\ tree \in Seq(TreeValues) /\ v \in TreeValues
      /\ w = Id + SizeOf[next - 1]
      /\ Laid(wire, w) /\ Holds(wire, p, next - 1)
  <2>1. next <= Len(tree)
    BY DEF Fill, MemberNext
  <2> QED
    BY <2>1 DEF WriteInv, WireInv, TreeInv, Ordered
<1>2. wire' = Append(Keyed(k), item) /\ w' = Behind(k) + b
  BY Zenon DEF Fill
<1>3. wire \in Seq(Items) /\ w \in Nat
  BY <1>1 DEF Laid
<1>4. /\ Filled(v) \in Items /\ b \in Nat \ {0} /\ b = OwnSize(v) /\ Filled(v).cell.kind \in Kinds \ {"KEY1", "KEY2"}
      /\ v.type \notin Branches => BSize(Filled(v).cell) = b
  BY <1>1, ItemFilled, ValueFilled DEF FilledAs
<1>5. v.key = NoKey => KeySize(k) = 0
  BY <1>1, Counted
<1>6. v.key # NoKey => /\ k \in KeyLengths /\ KeyItem(k) \in Items /\ KeyItem(k).cell = KeyCell(k)
                       /\ KeyCell(k).kind \in {"KEY1", "KEY2"} /\ BSize(KeyCell(k)) = kb /\ kb = KeySize(k) /\ kb \in Nat
  BY <1>1, Counted, ItemKey, KeyFilled
<1>7. SizeOf[next] = SizeOf[next - 1] + b + KeySize(k) /\ SizeOf[next - 1] \in Nat
  <2>1. SizeOf[next] = SizeOf[next - 1] + OwnSize(v) + KeySize(k)
    BY <1>1, SizeTrue DEF SizesOf
  <2>2. next - 1 \in 0 .. Len(tree)
    BY <1>1
  <2>3. SizeOf[next - 1] \in Nat
    BY <1>1, <2>2, SizesGrow
  <2> QED
    BY <1>4, <2>1, <2>3
<1> HIDE DEF v, k, item, ki, b, kb
<1>8. /\ Behind(k) \in Nat /\ Keyed(k) \in Seq(Items) /\ Laid(Keyed(k), Behind(k))
      /\ Behind(k) = w + KeySize(k) /\ KeySize(k) \in Nat
      /\ k = NoKey => Keyed(k) = wire /\ Behind(k) = w
      /\ k # NoKey => Keyed(k) = Append(wire, ki) /\ KeyAt(ki, k)
  <2>1. CASE k = NoKey
    <3>1. Keyed(k) = wire /\ Behind(k) = w /\ KeySize(k) = 0
      BY <1>5, <2>1 DEF Keyed, Behind, k
    <3> QED
      BY <1>1, <1>3, <2>1, <3>1
  <2>2. CASE k # NoKey
    <3>1. Keyed(k) = Append(wire, ki) /\ Behind(k) = w + kb
      BY <2>2 DEF Keyed, Behind, ki, kb
    <3>2. KeyItem(k) \in Items /\ KeyItem(k).cell = KeyCell(k) /\ KeyCell(k).kind \in {"KEY1", "KEY2"}
          /\ BSize(KeyCell(k)) = kb /\ kb = KeySize(k) /\ kb \in Nat
      BY <1>6, <2>2 DEF k
    <3>3. /\ ki \in Items /\ ki.cell.at = w /\ ki.cell.kind = KeyCell(k).kind /\ ki.cell.bytes = kb
          /\ BSize(ki.cell) = kb
      <4> DEFINE x == KeyItem(k)
      <4>1. x \in Items /\ x.cell = KeyCell(k) /\ x.cell.bytes = kb /\ ki = Placed(x, w)
        BY <3>2 DEF ki, kb
      <4> HIDE DEF x
      <4>2. /\ Placed(x, w) \in Items /\ Placed(x, w).cell.at = w /\ Placed(x, w).cell.kind = x.cell.kind
            /\ Placed(x, w).cell.bytes = x.cell.bytes /\ BSize(Placed(x, w).cell) = BSize(x.cell)
        BY <1>3, <4>1, ItemPlaced
      <4> QED
        BY <3>2, <4>1, <4>2
    <3>4. Laid(Append(wire, ki), w + kb)
      BY <1>1, <3>3, LaidMore
    <3>5. KeyAt(ki, k)
      <4>1. ki.n = k
        <5>1. ki.n = KeyItem(k).n
          BY <1>3, <3>2, ItemPlaced DEF ki
        <5> QED
          BY <5>1 DEF KeyItem, Item
      <4> QED
        BY <3>2, <3>3, <4>1 DEF KeyAt
    <3>6. Append(wire, ki) \in Seq(Items)
      BY <1>3, <3>3
    <3> QED
      BY <1>3, <2>2, <3>1, <3>2, <3>4, <3>5, <3>6
  <2> QED
    BY <2>1, <2>2
<1>9. /\ item \in Items /\ item.cell.at = Behind(k) /\ item.cell.bytes = b /\ ValueAt(item, v)
      /\ BSize(item.cell) = BSize(Filled(v).cell)
  <2>1. /\ item \in Items /\ item.cell.at = Behind(k) /\ item.cell.kind = Filled(v).cell.kind
        /\ item.cell.bytes = b /\ BSize(item.cell) = BSize(Filled(v).cell)
        /\ item.form = Filled(v).form /\ item.n = Filled(v).n
    BY <1>4, <1>8, ItemPlaced DEF item, b
  <2> QED
    BY <1>4, <2>1 DEF ValueAt, b
<1>10. Laid(wire', w')
  <2>1. Laid(Append(Keyed(k), item), Behind(k) + item.cell.bytes)
    BY <1>8, <1>9, LaidMore
  <2> QED
    BY <1>2, <1>9, <2>1
<1>11. w' = Id + SizeOf[next]
  <2>1. w' = (w + KeySize(k)) + b /\ w = Id + SizeOf[next - 1] /\ SizeOf[next] = SizeOf[next - 1] + b + KeySize(k)
    BY <1>1, <1>2, <1>7, <1>8
  <2> DEFINE s == SizeOf[next - 1]
             a == KeySize(k)
  <2>2. s \in Nat /\ a \in Nat /\ b \in Nat /\ Id \in Nat
    BY <1>4, <1>7, <1>8 DEF Id
  <2>3. w' = ((Id + s) + a) + b /\ SizeOf[next] = s + b + a
    BY <2>1
  <2> HIDE DEF s, a
  <2> QED
    BY <2>2, <2>3
<1>12. /\ wire' \in Seq(Items) /\ Len(wire) < Len(wire') /\ \A j \in DOMAIN wire : wire'[j] = wire[j]
       /\ wire'[Len(wire')] = item /\ wire' # <<>>
       /\ k = NoKey => Len(wire') = Len(wire) + 1
       /\ k # NoKey => Len(wire') = Len(wire) + 2 /\ KeyAt(wire'[Len(wire) + 1], k)
  <2>1. CASE k = NoKey
    BY <1>2, <1>3, <1>8, <1>9, <2>1
  <2>2. CASE k # NoKey
    <3> DEFINE W == Append(wire, ki)
    <3>1. W \in Seq(Items) /\ wire' = Append(W, item) /\ KeyAt(ki, k)
      BY <1>2, <1>8, <2>2
    <3>2. Len(W) = Len(wire) + 1 /\ W[Len(wire) + 1] = ki /\ \A j \in DOMAIN wire : j \in DOMAIN W /\ W[j] = wire[j]
      BY <1>3
    <3> HIDE DEF W
    <3>3. /\ wire' \in Seq(Items) /\ Len(wire') = Len(W) + 1 /\ wire'[Len(W) + 1] = item
          /\ \A j \in DOMAIN W : wire'[j] = W[j]
      BY <1>9, <3>1
    <3>4. Len(wire) + 1 \in DOMAIN W
      BY <3>1, <3>2, <1>3
    <3> QED
      BY <1>3, <2>2, <3>1, <3>2, <3>3, <3>4
  <2> QED
    BY <2>1, <2>2
<1>13. LET q == Further(p, next - 1, Len(wire'))
       IN  Holds(wire', q, next) /\ q[next] = Len(wire') /\ \A i \in 0 .. next - 1 : q[i] = p[i]
  <2> DEFINE n == next - 1
  <2>1. n \in Nat /\ n + 1 = next
    BY <1>1
  <2>2. /\ ValueAt(wire'[Len(wire')], tree[n + 1])
        /\ tree[n + 1].key = NoKey => Len(wire') = Len(wire) + 1
        /\ tree[n + 1].key # NoKey => Len(wire') = Len(wire) + 2 /\ KeyAt(wire'[Len(wire) + 1], tree[n + 1].key)
    BY <1>9, <1>12, <2>1 DEF v, k
  <2>3. Holds(wire, p, n)
    BY <1>1
  <2> HIDE DEF n
  <2>4. LET q == Further(p, n, Len(wire'))
        IN  Holds(wire', q, n + 1) /\ q[n + 1] = Len(wire') /\ \A i \in 0 .. n : q[i] = p[i]
    BY <1>3, <1>12, <2>1, <2>2, <2>3, HoldsMore
  <2> QED
    BY <2>1, <2>4 DEF n
<1>14. next = 1 /\ tree[next].type \notin Branches => Id + BSize(wire'[1].cell) = w'
  <2> SUFFICES ASSUME next = 1, v.type \notin Branches PROVE Id + BSize(wire'[1].cell) = w'
    BY DEF v
  <2>1. k = NoKey
    BY DEF v, k, TreeInv, Fill, MemberNext
  <2>2. p[0] = 0 /\ p[0] = Len(wire)
    <3>1. next - 1 = 0
      OBVIOUS
    <3> QED
      BY <1>1, <3>1 DEF Holds
  <2>3. wire = <<>> /\ w = Id
    <3>1. wire = <<>>
      BY <1>3, <2>2
    <3> QED
      BY <1>1, <3>1 DEF Laid
  <2>4. Len(wire') = 1 /\ wire'[1] = item
    BY <1>12, <2>1, <2>2
  <2> QED
    BY <1>2, <1>4, <1>8, <1>9, <2>1, <2>3, <2>4 DEF v, b
<1> QED
  BY <1>10, <1>11, <1>12, <1>13, <1>14

(* The size of an item, whatever its field.                                *)
LEMMA BSizeInt ==
  ASSUME NEW item \in Items
  PROVE  BSize(item.cell) \in Int /\ item.cell.at \in Nat /\ item.cell.at + BSize(item.cell) \in Int
<1>1. item.cell.kind \in Kinds /\ item.cell.field \in Int /\ item.cell.at \in Nat
  BY DEF Items
<1>2. Overhead[item.cell.kind] \in Nat
  BY <1>1, FixedIs
<1>3. BSize(item.cell) \in Int
  BY <1>1, <1>2 DEF BSize
<1> QED
  BY <1>1, <1>3

(* One value more: those being written are around it too, the others have  *)
(* ended before it.                                                        *)
LEMMA FillSpan ==
  ASSUME TreeInv, WriteInv, Fill, NEW p, WireInv(p), NEW q,
         Laid(wire', w'), wire' \in Seq(Items), Len(wire) < Len(wire'), \A j \in DOMAIN wire : wire'[j] = wire[j],
         \A i \in 0 .. next - 1 : q[i] = p[i],
         Around[tree[next].parent] = {open[e].value : e \in 1 .. Len(open)}
  PROVE  SpanInv(q)'
<1> DEFINE D == Len(open)
           n == next - 1
           branch == tree[next].type \in Branches
           fresh == [value |-> next, at |-> Len(wire')]
<1>0. PICK L : L = Len(wire)
  OBVIOUS
<1>1. /\ tree' = tree /\ next' = next + 1 /\ Around' = Around
      /\ open' = IF branch THEN Append(open, fresh) ELSE open
  BY TreeKept DEF Fill
<1>2. /\ next \in 1 .. Len(tree) /\ Len(tree) \in Nat /\ next \in Nat /\ n \in Nat /\ n + 1 = next /\ tree \in Seq(TreeValues)
  <2>1. next <= Len(tree)
    BY DEF Fill, MemberNext
  <2> QED
    BY <2>1 DEF WriteInv, TreeInv, Ordered
<1>3. /\ open \in Seq([value : Nat, at : Nat]) /\ D \in Nat /\ DOMAIN open = 1 .. D
      /\ \A d \in 1 .. D : open[d].value \in 1 .. n
      /\ Laid(wire, w) /\ wire \in Seq(Items) /\ w \in Nat /\ L \in Nat /\ DOMAIN wire = 1 .. L
      /\ Holds(wire, p, n) /\ SpanInv(p)
  BY <1>0 DEF WireInv, OpenInv, Laid
<1>4. Around[next] = {next} \cup {open[e].value : e \in 1 .. D}
  BY <1>2, AroundTrue DEF TreeInv, AroundIs
<1>5. /\ \A d \in DOMAIN open' : d \in 1 .. D \/ (d = D + 1 /\ branch)
      /\ \A d \in 1 .. D : d \in DOMAIN open' /\ open'[d] = open[d]
      /\ branch => D + 1 \in DOMAIN open' /\ open'[D + 1].value = next
  <2>1. CASE branch
    <3>1. fresh \in [value : Nat, at : Nat]
      BY <1>2
    <3>2. fresh.value = next
      OBVIOUS
    <3> HIDE DEF fresh, D, branch
    <3>3. open' = Append(open, fresh) /\ Len(open) = D
      BY <1>1, <2>1 DEF D
    <3>4. DOMAIN open' = 1 .. D + 1 /\ open'[D + 1] = fresh /\ \A d \in 1 .. D : open'[d] = open[d]
      BY <1>3, <3>1, <3>3
    <3> QED
      BY <1>3, <2>1, <3>2, <3>4
  <2>2. CASE ~branch
    <3> HIDE DEF fresh, D, branch
    <3> QED
      BY <1>1, <1>3, <2>2
  <2> QED
    BY <2>1, <2>2
<1>6. \A d \in 1 .. D : /\ \A i \in open[d].value .. n : open[d].value \in Around[i]
                        /\ \A e \in 1 .. D : d < e => open[d].value < open[e].value
  BY <1>3 DEF SpanInv
<1>7. ASSUME NEW j \in 1 .. n, tree[j].type \in Branches, \A d \in 1 .. D : open[d].value # j
      PROVE  /\ SpanAt(p, j) <= w
             /\ \A i \in j .. Len(tree) : j \in Around[i] => i < next /\ At(p[i] + 1) <= SpanAt(p, j)
             /\ \A i \in j + 1 .. n : j \notin Around[i] => SpanAt(p, j) <= At(p[i - 1] + 1)
  BY <1>3, <1>7 DEF SpanInv
<1> HIDE DEF D, n, branch, fresh
<1>8. \A i \in 1 .. L + 1 : At(i)' = At(i)
  <2>1. /\ Len(wire') \in Nat /\ DOMAIN wire' = 1 .. Len(wire') /\ L < Len(wire')
    BY <1>0, <1>3
  <2>2. ASSUME NEW i \in 1 .. L PROVE At(i)' = At(i)
    <3>1. i \in DOMAIN wire /\ i \in DOMAIN wire' /\ wire'[i] = wire[i]
      <4>1. i \in DOMAIN wire
        BY <1>3
      <4>2. i \in DOMAIN wire'
        BY <1>3, <2>1
      <4> QED
        BY <4>1, <4>2
    <3> QED
      BY <3>1 DEF At
  <2>3. At(L + 1)' = w
    <3>1. L + 1 \in DOMAIN wire'
      BY <1>3, <2>1
    <3>2. CASE L = 0
      <4>1. wire = <<>> /\ wire' # <<>>
        BY <1>0, <1>3, <2>1, <3>2
      <4>2. w = Id /\ wire'[1].cell.at = Id
        BY <1>3, <4>1 DEF Laid
      <4> QED
        BY <3>1, <3>2, <4>2 DEF At
    <3>3. CASE L # 0
      <4>1. L \in DOMAIN wire /\ L \in DOMAIN wire' /\ wire # <<>> /\ wire'[L] = wire[L]
        BY <1>0, <1>3, <2>1, <3>3
      <4>2. EndOf(wire[L]) = w
        BY <1>0, <1>3, <4>1 DEF Laid
      <4>3. wire'[L + 1].cell.at = EndOf(wire'[L])
        BY <3>1, <4>1 DEF Laid
      <4> QED
        BY <3>1, <4>1, <4>2, <4>3 DEF At
    <3> QED
      BY <3>2, <3>3
  <2>4. At(L + 1) = w
    BY <1>3 DEF At
  <2> QED
    BY <1>3, <2>2, <2>3, <2>4
<1>9. /\ \A i \in 0 .. n : q[i] = p[i] /\ p[i] + 1 \in 1 .. L + 1
      /\ \A j \in 1 .. n : p[j] \in DOMAIN wire /\ wire'[p[j]] = wire[p[j]]
      /\ p[n] = L
  <2>1. p[0] = 0 /\ p[n] = L /\ \A i \in 1 .. n : p[i] \in 1 .. L
    BY <1>0, <1>3 DEF Holds
  <2>2. \A i \in 0 .. n : i = 0 \/ i \in 1 .. n
    BY <1>2
  <2>3. 0 + 1 \in 1 .. L + 1 /\ \A i \in 1 .. L : i + 1 \in 1 .. L + 1
    BY <1>3
  <2>4. \A i \in 0 .. n : p[i] + 1 \in 1 .. L + 1
    BY <2>1, <2>2, <2>3
  <2> QED
    BY <1>3, <2>1, <2>4 DEF n
<1>10. \A j \in 1 .. n : SpanAt(q, j)' = SpanAt(p, j)
  <2>1. \A j \in 1 .. n : j \in 0 .. n
    BY <1>2
  <2> QED
    BY <1>9, <2>1 DEF SpanAt
<1>11. \A i \in 0 .. n : (At(q[i] + 1))' = At(p[i] + 1)
  BY <1>8, <1>9
<1>12. ASSUME NEW d \in DOMAIN open', NEW i \in open'[d].value .. next
       PROVE  open'[d].value \in Around[i]
  <2>1. CASE d \in 1 .. D /\ i # next
    <3>1. open'[d] = open[d] /\ i \in open[d].value .. n
      BY <1>2, <1>3, <1>5, <2>1
    <3> QED
      BY <1>6, <2>1, <3>1
  <2>2. CASE d \in 1 .. D /\ i = next
    BY <1>4, <1>5, <2>2
  <2>3. CASE d = D + 1 /\ branch
    <3>1. i = next
      BY <1>2, <1>5, <2>3
    <3> QED
      BY <1>4, <1>5, <2>3, <3>1
  <2> QED
    BY <1>5, <2>1, <2>2, <2>3
<1>13. ASSUME NEW d \in DOMAIN open', NEW e \in DOMAIN open', d < e
       PROVE  open'[d].value < open'[e].value
  <2>1. d \in 1 .. D
    BY <1>3, <1>5, <1>13
  <2>2. CASE e \in 1 .. D
    BY <1>5, <1>6, <1>13, <2>1, <2>2
  <2>3. CASE e = D + 1 /\ branch
    BY <1>2, <1>3, <1>5, <2>1, <2>3
  <2> QED
    BY <1>5, <2>2, <2>3
<1>14. ASSUME NEW j \in 1 .. next, tree[j].type \in Branches, \A d \in DOMAIN open' : open'[d].value # j
       PROVE  /\ SpanAt(q, j)' <= w'
              /\ \A i \in j .. Len(tree) : j \in Around[i] => i < next + 1 /\ (At(q[i] + 1))' <= SpanAt(q, j)'
              /\ \A i \in j + 1 .. next : j \notin Around[i] => SpanAt(q, j)' <= (At(q[i - 1] + 1))'
  <2>1. j \in 1 .. n /\ \A d \in 1 .. D : open[d].value # j
    <3>1. j # next
      BY <1>5, <1>14 DEF branch
    <3> QED
      BY <1>2, <1>5, <1>14, <3>1
  <2>2. /\ SpanAt(p, j) <= w /\ SpanAt(q, j)' = SpanAt(p, j)
        /\ \A i \in j .. Len(tree) : j \in Around[i] => i < next /\ At(p[i] + 1) <= SpanAt(p, j)
        /\ \A i \in j + 1 .. n : j \notin Around[i] => SpanAt(p, j) <= At(p[i - 1] + 1)
    BY <1>7, <1>10, <1>14, <2>1
  <2>3. SpanAt(p, j) \in Int /\ w <= w' /\ w' \in Nat
    <3>1. wire[p[j]] \in Items
      BY <1>3, <1>9, <2>1
    <3>2. SpanAt(p, j) \in Int
      BY <3>1, BSizeInt DEF SpanAt
    <3>3. w <= w' /\ w' \in Nat
      <4>1. L + 1 \in 1 .. L + 1 /\ L + 1 \in DOMAIN wire'
        BY <1>0, <1>3
      <4>2. At(L + 1)' = w
        BY <1>3, <1>8, <4>1 DEF At
      <4>3. wire'[L + 1].cell.at = w
        BY <4>1, <4>2 DEF At
      <4>4. EndOf(wire'[L + 1]) <= w' /\ w' \in Nat
        BY <4>1 DEF Laid
      <4>5. wire'[L + 1] \in Items
        BY <4>1
      <4> QED
        BY <4>3, <4>4, <4>5 DEF Items, EndOf
    <3> QED
      BY <3>2, <3>3
  <2>4. SpanAt(q, j)' <= w'
    BY <1>3, <2>2, <2>3
  <2>5. ASSUME NEW i \in j .. Len(tree), j \in Around[i]
        PROVE  i < next + 1 /\ (At(q[i] + 1))' <= SpanAt(q, j)'
    <3>1. i < next /\ At(p[i] + 1) <= SpanAt(p, j)
      BY <2>2, <2>5
    <3>2. i \in 0 .. n /\ i < next + 1
      BY <1>2, <2>1, <3>1
    <3> QED
      BY <1>11, <2>2, <3>1, <3>2
  <2>6. ASSUME NEW i \in j + 1 .. next, j \notin Around[i]
        PROVE  SpanAt(q, j)' <= (At(q[i - 1] + 1))'
    <3>1. i - 1 \in 0 .. n
      BY <1>2, <2>1
    <3>2. (At(q[i - 1] + 1))' = At(p[i - 1] + 1)
      BY <1>11, <3>1
    <3>3. CASE i # next
      <4>1. i \in j + 1 .. n
        BY <1>2, <2>1, <3>3
      <4> QED
        BY <2>2, <2>6, <3>2, <4>1
    <3>4. CASE i = next
      <4>1. i - 1 = n /\ At(p[n] + 1) = w
        BY <1>2, <1>3, <1>9, <3>4 DEF At
      <4> QED
        BY <2>2, <3>2, <4>1
    <3> QED
      BY <3>3, <3>4
  <2> QED
    BY <2>4, <2>5, <2>6
<1>15. next' - 1 = next
  BY <1>1, <1>2
<1> QED
  BY <1>1, <1>12, <1>13, <1>14, <1>15 DEF SpanInv

(* wire_fill of one value keeps what is true of what is written.           *)
LEMMA FillWrite ==
  ASSUME TreeInv, WriteInv, Fill
  PROVE  WriteInv'
<1>1. PICK p : WireInv(p)
  BY DEF WriteInv
<1> DEFINE v == tree[next]
           fresh == [value |-> next, at |-> Len(wire')]
<1>2. PICK q :
      /\ Laid(wire', w') /\ Holds(wire', q, next)
      /\ q[next] = Len(wire') /\ \A i \in 0 .. next - 1 : q[i] = p[i]
      /\ w' = Id + SizeOf[next]
      /\ wire' \in Seq(Items) /\ wire' # <<>>
      /\ Len(wire) < Len(wire') /\ \A j \in DOMAIN wire : wire'[j] = wire[j]
      /\ next = 1 /\ v.type \notin Branches => Id + BSize(wire'[1].cell) = w'
  BY <1>1, FillWire
<1>3. /\ tree' = tree /\ next' = next + 1 /\ Around' = Around /\ SizeOf' = SizeOf
      /\ open' = IF v.type \in Branches THEN Append(open, fresh) ELSE open
  BY TreeKept DEF Fill
<1>4. /\ next \in 1 .. Len(tree) /\ Len(tree) \in Nat /\ next \in Nat /\ tree \in Seq(TreeValues)
      /\ RootInv
      /\ open # <<>> => tree[next].parent = Innermost(open).value
  <2>1. next <= Len(tree) /\ (open # <<>> => tree[next].parent = Innermost(open).value)
    BY DEF Fill, MemberNext
  <2> QED
    BY <2>1 DEF WriteInv, TreeInv, Ordered
<1>5. /\ open \in Seq([value : Nat, at : Nat])
      /\ \A d \in DOMAIN open : /\ open[d].value \in 1 .. next - 1
                                /\ open[d].at = p[open[d].value]
                                /\ tree[open[d].value].type \in Branches
      /\ \A d \in DOMAIN open : Around[open[d].value] = {open[e].value : e \in 1 .. d}
  BY <1>1 DEF WireInv, OpenInv
<1> DEFINE D == Len(open)
<1>6. D \in Nat /\ DOMAIN open = 1 .. D /\ (open # <<>> => D \in 1 .. D) /\ (open = <<>> => D = 0)
  BY <1>5
<1>7. open = <<>> => next = 1
  <2>1. next > 1 => \E d \in DOMAIN open : open[d].value = tree[next].parent
    BY <1>4 DEF RootInv
  <2> QED
    BY <1>4, <2>1
<1>8. Around[v.parent] = {open[e].value : e \in 1 .. D}
  <2>1. CASE open = <<>>
    <3>1. v.parent = 0 /\ Around[0] = {} /\ 1 .. D = {}
      BY <1>4, <1>6, <1>7, <2>1, AroundTrue DEF TreeInv, AroundIs
    <3> QED
      BY <3>1
  <2>2. CASE open # <<>>
    <3>1. v.parent = open[D].value /\ D \in DOMAIN open
      BY <1>4, <1>6, <2>2 DEF Innermost
    <3> QED
      BY <1>5, <3>1
  <2> QED
    BY <2>1, <2>2
<1>9. Around[next] = {next} \cup Around[v.parent]
  BY <1>4, AroundTrue DEF TreeInv, AroundIs
<1>10. SpanInv(q)'
  BY <1>1, <1>2, <1>8, FillSpan
<1>11. CASE v.type \in Branches
  <2>1. /\ open' \in Seq([value : Nat, at : Nat]) /\ Len(open') = D + 1 /\ DOMAIN open' = 1 .. D + 1
        /\ open'[D + 1] = fresh /\ \A d \in 1 .. D : open'[d] = open[d]
    <3>1. open' = Append(open, fresh)
      BY <1>3, <1>11
    <3>2. fresh \in [value : Nat, at : Nat]
      BY <1>2, <1>4
    <3> HIDE DEF fresh
    <3> QED
      BY <1>5, <3>1, <3>2
  <2>2. fresh.value = next /\ fresh.at = q[next]
    BY <1>2
  <2> HIDE DEF fresh, D, v
  <2>3. ASSUME NEW d \in DOMAIN open'
        PROVE  /\ open'[d].value \in 1 .. next
               /\ open'[d].at = q[open'[d].value]
               /\ tree[open'[d].value].type \in Branches
    <3>1. CASE d = D + 1
      BY <1>4, <1>11, <2>1, <2>2, <3>1 DEF v
    <3>2. CASE d \in 1 .. D
      <4>1. open'[d] = open[d] /\ open[d].value \in 1 .. next - 1 /\ open[d].at = p[open[d].value]
            /\ tree[open[d].value].type \in Branches
        BY <1>5, <1>6, <2>1, <3>2
      <4>2. q[open[d].value] = p[open[d].value] /\ open[d].value \in 1 .. next
        BY <1>2, <1>4, <4>1
      <4> QED
        BY <4>1, <4>2
    <3> QED
      BY <1>6, <2>1, <3>1, <3>2
  <2>4. ASSUME NEW d \in DOMAIN open'
        PROVE  Around[open'[d].value] = {open'[e].value : e \in 1 .. d}
    <3>1. CASE d = D + 1
      <4>1. Around[open'[d].value] = {next} \cup {open[e].value : e \in 1 .. D}
        BY <1>8, <1>9, <2>1, <2>2, <3>1
      <4>2. \A e \in 1 .. d : e = D + 1 \/ e \in 1 .. D
        BY <1>6, <3>1
      <4>3. D + 1 \in 1 .. d /\ \A e \in 1 .. D : e \in 1 .. d
        BY <1>6, <3>1
      <4> QED
        BY <2>1, <2>2, <4>1, <4>2, <4>3
    <3>2. CASE d \in 1 .. D
      <4>1. \A e \in 1 .. d : e \in 1 .. D /\ open'[e] = open[e]
        BY <1>6, <2>1, <3>2
      <4>2. Around[open[d].value] = {open[e].value : e \in 1 .. d}
        BY <1>5, <1>6, <3>2
      <4>3. open'[d] = open[d]
        BY <2>1, <3>2
      <4> QED
        BY <4>1, <4>2, <4>3
    <3>3. d = D + 1 \/ d \in 1 .. D
      BY <1>6, <2>1
    <3> QED
      BY <3>1, <3>2, <3>3, Zenon
  <2>5. next' - 1 = next
    BY <1>3, <1>4
  <2>6. OpenInv(q)'
    BY <1>3, <2>1, <2>3, <2>4, <2>5 DEF OpenInv
  <2>7. WireInv(q)'
    BY <1>2, <1>3, <1>10, <2>5, <2>6 DEF WireInv, Holds, ValueAt, KeyAt
  <2>8. RootInv'
    <3>1. open' # <<>> /\ open'[1].value = 1
      <4>1. CASE open = <<>>
        BY <1>6, <1>7, <2>1, <2>2, <4>1, SMTT(30)
      <4>2. CASE open # <<>>
        <5>1. 1 \in 1 .. D
          BY <1>6, <4>2
        <5>2. open[1].value = 1
          BY <1>4, <4>2 DEF RootInv
        <5>3. open'[1] = open[1] /\ open' # <<>>
          BY <1>6, <2>1, <5>1
        <5> QED
          BY <5>2, <5>3
      <4> QED
        BY <4>1, <4>2
    <3>2. next' # 1
      BY <1>3, <1>4
    <3>3. next' <= Len(tree') => \E d \in DOMAIN open' : open'[d].value = tree'[next'].parent
      <4> SUFFICES ASSUME next + 1 <= Len(tree)
                   PROVE  \E d \in DOMAIN open' : open'[d].value = tree[next + 1].parent
        BY <1>3
      <4>1. tree[next + 1].parent \in Around[next]
        <5>1. next + 1 \in 2 .. Len(tree) /\ (next + 1) - 1 = next
          BY <1>4
        <5> QED
          BY <5>1 DEF TreeInv
      <4>2. \A e \in 1 .. D : e \in DOMAIN open' /\ open'[e] = open[e]
        BY <1>6, <2>1
      <4>3. D + 1 \in DOMAIN open'
        BY <1>6, <2>1
      <4> QED
        BY <1>8, <1>9, <2>1, <2>2, <4>1, <4>2, <4>3
    <3> QED
      BY <3>1, <3>2, <3>3 DEF RootInv
  <2>9. next' \in Nat \ {0} /\ next' <= Len(tree') + 1 /\ w' = Id + SizeOf'[next' - 1]
    BY <1>2, <1>3, <1>4, <2>5
  <2> QED
    BY <2>7, <2>8, <2>9 DEF WriteInv
<1>12. CASE v.type \notin Branches
  <2> HIDE DEF v, fresh, D
  <2>1. open' = open
    BY <1>3, <1>12
  <2>2. next' - 1 = next
    BY <1>3, <1>4
  <2>3. \A d \in DOMAIN open : open[d].value \in 1 .. next /\ q[open[d].value] = p[open[d].value]
    BY <1>2, <1>4, <1>5, SMTT(30)
  <2>4. OpenInv(q)'
    <3>1. \A d \in DOMAIN open' : /\ open'[d].value \in 1 .. next' - 1
                                  /\ open'[d].at = q[open'[d].value]
                                  /\ tree'[open'[d].value].type \in Branches
      BY <1>3, <1>5, <2>1, <2>2, <2>3
    <3>2. \A d \in DOMAIN open' : Around'[open'[d].value] = {open'[e].value : e \in 1 .. d}
      <4>1. open' = open /\ Around' = Around
        BY <1>3, <2>1
      <4>2. \A d \in DOMAIN open : Around[open[d].value] = {open[e].value : e \in 1 .. d}
        BY <1>5
      <4> QED
        BY <4>1, <4>2, Zenon
    <3>3. open' \in Seq([value : Nat, at : Nat])
      BY <1>5, <2>1
    <3> QED
      BY <3>1, <3>2, <3>3 DEF OpenInv
  <2>5. WireInv(q)'
    BY <1>2, <1>3, <1>10, <2>2, <2>4 DEF WireInv, Holds, ValueAt, KeyAt
  <2>6. RootInv'
    <3>1. next' # 1
      BY <1>3, <1>4
    <3>2. open' # <<>> => open'[1].value = 1
      BY <1>4, <2>1 DEF RootInv
    <3>3. next + 1 <= Len(tree) => tree[next + 1].parent \in Around[v.parent]
      <4> SUFFICES ASSUME next + 1 <= Len(tree) PROVE tree[next + 1].parent \in Around[v.parent]
        OBVIOUS
      <4>1. next + 1 \in 2 .. Len(tree) /\ (next + 1) - 1 = next
        BY <1>4
      <4>2. tree[next + 1].parent \in Around[next] /\ tree[tree[next + 1].parent].type \in Branches
        BY <4>1 DEF TreeInv
      <4>3. tree[next + 1].parent # next
        BY <1>12, <4>2 DEF v
      <4> QED
        BY <1>9, <4>2, <4>3
    <3>4. next' <= Len(tree') => \E d \in DOMAIN open' : open'[d].value = tree'[next'].parent
      BY <1>3, <1>6, <1>8, <2>1, <3>3
    <3>5. open' = <<>> => next' > Len(tree') /\ End' = w'
      <4> SUFFICES ASSUME open = <<>> PROVE next + 1 > Len(tree) /\ End' = w'
        BY <1>3, <2>1
      <4>1. next = 1 /\ 1 .. D = {}
        BY <1>6, <1>7
      <4>2. ~(next + 1 <= Len(tree))
        BY <1>8, <3>3, <4>1
      <4>3. End' = w'
        BY <1>2, <1>12, <4>1 DEF End, v
      <4> QED
        BY <1>4, <4>2, <4>3
    <3> QED
      BY <3>1, <3>2, <3>4, <3>5 DEF RootInv
  <2>7. next' \in Nat \ {0} /\ next' <= Len(tree') + 1 /\ w' = Id + SizeOf'[next' - 1]
    BY <1>2, <1>3, <1>4, <2>2
  <2> QED
    BY <2>5, <2>6, <2>7 DEF WriteInv
<1> QED
  BY <1>11, <1>12

(* A sequence without its last element.                                    *)
LEMMA OuterIs ==
  ASSUME NEW S, NEW s \in Seq(S), s # <<>>
  PROVE  /\ Outer(s) \in Seq(S) /\ Len(Outer(s)) = Len(s) - 1 /\ DOMAIN Outer(s) = 1 .. Len(s) - 1
         /\ \A i \in 1 .. Len(s) - 1 : i \in 1 .. Len(s) /\ Outer(s)[i] = s[i]
         /\ Len(s) \in Nat /\ Len(s) \in 1 .. Len(s) /\ DOMAIN s = 1 .. Len(s)
<1> DEFINE n == Len(s) - 1
<1>1. Len(s) \in Nat /\ Len(s) # 0 /\ n \in Nat /\ DOMAIN s = 1 .. Len(s) /\ Len(s) \in 1 .. Len(s)
  BY EmptySeq
<1>2. \A i \in 1 .. n : i \in 1 .. Len(s) /\ s[i] \in S
  BY <1>1
<1>3. /\ SubSeq(s, 1, n) \in Seq(S) /\ Len(SubSeq(s, 1, n)) = IF 1 <= n THEN n - 1 + 1 ELSE 0
      /\ \A i \in 1 .. n - 1 + 1 : SubSeq(s, 1, n)[i] = s[1 + i - 1]
  <2> HIDE DEF n
  <2>1. 1 \in Int /\ n \in Int
    BY <1>1
  <2> QED
    BY <1>2, <2>1, SubSeqProperties
<1>4. Outer(s) = SubSeq(s, 1, n)
  BY DEF Outer
<1> HIDE DEF n
<1>5. Len(Outer(s)) = n /\ DOMAIN Outer(s) = 1 .. n /\ Outer(s) \in Seq(S)
  BY <1>1, <1>3, <1>4
<1>6. \A i \in 1 .. n : Outer(s)[i] = s[i]
  <2>1. \A i \in 1 .. n : i \in 1 .. n - 1 + 1 /\ 1 + i - 1 = i
    BY <1>1
  <2> QED
    BY <1>3, <1>4, <2>1
<1> QED
  BY <1>1, <1>2, <1>5, <1>6 DEF n

(* Once a value is left, nothing behind is in it.                          *)
LEMMA NotAround ==
  ASSUME TreeInv, NEW r \in Nat, NEW k \in Nat \ {0}, r < k, k <= Len(tree) => r \notin Around[k]
  PROVE  \A i \in k .. Len(tree) : r \notin Around[i]
<1> DEFINE N == Len(tree)
           S == {m \in Nat : k + m <= N => r \notin Around[k + m]}
<1>1. N \in Nat /\ AroundIs
  BY AroundTrue DEF TreeInv, Ordered
<1>2. ASSUME NEW i \in 2 .. N PROVE Around[i] \subseteq {i} \cup Around[i - 1]
  <2>1. tree[i].parent \in Around[i - 1] /\ i - 1 \in 1 .. N /\ i \in 1 .. N
    BY <1>1, <1>2 DEF TreeInv
  <2>2. Around[tree[i].parent] \subseteq Around[i - 1]
    BY <2>1 DEF TreeInv
  <2>3. Around[i] = {i} \cup Around[tree[i].parent]
    BY <1>1, <2>1 DEF AroundIs
  <2> QED
    BY <2>2, <2>3
<1> HIDE DEF N
<1>3. 0 \in S
  <2>1. k + 0 = k
    OBVIOUS
  <2> QED
    BY <2>1 DEF N
<1>4. ASSUME NEW m \in Nat, m \in S PROVE m + 1 \in S
  <2> SUFFICES ASSUME k + (m + 1) <= N PROVE r \notin Around[k + (m + 1)]
    OBVIOUS
  <2> DEFINE i == k + (m + 1)
  <2>1. i \in 2 .. N /\ i - 1 = k + m /\ k + m <= N /\ r # i
    BY <1>1
  <2> HIDE DEF i
  <2>2. Around[i] \subseteq {i} \cup Around[i - 1]
    BY <1>2, <2>1
  <2>3. r \notin Around[k + m]
    BY <1>4, <2>1
  <2>4. r \notin Around[i]
    BY <2>1, <2>2, <2>3
  <2> QED
    BY <2>4 DEF i
<1>5. Nat \subseteq S
  <2> HIDE DEF S
  <2> QED
    BY <1>3, <1>4, SetInduction
<1>6. ASSUME NEW i \in k .. N PROVE r \notin Around[i]
  <2>1. i - k \in Nat /\ k + (i - k) = i /\ i <= N
    BY <1>1
  <2>2. i - k \in S
    BY <1>5, <2>1
  <2> QED
    BY <2>1, <2>2
<1> QED
  BY <1>6 DEF N

(* The innermost ends here, around all that has been written in it.        *)
LEMMA FillSizeSpan ==
  ASSUME TreeInv, WriteInv, FillSize, NEW p, WireInv(p), NEW at, at = Innermost(open).at,
         DOMAIN wire' = DOMAIN wire, at \in DOMAIN wire,
         \A j \in DOMAIN wire : wire'[j].cell.at = wire[j].cell.at /\ (j # at => wire'[j] = wire[j]),
         BSize(wire'[at].cell) = 5 + (w - (wire[at].cell.at + 1) - 4)
  PROVE  SpanInv(p)'
<1>0. PICK D, r : D = Len(open) /\ r = open[D].value
  OBVIOUS
<1> DEFINE n == next - 1
<1>1. /\ tree' = tree /\ next' = next /\ w' = w /\ Around' = Around /\ open # <<>>
      /\ open' = Outer(open) /\ Innermost(open) = open[D]
      /\ next <= Len(tree) => tree[next].parent # r
  BY <1>0, TreeKept DEF FillSize, MemberNext, Innermost
<1>2. /\ open \in Seq([value : Nat, at : Nat])
      /\ \A d \in DOMAIN open : open[d].value \in 1 .. n /\ open[d].at = p[open[d].value]
      /\ \A d \in DOMAIN open : Around[open[d].value] = {open[e].value : e \in 1 .. d}
      /\ Laid(wire, w) /\ w \in Nat /\ wire \in Seq(Items) /\ Holds(wire, p, n) /\ SpanInv(p)
  BY DEF WireInv, OpenInv, Laid
<1>3. /\ next \in Nat \ {0} /\ next <= Len(tree) + 1 /\ Len(tree) \in Nat /\ RootInv /\ n \in Nat /\ n + 1 = next
  BY DEF WriteInv, TreeInv, Ordered
<1>4. /\ D \in Nat /\ DOMAIN open = 1 .. D /\ D \in 1 .. D /\ DOMAIN open' = 1 .. D - 1
      /\ \A d \in 1 .. D - 1 : d \in 1 .. D /\ open'[d] = open[d]
  <2>1. open \in Seq([value : Nat, at : Nat]) /\ open # <<>>
    BY <1>1, <1>2
  <2>2. /\ DOMAIN Outer(open) = 1 .. Len(open) - 1
        /\ \A i \in 1 .. Len(open) - 1 : i \in 1 .. Len(open) /\ Outer(open)[i] = open[i]
        /\ Len(open) \in Nat /\ Len(open) \in 1 .. Len(open) /\ DOMAIN open = 1 .. Len(open)
    BY <2>1, OuterIs
  <2> QED
    BY <1>0, <1>1, <2>2
<1>5. r \in 1 .. n /\ at = p[r]
  BY <1>0, <1>1, <1>2, <1>4
<1>6. /\ \A d \in 1 .. D : \A i \in open[d].value .. n : open[d].value \in Around[i]
      /\ \A d, e \in 1 .. D : d < e => open[d].value < open[e].value
      /\ \A j \in 1 .. n : tree[j].type \in Branches /\ (\A d \in DOMAIN open : open[d].value # j) =>
            /\ SpanAt(p, j) <= w
            /\ \A i \in j .. Len(tree) : j \in Around[i] => i < next /\ At(p[i] + 1) <= SpanAt(p, j)
            /\ \A i \in j + 1 .. n : j \notin Around[i] => SpanAt(p, j) <= At(p[i - 1] + 1)
  BY <1>2, <1>4 DEF SpanInv
<1> HIDE DEF n
<1>7. \A i : At(i)' = At(i)
  BY <1>1 DEF At
<1>8. \A j \in 1 .. n : p[j] \in DOMAIN wire /\ (j # r => p[j] # p[r])
  <2>1. \A i, j \in 0 .. n : i < j => p[i] < p[j]
    BY <1>2, <1>3, HoldsOrder
  <2>2. p \in [0 .. n -> Nat] /\ \A j \in 1 .. n : p[j] \in DOMAIN wire
    BY <1>2 DEF Holds
  <2>3. ASSUME NEW j \in 1 .. n, j # r PROVE p[j] # p[r]
    <3>1. j \in 0 .. n /\ r \in 0 .. n /\ p[j] \in Nat /\ p[r] \in Nat /\ (j < r \/ r < j)
      BY <1>3, <1>5, <2>2, <2>3
    <3> QED
      BY <2>1, <3>1
  <2> QED
    BY <2>2, <2>3
<1>9. \A j \in 1 .. n : j # r => SpanAt(p, j)' = SpanAt(p, j)
  BY <1>5, <1>8 DEF SpanAt
<1>10. SpanAt(p, r)' = w
  <2>1. wire[at].cell.at \in Nat
    <3>1. wire[at] \in Items
      BY <1>2
    <3> QED
      BY <3>1 DEF Items
  <2> QED
    BY <1>2, <1>5, <2>1, SMTT(30) DEF SpanAt
<1>11. \A i \in 1 .. n : At(p[i] + 1) <= w
  BY <1>2, <1>8, AtNext
<1>12. \A i \in next .. Len(tree) : r \notin Around[i]
  <2>1. ASSUME next <= Len(tree) PROVE r \notin Around[next]
    <3>1. next > 1 /\ \E d \in DOMAIN open : open[d].value = tree[next].parent
      <4>1. next > 1
        BY <1>1, <1>3 DEF RootInv
      <4> QED
        BY <1>3, <2>1, <4>1 DEF RootInv
    <3>2. PICK d \in 1 .. D : open[d].value = tree[next].parent
      BY <1>4, <3>1
    <3>3. d \in 1 .. D - 1
      <4>1. d # D
        BY <1>0, <1>1, <2>1, <3>2
      <4> QED
        BY <1>4, <4>1
    <3>4. Around[tree[next].parent] = {open[e].value : e \in 1 .. d}
      BY <1>2, <1>4, <3>2
    <3>5. \A e \in 1 .. d : open[e].value # r
      <4>1. \A e \in 1 .. d : e \in 1 .. D /\ e < D
        BY <1>4, <3>3
      <4>2. \A e \in 1 .. d : open[e].value < r /\ open[e].value \in Nat
        <5>1. \A e \in 1 .. D : open[e].value \in Nat
          <6>1. \A e \in 1 .. D : open[e].value \in 1 .. n
            BY <1>2, <1>4
          <6>2. \A i \in 1 .. n : i \in Nat
            BY <1>3
          <6> QED
            BY <6>1, <6>2
        <5>2. \A e \in 1 .. D : e < D => open[e].value < open[D].value
          BY <1>4, <1>6
        <5> QED
          BY <1>0, <4>1, <5>1, <5>2
      <4> QED
        BY <1>5, <4>2
    <3>6. r \notin Around[tree[next].parent]
      BY <3>4, <3>5
    <3>7. Around[next] = {next} \cup Around[tree[next].parent]
      BY <1>3, <2>1, <3>1, AroundTrue DEF TreeInv, AroundIs
    <3>8. r # next
      BY <1>3, <1>5
    <3> QED
      BY <3>6, <3>7, <3>8
  <2>2. r \in Nat /\ r < next
    BY <1>3, <1>5
  <2> QED
    BY <1>3, <2>1, <2>2, NotAround
<1>13. ASSUME NEW j \in 1 .. n, tree[j].type \in Branches, \A d \in DOMAIN open' : open'[d].value # j
       PROVE  /\ SpanAt(p, j)' <= w
              /\ \A i \in j .. Len(tree) : j \in Around[i] => i < next /\ At(p[i] + 1) <= SpanAt(p, j)'
              /\ \A i \in j + 1 .. n : j \notin Around[i] => SpanAt(p, j)' <= At(p[i - 1] + 1)
  <2>1. CASE j = r
    <3>1. SpanAt(p, j)' <= w
      BY <1>2, <1>10, <2>1
    <3>2. ASSUME NEW i \in j .. Len(tree), j \in Around[i] PROVE i < next /\ At(p[i] + 1) <= SpanAt(p, j)'
      <4>1. i < next
        BY <1>3, <1>12, <2>1, <3>2
      <4>2. i \in 1 .. n
        BY <1>3, <4>1
      <4> QED
        BY <1>10, <1>11, <2>1, <4>1, <4>2
    <3>3. \A i \in j + 1 .. n : j \in Around[i]
      <4>1. \A i \in j + 1 .. n : i \in r .. n
        BY <1>3, <1>5, <2>1
      <4>2. \A i \in r .. n : r \in Around[i]
        BY <1>0, <1>4, <1>6
      <4> QED
        BY <2>1, <4>1, <4>2
    <3> QED
      BY <3>1, <3>2, <3>3
  <2>2. CASE j # r
    <3>1. \A d \in DOMAIN open : open[d].value # j
      <4>1. \A d \in 1 .. D : d = D \/ d \in 1 .. D - 1
        BY <1>4
      <4> QED
        BY <1>0, <1>4, <1>13, <2>2, <4>1
    <3>2. /\ SpanAt(p, j) <= w
          /\ \A i \in j .. Len(tree) : j \in Around[i] => i < next /\ At(p[i] + 1) <= SpanAt(p, j)
          /\ \A i \in j + 1 .. n : j \notin Around[i] => SpanAt(p, j) <= At(p[i - 1] + 1)
      BY <1>6, <1>13, <3>1
    <3>3. SpanAt(p, j)' = SpanAt(p, j)
      BY <1>9, <2>2
    <3> QED
      BY <3>2, <3>3
  <2> QED
    BY <2>1, <2>2
<1>14. /\ \A d \in DOMAIN open' : \A i \in open'[d].value .. n : open'[d].value \in Around[i]
       /\ \A d, e \in DOMAIN open' : d < e => open'[d].value < open'[e].value
  BY <1>4, <1>6
<1> QED
  BY <1>1, <1>7, <1>13, <1>14 DEF SpanInv, n

(* An item with another length.                                            *)
Resized(item, x) == [item EXCEPT !.cell.field = x]
ResizedAt(ws, at, x) == [ws EXCEPT ![at] = Resized(ws[at], x)]

(* An item with a size is one.                                             *)
LEMMA ItemResized ==
  ASSUME NEW item \in Items, NEW x \in Int
  PROVE  LET r == Resized(item, x)
         IN  /\ r \in Items
             /\ r.cell.at = item.cell.at /\ r.cell.kind = item.cell.kind /\ r.cell.field = x
             /\ r.cell.bytes = item.cell.bytes /\ r.form = item.form /\ r.n = item.n
<1>1. item = [cell |-> item.cell, form |-> item.form, n |-> item.n]
      /\ item.cell = [kind |-> item.cell.kind, field |-> item.cell.field, bytes |-> item.cell.bytes, at |-> item.cell.at]
      /\ item.cell.kind \in Kinds /\ item.cell.at \in Nat /\ item.cell.bytes \in Nat \ {0}
      /\ item.form \in Forms \cup {"key"} /\ item.n \in Int
  BY DEF Items
<1> DEFINE r == Resized(item, x)
           c == [kind |-> item.cell.kind, field |-> x, bytes |-> item.cell.bytes, at |-> item.cell.at]
<1>2. r = [cell |-> c, form |-> item.form, n |-> item.n]
  BY <1>1 DEF Resized
<1>3. r \in Items
  BY <1>1, <1>2 DEF Items
<1> QED
  BY <1>2, <1>3

(* The length of an object or array goes in, and nothing else changes.     *)
LEMMA FillSizeWire ==
  ASSUME NEW ws \in Seq(Items), NEW at \in DOMAIN ws, ws[at].cell.kind \in Containers, NEW x \in Int,
         NEW to, Laid(ws, to), NEW n \in Nat, NEW p, Holds(ws, p, n),
         tree \in Seq(TreeValues), n <= Len(tree)
  PROVE  LET all == ResizedAt(ws, at, x)
         IN  /\ Laid(all, to) /\ Holds(all, p, n) /\ all[at].cell.kind \in Containers /\ all[at].cell.field = x
             /\ DOMAIN all = DOMAIN ws
             /\ \A j \in DOMAIN ws : all[j].cell.at = ws[j].cell.at /\ (j # at => all[j] = ws[j])
<1> DEFINE r == Resized(ws[at], x)
           all == ResizedAt(ws, at, x)
<1>1. ws[at] \in Items /\ all = [ws EXCEPT ![at] = r]
  BY DEF ResizedAt
<1>2. /\ r \in Items /\ r.cell.at = ws[at].cell.at /\ r.cell.kind = ws[at].cell.kind /\ r.cell.field = x
      /\ r.cell.bytes = ws[at].cell.bytes /\ r.form = ws[at].form /\ r.n = ws[at].n
  BY <1>1, ItemResized
<1> HIDE DEF r, all
<1>3. /\ all \in Seq(Items) /\ Len(all) = Len(ws) /\ DOMAIN all = DOMAIN ws
      /\ all[at] = r /\ \A j \in DOMAIN ws : j # at => all[j] = ws[j]
  <2>1. at \in 1 .. Len(ws) /\ DOMAIN ws = 1 .. Len(ws)
    OBVIOUS
  <2>2. /\ all \in Seq(Items) /\ Len(all) = Len(ws)
        /\ \A j \in 1 .. Len(ws) : all[j] = IF j = at THEN r ELSE ws[j]
    BY <1>1, <1>2, <2>1, ExceptSeq
  <2> QED
    BY <2>1, <2>2
<1>4. \A j \in DOMAIN ws : /\ all[j].cell.at = ws[j].cell.at /\ all[j].cell.bytes = ws[j].cell.bytes
                           /\ all[j].cell.kind = ws[j].cell.kind /\ all[j].form = ws[j].form /\ all[j].n = ws[j].n
                           /\ all[j] = ws[j] \/ ws[j].cell.kind \in Containers
  BY <1>2, <1>3
<1>5. Laid(all, to)
  BY <1>3, <1>4, LaidSame
<1>6. ASSUME NEW j \in DOMAIN ws, NEW v \in TreeValues, ValueAt(ws[j], v)
      PROVE  ValueAt(all[j], v)
  <2>1. v.type \notin Branches => ws[j].cell.kind \notin Containers
    BY <1>6, ValueFilled DEF ValueAt, FilledAs
  <2> QED
    BY <1>4, <1>6, <2>1 DEF ValueAt
<1>7. ASSUME NEW j \in DOMAIN ws, NEW k, KeyAt(ws[j], k) PROVE KeyAt(all[j], k)
  <2>1. ws[j].cell.kind \notin Containers
    BY <1>7 DEF KeyAt, Containers
  <2> QED
    BY <1>4, <1>7, <2>1
<1>8. Holds(all, p, n)
  <2>1. ASSUME NEW i \in 1 .. n
        PROVE  /\ p[i] \in DOMAIN all /\ ValueAt(all[p[i]], tree[i])
               /\ tree[i].key = NoKey => p[i] = p[i - 1] + 1
               /\ tree[i].key # NoKey => p[i] = p[i - 1] + 2 /\ p[i - 1] + 1 \in DOMAIN all /\ KeyAt(all[p[i - 1] + 1], tree[i].key)
    <3>1. /\ p[i] \in DOMAIN ws /\ ValueAt(ws[p[i]], tree[i])
          /\ tree[i].key = NoKey => p[i] = p[i - 1] + 1
          /\ tree[i].key # NoKey => p[i] = p[i - 1] + 2 /\ p[i - 1] + 1 \in DOMAIN ws /\ KeyAt(ws[p[i - 1] + 1], tree[i].key)
      BY DEF Holds
    <3>2. tree[i] \in TreeValues
      OBVIOUS
    <3> QED
      BY <1>3, <1>6, <1>7, <3>1, <3>2
  <2>2. p \in [0 .. n -> Nat] /\ p[0] = 0 /\ p[n] = Len(all)
    BY <1>3 DEF Holds
  <2> QED
    BY <2>1, <2>2 DEF Holds
<1> QED
  BY <1>2, <1>3, <1>4, <1>5, <1>8 DEF all

(* wire_fill of a size keeps what is true of what is written.              *)
LEMMA FillSizeWrite ==
  ASSUME TreeInv, WriteInv, FillSize
  PROVE  WriteInv'
<1>1. PICK p : WireInv(p)
  BY DEF WriteInv
<1> DEFINE D == Len(open)
           at == open[D].at
           x == w - (wire[at].cell.at + 1) - 4
<1>2. /\ Laid(wire, w) /\ Holds(wire, p, next - 1) /\ wire \in Seq(Items) /\ w \in Nat
      /\ open \in Seq([value : Nat, at : Nat])
      /\ \A d \in DOMAIN open : /\ open[d].value \in 1 .. next - 1
                                /\ open[d].at = p[open[d].value]
                                /\ tree[open[d].value].type \in Branches
      /\ \A d \in DOMAIN open : Around[open[d].value] = {open[e].value : e \in 1 .. d}
  BY <1>1 DEF WireInv, OpenInv, Laid
<1>3. /\ tree' = tree /\ next' = next /\ w' = w /\ Around' = Around /\ SizeOf' = SizeOf
      /\ wire' = [wire EXCEPT ![at].cell.field = x]
      /\ open' = SubSeq(open, 1, D - 1)
      /\ open # <<>>
      /\ next <= Len(tree) => tree[next].parent # open[D].value
  BY TreeKept DEF FillSize, Innermost, Outer, MemberNext
<1>4. /\ next \in Nat \ {0} /\ next <= Len(tree) + 1 /\ tree \in Seq(TreeValues) /\ Len(tree) \in Nat
      /\ w = Id + SizeOf[next - 1] /\ RootInv
  BY DEF WriteInv, TreeInv, Ordered
<1>5. /\ D \in Nat /\ DOMAIN open = 1 .. D /\ D \in 1 .. D
      /\ open' \in Seq([value : Nat, at : Nat]) /\ DOMAIN open' = 1 .. D - 1
      /\ \A d \in 1 .. D - 1 : d \in 1 .. D /\ open'[d] = open[d]
      /\ Len(open') = D - 1
  <2>1. open' = Outer(open)
    BY <1>3 DEF Outer
  <2>2. open \in Seq([value : Nat, at : Nat]) /\ open # <<>>
    BY <1>2, <1>3
  <2>3. /\ Outer(open) \in Seq([value : Nat, at : Nat]) /\ Len(Outer(open)) = D - 1 /\ DOMAIN Outer(open) = 1 .. D - 1
        /\ \A i \in 1 .. D - 1 : i \in 1 .. D /\ Outer(open)[i] = open[i]
        /\ D \in Nat /\ D \in 1 .. D /\ DOMAIN open = 1 .. D
    BY <2>2, OuterIs
  <2> QED
    BY <2>1, <2>3
<1>6. open[D].value \in 1 .. next - 1 /\ at = p[open[D].value] /\ tree[open[D].value].type \in Branches
  BY <1>2, <1>5
<1> DEFINE r == open[D].value
<1>7. at \in DOMAIN wire /\ wire[at].cell.kind \in Containers /\ wire[at] \in Items /\ x \in Int
  <2> HIDE DEF at, r, D, x
  <2>1. at \in DOMAIN wire /\ ValueAt(wire[at], tree[r])
    BY <1>2, <1>6 DEF Holds, r
  <2>2. tree[r] \in TreeValues
    BY <1>4, <1>6 DEF r
  <2>3. wire[at].cell.kind \in Containers
    BY <1>6, <2>1, <2>2, ValueFilled DEF ValueAt, FilledAs, r
  <2>4. wire[at] \in Items
    BY <1>2, <2>1
  <2>5. wire[at].cell.at \in Nat
    BY <2>4 DEF Items
  <2> QED
    BY <1>2, <2>1, <2>3, <2>4, <2>5 DEF x
<1> HIDE DEF at, r, D
<1>8. /\ Laid(wire', w) /\ Holds(wire', p, next - 1) /\ wire'[at].cell.kind \in Containers /\ wire'[at].cell.field = x
      /\ DOMAIN wire' = DOMAIN wire
      /\ \A j \in DOMAIN wire : wire'[j].cell.at = wire[j].cell.at /\ (j # at => wire'[j] = wire[j])
  <2> HIDE DEF x
  <2>1. next - 1 \in Nat /\ next - 1 <= Len(tree)
    BY <1>4
  <2> QED
    <3>1. Laid(wire, w) /\ Holds(wire, p, next - 1) /\ wire \in Seq(Items) /\ tree \in Seq(TreeValues)
      BY <1>2, <1>4
    <3>2. wire' = ResizedAt(wire, at, x)
      BY <1>3 DEF Resized, ResizedAt
    <3> QED
      BY <1>7, <2>1, <3>1, <3>2, FillSizeWire
<1>9. OpenInv(p)'
  <2>1. ASSUME NEW d \in DOMAIN open'
        PROVE  Around[open'[d].value] = {open'[e].value : e \in 1 .. d}
    <3>1. open'[d] = open[d] /\ d \in DOMAIN open /\ \A e \in 1 .. d : open'[e] = open[e]
      BY <1>5
    <3>2. Around[open[d].value] = {open[e].value : e \in 1 .. d}
      BY <1>2, <3>1
    <3> QED
      BY <3>1, <3>2
  <2>2. \A d \in DOMAIN open' : /\ open'[d].value \in 1 .. next - 1
                                /\ open'[d].at = p[open'[d].value]
                                /\ tree[open'[d].value].type \in Branches
    BY <1>2, <1>5
  <2> QED
    BY <1>3, <1>5, <2>1, <2>2 DEF OpenInv
<1>16. SpanInv(p)'
  <2>1. PICK t : t = at
    OBVIOUS
  <2>2. t = Innermost(open).at
    BY <2>1 DEF at, D, Innermost
  <2>3. BSize(wire'[t].cell) = 5 + (w - (wire[t].cell.at + 1) - 4)
    BY <1>8, <2>1 DEF x, BSize, Containers, Sized, Overhead
  <2> HIDE DEF x
  <2> QED
    BY <1>1, <1>7, <1>8, <2>1, <2>2, <2>3, FillSizeSpan
<1>10. WireInv(p)'
  BY <1>3, <1>8, <1>9, <1>16, SMTT(30) DEF WireInv, Holds, ValueAt, KeyAt
<1>11. next # 1
  BY <1>3, <1>4 DEF RootInv
<1>12. next <= Len(tree) => \E d \in DOMAIN open' : open'[d].value = tree[next].parent
  <2> SUFFICES ASSUME next <= Len(tree) PROVE \E d \in DOMAIN open' : open'[d].value = tree[next].parent
    OBVIOUS
  <2>1. PICK d \in DOMAIN open : open[d].value = tree[next].parent
    BY <1>4, <1>11 DEF RootInv
  <2>2. d # D
    BY <1>3, <2>1
  <2>3. d \in 1 .. D - 1
    BY <1>5, <2>1, <2>2
  <2> QED
    BY <1>5, <2>1, <2>3
<1>13. open' # <<>> => open'[1].value = 1
  <2> SUFFICES ASSUME open' # <<>> PROVE open'[1].value = 1
    OBVIOUS
  <2>1. 1 \in 1 .. D - 1
    BY <1>5
  <2>2. open[1].value = 1
    BY <1>3, <1>4 DEF RootInv
  <2> QED
    BY <1>5, <2>1, <2>2
<1>14. open' = <<>> => next > Len(tree) /\ End' = w
  <2> SUFFICES ASSUME open' = <<>> PROVE next > Len(tree) /\ End' = w
    OBVIOUS
  <2>1. D = 1 /\ DOMAIN open' = {}
    BY <1>5
  <2>2. next > Len(tree)
    BY <1>4, <1>12, <2>1
  <2>3. open[D].value = 1
    BY <1>3, <1>4, <2>1 DEF RootInv
  <2>4. at = 1
    <3>1. 1 \in 1 .. next - 1 /\ 1 - 1 = 0 /\ p[0] = 0
      BY <1>2, <1>4, <1>11 DEF Holds
    <3>2. tree[1].key = NoKey
      BY <1>4, <3>1 DEF TreeInv
    <3>3. p[1] = p[1 - 1] + 1
      BY <1>2, <3>1, <3>2 DEF Holds
    <3> QED
      BY <1>6, <2>3, <3>1, <3>3
  <2>5. wire[1].cell.at = Id
    BY <1>2, <1>7, <2>4 DEF Laid
  <2>6. BSize(wire'[1].cell) = 5 + (w - (Id + 1) - 4)
    <3>1. wire'[1].cell.kind \in Containers /\ wire'[1].cell.field = w - (Id + 1) - 4
      BY <1>8, <2>4, <2>5
    <3> QED
      BY <3>1 DEF BSize, Containers, Sized, Overhead
  <2>7. End' = Id + BSize(wire'[1].cell)
    BY DEF End
  <2> QED
    BY <1>2, <2>2, <2>6, <2>7 DEF Id
<1>15. RootInv'
  BY <1>3, <1>11, <1>12, <1>13, <1>14 DEF RootInv
<1> QED
  BY <1>3, <1>4, <1>10, <1>15 DEF WriteInv

(* Who has done what when.                                                 *)
PhaseInv == /\ phase \in {"grow", "write", "read", "done"}
            /\ phase = "grow" => Blank
            /\ phase # "grow" => tree # <<>>
            /\ phase \in {"grow", "write"} => val = Id /\ stack = <<>> /\ key = NoKey /\ made = <<>> /\ err = "OK"
            /\ phase \in {"read", "done"} => open = <<>> /\ next = Len(tree) + 1

(* The message at every time.                                              *)
MessageInv == TreeInv /\ WriteInv /\ PhaseInv

(* The reader's steps.                                                     *)
Reads == ReadKey \/ ReadLeaf \/ ReadBranch \/ ReadTooDeep \/ ReadDone

(* What is written stays as it is while nothing is written.                *)
LEMMA WriteKept ==
  ASSUME WriteInv, TreeInv, UNCHANGED <<tree, writer>>
  PROVE  WriteInv'
<1>1. tree' = tree /\ wire' = wire /\ w' = w /\ next' = next /\ open' = open
  BY DEF writer
<1>2. Around' = Around /\ SizeOf' = SizeOf
  BY <1>1, TreeKept
<1>3. End' = End
  BY <1>1 DEF End
<1>4. RootInv'
  BY <1>1, <1>3 DEF RootInv, WriteInv
<1>5. PICK p : WireInv(p)
  BY DEF WriteInv
<1>6. OpenInv(p)'
  BY <1>1, <1>2, <1>5, ZenonT(60) DEF WireInv, OpenInv
<1>7. SpanInv(p)'
  <2>1. (\A i : At(i)' = At(i)) /\ (\A j : SpanAt(p, j)' = SpanAt(p, j))
    BY <1>1 DEF At, SpanAt
  <2>2. SpanInv(p)
    BY <1>5 DEF WireInv
  <2> QED
    BY <1>1, <1>2, <2>1, <2>2 DEF SpanInv
<1>8. WireInv(p)'
  BY <1>1, <1>5, <1>6, <1>7 DEF WireInv, Holds, ValueAt, KeyAt
<1> QED
  BY <1>1, <1>2, <1>4, <1>8 DEF WriteInv

(* The reader leaves the tree and the message alone.                       *)
LEMMA ReadsKeep ==
  ASSUME Reads
  PROVE  /\ UNCHANGED <<tree, writer>> /\ phase = "read" /\ phase' \in {"read", "done"}
<1>1. CASE ReadKey
  BY <1>1 DEF ReadKey, Reading
<1>2. CASE ReadLeaf
  BY <1>2 DEF ReadLeaf, Reading
<1>3. CASE ReadBranch
  BY <1>3 DEF ReadBranch, Reading
<1>4. CASE ReadTooDeep
  BY <1>4 DEF ReadTooDeep, Reading
<1>5. CASE ReadDone
  BY <1>5 DEF ReadDone
<1> QED
  BY <1>1, <1>2, <1>3, <1>4, <1>5 DEF Reads

(* At first there is neither.                                              *)
LEMMA MessageInit == Init => MessageInv
<1> SUFFICES ASSUME Init PROVE MessageInv
  OBVIOUS
<1>1. tree = <<>> /\ Len(tree) = 0 /\ tree \in Seq(TreeValues) /\ DOMAIN tree = {}
  BY DEF Init
<1>2. TreeInv
  BY <1>1 DEF TreeInv, Ordered
<1>3. WriteInv
  BY <1>2, BlankWrite DEF Init, Blank
<1>4. PhaseInv
  BY DEF Init, PhaseInv, Blank
<1> QED
  BY <1>2, <1>3, <1>4 DEF MessageInv

(* Every step keeps the tree a tree and the message its own.               *)
LEMMA MessageStep == MessageInv /\ [Next]_vars => MessageInv'
<1> SUFFICES ASSUME MessageInv, [Next]_vars PROVE MessageInv'
  OBVIOUS
<1>0. TreeInv /\ WriteInv /\ PhaseInv
  BY DEF MessageInv
<1>1. CASE Grow
  <2>1. TreeInv'
    BY <1>0, <1>1, GrowTree
  <2>2. phase = "grow" /\ Blank /\ UNCHANGED <<phase, writer, reader>>
    BY <1>0, <1>1, Zenon DEF PhaseInv, Grow
  <2>3. phase' = phase /\ wire' = wire /\ w' = w /\ next' = next /\ open' = open
        /\ val' = val /\ stack' = stack /\ key' = key /\ made' = made /\ err' = err
    BY <2>2 DEF writer, reader
  <2>4. Blank'
    BY <2>2, <2>3 DEF Blank
  <2>5. (TreeInv /\ Blank => WriteInv)'
    BY BlankWrite, PTL
  <2>6. PhaseInv'
    BY <1>0, <2>2, <2>3, <2>4 DEF PhaseInv
  <2> QED
    BY <2>1, <2>4, <2>5, <2>6 DEF MessageInv
<1>2. CASE Convert
  <2>1. UNCHANGED <<tree, writer, reader>> /\ phase = "grow" /\ tree # <<>> /\ phase' = "write"
    BY <1>2 DEF Convert
  <2>2. WriteInv'
    BY <1>0, <2>1, WriteKept
  <2>3. TreeInv'
    BY <1>0, <2>1, SameTree
  <2>4. PhaseInv'
    BY <1>0, <2>1 DEF PhaseInv, reader
  <2> QED
    BY <2>2, <2>3, <2>4 DEF MessageInv
<1>3. CASE Fill
  <2>1. tree' = tree /\ phase' = phase /\ phase = "write" /\ UNCHANGED reader
    BY <1>3 DEF Fill
  <2>2. WriteInv'
    BY <1>0, <1>3, FillWrite
  <2>3. TreeInv'
    BY <1>0, <2>1, SameTree
  <2>4. PhaseInv'
    BY <1>0, <2>1 DEF PhaseInv, reader
  <2> QED
    BY <2>2, <2>3, <2>4 DEF MessageInv
<1>4. CASE FillSize
  <2>1. tree' = tree /\ phase' = phase /\ phase = "write" /\ UNCHANGED reader
    BY <1>4 DEF FillSize
  <2>2. WriteInv'
    BY <1>0, <1>4, FillSizeWrite
  <2>3. TreeInv'
    BY <1>0, <2>1, SameTree
  <2>4. PhaseInv'
    BY <1>0, <2>1 DEF PhaseInv, reader
  <2> QED
    BY <2>2, <2>3, <2>4 DEF MessageInv
<1>5. CASE Written
  <2>1. UNCHANGED <<tree, writer, reader>> /\ phase = "write" /\ open = <<>> /\ next > Len(tree) /\ phase' = "read"
    BY <1>5 DEF Written
  <2>2. WriteInv'
    BY <1>0, <2>1, WriteKept
  <2>3. TreeInv'
    BY <1>0, <2>1, SameTree
  <2>4. next = Len(tree) + 1
    BY <1>0, <2>1 DEF WriteInv, TreeInv, Ordered
  <2>5. PhaseInv'
    BY <1>0, <2>1, <2>4 DEF PhaseInv, writer
  <2> QED
    BY <2>2, <2>3, <2>5 DEF MessageInv
<1>6. CASE Reads
  <2>1. UNCHANGED <<tree, writer>> /\ phase = "read" /\ phase' \in {"read", "done"}
    BY <1>6, ReadsKeep
  <2>2. WriteInv'
    BY <1>0, <2>1, WriteKept
  <2>3. TreeInv'
    BY <1>0, <2>1, SameTree
  <2>4. PhaseInv'
    BY <1>0, <2>1 DEF PhaseInv, writer
  <2> QED
    BY <2>2, <2>3, <2>4 DEF MessageInv
<1>7. CASE UNCHANGED vars
  <2>1. UNCHANGED <<tree, writer>> /\ UNCHANGED <<phase, reader>>
    BY <1>7 DEF vars
  <2>2. WriteInv'
    BY <1>0, <2>1, WriteKept
  <2>3. TreeInv'
    BY <1>0, <2>1, SameTree
  <2>4. PhaseInv'
    BY <1>0, <2>1 DEF PhaseInv, Blank, writer, reader
  <2> QED
    BY <2>2, <2>3, <2>4 DEF MessageInv
<1> QED
  BY <1>1, <1>2, <1>3, <1>4, <1>5, <1>6, <1>7 DEF Next, Reads

(* At every time the items of the message lie one behind the other, those  *)
(* of the tree's first values in their order; what is being written is     *)
(* around what follows, and every size written is that of what it is       *)
(* around.                                                                 *)
THEOREM Messages == Spec => []MessageInv
BY MessageInit, MessageStep, PTL DEF Spec

(* A message whose items are those of all values has the size of all.      *)
LEMMA MessageSized == MessageInv => SizesAgree
<1> SUFFICES ASSUME MessageInv PROVE SizesAgree
  OBVIOUS
<1>1. TreeInv /\ WriteInv /\ PhaseInv
  BY DEF MessageInv
<1>2. /\ next \in Nat \ {0} /\ next <= Len(tree) + 1 /\ w = Id + SizeOf[next - 1] /\ RootInv
      /\ tree \in Seq(TreeValues) /\ Len(tree) \in Nat
  BY <1>1 DEF WriteInv, TreeInv, Ordered
<1>3. next - 1 \in 0 .. Len(tree) /\ Len(tree) \in 0 .. Len(tree)
  BY <1>2
<1>4. SizeOf[next - 1] \in Nat /\ SizeOf[Len(tree)] \in Nat /\ SizeOf[next - 1] <= SizeOf[Len(tree)]
  BY <1>2, <1>3, SizesGrow
<1>5. MsgSize = SizeOf[Len(tree)] + Id
  BY DEF MsgSize, WireSize
<1>6. w <= MsgSize
  BY <1>2, <1>4, <1>5 DEF Id
<1>7. ASSUME phase \in {"read", "done"} PROVE w = MsgSize /\ End = MsgSize
  <2>1. open = <<>> /\ next = Len(tree) + 1 /\ tree # <<>>
    BY <1>1, <1>7 DEF PhaseInv
  <2>2. next > 1 /\ next - 1 = Len(tree)
    BY <1>2, <2>1
  <2>3. End = w
    BY <1>2, <2>1, <2>2 DEF RootInv
  <2> QED
    BY <1>2, <1>4, <1>5, <2>2, <2>3 DEF Id
<1> QED
  BY <1>6, <1>7 DEF SizesAgree

(* Opo_ojc_to_msg writes no byte past what opo_ojc_msg_size promised, in   *)
(* the end not one less, and the first value's own size says the same.     *)
THEOREM Sizes == Spec => []SizesAgree
BY Messages, MessageSized, PTL

(* A sequence, of whatever.                                                *)
Sequence(s) == \E S : s \in Seq(S)

(* One element more.                                                       *)
LEMMA SequenceMore ==
  ASSUME NEW s, Sequence(s), NEW x
  PROVE  /\ Sequence(Append(s, x)) /\ Len(s) \in Nat /\ DOMAIN s = 1 .. Len(s)
         /\ Len(Append(s, x)) = Len(s) + 1 /\ Append(s, x)[Len(s) + 1] = x
         /\ DOMAIN Append(s, x) = 1 .. Len(s) + 1
         /\ \A i \in 1 .. Len(s) : Append(s, x)[i] = s[i]
<1>1. PICK S : s \in Seq(S)
  BY DEF Sequence
<1> DEFINE T == S \cup {x}
<1>2. s \in Seq(T) /\ x \in T
  <2>1. S \subseteq T
    OBVIOUS
  <2> HIDE DEF T
  <2>2. s \in Seq(T)
    BY <1>1, <2>1, SeqMonotonic
  <2> QED
    BY <2>2 DEF T
<1> HIDE DEF T
<1>3. Append(s, x) \in Seq(T)
  BY <1>2
<1> QED
  BY <1>2, <1>3 DEF Sequence
-----------------------------------------------------------------------------
(* The reader is in front of the item of the next value or of its key.     *)
Ahead(p, n) == val = At(p[n] + 1) \/ (n < Len(tree) /\ val = At(p[n + 1]))

(* The reader of what is written, and how far it is.                       *)
ReadAs(p) == /\ Holds(wire, p, Len(tree))
             /\ err = "OK" => Ahead(p, Len(made))

(* What it has made is what the first values are read as.                  *)
MadeInv == /\ Sequence(made) /\ Len(made) <= Len(tree)
           /\ \A i \in 1 .. Len(made) : Same(made[i], tree[i]) /\ made[i] = Value(made[i], made[i].key, made[i].parent)

(* In the end it has made all of them, or told an error.                   *)
ReadInv == /\ MadeInv
           /\ phase \in {"read", "done"} => \E p : ReadAs(p)
           /\ phase = "done" /\ err = "OK" => Len(made) = Len(tree)

(* What is there to read: the value's item, or its key's in front of it.   *)
AtValue(p, n, j) == j = p[n + 1] /\ ValueAt(wire[j], tree[n + 1])

(* The key in front of it.                                                 *)
AtKey(p, n, j) == /\ j = p[n] + 1 /\ p[n + 1] = j + 1
                  /\ tree[n + 1].key # NoKey /\ KeyAt(wire[j], tree[n + 1].key)

(* Before the end there is one item there: of the next value or its key.   *)
LEMMA HereIs ==
  ASSUME MessageInv, Reading, NEW p, ReadAs(p), MadeInv
  PROVE  LET n == Len(made)
         IN  /\ n \in Nat /\ n < Len(tree) /\ tree[n + 1] \in TreeValues /\ Laid(wire, w)
             /\ \E j \in DOMAIN wire : /\ Here = {wire[j]} /\ val = At(j)
                                       /\ AtValue(p, n, j) \/ AtKey(p, n, j)
<1> DEFINE n == Len(made)
           N == Len(tree)
<1>1. /\ tree \in Seq(TreeValues) /\ N \in Nat /\ next = N + 1 /\ open = <<>> /\ tree # <<>> /\ next > 1
      /\ RootInv /\ Laid(wire, w)
  <2>1. phase = "read"
    BY DEF Reading
  <2>2. next = N + 1 /\ open = <<>> /\ tree # <<>> /\ tree \in Seq(TreeValues)
    BY <2>1 DEF MessageInv, PhaseInv, TreeInv, Ordered
  <2>3. N \in Nat /\ N > 0
    BY <2>2
  <2>4. RootInv /\ Laid(wire, w)
    BY DEF MessageInv, WriteInv, WireInv
  <2> QED
    BY <2>2, <2>3, <2>4
<1>2. val < w /\ err = "OK"
  BY <1>1 DEF RootInv, Reading
<1>3. n \in Nat /\ n <= N
  BY SequenceMore DEF MadeInv
<1>4. Holds(wire, p, N) /\ (val = At(p[n] + 1) \/ (n < N /\ val = At(p[n + 1])))
  BY <1>2 DEF ReadAs, Ahead
<1>5. p \in [0 .. N -> Nat] /\ p[0] = 0 /\ p[N] = Len(wire) /\ DOMAIN wire = 1 .. Len(wire) /\ Len(wire) \in Nat
  BY <1>1, <1>4 DEF Holds, Laid
<1> HIDE DEF n, N
<1>6. n < N
  <2> SUFFICES ASSUME n = N PROVE FALSE
    BY <1>1, <1>3
  <2>1. val = At(Len(wire) + 1) /\ Len(wire) + 1 \notin DOMAIN wire
    BY <1>1, <1>4, <1>5
  <2>2. w \in Nat
    BY <1>1 DEF Laid
  <2> QED
    BY <1>2, <2>1, <2>2 DEF At
<1>7. n + 1 \in 1 .. N /\ (n + 1) - 1 = n /\ n \in 0 .. N
  BY <1>1, <1>3, <1>6
<1>8. tree[n + 1] \in TreeValues
  BY <1>1, <1>7 DEF N
<1>9. /\ p[n + 1] \in DOMAIN wire /\ ValueAt(wire[p[n + 1]], tree[n + 1])
      /\ tree[n + 1].key = NoKey => p[n + 1] = p[n] + 1
      /\ tree[n + 1].key # NoKey => p[n + 1] = p[n] + 2 /\ p[n] + 1 \in DOMAIN wire /\ KeyAt(wire[p[n] + 1], tree[n + 1].key)
  BY <1>4, <1>7 DEF Holds
<1>10. \E j \in DOMAIN wire : val = At(j) /\ (AtValue(p, n, j) \/ AtKey(p, n, j))
  <2>1. CASE val = At(p[n + 1])
    BY <1>9, <2>1 DEF AtValue
  <2>2. CASE val = At(p[n] + 1) /\ tree[n + 1].key = NoKey
    BY <1>9, <2>2 DEF AtValue
  <2>3. CASE val = At(p[n] + 1) /\ tree[n + 1].key # NoKey
    <3>1. p[n + 1] = (p[n] + 1) + 1
      BY <1>5, <1>7, <1>9, <2>3
    <3> QED
      BY <1>9, <2>3, <3>1 DEF AtKey
  <2> QED
    BY <1>4, <2>1, <2>2, <2>3
<1>11. PICK j \in DOMAIN wire : val = At(j) /\ (AtValue(p, n, j) \/ AtKey(p, n, j))
  BY <1>10
<1>12. Here = {wire[j]}
  <2>1. At(j) = wire[j].cell.at /\ \A i \in DOMAIN wire : wire[i].cell.at = At(j) => i = j
    BY <1>1, AtNext
  <2> QED
    BY <1>11, <2>1 DEF Here
<1> QED
  BY <1>1, <1>3, <1>6, <1>8, <1>11, <1>12 DEF n, N

(* What comes of a value that is attached.                                 *)
LEMMA AttachMade ==
  ASSUME MadeInv, Len(made) < Len(tree), Len(tree) \in Nat, tree' = tree, err = "OK",
         NEW v, NEW s, Attach(v, s), Same(v, tree[Len(made) + 1])
  PROVE  MadeInv' /\ (err' = "OK" => Len(made') = Len(made) + 1)
<1>1. CASE InObject(s) /\ key = NoKey
  <2>1. err' = "missing key" /\ made' = made
    BY <1>1 DEF Attach
  <2> QED
    BY <2>1 DEF MadeInv, Same, Value
<1>2. CASE ~(InObject(s) /\ key = NoKey)
  <2> DEFINE x == Value(v, IF InObject(s) THEN key ELSE NoKey, IF s = <<>> THEN 0 ELSE Innermost(s).value)
             n == Len(made)
  <2>1. made' = Append(made, x)
    BY <1>2 DEF Attach
  <2>2. Same(x, tree[n + 1]) /\ x = Value(x, x.key, x.parent)
    BY DEF Value, Same
  <2> HIDE DEF x
  <2>3. /\ Sequence(made') /\ n \in Nat /\ Len(made') = n + 1 /\ made'[n + 1] = x
        /\ \A i \in 1 .. n : made'[i] = made[i]
    BY <2>1, SequenceMore DEF MadeInv
  <2> HIDE DEF n
  <2>4. ASSUME NEW i \in 1 .. Len(made') PROVE Same(made'[i], tree[i]) /\ made'[i] = Value(made'[i], made'[i].key, made'[i].parent)
    <3>1. CASE i = n + 1
      BY <2>2, <2>3, <3>1
    <3>2. CASE i \in 1 .. n
      BY <2>3, <3>2 DEF MadeInv, n
    <3> QED
      BY <2>3, <3>1, <3>2
  <2> QED
    BY <2>3, <2>4 DEF MadeInv, Same, Value, n
<1> QED
  BY <1>1, <1>2

(* The kinds of what is there.                                             *)
LEMMA KindAt ==
  ASSUME NEW item, NEW v \in TreeValues
  PROVE  /\ KeyAt(item, v.key) => item.cell.kind \in {"KEY1", "KEY2"} /\ item.cell.kind \notin Containers
         /\ ValueAt(item, v) =>
              /\ item.cell.kind \notin {"KEY1", "KEY2"} /\ (item.cell.kind \in Containers <=> v.type \in Branches)
              /\ v.type \in Branches =>
                   /\ item.cell.bytes = 5
                   /\ Same(Branch(IF item.cell.kind = "OBJ" THEN "OBJECT" ELSE "ARRAY"), v)
                   /\ v.type = IF item.cell.kind = "OBJ" THEN "OBJECT" ELSE "ARRAY"
              /\ v.type \notin Branches => BSize(item.cell) = item.cell.bytes /\ Same(Parsed(item), v)
<1>1. FilledAs(v) /\ (v.type \in Branches => v.form = "none" /\ v.n = 0) /\ (v.type \notin Branches => ParsedAs(v))
  BY ValueFilled
<1>2. KeyAt(item, v.key) => item.cell.kind \in {"KEY1", "KEY2"} /\ item.cell.kind \notin Containers
  BY DEF KeyAt, Containers
<1>3. ASSUME ValueAt(item, v)
      PROVE  /\ item.cell.kind \notin {"KEY1", "KEY2"} /\ (item.cell.kind \in Containers <=> v.type \in Branches)
             /\ v.type \in Branches => item.cell.bytes = 5 /\ (v.type = "OBJECT" <=> item.cell.kind = "OBJ")
  BY <1>1, <1>3 DEF FilledAs, ValueAt
<1>4. ASSUME ValueAt(item, v), v.type \notin Branches
      PROVE  BSize(item.cell) = item.cell.bytes /\ Same(Parsed(item), v)
  BY <1>1, <1>4 DEF ValueAt, ParsedAs
<1>5. ASSUME ValueAt(item, v), v.type \in Branches
      PROVE  /\ v.type = IF item.cell.kind = "OBJ" THEN "OBJECT" ELSE "ARRAY"
             /\ Same(Branch(v.type), v)
  <2>1. v.type = IF item.cell.kind = "OBJ" THEN "OBJECT" ELSE "ARRAY"
    BY <1>3, <1>5 DEF Branches, Containers
  <2>2. AsRead(v).type = v.type
    BY <1>5 DEF AsRead, Branches
  <2>3. v.form = "none" /\ v.n = 0
    BY <1>1, <1>5
  <2>4. ~Altered(v)
    BY <1>5, <2>3, Unaltered DEF IsTime, Branches
  <2>5. Same(Branch(v.type), v)
    BY <2>2, <2>3, <2>4 DEF Same, Branch
  <2> QED
    BY <2>1, <2>5
<1> QED
  BY <1>2, <1>3, <1>4, <1>5

(* A message that stays has its items where they were.                     *)
LEMMA WhereKept ==
  ASSUME UNCHANGED <<tree, writer>>, NEW p, Holds(wire, p, Len(tree))
  PROVE  Holds(wire, p, Len(tree))' /\ \A j : At(j)' = At(j)
<1>1. tree' = tree /\ wire' = wire /\ w' = w
  BY DEF writer
<1>2. \A j : At(j)' = At(j)
  BY <1>1 DEF At
<1> QED
  BY <1>1, <1>2 DEF Holds, ValueAt, KeyAt

(* A key is read: it is that of the next value.                            *)
KeyRead(p, n) == /\ n \in Nat /\ n < Len(tree)
                 /\ tree[n + 1].key # NoKey /\ key' = tree[n + 1].key
                 /\ val = At(p[n] + 1) /\ val' = At(p[n + 1])

(* What opo_val_to_ojc does with a key.                                    *)
LEMMA ReadsKey ==
  ASSUME MessageInv, MadeInv, ReadKey, NEW p, ReadAs(p)
  PROVE  KeyRead(p, Len(made))
<1>1. Reading
  BY DEF ReadKey
<1> DEFINE n == Len(made)
<1>4. /\ n \in Nat /\ n < Len(tree) /\ tree[n + 1] \in TreeValues /\ Laid(wire, w)
      /\ \E j \in DOMAIN wire : /\ Here = {wire[j]} /\ val = At(j)
                                /\ AtValue(p, n, j) \/ AtKey(p, n, j)
  BY <1>1, HereIs
<1> HIDE DEF n
<1>5. PICK j \in DOMAIN wire : /\ Here = {wire[j]} /\ val = At(j)
                               /\ AtValue(p, n, j) \/ AtKey(p, n, j)
  BY <1>4
<1>6. /\ wire[j].cell.kind \in {"KEY1", "KEY2"} /\ val' = val + BSize(wire[j].cell)
      /\ key' = wire[j].n
  BY <1>5 DEF ReadKey
<1>7. AtKey(p, n, j)
  BY <1>4, <1>5, <1>6, KindAt DEF AtValue
<1>8. val' = At(p[n + 1])
  <2>1. BSize(wire[j].cell) = wire[j].cell.bytes /\ p[n + 1] = j + 1
    BY <1>7 DEF AtKey, KeyAt
  <2> QED
    BY <1>4, <1>5, <1>6, <2>1, AtNext
<1> QED
  BY <1>4, <1>5, <1>6, <1>7, <1>8 DEF KeyRead, AtKey, KeyAt, n

(* In front of the value once its key is read.                             *)
LEMMA KeyStep ==
  ASSUME MessageInv, ReadInv, ReadKey
  PROVE  ReadInv'
<1>1. UNCHANGED <<tree, writer>> /\ phase = "read" /\ phase' = "read" /\ err' = err /\ made' = made /\ tree' = tree
  BY DEF ReadKey, Reading
<1>2. MadeInv /\ \E p : ReadAs(p)
  BY <1>1 DEF ReadInv
<1>3. PICK p : ReadAs(p)
  BY <1>2
<1>4. Len(made) < Len(tree) /\ val' = At(p[Len(made) + 1])
  <2>1. KeyRead(p, Len(made))
    BY <1>2, <1>3, ReadsKey
  <2> QED
    BY <2>1 DEF KeyRead
<1>5. Holds(wire, p, Len(tree))' /\ \A i : At(i)' = At(i)
  BY <1>1, <1>3, WhereKept DEF ReadAs
<1>6. ReadAs(p)'
  BY <1>1, <1>4, <1>5 DEF ReadAs, Ahead
<1>7. MadeInv'
  BY <1>1, <1>2 DEF MadeInv, Same, Value
<1> QED
  BY <1>1, <1>6, <1>7 DEF ReadInv

(* A value is read: its item is there, and its leaf or branch attached.    *)
ValueRead(p, n) ==
    LET v == tree[n + 1]
        item == wire[p[n + 1]]
    IN  /\ n \in Nat /\ n < Len(tree) /\ v \in TreeValues
        /\ p[n + 1] \in DOMAIN wire /\ Here = {item}
        /\ val = At(p[n + 1]) /\ val' = At(p[n + 1] + 1)
        /\ ReadLeaf => v.type \notin Branches
        /\ ReadBranch => v.type \in Branches
        /\ \E x : Attach(x, Surrounding)
        /\ MadeInv' /\ (err' = "OK" => Len(made') = n + 1)

(* What opo_val_to_ojc does with the item of a value.                      *)
LEMMA ReadsValue ==
  ASSUME MessageInv, MadeInv, ReadLeaf \/ ReadBranch, NEW p, ReadAs(p)
  PROVE  ValueRead(p, Len(made))
<1>1. UNCHANGED <<tree, writer>> /\ Reading /\ err = "OK" /\ tree' = tree
  BY DEF ReadLeaf, ReadBranch, Reading
<1> DEFINE n == Len(made)
<1>4. /\ n \in Nat /\ n < Len(tree) /\ tree[n + 1] \in TreeValues /\ Laid(wire, w)
      /\ \E j \in DOMAIN wire : /\ Here = {wire[j]} /\ val = At(j)
                                /\ AtValue(p, n, j) \/ AtKey(p, n, j)
  BY <1>1, HereIs
<1> HIDE DEF n
<1>5. PICK j \in DOMAIN wire : /\ Here = {wire[j]} /\ val = At(j)
                               /\ AtValue(p, n, j) \/ AtKey(p, n, j)
  BY <1>4
<1> DEFINE item == wire[j]
           v == tree[n + 1]
<1>6. j = p[n + 1] /\ ValueAt(item, v)
  <2>1. item.cell.kind \notin {"KEY1", "KEY2"}
    <3>1. CASE ReadLeaf
      BY <1>5, <3>1 DEF ReadLeaf
    <3>2. CASE ReadBranch
      BY <1>5, <3>2 DEF ReadBranch, Containers
    <3> QED
      BY <3>1, <3>2
  <2> QED
    BY <1>4, <1>5, <2>1, KindAt DEF AtValue, AtKey
<1>7. /\ MadeInv' /\ (err' = "OK" => Len(made') = n + 1) /\ val' = val + item.cell.bytes
      /\ \E x : Attach(x, Surrounding)
  <2>0. Len(tree) \in Nat
    BY DEF MessageInv, TreeInv, Ordered
  <2>1. CASE ReadLeaf
    <3>1. /\ item.cell.kind \notin Containers /\ Attach(Parsed(item), Surrounding)
          /\ val' = val + BSize(item.cell)
      BY <1>5, <2>1 DEF ReadLeaf
    <3>2. Same(Parsed(item), v) /\ BSize(item.cell) = item.cell.bytes
      BY <1>4, <1>6, <3>1, KindAt
    <3> QED
      BY <1>1, <1>4, <2>0, <3>1, <3>2, AttachMade DEF n
  <2>2. CASE ReadBranch
    <3>1. /\ item.cell.kind \in Containers
          /\ Attach(Branch(IF item.cell.kind = "OBJ" THEN "OBJECT" ELSE "ARRAY"), Surrounding)
          /\ val' = val + 5
      BY <1>5, <2>2 DEF ReadBranch
    <3>2. Same(Branch(IF item.cell.kind = "OBJ" THEN "OBJECT" ELSE "ARRAY"), v) /\ item.cell.bytes = 5
      BY <1>4, <1>6, <3>1, KindAt
    <3> QED
      BY <1>1, <1>4, <2>0, <3>1, <3>2, AttachMade DEF n
  <2> QED
    BY <2>1, <2>2
<1>8. val' = At(p[n + 1] + 1)
  BY <1>4, <1>5, <1>6, <1>7, AtNext
<1>9. (ReadLeaf => v.type \notin Branches) /\ (ReadBranch => v.type \in Branches)
  <2>1. item.cell.kind \in Containers <=> v.type \in Branches
    BY <1>4, <1>6, KindAt
  <2> QED
    BY <1>5, <2>1 DEF ReadLeaf, ReadBranch
<1> QED
  BY <1>4, <1>5, <1>6, <1>7, <1>8, <1>9 DEF ValueRead, n

(* A value read, or an error told.                                         *)
LEMMA ValueStep ==
  ASSUME MessageInv, ReadInv, ReadLeaf \/ ReadBranch
  PROVE  ReadInv'
<1>1. UNCHANGED <<tree, writer>> /\ phase = "read" /\ phase' = "read" /\ err = "OK" /\ tree' = tree
  BY DEF ReadLeaf, ReadBranch, Reading
<1>2. MadeInv /\ \E p : ReadAs(p)
  BY <1>1 DEF ReadInv
<1>3. PICK p : ReadAs(p)
  BY <1>2
<1>4. MadeInv' /\ (err' = "OK" => Len(made') = Len(made) + 1) /\ val' = At(p[Len(made) + 1] + 1)
  <2>1. ValueRead(p, Len(made))
    BY <1>2, <1>3, ReadsValue
  <2> QED
    BY <2>1 DEF ValueRead
<1>5. Holds(wire, p, Len(tree))' /\ \A i : At(i)' = At(i)
  BY <1>1, <1>3, WhereKept DEF ReadAs
<1>6. ReadAs(p)'
  BY <1>4, <1>5 DEF ReadAs, Ahead
<1> QED
  BY <1>1, <1>4, <1>6 DEF ReadInv

(* One too deep is told, and nothing made of it.                           *)
LEMMA TooDeepStep ==
  ASSUME MessageInv, ReadInv, ReadTooDeep
  PROVE  ReadInv'
<1>1. UNCHANGED <<tree, writer>> /\ phase = "read" /\ phase' = "read" /\ err' # "OK" /\ made' = made /\ tree' = tree
  BY DEF ReadTooDeep, Reading
<1>2. MadeInv /\ \E p : ReadAs(p)
  BY <1>1 DEF ReadInv
<1>3. PICK p : ReadAs(p)
  BY <1>2
<1>4. ReadAs(p)'
  BY <1>1, <1>3, WhereKept DEF ReadAs
<1>5. MadeInv'
  BY <1>1, <1>2 DEF MadeInv, Same, Value
<1> QED
  BY <1>1, <1>4, <1>5 DEF ReadInv

(* The end is behind the last value.                                       *)
LEMMA DoneStep ==
  ASSUME MessageInv, ReadInv, ReadDone
  PROVE  ReadInv'
<1>1. /\ UNCHANGED <<tree, writer>> /\ phase = "read" /\ phase' = "done" /\ UNCHANGED <<val, made, err>>
      /\ ~(err = "OK" /\ val < End) /\ tree' = tree
  BY DEF ReadDone, reader
<1>2. MadeInv /\ \E p : ReadAs(p)
  BY <1>1 DEF ReadInv
<1>3. PICK p : ReadAs(p)
  BY <1>2
<1>4. Holds(wire, p, Len(tree))' /\ \A i : At(i)' = At(i)
  BY <1>1, <1>3, WhereKept DEF ReadAs
<1>5. ReadAs(p)'
  BY <1>1, <1>3, <1>4 DEF ReadAs, Ahead
<1>6. MadeInv'
  BY <1>1, <1>2 DEF MadeInv, Same, Value
<1>7. ASSUME err = "OK" PROVE Len(made) = Len(tree)
  <2> DEFINE n == Len(made)
             N == Len(tree)
  <2>1. /\ tree \in Seq(TreeValues) /\ N \in Nat /\ next > 1 /\ open = <<>> /\ RootInv /\ Laid(wire, w)
    <3>1. next = N + 1 /\ open = <<>> /\ tree # <<>> /\ tree \in Seq(TreeValues)
      BY <1>1 DEF MessageInv, PhaseInv, TreeInv, Ordered
    <3>2. N \in Nat /\ N > 0
      BY <3>1
    <3>3. RootInv /\ Laid(wire, w)
      BY DEF MessageInv, WriteInv, WireInv
    <3> QED
      BY <3>1, <3>2, <3>3
  <2>2. ~(val < w)
    BY <1>1, <1>7, <2>1 DEF RootInv
  <2>3. n \in Nat /\ n <= N
    BY <1>2, SequenceMore DEF MadeInv
  <2>4. Holds(wire, p, N) /\ (val = At(p[n] + 1) \/ (n < N /\ val = At(p[n + 1])))
    BY <1>3, <1>7 DEF ReadAs, Ahead
  <2> HIDE DEF n, N
  <2>5. \A j \in DOMAIN wire : val # At(j)
    BY <2>1, <2>2, AtNext
  <2>6. SUFFICES ASSUME n < N PROVE FALSE
    BY <2>1, <2>3 DEF n, N
  <2>7. n + 1 \in 1 .. N /\ (n + 1) - 1 = n /\ n \in 0 .. N
    BY <2>1, <2>3, <2>6
  <2>8. /\ p[n + 1] \in DOMAIN wire
        /\ tree[n + 1].key = NoKey => p[n + 1] = p[n] + 1
        /\ tree[n + 1].key # NoKey => p[n] + 1 \in DOMAIN wire
    BY <2>4, <2>7 DEF Holds
  <2> QED
    BY <2>4, <2>5, <2>8
<1> QED
  BY <1>1, <1>5, <1>6, <1>7 DEF ReadInv

(* A reader that does not step stays where it is.                          *)
LEMMA ReadKept ==
  ASSUME ReadInv, tree' = tree, UNCHANGED writer, UNCHANGED <<phase, val, made, err>>
  PROVE  ReadInv'
<1>1. MadeInv'
  BY DEF ReadInv, MadeInv, Same, Value
<1>2. ASSUME NEW p, ReadAs(p) PROVE ReadAs(p)'
  BY <1>2, WhereKept DEF ReadAs, Ahead
<1> QED
  BY <1>1, <1>2 DEF ReadInv

(* The message, and the reader in it.                                      *)
ConvertInv == MessageInv /\ ReadInv

(* Before it is read nothing is made.                                      *)
LEMMA UnreadInv == made = <<>> /\ phase \in {"grow", "write"} /\ Len(tree) \in Nat => ReadInv
<1> SUFFICES ASSUME made = <<>>, phase \in {"grow", "write"}, Len(tree) \in Nat PROVE ReadInv
  OBVIOUS
<1>1. Len(made) = 0 /\ made \in Seq({})
  OBVIOUS
<1>2. MadeInv
  BY <1>1 DEF MadeInv, Sequence
<1> QED
  BY <1>2 DEF ReadInv

(* At first all of it holds.                                               *)
LEMMA ConvertInit == Init => ConvertInv
<1> SUFFICES ASSUME Init PROVE ConvertInv
  OBVIOUS
<1>1. MessageInv
  BY MessageInit
<1>2. ReadInv
  BY UnreadInv DEF Init
<1> QED
  BY <1>1, <1>2 DEF ConvertInv

(* Every step keeps it.                                                    *)
LEMMA ConvertStep == ConvertInv /\ [Next]_vars => ConvertInv'
<1> SUFFICES ASSUME ConvertInv, [Next]_vars PROVE ConvertInv'
  OBVIOUS
<1>1. MessageInv /\ ReadInv
  BY DEF ConvertInv
<1>2. MessageInv'
  BY <1>1, MessageStep
<1>3. Len(tree') \in Nat
  BY <1>2 DEF MessageInv, TreeInv, Ordered
<1>4. (made = <<>> /\ phase \in {"grow", "write"} /\ Len(tree) \in Nat => ReadInv)'
  BY UnreadInv, PTL
<1>5. CASE phase' \in {"grow", "write"}
  <2>1. made' = <<>>
    BY <1>2, <1>5 DEF MessageInv, PhaseInv
  <2> QED
    BY <1>2, <1>3, <1>4, <1>5, <2>1 DEF ConvertInv
<1>6. CASE Written
  <2>1. UNCHANGED <<tree, writer>> /\ phase = "write" /\ phase' = "read" /\ UNCHANGED <<val, made, err>> /\ next > Len(tree)
    BY <1>6 DEF Written, reader
  <2>2. made = <<>> /\ val = Id /\ next = Len(tree) + 1 /\ tree # <<>> /\ Len(tree) \in Nat
    BY <1>1, <2>1 DEF MessageInv, PhaseInv, WriteInv, TreeInv, Ordered
  <2>3. PICK p : WireInv(p)
    BY <1>1 DEF MessageInv, WriteInv
  <2>4. Holds(wire, p, Len(tree)) /\ Laid(wire, w)
    <3>1. next - 1 = Len(tree)
      BY <2>2
    <3> QED
      BY <2>3, <3>1 DEF WireInv
  <2>5. p[0] = 0 /\ wire # <<>> /\ wire \in Seq(Items)
    <3>1. wire \in Seq(Items)
      BY <2>4 DEF Laid
    <3>2. Len(tree) \in 1 .. Len(tree)
      BY <1>1, <2>2 DEF MessageInv, TreeInv, Ordered
    <3>3. DOMAIN wire # {} /\ p[0] = 0
      BY <2>4, <3>2 DEF Holds
    <3> QED
      BY <3>1, <3>3
  <2>6. 0 + 1 \in DOMAIN wire /\ wire[1].cell.at = Id
    BY <2>4, <2>5 DEF Laid
  <2>7. val = At(p[Len(made)] + 1)
    BY <2>2, <2>5, <2>6 DEF At
  <2>8. Holds(wire, p, Len(tree))' /\ \A i : At(i)' = At(i)
    BY <2>1, <2>4, WhereKept
  <2>9. ReadAs(p)'
    BY <2>1, <2>7, <2>8 DEF ReadAs, Ahead
  <2>10. MadeInv'
    BY <1>1, <2>1 DEF ReadInv, MadeInv, Same, Value
  <2>11. ReadInv'
    BY <2>1, <2>9, <2>10 DEF ReadInv
  <2> QED
    BY <1>2, <2>11 DEF ConvertInv
<1>7. CASE Reads
  <2>1. ReadInv'
    BY <1>1, <1>7, KeyStep, ValueStep, TooDeepStep, DoneStep DEF Reads
  <2> QED
    BY <1>2, <2>1 DEF ConvertInv
<1>8. CASE Grow \/ Convert \/ Fill \/ FillSize
  <2>1. phase' \in {"grow", "write"}
    BY <1>8, Zenon DEF Grow, Convert, Fill, FillSize
  <2> QED
    BY <1>5, <2>1
<1>9. CASE UNCHANGED vars
  <2>1. tree' = tree /\ UNCHANGED writer /\ UNCHANGED <<phase, val, made, err>>
    BY <1>9 DEF vars, reader
  <2>2. ReadInv'
    BY <1>1, <2>1, ReadKept
  <2> QED
    BY <1>2, <2>2 DEF ConvertInv
<1> QED
  BY <1>6, <1>7, <1>8, <1>9 DEF Next, Reads

(* The reader is always in front of the item of the next value or of its   *)
(* key, and what it has made so far are the values before that, in their   *)
(* order.                                                                  *)
THEOREM Conversions == Spec => []ConvertInv
BY ConvertInit, ConvertStep, PTL DEF Spec

(* So no value is lost or made up, and none changed that survives.         *)
LEMMA KeptValues == ConvertInv => ValuesKept
<1> SUFFICES ASSUME ConvertInv PROVE ValuesKept
  OBVIOUS
<1>1. MadeInv /\ (phase = "done" /\ err = "OK" => Len(made) = Len(tree)) /\ tree \in Seq(TreeValues)
  BY DEF ConvertInv, ReadInv, MessageInv, TreeInv, Ordered
<1>2. DOMAIN made = 1 .. Len(made) /\ Len(made) \in Nat /\ Len(made) <= Len(tree)
  BY <1>1, SequenceMore DEF MadeInv
<1>3. ASSUME NEW i \in DOMAIN made
      PROVE  /\ made[i].type = Source[i].type
             /\ \/ made[i].form = Source[i].form /\ made[i].n = Source[i].n
                \/ Altered(tree[i]) /\ made[i].form \in {"none", "time"}
  <2>1. i \in DOMAIN tree /\ tree[i] \in TreeValues
    BY <1>1, <1>2
  <2>2. Same(made[i], tree[i])
    BY <1>1, <1>2 DEF MadeInv
  <2>3. Source[i] = AsRead(tree[i])
    BY <2>1 DEF Source
  <2>4. AsRead(tree[i]).form = tree[i].form /\ AsRead(tree[i]).n = tree[i].n
    BY <2>1 DEF AsRead, TreeValues
  <2> QED
    BY <2>2, <2>3, <2>4 DEF Same
<1> QED
  BY <1>1, <1>2, <1>3 DEF ValuesKept

(* A tree made into a message and back has the values it had, in their     *)
(* order, whatever comes of the places; only doubles that need more digits *)
(* than are written and times that are not written as strftime would, are  *)
(* before 1970 or too late are changed, and only with an error told are    *)
(* there fewer.                                                            *)
THEOREM Values == Spec => []ValuesKept
BY Conversions, KeptValues, PTL

(* The places of the values in a message are what they are.                *)
LEMMA HoldsOne ==
  ASSUME NEW ws, NEW n \in Nat, NEW p, Holds(ws, p, n), NEW q, Holds(ws, q, n)
  PROVE  p = q
<1> DEFINE S == {i \in Nat : i <= n => p[i] = q[i]}
<1>1. /\ p \in [0 .. n -> Nat] /\ q \in [0 .. n -> Nat] /\ p[0] = 0 /\ q[0] = 0
      /\ \A i \in 1 .. n : /\ tree[i].key = NoKey => p[i] = p[i - 1] + 1 /\ q[i] = q[i - 1] + 1
                           /\ tree[i].key # NoKey => p[i] = p[i - 1] + 2 /\ q[i] = q[i - 1] + 2
  BY DEF Holds
<1>2. 0 \in S
  BY <1>1
<1>3. ASSUME NEW i \in Nat, i \in S PROVE i + 1 \in S
  <2> SUFFICES ASSUME i + 1 <= n PROVE p[i + 1] = q[i + 1]
    OBVIOUS
  <2>1. i + 1 \in 1 .. n /\ (i + 1) - 1 = i /\ p[i] = q[i]
    BY <1>3
  <2> QED
    BY <1>1, <2>1
<1>4. Nat \subseteq S
  <2> HIDE DEF S
  <2> QED
    BY <1>2, <1>3, SetInduction
<1>5. \A i \in 0 .. n : p[i] = q[i]
  BY <1>4
<1> QED
  BY <1>1, <1>5

(* Every object and array has the end of what it is around, and of nothing *)
(* behind.                                                                 *)
Spanned(p) ==
    \A j \in 1 .. Len(tree) : tree[j].type \in Branches =>
       /\ SpanAt(p, j) \in Int
       /\ \A i \in j .. Len(tree) : j \in Around[i] => At(p[i] + 1) <= SpanAt(p, j)
       /\ \A i \in j + 1 .. Len(tree) : j \notin Around[i] => SpanAt(p, j) <= At(p[i - 1] + 1)

(* What is known of a message that is read.                                *)
LEMMA Reader ==
  ASSUME ConvertInv, phase \in {"read", "done"}, NEW p, Holds(wire, p, Len(tree))
  PROVE  ReadAs(p) /\ Spanned(p) /\ Laid(wire, w) /\ MadeInv
<1>1. TreeInv /\ WriteInv /\ PhaseInv /\ ReadInv
  BY DEF ConvertInv, MessageInv
<1>2. open = <<>> /\ next = Len(tree) + 1 /\ Len(tree) \in Nat
  BY <1>1 DEF PhaseInv, TreeInv, Ordered
<1>3. next - 1 = Len(tree) /\ DOMAIN open = {}
  BY <1>2
<1>4. PICK q : WireInv(q)
  BY <1>1 DEF WriteInv
<1>5. q = p
  BY <1>2, <1>3, <1>4, HoldsOne DEF WireInv
<1>6. PICK r : ReadAs(r)
  BY <1>1 DEF ReadInv
<1>7. r = p
  BY <1>2, <1>6, HoldsOne DEF ReadAs
<1>8. SpanInv(p) /\ Laid(wire, w) /\ wire \in Seq(Items)
  BY <1>4, <1>5 DEF WireInv, Laid
<1>9. Spanned(p)
  <2>1. \A j \in 1 .. Len(tree) : SpanAt(p, j) \in Int
    <3>1. \A j \in 1 .. Len(tree) : wire[p[j]] \in Items
      BY <1>8 DEF Holds
    <3> QED
      BY <3>1, BSizeInt DEF SpanAt
  <2> QED
    BY <1>3, <1>8, <2>1 DEF SpanInv, Spanned
<1> QED
  BY <1>1, <1>6, <1>7, <1>8, <1>9 DEF ReadInv
-----------------------------------------------------------------------------
(* The reader's parents: each within the one before it, with its end.      *)
Chain(s, p) ==
    /\ s \in Seq([value : Nat, end : Int])
    /\ \A d \in DOMAIN s : s[d].value \in 1 .. Len(tree) /\ tree[s[d].value].type \in Branches
                           /\ s[d].end = SpanAt(p, s[d].value)
    /\ \A d \in DOMAIN s : Around[s[d].value] = {s[e].value : e \in 1 .. d}
    /\ \A d, e \in DOMAIN s : d < e => s[d].value < s[e].value

(* The objects and arrays value i is in, itself included.                  *)
In(i) == {j \in Around[i] : tree[j].type \in Branches}

(* The reader's parents are those value i is in.                           *)
OnStack(s, p, i) == Chain(s, p) /\ {s[d].value : d \in DOMAIN s} = In(i)

(* How many of s are around value n + 1 that comes next.                   *)
Depth(s, n, d) == /\ d \in 0 .. Len(s)
                  /\ Around[tree[n + 1].parent] = {s[e].value : e \in 1 .. d}
                  /\ d > 0 => s[d].value = tree[n + 1].parent
                  /\ d = 0 => tree[n + 1].parent = 0 /\ n = 0

(* The values of those of s from a + 1 to b.                               *)
ValuesOf(s, a, b) == {s[e].value : e \in a + 1 .. b}

(* They are as many as their places.                                       *)
LEMMA CountOf ==
  ASSUME NEW s, NEW m \in Nat, \A d \in 1 .. m : s[d].value \in Nat,
         \A d, e \in 1 .. m : d < e => s[d].value < s[e].value,
         NEW a \in Nat, a <= m
  PROVE  IsFiniteSet(ValuesOf(s, a, m)) /\ Cardinality(ValuesOf(s, a, m)) = m - a
<1> DEFINE V(b) == {s[e].value : e \in a + 1 .. b}
           S == {k \in Nat : a + k <= m => IsFiniteSet(V(a + k)) /\ Cardinality(V(a + k)) = k}
<1>1. 0 \in S
  <2>1. V(a + 0) = {}
    OBVIOUS
  <2> HIDE DEF V
  <2> QED
    BY <2>1, FS_EmptySet
<1>2. ASSUME NEW k \in Nat, k \in S PROVE k + 1 \in S
  <2> SUFFICES ASSUME a + (k + 1) <= m
               PROVE  IsFiniteSet(V(a + (k + 1))) /\ Cardinality(V(a + (k + 1))) = k + 1
    OBVIOUS
  <2> DEFINE b == a + (k + 1)
  <2>1. b \in 1 .. m /\ a + k = b - 1 /\ a + k <= m
    OBVIOUS
  <2>2. IsFiniteSet(V(a + k)) /\ Cardinality(V(a + k)) = k
    BY <1>2, <2>1
  <2>3. V(b) = V(a + k) \cup {s[b].value}
    <3>1. \A e \in a + 1 .. b : e = b \/ e \in a + 1 .. a + k
      BY <2>1
    <3>2. b \in a + 1 .. b /\ \A e \in a + 1 .. a + k : e \in a + 1 .. b
      BY <2>1
    <3> QED
      BY <3>1, <3>2
  <2>4. s[b].value \notin V(a + k)
    <3>1. \A e \in a + 1 .. a + k : e \in 1 .. m /\ e < b
      BY <2>1
    <3>2. \A e \in a + 1 .. a + k : s[e].value < s[b].value /\ s[e].value \in Nat /\ s[b].value \in Nat
      BY <2>1, <3>1
    <3>3. \A e \in a + 1 .. a + k : s[e].value # s[b].value
      BY <3>2
    <3> QED
      BY <3>3
  <2> HIDE DEF V
  <2>5. IsFiniteSet(V(b)) /\ Cardinality(V(b)) = k + 1
    BY <2>2, <2>3, <2>4, FS_AddElement
  <2> QED
    BY <2>5
<1>3. Nat \subseteq S
  <2> HIDE DEF S
  <2> QED
    BY <1>1, <1>2, SetInduction
<1>4. m - a \in S /\ a + (m - a) = m
  <2>1. m - a \in Nat /\ a + (m - a) = m
    OBVIOUS
  <2> HIDE DEF S
  <2> QED
    BY <1>3, <2>1
<1>5. IsFiniteSet(V(m)) /\ Cardinality(V(m)) = m - a
  <2> HIDE DEF V
  <2> QED
    BY <1>4
<1> QED
  BY <1>5 DEF ValuesOf

(* What ends before value n + 1, before its key and after it alike.        *)
EndsBy(s, p, n, d) ==
    \A e \in 1 .. Len(s) : /\ s[e].end <= At(p[n] + 1) <=> e > d
                           /\ s[e].end <= At(p[n + 1]) <=> e > d

(* A key is in front of its value, and both before what follows.           *)
LEMMA AtOrder ==
  ASSUME NEW p, Holds(wire, p, Len(tree)), Laid(wire, w), Len(tree) \in Nat, NEW n \in Nat, n < Len(tree)
  PROVE  /\ At(p[n] + 1) \in Nat /\ At(p[n + 1]) \in Nat /\ At(p[n + 1] + 1) \in Nat
         /\ At(p[n] + 1) <= At(p[n + 1]) /\ At(p[n + 1]) < At(p[n + 1] + 1)
         /\ tree[n + 1].key # NoKey => At(p[n] + 1) < At(p[n + 1])
         /\ p[n] + 1 \in DOMAIN wire /\ p[n + 1] \in DOMAIN wire
<1>1. n + 1 \in 1 .. Len(tree) /\ (n + 1) - 1 = n /\ n \in 0 .. Len(tree)
  OBVIOUS
<1>2. /\ p[n + 1] \in DOMAIN wire /\ p[n] \in Nat
      /\ tree[n + 1].key = NoKey => p[n + 1] = p[n] + 1
      /\ tree[n + 1].key # NoKey => p[n + 1] = p[n] + 2 /\ p[n] + 1 \in DOMAIN wire
  BY <1>1 DEF Holds
<1>3. At(p[n + 1]) \in Nat /\ At(p[n + 1] + 1) \in Nat /\ At(p[n + 1]) < At(p[n + 1] + 1)
  <2> DEFINE j == p[n + 1]
  <2>1. At(j) = wire[j].cell.at /\ At(j + 1) = wire[j].cell.at + wire[j].cell.bytes
        /\ At(j) \in Nat /\ wire[j].cell.bytes \in Nat \ {0} /\ At(j + 1) \in Nat
    BY <1>2, AtNext
  <2> HIDE DEF j
  <2> QED
    BY <2>1 DEF j
<1>4. CASE tree[n + 1].key = NoKey
  BY <1>2, <1>3, <1>4
<1>5. CASE tree[n + 1].key # NoKey
  <2> DEFINE j == p[n] + 1
  <2>1. j \in DOMAIN wire /\ p[n + 1] = j + 1
    BY <1>2, <1>5
  <2> HIDE DEF j
  <2>2. At(j) = wire[j].cell.at /\ At(j + 1) = wire[j].cell.at + wire[j].cell.bytes
        /\ At(j) \in Nat /\ wire[j].cell.bytes \in Nat \ {0} /\ At(j + 1) \in Nat
    BY <2>1, AtNext
  <2>3. At(j) < At(j + 1)
    BY <2>2
  <2> QED
    BY <1>2, <1>3, <2>1, <2>2, <2>3 DEF j
<1> QED
  BY <1>4, <1>5

(* What is known of the parents of a reader that has made n values.        *)
StackIs(s, p, n) ==
    LET N == Len(tree)
        P == tree[n + 1].parent
        D == Len(s)
    IN  /\ N \in Nat /\ AroundIs /\ n + 1 \in 1 .. N /\ (n + 1) - 1 = n /\ P \in Nat
        /\ s \in Seq([value : Nat, end : Int]) /\ D \in Nat /\ DOMAIN s = 1 .. D
        /\ \A d \in 1 .. D : s[d].value \in 1 .. N /\ tree[s[d].value].type \in Branches /\ s[d].end = SpanAt(p, s[d].value)
        /\ \A d \in 1 .. D : Around[s[d].value] = {s[e].value : e \in 1 .. d}
        /\ \A d, e \in 1 .. D : d < e => s[d].value < s[e].value
        /\ {s[d].value : d \in 1 .. D} = In(n)
        /\ Around[n + 1] = {n + 1} \cup Around[P]
        /\ \A d \in 1 .. D : s[d].value <= n /\ s[d].value \in Nat /\ s[d].value # n + 1
        /\ n = 0 => D = 0

(* It follows from what the tree is.                                       *)
LEMMA StackKnown ==
  ASSUME TreeInv, NEW p, NEW n \in Nat, n < Len(tree), NEW s, OnStack(s, p, n)
  PROVE  StackIs(s, p, n)
<1> DEFINE N == Len(tree)
           P == tree[n + 1].parent
           D == Len(s)
<1>1. /\ N \in Nat /\ AroundIs /\ n + 1 \in 1 .. N /\ (n + 1) - 1 = n /\ P \in Nat
  <2>1. AroundIs /\ N \in Nat /\ tree \in Seq(TreeValues)
    BY AroundTrue DEF TreeInv, Ordered
  <2>2. n + 1 \in 1 .. N /\ (n + 1) - 1 = n
    BY <2>1
  <2>3. tree[n + 1] \in TreeValues
    BY <2>1, <2>2
  <2> QED
    BY <2>1, <2>2, <2>3 DEF TreeValues
<1>2. /\ s \in Seq([value : Nat, end : Int]) /\ D \in Nat /\ DOMAIN s = 1 .. D
      /\ \A d \in 1 .. D : s[d].value \in 1 .. N /\ tree[s[d].value].type \in Branches /\ s[d].end = SpanAt(p, s[d].value)
      /\ \A d \in 1 .. D : Around[s[d].value] = {s[e].value : e \in 1 .. d}
      /\ \A d, e \in 1 .. D : d < e => s[d].value < s[e].value
      /\ {s[d].value : d \in 1 .. D} = In(n)
  <2>1. s \in Seq([value : Nat, end : Int])
    BY DEF OnStack, Chain
  <2>2. D \in Nat /\ DOMAIN s = 1 .. D
    BY <2>1
  <2> HIDE DEF D, N
  <2>3. \A d \in 1 .. D : s[d].value \in 1 .. N /\ tree[s[d].value].type \in Branches /\ s[d].end = SpanAt(p, s[d].value)
    BY <2>2 DEF OnStack, Chain, N
  <2>4. \A d \in 1 .. D : Around[s[d].value] = {s[e].value : e \in 1 .. d}
    BY <2>2 DEF OnStack, Chain
  <2>5. \A d, e \in 1 .. D : d < e => s[d].value < s[e].value
    BY <2>2 DEF OnStack, Chain
  <2>6. {s[d].value : d \in 1 .. D} = In(n)
    BY <2>2 DEF OnStack
  <2> QED
    BY <2>1, <2>2, <2>3, <2>4, <2>5, <2>6
<1>4. Around[n + 1] = {n + 1} \cup Around[P]
  BY <1>1 DEF AroundIs
<1> HIDE DEF N, P, D
<1>5. \A d \in 1 .. D : s[d].value <= n /\ s[d].value \in Nat /\ s[d].value # n + 1
  <2>1. CASE n = 0
    <3>1. In(n) = {}
      BY <1>1, <2>1 DEF In, AroundIs
    <3>2. \A d \in 1 .. D : s[d].value \in In(n)
      BY <1>2
    <3> QED
      BY <3>1, <3>2
  <2>2. CASE n # 0
    <3>1. Around[n] \subseteq 1 .. n
      BY <1>1, <2>2 DEF TreeInv, N
    <3>2. \A d \in 1 .. D : s[d].value \in In(n)
      BY <1>2
    <3>3. \A d \in 1 .. D : s[d].value \in 1 .. n
      BY <3>1, <3>2 DEF In
    <3> QED
      BY <3>3
  <2> QED
    BY <2>1, <2>2
<1>6. ASSUME n = 0 PROVE D = 0
  <2>1. \A d \in 1 .. D : s[d].value <= 0 /\ s[d].value \in 1 .. N
    BY <1>2, <1>5, <1>6
  <2>2. 1 \notin 1 .. D
    BY <1>1, <2>1
  <2> QED
    BY <1>2, <2>2
<1> QED
  BY <1>1, <1>2, <1>4, <1>5, <1>6 DEF StackIs, N, P, D

(* The parent of the next value is one of the reader's parents.            *)
LEMMA DepthThere ==
  ASSUME TreeInv, NEW p, NEW n \in Nat, n < Len(tree), NEW s, OnStack(s, p, n)
  PROVE  \E d : Depth(s, n, d)
<1> DEFINE N == Len(tree)
           P == tree[n + 1].parent
           D == Len(s)
<1>0. StackIs(s, p, n)
  BY StackKnown
<1>1. /\ N \in Nat /\ AroundIs /\ n + 1 \in 1 .. N /\ (n + 1) - 1 = n /\ P \in Nat
  BY <1>0 DEF StackIs
<1>2. /\ D \in Nat /\ {s[d].value : d \in 1 .. D} = In(n)
      /\ \A d \in 1 .. D : Around[s[d].value] = {s[e].value : e \in 1 .. d}
  BY <1>0 DEF StackIs
<1> HIDE DEF N, P, D
<1>21. CASE n = 0
  <2>1. P = 0 /\ Around[0] = {}
    <3>1. tree # <<>> /\ tree[1].parent = 0
      BY <1>1, <1>21 DEF TreeInv, N
    <3> QED
      BY <1>1, <1>21, <3>1 DEF P, AroundIs
  <2>2. 0 \in 0 .. Len(s) /\ 1 .. 0 = {}
    BY <1>2 DEF D
  <2>3. Depth(s, n, 0)
    BY <1>21, <2>1, <2>2 DEF Depth, P
  <2> QED
    BY <2>3
<1>22. CASE n # 0
  <2>1. n + 1 \in 2 .. N /\ n \in 1 .. N
    BY <1>1, <1>22
  <2>2. P \in Around[n] /\ tree[P].type \in Branches
    BY <1>1, <2>1 DEF TreeInv, N, P
  <2>3. PICK d \in 1 .. D : s[d].value = P
    BY <1>2, <2>2 DEF In
  <2>4. Around[P] = {s[e].value : e \in 1 .. d}
    BY <1>2, <2>3
  <2>5. d \in 0 .. Len(s) /\ d # 0
    BY <1>2 DEF D
  <2>6. Depth(s, n, d)
    BY <2>3, <2>4, <2>5 DEF Depth, P
  <2> QED
    BY <2>6
<1> QED
  BY <1>21, <1>22

(* The ends of its parents, and how many of them it has to leave.          *)
LEMMA DepthOf ==
  ASSUME TreeInv, NEW p, Holds(wire, p, Len(tree)), Laid(wire, w), Spanned(p),
         NEW n \in Nat, n < Len(tree), NEW s, OnStack(s, p, n), NEW d, Depth(s, n, d)
  PROVE  /\ EndsBy(s, p, n, d)
         /\ n > 0 => Cardinality(Left(n + 1)) = Len(s) - d
         /\ Cardinality(Around[n + 1]) = d + 1
<1> DEFINE N == Len(tree)
           P == tree[n + 1].parent
           D == Len(s)
<1>0. StackIs(s, p, n)
  BY StackKnown
<1>1. /\ N \in Nat /\ AroundIs /\ n + 1 \in 1 .. N /\ (n + 1) - 1 = n /\ P \in Nat
  BY <1>0 DEF StackIs
<1>2. /\ s \in Seq([value : Nat, end : Int]) /\ D \in Nat /\ DOMAIN s = 1 .. D
      /\ \A e \in 1 .. D : s[e].value \in 1 .. N /\ tree[s[e].value].type \in Branches /\ s[e].end = SpanAt(p, s[e].value)
      /\ \A e \in 1 .. D : Around[s[e].value] = {s[f].value : f \in 1 .. e}
      /\ \A f, e \in 1 .. D : f < e => s[f].value < s[e].value
      /\ {s[e].value : e \in 1 .. D} = In(n)
  BY <1>0 DEF StackIs
<1>3. /\ At(p[n] + 1) \in Nat /\ At(p[n + 1]) \in Nat /\ At(p[n + 1] + 1) \in Nat
      /\ At(p[n] + 1) <= At(p[n + 1]) /\ At(p[n + 1]) < At(p[n + 1] + 1)
  BY <1>1, AtOrder
<1>4. Around[n + 1] = {n + 1} \cup Around[P]
  BY <1>0 DEF StackIs
<1>5. \A e \in 1 .. D : s[e].value <= n /\ s[e].value \in Nat /\ s[e].value # n + 1
  BY <1>0 DEF StackIs
<1> HIDE DEF N, P, D
<1>8. d \in Nat /\ d <= D /\ Around[P] = {s[e].value : e \in 1 .. d}
  BY <1>2 DEF Depth, P, D
<1>9. ASSUME NEW e \in 1 .. D, e > d
      PROVE  s[e].value \notin Around[n + 1] /\ s[e].end <= At(p[n] + 1) /\ s[e].end <= At(p[n + 1])
  <2>1. \A f \in 1 .. d : s[f].value # s[e].value
    <3>1. \A f \in 1 .. d : f \in 1 .. D /\ f < e
      BY <1>2, <1>8, <1>9
    <3>2. \A f \in 1 .. d : s[f].value < s[e].value /\ s[f].value \in Nat /\ s[e].value \in Nat
      BY <1>2, <1>5, <3>1
    <3> QED
      BY <3>2
  <2>2. s[e].value \notin Around[n + 1]
    BY <1>4, <1>5, <1>8, <2>1
  <2> DEFINE j == s[e].value
  <2>3. j \in 1 .. N /\ n + 1 \in j + 1 .. N /\ tree[j].type \in Branches /\ s[e].end = SpanAt(p, j)
    BY <1>1, <1>2, <1>5
  <2> HIDE DEF j
  <2>4. SpanAt(p, j) <= At(p[n] + 1) /\ SpanAt(p, j) \in Int
    BY <1>1, <2>2, <2>3 DEF Spanned, N, j
  <2>5. s[e].end <= At(p[n + 1])
    BY <1>3, <2>3, <2>4
  <2> QED
    BY <2>2, <2>3, <2>4, <2>5
<1>10. ASSUME NEW e \in 1 .. D, ~(e > d)
       PROVE  ~(s[e].end <= At(p[n] + 1)) /\ ~(s[e].end <= At(p[n + 1])) /\ s[e].value \in Around[n + 1]
  <2>1. e \in 1 .. d
    BY <1>2, <1>8, <1>10
  <2>2. s[e].value \in Around[n + 1]
    BY <1>4, <1>8, <2>1
  <2> DEFINE j == s[e].value
  <2>3. j \in 1 .. N /\ n + 1 \in j .. N /\ tree[j].type \in Branches /\ s[e].end = SpanAt(p, j)
    BY <1>1, <1>2, <1>5
  <2> HIDE DEF j
  <2>4. At(p[n + 1] + 1) <= SpanAt(p, j) /\ SpanAt(p, j) \in Int
    BY <1>1, <2>2, <2>3 DEF Spanned, N, j
  <2> QED
    BY <1>3, <2>2, <2>3, <2>4
<1>11. EndsBy(s, p, n, d)
  BY <1>9, <1>10 DEF EndsBy, D
<1>12. ASSUME n > 0 PROVE Cardinality(Left(n + 1)) = Len(s) - d
  <2>1. Left(n + 1) = {s[e].value : e \in d + 1 .. D}
    <3>1. Left(n + 1) = In(n) \ Around[n + 1]
      BY <1>1 DEF Left, In
    <3>2. \A e \in 1 .. D : e \in d + 1 .. D <=> e > d
      BY <1>2, <1>8
    <3>3. \A e \in d + 1 .. D : e \in 1 .. D
      BY <1>2, <1>8
    <3>4. \A x : x \in In(n) <=> \E e \in 1 .. D : x = s[e].value
      BY <1>2
    <3>5. \A e \in 1 .. D : s[e].value \in Around[n + 1] <=> ~(e > d)
      BY <1>9, <1>10
    <3>6. \A x : x \in Left(n + 1) <=> \E e \in d + 1 .. D : x = s[e].value
      <4>1. \A x : x \in Left(n + 1) <=> x \in In(n) /\ x \notin Around[n + 1]
        BY <3>1
      <4> QED
        BY <3>2, <3>3, <3>4, <3>5, <4>1
    <3> QED
      BY <3>6
  <2>2. /\ \A e \in 1 .. D : s[e].value \in Nat
        /\ \A f, e \in 1 .. D : f < e => s[f].value < s[e].value
    BY <1>2, <1>5
  <2>3. Cardinality(ValuesOf(s, d, D)) = D - d
    BY <1>2, <1>8, <2>2, CountOf
  <2>4. Left(n + 1) = ValuesOf(s, d, D)
    BY <2>1 DEF ValuesOf
  <2> QED
    BY <2>3, <2>4 DEF D
<1>13. Cardinality(Around[n + 1]) = d + 1
  <2> DEFINE V == ValuesOf(s, 0, d)
  <2>1. V = Around[P]
    BY <1>8 DEF ValuesOf
  <2>2. /\ \A e \in 1 .. d : s[e].value \in Nat
        /\ \A f, e \in 1 .. d : f < e => s[f].value < s[e].value
    <3>1. \A e \in 1 .. d : e \in 1 .. D
      BY <1>2, <1>8
    <3> QED
      BY <1>2, <1>5, <3>1
  <2>3. IsFiniteSet(V) /\ Cardinality(V) = d - 0
    <3>1. 0 \in Nat /\ 0 <= d /\ d \in Nat
      BY <1>8
    <3> HIDE DEF V
    <3> QED
      BY <2>2, <3>1, CountOf DEF V
  <2>4. n + 1 \notin V
    <3>1. \A e \in 0 + 1 .. d : e \in 1 .. D
      BY <1>2, <1>8
    <3> QED
      BY <1>5, <3>1 DEF ValuesOf
  <2>5. Around[n + 1] = V \cup {n + 1}
    BY <1>4, <2>1
  <2>6. d - 0 = d
    BY <1>8
  <2> HIDE DEF V
  <2>7. IsFiniteSet(V) /\ Cardinality(V) = d
    BY <2>3, <2>6
  <2>8. Cardinality(V \cup {n + 1}) = Cardinality(V) + 1
    BY <2>4, <2>7, FS_AddElement
  <2> QED
    BY <2>5, <2>7, <2>8
<1> QED
  BY <1>11, <1>12, <1>13

(* The parents a reader has are the first m of s.                          *)
FirstOf(t, s, m) == /\ t \in Seq([value : Nat, end : Int]) /\ m \in 0 .. Len(s) /\ Len(t) = m
                    /\ \A e \in 1 .. m : t[e] = s[e]

(* One of them is left if it ends before the reader.                       *)
LEMMA PopOne ==
  ASSUME NEW s \in Seq([value : Nat, end : Int]), NEW m, FirstOf(stack, s, m), NEW d \in Nat, d <= m,
         \A e \in 1 .. Len(s) : s[e].end <= val <=> e > d
  PROVE  FirstOf(Surrounding, s, IF m > d THEN m - 1 ELSE m)
<1> DEFINE P == [value : Nat, end : Int]
<1>1. stack \in Seq(P) /\ m \in 0 .. Len(s) /\ Len(stack) = m /\ Len(s) \in Nat /\ \A e \in 1 .. m : stack[e] = s[e]
  <2>1. Len(s) \in Nat
    <3>1. s \in Seq(P)
      OBVIOUS
    <3> HIDE DEF P
    <3> QED
      BY <3>1
  <2> QED
    BY <2>1 DEF FirstOf
<1>2. CASE stack = <<>>
  <2>1. m = 0 /\ d = 0 /\ Surrounding = stack
    BY <1>1, <1>2 DEF Surrounding
  <2> QED
    BY <2>1 DEF FirstOf
<1>3. CASE stack # <<>>
  <2>1. m \in 1 .. m /\ m \in 1 .. Len(s) /\ m - 1 \in 0 .. Len(s) /\ \A e \in 1 .. m - 1 : e \in 1 .. m
    BY <1>1, <1>3
  <2>2. Innermost(stack) = s[m]
    BY <1>1, <2>1 DEF Innermost
  <2> HIDE DEF P
  <2>3. /\ Outer(stack) \in Seq(P) /\ Len(Outer(stack)) = Len(stack) - 1
        /\ \A i \in 1 .. Len(stack) - 1 : Outer(stack)[i] = stack[i]
    BY <1>1, <1>3, OuterIs
  <2>4. FirstOf(Outer(stack), s, m - 1)
    BY <1>1, <2>1, <2>3 DEF FirstOf, P
  <2>5. s[m].end <= val <=> m > d
    BY <2>1
  <2>6. CASE m > d
    BY <1>3, <2>2, <2>4, <2>5, <2>6 DEF Surrounding
  <2>7. CASE ~(m > d)
    BY <1>3, <2>2, <2>5, <2>7 DEF Surrounding
  <2> QED
    BY <2>6, <2>7
<1> QED
  BY <1>2, <1>3
-----------------------------------------------------------------------------
(* NestingKept, Shallow and what is made, of the values up to m.           *)
NestAt(i) == Cardinality(Left(i)) <= IF tree[i].key = NoKey THEN 1 ELSE 2

(* At none of the first m more values end than the reader leaves.          *)
NestTo(m) == \A i \in 2 .. m : NestAt(i)

(* None of the first m is too deep.                                        *)
ShallowTo(m) == \A i \in 1 .. m : tree[i].type \in Branches => Cardinality(Around[i]) <= MaxDepth

(* The first m are made in their places.                                   *)
PlacedTo(m) == \A i \in 1 .. m : made[i].parent = tree[i].parent /\ made[i].key = tree[i].key

(* The reader has the parents of the value before, or the next one's key   *)
(* and, if it could leave some of them, one less.                          *)
Position(p, n) ==
    \E s, m :
       /\ OnStack(s, p, n) /\ FirstOf(stack, s, m)
       /\ \/ val = At(p[n] + 1) /\ m = Len(s) /\ key = NoKey
          \/ /\ n < Len(tree) /\ tree[n + 1].key # NoKey
             /\ val = At(p[n + 1]) /\ key = tree[n + 1].key
             /\ \E d : Depth(s, n, d) /\ m = IF Len(s) > d THEN Len(s) - 1 ELSE Len(s)

(* In front of value n + 1 it has the value's key, and the value's parents *)
(* if it could leave all the others.                                       *)
Parents(s, p, n, m, d) ==
    /\ OnStack(s, p, n) /\ Depth(s, n, d) /\ FirstOf(Surrounding, s, m) /\ d <= m
    /\ m = d <=> NestTo(n + 1)
    /\ Cardinality(Around[n + 1]) = d + 1
    /\ key = tree[n + 1].key

(* One value more to say it of.                                            *)
LEMMA NestMore ==
  ASSUME NEW n \in Nat, NestTo(n)
  PROVE  NestTo(n + 1) <=> n = 0 \/ NestAt(n + 1)
<1>1. \A i \in 2 .. n + 1 : i = n + 1 \/ i \in 2 .. n
  OBVIOUS
<1>2. n = 0 => \A i \in 2 .. n + 1 : FALSE
  OBVIOUS
<1>3. n # 0 => n + 1 \in 2 .. n + 1
  OBVIOUS
<1> QED
  BY <1>1, <1>2, <1>3 DEF NestTo

(* So it leaves at most one before the key and one before the value.       *)
LEMMA PositionParents ==
  ASSUME TreeInv, NEW p, Holds(wire, p, Len(tree)), Laid(wire, w), Spanned(p),
         NEW n \in Nat, n < Len(tree), Position(p, n), NestTo(n), val = At(p[n + 1])
  PROVE  \E s, m, d : Parents(s, p, n, m, d)
<1>1. PICK s, m :
       /\ OnStack(s, p, n) /\ FirstOf(stack, s, m)
       /\ \/ val = At(p[n] + 1) /\ m = Len(s) /\ key = NoKey
          \/ /\ n < Len(tree) /\ tree[n + 1].key # NoKey
             /\ val = At(p[n + 1]) /\ key = tree[n + 1].key
             /\ \E d : Depth(s, n, d) /\ m = IF Len(s) > d THEN Len(s) - 1 ELSE Len(s)
  BY DEF Position
<1>2. s \in Seq([value : Nat, end : Int]) /\ Len(s) \in Nat /\ (n = 0 => Len(s) = 0)
  <2>1. StackIs(s, p, n)
    BY <1>1, StackKnown
  <2> QED
    BY <2>1 DEF StackIs
<1>3. /\ At(p[n] + 1) \in Nat /\ At(p[n + 1]) \in Nat
      /\ tree[n + 1].key # NoKey => At(p[n] + 1) < At(p[n + 1])
  <2>1. Len(tree) \in Nat
    BY DEF TreeInv, Ordered
  <2> QED
    BY <2>1, AtOrder
<1>4. \E d : /\ Depth(s, n, d) /\ key = tree[n + 1].key
             /\ \/ m = Len(s) /\ tree[n + 1].key = NoKey
                \/ m = (IF Len(s) > d THEN Len(s) - 1 ELSE Len(s)) /\ tree[n + 1].key # NoKey
  <2>1. CASE val = At(p[n] + 1) /\ m = Len(s) /\ key = NoKey
    <3>1. tree[n + 1].key = NoKey
      BY <1>3, <2>1
    <3>2. PICK d : Depth(s, n, d)
      BY <1>1, DepthThere
    <3> QED
      BY <2>1, <3>1, <3>2
  <2>2. CASE ~(val = At(p[n] + 1) /\ m = Len(s) /\ key = NoKey)
    BY <1>1, <2>2
  <2> QED
    BY <2>1, <2>2
<1>5. PICK d : /\ Depth(s, n, d) /\ key = tree[n + 1].key
               /\ \/ m = Len(s) /\ tree[n + 1].key = NoKey
                  \/ m = (IF Len(s) > d THEN Len(s) - 1 ELSE Len(s)) /\ tree[n + 1].key # NoKey
  BY <1>4
<1>6. /\ EndsBy(s, p, n, d)
      /\ n > 0 => Cardinality(Left(n + 1)) = Len(s) - d
      /\ Cardinality(Around[n + 1]) = d + 1
  BY <1>1, <1>5, DepthOf
<1>7. d \in Nat /\ d <= Len(s) /\ d <= m
  BY <1>2, <1>5 DEF Depth
<1>8. \A e \in 1 .. Len(s) : s[e].end <= val <=> e > d
  BY <1>6 DEF EndsBy
<1> DEFINE k == IF m > d THEN m - 1 ELSE m
<1>9. FirstOf(Surrounding, s, k)
  BY <1>1, <1>2, <1>7, <1>8, PopOne
<1>10. m \in Nat
  BY <1>2, <1>5, <1>7
<1>11. d <= k
  BY <1>7, <1>10
<1>12. k = d <=> n = 0 \/ NestAt(n + 1)
  <2>1. CASE n = 0
    BY <1>2, <1>5, <1>7, <1>10, <2>1
  <2>2. CASE n > 0
    <3>1. NestAt(n + 1) <=> Len(s) - d <= IF tree[n + 1].key = NoKey THEN 1 ELSE 2
      BY <1>6, <2>2 DEF NestAt
    <3>2. CASE tree[n + 1].key = NoKey
      BY <1>2, <1>5, <1>7, <1>10, <2>2, <3>1, <3>2
    <3>3. CASE tree[n + 1].key # NoKey
      BY <1>2, <1>5, <1>7, <1>10, <2>2, <3>1, <3>3
    <3> QED
      BY <3>2, <3>3
  <2> QED
    BY <2>1, <2>2
<1> HIDE DEF k
<1>13. Parents(s, p, n, k, d)
  BY <1>1, <1>5, <1>6, <1>9, <1>11, <1>12, NestMore DEF Parents
<1> QED
  BY <1>13

(* With the value's parents it comes to its place, and else to another.    *)
LEMMA AttachParents ==
  ASSUME TreeInv, MadeInv, NEW n, n = Len(made), n < Len(tree), PlacedTo(n), err = "OK",
         NEW p, NEW s, NEW m, NEW d, Parents(s, p, n, m, d), NEW v, Attach(v, Surrounding)
  PROVE  /\ NestTo(n + 1) => /\ err' = "OK" /\ key' = NoKey
                             /\ made'[n + 1].parent = tree[n + 1].parent /\ made'[n + 1].key = tree[n + 1].key
         /\ ~NestTo(n + 1) /\ err' = "OK" => made'[n + 1].parent # tree[n + 1].parent
<1> DEFINE S == Surrounding
           t == tree[n + 1]
           x == Value(v, IF InObject(S) THEN key ELSE NoKey, IF S = <<>> THEN 0 ELSE Innermost(S).value)
<1>1. n \in Nat /\ Sequence(made)
  BY SequenceMore DEF MadeInv
<1>2. StackIs(s, p, n)
  BY <1>1, StackKnown DEF Parents
<1>3. /\ Len(s) \in Nat /\ n + 1 \in 1 .. Len(tree) /\ t.parent \in Nat
      /\ \A e \in 1 .. Len(s) : s[e].value \in 1 .. n /\ tree[s[e].value].type \in Branches /\ s[e].value \in 1 .. Len(tree)
      /\ \A f, e \in 1 .. Len(s) : f < e => s[f].value < s[e].value
  <2>1. /\ Len(s) \in Nat /\ n + 1 \in 1 .. Len(tree) /\ t.parent \in Nat
        /\ \A e \in 1 .. Len(s) : s[e].value \in 1 .. Len(tree) /\ tree[s[e].value].type \in Branches
        /\ \A f, e \in 1 .. Len(s) : f < e => s[f].value < s[e].value
    BY <1>2 DEF StackIs
  <2>2. \A e \in 1 .. Len(s) : s[e].value <= n
    BY <1>2 DEF StackIs
  <2>3. \A e \in 1 .. Len(s) : s[e].value \in 1 .. n
    BY <1>1, <2>1, <2>2
  <2> QED
    BY <2>1, <2>3
<1>4. /\ d \in 0 .. Len(s) /\ m \in 0 .. Len(s) /\ Len(S) = m /\ \A e \in 1 .. m : S[e] = s[e]
      /\ S \in Seq([value : Nat, end : Int])
      /\ d > 0 => s[d].value = t.parent
      /\ d = 0 => t.parent = 0 /\ n = 0
      /\ d <= m /\ (m = d <=> NestTo(n + 1)) /\ key = t.key
  BY DEF Parents, FirstOf, Depth
<1>5. S = <<>> <=> m = 0
  BY <1>4
<1>6. m > 0 => Innermost(S).value = s[m].value /\ m \in 1 .. Len(s)
  BY <1>3, <1>4 DEF Innermost
<1>7. err' = "OK" => made' = Append(made, x) /\ (key' = IF InObject(S) THEN NoKey ELSE key) /\ ~(InObject(S) /\ key = NoKey)
  BY DEF Attach
<1>8. ~(InObject(S) /\ key = NoKey) => err' = "OK"
  BY DEF Attach
<1>9. made' = Append(made, x) => made'[n + 1] = x
  BY <1>1, SequenceMore
<1>10. x.parent = (IF S = <<>> THEN 0 ELSE Innermost(S).value) /\ x.key = IF InObject(S) THEN key ELSE NoKey
  BY DEF Value
<1> HIDE DEF S, x
<1>11. ASSUME m = d
       PROVE  x.parent = t.parent /\ (InObject(S) <=> t.key # NoKey)
  <2>1. CASE m = 0
    <3>1. S = <<>> /\ t.parent = 0 /\ n = 0
      BY <1>4, <1>5, <1>11, <2>1
    <3>2. t.key = NoKey
      <4>1. tree # <<>> /\ n + 1 = 1
        BY <1>3, <3>1
      <4> QED
        BY <4>1 DEF TreeInv
    <3> QED
      BY <1>10, <3>1, <3>2 DEF InObject
  <2>2. CASE m > 0
    <3>1. S # <<>> /\ Innermost(S).value = t.parent /\ t.parent \in 1 .. n /\ tree[t.parent].type \in Branches /\ t.parent \in 1 .. Len(tree)
      BY <1>3, <1>4, <1>5, <1>6, <1>11, <2>2
    <3>2. t.key # NoKey <=> tree[t.parent].type = "OBJECT"
      <4>1. n + 1 \in 2 .. Len(tree)
        BY <1>1, <1>3, <3>1
      <4> QED
        BY <4>1 DEF TreeInv
    <3>3. made[t.parent].type = tree[t.parent].type
      <4>1. Same(made[t.parent], tree[t.parent])
        BY <3>1 DEF MadeInv
      <4>2. AsRead(tree[t.parent]).type = tree[t.parent].type
        BY <3>1 DEF AsRead, Branches
      <4> QED
        BY <4>1, <4>2 DEF Same
    <3> QED
      BY <1>10, <3>1, <3>2, <3>3 DEF InObject
  <2> QED
    BY <1>4, <2>1, <2>2
<1>12. ASSUME m # d
       PROVE  x.parent # t.parent
  <2>1. m > d /\ m > 0 /\ m \in 1 .. Len(s)
    BY <1>3, <1>4, <1>12
  <2>2. S # <<>> /\ x.parent = s[m].value
    BY <1>4, <1>5, <1>6, <1>10, <2>1
  <2>3. CASE d = 0
    BY <1>3, <1>4, <2>1, <2>3
  <2>4. CASE d > 0
    <3>1. d \in 1 .. Len(s) /\ d < m
      BY <1>3, <1>4, <2>1, <2>4
    <3>2. s[d].value < s[m].value /\ s[d].value \in 1 .. n /\ s[m].value \in 1 .. n
      BY <1>3, <2>1, <3>1
    <3> QED
      BY <1>1, <1>4, <2>2, <2>4, <3>2
  <2> QED
    BY <1>4, <2>3, <2>4
<1>13. ASSUME NestTo(n + 1)
       PROVE  /\ err' = "OK" /\ key' = NoKey
              /\ made'[n + 1].parent = t.parent /\ made'[n + 1].key = t.key
  <2>1. x.parent = t.parent /\ (InObject(S) <=> t.key # NoKey)
    BY <1>4, <1>11, <1>13
  <2>2. err' = "OK"
    BY <1>4, <1>8, <2>1
  <2> QED
    BY <1>4, <1>7, <1>9, <1>10, <2>1, <2>2
<1>14. ASSUME ~NestTo(n + 1), err' = "OK" PROVE made'[n + 1].parent # t.parent
  BY <1>4, <1>7, <1>9, <1>12, <1>14
<1> QED
  BY <1>13, <1>14

(* The parents of value n + 1.                                             *)
CutIs(t, p, n, d) ==
    /\ Chain(t, p) /\ {t[e].value : e \in DOMAIN t} = Around[tree[n + 1].parent]
    /\ Len(t) = d /\ d \in Nat /\ DOMAIN t = 1 .. d /\ t \in Seq([value : Nat, end : Int])
    /\ \A e \in 1 .. d : t[e].value \in 1 .. n /\ tree[t[e].value].type \in Branches

(* Those around value n + 1 are the first d of those of the value before.  *)
LEMMA StackCut ==
  ASSUME TreeInv, NEW p, NEW n \in Nat, n < Len(tree), NEW s, OnStack(s, p, n), NEW d, Depth(s, n, d),
         NEW t, FirstOf(t, s, d)
  PROVE  CutIs(t, p, n, d)
<1> DEFINE P == [value : Nat, end : Int]
<1>1. StackIs(s, p, n)
  BY StackKnown
<1>2. t \in Seq(P) /\ Len(t) = d /\ d \in 0 .. Len(s) /\ \A e \in 1 .. d : t[e] = s[e]
  BY DEF FirstOf
<1>3. Len(s) \in Nat /\ n + 1 \in 1 .. Len(tree) /\ (\A e \in 1 .. Len(s) : s[e].value <= n)
  BY <1>1 DEF StackIs
<1>4. DOMAIN t = 1 .. d /\ d \in Nat
  <2> HIDE DEF P
  <2> QED
    BY <1>2, <1>3
<1>5. ASSUME NEW e \in 1 .. d
      PROVE  /\ t[e] = s[e] /\ e \in 1 .. Len(s)
             /\ t[e].value \in 1 .. n /\ t[e].value \in 1 .. Len(tree) /\ tree[t[e].value].type \in Branches
             /\ t[e].end = SpanAt(p, t[e].value)
             /\ \A f \in 1 .. e : t[f] = s[f]
             /\ Around[s[e].value] = {s[f].value : f \in 1 .. e}
  <2>1. t[e] = s[e] /\ e \in 1 .. Len(s) /\ \A f \in 1 .. e : f \in 1 .. d
    BY <1>2, <1>3, <1>4
  <2>2. /\ s[e].value \in 1 .. Len(tree) /\ tree[s[e].value].type \in Branches /\ s[e].end = SpanAt(p, s[e].value)
        /\ Around[s[e].value] = {s[f].value : f \in 1 .. e}
    BY <1>1, <2>1 DEF StackIs
  <2>3. s[e].value <= n
    BY <1>3, <2>1
  <2>4. s[e].value \in 1 .. n
    BY <2>2, <2>3
  <2> QED
    BY <1>2, <2>1, <2>2, <2>4
<1>6. ASSUME NEW e \in 1 .. d PROVE Around[t[e].value] = {t[f].value : f \in 1 .. e}
  <2>1. {t[f].value : f \in 1 .. e} = {s[f].value : f \in 1 .. e}
    BY <1>5
  <2> QED
    BY <1>5, <2>1
<1>7. \A e, f \in 1 .. d : e < f => t[e].value < t[f].value
  <2>1. \A e, f \in 1 .. Len(s) : e < f => s[e].value < s[f].value
    BY <1>1 DEF StackIs
  <2> QED
    BY <1>5, <2>1
<1>8. {t[e].value : e \in 1 .. d} = Around[tree[n + 1].parent]
  <2>1. {t[e].value : e \in 1 .. d} = {s[e].value : e \in 1 .. d}
    BY <1>2
  <2> QED
    BY <2>1 DEF Depth
<1>9. Chain(t, p)
  BY <1>2, <1>4, <1>5, <1>6, <1>7 DEF Chain
<1> QED
  BY <1>2, <1>4, <1>5, <1>8, <1>9 DEF CutIs

(* After a leaf they are the reader's parents, after an object or array    *)
(* with that.                                                              *)
LEMMA StackLeaf ==
  ASSUME TreeInv, NEW p, NEW n \in Nat, n < Len(tree), NEW s, OnStack(s, p, n), NEW d, Depth(s, n, d),
         NEW t, FirstOf(t, s, d), tree[n + 1].type \notin Branches
  PROVE  OnStack(t, p, n + 1)
<1> DEFINE A == Around[tree[n + 1].parent]
<1>1. Around[n + 1] = {n + 1} \cup A
  <2>1. StackIs(s, p, n)
    BY StackKnown
  <2> QED
    BY <2>1 DEF StackIs
<1>2. /\ Chain(t, p) /\ {t[e].value : e \in DOMAIN t} = A /\ DOMAIN t = 1 .. d
      /\ \A e \in 1 .. d : tree[t[e].value].type \in Branches
  <2>1. CutIs(t, p, n, d)
    BY StackCut
  <2> QED
    BY <2>1 DEF CutIs
<1> HIDE DEF A
<1>3. \A j \in A : tree[j].type \in Branches
  BY <1>2
<1>4. In(n + 1) = A
  BY <1>1, <1>3 DEF In
<1> QED
  BY <1>2, <1>4 DEF OnStack

(* After an object or array they are those and the value itself.           *)
LEMMA StackBranch ==
  ASSUME TreeInv, NEW p, NEW n \in Nat, n < Len(tree), NEW s, OnStack(s, p, n), NEW d, Depth(s, n, d),
         NEW t, FirstOf(t, s, d), tree[n + 1].type \in Branches, SpanAt(p, n + 1) \in Int
  PROVE  OnStack(Append(t, [value |-> n + 1, end |-> SpanAt(p, n + 1)]), p, n + 1)
<1> DEFINE A == Around[tree[n + 1].parent]
           P == [value : Nat, end : Int]
           x == [value |-> n + 1, end |-> SpanAt(p, n + 1)]
           u == Append(t, x)
<1>1. Around[n + 1] = {n + 1} \cup A /\ n + 1 \in 1 .. Len(tree)
  <2>1. StackIs(s, p, n)
    BY StackKnown
  <2> QED
    BY <2>1 DEF StackIs
<1>2. /\ Chain(t, p) /\ {t[e].value : e \in DOMAIN t} = A /\ DOMAIN t = 1 .. d /\ Len(t) = d /\ d \in Nat
      /\ \A e \in 1 .. d : t[e].value \in 1 .. n /\ tree[t[e].value].type \in Branches
      /\ t \in Seq(P)
  <2>1. CutIs(t, p, n, d)
    BY StackCut
  <2> QED
    BY <2>1 DEF CutIs
<1>3. x \in P /\ x.value = n + 1 /\ x.end = SpanAt(p, n + 1)
  OBVIOUS
<1>4. /\ u \in Seq(P) /\ Len(u) = d + 1 /\ DOMAIN u = 1 .. d + 1 /\ u[d + 1] = x
      /\ \A e \in 1 .. d : u[e] = t[e]
  <2> HIDE DEF P, x
  <2> QED
    BY <1>2, <1>3
<1> HIDE DEF A, P, x, u
<1>5. \A e \in 1 .. d + 1 : e = d + 1 \/ e \in 1 .. d
  BY <1>2
<1>6. \A e \in 1 .. d : /\ t[e].value \in 1 .. Len(tree) /\ tree[t[e].value].type \in Branches /\ t[e].end = SpanAt(p, t[e].value)
                        /\ Around[t[e].value] = {t[f].value : f \in 1 .. e}
  BY <1>2 DEF Chain
<1>7. \A e \in 1 .. d + 1 : /\ u[e].value \in 1 .. Len(tree) /\ tree[u[e].value].type \in Branches
                            /\ u[e].end = SpanAt(p, u[e].value)
  BY <1>1, <1>3, <1>4, <1>5, <1>6
<1>8. {u[e].value : e \in 1 .. d + 1} = {n + 1} \cup A
  <2>1. d + 1 \in 1 .. d + 1 /\ \A e \in 1 .. d : e \in 1 .. d + 1
    BY <1>2
  <2>2. \A y : y \in A <=> \E e \in 1 .. d : y = t[e].value
    BY <1>2
  <2> QED
    BY <1>3, <1>4, <1>5, <2>1, <2>2
<1>9. ASSUME NEW e \in 1 .. d + 1 PROVE Around[u[e].value] = {u[f].value : f \in 1 .. e}
  <2>1. CASE e = d + 1
    BY <1>1, <1>3, <1>4, <1>8, <2>1
  <2>2. CASE e # d + 1
    <3>1. e \in 1 .. d /\ \A f \in 1 .. e : f \in 1 .. d
      BY <1>2, <1>5, <2>2
    <3>2. {u[f].value : f \in 1 .. e} = {t[f].value : f \in 1 .. e}
      BY <1>4, <3>1
    <3> QED
      BY <1>4, <1>6, <3>1, <3>2
  <2> QED
    BY <2>1, <2>2
<1>10. \A e, f \in 1 .. d + 1 : e < f => u[e].value < u[f].value
  <2> SUFFICES ASSUME NEW e \in 1 .. d + 1, NEW f \in 1 .. d + 1, e < f PROVE u[e].value < u[f].value
    OBVIOUS
  <2>1. e \in 1 .. d
    BY <1>2
  <2>2. CASE f = d + 1
    BY <1>2, <1>3, <1>4, <2>1, <2>2
  <2>3. CASE f \in 1 .. d
    BY <1>2, <1>4, <2>1, <2>3 DEF Chain
  <2> QED
    BY <1>5, <2>2, <2>3
<1>11. Chain(u, p)
  BY <1>4, <1>7, <1>9, <1>10 DEF Chain, P
<1>12. In(n + 1) = {n + 1} \cup A
  <2>1. \A j \in A : tree[j].type \in Branches
    BY <1>2
  <2> QED
    BY <1>1, <2>1 DEF In
<1> QED
  BY <1>4, <1>8, <1>11, <1>12 DEF OnStack, u, x

(* As long as it could leave all it had to the reader has put each value   *)
(* in its place and is where it should be; at the first it could not, it   *)
(* put one elsewhere or gave up.                                           *)
StackInv(p) ==
    LET n == Len(made)
    IN  /\ err = "OK" /\ NestTo(n) => PlacedTo(n) /\ ShallowTo(n) /\ Position(p, n)
        /\ ~NestTo(n) => \E i \in 1 .. n : made[i].parent # tree[i].parent
        /\ err # "OK" => ~NestTo(Len(tree)) \/ ~ShallowTo(Len(tree))

(* What is said of the tree stays true of it.                              *)
LEMMA TreeSays ==
  ASSUME tree' = tree, wire' = wire, w' = w, NEW p, NEW n
  PROVE  /\ NestTo(n)' <=> NestTo(n)
         /\ ShallowTo(n)' <=> ShallowTo(n)
         /\ \A s : OnStack(s, p, n) <=> OnStack(s, p, n)'
         /\ \A s, d : Depth(s, n, d) <=> Depth(s, n, d)'
         /\ \A j : At(j)' = At(j)
<1>1. Around' = Around
  BY TreeKept
<1>2. \A j : At(j)' = At(j) /\ SpanAt(p, j)' = SpanAt(p, j)
  BY DEF At, SpanAt
<1>3. NestTo(n)' <=> NestTo(n)
  BY <1>1 DEF NestTo, NestAt, Left
<1>4. ShallowTo(n)' <=> ShallowTo(n)
  BY <1>1 DEF ShallowTo
<1>5. In(n)' = In(n)
  BY <1>1 DEF In
<1>6. \A s : OnStack(s, p, n) <=> OnStack(s, p, n)'
  BY <1>1, <1>2, <1>5 DEF OnStack, Chain
<1>7. \A s, d : Depth(s, n, d) <=> Depth(s, n, d)'
  BY <1>1 DEF Depth
<1> QED
  BY <1>2, <1>3, <1>4, <1>6, <1>7

(* Fewer values leave less to say.                                         *)
LEMMA NestLess ==
  ASSUME NEW n \in Nat, NEW m \in Nat, n <= m
  PROVE  (NestTo(m) => NestTo(n)) /\ (ShallowTo(m) => ShallowTo(n))
BY DEF NestTo, ShallowTo

(* A key read, and one of the parents left if one ends before it.          *)
LEMMA KeyStack ==
  ASSUME ConvertInv, ReadKey, NEW p, Holds(wire, p, Len(tree)), StackInv(p)
  PROVE  StackInv(p)'
<1>1. /\ phase = "read" /\ err' = "OK" /\ err = "OK" /\ made' = made /\ tree' = tree /\ wire' = wire /\ w' = w
      /\ stack' = Surrounding
  BY DEF ReadKey, Reading, writer
<1>2. ReadAs(p) /\ Spanned(p) /\ Laid(wire, w) /\ MadeInv
  BY <1>1, Reader
<1>3. TreeInv /\ MessageInv /\ Len(tree) \in Nat
  BY DEF ConvertInv, MessageInv, TreeInv, Ordered
<1>4. KeyRead(p, Len(made))
  BY <1>2, <1>3, ReadsKey
<1>5. PICK n : n = Len(made)
  OBVIOUS
<1>6. /\ n \in Nat /\ n < Len(tree) /\ tree[n + 1].key # NoKey /\ key' = tree[n + 1].key
      /\ val = At(p[n] + 1) /\ val' = At(p[n + 1])
  BY <1>4, <1>5 DEF KeyRead
<1>7. ASSUME NestTo(n) PROVE Position(p, n)'
  <2>1. Position(p, n)
    BY <1>1, <1>5, <1>7 DEF StackInv
  <2>2. At(p[n] + 1) \in Nat /\ At(p[n + 1]) \in Nat /\ At(p[n] + 1) < At(p[n + 1])
    BY <1>2, <1>3, <1>6, AtOrder
  <2>3. PICK s, m : OnStack(s, p, n) /\ FirstOf(stack, s, m) /\ m = Len(s)
    BY <1>6, <2>1, <2>2 DEF Position
  <2>4. PICK d : Depth(s, n, d)
    BY <1>3, <1>6, <2>3, DepthThere
  <2>5. EndsBy(s, p, n, d)
    BY <1>2, <1>3, <1>6, <2>3, <2>4, DepthOf
  <2>6. s \in Seq([value : Nat, end : Int]) /\ d \in Nat /\ d <= Len(s)
    <3>1. StackIs(s, p, n)
      BY <1>3, <1>6, <2>3, StackKnown
    <3> QED
      BY <2>4, <3>1 DEF StackIs, Depth
  <2>7. \A e \in 1 .. Len(s) : s[e].end <= val <=> e > d
    BY <1>6, <2>5 DEF EndsBy
  <2> DEFINE k == IF Len(s) > d THEN Len(s) - 1 ELSE Len(s)
  <2>8. FirstOf(Surrounding, s, k)
    BY <2>3, <2>6, <2>7, PopOne
  <2>9. PICK l : l = k
    OBVIOUS
  <2>10. FirstOf(stack', s, l) /\ l = IF Len(s) > d THEN Len(s) - 1 ELSE Len(s)
    BY <1>1, <2>8, <2>9
  <2> HIDE DEF k
  <2>11. OnStack(s, p, n)' /\ Depth(s, n, d)' /\ At(p[n + 1])' = At(p[n + 1])
    BY <1>1, <2>3, <2>4, TreeSays
  <2>12. (n < Len(tree) /\ tree[n + 1].key # NoKey /\ val = At(p[n + 1]) /\ key = tree[n + 1].key)'
    BY <1>1, <1>6, <2>11
  <2>13. FirstOf(stack, s, l)'
    BY <2>10 DEF FirstOf
  <2> QED
    BY <2>10, <2>11, <2>12, <2>13 DEF Position
<1>8. PlacedTo(n) => PlacedTo(n)'
  BY <1>1 DEF PlacedTo
<1>9. (NestTo(n)' <=> NestTo(n)) /\ (ShallowTo(n)' <=> ShallowTo(n))
  BY <1>1, TreeSays
<1>10. Len(made)' = n
  BY <1>1, <1>5
<1> QED
  BY <1>1, <1>5, <1>7, <1>8, <1>9, <1>10 DEF StackInv

(* A value read in its place: the reader's parents are then its.           *)
LEMMA PlaceStack ==
  ASSUME ConvertInv, ReadLeaf \/ ReadBranch, NEW p, Holds(wire, p, Len(tree)), StackInv(p), err' = "OK",
         NEW n, n = Len(made), NestTo(n + 1), ValueRead(p, n)
  PROVE  PlacedTo(n + 1)' /\ ShallowTo(n + 1) /\ Position(p, n + 1)'
<1>1. /\ phase = "read" /\ err = "OK" /\ tree' = tree /\ wire' = wire /\ w' = w
  BY DEF ReadLeaf, ReadBranch, Reading, writer
<1>2. Spanned(p) /\ Laid(wire, w) /\ MadeInv
  BY <1>1, Reader
<1>3. TreeInv /\ Len(tree) \in Nat
  BY DEF ConvertInv, MessageInv, TreeInv, Ordered
<1>4. /\ n \in Nat /\ n < Len(tree) /\ p[n + 1] \in DOMAIN wire /\ Here = {wire[p[n + 1]]}
      /\ val = At(p[n + 1]) /\ val' = At(p[n + 1] + 1)
      /\ ReadLeaf => tree[n + 1].type \notin Branches
      /\ ReadBranch => tree[n + 1].type \in Branches
      /\ Len(made') = n + 1
  BY DEF ValueRead
<1>5. PICK v : Attach(v, Surrounding)
  BY DEF ValueRead
<1>6. NestTo(n)
  BY <1>4, NestLess
<1>7. PlacedTo(n) /\ ShallowTo(n) /\ Position(p, n)
  BY <1>1, <1>6 DEF StackInv
<1>8. PICK s, m, d : Parents(s, p, n, m, d)
  BY <1>2, <1>3, <1>4, <1>6, <1>7, PositionParents
<1>9. /\ key' = NoKey
      /\ made'[n + 1].parent = tree[n + 1].parent /\ made'[n + 1].key = tree[n + 1].key
  BY <1>1, <1>2, <1>3, <1>4, <1>5, <1>7, <1>8, AttachParents
<1>10. PlacedTo(n + 1)'
  <2>1. \A i \in 1 .. n : made'[i] = made[i]
    <3>1. PICK x : made' = Append(made, x)
      BY <1>5 DEF Attach
    <3> QED
      BY <1>2, <3>1, SequenceMore DEF MadeInv
  <2>2. \A i \in 1 .. n + 1 : i \in 1 .. n \/ i = n + 1
    BY <1>4
  <2> QED
    BY <1>1, <1>7, <1>9, <2>1, <2>2 DEF PlacedTo
<1>11. /\ OnStack(s, p, n) /\ Depth(s, n, d) /\ FirstOf(Surrounding, s, d)
       /\ Cardinality(Around[n + 1]) = d + 1 /\ Len(Surrounding) = d /\ d \in Nat
  <2>1. OnStack(s, p, n) /\ Depth(s, n, d) /\ FirstOf(Surrounding, s, d) /\ Cardinality(Around[n + 1]) = d + 1
    BY <1>8 DEF Parents
  <2>2. CutIs(Surrounding, p, n, d)
    BY <1>3, <1>4, <2>1, StackCut
  <2> QED
    BY <2>1, <2>2 DEF CutIs
<1>12. ShallowTo(n + 1)
  <2>1. tree[n + 1].type \in Branches => Cardinality(Around[n + 1]) <= MaxDepth
    <3>1. CASE ReadLeaf
      BY <1>4, <3>1
    <3>2. CASE ReadBranch
      <4>1. d < MaxDepth
        BY <1>11, <3>2 DEF ReadBranch
      <4> QED
        BY <1>11, <4>1, ConvertAssumption
    <3> QED
      BY <3>1, <3>2
  <2>2. \A i \in 1 .. n + 1 : i \in 1 .. n \/ i = n + 1
    BY <1>4
  <2> QED
    BY <1>7, <2>1, <2>2 DEF ShallowTo
<1>13. OnStack(stack', p, n + 1)
  <2>1. CASE ReadLeaf
    <3>1. stack' = Surrounding
      BY <2>1 DEF ReadLeaf
    <3> QED
      BY <1>3, <1>4, <1>11, <2>1, <3>1, StackLeaf
  <2>2. CASE ReadBranch
    <3> DEFINE item == wire[p[n + 1]]
    <3>1. stack' = Append(Surrounding, [value |-> n + 1, end |-> val + BSize(item.cell)])
      BY <1>4, <2>2 DEF ReadBranch
    <3>2. val = item.cell.at
      BY <1>4 DEF At
    <3>3. val + BSize(item.cell) = SpanAt(p, n + 1)
      BY <3>2 DEF SpanAt
    <3>4. SpanAt(p, n + 1) \in Int
      <4>1. n + 1 \in 1 .. Len(tree)
        BY <1>3, <1>4
      <4> QED
        BY <1>2, <1>4, <2>2, <4>1 DEF Spanned
    <3> HIDE DEF item
    <3> QED
      BY <1>3, <1>4, <1>11, <2>2, <3>1, <3>3, <3>4, StackBranch
  <2> QED
    BY <2>1, <2>2
<1>14. Position(p, n + 1)'
  <2>1. PICK t : t = stack'
    OBVIOUS
  <2>2. OnStack(t, p, n + 1)' /\ At(p[n + 1] + 1)' = At(p[n + 1] + 1)
    BY <1>1, <1>13, <2>1, TreeSays
  <2>3. t \in Seq([value : Nat, end : Int]) /\ Len(t) \in Nat
    <3>1. t \in Seq([value : Nat, end : Int])
      BY <1>13, <2>1 DEF OnStack, Chain
    <3> DEFINE P == [value : Nat, end : Int]
    <3>2. t \in Seq(P)
      BY <3>1
    <3> HIDE DEF P
    <3> QED
      BY <3>1, <3>2
  <2>4. FirstOf(stack', t, Len(t))
    BY <2>1, <2>3 DEF FirstOf
  <2>5. FirstOf(stack, t, Len(t))'
    BY <2>4 DEF FirstOf
  <2>6. (val = At(p[n + 1] + 1) /\ key = NoKey)'
    BY <1>4, <1>9, <2>2
  <2> QED
    BY <2>2, <2>5, <2>6 DEF Position
<1> QED
  BY <1>10, <1>12, <1>14

(* A value read: in its place, or elsewhere, or not at all.                *)
LEMMA ValueStack ==
  ASSUME ConvertInv, ReadLeaf \/ ReadBranch, NEW p, Holds(wire, p, Len(tree)), StackInv(p)
  PROVE  StackInv(p)'
<1>1. /\ phase = "read" /\ err = "OK" /\ tree' = tree /\ wire' = wire /\ w' = w
  BY DEF ReadLeaf, ReadBranch, Reading, writer
<1>2. ReadAs(p) /\ Spanned(p) /\ Laid(wire, w) /\ MadeInv
  BY <1>1, Reader
<1>3. TreeInv /\ MessageInv /\ Len(tree) \in Nat
  BY DEF ConvertInv, MessageInv, TreeInv, Ordered
<1>4. PICK n : n = Len(made)
  OBVIOUS
<1>5. ValueRead(p, n)
  BY <1>2, <1>3, <1>4, ReadsValue
<1>6. /\ n \in Nat /\ n < Len(tree) /\ n + 1 \in Nat /\ n <= n + 1 /\ n + 1 <= Len(tree)
      /\ val = At(p[n + 1]) /\ (err' = "OK" => Len(made') = n + 1)
  BY <1>3, <1>5 DEF ValueRead
<1>7. PICK v : Attach(v, Surrounding)
  BY <1>5 DEF ValueRead
<1>8. /\ err' = "OK" => \A i \in 1 .. n : made'[i] = made[i]
      /\ err' # "OK" => made' = made
  <2>1. err' # "OK" => made' = made
    BY <1>1, <1>7 DEF Attach
  <2>2. ASSUME err' = "OK" PROVE \A i \in 1 .. n : made'[i] = made[i]
    <3>1. PICK x : made' = Append(made, x)
      BY <1>7, <2>2 DEF Attach
    <3> QED
      BY <1>2, <1>4, <3>1, SequenceMore DEF MadeInv
  <2> QED
    BY <2>1, <2>2
<1>9. ASSUME NestTo(n)
      PROVE  /\ NestTo(n + 1) => err' = "OK"
             /\ ~NestTo(n + 1) /\ err' = "OK" => made'[n + 1].parent # tree[n + 1].parent
  <2>1. PlacedTo(n) /\ ShallowTo(n) /\ Position(p, n)
    BY <1>1, <1>4, <1>9 DEF StackInv
  <2>2. PICK s, m, d : Parents(s, p, n, m, d)
    BY <1>2, <1>3, <1>6, <1>9, <2>1, PositionParents
  <2> QED
    BY <1>1, <1>2, <1>3, <1>4, <1>6, <1>7, <2>1, <2>2, AttachParents
<1>10. NestTo(n + 1) => NestTo(n)
  BY <1>6, NestLess
<1>11. ASSUME NEW m PROVE (NestTo(m)' <=> NestTo(m)) /\ (ShallowTo(m)' <=> ShallowTo(m))
  BY <1>1, TreeSays
<1>12. CASE err' = "OK" /\ NestTo(n + 1)
  <2>1. PlacedTo(n + 1)' /\ ShallowTo(n + 1) /\ Position(p, n + 1)'
    BY <1>4, <1>5, <1>12, PlaceStack
  <2>2. Len(made)' = n + 1
    BY <1>6, <1>12
  <2> QED
    BY <1>11, <1>12, <2>1, <2>2 DEF StackInv
<1>13. CASE err' = "OK" /\ ~NestTo(n + 1)
  <2>1. \E i \in 1 .. n + 1 : made'[i].parent # tree[i].parent
    <3>1. CASE NestTo(n)
      <4>1. n + 1 \in 1 .. n + 1
        BY <1>6
      <4> QED
        BY <1>9, <1>13, <3>1, <4>1
    <3>2. CASE ~NestTo(n)
      <4>1. PICK i \in 1 .. n : made[i].parent # tree[i].parent
        BY <1>4, <3>2 DEF StackInv
      <4>2. i \in 1 .. n + 1
        BY <1>6
      <4> QED
        BY <1>8, <1>13, <4>1, <4>2
    <3> QED
      BY <3>1, <3>2
  <2>2. Len(made)' = n + 1
    BY <1>6, <1>13
  <2> QED
    BY <1>1, <1>11, <1>13, <2>1, <2>2 DEF StackInv
<1>14. CASE err' # "OK"
  <2>1. ~NestTo(n + 1)
    BY <1>9, <1>10, <1>14
  <2>2. ~NestTo(Len(tree))
    BY <1>3, <1>6, <2>1, NestLess
  <2>3. PICK N : N = Len(tree)
    OBVIOUS
  <2>4. Len(made)' = n /\ Len(tree)' = N /\ made' = made
    BY <1>1, <1>4, <1>8, <1>14, <2>3
  <2> QED
    BY <1>1, <1>4, <1>11, <1>14, <2>2, <2>3, <2>4 DEF StackInv
<1> QED
  BY <1>12, <1>13, <1>14

(* One too deep to read is too deep, or the nesting was lost before.       *)
LEMMA TooDeepStack ==
  ASSUME ConvertInv, ReadTooDeep, NEW p, Holds(wire, p, Len(tree)), StackInv(p)
  PROVE  StackInv(p)'
<1>1. /\ phase = "read" /\ Reading /\ err = "OK" /\ err' # "OK" /\ made' = made /\ tree' = tree /\ wire' = wire /\ w' = w
      /\ Len(Surrounding) >= MaxDepth
  BY DEF ReadTooDeep, Reading, writer
<1>2. ReadAs(p) /\ Spanned(p) /\ Laid(wire, w) /\ MadeInv
  BY <1>1, Reader
<1>3. TreeInv /\ MessageInv /\ Len(tree) \in Nat
  BY DEF ConvertInv, MessageInv, TreeInv, Ordered
<1>4. PICK n : n = Len(made)
  OBVIOUS
<1>5. /\ n \in Nat /\ n < Len(tree) /\ tree[n + 1] \in TreeValues
      /\ \E j \in DOMAIN wire : /\ Here = {wire[j]} /\ val = At(j)
                                /\ AtValue(p, n, j) \/ AtKey(p, n, j)
  <2>1. LET k == Len(made)
        IN  /\ k \in Nat /\ k < Len(tree) /\ tree[k + 1] \in TreeValues /\ Laid(wire, w)
            /\ \E j \in DOMAIN wire : /\ Here = {wire[j]} /\ val = At(j)
                                      /\ AtValue(p, k, j) \/ AtKey(p, k, j)
    BY <1>1, <1>2, <1>3, HereIs
  <2> QED
    BY <1>4, <2>1
<1>6. PICK j \in DOMAIN wire : /\ Here = {wire[j]} /\ val = At(j)
                               /\ AtValue(p, n, j) \/ AtKey(p, n, j)
  BY <1>5
<1>7. wire[j].cell.kind \in Containers
  BY <1>6 DEF ReadTooDeep
<1>8. val = At(p[n + 1]) /\ tree[n + 1].type \in Branches
  <2>1. AtValue(p, n, j)
    BY <1>5, <1>6, <1>7, KindAt DEF AtKey
  <2> QED
    BY <1>5, <1>6, <1>7, <2>1, KindAt DEF AtValue
<1>9. ~NestTo(Len(tree)) \/ ~ShallowTo(Len(tree))
  <2>1. CASE NestTo(n + 1)
    <3>1. NestTo(n)
      BY <1>5, <2>1, NestLess
    <3>2. Position(p, n)
      BY <1>1, <1>4, <3>1 DEF StackInv
    <3>3. PICK s, m, d : Parents(s, p, n, m, d)
      BY <1>2, <1>3, <1>5, <1>8, <3>1, <3>2, PositionParents
    <3>4. /\ OnStack(s, p, n) /\ Depth(s, n, d) /\ FirstOf(Surrounding, s, d) /\ Cardinality(Around[n + 1]) = d + 1
      BY <2>1, <3>3 DEF Parents
    <3>5. CutIs(Surrounding, p, n, d)
      BY <1>3, <1>5, <3>4, StackCut
    <3>6. ~(d + 1 <= MaxDepth)
      BY <1>1, <3>5, ConvertAssumption DEF CutIs
    <3>7. n + 1 \in 1 .. Len(tree)
      BY <1>3, <1>5
    <3> QED
      BY <1>8, <3>4, <3>6, <3>7 DEF ShallowTo
  <2>2. CASE ~NestTo(n + 1)
    <3>1. n + 1 \in Nat /\ n + 1 <= Len(tree)
      BY <1>3, <1>5
    <3> QED
      BY <1>3, <2>2, <3>1, NestLess
  <2> QED
    BY <2>1, <2>2
<1>10. ASSUME NEW m PROVE (NestTo(m)' <=> NestTo(m)) /\ (ShallowTo(m)' <=> ShallowTo(m))
  BY <1>1, TreeSays
<1>11. PICK N : N = Len(tree)
  OBVIOUS
<1>12. Len(made)' = n /\ Len(tree)' = N
  BY <1>1, <1>4, <1>11
<1> QED
  BY <1>1, <1>4, <1>9, <1>10, <1>11, <1>12 DEF StackInv

(* Nothing read, nothing else.                                             *)
LEMMA SameStack ==
  ASSUME UNCHANGED <<tree, writer, reader>>, NEW p, StackInv(p)
  PROVE  StackInv(p)'
<1>1. /\ tree' = tree /\ wire' = wire /\ w' = w /\ val' = val /\ stack' = stack /\ key' = key
      /\ made' = made /\ err' = err
  BY DEF writer, reader
<1>2. PICK n, N : n = Len(made) /\ N = Len(tree)
  OBVIOUS
<1>3. Len(made)' = n /\ Len(tree)' = N
  BY <1>1, <1>2
<1>4. ASSUME NEW m PROVE (NestTo(m)' <=> NestTo(m)) /\ (ShallowTo(m)' <=> ShallowTo(m))
  BY <1>1, TreeSays
<1>5. Position(p, n) => Position(p, n)'
  <2>1. /\ \A s : OnStack(s, p, n) <=> OnStack(s, p, n)'
        /\ \A s, d : Depth(s, n, d) <=> Depth(s, n, d)'
        /\ \A j : At(j)' = At(j)
    BY <1>1, TreeSays
  <2> QED
    BY <1>1, <2>1 DEF Position, FirstOf
<1>6. PlacedTo(n) => PlacedTo(n)'
  BY <1>1 DEF PlacedTo
<1> QED
  BY <1>1, <1>2, <1>3, <1>4, <1>5, <1>6 DEF StackInv

(* The reader begins in front of the first value, without parents.         *)
LEMMA BeginStack ==
  ASSUME TreeInv, Laid(wire, w), wire # <<>>, NEW p, Holds(wire, p, Len(tree)),
         val = Id, stack = <<>>, key = NoKey, made = <<>>, err = "OK"
  PROVE  StackInv(p)
<1>1. Len(made) = 0
  OBVIOUS
<1>2. NestTo(0) /\ PlacedTo(0) /\ ShallowTo(0)
  BY DEF NestTo, PlacedTo, ShallowTo
<1>3. p[0] = 0 /\ Len(tree) \in Nat
  BY DEF Holds, TreeInv, Ordered
<1>4. val = At(p[0] + 1)
  <2>1. wire \in Seq(Items)
    BY DEF Laid
  <2>2. 1 \in DOMAIN wire /\ wire[1].cell.at = Id
    BY <2>1 DEF Laid
  <2> QED
    BY <1>3, <2>2 DEF At
<1> DEFINE P == [value : Nat, end : Int]
<1>5. stack \in Seq(P) /\ Len(stack) = 0 /\ DOMAIN stack = {}
  <2> HIDE DEF P
  <2> QED
    OBVIOUS
<1>6. OnStack(stack, p, 0)
  <2>1. Chain(stack, p)
    BY <1>5 DEF Chain
  <2>2. In(0) = {}
    <3>1. Around[0] = {}
      BY <1>3, AroundTrue DEF AroundIs, TreeInv
    <3> QED
      BY <3>1 DEF In
  <2>3. {stack[d].value : d \in DOMAIN stack} = {}
    BY <1>5
  <2> QED
    BY <2>1, <2>2, <2>3 DEF OnStack
<1>7. FirstOf(stack, stack, 0)
  BY <1>5 DEF FirstOf
<1>8. Position(p, 0)
  BY <1>4, <1>5, <1>6, <1>7 DEF Position
<1> QED
  BY <1>1, <1>2, <1>8 DEF StackInv
-----------------------------------------------------------------------------
(* The reader, and whether the values are in their places.                 *)
BackInv == /\ ConvertInv
           /\ phase \in {"read", "done"} => \E p : Holds(wire, p, Len(tree)) /\ StackInv(p)

(* Before it begins there is nothing to say.                               *)
LEMMA BackInit == Init => BackInv
<1> SUFFICES ASSUME Init PROVE BackInv
  OBVIOUS
<1>1. ConvertInv
  BY ConvertInit
<1> QED
  BY <1>1 DEF BackInv, Init

(* Every step keeps it.                                                    *)
LEMMA BackStep == BackInv /\ [Next]_vars => BackInv'
<1> SUFFICES ASSUME BackInv, [Next]_vars PROVE BackInv'
  OBVIOUS
<1>1. ConvertInv /\ ConvertInv'
  BY ConvertStep DEF BackInv
<1>2. CASE phase' \in {"grow", "write"}
  BY <1>1, <1>2 DEF BackInv
<1>3. CASE Written
  <2>1. /\ UNCHANGED <<tree, writer, reader>> /\ phase = "write" /\ next > Len(tree)
    BY <1>3 DEF Written
  <2>2. /\ val = Id /\ stack = <<>> /\ key = NoKey /\ made = <<>> /\ err = "OK"
        /\ TreeInv /\ tree # <<>> /\ Len(tree) \in Nat /\ next - 1 = Len(tree)
    <3>1. TreeInv /\ PhaseInv
      BY <1>1 DEF ConvertInv, MessageInv
    <3>2. next \in Nat /\ next <= Len(tree) + 1
      BY <1>1 DEF ConvertInv, MessageInv, WriteInv
    <3>3. Len(tree) \in Nat
      BY <3>1 DEF TreeInv, Ordered
    <3> QED
      BY <2>1, <3>1, <3>2, <3>3 DEF PhaseInv
  <2>3. PICK p : WireInv(p)
    BY <1>1 DEF ConvertInv, MessageInv, WriteInv
  <2>4. Laid(wire, w) /\ Holds(wire, p, Len(tree))
    BY <2>2, <2>3 DEF WireInv
  <2>5. wire # <<>>
    <3>1. Len(tree) \in 1 .. Len(tree)
      BY <2>2 DEF TreeInv, Ordered
    <3>2. DOMAIN wire # {}
      BY <2>4, <3>1 DEF Holds
    <3> QED
      BY <3>2
  <2>6. StackInv(p)
    BY <2>2, <2>4, <2>5, BeginStack
  <2>7. StackInv(p)'
    BY <2>1, <2>6, SameStack
  <2>8. Holds(wire, p, Len(tree))'
    BY <2>1, <2>4, WhereKept
  <2> QED
    BY <1>1, <2>7, <2>8 DEF BackInv
<1>4. CASE Reads \/ (UNCHANGED vars /\ phase \in {"read", "done"})
  <2>1. phase \in {"read", "done"} /\ UNCHANGED <<tree, writer>>
    BY <1>4 DEF Reads, ReadKey, ReadLeaf, ReadBranch, ReadTooDeep, ReadDone, Reading, vars
  <2>2. PICK p : Holds(wire, p, Len(tree)) /\ StackInv(p)
    BY <2>1 DEF BackInv
  <2>3. Holds(wire, p, Len(tree))'
    BY <2>1, <2>2, WhereKept
  <2>4. StackInv(p)'
    <3>1. CASE ReadKey
      BY <1>1, <2>2, <3>1, KeyStack
    <3>2. CASE ReadLeaf \/ ReadBranch
      BY <1>1, <2>2, <3>2, ValueStack
    <3>3. CASE ReadTooDeep
      BY <1>1, <2>2, <3>3, TooDeepStack
    <3>4. CASE ReadDone \/ UNCHANGED vars
      <4>1. UNCHANGED <<tree, writer, reader>>
        BY <3>4 DEF ReadDone, vars
      <4> QED
        BY <2>2, <4>1, SameStack
    <3> QED
      BY <1>4, <3>1, <3>2, <3>3, <3>4 DEF Reads
  <2> QED
    BY <1>1, <2>3, <2>4 DEF BackInv
<1>5. CASE Grow \/ Convert \/ Fill \/ FillSize
  <2>1. phase' \in {"grow", "write"}
    BY <1>5, Zenon DEF Grow, Convert, Fill, FillSize
  <2> QED
    BY <1>2, <2>1
<1>6. CASE UNCHANGED vars /\ phase \notin {"read", "done"}
  BY <1>1, <1>6 DEF BackInv, vars
<1> QED
  BY <1>3, <1>4, <1>5, <1>6 DEF Next, Reads

(* As long as no value was preceded by the end of more values than         *)
(* opo_val_to_ojc leaves, the reader's parents are those of its place and  *)
(* all it made is in its place; behind the first that was, something is in *)
(* another place or an error is told.                                      *)
THEOREM Readers == Spec => []BackInv
BY BackInit, BackStep, PTL DEF Spec

(* No value of the tree is one that does not survive.                      *)
Survives == \A i \in DOMAIN tree : ~Altered(tree[i])

(* So all is in its place if and only if that never was.                   *)
LEMMA ComesBack == BackInv => BackAsItWent
<1> SUFFICES ASSUME BackInv, phase = "done"
             PROVE  made = Source /\ err = "OK" <=> NestingKept /\ Shallow /\ Survives
  BY DEF BackAsItWent, Survives
<1> DEFINE N == Len(tree)
<1>1. ConvertInv /\ tree \in Seq(TreeValues) /\ N \in Nat /\ DOMAIN tree = 1 .. N
  <2>1. ConvertInv /\ tree \in Seq(TreeValues)
    BY DEF BackInv, ConvertInv, MessageInv, TreeInv, Ordered
  <2> QED
    BY <2>1
<1>2. PICK p : StackInv(p)
  BY DEF BackInv
<1>3. MadeInv /\ (err = "OK" => Len(made) = N)
  BY <1>1 DEF ConvertInv, ReadInv
<1>4. Sequence(made) /\ DOMAIN made = 1 .. Len(made)
  BY <1>3, SequenceMore DEF MadeInv
<1>5. (NestTo(N) <=> NestingKept) /\ (ShallowTo(N) <=> Shallow)
  BY <1>1 DEF NestTo, NestAt, NestingKept, ShallowTo, Shallow
<1>6. ASSUME NEW i \in 1 .. N
      PROVE  /\ tree[i] \in TreeValues /\ Source[i] = AsRead(tree[i])
             /\ Source[i].parent = tree[i].parent /\ Source[i].key = tree[i].key
             /\ Source[i].n = tree[i].n /\ Source[i].form = tree[i].form
             /\ Source[i] = Value(Source[i], Source[i].key, Source[i].parent)
  <2>1. tree[i] \in TreeValues /\ Source[i] = AsRead(tree[i])
    BY <1>1 DEF Source
  <2>2. ASSUME NEW t \in TreeValues
        PROVE  /\ AsRead(t).parent = t.parent /\ AsRead(t).key = t.key
               /\ AsRead(t).n = t.n /\ AsRead(t).form = t.form
               /\ AsRead(t) = Value(AsRead(t), AsRead(t).key, AsRead(t).parent)
    BY <2>2 DEF TreeValues, AsRead, Value
  <2> QED
    BY <2>1, <2>2
<1> HIDE DEF N
<1>7. ASSUME made = Source, err = "OK" PROVE NestingKept /\ Shallow /\ Survives
  <2>1. Len(made) = N
    BY <1>3, <1>7
  <2>2. \A i \in 1 .. N : made[i].parent = tree[i].parent
    BY <1>6, <1>7
  <2>3. NestTo(N)
    BY <1>2, <2>1, <2>2 DEF StackInv
  <2>4. ShallowTo(N)
    BY <1>2, <1>7, <2>1, <2>3 DEF StackInv
  <2>5. \A i \in 1 .. N : Same(made[i], tree[i]) /\ made[i].form = tree[i].form /\ made[i].n = tree[i].n
    BY <1>3, <1>6, <1>7, <2>1 DEF MadeInv
  <2>6. Survives
    BY <1>1, <2>5 DEF Same, Survives
  <2> QED
    BY <1>5, <2>3, <2>4, <2>6
<1>8. ASSUME NestingKept, Shallow, Survives PROVE made = Source /\ err = "OK"
  <2>1. err = "OK"
    BY <1>2, <1>5, <1>8 DEF StackInv, N
  <2>2. Len(made) = N
    BY <1>3, <2>1
  <2>3. PlacedTo(N)
    BY <1>2, <1>5, <1>8, <2>1, <2>2 DEF StackInv
  <2>4. ASSUME NEW i \in 1 .. N PROVE made[i] = Source[i]
    <3>1. Same(made[i], tree[i]) /\ made[i] = Value(made[i], made[i].key, made[i].parent)
      BY <1>3, <2>2 DEF MadeInv
    <3>2. ~Altered(tree[i])
      BY <1>1, <1>8 DEF Survives
    <3>3. made[i].type = Source[i].type /\ made[i].form = Source[i].form /\ made[i].n = Source[i].n
      BY <1>6, <3>1, <3>2 DEF Same
    <3>4. made[i].key = Source[i].key /\ made[i].parent = Source[i].parent
      BY <1>6, <2>3 DEF PlacedTo
    <3>5. Source[i] = Value(Source[i], Source[i].key, Source[i].parent)
      BY <1>6
    <3> QED
      BY <3>1, <3>3, <3>4, <3>5 DEF Value
  <2>5. made = [i \in 1 .. N |-> made[i]]
    <3>1. PICK S : made \in Seq(S)
      BY <1>4 DEF Sequence
    <3> QED
      BY <2>2, <3>1
  <2>6. Source = [i \in 1 .. N |-> Source[i]]
    BY <1>1 DEF Source
  <2> QED
    BY <2>1, <2>4, <2>5, <2>6
<1> QED
  BY <1>7, <1>8

(* A tree made into a message and back comes back as it went exactly if    *)
(* nowhere more values end than the reader leaves, it is not too deep and  *)
(* no value in it is one that does not survive: a double that needs more   *)
(* digits than are written, a time not written as strftime would, before   *)
(* 1970 or too late.                                                       *)
THEOREM Back == Spec => []BackAsItWent
BY Readers, ComesBack, PTL

==============================================================================
