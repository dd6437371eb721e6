--------------------------- MODULE BuilderProofs ---------------------------
(***************************************************************************)
(* Proofs about Builder, for every length of keys and leaves, every limit  *)
(* on the depth, every first buffer and every owner of it.                 *)
(***************************************************************************)
EXTENDS Message, SequenceTheorems, FiniteSetTheorems, TLAPS

(* Every leaf takes the bytes a reader takes it to have: what all calls of *)
(* builder.c see to but opo_builder_push_uuid_string, given other digits.  *)
Exact == \A leaf \in Leaves : leaf.bytes = BSize(leaf)

(* The arrays just opened one after the other, which ask for no room, are  *)
(* no more than MSG_INC has room for: the next call that asks gets MSG_INC *)
(* bytes on top of its own.                                                *)
ShortRuns == 5 * Cardinality(JustOpened) <= Increment

CellSet == [kind : Kinds \cup {"JUNK"}, field : Nat \cup {NoSize}, bytes : Nat, at : Nat]
Buffers == [cells : Seq(CellSet), cur : Nat, end : Nat]
Built == [cells |-> cells, cur |-> cur, end |-> end]

BuilderTypes == /\ cells \in Seq(CellSet)
                /\ cur \in Nat /\ end \in Nat
                /\ own \in BOOLEAN
                /\ stack \in Seq(Nat) /\ opened \in Seq(Containers)
                /\ Len(opened) = Len(stack)
                /\ msg # <<>> => cells = <<>> /\ stack = <<>>

(* The five bytes of every open value lie before cur.                      *)
StackInv == /\ StackPoints
            /\ \A i \in DOMAIN stack : stack[i] + 5 <= cur

(* How long a reader takes the root to be.                                 *)
RootSized(cs, n) == cs[1].kind # "JUNK" => /\ BSize(cs[1]) \in Nat \ {0}
                                           /\ Exact => BSize(cs[1]) + Id = n

(* Where the root is, and its size once it is closed.                      *)
RootInv == /\ msg = <<>> /\ cells = <<>> => stack = <<>> /\ cur = Id
           /\ cells # <<>> => Id < cur /\ cells[1].at = Id
           /\ stack # <<>> => /\ cells # <<>> /\ stack[1] = Id /\ Id + 5 <= cur
                              /\ cells[1].kind \in Containers \cup {"JUNK"}
           /\ cells # <<>> /\ stack = <<>> => RootSized(cells, cur)

IInv == BuilderTypes /\ StackInv /\ RootInv

(* c is b with more at its end, and with what it holds kept or lost.       *)
Continues(b, c) ==
    /\ c \in Buffers
    /\ Len(b.cells) <= Len(c.cells) /\ b.cur <= c.cur
    /\ \A i \in DOMAIN b.cells : /\ c.cells[i].at = b.cells[i].at
                                 /\ c.cells[i].field = b.cells[i].field
                                 /\ c.cells[i].kind \in {b.cells[i].kind, "JUNK"}
-----------------------------------------------------------------------------
LEMMA KindsSized ==
  /\ Kinds = {"NULL", "TRU", "FALS", "INT1", "INT2", "INT4", "INT8", "STR1", "STR2", "STR4",
              "KEY1", "KEY2", "DEC", "UUID", "TIME", "OBJ", "ARRAY"}
  /\ \A k \in Kinds : Overhead[k] \in Nat \ {0}
  /\ Overhead["OBJ"] = 5 /\ Overhead["ARRAY"] = 5
  /\ Overhead["KEY1"] = 3 /\ Overhead["KEY2"] = 4
BY DEF Kinds, Overhead

(* A value with a size has one that is not 0.                              *)
LEMMA SizeOfCell ==
  ASSUME NEW c, c.kind \in Kinds, c.field \in Nat
  PROVE  BSize(c) \in Nat \ {0}
BY KindsSized DEF BSize

LEMMA ShiftCell ==
  ASSUME NEW c \in CellSet, NEW n \in Nat
  PROVE  /\ Shift(c, n) \in CellSet
         /\ Shift(c, n).kind = c.kind /\ Shift(c, n).field = c.field /\ Shift(c, n).at = c.at + n
<1>1. c.at + n \in Nat /\ c.kind \in Kinds \cup {"JUNK"} /\ c.field \in Nat \cup {NoSize} /\ c.bytes \in Nat
  BY DEF CellSet
<1>2. Shift(c, n) = [kind |-> c.kind, field |-> c.field, bytes |-> c.bytes, at |-> c.at + n]
  BY DEF Shift, CellSet
<1> QED
  BY <1>1, <1>2 DEF CellSet

LEMMA ContinuesTrans ==
  ASSUME NEW a \in Buffers, NEW b \in Buffers, NEW c, Continues(a, b), Continues(b, c)
  PROVE  Continues(a, c)
<1>1. DOMAIN a.cells = 1 .. Len(a.cells) /\ DOMAIN b.cells = 1 .. Len(b.cells)
      /\ Len(a.cells) \in Nat /\ Len(b.cells) \in Nat
  BY DEF Buffers
<1>2. c \in Buffers /\ Len(c.cells) \in Nat
  BY DEF Continues, Buffers
<1>3. Len(a.cells) <= Len(c.cells) /\ a.cur <= c.cur
  BY <1>1, <1>2 DEF Continues, Buffers
<1>4. ASSUME NEW i \in DOMAIN a.cells
      PROVE  /\ c.cells[i].at = a.cells[i].at
             /\ c.cells[i].field = a.cells[i].field
             /\ c.cells[i].kind \in {a.cells[i].kind, "JUNK"}
  <2>1. i \in DOMAIN b.cells
    BY <1>1 DEF Continues
  <2> QED
    BY <2>1 DEF Continues
<1> QED
  BY <1>2, <1>3, <1>4 DEF Continues

(* builder_assure keeps what is built, but for a buffer it does not own,   *)
(* and leaves cur where it is.                                             *)
LEMMA AssuredContinues ==
  ASSUME own \in BOOLEAN, NEW b \in Buffers, NEW size \in Nat
  PROVE  /\ Continues(b, Assured(b, size))
         /\ Assured(b, size).cur = b.cur
         /\ Len(Assured(b, size).cells) = Len(b.cells)
         /\ b.cur < b.end + Increment => b.cur + size < Assured(b, size).end
<1> DEFINE junk == [i \in DOMAIN b.cells |-> [b.cells[i] EXCEPT !.kind = "JUNK"]]
           kept == IF own THEN b.cells ELSE junk
<1>1. b.cells \in Seq(CellSet) /\ b.cur \in Nat /\ b.end \in Nat /\ Increment \in Nat
      /\ DOMAIN b.cells = 1 .. Len(b.cells) /\ Len(b.cells) \in Nat
  BY BuilderAssumption DEF Buffers
<1>2. /\ junk \in Seq(CellSet) /\ Len(junk) = Len(b.cells)
      /\ \A i \in DOMAIN b.cells : /\ junk[i].at = b.cells[i].at
                                   /\ junk[i].field = b.cells[i].field
                                   /\ junk[i].kind = "JUNK"
  <2>1. \A i \in DOMAIN b.cells : b.cells[i] \in CellSet
    BY <1>1
  <2>2. \A i \in DOMAIN b.cells : [b.cells[i] EXCEPT !.kind = "JUNK"] \in CellSet
    BY <2>1 DEF CellSet
  <2>3. junk \in [1 .. Len(b.cells) -> CellSet]
    BY <1>1, <2>2
  <2>4. junk \in Seq(CellSet) /\ Len(junk) = Len(b.cells)
    BY <1>1, <2>3, LenProperties, SeqDef
  <2>5. ASSUME NEW i \in DOMAIN b.cells
        PROVE  junk[i].at = b.cells[i].at /\ junk[i].field = b.cells[i].field /\ junk[i].kind = "JUNK"
    BY <2>1 DEF CellSet
  <2> QED
    BY <2>4, <2>5
<1>3. /\ kept \in Seq(CellSet) /\ Len(kept) = Len(b.cells)
      /\ \A i \in DOMAIN b.cells : /\ kept[i].at = b.cells[i].at
                                   /\ kept[i].field = b.cells[i].field
                                   /\ kept[i].kind \in {b.cells[i].kind, "JUNK"}
  BY <1>1, <1>2
<1>4. CASE b.end > b.cur + size
  <2>1. Assured(b, size) = b
    BY <1>4 DEF Assured
  <2> QED
    BY <1>1, <1>4, <2>1 DEF Continues
<1>5. CASE ~(b.end > b.cur + size)
  <2>1. Assured(b, size) = [cells |-> kept, cur |-> b.cur, end |-> b.end + Increment + size]
    BY <1>5 DEF Assured, Buffers
  <2>2. Assured(b, size) \in Buffers
    BY <1>1, <1>3, <2>1 DEF Buffers
  <2> HIDE DEF kept
  <2> QED
    BY <1>1, <1>3, <2>1, <2>2 DEF Continues
<1> QED
  BY <1>4, <1>5

(* What is written comes behind what is there.                             *)
LEMMA FilledContinues ==
  ASSUME NEW b \in Buffers, NEW cs \in Seq(CellSet), NEW size \in Nat
  PROVE  /\ Continues(b, Filled(b, cs, size))
         /\ Filled(b, cs, size).cur = b.cur + size
         /\ Filled(b, cs, size).end = b.end
         /\ Len(Filled(b, cs, size).cells) = Len(b.cells) + Len(cs)
         /\ \A i \in DOMAIN b.cells : Filled(b, cs, size).cells[i] = b.cells[i]
         /\ \A i \in DOMAIN cs : Filled(b, cs, size).cells[Len(b.cells) + i] = Shift(cs[i], b.cur)
<1> DEFINE new == [i \in DOMAIN cs |-> Shift(cs[i], b.cur)]
           all == b.cells \o new
<1>1. b.cells \in Seq(CellSet) /\ b.cur \in Nat /\ b.end \in Nat /\ Len(b.cells) \in Nat
      /\ DOMAIN b.cells = 1 .. Len(b.cells) /\ DOMAIN cs = 1 .. Len(cs) /\ Len(cs) \in Nat
  BY DEF Buffers
<1>2. new \in Seq(CellSet) /\ Len(new) = Len(cs)
  <2>1. \A i \in DOMAIN cs : cs[i] \in CellSet
    BY <1>1
  <2>2. \A i \in DOMAIN cs : Shift(cs[i], b.cur) \in CellSet
    BY <1>1, <2>1, ShiftCell
  <2>3. new \in [1 .. Len(cs) -> CellSet]
    BY <1>1, <2>2
  <2> QED
    BY <1>1, <2>3, LenProperties, SeqDef
<1>3. \A i \in DOMAIN cs : new[i] = Shift(cs[i], b.cur)
  OBVIOUS
<1> HIDE DEF new
<1>4. /\ all \in Seq(CellSet) /\ Len(all) = Len(b.cells) + Len(cs)
      /\ \A i \in DOMAIN b.cells : all[i] = b.cells[i]
      /\ \A i \in DOMAIN cs : all[Len(b.cells) + i] = new[i]
  BY <1>1, <1>2
<1>5. Filled(b, cs, size) = [cells |-> all, cur |-> b.cur + size, end |-> b.end]
  <2>1. Filled(b, cs, size) = [b EXCEPT !.cells = b.cells \o new, !.cur = b.cur + size]
    BY DEF Filled, new
  <2>2. b = [cells |-> b.cells, cur |-> b.cur, end |-> b.end]
    BY DEF Buffers
  <2> QED
    BY <2>1, <2>2 DEF Buffers
<1> HIDE DEF all
<1>6. Filled(b, cs, size) \in Buffers
  BY <1>1, <1>4, <1>5 DEF Buffers
<1> QED
  BY <1>1, <1>3, <1>4, <1>5, <1>6 DEF Continues

LEMMA KeyWritten ==
  ASSUME NEW n \in Nat
  PROVE  /\ KeyCell(n) \in CellSet
         /\ KeyCell(n).bytes \in Nat /\ KeyCell(n).bytes <= n + 4
<1>1. "KEY1" \in Kinds /\ "KEY2" \in Kinds /\ n + 3 \in Nat /\ n + 4 \in Nat /\ n % 65536 \in Nat
  BY KindsSized
<1>2. CASE n <= 255
  <2>1. KeyCell(n) = [kind |-> "KEY1", field |-> n, bytes |-> n + 3, at |-> 0]
    BY <1>2 DEF KeyCell, Cell
  <2>2. KeyCell(n) \in CellSet
    BY <1>1, <2>1 DEF CellSet
  <2> QED
    BY <1>1, <2>1, <2>2
<1>3. CASE ~(n <= 255)
  <2>1. KeyCell(n) = [kind |-> "KEY2", field |-> n % 65536, bytes |-> n + 4, at |-> 0]
    BY <1>3 DEF KeyCell, Cell
  <2>2. KeyCell(n) \in CellSet
    BY <1>1, <2>1 DEF CellSet
  <2> QED
    BY <1>1, <2>1, <2>2
<1> QED
  BY <1>2, <1>3

(* A key, or none, written behind what is built.                           *)
LEMMA KeyedContinues ==
  ASSUME BuilderTypes, NEW key \in KeyLengths \cup {NoKey}
  PROVE  /\ Built \in Buffers
         /\ Continues(Built, Keyed(key))
         /\ key = NoKey => Keyed(key) = Built
<1>1. Built \in Buffers /\ Built.cells = cells /\ Built.cur = cur /\ Built.end = end
  BY DEF BuilderTypes, Buffers, Built
<1>2. CASE key = NoKey
  <2>1. Keyed(key) = Built
    BY <1>2 DEF Keyed, Built
  <2> QED
    BY <1>1, <2>1 DEF Continues, Buffers
<1>3. CASE key # NoKey
  <2>0. KeyLengths \subseteq Nat
    BY BuilderAssumption
  <2>1. key \in Nat /\ key + 4 \in Nat
    BY <1>3, <2>0
  <2>2. KeyCell(key) \in CellSet /\ KeyCell(key).bytes \in Nat
    BY <2>1, KeyWritten
  <2>3. <<KeyCell(key)>> \in Seq(CellSet)
    BY <2>2
  <2> DEFINE a == Assured(Built, key + 4)
  <2>4. Continues(Built, a) /\ a \in Buffers
    BY <1>1, <2>1, AssuredContinues DEF BuilderTypes, Continues
  <2>5. Continues(a, Filled(a, <<KeyCell(key)>>, KeyCell(key).bytes))
    BY <2>2, <2>3, <2>4, FilledContinues
  <2>6. Keyed(key) = Filled(a, <<KeyCell(key)>>, KeyCell(key).bytes)
    BY <1>3 DEF Keyed, Built
  <2> QED
    BY <1>1, <1>3, <2>4, <2>5, <2>6, ContinuesTrans
<1> QED
  BY <1>2, <1>3

(* With no value open only the root may be pushed, and no key with it.     *)
LEMMA RootPush ==
  ASSUME IInv, msg = <<>>, NEW key, MayPush(key), stack = <<>>
  PROVE  cells = <<>> /\ cur = Id /\ key = NoKey
<1>1. cur <= Id /\ key = NoKey
  BY DEF MayPush
<1>2. cur \in Nat /\ Id = 8
  BY DEF IInv, BuilderTypes, Id
<1> QED
  BY <1>1, <1>2 DEF IInv, RootInv

(* What is on the stack stays there when more is written behind it.        *)
LEMMA StackKept ==
  ASSUME IInv, NEW c, Continues(Built, c), cells' = c.cells, cur' = c.cur,
         NEW i \in DOMAIN stack
  PROVE  /\ \E j \in DOMAIN cells' : /\ cells'[j].at = stack[i]
                                     /\ cells'[j].kind \in {opened[i], "JUNK"}
                                     /\ cells'[j].field = NoSize
         /\ stack[i] + 5 <= cur'
<1>1. /\ cells \in Seq(CellSet) /\ cur \in Nat /\ stack \in Seq(Nat)
      /\ Built.cells = cells /\ Built.cur = cur
  BY DEF IInv, BuilderTypes, Built
<1>2. PICK j \in DOMAIN cells : /\ cells[j].at = stack[i]
                                /\ cells[j].kind \in {opened[i], "JUNK"}
                                /\ cells[j].field = NoSize
  BY DEF IInv, StackInv, StackPoints
<1>3. /\ c.cells \in Seq(CellSet) /\ c.cur \in Nat
      /\ Len(cells) <= Len(c.cells) /\ cur <= c.cur
      /\ c.cells[j].at = cells[j].at
      /\ c.cells[j].field = cells[j].field
      /\ c.cells[j].kind \in {cells[j].kind, "JUNK"}
  BY <1>1 DEF Continues, Buffers
<1>4. j \in DOMAIN c.cells
  BY <1>1, <1>3
<1>5. stack[i] \in Nat /\ stack[i] + 5 <= cur
  BY <1>1 DEF IInv, StackInv
<1>6. stack[i] + 5 <= cur'
  BY <1>1, <1>3, <1>5
<1>7. /\ j \in DOMAIN cells' /\ cells'[j].at = stack[i]
      /\ cells'[j].kind \in {opened[i], "JUNK"} /\ cells'[j].field = NoSize
  BY <1>2, <1>3, <1>4
<1> QED
  BY <1>6, <1>7

(* The root stays what it is when more is written behind it.               *)
LEMMA RootKept ==
  ASSUME IInv, NEW c, Continues(Built, c), cells' = c.cells, cur' = c.cur,
         stack # <<>>
  PROVE  /\ cells' # <<>> /\ stack[1] = Id /\ Id + 5 <= cur'
         /\ cells'[1].at = Id /\ cells'[1].kind \in Containers \cup {"JUNK"}
<1>1. /\ cells \in Seq(CellSet) /\ cur \in Nat /\ Id = 8
      /\ Built.cells = cells /\ Built.cur = cur
  BY DEF IInv, BuilderTypes, Built, Id
<1>2. /\ cells # <<>> /\ stack[1] = Id /\ Id + 5 <= cur
      /\ cells[1].at = Id /\ cells[1].kind \in Containers \cup {"JUNK"}
  BY DEF IInv, RootInv
<1>3. 1 \in DOMAIN cells /\ Len(cells) > 0
  BY <1>1, <1>2
<1>4. /\ c.cells \in Seq(CellSet) /\ c.cur \in Nat
      /\ Len(cells) <= Len(c.cells) /\ cur <= c.cur
      /\ c.cells[1].at = cells[1].at
      /\ c.cells[1].kind \in {cells[1].kind, "JUNK"}
  BY <1>1, <1>3 DEF Continues, Buffers
<1> QED
  BY <1>1, <1>2, <1>3, <1>4

(* A leaf or an encoded value pushed.                                      *)
LEMMA PushKeeps ==
  ASSUME IInv, msg = <<>>, UNCHANGED <<own, stack, msg, opened>>,
         NEW c, Continues(Built, c), cells' = c.cells, cur' = c.cur, end' = c.end,
         Len(c.cells) > 0, Id < c.cur,
         stack = <<>> => c.cells[1].at = Id /\ RootSized(c.cells, c.cur)
  PROVE  IInv'
<1>1. c.cells \in Seq(CellSet) /\ c.cur \in Nat /\ c.end \in Nat
  BY DEF Continues, Buffers
<1>2. BuilderTypes'
  BY <1>1 DEF IInv, BuilderTypes
<1>3. StackInv'
  <2>1. \A i \in DOMAIN stack :
          /\ \E j \in DOMAIN cells' : /\ cells'[j].at = stack[i]
                                      /\ cells'[j].kind \in {opened[i], "JUNK"}
                                      /\ cells'[j].field = NoSize
          /\ stack[i] + 5 <= cur'
    BY StackKept
  <2>2. \A i, j \in DOMAIN stack : i < j => stack[i] < stack[j]
    BY DEF IInv, StackInv, StackPoints
  <2> QED
    BY <2>1, <2>2 DEF StackInv, StackPoints
<1>4. RootInv'
  <2>1. cells' # <<>>
    BY <1>1
  <2>2. CASE stack = <<>>
    <3>1. RootSized(cells, cur)'
      BY <2>2 DEF RootSized, Exact, BSize
    <3> QED
      BY <2>1, <2>2, <3>1 DEF RootInv
  <2>3. CASE stack # <<>>
    BY <2>1, <2>3, RootKept DEF RootInv
  <2> QED
    BY <2>2, <2>3
<1> QED
  BY <1>2, <1>3, <1>4 DEF IInv

(* The bytes of cells put behind a key, after room was made for them.      *)
LEMMA Written ==
  ASSUME BuilderTypes, NEW key \in KeyLengths \cup {NoKey},
         NEW cs \in Seq(CellSet), cs # <<>>, NEW need \in Nat, NEW size \in Nat \ {0}
  PROVE  LET a == Assured(Keyed(key), need)
             c == Filled(a, cs, size)
         IN  /\ Continues(Built, a) /\ a \in Buffers /\ a.cur = Keyed(key).cur
             /\ Continues(Built, c)
             /\ Len(c.cells) > 0 /\ cur < c.cur
             /\ key = NoKey /\ cells = <<>> => c.cells[1] = Shift(cs[1], cur) /\ c.cur = cur + size
<1> DEFINE b == Keyed(key)
           a == Assured(b, need)
           c == Filled(a, cs, size)
<1>1. Built \in Buffers /\ Continues(Built, b) /\ (key = NoKey => b = Built)
      /\ Built.cells = cells /\ Built.cur = cur /\ cur \in Nat
  BY KeyedContinues DEF Built, BuilderTypes
<1>2. b \in Buffers
  BY <1>1 DEF Continues
<1> HIDE DEF b
<1>3. Continues(b, a) /\ a.cur = b.cur /\ Len(a.cells) = Len(b.cells)
  BY <1>2, AssuredContinues DEF BuilderTypes
<1>4. a \in Buffers
  BY <1>3 DEF Continues
<1>5. Continues(Built, a)
  BY <1>1, <1>2, <1>3, ContinuesTrans
<1> HIDE DEF a
<1>6. /\ Continues(a, c) /\ c.cur = a.cur + size /\ Len(c.cells) = Len(a.cells) + Len(cs)
      /\ \A i \in DOMAIN cs : c.cells[Len(a.cells) + i] = Shift(cs[i], a.cur)
  BY <1>4, FilledContinues
<1>7. Continues(Built, c)
  BY <1>1, <1>4, <1>5, <1>6, ContinuesTrans
<1> HIDE DEF c
<1>8. Len(cs) \in Nat \ {0} /\ 1 \in DOMAIN cs /\ Len(a.cells) \in Nat /\ a.cur \in Nat /\ cur <= a.cur
  BY <1>1, <1>4, <1>5 DEF Buffers, Continues
<1>9. Len(c.cells) > 0 /\ cur < c.cur
  BY <1>1, <1>6, <1>8
<1>10. ASSUME key = NoKey, cells = <<>>
       PROVE  c.cells[1] = Shift(cs[1], cur) /\ c.cur = cur + size
  <2>1. b.cur = cur /\ Len(b.cells) = 0
    BY <1>1, <1>10
  <2>2. Len(a.cells) + 1 = 1
    BY <1>3, <2>1
  <2> QED
    BY <1>3, <1>6, <1>8, <2>1, <2>2
<1> QED
  BY <1>3, <1>4, <1>5, <1>7, <1>9, <1>10 DEF a, b, c

(* The cells callers push.                                                 *)
LEMMA Pushed ==
  ASSUME NEW c \in Pushable
  PROVE  c \in CellSet /\ c.kind \in Kinds /\ c.field \in Nat /\ c.bytes \in Nat \ {0}
<1>1. c.kind \in Kinds /\ c.field \in Nat /\ c.bytes \in Nat \ {0} /\ c.at \in Nat
  BY DEF Pushable
<1>2. c = [kind |-> c.kind, field |-> c.field, bytes |-> c.bytes, at |-> c.at]
  BY DEF Pushable
<1> QED
  BY <1>1, <1>2 DEF CellSet

(* A cell has the same size wherever it is.                                *)
LEMMA SizeShifted ==
  ASSUME NEW c \in CellSet, NEW n \in Nat
  PROVE  BSize(Shift(c, n)) = BSize(c)
BY ShiftCell DEF BSize

LEMMA StepLeaf ==
  ASSUME IInv, NEW leaf \in Leaves, NEW key \in KeyLengths \cup {NoKey}, PushLeaf(leaf, key)
  PROVE  IInv'
<1>1. leaf \in Pushable
  BY BuilderAssumption
<1>2. leaf \in CellSet /\ leaf.kind \in Kinds /\ leaf.field \in Nat /\ leaf.bytes \in Nat \ {0}
  BY <1>1, Pushed
<1>3. Need(leaf) \in Nat
  BY <1>2, SizeOfCell DEF Need
<1> DEFINE a == Assured(Keyed(key), Need(leaf))
           cs == <<leaf>>
           c == Filled(a, cs, leaf.bytes)
<1>4. cs \in Seq(CellSet) /\ cs # <<>> /\ cs[1] = leaf
  BY <1>2
<1> HIDE DEF cs
<1>5. /\ Continues(Built, c) /\ Len(c.cells) > 0 /\ cur < c.cur
      /\ key = NoKey /\ cells = <<>> => c.cells[1] = Shift(leaf, cur) /\ c.cur = cur + leaf.bytes
  BY <1>2, <1>3, <1>4, Written DEF IInv
<1>6. /\ msg = <<>> /\ MayPush(key) /\ UNCHANGED <<own, stack, msg, opened>>
      /\ cells' = c.cells /\ cur' = c.cur /\ end' = c.end
  BY DEF PushLeaf, Becomes, cs
<1> HIDE DEF c
<1>7. Id < c.cur /\ c.cur \in Nat /\ cur \in Nat /\ Id = 8
  <2>1. cells = <<>> => cur = Id
    BY <1>6 DEF IInv, RootInv
  <2>2. cells # <<>> => Id < cur
    BY DEF IInv, RootInv
  <2>3. cur \in Nat /\ c.cur \in Nat /\ Id = 8
    BY <1>5 DEF IInv, BuilderTypes, Continues, Buffers, Id
  <2> QED
    BY <1>5, <2>1, <2>2, <2>3
<1>8. ASSUME stack = <<>> PROVE c.cells[1].at = Id /\ RootSized(c.cells, c.cur)
  <2>1. cells = <<>> /\ cur = Id /\ key = NoKey
    BY <1>6, <1>8, RootPush
  <2>2. BSize(c.cells[1]) = BSize(leaf) /\ c.cur = Id + leaf.bytes
    BY <1>2, <1>5, <1>7, <2>1, SizeShifted
  <2>5. c.cells[1].at = leaf.at + Id /\ leaf.at = 0
    BY <1>2, <1>5, <1>7, <2>1, ShiftCell, BuilderAssumption
  <2>3. BSize(leaf) \in Nat \ {0}
    BY <1>2, SizeOfCell
  <2>4. Exact => BSize(leaf) + Id = c.cur
    BY <1>2, <1>7, <2>2 DEF Exact
  <2> QED
    BY <1>7, <2>2, <2>3, <2>4, <2>5 DEF RootSized
<1> QED
  BY <1>5, <1>6, <1>7, <1>8, PushKeeps

LEMMA StepVal ==
  ASSUME IInv, NEW v \in Values, NEW key \in KeyLengths \cup {NoKey}, PushVal(v, key)
  PROVE  IInv'
<1> DEFINE size == BSize(v.cells[1])
           a == Assured(Keyed(key), size)
           c == Filled(a, v.cells, size)
<1>1. v.cells \in Seq(CellSet) /\ v.cells # <<>> /\ v.cells[1] \in CellSet /\ size \in Nat \ {0}
  <2>1. v.cells \in Seq(Pushable) /\ v.cells # <<>>
    BY BuilderAssumption
  <2>2. Pushable \subseteq CellSet
    BY Pushed
  <2>3. v.cells \in Seq(CellSet) /\ v.cells[1] \in Pushable
    BY <2>1, <2>2
  <2> QED
    BY <2>1, <2>3, Pushed, SizeOfCell
<1>5. /\ Continues(Built, c) /\ Len(c.cells) > 0 /\ cur < c.cur
      /\ key = NoKey /\ cells = <<>> => c.cells[1] = Shift(v.cells[1], cur) /\ c.cur = cur + size
  BY <1>1, Written DEF IInv
<1>6. /\ msg = <<>> /\ MayPush(key) /\ UNCHANGED <<own, stack, msg, opened>>
      /\ cells' = c.cells /\ cur' = c.cur /\ end' = c.end
  BY DEF PushVal, Becomes
<1> HIDE DEF c
<1>7. Id < c.cur /\ c.cur \in Nat /\ cur \in Nat /\ Id = 8
  <2>1. cells = <<>> => cur = Id
    BY <1>6 DEF IInv, RootInv
  <2>2. cells # <<>> => Id < cur
    BY DEF IInv, RootInv
  <2>3. cur \in Nat /\ c.cur \in Nat /\ Id = 8
    BY <1>5 DEF IInv, BuilderTypes, Continues, Buffers, Id
  <2> QED
    BY <1>5, <2>1, <2>2, <2>3
<1>8. ASSUME stack = <<>> PROVE c.cells[1].at = Id /\ RootSized(c.cells, c.cur)
  <2>1. cells = <<>> /\ cur = Id /\ key = NoKey
    BY <1>6, <1>8, RootPush
  <2>2. BSize(c.cells[1]) = size /\ c.cur = Id + size
    BY <1>1, <1>5, <1>7, <2>1, SizeShifted
  <2>3. c.cells[1].at = v.cells[1].at + Id /\ v.cells[1].at = 0
    BY <1>1, <1>5, <1>7, <2>1, ShiftCell, BuilderAssumption
  <2> QED
    BY <1>1, <1>7, <2>2, <2>3 DEF RootSized
<1> QED
  BY <1>5, <1>6, <1>7, <1>8, PushKeeps

(* An object or array opened behind a.                                     *)
LEMMA OpenKeeps ==
  ASSUME IInv, NEW kind \in Containers, NEW key \in KeyLengths \cup {NoKey}, Open(kind, key),
         NEW a \in Buffers, Continues(Built, a),
         a.cur = Keyed(key).cur, Len(a.cells) = Len(Keyed(key).cells),
         Becomes(Filled(a, <<Cell(kind, NoSize, 5)>>, 5))
  PROVE  IInv'
<1> DEFINE new == Cell(kind, NoSize, 5)
           c == Filled(a, <<new>>, 5)
<1>1. /\ msg = <<>> /\ MayPush(key)
      /\ stack' = Append(stack, a.cur) /\ opened' = Append(opened, kind)
      /\ own' = own /\ msg' = msg
      /\ cells' = c.cells /\ cur' = c.cur /\ end' = c.end
  BY DEF Open, Becomes
<1>2. /\ new \in CellSet /\ new.kind = kind /\ new.field = NoSize /\ new.at = 0
  BY KindsSized DEF Cell, CellSet, Containers
<1> HIDE DEF new
<1>3. <<new>> \in Seq(CellSet) /\ Len(<<new>>) = 1
  BY <1>2
<1>4. /\ Continues(a, c) /\ c.cur = a.cur + 5 /\ Len(c.cells) = Len(a.cells) + 1
      /\ c.cells[Len(a.cells) + 1] = Shift(new, a.cur)
  <2>1. 1 \in DOMAIN <<new>> /\ <<new>>[1] = new
    BY <1>3
  <2>2. /\ Continues(a, c) /\ c.cur = a.cur + 5 /\ Len(c.cells) = Len(a.cells) + Len(<<new>>)
        /\ \A i \in DOMAIN <<new>> : c.cells[Len(a.cells) + i] = Shift(<<new>>[i], a.cur)
    <3> DEFINE cs == <<new>>
    <3>1. cs \in Seq(CellSet) /\ 5 \in Nat
      BY <1>3
    <3> HIDE DEF cs
    <3>2. LET d == Filled(a, cs, 5)
          IN  /\ Continues(a, d) /\ d.cur = a.cur + 5 /\ Len(d.cells) = Len(a.cells) + Len(cs)
              /\ \A i \in DOMAIN cs : d.cells[Len(a.cells) + i] = Shift(cs[i], a.cur)
      BY <3>1, FilledContinues
    <3> QED
      BY <3>2 DEF cs
  <2> HIDE DEF c
  <2> QED
    BY <1>3, <2>1, <2>2
<1> HIDE DEF c
<1>5. Built \in Buffers /\ Continues(Built, c) /\ c \in Buffers
  <2>1. Built \in Buffers
    BY KeyedContinues DEF IInv
  <2>2. c \in Buffers
    BY <1>4 DEF Continues
  <2> QED
    BY <1>4, <2>1, <2>2, ContinuesTrans
<1>6. /\ c.cells \in Seq(CellSet) /\ c.cur \in Nat /\ c.end \in Nat /\ a.cur \in Nat /\ Len(a.cells) \in Nat
      /\ cur \in Nat /\ cur <= a.cur /\ Id = 8
      /\ stack \in Seq(Nat) /\ opened \in Seq(Containers) /\ Len(opened) = Len(stack)
  BY <1>5, BuilderAssumption DEF IInv, BuilderTypes, Buffers, Continues, Built, Id
<1>7. /\ c.cells[Len(a.cells) + 1].at = a.cur
      /\ c.cells[Len(a.cells) + 1].kind = kind
      /\ c.cells[Len(a.cells) + 1].field = NoSize
      /\ Len(a.cells) + 1 \in DOMAIN c.cells
  <2>1. /\ Shift(new, a.cur).kind = kind /\ Shift(new, a.cur).field = NoSize
        /\ Shift(new, a.cur).at = 0 + a.cur
    BY <1>2, <1>6, ShiftCell
  <2>2. Len(a.cells) + 1 \in DOMAIN c.cells
    BY <1>4, <1>6
  <2> QED
    BY <1>4, <1>6, <2>1, <2>2
<1>8. /\ Len(stack') = Len(stack) + 1 /\ stack' \in Seq(Nat)
      /\ stack'[Len(stack) + 1] = a.cur /\ \A i \in DOMAIN stack : stack'[i] = stack[i]
      /\ Len(opened') = Len(stack') /\ opened' \in Seq(Containers)
      /\ opened'[Len(stack) + 1] = kind /\ \A i \in DOMAIN stack : opened'[i] = opened[i]
      /\ DOMAIN stack' = DOMAIN stack \cup {Len(stack) + 1}
      /\ DOMAIN stack = 1 .. Len(stack)
  BY <1>1, <1>6
<1>9. BuilderTypes'
  BY <1>1, <1>6, <1>8 DEF IInv, BuilderTypes
<1>10. StackInv'
  <2>1. \A i \in DOMAIN stack :
          /\ \E j \in DOMAIN cells' : /\ cells'[j].at = stack[i]
                                      /\ cells'[j].kind \in {opened[i], "JUNK"}
                                      /\ cells'[j].field = NoSize
          /\ stack[i] + 5 <= cur'
    BY <1>1, <1>5, StackKept
  <2>2. \A i \in DOMAIN stack' :
          /\ \E j \in DOMAIN cells' : /\ cells'[j].at = stack'[i]
                                      /\ cells'[j].kind \in {opened'[i], "JUNK"}
                                      /\ cells'[j].field = NoSize
          /\ stack'[i] + 5 <= cur'
    <3> SUFFICES ASSUME NEW i \in DOMAIN stack'
                 PROVE  /\ \E j \in DOMAIN cells' : /\ cells'[j].at = stack'[i]
                                                    /\ cells'[j].kind \in {opened'[i], "JUNK"}
                                                    /\ cells'[j].field = NoSize
                        /\ stack'[i] + 5 <= cur'
      OBVIOUS
    <3>1. CASE i \in DOMAIN stack
      BY <1>8, <2>1, <3>1
    <3>2. CASE i = Len(stack) + 1
      BY <1>1, <1>4, <1>6, <1>7, <1>8, <3>2
    <3> QED
      BY <1>8, <3>1, <3>2
  <2>3. \A i \in DOMAIN stack : stack[i] \in Nat /\ stack[i] < a.cur
    BY <1>6 DEF IInv, StackInv
  <2>4. \A i, j \in DOMAIN stack : i < j => stack[i] < stack[j]
    BY DEF IInv, StackInv, StackPoints
  <2>5. \A i, j \in DOMAIN stack' : i < j => stack'[i] < stack'[j]
    <3> SUFFICES ASSUME NEW i \in DOMAIN stack', NEW j \in DOMAIN stack', i < j
                 PROVE  stack'[i] < stack'[j]
      OBVIOUS
    <3>1. i \in DOMAIN stack
      BY <1>6, <1>8
    <3> QED
      BY <1>8, <2>3, <2>4, <3>1
  <2> QED
    BY <2>2, <2>5 DEF StackInv, StackPoints
<1>11. RootInv'
  <2>1. cells' # <<>> /\ stack' # <<>>
    BY <1>1, <1>7, <1>8
  <2>2. stack'[1] = Id /\ Id + 5 <= cur' /\ cells'[1].at = Id /\ cells'[1].kind \in Containers \cup {"JUNK"}
    <3>1. CASE stack = <<>>
      <4>1. cells = <<>> /\ cur = Id /\ key = NoKey
        BY <1>1, <3>1, RootPush
      <4>2. a.cur = Id /\ Len(a.cells) = 0
        BY <4>1, KeyedContinues DEF IInv, Built
      <4>3. stack'[1] = a.cur /\ c.cells[1].at = a.cur /\ c.cells[1].kind = kind
        BY <1>7, <1>8, <3>1, <4>2
      <4> QED
        BY <1>1, <1>4, <1>6, <4>2, <4>3
    <3>2. CASE stack # <<>>
      <4>1. stack[1] = Id /\ Id + 5 <= cur' /\ cells'[1].at = Id /\ cells'[1].kind \in Containers \cup {"JUNK"}
        BY <1>1, <1>5, <3>2, RootKept
      <4>2. 1 \in DOMAIN stack
        BY <1>6, <3>2
      <4> QED
        BY <1>8, <4>1, <4>2
    <3> QED
      BY <3>1, <3>2
  <2>3. Id < cur'
    BY <1>1, <1>6, <2>2
  <2> QED
    BY <2>1, <2>2, <2>3 DEF RootInv
<1> QED
  BY <1>9, <1>10, <1>11 DEF IInv

LEMMA StepObject ==
  ASSUME IInv, NEW key \in KeyLengths \cup {NoKey}, PushObject(key)
  PROVE  IInv'
<1> DEFINE new == Cell("OBJ", NoSize, 5)
           b == Keyed(key)
           a == Assured(b, 5)
<1>1. Continues(Built, b) /\ Built \in Buffers
  BY KeyedContinues DEF IInv
<1>2. b \in Buffers
  BY <1>1 DEF Continues
<1>3. Continues(b, a) /\ a.cur = b.cur /\ Len(a.cells) = Len(b.cells)
  <2>1. own \in BOOLEAN /\ 5 \in Nat
    BY DEF IInv, BuilderTypes
  <2> HIDE DEF b
  <2> QED
    BY <1>2, <2>1, AssuredContinues
<1>4. a \in Buffers /\ Continues(Built, a)
  <2> HIDE DEF a, b
  <2>1. a \in Buffers
    BY <1>3 DEF Continues
  <2> QED
    BY <1>1, <1>2, <1>3, <2>1, ContinuesTrans
<1>5. "OBJ" \in Containers /\ Open("OBJ", key) /\ Becomes(Filled(a, <<new>>, 5))
  BY DEF PushObject, Containers
<1>6. a.cur = Keyed(key).cur /\ Len(a.cells) = Len(Keyed(key).cells)
  BY <1>3
<1> HIDE DEF a, b
<1> QED
  BY <1>4, <1>5, <1>6, OpenKeeps

LEMMA StepArray ==
  ASSUME IInv, NEW key \in KeyLengths \cup {NoKey}, PushArray(key)
  PROVE  IInv'
<1>1. Continues(Built, Keyed(key))
  BY KeyedContinues DEF IInv
<1>2. Keyed(key) \in Buffers
  BY <1>1 DEF Continues
<1> QED
  BY <1>1, <1>2, OpenKeeps DEF PushArray, Containers

(* The sizes written at some of the places on the stack.                   *)
LEMMA ClosedCells ==
  ASSUME IInv, NEW S, \A s \in S : s \in Nat /\ s + 5 <= cur
  PROVE  /\ Closed(S) \in Seq(CellSet) /\ Len(Closed(S)) = Len(cells)
         /\ \A i \in DOMAIN cells :
              /\ Closed(S)[i].kind = cells[i].kind /\ Closed(S)[i].at = cells[i].at
              /\ cells[i].at \in S => Closed(S)[i].field = cur - cells[i].at - 5
              /\ cells[i].at \notin S => Closed(S)[i].field = cells[i].field
<1>1. cells \in Seq(CellSet) /\ cur \in Nat /\ DOMAIN cells = 1 .. Len(cells) /\ Len(cells) \in Nat
  BY DEF IInv, BuilderTypes
<1> DEFINE new(i) == IF cells[i].at \in S
                     THEN [cells[i] EXCEPT !.field = cur - cells[i].at - 5] ELSE cells[i]
<1>2. ASSUME NEW i \in DOMAIN cells
      PROVE  /\ new(i) \in CellSet
             /\ new(i).kind = cells[i].kind /\ new(i).at = cells[i].at
             /\ cells[i].at \in S => new(i).field = cur - cells[i].at - 5
             /\ cells[i].at \notin S => new(i).field = cells[i].field
  <2>1. cells[i] \in CellSet
    BY <1>1
  <2>2. CASE cells[i].at \notin S
    BY <2>1, <2>2
  <2>3. CASE cells[i].at \in S
    <3>1. cells[i].at \in Nat /\ cur - cells[i].at - 5 \in Nat
      BY <1>1, <2>1, <2>3 DEF CellSet
    <3> QED
      BY <2>1, <2>3, <3>1 DEF CellSet
  <2> QED
    BY <2>2, <2>3
<1>3. Closed(S) = [i \in DOMAIN cells |-> new(i)]
  BY DEF Closed
<1> HIDE DEF new
<1>4. Closed(S) \in [1 .. Len(cells) -> CellSet]
  BY <1>1, <1>2, <1>3
<1>5. Closed(S) \in Seq(CellSet) /\ Len(Closed(S)) = Len(cells)
  BY <1>1, <1>4, LenProperties, SeqDef
<1> QED
  BY <1>2, <1>3, <1>5

(* With the size of the root written it is what a reader takes it to be.   *)
LEMMA RootClosed ==
  ASSUME IInv, stack # <<>>, NEW S, \A s \in S : s \in Nat /\ s + 5 <= cur, Id \in S
  PROVE  RootSized(Closed(S), cur) /\ Closed(S) # <<>>
<1>1. /\ cells # <<>> /\ Id + 5 <= cur /\ Id = 8
      /\ cells[1].at = Id /\ cells[1].kind \in Containers \cup {"JUNK"}
  BY DEF IInv, RootInv, Id
<1>2. cells \in Seq(CellSet) /\ 1 \in DOMAIN cells /\ cur \in Nat
  BY <1>1 DEF IInv, BuilderTypes
<1>3. /\ Closed(S)[1].kind = cells[1].kind /\ Closed(S)[1].field = cur - 13
      /\ Closed(S) \in Seq(CellSet) /\ Len(Closed(S)) = Len(cells)
  <2>1. cells[1].at \in S
    BY <1>1
  <2>2. /\ Closed(S)[1].kind = cells[1].kind
        /\ Closed(S)[1].field = cur - cells[1].at - 5
        /\ Closed(S) \in Seq(CellSet) /\ Len(Closed(S)) = Len(cells)
    BY <1>2, <2>1, ClosedCells
  <2> QED
    BY <1>1, <1>2, <2>2
<1>4. 1 \in DOMAIN Closed(S)
  BY <1>2, <1>3
<1>5. ASSUME Closed(S)[1].kind # "JUNK" PROVE BSize(Closed(S)[1]) = cur - 8
  <2>1. Closed(S)[1].kind \in Containers
    BY <1>1, <1>3, <1>5
  <2>2. Overhead[Closed(S)[1].kind] = 5 /\ Closed(S)[1].kind \in Sized
    BY <2>1, KindsSized DEF Containers, Sized
  <2> QED
    BY <1>1, <1>2, <1>3, <2>2 DEF BSize
<1> QED
  BY <1>1, <1>2, <1>4, <1>5 DEF RootSized

(* What is left of a sequence without its last element.                    *)
LEMMA Shortened ==
  ASSUME NEW T, NEW s \in Seq(T), s # <<>>
  PROVE  LET t == SubSeq(s, 1, Len(s) - 1)
         IN  /\ t \in Seq(T) /\ Len(t) = Len(s) - 1
             /\ \A i \in DOMAIN t : i \in DOMAIN s /\ i < Len(s) /\ t[i] = s[i]
<1> DEFINE t == SubSeq(s, 1, Len(s) - 1)
<1>1. Len(s) \in Nat \ {0} /\ DOMAIN s = 1 .. Len(s) /\ \A i \in 1 .. Len(s) - 1 : s[i] \in T
  OBVIOUS
<1>2. /\ t \in Seq(T) /\ Len(t) = Len(s) - 1
      /\ \A i \in 1 .. Len(s) - 1 : t[i] = s[i]
  <2> DEFINE n == Len(s) - 1
  <2>1. n \in Nat /\ 1 \in Int /\ n \in Int /\ \A i \in 1 .. n : s[i] \in T
    BY <1>1
  <2> HIDE DEF n
  <2>2. /\ SubSeq(s, 1, n) \in Seq(T)
        /\ Len(SubSeq(s, 1, n)) = IF 1 <= n THEN n - 1 + 1 ELSE 0
        /\ \A i \in 1 .. n - 1 + 1 : SubSeq(s, 1, n)[i] = s[1 + i - 1]
    BY <2>1, SubSeqProperties
  <2>3. n - 1 + 1 = n /\ (IF 1 <= n THEN n - 1 + 1 ELSE 0) = n
    BY <2>1
  <2>4. \A i \in 1 .. n : 1 + i - 1 = i
    BY <2>1
  <2>5. \A i \in 1 .. n : SubSeq(s, 1, n)[i] = s[i]
    BY <2>2, <2>3, <2>4
  <2> QED
    BY <2>2, <2>3, <2>5 DEF n
<1> HIDE DEF t
<1>3. Len(s) - 1 \in Nat /\ DOMAIN t = 1 .. Len(s) - 1
  BY <1>1, <1>2
<1>4. \A i \in 1 .. Len(s) - 1 : i \in DOMAIN s /\ i < Len(s)
  BY <1>1
<1> QED
  BY <1>2, <1>3, <1>4 DEF t

LEMMA StepPop == ASSUME IInv, Pop PROVE IInv'
<1>1. /\ msg = <<>> /\ stack # <<>> /\ cells' = Closed({Top})
      /\ stack' = SubSeq(stack, 1, Len(stack) - 1)
      /\ opened' = SubSeq(opened, 1, Len(opened) - 1)
      /\ UNCHANGED <<cur, end, own, msg>>
  BY DEF Pop
<1>2. /\ stack \in Seq(Nat) /\ opened \in Seq(Containers) /\ Len(opened) = Len(stack)
      /\ cells \in Seq(CellSet) /\ cur \in Nat /\ end \in Nat /\ own \in BOOLEAN
      /\ Id = 8 /\ Len(stack) \in Nat
  BY BuilderAssumption DEF IInv, BuilderTypes, Id
<1>3. Len(stack) \in DOMAIN stack /\ Top = stack[Len(stack)] /\ 1 \in DOMAIN stack
  BY <1>1, <1>2 DEF Top
<1>4. Top \in Nat /\ Top + 5 <= cur
  BY <1>2, <1>3 DEF IInv, StackInv
<1>5. /\ Closed({Top}) \in Seq(CellSet) /\ Len(Closed({Top})) = Len(cells)
      /\ \A i \in DOMAIN cells :
           /\ Closed({Top})[i].kind = cells[i].kind /\ Closed({Top})[i].at = cells[i].at
           /\ cells[i].at # Top => Closed({Top})[i].field = cells[i].field
  BY <1>4, ClosedCells
<1>6. /\ stack' \in Seq(Nat) /\ opened' \in Seq(Containers)
      /\ Len(stack') = Len(stack) - 1 /\ Len(opened') = Len(stack')
      /\ \A i \in DOMAIN stack' : i \in DOMAIN stack /\ i < Len(stack) /\ stack'[i] = stack[i] /\ opened'[i] = opened[i]
  <2>1. opened # <<>>
    BY <1>1, <1>2
  <2>2. /\ stack' \in Seq(Nat) /\ Len(stack') = Len(stack) - 1
        /\ \A i \in DOMAIN stack' : i \in DOMAIN stack /\ i < Len(stack) /\ stack'[i] = stack[i]
    BY <1>1, <1>2, Shortened
  <2>3. /\ opened' \in Seq(Containers) /\ Len(opened') = Len(opened) - 1
        /\ \A i \in DOMAIN opened' : opened'[i] = opened[i]
    BY <1>1, <1>2, <2>1, Shortened
  <2>4. Len(opened') = Len(stack') /\ DOMAIN opened' = DOMAIN stack'
    BY <1>2, <2>2, <2>3
  <2> QED
    BY <2>2, <2>3, <2>4
<1>7. BuilderTypes'
  BY <1>1, <1>2, <1>5, <1>6 DEF BuilderTypes
<1>8. DOMAIN cells' = DOMAIN cells /\ DOMAIN cells = 1 .. Len(cells)
  BY <1>1, <1>2, <1>5
<1>9. StackInv'
  <2>1. ASSUME NEW i \in DOMAIN stack'
        PROVE  /\ \E j \in DOMAIN cells' : /\ cells'[j].at = stack'[i]
                                           /\ cells'[j].kind \in {opened'[i], "JUNK"}
                                           /\ cells'[j].field = NoSize
               /\ stack'[i] + 5 <= cur'
    <3>1. i \in DOMAIN stack /\ stack'[i] = stack[i] /\ opened'[i] = opened[i] /\ stack[i] < Top /\ stack[i] # Top
      <4>1. i \in DOMAIN stack /\ i < Len(stack) /\ stack'[i] = stack[i] /\ opened'[i] = opened[i]
        BY <1>6
      <4>2. stack[i] < Top
        BY <1>3, <4>1 DEF IInv, StackInv, StackPoints
      <4>3. stack[i] \in Nat
        BY <1>2, <4>1
      <4> QED
        BY <1>4, <4>1, <4>2, <4>3
    <3>2. PICK j \in DOMAIN cells : /\ cells[j].at = stack[i]
                                    /\ cells[j].kind \in {opened[i], "JUNK"}
                                    /\ cells[j].field = NoSize
      BY <3>1 DEF IInv, StackInv, StackPoints
    <3>3. /\ cells'[j].at = stack'[i] /\ cells'[j].kind \in {opened'[i], "JUNK"}
          /\ cells'[j].field = NoSize /\ j \in DOMAIN cells'
      BY <1>1, <1>5, <1>8, <3>1, <3>2
    <3>4. stack[i] + 5 <= cur
      BY <3>1 DEF IInv, StackInv
    <3> QED
      BY <1>1, <3>1, <3>3, <3>4
  <2>2. \A i, j \in DOMAIN stack' : i < j => stack'[i] < stack'[j]
    BY <1>6 DEF IInv, StackInv, StackPoints
  <2> QED
    BY <2>1, <2>2 DEF StackInv, StackPoints
<1>10. RootInv'
  <2>1. /\ cells # <<>> /\ stack[1] = Id /\ Id + 5 <= cur /\ Id < cur
        /\ cells[1].at = Id /\ cells[1].kind \in Containers \cup {"JUNK"}
    BY <1>1 DEF IInv, RootInv
  <2>2. /\ cells' # <<>> /\ 1 \in DOMAIN cells
        /\ cells'[1].at = Id /\ cells'[1].kind \in Containers \cup {"JUNK"}
    <3>1. Len(cells) \in Nat \ {0} /\ 1 \in DOMAIN cells
      BY <1>2, <2>1
    <3>2. cells'[1].at = Id /\ cells'[1].kind \in Containers \cup {"JUNK"}
      BY <1>1, <1>5, <2>1, <3>1
    <3>3. cells' # <<>>
      BY <1>1, <1>5, <3>1
    <3> QED
      BY <3>1, <3>2, <3>3
  <2>3. ASSUME stack' = <<>> PROVE RootSized(cells', cur)
    <3>1. Top = Id
      BY <1>2, <1>3, <1>6, <2>1, <2>3
    <3> QED
      BY <1>1, <1>4, <3>1, RootClosed
  <2>4. ASSUME stack' # <<>> PROVE stack'[1] = Id
    <3>1. 1 \in DOMAIN stack'
      BY <1>6, <2>4
    <3> QED
      BY <1>6, <2>1, <3>1
  <2>5. RootSized(cells', cur') <=> RootSized(cells', cur)
    BY <1>1
  <2> QED
    BY <1>1, <2>1, <2>2, <2>3, <2>4, <2>5 DEF RootInv, RootSized, Exact, BSize
<1> QED
  BY <1>7, <1>9, <1>10 DEF IInv

(* The offsets of all open values.                                         *)
LEMMA AllOpen ==
  ASSUME IInv
  PROVE  LET S == {stack[i] : i \in DOMAIN stack}
         IN  /\ \A s \in S : s \in Nat /\ s + 5 <= cur
             /\ stack # <<>> => Id \in S
<1>1. stack \in Seq(Nat)
  BY DEF IInv, BuilderTypes
<1>2. stack # <<>> => stack[1] = Id /\ 1 \in DOMAIN stack
  BY <1>1 DEF IInv, RootInv
<1> QED
  BY <1>1, <1>2 DEF IInv, StackInv

LEMMA EmptyStack ==
  ASSUME stack' = <<>>
  PROVE  /\ Len(stack') = 0 /\ DOMAIN stack' = {} /\ stack' \in Seq(Nat)
         /\ StackInv'
<1>1. Len(stack') = 0 /\ DOMAIN stack' = {} /\ stack' \in Seq(Nat)
  OBVIOUS
<1> QED
  BY <1>1 DEF StackInv, StackPoints

LEMMA StepFinish == ASSUME IInv, Finish PROVE IInv'
<1> DEFINE S == {stack[i] : i \in DOMAIN stack}
<1>1. /\ msg = <<>> /\ stack # <<>> /\ cells' = Closed(S)
      /\ stack' = <<>> /\ opened' = <<>> /\ UNCHANGED <<cur, end, own, msg>>
  BY DEF Finish, CloseAll
<1>2. (\A s \in S : s \in Nat /\ s + 5 <= cur) /\ Id \in S
  BY <1>1, AllOpen
<1> HIDE DEF S
<1>3. /\ Closed(S) \in Seq(CellSet) /\ Len(Closed(S)) = Len(cells)
      /\ \A i \in DOMAIN cells : Closed(S)[i].at = cells[i].at
      /\ RootSized(Closed(S), cur) /\ Closed(S) # <<>>
  BY <1>1, <1>2, ClosedCells, RootClosed
<1>4. BuilderTypes'
  BY <1>1, <1>3, EmptyStack DEF IInv, BuilderTypes
<1>5. cells # <<>> /\ Id < cur /\ cells[1].at = Id /\ 1 \in DOMAIN cells
  BY <1>1 DEF IInv, RootInv, BuilderTypes
<1>6. RootInv'
  BY <1>1, <1>3, <1>5 DEF RootInv, RootSized, Exact, BSize
<1> QED
  BY <1>1, <1>4, <1>6, EmptyStack DEF IInv

(* The message taken is not empty.                                         *)
LEMMA StepTake == ASSUME IInv, Take PROVE IInv' /\ msg' # <<>>
<1> DEFINE S == {stack[i] : i \in DOMAIN stack}
           done == Closed(S)
           copied == {i \in DOMAIN done : done[i].at < MsgBSize(done)}
<1>1. /\ msg = <<>> /\ cells # <<>>
      /\ msg' = IF own \/ cells[1].kind = "JUNK" THEN done ELSE SubSeq(done, 1, Cardinality(copied))
      /\ stack' = <<>> /\ opened' = <<>> /\ own' = own
      /\ cells' = <<>> /\ cur' = 0 /\ end' = 0
  BY DEF Take, CloseAll
<1>2. (\A s \in S : s \in Nat /\ s + 5 <= cur) /\ (stack # <<>> => Id \in S)
  BY AllOpen
<1>3. stack = <<>> => S = {}
  OBVIOUS
<1> HIDE DEF S
<1>4. /\ cells \in Seq(CellSet) /\ 1 \in DOMAIN cells /\ cells[1].at = Id /\ Id = 8
  BY <1>1 DEF IInv, BuilderTypes, RootInv, Id
<1>5. /\ done \in Seq(CellSet) /\ Len(done) = Len(cells) /\ done # <<>>
      /\ done[1].kind = cells[1].kind /\ done[1].at = 8
  BY <1>2, <1>4, ClosedCells
<1>6. RootSized(done, cur)
  <2>1. CASE stack # <<>>
    BY <1>2, <2>1, RootClosed
  <2>2. CASE stack = <<>>
    <3>1. RootSized(cells, cur)
      BY <1>1, <2>2 DEF IInv, RootInv
    <3>2. done[1].kind = cells[1].kind /\ done[1].field = cells[1].field
      BY <1>2, <1>3, <1>4, <2>2, ClosedCells
    <3> QED
      BY <3>1, <3>2 DEF RootSized, BSize
  <2> QED
    BY <2>1, <2>2
<1> HIDE DEF done
<1>7. msg' # <<>>
  <2>1. CASE own \/ cells[1].kind = "JUNK"
    BY <1>1, <1>5, <2>1
  <2>2. CASE ~(own \/ cells[1].kind = "JUNK")
    <3>1. BSize(done[1]) \in Nat \ {0}
      BY <1>5, <1>6, <2>2 DEF RootSized
    <3>2. 1 \in DOMAIN done /\ done[1].at < MsgBSize(done)
      BY <1>4, <1>5, <3>1 DEF MsgBSize
    <3>3. IsFiniteSet(copied) /\ Cardinality(copied) \in Nat
      <4>1. IsFiniteSet(1 .. Len(done)) /\ copied \subseteq 1 .. Len(done)
        <5>1. Len(done) \in Nat /\ DOMAIN done = 1 .. Len(done)
          BY <1>5
        <5>2. IsFiniteSet(1 .. Len(done))
          BY <5>1, FS_Interval
        <5> QED
          BY <5>1, <5>2
      <4> QED
        BY <4>1, FS_Subset, FS_CardinalityType
    <3>4. Cardinality(copied) # 0
      BY <3>2, <3>3, FS_EmptySet
    <3>5. Cardinality(copied) >= 1
      BY <3>3, <3>4
    <3> HIDE DEF copied
    <3>6. Len(SubSeq(done, 1, Cardinality(copied))) = Cardinality(copied)
      BY <1>5, <3>3, <3>5 
    <3> QED
      BY <1>1, <2>2, <3>4, <3>6
  <2> QED
    BY <2>1, <2>2
<1>8. BuilderTypes'
  BY <1>1, EmptyStack DEF IInv, BuilderTypes
<1>9. RootInv'
  BY <1>1, <1>7 DEF RootInv
<1> QED
  BY <1>1, <1>7, <1>8, <1>9, EmptyStack DEF IInv

LEMMA InitIInv == MessageInit => IInv
<1> SUFFICES ASSUME MessageInit PROVE IInv
  OBVIOUS
<1>1. /\ cells = <<>> /\ cur = Id /\ end = Room /\ own \in Owners /\ stack = <<>>
      /\ msg = <<>> /\ opened = <<>>
  BY DEF MessageInit, Init
<1>2. Room \in Nat /\ Owners \subseteq BOOLEAN /\ Id \in Nat
  BY BuilderAssumption DEF Id
<1>3. BuilderTypes
  BY <1>1, <1>2 DEF BuilderTypes
<1>4. StackInv
  BY <1>1, <1>2 DEF StackInv, StackPoints
<1>5. RootInv
  BY <1>1 DEF RootInv
<1> QED
  BY <1>3, <1>4, <1>5 DEF IInv

(* Every call of the builder, and every step of a reader, keeps the        *)
(* invariant.                                                              *)
LEMMA StepIInv == IInv /\ [MessageNext]_vars => IInv'
<1> SUFFICES ASSUME IInv, [MessageNext]_vars PROVE IInv'
  OBVIOUS
<1>1. CASE Build
  <2>1. ASSUME NEW key \in KeyLengths \cup {NoKey}, NEW leaf \in Leaves, PushLeaf(leaf, key) PROVE IInv'
    BY <2>1, StepLeaf
  <2>2. ASSUME NEW key \in KeyLengths \cup {NoKey}, NEW v \in Values, PushVal(v, key) PROVE IInv'
    BY <2>2, StepVal
  <2>3. ASSUME NEW key \in KeyLengths \cup {NoKey}, PushObject(key) PROVE IInv'
    BY <2>3, StepObject
  <2>4. ASSUME NEW key \in KeyLengths \cup {NoKey}, PushArray(key) PROVE IInv'
    BY <2>4, StepArray
  <2>5. CASE Pop
    BY <2>5, StepPop
  <2>6. CASE Finish
    BY <2>6, StepFinish
  <2>7. CASE Take
    BY <2>7, StepTake
  <2> QED
    BY <1>1, <2>1, <2>2, <2>3, <2>4, <2>5, <2>6, <2>7 DEF Build
<1>2. CASE UNCHANGED builder
  <2>1. UNCHANGED <<cells, cur, end, own, stack, msg, opened>>
    BY <1>2 DEF builder, buffer, history
  <2> QED
    BY <2>1 DEF IInv, BuilderTypes, StackInv, StackPoints, RootInv, RootSized, Exact, BSize
<1>3. Build \/ UNCHANGED builder
  BY DEF MessageNext, vars
<1> QED
  BY <1>1, <1>2, <1>3

(* Every call of builder.c keeps the invariant, and so does every reader.  *)
THEOREM Inductive == Spec => []IInv
<1> QED
  BY InitIInv, StepIInv, PTL DEF Spec

(* The stack of builder.c has the starts of the open values, outermost     *)
(* first, wherever the buffer has moved and whatever was lost by it.       *)
THEOREM StackTrue == Spec => []StackPoints
<1>1. IInv => StackPoints
  BY DEF IInv, StackInv
<1> QED
  BY <1>1, Inductive, PTL

(* A finished message is as long as opo_msg_bsize makes it, when every     *)
(* leaf is.                                                                *)
THEOREM SizeTrue == Exact => (Spec => []SizeAgrees)
<1> SUFFICES ASSUME Exact PROVE Spec => []SizeAgrees
  OBVIOUS
<1>1. IInv => SizeAgrees
  <2> SUFFICES ASSUME IInv, Finished, ~Junk(cells) PROVE MsgBSize(cells) = cur
    BY DEF SizeAgrees
  <2>1. cells # <<>> /\ stack = <<>> /\ 1 \in DOMAIN cells
    BY DEF Finished, IInv, BuilderTypes
  <2>2. cells[1].kind # "JUNK" /\ RootSized(cells, cur)
    BY <2>1 DEF Junk, IInv, RootInv
  <2> QED
    BY <2>2 DEF RootSized, MsgBSize
<1> QED
  BY <1>1, Inductive, PTL
-----------------------------------------------------------------------------
(* Room for everything but the arrays just opened.                         *)
RoomInv == msg = <<>> => cur < end + 5 * Cardinality(JustOpened)

LEMMA JustOpenedFinite ==
  ASSUME cells \in Seq(CellSet)
  PROVE  IsFiniteSet(JustOpened) /\ Cardinality(JustOpened) \in Nat
<1>1. Len(cells) \in Nat /\ JustOpened \subseteq 1 .. Len(cells)
  BY DEF JustOpened
<1>2. IsFiniteSet(1 .. Len(cells))
  BY <1>1, FS_Interval
<1>3. IsFiniteSet(JustOpened)
  BY <1>1, <1>2, FS_Subset
<1> QED
  BY <1>3, FS_CardinalityType

(* A key is put where there is room for it, and the next call that asks    *)
(* for room gets it.                                                       *)
LEMMA KeyedRoom ==
  ASSUME ShortRuns, IInv, RoomInv, msg = <<>>, NEW key \in KeyLengths \cup {NoKey}
  PROVE  LET b == Keyed(key)
         IN  /\ b \in Buffers
             /\ b.cur < b.end + Increment
             /\ key # NoKey => b.cur < b.end
<1> DEFINE b == Keyed(key)
           a == Assured(Built, key + 4)
<1>1. /\ Built \in Buffers /\ (key = NoKey => b = Built) /\ Continues(Built, b)
      /\ Built.cur = cur /\ Built.end = end
  BY KeyedContinues DEF IInv, Built
<1>2. b \in Buffers
  BY <1>1 DEF Continues
<1>3. cur < end + Increment
  <2>1. /\ cells \in Seq(CellSet) /\ cur \in Nat /\ end \in Nat
        /\ Increment \in Nat
    BY BuilderAssumption DEF IInv, BuilderTypes
  <2>2. Cardinality(JustOpened) \in Nat
    BY <2>1, JustOpenedFinite
  <2>3. cur < end + 5 * Cardinality(JustOpened) /\ 5 * Cardinality(JustOpened) <= Increment
    BY DEF RoomInv, ShortRuns
  <2> QED
    BY <2>1, <2>2, <2>3
<1>4. ASSUME key # NoKey PROVE b.cur < b.end
  <2>1. KeyLengths \subseteq Nat
    BY BuilderAssumption
  <2>2. key \in Nat /\ key + 4 \in Nat
    BY <1>4, <2>1
  <2>3. KeyCell(key) \in CellSet /\ KeyCell(key).bytes \in Nat /\ KeyCell(key).bytes <= key + 4
    BY <2>2, KeyWritten
  <2>4. Continues(Built, a) /\ a.cur = cur /\ cur + (key + 4) < a.end
    BY <1>1, <1>3, <2>2, AssuredContinues DEF IInv, BuilderTypes
  <2>5. a \in Buffers /\ <<KeyCell(key)>> \in Seq(CellSet)
    BY <2>3, <2>4 DEF Continues
  <2>6. b = Filled(a, <<KeyCell(key)>>, KeyCell(key).bytes)
    BY <1>4 DEF Keyed, Built
  <2> HIDE DEF a, b
  <2>7. b.cur = a.cur + KeyCell(key).bytes /\ b.end = a.end
    BY <2>3, <2>5, <2>6, FilledContinues
  <2>8. cur \in Nat /\ a.end \in Nat
    BY <2>5 DEF IInv, BuilderTypes, Buffers
  <2> QED
    BY <2>2, <2>3, <2>4, <2>7, <2>8
<1>5. b.cur < b.end + Increment
  <2>1. b.cur \in Nat /\ b.end \in Nat /\ Increment \in Nat
    BY <1>2, BuilderAssumption DEF Buffers
  <2>2. CASE key = NoKey
    BY <1>1, <1>3, <2>2
  <2>3. CASE key # NoKey
    BY <1>4, <2>1, <2>3
  <2> QED
    BY <2>2, <2>3
<1> QED
  BY <1>2, <1>4, <1>5

(* With room made for what is then written the end is not reached.         *)
LEMMA PushRoom ==
  ASSUME ShortRuns, IInv, RoomInv, msg = <<>>, NEW key \in KeyLengths \cup {NoKey},
         NEW cs \in Seq(CellSet), NEW need \in Nat, NEW size \in Nat, size <= need,
         Becomes(Filled(Assured(Keyed(key), need), cs, size)), IInv'
  PROVE  RoomInv'
<1> DEFINE b == Keyed(key)
           a == Assured(b, need)
           c == Filled(a, cs, size)
<1>1. b \in Buffers /\ b.cur < b.end + Increment
  BY KeyedRoom
<1> HIDE DEF b
<1>2. Continues(b, a) /\ a.cur = b.cur /\ b.cur + need < a.end
  BY <1>1, AssuredContinues DEF IInv, BuilderTypes
<1>3. a \in Buffers
  BY <1>2 DEF Continues
<1> HIDE DEF a
<1>4. c.cur = a.cur + size /\ c.end = a.end
  BY <1>3, FilledContinues
<1>5. cells' = c.cells /\ cur' = c.cur /\ end' = c.end /\ Len(c.cells) <= MaxCells
  BY DEF Becomes, a, b
<1> HIDE DEF c
<1>6. a.cur \in Nat /\ a.end \in Nat /\ b.cur \in Nat
  BY <1>1, <1>3 DEF Buffers
<1>7. cur' < end'
  BY <1>2, <1>4, <1>5, <1>6
<1>8. cur' \in Nat /\ end' \in Nat /\ cells' \in Seq(CellSet)
  BY DEF IInv, BuilderTypes
<1>9. Cardinality(JustOpened)' \in Nat
  <2>1. (cells \in Seq(CellSet))' => (Cardinality(JustOpened) \in Nat)'
    BY JustOpenedFinite, PTL
  <2> QED
    BY <1>8, <2>1
<1> QED
  BY <1>5, <1>7, <1>8, <1>9 DEF RoomInv

(* An array takes its five bytes and joins those just opened.              *)
LEMMA ArrayRoom ==
  ASSUME ShortRuns, IInv, RoomInv, msg = <<>>, NEW key \in KeyLengths \cup {NoKey},
         PushArray(key), IInv'
  PROVE  RoomInv'
<1> DEFINE new == Cell("ARRAY", NoSize, 5)
           b == Keyed(key)
           c == Filled(b, <<new>>, 5)
<1>1. b \in Buffers /\ (key # NoKey => b.cur < b.end) /\ (key = NoKey => b = Built)
  BY KeyedRoom, KeyedContinues DEF IInv
<1>2. cells' = c.cells /\ cur' = c.cur /\ end' = c.end /\ Len(c.cells) <= MaxCells
  BY DEF PushArray, Becomes
<1> HIDE DEF b
<1>3. new \in CellSet /\ new.kind = "ARRAY"
  BY KindsSized DEF Cell, CellSet
<1> HIDE DEF new
<1>4. /\ c.cur = b.cur + 5 /\ c.end = b.end /\ Len(c.cells) = Len(b.cells) + 1
      /\ \A i \in DOMAIN b.cells : c.cells[i] = b.cells[i]
      /\ c.cells[Len(b.cells) + 1] = Shift(new, b.cur)
  <2> DEFINE cs == <<new>>
  <2>1. cs \in Seq(CellSet) /\ 5 \in Nat /\ Len(cs) = 1 /\ 1 \in DOMAIN cs /\ cs[1] = new
    BY <1>3
  <2> HIDE DEF cs
  <2>2. LET d == Filled(b, cs, 5)
        IN  /\ d.cur = b.cur + 5 /\ d.end = b.end /\ Len(d.cells) = Len(b.cells) + Len(cs)
            /\ \A i \in DOMAIN b.cells : d.cells[i] = b.cells[i]
            /\ \A i \in DOMAIN cs : d.cells[Len(b.cells) + i] = Shift(cs[i], b.cur)
    BY <1>1, <2>1, FilledContinues
  <2>3. c = Filled(b, cs, 5)
    BY DEF cs
  <2> HIDE DEF c
  <2> QED
    BY <2>1, <2>2, <2>3
<1> HIDE DEF c
<1>5. /\ b.cur \in Nat /\ b.end \in Nat /\ b.cells \in Seq(CellSet) /\ Len(b.cells) \in Nat
      /\ DOMAIN b.cells = 1 .. Len(b.cells)
  BY <1>1 DEF Buffers
<1>6. cells' \in Seq(CellSet) /\ Len(cells') = Len(b.cells) + 1
      /\ cells'[Len(b.cells) + 1].kind = "ARRAY"
  <2>1. cells' \in Seq(CellSet)
    BY DEF IInv, BuilderTypes
  <2>2. Shift(new, b.cur).kind = "ARRAY"
    BY <1>3, <1>5, ShiftCell
  <2> QED
    BY <1>2, <1>4, <2>1, <2>2
<1>7. JustOpened' = {i \in DOMAIN cells' : \A j \in i .. Len(cells') : cells'[j].kind = "ARRAY"}
  BY DEF JustOpened
<1>8. IsFiniteSet(JustOpened') /\ Cardinality(JustOpened') \in Nat
  <2>1. (cells \in Seq(CellSet))' => (IsFiniteSet(JustOpened) /\ Cardinality(JustOpened) \in Nat)'
    BY JustOpenedFinite, PTL
  <2> QED
    BY <1>6, <2>1
<1>9. Len(b.cells) + 1 \in JustOpened'
  BY <1>5, <1>6, <1>7
<1>10. CASE key # NoKey
  <2>1. Cardinality(JustOpened') # 0
    BY <1>8, <1>9, FS_EmptySet
  <2>2. cur' < end' + 5 * Cardinality(JustOpened')
    BY <1>1, <1>2, <1>4, <1>5, <1>8, <1>10, <2>1
  <2> QED
    BY <1>2, <2>2 DEF RoomInv
<1>11. CASE key = NoKey
  <2>1. b.cells = cells /\ b.cur = cur /\ b.end = end /\ cells \in Seq(CellSet)
    BY <1>1, <1>11 DEF Built, IInv, BuilderTypes
  <2>2. IsFiniteSet(JustOpened) /\ Cardinality(JustOpened) \in Nat
    BY <2>1, JustOpenedFinite
  <2>3. Len(cells) + 1 \notin JustOpened
    BY <1>5, <2>1 DEF JustOpened
  <2>4. \A i \in JustOpened : i \in 1 .. Len(cells) /\ \A j \in i .. Len(cells) : cells[j].kind = "ARRAY"
    BY <2>1 DEF JustOpened
  <2>5. JustOpened \cup {Len(cells) + 1} \subseteq JustOpened'
    <3> SUFFICES ASSUME NEW i \in JustOpened PROVE i \in JustOpened'
      BY <1>9, <2>1
    <3>1. i \in 1 .. Len(cells) /\ i \in DOMAIN cells'
      BY <1>5, <1>6, <2>1, <2>4
    <3>2. ASSUME NEW j \in i .. Len(cells') PROVE cells'[j].kind = "ARRAY"
      <4>1. CASE j = Len(cells) + 1
        BY <1>6, <2>1, <4>1
      <4>2. CASE j # Len(cells) + 1
        <5>1. j \in i .. Len(cells) /\ j \in DOMAIN b.cells
          BY <1>5, <1>6, <2>1, <3>1, <4>2
        <5> QED
          BY <1>2, <1>4, <2>1, <2>4, <5>1
      <4> QED
        BY <4>1, <4>2
    <3> QED
      BY <1>7, <3>1, <3>2
  <2>6. Cardinality(JustOpened \cup {Len(cells) + 1}) = Cardinality(JustOpened) + 1
    BY <2>2, <2>3, FS_AddElement
  <2>7. Cardinality(JustOpened) + 1 <= Cardinality(JustOpened')
    BY <1>8, <2>5, <2>6, FS_Subset
  <2>8. cur < end + 5 * Cardinality(JustOpened)
    BY DEF RoomInv
  <2>9. cur' < end' + 5 * Cardinality(JustOpened')
    BY <1>2, <1>4, <1>5, <1>8, <2>1, <2>2, <2>7, <2>8
  <2> QED
    BY <1>2, <2>9 DEF RoomInv
<1> QED
  BY <1>10, <1>11

(* Sizes written change no kind.                                           *)
LEMMA ClosedRoom ==
  ASSUME IInv, RoomInv, msg = <<>>, NEW S, \A s \in S : s \in Nat /\ s + 5 <= cur,
         cells' = Closed(S), UNCHANGED <<cur, end, msg>>
  PROVE  RoomInv'
<1>1. /\ Closed(S) \in Seq(CellSet) /\ Len(Closed(S)) = Len(cells)
      /\ \A i \in DOMAIN cells : Closed(S)[i].kind = cells[i].kind
  BY ClosedCells
<1>2. cells \in Seq(CellSet) /\ DOMAIN cells = 1 .. Len(cells) /\ DOMAIN cells' = DOMAIN cells
  BY <1>1 DEF IInv, BuilderTypes
<1>3. JustOpened' = JustOpened
  <2>1. \A i \in DOMAIN cells : \A j \in i .. Len(cells) : j \in DOMAIN cells
    BY <1>2
  <2>2. JustOpened' = {i \in DOMAIN cells' : \A j \in i .. Len(cells') : cells'[j].kind = "ARRAY"}
    BY DEF JustOpened
  <2> QED
    BY <1>1, <1>2, <2>1, <2>2 DEF JustOpened
<1> QED
  BY <1>1, <1>3 DEF RoomInv

LEMMA RoomStep ==
  ASSUME Exact, ShortRuns, IInv, RoomInv, [MessageNext]_vars, IInv'
  PROVE  RoomInv'
<1>1. ASSUME NEW key \in KeyLengths \cup {NoKey}, NEW leaf \in Leaves, PushLeaf(leaf, key) PROVE RoomInv'
  <2>1. leaf \in Pushable /\ leaf.bytes = BSize(leaf)
    BY BuilderAssumption DEF Exact
  <2>2. leaf \in CellSet /\ leaf.kind \in Kinds /\ leaf.field \in Nat /\ leaf.bytes \in Nat
    BY <2>1, Pushed
  <2>3. Need(leaf) \in Nat /\ leaf.bytes <= Need(leaf)
    <3>1. Overhead["STR1"] = 3 /\ Overhead["STR2"] = 4 /\ Overhead["STR4"] = 6
      BY DEF Overhead
    <3>2. CASE leaf.kind \in {"STR1", "STR2", "STR4"}
      <4>1. BSize(leaf) = Overhead[leaf.kind] + leaf.field /\ Need(leaf) = leaf.field + 6
        BY <3>2 DEF BSize, Need, Sized
      <4> QED
        BY <2>1, <2>2, <3>1, <3>2, <4>1
    <3>3. CASE leaf.kind \notin {"STR1", "STR2", "STR4"}
      BY <2>1, <2>2, <3>3 DEF Need
    <3> QED
      BY <3>2, <3>3
  <2>4. <<leaf>> \in Seq(CellSet)
    BY <2>2
  <2>5. msg = <<>> /\ Becomes(Filled(Assured(Keyed(key), Need(leaf)), <<leaf>>, leaf.bytes))
    BY <1>1 DEF PushLeaf
  <2> QED
    BY <2>2, <2>3, <2>4, <2>5, PushRoom
<1>2. ASSUME NEW key \in KeyLengths \cup {NoKey}, NEW v \in Values, PushVal(v, key) PROVE RoomInv'
  <2>1. v.cells \in Seq(Pushable) /\ v.cells # <<>>
    BY BuilderAssumption
  <2>2. Pushable \subseteq CellSet
    BY Pushed
  <2>3. v.cells \in Seq(CellSet) /\ v.cells[1] \in Pushable
    BY <2>1, <2>2
  <2>4. BSize(v.cells[1]) \in Nat
    BY <2>3, Pushed, SizeOfCell
  <2>5. msg = <<>> /\ Becomes(Filled(Assured(Keyed(key), BSize(v.cells[1])), v.cells, BSize(v.cells[1])))
    BY <1>2 DEF PushVal
  <2> QED
    BY <2>3, <2>4, <2>5, PushRoom
<1>3. ASSUME NEW key \in KeyLengths \cup {NoKey}, PushObject(key) PROVE RoomInv'
  <2>1. Cell("OBJ", NoSize, 5) \in CellSet
    BY KindsSized DEF Cell, CellSet
  <2>2. <<Cell("OBJ", NoSize, 5)>> \in Seq(CellSet) /\ 5 \in Nat /\ 5 <= 5
    BY <2>1
  <2>3. msg = <<>> /\ Becomes(Filled(Assured(Keyed(key), 5), <<Cell("OBJ", NoSize, 5)>>, 5))
    BY <1>3 DEF PushObject, Open
  <2> QED
    BY <2>2, <2>3, PushRoom
<1>4. ASSUME NEW key \in KeyLengths \cup {NoKey}, PushArray(key) PROVE RoomInv'
  BY <1>4, ArrayRoom DEF PushArray, Open
<1>5. CASE Pop
  <2>1. stack # <<>> /\ msg = <<>> /\ cells' = Closed({Top}) /\ UNCHANGED <<cur, end, msg>>
    BY <1>5 DEF Pop
  <2>2. Len(stack) \in DOMAIN stack /\ stack \in Seq(Nat)
    BY <2>1 DEF IInv, BuilderTypes
  <2>3. \A s \in {Top} : s \in Nat /\ s + 5 <= cur
    BY <2>2 DEF Top, IInv, StackInv
  <2> QED
    BY <2>1, <2>3, ClosedRoom
<1>6. CASE Finish
  BY <1>6, AllOpen, ClosedRoom DEF Finish
<1>7. CASE Take
  <2>1. cells' = <<>> /\ msg' # <<>>
    BY <1>7, StepTake DEF Take
  <2> QED
    BY <2>1 DEF RoomInv
<1>8. CASE UNCHANGED builder
  <2>1. UNCHANGED <<cells, cur, end, msg>>
    BY <1>8 DEF builder, buffer
  <2> QED
    BY <2>1 DEF RoomInv, JustOpened
<1> QED
  BY <1>1, <1>2, <1>3, <1>4, <1>5, <1>6, <1>7, <1>8 DEF MessageNext, Build, vars

(* The message never leaves its buffer but by the five bytes of each array *)
(* just opened, while no more arrays are opened one after the other than   *)
(* MSG_INC has room for.  However long the message is otherwise.           *)
THEOREM RoomTrue == Exact => (Spec /\ []ShortRuns => []WithinBuffer)
<1> SUFFICES ASSUME Exact PROVE Spec /\ []ShortRuns => []WithinBuffer
  OBVIOUS
<1>1. MessageInit => IInv /\ RoomInv
  <2> SUFFICES ASSUME MessageInit PROVE RoomInv
    BY InitIInv
  <2>1. cells = <<>> /\ cur = 8 /\ end = Room /\ 8 < Room /\ Room \in Nat
    BY BuilderAssumption DEF MessageInit, Init, Id
  <2>2. JustOpened = {}
    BY <2>1 DEF JustOpened
  <2>3. Cardinality(JustOpened) = 0
    BY <2>2, FS_EmptySet
  <2> QED
    BY <2>1, <2>3 DEF RoomInv
<1>2. ShortRuns /\ IInv /\ RoomInv /\ [MessageNext]_vars => IInv' /\ RoomInv'
  BY StepIInv, RoomStep
<1>3. IInv /\ RoomInv => WithinBuffer
  BY DEF IInv, BuilderTypes, RoomInv, WithinBuffer
<1> QED
  BY <1>1, <1>2, <1>3, PTL DEF Spec
=============================================================================
