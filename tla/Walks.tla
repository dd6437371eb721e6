-------------------------------- MODULE Walks --------------------------------
(***************************************************************************)
(* What it is to be an encoded value, and to be one as far as it is        *)
(* written: that a reader can walk through it, callback by callback.  A    *)
(* place of the walk has the cell the callback is about, whether it tells  *)
(* the cell's end, where the reader is after it and which objects and      *)
(* arrays it is then in.                                                   *)
(***************************************************************************)
EXTENDS Wire

Place(cs) == [cell : Nat, ends : BOOLEAN, pos : Nat, open : Seq(DOMAIN cs)]
Names == {Callback(k) : k \in Kinds \ Containers}
         \cup {Begins(k) : k \in Containers} \cup {Ends(k) : k \in Containers}
Over(c) == c.at + BSize(c)

Passes(c, name, a, b) == /\ ~b.ends /\ c.kind \notin Containers /\ c.field # NoSize
                         /\ name = Callback(c.kind)
                         /\ c.at = a.pos /\ b.pos = Over(c)
                         /\ b.open = a.open

Enters(c, name, a, b) == /\ ~b.ends /\ c.kind \in Containers
                         /\ name = Begins(c.kind)
                         /\ c.at = a.pos /\ b.pos = a.pos + 5
                         /\ b.open = Append(a.open, b.cell)

Exits(c, name, a, b) == /\ b.ends /\ c.kind \in Containers /\ c.field # NoSize
                        /\ name = Ends(c.kind)
                        /\ a.pos = Over(c) /\ b.pos = a.pos
                        /\ a.open # <<>> /\ a.open[Len(a.open)] = b.cell
                        /\ b.open = SubSeq(a.open, 1, Len(a.open) - 1)

(* From one place to the next, never into what is behind a container that  *)
(* has its size and has not been left.                                     *)
Walked(cs, name, a, b) ==
    /\ b.cell \in DOMAIN cs
    /\ \/ Passes(cs[b.cell], name, a, b)
       \/ Enters(cs[b.cell], name, a, b)
       \/ Exits(cs[b.cell], name, a, b)
    /\ ~b.ends => \A d \in DOMAIN a.open : cs[a.open[d]].field # NoSize => a.pos < Over(cs[a.open[d]])

(* A walk that makes the callbacks called and is in one value all the way. *)
Steps(cs, called, r) ==
    /\ r \in [0 .. Len(called) -> Place(cs)]
    /\ r[0].open = <<>>
    /\ \A n \in 1 .. Len(called) : Walked(cs, called[n], r[n - 1], r[n])
    /\ \A n \in 1 .. Len(called) - 1 : r[n].open # <<>>

(* No two cells at one place, and none outside the bytes walked through.   *)
Laid(cs, from, to) ==
    /\ \A i, j \in DOMAIN cs : i < j => cs[i].at < cs[j].at
    /\ \A i \in DOMAIN cs : from <= cs[i].at /\ cs[i].at < to

Walk(cs, called, r) == /\ Steps(cs, called, r)
                       /\ Laid(cs, r[0].pos, r[Len(called)].pos)

(* A leaf, a key or a whole object or array, and the callbacks it makes.   *)
EncodedBy(v, r) == /\ v.calls \in Seq(Names)
                   /\ Walk(v.cells, v.calls, r)
                   /\ r[0].pos = 0
                   /\ r[Len(v.calls)].open = <<>>
                   /\ r[Len(v.calls)].pos = BSize(v.cells[1])
-----------------------------------------------------------------------------
(* How cells are in each other, without a walk.                            *)
IsKey(c) == c.kind \in {"KEY1", "KEY2"}
Opening(c) == IF c.kind \in Containers THEN 5 ELSE BSize(c)

(* What begins behind a container without a size is in it.                 *)
In(d, c) == /\ c.kind \in Containers /\ c.at < d.at
            /\ c.field # NoSize => d.at < Over(c)

(* Cell i is in j and in no other that is in j.                            *)
Parent(cs, i, j) == In(cs[i], cs[j]) /\ \A k \in DOMAIN cs : In(cs[i], cs[k]) => k <= j

(* One value, or as far as it is written: cells one behind the other, all  *)
(* in the first; what begins in a container ends in it, a key never as     *)
(* the last; behind a key a value, and a value in an object behind a key.  *)
Nested(cs, to) ==
    /\ \A i \in DOMAIN cs : /\ cs[i].at + Opening(cs[i]) = IF i = Len(cs) THEN to ELSE cs[i + 1].at
                            /\ i = 1 \/ In(cs[i], cs[1])
                            /\ cs[i].field # NoSize => Over(cs[i]) <= to
    /\ \A i, j \in DOMAIN cs :
          cs[j].field # NoSize /\ In(cs[i], cs[j]) =>
             /\ cs[i].field # NoSize
             /\ IF IsKey(cs[i]) THEN Over(cs[i]) < Over(cs[j]) ELSE Over(cs[i]) <= Over(cs[j])
    /\ \A i, j \in DOMAIN cs :
          /\ IsKey(cs[i]) /\ j = i + 1 => ~IsKey(cs[j])
          /\ ~IsKey(cs[i]) /\ Parent(cs, i, j) => (cs[j].kind = "OBJ" <=> IsKey(cs[i - 1]))

(* What opo_builder_push_val is given: a whole value, and no key.          *)
OneValue(v) == Nested(v.cells, BSize(v.cells[1])) /\ ~IsKey(v.cells[1])
=============================================================================
