--------------------------- MODULE MessageProofs ---------------------------
(***************************************************************************)
(* Proofs about Message: what opo_val_iterate makes of what the calls of   *)
(* builder.c wrote, for every message, every set of callbacks and every    *)
(* answer they give.                                                       *)
(*                                                                         *)
(* The invariant says that there is a walk (module Walks) through what is  *)
(* built so far that makes the callbacks of what was pushed, and that a    *)
(* reader of the message is at a place of that walk.  First what walks     *)
(* are: they go on by one callback, into a copied value, and to the end of *)
(* one whose size is written.  Then that every call of builder.c keeps a   *)
(* walk, and then that every step of a reader goes on by one place of it.  *)
(*                                                                         *)
(* The second half is about the readers that find their way by sizes: the  *)
(* cells of a message are nested in one another as a tree (Nested), which  *)
(* every call of builder.c keeps as far as it is written.  In a tree what  *)
(* opo_val_member_count and opo_val_get stride over are the members, one   *)
(* after the other, so the first counts them all and the second finds the  *)
(* one a path asks for.                                                    *)
(***************************************************************************)
EXTENDS BuilderProofs, Walks, Induction
-----------------------------------------------------------------------------
(* Cells that no buffer lost.                                              *)
Intact == [kind : Kinds, field : Nat \cup {NoSize}, bytes : Nat, at : Nat]
-----------------------------------------------------------------------------
(* What a place of a walk is.                                              *)
LEMMA PlaceTyped ==
  ASSUME NEW cs \in Seq(Intact), NEW called, Len(called) \in Nat, NEW r, Walk(cs, called, r),
         NEW n \in 0 .. Len(called)
  PROVE  /\ r[n] \in Place(cs)
         /\ r[n].cell \in Nat /\ r[n].ends \in BOOLEAN /\ r[n].pos \in Nat
         /\ r[n].open \in Seq(DOMAIN cs) /\ Len(r[n].open) \in Nat
         /\ DOMAIN r[n].open = 1 .. Len(r[n].open)
         /\ \A d \in DOMAIN r[n].open : r[n].open[d] \in DOMAIN cs /\ cs[r[n].open[d]] \in Intact
<1>1. r[n] \in Place(cs)
  BY DEF Walk, Steps
<1>2. r[n].cell \in Nat /\ r[n].ends \in BOOLEAN /\ r[n].pos \in Nat /\ r[n].open \in Seq(DOMAIN cs)
  BY <1>1 DEF Place
<1> DEFINE o == r[n].open
<1>3. o \in Seq(DOMAIN cs)
  BY <1>2
<1> HIDE DEF o
<1>4. Len(o) \in Nat /\ DOMAIN o = 1 .. Len(o) /\ \A d \in DOMAIN o : o[d] \in DOMAIN cs
  BY <1>3
<1>5. \A d \in DOMAIN o : cs[o[d]] \in Intact
  BY <1>4
<1> QED
  BY <1>1, <1>2, <1>4, <1>5 DEF o

(* A cell with its size ends behind where it begins.                       *)
LEMMA IntactSize ==
  ASSUME NEW c \in Intact
  PROVE  /\ c.kind \in Kinds /\ c.field \in Nat \cup {NoSize} /\ c.at \in Nat
         /\ c.kind \in Containers => BSize(c) = 5 + c.field
         /\ c.field # NoSize => c.field \in Nat /\ BSize(c) \in Nat \ {0} /\ Over(c) \in Nat /\ c.at < Over(c)
<1>1. c.kind \in Kinds /\ c.field \in Nat \cup {NoSize} /\ c.at \in Nat
  BY DEF Intact
<1>2. c.kind \in Containers => BSize(c) = 5 + c.field
  BY KindsSized DEF BSize, Containers, Sized
<1>3. ASSUME c.field # NoSize
      PROVE  c.field \in Nat /\ BSize(c) \in Nat \ {0} /\ Over(c) \in Nat /\ c.at < Over(c)
  <2>1. c.field \in Nat
    BY <1>1, <1>3
  <2>2. BSize(c) \in Nat \ {0}
    BY <1>1, <2>1, SizeOfCell
  <2> QED
    BY <1>1, <2>1, <2>2 DEF Over
<1> QED
  BY <1>1, <1>2, <1>3

(* Every callback but that of an end takes the reader on, and none takes   *)
(* it back.                                                                *)
LEMMA WalkOn ==
  ASSUME NEW cs \in Seq(Intact), NEW called, Len(called) \in Nat, NEW r, Walk(cs, called, r),
         NEW n \in 1 .. Len(called)
  PROVE  /\ n - 1 \in 0 .. Len(called) /\ n \in 0 .. Len(called)
         /\ r[n].cell \in DOMAIN cs /\ cs[r[n].cell] \in Intact
         /\ Walked(cs, called[n], r[n - 1], r[n])
         /\ r[n - 1].pos <= r[n].pos
         /\ ~r[n].ends => r[n - 1].pos < r[n].pos
<1>1. n - 1 \in 0 .. Len(called) /\ n \in 0 .. Len(called)
  OBVIOUS
<1>2. r[n - 1].pos \in Nat /\ r[n].pos \in Nat
  BY <1>1, PlaceTyped
<1>3. Walked(cs, called[n], r[n - 1], r[n])
  BY DEF Walk, Steps
<1>4. r[n].cell \in DOMAIN cs
  BY <1>3 DEF Walked
<1>5. cs[r[n].cell] \in Intact
  BY <1>4
<1> DEFINE c == cs[r[n].cell]
<1>6. r[n - 1].pos <= r[n].pos /\ (~r[n].ends => r[n - 1].pos < r[n].pos)
  <2>1. CASE Passes(c, called[n], r[n - 1], r[n])
    <3>1. c.at < Over(c) /\ Over(c) \in Nat
      BY <1>5, <2>1, IntactSize DEF Passes
    <3>2. c.at = r[n - 1].pos /\ r[n].pos = Over(c)
      BY <2>1 DEF Passes
    <3> QED
      BY <1>2, <3>1, <3>2
  <2>2. CASE Enters(c, called[n], r[n - 1], r[n])
    BY <1>2, <2>2 DEF Enters
  <2>3. CASE Exits(c, called[n], r[n - 1], r[n])
    BY <1>2, <2>3 DEF Exits
  <2> QED
    BY <1>3, <2>1, <2>2, <2>3 DEF Walked
<1> QED
  BY <1>1, <1>3, <1>4, <1>5, <1>6

(* No place of a walk is behind its last.                                  *)
LEMMA WalkForward ==
  ASSUME NEW cs \in Seq(Intact), NEW called, Len(called) \in Nat, NEW r, Walk(cs, called, r),
         NEW n \in 0 .. Len(called)
  PROVE  r[n].pos <= r[Len(called)].pos
<1> DEFINE N == Len(called)
           S == {m \in Nat : n <= m /\ m <= N => r[n].pos <= r[m].pos}
<1>1. N \in Nat /\ n \in Nat /\ r[n].pos \in Nat
  BY PlaceTyped
<1>2. 0 \in S
  <2>1. n <= 0 => n = 0
    BY <1>1
  <2> QED
    BY <1>1, <2>1
<1>3. ASSUME NEW m \in Nat, m \in S PROVE m + 1 \in S
  <2> SUFFICES ASSUME n <= m + 1, m + 1 <= N PROVE r[n].pos <= r[m + 1].pos
    OBVIOUS
  <2>1. CASE n = m + 1
    BY <1>1, <2>1
  <2>2. CASE n <= m
    <3>1. m + 1 \in 1 .. N /\ (m + 1) - 1 = m /\ m \in 0 .. N /\ m + 1 \in 0 .. N
      BY <1>1
    <3>2. r[m].pos <= r[m + 1].pos
      BY <3>1, WalkOn
    <3>3. r[m].pos \in Nat /\ r[m + 1].pos \in Nat
      BY <3>1, PlaceTyped
    <3>4. r[n].pos <= r[m].pos
      BY <1>1, <1>3, <2>2, <3>1
    <3> QED
      BY <1>1, <3>2, <3>3, <3>4
  <2> QED
    BY <1>1, <2>1, <2>2
<1> HIDE DEF S
<1>4. Nat \subseteq S
  BY <1>2, <1>3, SetInduction
<1> QED
  BY <1>1, <1>4 DEF S

(* One callback more.                                                      *)
Longer(r, n, b) == [m \in 0 .. n + 1 |-> IF m <= n THEN r[m] ELSE b]

(* A walk that is in a value still goes on by one callback.                *)
LEMMA StepMore ==
  ASSUME NEW cs, NEW X, NEW called \in Seq(X), NEW name \in X, NEW r, Steps(cs, called, r),
         Len(called) = 0 \/ r[Len(called)].open # <<>>,
         NEW b \in Place(cs), Walked(cs, name, r[Len(called)], b)
  PROVE  LET q == Longer(r, Len(called), b)
         IN  /\ Steps(cs, Append(called, name), q)
             /\ Len(Append(called, name)) = Len(called) + 1
             /\ q[0] = r[0] /\ q[Len(called) + 1] = b
<1> DEFINE N == Len(called)
           longer == Append(called, name)
           q == Longer(r, N, b)
<1>1. N \in Nat /\ Len(longer) = N + 1 /\ longer[N + 1] = name /\ \A n \in 1 .. N : longer[n] = called[n]
  OBVIOUS
<1>2. r \in [0 .. N -> Place(cs)]
  BY DEF Steps
<1>3. /\ q \in [0 .. N + 1 -> Place(cs)]
      /\ \A n \in 0 .. N : q[n] = r[n]
      /\ q[N + 1] = b /\ q[0] = r[0]
  <2>1. \A n \in 0 .. N + 1 : n <= N => n \in 0 .. N
    BY <1>1
  <2>2. ~(N + 1 <= N) /\ N + 1 \in 0 .. N + 1 /\ 0 \in 0 .. N /\ \A n \in 0 .. N : n \in 0 .. N + 1 /\ n <= N
    BY <1>1
  <2>3. q = [m \in 0 .. N + 1 |-> IF m <= N THEN r[m] ELSE b]
    BY DEF Longer
  <2> HIDE DEF q, N
  <2>4. q \in [0 .. N + 1 -> Place(cs)]
    BY <1>2, <2>1, <2>3
  <2> QED
    BY <2>2, <2>3, <2>4
<1> HIDE DEF q, longer
<1>4. q[0].open = <<>>
  BY <1>3 DEF Steps
<1>5. ASSUME NEW n \in 1 .. N + 1 PROVE Walked(cs, longer[n], q[n - 1], q[n])
  <2>1. CASE n <= N
    <3>1. n \in 1 .. N /\ n \in 0 .. N /\ n - 1 \in 0 .. N
      BY <1>1, <2>1
    <3>2. Walked(cs, called[n], r[n - 1], r[n])
      BY <3>1 DEF Steps
    <3> QED
      BY <1>1, <1>3, <3>1, <3>2
  <2>2. CASE n = N + 1
    <3>1. n - 1 = N /\ N \in 0 .. N
      BY <1>1, <2>2
    <3> QED
      BY <1>1, <1>3, <2>2, <3>1
  <2> QED
    BY <1>1, <2>1, <2>2
<1>6. ASSUME NEW n \in 1 .. (N + 1) - 1 PROVE q[n].open # <<>>
  <2>1. n \in 1 .. N /\ n \in 0 .. N /\ N # 0
    BY <1>1
  <2>2. CASE n = N
    BY <1>3, <2>1, <2>2
  <2>3. CASE n # N
    <3>1. n \in 1 .. N - 1
      BY <1>1, <2>1, <2>3
    <3> QED
      BY <1>3, <2>1, <3>1 DEF Steps
  <2> QED
    BY <2>2, <2>3
<1>7. Steps(cs, longer, q)
  <2> HIDE DEF N
  <2> QED
    BY <1>1, <1>3, <1>4, <1>5, <1>6 DEF Steps
<1> QED
  BY <1>1, <1>3, <1>7 DEF q, longer

(* A walk goes as it went when more cells are written behind those it is   *)
(* in.                                                                     *)
LEMMA StepsKept ==
  ASSUME NEW cs \in Seq(Intact), NEW called, Len(called) \in Nat, NEW r, Walk(cs, called, r),
         NEW all \in Seq(Intact), Len(cs) <= Len(all), \A i \in DOMAIN cs : all[i] = cs[i]
  PROVE  Steps(all, called, r)
<1>1. DOMAIN cs = 1 .. Len(cs) /\ DOMAIN all = 1 .. Len(all) /\ Len(cs) \in Nat /\ Len(all) \in Nat
  OBVIOUS
<1>2. DOMAIN cs \subseteq DOMAIN all
  BY <1>1
<1>3. r \in [0 .. Len(called) -> Place(all)]
  <2>1. Place(cs) \subseteq Place(all)
    <3>1. Seq(DOMAIN cs) \subseteq Seq(DOMAIN all)
      BY <1>2
    <3> QED
      BY <3>1 DEF Place
  <2>2. r \in [0 .. Len(called) -> Place(cs)]
    BY DEF Walk, Steps
  <2> QED
    BY <2>1, <2>2
<1>4. ASSUME NEW n \in 1 .. Len(called) PROVE Walked(all, called[n], r[n - 1], r[n])
  <2>1. /\ Walked(cs, called[n], r[n - 1], r[n])
        /\ r[n].cell \in DOMAIN cs /\ n - 1 \in 0 .. Len(called)
    BY WalkOn
  <2>2. \A d \in DOMAIN r[n - 1].open : r[n - 1].open[d] \in DOMAIN cs
    BY <2>1, PlaceTyped
  <2>3. \A d \in DOMAIN r[n - 1].open : all[r[n - 1].open[d]] = cs[r[n - 1].open[d]]
    BY <2>2
  <2>4. r[n].cell \in DOMAIN all /\ all[r[n].cell] = cs[r[n].cell]
    BY <1>2, <2>1
  <2> QED
    BY <2>1, <2>3, <2>4 DEF Walked
<1> QED
  BY <1>3, <1>4 DEF Walk, Steps

(* Cells written behind those of a walk.                                   *)
LEMMA LaidOn ==
  ASSUME NEW cs \in Seq(Intact), NEW from \in Nat, NEW mid \in Nat, NEW to \in Nat, mid <= to,
         Laid(cs, from, mid), from <= mid,
         NEW new \in Seq(Intact), Laid(new, mid, to)
  PROVE  Laid(cs \o new, from, to)
<1> DEFINE all == cs \o new
           n == Len(cs)
<1>1. /\ n \in Nat /\ Len(new) \in Nat /\ DOMAIN cs = 1 .. n /\ DOMAIN new = 1 .. Len(new)
      /\ DOMAIN all = 1 .. n + Len(new)
      /\ \A i \in 1 .. n : all[i] = cs[i]
      /\ \A i \in 1 .. Len(new) : all[n + i] = new[i]
  OBVIOUS
<1> HIDE DEF all, n
<1>2. ASSUME NEW i \in DOMAIN all
      PROVE  \/ i \in DOMAIN cs /\ all[i] = cs[i] /\ all[i].at \in Nat
             \/ i - n \in DOMAIN new /\ all[i] = new[i - n] /\ all[i].at \in Nat /\ i > n
  <2>1. CASE i <= n
    <3>1. i \in DOMAIN cs /\ cs[i] \in Intact
      BY <1>1, <2>1
    <3> QED
      BY <1>1, <3>1 DEF Intact
  <2>2. CASE i > n
    <3>1. i - n \in 1 .. Len(new) /\ n + (i - n) = i /\ new[i - n] \in Intact
      BY <1>1, <2>2
    <3>2. all[n + (i - n)] = new[i - n]
      BY <1>1, <3>1
    <3> QED
      BY <1>1, <2>2, <3>1, <3>2 DEF Intact
  <2> QED
    BY <1>1, <2>1, <2>2
<1>3. ASSUME NEW i \in DOMAIN all PROVE from <= all[i].at /\ all[i].at < to
  BY <1>2 DEF Laid
<1>4. ASSUME NEW i \in DOMAIN all, NEW j \in DOMAIN all, i < j PROVE all[i].at < all[j].at
  <2>0. i \in Nat /\ j \in Nat
    BY <1>1
  <2>1. CASE j \in DOMAIN cs /\ all[j] = cs[j]
    <3>1. i \in DOMAIN cs /\ all[i] = cs[i]
      BY <1>1, <1>4, <2>0, <2>1
    <3> QED
      BY <1>4, <2>1, <3>1 DEF Laid
  <2>2. CASE j - n \in DOMAIN new /\ all[j] = new[j - n] /\ j > n
    <3>1. CASE i \in DOMAIN cs /\ all[i] = cs[i]
      <4>1. all[i].at < mid /\ mid <= all[j].at /\ all[i].at \in Nat /\ all[j].at \in Nat
        BY <1>2, <2>2, <3>1 DEF Laid
      <4> QED
        BY <4>1
    <3>2. CASE i - n \in DOMAIN new /\ all[i] = new[i - n]
      <4>1. i - n < j - n
        BY <1>1, <1>4, <2>0
      <4> QED
        BY <2>2, <3>2, <4>1 DEF Laid
    <3> QED
      BY <1>2, <3>1, <3>2
  <2> QED
    BY <1>2, <2>1, <2>2
<1> QED
  BY <1>3, <1>4 DEF Laid, all
-----------------------------------------------------------------------------
(* What is open in a value, open in a message in which x is open too and   *)
(* k cells are before the value.                                           *)
Deeper(x, t, k) == x \o [d \in DOMAIN t |-> t[d] + k]

(* Moved by k, what is open in the value is among the cells C.             *)
Moves(T, k, C) == T \subseteq Nat /\ \A e \in T : e + k \in C

(* u is t behind x, moved by k.                                            *)
Behind(u, x, t, k, C) == /\ u \in Seq(C)
                         /\ Len(u) = Len(x) + Len(t)
                         /\ Len(x) \in Nat /\ Len(t) \in Nat
                         /\ \A d \in 1 .. Len(x) : u[d] = x[d]
                         /\ \A d \in 1 .. Len(t) : u[Len(x) + d] = t[d] + k

(* Open in the message: first what was open there, then what is open in    *)
(* the value.                                                              *)
LEMMA DeeperSeq ==
  ASSUME NEW k \in Nat, NEW C, NEW T, Moves(T, k, C),
         NEW x \in Seq(C), NEW t \in Seq(T)
  PROVE  Behind(Deeper(x, t, k), x, t, k, C)
<1> DEFINE u == [d \in DOMAIN t |-> t[d] + k]
<1>1. Len(x) \in Nat /\ Len(t) \in Nat /\ DOMAIN t = 1 .. Len(t)
  OBVIOUS
<1>2. \A d \in 1 .. Len(t) : t[d] + k \in C
  <2>1. \A d \in 1 .. Len(t) : t[d] \in T
    OBVIOUS
  <2> QED
    BY <2>1 DEF Moves
<1>3. u \in Seq(C) /\ Len(u) = Len(t)
  <2>1. u \in [1 .. Len(t) -> C]
    BY <1>1, <1>2
  <2> QED
    BY <1>1, <2>1, LenProperties, SeqDef
<1>5. \A d \in 1 .. Len(t) : u[d] = t[d] + k
  BY <1>1
<1> HIDE DEF u
<1>6. /\ x \o u \in Seq(C)
      /\ Len(x \o u) = Len(x) + Len(u)
      /\ \A d \in 1 .. Len(x) : (x \o u)[d] = x[d]
      /\ \A d \in 1 .. Len(u) : (x \o u)[Len(x) + d] = u[d]
  BY <1>3
<1> QED
  BY <1>1, <1>3, <1>5, <1>6 DEF Behind, Deeper, u

(* What that is for nothing, for one more and for one less.                *)
MovedEnds(x, t, k, T) ==
    /\ Deeper(x, <<>>, k) = x
    /\ \A e \in T : Deeper(x, Append(t, e), k) = Append(Deeper(x, t, k), e + k)
    /\ t # <<>> => /\ Deeper(x, t, k) # <<>>
                   /\ Deeper(x, t, k)[Len(Deeper(x, t, k))] = t[Len(t)] + k
                   /\ Deeper(x, SubSeq(t, 1, Len(t) - 1), k)
                        = SubSeq(Deeper(x, t, k), 1, Len(Deeper(x, t, k)) - 1)

(* Nothing, one more and one less, for any value and any message.          *)
LEMMA DeeperEnds ==
  ASSUME NEW k \in Nat, NEW C, NEW T, Moves(T, k, C),
         NEW x \in Seq(C), NEW t \in Seq(T)
  PROVE  MovedEnds(x, t, k, T)
<1> DEFINE D(s) == Deeper(x, s, k)
<1>1. ASSUME NEW s \in Seq(T)
      PROVE  /\ D(s) \in Seq(C)
             /\ Len(D(s)) = Len(x) + Len(s) /\ Len(x) \in Nat /\ Len(s) \in Nat
             /\ \A d \in 1 .. Len(x) : D(s)[d] = x[d]
             /\ \A d \in 1 .. Len(s) : D(s)[Len(x) + d] = s[d] + k
  <2>1. Behind(Deeper(x, s, k), x, s, k, C)
    BY DeeperSeq
  <2> QED
    BY <2>1 DEF Behind
<1> HIDE DEF D
<1>2. D(<<>>) = x
  <2> DEFINE z == <<>>
  <2>1. z \in Seq(T) /\ Len(z) = 0
    BY EmptySeq
  <2> HIDE DEF z
  <2>2. D(z) \in Seq(C) /\ Len(D(z)) = Len(x) + Len(z) /\ Len(x) \in Nat /\ \A d \in 1 .. Len(x) : D(z)[d] = x[d]
    BY <1>1, <2>1, Zenon
  <2>3. D(z) = x
    BY <2>1, <2>2, SeqEqual
  <2> QED
    BY <2>3 DEF z
<1>3. ASSUME NEW e \in T PROVE D(Append(t, e)) = Append(D(t), e + k)
  <2> DEFINE u == Append(t, e)
             v == Append(D(t), e + k)
  <2>1. u \in Seq(T) /\ Len(u) = Len(t) + 1 /\ u[Len(t) + 1] = e /\ \A d \in 1 .. Len(t) : u[d] = t[d]
    OBVIOUS
  <2>2. e + k \in C
    BY DEF Moves
  <2>3. v \in Seq(C) /\ Len(v) = Len(D(t)) + 1 /\ v[Len(D(t)) + 1] = e + k /\ \A d \in 1 .. Len(D(t)) : v[d] = D(t)[d]
    BY <1>1, <2>2
  <2> HIDE DEF u, v
  <2>4. Len(D(u)) = Len(v) /\ D(u) \in Seq(C)
    BY <1>1, <2>1, <2>3
  <2>5. ASSUME NEW d \in 1 .. Len(D(u)) PROVE D(u)[d] = v[d]
    <3>1. CASE d <= Len(x)
      <4>1. d \in 1 .. Len(x) /\ d \in 1 .. Len(D(t))
        BY <1>1, <2>1, <3>1
      <4> QED
        BY <1>1, <2>1, <2>3, <4>1
    <3>2. CASE d > Len(x) /\ d <= Len(x) + Len(t)
      <4> DEFINE j == d - Len(x)
      <4>1. j \in 1 .. Len(t) /\ j \in 1 .. Len(u) /\ d = Len(x) + j /\ d \in 1 .. Len(D(t))
        BY <1>1, <2>1, <3>2
      <4> HIDE DEF j
      <4>2. D(u)[Len(x) + j] = u[j] + k /\ D(t)[Len(x) + j] = t[j] + k /\ u[j] = t[j]
        BY <1>1, <2>1, <4>1
      <4> QED
        BY <2>3, <4>1, <4>2
    <3>3. CASE d = Len(x) + Len(t) + 1
      <4>1. Len(t) + 1 \in 1 .. Len(u) /\ d = Len(x) + (Len(t) + 1) /\ d = Len(D(t)) + 1
        BY <1>1, <2>1, <3>3
      <4>2. D(u)[Len(x) + (Len(t) + 1)] = u[Len(t) + 1] + k
        BY <1>1, <2>1, <4>1
      <4> QED
        BY <2>1, <2>3, <4>1, <4>2
    <3>4. Len(D(u)) = Len(x) + Len(t) + 1 /\ Len(x) \in Nat /\ Len(t) \in Nat
      BY <1>1, <2>1
    <3> QED
      BY <3>1, <3>2, <3>3, <3>4
  <2> QED
    BY <2>3, <2>4, <2>5, SeqEqual DEF u, v
<1>4. ASSUME t # <<>>
      PROVE  /\ D(t) # <<>> /\ D(t)[Len(D(t))] = t[Len(t)] + k
             /\ D(SubSeq(t, 1, Len(t) - 1)) = SubSeq(D(t), 1, Len(D(t)) - 1)
  <2>1. Len(t) \in Nat \ {0} /\ Len(t) \in 1 .. Len(t)
    BY <1>4
  <2>2. Len(D(t)) = Len(x) + Len(t) /\ D(t)[Len(x) + Len(t)] = t[Len(t)] + k /\ Len(D(t)) > 0
    BY <1>1, <2>1
  <2>3. D(t) # <<>>
    BY <2>2
  <2> DEFINE u == SubSeq(t, 1, Len(t) - 1)
             v == SubSeq(D(t), 1, Len(D(t)) - 1)
  <2>4. u \in Seq(T) /\ Len(u) = Len(t) - 1 /\ \A d \in 1 .. Len(t) - 1 : u[d] = t[d]
    <3> DEFINE m == Len(t) - 1
    <3>1. m \in Nat /\ \A d \in 1 .. m : t[d] \in T
      BY <2>1
    <3> HIDE DEF m
    <3>2. /\ SubSeq(t, 1, m) \in Seq(T)
          /\ Len(SubSeq(t, 1, m)) = m
          /\ \A d \in 1 .. m : SubSeq(t, 1, m)[d] = t[d]
      BY <3>1
    <3> QED
      BY <3>2 DEF m
  <2>5. v \in Seq(C) /\ Len(v) = Len(D(t)) - 1 /\ \A d \in 1 .. Len(D(t)) - 1 : v[d] = D(t)[d]
    BY <1>1, <2>2
  <2> HIDE DEF u, v
  <2>6. D(u) \in Seq(C) /\ Len(D(u)) = Len(v)
    BY <1>1, <2>1, <2>2, <2>4, <2>5
  <2>7. ASSUME NEW d \in 1 .. Len(D(u)) PROVE D(u)[d] = v[d]
    <3>0. d \in 1 .. Len(D(t)) - 1 /\ d \in 1 .. Len(x) + Len(u)
      BY <1>1, <2>4, <2>5, <2>6
    <3>1. CASE d <= Len(x)
      <4>1. d \in 1 .. Len(x)
        BY <1>1, <3>0, <3>1
      <4> QED
        BY <1>1, <2>4, <2>5, <3>0, <4>1
    <3>2. CASE d > Len(x)
      <4> DEFINE j == d - Len(x)
      <4>1. j \in 1 .. Len(u) /\ j \in 1 .. Len(t) /\ j \in 1 .. Len(t) - 1 /\ d = Len(x) + j
        BY <1>1, <2>1, <2>4, <3>0, <3>2
      <4> HIDE DEF j
      <4>2. D(u)[Len(x) + j] = u[j] + k /\ D(t)[Len(x) + j] = t[j] + k /\ u[j] = t[j]
        BY <1>1, <2>4, <4>1
      <4> QED
        BY <2>5, <3>0, <4>1, <4>2
    <3> QED
      BY <1>1, <3>0, <3>1, <3>2
  <2>8. D(u) = v
    BY <2>5, <2>6, <2>7, SeqEqual
  <2> QED
    BY <2>2, <2>3, <2>8 DEF u, v
<1> QED
  BY <1>2, <1>3, <1>4 DEF D, MovedEnds

(* Nothing open in the value: only what was open in the message.           *)
LEMMA DeeperNone ==
  ASSUME NEW k \in Nat, NEW C, NEW T, Moves(T, k, C), NEW x \in Seq(C)
  PROVE  Deeper(x, <<>>, k) = x
<1> DEFINE z == <<>>
<1>1. z \in Seq(T)
  BY EmptySeq
<1> HIDE DEF z
<1>2. MovedEnds(x, z, k, T)
  BY <1>1, DeeperEnds
<1> QED
  BY <1>2 DEF MovedEnds

(* One more open in the value is one more open in the message.             *)
LEMMA DeeperAppend ==
  ASSUME NEW k \in Nat, NEW C, NEW T, Moves(T, k, C), NEW x \in Seq(C), NEW t \in Seq(T), NEW e \in T
  PROVE  Deeper(x, Append(t, e), k) = Append(Deeper(x, t, k), e + k)
<1>1. MovedEnds(x, t, k, T)
  BY DeeperEnds
<1> QED
  BY <1>1, Zenon DEF MovedEnds

(* The innermost open in the value is the innermost open in the message.   *)
LEMMA DeeperLast ==
  ASSUME NEW k \in Nat, NEW C, NEW T, Moves(T, k, C), NEW x \in Seq(C), NEW t \in Seq(T), t # <<>>
  PROVE  /\ Deeper(x, t, k) # <<>>
         /\ Deeper(x, t, k)[Len(Deeper(x, t, k))] = t[Len(t)] + k
         /\ Deeper(x, SubSeq(t, 1, Len(t) - 1), k) = SubSeq(Deeper(x, t, k), 1, Len(Deeper(x, t, k)) - 1)
<1>1. MovedEnds(x, t, k, T)
  BY DeeperEnds
<1> QED
  BY <1>1, Zenon DEF MovedEnds
-----------------------------------------------------------------------------
(* An encoded value copied behind k cells, to the offset m, while x is     *)
(* open: its cells and the places of a walk through it.                    *)
Shifted(new, m) == [i \in DOMAIN new |-> Shift(new[i], m)]
Moved(p, x, k, m) == [cell |-> p.cell + k, ends |-> p.ends, pos |-> p.pos + m,
                      open |-> Deeper(x, p.open, k)]

(* A cell copied to another place has its kind and size as before.         *)
LEMMA IntactShift ==
  ASSUME NEW c \in Intact, NEW m \in Nat
  PROVE  /\ Shift(c, m) \in Intact
         /\ Shift(c, m).kind = c.kind /\ Shift(c, m).field = c.field /\ Shift(c, m).at = c.at + m
         /\ BSize(Shift(c, m)) = BSize(c)
<1>1. c.at + m \in Nat /\ c.kind \in Kinds /\ c.field \in Nat \cup {NoSize} /\ c.bytes \in Nat
  BY DEF Intact
<1>2. Shift(c, m) = [kind |-> c.kind, field |-> c.field, bytes |-> c.bytes, at |-> c.at + m]
  BY DEF Shift, Intact
<1>3. /\ Shift(c, m) \in Intact
      /\ Shift(c, m).kind = c.kind /\ Shift(c, m).field = c.field /\ Shift(c, m).at = c.at + m
  BY <1>1, <1>2 DEF Intact
<1> QED
  BY <1>3 DEF BSize

(* Copied cells are as many as there were, each in its new place.          *)
LEMMA ShiftedCells ==
  ASSUME NEW new \in Seq(Intact), NEW m \in Nat
  PROVE  /\ Shifted(new, m) \in Seq(Intact) /\ Len(Shifted(new, m)) = Len(new) /\ Len(new) \in Nat
         /\ DOMAIN new = 1 .. Len(new) /\ DOMAIN Shifted(new, m) = DOMAIN new
         /\ \A i \in DOMAIN new :
               /\ new[i] \in Intact
               /\ Shifted(new, m)[i] = Shift(new[i], m)
               /\ Shifted(new, m)[i].at = new[i].at + m
<1>1. Len(new) \in Nat /\ DOMAIN new = 1 .. Len(new) /\ \A i \in DOMAIN new : new[i] \in Intact
  OBVIOUS
<1>2. \A i \in DOMAIN new : Shift(new[i], m) \in Intact /\ Shift(new[i], m).at = new[i].at + m
  BY <1>1, IntactShift
<1> DEFINE w == Shifted(new, m)
<1>3. w \in [1 .. Len(new) -> Intact] /\ \A i \in DOMAIN new : w[i] = Shift(new[i], m)
  BY <1>1, <1>2 DEF Shifted
<1> HIDE DEF w
<1>4. w \in Seq(Intact) /\ Len(w) = Len(new) /\ DOMAIN w = DOMAIN new
  BY <1>1, <1>3, LenProperties, SeqDef
<1> QED
  BY <1>1, <1>2, <1>3, <1>4 DEF w

(* What a reader does in a value it does in the copy.                      *)
LEMMA WalkedMoved ==
  ASSUME NEW cs \in Seq(Intact), NEW new \in Seq(Intact), NEW m \in Nat,
         NEW x \in Seq(DOMAIN cs), \A d \in DOMAIN x : cs[x[d]].field = NoSize,
         NEW a \in Place(new)
  PROVE  LET all == cs \o Shifted(new, m)
             k == Len(cs)
         IN  /\ Moved(a, x, k, m) \in Place(all)
             /\ \A b \in Place(new) : \A name :
                   Walked(new, name, a, b) => Walked(all, name, Moved(a, x, k, m), Moved(b, x, k, m))
<1> DEFINE all == cs \o Shifted(new, m)
           k == Len(cs)
           w == Shifted(new, m)
           mv(p) == Moved(p, x, k, m)
<1>0. k \in Nat
  OBVIOUS
<1>1. k \in Nat /\ DOMAIN cs = 1 .. k /\ Len(new) \in Nat /\ DOMAIN new = 1 .. Len(new)
  OBVIOUS
<1>2. /\ w \in Seq(Intact) /\ Len(w) = Len(new)
      /\ \A i \in DOMAIN new : w[i] = Shift(new[i], m) /\ new[i] \in Intact
  BY ShiftedCells
<1> HIDE DEF w
<1>3. /\ cs \o w \in Seq(Intact) /\ DOMAIN (cs \o w) = 1 .. k + Len(new)
      /\ \A i \in DOMAIN cs : (cs \o w)[i] = cs[i]
      /\ \A i \in DOMAIN new : (cs \o w)[k + i] = w[i]
  <2>1. /\ cs \o w \in Seq(Intact) /\ DOMAIN (cs \o w) = 1 .. Len(cs) + Len(w)
        /\ \A i \in 1 .. Len(cs) : (cs \o w)[i] = cs[i]
        /\ \A i \in 1 .. Len(w) : (cs \o w)[Len(cs) + i] = w[i]
    <3>1. w \in Seq(Intact)
      BY <1>2
    <3> QED
      BY <3>1
  <2> QED
    BY <1>1, <1>2, <2>1
<1>4. /\ all \in Seq(Intact) /\ DOMAIN all = 1 .. k + Len(new)
      /\ \A i \in DOMAIN cs : all[i] = cs[i]
      /\ \A i \in DOMAIN new : all[k + i] = Shift(new[i], m) /\ new[i] \in Intact /\ k + i \in DOMAIN all
  BY <1>1, <1>2, <1>3 DEF w
<1>5. Moves(DOMAIN new, k, DOMAIN all) /\ x \in Seq(DOMAIN all)
  <2>1. \A i \in DOMAIN new : i + k \in DOMAIN all
    BY <1>1, <1>4
  <2>2. DOMAIN cs \subseteq DOMAIN all /\ DOMAIN new \subseteq Nat
    BY <1>1, <1>4
  <2> QED
    BY <2>1, <2>2, SeqMonotonic DEF Moves
<1> HIDE DEF all, k
<1>6. ASSUME NEW p \in Place(new)
      PROVE  /\ p.cell \in Nat /\ p.ends \in BOOLEAN /\ p.pos \in Nat /\ p.open \in Seq(DOMAIN new)
             /\ Behind(Deeper(x, p.open, k), x, p.open, k, DOMAIN all)
             /\ mv(p) \in Place(all)
             /\ mv(p).cell = p.cell + k /\ mv(p).ends = p.ends /\ mv(p).pos = p.pos + m
             /\ mv(p).open = Deeper(x, p.open, k)
  <2>1. p.cell \in Nat /\ p.ends \in BOOLEAN /\ p.pos \in Nat /\ p.open \in Seq(DOMAIN new)
    BY DEF Place
  <2>2. Behind(Deeper(x, p.open, k), x, p.open, k, DOMAIN all)
    BY <1>1, <1>5, <2>1, DeeperSeq
  <2>3. Deeper(x, p.open, k) \in Seq(DOMAIN all)
    BY <2>2 DEF Behind
  <2>4. p.cell + k \in Nat /\ p.pos + m \in Nat
    BY <1>1, <2>1
  <2> QED
    BY <2>1, <2>2, <2>3, <2>4 DEF Moved, Place
<1> HIDE DEF mv
<1>7. ASSUME NEW b \in Place(new), NEW name, Walked(new, name, a, b)
      PROVE  Walked(all, name, mv(a), mv(b))
  <2> DEFINE c == new[b.cell]
             e == all[mv(b).cell]
  <2>1. b.cell \in DOMAIN new
    BY <1>7 DEF Walked
  <2>2. mv(b).cell = k + b.cell /\ k + b.cell \in DOMAIN all /\ e = Shift(c, m) /\ c \in Intact
    <3>1. mv(b).cell = k + b.cell
      BY <1>1, <1>6
    <3> QED
      BY <1>4, <2>1, <3>1
  <2> HIDE DEF c, e
  <2>3. e.kind = c.kind /\ e.field = c.field /\ e.at = c.at + m /\ BSize(e) = BSize(c) /\ c.at \in Nat
    BY <2>2, IntactShift DEF Intact
  <2>4. c.field # NoSize => BSize(c) \in Nat /\ Over(e) = Over(c) + m /\ Over(c) \in Nat
    <3>1. c.field # NoSize => BSize(c) \in Nat /\ Over(c) \in Nat
      BY <2>2, IntactSize
    <3> QED
      BY <2>3, <3>1 DEF Over
  <2> DEFINE Goal == Passes(e, name, mv(a), mv(b)) \/ Enters(e, name, mv(a), mv(b)) \/ Exits(e, name, mv(a), mv(b))
  <2>5. ASSUME Passes(c, name, a, b) PROVE Goal
    <3>1. Passes(e, name, mv(a), mv(b))
      BY <1>6, <2>3, <2>4, <2>5 DEF Passes
    <3> QED
      BY <3>1
  <2>6. ASSUME Enters(c, name, a, b) PROVE Goal
    <3>1. Deeper(x, Append(a.open, b.cell), k) = Append(Deeper(x, a.open, k), b.cell + k)
      BY <1>0, <1>5, <1>6, <2>1, DeeperAppend
    <3>2. mv(b).open = Append(mv(a).open, mv(b).cell)
      BY <1>6, <2>6, <3>1 DEF Enters
    <3>3. mv(b).pos = mv(a).pos + 5 /\ e.at = mv(a).pos
      <4>1. a.pos \in Nat /\ mv(a).pos = a.pos + m /\ mv(b).pos = b.pos + m
        BY <1>6
      <4>2. c.at = a.pos /\ b.pos = a.pos + 5
        BY <2>6 DEF Enters
      <4> QED
        BY <2>3, <4>1, <4>2
    <3> QED
      BY <1>6, <2>3, <2>6, <3>2, <3>3 DEF Enters
  <2>7. ASSUME Exits(c, name, a, b) PROVE Goal
    <3>1. /\ a.open # <<>> /\ a.open[Len(a.open)] = b.cell
          /\ b.open = SubSeq(a.open, 1, Len(a.open) - 1)
          /\ a.pos = Over(c) /\ b.pos = a.pos /\ c.field # NoSize /\ b.ends
      BY <2>7 DEF Exits
    <3>2. /\ Deeper(x, a.open, k) # <<>>
          /\ Deeper(x, a.open, k)[Len(Deeper(x, a.open, k))] = a.open[Len(a.open)] + k
          /\ Deeper(x, SubSeq(a.open, 1, Len(a.open) - 1), k)
               = SubSeq(Deeper(x, a.open, k), 1, Len(Deeper(x, a.open, k)) - 1)
      <4>1. a.open \in Seq(DOMAIN new)
        BY <1>6
      <4> QED
        BY <1>0, <1>5, <3>1, <4>1, DeeperLast, SMTT(30)
    <3>3. mv(a).open # <<>> /\ mv(a).open[Len(mv(a).open)] = mv(b).cell
          /\ mv(b).open = SubSeq(mv(a).open, 1, Len(mv(a).open) - 1)
      <4>1. mv(a).open = Deeper(x, a.open, k) /\ mv(b).open = Deeper(x, b.open, k) /\ mv(b).cell = b.cell + k
        BY <1>6
      <4> QED
        BY <3>1, <3>2, <4>1, Zenon
    <3>4. mv(a).pos = Over(e) /\ mv(b).pos = mv(a).pos
      BY <1>6, <2>4, <3>1
    <3>5. mv(b).ends /\ e.kind \in Containers /\ e.field # NoSize /\ name = Ends(e.kind)
      BY <1>6, <2>3, <2>7 DEF Exits
    <3> QED
      BY <3>3, <3>4, <3>5 DEF Exits
  <2>8. ASSUME ~b.ends, NEW d \in DOMAIN mv(a).open, all[mv(a).open[d]].field # NoSize
        PROVE  mv(a).pos < Over(all[mv(a).open[d]])
    <3> DEFINE u == Deeper(x, a.open, k)
               o == a.open
    <3>1. mv(a).open = u /\ mv(a).pos = a.pos + m /\ a.pos \in Nat /\ o \in Seq(DOMAIN new)
          /\ Behind(u, x, o, k, DOMAIN all)
      BY <1>6
    <3> HIDE DEF u, o
    <3>2. Len(x) \in Nat /\ Len(o) \in Nat /\ DOMAIN u = 1 .. Len(x) + Len(o) /\ d \in DOMAIN u
          /\ DOMAIN x = 1 .. Len(x) /\ DOMAIN o = 1 .. Len(o)
      BY <2>8, <3>1 DEF Behind
    <3>3. CASE d <= Len(x)
      <4>1. d \in DOMAIN x /\ u[d] = x[d] /\ x[d] \in DOMAIN cs
        BY <3>1, <3>2, <3>3 DEF Behind
      <4>2. all[u[d]] = cs[x[d]] /\ cs[x[d]].field = NoSize
        BY <1>4, <4>1
      <4> QED
        BY <2>8, <3>1, <4>2
    <3>4. CASE d > Len(x)
      <4> DEFINE j == d - Len(x)
      <4>1. j \in DOMAIN o /\ d = Len(x) + j
        BY <3>2, <3>4
      <4> HIDE DEF j
      <4>2. u[d] = k + o[j] /\ o[j] \in DOMAIN new
        <5>1. u[Len(x) + j] = o[j] + k /\ o[j] \in DOMAIN new
          BY <3>1, <3>2, <4>1 DEF Behind
        <5>2. o[j] \in Nat
          BY <1>1, <5>1
        <5> QED
          BY <1>1, <4>1, <5>1, <5>2
      <4> DEFINE g == new[o[j]]
      <4>3. all[u[d]] = Shift(g, m) /\ g \in Intact
        BY <1>4, <4>2
      <4> HIDE DEF g
      <4>4. g.field # NoSize /\ BSize(Shift(g, m)) = BSize(g) /\ Shift(g, m).at = g.at + m
        BY <2>8, <3>1, <4>3, IntactShift, ZenonT(60)
      <4>5. a.pos < Over(g)
        BY <1>7, <2>8, <4>1, <4>4 DEF Walked, g, o
      <4>6. Over(g) \in Nat /\ BSize(g) \in Nat /\ g.at \in Nat
        BY <4>3, <4>4, IntactSize
      <4>7. Over(Shift(g, m)) = Over(g) + m
        BY <4>4, <4>6 DEF Over
      <4> QED
        BY <3>1, <4>3, <4>5, <4>6, <4>7
    <3> QED
      BY <3>2, <3>3, <3>4
  <2>9. \/ Passes(c, name, a, b) \/ Enters(c, name, a, b) \/ Exits(c, name, a, b)
    BY <1>7 DEF Walked, c
  <2>10. Goal
    BY <2>5, <2>6, <2>7, <2>9
  <2>11. ~mv(b).ends => ~b.ends
    BY <1>6
  <2> QED
    BY <2>2, <2>8, <2>10, <2>11 DEF Walked, e
<1> QED
  BY <1>6, <1>7 DEF all, k, mv

(* A walk through what is built and then through the value behind it.      *)
Joined(r, s, n, l, x, k) ==
    [i \in 0 .. n + l |-> IF i <= n THEN r[i] ELSE Moved(s[i - n], x, k, r[n].pos)]

(* Copied cells lie as they did, from their new place on.                  *)
LEMMA ShiftedLaid ==
  ASSUME NEW new \in Seq(Intact), NEW m \in Nat, NEW size \in Nat, Laid(new, 0, size)
  PROVE  Laid(Shifted(new, m), m, m + size)
<1>1. \A i \in DOMAIN new : Shifted(new, m)[i].at = new[i].at + m /\ new[i].at \in Nat
  BY ShiftedCells DEF Intact
<1>2. DOMAIN Shifted(new, m) = DOMAIN new
  BY ShiftedCells
<1> QED
  BY <1>1, <1>2 DEF Laid

(* q walks through both: n callbacks as r does, then l through a value of  *)
(* size bytes.                                                             *)
JoinsTo(all, both, q, r, n, l, size) ==
    /\ all \in Seq(Intact)
    /\ Walk(all, both, q)
    /\ Len(both) = n + l
    /\ q[0] = r[0]
    /\ q[n + l].pos = r[n].pos + size
    /\ q[n + l].open = r[n].open

(* A walk through what is built and one through a value copied behind it   *)
(* make one walk.                                                          *)
LEMMA ValueJoined ==
  ASSUME NEW cs \in Seq(Intact), NEW X, NEW called \in Seq(X), NEW r, Walk(cs, called, r),
         Len(called) = 0 \/ r[Len(called)].open # <<>>,
         \A d \in DOMAIN r[Len(called)].open : cs[r[Len(called)].open[d]].field = NoSize,
         NEW v, v.cells \in Seq(Intact), v.cells # <<>>, v.cells[1].field # NoSize, v.calls \in Seq(X),
         NEW s, EncodedBy(v, s)
  PROVE  LET N == Len(called)
             L == Len(v.calls)
             all == cs \o Shifted(v.cells, r[N].pos)
             q == Joined(r, s, N, L, r[N].open, Len(cs))
         IN  JoinsTo(all, called \o v.calls, q, r, N, L, BSize(v.cells[1]))
<1> DEFINE N == Len(called)
           L == Len(v.calls)
           new == v.cells
           more == v.calls
           x == r[N].open
           m == r[N].pos
           k == Len(cs)
           all == cs \o Shifted(new, m)
           both == called \o more
           q == Joined(r, s, N, L, x, k)
           mv(p) == Moved(p, x, k, m)
<1>1. /\ N \in Nat /\ L \in Nat /\ Len(both) = N + L
      /\ \A n \in 1 .. N : both[n] = called[n]
      /\ \A n \in 1 .. L : both[N + n] = more[n]
  OBVIOUS
<1>2. N \in 0 .. N /\ r[N] \in Place(cs) /\ m \in Nat /\ x \in Seq(DOMAIN cs)
  BY <1>1, PlaceTyped
<1>3. Walk(new, more, s) /\ s[0].pos = 0 /\ s[L].open = <<>> /\ s[L].pos = BSize(new[1])
      /\ s \in [0 .. L -> Place(new)] /\ s[0].open = <<>>
  BY DEF EncodedBy, Walk, Steps
<1>4. BSize(new[1]) \in Nat \ {0}
  <2>1. new[1] \in Intact
    OBVIOUS
  <2> QED
    BY <2>1, IntactSize
<1>5. L # 0
  BY <1>3, <1>4
<1>6. Shifted(new, m) \in Seq(Intact) /\ Len(Shifted(new, m)) = Len(new)
  BY <1>2, ShiftedCells
<1>7. /\ all \in Seq(Intact) /\ Len(cs) <= Len(all)
      /\ \A i \in DOMAIN cs : all[i] = cs[i]
  <2> DEFINE w == Shifted(new, m)
  <2>1. w \in Seq(Intact)
    BY <1>6
  <2> HIDE DEF w
  <2>2. cs \o w \in Seq(Intact) /\ Len(cs) <= Len(cs \o w) /\ \A i \in DOMAIN cs : (cs \o w)[i] = cs[i]
    BY <2>1
  <2> QED
    BY <2>2 DEF w
<1> HIDE DEF all, both
<1>8. Steps(all, called, r)
  <2> HIDE DEF N
  <2> QED
    BY <1>1, <1>7, StepsKept DEF N
<1>9. ASSUME NEW a \in Place(new)
      PROVE  /\ mv(a) \in Place(all)
             /\ \A b \in Place(new) : \A name : Walked(new, name, a, b) => Walked(all, name, mv(a), mv(b))
  <2> HIDE DEF x, m, N
  <2>1. \A d \in DOMAIN x : cs[x[d]].field = NoSize
    BY DEF x, N
  <2> QED
    BY <1>2, <2>1, WalkedMoved DEF all
<1>10. /\ q \in [0 .. N + L -> Place(all)]
       /\ \A n \in 0 .. N : q[n] = r[n]
       /\ \A n \in 1 .. L : q[N + n] = mv(s[n])
  <2>1. q = [i \in 0 .. N + L |-> IF i <= N THEN r[i] ELSE mv(s[i - N])]
    BY DEF Joined
  <2>2. \A n \in 0 .. N : r[n] \in Place(all)
    BY <1>8 DEF Steps
  <2>3. \A n \in 1 .. L : mv(s[n]) \in Place(all)
    BY <1>3, <1>9, SMTT(30)
  <2> HIDE DEF q, mv, N, L
  <2>4. ASSUME NEW i \in 0 .. N + L
        PROVE  /\ q[i] \in Place(all)
               /\ i \in 0 .. N => q[i] = r[i]
    <3>1. CASE i <= N
      <4>1. i \in 0 .. N
        BY <1>1, <3>1
      <4> QED
        BY <2>1, <2>2, <3>1, <4>1
    <3>2. CASE ~(i <= N)
      <4>1. i - N \in 1 .. L /\ i \notin 0 .. N
        BY <1>1, <3>2
      <4> QED
        BY <2>1, <2>3, <3>2, <4>1
    <3> QED
      BY <3>1, <3>2
  <2>5. ASSUME NEW n \in 1 .. L PROVE q[N + n] = mv(s[n])
    <3>1. N + n \in 0 .. N + L /\ ~(N + n <= N) /\ (N + n) - N = n
      BY <1>1
    <3> QED
      BY <2>1, <3>1
  <2>6. \A n \in 0 .. N : n \in 0 .. N + L
    BY <1>1
  <2> QED
    BY <2>1, <2>4, <2>5, <2>6
<1> HIDE DEF q
<1>11. mv(s[0]).pos = m /\ mv(s[0]).open = x
  <2>1. Moves(DOMAIN new, k, Nat) /\ x \in Seq(Nat) /\ k \in Nat
    <3>1. DOMAIN new \subseteq Nat /\ DOMAIN cs \subseteq Nat /\ k \in Nat
      OBVIOUS
    <3>2. \A i \in DOMAIN new : i + k \in Nat
      BY <3>1
    <3> QED
      BY <1>2, <3>1, <3>2, SeqMonotonic DEF Moves
  <2>2. Deeper(x, <<>>, k) = x
    BY <2>1, DeeperNone
  <2>3. 0 + m = m
    BY <1>2
  <2> QED
    BY <1>3, <2>2, <2>3 DEF Moved
<1>12. q[N + L].pos = m + BSize(new[1]) /\ q[N + L].open = x
  <2>1. q[N + L] = mv(s[L])
    <3>1. L \in 1 .. L
      BY <1>1, <1>5
    <3> QED
      BY <1>10, <3>1
  <2>2. mv(s[L]).open = Deeper(x, s[L].open, k) /\ mv(s[L]).pos = s[L].pos + m
    BY DEF Moved
  <2>3. mv(s[L]).open = mv(s[0]).open
    BY <1>3, <2>2 DEF Moved
  <2> QED
    BY <1>2, <1>3, <1>4, <1>11, <2>1, <2>2, <2>3
<1>13. q[0] = r[0] /\ q[N] = r[N]
  BY <1>1, <1>10
<1> HIDE DEF mv
<1>14. ASSUME NEW n \in 1 .. N + L PROVE Walked(all, both[n], q[n - 1], q[n])
  <2>1. CASE n <= N
    <3>1. n \in 1 .. N /\ n \in 0 .. N /\ n - 1 \in 0 .. N
      BY <1>1, <2>1
    <3>2. Walked(all, called[n], r[n - 1], r[n])
      BY <1>8, <3>1 DEF Steps
    <3> QED
      BY <1>1, <1>10, <3>1, <3>2
  <2>2. CASE n > N
    <3> DEFINE j == n - N
    <3>1. j \in 1 .. L /\ j \in 0 .. L /\ j - 1 \in 0 .. L /\ n = N + j /\ n - 1 = N + (j - 1)
      BY <1>1, <2>2
    <3> HIDE DEF j
    <3>2. Walked(new, more[j], s[j - 1], s[j]) /\ s[j - 1] \in Place(new) /\ s[j] \in Place(new)
      BY <1>3, <3>1 DEF Walk, Steps
    <3>3. Walked(all, more[j], mv(s[j - 1]), mv(s[j]))
      BY <1>9, <3>2
    <3>4. q[n] = mv(s[j]) /\ both[n] = more[j]
      BY <1>1, <1>10, <3>1
    <3>5. q[n - 1].pos = mv(s[j - 1]).pos /\ q[n - 1].open = mv(s[j - 1]).open
      <4>1. CASE j = 1
        <5>1. n - 1 = N /\ j - 1 = 0
          BY <1>1, <3>1, <4>1
        <5> QED
          BY <1>11, <1>13, <5>1
      <4>2. CASE j # 1
        <5>1. j - 1 \in 1 .. L
          BY <1>1, <3>1, <4>2
        <5> QED
          BY <1>10, <3>1, <5>1
      <4> QED
        BY <4>1, <4>2
    <3> QED
      BY <3>3, <3>4, <3>5 DEF Walked, Passes, Enters, Exits
  <2> QED
    BY <1>1, <2>1, <2>2
<1>15. ASSUME NEW n \in 1 .. (N + L) - 1 PROVE q[n].open # <<>>
  <2>1. CASE n <= N
    <3>1. n \in 0 .. N /\ n \in 1 .. N /\ q[n] = r[n] /\ N # 0
      BY <1>1, <1>10, <2>1
    <3>2. CASE n = N
      BY <3>1, <3>2
    <3>3. CASE n # N
      <4>1. n \in 1 .. N - 1
        BY <1>1, <3>1, <3>3
      <4> QED
        BY <3>1, <4>1 DEF Walk, Steps
    <3> QED
      BY <3>2, <3>3
  <2>2. CASE n > N
    <3> DEFINE j == n - N
    <3>1. j \in 1 .. L - 1 /\ j \in 1 .. L /\ j \in 0 .. L /\ n = N + j
      BY <1>1, <2>2
    <3> HIDE DEF j
    <3>2. s[j].open # <<>> /\ s[j].open \in Seq(DOMAIN new)
      BY <1>3, <3>1 DEF Walk, Steps, Place
    <3>3. Deeper(x, s[j].open, k) # <<>>
      <4>1. Moves(DOMAIN new, k, Nat) /\ x \in Seq(Nat) /\ k \in Nat
        <5>1. DOMAIN new \subseteq Nat /\ DOMAIN cs \subseteq Nat /\ k \in Nat
          OBVIOUS
        <5>2. \A i \in DOMAIN new : i + k \in Nat
          BY <5>1
        <5> QED
          BY <1>2, <5>1, <5>2, SeqMonotonic DEF Moves
      <4> QED
        BY <3>2, <4>1, DeeperLast, SMTT(30)
    <3>4. q[n] = mv(s[j])
      BY <1>10, <3>1
    <3> QED
      BY <3>3, <3>4 DEF mv, Moved
  <2> QED
    BY <1>1, <2>1, <2>2
<1>16. Steps(all, both, q)
  <2>1. q[0].open = <<>>
    BY <1>13 DEF Walk, Steps
  <2> QED
    BY <1>1, <1>10, <1>14, <1>15, <2>1 DEF Steps
<1>17. Laid(all, q[0].pos, q[N + L].pos)
  <2>1. Laid(cs, r[0].pos, m)
    BY DEF Walk
  <2>2. Laid(Shifted(new, m), m, m + BSize(new[1]))
    BY <1>2, <1>3, <1>4, ShiftedLaid DEF Walk
  <2>3. r[0].pos \in Nat /\ r[0].pos <= m
    <3>1. 0 \in 0 .. Len(called)
      BY <1>1
    <3> QED
      BY <1>1, <3>1, PlaceTyped, WalkForward
  <2>4. Laid(all, r[0].pos, m + BSize(new[1]))
    <3> DEFINE to == m + BSize(new[1])
               w == Shifted(new, m)
    <3>1. to \in Nat /\ m <= to /\ w \in Seq(Intact)
      BY <1>2, <1>4, <1>6
    <3> HIDE DEF to, w, m
    <3>2. Laid(cs \o w, r[0].pos, to)
      BY <1>2, <2>1, <2>2, <2>3, <3>1, LaidOn DEF to, w
    <3> QED
      BY <3>2 DEF all, w, to, m
  <2> QED
    BY <1>12, <1>13, <2>4
<1>18. Walk(all, both, q)
  BY <1>1, <1>16, <1>17 DEF Walk
<1> QED
  BY <1>1, <1>7, <1>12, <1>13, <1>18 DEF all, both, q, JoinsTo
-----------------------------------------------------------------------------
(* A message as far as it is built, size bytes of it with the id, with the *)
(* values at st open, of the kinds op: a walk through it ends where they   *)
(* are open, and they are those without a size.                            *)
OpenAre(cs, open, st, op) ==
    /\ Len(open) = Len(st)
    /\ \A d \in DOMAIN st : /\ cs[open[d]].at = st[d]
                            /\ cs[open[d]].kind = op[d]
                            /\ cs[open[d]].field = NoSize
    /\ \A i \in DOMAIN cs : cs[i].field = NoSize => \E d \in DOMAIN st : open[d] = i

Grown(cs, called, size, st, op, r) ==
    /\ cs \in Seq(Intact) /\ called \in Seq(Names)
    /\ Walk(cs, called, r) /\ r[0].pos = Id /\ r[Len(called)].pos = size
    /\ OpenAre(cs, r[Len(called)].open, st, op)

(* A message begins with nothing built and an empty walk.                  *)
LEMMA GrownNone == \E r : Grown(<<>>, <<>>, Id, <<>>, <<>>, r)
<1> DEFINE z == <<>>
           p == [cell |-> 0, ends |-> FALSE, pos |-> Id, open |-> z]
           r == [n \in 0 .. Len(z) |-> p]
<1>1. z \in Seq(Intact) /\ z \in Seq(Names) /\ z \in Seq(DOMAIN z) /\ Len(z) = 0 /\ DOMAIN z = {}
  BY EmptySeq
<1>2. p \in Place(z) /\ p.pos = Id /\ p.open = z
  BY <1>1 DEF Place, Id
<1> HIDE DEF p
<1>3. r \in [0 .. Len(z) -> Place(z)] /\ r[0] = p /\ r[Len(z)] = p
  BY <1>1, <1>2
<1> HIDE DEF r, z
<1>4. Steps(z, z, r)
  <2>1. r[0].open = <<>>
    BY <1>2, <1>3 DEF z
  <2>2. \A n \in 1 .. Len(z) : FALSE
    BY <1>1
  <2>3. \A n \in 1 .. Len(z) - 1 : FALSE
    BY <1>1
  <2> QED
    BY <1>3, <2>1, <2>2, <2>3 DEF Steps
<1>5. Laid(z, r[0].pos, r[Len(z)].pos)
  BY <1>1 DEF Laid
<1>6. OpenAre(z, r[Len(z)].open, z, z)
  BY <1>1, <1>2, <1>3 DEF OpenAre
<1>7. Grown(z, z, Id, z, z, r)
  BY <1>1, <1>2, <1>3, <1>4, <1>5, <1>6 DEF Grown, Walk
<1> QED
  BY <1>7 DEF z

(* What a walk through a message built says of its end.                    *)
Ended(cs, called, size, st, open) ==
    /\ Len(called) \in Nat /\ Len(called) \in 0 .. Len(called)
    /\ size \in Nat /\ Id <= size
    /\ open \in Seq(DOMAIN cs) /\ DOMAIN open = DOMAIN st /\ Len(st) \in Nat
    /\ DOMAIN st = 1 .. Len(st)
    /\ \A d \in DOMAIN open : cs[open[d]].field = NoSize /\ open[d] \in DOMAIN cs
    /\ open = <<>> <=> st = <<>>

(* Where a walk ends its open values are those of the builder.             *)
LEMMA GrownEnd ==
  ASSUME NEW cs, NEW called, NEW size, NEW st \in Seq(Nat), NEW op, NEW r, Grown(cs, called, size, st, op, r)
  PROVE  Ended(cs, called, size, st, r[Len(called)].open)
<1> DEFINE N == Len(called)
           open == r[N].open
<1>1. called \in Seq(Names) /\ cs \in Seq(Intact) /\ Walk(cs, called, r)
      /\ r[0].pos = Id /\ r[N].pos = size /\ OpenAre(cs, open, st, op)
  BY DEF Grown
<1>2. N \in Nat /\ N \in 0 .. N /\ 0 \in 0 .. N
  BY <1>1
<1>3. r[N].pos \in Nat /\ r[0].pos <= r[N].pos
  BY <1>1, <1>2, PlaceTyped, WalkForward
<1>4. open \in Seq(DOMAIN cs)
  BY <1>1, <1>2, PlaceTyped
<1> HIDE DEF open, N
<1>5. Len(open) \in Nat /\ DOMAIN open = 1 .. Len(open) /\ \A d \in DOMAIN open : open[d] \in DOMAIN cs
  BY <1>4
<1>6. Len(st) \in Nat /\ DOMAIN st = 1 .. Len(st) /\ Len(open) = Len(st)
  BY <1>1 DEF OpenAre
<1>7. open = <<>> <=> Len(open) = 0
  BY <1>4, EmptySeq
<1>8. st = <<>> <=> Len(st) = 0
  BY EmptySeq
<1>9. \A d \in DOMAIN open : cs[open[d]].field = NoSize
  BY <1>1, <1>5, <1>6 DEF OpenAre
<1> QED
  BY <1>1, <1>2, <1>3, <1>4, <1>5, <1>6, <1>7, <1>8, <1>9 DEF open, N, Ended

(* An encoded value pushed.                                                *)
LEMMA GrownValue ==
  ASSUME NEW cs, NEW called, NEW size, NEW st \in Seq(Nat), NEW op, NEW r, Grown(cs, called, size, st, op, r),
         called = <<>> \/ st # <<>>,
         NEW v, v.cells \in Seq(Intact), v.cells # <<>>, \A i \in DOMAIN v.cells : v.cells[i].field # NoSize,
         v.calls \in Seq(Names), NEW s, EncodedBy(v, s)
  PROVE  \E q : Grown(cs \o Shifted(v.cells, size), called \o v.calls, size + BSize(v.cells[1]), st, op, q)
<1> DEFINE N == Len(called)
           L == Len(v.calls)
           open == r[N].open
           all == cs \o Shifted(v.cells, size)
           q == Joined(r, s, N, L, open, Len(cs))
<1>1. called \in Seq(Names) /\ cs \in Seq(Intact) /\ Walk(cs, called, r)
      /\ r[0].pos = Id /\ r[N].pos = size /\ OpenAre(cs, open, st, op)
  BY DEF Grown
<1>2. /\ N \in Nat /\ size \in Nat /\ open \in Seq(DOMAIN cs) /\ DOMAIN open = DOMAIN st
      /\ \A d \in DOMAIN open : cs[open[d]].field = NoSize /\ open[d] \in DOMAIN cs
      /\ open = <<>> <=> st = <<>>
  <2>1. Ended(cs, called, size, st, open)
    BY GrownEnd
  <2> HIDE DEF open
  <2> QED
    BY <2>1 DEF Ended
<1>3. Len(called) = 0 \/ open # <<>>
  BY <1>1, <1>2, EmptySeq
<1>4. v.cells[1].field # NoSize
  <2>1. 1 \in DOMAIN v.cells
    OBVIOUS
  <2> QED
    BY <2>1
<1>5. JoinsTo(all, called \o v.calls, q, r, N, L, BSize(v.cells[1]))
  <2> HIDE DEF N, L, open, q, all
  <2> QED
    BY <1>1, <1>2, <1>3, <1>4, ValueJoined DEF N, L, open, q, all
<1>6. called \o v.calls \in Seq(Names)
  BY <1>1
<1>7. OpenAre(all, open, st, op)
  <2> DEFINE w == Shifted(v.cells, size)
             k == Len(cs)
  <2>1. /\ w \in Seq(Intact) /\ Len(w) = Len(v.cells) /\ DOMAIN w = DOMAIN v.cells
        /\ \A i \in DOMAIN w : w[i].field = v.cells[i].field
    <3>1. \A i \in DOMAIN v.cells : Shift(v.cells[i], size).field = v.cells[i].field
      <4>1. \A i \in DOMAIN v.cells : v.cells[i] \in Intact
        OBVIOUS
      <4> QED
        BY <1>2, <4>1, IntactShift
    <3> QED
      BY <1>2, <3>1, ShiftedCells
  <2>2. \A i \in DOMAIN w : w[i].field # NoSize
    BY <2>1
  <2> HIDE DEF w
  <2>3. k \in Nat /\ DOMAIN cs = 1 .. k
    BY <1>1
  <2>4. /\ DOMAIN (cs \o w) = 1 .. k + Len(w) /\ Len(w) \in Nat
        /\ \A i \in DOMAIN cs : (cs \o w)[i] = cs[i]
        /\ \A i \in 1 .. Len(w) : (cs \o w)[k + i] = w[i] /\ i \in DOMAIN w
    <3>1. w \in Seq(Intact) /\ cs \in Seq(Intact)
      BY <1>1, <2>1
    <3> QED
      BY <3>1
  <2>5. all = cs \o w
    BY DEF w
  <2> HIDE DEF all, open
  <2>6. \A d \in DOMAIN st : all[open[d]] = cs[open[d]]
    BY <1>2, <2>4, <2>5
  <2>7. ASSUME NEW i \in DOMAIN all, all[i].field = NoSize PROVE i \in DOMAIN cs /\ all[i] = cs[i]
    <3>1. CASE i <= k
      BY <2>3, <2>4, <2>5, <3>1
    <3>2. CASE i > k
      <4>1. i - k \in 1 .. Len(w) /\ k + (i - k) = i
        BY <2>3, <2>4, <2>5, <3>2
      <4>2. all[i] = w[i - k] /\ i - k \in DOMAIN w
        BY <2>4, <2>5, <4>1
      <4> QED
        BY <2>2, <2>7, <4>2
    <3> QED
      BY <2>3, <2>4, <2>5, <3>1, <3>2
  <2> QED
    BY <1>1, <2>6, <2>7 DEF OpenAre
<1>8. Grown(all, called \o v.calls, size + BSize(v.cells[1]), st, op, q)
  <2> HIDE DEF N, L, q, all
  <2> QED
    BY <1>1, <1>5, <1>6, <1>7 DEF Grown, JoinsTo
<1> QED
  BY <1>8

(* A leaf or a key is an encoded value of one cell.                        *)
LEMMA LeafEncoded ==
  ASSUME NEW c \in Intact, c.at = 0, c.kind \notin Containers, c.field # NoSize
  PROVE  \E s : EncodedBy([cells |-> <<c>>, calls |-> <<Callback(c.kind)>>], s)
<1> DEFINE cs == <<c>>
           called == <<Callback(c.kind)>>
           v == [cells |-> cs, calls |-> called]
           z == <<>>
           a == [cell |-> 0, ends |-> FALSE, pos |-> 0, open |-> z]
           b == [cell |-> 1, ends |-> FALSE, pos |-> BSize(c), open |-> z]
           s == [n \in 0 .. Len(called) |-> IF n = 0 THEN a ELSE b]
<1>0. called \in Seq(Names)
  <2>1. c.kind \in Kinds
    BY IntactSize
  <2>2. Callback(c.kind) \in Names
    BY <2>1 DEF Names
  <2> QED
    BY <2>2
<1>1. DOMAIN cs = {1} /\ cs[1] = c /\ Len(called) = 1 /\ called[1] = Callback(c.kind) /\ v.cells = cs /\ v.calls = called
  OBVIOUS
<1>2. BSize(c) \in Nat \ {0} /\ Over(c) = BSize(c)
  BY IntactSize DEF Over
<1>3. a \in Place(cs) /\ b \in Place(cs)
  <2>1. z \in Seq(DOMAIN cs)
    BY EmptySeq
  <2> HIDE DEF z, cs
  <2> QED
    BY <1>2, <2>1 DEF Place
<1>4. /\ a.pos = 0 /\ a.open = z /\ b.cell = 1 /\ ~b.ends /\ b.pos = BSize(c) /\ b.open = z
      /\ DOMAIN z = {}
  OBVIOUS
<1> HIDE DEF a, b, cs, called, z
<1>5. s \in [0 .. Len(called) -> Place(cs)] /\ s[0] = a /\ s[1] = b
  BY <1>1, <1>3
<1> HIDE DEF s
<1>6. Walked(cs, called[1], s[0], s[1])
  <2>1. Passes(c, called[1], a, b)
    BY <1>1, <1>2, <1>4 DEF Passes
  <2>2. b.cell \in DOMAIN cs /\ cs[b.cell] = c /\ DOMAIN a.open = {}
    BY <1>1, <1>4
  <2> QED
    BY <1>5, <2>1, <2>2 DEF Walked
<1>7. Steps(cs, called, s)
  <2>1. s[0].open = <<>>
    BY <1>4, <1>5 DEF z
  <2>2. \A n \in 1 .. Len(called) : n = 1 /\ n - 1 = 0
    BY <1>1
  <2>3. \A n \in 1 .. Len(called) - 1 : FALSE
    BY <1>1
  <2> QED
    BY <1>5, <1>6, <2>1, <2>2, <2>3 DEF Steps
<1>8. Laid(cs, 0, BSize(c))
  BY <1>1, <1>2 DEF Laid
<1>9. Walk(cs, called, s)
  BY <1>1, <1>4, <1>5, <1>7, <1>8 DEF Walk
<1>10. EncodedBy(v, s)
  <2>1. s[Len(called)].open = <<>> /\ s[Len(called)].pos = BSize(cs[1]) /\ s[0].pos = 0
    BY <1>1, <1>4, <1>5 DEF z
  <2> QED
    BY <1>0, <1>1, <1>9, <2>1 DEF EncodedBy
<1> QED
  BY <1>10 DEF cs, called

(* An object or array opened.                                              *)
LEMMA GrownOpen ==
  ASSUME NEW cs, NEW called, NEW size, NEW st \in Seq(Nat), NEW op \in Seq(Containers), Len(op) = Len(st),
         NEW r, Grown(cs, called, size, st, op, r), called = <<>> \/ st # <<>>,
         NEW kind \in Containers
  PROVE  \E q : Grown(cs \o Shifted(<<Cell(kind, NoSize, 5)>>, size), called \o <<Begins(kind)>>,
                      size + 5, Append(st, size), Append(op, kind), q)
<1> DEFINE N == Len(called)
           open == r[N].open
           c == Shift(Cell(kind, NoSize, 5), size)
           all == Append(cs, c)
           name == Begins(kind)
           b == [cell |-> Len(cs) + 1, ends |-> FALSE, pos |-> size + 5, open |-> Append(open, Len(cs) + 1)]
           q == Longer(r, N, b)
<1>1. called \in Seq(Names) /\ cs \in Seq(Intact) /\ Walk(cs, called, r)
      /\ r[0].pos = Id /\ r[N].pos = size /\ OpenAre(cs, open, st, op)
  BY DEF Grown
<1>2. Ended(cs, called, size, st, open)
  BY GrownEnd
<1> HIDE DEF open, N
<1>3. size \in Nat /\ N \in Nat /\ Id \in Nat /\ N = Len(called)
  BY <1>2 DEF Ended, N, Id
<1>4. c \in Intact /\ c.kind = kind /\ c.field = NoSize /\ c.at = size
  <2>1. kind \in Kinds
    BY KindsSized DEF Containers
  <2>2. Cell(kind, NoSize, 5) \in Intact
    BY <2>1 DEF Cell, Intact
  <2>3. Cell(kind, NoSize, 5).kind = kind /\ Cell(kind, NoSize, 5).field = NoSize /\ Cell(kind, NoSize, 5).at = 0
    BY DEF Cell
  <2> DEFINE e == Cell(kind, NoSize, 5)
  <2>4. e \in Intact /\ e.kind = kind /\ e.field = NoSize /\ e.at = 0
    BY <2>2, <2>3
  <2> HIDE DEF e
  <2>5. /\ Shift(e, size) \in Intact /\ Shift(e, size).kind = kind
        /\ Shift(e, size).field = NoSize /\ Shift(e, size).at = 0 + size
    BY <1>3, <2>4, IntactShift
  <2>6. 0 + size = size
    BY <1>3
  <2> QED
    BY <2>5, <2>6 DEF e
<1>5. cs \o Shifted(<<Cell(kind, NoSize, 5)>>, size) = all
  <2>1. Shifted(<<Cell(kind, NoSize, 5)>>, size) = <<c>>
    <3> HIDE DEF c
    <3> DEFINE e == Cell(kind, NoSize, 5)
    <3>1. c = Shift(e, size)
      BY DEF c
    <3> HIDE DEF e
    <3>2. DOMAIN <<e>> = {1} /\ <<e>>[1] = e
      OBVIOUS
    <3>3. [i \in DOMAIN <<e>> |-> Shift(<<e>>[i], size)] = <<Shift(e, size)>>
      OBVIOUS
    <3> QED
      BY <3>1, <3>3 DEF Shifted, e
  <2> HIDE DEF c
  <2> QED
    BY <1>1, <1>4, <2>1, AppendIsConcat
<1> HIDE DEF c
<1>6. /\ all \in Seq(Intact) /\ Len(all) = Len(cs) + 1 /\ Len(cs) \in Nat
      /\ all[Len(cs) + 1] = c /\ \A i \in DOMAIN cs : all[i] = cs[i]
      /\ DOMAIN cs = 1 .. Len(cs) /\ DOMAIN all = 1 .. Len(cs) + 1
  BY <1>1, <1>4
<1>7. name \in Names
  BY DEF Names
<1> HIDE DEF all, name
<1>8. Steps(all, called, r)
  <2>1. Len(called) \in Nat /\ Len(cs) <= Len(all)
    BY <1>3, <1>6
  <2> QED
    BY <1>1, <1>6, <2>1, StepsKept
<1>9. b \in Place(all) /\ b.cell = Len(cs) + 1 /\ ~b.ends /\ b.pos = size + 5 /\ b.open = Append(open, Len(cs) + 1)
  <2> DEFINE D == DOMAIN all
             e == Len(cs) + 1
  <2>1. D = 1 .. e /\ DOMAIN cs \subseteq D /\ e \in D /\ e \in Nat
    BY <1>6
  <2> HIDE DEF D, e
  <2>2. open \in Seq(D)
    BY <1>2, <2>1, SeqMonotonic DEF Ended
  <2>3. Append(open, e) \in Seq(D)
    BY <2>1, <2>2
  <2>4. size + 5 \in Nat
    BY <1>3
  <2> HIDE DEF b
  <2>5. b = [cell |-> e, ends |-> FALSE, pos |-> size + 5, open |-> Append(open, e)]
    BY DEF b, e
  <2> QED
    BY <2>1, <2>3, <2>4, <2>5 DEF Place, D, e
<1> HIDE DEF b
<1>10. Walked(all, name, r[N], b)
  <2>1. Enters(c, name, r[N], b)
    BY <1>1, <1>4, <1>9 DEF Enters, name, open
  <2>2. \A d \in DOMAIN open : all[open[d]].field = NoSize
    BY <1>2, <1>6 DEF Ended
  <2>3. b.cell \in DOMAIN all /\ all[b.cell] = c
    BY <1>6, <1>9
  <2> QED
    BY <2>1, <2>2, <2>3 DEF Walked, open
<1>11. /\ Steps(all, Append(called, name), q)
       /\ Len(Append(called, name)) = N + 1
       /\ q[0] = r[0] /\ q[N + 1] = b
  <2>1. Len(called) = 0 \/ r[Len(called)].open # <<>>
    <3>1. called = <<>> => Len(called) = 0
      BY EmptySeq
    <3>2. st # <<>> => open # <<>>
      BY <1>2 DEF Ended
    <3> QED
      BY <3>1, <3>2 DEF open, N
  <2> HIDE DEF q
  <2> QED
    BY <1>1, <1>7, <1>8, <1>9, <1>10, <2>1, StepMore DEF N, q
<1> HIDE DEF q
<1>12. Laid(all, q[0].pos, q[N + 1].pos)
  <2>1. Laid(cs, Id, size)
    BY <1>1 DEF Walk, N
  <2>2. ASSUME NEW i \in DOMAIN all
        PROVE  \/ i \in DOMAIN cs /\ all[i] = cs[i] /\ all[i].at \in Nat /\ i \in Nat
               \/ i = Len(cs) + 1 /\ all[i].at = size
    <3>1. CASE i = Len(cs) + 1
      BY <1>4, <1>6, <3>1
    <3>2. CASE i # Len(cs) + 1
      <4>1. i \in DOMAIN cs /\ i \in Nat
        BY <1>6, <3>2
      <4>2. cs[i] \in Intact
        BY <1>1, <4>1
      <4>3. all[i] = cs[i] /\ all[i].at \in Nat
        BY <1>6, <4>1, <4>2, IntactSize
      <4> QED
        BY <4>1, <4>3, Zenon
    <3> QED
      BY <3>1, <3>2
  <2>3. ASSUME NEW i \in DOMAIN all PROVE Id <= all[i].at /\ all[i].at < size + 5
    <3>1. CASE i \in DOMAIN cs /\ all[i] = cs[i] /\ all[i].at \in Nat
      <4>1. Id <= all[i].at /\ all[i].at < size
        BY <2>1, <3>1 DEF Laid
      <4> QED
        BY <1>3, <3>1, <4>1
    <3>2. CASE all[i].at = size
      BY <1>2, <1>3, <3>2 DEF Ended
    <3> QED
      BY <2>2, <3>1, <3>2
  <2>4. ASSUME NEW i \in DOMAIN all, NEW j \in DOMAIN all, i < j PROVE all[i].at < all[j].at
    <3>1. i \in DOMAIN cs /\ all[i] = cs[i]
      BY <1>6, <2>4
    <3>2. CASE j \in DOMAIN cs /\ all[j] = cs[j]
      BY <2>1, <2>4, <3>1, <3>2 DEF Laid
    <3>3. CASE all[j].at = size
      BY <2>1, <3>1, <3>3 DEF Laid
    <3> QED
      BY <2>2, <3>2, <3>3
  <2>5. q[0].pos = Id /\ q[N + 1].pos = size + 5
    BY <1>1, <1>9, <1>11
  <2> QED
    BY <2>3, <2>4, <2>5 DEF Laid
<1>13. OpenAre(all, b.open, Append(st, size), Append(op, kind))
  <2> DEFINE new == Append(open, Len(cs) + 1)
             st2 == Append(st, size)
             op2 == Append(op, kind)
             D == Len(st)
  <2>1. D \in Nat /\ Len(open) = D /\ DOMAIN st = 1 .. D /\ DOMAIN open = 1 .. D
        /\ \A d \in 1 .. D : open[d] \in DOMAIN cs /\ all[open[d]] = cs[open[d]]
    <3>1. Len(open) = D /\ DOMAIN open = DOMAIN st /\ DOMAIN st = 1 .. D /\ D \in Nat
      BY <1>1, <1>2 DEF Ended, OpenAre
    <3> QED
      BY <1>2, <1>6, <3>1 DEF Ended
  <2>2. open \in Seq(DOMAIN cs)
    BY <1>2 DEF Ended
  <2>3. Len(new) = D + 1 /\ new[D + 1] = Len(cs) + 1 /\ \A d \in 1 .. D : new[d] = open[d]
    <3> DEFINE e == Len(cs) + 1
               S == DOMAIN cs \cup {e}
    <3>1. open \in Seq(S) /\ e \in S
      BY <2>2, SeqMonotonic
    <3> HIDE DEF e, S
    <3>2. Len(Append(open, e)) = Len(open) + 1 /\ Append(open, e)[Len(open) + 1] = e
          /\ \A d \in 1 .. Len(open) : Append(open, e)[d] = open[d]
      BY <3>1, AppendProperties
    <3> QED
      BY <2>1, <3>2 DEF e
  <2>4. Len(st2) = D + 1 /\ st2[D + 1] = size /\ (\A d \in 1 .. D : st2[d] = st[d]) /\ DOMAIN st2 = 1 .. D + 1
    BY <1>3
  <2>5. op2[D + 1] = kind /\ \A d \in 1 .. D : op2[d] = op[d]
    BY <2>1
  <2> HIDE DEF new, st2, op2, D
  <2>6. ASSUME NEW d \in DOMAIN st2
        PROVE  all[new[d]].at = st2[d] /\ all[new[d]].kind = op2[d] /\ all[new[d]].field = NoSize
    <3>1. CASE d = D + 1
      BY <1>4, <1>6, <2>3, <2>4, <2>5, <3>1
    <3>2. CASE d # D + 1
      <4>1. d \in 1 .. D /\ d \in DOMAIN st
        BY <2>1, <2>4, <3>2
      <4>2. cs[open[d]].at = st[d] /\ cs[open[d]].kind = op[d] /\ cs[open[d]].field = NoSize
        BY <1>1, <4>1 DEF OpenAre
      <4> QED
        BY <2>1, <2>3, <2>4, <2>5, <4>1, <4>2
    <3> QED
      BY <3>1, <3>2
  <2>7. ASSUME NEW i \in DOMAIN all, all[i].field = NoSize PROVE \E d \in DOMAIN st2 : new[d] = i
    <3>1. CASE i = Len(cs) + 1
      <4>1. D + 1 \in DOMAIN st2 /\ new[D + 1] = i
        BY <2>1, <2>3, <2>4, <3>1
      <4> QED
        BY <4>1
    <3>2. CASE i # Len(cs) + 1
      <4>1. i \in DOMAIN cs /\ cs[i].field = NoSize
        BY <1>6, <2>7, <3>2
      <4>2. PICK d \in DOMAIN st : open[d] = i
        BY <1>1, <4>1 DEF OpenAre
      <4>3. d \in 1 .. D /\ d \in DOMAIN st2
        BY <2>1, <2>4, <4>2
      <4> QED
        BY <2>3, <4>2, <4>3
    <3> QED
      BY <3>1, <3>2
  <2>8. Len(new) = Len(st2)
    BY <2>3, <2>4
  <2>9. OpenAre(all, new, st2, op2)
    BY <2>6, <2>7, <2>8 DEF OpenAre
  <2> QED
    BY <1>9, <2>9 DEF new, st2, op2
<1>14. Append(called, name) \in Seq(Names) /\ called \o <<name>> = Append(called, name)
  BY <1>1, <1>7, AppendIsConcat, AppendProperties
<1>15. Grown(all, Append(called, name), size + 5, Append(st, size), Append(op, kind), q)
  <2> DEFINE both == Append(called, name)
             st2 == Append(st, size)
             op2 == Append(op, kind)
  <2>1. /\ both \in Seq(Names) /\ Len(both) = N + 1 /\ Steps(all, both, q)
        /\ OpenAre(all, b.open, st2, op2)
    BY <1>11, <1>13, <1>14
  <2> HIDE DEF both, st2, op2
  <2>2. Walk(all, both, q)
    BY <1>12, <2>1 DEF Walk
  <2>3. q[0].pos = Id /\ q[Len(both)].pos = size + 5 /\ q[Len(both)].open = b.open
    BY <1>1, <1>9, <1>11, <2>1
  <2>4. OpenAre(all, q[Len(both)].open, st2, op2)
    BY <2>1, <2>3
  <2>5. Grown(all, both, size + 5, st2, op2, q)
    BY <1>6, <2>1, <2>2, <2>3, <2>4 DEF Grown
  <2> QED
    BY <2>5 DEF both, st2, op2
<1> QED
  BY <1>5, <1>14, <1>15 DEF name
-----------------------------------------------------------------------------
(* Closed, of any cells.                                                   *)
Sealed(cs, offsets, size) ==
    [i \in DOMAIN cs |-> IF cs[i].at \in offsets THEN [cs[i] EXCEPT !.field = size - cs[i].at - 5] ELSE cs[i]]

(* The size of the innermost open value written: j is its cell.            *)
SealsTo(cs, all, j, size) ==
    /\ all \in Seq(Intact) /\ Len(all) = Len(cs) /\ DOMAIN all = DOMAIN cs
    /\ j \in DOMAIN cs /\ all[j] \in Intact
    /\ all[j].kind = cs[j].kind /\ all[j].at = cs[j].at
    /\ all[j].field = size - cs[j].at - 5 /\ all[j].field # NoSize
    /\ \A i \in DOMAIN cs : i # j => all[i] = cs[i]

(* Of cells that lie one behind the other only the one at the offset is    *)
(* written.                                                                *)
LEMMA SealedCells ==
  ASSUME NEW cs \in Seq(Intact), NEW from, NEW to, Laid(cs, from, to), NEW j \in DOMAIN cs,
         NEW size \in Nat, cs[j].at + 5 <= size
  PROVE  SealsTo(cs, Sealed(cs, {cs[j].at}, size), j, size)
<1> DEFINE all == Sealed(cs, {cs[j].at}, size)
<1>1. DOMAIN cs = 1 .. Len(cs) /\ Len(cs) \in Nat /\ \A i \in DOMAIN cs : cs[i] \in Intact
  OBVIOUS
<1>2. ASSUME NEW i \in DOMAIN cs, i # j PROVE cs[i].at # cs[j].at
  <2>1. i < j \/ j < i
    BY <1>1, <1>2
  <2>2. cs[i].at < cs[j].at \/ cs[j].at < cs[i].at
    BY <2>1 DEF Laid
  <2>3. cs[i].at \in Nat /\ cs[j].at \in Nat
    BY <1>1, IntactSize
  <2> QED
    BY <2>2, <2>3
<1> DEFINE e == [cs[j] EXCEPT !.field = size - cs[j].at - 5]
<1>3. /\ e \in Intact /\ e.kind = cs[j].kind /\ e.at = cs[j].at
      /\ e.field = size - cs[j].at - 5 /\ e.field # NoSize
  <2>1. cs[j] \in Intact
    BY <1>1
  <2>2. cs[j].at \in Nat /\ size - cs[j].at - 5 \in Nat
    BY <2>1, IntactSize
  <2> DEFINE n == size - cs[j].at - 5
             g == cs[j]
  <2>3. n \in Nat /\ n # NoSize
    BY <2>2 DEF NoSize
  <2> HIDE DEF n, g
  <2>4. /\ [g EXCEPT !.field = n] \in Intact /\ [g EXCEPT !.field = n].kind = g.kind
        /\ [g EXCEPT !.field = n].at = g.at /\ [g EXCEPT !.field = n].field = n
    BY <2>1, <2>3 DEF Intact, g
  <2> QED
    BY <2>3, <2>4 DEF n, g
<1>4. all = [i \in DOMAIN cs |-> IF cs[i].at \in {cs[j].at} THEN [cs[i] EXCEPT !.field = size - cs[i].at - 5] ELSE cs[i]]
  BY DEF Sealed
<1>5. all[j] = e
  <2> HIDE DEF all
  <2> QED
    BY <1>4
<1>6. \A i \in DOMAIN cs : i # j => all[i] = cs[i]
  <2> HIDE DEF all
  <2> QED
    BY <1>2, <1>4
<1>7. DOMAIN all = DOMAIN cs
  BY <1>4
<1> HIDE DEF all, e
<1>8. all \in [1 .. Len(cs) -> Intact]
  <2>1. \A i \in DOMAIN cs : all[i] \in Intact
    BY <1>1, <1>3, <1>5, <1>6
  <2>2. all = [i \in DOMAIN cs |-> all[i]]
    BY <1>4, <1>7
  <2> QED
    BY <1>1, <2>1, <2>2
<1>9. all \in Seq(Intact) /\ Len(all) = Len(cs)
  BY <1>1, <1>8, LenProperties, SeqDef
<1> QED
  BY <1>3, <1>5, <1>6, <1>7, <1>9 DEF SealsTo, all

(* A walk goes as it went when it ends in the value that is closed.        *)
LEMMA StepsSealed ==
  ASSUME NEW cs \in Seq(Intact), NEW called, Len(called) \in Nat, NEW r, Walk(cs, called, r),
         NEW j, NEW size \in Nat, size = r[Len(called)].pos,
         NEW all, SealsTo(cs, all, j, size), cs[j].field = NoSize, cs[j].kind \in Containers
  PROVE  Steps(all, called, r)
<1>1. /\ all \in Seq(Intact) /\ DOMAIN all = DOMAIN cs /\ j \in DOMAIN cs
      /\ all[j].kind = cs[j].kind /\ all[j].at = cs[j].at
      /\ all[j].field = size - cs[j].at - 5
      /\ \A i \in DOMAIN cs : i # j => all[i] = cs[i]
  BY DEF SealsTo
<1>2. Over(all[j]) = size
  <2>1. all[j] \in Intact /\ cs[j] \in Intact
    BY <1>1 DEF SealsTo
  <2>2. cs[j].at \in Nat /\ BSize(all[j]) = 5 + all[j].field
    BY <1>1, <2>1, IntactSize
  <2> QED
    BY <1>1, <2>2 DEF Over
<1>3. ASSUME NEW n \in 1 .. Len(called) PROVE Walked(all, called[n], r[n - 1], r[n])
  <2> DEFINE a == r[n - 1]
             b == r[n]
             c == cs[b.cell]
             e == all[b.cell]
  <2>1. /\ Walked(cs, called[n], a, b) /\ b.cell \in DOMAIN cs
        /\ n - 1 \in 0 .. Len(called) /\ n \in 0 .. Len(called)
        /\ ~b.ends => a.pos < b.pos
    BY WalkOn
  <2>2. /\ a.pos \in Nat /\ b.pos \in Nat
        /\ \A d \in DOMAIN a.open : a.open[d] \in DOMAIN cs
    BY <2>1, PlaceTyped
  <2>3. b.pos <= size
    BY <2>1, WalkForward
  <2>4. c.kind = e.kind /\ c.at = e.at
    BY <1>1, <2>1
  <2>5. (c.kind \notin Containers \/ c.field # NoSize) => c = e
    BY <1>1, <2>1
  <2>6. Passes(e, called[n], a, b) \/ Enters(e, called[n], a, b) \/ Exits(e, called[n], a, b)
    <3>1. CASE Passes(c, called[n], a, b)
      <4>1. c = e
        BY <2>5, <3>1 DEF Passes
      <4> QED
        BY <3>1, <4>1
    <3>2. CASE Enters(c, called[n], a, b)
      BY <2>4, <3>2 DEF Enters
    <3>3. CASE Exits(c, called[n], a, b)
      <4>1. c = e
        BY <2>5, <3>3 DEF Exits
      <4> QED
        BY <3>3, <4>1
    <3> QED
      BY <2>1, <3>1, <3>2, <3>3 DEF Walked
  <2>7. ASSUME ~b.ends, NEW d \in DOMAIN a.open, all[a.open[d]].field # NoSize
        PROVE  a.pos < Over(all[a.open[d]])
    <3>1. CASE a.open[d] = j
      BY <1>2, <2>1, <2>2, <2>3, <2>7, <3>1
    <3>2. CASE a.open[d] # j
      <4>1. all[a.open[d]] = cs[a.open[d]]
        BY <1>1, <2>2, <3>2
      <4> QED
        BY <2>1, <2>7, <4>1 DEF Walked
    <3> QED
      BY <3>1, <3>2
  <2>8. b.cell \in DOMAIN all
    BY <1>1, <2>1
  <2> QED
    BY <2>6, <2>7, <2>8 DEF Walked
<1>4. r \in [0 .. Len(called) -> Place(all)]
  BY <1>1 DEF Walk, Steps, Place
<1> QED
  BY <1>3, <1>4 DEF Walk, Steps

(* All but the last.                                                       *)
Front1(s) == SubSeq(s, 1, Len(s) - 1)

(* The innermost open value closed.                                        *)
LEMMA GrownClose ==
  ASSUME NEW cs, NEW called, NEW size, NEW st \in Seq(Nat), NEW op \in Seq(Containers), Len(op) = Len(st),
         NEW r, Grown(cs, called, size, st, op, r), st # <<>>,
         \A d \in DOMAIN st : st[d] + 5 <= size,
         \A d, e \in DOMAIN st : d < e => st[d] < st[e]
  PROVE  \E q : Grown(Sealed(cs, {st[Len(st)]}, size), Append(called, Ends(op[Len(st)])),
                      size, Front1(st), Front1(op), q)
<1> DEFINE N == Len(called)
           open == r[N].open
           D == Len(st)
           j == open[D]
           all == Sealed(cs, {st[D]}, size)
           name == Ends(op[D])
           b == [cell |-> j, ends |-> TRUE, pos |-> size, open |-> Front1(open)]
           q == Longer(r, N, b)
<1>1. called \in Seq(Names) /\ cs \in Seq(Intact) /\ Walk(cs, called, r)
      /\ r[0].pos = Id /\ r[N].pos = size /\ OpenAre(cs, open, st, op)
  BY DEF Grown
<1>2. Ended(cs, called, size, st, open)
  BY GrownEnd
<1> HIDE DEF open, N
<1>3. size \in Nat /\ N \in Nat /\ N = Len(called) /\ N \in 0 .. N
  BY <1>2 DEF Ended, N
<1>4. /\ D \in Nat \ {0} /\ D \in DOMAIN st /\ DOMAIN st = 1 .. D
      /\ open \in Seq(DOMAIN cs) /\ Len(open) = D /\ DOMAIN open = 1 .. D /\ open # <<>>
  BY <1>1, <1>2 DEF Ended, OpenAre
<1>5. /\ j \in DOMAIN cs /\ cs[j].at = st[D] /\ cs[j].kind = op[D] /\ cs[j].field = NoSize
      /\ op[D] \in Containers /\ st[D] + 5 <= size
  BY <1>1, <1>2, <1>4 DEF Ended, OpenAre
<1> HIDE DEF D, j, all, name
<1>6. SealsTo(cs, all, j, size)
  <2>1. Laid(cs, Id, size)
    BY <1>1 DEF Walk, N
  <2> QED
    BY <1>1, <1>3, <1>5, <2>1, SealedCells DEF all
<1>7. Steps(all, called, r)
  <2>1. Len(called) \in Nat /\ size = r[Len(called)].pos
    BY <1>1, <1>3
  <2> QED
    BY <1>1, <1>3, <1>5, <1>6, <2>1, StepsSealed
<1>8. Front1(open) \in Seq(DOMAIN cs) /\ Len(Front1(open)) = D - 1
      /\ \A d \in 1 .. D - 1 : Front1(open)[d] = open[d]
  <2>1. Front1(open) \in Seq(DOMAIN cs) /\ Len(Front1(open)) = Len(open) - 1
        /\ \A d \in DOMAIN Front1(open) : Front1(open)[d] = open[d]
    BY <1>4, Shortened DEF Front1
  <2> DEFINE f == Front1(open)
  <2> HIDE DEF f
  <2>2. f \in Seq(DOMAIN cs) /\ Len(f) = D - 1 /\ \A d \in DOMAIN f : f[d] = open[d]
    BY <1>4, <2>1 DEF f
  <2>3. DOMAIN f = 1 .. D - 1
    BY <2>2
  <2> QED
    BY <2>2, <2>3 DEF f
<1>9. b \in Place(all) /\ b.cell = j /\ b.ends /\ b.pos = size /\ b.open = Front1(open)
  <2> HIDE DEF b
  <2>1. b = [cell |-> j, ends |-> TRUE, pos |-> size, open |-> Front1(open)]
    BY DEF b
  <2>2. j \in Nat /\ DOMAIN all = DOMAIN cs
    BY <1>1, <1>5, <1>6 DEF SealsTo
  <2>3. Front1(open) \in Seq(DOMAIN all)
    BY <1>8, <2>2
  <2> QED
    BY <1>3, <2>1, <2>2, <2>3 DEF Place
<1> HIDE DEF b
<1>10. Walked(all, name, r[N], b)
  <2>1. all[j] \in Intact /\ all[j].kind = op[D] /\ all[j].at = cs[j].at /\ all[j].field = size - cs[j].at - 5
        /\ all[j].field # NoSize /\ j \in DOMAIN all /\ cs[j].at \in Nat
    <3>1. cs[j] \in Intact
      BY <1>1, <1>5
    <3> QED
      BY <1>5, <1>6, <3>1, IntactSize DEF SealsTo
  <2>2. Over(all[j]) = size
    <3>1. BSize(all[j]) = 5 + all[j].field
      BY <1>5, <2>1, IntactSize
    <3> QED
      BY <1>3, <2>1, <3>1 DEF Over
  <2>3. open[Len(open)] = j /\ Front1(open) = SubSeq(open, 1, Len(open) - 1)
    BY <1>4 DEF Front1, j
  <2>4. Exits(all[j], name, r[N], b)
    BY <1>1, <1>4, <1>5, <1>9, <2>1, <2>2, <2>3 DEF Exits, name, open
  <2> QED
    BY <1>9, <2>1, <2>4 DEF Walked
<1>11. /\ Steps(all, Append(called, name), q)
       /\ Len(Append(called, name)) = N + 1
       /\ q[0] = r[0] /\ q[N + 1] = b
  <2>1. Len(called) = 0 \/ r[Len(called)].open # <<>>
    BY <1>4 DEF open, N
  <2>2. name \in Names
    BY <1>5 DEF Names, name
  <2> HIDE DEF q
  <2> QED
    BY <1>1, <1>7, <1>9, <1>10, <2>1, <2>2, StepMore DEF N, q
<1> HIDE DEF q
<1>12. Laid(all, q[0].pos, q[N + 1].pos)
  <2>1. Laid(cs, Id, size)
    BY <1>1 DEF Walk, N
  <2>2. DOMAIN all = DOMAIN cs /\ \A i \in DOMAIN cs : all[i].at = cs[i].at
    BY <1>6 DEF SealsTo
  <2>3. q[0].pos = Id /\ q[N + 1].pos = size
    BY <1>1, <1>9, <1>11
  <2> QED
    BY <2>1, <2>2, <2>3 DEF Laid
<1>13. Append(called, name) \in Seq(Names)
  <2>1. name \in Names
    BY <1>5 DEF Names, name
  <2> QED
    BY <1>1, <2>1, AppendProperties
<1>14. OpenAre(all, b.open, Front1(st), Front1(op))
  <2> DEFINE st2 == Front1(st)
             op2 == Front1(op)
             f == Front1(open)
  <2>1. Len(st2) = D - 1 /\ DOMAIN st2 = 1 .. D - 1 /\ \A d \in 1 .. D - 1 : st2[d] = st[d]
    <3>1. st2 \in Seq(Nat) /\ Len(st2) = Len(st) - 1 /\ \A d \in DOMAIN st2 : st2[d] = st[d]
      BY Shortened DEF Front1
    <3> HIDE DEF st2
    <3>2. DOMAIN st2 = 1 .. D - 1
      BY <1>4, <3>1 DEF D
    <3> QED
      BY <3>1, <3>2 DEF D
  <2>2. \A d \in 1 .. D - 1 : op2[d] = op[d]
    <3>0. op # <<>>
      BY <1>4 DEF D
    <3>1. op2 \in Seq(Containers) /\ Len(op2) = Len(op) - 1 /\ \A d \in DOMAIN op2 : op2[d] = op[d]
      BY <3>0, Shortened DEF Front1
    <3> HIDE DEF op2
    <3>2. DOMAIN op2 = 1 .. D - 1
      BY <1>4, <3>1 DEF D
    <3> QED
      BY <3>1, <3>2
  <2> HIDE DEF st2, op2, f
  <2>3. ASSUME NEW d \in 1 .. D - 1
        PROVE  /\ open[d] \in DOMAIN cs /\ open[d] # j /\ all[open[d]] = cs[open[d]]
               /\ d \in DOMAIN st /\ f[d] = open[d]
    <3>1. d \in DOMAIN st /\ d < D
      BY <1>4
    <3>2. cs[open[d]].at = st[d] /\ open[d] \in DOMAIN cs
      BY <1>1, <1>4, <3>1 DEF OpenAre
    <3>3. st[d] < st[D] /\ st[d] \in Nat /\ st[D] \in Nat
      BY <1>4, <3>1
    <3>4. open[d] # j
      BY <1>5, <3>2, <3>3
    <3> QED
      BY <1>6, <1>8, <3>1, <3>2, <3>4 DEF SealsTo, f
  <2>4. ASSUME NEW d \in DOMAIN st2
        PROVE  all[f[d]].at = st2[d] /\ all[f[d]].kind = op2[d] /\ all[f[d]].field = NoSize
    <3>1. d \in 1 .. D - 1
      BY <2>1
    <3>2. d \in DOMAIN st /\ all[f[d]] = cs[open[d]]
      BY <2>3, <3>1
    <3> QED
      BY <1>1, <2>1, <2>2, <3>1, <3>2 DEF OpenAre
  <2>5. ASSUME NEW i \in DOMAIN all, all[i].field = NoSize PROVE \E d \in DOMAIN st2 : f[d] = i
    <3>1. i \in DOMAIN cs /\ i # j
      BY <1>6, <2>5 DEF SealsTo
    <3>2. cs[i].field = NoSize
      BY <1>6, <2>5, <3>1 DEF SealsTo
    <3>3. PICK d \in DOMAIN st : open[d] = i
      BY <1>1, <3>1, <3>2 DEF OpenAre
    <3>4. d # D
      BY <3>1, <3>3 DEF j
    <3>5. d \in 1 .. D - 1
      BY <1>4, <3>3, <3>4
    <3> QED
      BY <2>1, <2>3, <3>3, <3>5
  <2>6. Len(f) = Len(st2)
    BY <1>8, <2>1 DEF f
  <2>7. OpenAre(all, f, st2, op2)
    BY <2>4, <2>5, <2>6 DEF OpenAre
  <2> QED
    BY <1>9, <2>7 DEF st2, op2, f
<1>15. Grown(all, Append(called, name), size, Front1(st), Front1(op), q)
  <2> DEFINE both == Append(called, name)
             st2 == Front1(st)
             op2 == Front1(op)
  <2>1. /\ both \in Seq(Names) /\ Len(both) = N + 1 /\ Steps(all, both, q)
        /\ OpenAre(all, b.open, st2, op2)
    BY <1>11, <1>13, <1>14
  <2> HIDE DEF both, st2, op2
  <2>2. Walk(all, both, q)
    BY <1>12, <2>1 DEF Walk
  <2>3. q[0].pos = Id /\ q[Len(both)].pos = size /\ q[Len(both)].open = b.open
    BY <1>1, <1>9, <1>11, <2>1
  <2>4. OpenAre(all, q[Len(both)].open, st2, op2)
    BY <2>1, <2>3
  <2>5. Grown(all, both, size, st2, op2, q)
    BY <1>6, <2>1, <2>2, <2>3, <2>4 DEF Grown, SealsTo
  <2> QED
    BY <2>5 DEF both, st2, op2
<1> QED
  BY <1>15 DEF name, all, D

(* All open values closed, one after the other.                            *)
LEMMA SealedTwice ==
  ASSUME NEW cs \in Seq(Intact), NEW A, NEW B, NEW size
  PROVE  Sealed(Sealed(cs, A, size), B, size) = Sealed(cs, A \cup B, size)
<1> DEFINE new(c) == [c EXCEPT !.field = size - c.at - 5]
           one == Sealed(cs, A, size)
<1>1. ASSUME NEW c \in Intact PROVE new(c).at = c.at /\ new(new(c)) = new(c)
  BY DEF Intact
<1>2. \A i \in DOMAIN cs : cs[i] \in Intact
  OBVIOUS
<1>3. one = [i \in DOMAIN cs |-> IF cs[i].at \in A THEN new(cs[i]) ELSE cs[i]]
  BY DEF Sealed
<1>4. Sealed(one, B, size) = [i \in DOMAIN one |-> IF one[i].at \in B THEN new(one[i]) ELSE one[i]]
  BY DEF Sealed
<1>5. Sealed(cs, A \cup B, size) = [i \in DOMAIN cs |-> IF cs[i].at \in A \cup B THEN new(cs[i]) ELSE cs[i]]
  BY DEF Sealed
<1> HIDE DEF new, one
<1>6. DOMAIN one = DOMAIN cs
  BY <1>3
<1>7. ASSUME NEW i \in DOMAIN cs
      PROVE  (IF one[i].at \in B THEN new(one[i]) ELSE one[i]) = (IF cs[i].at \in A \cup B THEN new(cs[i]) ELSE cs[i])
  <2>1. cs[i] \in Intact
    BY <1>2
  <2>2. CASE cs[i].at \in A
    <3>1. one[i] = new(cs[i])
      BY <1>3, <2>2
    <3> QED
      BY <1>1, <2>1, <2>2, <3>1
  <2>3. CASE cs[i].at \notin A
    <3>1. one[i] = cs[i]
      BY <1>3, <2>3
    <3> QED
      BY <2>3, <3>1
  <2> QED
    BY <2>2, <2>3
<1>8. Sealed(one, B, size) = Sealed(cs, A \cup B, size)
  BY <1>4, <1>5, <1>6, <1>7
<1> QED
  BY <1>8 DEF one

(* The first n + 1 of a sequence, and all but the last of them.            *)
LEMMA SubSeqShorter ==
  ASSUME NEW X, NEW s \in Seq(X), NEW n \in Nat, n + 1 <= Len(s)
  PROVE  /\ SubSeq(s, 1, n + 1) \in Seq(X) /\ Len(SubSeq(s, 1, n + 1)) = n + 1
         /\ SubSeq(s, 1, n + 1)[n + 1] = s[n + 1]
         /\ SubSeq(s, 1, n + 1) # <<>>
         /\ \A d \in 1 .. n + 1 : SubSeq(s, 1, n + 1)[d] = s[d]
         /\ Front1(SubSeq(s, 1, n + 1)) = SubSeq(s, 1, n)
<1> DEFINE t == SubSeq(s, 1, n + 1)
           u == SubSeq(s, 1, n)
<1>1. t \in Seq(X) /\ Len(t) = n + 1 /\ \A d \in 1 .. n + 1 : t[d] = s[d]
  OBVIOUS
<1>2. u \in Seq(X) /\ Len(u) = n /\ \A d \in 1 .. n : u[d] = s[d]
  OBVIOUS
<1> HIDE DEF t, u
<1>3. t # <<>>
  BY <1>1
<1>4. Front1(t) \in Seq(X) /\ Len(Front1(t)) = n /\ \A d \in DOMAIN Front1(t) : Front1(t)[d] = t[d]
  BY <1>1, <1>3, Shortened DEF Front1
<1>5. \A d \in 1 .. n : Front1(t)[d] = u[d]
  <2> DEFINE f == Front1(t)
  <2> HIDE DEF f
  <2>1. f \in Seq(X) /\ Len(f) = n /\ \A d \in DOMAIN f : f[d] = t[d]
    BY <1>4 DEF f
  <2>2. DOMAIN f = 1 .. n
    BY <2>1
  <2> QED
    BY <1>1, <1>2, <2>1, <2>2 DEF f
<1>6. Front1(t) = u
  BY <1>2, <1>4, <1>5, SeqEqual
<1>7. n + 1 \in 1 .. n + 1
  OBVIOUS
<1> QED
  BY <1>1, <1>3, <1>6, <1>7 DEF t, u

(* The callbacks for the ends of the k innermost values.                   *)
EndsOf(op, k) == [i \in 1 .. k |-> Ends(op[Len(op) + 1 - i])]

(* One more of the open values closed is one more callback for an end.     *)
LEMMA EndsMore ==
  ASSUME NEW op \in Seq(Containers), NEW k \in Nat, k <= Len(op), NEW called \in Seq(Names)
  PROVE  /\ EndsOf(op, k) \in Seq(Names)
         /\ k + 1 <= Len(op) =>
               Append(called \o EndsOf(op, k), Ends(op[Len(op) - k])) = called \o EndsOf(op, k + 1)
<1> DEFINE D == Len(op)
           e(n) == EndsOf(op, n)
<1>1. ASSUME NEW n \in Nat, n <= D
      PROVE  e(n) \in Seq(Names) /\ Len(e(n)) = n /\ \A i \in 1 .. n : e(n)[i] = Ends(op[D + 1 - i])
  <2>1. \A i \in 1 .. n : Ends(op[D + 1 - i]) \in Names
    <3>1. \A i \in 1 .. n : D + 1 - i \in 1 .. D /\ op[D + 1 - i] \in Containers
      BY <1>1
    <3> QED
      BY <3>1 DEF Names
  <2>2. e(n) \in [1 .. n -> Names] /\ \A i \in 1 .. n : e(n)[i] = Ends(op[D + 1 - i])
    BY <2>1 DEF EndsOf
  <2> HIDE DEF e
  <2>3. e(n) \in Seq(Names) /\ Len(e(n)) = n
    BY <2>2, LenProperties, SeqDef
  <2> QED
    BY <2>2, <2>3
<1> HIDE DEF e
<1>2. ASSUME k + 1 <= D PROVE Append(called \o e(k), Ends(op[D - k])) = called \o e(k + 1)
  <2> DEFINE x == Ends(op[D - k])
             a == e(k)
             b == e(k + 1)
             s == Append(called \o a, x)
             t == called \o b
  <2>1. /\ a \in Seq(Names) /\ Len(a) = k /\ b \in Seq(Names) /\ Len(b) = k + 1
        /\ \A i \in 1 .. k : b[i] = a[i]
        /\ b[k + 1] = x /\ x \in Names
    <3>1. D - k \in 1 .. D /\ D + 1 - (k + 1) = D - k /\ k + 1 \in 1 .. k + 1 /\ op[D - k] \in Containers
      BY <1>2
    <3>2. x \in Names
      BY <3>1 DEF Names
    <3> HIDE DEF x
    <3>3. \A i \in 1 .. k : i \in 1 .. k + 1
      OBVIOUS
    <3>6. k + 1 \in Nat /\ k + 1 <= D
      BY <1>2
    <3>7. \A i \in 1 .. k + 1 : b[i] = Ends(op[D + 1 - i])
      <4> HIDE DEF D
      <4> QED
        BY <1>1, <3>6
    <3>4. b[k + 1] = Ends(op[D + 1 - (k + 1)])
      BY <3>1, <3>7
    <3>5. b[k + 1] = x
      BY <3>1, <3>4 DEF x
    <3> QED
      BY <1>1, <1>2, <3>2, <3>3, <3>5
  <2> HIDE DEF a, b, x
  <2>2. Len(called) \in Nat
    OBVIOUS
  <2>3. s \in Seq(Names) /\ Len(s) = Len(called) + k + 1
        /\ s[Len(called) + k + 1] = x
        /\ (\A i \in 1 .. Len(called) : s[i] = called[i])
        /\ \A i \in 1 .. k : s[Len(called) + i] = a[i]
    BY <2>1, SMTT(30)
  <2>4. t \in Seq(Names) /\ Len(t) = Len(called) + k + 1
        /\ (\A i \in 1 .. Len(called) : t[i] = called[i])
        /\ \A i \in 1 .. k + 1 : t[Len(called) + i] = b[i]
    BY <2>1
  <2> HIDE DEF s, t
  <2>5. ASSUME NEW i \in 1 .. Len(s) PROVE s[i] = t[i]
    <3>1. CASE i <= Len(called)
      BY <2>2, <2>3, <2>4, <3>1
    <3>2. CASE i > Len(called) /\ i <= Len(called) + k
      <4>1. i - Len(called) \in 1 .. k /\ i - Len(called) \in 1 .. k + 1 /\ i = Len(called) + (i - Len(called))
        BY <2>2, <2>3, <3>2
      <4>2. s[i] = a[i - Len(called)] /\ t[i] = b[i - Len(called)]
        BY <2>3, <2>4, <4>1
      <4> QED
        BY <2>1, <4>1, <4>2
    <3>3. CASE i = Len(called) + k + 1
      <4>1. k + 1 \in 1 .. k + 1 /\ i = Len(called) + (k + 1)
        BY <2>2, <3>3
      <4> QED
        BY <2>1, <2>3, <2>4, <3>3, <4>1
    <3> QED
      BY <2>2, <2>3, <3>1, <3>2, <3>3
  <2> QED
    BY <2>3, <2>4, <2>5, SeqEqual DEF s, t, a, b, x
<1> QED
  BY <1>1, <1>2 DEF e

(* A message with all of its values closed: a walk ends with none open.    *)
LEMMA GrownCloseAll ==
  ASSUME NEW cs, NEW called, NEW size, NEW st \in Seq(Nat), NEW op \in Seq(Containers), Len(op) = Len(st),
         NEW r, Grown(cs, called, size, st, op, r),
         \A d \in DOMAIN st : st[d] + 5 <= size,
         \A d, e \in DOMAIN st : d < e => st[d] < st[e]
  PROVE  \E q : Grown(Sealed(cs, {st[d] : d \in DOMAIN st}, size), called \o EndsOf(op, Len(op)), size, <<>>, <<>>, q)
<1> DEFINE D == Len(st)
           Last(k) == {st[d] : d \in D - k + 1 .. D}
           Reached(k) == \E q : Grown(Sealed(cs, Last(k), size), called \o EndsOf(op, k), size,
                                     SubSeq(st, 1, D - k), SubSeq(op, 1, D - k), q)
           S == {k \in Nat : k <= D => Reached(k)}
<1>1. called \in Seq(Names) /\ cs \in Seq(Intact)
  BY DEF Grown
<1>2. D \in Nat /\ DOMAIN st = 1 .. D
  OBVIOUS
<1>3. 0 \in S
  <2>1. Last(0) = {} /\ D - 0 = D
    BY <1>2
  <2>2. Sealed(cs, {}, size) = cs
    <3>1. Sealed(cs, {}, size) = [i \in DOMAIN cs |-> cs[i]]
      BY DEF Sealed
    <3>2. cs \in [1 .. Len(cs) -> Intact] /\ DOMAIN cs = 1 .. Len(cs)
      BY <1>1, LenProperties
    <3> QED
      BY <3>1, <3>2
  <2>3. called \o EndsOf(op, 0) = called
    <3> DEFINE z == EndsOf(op, 0)
    <3>1. z \in Seq(Names) /\ Len(z) = 0
      <4>1. z = <<>>
        BY DEF EndsOf
      <4> QED
        BY <4>1, EmptySeq
    <3>2. z = <<>>
      BY <3>1, EmptySeq
    <3> HIDE DEF z
    <3> QED
      BY <1>1, <3>2, ConcatEmptySeq DEF z
  <2>4. SubSeq(st, 1, D) = st /\ SubSeq(op, 1, D) = op
    BY SubSeqFull
  <2> HIDE DEF D
  <2> QED
    BY <2>1, <2>2, <2>3, <2>4
<1>4. ASSUME NEW k \in Nat, k \in S PROVE k + 1 \in S
  <2> SUFFICES ASSUME k + 1 <= D PROVE Reached(k + 1)
    <3> HIDE DEF Reached
    <3> QED
      OBVIOUS
  <2> DEFINE n == D - (k + 1)
             st2 == SubSeq(st, 1, n + 1)
             op2 == SubSeq(op, 1, n + 1)
             cs2 == Sealed(cs, Last(k), size)
             called2 == called \o EndsOf(op, k)
  <2>1. n \in Nat /\ n + 1 = D - k /\ n + 1 <= D /\ n + 1 <= Len(op) /\ k <= D /\ k <= Len(op)
    BY <1>2
  <2>2. PICK q : Grown(cs2, called2, size, st2, op2, q)
    BY <1>4, <2>1
  <2>3. /\ st2 \in Seq(Nat) /\ Len(st2) = n + 1 /\ st2[n + 1] = st[n + 1] /\ st2 # <<>>
        /\ \A d \in 1 .. n + 1 : st2[d] = st[d]
        /\ Front1(st2) = SubSeq(st, 1, n)
    BY <2>1, SubSeqShorter, ZenonT(60)
  <2>4. /\ op2 \in Seq(Containers) /\ Len(op2) = n + 1 /\ op2[n + 1] = op[n + 1]
        /\ Front1(op2) = SubSeq(op, 1, n)
    BY <2>1, SubSeqShorter
  <2> HIDE DEF st2, op2, cs2, called2, S, n
  <2>5. DOMAIN st2 = 1 .. n + 1 /\ \A d \in DOMAIN st2 : d \in DOMAIN st /\ st2[d] = st[d]
    BY <1>2, <2>1, <2>3
  <2>6. \A d \in DOMAIN st2 : st2[d] + 5 <= size
    BY <2>5
  <2>7. \A d, e \in DOMAIN st2 : d < e => st2[d] < st2[e]
    BY <2>5
  <2>8. PICK p : Grown(Sealed(cs2, {st2[Len(st2)]}, size), Append(called2, Ends(op2[Len(st2)])),
                       size, Front1(st2), Front1(op2), p)
    BY <2>2, <2>3, <2>4, <2>6, <2>7, GrownClose
  <2>9. Sealed(cs2, {st2[Len(st2)]}, size) = Sealed(cs, Last(k + 1), size)
    <3>1. Last(k) \cup {st[n + 1]} = Last(k + 1)
      <4>1. D - (k + 1) + 1 = n + 1 /\ D - k + 1 = n + 2
        BY <1>2, <2>1 DEF n
      <4>2. \A d : d \in n + 1 .. D <=> d \in n + 2 .. D \/ d = n + 1
        BY <1>2, <2>1
      <4>3. Last(k) = {st[d] : d \in n + 2 .. D} /\ Last(k + 1) = {st[d] : d \in n + 1 .. D}
        BY <4>1
      <4> HIDE DEF Last
      <4> QED
        BY <4>2, <4>3
    <3> HIDE DEF Last
    <3>2. Sealed(cs2, {st[n + 1]}, size) = Sealed(cs, Last(k) \cup {st[n + 1]}, size)
      BY <1>1, SealedTwice DEF cs2
    <3>3. st2[Len(st2)] = st[n + 1]
      BY <2>3
    <3> QED
      BY <3>1, <3>2, <3>3
  <2>10. Append(called2, Ends(op2[Len(st2)])) = called \o EndsOf(op, k + 1)
    <3>1. op2[Len(st2)] = op[Len(op) - k] /\ k + 1 <= Len(op)
      BY <1>2, <2>1, <2>3, <2>4
    <3>2. Append(called2, Ends(op[Len(op) - k])) = called \o EndsOf(op, k + 1)
      BY <1>1, <2>1, <3>1, EndsMore DEF called2
    <3> QED
      BY <3>1, <3>2
  <2> HIDE DEF Last
  <2>11. Grown(Sealed(cs, Last(k + 1), size), called \o EndsOf(op, k + 1), size, SubSeq(st, 1, n), SubSeq(op, 1, n), p)
    BY <2>3, <2>4, <2>8, <2>9, <2>10
  <2> QED
    BY <2>11 DEF n
<1> HIDE DEF S
<1>5. Nat \subseteq S
  BY <1>3, <1>4, SetInduction
<1>6. D - D = 0 /\ D <= D /\ D \in S
  BY <1>2, <1>5
<1>7. PICK q : Grown(Sealed(cs, Last(D), size), called \o EndsOf(op, D), size,
                     SubSeq(st, 1, D - D), SubSeq(op, 1, D - D), q)
  BY <1>6 DEF S
<1>8. SubSeq(st, 1, 0) = <<>> /\ SubSeq(op, 1, 0) = <<>>
  BY SubSeqEmpty
<1>9. Last(D) = {st[d] : d \in DOMAIN st}
  <2>1. D - D + 1 .. D = DOMAIN st
    BY <1>2
  <2> QED
    BY <2>1
<1> HIDE DEF Last
<1>10. Grown(Sealed(cs, Last(D), size), called \o EndsOf(op, D), size, <<>>, <<>>, q)
  BY <1>6, <1>7, <1>8
<1> QED
  BY <1>9, <1>10
-----------------------------------------------------------------------------
(* What is heard of calls, one call at a time.                             *)
LEMMA HeardStep ==
  ASSUME NEW X, NEW s \in Seq(X)
  PROVE  \E h : /\ h \in [0 .. Len(s) -> Seq(X)] /\ h[0] = <<>> /\ AsHeard(s) = h[Len(s)]
                /\ \A n \in 1 .. Len(s) : h[n] = IF s[n] \in set THEN Append(h[n - 1], s[n]) ELSE h[n - 1]
<1> DEFINE Is(h) == h = [n \in 0 .. Len(s) |->
                           IF n = 0 THEN <<>>
                           ELSE IF s[n] \in set THEN Append(h[n - 1], s[n]) ELSE h[n - 1]]
           step == [n \in Nat |-> [x \in Seq(X) |-> IF n + 1 \in DOMAIN s /\ s[n + 1] \in set THEN Append(x, s[n + 1]) ELSE x]]
<1>1. Len(s) \in Nat /\ DOMAIN s = 1 .. Len(s) /\ <<>> \in Seq(X)
  OBVIOUS
<1>2. step \in [Nat -> [Seq(X) -> Seq(X)]]
  <2>1. ASSUME NEW n \in Nat, NEW x \in Seq(X)
        PROVE (IF n + 1 \in DOMAIN s /\ s[n + 1] \in set THEN Append(x, s[n + 1]) ELSE x) \in Seq(X)
    <3>1. CASE n + 1 \in DOMAIN s
      <4>1. s[n + 1] \in X
        BY <3>1
      <4> QED
        BY <4>1
    <3> QED
      BY <3>1
  <2> QED
    BY <2>1
<1> HIDE DEF step
<1>3. PICK g \in [Nat -> Seq(X)] : g[0] = <<>> /\ \A n \in Nat : g[n + 1] = step[n][g[n]]
  <2> DEFINE D == Seq(X)
             e == <<>>
  <2>1. e \in D /\ step \in [Nat -> [D -> D]]
    BY <1>1, <1>2
  <2> HIDE DEF D, e
  <2>2. \E g : Iterates(D, e, step, g)
    BY <2>1, Recursion
  <2> QED
    BY <2>2 DEF D, e, Iterates
<1> DEFINE h == [n \in 0 .. Len(s) |-> g[n]]
<1>4. h \in [0 .. Len(s) -> Seq(X)] /\ h[0] = <<>>
  <2>1. \A n \in 0 .. Len(s) : n \in Nat /\ g[n] \in Seq(X)
    BY <1>1, <1>3
  <2>2. 0 \in 0 .. Len(s)
    BY <1>1
  <2> QED
    BY <1>3, <2>1, <2>2
<1>5. ASSUME NEW n \in 1 .. Len(s) PROVE h[n] = IF s[n] \in set THEN Append(h[n - 1], s[n]) ELSE h[n - 1]
  <2>1. n - 1 \in Nat /\ (n - 1) + 1 = n /\ n \in DOMAIN s /\ n - 1 \in 0 .. Len(s) /\ n \in 0 .. Len(s)
    BY <1>1
  <2>2. g[n] = step[n - 1][g[n - 1]] /\ g[n - 1] \in Seq(X)
    BY <1>3, <2>1
  <2>3. step[n - 1][g[n - 1]] = IF s[n] \in set THEN Append(g[n - 1], s[n]) ELSE g[n - 1]
    BY <2>1, <2>2 DEF step
  <2> QED
    BY <2>1, <2>2, <2>3
<1> HIDE DEF h
<1>6. Is(h)
  <2>1. \A n \in 0 .. Len(s) : n # 0 => n \in 1 .. Len(s)
    BY <1>1
  <2>2. \A n \in 0 .. Len(s) : h[n] = IF n = 0 THEN <<>>
                                     ELSE IF s[n] \in set THEN Append(h[n - 1], s[n]) ELSE h[n - 1]
    BY <1>4, <1>5, <2>1
  <2> QED
    BY <1>4, <2>2
<1> DEFINE k == CHOOSE x : Is(x)
<1>7. Is(k)
  <2> HIDE DEF Is
  <2> QED
    BY <1>6
<1>8. AsHeard(s) = k[Len(s)]
  BY DEF AsHeard
<1> HIDE DEF k
<1>9. k[0] = <<>> /\ \A n \in 1 .. Len(s) : k[n] = IF s[n] \in set THEN Append(k[n - 1], s[n]) ELSE k[n - 1]
  <2>1. \A n \in 0 .. Len(s) : k[n] = IF n = 0 THEN <<>>
                                     ELSE IF s[n] \in set THEN Append(k[n - 1], s[n]) ELSE k[n - 1]
    BY <1>7, Zenon
  <2>2. 0 \in 0 .. Len(s) /\ \A n \in 1 .. Len(s) : n \in 0 .. Len(s) /\ n # 0
    BY <1>1
  <2> QED
    BY <2>1, <2>2, Zenon
<1> DEFINE S == {n \in Nat : n <= Len(s) => k[n] = h[n]}
<1>10. 0 \in S
  <2>1. k[0] = h[0]
    <3>1. k[0] = <<>>
      BY <1>9
    <3>2. h[0] = <<>>
      BY <1>4
    <3> QED
      BY <3>1, <3>2
  <2> HIDE DEF h
  <2> QED
    BY <2>1
<1>11. ASSUME NEW n \in Nat, n \in S PROVE n + 1 \in S
  <2> SUFFICES ASSUME n + 1 <= Len(s) PROVE k[n + 1] = h[n + 1]
    OBVIOUS
  <2>1. n + 1 \in 1 .. Len(s) /\ (n + 1) - 1 = n /\ n <= Len(s)
    BY <1>1
  <2>2. k[n] = h[n]
    BY <1>11, <2>1
  <2>3. k[n + 1] = IF s[n + 1] \in set THEN Append(k[(n + 1) - 1], s[n + 1]) ELSE k[(n + 1) - 1]
    BY <1>9, <2>1, Zenon
  <2>4. h[n + 1] = IF s[n + 1] \in set THEN Append(h[(n + 1) - 1], s[n + 1]) ELSE h[(n + 1) - 1]
    BY <1>5, <2>1, Zenon
  <2> QED
    BY <2>1, <2>2, <2>3, <2>4, Zenon
<1> HIDE DEF S
<1>12. Nat \subseteq S
  BY <1>10, <1>11, SetInduction
<1>13. k[Len(s)] = h[Len(s)]
  BY <1>1, <1>12 DEF S
<1> QED
  BY <1>4, <1>5, <1>8, <1>13

(* The same for what is heard of the first n calls.                        *)
HeardBy(s, X, h) ==
    /\ h \in [0 .. Len(s) -> Seq(X)]
    /\ h[0] = <<>>
    /\ \A n \in 1 .. Len(s) : h[n] = IF s[n] \in set THEN Append(h[n - 1], s[n]) ELSE h[n - 1]
    /\ \A n \in 0 .. Len(s) : AsHeard(SubSeq(s, 1, n)) = h[n]

(* There is a record of what is heard of the first n calls, for every n.   *)
LEMMA HeardSoFar ==
  ASSUME NEW X, NEW s \in Seq(X)
  PROVE  AsHeard(s) = AsHeard(SubSeq(s, 1, Len(s))) /\ \E h : HeardBy(s, X, h)
<1>1. Len(s) \in Nat /\ DOMAIN s = 1 .. Len(s)
  OBVIOUS
<1>2. PICK h : /\ h \in [0 .. Len(s) -> Seq(X)] /\ h[0] = <<>> /\ AsHeard(s) = h[Len(s)]
               /\ \A n \in 1 .. Len(s) : h[n] = IF s[n] \in set THEN Append(h[n - 1], s[n]) ELSE h[n - 1]
  BY HeardStep
<1>3. ASSUME NEW n \in 0 .. Len(s) PROVE AsHeard(SubSeq(s, 1, n)) = h[n]
  <2> DEFINE t == SubSeq(s, 1, n)
  <2>1. t \in Seq(X) /\ Len(t) = n /\ n \in Nat
    BY <1>1
  <2>2. \A m \in 1 .. n : t[m] = s[m] /\ m \in 1 .. Len(s)
    BY <1>1
  <2> HIDE DEF t
  <2>3. PICK k : /\ k \in [0 .. Len(t) -> Seq(X)] /\ k[0] = <<>> /\ AsHeard(t) = k[Len(t)]
                 /\ \A m \in 1 .. Len(t) : k[m] = IF t[m] \in set THEN Append(k[m - 1], t[m]) ELSE k[m - 1]
    BY <2>1, HeardStep, ZenonT(60)
  <2> DEFINE S == {m \in Nat : m <= n => k[m] = h[m]}
  <2>4. 0 \in S
    <3>1. k[0] = h[0]
      BY <1>2, <2>3, Zenon
    <3> QED
      BY <3>1
  <2>5. ASSUME NEW m \in Nat, m \in S PROVE m + 1 \in S
    <3> SUFFICES ASSUME m + 1 <= n PROVE k[m + 1] = h[m + 1]
      OBVIOUS
    <3>1. m + 1 \in 1 .. n /\ m + 1 \in 1 .. Len(t) /\ (m + 1) - 1 = m /\ k[m] = h[m]
      BY <2>1, <2>5
    <3>2. k[m + 1] = IF t[m + 1] \in set THEN Append(k[(m + 1) - 1], t[m + 1]) ELSE k[(m + 1) - 1]
      BY <2>3, <3>1, Zenon
    <3>3. h[m + 1] = IF s[m + 1] \in set THEN Append(h[(m + 1) - 1], s[m + 1]) ELSE h[(m + 1) - 1]
      BY <1>2, <2>2, <3>1, Zenon
    <3>4. t[m + 1] = s[m + 1]
      BY <2>2, <3>1
    <3>5. k[m + 1] = IF s[m + 1] \in set THEN Append(h[m], s[m + 1]) ELSE h[m]
      BY <3>1, <3>2, <3>4, Zenon
    <3>6. h[m + 1] = IF s[m + 1] \in set THEN Append(h[m], s[m + 1]) ELSE h[m]
      BY <3>1, <3>3, Zenon
    <3>7. CASE s[m + 1] \in set
      <4>1. k[m + 1] = Append(h[m], s[m + 1])
        BY <3>5, <3>7, Zenon
      <4>2. h[m + 1] = Append(h[m], s[m + 1])
        BY <3>6, <3>7, Zenon
      <4> QED
        BY <4>1, <4>2, Zenon
    <3>8. CASE s[m + 1] \notin set
      <4>1. k[m + 1] = h[m]
        BY <3>5, <3>8, Zenon
      <4>2. h[m + 1] = h[m]
        BY <3>6, <3>8, Zenon
      <4> QED
        BY <4>1, <4>2, Zenon
    <3> QED
      BY <3>7, <3>8, Zenon
  <2> HIDE DEF S
  <2>6. Nat \subseteq S
    BY <2>4, <2>5, SetInduction
  <2>7. n \in S /\ n <= n
    BY <2>1, <2>6
  <2>8. k[n] = h[n]
    BY <2>7 DEF S
  <2> QED
    BY <2>1, <2>3, <2>8 DEF t
<1>4. Len(s) \in 0 .. Len(s)
  BY <1>1
<1>5. AsHeard(s) = AsHeard(SubSeq(s, 1, Len(s)))
  BY <1>2, <1>3, <1>4, Zenon
<1>6. HeardBy(s, X, h)
  BY <1>2, <1>3, Zenon DEF HeardBy
<1> QED
  BY <1>5, <1>6

(* Of no calls nothing is heard.                                           *)
LEMMA HeardNone ==
  ASSUME NEW X, NEW s \in Seq(X)
  PROVE  AsHeard(SubSeq(s, 1, 0)) = <<>>
<1>1. PICK h : HeardBy(s, X, h)
  BY HeardSoFar
<1>2. 0 \in 0 .. Len(s)
  OBVIOUS
<1> QED
  BY <1>1, <1>2, Zenon DEF HeardBy

(* Of one call more, it is heard if its callback is set and not heard if   *)
(* not.                                                                    *)
LEMMA HeardNext ==
  ASSUME NEW X, NEW s \in Seq(X), NEW n \in 0 .. Len(s), n < Len(s)
  PROVE  /\ AsHeard(SubSeq(s, 1, n)) \in Seq(X)
         /\ AsHeard(SubSeq(s, 1, n + 1)) =
                IF s[n + 1] \in set THEN Append(AsHeard(SubSeq(s, 1, n)), s[n + 1])
                                    ELSE AsHeard(SubSeq(s, 1, n))
<1>1. PICK h : HeardBy(s, X, h)
  BY HeardSoFar
<1>2. n + 1 \in 1 .. Len(s) /\ n + 1 \in 0 .. Len(s) /\ (n + 1) - 1 = n
  OBVIOUS
<1>3. h[n + 1] = IF s[n + 1] \in set THEN Append(h[(n + 1) - 1], s[n + 1]) ELSE h[(n + 1) - 1]
  BY <1>1, <1>2, Zenon DEF HeardBy
<1>4. AsHeard(SubSeq(s, 1, n)) = h[n] /\ AsHeard(SubSeq(s, 1, n + 1)) = h[n + 1]
  BY <1>1, <1>2, Zenon DEF HeardBy
<1>5. h[n] \in Seq(X)
  BY <1>1 DEF HeardBy
<1>6. h[n + 1] = IF s[n + 1] \in set THEN Append(h[n], s[n + 1]) ELSE h[n]
  BY <1>2, <1>3, Zenon
<1> QED
  BY <1>4, <1>5, <1>6, Zenon

(* What is heard so far is the beginning of all that is heard.             *)
LEMMA HeardPrefix ==
  ASSUME NEW X, NEW s \in Seq(X), NEW n \in 0 .. Len(s)
  PROVE  Prefix(AsHeard(SubSeq(s, 1, n)), AsHeard(s))
<1>1. PICK h : HeardBy(s, X, h)
  BY HeardSoFar
<1>2. Len(s) \in Nat /\ n \in Nat
  OBVIOUS
<1>3. h \in [0 .. Len(s) -> Seq(X)]
  BY <1>1 DEF HeardBy
<1> DEFINE S == {m \in Nat : n <= m /\ m <= Len(s) => Prefix(h[n], h[m])}
<1>4. ASSUME NEW t \in Seq(X) PROVE Prefix(t, t)
  BY <1>4 DEF Prefix
<1>5. ASSUME NEW t \in Seq(X), NEW u \in Seq(X), NEW x \in X, Prefix(t, u) PROVE Prefix(t, Append(u, x))
  <2>1. Len(t) \in Nat /\ Len(t) <= Len(u) /\ t = SubSeq(u, 1, Len(t)) /\ Len(Append(u, x)) = Len(u) + 1
    BY <1>5 DEF Prefix
  <2>2. SubSeq(Append(u, x), 1, Len(t)) = SubSeq(u, 1, Len(t))
    BY <2>1
  <2> QED
    BY <2>1, <2>2 DEF Prefix
<1>6. 0 \in S
  <2>1. CASE n = 0
    BY <1>2, <1>3, <1>4, <2>1
  <2>2. CASE n # 0
    BY <1>2, <2>2
  <2> QED
    BY <2>1, <2>2
<1>7. ASSUME NEW m \in Nat, m \in S PROVE m + 1 \in S
  <2> SUFFICES ASSUME n <= m + 1, m + 1 <= Len(s) PROVE Prefix(h[n], h[m + 1])
    OBVIOUS
  <2>1. CASE n = m + 1
    BY <1>2, <1>3, <1>4, <2>1
  <2>2. CASE n <= m
    <3>1. Prefix(h[n], h[m]) /\ h[n] \in Seq(X) /\ h[m] \in Seq(X)
      BY <1>2, <1>3, <1>7, <2>2
    <3>2. m + 1 \in 1 .. Len(s) /\ (m + 1) - 1 = m /\ s[m + 1] \in X
      BY <1>2
    <3>3. h[m + 1] = IF s[m + 1] \in set THEN Append(h[(m + 1) - 1], s[m + 1]) ELSE h[(m + 1) - 1]
      BY <1>1, <3>2, Zenon DEF HeardBy
    <3>4. h[m + 1] = IF s[m + 1] \in set THEN Append(h[m], s[m + 1]) ELSE h[m]
      BY <3>2, <3>3, Zenon
    <3> QED
      BY <1>5, <3>1, <3>2, <3>4
  <2> QED
    BY <1>2, <2>1, <2>2
<1> HIDE DEF S
<1>8. Nat \subseteq S
  BY <1>6, <1>7, SetInduction
<1>9. Prefix(h[n], h[Len(s)])
  BY <1>2, <1>8 DEF S
<1>10. Len(s) \in 0 .. Len(s)
  BY <1>2
<1>11. AsHeard(SubSeq(s, 1, n)) = h[n] /\ AsHeard(SubSeq(s, 1, Len(s))) = h[Len(s)]
  BY <1>1, <1>10, Zenon DEF HeardBy
<1>12. AsHeard(s) = AsHeard(SubSeq(s, 1, Len(s)))
  BY HeardSoFar
<1> QED
  BY <1>9, <1>11, <1>12, Zenon
-----------------------------------------------------------------------------
(* What a program that uses builder.c does: leaves of the size a reader    *)
(* takes them to have, keys whose length fits its two bytes, and values    *)
(* that a reader can walk through.                                         *)
Honest == /\ Exact
          /\ \A key \in KeyLengths : key <= 65535
          /\ \A v \in Values : \E r : EncodedBy(v, r)

(* No buffer lost what was in it.                                          *)
Whole(cs) == cs = <<>> \/ cs[1].kind # "JUNK"

(* As long as nothing is lost a walk goes through what is built.           *)
Walkable == msg = <<>> /\ Whole(cells) => \E r : Grown(cells, calls, cur, stack, opened, r)

(* A value that may be pushed.                                             *)
Value(v) == /\ v.cells \in Seq(Intact) /\ v.cells # <<>>
            /\ \A i \in DOMAIN v.cells : v.cells[i].field # NoSize
            /\ v.calls \in Seq(Names)
            /\ \E s : EncodedBy(v, s)
-----------------------------------------------------------------------------
(* A buffer that still has its first cell was not lost.                    *)
LEMMA AssuredWhole ==
  ASSUME NEW b \in Buffers, NEW size \in Nat, Whole(Assured(b, size).cells)
  PROVE  Assured(b, size).cells = b.cells
<1> DEFINE junk == [i \in DOMAIN b.cells |-> [b.cells[i] EXCEPT !.kind = "JUNK"]]
<1>1. CASE b.end > b.cur + size
  BY <1>1 DEF Assured
<1>2. CASE ~(b.end > b.cur + size)
  <2>1. Assured(b, size).cells = IF own THEN b.cells ELSE junk
    BY <1>2 DEF Assured, Buffers
  <2>2. CASE own
    BY <2>1, <2>2
  <2>3. CASE ~own
    <3>1. Assured(b, size).cells = junk
      BY <2>1, <2>3
    <3>2. b.cells \in Seq(CellSet) /\ DOMAIN b.cells = 1 .. Len(b.cells) /\ Len(b.cells) \in Nat
      BY DEF Buffers
    <3>3. CASE b.cells = <<>>
      <4>1. DOMAIN b.cells = {}
        BY <3>3
      <4>2. junk = b.cells
        BY <3>3, <4>1
      <4> QED
        BY <3>1, <4>2
    <3>4. CASE b.cells # <<>>
      <4>1. 1 \in DOMAIN b.cells /\ b.cells[1] \in CellSet
        BY <3>2, <3>4
      <4>2. junk[1] = [b.cells[1] EXCEPT !.kind = "JUNK"] /\ 1 \in DOMAIN junk
        BY <4>1
      <4>3. junk[1].kind = "JUNK"
        BY <4>1, <4>2 DEF CellSet
      <4>4. junk # <<>>
        BY <4>2
      <4> QED
        BY <3>1, <4>3, <4>4 DEF Whole
    <3> QED
      BY <3>3, <3>4
  <2> QED
    BY <2>2, <2>3
<1> QED
  BY <1>1, <1>2

(* A buffer not lost after more room was made for it was not lost before.  *)
LEMMA WholeBack ==
  ASSUME NEW b \in Buffers, NEW c, Continues(b, c), Whole(c.cells)
  PROVE  Whole(b.cells)
<1>1. /\ b.cells \in Seq(CellSet) /\ c.cells \in Seq(CellSet) /\ Len(b.cells) <= Len(c.cells)
      /\ \A i \in DOMAIN b.cells : c.cells[i].kind \in {b.cells[i].kind, "JUNK"}
  BY DEF Continues, Buffers
<1>2. CASE b.cells # <<>>
  <2>1. 1 \in DOMAIN b.cells /\ Len(b.cells) \in Nat /\ Len(b.cells) # 0 /\ Len(c.cells) \in Nat
    BY <1>1, <1>2
  <2>2. c.cells # <<>>
    BY <1>1, <2>1
  <2> QED
    BY <1>1, <2>1, <2>2 DEF Whole
<1> QED
  BY <1>2 DEF Whole

(* What is pushed is copied behind what there is.                          *)
LEMMA FilledIs ==
  ASSUME NEW b \in Buffers, NEW cs, NEW size
  PROVE  Filled(b, cs, size).cells = b.cells \o Shifted(cs, b.cur) /\ Filled(b, cs, size).cur = b.cur + size
BY DEF Filled, Shifted, Buffers

(* A walk through no cells makes no callbacks.                             *)
LEMMA GrownEmpty ==
  ASSUME NEW called, NEW size, NEW st, NEW op, NEW r, Grown(<<>>, called, size, st, op, r)
  PROVE  called = <<>>
<1>1. called \in Seq(Names) /\ Steps(<<>>, called, r)
  BY DEF Grown, Walk
<1>2. Len(called) \in Nat
  BY <1>1
<1>3. ASSUME Len(called) # 0 PROVE FALSE
  <2>1. 1 \in 1 .. Len(called)
    BY <1>2, <1>3
  <2>2. Walked(<<>>, called[1], r[1 - 1], r[1])
    BY <1>1, <2>1 DEF Steps
  <2>3. r[1].cell \in DOMAIN <<>>
    BY <2>2 DEF Walked
  <2> QED
    BY <2>3
<1> QED
  BY <1>1, <1>2, <1>3

(* A value pushed behind what a buffer has, once there is room for it.     *)
LEMMA GrownFilled ==
  ASSUME NEW b \in Buffers, NEW called, NEW r, Grown(b.cells, called, b.cur, stack, opened, r),
         own \in BOOLEAN, stack \in Seq(Nat), called = <<>> \/ stack # <<>>, NEW v, Value(v), NEW need \in Nat,
         Whole(Assured(b, need).cells)
  PROVE  LET c == Filled(Assured(b, need), v.cells, BSize(v.cells[1]))
         IN  \E q : Grown(c.cells, called \o v.calls, c.cur, stack, opened, q)
<1> DEFINE a == Assured(b, need)
           size == BSize(v.cells[1])
           c == Filled(a, v.cells, size)
<1>1. a.cells = b.cells /\ a.cur = b.cur
  BY AssuredWhole, AssuredContinues
<1>2. a \in Buffers
  BY AssuredContinues DEF Continues
<1> HIDE DEF a
<1>3. c.cells = a.cells \o Shifted(v.cells, a.cur) /\ c.cur = a.cur + size
  BY <1>2, FilledIs
<1>4. PICK s : EncodedBy(v, s)
  BY DEF Value
<1>5. \E q : Grown(b.cells \o Shifted(v.cells, b.cur), called \o v.calls, b.cur + size, stack, opened, q)
  BY <1>4, GrownValue DEF Value
<1> HIDE DEF c
<1>6. \E q : Grown(c.cells, called \o v.calls, c.cur, stack, opened, q)
  BY <1>1, <1>3, <1>5
<1> QED
  BY <1>6 DEF c, a

(* One cell with its size is a value.                                      *)
LEMMA CellValue ==
  ASSUME NEW c \in Intact, c.at = 0, c.kind \notin Containers, c.field # NoSize
  PROVE  Value([cells |-> <<c>>, calls |-> <<Callback(c.kind)>>])
<1> DEFINE cs == <<c>>
           cl == <<Callback(c.kind)>>
           v == [cells |-> cs, calls |-> cl]
<1>1. cs \in Seq(Intact) /\ cs # <<>> /\ \A i \in DOMAIN cs : cs[i] = c
  OBVIOUS
<1>2. cl \in Seq(Names)
  <2>1. Callback(c.kind) \in Names
    BY DEF Names, Intact
  <2> QED
    BY <2>1
<1>3. \E s : EncodedBy(v, s)
  BY LeafEncoded
<1>4. v.cells = cs /\ v.calls = cl
  OBVIOUS
<1> HIDE DEF v, cs, cl
<1>5. \A i \in DOMAIN cs : cs[i].field # NoSize
  BY <1>1
<1>6. Value(v)
  BY <1>1, <1>2, <1>3, <1>4, <1>5 DEF Value
<1> QED
  BY <1>6 DEF v, cs, cl

(* A leaf pushed is a value and one callback.                              *)
LEMMA LeafValue ==
  ASSUME NEW leaf \in Leaves
  PROVE  leaf \in Intact /\ Value([cells |-> <<leaf>>, calls |-> <<Callback(leaf.kind)>>])
<1>1. leaf \in Pushable /\ leaf.at = 0 /\ leaf.kind \notin Containers
  BY BuilderAssumption
<1>2. leaf \in Intact /\ leaf.field # NoSize
  BY <1>1 DEF Pushable, Intact, NoSize
<1> QED
  BY <1>1, <1>2, CellValue

(* A key whose length fits its two bytes is a value and one callback.      *)
LEMMA KeyValue ==
  ASSUME NEW key \in Nat, key <= 65535
  PROVE  /\ Value([cells |-> <<KeyCell(key)>>, calls |-> <<"key">>])
         /\ KeyCell(key).bytes = BSize(KeyCell(key))
<1>1. /\ "KEY1" \in Kinds /\ "KEY2" \in Kinds /\ "KEY1" \notin Containers /\ "KEY2" \notin Containers
      /\ Overhead["KEY1"] = 3 /\ Overhead["KEY2"] = 4 /\ "KEY1" \in Sized /\ "KEY2" \in Sized
  BY KindsSized DEF Containers, Sized
<1>2. Callback("KEY1") = "key" /\ Callback("KEY2") = "key"
  BY DEF Callback
<1>3. /\ KeyCell(key) \in Intact /\ KeyCell(key).at = 0 /\ KeyCell(key).kind \in {"KEY1", "KEY2"}
      /\ KeyCell(key).field = key /\ KeyCell(key).bytes = BSize(KeyCell(key))
  <2>1. CASE key <= 255
    <3>1. KeyCell(key) = [kind |-> "KEY1", field |-> key, bytes |-> key + 3, at |-> 0]
      BY <2>1 DEF KeyCell, Cell
    <3> QED
      BY <1>1, <3>1 DEF Intact, BSize
  <2>2. CASE ~(key <= 255)
    <3>1. key % 65536 = key
      OBVIOUS
    <3>2. KeyCell(key) = [kind |-> "KEY2", field |-> key, bytes |-> key + 4, at |-> 0]
      BY <2>2, <3>1 DEF KeyCell, Cell
    <3> QED
      BY <1>1, <3>2 DEF Intact, BSize
  <2> QED
    BY <2>1, <2>2
<1>4. Value([cells |-> <<KeyCell(key)>>, calls |-> <<Callback(KeyCell(key).kind)>>])
  BY <1>1, <1>3, CellValue DEF NoSize
<1>5. Callback(KeyCell(key).kind) = "key"
  BY <1>2, <1>3
<1> QED
  BY <1>3, <1>4, <1>5

(* What opo_builder_push_val is given is a value.                          *)
LEMMA PushedValue ==
  ASSUME Honest, NEW v \in Values
  PROVE  Value(v)
<1>1. v.cells \in Seq(Pushable) /\ v.cells # <<>>
  BY BuilderAssumption
<1>2. PICK r : EncodedBy(v, r)
  BY DEF Honest
<1>3. Pushable \subseteq Intact
  BY DEF Pushable, Intact
<1>4. \A i \in DOMAIN v.cells : v.cells[i].field # NoSize
  <2> SUFFICES ASSUME NEW i \in DOMAIN v.cells PROVE v.cells[i].field # NoSize
    OBVIOUS
  <2>1. v.cells[i] \in Pushable
    BY <1>1
  <2> QED
    BY <2>1 DEF Pushable, NoSize
<1>5. v.cells \in Seq(Intact)
  BY <1>1, <1>3, SeqMonotonic
<1> QED
  BY <1>1, <1>2, <1>4, <1>5 DEF Value, EncodedBy
-----------------------------------------------------------------------------
(* What was called before and the key.                                     *)
KeyCalls(key) == calls \o (IF key = NoKey THEN <<>> ELSE <<"key">>)

(* What is built and the key behind it.                                    *)
LEMMA KeyedGrown ==
  ASSUME Honest, IInv, Walkable, msg = <<>>, NEW key \in KeyLengths \cup {NoKey}, MayPush(key),
         Whole(Keyed(key).cells)
  PROVE  /\ \E q : Grown(Keyed(key).cells, KeyCalls(key), Keyed(key).cur, stack, opened, q)
         /\ KeyCalls(key) = <<>> \/ stack # <<>>
<1>1. /\ Built \in Buffers /\ Continues(Built, Keyed(key)) /\ (key = NoKey => Keyed(key) = Built)
      /\ Built.cells = cells /\ Built.cur = cur
  BY KeyedContinues DEF IInv, Built
<1>2. Whole(cells)
  BY <1>1, WholeBack
<1>3. PICK r : Grown(Built.cells, calls, Built.cur, stack, opened, r)
  BY <1>1, <1>2 DEF Walkable
<1>4. calls \in Seq(Names)
  BY <1>3 DEF Grown
<1>5. stack = <<>> => calls = <<>> /\ key = NoKey
  <2> SUFFICES ASSUME stack = <<>> PROVE calls = <<>> /\ key = NoKey
    OBVIOUS
  <2>1. cells = <<>> /\ key = NoKey
    BY RootPush
  <2>2. Grown(<<>>, calls, Built.cur, stack, opened, r)
    BY <1>1, <1>3, <2>1
  <2> QED
    BY <2>1, <2>2, GrownEmpty
<1>6. CASE key = NoKey
  <2>1. KeyCalls(key) = calls
    BY <1>4, <1>6, ConcatEmptySeq DEF KeyCalls
  <2> QED
    BY <1>1, <1>3, <1>5, <1>6, <2>1
<1>7. CASE key # NoKey
  <2>1. stack # <<>> /\ KeyCalls(key) = calls \o <<"key">>
    BY <1>5, <1>7 DEF KeyCalls
  <2>2. key \in Nat /\ key + 4 \in Nat /\ key <= 65535
    <3>1. KeyLengths \subseteq Nat
      BY BuilderAssumption
    <3> QED
      BY <1>7, <3>1 DEF Honest
  <2> DEFINE v == [cells |-> <<KeyCell(key)>>, calls |-> <<"key">>]
             a == Assured(Built, key + 4)
  <2>3. Value(v) /\ KeyCell(key).bytes = BSize(KeyCell(key))
    BY <2>2, KeyValue
  <2>4. v.cells = <<KeyCell(key)>> /\ v.calls = <<"key">> /\ v.cells[1] = KeyCell(key)
    OBVIOUS
  <2>5. Keyed(key) = Filled(a, v.cells, BSize(v.cells[1]))
    BY <1>7, <2>3, <2>4 DEF Keyed, Built
  <2>6. a \in Buffers /\ KeyCell(key) \in CellSet /\ KeyCell(key).bytes \in Nat
    BY <1>1, <2>2, AssuredContinues, KeyWritten DEF Continues, IInv, BuilderTypes
  <2>7. v.cells \in Seq(CellSet) /\ BSize(v.cells[1]) \in Nat
    BY <2>3, <2>6
  <2> HIDE DEF v
  <2>8. Continues(a, Keyed(key))
    <3> HIDE DEF a
    <3> QED
      BY <2>5, <2>6, <2>7, FilledContinues
  <2>9. Whole(a.cells)
    BY <2>6, <2>8, WholeBack
  <2>10. own \in BOOLEAN /\ stack \in Seq(Nat)
    BY DEF IInv, BuilderTypes
  <2>11. LET c == Filled(Assured(Built, key + 4), v.cells, BSize(v.cells[1]))
         IN  \E q : Grown(c.cells, calls \o v.calls, c.cur, stack, opened, q)
    <3> DEFINE b == Built
               n == key + 4
    <3>1. b \in Buffers /\ Grown(b.cells, calls, b.cur, stack, opened, r) /\ n \in Nat /\ Value(v)
      BY <1>1, <1>3, <2>2, <2>3
    <3>2. Whole(Assured(b, n).cells)
      BY <2>9 DEF a
    <3> HIDE DEF b, n
    <3>3. LET c == Filled(Assured(b, n), v.cells, BSize(v.cells[1]))
          IN  \E q : Grown(c.cells, calls \o v.calls, c.cur, stack, opened, q)
      BY <2>1, <2>10, <3>1, <3>2, GrownFilled
    <3> QED
      BY <3>3 DEF b, n
  <2>12. \E q : Grown(Keyed(key).cells, calls \o v.calls, Keyed(key).cur, stack, opened, q)
    BY <2>5, <2>11 DEF a
  <2> QED
    BY <2>1, <2>4, <2>12
<1> QED
  BY <1>6, <1>7

(* Values and containers pushed.                                           *)
LEMMA WalkablePush ==
  ASSUME Honest, IInv, Walkable, msg = <<>>, UNCHANGED <<stack, opened>>,
         NEW key \in KeyLengths \cup {NoKey}, MayPush(key), NEW v, Value(v), NEW need \in Nat,
         Becomes(Filled(Assured(Keyed(key), need), v.cells, BSize(v.cells[1]))), Called(key, v.calls)
  PROVE  Walkable'
<1> DEFINE b == Keyed(key)
           a == Assured(b, need)
           size == BSize(v.cells[1])
           c == Filled(a, v.cells, size)
<1>1. b \in Buffers
  BY KeyedContinues DEF IInv, Continues
<1>2. a \in Buffers /\ Continues(b, a)
  <2> HIDE DEF b
  <2> QED
    BY <1>1, AssuredContinues DEF Continues, IInv, BuilderTypes
<1>3. cells' = c.cells /\ cur' = c.cur /\ calls' = KeyCalls(key) \o v.calls
  BY DEF Becomes, Called, KeyCalls
<1>4. v.cells \in Seq(CellSet) /\ size \in Nat
  <2>1. v.cells \in Seq(Intact) /\ v.cells # <<>> /\ 1 \in DOMAIN v.cells
    BY DEF Value
  <2>2. v.cells[1] \in Intact /\ v.cells[1].field # NoSize
    BY <2>1 DEF Value
  <2>3. Intact \subseteq CellSet
    BY DEF Intact, CellSet
  <2>4. v.cells \in Seq(CellSet)
    BY <2>1, <2>3, SeqMonotonic
  <2> QED
    BY <2>2, <2>4, IntactSize
<1> SUFFICES ASSUME Whole(cells') PROVE \E r : Grown(cells', calls', cur', stack', opened', r)
  BY DEF Walkable, Whole
<1>5. Continues(a, c)
  <2> HIDE DEF a, size
  <2> QED
    BY <1>2, <1>4, FilledContinues
<1> HIDE DEF c
<1>6. Whole(a.cells)
  BY <1>2, <1>3, <1>5, WholeBack
<1> HIDE DEF a
<1>7. Whole(b.cells)
  BY <1>1, <1>2, <1>6, WholeBack
<1>8. PICK r : Grown(b.cells, KeyCalls(key), b.cur, stack, opened, r)
  BY <1>7, KeyedGrown
<1>9. KeyCalls(key) = <<>> \/ stack # <<>>
  BY <1>7, KeyedGrown
<1> HIDE DEF b
<1>10. own \in BOOLEAN /\ stack \in Seq(Nat)
  BY DEF IInv, BuilderTypes
<1>11. \E q : Grown(c.cells, KeyCalls(key) \o v.calls, c.cur, stack, opened, q)
  BY <1>1, <1>6, <1>8, <1>9, <1>10, GrownFilled DEF a, c
<1> QED
  BY <1>3, <1>11

(* An object or array opened.                                              *)
LEMMA WalkableOpen ==
  ASSUME Honest, IInv, Walkable, NEW kind \in Containers, NEW key \in KeyLengths \cup {NoKey},
         Open(kind, key), NEW a \in Buffers, Continues(Keyed(key), a), a.cur = Keyed(key).cur,
         Whole(a.cells) => a.cells = Keyed(key).cells,
         Becomes(Filled(a, <<Cell(kind, NoSize, 5)>>, 5))
  PROVE  Walkable'
<1> DEFINE b == Keyed(key)
           new == <<Cell(kind, NoSize, 5)>>
           c == Filled(a, new, 5)
           what == <<Begins(kind)>>
<1>1. /\ msg = <<>> /\ MayPush(key) /\ stack' = Append(stack, a.cur) /\ opened' = Append(opened, kind)
      /\ cells' = c.cells /\ cur' = c.cur /\ calls' = KeyCalls(key) \o what
  BY DEF Open, Becomes, Called, KeyCalls
<1>2. b \in Buffers
  BY KeyedContinues DEF IInv, Continues
<1>3. new \in Seq(CellSet)
  BY KindsSized DEF Cell, CellSet, Containers
<1> SUFFICES ASSUME Whole(cells') PROVE \E r : Grown(cells', calls', cur', stack', opened', r)
  BY DEF Walkable, Whole
<1>4. Continues(a, c) /\ c.cells = a.cells \o Shifted(new, a.cur) /\ c.cur = a.cur + 5
  <2> HIDE DEF new
  <2> QED
    BY <1>3, FilledContinues, FilledIs, ZenonT(60)
<1> HIDE DEF c, new
<1>5. Whole(a.cells)
  BY <1>1, <1>4, WholeBack
<1>6. a.cells = b.cells /\ Whole(b.cells)
  BY <1>5
<1>7. PICK r : Grown(b.cells, KeyCalls(key), b.cur, stack, opened, r)
  BY <1>1, <1>6, KeyedGrown
<1>8. KeyCalls(key) = <<>> \/ stack # <<>>
  BY <1>1, <1>6, KeyedGrown
<1> HIDE DEF b, what
<1>9. stack \in Seq(Nat) /\ opened \in Seq(Containers) /\ Len(opened) = Len(stack)
  BY DEF IInv, BuilderTypes
<1>10. \E q : Grown(b.cells \o Shifted(new, b.cur), KeyCalls(key) \o what, b.cur + 5,
                    Append(stack, b.cur), Append(opened, kind), q)
  BY <1>7, <1>8, <1>9, GrownOpen DEF new, what
<1>11. a.cur = b.cur
  BY DEF b
<1> QED
  BY <1>1, <1>4, <1>6, <1>10, <1>11

(* The innermost value closed, and all of them.                            *)
LEMMA WalkablePop ==
  ASSUME IInv, Walkable, Pop
  PROVE  Walkable'
<1>1. /\ msg = <<>> /\ stack # <<>> /\ cells' = Sealed(cells, {stack[Len(stack)]}, cur) /\ cur' = cur
      /\ stack' = Front1(stack) /\ opened' = Front1(opened)
      /\ calls' = Append(calls, Ends(opened[Len(opened)]))
  BY DEF Pop, Closed, Top, Sealed, Front1
<1>2. /\ cells \in Seq(CellSet) /\ stack \in Seq(Nat) /\ opened \in Seq(Containers) /\ Len(opened) = Len(stack)
      /\ \A d \in DOMAIN stack : stack[d] + 5 <= cur
      /\ \A d, e \in DOMAIN stack : d < e => stack[d] < stack[e]
  BY DEF IInv, BuilderTypes, StackInv, StackPoints
<1> SUFFICES ASSUME Whole(cells') PROVE \E r : Grown(cells', calls', cur', stack', opened', r)
  BY DEF Walkable, Whole
<1>3. Whole(cells)
  <2> SUFFICES ASSUME cells # <<>> PROVE cells[1].kind # "JUNK"
    BY DEF Whole
  <2>1. 1 \in DOMAIN cells /\ cells[1] \in CellSet
    BY <1>2
  <2>2. 1 \in DOMAIN cells' /\ cells'[1].kind = cells[1].kind
    BY <1>1, <2>1 DEF Sealed, CellSet
  <2>3. cells' # <<>>
    BY <2>2
  <2> QED
    BY <2>2, <2>3 DEF Whole
<1>4. PICK r : Grown(cells, calls, cur, stack, opened, r)
  BY <1>1, <1>3 DEF Walkable
<1>5. \E q : Grown(Sealed(cells, {stack[Len(stack)]}, cur), Append(calls, Ends(opened[Len(stack)])),
                   cur, Front1(stack), Front1(opened), q)
  BY <1>1, <1>2, <1>4, GrownClose
<1> QED
  BY <1>1, <1>2, <1>5

(* All open values closed by opo_builder_take or opo_builder_finish.       *)
LEMMA AllClosed ==
  ASSUME IInv, Walkable, msg = <<>>, Whole(cells), CloseAll
  PROVE  \E q : Grown(Closed({stack[i] : i \in DOMAIN stack}), calls', cur, <<>>, <<>>, q)
<1>1. /\ stack \in Seq(Nat) /\ opened \in Seq(Containers) /\ Len(opened) = Len(stack)
      /\ \A d \in DOMAIN stack : stack[d] + 5 <= cur
      /\ \A d, e \in DOMAIN stack : d < e => stack[d] < stack[e]
  BY DEF IInv, BuilderTypes, StackInv, StackPoints
<1>2. PICK r : Grown(cells, calls, cur, stack, opened, r)
  BY DEF Walkable
<1>3. \E q : Grown(Sealed(cells, {stack[d] : d \in DOMAIN stack}, cur), calls \o EndsOf(opened, Len(opened)), cur, <<>>, <<>>, q)
  BY <1>1, <1>2, GrownCloseAll
<1>4. calls' = calls \o EndsOf(opened, Len(opened))
  <2>1. DOMAIN opened = 1 .. Len(opened)
    BY <1>1
  <2> QED
    BY <2>1 DEF CloseAll, EndsOf
<1>5. Closed({stack[i] : i \in DOMAIN stack}) = Sealed(cells, {stack[d] : d \in DOMAIN stack}, cur)
  BY DEF Closed, Sealed
<1> QED
  BY <1>3, <1>4, <1>5
-----------------------------------------------------------------------------
(* A walk goes through the whole of a message taken.                       *)
Complete(r) == Grown(msg, calls, Id + BSize(msg[1]), <<>>, <<>>, r)
Readable == msg # <<>> /\ msg[1].kind # "JUNK" => \E r : Complete(r)

(* The message taken is all of its first value.                            *)
LEMMA RootDone ==
  ASSUME IInv, msg = <<>>, cells # <<>>, NEW done, done = Closed({stack[i] : i \in DOMAIN stack})
  PROVE  /\ done \in Seq(CellSet) /\ Len(done) = Len(cells) /\ done # <<>>
         /\ done[1].kind = cells[1].kind
         /\ RootSized(done, cur)
<1> DEFINE S == {stack[i] : i \in DOMAIN stack}
<1>1. (\A s \in S : s \in Nat /\ s + 5 <= cur) /\ (stack # <<>> => Id \in S) /\ done = Closed(S)
  BY AllOpen
<1>2. stack = <<>> => S = {}
  OBVIOUS
<1> HIDE DEF S
<1>3. cells \in Seq(CellSet) /\ 1 \in DOMAIN cells
  BY DEF IInv, BuilderTypes
<1>4. /\ done \in Seq(CellSet) /\ Len(done) = Len(cells) /\ done # <<>>
      /\ done[1].kind = cells[1].kind
  BY <1>1, <1>3, ClosedCells
<1>5. RootSized(done, cur)
  <2>1. CASE stack # <<>>
    BY <1>1, <2>1, RootClosed
  <2>2. CASE stack = <<>>
    <3>1. RootSized(cells, cur)
      BY <2>2 DEF IInv, RootInv
    <3>2. done[1].field = cells[1].field
      BY <1>1, <1>2, <1>3, <2>2, ClosedCells
    <3> QED
      BY <1>4, <3>1, <3>2 DEF RootSized, BSize
  <2> QED
    BY <2>1, <2>2
<1> QED
  BY <1>4, <1>5

(* All of a caller's buffer is copied, as every cell is before its end.    *)
LEMMA AllCopied ==
  ASSUME NEW done \in Seq(CellSet), NEW size \in Nat, \A i \in DOMAIN done : done[i].at < size
  PROVE  SubSeq(done, 1, Cardinality({i \in DOMAIN done : done[i].at < size})) = done
<1> DEFINE n == Len(done)
<1>1. n \in Nat /\ DOMAIN done = 1 .. n
  OBVIOUS
<1>2. {i \in DOMAIN done : done[i].at < size} = 1 .. n
  BY <1>1
<1>3. SubSeq(done, 1, n) = done
  BY SubSeqFull
<1> HIDE DEF n
<1>4. Cardinality(1 .. n) = n
  <2>1. n \in Int /\ 1 \in Int
    BY <1>1
  <2>2. Cardinality(1 .. n) = IF 1 > n THEN 0 ELSE n - 1 + 1
    BY <2>1, FS_Interval
  <2> QED
    BY <1>1, <2>2
<1> QED
  BY <1>2, <1>3, <1>4

(* A message taken is one that a reader can walk through.                  *)
LEMMA ReadableTake ==
  ASSUME Honest, IInv, Walkable, Take
  PROVE  Readable'
<1> DEFINE done == Closed({stack[i] : i \in DOMAIN stack})
           copied == {i \in DOMAIN done : done[i].at < MsgBSize(done)}
<1>1. /\ msg = <<>> /\ cells # <<>> /\ CloseAll
      /\ msg' = IF own \/ cells[1].kind = "JUNK" THEN done ELSE SubSeq(done, 1, Cardinality(copied))
  BY DEF Take
<1>2. /\ done \in Seq(CellSet) /\ Len(done) = Len(cells) /\ done # <<>> /\ 1 \in DOMAIN done
      /\ done[1].kind = cells[1].kind
      /\ RootSized(done, cur)
  BY <1>1, RootDone
<1>3. CASE cells[1].kind = "JUNK"
  BY <1>1, <1>2, <1>3 DEF Readable
<1>4. CASE cells[1].kind # "JUNK"
  <2>1. PICK r : Grown(done, calls', cur, <<>>, <<>>, r)
    BY <1>1, <1>4, AllClosed DEF Whole
  <2>2. BSize(done[1]) + Id = cur /\ cur \in Nat
    BY <1>2, <1>4 DEF RootSized, Honest, IInv, BuilderTypes
  <2>3. \A i \in DOMAIN done : done[i].at < cur
    BY <2>1 DEF Grown, Walk, Laid
  <2>4. MsgBSize(done) = cur
    BY <2>2 DEF MsgBSize
  <2> HIDE DEF done
  <2>5. msg' = done
    BY <1>1, <1>2, <2>2, <2>3, <2>4, AllCopied
  <2>6. Id + BSize(done[1]) = cur
    <3>1. BSize(done[1]) \in Nat /\ Id \in Nat
      BY <1>2, <1>4 DEF RootSized, Id
    <3> QED
      BY <2>2, <3>1
  <2>7. Id + BSize(msg'[1]) = cur
    BY <2>5, <2>6
  <2>8. Grown(msg', calls', Id + BSize(msg'[1]), <<>>, <<>>, r)
    BY <2>1, <2>5, <2>7
  <2>9. \E q : Complete(q)'
    BY <2>8 DEF Complete
  <2> QED
    BY <2>9 DEF Readable
<1> QED
  BY <1>3, <1>4
-----------------------------------------------------------------------------
(* At first there is nothing to walk through.                              *)
LEMMA WalkInit == MessageInit => Walkable /\ Readable
<1> SUFFICES ASSUME MessageInit PROVE Walkable /\ Readable
  OBVIOUS
<1>1. cells = <<>> /\ calls = <<>> /\ cur = Id /\ stack = <<>> /\ opened = <<>> /\ msg = <<>>
  BY DEF MessageInit, Init
<1> QED
  BY <1>1, GrownNone DEF Walkable, Readable

(* Every call of builder.c keeps what is built, and what is taken, a value *)
(* that a reader can walk through.                                         *)
LEMMA WalkStep ==
  ASSUME Honest, IInv, Walkable, Readable, [MessageNext]_vars
  PROVE  Walkable' /\ Readable'
<1>1. ASSUME NEW key \in KeyLengths \cup {NoKey}, NEW leaf \in Leaves, PushLeaf(leaf, key)
      PROVE  Walkable' /\ Readable'
  <2> DEFINE v == [cells |-> <<leaf>>, calls |-> <<Callback(leaf.kind)>>]
  <2>1. Value(v) /\ leaf \in Intact /\ leaf.bytes = BSize(leaf) /\ leaf.field # NoSize
    BY LeafValue DEF Honest, Exact, Value
  <2>2. v.cells = <<leaf>> /\ v.calls = <<Callback(leaf.kind)>> /\ v.cells[1] = leaf
    OBVIOUS
  <2>3. Need(leaf) \in Nat
    BY <2>1, IntactSize DEF Need
  <2>4. /\ msg = <<>> /\ msg' = msg /\ MayPush(key) /\ UNCHANGED <<stack, opened>>
        /\ Becomes(Filled(Assured(Keyed(key), Need(leaf)), v.cells, BSize(v.cells[1]))) /\ Called(key, v.calls)
    BY <1>1, <2>1, <2>2 DEF PushLeaf
  <2> HIDE DEF v
  <2>5. Walkable'
    BY <2>1, <2>3, <2>4, WalkablePush
  <2> QED
    BY <2>4, <2>5 DEF Readable
<1>2. ASSUME NEW key \in KeyLengths \cup {NoKey}, NEW v \in Values, PushVal(v, key)
      PROVE  Walkable' /\ Readable'
  <2>1. Value(v) /\ BSize(v.cells[1]) \in Nat
    <3>1. Value(v)
      BY PushedValue
    <3>2. 1 \in DOMAIN v.cells /\ v.cells[1] \in Intact /\ v.cells[1].field # NoSize
      BY <3>1 DEF Value
    <3> QED
      BY <3>1, <3>2, IntactSize
  <2>2. /\ msg = <<>> /\ msg' = msg /\ MayPush(key) /\ UNCHANGED <<stack, opened>>
        /\ Becomes(Filled(Assured(Keyed(key), BSize(v.cells[1])), v.cells, BSize(v.cells[1])))
        /\ Called(key, v.calls)
    BY <1>2 DEF PushVal
  <2>3. Walkable'
    BY <2>1, <2>2, WalkablePush
  <2> QED
    BY <2>2, <2>3 DEF Readable
<1>3. ASSUME NEW key \in KeyLengths \cup {NoKey}, PushObject(key)
      PROVE  Walkable' /\ Readable'
  <2> DEFINE b == Keyed(key)
             a == Assured(b, 5)
  <2>1. b \in Buffers /\ own \in BOOLEAN
    BY KeyedContinues DEF IInv, Continues, BuilderTypes
  <2>2. Continues(b, a) /\ a \in Buffers /\ a.cur = b.cur /\ (Whole(a.cells) => a.cells = b.cells)
    <3> HIDE DEF b
    <3> QED
      BY <2>1, AssuredContinues, AssuredWhole DEF Continues
  <2>3. "OBJ" \in Containers /\ Open("OBJ", key) /\ Becomes(Filled(a, <<Cell("OBJ", NoSize, 5)>>, 5))
    BY <1>3 DEF PushObject, Containers
  <2> HIDE DEF a
  <2>4. Walkable'
    BY <2>2, <2>3, WalkableOpen
  <2> QED
    BY <2>3, <2>4 DEF Readable, Open
<1>4. ASSUME NEW key \in KeyLengths \cup {NoKey}, PushArray(key)
      PROVE  Walkable' /\ Readable'
  <2>1. Keyed(key) \in Buffers
    BY KeyedContinues DEF IInv, Continues
  <2>2. Continues(Keyed(key), Keyed(key))
    BY <2>1 DEF Continues, Buffers
  <2>3. "ARRAY" \in Containers /\ Open("ARRAY", key) /\ Becomes(Filled(Keyed(key), <<Cell("ARRAY", NoSize, 5)>>, 5))
    BY <1>4 DEF PushArray, Containers
  <2>4. Walkable'
    BY <2>1, <2>2, <2>3, WalkableOpen
  <2> QED
    BY <2>3, <2>4 DEF Readable, Open
<1>5. CASE Pop
  BY <1>5, WalkablePop DEF Readable, Pop
<1>6. CASE Finish
  <2>1. /\ msg = <<>> /\ msg' = msg /\ CloseAll /\ stack' = <<>> /\ opened' = <<>> /\ cur' = cur
        /\ cells' = Closed({stack[i] : i \in DOMAIN stack}) /\ stack # <<>>
    BY <1>6 DEF Finish, CloseAll
  <2>2. cells # <<>>
    BY <2>1 DEF IInv, RootInv
  <2>3. Whole(cells') => Whole(cells)
    BY <2>1, <2>2, RootDone DEF Whole
  <2>4. Whole(cells') => \E q : Grown(cells', calls', cur', stack', opened', q)
    BY <2>1, <2>3, AllClosed
  <2>5. Walkable'
    BY <2>4 DEF Walkable, Whole
  <2> QED
    BY <2>1, <2>5 DEF Readable
<1>7. CASE Take
  BY <1>7, StepTake, ReadableTake DEF Walkable
<1>8. CASE UNCHANGED builder
  <2>1. UNCHANGED <<cells, cur, stack, opened, calls, msg>>
    BY <1>8 DEF builder, buffer, history
  <2>2. Whole(cells') /\ msg' = <<>> => \E q : Grown(cells', calls', cur', stack', opened', q)
    BY <2>1 DEF Walkable
  <2>3. Walkable'
    BY <2>2 DEF Walkable, Whole
  <2>4. msg' # <<>> /\ msg'[1].kind # "JUNK" => \E q : Grown(msg', calls', Id + BSize(msg'[1]), <<>>, <<>>, q)
    BY <2>1 DEF Readable, Complete
  <2>5. Readable'
    BY <2>4 DEF Readable, Complete
  <2> QED
    BY <2>3, <2>5
<1> QED
  BY <1>1, <1>2, <1>3, <1>4, <1>5, <1>6, <1>7, <1>8 DEF MessageNext, Build, vars
-----------------------------------------------------------------------------
(* A buffer that still has its first cell has all it was given.            *)
Kept(cs) == Whole(cs) => cs \in Seq(Intact)
Sound == Kept(cells) /\ Kept(msg)

(* A buffer filled is whole if it was.                                     *)
LEMMA FilledKept ==
  ASSUME NEW b \in Buffers, Kept(b.cells), NEW cs \in Seq(Intact), NEW size \in Nat
  PROVE  Kept(Filled(b, cs, size).cells)
<1> DEFINE c == Filled(b, cs, size)
<1>1. Continues(b, c) /\ c.cells = b.cells \o Shifted(cs, b.cur)
  <2>1. Intact \subseteq CellSet
    BY DEF Intact, CellSet
  <2>2. cs \in Seq(CellSet)
    BY <2>1, SeqMonotonic
  <2> QED
    BY <2>2, FilledContinues, FilledIs
<1> HIDE DEF c
<1> SUFFICES ASSUME Whole(c.cells) PROVE c.cells \in Seq(Intact)
  BY DEF Kept, c
<1>2. b.cells \in Seq(Intact) /\ b.cur \in Nat
  BY <1>1, WholeBack DEF Kept, Buffers
<1>3. Shifted(cs, b.cur) \in Seq(Intact)
  BY <1>2, ShiftedCells
<1> QED
  BY <1>1, <1>2, <1>3

(* A buffer with more room is whole if it was and is not lost.             *)
LEMMA AssuredKept ==
  ASSUME NEW b \in Buffers, Kept(b.cells), own \in BOOLEAN, NEW need \in Nat
  PROVE  Kept(Assured(b, need).cells) /\ Assured(b, need) \in Buffers
BY AssuredWhole, AssuredContinues DEF Kept, Continues

(* A buffer with a key in it is whole if it was.                           *)
LEMMA KeyedKept ==
  ASSUME IInv, Sound, NEW key \in KeyLengths \cup {NoKey}
  PROVE  Kept(Keyed(key).cells) /\ Keyed(key) \in Buffers
<1>1. /\ Built \in Buffers /\ Continues(Built, Keyed(key)) /\ (key = NoKey => Keyed(key) = Built)
      /\ Kept(Built.cells) /\ own \in BOOLEAN
  BY KeyedContinues DEF IInv, BuilderTypes, Built, Sound
<1>2. CASE key = NoKey
  BY <1>1, <1>2
<1>3. CASE key # NoKey
  <2>1. KeyLengths \subseteq Nat
    BY BuilderAssumption
  <2>2. key \in Nat /\ key + 4 \in Nat
    BY <1>3, <2>1
  <2>3. KeyCell(key) \in CellSet /\ KeyCell(key).bytes \in Nat /\ KeyCell(key).kind \in {"KEY1", "KEY2"}
    BY <2>2, KeyWritten DEF KeyCell, Cell
  <2>4. KeyCell(key) \in Intact
    BY <2>3, KindsSized DEF CellSet, Intact
  <2> DEFINE a == Assured(Built, key + 4)
             cs == <<KeyCell(key)>>
  <2>5. Keyed(key) = Filled(a, cs, KeyCell(key).bytes)
    BY <1>3 DEF Keyed, Built
  <2>6. Kept(a.cells) /\ a \in Buffers
    BY <1>1, <2>2, AssuredKept
  <2>7. cs \in Seq(Intact)
    BY <2>4
  <2> HIDE DEF a, cs
  <2>8. Kept(Filled(a, cs, KeyCell(key).bytes).cells)
    BY <2>3, <2>6, <2>7, FilledKept
  <2> QED
    BY <1>1, <2>5, <2>8 DEF Continues
<1> QED
  BY <1>2, <1>3

(* Sizes written into open values leave the buffer whole, and lose none.   *)
LEMMA ClosedKept ==
  ASSUME IInv, Sound, NEW S, \A s \in S : s \in Nat /\ s + 5 <= cur
  PROVE  Kept(Closed(S)) /\ (Whole(Closed(S)) <=> Whole(cells))
<1> DEFINE done == Closed(S)
<1>1. /\ done \in Seq(CellSet) /\ Len(done) = Len(cells) /\ cells \in Seq(CellSet)
      /\ \A i \in DOMAIN cells : done[i].kind = cells[i].kind
  BY ClosedCells DEF IInv, BuilderTypes
<1> HIDE DEF done
<1>2. DOMAIN done = 1 .. Len(done) /\ DOMAIN cells = DOMAIN done /\ Len(done) \in Nat
  BY <1>1
<1>3. Whole(done) <=> Whole(cells)
  <2>1. done = <<>> <=> cells = <<>>
    BY <1>1
  <2>2. cells # <<>> => done[1].kind = cells[1].kind
    BY <1>1
  <2> QED
    BY <2>1, <2>2 DEF Whole
<1>4. ASSUME Whole(cells) PROVE done \in Seq(Intact)
  <2>1. cells \in Seq(Intact)
    BY <1>4 DEF Sound, Kept
  <2>2. ASSUME NEW i \in DOMAIN done PROVE done[i] \in Intact
    <3>1. done[i] \in CellSet /\ cells[i] \in Intact /\ done[i].kind = cells[i].kind
      BY <1>1, <1>2, <2>1
    <3> QED
      BY <3>1 DEF CellSet, Intact
  <2> QED
    BY <1>1, <1>2, <2>2
<1> QED
  BY <1>3, <1>4 DEF Kept, done

(* No call of builder.c leaves a buffer that has its first cell without    *)
(* others.                                                                 *)
LEMMA SoundStep ==
  ASSUME IInv, Sound, Build
  PROVE  Sound'
<1>1. ASSUME NEW key \in KeyLengths \cup {NoKey}, NEW cs \in Seq(Intact), NEW need \in Nat, NEW size \in Nat,
             Becomes(Filled(Assured(Keyed(key), need), cs, size)), msg' = msg
      PROVE  Sound'
  <2> DEFINE b == Keyed(key)
             a == Assured(b, need)
  <2>1. b \in Buffers /\ Kept(b.cells) /\ own \in BOOLEAN
    BY KeyedKept DEF IInv, BuilderTypes
  <2> HIDE DEF b
  <2>2. a \in Buffers /\ Kept(a.cells)
    BY <2>1, AssuredKept
  <2> HIDE DEF a
  <2>3. Kept(Filled(a, cs, size).cells)
    BY <2>2, FilledKept
  <2>4. cells' = Filled(a, cs, size).cells
    BY <1>1 DEF Becomes, a, b
  <2> QED
    BY <1>1, <2>3, <2>4 DEF Sound, Kept, Whole
<1>2. ASSUME NEW key \in KeyLengths \cup {NoKey}, NEW leaf \in Leaves, PushLeaf(leaf, key) PROVE Sound'
  <2>1. leaf \in Intact /\ leaf.bytes \in Nat /\ leaf.field # NoSize
    <3>1. leaf \in Pushable
      BY BuilderAssumption
    <3> QED
      BY <3>1 DEF Pushable, Intact, NoSize
  <2>2. Need(leaf) \in Nat /\ <<leaf>> \in Seq(Intact)
    BY <2>1, IntactSize DEF Need
  <2> QED
    BY <1>1, <1>2, <2>1, <2>2 DEF PushLeaf
<1>3. ASSUME NEW key \in KeyLengths \cup {NoKey}, NEW v \in Values, PushVal(v, key) PROVE Sound'
  <2>1. v.cells \in Seq(Pushable) /\ v.cells # <<>> /\ 1 \in DOMAIN v.cells
    BY BuilderAssumption
  <2>2. Pushable \subseteq Intact
    BY DEF Pushable, Intact
  <2>3. v.cells \in Seq(Intact) /\ v.cells[1] \in Pushable
    BY <2>1, <2>2, SeqMonotonic
  <2>4. BSize(v.cells[1]) \in Nat
    BY <2>3, Pushed, SizeOfCell
  <2> QED
    BY <1>1, <1>3, <2>3, <2>4 DEF PushVal
<1>4. ASSUME NEW kind \in Containers PROVE <<Cell(kind, NoSize, 5)>> \in Seq(Intact)
  <2>1. Cell(kind, NoSize, 5) \in Intact
    BY KindsSized DEF Cell, Intact, Containers
  <2> QED
    BY <2>1
<1>5. ASSUME NEW key \in KeyLengths \cup {NoKey}, PushObject(key) PROVE Sound'
  BY <1>1, <1>4, <1>5 DEF PushObject, Open, Containers
<1>6. ASSUME NEW key \in KeyLengths \cup {NoKey}, PushArray(key) PROVE Sound'
  <2> DEFINE cs == <<Cell("ARRAY", NoSize, 5)>>
  <2>1. cs \in Seq(Intact) /\ 5 \in Nat
    BY <1>4 DEF Containers
  <2>2. cells' = Filled(Keyed(key), cs, 5).cells /\ msg' = msg
    BY <1>6 DEF PushArray, Open, Becomes
  <2> HIDE DEF cs
  <2>3. Kept(Filled(Keyed(key), cs, 5).cells)
    BY <2>1, KeyedKept, FilledKept
  <2> QED
    BY <2>2, <2>3 DEF Sound, Kept, Whole
<1>7. CASE Pop
  <2>1. stack # <<>> /\ cells' = Closed({Top}) /\ msg' = msg
    BY <1>7 DEF Pop
  <2>2. Len(stack) \in DOMAIN stack /\ stack \in Seq(Nat)
    BY <2>1 DEF IInv, BuilderTypes
  <2>3. \A s \in {Top} : s \in Nat /\ s + 5 <= cur
    BY <2>2 DEF Top, IInv, StackInv
  <2>4. Kept(Closed({Top}))
    BY <2>3, ClosedKept
  <2> QED
    BY <2>1, <2>4 DEF Sound, Kept, Whole
<1>8. CASE Finish
  <2>1. cells' = Closed({stack[i] : i \in DOMAIN stack}) /\ msg' = msg
    BY <1>8 DEF Finish
  <2>2. Kept(Closed({stack[i] : i \in DOMAIN stack}))
    BY AllOpen, ClosedKept
  <2> QED
    BY <2>1, <2>2 DEF Sound, Kept, Whole
<1>9. CASE Take
  <2> DEFINE done == Closed({stack[i] : i \in DOMAIN stack})
             copied == {i \in DOMAIN done : done[i].at < MsgBSize(done)}
  <2>1. /\ cells' = <<>> /\ cells # <<>>
        /\ msg' = IF own \/ cells[1].kind = "JUNK" THEN done ELSE SubSeq(done, 1, Cardinality(copied))
    BY <1>9 DEF Take
  <2>2. Kept(done) /\ (Whole(done) <=> Whole(cells))
    BY AllOpen, ClosedKept
  <2>3. <<>> \in Seq(Intact)
    OBVIOUS
  <2> HIDE DEF done
  <2>4. CASE own \/ cells[1].kind = "JUNK"
    BY <2>1, <2>2, <2>3, <2>4 DEF Sound, Kept, Whole
  <2>5. CASE ~(own \/ cells[1].kind = "JUNK")
    <3>1. done \in Seq(Intact)
      BY <2>2, <2>5 DEF Kept, Whole
    <3>2. Cardinality(copied) \in Nat /\ Cardinality(copied) <= Len(done)
      <4>1. DOMAIN done = 1 .. Len(done) /\ Len(done) \in Nat
        BY <3>1
      <4> DEFINE n == Len(done)
      <4>2. n \in Nat /\ n \in Int /\ 1 \in Int /\ copied \subseteq 1 .. n
        BY <4>1
      <4> HIDE DEF n, copied
      <4>3. IsFiniteSet(1 .. n) /\ Cardinality(1 .. n) = IF 1 > n THEN 0 ELSE n - 1 + 1
        BY <4>2, FS_Interval
      <4>4. Cardinality(1 .. n) = n
        BY <4>2, <4>3
      <4>5. IsFiniteSet(copied) /\ Cardinality(copied) <= Cardinality(1 .. n)
        BY <4>2, <4>3, FS_Subset
      <4>6. Cardinality(copied) \in Nat
        BY <4>5, FS_CardinalityType
      <4> QED
        BY <4>4, <4>5, <4>6 DEF n
    <3>3. msg' = SubSeq(done, 1, Cardinality(copied))
      BY <2>1, <2>5
    <3> HIDE DEF copied
    <3>4. msg' \in Seq(Intact)
      BY <3>1, <3>2, <3>3
    <3> QED
      BY <2>1, <2>3, <3>4 DEF Sound, Kept
  <2> QED
    BY <2>4, <2>5
<1> QED
  BY <1>2, <1>3, <1>5, <1>6, <1>7, <1>8, <1>9 DEF Build
-----------------------------------------------------------------------------
(* A running call: for the message or for an object or array, with its     *)
(* end.                                                                    *)
Frames == [kind : Containers \cup {"TOP"}, end : Nat \ {0}]

(* What a reader keeps: before it starts all is at its beginning, it reads *)
(* no message that was lost, and a call that has not tested cont yet was   *)
(* made with cont set.                                                     *)
ReaderInv == /\ pos \in Nat /\ frames \in Seq(Frames)
             /\ fresh \in BOOLEAN /\ cont \in BOOLEAN /\ err \in BOOLEAN
             /\ pos = 0 => frames = <<>> /\ ~fresh /\ cont /\ ~err /\ events = <<>>
             /\ pos # 0 => msg # <<>> /\ msg[1].kind # "JUNK"
             /\ fresh => cont

(* The reader's encoding is the builder's.                                 *)
LEMMA SameWire ==
  /\ Reader!Containers = Containers
  /\ \A k : Reader!Callback(k) = Callback(k)
  /\ \A k : Reader!Begins(k) = Begins(k) /\ Reader!Ends(k) = Ends(k)
  /\ \A c : Reader!BSize(c) = BSize(c)
<1>1. Reader!Containers = Containers
  BY DEF Reader!Containers, Containers
<1>2. \A k : Reader!Callback(k) = Callback(k)
  BY DEF Reader!Callback, Callback
<1>3. \A k : Reader!Begins(k) = Begins(k) /\ Reader!Ends(k) = Ends(k)
  BY DEF Reader!Begins, Begins, Reader!Ends, Ends
<1>4. Reader!Overhead = Overhead
  BY DEF Reader!Overhead, Overhead
<1>5. Reader!Sized = Sized
  BY <1>1 DEF Reader!Sized, Sized
<1>6. \A c : Reader!BSize(c) = BSize(c)
  BY <1>4, <1>5 DEF Reader!BSize, BSize
<1> QED
  BY <1>1, <1>2, <1>3, <1>6

(* A callback made answers and is heard if it is set.                      *)
LEMMA TellDoes ==
  ASSUME NEW name, NEW looked \in BOOLEAN, cont \in BOOLEAN, err \in BOOLEAN, Reader!Tell(name, looked)
  PROVE  /\ cont' \in BOOLEAN /\ err' \in BOOLEAN /\ (err => err')
         /\ events' = IF name \in set THEN Append(events, name) ELSE events
<1>1. CASE name \in set
  <2>1. PICK a \in Answers : /\ events' = Append(events, name)
                             /\ cont' = ~(looked /\ a = "stop")
                             /\ err' = (err \/ a = "err")
    BY <1>1 DEF Reader!Tell
  <2>2. cont' \in BOOLEAN /\ err' \in BOOLEAN
    BY <2>1, Zenon
  <2>3. err => err'
    BY <2>1, Zenon
  <2>4. events' = IF name \in set THEN Append(events, name) ELSE events
    BY <1>1, <2>1
  <2> QED
    BY <2>2, <2>3, <2>4
<1>2. CASE name \notin set
  BY <1>2 DEF Reader!Tell
<1> QED
  BY <1>1, <1>2

(* A cell the reader is at, in a message that was not lost.                *)
LEMMA HereIs ==
  ASSUME Sound, ReaderInv, pos # 0, NEW i \in Reader!Here
  PROVE  /\ i \in DOMAIN msg /\ msg[i] \in Intact /\ msg[i].at = pos
         /\ msg[i].kind \in Kinds /\ msg[i].field \in Nat \cup {NoSize}
         /\ BSize(msg[i]) \in Nat
         /\ msg[i].kind \notin Containers => pos + BSize(msg[i]) # 0
         /\ msg[i].kind \in Containers => pos + BSize(msg[i]) \in Nat \ {0}
<1>1. msg \in Seq(Intact)
  BY DEF Sound, Kept, Whole, ReaderInv
<1>2. i \in DOMAIN msg /\ msg[i].at = pos /\ msg[i] \in Intact
  BY <1>1 DEF Reader!Here
<1>3. msg[i].kind \in Kinds /\ msg[i].field \in Nat \cup {NoSize} /\ pos \in Nat
  BY <1>2 DEF Intact, ReaderInv
<1>4. Overhead[msg[i].kind] \in Nat \ {0} /\ (BSize(msg[i]) = Overhead[msg[i].kind] \/ BSize(msg[i]) = Overhead[msg[i].kind] + msg[i].field)
  BY <1>3, KindsSized DEF BSize
<1>5. BSize(msg[i]) \in Nat
  BY <1>3, <1>4 DEF NoSize
<1> QED
  BY <1>2, <1>3, <1>5

(* One step of a reader keeps what it keeps, whatever it reads: it begins. *)
LEMMA StepBegin ==
  ASSUME ReaderInv, UNCHANGED builder, Reader!Begin
  PROVE  ReaderInv' /\ UNCHANGED events
<1>1. /\ msg # <<>> /\ msg[1].kind # "JUNK" /\ pos = 0 /\ pos' = 8
      /\ frames' = <<[kind |-> "TOP", end |-> 9]>> /\ UNCHANGED <<cont, err, events, msg>>
      /\ fresh' = TRUE
  BY DEF Reader!Begin, builder
<1>2. [kind |-> "TOP", end |-> 9] \in Frames
  BY DEF Frames
<1>3. frames' \in Seq(Frames)
  BY <1>1, <1>2
<1> QED
  BY <1>1, <1>3 DEF ReaderInv

(* The innermost running call is one of those that run.                    *)
LEMMA FrameIs ==
  ASSUME ReaderInv, frames # <<>>
  PROVE  /\ Len(frames) \in Nat \ {0} /\ DOMAIN frames = 1 .. Len(frames) /\ pos # 0
         /\ Reader!Depth = Len(frames) /\ Reader!Frame = frames[Len(frames)]
         /\ Reader!Frame \in Frames /\ Reader!Frame.end \in Nat \ {0}
<1>1. frames \in Seq(Frames) /\ Len(frames) \in Nat \ {0} /\ Len(frames) \in DOMAIN frames
  BY DEF ReaderInv
<1>2. frames[Len(frames)] \in Frames
  BY <1>1
<1> QED
  BY <1>1, <1>2 DEF Frames, Reader!Depth, Reader!Frame, ReaderInv

(* A call that goes on was told to, and is before its end.                 *)
LEMMA GoingOn ==
  ASSUME ReaderInv, Reader!GoesOn
  PROVE  frames # <<>> /\ pos # 0 /\ cont /\ pos < Reader!Frame.end
<1>1. frames # <<>>
  BY DEF Reader!GoesOn, Reader!Depth
<1> QED
  BY <1>1, FrameIs DEF Reader!GoesOn, ReaderInv

(* It makes the callback for a value.                                      *)
LEMMA StepLeafRead ==
  ASSUME Sound, ReaderInv, UNCHANGED builder, Reader!Leaf
  PROVE  ReaderInv' /\ cont
<1>1. frames # <<>> /\ pos # 0 /\ cont
  BY GoingOn DEF Reader!Leaf
<1>2. PICK i \in Reader!Here : /\ msg[i].kind \notin Containers
                               /\ Reader!Tell(Callback(msg[i].kind), msg[i].kind \notin {"UUID", "TIME"})
                               /\ pos' = pos + BSize(msg[i])
  BY SameWire DEF Reader!Leaf
<1>3. cont' \in BOOLEAN /\ err' \in BOOLEAN
  BY <1>2, TellDoes DEF ReaderInv
<1>4. pos' \in Nat /\ pos' # 0
  BY <1>1, <1>2, HereIs DEF ReaderInv
<1>5. fresh' = FALSE /\ frames' = frames /\ msg' = msg
  BY DEF Reader!Leaf, builder
<1> QED
  BY <1>1, <1>3, <1>4, <1>5 DEF ReaderInv

(* It goes into an object or array.                                        *)
LEMMA StepDescend ==
  ASSUME Sound, ReaderInv, UNCHANGED builder, Reader!Descend
  PROVE  ReaderInv' /\ cont
<1>1. frames # <<>> /\ pos # 0 /\ cont
  BY GoingOn DEF Reader!Descend
<1>2. PICK i \in Reader!Here :
         /\ msg[i].kind \in Containers
         /\ Reader!Tell(Begins(msg[i].kind), TRUE)
         /\ IF cont'
            THEN /\ frames' = Append(frames, [kind |-> msg[i].kind, end |-> pos + BSize(msg[i])])
                 /\ pos' = pos + 5
                 /\ fresh' = TRUE
            ELSE /\ pos' = pos + 1
                 /\ fresh' = FALSE
                 /\ frames' = frames
  BY SameWire DEF Reader!Descend
<1>3. cont' \in BOOLEAN /\ err' \in BOOLEAN
  BY <1>2, TellDoes DEF ReaderInv
<1>4. msg' = msg /\ pos \in Nat /\ frames \in Seq(Frames)
  BY DEF builder, ReaderInv
<1>5. CASE cont'
  <2>1. /\ frames' = Append(frames, [kind |-> msg[i].kind, end |-> pos + BSize(msg[i])])
        /\ pos' = pos + 5 /\ fresh' = TRUE
    BY <1>2, <1>5
  <2>2. [kind |-> msg[i].kind, end |-> pos + BSize(msg[i])] \in Frames
    BY <1>1, <1>2, HereIs DEF Frames
  <2>3. frames' \in Seq(Frames)
    BY <1>4, <2>1, <2>2
  <2> QED
    BY <1>1, <1>3, <1>4, <1>5, <2>1, <2>3 DEF ReaderInv
<1>6. CASE ~cont'
  <2>1. pos' = pos + 1 /\ fresh' = FALSE /\ frames' = frames
    BY <1>2, <1>6
  <2>2. pos' \in Nat /\ pos' # 0
    BY <1>4, <2>1
  <2>3. msg' # <<>> /\ msg'[1].kind # "JUNK"
    BY <1>1, <1>4 DEF ReaderInv
  <2>4. frames' \in Seq(Frames) /\ fresh' \in BOOLEAN /\ ~fresh'
    BY <1>4, <2>1
  <2>5. ReaderInv'
    BY <1>3, <2>2, <2>3, <2>4, Zenon DEF ReaderInv
  <2> QED
    BY <1>1, <2>5
<1> QED
  BY <1>1, <1>5, <1>6

(* It comes out of one: it does not tell the end when it was stopped.      *)
LEMMA StepAscend ==
  ASSUME ReaderInv, UNCHANGED builder, Reader!Ascend
  PROVE  ReaderInv' /\ (~cont => UNCHANGED events)
<1>1. /\ Len(frames) > 1 /\ frames' = SubSeq(frames, 1, Len(frames) - 1)
      /\ pos' = Reader!Frame.end /\ fresh' = FALSE
  BY DEF Reader!Ascend, Reader!Resume, Reader!Depth
<1>2. frames \in Seq(Frames) /\ frames # <<>>
  BY <1>1 DEF ReaderInv
<1>3. frames' \in Seq(Frames)
  BY <1>1, <1>2, Shortened
<1>4. pos' \in Nat /\ pos' # 0 /\ pos # 0
  BY <1>1, <1>2, FrameIs
<1>5. cont' \in BOOLEAN /\ err' \in BOOLEAN
  <2>1. CASE cont
    BY <2>1, TellDoes DEF Reader!Ascend, ReaderInv
  <2>2. CASE ~cont
    BY <2>2 DEF Reader!Ascend, ReaderInv
  <2> QED
    BY <2>1, <2>2
<1>6. msg' = msg
  BY DEF builder
<1>7. ~cont => UNCHANGED events
  BY DEF Reader!Ascend
<1> QED
  BY <1>1, <1>3, <1>4, <1>5, <1>6, <1>7 DEF ReaderInv

(* It returns from the message.                                            *)
LEMMA StepReturn ==
  ASSUME ReaderInv, UNCHANGED builder, Reader!Return
  PROVE  ReaderInv' /\ UNCHANGED events
<1>1. frames # <<>> /\ frames' = <<>> /\ UNCHANGED <<pos, fresh, cont, err, events, msg>>
  BY DEF Reader!Return, Reader!Depth, builder
<1>2. pos # 0
  BY <1>1, FrameIs
<1>3. frames' \in Seq(Frames)
  BY <1>1
<1> QED
  BY <1>1, <1>2, <1>3 DEF ReaderInv

(* Every step keeps what a reader keeps, and a stopped one makes no        *)
(* callback.                                                               *)
LEMMA ReaderStep ==
  ASSUME Sound, ReaderInv, [MessageNext]_vars
  PROVE  ReaderInv' /\ (~cont => events' = events)
<1>1. CASE Build /\ UNCHANGED reader
  <2>1. msg = <<>>
    BY <1>1 DEF Build, PushLeaf, PushVal, PushObject, PushArray, Open, Pop, Finish, Take
  <2>2. pos = 0 /\ UNCHANGED <<pos, frames, fresh, cont, err, events>>
    BY <1>1, <2>1 DEF ReaderInv, reader
  <2> QED
    BY <2>2 DEF ReaderInv
<1>2. CASE Reader!Read /\ UNCHANGED builder
  BY <1>2, StepBegin, StepLeafRead, StepDescend, StepAscend, StepReturn DEF Reader!Read
<1>3. CASE UNCHANGED vars
  <2>1. UNCHANGED <<pos, frames, fresh, cont, err, events, msg>>
    BY <1>3 DEF vars, reader, builder
  <2> QED
    BY <2>1 DEF ReaderInv
<1> QED
  BY <1>1, <1>2, <1>3 DEF MessageNext

(* No step of the whole program loses a part of a buffer only.             *)
LEMMA SoundNext ==
  ASSUME IInv, Sound, [MessageNext]_vars
  PROVE  Sound'
<1>1. CASE Build
  BY <1>1, SoundStep
<1>2. CASE UNCHANGED builder
  <2>1. cells' = cells /\ msg' = msg
    BY <1>2 DEF builder, buffer
  <2> QED
    BY <2>1 DEF Sound, Kept, Whole
<1> QED
  BY <1>1, <1>2 DEF MessageNext, vars

(* At first nothing is built and nothing is read.                          *)
LEMMA ReaderInit == MessageInit => Sound /\ ReaderInv
<1> SUFFICES ASSUME MessageInit PROVE Sound /\ ReaderInv
  OBVIOUS
<1>1. /\ cells = <<>> /\ msg = <<>> /\ pos = 0 /\ frames = <<>> /\ fresh = FALSE
      /\ cont = TRUE /\ err = FALSE /\ events = <<>>
  BY DEF MessageInit, Init, Reader!Init
<1>2. <<>> \in Seq(Intact) /\ <<>> \in Seq(Frames)
  OBVIOUS
<1> QED
  BY <1>1, <1>2 DEF Sound, Kept, ReaderInv

(* Once a looked at answer was stop, no callback is made, not even those   *)
(* for the ends of the open values. Answers about a uuid or a time are not *)
(* looked at, and an error without a stop is not covered.                  *)
THEOREM Stops == Spec => StopEnds
<1>1. IInv /\ Sound /\ ReaderInv /\ [MessageNext]_vars => Sound' /\ ReaderInv'
  BY SoundNext, ReaderStep
<1>2. IInv /\ Sound /\ ReaderInv /\ [MessageNext]_vars => [~cont => events' = events]_vars
  BY ReaderStep
<1>3. MessageInit => Sound /\ ReaderInv
  BY ReaderInit
<1> QED
  BY <1>1, <1>2, <1>3, Inductive, PTL DEF Spec, StopEnds
-----------------------------------------------------------------------------
(* The running calls of a reader in the values open, each with its end.    *)
TopFrame == [kind |-> "TOP", end |-> 9]
FrameOf(i) == [kind |-> msg[i].kind, end |-> Over(msg[i])]
FramesOf(open) == <<TopFrame>> \o [d \in DOMAIN open |-> FrameOf(open[d])]

(* One running call for the message and one for each open value.           *)
LEMMA FramesAre ==
  ASSUME NEW open \in Seq(DOMAIN msg)
  PROVE  /\ Len(open) \in Nat /\ DOMAIN open = 1 .. Len(open)
         /\ Len(FramesOf(open)) = Len(open) + 1
         /\ FramesOf(open)[1] = TopFrame
         /\ \A d \in DOMAIN open : FramesOf(open)[d + 1] = FrameOf(open[d])
         /\ FramesOf(open) \in Seq({TopFrame} \cup {FrameOf(i) : i \in DOMAIN msg})
<1> DEFINE F == {TopFrame} \cup {FrameOf(i) : i \in DOMAIN msg}
           t == [d \in DOMAIN open |-> FrameOf(open[d])]
           h == <<TopFrame>>
<1>1. Len(open) \in Nat /\ DOMAIN open = 1 .. Len(open) /\ \A d \in DOMAIN open : open[d] \in DOMAIN msg
  OBVIOUS
<1>2. t \in [1 .. Len(open) -> F] /\ \A d \in DOMAIN open : t[d] = FrameOf(open[d])
  BY <1>1
<1>3. h \in Seq(F) /\ Len(h) = 1 /\ h[1] = TopFrame
  OBVIOUS
<1> HIDE DEF t, h, F
<1>4. t \in Seq(F) /\ Len(t) = Len(open)
  BY <1>1, <1>2, LenProperties, SeqDef, SMTT(30)
<1>5. /\ h \o t \in Seq(F) /\ Len(h \o t) = Len(open) + 1
      /\ (h \o t)[1] = h[1]
      /\ \A d \in 1 .. Len(open) : (h \o t)[d + 1] = t[d]
  <2>0. /\ h \o t \in Seq(F) /\ Len(h \o t) = Len(h) + Len(t)
        /\ \A i \in 1 .. Len(h) + Len(t) : (h \o t)[i] = IF i <= Len(h) THEN h[i] ELSE t[i - Len(h)]
    BY <1>3, <1>4, ConcatProperties, SMTT(30)
  <2> DEFINE u == h \o t
  <2> HIDE DEF u
  <2>1. u \in Seq(F) /\ Len(u) = Len(open) + 1 /\ u[1] = h[1]
    <3>1. Len(h) + Len(t) = Len(open) + 1 /\ 1 \in 1 .. Len(h) + Len(t)
      BY <1>1, <1>3, <1>4
    <3> QED
      BY <1>3, <2>0, <3>1 DEF u
  <2>2. ASSUME NEW d \in 1 .. Len(open) PROVE (h \o t)[d + 1] = t[d]
    <3>1. d + 1 \in 1 .. Len(h) + Len(t) /\ ~(d + 1 <= Len(h)) /\ (d + 1) - Len(h) = d
      BY <1>1, <1>3, <1>4
    <3> QED
      BY <2>0, <3>1
  <2> QED
    BY <2>1, <2>2 DEF u
<1> QED
  BY <1>1, <1>2, <1>3, <1>5 DEF FramesOf, t, h, F

(* In the whole message only its own call runs.                            *)
LEMMA FramesNone == FramesOf(<<>>) = <<TopFrame>>
<1> DEFINE z == <<>>
           f == FramesOf(z)
           g == <<TopFrame>>
           F == {TopFrame} \cup {FrameOf(i) : i \in DOMAIN msg}
<1>1. z \in Seq(DOMAIN msg) /\ Len(z) = 0
  OBVIOUS
<1> HIDE DEF z
<1> HIDE DEF F
<1>2. f \in Seq(F) /\ Len(f) = 1 /\ f[1] = TopFrame
  <2>1. Len(f) = Len(z) + 1 /\ f[1] = TopFrame /\ f \in Seq(F)
    BY <1>1, FramesAre DEF F
  <2> HIDE DEF f
  <2> QED
    BY <1>1, <2>1
<1>3. g \in Seq(F) /\ Len(g) = 1 /\ g[1] = TopFrame
  BY DEF F
<1> HIDE DEF f, g
<1>4. \A i \in 1 .. Len(f) : f[i] = g[i]
  BY <1>2, <1>3
<1>5. f = g
  BY <1>2, <1>3, <1>4, SeqEqual
<1> QED
  BY <1>5 DEF f, g, z

(* One more open value is one more running call.                           *)
LEMMA FramesMore ==
  ASSUME NEW open \in Seq(DOMAIN msg), NEW i \in DOMAIN msg
  PROVE  FramesOf(Append(open, i)) = Append(FramesOf(open), FrameOf(i))
<1> DEFINE F == {TopFrame} \cup {FrameOf(j) : j \in DOMAIN msg}
           more == Append(open, i)
           f == FramesOf(open)
           g == FramesOf(more)
           h == Append(f, FrameOf(i))
<1>1. FrameOf(i) \in F
  OBVIOUS
<1>2. /\ Len(open) \in Nat /\ more \in Seq(DOMAIN msg) /\ Len(more) = Len(open) + 1
      /\ more[Len(open) + 1] = i /\ \A d \in 1 .. Len(open) : more[d] = open[d]
  OBVIOUS
<1> HIDE DEF F, more
<1>3. /\ f \in Seq(F) /\ Len(f) = Len(open) + 1 /\ f[1] = TopFrame
      /\ \A d \in 1 .. Len(open) : f[d + 1] = FrameOf(open[d])
  BY FramesAre DEF F
<1>4. /\ g \in Seq(F) /\ Len(g) = Len(open) + 2 /\ g[1] = TopFrame
      /\ \A d \in 1 .. Len(open) + 1 : g[d + 1] = FrameOf(more[d])
  <2>1. /\ g \in Seq(F) /\ Len(g) = Len(more) + 1 /\ g[1] = TopFrame
        /\ \A d \in DOMAIN more : g[d + 1] = FrameOf(more[d])
        /\ DOMAIN more = 1 .. Len(more)
    BY <1>2, FramesAre DEF F
  <2> HIDE DEF g
  <2> QED
    BY <1>2, <2>1
<1> HIDE DEF f, g
<1>5. /\ h \in Seq(F) /\ Len(h) = Len(open) + 2 /\ h[Len(open) + 2] = FrameOf(i)
      /\ \A d \in 1 .. Len(open) + 1 : h[d] = f[d]
  BY <1>1, <1>2, <1>3
<1> HIDE DEF h
<1>6. ASSUME NEW e \in 1 .. Len(open) + 2 PROVE g[e] = h[e]
  <2>1. CASE e = 1
    <3>1. 1 \in 1 .. Len(open) + 1
      BY <1>2
    <3> QED
      BY <1>3, <1>4, <1>5, <2>1, <3>1
  <2>2. CASE e = Len(open) + 2
    <3>1. Len(open) + 1 \in 1 .. Len(open) + 1 /\ (Len(open) + 1) + 1 = e
      BY <1>2, <2>2
    <3>2. g[e] = FrameOf(more[Len(open) + 1])
      BY <1>4, <3>1
    <3> QED
      BY <1>2, <1>5, <2>2, <3>2
  <2>3. CASE e # 1 /\ e # Len(open) + 2
    <3>1. e - 1 \in 1 .. Len(open) /\ e - 1 \in 1 .. Len(open) + 1 /\ (e - 1) + 1 = e /\ e \in 1 .. Len(open) + 1
      BY <1>2, <2>3
    <3>2. g[e] = FrameOf(more[e - 1]) /\ f[e] = FrameOf(open[e - 1]) /\ more[e - 1] = open[e - 1]
      BY <1>2, <1>3, <1>4, <3>1
    <3> QED
      BY <1>5, <3>1, <3>2
  <2> QED
    BY <2>1, <2>2, <2>3
<1>7. g = h
  BY <1>4, <1>5, <1>6, SeqEqual
<1> QED
  BY <1>7 DEF g, h, f, more

(* One less is one less.                                                   *)
LEMMA FramesLess ==
  ASSUME NEW open \in Seq(DOMAIN msg), open # <<>>
  PROVE  LET less == SubSeq(open, 1, Len(open) - 1)
         IN  /\ FramesOf(less) = SubSeq(FramesOf(open), 1, Len(FramesOf(open)) - 1)
             /\ less \in Seq(DOMAIN msg)
<1> DEFINE less == SubSeq(open, 1, Len(open) - 1)
           last == open[Len(open)]
           f == FramesOf(less)
<1>1. less \in Seq(DOMAIN msg) /\ last \in DOMAIN msg /\ Len(open) \in Nat \ {0}
  OBVIOUS
<1>2. open = Append(less, last)
  OBVIOUS
<1> HIDE DEF less, last
<1>3. FramesOf(open) = Append(f, FrameOf(last))
  BY <1>1, <1>2, FramesMore
<1>4. f \in Seq({TopFrame} \cup {FrameOf(i) : i \in DOMAIN msg})
  BY <1>1, FramesAre
<1> HIDE DEF f
<1>5. SubSeq(Append(f, FrameOf(last)), 1, Len(Append(f, FrameOf(last))) - 1) = f
  <2> DEFINE F == {TopFrame} \cup {FrameOf(i) : i \in DOMAIN msg}
             x == FrameOf(last)
  <2>1. x \in F /\ f \in Seq(F)
    BY <1>1, <1>4
  <2> HIDE DEF F, x
  <2>2. SubSeq(Append(f, x), 1, Len(Append(f, x)) - 1) = f
    BY <2>1
  <2> QED
    BY <2>2 DEF x
<1> QED
  BY <1>1, <1>3, <1>5 DEF f, less
-----------------------------------------------------------------------------
(* What a walk through a whole message says.                               *)
Goes(r) ==
    /\ Len(calls) \in Nat \ {0} /\ calls \in Seq(Names) /\ msg \in Seq(Intact)
    /\ r[0].pos = 8 /\ r[0].open = <<>>
    /\ r[Len(calls)].open = <<>> /\ 9 <= r[Len(calls)].pos
    /\ \A n \in 1 .. Len(calls) - 1 : r[n].open # <<>>
    /\ \A n \in 0 .. Len(calls) : r[n].pos \in Nat /\ r[n].open \in Seq(DOMAIN msg)
    /\ \A n \in 1 .. Len(calls) : Walked(msg, calls[n], r[n - 1], r[n])
    /\ \A i \in DOMAIN msg : msg[i].field # NoSize /\ msg[i] \in Intact
    /\ \A i, j \in DOMAIN msg : i < j => msg[i].at < msg[j].at

(* A walk through the whole of a message is one a reader can follow.       *)
LEMMA CompleteGoes ==
  ASSUME NEW r, Complete(r), msg # <<>>
  PROVE  Goes(r)
<1> DEFINE N == Len(calls)
           z == <<>>
<1>1. /\ msg \in Seq(Intact) /\ calls \in Seq(Names) /\ Walk(msg, calls, r) /\ r[0].pos = Id
      /\ r[N].pos = Id + BSize(msg[1]) /\ OpenAre(msg, r[N].open, z, z)
  BY DEF Complete, Grown
<1>2. N \in Nat /\ 0 \in 0 .. N /\ N \in 0 .. N
  BY <1>1
<1>3. ASSUME NEW n \in 0 .. N PROVE r[n].pos \in Nat /\ r[n].open \in Seq(DOMAIN msg)
  BY <1>1, <1>2, PlaceTyped
<1>4. Len(z) = 0 /\ DOMAIN z = {}
  OBVIOUS
<1> HIDE DEF z
<1>5. Len(r[N].open) = 0
  BY <1>1, <1>4 DEF OpenAre
<1>6. r[N].open = <<>>
  BY <1>2, <1>3, <1>5, EmptySeq
<1>7. \A i \in DOMAIN msg : msg[i].field # NoSize /\ msg[i] \in Intact
  BY <1>1, <1>4 DEF OpenAre
<1>8. 1 \in DOMAIN msg
  BY <1>1
<1>9. Id <= msg[1].at /\ msg[1].at < r[N].pos /\ msg[1].at \in Nat /\ Id = 8
  <2>1. Laid(msg, Id, r[N].pos)
    BY <1>1 DEF Walk
  <2>2. msg[1] \in Intact
    BY <1>7, <1>8
  <2> QED
    BY <1>8, <2>1, <2>2 DEF Laid, Intact, Id
<1>10. 9 <= r[N].pos
  BY <1>2, <1>3, <1>9
<1>11. N # 0
  BY <1>1, <1>9, <1>10
<1>12. /\ r[0].open = <<>>
       /\ \A n \in 1 .. N : Walked(msg, calls[n], r[n - 1], r[n])
       /\ \A n \in 1 .. N - 1 : r[n].open # <<>>
  BY <1>1 DEF Walk, Steps
<1>13. \A i, j \in DOMAIN msg : i < j => msg[i].at < msg[j].at
  BY <1>1 DEF Walk, Laid
<1> QED
  BY <1>1, <1>2, <1>3, <1>6, <1>7, <1>9, <1>10, <1>11, <1>12, <1>13 DEF Goes
-----------------------------------------------------------------------------
(* A reader after the first n callbacks of a walk.                         *)
After(r, n) == n \in 0 .. Len(calls) /\ pos = r[n].pos /\ frames = FramesOf(r[n].open)

(* The innermost running call is for the innermost open value.             *)
LEMMA LastFrame ==
  ASSUME ReaderInv, NEW r, Goes(r), NEW n, After(r, n)
  PROVE  LET open == r[n].open
         IN  /\ frames # <<>> /\ pos \in Nat /\ n \in Nat /\ n <= Len(calls)
             /\ open \in Seq(DOMAIN msg) /\ Len(frames) = Len(open) + 1 /\ Len(open) \in Nat
             /\ open = <<>> => Reader!Frame = TopFrame /\ (n = 0 \/ n = Len(calls))
             /\ open # <<>> => /\ Len(open) \in DOMAIN open /\ open[Len(open)] \in DOMAIN msg
                               /\ Reader!Frame = FrameOf(open[Len(open)])
                               /\ 0 < n /\ n < Len(calls)
<1> DEFINE open == r[n].open
<1>1. /\ n \in 0 .. Len(calls) /\ pos = r[n].pos /\ frames = FramesOf(open)
      /\ open \in Seq(DOMAIN msg) /\ pos \in Nat
      /\ r[0].open = <<>> /\ r[Len(calls)].open = <<>>
      /\ Len(calls) \in Nat \ {0} /\ \A m \in 1 .. Len(calls) - 1 : r[m].open # <<>>
  BY DEF After, Goes
<1>2. open # <<>> => 0 < n /\ n < Len(calls)
  <2>1. n = 0 => open = <<>>
    BY <1>1
  <2>2. n = Len(calls) => open = <<>>
    BY <1>1
  <2> QED
    BY <1>1, <2>1, <2>2
<1>3. open = <<>> => n = 0 \/ n = Len(calls)
  BY <1>1
<1> HIDE DEF open
<1>4. /\ Len(open) \in Nat /\ DOMAIN open = 1 .. Len(open)
      /\ Len(frames) = Len(open) + 1 /\ frames[1] = TopFrame
      /\ \A d \in DOMAIN open : frames[d + 1] = FrameOf(open[d])
  BY <1>1, FramesAre
<1>5. frames # <<>>
  <2>1. Len(frames) # 0
    BY <1>4
  <2> QED
    BY <2>1
<1>6. Reader!Frame = frames[Len(open) + 1]
  BY <1>4, <1>5, FrameIs
<1>7. open = <<>> => Reader!Frame = TopFrame
  <2> SUFFICES ASSUME open = <<>> PROVE Reader!Frame = TopFrame
    OBVIOUS
  <2>1. Len(open) + 1 = 1
    OBVIOUS
  <2> QED
    BY <1>4, <1>6, <2>1
<1>8. open # <<>> => /\ Len(open) \in DOMAIN open /\ open[Len(open)] \in DOMAIN msg
                     /\ Reader!Frame = FrameOf(open[Len(open)])
  <2> SUFFICES ASSUME open # <<>>
               PROVE  /\ Len(open) \in DOMAIN open /\ open[Len(open)] \in DOMAIN msg
                      /\ Reader!Frame = FrameOf(open[Len(open)])
    OBVIOUS
  <2>1. Len(open) # 0
    BY <1>1
  <2>2. Len(open) \in DOMAIN open
    BY <1>4, <2>1
  <2>3. open[Len(open)] \in DOMAIN msg
    BY <1>1, <2>2
  <2> QED
    BY <1>4, <1>6, <2>2, <2>3
<1> QED
  BY <1>1, <1>2, <1>3, <1>4, <1>5, <1>7, <1>8 DEF open

(* In a value and before its end the next of the walk is a value too, and  *)
(* it is where the reader is.                                              *)
ValueNext(r, n) ==
    LET b == r[n + 1]
    IN  /\ n < Len(calls) /\ n + 1 \in 1 .. Len(calls)
        /\ b.cell \in DOMAIN msg /\ msg[b.cell].at = pos
        /\ Passes(msg[b.cell], calls[n + 1], r[n], b) \/ Enters(msg[b.cell], calls[n + 1], r[n], b)
        /\ Reader!Here = {b.cell}

(* Before its end there is a next value, and a reader is at it.            *)
LEMMA NextValue ==
  ASSUME ReaderInv, NEW r, Goes(r), NEW n, After(r, n), pos < Reader!Frame.end
  PROVE  ValueNext(r, n)
<1> DEFINE open == r[n].open
           b == r[n + 1]
           c == msg[b.cell]
<1>0. /\ Len(calls) \in Nat /\ pos = r[n].pos
      /\ \A i, j \in DOMAIN msg : i < j => msg[i].at < msg[j].at
  BY DEF Goes, After
<1>1. /\ pos \in Nat /\ n \in Nat /\ n <= Len(calls) /\ Len(calls) \in Nat /\ pos = r[n].pos
      /\ open = <<>> => Reader!Frame = TopFrame /\ (n = 0 \/ n = Len(calls))
      /\ open # <<>> => /\ Len(open) \in DOMAIN open /\ open[Len(open)] \in DOMAIN msg
                        /\ Reader!Frame = FrameOf(open[Len(open)])
                        /\ 0 < n /\ n < Len(calls)
  BY <1>0, LastFrame
<1>2. n < Len(calls)
  <2>1. CASE open = <<>>
    <3>1. pos < 9
      BY <1>1, <2>1 DEF TopFrame
    <3>2. n # Len(calls)
      BY <1>1, <3>1 DEF Goes
    <3> QED
      BY <1>1, <3>2
  <2>2. CASE open # <<>>
    BY <1>1, <2>2
  <2> QED
    BY <2>1, <2>2
<1>3. n + 1 \in 1 .. Len(calls) /\ (n + 1) - 1 = n
  BY <1>1, <1>2
<1>4. Walked(msg, calls[n + 1], r[n], b)
  BY <1>3 DEF Goes
<1>5. b.cell \in DOMAIN msg
  BY <1>4 DEF Walked
<1>6. ~Exits(c, calls[n + 1], r[n], b)
  <2> SUFFICES ASSUME Exits(c, calls[n + 1], r[n], b) PROVE FALSE
    OBVIOUS
  <2>1. open # <<>> /\ open[Len(open)] = b.cell /\ pos = Over(c)
    BY <1>1 DEF Exits
  <2>2. Reader!Frame.end = Over(c)
    BY <1>1, <2>1 DEF FrameOf
  <2> QED
    BY <1>1, <2>1, <2>2
<1>7. Passes(c, calls[n + 1], r[n], b) \/ Enters(c, calls[n + 1], r[n], b)
  BY <1>4, <1>6 DEF Walked
<1>8. c.at = pos
  BY <1>1, <1>7 DEF Passes, Enters
<1>9. Reader!Here = {b.cell}
  <2>1. ASSUME NEW i \in DOMAIN msg, msg[i].at = pos PROVE i = b.cell
    <3>1. msg \in Seq(Intact) /\ DOMAIN msg = 1 .. Len(msg)
      BY DEF Goes
    <3>2. i \in Int /\ b.cell \in Int
      BY <1>5, <3>1
    <3>3. ~(i < b.cell) /\ ~(b.cell < i)
      BY <1>0, <1>1, <1>5, <1>8, <2>1
    <3> QED
      BY <3>2, <3>3
  <2> QED
    BY <1>5, <1>8, <2>1 DEF Reader!Here
<1> QED
  BY <1>2, <1>3, <1>5, <1>7, <1>8, <1>9 DEF ValueNext

(* At its end the next is its end.                                         *)
EndNext(r, n) ==
    LET b == r[n + 1]
    IN  /\ n < Len(calls) /\ n + 1 \in 1 .. Len(calls)
        /\ b.cell \in DOMAIN msg /\ Reader!Frame = FrameOf(b.cell)
        /\ Exits(msg[b.cell], calls[n + 1], r[n], b)

(* At its end there is its end, and a reader tells it.                     *)
LEMMA NextEnd ==
  ASSUME ReaderInv, NEW r, Goes(r), NEW n, After(r, n), ~(pos < Reader!Frame.end), Len(frames) > 1
  PROVE  EndNext(r, n)
<1> DEFINE open == r[n].open
           b == r[n + 1]
           c == msg[b.cell]
<1>1. /\ pos \in Nat /\ n \in Nat /\ Len(calls) \in Nat /\ pos = r[n].pos
      /\ open \in Seq(DOMAIN msg) /\ Len(frames) = Len(open) + 1
      /\ open # <<>> => /\ Len(open) \in DOMAIN open /\ open[Len(open)] \in DOMAIN msg
                        /\ Reader!Frame = FrameOf(open[Len(open)])
                        /\ 0 < n /\ n < Len(calls)
  BY LastFrame DEF Goes, After
<1>2. open # <<>>
  <2> HIDE DEF open
  <2> QED
    BY <1>1
<1>3. n + 1 \in 1 .. Len(calls) /\ (n + 1) - 1 = n
  BY <1>1, <1>2
<1>4. Walked(msg, calls[n + 1], r[n], b)
  BY <1>3 DEF Goes
<1>5. b.cell \in DOMAIN msg
  BY <1>4 DEF Walked
<1>6. b.ends
  <2> SUFFICES ASSUME ~b.ends PROVE FALSE
    OBVIOUS
  <2>1. msg[open[Len(open)]].field # NoSize
    BY <1>1, <1>2 DEF Goes
  <2>2. pos < Over(msg[open[Len(open)]])
    BY <1>1, <1>2, <1>4, <2>1 DEF Walked
  <2> QED
    BY <1>1, <1>2, <2>2 DEF FrameOf
<1>7. Exits(c, calls[n + 1], r[n], b)
  BY <1>4, <1>6 DEF Walked, Passes, Enters
<1>8. open[Len(open)] = b.cell
  BY <1>7 DEF Exits
<1> QED
  BY <1>1, <1>2, <1>3, <1>5, <1>7, <1>8 DEF EndNext

(* A call that returns from the whole message has read all of it.          *)
LEMMA NextNone ==
  ASSUME ReaderInv, NEW r, Goes(r), NEW n, After(r, n), ~(pos < Reader!Frame.end), Len(frames) = 1
  PROVE  n = Len(calls)
<1> DEFINE open == r[n].open
<1>1. /\ open \in Seq(DOMAIN msg) /\ Len(frames) = Len(open) + 1 /\ pos = r[n].pos /\ Len(open) \in Nat
      /\ open = <<>> => Reader!Frame = TopFrame /\ (n = 0 \/ n = Len(calls))
  BY LastFrame DEF After
<1>2. open = <<>>
  <2> DEFINE k == Len(open)
  <2>1. k \in Nat /\ 1 = k + 1
    BY <1>1
  <2> HIDE DEF k
  <2>2. k = 0
    BY <2>1
  <2> QED
    BY <1>1, <2>2, EmptySeq DEF k
<1>3. n # 0
  <2>1. ~(pos < 9)
    BY <1>1, <1>2 DEF TopFrame
  <2> QED
    BY <1>1, <2>1 DEF Goes
<1> QED
  BY <1>1, <1>2, <1>3
-----------------------------------------------------------------------------
(* What is heard of the first n callbacks of the walk.                     *)
HeardOf(n) == AsHeard(SubSeq(calls, 1, n))

(* The innermost call goes on if it has not come to its end.               *)
Live == frames # <<>> /\ (fresh \/ (cont /\ ~err))

(* A reader that goes on is at a place of the walk, and has heard what is  *)
(* called on the way there; one that was stopped has heard a part of it.   *)
ReadBy(r) == /\ Live => \E n \in 0 .. Len(calls) : After(r, n) /\ (~err => events = HeardOf(n))
             /\ ~err => \E n \in 0 .. Len(calls) : events = HeardOf(n)
             /\ frames = <<>> /\ cont /\ ~err => events = AsHeard(calls)
ReadInv == pos # 0 => \E r : Goes(r) /\ ReadBy(r)

(* A message that stays the same has the same walk.                        *)
LEMMA SameWalk ==
  ASSUME msg' = msg, calls' = calls
  PROVE  /\ \A r : Goes(r)' <=> Goes(r)
         /\ \A open : FramesOf(open)' = FramesOf(open)
         /\ set' = set => \A n : HeardOf(n)' = HeardOf(n)
<1>1. ASSUME NEW r PROVE Goes(r)' <=> Goes(r)
  BY DEF Goes
<1>2. ASSUME NEW open PROVE FramesOf(open)' = FramesOf(open)
  BY DEF FramesOf, FrameOf
<1>3. ASSUME set' = set, NEW n PROVE HeardOf(n)' = HeardOf(n)
  BY <1>3, Zenon DEF HeardOf, AsHeard
<1> QED
  BY <1>1, <1>2, <1>3

(* A callback made, or not as it is not set, and the reader one further.   *)
LEMMA ToldOn ==
  ASSUME NEW r, Goes(r), NEW n \in 0 .. Len(calls), n < Len(calls),
         err => err', ~err => events = HeardOf(n),
         events' = IF calls[n + 1] \in set THEN Append(events, calls[n + 1]) ELSE events
  PROVE  ~err' => events' = HeardOf(n + 1)
<1> SUFFICES ASSUME ~err' PROVE events' = HeardOf(n + 1)
  OBVIOUS
<1>1. events = HeardOf(n) /\ calls \in Seq(Names)
  BY DEF Goes
<1>2. HeardOf(n + 1) = IF calls[n + 1] \in set THEN Append(HeardOf(n), calls[n + 1]) ELSE HeardOf(n)
  BY <1>1, HeardNext DEF HeardOf
<1> QED
  BY <1>1, <1>2, Zenon

(* A reader at a place of the walk that has heard what is called up to     *)
(* there keeps to it.                                                      *)
LEMMA ReadOn ==
  ASSUME UNCHANGED <<msg, calls, set>>, NEW r, Goes(r), NEW n \in 0 .. Len(calls),
         Live' => pos' = r[n].pos /\ frames' = FramesOf(r[n].open),
         ~err' => events' = HeardOf(n), frames' # <<>>
  PROVE  Goes(r)' /\ ReadBy(r)'
<1>1. /\ Goes(r)' /\ FramesOf(r[n].open)' = FramesOf(r[n].open) /\ HeardOf(n)' = HeardOf(n)
      /\ n \in 0 .. Len(calls')
  BY SameWalk
<1>2. Live' => After(r, n)'
  BY <1>1 DEF After
<1>3. Live' => \E m \in 0 .. Len(calls') : After(r, m)' /\ (~err' => events' = HeardOf(m)')
  BY <1>1, <1>2
<1>4. ~err' => \E m \in 0 .. Len(calls') : events' = HeardOf(m)'
  BY <1>1
<1>5. ReadBy(r)'
  BY <1>3, <1>4 DEF ReadBy
<1> QED
  BY <1>1, <1>5

(* A reader that goes on and the place of the walk where it is.            *)
LEMMA LiveAt ==
  ASSUME ReaderInv, NEW r, ReadBy(r), Live
  PROVE  /\ \E n \in 0 .. Len(calls) : After(r, n) /\ (~err => events = HeardOf(n))
         /\ cont
BY DEF ReadBy, Live, ReaderInv

(* Before the first callback nothing is heard.                             *)
LEMMA HeardOfNone == calls \in Seq(Names) => HeardOf(0) = <<>>
BY HeardNone DEF HeardOf

(* The steps of a reader in a message that can be walked through: it       *)
(* begins.                                                                 *)
LEMMA BeginReads ==
  ASSUME ReaderInv, Readable, UNCHANGED builder, Reader!Begin
  PROVE  ReadInv'
<1>1. /\ msg # <<>> /\ msg[1].kind # "JUNK" /\ pos = 0 /\ pos' = 8
      /\ frames' = <<TopFrame>> /\ UNCHANGED <<cont, err, events, msg, calls>>
  BY DEF Reader!Begin, builder, history, TopFrame
<1>2. PICK r : Complete(r)
  BY <1>1 DEF Readable
<1>3. Goes(r)
  BY <1>1, <1>2, CompleteGoes
<1>4. Goes(r)' /\ FramesOf(<<>>)' = FramesOf(<<>>)
  BY <1>1, <1>3, SameWalk
<1>5. r[0].pos = 8 /\ r[0].open = <<>> /\ 0 \in 0 .. Len(calls') /\ calls' \in Seq(Names)
  BY <1>1, <1>3 DEF Goes
<1>6. After(r, 0)'
  <2>1. (FramesOf(r[0].open))' = <<TopFrame>>
    BY <1>4, <1>5, FramesNone
  <2> QED
    BY <1>1, <1>5, <2>1 DEF After
<1>7. HeardOf(0)' = <<>>
  <2>1. (calls \in Seq(Names) => HeardOf(0) = <<>>)'
    BY HeardOfNone, PTL
  <2> QED
    BY <1>5, <2>1
<1>8. events' = <<>>
  BY <1>1 DEF ReaderInv
<1>9. frames' # <<>>
  BY <1>1
<1>10. ReadBy(r)'
  <2>1. \E n \in 0 .. Len(calls') : After(r, n)' /\ (~err' => events' = HeardOf(n)')
    BY <1>5, <1>6, <1>7, <1>8
  <2>2. \E n \in 0 .. Len(calls') : events' = HeardOf(n)'
    BY <1>5, <1>7, <1>8
  <2> QED
    BY <1>9, <2>1, <2>2 DEF ReadBy
<1> QED
  BY <1>4, <1>10 DEF ReadInv

(* It makes the callback for a value: it is one place further.             *)
LEMMA LeafReads ==
  ASSUME ReaderInv, UNCHANGED builder, Reader!Leaf, NEW r, Goes(r), ReadBy(r)
  PROVE  Goes(r)' /\ ReadBy(r)'
<1>1. Reader!GoesOn /\ UNCHANGED <<msg, calls, set, frames>>
  BY DEF Reader!Leaf, builder, history
<1>2. Live /\ pos < Reader!Frame.end
  BY <1>1, GoingOn DEF Live, Reader!GoesOn
<1>3. PICK n \in 0 .. Len(calls) : After(r, n) /\ (~err => events = HeardOf(n))
  BY <1>2, LiveAt
<1> DEFINE b == r[n + 1]
           c == msg[b.cell]
<1>4. ValueNext(r, n)
  BY <1>2, <1>3, NextValue
<1>5. PICK i \in Reader!Here : /\ msg[i].kind \notin Containers
                               /\ Reader!Tell(Callback(msg[i].kind), msg[i].kind \notin {"UUID", "TIME"})
                               /\ pos' = pos + BSize(msg[i])
  BY SameWire DEF Reader!Leaf
<1>6. i = b.cell /\ n < Len(calls)
  BY <1>4 DEF ValueNext
<1>7. Passes(c, calls[n + 1], r[n], b) /\ c.at = pos
  BY <1>4, <1>5, <1>6 DEF ValueNext, Enters
<1>8. calls[n + 1] = Callback(c.kind) /\ b.pos = pos + BSize(c) /\ b.open = r[n].open
  BY <1>7 DEF Passes, Over
<1>9. (err => err') /\ events' = IF calls[n + 1] \in set THEN Append(events, calls[n + 1]) ELSE events
  BY <1>5, <1>6, <1>8, TellDoes DEF ReaderInv
<1>10. ~err' => events' = HeardOf(n + 1)
  BY <1>3, <1>6, <1>9, ToldOn
<1>11. n + 1 \in 0 .. Len(calls) /\ frames' # <<>>
  <2>1. Len(calls) \in Nat
    BY DEF Goes
  <2> QED
    BY <1>1, <1>2, <1>6, <2>1 DEF Live
<1>12. pos' = r[n + 1].pos /\ frames' = FramesOf(r[n + 1].open)
  BY <1>1, <1>3, <1>5, <1>6, <1>8 DEF After
<1> QED
  BY <1>1, <1>10, <1>11, <1>12, ReadOn

(* It goes into an object or array: it is one place further.               *)
LEMMA DescendReads ==
  ASSUME ReaderInv, UNCHANGED builder, Reader!Descend, NEW r, Goes(r), ReadBy(r)
  PROVE  Goes(r)' /\ ReadBy(r)'
<1>1. Reader!GoesOn /\ UNCHANGED <<msg, calls, set>>
  BY DEF Reader!Descend, builder, history
<1>2. Live /\ pos < Reader!Frame.end
  BY <1>1, GoingOn DEF Live, Reader!GoesOn
<1>3. PICK n \in 0 .. Len(calls) : After(r, n) /\ (~err => events = HeardOf(n))
  BY <1>2, LiveAt
<1> DEFINE b == r[n + 1]
           c == msg[b.cell]
<1>4. ValueNext(r, n)
  BY <1>2, <1>3, NextValue
<1>5. PICK i \in Reader!Here :
         /\ msg[i].kind \in Containers
         /\ Reader!Tell(Begins(msg[i].kind), TRUE)
         /\ IF cont'
            THEN /\ frames' = Append(frames, [kind |-> msg[i].kind, end |-> pos + BSize(msg[i])])
                 /\ pos' = pos + 5
                 /\ fresh' = TRUE
            ELSE /\ pos' = pos + 1
                 /\ fresh' = FALSE
                 /\ frames' = frames
  BY SameWire DEF Reader!Descend
<1>6. i = b.cell /\ n < Len(calls) /\ b.cell \in DOMAIN msg
  BY <1>4 DEF ValueNext
<1>7. Enters(c, calls[n + 1], r[n], b) /\ c.at = pos
  BY <1>4, <1>5, <1>6 DEF ValueNext, Passes
<1>8. calls[n + 1] = Begins(c.kind) /\ b.pos = pos + 5 /\ b.open = Append(r[n].open, b.cell)
  BY <1>3, <1>7 DEF Enters, After
<1>9. (err => err') /\ events' = IF calls[n + 1] \in set THEN Append(events, calls[n + 1]) ELSE events
  BY <1>5, <1>6, <1>8, TellDoes DEF ReaderInv
<1>10. ~err' => events' = HeardOf(n + 1)
  BY <1>3, <1>6, <1>9, ToldOn
<1>11. n + 1 \in 0 .. Len(calls) /\ frames \in Seq(Frames) /\ frames # <<>>
  <2>1. Len(calls) \in Nat
    BY DEF Goes
  <2> QED
    BY <1>2, <1>6, <2>1 DEF Live, ReaderInv
<1>12. CASE cont'
  <2>1. frames' = Append(frames, [kind |-> c.kind, end |-> pos + BSize(c)]) /\ pos' = pos + 5
    BY <1>5, <1>6, <1>12
  <2>2. [kind |-> c.kind, end |-> pos + BSize(c)] = FrameOf(b.cell)
    BY <1>7 DEF FrameOf, Over
  <2>3. r[n].open \in Seq(DOMAIN msg) /\ frames = FramesOf(r[n].open)
    BY <1>3 DEF Goes, After
  <2>4. frames' = FramesOf(b.open)
    BY <1>6, <1>8, <2>1, <2>2, <2>3, FramesMore
  <2>5. frames' # <<>>
    BY <1>11, <2>1
  <2> QED
    BY <1>1, <1>8, <1>10, <1>11, <2>1, <2>4, <2>5, ReadOn
<1>13. CASE ~cont'
  <2>1. ~Live' /\ frames' # <<>>
    BY <1>5, <1>11, <1>13 DEF Live
  <2> QED
    BY <1>1, <1>10, <1>11, <2>1, ReadOn
<1> QED
  BY <1>12, <1>13

(* It comes out of one: it is one place further, or was stopped.           *)
LEMMA AscendReads ==
  ASSUME ReaderInv, UNCHANGED builder, Reader!Ascend, NEW r, Goes(r), ReadBy(r)
  PROVE  Goes(r)' /\ ReadBy(r)'
<1>1. /\ Len(frames) > 1 /\ frames' = SubSeq(frames, 1, Len(frames) - 1)
      /\ pos' = Reader!Frame.end /\ fresh' = FALSE /\ ~Reader!GoesOn /\ UNCHANGED <<msg, calls, set>>
  BY DEF Reader!Ascend, Reader!Resume, Reader!Depth, builder, history
<1>2. frames \in Seq(Frames) /\ frames # <<>> /\ frames' # <<>>
  <2>1. frames \in Seq(Frames) /\ frames # <<>>
    BY <1>1 DEF ReaderInv
  <2>2. Len(frames') = Len(frames) - 1 /\ Len(frames) \in Nat
    BY <1>1, <2>1, Shortened
  <2>3. Len(frames') # 0
    BY <1>1, <2>2
  <2> QED
    BY <2>1, <2>3
<1>3. CASE Live
  <2>1. PICK n \in 0 .. Len(calls) : After(r, n) /\ (~err => events = HeardOf(n))
    BY <1>3, LiveAt
  <2> DEFINE b == r[n + 1]
             c == msg[b.cell]
  <2>2. ~(pos < Reader!Frame.end) /\ cont
    <3>1. Reader!Depth > 0
      BY <1>1, <1>2, FrameIs
    <3> QED
      BY <1>1, <1>3, <3>1, LiveAt DEF Reader!GoesOn, Live
  <2>3. EndNext(r, n)
    BY <1>1, <2>1, <2>2, NextEnd
  <2>4. /\ n < Len(calls) /\ b.cell \in DOMAIN msg /\ Reader!Frame = FrameOf(b.cell)
        /\ Exits(c, calls[n + 1], r[n], b)
    BY <2>3 DEF EndNext
  <2>5. /\ calls[n + 1] = Ends(c.kind) /\ b.pos = Over(c) /\ r[n].open # <<>>
        /\ b.open = SubSeq(r[n].open, 1, Len(r[n].open) - 1)
    BY <2>4 DEF Exits
  <2>6. Reader!Frame.kind = c.kind /\ Reader!Frame.end = Over(c)
    BY <2>4 DEF FrameOf
  <2>7. Reader!Tell(Ends(c.kind), TRUE)
    BY <2>2, <2>6, SameWire DEF Reader!Ascend
  <2>8. (err => err') /\ events' = IF calls[n + 1] \in set THEN Append(events, calls[n + 1]) ELSE events
    BY <2>5, <2>7, TellDoes DEF ReaderInv
  <2>9. ~err' => events' = HeardOf(n + 1)
    BY <2>1, <2>4, <2>8, ToldOn
  <2>10. n + 1 \in 0 .. Len(calls)
    <3>1. Len(calls) \in Nat
      BY DEF Goes
    <3> QED
      BY <2>4, <3>1
  <2>11. r[n].open \in Seq(DOMAIN msg) /\ frames = FramesOf(r[n].open)
    BY <2>1 DEF Goes, After
  <2>12. frames' = FramesOf(b.open)
    BY <1>1, <2>5, <2>11, FramesLess
  <2>13. pos' = b.pos
    BY <1>1, <2>5, <2>6
  <2> QED
    BY <1>1, <1>2, <2>9, <2>10, <2>12, <2>13, ReadOn
<1>4. CASE ~Live
  <2>1. ~fresh /\ (~cont \/ err)
    BY <1>2, <1>4 DEF Live
  <2>2. ~Live' /\ (err' \/ (~err /\ events' = events))
    <3>1. CASE ~cont
      BY <1>1, <3>1 DEF Reader!Ascend, Live, ReaderInv
    <3>2. CASE cont
      <4>1. err /\ err'
        BY <2>1, <3>2, TellDoes DEF Reader!Ascend, ReaderInv
      <4> QED
        BY <1>1, <4>1 DEF Live
    <3> QED
      BY <3>1, <3>2
  <2>3. 0 \in 0 .. Len(calls)
    BY DEF Goes
  <2>4. PICK n \in 0 .. Len(calls) : ~err' => events' = HeardOf(n)
    BY <2>2, <2>3 DEF ReadBy
  <2> QED
    BY <1>1, <1>2, <2>2, <2>4, ReadOn
<1> QED
  BY <1>3, <1>4

(* It returns from the message: it has read all of it, or was stopped.     *)
LEMMA ReturnReads ==
  ASSUME ReaderInv, UNCHANGED builder, Reader!Return, NEW r, Goes(r), ReadBy(r)
  PROVE  Goes(r)' /\ ReadBy(r)'
<1>1. /\ Len(frames) = 1 /\ frames' = <<>> /\ ~Reader!GoesOn
      /\ UNCHANGED <<set, pos, fresh, cont, err, events, msg, calls>>
  BY DEF Reader!Return, Reader!Depth, builder, history
<1>2. frames # <<>>
  BY <1>1
<1>3. /\ Goes(r)' /\ \A n : HeardOf(n)' = HeardOf(n)
  BY <1>1, SameWalk
<1>4. ~Live'
  BY <1>1 DEF Live
<1>5. ~err' => \E n \in 0 .. Len(calls') : events' = HeardOf(n)'
  BY <1>1, <1>3 DEF ReadBy
<1>6. cont' /\ ~err' => events' = AsHeard(calls)'
  <2> SUFFICES ASSUME cont, ~err PROVE events' = AsHeard(calls)'
    BY <1>1
  <2>1. Live
    BY <1>2 DEF Live
  <2>2. PICK n \in 0 .. Len(calls) : After(r, n) /\ (~err => events = HeardOf(n))
    BY <2>1, LiveAt
  <2>3. ~(pos < Reader!Frame.end)
    <3>1. Reader!Depth > 0
      BY <1>1, <1>2, FrameIs
    <3> QED
      BY <1>1, <3>1 DEF Reader!GoesOn
  <2>4. n = Len(calls)
    BY <1>1, <2>2, <2>3, NextNone
  <2>5. HeardOf(Len(calls)) = AsHeard(calls)
    BY HeardSoFar DEF HeardOf, Goes
  <2>6. AsHeard(calls)' = AsHeard(calls)
    BY <1>1, Zenon DEF AsHeard
  <2> QED
    BY <1>1, <2>2, <2>4, <2>5, <2>6
<1>7. ReadBy(r)'
  BY <1>4, <1>5, <1>6 DEF ReadBy
<1> QED
  BY <1>3, <1>7

(* Every step leaves a reader at a place of a walk.                        *)
LEMMA ReadStep ==
  ASSUME ReaderInv, ReaderInv', Readable, ReadInv, [MessageNext]_vars
  PROVE  ReadInv'
<1>1. CASE Build /\ UNCHANGED reader
  <2>1. msg = <<>>
    BY <1>1 DEF Build, PushLeaf, PushVal, PushObject, PushArray, Open, Pop, Finish, Take
  <2>2. pos = 0 /\ pos' = pos
    BY <1>1, <2>1 DEF ReaderInv, reader
  <2> QED
    BY <2>2 DEF ReadInv
<1>2. CASE Reader!Begin /\ UNCHANGED builder
  BY <1>2, BeginReads
<1>3. CASE (Reader!Leaf \/ Reader!Descend \/ Reader!Ascend \/ Reader!Return) /\ UNCHANGED builder
  <2>1. frames # <<>>
    <3>1. CASE Reader!Leaf \/ Reader!Descend
      BY <3>1, GoingOn DEF Reader!Leaf, Reader!Descend
    <3>2. CASE Reader!Ascend \/ Reader!Return
      <4>1. Len(frames) > 1 \/ Len(frames) = 1
        BY <3>2 DEF Reader!Ascend, Reader!Resume, Reader!Return, Reader!Depth
      <4>2. ASSUME frames = <<>> PROVE FALSE
        BY <4>1, <4>2
      <4> QED
        BY <4>2
    <3> QED
      BY <1>3, <3>1, <3>2
  <2>2. pos # 0
    BY <2>1 DEF ReaderInv
  <2>3. PICK r : Goes(r) /\ ReadBy(r)
    BY <2>2 DEF ReadInv
  <2>4. Goes(r)' /\ ReadBy(r)'
    BY <1>3, <2>3, LeafReads, DescendReads, AscendReads, ReturnReads
  <2> QED
    BY <2>4 DEF ReadInv
<1>4. CASE UNCHANGED vars
  <2>1. UNCHANGED <<msg, calls, set, pos, frames, fresh, cont, err, events>>
    BY <1>4 DEF vars, reader, builder, history
  <2> SUFFICES ASSUME pos # 0 PROVE \E r : Goes(r)' /\ ReadBy(r)'
    BY <2>1 DEF ReadInv
  <2>2. PICK r : Goes(r) /\ ReadBy(r)
    BY DEF ReadInv
  <2>3. Goes(r)' /\ (\A n : HeardOf(n)' = HeardOf(n)) /\ \A open : FramesOf(open)' = FramesOf(open)
    BY <2>1, <2>2, SameWalk
  <2>4. AsHeard(calls)' = AsHeard(calls)
    BY <2>1, Zenon DEF AsHeard
  <2>5. \A n : After(r, n)' <=> After(r, n)
    BY <2>1, <2>3 DEF After
  <2>6. ReadBy(r)'
    BY <2>1, <2>2, <2>3, <2>4, <2>5 DEF ReadBy, Live
  <2> QED
    BY <2>3, <2>6
<1> QED
  BY <1>1, <1>2, <1>3, <1>4 DEF MessageNext, Reader!Read
-----------------------------------------------------------------------------
(* The invariants together: what is built, what is taken and how far it is *)
(* read.                                                                   *)
LEMMA ReadTogether ==
  ASSUME Honest
  PROVE  Spec => [](IInv /\ Sound /\ Walkable /\ Readable /\ ReaderInv /\ ReadInv)
<1> DEFINE All == IInv /\ Sound /\ Walkable /\ Readable /\ ReaderInv /\ ReadInv
<1>1. MessageInit => All
  <2> SUFFICES ASSUME MessageInit PROVE All
    OBVIOUS
  <2>1. ReadInv
    BY DEF MessageInit, Reader!Init, ReadInv
  <2> QED
    BY <2>1, InitIInv, WalkInit, ReaderInit
<1>2. All /\ [MessageNext]_vars => All'
  <2> SUFFICES ASSUME All, [MessageNext]_vars PROVE All'
    OBVIOUS
  <2>1. IInv' /\ Sound'
    BY StepIInv, SoundNext
  <2>2. Walkable' /\ Readable'
    BY WalkStep
  <2>3. ReaderInv'
    BY ReaderStep
  <2>4. ReadInv'
    BY <2>3, ReadStep
  <2> QED
    BY <2>1, <2>2, <2>3, <2>4
<1> QED
  BY <1>1, <1>2, PTL DEF Spec

(* What val_iterate looks at next is where a value begins.                 *)
THEOREM OnBoundary == Honest => (Spec => []ReaderOnBoundary)
<1> SUFFICES ASSUME Honest PROVE Spec => []ReaderOnBoundary
  OBVIOUS
<1>1. IInv /\ Sound /\ Walkable /\ Readable /\ ReaderInv /\ ReadInv => ReaderOnBoundary
  <2> SUFFICES ASSUME ReaderInv, ReadInv, Reader!GoesOn PROVE Reader!Here # {}
    BY DEF ReaderOnBoundary
  <2>1. Live /\ pos < Reader!Frame.end /\ pos # 0
    BY GoingOn DEF Live, Reader!GoesOn
  <2>2. PICK r : Goes(r) /\ ReadBy(r)
    BY <2>1 DEF ReadInv
  <2>3. PICK n \in 0 .. Len(calls) : After(r, n)
    BY <2>1, <2>2, LiveAt
  <2>4. ValueNext(r, n)
    BY <2>1, <2>2, <2>3, NextValue
  <2> QED
    BY <2>4 DEF ValueNext
<1> QED
  BY <1>1, ReadTogether, PTL

(* The callbacks a reader makes are those of what was pushed, in order and *)
(* none left out but those that are not set: all of them when nothing      *)
(* stops the iteration, the first of them when something does.             *)
THEOREM Reads == Honest => (Spec => []ReadsBack)
<1> SUFFICES ASSUME Honest PROVE Spec => []ReadsBack
  OBVIOUS
<1>1. IInv /\ Sound /\ Walkable /\ Readable /\ ReaderInv /\ ReadInv => ReadsBack
  <2> SUFFICES ASSUME IInv, Walkable, ReaderInv, ReadInv, ~err
               PROVE  /\ Prefix(events, AsHeard(calls))
                      /\ pos > Id /\ frames = <<>> /\ cont => events = AsHeard(calls)
    BY DEF ReadsBack
  <2>1. CASE pos = 0
    <3>1. events = <<>>
      BY <2>1 DEF ReaderInv
    <3>2. Len(events) = 0 /\ SubSeq(AsHeard(calls), 1, 0) = <<>>
      BY <3>1
    <3> QED
      BY <2>1, <3>1, <3>2 DEF Prefix, Id
  <2>2. CASE pos # 0
    <3>1. PICK r : Goes(r) /\ ReadBy(r)
      BY <2>2 DEF ReadInv
    <3>2. PICK n \in 0 .. Len(calls) : events = HeardOf(n)
      BY <3>1 DEF ReadBy
    <3>3. Prefix(events, AsHeard(calls))
      BY <3>1, <3>2, HeardPrefix DEF HeardOf, Goes
    <3> QED
      BY <3>1, <3>3 DEF ReadBy
  <2> QED
    BY <2>1, <2>2
<1> QED
  BY <1>1, ReadTogether, PTL
-----------------------------------------------------------------------------
(* A whole message: every size written, one cell behind the other, and     *)
(* nested in the first.                                                    *)
Tree(cs) == /\ cs \in Seq(Intact) /\ cs # <<>>
            /\ \A i \in DOMAIN cs : cs[i].field # NoSize
            /\ \A i, j \in DOMAIN cs : i < j => cs[i].at < cs[j].at
            /\ cs[1].at = Id
            /\ Nested(cs, Over(cs[1]))
            /\ ~IsKey(cs[1])

(* The numbers of a cell, and what its kind makes of its size.             *)
Numbers(cs, i) == /\ i \in Nat
                  /\ cs[i].at \in Nat /\ Over(cs[i]) \in Nat /\ Over(cs[1]) \in Nat
                  /\ cs[i].at < Over(cs[i]) /\ Over(cs[i]) <= Over(cs[1])
Measure(cs, i) == /\ Opening(cs[i]) \in Nat /\ BSize(cs[i]) \in Nat
                  /\ Over(cs[i]) = cs[i].at + BSize(cs[i])
                  /\ cs[i].at + Opening(cs[i]) <= Over(cs[i])
                  /\ cs[i].kind \notin Containers => cs[i].at + Opening(cs[i]) = Over(cs[i])
                  /\ cs[i].kind \in Containers => Opening(cs[i]) = 5 /\ BSize(cs[i]) = 5 + cs[i].field
                  /\ cs[i].field \in Nat /\ cs[i].kind \in Kinds
                  /\ IsKey(cs[i]) => cs[i].kind \notin Containers

(* The cells are numbered from 1 on.                                       *)
LEMMA TreeCells ==
  ASSUME NEW cs, Tree(cs)
  PROVE  /\ DOMAIN cs = 1 .. Len(cs) /\ Len(cs) \in Nat
         /\ 1 \in DOMAIN cs /\ Len(cs) \in DOMAIN cs
BY DEF Tree

(* What its kind makes of the numbers of each cell.                        *)
LEMMA TreeCell ==
  ASSUME NEW cs, Tree(cs), NEW i \in DOMAIN cs
  PROVE  Numbers(cs, i) /\ Measure(cs, i)
<1>1. /\ DOMAIN cs = 1 .. Len(cs) /\ Len(cs) \in Nat /\ cs[i] \in Intact /\ cs[1] \in Intact
      /\ cs[i].field # NoSize /\ cs[1].field # NoSize
  BY TreeCells DEF Tree
<1>2. /\ cs[i].kind \in Kinds /\ cs[i].at \in Nat /\ cs[i].field \in Nat
      /\ BSize(cs[i]) \in Nat \ {0} /\ Over(cs[i]) \in Nat /\ cs[i].at < Over(cs[i])
      /\ cs[i].kind \in Containers => BSize(cs[i]) = 5 + cs[i].field
  BY <1>1, IntactSize
<1>3. Over(cs[i]) <= Over(cs[1])
  BY <1>1 DEF Tree, Nested
<1>4. IsKey(cs[i]) => cs[i].kind \notin Containers
  BY DEF IsKey, Containers
<1>5. Over(cs[i]) = cs[i].at + BSize(cs[i])
  BY DEF Over
<1>6. Over(cs[1]) \in Nat
  BY <1>1, IntactSize
<1>7. Opening(cs[i]) = IF cs[i].kind \in Containers THEN 5 ELSE BSize(cs[i])
  BY DEF Opening
<1>8. /\ Opening(cs[i]) \in Nat /\ cs[i].at + Opening(cs[i]) <= Over(cs[i])
      /\ cs[i].kind \notin Containers => cs[i].at + Opening(cs[i]) = Over(cs[i])
      /\ cs[i].kind \in Containers => Opening(cs[i]) = 5
  BY <1>2, <1>5, <1>7
<1>9. i \in Nat
  BY <1>1
<1>10. Numbers(cs, i)
  BY <1>2, <1>3, <1>6, <1>9 DEF Numbers
<1>11. Measure(cs, i)
  BY <1>2, <1>4, <1>5, <1>8 DEF Measure
<1> QED
  BY <1>10, <1>11

(* Cells in their order, and only one at a place.                          *)
LEMMA TreeOrder ==
  ASSUME NEW cs, Tree(cs), NEW i \in DOMAIN cs, NEW j \in DOMAIN cs
  PROVE  /\ i < j <=> cs[i].at < cs[j].at
         /\ i = j <=> cs[i].at = cs[j].at
<1>1. i \in Nat /\ j \in Nat /\ cs[i].at \in Nat /\ cs[j].at \in Nat
  BY TreeCell DEF Numbers
<1>2. i < j => cs[i].at < cs[j].at
  BY DEF Tree
<1>3. j < i => cs[j].at < cs[i].at
  BY DEF Tree
<1> QED
  BY <1>1, <1>2, <1>3

(* What nesting says of two cells of a whole message.                      *)
LEMMA TreeIn ==
  ASSUME NEW cs, Tree(cs), NEW i \in DOMAIN cs, NEW j \in DOMAIN cs
  PROVE  /\ In(cs[i], cs[j]) <=> cs[j].kind \in Containers /\ j < i /\ cs[i].at < Over(cs[j])
         /\ In(cs[i], cs[j]) => Over(cs[i]) <= Over(cs[j]) /\ (IsKey(cs[i]) => Over(cs[i]) < Over(cs[j]))
         /\ i # 1 => In(cs[i], cs[1])
<1>1. cs[j].field # NoSize
  BY DEF Tree
<1>2. j < i <=> cs[j].at < cs[i].at
  BY TreeOrder
<1>3. In(cs[i], cs[j]) => IF IsKey(cs[i]) THEN Over(cs[i]) < Over(cs[j]) ELSE Over(cs[i]) <= Over(cs[j])
  BY <1>1 DEF Tree, Nested
<1>4. Over(cs[i]) \in Nat /\ Over(cs[j]) \in Nat
  BY TreeCell DEF Numbers
<1>5. Over(cs[i]) < Over(cs[j]) => Over(cs[i]) <= Over(cs[j])
  BY <1>4
<1>6. i # 1 => In(cs[i], cs[1])
  BY DEF Tree, Nested
<1>7. In(cs[i], cs[j]) <=> cs[j].kind \in Containers /\ j < i /\ cs[i].at < Over(cs[j])
  BY <1>1, <1>2 DEF In
<1> QED
  BY <1>3, <1>5, <1>6, <1>7

(* The cell behind a cell.                                                 *)
LEMMA TreeNext ==
  ASSUME NEW cs, Tree(cs), NEW i \in DOMAIN cs
  PROVE  /\ i < Len(cs) => i + 1 \in DOMAIN cs /\ cs[i + 1].at = cs[i].at + Opening(cs[i])
         /\ ~(i < Len(cs)) => i = Len(cs) /\ Over(cs[1]) = cs[i].at + Opening(cs[i])
<1>1. DOMAIN cs = 1 .. Len(cs) /\ Len(cs) \in Nat
  BY TreeCells
<1>2. (i < Len(cs) => i + 1 \in DOMAIN cs /\ i # Len(cs)) /\ (~(i < Len(cs)) => i = Len(cs))
  BY <1>1
<1>3. cs[i].at + Opening(cs[i]) = IF i = Len(cs) THEN Over(cs[1]) ELSE cs[i + 1].at
  BY DEF Tree, Nested
<1> QED
  BY <1>2, <1>3

(* Where a cell ends another one begins, or the message ends.              *)
LEMMA TreeBehind ==
  ASSUME NEW cs, Tree(cs), NEW i \in DOMAIN cs, Over(cs[i]) < Over(cs[1])
  PROVE  \E n \in DOMAIN cs : cs[n].at = Over(cs[i])
<1>1. DOMAIN cs = 1 .. Len(cs) /\ Len(cs) \in Nat /\ Len(cs) \in DOMAIN cs
  BY TreeCells
<1>2. Numbers(cs, i) /\ Measure(cs, i)
  BY TreeCell
<1> DEFINE S == {n \in DOMAIN cs : Over(cs[i]) <= cs[n].at}
<1>3. PICK k \in DOMAIN cs : /\ i <= k /\ cs[k].at < Over(cs[i])
                             /\ k < Len(cs) => Over(cs[i]) <= cs[k + 1].at
  <2>1. CASE S = {}
    <3>1. i <= Len(cs) /\ ~(Len(cs) < Len(cs))
      BY <1>1
    <3>2. ~(Over(cs[i]) <= cs[Len(cs)].at)
      BY <1>1, <2>1
    <3>3. cs[Len(cs)].at \in Nat /\ Over(cs[i]) \in Nat
      BY <1>1, <1>2, TreeCell DEF Numbers
    <3>4. cs[Len(cs)].at < Over(cs[i])
      BY <3>2, <3>3
    <3> QED
      BY <1>1, <3>1, <3>4
  <2>2. CASE S # {}
    <3>1. S \subseteq Nat
      BY <1>1
    <3>2. PICK n \in S : \A m \in S : n <= m
      BY <2>2, <3>1, LeastNumber
    <3>3. n \in DOMAIN cs /\ Over(cs[i]) <= cs[n].at
      BY <3>2
    <3>4. cs[i].at < cs[n].at
      BY <1>2, <3>3, TreeCell DEF Numbers
    <3>5. i < n
      BY <3>3, <3>4, TreeOrder
    <3>6. n - 1 \in DOMAIN cs /\ i <= n - 1 /\ n - 1 + 1 = n /\ ~(n <= n - 1)
      BY <1>1, <3>3, <3>5
    <3>7. ~(Over(cs[i]) <= cs[n - 1].at)
      BY <3>2, <3>6
    <3>8. cs[n - 1].at \in Nat /\ Over(cs[i]) \in Nat
      BY <1>2, <3>6, TreeCell DEF Numbers
    <3>9. cs[n - 1].at < Over(cs[i])
      BY <3>7, <3>8
    <3> QED
      BY <3>3, <3>6, <3>9
  <2> QED
    BY <2>1, <2>2
<1>4. Numbers(cs, k) /\ Measure(cs, k)
  BY TreeCell
<1>5. cs[k].at + Opening(cs[k]) <= Over(cs[i])
  <2>1. CASE k = i
    BY <1>2, <2>1 DEF Measure
  <2>2. CASE k # i
    <3>1. i < k /\ i < Len(cs)
      BY <1>1, <1>3, <2>2
    <3>2. i + 1 \in DOMAIN cs /\ cs[i + 1].at = cs[i].at + Opening(cs[i])
      BY <3>1, TreeNext
    <3>3. ~(k < i + 1)
      BY <1>1, <3>1
    <3>4. ~(cs[k].at < cs[i + 1].at)
      BY <3>2, <3>3, TreeOrder
    <3>5. cs[i].kind \in Containers
      <4>1. cs[i].at + Opening(cs[i]) \in Nat /\ cs[k].at \in Nat /\ Over(cs[i]) \in Nat
        BY <1>2, <1>4 DEF Numbers, Measure
      <4>2. cs[i].at + Opening(cs[i]) # Over(cs[i])
        BY <1>3, <3>2, <3>4, <4>1
      <4> QED
        BY <1>2, <4>2 DEF Measure
    <3>6. In(cs[k], cs[i])
      BY <1>3, <3>1, <3>5, TreeIn
    <3>7. Over(cs[k]) <= Over(cs[i])
      BY <3>6, TreeIn
    <3>8. cs[k].at + Opening(cs[k]) <= Over(cs[k])
      BY <1>4 DEF Measure
    <3>9. cs[k].at + Opening(cs[k]) \in Nat /\ Over(cs[k]) \in Nat /\ Over(cs[i]) \in Nat
      BY <1>2, <1>4 DEF Numbers, Measure
    <3> QED
      BY <3>7, <3>8, <3>9
  <2> QED
    BY <2>1, <2>2
<1>6. cs[k].at + Opening(cs[k]) \in Nat /\ Over(cs[i]) \in Nat /\ Over(cs[1]) \in Nat
  BY <1>2, <1>4 DEF Numbers, Measure
<1>7. k < Len(cs)
  <2> SUFFICES ASSUME ~(k < Len(cs)) PROVE FALSE
    OBVIOUS
  <2>1. Over(cs[1]) = cs[k].at + Opening(cs[k])
    BY TreeNext
  <2> QED
    BY <1>5, <1>6, <2>1
<1>8. k + 1 \in DOMAIN cs /\ cs[k + 1].at = cs[k].at + Opening(cs[k])
  BY <1>7, TreeNext
<1>9. cs[k + 1].at = Over(cs[i])
  BY <1>3, <1>5, <1>6, <1>7, <1>8
<1> QED
  BY <1>8, <1>9

(* What is directly in a container, keys too.                              *)
ChildOf(cs, i, c) == i \in DOMAIN cs /\ c \in DOMAIN cs /\ Parent(cs, i, c)

(* What is directly in a container begins and ends in it.                  *)
LEMMA ChildIn ==
  ASSUME NEW cs, Tree(cs), NEW c, NEW i, ChildOf(cs, i, c)
  PROVE  /\ i \in DOMAIN cs /\ c \in DOMAIN cs
         /\ Numbers(cs, i) /\ Numbers(cs, c)
         /\ cs[c].kind \in Containers /\ ~IsKey(cs[c]) /\ c < i
         /\ cs[i].at < Over(cs[c]) /\ Over(cs[i]) <= Over(cs[c])
         /\ IsKey(cs[i]) => Over(cs[i]) < Over(cs[c])
         /\ \A k \in DOMAIN cs : In(cs[i], cs[k]) => k <= c
<1>1. i \in DOMAIN cs /\ c \in DOMAIN cs /\ In(cs[i], cs[c]) /\ \A k \in DOMAIN cs : In(cs[i], cs[k]) => k <= c
  BY DEF ChildOf, Parent
<1>2. Numbers(cs, i) /\ Numbers(cs, c)
  BY <1>1, TreeCell
<1>3. /\ cs[c].kind \in Containers /\ c < i /\ cs[i].at < Over(cs[c])
      /\ Over(cs[i]) <= Over(cs[c]) /\ (IsKey(cs[i]) => Over(cs[i]) < Over(cs[c]))
  BY <1>1, TreeIn
<1>4. ~IsKey(cs[c])
  BY <1>3 DEF IsKey, Containers
<1> QED
  BY <1>1, <1>2, <1>3, <1>4

(* A cell that begins in c where what is in c ended is in c, and in no     *)
(* other in c.                                                             *)
LEMMA ChildNext ==
  ASSUME NEW cs, Tree(cs), NEW c, NEW i, ChildOf(cs, i, c),
         NEW n \in DOMAIN cs, cs[n].at = Over(cs[i]), Over(cs[i]) < Over(cs[c])
  PROVE  ChildOf(cs, n, c) /\ i < n
<1>1. /\ i \in DOMAIN cs /\ c \in DOMAIN cs /\ Numbers(cs, i) /\ Numbers(cs, c) /\ Numbers(cs, n)
      /\ cs[c].kind \in Containers /\ c < i
      /\ \A k \in DOMAIN cs : In(cs[i], cs[k]) => k <= c
  BY ChildIn, TreeCell
<1>2. i < n
  <2>1. cs[i].at < cs[n].at
    BY <1>1 DEF Numbers
  <2> QED
    BY <1>1, <2>1, TreeOrder
<1>3. In(cs[n], cs[c])
  <2>1. c < n
    BY <1>1, <1>2 DEF Numbers
  <2>2. cs[n].at < Over(cs[c])
    OBVIOUS
  <2> QED
    BY <1>1, <2>1, <2>2, TreeIn
<1>4. ASSUME NEW k \in DOMAIN cs, In(cs[n], cs[k]) PROVE k <= c
  <2>1. Numbers(cs, k) /\ cs[k].kind \in Containers /\ k < n /\ cs[n].at < Over(cs[k])
    BY <1>4, TreeCell, TreeIn
  <2>2. CASE k < i
    <3>1. cs[i].at < Over(cs[k])
      BY <1>1, <2>1 DEF Numbers
    <3>2. In(cs[i], cs[k])
      BY <1>1, <2>1, <2>2, <3>1, TreeIn
    <3> QED
      BY <1>1, <3>2
  <2>3. CASE k = i
    BY <1>1, <2>1, <2>3 DEF Numbers
  <2>4. CASE i < k
    <3>1. cs[k].at < cs[n].at
      BY <2>1, TreeOrder
    <3>2. cs[i].kind \in Containers
      <4> SUFFICES ASSUME cs[i].kind \notin Containers PROVE FALSE
        OBVIOUS
      <4>1. i < Len(cs)
        BY <1>1, <1>2, TreeCells DEF Numbers
      <4>2. i + 1 \in DOMAIN cs /\ cs[i + 1].at = cs[i].at + Opening(cs[i])
        BY <1>1, <4>1, TreeNext
      <4>3. cs[i + 1].at = Over(cs[i])
        BY <1>1, <4>2, TreeCell DEF Measure
      <4>4. i + 1 = n
        BY <4>2, <4>3, TreeOrder
      <4> QED
        BY <1>1, <2>1, <2>4, <4>4 DEF Numbers
    <3>3. In(cs[k], cs[i])
      BY <1>1, <2>4, <3>1, <3>2, TreeIn
    <3>4. Over(cs[k]) <= Over(cs[i])
      BY <1>1, <3>3, TreeIn
    <3> QED
      BY <1>1, <2>1, <3>4 DEF Numbers
  <2>5. k < i \/ k = i \/ i < k
    BY <1>1, <2>1 DEF Numbers
  <2> QED
    BY <2>2, <2>3, <2>4, <2>5
<1> QED
  BY <1>1, <1>2, <1>3, <1>4 DEF ChildOf, Parent

(* Behind a key is its value.                                              *)
LEMMA KeyThenValue ==
  ASSUME NEW cs, Tree(cs), NEW c, NEW i, ChildOf(cs, i, c), IsKey(cs[i])
  PROVE  /\ i + 1 \in DOMAIN cs /\ cs[i + 1].at = Over(cs[i]) /\ ~IsKey(cs[i + 1])
         /\ ChildOf(cs, i + 1, c) /\ cs[c].kind = "OBJ"
<1>1. /\ i \in DOMAIN cs /\ c \in DOMAIN cs /\ Numbers(cs, i) /\ Numbers(cs, c)
      /\ Over(cs[i]) < Over(cs[c])
  BY ChildIn
<1>2. cs[i].at + Opening(cs[i]) = Over(cs[i])
  BY <1>1, TreeCell DEF Measure
<1>3. i < Len(cs)
  <2> SUFFICES ASSUME ~(i < Len(cs)) PROVE FALSE
    OBVIOUS
  <2>1. Over(cs[1]) = Over(cs[i])
    BY <1>1, <1>2, TreeNext
  <2> QED
    BY <1>1, <2>1 DEF Numbers
<1>4. i + 1 \in DOMAIN cs /\ cs[i + 1].at = Over(cs[i])
  BY <1>1, <1>2, <1>3, TreeNext
<1>5. ~IsKey(cs[i + 1])
  BY <1>1, <1>4 DEF Tree, Nested
<1>6. ChildOf(cs, i + 1, c)
  BY <1>1, <1>4, ChildNext
<1>7. (i + 1) - 1 = i
  BY <1>1 DEF Numbers
<1>8. cs[c].kind = "OBJ" <=> IsKey(cs[(i + 1) - 1])
  BY <1>1, <1>4, <1>5, <1>6 DEF Tree, Nested, ChildOf
<1> QED
  BY <1>4, <1>5, <1>6, <1>7, <1>8

(* In front of a value in an object is its key, and nowhere else.          *)
LEMMA ValueAfterKey ==
  ASSUME NEW cs, Tree(cs), NEW c, NEW i, ChildOf(cs, i, c), ~IsKey(cs[i])
  PROVE  /\ cs[c].kind = "OBJ" <=> IsKey(cs[i - 1])
         /\ cs[c].kind = "OBJ" => ChildOf(cs, i - 1, c) /\ Over(cs[i - 1]) = cs[i].at
<1>1. /\ i \in DOMAIN cs /\ c \in DOMAIN cs /\ Numbers(cs, i) /\ Numbers(cs, c)
      /\ cs[c].kind \in Containers /\ c < i /\ ~IsKey(cs[c])
      /\ cs[i].at < Over(cs[c]) /\ \A k \in DOMAIN cs : In(cs[i], cs[k]) => k <= c
  BY ChildIn
<1>2. cs[c].kind = "OBJ" <=> IsKey(cs[i - 1])
  BY <1>1 DEF Tree, Nested, ChildOf
<1>3. ASSUME cs[c].kind = "OBJ" PROVE ChildOf(cs, i - 1, c) /\ Over(cs[i - 1]) = cs[i].at
  <2>1. DOMAIN cs = 1 .. Len(cs) /\ Len(cs) \in Nat /\ IsKey(cs[i - 1])
    BY <1>2, <1>3, TreeCells
  <2>2. i - 1 \in DOMAIN cs /\ i - 1 < Len(cs) /\ (i - 1) + 1 = i
    BY <1>1, <2>1
  <2>3. Numbers(cs, i - 1) /\ Measure(cs, i - 1) /\ c # i - 1
    BY <1>1, <2>1, <2>2, TreeCell
  <2>4. c < i - 1
    BY <1>1, <2>3 DEF Numbers
  <2>5. Over(cs[i - 1]) = cs[i].at
    <3>1. cs[i].at = cs[i - 1].at + Opening(cs[i - 1])
      BY <2>2, TreeNext
    <3> QED
      BY <2>1, <2>3, <3>1 DEF Measure
  <2>6. In(cs[i - 1], cs[c])
    <3>1. cs[i - 1].at < Over(cs[c])
      BY <1>1, <2>3, <2>5 DEF Numbers
    <3> QED
      BY <1>1, <2>2, <2>4, <3>1, TreeIn
  <2>7. ASSUME NEW k \in DOMAIN cs, In(cs[i - 1], cs[k]) PROVE k <= c
    <3>1. cs[k].kind \in Containers /\ k < i - 1 /\ Over(cs[i - 1]) < Over(cs[k])
      BY <2>1, <2>2, <2>7, TreeIn
    <3>2. Numbers(cs, k)
      BY TreeCell
    <3>3. k < i /\ cs[i].at < Over(cs[k])
      BY <1>1, <2>5, <3>1, <3>2 DEF Numbers
    <3>4. In(cs[i], cs[k])
      BY <1>1, <3>1, <3>3, TreeIn
    <3> QED
      BY <1>1, <3>4
  <2> QED
    BY <1>1, <2>2, <2>5, <2>6, <2>7 DEF ChildOf, Parent
<1> QED
  BY <1>2, <1>3

(* What follows in a container begins where what is before it has ended.   *)
LEMMA ChildApart ==
  ASSUME NEW cs, Tree(cs), NEW c, NEW i, ChildOf(cs, i, c), NEW x, ChildOf(cs, x, c), i < x
  PROVE  Over(cs[i]) <= cs[x].at
<1>1. /\ i \in DOMAIN cs /\ c \in DOMAIN cs /\ x \in DOMAIN cs
      /\ Numbers(cs, i) /\ Numbers(cs, c) /\ Numbers(cs, x) /\ c < i
      /\ \A k \in DOMAIN cs : In(cs[x], cs[k]) => k <= c
  BY ChildIn
<1>2. CASE cs[i].kind \in Containers
  <2>1. ~In(cs[x], cs[i])
    BY <1>1 DEF Numbers
  <2>2. ~(cs[x].at < Over(cs[i]))
    BY <1>1, <1>2, <2>1, TreeIn
  <2> QED
    BY <1>1, <2>2 DEF Numbers
<1>3. CASE cs[i].kind \notin Containers
  <2>1. i < Len(cs)
    BY <1>1, TreeCells DEF Numbers
  <2>2. i + 1 \in DOMAIN cs /\ cs[i + 1].at = Over(cs[i])
    BY <1>1, <1>3, <2>1, TreeNext, TreeCell DEF Measure
  <2>3. ~(x < i + 1)
    BY <1>1 DEF Numbers
  <2>4. ~(cs[x].at < cs[i + 1].at)
    BY <1>1, <2>2, <2>3, TreeOrder
  <2> QED
    BY <1>1, <2>2, <2>4 DEF Numbers
<1> QED
  BY <1>2, <1>3

(* The first in a container.                                               *)
LEMMA FirstChild ==
  ASSUME NEW cs, Tree(cs), NEW c \in DOMAIN cs, cs[c].kind \in Containers, cs[c].at + 5 < Over(cs[c])
  PROVE  /\ ChildOf(cs, c + 1, c) /\ cs[c + 1].at = cs[c].at + 5
         /\ cs[c].kind = "OBJ" <=> IsKey(cs[c + 1])
<1>1. Numbers(cs, c) /\ Opening(cs[c]) = 5
  BY TreeCell DEF Measure
<1>2. c < Len(cs)
  <2> SUFFICES ASSUME ~(c < Len(cs)) PROVE FALSE
    OBVIOUS
  <2>1. Over(cs[1]) = cs[c].at + 5
    BY <1>1, TreeNext
  <2> QED
    BY <1>1, <2>1 DEF Numbers
<1>3. c + 1 \in DOMAIN cs /\ cs[c + 1].at = cs[c].at + 5
  BY <1>1, <1>2, TreeNext
<1>4. In(cs[c + 1], cs[c])
  <2>1. c < c + 1
    BY <1>1 DEF Numbers
  <2> QED
    BY <1>3, <2>1, TreeIn
<1>5. \A k \in DOMAIN cs : In(cs[c + 1], cs[k]) => k <= c
  <2>1. \A k \in DOMAIN cs : In(cs[c + 1], cs[k]) => k < c + 1 /\ k \in Nat
    BY <1>3, TreeIn, TreeCell DEF Numbers
  <2> QED
    BY <1>1, <2>1 DEF Numbers
<1>6. ChildOf(cs, c + 1, c)
  BY <1>3, <1>4, <1>5 DEF ChildOf, Parent
<1>7. cs[c].kind = "OBJ" <=> IsKey(cs[c + 1])
  <2>1. CASE IsKey(cs[c + 1])
    BY <1>6, <2>1, KeyThenValue
  <2>2. CASE ~IsKey(cs[c + 1])
    <3>2. ~IsKey(cs[c])
      BY DEF IsKey, Containers
    <3> DEFINE n == c + 1
    <3>3. n - 1 = c
      BY <1>1 DEF Numbers
    <3>4. ChildOf(cs, n, c) /\ ~IsKey(cs[n])
      BY <1>6, <2>2
    <3> HIDE DEF n
    <3>5. cs[c].kind = "OBJ" <=> IsKey(cs[n - 1])
      BY <3>4, ValueAfterKey
    <3>6. cs[c].kind # "OBJ" /\ ~IsKey(cs[n])
      BY <3>2, <3>3, <3>4, <3>5
    <3> QED
      BY <3>6 DEF n
  <2> QED
    BY <2>1, <2>2
<1> QED
  BY <1>3, <1>6, <1>7
-----------------------------------------------------------------------------
(* The members, found without a walk, are what is directly in a container, *)
(* without the keys.                                                       *)
LEMMA MembersAre ==
  ASSUME Tree(msg), NEW c \in DOMAIN msg, msg[c].kind \in Containers
  PROVE  \A i : i \in Members(msg[c]) <=> ChildOf(msg, i, c) /\ ~IsKey(msg[i])
<1>1. Numbers(msg, c) /\ Measure(msg, c)
  BY TreeCell
<1>2. ASSUME NEW d \in DOMAIN msg, NEW e \in DOMAIN msg, msg[e].kind \in Containers
      PROVE  Inside(msg[d], msg[e]) <=> In(msg[d], msg[e])
  <2>1. msg[e].field # NoSize
    BY DEF Tree
  <2>2. Over(msg[e]) = msg[e].at + 5 + msg[e].field
    BY <1>2, TreeCell DEF Measure, Numbers
  <2> QED
    BY <1>2, <2>1, <2>2 DEF Inside, In
<1>3. ASSUME NEW i, i \in Members(msg[c]) PROVE ChildOf(msg, i, c) /\ ~IsKey(msg[i])
  <2>1. /\ i \in DOMAIN msg /\ Inside(msg[i], msg[c]) /\ msg[i].kind \notin {"KEY1", "KEY2"}
        /\ ~\E j \in DOMAIN msg : /\ msg[j].kind \in Containers
                                  /\ Inside(msg[j], msg[c]) /\ Inside(msg[i], msg[j])
    BY <1>3 DEF Members
  <2>2. In(msg[i], msg[c])
    BY <1>2, <2>1
  <2>3. ASSUME NEW k \in DOMAIN msg, In(msg[i], msg[k]) PROVE k <= c
    <3>1. msg[k].kind \in Containers /\ k < i /\ msg[i].at < Over(msg[k])
      BY <2>1, <2>3, TreeIn
    <3>2. Inside(msg[i], msg[k])
      BY <1>2, <2>1, <2>3, <3>1
    <3>3. ~In(msg[k], msg[c])
      BY <1>2, <2>1, <3>1, <3>2
    <3>4. ~(c < k /\ msg[k].at < Over(msg[c]))
      BY <3>3, TreeIn
    <3>5. msg[k].at < msg[i].at /\ msg[i].at < Over(msg[c])
      BY <2>1, <2>2, <3>1, TreeIn, TreeOrder
    <3>6. msg[k].at < Over(msg[c])
      BY <1>1, <2>1, <3>5, TreeCell DEF Numbers
    <3> QED
      BY <1>1, <3>4, <3>6, TreeCell DEF Numbers
  <2> QED
    BY <2>1, <2>2, <2>3 DEF ChildOf, Parent, IsKey
<1>4. ASSUME NEW i, ChildOf(msg, i, c), ~IsKey(msg[i]) PROVE i \in Members(msg[c])
  <2>1. i \in DOMAIN msg /\ In(msg[i], msg[c]) /\ \A k \in DOMAIN msg : In(msg[i], msg[k]) => k <= c
    BY <1>4 DEF ChildOf, Parent
  <2>2. Inside(msg[i], msg[c])
    BY <1>2, <2>1
  <2>3. ASSUME NEW j \in DOMAIN msg, msg[j].kind \in Containers, Inside(msg[j], msg[c]), Inside(msg[i], msg[j])
        PROVE  FALSE
    <3>1. In(msg[j], msg[c]) /\ In(msg[i], msg[j])
      BY <1>2, <2>1, <2>3
    <3>2. j <= c /\ c < j
      BY <2>1, <3>1, TreeIn
    <3> QED
      BY <1>1, <3>2, TreeCell DEF Numbers
  <2> QED
    BY <1>4, <2>1, <2>2, <2>3 DEF Members, IsKey
<1> QED
  BY <1>3, <1>4

(* From one member to the next, as the readers of val.c go on.             *)
From(c, o) == {m \in Members(msg[c]) : o <= msg[m].at}
AtMember(c, o) == /\ o \in Nat /\ o <= Over(msg[c])
                  /\ o < Over(msg[c]) => \E i : /\ ChildOf(msg, i, c) /\ msg[i].at = o
                                                /\ msg[c].kind = "OBJ" <=> IsKey(msg[i])
Past(c, o) == IF msg[c].kind = "OBJ" THEN Reader!Next(Reader!Next(o)) ELSE Reader!Next(o)
Strides(c, o, m) ==
    /\ m \in Members(msg[c]) /\ m \in Nat /\ m \in DOMAIN msg
    /\ o < Over(msg[m]) /\ AtMember(c, Over(msg[m])) /\ Past(c, o) = Over(msg[m])
    /\ From(c, o) = {m} \cup From(c, Over(msg[m]))
    /\ \A x \in From(c, Over(msg[m])) : x \in Nat /\ m < x
    /\ msg[c].kind = "OBJ" => /\ Reader!Next(o) = msg[m].at
                              /\ Reader!ValKey(o) = msg[m - 1].field
    /\ msg[c].kind # "OBJ" => msg[m].at = o

(* What opo_val_next and the readers see at the place of a cell.           *)
LEMMA CellIs ==
  ASSUME Tree(msg), NEW i \in DOMAIN msg
  PROVE  Reader!Next(msg[i].at) = Over(msg[i]) /\ Reader!CellAt(msg[i].at) = msg[i]
<1> DEFINE k == CHOOSE j \in DOMAIN msg : msg[j].at = msg[i].at
<1>1. k \in DOMAIN msg /\ msg[k].at = msg[i].at
  OBVIOUS
<1>2. k = i
  <2> HIDE DEF k
  <2> QED
    BY <1>1, TreeOrder
<1>3. Reader!CellAt(msg[i].at) = msg[i]
  BY <1>2 DEF Reader!CellAt
<1>4. Reader!Next(msg[i].at) = msg[i].at + Reader!BSize(msg[i])
  BY <1>2 DEF Reader!Next
<1> QED
  BY <1>3, <1>4, SameWire DEF Over

(* The next member, and where the readers are behind it.                   *)
LEMMA Stride ==
  ASSUME Tree(msg), NEW c \in DOMAIN msg, msg[c].kind \in Containers,
         NEW o, AtMember(c, o), o < Over(msg[c])
  PROVE  \E m : Strides(c, o, m)
<1>1. PICK i : ChildOf(msg, i, c) /\ msg[i].at = o /\ (msg[c].kind = "OBJ" <=> IsKey(msg[i]))
  BY DEF AtMember
<1>2. /\ i \in DOMAIN msg /\ Numbers(msg, i) /\ Numbers(msg, c)
  BY <1>1, ChildIn
<1> DEFINE m == IF msg[c].kind = "OBJ" THEN i + 1 ELSE i
<1>3. /\ ChildOf(msg, m, c) /\ ~IsKey(msg[m])
      /\ msg[c].kind = "OBJ" => msg[m].at = Over(msg[i]) /\ m = i + 1
      /\ msg[c].kind # "OBJ" => msg[m].at = o
  BY <1>1, KeyThenValue
<1> HIDE DEF m
<1>4. /\ m \in DOMAIN msg /\ Numbers(msg, m) /\ Over(msg[m]) <= Over(msg[c])
      /\ m \in Members(msg[c])
  BY <1>3, ChildIn, MembersAre
<1>5. o < Over(msg[m]) /\ o <= msg[m].at
  BY <1>1, <1>2, <1>3, <1>4 DEF Numbers
<1>6. AtMember(c, Over(msg[m]))
  <2> SUFFICES ASSUME Over(msg[m]) < Over(msg[c])
               PROVE  \E n : /\ ChildOf(msg, n, c) /\ msg[n].at = Over(msg[m])
                             /\ msg[c].kind = "OBJ" <=> IsKey(msg[n])
    BY <1>4 DEF AtMember, Numbers
  <2>1. Over(msg[m]) < Over(msg[1])
    BY <1>2, <1>4 DEF Numbers
  <2>2. PICK n \in DOMAIN msg : msg[n].at = Over(msg[m])
    BY <1>4, <2>1, TreeBehind
  <2>3. ChildOf(msg, n, c) /\ m < n
    BY <1>3, <2>2, ChildNext
  <2>4. CASE IsKey(msg[n])
    BY <2>2, <2>3, <2>4, KeyThenValue
  <2>5. CASE ~IsKey(msg[n])
    <3> SUFFICES ASSUME msg[c].kind = "OBJ" PROVE FALSE
      BY <2>2, <2>3, <2>5
    <3>1. IsKey(msg[n - 1]) /\ ChildOf(msg, n - 1, c)
      BY <2>3, <2>5, ValueAfterKey
    <3>2. m # n - 1
      BY <1>3, <3>1
    <3>3. m < n - 1 /\ n - 1 < n
      BY <1>4, <2>3, <3>2, TreeCell DEF Numbers
    <3>4. Over(msg[m]) <= msg[n - 1].at
      BY <1>3, <3>1, <3>3, ChildApart
    <3>5. msg[n - 1].at < msg[n].at /\ Numbers(msg, n - 1) /\ Numbers(msg, n)
      BY <3>1, <3>3, ChildIn, TreeCell, TreeOrder
    <3> QED
      BY <1>4, <2>2, <3>4, <3>5 DEF Numbers
  <2> QED
    BY <2>4, <2>5
<1>7. Reader!Next(o) = Over(msg[i]) /\ Reader!Next(msg[m].at) = Over(msg[m])
  BY <1>1, <1>2, <1>4, CellIs
<1>8. Past(c, o) = Over(msg[m])
  BY <1>3, <1>7 DEF Past
<1>9. msg[c].kind = "OBJ" => Reader!Next(o) = msg[m].at /\ Reader!ValKey(o) = msg[m - 1].field
  <2> SUFFICES ASSUME msg[c].kind = "OBJ" PROVE Reader!Next(o) = msg[m].at /\ Reader!ValKey(o) = msg[m - 1].field
    OBVIOUS
  <2>1. m - 1 = i
    BY <1>2, <1>3 DEF Numbers
  <2>2. Reader!CellAt(o) = msg[i]
    BY <1>1, <1>2, CellIs
  <2> QED
    BY <1>1, <1>3, <1>7, <2>1, <2>2 DEF Reader!ValKey, IsKey
<1>10. ASSUME NEW x \in From(c, o) PROVE x = m \/ x \in From(c, Over(msg[m]))
  <2>1. x \in Members(msg[c]) /\ o <= msg[x].at
    BY DEF From
  <2>2. ChildOf(msg, x, c) /\ ~IsKey(msg[x]) /\ Numbers(msg, x) /\ x \in DOMAIN msg
    BY <2>1, MembersAre, ChildIn
  <2>3. CASE m < x
    <3>1. Over(msg[m]) <= msg[x].at
      BY <1>3, <2>2, <2>3, ChildApart
    <3> QED
      BY <2>1, <3>1 DEF From
  <2>4. CASE x < m
    <3>1. i # x => i < x
      <4>1. ~(msg[x].at < msg[i].at)
        BY <1>1, <1>2, <2>1, <2>2 DEF Numbers
      <4> QED
        BY <1>2, <2>2, <4>1, TreeOrder DEF Numbers
    <3>2. i # x
      BY <1>1, <1>3, <2>2, <2>4, <1>2 DEF m, Numbers
    <3> QED
      BY <1>2, <2>2, <2>4, <3>1, <3>2 DEF m, Numbers
  <2> QED
    BY <1>4, <2>2, <2>3, <2>4 DEF Numbers
<1>11. ASSUME NEW x \in From(c, Over(msg[m])) PROVE x \in From(c, o) /\ x \in Nat /\ m < x
  <2>1. x \in Members(msg[c]) /\ Over(msg[m]) <= msg[x].at
    BY DEF From
  <2>2. Numbers(msg, x) /\ x \in DOMAIN msg
    BY <2>1, MembersAre, ChildIn
  <2>3. o \in Nat
    BY DEF AtMember
  <2>4. o <= msg[x].at /\ msg[m].at < msg[x].at
    BY <1>4, <1>5, <2>1, <2>2, <2>3 DEF Numbers
  <2>5. m < x
    BY <1>4, <2>2, <2>4, TreeOrder
  <2> QED
    BY <2>1, <2>2, <2>4, <2>5 DEF From, Numbers
<1>12. m \in From(c, o)
  BY <1>4, <1>5 DEF From
<1>13. From(c, o) = {m} \cup From(c, Over(msg[m]))
  BY <1>10, <1>11, <1>12
<1>14. Strides(c, o, m)
  BY <1>3, <1>4, <1>5, <1>6, <1>8, <1>9, <1>11, <1>13 DEF Strides, Numbers
<1> QED
  BY <1>14

(* The first member is behind the five bytes of a container, and behind    *)
(* the last there is nothing more.                                         *)
LEMMA StrideEnds ==
  ASSUME Tree(msg), NEW c \in DOMAIN msg, msg[c].kind \in Containers
  PROVE  /\ AtMember(c, msg[c].at + 5) /\ From(c, msg[c].at + 5) = Members(msg[c])
         /\ \A o \in Nat : Over(msg[c]) <= o => From(c, o) = {}
         /\ Members(msg[c]) \subseteq DOMAIN msg /\ c \in Nat
         /\ Over(msg[c]) \in Nat /\ msg[c].at + 5 \in Nat
<1>1. Numbers(msg, c) /\ Measure(msg, c) /\ msg[c].at + 5 <= Over(msg[c])
  BY TreeCell DEF Measure
<1>2. AtMember(c, msg[c].at + 5)
  <2>1. msg[c].at + 5 \in Nat
    BY <1>1 DEF Numbers
  <2>2. msg[c].at + 5 < Over(msg[c]) => /\ ChildOf(msg, c + 1, c) /\ msg[c + 1].at = msg[c].at + 5
                                        /\ msg[c].kind = "OBJ" <=> IsKey(msg[c + 1])
    BY FirstChild
  <2> QED
    BY <1>1, <2>1, <2>2 DEF AtMember
<1>3. ASSUME NEW m \in Members(msg[c])
      PROVE  /\ m \in DOMAIN msg /\ msg[c].at + 5 <= msg[m].at /\ msg[m].at < Over(msg[c])
             /\ msg[m].at \in Nat
  <2>1. m \in DOMAIN msg /\ Numbers(msg, m) /\ c < m /\ msg[m].at < Over(msg[c])
    BY MembersAre, ChildIn
  <2>2. c < Len(msg) /\ ~(m < c + 1)
    BY <1>1, <2>1, TreeCells DEF Numbers
  <2>3. c + 1 \in DOMAIN msg /\ msg[c + 1].at = msg[c].at + 5
    BY <1>1, <2>2, TreeNext DEF Measure
  <2>4. ~(msg[m].at < msg[c + 1].at)
    BY <2>1, <2>2, <2>3, TreeOrder
  <2> QED
    BY <1>1, <2>1, <2>3, <2>4 DEF Numbers
<1>4. From(c, msg[c].at + 5) = Members(msg[c])
  BY <1>3 DEF From
<1>5. ASSUME NEW o \in Nat, Over(msg[c]) <= o PROVE From(c, o) = {}
  <2> SUFFICES ASSUME NEW m \in From(c, o) PROVE FALSE
    OBVIOUS
  <2>1. m \in Members(msg[c]) /\ o <= msg[m].at
    BY DEF From
  <2> QED
    BY <1>1, <1>3, <1>5, <2>1 DEF Numbers
<1>6. Members(msg[c]) \subseteq DOMAIN msg
  BY <1>3
<1>7. c \in Nat /\ Over(msg[c]) \in Nat /\ msg[c].at + 5 \in Nat
  BY <1>1 DEF Numbers
<1> QED
  BY <1>2, <1>4, <1>5, <1>6, <1>7
-----------------------------------------------------------------------------
(* Every step of a reader goes on.                                         *)
LEMMA NextOn ==
  ASSUME Tree(msg), NEW o \in Nat
  PROVE  Reader!Next(o) \in Nat /\ o < Reader!Next(o)
<1>1. CASE \E i \in DOMAIN msg : msg[i].at = o
  <2>1. PICK i \in DOMAIN msg : msg[i].at = o
    BY <1>1
  <2>2. Reader!Next(o) = Over(msg[i])
    BY <2>1, CellIs
  <2> QED
    BY <2>1, <2>2, TreeCell DEF Numbers
<1>2. CASE ~\E i \in DOMAIN msg : msg[i].at = o
  BY <1>2 DEF Reader!Next
<1> QED
  BY <1>1, <1>2

(* So does passing over a member.                                          *)
LEMMA PastOn ==
  ASSUME Tree(msg), NEW c, NEW o \in Nat
  PROVE  Past(c, o) \in Nat /\ o < Past(c, o)
<1>1. Reader!Next(o) \in Nat /\ o < Reader!Next(o)
  BY NextOn
<1>2. Reader!Next(Reader!Next(o)) \in Nat /\ Reader!Next(o) < Reader!Next(Reader!Next(o))
  BY <1>1, NextOn
<1> QED
  BY <1>1, <1>2 DEF Past

(* How far it is to an end.                                                *)
ToGo(e, o) == IF e <= o THEN 0 ELSE e - o

(* What opo_val_member_count counts from a place on.                       *)
CountsBy(c, k) == /\ k \in [Nat -> Nat]
                  /\ \A o \in Nat : k[o] = IF Over(msg[c]) <= o THEN 0 ELSE 1 + k[Past(c, o)]

(* The loop of opo_val_member_count is such a function.                    *)
LEMMA CountRuns ==
  ASSUME Tree(msg), NEW c \in DOMAIN msg
  PROVE  \E k : CountsBy(c, k) /\ Reader!MemberCount(msg[c]) = k[msg[c].at + 5]
<1> DEFINE e == msg[c].at + Reader!BSize(msg[c])
           Is(h) == h = [o \in Nat |-> IF e <= o THEN 0
                                       ELSE 1 + h[IF msg[c].kind = "OBJ" THEN Reader!Next(Reader!Next(o))
                                                  ELSE Reader!Next(o)]]
           F == [Nat -> Nat]
           make == [h \in F |-> [o \in Nat |-> IF e <= o THEN 0 ELSE 1 + h[Past(c, o)]]]
           m == [o \in Nat |-> ToGo(e, o)]
<1>1. e \in Nat /\ e = Over(msg[c])
  BY TreeCell, SameWire DEF Numbers, Over
<1> HIDE DEF e
<1>2. \A o \in Nat : Past(c, o) \in Nat /\ o < Past(c, o)
  BY PastOn
<1>3. m \in [Nat -> Nat]
  BY <1>1 DEF ToGo
<1>4. make \in [F -> F]
  <2>1. ASSUME NEW h \in F, NEW o \in Nat PROVE (IF e <= o THEN 0 ELSE 1 + h[Past(c, o)]) \in Nat
    BY <1>2
  <2> QED
    BY <2>1
<1>5. ASSUME NEW g \in F, NEW h \in F, NEW x \in Nat, \A y \in Nat : m[y] < m[x] => g[y] = h[y]
      PROVE  make[g][x] = make[h][x]
  <2>1. CASE e <= x
    BY <2>1
  <2>2. CASE ~(e <= x)
    <3>1. Past(c, x) \in Nat /\ x < Past(c, x)
      BY <1>2
    <3>2. m[Past(c, x)] < m[x]
      BY <1>1, <2>2, <3>1 DEF ToGo
    <3>3. g[Past(c, x)] = h[Past(c, x)]
      BY <1>5, <3>1, <3>2
    <3> HIDE DEF m
    <3> QED
      BY <2>2, <3>3
  <2> QED
    BY <2>1, <2>2
<1> HIDE DEF m
<1>6. PICK f \in F : f = make[f]
  <2> DEFINE D == Nat
  <2>1. Recurs(D, D, m, make) /\ D # {}
    BY <1>3, <1>4, <1>5 DEF Recurs
  <2> HIDE DEF D, make
  <2>2. \E f \in [D -> D] : f = make[f]
    BY <2>1, Recursive
  <2> QED
    BY <2>2 DEF D
<1>7. f = [o \in Nat |-> IF e <= o THEN 0 ELSE 1 + f[Past(c, o)]]
  BY <1>6
<1>8. Is(f)
  BY <1>7 DEF Past
<1> DEFINE k == CHOOSE h : Is(h)
<1>9. Is(k)
  <2> HIDE DEF Is
  <2> QED
    BY <1>8
<1>10. Reader!MemberCount(msg[c]) = k[msg[c].at + 5]
  BY DEF Reader!MemberCount, e
<1> HIDE DEF k
<1>11. k = [o \in Nat |-> IF e <= o THEN 0 ELSE 1 + k[Past(c, o)]]
  BY <1>9 DEF Past
<1>12. \A o \in Nat : k[o] = IF e <= o THEN 0 ELSE 1 + k[Past(c, o)]
  BY <1>11, Zenon
<1>13. k \in [Nat -> Nat]
  <2> DEFINE S == {n \in Nat : \A o \in Nat : ToGo(e, o) <= n => k[o] \in Nat}
  <2>1. 0 \in S
    <3>1. \A o \in Nat : ToGo(e, o) <= 0 => e <= o
      BY <1>1 DEF ToGo
    <3>2. \A o \in Nat : e <= o => k[o] = 0
      BY <1>12
    <3> QED
      BY <3>1, <3>2
  <2>2. ASSUME NEW n \in Nat, n \in S PROVE n + 1 \in S
    <3> SUFFICES ASSUME NEW o \in Nat, ToGo(e, o) <= n + 1 PROVE k[o] \in Nat
      OBVIOUS
    <3>1. CASE e <= o
      BY <1>12, <3>1
    <3>2. CASE ~(e <= o)
      <4>1. Past(c, o) \in Nat /\ o < Past(c, o)
        BY <1>2
      <4>2. ToGo(e, Past(c, o)) <= n
        BY <1>1, <3>2, <4>1 DEF ToGo
      <4>3. k[Past(c, o)] \in Nat
        BY <2>2, <4>1, <4>2
      <4>4. k[o] = 1 + k[Past(c, o)]
        BY <1>12, <3>2
      <4> QED
        BY <4>3, <4>4
    <3> QED
      BY <3>1, <3>2
  <2> HIDE DEF S
  <2>3. Nat \subseteq S
    BY <2>1, <2>2, SetInduction
  <2>4. ASSUME NEW o \in Nat PROVE k[o] \in Nat
    <3>1. ToGo(e, o) \in Nat /\ ToGo(e, o) <= ToGo(e, o)
      BY <1>1 DEF ToGo
    <3> QED
      BY <2>3, <3>1 DEF S
  <2>5. DOMAIN k = Nat /\ k = [o \in DOMAIN k |-> k[o]]
    BY <1>11, Zenon
  <2> QED
    BY <2>4, <2>5
<1>14. CountsBy(c, k)
  BY <1>1, <1>12, <1>13 DEF CountsBy
<1> QED
  BY <1>10, <1>14

(* opo_val_member_count finds every member once.                           *)
LEMMA CountIs ==
  ASSUME Tree(msg), NEW c \in DOMAIN msg, msg[c].kind \in Containers
  PROVE  Reader!MemberCount(msg[c]) = Cardinality(Members(msg[c]))
<1> DEFINE e == Over(msg[c])
<1>1. PICK k : CountsBy(c, k) /\ Reader!MemberCount(msg[c]) = k[msg[c].at + 5]
  BY CountRuns
<1>2. k \in [Nat -> Nat] /\ \A o \in Nat : k[o] = IF e <= o THEN 0 ELSE 1 + k[Past(c, o)]
  BY <1>1 DEF CountsBy
<1>3. /\ AtMember(c, msg[c].at + 5) /\ From(c, msg[c].at + 5) = Members(msg[c])
      /\ \A o \in Nat : e <= o => From(c, o) = {}
      /\ Members(msg[c]) \subseteq DOMAIN msg /\ msg[c].at + 5 \in Nat /\ e \in Nat
  BY StrideEnds
<1> HIDE DEF e
<1>4. \A o : IsFiniteSet(From(c, o))
  <2>1. IsFiniteSet(DOMAIN msg)
    BY TreeCells, FS_Interval
  <2>2. \A o : From(c, o) \subseteq DOMAIN msg
    BY <1>3 DEF From
  <2> QED
    BY <2>1, <2>2, FS_Subset
<1> DEFINE S == {n \in Nat : \A o : AtMember(c, o) /\ ToGo(e, o) <= n => k[o] = Cardinality(From(c, o))}
<1>5. ASSUME NEW o, AtMember(c, o), e <= o PROVE k[o] = Cardinality(From(c, o))
  <2>1. o \in Nat
    BY <1>5 DEF AtMember
  <2>2. k[o] = 0 /\ From(c, o) = {}
    BY <1>2, <1>3, <1>5, <2>1
  <2> QED
    BY <2>2, FS_EmptySet
<1>6. 0 \in S
  <2>1. ASSUME NEW o, AtMember(c, o), ToGo(e, o) <= 0 PROVE e <= o
    BY <1>3, <2>1 DEF ToGo, AtMember
  <2> QED
    BY <1>5, <2>1
<1>7. ASSUME NEW n \in Nat, n \in S PROVE n + 1 \in S
  <2> SUFFICES ASSUME NEW o, AtMember(c, o), ToGo(e, o) <= n + 1 PROVE k[o] = Cardinality(From(c, o))
    OBVIOUS
  <2>1. o \in Nat
    BY DEF AtMember
  <2>2. CASE ~(e <= o)
    <3>1. o < Over(msg[c])
      BY <1>3, <2>1, <2>2 DEF e
    <3>2. PICK m : Strides(c, o, m)
      BY <3>1, Stride
    <3> DEFINE p == Past(c, o)
    <3>3. /\ o < p /\ AtMember(c, p) /\ From(c, o) = {m} \cup From(c, p)
          /\ \A x \in From(c, p) : x \in Nat /\ m < x
          /\ m \in Nat
      BY <3>2 DEF Strides
    <3>4. k[o] = 1 + k[p]
      BY <1>2, <2>1, <2>2
    <3> HIDE DEF p
    <3>5. p \in Nat
      BY <3>3 DEF AtMember
    <3>6. ToGo(e, p) <= n
      BY <1>3, <2>1, <2>2, <3>3, <3>5 DEF ToGo
    <3>7. k[p] = Cardinality(From(c, p))
      BY <1>7, <3>3, <3>6
    <3>8. m \notin From(c, p)
      BY <3>3
    <3>9. Cardinality(From(c, p) \cup {m}) = Cardinality(From(c, p)) + 1
      BY <1>4, <3>8, FS_AddElement
    <3>10. From(c, o) = From(c, p) \cup {m}
      BY <3>3
    <3>11. k[p] \in Nat
      BY <1>2, <3>5
    <3> QED
      BY <3>4, <3>7, <3>9, <3>10, <3>11
  <2> QED
    BY <1>5, <2>2
<1> HIDE DEF S
<1>8. Nat \subseteq S
  BY <1>6, <1>7, SetInduction
<1>9. ToGo(e, msg[c].at + 5) \in Nat /\ ToGo(e, msg[c].at + 5) <= ToGo(e, msg[c].at + 5)
  BY <1>3 DEF ToGo
<1>10. k[msg[c].at + 5] = Cardinality(From(c, msg[c].at + 5))
  BY <1>3, <1>8, <1>9 DEF S
<1> QED
  BY <1>1, <1>3, <1>10
-----------------------------------------------------------------------------
(* What nesting says of a cell, and of two.                                *)
Chained(cs, to, i) ==
    /\ cs[i].at + Opening(cs[i]) = IF i = Len(cs) THEN to ELSE cs[i + 1].at
    /\ i = 1 \/ In(cs[i], cs[1])
    /\ cs[i].field # NoSize => Over(cs[i]) <= to
EndsIn(cs, i, j) ==
    cs[j].field # NoSize /\ In(cs[i], cs[j]) =>
       /\ cs[i].field # NoSize
       /\ IF IsKey(cs[i]) THEN Over(cs[i]) < Over(cs[j]) ELSE Over(cs[i]) <= Over(cs[j])
Fits(cs, i, j) ==
    /\ IsKey(cs[i]) /\ j = i + 1 => ~IsKey(cs[j])
    /\ ~IsKey(cs[i]) /\ Parent(cs, i, j) => (cs[j].kind = "OBJ" <=> IsKey(cs[i - 1]))

(* Nesting, cell by cell.                                                  *)
LEMMA NestedParts ==
  ASSUME NEW cs, NEW to
  PROVE  Nested(cs, to) <=> /\ \A i \in DOMAIN cs : Chained(cs, to, i)
                            /\ \A i, j \in DOMAIN cs : EndsIn(cs, i, j) /\ Fits(cs, i, j)
BY DEF Nested, Chained, EndsIn, Fits

(* A cell copied is nested as it was.                                      *)
LEMMA ShiftNests ==
  ASSUME NEW c \in Intact, NEW m \in Nat
  PROVE  /\ IsKey(Shift(c, m)) <=> IsKey(c)
         /\ Opening(Shift(c, m)) = Opening(c)
         /\ c.field # NoSize => Over(Shift(c, m)) = Over(c) + m
         /\ c.at \in Nat /\ Opening(c) \in Int
         /\ c.field # NoSize => Over(c) \in Nat /\ c.at < Over(c)
<1>1. /\ Shift(c, m).kind = c.kind /\ Shift(c, m).field = c.field /\ Shift(c, m).at = c.at + m
      /\ BSize(Shift(c, m)) = BSize(c)
  BY IntactShift
<1>2. c.at \in Nat /\ c.kind \in Kinds /\ c.field \in Int
  BY DEF Intact, NoSize
<1>3. c.field # NoSize => Over(c) \in Nat /\ BSize(c) \in Nat /\ c.at < Over(c)
  BY IntactSize
<1>4. BSize(c) \in Int
  BY <1>2, KindsSized DEF BSize
<1>5. Opening(c) \in Int
  BY <1>4 DEF Opening
<1> QED
  BY <1>1, <1>2, <1>3, <1>5 DEF IsKey, Opening, Over

(* Cells one after the other and all of them before m.                     *)
Ahead(cs, m) == /\ \A i, j \in DOMAIN cs : i < j => cs[i].at < cs[j].at
                /\ \A i \in DOMAIN cs : /\ cs[i].at < m
                                        /\ cs[i].field # NoSize => Over(cs[i]) <= m

(* What is ahead of a place, for one cell.                                 *)
LEMMA AheadCell ==
  ASSUME NEW cs, NEW m, Ahead(cs, m), NEW i \in DOMAIN cs, cs[i] \in Intact
  PROVE  /\ cs[i].at \in Nat /\ cs[i].at < m /\ Opening(cs[i]) \in Int
         /\ cs[i].field # NoSize => Over(cs[i]) \in Nat /\ Over(cs[i]) <= m
<1> DEFINE c == cs[i]
<1>1. c \in Intact /\ c.at < m /\ (c.field # NoSize => Over(c) <= m)
  BY DEF Ahead
<1> HIDE DEF c
<1>2. c.at \in Nat /\ Opening(c) \in Int /\ (c.field # NoSize => Over(c) \in Nat)
  BY <1>1, ShiftNests
<1> QED
  BY <1>1, <1>2 DEF c

OpenCell(c) == c.kind \in Containers /\ c.field = NoSize

Joins(cs, new, m, all, n) ==
    /\ n = Len(cs) /\ n \in Nat /\ Len(new) \in Nat /\ Len(all) = n + Len(new)
    /\ DOMAIN cs = 1 .. n /\ DOMAIN new = 1 .. Len(new) /\ DOMAIN all = 1 .. n + Len(new)
    /\ all \in Seq(Intact)
    /\ \A i \in DOMAIN cs : i \in DOMAIN all /\ all[i] = cs[i] /\ cs[i] \in Intact
    /\ \A a \in DOMAIN new : n + a \in DOMAIN all /\ all[n + a] = Shift(new[a], m) /\ new[a] \in Intact
    /\ \A i \in DOMAIN all : i \in DOMAIN cs \/ \E a \in DOMAIN new : i = n + a

(* Cells behind cells.                                                     *)
LEMMA JoinedCells ==
  ASSUME NEW cs \in Seq(Intact), NEW new \in Seq(Intact), NEW m \in Nat
  PROVE  Joins(cs, new, m, cs \o Shifted(new, m), Len(cs))
<1> DEFINE w == Shifted(new, m)
<1>1. /\ w \in Seq(Intact) /\ Len(w) = Len(new) /\ Len(new) \in Nat
      /\ DOMAIN new = 1 .. Len(new) /\ DOMAIN w = DOMAIN new
      /\ \A i \in DOMAIN new : new[i] \in Intact /\ w[i] = Shift(new[i], m)
  BY ShiftedCells
<1>2. Len(cs) \in Nat /\ DOMAIN cs = 1 .. Len(cs) /\ \A i \in DOMAIN cs : cs[i] \in Intact
  OBVIOUS
<1> HIDE DEF w
<1>3. /\ cs \o w \in Seq(Intact) /\ Len(cs \o w) = Len(cs) + Len(w)
      /\ DOMAIN (cs \o w) = 1 .. Len(cs) + Len(w)
      /\ \A i \in 1 .. Len(cs) : (cs \o w)[i] = cs[i]
      /\ \A i \in 1 .. Len(w) : (cs \o w)[Len(cs) + i] = w[i]
  BY <1>1
<1>4. ASSUME NEW i \in 1 .. Len(cs) + Len(w) PROVE i \in 1 .. Len(cs) \/ \E a \in 1 .. Len(w) : i = Len(cs) + a
  <2>1. CASE i <= Len(cs)
    BY <1>2, <2>1
  <2>2. CASE ~(i <= Len(cs))
    <3>1. i - Len(cs) \in 1 .. Len(w) /\ i = Len(cs) + (i - Len(cs))
      BY <1>1, <1>2, <2>2
    <3> QED
      BY <3>1
  <2> QED
    BY <2>1, <2>2
<1>5. \A i \in DOMAIN cs : i \in 1 .. Len(cs) + Len(w)
  BY <1>1, <1>2
<1>6. \A a \in DOMAIN new : Len(cs) + a \in 1 .. Len(cs) + Len(w)
  BY <1>1, <1>2
<1> QED
  BY <1>1, <1>2, <1>3, <1>4, <1>5, <1>6 DEF w, Joins

(* A value written behind cells: what is in what then.                     *)
LEMMA JoinedIn ==
  ASSUME NEW cs, NEW new, NEW m \in Nat, Ahead(cs, m), NEW all, NEW n, Joins(cs, new, m, all, n)
  PROVE  /\ \A i, j \in DOMAIN cs : In(all[i], all[j]) <=> In(cs[i], cs[j])
         /\ \A a, b \in DOMAIN new : In(all[n + a], all[n + b]) <=> In(new[a], new[b])
         /\ \A a \in DOMAIN new, j \in DOMAIN cs : In(all[n + a], all[j]) <=> OpenCell(cs[j])
         /\ \A i \in DOMAIN cs, b \in DOMAIN new : ~In(all[i], all[n + b])
<1>1. /\ \A i \in DOMAIN cs : all[i] = cs[i] /\ cs[i] \in Intact
      /\ \A a \in DOMAIN new : all[n + a] = Shift(new[a], m) /\ new[a] \in Intact
  BY DEF Joins
<1>2. ASSUME NEW a \in DOMAIN new
      PROVE  /\ all[n + a].kind = new[a].kind /\ all[n + a].field = new[a].field
             /\ all[n + a].at = new[a].at + m /\ new[a].at \in Nat
             /\ new[a].field # NoSize => Over(all[n + a]) = Over(new[a]) + m /\ Over(new[a]) \in Nat
  <2>1. all[n + a] = Shift(new[a], m) /\ new[a] \in Intact
    BY <1>1
  <2> QED
    BY <2>1, IntactShift, ShiftNests
<1>3. ASSUME NEW i \in DOMAIN cs
      PROVE  /\ cs[i].at \in Nat /\ cs[i].at < m
             /\ cs[i].field # NoSize => Over(cs[i]) \in Nat /\ Over(cs[i]) <= m
  BY <1>1, AheadCell
<1>4. ASSUME NEW a \in DOMAIN new, NEW b \in DOMAIN new PROVE In(all[n + a], all[n + b]) <=> In(new[a], new[b])
  BY <1>2 DEF In
<1>5. ASSUME NEW a \in DOMAIN new, NEW j \in DOMAIN cs PROVE In(all[n + a], all[j]) <=> OpenCell(cs[j])
  <2>1. all[j] = cs[j]
    BY <1>1
  <2>2. cs[j].at < all[n + a].at /\ (cs[j].field # NoSize => ~(all[n + a].at < Over(cs[j])))
    BY <1>2, <1>3
  <2> QED
    BY <2>1, <2>2 DEF In, OpenCell
<1>6. ASSUME NEW i \in DOMAIN cs, NEW b \in DOMAIN new PROVE ~In(all[i], all[n + b])
  <2>1. all[i] = cs[i] /\ ~(all[n + b].at < cs[i].at)
    BY <1>1, <1>2, <1>3
  <2> QED
    BY <2>1 DEF In
<1>7. \A i, j \in DOMAIN cs : In(all[i], all[j]) <=> In(cs[i], cs[j])
  BY <1>1
<1> QED
  BY <1>4, <1>5, <1>6, <1>7

(* The innermost of the values without a size.                             *)
Innermost(cs, j) == /\ j \in DOMAIN cs /\ OpenCell(cs[j])
                    /\ \A k \in DOMAIN cs : OpenCell(cs[k]) => k <= j

(* What may be written behind cells: a key where there is none yet, and a  *)
(* value behind a key in an object and without one in an array.            *)
MayFollow(cs, c) ==
    /\ cs # <<>> => OpenCell(cs[1])
    /\ IsKey(c) => cs = <<>> \/ ~IsKey(cs[Len(cs)])
    /\ ~IsKey(c) => \A j : Innermost(cs, j) => (cs[j].kind = "OBJ" <=> IsKey(cs[Len(cs)]))

(* A value written where one may follow leaves all nested.                 *)
LEMMA NestedMore ==
  ASSUME NEW cs \in Seq(Intact), NEW m \in Nat, Nested(cs, m), Ahead(cs, m),
         NEW new \in Seq(Intact), new # <<>>, NEW size \in Nat, Nested(new, size), new[1].at = 0,
         MayFollow(cs, new[1])
  PROVE  Nested(cs \o Shifted(new, m), m + size)
<1> DEFINE to == m + size
<1> SUFFICES ASSUME NEW all, NEW n, Joins(cs, new, m, all, n) PROVE Nested(all, to)
  BY JoinedCells
<1>1. /\ n = Len(cs) /\ n \in Nat /\ Len(new) \in Nat /\ Len(all) = n + Len(new)
      /\ DOMAIN cs = 1 .. n /\ DOMAIN new = 1 .. Len(new) /\ DOMAIN all = 1 .. n + Len(new)
  BY DEF Joins
<1>2. /\ \A i \in DOMAIN cs : i \in DOMAIN all /\ all[i] = cs[i] /\ cs[i] \in Intact
      /\ \A a \in DOMAIN new : n + a \in DOMAIN all /\ all[n + a] = Shift(new[a], m) /\ new[a] \in Intact
      /\ \A i \in DOMAIN all : i \in DOMAIN cs \/ \E a \in DOMAIN new : i = n + a
  BY DEF Joins
<1>3. /\ \A i, j \in DOMAIN cs : In(all[i], all[j]) <=> In(cs[i], cs[j])
      /\ \A a, b \in DOMAIN new : In(all[n + a], all[n + b]) <=> In(new[a], new[b])
      /\ \A a \in DOMAIN new, j \in DOMAIN cs : In(all[n + a], all[j]) <=> OpenCell(cs[j])
      /\ \A i \in DOMAIN cs, b \in DOMAIN new : ~In(all[i], all[n + b])
  BY JoinedIn
<1>4. 1 \in DOMAIN new /\ (cs # <<>> => 1 \in DOMAIN cs /\ n \in DOMAIN cs) /\ (cs = <<>> <=> n = 0)
  BY <1>1, EmptySeq
<1>5. ASSUME NEW a \in DOMAIN new
      PROVE  /\ all[n + a].kind = new[a].kind /\ all[n + a].field = new[a].field
             /\ all[n + a].at = new[a].at + m /\ new[a].at \in Nat
             /\ IsKey(all[n + a]) <=> IsKey(new[a])
             /\ Opening(all[n + a]) = Opening(new[a]) /\ Opening(new[a]) \in Int
             /\ new[a].field # NoSize => Over(all[n + a]) = Over(new[a]) + m /\ Over(new[a]) \in Nat
  <2>1. all[n + a] = Shift(new[a], m) /\ new[a] \in Intact
    BY <1>2
  <2> DEFINE c == new[a]
             d == Shift(c, m)
  <2>2. c \in Intact
    BY <2>1
  <2> HIDE DEF c
  <2>3. d.kind = c.kind /\ d.field = c.field /\ d.at = c.at + m
    BY <2>2, IntactShift
  <2>4. /\ IsKey(d) <=> IsKey(c)
        /\ Opening(d) = Opening(c) /\ c.at \in Nat /\ Opening(c) \in Int
        /\ c.field # NoSize => Over(d) = Over(c) + m /\ Over(c) \in Nat
    BY <2>2, ShiftNests
  <2> HIDE DEF d
  <2>5. all[n + a] = d
    BY <2>1 DEF c, d
  <2> QED
    BY <2>3, <2>4, <2>5 DEF c
<1>6. ASSUME NEW i \in DOMAIN cs
      PROVE  /\ cs[i].at \in Nat /\ cs[i].at < m /\ Opening(cs[i]) \in Int
             /\ cs[i].field # NoSize => Over(cs[i]) \in Nat /\ Over(cs[i]) <= m
  BY <1>2, AheadCell
<1>7. /\ \A i \in DOMAIN cs : Chained(cs, m, i)
      /\ \A i, j \in DOMAIN cs : EndsIn(cs, i, j) /\ Fits(cs, i, j)
      /\ \A a \in DOMAIN new : Chained(new, size, a)
      /\ \A a, b \in DOMAIN new : EndsIn(new, a, b) /\ Fits(new, a, b)
  BY NestedParts
<1>8. ASSUME NEW i \in DOMAIN cs PROVE Chained(all, to, i)
  <2>1. Chained(cs, m, i) /\ all[i] = cs[i]
    BY <1>2, <1>7
  <2>2. cs[i].at + Opening(cs[i]) = IF i = Len(all) THEN to ELSE all[i + 1].at
    <3>1. i # Len(all)
      BY <1>1, <1>4
    <3>2. CASE i = n
      <4>1. cs[i].at + Opening(cs[i]) = m
        BY <1>1, <2>1, <3>2 DEF Chained
      <4>2. all[i + 1].at = m
        BY <1>4, <1>5, <3>2
      <4> QED
        BY <3>1, <4>1, <4>2
    <3>3. CASE i # n
      <4>1. i + 1 \in DOMAIN cs
        BY <1>1, <3>3
      <4>2. all[i + 1] = cs[i + 1]
        BY <1>2, <4>1
      <4> QED
        BY <1>1, <2>1, <3>1, <3>3, <4>2 DEF Chained
    <3> QED
      BY <3>2, <3>3
  <2>3. i = 1 \/ In(all[i], all[1])
    <3>1. 1 \in DOMAIN cs
      BY <1>1
    <3> QED
      BY <1>3, <2>1, <3>1 DEF Chained
  <2>4. cs[i].field # NoSize => Over(cs[i]) <= to
    BY <1>6
  <2> QED
    BY <2>1, <2>2, <2>3, <2>4 DEF Chained
<1>9. ASSUME NEW a \in DOMAIN new PROVE Chained(all, to, n + a)
  <2>1. Chained(new, size, a)
    BY <1>7
  <2>2. all[n + a].at + Opening(all[n + a]) = IF n + a = Len(all) THEN to ELSE all[n + a + 1].at
    <3>1. all[n + a].at + Opening(all[n + a]) = new[a].at + Opening(new[a]) + m
      BY <1>5
    <3>2. CASE a = Len(new)
      <4>1. new[a].at + Opening(new[a]) = size
        BY <2>1, <3>2 DEF Chained
      <4>2. n + a = Len(all)
        BY <1>1, <3>2
      <4> QED
        BY <3>1, <4>1, <4>2
    <3>3. CASE a # Len(new)
      <4>1. a + 1 \in DOMAIN new /\ n + a # Len(all) /\ n + (a + 1) = n + a + 1
        BY <1>1, <3>3
      <4>2. new[a].at + Opening(new[a]) = new[a + 1].at
        BY <2>1, <3>3 DEF Chained
      <4>3. all[n + a + 1].at = new[a + 1].at + m
        BY <1>5, <4>1
      <4> QED
        BY <3>1, <4>1, <4>2, <4>3
    <3> QED
      BY <3>2, <3>3
  <2>3. n + a = 1 \/ In(all[n + a], all[1])
    <3>1. CASE cs = <<>>
      <4>1. n = 0 /\ n + a = a /\ n + 1 = 1
        BY <1>1, <1>4, <3>1
      <4>2. a = 1 \/ In(new[a], new[1])
        BY <2>1 DEF Chained
      <4>3. In(all[n + a], all[n + 1]) <=> In(new[a], new[1])
        BY <1>3, <1>4
      <4> QED
        BY <4>1, <4>2, <4>3
    <3>2. CASE cs # <<>>
      BY <1>3, <1>4, <3>2 DEF MayFollow
    <3> QED
      BY <3>1, <3>2
  <2>4. all[n + a].field # NoSize => Over(all[n + a]) <= to
    <3> SUFFICES ASSUME all[n + a].field # NoSize PROVE Over(all[n + a]) <= to
      OBVIOUS
    <3>1. Over(new[a]) <= size
      BY <1>5, <2>1 DEF Chained
    <3>2. Over(all[n + a]) = Over(new[a]) + m /\ Over(new[a]) \in Nat
      BY <1>5
    <3> QED
      BY <3>1, <3>2
  <2> QED
    BY <2>2, <2>3, <2>4 DEF Chained
<1>10. ASSUME NEW i \in DOMAIN cs, NEW j \in DOMAIN cs PROVE EndsIn(all, i, j) /\ Fits(all, i, j)
  <2>1. EndsIn(cs, i, j) /\ Fits(cs, i, j) /\ all[i] = cs[i] /\ all[j] = cs[j]
    BY <1>2, <1>7
  <2>2. EndsIn(all, i, j)
    BY <1>3, <2>1 DEF EndsIn
  <2>3. ASSUME Parent(all, i, j) PROVE Parent(cs, i, j) /\ all[i - 1] = cs[i - 1]
    <3>1. In(cs[i], cs[j]) /\ \A k \in DOMAIN all : In(all[i], all[k]) => k <= j
      BY <1>3, <2>3 DEF Parent
    <3>2. \A k \in DOMAIN cs : In(cs[i], cs[k]) => k <= j
      BY <1>2, <1>3, <3>1
    <3>3. i # 1
      <4> SUFFICES ASSUME i = 1 PROVE FALSE
        OBVIOUS
      <4>1. cs[j].at < cs[1].at
        BY <3>1 DEF In
      <4>2. j # 1 => In(cs[j], cs[1])
        BY <1>7 DEF Chained
      <4>3. j # 1 => cs[1].at < cs[j].at
        BY <4>2 DEF In
      <4>4. 1 \in DOMAIN cs
        BY <1>1
      <4> QED
        BY <1>6, <4>1, <4>3, <4>4
    <3>4. i - 1 \in DOMAIN cs
      BY <1>1, <3>3
    <3> QED
      BY <1>2, <3>1, <3>2, <3>4 DEF Parent
  <2> QED
    BY <2>1, <2>2, <2>3 DEF Fits
<1>11. ASSUME NEW i \in DOMAIN cs, NEW b \in DOMAIN new PROVE EndsIn(all, i, n + b) /\ Fits(all, i, n + b)
  <2>1. ~In(all[i], all[n + b])
    BY <1>3
  <2>2. EndsIn(all, i, n + b)
    BY <2>1 DEF EndsIn
  <2>3. ASSUME IsKey(all[i]), n + b = i + 1 PROVE ~IsKey(all[n + b])
    <3>1. i = n /\ b = 1 /\ cs # <<>>
      BY <1>1, <1>4, <2>3
    <3>2. IsKey(cs[Len(cs)])
      BY <1>1, <1>2, <2>3, <3>1
    <3>3. ~IsKey(new[1])
      BY <3>1, <3>2 DEF MayFollow
    <3> QED
      BY <1>4, <1>5, <3>1, <3>3
  <2> QED
    BY <2>1, <2>2, <2>3 DEF Fits, Parent
<1>12. ASSUME NEW a \in DOMAIN new, NEW b \in DOMAIN new PROVE EndsIn(all, n + a, n + b) /\ Fits(all, n + a, n + b)
  <2>1. EndsIn(new, a, b) /\ Fits(new, a, b) /\ (In(all[n + a], all[n + b]) <=> In(new[a], new[b]))
    BY <1>3, <1>7
  <2>2. EndsIn(all, n + a, n + b)
    <3> SUFFICES ASSUME all[n + b].field # NoSize, In(all[n + a], all[n + b])
                 PROVE  /\ all[n + a].field # NoSize
                        /\ IF IsKey(all[n + a]) THEN Over(all[n + a]) < Over(all[n + b])
                           ELSE Over(all[n + a]) <= Over(all[n + b])
      BY DEF EndsIn
    <3>1. new[b].field # NoSize /\ In(new[a], new[b])
      BY <1>5, <2>1
    <3>2. new[a].field # NoSize /\ (IF IsKey(new[a]) THEN Over(new[a]) < Over(new[b]) ELSE Over(new[a]) <= Over(new[b]))
      BY <2>1, <3>1 DEF EndsIn
    <3> QED
      BY <1>5, <3>1, <3>2
  <2>3. ASSUME IsKey(all[n + a]), n + b = n + a + 1 PROVE ~IsKey(all[n + b])
    <3>1. IsKey(new[a]) /\ b = a + 1
      BY <1>1, <1>5, <2>3
    <3> QED
      BY <1>5, <2>1, <3>1 DEF Fits
  <2>4. ASSUME ~IsKey(all[n + a]), Parent(all, n + a, n + b)
        PROVE  all[n + b].kind = "OBJ" <=> IsKey(all[(n + a) - 1])
    <3>1. In(new[a], new[b]) /\ \A k \in DOMAIN all : In(all[n + a], all[k]) => k <= n + b
      BY <2>1, <2>4 DEF Parent
    <3>2. ASSUME NEW k \in DOMAIN new, In(new[a], new[k]) PROVE k <= b
      <4>1. n + k \in DOMAIN all /\ In(all[n + a], all[n + k])
        BY <1>2, <1>3, <3>2
      <4>2. n + k <= n + b
        BY <3>1, <4>1
      <4> QED
        BY <1>1, <4>2
    <3>3. a # 1
      <4>1. new[b].at < new[a].at /\ new[b].at \in Nat
        BY <1>5, <3>1 DEF In
      <4> QED
        BY <4>1
    <3>4. a - 1 \in DOMAIN new /\ n + (a - 1) = (n + a) - 1
      BY <1>1, <3>3
    <3>5. Parent(new, a, b) /\ ~IsKey(new[a])
      BY <1>5, <2>4, <3>1, <3>2 DEF Parent
    <3>6. new[b].kind = "OBJ" <=> IsKey(new[a - 1])
      BY <2>1, <3>5 DEF Fits
    <3>7. all[n + b].kind = new[b].kind /\ (IsKey(all[n + (a - 1)]) <=> IsKey(new[a - 1]))
      BY <1>5, <3>4
    <3> QED
      BY <3>4, <3>6, <3>7
  <2>5. Fits(all, n + a, n + b)
    BY <2>3, <2>4, Zenon DEF Fits
  <2> QED
    BY <2>2, <2>5
<1>13. ASSUME NEW a \in DOMAIN new, NEW j \in DOMAIN cs PROVE EndsIn(all, n + a, j) /\ Fits(all, n + a, j)
  <2>1. (In(all[n + a], all[j]) <=> OpenCell(cs[j])) /\ all[j] = cs[j]
    BY <1>2, <1>3
  <2>2. EndsIn(all, n + a, j)
    BY <2>1 DEF EndsIn, OpenCell
  <2>3. j # n + a + 1
    BY <1>1
  <2>4. ASSUME ~IsKey(all[n + a]), Parent(all, n + a, j)
        PROVE  all[j].kind = "OBJ" <=> IsKey(all[(n + a) - 1])
    <3>1. OpenCell(cs[j]) /\ \A k \in DOMAIN all : In(all[n + a], all[k]) => k <= j
      BY <2>1, <2>4 DEF Parent
    <3>2. a = 1
      <4> SUFFICES ASSUME a # 1 PROVE FALSE
        OBVIOUS
      <4>1. In(new[a], new[1])
        BY <1>7 DEF Chained
      <4>2. In(all[n + a], all[n + 1]) /\ n + 1 \in DOMAIN all
        BY <1>2, <1>3, <1>4, <4>1
      <4>3. n + 1 <= j
        BY <3>1, <4>2
      <4> QED
        BY <1>1, <4>3
    <3>3. \A k \in DOMAIN cs : OpenCell(cs[k]) => k <= j
      BY <1>2, <1>3, <3>1
    <3>4. Innermost(cs, j)
      BY <3>1, <3>3 DEF Innermost
    <3>5. ~IsKey(new[1]) /\ (n + a) - 1 = n /\ n \in DOMAIN cs
      <4>1. ~IsKey(new[1])
        BY <1>5, <2>4, <3>2
      <4> QED
        BY <1>1, <3>2, <4>1
    <3>6. cs[j].kind = "OBJ" <=> IsKey(cs[Len(cs)])
      BY <3>4, <3>5 DEF MayFollow
    <3>7. all[(n + a) - 1] = cs[Len(cs)]
      BY <1>1, <1>2, <3>5
    <3> QED
      BY <2>1, <3>6, <3>7
  <2>5. IsKey(all[n + a]) /\ j = n + a + 1 => ~IsKey(all[j])
    BY <2>3
  <2>6. ~IsKey(all[n + a]) /\ Parent(all, n + a, j) => (all[j].kind = "OBJ" <=> IsKey(all[(n + a) - 1]))
    BY <2>4
  <2>7. Fits(all, n + a, j)
    BY <2>5, <2>6, Zenon DEF Fits
  <2> QED
    BY <2>2, <2>7
<1>14. \A i \in DOMAIN all : Chained(all, to, i)
  BY <1>2, <1>8, <1>9
<1>15. \A i, j \in DOMAIN all : EndsIn(all, i, j) /\ Fits(all, i, j)
  <2> SUFFICES ASSUME NEW i \in DOMAIN all, NEW j \in DOMAIN all PROVE EndsIn(all, i, j) /\ Fits(all, i, j)
    OBVIOUS
  <2> QED
    BY <1>2, <1>10, <1>11, <1>12, <1>13
<1> HIDE DEF to
<1> QED
  BY <1>14, <1>15, NestedParts
-----------------------------------------------------------------------------
(* A last cell that is no key.                                             *)
Settled(cs) == cs # <<>> => ~IsKey(cs[Len(cs)])

(* A cell and the one it is after the values at A have got their sizes.    *)
Seals(cs, A, m, all, i) ==
    /\ all[i].kind = cs[i].kind /\ all[i].at = cs[i].at
    /\ cs[i].at \in A => all[i].field # NoSize /\ Over(all[i]) = m
    /\ cs[i].at \notin A => all[i] = cs[i]
    /\ Opening(all[i]) = Opening(cs[i])
    /\ IsKey(all[i]) <=> IsKey(cs[i])

(* What may be closed: values without a size, and with each all in it.     *)
MayClose(cs, A, m) ==
    /\ \A i \in DOMAIN cs : cs[i].at \in A => OpenCell(cs[i]) /\ cs[i].at + 5 <= m
    /\ \A i, j \in DOMAIN cs : i < j /\ cs[i].at \in A /\ cs[j].field = NoSize => cs[j].at \in A

(* Closing writes sizes and nothing else.                                  *)
LEMMA SealsAre ==
  ASSUME NEW cs \in Seq(Intact), NEW m \in Nat, NEW A, MayClose(cs, A, m)
  PROVE  /\ Len(Sealed(cs, A, m)) = Len(cs) /\ DOMAIN Sealed(cs, A, m) = DOMAIN cs
         /\ \A i \in DOMAIN cs : Seals(cs, A, m, Sealed(cs, A, m), i)
         /\ DOMAIN cs = 1 .. Len(cs) /\ Len(cs) \in Nat
<1> DEFINE new(c) == [c EXCEPT !.field = m - c.at - 5]
           all == Sealed(cs, A, m)
<1>1. Len(cs) \in Nat /\ DOMAIN cs = 1 .. Len(cs) /\ \A i \in DOMAIN cs : cs[i] \in Intact
  OBVIOUS
<1>2. all = [i \in DOMAIN cs |-> IF cs[i].at \in A THEN new(cs[i]) ELSE cs[i]]
  BY DEF Sealed
<1>3. ASSUME NEW c \in Intact, OpenCell(c), c.at + 5 <= m
      PROVE  /\ new(c).kind = c.kind /\ new(c).at = c.at /\ new(c).field # NoSize
             /\ Over(new(c)) = m /\ Opening(new(c)) = Opening(c) /\ (IsKey(new(c)) <=> IsKey(c))
  <2>1. c.at \in Nat /\ m - c.at - 5 \in Nat /\ c.kind \in Containers
    BY <1>3, IntactSize DEF OpenCell
  <2> DEFINE k == m - c.at - 5
             d == [c EXCEPT !.field = k]
  <2>2. k \in Nat /\ c.at + (5 + k) = m
    BY <2>1
  <2> HIDE DEF k
  <2>3. d \in Intact /\ d.kind = c.kind /\ d.at = c.at /\ d.field = k
    BY <2>2 DEF Intact
  <2> HIDE DEF d
  <2>4. BSize(d) = 5 + k
    BY <2>1, <2>3, IntactSize
  <2>5. Over(d) = m /\ Opening(d) = Opening(c) /\ (IsKey(d) <=> IsKey(c)) /\ d.field # NoSize
    BY <2>1, <2>2, <2>3, <2>4 DEF Over, Opening, IsKey, NoSize
  <2>6. new(c) = d
    BY DEF d, k
  <2> HIDE DEF new
  <2> QED
    BY <2>3, <2>5, <2>6
<1> HIDE DEF new, all
<1>4. DOMAIN all = DOMAIN cs
  BY <1>2
<1>5. Len(all) = Len(cs)
  BY <1>1, <1>2
<1>6. ASSUME NEW i \in DOMAIN cs PROVE Seals(cs, A, m, all, i)
  <2>1. CASE cs[i].at \in A
    <3>1. all[i] = new(cs[i]) /\ OpenCell(cs[i]) /\ cs[i].at + 5 <= m
      BY <1>2, <2>1 DEF MayClose
    <3> QED
      BY <1>1, <1>3, <2>1, <3>1 DEF Seals
  <2>2. CASE cs[i].at \notin A
    <3>1. all[i] = cs[i]
      BY <1>2, <2>2
    <3> QED
      BY <2>2, <3>1 DEF Seals
  <2> QED
    BY <2>1, <2>2
<1> QED
  BY <1>1, <1>4, <1>5, <1>6 DEF all

(* Closed values, the innermost first, are nested as they were.            *)
LEMMA NestedClosed ==
  ASSUME NEW cs \in Seq(Intact), NEW m \in Nat, Nested(cs, m), Ahead(cs, m), Settled(cs),
         NEW A, MayClose(cs, A, m)
  PROVE  Nested(Sealed(cs, A, m), m)
<1> SUFFICES ASSUME NEW all, Len(all) = Len(cs), DOMAIN all = DOMAIN cs,
                    \A i \in DOMAIN cs : Seals(cs, A, m, all, i)
             PROVE  Nested(all, m)
  BY SealsAre
<1>1. DOMAIN cs = 1 .. Len(cs) /\ Len(cs) \in Nat /\ \A i \in DOMAIN cs : cs[i] \in Intact
  OBVIOUS
<1>2. /\ \A i \in DOMAIN cs : Chained(cs, m, i)
      /\ \A i, j \in DOMAIN cs : EndsIn(cs, i, j) /\ Fits(cs, i, j)
  BY NestedParts
<1>3. ASSUME NEW i \in DOMAIN cs
      PROVE  /\ cs[i].at \in Nat /\ cs[i].at < m /\ (cs[i].at \in A => OpenCell(cs[i]))
             /\ cs[i].field # NoSize => Over(cs[i]) \in Nat /\ Over(cs[i]) <= m
  BY <1>1, AheadCell DEF MayClose
<1>4. ASSUME NEW i \in DOMAIN cs, NEW j \in DOMAIN cs PROVE In(all[i], all[j]) <=> In(cs[i], cs[j])
  <2>1. Seals(cs, A, m, all, i) /\ Seals(cs, A, m, all, j)
    OBVIOUS
  <2>2. all[i].at = cs[i].at /\ all[j].at = cs[j].at /\ all[j].kind = cs[j].kind
    BY <2>1 DEF Seals
  <2>3. CASE cs[j].at \in A
    <3>1. Over(all[j]) = m /\ cs[j].field = NoSize
      BY <1>3, <2>1, <2>3 DEF Seals, OpenCell
    <3> QED
      BY <1>3, <2>2, <3>1 DEF In
  <2>4. CASE cs[j].at \notin A
    <3>1. all[j] = cs[j]
      BY <2>1, <2>4 DEF Seals
    <3> QED
      BY <2>2, <3>1 DEF In
  <2> QED
    BY <2>3, <2>4
<1>5. ASSUME NEW i \in DOMAIN cs PROVE Chained(all, m, i)
  <2>1. Chained(cs, m, i) /\ Seals(cs, A, m, all, i)
    BY <1>2
  <2>2. all[i].at + Opening(all[i]) = IF i = Len(all) THEN m ELSE all[i + 1].at
    <3>1. all[i].at + Opening(all[i]) = IF i = Len(cs) THEN m ELSE cs[i + 1].at
      BY <2>1 DEF Chained, Seals
    <3>2. i # Len(cs) => i + 1 \in DOMAIN cs
      BY <1>1
    <3>3. i # Len(cs) => all[i + 1].at = cs[i + 1].at
      BY <3>2 DEF Seals
    <3> QED
      BY <3>1, <3>3
  <2>3. i = 1 \/ In(all[i], all[1])
    <3>1. 1 \in DOMAIN cs
      BY <1>1
    <3> QED
      BY <1>4, <2>1, <3>1 DEF Chained
  <2>4. all[i].field # NoSize => Over(all[i]) <= m
    <3>1. CASE cs[i].at \in A
      BY <2>1, <3>1 DEF Seals
    <3>2. CASE cs[i].at \notin A
      BY <1>3, <2>1, <3>2 DEF Seals
    <3> QED
      BY <3>1, <3>2
  <2> QED
    BY <2>2, <2>3, <2>4 DEF Chained
<1>6. ASSUME NEW i \in DOMAIN cs, NEW j \in DOMAIN cs PROVE EndsIn(all, i, j)
  <2> SUFFICES ASSUME all[j].field # NoSize, In(all[i], all[j])
               PROVE  /\ all[i].field # NoSize
                      /\ IF IsKey(all[i]) THEN Over(all[i]) < Over(all[j]) ELSE Over(all[i]) <= Over(all[j])
    BY DEF EndsIn
  <2>1. Seals(cs, A, m, all, i) /\ Seals(cs, A, m, all, j) /\ In(cs[i], cs[j])
    BY <1>4
  <2>2. CASE cs[j].at \notin A
    <3>1. all[j] = cs[j] /\ cs[j].field # NoSize
      BY <2>1, <2>2 DEF Seals
    <3>2. cs[i].field # NoSize /\ (IF IsKey(cs[i]) THEN Over(cs[i]) < Over(cs[j]) ELSE Over(cs[i]) <= Over(cs[j]))
      BY <1>2, <2>1, <3>1 DEF EndsIn
    <3>3. cs[i].at \notin A
      BY <1>3, <3>2 DEF OpenCell
    <3>4. all[i] = cs[i]
      BY <2>1, <3>3 DEF Seals
    <3> QED
      BY <3>1, <3>2, <3>4
  <2>3. CASE cs[j].at \in A
    <3>1. Over(all[j]) = m
      BY <2>1, <2>3 DEF Seals
    <3>2. CASE cs[i].at \in A
      <4>1. all[i].field # NoSize /\ Over(all[i]) = m /\ ~IsKey(all[i])
        BY <1>3, <2>1, <3>2 DEF Seals, OpenCell, IsKey, Containers
      <4> QED
        BY <3>1, <4>1
    <3>3. CASE cs[i].at \notin A
      <4>1. all[i] = cs[i]
        BY <2>1, <3>3 DEF Seals
      <4>2. cs[i].field # NoSize
        <5>1. j < i
          <6>1. cs[j].at < cs[i].at
            BY <2>1 DEF In
          <6>2. ~(i < j) /\ i # j
            BY <1>3, <6>1 DEF Ahead
          <6> QED
            BY <1>1, <6>2
        <5> QED
          BY <2>3, <3>3, <5>1 DEF MayClose
      <4>3. Over(cs[i]) <= m
        BY <1>3, <4>2
      <4>4. ASSUME IsKey(cs[i]) PROVE Over(cs[i]) < m
        <5>1. i # Len(cs)
          BY <1>1, <4>4, EmptySeq DEF Settled
        <5>2. cs[i].at + Opening(cs[i]) = cs[i + 1].at
          BY <1>2, <5>1 DEF Chained
        <5>3. i + 1 \in DOMAIN cs
          BY <1>1, <5>1
        <5>4. cs[i + 1].at < m
          BY <1>3, <5>3
        <5>5. Over(cs[i]) = cs[i].at + Opening(cs[i])
          BY <4>4 DEF Over, Opening, IsKey, Containers
        <5> QED
          BY <5>2, <5>4, <5>5
      <4> QED
        BY <3>1, <4>1, <4>2, <4>3, <4>4
    <3> QED
      BY <3>2, <3>3
  <2> QED
    BY <2>2, <2>3
<1>7. ASSUME NEW i \in DOMAIN cs, NEW j \in DOMAIN cs PROVE Fits(all, i, j)
  <2>1. Fits(cs, i, j) /\ Seals(cs, A, m, all, i) /\ Seals(cs, A, m, all, j)
    BY <1>2
  <2>2. IsKey(all[i]) /\ j = i + 1 => ~IsKey(all[j])
    BY <2>1 DEF Fits, Seals
  <2>3. ASSUME ~IsKey(all[i]), Parent(all, i, j) PROVE all[j].kind = "OBJ" <=> IsKey(all[i - 1])
    <3>1. In(cs[i], cs[j]) /\ \A k \in DOMAIN cs : In(cs[i], cs[k]) => k <= j
      BY <1>4, <2>3 DEF Parent
    <3>2. ~IsKey(cs[i]) /\ Parent(cs, i, j)
      BY <2>1, <2>3, <3>1 DEF Parent, Seals
    <3>3. cs[j].kind = "OBJ" <=> IsKey(cs[i - 1])
      BY <2>1, <3>2 DEF Fits
    <3>4. i # 1
      <4> SUFFICES ASSUME i = 1 PROVE FALSE
        OBVIOUS
      <4>1. cs[j].at < cs[1].at
        BY <3>1 DEF In
      <4>2. j # 1 => In(cs[j], cs[1])
        BY <1>2 DEF Chained
      <4>3. j # 1 => cs[1].at < cs[j].at
        BY <4>2 DEF In
      <4>4. 1 \in DOMAIN cs
        BY <1>1
      <4> QED
        BY <1>3, <4>1, <4>3, <4>4
    <3>5. i - 1 \in DOMAIN cs
      BY <1>1, <3>4
    <3>6. all[j].kind = cs[j].kind /\ (IsKey(all[i - 1]) <=> IsKey(cs[i - 1]))
      BY <2>1, <3>5 DEF Seals
    <3> QED
      BY <3>3, <3>6
  <2>4. ~IsKey(all[i]) /\ Parent(all, i, j) => (all[j].kind = "OBJ" <=> IsKey(all[i - 1]))
    BY <2>3
  <2> QED
    BY <2>2, <2>4, Zenon DEF Fits
<1> QED
  BY <1>5, <1>6, <1>7, NestedParts

(* A cell with its size, or an object or array opened, is nested.          *)
LEMMA CellNested ==
  ASSUME NEW c \in Intact, c.at = 0, c.kind \notin Containers \/ c.field = NoSize
  PROVE  Nested(<<c>>, Opening(c))
<1> DEFINE cs == <<c>>
           to == Opening(c)
<1>1. /\ DOMAIN cs = {1} /\ Len(cs) = 1 /\ cs[1] = c
      /\ Opening(c) \in Int /\ 0 + Opening(c) = Opening(c)
  BY ShiftNests
<1> HIDE DEF cs, to
<1>2. ~In(c, c)
  BY <1>1 DEF In
<1>3. c.field # NoSize => Over(c) <= to
  BY <1>1 DEF Over, Opening, to
<1>4. \A i \in DOMAIN cs : Chained(cs, to, i)
  BY <1>1, <1>3 DEF Chained, to
<1>5. \A i, j \in DOMAIN cs : EndsIn(cs, i, j) /\ Fits(cs, i, j)
  BY <1>1, <1>2 DEF EndsIn, Fits, Parent
<1>6. Nested(cs, to)
  BY <1>4, <1>5, NestedParts
<1> QED
  BY <1>6 DEF cs, to

(* The last cell of a whole value is no key.                               *)
LEMMA ValueSettled ==
  ASSUME NEW cs \in Seq(Intact), cs # <<>>, \A i \in DOMAIN cs : cs[i].field # NoSize,
         cs[1].at = 0, ~IsKey(cs[1]), Nested(cs, BSize(cs[1]))
  PROVE  Settled(cs)
<1> DEFINE n == Len(cs)
<1>1. n \in DOMAIN cs /\ 1 \in DOMAIN cs /\ cs[n] \in Intact /\ cs[1] \in Intact
  OBVIOUS
<1> SUFFICES ASSUME IsKey(cs[n]) PROVE FALSE
  BY DEF Settled
<1>2. n # 1
  OBVIOUS
<1>3. Chained(cs, BSize(cs[1]), n) /\ EndsIn(cs, n, 1)
  BY <1>1, NestedParts
<1>4. cs[n].at + Opening(cs[n]) = BSize(cs[1]) /\ In(cs[n], cs[1])
  BY <1>2, <1>3 DEF Chained
<1>5. Over(cs[n]) < Over(cs[1])
  BY <1>1, <1>3, <1>4 DEF EndsIn
<1>6. Over(cs[1]) = BSize(cs[1]) /\ Over(cs[1]) \in Nat
  BY <1>1, IntactSize DEF Over
<1>7. Over(cs[n]) = cs[n].at + Opening(cs[n])
  BY DEF Over, Opening, IsKey, Containers
<1> QED
  BY <1>4, <1>5, <1>6, <1>7
-----------------------------------------------------------------------------
(* What is built is nested, its first cell the root; a message taken is a  *)
(* whole tree.                                                             *)
Rooted(cs) == cs # <<>> => cs[1].at = Id /\ ~IsKey(cs[1])
Nesting == msg = <<>> /\ Whole(cells) => Nested(cells, cur) /\ Settled(cells) /\ Rooted(cells)
TreeTaken == msg # <<>> => 1 \in DOMAIN msg /\ (msg[1].kind # "JUNK" => Tree(msg))

(* The cells without a size are those on the stack.                        *)
LEMMA GrownCells ==
  ASSUME IInv, NEW cs, NEW called, NEW size, NEW r, Grown(cs, called, size, stack, opened, r)
  PROVE  /\ cs \in Seq(Intact) /\ size \in Nat
         /\ \A i, j \in DOMAIN cs : i < j => cs[i].at < cs[j].at
         /\ \A i \in DOMAIN cs : cs[i].at < size
         /\ \A i \in DOMAIN cs : cs[i].field = NoSize =>
               OpenCell(cs[i]) /\ \E d \in DOMAIN stack : cs[i].at = stack[d]
         /\ \A i \in DOMAIN cs : \A d \in DOMAIN stack :
               cs[i].at = stack[d] => OpenCell(cs[i]) /\ cs[i].kind = opened[d]
         /\ \A d \in DOMAIN stack : \E i \in DOMAIN cs : cs[i].at = stack[d]
<1> DEFINE open == r[Len(called)].open
<1>1. /\ cs \in Seq(Intact) /\ OpenAre(cs, open, stack, opened)
      /\ Laid(cs, Id, size)
  BY DEF Grown, Walk
<1>2. stack \in Seq(Nat) /\ opened \in Seq(Containers) /\ Len(opened) = Len(stack)
  BY DEF IInv, BuilderTypes
<1>3. Ended(cs, called, size, stack, open)
  BY <1>2, GrownEnd
<1> HIDE DEF open
<1>4. /\ size \in Nat
      /\ \A d \in DOMAIN stack : /\ open[d] \in DOMAIN cs /\ cs[open[d]].at = stack[d]
                                 /\ cs[open[d]].kind = opened[d] /\ cs[open[d]].field = NoSize
                                 /\ opened[d] \in Containers
  BY <1>1, <1>2, <1>3 DEF Ended, OpenAre
<1>5. ASSUME NEW i \in DOMAIN cs, cs[i].field = NoSize
      PROVE  OpenCell(cs[i]) /\ \E d \in DOMAIN stack : cs[i].at = stack[d]
  <2>1. PICK d \in DOMAIN stack : open[d] = i
    BY <1>1, <1>5 DEF OpenAre
  <2> QED
    BY <1>4, <2>1 DEF OpenCell
<1>6. ASSUME NEW i \in DOMAIN cs, NEW j \in DOMAIN cs, cs[i].at = cs[j].at PROVE i = j
  <2>1. i \in Nat /\ j \in Nat /\ cs[i].at \in Nat
    BY <1>1, IntactSize
  <2>2. ~(i < j) /\ ~(j < i)
    BY <1>1, <1>6, <2>1 DEF Laid
  <2> QED
    BY <2>1, <2>2
<1>7. ASSUME NEW i \in DOMAIN cs, NEW d \in DOMAIN stack, cs[i].at = stack[d]
      PROVE  OpenCell(cs[i]) /\ cs[i].kind = opened[d]
  <2>1. i = open[d]
    BY <1>4, <1>6, <1>7
  <2> QED
    BY <1>4, <2>1 DEF OpenCell
<1>8. /\ \A i, j \in DOMAIN cs : i < j => cs[i].at < cs[j].at
      /\ \A i \in DOMAIN cs : cs[i].at < size
  BY <1>1 DEF Laid
<1>9. \A d \in DOMAIN stack : \E i \in DOMAIN cs : cs[i].at = stack[d]
  BY <1>4
<1> QED
  BY <1>1, <1>4, <1>5, <1>7, <1>8, <1>9

(* All that is built lies before cur.                                      *)
LEMMA GrownAhead ==
  ASSUME IInv, NEW cs, NEW called, NEW size, NEW r, Grown(cs, called, size, stack, opened, r), Nested(cs, size)
  PROVE  Ahead(cs, size)
<1>1. /\ \A i, j \in DOMAIN cs : i < j => cs[i].at < cs[j].at
      /\ \A i \in DOMAIN cs : cs[i].at < size
  BY GrownCells
<1>2. \A i \in DOMAIN cs : cs[i].field # NoSize => Over(cs[i]) <= size
  BY NestedParts DEF Chained
<1> QED
  BY <1>1, <1>2 DEF Ahead

(* A call that may push finds what it may follow.                          *)
LEMMA KeyFits ==
  ASSUME IInv, Walkable, Nesting, msg = <<>>, Whole(cells), NEW key, MayPush(key)
  PROVE  /\ cells \in Seq(Intact) /\ cur \in Nat /\ Ahead(cells, cur) /\ Nested(cells, cur)
         /\ Settled(cells) /\ Rooted(cells)
         /\ cells # <<>> => OpenCell(cells[1])
         /\ cells = <<>> => key = NoKey /\ cur = Id
         /\ \A j : Innermost(cells, j) => (cells[j].kind = "OBJ" <=> key # NoKey)
<1>1. PICK r : Grown(cells, calls, cur, stack, opened, r)
  BY DEF Walkable
<1>2. Nested(cells, cur) /\ Settled(cells) /\ Rooted(cells)
  BY DEF Nesting
<1>3. Ahead(cells, cur)
  BY <1>1, <1>2, GrownAhead
<1>4. /\ cells \in Seq(Intact) /\ cur \in Nat
      /\ \A i, j \in DOMAIN cells : i < j => cells[i].at < cells[j].at
      /\ \A i \in DOMAIN cells : cells[i].field = NoSize =>
            OpenCell(cells[i]) /\ \E d \in DOMAIN stack : cells[i].at = stack[d]
      /\ \A i \in DOMAIN cells : \A d \in DOMAIN stack :
            cells[i].at = stack[d] => OpenCell(cells[i]) /\ cells[i].kind = opened[d]
      /\ \A d \in DOMAIN stack : \E i \in DOMAIN cells : cells[i].at = stack[d]
  BY <1>1, GrownCells
<1>5. stack = <<>> => cells = <<>> /\ cur = Id /\ key = NoKey
  BY RootPush
<1>6. cells = <<>> => stack = <<>>
  BY DEF IInv, RootInv
<1>7. ASSUME cells # <<>> PROVE OpenCell(cells[1])
  <2>1. stack # <<>> /\ 1 \in DOMAIN cells
    BY <1>4, <1>5, <1>7
  <2>2. stack[1] = Id /\ cells[1].at = Id /\ 1 \in DOMAIN stack
    BY <2>1 DEF IInv, RootInv, BuilderTypes
  <2> QED
    BY <1>4, <2>1, <2>2
<1>8. ASSUME NEW j, Innermost(cells, j) PROVE cells[j].kind = "OBJ" <=> key # NoKey
  <2>1. j \in DOMAIN cells /\ OpenCell(cells[j]) /\ \A k \in DOMAIN cells : OpenCell(cells[k]) => k <= j
    BY <1>8 DEF Innermost
  <2>2. PICK d \in DOMAIN stack : cells[j].at = stack[d]
    BY <1>4, <2>1 DEF OpenCell
  <2>3. /\ stack # <<>> /\ Len(stack) \in DOMAIN stack /\ Len(stack) \in Nat /\ d \in Nat /\ d <= Len(stack)
        /\ \A a \in DOMAIN stack : stack[a] \in Nat
        /\ \A a, b \in DOMAIN stack : a < b => stack[a] < stack[b]
    <3>1. stack \in Seq(Nat)
      BY DEF IInv, BuilderTypes
    <3>2. \A a, b \in DOMAIN stack : a < b => stack[a] < stack[b]
      BY DEF IInv, StackInv, StackPoints
    <3> QED
      BY <3>1, <3>2
  <2>4. PICK i \in DOMAIN cells : cells[i].at = stack[Len(stack)]
    BY <1>4, <2>3
  <2>5. i <= j
    BY <1>4, <2>1, <2>3, <2>4
  <2>6. ~(j < i) /\ i \in Nat /\ j \in Nat
    BY <1>4, <2>1, <2>5
  <2>7. cells[i].at <= cells[j].at
    <3>1. i = j \/ i < j
      BY <2>5, <2>6
    <3>2. cells[i].at \in Nat
      BY <2>3, <2>4
    <3> QED
      BY <1>4, <2>1, <2>2, <2>3, <3>1, <3>2
  <2>8. d = Len(stack)
    BY <2>2, <2>3, <2>4, <2>7
  <2>9. cells[j].at = Top /\ cells[j].kind \in Containers
    BY <2>1, <2>2, <2>8 DEF Top, OpenCell
  <2>10. ASSUME NEW kind, TopKind(kind) PROVE cells[j].kind = kind
    <3>1. PICK k \in DOMAIN cells : cells[k].at = Top /\ cells[k].kind \in {kind, "JUNK"}
      BY <2>10 DEF TopKind
    <3>2. cells[k].kind = opened[d] /\ cells[j].kind = opened[d]
      BY <1>4, <2>1, <2>2, <2>8, <3>1 DEF Top
    <3>3. cells[k].kind # "JUNK"
      BY <2>9, <3>2 DEF Containers
    <3> QED
      BY <3>1, <3>2, <3>3
  <2> QED
    BY <2>3, <2>9, <2>10 DEF MayPush
<1> QED
  BY <1>2, <1>3, <1>4, <1>5, <1>6, <1>7, <1>8

(* What a key is, and where it is written.                                 *)
LEMMA KeyIs ==
  ASSUME NEW key \in Nat, key <= 65535
  PROVE  /\ KeyCell(key) \in Intact /\ KeyCell(key).at = 0 /\ IsKey(KeyCell(key))
         /\ KeyCell(key).kind \notin Containers /\ KeyCell(key).field # NoSize
         /\ KeyCell(key).bytes = BSize(KeyCell(key)) /\ Opening(KeyCell(key)) = BSize(KeyCell(key))
         /\ BSize(KeyCell(key)) \in Nat
<1> DEFINE c == KeyCell(key)
<1>1. Value([cells |-> <<c>>, calls |-> <<"key">>]) /\ c.bytes = BSize(c)
  BY KeyValue
<1>2. c \in Intact /\ c.field # NoSize
  <2> HIDE DEF c
  <2> QED
    BY <1>1 DEF Value
<1>3. c.at = 0 /\ IsKey(c)
  BY DEF KeyCell, Cell, IsKey
<1> HIDE DEF c
<1>4. c.kind \notin Containers
  BY <1>3 DEF IsKey, Containers
<1>5. BSize(c) \in Nat
  BY <1>2, IntactSize
<1> QED
  BY <1>1, <1>2, <1>3, <1>4, <1>5 DEF c, Opening

(* builder_push_key writes the one cell of the key.                        *)
LEMMA KeyedIs ==
  ASSUME Honest, IInv, NEW key \in KeyLengths, key # NoKey, Whole(Keyed(key).cells)
  PROVE  /\ key \in Nat /\ key <= 65535
         /\ Keyed(key).cells = cells \o Shifted(<<KeyCell(key)>>, cur)
         /\ Keyed(key).cur = cur + BSize(KeyCell(key))
<1> DEFINE a == Assured(Built, key + 4)
           cs == <<KeyCell(key)>>
           size == KeyCell(key).bytes
<1>1. key \in Nat /\ key <= 65535 /\ key + 4 \in Nat
  <2>1. KeyLengths \subseteq Nat
    BY BuilderAssumption
  <2> QED
    BY <2>1 DEF Honest
<1>2. /\ KeyCell(key) \in Intact /\ size = BSize(KeyCell(key)) /\ size \in Nat
  BY <1>1, KeyIs
<1>3. Built \in Buffers /\ Built.cells = cells /\ Built.cur = cur /\ own \in BOOLEAN
  BY KeyedContinues DEF IInv, BuilderTypes, Built
<1>4. Keyed(key) = Filled(a, cs, size)
  BY DEF Keyed, Built
<1>5. Continues(Built, a) /\ a.cur = Built.cur /\ a \in Buffers
  BY <1>1, <1>3, AssuredContinues DEF Continues
<1>6. cs \in Seq(CellSet)
  <2>1. KeyCell(key) \in CellSet
    BY <1>2 DEF Intact, CellSet
  <2> QED
    BY <2>1
<1> HIDE DEF a, cs, size
<1>7. /\ Continues(a, Keyed(key))
      /\ Keyed(key).cells = a.cells \o Shifted(cs, a.cur) /\ Keyed(key).cur = a.cur + size
  <2>1. size \in Nat
    BY <1>2
  <2>2. Continues(a, Filled(a, cs, size))
    BY <1>5, <1>6, <2>1, FilledContinues
  <2>3. Filled(a, cs, size).cells = a.cells \o Shifted(cs, a.cur) /\ Filled(a, cs, size).cur = a.cur + size
    BY <1>5, FilledIs
  <2> QED
    BY <1>4, <2>2, <2>3
<1>8. Whole(a.cells)
  BY <1>5, <1>7, WholeBack
<1>9. a.cells = Built.cells
  BY <1>1, <1>3, <1>8, AssuredWhole DEF a
<1> QED
  BY <1>1, <1>2, <1>3, <1>5, <1>7, <1>9 DEF cs

(* What is built and a key behind it: a value may follow.                  *)
LEMMA KeyedNested ==
  ASSUME Honest, IInv, Walkable, Nesting, msg = <<>>, NEW key \in KeyLengths \cup {NoKey}, MayPush(key),
         Whole(Keyed(key).cells), NEW c, ~IsKey(c)
  PROVE  LET b == Keyed(key)
         IN  /\ b.cells \in Seq(Intact) /\ b.cur \in Nat /\ Ahead(b.cells, b.cur) /\ Nested(b.cells, b.cur)
             /\ Rooted(b.cells) /\ MayFollow(b.cells, c)
             /\ b.cells = <<>> => b.cur = Id
<1> DEFINE b == Keyed(key)
<1>1. /\ Built \in Buffers /\ Continues(Built, Keyed(key)) /\ (key = NoKey => Keyed(key) = Built)
      /\ Built.cells = cells /\ Built.cur = cur
  BY KeyedContinues DEF IInv, Built
<1>2. Whole(cells)
  BY <1>1, WholeBack
<1>3. /\ cells \in Seq(Intact) /\ cur \in Nat /\ Ahead(cells, cur) /\ Nested(cells, cur)
      /\ Settled(cells) /\ Rooted(cells)
      /\ cells # <<>> => OpenCell(cells[1])
      /\ cells = <<>> => key = NoKey /\ cur = Id
      /\ \A j : Innermost(cells, j) => (cells[j].kind = "OBJ" <=> key # NoKey)
  BY <1>2, KeyFits
<1>4. CASE key = NoKey
  <2>1. b.cells = cells /\ b.cur = cur
    BY <1>1, <1>4
  <2>2. ASSUME NEW j, Innermost(cells, j) PROVE cells[j].kind = "OBJ" <=> IsKey(cells[Len(cells)])
    <3>1. j \in DOMAIN cells /\ DOMAIN cells = 1 .. Len(cells)
      BY <1>3, <2>2 DEF Innermost
    <3>2. cells # <<>>
      BY <3>1
    <3>3. ~IsKey(cells[Len(cells)])
      BY <1>3, <3>2 DEF Settled
    <3> QED
      BY <1>3, <1>4, <2>2, <3>3
  <2>3. MayFollow(cells, c)
    BY <1>3, <2>2 DEF MayFollow
  <2> HIDE DEF b
  <2> QED
    BY <1>3, <2>1, <2>3 DEF b
<1>5. CASE key # NoKey
  <2> DEFINE k == KeyCell(key)
             new == <<k>>
             m == cur
             size == BSize(k)
  <2>1. /\ key \in KeyLengths /\ key \in Nat /\ key <= 65535
        /\ b.cells = cells \o Shifted(new, m) /\ b.cur = m + size
    BY <1>5, KeyedIs
  <2>2. /\ k \in Intact /\ k.at = 0 /\ IsKey(k) /\ k.kind \notin Containers /\ k.field # NoSize
        /\ Opening(k) = size /\ size \in Nat
    BY <2>1, KeyIs
  <2> HIDE DEF k, size
  <2>3. new \in Seq(Intact) /\ new # <<>> /\ new[1] = k /\ DOMAIN new = {1} /\ Len(new) = 1
    BY <2>2
  <2>4. Nested(new, size)
    BY <2>2, CellNested
  <2> HIDE DEF new, m, b
  <2>5. m = cur /\ m \in Nat /\ cells # <<>>
    BY <1>3, <1>5 DEF m
  <2>6. MayFollow(cells, k)
    BY <1>3, <2>2 DEF MayFollow, Settled
  <2>7. Nested(cells \o Shifted(new, m), m + size)
    BY <1>3, <2>2, <2>3, <2>4, <2>5, <2>6, NestedMore
  <2>8. Joins(cells, new, m, b.cells, Len(cells))
    BY <1>3, <2>1, <2>3, <2>5, JoinedCells
  <2> DEFINE n == Len(cells)
  <2>9. /\ b.cells \in Seq(Intact) /\ DOMAIN b.cells = 1 .. n + 1 /\ Len(b.cells) = n + 1 /\ n \in Nat
        /\ DOMAIN cells = 1 .. n
        /\ \A i \in DOMAIN cells : b.cells[i] = cells[i] /\ i \in DOMAIN b.cells
        /\ b.cells[n + 1] = Shift(k, m)
    BY <2>3, <2>8 DEF Joins
  <2>10. 1 \in DOMAIN cells
    BY <1>3, <2>5
  <2> HIDE DEF n
  <2>11. /\ IsKey(Shift(k, m)) /\ Shift(k, m).field # NoSize /\ Shift(k, m).kind \notin Containers
    BY <2>2, <2>5, ShiftNests, IntactShift
  <2>12. b.cells # <<>> /\ OpenCell(b.cells[1]) /\ Rooted(b.cells) /\ IsKey(b.cells[Len(b.cells)])
    BY <1>3, <2>5, <2>9, <2>10, <2>11 DEF Rooted
  <2>13. ASSUME NEW j, Innermost(b.cells, j) PROVE b.cells[j].kind = "OBJ"
    <3>1. j \in DOMAIN b.cells /\ OpenCell(b.cells[j])
          /\ \A i \in DOMAIN b.cells : OpenCell(b.cells[i]) => i <= j
      BY <2>13 DEF Innermost
    <3>2. j # n + 1
      BY <2>9, <2>11, <3>1 DEF OpenCell
    <3>3. j \in DOMAIN cells
      BY <2>9, <3>1, <3>2
    <3>4. Innermost(cells, j)
      BY <2>9, <3>1, <3>3 DEF Innermost
    <3> QED
      BY <1>3, <1>5, <2>9, <3>3, <3>4
  <2>14. MayFollow(b.cells, c)
    BY <2>12, <2>13 DEF MayFollow
  <2>15. PICK q : Grown(b.cells, KeyCalls(key), b.cur, stack, opened, q)
    BY KeyedGrown DEF b
  <2>16. Ahead(b.cells, b.cur)
    BY <2>1, <2>7, <2>15, GrownAhead
  <2>17. b.cur \in Nat
    BY <2>1, <2>2, <2>5
  <2> QED
    BY <2>1, <2>7, <2>9, <2>12, <2>14, <2>16, <2>17 DEF b
<1> QED
  BY <1>4, <1>5

(* A value pushed, or opened.                                              *)
LEMMA PushNests ==
  ASSUME Honest, IInv, Walkable, Nesting, msg = <<>>, NEW key \in KeyLengths \cup {NoKey}, MayPush(key),
         Whole(Keyed(key).cells), NEW new \in Seq(Intact), new # <<>>, NEW size \in Nat, Nested(new, size),
         new[1].at = 0, ~IsKey(new[1]), Settled(new),
         cells' = Keyed(key).cells \o Shifted(new, Keyed(key).cur), cur' = Keyed(key).cur + size
  PROVE  Nesting'
<1> DEFINE b == Keyed(key)
           cs == b.cells
           m == b.cur
           all == cs \o Shifted(new, m)
           n == Len(cs)
<1>1. /\ cs \in Seq(Intact) /\ m \in Nat /\ Ahead(cs, m) /\ Nested(cs, m)
      /\ Rooted(cs) /\ MayFollow(cs, new[1])
      /\ cs = <<>> => m = Id
  BY KeyedNested
<1>2. cells' = all /\ cur' = m + size
  OBVIOUS
<1> HIDE DEF cs, m
<1>3. Nested(all, m + size)
  BY <1>1, NestedMore
<1>4. Joins(cs, new, m, all, n)
  BY <1>1, JoinedCells
<1> HIDE DEF all, n
<1>5. /\ n \in Nat /\ n = Len(cs) /\ Len(new) \in Nat /\ Len(all) = n + Len(new) /\ DOMAIN new = 1 .. Len(new)
      /\ DOMAIN all = 1 .. n + Len(new) /\ DOMAIN cs = 1 .. n
      /\ \A i \in DOMAIN cs : all[i] = cs[i]
      /\ \A a \in DOMAIN new : all[n + a] = Shift(new[a], m) /\ new[a] \in Intact
  BY <1>4 DEF Joins
<1>6. 1 \in DOMAIN new /\ Len(new) \in DOMAIN new
  BY <1>5, EmptySeq
<1>7. Settled(all)
  <2>1. all[Len(all)] = Shift(new[Len(new)], m) /\ new[Len(new)] \in Intact
    BY <1>5, <1>6
  <2>2. IsKey(Shift(new[Len(new)], m)) <=> IsKey(new[Len(new)])
    BY <1>1, <2>1, ShiftNests
  <2> QED
    BY <2>1, <2>2 DEF Settled
<1>8. Rooted(all)
  <2>1. CASE cs = <<>>
    <3>1. n = 0 /\ m = Id
      BY <1>1, <1>5, <2>1
    <3>2. all[1] = Shift(new[1], m) /\ new[1] \in Intact
      BY <1>5, <1>6, <3>1
    <3>3. Shift(new[1], m).at = new[1].at + m /\ (IsKey(Shift(new[1], m)) <=> IsKey(new[1]))
      BY <1>1, <3>2, IntactShift, ShiftNests
    <3> QED
      BY <1>1, <3>1, <3>2, <3>3 DEF Rooted
  <2>2. CASE cs # <<>>
    <3>1. 1 \in DOMAIN cs
      BY <1>1, <2>2
    <3>2. all[1] = cs[1]
      BY <1>5, <3>1
    <3> QED
      BY <1>1, <2>2, <3>2 DEF Rooted
  <2> QED
    BY <2>1, <2>2
<1> QED
  BY <1>2, <1>3, <1>7, <1>8 DEF Nesting, Settled, Rooted

(* What a call with room asked for has written.                            *)
LEMMA PushedIs ==
  ASSUME IInv, NEW key \in KeyLengths \cup {NoKey}, NEW need \in Nat,
         NEW new \in Seq(Intact), NEW size \in Nat,
         Becomes(Filled(Assured(Keyed(key), need), new, size)), Whole(cells')
  PROVE  /\ Whole(Keyed(key).cells)
         /\ cells' = Keyed(key).cells \o Shifted(new, Keyed(key).cur) /\ cur' = Keyed(key).cur + size
<1> DEFINE b == Keyed(key)
           a == Assured(b, need)
           c == Filled(a, new, size)
<1>1. b \in Buffers /\ own \in BOOLEAN
  BY KeyedContinues DEF IInv, Continues, BuilderTypes
<1>2. cells' = c.cells /\ cur' = c.cur
  BY DEF Becomes
<1>3. new \in Seq(CellSet)
  <2>1. Intact \subseteq CellSet
    BY DEF Intact, CellSet
  <2> QED
    BY <2>1, SeqMonotonic
<1> HIDE DEF b
<1>4. Continues(b, a) /\ a \in Buffers /\ a.cur = b.cur
  BY <1>1, AssuredContinues DEF Continues
<1>5. Whole(a.cells) => a.cells = b.cells
  BY <1>1, AssuredWhole
<1> HIDE DEF a
<1>6. Continues(a, c)
  BY <1>3, <1>4, FilledContinues
<1>7. c.cells = a.cells \o Shifted(new, a.cur) /\ c.cur = a.cur + size
  BY <1>4, FilledIs
<1> HIDE DEF c
<1>8. Whole(a.cells)
  BY <1>2, <1>4, <1>6, WholeBack
<1> QED
  BY <1>2, <1>4, <1>5, <1>7, <1>8 DEF b

(* An object or array opened is nested.                                    *)
LEMMA OpenedIs ==
  ASSUME NEW kind \in Containers
  PROVE  LET new == <<Cell(kind, NoSize, 5)>>
         IN  /\ new \in Seq(Intact) /\ new # <<>> /\ Nested(new, 5) /\ new[1].at = 0
             /\ ~IsKey(new[1]) /\ Settled(new)
<1> DEFINE c == Cell(kind, NoSize, 5)
<1>1. c \in Intact /\ c.at = 0 /\ c.kind = kind /\ c.field = NoSize
  BY KindsSized DEF Cell, Intact, Containers
<1> HIDE DEF c
<1>2. ~IsKey(c) /\ Opening(c) = 5
  BY <1>1 DEF IsKey, Opening, Containers
<1>3. Nested(<<c>>, 5)
  BY <1>1, <1>2, CellNested
<1>4. <<c>> \in Seq(Intact) /\ <<c>> # <<>> /\ <<c>>[1] = c /\ Len(<<c>>) = 1
  BY <1>1
<1>5. Settled(<<c>>)
  BY <1>2, <1>4 DEF Settled
<1> QED
  BY <1>1, <1>2, <1>3, <1>4, <1>5 DEF c

(* The values on the stack are those that may be closed: all of them, or   *)
(* the innermost.                                                          *)
LEMMA StackCloses ==
  ASSUME IInv, NEW cs, NEW called, NEW r, Grown(cs, called, cur, stack, opened, r)
  PROVE  /\ MayClose(cs, {stack[d] : d \in DOMAIN stack}, cur)
         /\ stack # <<>> => MayClose(cs, {Top}, cur)
<1>1. /\ cs \in Seq(Intact)
      /\ \A i, j \in DOMAIN cs : i < j => cs[i].at < cs[j].at
      /\ \A i \in DOMAIN cs : cs[i].field = NoSize =>
            OpenCell(cs[i]) /\ \E d \in DOMAIN stack : cs[i].at = stack[d]
      /\ \A i \in DOMAIN cs : \A d \in DOMAIN stack :
            cs[i].at = stack[d] => OpenCell(cs[i]) /\ cs[i].kind = opened[d]
  BY GrownCells
<1>2. /\ stack \in Seq(Nat)
      /\ \A d \in DOMAIN stack : stack[d] + 5 <= cur
      /\ \A a, b \in DOMAIN stack : a < b => stack[a] < stack[b]
  BY DEF IInv, BuilderTypes, StackInv, StackPoints
<1>3. MayClose(cs, {stack[d] : d \in DOMAIN stack}, cur)
  <2> DEFINE A == {stack[d] : d \in DOMAIN stack}
  <2>1. \A i \in DOMAIN cs : cs[i].at \in A => OpenCell(cs[i]) /\ cs[i].at + 5 <= cur
    BY <1>1, <1>2
  <2>2. \A i \in DOMAIN cs : cs[i].field = NoSize => cs[i].at \in A
    BY <1>1
  <2> HIDE DEF A
  <2>3. MayClose(cs, A, cur)
    BY <2>1, <2>2 DEF MayClose
  <2> QED
    BY <2>3 DEF A
<1>4. ASSUME stack # <<>> PROVE MayClose(cs, {Top}, cur)
  <2>1. /\ Len(stack) \in DOMAIN stack /\ Top = stack[Len(stack)] /\ Top \in Nat /\ Len(stack) \in Nat
        /\ DOMAIN stack = 1 .. Len(stack) /\ \A d \in DOMAIN stack : stack[d] \in Nat
    BY <1>2, <1>4 DEF Top
  <2>2. \A i \in DOMAIN cs : cs[i].at = Top => OpenCell(cs[i]) /\ cs[i].at + 5 <= cur
    BY <1>1, <1>2, <2>1
  <2>3. ASSUME NEW i \in DOMAIN cs, NEW j \in DOMAIN cs, i < j, cs[i].at = Top, cs[j].field = NoSize
        PROVE  FALSE
    <3>1. PICK d \in DOMAIN stack : cs[j].at = stack[d]
      BY <1>1, <2>3
    <3>2. d = Len(stack) \/ d < Len(stack)
      BY <2>1
    <3>3. stack[d] <= Top
      BY <1>2, <2>1, <3>2
    <3>4. Top < stack[d]
      BY <1>1, <2>3, <3>1
    <3> QED
      BY <2>1, <3>3, <3>4
  <2> QED
    BY <2>2, <2>3 DEF MayClose
<1> QED
  BY <1>3, <1>4

(* What is closed is nested as before.                                     *)
LEMMA CloseNests ==
  ASSUME IInv, Walkable, Nesting, msg = <<>>, NEW A, Whole(Sealed(cells, A, cur)),
         A = {stack[d] : d \in DOMAIN stack} \/ (stack # <<>> /\ A = {Top})
  PROVE  LET all == Sealed(cells, A, cur)
         IN  Nested(all, cur) /\ Settled(all) /\ Rooted(all) /\ Whole(cells)
<1> DEFINE all == Sealed(cells, A, cur)
<1>1. Whole(cells)
  <2> SUFFICES ASSUME cells # <<>> PROVE cells[1].kind # "JUNK"
    BY DEF Whole
  <2>1. cells \in Seq(CellSet)
    BY DEF IInv, BuilderTypes
  <2>2. 1 \in DOMAIN cells /\ cells[1] \in CellSet
    BY <2>1
  <2>3. 1 \in DOMAIN all /\ all[1].kind = cells[1].kind
    BY <2>2 DEF Sealed, CellSet
  <2>4. all # <<>>
    BY <2>3
  <2> QED
    BY <2>3, <2>4 DEF Whole
<1>2. PICK r : Grown(cells, calls, cur, stack, opened, r)
  BY <1>1 DEF Walkable
<1>3. Nested(cells, cur) /\ Settled(cells) /\ Rooted(cells)
  BY <1>1 DEF Nesting
<1>4. cells \in Seq(Intact) /\ cur \in Nat
  BY <1>2, GrownCells
<1>5. Ahead(cells, cur)
  BY <1>2, <1>3, GrownAhead
<1>6. MayClose(cells, A, cur)
  BY <1>2, StackCloses
<1> HIDE DEF all
<1>7. Nested(all, cur)
  BY <1>3, <1>4, <1>5, <1>6, NestedClosed DEF all
<1>8. /\ Len(all) = Len(cells) /\ DOMAIN all = DOMAIN cells
      /\ \A i \in DOMAIN cells : Seals(cells, A, cur, all, i)
      /\ DOMAIN cells = 1 .. Len(cells) /\ Len(cells) \in Nat
  BY <1>4, <1>6, SealsAre DEF all
<1>9. ASSUME all # <<>> PROVE cells # <<>> /\ 1 \in DOMAIN cells /\ Len(cells) \in DOMAIN cells
  <2>1. cells # <<>>
    <3> SUFFICES ASSUME cells = <<>> PROVE FALSE
      OBVIOUS
    <3>1. all = <<>>
      BY DEF all, Sealed
    <3> QED
      BY <1>9, <3>1
  <2> QED
    BY <1>4, <2>1
<1>10. Settled(all)
  BY <1>3, <1>8, <1>9 DEF Settled, Seals
<1>11. Rooted(all)
  BY <1>3, <1>8, <1>9 DEF Rooted, Seals
<1> QED
  BY <1>1, <1>7, <1>10, <1>11 DEF all

(* A message taken is a whole tree.                                        *)
LEMMA TreeTake ==
  ASSUME Honest, IInv, Walkable, Nesting, Take
  PROVE  TreeTaken'
<1> DEFINE S == {stack[i] : i \in DOMAIN stack}
           done == Closed(S)
           copied == {i \in DOMAIN done : done[i].at < MsgBSize(done)}
<1>1. /\ msg = <<>> /\ cells # <<>> /\ CloseAll
      /\ msg' = IF own \/ cells[1].kind = "JUNK" THEN done ELSE SubSeq(done, 1, Cardinality(copied))
  BY DEF Take
<1>2. /\ done \in Seq(CellSet) /\ done # <<>> /\ 1 \in DOMAIN done
      /\ done[1].kind = cells[1].kind
      /\ RootSized(done, cur)
  BY <1>1, RootDone
<1>12. CASE cells[1].kind = "JUNK"
  BY <1>1, <1>2, <1>12 DEF TreeTaken
<1> SUFFICES ASSUME cells[1].kind # "JUNK" PROVE 1 \in DOMAIN msg' /\ Tree(msg')
  BY <1>12 DEF TreeTaken
<1>3. cells[1].kind # "JUNK"
  OBVIOUS
<1>4. PICK r : Grown(done, calls', cur, <<>>, <<>>, r)
  BY <1>1, <1>3, AllClosed DEF Whole
<1>5. done = Sealed(cells, S, cur) /\ Whole(done)
  BY <1>2, <1>3 DEF Closed, Sealed, Whole
<1> HIDE DEF done
<1>6. Nested(done, cur) /\ Rooted(done)
  BY <1>1, <1>5, CloseNests
<1>7. BSize(done[1]) + Id = cur /\ BSize(done[1]) \in Nat /\ cur \in Nat /\ MsgBSize(done) = cur
  BY <1>2, <1>3 DEF RootSized, Honest, IInv, BuilderTypes, MsgBSize
<1>8. /\ done \in Seq(Intact) /\ Laid(done, Id, cur)
      /\ \A i \in DOMAIN done : done[i].field # NoSize
  BY <1>4 DEF Grown, Walk, OpenAre
<1>9. msg' = done
  BY <1>1, <1>2, <1>7, <1>8, AllCopied DEF Laid
<1>10. done[1].at = Id /\ ~IsKey(done[1]) /\ Over(done[1]) = cur
  BY <1>2, <1>6, <1>7 DEF Rooted, Over, Id
<1>11. Tree(done)
  BY <1>2, <1>6, <1>8, <1>10 DEF Tree, Laid
<1> QED
  BY <1>2, <1>9, <1>11
-----------------------------------------------------------------------------
(* A program that besides pushes nothing but whole values, such as a       *)
(* message that builder.c built.                                           *)
Proper == Honest /\ \A v \in Values : OneValue(v)

(* In the beginning nothing is built.                                     *)
LEMMA NestInit == MessageInit => Nesting /\ TreeTaken
<1> SUFFICES ASSUME MessageInit PROVE Nesting /\ TreeTaken
  OBVIOUS
<1>1. cells = <<>> /\ msg = <<>>
  BY DEF MessageInit, Init
<1>2. Nested(cells, cur)
  BY <1>1 DEF Nested
<1> QED
  BY <1>1, <1>2 DEF Nesting, TreeTaken, Settled, Rooted

(* Every call of builder.c keeps what is built nested.                     *)
LEMMA NestStep ==
  ASSUME Proper, IInv, Walkable, Nesting, TreeTaken, [MessageNext]_vars
  PROVE  Nesting' /\ TreeTaken'
<1>0. Honest /\ \A v \in Values : OneValue(v)
  BY DEF Proper
<1>1. ASSUME NEW key \in KeyLengths \cup {NoKey}, NEW leaf \in Leaves, PushLeaf(leaf, key)
      PROVE  Nesting' /\ TreeTaken'
  <2> DEFINE new == <<leaf>>
  <2>1. /\ leaf \in Pushable /\ leaf.at = 0 /\ leaf.kind \notin Containers /\ ~IsKey(leaf)
        /\ leaf.bytes = BSize(leaf)
    BY <1>0, BuilderAssumption DEF Honest, Exact, IsKey
  <2>2. leaf \in Intact /\ leaf.field # NoSize
    BY <2>1 DEF Pushable, Intact, NoSize
  <2>3. Need(leaf) \in Nat /\ leaf.bytes \in Nat /\ Opening(leaf) = leaf.bytes
    BY <2>1, <2>2, IntactSize DEF Need, Opening
  <2>4. new \in Seq(Intact) /\ new # <<>> /\ new[1] = leaf /\ Len(new) = 1
    BY <2>2
  <2>5. Nested(new, leaf.bytes)
    BY <2>1, <2>2, <2>3, CellNested
  <2>6. /\ msg = <<>> /\ msg' = msg /\ MayPush(key)
        /\ Becomes(Filled(Assured(Keyed(key), Need(leaf)), new, leaf.bytes))
    BY <1>1 DEF PushLeaf
  <2> HIDE DEF new
  <2>7. Settled(new)
    BY <2>1, <2>4 DEF Settled
  <2>8. ASSUME Whole(cells') PROVE Nesting'
    <3>1. /\ Whole(Keyed(key).cells)
          /\ cells' = Keyed(key).cells \o Shifted(new, Keyed(key).cur) /\ cur' = Keyed(key).cur + leaf.bytes
      BY <2>3, <2>4, <2>6, <2>8, PushedIs
    <3> QED
      BY <1>0, <2>1, <2>3, <2>4, <2>5, <2>6, <2>7, <3>1, PushNests
  <2>9. Nesting'
    BY <2>8 DEF Nesting, Whole
  <2> QED
    BY <2>6, <2>9 DEF TreeTaken
<1>2. ASSUME NEW key \in KeyLengths \cup {NoKey}, NEW v \in Values, PushVal(v, key)
      PROVE  Nesting' /\ TreeTaken'
  <2> DEFINE new == v.cells
             size == BSize(v.cells[1])
  <2>1. Value(v) /\ OneValue(v) /\ v.cells[1].at = 0
    BY <1>0, PushedValue, BuilderAssumption
  <2>2. /\ new \in Seq(Intact) /\ new # <<>> /\ \A i \in DOMAIN new : new[i].field # NoSize
        /\ Nested(new, size) /\ ~IsKey(new[1]) /\ new[1].at = 0
    BY <2>1 DEF Value, OneValue
  <2>3. 1 \in DOMAIN new /\ new[1] \in Intact
    BY <2>2
  <2>4. size \in Nat
    BY <2>2, <2>3, IntactSize
  <2>5. Settled(new)
    BY <2>2, ValueSettled
  <2>6. /\ msg = <<>> /\ msg' = msg /\ MayPush(key)
        /\ Becomes(Filled(Assured(Keyed(key), size), new, size))
    BY <1>2 DEF PushVal
  <2> HIDE DEF new, size
  <2>8. ASSUME Whole(cells') PROVE Nesting'
    <3>1. /\ Whole(Keyed(key).cells)
          /\ cells' = Keyed(key).cells \o Shifted(new, Keyed(key).cur) /\ cur' = Keyed(key).cur + size
      BY <2>2, <2>4, <2>6, <2>8, PushedIs
    <3> QED
      BY <1>0, <2>2, <2>4, <2>5, <2>6, <3>1, PushNests
  <2>9. Nesting'
    BY <2>8 DEF Nesting, Whole
  <2> QED
    BY <2>6, <2>9 DEF TreeTaken
<1>3. ASSUME NEW key \in KeyLengths \cup {NoKey}, NEW kind \in Containers, Open(kind, key),
             Whole(cells') => /\ Whole(Keyed(key).cells)
                              /\ cells' = Keyed(key).cells \o Shifted(<<Cell(kind, NoSize, 5)>>, Keyed(key).cur)
                              /\ cur' = Keyed(key).cur + 5
      PROVE  Nesting' /\ TreeTaken'
  <2> DEFINE new == <<Cell(kind, NoSize, 5)>>
  <2>1. /\ new \in Seq(Intact) /\ new # <<>> /\ Nested(new, 5) /\ new[1].at = 0
        /\ ~IsKey(new[1]) /\ Settled(new)
    BY OpenedIs
  <2>2. msg = <<>> /\ msg' = msg /\ MayPush(key)
    BY <1>3 DEF Open
  <2> HIDE DEF new
  <2>3. ASSUME Whole(cells') PROVE Nesting'
    <3>1. /\ Whole(Keyed(key).cells)
          /\ cells' = Keyed(key).cells \o Shifted(new, Keyed(key).cur) /\ cur' = Keyed(key).cur + 5
      BY <1>3, <2>3 DEF new
    <3> QED
      BY <1>0, <2>1, <2>2, <3>1, PushNests
  <2>4. Nesting'
    BY <2>3 DEF Nesting, Whole
  <2> QED
    BY <2>2, <2>4 DEF TreeTaken
<1>4. ASSUME NEW key \in KeyLengths \cup {NoKey}, PushObject(key)
      PROVE  Nesting' /\ TreeTaken'
  <2>1. "OBJ" \in Containers /\ Open("OBJ", key)
        /\ Becomes(Filled(Assured(Keyed(key), 5), <<Cell("OBJ", NoSize, 5)>>, 5))
    BY <1>4 DEF PushObject, Containers
  <2>2. <<Cell("OBJ", NoSize, 5)>> \in Seq(Intact)
    BY <2>1, OpenedIs
  <2> DEFINE new == <<Cell("OBJ", NoSize, 5)>>
  <2> HIDE DEF new
  <2>3. new \in Seq(Intact) /\ Becomes(Filled(Assured(Keyed(key), 5), new, 5))
    BY <2>1, <2>2 DEF new
  <2>4. Whole(cells') => /\ Whole(Keyed(key).cells)
                         /\ cells' = Keyed(key).cells \o Shifted(new, Keyed(key).cur)
                         /\ cur' = Keyed(key).cur + 5
    BY <2>3, PushedIs
  <2> QED
    BY <1>3, <2>1, <2>4 DEF new
<1>5. ASSUME NEW key \in KeyLengths \cup {NoKey}, PushArray(key)
      PROVE  Nesting' /\ TreeTaken'
  <2> DEFINE new == <<Cell("ARRAY", NoSize, 5)>>
             b == Keyed(key)
             c == Filled(b, new, 5)
  <2>1. "ARRAY" \in Containers /\ Open("ARRAY", key) /\ cells' = c.cells /\ cur' = c.cur
    BY <1>5 DEF PushArray, Containers, Becomes
  <2>2. new \in Seq(CellSet)
    BY KindsSized DEF Cell, CellSet, Containers
  <2>3. b \in Buffers
    BY KeyedContinues DEF IInv, Continues
  <2> HIDE DEF new, b
  <2>4. Continues(b, c) /\ c.cells = b.cells \o Shifted(new, b.cur) /\ c.cur = b.cur + 5
    <3>1. Continues(b, c)
      BY <2>2, <2>3, FilledContinues
    <3>2. c.cells = b.cells \o Shifted(new, b.cur) /\ c.cur = b.cur + 5
      BY <2>3, FilledIs
    <3> QED
      BY <3>1, <3>2
  <2> HIDE DEF c
  <2>5. Whole(cells') => Whole(b.cells)
    BY <2>1, <2>3, <2>4, WholeBack
  <2> QED
    BY <1>3, <2>1, <2>4, <2>5 DEF new, b
<1>6. CASE Pop
  <2>1. msg = <<>> /\ msg' = msg /\ cells' = Sealed(cells, {Top}, cur) /\ cur' = cur /\ stack # <<>>
    BY <1>6 DEF Pop, Closed, Sealed
  <2>2. Whole(cells') => Nested(cells', cur') /\ Settled(cells') /\ Rooted(cells')
    BY <2>1, CloseNests
  <2> QED
    BY <2>1, <2>2 DEF Nesting, TreeTaken, Whole, Settled, Rooted
<1>7. CASE Finish
  <2> DEFINE S == {stack[i] : i \in DOMAIN stack}
  <2>1. msg = <<>> /\ msg' = msg /\ cells' = Sealed(cells, S, cur) /\ cur' = cur
    BY <1>7 DEF Finish, Closed, Sealed
  <2>2. Whole(cells') => Nested(cells', cur') /\ Settled(cells') /\ Rooted(cells')
    BY <2>1, CloseNests
  <2> QED
    BY <2>1, <2>2 DEF Nesting, TreeTaken, Whole, Settled, Rooted
<1>8. CASE Take
  BY <1>0, <1>8, StepTake, TreeTake DEF Nesting
<1>9. CASE UNCHANGED builder
  <2>1. UNCHANGED <<cells, cur, msg>>
    BY <1>9 DEF builder, buffer, history
  <2> QED
    BY <2>1 DEF Nesting, TreeTaken, Whole, Settled, Rooted
<1> QED
  BY <1>1, <1>2, <1>4, <1>5, <1>6, <1>7, <1>8, <1>9 DEF MessageNext, Build, vars

(* A message taken for reading is a whole tree.                            *)
LEMMA TakenTree ==
  ASSUME Proper
  PROVE  Spec => [](Taken => Tree(msg))
<1> DEFINE All == IInv /\ Walkable /\ Readable /\ Nesting /\ TreeTaken
<1>1. MessageInit => All
  BY InitIInv, WalkInit, NestInit
<1>2. All /\ [MessageNext]_vars => All'
  <2>1. Honest
    BY DEF Proper
  <2> QED
    BY <2>1, StepIInv, WalkStep, NestStep
<1>3. All => (Taken => Tree(msg))
  BY DEF Taken, Junk, TreeTaken
<1> QED
  BY <1>1, <1>2, <1>3, PTL DEF Spec

(* opo_val_member_count finds every member of every object and array of a  *)
(* message, once: the count of those inside of it and of no other in it.   *)
THEOREM Counts == Proper => (Spec => []CountsMembers)
<1> SUFFICES ASSUME Proper PROVE Spec => []CountsMembers
  OBVIOUS
<1>1. (Taken => Tree(msg)) => CountsMembers
  BY CountIs DEF CountsMembers
<1> QED
  BY <1>1, TakenTree, PTL
-----------------------------------------------------------------------------
(* What opo_val_get finds of a key from a place on.                        *)
FindsBy(e, key, k) == \A o \in Nat : k[o] = IF e <= o THEN Reader!Nowhere
                                            ELSE IF Reader!ValKey(o) = key THEN Reader!Next(o)
                                            ELSE k[Reader!Next(Reader!Next(o))]

(* Where it is after so many rounds of its loop through an array.          *)
RoundsBy(e, first, g) == /\ g[0] = first
                         /\ \A i \in Nat : g[i + 1] = IF e <= g[i] THEN g[i] ELSE Reader!Next(g[i])

(* The loops themselves.                                                   *)
Finding(e, key, h) == h = [o \in Nat |-> IF e <= o THEN Reader!Nowhere
                                        ELSE IF Reader!ValKey(o) = key THEN Reader!Next(o)
                                        ELSE h[Reader!Next(Reader!Next(o))]]
Round(e, first, h) == h = [i \in Nat |-> IF i = 0 THEN first
                                        ELSE IF e <= h[i - 1] THEN h[i - 1]
                                        ELSE Reader!Next(h[i - 1])]

(* They end, since every value that is passed has bytes.                   *)
LEMMA FindRuns ==
  ASSUME Tree(msg), NEW e \in Nat, NEW key
  PROVE  \E h : Finding(e, key, h)
<1> DEFINE F == [Nat -> Int]
           on(o) == Reader!Next(Reader!Next(o))
           make == [h \in F |-> [o \in Nat |-> IF e <= o THEN Reader!Nowhere
                                               ELSE IF Reader!ValKey(o) = key THEN Reader!Next(o)
                                               ELSE h[on(o)]]]
           m == [o \in Nat |-> ToGo(e, o)]
<1>1. \A o \in Nat : on(o) \in Nat /\ o < on(o) /\ Reader!Next(o) \in Nat
  <2>1. ASSUME NEW o \in Nat PROVE on(o) \in Nat /\ o < on(o) /\ Reader!Next(o) \in Nat
    <3>1. Reader!Next(o) \in Nat /\ o < Reader!Next(o)
      BY NextOn
    <3>2. on(o) \in Nat /\ Reader!Next(o) < on(o)
      BY <3>1, NextOn
    <3> QED
      BY <3>1, <3>2
  <2> QED
    BY <2>1
<1> HIDE DEF on
<1>2. m \in [Nat -> Nat]
  BY DEF ToGo
<1>3. make \in [F -> F]
  <2>1. ASSUME NEW h \in F, NEW o \in Nat
        PROVE (IF e <= o THEN Reader!Nowhere ELSE IF Reader!ValKey(o) = key THEN Reader!Next(o) ELSE h[on(o)]) \in Int
    <3>1. h[on(o)] \in Int /\ Reader!Next(o) \in Int /\ Reader!Nowhere \in Int
      BY <1>1 DEF Reader!Nowhere
    <3> QED
      BY <3>1
  <2> QED
    BY <2>1
<1>4. ASSUME NEW g \in F, NEW h \in F, NEW x \in Nat, \A y \in Nat : m[y] < m[x] => g[y] = h[y]
      PROVE  make[g][x] = make[h][x]
  <2>1. CASE e <= x
    BY <2>1
  <2>2. CASE ~(e <= x)
    <3>1. on(x) \in Nat /\ x < on(x)
      BY <1>1
    <3>2. m[on(x)] < m[x]
      BY <2>2, <3>1 DEF ToGo
    <3>3. g[on(x)] = h[on(x)]
      BY <1>4, <3>1, <3>2
    <3> HIDE DEF m
    <3> QED
      BY <2>2, <3>3
  <2> QED
    BY <2>1, <2>2
<1> HIDE DEF m
<1>5. PICK f \in F : f = make[f]
  <2> HIDE DEF make
  <2> DEFINE A == Nat
             D == Int
  <2>3. 0 \in D
    OBVIOUS
  <2>4. \A g, h \in [A -> D] : \A x \in A : (\A y \in A : m[y] < m[x] => g[y] = h[y]) => make[g][x] = make[h][x]
    BY <1>4
  <2>1. Recurs(A, D, m, make) /\ D # {}
    BY <1>2, <1>3, <2>3, <2>4 DEF Recurs
  <2> HIDE DEF A, D
  <2>2. \E f \in [A -> D] : f = make[f]
    BY <2>1, Recursive
  <2> QED
    BY <2>2 DEF A, D
<1>6. f = [o \in Nat |-> IF e <= o THEN Reader!Nowhere
                         ELSE IF Reader!ValKey(o) = key THEN Reader!Next(o) ELSE f[on(o)]]
  BY <1>5
<1> QED
  BY <1>6 DEF on, Finding

LEMMA RoundRuns ==
  ASSUME Tree(msg), NEW e \in Nat, NEW first \in Nat
  PROVE  \E h : Round(e, first, h)
<1> DEFINE step == [n \in Nat |-> [x \in Nat |-> IF e <= x THEN x ELSE Reader!Next(x)]]
           D == Nat
<1>1. step \in [Nat -> [D -> D]] /\ first \in D
  BY NextOn
<1>2. \A n, x \in Nat : step[n][x] = IF e <= x THEN x ELSE Reader!Next(x)
  OBVIOUS
<1> HIDE DEF step, D
<1>3. PICK g : Iterates(D, first, step, g)
  BY <1>1, Recursion
<1>4. g \in [Nat -> Nat] /\ g[0] = first /\ \A n \in Nat : g[n + 1] = step[n][g[n]]
  BY <1>3 DEF Iterates, D
<1>5. ASSUME NEW i \in Nat
      PROVE  g[i] = IF i = 0 THEN first ELSE IF e <= g[i - 1] THEN g[i - 1] ELSE Reader!Next(g[i - 1])
  <2>1. CASE i = 0
    BY <1>4, <2>1
  <2>2. CASE i # 0
    <3>1. i - 1 \in Nat /\ (i - 1) + 1 = i
      BY <2>2
    <3>2. g[i] = step[i - 1][g[i - 1]] /\ g[i - 1] \in Nat
      BY <1>4, <3>1
    <3> QED
      BY <1>2, <2>2, <3>1, <3>2
  <2> QED
    BY <2>1, <2>2
<1>6. g = [i \in Nat |-> IF i = 0 THEN first ELSE IF e <= g[i - 1] THEN g[i - 1] ELSE Reader!Next(g[i - 1])]
  BY <1>4, <1>5
<1> QED
  BY <1>6 DEF Round

(* opo_val_get looks for a member of an object so, and of an array so, and *)
(* for nothing in any other value.                                         *)
LEMMA SeekRuns ==
  ASSUME Tree(msg), NEW c \in DOMAIN msg, NEW part, part.index \in Nat \cup {Reader!NoIndex}
  PROVE  \E k, g : /\ FindsBy(Over(msg[c]), part.key, k)
                   /\ RoundsBy(Over(msg[c]), msg[c].at + 5, g)
                   /\ msg[c].kind = "OBJ" => Reader!Seek(msg[c], part) = k[msg[c].at + 5]
                   /\ msg[c].kind = "ARRAY" =>
                         Reader!Seek(msg[c], part) =
                             IF part.index # Reader!NoIndex /\ g[part.index] < Over(msg[c])
                             THEN g[part.index] ELSE Reader!Nowhere
                   /\ msg[c].kind \notin Containers => Reader!Seek(msg[c], part) = Reader!Nowhere
<1> DEFINE e == msg[c].at + Reader!BSize(msg[c])
           Is(h) == h = [offset \in Nat |-> IF e <= offset THEN Reader!Nowhere
                                            ELSE IF Reader!ValKey(offset) = part.key THEN Reader!Next(offset)
                                            ELSE h[Reader!Next(Reader!Next(offset))]]
           Turns(h) == h = [i \in Nat |-> IF i = 0 THEN msg[c].at + 5
                                          ELSE IF e <= h[i - 1] THEN h[i - 1]
                                          ELSE Reader!Next(h[i - 1])]
           k == CHOOSE h : Is(h)
           g == CHOOSE h : Turns(h)
<1>1. Reader!Seek(msg[c], part) =
        CASE msg[c].kind = "OBJ" -> k[msg[c].at + 5]
          [] msg[c].kind = "ARRAY" /\ part.index # Reader!NoIndex /\ g[part.index] < e -> g[part.index]
          [] OTHER -> Reader!Nowhere
  BY DEF Reader!Seek
<1>2. e \in Nat /\ e = Over(msg[c]) /\ msg[c].at + 5 \in Nat
  BY TreeCell, SameWire DEF Numbers, Over
<1> HIDE DEF e
<1>3. Is(k)
  <2>1. \E h : Finding(e, part.key, h)
    BY <1>2, FindRuns
  <2>2. \E h : Is(h)
    BY <2>1 DEF Finding
  <2> HIDE DEF Is
  <2> QED
    BY <2>2
<1>4. Turns(g)
  <2> DEFINE first == msg[c].at + 5
  <2>1. \E h : Round(e, first, h)
    <3> HIDE DEF first
    <3>1. first \in Nat
      BY <1>2 DEF first
    <3> QED
      BY <1>2, <3>1, RoundRuns
  <2>2. \E h : Turns(h)
    BY <2>1 DEF Round
  <2> HIDE DEF Turns
  <2> QED
    BY <2>2
<1> HIDE DEF k, g
<1>5. FindsBy(e, part.key, k)
  <2>1. \A o \in Nat : k[o] = IF e <= o THEN Reader!Nowhere
                              ELSE IF Reader!ValKey(o) = part.key THEN Reader!Next(o)
                              ELSE k[Reader!Next(Reader!Next(o))]
    BY <1>3, Zenon
  <2> QED
    BY <2>1 DEF FindsBy
<1>6. RoundsBy(e, msg[c].at + 5, g)
  <2>1. \A i \in Nat : g[i] = IF i = 0 THEN msg[c].at + 5
                              ELSE IF e <= g[i - 1] THEN g[i - 1] ELSE Reader!Next(g[i - 1])
    BY <1>4, Zenon
  <2>2. ASSUME NEW i \in Nat PROVE g[i + 1] = IF e <= g[i] THEN g[i] ELSE Reader!Next(g[i])
    <3>1. i + 1 \in Nat /\ i + 1 # 0 /\ (i + 1) - 1 = i
      OBVIOUS
    <3> QED
      BY <2>1, <3>1
  <2>3. g[0] = msg[c].at + 5
    BY <2>1
  <2> QED
    BY <2>2, <2>3 DEF RoundsBy
<1>7. msg[c].kind = "OBJ" => msg[c].kind # "ARRAY"
  OBVIOUS
<1>8. msg[c].kind \notin Containers => msg[c].kind # "OBJ" /\ msg[c].kind # "ARRAY"
  BY DEF Containers
<1>9. msg[c].kind = "OBJ" => Reader!Seek(msg[c], part) = k[msg[c].at + 5]
  BY <1>1, <1>7
<1>10. msg[c].kind = "ARRAY" => Reader!Seek(msg[c], part) = IF part.index # Reader!NoIndex /\ g[part.index] < e
                                                            THEN g[part.index] ELSE Reader!Nowhere
  BY <1>1, <1>7
<1>11. msg[c].kind \notin Containers => Reader!Seek(msg[c], part) = Reader!Nowhere
  BY <1>1, <1>8
<1> QED
  BY <1>2, <1>5, <1>6, <1>9, <1>10, <1>11

(* What is found of a key is the first member that has it.                 *)
LEMMA KeyFound ==
  ASSUME Tree(msg), NEW c \in DOMAIN msg, msg[c].kind = "OBJ",
         NEW key, NEW k, FindsBy(Over(msg[c]), key, k)
  PROVE  /\ \A m \in Members(msg[c]) :
               /\ msg[m - 1].field = key
               /\ \A x \in Members(msg[c]) : x < m => msg[x - 1].field # key
               => k[msg[c].at + 5] = msg[m].at
         /\ (\A m \in Members(msg[c]) : msg[m - 1].field # key) => k[msg[c].at + 5] = Reader!Nowhere
<1> DEFINE e == Over(msg[c])
           First(m, o) == /\ m \in From(c, o) /\ msg[m - 1].field = key
                          /\ \A x \in From(c, o) : x < m => msg[x - 1].field # key
           None(o) == \A m \in From(c, o) : msg[m - 1].field # key
           Right(o) == (\A m : First(m, o) => k[o] = msg[m].at) /\ (None(o) => k[o] = Reader!Nowhere)
<1>1. /\ AtMember(c, msg[c].at + 5) /\ From(c, msg[c].at + 5) = Members(msg[c])
      /\ \A o \in Nat : e <= o => From(c, o) = {}
      /\ msg[c].at + 5 \in Nat /\ e \in Nat
  BY StrideEnds DEF Containers
<1>2. \A o \in Nat : k[o] = IF e <= o THEN Reader!Nowhere
                            ELSE IF Reader!ValKey(o) = key THEN Reader!Next(o) ELSE k[Past(c, o)]
  BY DEF FindsBy, Past
<1> HIDE DEF e
<1> DEFINE S == {n \in Nat : \A o : AtMember(c, o) /\ ToGo(e, o) <= n => Right(o)}
<1>3. ASSUME NEW o, AtMember(c, o), e <= o PROVE Right(o)
  <2>1. o \in Nat
    BY <1>3 DEF AtMember
  <2>2. k[o] = Reader!Nowhere /\ From(c, o) = {}
    BY <1>1, <1>2, <1>3, <2>1
  <2> QED
    BY <2>2
<1>4. 0 \in S
  <2>1. ASSUME NEW o, AtMember(c, o), ToGo(e, o) <= 0 PROVE e <= o
    BY <1>1, <2>1 DEF ToGo, AtMember
  <2> QED
    BY <1>3, <2>1
<1>5. ASSUME NEW n \in Nat, n \in S PROVE n + 1 \in S
  <2> SUFFICES ASSUME NEW o, AtMember(c, o), ToGo(e, o) <= n + 1 PROVE Right(o)
    OBVIOUS
  <2>1. o \in Nat
    BY DEF AtMember
  <2>2. CASE ~(e <= o)
    <3>1. o < Over(msg[c])
      BY <1>1, <2>1, <2>2 DEF e
    <3>2. PICK m0 : Strides(c, o, m0)
      BY <3>1, Stride DEF Containers
    <3> DEFINE p == Past(c, o)
    <3>3. /\ o < p /\ AtMember(c, p) /\ From(c, o) = {m0} \cup From(c, p)
          /\ \A x \in From(c, p) : x \in Nat /\ m0 < x
          /\ m0 \in Nat /\ Reader!Next(o) = msg[m0].at /\ Reader!ValKey(o) = msg[m0 - 1].field
      BY <3>2 DEF Strides
    <3>4. k[o] = IF Reader!ValKey(o) = key THEN Reader!Next(o) ELSE k[p]
      BY <1>2, <2>1, <2>2
    <3> HIDE DEF p
    <3>5. p \in Nat
      BY <3>3 DEF AtMember
    <3>6. ToGo(e, p) <= n
      BY <1>1, <2>1, <2>2, <3>3, <3>5 DEF ToGo
    <3>7. Right(p)
      BY <1>5, <3>3, <3>6
    <3>8. CASE msg[m0 - 1].field = key
      <4>1. k[o] = msg[m0].at
        BY <3>3, <3>4, <3>8
      <4>2. ~None(o)
        BY <3>3, <3>8
      <4>3. ASSUME NEW m, First(m, o) PROVE m = m0
        BY <3>3, <3>8, <4>3
      <4> QED
        BY <4>1, <4>2, <4>3
    <3>9. CASE msg[m0 - 1].field # key
      <4>1. k[o] = k[p]
        BY <3>3, <3>4, <3>9
      <4>2. None(o) => None(p)
        BY <3>3
      <4>3. ASSUME NEW m, First(m, o) PROVE First(m, p)
        BY <3>3, <3>9, <4>3
      <4> HIDE DEF First, None
      <4> QED
        BY <3>7, <4>1, <4>2, <4>3
    <3> QED
      BY <3>8, <3>9
  <2> QED
    BY <1>3, <2>2
<1> HIDE DEF S
<1>6. Nat \subseteq S
  BY <1>4, <1>5, SetInduction
<1>7. ToGo(e, msg[c].at + 5) \in Nat /\ ToGo(e, msg[c].at + 5) <= ToGo(e, msg[c].at + 5)
  BY <1>1 DEF ToGo
<1>8. Right(msg[c].at + 5)
  BY <1>1, <1>6, <1>7 DEF S
<1> QED
  BY <1>1, <1>8

(* The members before a member of the container c.                         *)
Before(c, m) == {x \in Members(msg[c]) : x < m}

(* Later members have more members before them.                            *)
LEMMA BeforeMore ==
  ASSUME Tree(msg), NEW c \in DOMAIN msg, msg[c].kind \in Containers,
         NEW x \in Members(msg[c]), NEW m \in Members(msg[c]), x < m
  PROVE  Cardinality(Before(c, x)) < Cardinality(Before(c, m))
<1>1. DOMAIN msg = 1 .. Len(msg) /\ Len(msg) \in Nat /\ Members(msg[c]) \subseteq DOMAIN msg
  BY TreeCells, StrideEnds
<1>2. IsFiniteSet(Before(c, m)) /\ IsFiniteSet(Before(c, x))
  <2>1. IsFiniteSet(DOMAIN msg)
    BY <1>1, FS_Interval
  <2> QED
    BY <1>1, <2>1, FS_Subset DEF Before
<1>3. Before(c, x) \cup {x} \subseteq Before(c, m) /\ x \notin Before(c, x)
  BY <1>1 DEF Before
<1>4. Cardinality(Before(c, x) \cup {x}) = Cardinality(Before(c, x)) + 1
  BY <1>2, <1>3, FS_AddElement
<1>5. Cardinality(Before(c, x) \cup {x}) <= Cardinality(Before(c, m))
  BY <1>2, <1>3, FS_Subset
<1>6. Cardinality(Before(c, x)) \in Nat /\ Cardinality(Before(c, m)) \in Nat
  BY <1>2, FS_CardinalityType
<1> QED
  BY <1>4, <1>5, <1>6

(* After as many rounds as there are members before a member of an array   *)
(* opo_val_get is at it, and past them all after more.                     *)
LEMMA RoundIs ==
  ASSUME Tree(msg), NEW c \in DOMAIN msg, msg[c].kind = "ARRAY",
         NEW g, RoundsBy(Over(msg[c]), msg[c].at + 5, g), NEW i \in Nat
  PROVE  /\ g[i] < Over(msg[c]) =>
               \E m \in Members(msg[c]) : msg[m].at = g[i] /\ Cardinality(Before(c, m)) = i
         /\ ~(g[i] < Over(msg[c])) => Cardinality(Members(msg[c])) <= i
<1> DEFINE e == Over(msg[c])
           M == Members(msg[c])
           Sofar(n) == /\ AtMember(c, g[n])
                       /\ g[n] < e => Cardinality(M \ From(c, g[n])) = n
                       /\ ~(g[n] < e) => Cardinality(M) <= n
           S == {n \in Nat : Sofar(n)}
<1>1. /\ AtMember(c, msg[c].at + 5) /\ From(c, msg[c].at + 5) = M
      /\ \A o \in Nat : e <= o => From(c, o) = {}
      /\ M \subseteq DOMAIN msg /\ e \in Nat
  BY StrideEnds DEF Containers
<1>2. g[0] = msg[c].at + 5 /\ \A n \in Nat : g[n + 1] = IF e <= g[n] THEN g[n] ELSE Reader!Next(g[n])
  BY DEF RoundsBy
<1>3. IsFiniteSet(M)
  <2>1. DOMAIN msg = 1 .. Len(msg) /\ Len(msg) \in Nat
    BY TreeCells
  <2>2. IsFiniteSet(DOMAIN msg)
    BY <2>1, FS_Interval
  <2> QED
    BY <1>1, <2>2, FS_Subset
<1>4. Cardinality(M) \in Nat
  BY <1>3, FS_CardinalityType
<1>5. \A n : AtMember(c, g[n]) => g[n] \in Nat /\ (~(g[n] < e) => From(c, g[n]) = {} /\ e <= g[n])
  <2> SUFFICES ASSUME NEW n, AtMember(c, g[n])
               PROVE  g[n] \in Nat /\ (~(g[n] < e) => From(c, g[n]) = {} /\ e <= g[n])
    OBVIOUS
  <2>1. g[n] \in Nat
    BY DEF AtMember
  <2> QED
    BY <1>1, <2>1
<1> HIDE DEF e, M
<1>6. 0 \in S
  <2>1. M \ From(c, g[0]) = {} /\ AtMember(c, g[0])
    BY <1>1, <1>2
  <2>2. ~(g[0] < e) => M = {}
    BY <1>1, <1>2, <1>5, <2>1
  <2> QED
    BY <2>1, <2>2, FS_EmptySet
<1>7. ASSUME NEW n \in Nat, n \in S PROVE n + 1 \in S
  <2>1. Sofar(n)
    BY <1>7
  <2>2. CASE ~(g[n] < e)
    <3>1. g[n + 1] = g[n]
      BY <1>2, <1>5, <2>1, <2>2
    <3>2. Cardinality(M) <= n + 1
      BY <1>4, <2>1, <2>2
    <3> QED
      BY <2>1, <2>2, <3>1, <3>2
  <2>3. CASE g[n] < e
    <3>1. PICK m : Strides(c, g[n], m)
      BY <2>1, <2>3, Stride DEF e, Containers
    <3>2. g[n + 1] = Over(msg[m])
      <4>1. ~(e <= g[n])
        BY <1>1, <1>5, <2>1, <2>3
      <4>2. g[n + 1] = Reader!Next(g[n])
        BY <1>2, <4>1
      <4> QED
        BY <3>1, <4>2 DEF Strides, Past
    <3>3. /\ AtMember(c, g[n + 1]) /\ m \in M /\ From(c, g[n]) = {m} \cup From(c, g[n + 1])
          /\ m \notin From(c, g[n + 1])
      BY <3>1, <3>2 DEF Strides, M
    <3>4. Cardinality(M \ From(c, g[n + 1])) = n + 1
      <4>1. M \ From(c, g[n + 1]) = (M \ From(c, g[n])) \cup {m} /\ m \notin M \ From(c, g[n])
        BY <3>3
      <4>2. IsFiniteSet(M \ From(c, g[n]))
        BY <1>3, FS_Subset
      <4>3. Cardinality((M \ From(c, g[n])) \cup {m}) = Cardinality(M \ From(c, g[n])) + 1
        BY <4>1, <4>2, FS_AddElement
      <4> QED
        BY <2>1, <2>3, <4>1, <4>3
    <3>5. ~(g[n + 1] < e) => Cardinality(M) <= n + 1
      <4> SUFFICES ASSUME ~(g[n + 1] < e) PROVE Cardinality(M) <= n + 1
        OBVIOUS
      <4>1. From(c, g[n + 1]) = {}
        BY <1>5, <3>3
      <4>2. M \ From(c, g[n + 1]) = M
        BY <4>1
      <4> QED
        BY <3>4, <4>2
    <3> QED
      BY <3>3, <3>4, <3>5
  <2> QED
    BY <2>2, <2>3
<1> HIDE DEF S
<1>8. Nat \subseteq S
  BY <1>6, <1>7, SetInduction
<1>9. Sofar(i)
  BY <1>8 DEF S
<1>10. ASSUME g[i] < e
       PROVE  \E m \in M : msg[m].at = g[i] /\ Cardinality(Before(c, m)) = i
  <2>1. PICK m : Strides(c, g[i], m)
    BY <1>9, <1>10, Stride DEF e, Containers
  <2>2. /\ m \in M /\ m \in DOMAIN msg /\ msg[m].at = g[i] /\ From(c, g[i]) = {m} \cup From(c, Over(msg[m]))
        /\ \A x \in From(c, Over(msg[m])) : x \in Nat /\ m < x
        /\ m \in Nat
    BY <2>1 DEF Strides, M
  <2>3. \A x \in M : x < m <=> x \notin From(c, g[i])
    <3> SUFFICES ASSUME NEW x \in M PROVE x < m <=> x \notin From(c, g[i])
      OBVIOUS
    <3>1. x \in DOMAIN msg /\ Numbers(msg, x) /\ Numbers(msg, m)
      BY <1>1, <2>2, TreeCell
    <3>2. x < m <=> msg[x].at < msg[m].at
      BY <2>2, <3>1, TreeOrder
    <3>3. x \in From(c, g[i]) <=> g[i] <= msg[x].at
      BY DEF From, M
    <3> QED
      BY <2>2, <3>1, <3>2, <3>3 DEF Numbers
  <2>4. Before(c, m) = M \ From(c, g[i])
    BY <2>3 DEF Before, M
  <2> QED
    BY <1>9, <1>10, <2>2, <2>4
<1> QED
  BY <1>9, <1>10 DEF e, M

(* What opo_val_get answers for one part of a path: the first member that  *)
(* is asked for, and that there is none when there is none.                *)
LEMMA SeekIs ==
  ASSUME Tree(msg), NEW c \in DOMAIN msg, NEW part, part.index \in Nat \cup {Reader!NoIndex}
  PROVE  /\ \A m \in DOMAIN msg :
               /\ msg[c].kind \in Containers /\ m \in Members(msg[c]) /\ Asked(part, m, c)
               /\ \A x \in Members(msg[c]) : x < m => ~Asked(part, x, c)
               => Reader!Seek(msg[c], part) = msg[m].at
         /\ ~Leads(part, c) => Reader!Seek(msg[c], part) = Reader!Nowhere
<1>1. PICK k, g : /\ FindsBy(Over(msg[c]), part.key, k)
                  /\ RoundsBy(Over(msg[c]), msg[c].at + 5, g)
                  /\ msg[c].kind = "OBJ" => Reader!Seek(msg[c], part) = k[msg[c].at + 5]
                  /\ msg[c].kind = "ARRAY" =>
                         Reader!Seek(msg[c], part) =
                             IF part.index # Reader!NoIndex /\ g[part.index] < Over(msg[c])
                             THEN g[part.index] ELSE Reader!Nowhere
                  /\ msg[c].kind \notin Containers => Reader!Seek(msg[c], part) = Reader!Nowhere
  BY SeekRuns
<1>2. CASE msg[c].kind = "OBJ"
  <2>1. \A m : Asked(part, m, c) <=> msg[m - 1].field = part.key
    BY <1>2 DEF Asked, Part, KeyPart
  <2>2. \A m \in Members(msg[c]) :
            /\ msg[m - 1].field = part.key
            /\ \A x \in Members(msg[c]) : x < m => msg[x - 1].field # part.key
            => k[msg[c].at + 5] = msg[m].at
    BY <1>1, <1>2, KeyFound
  <2>3. (\A m \in Members(msg[c]) : msg[m - 1].field # part.key) => k[msg[c].at + 5] = Reader!Nowhere
    BY <1>1, <1>2, KeyFound
  <2>4. msg[c].kind \in Containers
    BY <1>2 DEF Containers
  <2>5. Leads(part, c) <=> \E m \in Members(msg[c]) : Asked(part, m, c)
    BY <2>4 DEF Leads
  <2>6. Reader!Seek(msg[c], part) = k[msg[c].at + 5]
    BY <1>1, <1>2
  <2>7. ~Leads(part, c) => Reader!Seek(msg[c], part) = Reader!Nowhere
    BY <2>1, <2>3, <2>5, <2>6
  <2>8. \A m \in Members(msg[c]) :
            Asked(part, m, c) /\ (\A x \in Members(msg[c]) : x < m => ~Asked(part, x, c))
            => Reader!Seek(msg[c], part) = msg[m].at
    BY <2>1, <2>2, <2>6
  <2> QED
    BY <2>7, <2>8
<1>3. CASE msg[c].kind = "ARRAY"
  <2>1. msg[c].kind # "OBJ" /\ msg[c].kind \in Containers
    BY <1>3 DEF Containers
  <2>2. \A m : Asked(part, m, c) <=> part.index = Cardinality(Before(c, m))
    BY <2>1 DEF Asked, Part, IndexPart, Before
  <2>3. Leads(part, c) <=> \E m \in Members(msg[c]) : Asked(part, m, c)
    BY <2>1 DEF Leads
  <2>4. Reader!Seek(msg[c], part) = IF part.index # Reader!NoIndex /\ g[part.index] < Over(msg[c])
                                    THEN g[part.index] ELSE Reader!Nowhere
    BY <1>1, <1>3
  <2>5. Members(msg[c]) \subseteq DOMAIN msg /\ DOMAIN msg = 1 .. Len(msg) /\ Len(msg) \in Nat
    BY <2>1, StrideEnds, TreeCells
  <2>6. IsFiniteSet(Members(msg[c]))
    <3>1. IsFiniteSet(DOMAIN msg)
      BY <2>5, FS_Interval
    <3> QED
      BY <2>5, <3>1, FS_Subset
  <2>7. \A m \in Members(msg[c]) : Cardinality(Before(c, m)) < Cardinality(Members(msg[c]))
                                   /\ Cardinality(Before(c, m)) \in Nat
    <3> SUFFICES ASSUME NEW m \in Members(msg[c])
                 PROVE  Cardinality(Before(c, m)) < Cardinality(Members(msg[c])) /\ Cardinality(Before(c, m)) \in Nat
      OBVIOUS
    <3>1. Before(c, m) \subseteq Members(msg[c]) /\ m \notin Before(c, m)
      BY <2>5 DEF Before
    <3>2. IsFiniteSet(Before(c, m))
      BY <2>6, <3>1, FS_Subset
    <3>3. Cardinality(Before(c, m) \cup {m}) = Cardinality(Before(c, m)) + 1
      BY <3>1, <3>2, FS_AddElement
    <3>4. Before(c, m) \cup {m} \subseteq Members(msg[c])
      BY <3>1
    <3>5. Cardinality(Before(c, m) \cup {m}) <= Cardinality(Members(msg[c]))
      BY <2>6, <3>4, FS_Subset
    <3>6. Cardinality(Before(c, m)) \in Nat /\ Cardinality(Members(msg[c])) \in Nat
      BY <2>6, <3>2, FS_CardinalityType
    <3> QED
      BY <3>3, <3>5, <3>6
  <2>8. ASSUME NEW m \in Members(msg[c]), Asked(part, m, c) PROVE Reader!Seek(msg[c], part) = msg[m].at
    <3>1. part.index = Cardinality(Before(c, m)) /\ part.index \in Nat /\ part.index # Reader!NoIndex
      BY <2>2, <2>7, <2>8 DEF Reader!NoIndex
    <3>2. g[part.index] < Over(msg[c])
      <4> SUFFICES ASSUME ~(g[part.index] < Over(msg[c])) PROVE FALSE
        OBVIOUS
      <4>1. Cardinality(Members(msg[c])) <= part.index
        BY <1>1, <1>3, <3>1, RoundIs
      <4>2. Cardinality(Members(msg[c])) \in Nat
        BY <2>6, FS_CardinalityType
      <4> QED
        BY <2>7, <3>1, <4>1, <4>2
    <3>3. PICK x \in Members(msg[c]) : msg[x].at = g[part.index] /\ Cardinality(Before(c, x)) = part.index
      BY <1>1, <1>3, <3>1, <3>2, RoundIs
    <3>4. x \in Nat /\ m \in Nat
      BY <2>5
    <3>5. ~(x < m) /\ ~(m < x)
      <4>1. x < m => Cardinality(Before(c, x)) < Cardinality(Before(c, m))
        BY <2>1, BeforeMore
      <4>2. m < x => Cardinality(Before(c, m)) < Cardinality(Before(c, x))
        BY <2>1, BeforeMore
      <4> QED
        BY <3>1, <3>3, <4>1, <4>2
    <3>6. x = m
      BY <3>4, <3>5
    <3> QED
      BY <2>4, <3>1, <3>2, <3>3, <3>6
  <2>9. ASSUME ~Leads(part, c) PROVE Reader!Seek(msg[c], part) = Reader!Nowhere
    <3> SUFFICES ASSUME part.index # Reader!NoIndex, g[part.index] < Over(msg[c]) PROVE FALSE
      BY <2>4
    <3>1. part.index \in Nat
      OBVIOUS
    <3>2. \E m \in Members(msg[c]) : msg[m].at = g[part.index] /\ Cardinality(Before(c, m)) = part.index
      BY <1>1, <1>3, <3>1, RoundIs
    <3> QED
      BY <2>2, <2>3, <2>9, <3>2
  <2> QED
    BY <2>8, <2>9
<1>4. CASE msg[c].kind \notin Containers
  <2>1. ~Leads(part, c)
    BY <1>4 DEF Leads
  <2> QED
    BY <1>1, <1>4
<1>5. msg[c].kind = "OBJ" \/ msg[c].kind = "ARRAY" \/ msg[c].kind \notin Containers
  BY DEF Containers
<1> QED
  BY <1>2, <1>3, <1>4, <1>5
-----------------------------------------------------------------------------
(* The container a value is a member of: one, but for the first value.     *)
LEMMA AroundIs ==
  ASSUME Tree(msg), NEW i \in Nat
  PROVE  /\ \A j \in Around(i) : /\ j \in DOMAIN msg /\ j \in Nat /\ j < i /\ i \in DOMAIN msg
                                 /\ msg[j].kind \in Containers /\ i \in Members(msg[j])
         /\ \A j, k \in Around(i) : j = k
         /\ i \in DOMAIN msg /\ ~IsKey(msg[i]) /\ Around(i) = {} => i = 1
<1>1. ASSUME NEW j \in Around(i)
      PROVE  /\ j \in DOMAIN msg /\ j \in Nat /\ j < i /\ i \in DOMAIN msg
             /\ msg[j].kind \in Containers /\ i \in Members(msg[j]) /\ Parent(msg, i, j)
  <2>1. j \in DOMAIN msg /\ msg[j].kind \in Containers /\ i \in Members(msg[j])
    BY DEF Around
  <2>2. ChildOf(msg, i, j)
    BY <2>1, MembersAre
  <2>3. j < i /\ i \in DOMAIN msg /\ j \in Nat
    BY <2>2, ChildIn DEF Numbers
  <2> QED
    BY <2>1, <2>2, <2>3 DEF ChildOf
<1>2. ASSUME NEW j \in Around(i), NEW k \in Around(i) PROVE j = k
  <2>1. j <= k /\ k <= j
    BY <1>1 DEF Parent
  <2> QED
    BY <1>1, <2>1
<1>3. ASSUME i \in DOMAIN msg, ~IsKey(msg[i]), i # 1 PROVE Around(i) # {}
  <2>1. DOMAIN msg = 1 .. Len(msg) /\ Len(msg) \in Nat /\ 1 \in DOMAIN msg /\ In(msg[i], msg[1])
    BY <1>3, TreeCells, TreeIn
  <2> DEFINE S == {n \in Nat : n <= Len(msg) /\ In(msg[i], msg[Len(msg) - n])}
  <2>2. Len(msg) - 1 \in S
    <3>1. Len(msg) - 1 \in Nat /\ Len(msg) - 1 <= Len(msg) /\ Len(msg) - (Len(msg) - 1) = 1
      BY <2>1
    <3> QED
      BY <2>1, <3>1
  <2>3. PICK n \in S : \A m \in S : n <= m
    BY <2>2, LeastNumber
  <2> DEFINE j == Len(msg) - n
  <2>4. j <= Len(msg) /\ j \in Int /\ In(msg[i], msg[j]) /\ n <= Len(msg) - 1
    BY <2>1, <2>2, <2>3
  <2>5. j \in DOMAIN msg
    BY <2>1, <2>3, <2>4
  <2>6. \A k \in DOMAIN msg : In(msg[i], msg[k]) => k <= j
    <3> SUFFICES ASSUME NEW k \in DOMAIN msg, In(msg[i], msg[k]) PROVE k <= j
      OBVIOUS
    <3>1. Len(msg) - k \in Nat /\ Len(msg) - k <= Len(msg) /\ Len(msg) - (Len(msg) - k) = k
      BY <2>1
    <3>2. Len(msg) - k \in S
      BY <3>1
    <3>3. n <= Len(msg) - k
      BY <2>3, <3>2
    <3> QED
      BY <2>1, <2>3, <3>3
  <2> HIDE DEF j
  <2>7. ChildOf(msg, i, j)
    BY <1>3, <2>4, <2>5, <2>6 DEF ChildOf, Parent
  <2>8. msg[j].kind \in Containers
    BY <2>7, ChildIn
  <2>9. i \in Members(msg[j])
    BY <1>3, <2>5, <2>7, <2>8, MembersAre
  <2> QED
    BY <2>5, <2>8, <2>9 DEF Around
<1> QED
  BY <1>1, <1>2, <1>3

Parts == [key : Nat, index : Nat \cup {Reader!NoIndex}]

(* The part of a path that leads from a container to a member.             *)
LEMMA PartIs ==
  ASSUME Tree(msg), NEW i \in Nat, NEW j \in Around(i)
  PROVE  Part(i, j) \in Parts
<1>1. /\ j \in DOMAIN msg /\ j < i /\ i \in DOMAIN msg /\ msg[j].kind \in Containers
      /\ i \in Members(msg[j])
  BY AroundIs
<1>2. CASE msg[j].kind = "OBJ"
  <2>1. ChildOf(msg, i, j) /\ ~IsKey(msg[i])
    BY <1>1, MembersAre
  <2>2. i - 1 \in DOMAIN msg
    BY <1>2, <2>1, ValueAfterKey DEF ChildOf
  <2>3. msg[i - 1].field \in Nat
    BY <2>2, TreeCell DEF Measure
  <2> QED
    BY <1>2, <2>3 DEF Part, KeyPart, Parts
<1>3. CASE msg[j].kind # "OBJ"
  <2>1. DOMAIN msg = 1 .. Len(msg) /\ Len(msg) \in Nat /\ Members(msg[j]) \subseteq DOMAIN msg
    BY <1>1, TreeCells, StrideEnds
  <2>2. IsFiniteSet(DOMAIN msg)
    BY <2>1, FS_Interval
  <2>3. {m \in Members(msg[j]) : m < i} \subseteq DOMAIN msg
    BY <2>1
  <2>4. Cardinality({m \in Members(msg[j]) : m < i}) \in Nat
    BY <2>2, <2>3, FS_Subset, FS_CardinalityType
  <2> QED
    BY <1>3, <2>4 DEF Part, IndexPart, Parts
<1> QED
  BY <1>2, <1>3

(* The path of a value is a path: that of the container it is in and one   *)
(* part more.                                                              *)
Outer(i) == CHOOSE j \in Around(i) : TRUE

LEMMA PathIs ==
  ASSUME Tree(msg)
  PROVE  \A i \in Nat : /\ PathTo[i] \in Seq(Parts)
                        /\ PathTo[i] = IF Around(i) = {} THEN <<>> ELSE Append(PathTo[Outer(i)], Part(i, Outer(i)))
<1> DEFINE D == Seq(Parts)
           F == [Nat -> D]
           Is(h) == h = [i \in Nat |-> IF Around(i) = {} THEN <<>>
                                       ELSE Append(h[Outer(i)], Part(i, Outer(i)))]
           make == [h \in F |-> [i \in Nat |-> IF Around(i) = {} THEN <<>>
                                               ELSE Append(h[Outer(i)], Part(i, Outer(i)))]]
           m == [i \in Nat |-> i]
<1>1. ASSUME NEW i \in Nat, Around(i) # {}
      PROVE  Outer(i) \in Nat /\ Outer(i) < i /\ Part(i, Outer(i)) \in Parts
  <2>1. Outer(i) \in Around(i)
    BY <1>1 DEF Outer
  <2> QED
    BY <2>1, AroundIs, PartIs
<1>2. m \in [Nat -> Nat]
  OBVIOUS
<1>3. \A p \in D, i \in Nat : Around(i) # {} => Append(p, Part(i, Outer(i))) \in D
  BY <1>1
<1>4. <<>> \in D
  OBVIOUS
<1> HIDE DEF D
<1>5. make \in [F -> F]
  <2>1. ASSUME NEW h \in F, NEW i \in Nat
        PROVE (IF Around(i) = {} THEN <<>> ELSE Append(h[Outer(i)], Part(i, Outer(i)))) \in D
    <3>1. Around(i) # {} => h[Outer(i)] \in D
      BY <1>1
    <3> QED
      BY <1>3, <1>4, <3>1
  <2> QED
    BY <2>1
<1>6. ASSUME NEW g \in F, NEW h \in F, NEW x \in Nat, \A y \in Nat : m[y] < m[x] => g[y] = h[y]
      PROVE  make[g][x] = make[h][x]
  <2>1. CASE Around(x) = {}
    BY <2>1
  <2>2. CASE Around(x) # {}
    <3>1. Outer(x) \in Nat /\ m[Outer(x)] < m[x]
      BY <1>1, <2>2
    <3>2. g[Outer(x)] = h[Outer(x)]
      BY <1>6, <3>1
    <3> HIDE DEF m
    <3> QED
      BY <2>2, <3>2
  <2> QED
    BY <2>1, <2>2
<1> HIDE DEF m
<1>7. PICK f \in F : f = make[f]
  <2> HIDE DEF make
  <2> DEFINE A == Nat
  <2>1. \A g, h \in [A -> D] : \A x \in A : (\A y \in A : m[y] < m[x] => g[y] = h[y]) => make[g][x] = make[h][x]
    BY <1>6
  <2>2. Recurs(A, D, m, make) /\ D # {}
    BY <1>2, <1>4, <1>5, <2>1 DEF Recurs
  <2> HIDE DEF A
  <2>3. \E f \in [A -> D] : f = make[f]
    BY <2>2, Recursive
  <2> QED
    BY <2>3 DEF A
<1>8. Is(f)
  BY <1>7
<1> DEFINE k == CHOOSE h : Is(h)
<1>9. Is(k)
  <2> HIDE DEF Is
  <2> QED
    BY <1>8
<1>10. PathTo = k
  BY DEF PathTo, Outer
<1> HIDE DEF k
<1>11. \A i \in Nat : k[i] = IF Around(i) = {} THEN <<>> ELSE Append(k[Outer(i)], Part(i, Outer(i)))
  BY <1>9, Zenon
<1> DEFINE S == {n \in Nat : \A i \in Nat : i < n => k[i] \in D}
<1>12. 0 \in S
  OBVIOUS
<1>13. ASSUME NEW n \in Nat, n \in S PROVE n + 1 \in S
  <2> SUFFICES ASSUME NEW i \in Nat, i < n + 1 PROVE k[i] \in D
    OBVIOUS
  <2>1. CASE Around(i) = {}
    BY <1>4, <1>11, <2>1
  <2>2. CASE Around(i) # {}
    <3>1. k[Outer(i)] \in D
      BY <1>1, <1>13, <2>2
    <3> QED
      BY <1>3, <1>11, <2>2, <3>1
  <2> QED
    BY <2>1, <2>2
<1> HIDE DEF S
<1>14. Nat \subseteq S
  BY <1>12, <1>13, SetInduction
<1>15. ASSUME NEW i \in Nat PROVE k[i] \in D
  <2>1. i + 1 \in S /\ i < i + 1
    BY <1>14
  <2> QED
    BY <2>1 DEF S
<1> QED
  BY <1>10, <1>11, <1>15 DEF D

(* A value is found unless an earlier member has its key, or it or what it *)
(* is in cannot be asked for.                                              *)
Shown(i, j) == Part(i, j).key # 0 /\ \A m \in Members(msg[j]) : m < i => Part(m, j) # Part(i, j)

(* What a value that can be asked for says of the one around it.           *)
LEMMA VisibleIs ==
  ASSUME Tree(msg), NEW i \in Nat, Visible[i], NEW j \in Around(i)
  PROVE  Visible[j] /\ Shown(i, j)
<1> DEFINE D == BOOLEAN
           F == [Nat -> D]
           Is(h) == h = [n \in Nat |-> \A o \in Around(n) : h[o] /\ Shown(n, o)]
           make == [h \in F |-> [n \in Nat |-> \A o \in Around(n) : h[o] /\ Shown(n, o)]]
           m == [n \in Nat |-> n]
<1>1. \A n \in Nat : \A o \in Around(n) : o \in Nat /\ o < n
  BY AroundIs
<1>2. m \in [Nat -> Nat]
  OBVIOUS
<1>3. make \in [F -> F]
  <2>1. ASSUME NEW h \in F, NEW n \in Nat PROVE (\A o \in Around(n) : h[o] /\ Shown(n, o)) \in D
    OBVIOUS
  <2> QED
    BY <2>1
<1>4. ASSUME NEW g \in F, NEW h \in F, NEW x \in Nat, \A y \in Nat : m[y] < m[x] => g[y] = h[y]
      PROVE  make[g][x] = make[h][x]
  <2>1. \A o \in Around(x) : g[o] = h[o]
    BY <1>1, <1>4
  <2>2. (\A o \in Around(x) : g[o] /\ Shown(x, o)) = (\A o \in Around(x) : h[o] /\ Shown(x, o))
    BY <2>1, Zenon
  <2> HIDE DEF m
  <2> QED
    BY <2>2, Zenon
<1> HIDE DEF m
<1>5. PICK f \in F : f = make[f]
  <2> HIDE DEF make
  <2> DEFINE A == Nat
  <2>1. \A g, h \in [A -> D] : \A x \in A : (\A y \in A : m[y] < m[x] => g[y] = h[y]) => make[g][x] = make[h][x]
    BY <1>4
  <2>2. Recurs(A, D, m, make) /\ D # {}
    BY <1>2, <1>3, <2>1 DEF Recurs
  <2> HIDE DEF A, D
  <2>3. \E f \in [A -> D] : f = make[f]
    BY <2>2, Recursive
  <2> QED
    BY <2>3 DEF A
<1>6. Is(f)
  BY <1>5, Zenon
<1> DEFINE k == CHOOSE h : Is(h)
<1>7. Is(k)
  <2> HIDE DEF Is
  <2> QED
    BY <1>6
<1>8. Visible = k
  BY DEF Visible, Shown
<1> HIDE DEF k
<1>9. k[i] = \A o \in Around(i) : k[o] /\ Shown(i, o)
  BY <1>7, Zenon
<1> QED
  BY <1>8, <1>9, Zenon
-----------------------------------------------------------------------------
(* Where opo_val_get can be: at a cell of the message, or nowhere.         *)
Spots == {msg[i].at : i \in DOMAIN msg} \cup {Reader!Nowhere}

(* One part leads from a cell to a cell, or nowhere.                       *)
LEMMA SeekSpots ==
  ASSUME Tree(msg), NEW c \in DOMAIN msg, NEW part \in Parts
  PROVE  Reader!Seek(msg[c], part) \in Spots
<1> DEFINE S == {m \in Members(msg[c]) : Asked(part, m, c)}
<1>1. part.index \in Nat \cup {Reader!NoIndex}
  BY DEF Parts
<1>2. CASE Leads(part, c)
  <2>1. msg[c].kind \in Containers /\ S # {}
    BY <1>2 DEF Leads
  <2>2. S \subseteq DOMAIN msg /\ DOMAIN msg = 1 .. Len(msg) /\ Len(msg) \in Nat
    BY <2>1, StrideEnds, TreeCells
  <2>3. PICK m \in S : \A x \in S : m <= x
    <3>1. S \subseteq Nat /\ S # {}
      BY <2>1, <2>2
    <3> HIDE DEF S
    <3> QED
      BY <3>1, LeastNumber
  <2>4. m \in DOMAIN msg /\ m \in Members(msg[c]) /\ Asked(part, m, c)
    BY <2>2, <2>3
  <2>5. ASSUME NEW x \in Members(msg[c]), x < m PROVE ~Asked(part, x, c)
    <3>1. x \in S => m <= x /\ m \in Nat /\ x \in Nat
      BY <2>2, <2>3
    <3>2. ~(x \in S)
      BY <2>5, <3>1
    <3> QED
      BY <3>2
  <2> HIDE DEF S
  <2>6. Reader!Seek(msg[c], part) = msg[m].at
    BY <1>1, <2>1, <2>4, <2>5, SeekIs
  <2> QED
    BY <2>4, <2>6 DEF Spots
<1>3. CASE ~Leads(part, c)
  BY <1>1, <1>3, SeekIs DEF Spots
<1> QED
  BY <1>2, <1>3

(* What is at one spot, one part further.                                  *)
Onward(spot, part) == IF spot = Reader!Nowhere THEN Reader!Nowhere
                      ELSE Reader!Seek(Reader!CellAt(spot), part)

(* So does it from any spot.                                               *)
LEMMA OnwardSpots ==
  ASSUME Tree(msg), NEW spot \in Spots, NEW part \in Parts
  PROVE  Onward(spot, part) \in Spots
<1>1. CASE spot = Reader!Nowhere
  BY <1>1 DEF Onward, Spots
<1>2. CASE spot # Reader!Nowhere
  <2>1. PICK i \in DOMAIN msg : spot = msg[i].at
    BY <1>2 DEF Spots
  <2>2. Reader!CellAt(spot) = msg[i]
    BY <2>1, CellIs
  <2>3. Onward(spot, part) = Reader!Seek(msg[i], part)
    BY <1>2, <2>2 DEF Onward
  <2> QED
    BY <2>3, SeekSpots
<1> QED
  BY <1>1, <1>2

WalksBy(path, h) == /\ h[0] = 8
                    /\ \A n \in 1 .. Len(path) : h[n] = Onward(h[n - 1], path[n])

(* The calls opo_val_get makes of itself, one for each part.               *)
LEMMA GetRuns ==
  ASSUME Tree(msg), NEW path \in Seq(Parts)
  PROVE  \E h : WalksBy(path, h) /\ Reader!Get(path) = h[Len(path)]
<1> DEFINE Is(h) == h = [n \in 0 .. Len(path) |->
                           IF n = 0 THEN 8
                           ELSE IF h[n - 1] = Reader!Nowhere THEN Reader!Nowhere
                           ELSE Reader!Seek(Reader!CellAt(h[n - 1]), path[n])]
           D == Spots
           e == 8
           step == [n \in Nat |-> [x \in D |-> IF n + 1 \in DOMAIN path THEN Onward(x, path[n + 1]) ELSE x]]
<1>1. Len(path) \in Nat /\ DOMAIN path = 1 .. Len(path)
  OBVIOUS
<1>2. e \in D
  BY TreeCells DEF Spots, Tree, Id
<1>3. step \in [Nat -> [D -> D]]
  <2>1. ASSUME NEW n \in Nat, NEW x \in D
        PROVE (IF n + 1 \in DOMAIN path THEN Onward(x, path[n + 1]) ELSE x) \in D
    <3>1. n + 1 \in DOMAIN path => path[n + 1] \in Parts
      OBVIOUS
    <3> QED
      BY <3>1, OnwardSpots
  <2> QED
    BY <2>1
<1>4. \A n \in Nat, x \in D : step[n][x] = IF n + 1 \in DOMAIN path THEN Onward(x, path[n + 1]) ELSE x
  OBVIOUS
<1> HIDE DEF step, D, e
<1>5. PICK g : Iterates(D, e, step, g)
  BY <1>2, <1>3, Recursion
<1>6. g \in [Nat -> D] /\ g[0] = 8 /\ \A n \in Nat : g[n + 1] = step[n][g[n]]
  BY <1>5 DEF Iterates, e
<1> DEFINE f == [n \in 0 .. Len(path) |-> g[n]]
<1>7. ASSUME NEW n \in 0 .. Len(path)
      PROVE  f[n] = IF n = 0 THEN 8
                    ELSE IF f[n - 1] = Reader!Nowhere THEN Reader!Nowhere
                    ELSE Reader!Seek(Reader!CellAt(f[n - 1]), path[n])
  <2>1. CASE n = 0
    BY <1>1, <1>6, <2>1
  <2>2. CASE n # 0
    <3>1. n - 1 \in Nat /\ (n - 1) + 1 = n /\ n \in DOMAIN path /\ n - 1 \in 0 .. Len(path)
      BY <1>1, <2>2
    <3>2. g[n] = step[n - 1][g[n - 1]] /\ g[n - 1] \in D
      BY <1>6, <3>1
    <3>3. g[n] = Onward(g[n - 1], path[n])
      BY <1>4, <3>1, <3>2
    <3> QED
      BY <2>2, <3>1, <3>3 DEF Onward
  <2> QED
    BY <2>1, <2>2
<1>8. f = [n \in 0 .. Len(path) |->
             IF n = 0 THEN 8
             ELSE IF f[n - 1] = Reader!Nowhere THEN Reader!Nowhere
             ELSE Reader!Seek(Reader!CellAt(f[n - 1]), path[n])]
  <2> DEFINE G(n) == IF n = 0 THEN 8
                     ELSE IF f[n - 1] = Reader!Nowhere THEN Reader!Nowhere
                     ELSE Reader!Seek(Reader!CellAt(f[n - 1]), path[n])
  <2>1. \A n \in 0 .. Len(path) : f[n] = G(n)
    BY <1>7
  <2> HIDE DEF G
  <2>2. f = [n \in 0 .. Len(path) |-> G(n)]
    BY <2>1
  <2> HIDE DEF f
  <2> QED
    BY <2>2 DEF G
<1> HIDE DEF f
<1>9. Is(f)
  BY <1>8
<1> DEFINE k == CHOOSE h : Is(h)
<1>10. Is(k)
  <2> HIDE DEF Is
  <2> QED
    BY <1>9
<1>11. Reader!Get(path) = k[Len(path)]
  BY DEF Reader!Get
<1> HIDE DEF k
<1>12. \A n \in 0 .. Len(path) : k[n] = IF n = 0 THEN 8 ELSE Onward(k[n - 1], path[n])
  BY <1>10, Zenon DEF Onward
<1>13. 0 \in 0 .. Len(path) /\ \A n \in 1 .. Len(path) : n \in 0 .. Len(path) /\ n # 0
  BY <1>1
<1>14. WalksBy(path, k)
  BY <1>12, <1>13 DEF WalksBy
<1> QED
  BY <1>11, <1>14

(* A path of one part more leads on from where the path leads.             *)
LEMMA GetMore ==
  ASSUME Tree(msg), NEW path \in Seq(Parts), NEW part \in Parts
  PROVE  Reader!Get(Append(path, part)) = Onward(Reader!Get(path), part)
<1> DEFINE more == Append(path, part)
           l == Len(path)
<1>1. /\ more \in Seq(Parts) /\ Len(more) = l + 1 /\ l \in Nat /\ more[l + 1] = part
      /\ \A n \in 1 .. l : more[n] = path[n]
  OBVIOUS
<1> HIDE DEF more, l
<1>2. PICK h : WalksBy(path, h) /\ Reader!Get(path) = h[l]
  BY GetRuns DEF l
<1>3. PICK k : WalksBy(more, k) /\ Reader!Get(more) = k[Len(more)]
  BY <1>1, GetRuns
<1>4. h[0] = 8 /\ \A n \in 1 .. l : h[n] = Onward(h[n - 1], path[n])
  BY <1>2 DEF WalksBy, l
<1>5. k[0] = 8 /\ \A n \in 1 .. l + 1 : k[n] = Onward(k[n - 1], more[n])
  BY <1>1, <1>3 DEF WalksBy
<1> DEFINE S == {n \in Nat : n <= l => k[n] = h[n]}
<1>6. 0 \in S
  BY <1>4, <1>5
<1>7. ASSUME NEW n \in Nat, n \in S PROVE n + 1 \in S
  <2> SUFFICES ASSUME n + 1 <= l PROVE k[n + 1] = h[n + 1]
    OBVIOUS
  <2>1. n + 1 \in 1 .. l /\ n + 1 \in 1 .. l + 1 /\ (n + 1) - 1 = n /\ k[n] = h[n]
    BY <1>1, <1>7
  <2>2. k[n + 1] = Onward(k[n], more[n + 1]) /\ h[n + 1] = Onward(h[n], path[n + 1])
    BY <1>4, <1>5, <2>1
  <2> QED
    BY <1>1, <2>1, <2>2
<1> HIDE DEF S
<1>8. Nat \subseteq S
  BY <1>6, <1>7, SetInduction
<1>9. k[l] = h[l]
  BY <1>1, <1>8 DEF S
<1>10. l + 1 \in 1 .. l + 1 /\ (l + 1) - 1 = l
  BY <1>1
<1>11. k[l + 1] = Onward(k[l], more[l + 1])
  BY <1>5, <1>10
<1> QED
  BY <1>1, <1>2, <1>3, <1>9, <1>11 DEF more

(* An empty path leads to the value itself.                                *)
LEMMA GetNone ==
  ASSUME Tree(msg)
  PROVE  Reader!Get(<<>>) = 8 /\ <<>> \in Seq(Parts)
<1>1. <<>> \in Seq(Parts) /\ Len(<<>>) = 0
  OBVIOUS
<1> DEFINE none == <<>>
<1>2. none \in Seq(Parts) /\ Len(none) = 0
  OBVIOUS
<1> HIDE DEF none
<1>3. \E h : WalksBy(none, h) /\ Reader!Get(none) = h[Len(none)]
  BY <1>2, GetRuns
<1>4. Reader!Get(none) = 8
  BY <1>2, <1>3 DEF WalksBy
<1> QED
  BY <1>1, <1>4 DEF none

(* A value that no earlier member hides is found under its path.           *)
LEMMA FoundThere ==
  ASSUME Tree(msg), NEW i \in DOMAIN msg, ~IsKey(msg[i]), Visible[i]
  PROVE  Reader!Get(PathTo[i]) = msg[i].at
<1> DEFINE Found(n) == n \in DOMAIN msg /\ ~IsKey(msg[n]) /\ Visible[n] => Reader!Get(PathTo[n]) = msg[n].at
           S == {l \in Nat : \A n \in Nat : n < l => Found(n)}
<1>1. 0 \in S
  OBVIOUS
<1>2. ASSUME NEW l \in Nat, l \in S PROVE l + 1 \in S
  <2> SUFFICES ASSUME NEW n \in Nat, n < l + 1, n \in DOMAIN msg, ~IsKey(msg[n]), Visible[n]
               PROVE  Reader!Get(PathTo[n]) = msg[n].at
    OBVIOUS
  <2>1. CASE Around(n) = {}
    <3>1. n = 1
      BY <2>1, AroundIs
    <3>2. PathTo[n] = <<>>
      BY <2>1, PathIs
    <3>3. Reader!Get(<<>>) = 8
      BY GetNone
    <3>4. msg[1].at = 8
      BY DEF Tree, Id
    <3> QED
      BY <3>1, <3>2, <3>3, <3>4
  <2>2. CASE Around(n) # {}
    <3> DEFINE j == Outer(n)
               part == Part(n, j)
    <3>1. j \in Around(n)
      BY <2>2 DEF Outer
    <3>2. PathTo[n] = Append(PathTo[j], part)
      BY <2>2, PathIs
    <3> HIDE DEF j
    <3>3. j \in DOMAIN msg /\ j \in Nat /\ j < n /\ msg[j].kind \in Containers /\ n \in Members(msg[j])
      BY <3>1, AroundIs
    <3>4. PathTo[j] \in Seq(Parts) /\ part \in Parts
      BY <3>1, <3>3, PathIs, PartIs
    <3>5. Visible[j] /\ Shown(n, j)
      BY <3>1, VisibleIs
    <3>6. ~IsKey(msg[j])
      BY <3>3 DEF IsKey, Containers
    <3>7. Reader!Get(PathTo[j]) = msg[j].at
      <4>1. j < l
        BY <3>3
      <4> QED
        BY <1>2, <3>3, <3>5, <3>6, <4>1
    <3>8. part.index \in Nat \cup {Reader!NoIndex}
      BY <3>4 DEF Parts
    <3>9. Asked(part, n, j)
      BY DEF Asked
    <3>10. ASSUME NEW x \in Members(msg[j]), x < n PROVE ~Asked(part, x, j)
      <4>1. Part(x, j) # part
        BY <3>5, <3>10 DEF Shown
      <4>2. CASE msg[j].kind = "OBJ"
        BY <4>1, <4>2 DEF Asked, Part, KeyPart
      <4>3. CASE msg[j].kind # "OBJ"
        BY <4>1, <4>3 DEF Asked, Part, IndexPart
      <4> QED
        BY <4>2, <4>3
    <3> HIDE DEF part
    <3>11. Reader!Seek(msg[j], part) = msg[n].at
      BY <3>3, <3>8, <3>9, <3>10, SeekIs
    <3>12. Reader!CellAt(msg[j].at) = msg[j] /\ msg[j].at # Reader!Nowhere
      BY <3>3, CellIs, TreeCell DEF Numbers, Reader!Nowhere
    <3>13. Reader!Get(PathTo[n]) = Onward(msg[j].at, part)
      BY <3>2, <3>4, <3>7, GetMore DEF part
    <3> QED
      BY <3>11, <3>12, <3>13 DEF Onward
  <2> QED
    BY <2>1, <2>2
<1> HIDE DEF S
<1>3. Nat \subseteq S
  BY <1>1, <1>2, SetInduction
<1>4. i \in Nat
  BY TreeCell DEF Numbers
<1>5. i + 1 \in S /\ i < i + 1
  BY <1>3, <1>4
<1> QED
  BY <1>4, <1>5 DEF S

(* Nothing is found behind it under a part that leads to none of its       *)
(* members.                                                                *)
LEMMA NothingThere ==
  ASSUME Tree(msg), NEW i \in DOMAIN msg, ~IsKey(msg[i]), Visible[i],
         NEW part \in Parts, ~Leads(part, i)
  PROVE  Reader!Get(Append(PathTo[i], part)) = Reader!Nowhere
<1>1. i \in Nat
  BY TreeCell DEF Numbers
<1>2. PathTo[i] \in Seq(Parts) /\ Reader!Get(PathTo[i]) = msg[i].at
  BY <1>1, PathIs, FoundThere
<1>3. Reader!Get(Append(PathTo[i], part)) = Onward(msg[i].at, part)
  BY <1>2, GetMore
<1>4. Reader!CellAt(msg[i].at) = msg[i] /\ part.index \in Nat \cup {Reader!NoIndex}
  BY CellIs DEF Parts
<1>5. Reader!Seek(msg[i], part) = Reader!Nowhere
  BY <1>4, SeekIs
<1> QED
  BY <1>3, <1>4, <1>5 DEF Onward

(* opo_val_get finds every value of a message under its path, and nothing  *)
(* under a path that leads to none.                                        *)
THEOREM Finds == Proper => (Spec => []FoundByPath)
<1> SUFFICES ASSUME Proper PROVE Spec => []FoundByPath
  OBVIOUS
<1>1. ASSUME Tree(msg) PROVE FoundByPath
  <2>1. \A i : i \in DOMAIN msg /\ msg[i].kind \notin {"KEY1", "KEY2"} => i \in DOMAIN msg /\ ~IsKey(msg[i])
    BY DEF IsKey
  <2>2. \A n \in KeyLengths \ {0} : KeyPart(n) \in Parts
    BY BuilderAssumption DEF KeyPart, Parts
  <2>3. \A n \in 0 .. 2 : IndexPart(n) \in Parts
    BY DEF IndexPart, Parts
  <2> QED
    BY <1>1, <2>1, <2>2, <2>3, FoundThere, NothingThere DEF FoundByPath
<1>2. (Taken => Tree(msg)) => FoundByPath
  BY <1>1 DEF FoundByPath
<1> QED
  BY <1>2, TakenTree, PTL
=============================================================================
