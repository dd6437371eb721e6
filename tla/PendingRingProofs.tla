------------------------- MODULE PendingRingProofs -------------------------
(***************************************************************************)
(* Proofs about PendingRing, for every ring size, number of callers and of *)
(* queries, whatever answers the server leaves out and whichever writes    *)
(* fail.  They need what Benign asks: one processing thread, no repeated   *)
(* answers, and a callback with every query when answers may be lost.      *)
(***************************************************************************)
EXTENDS PendingRing, SequenceTheorems, FiniteSetTheorems, TLAPS

Benign == /\ \A p, r \in Processors : p = r
          /\ Repeats = "none"
          /\ Lossy => Callbacks \subseteq {TRUE}

(* The slot of query k: the slots are filled in turn.                      *)
Place(k) == (k - 1) % PendingMax

(* 1 while some thread of T is at one of the places S.                     *)
Some(T, pc, S) == IF \E t \in T : pc[t] \in S THEN 1 ELSE 0

(* How many queries were taken off the head, marked sent, passed by tail,  *)
(* offered to the socket, passed by on_deck; and how many slots are not in *)
(* a processor's hands.                                                    *)
Took == Len(done) + Some(Processors, ppc, {"mark", "call"})
Sent == Issued - Some(Callers, kpc, {"send"})
Moved == Issued - Some(Callers, kpc, {"send", "advance"})
Written == Issued - Some(Callers, kpc, {"send", "advance", "write"})
Decked == resolved - IF rpc \in {"skipped", "delivered"} THEN 1 ELSE 0
Room == PendingMax - Some(Processors, ppc, Using)

(* The callback of query k is owed r once the positions A of w arrived.    *)
Owed(k, r, A, w) == IF \E j \in A : w[j] = k
                    THEN r = k
                    ELSE \E j \in A : w[j] > k /\ r = -w[j]

CountInv == /\ Took <= resolved
            /\ resolved <= Written
            /\ Issued <= Took + Room
            /\ 0 <= Decked

PointerInv == /\ head = Place(Took + 1)
              /\ onDeck = Place(Decked + 1)
              /\ tail = Place(Moved + 1)

CallerInv == /\ \A j, k \in Callers : kpc[j] # "idle" /\ kpc[k] # "idle" => j = k
             /\ \A k \in Callers :
                  /\ kpc[k] # "idle" => tailLock
                  /\ kpc[k] = "check" => nextId <= MaxQueries
                  /\ kpc[k] \in {"send", "advance", "write"} => own[k] = Place(Issued)

(* What the slot of query k holds while k is not in a processor's hands.   *)
SlotOK(k) == LET i == Place(k)
             IN  /\ k <= resolved => state[i] = "ready" /\ Owed(k, resp[i], arrived, wire)
                 /\ resolved < k => resp[i] = NoResp
                 /\ resolved < k /\ k <= Sent => state[i] = "sent"
                 /\ Sent < k => state[i] = "clear"
                 /\ k <= Issued => id[i] = k /\ (Lossy => cb[i])
                 /\ Issued < k => id[i] = NoId

SlotInv == \A k \in Took + 1 .. Took + Room : SlotOK(k)

TakenInv == \A p \in Processors : ppc[p] \in Using =>
              /\ Took >= 1
              /\ taken[p] = Place(Took)
              /\ state[taken[p]] = IF ppc[p] = "mark" THEN "ready" ELSE "taken"
              /\ ppc[p] # "clear" => /\ id[taken[p]] = Took
                                     /\ Owed(Took, resp[taken[p]], arrived, wire)
              /\ ppc[p] = "clear" => id[taken[p]] = NoId /\ resp[taken[p]] = NoResp

WireInv == /\ \A i, j \in DOMAIN wire : i < j => wire[i] < wire[j]
           /\ \A j \in DOMAIN wire : wire[j] <= Written
           /\ ~Lossy => Len(wire) = Written /\ \A j \in DOMAIN wire : wire[j] = j

Matching == {"match", "skip", "skipped"}

ArrivedInv == /\ \A a \in arrived : wire[a] <= resolved \/ (rpc \in Matching /\ wire[a] = msg)
              /\ IF rpc \in Matching
                 THEN /\ resolved < msg
                      /\ \E a \in arrived : wire[a] = msg
                      /\ ~Lossy => msg = resolved + 1
                 ELSE resolved = 0 \/ \E a \in arrived : wire[a] = resolved
              /\ rpc \in {"skip", "skipped"} => target = Place(msg)

DoneInv == \A k \in DOMAIN done : done[k].id = k /\ Owed(k, done[k].resp, arrived, wire)

IInv == /\ TypeOK
        /\ CountInv /\ PointerInv /\ CallerInv
        /\ SlotInv /\ TakenInv
        /\ WireInv /\ ArrivedInv /\ DoneInv
-----------------------------------------------------------------------------
(* What the remainder of a multiple and a bit is.                          *)
LEMMA Remainder ==
  ASSUME NEW N \in Nat \ {0}, NEW q \in Int, NEW r \in 0 .. N - 1
  PROVE  (N * q + r) % N = r
OBVIOUS

(* The remainder goes up with its number, and wraps.                       *)
LEMMA RemainderOfSum ==
  ASSUME NEW N \in Nat \ {0}, NEW a \in Nat, NEW n \in 0 .. N
  PROVE  (a + n) % N = IF (a % N) + n < N THEN (a % N) + n ELSE (a % N) + n - N
<1> DEFINE q == a \div N
           r == a % N
<1>1. q \in Int /\ r \in 0 .. N - 1
  OBVIOUS
<1>2. a = N * q + r
  BY Z3
<1>3. N * (q + 1) = N * q + N /\ N * q \in Int
  BY <1>1
<1>4. a + n = N * q + (r + n) /\ a + n = N * (q + 1) + (r + n - N)
  BY <1>1, <1>2, <1>3
<1> HIDE DEF q, r
<1>5. CASE r + n < N
  <2>1. r + n \in 0 .. N - 1
    BY <1>1, <1>5
  <2>2. (N * q + (r + n)) % N = r + n
    BY <1>1, <2>1, Remainder
  <2> QED
    BY <1>4, <1>5, <2>2 DEF r
<1>6. CASE ~(r + n < N)
  <2>1. r + n - N \in 0 .. N - 1 /\ q + 1 \in Int
    BY <1>1, <1>6
  <2>2. (N * (q + 1) + (r + n - N)) % N = r + n - N
    BY <2>1, Remainder
  <2> QED
    BY <1>4, <1>6, <2>2 DEF r
<1> QED
  BY <1>5, <1>6

(* The places of the queries from k on, once around the ring.              *)
LEMMA PlaceAhead ==
  ASSUME NEW k \in Nat \ {0}, NEW n \in 0 .. PendingMax
  PROVE  /\ Place(k) \in Slot
         /\ Place(k + n) = IF Place(k) + n < PendingMax
                           THEN Place(k) + n ELSE Place(k) + n - PendingMax
<1>1. PendingMax \in Nat \ {0} /\ k - 1 \in Nat /\ k + n - 1 = k - 1 + n
  BY PendingRingAssumption
<1>2. (k - 1 + n) % PendingMax = IF ((k - 1) % PendingMax) + n < PendingMax
                                 THEN ((k - 1) % PendingMax) + n
                                 ELSE ((k - 1) % PendingMax) + n - PendingMax
  BY <1>1, RemainderOfSum
<1>3. (k - 1) % PendingMax \in 0 .. PendingMax - 1
  BY <1>1
<1> QED
  BY <1>1, <1>2, <1>3 DEF Place, Slot

LEMMA PlaceFirst == Place(1) = 0
<1>1. PendingMax \in Nat \ {0} /\ PendingMax * 0 + 0 = 0 /\ 0 \in 0 .. PendingMax - 1
  BY PendingRingAssumption
<1>2. (PendingMax * 0 + 0) % PendingMax = 0
  BY <1>1, Remainder
<1> QED
  BY <1>1, <1>2 DEF Place

(* The pointers that wrap at end follow the queries.                       *)
LEMMA PlaceNext ==
  ASSUME NEW k \in Nat \ {0}
  PROVE  Place(k) \in Slot /\ Place(k + 1) = Succ(Place(k)) /\ Place(k + PendingMax) = Place(k)
<1>1. PendingMax \in Nat \ {0} /\ 0 \in 0 .. PendingMax /\ 1 \in 0 .. PendingMax /\ PendingMax \in 0 .. PendingMax
  BY PendingRingAssumption
<1>2. Place(k) \in Slot
  BY <1>1, PlaceAhead
<1>3. Place(k + 1) = IF Place(k) + 1 < PendingMax THEN Place(k) + 1 ELSE Place(k) + 1 - PendingMax
  BY <1>1, PlaceAhead
<1>4. Place(k + PendingMax) = IF Place(k) + PendingMax < PendingMax
                              THEN Place(k) + PendingMax ELSE Place(k) + PendingMax - PendingMax
  BY <1>1, PlaceAhead
<1> QED
  BY <1>1, <1>2, <1>3, <1>4 DEF Succ, Slot

(* Queries less than one round apart have different slots.                 *)
LEMMA PlaceApart ==
  ASSUME NEW j \in Nat \ {0}, NEW k \in Nat \ {0}, j # k, k < j + PendingMax, j < k + PendingMax
  PROVE  Place(j) # Place(k)
<1>1. ASSUME NEW a \in Nat \ {0}, NEW b \in Nat \ {0}, a < b, b < a + PendingMax
      PROVE  Place(a) # Place(b)
  <2>1. PendingMax \in Nat \ {0} /\ b - a \in 0 .. PendingMax /\ 0 < b - a /\ b - a < PendingMax /\ a + (b - a) = b
    BY <1>1, PendingRingAssumption
  <2>2. /\ Place(a) \in Slot
        /\ Place(a + (b - a)) = IF Place(a) + (b - a) < PendingMax
                                THEN Place(a) + (b - a) ELSE Place(a) + (b - a) - PendingMax
    BY <2>1, PlaceAhead
  <2> QED
    BY <2>1, <2>2 DEF Slot
<1>2. j < k \/ k < j
  OBVIOUS
<1> QED
  BY <1>1, <1>2

(* Every slot is that of one of any PendingMax queries in a row.           *)
LEMMA PlaceOnto ==
  ASSUME NEW i \in Slot, NEW t \in Nat
  PROVE  \E k \in t + 1 .. t + PendingMax : Place(k) = i
<1>1. PendingMax \in Nat \ {0} /\ t + 1 \in Nat \ {0} /\ Place(t + 1) \in Slot
  BY PendingRingAssumption, PlaceNext
<1>2. \A n \in 0 .. PendingMax :
        Place(t + 1 + n) = IF Place(t + 1) + n < PendingMax
                           THEN Place(t + 1) + n ELSE Place(t + 1) + n - PendingMax
  BY <1>1, PlaceAhead
<1>3. CASE Place(t + 1) <= i
  <2>1. i - Place(t + 1) \in 0 .. PendingMax - 1 /\ Place(t + 1) + (i - Place(t + 1)) = i
    BY <1>1, <1>3 DEF Slot
  <2>2. Place(t + 1 + (i - Place(t + 1))) = i
    BY <1>1, <1>2, <2>1 DEF Slot
  <2> QED
    BY <1>1, <2>1, <2>2
<1>4. CASE i < Place(t + 1)
  <2>1. i + PendingMax - Place(t + 1) \in 0 .. PendingMax - 1
    BY <1>1, <1>4 DEF Slot
  <2>2. Place(t + 1 + (i + PendingMax - Place(t + 1))) = i
    BY <1>1, <1>2, <2>1 DEF Slot
  <2> QED
    BY <1>1, <2>1, <2>2
<1> QED
  BY <1>1, <1>3, <1>4 DEF Slot

(* With one thread where it matters, Some tells where that one is.         *)
LEMMA SomeOne ==
  ASSUME NEW T, NEW pc, NEW S, NEW t \in T, \A u \in T : u # t => pc[u] \notin S
  PROVE  Some(T, pc, S) = IF pc[t] \in S THEN 1 ELSE 0
BY DEF Some

(* The numbers the invariant is written with, in order.                    *)
LEMMA Numbers ==
  ASSUME TypeOK
  PROVE  /\ Issued \in Nat /\ resolved \in Nat /\ Took \in Nat /\ Room \in Nat
         /\ Room <= PendingMax /\ PendingMax - 1 <= Room
         /\ PendingMax \in Nat \ {0} /\ nextId = Issued + 1
         /\ Sent \in Int /\ Moved \in Int /\ Written \in Int /\ Decked \in Int
         /\ Written <= Moved /\ Moved <= Sent /\ Sent <= Issued /\ Issued <= Written + 1
         /\ Decked <= resolved /\ Len(done) \in Nat /\ Len(done) <= Took /\ Took <= Len(done) + 1
<1>1. /\ PendingMax \in Nat \ {0} /\ Len(done) \in Nat /\ resolved \in Nat
      /\ Issued \in Nat /\ nextId = Issued + 1
  BY PendingRingAssumption DEF TypeOK, Issued
<1>2. \A T, pc, S : Some(T, pc, S) \in {0, 1}
  BY DEF Some
<1>3. /\ Some(Callers, kpc, {"send"}) <= Some(Callers, kpc, {"send", "advance"})
      /\ Some(Callers, kpc, {"send", "advance"}) <= Some(Callers, kpc, {"send", "advance", "write"})
  BY DEF Some
<1>4. /\ Some(Callers, kpc, {"send"}) \in {0, 1}
      /\ Some(Callers, kpc, {"send", "advance"}) \in {0, 1}
      /\ Some(Callers, kpc, {"send", "advance", "write"}) \in {0, 1}
      /\ Some(Processors, ppc, Using) \in {0, 1}
      /\ Some(Processors, ppc, {"mark", "call"}) \in {0, 1}
  BY <1>2
<1> QED
  BY <1>1, <1>3, <1>4 DEF Took, Room, Sent, Moved, Written, Decked

(* The queries whose slots no processor holds have each a slot of its own, *)
(* and the one a processor holds is another.                               *)
LEMMA Window ==
  ASSUME TypeOK, NEW k \in Took + 1 .. Took + Room
  PROVE  /\ k \in Nat \ {0} /\ Place(k) \in Slot
         /\ \A j \in Took + 1 .. Took + Room : j # k => Place(j) # Place(k)
         /\ Room < PendingMax /\ Took >= 1 => Place(Took) # Place(k)
<1>1. /\ Took \in Nat /\ Room \in Nat /\ PendingMax \in Nat \ {0} /\ Room <= PendingMax
      /\ PendingMax - 1 <= Room
  BY Numbers
<1>2. k \in Nat \ {0}
  BY <1>1
<1>3. ASSUME NEW j \in Took + 1 .. Took + Room, j # k PROVE Place(j) # Place(k)
  <2>1. j \in Nat \ {0} /\ k < j + PendingMax /\ j < k + PendingMax
    BY <1>1
  <2> QED
    BY <1>2, <1>3, <2>1, PlaceApart
<1>4. ASSUME Room < PendingMax, Took >= 1 PROVE Place(Took) # Place(k)
  <2>1. Took \in Nat \ {0} /\ Took # k /\ k < Took + PendingMax /\ Took < k + PendingMax
    BY <1>1, <1>4
  <2> QED
    BY <1>2, <2>1, PlaceApart
<1> QED
  BY <1>2, <1>3, <1>4, PlaceNext

(* What is owed depends only on the ids at the positions that arrived.     *)
LEMMA OwedKept ==
  ASSUME NEW A, NEW w, NEW v, \A j \in A : v[j] = w[j]
  PROVE  \A k, r : Owed(k, r, A, v) <=> Owed(k, r, A, w)
BY DEF Owed

(* The initial state satisfies the invariant.                              *)
LEMMA InitIInv == Init => IInv
<1> SUFFICES ASSUME Init PROVE IInv
  OBVIOUS
<1>1. PendingMax \in Nat \ {0} /\ MaxQueries \in Nat /\ 0 \in Slot
  BY PendingRingAssumption DEF Slot
<1>2. TypeOK
  <2>1. <<>> \in Seq(QueryId) /\ <<>> \in Seq([id : QueryId, resp : -MaxQueries .. MaxQueries])
    BY <1>1
  <2>2. /\ nextId \in 1 .. MaxQueries + 1 /\ resolved \in 0 .. MaxQueries /\ 0 \in -MaxQueries .. MaxQueries
        /\ arrived \subseteq DOMAIN wire /\ msg \in QueryId \cup {NoId}
    BY <1>1 DEF Init
  <2>3. /\ state \in [Slot -> {"clear", "sent", "ready", "taken"}]
        /\ id \in [Slot -> QueryId \cup {NoId}]
        /\ cb \in [Slot -> BOOLEAN]
        /\ resp \in [Slot -> -MaxQueries .. MaxQueries]
    BY <2>2 DEF Init, NoResp
  <2>4. /\ kpc \in [Callers -> {"idle"} \cup Holding] /\ own \in [Callers -> Slot]
        /\ ppc \in [Processors -> {"idle", "peek"} \cup Using] /\ taken \in [Processors -> Slot]
    BY <1>1 DEF Init
  <2> QED
    BY <1>1, <2>1, <2>2, <2>3, <2>4 DEF Init, TypeOK
<1>3. /\ Some(Callers, kpc, {"send"}) = 0
      /\ Some(Callers, kpc, {"send", "advance"}) = 0
      /\ Some(Callers, kpc, {"send", "advance", "write"}) = 0
      /\ Some(Processors, ppc, Using) = 0
      /\ Some(Processors, ppc, {"mark", "call"}) = 0
  BY DEF Init, Some, Using
<1>4. /\ Issued = 0 /\ Took = 0 /\ resolved = 0 /\ Sent = 0 /\ Moved = 0 /\ Written = 0
      /\ Decked = 0 /\ Room = PendingMax
  BY <1>1, <1>3 DEF Init, Issued, Took, Sent, Moved, Written, Decked, Room
<1>5. CountInv
  BY <1>1, <1>4 DEF CountInv
<1>6. PointerInv
  BY <1>4, PlaceFirst DEF PointerInv, Init
<1>7. CallerInv /\ TakenInv /\ DoneInv /\ WireInv /\ ArrivedInv
  BY <1>4 DEF CallerInv, TakenInv, DoneInv, WireInv, ArrivedInv, Matching, Init, Using
<1>8. SlotInv
  <2> SUFFICES ASSUME NEW k \in Took + 1 .. Took + Room PROVE SlotOK(k)
    BY DEF SlotInv
  <2>1. Place(k) \in Slot /\ k \in Nat \ {0}
    BY <1>2, Window
  <2> QED
    BY <1>4, <2>1 DEF SlotOK, Init
<1> QED
  BY <1>2, <1>5, <1>6, <1>7, <1>8 DEF IInv

(* Steps that change nothing keep the invariant.                           *)
LEMMA StutterIInv == ASSUME IInv, UNCHANGED vars PROVE IInv'
<1>1. UNCHANGED <<slots, caller, receiver, processor>>
  BY DEF vars
<1>2. /\ UNCHANGED <<state, id, cb, resp>>
      /\ UNCHANGED <<kpc, own, tail, tailLock, nextId, wire>>
      /\ UNCHANGED <<rpc, msg, target, onDeck, arrived, resolved>>
      /\ UNCHANGED <<ppc, taken, head, headLock, done>>
  BY <1>1 DEF slots, caller, receiver, processor
<1>3. UNCHANGED <<Issued, Took, Sent, Moved, Written, Decked, Room>>
  BY <1>2 DEF Issued, Took, Sent, Moved, Written, Decked, Room
<1>4. TypeOK' /\ CountInv' /\ PointerInv' /\ CallerInv'
  BY <1>2, <1>3 DEF IInv, TypeOK, CountInv, PointerInv, CallerInv
<1>5. SlotInv'
  BY <1>2, <1>3 DEF IInv, SlotInv, SlotOK
<1>6. TakenInv' /\ WireInv' /\ ArrivedInv' /\ DoneInv'
  BY <1>2, <1>3 DEF IInv, TakenInv, WireInv, ArrivedInv, DoneInv
<1> QED
  BY <1>4, <1>5, <1>6 DEF IInv
-----------------------------------------------------------------------------
(* opo_client_query *)

(* One caller at a time is inside, so the numbers follow where it is.      *)
LEMMA Inside ==
  ASSUME IInv, NEW k \in Callers, kpc[k] # "idle" \/ ~tailLock
  PROVE  /\ \A j \in Callers : j # k => kpc[j] = "idle"
         /\ Sent = Issued - IF kpc[k] \in {"send"} THEN 1 ELSE 0
         /\ Moved = Issued - IF kpc[k] \in {"send", "advance"} THEN 1 ELSE 0
         /\ Written = Issued - IF kpc[k] \in {"send", "advance", "write"} THEN 1 ELSE 0
<1>1. \A j \in Callers : j # k => kpc[j] = "idle"
  BY DEF IInv, CallerInv
<1>2. \A j \in Callers : j # k => kpc[j] \notin {"send", "advance", "write"}
  BY <1>1
<1>3. /\ Some(Callers, kpc, {"send"}) = IF kpc[k] \in {"send"} THEN 1 ELSE 0
      /\ Some(Callers, kpc, {"send", "advance"}) = IF kpc[k] \in {"send", "advance"} THEN 1 ELSE 0
      /\ Some(Callers, kpc, {"send", "advance", "write"}) = IF kpc[k] \in {"send", "advance", "write"} THEN 1 ELSE 0
  BY <1>2, SomeOne
<1> QED
  BY <1>1, <1>3 DEF Sent, Moved, Written

(* And after it moved.                                                     *)
LEMMA InsideNext ==
  ASSUME IInv, NEW k \in Callers, kpc[k] # "idle" \/ ~tailLock,
         NEW to, kpc' = [kpc EXCEPT ![k] = to]
  PROVE  /\ kpc'[k] = to
         /\ \A j \in Callers : j # k => kpc'[j] = "idle"
         /\ Sent' = Issued' - IF to \in {"send"} THEN 1 ELSE 0
         /\ Moved' = Issued' - IF to \in {"send", "advance"} THEN 1 ELSE 0
         /\ Written' = Issued' - IF to \in {"send", "advance", "write"} THEN 1 ELSE 0
<1>1. kpc'[k] = to /\ \A j \in Callers : j # k => kpc'[j] = "idle"
  BY Inside DEF IInv, TypeOK
<1>2. \A j \in Callers : j # k => kpc'[j] \notin {"send", "advance", "write"}
  BY <1>1
<1>3. /\ Some(Callers, kpc', {"send"}) = IF kpc'[k] \in {"send"} THEN 1 ELSE 0
      /\ Some(Callers, kpc', {"send", "advance"}) = IF kpc'[k] \in {"send", "advance"} THEN 1 ELSE 0
      /\ Some(Callers, kpc', {"send", "advance", "write"}) = IF kpc'[k] \in {"send", "advance", "write"} THEN 1 ELSE 0
  BY <1>2, Zenon DEF Some
<1> QED
  BY <1>1, <1>3 DEF Sent, Moved, Written

(* Taking tail_lock and dropping it changes none of the numbers.           *)
LEMMA LockKeeps ==
  ASSUME IInv, NEW k \in Callers, QueryLock(k) \/ QueryBusy(k) \/ QueryUnlock(k)
  PROVE  IInv'
<1>1. PICK to \in {"check", "idle"} :
        /\ kpc' = [kpc EXCEPT ![k] = to]
        /\ to = "check" => nextId <= MaxQueries /\ tailLock'
  BY DEF QueryLock, QueryBusy, QueryUnlock, CallerAt
<1>2. /\ UNCHANGED <<own, tail, nextId, wire>>
      /\ UNCHANGED <<state, id, cb, resp>>
      /\ UNCHANGED <<rpc, msg, target, onDeck, arrived, resolved>>
      /\ UNCHANGED <<ppc, taken, head, headLock, done>>
      /\ tailLock' \in BOOLEAN
  BY DEF QueryLock, QueryBusy, QueryUnlock, slots, receiver, processor
<1>3. kpc[k] \in {"idle", "check", "unlock"} /\ (kpc[k] # "idle" \/ ~tailLock)
  BY DEF QueryLock, QueryBusy, QueryUnlock, CallerAt
<1>4. /\ kpc'[k] = to /\ \A j \in Callers : j # k => kpc'[j] = "idle"
      /\ UNCHANGED <<Issued, Sent, Moved, Written>>
  <2>1. Issued' = Issued
    BY <1>2 DEF Issued
  <2>2. Issued \in Nat
    BY Numbers DEF IInv
  <2>3. /\ kpc[k] \notin {"send", "advance", "write"} /\ to \notin {"send", "advance", "write"}
        /\ kpc[k] \notin {"send", "advance"} /\ to \notin {"send", "advance"}
        /\ kpc[k] \notin {"send"} /\ to \notin {"send"}
    BY <1>1, <1>3
  <2>4. Sent = Issued - 0 /\ Moved = Issued - 0 /\ Written = Issued - 0
    BY <1>3, <2>3, Inside
  <2>5. /\ kpc'[k] = to /\ \A j \in Callers : j # k => kpc'[j] = "idle"
        /\ Sent' = Issued' - 0 /\ Moved' = Issued' - 0 /\ Written' = Issued' - 0
    BY <1>1, <1>3, <2>3, InsideNext
  <2> QED
    BY <2>1, <2>2, <2>4, <2>5
<1>5. UNCHANGED <<Took, Decked, Room>>
  BY <1>2 DEF Took, Decked, Room
<1>6. TypeOK'
  <2>1. kpc' \in [Callers -> {"idle"} \cup Holding]
    BY <1>1 DEF IInv, TypeOK, Holding
  <2> QED
    BY <1>2, <2>1 DEF IInv, TypeOK
<1>7. CountInv' /\ PointerInv'
  BY <1>2, <1>4, <1>5 DEF IInv, CountInv, PointerInv
<1>8. CallerInv'
  BY <1>1, <1>2, <1>4 DEF CallerInv
<1>9. SlotInv'
  BY <1>2, <1>4, <1>5 DEF IInv, SlotInv, SlotOK
<1>10. TakenInv' /\ WireInv' /\ ArrivedInv' /\ DoneInv'
  BY <1>2, <1>4, <1>5 DEF IInv, TakenInv, WireInv, ArrivedInv, DoneInv
<1> QED
  BY <1>6, <1>7, <1>8, <1>9, <1>10 DEF IInv

(* A clear slot at tail means that there is room for one query more.       *)
LEMMA ClearMeansRoom ==
  ASSUME IInv, tail = Place(Issued + 1), Sent = Issued, state[tail] = "clear"
  PROVE  Issued + 1 \in Took + 1 .. Took + Room
<1>1. /\ Took \in Nat /\ Room \in Nat /\ PendingMax \in Nat \ {0} /\ Issued \in Nat
      /\ PendingMax - 1 <= Room /\ Room <= PendingMax /\ resolved \in Nat
      /\ Written <= Issued /\ Written \in Int
  BY Numbers DEF IInv
<1>2. Took <= Issued /\ Issued <= Took + Room
  BY <1>1 DEF IInv, CountInv
<1>3. CASE Issued = Took + Room /\ Room = PendingMax
  <2>1. Took + 1 \in Nat \ {0} /\ Issued + 1 = (Took + 1) + PendingMax /\ Took + 1 <= Issued
    BY <1>1, <1>3
  <2>2. tail = Place(Took + 1)
    BY <2>1, PlaceNext
  <2>3. SlotOK(Took + 1)
    BY <1>1, <1>3, <2>1 DEF IInv, SlotInv
  <2>4. state[Place(Took + 1)] # "clear"
    BY <1>1, <2>1, <2>3 DEF SlotOK
  <2> QED
    BY <2>2, <2>4
<1>4. CASE Issued = Took + Room /\ Room # PendingMax
  <2>1. Issued + 1 = Took + PendingMax
    BY <1>1, <1>4
  <2>2. PICK p \in Processors : ppc[p] \in Using
    BY <1>1, <1>4 DEF Room, Some
  <2>3. Took >= 1 /\ state[Place(Took)] # "clear"
    BY <2>2 DEF IInv, TakenInv
  <2>4. tail = Place(Took)
    BY <1>1, <2>1, <2>3, PlaceNext
  <2> QED
    BY <2>3, <2>4
<1> QED
  BY <1>1, <1>2, <1>3, <1>4

LEMMA FillKeeps ==
  ASSUME Benign, IInv, NEW k \in Callers, QueryFill(k)
  PROVE  IInv'
<1> DEFINE n == Issued + 1
<1>1. /\ kpc[k] = "check" /\ kpc' = [kpc EXCEPT ![k] = "send"]
      /\ state[tail] = "clear" /\ nextId' = nextId + 1
      /\ own' = [own EXCEPT ![k] = tail]
      /\ id' = [id EXCEPT ![tail] = nextId]
      /\ UNCHANGED <<state, resp, tail, tailLock, wire>>
      /\ UNCHANGED <<rpc, msg, target, onDeck, arrived, resolved>>
      /\ UNCHANGED <<ppc, taken, head, headLock, done>>
  BY DEF QueryFill, CallerAt, receiver, processor
<1>2. PICK f \in Callbacks : cb' = [cb EXCEPT ![tail] = f]
  BY DEF QueryFill
<1>3. TypeOK /\ SlotInv /\ TakenInv /\ CallerInv
  BY DEF IInv
<1>4. /\ Issued \in Nat /\ nextId = n /\ Took \in Nat /\ Room \in Nat /\ PendingMax \in Nat \ {0}
      /\ resolved \in Nat
  BY <1>3, Numbers
<1>5. Sent = Issued /\ Moved = Issued /\ Written = Issued
  <2>1. Sent = Issued - 0 /\ Moved = Issued - 0 /\ Written = Issued - 0
    BY <1>1, Inside
  <2> QED
    BY <1>4, <2>1
<1>6. Issued' = n /\ Sent' = Issued /\ Moved' = Issued /\ Written' = Issued
  <2>1. Issued' = n
    BY <1>1, <1>4 DEF Issued
  <2>2. Sent' = Issued' - 1 /\ Moved' = Issued' - 1 /\ Written' = Issued' - 1
    BY <1>1, InsideNext
  <2> QED
    BY <1>4, <2>1, <2>2
<1>7. UNCHANGED <<Took, Decked, Room>>
  BY <1>1 DEF Took, Decked, Room
<1>8. tail = Place(n) /\ n \in Took + 1 .. Took + Room
  BY <1>1, <1>5, ClearMeansRoom DEF IInv, PointerInv
<1>9. tail \in Slot /\ n \in Nat \ {0}
  BY <1>3, <1>8, Window
<1>10. SlotOK(n)
  BY <1>3, <1>8 DEF SlotInv
<1> HIDE DEF n
<1>11. TypeOK'
  <2>1. nextId \in QueryId /\ nextId + 1 \in 1 .. MaxQueries + 1
    BY <1>1, <1>3, PendingRingAssumption DEF CallerInv, TypeOK, QueryId
  <2>2. kpc' \in [Callers -> {"idle"} \cup Holding] /\ own' \in [Callers -> Slot]
    BY <1>1, <1>3, <1>9 DEF TypeOK, Holding
  <2>3. id' \in [Slot -> QueryId \cup {NoId}]
    BY <1>1, <1>3, <2>1 DEF TypeOK
  <2>4. cb' \in [Slot -> BOOLEAN]
    BY <1>2, <1>3, PendingRingAssumption DEF TypeOK
  <2> QED
    BY <1>1, <1>3, <2>1, <2>2, <2>3, <2>4 DEF TypeOK
<1>12. CountInv'
  BY <1>1, <1>4, <1>5, <1>6, <1>7, <1>8 DEF IInv, CountInv, n
<1>13. PointerInv'
  BY <1>1, <1>5, <1>6, <1>7 DEF IInv, PointerInv
<1>14. CallerInv'
  <2>1. kpc'[k] = "send" /\ own'[k] = Place(Issued') /\ tailLock'
    BY <1>1, <1>3, <1>6, <1>8 DEF CallerInv, TypeOK
  <2>2. \A j \in Callers : j # k => kpc'[j] = "idle"
    BY <1>1, InsideNext
  <2> QED
    BY <2>1, <2>2 DEF CallerInv
<1>15. SlotInv'
  <2> SUFFICES ASSUME NEW m \in Took + 1 .. Took + Room PROVE SlotOK(m)'
    BY <1>7 DEF SlotInv
  <2>1. SlotOK(m) /\ m \in Nat \ {0} /\ Place(m) \in Slot
    BY <1>3, Window DEF SlotInv
  <2>2. CASE m = n
    <3>1. id'[Place(m)] = n /\ (Lossy => cb'[Place(m)])
      BY <1>1, <1>2, <1>3, <1>4, <1>8, <1>9, <2>2 DEF TypeOK, Benign
    <3>2. resolved < m /\ Sent < m /\ Sent' < m /\ m <= Issued'
      BY <1>4, <1>5, <1>6, <2>2 DEF IInv, CountInv, n
    <3>3. ~(m <= resolved) /\ ~(m <= Sent') /\ ~(Issued' < m)
      BY <1>4, <1>5, <1>6, <2>1, <2>2, <3>2 DEF n
    <3> QED
      BY <1>1, <2>1, <2>2, <3>1, <3>2, <3>3 DEF SlotOK
  <2>3. CASE m # n
    <3>1. Place(m) # tail
      BY <1>3, <1>8, <2>3, Window
    <3>2. id'[Place(m)] = id[Place(m)] /\ cb'[Place(m)] = cb[Place(m)]
      BY <1>1, <1>2, <1>3, <2>1, <3>1 DEF TypeOK
    <3>3. (m <= Sent' <=> m <= Sent) /\ (Sent' < m <=> Sent < m)
      BY <1>5, <1>6
    <3>4. (m <= Issued' <=> m <= Issued) /\ (Issued' < m <=> Issued < m)
      BY <1>4, <1>6, <2>1, <2>3 DEF n
    <3> QED
      BY <1>1, <2>1, <3>2, <3>3, <3>4 DEF SlotOK
  <2> QED
    BY <2>2, <2>3
<1>16. TakenInv'
  <2> SUFFICES ASSUME NEW p \in Processors, ppc[p] \in Using
               PROVE  id'[taken[p]] = id[taken[p]]
    BY <1>1, <1>3, <1>7 DEF TakenInv
  <2>1. taken[p] = Place(Took) /\ Took >= 1 /\ taken[p] \in Slot
    BY <1>3 DEF TakenInv, TypeOK
  <2>2. Room < PendingMax
    BY <1>4 DEF Room, Some
  <2>3. taken[p] # tail
    BY <1>3, <1>8, <2>1, <2>2, Window
  <2> QED
    BY <1>1, <1>3, <2>1, <2>3 DEF TypeOK
<1>17. WireInv' /\ ArrivedInv' /\ DoneInv'
  BY <1>1, <1>5, <1>6 DEF IInv, WireInv, ArrivedInv, DoneInv
<1> QED
  BY <1>11, <1>12, <1>13, <1>14, <1>15, <1>16, <1>17 DEF IInv

LEMMA SendKeeps ==
  ASSUME IInv, NEW k \in Callers, QuerySend(k)
  PROVE  IInv'
<1>1. /\ kpc[k] = "send" /\ kpc' = [kpc EXCEPT ![k] = "advance"]
      /\ state' = [state EXCEPT ![own[k]] = "sent"]
      /\ UNCHANGED <<id, cb, resp, own, tail, tailLock, nextId, wire>>
      /\ UNCHANGED <<rpc, msg, target, onDeck, arrived, resolved>>
      /\ UNCHANGED <<ppc, taken, head, headLock, done>>
  BY DEF QuerySend, CallerAt, receiver, processor
<1>2. TypeOK /\ SlotInv /\ TakenInv /\ CallerInv
  BY DEF IInv
<1>3. /\ Issued \in Nat /\ Took \in Nat /\ Room \in Nat /\ PendingMax \in Nat \ {0}
      /\ resolved \in Nat
  BY <1>2, Numbers
<1>4. Sent = Issued - 1 /\ Moved = Issued - 1 /\ Written = Issued - 1
  BY <1>1, Inside
<1>5. Issued' = Issued /\ Sent' = Issued /\ Moved' = Moved /\ Written' = Written
  <2>1. Issued' = Issued
    BY <1>1 DEF Issued
  <2>2. Sent' = Issued' - 0 /\ Moved' = Issued' - 1 /\ Written' = Issued' - 1
    BY <1>1, InsideNext
  <2> QED
    BY <1>3, <1>4, <2>1, <2>2
<1>6. UNCHANGED <<Took, Decked, Room>>
  BY <1>1 DEF Took, Decked, Room
<1>7. Issued \in Took + 1 .. Took + Room /\ own[k] = Place(Issued) /\ resolved < Issued
  BY <1>1, <1>2, <1>3, <1>4 DEF IInv, CountInv, CallerInv
<1>8. own[k] \in Slot /\ Issued \in Nat \ {0} /\ SlotOK(Issued)
  BY <1>2, <1>7, Window DEF SlotInv
<1>9. TypeOK'
  <2>1. kpc' \in [Callers -> {"idle"} \cup Holding]
    BY <1>1, <1>2 DEF TypeOK, Holding
  <2>2. state' \in [Slot -> {"clear", "sent", "ready", "taken"}]
    BY <1>1, <1>2 DEF TypeOK
  <2> QED
    BY <1>1, <1>2, <2>1, <2>2 DEF TypeOK
<1>10. CountInv' /\ PointerInv'
  BY <1>1, <1>5, <1>6 DEF IInv, CountInv, PointerInv
<1>11. CallerInv'
  <2>1. kpc'[k] = "advance" /\ own'[k] = Place(Issued') /\ tailLock'
    BY <1>1, <1>2, <1>5, <1>7 DEF CallerInv, TypeOK
  <2>2. \A j \in Callers : j # k => kpc'[j] = "idle"
    BY <1>1, InsideNext
  <2> QED
    BY <2>1, <2>2 DEF CallerInv
<1>12. SlotInv'
  <2> SUFFICES ASSUME NEW m \in Took + 1 .. Took + Room PROVE SlotOK(m)'
    BY <1>6 DEF SlotInv
  <2>1. SlotOK(m) /\ m \in Nat \ {0} /\ Place(m) \in Slot
    BY <1>2, Window DEF SlotInv
  <2>2. CASE m = Issued
    <3>1. state'[Place(m)] = "sent"
      BY <1>1, <1>2, <1>7, <1>8, <2>2 DEF TypeOK
    <3>2. ~(m <= resolved) /\ resolved < m /\ m <= Sent' /\ ~(Sent' < m) /\ ~(Issued' < m)
      BY <1>3, <1>5, <1>7, <2>2
    <3> QED
      BY <1>1, <1>5, <2>1, <2>2, <3>1, <3>2 DEF SlotOK
  <2>3. CASE m # Issued
    <3>1. Place(m) # own[k]
      BY <1>2, <1>7, <2>3, Window
    <3>2. state'[Place(m)] = state[Place(m)]
      BY <1>1, <1>2, <2>1, <3>1 DEF TypeOK
    <3>3. (m <= Sent' <=> m <= Sent) /\ (Sent' < m <=> Sent < m)
      BY <1>3, <1>4, <1>5, <2>1, <2>3
    <3> QED
      BY <1>1, <1>5, <2>1, <3>2, <3>3 DEF SlotOK
  <2> QED
    BY <2>2, <2>3
<1>13. TakenInv'
  <2> SUFFICES ASSUME NEW p \in Processors, ppc[p] \in Using
               PROVE  state'[taken[p]] = state[taken[p]]
    BY <1>1, <1>2, <1>6 DEF TakenInv
  <2>1. taken[p] = Place(Took) /\ Took >= 1 /\ taken[p] \in Slot
    BY <1>2 DEF TakenInv, TypeOK
  <2>2. Room < PendingMax
    BY <1>3 DEF Room, Some
  <2>3. taken[p] # own[k]
    BY <1>2, <1>7, <2>1, <2>2, Window
  <2> QED
    BY <1>1, <1>2, <2>1, <2>3 DEF TypeOK
<1>14. WireInv' /\ ArrivedInv' /\ DoneInv'
  BY <1>1, <1>5 DEF IInv, WireInv, ArrivedInv, DoneInv
<1> QED
  BY <1>9, <1>10, <1>11, <1>12, <1>13, <1>14 DEF IInv

LEMMA AdvanceKeeps ==
  ASSUME IInv, NEW k \in Callers, QueryAdvance(k)
  PROVE  IInv'
<1>1. /\ kpc[k] = "advance" /\ kpc' = [kpc EXCEPT ![k] = "write"]
      /\ tail' = Succ(tail)
      /\ UNCHANGED <<state, id, cb, resp, own, tailLock, nextId, wire>>
      /\ UNCHANGED <<rpc, msg, target, onDeck, arrived, resolved>>
      /\ UNCHANGED <<ppc, taken, head, headLock, done>>
  BY DEF QueryAdvance, CallerAt, slots, receiver, processor
<1>2. TypeOK /\ CallerInv
  BY DEF IInv
<1>3. Issued \in Nat /\ resolved \in Nat /\ Took \in Nat
  BY <1>2, Numbers
<1>4. Sent = Issued /\ Moved = Issued - 1 /\ Written = Issued - 1
  <2>1. Sent = Issued - 0 /\ Moved = Issued - 1 /\ Written = Issued - 1
    BY <1>1, Inside
  <2> QED
    BY <1>3, <2>1
<1>5. Issued' = Issued /\ Sent' = Sent /\ Moved' = Issued /\ Written' = Written
  <2>1. Issued' = Issued
    BY <1>1 DEF Issued
  <2>2. Sent' = Issued' - 0 /\ Moved' = Issued' - 0 /\ Written' = Issued' - 1
    BY <1>1, InsideNext
  <2> QED
    BY <1>3, <1>4, <2>1, <2>2
<1>6. UNCHANGED <<Took, Decked, Room>>
  BY <1>1 DEF Took, Decked, Room
<1>7. tail = Place(Issued) /\ Issued \in Nat \ {0}
  BY <1>3, <1>4 DEF IInv, PointerInv, CountInv
<1>8. tail' = Place(Issued + 1) /\ tail' \in Slot
  <2>1. Issued + 1 \in Nat \ {0}
    BY <1>7
  <2> QED
    BY <1>1, <1>7, <2>1, PlaceNext
<1>9. TypeOK'
  <2>1. kpc' \in [Callers -> {"idle"} \cup Holding]
    BY <1>1, <1>2 DEF TypeOK, Holding
  <2> QED
    BY <1>1, <1>2, <1>8, <2>1 DEF TypeOK
<1>10. CountInv'
  BY <1>1, <1>5, <1>6 DEF IInv, CountInv
<1>11. PointerInv'
  BY <1>1, <1>5, <1>6, <1>8 DEF IInv, PointerInv
<1>12. CallerInv'
  <2>1. kpc'[k] = "write" /\ own'[k] = Place(Issued') /\ tailLock'
    BY <1>1, <1>2, <1>5 DEF CallerInv, TypeOK
  <2>2. \A j \in Callers : j # k => kpc'[j] = "idle"
    BY <1>1, InsideNext
  <2> QED
    BY <2>1, <2>2 DEF CallerInv
<1>13. SlotInv'
  BY <1>1, <1>5, <1>6 DEF IInv, SlotInv, SlotOK
<1>14. TakenInv' /\ WireInv' /\ ArrivedInv' /\ DoneInv'
  BY <1>1, <1>5, <1>6 DEF IInv, TakenInv, WireInv, ArrivedInv, DoneInv
<1> QED
  BY <1>9, <1>10, <1>11, <1>12, <1>13, <1>14 DEF IInv

LEMMA WriteKeeps ==
  ASSUME IInv, NEW k \in Callers, QueryWrite(k)
  PROVE  IInv'
<1>1. /\ kpc[k] = "write" /\ kpc' = [kpc EXCEPT ![k] = "unlock"]
      /\ wire' = Append(wire, id[own[k]]) \/ (Lossy /\ wire' = wire)
      /\ UNCHANGED <<state, id, cb, resp, own, tail, tailLock, nextId>>
      /\ UNCHANGED <<rpc, msg, target, onDeck, arrived, resolved>>
      /\ UNCHANGED <<ppc, taken, head, headLock, done>>
  BY DEF QueryWrite, CallerAt, slots, receiver, processor
<1>2. TypeOK /\ CallerInv /\ SlotInv /\ WireInv
  BY DEF IInv
<1>3. Issued \in Nat /\ resolved \in Nat /\ Took \in Nat /\ Room \in Nat
  BY <1>2, Numbers
<1>4. Sent = Issued /\ Moved = Issued /\ Written = Issued - 1
  <2>1. Sent = Issued - 0 /\ Moved = Issued - 0 /\ Written = Issued - 1
    BY <1>1, Inside
  <2> QED
    BY <1>3, <2>1
<1>5. Issued' = Issued /\ Sent' = Sent /\ Moved' = Moved /\ Written' = Issued
  <2>1. Issued' = Issued
    BY <1>1 DEF Issued
  <2>2. Sent' = Issued' - 0 /\ Moved' = Issued' - 0 /\ Written' = Issued' - 0
    BY <1>1, InsideNext
  <2> QED
    BY <1>3, <1>4, <2>1, <2>2
<1>6. UNCHANGED <<Took, Decked, Room>>
  BY <1>1 DEF Took, Decked, Room
<1>7. id[own[k]] = Issued /\ Issued \in QueryId
  <2>1. Issued \in Took + 1 .. Took + Room /\ own[k] = Place(Issued)
    BY <1>1, <1>2, <1>3, <1>4 DEF IInv, CountInv, CallerInv
  <2>2. SlotOK(Issued)
    BY <1>2, <2>1 DEF SlotInv
  <2>3. id[own[k]] = Issued
    BY <1>3, <2>1, <2>2 DEF SlotOK
  <2>4. Issued \in 1 .. MaxQueries
    BY <1>2, <1>3, <2>1, PendingRingAssumption DEF TypeOK, Issued
  <2> QED
    BY <2>3, <2>4 DEF QueryId
<1>8. /\ wire \in Seq(QueryId) /\ wire' \in Seq(QueryId) /\ arrived \subseteq DOMAIN wire
      /\ DOMAIN wire \subseteq DOMAIN wire' /\ \A j \in DOMAIN wire : wire'[j] = wire[j]
  <2>1. wire \in Seq(QueryId) /\ arrived \subseteq DOMAIN wire
    BY <1>2 DEF TypeOK
  <2>2. CASE wire' = Append(wire, id[own[k]])
    <3>1. /\ Append(wire, Issued) \in Seq(QueryId)
          /\ DOMAIN wire = 1 .. Len(wire) /\ Len(wire) \in Nat
          /\ DOMAIN Append(wire, Issued) = 1 .. Len(wire) + 1
          /\ \A j \in DOMAIN wire : Append(wire, Issued)[j] = wire[j]
      BY <1>7, <2>1
    <3> QED
      BY <1>7, <2>1, <2>2, <3>1
  <2>3. CASE wire' = wire
    BY <2>1, <2>3
  <2> QED
    BY <1>1, <2>2, <2>3
<1>9. \A m, r : Owed(m, r, arrived', wire') <=> Owed(m, r, arrived, wire)
  <2>1. \A j \in arrived : wire'[j] = wire[j]
    BY <1>8
  <2> QED
    BY <1>1, <2>1, OwedKept
<1>10. TypeOK'
  <2>1. kpc' \in [Callers -> {"idle"} \cup Holding]
    BY <1>1, <1>2 DEF TypeOK, Holding
  <2>2. arrived' \subseteq DOMAIN wire'
    BY <1>1, <1>8
  <2> QED
    BY <1>1, <1>2, <1>8, <2>1, <2>2 DEF TypeOK
<1>11. CountInv'
  BY <1>1, <1>3, <1>4, <1>5, <1>6 DEF IInv, CountInv
<1>12. PointerInv'
  BY <1>1, <1>5, <1>6 DEF IInv, PointerInv
<1>13. CallerInv'
  <2>1. kpc'[k] = "unlock" /\ tailLock'
    BY <1>1, <1>2 DEF CallerInv, TypeOK
  <2>2. \A j \in Callers : j # k => kpc'[j] = "idle"
    BY <1>1, InsideNext
  <2> QED
    BY <2>1, <2>2 DEF CallerInv
<1>14. SlotInv'
  BY <1>1, <1>5, <1>6, <1>9 DEF IInv, SlotInv, SlotOK
<1>15. TakenInv' /\ DoneInv'
  BY <1>1, <1>6, <1>9 DEF IInv, TakenInv, DoneInv
<1>16. ArrivedInv'
  <2>1. \A a \in arrived' : wire'[a] = wire[a]
    BY <1>1, <1>8
  <2> QED
    BY <1>1, <2>1 DEF IInv, ArrivedInv
<1>17. \A j \in DOMAIN wire : wire[j] \in Nat /\ wire[j] < Issued
  <2> SUFFICES ASSUME NEW j \in DOMAIN wire PROVE wire[j] \in Nat /\ wire[j] < Issued
    OBVIOUS
  <2>1. wire[j] \in QueryId
    BY <1>8
  <2>2. wire[j] \in Nat /\ wire[j] <= Written
    BY <1>2, <2>1, PendingRingAssumption DEF WireInv, QueryId
  <2> QED
    BY <1>3, <1>4, <2>2
<1>18. WireInv'
  <2>1. CASE wire' = Append(wire, id[own[k]])
    <3>1. /\ Len(wire') = Len(wire) + 1 /\ DOMAIN wire' = 1 .. Len(wire) + 1 /\ Len(wire) \in Nat
          /\ wire'[Len(wire) + 1] = Issued /\ DOMAIN wire = 1 .. Len(wire)
      BY <1>7, <1>8, <2>1
    <3>2. \A j \in DOMAIN wire : wire'[j] = wire[j] /\ wire'[j] < Issued /\ wire'[j] \in Nat
      BY <1>3, <1>8, <1>17
    <3>3. \A i, j \in DOMAIN wire' : i < j => wire'[i] < wire'[j]
      BY <1>2, <1>8, <3>1, <3>2 DEF WireInv
    <3>4. \A j \in DOMAIN wire' : wire'[j] <= Issued
      BY <1>3, <3>1, <3>2
    <3>5. ~Lossy => Len(wire') = Issued /\ \A j \in DOMAIN wire' : wire'[j] = j
      BY <1>2, <1>3, <1>4, <3>1, <3>2 DEF WireInv
    <3> QED
      BY <1>5, <3>3, <3>4, <3>5 DEF WireInv
  <2>2. CASE Lossy /\ wire' = wire
    <3>1. \A j \in DOMAIN wire : wire[j] <= Issued
      BY <1>3, <1>17
    <3> QED
      BY <1>2, <1>5, <2>2, <3>1 DEF WireInv
  <2> QED
    BY <1>1, <2>1, <2>2
<1> QED
  BY <1>10, <1>11, <1>12, <1>13, <1>14, <1>15, <1>16, <1>18 DEF IInv
-----------------------------------------------------------------------------
(* process_msg *)

(* The slots of the queries sent and not resolved.                         *)
LEMMA Unresolved ==
  ASSUME IInv, NEW k \in resolved + 1 .. Written
  PROVE  /\ k \in Took + 1 .. Took + Room /\ k \in Nat \ {0} /\ Place(k) \in Slot
         /\ state[Place(k)] = "sent" /\ id[Place(k)] = k /\ resp[Place(k)] = NoResp
         /\ Lossy => cb[Place(k)]
<1>1. /\ Took \in Nat /\ Room \in Nat /\ Issued \in Nat /\ resolved \in Nat /\ Written \in Int
      /\ Sent \in Int /\ Written <= Sent /\ Written <= Issued
  BY Numbers DEF IInv
<1>2. k \in Took + 1 .. Took + Room
  BY <1>1 DEF IInv, CountInv
<1>3. SlotOK(k) /\ k \in Nat \ {0} /\ Place(k) \in Slot
  BY <1>2, Window DEF IInv, SlotInv
<1>4. resolved < k /\ k <= Sent /\ k <= Issued
  BY <1>1
<1> QED
  BY <1>2, <1>3, <1>4 DEF SlotOK

(* A response being matched answers one of them, the first if none is lost.*)
LEMMA Answers ==
  ASSUME IInv, rpc \in Matching
  PROVE  /\ msg \in resolved + 1 .. Written /\ msg \in QueryId
         /\ ~Lossy => msg = resolved + 1
         /\ resolved + 1 \in resolved + 1 .. Written
<1>1. resolved \in Nat /\ Written \in Int /\ wire \in Seq(QueryId) /\ arrived \subseteq DOMAIN wire
  BY Numbers DEF IInv, TypeOK
<1>2. PICK a \in arrived : wire[a] = msg
  BY DEF IInv, ArrivedInv
<1>3. msg <= Written /\ msg \in QueryId
  BY <1>1, <1>2 DEF IInv, WireInv
<1>4. resolved < msg /\ (~Lossy => msg = resolved + 1)
  BY DEF IInv, ArrivedInv
<1> QED
  BY <1>1, <1>3, <1>4, PendingRingAssumption DEF QueryId

(* A slot that has an id is the slot of that query.                        *)
LEMMA IdPlace ==
  ASSUME IInv, NEW i \in Slot, id[i] # NoId
  PROVE  i = Place(id[i])
<1>1. /\ TypeOK /\ Took \in Nat /\ Room \in Nat /\ PendingMax \in Nat \ {0}
      /\ PendingMax - 1 <= Room
  BY Numbers DEF IInv
<1>2. PICK k \in Took + 1 .. Took + PendingMax : Place(k) = i
  BY <1>1, PlaceOnto
<1>3. CASE k \in Took + 1 .. Took + Room
  <2>1. SlotOK(k)
    BY <1>3 DEF IInv, SlotInv
  <2>2. k <= Issued \/ Issued < k
    BY <1>1, <1>3, Numbers
  <2>3. id[i] = k
    BY <1>2, <2>1, <2>2 DEF SlotOK
  <2> QED
    BY <1>2, <2>3
<1>4. CASE k \notin Took + 1 .. Took + Room
  <2>1. k = Took + PendingMax /\ Room < PendingMax
    BY <1>1, <1>2, <1>4
  <2>2. PICK p \in Processors : ppc[p] \in Using
    BY <1>1, <2>1 DEF Room, Some
  <2>3. taken[p] = Place(Took) /\ Took \in Nat \ {0} /\ (id[taken[p]] = Took \/ id[taken[p]] = NoId)
    BY <1>1, <2>2 DEF IInv, TakenInv
  <2>4. i = Place(Took)
    BY <1>2, <2>1, <2>3, PlaceNext
  <2> QED
    BY <2>3, <2>4
<1> QED
  BY <1>3, <1>4

(* pending_find sees the unresolved queries in order.                      *)
LEMMA Search ==
  ASSUME IInv, rpc = "match"
  PROVE  /\ onDeck = Place(resolved + 1)
         /\ \A n \in 0 .. Written - resolved - 1 : n \in 0 .. Span - 1 /\ After(n) = Place(resolved + 1 + n)
<1>1. /\ Took \in Nat /\ Room \in Nat /\ resolved \in Nat /\ Issued \in Nat /\ PendingMax \in Nat \ {0}
      /\ Room <= PendingMax /\ Written \in Int /\ Moved \in Int /\ Written <= Moved /\ Moved <= Issued
  BY Numbers DEF IInv
<1>2. resolved + 1 <= Written
  BY <1>1, Answers DEF Matching
<1>3. onDeck = Place(resolved + 1) /\ tail = Place(Moved + 1)
  <2>1. Decked = resolved
    BY <1>1 DEF Decked
  <2> QED
    BY <2>1 DEF IInv, PointerInv
<1> DEFINE d == Moved - resolved
<1>4. d \in 0 .. PendingMax /\ d > 0 /\ resolved + 1 \in Nat \ {0} /\ resolved + 1 + d = Moved + 1
  BY <1>1, <1>2 DEF IInv, CountInv
<1> HIDE DEF d
<1>5. /\ onDeck \in Slot
      /\ tail = IF onDeck + d < PendingMax THEN onDeck + d ELSE onDeck + d - PendingMax
  BY <1>3, <1>4, PlaceAhead
<1>6. Span = d
  BY <1>1, <1>4, <1>5 DEF Span, Slot
<1>7. ASSUME NEW n \in 0 .. Written - resolved - 1
      PROVE  n \in 0 .. Span - 1 /\ After(n) = Place(resolved + 1 + n)
  <2>1. n \in 0 .. d - 1 /\ n \in 0 .. PendingMax
    BY <1>1, <1>2, <1>4 DEF d
  <2>2. Place(resolved + 1 + n) = IF onDeck + n < PendingMax THEN onDeck + n ELSE onDeck + n - PendingMax
    BY <1>3, <1>4, <2>1, PlaceAhead
  <2> QED
    BY <1>6, <2>1, <2>2 DEF After
<1> QED
  BY <1>3, <1>7

(* What a step of the receiver cannot change.                              *)
LEMMA ReceiverFrame ==
  ASSUME IInv, UNCHANGED <<caller, processor>>
  PROVE  /\ UNCHANGED <<kpc, own, tail, tailLock, nextId, wire>>
         /\ UNCHANGED <<ppc, taken, head, headLock, done>>
         /\ UNCHANGED <<Issued, Sent, Moved, Written, Took, Room>>
         /\ CallerInv' /\ WireInv'
<1>1. /\ UNCHANGED <<kpc, own, tail, tailLock, nextId, wire>>
      /\ UNCHANGED <<ppc, taken, head, headLock, done>>
  BY DEF caller, processor
<1>2. UNCHANGED <<Issued, Sent, Moved, Written, Took, Room>>
  BY <1>1 DEF Issued, Sent, Moved, Written, Took, Room
<1>3. CallerInv' /\ WireInv'
  BY <1>1, <1>2 DEF IInv, CallerInv, WireInv
<1> QED
  BY <1>1, <1>2, <1>3

(* One more answer leaves what is owed to other queries as it was.         *)
LEMMA OwedMore ==
  ASSUME NEW A, NEW w, NEW j, NEW k, NEW r, w[j] # k, Owed(k, r, A, w)
  PROVE  Owed(k, r, A \cup {j}, w)
BY DEF Owed

LEMMA ReceiveKeeps ==
  ASSUME Benign, IInv, Receive
  PROVE  IInv'
<1>1. PICK j \in DOMAIN wire :
        /\ j \notin arrived
        /\ \A a \in arrived : a < j
        /\ Lossy \/ 1 .. j - 1 \subseteq arrived
        /\ msg' = wire[j]
        /\ arrived' = arrived \cup {j}
  BY DEF Receive, ReceiveNext, ReceiveAgain, Arrives, Benign
<1>2. /\ rpc = "idle" /\ rpc' = "match"
      /\ UNCHANGED <<state, id, cb, resp>>
      /\ UNCHANGED <<target, onDeck, resolved>>
      /\ UNCHANGED <<caller, processor>>
  BY DEF Receive, ReceiveNext, ReceiveAgain, Arrives, ReceiverAt, slots
<1>3. TypeOK /\ CountInv /\ WireInv /\ ArrivedInv /\ resolved \in Nat /\ Took \in Nat /\ Len(done) <= Took
      /\ Len(done) \in Nat
  BY Numbers DEF IInv
<1>4. wire \in Seq(QueryId) /\ DOMAIN wire = 1 .. Len(wire) /\ Len(wire) \in Nat /\ arrived \subseteq DOMAIN wire
  BY <1>3 DEF TypeOK
<1>5. \A a \in DOMAIN wire : wire[a] \in QueryId /\ wire[a] \in Nat /\ wire[a] >= 1
  BY <1>4, PendingRingAssumption DEF QueryId
<1>6. (\A a \in arrived : wire[a] <= resolved) /\ (resolved = 0 \/ \E a \in arrived : wire[a] = resolved)
  BY <1>2, <1>3 DEF ArrivedInv, Matching
<1>7. resolved < wire[j]
  <2>1. CASE resolved = 0
    BY <1>5, <2>1
  <2>2. CASE \E a \in arrived : wire[a] = resolved
    BY <1>1, <1>3, <1>4, <2>2 DEF WireInv
  <2> QED
    BY <1>6, <2>1, <2>2
<1>8. ~Lossy => wire[j] = resolved + 1
  <2> SUFFICES ASSUME ~Lossy PROVE wire[j] = resolved + 1
    OBVIOUS
  <2>1. wire[j] = j /\ j \in Nat \ {0}
    BY <1>3, <1>4 DEF WireInv
  <2>2. CASE j = 1
    BY <1>3, <1>7, <2>1, <2>2
  <2>3. CASE j # 1
    <3>1. j - 1 \in arrived /\ j - 1 \in DOMAIN wire
      BY <1>1, <1>4, <2>1, <2>3
    <3>2. wire[j - 1] = j - 1
      BY <1>3, <3>1 DEF WireInv
    <3>3. j - 1 <= resolved
      BY <1>6, <3>1, <3>2
    <3> QED
      BY <1>3, <1>7, <2>1, <3>3
  <2> QED
    BY <2>2, <2>3
<1>9. /\ UNCHANGED <<kpc, own, tail, tailLock, nextId, wire>>
      /\ UNCHANGED <<ppc, taken, head, headLock, done>>
      /\ UNCHANGED <<Issued, Sent, Moved, Written, Took, Room>>
      /\ CallerInv' /\ WireInv'
  BY <1>2, ReceiverFrame
<1>10. Decked' = Decked
  BY <1>2 DEF Decked
<1>11. TypeOK'
  <2>1. msg' \in QueryId \cup {NoId} /\ arrived' \subseteq DOMAIN wire'
    BY <1>1, <1>4, <1>5, <1>9
  <2> QED
    BY <1>2, <1>3, <1>9, <2>1 DEF TypeOK
<1>12. CountInv' /\ PointerInv'
  BY <1>2, <1>9, <1>10 DEF IInv, CountInv, PointerInv
<1>13. \A k \in Nat : \A r : k <= resolved /\ Owed(k, r, arrived, wire) => Owed(k, r, arrived', wire')
  <2> SUFFICES ASSUME NEW k \in Nat, NEW r, k <= resolved, Owed(k, r, arrived, wire)
               PROVE  Owed(k, r, arrived', wire')
    OBVIOUS
  <2>1. wire[j] # k
    BY <1>3, <1>5, <1>7
  <2>2. Owed(k, r, arrived \cup {j}, wire)
    BY <2>1, OwedMore
  <2> QED
    BY <1>1, <1>9, <2>2
<1>14. SlotInv'
  <2> SUFFICES ASSUME NEW k \in Took + 1 .. Took + Room PROVE SlotOK(k)'
    BY <1>9 DEF SlotInv
  <2>1. SlotOK(k) /\ k \in Nat
    BY <1>3, Window DEF IInv, SlotInv
  <2>2. k <= resolved => Owed(k, resp[Place(k)], arrived', wire')
    BY <1>13, <2>1 DEF SlotOK
  <2> QED
    BY <1>2, <1>9, <2>1, <2>2 DEF SlotOK
<1>15. TakenInv'
  <2>1. Took <= resolved
    BY <1>3 DEF CountInv
  <2>2. \A p \in Processors : Owed(Took, resp[taken[p]], arrived, wire) =>
                                Owed(Took, resp[taken[p]], arrived', wire')
    BY <1>3, <1>13, <2>1
  <2> QED
    BY <1>2, <1>9, <2>2 DEF IInv, TakenInv
<1>16. DoneInv'
  <2> SUFFICES ASSUME NEW k \in DOMAIN done
               PROVE  done[k].id = k /\ Owed(k, done[k].resp, arrived', wire')
    BY <1>9 DEF DoneInv
  <2>1. k \in Nat /\ k <= resolved
    BY <1>3 DEF TypeOK, CountInv
  <2>2. done[k].id = k /\ Owed(k, done[k].resp, arrived, wire)
    BY DEF IInv, DoneInv
  <2> QED
    BY <1>13, <2>1, <2>2
<1>17. ArrivedInv'
  <2>1. \A a \in arrived' : wire'[a] <= resolved' \/ (rpc' \in Matching /\ wire'[a] = msg')
    BY <1>1, <1>2, <1>6, <1>9 DEF Matching
  <2>2. resolved' < msg' /\ (\E a \in arrived' : wire'[a] = msg') /\ (~Lossy => msg' = resolved' + 1)
    BY <1>1, <1>2, <1>7, <1>8, <1>9
  <2> QED
    BY <1>2, <2>1, <2>2 DEF ArrivedInv, Matching
<1> QED
  BY <1>9, <1>11, <1>12, <1>14, <1>15, <1>16, <1>17 DEF IInv

LEMMA MatchKeeps ==
  ASSUME IInv, MatchOnDeck \/ MatchFound
  PROVE  IInv'
<1>1. /\ rpc = "match" /\ rpc' = "skip"
      /\ UNCHANGED <<msg, onDeck, arrived, resolved>>
      /\ UNCHANGED <<state, id, cb, resp>>
      /\ UNCHANGED <<caller, processor>>
  BY DEF MatchOnDeck, MatchFound, ReceiverAt, slots
<1>2. TypeOK /\ ArrivedInv /\ resolved \in Nat
  BY Numbers DEF IInv
<1>3. target' \in Slot /\ id[target'] = msg
  <2>1. CASE MatchOnDeck
    BY <1>2, <2>1 DEF MatchOnDeck, TypeOK
  <2>2. CASE MatchFound
    <3>1. PICK n \in HoldsMsg : target' = After(n)
      BY <2>2 DEF MatchFound
    <3>2. n \in 0 .. Span - 1 /\ id[After(n)] = msg
      BY <3>1 DEF HoldsMsg
    <3>3. onDeck \in Slot /\ tail \in Slot /\ PendingMax \in Nat \ {0}
      BY <1>2, PendingRingAssumption DEF TypeOK
    <3>4. n \in 0 .. PendingMax - 1
      BY <3>2, <3>3 DEF Span, Slot
    <3>5. After(n) \in Slot
      BY <3>3, <3>4 DEF After, Slot
    <3> QED
      BY <3>1, <3>2, <3>5
  <2> QED
    BY <2>1, <2>2
<1>4. target' = Place(msg)
  <2>1. msg # NoId
    BY <1>1, Answers, PendingRingAssumption DEF Matching, QueryId, NoId
  <2> QED
    BY <1>3, <2>1, IdPlace
<1>5. /\ UNCHANGED <<kpc, own, tail, tailLock, nextId, wire>>
      /\ UNCHANGED <<ppc, taken, head, headLock, done>>
      /\ UNCHANGED <<Issued, Sent, Moved, Written, Took, Room>>
      /\ CallerInv' /\ WireInv'
  BY <1>1, ReceiverFrame
<1>6. Decked' = Decked
  BY <1>1 DEF Decked
<1>7. TypeOK'
  BY <1>1, <1>2, <1>3, <1>5 DEF TypeOK
<1>8. CountInv' /\ PointerInv'
  BY <1>1, <1>5, <1>6 DEF IInv, CountInv, PointerInv
<1>9. SlotInv'
  BY <1>1, <1>5 DEF IInv, SlotInv, SlotOK
<1>10. TakenInv' /\ DoneInv'
  BY <1>1, <1>5 DEF IInv, TakenInv, DoneInv
<1>11. ArrivedInv'
  BY <1>1, <1>2, <1>4, <1>5 DEF ArrivedInv, Matching
<1> QED
  BY <1>5, <1>7, <1>8, <1>9, <1>10, <1>11 DEF IInv

(* Every response finds its query.                                         *)
LEMMA NeverNothing == ASSUME IInv PROVE ~MatchNothing
<1> SUFFICES ASSUME MatchNothing PROVE FALSE
  OBVIOUS
<1>1. rpc = "match" /\ HoldsMsg = {}
  BY DEF MatchNothing, ReceiverAt
<1>2. msg \in resolved + 1 .. Written /\ resolved \in Nat /\ Written \in Int
  BY <1>1, Answers, Numbers DEF Matching, IInv
<1>3. msg - resolved - 1 \in 0 .. Written - resolved - 1 /\ resolved + 1 + (msg - resolved - 1) = msg
  BY <1>2
<1>4. msg - resolved - 1 \in 0 .. Span - 1 /\ After(msg - resolved - 1) = Place(msg)
  BY <1>1, <1>3, Search
<1>5. id[Place(msg)] = msg
  BY <1>2, Unresolved
<1> QED
  BY <1>1, <1>4, <1>5 DEF HoldsMsg

(* The slot on deck is the one of the first unresolved query, and it is    *)
(* the target just when the response answers that query.                   *)
LEMMA OnDeck ==
  ASSUME IInv, rpc = "skip"
  PROVE  /\ Decked = resolved /\ onDeck = Place(resolved + 1) /\ target = Place(msg)
         /\ target = onDeck => msg = resolved + 1
         /\ target # onDeck => Lossy /\ resolved + 1 < msg
         /\ state[onDeck] = "sent" /\ id[onDeck] = resolved + 1 /\ resp[onDeck] = NoResp
         /\ Lossy => cb[onDeck]
         /\ onDeck \in Slot
         /\ resolved + 1 \in Took + 1 .. Took + Room /\ resolved + 1 <= Written
         /\ msg \in QueryId
<1>1. resolved \in Nat /\ Written \in Int
  BY Numbers DEF IInv
<1>2. /\ msg \in resolved + 1 .. Written /\ (~Lossy => msg = resolved + 1)
      /\ resolved + 1 \in resolved + 1 .. Written /\ msg \in QueryId
  BY Answers DEF Matching
<1>3. Decked = resolved
  BY <1>1 DEF Decked
<1>4. onDeck = Place(resolved + 1) /\ target = Place(msg)
  BY <1>3 DEF IInv, PointerInv, ArrivedInv
<1>5. /\ state[onDeck] = "sent" /\ id[onDeck] = resolved + 1 /\ resp[onDeck] = NoResp
      /\ Lossy => cb[onDeck]
      /\ onDeck \in Slot /\ resolved + 1 \in Took + 1 .. Took + Room
  BY <1>2, <1>4, Unresolved
<1>6. id[target] = msg
  BY <1>2, <1>4, Unresolved
<1>7. target # onDeck => Lossy /\ resolved + 1 < msg
  BY <1>1, <1>2, <1>4
<1>8. target = onDeck => msg = resolved + 1
  BY <1>5, <1>6
<1> QED
  BY <1>1, <1>2, <1>3, <1>4, <1>5, <1>7, <1>8

(* No answer is repeated.                                                  *)
LEMMA NeverDuplicate == ASSUME IInv PROVE ~Duplicate
BY OnDeck DEF Duplicate, ReceiverAt

(* Storing what it is owed in the slot on deck resolves its query.         *)
LEMMA ResolveKeeps ==
  ASSUME IInv, rpc = "skip", rpc' \in {"skipped", "delivered"},
         NEW r \in {msg, -msg}, Owed(resolved + 1, r, arrived, wire),
         resp' = [resp EXCEPT ![onDeck] = r],
         state' = [state EXCEPT ![onDeck] = "ready"],
         resolved' = resolved + 1,
         UNCHANGED <<id, cb, msg, target, onDeck, arrived, caller, processor>>
  PROVE  /\ TypeOK' /\ CountInv' /\ PointerInv' /\ CallerInv'
         /\ SlotInv' /\ TakenInv' /\ WireInv' /\ DoneInv'
<1> DEFINE k == resolved + 1
<1>1. /\ TypeOK /\ SlotInv /\ TakenInv /\ Took \in Nat /\ Room \in Nat /\ PendingMax \in Nat \ {0}
      /\ resolved \in Nat /\ Written \in Int /\ Written <= Issued /\ Issued \in Nat /\ nextId = Issued + 1
  BY Numbers DEF IInv
<1>2. /\ UNCHANGED <<kpc, own, tail, tailLock, nextId, wire>>
      /\ UNCHANGED <<ppc, taken, head, headLock, done>>
      /\ UNCHANGED <<Issued, Sent, Moved, Written, Took, Room>>
      /\ CallerInv' /\ WireInv'
  BY ReceiverFrame
<1>3. /\ Decked = resolved /\ onDeck = Place(k) /\ onDeck \in Slot
      /\ k \in Took + 1 .. Took + Room /\ k <= Written /\ msg \in QueryId
  BY OnDeck
<1>4. Decked' = Decked
  BY <1>1, <1>3 DEF Decked
<1>5. TypeOK'
  <2>1. resp' \in [Slot -> -MaxQueries .. MaxQueries]
    <3>1. r \in -MaxQueries .. MaxQueries
      BY <1>3, PendingRingAssumption DEF QueryId
    <3> QED
      BY <1>1, <3>1 DEF TypeOK
  <2>2. state' \in [Slot -> {"clear", "sent", "ready", "taken"}]
    BY <1>1 DEF TypeOK
  <2>3. resolved' \in 0 .. MaxQueries
    BY <1>1, <1>3, PendingRingAssumption DEF TypeOK
  <2>4. rpc' \in {"idle", "match", "skip", "skipped", "delivered"}
    OBVIOUS
  <2> QED
    BY <1>1, <1>2, <2>1, <2>2, <2>3, <2>4 DEF TypeOK
<1>6. CountInv' /\ PointerInv'
  <2>1. Took <= resolved + 1 /\ resolved + 1 <= Written
    BY <1>1, <1>3 DEF IInv, CountInv
  <2> QED
    BY <1>2, <1>4, <2>1 DEF IInv, CountInv, PointerInv
<1>7. SlotInv'
  <2> SUFFICES ASSUME NEW m \in Took + 1 .. Took + Room PROVE SlotOK(m)'
    BY <1>2 DEF SlotInv
  <2>1. SlotOK(m) /\ m \in Nat \ {0} /\ Place(m) \in Slot
    BY <1>1, Window DEF SlotInv
  <2>2. CASE m = k
    <3>1. state'[Place(m)] = "ready" /\ resp'[Place(m)] = r
      BY <1>1, <1>3, <2>2 DEF TypeOK
    <3>2. ~(resolved' < m) /\ m <= Issued /\ m <= Sent /\ ~(Sent < m)
      BY <1>1, <1>3, <2>2, Numbers
    <3> QED
      BY <1>2, <2>1, <2>2, <3>1, <3>2 DEF SlotOK
  <2>3. CASE m # k
    <3>1. Place(m) # onDeck
      BY <1>1, <1>3, <2>3, Window
    <3>2. state'[Place(m)] = state[Place(m)] /\ resp'[Place(m)] = resp[Place(m)]
      BY <1>1, <2>1, <3>1 DEF TypeOK
    <3>3. (m <= resolved' <=> m <= resolved) /\ (resolved' < m <=> resolved < m)
      BY <1>1, <2>1, <2>3
    <3> QED
      BY <1>2, <2>1, <3>2, <3>3 DEF SlotOK
  <2> QED
    BY <2>2, <2>3
<1>8. TakenInv'
  <2> SUFFICES ASSUME NEW p \in Processors, ppc[p] \in Using
               PROVE  state'[taken[p]] = state[taken[p]] /\ resp'[taken[p]] = resp[taken[p]]
    BY <1>1, <1>2 DEF TakenInv
  <2>1. taken[p] = Place(Took) /\ Took >= 1 /\ taken[p] \in Slot
    BY <1>1 DEF TakenInv, TypeOK
  <2>2. Room < PendingMax
    BY <1>1 DEF Room, Some
  <2>3. taken[p] # onDeck
    BY <1>1, <1>3, <2>1, <2>2, Window
  <2> QED
    BY <1>1, <2>1, <2>3 DEF TypeOK
<1>9. DoneInv'
  BY <1>2 DEF IInv, DoneInv
<1> QED
  BY <1>2, <1>5, <1>6, <1>7, <1>8, <1>9

LEMMA SkipKeeps == ASSUME IInv, SkipOne PROVE IInv'
<1>1. /\ rpc = "skip" /\ rpc' = "skipped" /\ target # onDeck
      /\ resolved' = resolved + 1
      /\ UNCHANGED <<id, cb, msg, target, onDeck, arrived, caller, processor>>
  BY DEF SkipOne, ReceiverAt
<1>2. /\ Lossy /\ resolved + 1 < msg /\ cb[onDeck] /\ target = Place(msg) /\ msg \in QueryId
  BY <1>1, OnDeck
<1>3. /\ resp' = [resp EXCEPT ![onDeck] = -msg]
      /\ state' = [state EXCEPT ![onDeck] = "ready"]
  BY <1>2 DEF SkipOne
<1>4. ArrivedInv /\ resolved \in Nat /\ wire \in Seq(QueryId) /\ arrived \subseteq DOMAIN wire
  BY Numbers DEF IInv, TypeOK
<1>5. PICK a \in arrived : wire[a] = msg
  BY <1>1, <1>4 DEF ArrivedInv, Matching
<1>6. \A b \in arrived : wire[b] # resolved + 1
  <2> SUFFICES ASSUME NEW b \in arrived PROVE wire[b] # resolved + 1
    OBVIOUS
  <2>1. wire[b] <= resolved \/ wire[b] = msg
    BY <1>4 DEF ArrivedInv
  <2>2. wire[b] \in Nat /\ msg \in Nat
    BY <1>2, <1>4, PendingRingAssumption DEF QueryId
  <2> QED
    BY <1>2, <1>4, <2>1, <2>2
<1>7. Owed(resolved + 1, -msg, arrived, wire)
  BY <1>2, <1>5, <1>6 DEF Owed
<1>8. /\ TypeOK' /\ CountInv' /\ PointerInv' /\ CallerInv'
      /\ SlotInv' /\ TakenInv' /\ WireInv' /\ DoneInv'
  BY <1>1, <1>3, <1>7, ResolveKeeps
<1>9. ArrivedInv'
  <2>1. wire' = wire /\ arrived' = arrived /\ msg' = msg /\ target' = target
    BY <1>1, ReceiverFrame
  <2>2. \A b \in arrived : wire[b] <= resolved + 1 \/ wire[b] = msg
    <3> SUFFICES ASSUME NEW b \in arrived PROVE wire[b] <= resolved + 1 \/ wire[b] = msg
      OBVIOUS
    <3>1. wire[b] <= resolved \/ wire[b] = msg
      BY <1>4 DEF ArrivedInv
    <3>2. wire[b] \in Nat
      BY <1>4, PendingRingAssumption DEF QueryId
    <3> QED
      BY <1>4, <3>1, <3>2
  <2> QED
    BY <1>1, <1>2, <1>5, <2>1, <2>2 DEF ArrivedInv, Matching
<1> QED
  BY <1>8, <1>9 DEF IInv

LEMMA DeliverKeeps == ASSUME IInv, Deliver PROVE IInv'
<1>1. /\ rpc = "skip" /\ rpc' = "delivered" /\ target = onDeck
      /\ resolved' = resolved + 1
      /\ resp' = [resp EXCEPT ![onDeck] = msg]
      /\ state' = [state EXCEPT ![onDeck] = "ready"]
      /\ UNCHANGED <<id, cb, msg, target, onDeck, arrived, caller, processor>>
  BY DEF Deliver, ReceiverAt
<1>2. msg = resolved + 1
  BY <1>1, OnDeck
<1>3. ArrivedInv /\ resolved \in Nat /\ wire \in Seq(QueryId) /\ arrived \subseteq DOMAIN wire
  BY Numbers DEF IInv, TypeOK
<1>4. PICK a \in arrived : wire[a] = msg
  BY <1>1, <1>3 DEF ArrivedInv, Matching
<1>5. Owed(resolved + 1, msg, arrived, wire)
  BY <1>2, <1>4 DEF Owed
<1>6. /\ TypeOK' /\ CountInv' /\ PointerInv' /\ CallerInv'
      /\ SlotInv' /\ TakenInv' /\ WireInv' /\ DoneInv'
  BY <1>1, <1>5, ResolveKeeps
<1>7. ArrivedInv'
  <2>1. wire' = wire /\ arrived' = arrived
    BY <1>1, ReceiverFrame
  <2>2. \A b \in arrived : wire[b] <= resolved + 1
    <3> SUFFICES ASSUME NEW b \in arrived PROVE wire[b] <= resolved + 1
      OBVIOUS
    <3>1. wire[b] <= resolved \/ wire[b] = msg
      BY <1>3 DEF ArrivedInv
    <3>2. wire[b] \in Nat
      BY <1>3, PendingRingAssumption DEF QueryId
    <3> QED
      BY <1>2, <1>3, <3>1, <3>2
  <2> QED
    BY <1>1, <1>2, <1>4, <2>1, <2>2 DEF ArrivedInv, Matching
<1> QED
  BY <1>6, <1>7 DEF IInv

(* on_deck passes the query just resolved.                                 *)
LEMMA OnDeckKeeps == ASSUME IInv, SkipNext \/ DeliverNext PROVE IInv'
<1>1. /\ \/ rpc = "skipped" /\ rpc' = "skip"
         \/ rpc = "delivered" /\ rpc' = "idle"
      /\ onDeck' = Succ(onDeck)
      /\ UNCHANGED <<msg, target, arrived, resolved>>
      /\ UNCHANGED <<state, id, cb, resp>>
      /\ UNCHANGED <<caller, processor>>
  BY DEF SkipNext, DeliverNext, ReceiverAt, slots
<1>2. /\ UNCHANGED <<kpc, own, tail, tailLock, nextId, wire>>
      /\ UNCHANGED <<ppc, taken, head, headLock, done>>
      /\ UNCHANGED <<Issued, Sent, Moved, Written, Took, Room>>
      /\ CallerInv' /\ WireInv'
  BY <1>1, ReceiverFrame
<1>3. resolved \in Nat /\ Decked = resolved - 1 /\ Decked' = resolved /\ 0 <= Decked
  <2>1. resolved \in Nat /\ 0 <= Decked
    BY Numbers DEF IInv, CountInv
  <2>2. rpc \in {"skipped", "delivered"} /\ rpc' \notin {"skipped", "delivered"} /\ resolved' = resolved
    BY <1>1
  <2>3. Decked = resolved - 1 /\ Decked' = resolved - 0
    BY <2>2 DEF Decked
  <2> QED
    BY <2>1, <2>3
<1>4. resolved \in Nat \ {0} /\ onDeck = Place(resolved)
  BY <1>3 DEF IInv, PointerInv
<1>5. onDeck' = Place(Decked' + 1) /\ onDeck' \in Slot
  <2>1. resolved + 1 \in Nat \ {0}
    BY <1>4
  <2> QED
    BY <1>1, <1>3, <1>4, <2>1, PlaceNext
<1>6. TypeOK'
  BY <1>1, <1>2, <1>5 DEF IInv, TypeOK
<1>7. CountInv' /\ PointerInv'
  BY <1>1, <1>2, <1>3, <1>5 DEF IInv, CountInv, PointerInv
<1>8. SlotInv'
  BY <1>1, <1>2 DEF IInv, SlotInv, SlotOK
<1>9. TakenInv' /\ DoneInv'
  BY <1>1, <1>2 DEF IInv, TakenInv, DoneInv
<1>10. ArrivedInv'
  BY <1>1, <1>2 DEF IInv, ArrivedInv, Matching
<1> QED
  BY <1>2, <1>6, <1>7, <1>8, <1>9, <1>10 DEF IInv
-----------------------------------------------------------------------------
(* take_next_ready and opo_client_process *)

(* What a step of the one processing thread leaves, and the numbers that   *)
(* follow where it is.                                                     *)
LEMMA ProcessorFrame ==
  ASSUME Benign, IInv, NEW p \in Processors, NEW to,
         ppc' = [ppc EXCEPT ![p] = to], UNCHANGED <<caller, receiver>>
  PROVE  /\ UNCHANGED <<kpc, own, tail, tailLock, nextId, wire>>
         /\ UNCHANGED <<rpc, msg, target, onDeck, arrived, resolved>>
         /\ UNCHANGED <<Issued, Sent, Moved, Written, Decked>>
         /\ CallerInv' /\ WireInv' /\ ArrivedInv'
         /\ ppc'[p] = to /\ \A q \in Processors : q = p
         /\ Took = Len(done) + IF ppc[p] \in {"mark", "call"} THEN 1 ELSE 0
         /\ Room = PendingMax - IF ppc[p] \in Using THEN 1 ELSE 0
         /\ Took' = Len(done') + IF to \in {"mark", "call"} THEN 1 ELSE 0
         /\ Room' = PendingMax - IF to \in Using THEN 1 ELSE 0
<1>1. /\ UNCHANGED <<kpc, own, tail, tailLock, nextId, wire>>
      /\ UNCHANGED <<rpc, msg, target, onDeck, arrived, resolved>>
  BY DEF caller, receiver
<1>2. UNCHANGED <<Issued, Sent, Moved, Written, Decked>>
  BY <1>1 DEF Issued, Sent, Moved, Written, Decked
<1>3. CallerInv' /\ WireInv' /\ ArrivedInv'
  BY <1>1, <1>2 DEF IInv, CallerInv, WireInv, ArrivedInv
<1>4. ppc'[p] = to /\ \A q \in Processors : q = p
  BY DEF IInv, TypeOK, Benign
<1>5. /\ Some(Processors, ppc, {"mark", "call"}) = IF ppc[p] \in {"mark", "call"} THEN 1 ELSE 0
      /\ Some(Processors, ppc, Using) = IF ppc[p] \in Using THEN 1 ELSE 0
      /\ Some(Processors, ppc', {"mark", "call"}) = IF ppc'[p] \in {"mark", "call"} THEN 1 ELSE 0
      /\ Some(Processors, ppc', Using) = IF ppc'[p] \in Using THEN 1 ELSE 0
  BY <1>4, Zenon DEF Some
<1> QED
  BY <1>1, <1>2, <1>3, <1>4, <1>5 DEF Took, Room

LEMMA PeekKeeps ==
  ASSUME Benign, IInv, NEW p \in Processors, TakeLock(p) \/ TakeGiveUp(p)
  PROVE  IInv'
<1>1. PICK to \in {"peek", "idle"} : ppc' = [ppc EXCEPT ![p] = to]
  BY DEF TakeLock, TakeGiveUp, ProcessorAt
<1>2. /\ UNCHANGED <<taken, head, done>> /\ headLock' \in BOOLEAN
      /\ UNCHANGED <<state, id, cb, resp>> /\ UNCHANGED <<caller, receiver>>
      /\ ppc[p] \in {"peek", "idle"}
  BY DEF TakeLock, TakeGiveUp, ProcessorAt, slots
<1>3. /\ UNCHANGED <<kpc, own, tail, tailLock, nextId, wire>>
      /\ UNCHANGED <<rpc, msg, target, onDeck, arrived, resolved>>
      /\ UNCHANGED <<Issued, Sent, Moved, Written, Decked>>
      /\ CallerInv' /\ WireInv' /\ ArrivedInv'
      /\ ppc'[p] = to /\ \A q \in Processors : q = p
  BY <1>1, <1>2, ProcessorFrame
<1>4. Took' = Took /\ Room' = Room
  <2>1. /\ ppc[p] \notin {"mark", "call"} /\ to \notin {"mark", "call"}
        /\ ppc[p] \notin Using /\ to \notin Using
    BY <1>1, <1>2 DEF Using
  <2>2. /\ Took = Len(done) + 0 /\ Room = PendingMax - 0
        /\ Took' = Len(done') + 0 /\ Room' = PendingMax - 0
    BY <1>1, <1>2, <2>1, ProcessorFrame
  <2> QED
    BY <1>2, <2>2
<1>5. TypeOK'
  <2>1. ppc' \in [Processors -> {"idle", "peek"} \cup Using]
    BY <1>1 DEF IInv, TypeOK
  <2> QED
    BY <1>2, <1>3, <2>1 DEF IInv, TypeOK
<1>6. CountInv' /\ PointerInv'
  BY <1>2, <1>3, <1>4 DEF IInv, CountInv, PointerInv
<1>7. SlotInv'
  BY <1>2, <1>3, <1>4 DEF IInv, SlotInv, SlotOK
<1>8. TakenInv'
  BY <1>1, <1>3 DEF TakenInv, Using
<1>9. DoneInv'
  BY <1>2, <1>3 DEF IInv, DoneInv
<1> QED
  BY <1>3, <1>5, <1>6, <1>7, <1>8, <1>9 DEF IInv

LEMMA TakeKeeps ==
  ASSUME Benign, IInv, NEW p \in Processors, Take(p)
  PROVE  IInv'
<1>1. /\ ppc[p] = "peek" /\ ppc' = [ppc EXCEPT ![p] = "mark"]
      /\ state[head] = "ready"
      /\ taken' = [taken EXCEPT ![p] = head]
      /\ head' = Succ(head) /\ headLock' = FALSE
      /\ UNCHANGED done /\ UNCHANGED <<state, id, cb, resp>> /\ UNCHANGED <<caller, receiver>>
  BY DEF Take, ProcessorAt, slots
<1>2. /\ UNCHANGED <<kpc, own, tail, tailLock, nextId, wire>>
      /\ UNCHANGED <<rpc, msg, target, onDeck, arrived, resolved>>
      /\ UNCHANGED <<Issued, Sent, Moved, Written, Decked>>
      /\ CallerInv' /\ WireInv' /\ ArrivedInv'
      /\ ppc'[p] = "mark" /\ \A q \in Processors : q = p
  BY <1>1, ProcessorFrame
<1>3. /\ TypeOK /\ SlotInv /\ Took \in Nat /\ PendingMax \in Nat \ {0} /\ Issued \in Nat
      /\ resolved \in Nat /\ Sent \in Int /\ Len(done) \in Nat
      /\ Written \in Int /\ Written <= Sent /\ Written <= Issued
  BY Numbers DEF IInv
<1>4. Took' = Took + 1 /\ Room = PendingMax /\ Room' = PendingMax - 1
  <2>1. ppc[p] \notin {"mark", "call"} /\ ppc[p] \notin Using /\ "mark" \in Using
    BY <1>1 DEF Using
  <2>2. Took = Len(done) + 0 /\ Room = PendingMax - 0 /\ Took' = Len(done') + 1 /\ Room' = PendingMax - 1
    BY <1>1, <2>1, ProcessorFrame
  <2> QED
    BY <1>1, <1>3, <2>2
<1>5. head = Place(Took + 1) /\ Took + 1 \in Took + 1 .. Took + Room /\ Took + 1 \in Nat \ {0}
  BY <1>3, <1>4 DEF IInv, PointerInv
<1>6. SlotOK(Took + 1) /\ head \in Slot
  BY <1>3, <1>5, Window DEF SlotInv
<1>7. Took + 1 <= resolved
  <2>1. resolved < Took + 1 => Took + 1 <= Sent \/ Sent < Took + 1
    BY <1>3
  <2>2. ~(resolved < Took + 1)
    BY <1>1, <1>5, <1>6, <2>1 DEF SlotOK
  <2> QED
    BY <1>3, <2>2
<1>8. head' = Place(Took' + 1) /\ head' \in Slot
  <2>1. Took + 1 + 1 \in Nat \ {0}
    BY <1>5
  <2> QED
    BY <1>1, <1>4, <1>5, <2>1, PlaceNext
<1>9. TypeOK'
  <2>1. ppc' \in [Processors -> {"idle", "peek"} \cup Using]
    BY <1>1, <1>3 DEF TypeOK, Using
  <2>2. taken' \in [Processors -> Slot] /\ headLock' \in BOOLEAN
    BY <1>1, <1>3, <1>6 DEF TypeOK
  <2> QED
    BY <1>1, <1>2, <1>3, <1>8, <2>1, <2>2 DEF TypeOK
<1>10. CountInv'
  BY <1>2, <1>3, <1>4, <1>7 DEF IInv, CountInv
<1>11. PointerInv'
  BY <1>2, <1>8 DEF IInv, PointerInv
<1>12. SlotInv'
  <2>1. \A k \in Took' + 1 .. Took' + Room' : k \in Took + 1 .. Took + Room
    BY <1>3, <1>4
  <2>2. \A k : SlotOK(k)' <=> SlotOK(k)
    BY <1>1, <1>2 DEF SlotOK
  <2> QED
    BY <1>3, <2>1, <2>2 DEF SlotInv
<1>13. TakenInv'
  <2>1. taken'[p] = head
    BY <1>1, <1>3 DEF TypeOK
  <2>2. id[head] = Took + 1 /\ Owed(Took + 1, resp[head], arrived, wire)
    <3>1. Took + 1 <= Issued
      BY <1>3, <1>7 DEF IInv, CountInv
    <3> QED
      BY <1>5, <1>6, <1>7, <3>1 DEF SlotOK
  <2>3. Took + 1 >= 1
    BY <1>3
  <2> QED
    BY <1>1, <1>2, <1>4, <1>5, <2>1, <2>2, <2>3 DEF TakenInv
<1>14. DoneInv'
  BY <1>1, <1>2 DEF IInv, DoneInv
<1> QED
  BY <1>2, <1>9, <1>10, <1>11, <1>12, <1>13, <1>14 DEF IInv

(* What the thread that holds a slot knows of it.                          *)
LEMMA Held ==
  ASSUME Benign, IInv, NEW p \in Processors, ppc[p] \in Using
  PROVE  /\ Room = PendingMax - 1 /\ Took >= 1 /\ Took \in Nat \ {0}
         /\ taken[p] = Place(Took) /\ taken[p] \in Slot
         /\ \A k \in Took + 1 .. Took + Room : k \in Nat \ {0} /\ Place(k) \in Slot /\ Place(k) # taken[p]
         /\ state[taken[p]] = IF ppc[p] = "mark" THEN "ready" ELSE "taken"
         /\ ppc[p] # "clear" => id[taken[p]] = Took /\ Owed(Took, resp[taken[p]], arrived, wire)
         /\ ppc[p] = "clear" => id[taken[p]] = NoId /\ resp[taken[p]] = NoResp
<1>1. TypeOK /\ TakenInv /\ Took \in Nat /\ PendingMax \in Nat \ {0}
  BY Numbers DEF IInv
<1>2. Room = PendingMax - 1
  BY DEF Room, Some
<1>3. Room < PendingMax /\ taken[p] = Place(Took) /\ Took >= 1
  BY <1>1, <1>2 DEF TakenInv
<1>4. \A k \in Took + 1 .. Took + Room : k \in Nat \ {0} /\ Place(k) \in Slot /\ Place(k) # taken[p]
  BY <1>1, <1>3, Window
<1> QED
  BY <1>1, <1>2, <1>3, <1>4 DEF TakenInv, TypeOK

LEMMA MarkKeeps ==
  ASSUME Benign, IInv, NEW p \in Processors, Mark(p)
  PROVE  IInv'
<1>1. /\ ppc[p] = "mark" /\ ppc' = [ppc EXCEPT ![p] = "call"]
      /\ state' = [state EXCEPT ![taken[p]] = "taken"]
      /\ UNCHANGED <<id, cb, resp, taken, head, headLock, done>> /\ UNCHANGED <<caller, receiver>>
  BY DEF Mark, ProcessorAt
<1>2. /\ UNCHANGED <<kpc, own, tail, tailLock, nextId, wire>>
      /\ UNCHANGED <<rpc, msg, target, onDeck, arrived, resolved>>
      /\ UNCHANGED <<Issued, Sent, Moved, Written, Decked>>
      /\ CallerInv' /\ WireInv' /\ ArrivedInv'
      /\ ppc'[p] = "call" /\ \A q \in Processors : q = p
  BY <1>1, ProcessorFrame
<1>3. TypeOK /\ SlotInv /\ ppc[p] \in Using /\ "call" \in Using
  BY <1>1 DEF IInv, Using
<1>4. Took' = Took /\ Room' = Room
  <2>1. /\ Took = Len(done) + 1 /\ Room = PendingMax - 1
        /\ Took' = Len(done') + 1 /\ Room' = PendingMax - 1
    BY <1>1, <1>3, ProcessorFrame
  <2> QED
    BY <1>1, <2>1
<1>5. TypeOK'
  <2>1. ppc' \in [Processors -> {"idle", "peek"} \cup Using]
    BY <1>1, <1>3 DEF TypeOK
  <2>2. state' \in [Slot -> {"clear", "sent", "ready", "taken"}]
    BY <1>1, <1>3 DEF TypeOK
  <2> QED
    BY <1>1, <1>2, <1>3, <2>1, <2>2 DEF TypeOK
<1>6. CountInv' /\ PointerInv'
  BY <1>1, <1>2, <1>4 DEF IInv, CountInv, PointerInv
<1>7. SlotInv'
  <2> SUFFICES ASSUME NEW k \in Took + 1 .. Took + Room PROVE SlotOK(k)'
    BY <1>4 DEF SlotInv
  <2>1. SlotOK(k) /\ Place(k) \in Slot /\ Place(k) # taken[p]
    BY <1>3, Held DEF SlotInv
  <2>2. state'[Place(k)] = state[Place(k)]
    BY <1>1, <1>3, <2>1 DEF TypeOK
  <2> QED
    BY <1>1, <1>2, <2>1, <2>2 DEF SlotOK
<1>8. TakenInv'
  <2>1. state'[taken[p]] = "taken"
    BY <1>1, <1>3, Held DEF TypeOK
  <2>2. /\ Took >= 1 /\ taken[p] = Place(Took)
        /\ id[taken[p]] = Took /\ Owed(Took, resp[taken[p]], arrived, wire)
    BY <1>1, <1>3, Held
  <2> QED
    BY <1>1, <1>2, <1>4, <2>1, <2>2 DEF TakenInv
<1>9. DoneInv'
  BY <1>1, <1>2 DEF IInv, DoneInv
<1> QED
  BY <1>2, <1>5, <1>6, <1>7, <1>8, <1>9 DEF IInv

LEMMA CallBackKeeps ==
  ASSUME Benign, IInv, NEW p \in Processors, CallBack(p)
  PROVE  IInv'
<1> DEFINE o == [id |-> id[taken[p]], resp |-> resp[taken[p]]]
<1>1. /\ ppc[p] = "call" /\ ppc' = [ppc EXCEPT ![p] = "wipe"]
      /\ done' = Append(done, o)
      /\ UNCHANGED <<taken, head, headLock>> /\ UNCHANGED <<state, id, cb, resp>>
      /\ UNCHANGED <<caller, receiver>>
  BY DEF CallBack, ProcessorAt, slots
<1>2. /\ UNCHANGED <<kpc, own, tail, tailLock, nextId, wire>>
      /\ UNCHANGED <<rpc, msg, target, onDeck, arrived, resolved>>
      /\ UNCHANGED <<Issued, Sent, Moved, Written, Decked>>
      /\ CallerInv' /\ WireInv' /\ ArrivedInv'
      /\ ppc'[p] = "wipe" /\ \A q \in Processors : q = p
  BY <1>1, ProcessorFrame
<1>3. TypeOK /\ ppc[p] \in Using /\ "wipe" \in Using
  BY <1>1 DEF IInv, Using
<1>4. /\ Took \in Nat \ {0} /\ taken[p] = Place(Took) /\ taken[p] \in Slot
      /\ state[taken[p]] = "taken" /\ id[taken[p]] = Took
      /\ Owed(Took, resp[taken[p]], arrived, wire)
  BY <1>1, <1>3, Held
<1>5. o.id = Took /\ o.resp = resp[taken[p]] /\ o \in [id : QueryId, resp : -MaxQueries .. MaxQueries]
  <2>1. Took \in QueryId
    BY <1>3, <1>4 DEF TypeOK, NoId
  <2>2. resp[taken[p]] \in -MaxQueries .. MaxQueries
    BY <1>3, <1>4 DEF TypeOK
  <2> QED
    BY <1>4, <2>1, <2>2
<1>6. done \in Seq([id : QueryId, resp : -MaxQueries .. MaxQueries])
  BY <1>3 DEF TypeOK
<1> HIDE DEF o
<1>7. /\ done' \in Seq([id : QueryId, resp : -MaxQueries .. MaxQueries])
      /\ Len(done) \in Nat /\ Len(done') = Len(done) + 1
      /\ DOMAIN done' = 1 .. Len(done) + 1 /\ DOMAIN done = 1 .. Len(done)
      /\ done'[Len(done) + 1] = o /\ \A k \in 1 .. Len(done) : done'[k] = done[k]
  BY <1>1, <1>5, <1>6
<1>8. Took = Len(done) + 1 /\ Took' = Took /\ Room' = Room
  <2>1. ppc[p] \in {"mark", "call"} /\ "wipe" \notin {"mark", "call"}
    BY <1>1
  <2>2. /\ Took = Len(done) + 1 /\ Room = PendingMax - 1
        /\ Took' = Len(done') + 0 /\ Room' = PendingMax - 1
    BY <1>1, <1>3, <2>1, ProcessorFrame
  <2> QED
    BY <1>7, <2>2
<1>9. TypeOK'
  <2>1. ppc' \in [Processors -> {"idle", "peek"} \cup Using]
    BY <1>1, <1>3 DEF TypeOK
  <2> QED
    BY <1>1, <1>2, <1>3, <1>7, <2>1 DEF TypeOK
<1>10. CountInv' /\ PointerInv'
  BY <1>1, <1>2, <1>8 DEF IInv, CountInv, PointerInv
<1>11. SlotInv'
  BY <1>1, <1>2, <1>8 DEF IInv, SlotInv, SlotOK
<1>12. TakenInv'
  <2>1. Took >= 1
    BY <1>4
  <2> QED
    BY <1>1, <1>2, <1>4, <1>8, <2>1 DEF TakenInv
<1>13. DoneInv'
  <2> SUFFICES ASSUME NEW k \in 1 .. Len(done) + 1
               PROVE  done'[k].id = k /\ Owed(k, done'[k].resp, arrived, wire)
    BY <1>2, <1>7 DEF DoneInv
  <2>1. CASE k = Len(done) + 1
    BY <1>4, <1>5, <1>7, <1>8, <2>1
  <2>2. CASE k # Len(done) + 1
    <3>1. k \in DOMAIN done /\ done'[k] = done[k]
      BY <1>7, <2>2
    <3> QED
      BY <3>1 DEF IInv, DoneInv
  <2> QED
    BY <2>1, <2>2
<1> QED
  BY <1>2, <1>9, <1>10, <1>11, <1>12, <1>13 DEF IInv

LEMMA WipeKeeps ==
  ASSUME Benign, IInv, NEW p \in Processors, Wipe(p)
  PROVE  IInv'
<1>1. /\ ppc[p] = "wipe" /\ ppc' = [ppc EXCEPT ![p] = "clear"]
      /\ id' = [id EXCEPT ![taken[p]] = NoId]
      /\ resp' = [resp EXCEPT ![taken[p]] = NoResp]
      /\ UNCHANGED <<state, cb, taken, head, headLock, done>> /\ UNCHANGED <<caller, receiver>>
  BY DEF Wipe, ProcessorAt
<1>2. /\ UNCHANGED <<kpc, own, tail, tailLock, nextId, wire>>
      /\ UNCHANGED <<rpc, msg, target, onDeck, arrived, resolved>>
      /\ UNCHANGED <<Issued, Sent, Moved, Written, Decked>>
      /\ CallerInv' /\ WireInv' /\ ArrivedInv'
      /\ ppc'[p] = "clear" /\ \A q \in Processors : q = p
  BY <1>1, ProcessorFrame
<1>3. TypeOK /\ SlotInv /\ ppc[p] \in Using /\ "clear" \in Using
  BY <1>1 DEF IInv, Using
<1>4. Took' = Took /\ Room' = Room
  <2>1. ppc[p] \notin {"mark", "call"} /\ "clear" \notin {"mark", "call"}
    BY <1>1
  <2>2. /\ Took = Len(done) + 0 /\ Room = PendingMax - 1
        /\ Took' = Len(done') + 0 /\ Room' = PendingMax - 1
    BY <1>1, <1>3, <2>1, ProcessorFrame
  <2> QED
    BY <1>1, <2>2
<1>5. TypeOK'
  <2>1. ppc' \in [Processors -> {"idle", "peek"} \cup Using]
    BY <1>1, <1>3 DEF TypeOK
  <2>2. id' \in [Slot -> QueryId \cup {NoId}]
    BY <1>1, <1>3 DEF TypeOK
  <2>3. resp' \in [Slot -> -MaxQueries .. MaxQueries]
    BY <1>1, <1>3, PendingRingAssumption DEF TypeOK, NoResp
  <2> QED
    BY <1>1, <1>2, <1>3, <2>1, <2>2, <2>3 DEF TypeOK
<1>6. CountInv' /\ PointerInv'
  BY <1>1, <1>2, <1>4 DEF IInv, CountInv, PointerInv
<1>7. SlotInv'
  <2> SUFFICES ASSUME NEW k \in Took + 1 .. Took + Room PROVE SlotOK(k)'
    BY <1>4 DEF SlotInv
  <2>1. SlotOK(k) /\ Place(k) \in Slot /\ Place(k) # taken[p]
    BY <1>3, Held DEF SlotInv
  <2>2. id'[Place(k)] = id[Place(k)] /\ resp'[Place(k)] = resp[Place(k)]
    BY <1>1, <1>3, <2>1 DEF TypeOK
  <2> QED
    BY <1>1, <1>2, <2>1, <2>2 DEF SlotOK
<1>8. TakenInv'
  <2>1. id'[taken[p]] = NoId /\ resp'[taken[p]] = NoResp
    BY <1>1, <1>3, Held DEF TypeOK
  <2>2. Took >= 1 /\ taken[p] = Place(Took) /\ state[taken[p]] = "taken"
    BY <1>1, <1>3, Held
  <2> QED
    BY <1>1, <1>2, <1>4, <2>1, <2>2 DEF TakenInv
<1>9. DoneInv'
  BY <1>1, <1>2 DEF IInv, DoneInv
<1> QED
  BY <1>2, <1>5, <1>6, <1>7, <1>8, <1>9 DEF IInv

LEMMA ClearKeeps ==
  ASSUME Benign, IInv, NEW p \in Processors, Clear(p)
  PROVE  IInv'
<1>1. /\ ppc[p] = "clear" /\ ppc' = [ppc EXCEPT ![p] = "idle"]
      /\ state' = [state EXCEPT ![taken[p]] = "clear"]
      /\ UNCHANGED <<id, cb, resp, taken, head, headLock, done>> /\ UNCHANGED <<caller, receiver>>
  BY DEF Clear, ProcessorAt
<1>2. /\ UNCHANGED <<kpc, own, tail, tailLock, nextId, wire>>
      /\ UNCHANGED <<rpc, msg, target, onDeck, arrived, resolved>>
      /\ UNCHANGED <<Issued, Sent, Moved, Written, Decked>>
      /\ CallerInv' /\ WireInv' /\ ArrivedInv'
      /\ ppc'[p] = "idle" /\ \A q \in Processors : q = p
  BY <1>1, ProcessorFrame
<1>3. /\ TypeOK /\ SlotInv /\ ppc[p] \in Using /\ "idle" \notin Using
      /\ PendingMax \in Nat \ {0} /\ Took \in Nat /\ Issued \in Nat /\ resolved \in Nat
      /\ Sent \in Int /\ Sent <= Issued /\ Written \in Int /\ Written <= Issued /\ Room \in Nat
  BY <1>1, Numbers DEF IInv, Using
<1>4. Took' = Took /\ Room = PendingMax - 1 /\ Room' = PendingMax
  <2>1. ppc[p] \notin {"mark", "call"} /\ "idle" \notin {"mark", "call"}
    BY <1>1
  <2>2. /\ Took = Len(done) + 0 /\ Room = PendingMax - 1
        /\ Took' = Len(done') + 0 /\ Room' = PendingMax - 0
    BY <1>1, <1>3, <2>1, ProcessorFrame
  <2> QED
    BY <1>1, <1>3, <2>2
<1>5. /\ Took \in Nat \ {0} /\ taken[p] = Place(Took) /\ taken[p] \in Slot
      /\ id[taken[p]] = NoId /\ resp[taken[p]] = NoResp
  BY <1>1, <1>3, Held
<1>6. TypeOK'
  <2>1. ppc' \in [Processors -> {"idle", "peek"} \cup Using]
    BY <1>1, <1>3 DEF TypeOK
  <2>2. state' \in [Slot -> {"clear", "sent", "ready", "taken"}]
    BY <1>1, <1>3 DEF TypeOK
  <2> QED
    BY <1>1, <1>2, <1>3, <2>1, <2>2 DEF TypeOK
<1>7. CountInv'
  BY <1>1, <1>2, <1>3, <1>4 DEF IInv, CountInv
<1>8. PointerInv'
  BY <1>1, <1>2, <1>4 DEF IInv, PointerInv
<1>9. SlotInv'
  <2> SUFFICES ASSUME NEW k \in Took + 1 .. Took + PendingMax PROVE SlotOK(k)'
    BY <1>4 DEF SlotInv
  <2>1. CASE k = Took + PendingMax
    <3>1. Place(k) = taken[p]
      BY <1>5, <2>1, PlaceNext
    <3>2. state'[Place(k)] = "clear"
      BY <1>1, <1>3, <1>5, <3>1 DEF TypeOK
    <3>3. Issued < k /\ Sent < k /\ resolved < k /\ ~(k <= Issued) /\ ~(k <= Sent) /\ ~(k <= resolved)
      BY <1>3, <1>4, <2>1 DEF IInv, CountInv
    <3> QED
      BY <1>1, <1>2, <1>5, <3>1, <3>2, <3>3 DEF SlotOK
  <2>2. CASE k # Took + PendingMax
    <3>1. k \in Took + 1 .. Took + Room
      BY <1>3, <1>4, <2>2
    <3>2. SlotOK(k) /\ Place(k) \in Slot /\ Place(k) # taken[p]
      BY <1>3, <3>1, Held DEF SlotInv
    <3>3. state'[Place(k)] = state[Place(k)]
      BY <1>1, <1>3, <3>2 DEF TypeOK
    <3> QED
      BY <1>1, <1>2, <3>2, <3>3 DEF SlotOK
  <2> QED
    BY <2>1, <2>2
<1>10. TakenInv'
  BY <1>2, <1>3 DEF TakenInv
<1>11. DoneInv'
  BY <1>1, <1>2 DEF IInv, DoneInv
<1> QED
  BY <1>2, <1>6, <1>7, <1>8, <1>9, <1>10, <1>11 DEF IInv
-----------------------------------------------------------------------------
LEMMA NextIInv == ASSUME Benign, IInv, [Next]_vars PROVE IInv'
<1>1. ASSUME NEW k \in Callers, Query(k) PROVE IInv'
  BY <1>1, LockKeeps, FillKeeps, SendKeeps, AdvanceKeeps, WriteKeeps DEF Query, QueryGoesOn
<1>2. CASE Receive
  BY <1>2, ReceiveKeeps
<1>3. CASE ProcessMsg
  BY <1>3, MatchKeeps, NeverNothing, SkipKeeps, OnDeckKeeps, DeliverKeeps, NeverDuplicate DEF ProcessMsg
<1>4. ASSUME NEW p \in Processors, Process(p) PROVE IInv'
  BY <1>4, PeekKeeps, TakeKeeps, MarkKeeps, CallBackKeeps, WipeKeeps, ClearKeeps DEF Process
<1>5. CASE UNCHANGED vars
  BY <1>5, StutterIInv
<1> QED
  BY <1>1, <1>2, <1>3, <1>4, <1>5 DEF Next

(* The invariant holds in every reachable state.                           *)
THEOREM Inductive == Benign => (Spec => []IInv)
<1> SUFFICES ASSUME Benign PROVE Spec => []IInv
  OBVIOUS
<1>1. Init => IInv
  BY InitIInv
<1>2. IInv /\ [Next]_vars => IInv'
  BY NextIInv
<1> QED
  BY <1>1, <1>2, PTL DEF Spec

(* The fields, the pointers and the locals keep their types.               *)
THEOREM TypeCorrect == Benign => (Spec => []TypeOK)
<1>1. IInv => TypeOK
  BY DEF IInv
<1> QED
  BY <1>1, Inductive, PTL

(* The k-th callback made is the one of query k.                           *)
THEOREM InOrder == Benign => (Spec => []OnceInOrder)
<1>1. IInv => OnceInOrder
  BY DEF IInv, TypeOK, DoneInv, OnceInOrder
<1> QED
  BY <1>1, Inductive, PTL

(* A callback gets the answer to its own query, or the notice that a later *)
(* answer came and this one never did.                                     *)
THEOREM Answered == Benign => (Spec => []RightAnswer)
<1>1. IInv => RightAnswer
  <2> SUFFICES ASSUME IInv, NEW k \in 1 .. Len(done)
               PROVE  IF \E j \in arrived : wire[j] = done[k].id
                      THEN done[k].resp = done[k].id
                      ELSE \E j \in arrived : wire[j] > done[k].id /\ done[k].resp = -wire[j]
    BY DEF RightAnswer
  <2>1. k \in DOMAIN done
    BY DEF IInv, TypeOK
  <2>2. done[k].id = k /\ Owed(k, done[k].resp, arrived, wire)
    BY <2>1 DEF IInv, DoneInv
  <2> QED
    BY <2>2 DEF Owed
<1> QED
  BY <1>1, Inductive, PTL

(* Ids go out on the wire in the order they were given.                    *)
THEOREM WireOrder == Benign => (Spec => []WireInOrder)
<1>1. IInv => WireInOrder
  BY DEF IInv, WireInv, WireInOrder
<1> QED
  BY <1>1, Inductive, PTL

(* EAGAIN only when every slot holds an unfinished query.                  *)
THEOREM BusyFull == Benign => (Spec => []BusyOnlyWhenFull)
<1> SUFFICES ASSUME Benign PROVE Spec => []BusyOnlyWhenFull
  OBVIOUS
<1>1. IInv => BusyOnlyWhenFull
  <2> SUFFICES ASSUME IInv, NEW k \in Callers, kpc[k] = "check", state[tail] # "clear"
               PROVE  Issued - Released = PendingMax
    BY DEF BusyOnlyWhenFull
  <2>1. /\ Issued \in Nat /\ Took \in Nat /\ Room \in Nat /\ PendingMax \in Nat \ {0}
        /\ resolved \in Nat /\ Len(done) \in Nat /\ Sent \in Int /\ TypeOK
        /\ Written \in Int /\ Written <= Issued
    BY Numbers DEF IInv
  <2>2. Sent = Issued /\ Moved = Issued
    <3>1. Sent = Issued - 0 /\ Moved = Issued - 0
      BY Inside
    <3> QED
      BY <2>1, <3>1
  <2>3. tail = Place(Issued + 1)
    BY <2>2 DEF IInv, PointerInv
  <2>4. Issued + 1 \notin Took + 1 .. Took + Room
    <3> SUFFICES ASSUME Issued + 1 \in Took + 1 .. Took + Room PROVE FALSE
      OBVIOUS
    <3>1. SlotOK(Issued + 1) /\ Sent < Issued + 1
      BY <2>1, <2>2 DEF IInv, SlotInv
    <3> QED
      BY <2>3, <3>1 DEF SlotOK
  <2>5. Issued = Took + Room
    BY <2>1, <2>4 DEF IInv, CountInv
  <2> DEFINE W == {p \in Processors : ppc[p] \in {"wipe", "clear"}}
  <2>6. CASE \E p \in Processors : ppc[p] \in Using
    <3>1. PICK p \in Processors : ppc[p] \in Using
      BY <2>6
    <3>2. \A q \in Processors : q = p
      BY DEF Benign
    <3>3. Room = PendingMax - 1
      BY <3>1, Held
    <3>4. CASE ppc[p] \in {"mark", "call"}
      <4>1. W = {}
        BY <3>2, <3>4
      <4>2. Took = Len(done) + 1
        BY <3>4 DEF Took, Some
      <4>3. Cardinality(W) = 0
        BY <4>1, FS_EmptySet
      <4> QED
        BY <2>1, <2>5, <3>3, <4>2, <4>3 DEF Released
    <3>5. CASE ppc[p] \in {"wipe", "clear"}
      <4>1. W = {p}
        BY <3>2, <3>5
      <4>2. Took = Len(done) + 0
        BY <3>2, <3>5 DEF Took, Some
      <4>3. Cardinality(W) = 1
        BY <4>1, FS_Singleton
      <4> QED
        BY <2>1, <2>5, <3>3, <4>2, <4>3 DEF Released
    <3> QED
      BY <3>1, <3>4, <3>5 DEF Using
  <2>7. CASE ~ \E p \in Processors : ppc[p] \in Using
    <3>1. W = {} /\ Took = Len(done) + 0 /\ Room = PendingMax - 0
      BY <2>7 DEF Took, Room, Some, Using
    <3>2. Cardinality(W) = 0
      BY <3>1, FS_EmptySet
    <3> QED
      BY <2>1, <2>5, <3>1, <3>2 DEF Released
  <2> QED
    BY <2>6, <2>7
<1> QED
  BY <1>1, Inductive, PTL

(* A response finds its query still unanswered, and loss notices go to     *)
(* unanswered queries only.                                                *)
THEOREM Found == Benign => (Spec => []AnswersFindTheirQuery)
<1>1. IInv => AnswersFindTheirQuery
  <2> SUFFICES ASSUME IInv PROVE AnswersFindTheirQuery
    OBVIOUS
  <2>1. ASSUME rpc = "match"
        PROVE  \E n \in HoldsMsg : \A m \in 0 .. n : state[After(m)] = "sent"
    <3>1. msg \in resolved + 1 .. Written /\ resolved \in Nat /\ Written \in Int
      BY <2>1, Answers, Numbers DEF Matching, IInv
    <3> DEFINE n == msg - resolved - 1
    <3>2. n \in 0 .. Written - resolved - 1 /\ resolved + 1 + n = msg
      BY <3>1
    <3>3. n \in HoldsMsg
      <4>1. n \in 0 .. Span - 1 /\ After(n) = Place(msg)
        BY <2>1, <3>2, Search
      <4>2. id[Place(msg)] = msg
        BY <3>1, Unresolved
      <4> QED
        BY <4>1, <4>2 DEF HoldsMsg
    <3>4. ASSUME NEW m \in 0 .. n PROVE state[After(m)] = "sent"
      <4>1. m \in 0 .. Written - resolved - 1 /\ resolved + 1 + m \in resolved + 1 .. Written
        BY <3>1, <3>2
      <4>2. After(m) = Place(resolved + 1 + m)
        BY <2>1, <4>1, Search
      <4> QED
        BY <4>1, <4>2, Unresolved
    <3> QED
      BY <3>3, <3>4
  <2>2. rpc = "skip" => state[onDeck] = "sent"
    BY OnDeck
  <2>3. rpc \in {"match", "skip"} => resolved < msg
    BY DEF IInv, ArrivedInv, Matching
  <2> QED
    BY <2>1, <2>2, <2>3 DEF AnswersFindTheirQuery
<1> QED
  BY <1>1, Inductive, PTL

(* A slot gets an id only when it has none, loses it after its callback,   *)
(* and no response is written over another.                                *)
THEOREM SlotReuse == Benign => (Spec => SlotsReusedWhenFree)
<1> SUFFICES ASSUME Benign PROVE Spec => SlotsReusedWhenFree
  OBVIOUS
<1> DEFINE IdStep(i) == \/ id[i] = NoId /\ id'[i] = nextId
                        \/ id'[i] = NoId /\ \E k \in DOMAIN done : done[k].id = id[i]
           Free == \A i \in Slot :
                     /\ id'[i] # id[i] => IdStep(i)
                     /\ resp'[i] # resp[i] => resp[i] = NoResp \/ resp'[i] = NoResp
<1>1. IInv /\ [Next]_vars => [Free]_vars
  <2> SUFFICES ASSUME IInv, Next PROVE Free
    OBVIOUS
  <2>1. TypeOK
    BY DEF IInv
  <2>2. CASE UNCHANGED <<id, resp>>
    BY <2>2
  <2>3. ASSUME NEW k \in Callers, QueryFill(k) PROVE Free
    <3>1. Issued + 1 \in Took + 1 .. Took + Room /\ tail = Place(Issued + 1)
      <4>1. kpc[k] = "check" /\ state[tail] = "clear"
        BY <2>3 DEF QueryFill, CallerAt
      <4>2. Sent = Issued - 0 /\ Moved = Issued - 0 /\ Issued \in Nat
        BY <4>1, Inside, Numbers DEF IInv
      <4>3. Sent = Issued /\ Moved = Issued
        BY <4>2
      <4> QED
        BY <4>1, <4>3, ClearMeansRoom DEF IInv, PointerInv
    <3>2. SlotOK(Issued + 1) /\ Issued \in Nat
      BY <2>1, <3>1, Numbers DEF IInv, SlotInv
    <3>3. id[tail] = NoId
      BY <3>1, <3>2 DEF SlotOK
    <3> QED
      BY <2>1, <2>3, <3>3 DEF QueryFill, TypeOK
  <2>4. CASE SkipOne \/ Deliver
    <3>1. resp[onDeck] = NoResp
      BY <2>4, OnDeck DEF SkipOne, Deliver, ReceiverAt
    <3> QED
      BY <2>1, <2>4, <3>1 DEF SkipOne, Deliver, TypeOK
  <2>5. ASSUME NEW p \in Processors, Wipe(p) PROVE Free
    <3>1. ppc[p] = "wipe" /\ ppc[p] \in Using
      BY <2>5 DEF Wipe, ProcessorAt, Using
    <3>2. id[taken[p]] = Took /\ Took \in Nat \ {0} /\ taken[p] \in Slot
      BY <3>1, Held
    <3>3. Took = Len(done)
      <4>1. \A q \in Processors : q = p
        BY DEF Benign
      <4>2. Took = Len(done) + 0 /\ Len(done) \in Nat
        BY <3>1, <4>1, Numbers DEF IInv, Took, Some
      <4> QED
        BY <4>2
    <3>4. Took \in DOMAIN done /\ done[Took].id = Took
      BY <2>1, <3>2, <3>3 DEF TypeOK, IInv, DoneInv
    <3> QED
      BY <2>1, <2>5, <3>2, <3>4 DEF Wipe, TypeOK
  <2>6. ASSUME NEW k \in Callers, Query(k), ~QueryFill(k) PROVE UNCHANGED <<id, resp>>
    BY <2>6 DEF Query, QueryGoesOn, QueryLock, QueryBusy, QuerySend, QueryAdvance, QueryWrite, QueryUnlock, slots
  <2>7. Receive => UNCHANGED <<id, resp>>
    BY DEF Receive, ReceiveNext, ReceiveAgain, Arrives, slots
  <2>8. ProcessMsg /\ ~SkipOne /\ ~Deliver => UNCHANGED <<id, resp>>
    BY DEF ProcessMsg, MatchOnDeck, MatchFound, MatchNothing, SkipNext, Duplicate, DeliverNext, slots
  <2>9. ASSUME NEW p \in Processors, Process(p), ~Wipe(p) PROVE UNCHANGED <<id, resp>>
    BY <2>9 DEF Process, TakeLock, TakeGiveUp, Take, Mark, CallBack, Clear, slots
  <2> QED
    BY <2>2, <2>3, <2>4, <2>5, <2>6, <2>7, <2>8, <2>9 DEF Next
<1> QED
  BY <1>1, Inductive, PTL DEF Spec, SlotsReusedWhenFree
-----------------------------------------------------------------------------
(* The refinement of QueryPipeline.                                        *)

(* What is stored for the queries n + 1 .. m.                              *)
Stored(n, m, r) == [j \in 1 .. m - n |-> [id |-> n + j, resp |-> r[Place(n + j)]]]

(* The query of a resolved outcome is found in its own slot.               *)
LEMMA Resolved ==
  ASSUME IInv, NEW k \in Len(done) + 1 .. resolved
  PROVE  /\ id[Place(k)] = k /\ k \in Nat \ {0} /\ Place(k) \in Slot
         /\ Owed(k, resp[Place(k)], arrived, wire)
<1>1. /\ Took \in Nat /\ Room \in Nat /\ Len(done) \in Nat /\ resolved \in Nat /\ Issued \in Nat
      /\ Took <= Len(done) + 1 /\ TypeOK /\ Written \in Int /\ Written <= Issued
  BY Numbers DEF IInv
<1>2. resolved <= Issued /\ Issued <= Took + Room
  BY <1>1 DEF IInv, CountInv
<1>3. CASE k \in Took + 1 .. Took + Room
  <2>1. SlotOK(k) /\ k \in Nat \ {0} /\ Place(k) \in Slot /\ k <= resolved /\ k <= Issued
    BY <1>1, <1>2, <1>3, Window DEF IInv, SlotInv
  <2> QED
    BY <2>1 DEF SlotOK
<1>4. CASE k \notin Took + 1 .. Took + Room
  <2>1. k = Took /\ Took = Len(done) + 1
    BY <1>1, <1>2, <1>4
  <2>2. PICK p \in Processors : ppc[p] \in {"mark", "call"}
    <3>1. Took = Len(done) + Some(Processors, ppc, {"mark", "call"})
      BY DEF Took
    <3>2. Some(Processors, ppc, {"mark", "call"}) # 0
      BY <1>1, <2>1, <3>1
    <3> QED
      BY <3>2 DEF Some
  <2>3. /\ taken[p] = Place(Took) /\ taken[p] \in Slot
        /\ id[taken[p]] = Took /\ Owed(Took, resp[taken[p]], arrived, wire)
    BY <1>1, <2>2 DEF IInv, TakenInv, Using, TypeOK
  <2> QED
    BY <1>1, <2>1, <2>3
<1> QED
  BY <1>3, <1>4

LEMMA Outcomes == IInv => ReadyOutcomes = Stored(Len(done), resolved, resp)
<1> SUFFICES ASSUME IInv PROVE ReadyOutcomes = Stored(Len(done), resolved, resp)
  OBVIOUS
<1>1. Len(done) \in Nat /\ resolved \in Nat
  BY Numbers DEF IInv
<1>2. ASSUME NEW j \in 1 .. resolved - Len(done)
      PROVE  SlotOf(Len(done) + j) = Place(Len(done) + j)
  <2> DEFINE k == Len(done) + j
  <2>1. k \in Len(done) + 1 .. resolved
    BY <1>1
  <2>2. id[Place(k)] = k /\ k \in Nat \ {0} /\ Place(k) \in Slot
    BY <2>1, Resolved
  <2>3. \A i \in Slot : id[i] = k => i = Place(k)
    BY <2>2, IdPlace DEF NoId
  <2> HIDE DEF k
  <2>4. SlotOf(k) = Place(k)
    BY <2>2, <2>3 DEF SlotOf
  <2> QED
    BY <2>4 DEF k
<1> QED
  BY <1>2 DEF ReadyOutcomes, Stored

LEMMA OutcomesNext == IInv' => ReadyOutcomes' = Stored(Len(done'), resolved', resp')
<1>1. (IInv => ReadyOutcomes = Stored(Len(done), resolved, resp))'
  BY Outcomes, PTL
<1> QED
  BY <1>1

(* Only filling a slot issues a query.                                     *)
LEMMA FillIssues ==
  ASSUME IInv, IInv', NEW k \in Callers, QueryFill(k)
  PROVE  Pipeline!Issue
<1>1. kpc[k] = "check" /\ state[tail] = "clear" /\ nextId' = nextId + 1 /\ UNCHANGED <<resp, resolved, done>>
  BY DEF QueryFill, CallerAt, receiver, processor
<1>2. /\ Issued \in Nat /\ nextId = Issued + 1 /\ Took \in Nat /\ Room \in Nat /\ PendingMax \in Nat \ {0}
      /\ Len(done) \in Nat
  BY Numbers DEF IInv
<1>3. Issued + 1 \in Took + 1 .. Took + Room
  <2>1. Sent = Issued - 0 /\ Moved = Issued - 0
    BY <1>1, Inside
  <2>2. Sent = Issued /\ Moved = Issued
    BY <1>2, <2>1
  <2> QED
    BY <1>1, <2>2, ClearMeansRoom DEF IInv, PointerInv
<1>4. Took + Room <= Len(done) + PendingMax
  <2>1. Some(Processors, ppc, {"mark", "call"}) <= Some(Processors, ppc, Using)
    BY DEF Some, Using
  <2>2. Some(Processors, ppc, {"mark", "call"}) \in {0, 1} /\ Some(Processors, ppc, Using) \in {0, 1}
    BY DEF Some
  <2> QED
    BY <1>2, <2>1, <2>2 DEF Took, Room
<1>5. Issued < MaxQueries
  <2>1. nextId <= MaxQueries /\ MaxQueries \in Nat
    BY <1>1, PendingRingAssumption DEF IInv, CallerInv
  <2> QED
    BY <1>2, <2>1
<1>6. Issued < Len(done) + PendingMax
  BY <1>2, <1>3, <1>4
<1>7. Issued' = Issued + 1
  BY <1>1, <1>2 DEF Issued
<1>8. ReadyOutcomes' = ReadyOutcomes
  BY <1>1, Outcomes, OutcomesNext
<1> QED
  BY <1>1, <1>5, <1>6, <1>7, <1>8 DEF Pipeline!Issue

(* Storing a response or a loss notice resolves the next query.            *)
LEMMA StoreResolves ==
  ASSUME IInv, IInv', SkipOne \/ Deliver
  PROVE  Pipeline!Resolve
<1>1. PICK r \in {msg, -msg} :
        /\ rpc = "skip" /\ resolved' = resolved + 1
        /\ resp' = [resp EXCEPT ![onDeck] = r]
        /\ (r = msg /\ msg = resolved + 1) \/ (r = -msg /\ resolved + 1 < msg)
        /\ UNCHANGED <<caller, processor>>
  <2>1. CASE SkipOne
    <3>1. rpc = "skip" /\ target # onDeck
      BY <2>1 DEF SkipOne, ReceiverAt
    <3> QED
      BY <2>1, <3>1, OnDeck DEF SkipOne
  <2>2. CASE Deliver
    <3>1. rpc = "skip" /\ target = onDeck
      BY <2>2 DEF Deliver, ReceiverAt
    <3> QED
      BY <2>2, <3>1, OnDeck DEF Deliver
  <2> QED
    BY <2>1, <2>2
<1>2. /\ TypeOK /\ Len(done) \in Nat /\ resolved \in Nat /\ Issued \in Nat /\ Written \in Int /\ Written <= Issued
      /\ Len(done) <= Took /\ Took \in Nat /\ Room \in Nat
  BY Numbers DEF IInv
<1>3. /\ onDeck = Place(resolved + 1) /\ onDeck \in Slot /\ resolved + 1 <= Written
      /\ resolved + 1 \in Took + 1 .. Took + Room
  BY <1>1, OnDeck
<1>4. msg \in resolved + 1 .. Written
  BY <1>1, Answers DEF Matching
<1>5. UNCHANGED <<done, Issued>>
  BY <1>1, ReceiverFrame
<1> DEFINE n == Len(done)
           m == resolved - n
           o == [id |-> resolved + 1, resp |-> r]
<1>6. m \in Nat /\ n \in Nat /\ n <= resolved
  BY <1>2 DEF IInv, CountInv
<1>7. ReadyOutcomes = Stored(n, resolved, resp) /\ ReadyOutcomes' = Stored(n, resolved + 1, resp')
  BY <1>1, <1>5, Outcomes, OutcomesNext
<1>8. resp'[onDeck] = r
  BY <1>1, <1>2, <1>3 DEF TypeOK
<1>9. \A j \in 1 .. m : resp'[Place(n + j)] = resp[Place(n + j)]
  <2> SUFFICES ASSUME NEW j \in 1 .. m PROVE resp'[Place(n + j)] = resp[Place(n + j)]
    OBVIOUS
  <2>1. n + j \in Len(done) + 1 .. resolved /\ n + j # resolved + 1
    BY <1>2, <1>6
  <2>2. id[Place(n + j)] = n + j /\ Place(n + j) \in Slot
    BY <2>1, Resolved
  <2>3. id[onDeck] = resolved + 1
    BY <1>1, OnDeck
  <2>4. Place(n + j) # onDeck
    BY <2>1, <2>2, <2>3
  <2> QED
    BY <1>1, <1>2, <2>2, <2>4 DEF TypeOK
<1>10. ReadyOutcomes' = Append(ReadyOutcomes, o) /\ Len(ReadyOutcomes) = m
  <2>1. resolved - n = m /\ (resolved + 1) - n = m + 1 /\ n + (m + 1) = resolved + 1
    BY <1>2, <1>6
  <2> HIDE DEF n, m
  <2>2. Stored(n, resolved, resp) = [j \in 1 .. m |-> [id |-> n + j, resp |-> resp[Place(n + j)]]]
    BY <2>1 DEF Stored
  <2>3. Stored(n, resolved + 1, resp') = [j \in 1 .. m + 1 |-> [id |-> n + j, resp |-> resp'[Place(n + j)]]]
    BY <2>1 DEF Stored
  <2>4. Len([j \in 1 .. m |-> [id |-> n + j, resp |-> resp[Place(n + j)]]]) = m
    BY <1>6
  <2>5. Append([j \in 1 .. m |-> [id |-> n + j, resp |-> resp[Place(n + j)]]], o)
          = [j \in 1 .. m + 1 |-> IF j = m + 1 THEN o ELSE [id |-> n + j, resp |-> resp[Place(n + j)]]]
    BY <1>6, <2>4
  <2>6. \A j \in 1 .. m + 1 : [id |-> n + j, resp |-> resp'[Place(n + j)]]
                                = IF j = m + 1 THEN o ELSE [id |-> n + j, resp |-> resp[Place(n + j)]]
    BY <1>3, <1>6, <1>8, <1>9, <2>1
  <2>7. [j \in 1 .. m + 1 |-> [id |-> n + j, resp |-> resp'[Place(n + j)]]]
          = [j \in 1 .. m + 1 |-> IF j = m + 1 THEN o ELSE [id |-> n + j, resp |-> resp[Place(n + j)]]]
    BY <2>6, Zenon
  <2>8. Stored(n, resolved + 1, resp') = Append(Stored(n, resolved, resp), o)
    BY <2>2, <2>3, <2>5, <2>7, Zenon
  <2>9. Len(Stored(n, resolved, resp)) = m
    BY <2>2, <2>4, Zenon
  <2> QED
    BY <1>7, <2>8, <2>9
<1>11. Len(done) + Len(ReadyOutcomes) + 1 = resolved + 1
  BY <1>2, <1>6, <1>10
<1>12. resolved + 1 <= Issued
  BY <1>2, <1>3
<1>13. o \in Pipeline!Outcome(resolved + 1)
  <2>1. r \in {resolved + 1} \cup {-q : q \in (resolved + 1) + 1 .. Issued}
    <3>1. CASE r = msg /\ msg = resolved + 1
      BY <3>1
    <3>2. CASE r = -msg /\ resolved + 1 < msg
      <4>1. msg \in (resolved + 1) + 1 .. Issued
        BY <1>2, <1>4, <3>2
      <4> QED
        BY <3>2, <4>1
    <3> QED
      BY <1>1, <3>1, <3>2
  <2> QED
    BY <2>1 DEF Pipeline!Outcome
<1> HIDE DEF n, m, o
<1> QED
  BY <1>5, <1>10, <1>11, <1>12, <1>13 DEF Pipeline!Resolve

(* Making the callback finishes the first of the outcomes.                 *)
LEMMA CallBackFinishes ==
  ASSUME Benign, IInv, IInv', NEW p \in Processors, CallBack(p)
  PROVE  Pipeline!Finish
<1>1. /\ ppc[p] = "call" /\ UNCHANGED <<resp, resolved, nextId>>
      /\ done' = Append(done, [id |-> id[taken[p]], resp |-> resp[taken[p]]])
  BY DEF CallBack, ProcessorAt, slots, caller, receiver
<1>2. TypeOK /\ Len(done) \in Nat /\ resolved \in Nat /\ Took \in Nat
  BY Numbers DEF IInv
<1>3. Took = Len(done) + 1
  BY <1>1 DEF Took, Some
<1>4. taken[p] = Place(Took) /\ id[taken[p]] = Took
  BY <1>1, Held DEF Using
<1> DEFINE n == Len(done)
           m == resolved - n
           R(j) == [id |-> n + j, resp |-> resp[Place(n + j)]]
<1>5. m \in Nat \ {0} /\ n \in Nat
  BY <1>2, <1>3 DEF IInv, CountInv
<1>6. Len(done') = n + 1
  BY <1>1, <1>2 DEF TypeOK
<1>7. ReadyOutcomes = [j \in 1 .. m |-> R(j)]
  BY Outcomes DEF Stored
<1>8. ReadyOutcomes' = [j \in 1 .. m - 1 |-> R(j + 1)]
  <2>1. ReadyOutcomes' = Stored(n + 1, resolved, resp)
    BY <1>1, <1>6, OutcomesNext
  <2>2. resolved - (n + 1) = m - 1 /\ \A j \in 1 .. m - 1 : n + 1 + j = n + (j + 1)
    BY <1>2, <1>5
  <2> QED
    BY <2>1, <2>2 DEF Stored
<1>9. R(1) = [id |-> id[taken[p]], resp |-> resp[taken[p]]]
  BY <1>3, <1>4
<1> HIDE DEF R, n, m
<1>10. /\ [j \in 1 .. m |-> R(j)] # <<>>
       /\ Head([j \in 1 .. m |-> R(j)]) = R(1)
       /\ Tail([j \in 1 .. m |-> R(j)]) = [j \in 1 .. m - 1 |-> R(j + 1)]
  <2>1. Len([j \in 1 .. m |-> R(j)]) = m /\ 1 \in 1 .. m
    BY <1>5
  <2> QED
    BY <1>5, <2>1
<1>11. Issued' = Issued
  BY <1>1 DEF Issued
<1> QED
  BY <1>1, <1>7, <1>8, <1>9, <1>10, <1>11 DEF Pipeline!Finish

(* Every other step is invisible to the users.                             *)
LEMMA OthersStutter ==
  ASSUME Benign, IInv, IInv', UNCHANGED <<nextId, resolved, done>>,
         UNCHANGED resp \/ \E p \in Processors : Wipe(p)
  PROVE  UNCHANGED <<Issued, ReadyOutcomes, done>>
<1>1. Issued' = Issued
  BY DEF Issued
<1>2. \A k \in Len(done) + 1 .. resolved : resp'[Place(k)] = resp[Place(k)]
  <2> SUFFICES ASSUME NEW k \in Len(done) + 1 .. resolved, NEW p \in Processors, Wipe(p)
               PROVE  resp'[Place(k)] = resp[Place(k)]
    OBVIOUS
  <2>1. ppc[p] = "wipe" /\ ppc[p] \in Using /\ resp' = [resp EXCEPT ![taken[p]] = NoResp]
    BY DEF Wipe, ProcessorAt, Using
  <2>2. TypeOK /\ Len(done) \in Nat
    BY Numbers DEF IInv
  <2>3. Took = Len(done)
    <3>1. \A q \in Processors : q = p
      BY DEF Benign
    <3>2. Took = Len(done) + 0
      BY <2>1, <3>1 DEF Took, Some
    <3> QED
      BY <2>2, <3>2
  <2>4. id[Place(k)] = k /\ Place(k) \in Slot
    BY Resolved
  <2>5. id[taken[p]] = Took
    BY <2>1, Held
  <2>6. Place(k) # taken[p]
    BY <2>2, <2>3, <2>4, <2>5
  <2> QED
    BY <2>1, <2>2, <2>4, <2>6 DEF TypeOK
<1>3. Len(done) \in Nat /\ resolved \in Nat
  BY Numbers DEF IInv
<1>4. Stored(Len(done), resolved, resp') = Stored(Len(done), resolved, resp)
  <2>1. \A j \in 1 .. resolved - Len(done) : Len(done) + j \in Len(done) + 1 .. resolved
    BY <1>3
  <2>2. \A j \in 1 .. resolved - Len(done) : resp'[Place(Len(done) + j)] = resp[Place(Len(done) + j)]
    BY <1>2, <2>1
  <2> QED
    BY <2>2 DEF Stored
<1>5. ReadyOutcomes' = ReadyOutcomes
  BY <1>4, Outcomes, OutcomesNext
<1> QED
  BY <1>1, <1>5

LEMMA StepPipeline ==
  ASSUME Benign, IInv, IInv', [Next]_vars
  PROVE  [Pipeline!Next]_(Pipeline!vars)
<1>1. ASSUME NEW k \in Callers, QueryFill(k) PROVE Pipeline!Next
  BY <1>1, FillIssues DEF Pipeline!Next
<1>2. CASE SkipOne \/ Deliver
  BY <1>2, StoreResolves DEF Pipeline!Next
<1>3. ASSUME NEW p \in Processors, CallBack(p) PROVE Pipeline!Next
  BY <1>3, CallBackFinishes DEF Pipeline!Next
<1>4. ASSUME UNCHANGED <<nextId, resolved, done>>,
             UNCHANGED resp \/ \E p \in Processors : Wipe(p)
      PROVE  UNCHANGED Pipeline!vars
  BY <1>4, OthersStutter DEF Pipeline!vars
<1>5. ASSUME NEW k \in Callers, Query(k), ~QueryFill(k) PROVE UNCHANGED <<nextId, resolved, done, resp>>
  BY <1>5 DEF Query, QueryGoesOn, QueryLock, QueryBusy, QuerySend, QueryAdvance, QueryWrite, QueryUnlock,
              slots, receiver, processor
<1>6. Receive => UNCHANGED <<nextId, resolved, done, resp>>
  BY DEF Receive, ReceiveNext, ReceiveAgain, Arrives, slots, caller, processor
<1>7. ProcessMsg /\ ~SkipOne /\ ~Deliver => UNCHANGED <<nextId, resolved, done, resp>>
  BY DEF ProcessMsg, MatchOnDeck, MatchFound, MatchNothing, SkipNext, Duplicate, DeliverNext,
         slots, caller, processor
<1>8. ASSUME NEW p \in Processors, Process(p), ~CallBack(p)
      PROVE  UNCHANGED <<nextId, resolved, done>> /\ (UNCHANGED resp \/ Wipe(p))
  BY <1>8 DEF Process, TakeLock, TakeGiveUp, Take, Mark, Wipe, Clear, slots, caller, receiver
<1>9. UNCHANGED vars => UNCHANGED <<nextId, resolved, done, resp>>
  BY DEF vars, slots, caller, receiver, processor
<1> QED
  BY <1>1, <1>2, <1>3, <1>4, <1>5, <1>6, <1>7, <1>8, <1>9 DEF Next

(* The ring implements the pipeline its users are promised.                *)
THEOREM Refinement == Benign => (Spec => ImplementsPipeline)
<1> SUFFICES ASSUME Benign PROVE Spec => ImplementsPipeline
  OBVIOUS
<1>1. Init => Pipeline!Init
  <2> SUFFICES ASSUME Init PROVE Issued = 0 /\ ReadyOutcomes = <<>> /\ done = <<>>
    BY DEF Pipeline!Init
  <2>1. Issued = 0 /\ done = <<>> /\ resolved = 0 /\ Len(done) = 0
    BY DEF Init, Issued
  <2>2. ReadyOutcomes = <<>>
    BY <2>1 DEF ReadyOutcomes
  <2> QED
    BY <2>1, <2>2
<1>2. IInv /\ IInv' /\ [Next]_vars => [Pipeline!Next]_(Pipeline!vars)
  BY StepPipeline
<1> QED
  BY <1>1, <1>2, Inductive, PTL DEF Spec, ImplementsPipeline, Pipeline!Spec
=============================================================================
