-------------------------- MODULE RingQueueProofs --------------------------
(***************************************************************************)
(* Proofs about RingQueue, for every queue size, every set of consumers    *)
(* and every number of items.                                              *)
(***************************************************************************)
EXTENDS RingQueue, SequenceTheorems, TLAPS

(* The rank of the item last moved off the ring: a pop between its store   *)
(* to head and its read of the slot has moved one more than got shows.     *)
Taking == \E c \in Consumers : cpc[c] = "take"
Gone == IF Taking THEN Len(got) + 1 ELSE Len(got)

(* Some pop is about to read or to clear the head slot.                    *)
AtHead == \E c \in Consumers : cpc[c] \in {"take", "clear"}

(* pop_lock is held by the one pop that is past it.                        *)
LockInv == /\ \A c \in Consumers : cpc[c] \in Critical => popLock
           /\ \A c, d \in Consumers : cpc[c] \in Critical /\ cpc[d] \in Critical => c = d

(* Going round from head, first the items in transit in push order, then   *)
(* empty slots; the exceptions are the tail slot between store and publish *)
(* and the head slot before it is cleared.                                 *)
SlotInv ==
    \A i \in Idx :
        q[i] = IF Dist(i) < Dist(tail) THEN Gone + Dist(i)
               ELSE IF i = tail /\ ppc = "publish" THEN pushed + 1
               ELSE IF i = head /\ AtHead THEN Gone
               ELSE NULL

PushInv == ppc # "idle" => head # tail /\ pushed < MaxItems

CountInv == pushed = Gone + Dist(tail) - 1

NextInv == \A c \in Consumers :
              /\ cpc[c] \in {"wait", "advance"} => nxt[c] = Succ(head)
              /\ cpc[c] = "advance" => tail # nxt[c]

GotInv == /\ \A k \in 1 .. Len(got) : got[k] = k
          /\ \A c \in Consumers :
               cpc[c] \in {"clear", "unlock"} => item[c] = Len(got) /\ Len(got) > 0

IInv == /\ TypeOK
        /\ LockInv
        /\ SlotInv
        /\ PushInv
        /\ CountInv
        /\ NextInv
        /\ GotInv
-----------------------------------------------------------------------------
(* The ring has four slots or more.                                        *)
LEMMA SizeBound == Size \in Nat /\ Size >= 4
  BY RingQueueAssumption DEF Size

(* Going round: every slot is 1 .. Size away from head, the next slot is   *)
(* one further, and no two slots are equally far.                          *)
LEMMA GoingRound ==
  ASSUME TypeOK
  PROVE  /\ \A i \in Idx : Succ(i) \in Idx /\ Dist(i) \in 1 .. Size
         /\ \A i, j \in Idx : Dist(i) = Dist(j) => i = j
         /\ Dist(head) = Size
         /\ \A i \in Idx : i # head => Dist(Succ(i)) = Dist(i) + 1
         /\ Dist(Succ(head)) = 1
  BY SizeBound DEF TypeOK, Idx, Succ, Dist

(* A pop past pop_lock is the only one, so it alone decides where the head *)
(* slot stands.                                                            *)
LEMMA Alone ==
  ASSUME LockInv, NEW c \in Consumers, cpc[c] \in Critical
  PROVE  /\ Taking <=> cpc[c] = "take"
         /\ AtHead <=> cpc[c] \in {"take", "clear"}
         /\ \A d \in Consumers : d # c => cpc[d] \notin Critical
  BY DEF LockInv, Taking, AtHead, Critical

(* What the head slot holds follows from where the pop is.                 *)
LEMMA HeadSlot ==
  ASSUME IInv
  PROVE  q[head] = IF AtHead THEN Gone ELSE NULL
<1>1. head \in Idx /\ tail \in Idx /\ ~(Dist(head) < Dist(tail))
  BY GoingRound, SizeBound DEF IInv, TypeOK
<1> QED
  BY <1>1 DEF IInv, SlotInv, PushInv

(* The empty queue satisfies the invariant.                                *)
LEMMA InitIInv == Init => IInv
<1> SUFFICES ASSUME Init PROVE IInv
  OBVIOUS
<1> USE SizeBound, RingQueueAssumption
<1>1. TypeOK
  BY DEF Init, TypeOK, Idx, NULL, Critical
<1>2. ~Taking /\ ~AtHead /\ Gone = 0
  BY DEF Init, Taking, AtHead, Gone
<1>3. LockInv /\ PushInv /\ NextInv /\ GotInv
  BY DEF Init, LockInv, PushInv, NextInv, GotInv, Critical
<1>4. CountInv
  BY <1>2 DEF Init, CountInv, Dist
<1>5. SlotInv
  <2> SUFFICES ASSUME NEW i \in Idx
               PROVE  q[i] = NULL /\ Dist(i) >= Dist(tail) /\ ppc # "publish"
    BY <1>1, <1>2, GoingRound DEF SlotInv, TypeOK
  <2> QED
    BY DEF Init, Dist, Idx
<1> QED
  BY <1>1, <1>3, <1>4, <1>5 DEF IInv

(* Every step keeps the invariant.                                         *)
LEMMA StepIInv == IInv /\ [Next]_vars => IInv'
<1> SUFFICES ASSUME IInv, [Next]_vars PROVE IInv'
  OBVIOUS
<1> USE DEF IInv
<1>1. CASE PushBegin
  <2>1. TypeOK' /\ LockInv' /\ PushInv' /\ NextInv' /\ GotInv'
    BY <1>1 DEF PushBegin, TypeOK, LockInv, PushInv, NextInv, GotInv, Succ
  <2>2. Gone' = Gone /\ AtHead' = AtHead /\ \A i : Dist(i)' = Dist(i)
    BY <1>1 DEF PushBegin, Gone, Taking, AtHead, Dist
  <2>3. SlotInv' /\ CountInv'
    BY <1>1, <2>2 DEF PushBegin, SlotInv, CountInv, Idx
  <2> QED
    BY <2>1, <2>3
<1>2. CASE PushStore
  <2>1. TypeOK'
    <3>1. pushed + 1 \in Item
      BY <1>2, RingQueueAssumption DEF PushStore, PushInv, TypeOK, Item
    <3> QED
      BY <1>2, <3>1 DEF PushStore, TypeOK
  <2>5. LockInv' /\ PushInv' /\ NextInv' /\ GotInv'
    BY <1>2 DEF PushStore, LockInv, PushInv, NextInv, GotInv, Succ
  <2>2. Gone' = Gone /\ AtHead' = AtHead /\ \A i : Dist(i)' = Dist(i)
    BY <1>2 DEF PushStore, Gone, Taking, AtHead, Dist
  <2>3. SlotInv'
    <3> SUFFICES ASSUME NEW i \in Idx
                 PROVE  q'[i] = IF Dist(i) < Dist(tail) THEN Gone + Dist(i)
                                ELSE IF i = tail THEN pushed + 1
                                ELSE IF i = head /\ AtHead THEN Gone
                                ELSE NULL
      BY <1>2, <2>2 DEF PushStore, SlotInv, Idx
    <3>1. Dist(i) \in 1 .. Size /\ (i = tail => ~(Dist(i) < Dist(tail)))
      BY GoingRound DEF TypeOK
    <3> QED
      BY <1>2, <3>1 DEF PushStore, SlotInv, TypeOK
  <2>4. CountInv'
    BY <1>2, <2>2 DEF PushStore, CountInv
  <2> QED
    BY <2>1, <2>3, <2>4, <2>5
<1>3. CASE PushPublish
  <2>1. tail # head /\ tail' = Succ(tail) /\ tail' \in Idx /\ head' = head
    BY <1>3, GoingRound DEF PushPublish, PushInv, TypeOK
  <2>2. Gone' = Gone /\ AtHead' = AtHead /\ \A i : Dist(i)' = Dist(i)
    BY <1>3 DEF PushPublish, Gone, Taking, AtHead, Dist
  <2>3. Dist(tail)' = Dist(tail) + 1
    BY <2>1, GoingRound DEF Dist, TypeOK
  <2>4. TypeOK'
    <3>1. pushed + 1 \in 0 .. MaxItems
      BY <1>3, RingQueueAssumption DEF PushPublish, PushInv, TypeOK
    <3> QED
      BY <1>3, <2>1, <3>1 DEF PushPublish, TypeOK
  <2>8. LockInv' /\ PushInv' /\ GotInv'
    BY <1>3 DEF PushPublish, LockInv, PushInv, GotInv
  <2>5. NextInv'
    <3> SUFFICES ASSUME NEW c \in Consumers, cpc[c] = "advance"
                 PROVE  Succ(tail) # Succ(head)
      BY <1>3, <2>1 DEF PushPublish, NextInv, Succ
    <3> QED
      BY <2>1, SizeBound DEF TypeOK, Idx, Succ
  <2>6. CountInv'
    <3>1. Dist(tail) \in Nat /\ Gone \in Nat
      BY GoingRound DEF Gone, TypeOK
    <3>2. pushed' = pushed + 1 /\ pushed = Gone + Dist(tail) - 1
      BY <1>3 DEF PushPublish, CountInv
    <3> QED
      BY <2>2, <2>3, <3>1, <3>2 DEF CountInv
  <2>7. SlotInv'
    <3> SUFFICES ASSUME NEW i \in Idx
                 PROVE  q[i] = IF Dist(i) < Dist(tail) + 1 THEN Gone + Dist(i)
                               ELSE IF i = head /\ AtHead THEN Gone
                               ELSE NULL
      BY <1>3, <2>2, <2>3 DEF PushPublish, SlotInv, Idx
    <3>1. /\ Dist(i) \in 1 .. Size /\ Dist(tail) \in 1 .. Size
          /\ Dist(i) = Dist(tail) => i = tail
      BY GoingRound DEF TypeOK
    <3>2. CASE i = tail
      BY <1>3, <3>1, <3>2 DEF PushPublish, SlotInv, CountInv, Gone, TypeOK
    <3>3. CASE i # tail
      BY <1>3, <3>1, <3>3 DEF SlotInv
    <3> QED
      BY <3>2, <3>3
  <2> QED
    BY <2>4, <2>5, <2>6, <2>7, <2>8
<1>4. ASSUME NEW c \in Consumers, PopLock(c) PROVE IInv'
  <2>1. \A d \in Consumers : cpc[d] \notin Critical
    BY <1>4 DEF PopLock, LockInv
  <2>2. TypeOK' /\ LockInv' /\ PushInv' /\ NextInv' /\ GotInv'
    BY <1>4, <2>1 DEF PopLock, Goto, TypeOK, LockInv, PushInv, NextInv, GotInv, Succ, Critical
  <2>3. ~Taking /\ ~Taking' /\ ~AtHead /\ ~AtHead'
    BY <1>4, <2>1 DEF PopLock, Goto, Taking, AtHead, TypeOK, Critical
  <2>4. Gone' = Gone /\ \A i : Dist(i)' = Dist(i)
    BY <1>4, <2>3 DEF PopLock, Gone, Dist
  <2>5. SlotInv' /\ CountInv'
    BY <1>4, <2>3, <2>4 DEF PopLock, SlotInv, CountInv, Idx
  <2> QED
    BY <2>2, <2>5
<1>5. ASSUME NEW c \in Consumers, PopPeek(c) PROVE IInv'
  <2>1. ~Taking /\ ~AtHead /\ \A d \in Consumers : d # c => cpc[d] \notin Critical
    BY <1>5, Alone DEF PopPeek, Critical
  <2>2. /\ cpc' = [cpc EXCEPT ![c] = "wait"]
        /\ nxt' = [nxt EXCEPT ![c] = Succ(head)]
        /\ UNCHANGED <<q, head, tail, popLock, ppc, pushed, item, got>>
    BY <1>5, <2>1, HeadSlot DEF PopPeek, Goto
  <2>3. Succ(head) \in Idx
    BY GoingRound DEF TypeOK
  <2>4. TypeOK' /\ LockInv' /\ PushInv' /\ NextInv' /\ GotInv'
    BY <1>5, <2>1, <2>2, <2>3 DEF PopPeek, TypeOK, LockInv, PushInv, NextInv, GotInv, Succ, Critical
  <2>5. ~Taking' /\ ~AtHead'
    BY <2>1, <2>2 DEF Taking, AtHead, TypeOK, Critical
  <2>6. Gone' = Gone /\ \A i : Dist(i)' = Dist(i)
    BY <2>1, <2>2, <2>5 DEF Gone, Dist
  <2>7. SlotInv' /\ CountInv'
    BY <2>1, <2>2, <2>5, <2>6 DEF SlotInv, CountInv, Idx
  <2> QED
    BY <2>4, <2>7
<1>6. ASSUME NEW c \in Consumers, PopGiveUp(c) PROVE IInv'
  <2>1. ~Taking /\ ~AtHead /\ \A d \in Consumers : d # c => cpc[d] \notin Critical
    BY <1>6, Alone DEF PopGiveUp, Critical
  <2>2. TypeOK'
    <3>1. 0 \in Idx
      BY SizeBound DEF Idx
    <3> QED
      BY <1>6, <3>1 DEF PopGiveUp, Goto, TypeOK, Critical
  <2>6. LockInv' /\ PushInv' /\ NextInv' /\ GotInv'
    BY <1>6, <2>1 DEF PopGiveUp, Goto, TypeOK, LockInv, PushInv, NextInv, GotInv, Succ, Critical
  <2>3. ~Taking' /\ ~AtHead'
    BY <1>6, <2>1 DEF PopGiveUp, Goto, Taking, AtHead, TypeOK, Critical
  <2>4. Gone' = Gone /\ \A i : Dist(i)' = Dist(i)
    BY <1>6, <2>1, <2>3 DEF PopGiveUp, Gone, Dist
  <2>5. SlotInv' /\ CountInv'
    BY <1>6, <2>1, <2>3, <2>4 DEF PopGiveUp, SlotInv, CountInv, Idx
  <2> QED
    BY <2>2, <2>5, <2>6
<1>7. ASSUME NEW c \in Consumers, PopReady(c) PROVE IInv'
  <2>1. ~Taking /\ ~AtHead /\ \A d \in Consumers : d # c => cpc[d] \notin Critical
    BY <1>7, Alone DEF PopReady, Critical
  <2>2. TypeOK' /\ LockInv' /\ PushInv' /\ NextInv' /\ GotInv'
    BY <1>7, <2>1 DEF PopReady, Goto, TypeOK, LockInv, PushInv, NextInv, GotInv, Succ, Critical
  <2>3. ~Taking' /\ ~AtHead'
    BY <1>7, <2>1 DEF PopReady, Goto, Taking, AtHead, TypeOK, Critical
  <2>4. Gone' = Gone /\ \A i : Dist(i)' = Dist(i)
    BY <1>7, <2>1, <2>3 DEF PopReady, Gone, Dist
  <2>5. SlotInv' /\ CountInv'
    BY <1>7, <2>1, <2>3, <2>4 DEF PopReady, SlotInv, CountInv, Idx
  <2> QED
    BY <2>2, <2>5
<1>8. ASSUME NEW c \in Consumers, PopAdvance(c) PROVE IInv'
  <2>1. ~Taking /\ ~AtHead /\ \A d \in Consumers : d # c => cpc[d] \notin Critical
    BY <1>8, Alone DEF PopAdvance, Critical
  <2>2. PICK h \in Idx : h = Succ(head)
    BY GoingRound DEF TypeOK
  <2>3. head' = h /\ tail # h /\ tail' = tail /\ tail \in Idx
    BY <1>8, <2>2 DEF PopAdvance, NextInv, TypeOK
  <2>4. TypeOK' /\ LockInv' /\ PushInv' /\ NextInv' /\ GotInv'
    BY <1>8, <2>1, <2>3 DEF PopAdvance, Goto, TypeOK, LockInv, PushInv, NextInv, GotInv, Critical
  <2>5. Taking' /\ AtHead'
    BY <1>8 DEF PopAdvance, Goto, Taking, AtHead, TypeOK
  <2>6. Gone \in Nat /\ Gone' = Gone + 1
    BY <1>8, <2>1, <2>5 DEF PopAdvance, Gone, TypeOK
  <2>7. /\ Dist(h) = 1 /\ Dist(h)' = Size
        /\ \A i \in Idx : i # h => Dist(i)' = Dist(i) - 1 /\ Dist(i) > 1
    <3>1. Dist(h) = 1 /\ Dist(h)' = Size
      BY <2>2, <2>3, SizeBound, GoingRound DEF Dist, TypeOK, Idx
    <3>2. ASSUME NEW i \in Idx, i # h PROVE Dist(i)' = Dist(i) - 1
      BY <2>2, <2>3, <3>2, SizeBound DEF Dist, Succ, TypeOK, Idx
    <3>3. ASSUME NEW i \in Idx, i # h PROVE Dist(i) > 1
      BY <3>1, <3>3, GoingRound, SizeBound
    <3> QED
      BY <3>1, <3>2, <3>3
  <2>8. Dist(tail) \in Nat /\ Dist(tail) > 1 /\ Dist(tail)' = Dist(tail) - 1
    BY <2>3, <2>7, GoingRound DEF Dist
  <2>9. CountInv'
    BY <1>8, <2>6, <2>8 DEF PopAdvance, CountInv
  <2>10. SlotInv'
    <3> SUFFICES ASSUME NEW i \in Idx
                 PROVE  q[i] = IF Dist(i)' < Dist(tail) - 1 THEN Gone + 1 + Dist(i)'
                               ELSE IF i = tail /\ ppc = "publish" THEN pushed + 1
                               ELSE IF i = h THEN Gone + 1
                               ELSE NULL
      BY <1>8, <2>3, <2>5, <2>6, <2>8 DEF PopAdvance, SlotInv, Idx
    <3>1. Dist(i) \in 1 .. Size /\ Dist(tail) \in 1 .. Size
      BY <2>3, GoingRound
    <3>2. CASE i = h
      <4>1. q[h] = Gone + 1
        BY <2>7, <2>8 DEF SlotInv
      <4>2. Dist(i)' = Size
        BY <2>7, <3>2
      <4> QED
        BY <2>3, <3>1, <3>2, <4>1, <4>2, SizeBound
    <3>3. CASE i # h
      BY <2>1, <2>6, <2>7, <3>1, <3>3 DEF SlotInv
    <3> QED
      BY <3>2, <3>3
  <2> QED
    BY <2>4, <2>9, <2>10
<1>9. ASSUME NEW c \in Consumers, PopTake(c) PROVE IInv'
  <2>1. Taking /\ AtHead /\ \A d \in Consumers : d # c => cpc[d] \notin Critical
    BY <1>9, Alone DEF PopTake, Critical
  <2>2. q[head] = Len(got) + 1 /\ q[head] \in Item
    BY <2>1, HeadSlot DEF Gone, TypeOK, NULL
  <2>3. /\ got' = Append(got, Len(got) + 1)
        /\ Len(got') = Len(got) + 1
        /\ \A k \in 1 .. Len(got') : got'[k] = k
    BY <1>9, <2>2 DEF PopTake, GotInv, TypeOK
  <2>4. TypeOK'
    BY <1>9, <2>2 DEF PopTake, Goto, TypeOK, Critical
  <2>5. LockInv' /\ PushInv' /\ NextInv'
    BY <1>9, <2>1 DEF PopTake, Goto, TypeOK, LockInv, PushInv, NextInv, Succ, Critical
  <2>6. GotInv'
    BY <1>9, <2>1, <2>2, <2>3 DEF PopTake, Goto, GotInv, TypeOK, Critical
  <2>7. ~Taking' /\ AtHead'
    BY <1>9, <2>1 DEF PopTake, Goto, Taking, AtHead, TypeOK, Critical
  <2>8. Gone' = Gone /\ \A i : Dist(i)' = Dist(i)
    BY <1>9, <2>1, <2>3, <2>7 DEF PopTake, Gone, Dist
  <2>9. SlotInv' /\ CountInv'
    BY <1>9, <2>1, <2>7, <2>8 DEF PopTake, SlotInv, CountInv, Idx
  <2> QED
    BY <2>4, <2>5, <2>6, <2>9
<1>10. ASSUME NEW c \in Consumers, PopClear(c) PROVE IInv'
  <2>1. ~Taking /\ \A d \in Consumers : d # c => cpc[d] \notin Critical
    BY <1>10, Alone DEF PopClear, Critical
  <2>2. TypeOK'
    BY <1>10 DEF PopClear, Goto, TypeOK, Critical
  <2>3. LockInv' /\ PushInv' /\ NextInv' /\ GotInv'
    BY <1>10, <2>1 DEF PopClear, Goto, TypeOK, LockInv, PushInv, NextInv, GotInv, Succ, Critical
  <2>4. ~Taking' /\ ~AtHead'
    BY <1>10, <2>1 DEF PopClear, Goto, Taking, AtHead, TypeOK, Critical
  <2>5. Gone' = Gone /\ \A i : Dist(i)' = Dist(i)
    BY <1>10, <2>1, <2>4 DEF PopClear, Gone, Dist
  <2>6. SlotInv'
    <3> SUFFICES ASSUME NEW i \in Idx
                 PROVE  q'[i] = IF Dist(i) < Dist(tail) THEN Gone + Dist(i)
                                ELSE IF i = tail /\ ppc = "publish" THEN pushed + 1
                                ELSE NULL
      BY <1>10, <2>4, <2>5 DEF PopClear, SlotInv, Idx
    <3>1. CASE i = head
      BY <1>10, <3>1, GoingRound, SizeBound DEF PopClear, TypeOK, PushInv
    <3>2. CASE i # head
      BY <1>10, <3>2 DEF PopClear, SlotInv, TypeOK
    <3> QED
      BY <3>1, <3>2
  <2>7. CountInv'
    BY <1>10, <2>5 DEF PopClear, CountInv
  <2> QED
    BY <2>2, <2>3, <2>6, <2>7
<1>11. ASSUME NEW c \in Consumers, PopUnlock(c) PROVE IInv'
  <2>1. ~Taking /\ ~AtHead /\ \A d \in Consumers : d # c => cpc[d] \notin Critical
    BY <1>11, Alone DEF PopUnlock, Critical
  <2>2. TypeOK'
    <3>1. 0 \in Idx
      BY SizeBound DEF Idx
    <3> QED
      BY <1>11, <3>1 DEF PopUnlock, Goto, TypeOK, Critical
  <2>6. LockInv' /\ PushInv' /\ NextInv' /\ GotInv'
    BY <1>11, <2>1 DEF PopUnlock, Goto, TypeOK, LockInv, PushInv, NextInv, GotInv, Succ, Critical
  <2>3. ~Taking' /\ ~AtHead'
    BY <1>11, <2>1 DEF PopUnlock, Goto, Taking, AtHead, TypeOK, Critical
  <2>4. Gone' = Gone /\ \A i : Dist(i)' = Dist(i)
    BY <1>11, <2>1, <2>3 DEF PopUnlock, Gone, Dist
  <2>5. SlotInv' /\ CountInv'
    BY <1>11, <2>1, <2>3, <2>4 DEF PopUnlock, SlotInv, CountInv, Idx
  <2> QED
    BY <2>2, <2>5, <2>6
<1>12. CASE UNCHANGED vars
  <2>1. TypeOK' /\ LockInv' /\ PushInv' /\ NextInv' /\ GotInv'
    BY <1>12 DEF vars, TypeOK, LockInv, PushInv, NextInv, GotInv, Succ
  <2>2. Gone' = Gone /\ AtHead' = AtHead /\ \A i : Dist(i)' = Dist(i)
    BY <1>12 DEF vars, Gone, Taking, AtHead, Dist
  <2>3. SlotInv' /\ CountInv'
    BY <1>12, <2>2 DEF vars, SlotInv, CountInv, Idx
  <2> QED
    BY <2>1, <2>3
<1> QED
  BY <1>1, <1>2, <1>3, <1>4, <1>5, <1>6, <1>7, <1>8, <1>9, <1>10, <1>11, <1>12
  DEF Next, Push, Pop
-----------------------------------------------------------------------------
(* The invariant holds throughout every run.                               *)
THEOREM Invariance == Spec => []IInv
  BY InitIInv, StepIInv, PTL DEF Spec

(* The shared fields and the locals of queue_push and queue_pop keep their *)
(* types: no index leaves the ring.                                        *)
THEOREM TypeCorrect == Spec => []TypeOK
  BY Invariance, PTL DEF IInv

(* queue_push and queue_pop never touch one slot at the same time.         *)
THEOREM RaceFree == Spec => []NoDataRace
<1>1. IInv => NoDataRace
  <2> SUFFICES ASSUME IInv PROVE NoDataRace
    OBVIOUS
  <2> QED
    BY DEF IInv, NoDataRace, LockInv, PushInv
<1> QED
  BY <1>1, Invariance, PTL

(* Items leave the queue in the order they were pushed, none lost and none *)
(* twice, whatever the interleaving of the threads.                        *)
THEOREM FifoOrder == Spec => []FirstInFirstOut
<1>1. IInv => FirstInFirstOut
  <2> SUFFICES ASSUME IInv PROVE FirstInFirstOut
    OBVIOUS
  <2>1. Len(got) <= pushed
    BY GoingRound DEF IInv, CountInv, Gone, TypeOK
  <2> QED
    BY <2>1 DEF IInv, FirstInFirstOut, GotInv, NULL
<1> QED
  BY <1>1, Invariance, PTL

(* queue_pop never finds an item in the head slot before it has moved head.*)
THEOREM HeadEmpty == Spec => []HeadSlotEmpty
<1>1. IInv => HeadSlotEmpty
  <2> SUFFICES ASSUME IInv PROVE HeadSlotEmpty
    OBVIOUS
  <2> SUFFICES ASSUME NEW c \in Consumers, cpc[c] \in {"peek", "wait"} PROVE q[head] = NULL
    BY DEF HeadSlotEmpty
  <2> QED
    BY Alone, HeadSlot DEF IInv, Critical
<1> QED
  BY <1>1, Invariance, PTL

(* Between pops queue_empty is exact, and queue_count is one more than the *)
(* number of items, up to the full queue, for which it is 0.               *)
THEOREM CountsTell == Spec => []EmptyAndCountAgree
<1>1. IInv => EmptyAndCountAgree
  <2> DEFINE waiting == pushed - Len(got)
  <2> SUFFICES ASSUME IInv,
                      \A c \in Consumers : cpc[c] \in {"idle", "peek", "wait", "unlock"}
               PROVE  /\ QueueEmpty <=> waiting = 0
                      /\ QueueCount = (waiting + 1) % Size
                      /\ head = tail <=> waiting = Size - 1
    BY DEF EmptyAndCountAgree
  <2>1. head \in Idx /\ tail \in Idx /\ Len(got) \in Nat /\ TypeOK
    BY DEF IInv, TypeOK
  <2>2. ~Taking /\ ~AtHead /\ q[head] = NULL
    BY HeadSlot DEF Taking, AtHead
  <2>3. Dist(tail) \in 1 .. Size /\ waiting = Dist(tail) - 1
    BY <2>1, <2>2, GoingRound, SizeBound DEF IInv, CountInv, Gone, TypeOK
  <2>4. Succ(head) \in Idx /\ Dist(Succ(head)) = 1 /\ Dist(head) = Size
    BY <2>1, GoingRound
  <2>5. tail = Succ(head) <=> Dist(tail) = 1
    BY <2>1, <2>4, GoingRound
  <2>6. head = tail <=> Dist(tail) = Size
    BY <2>1, <2>4, GoingRound
  <2>7. QueueCount = Dist(tail) % Size
    <3>1. CASE head < tail
      <4>1. (tail + Size - head) % Size = (tail - head) % Size
        <5>1. tail - head \in 1 .. Size - 1 /\ tail + Size - head = (tail - head) + Size
          BY <2>1, <3>1, SizeBound DEF Idx
        <5> QED
          BY <5>1, SizeBound
      <4> QED
        BY <3>1, <4>1 DEF QueueCount, Dist
    <3>2. CASE ~(head < tail)
      BY <3>2 DEF QueueCount, Dist
    <3> QED
      BY <3>1, <3>2
  <2> QED
    BY <2>2, <2>3, <2>5, <2>6, <2>7, SizeBound DEF QueueEmpty
<1> QED
  BY <1>1, Invariance, PTL
-----------------------------------------------------------------------------
(* The refinement of BoundedFifo.  Run(g, n) is g + 1, ..., g + n, the     *)
(* form both abstract sequences have.                                      *)
Run(g, n) == [k \in 1 .. n |-> g + k]

LEMMA RunFacts ==
  ASSUME NEW g \in Nat, NEW n \in Nat
  PROVE  /\ Len(Run(g, n)) = n
         /\ \A m : m = g + n + 1 => Append(Run(g, n), m) = Run(g, n + 1)
         /\ n > 0 => /\ Run(g, n) # <<>>
                     /\ Head(Run(g, n)) = g + 1
                     /\ Tail(Run(g, n)) = Run(g + 1, n - 1)
<1>1. Run(g, n) \in Seq(Nat) /\ Len(Run(g, n)) = n
  BY DEF Run
<1>2. ASSUME NEW m, m = g + n + 1 PROVE Append(Run(g, n), m) = Run(g, n + 1)
  BY <1>1, <1>2 DEF Run
<1>3. ASSUME n > 0 
      PROVE Run(g, n) # <<>> /\ Head(Run(g, n)) = g + 1 /\ Tail(Run(g, n)) = Run(g + 1, n - 1)
  <2>1. Run(g, n) # <<>> /\ Head(Run(g, n)) = g + 1
    BY <1>1, <1>3 DEF Run
  <2>2. /\ Tail(Run(g, n)) \in Seq(Nat)
        /\ Len(Tail(Run(g, n))) = n - 1
        /\ \A k \in 1 .. n - 1 : Tail(Run(g, n))[k] = Run(g, n)[k + 1]
    BY <1>1, <2>1, HeadTailProperties
  <2>3. \A k \in 1 .. n - 1 : Run(g, n)[k + 1] = Run(g + 1, n - 1)[k]
    BY DEF Run
  <2>4. Run(g + 1, n - 1) \in Seq(Nat) /\ Len(Run(g + 1, n - 1)) = n - 1
    BY <1>3 DEF Run
  <2> QED
    BY <2>1, <2>2, <2>3, <2>4, SeqEqual
<1> QED
  BY <1>1, <1>2, <1>3

LEMMA RunFromOne ==
  ASSUME NEW n \in Nat
  PROVE  Append(Run(0, n), n + 1) = Run(0, n + 1)
<1>1. 0 \in Nat /\ n + 1 = 0 + n + 1
  OBVIOUS
<1>2. \A m : m = 0 + n + 1 => Append(Run(0, n), m) = Run(0, n + 1)
  BY <1>1, RunFacts
<1> QED
  BY <1>1, <1>2

(* The items in transit and the items taken, in closed form.               *)
LEMMA Abstraction ==
  ASSUME IInv
  PROVE  /\ Gone \in Nat /\ Dist(tail) \in 1 .. Size /\ pushed = Gone + Dist(tail) - 1
         /\ InTransit = Run(Gone, Dist(tail) - 1)
         /\ Taken = Run(0, Gone)
<1> USE DEF IInv
<1>1. Gone \in Nat /\ Dist(tail) \in 1 .. Size /\ pushed = Gone + Dist(tail) - 1
  BY GoingRound DEF CountInv, Gone, TypeOK
<1>2. InTransit = Run(Gone, Dist(tail) - 1)
  <2> SUFFICES ASSUME NEW k \in 1 .. Dist(tail) - 1 PROVE q[SlotAt(k)] = Gone + k
    BY DEF InTransit, Run
  <2>1. SlotAt(k) \in Idx /\ Dist(SlotAt(k)) = k
    BY <1>1, SizeBound DEF SlotAt, Dist, Idx, TypeOK
  <2> QED
    BY <1>1, <2>1 DEF SlotInv
<1>3. got = Run(0, Len(got))
  BY DEF TypeOK, GotInv, Run
<1>4. Taken = Run(0, Gone)
  <2>1. CASE Taking
    <3>1. q[head] = Len(got) + 1
      BY <2>1, HeadSlot DEF Taking, AtHead, Gone
    <3> QED
      <4>1. Taken = Append(Run(0, Len(got)), Len(got) + 1)
        BY <1>3, <2>1, <3>1 DEF Taken, Taking
      <4>2. Len(got) \in Nat
        BY DEF TypeOK
      <4>3. Append(Run(0, Len(got)), Len(got) + 1) = Run(0, Len(got) + 1)
        BY <4>2, RunFromOne
      <4> QED
        BY <4>1, <4>3, <2>1 DEF Gone
  <2>2. CASE ~Taking
    BY <1>3, <2>2 DEF Taken, Taking, Gone
  <2> QED
    BY <2>1, <2>2
<1> QED
  BY <1>1, <1>2, <1>4

(* The rank at the head moves with the store to head and with nothing else.*)
LEMMA GoneMoves ==
  ASSUME IInv, [Next]_vars
  PROVE  Gone' = IF \E c \in Consumers : PopAdvance(c) THEN Gone + 1 ELSE Gone
<1> USE DEF IInv
<1>1. ASSUME NEW c \in Consumers, PopAdvance(c) PROVE Gone' = Gone + 1
  <2>1. ~Taking
    BY <1>1, Alone DEF PopAdvance, Critical
  <2> QED
    BY <1>1, <2>1 DEF PopAdvance, Goto, Taking, Gone, TypeOK
<1>2. ASSUME NEW c \in Consumers, PopTake(c) PROVE Gone' = Gone /\ \A d \in Consumers : ~PopAdvance(d)
  <2>1. Taking /\ \A d \in Consumers : d # c => cpc[d] \notin Critical
    BY <1>2, Alone DEF PopTake, Critical
  <2>2. ~Taking'
    BY <1>2, <2>1 DEF PopTake, Goto, Taking, TypeOK, Critical
  <2> QED
    BY <1>2, <2>1, <2>2 DEF PopTake, PopAdvance, Goto, Gone, TypeOK, Critical
<1>3. ASSUME NEW c \in Consumers, PopPeek(c) PROVE Gone' = Gone
  <2>1. ~Taking /\ ~AtHead
    BY <1>3, Alone DEF PopPeek, Critical
  <2> QED
    BY <1>3, <2>1, HeadSlot DEF PopPeek, Goto, Taking, Gone, TypeOK
<1>4. ASSUME NEW c \in Consumers, PopLock(c) \/ PopGiveUp(c) \/ PopReady(c) \/ PopClear(c) \/ PopUnlock(c)
      PROVE  Gone' = Gone
  <2>1. Taking' = Taking
    BY <1>4 DEF PopLock, PopGiveUp, PopReady, PopClear, PopUnlock, Goto, Taking, TypeOK
  <2> QED
    BY <1>4, <2>1 DEF PopLock, PopGiveUp, PopReady, PopClear, PopUnlock, Gone
<1>5. ASSUME Push \/ UNCHANGED vars PROVE Gone' = Gone
  <2>1. cpc' = cpc /\ got' = got
    BY <1>5 DEF Push, PushBegin, PushStore, PushPublish, vars
  <2> QED
    BY <2>1 DEF Gone, Taking
<1> QED
  BY <1>1, <1>2, <1>3, <1>4, <1>5 DEF Next, Pop

(* Every step of the ring is a put, a take or a stutter of BoundedFifo.    *)
LEMMA StepFifo == IInv /\ IInv' /\ [Next]_vars => [Fifo!Next]_(Fifo!vars)
<1> SUFFICES ASSUME IInv, IInv', [Next]_vars PROVE [Fifo!Next]_(Fifo!vars)
  OBVIOUS
<1>1. /\ Gone \in Nat /\ Dist(tail) \in 1 .. Size /\ pushed = Gone + Dist(tail) - 1
      /\ InTransit = Run(Gone, Dist(tail) - 1)
      /\ Taken = Run(0, Gone)
  BY Abstraction
<1>2. PICK g \in Nat, n \in Nat :
         /\ g = Gone' /\ n = (Dist(tail) - 1)'
         /\ pushed' = g + n
         /\ InTransit' = Run(g, n)
         /\ Taken' = Run(0, g)
  <2>1. (/\ Gone \in Nat /\ Dist(tail) \in 1 .. Size /\ pushed = Gone + Dist(tail) - 1
         /\ InTransit = Run(Gone, Dist(tail) - 1)
         /\ Taken = Run(0, Gone))'
    BY Abstraction, PTL
  <2> QED
    BY <2>1, SizeBound
<1>3. ASSUME PushPublish PROVE Fifo!Put
  <2>1. Gone' = Gone /\ pushed' = pushed + 1
    BY <1>3 DEF PushPublish, Gone, Taking
  <2>2. n = Dist(tail) - 1 + 1
    BY <1>1, <1>2, <2>1, SizeBound
  <2>3. pushed < MaxItems /\ Dist(tail) < Size
    BY <1>1, <1>3, GoingRound DEF PushPublish, PushInv, IInv, TypeOK
  <2>4. Len(InTransit) < Size - 1 /\ InTransit' = Append(InTransit, pushed + 1)
    <3>1. PICK m \in Nat : m = Dist(tail) - 1
      BY <1>1, SizeBound
    <3>2. Len(Run(Gone, m)) = m
      BY <1>1, RunFacts
    <3>3. PICK next : next = pushed + 1 /\ next = Gone + m + 1
      BY <1>1, <3>1, SizeBound
    <3>4. Append(Run(Gone, m), next) = Run(Gone, m + 1)
      <4>1. \A x : x = Gone + m + 1 => Append(Run(Gone, m), x) = Run(Gone, m + 1)
        BY <1>1, RunFacts
      <4> QED
        BY <3>3, <4>1
    <3>5. n = m + 1 /\ m < Size - 1
      BY <1>1, <2>2, <2>3, <3>1, SizeBound
    <3> QED
      BY <1>1, <1>2, <2>1, <3>1, <3>2, <3>3, <3>4, <3>5
  <2> QED
    BY <1>1, <1>2, <2>1, <2>3, <2>4 DEF Fifo!Put
<1>4. ASSUME NEW c \in Consumers, PopAdvance(c) PROVE Fifo!Take
  <2>1. g = Gone + 1 /\ pushed' = pushed
    BY <1>2, <1>4, GoneMoves DEF PopAdvance
  <2>2. PICK m \in Nat : m = Dist(tail) - 1 /\ m > 0 /\ n = m - 1
    BY <1>1, <1>2, <2>1, SizeBound
  <2>3. /\ Run(Gone, m) # <<>>
        /\ Head(Run(Gone, m)) = Gone + 1
        /\ Tail(Run(Gone, m)) = Run(Gone + 1, m - 1)
    BY <1>1, <2>2, RunFacts
  <2>4. Append(Run(0, Gone), Gone + 1) = Run(0, Gone + 1)
    BY <1>1, RunFromOne
  <2> QED
    BY <1>1, <1>2, <2>1, <2>2, <2>3, <2>4 DEF Fifo!Take
<1>5. ASSUME ~PushPublish, ~\E c \in Consumers : PopAdvance(c) PROVE UNCHANGED Fifo!vars
  <2>1. g = Gone
    BY <1>2, <1>5, GoneMoves
  <2>2. pushed' = pushed
    <3>1. CASE Push \/ UNCHANGED vars
      BY <1>5, <3>1 DEF Push, PushBegin, PushStore, vars
    <3>2. ASSUME NEW c \in Consumers, Pop(c) PROVE pushed' = pushed
      BY <3>2 DEF Pop, PopLock, PopPeek, PopGiveUp, PopReady, PopAdvance, PopTake, PopClear, PopUnlock
    <3> QED
      BY <3>1, <3>2 DEF Next
  <2>3. n = Dist(tail) - 1
    BY <1>1, <1>2, <2>1, <2>2, SizeBound
  <2> QED
    BY <1>1, <1>2, <2>1, <2>2, <2>3 DEF Fifo!vars
<1> QED
  BY <1>3, <1>4, <1>5 DEF Fifo!Next

(* The ring of queue.c implements the bounded FIFO with room for Size - 1  *)
(* items: queue_push puts and queue_pop takes, atomically, in some order.  *)
THEOREM Refinement == Spec => ImplementsFifo
<1>1. Init => Fifo!Init
  <2> SUFFICES ASSUME Init PROVE pushed = 0 /\ InTransit = <<>> /\ Taken = <<>>
    BY DEF Fifo!Init
  <2>1. pushed = 0 /\ Dist(tail) - 1 = 0
    BY DEF Init, Dist
  <2>2. Taken = <<>>
    BY DEF Init, Taken
  <2>3. InTransit = <<>>
    BY <2>1 DEF InTransit
  <2> QED
    BY <2>1, <2>2, <2>3
<1> QED
  BY <1>1, StepFifo, Invariance, PTL DEF Spec, ImplementsFifo, Fifo!Spec
=============================================================================
