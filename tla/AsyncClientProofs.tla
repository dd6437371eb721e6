------------------------- MODULE AsyncClientProofs -------------------------
(***************************************************************************)
(* Proofs about the gate of AsyncClient, for every limit, every finite set *)
(* of threads and every number of queries.                                 *)
(***************************************************************************)
EXTENDS AsyncClient, FiniteSetTheorems, SequenceTheorems, TLAPS

(* Processors with a response in hand.                                     *)
Busy == {p \in Processors : ppc[p] \in {"call", "count"}}

(* Every response is in the queue, in a processor's hands or counted off,  *)
(* and no response comes before its query.                                 *)
QueueInv == /\ sent = Len(got) + Len(buf)
            /\ Len(got) = finished + Cardinality(Busy)
            /\ sent <= received
            /\ received <= written

(* A thread passes that saw at most PendingMax before its own query: that  *)
(* is one more in flight than pending_max says.                            *)
GateInv == InFlight <= PendingMax + 1

IInv == TypeOK /\ QueueInv /\ PendingExact /\ GateInv
-----------------------------------------------------------------------------
(* The sets that are counted are finite.                                   *)
LEMMA Finite ==
  /\ IsFiniteSet(Waiting) /\ Cardinality(Waiting) \in Nat
  /\ IsFiniteSet(Writing) /\ Cardinality(Writing) \in Nat
  /\ IsFiniteSet(Busy)    /\ Cardinality(Busy) \in Nat
<1>1. IsFiniteSet(Threads)
  BY AsyncClientAssumption, FS_Union DEF Threads
<1>2. Waiting \subseteq Threads /\ Writing \subseteq Threads /\ Busy \subseteq Processors
  BY DEF Waiting, Writing, Busy
<1> QED
  BY <1>1, <1>2, AsyncClientAssumption, FS_Subset, FS_CardinalityType

LEMMA InitIInv == Init => IInv
<1> SUFFICES ASSUME Init PROVE IInv
  OBVIOUS
<1>1. Waiting = {} /\ Writing = {} /\ Busy = {}
  BY DEF Init, Waiting, Writing, Busy
<1>2. Cardinality(Waiting) = 0 /\ Cardinality(Writing) = 0 /\ Cardinality(Busy) = 0
  BY <1>1, FS_EmptySet
<1>3. TypeOK
  BY AsyncClientAssumption DEF Init, TypeOK, Fifo!Init
<1>4. QueueInv /\ PendingExact /\ GateInv
  BY <1>2, AsyncClientAssumption DEF Init, Fifo!Init, QueueInv, PendingExact, GateInv, InFlight
<1> QED
  BY <1>3, <1>4 DEF IInv

(* What one more or one fewer element does to a count.                     *)
LEMMA Joins ==
  ASSUME NEW S, IsFiniteSet(S), NEW e, e \notin S
  PROVE  Cardinality(S \cup {e}) = Cardinality(S) + 1
BY FS_AddElement

LEMMA Leaves ==
  ASSUME NEW S, IsFiniteSet(S), NEW e, e \in S
  PROVE  Cardinality(S \ {e}) = Cardinality(S) - 1 /\ Cardinality(S) > 0
<1>1. Cardinality(S) \in Nat /\ Cardinality(S) # 0
  BY FS_CardinalityType, FS_EmptySet
<1> QED
  BY <1>1, FS_RemoveElement

(* The sets after a thread of the gate, or a processor, has moved.         *)
LEMMA GateMoves ==
  ASSUME TypeOK, NEW k \in Threads, NEW to \in {"idle", "wait", "write"},
         gpc' = [gpc EXCEPT ![k] = to]
  PROVE  /\ Waiting' = IF to = "wait" THEN Waiting \cup {k} ELSE Waiting \ {k}
         /\ Writing' = IF to = "write" THEN Writing \cup {k} ELSE Writing \ {k}
         /\ k \in Waiting <=> gpc[k] = "wait"
         /\ k \in Writing <=> gpc[k] = "write"
BY DEF Waiting, Writing, TypeOK

LEMMA BusyMoves ==
  ASSUME TypeOK, NEW p \in Processors, NEW to \in {"idle", "call", "count"},
         ppc' = [ppc EXCEPT ![p] = to]
  PROVE  /\ Busy' = IF to = "idle" THEN Busy \ {p} ELSE Busy \cup {p}
         /\ p \in Busy <=> ppc[p] # "idle"
BY DEF Busy, TypeOK

(* The counts a step of the gate leaves alone, and those of the queue.     *)
LEMMA SameGate ==
  ASSUME UNCHANGED <<pending, gate, finished>>
  PROVE  /\ PendingExact => PendingExact'
         /\ GateInv => GateInv'
BY DEF PendingExact, GateInv, InFlight, Waiting, Writing, gate

LEMMA SameQueue ==
  ASSUME UNCHANGED <<received, queue, ppc, finished>>, written' = written, QueueInv
  PROVE  QueueInv'
BY DEF QueueInv, Busy, queue
-----------------------------------------------------------------------------
LEMMA EnterIInv == ASSUME IInv, NEW k \in Threads, Enter(k) PROVE IInv'
<1>1. /\ gpc[k] = "idle" /\ begun < MaxQueries /\ begun' = begun + 1 /\ pending' = pending + 1
      /\ gpc' = [gpc EXCEPT ![k] = IF PendingMax < pending THEN "wait" ELSE "write"]
      /\ UNCHANGED <<written, failed, received, sent, buf, got, ppc, response, finished>>
  BY DEF Enter, queue, processing
<1>2. /\ PendingMax \in Nat /\ pending \in Nat /\ written \in Nat /\ failed \in Nat
      /\ finished \in Nat /\ Cardinality(Waiting) \in Nat /\ Cardinality(Writing) \in Nat
  BY Finite, AsyncClientAssumption DEF IInv, TypeOK
<1>3. TypeOK'
  BY <1>1, AsyncClientAssumption DEF IInv, TypeOK
<1>4. QueueInv'
  BY <1>1, SameQueue DEF IInv, queue
<1>5. CASE PendingMax < pending
  <2>1. Waiting' = Waiting \cup {k} /\ Writing' = Writing \ {k} /\ k \notin Waiting /\ k \notin Writing
    BY <1>1, <1>5, GateMoves DEF IInv
  <2>2. Cardinality(Waiting') = Cardinality(Waiting) + 1 /\ Writing' = Writing
    BY <2>1, Finite, Joins
  <2>3. InFlight' = InFlight
    BY <1>1, <2>2 DEF InFlight
  <2>4. PendingExact' /\ GateInv'
    BY <1>1, <1>2, <2>2, <2>3 DEF IInv, PendingExact, GateInv, InFlight
  <2> QED
    BY <1>3, <1>4, <2>4 DEF IInv
<1>6. CASE ~(PendingMax < pending)
  <2>1. Waiting' = Waiting \ {k} /\ Writing' = Writing \cup {k} /\ k \notin Waiting /\ k \notin Writing
    BY <1>1, <1>6, GateMoves DEF IInv
  <2>2. Cardinality(Writing') = Cardinality(Writing) + 1 /\ Waiting' = Waiting
    BY <2>1, Finite, Joins
  <2>3. InFlight' = InFlight + 1
    BY <1>1, <1>2, <2>2 DEF InFlight
  <2>4. PendingExact'
    BY <1>1, <1>2, <2>2, <2>3 DEF IInv, PendingExact, InFlight
  <2>5. GateInv'
    BY <1>2, <1>6, <2>3 DEF IInv, PendingExact, GateInv, InFlight
  <2> QED
    BY <1>3, <1>4, <2>4, <2>5 DEF IInv
<1> QED
  BY <1>5, <1>6

LEMMA AdmitIInv == ASSUME IInv, NEW k \in Threads, Admit(k) PROVE IInv'
<1>1. /\ gpc[k] = "wait" /\ gpc' = [gpc EXCEPT ![k] = "write"] /\ pending <= PendingMax
      /\ UNCHANGED <<pending, begun, written, failed, received, sent, buf, got, ppc, response, finished>>
  BY DEF Admit, GateAt, queue, processing
<1>2. /\ PendingMax \in Nat /\ pending \in Nat /\ written \in Nat /\ failed \in Nat
      /\ finished \in Nat /\ Cardinality(Waiting) \in Nat /\ Cardinality(Writing) \in Nat
  BY Finite, AsyncClientAssumption DEF IInv, TypeOK
<1>3. TypeOK'
  BY <1>1 DEF IInv, TypeOK
<1>4. QueueInv'
  BY <1>1, SameQueue DEF IInv, queue
<1>5. Waiting' = Waiting \ {k} /\ Writing' = Writing \cup {k} /\ k \in Waiting /\ k \notin Writing
  BY <1>1, GateMoves DEF IInv
<1>6. /\ Cardinality(Waiting') = Cardinality(Waiting) - 1 /\ Cardinality(Waiting) > 0
      /\ Cardinality(Writing') = Cardinality(Writing) + 1
  BY <1>5, Finite, Joins, Leaves
<1>7. InFlight' = InFlight + 1
  BY <1>1, <1>2, <1>6 DEF InFlight
<1>8. PendingExact' /\ GateInv'
  BY <1>1, <1>2, <1>6, <1>7 DEF IInv, PendingExact, GateInv, InFlight
<1> QED
  BY <1>3, <1>4, <1>8 DEF IInv

LEMMA WriteIInv == ASSUME IInv, NEW k \in Threads, Write(k) PROVE IInv'
<1>1. /\ gpc[k] = "write" /\ gpc' = [gpc EXCEPT ![k] = "idle"]
      /\ \/ written' = written + 1 /\ failed' = failed
         \/ failed' = failed + 1 /\ written' = written
      /\ UNCHANGED <<pending, begun, received, sent, buf, got, ppc, response, finished>>
  BY DEF Write, GateAt, queue, processing
<1>2. /\ PendingMax \in Nat /\ pending \in Nat /\ written \in Nat /\ failed \in Nat /\ received \in Nat
      /\ finished \in Nat /\ Cardinality(Waiting) \in Nat /\ Cardinality(Writing) \in Nat
  BY Finite, AsyncClientAssumption DEF IInv, TypeOK
<1>3. TypeOK'
  BY <1>1 DEF IInv, TypeOK
<1>4. QueueInv'
  <2>1. written <= written'
    BY <1>1, <1>2
  <2> QED
    BY <1>1, <1>2, <2>1 DEF IInv, QueueInv, Busy
<1>5. Waiting' = Waiting \ {k} /\ Writing' = Writing \ {k} /\ k \notin Waiting /\ k \in Writing
  BY <1>1, GateMoves DEF IInv
<1>6. Waiting' = Waiting /\ Cardinality(Writing') = Cardinality(Writing) - 1
  BY <1>5, Finite, Leaves
<1>7. InFlight' = InFlight
  BY <1>1, <1>2, <1>6 DEF InFlight
<1>8. PendingExact' /\ GateInv'
  BY <1>1, <1>6, <1>7 DEF IInv, PendingExact, GateInv
<1> QED
  BY <1>3, <1>4, <1>8 DEF IInv

LEMMA ReceiveIInv == ASSUME IInv, Receive PROVE IInv'
<1>1. TypeOK'
  BY DEF IInv, TypeOK, Receive, gate, queue, processing
<1>2. QueueInv'
  BY DEF IInv, TypeOK, Receive, QueueInv, Busy, gate, queue, processing
<1>3. PendingExact' /\ GateInv'
  BY SameGate DEF IInv, Receive, processing
<1> QED
  BY <1>1, <1>2, <1>3 DEF IInv

LEMMA PushIInv == ASSUME IInv, Push PROVE IInv'
<1>1. /\ sent < received /\ buf' = Append(buf, sent + 1) /\ sent' = sent + 1
      /\ UNCHANGED <<got, pending, gpc, begun, written, failed, received, ppc, response, finished>>
  BY DEF Push, Fifo!Put, gate, processing
<1>2. TypeOK'
  BY <1>1 DEF IInv, TypeOK
<1>3. Len(buf') = Len(buf) + 1
  BY <1>1 DEF IInv, TypeOK
<1>4. QueueInv'
  BY <1>1, <1>3 DEF IInv, TypeOK, QueueInv, Busy
<1>5. PendingExact' /\ GateInv'
  BY <1>1, SameGate DEF IInv, gate
<1> QED
  BY <1>2, <1>4, <1>5 DEF IInv

LEMMA PopIInv == ASSUME IInv, NEW p \in Processors, PopResponse(p) PROVE IInv'
<1>1. /\ ppc[p] = "idle" /\ ppc' = [ppc EXCEPT ![p] = "call"]
      /\ buf # <<>> /\ buf' = Tail(buf) /\ got' = Append(got, Head(buf))
      /\ response' = [response EXCEPT ![p] = Head(buf)]
      /\ UNCHANGED <<sent, pending, gpc, begun, written, failed, received, finished>>
  BY DEF PopResponse, ProcessorAt, Fifo!Take, gate
<1>2. /\ Head(buf) \in Nat /\ Tail(buf) \in Seq(Nat)
      /\ Len(Tail(buf)) = Len(buf) - 1 /\ Len(buf) \in Nat
  BY <1>1, HeadTailProperties DEF IInv, TypeOK
<1>3. /\ Append(got, Head(buf)) \in Seq(Nat)
      /\ Len(Append(got, Head(buf))) = Len(got) + 1 /\ Len(got) \in Nat
  BY <1>2 DEF IInv, TypeOK
<1>4. TypeOK'
  BY <1>1, <1>2, <1>3 DEF IInv, TypeOK
<1>5. Busy' = Busy \cup {p} /\ p \notin Busy
  BY <1>1, BusyMoves DEF IInv
<1>6. Cardinality(Busy') = Cardinality(Busy) + 1 /\ Cardinality(Busy) \in Nat
  BY <1>5, Finite, Joins
<1>7. finished \in Nat /\ Len(got') = Len(got) + 1 /\ Len(buf') = Len(buf) - 1
  BY <1>1, <1>2, <1>3 DEF IInv, TypeOK
<1>8. QueueInv'
  <2>1. sent' = sent /\ received' = received /\ written' = written /\ finished' = finished
    BY <1>1
  <2>2. Len(got) \in Nat /\ Len(buf) \in Nat
    BY <1>2, <1>3
  <2>3. sent = Len(got) + Len(buf) /\ Len(got) = finished + Cardinality(Busy)
    BY DEF IInv, QueueInv
  <2>4. sent = Len(got') + Len(buf')
    BY <1>7, <2>2, <2>3
  <2>5. Len(got') = finished + Cardinality(Busy')
    BY <1>6, <1>7, <2>2, <2>3
  <2>6. sent <= received /\ received <= written
    BY DEF IInv, QueueInv
  <2> QED
    BY <2>1, <2>4, <2>5, <2>6 DEF QueueInv
<1>9. PendingExact' /\ GateInv'
  BY <1>1, SameGate DEF IInv, gate
<1> QED
  BY <1>4, <1>8, <1>9 DEF IInv

LEMMA CallBackIInv == ASSUME IInv, NEW p \in Processors, CallBack(p) PROVE IInv'
<1>1. /\ ppc[p] = "call" /\ ppc' = [ppc EXCEPT ![p] = "count"]
      /\ UNCHANGED <<sent, buf, got, pending, gpc, begun, written, failed, received, response, finished>>
  BY DEF CallBack, ProcessorAt, gate, queue
<1>2. TypeOK'
  BY <1>1 DEF IInv, TypeOK
<1>3. Busy' = Busy
  <2>1. Busy' = Busy \cup {p} /\ p \in Busy
    BY <1>1, BusyMoves DEF IInv
  <2> QED
    BY <2>1
<1>4. QueueInv'
  BY <1>1, <1>3 DEF IInv, QueueInv
<1>5. PendingExact' /\ GateInv'
  BY <1>1, SameGate DEF IInv, gate
<1> QED
  BY <1>2, <1>4, <1>5 DEF IInv

LEMMA CountOffIInv == ASSUME IInv, NEW p \in Processors, CountOff(p) PROVE IInv'
<1>1. /\ ppc[p] = "count" /\ ppc' = [ppc EXCEPT ![p] = "idle"]
      /\ pending' = pending - 1 /\ finished' = finished + 1
      /\ UNCHANGED <<sent, buf, got, gpc, begun, written, failed, received, response>>
  BY DEF CountOff, ProcessorAt, gate, queue
<1>2. /\ PendingMax \in Nat /\ pending \in Nat /\ written \in Nat /\ failed \in Nat /\ received \in Nat
      /\ finished \in Nat /\ Cardinality(Waiting) \in Nat /\ Cardinality(Writing) \in Nat
      /\ Len(got) \in Nat /\ Len(buf) \in Nat
  BY Finite, AsyncClientAssumption DEF IInv, TypeOK
<1>3. Busy' = Busy \ {p} /\ p \in Busy
  BY <1>1, BusyMoves DEF IInv
<1>4. /\ Cardinality(Busy') = Cardinality(Busy) - 1
      /\ Cardinality(Busy) > 0 /\ Cardinality(Busy) \in Nat
  BY <1>3, Finite, Leaves
<1>5. finished < written
  BY <1>2, <1>4 DEF IInv, QueueInv, TypeOK
<1>6. pending > 0
  BY <1>2, <1>5 DEF IInv, PendingExact, InFlight
<1>7. TypeOK'
  BY <1>1, <1>2, <1>6 DEF IInv, TypeOK
<1>8. QueueInv'
  BY <1>1, <1>2, <1>4 DEF IInv, QueueInv
<1>9. Waiting' = Waiting /\ Writing' = Writing
  BY <1>1 DEF Waiting, Writing
<1>10. InFlight' = InFlight - 1
  BY <1>1, <1>2, <1>9 DEF InFlight
<1>11. PendingExact' /\ GateInv'
  BY <1>1, <1>2, <1>9, <1>10 DEF IInv, PendingExact, GateInv, InFlight
<1> QED
  BY <1>7, <1>8, <1>11 DEF IInv

LEMMA StepIInv == IInv /\ [Next]_vars => IInv'
<1> SUFFICES ASSUME IInv, [Next]_vars PROVE IInv'
  OBVIOUS
<1>1. CASE UNCHANGED vars
  <2>1. UNCHANGED <<pending, gpc, begun, written, failed, received, sent, buf, got, ppc, response, finished>>
    BY <1>1 DEF vars, gate, queue, processing
  <2>2. TypeOK'
    BY <2>1 DEF IInv, TypeOK
  <2> QED
    BY <2>1, <2>2, SameGate, SameQueue DEF IInv, gate, queue
<1>2. ASSUME NEW k \in Threads, Enter(k) \/ QueryGoesOn(k) PROVE IInv'
  BY <1>2, EnterIInv, AdmitIInv, WriteIInv DEF QueryGoesOn
<1>3. ASSUME NEW p \in Processors, Process(p) PROVE IInv'
  BY <1>3, PopIInv, CallBackIInv, CountOffIInv DEF Process
<1> QED
  BY <1>1, <1>2, <1>3, ReceiveIInv, PushIInv DEF Next
-----------------------------------------------------------------------------
(* The invariant holds throughout every run.                               *)
THEOREM Invariance == Spec => []IInv
  BY InitIInv, StepIInv, PTL DEF Spec

(* The counters keep their types; pending never falls below zero.          *)
THEOREM TypeCorrect == Spec => []TypeOK
  BY Invariance, PTL DEF IInv

(* pending is the number of queries in flight and of threads at the gate.  *)
THEOREM CountIsExact == Spec => []PendingExact
  BY Invariance, PTL DEF IInv

(* A response queue with more room than pending_max never blocks the       *)
(* receiving thread.                                                       *)
THEOREM ReceiverFree == Spec => []QueueNeverFull
<1>1. ASSUME IInv, PendingMax < QueueRoom, sent < received PROVE Len(buf) < QueueRoom
  <2>1. /\ PendingMax \in Nat /\ QueueRoom \in Nat
        /\ written \in Nat /\ finished \in Nat /\ received \in Nat /\ sent \in Nat
        /\ Len(buf) \in Nat /\ Len(got) \in Nat
    BY <1>1, AsyncClientAssumption DEF IInv, TypeOK
  <2>2. Cardinality(Busy) \in Nat /\ Cardinality(Writing) \in Nat /\ failed \in Nat
    BY <1>1, Finite DEF IInv, TypeOK
  <2>3. InFlight >= written - finished
    BY <2>1, <2>2 DEF InFlight
  <2>4. InFlight <= PendingMax + 1 /\ InFlight \in Int
    BY <1>1, <2>1, <2>2 DEF IInv, GateInv, InFlight
  <2>5. Len(buf) <= sent - finished
    BY <1>1, <2>1, <2>2 DEF IInv, QueueInv
  <2>6. sent - finished < written - finished
    BY <1>1, <2>1 DEF IInv, QueueInv
  <2> QED
    BY <1>1, <2>1, <2>3, <2>4, <2>5, <2>6
<1>2. IInv => QueueNeverFull
  BY <1>1 DEF QueueNeverFull
<1> QED
  BY <1>2, Invariance, PTL
=============================================================================
