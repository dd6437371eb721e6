----------------------------- MODULE RingQueue -----------------------------
(***************************************************************************)
(* The ring queue of src/opo/queue.c, one shared-memory access per step:   *)
(* queue_push run by one thread (the client's receiving thread) and        *)
(* queue_pop run by any number of threads under pop_lock.                  *)
(*                                                                         *)
(* A slot holds NULL or an item; an item is named by its rank in push      *)
(* order.  The head slot is kept empty, so a ring of Size slots carries at *)
(* most Size - 1 items and head = tail means full.                         *)
(* wsock stays 0 here, as in a queue nobody called queue_listen on.        *)
(***************************************************************************)
EXTENDS Naturals, Sequences

CONSTANTS QSize,      (* the size asked of queue_init                      *)
          Consumers,  (* the threads that call queue_pop                   *)
          MaxItems    (* bound: how many items are ever pushed             *)

ASSUME RingQueueAssumption == /\ QSize \in Nat
                              /\ MaxItems \in Nat

VARIABLES q,        (* the slots                                           *)
          head, tail,
          popLock,  (* pop_lock                                            *)
          ppc,      (* where the pushing thread is                         *)
          cpc,      (* where each popping thread is                        *)
          nxt,      (* queue_pop's local next                              *)
          item,     (* queue_pop's local item                              *)
          pushed,   (* history: number of pushes published                 *)
          got       (* history: items taken, in the order of pop_lock      *)

vars == <<q, head, tail, popLock, ppc, cpc, nxt, item, pushed, got>>

NULL == 0
Size == IF QSize < 4 THEN 4 ELSE QSize
Idx == 0 .. Size - 1
Item == 1 .. MaxItems

Init == /\ q = [i \in Idx |-> NULL]
        /\ head = 0
        /\ tail = 1
        /\ popLock = FALSE
        /\ ppc = "idle"
        /\ cpc = [c \in Consumers |-> "idle"]
        /\ nxt = [c \in Consumers |-> 0]
        /\ item = [c \in Consumers |-> NULL]
        /\ pushed = 0
        /\ got = <<>>

(* Seeded defect: the wrap at the end of the array forgotten.              *)
SuccNoWrap(i) == i + 1

(* The slot after i: head and tail both increment and wrap.                *)
Succ(i) == IF Size <= i + 1 THEN 0 ELSE i + 1

Goto(c, label) == cpc' = [cpc EXCEPT ![c] = label]
-----------------------------------------------------------------------------
(* queue_push *)

(* Seeded defect: the wait for head to move on forgotten.                  *)
PushBeginNoWait == /\ ppc = "idle"
                   /\ pushed < MaxItems
                   /\ ppc' = "store"
                   /\ UNCHANGED <<q, head, tail, popLock, cpc, nxt, item, pushed, got>>

(* A push is called and its wait for head to move on ends.                 *)
PushBegin == /\ ppc = "idle"
             /\ pushed < MaxItems
             /\ head # tail
             /\ ppc' = "store"
             /\ UNCHANGED <<q, head, tail, popLock, cpc, nxt, item, pushed, got>>

PushStore == /\ ppc = "store"
             /\ q' = [q EXCEPT ![tail] = pushed + 1]
             /\ ppc' = "publish"
             /\ UNCHANGED <<head, tail, popLock, cpc, nxt, item, pushed, got>>

PushPublish == /\ ppc = "publish"
               /\ tail' = Succ(tail)
               /\ pushed' = pushed + 1
               /\ ppc' = "idle"
               /\ UNCHANGED <<q, head, popLock, cpc, nxt, item, got>>

Push == PushBegin \/ PushStore \/ PushPublish
-----------------------------------------------------------------------------
(* queue_pop *)

(* Seeded defect: the pop lock taken without looking at it.                *)
PopLockIgnored(c) == /\ cpc[c] = "idle"
                     /\ popLock' = TRUE
                     /\ Goto(c, "peek")
                     /\ UNCHANGED <<q, head, tail, ppc, nxt, item, pushed, got>>

PopLock(c) == /\ cpc[c] = "idle"
              /\ ~popLock
              /\ popLock' = TRUE
              /\ Goto(c, "peek")
              /\ UNCHANGED <<q, head, tail, ppc, nxt, item, pushed, got>>

(* An item found in the head slot is taken at once; otherwise the slot     *)
(* after head is the next one to read.                                     *)
PopPeek(c) ==
    /\ cpc[c] = "peek"
    /\ IF q[head] # NULL
       THEN /\ item' = [item EXCEPT ![c] = q[head]]
            /\ got' = Append(got, q[head])
            /\ q' = [q EXCEPT ![head] = NULL]
            /\ Goto(c, "unlock")
            /\ UNCHANGED nxt
       ELSE /\ nxt' = [nxt EXCEPT ![c] = Succ(head)]
            /\ Goto(c, "wait")
            /\ UNCHANGED <<q, item, got>>
    /\ UNCHANGED <<head, tail, popLock, ppc, pushed>>

(* The wait for something to be appended runs out of time: NULL returned.  *)
PopGiveUp(c) == /\ cpc[c] = "wait"
                /\ tail = nxt[c]
                /\ popLock' = FALSE
                /\ nxt' = [nxt EXCEPT ![c] = 0]
                /\ Goto(c, "idle")
                /\ UNCHANGED <<q, head, tail, ppc, item, pushed, got>>

(* Seeded defect: the test for an empty queue forgotten.                   *)
PopReadyUntested(c) == /\ cpc[c] = "wait"
                       /\ Goto(c, "advance")
                       /\ UNCHANGED <<q, head, tail, popLock, ppc, nxt, item, pushed, got>>

PopReady(c) == /\ cpc[c] = "wait"
               /\ tail # nxt[c]
               /\ Goto(c, "advance")
               /\ UNCHANGED <<q, head, tail, popLock, ppc, nxt, item, pushed, got>>

PopAdvance(c) == /\ cpc[c] = "advance"
                 /\ head' = nxt[c]
                 /\ Goto(c, "take")
                 /\ UNCHANGED <<q, tail, popLock, ppc, nxt, item, pushed, got>>

PopTake(c) == /\ cpc[c] = "take"
              /\ item' = [item EXCEPT ![c] = q[head]]
              /\ got' = Append(got, q[head])
              /\ Goto(c, "clear")
              /\ UNCHANGED <<q, head, tail, popLock, ppc, nxt, pushed>>

(* Seeded defect: the slot just read is left as it was.                    *)
PopClearForgotten(c) == /\ cpc[c] = "clear"
                        /\ Goto(c, "unlock")
                        /\ UNCHANGED <<q, head, tail, popLock, ppc, nxt, item, pushed, got>>

PopClear(c) == /\ cpc[c] = "clear"
               /\ q' = [q EXCEPT ![head] = NULL]
               /\ Goto(c, "unlock")
               /\ UNCHANGED <<head, tail, popLock, ppc, nxt, item, pushed, got>>

(* Seeded defect: a pop that got an item returns with pop_lock still set.  *)
PopUnlockForgotten(c) == /\ cpc[c] = "unlock"
                         /\ nxt' = [nxt EXCEPT ![c] = 0]
                         /\ item' = [item EXCEPT ![c] = NULL]
                         /\ Goto(c, "idle")
                         /\ UNCHANGED <<q, head, tail, popLock, ppc, pushed, got>>

(* The lock is dropped and the item returned.                              *)
PopUnlock(c) == /\ cpc[c] = "unlock"
                /\ popLock' = FALSE
                /\ nxt' = [nxt EXCEPT ![c] = 0]
                /\ item' = [item EXCEPT ![c] = NULL]
                /\ Goto(c, "idle")
                /\ UNCHANGED <<q, head, tail, ppc, pushed, got>>

Pop(c) == \/ PopLock(c)  \/ PopPeek(c)    \/ PopGiveUp(c) \/ PopReady(c)
          \/ PopAdvance(c) \/ PopTake(c)  \/ PopClear(c)  \/ PopUnlock(c)
-----------------------------------------------------------------------------
Next == Push \/ \E c \in Consumers : Pop(c)

Spec == Init /\ [][Next]_vars

(* Every thread the operating system runs gets on with its next step.      *)
Fairness == WF_vars(Push) /\ \A c \in Consumers : WF_vars(Pop(c))

FairSpec == Spec /\ Fairness
-----------------------------------------------------------------------------
(* queue_empty *)
QueueEmpty == q[head] = NULL /\ tail = Succ(head)

(* queue_count *)
QueueCount == (tail + Size - head) % Size
-----------------------------------------------------------------------------
Critical == {"peek", "wait", "advance", "take", "clear", "unlock"}

(* Type correctness of the shared fields and the locals.                   *)
TypeOK == /\ q \in [Idx -> {NULL} \cup Item]
          /\ head \in Idx
          /\ tail \in Idx
          /\ popLock \in BOOLEAN
          /\ ppc \in {"idle", "store", "publish"}
          /\ cpc \in [Consumers -> {"idle"} \cup Critical]
          /\ nxt \in [Consumers -> Idx]
          /\ item \in [Consumers -> {NULL} \cup Item]
          /\ pushed \in 0 .. MaxItems
          /\ got \in Seq(Item)

(* The plain (non-atomic) store of queue_push never meets a plain access   *)
(* of queue_pop to the same slot, and two pops never touch the slots at    *)
(* the same time: the two atomics and the lock order every access.         *)
NoDataRace ==
    /\ ppc = "store" =>
         \A c \in Consumers : cpc[c] \in {"peek", "take", "clear"} => head # tail
    /\ \A c, d \in Consumers :
         cpc[c] \in Critical /\ cpc[d] \in Critical => c = d

(* First in, first out, nothing lost, nothing handed out twice: the k-th   *)
(* item taken is the k-th item pushed, and a pop that stopped waiting      *)
(* because there was an item returns one.                                  *)
FirstInFirstOut == /\ \A k \in 1 .. Len(got) : got[k] = k
                   /\ Len(got) <= pushed
                   /\ \A c \in Consumers : cpc[c] = "unlock" => item[c] # NULL

(* The head slot is empty whenever a pop starts, so the early return of    *)
(* queue_pop that takes an item from the head slot is dead code and the    *)
(* item order cannot depend on it.                                         *)
HeadSlotEmpty == \A c \in Consumers : cpc[c] \in {"peek", "wait"} => q[head] = NULL

(* Away from a pop in progress queue_empty is true exactly when nothing    *)
(* waits, and the distance queue_count returns is one more than the number *)
(* of items, which wraps to 0 when the queue is full.                      *)
EmptyAndCountAgree ==
    (\A c \in Consumers : cpc[c] \in {"idle", "peek", "wait", "unlock"}) =>
        LET waiting == pushed - Len(got)
        IN  /\ QueueEmpty <=> waiting = 0
            /\ QueueCount = (waiting + 1) % Size
            /\ head = tail <=> waiting = Size - 1
-----------------------------------------------------------------------------
(* The ring implements the bounded FIFO: the items in transit are the      *)
(* slots strictly between head and tail, a put takes effect at the store   *)
(* to tail and a take at the store to head.                                *)
Dist(i) == IF head < i THEN i - head ELSE i + Size - head
SlotAt(k) == IF head + k < Size THEN head + k ELSE head + k - Size
InTransit == [k \in 1 .. Dist(tail) - 1 |-> q[SlotAt(k)]]
Taken == IF \E c \in Consumers : cpc[c] = "take" THEN Append(got, q[head]) ELSE got

Fifo == INSTANCE BoundedFifo WITH Capacity <- Size - 1, sent <- pushed,
                                  buf <- InTransit, got <- Taken

(* Every step of the ring is a put, a take or a stutter of BoundedFifo.    *)
ImplementsFifo == Fifo!Spec

(* Every item pushed is taken in the end, and a full queue does not stay   *)
(* full, as long as some thread keeps popping.                             *)
EveryItemTaken == /\ \A k \in Item : (pushed >= k) ~> (Len(got) >= k)
                  /\ (head = tail) ~> (head # tail)
=============================================================================
