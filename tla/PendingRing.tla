---------------------------- MODULE PendingRing ----------------------------
(***************************************************************************)
(* The ring of pending queries of src/opo/client.c, used when the client   *)
(* has no query_callback: opo_client_query run by any number of Callers    *)
(* under tail_lock, process_msg run by the receiving thread on the on_deck *)
(* slot, opo_client_process run by Processors under head_lock.  A slot     *)
(* goes clear -> sent -> ready -> taken -> clear, and its owner changes    *)
(* hands with its state.                                                   *)
(*                                                                         *)
(* A response is named by the id it carries; the loss notice process_msg   *)
(* builds is the negated id of the response that revealed the loss, which  *)
(* is what opo_msg_set_id stamps on it.  The server (external) answers the *)
(* queries it received in their order.                                     *)
(***************************************************************************)
EXTENDS Integers, Sequences, FiniteSets

CONSTANTS PendingMax,  (* pending_max, the number of slots                 *)
          Callers,     (* threads that call opo_client_query               *)
          Processors,  (* threads that call opo_client_process             *)
          Callbacks,   (* which cb callers pass: TRUE is a function,       *)
                       (* FALSE is NULL                                    *)
          Lossy,       (* the server may leave queries unanswered, a write *)
                       (* to the socket may fail                           *)
          Repeats,     (* what the server answers once more: "none" of the *)
                       (* queries, "any", or those that are then "harmless" *)
          MaxQueries   (* bound: how many queries are ever issued          *)

ASSUME PendingRingAssumption == /\ PendingMax \in Nat \ {0}
                                /\ Callbacks \subseteq BOOLEAN
                                /\ Lossy \in BOOLEAN
                                /\ Repeats \in {"none", "harmless", "any"}
                                /\ MaxQueries \in Nat

VARIABLES
    state, id, cb, resp,     (* the fields of the slots                    *)
    head, onDeck, tail,
    headLock, tailLock, nextId,
    kpc, own,                (* where each caller is; its q                *)
    rpc, msg, target,        (* where the receiver is; its msg id and q    *)
    ppc, taken,              (* where each processor is; its q             *)
    wire,                    (* the ids written to the socket, in order    *)
    arrived,                 (* history: positions of wire answered        *)
    resolved,                (* history: how many queries were answered or *)
                             (* stepped over                               *)
    done                     (* history: callbacks, in the order made      *)

slots == <<state, id, cb, resp>>
caller == <<kpc, own, tail, tailLock, nextId, wire>>
receiver == <<rpc, msg, target, onDeck, arrived, resolved>>
processor == <<ppc, taken, head, headLock, done>>
vars == <<slots, caller, receiver, processor>>

Slot == 0 .. PendingMax - 1
QueryId == 1 .. MaxQueries
NoId == 0
NoResp == 0

Init == /\ state = [i \in Slot |-> "clear"]
        /\ id = [i \in Slot |-> NoId]
        /\ cb = [i \in Slot |-> FALSE]
        /\ resp = [i \in Slot |-> NoResp]
        /\ head = 0 /\ onDeck = 0 /\ tail = 0
        /\ headLock = FALSE /\ tailLock = FALSE
        /\ nextId = 1
        /\ kpc = [k \in Callers |-> "idle"]
        /\ own = [k \in Callers |-> 0]
        /\ rpc = "idle" /\ msg = NoId /\ target = 0
        /\ ppc = [p \in Processors |-> "idle"]
        /\ taken = [p \in Processors |-> 0]
        /\ wire = <<>>
        /\ arrived = {} /\ resolved = 0
        /\ done = <<>>

(* Seeded defect: the wrap at end forgotten.                               *)
SuccNoWrap(i) == i + 1

(* The slot after i, for the pointers that increment and wrap at end.      *)
Succ(i) == IF PendingMax <= i + 1 THEN 0 ELSE i + 1

CallerAt(k, from, to) == kpc[k] = from /\ kpc' = [kpc EXCEPT ![k] = to]
ReceiverAt(from, to) == rpc = from /\ rpc' = to
ProcessorAt(p, from, to) == ppc[p] = from /\ ppc' = [ppc EXCEPT ![p] = to]
-----------------------------------------------------------------------------
(* opo_client_query *)

QueryLock(k) == /\ CallerAt(k, "idle", "check")
                /\ nextId <= MaxQueries
                /\ ~tailLock
                /\ tailLock' = TRUE
                /\ UNCHANGED <<own, tail, nextId, wire, slots, receiver, processor>>

(* The tail slot did not clear in time, or there is no time to wait: the   *)
(* call fails with EAGAIN.                                                 *)
QueryBusy(k) == /\ CallerAt(k, "check", "idle")
                /\ state[tail] # "clear"
                /\ tailLock' = FALSE
                /\ UNCHANGED <<own, tail, nextId, wire, slots, receiver, processor>>

(* Seeded defect: the slot filled whatever its state.                      *)
QueryFillUnchecked(k) == /\ CallerAt(k, "check", "send")
                         /\ nextId' = nextId + 1
                         /\ id' = [id EXCEPT ![tail] = nextId]
                         /\ own' = [own EXCEPT ![k] = tail]
                         /\ \E f \in Callbacks : cb' = [cb EXCEPT ![tail] = f]
                         /\ UNCHANGED <<state, resp, tail, tailLock, wire, receiver, processor>>

QueryFill(k) == /\ CallerAt(k, "check", "send")
                /\ state[tail] = "clear"
                /\ nextId' = nextId + 1
                /\ own' = [own EXCEPT ![k] = tail]
                /\ id' = [id EXCEPT ![tail] = nextId]
                /\ \E f \in Callbacks : cb' = [cb EXCEPT ![tail] = f]
                /\ UNCHANGED <<state, resp, tail, tailLock, wire, receiver, processor>>

QuerySend(k) == /\ CallerAt(k, "send", "advance")
                /\ state' = [state EXCEPT ![own[k]] = "sent"]
                /\ UNCHANGED <<id, cb, resp, own, tail, tailLock, nextId, wire, receiver, processor>>

(* Seeded defect: the lock dropped before the query is written.            *)
QueryAdvanceUnlocked(k) == /\ CallerAt(k, "advance", "write")
                           /\ tail' = Succ(tail)
                           /\ tailLock' = FALSE
                           /\ UNCHANGED <<own, nextId, wire, slots, receiver, processor>>

QueryAdvance(k) == /\ CallerAt(k, "advance", "write")
                   /\ tail' = Succ(tail)
                   /\ UNCHANGED <<own, tailLock, nextId, wire, slots, receiver, processor>>

(* The message takes its id from the slot; a write that fails is reported  *)
(* in err and otherwise ignored.                                           *)
QueryWrite(k) == /\ CallerAt(k, "write", "unlock")
                 /\ \/ wire' = Append(wire, id[own[k]])
                    \/ Lossy /\ wire' = wire
                 /\ UNCHANGED <<own, tail, tailLock, nextId, slots, receiver, processor>>

QueryUnlock(k) == /\ CallerAt(k, "unlock", "idle")
                  /\ tailLock' = FALSE
                  /\ UNCHANGED <<own, tail, nextId, wire, slots, receiver, processor>>

QueryGoesOn(k) == \/ QueryBusy(k)    \/ QueryFill(k)  \/ QuerySend(k)
                  \/ QueryAdvance(k) \/ QueryWrite(k) \/ QueryUnlock(k)

Query(k) == QueryLock(k) \/ QueryGoesOn(k)
-----------------------------------------------------------------------------
(* process_msg, run by the receiving thread *)

(* Where pending_find looks, in order: from on_deck up to tail, and round  *)
(* the whole ring when the two meet.                                       *)
Span == IF onDeck = tail THEN PendingMax
        ELSE IF onDeck < tail THEN tail - onDeck ELSE tail + PendingMax - onDeck
After(n) == IF onDeck + n < PendingMax THEN onDeck + n ELSE onDeck + n - PendingMax
HoldsMsg == {n \in 0 .. Span - 1 : id[After(n)] = msg}

Arrives(j) == /\ ReceiverAt("idle", "match")
              /\ msg' = wire[j]
              /\ arrived' = arrived \cup {j}
              /\ UNCHANGED <<target, onDeck, resolved, slots, caller, processor>>

(* The next response arrives: the answer to a query later on the wire than *)
(* any answered so far, to the very next one when nothing is lost.         *)
ReceiveNext == \E j \in DOMAIN wire \ arrived :
                  /\ \A a \in arrived : a < j
                  /\ Lossy \/ 1 .. j - 1 \subseteq arrived
                  /\ Arrives(j)

(* An answer comes again.  With nothing pending pending_find goes round to *)
(* the slots of answered queries, and to find one of them does harm: what  *)
(* comes before it is taken for lost, and one on deck may go to the query  *)
(* that takes the slot over meanwhile, if another is issued.               *)
MayHarm(i) == onDeck = tail /\ \E s \in Slot : id[s] = i /\ (s = onDeck => nextId <= MaxQueries)
ReceiveAgain == \E j \in arrived :
                   /\ \/ Repeats = "any"
                      \/ Repeats = "harmless" /\ ~MayHarm(wire[j])
                   /\ Arrives(j)

Receive == ReceiveNext \/ ReceiveAgain

(* The slot on deck is looked at first and needs no search.                *)
MatchOnDeck == /\ ReceiverAt("match", "skip")
               /\ id[onDeck] = msg
               /\ target' = onDeck
               /\ UNCHANGED <<msg, onDeck, arrived, resolved, slots, caller, processor>>

MatchFound == /\ ReceiverAt("match", "skip")
              /\ id[onDeck] # msg
              /\ \E n \in HoldsMsg : /\ \A m \in HoldsMsg : n <= m
                                     /\ target' = After(n)
              /\ UNCHANGED <<msg, onDeck, arrived, resolved, slots, caller, processor>>

(* A response to no pending query is reported and dropped.                 *)
MatchNothing == /\ ReceiverAt("match", "idle")
                /\ id[onDeck] # msg
                /\ HoldsMsg = {}
                /\ UNCHANGED <<msg, target, onDeck, arrived, resolved, slots, caller, processor>>

(* Seeded defect: the loss notice stored without making the slot ready.    *)
SkipOneSilently == /\ ReceiverAt("skip", "skipped")
                   /\ target # onDeck
                   /\ resp' = [resp EXCEPT ![onDeck] = -msg]
                   /\ resolved' = resolved + 1
                   /\ UNCHANGED <<state, id, cb, msg, target, onDeck, arrived, caller, processor>>

(* The query on deck was skipped by the server.  One that has a callback   *)
(* gets a loss notice, one that has none is left as it is.                 *)
SkipOne == /\ ReceiverAt("skip", "skipped")
           /\ target # onDeck
           /\ IF cb[onDeck]
              THEN /\ resp' = [resp EXCEPT ![onDeck] = -msg]
                   /\ state' = [state EXCEPT ![onDeck] = "ready"]
              ELSE UNCHANGED <<resp, state>>
           /\ resolved' = resolved + 1
           /\ UNCHANGED <<id, cb, msg, target, onDeck, arrived, caller, processor>>

SkipNext == /\ ReceiverAt("skipped", "skip")
            /\ onDeck' = Succ(onDeck)
            /\ UNCHANGED <<msg, target, arrived, resolved, slots, caller, processor>>

(* Seeded defect: on_deck left where it is once the response is stored.    *)
DeliverNextForgotten == /\ ReceiverAt("delivered", "idle")
                        /\ UNCHANGED <<msg, target, onDeck, arrived, resolved, slots, caller, processor>>

(* Seeded defect: the response stored with the lost queries left on deck.  *)
DeliverUnskipped == /\ ReceiverAt("skip", "delivered")
                    /\ state[target] = "sent"
                    /\ resp' = [resp EXCEPT ![target] = msg]
                    /\ state' = [state EXCEPT ![target] = "ready"]
                    /\ resolved' = resolved + 1
                    /\ UNCHANGED <<id, cb, msg, target, onDeck, arrived, caller, processor>>

Deliver == /\ ReceiverAt("skip", "delivered")
           /\ target = onDeck
           /\ state[target] = "sent"
           /\ resp' = [resp EXCEPT ![target] = msg]
           /\ state' = [state EXCEPT ![target] = "ready"]
           /\ resolved' = resolved + 1
           /\ UNCHANGED <<id, cb, msg, target, onDeck, arrived, caller, processor>>

(* A second response to a query already answered is reported and dropped.  *)
Duplicate == /\ ReceiverAt("skip", "idle")
             /\ target = onDeck
             /\ state[target] # "sent"
             /\ UNCHANGED <<msg, target, onDeck, arrived, resolved, slots, caller, processor>>

DeliverNext == /\ ReceiverAt("delivered", "idle")
               /\ onDeck' = Succ(onDeck)
               /\ UNCHANGED <<msg, target, arrived, resolved, slots, caller, processor>>

ProcessMsg == \/ MatchOnDeck \/ MatchFound \/ MatchNothing
              \/ SkipOne     \/ SkipNext
              \/ Deliver     \/ Duplicate  \/ DeliverNext
-----------------------------------------------------------------------------
(* take_next_ready and opo_client_process *)

TakeLock(p) == /\ ProcessorAt(p, "idle", "peek")
               /\ ~headLock
               /\ headLock' = TRUE
               /\ UNCHANGED <<taken, head, done, slots, caller, receiver>>

(* The head slot is not ready in time, or there is no time to wait.        *)
TakeGiveUp(p) == /\ ProcessorAt(p, "peek", "idle")
                 /\ state[head] # "ready"
                 /\ headLock' = FALSE
                 /\ UNCHANGED <<taken, head, done, slots, caller, receiver>>

(* Seeded defect: the head slot taken whatever its state.                  *)
TakeUnchecked(p) == /\ ProcessorAt(p, "peek", "mark")
                    /\ taken' = [taken EXCEPT ![p] = head]
                    /\ head' = Succ(head)
                    /\ headLock' = FALSE
                    /\ UNCHANGED <<done, slots, caller, receiver>>

(* The lock is dropped with the slot still marked ready.                   *)
Take(p) == /\ ProcessorAt(p, "peek", "mark")
           /\ state[head] = "ready"
           /\ taken' = [taken EXCEPT ![p] = head]
           /\ head' = Succ(head)
           /\ headLock' = FALSE
           /\ UNCHANGED <<done, slots, caller, receiver>>

(* Seeded defect: the slot back to the callers before the callback.        *)
MarkClear(p) == /\ ProcessorAt(p, "mark", "call")
                /\ state' = [state EXCEPT ![taken[p]] = "clear"]
                /\ UNCHANGED <<id, cb, resp, taken, head, headLock, done, caller, receiver>>

Mark(p) == /\ ProcessorAt(p, "mark", "call")
           /\ state' = [state EXCEPT ![taken[p]] = "taken"]
           /\ UNCHANGED <<id, cb, resp, taken, head, headLock, done, caller, receiver>>

(* The callback, when there is one, gets the slot's id and response.       *)
CallBack(p) == /\ ProcessorAt(p, "call", "wipe")
               /\ done' = Append(done, [id |-> id[taken[p]], resp |-> resp[taken[p]]])
               /\ UNCHANGED <<taken, head, headLock, slots, caller, receiver>>

Wipe(p) == /\ ProcessorAt(p, "wipe", "clear")
           /\ id' = [id EXCEPT ![taken[p]] = NoId]
           /\ resp' = [resp EXCEPT ![taken[p]] = NoResp]
           /\ UNCHANGED <<state, cb, taken, head, headLock, done, caller, receiver>>

(* Seeded defect: the slot never given back to the callers.                *)
ClearForgotten(p) == /\ ProcessorAt(p, "clear", "idle")
                     /\ UNCHANGED <<slots, taken, head, headLock, done, caller, receiver>>

Clear(p) == /\ ProcessorAt(p, "clear", "idle")
            /\ state' = [state EXCEPT ![taken[p]] = "clear"]
            /\ UNCHANGED <<id, cb, resp, taken, head, headLock, done, caller, receiver>>

Process(p) == \/ TakeLock(p) \/ TakeGiveUp(p) \/ Take(p) \/ Mark(p)
              \/ CallBack(p) \/ Wipe(p)       \/ Clear(p)
-----------------------------------------------------------------------------
Next == \/ \E k \in Callers : Query(k)
        \/ Receive
        \/ ProcessMsg
        \/ \E p \in Processors : Process(p)

Spec == Init /\ [][Next]_vars

(* A call once begun is carried on, the server answers what it received,   *)
(* whatever it repeats in between, the receiving thread runs, and so does  *)
(* every processing thread.                                                *)
Fairness == /\ \A k \in Callers : WF_vars(QueryGoesOn(k))
            /\ SF_vars(ReceiveNext)
            /\ WF_vars(ProcessMsg)
            /\ \A p \in Processors : WF_vars(Process(p))

FairSpec == Spec /\ Fairness
-----------------------------------------------------------------------------
Holding == {"check", "send", "advance", "write", "unlock"}
Using == {"mark", "call", "wipe", "clear"}
InState(s) == {i \in Slot : state[i] = s}

(* The queries issued, and those whose slot has been given back.           *)
Issued == nextId - 1
Released == Len(done) - Cardinality({p \in Processors : ppc[p] \in {"wipe", "clear"}})

(* Type correctness of the slots, the pointers and the locals.             *)
TypeOK == /\ state \in [Slot -> {"clear", "sent", "ready", "taken"}]
          /\ id \in [Slot -> QueryId \cup {NoId}]
          /\ cb \in [Slot -> BOOLEAN]
          /\ resp \in [Slot -> -MaxQueries .. MaxQueries]
          /\ head \in Slot /\ onDeck \in Slot /\ tail \in Slot
          /\ headLock \in BOOLEAN /\ tailLock \in BOOLEAN
          /\ nextId \in 1 .. MaxQueries + 1
          /\ kpc \in [Callers -> {"idle"} \cup Holding]
          /\ own \in [Callers -> Slot]
          /\ rpc \in {"idle", "match", "skip", "skipped", "delivered"}
          /\ msg \in QueryId \cup {NoId}
          /\ target \in Slot
          /\ ppc \in [Processors -> {"idle", "peek"} \cup Using]
          /\ taken \in [Processors -> Slot]
          /\ wire \in Seq(QueryId)
          /\ arrived \subseteq DOMAIN wire /\ resolved \in 0 .. MaxQueries
          /\ done \in Seq([id : QueryId, resp : -MaxQueries .. MaxQueries])

(* Every query's callback is made once, and in the order the queries were  *)
(* issued: the k-th callback is the one of query k.                        *)
OnceInOrder == \A k \in 1 .. Len(done) : done[k].id = k

(* The callback of a query gets the answer to that query, or a loss notice *)
(* when that answer never came and a later one did.                        *)
RightAnswer ==
    \A k \in 1 .. Len(done) :
        LET o == done[k]
        IN  IF \E j \in arrived : wire[j] = o.id
            THEN o.resp = o.id
            ELSE \E j \in arrived : wire[j] > o.id /\ o.resp = -wire[j]

(* Ids go out in the order they were given, which process_msg relies on    *)
(* when it takes every query it steps over for lost.                       *)
WireInOrder == /\ \A i, j \in DOMAIN wire : i < j => wire[i] < wire[j]
               /\ ~Lossy => \A j \in DOMAIN wire : wire[j] = j

(* A caller meets a tail slot that is not clear only when every slot holds *)
(* an unfinished query: EAGAIN never comes early.                          *)
BusyOnlyWhenFull ==
    \A k \in Callers :
        kpc[k] = "check" /\ state[tail] # "clear" => Issued - Released = PendingMax

(* The first answer to a query finds it, still unanswered, and the loss    *)
(* notices on the way to it go to unanswered queries only; one that comes  *)
(* again finds nothing, or the answered query on deck.                     *)
AnswersFindTheirQuery ==
    /\ rpc = "match" => IF resolved < msg
                        THEN \E n \in HoldsMsg : \A m \in 0 .. n : state[After(m)] = "sent"
                        ELSE HoldsMsg \subseteq {0} /\ (HoldsMsg = {0} => state[onDeck] # "sent")
    /\ rpc = "skip" => IF resolved < msg THEN state[onDeck] = "sent" ELSE target = onDeck

(* A slot gets an id only when it has none and loses it only after its     *)
(* callback was made; a response in a slot is never overwritten by another.*)
SlotsReusedWhenFree ==
    [][\A i \in Slot :
         /\ id'[i] # id[i] => \/ id[i] = NoId /\ id'[i] = nextId
                              \/ id'[i] = NoId /\ \E k \in DOMAIN done : done[k].id = id[i]
         /\ resp'[i] # resp[i] => resp[i] = NoResp \/ resp'[i] = NoResp]_vars

(* Two threads that process responses never work on the same slot.         *)
SlotNotShared == \A p, r \in Processors :
                     ppc[p] \in Using /\ ppc[r] \in Using /\ taken[p] = taken[r] => p = r

(* A query that has a callback and whose answer arrived gets it called.    *)
AnsweredAreCalled ==
    \A k \in QueryId : (\E j \in arrived : wire[j] = k) ~> (\E n \in DOMAIN done : done[n].id = k)

(* A query that reached the server is finished in the end, and so are all  *)
(* those issued before it, lost on the way or not.                         *)
AllFinish == \A k \in QueryId :
                 (\E j \in DOMAIN wire : wire[j] >= k) ~> (Len(done) >= k)
-----------------------------------------------------------------------------
(* The ring implements the query pipeline: a query is issued when its slot *)
(* is filled, resolved when a response is stored, finished at its callback.*)
SlotOf(k) == CHOOSE i \in Slot : id[i] = k
ReadyOutcomes ==
    [j \in 1 .. resolved - Len(done) |->
        [id |-> Len(done) + j, resp |-> resp[SlotOf(Len(done) + j)]]]

Pipeline == INSTANCE QueryPipeline WITH Capacity <- PendingMax, issued <- Issued,
                                        ready <- ReadyOutcomes

(* Every step of the ring is a step of QueryPipeline or a stutter.         *)
ImplementsPipeline == Pipeline!Spec
=============================================================================
