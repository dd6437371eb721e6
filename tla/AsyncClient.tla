---------------------------- MODULE AsyncClient ----------------------------
(***************************************************************************)
(* The client of src/opo/client.c with a query_callback: queries pass a    *)
(* gate that counts them in pending and are written unnumbered; responses  *)
(* go through async_queue, a BoundedFifo, to the threads that process      *)
(* them.  Queries and responses are named by their rank on the wire.       *)
(*                                                                         *)
(* The gate has no lock.  A callback may itself make a query, so every     *)
(* processing thread is also a thread that may stand at the gate.          *)
(***************************************************************************)
EXTENDS Naturals, Sequences, FiniteSets

CONSTANTS PendingMax,   (* pending_max                                     *)
          QueueRoom,    (* how many responses async_queue takes            *)
          Callers,      (* threads that only call opo_client_query         *)
          Processors,   (* threads that call opo_client_process            *)
          Reentrant,    (* callbacks may make queries                      *)
          Faulty,       (* a write to the socket may fail                  *)
          MaxQueries    (* bound: how many queries are ever begun          *)

ASSUME AsyncClientAssumption == /\ PendingMax \in Nat \ {0}
                                /\ QueueRoom \in Nat \ {0}
                                /\ IsFiniteSet(Callers)
                                /\ IsFiniteSet(Processors)
                                /\ Reentrant \in BOOLEAN
                                /\ Faulty \in BOOLEAN
                                /\ MaxQueries \in Nat

VARIABLES pending,      (* the atomic counter                              *)
          gpc,          (* where each thread is in opo_client_query        *)
          begun,        (* history: number of queries begun                *)
          written,      (* number of queries on the wire                   *)
          failed,       (* history: number of writes that failed           *)
          received,     (* responses read off the socket                   *)
          sent, buf, got, (* async_queue                                   *)
          ppc, response,  (* where each processor is; its msg              *)
          finished      (* history: callbacks counted off pending          *)

gate == <<gpc, begun, written, failed>>
queue == <<sent, buf, got>>
processing == <<ppc, response, finished>>
vars == <<pending, gate, received, queue, processing>>

Threads == Callers \cup Processors

Fifo == INSTANCE BoundedFifo WITH Capacity <- QueueRoom, MaxItems <- MaxQueries

Init == /\ pending = 0
        /\ gpc = [k \in Threads |-> "idle"]
        /\ begun = 0 /\ written = 0 /\ failed = 0
        /\ received = 0
        /\ Fifo!Init
        /\ ppc = [p \in Processors |-> "idle"]
        /\ response = [p \in Processors |-> 0]
        /\ finished = 0

GateAt(k, from, to) == gpc[k] = from /\ gpc' = [gpc EXCEPT ![k] = to]
ProcessorAt(p, from, to) == ppc[p] = from /\ ppc' = [ppc EXCEPT ![p] = to]

(* A thread may begin a query, a processing thread from its callback only. *)
MayQuery(k) == k \in Processors => Reentrant /\ ppc[k] = "call"
-----------------------------------------------------------------------------
(* opo_client_query *)

(* Seeded defect: the query not counted.                                   *)
EnterUncounted(k) == /\ GateAt(k, "idle", "write")
                     /\ MayQuery(k)
                     /\ begun < MaxQueries
                     /\ begun' = begun + 1
                     /\ UNCHANGED <<pending, written, failed, received, queue, processing>>

(* The count is taken with the one atomic that raises it, so it does not   *)
(* include the query that begins.                                          *)
Enter(k) == /\ gpc[k] = "idle"
            /\ MayQuery(k)
            /\ begun < MaxQueries
            /\ begun' = begun + 1
            /\ pending' = pending + 1
            /\ gpc' = [gpc EXCEPT ![k] = IF PendingMax < pending THEN "wait" ELSE "write"]
            /\ UNCHANGED <<written, failed, received, queue, processing>>

(* Seeded defect: the wait at the limit ends whatever the count.           *)
AdmitAtOnce(k) == /\ GateAt(k, "wait", "write")
                  /\ UNCHANGED <<pending, begun, written, failed, received, queue, processing>>

(* The count the waiting thread loads does include its own query.          *)
Admit(k) == /\ GateAt(k, "wait", "write")
            /\ pending <= PendingMax
            /\ UNCHANGED <<pending, begun, written, failed, received, queue, processing>>

(* A write that fails is reported in err, and the query stays counted.     *)
Write(k) == /\ GateAt(k, "write", "idle")
            /\ \/ written' = written + 1 /\ failed' = failed
               \/ Faulty /\ failed' = failed + 1 /\ written' = written
            /\ UNCHANGED <<pending, begun, received, queue, processing>>
-----------------------------------------------------------------------------
(* The receiving thread: the server (external) answers in order; the       *)
(* thread reads a response and waits in queue_push while the queue is full.*)
Receive == /\ received = sent
           /\ received < written
           /\ received' = received + 1
           /\ UNCHANGED <<pending, gate, queue, processing>>

Push == /\ sent < received
        /\ Fifo!Put
        /\ UNCHANGED <<pending, gate, received, processing>>
-----------------------------------------------------------------------------
(* opo_client_process; a queue_pop that times out changes nothing *)

PopResponse(p) == /\ ProcessorAt(p, "idle", "call")
                  /\ Fifo!Take
                  /\ response' = [response EXCEPT ![p] = Head(buf)]
                  /\ UNCHANGED <<pending, gate, received, finished>>

(* The callback returns, once its own queries have.                        *)
CallBack(p) == /\ ProcessorAt(p, "call", "count")
               /\ gpc[p] = "idle"
               /\ UNCHANGED <<pending, gate, received, queue, response, finished>>

(* Seeded defect: the response is not counted off.                         *)
CountOffForgotten(p) == /\ ProcessorAt(p, "count", "idle")
                        /\ finished' = finished + 1
                        /\ UNCHANGED <<pending, gate, received, queue, response>>

CountOff(p) == /\ ProcessorAt(p, "count", "idle")
               /\ pending' = pending - 1
               /\ finished' = finished + 1
               /\ UNCHANGED <<gate, received, queue, response>>

Process(p) == PopResponse(p) \/ CallBack(p) \/ CountOff(p)
-----------------------------------------------------------------------------
QueryGoesOn(k) == Admit(k) \/ Write(k)

Next == \/ \E k \in Threads : Enter(k) \/ QueryGoesOn(k)
        \/ Receive
        \/ Push
        \/ \E p \in Processors : Process(p)

Spec == Init /\ [][Next]_vars

(* Threads run, and the server answers what it received.                   *)
Fairness == /\ \A k \in Threads : WF_vars(QueryGoesOn(k))
            /\ WF_vars(Receive)
            /\ WF_vars(Push)
            /\ \A p \in Processors : WF_vars(Process(p))

FairSpec == Spec /\ Fairness
-----------------------------------------------------------------------------
Waiting == {k \in Threads : gpc[k] = "wait"}
Writing == {k \in Threads : gpc[k] = "write"}

(* Queries past the gate that have not been counted off yet.               *)
InFlight == Cardinality(Writing) + written + failed - finished

(* Type correctness.                                                       *)
TypeOK == /\ pending \in Nat
          /\ gpc \in [Threads -> {"idle", "wait", "write"}]
          /\ begun \in 0 .. MaxQueries
          /\ written \in Nat /\ failed \in Nat
          /\ received \in Nat /\ sent \in Nat
          /\ buf \in Seq(Nat) /\ got \in Seq(Nat)
          /\ ppc \in [Processors -> {"idle", "call", "count"}]
          /\ response \in [Processors -> Nat]
          /\ finished \in Nat

(* pending counts exactly the queries in flight and the threads that wait  *)
(* at the gate, a query whose write failed for ever.                       *)
PendingExact == pending = InFlight + Cardinality(Waiting)

(* Responses wait for processing no more than the gate lets through, so a  *)
(* queue with that much room never makes the receiving thread wait.        *)
QueueNeverFull == PendingMax < QueueRoom => (sent < received => Len(buf) < QueueRoom)

(* So many threads wait, or wait inside a callback, or failed to write,    *)
(* that pending stays above the limit with nothing left in flight.         *)
Crowded == PendingMax < Cardinality(Waiting) + Cardinality(Waiting \cap Processors) + failed

(* A thread that waits at the gate gets through, unless the gate is        *)
(* crowded by threads and queries that count but do not move.              *)
WaitEndsUnlessCrowded == \A k \in Threads : gpc[k] = "wait" ~> gpc[k] # "wait" \/ Crowded

(* A thread that waits at the gate gets through.                           *)
WaitEnds == \A k \in Threads : gpc[k] = "wait" ~> gpc[k] # "wait"
=============================================================================
