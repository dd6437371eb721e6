-------------------------- MODULE ConnectionProofs --------------------------
(***************************************************************************)
(* Proofs about Connection, for every stream of messages, every way it is  *)
(* cut by the network, every size of buf and of async_queue, and every     *)
(* failure and signal Connection has.                                      *)
(***************************************************************************)
EXTENDS Connection, SequenceTheorems, TLAPS

(* What was read lies between what was framed and what arrived; a message  *)
(* under way is incomplete until it is given on, and what is left in buf   *)
(* tells no size, except while buf is being cut.                           *)
PartInv == /\ read <= sent
           /\ Len(out) <= Len(stream)
           /\ read = Offset(Len(out) + 1) + bcnt + mcnt
           /\ msize > 0 => /\ bcnt = 0
                           /\ Len(out) < Len(stream)
                           /\ msize = Size(Len(out) + 1)
           /\ rpc # "cut" => bcnt < Header
           /\ rpc = "give" => msize > 0 /\ mcnt = msize
           /\ rpc # "give" /\ msize > 0 => mcnt < msize

OutInv == \A k \in DOMAIN out : out[k] = [at |-> Offset(k), size |-> Size(k)]

(* While the client is being made nobody else has it but the receiving     *)
(* thread, which gives up the socket only after it reported that.          *)
OpenInv == /\ kpc \in {"connect", "failed", "start"} => rpc = "unborn"
           /\ kpc # "up" => cpc = "idle"
           /\ rpc = "unborn" => sock = "socket"
           /\ kpc = "tell" /\ rpc # "unborn" => active
           /\ kpc = "tell" /\ (sock = "zero" \/ rpc \in {"zero", "drop"}) => reported
           /\ kpc = "up" => connected \/ reported

OutTyped == out \in Seq([at : Nat, size : Nat])

Safe == TypeOK /\ OutTyped /\ OpenInv
IInv == Safe /\ PartInv /\ OutInv
-----------------------------------------------------------------------------
(* The places where messages start: numbers, ascending, up to the end.     *)
LEMMA Places ==
  ASSUME stream \in Streams
  PROVE  /\ Len(stream) \in Nat
         /\ \A k \in 1 .. Len(stream) + 1 : Offset(k) \in Nat
         /\ \A j, k \in 1 .. Len(stream) + 1 : j < k => Offset(j) < Offset(k)
         /\ \A k \in 1 .. Len(stream) : Size(k) \in Nat \ {0} /\ Offset(k + 1) = Offset(k) + Size(k)
         /\ Total \in Nat
         /\ \A k \in 1 .. Len(stream) + 1 : Offset(k) <= Total
<1>1. stream \in Seq(Nat \ {0}) /\ Ascending(stream)
  BY ConnectionAssumption
<1>2. Len(stream) \in Nat /\ DOMAIN stream = 1 .. Len(stream)
  BY <1>1
<1>3. \A k \in 1 .. Len(stream) + 1 : Offset(k) \in Nat /\ (k > 1 => Offset(k) > 0)
  BY <1>1, <1>2 DEF Offset
<1>4. ASSUME NEW j \in 1 .. Len(stream) + 1, NEW k \in 1 .. Len(stream) + 1, j < k
      PROVE  Offset(j) < Offset(k)
  <2>1. CASE j = 1
    BY <1>2, <1>3, <1>4, <2>1 DEF Offset
  <2>2. CASE j # 1
    <3>1. j - 1 \in DOMAIN stream /\ k - 1 \in DOMAIN stream /\ j - 1 < k - 1 /\ k # 1
      BY <1>2, <1>4, <2>2
    <3>2. stream[j - 1] < stream[k - 1]
      BY <1>1, <3>1 DEF Ascending
    <3> QED
      BY <2>2, <3>1, <3>2 DEF Offset
  <2> QED
    BY <2>1, <2>2
<1>5. ASSUME NEW k \in 1 .. Len(stream)
      PROVE  Size(k) \in Nat \ {0} /\ Offset(k + 1) = Offset(k) + Size(k)
  <2>1. k \in 1 .. Len(stream) + 1 /\ k + 1 \in 1 .. Len(stream) + 1 /\ k < k + 1
    BY <1>2
  <2>2. Offset(k) \in Nat /\ Offset(k + 1) \in Nat /\ Offset(k) < Offset(k + 1)
    BY <1>3, <1>4, <2>1
  <2> QED
    BY <2>2 DEF Size
<1>6. Total \in Nat /\ \A k \in 1 .. Len(stream) + 1 : Offset(k) <= Total
  <2>1. Len(stream) + 1 \in 1 .. Len(stream) + 1
    BY <1>2
  <2>2. ASSUME NEW k \in 1 .. Len(stream) + 1 PROVE Offset(k) <= Total
    <3>1. CASE k = Len(stream) + 1
      BY <1>3, <2>1, <3>1 DEF Total
    <3>2. CASE k # Len(stream) + 1
      <4>1. k < Len(stream) + 1
        BY <1>2, <3>2
      <4> QED
        BY <1>3, <1>4, <2>1, <4>1 DEF Total
    <3> QED
      BY <3>1, <3>2
  <2> QED
    BY <1>3, <2>1, <2>2 DEF Total
<1> QED
  BY <1>2, <1>3, <1>4, <1>5, <1>6

(* Where something of the stream is left unframed a message starts, and a  *)
(* reader of its size finds that message's size.                           *)
LEMMA NextSize ==
  ASSUME stream \in Streams, NEW n \in 0 .. Len(stream), Offset(n + 1) < Total
  PROVE  n < Len(stream) /\ SizesAt(Offset(n + 1)) = {Size(n + 1)}
<1>1. n + 1 \in 1 .. Len(stream) + 1 /\ Len(stream) \in Nat
  BY Places
<1>2. n < Len(stream)
  <2>1. n # Len(stream)
    BY <1>1, Places DEF Total
  <2> QED
    BY <1>1, <2>1
<1>3. n + 1 \in DOMAIN stream /\ DOMAIN stream = 1 .. Len(stream)
  <2>1. stream \in Seq(Nat \ {0})
    BY ConnectionAssumption
  <2> QED
    BY <1>1, <1>2, <2>1
<1>4. \A k \in DOMAIN stream : Offset(k) = Offset(n + 1) => k = n + 1
  <2> SUFFICES ASSUME NEW k \in DOMAIN stream, k # n + 1 PROVE Offset(k) # Offset(n + 1)
    OBVIOUS
  <2>1. k \in 1 .. Len(stream) + 1 /\ (k < n + 1 \/ n + 1 < k)
    BY <1>1, <1>3
  <2>2. Offset(k) \in Nat /\ Offset(n + 1) \in Nat
    BY <1>1, <2>1, Places
  <2>3. Offset(k) < Offset(n + 1) \/ Offset(n + 1) < Offset(k)
    BY <1>1, <2>1, Places
  <2> QED
    BY <2>2, <2>3
<1>5. {k \in DOMAIN stream : Offset(k) = Offset(n + 1)} = {n + 1}
  BY <1>3, <1>4
<1>6. SizesAt(Offset(n + 1)) = {Size(k) : k \in {n + 1}}
  BY <1>5 DEF SizesAt
<1> QED
  BY <1>2, <1>6

(* The initial state satisfies the invariant.                              *)
LEMMA InitIInv == Init => IInv
<1> SUFFICES ASSUME Init PROVE IInv
  OBVIOUS
<1>1. stream \in Streams /\ stream \in Seq(Nat \ {0}) /\ Header > 0
  BY ConnectionAssumption DEF Init
<1>2. TypeOK
  <2>1. Total \in Nat /\ 0 \in 0 .. Total
    BY <1>1, Places
  <2>2. async \in BOOLEAN /\ 0 \in 0 .. BufSize /\ 0 \in 0 .. QueueRoom
    BY ConnectionAssumption DEF Init
  <2>3. /\ stream \in Streams /\ async \in BOOLEAN
        /\ sent \in 0 .. Total /\ read \in 0 .. Total
        /\ bcnt \in 0 .. BufSize /\ queued \in 0 .. QueueRoom
        /\ msize \in Nat /\ mcnt \in 0 .. msize
    BY <1>1, <2>1, <2>2 DEF Init
  <2> QED
    BY <2>3 DEF Init, TypeOK
<1>3. OutTyped /\ OpenInv /\ OutInv
  BY DEF Init, OutTyped, OpenInv, OutInv
<1>4. PartInv
  BY <1>1, Places, ConnectionAssumption DEF Init, PartInv, Offset
<1> QED
  BY <1>2, <1>3, <1>4 DEF IInv, Safe

(* A step of the loop or of another thread that moves no byte.             *)
LEMMA QuietStep ==
  ASSUME IInv,
         UNCHANGED <<stream, async, sent, read, bcnt, msize, mcnt, out>>,
         \/ rpc' = rpc
         \/ rpc' \notin {"cut", "give"} /\ rpc # "give" /\ (rpc # "cut" \/ bcnt < Header)
  PROVE  PartInv' /\ OutInv' /\ OutTyped'
  BY DEF IInv, Safe, PartInv, OutInv, OutTyped, Offset, Size

(* The steps that move no byte: opo_client_connect, opo_client_close and   *)
(* the branches of the loop that only look, report or give up.             *)
LEMMA QuietActions ==
  ASSUME IInv,
         \/ ConnectFails \/ Connect \/ Tell \/ LoopEnds
         \/ PollFails \/ Poll \/ RecvFails \/ RecvEnd
         \/ CutEnds \/ RestFails \/ ZeroSock \/ Quiet
         \/ GoneIdle \/ GoneMidway \/ SocketError \/ Drop
         \/ Close \/ CloseTest \/ CloseShut \/ CloseJoin
         \/ CloseJoinUnborn
         \/ \E born \in BOOLEAN : Start(born)
  PROVE  IInv'
<1> USE ConnectionAssumption DEF IInv, Safe
<1>1. CASE ConnectFails
  <2>1. TypeOK'
    BY <1>1 DEF TypeOK, ConnectFails, setting, network, partial, handed,
                Total, Offset
  <2>2. OpenInv'
    BY <1>1 DEF OpenInv, TypeOK, ConnectFails, setting, network, partial,
                handed
  <2>3. PartInv' /\ OutInv' /\ OutTyped'
    BY <1>1, QuietStep DEF TypeOK, ConnectFails, setting, network, partial,
                           handed
  <2> QED
    BY <2>1, <2>2, <2>3
<1>2. CASE Connect
  <2>1. TypeOK'
    BY <1>2 DEF TypeOK, Connect, setting, network, partial, handed, Total,
                Offset
  <2>2. OpenInv'
    BY <1>2 DEF OpenInv, TypeOK, Connect, setting, network, partial, handed
  <2>3. PartInv' /\ OutInv' /\ OutTyped'
    BY <1>2, QuietStep DEF TypeOK, Connect, setting, network, partial, handed
  <2> QED
    BY <2>1, <2>2, <2>3
<1>3. CASE Tell
  <2>1. TypeOK'
    BY <1>3 DEF TypeOK, Tell, setting, network, partial, handed, Total, Offset
  <2>2. OpenInv'
    BY <1>3 DEF OpenInv, TypeOK, Tell, setting, network, partial, handed
  <2>3. PartInv' /\ OutInv' /\ OutTyped'
    BY <1>3, QuietStep DEF TypeOK, Tell, setting, network, partial, handed
  <2> QED
    BY <2>1, <2>2, <2>3
<1>4. CASE LoopEnds
  <2>1. TypeOK'
    BY <1>4 DEF TypeOK, LoopEnds, ReceiverAt, given, setting, opening,
                network, partial, handed, Total, Offset
  <2>2. OpenInv'
    BY <1>4 DEF OpenInv, TypeOK, LoopEnds, ReceiverAt, given, setting,
                opening, network, partial, handed
  <2>3. PartInv' /\ OutInv' /\ OutTyped'
    BY <1>4, QuietStep DEF TypeOK, LoopEnds, ReceiverAt, given, setting,
                           opening, network, partial, handed
  <2> QED
    BY <2>1, <2>2, <2>3
<1>5. CASE PollFails
  <2>1. TypeOK'
    BY <1>5 DEF TypeOK, PollFails, ReceiverAt, given, setting, opening,
                network, partial, handed, Total, Offset
  <2>2. OpenInv'
    BY <1>5 DEF OpenInv, TypeOK, PollFails, ReceiverAt, given, setting,
                opening, network, partial, handed
  <2>3. PartInv' /\ OutInv' /\ OutTyped'
    BY <1>5, QuietStep DEF TypeOK, PollFails, ReceiverAt, given, setting,
                           opening, network, partial, handed
  <2> QED
    BY <2>1, <2>2, <2>3
<1>6. CASE Poll
  <2>1. revents' \subseteq {"in", "err", "hup", "nval"}
    BY <1>6 DEF Poll, Revents, TypeOK
  <2>2. TypeOK'
    BY <1>6, <2>1 DEF TypeOK, Poll, given, setting, opening, network,
                      partial, handed, Total, Offset
  <2>3. OpenInv'
    BY <1>6 DEF OpenInv, TypeOK, Poll, given, setting, opening, network,
                partial, handed
  <2>4. PartInv' /\ OutInv' /\ OutTyped'
    BY <1>6, QuietStep DEF TypeOK, Poll, given, setting, opening, network,
                           partial, handed
  <2> QED
    BY <2>2, <2>3, <2>4
<1>7. CASE RecvFails
  <2>1. TypeOK'
    BY <1>7 DEF TypeOK, RecvFails, ReceiverAt, Report, given, setting,
                opening, network, partial, handed, Total, Offset
  <2>2. OpenInv'
    BY <1>7 DEF OpenInv, TypeOK, RecvFails, ReceiverAt, Report, given,
                setting, opening, network, partial, handed
  <2>3. PartInv' /\ OutInv' /\ OutTyped'
    BY <1>7, QuietStep DEF TypeOK, RecvFails, ReceiverAt, given, setting,
                           opening, network, partial, handed
  <2> QED
    BY <2>1, <2>2, <2>3
<1>8. CASE RecvEnd
  <2>1. TypeOK'
    BY <1>8 DEF TypeOK, RecvEnd, ReceiverAt, Report, given, setting, opening,
                network, partial, handed, Total, Offset
  <2>2. OpenInv'
    BY <1>8 DEF OpenInv, TypeOK, RecvEnd, ReceiverAt, Report, given, setting,
                opening, network, partial, handed
  <2>3. PartInv' /\ OutInv' /\ OutTyped'
    BY <1>8, QuietStep DEF TypeOK, RecvEnd, ReceiverAt, given, setting,
                           opening, network, partial, handed
  <2> QED
    BY <2>1, <2>2, <2>3
<1>9. CASE CutEnds
  <2>1. TypeOK'
    BY <1>9 DEF TypeOK, CutEnds, ReceiverAt, given, setting, opening,
                network, partial, handed, Total, Offset
  <2>2. OpenInv'
    BY <1>9 DEF OpenInv, TypeOK, CutEnds, ReceiverAt, given, setting,
                opening, network, partial, handed
  <2>3. PartInv' /\ OutInv' /\ OutTyped'
    BY <1>9, QuietStep DEF TypeOK, CutEnds, ReceiverAt, given, setting,
                           opening, network, partial, handed
  <2> QED
    BY <2>1, <2>2, <2>3
<1>10. CASE RestFails
  <2>1. TypeOK'
    BY <1>10 DEF TypeOK, RestFails, ReceiverAt, Report, given, setting,
                 opening, network, partial, handed, Total, Offset
  <2>2. OpenInv'
    BY <1>10 DEF OpenInv, TypeOK, RestFails, ReceiverAt, Report, given,
                 setting, opening, network, partial, handed
  <2>3. PartInv' /\ OutInv' /\ OutTyped'
    BY <1>10, QuietStep DEF TypeOK, RestFails, ReceiverAt, given, setting,
                            opening, network, partial, handed
  <2> QED
    BY <2>1, <2>2, <2>3
<1>11. CASE ZeroSock
  <2>1. TypeOK'
    BY <1>11 DEF TypeOK, ZeroSock, ReceiverAt, given, setting, opening,
                 network, partial, handed, Total, Offset
  <2>2. OpenInv'
    BY <1>11 DEF OpenInv, TypeOK, ZeroSock, ReceiverAt, given, setting,
                 opening, network, partial, handed
  <2>3. PartInv' /\ OutInv' /\ OutTyped'
    BY <1>11, QuietStep DEF TypeOK, ZeroSock, ReceiverAt, given, setting,
                            opening, network, partial, handed
  <2> QED
    BY <2>1, <2>2, <2>3
<1>12. CASE Quiet
  <2>1. TypeOK'
    BY <1>12 DEF TypeOK, Quiet, ReceiverAt, given, setting, opening, network,
                 partial, handed, Total, Offset
  <2>2. OpenInv'
    BY <1>12 DEF OpenInv, TypeOK, Quiet, ReceiverAt, given, setting, opening,
                 network, partial, handed
  <2>3. PartInv' /\ OutInv' /\ OutTyped'
    BY <1>12, QuietStep DEF TypeOK, Quiet, ReceiverAt, given, setting,
                            opening, network, partial, handed
  <2> QED
    BY <2>1, <2>2, <2>3
<1>13. CASE GoneIdle
  <2>1. TypeOK'
    BY <1>13 DEF TypeOK, GoneIdle, ReceiverAt, Report, given, setting,
                 opening, network, partial, handed, Total, Offset
  <2>2. OpenInv'
    BY <1>13 DEF OpenInv, TypeOK, GoneIdle, ReceiverAt, Report, given,
                 setting, opening, network, partial, handed
  <2>3. PartInv' /\ OutInv' /\ OutTyped'
    BY <1>13, QuietStep DEF TypeOK, GoneIdle, ReceiverAt, given, setting,
                            opening, network, partial, handed
  <2> QED
    BY <2>1, <2>2, <2>3
<1>14. CASE GoneMidway
  <2>1. TypeOK'
    BY <1>14 DEF TypeOK, GoneMidway, ReceiverAt, Report, given, setting,
                 opening, network, partial, handed, Total, Offset
  <2>2. OpenInv'
    BY <1>14 DEF OpenInv, TypeOK, GoneMidway, ReceiverAt, Report, given,
                 setting, opening, network, partial, handed
  <2>3. PartInv' /\ OutInv' /\ OutTyped'
    BY <1>14, QuietStep DEF TypeOK, GoneMidway, ReceiverAt, given, setting,
                            opening, network, partial, handed
  <2> QED
    BY <2>1, <2>2, <2>3
<1>15. CASE SocketError
  <2>1. TypeOK'
    BY <1>15 DEF TypeOK, SocketError, Report, given, setting, opening,
                 network, partial, handed, Total, Offset
  <2>2. OpenInv'
    BY <1>15 DEF OpenInv, TypeOK, SocketError, Report, given, setting,
                 opening, network, partial, handed
  <2>3. PartInv' /\ OutInv' /\ OutTyped'
    BY <1>15, QuietStep DEF TypeOK, SocketError, given, setting, opening,
                            network, partial, handed
  <2> QED
    BY <2>1, <2>2, <2>3
<1>16. CASE Drop
  <2>1. TypeOK'
    BY <1>16 DEF TypeOK, Drop, ReceiverAt, given, setting, opening, network,
                 partial, handed, Total, Offset
  <2>2. OpenInv'
    BY <1>16 DEF OpenInv, TypeOK, Drop, ReceiverAt, given, setting, opening,
                 network, partial, handed
  <2>3. PartInv' /\ OutInv' /\ OutTyped'
    BY <1>16, QuietStep DEF TypeOK, Drop, ReceiverAt, given, setting,
                            opening, network, partial, handed
  <2> QED
    BY <2>1, <2>2, <2>3
<1>17. CASE Close
  <2>1. TypeOK'
    BY <1>17 DEF TypeOK, Close, CloserAt, given, setting, opening, network,
                 partial, handed, Total, Offset
  <2>2. OpenInv'
    BY <1>17 DEF OpenInv, TypeOK, Close, CloserAt, given, setting, opening,
                 network, partial, handed
  <2>3. PartInv' /\ OutInv' /\ OutTyped'
    BY <1>17, QuietStep DEF TypeOK, Close, CloserAt, given, setting, opening,
                            network, partial, handed
  <2> QED
    BY <2>1, <2>2, <2>3
<1>18. CASE CloseTest
  <2>1. TypeOK'
    BY <1>18 DEF TypeOK, CloseTest, given, setting, opening, network,
                 partial, handed, Total, Offset
  <2>2. OpenInv'
    BY <1>18 DEF OpenInv, TypeOK, CloseTest, given, setting, opening,
                 network, partial, handed
  <2>3. PartInv' /\ OutInv' /\ OutTyped'
    BY <1>18, QuietStep DEF TypeOK, CloseTest, given, setting, opening,
                            network, partial, handed
  <2> QED
    BY <2>1, <2>2, <2>3
<1>19. CASE CloseShut
  <2>1. TypeOK'
    BY <1>19 DEF TypeOK, CloseShut, CloserAt, given, setting, opening,
                 network, partial, handed, Total, Offset
  <2>2. OpenInv'
    BY <1>19 DEF OpenInv, TypeOK, CloseShut, CloserAt, given, setting,
                 opening, network, partial, handed
  <2>3. PartInv' /\ OutInv' /\ OutTyped'
    BY <1>19, QuietStep DEF TypeOK, CloseShut, CloserAt, given, setting,
                            opening, network, partial, handed
  <2> QED
    BY <2>1, <2>2, <2>3
<1>20. CASE CloseJoin
  <2>1. TypeOK'
    BY <1>20 DEF TypeOK, CloseJoin, CloserAt, given, setting, opening,
                 network, partial, handed, Total, Offset
  <2>2. OpenInv'
    BY <1>20 DEF OpenInv, TypeOK, CloseJoin, CloserAt, given, setting,
                 opening, network, partial, handed
  <2>3. PartInv' /\ OutInv' /\ OutTyped'
    BY <1>20, QuietStep DEF TypeOK, CloseJoin, CloserAt, given, setting,
                            opening, network, partial, handed
  <2> QED
    BY <2>1, <2>2, <2>3
<1>21. CASE CloseJoinUnborn
  <2>1. TypeOK'
    BY <1>21 DEF TypeOK, CloseJoinUnborn, CloserAt, given, setting, opening,
                 network, partial, handed, Total, Offset
  <2>2. OpenInv'
    BY <1>21 DEF OpenInv, TypeOK, CloseJoinUnborn, CloserAt, given, setting,
                 opening, network, partial, handed
  <2>3. PartInv' /\ OutInv' /\ OutTyped'
    BY <1>21, QuietStep DEF TypeOK, CloseJoinUnborn, CloserAt, given,
                            setting, opening, network, partial, handed
  <2> QED
    BY <2>1, <2>2, <2>3
<1>22. ASSUME NEW born \in BOOLEAN, Start(born) PROVE IInv'
  <2>1. TypeOK'
    BY <1>22 DEF TypeOK, Start, setting, network, partial, handed, Total,
                 Offset
  <2>2. OpenInv'
    BY <1>22 DEF OpenInv, TypeOK, Start, setting, network, partial, handed
  <2>3. PartInv' /\ OutInv' /\ OutTyped'
    BY <1>22, QuietStep DEF OpenInv, TypeOK, Start, setting, network,
                            partial, handed
  <2> QED
    BY <2>1, <2>2, <2>3
<1> QED
  BY <1>1, <1>2, <1>3, <1>4, <1>5, <1>6, <1>7, <1>8, <1>9, <1>10, <1>11, <1>12, <1>13,
     <1>14, <1>15, <1>16, <1>17, <1>18, <1>19, <1>20, <1>21, <1>22

(* Bytes arrive, the peer ends, a response is taken from the queue.        *)
LEMMA OtherActions ==
  ASSUME IInv, Arrive \/ PeerEnds \/ Consume
  PROVE  IInv'
<1> USE ConnectionAssumption DEF IInv, Safe
<1>1. Total' = Total /\ stream' = stream /\ Total \in Nat
  BY Places DEF Arrive, PeerEnds, Consume, given, setting, Total, Offset, TypeOK
<1>2. TypeOK'
  <2>1. CASE Arrive
    BY <1>1, <2>1 DEF TypeOK, Arrive, given, setting, opening, partial, handed
  <2>2. CASE PeerEnds
    BY <1>1, <2>2 DEF TypeOK, PeerEnds, given, setting, opening, partial, handed
  <2>3. CASE Consume
    BY <1>1, <2>3 DEF TypeOK, Consume, given, setting, opening, network, partial
  <2> QED
    BY <2>1, <2>2, <2>3
<1>3. OpenInv'
  BY DEF OpenInv, Arrive, PeerEnds, Consume, given, setting, opening, network, partial, handed
<1>4. /\ sent' \in Nat /\ sent <= sent'
      /\ UNCHANGED <<stream, rpc, read, bcnt, msize, mcnt, out>>
  BY <1>1 DEF Arrive, PeerEnds, Consume, given, setting, network, partial, handed, TypeOK
<1>5. PartInv'
  <2>1. read <= sent'
    BY <1>4 DEF PartInv, TypeOK
  <2> QED
    BY <1>4, <2>1 DEF PartInv, Offset, Size
<1>6. OutInv' /\ OutTyped'
  BY <1>4 DEF OutInv, OutTyped, Offset, Size
<1> QED
  BY <1>2, <1>3, <1>5, <1>6

(* A message handed over right where the last one ended keeps what was     *)
(* handed over in order.                                                   *)
LEMMA HandOverNext ==
  ASSUME IInv, stream' = stream, async' = async, Len(out) < Len(stream),
         HandOver(Offset(Len(out) + 1), Size(Len(out) + 1))
  PROVE  /\ OutInv' /\ OutTyped'
         /\ Len(out') = Len(out) + 1 /\ Len(out') <= Len(stream)
         /\ queued' \in 0 .. QueueRoom
         /\ Offset(Len(out) + 1)' = Offset(Len(out) + 1) + Size(Len(out) + 1)
<1> USE ConnectionAssumption DEF IInv, Safe
<1> DEFINE k == Len(out) + 1
           o == [at |-> Offset(k), size |-> Size(k)]
<1>1. out \in Seq([at : Nat, size : Nat]) /\ Len(out) \in Nat
  BY DEF OutTyped
<1>2. k \in 1 .. Len(stream) /\ k \in 1 .. Len(stream) + 1 /\ stream \in Streams /\ Len(stream) \in Nat
  BY <1>1, Places DEF TypeOK
<1>3. o \in [at : Nat, size : Nat] /\ Offset(k + 1) = Offset(k) + Size(k)
  BY <1>2, Places
<1>4. out' = Append(out, o)
  BY DEF HandOver
<1> HIDE DEF o
<1>5. /\ out' \in Seq([at : Nat, size : Nat])
      /\ Len(out') = k
      /\ DOMAIN out' = 1 .. k
      /\ \A i \in 1 .. Len(out) : out'[i] = out[i]
      /\ out'[k] = o
  BY <1>1, <1>3, <1>4
<1>6. OutInv'
  <2> SUFFICES ASSUME NEW i \in 1 .. k PROVE out'[i] = [at |-> Offset(i), size |-> Size(i)]
    BY <1>5 DEF OutInv, Offset, Size
  <2>1. CASE i = k
    BY <1>5, <2>1 DEF o
  <2>2. CASE i # k
    <3>1. i \in 1 .. Len(out) /\ i \in DOMAIN out
      BY <1>1, <2>2
    <3> QED
      BY <1>5, <3>1 DEF OutInv
  <2> QED
    BY <2>1, <2>2
<1>7. Offset(Len(out) + 1)' = Offset(k + 1)
  <2>1. k + 1 # 1 /\ Len(out') + 1 = k + 1
    BY <1>1, <1>5
  <2> QED
    BY <2>1 DEF Offset
<1>8. queued' \in 0 .. QueueRoom
  BY DEF HandOver, TypeOK
<1> QED
  BY <1>1, <1>2, <1>3, <1>5, <1>6, <1>7, <1>8 DEF OutTyped

(* The step of a thread that reads, and the framing it keeps.              *)
LEMMA RecvSomeStep ==
  ASSUME IInv, RecvSome
  PROVE  IInv'
<1> USE ConnectionAssumption DEF IInv, Safe
<1> DEFINE n == Least(BufSize - bcnt, sent - read)
<1>1. /\ UNCHANGED <<stream, async, sent, peer, sock, fd, active, kpc, connected, revents, msize, mcnt, out, queued, reported, cpc>>
      /\ rpc = "recv" /\ rpc' = "cut" /\ msize = 0
      /\ sent > read
      /\ read' = read + n /\ bcnt' = bcnt + n
  BY DEF RecvSome, ReceiverAt, given, setting, opening, network, handed
<1>2. Total' = Total /\ Total \in Nat
  BY <1>1, Places DEF Total, Offset, TypeOK
<1>3. n \in Nat /\ n <= BufSize - bcnt /\ n <= sent - read
  BY <1>1, <1>2 DEF Least, TypeOK
<1> HIDE DEF n
<1>4. TypeOK'
  <2>1. bcnt' \in 0 .. BufSize /\ read' \in 0 .. Total
    BY <1>1, <1>2, <1>3 DEF TypeOK
  <2> QED
    BY <1>1, <1>2, <2>1 DEF TypeOK
<1>5. PartInv'
  <2>1. read \in Nat /\ bcnt \in Nat /\ mcnt \in Nat /\ sent \in Nat /\ Offset(Len(out) + 1) \in Nat
    <3>1. Len(out) \in Nat /\ Len(out) + 1 \in 1 .. Len(stream) + 1
      BY Places DEF OutTyped, PartInv, TypeOK
    <3> QED
      BY <1>2, <3>1, Places DEF TypeOK
  <2>2. Offset(Len(out) + 1)' = Offset(Len(out) + 1)
    BY <1>1 DEF Offset
  <2>4. read <= sent /\ read = Offset(Len(out) + 1) + bcnt + mcnt
    BY DEF PartInv
  <2>3. read' <= sent /\ read' = Offset(Len(out) + 1) + bcnt' + mcnt
    BY <1>1, <1>3, <2>1, <2>4
  <2> QED
    BY <1>1, <2>2, <2>3 DEF PartInv
<1>6. OpenInv' /\ OutInv' /\ OutTyped'
  BY <1>1 DEF OpenInv, OutInv, OutTyped, Offset, Size
<1> QED
  BY <1>4, <1>5, <1>6

(* Where the cut stands: between two messages, the size of the second at   *)
(* hand.                                                                   *)
LEMMA AtMessage ==
  ASSUME IInv, bcnt >= Header
  PROVE  /\ msize = 0 /\ mcnt = 0
         /\ read - bcnt = Offset(Len(out) + 1)
         /\ Len(out) < Len(stream)
         /\ SizesAt(read - bcnt) = {Size(Len(out) + 1)}
         /\ Size(Len(out) + 1) \in Nat \ {0}
         /\ Offset(Len(out) + 1) \in Nat
<1> USE ConnectionAssumption DEF IInv, Safe
<1>1. bcnt \in Nat /\ bcnt > 0 /\ msize = 0 /\ mcnt = 0
  BY DEF TypeOK, PartInv
<1>2. Len(out) \in 0 .. Len(stream) /\ Len(stream) \in Nat /\ stream \in Streams /\ Total \in Nat
  BY Places DEF OutTyped, PartInv, TypeOK
<1>3. Offset(Len(out) + 1) \in Nat
  BY <1>2, Places
<1>4. read \in Nat /\ read <= Total /\ read = Offset(Len(out) + 1) + bcnt
  BY <1>1, <1>2, <1>3 DEF TypeOK, PartInv
<1>5. read - bcnt = Offset(Len(out) + 1) /\ Offset(Len(out) + 1) < Total
  BY <1>1, <1>2, <1>3, <1>4
<1>6. Len(out) < Len(stream) /\ SizesAt(read - bcnt) = {Size(Len(out) + 1)}
  BY <1>2, <1>5, NextSize
<1>7. Size(Len(out) + 1) \in Nat \ {0}
  BY <1>2, <1>6, Places
<1> QED
  BY <1>1, <1>3, <1>5, <1>6, <1>7

LEMMA CutStep ==
  ASSUME IInv, CutWhole \/ CutPart
  PROVE  IInv'
<1> USE ConnectionAssumption DEF IInv, Safe
<1> DEFINE size == Size(Len(out) + 1)
<1>1. /\ UNCHANGED <<stream, async, sent, peer, sock, fd, active, kpc, connected, rpc, revents, read, reported, cpc>>
      /\ rpc = "cut" /\ bcnt >= Header
  BY DEF CutWhole, CutPart, given, setting, opening, network
<1>2. /\ msize = 0 /\ mcnt = 0 /\ bcnt \in Nat /\ Header > 0
      /\ read - bcnt = Offset(Len(out) + 1) /\ read = Offset(Len(out) + 1) + bcnt
      /\ Len(out) < Len(stream)
      /\ SizesAt(read - bcnt) = {size} /\ size \in Nat \ {0}
      /\ Offset(Len(out) + 1) \in Nat
  BY <1>1, AtMessage DEF TypeOK
<1>3. Total' = Total /\ Total \in Nat
  BY <1>1, Places DEF Total, Offset, TypeOK
<1> HIDE DEF size
<1>4. CASE CutWhole
  <2>1. /\ size <= bcnt /\ HandOver(read - bcnt, size) /\ bcnt' = bcnt - size
        /\ UNCHANGED <<msize, mcnt>>
    BY <1>2, <1>4 DEF CutWhole
  <2>2. /\ OutInv' /\ OutTyped'
        /\ Len(out') <= Len(stream)
        /\ queued' \in 0 .. QueueRoom
        /\ Offset(Len(out) + 1)' = Offset(Len(out) + 1) + size
    BY <1>1, <1>2, <2>1, HandOverNext DEF size
  <2>3. TypeOK'
    <3>1. bcnt' \in 0 .. BufSize
      BY <1>2, <2>1 DEF TypeOK
    <3> QED
      BY <1>1, <1>3, <2>1, <2>2, <3>1 DEF TypeOK
  <2>4. PartInv'
    <3>1. read' = Offset(Len(out) + 1)' + bcnt' + mcnt'
      BY <1>1, <1>2, <2>1, <2>2
    <3>2. read' <= sent' /\ rpc' = "cut" /\ msize' = 0
      BY <1>1, <1>2, <2>1 DEF PartInv
    <3> QED
      BY <1>1, <2>2, <3>1, <3>2 DEF PartInv
  <2>5. OpenInv'
    BY <1>1 DEF OpenInv
  <2> QED
    BY <2>2, <2>3, <2>4, <2>5
<1>5. CASE CutPart
  <2>1. /\ size > bcnt /\ msize' = size /\ mcnt' = bcnt /\ bcnt' = 0
        /\ UNCHANGED <<out, queued>>
    BY <1>2, <1>5 DEF CutPart, handed
  <2>2. TypeOK'
    <3>1. msize' \in Nat /\ mcnt' \in 0 .. msize' /\ bcnt' \in 0 .. BufSize
      BY <1>2, <2>1
    <3> QED
      BY <1>1, <1>3, <2>1, <3>1 DEF TypeOK
  <2>3. PartInv'
    <3>1. Offset(Len(out) + 1)' = Offset(Len(out) + 1) /\ Size(Len(out) + 1)' = size
      BY <1>1, <2>1 DEF Offset, Size, size
    <3> QED
      BY <1>1, <1>2, <2>1, <3>1 DEF PartInv
  <2>4. OpenInv' /\ OutInv' /\ OutTyped'
    BY <1>1, <2>1 DEF OpenInv, OutInv, OutTyped, Offset, Size
  <2> QED
    BY <2>2, <2>3, <2>4
<1> QED
  BY <1>4, <1>5

LEMMA RestSomeStep ==
  ASSUME IInv, RestSome
  PROVE  IInv'
<1> USE ConnectionAssumption DEF IInv, Safe
<1> DEFINE n == Least(msize - mcnt, sent - read)
<1>1. /\ UNCHANGED <<stream, async, sent, peer, sock, fd, active, kpc, connected, revents, bcnt, msize, out, queued, reported, cpc>>
      /\ rpc = "recv" /\ msize > 0
      /\ rpc' = IF mcnt' = msize THEN "give" ELSE "events"
      /\ read' = read + n /\ mcnt' = mcnt + n
  BY DEF RestSome, given, setting, opening, network, handed
<1>2. Total' = Total /\ Total \in Nat
  BY <1>1, Places DEF Total, Offset, TypeOK
<1>3. read \in Nat /\ mcnt \in Nat /\ msize \in Nat /\ sent \in Nat /\ mcnt < msize /\ read <= sent /\ bcnt = 0
  BY <1>1, <1>2 DEF TypeOK, PartInv
<1>4. n \in Nat /\ n <= msize - mcnt /\ n <= sent - read
  BY <1>3 DEF Least
<1> HIDE DEF n
<1>5. mcnt' \in 0 .. msize /\ read' \in 0 .. Total /\ read' <= sent /\ rpc' \in {"give", "events"}
  BY <1>1, <1>2, <1>3, <1>4 DEF TypeOK
<1>6. TypeOK'
  BY <1>1, <1>2, <1>5 DEF TypeOK
<1>7. PartInv'
  <2>1. Offset(Len(out) + 1) \in Nat
    <3>1. Len(out) \in Nat /\ Len(out) + 1 \in 1 .. Len(stream) + 1
      BY Places DEF OutTyped, PartInv, TypeOK
    <3> QED
      BY <3>1, Places DEF TypeOK
  <2>2. Offset(Len(out) + 1)' = Offset(Len(out) + 1) /\ Size(Len(out) + 1)' = Size(Len(out) + 1)
    BY <1>1 DEF Offset, Size
  <2>3. read' = Offset(Len(out) + 1) + bcnt + mcnt'
    BY <1>1, <1>3, <1>4, <2>1 DEF PartInv
  <2>4. (rpc' = "give" => mcnt' = msize) /\ (rpc' # "give" => mcnt' < msize)
    BY <1>1, <1>3, <1>5
  <2> QED
    BY <1>1, <1>3, <1>5, <2>2, <2>3, <2>4 DEF PartInv
<1>8. OpenInv' /\ OutInv' /\ OutTyped'
  BY <1>1, <1>5 DEF OpenInv, OutInv, OutTyped, Offset, Size
<1> QED
  BY <1>6, <1>7, <1>8

LEMMA GiveStep ==
  ASSUME IInv, Give
  PROVE  IInv'
<1> USE ConnectionAssumption DEF IInv, Safe
<1> DEFINE size == Size(Len(out) + 1)
<1>1. /\ UNCHANGED <<stream, async, sent, peer, sock, fd, active, kpc, connected, revents, read, bcnt, reported, cpc>>
      /\ rpc = "give" /\ rpc' = "events"
      /\ HandOver(read - msize, msize)
      /\ msize' = 0 /\ mcnt' = 0
  BY DEF Give, ReceiverAt, given, setting, opening, network
<1>2. Total' = Total /\ Total \in Nat
  BY <1>1, Places DEF Total, Offset, TypeOK
<1>3. /\ msize > 0 /\ mcnt = msize /\ bcnt = 0 /\ Len(out) < Len(stream) /\ msize = size
      /\ read = Offset(Len(out) + 1) + bcnt + mcnt
      /\ msize \in Nat /\ read \in Nat
  BY <1>1, <1>2 DEF PartInv, TypeOK
<1>4. Offset(Len(out) + 1) \in Nat
  <2>1. Len(out) \in Nat /\ Len(out) + 1 \in 1 .. Len(stream) + 1
    BY Places DEF OutTyped, PartInv, TypeOK
  <2> QED
    BY <2>1, Places DEF TypeOK
<1> HIDE DEF size
<1>5. read - msize = Offset(Len(out) + 1)
  BY <1>3, <1>4
<1>6. /\ OutInv' /\ OutTyped'
      /\ Len(out') <= Len(stream)
      /\ queued' \in 0 .. QueueRoom
      /\ Offset(Len(out) + 1)' = Offset(Len(out) + 1) + size
  BY <1>1, <1>3, <1>5, HandOverNext DEF size
<1>7. TypeOK'
  BY <1>1, <1>2, <1>6 DEF TypeOK
<1>8. PartInv'
  <2>1. read' = Offset(Len(out) + 1)' + bcnt' + mcnt'
    BY <1>1, <1>3, <1>4, <1>6
  <2>2. read' <= sent' /\ rpc' = "events" /\ msize' = 0 /\ bcnt' < Header
    BY <1>1, <1>3 DEF PartInv
  <2> QED
    BY <1>1, <1>6, <2>1, <2>2 DEF PartInv
<1>9. OpenInv'
  BY <1>1 DEF OpenInv
<1> QED
  BY <1>6, <1>7, <1>8, <1>9

(* Every step keeps the invariant.                                         *)
LEMMA StepIInv == IInv /\ [Next]_vars => IInv'
<1> SUFFICES ASSUME IInv, [Next]_vars PROVE IInv'
  OBVIOUS
<1>1. CASE UNCHANGED vars
  BY <1>1 DEF vars, given, setting, opening, network, partial, handed,
              IInv, Safe, TypeOK, OpenInv, OutTyped, PartInv, OutInv, Total, Offset, Size
<1>2. CASE Arrive \/ PeerEnds \/ Consume
  BY <1>2, OtherActions
<1>3. CASE RecvSome \/ CutWhole \/ CutPart \/ RestSome \/ Give
  BY <1>3, RecvSomeStep, CutStep, RestSomeStep, GiveStep
<1>4. CASE ConnectFails \/ GoOnConnecting
  <2>1. \A born \in {TRUE, Starts} : born \in BOOLEAN
    BY ConnectionAssumption
  <2> QED
    BY <1>4, <2>1, QuietActions DEF GoOnConnecting
<1>5. CASE Receive /\ ~(RecvSome \/ CutWhole \/ CutPart \/ RestSome \/ Give)
  BY <1>5, QuietActions DEF Receive, Work
<1>6. CASE Close \/ GoOnClosing \/ CloseJoinUnborn
  BY <1>6, QuietActions DEF GoOnClosing
<1> QED
  BY <1>1, <1>2, <1>3, <1>4, <1>5, <1>6 DEF Next

(* The inductive invariant holds in every reachable state.                 *)
THEOREM Inductive == Spec => []IInv
  BY InitIInv, StepIInv, PTL DEF Spec
-----------------------------------------------------------------------------
(* The receiving thread's counts of bytes stay inside buf, inside msg and  *)
(* inside what the server sent, and async_queue inside its room.           *)
THEOREM TypeCorrect == Spec => []TypeOK
<1>1. IInv => TypeOK
  BY DEF IInv, Safe
<1> QED
  BY <1>1, Inductive, PTL

(* recv_loop hands over exactly the messages the server sent, in order and *)
(* whole, however the network cuts the stream and whatever fails.          *)
THEOREM Framing == Spec => []Framed
<1>1. IInv => Framed
  BY DEF IInv, PartInv, OutInv, Framed
<1> QED
  BY <1>1, Inductive, PTL

(* No byte read is lost: what is not handed over is the beginning of the   *)
(* next message, in buf or in msg and not in both.                         *)
THEOREM NoByteLost == Spec => []BytesAccounted
<1>1. IInv => BytesAccounted
  BY DEF IInv, Safe, PartInv, TypeOK, BytesAccounted
<1> QED
  BY <1>1, Inductive, PTL

(* opo_client_connect returns no client of which its user was not told     *)
(* either that it is connected or that the connection is lost.             *)
THEOREM Told == Spec => []ConnectionTold
<1>1. IInv => ConnectionTold
  BY DEF IInv, Safe, OpenInv, ConnectionTold
<1> QED
  BY <1>1, Inductive, PTL
=============================================================================
