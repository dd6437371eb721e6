----------------------------- MODULE Connection -----------------------------
(***************************************************************************)
(* The receiving thread of src/opo/client.c, recv_loop: it cuts the byte   *)
(* stream of the socket into messages, hands them over and reports the end *)
(* of the connection.  It is started by opo_client_connect and stopped by  *)
(* opo_client_close, which other threads run.                              *)
(*                                                                         *)
(* Bytes are counted, not stored: the stream the server sends is the       *)
(* sequence of the places where its messages end.  A status_callback is    *)
(* set and malloc does not fail.  Descriptor 0 stands for whatever the     *)
(* process has there; the loop polls it once sock is 0.                    *)
(***************************************************************************)
EXTENDS Naturals, Sequences

CONSTANTS Header,     (* bytes needed to know a message's size             *)
          BufSize,    (* the size of buf                                   *)
          Streams,    (* the streams the server may send                   *)
          QueueRoom,  (* how many messages async_queue takes               *)
          Modes,      (* TRUE: the client has a query_callback             *)
          Starts,     (* FALSE: the receiving thread may fail to start     *)
          Signals     (* a signal may interrupt poll                       *)

Ascending(s) == \A i, j \in DOMAIN s : i < j => s[i] < s[j]

ASSUME ConnectionAssumption == /\ Header \in Nat \ {0}
                               /\ BufSize \in Nat /\ Header <= BufSize
                               /\ Streams \subseteq Seq(Nat \ {0})
                               /\ \A s \in Streams : Ascending(s)
                               /\ QueueRoom \in Nat \ {0}
                               /\ Modes \subseteq BOOLEAN
                               /\ Starts \in BOOLEAN
                               /\ Signals \in BOOLEAN

VARIABLES stream, async,        (* what this connection is                 *)
          kpc,                  (* where the connecting thread is          *)
          connected,            (* history: the connection was reported    *)
          sent, peer,           (* bytes arrived; open, eof or reset       *)
          sock, fd,             (* client->sock is the socket, or 0; the   *)
                                (* socket itself is open, or closed        *)
          active,
          rpc, revents,         (* where the receiving thread is; poll's   *)
          read,                 (* bytes read                              *)
          bcnt, msize, mcnt,    (* bytes in buf; msize is 0 without a msg  *)
          out,                  (* messages handed over: [at, size]        *)
          queued,               (* messages in async_queue                 *)
          reported,             (* history: a lost connection was reported *)
          cpc                   (* where the closing thread is             *)

setting == <<stream, async>>
opening == <<kpc, connected>>
given == <<setting, opening>>
network == <<sent, peer>>
partial == <<read, bcnt, msize, mcnt>>
handed == <<out, queued>>
vars == <<given, network, sock, fd, active, rpc, revents, partial, handed, reported, cpc>>

Init == /\ stream \in Streams /\ async \in Modes
        /\ sent = 0 /\ peer = "open"
        /\ sock = "socket" /\ fd = "open"
        /\ kpc = "connect" /\ connected = FALSE
        /\ active = FALSE
        /\ rpc = "unborn" /\ revents = {}
        /\ read = 0 /\ bcnt = 0 /\ msize = 0 /\ mcnt = 0
        /\ out = <<>> /\ queued = 0
        /\ reported = FALSE
        /\ cpc = "idle"

(* Where the k-th message starts, and its size.                            *)
Offset(k) == IF k = 1 THEN 0 ELSE stream[k - 1]
Size(k) == Offset(k + 1) - Offset(k)
Total == Offset(Len(stream) + 1)

(* opo_msg_bsize: the size of the message that starts at this byte of the  *)
(* stream, or any size where no message starts.                            *)
SizesAt(at) == LET here == {k \in DOMAIN stream : Offset(k) = at}
               IN  IF here = {} THEN 1 .. Total ELSE {Size(k) : k \in here}
Least(m, n) == IF m < n THEN m ELSE n
-----------------------------------------------------------------------------
(* The network and the server (external) *)

Up == kpc \in {"start", "tell", "up"}

Arrive == /\ Up
          /\ peer = "open"
          /\ sent < Total
          /\ sent' \in sent + 1 .. Total
          /\ UNCHANGED <<given, peer, sock, fd, active, rpc, revents, partial, handed, reported, cpc>>

PeerEnds == /\ Up
            /\ peer = "open"
            /\ peer' \in {"eof", "reset"}
            /\ UNCHANGED <<given, sent, sock, fd, active, rpc, revents, partial, handed, reported, cpc>>
-----------------------------------------------------------------------------
(* opo_client_connect *)

(* The address, the socket or the connect fails: there is no client.       *)
ConnectFails == /\ kpc = "connect"
                /\ kpc' = "failed"
                /\ UNCHANGED <<setting, connected, network, sock, fd, active, rpc, revents, partial, handed, reported, cpc>>

(* The socket is connected and the client made, active before the thread   *)
(* is there.                                                               *)
Connect == /\ kpc = "connect"
           /\ kpc' = "start"
           /\ active' = TRUE
           /\ UNCHANGED <<setting, connected, network, sock, fd, rpc, revents, partial, handed, reported, cpc>>

(* pthread_create; when it fails the client is returned all the same.      *)
Start(born) == /\ kpc = "start"
               /\ kpc' = "tell"
               /\ rpc' = IF born THEN "poll" ELSE rpc
               /\ active' = born
               /\ UNCHANGED <<setting, connected, network, sock, fd, revents, partial, handed, reported, cpc>>

(* The connection is reported unless the receiving thread gave it up.      *)
Tell == /\ kpc = "tell"
        /\ kpc' = "up"
        /\ connected' = (connected \/ sock = "socket")
        /\ UNCHANGED <<setting, network, sock, fd, active, rpc, revents, partial, handed, reported, cpc>>

GoOnConnecting == Connect \/ (\E born \in {TRUE, Starts} : Start(born)) \/ Tell
-----------------------------------------------------------------------------
(* recv_loop *)

ReceiverAt(from, to) == rpc = from /\ rpc' = to

(* A connection lost is reported, by some branches only while active.      *)
Report(always) == reported' = (reported \/ always \/ active)

(* Seeded defect: a message under way keeps the loop going.                *)
LoopingForMsg == active \/ msize > 0

Looping == active

LoopEnds == /\ ReceiverAt("poll", "done")
            /\ ~Looping
            /\ UNCHANGED <<given, network, sock, fd, active, revents, partial, handed, reported, cpc>>

PollFails == /\ ReceiverAt("poll", "done")
             /\ Looping
             /\ Signals
             /\ reported' = TRUE
             /\ UNCHANGED <<given, network, sock, fd, active, revents, partial, handed, cpc>>

(* What poll finds; nothing is a timeout.                                  *)
Revents == CASE sock = "zero" -> SUBSET {"in", "err", "hup", "nval"}
             [] sock = "socket" /\ fd = "closed" -> {{"nval"}}
             [] sock = "socket" /\ fd = "open" ->
                  CASE peer = "reset" -> {{"in", "err"}, {"in", "err", "hup"}}
                    [] peer # "reset" /\ (sent > read \/ peer = "eof") -> {{"in"}}
                    [] OTHER -> {{}}

Poll == /\ rpc = "poll"
        /\ Looping
        /\ revents' \in Revents \ {{}}
        /\ rpc' = IF "in" \in revents' THEN "recv" ELSE "events"
        /\ UNCHANGED <<given, network, sock, fd, active, partial, handed, reported, cpc>>

Fails == sock = "zero" \/ fd = "closed" \/ (peer = "reset" /\ sent = read)

(* The first bytes of a message go to buf, behind what is left there.      *)
RecvFails == /\ ReceiverAt("recv", "events")
             /\ msize = 0
             /\ Fails
             /\ Report(FALSE)
             /\ UNCHANGED <<given, network, sock, fd, active, revents, partial, handed, cpc>>

(* Seeded defect: the end of the stream not reported.                      *)
RecvEndSilently == /\ ReceiverAt("recv", "zero")
                   /\ msize = 0
                   /\ ~Fails /\ sent = read
                   /\ fd' = "closed"
                   /\ UNCHANGED <<given, network, sock, active, revents, partial, handed, reported, cpc>>

RecvEnd == /\ ReceiverAt("recv", "zero")
           /\ msize = 0
           /\ ~Fails /\ sent = read
           /\ Report(FALSE)
           /\ fd' = "closed"
           /\ UNCHANGED <<given, network, sock, active, revents, partial, handed, cpc>>

(* Seeded defect: what is in buf already not taken off its size.           *)
RecvSomeUnbounded == /\ ReceiverAt("recv", "cut")
                     /\ msize = 0
                     /\ ~Fails /\ sent > read
                     /\ LET n == Least(BufSize, sent - read)
                        IN  read' = read + n /\ bcnt' = bcnt + n
                     /\ UNCHANGED <<given, network, sock, fd, active, revents, msize, mcnt, handed, reported, cpc>>

RecvSome == /\ ReceiverAt("recv", "cut")
            /\ msize = 0
            /\ ~Fails /\ sent > read
            /\ LET n == Least(BufSize - bcnt, sent - read)
               IN  read' = read + n /\ bcnt' = bcnt + n
            /\ UNCHANGED <<given, network, sock, fd, active, revents, msize, mcnt, handed, reported, cpc>>

(* process_msg or queue_push; the push waits for room.                     *)
HandOver(at, size) == /\ out' = Append(out, [at |-> at, size |-> size])
                      /\ IF async THEN queued < QueueRoom /\ queued' = queued + 1
                                  ELSE queued' = queued

CutEnds == /\ ReceiverAt("cut", "events")
           /\ bcnt < Header
           /\ UNCHANGED <<given, network, sock, fd, active, revents, partial, handed, reported, cpc>>

(* Seeded defect: what follows the message in buf is dropped.              *)
CutForgetsRest == /\ rpc = "cut"
                  /\ bcnt >= Header
                  /\ \E size \in SizesAt(read - bcnt) :
                       size <= bcnt /\ HandOver(read - bcnt, size)
                  /\ bcnt' = 0
                  /\ UNCHANGED <<given, network, sock, fd, active, rpc, revents, read, msize, mcnt, reported, cpc>>

(* Seeded defect: one message for every read.                              *)
CutOnce == /\ ReceiverAt("cut", "events")
           /\ bcnt >= Header
           /\ \E size \in SizesAt(read - bcnt) :
                size <= bcnt /\ HandOver(read - bcnt, size) /\ bcnt' = bcnt - size
           /\ UNCHANGED <<given, network, sock, fd, active, revents, read, msize, mcnt, reported, cpc>>

(* A message that is in buf as a whole.                                    *)
CutWhole == /\ rpc = "cut"
            /\ bcnt >= Header
            /\ \E size \in SizesAt(read - bcnt) :
                 size <= bcnt /\ HandOver(read - bcnt, size) /\ bcnt' = bcnt - size
            /\ UNCHANGED <<given, network, sock, fd, active, rpc, revents, read, msize, mcnt, reported, cpc>>

(* Seeded defect: the part in buf not taken into account.                  *)
CutPartUncounted == /\ rpc = "cut"
                    /\ bcnt >= Header
                    /\ \E size \in SizesAt(read - bcnt) : size > bcnt /\ msize' = size
                    /\ mcnt' = 0
                    /\ bcnt' = 0
                    /\ UNCHANGED <<given, network, sock, fd, active, rpc, revents, read, handed, reported, cpc>>

(* A message that goes on: the rest is read into a msg of its own.         *)
CutPart == /\ rpc = "cut"
           /\ bcnt >= Header
           /\ \E size \in SizesAt(read - bcnt) : size > bcnt /\ msize' = size
           /\ mcnt' = bcnt
           /\ bcnt' = 0
           /\ UNCHANGED <<given, network, sock, fd, active, rpc, revents, read, handed, reported, cpc>>

RestFails == /\ ReceiverAt("recv", "zero")
             /\ msize > 0
             /\ Fails
             /\ Report(TRUE)
             /\ fd' = IF sock = "socket" THEN "closed" ELSE fd
             /\ UNCHANGED <<given, network, sock, active, revents, partial, handed, cpc>>

(* The end of the stream reads as no bytes, and changes nothing.           *)
RestSome == /\ rpc = "recv"
            /\ msize > 0
            /\ ~Fails
            /\ LET n == Least(msize - mcnt, sent - read)
               IN  read' = read + n /\ mcnt' = mcnt + n
            /\ rpc' = IF mcnt' = msize THEN "give" ELSE "events"
            /\ UNCHANGED <<given, network, sock, fd, active, revents, bcnt, msize, handed, reported, cpc>>

Give == /\ ReceiverAt("give", "events")
        /\ HandOver(read - msize, msize)
        /\ msize' = 0 /\ mcnt' = 0
        /\ UNCHANGED <<given, network, sock, fd, active, revents, read, bcnt, reported, cpc>>

(* sock is set to 0 after the socket was closed.                           *)
ZeroSock == /\ ReceiverAt("zero", "events")
            /\ sock' = "zero"
            /\ UNCHANGED <<given, network, fd, active, revents, partial, handed, reported, cpc>>

Quiet == /\ ReceiverAt("events", "poll")
         /\ revents \cap {"err", "hup", "nval"} = {}
         /\ UNCHANGED <<given, network, sock, fd, active, revents, partial, handed, reported, cpc>>

(* The connection is gone with no message under way: sock is set to 0, the *)
(* socket is not closed.                                                   *)
GoneIdle == /\ ReceiverAt("events", "poll")
            /\ revents \cap {"err", "hup", "nval"} # {}
            /\ bcnt = 0 /\ msize = 0
            /\ Report(FALSE)
            /\ sock' = "zero"
            /\ UNCHANGED <<given, network, fd, active, revents, partial, handed, cpc>>

(* The same in the middle of a message, hung up or not.                    *)
GoneMidway == /\ ReceiverAt("events", "poll")
              /\ revents \cap {"hup", "nval"} # {}
              /\ bcnt > 0 \/ msize > 0
              /\ Report(TRUE)
              /\ sock' = "zero"
              /\ UNCHANGED <<given, network, fd, active, revents, partial, handed, cpc>>

SocketError == /\ rpc = "events"
               /\ revents \cap {"err", "hup", "nval"} = {"err"}
               /\ bcnt > 0 \/ msize > 0
               /\ Report(TRUE)
               /\ fd' = IF sock = "socket" THEN "closed" ELSE fd
               /\ rpc' = "drop"
               /\ UNCHANGED <<given, network, sock, active, revents, partial, handed, cpc>>

Drop == /\ ReceiverAt("drop", "poll")
        /\ sock' = "zero"
        /\ UNCHANGED <<given, network, fd, active, revents, partial, handed, reported, cpc>>

Work == \/ LoopEnds
        \/ RecvFails \/ RecvEnd   \/ RecvSome
        \/ CutEnds   \/ CutWhole  \/ CutPart
        \/ RestFails \/ RestSome  \/ Give
        \/ ZeroSock  \/ Quiet     \/ GoneIdle \/ GoneMidway \/ SocketError \/ Drop
Receive == PollFails \/ Poll \/ Work
-----------------------------------------------------------------------------
(* opo_client_process, when there is a query_callback                      *)
Consume == /\ queued > 0
           /\ queued' = queued - 1
           /\ UNCHANGED <<given, network, sock, fd, active, rpc, revents, partial, out, reported, cpc>>

(* opo_client_close *)
CloserAt(from, to) == cpc = from /\ cpc' = to

Close == /\ CloserAt("idle", "test")
         /\ kpc = "up"
         /\ active' = FALSE
         /\ UNCHANGED <<given, network, sock, fd, rpc, revents, partial, handed, reported>>

CloseTest == /\ cpc = "test"
             /\ cpc' = IF sock = "socket" THEN "shut" ELSE "join"
             /\ UNCHANGED <<given, network, sock, fd, active, rpc, revents, partial, handed, reported>>

(* sock is read again for the close.                                       *)
CloseShut == /\ CloserAt("shut", "join")
             /\ fd' = IF sock = "socket" THEN "closed" ELSE fd
             /\ UNCHANGED <<given, network, sock, active, rpc, revents, partial, handed, reported>>

(* The close reports, waits for the receiving thread and frees the client. *)
CloseJoin == /\ CloserAt("join", "gone")
             /\ rpc = "done"
             /\ UNCHANGED <<given, network, sock, fd, active, rpc, revents, partial, handed, reported>>

(* A thread that never was is waited for: undefined, the join may return.  *)
CloseJoinUnborn == /\ CloserAt("join", "gone")
                   /\ rpc = "unborn"
                   /\ UNCHANGED <<given, network, sock, fd, active, rpc, revents, partial, handed, reported>>

GoOnClosing == CloseTest \/ CloseShut \/ CloseJoin
-----------------------------------------------------------------------------
Next == \/ Arrive \/ PeerEnds
        \/ ConnectFails \/ GoOnConnecting
        \/ Receive \/ Consume
        \/ Close \/ GoOnClosing \/ CloseJoinUnborn

Spec == Init /\ [][Next]_vars

(* The receiving thread runs, but no signal has to come and nothing on     *)
(* descriptor 0; a connect or a close once begun goes on.                  *)
Fairness == /\ WF_vars(Work \/ (Poll /\ sock = "socket"))
            /\ WF_vars(GoOnConnecting)
            /\ WF_vars(GoOnClosing)

FairSpec == Spec /\ Fairness
-----------------------------------------------------------------------------
(* Type correctness.                                                       *)
TypeOK == /\ stream \in Streams /\ async \in BOOLEAN
          /\ sent \in 0 .. Total /\ read \in 0 .. Total
          /\ peer \in {"open", "eof", "reset"}
          /\ sock \in {"socket", "zero"} /\ fd \in {"open", "closed"}
          /\ active \in BOOLEAN /\ reported \in BOOLEAN /\ connected \in BOOLEAN
          /\ kpc \in {"connect", "failed", "start", "tell", "up"}
          /\ rpc \in {"unborn", "poll", "recv", "cut", "give", "zero", "drop", "events", "done"}
          /\ revents \subseteq {"in", "err", "hup", "nval"}
          /\ bcnt \in 0 .. BufSize
          /\ msize \in Nat /\ mcnt \in 0 .. msize
          /\ queued \in 0 .. QueueRoom
          /\ cpc \in {"idle", "test", "shut", "join", "gone"}

(* However the bytes come, the messages handed over are those the server   *)
(* sent, from the first on, none twice, none left out and none cut.        *)
Framed == /\ Len(out) <= Len(stream)
          /\ \A k \in DOMAIN out : out[k] = [at |-> Offset(k), size |-> Size(k)]

(* Every byte read is in a message handed over, in buf or in msg, and what *)
(* waits there is the beginning of the next message.                       *)
BytesAccounted == /\ read = Offset(Len(out) + 1) + bcnt + mcnt
                  /\ msize > 0 => bcnt = 0 /\ msize = Size(Len(out) + 1)
                  /\ rpc \in {"poll", "recv"} => bcnt < Header /\ (msize > 0 => mcnt < msize)

(* The thread waits for room in async_queue.                               *)
Stuck == async /\ queued = QueueRoom

Arrived(k) == k <= Len(stream) /\ sent >= Offset(k + 1)

(* Reasons for a message that arrived not to be handed over: the client is *)
(* closed, the connection was reset or the thread has ended or is stuck.   *)
Excused == ~active \/ peer = "reset" \/ rpc = "done" \/ Stuck

(* What arrived is handed over: a message of which the last byte and the   *)
(* first Header bytes, be they its own or the next one's, are there.       *)
MessagesArrive ==
    \A k \in 1 .. 3 :
        Arrived(k) /\ sent >= Offset(k) + Header ~> Len(out) >= k \/ Excused

(* A response that has arrived is handed over to get to its callback, on a *)
(* connection that stays open.                                             *)
ShortMessagesArrive ==
    \A k \in 1 .. 3 : Arrived(k) ~> Len(out) >= k \/ Excused \/ peer # "open"

(* The end of the connection is reported when the peer resets it, or ends  *)
(* it between two messages.                                                *)
EndReported == peer = "reset" \/ (peer = "eof" /\ \E k \in 1 .. Len(stream) + 1 : sent = Offset(k))
                  ~> reported \/ ~active \/ Stuck

(* opo_client_close returns, as long as async_queue does not stay full and *)
(* there is a thread to wait for.                                          *)
CloseReturns == []<>~Stuck => (cpc = "test" /\ rpc # "unborn" ~> cpc = "gone")

(* When opo_client_connect returns a client, its user was told that it is  *)
(* connected or that the connection is lost, whichever thread was first.   *)
ConnectionTold == kpc = "up" => connected \/ reported
=============================================================================
