---------------------------- MODULE GetTransfer ----------------------------
(***************************************************************************)
(* One GET between the worker that serves it and the client thread that    *)
(* asked for it: response_get, the ACK branch of the server's main loop    *)
(* with incoming_ack, the retransmission timer and its signal handler, and *)
(* request_get, over two UDP channels.  The run starts when the worker     *)
(* enters response_get and the client waits for the answer to its request; *)
(* it ends when both have left their functions.  Connection set-up and     *)
(* tear-down and the choice of the worker are not part of it.              *)
(*                                                                         *)
(* The threads of the server share wnd, usable_wnd and the timer.  Each    *)
(* critical section under wnd_lock is one step; what the code does outside *)
(* the lock (the test of usable_wnd, arm_timer, the signal handler) are    *)
(* steps of their own.  usable_wnd is WND - Len(wnd).  SendWindow shows    *)
(* that the critical sections may be taken for one step.                   *)
(***************************************************************************)
EXTENDS Windows, SequencesExt

CONSTANTS ExactMultiple,  \* the file size is a multiple of PAYLOAD
          Cap,            \* datagrams a socket's receive buffer holds
          Reorder,        \* the network may reorder datagrams
          Faults          \* system calls (fopen, sendto) may fail

ASSUME GetAssumption ==
  /\ ExactMultiple \in BOOLEAN
  /\ N = 0 => ExactMultiple
  /\ Cap \in Nat \ {0}
  /\ Reorder \in BOOLEAN
  /\ Faults \in BOOLEAN

VARIABLES pc,        \* control state of response_get
          missing,   \* the requested file does not exist
          next,      \* the next packet that was never sent
          wnd,       \* wnd[thread]
          armed,     \* timerid[thread] is running
          handler,   \* control state of timeout_handler
          rtx,       \* the packet retransmission has fetched
          lastAck,   \* last_ack_received of the client node
          dup,       \* ack_counter of the client node
          crashed,   \* the server dereferenced a NULL packet
          client,    \* control state of the client thread
          rcvNext,   \* rcv_next of request_get
          buff,      \* rcv_buffer of request_get
          writes,    \* the packets request_get has given to fwrite
          toClient,  \* datagrams in transit to the client
          toServer   \* ack_num of the ACKs in transit to the server

channels   == <<toClient, toServer>>
workerVars == <<pc, missing, next>>
timerVars  == <<armed, handler, rtx>>
ackVars    == <<lastAck, dup>>
clientVars == <<client, rcvNext, buff, writes>>
vars == <<workerVars, wnd, timerVars, ackVars, crashed, clientVars, channels>>

\* The last packet the fread loop sends: a file whose size is a multiple of
\* PAYLOAD reaches its end in one more, empty, read.  The packet of line 334
\* comes behind it.
LoopLast == IF ExactMultiple THEN N + 1 ELSE N
Eof      == LoopLast + 1
Packets  == 0..Eof
AckNums  == 0..(N + 1)

MessageTypes == {"ACK", "DATA", "ERROR"}
Messages     == [type : MessageTypes, n : Packets]

WorkerStates  == {"open", "size", "firstPut", "firstArm", "firstWait", "read",
                  "put", "check", "arm", "full", "eof", "eofPut", "eofWait",
                  "returned"}
HandlerStates == {"idle", "fired", "sending"}
ClientStates  == {"request", "size", "data", "done", "error", "failed",
                  "corrupt"}

\* An ack_counter of 3 or more that was never set can only grow.
NeverThree == 3

----------------------------------------------------------------------------
\* sendto: loss_with_prob or a full socket buffer loses the datagram.
Transmit(channel, m, lost) ==
  IF lost \/ Len(channel) = Cap THEN channel ELSE Append(channel, m)

\* recvfrom takes the oldest datagram, or any if the network reorders.
Deliverable(channel) ==
  {i \in DOMAIN channel : i = 1 \/ Reorder}

\* The packet of the window with the type it was created with.
PacketMessage(p) == [type |-> IF missing THEN "ERROR" ELSE "DATA", n |-> p]

SendPacket(p, lost) ==
  toClient' = Transmit(toClient, PacketMessage(p), lost)

Init ==
  /\ pc = "open"
  /\ missing \in BOOLEAN
  /\ next = 0
  /\ wnd = << >>
  /\ armed = FALSE
  /\ handler = "idle"
  /\ rtx = 0
  /\ lastAck \in AckNums        \* insert_client sets neither of the two
  /\ dup \in 0..NeverThree
  /\ crashed = FALSE
  /\ client = "request"
  /\ rcvNext = 0
  /\ buff = << >>
  /\ writes = << >>
  /\ toClient = << >>
  /\ toServer = << >>

----------------------------------------------------------------------------
\* The worker: response_get.

\* The file exists: acknowledge the request.
AcceptRequest(lost) ==
  /\ pc = "open" /\ ~missing
  /\ toClient' = Transmit(toClient, [type |-> "ACK", n |-> 0], lost)
  /\ pc' = "size"
  /\ UNCHANGED <<missing, next, wnd, timerVars, ackVars, crashed, clientVars,
                 toServer>>

\* ENOENT: the ERROR packet takes the place of the first packet.
SendError(lost) ==
  /\ pc = "open" /\ missing
  /\ SendPacket(0, lost)
  /\ next' = 1
  /\ pc' = "firstPut"
  /\ UNCHANGED <<missing, wnd, timerVars, ackVars, crashed, clientVars,
                 toServer>>

\* The three send_packet of the transfer: file size, data, end of file.
SendNext(from, to, lost) ==
  /\ pc = from
  /\ SendPacket(next, lost)
  /\ next' = next + 1
  /\ pc' = to
  /\ UNCHANGED <<missing, wnd, timerVars, ackVars, crashed, clientVars,
                 toServer>>

SendSize(lost) == SendNext("size", "firstPut", lost)
SendData(lost) == SendNext("read", "put", lost)
SendEof(lost)  == SendNext("eof", "eofPut", lost)

\* fopen or sendto fails: the worker returns and leaves everything as it is.
GiveUp ==
  /\ Faults
  /\ pc \in {"open", "size", "read", "eof"}
  /\ pc' = "returned"
  /\ UNCHANGED <<missing, next, wnd, timerVars, ackVars, crashed, clientVars,
                 channels>>

\* update_window, under wnd_lock, of the packet sent last.
PutInWindow(from, to) ==
  /\ pc = from
  /\ wnd' = UpdateWindow(wnd, next - 1)
  /\ pc' = to
  /\ UNCHANGED <<missing, next, timerVars, ackVars, crashed, clientVars,
                 channels>>

PutFirst == PutInWindow("firstPut", "firstArm")
PutData  == PutInWindow("put", "check")
PutEof   == PutInWindow("eofPut", "eofWait")

\* arm_timer, outside the lock.
ArmTimer(from, to) ==
  /\ pc = from
  /\ armed' = TRUE
  /\ pc' = to
  /\ UNCHANGED <<missing, next, wnd, handler, rtx, ackVars, crashed,
                 clientVars, channels>>

ArmFirst == ArmTimer("firstArm", "firstWait")
ArmData  == ArmTimer("arm", "full")

\* Line 322: the only packet in the window?
CheckWindow ==
  /\ pc = "check"
  /\ pc' = IF Len(wnd) = 1 THEN "arm" ELSE "full"
  /\ UNCHANGED <<missing, next, wnd, timerVars, ackVars, crashed, clientVars,
                 channels>>

\* A polling loop of the worker ends.
WaitUntil(from, condition, to) ==
  /\ pc = from
  /\ condition
  /\ pc' = to
  /\ UNCHANGED <<missing, next, wnd, timerVars, ackVars, crashed, clientVars,
                 channels>>

FirstAcked == WaitUntil("firstWait", wnd = << >>,
                        IF missing THEN "returned" ELSE "read")
NotFullUnchecked == WaitUntil("full", TRUE,                           \* faulty
                              IF next <= LoopLast THEN "read" ELSE "eof")
NotFull    == WaitUntil("full", Len(wnd) < WND,
                        IF next <= LoopLast THEN "read" ELSE "eof")
AllAcked   == WaitUntil("eofWait", wnd = << >>, "returned")

Worker(lost) ==
  \/ AcceptRequest(lost) \/ SendError(lost)
  \/ SendSize(lost) \/ SendData(lost) \/ SendEof(lost)
  \/ PutFirst \/ PutData \/ PutEof
  \/ ArmFirst \/ ArmData \/ CheckWindow
  \/ FirstAcked \/ NotFull \/ AllAcked

----------------------------------------------------------------------------
\* The main thread: the ACK branch of its loop, with incoming_ack.

\* The third duplicate in a row resends the base of the window.
FastRetransmission(ack) == ack = lastAck /\ dup = 2

\* ack_counter and last_ack_received.
CountAck(ack) ==
  /\ lastAck' = ack
  /\ dup' = IF ack # lastAck \/ dup = 2 THEN 0
            ELSE IF dup < 2 THEN dup + 1 ELSE NeverThree

\* incoming_ack disarms the timer when i packets are acked and arms it again
\* for the ones that are left; a fast retransmission disarms it, and arms it
\* again if the base was resent.
TimerAfterAckOff(ack, resent, i) == i = 0 /\ armed                    \* faulty
TimerAfterAck(ack, resent, i) ==
  IF i # 0 THEN i < Len(wnd)
           ELSE IF FastRetransmission(ack) THEN resent ELSE armed

IncomingAck(lost) ==
  \E m \in Deliverable(toServer) : LET ack == toServer[m] IN
  /\ toServer' = RemoveAt(toServer, m)
  /\ CountAck(ack)
  /\ UNCHANGED <<workerVars, handler, rtx, clientVars>>
  /\ \/ /\ FastRetransmission(ack) /\ wnd = << >>      \* send_packet(NULL)
        /\ crashed' = TRUE
        /\ armed' = FALSE
        /\ UNCHANGED <<wnd, toClient>>
     \/ /\ FastRetransmission(ack) => wnd # << >>
        /\ UNCHANGED crashed
        /\ \E resent \in BOOLEAN, i \in 0..Len(wnd) :
             /\ resent => FastRetransmission(ack)
             /\ FastRetransmission(ack) => resent \/ Faults    \* sendto fails
             /\ IF resent THEN SendPacket(Head(wnd), lost) ELSE UNCHANGED toClient
             /\ AckedPackets(wnd, ack, i)
             /\ wnd' = RefreshWindow(wnd, i)
             /\ armed' = TimerAfterAck(ack, resent, i)

----------------------------------------------------------------------------
\* The timer and the signal handler: timeout_handler, retransmission.

\* The timer expires.  The handler is done before the timer, armed again,
\* can expire the next time: that takes a second or more.
Expire ==
  /\ armed /\ handler = "idle"
  /\ armed' = FALSE
  /\ handler' = "fired"
  /\ UNCHANGED <<workerVars, wnd, rtx, ackVars, crashed, clientVars, channels>>

\* Without wnd_lock: the base of the window, NULL if the window is empty.
FetchBase ==
  /\ handler = "fired"
  /\ IF wnd = << >>
     THEN crashed' = TRUE /\ handler' = "idle" /\ UNCHANGED rtx
     ELSE rtx' = Head(wnd) /\ handler' = "sending" /\ UNCHANGED crashed
  /\ UNCHANGED <<workerVars, wnd, armed, ackVars, clientVars, channels>>

\* Resend the base and arm the timer again.
Resend(lost) ==
  /\ handler = "sending"
  /\ SendPacket(rtx, lost)
  /\ handler' = "idle"
  /\ armed' = TRUE
  /\ UNCHANGED <<workerVars, wnd, rtx, ackVars, crashed, clientVars, toServer>>

\* sendto fails: the handler returns before it arms the timer.
ResendFails ==
  /\ Faults
  /\ handler = "sending"
  /\ handler' = "idle"
  /\ UNCHANGED <<workerVars, wnd, armed, rtx, ackVars, crashed, clientVars,
                 channels>>

----------------------------------------------------------------------------
\* The client: the wait for the answer and request_get.

SendAck(ack, lost) == toServer' = Transmit(toServer, ack, lost)

\* While it waits for the answer the client drops everything but an ACK of
\* the request and an ERROR.
ClientAnswer(m, lost) ==
  /\ client = "request"
  /\ \/ m.type = "ACK"   /\ client' = "size" /\ UNCHANGED toServer
     \/ m.type = "ERROR" /\ client' = "error" /\ SendAck(rcvNext, lost)
     \/ m.type = "DATA"  /\ UNCHANGED <<client, toServer>>
  /\ UNCHANGED <<rcvNext, buff, writes>>

\* The file size.
ClientSize(m, lost) ==
  /\ client = "size"
  /\ IF SeqNum(m.n) = rcvNext
     THEN /\ rcvNext' = SeqAfter(m.n)
          /\ SendAck(rcvNext', lost)
          /\ client' = "data"
     ELSE UNCHANGED <<rcvNext, toServer, client>>
  /\ UNCHANGED <<buff, writes>>

\* The expected packet is empty: the end, unless packets are still buffered.
ClientEnd(m, lost) ==
  /\ client = "data" /\ SeqNum(m.n) = rcvNext /\ DataSize(m.n) = 0
  /\ IF buff = << >>
     THEN client' = "done" /\ UNCHANGED toServer
     ELSE SendAck(rcvNext, lost) /\ UNCHANGED client
  /\ UNCHANGED <<rcvNext, buff, writes>>

\* The expected packet with data: write it and the buffered packets behind.
\* A full buffer that drains to its end is read beyond its last element.
ClientInOrder(m, lost) ==
  /\ client = "data" /\ SeqNum(m.n) = rcvNext /\ DataSize(m.n) # 0
  /\ \E k \in 0..Len(buff) :
       /\ Drains(m.n, buff, k)
       /\ IF k = RWND
          THEN client' = "corrupt" /\ UNCHANGED <<rcvNext, buff, writes, toServer>>
          ELSE /\ rcvNext' = SeqAfter(IF k = 0 THEN m.n ELSE buff[k])
               /\ writes' = Append(writes, m.n) \o SubSeq(buff, 1, k)
               /\ buff' = ReorderBuffer(buff, k)
               /\ SendAck(rcvNext', lost)
               /\ UNCHANGED client

\* A packet ahead of the expected one: store_rwnd.  If it belongs in front of a
\* buffered one the loop goes on behind it, meets the packets it has moved, puts
\* it in front of each of them and ends only past the end of the buffer.
ClientOutOfOrder(m, lost) ==
  /\ client = "data" /\ SeqNum(m.n) > rcvNext
  /\ IF MustOrder(m.n, buff)
     THEN client' = "corrupt" /\ UNCHANGED <<buff, toServer>>
     ELSE /\ buff' = StoreRwnd(m.n, buff)
          /\ SendAck(rcvNext, lost)
          /\ UNCHANGED client
  /\ UNCHANGED <<rcvNext, writes>>

ClientDuplicate(m, lost) ==
  /\ client = "data" /\ SeqNum(m.n) < rcvNext
  /\ SendAck(rcvNext, lost)
  /\ UNCHANGED clientVars

ClientReceive(lost) ==
  \E i \in Deliverable(toClient) :
  /\ \/ ClientAnswer(toClient[i], lost)
     \/ ClientSize(toClient[i], lost)
     \/ ClientEnd(toClient[i], lost)
     \/ ClientInOrder(toClient[i], lost)
     \/ ClientOutOfOrder(toClient[i], lost)
     \/ ClientDuplicate(toClient[i], lost)
  /\ toClient' = RemoveAt(toClient, i)
  /\ UNCHANGED <<workerVars, wnd, timerVars, ackVars, crashed>>

\* send_ack fails: request_get returns 1 and the process exits.
ClientFails ==
  /\ Faults
  /\ client \in {"request", "size", "data"} /\ toClient # << >>
  /\ client' = "failed"
  /\ UNCHANGED <<workerVars, wnd, timerVars, ackVars, crashed, rcvNext, buff,
                 writes, channels>>

----------------------------------------------------------------------------
Server(lost) ==
  /\ ~crashed
  /\ Worker(lost) \/ IncomingAck(lost) \/ Resend(lost)

Next ==
  \/ \E lost \in BOOLEAN : Server(lost) \/ ClientReceive(lost)
  \/ ~crashed /\ (Expire \/ FetchBase \/ ResendFails \/ GiveUp)
  \/ ClientFails

Spec == Init /\ [][Next]_vars

----------------------------------------------------------------------------
(***************************************************************************)
(* Every thread keeps running and an armed timer expires.  A datagram that *)
(* is sent again and again is not lost for ever.                           *)
(***************************************************************************)
AckArrives == ClientReceive(FALSE) /\ Len(toServer) < Cap
ResendArrives == ~crashed /\ Resend(FALSE) /\ Len(toClient) < Cap

Fairness ==
  /\ WF_vars(\E lost \in BOOLEAN : ~crashed /\ Worker(lost))
  /\ WF_vars(\E lost \in BOOLEAN : ~crashed /\ IncomingAck(lost))
  /\ WF_vars(~crashed /\ (Expire \/ FetchBase))
  /\ WF_vars(\E lost \in BOOLEAN : ~crashed /\ Resend(lost))
  /\ WF_vars(\E lost \in BOOLEAN : ClientReceive(lost))
  /\ SF_vars(ResendArrives)
  /\ SF_vars(AckArrives)

FairSpec == Spec /\ Fairness

----------------------------------------------------------------------------
(***************************************************************************)
(* Properties.                                                             *)
(***************************************************************************)

\* Types of the variables and the capacity of every buffer: neither the
\* transmission window nor the receive buffer is ever overrun.
TypeOK ==
  /\ pc \in WorkerStates
  /\ missing \in BOOLEAN
  /\ next \in 0..(Eof + 1)
  /\ wnd \in Seq(Packets) /\ Len(wnd) <= WND
  /\ armed \in BOOLEAN
  /\ handler \in HandlerStates
  /\ rtx \in Packets
  /\ lastAck \in AckNums
  /\ dup \in 0..NeverThree
  /\ crashed \in BOOLEAN
  /\ client \in ClientStates
  /\ rcvNext \in AckNums
  /\ buff \in Seq(Packets) /\ Len(buff) <= RWND
  /\ writes \in Seq(Packets)
  /\ toClient \in Seq(Messages) /\ Len(toClient) <= Cap
  /\ toServer \in Seq(AckNums) /\ Len(toServer) <= Cap

\* What is on the client's disk: the chunks of the file, each once, in order.
Delivered == SubSeq(writes, 1, IF Len(writes) < N THEN Len(writes) ELSE N)

\* The written bytes are a prefix of the file (a write of an empty packet
\* adds none), and rcv_next, which every ACK carries, counts exactly them:
\* the client never acknowledges a byte it has not written (request_get).
WrittenIsAcked ==
  /\ \A i \in DOMAIN writes :
       IF i <= N THEN writes[i] = i ELSE DataSize(writes[i]) = 0
  /\ client \in {"data", "done"} => rcvNext = Len(Delivered) + 1

\* What refresh_window has discarded was acknowledged: the client expects a
\* later sequence number (windows.c:17-18).
DiscardedIsReceived ==
  \A p \in 0..(next - 1) :
    \/ SeqAfter(p) <= rcvNext
    \/ \E i \in DOMAIN wnd : wnd[i] = p
    \/ p = next - 1 /\ pc \in {"firstPut", "put", "eofPut"}

\* store_rwnd only ever appends: the receive buffer holds packets ahead of
\* rcv_next in increasing order, is never full, and so its loops stay inside
\* the array and the next gap is always in front of its first element.
BufferAhead ==
  /\ client # "corrupt"
  /\ Len(buff) < RWND
  /\ \A i \in DOMAIN buff : SeqNum(buff[i]) > rcvNext
  /\ \A i, j \in DOMAIN buff : i < j => buff[i] < buff[j]

\* Whenever a packet other than the last empty one is outstanding, something
\* will resend it: the timer runs, or its handler does, or the worker is
\* about to start it (the test and arm_timer are outside wnd_lock).
OutstandingIsTimed ==
  \/ wnd \in {<< >>, <<Eof>>}
  \/ armed
  \/ handler # "idle"
  \/ pc = "firstArm"
  \/ pc \in {"check", "arm"} /\ Len(wnd) = 1
  \/ crashed

Stream == INSTANCE ReliableStream WITH Length <- N, file <- Delivered

\* The client's file grows as ReliableStream says.
ImplementsStream == Stream!Spec

\* Once the request was answered, the whole file is written in spite of
\* losses, unless the server crashed.
FileArrives == client \in {"size", "data"} ~> (rcvNext = N + 1 \/ crashed)

----------------------------------------------------------------------------
(***************************************************************************)
(* Statements of the code's comments that the code does not keep.          *)
(***************************************************************************)

\* server.c:67 "Fetch the packet to retransmit": there is one when the timer has
\* expired and retransmission is about to fetch it.
PacketToRetransmit == handler = "fired" => wnd # << >>

\* server.c:344 "Wait for ACK until every packet is correctly received":
\* the client has received every packet, the wait ends.
WorkerSeesEnd == client = "done" ~> (pc = "returned" \/ crashed)
=============================================================================
