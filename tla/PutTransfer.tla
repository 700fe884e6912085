---------------------------- MODULE PutTransfer ----------------------------
(***************************************************************************)
(* One PUT between the client thread that asked for it and the worker that *)
(* serves it: request_put with its ack_thread and the client's timer, over *)
(* two UDP channels, the main loop of the server that hands every packet   *)
(* to the worker, and response_put.  The run starts when the worker enters *)
(* response_put and the client waits for the answer to its request; it     *)
(* ends when both have left their functions.                               *)
(*                                                                         *)
(* The roles are those of a GET with the ends exchanged, and three things  *)
(* are different.  The client's timer is armed again by an ACK only: its   *)
(* handler resends one packet, once.  That packet is not the head of the   *)
(* window but the one that the node base points to.  And the server's      *)
(* socket is read by main, which passes a packet on with mux_free and      *)
(* mux_avb; mux_free is locked until the worker has used the packet.       *)
(*                                                                         *)
(* The file is not changed while it is sent, so no chunk is empty.         *)
(* rtx_pack of the client's node is left out: it holds packets numbered 0  *)
(* only, and what its memory held before, which is taken not to be the     *)
(* number the worker expects.                                              *)
(***************************************************************************)
EXTENDS Windows, SequencesExt, Integers

CONSTANTS Cap,      \* datagrams a socket's receive buffer holds
          Reorder,  \* the network may reorder datagrams
          Faults    \* system calls (fopen, sendto) may fail

ASSUME PutAssumption ==
  /\ Cap \in Nat \ {0}
  /\ Reorder \in BOOLEAN
  /\ Faults \in BOOLEAN

VARIABLES pc,        \* control state of the client thread
          next,      \* the next packet that was never sent
          wnd,       \* wnd of request_put
          base,      \* the packet that trans_base points to
          acker,     \* control state of ack_thread
          lastAck,   \* last_ack
          dup,       \* acks
          armed,     \* the client's timer is running
          handler,   \* control state of timeout_handler
          main,      \* control state of the server's main loop
          held,      \* pk_rcv
          free,      \* mux_free[thread] is unlocked
          avb,       \* mux_avb[thread] is unlocked
          pack,      \* pack of the client's node
          server,    \* control state of response_put
          rcvNext,   \* rcv_next[thread]
          buff,      \* rcv_buffer of response_put
          writes,    \* the packets response_put has given to fwrite
          toServer,  \* packets in transit to the server
          toClient,  \* ack_num of the ACKs in transit to the client
          losses     \* history: datagrams lost or not sent so far, up to ManyLosses

senderVars  == <<pc, next>>
windowVars  == <<wnd, base>>
ackVars     == <<acker, lastAck, dup>>
timerVars   == <<armed, handler>>
mainVars    == <<main, held>>
muxVars     == <<free, avb>>
fileVars    == <<rcvNext, buff, writes>>
serverVars  == <<server, fileVars>>
clientVars  == <<senderVars, windowVars, ackVars, timerVars>>
vars == <<clientVars, mainVars, muxVars, pack, serverVars, toServer, toClient,
          losses>>

\* The packet of the request comes before the one of the size, 0; NULL is none.
Request == -1
Null    == -2
Packets == Request..N
AckNums == 0..(N + 1)

\* last_ack is 0 at first, which is the number of no packet.
NoAck == -1

ManyLosses == 2

ClientStates  == {"request", "size", "sizeWait", "send", "put", "full", "join",
                  "returned", "failed"}
AckerStates   == {"off", "recv", "exited"}
HandlerStates == {"idle", "fired", "sending", "crashed"}
MainStates    == {"recv", "store"}
ServerStates  == {"accept", "size", "data", "returned", "corrupt"}

----------------------------------------------------------------------------
\* sendto: loss_with_prob or a full socket buffer loses the datagram.
Dropped(channel, lost) == lost \/ Len(channel) = Cap

CountLoss(dropped) ==
  losses' = IF dropped /\ losses < ManyLosses THEN losses + 1 ELSE losses

SendPacket(p, lost) ==
  /\ toServer' = IF Dropped(toServer, lost) THEN toServer ELSE Append(toServer, p)
  /\ CountLoss(Dropped(toServer, lost))

SendAck(ack, lost) ==
  /\ toClient' = IF Dropped(toClient, lost) THEN toClient ELSE Append(toClient, ack)
  /\ CountLoss(Dropped(toClient, lost))

\* recvfrom takes the oldest datagram, or any if the network reorders.
Deliverable(channel) == {i \in DOMAIN channel : i = 1 \/ Reorder}

Init ==
  /\ pc = "request" /\ next = 0
  /\ wnd = << >> /\ base = Request
  /\ acker = "off" /\ lastAck = NoAck /\ dup = 0
  /\ armed = TRUE /\ handler = "idle"
  /\ main = "recv" /\ held = Request
  /\ free = TRUE /\ avb = FALSE          \* thread_service has used the request
  /\ pack = Request
  /\ server = "accept" /\ rcvNext = 0 /\ buff = << >> /\ writes = << >>
  /\ toServer = << >> /\ toClient = << >> /\ losses = 0

----------------------------------------------------------------------------
\* The client thread: the wait for the answer, and request_put.

\* A datagram is received; what the state waits for is the ACK number ack.
Await(from, ack, to) ==
  /\ pc = from
  /\ \E i \in Deliverable(toClient) :
       /\ toClient' = RemoveAt(toClient, i)
       /\ IF toClient[i] = ack THEN pc' = to /\ armed' = FALSE
                               ELSE UNCHANGED <<pc, armed>>
  /\ UNCHANGED <<next, windowVars, lastAck, dup, handler, mainVars, muxVars,
                 pack, serverVars, toServer, losses>>

RequestAcked == Await("request", 0, "size") /\ UNCHANGED acker

\* The ACK of the size; then ack_thread is created.
SizeAcked ==
  /\ Await("sizeWait", 1, IF N = 0 THEN "join" ELSE "send")
  /\ acker' = IF pc' = pc THEN acker ELSE "recv"

\* The size goes into base and not into the window.
SendSize(lost) ==
  /\ pc = "size"
  /\ SendPacket(0, lost)
  /\ base' = 0
  /\ armed' = TRUE
  /\ next' = 1
  /\ pc' = "sizeWait"
  /\ UNCHANGED <<wnd, ackVars, handler, mainVars, muxVars, pack, serverVars,
                 toClient>>

SendChunk(lost) ==
  /\ pc = "send"
  /\ SendPacket(next, lost)
  /\ next' = next + 1
  /\ pc' = "put"
  /\ UNCHANGED <<windowVars, ackVars, timerVars, mainVars, muxVars, pack,
                 serverVars, toClient>>

\* The base that a window has once p is its last packet, if it was empty.
BaseAfterPutStale(p) == base                                          \* faulty
BaseAfterPut(p) == IF wnd = << >> THEN p ELSE base

\* Under wnd_mux: update_window, and base and the timer for an only packet.
PutChunk ==
  /\ pc = "put"
  /\ wnd' = UpdateWindow(wnd, next - 1)
  /\ base' = BaseAfterPut(next - 1)
  /\ armed' = (armed \/ wnd = << >>)
  /\ pc' = "full"
  /\ UNCHANGED <<next, ackVars, handler, mainVars, muxVars, pack, serverVars,
                 toServer, toClient, losses>>

GoOnUnchecked == pc' = IF next <= N THEN "send" ELSE "join"           \* faulty
GoOn ==
  /\ Len(wnd) < WND
  /\ pc' = IF next <= N THEN "send" ELSE "join"

NotFull ==
  /\ pc = "full"
  /\ GoOn
  /\ UNCHANGED <<next, windowVars, ackVars, timerVars, mainVars, muxVars,
                 pack, serverVars, toServer, toClient, losses>>

\* pthread_join, and free of the last packet.
Join ==
  /\ pc = "join" /\ acker = "exited"
  /\ pc' = "returned"
  /\ UNCHANGED <<next, windowVars, ackVars, timerVars, mainVars, muxVars,
                 pack, serverVars, toServer, toClient, losses>>

\* send_packet fails: request_put returns 1 and the process exits.
ClientFails ==
  /\ Faults
  /\ pc \in {"size", "send"}
  /\ pc' = "failed"
  /\ UNCHANGED <<next, windowVars, ackVars, timerVars, mainVars, muxVars,
                 pack, serverVars, toServer, toClient, losses>>

ClientThread(lost) ==
  \/ RequestAcked \/ SendSize(lost) \/ SizeAcked
  \/ SendChunk(lost) \/ PutChunk \/ NotFull \/ Join

----------------------------------------------------------------------------
\* ack_thread, with incoming_ack and the change of base under wnd_mux.

\* The third duplicate in a row resends the base; the timer is not armed again.
FastRetransmission(ack) == ack = lastAck /\ dup = 2

CountAck(ack) ==
  /\ lastAck' = ack
  /\ dup' = IF ack # lastAck \/ dup = 2 THEN 0 ELSE dup + 1

\* ack_thread leaves with the ACK of the last byte.
LastAckEarly(ack) == ack = N                                          \* faulty
LastAck(ack) == ack = N + 1

AckReceived(lost) ==
  /\ acker = "recv"
  /\ \E m \in Deliverable(toClient), i \in 0..Len(wnd) : LET ack == toClient[m] IN
       /\ toClient' = RemoveAt(toClient, m)
       /\ CountAck(ack)
       /\ IF FastRetransmission(ack) /\ base # Null
          THEN SendPacket(base, lost) ELSE UNCHANGED <<toServer, losses>>
       /\ AckedPackets(wnd, ack, i)
       /\ wnd' = RefreshWindow(wnd, i)
       /\ armed' = IF i # 0 THEN i < Len(wnd) ELSE armed /\ ~FastRetransmission(ack)
       /\ base' = IF wnd' = << >> THEN Null ELSE Head(wnd')
       /\ acker' = IF LastAck(ack) THEN "exited" ELSE "recv"
  /\ UNCHANGED <<senderVars, handler, mainVars, muxVars, pack, serverVars>>

----------------------------------------------------------------------------
\* The client's timer and its signal handler.

Expire ==
  /\ armed /\ handler = "idle"
  /\ armed' = FALSE
  /\ handler' = "fired"
  /\ UNCHANGED <<senderVars, windowVars, ackVars, mainVars, muxVars, pack,
                 serverVars, toServer, toClient, losses>>

\* Without wnd_mux: is there a packet at base?
CheckBase ==
  /\ handler = "fired"
  /\ handler' = IF base = Null THEN "idle" ELSE "sending"
  /\ UNCHANGED <<senderVars, windowVars, ackVars, armed, mainVars, muxVars, pack,
                 serverVars, toServer, toClient, losses>>

\* base may point to a packet that the thread has freed: the request, or the last
\* one.  It may also be NULL by now, since it is read again to be sent.
Freed(p) ==
  \/ p = Request /\ pc # "request"
  \/ p = N /\ pc = "returned"
Dangling == base = Null \/ Freed(base)

\* The handler resends it and does not arm the timer again.
Resend(lost) ==
  /\ handler = "sending" /\ ~Dangling
  /\ SendPacket(base, lost)
  /\ handler' = "idle"
  /\ UNCHANGED <<senderVars, windowVars, ackVars, armed, mainVars, muxVars, pack,
                 serverVars, toClient>>

\* It crashes, and the client is not followed further; or, if the memory holds what
\* was received there, or base the FIN by now, it sends that, which is no matter here.
ResendDangling ==
  /\ handler = "sending" /\ Dangling
  /\ \/ handler' = "crashed"
     \/ base # Null /\ handler' = "idle"
  /\ UNCHANGED <<senderVars, windowVars, ackVars, armed, mainVars, muxVars, pack,
                 serverVars, toServer, toClient, losses>>

----------------------------------------------------------------------------
\* The main thread of the server.

Receive ==
  /\ main = "recv"
  /\ \E i \in Deliverable(toServer) :
       /\ held' = toServer[i]
       /\ toServer' = RemoveAt(toServer, i)
  /\ main' = "store"
  /\ UNCHANGED <<clientVars, muxVars, pack, serverVars, toClient, losses>>

\* Lock mux_free, put the packet into the client's node, unlock mux_avb.
LockFreeNever == TRUE                                                 \* faulty
LockFree == free

Store ==
  /\ main = "store"
  /\ LockFree
  /\ free' = FALSE
  /\ avb' = TRUE
  /\ pack' = held
  /\ main' = "recv"
  /\ UNCHANGED <<clientVars, held, serverVars, toServer, toClient, losses>>

----------------------------------------------------------------------------
\* The worker: response_put.

\* The ACK of the request; then the file is opened.
AcceptPut(lost) ==
  /\ server = "accept"
  /\ SendAck(0, lost)
  /\ server' = "size"
  /\ UNCHANGED <<clientVars, mainVars, muxVars, pack, fileVars, toServer>>

\* send_ack or fopen fails and the worker returns.
RefusePut ==
  /\ Faults
  /\ server \in {"accept", "size"} /\ writes = << >>
  /\ server' = "returned"
  /\ UNCHANGED <<clientVars, mainVars, muxVars, pack, fileVars, toServer, toClient,
                 losses>>

\* The worker has locked mux_avb and used the packet.
UsePacket == avb /\ avb' = FALSE

\* It acknowledges what it expects next and unlocks mux_free.  If send_ack fails it
\* returns and leaves mux_free locked.
Answer(ack, state, lost) ==
  \/ /\ SendAck(ack, lost)
     /\ free' = TRUE
     /\ server' = state
  \/ /\ Faults
     /\ server' = "returned"
     /\ CountLoss(TRUE)
     /\ UNCHANGED <<free, toClient>>

\* Not even the repeated request is answered before the size has come.
PutSize(lost) ==
  /\ server = "size"
  /\ UsePacket
  /\ IF SeqNum(pack) = rcvNext
     THEN /\ rcvNext' = SeqAfter(pack)
          /\ Answer(rcvNext', IF N = 0 THEN "returned" ELSE "data", lost)
     ELSE free' = TRUE /\ UNCHANGED <<rcvNext, server, toClient, losses>>
  /\ UNCHANGED <<clientVars, mainVars, pack, buff, writes, toServer>>

\* The expected packet: write it and the buffered packets behind.  The loop ends
\* when as many bytes were written as the size packet said.
PutInOrder(lost) ==
  /\ server = "data" /\ SeqNum(pack) = rcvNext
  /\ UsePacket
  /\ \E k \in 0..Len(buff) :
       /\ Drains(pack, buff, k)
       /\ IF k = RWND
          THEN server' = "corrupt" /\ UNCHANGED <<fileVars, free, toClient, losses>>
          ELSE /\ rcvNext' = SeqAfter(IF k = 0 THEN pack ELSE buff[k])
               /\ writes' = Append(writes, pack) \o SubSeq(buff, 1, k)
               /\ buff' = ReorderBuffer(buff, k)
               /\ Answer(rcvNext', IF Len(writes') = N THEN "returned" ELSE "data", lost)
  /\ UNCHANGED <<clientVars, mainVars, pack, toServer>>

\* A packet ahead of it: store_rwnd, which never ends inside the buffer if the
\* packet belongs in front of a buffered one.
PutOutOfOrder(lost) ==
  /\ server = "data" /\ SeqNum(pack) > rcvNext
  /\ UsePacket
  /\ IF MustOrder(pack, buff)
     THEN server' = "corrupt" /\ UNCHANGED <<buff, free, toClient, losses>>
     ELSE buff' = StoreRwnd(pack, buff) /\ Answer(rcvNext, "data", lost)
  /\ UNCHANGED <<clientVars, mainVars, pack, rcvNext, writes, toServer>>

PutDuplicate(lost) ==
  /\ server = "data" /\ SeqNum(pack) < rcvNext
  /\ UsePacket
  /\ Answer(rcvNext, "data", lost)
  /\ UNCHANGED <<clientVars, mainVars, pack, fileVars, toServer>>

Worker(lost) ==
  \/ AcceptPut(lost) \/ PutSize(lost)
  \/ PutInOrder(lost) \/ PutOutOfOrder(lost) \/ PutDuplicate(lost)

----------------------------------------------------------------------------
\* Nothing of the client runs when it has exited or crashed; a server whose
\* receive buffer was overrun is not followed further.
ClientRuns == pc # "failed" /\ handler # "crashed"
ServerRuns == server # "corrupt"

Client(lost) ==
  ClientRuns /\ (ClientThread(lost) \/ AckReceived(lost) \/ Resend(lost))
Timer  == ClientRuns /\ (Expire \/ CheckBase \/ ResendDangling)
Server == ServerRuns /\ (Receive \/ Store)

Next ==
  \/ \E lost \in BOOLEAN : Client(lost) \/ (ServerRuns /\ Worker(lost))
  \/ Timer \/ Server
  \/ ClientFails \/ RefusePut

Spec == Init /\ [][Next]_vars

----------------------------------------------------------------------------
(***************************************************************************)
(* Every thread keeps running and an armed timer expires.  Of the channels *)
(* nothing is assumed: the liveness properties speak of few losses.        *)
(***************************************************************************)
Fairness ==
  /\ WF_vars(\E lost \in BOOLEAN : ClientRuns /\ ClientThread(lost))
  /\ WF_vars(\E lost \in BOOLEAN : ClientRuns /\ AckReceived(lost))
  /\ WF_vars(\E lost \in BOOLEAN : ClientRuns /\ Resend(lost))
  /\ WF_vars(Timer)
  /\ WF_vars(Server)
  /\ WF_vars(\E lost \in BOOLEAN : ServerRuns /\ Worker(lost))

FairSpec == Spec /\ Fairness

----------------------------------------------------------------------------
(***************************************************************************)
(* Properties.                                                             *)
(***************************************************************************)

TypeOK ==
  /\ pc \in ClientStates /\ next \in 0..(N + 1)
  /\ wnd \in Seq(Packets) /\ Len(wnd) <= WND
  /\ base \in Packets \cup {Null}
  /\ acker \in AckerStates /\ lastAck \in AckNums \cup {NoAck} /\ dup \in 0..2
  /\ armed \in BOOLEAN /\ handler \in HandlerStates
  /\ main \in MainStates /\ held \in Packets
  /\ free \in BOOLEAN /\ avb \in BOOLEAN /\ pack \in Packets
  /\ server \in ServerStates /\ rcvNext \in AckNums
  /\ buff \in Seq(Packets) /\ Len(buff) <= RWND
  /\ writes \in Seq(1..N)
  /\ toServer \in Seq(Packets) /\ Len(toServer) <= Cap
  /\ toClient \in Seq(AckNums) /\ Len(toClient) <= Cap
  /\ losses \in 0..ManyLosses

\* The bytes that response_put has written are a prefix of the file, and rcv_next,
\* which every ACK carries, counts exactly them once the size has come: the worker
\* never acknowledges a byte that it has not written (server.c:402-496).
WrittenIsAcked ==
  /\ \A i \in DOMAIN writes : writes[i] = i
  /\ IF rcvNext = 0 THEN writes = << >> ELSE rcvNext = Len(writes) + 1

Stream == INSTANCE ReliableStream WITH Length <- N, file <- writes

\* The server's file grows as ReliableStream says.
ImplementsStream == Stream!Spec

\* What refresh_window has discarded was acknowledged: every chunk sent is in the
\* window, or about to be put there, or the worker expects a later one
\* (client/windows.c:23-41, 152-190).
DiscardedIsReceived ==
  \A p \in 1..(next - 1) :
    \/ SeqAfter(p) <= rcvNext
    \/ \E i \in DOMAIN wnd : wnd[i] = p
    \/ p = next - 1 /\ pc = "put"

\* The receive buffer holds packets ahead of rcv_next in increasing order, and the
\* hand-over by main neither fills it nor repeats a packet: no packet is put in
\* front of another, and the loop of server.c:463 ends inside the array.
BufferAhead ==
  /\ server # "corrupt"
  /\ Len(buff) < RWND
  /\ \A i \in DOMAIN buff : SeqNum(buff[i]) > rcvNext
  /\ \A i, j \in DOMAIN buff : i < j => buff[i] < buff[j]

\* What the handler and a fast retransmission resend is the first packet of the
\* window, whenever there is one: base is kept by the thread and by ack_thread, and
\* each of them changes the window, too (client.c:144, 555).
BaseIsFirst == wnd # << >> => base = Head(wnd)

\* When the ACK of the last byte has made ack_thread leave, or request_put has
\* reported "Done uploading", the whole file is written (client.c:136, 579).
UploadedIsWritten == acker = "exited" \/ pc = "returned" => Len(writes) = N

----------------------------------------------------------------------------
\* A system call has failed, or the client has crashed.
Failed ==
  \/ ~ClientRuns
  \/ server = "returned" /\ Len(writes) < N

\* Every packet of a PUT is resent once: the file is written in spite of one loss,
\* whichever datagram it is.
FileUploaded ==
  pc = "size" ~> (rcvNext = N + 1 \/ losses > 1 \/ Failed)

\* Without a loss request_put returns, if the file is not empty.
UploadEnds ==
  pc = "size" /\ N > 0 ~> (pc = "returned" \/ losses > 0 \/ Failed)
=============================================================================
