-------------------------- MODULE PutTransferProofs --------------------------
(***************************************************************************)
(* Proofs of the properties of PutTransfer, for every size of the file, of *)
(* the windows and of the socket buffers: first those that hold on every   *)
(* network, then those that hold on one that keeps the order.              *)
(***************************************************************************)
EXTENDS PutTransfer, WindowLemmas

----------------------------------------------------------------------------
(***************************************************************************)
(* The inductive invariant.                                                *)
(***************************************************************************)

\* What each control state of the client thread implies for the packets sent, the
\* window and ack_thread.
PutControl ==
  /\ pc \in {"request", "size"} => next = 0 /\ wnd = << >> /\ acker = "off"
  /\ pc = "sizeWait" => next = 1 /\ wnd = << >> /\ acker = "off"
  /\ pc = "send" => next \in 1..N /\ Len(wnd) < WND
  /\ pc = "put"  => next \in 2..(N + 1) /\ Len(wnd) < WND
  /\ pc = "full" => next \in 2..(N + 1)
  /\ pc = "returned" => acker = "exited"

\* rcv_next counts what is written, no ACK is ahead of it, and ack_thread has left
\* only when everything is written.
PutWritten ==
  /\ server \in {"accept", "size"} => rcvNext = 0 /\ writes = << >>
  /\ server = "data" => rcvNext # 0
  /\ WrittenIsAcked
  /\ \A i \in DOMAIN toClient : toClient[i] <= rcvNext
  /\ acker = "exited" => Len(writes) = N

PutInv == TypeOK /\ PutControl /\ PutWritten /\ BaseIsFirst

----------------------------------------------------------------------------
(***************************************************************************)
(* Lemmas on the channels and the packets.                                 *)
(***************************************************************************)

\* Without a datagram that was received a channel is as it was.
LEMMA ChannelWithout ==
  ASSUME NEW S, NEW s \in Seq(S), Len(s) <= Cap, NEW i \in Deliverable(s)
  PROVE  /\ s[i] \in S /\ i \in DOMAIN s
         /\ RemoveAt(s, i) \in Seq(S) /\ Len(RemoveAt(s, i)) <= Cap
         /\ \A j \in DOMAIN RemoveAt(s, i) :
              \E k \in DOMAIN s : RemoveAt(s, i)[j] = s[k]
<1>1. Len(s) \in Nat /\ DOMAIN s = 1..Len(s) /\ i \in 1..Len(s)
  BY LenProperties DEF Deliverable
<1>2. /\ RemoveAt(s, i) \in Seq(S) /\ Len(RemoveAt(s, i)) = Len(s) - 1
      /\ \A j \in 1..(Len(s) - 1) :
           RemoveAt(s, i)[j] = IF j < i THEN s[j] ELSE s[j + 1]
  BY <1>1, RemoveAtProperties
<1>3. DOMAIN RemoveAt(s, i) = 1..(Len(s) - 1)
  BY <1>2, LenProperties
<1>4. ASSUME NEW j \in DOMAIN RemoveAt(s, i)
      PROVE  \E k \in DOMAIN s : RemoveAt(s, i)[j] = s[k]
  <2>1. j \in DOMAIN s /\ j + 1 \in DOMAIN s
    BY <1>1, <1>3
  <2>2. RemoveAt(s, i)[j] = s[j] \/ RemoveAt(s, i)[j] = s[j + 1]
    BY <1>2, <1>3
  <2> QED BY <2>1, <2>2
<1>5. s[i] \in S
  BY <1>1, ElementOfSeq
<1>6. Len(RemoveAt(s, i)) <= Cap
  BY <1>1, <1>2, PutAssumption
<1> QED BY <1>1, <1>2, <1>4, <1>5, <1>6

\* With one more, or not.
LEMMA ChannelWith ==
  ASSUME NEW S, NEW s \in Seq(S), Len(s) <= Cap, NEW m \in S, NEW lost \in BOOLEAN,
         NEW t, t = IF Dropped(s, lost) THEN s ELSE Append(s, m)
  PROVE  /\ t \in Seq(S) /\ Len(t) <= Cap
         /\ \A j \in DOMAIN t : t[j] = m \/ (j \in DOMAIN s /\ t[j] = s[j])
<1>1. Len(s) \in Nat /\ DOMAIN s = 1..Len(s)
  BY LenProperties
<1>2. CASE Dropped(s, lost)
  BY <1>2
<1>3. CASE ~ Dropped(s, lost)
  <2>1. t = Append(s, m) /\ Len(s) # Cap
    BY <1>3 DEF Dropped
  <2>2. /\ t \in Seq(S) /\ Len(t) = Len(s) + 1 /\ t[Len(s) + 1] = m
        /\ \A j \in 1..Len(s) : t[j] = s[j]
    BY <2>1, AppendProperties
  <2>3. DOMAIN t = 1..(Len(s) + 1)
    BY <2>2, LenProperties
  <2>4. Len(t) <= Cap
    <3> DEFINE n == Len(s)
    <3>1. n \in Nat /\ Cap \in Nat /\ n <= Cap /\ n # Cap /\ Len(t) = n + 1
      BY <1>1, <2>1, <2>2, PutAssumption
    <3> HIDE DEF n
    <3> QED BY <3>1
  <2>5. ASSUME NEW j \in DOMAIN t
        PROVE  t[j] = m \/ (j \in DOMAIN s /\ t[j] = s[j])
    <3>1. j \in 1..Len(s) \/ j = Len(s) + 1
      BY <1>1, <2>3
    <3>2. CASE j \in 1..Len(s)
      <4>1. t[j] = s[j] /\ j \in DOMAIN s
        BY <1>1, <2>2, <3>2
      <4> QED BY <4>1
    <3>3. CASE j = Len(s) + 1
      BY <2>2, <3>3
    <3> QED BY <3>1, <3>2, <3>3
  <2> QED BY <2>2, <2>4, <2>5
<1> QED BY <1>2, <1>3

\* No packet of a PUT is empty.
LEMMA PacketNumbers ==
  ASSUME NEW p \in Packets
  PROVE  p \in Int /\ p <= N /\ SeqNum(p) = p /\ SeqAfter(p) = p + 1 /\ p + 1 \in AckNums
BY WindowsAssumption DEF Packets, Request, SeqNum, SeqAfter, DataSize, AckNums

\* The lemmas on windows are about sequences of integers.
LEMMA PacketsAreNumbers ==
  ASSUME NEW s \in Seq(Packets)
  PROVE  s \in Seq(Int)
<1>1. Packets \subseteq Int
  BY PacketNumbers
<1> QED BY <1>1, WiderSequence

\* What the client sends is appended or lost, and a loss is counted.
LEMMA SendPacketType ==
  ASSUME TypeOK, NEW p \in Packets, NEW lost \in BOOLEAN, SendPacket(p, lost)
  PROVE  /\ toServer' \in Seq(Packets) /\ Len(toServer') <= Cap
         /\ losses' \in 0..ManyLosses
<1>1. losses' \in 0..ManyLosses
  BY DEF SendPacket, CountLoss, ManyLosses, TypeOK
<1>2. toServer' \in Seq(Packets) /\ Len(toServer') <= Cap
  BY ChannelWith DEF SendPacket, TypeOK
<1> QED BY <1>1, <1>2

\* An ACK that is not ahead of rcv_next keeps all of them so.
LEMMA SendAckType ==
  ASSUME TypeOK, NEW ack \in AckNums, NEW lost \in BOOLEAN, SendAck(ack, lost)
  PROVE  /\ toClient' \in Seq(AckNums) /\ Len(toClient') <= Cap
         /\ losses' \in 0..ManyLosses
         /\ \A j \in DOMAIN toClient' :
              toClient'[j] = ack \/ (j \in DOMAIN toClient /\ toClient'[j] = toClient[j])
<1>1. losses' \in 0..ManyLosses
  BY DEF SendAck, CountLoss, ManyLosses, TypeOK
<1>2. /\ toClient' \in Seq(AckNums) /\ Len(toClient') <= Cap
      /\ \A j \in DOMAIN toClient' :
           toClient'[j] = ack \/ (j \in DOMAIN toClient /\ toClient'[j] = toClient[j])
  BY ChannelWith DEF SendAck, TypeOK
<1> QED BY <1>1, <1>2

\* At first nothing was sent, and the window is empty.
LEMMA PutInit == Init => PutInv
<1> SUFFICES ASSUME Init PROVE PutInv
  OBVIOUS
<1>1. /\ << >> \in Seq(Packets) /\ << >> \in Seq(AckNums) /\ << >> \in Seq(1..N)
      /\ Len(<< >>) = 0 /\ DOMAIN << >> = {}
  BY EmptySeq
<1>2. TypeOK
  <2>1. /\ pc \in ClientStates /\ acker \in AckerStates /\ handler \in HandlerStates
        /\ main \in MainStates /\ server \in ServerStates
    BY DEF Init, ClientStates, AckerStates, HandlerStates, MainStates, ServerStates
  <2>2. /\ next \in 0..(N + 1) /\ base \in Packets \cup {Null} /\ dup \in 0..2
        /\ lastAck \in AckNums \cup {NoAck} /\ held \in Packets /\ pack \in Packets
        /\ rcvNext \in AckNums /\ losses \in 0..ManyLosses
    BY WindowsAssumption DEF Init, Packets, AckNums, Request, ManyLosses
  <2>3. /\ wnd \in Seq(Packets) /\ Len(wnd) <= WND
        /\ buff \in Seq(Packets) /\ Len(buff) <= RWND /\ writes \in Seq(1..N)
        /\ toServer \in Seq(Packets) /\ Len(toServer) <= Cap
        /\ toClient \in Seq(AckNums) /\ Len(toClient) <= Cap
    BY <1>1, WindowsAssumption, PutAssumption DEF Init
  <2>4. armed \in BOOLEAN /\ free \in BOOLEAN /\ avb \in BOOLEAN
    BY DEF Init
  <2> QED BY <2>1, <2>2, <2>3, <2>4 DEF TypeOK
<1>3. PutControl /\ PutWritten /\ BaseIsFirst
  BY <1>1 DEF Init, PutControl, PutWritten, WrittenIsAcked, BaseIsFirst
<1> QED BY <1>2, <1>3 DEF PutInv

----------------------------------------------------------------------------
(***************************************************************************)
(* Steps of the client.                                                    *)
(***************************************************************************)

\* What is written does not change, and ACKs only leave their channel.
LEMMA WrittenByServer ==
  ASSUME PutInv, UNCHANGED serverVars,
         \A i \in DOMAIN toClient' : \E k \in DOMAIN toClient : toClient'[i] = toClient[k],
         acker' = "exited" => acker = "exited" \/ rcvNext = N + 1
  PROVE  PutWritten'
<1>1. server' = server /\ rcvNext' = rcvNext /\ writes' = writes
  BY DEF serverVars, fileVars
<1>2. \A i \in DOMAIN toClient' : toClient'[i] <= rcvNext
  BY DEF PutInv, PutWritten
<1>3. rcvNext = N + 1 => Len(writes) = N
  <2>1. Len(writes) \in Nat
    BY LenProperties DEF PutInv, TypeOK
  <2> QED BY <2>1, WindowsAssumption DEF PutInv, PutWritten, WrittenIsAcked
<1> QED BY <1>1, <1>2, <1>3 DEF PutInv, PutWritten, WrittenIsAcked

\* A received ACK.
LEMMA AwaitFacts ==
  ASSUME PutInv, NEW from, NEW ack, NEW to, Await(from, ack, to)
  PROVE  /\ pc = from /\ pc' \in {from, to} /\ armed' \in BOOLEAN
         /\ toClient' \in Seq(AckNums) /\ Len(toClient') <= Cap
         /\ \A i \in DOMAIN toClient' :
              \E k \in DOMAIN toClient : toClient'[i] = toClient[k]
         /\ UNCHANGED <<next, windowVars, lastAck, dup, handler, mainVars, muxVars,
                        pack, serverVars, toServer, losses>>
<1>1. PICK i \in Deliverable(toClient) : toClient' = RemoveAt(toClient, i)
  BY DEF Await
<1>2. /\ toClient' \in Seq(AckNums) /\ Len(toClient') <= Cap
      /\ \A j \in DOMAIN toClient' :
           \E k \in DOMAIN toClient : toClient'[j] = toClient[k]
  BY <1>1, ChannelWithout DEF PutInv, TypeOK
<1>3. pc = from /\ pc' \in {from, to} /\ armed' \in BOOLEAN
  BY DEF Await, PutInv, TypeOK
<1> QED BY <1>2, <1>3 DEF Await

\* Every step of request_put, and its failure, keeps PutInv.
LEMMA PutClientThread ==
  ASSUME PutInv, NEW lost \in BOOLEAN, ClientThread(lost) \/ ClientFails
  PROVE  PutInv'
<1> USE DEF PutInv, ClientStates, senderVars, windowVars, ackVars, timerVars, mainVars,
            muxVars, fileVars, serverVars
<1>0. /\ wnd \in Seq(Packets) /\ Len(wnd) \in Nat /\ (wnd = << >> <=> Len(wnd) = 0)
      /\ next \in 0..(N + 1) /\ N \in Nat /\ WND \in Nat \ {0}
  BY LenProperties, EmptySeq, WindowsAssumption DEF TypeOK
<1>1. CASE RequestAcked
  <2>1. /\ pc = "request" /\ pc' \in {"request", "size"} /\ armed' \in BOOLEAN
        /\ acker' = acker
        /\ toClient' \in Seq(AckNums) /\ Len(toClient') <= Cap
        /\ \A i \in DOMAIN toClient' :
             \E k \in DOMAIN toClient : toClient'[i] = toClient[k]
        /\ UNCHANGED <<next, windowVars, lastAck, dup, handler, mainVars, muxVars,
                       pack, serverVars, toServer, losses>>
    BY <1>1, AwaitFacts DEF RequestAcked
  <2>2. TypeOK'
    BY <2>1 DEF TypeOK
  <2>3. PutControl' /\ BaseIsFirst'
    BY <2>1 DEF PutControl, BaseIsFirst
  <2> QED BY <2>1, <2>2, <2>3, WrittenByServer
<1>2. CASE SizeAcked
  <2> DEFINE to == IF N = 0 THEN "join" ELSE "send"
  <2>1. /\ pc = "sizeWait" /\ pc' \in {"sizeWait", to} /\ armed' \in BOOLEAN
        /\ toClient' \in Seq(AckNums) /\ Len(toClient') <= Cap
        /\ \A i \in DOMAIN toClient' :
             \E k \in DOMAIN toClient : toClient'[i] = toClient[k]
        /\ UNCHANGED <<next, windowVars, lastAck, dup, handler, mainVars, muxVars,
                       pack, serverVars, toServer, losses>>
    BY <1>2, AwaitFacts DEF SizeAcked
  <2>2. acker' = IF pc' = pc THEN acker ELSE "recv"
    BY <1>2 DEF SizeAcked
  <2>3. TypeOK'
    BY <2>1, <2>2 DEF TypeOK, AckerStates
  <2>4. PutControl' /\ BaseIsFirst'
    <3>1. next = 1 /\ wnd = << >> /\ acker = "off"
      BY <2>1 DEF PutControl
    <3> QED BY <1>0, <2>1, <2>2, <3>1 DEF PutControl, BaseIsFirst
  <2> QED BY <2>1, <2>2, <2>3, <2>4, WrittenByServer
<1>3. CASE SendSize(lost)
  <2>1. pc = "size" /\ next = 0 /\ wnd = << >> /\ acker = "off"
    BY <1>3 DEF SendSize, PutControl
  <2>2. 0 \in Packets
    BY WindowsAssumption DEF Packets, Request
  <2>3. /\ toServer' \in Seq(Packets) /\ Len(toServer') <= Cap
        /\ losses' \in 0..ManyLosses
    BY <1>3, <2>2, SendPacketType DEF SendSize
  <2>4. TypeOK'
    BY <1>0, <1>3, <2>2, <2>3 DEF SendSize, TypeOK
  <2>5. PutControl' /\ BaseIsFirst'
    BY <1>3, <2>1 DEF SendSize, PutControl, BaseIsFirst
  <2> QED BY <1>3, <2>4, <2>5, WrittenByServer DEF SendSize
<1>4. CASE SendChunk(lost)
  <2>1. pc = "send" /\ next \in 1..N /\ Len(wnd) < WND
    BY <1>4 DEF SendChunk, PutControl
  <2>2. next \in Packets
    BY <2>1, WindowsAssumption DEF Packets, Request
  <2>3. /\ toServer' \in Seq(Packets) /\ Len(toServer') <= Cap
        /\ losses' \in 0..ManyLosses
    BY <1>4, <2>2, SendPacketType DEF SendChunk
  <2>4. TypeOK'
    BY <1>0, <1>4, <2>1, <2>3 DEF SendChunk, TypeOK
  <2>5. PutControl' /\ BaseIsFirst'
    BY <1>0, <1>4, <2>1 DEF SendChunk, PutControl, BaseIsFirst
  <2> QED BY <1>4, <2>4, <2>5, WrittenByServer DEF SendChunk
<1>5. CASE PutChunk
  <2>1. /\ pc = "put" /\ next \in 2..(N + 1) /\ Len(wnd) < WND
        /\ wnd' = Append(wnd, next - 1)
        /\ base' = IF wnd = << >> THEN next - 1 ELSE base
    BY <1>5 DEF PutChunk, PutControl, UpdateWindow, BaseAfterPut
  <2>2. next - 1 \in Packets
    BY <1>0, <2>1 DEF Packets, Request
  <2>3. /\ wnd' \in Seq(Packets) /\ Len(wnd') = Len(wnd) + 1
        /\ \A j \in 1..Len(wnd) : wnd'[j] = wnd[j]
        /\ wnd'[Len(wnd) + 1] = next - 1
    BY <1>0, <2>1, <2>2, AppendProperties
  <2>4. Len(wnd') <= WND
    BY <1>0, <2>1, <2>3
  <2>5. TypeOK'
    <3>1. base' \in Packets \cup {Null} /\ armed' \in BOOLEAN
      BY <1>5, <2>1, <2>2 DEF PutChunk, TypeOK
    <3> QED BY <1>5, <2>3, <2>4, <3>1 DEF PutChunk, TypeOK
  <2>6. PutControl'
    BY <1>5, <2>1 DEF PutChunk, PutControl
  <2>7. BaseIsFirst'
    <3>1. Head(wnd') = wnd'[1]
      BY <1>0, <2>3, HeadIsFirst
    <3>2. CASE wnd = << >>
      BY <1>0, <2>1, <2>3, <3>1, <3>2 DEF BaseIsFirst
    <3>3. CASE wnd # << >>
      <4>1. Head(wnd) = wnd[1] /\ 1 \in 1..Len(wnd)
        BY <1>0, <3>3, HeadIsFirst
      <4> QED BY <2>1, <2>3, <3>1, <3>3, <4>1 DEF BaseIsFirst
    <3> QED BY <3>2, <3>3
  <2> QED BY <1>5, <2>5, <2>6, <2>7, WrittenByServer DEF PutChunk
<1>6. CASE NotFull
  <2>1. TypeOK'
    BY <1>6 DEF NotFull, GoOn, TypeOK
  <2>2. PutControl' /\ BaseIsFirst'
    BY <1>0, <1>6 DEF NotFull, GoOn, PutControl, BaseIsFirst
  <2> QED BY <1>6, <2>1, <2>2, WrittenByServer DEF NotFull
<1>7. CASE Join \/ ClientFails
  <2>1. TypeOK'
    BY <1>7 DEF Join, ClientFails, TypeOK
  <2>2. PutControl' /\ BaseIsFirst'
    BY <1>7 DEF Join, ClientFails, PutControl, BaseIsFirst
  <2> QED BY <1>7, <2>1, <2>2, WrittenByServer DEF Join, ClientFails
<1> QED BY <1>1, <1>2, <1>3, <1>4, <1>5, <1>6, <1>7 DEF ClientThread

\* incoming_ack in ack_thread.
LEMMA PutAckReceived ==
  ASSUME PutInv, NEW lost \in BOOLEAN, AckReceived(lost)
  PROVE  PutInv'
<1> USE DEF PutInv
<1>1. PICK m \in Deliverable(toClient), i \in 0..Len(wnd) :
        /\ toClient' = RemoveAt(toClient, m)
        /\ CountAck(toClient[m])
        /\ IF FastRetransmission(toClient[m]) /\ base # Null
           THEN SendPacket(base, lost) ELSE UNCHANGED <<toServer, losses>>
        /\ wnd' = RefreshWindow(wnd, i)
        /\ armed' = IF i # 0 THEN i < Len(wnd)
                    ELSE armed /\ ~FastRetransmission(toClient[m])
        /\ base' = IF wnd' = << >> THEN Null ELSE Head(wnd')
        /\ acker' = IF LastAck(toClient[m]) THEN "exited" ELSE "recv"
  BY DEF AckReceived
<1>2. /\ acker = "recv"
      /\ UNCHANGED <<senderVars, handler, mainVars, muxVars, pack, serverVars>>
  BY DEF AckReceived
<1> DEFINE ack == toClient[m]
<1>3. /\ ack \in AckNums /\ m \in DOMAIN toClient
      /\ toClient' \in Seq(AckNums) /\ Len(toClient') <= Cap
      /\ \A j \in DOMAIN toClient' :
           \E k \in DOMAIN toClient : toClient'[j] = toClient[k]
  BY <1>1, ChannelWithout DEF TypeOK
<1>4. /\ toServer' \in Seq(Packets) /\ Len(toServer') <= Cap
      /\ losses' \in 0..ManyLosses
  <2>1. CASE base # Null /\ SendPacket(base, lost)
    <3>1. base \in Packets
      BY <2>1 DEF TypeOK
    <3> QED BY <2>1, <3>1, SendPacketType
  <2>2. CASE UNCHANGED <<toServer, losses>>
    BY <2>2 DEF TypeOK
  <2> QED BY <1>1, <2>1, <2>2
<1>5. /\ wnd' \in Seq(Packets) /\ Len(wnd') <= Len(wnd) /\ Len(wnd) \in Nat
      /\ Len(wnd') \in Nat
  <2>1. wnd \in Seq(Packets) /\ Len(wnd) \in Nat
    BY LenProperties DEF TypeOK
  <2>2. wnd' \in Seq(Packets) /\ Len(wnd') = Len(wnd) - i
    BY <1>1, <2>1, SuffixProperties DEF RefreshWindow
  <2> QED BY <2>1, <2>2
<1>6. base' \in Packets \cup {Null} /\ BaseIsFirst'
  <2>1. wnd' # << >> => Head(wnd') \in Packets
    BY <1>5, HeadIsFirst
  <2> QED BY <1>1, <2>1 DEF BaseIsFirst
<1>7. lastAck' \in AckNums /\ dup' \in 0..2 /\ armed' \in BOOLEAN /\ acker' \in AckerStates
  <2>1. dup' \in 0..2 /\ lastAck' \in AckNums
    BY <1>1, <1>3 DEF CountAck, TypeOK
  <2>2. armed' \in BOOLEAN
    <3>1. \A n : (n < Len(wnd)) \in BOOLEAN
      BY SMT
    <3>2. (armed /\ ~FastRetransmission(ack)) \in BOOLEAN
      BY Zenon
    <3> QED BY <1>1, <3>1, <3>2, Zenon
  <2> QED BY <1>1, <2>1, <2>2 DEF AckerStates
<1> HIDE DEF ack
<1>8. TypeOK'
  <2>1. Len(wnd') <= WND
    BY <1>5, WindowsAssumption DEF TypeOK
  <2> QED BY <1>2, <1>3, <1>4, <1>5, <1>6, <1>7, <2>1
      DEF TypeOK, senderVars, mainVars, muxVars, serverVars, fileVars
<1>9. PutControl'
  <2>1. pc' = pc /\ next' = next
    BY <1>2 DEF senderVars
  <2>2. pc \notin {"request", "size", "sizeWait", "returned"}
    BY <1>2 DEF PutControl
  <2> QED BY <1>5, <2>1, <2>2, WindowsAssumption DEF PutControl
<1>10. PutWritten'
  <2>1. acker' = "exited" => rcvNext = N + 1
    <3>1. ack <= rcvNext
      BY <1>3 DEF PutWritten, ack
    <3>2. acker' = "exited" => ack = N + 1
      BY <1>1 DEF LastAck, ack
    <3>3. rcvNext \in 0..(N + 1) /\ N \in Nat
      BY WindowsAssumption DEF TypeOK, AckNums
    <3> QED BY <3>1, <3>2, <3>3
  <2> QED BY <1>2, <1>3, <2>1, WrittenByServer
<1> QED BY <1>6, <1>8, <1>9, <1>10

\* The handler of the timer, and main of the server, which hands a packet over.
LEMMA PutTimerAndMain ==
  ASSUME PutInv, NEW lost \in BOOLEAN, Resend(lost) \/ Timer \/ Server
  PROVE  PutInv'
<1> USE DEF PutInv, senderVars, windowVars, ackVars, timerVars, clientVars, mainVars,
            muxVars, fileVars, serverVars
<1>1. CASE Expire \/ CheckBase \/ ResendDangling
  <2>1. TypeOK'
    BY <1>1 DEF Expire, CheckBase, ResendDangling, TypeOK, HandlerStates
  <2>2. PutControl' /\ BaseIsFirst'
    BY <1>1 DEF Expire, CheckBase, ResendDangling, PutControl, BaseIsFirst
  <2> QED BY <1>1, <2>1, <2>2, WrittenByServer DEF Expire, CheckBase, ResendDangling
<1>2. CASE Resend(lost)
  <2>1. base \in Packets
    BY <1>2 DEF Resend, Dangling, TypeOK
  <2>2. /\ toServer' \in Seq(Packets) /\ Len(toServer') <= Cap
        /\ losses' \in 0..ManyLosses
    BY <1>2, <2>1, SendPacketType DEF Resend
  <2>3. TypeOK'
    BY <1>2, <2>2 DEF Resend, TypeOK, HandlerStates
  <2>4. PutControl' /\ BaseIsFirst'
    BY <1>2 DEF Resend, PutControl, BaseIsFirst
  <2> QED BY <1>2, <2>3, <2>4, WrittenByServer DEF Resend
<1>3. CASE Receive
  <2>1. PICK i \in Deliverable(toServer) :
          held' = toServer[i] /\ toServer' = RemoveAt(toServer, i)
    BY <1>3 DEF Receive
  <2>2. /\ held' \in Packets /\ toServer' \in Seq(Packets) /\ Len(toServer') <= Cap
    BY <2>1, ChannelWithout DEF TypeOK
  <2>3. TypeOK'
    BY <1>3, <2>2 DEF Receive, TypeOK, MainStates
  <2>4. PutControl' /\ BaseIsFirst'
    BY <1>3 DEF Receive, PutControl, BaseIsFirst
  <2> QED BY <1>3, <2>3, <2>4, WrittenByServer DEF Receive
<1>4. CASE Store
  <2>1. TypeOK'
    BY <1>4 DEF Store, TypeOK, MainStates
  <2>2. PutControl' /\ BaseIsFirst'
    BY <1>4 DEF Store, PutControl, BaseIsFirst
  <2> QED BY <1>4, <2>1, <2>2, WrittenByServer DEF Store
<1> QED BY <1>1, <1>2, <1>3, <1>4 DEF Timer, Server

----------------------------------------------------------------------------
(***************************************************************************)
(* Steps of the worker.                                                    *)
(***************************************************************************)

\* The ACK of the worker is sent, is lost, or fails and ends the worker.
LEMMA AnswerFacts ==
  ASSUME TypeOK, NEW ack \in AckNums, NEW state, NEW lost \in BOOLEAN,
         Answer(ack, state, lost)
  PROVE  /\ server' \in {state, "returned"} /\ free' \in BOOLEAN
         /\ losses' \in 0..ManyLosses
         /\ toClient' \in Seq(AckNums) /\ Len(toClient') <= Cap
         /\ \A j \in DOMAIN toClient' :
              toClient'[j] = ack \/ (j \in DOMAIN toClient /\ toClient'[j] = toClient[j])
<1>1. CASE SendAck(ack, lost) /\ free' = TRUE /\ server' = state
  BY <1>1, SendAckType
<1>2. CASE /\ server' = "returned" /\ CountLoss(TRUE)
           /\ UNCHANGED <<free, toClient>>
  <2>1. losses' \in 0..ManyLosses
    BY <1>2 DEF CountLoss, ManyLosses, TypeOK
  <2> QED BY <1>2, <2>1 DEF TypeOK
<1> QED BY <1>1, <1>2 DEF Answer

\* The buffered packets that follow packet p without a gap are p + 1, p + 2, ...
LEMMA DrainedChunks ==
  ASSUME TypeOK, NEW p \in Packets, NEW k \in Nat, Drains(p, buff, k)
  PROVE  k \in 0..Len(buff) /\ \A i \in 1..k : buff[i] = p + i
<1>1. k \in 0..Len(buff) /\ buff \in Seq(Int) /\ p \in Int
  BY PacketNumbers, PacketsAreNumbers DEF Drains, TypeOK
<1>2. ASSUME NEW i \in 1..k PROVE buff[i] = p + i
  <2>1. SeqNum(buff[i]) = SeqNum(p + i) /\ p + i \in Int
    BY <1>1, DrainedRun
  <2>2. buff[i] \in Packets
    BY <1>1, ElementOfSeq DEF TypeOK
  <2> QED BY <2>1, <2>2, PacketNumbers, SeqNumValue
<1> QED BY <1>1, <1>2

\* The expected packet and the run behind it are the next chunks.
LEMMA InOrderWrites ==
  ASSUME PutInv, server = "data", SeqNum(pack) = rcvNext, NEW k \in 0..Len(buff),
         Drains(pack, buff, k)
  PROVE  LET w == Append(writes, pack) \o SubSeq(buff, 1, k) IN
         /\ w \in Seq(1..N) /\ Len(w) > Len(writes) /\ Len(w) <= N
         /\ \A j \in DOMAIN w : w[j] = j
         /\ SeqAfter(IF k = 0 THEN pack ELSE buff[k]) = Len(w) + 1
<1> DEFINE a == Append(writes, pack)
           b == SubSeq(buff, 1, k)
           w == a \o b
<1>1. /\ writes \in Seq(1..N) /\ Len(writes) \in Nat /\ DOMAIN writes = 1..Len(writes)
      /\ \A j \in 1..Len(writes) : writes[j] = j
      /\ rcvNext = Len(writes) + 1
  BY LenProperties DEF PutInv, TypeOK, PutWritten, WrittenIsAcked
<1>2. pack \in Packets /\ pack = Len(writes) + 1 /\ pack \in 1..N
  <2>1. pack \in Packets /\ SeqNum(pack) = pack /\ pack <= N
    BY PacketNumbers DEF PutInv, TypeOK
  <2> QED BY <1>1, <2>1, WindowsAssumption
<1>3. /\ buff \in Seq(Packets) /\ Len(buff) \in Nat /\ k \in Nat
      /\ \A i \in 1..k : buff[i] = pack + i
      /\ \A i \in 1..k : buff[i] \in Packets
  <2>1. buff \in Seq(Packets) /\ Len(buff) \in Nat /\ k \in Nat
    BY LenProperties DEF PutInv, TypeOK
  <2>2. \A i \in 1..k : buff[i] = pack + i
    BY <1>2, <2>1, DrainedChunks DEF PutInv
  <2>3. \A i \in 1..k : buff[i] \in Packets
    BY <2>1, ElementOfSeq
  <2> QED BY <2>1, <2>2, <2>3
<1>4. \A i \in 1..k : buff[i] \in 1..N
  BY <1>2, <1>3, PacketNumbers, WindowsAssumption
<1>5. /\ a \in Seq(1..N) /\ Len(a) = pack
      /\ \A j \in 1..Len(writes) : a[j] = writes[j]
      /\ a[pack] = pack
  BY <1>1, <1>2, AppendProperties
<1>6. /\ b \in Seq(1..N) /\ Len(b) = k
      /\ \A j \in 1..k : b[j] = buff[j]
  <2>1. Len(b) = k /\ b \in Seq(Packets) /\ \A j \in 1..k : b[j] = buff[j]
    BY <1>3, PrefixProperties
  <2>2. DOMAIN b = 1..k /\ \A j \in 1..k : b[j] \in 1..N
    BY <1>4, <2>1, LenProperties
  <2>3. b = [j \in 1..k |-> b[j]]
    BY <2>1
  <2> HIDE DEF b
  <2>4. [j \in 1..k |-> b[j]] \in Seq(1..N)
    BY <1>3, <2>2
  <2> QED BY <2>1, <2>3, <2>4
<1> HIDE DEF a, b
<1>7. /\ w \in Seq(1..N) /\ Len(w) = pack + k
      /\ \A j \in 1..(pack + k) : w[j] = IF j <= pack THEN a[j] ELSE b[j - pack]
  <2>1. /\ a \o b \in Seq(1..N) /\ Len(a \o b) = Len(a) + Len(b)
        /\ \A j \in 1..(Len(a) + Len(b)) : (a \o b)[j] =
             IF j <= Len(a) THEN a[j] ELSE b[j - Len(a)]
    <3>1. a \in Seq(1..N) /\ b \in Seq(1..N)
      BY <1>5, <1>6
    <3> QED BY <3>1, ConcatProperties, Zenon
  <2>2. w = a \o b
    OBVIOUS
  <2> HIDE DEF w
  <2> QED BY <1>5, <1>6, <2>1, <2>2
<1> HIDE DEF w
<1>8. DOMAIN w = 1..(pack + k)
  BY <1>7, LenProperties
<1>9. ASSUME NEW j \in 1..(pack + k)
      PROVE  w[j] = j
  <2>1. CASE j < pack
    <3>1. j \in 1..Len(writes)
      BY <1>1, <1>2, <2>1
    <3> QED BY <1>1, <1>2, <1>5, <1>7, <2>1, <3>1
  <2>2. CASE j = pack
    BY <1>2, <1>5, <1>7, <2>2
  <2>3. CASE j > pack
    <3>1. j - pack \in 1..k
      BY <1>2, <1>3, <2>3
    <3>2. w[j] = b[j - pack] /\ b[j - pack] = buff[j - pack]
      BY <1>2, <1>6, <1>7, <2>3, <3>1
    <3> QED BY <1>2, <1>3, <3>1, <3>2
  <2> QED BY <1>2, <1>3, <2>1, <2>2, <2>3
<1>10. pack + k <= N /\ SeqAfter(IF k = 0 THEN pack ELSE buff[k]) = pack + k + 1
  <2>1. CASE k = 0
    BY <1>2, <2>1, PacketNumbers
  <2>2. CASE k # 0
    <3>1. k \in 1..k
      BY <1>3, <2>2
    <3>2. buff[k] = pack + k /\ buff[k] \in Packets
      BY <1>3, <3>1
    <3> QED BY <2>2, <3>2, PacketNumbers
  <2> QED BY <2>1, <2>2
<1>11. Len(w) > Len(writes) /\ Len(w) <= N
  BY <1>1, <1>2, <1>3, <1>7, <1>10
<1> QED BY <1>7, <1>8, <1>9, <1>10, <1>11 DEF w, a, b

\* Every step of response_put keeps PutInv, and the file never gets shorter.
LEMMA PutWorker ==
  ASSUME PutInv, NEW lost \in BOOLEAN, Worker(lost) \/ RefusePut
  PROVE  PutInv' /\ (writes' = writes \/ Len(writes) < Len(writes'))
<1> USE DEF PutInv, fileVars, serverVars, mainVars
<1>0. /\ UNCHANGED clientVars /\ UNCHANGED <<mainVars, pack, toServer>>
      /\ PutControl' /\ BaseIsFirst'
  <2>1. UNCHANGED clientVars /\ UNCHANGED <<mainVars, pack, toServer>>
    BY DEF Worker, AcceptPut, RefusePut, PutSize, PutInOrder, PutOutOfOrder, PutDuplicate
  <2>2. PutControl' /\ BaseIsFirst'
    BY <2>1 DEF PutControl, BaseIsFirst, clientVars, senderVars, windowVars, ackVars
  <2> QED BY <2>1, <2>2
<1>1. ASSUME /\ server' \in ServerStates /\ rcvNext' \in AckNums
             /\ buff' \in Seq(Packets) /\ Len(buff') <= RWND /\ writes' \in Seq(1..N)
             /\ toClient' \in Seq(AckNums) /\ Len(toClient') <= Cap
             /\ losses' \in 0..ManyLosses /\ free' \in BOOLEAN /\ avb' \in BOOLEAN
      PROVE  TypeOK'
  BY <1>0, <1>1 DEF TypeOK, clientVars, senderVars, windowVars, ackVars, timerVars
<1>2. ASSUME UNCHANGED <<rcvNext, writes>>,
             server' \in {server, "returned", "corrupt"},
             \A j \in DOMAIN toClient' :
               \/ toClient'[j] = rcvNext
               \/ j \in DOMAIN toClient /\ toClient'[j] = toClient[j]
      PROVE  PutWritten'
  <2>1. acker' = acker
    BY <1>0 DEF clientVars, ackVars
  <2>2. \A j \in DOMAIN toClient' : toClient'[j] <= rcvNext'
    <3>1. rcvNext <= rcvNext
      BY WindowsAssumption DEF TypeOK, AckNums
    <3>2. \A j \in DOMAIN toClient : toClient[j] <= rcvNext
      BY DEF PutWritten
    <3> QED BY <1>2, <3>1, <3>2
  <2>3. server' \in {"accept", "size", "data"} => server' = server
    BY <1>2
  <2> QED BY <1>2, <2>1, <2>2, <2>3 DEF PutWritten, WrittenIsAcked
<1>3. CASE AcceptPut(lost)
  <2>1. /\ server = "accept" /\ rcvNext = 0 /\ 0 \in AckNums
        /\ server' = "size"
        /\ UNCHANGED <<fileVars, muxVars>>
    BY <1>3, WindowsAssumption DEF AcceptPut, PutWritten, AckNums
  <2>2. /\ toClient' \in Seq(AckNums) /\ Len(toClient') <= Cap
        /\ losses' \in 0..ManyLosses
        /\ \A j \in DOMAIN toClient' :
             toClient'[j] = 0 \/ (j \in DOMAIN toClient /\ toClient'[j] = toClient[j])
    BY <1>3, <2>1, SendAckType DEF AcceptPut
  <2>3. TypeOK'
    BY <1>1, <2>1, <2>2 DEF TypeOK, ServerStates, muxVars
  <2>4. PutWritten'
    <3>1. acker' = acker
      BY <1>0 DEF clientVars, ackVars
    <3> QED BY <2>1, <2>2, <3>1 DEF PutWritten, WrittenIsAcked, TypeOK
  <2> QED BY <1>0, <2>1, <2>3, <2>4
<1>4. CASE RefusePut
  <2>1. server' = "returned" /\ UNCHANGED <<muxVars, fileVars, toClient, losses>>
    BY <1>4 DEF RefusePut
  <2>2. TypeOK'
    BY <1>1, <2>1 DEF TypeOK, ServerStates, muxVars
  <2>3. PutWritten'
    BY <1>2, <2>1
  <2> QED BY <1>0, <2>1, <2>2, <2>3
<1>5. CASE PutSize(lost)
  <2>1. /\ server = "size" /\ rcvNext = 0 /\ writes = << >> /\ pack \in Packets
        /\ avb' = FALSE /\ buff' = buff /\ writes' = writes
    BY <1>5 DEF PutSize, UsePacket, PutWritten, TypeOK
  <2>2. CASE SeqNum(pack) # rcvNext
    <3>1. free' = TRUE /\ UNCHANGED <<rcvNext, server, toClient, losses>>
      BY <1>5, <2>2 DEF PutSize
    <3>2. TypeOK'
      BY <1>1, <2>1, <3>1 DEF TypeOK
    <3>3. PutWritten'
      BY <1>2, <2>1, <3>1
    <3> QED BY <1>0, <2>1, <3>2, <3>3
  <2>3. CASE SeqNum(pack) = rcvNext
    <3> DEFINE state == IF N = 0 THEN "returned" ELSE "data"
    <3>1. rcvNext' = SeqAfter(pack) /\ Answer(rcvNext', state, lost)
      BY <1>5, <2>3 DEF PutSize
    <3>2. rcvNext' = 1 /\ rcvNext' \in AckNums
      BY <2>1, <2>3, <3>1, PacketNumbers
    <3> HIDE DEF state
    <3>3. /\ server' \in {state, "returned"} /\ free' \in BOOLEAN
          /\ losses' \in 0..ManyLosses
          /\ toClient' \in Seq(AckNums) /\ Len(toClient') <= Cap
          /\ \A j \in DOMAIN toClient' :
               \/ toClient'[j] = rcvNext'
               \/ j \in DOMAIN toClient /\ toClient'[j] = toClient[j]
      BY <3>1, <3>2, AnswerFacts
    <3>4. server' \in {"data", "returned"}
      BY <3>3 DEF state
    <3>5. TypeOK'
      BY <1>1, <2>1, <3>2, <3>3, <3>4 DEF TypeOK, ServerStates
    <3>6. PutWritten'
      <4>1. acker' = acker
        BY <1>0 DEF clientVars, ackVars
      <4>2. \A j \in DOMAIN toClient' : toClient'[j] <= rcvNext'
        <5>1. \A j \in DOMAIN toClient : toClient[j] <= 0 /\ toClient[j] \in AckNums
          BY <2>1, ElementOfSeq, LenProperties DEF PutWritten, TypeOK
        <5> QED BY <3>2, <3>3, <5>1, WindowsAssumption DEF AckNums
      <4>3. Len(<< >>) = 0
        OBVIOUS
      <4> QED BY <2>1, <3>2, <3>4, <4>1, <4>2, <4>3 DEF PutWritten, WrittenIsAcked
    <3> QED BY <1>0, <2>1, <3>5, <3>6
  <2> QED BY <2>2, <2>3
<1>6. CASE PutInOrder(lost)
  <2>1. /\ server = "data" /\ SeqNum(pack) = rcvNext /\ avb' = FALSE
    BY <1>6 DEF PutInOrder, UsePacket
  <2>2. PICK k \in 0..Len(buff) :
          /\ Drains(pack, buff, k)
          /\ \/ /\ server' = "corrupt"
                /\ UNCHANGED <<fileVars, free, toClient, losses>>
             \/ /\ rcvNext' = SeqAfter(IF k = 0 THEN pack ELSE buff[k])
                /\ writes' = Append(writes, pack) \o SubSeq(buff, 1, k)
                /\ buff' = ReorderBuffer(buff, k)
                /\ Answer(rcvNext', IF Len(writes') = N THEN "returned" ELSE "data", lost)
    BY <1>6 DEF PutInOrder
  <2>3. CASE /\ server' = "corrupt"
             /\ UNCHANGED <<fileVars, free, toClient, losses>>
    <3>1. TypeOK'
      BY <1>1, <2>1, <2>3 DEF TypeOK, ServerStates
    <3>2. PutWritten'
      BY <1>2, <2>3
    <3> QED BY <1>0, <2>3, <3>1, <3>2
  <2>4. CASE /\ rcvNext' = SeqAfter(IF k = 0 THEN pack ELSE buff[k])
             /\ writes' = Append(writes, pack) \o SubSeq(buff, 1, k)
             /\ buff' = ReorderBuffer(buff, k)
             /\ Answer(rcvNext', IF Len(writes') = N THEN "returned" ELSE "data", lost)
    <3>1. /\ writes' \in Seq(1..N) /\ Len(writes') > Len(writes) /\ Len(writes') <= N
          /\ \A j \in DOMAIN writes' : writes'[j] = j
          /\ rcvNext' = Len(writes') + 1
      BY <2>1, <2>2, <2>4, InOrderWrites, Zenon
    <3>2. Len(writes) \in Nat /\ Len(writes') \in Nat /\ Len(buff) \in Nat
      BY <3>1, LenProperties DEF TypeOK
    <3>3. rcvNext' \in AckNums /\ rcvNext' # 0
      BY <3>1, <3>2, WindowsAssumption DEF AckNums
    <3>4. /\ server' \in {"data", "returned"} /\ free' \in BOOLEAN
          /\ losses' \in 0..ManyLosses
          /\ toClient' \in Seq(AckNums) /\ Len(toClient') <= Cap
          /\ \A j \in DOMAIN toClient' :
               \/ toClient'[j] = rcvNext'
               \/ j \in DOMAIN toClient /\ toClient'[j] = toClient[j]
      <4> DEFINE state == IF Len(writes') = N THEN "returned" ELSE "data"
      <4>1. state \in {"data", "returned"} /\ Answer(rcvNext', state, lost)
        BY <2>4
      <4> HIDE DEF state
      <4>2. /\ server' \in {state, "returned"} /\ free' \in BOOLEAN
            /\ losses' \in 0..ManyLosses
            /\ toClient' \in Seq(AckNums) /\ Len(toClient') <= Cap
            /\ \A j \in DOMAIN toClient' :
                 \/ toClient'[j] = rcvNext'
                 \/ j \in DOMAIN toClient /\ toClient'[j] = toClient[j]
        BY <3>3, <4>1, AnswerFacts
      <4> QED BY <4>1, <4>2
    <3>5. buff' \in Seq(Packets) /\ Len(buff') <= RWND
      <4>1. buff' \in Seq(Packets) /\ Len(buff') = Len(buff) - k
        BY <2>4, SuffixProperties DEF ReorderBuffer, TypeOK
      <4> QED BY <3>2, <4>1, WindowsAssumption DEF TypeOK
    <3>6. TypeOK'
      BY <1>1, <2>1, <3>1, <3>3, <3>4, <3>5 DEF ServerStates
    <3>7. PutWritten'
      <4>1. acker' = acker
        BY <1>0 DEF clientVars, ackVars
      <4>2. rcvNext = Len(writes) + 1
        BY <2>1 DEF PutWritten, WrittenIsAcked
      <4>3. \A j \in DOMAIN toClient' : toClient'[j] <= rcvNext'
        <5>1. \A j \in DOMAIN toClient : toClient[j] <= rcvNext /\ toClient[j] \in AckNums
          BY ElementOfSeq, LenProperties DEF PutWritten, TypeOK
        <5>2. \A j \in DOMAIN toClient : toClient[j] <= rcvNext'
          BY <3>1, <3>2, <4>2, <5>1, WindowsAssumption DEF AckNums
        <5>3. rcvNext' <= rcvNext'
          BY <3>3, WindowsAssumption DEF AckNums
        <5> QED BY <3>4, <5>2, <5>3
      <4>4. acker = "exited" => FALSE
        BY <3>1, <3>2, WindowsAssumption DEF PutWritten
      <4> QED BY <3>1, <3>3, <3>4, <4>1, <4>3, <4>4 DEF PutWritten, WrittenIsAcked
    <3> QED BY <1>0, <3>1, <3>2, <3>6, <3>7
  <2> QED BY <2>2, <2>3, <2>4
<1>7. CASE PutOutOfOrder(lost)
  <2>1. /\ server = "data" /\ avb' = FALSE /\ UNCHANGED <<rcvNext, writes>>
        /\ rcvNext \in AckNums
        /\ \/ /\ server' = "corrupt" /\ UNCHANGED <<buff, free, toClient, losses>>
           \/ buff' = StoreRwnd(pack, buff) /\ Answer(rcvNext, "data", lost)
    BY <1>7 DEF PutOutOfOrder, UsePacket, TypeOK
  <2>2. CASE server' = "corrupt" /\ UNCHANGED <<buff, free, toClient, losses>>
    <3>1. TypeOK'
      BY <1>1, <2>1, <2>2 DEF TypeOK, ServerStates
    <3>2. PutWritten'
      BY <1>2, <2>1, <2>2
    <3> QED BY <1>0, <2>1, <3>1, <3>2
  <2>3. CASE buff' = StoreRwnd(pack, buff) /\ Answer(rcvNext, "data", lost)
    <3>1. buff' \in Seq(Packets) /\ Len(buff') <= RWND
      <4>1. buff \in Seq(Packets) /\ Len(buff) \in Nat /\ Len(buff) <= RWND
        BY LenProperties DEF TypeOK
      <4>2. /\ Append(buff, pack) \in Seq(Packets)
            /\ Len(Append(buff, pack)) = Len(buff) + 1
        BY <4>1, AppendProperties DEF TypeOK
      <4> QED BY <2>3, <4>1, <4>2, WindowsAssumption DEF StoreRwnd
    <3>2. /\ server' \in {"data", "returned"} /\ free' \in BOOLEAN
          /\ losses' \in 0..ManyLosses
          /\ toClient' \in Seq(AckNums) /\ Len(toClient') <= Cap
          /\ \A j \in DOMAIN toClient' :
               \/ toClient'[j] = rcvNext
               \/ j \in DOMAIN toClient /\ toClient'[j] = toClient[j]
      BY <2>1, <2>3, AnswerFacts
    <3>3. TypeOK'
      BY <1>1, <2>1, <3>1, <3>2 DEF TypeOK, ServerStates
    <3>4. PutWritten'
      BY <1>2, <2>1, <3>2
    <3> QED BY <1>0, <2>1, <3>3, <3>4
  <2> QED BY <2>1, <2>2, <2>3
<1>8. CASE PutDuplicate(lost)
  <2>1. /\ server = "data" /\ avb' = FALSE /\ UNCHANGED fileVars
        /\ rcvNext \in AckNums /\ Answer(rcvNext, "data", lost)
    BY <1>8 DEF PutDuplicate, UsePacket, TypeOK
  <2>2. /\ server' \in {"data", "returned"} /\ free' \in BOOLEAN
        /\ losses' \in 0..ManyLosses
        /\ toClient' \in Seq(AckNums) /\ Len(toClient') <= Cap
        /\ \A j \in DOMAIN toClient' :
             \/ toClient'[j] = rcvNext
             \/ j \in DOMAIN toClient /\ toClient'[j] = toClient[j]
    BY <2>1, AnswerFacts
  <2>3. TypeOK'
    BY <1>1, <2>1, <2>2 DEF TypeOK, ServerStates
  <2>4. PutWritten'
    BY <1>2, <2>1, <2>2
  <2> QED BY <1>0, <2>1, <2>3, <2>4
<1> QED BY <1>3, <1>4, <1>5, <1>6, <1>7, <1>8 DEF Worker

\* Every step of an upload does.
LEMMA PutNext ==
  ASSUME PutInv, [Next]_vars
  PROVE  PutInv' /\ (writes' = writes \/ Len(writes) < Len(writes'))
<1>1. CASE UNCHANGED vars
  <2>1. PutInv'
    BY <1>1 DEF PutInv, TypeOK, PutControl, PutWritten, WrittenIsAcked, BaseIsFirst, vars,
                clientVars, senderVars, windowVars, ackVars, timerVars, mainVars, muxVars,
                serverVars, fileVars
  <2> QED BY <1>1, <2>1 DEF vars, serverVars, fileVars
<1>2. ASSUME NEW lost \in BOOLEAN, Worker(lost) \/ RefusePut
      PROVE  PutInv' /\ (writes' = writes \/ Len(writes) < Len(writes'))
  BY <1>2, PutWorker
<1>3. ASSUME NEW lost \in BOOLEAN, ClientThread(lost) \/ ClientFails
      PROVE  PutInv' /\ writes' = writes
  <2>1. PutInv'
    BY <1>3, PutClientThread
  <2>2. writes' = writes
    BY <1>3 DEF ClientThread, ClientFails, RequestAcked, SizeAcked, Await, SendSize,
                SendChunk, PutChunk, NotFull, Join, serverVars, fileVars
  <2> QED BY <2>1, <2>2
<1>4. ASSUME NEW lost \in BOOLEAN, AckReceived(lost)
      PROVE  PutInv' /\ writes' = writes
  <2>1. PutInv'
    BY <1>4, PutAckReceived
  <2> QED BY <1>4, <2>1 DEF AckReceived, serverVars, fileVars
<1>5. ASSUME NEW lost \in BOOLEAN, Resend(lost) \/ Timer \/ Server
      PROVE  PutInv' /\ writes' = writes
  <2>1. PutInv'
    BY <1>5, PutTimerAndMain
  <2>2. writes' = writes
    BY <1>5 DEF Resend, Timer, Expire, CheckBase, ResendDangling, Server, Receive, Store,
                serverVars, fileVars
  <2> QED BY <2>1, <2>2
<1>6. TRUE \in BOOLEAN
  OBVIOUS
<1> QED BY <1>1, <1>2, <1>3, <1>4, <1>5, <1>6 DEF Next, Client

----------------------------------------------------------------------------
(***************************************************************************)
(* The theorems.                                                           *)
(***************************************************************************)

\* What request_put, ack_thread and response_put know of each other, on any network
\* and with failing system calls (client.c:423-582, server.c:361-500).
THEOREM PutInvCorrect == Spec => []PutInv
<1>1. PutInv /\ [Next]_vars => PutInv'
  BY PutNext
<1> QED BY PutInit, <1>1, PTL DEF Spec

\* The types and the capacity of the window of request_put, of the receive buffer and
\* of the sockets (client.c:560, windows.c:83).
THEOREM PutTypeCorrect == Spec => []TypeOK
<1>1. PutInv => TypeOK
  BY DEF PutInv
<1> QED BY PutInvCorrect, <1>1, PTL

\* response_put writes the chunks in order, each once, and its ACKs count exactly
\* what it has written, even on a network that reorders and with failing system
\* calls (server.c:433-496).
THEOREM PutWrittenCorrect == Spec => []WrittenIsAcked
<1>1. PutInv => WrittenIsAcked
  BY DEF PutInv, PutWritten
<1> QED BY PutInvCorrect, <1>1, PTL

\* request_put and ack_thread, which both write it, keep base at the first packet of
\* the window (client.c:144, 555).
THEOREM BaseCorrect == Spec => []BaseIsFirst
<1>1. PutInv => BaseIsFirst
  BY DEF PutInv
<1> QED BY PutInvCorrect, <1>1, PTL

\* When ack_thread or request_put has ended without an error the server has written
\* the whole file (client.c:136, 579).
THEOREM UploadedCorrect == Spec => []UploadedIsWritten
<1>1. PutInv => UploadedIsWritten
  BY DEF PutInv, PutControl, PutWritten, UploadedIsWritten
<1> QED BY PutInvCorrect, <1>1, PTL

\* What is written is 1, 2, ... up to its number.
LEMMA WritesArePrefix ==
  PutInv => /\ writes = [i \in 1..Len(writes) |-> i]
            /\ Len(writes) \in Nat /\ Len(writes) <= N
<1> SUFFICES ASSUME PutInv
             PROVE  /\ writes = [i \in 1..Len(writes) |-> i]
                    /\ Len(writes) \in Nat /\ Len(writes) <= N
  OBVIOUS
<1>1. /\ writes \in Seq(1..N) /\ Len(writes) \in Nat /\ DOMAIN writes = 1..Len(writes)
      /\ \A i \in 1..Len(writes) : writes[i] = i
  BY LenProperties DEF PutInv, TypeOK, PutWritten, WrittenIsAcked
<1>2. writes = [i \in 1..Len(writes) |-> writes[i]]
  BY <1>1
<1>3. Len(writes) <= N
  <2>1. CASE Len(writes) = 0
    BY <2>1, WindowsAssumption
  <2>2. CASE Len(writes) # 0
    <3>1. Len(writes) \in 1..Len(writes)
      BY <1>1, <2>2
    <3>2. writes[Len(writes)] \in 1..N
      BY <1>1, <3>1, ElementOfSeq
    <3> QED BY <1>1, <3>1, <3>2, WindowsAssumption
  <2> QED BY <2>1, <2>2
<1> QED BY <1>1, <1>2, <1>3

\* PutTransfer implements ReliableStream: the server's file only grows, by the next
\* chunks of the client's file.
THEOREM PutStreamCorrect == Spec => ImplementsStream
<1>1. Init => Stream!Init
  BY DEF Init, Stream!Init
<1>2. ASSUME PutInv, PutInv', [Next]_vars
      PROVE  [Stream!Next]_writes
  <2>1. CASE writes' = writes
    BY <2>1
  <2>2. CASE Len(writes) < Len(writes')
    <3>1. Len(writes) \in Nat
      BY <1>2, WritesArePrefix
    <3>2. (/\ writes = [i \in 1..Len(writes) |-> i]
           /\ Len(writes) \in Nat /\ Len(writes) <= N)'
      BY <1>2, WritesArePrefix, PTL
    <3>3. Len(writes') \in (Len(writes) + 1)..N
      BY <2>2, <3>1, <3>2, WindowsAssumption
    <3> QED BY <3>2, <3>3 DEF Stream!Next, Stream!Deliver
  <2> QED BY <1>2, <2>1, <2>2, PutNext
<1>3. PutInv /\ [Next]_vars => PutInv'
  BY PutNext
<1>4. PutInv /\ PutInv' /\ [Next]_vars => [Stream!Next]_writes
  BY <1>2
<1> QED BY PutInit, <1>1, <1>3, <1>4, PTL DEF Spec, ImplementsStream, Stream!Spec

----------------------------------------------------------------------------
(***************************************************************************)
(* A network that keeps the order.  The window holds the chunks from Base  *)
(* to the last one put into it; every ACK on its way is between Base and   *)
(* rcv_next and they do not decrease; a packet ahead of rcv_next that is   *)
(* buffered, or on its way, is ahead of all that were sent before it.  A   *)
(* packet is on its way in the channel, then with main, then with the      *)
(* worker: main does not overwrite one that the worker has not used.       *)
(***************************************************************************)
PutDone == IF pc \in {"put", "sizeWait"} THEN next - 1 ELSE next
Base    == PutDone - Len(wnd)

PutWindow ==
  /\ Len(wnd) <= PutDone
  /\ \A i \in DOMAIN wnd : wnd[i] = Base + i - 1
  /\ base < next
  /\ wnd = << >> => base <= 0

PutAcks ==
  /\ Base <= rcvNext
  /\ \A i \in DOMAIN toClient : Base <= toClient[i]
  /\ \A i, j \in DOMAIN toClient : i < j => toClient[i] <= toClient[j]

Handed == IF avb THEN <<pack>> ELSE << >>
Taken  == IF main = "store" THEN <<held>> ELSE << >>
Passed == Handed \o (Taken \o toServer)

PutPackets ==
  /\ avb => ~free
  /\ \A k \in DOMAIN Passed : Passed[k] < next
  /\ \A k \in DOMAIN Passed : Passed[k] > rcvNext =>
       /\ \A i \in DOMAIN buff : buff[i] < Passed[k]
       /\ \A j \in DOMAIN Passed : j < k => Passed[j] < Passed[k]

PutBuffer ==
  /\ server # "corrupt"
  /\ server \in {"accept", "size"} => buff = << >>
  /\ \A i \in DOMAIN buff : rcvNext < buff[i] /\ buff[i] < next
  /\ Increasing(buff)

PutFifo == PutWindow /\ PutAcks /\ PutPackets /\ PutBuffer

----------------------------------------------------------------------------
\* The oldest datagram is received.
LEMMA OldestReceived ==
  ASSUME ~Reorder, NEW S, NEW s \in Seq(S), NEW d \in Deliverable(s),
         NEW t, t = RemoveAt(s, d)
  PROVE  /\ d = 1 /\ 1 \in DOMAIN s /\ s[1] \in S /\ t \in Seq(S)
         /\ Len(t) = Len(s) - 1 /\ Len(s) \in Nat
         /\ \A j \in DOMAIN t : j \in Nat \ {0} /\ j + 1 \in DOMAIN s /\ t[j] = s[j + 1]
<1>1. d = 1 /\ 1 \in DOMAIN s /\ Len(s) \in Nat /\ DOMAIN s = 1..Len(s)
  BY LenProperties DEF Deliverable
<1>2. /\ t \in Seq(S) /\ Len(t) = Len(s) - 1
      /\ \A j \in 1..(Len(s) - 1) : t[j] = IF j < 1 THEN s[j] ELSE s[j + 1]
  BY <1>1, RemoveAtProperties
<1>3. DOMAIN t = 1..(Len(s) - 1)
  BY <1>2, LenProperties
<1>4. ASSUME NEW j \in DOMAIN t
      PROVE  j \in Nat \ {0} /\ j + 1 \in DOMAIN s /\ t[j] = s[j + 1]
  <2>1. j \in 1..(Len(s) - 1) /\ j + 1 \in 1..Len(s) /\ ~ (j < 1)
    BY <1>1, <1>3
  <2> QED BY <1>1, <1>2, <2>1
<1>5. s[1] \in S
  BY <1>1, ElementOfSeq
<1> QED BY <1>1, <1>2, <1>4, <1>5

\* One more in front.
LEMMA Prepended ==
  ASSUME NEW S, NEW x \in S, NEW t \in Seq(S), NEW r, r = <<x>> \o t
  PROVE  /\ r \in Seq(S) /\ Len(r) = Len(t) + 1 /\ r[1] = x
         /\ \A j \in 1..Len(t) : r[j + 1] = t[j]
<1> DEFINE f == <<x>>
<1>1. f \in Seq(S) /\ Len(f) = 1 /\ f[1] = x /\ r = f \o t
  OBVIOUS
<1> HIDE DEF f
<1>2. /\ f \o t \in Seq(S) /\ Len(f \o t) = Len(f) + Len(t)
      /\ \A i \in 1..(Len(f) + Len(t)) :
           (f \o t)[i] = IF i <= Len(f) THEN f[i] ELSE t[i - Len(f)]
  BY <1>1, ConcatProperties, Zenon
<1>3. Len(t) \in Nat
  BY LenProperties
<1>4. /\ r \in Seq(S) /\ Len(r) = 1 + Len(t)
      /\ \A i \in 1..(1 + Len(t)) : r[i] = IF i <= 1 THEN f[i] ELSE t[i - 1]
  BY <1>1, <1>2, Zenon
<1>5. r[1] = x
  BY <1>1, <1>3, <1>4
<1>6. ASSUME NEW j \in 1..Len(t) PROVE r[j + 1] = t[j]
  <2>1. j + 1 \in 1..(1 + Len(t)) /\ ~ (j + 1 <= 1) /\ (j + 1) - 1 = j
    BY <1>3
  <2> QED BY <1>4, <2>1
<1> QED BY <1>3, <1>4, <1>5, <1>6

\* The oldest datagram is the first of the channel.
LEMMA FirstAndRest ==
  ASSUME ~Reorder, NEW S, NEW s \in Seq(S), NEW d \in Deliverable(s)
  PROVE  s = <<s[d]>> \o RemoveAt(s, d)
<1> DEFINE t == RemoveAt(s, d)
           r == <<s[1]>> \o t
<1>1. /\ d = 1 /\ 1 \in DOMAIN s /\ s[1] \in S /\ t \in Seq(S)
      /\ Len(t) = Len(s) - 1 /\ Len(s) \in Nat
      /\ \A j \in DOMAIN t : j \in Nat \ {0} /\ j + 1 \in DOMAIN s /\ t[j] = s[j + 1]
  BY OldestReceived
<1>2. DOMAIN t = 1..(Len(s) - 1) /\ DOMAIN s = 1..Len(s)
  BY <1>1, LenProperties
<1> HIDE DEF t
<1>3. /\ r \in Seq(S) /\ Len(r) = Len(t) + 1 /\ r[1] = s[1]
      /\ \A j \in 1..Len(t) : r[j + 1] = t[j]
  BY <1>1, Prepended
<1> HIDE DEF r
<1>4. ASSUME NEW i \in 1..Len(s) PROVE s[i] = r[i]
  <2>1. CASE i = 1
    BY <1>3, <2>1
  <2>2. CASE i # 1
    <3>1. i - 1 \in DOMAIN t /\ i - 1 \in 1..Len(t) /\ (i - 1) + 1 = i
      BY <1>1, <1>2, <2>2
    <3>2. t[i - 1] = s[i]
      BY <1>1, <3>1
    <3>3. r[i] = t[i - 1]
      BY <1>3, <3>1
    <3> QED BY <3>2, <3>3
  <2> QED BY <2>1, <2>2
<1>5. Len(s) = Len(r)
  BY <1>1, <1>3
<1>6. s = r
  BY <1>3, <1>4, <1>5, SeqEqual
<1> QED BY <1>1, <1>6 DEF r, t

\* One more at the end.
LEMMA AppendedLast ==
  ASSUME NEW S, NEW s \in Seq(S), NEW m \in S, NEW t, t = s \/ t = Append(s, m)
  PROVE  /\ t \in Seq(S)
         /\ \A j \in DOMAIN t : \/ j \in DOMAIN s /\ t[j] = s[j]
                                \/ /\ j \notin DOMAIN s /\ t[j] = m
                                   /\ \A k \in DOMAIN t : k <= j
<1>1. Len(s) \in Nat /\ DOMAIN s = 1..Len(s)
  BY LenProperties
<1>2. CASE t = s
  BY <1>2
<1>3. CASE t = Append(s, m)
  <2>1. /\ t \in Seq(S) /\ Len(t) = Len(s) + 1 /\ t[Len(s) + 1] = m
        /\ \A j \in 1..Len(s) : t[j] = s[j]
    BY <1>3, AppendProperties
  <2>2. DOMAIN t = 1..(Len(s) + 1)
    BY <2>1, LenProperties
  <2>3. ASSUME NEW j \in DOMAIN t
        PROVE  \/ j \in DOMAIN s /\ t[j] = s[j]
               \/ j \notin DOMAIN s /\ t[j] = m /\ \A k \in DOMAIN t : k <= j
    <3>1. CASE j \in 1..Len(s)
      BY <1>1, <2>1, <3>1
    <3>2. CASE j = Len(s) + 1
      <4>1. j \notin DOMAIN s /\ t[j] = m
        BY <1>1, <2>1, <3>2
      <4>2. \A k \in DOMAIN t : k <= j
        BY <1>1, <2>2, <3>2
      <4> QED BY <4>1, <4>2
    <3> QED BY <1>1, <2>2, <3>1, <3>2
  <2> QED BY <2>1, <2>3
<1> QED BY <1>2, <1>3

----------------------------------------------------------------------------
\* The packets on their way to the worker.

\* The packets between the window and the worker.
LEMMA PassedType ==
  TypeOK => /\ Handed \in Seq(Packets) /\ Taken \in Seq(Packets)
            /\ toServer \in Seq(Packets) /\ Passed \in Seq(Packets)
            /\ Taken \o toServer \in Seq(Packets)
<1> SUFFICES ASSUME TypeOK
             PROVE  /\ Handed \in Seq(Packets) /\ Taken \in Seq(Packets)
                    /\ toServer \in Seq(Packets) /\ Passed \in Seq(Packets)
                    /\ Taken \o toServer \in Seq(Packets)
  OBVIOUS
<1>1. Handed \in Seq(Packets) /\ Taken \in Seq(Packets) /\ toServer \in Seq(Packets)
  BY DEF TypeOK, Handed, Taken
<1>2. Taken \o toServer \in Seq(Packets)
  BY <1>1, ConcatProperties
<1>3. Passed \in Seq(Packets)
  BY <1>1, <1>2, ConcatProperties DEF Passed
<1> QED BY <1>1, <1>2, <1>3

\* The client sends a packet.
LEMMA PassedSent ==
  ASSUME TypeOK, NEW m \in Packets, NEW lost \in BOOLEAN, SendPacket(m, lost),
         UNCHANGED <<muxVars, pack, mainVars>>
  PROVE  Passed' = Passed \/ Passed' = Append(Passed, m)
<1>1. Handed' = Handed /\ Taken' = Taken
  BY DEF Handed, Taken, muxVars, mainVars
<1>2. CASE toServer' = toServer
  BY <1>1, <1>2 DEF Passed
<1>3. CASE toServer' = Append(toServer, m)
  <2>1. /\ Handed \in Seq(Packets) /\ Taken \in Seq(Packets)
        /\ toServer \in Seq(Packets) /\ Passed \in Seq(Packets)
        /\ Taken \o toServer \in Seq(Packets)
    BY PassedType
  <2>2. <<m>> \in Seq(Packets)
    OBVIOUS
  <2>3. toServer' = toServer \o <<m>>
    BY <1>3, <2>1, AppendIsConcat
  <2>4. Taken \o toServer' = (Taken \o toServer) \o <<m>>
    BY <2>1, <2>2, <2>3, ConcatAssociative
  <2>5. Passed' = Passed \o <<m>>
    BY <1>1, <2>1, <2>2, <2>4, ConcatAssociative DEF Passed
  <2>6. Append(Passed, m) = Passed \o <<m>>
    BY <2>1, AppendIsConcat
  <2> QED BY <2>5, <2>6
<1> QED BY <1>2, <1>3 DEF SendPacket

\* main takes a packet from the socket, and gives it to the worker.
LEMMA PassedOn ==
  ASSUME ~Reorder, TypeOK, avb => ~free, Receive \/ Store
  PROVE  Passed' = Passed
<1>1. /\ Handed \in Seq(Packets) /\ Taken \in Seq(Packets)
      /\ toServer \in Seq(Packets)
  BY PassedType
<1>2. CASE Receive
  <2>1. PICK d \in Deliverable(toServer) :
          held' = toServer[d] /\ toServer' = RemoveAt(toServer, d)
    BY <1>2 DEF Receive
  <2>2. Handed' = Handed /\ Taken = << >> /\ Taken' = <<toServer[d]>>
    BY <1>2, <2>1 DEF Receive, Handed, Taken, muxVars
  <2>3. toServer = Taken' \o toServer'
    BY <1>1, <2>1, <2>2, FirstAndRest
  <2>4. Taken \o toServer = toServer
    BY <1>1, <2>2, ConcatEmptySeq
  <2> QED BY <2>2, <2>3, <2>4 DEF Passed
<1>3. CASE Store
  <2>1. Handed = << >> /\ Taken = <<held>> /\ Handed' = <<held>> /\ Taken' = << >>
        /\ toServer' = toServer
    BY <1>3 DEF Store, LockFree, Handed, Taken
  <2>2. Taken' \o toServer' = toServer
    BY <1>1, <2>1, ConcatEmptySeq
  <2>3. Taken \o toServer \in Seq(Packets)
    BY <1>1, ConcatProperties
  <2>4. Handed \o (Taken \o toServer) = Taken \o toServer
    BY <2>1, <2>3, ConcatEmptySeq
  <2> QED BY <2>1, <2>2, <2>4 DEF Passed
<1> QED BY <1>2, <1>3

\* The worker uses the oldest one.
LEMMA PassedUsed ==
  ASSUME TypeOK, UsePacket, UNCHANGED <<mainVars, toServer>>
  PROVE  /\ 1 \in DOMAIN Passed /\ Passed[1] = pack
         /\ \A j \in DOMAIN Passed' :
              j \in Nat \ {0} /\ j + 1 \in DOMAIN Passed /\ Passed'[j] = Passed[j + 1]
<1> DEFINE rest == Taken \o toServer
<1>1. rest \in Seq(Packets) /\ pack \in Packets
  BY PassedType DEF TypeOK
<1>2. Passed = <<pack>> \o rest /\ Passed' = << >> \o rest
  <2>1. Handed = <<pack>> /\ Handed' = << >>
    BY DEF UsePacket, Handed
  <2>2. Taken' = Taken /\ toServer' = toServer
    BY DEF Taken, mainVars
  <2> QED BY <2>1, <2>2 DEF Passed
<1>3. Passed' = rest
  BY <1>1, <1>2, ConcatEmptySeq
<1> HIDE DEF rest
<1>4. Len(rest) \in Nat /\ DOMAIN rest = 1..Len(rest)
  BY <1>1, LenProperties
<1>5. /\ Passed \in Seq(Packets) /\ Len(Passed) = Len(rest) + 1 /\ Passed[1] = pack
      /\ \A j \in 1..Len(rest) : Passed[j + 1] = rest[j]
  BY <1>1, <1>2, Prepended
<1>6. DOMAIN Passed = 1..(Len(rest) + 1)
  BY <1>5, LenProperties
<1>7. ASSUME NEW j \in DOMAIN rest
      PROVE  j \in Nat \ {0} /\ j + 1 \in DOMAIN Passed /\ rest[j] = Passed[j + 1]
  <2>1. j \in 1..Len(rest) /\ j + 1 \in 1..(Len(rest) + 1)
    BY <1>4
  <2> QED BY <1>5, <1>6, <2>1
<1>8. 1 \in DOMAIN Passed
  BY <1>4, <1>6
<1> QED BY <1>3, <1>5, <1>7, <1>8

----------------------------------------------------------------------------
(***************************************************************************)
(* The window and the ACKs.                                                *)
(***************************************************************************)

\* What the lemmas on windows need of the types of an upload.
LEMMA PutNumbers ==
  PutInv => /\ wnd \in Seq(Int) /\ Len(wnd) \in Nat /\ DOMAIN wnd = 1..Len(wnd)
            /\ next \in Nat /\ next <= N + 1 /\ N \in Nat
            /\ PutDone \in Nat /\ PutDone <= next /\ Base \in Int
            /\ rcvNext \in Nat /\ base \in Int
            /\ toClient \in Seq(Int)
            /\ \A i \in DOMAIN toClient : toClient[i] \in Int /\ toClient[i] <= rcvNext
<1> SUFFICES ASSUME PutInv
             PROVE  /\ wnd \in Seq(Int) /\ Len(wnd) \in Nat /\ DOMAIN wnd = 1..Len(wnd)
                    /\ next \in Nat /\ next <= N + 1 /\ N \in Nat
                    /\ PutDone \in Nat /\ PutDone <= next /\ Base \in Int
                    /\ rcvNext \in Nat /\ base \in Int
                    /\ toClient \in Seq(Int)
                    /\ \A i \in DOMAIN toClient :
                         toClient[i] \in Int /\ toClient[i] <= rcvNext
  OBVIOUS
<1>1. TypeOK /\ PutControl /\ PutWritten
  BY DEF PutInv
<1>2. wnd \in Seq(Int) /\ Len(wnd) \in Nat /\ DOMAIN wnd = 1..Len(wnd)
  <2>1. wnd \in Seq(Int)
    BY <1>1, PacketsAreNumbers DEF TypeOK
  <2> QED BY <2>1, LenProperties
<1>3. next \in Nat /\ next <= N + 1 /\ N \in Nat
  BY <1>1, WindowsAssumption DEF TypeOK
<1>4. PutDone \in Nat /\ PutDone <= next
  BY <1>1, <1>3 DEF PutControl, PutDone
<1>5. rcvNext \in Nat /\ AckNums \subseteq Int
  BY <1>1, <1>3 DEF TypeOK, AckNums
<1>6. base \in Int
  BY <1>1, PacketNumbers DEF TypeOK, Null
<1>7. /\ toClient \in Seq(Int)
      /\ \A i \in DOMAIN toClient : toClient[i] \in Int /\ toClient[i] <= rcvNext
  <2>1. toClient \in Seq(Int)
    BY <1>1, <1>5, WiderSequence DEF TypeOK
  <2>2. \A i \in DOMAIN toClient : toClient[i] \in Int
    BY <2>1, ElementOfSeq, LenProperties
  <2> QED BY <1>1, <2>1, <2>2 DEF PutWritten
<1>8. Base \in Int
  BY <1>2, <1>4 DEF Base
<1> QED BY <1>2, <1>3, <1>4, <1>5, <1>6, <1>7, <1>8

\* PutWindow is about the window and what was put into it only.
LEMMA PutWindowKept ==
  ASSUME PutInv, PutWindow, PutDone' = PutDone, next' \in Int, next <= next',
         UNCHANGED windowVars
  PROVE  PutWindow' /\ Base' = Base
<1>1. wnd' = wnd /\ base' = base /\ Base' = Base
  BY DEF windowVars, Base
<1>2. next \in Int /\ base \in Int
  BY PutNumbers
<1> QED BY <1>1, <1>2 DEF PutWindow

\* The oldest ACK leaves the channel, and the window does not begin behind it.
LEMMA AckLeaves ==
  ASSUME ~Reorder, PutInv, PutAcks, NEW d \in Deliverable(toClient),
         toClient' = RemoveAt(toClient, d), rcvNext' = rcvNext,
         Base' \in Int, Base' <= toClient[d]
  PROVE  PutAcks'
<1>1. /\ d = 1 /\ 1 \in DOMAIN toClient
      /\ \A j \in DOMAIN toClient' :
           j \in Nat \ {0} /\ j + 1 \in DOMAIN toClient /\ toClient'[j] = toClient[j + 1]
  <2>1. toClient \in Seq(Int)
    BY PutNumbers
  <2> QED BY <2>1, OldestReceived
<1>2. /\ rcvNext \in Int
      /\ \A i \in DOMAIN toClient : toClient[i] \in Int /\ toClient[i] <= rcvNext
  BY PutNumbers
<1>3. Base' <= rcvNext'
  BY <1>1, <1>2
<1>4. ASSUME NEW j \in DOMAIN toClient' PROVE Base' <= toClient'[j]
  <2>1. 1 < j + 1 /\ j + 1 \in DOMAIN toClient /\ toClient'[j] = toClient[j + 1]
    BY <1>1
  <2>2. toClient[1] <= toClient[j + 1]
    BY <1>1, <2>1, Zenon DEF PutAcks
  <2> QED BY <1>1, <1>2, <2>1, <2>2
<1>5. ASSUME NEW i \in DOMAIN toClient', NEW j \in DOMAIN toClient', i < j
      PROVE  toClient'[i] <= toClient'[j]
  <2>1. i + 1 < j + 1
    BY <1>1, <1>5
  <2> QED BY <1>1, <2>1 DEF PutAcks
<1> QED BY <1>3, <1>4, <1>5 DEF PutAcks

\* The worker may have sent one.
LEMMA AckAdded ==
  ASSUME PutInv, PutAcks, Base' = Base, rcvNext' \in Int, rcvNext <= rcvNext',
         \/ toClient' = toClient
         \/ \E lost \in BOOLEAN : SendAck(rcvNext', lost)
  PROVE  PutAcks'
<1>1. /\ toClient \in Seq(Int) /\ rcvNext \in Int /\ Base \in Int
      /\ \A i \in DOMAIN toClient : toClient[i] \in Int /\ toClient[i] <= rcvNext
  BY PutNumbers
<1>2. toClient' = toClient \/ toClient' = Append(toClient, rcvNext')
  BY DEF SendAck
<1>3. \A j \in DOMAIN toClient' :
        \/ j \in DOMAIN toClient /\ toClient'[j] = toClient[j]
        \/ /\ j \notin DOMAIN toClient /\ toClient'[j] = rcvNext'
           /\ \A k \in DOMAIN toClient' : k <= j
  BY <1>1, <1>2, AppendedLast
<1>4. toClient' \in Seq(Int)
  BY <1>1, <1>2, AppendedLast
<1>5. Base' <= rcvNext'
  BY <1>1 DEF PutAcks
<1>6. \A j \in DOMAIN toClient' : Base' <= toClient'[j] /\ toClient'[j] <= rcvNext'
  BY <1>1, <1>3, <1>5 DEF PutAcks
<1>7. ASSUME NEW i \in DOMAIN toClient', NEW j \in DOMAIN toClient', i < j
      PROVE  toClient'[i] <= toClient'[j]
  <2>1. i \in Int /\ j \in Int
    BY <1>4, LenProperties
  <2>2. CASE j \in DOMAIN toClient /\ toClient'[j] = toClient[j]
    <3>1. i \in DOMAIN toClient /\ toClient'[i] = toClient[i]
      BY <1>3, <1>7, <2>1, <2>2
    <3> QED BY <1>7, <2>2, <3>1 DEF PutAcks
  <2>3. CASE toClient'[j] = rcvNext'
    BY <1>6, <2>3
  <2> QED BY <1>3, <2>2, <2>3
<1> QED BY <1>5, <1>6, <1>7 DEF PutAcks

\* What the timer and ack_thread resend is not ahead of what the worker expects.
LEMMA BaseIsNotAhead ==
  ASSUME PutInv, PutWindow, PutAcks
  PROVE  base <= rcvNext /\ base < next
<1>1. /\ wnd \in Seq(Int) /\ base \in Int /\ rcvNext \in Nat /\ Base \in Int
      /\ DOMAIN wnd = 1..Len(wnd) /\ Len(wnd) \in Nat
  BY PutNumbers
<1>2. CASE wnd = << >>
  BY <1>1, <1>2 DEF PutWindow
<1>3. CASE wnd # << >>
  <2>1. base = wnd[1] /\ Len(wnd) # 0
    BY <1>1, <1>3, HeadIsFirst DEF PutInv, BaseIsFirst
  <2>2. 1 \in DOMAIN wnd /\ wnd[1] = Base + 1 - 1
    BY <1>1, <2>1 DEF PutWindow
  <2> QED BY <1>1, <2>1, <2>2 DEF PutWindow, PutAcks
<1> QED BY <1>2, <1>3

----------------------------------------------------------------------------
(***************************************************************************)
(* The packets and the receive buffer.                                     *)
(***************************************************************************)

\* The client sends a packet that is not ahead of rcv_next, or that it has never sent.
LEMMA ChunkSent ==
  ASSUME PutInv, PutPackets, PutBuffer, NEW m \in Packets, NEW lost \in BOOLEAN,
         SendPacket(m, lost), UNCHANGED <<muxVars, pack, mainVars, serverVars>>,
         next' \in Int, next <= next', m < next', m > rcvNext => m >= next
  PROVE  PutPackets' /\ PutBuffer'
<1>1. /\ Passed \in Seq(Packets) /\ m \in Int /\ next \in Int /\ rcvNext \in Int
      /\ buff \in Seq(Int)
  BY PassedType, PutNumbers, PacketNumbers, PacketsAreNumbers DEF PutInv, TypeOK
<1>2. /\ rcvNext' = rcvNext /\ buff' = buff /\ avb' = avb /\ free' = free
      /\ server' = server
  BY DEF muxVars, serverVars, fileVars
<1>3. /\ \A j \in DOMAIN Passed' :
           \/ j \in DOMAIN Passed /\ Passed'[j] = Passed[j]
           \/ /\ j \notin DOMAIN Passed /\ Passed'[j] = m
              /\ \A k \in DOMAIN Passed' : k <= j
      /\ Passed' \in Seq(Packets)
  <2>1. Passed' = Passed \/ Passed' = Append(Passed, m)
    BY PassedSent DEF PutInv
  <2> QED BY <1>1, <2>1, AppendedLast
<1>4. /\ \A k \in DOMAIN Passed : Passed[k] \in Int
      /\ \A i \in DOMAIN buff : buff[i] \in Int
      /\ \A k \in DOMAIN Passed' : k \in Int
  <2>1. Passed \in Seq(Int)
    BY <1>1, PacketsAreNumbers
  <2> QED BY <1>1, <1>3, <2>1, ElementOfSeq, LenProperties
<1>5. \A i \in DOMAIN buff' : rcvNext' < buff'[i] /\ buff'[i] < next'
  BY <1>1, <1>2, <1>4 DEF PutBuffer
<1>6. PutBuffer'
  BY <1>2, <1>5 DEF PutBuffer
<1>7. \A k \in DOMAIN Passed' : Passed'[k] < next'
  BY <1>1, <1>3, <1>4 DEF PutPackets
<1>8. ASSUME NEW k \in DOMAIN Passed', Passed'[k] > rcvNext'
      PROVE  /\ \A i \in DOMAIN buff' : buff'[i] < Passed'[k]
             /\ \A j \in DOMAIN Passed' : j < k => Passed'[j] < Passed'[k]
  <2>1. CASE k \in DOMAIN Passed /\ Passed'[k] = Passed[k]
    <3>1. ASSUME NEW j \in DOMAIN Passed', j < k
          PROVE  Passed'[j] < Passed'[k]
      <4>1. j \in DOMAIN Passed /\ Passed'[j] = Passed[j]
        BY <1>3, <1>4, <2>1, <3>1
      <4> QED BY <1>2, <1>8, <2>1, <3>1, <4>1 DEF PutPackets
    <3>2. \A i \in DOMAIN buff' : buff'[i] < Passed'[k]
      BY <1>2, <1>8, <2>1 DEF PutPackets
    <3> QED BY <3>1, <3>2
  <2>2. CASE k \notin DOMAIN Passed /\ Passed'[k] = m
    <3>1. m >= next
      BY <1>2, <1>8, <2>2
    <3>2. \A i \in DOMAIN buff' : buff'[i] < m
      BY <1>1, <1>2, <1>4, <3>1 DEF PutBuffer
    <3>3. ASSUME NEW j \in DOMAIN Passed', j < k
          PROVE  Passed'[j] < m
      <4>1. j \in DOMAIN Passed /\ Passed'[j] = Passed[j]
        BY <1>3, <1>4, <2>2, <3>3
      <4>2. Passed[j] < next /\ Passed[j] \in Int
        BY <1>4, <4>1 DEF PutPackets
      <4> QED BY <1>1, <3>1, <4>1, <4>2
    <3> QED BY <2>2, <3>2, <3>3
  <2> QED BY <1>3, <2>1, <2>2
<1>9. PutPackets'
  BY <1>2, <1>7, <1>8 DEF PutPackets
<1> QED BY <1>6, <1>9

\* Nothing is sent, and nothing changes for what is on its way.
LEMMA PacketsKept ==
  ASSUME PutInv, PutPackets, PutBuffer, Passed' = Passed, next' = next,
         avb' => ~free', UNCHANGED serverVars
  PROVE  PutPackets' /\ PutBuffer'
BY DEF PutPackets, PutBuffer, serverVars, fileVars

----------------------------------------------------------------------------
(***************************************************************************)
(* All steps.                                                              *)
(***************************************************************************)

\* At first nothing is in transit.
LEMMA PutFifoInit == Init => PutFifo
<1> SUFFICES ASSUME Init PROVE PutFifo
  OBVIOUS
<1>1. Len(<< >>) = 0 /\ DOMAIN << >> = {} /\ << >> \in Seq(Int)
  BY EmptySeq
<1>2. /\ wnd = << >> /\ next = 0 /\ pc = "request" /\ base = -1 /\ rcvNext = 0
      /\ toClient = << >> /\ buff = << >> /\ server = "accept"
      /\ ~avb
  BY DEF Init, Request
<1>3. PutDone = 0 /\ Base = 0
  BY <1>1, <1>2 DEF PutDone, Base
<1>4. PutWindow /\ PutAcks
  BY <1>1, <1>2, <1>3 DEF PutWindow, PutAcks
<1>5. DOMAIN Passed = {}
  <2>1. Handed = << >> /\ Taken = << >> /\ toServer = << >>
    BY DEF Init, Handed, Taken
  <2>2. Passed = << >>
    BY <1>1, <2>1, ConcatEmptySeq DEF Passed
  <2> QED BY <1>1, <2>2
<1>6. PutPackets /\ PutBuffer
  BY <1>1, <1>2, <1>5 DEF PutPackets, PutBuffer, Increasing
<1> QED BY <1>4, <1>6 DEF PutFifo

\* Steps of the client that neither send a packet nor receive an ACK.
LEMMA PutFifoQuiet ==
  ASSUME PutInv, PutFifo, PutDone' = PutDone, next' = next,
         UNCHANGED <<windowVars, mainVars, muxVars, pack, serverVars, toServer, toClient>>
  PROVE  PutFifo'
<1>1. next \in Nat /\ rcvNext \in Nat
  BY PutNumbers
<1>2. PutWindow' /\ Base' = Base
  BY <1>1, PutWindowKept DEF PutFifo
<1>3. PutAcks'
  BY <1>1, <1>2, AckAdded DEF PutFifo, serverVars, fileVars
<1>4. Passed' = Passed
  BY DEF Passed, Handed, Taken, muxVars, mainVars
<1>5. PutPackets' /\ PutBuffer'
  <2>1. avb' => ~free'
    BY DEF PutFifo, PutPackets, muxVars
  <2> QED BY <1>4, <2>1, PacketsKept DEF PutFifo
<1> QED BY <1>2, <1>3, <1>5 DEF PutFifo

\* The client waits for the answers to the request and to the size.
LEMMA PutFifoAwait ==
  ASSUME ~Reorder, PutInv, PutFifo, RequestAcked \/ SizeAcked
  PROVE  PutFifo'
<1>1. PICK ack \in {0, 1}, d \in Deliverable(toClient) :
        /\ toClient' = RemoveAt(toClient, d)
        /\ \/ pc' = pc /\ PutDone' = PutDone
           \/ PutDone' = PutDone
           \/ pc = "sizeWait" /\ toClient[d] = 1 /\ pc' \in {"join", "send"}
  <2>1. CASE RequestAcked
    BY <2>1 DEF RequestAcked, Await, PutDone
  <2>2. CASE SizeAcked
    BY <2>2 DEF SizeAcked, Await, PutDone
  <2> QED BY <2>1, <2>2
<1>2. UNCHANGED <<next, windowVars, mainVars, muxVars, pack, serverVars, toServer>>
  BY DEF RequestAcked, SizeAcked, Await
<1>3. /\ next \in Nat /\ Base \in Int /\ Len(wnd) \in Nat /\ rcvNext \in Nat
      /\ \A i \in DOMAIN toClient : toClient[i] \in Int
  BY PutNumbers
<1>4. d \in DOMAIN toClient
  BY DEF Deliverable
<1>5. PutWindow' /\ Base' \in Int /\ Base' <= toClient[d]
  <2>1. CASE PutDone' = PutDone
    <3>1. PutWindow' /\ Base' = Base
      BY <1>2, <1>3, <2>1, PutWindowKept DEF PutFifo
    <3> QED BY <1>3, <1>4, <3>1 DEF PutFifo, PutAcks
  <2>2. CASE pc = "sizeWait" /\ toClient[d] = 1 /\ pc' \in {"join", "send"}
    <3>1. next = 1 /\ wnd = << >> /\ Len(wnd) = 0 /\ DOMAIN wnd = {}
      BY <2>2, EmptySeq DEF PutInv, PutControl
    <3>2. PutDone' = 1 /\ wnd' = wnd /\ base' = base /\ next' = next
      BY <1>2, <2>2, <3>1 DEF PutDone, windowVars
    <3>3. Base' = 1
      BY <3>1, <3>2 DEF Base
    <3> QED BY <2>2, <3>1, <3>2, <3>3 DEF PutFifo, PutWindow
  <2> QED BY <1>1, <2>1, <2>2
<1>6. PutAcks'
  <2>1. rcvNext' = rcvNext
    BY <1>2 DEF serverVars, fileVars
  <2> QED BY <1>1, <1>5, <2>1, AckLeaves DEF PutFifo
<1>7. Passed' = Passed /\ (avb' => ~free')
  BY <1>2 DEF Passed, Handed, Taken, muxVars, mainVars, PutFifo, PutPackets
<1>8. PutPackets' /\ PutBuffer'
  BY <1>2, <1>7, PacketsKept DEF PutFifo
<1> QED BY <1>5, <1>6, <1>8 DEF PutFifo

\* It sends the size or a chunk.
LEMMA PutFifoSend ==
  ASSUME PutInv, PutFifo, NEW lost \in BOOLEAN, SendSize(lost) \/ SendChunk(lost)
  PROVE  PutFifo'
<1>1. /\ next \in Nat /\ rcvNext \in Nat /\ N \in Nat
      /\ Base \in Int /\ Len(wnd) \in Nat
  BY PutNumbers
<1>2. /\ next' = next + 1 /\ SendPacket(next, lost) /\ next \in Packets
      /\ PutDone' = PutDone /\ wnd' = wnd
      /\ UNCHANGED <<mainVars, muxVars, pack, serverVars, toClient>>
  <2>1. CASE SendSize(lost)
    <3>1. pc = "size" /\ next = 0
      BY <2>1 DEF SendSize, PutInv, PutControl
    <3> QED BY <1>1, <2>1, <3>1 DEF SendSize, PutDone, Packets, Request
  <2>2. CASE SendChunk(lost)
    <3>1. pc = "send" /\ next \in 1..N
      BY <2>2 DEF SendChunk, PutInv, PutControl
    <3> QED BY <1>1, <2>2, <3>1 DEF SendChunk, PutDone, Packets, Request, windowVars
  <2> QED BY <2>1, <2>2
<1>3. Base' = Base
  BY <1>2 DEF Base
<1>4. PutWindow'
  <2>1. base' < next' /\ (wnd = << >> => base' <= 0)
    <3>1. CASE SendSize(lost)
      BY <1>1, <1>2, <3>1 DEF SendSize
    <3>2. CASE SendChunk(lost)
      <4>1. base' = base /\ base \in Int
        BY <3>2, PutNumbers DEF SendChunk, windowVars
      <4> QED BY <1>1, <1>2, <4>1 DEF PutFifo, PutWindow
    <3> QED BY <3>1, <3>2
  <2> QED BY <1>2, <1>3, <2>1 DEF PutFifo, PutWindow
<1>5. PutAcks'
  BY <1>1, <1>2, <1>3, AckAdded DEF PutFifo, serverVars, fileVars
<1>6. PutPackets' /\ PutBuffer'
  <2>1. next' \in Int /\ next <= next' /\ next < next'
    BY <1>1, <1>2
  <2> QED BY <1>1, <1>2, <2>1, ChunkSent DEF PutFifo
<1> QED BY <1>4, <1>5, <1>6 DEF PutFifo

\* It puts the chunk into the window.
LEMMA PutFifoChunk ==
  ASSUME PutInv, PutFifo, PutChunk
  PROVE  PutFifo'
<1>1. /\ pc = "put" /\ pc' = "full" /\ next' = next /\ wnd' = Append(wnd, next - 1)
      /\ base' = IF wnd = << >> THEN next - 1 ELSE base
      /\ UNCHANGED <<mainVars, muxVars, pack, serverVars, toServer, toClient>>
  BY DEF PutChunk, UpdateWindow, BaseAfterPut
<1>2. /\ next \in Nat /\ rcvNext \in Nat /\ Base \in Int /\ wnd \in Seq(Int)
      /\ Len(wnd) \in Nat /\ DOMAIN wnd = 1..Len(wnd) /\ base \in Int
  BY PutNumbers
<1>3. PutDone = next - 1 /\ PutDone' = next /\ next \in 2..(N + 1)
  BY <1>1 DEF PutDone, PutInv, PutControl
<1>4. /\ wnd' \in Seq(Int) /\ Len(wnd') = Len(wnd) + 1 /\ DOMAIN wnd' = 1..(Len(wnd) + 1)
      /\ \A i \in 1..Len(wnd) : wnd'[i] = wnd[i]
      /\ wnd'[Len(wnd) + 1] = next - 1
  <2>1. next - 1 \in Int
    BY <1>2
  <2>2. /\ wnd' \in Seq(Int) /\ Len(wnd') = Len(wnd) + 1
        /\ \A i \in 1..Len(wnd) : wnd'[i] = wnd[i]
        /\ wnd'[Len(wnd) + 1] = next - 1
    BY <1>1, <1>2, <2>1, AppendProperties
  <2> QED BY <2>2, LenProperties
<1>5. /\ Base' = Base /\ Base + Len(wnd) = next - 1 /\ Len(wnd') <= PutDone'
  BY <1>2, <1>3, <1>4 DEF Base, PutFifo, PutWindow
<1>6. ASSUME NEW i \in DOMAIN wnd' PROVE wnd'[i] = Base' + i - 1
  <2>1. CASE i \in 1..Len(wnd)
    BY <1>2, <1>4, <1>5, <2>1 DEF PutFifo, PutWindow
  <2>2. CASE i = Len(wnd) + 1
    BY <1>2, <1>4, <1>5, <2>2
  <2> QED BY <1>4, <2>1, <2>2
<1>7. PutWindow'
  <2>1. base' < next'
    BY <1>1, <1>2 DEF PutFifo, PutWindow
  <2>2. wnd' # << >>
    BY <1>2, <1>4, EmptySeq
  <2> QED BY <1>5, <1>6, <2>1, <2>2 DEF PutWindow
<1>8. PutAcks'
  BY <1>1, <1>2, <1>5, AckAdded DEF PutFifo, serverVars, fileVars
<1>9. Passed' = Passed /\ (avb' => ~free')
  BY <1>1 DEF Passed, Handed, Taken, muxVars, mainVars, PutFifo, PutPackets
<1>10. PutPackets' /\ PutBuffer'
  BY <1>1, <1>9, PacketsKept DEF PutFifo
<1> QED BY <1>7, <1>8, <1>10 DEF PutFifo

\* ack_thread: what it discards is not ahead of the ACK.
LEMMA PutFifoAck ==
  ASSUME ~Reorder, PutInv, PutFifo, NEW lost \in BOOLEAN, AckReceived(lost)
  PROVE  PutFifo'
<1>1. PICK d \in Deliverable(toClient), i \in 0..Len(wnd) :
        /\ toClient' = RemoveAt(toClient, d)
        /\ IF FastRetransmission(toClient[d]) /\ base # Null
           THEN SendPacket(base, lost) ELSE UNCHANGED <<toServer, losses>>
        /\ AckedPackets(wnd, toClient[d], i)
        /\ wnd' = RefreshWindow(wnd, i)
        /\ base' = IF wnd' = << >> THEN Null ELSE Head(wnd')
  BY DEF AckReceived
<1>2. /\ acker = "recv"
      /\ UNCHANGED <<senderVars, mainVars, muxVars, pack, serverVars>>
  BY DEF AckReceived
<1>3. /\ wnd \in Seq(Int) /\ Len(wnd) \in Nat /\ DOMAIN wnd = 1..Len(wnd)
      /\ next \in Nat /\ next <= N + 1 /\ PutDone \in Nat /\ PutDone <= next
      /\ Base \in Int /\ rcvNext \in Nat /\ i \in Nat
      /\ \A j \in DOMAIN toClient : toClient[j] \in Int /\ toClient[j] <= rcvNext
  BY PutNumbers
<1>4. next' = next /\ pc' = pc /\ PutDone' = PutDone /\ rcvNext' = rcvNext
  BY <1>2 DEF senderVars, serverVars, fileVars, PutDone
<1> DEFINE ack == toClient[d]
<1>5. d \in DOMAIN toClient /\ ack \in Int /\ Base <= ack
  BY <1>3 DEF Deliverable, PutFifo, PutAcks
<1>6. /\ wnd' \in Seq(Int) /\ Len(wnd') = Len(wnd) - i
      /\ \A j \in 1..(Len(wnd) - i) : wnd'[j] = wnd[i + j]
  BY <1>1, <1>3, SuffixProperties DEF RefreshWindow
<1>7. DOMAIN wnd' = 1..(Len(wnd) - i) /\ Len(wnd') \in Nat
  BY <1>6, LenProperties
<1>8. Base' = Base + i /\ Base' \in Int /\ Len(wnd') <= PutDone' /\ Base' <= N + 1
      /\ Base <= N + 1
  <2>1. Base = PutDone - Len(wnd) /\ Base' = PutDone - (Len(wnd) - i)
    BY <1>4, <1>6 DEF Base
  <2>2. Len(wnd) <= PutDone /\ PutDone <= N + 1 /\ Len(wnd') = Len(wnd) - i
    <3>1. PutDone <= next /\ next <= N + 1 /\ N \in Nat
      BY <1>3, WindowsAssumption
    <3> QED BY <1>3, <1>6, <3>1 DEF PutFifo, PutWindow
  <2> QED BY <1>3, <1>4, <1>7, <2>1, <2>2, WindowsAssumption
<1>9. ASSUME NEW j \in DOMAIN wnd' PROVE wnd'[j] = Base' + j - 1
  <2>1. j \in 1..(Len(wnd) - i) /\ i + j \in DOMAIN wnd
    BY <1>3, <1>7
  <2>2. wnd'[j] = Base + (i + j) - 1
    BY <1>6, <2>1 DEF PutFifo, PutWindow
  <2> QED BY <1>3, <1>8, <2>1, <2>2
<1> HIDE DEF ack
<1>10. Base' <= ack
  <2>1. \A b \in Int : b <= N + 1 => SeqNum(b) = b
    BY WindowsAssumption DEF SeqNum
  <2>2. SeqNum(Base) <= ack
    BY <1>3, <1>5, <1>8, <2>1
  <2>3. SeqNum(Base + i) <= ack
    <3>1. \A j \in DOMAIN wnd : wnd[j] = Base + j - 1
      BY DEF PutFifo, PutWindow
    <3>2. AckedPackets(wnd, ack, i)
      BY <1>1 DEF ack
    <3> QED BY <1>3, <1>5, <2>2, <3>1, <3>2, DiscardedBeforeAck
  <2> QED BY <1>8, <2>1, <2>3
<1>11. PutAcks'
  BY <1>1, <1>4, <1>8, <1>10, AckLeaves DEF PutFifo, ack
<1>12. PutWindow'
  <2>1. CASE wnd' = << >>
    <3>1. base' = -2
      BY <1>1, <2>1 DEF Null
    <3> QED BY <1>3, <1>4, <1>8, <1>9, <3>1 DEF PutWindow
  <2>2. CASE wnd' # << >>
    <3>1. base' = wnd'[1] /\ 1 \in DOMAIN wnd'
      BY <1>1, <1>6, <1>7, <2>2, HeadIsFirst
    <3>2. base' = Base'
      BY <1>8, <1>9, <3>1
    <3>3. Base' < PutDone'
      <4>1. Len(wnd') >= 1 /\ Base' = PutDone - Len(wnd')
        BY <1>4, <1>6, <1>7, <3>1 DEF Base
      <4> QED BY <1>3, <1>4, <1>7, <4>1
    <3> QED BY <1>3, <1>4, <1>8, <1>9, <2>2, <3>2, <3>3 DEF PutWindow
  <2> QED BY <2>1, <2>2
<1>13. PutPackets' /\ PutBuffer'
  <2>1. CASE base # Null /\ SendPacket(base, lost)
    <3>1. base \in Packets
      BY <2>1 DEF PutInv, TypeOK
    <3>2. base \in Int /\ ~ (base > rcvNext) /\ base < next'
      BY <1>3, <1>4, <3>1, BaseIsNotAhead, PacketNumbers DEF PutFifo
    <3>3. next' \in Int /\ next <= next'
      BY <1>3, <1>4
    <3> QED BY <1>2, <2>1, <3>1, <3>2, <3>3, ChunkSent DEF PutFifo
  <2>2. CASE toServer' = toServer
    <3>1. Passed' = Passed /\ (avb' => ~free')
      BY <1>2, <2>2 DEF Passed, Handed, Taken, muxVars, mainVars, PutFifo, PutPackets
    <3> QED BY <1>2, <1>4, <3>1, PacketsKept DEF PutFifo
  <2> QED BY <1>1, <2>1, <2>2
<1> QED BY <1>11, <1>12, <1>13 DEF PutFifo

\* The timer of the client, and main of the server.
LEMMA PutFifoTimerAndMain ==
  ASSUME ~Reorder, PutInv, PutFifo, NEW lost \in BOOLEAN,
         Resend(lost) \/ Timer \/ Server
  PROVE  PutFifo'
<1>1. next \in Nat /\ rcvNext \in Nat
  BY PutNumbers
<1>2. CASE Timer
  <2>1. /\ PutDone' = PutDone /\ next' = next
        /\ UNCHANGED <<windowVars, mainVars, muxVars, pack, serverVars, toServer, toClient>>
    BY <1>2 DEF Timer, Expire, CheckBase, ResendDangling, senderVars, PutDone
  <2> QED BY <2>1, PutFifoQuiet
<1>3. CASE Resend(lost) \/ Server
  <2>1. /\ PutDone' = PutDone /\ next' = next
        /\ UNCHANGED <<windowVars, serverVars, toClient>>
    BY <1>3 DEF Resend, Server, Receive, Store, clientVars, senderVars, PutDone
  <2>2. PutWindow' /\ Base' = Base
    BY <1>1, <2>1, PutWindowKept DEF PutFifo
  <2>3. PutAcks'
    BY <1>1, <2>1, <2>2, AckAdded DEF PutFifo, serverVars, fileVars
  <2>4. PutPackets' /\ PutBuffer'
    <3>1. CASE Resend(lost)
      <4>1. base \in Packets /\ SendPacket(base, lost)
            /\ UNCHANGED <<muxVars, pack, mainVars, serverVars>>
        BY <3>1 DEF Resend, Dangling, PutInv, TypeOK
      <4>2. base \in Int /\ ~ (base > rcvNext) /\ base < next'
        BY <1>1, <2>1, <4>1, BaseIsNotAhead, PacketNumbers DEF PutFifo
      <4>3. next' \in Int /\ next <= next'
        BY <1>1, <2>1
      <4> QED BY <4>1, <4>2, <4>3, ChunkSent DEF PutFifo
    <3>2. CASE Server
      <4>1. Passed' = Passed
        BY <3>2, PassedOn DEF Server, PutInv, PutFifo, PutPackets
      <4>2. avb' => ~free'
        BY <3>2 DEF Server, Receive, Store, muxVars, PutFifo, PutPackets
      <4> QED BY <2>1, <4>1, <4>2, PacketsKept DEF PutFifo
    <3> QED BY <1>3, <3>1, <3>2
  <2> QED BY <2>2, <2>3, <2>4 DEF PutFifo
<1> QED BY <1>2, <1>3

\* Fewer chunks are buffered than the window of the client holds.
LEMMA RoomForChunks ==
  ASSUME PutInv, PutFifo
  PROVE  Len(buff) < RWND
<1>1. /\ next \in Nat /\ rcvNext \in Nat /\ Len(wnd) \in Nat /\ Base <= rcvNext
      /\ Base = PutDone - Len(wnd)
  BY PutNumbers DEF PutFifo, PutAcks, Base
<1>2. buff \in Seq(Int) /\ Len(buff) \in Nat /\ DOMAIN buff = 1..Len(buff)
  <2>1. buff \in Seq(Int)
    BY PacketsAreNumbers DEF PutInv, TypeOK
  <2> QED BY <2>1, LenProperties
<1>3. WND \in Nat \ {0} /\ RWND \in Nat /\ WND <= RWND /\ Len(wnd) <= WND
  BY WindowsAssumption DEF PutInv, TypeOK
<1>4. next - Base <= WND
  <2>1. CASE pc = "put"
    BY <1>1, <1>3, <2>1 DEF PutInv, PutControl, PutDone
  <2>2. CASE pc = "sizeWait"
    <3>1. next = 1 /\ wnd = << >> /\ Len(wnd) = 0
      BY <2>2, EmptySeq DEF PutInv, PutControl
    <3> QED BY <1>1, <1>3, <2>2, <3>1 DEF PutDone
  <2>3. CASE pc \notin {"put", "sizeWait"}
    BY <1>1, <1>3, <2>3 DEF PutDone
  <2> QED BY <2>1, <2>2, <2>3
<1>5. CASE rcvNext < next
  <2>1. Len(buff) < next - rcvNext
    <3>1. /\ Increasing(buff) /\ next \in Int /\ rcvNext \in Int
          /\ \A i \in DOMAIN buff : rcvNext < buff[i] /\ buff[i] < next
      BY <1>1 DEF PutFifo, PutBuffer
    <3> QED BY <1>2, <1>5, <3>1, IncreasingLength
  <2>2. Base \in Int
    BY PutNumbers
  <2> QED BY <1>1, <1>2, <1>3, <1>4, <2>1, <2>2
<1>6. CASE ~ (rcvNext < next)
  <2>1. \A i \in DOMAIN buff : buff[i] \in Int
    BY <1>2, ElementOfSeq
  <2>2. DOMAIN buff = {}
    <3>1. ASSUME NEW i \in DOMAIN buff PROVE FALSE
      <4>1. rcvNext < buff[i] /\ buff[i] < next
        BY DEF PutFifo, PutBuffer
      <4> QED BY <1>1, <1>6, <2>1, <4>1
    <3> QED BY <3>1
  <2>3. Len(buff) = 0
    BY <1>2, <2>2
  <2> QED BY <1>3, <2>3
<1> QED BY <1>5, <1>6

\* The worker has used a packet: what is on its way behind it is ahead of what is
\* buffered now.
LEMMA PutFifoUsed ==
  ASSUME PutInv, PutFifo, UsePacket, PutBuffer',
         UNCHANGED <<clientVars, mainVars, pack, toServer>>,
         rcvNext' \in Int, rcvNext <= rcvNext',
         \/ toClient' = toClient
         \/ \E lost \in BOOLEAN : SendAck(rcvNext', lost),
         \A i \in DOMAIN buff' : \/ pack > rcvNext /\ buff'[i] = pack
                                 \/ \E k \in DOMAIN buff : buff'[i] = buff[k]
  PROVE  PutFifo'
<1>1. next \in Nat /\ rcvNext \in Nat
  BY PutNumbers
<1>2. next' = next /\ PutDone' = PutDone /\ UNCHANGED windowVars
  BY DEF clientVars, senderVars, PutDone
<1>3. PutWindow' /\ Base' = Base
  BY <1>1, <1>2, PutWindowKept DEF PutFifo
<1>4. PutAcks'
  BY <1>3, AckAdded DEF PutFifo
<1>5. /\ 1 \in DOMAIN Passed /\ Passed[1] = pack
      /\ \A j \in DOMAIN Passed' :
           j \in Nat \ {0} /\ j + 1 \in DOMAIN Passed /\ Passed'[j] = Passed[j + 1]
  BY PassedUsed DEF PutInv
<1>6. \A k \in DOMAIN Passed : Passed[k] \in Int
  <2>1. Passed \in Seq(Int)
    BY PassedType, PacketsAreNumbers DEF PutInv
  <2> QED BY <2>1, ElementOfSeq, LenProperties
<1>7. \A k \in DOMAIN Passed' : Passed'[k] < next'
  BY <1>2, <1>5 DEF PutFifo, PutPackets
<1>8. ASSUME NEW k \in DOMAIN Passed', Passed'[k] > rcvNext'
      PROVE  /\ \A i \in DOMAIN buff' : buff'[i] < Passed'[k]
             /\ \A j \in DOMAIN Passed' : j < k => Passed'[j] < Passed'[k]
  <2>1. /\ k \in Nat \ {0} /\ k + 1 \in DOMAIN Passed /\ 1 < k + 1
        /\ Passed'[k] = Passed[k + 1] /\ Passed[k + 1] \in Int
    BY <1>5, <1>6
  <2>2. Passed[k + 1] > rcvNext
    BY <1>1, <1>8, <2>1
  <2>3. /\ \A i \in DOMAIN buff : buff[i] < Passed[k + 1]
        /\ \A j \in DOMAIN Passed : j < k + 1 => Passed[j] < Passed[k + 1]
    BY <2>1, <2>2 DEF PutFifo, PutPackets
  <2>4. pack < Passed[k + 1]
    BY <1>5, <2>1, <2>3
  <2>5. \A i \in DOMAIN buff' : buff'[i] < Passed'[k]
    BY <2>1, <2>3, <2>4
  <2>6. ASSUME NEW j \in DOMAIN Passed', j < k
        PROVE  Passed'[j] < Passed'[k]
    <3>1. j + 1 \in DOMAIN Passed /\ j + 1 < k + 1 /\ Passed'[j] = Passed[j + 1]
      BY <1>5, <2>1, <2>6
    <3> QED BY <2>1, <2>3, <3>1
  <2> QED BY <2>5, <2>6
<1>9. PutPackets'
  <2>1. avb' = FALSE
    BY DEF UsePacket
  <2> QED BY <1>7, <1>8, <2>1 DEF PutPackets
<1> QED BY <1>3, <1>4, <1>9 DEF PutFifo

\* The answer of the worker, if it can be sent.
LEMMA AnswerSent ==
  ASSUME NEW state, NEW ack, NEW lost \in BOOLEAN, Answer(ack, state, lost)
  PROVE  /\ server' \in {state, "returned"}
         /\ toClient' = toClient \/ SendAck(ack, lost)
BY DEF Answer

\* What the worker takes is the oldest packet handed over.
LEMMA PutFifoWorker ==
  ASSUME PutInv, PutFifo, NEW lost \in BOOLEAN, Worker(lost) \/ RefusePut
  PROVE  PutFifo'
<1>1. UNCHANGED <<clientVars, mainVars, pack, toServer>>
  BY DEF Worker, AcceptPut, RefusePut, PutSize, PutInOrder, PutOutOfOrder, PutDuplicate
<1>2. /\ next' = next /\ next \in Nat /\ rcvNext \in Nat /\ N \in Nat
      /\ buff \in Seq(Int) /\ Len(buff) \in Nat /\ DOMAIN buff = 1..Len(buff)
      /\ pack \in Packets /\ pack \in Int /\ SeqNum(pack) = pack
      /\ \A i \in DOMAIN buff : buff[i] \in Int /\ SeqNum(buff[i]) = buff[i]
  <2>1. buff \in Seq(Packets) /\ pack \in Packets
    BY DEF PutInv, TypeOK
  <2>2. buff \in Seq(Int) /\ Len(buff) \in Nat /\ DOMAIN buff = 1..Len(buff)
    BY <2>1, PacketsAreNumbers, LenProperties
  <2>3. \A i \in DOMAIN buff : buff[i] \in Packets
    BY <2>1, <2>2, ElementOfSeq
  <2>4. next' = next /\ next \in Nat /\ rcvNext \in Nat /\ N \in Nat
    BY <1>1, PutNumbers DEF clientVars, senderVars
  <2> QED BY <2>1, <2>2, <2>3, <2>4, PacketNumbers
<1>3. PutBuffer
  BY DEF PutFifo
<1>4. CASE AcceptPut(lost) \/ RefusePut
  <2>1. /\ UNCHANGED <<muxVars, rcvNext, buff>>
        /\ toClient' = toClient \/ SendAck(rcvNext', lost)
    BY <1>4 DEF AcceptPut, RefusePut, fileVars, PutInv, PutWritten
  <2>2. PutDone' = PutDone /\ UNCHANGED windowVars
    BY <1>1 DEF clientVars, senderVars, PutDone
  <2>3. PutWindow' /\ Base' = Base
    BY <1>2, <2>2, PutWindowKept DEF PutFifo
  <2>4. PutAcks'
    BY <1>2, <2>1, <2>3, AckAdded DEF PutFifo
  <2>5. Passed' = Passed /\ avb' = avb /\ free' = free
    BY <1>1, <2>1 DEF Passed, Handed, Taken, muxVars, mainVars
  <2>6. PutPackets'
    BY <1>2, <2>1, <2>5 DEF PutFifo, PutPackets
  <2>7. PutBuffer'
    BY <1>2, <1>3, <1>4, <2>1 DEF AcceptPut, RefusePut, PutBuffer
  <2> QED BY <2>3, <2>4, <2>6, <2>7 DEF PutFifo
<1>5. CASE PutSize(lost)
  <2>1. UsePacket /\ buff = << >> /\ buff' = buff /\ rcvNext = 0 /\ server = "size"
    BY <1>3, <1>5 DEF PutSize, PutBuffer, PutInv, PutWritten
  <2>2. /\ rcvNext' \in Int /\ rcvNext <= rcvNext' /\ server' # "corrupt"
        /\ toClient' = toClient \/ SendAck(rcvNext', lost)
    <3>1. CASE SeqNum(pack) # rcvNext
      BY <1>2, <1>5, <2>1, <3>1 DEF PutSize
    <3>2. CASE SeqNum(pack) = rcvNext
      <4> DEFINE state == IF N = 0 THEN "returned" ELSE "data"
      <4>1. rcvNext' = SeqAfter(pack) /\ Answer(rcvNext', state, lost)
        BY <1>5, <3>2 DEF PutSize
      <4>2. state \in {"returned", "data"}
        OBVIOUS
      <4> HIDE DEF state
      <4>3. server' \in {state, "returned"} /\ (toClient' = toClient \/ SendAck(rcvNext', lost))
        BY <4>1, AnswerSent
      <4>4. rcvNext' = pack + 1
        BY <1>2, <4>1, PacketNumbers
      <4>5. rcvNext' \in Int /\ rcvNext <= rcvNext'
        <5>1. pack = rcvNext /\ rcvNext \in Nat
          BY <1>2, <3>2
        <5> QED BY <4>4, <5>1
      <4> QED BY <4>2, <4>3, <4>5
    <3> QED BY <3>1, <3>2
  <2>3. DOMAIN buff' = {}
    BY <2>1, EmptySeq
  <2>4. PutBuffer'
    BY <2>1, <2>2, <2>3 DEF PutBuffer, Increasing
  <2> QED BY <1>1, <2>1, <2>2, <2>3, <2>4, PutFifoUsed
<1>6. CASE PutInOrder(lost)
  <2>1. UsePacket /\ pack = rcvNext
    BY <1>2, <1>6 DEF PutInOrder
  <2>2. PICK k \in 0..Len(buff) :
          /\ Drains(pack, buff, k)
          /\ k # RWND =>
               /\ rcvNext' = SeqAfter(IF k = 0 THEN pack ELSE buff[k])
               /\ buff' = ReorderBuffer(buff, k)
               /\ Answer(rcvNext', IF Len(writes') = N THEN "returned" ELSE "data", lost)
    BY <1>6 DEF PutInOrder
  <2>3. k # RWND /\ k \in Nat
    <3>1. Len(buff) < RWND /\ RWND \in Nat
      BY RoomForChunks, WindowsAssumption
    <3> QED BY <1>2, <3>1
  <2>4. server' # "corrupt" /\ (toClient' = toClient \/ SendAck(rcvNext', lost))
        /\ server' \notin {"accept", "size"}
    <3> DEFINE state == IF Len(writes') = N THEN "returned" ELSE "data"
    <3>1. state \in {"returned", "data"} /\ Answer(rcvNext', state, lost)
      BY <2>2, <2>3
    <3> HIDE DEF state
    <3>2. server' \in {state, "returned"} /\ (toClient' = toClient \/ SendAck(rcvNext', lost))
      BY <3>1, AnswerSent
    <3> QED BY <3>1, <3>2
  <2>5. rcvNext' \in Int /\ rcvNext <= rcvNext'
    <3>1. rcvNext' = SeqNum(pack + k + 1) /\ SeqNum(pack) <= rcvNext'
      BY <1>2, <2>2, <2>3, DrainedNext
    <3>2. pack + k + 1 \in Int
      BY <1>2
    <3> QED BY <1>2, <2>1, <3>1, <3>2, SeqNumValue
  <2>6. /\ \A i \in DOMAIN buff' : k + i \in DOMAIN buff /\ buff'[i] = buff[k + i]
        /\ \A i \in DOMAIN buff' : rcvNext' < SeqNum(buff'[i])
        /\ Increasing(buff')
    <3>1. \A i \in DOMAIN buff : SeqNum(pack) < SeqNum(buff[i])
      BY <1>2, <1>3, <2>1 DEF PutBuffer
    <3>2. Increasing(buff)
      BY <1>3 DEF PutBuffer
    <3>3. /\ k \in Nat /\ Drains(pack, buff, k)
          /\ rcvNext' = SeqAfter(IF k = 0 THEN pack ELSE buff[k])
          /\ buff' = ReorderBuffer(buff, k)
      BY <2>2, <2>3
    <3>4. buff \in Seq(Int) /\ pack \in Int
      BY <1>2
    <3> QED BY <3>1, <3>2, <3>3, <3>4, DrainedAhead
  <2>7. PutBuffer'
    <3>1. \A i \in DOMAIN buff' : rcvNext' < buff'[i] /\ buff'[i] < next'
      BY <1>2, <1>3, <2>6 DEF PutBuffer
    <3> QED BY <2>4, <2>6, <3>1 DEF PutBuffer
  <2>8. \A i \in DOMAIN buff' : \E j \in DOMAIN buff : buff'[i] = buff[j]
    BY <2>6
  <2> QED BY <1>1, <2>1, <2>4, <2>5, <2>7, <2>8, PutFifoUsed
<1>7. CASE PutOutOfOrder(lost)
  <2>1. UsePacket /\ pack > rcvNext /\ rcvNext' = rcvNext
    BY <1>2, <1>7 DEF PutOutOfOrder
  <2>2. pack < next /\ \A i \in DOMAIN buff : buff[i] < pack
    <3>1. 1 \in DOMAIN Passed /\ Passed[1] = pack
      BY <1>1, <2>1, PassedUsed DEF PutInv
    <3> QED BY <2>1, <3>1 DEF PutFifo, PutPackets
  <2>3. ~ MustOrder(pack, buff) /\ Increasing(Append(buff, pack))
    BY <1>2, <1>3, <2>2, StoredLast DEF PutBuffer
  <2>4. buff' = Append(buff, pack) /\ Answer(rcvNext, "data", lost)
    BY <1>7, <2>3, RoomForChunks DEF PutOutOfOrder, StoreRwnd
  <2>5. server' \in {"data", "returned"} /\ (toClient' = toClient \/ SendAck(rcvNext', lost))
    BY <2>1, <2>4, AnswerSent
  <2>6. \A i \in DOMAIN buff' :
          buff'[i] = pack \/ (i \in DOMAIN buff /\ buff'[i] = buff[i])
    BY <1>2, <2>4, AppendedLast
  <2>7. PutBuffer'
    <3>1. \A i \in DOMAIN buff' : rcvNext' < buff'[i] /\ buff'[i] < next'
      BY <1>2, <1>3, <2>1, <2>2, <2>6 DEF PutBuffer
    <3> QED BY <2>3, <2>4, <2>5, <3>1 DEF PutBuffer
  <2> QED BY <1>1, <1>2, <2>1, <2>5, <2>6, <2>7, PutFifoUsed
<1>8. CASE PutDuplicate(lost)
  <2>1. UsePacket /\ rcvNext' = rcvNext /\ buff' = buff /\ Answer(rcvNext, "data", lost)
    BY <1>8 DEF PutDuplicate, fileVars
  <2>2. server' \in {"data", "returned"} /\ (toClient' = toClient \/ SendAck(rcvNext', lost))
    BY <2>1, AnswerSent
  <2>3. PutBuffer'
    BY <1>2, <1>3, <2>1, <2>2 DEF PutBuffer
  <2> QED BY <1>1, <1>2, <2>1, <2>2, <2>3, PutFifoUsed
<1> QED BY <1>4, <1>5, <1>6, <1>7, <1>8 DEF Worker

\* Every step on a network that keeps the order keeps PutFifo.
LEMMA PutFifoNext ==
  ASSUME ~Reorder, PutInv, PutFifo, [Next]_vars
  PROVE  PutFifo'
<1>1. ASSUME NEW lost \in BOOLEAN, ClientThread(lost) PROVE PutFifo'
  <2>1. CASE RequestAcked \/ SizeAcked
    BY <2>1, PutFifoAwait
  <2>2. CASE SendSize(lost) \/ SendChunk(lost)
    BY <2>2, PutFifoSend
  <2>3. CASE PutChunk
    BY <2>3, PutFifoChunk
  <2>4. CASE NotFull \/ Join
    <3>1. /\ PutDone' = PutDone /\ next' = next
          /\ UNCHANGED <<windowVars, mainVars, muxVars, pack, serverVars, toServer, toClient>>
      BY <2>4 DEF NotFull, GoOn, Join, PutDone
    <3> QED BY <3>1, PutFifoQuiet
  <2> QED BY <1>1, <2>1, <2>2, <2>3, <2>4 DEF ClientThread
<1>2. ASSUME NEW lost \in BOOLEAN, AckReceived(lost) PROVE PutFifo'
  BY <1>2, PutFifoAck
<1>3. ASSUME NEW lost \in BOOLEAN, Resend(lost) PROVE PutFifo'
  BY <1>3, PutFifoTimerAndMain
<1>4. CASE Timer \/ Server
  BY <1>4, PutFifoTimerAndMain
<1>5. ASSUME NEW lost \in BOOLEAN, Worker(lost) PROVE PutFifo'
  BY <1>5, PutFifoWorker
<1>6. CASE RefusePut
  BY <1>6, PutFifoWorker
<1>7. CASE ClientFails \/ UNCHANGED vars
  <2>1. /\ PutDone' = PutDone /\ next' = next
        /\ UNCHANGED <<windowVars, mainVars, muxVars, pack, serverVars, toServer, toClient>>
    BY <1>7 DEF ClientFails, vars, clientVars, senderVars, PutDone
  <2> QED BY <2>1, PutFifoQuiet
<1> QED BY <1>1, <1>2, <1>3, <1>4, <1>5, <1>6, <1>7 DEF Next, Client

\* On a network that keeps the order the window of request_put holds the chunks from
\* the first one that may not be acknowledged, and the chunks that are ahead of what
\* the worker expects come to it, through main, in order.
THEOREM PutFifoCorrect == ASSUME ~Reorder PROVE Spec => [](PutInv /\ PutFifo)
<1>1. Init => PutInv /\ PutFifo
  BY PutInit, PutFifoInit
<1>2. PutInv /\ PutFifo /\ [Next]_vars => (PutInv /\ PutFifo)'
  BY PutNext, PutFifoNext
<1> QED BY <1>1, <1>2, PTL DEF Spec

\* What request_put has discarded from its window the worker has received
\* (client/windows.c:23-41, 152-190).
THEOREM PutDiscardedCorrect == ASSUME ~Reorder PROVE Spec => []DiscardedIsReceived
<1>1. PutInv /\ PutFifo => DiscardedIsReceived
  <2> SUFFICES ASSUME PutInv, PutFifo, NEW p \in 1..(next - 1)
               PROVE  \/ SeqAfter(p) <= rcvNext
                      \/ \E i \in DOMAIN wnd : wnd[i] = p
                      \/ p = next - 1 /\ pc = "put"
    BY DEF DiscardedIsReceived
  <2>1. /\ next \in Nat /\ next <= N + 1 /\ N \in Nat /\ rcvNext \in Nat /\ p \in Int
        /\ Len(wnd) \in Nat /\ DOMAIN wnd = 1..Len(wnd) /\ PutDone \in Nat
        /\ Base = PutDone - Len(wnd) /\ Base <= rcvNext
    BY PutNumbers DEF PutFifo, PutAcks, Base
  <2>2. CASE p < Base
    <3>1. SeqAfter(p) = p + 1
      BY <2>1 DEF SeqAfter, SeqNum, DataSize
    <3> QED BY <2>1, <2>2, <3>1
  <2>3. CASE Base <= p /\ p < PutDone
    <3>1. p - Base + 1 \in DOMAIN wnd /\ Base + (p - Base + 1) - 1 = p
      BY <2>1, <2>3
    <3>2. wnd[p - Base + 1] = p
      BY <3>1 DEF PutFifo, PutWindow
    <3> QED BY <3>1, <3>2
  <2>4. CASE PutDone <= p
    <3>1. pc = "sizeWait" => next = 1
      BY DEF PutInv, PutControl
    <3> QED BY <2>1, <2>4, <3>1 DEF PutDone
  <2> QED BY <2>1, <2>2, <2>3, <2>4
<1> QED BY <1>1, PutFifoCorrect, PTL

\* The hand-over by main neither fills the receive buffer of response_put nor puts a
\* packet in front of a buffered one (server.c:463, windows.c:83).
THEOREM PutBufferCorrect == ASSUME ~Reorder PROVE Spec => []BufferAhead
<1>1. PutInv /\ PutFifo => BufferAhead
  <2> SUFFICES ASSUME PutInv, PutFifo PROVE BufferAhead
    OBVIOUS
  <2>1. PutBuffer /\ Len(buff) < RWND
    BY RoomForChunks DEF PutFifo
  <2>2. \A i \in DOMAIN buff : buff[i] \in Int /\ i \in Int /\ SeqNum(buff[i]) = buff[i]
    <3>1. buff \in Seq(Packets)
      BY DEF PutInv, TypeOK
    <3>2. \A i \in DOMAIN buff : buff[i] \in Packets /\ i \in Int
      BY <3>1, ElementOfSeq, LenProperties
    <3> QED BY <3>2, PacketNumbers
  <2>3. ASSUME NEW i \in DOMAIN buff, NEW j \in DOMAIN buff, i < j
        PROVE  buff[i] < buff[j]
    BY <2>1, <2>2, <2>3 DEF PutBuffer, Increasing
  <2>4. rcvNext \in Nat
    BY PutNumbers
  <2> QED BY <2>1, <2>2, <2>3, <2>4 DEF BufferAhead, PutBuffer
<1> QED BY <1>1, PutFifoCorrect, PTL
=============================================================================
