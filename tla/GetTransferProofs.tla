-------------------------- MODULE GetTransferProofs --------------------------
(***************************************************************************)
(* Proofs of the properties of GetTransfer, and of the end of both         *)
(* downloads, for every size of the file, of the windows and of the socket *)
(* buffers.                                                                *)
(***************************************************************************)
EXTENDS Downloads, WindowLemmas

----------------------------------------------------------------------------
(***************************************************************************)
(* Lemmas on numbers and sequences.                                        *)
(***************************************************************************)

\* A datagram is appended or lost; the channel never exceeds its capacity.
LEMMA TransmitProperties ==
  ASSUME NEW S, NEW s \in Seq(S), NEW m \in S, NEW lost \in BOOLEAN,
         Len(s) <= Cap
  PROVE  /\ Transmit(s, m, lost) \in Seq(S)
         /\ Len(Transmit(s, m, lost)) <= Cap
         /\ Transmit(s, m, lost) = s \/ Transmit(s, m, lost) = Append(s, m)
<1>1. Len(s) \in Nat
  BY LenProperties
<1>2. Append(s, m) \in Seq(S) /\ Len(Append(s, m)) = Len(s) + 1
  BY AppendProperties
<1> QED BY <1>1, <1>2, GetAssumption DEF Transmit

\* The numbers of the packets.
LEMMA PacketNumbers ==
  /\ LoopLast \in Nat \ {0} /\ LoopLast \in {N, N + 1}
  /\ Eof = LoopLast + 1
  /\ Packets = 0..Eof
BY WindowsAssumption, GetAssumption DEF LoopLast, Eof, Packets

\* A sequence number is one an ACK can carry, and so is the next one.
LEMMA SequenceNumbers ==
  ASSUME NEW p \in Nat
  PROVE  /\ SeqNum(p) \in AckNums
         /\ SeqAfter(p) \in AckNums
         /\ SeqAfter(p) = SeqNum(p + 1)
BY WindowsAssumption DEF SeqNum, SeqAfter, DataSize, AckNums

\* The lemmas on windows are about sequences of integers.
LEMMA PacketsAreNumbers ==
  ASSUME NEW s \in Seq(Packets)
  PROVE  s \in Seq(Int)
<1>1. Packets \subseteq Int
  BY PacketNumbers
<1> QED BY <1>1, WiderSequence

\* The packets of a transfer have such sequence numbers.
LEMMA PacketSequence ==
  ASSUME NEW p \in Packets
  PROVE  p \in Nat /\ SeqNum(p) \in AckNums /\ SeqAfter(p) \in AckNums
<1>1. p \in Nat
  BY PacketNumbers
<1> QED BY <1>1, SequenceNumbers

----------------------------------------------------------------------------
(***************************************************************************)
(* Type correctness.                                                       *)
(***************************************************************************)

\* At first nothing was sent, and the window is empty.
LEMMA TypeInit == Init => TypeInv
<1> SUFFICES ASSUME Init PROVE TypeInv
  OBVIOUS
<1>1. /\ << >> \in Seq(Packets) /\ << >> \in Seq(Messages)
      /\ << >> \in Seq(AckNums) /\ Len(<< >>) = 0
  BY EmptySeq
<1>2. TypeOK
  <2>1. /\ pc \in WorkerStates /\ handler \in HandlerStates
        /\ client \in ClientStates
    BY DEF Init, WorkerStates, HandlerStates, ClientStates
  <2>2. /\ next \in 0..(Eof + 1) /\ rtx \in Packets
        /\ rcvNext \in AckNums /\ lastAck \in AckNums /\ dup \in 0..NeverThree
    BY PacketNumbers, WindowsAssumption DEF Init, AckNums
  <2>3. missing \in BOOLEAN /\ armed \in BOOLEAN /\ crashed \in BOOLEAN
    BY DEF Init
  <2>4. /\ wnd \in Seq(Packets) /\ Len(wnd) <= WND
        /\ buff \in Seq(Packets) /\ Len(buff) <= RWND
        /\ writes \in Seq(Packets)
        /\ toClient \in Seq(Messages) /\ Len(toClient) <= Cap
        /\ toServer \in Seq(AckNums) /\ Len(toServer) <= Cap
    BY <1>1, WindowsAssumption, GetAssumption DEF Init
  <2> QED BY <2>1, <2>2, <2>3, <2>4 DEF TypeOK
<1>3. Control
  BY DEF Init, Control
<1>4. WindowSent
  BY EmptySeq DEF Init, WindowSent, PutDone
<1> QED BY <1>2, <1>3, <1>4 DEF TypeInv

\* What the worker sends is a message with the number of a packet.
LEMMA SendPacketType ==
  ASSUME TypeInv, NEW p \in Packets, NEW lost \in BOOLEAN, SendPacket(p, lost)
  PROVE  toClient' \in Seq(Messages) /\ Len(toClient') <= Cap
<1>1. PacketMessage(p) \in Messages
  BY DEF PacketMessage, Messages, MessageTypes
<1> QED BY <1>1, TransmitProperties DEF SendPacket, TypeInv, TypeOK

\* Every step of response_get keeps the types and what is known of next.
LEMMA TypeWorker ==
  ASSUME TypeInv, NEW lost \in BOOLEAN, Worker(lost)
  PROVE  TypeInv'
<1> USE PacketNumbers, WindowsAssumption DEF TypeInv
<1>0. Len(wnd) \in Nat /\ DOMAIN wnd = 1..Len(wnd)
  BY LenProperties DEF TypeOK
<1>1. CASE AcceptRequest(lost)
  <2>1. [type |-> "ACK", n |-> 0] \in Messages
    BY DEF Messages, MessageTypes
  <2>2. toClient' \in Seq(Messages) /\ Len(toClient') <= Cap
    BY <1>1, <2>1, TransmitProperties DEF AcceptRequest, TypeOK
  <2>3. TypeOK'
    BY <1>1, <2>2 DEF AcceptRequest, TypeOK, WorkerStates, timerVars, ackVars,
                      clientVars
  <2>4. Control' /\ WindowSent'
    BY <1>1 DEF AcceptRequest, Control, WindowSent, PutDone
  <2> QED BY <2>3, <2>4
<1>2. CASE SendError(lost)
  <2>1. toClient' \in Seq(Messages) /\ Len(toClient') <= Cap
    BY <1>2, SendPacketType DEF SendError
  <2>2. TypeOK'
    BY <1>2, <2>1 DEF SendError, TypeOK, WorkerStates, timerVars, ackVars,
                      clientVars
  <2>3. Control'
    BY <1>2 DEF SendError, Control
  <2>4. WindowSent'
    BY <1>2, <1>0, EmptySeq DEF SendError, Control, WindowSent, PutDone
  <2> QED BY <2>2, <2>3, <2>4
<1>3. ASSUME NEW from, NEW to, SendNext(from, to, lost),
             <<from, to>> \in {<<"size", "firstPut">>, <<"read", "put">>,
                              <<"eof", "eofPut">>}
      PROVE  TypeInv'
  <2>1. next \in Packets /\ next + 1 \in 0..(Eof + 1)
    BY <1>3 DEF SendNext, TypeOK, Control
  <2>2. toClient' \in Seq(Messages) /\ Len(toClient') <= Cap
    BY <1>3, <2>1, SendPacketType DEF SendNext
  <2>3. TypeOK'
    BY <1>3, <2>1, <2>2 DEF SendNext, TypeOK, WorkerStates, timerVars, ackVars,
                            clientVars
  <2>4. Control'
    BY <1>3, <2>1 DEF SendNext, Control
  <2>5. WindowSent'
    <3>1. wnd' = wnd /\ PutDone' = PutDone
      BY <1>3, <2>1 DEF SendNext, PutDone
    <3> QED BY <3>1 DEF WindowSent
  <2> QED BY <2>3, <2>4, <2>5
<1>4. ASSUME NEW from, NEW to, PutInWindow(from, to),
             <<from, to>> \in {<<"firstPut", "firstArm">>, <<"put", "check">>,
                              <<"eofPut", "eofWait">>}
      PROVE  TypeInv'
  <2>1. next - 1 \in Packets /\ Len(wnd) < WND
    BY <1>4, <1>0, EmptySeq DEF PutInWindow, TypeOK, Control
  <2>2. /\ wnd' \in Seq(Packets) /\ Len(wnd') = Len(wnd) + 1
        /\ \A i \in 1..Len(wnd) : wnd'[i] = wnd[i]
        /\ wnd'[Len(wnd) + 1] = next - 1
    BY <1>4, <2>1, AppendProperties DEF PutInWindow, UpdateWindow, TypeOK
  <2>3. DOMAIN wnd' = 1..(Len(wnd) + 1)
    BY <2>2, LenProperties
  <2>4. pc' \in WorkerStates /\ Len(wnd') <= WND
    BY <1>4, <1>0, <2>1, <2>2 DEF PutInWindow, WorkerStates
  <2>5. /\ UNCHANGED <<missing, next, armed, handler, rtx, lastAck, dup, crashed>>
        /\ UNCHANGED <<client, rcvNext, buff, writes, toClient, toServer>>
    BY <1>4 DEF PutInWindow, timerVars, ackVars, clientVars, channels
  <2>6. TypeOK'
    BY <2>2, <2>4, <2>5 DEF TypeOK
  <2>7. next \in Nat /\ \A i \in 1..Len(wnd) : wnd[i] \in Packets
    BY ElementOfSeq DEF TypeOK
  <2>8. WindowSent'
    <3>1. PutDone = next - 1 /\ PutDone' = next
      BY <1>4, <2>5 DEF PutInWindow, PutDone
    <3>2. \A i \in 1..Len(wnd) : wnd[i] < next /\ wnd'[i] = wnd[i]
      BY <1>0, <2>2, <2>7, <3>1, PacketNumbers DEF WindowSent
    <3> QED BY <1>0, <2>2, <2>3, <2>7, <3>1, <3>2 DEF WindowSent
  <2>9. Control'
    BY <1>4, <2>5 DEF PutInWindow, Control
  <2> QED BY <2>6, <2>8, <2>9
<1>5. ASSUME NEW from, NEW to, ArmTimer(from, to),
             <<from, to>> \in {<<"firstArm", "firstWait">>, <<"arm", "full">>}
      PROVE  TypeInv'
  <2>1. TypeOK'
    BY <1>5 DEF ArmTimer, TypeOK, WorkerStates, timerVars, ackVars, clientVars,
                channels
  <2>2. Control' /\ WindowSent'
    BY <1>5 DEF ArmTimer, Control, WindowSent, PutDone
  <2> QED BY <2>1, <2>2
<1>6. CASE CheckWindow
  <2>1. TypeOK'
    BY <1>6 DEF CheckWindow, TypeOK, WorkerStates, timerVars, ackVars,
                clientVars, channels
  <2>2. Control' /\ WindowSent'
    BY <1>6 DEF CheckWindow, Control, WindowSent, PutDone
  <2> QED BY <2>1, <2>2
<1>7. CASE FirstAcked \/ NotFull \/ AllAcked
  <2>1. TypeOK'
    BY <1>7 DEF FirstAcked, NotFull, AllAcked, WaitUntil, TypeOK, WorkerStates,
                timerVars, ackVars, clientVars, channels
  <2>2. next' = next /\ wnd' = wnd
    BY <1>7 DEF FirstAcked, NotFull, AllAcked, WaitUntil
  <2>3. WindowSent'
    BY <1>7, <2>2 DEF FirstAcked, NotFull, AllAcked, WaitUntil, WindowSent, PutDone
  <2>4. CASE FirstAcked
    <3>1. next = 1 /\ Len(wnd) = 0 /\ pc' \in {"returned", "read"}
      BY <2>4, EmptySeq DEF FirstAcked, WaitUntil, Control
    <3> QED BY <2>1, <2>2, <2>3, <3>1 DEF Control
  <2>5. CASE NotFull
    <3>1. /\ next \in 2..(LoopLast + 1) /\ Len(wnd) < WND
          /\ pc' = IF next <= LoopLast THEN "read" ELSE "eof"
      BY <2>5 DEF NotFull, WaitUntil, Control
    <3> QED BY <2>1, <2>2, <2>3, <3>1 DEF Control
  <2>6. CASE AllAcked
    BY <2>1, <2>2, <2>3, <2>6 DEF AllAcked, WaitUntil, Control
  <2> QED BY <1>7, <2>4, <2>5, <2>6
<1> QED
  BY <1>1, <1>2, <1>3, <1>4, <1>5, <1>6, <1>7
     DEF Worker, SendSize, SendData, SendEof, PutFirst, PutData, PutEof,
         ArmFirst, ArmData

\* What an ACK leaves of the window is its end.
LEMMA RefreshProperties ==
  ASSUME TypeInv, NEW i \in 0..Len(wnd)
  PROVE  /\ RefreshWindow(wnd, i) \in Seq(Packets)
         /\ Len(RefreshWindow(wnd, i)) = Len(wnd) - i
         /\ \A j \in 1..(Len(wnd) - i) : RefreshWindow(wnd, i)[j] = wnd[i + j]
         /\ DOMAIN RefreshWindow(wnd, i) = 1..(Len(wnd) - i)
<1>1. wnd \in Seq(Packets)
  BY DEF TypeInv, TypeOK
<1>2. /\ RefreshWindow(wnd, i) \in Seq(Packets)
      /\ Len(RefreshWindow(wnd, i)) = Len(wnd) - i
      /\ \A j \in 1..(Len(wnd) - i) : RefreshWindow(wnd, i)[j] = wnd[i + j]
  BY <1>1, SuffixProperties DEF RefreshWindow
<1> QED BY <1>2, LenProperties

\* An ACK only makes the window shorter.
LEMMA TypeIncomingAck ==
  ASSUME TypeInv, NEW lost \in BOOLEAN, IncomingAck(lost)
  PROVE  TypeInv'
<1> USE DEF TypeInv
<1>1. PICK m \in Deliverable(toServer) :
        /\ toServer' = RemoveAt(toServer, m)
        /\ CountAck(toServer[m])
        /\ UNCHANGED <<workerVars, handler, rtx, clientVars>>
        /\ \/ /\ crashed' = TRUE /\ armed' = FALSE
              /\ UNCHANGED <<wnd, toClient>>
           \/ /\ FastRetransmission(toServer[m]) => wnd # << >>
              /\ UNCHANGED crashed
              /\ \E resent \in BOOLEAN, i \in 0..Len(wnd) :
                   /\ resent => FastRetransmission(toServer[m])
                   /\ IF resent THEN SendPacket(Head(wnd), lost) ELSE UNCHANGED toClient
                   /\ wnd' = RefreshWindow(wnd, i)
                   /\ armed' = TimerAfterAck(toServer[m], resent, i)
  BY DEF IncomingAck
<1>2. m \in 1..Len(toServer) /\ toServer[m] \in AckNums
  BY ElementOfSeq, LenProperties DEF Deliverable, TypeOK
<1>3. toServer' \in Seq(AckNums) /\ Len(toServer') <= Cap
  <2>1. toServer \in Seq(AckNums) /\ Len(toServer) \in Nat /\ Len(toServer) <= Cap
    BY LenProperties DEF TypeOK
  <2>2. toServer' \in Seq(AckNums) /\ Len(toServer') = Len(toServer) - 1
    BY <1>1, <1>2, <2>1, RemoveAtProperties
  <2> QED BY <2>1, <2>2, GetAssumption
<1>4. lastAck' \in AckNums /\ dup' \in 0..NeverThree
  BY <1>1, <1>2 DEF CountAck, NeverThree, TypeOK
<1>5. /\ pc' = pc /\ missing' = missing /\ next' = next /\ handler' = handler
      /\ rtx' = rtx /\ client' = client /\ rcvNext' = rcvNext
      /\ buff' = buff /\ writes' = writes
  BY <1>1 DEF workerVars, clientVars
<1>6. toClient' \in Seq(Messages) /\ Len(toClient') <= Cap
  <2>1. CASE SendPacket(Head(wnd), lost) /\ wnd # << >>
    <3>1. Head(wnd) \in Packets
      BY <2>1, HeadIsFirst DEF TypeOK
    <3> QED BY <2>1, <3>1, SendPacketType
  <2>2. CASE UNCHANGED toClient
    BY <2>2 DEF TypeOK
  <2> QED BY <1>1, <2>1, <2>2
<1>7. crashed' \in BOOLEAN /\ armed' \in BOOLEAN
  <2>1. \A resent \in BOOLEAN : \A i : TimerAfterAck(toServer[m], resent, i) \in BOOLEAN
    <3>1. armed \in BOOLEAN
      BY DEF TypeOK
    <3>2. \A i : (i < Len(wnd)) \in BOOLEAN
      BY SMT
    <3> QED BY <3>1, <3>2, Zenon DEF TimerAfterAck
  <2> QED BY <1>1, <2>1 DEF TypeOK
<1>8. /\ wnd' \in Seq(Packets) /\ Len(wnd') <= Len(wnd)
      /\ \A j \in DOMAIN wnd' : \E k \in DOMAIN wnd : wnd'[j] = wnd[k]
      /\ wnd = << >> => wnd' = << >>
  <2>1. wnd \in Seq(Packets) /\ Len(wnd) \in Nat /\ DOMAIN wnd = 1..Len(wnd)
    BY LenProperties DEF TypeOK
  <2>2. CASE wnd' = wnd
    BY <2>1, <2>2
  <2>3. CASE \E i \in 0..Len(wnd) : wnd' = RefreshWindow(wnd, i)
    <3>1. PICK i \in 0..Len(wnd) : wnd' = RefreshWindow(wnd, i)
      BY <2>3
    <3>2. /\ wnd' \in Seq(Packets) /\ Len(wnd') = Len(wnd) - i
          /\ \A j \in 1..(Len(wnd) - i) : wnd'[j] = wnd[i + j]
          /\ DOMAIN wnd' = 1..(Len(wnd) - i)
      BY <3>1, RefreshProperties
    <3>3. \A j \in 1..(Len(wnd) - i) : i + j \in DOMAIN wnd
      BY <2>1
    <3>4. wnd = << >> => wnd' = << >>
      <4>1. Len(wnd') = 0 => wnd' = << >>
        BY <3>2, EmptySeq
      <4> QED BY <2>1, <3>2, <4>1, EmptySeq
    <3>5. Len(wnd') <= Len(wnd)
      BY <2>1, <3>2
    <3>6. \A j \in DOMAIN wnd' : i + j \in DOMAIN wnd /\ wnd'[j] = wnd[i + j]
      BY <3>2, <3>3
    <3>7. \A j \in DOMAIN wnd' : \E k \in DOMAIN wnd : wnd'[j] = wnd[k]
      BY <3>6, Zenon
    <3> QED BY <3>2, <3>4, <3>5, <3>7
  <2> QED BY <1>1, <2>2, <2>3
<1>9. TypeOK'
  <2>1. Len(wnd') <= WND
    BY <1>8, LenProperties, WindowsAssumption DEF TypeOK
  <2>2. /\ pc' \in WorkerStates /\ missing' \in BOOLEAN
        /\ next' \in 0..(Eof + 1) /\ handler' \in HandlerStates
        /\ rtx' \in Packets /\ client' \in ClientStates
        /\ rcvNext' \in AckNums /\ writes' \in Seq(Packets)
        /\ buff' \in Seq(Packets) /\ Len(buff') <= RWND
    BY <1>5 DEF TypeOK
  <2> QED BY <1>3, <1>4, <1>6, <1>7, <1>8, <2>1, <2>2 DEF TypeOK
<1>10. WindowSent'
  BY <1>5, <1>8 DEF WindowSent, PutDone
<1>11. Control'
  <2>1. Len(wnd') \in Nat /\ Len(wnd) \in Nat
    BY <1>8, LenProperties DEF TypeOK
  <2> QED BY <1>5, <1>8, <2>1, WindowsAssumption DEF Control
<1> QED BY <1>9, <1>10, <1>11

\* The signal handler, and the actions of a call that fails.
LEMMA TypeHandler ==
  ASSUME TypeInv, NEW lost \in BOOLEAN,
         Expire \/ FetchBase \/ Resend(lost) \/ ResendFails \/ GiveUp
  PROVE  TypeInv'
<1> USE DEF TypeInv, TypeOK, timerVars, ackVars, clientVars, channels, workerVars
<1>1. CASE Expire
  <2>1. TypeOK' BY <1>1 DEF Expire, HandlerStates
  <2>2. Control' /\ WindowSent' BY <1>1 DEF Expire, Control, WindowSent, PutDone
  <2> QED BY <2>1, <2>2
<1>2. CASE FetchBase
  <2>1. wnd # << >> => Head(wnd) \in Packets
    BY HeadIsFirst
  <2>2. TypeOK' BY <1>2, <2>1 DEF FetchBase, HandlerStates
  <2>3. Control' /\ WindowSent' BY <1>2 DEF FetchBase, Control, WindowSent, PutDone
  <2> QED BY <2>2, <2>3
<1>3. CASE Resend(lost)
  <2>1. toClient' \in Seq(Messages) /\ Len(toClient') <= Cap
    BY <1>3, SendPacketType DEF Resend
  <2>2. TypeOK' BY <1>3, <2>1 DEF Resend, HandlerStates
  <2>3. Control' /\ WindowSent' BY <1>3 DEF Resend, Control, WindowSent, PutDone
  <2> QED BY <2>2, <2>3
<1>4. CASE ResendFails
  <2>1. TypeOK' BY <1>4 DEF ResendFails, HandlerStates
  <2>2. Control' /\ WindowSent' BY <1>4 DEF ResendFails, Control, WindowSent, PutDone
  <2> QED BY <2>1, <2>2
<1>5. CASE GiveUp
  <2>1. TypeOK' BY <1>5 DEF GiveUp, WorkerStates
  <2>2. Control' /\ WindowSent' BY <1>5 DEF GiveUp, Control, WindowSent, PutDone
  <2> QED BY <2>1, <2>2
<1> QED BY <1>1, <1>2, <1>3, <1>4, <1>5

\* What the client sends is a sequence number it expects.
LEMMA SendAckType ==
  ASSUME TypeInv, NEW ack \in AckNums, NEW lost \in BOOLEAN, SendAck(ack, lost)
  PROVE  toServer' \in Seq(AckNums) /\ Len(toServer') <= Cap
BY TransmitProperties DEF SendAck, TypeInv, TypeOK

\* The packets that follow an expected one, and what is left of the buffer.
LEMMA DrainTypes ==
  ASSUME TypeInv, NEW p \in Packets, NEW k \in 0..Len(buff)
  PROVE  /\ Append(writes, p) \o SubSeq(buff, 1, k) \in Seq(Packets)
         /\ ReorderBuffer(buff, k) \in Seq(Packets)
         /\ Len(ReorderBuffer(buff, k)) = Len(buff) - k
         /\ (IF k = 0 THEN p ELSE buff[k]) \in Packets
<1>1. buff \in Seq(Packets) /\ writes \in Seq(Packets) /\ Len(buff) \in Nat
  BY LenProperties DEF TypeInv, TypeOK
<1>2. SubSeq(buff, 1, k) \in Seq(Packets)
  BY <1>1, PrefixProperties
<1>3. Append(writes, p) \in Seq(Packets)
  BY <1>1, AppendProperties
<1>4. Append(writes, p) \o SubSeq(buff, 1, k) \in Seq(Packets)
  BY <1>2, <1>3, ConcatProperties
<1>5. /\ ReorderBuffer(buff, k) \in Seq(Packets)
      /\ Len(ReorderBuffer(buff, k)) = Len(buff) - k
  BY <1>1, SuffixProperties DEF ReorderBuffer
<1>6. k # 0 => buff[k] \in Packets
  BY <1>1, ElementOfSeq
<1> QED BY <1>4, <1>5, <1>6

\* What the client stores is a packet, and finds room.
LEMMA TypeClient ==
  ASSUME TypeInv, NEW lost \in BOOLEAN, ClientReceive(lost) \/ ClientFails
  PROVE  TypeInv'
<1> USE DEF TypeInv
<1>1. CASE ClientFails
  <2>1. TypeOK'
    BY <1>1 DEF ClientFails, TypeOK, ClientStates, workerVars, timerVars,
                ackVars, channels
  <2>2. Control' /\ WindowSent'
    BY <1>1 DEF ClientFails, Control, WindowSent, PutDone, workerVars
  <2> QED BY <2>1, <2>2
<1>2. CASE ClientReceive(lost)
  <2>1. PICK d \in Deliverable(toClient) :
          /\ \/ ClientAnswer(toClient[d], lost)
             \/ ClientSize(toClient[d], lost)
             \/ ClientEnd(toClient[d], lost)
             \/ ClientInOrder(toClient[d], lost)
             \/ ClientOutOfOrder(toClient[d], lost)
             \/ ClientDuplicate(toClient[d], lost)
          /\ toClient' = RemoveAt(toClient, d)
          /\ UNCHANGED <<workerVars, wnd, timerVars, ackVars, crashed>>
    BY <1>2 DEF ClientReceive
  <2> DEFINE m == toClient[d]
  <2>2. toClient \in Seq(Messages) /\ Len(toClient) \in Nat /\ Len(toClient) <= Cap
    BY LenProperties DEF TypeOK
  <2>3. d \in 1..Len(toClient) /\ m \in Messages
    BY <2>2, ElementOfSeq, LenProperties DEF Deliverable
  <2>4. toClient' \in Seq(Messages) /\ Len(toClient') <= Cap
    <3>1. toClient' \in Seq(Messages) /\ Len(toClient') = Len(toClient) - 1
      BY <2>1, <2>2, <2>3, RemoveAtProperties
    <3> QED BY <2>2, <3>1, GetAssumption
  <2>5. m.n \in Packets /\ SeqNum(m.n) \in AckNums /\ SeqAfter(m.n) \in AckNums
    <3>1. m.n \in Packets
      BY <2>3 DEF Messages
    <3> QED BY <3>1, PacketSequence
  <2> HIDE DEF m
  <2>6. /\ client' \in ClientStates /\ rcvNext' \in AckNums
        /\ buff' \in Seq(Packets) /\ Len(buff') <= RWND
        /\ writes' \in Seq(Packets)
        /\ toServer' \in Seq(AckNums) /\ Len(toServer') <= Cap
    <3> USE SendAckType DEF TypeOK, ClientStates
    <3>1. CASE ClientAnswer(m, lost)
      <4>1. rcvNext' = rcvNext /\ buff' = buff /\ writes' = writes
        BY <3>1 DEF ClientAnswer
      <4>2. toServer' \in Seq(AckNums) /\ Len(toServer') <= Cap
        BY <3>1 DEF ClientAnswer
      <4>3. client' \in ClientStates
        BY <3>1 DEF ClientAnswer
      <4> QED BY <4>1, <4>2, <4>3
    <3>2. CASE ClientSize(m, lost)
      BY <3>2, <2>5 DEF ClientSize
    <3>3. CASE ClientEnd(m, lost)
      BY <3>3 DEF ClientEnd
    <3>4. CASE ClientInOrder(m, lost)
      <4>1. PICK k \in 0..Len(buff) :
              \/ /\ client' = "corrupt"
                 /\ UNCHANGED <<rcvNext, buff, writes, toServer>>
              \/ /\ rcvNext' = SeqAfter(IF k = 0 THEN m.n ELSE buff[k])
                 /\ writes' = Append(writes, m.n) \o SubSeq(buff, 1, k)
                 /\ buff' = ReorderBuffer(buff, k)
                 /\ SendAck(rcvNext', lost)
                 /\ UNCHANGED client
        BY <3>4 DEF ClientInOrder
      <4>2. /\ Append(writes, m.n) \o SubSeq(buff, 1, k) \in Seq(Packets)
            /\ ReorderBuffer(buff, k) \in Seq(Packets)
            /\ Len(ReorderBuffer(buff, k)) = Len(buff) - k
            /\ (IF k = 0 THEN m.n ELSE buff[k]) \in Packets
        BY <2>5, DrainTypes DEF TypeInv
      <4>3. SeqAfter(IF k = 0 THEN m.n ELSE buff[k]) \in AckNums
        BY <4>2, PacketSequence
      <4>4. Len(buff) \in Nat /\ Len(buff) <= RWND
        BY LenProperties
      <4>5. CASE UNCHANGED <<rcvNext, buff, writes, toServer>> /\ client' = "corrupt"
        BY <4>5
      <4>6. CASE /\ rcvNext' = SeqAfter(IF k = 0 THEN m.n ELSE buff[k])
                 /\ writes' = Append(writes, m.n) \o SubSeq(buff, 1, k)
                 /\ buff' = ReorderBuffer(buff, k)
                 /\ SendAck(rcvNext', lost)
                 /\ UNCHANGED client
        <5>1. rcvNext' \in AckNums
          BY <4>3, <4>6
        <5>2. toServer' \in Seq(AckNums) /\ Len(toServer') <= Cap
          BY <5>1, <4>6
        <5>3. Len(buff') <= RWND
          BY <4>2, <4>4, <4>6, WindowsAssumption
        <5> QED BY <4>2, <4>6, <5>1, <5>2, <5>3
      <4> QED BY <4>1, <4>5, <4>6
    <3>5. CASE ClientOutOfOrder(m, lost)
      <4>1. StoreRwnd(m.n, buff) \in Seq(Packets) /\ Len(StoreRwnd(m.n, buff)) <= RWND
        <5>1. Len(buff) \in Nat /\ Len(buff) <= RWND
          BY LenProperties
        <5>2. /\ Append(buff, m.n) \in Seq(Packets)
              /\ Len(Append(buff, m.n)) = Len(buff) + 1
          BY <2>5, AppendProperties
        <5> QED BY <5>1, <5>2, WindowsAssumption DEF StoreRwnd
      <4> QED BY <3>5, <4>1 DEF ClientOutOfOrder
    <3>6. CASE ClientDuplicate(m, lost)
      BY <3>6 DEF ClientDuplicate, clientVars
    <3> QED BY <2>1, <3>1, <3>2, <3>3, <3>4, <3>5, <3>6 DEF m
  <2>7. /\ pc' = pc /\ missing' = missing /\ next' = next /\ wnd' = wnd
        /\ armed' = armed /\ handler' = handler /\ rtx' = rtx
        /\ lastAck' = lastAck /\ dup' = dup /\ crashed' = crashed
    BY <2>1 DEF workerVars, timerVars, ackVars
  <2>8. TypeOK'
    BY <2>4, <2>6, <2>7 DEF TypeOK
  <2>9. Control' /\ WindowSent'
    BY <2>7 DEF Control, WindowSent, PutDone
  <2> QED BY <2>8, <2>9
<1> QED BY <1>1, <1>2

\* Every step keeps the types.
LEMMA TypeNext ==
  ASSUME TypeInv, [Next]_vars
  PROVE  TypeInv'
<1>1. CASE UNCHANGED vars
  <2>1. TypeOK'
    BY <1>1 DEF TypeInv, TypeOK, vars, workerVars, timerVars, ackVars,
                clientVars, channels
  <2>2. Control' /\ WindowSent'
    BY <1>1 DEF TypeInv, Control, WindowSent, PutDone, vars, workerVars
  <2> QED BY <2>1, <2>2 DEF TypeInv
<1>2. CASE Next
  <2>1. TRUE \in BOOLEAN
    OBVIOUS
  <2> QED
    BY <1>2, <2>1, TypeWorker, TypeIncomingAck, TypeHandler, TypeClient
       DEF Next, Server
<1> QED BY <1>1, <1>2

\* The types, what each control state of response_get implies for next and the
\* window, and the capacity of the window, the receive buffer and the channels:
\* whatever the interleaving of worker, main thread, signal handler and client,
\* the worker never puts more than WND packets into wnd (server.c:317-329).
THEOREM TypeCorrect == Spec => []TypeOK
<1>1. Init => TypeInv
  BY TypeInit
<1>2. TypeInv /\ [Next]_vars => TypeInv'
  BY TypeNext
<1>3. TypeInv => TypeOK
  BY DEF TypeInv
<1> QED BY <1>1, <1>2, <1>3, PTL DEF Spec

----------------------------------------------------------------------------
(***************************************************************************)
(* What is outstanding is timed.                                           *)
(***************************************************************************)

\* At first nothing is outstanding.
LEMMA TimedInit == Init => OutstandingIsTimed
BY DEF Init, OutstandingIsTimed

\* Steps that change none of the worker, the window and the timer.
LEMMA TimedUnchanged ==
  ASSUME OutstandingIsTimed,
         pc' = pc \/ ({pc, pc'} \cap {"firstArm", "check", "arm"} = {}),
         wnd' = wnd, armed' = armed, handler' = handler, crashed' = crashed
  PROVE  OutstandingIsTimed'
<1>1. pc \in {"firstArm", "check", "arm"} => pc' = pc
  OBVIOUS
<1> QED BY <1>1 DEF OutstandingIsTimed

\* response_get puts a packet into the window and makes sure of its timer.
LEMMA TimedWorker ==
  ASSUME TypeInv, OutstandingIsTimed, NEW lost \in BOOLEAN, Worker(lost)
  PROVE  OutstandingIsTimed'
<1>0. /\ wnd \in Seq(Packets) /\ Len(wnd) \in Nat /\ DOMAIN wnd = 1..Len(wnd)
      /\ (wnd = << >> <=> Len(wnd) = 0)
  BY LenProperties, EmptySeq DEF TypeInv, TypeOK
<1>1. CASE AcceptRequest(lost)
  BY <1>1, TimedUnchanged DEF AcceptRequest, timerVars
<1>2. CASE SendError(lost)
  BY <1>2, TimedUnchanged DEF SendError, timerVars
<1>3. CASE SendSize(lost) \/ SendData(lost) \/ SendEof(lost)
  BY <1>3, TimedUnchanged DEF SendSize, SendData, SendEof, SendNext, timerVars
<1>4. CASE PutFirst
  BY <1>4 DEF PutFirst, PutInWindow, OutstandingIsTimed
<1>5. ASSUME NEW from, NEW to, PutInWindow(from, to), wnd # << >>,
             from \in {"put", "eofPut"}
      PROVE  OutstandingIsTimed'
  <2>1. pc = from /\ armed' = armed /\ handler' = handler /\ crashed' = crashed
    BY <1>5 DEF PutInWindow, timerVars
  <2>2. wnd[1] \in Packets /\ wnd[1] < PutDone /\ PutDone = next - 1
    BY <1>0, <1>5, <2>1, ElementOfSeq DEF TypeInv, WindowSent, PutDone
  <2>3. next <= Eof + 1 /\ next \in Nat /\ Eof \in Nat
    BY PacketNumbers DEF TypeInv, TypeOK
  <2>4. wnd[1] # Eof
    BY <2>2, <2>3, PacketNumbers
  <2>5. wnd # <<Eof>>
    BY <2>4
  <2> QED BY <1>5, <2>1, <2>5 DEF OutstandingIsTimed
<1>6. CASE PutData
  <2>1. CASE wnd = << >>
    <3>1. /\ pc' = "check"
          /\ wnd' = Append(wnd, next - 1)
      BY <1>6 DEF PutData, PutInWindow, UpdateWindow
    <3>2. Len(wnd') = 1
      BY <2>1, <3>1
    <3> QED BY <3>1, <3>2 DEF OutstandingIsTimed
  <2> QED BY <1>5, <1>6, <2>1 DEF PutData
<1>7. CASE PutEof
  <2>1. CASE wnd = << >>
    <3>1. next = Eof + 1 /\ wnd' = Append(wnd, next - 1)
      BY <1>7 DEF PutEof, PutInWindow, UpdateWindow, TypeInv, Control
    <3>2. wnd' = <<Eof>>
      BY <2>1, <3>1, PacketNumbers
    <3> QED BY <3>2 DEF OutstandingIsTimed
  <2> QED BY <1>5, <1>7, <2>1 DEF PutEof
<1>8. CASE ArmFirst \/ ArmData
  BY <1>8 DEF ArmFirst, ArmData, ArmTimer, OutstandingIsTimed
<1>9. CASE CheckWindow
  <2>1. /\ pc = "check" /\ pc' = IF Len(wnd) = 1 THEN "arm" ELSE "full"
        /\ wnd' = wnd /\ armed' = armed /\ handler' = handler
        /\ crashed' = crashed
    BY <1>9 DEF CheckWindow, timerVars
  <2>2. CASE Len(wnd) = 1
    BY <2>1, <2>2 DEF OutstandingIsTimed
  <2>3. CASE Len(wnd) # 1
    BY <2>1, <2>3 DEF OutstandingIsTimed
  <2> QED BY <2>2, <2>3
<1>10. CASE FirstAcked \/ NotFull \/ AllAcked
  BY <1>10, TimedUnchanged
     DEF FirstAcked, NotFull, AllAcked, WaitUntil, timerVars
<1> QED
  BY <1>1, <1>2, <1>3, <1>4, <1>6, <1>7, <1>8, <1>9, <1>10 DEF Worker

\* incoming_ack leaves the timer running if it leaves packets and sendto does not fail.
LEMMA TimedIncomingAck ==
  ASSUME ~Faults, TypeInv, OutstandingIsTimed, NEW lost \in BOOLEAN, IncomingAck(lost)
  PROVE  OutstandingIsTimed'
<1>1. pc' = pc /\ handler' = handler
  BY DEF IncomingAck, workerVars
<1>2. \/ crashed'
      \/ /\ crashed' = crashed
         /\ \E ack \in AckNums, resent \in BOOLEAN, i \in 0..Len(wnd) :
              /\ FastRetransmission(ack) => resent
              /\ wnd' = RefreshWindow(wnd, i)
              /\ armed' = TimerAfterAck(ack, resent, i)
  <2>1. \A m \in Deliverable(toServer) : toServer[m] \in AckNums
    BY ElementOfSeq, LenProperties DEF Deliverable, TypeInv, TypeOK
  <2> QED BY <2>1 DEF IncomingAck
<1>3. CASE crashed'
  BY <1>3 DEF OutstandingIsTimed
<1>4. ASSUME NEW ack \in AckNums, NEW resent \in BOOLEAN, NEW i \in 0..Len(wnd),
             FastRetransmission(ack) => resent,
             wnd' = RefreshWindow(wnd, i), armed' = TimerAfterAck(ack, resent, i),
             crashed' = crashed
      PROVE  OutstandingIsTimed'
  <2>1. /\ wnd' \in Seq(Packets) /\ Len(wnd') = Len(wnd) - i
        /\ wnd \in Seq(Packets) /\ Len(wnd) \in Nat /\ i \in Nat
        /\ \A j \in 1..(Len(wnd) - i) : wnd'[j] = wnd[i + j]
    <3>1. wnd \in Seq(Packets) /\ Len(wnd) \in Nat /\ i \in Nat
      BY LenProperties DEF TypeInv, TypeOK
    <3>2. /\ RefreshWindow(wnd, i) \in Seq(Packets)
          /\ Len(RefreshWindow(wnd, i)) = Len(wnd) - i
          /\ \A j \in 1..(Len(wnd) - i) : RefreshWindow(wnd, i)[j] = wnd[i + j]
      BY RefreshProperties
    <3> QED BY <1>4, <3>1, <3>2
  <2>2. CASE i # 0 /\ i = Len(wnd)
    <3>1. wnd' = << >>
      BY <2>1, <2>2, EmptySeq
    <3> QED BY <3>1 DEF OutstandingIsTimed
  <2>3. CASE i # 0 /\ i # Len(wnd)
    <3>1. i < Len(wnd)
      BY <2>1, <2>3
    <3> QED BY <1>4, <2>3, <3>1 DEF TimerAfterAck, OutstandingIsTimed
  <2>4. CASE i = 0
    <3>1. wnd' = wnd
      <4>1. Len(wnd') = Len(wnd) /\ \A j \in 1..Len(wnd) : wnd'[j] = wnd[j]
        BY <2>1, <2>4
      <4> QED BY <2>1, <4>1, SeqEqual
    <3>2. armed => armed'
      BY <1>4, <2>4 DEF TimerAfterAck
    <3> QED BY <1>1, <1>4, <3>1, <3>2 DEF OutstandingIsTimed
  <2> QED BY <2>2, <2>3, <2>4
<1> QED BY <1>2, <1>3, <1>4

\* Every step that does not fail keeps outstanding packets timed.
LEMMA TimedNext ==
  ASSUME ~Faults, TypeInv, OutstandingIsTimed, [Next]_vars
  PROVE  OutstandingIsTimed'
<1>1. CASE UNCHANGED vars
  BY <1>1, TimedUnchanged DEF vars, workerVars, timerVars
<1>2. ASSUME NEW lost \in BOOLEAN, Server(lost)
      PROVE  OutstandingIsTimed'
  BY <1>2, TimedWorker, TimedIncomingAck
     DEF Server, Resend, OutstandingIsTimed
<1>3. ASSUME NEW lost \in BOOLEAN, ClientReceive(lost)
      PROVE  OutstandingIsTimed'
  BY <1>3, TimedUnchanged DEF ClientReceive, workerVars, timerVars
<1>4. CASE Expire \/ FetchBase
  BY <1>4 DEF Expire, FetchBase, OutstandingIsTimed
<1> QED
  BY <1>1, <1>2, <1>3, <1>4 DEF Next, ResendFails, GiveUp, ClientFails

\* As long as no system call fails, a packet that was not acknowledged always
\* has something that will resend it, except the last empty one: the timer that
\* the worker, the main thread and the signal handler stop and start without a
\* common lock (server.c:75, 297, 322, windows.c:125) is never lost.
THEOREM TimedCorrect == ASSUME ~Faults PROVE Spec => []OutstandingIsTimed
<1>1. Init => TypeInv /\ OutstandingIsTimed
  BY TypeInit, TimedInit
<1>2. TypeInv /\ OutstandingIsTimed /\ [Next]_vars
        => (TypeInv /\ OutstandingIsTimed)'
  BY TypeNext, TimedNext
<1> QED BY <1>1, <1>2, PTL DEF Spec

----------------------------------------------------------------------------
(***************************************************************************)
(* What is written is the file.                                            *)
(***************************************************************************)

\* The number of chunks written: the shorter of writes and the file.
Chunks == IF Len(writes) < N THEN Len(writes) ELSE N

\* The chunks of the file among the packets written.
LEMMA DeliveredPrefix ==
  ASSUME NEW S, NEW w \in Seq(S)
  PROVE  LET c == IF Len(w) < N THEN Len(w) ELSE N IN
         /\ Len(w) \in Nat /\ DOMAIN w = 1..Len(w)
         /\ c \in 0..N /\ Len(SubSeq(w, 1, c)) = c
         /\ \A i \in 1..c : SubSeq(w, 1, c)[i] = w[i]
<1> DEFINE c == IF Len(w) < N THEN Len(w) ELSE N
<1>1. Len(w) \in Nat /\ DOMAIN w = 1..Len(w)
  BY LenProperties
<1>2. c \in 0..N /\ c \in 0..Len(w)
  BY <1>1, WindowsAssumption
<1> HIDE DEF c
<1>3. Len(SubSeq(w, 1, c)) = c /\ \A i \in 1..c : SubSeq(w, 1, c)[i] = w[i]
  BY <1>2, PrefixProperties
<1> QED BY <1>1, <1>2, <1>3 DEF c

\* What the client writes are packets, of any number.
WrittenType == writes \in Seq(Nat) /\ buff \in Seq(Nat)

\* What the client of a GET writes is of this type.
LEMMA WrittenTyped == TypeInv => WrittenType
<1>1. Packets \subseteq Nat
  BY PacketSequence
<1> QED BY <1>1, WiderSequence DEF TypeInv, TypeOK, WrittenType

\* What is delivered are the first Chunks packets written.
LEMMA DeliveredLength ==
  ASSUME WrittenType
  PROVE  /\ Len(writes) \in Nat /\ DOMAIN writes = 1..Len(writes)
         /\ Chunks \in 0..N /\ Len(Delivered) = Chunks
         /\ \A i \in 1..Chunks : Delivered[i] = writes[i]
BY DeliveredPrefix DEF WrittenType, Chunks, Delivered

\* At first nothing is written.
LEMMA WriteInit == Init => WriteInv
<1> SUFFICES ASSUME Init PROVE WriteInv
  OBVIOUS
<1>1. client = "request" /\ rcvNext = 0 /\ writes = << >> /\ buff = << >>
  BY DEF Init
<1> QED BY <1>1, EmptySeq DEF WriteInv, WrittenIsAcked

\* Without a packet written, nothing is delivered.
LEMMA NothingDelivered ==
  ASSUME writes' = << >>
  PROVE  DOMAIN writes' = {} /\ Len(Delivered') = 0
<1>1. writes' \in Seq(Nat) /\ Len(writes') = 0
  BY EmptySeq
<1> QED BY <1>1, DeliveredPrefix, WindowsAssumption DEF Delivered

\* Steps of the others leave the client's variables alone.
LEMMA WriteUnchanged ==
  ASSUME WriteInv, UNCHANGED clientVars
  PROVE  WriteInv'
<1>1. client' = client /\ rcvNext' = rcvNext /\ buff' = buff /\ writes' = writes
  BY DEF clientVars
<1>2. Delivered' = Delivered
  BY <1>1 DEF Delivered
<1> QED BY <1>1, <1>2 DEF WriteInv, WrittenIsAcked

\* A packet in order: it and the run behind it are appended.
LEMMA WriteInOrder ==
  ASSUME WrittenType, WriteInv, NEW m, m.n \in Nat, NEW lost \in BOOLEAN,
         ClientInOrder(m, lost)
  PROVE  WrittenType' /\ WriteInv' /\ Len(writes) <= Len(writes')
<1> DEFINE n == m.n
<1>1. n \in Nat /\ buff \in Seq(Nat) /\ Len(buff) \in Nat
  BY LenProperties DEF WrittenType
<1>2. client = "data" /\ SeqNum(n) = rcvNext /\ DataSize(n) # 0
  BY DEF ClientInOrder
<1>3. /\ Len(writes) \in Nat /\ DOMAIN writes = 1..Len(writes)
      /\ Chunks \in 0..N /\ rcvNext = Chunks + 1
      /\ writes \in Seq(Nat)
  BY <1>2, DeliveredLength DEF WriteInv, WrittenIsAcked, WrittenType
<1>4. n = Len(writes) + 1 /\ n <= N
  <2>1. n <= N /\ SeqNum(n) = n
    BY <1>1, <1>2, SeqNumValue, WindowsAssumption DEF SeqNum
  <2> QED BY <1>2, <1>3, <2>1, WindowsAssumption DEF Chunks
<1>5. PICK k \in 0..Len(buff) :
        /\ Drains(n, buff, k)
        /\ \/ /\ client' = "corrupt"
              /\ UNCHANGED <<rcvNext, buff, writes>>
           \/ /\ rcvNext' = SeqAfter(IF k = 0 THEN n ELSE buff[k])
              /\ writes' = Append(writes, n) \o SubSeq(buff, 1, k)
              /\ buff' = ReorderBuffer(buff, k)
              /\ client' = client
  BY DEF ClientInOrder
<1> HIDE DEF n
<1>6. CASE client' = "corrupt" /\ UNCHANGED <<rcvNext, buff, writes>>
  BY <1>3, <1>6 DEF WriteInv, WrittenIsAcked, WrittenType
<1>7. CASE /\ rcvNext' = SeqAfter(IF k = 0 THEN n ELSE buff[k])
           /\ writes' = Append(writes, n) \o SubSeq(buff, 1, k)
           /\ buff' = ReorderBuffer(buff, k)
           /\ client' = client
  <2>1. /\ SubSeq(buff, 1, k) \in Seq(Nat) /\ Len(SubSeq(buff, 1, k)) = k
        /\ \A j \in 1..k : SubSeq(buff, 1, k)[j] = buff[j]
    BY <1>1, PrefixProperties
  <2>2. /\ Append(writes, n) \in Seq(Nat) /\ Len(Append(writes, n)) = n
        /\ \A j \in 1..Len(writes) : Append(writes, n)[j] = writes[j]
        /\ Append(writes, n)[n] = n
    BY <1>1, <1>3, <1>4, AppendProperties
  <2>3. /\ writes' \in Seq(Nat) /\ Len(writes') = n + k
        /\ \A j \in 1..(n + k) : writes'[j] =
             IF j <= n THEN Append(writes, n)[j] ELSE SubSeq(buff, 1, k)[j - n]
    <3> DEFINE a == Append(writes, n)
               b == SubSeq(buff, 1, k)
    <3>1. a \in Seq(Nat) /\ b \in Seq(Nat) /\ Len(a) = n /\ Len(b) = k
          /\ writes' = a \o b
      BY <1>7, <2>1, <2>2
    <3> HIDE DEF a, b
    <3>2. /\ a \o b \in Seq(Nat) /\ Len(a \o b) = Len(a) + Len(b)
          /\ \A j \in 1..(Len(a) + Len(b)) : (a \o b)[j] =
               IF j <= Len(a) THEN a[j] ELSE b[j - Len(a)]
      BY <3>1, ConcatProperties, Zenon
    <3>3. /\ writes' \in Seq(Nat) /\ Len(writes') = n + k
          /\ \A j \in 1..(n + k) : writes'[j] = IF j <= n THEN a[j] ELSE b[j - n]
      BY <3>1, <3>2
    <3> QED BY <3>3 DEF a, b
  <2>4. /\ \A i \in 1..k : SeqNum(buff[i]) = SeqNum(n + i)
        /\ rcvNext' = SeqNum(n + k + 1)
    <3>1. buff \in Seq(Int) /\ n \in Int /\ k \in Nat
      <4>1. Nat \subseteq Int
        OBVIOUS
      <4> QED BY <1>1, <4>1, WiderSequence
    <3>2. \A i \in 1..k : SeqNum(buff[i]) = SeqNum(n + i)
      BY <1>5, <3>1, DrainedRun
    <3>3. rcvNext' = SeqNum(n + k + 1)
      BY <1>5, <1>7, <3>1, DrainedNext
    <3> QED BY <3>2, <3>3
  <2>5. \A i \in 1..k : buff[i] \in Nat
    BY <1>1, ElementOfSeq
  <2>6. ASSUME NEW j \in 1..(n + k)
        PROVE  IF j <= N THEN writes'[j] = j ELSE DataSize(writes'[j]) = 0
    <3>1. j \in Nat /\ n + k \in Nat /\ n \in Nat /\ k \in Nat
          /\ N \in Nat /\ Len(writes) \in Nat /\ n = Len(writes) + 1
      BY <1>1, <1>3, <1>4, WindowsAssumption
    <3>2. writes'[j] = IF j <= n THEN Append(writes, n)[j]
                                 ELSE SubSeq(buff, 1, k)[j - n]
      BY <2>3
    <3>3. CASE j < n
      <4>1. j \in 1..Len(writes)
        BY <3>1, <3>3
      <4>2. writes'[j] = writes[j]
        BY <2>2, <3>1, <3>2, <3>3, <4>1
      <4> QED BY <4>1, <4>2 DEF WriteInv, WrittenIsAcked
    <3>4. CASE j = n
      BY <1>4, <2>2, <3>1, <3>2, <3>4
    <3>5. CASE j > n
      <4> DEFINE i == j - n
      <4>1. i \in 1..k /\ n + i = j /\ ~ (j <= n)
        BY <3>1, <3>5
      <4>2. writes'[j] = SubSeq(buff, 1, k)[i]
        BY <3>2, <4>1
      <4> HIDE DEF i
      <4>3. /\ writes'[j] = buff[i] /\ buff[i] \in Nat
            /\ SeqNum(buff[i]) = SeqNum(j)
        BY <2>1, <2>4, <2>5, <4>1, <4>2
      <4> QED BY <3>1, <4>3, WindowsAssumption DEF SeqNum, DataSize
    <3> QED BY <3>1, <3>3, <3>4, <3>5
  <2>7. /\ Len(Delivered') = IF n + k < N THEN n + k ELSE N
        /\ DOMAIN writes' = 1..(n + k)
    BY <2>3, DeliveredPrefix DEF Delivered
  <2>8. rcvNext' = Len(Delivered') + 1
    BY <1>1, <2>4, <2>7, WindowsAssumption DEF SeqNum
  <2>9. WriteInv'
    BY <1>2, <1>7, <2>6, <2>7, <2>8 DEF WriteInv, WrittenIsAcked
  <2>10. WrittenType'
    <3>1. buff' \in Seq(Nat)
      BY <1>1, <1>7, SuffixProperties DEF ReorderBuffer
    <3> QED BY <2>3, <3>1 DEF WrittenType
  <2> QED BY <1>1, <1>3, <1>4, <2>3, <2>9, <2>10
<1> QED BY <1>5, <1>6, <1>7

\* A packet that arrives when the client waits for data, of a GET or of a LIST.
LEMMA WriteReceive ==
  ASSUME WrittenType, WriteInv, NEW m, m.n \in Nat, NEW lost \in BOOLEAN,
         \/ ClientEnd(m, lost) \/ ClientInOrder(m, lost)
         \/ ClientOutOfOrder(m, lost) \/ ClientDuplicate(m, lost)
  PROVE  /\ WrittenType' /\ WriteInv'
         /\ writes' = writes \/ Len(writes) <= Len(writes')
<1>1. CASE ClientEnd(m, lost)
  <2>1. /\ client = "data" /\ client' \in {"data", "done"}
        /\ rcvNext' = rcvNext /\ writes' = writes /\ buff' = buff
    BY <1>1 DEF ClientEnd
  <2>2. Delivered' = Delivered
    BY <2>1 DEF Delivered
  <2> QED BY <2>1, <2>2 DEF WriteInv, WrittenIsAcked, WrittenType
<1>2. CASE ClientInOrder(m, lost)
  BY <1>2, WriteInOrder
<1>3. CASE ClientOutOfOrder(m, lost)
  <2>1. /\ client = "data" /\ client' \in {"data", "corrupt"}
        /\ rcvNext' = rcvNext /\ writes' = writes
    BY <1>3 DEF ClientOutOfOrder
  <2>2. Delivered' = Delivered
    BY <2>1 DEF Delivered
  <2>3. buff' \in Seq(Nat)
    <3>1. Append(buff, m.n) \in Seq(Nat) /\ buff \in Seq(Nat)
      BY AppendProperties DEF WrittenType
    <3>2. buff' \in {buff, Append(buff, m.n)}
      BY <1>3 DEF ClientOutOfOrder, StoreRwnd
    <3> QED BY <3>1, <3>2
  <2> QED BY <2>1, <2>2, <2>3 DEF WriteInv, WrittenIsAcked, WrittenType
<1>4. CASE ClientDuplicate(m, lost)
  BY <1>4, WriteUnchanged DEF ClientDuplicate, clientVars, WrittenType
<1> QED BY <1>1, <1>2, <1>3, <1>4

\* So does the size of a GET.
LEMMA WriteSize ==
  ASSUME WrittenType, WriteInv, NEW m, m.n \in Nat, NEW lost \in BOOLEAN,
         ClientAnswer(m, lost) \/ ClientSize(m, lost)
  PROVE  WrittenType' /\ WriteInv' /\ writes' = writes
<1>1. CASE ClientAnswer(m, lost)
  <2>1. /\ client = "request" /\ client' \in {"size", "error", "request"}
        /\ rcvNext' = rcvNext /\ buff' = buff /\ writes' = writes
    BY <1>1 DEF ClientAnswer
  <2> QED BY <2>1 DEF WriteInv, WrittenIsAcked, WrittenType
<1>2. CASE ClientSize(m, lost)
  <2>1. /\ client = "size" /\ writes = << >> /\ rcvNext = 0
        /\ buff' = buff /\ writes' = writes
        /\ \/ client' = client /\ rcvNext' = rcvNext
           \/ /\ client' = "data" /\ SeqNum(m.n) = rcvNext
              /\ rcvNext' = SeqAfter(m.n)
    BY <1>2 DEF ClientSize, WriteInv
  <2>2. CASE client' = client /\ rcvNext' = rcvNext
    BY <2>1, <2>2 DEF WriteInv, WrittenIsAcked, WrittenType
  <2>3. CASE /\ client' = "data" /\ SeqNum(m.n) = rcvNext
             /\ rcvNext' = SeqAfter(m.n)
    <3>1. rcvNext' = 1
      BY <2>1, <2>3, WindowsAssumption DEF SeqNum, SeqAfter, DataSize
    <3> QED BY <2>1, <2>3, <3>1, NothingDelivered DEF WriteInv, WrittenIsAcked, WrittenType
  <2> QED BY <2>1, <2>2, <2>3
<1> QED BY <1>1, <1>2

\* Every step keeps WriteInv, and the client's file never gets shorter.
LEMMA WriteNext ==
  ASSUME TypeInv, TypeInv', WriteInv, [Next]_vars
  PROVE  WriteInv' /\ (writes' = writes \/ Len(writes) <= Len(writes'))
<1>1. CASE UNCHANGED clientVars
  BY <1>1, WriteUnchanged DEF clientVars
<1>2. CASE ClientFails
  <2>1. client' = "failed" /\ writes' = writes
    BY <1>2 DEF ClientFails
  <2> QED BY <2>1 DEF WriteInv, WrittenIsAcked
<1>3. ASSUME NEW lost \in BOOLEAN, ClientReceive(lost)
      PROVE  WriteInv' /\ (writes' = writes \/ Len(writes) <= Len(writes'))
  <2>1. PICK m \in Messages :
          \/ ClientAnswer(m, lost)
          \/ ClientSize(m, lost)
          \/ ClientEnd(m, lost)
          \/ ClientInOrder(m, lost)
          \/ ClientOutOfOrder(m, lost)
          \/ ClientDuplicate(m, lost)
    <3>1. \A d \in Deliverable(toClient) : toClient[d] \in Messages
      BY ElementOfSeq, LenProperties DEF Deliverable, TypeInv, TypeOK
    <3> QED BY <1>3, <3>1 DEF ClientReceive
  <2>2. m.n \in Nat
    BY PacketSequence DEF Messages
  <2> QED BY <2>1, <2>2, WrittenTyped, WriteSize, WriteReceive
<1>4. ASSUME NEW lost \in BOOLEAN, Server(lost)
      PROVE  UNCHANGED clientVars
  <2>1. CASE Worker(lost)
    BY <2>1 DEF Worker, AcceptRequest, SendError, SendSize, SendData, SendEof,
        SendNext, PutFirst, PutData, PutEof, PutInWindow, ArmFirst, ArmData,
        ArmTimer, CheckWindow, FirstAcked, NotFull, AllAcked, WaitUntil
  <2>2. CASE IncomingAck(lost)
    BY <2>2 DEF IncomingAck
  <2>3. CASE Resend(lost)
    BY <2>3 DEF Resend
  <2> QED BY <1>4, <2>1, <2>2, <2>3 DEF Server
<1>5. Expire \/ FetchBase \/ ResendFails \/ GiveUp \/ UNCHANGED vars
        => UNCHANGED clientVars
  BY DEF Expire, FetchBase, ResendFails, GiveUp, vars
<1> QED BY <1>1, <1>2, <1>3, <1>4, <1>5 DEF Next

\* The client writes the chunks of the file in order and each once, and the
\* sequence number in its ACKs counts exactly what it has written: even when
\* the network reorders, loses or the timer duplicates packets and buffered
\* packets drain behind a gap (request_get, client.c:348-404).
THEOREM WrittenCorrect == Spec => []WrittenIsAcked
<1>1. Init => TypeInv /\ WriteInv
  BY TypeInit, WriteInit
<1>2. TypeInv /\ WriteInv /\ [Next]_vars => (TypeInv /\ WriteInv)'
  BY TypeNext, WriteNext
<1>3. WriteInv => WrittenIsAcked
  BY DEF WriteInv
<1> QED BY <1>1, <1>2, <1>3, PTL DEF Spec

\* The delivered chunks are 1, 2, ... up to their number.
LEMMA DeliveredIsPrefix ==
  WrittenType /\ WriteInv => Delivered = [i \in 1..Chunks |-> i]
<1> SUFFICES ASSUME WrittenType, WriteInv
             PROVE  Delivered = [i \in 1..Chunks |-> i]
  OBVIOUS
<1>1. \A i \in 1..Chunks : Delivered[i] = i
  BY DeliveredLength, WindowsAssumption DEF WriteInv, WrittenIsAcked, Chunks
<1>2. Chunks \in Nat /\ Delivered \in Seq(Nat) /\ Len(Delivered) = Chunks
  <2>1. /\ writes \in Seq(Nat) /\ Chunks \in 0..Len(writes)
        /\ Delivered = SubSeq(writes, 1, Chunks)
    BY DeliveredLength, WindowsAssumption DEF WrittenType, Delivered, Chunks
  <2> QED BY <2>1, PrefixProperties, DeliveredLength
<1>3. Delivered = [i \in 1..Len(Delivered) |-> Delivered[i]]
  BY <1>2
<1> QED BY <1>1, <1>2, <1>3

\* A file that does not get shorter grows as ReliableStream says.
LEMMA StreamStep ==
  ASSUME WrittenType, WrittenType', WriteInv, WriteInv',
         writes' = writes \/ Len(writes) <= Len(writes')
  PROVE  [Stream!Next]_Delivered
<1>1. CASE writes' = writes
  BY <1>1 DEF Delivered
<1>2. CASE Len(writes) <= Len(writes')
  <2>1. Delivered = [i \in 1..Chunks |-> i] /\ Len(Delivered) = Chunks
    BY DeliveredIsPrefix, DeliveredLength
  <2>2. (Delivered = [i \in 1..Chunks |-> i])'
    BY DeliveredIsPrefix, PTL
  <2>3. Len(writes) \in Nat /\ Len(writes') \in Nat
    BY LenProperties DEF WrittenType
  <2>4. Chunks \in Nat /\ Chunks' \in Nat /\ Chunks <= Chunks' /\ Chunks' <= N
    BY <1>2, <2>3, WindowsAssumption DEF Chunks
  <2>5. CASE Chunks = Chunks'
    BY <2>1, <2>2, <2>5
  <2>6. CASE Chunks # Chunks'
    <3>1. Chunks' \in (Len(Delivered) + 1)..N
      BY <2>1, <2>4, <2>6
    <3>2. Stream!Deliver
      BY <2>2, <3>1 DEF Stream!Deliver
    <3> QED BY <3>2 DEF Stream!Next
  <2> QED BY <2>5, <2>6
<1> QED BY <1>1, <1>2

\* At first nothing is delivered.
LEMMA StreamInit == Init => Stream!Init
<1> SUFFICES ASSUME Init PROVE Delivered = << >>
  BY DEF Stream!Init
<1>1. writes = << >> /\ Len(<< >>) = 0
  BY EmptySeq DEF Init
<1>2. Len(writes) < N \/ N = 0
  BY <1>1, WindowsAssumption
<1> QED BY <1>1, <1>2 DEF Delivered

\* GetTransfer implements ReliableStream: whatever the network does, the
\* client's file only grows, by the next chunks of the server's file.
THEOREM StreamCorrect == Spec => ImplementsStream
<1>1. Init => TypeInv /\ WriteInv
  BY TypeInit, WriteInit
<1>2. TypeInv /\ WriteInv /\ [Next]_vars
        => (TypeInv /\ WriteInv)' /\ [Stream!Next]_Delivered
  <2>1. TypeInv' => WrittenType'
    BY WrittenTyped, PTL
  <2> QED BY <2>1, TypeNext, WriteNext, WrittenTyped, StreamStep
<1> QED BY <1>1, <1>2, StreamInit, PTL DEF Spec, ImplementsStream, Stream!Spec


----------------------------------------------------------------------------
(***************************************************************************)
(* A network that keeps the order.                                         *)
(***************************************************************************)

\* The oldest datagram is received, and the others move up.
LEMMA OldestReceived ==
  ASSUME ~Reorder, NEW S, NEW s \in Seq(S), NEW d \in Deliverable(s),
         NEW t, t = RemoveAt(s, d)
  PROVE  /\ d = 1 /\ 1 \in DOMAIN s
         /\ \A j \in DOMAIN t : j \in Nat \ {0} /\ j + 1 \in DOMAIN s /\ t[j] = s[j + 1]
<1>1. d = 1 /\ 1 \in DOMAIN s /\ Len(s) \in Nat /\ DOMAIN s = 1..Len(s)
  BY LenProperties DEF Deliverable
<1>2. /\ t \in Seq(S) /\ Len(t) = Len(s) - 1
      /\ \A j \in 1..(Len(s) - 1) : t[j] = IF j < 1 THEN s[j] ELSE s[j + 1]
  BY <1>1, RemoveAtProperties
<1>3. DOMAIN t = 1..(Len(s) - 1)
  BY <1>2, LenProperties
<1>4. ASSUME NEW j \in DOMAIN t
      PROVE  j \in Nat \ {0} /\ j + 1 \in DOMAIN s /\ t[j] = s[j + 1]
  <2>1. j \in 1..(Len(s) - 1) /\ j + 1 \in 1..Len(s) /\ ~ (j < 1)
    BY <1>1, <1>3
  <2> QED BY <1>1, <1>2, <2>1
<1> QED BY <1>1, <1>4

\* What is sent comes behind all that is in the channel.
LEMMA NewestSent ==
  ASSUME NEW S, NEW s \in Seq(S), NEW m \in S, NEW lost \in BOOLEAN,
         NEW t, t = Transmit(s, m, lost)
  PROVE  /\ t \in Seq(S)
         /\ \A j \in DOMAIN t : \/ j \in DOMAIN s /\ t[j] = s[j]
                                \/ /\ j \notin DOMAIN s /\ t[j] = m
                                   /\ \A k \in DOMAIN t : k <= j
<1>1. Len(s) \in Nat /\ DOMAIN s = 1..Len(s)
  BY LenProperties
<1>2. CASE t = s
  BY <1>2
<1>3. CASE t = Append(s, m)
  <2>1. /\ t \in Seq(S) /\ Len(t) = Len(s) + 1 /\ t[Len(s) + 1] = m
        /\ \A j \in 1..Len(s) : t[j] = s[j]
    BY <1>3, AppendProperties
  <2>2. DOMAIN t = 1..(Len(s) + 1)
    BY <2>1, LenProperties
  <2>3. ASSUME NEW j \in DOMAIN t
        PROVE  \/ j \in DOMAIN s /\ t[j] = s[j]
               \/ j \notin DOMAIN s /\ t[j] = m /\ \A k \in DOMAIN t : k <= j
    <3>1. CASE j \in 1..Len(s)
      BY <1>1, <2>1, <3>1
    <3>2. CASE j = Len(s) + 1
      <4>1. j \notin DOMAIN s /\ t[j] = m
        BY <1>1, <2>1, <3>2
      <4>2. \A k \in DOMAIN t : k <= j
        BY <1>1, <2>2, <3>2
      <4> QED BY <4>1, <4>2
    <3> QED BY <1>1, <2>2, <3>1, <3>2
  <2> QED BY <2>1, <2>3
<1> QED BY <1>2, <1>3 DEF Transmit

\* The worker has put next - 1 packets in the window, or all that it has sent.
LEMMA PutDoneNumber ==
  ASSUME TypeInv
  PROVE  PutDone \in Nat /\ next \in Nat /\ PutDone <= next
<1>1. next \in Nat
  BY PacketNumbers DEF TypeInv, TypeOK
<1> QED BY <1>1, PacketNumbers DEF TypeInv, Control, PutDone

----------------------------------------------------------------------------
(***************************************************************************)
(* The window and the ACKs.  These lemmas ask for numbers and sequences of *)
(* numbers only: they hold for a LIST as well.                             *)
(***************************************************************************)
Numbers ==
  /\ PutDone \in Nat /\ wnd \in Seq(Int)
  /\ toServer \in Seq(Int) /\ rcvNext \in Int

\* What the lemmas on windows need of the types.
LEMMA NumbersOfType == TypeInv => Numbers
<1> SUFFICES ASSUME TypeInv PROVE Numbers
  OBVIOUS
<1>1. AckNums \subseteq Int /\ rcvNext \in AckNums
  BY WindowsAssumption DEF AckNums, TypeInv, TypeOK
<1>2. wnd \in Seq(Int)
  BY PacketsAreNumbers DEF TypeInv, TypeOK
<1>3. toServer \in Seq(Int)
  BY <1>1, WiderSequence DEF TypeInv, TypeOK
<1> QED BY <1>1, <1>2, <1>3, PutDoneNumber DEF Numbers

\* At first the window, empty, begins with packet 0.
LEMMA WindowInit == Init => WindowInv /\ AckInv
<1> SUFFICES ASSUME Init PROVE WindowInv /\ AckInv
  OBVIOUS
<1>1. PutDone = 0 /\ Len(wnd) = 0 /\ DOMAIN wnd = {} /\ Base = 0
  BY EmptySeq DEF Init, PutDone, Base
<1>2. rcvNext = 0 /\ DOMAIN toServer = {} /\ SeqNum(0) = 0
  BY EmptySeq, WindowsAssumption DEF Init, SeqNum
<1> QED BY <1>1, <1>2 DEF WindowInv, AckInv

\* WindowInv is about the window and what was put into it only.
LEMMA WindowKept ==
  ASSUME WindowInv, PutDone' = PutDone, wnd' = wnd
  PROVE  WindowInv' /\ Base' = Base
BY DEF WindowInv, Base

\* The window begins where it did, and the client may have sent an ACK.
LEMMA AckSent ==
  ASSUME Numbers, Numbers', AckInv, Base' = Base, rcvNext <= rcvNext',
         \/ toServer' = toServer
         \/ \E lost \in BOOLEAN : toServer' = Transmit(toServer, rcvNext', lost)
  PROVE  AckInv'
<1>1. Base' = Base /\ Base \in Int /\ SeqNum(Base) \in Int
  <2>1. Base \in Int
    BY LenProperties DEF Base, Numbers
  <2> QED BY <2>1, SeqNumValue
<1>2. SeqNum(Base') <= rcvNext'
  BY <1>1 DEF AckInv, Numbers
<1>3. \A i \in DOMAIN toServer : toServer[i] \in Int
  BY ElementOfSeq, LenProperties DEF Numbers
<1>4. CASE toServer' = toServer
  <2>1. \A i \in DOMAIN toServer' :
          SeqNum(Base') <= toServer'[i] /\ toServer'[i] <= rcvNext'
    BY <1>1, <1>3, <1>4 DEF AckInv, Numbers
  <2>2. \A i, j \in DOMAIN toServer' : i < j => toServer'[i] <= toServer'[j]
    BY <1>4 DEF AckInv
  <2> QED BY <1>2, <2>1, <2>2 DEF AckInv
<1>5. ASSUME NEW lost \in BOOLEAN, toServer' = Transmit(toServer, rcvNext', lost)
      PROVE  AckInv'
  <2>1. \A j \in DOMAIN toServer' :
          \/ j \in DOMAIN toServer /\ toServer'[j] = toServer[j]
          \/ /\ j \notin DOMAIN toServer /\ toServer'[j] = rcvNext'
             /\ \A k \in DOMAIN toServer' : k <= j
    <3>1. toServer \in Seq(Int) /\ rcvNext' \in Int
      BY DEF Numbers
    <3> QED BY <1>5, <3>1, NewestSent
  <2>2. \A i \in DOMAIN toServer' :
          SeqNum(Base') <= toServer'[i] /\ toServer'[i] <= rcvNext'
    BY <1>1, <1>2, <1>3, <2>1 DEF AckInv, Numbers
  <2>3. ASSUME NEW i \in DOMAIN toServer', NEW j \in DOMAIN toServer', i < j
        PROVE  toServer'[i] <= toServer'[j]
    <3>1. CASE j \in DOMAIN toServer /\ toServer'[j] = toServer[j]
      <4>1. i \in Int /\ j \in Int
        BY LenProperties DEF Numbers
      <4>2. i \in DOMAIN toServer /\ toServer'[i] = toServer[i]
        BY <2>1, <2>3, <3>1, <4>1
      <4> QED BY <2>3, <3>1, <4>2 DEF AckInv
    <3>2. CASE toServer'[j] = rcvNext'
      BY <2>2, <3>2
    <3> QED BY <2>1, <3>1, <3>2
  <2> QED BY <1>2, <2>2, <2>3 DEF AckInv
<1> QED BY <1>4, <1>5

\* A packet that was sent is put into the window.
LEMMA PacketPut ==
  ASSUME Numbers, Numbers', WindowInv,
         NEW from \in {"firstPut", "put", "eofPut"},
         NEW to \in {"firstArm", "check", "eofWait"},
         PutInWindow(from, to), next \in Int
  PROVE  WindowInv' /\ Base' = Base
<1>1. /\ pc = from /\ pc' = to /\ next' = next /\ rcvNext' = rcvNext
      /\ toServer' = toServer /\ wnd' = Append(wnd, next - 1)
  BY DEF PutInWindow, UpdateWindow, clientVars, channels
<1>2. PutDone = next - 1 /\ PutDone' = next
  BY <1>1 DEF PutDone
<1>3. /\ Len(wnd) \in Nat /\ DOMAIN wnd = 1..Len(wnd)
      /\ Len(wnd') = Len(wnd) + 1 /\ DOMAIN wnd' = 1..(Len(wnd) + 1)
      /\ \A i \in 1..Len(wnd) : wnd'[i] = wnd[i]
      /\ wnd'[Len(wnd) + 1] = next - 1
  <2>1. Len(wnd) \in Nat /\ DOMAIN wnd = 1..Len(wnd) /\ next - 1 \in Int
    BY LenProperties DEF Numbers
  <2>2. /\ wnd' \in Seq(Int) /\ Len(wnd') = Len(wnd) + 1
        /\ \A i \in 1..Len(wnd) : wnd'[i] = wnd[i]
        /\ wnd'[Len(wnd) + 1] = next - 1
    BY <1>1, <2>1, AppendProperties DEF Numbers
  <2> QED BY <2>1, <2>2, LenProperties
<1>4. Base' = Base /\ Base \in Int /\ Len(wnd') <= PutDone' /\ Base + Len(wnd) = next - 1
  BY <1>2, <1>3 DEF Base, WindowInv, Numbers
<1>5. ASSUME NEW i \in DOMAIN wnd' PROVE wnd'[i] = Base' + i - 1
  <2>1. CASE i \in 1..Len(wnd)
    BY <1>3, <1>4, <2>1 DEF WindowInv
  <2>2. CASE i = Len(wnd) + 1
    BY <1>3, <1>4, <2>2
  <2> QED BY <1>3, <2>1, <2>2
<1> QED BY <1>4, <1>5 DEF WindowInv

\* An ACK: what it discards is not ahead of it, and the others are not behind it.
LEMMA AckTaken ==
  ASSUME ~Reorder, Numbers, Numbers', WindowInv, AckInv,
         NEW lost \in BOOLEAN, IncomingAck(lost)
  PROVE  WindowInv' /\ AckInv'
<1>1. PICK m \in Deliverable(toServer) :
        /\ toServer' = RemoveAt(toServer, m)
        /\ \/ wnd' = wnd
           \/ \E i \in 0..Len(wnd) :
                /\ AckedPackets(wnd, toServer[m], i)
                /\ wnd' = RefreshWindow(wnd, i)
  BY DEF IncomingAck
<1>2. pc' = pc /\ next' = next /\ rcvNext' = rcvNext /\ PutDone' = PutDone
  BY DEF IncomingAck, workerVars, clientVars, PutDone
<1>3. /\ m = 1 /\ 1 \in DOMAIN toServer
      /\ \A j \in DOMAIN toServer' :
           j \in Nat \ {0} /\ j + 1 \in DOMAIN toServer /\ toServer'[j] = toServer[j + 1]
  BY <1>1, OldestReceived DEF Numbers
<1> DEFINE ack == toServer[1]
<1>4. /\ ack \in Int /\ SeqNum(Base) <= ack /\ ack <= rcvNext
      /\ \A j \in DOMAIN toServer' :
           ack <= toServer'[j] /\ toServer'[j] <= rcvNext
      /\ \A j \in DOMAIN toServer' : toServer'[j] \in Int
  <2>1. \A i \in DOMAIN toServer : toServer[i] \in Int
    BY ElementOfSeq, LenProperties DEF Numbers
  <2>2. ASSUME NEW j \in DOMAIN toServer'
        PROVE  ack <= toServer'[j] /\ toServer'[j] <= rcvNext
    <3>1. 1 < j + 1 /\ j + 1 \in DOMAIN toServer /\ toServer'[j] = toServer[j + 1]
      BY <1>3, <2>2
    <3>2. toServer[1] <= toServer[j + 1]
      BY <1>3, <3>1, Zenon DEF AckInv
    <3>3. toServer[j + 1] <= rcvNext
      BY <3>1, Zenon DEF AckInv
    <3> QED BY <3>1, <3>2, <3>3, Zenon
  <2>3. ASSUME NEW j \in DOMAIN toServer' PROVE toServer'[j] \in Int
    BY <1>3, <2>1, <2>3
  <2> QED BY <1>3, <2>1, <2>2, <2>3 DEF AckInv
<1>5. \A i, j \in DOMAIN toServer' : i < j => toServer'[i] <= toServer'[j]
  <2> SUFFICES ASSUME NEW i \in DOMAIN toServer', NEW j \in DOMAIN toServer', i < j
               PROVE  toServer'[i] <= toServer'[j]
    OBVIOUS
  <2>1. i + 1 < j + 1
    BY <1>3
  <2> QED BY <1>3, <2>1 DEF AckInv
<1>6. Len(wnd) \in Nat /\ DOMAIN wnd = 1..Len(wnd) /\ Base \in Int
  BY LenProperties DEF Base, Numbers
<1>7. ASSUME SeqNum(Base') <= ack, Base' \in Int PROVE AckInv'
  <2>1. SeqNum(Base') \in Int /\ rcvNext \in Int
    BY <1>7, SeqNumValue DEF Numbers
  <2>2. SeqNum(Base') <= rcvNext'
    BY <1>2, <1>4, <1>7, <2>1
  <2>3. \A j \in DOMAIN toServer' :
          SeqNum(Base') <= toServer'[j] /\ toServer'[j] <= rcvNext'
    BY <1>2, <1>4, <1>7, <2>1
  <2> QED BY <1>5, <2>2, <2>3 DEF AckInv
<1>8. CASE wnd' = wnd
  <2>1. Base' = Base
    BY <1>2, <1>8 DEF Base
  <2> QED BY <1>2, <1>4, <1>6, <1>7, <1>8, <2>1 DEF WindowInv
<1>9. ASSUME NEW i \in 0..Len(wnd), AckedPackets(wnd, ack, i),
             wnd' = RefreshWindow(wnd, i)
      PROVE  WindowInv' /\ AckInv'
  <2>1. /\ Len(wnd') = Len(wnd) - i /\ wnd' \in Seq(Int)
        /\ \A j \in 1..(Len(wnd) - i) : wnd'[j] = wnd[i + j]
    BY <1>9, SuffixProperties DEF RefreshWindow, Numbers
  <2>2. DOMAIN wnd' = 1..(Len(wnd) - i)
    BY <2>1, LenProperties
  <2>3. Base' = Base + i /\ Base' \in Int /\ i \in Nat /\ Len(wnd') <= PutDone'
    BY <1>2, <1>6, <2>1 DEF Base, WindowInv, Numbers
  <2>4. ASSUME NEW j \in DOMAIN wnd' PROVE wnd'[j] = Base' + j - 1
    <3>1. j \in 1..(Len(wnd) - i) /\ i + j \in DOMAIN wnd
      BY <1>6, <2>2
    <3>2. wnd'[j] = Base + (i + j) - 1
      BY <2>1, <3>1 DEF WindowInv
    <3> QED BY <1>6, <2>3, <3>1, <3>2
  <2>5. SeqNum(Base + i) <= ack
    <3>1. \A j \in DOMAIN wnd : wnd[j] = Base + j - 1
      BY DEF WindowInv
    <3> QED BY <1>4, <1>6, <1>9, <2>3, <3>1, DiscardedBeforeAck DEF Numbers
  <2> QED BY <1>7, <2>3, <2>4, <2>5 DEF WindowInv
<1> QED BY <1>1, <1>3, <1>8, <1>9

\* The first packet of the window is not ahead of what the client expects.
LEMMA BaseIsOld ==
  ASSUME Numbers, WindowInv, AckInv, wnd # << >>
  PROVE  /\ Head(wnd) = Base /\ Base \in Int /\ ~ Ahead(Head(wnd))
         /\ Head(wnd) < PutDone
<1>1. Head(wnd) = wnd[1] /\ Len(wnd) \in Nat \ {0} /\ DOMAIN wnd = 1..Len(wnd)
  BY HeadIsFirst DEF Numbers
<1>2. Base \in Int /\ Base < PutDone /\ PutDone \in Nat
  BY <1>1 DEF Base, Numbers
<1>3. 1 \in DOMAIN wnd /\ wnd[1] = Base + 1 - 1
  BY <1>1 DEF WindowInv
<1>4. Head(wnd) = Base
  BY <1>1, <1>2, <1>3
<1>5. ~ Ahead(Base)
  <2>1. SeqNum(Base) <= rcvNext /\ SeqNum(Base) \in Int /\ rcvNext \in Int
    BY <1>2, SeqNumValue DEF AckInv, Numbers
  <2> QED BY <2>1 DEF Ahead
<1> QED BY <1>2, <1>4, <1>5

\* Whatever the client receives, what it expects does not decrease, and it
\* acknowledges nothing else.
LEMMA ClientExpects ==
  ASSUME NEW n \in Int, NEW m, m.n = n, buff \in Seq(Int), rcvNext \in Int,
         NEW lost \in BOOLEAN,
         \/ ClientAnswer(m, lost) \/ ClientSize(m, lost) \/ ClientEnd(m, lost)
         \/ ClientInOrder(m, lost) \/ ClientOutOfOrder(m, lost)
         \/ ClientDuplicate(m, lost)
  PROVE  /\ rcvNext <= rcvNext'
         /\ \/ toServer' = toServer
            \/ \E l \in BOOLEAN : toServer' = Transmit(toServer, rcvNext', l)
<1>1. CASE ClientAnswer(m, lost)
  BY <1>1 DEF ClientAnswer, SendAck
<1>2. CASE ClientSize(m, lost)
  <2>1. CASE rcvNext' = rcvNext /\ toServer' = toServer
    BY <2>1
  <2>2. CASE SeqNum(n) = rcvNext /\ rcvNext' = SeqAfter(n) /\ SendAck(rcvNext', lost)
    <3>1. rcvNext' = SeqNum(n + 1)
      BY <2>2, SeqNumValue
    <3>2. SeqNum(n) <= SeqNum(n + 1)
      BY SeqNumMonotone
    <3> QED BY <2>2, <3>1, <3>2 DEF SendAck
  <2> QED BY <1>2, <2>1, <2>2 DEF ClientSize
<1>3. CASE ClientEnd(m, lost)
  BY <1>3 DEF ClientEnd, SendAck
<1>4. CASE ClientInOrder(m, lost)
  <2>1. PICK k \in 0..Len(buff) :
          /\ Drains(n, buff, k)
          /\ \/ rcvNext' = rcvNext /\ toServer' = toServer
             \/ /\ rcvNext' = SeqAfter(IF k = 0 THEN n ELSE buff[k])
                /\ SendAck(rcvNext', lost)
    BY <1>4 DEF ClientInOrder
  <2>2. SeqNum(n) = rcvNext
    BY <1>4 DEF ClientInOrder
  <2>3. CASE rcvNext' = rcvNext /\ toServer' = toServer
    BY <2>3
  <2>4. CASE /\ rcvNext' = SeqAfter(IF k = 0 THEN n ELSE buff[k])
             /\ SendAck(rcvNext', lost)
    <3>1. k \in Nat
      BY LenProperties
    <3>2. SeqNum(n) <= rcvNext'
      BY <2>1, <2>4, <3>1, DrainedNext
    <3> QED BY <2>2, <2>4, <3>2 DEF SendAck
  <2> QED BY <2>1, <2>3, <2>4
<1>5. CASE ClientOutOfOrder(m, lost)
  BY <1>5 DEF ClientOutOfOrder, SendAck
<1>6. CASE ClientDuplicate(m, lost)
  BY <1>6 DEF ClientDuplicate, SendAck, clientVars
<1> QED BY <1>1, <1>2, <1>3, <1>4, <1>5, <1>6

----------------------------------------------------------------------------
(***************************************************************************)
(* The packets on their way and in the receive buffer.                     *)
(***************************************************************************)

\* No packet that the client still waits for is sent twice, so fewer of them than
\* the window holds are ahead of the first one it waits for.
LEMMA RoomForAhead ==
  ASSUME TypeInv, WindowInv, AckInv, BufferInv
  PROVE  Len(buff) < RWND
<1>1. buff \in Seq(Int) /\ Len(buff) \in Nat /\ Numbers
  BY PacketsAreNumbers, NumbersOfType, LenProperties DEF TypeInv, TypeOK
<1>2. Base \in Int /\ next \in Nat /\ PutDone \in Nat /\ Len(wnd) \in Nat
      /\ Base <= PutDone /\ PutDone <= next
  BY <1>1, PutDoneNumber, LenProperties DEF Base, Numbers, WindowInv
<1>3. next - Base <= WND
  BY <1>2, EmptySeq, WindowsAssumption DEF TypeInv, TypeOK, Control, Base, PutDone
<1>4. ASSUME NEW i \in DOMAIN buff PROVE Base < buff[i] /\ buff[i] < next
  <2>1. buff[i] \in Int
    BY <1>1, ElementOfSeq, LenProperties
  <2>2. rcvNext < SeqNum(buff[i]) /\ SeqNum(Base) <= rcvNext /\ rcvNext \in Int
        /\ SeqNum(Base) \in Int /\ SeqNum(buff[i]) \in Int
    BY <1>1, <1>2, <2>1, SeqNumValue DEF BufferInv, Ahead, AckInv, Numbers
  <2>3. Base < buff[i]
    BY <1>2, <2>1, <2>2, SeqNumMonotone
  <2> QED BY <2>3 DEF BufferInv
<1>5. CASE Base < next
  <2>1. Len(buff) < next - Base
    BY <1>1, <1>2, <1>4, <1>5, IncreasingLength DEF BufferInv
  <2> QED BY <1>1, <1>2, <1>3, <2>1, WindowsAssumption
<1>6. CASE ~ (Base < next)
  <2>1. DOMAIN buff = {}
    <3>1. ASSUME NEW i \in DOMAIN buff PROVE FALSE
      <4>1. buff[i] \in Int
        BY <1>1, ElementOfSeq, LenProperties
      <4> QED BY <1>2, <1>4, <1>6, <4>1
    <3> QED BY <3>1
  <2>2. Len(buff) = 0
    BY <1>1, <2>1, LenProperties
  <2> QED BY <2>2, WindowsAssumption
<1> QED BY <1>5, <1>6

\* The first packet and the ACK of the request are ahead of nothing.
LEMMA ZeroIsNotAhead == TypeInv => ~ Ahead(0)
BY WindowsAssumption DEF TypeInv, TypeOK, AckNums, Ahead, SeqNum

\* The client's side is as before, and one packet may be on its way more: the next
\* one, or one that the client does not wait for.
LEMMA PacketSent ==
  ASSUME TypeInv, DataInv, BufferInv, next' \in Nat, next <= next',
         rcvNext' = rcvNext, buff' = buff, client' = client,
         handler' = "sending" => ~ Ahead(rtx') /\ rtx' < next',
         NEW m \in Messages, m.n < next' \/ m.n = 0, Ahead(m.n) => m.n = next,
         \/ toClient' = toClient
         \/ \E lost \in BOOLEAN : toClient' = Transmit(toClient, m, lost)
  PROVE  DataInv' /\ BufferInv'
<1>1. /\ toClient \in Seq(Messages) /\ next \in Nat
      /\ buff \in Seq(Int)
      /\ \A k \in DOMAIN toClient : k \in Nat /\ toClient[k] \in Messages
      /\ \A p \in Messages : p.n \in Nat
  <2>1. \A p \in Messages : p.n \in Nat
    BY PacketSequence DEF Messages
  <2>2. toClient \in Seq(Messages)
    BY DEF TypeInv, TypeOK
  <2>3. \A k \in DOMAIN toClient : k \in Nat /\ toClient[k] \in Messages
    BY <2>2, ElementOfSeq, LenProperties
  <2>4. buff \in Seq(Int)
    BY PacketsAreNumbers DEF TypeInv, TypeOK
  <2> QED BY <2>1, <2>2, <2>3, <2>4, PutDoneNumber
<1>2. \A p : Ahead(p)' <=> Ahead(p)
  BY DEF Ahead
<1>3. \A k \in DOMAIN toClient' :
        \/ k \in DOMAIN toClient /\ toClient'[k] = toClient[k]
        \/ /\ k \notin DOMAIN toClient /\ toClient'[k] = m
           /\ \A j \in DOMAIN toClient' : j <= k
  <2>1. CASE toClient' = toClient
    BY <2>1
  <2>2. ASSUME NEW lost \in BOOLEAN, toClient' = Transmit(toClient, m, lost)
        PROVE  \A k \in DOMAIN toClient' :
                 \/ k \in DOMAIN toClient /\ toClient'[k] = toClient[k]
                 \/ /\ k \notin DOMAIN toClient /\ toClient'[k] = m
                    /\ \A j \in DOMAIN toClient' : j <= k
    BY <1>1, <2>2, NewestSent
  <2> QED BY <2>1, <2>2
<1>4. \A i \in DOMAIN buff : buff[i] \in Int /\ buff[i] < next
  BY <1>1, ElementOfSeq, LenProperties DEF BufferInv
<1>5. \A k \in DOMAIN toClient' : toClient'[k].n < next' \/ toClient'[k].n = 0
  <2> SUFFICES ASSUME NEW k \in DOMAIN toClient'
               PROVE  toClient'[k].n < next' \/ toClient'[k].n = 0
    OBVIOUS
  <2>1. CASE toClient'[k] = m
    BY <2>1
  <2>2. CASE k \in DOMAIN toClient /\ toClient'[k] = toClient[k]
    <3>1. toClient[k].n < next \/ toClient[k].n = 0
      BY <2>2 DEF DataInv
    <3>2. toClient[k].n \in Nat
      BY <1>1, <2>2
    <3> QED BY <1>1, <2>2, <3>1, <3>2
  <2> QED BY <1>3, <2>1, <2>2
<1>6. ASSUME NEW k \in DOMAIN toClient', Ahead(toClient'[k].n)
      PROVE  /\ \A i \in DOMAIN buff : buff[i] < toClient'[k].n
             /\ \A j \in DOMAIN toClient' : j < k => toClient'[j].n < toClient'[k].n
  <2>1. CASE k \in DOMAIN toClient /\ toClient'[k] = toClient[k]
    <3>1. /\ \A i \in DOMAIN buff : buff[i] < toClient[k].n
          /\ \A j \in DOMAIN toClient : j < k => toClient[j].n < toClient[k].n
      BY <1>6, <2>1 DEF DataInv
    <3>2. ASSUME NEW j \in DOMAIN toClient', j < k
          PROVE  j \in DOMAIN toClient /\ toClient'[j] = toClient[j]
      <4>1. CASE j \in DOMAIN toClient /\ toClient'[j] = toClient[j]
        BY <4>1
      <4>2. CASE j \notin DOMAIN toClient /\ k <= j
        <5>1. Len(toClient) \in Nat /\ DOMAIN toClient = 1..Len(toClient)
          BY <1>1, LenProperties
        <5>2. toClient' \in Seq(Messages)
          BY <1>1, NewestSent
        <5>3. j \in Int
          BY <5>2, LenProperties
        <5> QED BY <2>1, <3>2, <4>2, <5>1, <5>3
      <4> QED BY <1>3, <3>2, <4>1, <4>2
    <3> QED BY <2>1, <3>1, <3>2
  <2>2. CASE k \notin DOMAIN toClient /\ toClient'[k] = m
    <3>1. m.n = next /\ m.n \in Nat
      BY <1>1, <1>6, <2>2
    <3>2. next # 0
      BY <1>6, <2>2, <3>1, ZeroIsNotAhead
    <3>3. \A i \in DOMAIN buff : buff[i] < toClient'[k].n
      BY <1>4, <2>2, <3>1
    <3>4. ASSUME NEW j \in DOMAIN toClient', j < k
          PROVE  toClient'[j].n < toClient'[k].n
      <4>1. toClient' \in Seq(Messages)
        BY <1>1, NewestSent
      <4>2. j \in Int /\ k \in Int
        BY <4>1, LenProperties
      <4>3. CASE j \in DOMAIN toClient /\ toClient'[j] = toClient[j]
        <5>1. toClient[j].n < next \/ toClient[j].n = 0
          BY <4>3 DEF DataInv
        <5> QED BY <2>2, <3>1, <3>2, <4>3, <5>1
      <4>4. CASE k <= j
        BY <3>4, <4>2, <4>4
      <4> QED BY <1>3, <4>3, <4>4
    <3> QED BY <3>3, <3>4
  <2> QED BY <1>3, <2>1, <2>2
<1>7. DataInv'
  <2>1. handler' = "sending" => ~ (rcvNext' < SeqNum(rtx')) /\ rtx' < next'
    BY DEF Ahead
  <2>2. ASSUME NEW k \in DOMAIN toClient', rcvNext' < SeqNum(toClient'[k].n)
        PROVE  /\ \A i \in DOMAIN buff' : buff'[i] < toClient'[k].n
               /\ \A j \in DOMAIN toClient' : j < k => toClient'[j].n < toClient'[k].n
    <3>1. Ahead(toClient'[k].n)
      BY <2>2 DEF Ahead
    <3> QED BY <1>6, <3>1
  <2> QED BY <1>5, <2>1, <2>2 DEF DataInv, Ahead
<1>8. BufferInv'
  <2>1. \A i \in DOMAIN buff : buff[i] < next'
    BY <1>1, <1>4
  <2> QED BY <1>2, <2>1 DEF BufferInv
<1> QED BY <1>7, <1>8

\* The client's buffer keeps its order: what a drain leaves is ahead of what is
\* expected then, and a packet that is stored belongs at the end.
LEMMA BufferReceived ==
  ASSUME TypeInv, WriteInv, BufferInv, Len(buff) < RWND, NEW lost \in BOOLEAN,
         NEW m \in Messages, Ahead(m.n) => \A i \in DOMAIN buff : buff[i] < m.n,
         \/ ClientAnswer(m, lost) \/ ClientSize(m, lost) \/ ClientEnd(m, lost)
         \/ ClientInOrder(m, lost) \/ ClientOutOfOrder(m, lost)
         \/ ClientDuplicate(m, lost)
  PROVE  /\ client' # "corrupt"
         /\ Increasing(buff')
         /\ \A i \in DOMAIN buff' :
              /\ rcvNext' < SeqNum(buff'[i])
              /\ \/ \E j \in DOMAIN buff : buff'[i] = buff[j]
                 \/ Ahead(m.n) /\ buff'[i] = m.n
<1> DEFINE n == m.n
<1>1. n \in Nat /\ n \in Int /\ buff \in Seq(Int) /\ client # "corrupt"
  BY PacketSequence, PacketsAreNumbers DEF Messages, TypeInv, TypeOK, BufferInv
<1>2. Increasing(buff) /\ \A i \in DOMAIN buff : rcvNext < SeqNum(buff[i])
  BY DEF BufferInv, Ahead
<1>3. Len(buff) \in Nat /\ DOMAIN buff = 1..Len(buff)
  BY <1>1, LenProperties
<1>4. ASSUME buff' = buff, rcvNext' = rcvNext, client' # "corrupt"
      PROVE  /\ client' # "corrupt" /\ Increasing(buff')
             /\ \A i \in DOMAIN buff' :
                  /\ rcvNext' < SeqNum(buff'[i])
                  /\ \E j \in DOMAIN buff : buff'[i] = buff[j]
  BY <1>2, <1>4
<1>5. CASE ClientAnswer(m, lost) \/ ClientEnd(m, lost) \/ ClientDuplicate(m, lost)
  <2>1. buff' = buff /\ rcvNext' = rcvNext /\ client' # "corrupt"
    BY <1>1, <1>5 DEF ClientAnswer, ClientEnd, ClientDuplicate, clientVars
  <2> QED BY <1>4, <2>1
<1>6. CASE ClientSize(m, lost)
  <2>1. buff = << >> /\ buff' = buff /\ client' # "corrupt"
    BY <1>6 DEF ClientSize, WriteInv
  <2>2. DOMAIN buff' = {} /\ Increasing(buff')
    BY <1>2, <2>1, EmptySeq
  <2> QED BY <2>1, <2>2
<1>7. CASE ClientInOrder(m, lost)
  <2>1. PICK k \in 0..Len(buff) :
          /\ Drains(n, buff, k)
          /\ IF k = RWND
             THEN client' = "corrupt"
             ELSE /\ rcvNext' = SeqAfter(IF k = 0 THEN n ELSE buff[k])
                  /\ buff' = ReorderBuffer(buff, k)
                  /\ client' = client
    BY <1>7 DEF ClientInOrder
  <2>2. SeqNum(n) = rcvNext /\ k # RWND /\ k \in Nat
    BY <1>3, <1>7, WindowsAssumption DEF ClientInOrder
  <2>3. /\ rcvNext' = SeqAfter(IF k = 0 THEN n ELSE buff[k])
        /\ buff' = ReorderBuffer(buff, k)
        /\ client' # "corrupt"
    BY <1>1, <2>1, <2>2
  <2>4. \A i \in DOMAIN buff : SeqNum(n) < SeqNum(buff[i])
    BY <1>2, <2>2
  <2> HIDE DEF n
  <2>5. /\ \A i \in DOMAIN buff' : k + i \in DOMAIN buff /\ buff'[i] = buff[k + i]
        /\ \A i \in DOMAIN buff' : rcvNext' < SeqNum(buff'[i])
        /\ Increasing(buff')
    BY <1>1, <1>2, <2>1, <2>2, <2>3, <2>4, DrainedAhead
  <2> QED BY <2>3, <2>5
<1>8. CASE ClientOutOfOrder(m, lost)
  <2>1. Ahead(n) /\ rcvNext' = rcvNext
    <3>1. rcvNext < SeqNum(n) /\ rcvNext' = rcvNext
      BY <1>8 DEF ClientOutOfOrder
    <3> QED BY <3>1 DEF Ahead
  <2>2. \A i \in DOMAIN buff : buff[i] < n
    BY <2>1
  <2> HIDE DEF n
  <2>3. ~ MustOrder(n, buff) /\ Increasing(Append(buff, n))
    BY <1>1, <1>2, <2>2, StoredLast
  <2>4. buff' = Append(buff, n) /\ client' # "corrupt"
    BY <1>1, <1>8, <2>3 DEF ClientOutOfOrder, StoreRwnd, n
  <2>5. /\ buff' \in Seq(Int) /\ Len(buff') = Len(buff) + 1
        /\ \A i \in 1..Len(buff) : buff'[i] = buff[i]
        /\ buff'[Len(buff) + 1] = n
    BY <1>1, <2>4, AppendProperties
  <2>6. DOMAIN buff' = 1..(Len(buff) + 1)
    BY <2>5, LenProperties
  <2>7. ASSUME NEW i \in DOMAIN buff'
        PROVE  /\ rcvNext' < SeqNum(buff'[i])
               /\ \/ \E j \in DOMAIN buff : buff'[i] = buff[j]
                  \/ Ahead(n) /\ buff'[i] = n
    <3>1. CASE i \in 1..Len(buff)
      <4>1. buff'[i] = buff[i] /\ i \in DOMAIN buff
        BY <1>3, <2>5, <3>1
      <4> QED BY <1>2, <2>1, <4>1
    <3>2. CASE i = Len(buff) + 1
      BY <2>1, <2>5, <3>2 DEF Ahead
    <3> QED BY <1>3, <2>6, <3>1, <3>2
  <2> QED BY <2>3, <2>4, <2>7 DEF n
<1> QED BY <1>4, <1>5, <1>6, <1>7, <1>8

\* A datagram is received by the client.
LEMMA PacketReceived ==
  ASSUME ~Reorder, TypeInv, TypeInv', WriteInv, FifoInv, NEW lost \in BOOLEAN,
         ClientReceive(lost)
  PROVE  FifoInv'
<1> USE DEF FifoInv
<1>1. PICK d \in Deliverable(toClient) :
        /\ \/ ClientAnswer(toClient[d], lost) \/ ClientSize(toClient[d], lost)
           \/ ClientEnd(toClient[d], lost) \/ ClientInOrder(toClient[d], lost)
           \/ ClientOutOfOrder(toClient[d], lost)
           \/ ClientDuplicate(toClient[d], lost)
        /\ toClient' = RemoveAt(toClient, d)
        /\ UNCHANGED <<workerVars, wnd, timerVars, ackVars, crashed>>
  BY DEF ClientReceive
<1>2. /\ next' = next /\ wnd' = wnd /\ handler' = handler /\ rtx' = rtx
      /\ PutDone' = PutDone
  BY <1>1 DEF workerVars, timerVars, PutDone
<1>3. toClient \in Seq(Messages) /\ buff \in Seq(Int) /\ next \in Nat
  BY PacketsAreNumbers, PutDoneNumber DEF TypeInv, TypeOK
<1>4. /\ d = 1 /\ 1 \in DOMAIN toClient
      /\ \A j \in DOMAIN toClient' :
           j \in Nat \ {0} /\ j + 1 \in DOMAIN toClient /\ toClient'[j] = toClient[j + 1]
  BY <1>1, <1>3, OldestReceived
<1> DEFINE m == toClient[1]
<1>5. m \in Messages /\ m.n \in Nat /\ m.n \in Int
  <2>1. m \in Messages
    BY <1>3, <1>4, ElementOfSeq, LenProperties
  <2> QED BY <2>1, PacketSequence DEF Messages
<1>6. \/ ClientAnswer(m, lost) \/ ClientSize(m, lost) \/ ClientEnd(m, lost)
      \/ ClientInOrder(m, lost) \/ ClientOutOfOrder(m, lost)
      \/ ClientDuplicate(m, lost)
  BY <1>1, <1>4
<1>7. Ahead(m.n) => \A i \in DOMAIN buff : buff[i] < m.n
  BY <1>4 DEF DataInv
<1>8. m.n < next \/ m.n = 0
  BY <1>4 DEF DataInv
<1> HIDE DEF m
<1>9. Len(buff) < RWND /\ Numbers /\ Numbers' /\ rcvNext \in Int /\ rcvNext' \in Int
  <2>1. Numbers'
    BY NumbersOfType, PTL
  <2> QED BY <2>1, RoomForAhead, NumbersOfType DEF Numbers
<1>10. /\ rcvNext <= rcvNext'
       /\ \/ toServer' = toServer
          \/ \E l \in BOOLEAN : toServer' = Transmit(toServer, rcvNext', l)
  BY <1>3, <1>5, <1>6, <1>9, ClientExpects
<1>11. WindowInv' /\ AckInv'
  BY <1>2, <1>9, <1>10, WindowKept, AckSent
<1>12. /\ client' # "corrupt" /\ Increasing(buff')
       /\ \A i \in DOMAIN buff' :
            /\ rcvNext' < SeqNum(buff'[i])
            /\ \/ \E j \in DOMAIN buff : buff'[i] = buff[j]
               \/ Ahead(m.n) /\ buff'[i] = m.n
  BY <1>5, <1>6, <1>7, <1>9, BufferReceived
<1>13. BufferInv'
  <2>1. ASSUME NEW i \in DOMAIN buff' PROVE buff'[i] < next'
    <3>1. CASE \E j \in DOMAIN buff : buff'[i] = buff[j]
      BY <1>2, <3>1 DEF BufferInv
    <3>2. CASE Ahead(m.n) /\ buff'[i] = m.n
      BY <1>2, <1>8, <3>2, ZeroIsNotAhead
    <3> QED BY <1>12, <3>1, <3>2
  <2>2. \A i \in DOMAIN buff' : SeqNum(buff'[i]) > rcvNext'
    BY <1>12
  <2> QED BY <1>12, <2>1, <2>2 DEF BufferInv, Ahead
<1>14. \A n \in Int : rcvNext' < SeqNum(n) => Ahead(n)
  <2>1. \A n \in Int : SeqNum(n) \in Int
    BY SeqNumValue
  <2> QED BY <1>9, <1>10, <2>1 DEF Ahead
<1>15. \A k \in DOMAIN toClient : toClient[k] \in Messages /\ toClient[k].n \in Int
  <2>1. \A k \in DOMAIN toClient : toClient[k] \in Messages
    BY <1>3, ElementOfSeq, LenProperties
  <2>2. \A p \in Messages : p.n \in Int
    BY PacketSequence DEF Messages
  <2> QED BY <2>1, <2>2
<1>16. \A k \in DOMAIN toClient' : toClient'[k].n < next' \/ toClient'[k].n = 0
  BY <1>2, <1>4 DEF DataInv
<1>17. ASSUME NEW k \in DOMAIN toClient', rcvNext' < SeqNum(toClient'[k].n)
       PROVE  /\ \A i \in DOMAIN buff' : buff'[i] < toClient'[k].n
              /\ \A j \in DOMAIN toClient' : j < k => toClient'[j].n < toClient'[k].n
  <2>1. /\ k \in Nat \ {0} /\ k + 1 \in DOMAIN toClient /\ 1 < k + 1
        /\ toClient'[k] = toClient[k + 1] /\ toClient[k + 1].n \in Int
    BY <1>4, <1>15
  <2>2. Ahead(toClient[k + 1].n)
    BY <1>14, <1>17, <2>1
  <2>3. /\ \A i \in DOMAIN buff : buff[i] < toClient[k + 1].n
        /\ \A j \in DOMAIN toClient : j < k + 1 => toClient[j].n < toClient[k + 1].n
    BY <2>1, <2>2 DEF DataInv
  <2>4. m.n < toClient[k + 1].n
    BY <1>4, <2>1, <2>3 DEF m
  <2>5. \A i \in DOMAIN buff' : buff'[i] < toClient'[k].n
    BY <1>12, <2>1, <2>3, <2>4
  <2>6. ASSUME NEW j \in DOMAIN toClient', j < k
        PROVE  toClient'[j].n < toClient'[k].n
    <3>1. j + 1 \in DOMAIN toClient /\ j + 1 < k + 1 /\ toClient'[j] = toClient[j + 1]
      BY <1>4, <2>1, <2>6
    <3> QED BY <2>1, <2>3, <3>1
  <2> QED BY <2>5, <2>6
<1>18. handler' = "sending" => ~ (rcvNext' < SeqNum(rtx')) /\ rtx' < next'
  <2>1. rtx \in Int
    BY PacketSequence DEF TypeInv, TypeOK
  <2> QED BY <1>2, <1>14, <2>1 DEF DataInv
<1>19. DataInv'
  BY <1>16, <1>17, <1>18 DEF DataInv, Ahead
<1> QED BY <1>11, <1>13, <1>19

----------------------------------------------------------------------------
(***************************************************************************)
(* All steps.                                                              *)
(***************************************************************************)

\* At first nothing is in transit.
LEMMA FifoInit == Init => FifoInv
<1> SUFFICES ASSUME Init PROVE FifoInv
  OBVIOUS
<1>1. WindowInv /\ AckInv
  BY WindowInit
<1>2. DOMAIN toClient = {} /\ DOMAIN buff = {}
  BY EmptySeq DEF Init
<1>3. DataInv
  BY <1>2 DEF Init, DataInv
<1>4. BufferInv
  BY <1>2 DEF Init, BufferInv, Increasing
<1> QED BY <1>1, <1>3, <1>4 DEF FifoInv

\* A step that changes nothing but the control state, the timer, or lets a call
\* fail.
LEMMA FifoUnchanged ==
  ASSUME TypeInv, TypeInv', FifoInv, PutDone' = PutDone, client' # "corrupt",
         UNCHANGED <<next, wnd, rcvNext, buff, toClient, toServer>>,
         handler' = "sending" => handler = "sending" /\ rtx' = rtx
  PROVE  FifoInv'
<1>1. next \in Nat /\ next' = next /\ Numbers /\ rcvNext \in Int
  BY PutDoneNumber, NumbersOfType DEF Numbers
<1>2. Numbers'
  BY NumbersOfType, PTL
<1>3. WindowInv' /\ AckInv'
  BY <1>1, <1>2, WindowKept, AckSent DEF FifoInv
<1>4. DataInv'
  BY <1>1 DEF FifoInv, DataInv, Ahead
<1>5. BufferInv'
  BY <1>1 DEF FifoInv, BufferInv, Ahead
<1> QED BY <1>3, <1>4, <1>5 DEF FifoInv

\* The worker sends a packet that it has not sent before, or the ACK of the request.
LEMMA FifoSend ==
  ASSUME TypeInv, TypeInv', FifoInv, NEW lost \in BOOLEAN,
         AcceptRequest(lost) \/ SendError(lost) \/ SendSize(lost)
           \/ SendData(lost) \/ SendEof(lost)
  PROVE  FifoInv'
<1>1. /\ wnd' = wnd /\ rcvNext' = rcvNext /\ buff' = buff /\ client' = client
      /\ toServer' = toServer /\ handler' = handler /\ rtx' = rtx
  BY DEF AcceptRequest, SendError, SendSize, SendData, SendEof, SendNext,
         timerVars, clientVars
<1>2. next \in Nat /\ Numbers /\ Numbers' /\ rcvNext \in Int
  <2>1. Numbers'
    BY NumbersOfType, PTL
  <2> QED BY <2>1, PutDoneNumber, NumbersOfType DEF Numbers
<1>3. PutDone' = PutDone
  BY <1>2 DEF AcceptRequest, SendError, SendSize, SendData, SendEof, SendNext,
              PutDone, TypeInv, Control
<1>4. WindowInv' /\ AckInv'
  BY <1>1, <1>2, <1>3, WindowKept, AckSent DEF FifoInv
<1>5. DataInv' /\ BufferInv'
  <2>1. CASE AcceptRequest(lost)
    <3> DEFINE m == [type |-> "ACK", n |-> 0]
    <3>1. m \in Messages /\ m.n = 0
      BY PacketNumbers DEF Messages, MessageTypes
    <3>2. next' = next /\ toClient' = Transmit(toClient, m, lost)
      BY <2>1 DEF AcceptRequest
    <3> HIDE DEF m
    <3>3. ~ Ahead(m.n)
      BY <3>1, ZeroIsNotAhead
    <3> QED BY <1>1, <1>2, <3>1, <3>2, <3>3, PacketSent DEF FifoInv, DataInv
  <2>2. CASE ~ AcceptRequest(lost)
    <3> DEFINE m == PacketMessage(next)
    <3>1. next \in Packets
      BY <2>2, PacketNumbers
         DEF SendError, SendSize, SendData, SendEof, SendNext, TypeInv, Control
    <3>2. m \in Messages /\ m.n = next
      BY <3>1 DEF PacketMessage, Messages, MessageTypes
    <3>3. next' = next + 1 /\ toClient' = Transmit(toClient, m, lost)
      <4>1. CASE SendError(lost)
        <5>1. next = 0
          BY <4>1 DEF SendError, TypeInv, Control
        <5> QED BY <4>1, <5>1 DEF SendError, SendPacket
      <4> QED BY <2>2, <4>1 DEF SendSize, SendData, SendEof, SendNext, SendPacket
    <3> HIDE DEF m
    <3>4. next' \in Nat /\ next <= next' /\ m.n < next'
      BY <1>2, <3>2, <3>3
    <3>5. handler' = "sending" => ~ Ahead(rtx') /\ rtx' < next'
      <4>1. rtx \in Int
        BY PacketSequence DEF TypeInv, TypeOK
      <4> QED BY <1>1, <1>2, <3>3, <4>1 DEF FifoInv, DataInv
    <3> QED BY <1>1, <3>2, <3>3, <3>4, <3>5, PacketSent DEF FifoInv
  <2> QED BY <2>1, <2>2
<1> QED BY <1>4, <1>5 DEF FifoInv

\* response_get sends packets and puts them into the window in their order.
LEMMA FifoWorker ==
  ASSUME TypeInv, TypeInv', FifoInv, NEW lost \in BOOLEAN, Worker(lost)
  PROVE  FifoInv'
<1>1. CASE AcceptRequest(lost) \/ SendError(lost) \/ SendSize(lost)
             \/ SendData(lost) \/ SendEof(lost)
  BY <1>1, FifoSend
<1>2. CASE PutFirst \/ PutData \/ PutEof
  <2>1. PICK from \in {"firstPut", "put", "eofPut"},
             to \in {"firstArm", "check", "eofWait"} : PutInWindow(from, to)
    BY <1>2 DEF PutFirst, PutData, PutEof
  <2>2. /\ next' = next /\ rcvNext' = rcvNext /\ buff' = buff /\ client' = client
        /\ handler' = handler /\ rtx' = rtx /\ toClient' = toClient
        /\ toServer' = toServer
    BY <2>1 DEF PutInWindow, timerVars, clientVars, channels
  <2>3. next \in Nat /\ next \in Int /\ Numbers /\ Numbers' /\ rcvNext \in Int
    <3>1. Numbers'
      BY NumbersOfType, PTL
    <3> QED BY <3>1, PutDoneNumber, NumbersOfType DEF Numbers
  <2>4. WindowInv' /\ Base' = Base
    BY <2>1, <2>3, PacketPut DEF FifoInv
  <2>5. AckInv'
    BY <2>2, <2>4 DEF FifoInv, AckInv
  <2>6. DataInv' /\ BufferInv'
    BY <2>2 DEF FifoInv, DataInv, BufferInv, Ahead
  <2> QED BY <2>4, <2>5, <2>6 DEF FifoInv
<1>3. CASE ArmFirst \/ ArmData \/ CheckWindow \/ FirstAcked \/ NotFull \/ AllAcked
  <2>1. /\ UNCHANGED <<next, wnd, rcvNext, buff, toClient, toServer>>
        /\ client' = client /\ handler' = handler /\ rtx' = rtx
    BY <1>3 DEF ArmFirst, ArmData, ArmTimer, CheckWindow, FirstAcked, NotFull,
                AllAcked, WaitUntil, timerVars, clientVars, channels
  <2>2. PutDone' = PutDone
    BY <1>3 DEF ArmFirst, ArmData, ArmTimer, CheckWindow, FirstAcked, NotFull,
                AllAcked, WaitUntil, PutDone
  <2> QED BY <2>1, <2>2, FifoUnchanged DEF FifoInv, BufferInv
<1> QED BY <1>1, <1>2, <1>3 DEF Worker

\* What an ACK discards was received, and so the window begins later.
LEMMA FifoIncomingAck ==
  ASSUME ~Reorder, TypeInv, TypeInv', FifoInv, NEW lost \in BOOLEAN,
         IncomingAck(lost)
  PROVE  FifoInv'
<1>1. \/ toClient' = toClient
      \/ wnd # << >> /\ SendPacket(Head(wnd), lost)
  BY DEF IncomingAck
<1>2. /\ next' = next /\ rcvNext' = rcvNext /\ buff' = buff /\ client' = client
      /\ handler' = handler /\ rtx' = rtx
  BY DEF IncomingAck, workerVars, clientVars
<1>3. next \in Nat /\ Numbers /\ Numbers' /\ PutDone <= next /\ PutDone \in Nat
  <2>1. Numbers'
    BY NumbersOfType, PTL
  <2> QED BY <2>1, PutDoneNumber, NumbersOfType
<1>4. WindowInv' /\ AckInv'
  BY <1>3, AckTaken DEF FifoInv
<1>5. CASE toClient' = toClient
  BY <1>2, <1>4, <1>5 DEF FifoInv, DataInv, BufferInv, Ahead
<1>6. CASE wnd # << >> /\ SendPacket(Head(wnd), lost)
  <2> DEFINE m == PacketMessage(Head(wnd))
  <2>1. Head(wnd) \in Packets /\ Head(wnd) \in Nat
    BY <1>6, HeadIsFirst, PacketSequence DEF TypeInv, TypeOK
  <2>2. m \in Messages /\ m.n = Head(wnd)
    BY <2>1 DEF PacketMessage, Messages, MessageTypes
  <2>3. toClient' = Transmit(toClient, m, lost)
    BY <1>6 DEF SendPacket
  <2> HIDE DEF m
  <2>4. ~ Ahead(m.n) /\ m.n < next'
    BY <1>2, <1>3, <1>6, <2>1, <2>2, BaseIsOld DEF FifoInv
  <2>5. DataInv' /\ BufferInv'
    BY <1>2, <1>3, <2>2, <2>3, <2>4, PacketSent DEF FifoInv, DataInv
  <2> QED BY <1>4, <2>5 DEF FifoInv
<1> QED BY <1>1, <1>5, <1>6

\* The base of the window, which the handler resends, is not ahead of rcv_next.
LEMMA FifoHandler ==
  ASSUME TypeInv, TypeInv', FifoInv, NEW lost \in BOOLEAN,
         FetchBase \/ Resend(lost)
  PROVE  FifoInv'
<1>1. /\ next' = next /\ rcvNext' = rcvNext /\ buff' = buff /\ client' = client
      /\ wnd' = wnd /\ toServer' = toServer /\ PutDone' = PutDone
  BY DEF FetchBase, Resend, workerVars, clientVars, channels, PutDone
<1>2. next \in Nat /\ Numbers /\ Numbers' /\ PutDone <= next /\ PutDone \in Nat
      /\ rcvNext \in Int
  <2>1. Numbers'
    BY NumbersOfType, PTL
  <2> QED BY <2>1, PutDoneNumber, NumbersOfType DEF Numbers
<1>3. WindowInv' /\ AckInv'
  BY <1>1, <1>2, WindowKept, AckSent DEF FifoInv
<1>4. CASE FetchBase
  <2>1. toClient' = toClient
    BY <1>4 DEF FetchBase, channels
  <2>2. handler' = "sending" => wnd # << >> /\ rtx' = Head(wnd)
    BY <1>4 DEF FetchBase
  <2>3. wnd # << >> => Head(wnd) \in Nat
    BY HeadIsFirst, PacketSequence DEF TypeInv, TypeOK
  <2>4. handler' = "sending" => ~ Ahead(rtx') /\ rtx' < next'
    BY <1>1, <1>2, <2>2, <2>3, BaseIsOld DEF FifoInv
  <2>5. DataInv'
    BY <1>1, <2>1, <2>4 DEF FifoInv, DataInv, Ahead
  <2>6. BufferInv'
    BY <1>1 DEF FifoInv, BufferInv, Ahead
  <2> QED BY <1>3, <2>5, <2>6 DEF FifoInv
<1>5. CASE Resend(lost)
  <2> DEFINE m == PacketMessage(rtx)
  <2>1. handler = "sending" /\ handler' = "idle" /\ rtx \in Packets
        /\ toClient' = Transmit(toClient, m, lost)
    BY <1>5 DEF Resend, SendPacket, TypeInv, TypeOK
  <2>2. m \in Messages /\ m.n = rtx
    BY <2>1 DEF PacketMessage, Messages, MessageTypes
  <2> HIDE DEF m
  <2>3. ~ Ahead(m.n) /\ m.n < next'
    BY <1>1, <2>1, <2>2 DEF FifoInv, DataInv
  <2>4. DataInv' /\ BufferInv'
    BY <1>1, <1>2, <2>1, <2>2, <2>3, PacketSent DEF FifoInv
  <2> QED BY <1>3, <2>4 DEF FifoInv
<1> QED BY <1>4, <1>5

\* Every step on a network that keeps the order keeps FifoInv.
LEMMA FifoNext ==
  ASSUME ~Reorder, TypeInv, TypeInv', WriteInv, FifoInv, [Next]_vars
  PROVE  FifoInv'
<1>1. ASSUME NEW lost \in BOOLEAN, Worker(lost) PROVE FifoInv'
  BY <1>1, FifoWorker
<1>2. ASSUME NEW lost \in BOOLEAN, IncomingAck(lost) PROVE FifoInv'
  BY <1>2, FifoIncomingAck
<1>3. ASSUME NEW lost \in BOOLEAN, Resend(lost) PROVE FifoInv'
  BY <1>3, FifoHandler
<1>4. ASSUME NEW lost \in BOOLEAN, ClientReceive(lost) PROVE FifoInv'
  BY <1>4, PacketReceived
<1>5. CASE FetchBase
  BY <1>5, FifoHandler
<1>6. CASE Expire \/ ResendFails \/ GiveUp \/ ClientFails \/ UNCHANGED vars
  <2>1. /\ UNCHANGED <<next, wnd, rcvNext, buff, toClient, toServer>>
        /\ client' # "corrupt"
        /\ handler' = "sending" => handler = "sending" /\ rtx' = rtx
    BY <1>6 DEF Expire, ResendFails, GiveUp, ClientFails, vars, workerVars,
                timerVars, clientVars, channels, FifoInv, BufferInv
  <2>2. PutDone' = PutDone
    BY <1>6 DEF Expire, ResendFails, GiveUp, ClientFails, vars, workerVars, PutDone
  <2> QED BY <2>1, <2>2, FifoUnchanged
<1> QED BY <1>1, <1>2, <1>3, <1>4, <1>5, <1>6 DEF Next, Server

\* On a network that keeps the order the window holds the packets from the first one
\* that may not be acknowledged, no ACK on its way is behind it, and the packets that
\* are ahead of what the client expects come to it, and lie in its buffer, in order.
THEOREM GetInvCorrect == ASSUME ~Reorder PROVE Spec => []GetInv
<1>1. Init => TypeInv /\ WriteInv /\ FifoInv
  BY TypeInit, WriteInit, FifoInit
<1>2. TypeInv /\ WriteInv /\ FifoInv /\ [Next]_vars => (TypeInv /\ WriteInv /\ FifoInv)'
  BY TypeNext, WriteNext, FifoNext
<1>3. TypeInv /\ WriteInv /\ FifoInv <=> GetInv
  BY DEF GetInv
<1> QED BY <1>1, <1>2, <1>3, PTL DEF Spec

\* A packet in front of the window has been received.
LEMMA DiscardedByInv == TypeInv /\ FifoInv => DiscardedIsReceived
<1> SUFFICES ASSUME TypeInv, FifoInv, NEW p \in 0..(next - 1)
             PROVE  \/ SeqAfter(p) <= rcvNext
                    \/ \E i \in DOMAIN wnd : wnd[i] = p
                    \/ p = next - 1 /\ pc \in {"firstPut", "put", "eofPut"}
  BY DEF DiscardedIsReceived
<1>1. Numbers /\ next \in Nat /\ PutDone \in Nat
  BY PutDoneNumber, NumbersOfType
<1>2. Base \in Int /\ rcvNext \in Int /\ SeqNum(Base) <= rcvNext /\ p \in Int
      /\ Len(wnd) \in Nat /\ DOMAIN wnd = 1..Len(wnd) /\ Base = PutDone - Len(wnd)
  BY <1>1, LenProperties DEF Numbers, Base, FifoInv, AckInv
<1>3. CASE p < Base
  <2>1. SeqAfter(p) = SeqNum(p + 1) /\ SeqNum(p + 1) <= SeqNum(Base)
    BY <1>2, <1>3, SeqNumValue, SeqNumMonotone
  <2>2. SeqNum(p + 1) \in Int /\ SeqNum(Base) \in Int
    BY <1>2, SeqNumValue
  <2> QED BY <1>2, <2>1, <2>2
<1>4. CASE Base <= p /\ p < PutDone
  <2>1. p - Base + 1 \in DOMAIN wnd /\ Base + (p - Base + 1) - 1 = p
    BY <1>1, <1>2, <1>4
  <2>2. wnd[p - Base + 1] = p
    BY <2>1 DEF FifoInv, WindowInv
  <2> QED BY <2>1, <2>2
<1>5. CASE PutDone <= p
  BY <1>1, <1>2, <1>5 DEF PutDone
<1> QED BY <1>1, <1>2, <1>3, <1>4, <1>5

\* What the worker has discarded from its window the client has received, so the
\* base is never a packet the client still waits for that nobody can resend
\* (windows.c:17-18).
THEOREM DiscardedCorrect == ASSUME ~Reorder PROVE Spec => []DiscardedIsReceived
<1>1. GetInv => DiscardedIsReceived
  BY DiscardedByInv DEF GetInv
<1> QED BY <1>1, GetInvCorrect, PTL

\* store_rwnd only ever appends, and the receive buffer is never full: the loops of
\* request_get stay inside the array (windows.c:75-104).
THEOREM BufferCorrect == ASSUME ~Reorder PROVE Spec => []BufferAhead
<1>1. GetInv => BufferAhead
  <2> SUFFICES ASSUME GetInv PROVE BufferAhead
    OBVIOUS
  <2>1. TypeInv /\ WindowInv /\ AckInv /\ BufferInv
    BY DEF GetInv, FifoInv
  <2>2. Len(buff) < RWND
    BY <2>1, RoomForAhead
  <2>3. buff \in Seq(Int) /\ \A i \in DOMAIN buff : buff[i] \in Int /\ i \in Int
    <3>1. buff \in Seq(Int)
      BY <2>1, PacketsAreNumbers DEF TypeInv, TypeOK
    <3> QED BY <3>1, ElementOfSeq, LenProperties
  <2>4. ASSUME NEW i \in DOMAIN buff, NEW j \in DOMAIN buff, i < j
        PROVE  buff[i] < buff[j]
    BY <2>1, <2>3, <2>4 DEF BufferInv, Increasing
  <2> QED BY <2>1, <2>2, <2>4 DEF BufferInv, BufferAhead, Ahead
<1> QED BY <1>1, GetInvCorrect, PTL


----------------------------------------------------------------------------
(***************************************************************************)
(* The end of a GET and of a LIST.                                         *)
(***************************************************************************)

\* What the lemmas on windows need of the types of a download.
LEMMA DownloadFacts ==
  ASSUME DownloadNumbers
  PROVE  /\ Numbers /\ next \in Nat /\ N \in Nat /\ rtx \in Nat
         /\ rcvNext \in Nat /\ rcvNext <= N + 1
         /\ buff \in Seq(Int) /\ toClient \in Seq(Datagrams)
         /\ Base \in Int /\ SeqNum(Base) \in Int
<1>1. Nat \subseteq Int /\ AckNums \subseteq Int
  BY WindowsAssumption DEF AckNums
<1>2. wnd \in Seq(Int) /\ buff \in Seq(Int) /\ toServer \in Seq(Int)
  BY <1>1, WiderSequence DEF DownloadNumbers
<1>3. next \in Nat /\ PutDone \in Nat
  BY DEF DownloadNumbers, PutDone
<1>4. rcvNext \in Nat /\ rcvNext <= N + 1 /\ N \in Nat
  BY WindowsAssumption DEF DownloadNumbers, AckNums
<1>5. Base \in Int
  BY <1>2, <1>3, LenProperties DEF Base
<1>6. SeqNum(Base) \in Int
  BY <1>5, SeqNumValue
<1> QED BY <1>2, <1>3, <1>4, <1>5, <1>6 DEF DownloadNumbers, Numbers

\* When every packet up to the last one is acknowledged the client has received all.
LEMMA AllReceived ==
  ASSUME DownloadNumbers, AckInv, Base > N
  PROVE  rcvNext = N + 1
<1>1. SeqNum(Base) = N + 1
  BY DownloadFacts, SeqNumValue
<1> QED BY <1>1, DownloadFacts DEF AckInv

\* At the start of a download nothing is in transit or in the window.
LEMMA DownloadInitial == DownloadInit => DownloadInv
<1> SUFFICES ASSUME DownloadInit PROVE DownloadInv
  OBVIOUS
<1>1. Init
  BY DEF DownloadInit
<1>2. WindowInv /\ AckInv
  BY <1>1, WindowInit
<1>3. DownloadNumbers
  <2>1. << >> \in Seq(Nat) /\ << >> \in Seq(AckNums) /\ << >> \in Seq(Datagrams)
    BY EmptySeq
  <2> QED BY <1>1, <2>1, WindowsAssumption DEF Init, DownloadNumbers, AckNums
<1>4. Base = 0
  BY <1>1, EmptySeq DEF Init, Base, PutDone
<1>5. DownloadAcks
  BY <1>1, <1>2, <1>4 DEF Init, DownloadAcks
<1>6. DownloadControl
  BY <1>1 DEF Init, DownloadInit, DownloadControl
<1>7. EndedIsReceived
  BY <1>1 DEF Init, EndedIsReceived
<1> QED BY <1>2, <1>3, <1>5, <1>6, <1>7 DEF DownloadInv

\* The ACKs are as they were when the window begins where it did.
LEMMA AcksKept ==
  ASSUME DownloadAcks, Base' = Base,
         UNCHANGED <<client, rcvNext, toServer, listing>>
  PROVE  DownloadAcks'
BY DEF DownloadAcks, AckInv

\* A packet, or the ACK of the request, is sent to the client.
LEMMA DownloadSend ==
  ASSUME DownloadInv, NEW lost \in BOOLEAN, UNCHANGED choices,
         AcceptRequest(lost) \/ SendError(lost) \/ SendSize(lost)
           \/ SendData(lost) \/ SendEof(lost)
  PROVE  DownloadInv'
<1>1. /\ UNCHANGED <<missing, wnd, client, rcvNext, buff, toServer, rtx>>
      /\ UNCHANGED <<listing, emptyLast>>
  BY DEF AcceptRequest, SendError, SendSize, SendData, SendEof, SendNext,
         timerVars, clientVars, choices
<1>2. DownloadNumbers /\ Numbers /\ next \in Nat /\ toClient \in Seq(Datagrams)
  BY DownloadFacts DEF DownloadInv
<1>3. PICK m \in Datagrams : toClient' = Transmit(toClient, m, lost)
  <2>1. [type |-> "ACK", n |-> 0] \in Datagrams
    BY DEF Datagrams, MessageTypes
  <2>2. PacketMessage(0) \in Datagrams /\ PacketMessage(next) \in Datagrams
    BY <1>2 DEF PacketMessage, Datagrams, MessageTypes
  <2> QED BY <2>1, <2>2 DEF AcceptRequest, SendError, SendSize, SendData, SendEof,
                            SendNext, SendPacket
<1>4. toClient' \in Seq(Datagrams)
  BY <1>2, <1>3, NewestSent
<1>5. /\ PutDone' = PutDone /\ next' \in Nat /\ next <= next'
      /\ pc' \in {"size", "firstPut", "put", "eofPut"}
      /\ pc' # "size" => next' # 0
      /\ pc' = "eofPut" => next' > N
  <2>1. pc = "open" => next = 0
    BY DEF DownloadInv, DownloadControl
  <2>2. pc = "eof" => next > N
    BY DEF DownloadInv, DownloadControl
  <2> QED BY <1>2, <2>1, <2>2, WindowsAssumption
             DEF AcceptRequest, SendError, SendSize, SendData, SendEof, SendNext,
                 PutDone
<1>6. WindowInv' /\ Base' = Base
  BY <1>1, <1>5, WindowKept DEF DownloadInv
<1>7. DownloadNumbers'
  BY <1>1, <1>2, <1>4, <1>5 DEF DownloadNumbers
<1>8. DownloadAcks'
  BY <1>1, <1>6, AcksKept DEF DownloadInv
<1>9. DownloadControl'
  BY <1>1, <1>5 DEF DownloadInv, DownloadControl
<1>10. EndedIsReceived'
  BY <1>1, <1>5 DEF DownloadInv, EndedIsReceived
<1> QED BY <1>6, <1>7, <1>8, <1>9, <1>10 DEF DownloadInv

\* A packet is put into the window.
LEMMA DownloadPut ==
  ASSUME DownloadInv, UNCHANGED choices, PutFirst \/ PutData \/ PutEof
  PROVE  DownloadInv'
<1>1. PICK from \in {"firstPut", "put", "eofPut"},
           to \in {"firstArm", "check", "eofWait"} :
        PutInWindow(from, to) /\ (to = "eofWait" => from = "eofPut")
  BY DEF PutFirst, PutData, PutEof
<1>2. /\ UNCHANGED <<missing, next, client, rcvNext, buff, toServer, toClient, rtx>>
      /\ UNCHANGED <<listing, emptyLast>> /\ wnd' = Append(wnd, next - 1)
      /\ pc = from /\ pc' = to
  BY <1>1 DEF PutInWindow, UpdateWindow, timerVars, clientVars, channels, choices
<1>3. DownloadNumbers /\ Numbers /\ next \in Nat
  BY DownloadFacts DEF DownloadInv
<1>4. DownloadNumbers'
  <2>1. next - 1 \in Nat
    BY <1>2, <1>3 DEF DownloadNumbers
  <2>2. wnd' \in Seq(Nat)
    BY <1>2, <1>3, <2>1, AppendProperties DEF DownloadNumbers
  <2> QED BY <1>2, <1>3, <2>2 DEF DownloadNumbers
<1>5. WindowInv' /\ Base' = Base
  <2>1. Numbers'
    BY <1>4, DownloadFacts, PTL
  <2>2. next \in Int
    BY <1>3
  <2> QED BY <1>1, <1>3, <2>1, <2>2, PacketPut DEF DownloadInv
<1>6. DownloadAcks'
  BY <1>2, <1>5, AcksKept DEF DownloadInv
<1>7. DownloadControl'
  BY <1>1, <1>2 DEF DownloadInv, DownloadControl
<1>8. EndedIsReceived'
  BY <1>2 DEF DownloadInv, EndedIsReceived
<1> QED BY <1>4, <1>5, <1>6, <1>7, <1>8 DEF DownloadInv

\* Only the control state of the worker changes, or the timer.
LEMMA DownloadKept ==
  ASSUME DownloadInv, UNCHANGED choices, PutDone' = PutDone,
         UNCHANGED <<missing, next, wnd, client, rcvNext, buff, toServer, toClient>>,
         rtx' \in Nat,
         pc' \in {"firstPut", "put", "eofPut"} => pc' = pc,
         pc' # "open",
         pc' \in {"eof", "eofPut", "eofWait"} => next > N,
         listing /\ pc' = "eof" => wnd = << >> /\ rcvNext = N + 1,
         pc' = "returned" /\ ~missing => rcvNext = N + 1
  PROVE  DownloadInv'
<1>1. WindowInv' /\ Base' = Base
  BY WindowKept DEF DownloadInv
<1>2. listing' = listing /\ emptyLast' = emptyLast
  BY DEF choices
<1>3. DownloadNumbers'
  BY DEF DownloadInv, DownloadNumbers
<1>4. DownloadAcks'
  BY <1>1, <1>2, AcksKept DEF DownloadInv
<1>5. DownloadControl'
  BY <1>2 DEF DownloadInv, DownloadControl
<1>6. EndedIsReceived'
  BY DEF DownloadInv, EndedIsReceived
<1> QED BY <1>1, <1>3, <1>4, <1>5, <1>6 DEF DownloadInv

\* The worker waits, or goes on.
LEMMA DownloadWait ==
  ASSUME DownloadInv, UNCHANGED choices,
         \/ ~listing /\ (NotFull \/ AllAcked)
         \/ listing /\ (ListNotFull \/ ListAllAcked)
         \/ ArmFirst \/ ArmData \/ CheckWindow \/ FirstAcked
  PROVE  DownloadInv'
<1>1. UNCHANGED <<missing, next, wnd, client, rcvNext, buff, toServer, toClient, rtx>>
  BY DEF ArmFirst, ArmData, ArmTimer, CheckWindow, FirstAcked, NotFull, AllAcked,
         ListNotFull, ListAllAcked, WaitUntil, timerVars, clientVars, channels
<1>2. PutDone' = PutDone
  BY DEF ArmFirst, ArmData, ArmTimer, CheckWindow, FirstAcked, NotFull, AllAcked,
         ListNotFull, ListAllAcked, WaitUntil, PutDone
<1>3. /\ DownloadNumbers /\ next \in Nat /\ rtx \in Nat /\ N \in Nat
      /\ LoopLast \in {N, N + 1}
  BY DownloadFacts, PacketNumbers DEF DownloadInv
<1>4. ASSUME wnd = << >>, pc \notin {"firstPut", "put", "eofPut"} PROVE Base = next
  BY <1>3, <1>4, EmptySeq DEF Base, PutDone
<1>5. CASE ArmFirst \/ ArmData \/ CheckWindow \/ FirstAcked
  <2>1. pc' \in {"firstWait", "full", "arm", "read", "returned"}
        /\ (pc' = "returned" => missing)
    BY <1>5 DEF ArmFirst, ArmData, ArmTimer, CheckWindow, FirstAcked, WaitUntil
  <2> QED BY <1>1, <1>2, <1>3, <2>1, DownloadKept
<1>6. CASE ~listing /\ NotFull
  <2>1. pc' \in {"read", "eof"} /\ (pc' = "eof" => next > N) /\ ~listing
    BY <1>3, <1>6 DEF NotFull, WaitUntil
  <2> QED BY <1>1, <1>2, <1>3, <2>1, DownloadKept
<1>7. CASE ~listing /\ AllAcked
  <2>1. pc = "eofWait" /\ pc' = "returned" /\ wnd = << >> /\ ~listing
    BY <1>7 DEF AllAcked, WaitUntil
  <2>2. next > N /\ AckInv
    BY <2>1 DEF DownloadInv, DownloadControl, DownloadAcks
  <2>3. rcvNext = N + 1
    BY <1>3, <1>4, <2>1, <2>2, AllReceived
  <2> QED BY <1>1, <1>2, <1>3, <2>1, <2>3, DownloadKept
<1>8. CASE listing /\ ListNotFull
  <2>1. pc' = "read"
    BY <1>8 DEF ListNotFull, WaitUntil
  <2> QED BY <1>1, <1>2, <1>3, <2>1, DownloadKept
<1>9. CASE listing /\ ListAllAcked
  <2>1. pc = "full" /\ pc' = "eof" /\ wnd = << >> /\ listing /\ next > ListLast
    BY <1>9 DEF ListAllAcked, WaitUntil
  <2>2. ListLast >= N /\ ListLast >= 1 /\ ListLast \in Nat
    BY <1>3, <2>1 DEF ListLast, DownloadInv, DownloadControl
  <2>3. Base = next /\ Base > N /\ ~ (Base <= 1)
    BY <1>3, <1>4, <2>1, <2>2
  <2>4. AckInv
    BY <2>3 DEF DownloadInv, DownloadAcks
  <2>5. rcvNext = N + 1
    BY <1>3, <2>3, <2>4, AllReceived
  <2> QED BY <1>1, <1>2, <1>3, <2>1, <2>3, <2>5, DownloadKept
<1> QED BY <1>5, <1>6, <1>7, <1>8, <1>9

\* The first and the last packet of a LIST.
LEMMA ListFirstAndLast ==
  ASSUME DownloadInv, UNCHANGED choices, listing, NEW lost \in BOOLEAN,
         ListAccept(lost) \/ ListEnd(lost)
  PROVE  DownloadInv'
<1>1. /\ UNCHANGED <<missing, wnd, client, rcvNext, buff, toServer, rtx>>
      /\ UNCHANGED <<listing, emptyLast>>
  BY DEF ListAccept, ListEnd, SendNext, timerVars, clientVars, choices
<1>2. DownloadNumbers /\ Numbers /\ next \in Nat /\ toClient \in Seq(Datagrams)
      /\ N \in Nat
  BY DownloadFacts DEF DownloadInv
<1>3. PICK m \in Datagrams : toClient' = Transmit(toClient, m, lost)
  <2>1. [type |-> "ACK", n |-> 0] \in Datagrams
    BY DEF Datagrams, MessageTypes
  <2>2. PacketMessage(next) \in Datagrams
    BY <1>2 DEF PacketMessage, Datagrams, MessageTypes
  <2> QED BY <2>1, <2>2 DEF ListAccept, ListEnd, SendNext, SendPacket
<1>4. toClient' \in Seq(Datagrams)
  BY <1>2, <1>3, NewestSent
<1>5. wnd = << >> /\ wnd' = << >> /\ Len(wnd') = 0 /\ DOMAIN wnd' = {}
  BY <1>1, EmptySeq DEF ListAccept, ListEnd, SendNext, DownloadInv, DownloadControl
<1>6. next' = next + 1 /\ next' \in Nat /\ pc' \in {"read", "returned"}
  BY <1>2 DEF ListAccept, ListEnd, SendNext, DownloadInv, DownloadControl
<1>7. PutDone' = next' /\ Base' = next'
  BY <1>5, <1>6 DEF PutDone, Base
<1>8. WindowInv'
  BY <1>5, <1>6, <1>7 DEF WindowInv
<1>9. DownloadNumbers'
  BY <1>1, <1>2, <1>4, <1>6 DEF DownloadNumbers
<1>10. DownloadControl'
  BY <1>1, <1>6 DEF DownloadInv, DownloadControl
<1>11. CASE ListAccept(lost)
  <2>1. pc' = "read" /\ next' = 1 /\ client = "request"
    BY <1>11 DEF ListAccept, DownloadInv, DownloadControl
  <2>2. DownloadAcks'
    BY <1>1, <1>7, <2>1 DEF DownloadInv, DownloadAcks
  <2>3. EndedIsReceived'
    BY <1>1, <2>1 DEF EndedIsReceived
  <2> QED BY <1>8, <1>9, <1>10, <2>2, <2>3 DEF DownloadInv
<1>12. CASE ListEnd(lost)
  <2>1. pc = "eof" /\ rcvNext = N + 1 /\ next > N
    BY <1>12 DEF ListEnd, SendNext, DownloadInv, DownloadControl
  <2>2. AckInv /\ ~ (listing /\ client = "request")
    BY <1>2, <2>1 DEF DownloadInv, DownloadAcks
  <2>3. Base = next
    BY <1>2, <1>5, <2>1 DEF Base, PutDone
  <2>4. next \in Int /\ next > N /\ next + 1 \in Int /\ next + 1 > N
        /\ Base' = next + 1
    BY <1>2, <1>6, <1>7, <2>1
  <2>5. SeqNum(next) = N + 1 /\ SeqNum(next + 1) = N + 1
    BY <2>4, SeqNumValue
  <2>6. AckInv'
    BY <1>1, <2>2, <2>3, <2>4, <2>5 DEF AckInv
  <2>7. DownloadAcks'
    BY <1>1, <2>2, <2>6 DEF DownloadAcks
  <2>8. EndedIsReceived'
    BY <1>1, <2>1 DEF EndedIsReceived
  <2> QED BY <1>8, <1>9, <1>10, <2>7, <2>8 DEF DownloadInv
<1> QED BY <1>11, <1>12

\* The main thread takes an ACK.
LEMMA DownloadIncomingAck ==
  ASSUME ~Reorder, DownloadInv, UNCHANGED choices, NEW lost \in BOOLEAN,
         IncomingAck(lost)
  PROVE  DownloadInv'
<1>1. /\ UNCHANGED <<pc, missing, next, client, rcvNext, buff, rtx>>
      /\ UNCHANGED <<listing, emptyLast>>
  BY DEF IncomingAck, workerVars, clientVars, choices
<1>2. DownloadNumbers /\ Numbers /\ wnd \in Seq(Nat) /\ toServer \in Seq(AckNums)
      /\ toClient \in Seq(Datagrams)
  BY DownloadFacts DEF DownloadInv, DownloadNumbers
<1>3. PICK m \in Deliverable(toServer) :
        /\ toServer' = RemoveAt(toServer, m)
        /\ \/ wnd' = wnd
           \/ \E i \in 0..Len(wnd) : wnd' = RefreshWindow(wnd, i)
        /\ \/ toClient' = toClient
           \/ wnd # << >> /\ SendPacket(Head(wnd), lost)
  BY DEF IncomingAck
<1>4. m \in 1..Len(toServer) /\ Len(toServer) \in Nat
  BY <1>2, LenProperties DEF Deliverable
<1>5. toServer' \in Seq(AckNums)
  BY <1>2, <1>3, <1>4, RemoveAtProperties
<1>6. wnd' \in Seq(Nat) /\ (wnd = << >> => wnd' = << >>)
  <2>1. ASSUME NEW i \in 0..Len(wnd), wnd' = RefreshWindow(wnd, i)
        PROVE  wnd' \in Seq(Nat) /\ (wnd = << >> => wnd' = << >>)
    <3>1. wnd' \in Seq(Nat) /\ Len(wnd') = Len(wnd) - i
      BY <1>2, <2>1, SuffixProperties DEF RefreshWindow
    <3>2. wnd = << >> => Len(wnd') = 0
      BY <3>1, EmptySeq
    <3> QED BY <3>1, <3>2, EmptySeq
  <2> QED BY <1>2, <1>3, <2>1
<1>7. toClient' \in Seq(Datagrams)
  <2>1. CASE wnd # << >> /\ SendPacket(Head(wnd), lost)
    <3>1. Head(wnd) \in Nat
      BY <1>2, <2>1, HeadIsFirst
    <3>2. PacketMessage(Head(wnd)) \in Datagrams
      BY <3>1 DEF PacketMessage, Datagrams, MessageTypes
    <3> QED BY <1>2, <2>1, <3>2, NewestSent DEF SendPacket
  <2> QED BY <1>2, <1>3, <2>1
<1>8. DownloadNumbers'
  BY <1>1, <1>2, <1>5, <1>6, <1>7 DEF DownloadNumbers
<1>9. ~ (listing /\ client = "request") /\ AckInv
  <2>1. toServer # << >>
    BY <1>4, EmptySeq
  <2> QED BY <2>1 DEF DownloadInv, DownloadAcks
<1>10. WindowInv' /\ AckInv'
  <2>1. Numbers'
    BY <1>8, DownloadFacts, PTL
  <2> QED BY <1>2, <1>9, <2>1, AckTaken DEF DownloadInv
<1>11. DownloadAcks'
  BY <1>1, <1>9, <1>10 DEF DownloadAcks
<1>12. DownloadControl'
  <2>1. pc # "open"
    BY <1>4, EmptySeq DEF DownloadInv, DownloadControl
  <2> QED BY <1>1, <1>6, <2>1 DEF DownloadInv, DownloadControl
<1>13. EndedIsReceived'
  BY <1>1 DEF DownloadInv, EndedIsReceived
<1> QED BY <1>8, <1>10, <1>11, <1>12, <1>13 DEF DownloadInv

\* The timer and its handler.
LEMMA DownloadHandler ==
  ASSUME DownloadInv, UNCHANGED choices, NEW lost \in BOOLEAN,
         Expire \/ FetchBase \/ Resend(lost)
  PROVE  DownloadInv'
<1>1. /\ UNCHANGED <<pc, missing, next, wnd, client, rcvNext, buff, toServer>>
      /\ UNCHANGED <<listing, emptyLast>> /\ PutDone' = PutDone
  BY DEF Expire, FetchBase, Resend, workerVars, clientVars, channels, choices, PutDone
<1>2. DownloadNumbers /\ wnd \in Seq(Nat) /\ toClient \in Seq(Datagrams) /\ rtx \in Nat
  BY DEF DownloadInv, DownloadNumbers
<1>3. rtx' \in Nat /\ pc # "open"
  <2>1. CASE Expire
    BY <1>2, <2>1 DEF Expire, DownloadInv, DownloadControl
  <2>2. CASE FetchBase
    <3>1. handler = "fired" /\ (rtx' = rtx \/ (wnd # << >> /\ rtx' = Head(wnd)))
      BY <2>2, Zenon DEF FetchBase
    <3>2. wnd # << >> => Head(wnd) \in Nat
      BY <1>2, HeadIsFirst
    <3> QED BY <1>2, <3>1, <3>2 DEF DownloadInv, DownloadControl
  <2>3. CASE Resend(lost)
    BY <1>2, <2>3 DEF Resend, DownloadInv, DownloadControl
  <2> QED BY <2>1, <2>2, <2>3
<1>4. toClient' \in Seq(Datagrams)
  <2>1. CASE Expire \/ FetchBase
    BY <1>2, <2>1 DEF Expire, FetchBase, channels
  <2>2. CASE Resend(lost)
    <3>1. PacketMessage(rtx) \in Datagrams
      BY <1>2 DEF PacketMessage, Datagrams, MessageTypes
    <3>2. toClient' = Transmit(toClient, PacketMessage(rtx), lost)
      BY <2>2 DEF Resend, SendPacket
    <3> QED BY <1>2, <3>1, <3>2, NewestSent
  <2> QED BY <2>1, <2>2
<1>5. WindowInv' /\ Base' = Base
  BY <1>1, WindowKept DEF DownloadInv
<1>6. DownloadNumbers'
  BY <1>1, <1>2, <1>3, <1>4 DEF DownloadNumbers
<1>7. DownloadAcks'
  BY <1>1, <1>5, AcksKept DEF DownloadInv
<1>8. DownloadControl' /\ EndedIsReceived'
  BY <1>1, <1>3 DEF DownloadInv, DownloadControl, EndedIsReceived
<1> QED BY <1>5, <1>6, <1>7, <1>8 DEF DownloadInv

\* The client receives a packet, or the answer to its request.
LEMMA DownloadPacketReceived ==
  ASSUME DownloadInv, UNCHANGED choices, NEW lost \in BOOLEAN, DownloadReceive(lost)
  PROVE  DownloadInv'
<1>1. /\ UNCHANGED <<pc, missing, next, wnd, rtx>>
      /\ UNCHANGED <<listing, emptyLast>> /\ PutDone' = PutDone
  BY DEF DownloadReceive, ListReceive, ClientReceive, workerVars, timerVars,
         choices, PutDone
<1>2. PICK d \in Deliverable(toClient) :
        /\ toClient' = RemoveAt(toClient, d)
        /\ \/ listing /\ ListAnswer(toClient[d])
           \/ /\ listing => client = "data"
              /\ \/ ClientAnswer(toClient[d], lost) \/ ClientSize(toClient[d], lost)
                 \/ ClientEnd(toClient[d], lost) \/ ClientInOrder(toClient[d], lost)
                 \/ ClientOutOfOrder(toClient[d], lost)
                 \/ ClientDuplicate(toClient[d], lost)
  BY DEF DownloadReceive, ListReceive, ClientReceive, ClientEnd, ClientInOrder,
         ClientOutOfOrder, ClientDuplicate
<1> DEFINE m == toClient[d]
<1>3. DownloadNumbers /\ Numbers /\ N \in Nat /\ rcvNext \in Nat /\ rcvNext <= N + 1
      /\ buff \in Seq(Int) /\ Base \in Int
  BY DownloadFacts DEF DownloadInv
<1>4. /\ d \in 1..Len(toClient) /\ m \in Datagrams /\ m.n \in Nat
      /\ toClient # << >> /\ toClient' \in Seq(Datagrams)
  <2>1. toClient \in Seq(Datagrams) /\ d \in 1..Len(toClient)
    BY <1>3, LenProperties DEF Deliverable, DownloadNumbers
  <2>2. m \in Datagrams
    BY <2>1, ElementOfSeq
  <2>3. m.n \in Nat
    BY <2>2 DEF Datagrams
  <2>4. toClient' \in Seq(Datagrams)
    BY <1>2, <2>1, RemoveAtProperties
  <2> QED BY <2>1, <2>2, <2>3, <2>4, EmptySeq
<1> HIDE DEF m
<1>5. WindowInv' /\ Base' = Base
  BY <1>1, WindowKept DEF DownloadInv
<1>6. pc # "open"
  BY <1>4 DEF DownloadInv, DownloadControl
<1>7. CASE listing /\ ListAnswer(toClient[d])
  <2>1. client = "request" /\ rcvNext = 0 /\ toServer = << >> /\ Base <= 1
        /\ buff' = buff /\ toServer' = toServer
    BY <1>7 DEF ListAnswer, DownloadInv, DownloadAcks
  <2>2. \/ client' = client /\ rcvNext' = rcvNext
        \/ client' = "data" /\ rcvNext' = 1
    BY <1>7 DEF ListAnswer
  <2>3. DownloadNumbers'
    BY <1>1, <1>3, <1>4, <2>1, <2>2 DEF DownloadNumbers, AckNums
  <2>4. DownloadControl'
    BY <1>1, <1>3, <1>6, <2>1, <2>2 DEF DownloadInv, DownloadControl
  <2>5. EndedIsReceived'
    BY <1>1, <1>3, <2>1, <2>2 DEF DownloadInv, EndedIsReceived
  <2>6. DownloadAcks'
    <3>1. CASE client' = client /\ rcvNext' = rcvNext
      BY <1>1, <1>5, <1>7, <2>1, <3>1 DEF DownloadAcks
    <3>2. CASE client' = "data" /\ rcvNext' = 1
      <4>1. SeqNum(Base) <= SeqNum(1) /\ SeqNum(1) <= 1
            /\ SeqNum(Base) \in Int /\ SeqNum(1) \in Int
        BY <1>3, <2>1, SeqNumMonotone, SeqNumValue DEF SeqNum
      <4>2. SeqNum(Base') <= rcvNext' /\ DOMAIN toServer' = {}
        BY <1>5, <2>1, <3>2, <4>1, EmptySeq
      <4>3. AckInv'
        BY <4>2 DEF AckInv
      <4> QED BY <3>2, <4>3 DEF DownloadAcks
    <3> QED BY <2>2, <3>1, <3>2
  <2> QED BY <1>5, <2>3, <2>4, <2>5, <2>6 DEF DownloadInv
<1>8. ASSUME listing => client = "data",
             \/ ClientAnswer(m, lost) \/ ClientSize(m, lost) \/ ClientEnd(m, lost)
             \/ ClientInOrder(m, lost) \/ ClientOutOfOrder(m, lost)
             \/ ClientDuplicate(m, lost)
      PROVE  DownloadInv'
  <2>1. /\ rcvNext <= rcvNext'
        /\ \/ toServer' = toServer
           \/ \E l \in BOOLEAN : toServer' = Transmit(toServer, rcvNext', l)
    <3>1. m.n \in Int /\ rcvNext \in Int
      BY <1>3, <1>4
    <3> QED BY <1>3, <1>8, <3>1, ClientExpects
  <2>2. rcvNext' \in AckNums /\ buff' \in Seq(Nat)
    <3>1. \A p \in Int : SeqAfter(p) <= N + 1 /\ SeqAfter(p) \in Int
      BY <1>3 DEF SeqAfter, SeqNum, DataSize
    <3>2. CASE rcvNext' = rcvNext /\ (buff' = buff \/ buff' = StoreRwnd(m.n, buff))
      <4>1. buff \in Seq(Nat) /\ Append(buff, m.n) \in Seq(Nat)
        BY <1>3, <1>4, AppendProperties DEF DownloadNumbers
      <4>2. StoreRwnd(m.n, buff) \in {buff, Append(buff, m.n)}
        BY DEF StoreRwnd
      <4>3. rcvNext \in AckNums
        BY <1>3 DEF DownloadNumbers
      <4> QED BY <3>2, <4>1, <4>2, <4>3
    <3>3. CASE rcvNext' = SeqAfter(m.n) /\ buff' = buff
      <4>1. rcvNext' \in Int /\ rcvNext' <= N + 1
        <5>1. m.n \in Int
          BY <1>4
        <5> QED BY <3>1, <3>3, <5>1, Zenon
      <4>2. rcvNext' \in AckNums
        BY <1>3, <2>1, <4>1 DEF AckNums
      <4> QED BY <1>3, <3>3, <4>2 DEF DownloadNumbers
    <3>4. ASSUME NEW k \in 0..Len(buff), buff' = ReorderBuffer(buff, k),
                 rcvNext' = SeqAfter(IF k = 0 THEN m.n ELSE buff[k])
          PROVE  rcvNext' \in AckNums /\ buff' \in Seq(Nat)
      <4>1. buff \in Seq(Nat)
        BY <1>3 DEF DownloadNumbers
      <4>2. buff' \in Seq(Nat)
        BY <3>4, <4>1, SuffixProperties DEF ReorderBuffer
      <4>3. k # 0 => buff[k] \in Nat
        <5>1. Len(buff) \in Nat /\ (k # 0 => k \in 1..Len(buff))
          BY <4>1, LenProperties
        <5> QED BY <4>1, <5>1, ElementOfSeq
      <4>4. (IF k = 0 THEN m.n ELSE buff[k]) \in Int
        BY <1>4, <4>3
      <4>5. rcvNext' \in Int /\ rcvNext' <= N + 1
        BY <3>1, <3>4, <4>4
      <4> QED BY <1>3, <2>1, <4>2, <4>5 DEF AckNums
    <3>5. CASE ClientInOrder(m, lost)
      <4>1. PICK k \in 0..Len(buff) :
              \/ rcvNext' = rcvNext /\ buff' = buff
              \/ /\ rcvNext' = SeqAfter(IF k = 0 THEN m.n ELSE buff[k])
                 /\ buff' = ReorderBuffer(buff, k)
        BY <3>5 DEF ClientInOrder
      <4> QED BY <3>2, <3>4, <4>1
    <3>6. CASE ~ ClientInOrder(m, lost)
      <4>1. \/ rcvNext' = rcvNext /\ (buff' = buff \/ buff' = StoreRwnd(m.n, buff))
            \/ rcvNext' = SeqAfter(m.n) /\ buff' = buff
        BY <1>8, <3>6 DEF ClientAnswer, ClientSize, ClientEnd, ClientOutOfOrder,
                          ClientDuplicate, clientVars
      <4> QED BY <3>2, <3>3, <4>1
    <3> QED BY <3>5, <3>6
  <2>3. toServer' \in Seq(AckNums)
    BY <1>3, <2>1, <2>2, NewestSent DEF DownloadNumbers
  <2>4. DownloadNumbers'
    BY <1>1, <1>3, <1>4, <2>2, <2>3 DEF DownloadNumbers
  <2>5. AckInv'
    <3>1. Numbers'
      BY <2>4, DownloadFacts, PTL
    <3>2. AckInv
      BY <1>8 DEF DownloadInv, DownloadAcks
    <3> QED BY <1>3, <1>5, <2>1, <3>1, <3>2, AckSent
  <2>6. client' = "request" => client = "request"
    BY <1>8 DEF ClientAnswer, ClientSize, ClientEnd, ClientInOrder, ClientOutOfOrder,
                ClientDuplicate, clientVars
  <2>7. client' = "done" => rcvNext = N + 1
    <3>1. client' = "done" =>
            client = "done" \/ (SeqNum(m.n) = rcvNext /\ DataSize(m.n) = 0)
      BY <1>8 DEF ClientAnswer, ClientSize, ClientEnd, ClientInOrder, ClientOutOfOrder,
                  ClientDuplicate, clientVars
    <3>2. m.n \in Int
      BY <1>4
    <3> QED BY <3>1, <3>2, SeqNumValue DEF DownloadInv, EndedIsReceived
  <2>8. rcvNext = N + 1 => rcvNext' = N + 1
    BY <1>3, <2>1, <2>2 DEF AckNums
  <2>9. DownloadAcks'
    BY <1>1, <1>8, <2>5, <2>6 DEF DownloadAcks
  <2>10. DownloadControl'
    BY <1>1, <1>6, <2>8 DEF DownloadInv, DownloadControl
  <2>11. EndedIsReceived'
    BY <1>1, <2>7, <2>8 DEF DownloadInv, EndedIsReceived
  <2> QED BY <1>5, <2>4, <2>9, <2>10, <2>11 DEF DownloadInv
<1> QED BY <1>2, <1>7, <1>8 DEF m

\* Every step of a download without faults keeps DownloadInv.
LEMMA DownloadStepKept ==
  ASSUME ~Reorder, ~Faults, DownloadInv, [DownloadNext]_downloadVars
  PROVE  DownloadInv'
<1>1. ASSUME NEW lost \in BOOLEAN, UNCHANGED choices, DownloadServer(lost)
      PROVE  DownloadInv'
  <2>1. CASE IncomingAck(lost)
    BY <1>1, <2>1, DownloadIncomingAck
  <2>2. CASE Resend(lost)
    BY <1>1, <2>2, DownloadHandler
  <2>3. CASE listing /\ ListWorker(lost)
    BY <1>1, <2>3, DownloadSend, DownloadPut, DownloadWait, ListFirstAndLast
       DEF ListWorker
  <2>4. CASE ~listing /\ Worker(lost)
    BY <1>1, <2>4, DownloadSend, DownloadPut, DownloadWait DEF Worker
  <2> QED BY <1>1, <2>1, <2>2, <2>3, <2>4 DEF DownloadServer, DownloadWorker
<1>2. ASSUME NEW lost \in BOOLEAN, UNCHANGED choices, DownloadReceive(lost)
      PROVE  DownloadInv'
  BY <1>2, DownloadPacketReceived
<1>3. CASE (Expire \/ FetchBase) /\ UNCHANGED choices
  BY <1>3, DownloadHandler
<1>4. CASE ResendFails \/ GiveUp \/ ClientFails
  BY <1>4 DEF ResendFails, GiveUp, ClientFails
<1>5. CASE UNCHANGED downloadVars
  BY <1>5 DEF downloadVars, vars, workerVars, timerVars, ackVars, clientVars, channels,
     choices, DownloadInv, DownloadNumbers, WindowInv, Base, PutDone, DownloadAcks,
     AckInv, DownloadControl, EndedIsReceived
<1> QED BY <1>1, <1>2, <1>3, <1>4, <1>5 DEF DownloadNext, DownloadStep

\* On a network that keeps the order, a client that reports a GET or a LIST as
\* completed, and a worker that leaves one, have transferred everything
\* (client.c:185, 332, server.c:177, 345).
THEOREM EndedCorrect ==
  ASSUME ~Reorder, ~Faults PROVE DownloadSpec => []EndedIsReceived
<1>1. DownloadInv => EndedIsReceived
  BY DEF DownloadInv
<1>2. DownloadInv /\ [DownloadNext]_downloadVars => DownloadInv'
  BY DownloadStepKept
<1> QED BY <1>1, <1>2, DownloadInitial, PTL DEF DownloadSpec

----------------------------------------------------------------------------
(***************************************************************************)
(* What the client of a GET or of a LIST writes, on any network and with   *)
(* failing system calls.  Nothing is needed of the server but that what it *)
(* sends are packets.                                                      *)
(***************************************************************************)
DownloadTypes ==
  /\ next \in Nat /\ rtx \in Nat
  /\ pc \in {"firstPut", "put", "eofPut"} => next # 0
  /\ wnd \in Seq(Nat)
  /\ toClient \in Seq(Datagrams)

WriteClient == DownloadTypes /\ WrittenType /\ WriteInv

\* At the start of a download nothing is written or in transit.
LEMMA WriteClientInitial == DownloadInit => WriteClient
<1> SUFFICES ASSUME DownloadInit PROVE WriteClient
  OBVIOUS
<1>1. Init
  BY DEF DownloadInit
<1>2. << >> \in Seq(Nat) /\ << >> \in Seq(Datagrams)
  BY EmptySeq
<1>3. DownloadTypes /\ WrittenType
  BY <1>1, <1>2 DEF Init, DownloadTypes, WrittenType
<1> QED BY <1>1, <1>3, WriteInit DEF WriteClient

\* The worker sends a packet or puts it into the window, or does neither.
LEMMA WorkerTypes ==
  ASSUME DownloadTypes, NEW lost \in BOOLEAN, DownloadWorker(lost) \/ GiveUp
  PROVE  DownloadTypes' /\ UNCHANGED clientVars
<1>1. next \in Nat /\ rtx \in Nat /\ wnd \in Seq(Nat) /\ toClient \in Seq(Datagrams)
  BY DEF DownloadTypes
<1>2. CASE \/ AcceptRequest(lost) \/ SendError(lost) \/ SendSize(lost)
           \/ SendData(lost) \/ SendEof(lost) \/ ListAccept(lost) \/ ListEnd(lost)
  <2>1. PICK m \in Datagrams : toClient' = Transmit(toClient, m, lost)
    <3>1. [type |-> "ACK", n |-> 0] \in Datagrams
      BY DEF Datagrams, MessageTypes
    <3>2. PacketMessage(0) \in Datagrams /\ PacketMessage(next) \in Datagrams
      BY <1>1 DEF PacketMessage, Datagrams, MessageTypes
    <3> QED BY <1>2, <3>1, <3>2
               DEF AcceptRequest, SendError, SendSize, SendData, SendEof, SendNext,
                   SendPacket, ListAccept, ListEnd
  <2>2. toClient' \in Seq(Datagrams)
    BY <1>1, <2>1, NewestSent
  <2>3. /\ UNCHANGED <<wnd, rtx, clientVars>>
        /\ next' \in {next, 1, next + 1}
        /\ pc' \in {"firstPut", "put", "eofPut"} => next' \in {1, next + 1}
    BY <1>2 DEF AcceptRequest, SendError, SendSize, SendData, SendEof, SendNext,
                ListAccept, ListEnd, timerVars
  <2> QED BY <1>1, <2>2, <2>3 DEF DownloadTypes
<1>3. CASE PutFirst \/ PutData \/ PutEof
  <2>1. /\ pc \in {"firstPut", "put", "eofPut"}
        /\ pc' \notin {"firstPut", "put", "eofPut"}
        /\ wnd' = Append(wnd, next - 1)
        /\ UNCHANGED <<next, rtx, toClient, clientVars>>
    BY <1>3 DEF PutFirst, PutData, PutEof, PutInWindow, UpdateWindow, timerVars,
                channels
  <2>2. next - 1 \in Nat
    BY <1>1, <2>1 DEF DownloadTypes
  <2>3. wnd' \in Seq(Nat)
    BY <1>1, <2>1, <2>2, AppendProperties
  <2> QED BY <1>1, <2>1, <2>3 DEF DownloadTypes
<1>4. CASE \/ ArmFirst \/ ArmData \/ CheckWindow \/ FirstAcked \/ NotFull \/ AllAcked
           \/ ListNotFull \/ ListAllAcked \/ GiveUp
  <2>1. /\ pc' \notin {"firstPut", "put", "eofPut"}
        /\ UNCHANGED <<next, rtx, wnd, toClient, clientVars>>
    BY <1>4 DEF ArmFirst, ArmData, ArmTimer, CheckWindow, FirstAcked, NotFull,
                AllAcked, ListNotFull, ListAllAcked, WaitUntil, GiveUp, timerVars,
                channels
  <2> QED BY <2>1 DEF DownloadTypes
<1> QED BY <1>2, <1>3, <1>4 DEF DownloadWorker, ListWorker, Worker

\* The main thread and the signal handler send packets of the window.
LEMMA ServerTypes ==
  ASSUME DownloadTypes, NEW lost \in BOOLEAN,
         IncomingAck(lost) \/ Resend(lost) \/ Expire \/ FetchBase \/ ResendFails
  PROVE  DownloadTypes' /\ UNCHANGED clientVars
<1>1. next \in Nat /\ rtx \in Nat /\ wnd \in Seq(Nat) /\ toClient \in Seq(Datagrams)
  BY DEF DownloadTypes
<1>2. ASSUME wnd # << >>
      PROVE  Head(wnd) \in Nat /\ PacketMessage(Head(wnd)) \in Datagrams
  <2>1. Head(wnd) \in Nat
    BY <1>1, <1>2, HeadIsFirst
  <2> QED BY <2>1 DEF PacketMessage, Datagrams, MessageTypes
<1>3. CASE IncomingAck(lost)
  <2>1. /\ UNCHANGED <<pc, next, rtx, clientVars>>
        /\ \/ wnd' = wnd
           \/ \E i \in 0..Len(wnd) : wnd' = RefreshWindow(wnd, i)
        /\ \/ toClient' = toClient
           \/ wnd # << >> /\ SendPacket(Head(wnd), lost)
    BY <1>3 DEF IncomingAck, workerVars
  <2>2. wnd' \in Seq(Nat)
    BY <1>1, <2>1, SuffixProperties DEF RefreshWindow
  <2>3. toClient' \in Seq(Datagrams)
    BY <1>1, <1>2, <2>1, NewestSent DEF SendPacket
  <2> QED BY <2>1, <2>2, <2>3 DEF DownloadTypes
<1>4. CASE Resend(lost)
  <2>1. PacketMessage(rtx) \in Datagrams
    BY <1>1 DEF PacketMessage, Datagrams, MessageTypes
  <2>2. /\ UNCHANGED <<pc, next, rtx, wnd, clientVars>>
        /\ toClient' = Transmit(toClient, PacketMessage(rtx), lost)
    BY <1>4 DEF Resend, SendPacket, workerVars
  <2>3. toClient' \in Seq(Datagrams)
    BY <1>1, <2>1, <2>2, NewestSent
  <2> QED BY <2>2, <2>3 DEF DownloadTypes
<1>5. CASE FetchBase
  <2>1. /\ UNCHANGED <<pc, next, wnd, toClient, clientVars>>
        /\ rtx' = rtx \/ (wnd # << >> /\ rtx' = Head(wnd))
    BY <1>5, Zenon DEF FetchBase, workerVars, channels
  <2> QED BY <1>1, <1>2, <2>1 DEF DownloadTypes
<1>6. CASE Expire \/ ResendFails
  BY <1>6 DEF Expire, ResendFails, DownloadTypes, workerVars, channels
<1> QED BY <1>3, <1>4, <1>5, <1>6

\* The answer to a LIST makes the client expect the first packet of the names.
LEMMA WriteListAnswer ==
  ASSUME WrittenType, WriteInv, NEW m, ListAnswer(m)
  PROVE  WrittenType' /\ WriteInv' /\ writes' = writes
<1>1. /\ client = "request" /\ writes = << >> /\ rcvNext = 0
      /\ buff' = buff /\ writes' = writes
      /\ \/ client' = client /\ rcvNext' = rcvNext
         \/ client' = "data" /\ rcvNext' = 1
  BY DEF ListAnswer, WriteInv
<1>2. CASE client' = client /\ rcvNext' = rcvNext
  BY <1>1, <1>2 DEF WriteInv, WrittenIsAcked, WrittenType
<1>3. CASE client' = "data" /\ rcvNext' = 1
  BY <1>1, <1>3, NothingDelivered DEF WriteInv, WrittenIsAcked, WrittenType
<1> QED BY <1>1, <1>2, <1>3

\* The client takes a packet, in a LIST or in a GET.
LEMMA WriteDownloadReceive ==
  ASSUME WriteClient, NEW lost \in BOOLEAN, DownloadReceive(lost)
  PROVE  WriteClient' /\ (writes' = writes \/ Len(writes) <= Len(writes'))
<1>1. /\ UNCHANGED <<pc, next, wnd, rtx>>
      /\ \E d \in Deliverable(toClient) :
           /\ toClient' = RemoveAt(toClient, d)
           /\ \/ ListAnswer(toClient[d])
              \/ ClientAnswer(toClient[d], lost) \/ ClientSize(toClient[d], lost)
              \/ ClientEnd(toClient[d], lost) \/ ClientInOrder(toClient[d], lost)
              \/ ClientOutOfOrder(toClient[d], lost)
              \/ ClientDuplicate(toClient[d], lost)
  BY DEF DownloadReceive, ListReceive, ClientReceive, workerVars, timerVars
<1>2. PICK d \in Deliverable(toClient) :
        /\ toClient' = RemoveAt(toClient, d)
        /\ \/ ListAnswer(toClient[d])
           \/ ClientAnswer(toClient[d], lost) \/ ClientSize(toClient[d], lost)
           \/ ClientEnd(toClient[d], lost) \/ ClientInOrder(toClient[d], lost)
           \/ ClientOutOfOrder(toClient[d], lost)
           \/ ClientDuplicate(toClient[d], lost)
  BY <1>1
<1> DEFINE m == toClient[d]
<1>3. toClient' \in Seq(Datagrams) /\ m.n \in Nat
  <2>1. toClient \in Seq(Datagrams) /\ d \in 1..Len(toClient)
    BY LenProperties DEF Deliverable, WriteClient, DownloadTypes
  <2>2. m \in Datagrams
    BY <2>1, ElementOfSeq
  <2> QED BY <1>2, <2>1, <2>2, RemoveAtProperties DEF Datagrams
<1>4. DownloadTypes'
  BY <1>1, <1>3 DEF WriteClient, DownloadTypes
<1>5. /\ \/ ListAnswer(m)
         \/ ClientAnswer(m, lost) \/ ClientSize(m, lost)
         \/ ClientEnd(m, lost) \/ ClientInOrder(m, lost)
         \/ ClientOutOfOrder(m, lost) \/ ClientDuplicate(m, lost)
      /\ WrittenType /\ WriteInv
  BY <1>2 DEF WriteClient
<1> HIDE DEF m
<1>6. CASE ListAnswer(m)
  BY <1>4, <1>5, <1>6, WriteListAnswer DEF WriteClient
<1>7. CASE ClientAnswer(m, lost) \/ ClientSize(m, lost)
  BY <1>3, <1>4, <1>5, <1>7, WriteSize DEF WriteClient
<1>8. CASE \/ ClientEnd(m, lost) \/ ClientInOrder(m, lost)
           \/ ClientOutOfOrder(m, lost) \/ ClientDuplicate(m, lost)
  BY <1>3, <1>4, <1>5, <1>8, WriteReceive DEF WriteClient
<1> QED BY <1>5, <1>6, <1>7, <1>8

\* Every step of a download keeps WriteClient, and the client's file never gets shorter.
LEMMA WriteClientNext ==
  ASSUME WriteClient, [DownloadNext]_downloadVars
  PROVE  WriteClient' /\ (writes' = writes \/ Len(writes) <= Len(writes'))
<1>1. ASSUME DownloadTypes', UNCHANGED clientVars
      PROVE  WriteClient' /\ writes' = writes
  BY <1>1, WriteUnchanged DEF WriteClient, WrittenType, clientVars
<1>2. ASSUME NEW lost \in BOOLEAN, DownloadServer(lost)
      PROVE  WriteClient' /\ writes' = writes
  BY <1>1, <1>2, WorkerTypes, ServerTypes DEF DownloadServer, WriteClient
<1>3. ASSUME NEW lost \in BOOLEAN, DownloadReceive(lost)
      PROVE  WriteClient' /\ (writes' = writes \/ Len(writes) <= Len(writes'))
  BY <1>3, WriteDownloadReceive
<1>4. CASE Expire \/ FetchBase \/ ResendFails \/ GiveUp
  <2>1. TRUE \in BOOLEAN /\ DownloadTypes
    BY DEF WriteClient
  <2> QED BY <1>1, <1>4, <2>1, WorkerTypes, ServerTypes
<1>5. CASE ClientFails
  <2>1. /\ client' = "failed" /\ UNCHANGED <<rcvNext, buff, writes>>
        /\ UNCHANGED <<pc, next, rtx, wnd, toClient>>
    BY <1>5 DEF ClientFails, workerVars, timerVars, channels
  <2> QED BY <2>1 DEF WriteClient, DownloadTypes, WrittenType, WriteInv, WrittenIsAcked
<1>6. CASE UNCHANGED downloadVars
  <2>1. UNCHANGED clientVars /\ UNCHANGED <<pc, next, rtx, wnd, toClient>>
    BY <1>6 DEF downloadVars, vars, workerVars, timerVars, channels
  <2>2. DownloadTypes'
    BY <2>1 DEF WriteClient, DownloadTypes
  <2> QED BY <1>1, <2>1, <2>2
<1> QED BY <1>2, <1>3, <1>4, <1>5, <1>6 DEF DownloadNext, DownloadStep

\* In a LIST as in a GET what the client has written is a prefix of what the server
\* sends, and the client acknowledges exactly that (client.c:160-258, 266-415).
THEOREM DownloadWrittenCorrect == DownloadSpec => []WrittenIsAcked
<1>1. WriteClient => WrittenIsAcked
  BY DEF WriteClient, WriteInv
<1>2. WriteClient /\ [DownloadNext]_downloadVars => WriteClient'
  BY WriteClientNext
<1> QED BY <1>1, <1>2, WriteClientInitial, PTL DEF DownloadSpec

\* A LIST, like a GET, implements ReliableStream: what the client has written only
\* grows, at its end, by the next chunks.
THEOREM DownloadStreamCorrect == DownloadSpec => ImplementsStream
<1>1. DownloadInit => Stream!Init
  BY StreamInit DEF DownloadInit
<1>2. WriteClient /\ [DownloadNext]_downloadVars
        => WriteClient' /\ [Stream!Next]_Delivered
  <2>1. WriteClient' => WrittenType' /\ WriteInv'
    BY DEF WriteClient
  <2> QED BY <2>1, WriteClientNext, StreamStep DEF WriteClient
<1> QED BY <1>1, <1>2, WriteClientInitial, PTL
           DEF DownloadSpec, ImplementsStream, Stream!Spec
=============================================================================
