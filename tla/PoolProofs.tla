----------------------------- MODULE PoolProofs -----------------------------
(***************************************************************************)
(* Proofs of the properties of ServerPool, for every number of clients and *)
(* workers and every size of the socket.                                   *)
(***************************************************************************)
EXTENDS ServerPool, SequenceLemmas, FiniteSetTheorems

----------------------------------------------------------------------------
(***************************************************************************)
(* The list of clients.                                                    *)
(***************************************************************************)

ListOK == list \in Seq(Nodes)

\* What a node of the client list holds.
LEMMA ListElements ==
  ASSUME ListOK, NEW i \in DOMAIN list
  PROVE  /\ i \in 1..Len(list) /\ list[i] \in Nodes
         /\ list[i].id \in Nat /\ list[i].addr \in Clients
         /\ list[i].server \in Workers \cup {None}
         /\ list[i].pack \in Messages \cup {Null}
<1>1. i \in 1..Len(list)
  BY LenProperties DEF ListOK
<1>2. list[i] \in Nodes
  BY <1>1, ElementOfSeq DEF ListOK
<1> QED BY <1>1, <1>2 DEF Nodes

\* dispatch_client yields a worker, or leaves thread as it was.
LEMMA DispatchType ==
  ASSUME ListOK, thread \in Workers \cup {None}, NEW a
  PROVE  \A t \in DispatchClient(a) : t \in Workers \cup {None}
BY ListElements DEF DispatchClient, First, HasAddress

\* update_packet changes nothing but the packet of one node of the worker.
LEMMA UpdateProperties ==
  ASSUME ListOK, NEW w, NEW p \in Messages \cup {Null}, NEW q \in UpdatePacket(w, p)
  PROVE  /\ q \in Seq(Nodes) /\ DOMAIN q = DOMAIN list
         /\ \A i \in DOMAIN list : /\ q[i].id = list[i].id
                                   /\ q[i].server = list[i].server
                                   /\ q[i].pack = list[i].pack \/ list[i].server = w
<1>1. CASE q = list
  BY <1>1 DEF ListOK
<1>2. ASSUME NEW i \in HasServer(w), q = [list EXCEPT ![i].pack = p]
      PROVE  /\ q \in Seq(Nodes) /\ DOMAIN q = DOMAIN list
             /\ \A j \in DOMAIN list : /\ q[j].id = list[j].id
                                       /\ q[j].server = list[j].server
                                       /\ q[j].pack = list[j].pack \/ list[j].server = w
  <2>1. i \in DOMAIN list /\ list[i].server = w
    BY DEF HasServer
  <2>2. /\ list[i] \in Nodes /\ i \in 1..Len(list)
        /\ [list[i] EXCEPT !.pack = p] \in Nodes
    BY <2>1, ListElements DEF Nodes
  <2>3. q = [list EXCEPT ![i] = [list[i] EXCEPT !.pack = p]]
    BY <1>2
  <2>4. q \in Seq(Nodes) /\ DOMAIN q = DOMAIN list
    BY <2>2, <2>3, ExceptSeq DEF ListOK
  <2>5. ASSUME NEW j \in DOMAIN list
        PROVE  /\ q[j].id = list[j].id
               /\ q[j].server = list[j].server
               /\ q[j].pack = list[j].pack \/ list[j].server = w
    <3>1. CASE j = i
      BY <3>1, <2>1, <2>2, <2>3 DEF Nodes
    <3>2. CASE j # i
      BY <3>2, <2>3
    <3> QED BY <3>1, <3>2
  <2> QED BY <2>4, <2>5
<1> QED BY <1>1, <1>2 DEF UpdatePacket, First

\* remove_client leaves the other nodes in their order.
LEMMA RemoveProperties ==
  ASSUME ListOK, NEW a, NEW q \in RemoveClient(a)
  PROVE  /\ q \in Seq(Nodes)
         /\ \A i \in DOMAIN q : \E k \in DOMAIN list : q[i] = list[k]
         /\ (\A i, j \in DOMAIN list : list[i].id = list[j].id => i = j)
              => \A i, j \in DOMAIN q : q[i].id = q[j].id => i = j
<1>1. CASE q = list
  BY <1>1 DEF ListOK
<1>2. ASSUME NEW n \in HasAddress(a), q = RemoveAt(list, n)
      PROVE  /\ q \in Seq(Nodes)
             /\ \A i \in DOMAIN q : \E k \in DOMAIN list : q[i] = list[k]
             /\ (\A i, j \in DOMAIN list : list[i].id = list[j].id => i = j)
                  => \A i, j \in DOMAIN q : q[i].id = q[j].id => i = j
  <2>1. n \in 1..Len(list) /\ Len(list) \in Nat /\ DOMAIN list = 1..Len(list)
    BY LenProperties DEF ListOK, HasAddress
  <2>2. /\ q \in Seq(Nodes) /\ Len(q) = Len(list) - 1
        /\ \A i \in 1..(Len(list) - 1) : q[i] = IF i < n THEN list[i] ELSE list[i + 1]
    BY <1>2, <2>1, RemoveAtProperties DEF ListOK
  <2>3. DOMAIN q = 1..(Len(list) - 1)
    BY <2>2, LenProperties
  <2> DEFINE old(i) == IF i < n THEN i ELSE i + 1
  <2>4. \A i \in DOMAIN q : old(i) \in DOMAIN list /\ q[i] = list[old(i)]
    BY <2>1, <2>2, <2>3
  <2>5. \A i, j \in DOMAIN q : old(i) = old(j) => i = j
    BY <2>1, <2>3
  <2> HIDE DEF old
  <2> QED BY <2>2, <2>4, <2>5
<1> QED BY <1>1, <1>2 DEF RemoveClient, First

----------------------------------------------------------------------------
(***************************************************************************)
(* Types.                                                                  *)
(***************************************************************************)

\* recv_packet of main takes the oldest datagram from the socket.
LEMMA ReceiveTypes ==
  ASSUME TypeOK, NEW state, NEW type, Receive(state, type)
  PROVE  /\ Head(inbox) \in Messages /\ addr' \in Clients
         /\ inbox' \in Seq(Messages) /\ Len(inbox') <= Cap
<1>1. inbox \in Seq(Messages) /\ inbox # << >> /\ Len(inbox) <= Cap
  BY DEF Receive, TypeOK
<1>2. /\ Head(inbox) \in Messages /\ Tail(inbox) \in Seq(Messages)
      /\ Len(Tail(inbox)) = Len(inbox) - 1 /\ Len(inbox) \in Nat
  BY <1>1, HeadTailProperties, LenProperties
<1>3. Head(inbox).from \in Clients
  BY <1>2 DEF Messages
<1> QED BY <1>1, <1>2, <1>3, PoolAssumption DEF Receive

\* A reply of main reaches the client, or is lost.
LEMMA ReplyTypes ==
  ASSUME TypeOK, NEW a \in Clients, NEW kinds \in SUBSET Replies, Reply(a, kinds)
  PROVE  mail' \in [Clients -> SUBSET Replies]
BY DEF Reply, TypeOK

\* What a client sends finds room in the socket, or is lost.
LEMMA SendTypes ==
  ASSUME TypeOK, NEW c \in Clients, NEW type, NEW data, Send(c, type, data),
         [from |-> c, type |-> type, data |-> data] \in Messages
  PROVE  inbox' \in Seq(Messages) /\ Len(inbox') <= Cap
<1>1. inbox \in Seq(Messages) /\ Len(inbox) <= Cap /\ Len(inbox) \in Nat
  BY LenProperties DEF TypeOK
<1> QED BY <1>1, AppendProperties, PoolAssumption DEF Send

\* A worker that resends its window changes the mail of its client only.
LEMMA ResendTypes ==
  ASSUME TypeOK, NEW w \in Workers, window[w] \in {"first", "end"}, Resend(w)
  PROVE  mail' \in [Clients -> SUBSET Replies]
<1>1. CASE HasServer(w) = {}
  BY <1>1 DEF Resend, TypeOK
<1>2. CASE HasServer(w) # {}
  <2>1. PICK i \in DOMAIN list : Reply(list[i].addr, {window[w]})
    BY <1>2 DEF Resend, First, HasServer
  <2>2. list[i].addr \in Clients
    BY ListElements DEF ListOK, TypeOK
  <2> QED BY <2>1, <2>2, ReplyTypes DEF Replies
<1> QED BY <1>1, <1>2

\* A timer of a worker resends, or finds no packet.
LEMMA ExpireTypes ==
  ASSUME TypeOK, NEW w \in Workers, TimerExpires(w)
  PROVE  /\ mail' \in [Clients -> SUBSET Replies]
         /\ timer' \in [Workers -> BOOLEAN] /\ crashed' \in BOOLEAN
<1>1. CASE window[w] \in {"unset", "none"}
  BY <1>1 DEF TimerExpires, TypeOK
<1>2. CASE window[w] \notin {"unset", "none"}
  <2>1. window[w] \in {"first", "end"}
    BY <1>2 DEF TypeOK, Windows
  <2>2. mail' \in [Clients -> SUBSET Replies]
    BY <1>2, <2>1, ResendTypes DEF TimerExpires
  <2>3. timer' \in [Workers -> BOOLEAN] /\ crashed' \in BOOLEAN
    BY <1>2 DEF TimerExpires, TypeOK
  <2> QED BY <2>2, <2>3
<1> QED BY <1>1, <1>2

\* Every step of the main loop keeps the types.
LEMMA MainTypes ==
  ASSUME TypeOK, Main
  PROVE  TypeOK'
<1>1. CASE Handshake
  <2>1. /\ addr' \in Clients /\ inbox' \in Seq(Messages) /\ Len(inbox') <= Cap
        /\ mail' \in [Clients -> SUBSET Replies]
    <3>1. Receive("recv", {"SYN"}) /\ Reply(addr', {"SYNACK"})
      BY <1>1 DEF Handshake
    <3>2. addr' \in Clients /\ inbox' \in Seq(Messages) /\ Len(inbox') <= Cap
      BY <3>1, ReceiveTypes
    <3>3. {"SYNACK"} \in SUBSET Replies
      BY DEF Replies
    <3> QED BY <3>1, <3>2, <3>3, ReplyTypes
  <2> QED
    BY <1>1, <2>1 DEF Handshake, TypeOK, MainStates, listVars, workerVars, muxVars,
                      rtxVars, clientVars
<1>2. CASE HandshakeEnds
  <2>1. Receive("handshake", {"SYN", "ACK", "FIN", "DATA"})
    BY <1>2 DEF HandshakeEnds
  <2>2. addr' \in Clients /\ inbox' \in Seq(Messages) /\ Len(inbox') <= Cap
    BY <2>1, ReceiveTypes
  <2> QED
    BY <1>2, <2>2 DEF HandshakeEnds, TypeOK, MainStates, listVars, workerVars, muxVars,
                      rtxVars, clientVars
<1>3. CASE InsertClient
  <2>1. [id |-> inserted + 1, addr |-> addr, server |-> None, pack |-> Null] \in Nodes
    BY DEF TypeOK, Nodes
  <2>2. list' \in Seq(Nodes)
    BY <1>3, <2>1, AppendProperties DEF InsertClient, TypeOK
  <2>3. inserted' \in Nat /\ recipient' \in [Workers -> 0..inserted']
    BY <1>3 DEF InsertClient, TypeOK, workerVars
  <2> QED
    BY <1>3, <2>2, <2>3 DEF InsertClient, TypeOK, MainStates, workerVars, muxVars,
                      rtxVars, clientVars
<1>4. CASE PostSemaphore
  BY <1>4 DEF PostSemaphore, TypeOK, MainStates, workerVars, muxVars, rtxVars, clientVars
<1>5. CASE ReceiveAck
  <2>1. Receive("recv", {"ACK"}) /\ thread' \in DispatchClient(addr')
    BY <1>5 DEF ReceiveAck
  <2>2. addr' \in Clients /\ inbox' \in Seq(Messages) /\ Len(inbox') <= Cap
    BY <2>1, ReceiveTypes
  <2>3. thread' \in Workers \cup {None}
    BY <2>1, DispatchType DEF ListOK, TypeOK
  <2>4. crashed' \in BOOLEAN
    BY <1>5 DEF ReceiveAck, AckCrashes
  <2>5. window' \in [Workers -> Windows] /\ timer' \in [Workers -> BOOLEAN]
    BY <1>5 DEF ReceiveAck, TypeOK, Windows
  <2>6. mail' \in [Clients -> SUBSET Replies]
    <3>1. CASE UNCHANGED mail
      BY <3>1 DEF TypeOK
    <3>2. CASE Resend(thread') /\ thread' # None /\ window[thread'] \notin {"unset", "none"}
      <4>1. thread' \in Workers /\ window[thread'] \in {"first", "end"}
        BY <2>3, <3>2 DEF TypeOK, Windows
      <4> QED BY <3>2, <4>1, ResendTypes
    <3> QED BY <1>5, <3>1, <3>2 DEF ReceiveAck, FastRetransmissions
  <2> QED
    BY <1>5, <2>2, <2>3, <2>4, <2>5, <2>6
       DEF ReceiveAck, TypeOK, listVars, workerVars, muxVars, clientVars
<1>6. CASE Demolition
  <2>1. /\ Receive("recv", {"FIN"}) /\ thread' \in DispatchClient(addr')
        /\ Reply(addr', {"FINACK"})
    BY <1>6 DEF Demolition
  <2>2. addr' \in Clients /\ inbox' \in Seq(Messages) /\ Len(inbox') <= Cap
    BY <2>1, ReceiveTypes
  <2>3. thread' \in Workers \cup {None}
    BY <2>1, DispatchType DEF ListOK, TypeOK
  <2>4. {"FINACK"} \in SUBSET Replies
    BY DEF Replies
  <2>5. mail' \in [Clients -> SUBSET Replies]
    BY <2>1, <2>2, <2>4, ReplyTypes
  <2>6. timer' \in [Workers -> BOOLEAN]
    BY <1>6 DEF Demolition
  <2> QED
    BY <1>6, <2>2, <2>3, <2>5, <2>6
       DEF Demolition, TypeOK, MainStates, listVars, workerVars, muxVars, clientVars
<1>7. CASE DemolitionEnds
  <2>1. Receive("demolition", {"SYN", "ACK", "FIN", "DATA"})
    BY <1>7 DEF DemolitionEnds
  <2>2. addr' \in Clients /\ inbox' \in Seq(Messages) /\ Len(inbox') <= Cap
    BY <2>1, ReceiveTypes
  <2>3. list' \in Seq(Nodes)
    BY <1>7, RemoveProperties DEF DemolitionEnds, ListOK, TypeOK
  <2>4. timer' \in [Workers -> BOOLEAN]
    BY <1>7 DEF DemolitionEnds, TypeOK
  <2> QED
    BY <1>7, <2>2, <2>3, <2>4
       DEF DemolitionEnds, TypeOK, MainStates, workerVars, muxVars, clientVars
<1>8. CASE ReceiveData
  <2>1. Receive("recv", {"DATA"}) /\ thread' \in DispatchClient(addr')
    BY <1>8 DEF ReceiveData
  <2>2. /\ addr' \in Clients /\ inbox' \in Seq(Messages) /\ Len(inbox') <= Cap
        /\ Head(inbox) \in Messages
    BY <2>1, ReceiveTypes
  <2>3. thread' \in Workers \cup {None}
    BY <2>1, DispatchType DEF ListOK, TypeOK
  <2> QED
    BY <1>8, <2>2, <2>3 DEF ReceiveData, TypeOK, MainStates, listVars, workerVars,
                            muxVars, rtxVars, clientVars
<1>9. CASE Store
  <2>1. list' \in Seq(Nodes)
    BY <1>9, UpdateProperties DEF Store, ListOK, TypeOK
  <2>2. free' \in [Workers -> BOOLEAN] /\ avb' \in [Workers -> BOOLEAN]
    BY <1>9 DEF Store, TypeOK
  <2> QED
    BY <1>9, <2>1, <2>2 DEF Store, TypeOK, MainStates, workerVars, rtxVars, clientVars
<1>10. CASE BadIndex
  BY <1>10 DEF BadIndex, TypeOK, mainVars, listVars, workerVars, muxVars, rtxVars,
               clientVars
<1>11. CASE MainTimeout
  <2>1. FirstWorker \in Workers /\ TimerExpires(FirstWorker)
    BY <1>11, PoolAssumption DEF MainTimeout
  <2>2. /\ mail' \in [Clients -> SUBSET Replies]
        /\ timer' \in [Workers -> BOOLEAN] /\ crashed' \in BOOLEAN
    BY <2>1, ExpireTypes
  <2> QED
    BY <1>11, <2>2 DEF MainTimeout, TimerExpires, TypeOK, listVars, workerVars, muxVars,
                       clientVars
<1> QED
  BY <1>1, <1>2, <1>3, <1>4, <1>5, <1>6, <1>7, <1>8, <1>9, <1>10, <1>11 DEF Main

\* get_client changes the server of one node.
LEMMA GetClientProperties ==
  ASSUME ListOK, NEW w \in Workers, NEW i \in HasServer(None)
  PROVE  LET q == [list EXCEPT ![i].server = w] IN
         /\ q \in Seq(Nodes) /\ DOMAIN q = DOMAIN list
         /\ \A j \in DOMAIN list :
              /\ q[j].id = list[j].id /\ q[j].pack = list[j].pack
              /\ q[j].server = IF j = i THEN w ELSE list[j].server
<1> DEFINE q == [list EXCEPT ![i].server = w]
<1>1. i \in DOMAIN list /\ i \in 1..Len(list) /\ list[i] \in Nodes
  BY ListElements DEF HasServer
<1>2. [list[i] EXCEPT !.server = w] \in Nodes
  BY <1>1 DEF Nodes
<1>3. q = [list EXCEPT ![i] = [list[i] EXCEPT !.server = w]]
  OBVIOUS
<1>4. q \in Seq(Nodes) /\ DOMAIN q = DOMAIN list
  BY <1>1, <1>2, <1>3, ExceptSeq DEF ListOK
<1>5. ASSUME NEW j \in DOMAIN list
      PROVE  /\ q[j].id = list[j].id /\ q[j].pack = list[j].pack
             /\ q[j].server = IF j = i THEN w ELSE list[j].server
  <2>1. CASE j = i
    BY <2>1, <1>1, <1>3 DEF Nodes
  <2>2. CASE j # i
    BY <2>2, <1>3
  <2> QED BY <2>1, <2>2
<1> QED BY <1>4, <1>5

\* A reply to an address that a worker has copied.
LEMMA ReplyToTypes ==
  ASSUME TypeOK, NEW a \in Clients \cup {None}, NEW kinds \in SUBSET Replies,
         ReplyTo(a, kinds)
  PROVE  mail' \in [Clients -> SUBSET Replies]
<1>1. CASE a = None
  BY <1>1 DEF ReplyTo, TypeOK
<1>2. CASE a # None
  BY <1>2, ReplyTypes DEF ReplyTo
<1> QED BY <1>1, <1>2

\* The packet a worker reads through its recipient.
LEMMA PackType ==
  ASSUME TypeOK, NEW w \in Workers
  PROVE  /\ Pack(w) \in Messages \cup {Null}
         /\ Position(w) # {} => Node(w).addr \in Clients
<1>1. ASSUME Position(w) # {}
      PROVE  Node(w).addr \in Clients /\ Node(w).pack \in Messages \cup {Null}
  <2> DEFINE i == CHOOSE i \in Position(w) : TRUE
  <2>1. i \in DOMAIN list
    BY <1>1 DEF Position
  <2>2. list[i].addr \in Clients /\ list[i].pack \in Messages \cup {Null}
    BY <2>1, ListElements DEF ListOK, TypeOK
  <2> QED BY <2>2 DEF Node
<1> QED BY <1>1 DEF Pack

\* A worker serves the packet it was handed.
LEMMA ServeTypes ==
  ASSUME TypeOK, NEW w \in Workers, NEW kinds \in SUBSET Replies, Serve(w, kinds)
  PROVE  /\ mail' \in [Clients -> SUBSET Replies] /\ crashed' \in BOOLEAN
         /\ peer' \in [Workers -> Clients \cup {None}]
<1>1. peer' \in [Workers -> Clients \cup {None}] /\ crashed' \in BOOLEAN
  BY PackType DEF Serve, TypeOK
<1>2. mail' \in [Clients -> SUBSET Replies]
  BY <1>1, ReplyToTypes DEF Serve
<1> QED BY <1>1, <1>2

\* Every step of a worker keeps the types.
LEMMA WorkerTypes ==
  ASSUME TypeOK, PoolInv, NEW w \in Workers, Worker(w)
  PROVE  TypeOK'
<1>1. CASE WaitSemaphore(w)
  BY <1>1 DEF WaitSemaphore, GoTo, TypeOK, WorkerStates, mainVars, muxVars, rtxVars,
              clientVars
<1>2. CASE GetClient(w)
  <2>1. /\ list' \in Seq(Nodes) /\ recipient' \in [Workers -> 0..inserted]
        /\ crashed' \in BOOLEAN
    <3>1. CASE HasServer(None) = {}
      BY <1>2, <3>1 DEF GetClient, TypeOK
    <3>2. CASE HasServer(None) # {}
      <4>1. PICK i \in HasServer(None) :
                 /\ list' = [list EXCEPT ![i].server = w]
                 /\ recipient' = [recipient EXCEPT ![w] = list[i].id]
                 /\ UNCHANGED crashed
        BY <1>2, <3>2 DEF GetClient, First
      <4>2. list[i].id \in 0..inserted
        BY DEF PoolInv, NodesNumbered, HasServer
      <4> QED BY <4>1, <4>2, GetClientProperties DEF ListOK, TypeOK
    <3> QED BY <3>1, <3>2
  <2> QED
    BY <1>2, <2>1 DEF GetClient, GoTo, TypeOK, WorkerStates, mainVars, muxVars, rtxVars,
                      clientVars
<1>3. CASE ReadRequest(w)
  <2>1. worker' \in [Workers -> WorkerStates] /\ crashed' \in BOOLEAN
    BY <1>3 DEF ReadRequest, GoTo, TypeOK, WorkerStates, Operations, MayAsk
  <2> QED
    BY <1>3, <2>1 DEF ReadRequest, TakePacket, TypeOK, mainVars, listVars, rtxVars,
                      clientVars
<1>4. CASE ServeReply(w)
  <2>1. /\ mail' \in [Clients -> SUBSET Replies] /\ crashed' \in BOOLEAN
        /\ peer' \in [Workers -> Clients \cup {None}]
    BY <1>4, ServeTypes DEF ServeReply, Replies
  <2>2. /\ window' \in [Workers -> Windows] /\ timer' \in [Workers -> BOOLEAN]
        /\ worker' \in [Workers -> WorkerStates]
    BY <1>4 DEF ServeReply, GoTo, TypeOK, WorkerStates, Windows
  <2> QED
    BY <1>4, <2>1, <2>2 DEF ServeReply, Serve, TypeOK, mainVars, listVars, muxVars,
                            clientVars
<1>5. CASE ServeEnd(w)
  <2>1. mail' \in [Clients -> SUBSET Replies]
    BY <1>5, ReplyToTypes DEF ServeEnd, Replies, TypeOK
  <2>2. window' \in [Workers -> Windows] /\ worker' \in [Workers -> WorkerStates]
    BY <1>5 DEF ServeEnd, GoTo, TypeOK, WorkerStates, Windows
  <2> QED
    BY <1>5, <2>1, <2>2 DEF ServeEnd, TypeOK, mainVars, listVars, muxVars, clientVars
<1>6. CASE EndAcked(w)
  BY <1>6 DEF EndAcked, GoTo, TypeOK, WorkerStates, mainVars, listVars, muxVars, rtxVars,
              clientVars
<1>7. CASE ServePut(w)
  <2>1. /\ mail' \in [Clients -> SUBSET Replies] /\ crashed' \in BOOLEAN
        /\ peer' \in [Workers -> Clients \cup {None}]
    BY <1>7, ServeTypes DEF ServePut, Replies
  <2> QED
    BY <1>7, <2>1 DEF ServePut, Serve, GoTo, TypeOK, WorkerStates, mainVars, listVars,
                      muxVars, rtxVars, clientVars
<1>8. CASE PutChunk(w)
  <2>1. mail' \in [Clients -> SUBSET Replies]
    <3>1. CASE UNCHANGED mail
      BY <3>1 DEF TypeOK
    <3>2. CASE ReplyTo(peer[w], {"received"})
      BY <3>2, ReplyToTypes DEF TypeOK, Replies
    <3> QED BY <1>8, <3>1, <3>2 DEF PutChunk
  <2>2. worker' \in [Workers -> WorkerStates] /\ crashed' \in BOOLEAN
    BY <1>8 DEF PutChunk, GoTo, TypeOK, WorkerStates
  <2> QED
    BY <1>8, <2>1, <2>2 DEF PutChunk, TakePacket, TypeOK, mainVars, listVars, rtxVars,
                            clientVars
<1>9. CASE WorkerTimeout(w)
  <2>1. /\ TimerExpires(w) /\ mail' \in [Clients -> SUBSET Replies]
        /\ timer' \in [Workers -> BOOLEAN] /\ crashed' \in BOOLEAN
    BY <1>9, ExpireTypes DEF WorkerTimeout
  <2> QED
    BY <1>9, <2>1 DEF WorkerTimeout, TimerExpires, TypeOK, listVars, workerVars, muxVars,
                      clientVars
<1> QED
  BY <1>1, <1>2, <1>3, <1>4, <1>5, <1>6, <1>7, <1>8, <1>9 DEF Worker

\* What a step of a client does to its own variables and to the channels.
LEMMA StepTypes ==
  ASSUME TypeOK, NEW c \in Clients, NEW from, NEW to \in ClientStates,
         NEW p, NEW base \in Packets \cup {Null}, Step(c, from, to, p, base),
         [from |-> c, type |-> p.type, data |-> p.data] \in Messages,
         mail' \in [Clients -> SUBSET Replies]
  PROVE  TypeOK'
<1>1. inbox' \in Seq(Messages) /\ Len(inbox') <= Cap
  BY SendTypes DEF Step
<1>2. client' \in [Clients -> ClientStates] /\ resend' \in [Clients -> Packets \cup {Null}]
  BY DEF Step, TypeOK
<1> QED
  BY <1>1, <1>2 DEF Step, TypeOK, mainVars, listVars, workerVars, muxVars, rtxVars

\* A client changes its control state.
LEMMA GoesTypes ==
  ASSUME TypeOK, NEW c \in Clients, NEW from, NEW to \in ClientStates, Goes(c, from, to),
         mail' \in [Clients -> SUBSET Replies]
  PROVE  TypeOK'
<1>1. client' \in [Clients -> ClientStates] /\ resend' \in [Clients -> Packets \cup {Null}]
  BY DEF Goes, TypeOK
<1> QED
  BY <1>1 DEF Goes, TypeOK, mainVars, listVars, workerVars, muxVars, rtxVars

\* A client takes the reply it waits for.
LEMMA AwaitTypes ==
  ASSUME TypeOK, NEW c \in Clients, NEW kind, Await(c, kind)
  PROVE  mail' \in [Clients -> SUBSET Replies]
BY DEF Await, TypeOK

\* Every step of a client keeps the types.
LEMMA ClientTypes ==
  ASSUME TypeOK, NEW c \in Clients, Client(c)
  PROVE  TypeOK'
<1> DEFINE Sent(p) == [from |-> c, type |-> p.type, data |-> p.data]
<1>1. /\ \A d \in Payloads : /\ Packet("DATA", d) \in Packets
                             /\ Sent(Packet("DATA", d)) \in Messages
      /\ \A d \in {"first", "next"} : Sent(Packet("ACK", d)) \in Messages
      /\ Packet("FIN", "none") \in Packets /\ Sent(Packet("FIN", "none")) \in Messages
      /\ Sent(Packet("SYN", "none")) \in Messages
  BY DEF Packet, Packets, Messages
<1>2. /\ operation[c] \in Payloads
      /\ {"chunk", "zeroes", "other"} \in SUBSET Payloads
  BY DEF TypeOK, Payloads
<1>3. \A p \in Packets : Sent(p) \in Messages
  BY DEF Packets, Messages
<1>4. UNCHANGED mail => mail' \in [Clients -> SUBSET Replies]
  BY DEF TypeOK
<1>5. CASE Connect(c)
  <2>1. /\ Step(c, "off", "syn", Packet("SYN", "none"), Packet("DATA", "zeroes"))
        /\ UNCHANGED mail
    BY <1>5 DEF Connect
  <2> QED BY <2>1, <1>1, <1>2, <1>4, StepTypes DEF ClientStates
<1>6. CASE Connected(c)
  <2>1. Step(c, "syn", "connected", Packet("ACK", "first"), Null) /\ Await(c, "SYNACK")
    BY <1>6 DEF Connected
  <2> QED BY <2>1, <1>1, AwaitTypes, StepTypes DEF ClientStates
<1>7. CASE SendRequest(c)
  <2> DEFINE p == Packet("DATA", operation[c])
  <2>1. Step(c, "connected", "request", p, p) /\ UNCHANGED mail
    BY <1>7 DEF SendRequest, SendAndArm
  <2>2. p \in Packets /\ Sent(p) \in Messages
    BY <1>1, <1>2
  <2> QED BY <2>1, <2>2, <1>4, StepTypes DEF ClientStates
<1>8. CASE Accepted(c)
  <2>1. CASE operation[c] = "put"
    <3> DEFINE p == Packet("DATA", "chunk")
    <3>1. Step(c, "request", "sent", p, p) /\ Await(c, "ack")
      BY <1>8, <2>1 DEF Accepted, SendAndArm
    <3>2. p \in Packets /\ Sent(p) \in Messages
      BY <1>1, <1>2
    <3> QED BY <3>1, <3>2, AwaitTypes, StepTypes DEF ClientStates
  <2>2. CASE operation[c] # "put"
    <3>1. Goes(c, "request", "transfer") /\ Await(c, "ack")
      BY <1>8, <2>2 DEF Accepted
    <3> QED BY <3>1, AwaitTypes, GoesTypes DEF ClientStates
  <2> QED BY <2>1, <2>2
<1>9. CASE Received(c)
  <2>1. ASSUME NEW state, Step(c, state, "received", Packet("ACK", "next"), Null),
               Await(c, "first")
        PROVE  TypeOK'
    BY <2>1, <1>1, AwaitTypes, StepTypes DEF ClientStates
  <2>2. CASE /\ Step(c, "transfer", "transfer", Packet("ACK", "first"), Null)
             /\ Await(c, "end")
    BY <2>2, <1>1, AwaitTypes, StepTypes DEF ClientStates
  <2> QED BY <1>9, <2>1, <2>2 DEF Received
<1>10. CASE Downloaded(c)
  <2>1. Goes(c, "received", "done") /\ Await(c, "end")
    BY <1>10 DEF Downloaded
  <2> QED BY <2>1, AwaitTypes, GoesTypes DEF ClientStates
<1>11. CASE Uploaded(c)
  <2>1. Goes(c, "sent", "done") /\ Await(c, "received")
    BY <1>11 DEF Uploaded
  <2> QED BY <2>1, AwaitTypes, GoesTypes DEF ClientStates
<1>12. CASE Close(c)
  <2> DEFINE p == Packet("FIN", "none")
  <2>1. Step(c, "done", "fin", p, p) /\ UNCHANGED mail
    BY <1>12 DEF Close, SendAndArm
  <2> QED BY <2>1, <1>1, <1>4, StepTypes DEF ClientStates
<1>13. CASE Closed(c)
  <2>1. Step(c, "fin", "closed", Packet("ACK", "first"), Null) /\ Await(c, "FINACK")
    BY <1>13 DEF Closed
  <2> QED BY <2>1, <1>1, AwaitTypes, StepTypes DEF ClientStates
<1>14. CASE Overwrite(c)
  <2>1. mail' \in [Clients -> SUBSET Replies]
    BY <1>14, AwaitTypes DEF Overwrite
  <2>2. Packet("DATA", "other") \in Packets
    BY <1>1, <1>2
  <2>3. resend' \in [Clients -> Packets \cup {Null}]
    BY <1>14, <2>2 DEF Overwrite, TypeOK
  <2> QED
    BY <1>14, <2>1, <2>3 DEF Overwrite, TypeOK, mainVars, listVars, workerVars, muxVars,
                             rtxVars
<1>15. CASE ClientTimeout(c)
  <2>1. /\ resend[c] # Null /\ UNCHANGED mail
        /\ Step(c, client[c], client[c], resend[c], Null)
    BY <1>15 DEF ClientTimeout
  <2>2. resend[c] \in Packets /\ client[c] \in ClientStates
    BY <2>1 DEF TypeOK
  <2> QED BY <2>1, <2>2, <1>3, <1>4, StepTypes
<1> QED
  BY <1>5, <1>6, <1>7, <1>8, <1>9, <1>10, <1>11, <1>12, <1>13, <1>14, <1>15 DEF Client

----------------------------------------------------------------------------
(***************************************************************************)
(* The actions that touch neither the list nor the mutexes.                *)
(***************************************************************************)

Quiet ==
  /\ UNCHANGED <<inserted, list, sem, recipient>>
  /\ (main' = "post") <=> (main = "post")
  /\ Acquiring' = Acquiring

\* Of the steps of main only four touch the client list, the semaphore or a mutex.
LEMMA MainQuiet ==
  ASSUME TypeOK, Main
  PROVE  \/ Quiet /\ UNCHANGED <<free, avb>>
         \/ InsertClient \/ PostSemaphore \/ DemolitionEnds \/ Store
<1>1. CASE Handshake
  BY <1>1 DEF Handshake, Receive, Quiet, Acquiring, listVars, workerVars, muxVars
<1>2. CASE HandshakeEnds
  BY <1>2 DEF HandshakeEnds, Receive, Quiet, Acquiring, listVars, workerVars, muxVars
<1>3. CASE ReceiveAck
  BY <1>3 DEF ReceiveAck, Receive, Quiet, Acquiring, listVars, workerVars, muxVars
<1>4. CASE Demolition
  BY <1>4 DEF Demolition, Receive, Quiet, Acquiring, listVars, workerVars, muxVars
<1>5. CASE ReceiveData
  BY <1>5 DEF ReceiveData, Receive, Quiet, Acquiring, listVars, workerVars, muxVars
<1>6. CASE BadIndex
  BY <1>6 DEF BadIndex, Quiet, Acquiring, mainVars, listVars, workerVars, muxVars
<1>7. CASE MainTimeout
  BY <1>7 DEF MainTimeout, TimerExpires, Quiet, Acquiring, listVars, workerVars, muxVars
<1> QED BY <1>1, <1>2, <1>3, <1>4, <1>5, <1>6, <1>7 DEF Main

\* A worker that neither leaves nor enters "acquire".
LEMMA GoToAcquiring ==
  ASSUME TypeOK, NEW w \in Workers, NEW from, NEW to, GoTo(w, from, to),
         from # "acquire", to # "acquire"
  PROVE  Acquiring' = Acquiring
BY DEF GoTo, Acquiring, TypeOK

\* Of the steps of a worker only three touch the list, the semaphore or a mutex.
LEMMA WorkerQuiet ==
  ASSUME TypeOK, NEW w \in Workers, Worker(w)
  PROVE  \/ Quiet /\ UNCHANGED <<free, avb>>
         \/ Quiet /\ TakePacket(w)
         \/ WaitSemaphore(w) \/ GetClient(w)
<1>1. CASE ReadRequest(w)
  <2>1. TakePacket(w) /\ \E to : to # "acquire" /\ GoTo(w, "request", to)
    BY <1>1 DEF ReadRequest, Operations, MayAsk
  <2>2. Acquiring' = Acquiring
    BY <2>1, GoToAcquiring
  <2> QED BY <2>1, <2>2 DEF TakePacket, Quiet, mainVars, listVars
<1>2. CASE ServeReply(w)
  <2>1. \E from, to \in WorkerStates \ {"acquire"} : GoTo(w, from, to)
    BY <1>2 DEF ServeReply, WorkerStates
  <2>2. Acquiring' = Acquiring
    BY <2>1, GoToAcquiring
  <2> QED BY <1>2, <2>2 DEF ServeReply, Serve, Quiet, mainVars, listVars, muxVars
<1>3. CASE ServeEnd(w)
  <2>1. \E from, to \in WorkerStates \ {"acquire"} : GoTo(w, from, to)
    BY <1>3 DEF ServeEnd, WorkerStates
  <2>2. Acquiring' = Acquiring
    BY <2>1, GoToAcquiring
  <2> QED BY <1>3, <2>2 DEF ServeEnd, Quiet, mainVars, listVars, muxVars
<1>4. CASE EndAcked(w)
  <2>1. GoTo(w, "getEnd", "waiting")
    BY <1>4 DEF EndAcked
  <2>2. Acquiring' = Acquiring
    BY <2>1, GoToAcquiring
  <2> QED BY <1>4, <2>2 DEF EndAcked, Quiet, mainVars, listVars, muxVars
<1>5. CASE ServePut(w)
  <2>1. GoTo(w, "put", "putWait")
    BY <1>5 DEF ServePut
  <2>2. Acquiring' = Acquiring
    BY <2>1, GoToAcquiring
  <2> QED BY <1>5, <2>2 DEF ServePut, Serve, Quiet, mainVars, listVars, muxVars
<1>6. CASE PutChunk(w)
  <2>1. TakePacket(w) /\ \E to \in WorkerStates \ {"acquire"} : GoTo(w, "putWait", to)
    BY <1>6 DEF PutChunk, WorkerStates
  <2>2. Acquiring' = Acquiring
    BY <2>1, GoToAcquiring
  <2> QED BY <2>1, <2>2 DEF TakePacket, Quiet, mainVars, listVars
<1>7. CASE WorkerTimeout(w)
  BY <1>7 DEF WorkerTimeout, TimerExpires, Quiet, Acquiring, listVars, workerVars, muxVars
<1> QED BY <1>1, <1>2, <1>3, <1>4, <1>5, <1>6, <1>7 DEF Worker

\* No step of a client touches the list, the semaphore or a mutex.
LEMMA ClientQuiet ==
  ASSUME NEW c \in Clients, Client(c)
  PROVE  Quiet /\ UNCHANGED <<free, avb>>
<1> USE DEF Quiet, Acquiring, mainVars, listVars, workerVars, muxVars
<1>1. ASSUME NEW from, NEW to, NEW p, NEW base, Step(c, from, to, p, base)
      PROVE  Quiet /\ UNCHANGED <<free, avb>>
  BY <1>1 DEF Step
<1>2. ASSUME NEW from, NEW to, Goes(c, from, to)
      PROVE  Quiet /\ UNCHANGED <<free, avb>>
  BY <1>2 DEF Goes
<1>3. CASE Overwrite(c)
  BY <1>3 DEF Overwrite
<1> QED
  BY <1>1, <1>2, <1>3
     DEF Client, Connect, Connected, SendRequest, Accepted, Received, Uploaded, Downloaded,
         Close, Closed, ClientTimeout, SendAndArm

----------------------------------------------------------------------------
(***************************************************************************)
(* The inductive invariant.                                                *)
(***************************************************************************)

\* Nothing that PoolInv speaks of changes, or a list with the same nodes.
LEMMA SameNodes ==
  ASSUME TypeOK, NodesNumbered, OneWorkerPerClient, UNCHANGED <<inserted, recipient>>,
         DOMAIN list' = DOMAIN list,
         \A i \in DOMAIN list : /\ list'[i].id = list[i].id
                                /\ list'[i].server = list[i].server
  PROVE  NodesNumbered' /\ OneWorkerPerClient'
<1>1. NodesNumbered'
  BY DEF NodesNumbered
<1>2. OneWorkerPerClient'
  BY DEF OneWorkerPerClient, Position
<1> QED BY <1>1, <1>2

\* insert_client numbers the new node as no node before.
LEMMA InsertInvariant ==
  ASSUME TypeOK, PoolInv, InsertClient
  PROVE  PoolInv'
<1> DEFINE new == [id |-> inserted + 1, addr |-> addr, server |-> None, pack |-> Null]
<1>1. list' = Append(list, new) /\ inserted' = inserted + 1 /\ UNCHANGED recipient
  BY DEF InsertClient, workerVars
<1>2. new \in Nodes /\ new.id = inserted + 1
  BY DEF TypeOK, Nodes
<1>3. /\ list \in Seq(Nodes) /\ Len(list) \in Nat /\ DOMAIN list = 1..Len(list)
      /\ inserted \in Nat
  BY LenProperties DEF TypeOK
<1>4. /\ DOMAIN list' = 1..(Len(list) + 1)
      /\ \A i \in 1..Len(list) : list'[i] = list[i]
      /\ list'[Len(list) + 1] = new
  BY <1>1, <1>2, <1>3, AppendProperties, LenProperties
<1>5. \A i \in DOMAIN list' : i \in DOMAIN list \/ (i = Len(list) + 1 /\ list'[i] = new)
  BY <1>3, <1>4
<1>6. \A i \in DOMAIN list : list'[i] = list[i] /\ list[i].id \in 1..inserted
  BY <1>3, <1>4 DEF PoolInv, NodesNumbered
<1> HIDE DEF new
<1>7. NodesNumbered'
  BY <1>1, <1>2, <1>3, <1>5, <1>6 DEF PoolInv, NodesNumbered
<1>8. OneWorkerPerClient'
  <2>1. ASSUME NEW w \in Workers, NEW i \in DOMAIN list', list'[i].id = recipient'[w]
        PROVE  list'[i].server = w
    <3>1. recipient[w] \in 0..inserted
      BY DEF TypeOK
    <3>2. i \in DOMAIN list
      BY <2>1, <3>1, <1>1, <1>2, <1>3, <1>5
    <3> QED BY <2>1, <3>2, <1>1, <1>6 DEF PoolInv, OneWorkerPerClient, Position
  <2> QED BY <2>1, <1>1 DEF PoolInv, OneWorkerPerClient, Position
<1>9. OnePacketAtATime'
  BY DEF InsertClient, PoolInv, OnePacketAtATime, muxVars
<1> QED BY <1>7, <1>8, <1>9 DEF PoolInv

\* demolition removes a node and renumbers none.
LEMMA RemoveInvariant ==
  ASSUME TypeOK, PoolInv, DemolitionEnds
  PROVE  PoolInv'
<1>1. UNCHANGED <<inserted, recipient, free, avb>>
  BY DEF DemolitionEnds, workerVars, muxVars
<1>2. /\ \A i \in DOMAIN list' : \E k \in DOMAIN list : list'[i] = list[k]
      /\ \A i, j \in DOMAIN list' : list'[i].id = list'[j].id => i = j
  <2>1. \A i, j \in DOMAIN list : list[i].id = list[j].id => i = j
    BY DEF PoolInv, NodesNumbered
  <2>2. CASE list' \in RemoveClient(addr')
    BY <2>1, <2>2, RemoveProperties DEF ListOK, TypeOK
  <2>3. CASE list' = list
    BY <2>1, <2>3
  <2> QED BY <2>2, <2>3 DEF DemolitionEnds
<1>3. NodesNumbered'
  BY <1>1, <1>2 DEF PoolInv, NodesNumbered
<1>4. OneWorkerPerClient'
  BY <1>1, <1>2 DEF PoolInv, OneWorkerPerClient, Position
<1>5. OnePacketAtATime'
  BY <1>1 DEF PoolInv, OnePacketAtATime
<1> QED BY <1>3, <1>4, <1>5 DEF PoolInv

\* update_packet stores a packet and closes mux_free of the worker it is for.
LEMMA StoreInvariant ==
  ASSUME TypeOK, PoolInv, Store
  PROVE  PoolInv'
<1>1. /\ DOMAIN list' = DOMAIN list
      /\ \A i \in DOMAIN list : /\ list'[i].id = list[i].id
                                /\ list'[i].server = list[i].server
  BY UpdateProperties DEF Store, ListOK, TypeOK
<1>2. NodesNumbered' /\ OneWorkerPerClient'
  BY <1>1, SameNodes DEF Store, workerVars, PoolInv
<1>3. OnePacketAtATime'
  <2>1. ASSUME NEW w \in Workers PROVE ~ (free'[w] /\ avb'[w])
    <3>1. /\ free'[w] <=> free[w] /\ w # thread
          /\ avb'[w] <=> avb[w] \/ w = thread
      BY DEF Store
    <3> QED BY <3>1 DEF PoolInv, OnePacketAtATime
  <2> QED BY <2>1 DEF OnePacketAtATime
<1> QED BY <1>2, <1>3 DEF PoolInv

\* get_client marks a node that has no worker, for a worker that has no node.
LEMMA GetClientInvariant ==
  ASSUME TypeOK, PoolInv, NEW w \in Workers, GetClient(w)
  PROVE  PoolInv'
<1>1. UNCHANGED <<inserted, free, avb>>
  BY DEF GetClient, muxVars
<1>2. OnePacketAtATime'
  BY <1>1 DEF PoolInv, OnePacketAtATime
<1>3. CASE HasServer(None) = {}
  BY <1>1, <1>2, <1>3, SameNodes DEF GetClient, PoolInv
<1>4. CASE HasServer(None) # {}
  <2>1. PICK n \in HasServer(None) : /\ list' = [list EXCEPT ![n].server = w]
                                     /\ recipient' = [recipient EXCEPT ![w] = list[n].id]
    BY <1>4 DEF GetClient, First
  <2>2. /\ DOMAIN list' = DOMAIN list
        /\ \A j \in DOMAIN list : /\ list'[j].id = list[j].id
                                  /\ list'[j].server = IF j = n THEN w ELSE list[j].server
    BY <2>1, GetClientProperties DEF ListOK, TypeOK
  <2>3. /\ n \in DOMAIN list /\ list[n].server = None
        /\ list[n].id \in 1..inserted
    BY DEF HasServer, PoolInv, NodesNumbered
  <2>4. NodesNumbered'
    BY <1>1, <2>2 DEF PoolInv, NodesNumbered
  \* The new recipient was nobody's.
  <2>5. \A v \in Workers : recipient[v] # list[n].id
    BY <2>3, PoolAssumption DEF PoolInv, OneWorkerPerClient, Position
  <2>6. /\ recipient'[w] = list[n].id
        /\ \A v \in Workers \ {w} : recipient'[v] = recipient[v]
    BY <2>1 DEF TypeOK
  <2>7. ASSUME NEW v \in Workers, NEW i \in DOMAIN list', list'[i].id = recipient'[v]
        PROVE  list'[i].server = v
    <3>1. CASE v = w
      BY <3>1, <2>2, <2>3, <2>6, <2>7 DEF PoolInv, NodesNumbered
    <3>2. CASE v # w
      BY <3>2, <2>2, <2>5, <2>6, <2>7 DEF PoolInv, OneWorkerPerClient, Position
    <3> QED BY <3>1, <3>2
  <2>8. ASSUME NEW u \in Workers, NEW v \in Workers, recipient'[u] = recipient'[v], u # v
        PROVE  recipient'[v] = 0
    BY <2>5, <2>6, <2>8 DEF PoolInv, OneWorkerPerClient
  <2>9. OneWorkerPerClient'
    BY <2>7, <2>8 DEF OneWorkerPerClient, Position
  <2> QED BY <1>2, <2>4, <2>9 DEF PoolInv
<1> QED BY <1>3, <1>4

\* PoolInv is about the list and the mutexes only.
LEMMA QuietInvariant ==
  ASSUME TypeOK, PoolInv, UNCHANGED <<inserted, list, recipient>>,
         OnePacketAtATime'
  PROVE  PoolInv'
BY SameNodes DEF PoolInv

\* A step keeps the types and the invariant.
LEMMA PoolStep ==
  ASSUME TypeOK, PoolInv, [Next]_vars
  PROVE  TypeOK' /\ PoolInv'
<1>1. CASE UNCHANGED vars
  <2>1. UNCHANGED <<inserted, list, recipient, free, avb>>
    BY <1>1 DEF vars, listVars, workerVars, muxVars
  <2>2. OnePacketAtATime'
    BY <2>1 DEF PoolInv, OnePacketAtATime
  <2>3. TypeOK'
    BY <1>1 DEF vars, TypeOK, mainVars, listVars, workerVars, muxVars, rtxVars, clientVars
  <2> QED BY <2>1, <2>2, <2>3, QuietInvariant
<1>2. CASE Main
  <2>1. CASE Quiet /\ UNCHANGED <<free, avb>>
    <3>1. OnePacketAtATime'
      BY <2>1 DEF PoolInv, OnePacketAtATime
    <3> QED BY <1>2, <2>1, <3>1, MainTypes, QuietInvariant DEF Quiet
  <2>2. CASE PostSemaphore
    <3>1. UNCHANGED <<inserted, list, recipient, free, avb>>
      BY <2>2 DEF PostSemaphore, workerVars, muxVars
    <3>2. OnePacketAtATime'
      BY <3>1 DEF PoolInv, OnePacketAtATime
    <3> QED BY <1>2, <3>1, <3>2, MainTypes, QuietInvariant
  <2> QED
    BY <1>2, <2>1, <2>2, MainQuiet, MainTypes, InsertInvariant, RemoveInvariant,
       StoreInvariant
<1>3. ASSUME NEW w \in Workers, Worker(w)
      PROVE  TypeOK' /\ PoolInv'
  <2>1. CASE Quiet /\ UNCHANGED <<free, avb>>
    <3>1. OnePacketAtATime'
      BY <2>1 DEF PoolInv, OnePacketAtATime
    <3> QED BY <1>3, <2>1, <3>1, WorkerTypes, QuietInvariant DEF Quiet
  <2>2. CASE Quiet /\ TakePacket(w)
    <3>1. OnePacketAtATime'
      BY <2>2 DEF TakePacket, PoolInv, OnePacketAtATime, TypeOK
    <3> QED BY <1>3, <2>2, <3>1, WorkerTypes, QuietInvariant DEF Quiet
  <2>3. CASE WaitSemaphore(w)
    <3>1. UNCHANGED <<inserted, list, recipient, free, avb>>
      BY <2>3 DEF WaitSemaphore, muxVars
    <3>2. OnePacketAtATime'
      BY <3>1 DEF PoolInv, OnePacketAtATime
    <3> QED BY <1>3, <3>1, <3>2, WorkerTypes, QuietInvariant
  <2> QED
    BY <1>3, <2>1, <2>2, <2>3, WorkerQuiet, WorkerTypes, GetClientInvariant
<1>4. ASSUME NEW c \in Clients, Client(c)
      PROVE  TypeOK' /\ PoolInv'
  <2>1. Quiet /\ UNCHANGED <<free, avb>>
    BY <1>4, ClientQuiet
  <2>2. OnePacketAtATime'
    BY <2>1 DEF PoolInv, OnePacketAtATime
  <2> QED BY <1>4, <2>1, <2>2, ClientTypes, QuietInvariant DEF Quiet
<1> QED BY <1>1, <1>2, <1>3, <1>4 DEF Next

\* At first no client is known, and every mux_free is unlocked.
LEMMA PoolInit ==
  ASSUME Init
  PROVE  TypeOK /\ PoolInv
<1>1. list = << >> /\ << >> \in Seq(Nodes) /\ DOMAIN list = {}
  BY DEF Init
<1>2. inbox \in Seq(Messages) /\ Len(inbox) <= Cap
  BY PoolAssumption DEF Init
<1>3. TypeOK
  <2>1. operation \in [Clients -> Operations]
    BY DEF Init
  <2>2. /\ recipient \in [Workers -> 0..inserted]
        /\ peer \in [Workers -> Clients \cup {None}]
        /\ resend \in [Clients -> Packets \cup {Null}]
        /\ mail \in [Clients -> SUBSET Replies]
    BY DEF Init
  <2>3. /\ worker \in [Workers -> WorkerStates] /\ client \in [Clients -> ClientStates]
        /\ window \in [Workers -> Windows]
    BY DEF Init, WorkerStates, ClientStates, Windows
  <2>4. /\ free \in [Workers -> BOOLEAN] /\ avb \in [Workers -> BOOLEAN]
        /\ timer \in [Workers -> BOOLEAN]
    BY DEF Init
  <2>5. /\ main \in MainStates /\ addr \in Clients /\ thread \in Workers \cup {None}
        /\ packet \in Messages \cup {Null} /\ mainTimer \in BOOLEAN
        /\ inserted \in Nat /\ list \in Seq(Nodes) /\ sem \in Nat /\ crashed \in BOOLEAN
    BY <1>1 DEF Init, MainStates
  <2> QED BY <1>2, <2>1, <2>2, <2>3, <2>4, <2>5 DEF TypeOK
<1>4. PoolInv
  BY <1>1 DEF Init, PoolInv, NodesNumbered, OneWorkerPerClient, OnePacketAtATime, Position
<1> QED BY <1>3, <1>4

\* Every variable of the server and its clients keeps its type: no worker's index
\* other than -1, no count of the semaphore below zero (server.c:671-789).
THEOREM PoolTypeCorrect == Spec => []TypeOK
<1>1. Init => TypeOK /\ PoolInv
  BY PoolInit
<1>2. TypeOK /\ PoolInv /\ [Next]_vars => (TypeOK /\ PoolInv)'
  BY PoolStep
<1> QED BY <1>1, <1>2, PTL DEF Spec

\* The invariant that the other theorems rest on: nodes are numbered as they were
\* created, a client has one worker, mux_free and mux_avb are never both open
\* (clients.c:10-76, server.c:545-548, 777-779).
THEOREM PoolInvCorrect == Spec => []PoolInv
<1>1. Init => TypeOK /\ PoolInv
  BY PoolInit
<1>2. TypeOK /\ PoolInv /\ [Next]_vars => (TypeOK /\ PoolInv)'
  BY PoolStep
<1> QED BY <1>1, <1>2, PTL DEF Spec

\* get_client never gives a client to two workers, and the client keeps its worker
\* (clients.c:65-75).
THEOREM OneWorkerCorrect == Spec => []OneWorkerPerClient
<1>1. PoolInv => OneWorkerPerClient
  BY DEF PoolInv
<1> QED BY <1>1, PoolInvCorrect, PTL

----------------------------------------------------------------------------
(***************************************************************************)
(* The semaphore.                                                          *)
(***************************************************************************)

\* The sets that PermitForEveryClient counts are finite.
LEMMA PermitTypes ==
  ASSUME TypeOK, PoolInv
  PROVE  /\ IsFiniteSet(Unserved) /\ Cardinality(Unserved) \in Nat
         /\ IsFiniteSet(Acquiring) /\ Cardinality(Acquiring) \in Nat
         /\ sem \in Nat /\ inserted \in Nat
<1>1. Unserved \in SUBSET (1..inserted) /\ inserted \in Nat /\ sem \in Nat
  BY DEF TypeOK, PoolInv, NodesNumbered, Unserved, HasServer
<1>2. IsFiniteSet(Unserved)
  <2>1. IsFiniteSet(1..inserted)
    BY <1>1, 1 \in Int, inserted \in Int, FS_Interval
  <2> QED BY <1>1, <2>1, FS_Subset
<1>3. IsFiniteSet(Acquiring)
  BY PoolAssumption, FS_Subset DEF Acquiring
<1> QED BY <1>1, <1>2, <1>3, FS_CardinalityType

\* A client waits for a worker as long as its node has none.
LEMMA SameUnserved ==
  ASSUME DOMAIN list' = DOMAIN list,
         \A i \in DOMAIN list : /\ list'[i].id = list[i].id
                                /\ list'[i].server = list[i].server
  PROVE  Unserved' = Unserved
BY DEF Unserved, HasServer

\* What touches neither the list nor the semaphore keeps the permits.
LEMMA QuietPermit ==
  ASSUME PermitForEveryClient, Quiet
  PROVE  PermitForEveryClient'
<1>1. Unserved' = Unserved
  BY SameUnserved DEF Quiet
<1> QED BY <1>1 DEF Quiet, PermitForEveryClient

\* insert_client adds a client that waits, and main is about to post.
LEMMA InsertPermit ==
  ASSUME TypeOK, PoolInv, PermitForEveryClient, InsertClient
  PROVE  PermitForEveryClient'
<1> DEFINE new == [id |-> inserted + 1, addr |-> addr, server |-> None, pack |-> Null]
<1>1. /\ list \in Seq(Nodes) /\ DOMAIN list = 1..Len(list) /\ Len(list) \in Nat
      /\ new \in Nodes /\ list' = Append(list, new)
  BY LenProperties DEF TypeOK, Nodes, InsertClient
<1>2. /\ DOMAIN list' = 1..(Len(list) + 1)
      /\ \A i \in 1..Len(list) : list'[i] = list[i]
      /\ list'[Len(list) + 1] = new
  BY <1>1, AppendProperties, LenProperties
<1>3. Unserved' \in SUBSET (Unserved \cup {inserted + 1})
  BY <1>1, <1>2 DEF Unserved, HasServer
<1>4. /\ IsFiniteSet(Unserved \cup {inserted + 1})
      /\ Cardinality(Unserved \cup {inserted + 1}) \in Nat
      /\ Cardinality(Unserved \cup {inserted + 1}) <= Cardinality(Unserved) + 1
  <2>1. IsFiniteSet(Unserved) /\ Cardinality(Unserved) \in Nat
    BY PermitTypes
  <2>2. /\ IsFiniteSet(Unserved \cup {inserted + 1})
        /\ Cardinality(Unserved \cup {inserted + 1}) =
             IF inserted + 1 \in Unserved THEN Cardinality(Unserved)
                                         ELSE Cardinality(Unserved) + 1
    BY <2>1, FS_AddElement
  <2> QED BY <2>1, <2>2
<1>5. Cardinality(Unserved') \in Nat /\ Cardinality(Unserved') <= Cardinality(Unserved) + 1
  <2>1. IsFiniteSet(Unserved')
        /\ Cardinality(Unserved') <= Cardinality(Unserved \cup {inserted + 1})
    BY <1>3, <1>4, FS_Subset
  <2> QED BY <2>1, <1>4, PermitTypes, FS_CardinalityType
<1>6. Acquiring' = Acquiring /\ sem' = sem /\ main = "insert" /\ main' = "post"
  BY DEF InsertClient, workerVars, Acquiring
<1> QED BY <1>5, <1>6, PermitTypes DEF PermitForEveryClient

\* demolition never adds a client that waits.
LEMMA RemovePermit ==
  ASSUME TypeOK, PoolInv, PermitForEveryClient, DemolitionEnds
  PROVE  PermitForEveryClient'
<1>1. \A i \in DOMAIN list' : \E k \in DOMAIN list : list'[i] = list[k]
  BY RemoveProperties DEF DemolitionEnds, ListOK, TypeOK
<1>2. Unserved' \in SUBSET Unserved
  BY <1>1 DEF Unserved, HasServer
<1>3. Cardinality(Unserved') \in Nat /\ Cardinality(Unserved') <= Cardinality(Unserved)
  BY <1>2, PermitTypes, FS_Subset, FS_CardinalityType
<1>4. /\ Acquiring' = Acquiring /\ sem' = sem
      /\ main = "demolition" /\ main' = "recv"
  BY DEF DemolitionEnds, Receive, workerVars, Acquiring
<1> QED BY <1>3, <1>4, PermitTypes DEF PermitForEveryClient

\* update_packet gives no node another worker.
LEMMA StorePermit ==
  ASSUME TypeOK, PoolInv, PermitForEveryClient, Store
  PROVE  PermitForEveryClient'
<1>1. Unserved' = Unserved
  BY UpdateProperties, SameUnserved DEF Store, ListOK, TypeOK
<1>2. Acquiring' = Acquiring /\ sem' = sem /\ main = "store" /\ main' = "recv"
  BY DEF Store, workerVars, Acquiring
<1> QED BY <1>1, <1>2 DEF PermitForEveryClient

\* The post of main turns its promise into a permit.
LEMMA PostPermit ==
  ASSUME TypeOK, PoolInv, PermitForEveryClient, PostSemaphore
  PROVE  PermitForEveryClient'
<1>1. Unserved' = Unserved
  BY SameUnserved DEF PostSemaphore
<1>2. Acquiring' = Acquiring /\ sem' = sem + 1 /\ main = "post" /\ main' = "recv"
  BY DEF PostSemaphore, workerVars, Acquiring
<1> QED BY <1>1, <1>2, PermitTypes DEF PermitForEveryClient

\* The permit goes from the semaphore to the worker.
LEMMA WaitPermit ==
  ASSUME TypeOK, PoolInv, PermitForEveryClient, NEW w \in Workers, WaitSemaphore(w)
  PROVE  PermitForEveryClient'
<1>1. Unserved' = Unserved
  BY SameUnserved DEF WaitSemaphore
<1>2. w \notin Acquiring /\ Acquiring' = Acquiring \cup {w}
  BY DEF WaitSemaphore, GoTo, Acquiring, TypeOK
<1>3. Cardinality(Acquiring') = Cardinality(Acquiring) + 1
  BY <1>2, PermitTypes, FS_AddElement
<1>4. sem' = sem - 1 /\ main' = main
  BY DEF WaitSemaphore, mainVars
<1> QED BY <1>1, <1>3, <1>4, PermitTypes DEF PermitForEveryClient

\* A worker that leaves get_client takes a client with it, if there is one.
LEMMA GetClientPermit ==
  ASSUME TypeOK, PoolInv, PermitForEveryClient, NEW w \in Workers, GetClient(w)
  PROVE  PermitForEveryClient'
<1>1. w \in Acquiring /\ Acquiring' = Acquiring \ {w}
  BY DEF GetClient, GoTo, Acquiring, TypeOK
<1>2. Cardinality(Acquiring') = Cardinality(Acquiring) - 1
  BY <1>1, PermitTypes, FS_RemoveElement
<1>3. sem' = sem /\ main' = main
  BY DEF GetClient, mainVars
<1>4. CASE HasServer(None) = {}
  <2>1. Unserved = {} /\ Unserved' = {}
    BY <1>4 DEF Unserved, HasServer, GetClient
  <2>2. Cardinality(Unserved') = 0
    BY <2>1, FS_EmptySet
  <2>3. Cardinality(Acquiring') \in Nat
    BY <1>1, PermitTypes, FS_RemoveElement, FS_CardinalityType
  <2> QED BY <1>3, <2>2, <2>3, PermitTypes DEF PermitForEveryClient
<1>5. CASE HasServer(None) # {}
  <2>1. PICK n \in HasServer(None) : list' = [list EXCEPT ![n].server = w]
    BY <1>5 DEF GetClient, First
  <2>2. /\ DOMAIN list' = DOMAIN list
        /\ \A j \in DOMAIN list : /\ list'[j].id = list[j].id
                                  /\ list'[j].server = IF j = n THEN w ELSE list[j].server
    BY <2>1, GetClientProperties DEF ListOK, TypeOK
  <2>3. n \in DOMAIN list /\ list[n].id \in Unserved /\ w # None
    BY PoolAssumption DEF HasServer, Unserved
  <2>4. Unserved' \in SUBSET (Unserved \ {list[n].id})
    BY <2>2, <2>3 DEF Unserved, HasServer, PoolInv, NodesNumbered
  <2>5. /\ IsFiniteSet(Unserved \ {list[n].id})
        /\ Cardinality(Unserved \ {list[n].id}) = Cardinality(Unserved) - 1
    BY <2>3, PermitTypes, FS_RemoveElement
  <2>6. Cardinality(Unserved') \in Nat /\ Cardinality(Unserved') <= Cardinality(Unserved) - 1
    BY <2>4, <2>5, FS_Subset, FS_CardinalityType
  <2> QED BY <1>2, <1>3, <2>6, PermitTypes DEF PermitForEveryClient
<1> QED BY <1>4, <1>5

\* Every step keeps a permit for every client that waits.
LEMMA PermitStep ==
  ASSUME TypeOK, PoolInv, PermitForEveryClient, [Next]_vars
  PROVE  PermitForEveryClient'
<1>1. CASE UNCHANGED vars
  <2>1. UNCHANGED <<list, sem, worker, main>>
    BY <1>1 DEF vars, mainVars, listVars, workerVars
  <2> QED BY <2>1, SameUnserved DEF PermitForEveryClient, Acquiring
<1>2. CASE Main
  BY <1>2, MainQuiet, QuietPermit, InsertPermit, PostPermit, RemovePermit, StorePermit
<1>3. ASSUME NEW w \in Workers, Worker(w)
      PROVE  PermitForEveryClient'
  BY <1>3, WorkerQuiet, QuietPermit, WaitPermit, GetClientPermit
<1>4. ASSUME NEW c \in Clients, Client(c)
      PROVE  PermitForEveryClient'
  BY <1>4, ClientQuiet, QuietPermit
<1> QED BY <1>1, <1>2, <1>3, <1>4 DEF Next

\* sem_post comes with every client that is inserted, and a permit that is taken
\* leads to get_client: whoever has no worker has a permit, also when clients are
\* removed in between (server.c:530-543, 735-746).
THEOREM PermitCorrect == Spec => []PermitForEveryClient
<1>1. Init => PermitForEveryClient
  <2>1. ASSUME Init PROVE PermitForEveryClient
    <3>1. Unserved = {} /\ Acquiring = {} /\ sem = 0 /\ main = "recv"
      BY <2>1 DEF Init, Unserved, Acquiring, HasServer
    <3> QED BY <3>1, FS_EmptySet DEF PermitForEveryClient
  <2> QED BY <2>1
<1>2. TypeOK /\ PoolInv /\ PermitForEveryClient /\ [Next]_vars => PermitForEveryClient'
  BY PermitStep
<1> QED BY <1>1, <1>2, PoolTypeCorrect, PoolInvCorrect, PTL DEF Spec

----------------------------------------------------------------------------
(***************************************************************************)
(* The packet of a worker that was told of it.                             *)
(***************************************************************************)

\* The node that w serves has the same packet before and after the step.
Kept(w) ==
  \A i \in Position(w), j \in DOMAIN list' :
    list'[j].id = recipient[w] => list'[j].pack = list[i].pack

\* The packet of a worker is kept when the nodes stay in their places.
LEMMA KeptInPlace ==
  ASSUME PoolInv, NEW w \in Workers, DOMAIN list' = DOMAIN list,
         \A i \in DOMAIN list : list'[i].id = list[i].id,
         \A i \in Position(w) : list'[i].pack = list[i].pack
  PROVE  Kept(w)
BY DEF Kept, Position, PoolInv, NodesNumbered

\* insert_client, at the end of the list, keeps what was handed to a worker.
LEMMA InsertKeeps ==
  ASSUME TypeOK, PoolInv, InsertClient, NEW w \in Workers
  PROVE  Kept(w)
<1> DEFINE new == [id |-> inserted + 1, addr |-> addr, server |-> None, pack |-> Null]
<1>1. /\ list \in Seq(Nodes) /\ DOMAIN list = 1..Len(list) /\ Len(list) \in Nat
      /\ new \in Nodes /\ list' = Append(list, new)
      /\ recipient[w] \in 0..inserted /\ inserted \in Nat
  BY LenProperties DEF TypeOK, Nodes, InsertClient
<1>2. /\ DOMAIN list' = 1..(Len(list) + 1)
      /\ \A i \in 1..Len(list) : list'[i] = list[i]
      /\ list'[Len(list) + 1].id = inserted + 1
  BY <1>1, AppendProperties, LenProperties
<1>3. ASSUME NEW j \in DOMAIN list', list'[j].id = recipient[w]
      PROVE  j \in DOMAIN list /\ list'[j] = list[j]
  BY <1>1, <1>2, <1>3
<1> QED BY <1>3 DEF Kept, Position, PoolInv, NodesNumbered

\* demolition keeps the packets of the clients that stay.
LEMMA RemoveKeeps ==
  ASSUME TypeOK, PoolInv, DemolitionEnds, NEW w \in Workers
  PROVE  Kept(w)
<1>1. \A i \in DOMAIN list' : \E k \in DOMAIN list : list'[i] = list[k]
  BY RemoveProperties DEF DemolitionEnds, ListOK, TypeOK
<1> QED BY <1>1 DEF Kept, Position, PoolInv, NodesNumbered

\* main has waited for mux_free[thread], so the worker was told of nothing.
LEMMA StoreKeeps ==
  ASSUME TypeOK, PoolInv, Store, NEW w \in Workers, avb[w]
  PROVE  Kept(w)
<1>1. w # thread
  BY DEF Store, PoolInv, OnePacketAtATime
<1>2. /\ DOMAIN list' = DOMAIN list
      /\ \A i \in DOMAIN list : /\ list'[i].id = list[i].id
                                /\ list'[i].pack = list[i].pack \/ list[i].server = thread
  BY UpdateProperties DEF Store, ListOK, TypeOK
<1>3. \A i \in Position(w) : i \in DOMAIN list /\ list[i].server = w
  BY DEF PoolInv, OneWorkerPerClient, Position
<1> QED BY <1>1, <1>2, <1>3, KeptInPlace

\* get_client of one worker keeps what was handed to another.
LEMMA GetClientKeeps ==
  ASSUME TypeOK, PoolInv, NEW v \in Workers, GetClient(v), NEW w \in Workers
  PROVE  Kept(w)
<1>1. CASE list' = list
  BY <1>1, KeptInPlace
<1>2. CASE \E n \in HasServer(None) : list' = [list EXCEPT ![n].server = v]
  <2>1. PICK n \in HasServer(None) : list' = [list EXCEPT ![n].server = v]
    BY <1>2
  <2>2. /\ DOMAIN list' = DOMAIN list
        /\ \A i \in DOMAIN list : list'[i].id = list[i].id /\ list'[i].pack = list[i].pack
    BY <2>1, GetClientProperties DEF ListOK, TypeOK
  <2> QED BY <2>2, KeptInPlace DEF Position
<1> QED BY <1>1, <1>2 DEF GetClient, First

\* Every step keeps a packet that its worker was told of.
LEMMA HandedOverStep ==
  ASSUME TypeOK, PoolInv, [Next]_vars, NEW w \in Workers, avb[w]
  PROVE  Kept(w)
<1>1. CASE list' = list
  BY <1>1, KeptInPlace
<1>2. CASE Main
  BY <1>1, <1>2, MainQuiet, InsertKeeps, RemoveKeeps, StoreKeeps DEF Quiet, PostSemaphore
<1>3. ASSUME NEW v \in Workers, Worker(v)
      PROVE  Kept(w)
  BY <1>1, <1>3, WorkerQuiet, GetClientKeeps DEF Quiet, WaitSemaphore
<1>4. ASSUME NEW c \in Clients, Client(c)
      PROVE  Kept(w)
  BY <1>1, <1>4, ClientQuiet DEF Quiet
<1>5. CASE UNCHANGED vars
  BY <1>1, <1>5 DEF vars, listVars
<1> QED BY <1>2, <1>3, <1>4, <1>5 DEF Next

\* main replaces the packet of a node only after mux_free was locked, and then the
\* worker of that node has nothing to take: what it was told of stays until it has
\* used it (server.c:546-548, 777-779).
THEOREM HandedOverCorrect == Spec => HandedOverIsKept
<1>1. TypeOK /\ PoolInv /\ [Next]_vars =>
        [\A w \in Workers : avb[w] /\ avb'[w] /\ recipient'[w] = recipient[w] =>
           \A i \in Position(w) : \A j \in DOMAIN list' :
             list'[j].id = recipient[w] => list'[j].pack = list[i].pack]_vars
  BY HandedOverStep DEF Kept
<1> QED BY <1>1, PoolTypeCorrect, PoolInvCorrect, PTL DEF Spec, HandedOverIsKept
=============================================================================
