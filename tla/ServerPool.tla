----------------------------- MODULE ServerPool -----------------------------
(***************************************************************************)
(* The server's main loop, its list of clients and its pool of workers:    *)
(* connection set-up and tear-down, the choice of a worker for a client,   *)
(* and the hand-over of requests and data from the main thread to the      *)
(* worker through the mutexes mux_free and mux_avb, which are locked by    *)
(* one thread and unlocked by the other.                                   *)
(*                                                                         *)
(* Every client is a process of its own that runs one operation.  A        *)
(* transfer is reduced to what occupies the worker: a GET or a LIST is one *)
(* packet that waits in the window for its ACK, and the end packet, a PUT  *)
(* is one chunk.  GetTransfer has the transfers themselves.                *)
(*                                                                         *)
(* A sequence number starts at a random value, so a packet or an ACK of    *)
(* one client that gets to the worker of another carries any number.  It   *)
(* is taken never to be the very number that the worker expects of a PUT.  *)
(* The memory of a freed node is not given to a new one.                   *)
(***************************************************************************)
EXTENDS Integers, Sequences, SequencesExt, FiniteSets

CONSTANTS Clients,      \* addresses: one socket for every operation
          Getters,      \* the clients that may ask for a GET,
          Listers,      \* for a LIST,
          Putters,      \* and for a PUT
          Workers,      \* the thread pool
          FirstWorker,  \* worker 0
          None,         \* -1, or what no worker's index is
          Null,         \* no packet
          Cap           \* datagrams the server's socket holds

ASSUME PoolAssumption ==
  /\ Getters \cup Listers \cup Putters = Clients
  /\ FirstWorker \in Workers
  /\ IsFiniteSet(Workers) /\ None \notin Workers
  /\ Cap \in Nat \ {0}

VARIABLES main,       \* control state of the main thread
          addr,       \* cliaddr
          thread,     \* thread, the worker chosen by the last dispatch_client
          packet,     \* pk_rcv, when main waits for mux_free
          mainTimer,  \* main_timerid is running
          inserted,   \* number of client nodes created
          list,       \* the client list
          sem,        \* sem_client
          worker,     \* control state of every worker
          recipient,  \* recipient of every worker: the node's number
          peer,       \* addr of every worker, its copy of the node's address
          free,       \* mux_free[w] is unlocked
          avb,        \* mux_avb[w] is unlocked
          window,     \* the packet in wnd[w]; "unset": usable_wnd[w] is still 0
          timer,      \* timerid[w] is running
          crashed,    \* the server has come to undefined behaviour
          operation,  \* what every client asks for
          client,     \* control state of every client
          resend,     \* what the client's timer resends; Null: it is off
          mail,       \* the kinds of datagrams each client can receive
          inbox       \* datagrams in the server's socket

mainVars   == <<main, addr, thread, packet, mainTimer>>
listVars   == <<inserted, list, sem>>
workerVars == <<worker, recipient, peer>>
muxVars    == <<free, avb>>
rtxVars    == <<window, timer>>
clientVars == <<operation, client, resend>>
vars == <<mainVars, listVars, workerVars, muxVars, rtxVars, crashed, clientVars,
          mail, inbox>>

MayAsk == [get |-> Getters, list |-> Listers, put |-> Putters]
Operations == DOMAIN MayAsk

\* What a DATA packet carries: a request, a chunk of a PUT, zeroes, or what the
\* server itself has sent (see Overwrite).  An ACK carries the number of the first
\* packet of a transfer, or of the next one.
Payloads == Operations \cup {"chunk", "zeroes", "other"}
Messages == [from : Clients, type : {"SYN", "FIN"}, data : {"none"}]
              \cup [from : Clients, type : {"ACK"}, data : {"first", "next"}]
              \cup [from : Clients, type : {"DATA"}, data : Payloads]
Packets == [type : {"FIN"}, data : {"none"}] \cup [type : {"DATA"}, data : Payloads]
Replies  == {"SYNACK", "FINACK", "ack", "first", "end", "received"}
Windows  == {"unset", "none", "first", "end"}

Nodes == [id : Nat, addr : Clients,
          server : Workers \cup {None}, pack : Messages \cup {Null}]

MainStates   == {"recv", "handshake", "insert", "post", "store", "demolition"}
WorkerStates == {"waiting", "acquire", "request", "get", "getWait", "getEnd",
                 "list", "listWait", "put", "putWait"}
ClientStates == {"off", "syn", "connected", "request", "transfer", "received",
                 "sent", "done", "fin", "closed"}

Init ==
  /\ main = "recv" /\ addr \in Clients /\ packet = Null /\ mainTimer = FALSE
  /\ thread \in Workers \cup {None}              \* never initialised
  /\ inserted = 0 /\ list = << >> /\ sem = 0
  /\ worker = [w \in Workers |-> "waiting"]
  /\ recipient = [w \in Workers |-> 0]
  /\ peer = [w \in Workers |-> None]
  /\ free = [w \in Workers |-> TRUE]
  /\ avb = [w \in Workers |-> FALSE]
  /\ window = [w \in Workers |-> "unset"]
  /\ timer = [w \in Workers |-> FALSE]
  /\ crashed = FALSE
  /\ operation \in {f \in [Clients -> Operations] : \A c \in Clients : c \in MayAsk[f[c]]}
  /\ client = [c \in Clients |-> "off"]
  /\ resend = [c \in Clients |-> Null]
  /\ mail = [c \in Clients |-> {}]
  /\ inbox = << >>

----------------------------------------------------------------------------
(***************************************************************************)
(* The network and the list (clients.c, packet.c).                         *)
(***************************************************************************)

\* A client sends to the server; the datagram may be lost.
Send(c, type, data) ==
  \/ inbox' = inbox
  \/ /\ Len(inbox) < Cap
     /\ inbox' = Append(inbox, [from |-> c, type |-> type, data |-> data])

\* The server sends to the address a; any of it may be lost.
Reply(a, kinds) ==
  \E arrives \in SUBSET kinds : mail' = [mail EXCEPT ![a] = @ \cup arrives]

\* The nodes that the loops of clients.c and packet.c find: the first in the
\* list with the address, or with the worker.  First is the set of the one there is.
First(S) == {i \in S : \A j \in S : i <= j}
HasAddress(a) == {i \in DOMAIN list : list[i].addr = a}
HasServer(w)  == {i \in DOMAIN list : list[i].server = w}

\* dispatch_client leaves thread alone when it does not find the address.
DispatchClient(a) ==
  IF HasAddress(a) = {} THEN {thread}
                        ELSE {list[i].server : i \in First(HasAddress(a))}

\* A packet numbered 0 goes to rtx_pack, which is left out: the zeroes always,
\* a request if its random number is 0, any packet if the number that it is
\* compared with is read in front of the array.
UpdatePacket(w, p) ==
  LET Put == IF HasServer(w) = {} THEN {list}
             ELSE {[list EXCEPT ![i].pack = p] : i \in First(HasServer(w))}
  IN IF p.data = "zeroes" THEN {list}
     ELSE IF p.data \in {"chunk", "other"} /\ w \in Workers THEN Put
     ELSE Put \cup {list}

RemoveClient(a) ==
  IF HasAddress(a) = {} THEN {list}
                        ELSE {RemoveAt(list, i) : i \in First(HasAddress(a))}

\* The position of a worker's recipient; empty if the node was freed.
Position(w) == {i \in DOMAIN list : list[i].id = recipient[w]}
Node(w) == list[CHOOSE i \in Position(w) : TRUE]

\* retransmission sends the base of a window to the first client of the worker,
\* or to an address that was never set.
Resend(w) ==
  IF HasServer(w) = {} THEN UNCHANGED mail
  ELSE \E i \in First(HasServer(w)) : Reply(list[i].addr, {window[w]})

----------------------------------------------------------------------------
(***************************************************************************)
(* The main thread.                                                        *)
(***************************************************************************)

\* Receive takes the oldest datagram and overwrites cliaddr with its sender.
Receive(state, type) ==
  /\ main = state /\ inbox # << >> /\ Head(inbox).type \in type
  /\ addr' = Head(inbox).from
  /\ inbox' = Tail(inbox)

\* handshake: answer a SYN and start the timer of the main thread.
Handshake ==
  /\ Receive("recv", {"SYN"})
  /\ Reply(addr', {"SYNACK"})
  /\ mainTimer' = TRUE
  /\ main' = "handshake"
  /\ UNCHANGED <<thread, packet, listVars, workerVars, muxVars, rtxVars, crashed,
                 clientVars>>

\* Whatever comes next ends the handshake, whoever sent it.
HandshakeEnds ==
  /\ Receive("handshake", {"SYN", "ACK", "FIN", "DATA"})
  /\ IF Head(inbox).type = "ACK"
     THEN main' = "insert" /\ mainTimer' = FALSE
     ELSE main' = "recv" /\ UNCHANGED mainTimer
  /\ UNCHANGED <<thread, packet, listVars, workerVars, muxVars, rtxVars, crashed,
                 clientVars, mail>>

\* The new node's packet is pk_hds, which handshake was given by value: NULL.
InsertClient ==
  /\ main = "insert"
  /\ list' = Append(list, [id |-> inserted + 1, addr |-> addr, server |-> None,
                           pack |-> Null])
  /\ inserted' = inserted + 1
  /\ main' = "post"
  /\ UNCHANGED <<addr, thread, packet, mainTimer, sem, workerVars, muxVars, rtxVars,
                 crashed, clientVars, mail, inbox>>

PostNothing ==                                                        \* faulty
  /\ main = "post"
  /\ main' = "recv"
  /\ UNCHANGED <<addr, thread, packet, mainTimer, listVars, workerVars, muxVars, rtxVars,
                 crashed, clientVars, mail, inbox>>

PostSemaphore ==
  /\ main = "post"
  /\ sem' = sem + 1
  /\ main' = "recv"
  /\ UNCHANGED <<addr, thread, packet, mainTimer, inserted, list, workerVars, muxVars,
                 rtxVars, crashed, clientVars, mail, inbox>>

\* incoming_ack discards the packet in the window of worker w unless the ACK has
\* its number: the next one, or an old one, which is not found in the window.
Number(kind) == IF kind = "first" THEN "first" ELSE "next"
Discards(w, p) ==
  IF w = None \/ window[w] \in {"unset", "none"} THEN {FALSE}
  ELSE IF peer[w] = p.from THEN {p.data # Number(window[w])} ELSE BOOLEAN

\* The duplicates are counted in the head of the list, for all clients together,
\* in memory that was never set: any ACK may be the third.
FastRetransmissions(w) ==
  IF w = None \/ window[w] \in {"unset", "none"} THEN {FALSE} ELSE BOOLEAN

\* It reads the head of the list, and the window, without looking whether there
\* is one; a third duplicate resends the base of what may be an empty window.
AckCrashes(w) ==
  IF list = << >> \/ (w \in Workers /\ window[w] = "unset") THEN {TRUE}
  ELSE IF w = None \/ window[w] = "none" THEN BOOLEAN ELSE {FALSE}

ReceiveAck ==
  /\ Receive("recv", {"ACK"})
  /\ thread' \in DispatchClient(addr')
  /\ crashed' \in AckCrashes(thread')
  /\ \E fast \in FastRetransmissions(thread'), discards \in Discards(thread', Head(inbox)) :
       /\ IF fast THEN Resend(thread') ELSE UNCHANGED mail
       /\ window' = [w \in Workers |-> IF discards /\ w = thread' THEN "none"
                                                                 ELSE window[w]]
       /\ timer' = [w \in Workers |-> IF w = thread' THEN (timer[w] \/ fast) /\ ~discards
                                                     ELSE timer[w]]
  /\ UNCHANGED <<main, packet, mainTimer, listVars, workerVars, muxVars, clientVars>>

\* demolition: answer a FIN and start the timer of the dispatched worker.
Demolition ==
  /\ Receive("recv", {"FIN"})
  /\ thread' \in DispatchClient(addr')
  /\ Reply(addr', {"FINACK"})
  /\ timer' = [w \in Workers |-> timer[w] \/ w = thread']
  /\ main' = "demolition"
  /\ UNCHANGED <<packet, mainTimer, listVars, workerVars, muxVars, window, crashed,
                 clientVars>>

\* Whatever comes next ends it; an ACK removes the client that sent the ACK.
DemolitionEnds ==
  /\ Receive("demolition", {"SYN", "ACK", "FIN", "DATA"})
  /\ IF Head(inbox).type = "ACK"
     THEN /\ list' \in RemoveClient(addr')
          /\ timer' = [w \in Workers |-> timer[w] /\ w # thread]
     ELSE UNCHANGED <<list, timer>>
  /\ main' = "recv"
  /\ UNCHANGED <<thread, packet, mainTimer, inserted, sem, workerVars, muxVars, window,
                 crashed, clientVars, mail>>

ReceiveData ==
  /\ Receive("recv", {"DATA"})
  /\ thread' \in DispatchClient(addr')
  /\ packet' = Head(inbox)
  /\ main' = "store"
  /\ UNCHANGED <<mainTimer, listVars, workerVars, muxVars, rtxVars, crashed,
                 clientVars, mail>>

StoreAtOnce ==                                                        \* faulty
  /\ main = "store"
  /\ free' = [w \in Workers |-> free[w] /\ w # thread]
  /\ avb' = [w \in Workers |-> avb[w] \/ w = thread]
  /\ list' \in UpdatePacket(thread, packet)
  /\ packet' = Null
  /\ main' = "recv"
  /\ UNCHANGED <<addr, thread, mainTimer, inserted, sem, workerVars, rtxVars, crashed,
                 clientVars, mail, inbox>>

\* Wait for mux_free[thread], put the packet into the worker's node and unlock
\* mux_avb[thread].  With an index of no worker the mutexes are other memory:
\* the packet may end in the first node without a worker, and no one is told.
Store ==
  /\ main = "store"
  /\ thread \in Workers => free[thread]
  /\ free' = [w \in Workers |-> free[w] /\ w # thread]
  /\ avb' = [w \in Workers |-> avb[w] \/ w = thread]
  /\ list' \in UpdatePacket(thread, packet)
  /\ packet' = Null
  /\ main' = "recv"
  /\ UNCHANGED <<addr, thread, mainTimer, inserted, sem, workerVars, rtxVars, crashed,
                 clientVars, mail, inbox>>

\* Indexing the arrays of the workers with an index of no worker may end it.
BadIndex ==
  /\ main \in {"store", "demolition"} /\ thread = None
  /\ crashed' = TRUE
  /\ UNCHANGED <<mainVars, listVars, workerVars, muxVars, rtxVars, clientVars, mail,
                 inbox>>

\* The timers.  The handler takes the main thread's for the one of worker 0.
TimerExpires(w) ==
  /\ IF window[w] \in {"unset", "none"}
     THEN crashed' = TRUE /\ UNCHANGED <<timer, mail>>
     ELSE /\ UNCHANGED crashed
          /\ Resend(w)
          /\ \E on \in IF HasServer(w) = {} THEN BOOLEAN ELSE {TRUE} :
               timer' = [timer EXCEPT ![w] = on]
  /\ UNCHANGED <<main, addr, thread, packet, listVars, workerVars, muxVars, window,
                 clientVars, inbox>>

WorkerTimeout(w) == timer[w] /\ TimerExpires(w) /\ UNCHANGED mainTimer
MainTimeout == mainTimer /\ mainTimer' = FALSE /\ TimerExpires(FirstWorker)

Main ==
  \/ Handshake \/ HandshakeEnds \/ InsertClient \/ PostSemaphore
  \/ ReceiveAck \/ Demolition \/ DemolitionEnds \/ ReceiveData \/ Store
  \/ BadIndex \/ MainTimeout

----------------------------------------------------------------------------
(***************************************************************************)
(* The workers: thread_service, and what response_get and response_put do  *)
(* with the mutexes and the window.                                        *)
(***************************************************************************)

GoTo(w, from, to) ==
  /\ worker[w] = from
  /\ worker' = [worker EXCEPT ![w] = to]

TrySemaphore(w) ==                                                    \* faulty
  /\ sem' = sem - 1
  /\ GoTo(w, "waiting", "acquire")
  /\ UNCHANGED <<mainVars, inserted, list, recipient, peer, muxVars, rtxVars, crashed,
                 clientVars, mail, inbox>>

WaitSemaphore(w) ==
  /\ sem > 0
  /\ sem' = sem - 1
  /\ GoTo(w, "waiting", "acquire")
  /\ UNCHANGED <<mainVars, inserted, list, recipient, peer, muxVars, rtxVars, crashed,
                 clientVars, mail, inbox>>

GetSameClient(w) ==                                                   \* faulty
  /\ \E i \in First(HasServer(None)) :
       recipient' = [recipient EXCEPT ![w] = list[i].id]
  /\ GoTo(w, "acquire", "request")
  /\ UNCHANGED <<mainVars, listVars, peer, muxVars, rtxVars, crashed, clientVars, mail,
                 inbox>>

\* get_client: the first node that has no worker yet.  If there is none,
\* recipient keeps its value, which is no node the worker may touch.
GetClient(w) ==
  /\ IF HasServer(None) = {}
     THEN crashed' \in BOOLEAN /\ UNCHANGED <<list, recipient>>
     ELSE \E i \in First(HasServer(None)) :
          /\ list' = [list EXCEPT ![i].server = w]
          /\ recipient' = [recipient EXCEPT ![w] = list[i].id]
          /\ UNCHANGED crashed
  /\ GoTo(w, "acquire", "request")
  /\ UNCHANGED <<mainVars, inserted, sem, peer, muxVars, rtxVars, clientVars, mail,
                 inbox>>

TryPacket(w) ==                                                       \* faulty
  /\ free' = [free EXCEPT ![w] = TRUE]
  /\ UNCHANGED <<mainVars, listVars, recipient, peer, avb, rtxVars, clientVars, inbox>>

\* Wait for mux_avb[w], use the packet of the recipient, unlock mux_free[w].
TakePacket(w) ==
  /\ avb[w]
  /\ avb' = [avb EXCEPT ![w] = FALSE]
  /\ free' = [free EXCEPT ![w] = TRUE]
  /\ UNCHANGED <<mainVars, listVars, recipient, peer, rtxVars, clientVars, inbox>>

\* The packet of the recipient; Null too if the node was freed.
Pack(w) == IF Position(w) = {} THEN Null ELSE Node(w).pack

\* The request: without a packet strtok is given NULL.  What is no request is
\* dropped, and the worker waits for the next client.
ReadRequest(w) ==
  /\ TakePacket(w)
  /\ IF Pack(w) = Null
     THEN crashed' = TRUE /\ GoTo(w, "request", "waiting")
     ELSE /\ UNCHANGED crashed
          /\ GoTo(w, "request", IF Pack(w).data \in Operations THEN Pack(w).data
                                                             ELSE "waiting")
  /\ UNCHANGED mail

\* The operation copies cli_info->addr, of a node that may be freed by now, and
\* sends there from then on.
ReplyTo(a, kinds) == IF a = None THEN UNCHANGED mail ELSE Reply(a, kinds)

Serve(w, kinds) ==
  /\ IF Position(w) = {} THEN /\ crashed' \in BOOLEAN
                              /\ peer' = [peer EXCEPT ![w] = None]
                         ELSE /\ UNCHANGED crashed
                              /\ peer' = [peer EXCEPT ![w] = Node(w).addr]
  /\ ReplyTo(peer'[w], kinds)
  /\ UNCHANGED <<mainVars, listVars, recipient, muxVars, clientVars, inbox>>

ServeReply(w) ==
  /\ GoTo(w, "get", "getWait") \/ GoTo(w, "list", "listWait")
  /\ Serve(w, {"ack", "first"})
  /\ window' = [window EXCEPT ![w] = "first"]
  /\ timer' = [timer EXCEPT ![w] = TRUE]

\* The first packet was acknowledged.  The end packet of a GET enters the window, and
\* no timer is armed; that of a LIST does not, and the worker is free again.
ServeEnd(w) ==
  /\ window[w] = "none"
  /\ \/ /\ GoTo(w, "getWait", "getEnd")
        /\ window' = [window EXCEPT ![w] = "end"]
     \/ GoTo(w, "listWait", "waiting") /\ UNCHANGED window
  /\ ReplyTo(peer[w], {"end"})
  /\ UNCHANGED <<mainVars, listVars, recipient, peer, muxVars, timer, crashed, clientVars,
                 inbox>>

EndAcked(w) ==
  /\ window[w] = "none"
  /\ GoTo(w, "getEnd", "waiting")
  /\ UNCHANGED <<mainVars, listVars, recipient, peer, muxVars, rtxVars, crashed, clientVars,
                 mail, inbox>>

ServePut(w) ==
  /\ GoTo(w, "put", "putWait")
  /\ Serve(w, {"ack"})
  /\ UNCHANGED rtxVars

\* A chunk of the client itself carries the expected number and ends the PUT.
\* Any other packet changes nothing, and is not answered before the size came.
PutChunk(w) ==
  /\ TakePacket(w)
  /\ IF Pack(w) = Null
     THEN crashed' \in BOOLEAN /\ GoTo(w, "putWait", "putWait") /\ UNCHANGED mail
     ELSE /\ UNCHANGED crashed
          /\ IF Pack(w).data = "chunk" /\ Pack(w).from = peer[w]
             THEN GoTo(w, "putWait", "waiting") /\ ReplyTo(peer[w], {"received"})
             ELSE GoTo(w, "putWait", "putWait") /\ UNCHANGED mail

Worker(w) ==
  \/ WaitSemaphore(w) \/ GetClient(w) \/ ReadRequest(w)
  \/ ServeReply(w) \/ ServeEnd(w) \/ EndAcked(w) \/ ServePut(w) \/ PutChunk(w)
  \/ WorkerTimeout(w)

----------------------------------------------------------------------------
(***************************************************************************)
(* The clients: thread_function, handshake, demolition.  The timer of a    *)
(* client resends one packet once, the one that base points to.            *)
(***************************************************************************)

Packet(type, data) == [type |-> type, data |-> data]

\* The client goes on and sends a packet; base is what its timer, if it is armed,
\* will resend.
Step(c, from, to, p, base) ==
  /\ client[c] = from
  /\ client' = [client EXCEPT ![c] = to]
  /\ resend' = [resend EXCEPT ![c] = base]
  /\ Send(c, p.type, p.data)
  /\ UNCHANGED <<mainVars, listVars, workerVars, muxVars, rtxVars, crashed, operation>>

Goes(c, from, to) ==
  /\ client[c] = from
  /\ client' = [client EXCEPT ![c] = to]
  /\ resend' = [resend EXCEPT ![c] = Null]
  /\ UNCHANGED <<mainVars, listVars, workerVars, muxVars, rtxVars, crashed, operation,
                 inbox>>

SendAndArm(c, from, to, p) == Step(c, from, to, p, p)

\* It waits for a datagram of the kind; others it throws away.
Await(c, kind) ==
  /\ kind \in mail[c]
  /\ mail' = [mail EXCEPT ![c] = @ \ {kind}]

\* base still is the zeroed packet of insert_base while the handshake runs.
Connect(c) ==
  /\ Step(c, "off", "syn", Packet("SYN", "none"), Packet("DATA", "zeroes"))
  /\ UNCHANGED mail

Connected(c) ==
  Step(c, "syn", "connected", Packet("ACK", "first"), Null) /\ Await(c, "SYNACK")

SendRequest(c) ==
  /\ SendAndArm(c, "connected", "request", Packet("DATA", operation[c]))
  /\ UNCHANGED mail

\* A PUT sends its chunk; the others wait for what they asked for.
Accepted(c) ==
  /\ Await(c, "ack")
  /\ IF operation[c] = "put"
     THEN SendAndArm(c, "request", "sent", Packet("DATA", "chunk"))
     ELSE Goes(c, "request", "transfer")

\* Every packet is acknowledged, as often as it comes, and the end packet if it
\* comes too early; on the end packet the client leaves without an ACK.
Received(c) ==
  \/ /\ \E state \in {"transfer", "received"} :
          Step(c, state, "received", Packet("ACK", "next"), Null)
     /\ Await(c, "first")
  \/ /\ Step(c, "transfer", "transfer", Packet("ACK", "first"), Null)
     /\ Await(c, "end")

Downloaded(c) == Goes(c, "received", "done") /\ Await(c, "end")
Uploaded(c)   == Goes(c, "sent", "done") /\ Await(c, "received")

Close(c) ==
  SendAndArm(c, "done", "fin", Packet("FIN", "none")) /\ UNCHANGED mail

Closed(c) ==
  Step(c, "fin", "closed", Packet("ACK", "first"), Null) /\ Await(c, "FINACK")

\* The packet at base is also the one that datagrams are received into: what comes
\* before the ACK of the request, or before the FINACK, is resent instead.
Overwrite(c) ==
  /\ client[c] \in {"request", "fin"}
  /\ \E kind \in {"first", "end"} : Await(c, kind)
  /\ resend' = [resend EXCEPT ![c] = IF @ = Null THEN Null ELSE Packet("DATA", "other")]
  /\ UNCHANGED <<mainVars, listVars, workerVars, muxVars, rtxVars, crashed, operation,
                 client, inbox>>

ClientTimeout(c) ==
  /\ resend[c] # Null
  /\ Step(c, client[c], client[c], resend[c], Null)
  /\ UNCHANGED mail

Client(c) ==
  \/ Connect(c) \/ Connected(c) \/ SendRequest(c) \/ Accepted(c) \/ Received(c)
  \/ Uploaded(c) \/ Downloaded(c) \/ Close(c) \/ Closed(c) \/ Overwrite(c)
  \/ ClientTimeout(c)

----------------------------------------------------------------------------
\* Nothing is followed beyond a crash of the server.
Next ==
  /\ ~crashed
  /\ \/ Main
     \/ \E w \in Workers : Worker(w)
     \/ \E c \in Clients : Client(c)

Spec == Init /\ [][Next]_vars

----------------------------------------------------------------------------
(***************************************************************************)
(* Properties.                                                             *)
(***************************************************************************)

TypeOK ==
  /\ main \in MainStates /\ addr \in Clients
  /\ thread \in Workers \cup {None}
  /\ packet \in Messages \cup {Null} /\ mainTimer \in BOOLEAN
  /\ inserted \in Nat /\ list \in Seq(Nodes) /\ sem \in Nat
  /\ worker \in [Workers -> WorkerStates]
  /\ recipient \in [Workers -> 0..inserted]
  /\ peer \in [Workers -> Clients \cup {None}]
  /\ free \in [Workers -> BOOLEAN] /\ avb \in [Workers -> BOOLEAN]
  /\ window \in [Workers -> Windows] /\ timer \in [Workers -> BOOLEAN]
  /\ crashed \in BOOLEAN
  /\ operation \in [Clients -> Operations] /\ client \in [Clients -> ClientStates]
  /\ resend \in [Clients -> Packets \cup {Null}]
  /\ mail \in [Clients -> SUBSET Replies]
  /\ inbox \in Seq(Messages) /\ Len(inbox) <= Cap

\* get_client, under list_mux, never gives a client to two workers, and a client
\* keeps its worker: the node that a worker uses is marked with this worker, as
\* long as it is in the list (clients.c:65-75, server.c:541).
OneWorkerPerClient ==
  \A w \in Workers :
    /\ \A i \in Position(w) : list[i].server = w
    /\ \A v \in Workers : recipient[v] = recipient[w] => v = w \/ recipient[w] = 0

\* Every client without a worker has a permit of sem_client, one that no worker
\* has taken, or one of a worker on its way to get_client, or the one that main
\* is about to add: no client is forgotten (server.c:530-543, 735-746).
Unserved == {list[i].id : i \in HasServer(None)}
Acquiring == {w \in Workers : worker[w] = "acquire"}

PermitForEveryClient ==
  Cardinality(Unserved) <=
    sem + Cardinality(Acquiring) + (IF main = "post" THEN 1 ELSE 0)

\* The inductive invariant: the nodes are numbered as they were created, no two
\* alike, and a worker's mutexes are not both open.
NodesNumbered ==
  /\ \A i \in DOMAIN list : list[i].id \in 1..inserted
  /\ \A i, j \in DOMAIN list : list[i].id = list[j].id => i = j
OnePacketAtATime == \A w \in Workers : ~(free[w] /\ avb[w])

PoolInv == NodesNumbered /\ OneWorkerPerClient /\ OnePacketAtATime

\* mux_free and mux_avb, each locked by one thread and unlocked by the other:
\* once a worker was told of a packet, the packet in its client's node is not
\* replaced before the worker has used it (server.c:546-548, 777-779).
HandedOverIsKept ==
  [][\A w \in Workers : avb[w] /\ avb'[w] /\ recipient'[w] = recipient[w] =>
       \A i \in Position(w) : \A j \in DOMAIN list' :
         list'[j].id = recipient[w] => list'[j].pack = list[i].pack]_vars

----------------------------------------------------------------------------
(***************************************************************************)
(* Statements of the code's comments that the code does not keep.          *)
(***************************************************************************)

\* clients.c:110 "dispatch new messages from the clients to the right server
\* thread": a packet that main has dispatched to a worker and that a worker's
\* client has in its node comes from this client.
RightWorker ==
  \A i \in DOMAIN list :
    list[i].server # None /\ list[i].pack # Null => list[i].pack.from = list[i].addr
=============================================================================
