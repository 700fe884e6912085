------------------------------ MODULE Downloads ------------------------------
(***************************************************************************)
(* The two downloads: the GET of GetTransfer and the LIST, which shares    *)
(* with it the window, the timer, the ACK branch of the main loop and what *)
(* the client does with a packet.  In a LIST the chunks are the names of   *)
(* the files.  There is no size packet and no ERROR; the last packet is    *)
(* empty if the names filled the one before exactly, or if there are none; *)
(* the end packet is sent when everything was acknowledged and is not put  *)
(* into the window.                                                        *)
(***************************************************************************)
EXTENDS GetInvariant

VARIABLES listing,    \* the operation is a LIST
          emptyLast   \* the last packet of the names is empty

choices == <<listing, emptyLast>>
downloadVars == <<vars, choices>>

DownloadInit ==
  /\ Init
  /\ listing \in BOOLEAN /\ (listing => ~missing)
  /\ emptyLast \in BOOLEAN
  /\ emptyLast => listing
  /\ listing /\ N = 0 => emptyLast

----------------------------------------------------------------------------
\* The worker: response_list.  The first packet of the names is number 1.

ListAccept(lost) ==
  /\ pc = "open"
  /\ toClient' = Transmit(toClient, [type |-> "ACK", n |-> 0], lost)
  /\ next' = 1
  /\ pc' = "read"
  /\ UNCHANGED <<missing, wnd, timerVars, ackVars, crashed, clientVars, toServer>>

ListLast == IF emptyLast THEN N + 1 ELSE N

\* There are more names: wait for room.
ListNotFull == next <= ListLast /\ WaitUntil("full", Len(wnd) < WND, "read")

\* There are none: wait until every packet was acknowledged.
ListAllAckedAtOnce == next > ListLast /\ WaitUntil("full", TRUE, "eof") \* faulty
ListAllAcked == next > ListLast /\ WaitUntil("full", wnd = << >>, "eof")

ListEnd(lost) == SendNext("eof", "returned", lost)

ListWorker(lost) ==
  \/ ListAccept(lost) \/ SendData(lost) \/ PutData \/ CheckWindow \/ ArmData
  \/ ListNotFull \/ ListAllAcked \/ ListEnd(lost)

----------------------------------------------------------------------------
\* The client: request_list does with the packets what request_get does.

ListAnswer(m) ==
  /\ client = "request"
  /\ IF m.type = "ACK" THEN client' = "data" /\ rcvNext' = 1
                       ELSE UNCHANGED <<client, rcvNext>>
  /\ UNCHANGED <<buff, writes, toServer>>

ListReceive(lost) ==
  \E i \in Deliverable(toClient) :
  /\ \/ ListAnswer(toClient[i])
     \/ ClientEnd(toClient[i], lost)
     \/ ClientInOrder(toClient[i], lost)
     \/ ClientOutOfOrder(toClient[i], lost)
     \/ ClientDuplicate(toClient[i], lost)
  /\ toClient' = RemoveAt(toClient, i)
  /\ UNCHANGED <<workerVars, wnd, timerVars, ackVars, crashed>>

----------------------------------------------------------------------------
DownloadWorker(lost) ==
  IF listing THEN ListWorker(lost) ELSE Worker(lost)

DownloadReceive(lost) ==
  IF listing THEN ListReceive(lost) ELSE ClientReceive(lost)

DownloadServer(lost) ==
  /\ ~crashed
  /\ DownloadWorker(lost) \/ IncomingAck(lost) \/ Resend(lost)

DownloadStep ==
  \/ \E lost \in BOOLEAN : DownloadServer(lost) \/ DownloadReceive(lost)
  \/ ~crashed /\ (Expire \/ FetchBase \/ ResendFails \/ GiveUp)
  \/ ClientFails

DownloadNext == DownloadStep /\ UNCHANGED choices

----------------------------------------------------------------------------
\* The fairness of GetTransfer, for both operations.
DownloadAckArrives == DownloadReceive(FALSE) /\ Len(toServer) < Cap

DownloadFairness ==
  /\ WF_downloadVars(\E lost \in BOOLEAN : ~crashed /\ DownloadWorker(lost) /\ UNCHANGED choices)
  /\ WF_downloadVars(\E lost \in BOOLEAN : ~crashed /\ IncomingAck(lost) /\ UNCHANGED choices)
  /\ WF_downloadVars(~crashed /\ (Expire \/ FetchBase) /\ UNCHANGED choices)
  /\ WF_downloadVars(\E lost \in BOOLEAN : ~crashed /\ Resend(lost) /\ UNCHANGED choices)
  /\ WF_downloadVars(\E lost \in BOOLEAN : DownloadReceive(lost) /\ UNCHANGED choices)
  /\ SF_downloadVars(ResendArrives /\ UNCHANGED choices)
  /\ SF_downloadVars(DownloadAckArrives /\ UNCHANGED choices)

DownloadSpec == DownloadInit /\ [][DownloadNext]_downloadVars /\ DownloadFairness

----------------------------------------------------------------------------
(***************************************************************************)
(* Properties; FileArrives of GetTransfer is stated for both operations.   *)
(***************************************************************************)

\* When the client reports that the transmission was completed, or the worker is
\* free for the next client, the client has received everything (client.c:185, 332,
\* server.c:177, 345).
EndedIsReceived ==
  client = "done" \/ (pc = "returned" /\ ~missing) => rcvNext = N + 1

\* The worker of a LIST becomes free again, unless its last packet of names is empty:
\* the client takes that for the end and does not acknowledge it.
ListEnds ==
  listing /\ ~emptyLast /\ client = "data" ~> (pc = "returned" \/ crashed)

----------------------------------------------------------------------------
(***************************************************************************)
(* The inductive invariant behind EndedIsReceived; the proofs are in       *)
(* GetTransferProofs.  A LIST has no Eof, so nothing is said of the        *)
(* largest packet.  The client of a LIST that waits for the answer expects *)
(* number 0, though the first packet is number 1: there is no ACK before   *)
(* the answer has come.                                                    *)
(***************************************************************************)
Datagrams == [type : MessageTypes, n : Nat]

DownloadNumbers ==
  /\ next \in Nat /\ rtx \in Nat
  /\ pc \in {"firstPut", "put", "eofPut"} => next # 0
  /\ wnd \in Seq(Nat) /\ buff \in Seq(Nat)
  /\ rcvNext \in AckNums /\ toServer \in Seq(AckNums)
  /\ toClient \in Seq(Datagrams)

DownloadAcks ==
  IF listing /\ client = "request"
  THEN rcvNext = 0 /\ toServer = << >> /\ Base <= 1
  ELSE AckInv

DownloadControl ==
  /\ pc = "open" =>
       /\ next = 0 /\ wnd = << >> /\ client = "request"
       /\ toClient = << >> /\ toServer = << >>
       /\ handler = "idle" /\ ~armed
  /\ pc \in {"eof", "eofPut", "eofWait"} => next > N
  /\ listing /\ pc = "eof" => wnd = << >> /\ rcvNext = N + 1
  /\ listing /\ N = 0 => emptyLast

DownloadInv ==
  /\ DownloadNumbers /\ WindowInv /\ DownloadAcks /\ DownloadControl
  /\ EndedIsReceived
=============================================================================
