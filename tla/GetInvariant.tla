---------------------------- MODULE GetInvariant ----------------------------
(***************************************************************************)
(* The inductive invariants behind the properties of GetTransfer.  The     *)
(* proofs are in GetTransferProofs.                                        *)
(***************************************************************************)
EXTENDS GetTransfer

(***************************************************************************)
(* What each control state of response_get knows of next and the window.   *)
(***************************************************************************)
Control ==
  /\ pc \in {"open", "size"} => next = 0 /\ wnd = << >>
  /\ pc = "firstPut" => next = 1 /\ wnd = << >>
  /\ pc \in {"firstArm", "firstWait"} => next = 1
  /\ pc = "read" => next \in 1..LoopLast /\ Len(wnd) < WND
  /\ pc = "put" => next \in 2..(LoopLast + 1) /\ Len(wnd) < WND
  /\ pc \in {"check", "arm", "full"} => next \in 2..(LoopLast + 1)
  /\ pc = "eof" => next = Eof /\ Len(wnd) < WND
  /\ pc = "eofPut" => next = Eof + 1 /\ Len(wnd) < WND

\* The packets before PutDone were put in the window, and what is there is one
\* of them: a packet is sent before the worker takes wnd_lock to put it there.
PutDone    == IF pc \in {"firstPut", "put", "eofPut"} THEN next - 1 ELSE next
WindowSent == \A i \in DOMAIN wnd : wnd[i] < PutDone

TypeInv == TypeOK /\ Control /\ WindowSent

(***************************************************************************)
(* Before the size packet the client has written nothing; from then on     *)
(* rcv_next counts what it has written.                                    *)
(***************************************************************************)
WriteInv ==
  /\ client \in {"request", "size"} =>
       rcvNext = 0 /\ writes = << >> /\ buff = << >>
  /\ WrittenIsAcked

(***************************************************************************)
(* The channels keep the order.  The window holds the packets from Base to *)
(* the last one put into it; every ACK on its way is between Base and      *)
(* rcv_next and they do not decrease; a packet ahead of rcv_next, on its   *)
(* way to the client or buffered there, is ahead of all such packets sent  *)
(* before it; what the signal handler resends is not ahead of rcv_next.    *)
(***************************************************************************)
Base == PutDone - Len(wnd)

WindowInv ==
  /\ Len(wnd) <= PutDone
  /\ \A i \in DOMAIN wnd : wnd[i] = Base + i - 1

AckInv ==
  /\ SeqNum(Base) <= rcvNext
  /\ \A i \in DOMAIN toServer :
       SeqNum(Base) <= toServer[i] /\ toServer[i] <= rcvNext
  /\ \A i, j \in DOMAIN toServer : i < j => toServer[i] <= toServer[j]

Ahead(p) == SeqNum(p) > rcvNext

DataInv ==
  /\ \A k \in DOMAIN toClient : toClient[k].n < next \/ toClient[k].n = 0
  /\ \A k \in DOMAIN toClient : Ahead(toClient[k].n) =>
       /\ \A i \in DOMAIN buff : buff[i] < toClient[k].n
       /\ \A j \in DOMAIN toClient : j < k => toClient[j].n < toClient[k].n
  /\ handler = "sending" => ~Ahead(rtx) /\ rtx < next

BufferInv ==
  /\ client # "corrupt"
  /\ \A i \in DOMAIN buff : Ahead(buff[i]) /\ buff[i] < next
  /\ Increasing(buff)

FifoInv == WindowInv /\ AckInv /\ DataInv /\ BufferInv

\* All the invariants at once, on a network that keeps the order.
GetInv == TypeInv /\ WriteInv /\ FifoInv
=============================================================================
