------------------------------ MODULE Windows ------------------------------
(***************************************************************************)
(* The packets of one transfer and the two buffers they pass through: the  *)
(* transmission window of the sender and the receive buffer of the         *)
(* receiver (windows.c, the same algorithms on the client and the server). *)
(*                                                                         *)
(* A packet is identified by its number in the order of first              *)
(* transmission: 0 carries the file size, 1..N the chunks of the file, and *)
(* N+1, N+2 are the empty packets that can follow them.  Sequence numbers  *)
(* are counted in packets from the first one instead of in bytes, so an    *)
(* empty packet does not advance the sequence number.                      *)
(*                                                                         *)
(* Both buffers are NULL-terminated arrays in the code.  Here they are the *)
(* sequence of their elements.  SendWindow shows that this is what the     *)
(* loops over the transmission window compute, and ReceiveBuffer that it   *)
(* is what those over the receive buffer compute, as long as nothing is    *)
(* put in front of a buffered packet.                                      *)
(*                                                                         *)
(* A definition marked "faulty" is a plausible bug in the definition that  *)
(* follows it.  No specification uses it; it is there to see that the      *)
(* properties notice such a bug.                                           *)
(***************************************************************************)
EXTENDS Naturals, Sequences

CONSTANTS N,     \* number of packets that carry data of the file
          WND,   \* INIT_WND_SIZE
          RWND   \* MAX_RVWD_SIZE

ASSUME WindowsAssumption ==
  /\ N \in Nat
  /\ WND \in Nat \ {0}
  /\ RWND \in Nat \ {0}
  /\ WND <= RWND

----------------------------------------------------------------------------
\* seq_num and data_size of packet p.
SeqNum(p)   == IF p <= N THEN p ELSE N + 1
DataSize(p) == IF p <= N THEN 1 ELSE 0

\* The sequence number expected after packet p.
SeqAfter(p) == SeqNum(p) + DataSize(p)

----------------------------------------------------------------------------
\* The transmission window.

UpdateWindow(wnd, sent) == Append(wnd, sent)

\* How far the search of incoming_ack gets: i is the number of packets ahead
\* of the first one whose sequence number is acked; all of them if none is.
AckedPackets(wnd, ack, i) ==
  /\ i \in 0..Len(wnd)
  /\ \A j \in 1..i : SeqNum(wnd[j]) # ack
  /\ i < Len(wnd) => SeqNum(wnd[i + 1]) = ack

RefreshWindowInclusive(wnd, index) == SubSeq(wnd, index + 2, Len(wnd)) \* faulty
RefreshWindow(wnd, index) == SubSeq(wnd, index + 1, Len(wnd))

----------------------------------------------------------------------------
\* The receive buffer.

\* order_rwnd is reached when a buffered packet is ahead of the new one.
MustOrder(p, buff) ==
  /\ buff # << >>
  /\ Len(buff) < RWND
  /\ \E i \in DOMAIN buff : SeqNum(p) < SeqNum(buff[i])

StoreRwnd(p, buff) == IF Len(buff) < RWND THEN Append(buff, p) ELSE buff

DrainsAll(p, buff, k) == k = Len(buff)                                \* faulty

\* The loop over the buffer after p was received in order: the first k
\* buffered packets follow p without a gap and the next one does not.
Drains(p, buff, k) ==
  LET prev(i) == IF i = 1 THEN p ELSE buff[i - 1] IN
  /\ k \in 0..Len(buff)
  /\ \A i \in 1..k : SeqNum(buff[i]) = SeqAfter(prev(i))
  /\ k < Len(buff) => SeqNum(buff[k + 1]) # SeqAfter(prev(k + 1))

ReorderBufferStale(buff, k) == buff                                   \* faulty

\* The packets behind the first k slide to the front.
ReorderBuffer(buff, k) == SubSeq(buff, k + 1, Len(buff))

\* The packets are in increasing order, with at least as many numbers between two of
\* them as places: what the invariants of the transfers say of a buffer.
Increasing(buff) ==
  \A i, j \in DOMAIN buff : i < j => buff[i] + (j - i) <= buff[j]
=============================================================================
