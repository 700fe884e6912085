---------------------------- MODULE ReceiveBuffer ----------------------------
(***************************************************************************)
(* The receive buffer as the programs have it: an array of packets with    *)
(* NULLs behind the last one, no count, and four loops over it that look   *)
(* for the NULL: store_rwnd, order_rwnd inside it, and the drain and the   *)
(* reordering of request_get, request_list and response_put.  Each turn of *)
(* a loop is a step.  One thread uses the buffer; what is hard is where    *)
(* the loops end.                                                          *)
(*                                                                         *)
(* Packets arrive in any order and any number of times.  The variables     *)
(* queue, predicted and repeated are no part of the program: they are what *)
(* Windows says of the same arrivals, and the properties compare.          *)
(***************************************************************************)
EXTENDS Windows, Integers

CONSTANT Null      \* no packet

Packets == 0..(N + 1)

ASSUME ReceiveBufferAssumption == Null \notin Packets

VARIABLES pc,        \* control state of the receiver
          rcvNext,   \* rcv_next
          pk,        \* pk: the packet received, or the last one drained
          buff,      \* rcv_buffer
          i, j,      \* i and j of the loops; order_rwnd has i as pos, j as i
          queue,     \* history: the buffer of Windows
          predicted, \* history: Windows says that the array is overrun
          repeated   \* history: a packet came again that was buffered

history == <<queue, predicted, repeated>>
vars == <<pc, rcvNext, pk, buff, i, j, history>>

Places == 0..(RWND - 1)
Cells  == Packets \cup {Null}
States == {"recv", "search", "order", "drain", "slide", "overrun"}

\* The size packet has come.
Init ==
  /\ pc = "recv" /\ rcvNext = 1 /\ pk = 0
  /\ buff = [n \in Places |-> Null]
  /\ i = 0 /\ j = 0
  /\ queue = << >> /\ predicted = FALSE /\ repeated = FALSE

----------------------------------------------------------------------------
\* The packet that is expected, with data: it is written, and the drain begins.
ReceiveInOrder(p) ==
  /\ pc = "recv" /\ SeqNum(p) = rcvNext /\ DataSize(p) # 0
  /\ pk' = p
  /\ rcvNext' = SeqAfter(p)
  /\ i' = 0 /\ j' = 0
  /\ pc' = "drain"
  /\ \E k \in 0..Len(queue) :
       /\ Drains(p, queue, k)
       /\ predicted' = (k = RWND)
       /\ queue' = ReorderBuffer(queue, k)
  /\ UNCHANGED <<buff, repeated>>

\* store_rwnd does nothing when the last place is taken.
IsFullNever == FALSE                                                  \* faulty
IsFull == buff[RWND - 1] # Null

\* A packet ahead of it: store_rwnd.
ReceiveOutOfOrder(p) ==
  /\ pc = "recv" /\ SeqNum(p) > rcvNext
  /\ pk' = p
  /\ i' = 0
  /\ IF buff[0] = Null THEN buff' = [buff EXCEPT ![0] = p] /\ UNCHANGED pc
     ELSE UNCHANGED buff /\ pc' = IF IsFull THEN "recv" ELSE "search"
  /\ predicted' = MustOrder(p, queue)
  /\ queue' = StoreRwnd(p, queue)
  /\ repeated' = (repeated \/ \E n \in DOMAIN queue : SeqNum(queue[n]) = SeqNum(p))
  /\ UNCHANGED <<rcvNext, j>>

----------------------------------------------------------------------------
\* A loop has come to the place behind the array: order_rwnd or the drain.  The search
\* of store_rwnd does not: it would have to stop there, and LoopsEnd says it never does.
Overrun(state, place) ==
  /\ pc = state /\ place = RWND
  /\ pc' = "overrun"
  /\ UNCHANGED <<rcvNext, pk, buff, i, j, history>>

\* The loop of store_rwnd: up to the first NULL.
SearchEnds ==
  /\ pc = "search" /\ i < RWND /\ buff[i] = Null
  /\ buff' = [buff EXCEPT ![i] = pk]
  /\ pc' = "recv"
  /\ UNCHANGED <<rcvNext, pk, i, j, history>>

SearchOn ==
  /\ pc = "search" /\ i < RWND /\ buff[i] # Null
  /\ IF SeqNum(pk) < SeqNum(buff[i])
     THEN pc' = "order" /\ j' = 1 /\ UNCHANGED i
     ELSE i' = i + 1 /\ UNCHANGED <<pc, j>>
  /\ UNCHANGED <<rcvNext, pk, buff, history>>

\* order_rwnd: the packets from place i on are shifted, up to the first NULL.
NextShiftSame == j                                                    \* faulty
NextShift == j + 1

Shift ==
  /\ pc = "order" /\ i + j < RWND /\ buff[i + j] # Null
  /\ buff' = [buff EXCEPT ![i + j] = buff[i], ![i] = buff[i + 1]]
  /\ j' = NextShift
  /\ UNCHANGED <<pc, rcvNext, pk, i, history>>

\* The gap is filled, and store_rwnd goes on behind it.
FillGap ==
  /\ pc = "order" /\ i + j < RWND /\ buff[i + j] = Null
  /\ buff' = [buff EXCEPT ![i + j] = buff[i], ![i] = pk]
  /\ i' = i + 1
  /\ pc' = "search"
  /\ UNCHANGED <<rcvNext, pk, j, history>>

----------------------------------------------------------------------------
\* The packet in the buffer follows the one that was written last.
Follows(p) == buff[i] # Null /\ SeqNum(buff[i]) = SeqAfter(p)

FirstWritten == pk                                                    \* faulty
LastWritten == buff[i]

\* An empty packet does not advance rcv_next.
AdvancedByOne == rcvNext + 1                                          \* faulty
Advanced == rcvNext + DataSize(buff[i])

DrainOn ==
  /\ pc = "drain" /\ i < RWND /\ Follows(pk)
  /\ rcvNext' = Advanced
  /\ pk' = LastWritten
  /\ buff' = [buff EXCEPT ![i] = Null]
  /\ i' = i + 1
  /\ UNCHANGED <<pc, j, history>>

DrainEnds ==
  /\ pc = "drain" /\ i < RWND /\ ~Follows(pk)
  /\ pc' = IF i # 0 THEN "slide" ELSE "recv"
  /\ UNCHANGED <<rcvNext, pk, buff, i, j, history>>

\* The packets behind the hole slide to the front.
MovedKept == [buff EXCEPT ![j] = buff[i + j]]                         \* faulty
Moved == [buff EXCEPT ![j] = buff[i + j], ![i + j] = Null]

Slide ==
  /\ pc = "slide" /\ i + j < RWND /\ buff[i + j] # Null
  /\ buff' = Moved
  /\ j' = j + 1
  /\ UNCHANGED <<pc, rcvNext, pk, i, history>>

SlideEnds ==
  /\ pc = "slide" /\ (i + j < RWND => buff[i + j] = Null)
  /\ pc' = "recv"
  /\ UNCHANGED <<rcvNext, pk, buff, i, j, history>>

Loops ==
  \/ SearchOn \/ SearchEnds \/ Shift \/ FillGap
  \/ DrainOn \/ DrainEnds \/ Slide \/ SlideEnds
  \/ Overrun("order", i + j) \/ Overrun("drain", i)

\* A packet before the expected one changes nothing.
Next ==
  \/ \E p \in Packets : ReceiveInOrder(p) \/ ReceiveOutOfOrder(p)
  \/ Loops

Spec == Init /\ [][Next]_vars

\* The thread keeps running.
FairSpec == Spec /\ WF_vars(Loops)

----------------------------------------------------------------------------
(***************************************************************************)
(* Properties.                                                             *)
(***************************************************************************)

TypeOK ==
  /\ pc \in States
  /\ rcvNext \in 1..(N + 1) /\ pk \in Packets
  /\ buff \in [Places -> Cells]
  /\ i \in 0..RWND /\ j \in 0..RWND
  /\ queue \in Seq(Packets) /\ predicted \in BOOLEAN /\ repeated \in BOOLEAN

\* Between two packets the array holds the packets of the sequence of Windows from
\* its first place on, and NULL behind them: the four loops compute StoreRwnd, Drains
\* and ReorderBuffer (windows.c:75, client.c:357-382).
ArrayIsQueue ==
  pc = "recv" =>
    \A n \in Places : buff[n] = IF n < Len(queue) THEN queue[n + 1] ELSE Null

\* The loops leave the array exactly when Windows says so: when a packet belongs in
\* front of a buffered one, in spite of order_rwnd, or when a full array drains to
\* its end.  GetTransfer and PutTransfer rely on it (windows.c:50-66, client.c:360).
OverrunIsPredicted ==
  /\ pc = "overrun" => predicted
  /\ pc = "recv" => ~predicted

\* What is in the buffer is ahead of rcv_next, so it is still of use and the next gap
\* is in front of it, unless a buffered packet has come once more: store_rwnd takes
\* the second copy, which no drain ever removes (windows.c:88-94).
AheadUnlessRepeated ==
  pc = "recv" /\ ~repeated =>
    \A n \in Places : buff[n] # Null => SeqNum(buff[n]) > rcvNext

\* Every packet is dealt with in the end: no loop runs for ever inside the array, not
\* even store_rwnd with order_rwnd, which lengthens what it searches.
LoopsEnd == []<>(pc \in {"recv", "overrun"})
=============================================================================
