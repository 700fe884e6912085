----------------------------- MODULE SendWindow -----------------------------
(***************************************************************************)
(* The transmission window as the server has it: an array of packets with  *)
(* NULLs behind the last one, and a count of free places.  A worker adds   *)
(* packets, the main thread searches the array for what an ACK acknowledges*)
(* and slides it, both under wnd_lock, one access to memory at a time.     *)
(* The worker's tests of usable_wnd and the signal handler, which reads    *)
(* the base of the window, take no lock.                                   *)
(*                                                                         *)
(* The variable window is the sequence that GetTransfer works with.  It is *)
(* no part of the program: it changes when a step of the worker or the main*)
(* thread takes effect, and the properties compare the array to it.        *)
(***************************************************************************)
EXTENDS Windows, Integers

CONSTANT Null      \* no packet

Packets == 0..(N + 2)
AckNums == 0..(N + 1)

ASSUME SendWindowAssumption == Null \notin Packets

VARIABLES sent,     \* the next packet that the worker sends
          wnd,      \* wnd[thread]
          usable,   \* usable_wnd[thread]
          lock,     \* holder of wnd_lock[thread]
          worker,   \* control state of the worker
          main,     \* control state of the main thread
          ack,      \* ack_num of the ACK in incoming_ack
          index,    \* index: the packet that it acknowledges
          i, count, \* local variables of refresh_window
          rtx,      \* pk of retransmission
          window    \* history: the packets outstanding

workerVars == <<sent, worker>>
mainVars   == <<main, ack, index, i, count>>
vars == <<workerVars, mainVars, wnd, usable, lock, rtx, window>>

Places       == 0..(WND - 1)
Cells        == Packets \cup {Null}
WorkerStates == {"send", "lock", "store", "take", "full"}
MainStates   == {"recv", "search", "slide", "clear"}

Init ==
  /\ sent = 0 /\ worker = "send"
  /\ wnd = [p \in Places |-> Null] /\ usable = WND
  /\ lock = "free"
  /\ main = "recv" /\ ack = 0 /\ index = 0 /\ i = 0 /\ count = 0
  /\ rtx = Null
  /\ window = << >>

----------------------------------------------------------------------------
(***************************************************************************)
(* The worker: update_window and what surrounds it.                        *)
(***************************************************************************)

\* send_packet: the packet may be acknowledged before it is in the window.
Send ==
  /\ worker = "send" /\ sent \in Packets
  /\ sent' = sent + 1
  /\ worker' = "lock"
  /\ UNCHANGED <<mainVars, wnd, usable, lock, rtx, window>>

LockWindowNot ==                                                      \* faulty
  /\ worker = "lock"
  /\ lock' = "worker"
  /\ worker' = "store"
  /\ UNCHANGED <<sent, mainVars, wnd, usable, rtx, window>>

LockWindow ==
  /\ worker = "lock" /\ lock = "free"
  /\ lock' = "worker"
  /\ worker' = "store"
  /\ UNCHANGED <<sent, mainVars, wnd, usable, rtx, window>>

StoreSent ==
  /\ worker = "store"
  /\ wnd' = [wnd EXCEPT ![WND - usable] = sent - 1]
  /\ window' = UpdateWindow(window, sent - 1)
  /\ worker' = "take"
  /\ UNCHANGED <<sent, mainVars, usable, lock, rtx>>

TakePlace ==
  /\ worker = "take"
  /\ usable' = usable - 1
  /\ lock' = "free"
  /\ worker' = "full"
  /\ UNCHANGED <<sent, mainVars, wnd, rtx, window>>

NotFullUnchecked ==                                                   \* faulty
  /\ worker = "full"
  /\ worker' = "send"
  /\ UNCHANGED <<sent, mainVars, wnd, usable, lock, rtx, window>>

\* Before the next packet the worker waits, without the lock, for a free place.
NotFull ==
  /\ worker = "full" /\ usable # 0
  /\ worker' = "send"
  /\ UNCHANGED <<sent, mainVars, wnd, usable, lock, rtx, window>>

Worker == Send \/ LockWindow \/ StoreSent \/ TakePlace \/ NotFull

----------------------------------------------------------------------------
(***************************************************************************)
(* The main thread: incoming_ack and refresh_window.                       *)
(***************************************************************************)

\* Any ACK of what was sent, and any number of times: a datagram can be late.
ReceiveAck ==
  /\ main = "recv" /\ lock = "free"
  /\ ack' \in {0} \cup {SeqAfter(p) : p \in 0..(sent - 1)}
  /\ lock' = "main"
  /\ index' = 0
  /\ main' = "search"
  /\ UNCHANGED <<i, count, workerVars, wnd, usable, rtx, window>>

SearchNext ==
  /\ main = "search" /\ index < WND - usable
  /\ SeqNum(wnd[index]) # ack
  /\ index' = index + 1
  /\ UNCHANGED <<main, ack, i, count, workerVars, wnd, usable, lock, rtx, window>>

\* Nothing is done if the ACK is for the packet in front.
SearchEnds ==
  /\ main = "search"
  /\ index < WND - usable => SeqNum(wnd[index]) = ack
  /\ IF index = 0
     THEN main' = "recv" /\ lock' = "free" /\ UNCHANGED <<i, count>>
     ELSE main' = "slide" /\ i' = 0 /\ count' = 0 /\ UNCHANGED lock
  /\ UNCHANGED <<ack, index, workerVars, wnd, usable, rtx, window>>

\* The first packet that slides to the front takes the place of the old base.
MustSlide == index + i < WND /\ wnd[index + i] # Null

Slide ==
  /\ main = "slide" /\ MustSlide
  /\ wnd' = [wnd EXCEPT ![i] = wnd[index + i], ![index + i] = Null]
  /\ window' = IF i = 0 THEN RefreshWindow(window, index) ELSE window
  /\ i' = i + 1 /\ count' = count + 1
  /\ UNCHANGED <<main, ack, index, workerVars, usable, lock, rtx>>

SlideEnds ==
  /\ main = "slide" /\ ~MustSlide
  /\ main' = "clear"
  /\ UNCHANGED <<ack, index, i, count, workerVars, wnd, usable, lock, rtx, window>>

\* What is left of the old packets; the base too if all are acknowledged.
MustClearNone == FALSE                                                \* faulty
MustClear == i < WND /\ wnd[i] # Null

Clear ==
  /\ main = "clear" /\ MustClear
  /\ wnd' = [wnd EXCEPT ![i] = Null]
  /\ window' = IF i = 0 THEN RefreshWindow(window, index) ELSE window
  /\ i' = i + 1
  /\ UNCHANGED <<main, ack, index, count, workerVars, usable, lock, rtx>>

FreeIndex ==                                                          \* faulty
  /\ main = "clear" /\ ~MustClear
  /\ usable' = index
  /\ lock' = "free"
  /\ main' = "recv"
  /\ UNCHANGED <<ack, index, i, count, workerVars, wnd, rtx, window>>

ClearEnds ==
  /\ main = "clear" /\ ~MustClear
  /\ usable' = WND - count
  /\ lock' = "free"
  /\ main' = "recv"
  /\ UNCHANGED <<ack, index, i, count, workerVars, wnd, rtx, window>>

Main ==
  ReceiveAck \/ SearchNext \/ SearchEnds \/ Slide \/ SlideEnds \/ Clear \/ ClearEnds

\* The signal handler, in between any two of these steps.
FetchBase ==
  /\ rtx' = wnd[0]
  /\ UNCHANGED <<workerVars, mainVars, wnd, usable, lock, window>>

Next == Worker \/ Main \/ FetchBase

Spec == Init /\ [][Next]_vars

----------------------------------------------------------------------------
(***************************************************************************)
(* Properties.                                                             *)
(***************************************************************************)

TypeOK ==
  /\ sent \in 0..(N + 3) /\ worker \in WorkerStates
  /\ wnd \in [Places -> Cells] /\ usable \in 0..WND
  /\ lock \in {"free", "worker", "main"}
  /\ main \in MainStates /\ ack \in AckNums
  /\ index \in 0..WND /\ i \in 0..WND /\ count \in 0..WND
  /\ rtx \in Cells
  /\ window \in Seq(Packets) /\ Len(window) <= WND

\* What the place p holds when the window is w.
Cell(w, p) == IF p < Len(w) THEN w[p + 1] ELSE Null

\* Whenever the lock is free the array holds the packets of the window and no
\* other, and usable_wnd counts the free places: the loops of refresh_window, which
\* stop at a NULL or the end, drop nothing and keep nothing (windows.c:25-42).
ArrayIsWindow ==
  lock = "free" =>
    /\ \A p \in Places : wnd[p] = Cell(window, p)
    /\ usable = WND - Len(window)

\* The handler reads wnd[thread][0] without the lock: at any moment, also while the
\* window slides, that is its first packet (server.c:68).
BaseIsFirst == wnd[0] = Cell(window, 0)

\* The worker tests usable_wnd without the lock: a free place it sees is there, and
\* if it sees none taken every packet is acknowledged (server.c:326, 345).
RoomIsThere ==
  worker = "full" => usable <= WND - Len(window)

\* The search reads no place without a packet (windows.c:116-117).
SearchIsInside ==
  main = "search" /\ index < WND - usable => wnd[index] # Null

\* The packets outstanding change as GetTransfer says, which takes update_window and
\* incoming_ack for one step each: the worker adds the packet it has sent, or the main
\* thread discards what is ahead of the packet acknowledged, or everything if it is
\* not found, though its loops over the array are many steps (windows.c:116-121).
RefreshIsAtomic ==
  [][\/ window' = window
     \/ window' = UpdateWindow(window, sent - 1) /\ Len(window) < WND
     \/ AckedPackets(window, ack, index) /\ window' = RefreshWindow(window, index)]_vars

----------------------------------------------------------------------------
(***************************************************************************)
(* The inductive invariant; the proofs are in SendWindowProofs.            *)
(***************************************************************************)

Locks ==
  /\ lock = "worker" <=> worker \in {"store", "take"}
  /\ lock = "main" <=> main # "recv"

\* The worker has seen a free place when it sends, and only main changes usable then.
WorkerInv ==
  /\ worker \in {"send", "lock", "store"} => usable # 0
  /\ worker \in {"lock", "store"} => sent # 0

Holds(w) == \A p \in Places : wnd[p] = Cell(w, p)

RestInv ==
  main \in {"recv", "search"} =>
    /\ Holds(window)
    /\ usable = WND - Len(window) + (IF worker = "take" THEN 1 ELSE 0)

SearchInv ==
  main = "search" =>
    index <= Len(window) /\ \A j \in 1..index : SeqNum(window[j]) # ack

\* What the window is, or becomes with the first place that refresh_window changes.
Target == IF i = 0 THEN RefreshWindow(window, index) ELSE window

RefreshInv ==
  main \in {"slide", "clear"} =>
    /\ index # 0
    /\ i = 0 => AckedPackets(window, ack, index) /\ BaseIsFirst
    /\ usable = WND - (Len(Target) + index)

\* The first i packets are in their places, the old packets up to index are not yet
\* overwritten, and the rest still is where it was.
SlideInv ==
  main = "slide" =>
    /\ count = i /\ i <= Len(Target)
    /\ \A p \in Places :
         /\ p < i => wnd[p] = Target[p + 1]
         /\ i <= p /\ p < index => wnd[p] # Null
         /\ i <= p /\ index <= p /\ p < index + i => wnd[p] = Null
         /\ index + i <= p => wnd[p] = Cell(Target, p - index)

ClearInv ==
  main = "clear" =>
    /\ count = Len(Target) /\ count <= i
    /\ \A p \in Places :
         /\ p < count => wnd[p] = Target[p + 1]
         /\ count <= p /\ p < i => wnd[p] = Null
         /\ i <= p /\ p < index => wnd[p] # Null
         /\ i <= p /\ index <= p => wnd[p] = Null

ArrayInv ==
  Locks /\ WorkerInv /\ RestInv /\ SearchInv /\ RefreshInv /\ SlideInv /\ ClearInv
=============================================================================
