-------------------------- MODULE SendWindowProofs --------------------------
(***************************************************************************)
(* Proofs of the properties of SendWindow: the loops over the array do, in *)
(* every interleaving with the worker and the signal handler and for every *)
(* size of the window, what Windows says of the sequence of its packets.   *)
(***************************************************************************)
EXTENDS SendWindow, SequenceLemmas

\* The window has a place, and the file a number of chunks.
LEMMA Sizes == WND \in Nat /\ WND >= 1 /\ N \in Nat
BY WindowsAssumption

\* The sequence numbers of packets are numbers an ACK can have.
LEMMA NumTypes ==
  \A p \in Packets : SeqNum(p) \in AckNums /\ SeqAfter(p) \in AckNums
BY Sizes DEF Packets, AckNums, SeqNum, SeqAfter, DataSize

\* What the window holds are packets, and not more than there are places.
LEMMA WindowTypes ==
  ASSUME TypeOK
  PROVE  /\ window \in Seq(Packets) /\ Len(window) \in 0..WND
         /\ \A k \in 1..Len(window) : window[k] \in Packets /\ window[k] # Null
BY Sizes, SendWindowAssumption, LenProperties, ElementOfSeq DEF TypeOK

\* The window that refresh_window is about to reach.
LEMMA TargetTypes ==
  ASSUME TypeOK, ArrayInv, main \in {"slide", "clear"}
  PROVE  /\ Target \in Seq(Packets) /\ Len(Target) \in 0..WND
         /\ index \in 1..WND /\ Len(Target) + index \in 1..WND
         /\ \A k \in 1..Len(Target) : Target[k] \in Packets /\ Target[k] # Null
         /\ i = 0 => Len(Target) = Len(window) - index
<1>1. index \in 1..WND /\ usable \in 0..WND /\ usable = WND - (Len(Target) + index)
  BY DEF TypeOK, ArrayInv, RefreshInv
<1>2. Target \in Seq(Packets) /\ (i = 0 => Len(Target) = Len(window) - index)
  <2>1. CASE i = 0
    <3>1. index \in 0..Len(window)
      BY <2>1 DEF ArrayInv, RefreshInv, AckedPackets
    <3> QED BY <2>1, <3>1, WindowTypes, SuffixProperties DEF Target, RefreshWindow
  <2>2. CASE i # 0
    BY <2>2, WindowTypes DEF Target
  <2> QED BY <2>1, <2>2
<1>3. Len(Target) \in Nat /\ \A k \in 1..Len(Target) : Target[k] \in Packets
  BY <1>2, LenProperties, ElementOfSeq
<1> QED BY <1>1, <1>2, <1>3, Sizes, SendWindowAssumption

----------------------------------------------------------------------------
(***************************************************************************)
(* The worker.                                                             *)
(***************************************************************************)

\* Nothing that the invariant says of the array depends on these steps.
LEMMA SameArray ==
  ASSUME ArrayInv, UNCHANGED <<main, ack, index, i, count, wnd, usable, window>>,
         (worker' = "take") <=> (worker = "take")
  PROVE  RestInv' /\ SearchInv' /\ RefreshInv' /\ SlideInv' /\ ClearInv'
<1>1. RestInv'
  BY DEF ArrayInv, RestInv, Holds, Cell
<1>2. SearchInv'
  BY DEF ArrayInv, SearchInv
<1>3. RefreshInv'
  BY DEF ArrayInv, RefreshInv, Target, BaseIsFirst, AckedPackets, Cell
<1>4. SlideInv'
  BY DEF ArrayInv, SlideInv, Target, Cell
<1>5. ClearInv'
  BY DEF ArrayInv, ClearInv, Target
<1> QED BY <1>1, <1>2, <1>3, <1>4, <1>5

\* Steps that change neither the array nor usable_wnd.
LEMMA QuietSteps ==
  ASSUME TypeOK, ArrayInv, Send \/ LockWindow \/ NotFull \/ FetchBase
  PROVE  TypeOK' /\ ArrayInv'
<1>1. /\ UNCHANGED <<main, ack, index, i, count, wnd, usable, window>>
      /\ (worker' = "take") <=> (worker = "take")
  BY DEF Send, LockWindow, NotFull, FetchBase, mainVars, workerVars
<1>2. TypeOK'
  <2>1. 0 \in Places
    BY Sizes DEF Places
  <2>2. sent' \in 0..(N + 3) /\ worker' \in WorkerStates
    BY Sizes DEF Send, LockWindow, NotFull, FetchBase, workerVars, TypeOK, WorkerStates,
                 Packets
  <2>3. lock' \in {"free", "worker", "main"} /\ rtx' \in Cells
    BY <2>1 DEF Send, LockWindow, NotFull, FetchBase, TypeOK
  <2> QED BY <1>1, <2>2, <2>3 DEF TypeOK
<1>3. Locks'
  BY DEF Send, LockWindow, NotFull, FetchBase, mainVars, workerVars, ArrayInv, Locks
<1>4. WorkerInv'
  BY DEF Send, LockWindow, NotFull, FetchBase, mainVars, workerVars, ArrayInv, WorkerInv,
         TypeOK
<1> QED BY <1>1, <1>2, <1>3, <1>4, SameArray DEF ArrayInv

\* update_window stores the packet in the first free place.
LEMMA StoreStep ==
  ASSUME TypeOK, ArrayInv, StoreSent
  PROVE  TypeOK' /\ ArrayInv'
<1>1. /\ main = "recv" /\ worker = "store" /\ lock = "worker" /\ worker' = "take"
      /\ UNCHANGED <<main, usable, lock, sent, ack, index, i, count, rtx>>
  BY DEF StoreSent, ArrayInv, Locks, mainVars
<1>2. /\ usable = WND - Len(window) /\ usable # 0 /\ sent # 0 /\ Holds(window)
  BY <1>1, WindowTypes, Sizes DEF ArrayInv, RestInv, WorkerInv, TypeOK
<1>3. Len(window) \in Places /\ WND - usable = Len(window) /\ sent - 1 \in Packets
  BY <1>2, WindowTypes, Sizes DEF Places, TypeOK, Packets
<1>4. /\ window' \in Seq(Packets) /\ Len(window') = Len(window) + 1
      /\ \A k \in 1..Len(window) : window'[k] = window[k]
      /\ window'[Len(window) + 1] = sent - 1
  BY <1>3, WindowTypes, AppendProperties DEF StoreSent, UpdateWindow
<1>5. wnd' = [wnd EXCEPT ![Len(window)] = sent - 1]
  BY <1>3 DEF StoreSent
<1>6. TypeOK'
  <2>1. wnd' \in [Places -> Cells]
    BY <1>3, <1>5 DEF TypeOK, Cells
  <2>2. Len(window') <= WND
    BY <1>2, <1>4, WindowTypes, Sizes DEF TypeOK
  <2>3. worker' \in WorkerStates
    BY <1>1 DEF WorkerStates
  <2> QED BY <1>1, <1>4, <2>1, <2>2, <2>3 DEF TypeOK
<1>7. ASSUME NEW p \in Places
      PROVE  wnd'[p] = Cell(window', p)
  <2>1. p \in Int /\ p >= 0 /\ Len(window) \in Nat
    BY <1>3, Sizes DEF Places
  <2>2. CASE p = Len(window)
    <3>1. wnd'[p] = sent - 1
      BY <2>2, <1>3, <1>5 DEF TypeOK
    <3>2. p < Len(window') /\ window'[p + 1] = sent - 1
      BY <2>1, <2>2, <1>4
    <3> QED BY <3>1, <3>2 DEF Cell
  <2>3. CASE p < Len(window)
    <3>1. wnd'[p] = window[p + 1] /\ p + 1 \in 1..Len(window)
      BY <2>1, <2>3, <1>2, <1>5 DEF Holds, Cell, TypeOK
    <3> QED BY <2>1, <2>3, <3>1, <1>4 DEF Cell
  <2>4. CASE p > Len(window)
    <3>1. wnd'[p] = Null
      BY <2>1, <2>4, <1>2, <1>5 DEF Holds, Cell, TypeOK
    <3> QED BY <2>1, <2>4, <3>1, <1>4 DEF Cell
  <2> QED BY <2>1, <2>2, <2>3, <2>4
<1>8. RestInv'
  <2>1. Holds(window)'
    BY <1>7 DEF Holds
  <2>2. usable' = WND - Len(window') + 1
    BY <1>1, <1>2, <1>4, WindowTypes, Sizes
  <2> QED BY <1>1, <2>1, <2>2 DEF RestInv
<1>9. Locks' /\ WorkerInv' /\ SearchInv' /\ RefreshInv' /\ SlideInv' /\ ClearInv'
  BY <1>1 DEF ArrayInv, Locks, WorkerInv, SearchInv, RefreshInv, SlideInv, ClearInv
<1> QED BY <1>6, <1>8, <1>9 DEF ArrayInv

\* update_window takes the place from usable_wnd.
LEMMA TakeStep ==
  ASSUME TypeOK, ArrayInv, TakePlace
  PROVE  TypeOK' /\ ArrayInv'
<1>1. /\ main = "recv" /\ worker = "take" /\ lock = "worker" /\ worker' = "full"
      /\ UNCHANGED <<main, wnd, window, sent, ack, index, i, count, rtx>>
      /\ usable' = usable - 1 /\ lock' = "free"
  BY DEF TakePlace, ArrayInv, Locks, mainVars
<1>2. /\ usable' = WND - Len(window) /\ Holds(window)
  BY <1>1, WindowTypes, Sizes DEF ArrayInv, RestInv, TypeOK
<1>3. TypeOK'
  BY <1>1, <1>2, WindowTypes, Sizes DEF TypeOK, WorkerStates
<1>4. RestInv'
  BY <1>1, <1>2, WindowTypes, Sizes DEF RestInv, Holds, Cell
<1>5. Locks' /\ WorkerInv' /\ SearchInv' /\ RefreshInv' /\ SlideInv' /\ ClearInv'
  BY <1>1 DEF ArrayInv, Locks, WorkerInv, SearchInv, RefreshInv, SlideInv, ClearInv
<1> QED BY <1>3, <1>4, <1>5 DEF ArrayInv

----------------------------------------------------------------------------
(***************************************************************************)
(* The main thread.                                                        *)
(***************************************************************************)

\* Main receives an ACK and begins the search.
LEMMA ReceiveStep ==
  ASSUME TypeOK, ArrayInv, ReceiveAck
  PROVE  TypeOK' /\ ArrayInv'
<1>1. /\ main = "recv" /\ main' = "search" /\ lock = "free" /\ lock' = "main"
      /\ worker \notin {"store", "take"} /\ index' = 0
      /\ UNCHANGED <<i, count, sent, worker, wnd, usable, rtx, window>>
  BY DEF ReceiveAck, workerVars, ArrayInv, Locks
<1>2. ack' \in AckNums
  <2>1. \A p \in 0..(sent - 1) : p \in Packets
    BY Sizes DEF TypeOK, Packets
  <2> QED BY <2>1, NumTypes, Sizes DEF ReceiveAck, AckNums
<1>3. TypeOK'
  BY <1>1, <1>2, Sizes DEF TypeOK, MainStates
<1>4. RestInv'
  BY <1>1 DEF ArrayInv, RestInv, Holds, Cell
<1>5. SearchInv'
  BY <1>1, WindowTypes DEF SearchInv
<1>6. Locks' /\ WorkerInv' /\ RefreshInv' /\ SlideInv' /\ ClearInv'
  BY <1>1 DEF ArrayInv, Locks, WorkerInv, RefreshInv, SlideInv, ClearInv
<1> QED BY <1>3, <1>4, <1>5, <1>6 DEF ArrayInv

\* What the main thread knows while it searches.
LEMMA Searching ==
  ASSUME TypeOK, ArrayInv, main = "search"
  PROVE  /\ worker # "take" /\ worker # "store" /\ lock = "main"
         /\ usable = WND - Len(window) /\ WND - usable = Len(window)
         /\ index \in 0..Len(window)
         /\ \A k \in 1..index : SeqNum(window[k]) # ack
         /\ \A p \in Places : wnd[p] = Cell(window, p)
         /\ index < Len(window) => wnd[index] = window[index + 1]
<1>1. lock = "main" /\ worker # "take" /\ worker # "store"
  BY DEF ArrayInv, Locks
<1>2. /\ usable = WND - Len(window) /\ WND - usable = Len(window)
      /\ \A p \in Places : wnd[p] = Cell(window, p)
  BY <1>1, WindowTypes, Sizes DEF ArrayInv, RestInv, Holds
<1>3. index \in 0..Len(window) /\ \A k \in 1..index : SeqNum(window[k]) # ack
  BY WindowTypes DEF ArrayInv, SearchInv, TypeOK
<1>4. index < Len(window) => wnd[index] = window[index + 1]
  BY <1>2, <1>3, WindowTypes, Sizes DEF Places, Cell
<1> QED BY <1>1, <1>2, <1>3, <1>4

\* The search goes on behind a packet of another number.
LEMMA SearchStep ==
  ASSUME TypeOK, ArrayInv, SearchNext
  PROVE  TypeOK' /\ ArrayInv'
<1>1. /\ main = "search" /\ main' = "search" /\ index' = index + 1
      /\ UNCHANGED <<lock, ack, i, count, sent, worker, wnd, usable, rtx, window>>
      /\ index < WND - usable /\ SeqNum(wnd[index]) # ack
  BY DEF SearchNext, workerVars
<1>2. index' \in 0..Len(window) /\ SeqNum(window[index']) # ack
  BY <1>1, Searching, WindowTypes
<1>3. TypeOK'
  BY <1>1, <1>2, WindowTypes, Sizes DEF TypeOK
<1>4. SearchInv'
  <2>1. \A k \in 1..index' : k \in 1..index \/ k = index'
    BY <1>1, Searching, WindowTypes
  <2> QED BY <1>1, <1>2, <2>1, Searching, WindowTypes DEF SearchInv
<1>5. RestInv'
  BY <1>1 DEF ArrayInv, RestInv, Holds, Cell
<1>6. Locks' /\ WorkerInv' /\ RefreshInv' /\ SlideInv' /\ ClearInv'
  BY <1>1 DEF ArrayInv, Locks, WorkerInv, RefreshInv, SlideInv, ClearInv
<1> QED BY <1>3, <1>4, <1>5, <1>6 DEF ArrayInv

\* The search ends at the packet the ACK asks for, or behind the last one.
LEMMA SearchEndsStep ==
  ASSUME TypeOK, ArrayInv, SearchEnds
  PROVE  TypeOK' /\ ArrayInv'
<1>1. /\ main = "search" /\ (index < WND - usable => SeqNum(wnd[index]) = ack)
      /\ UNCHANGED <<ack, index, sent, worker, wnd, usable, rtx, window>>
  BY DEF SearchEnds, workerVars
<1>2. CASE index = 0
  <2>1. main' = "recv" /\ lock' = "free" /\ UNCHANGED <<i, count>>
    BY <1>2 DEF SearchEnds
  <2>2. TypeOK'
    BY <1>1, <2>1 DEF TypeOK, MainStates
  <2>3. RestInv'
    BY <1>1, <2>1 DEF ArrayInv, RestInv, Holds, Cell
  <2>4. Locks' /\ WorkerInv' /\ SearchInv' /\ RefreshInv' /\ SlideInv' /\ ClearInv'
    BY <1>1, <2>1, Searching
       DEF ArrayInv, Locks, WorkerInv, SearchInv, RefreshInv, SlideInv, ClearInv
  <2> QED BY <2>2, <2>3, <2>4 DEF ArrayInv
<1>3. CASE index # 0
  <2>1. main' = "slide" /\ lock' = lock /\ i' = 0 /\ count' = 0
    BY <1>3 DEF SearchEnds
  <2>2. TypeOK'
    BY <1>1, <2>1, Sizes DEF TypeOK, MainStates
  <2>3. AckedPackets(window, ack, index)
    BY <1>1, Searching, WindowTypes DEF AckedPackets
  <2>4. /\ Target' = RefreshWindow(window, index)
        /\ Len(Target') = Len(window) - index
        /\ \A k \in 1..(Len(window) - index) : Target'[k] = window[index + k]
    BY <1>1, <2>1, Searching, WindowTypes, SuffixProperties DEF Target, RefreshWindow
  <2>5. wnd[0] = Cell(window, 0)
    BY <1>1, Searching, Sizes DEF Places
  <2>6. RefreshInv'
    <3>1. usable = WND - (Len(Target') + index)
      BY <1>1, <2>4, Searching, WindowTypes
    <3>2. (BaseIsFirst)' /\ AckedPackets(window', ack', index')
      BY <1>1, <2>3, <2>5 DEF BaseIsFirst, Cell
    <3> QED BY <1>1, <1>3, <3>1, <3>2 DEF RefreshInv
  <2>7. ASSUME NEW p \in Places
        PROVE  /\ 0 <= p /\ p < index => wnd[p] # Null
               /\ index <= p => wnd[p] = Cell(Target', p - index)
    <3>1. p \in Nat /\ index \in Nat /\ Len(window) \in Nat /\ index <= Len(window)
      BY <1>1, Searching, WindowTypes, Sizes DEF Places
    <3>2. wnd[p] = Cell(window, p)
      BY <1>1, Searching
    <3>3. CASE p < Len(window)
      <4>1. p + 1 \in 1..Len(window) /\ wnd[p] = window[p + 1] /\ wnd[p] # Null
        BY <3>1, <3>2, <3>3, WindowTypes DEF Cell
      <4>2. CASE index <= p
        <5>1. /\ p - index < Len(Target') /\ (p - index) + 1 \in 1..(Len(window) - index)
              /\ index + ((p - index) + 1) = p + 1
          BY <3>1, <3>3, <4>2, <2>4
        <5>2. Cell(Target', p - index) = window[p + 1]
          BY <5>1, <2>4 DEF Cell
        <5> QED BY <3>1, <4>1, <4>2, <5>2
      <4> QED BY <4>1, <4>2
    <3>4. CASE ~(p < Len(window))
      BY <3>1, <3>2, <3>4, <2>4 DEF Cell
    <3> QED BY <3>3, <3>4
  <2>8. SlideInv'
    <3>1. Len(Target') >= 0
      BY <1>1, <2>4, Searching, WindowTypes
    <3>2. ASSUME NEW p \in Places
          PROVE  /\ p < i' => wnd'[p] = Target'[p + 1]
                 /\ i' <= p /\ p < index' => wnd'[p] # Null
                 /\ i' <= p /\ index' <= p /\ p < index' + i' => wnd'[p] = Null
                 /\ index' + i' <= p => wnd'[p] = Cell(Target', p - index')
      <4>1. p \in Nat /\ index \in Nat /\ i' = 0 /\ index' = index /\ wnd' = wnd
        BY <1>1, <2>1, Sizes DEF Places, TypeOK
      <4> QED BY <4>1, <2>7
    <3> QED BY <2>1, <3>1, <3>2 DEF SlideInv, Cell
  <2>9. Locks' /\ WorkerInv' /\ RestInv' /\ SearchInv' /\ ClearInv'
    BY <1>1, <2>1, Searching DEF ArrayInv, Locks, WorkerInv, RestInv, SearchInv, ClearInv
  <2> QED BY <2>2, <2>6, <2>8, <2>9 DEF ArrayInv
<1> QED BY <1>2, <1>3

\* Once the first place was changed the window is what it was about to become.
LEMMA TargetReached ==
  ASSUME TypeOK, i' = i + 1, UNCHANGED index,
         window' = IF i = 0 THEN RefreshWindow(window, index) ELSE window
  PROVE  Target' = Target /\ window' = Target /\ i' # 0
<1>1. i + 1 # 0
  BY DEF TypeOK
<1> QED BY <1>1 DEF Target

\* The first loop of refresh_window moves one packet to the front.
LEMMA SlideStep ==
  ASSUME TypeOK, ArrayInv, Slide
  PROVE  TypeOK' /\ ArrayInv'
<1>1. /\ main = "slide" /\ i' = i + 1 /\ count' = count + 1
      /\ UNCHANGED <<main, ack, index, sent, worker, usable, lock, rtx>>
      /\ wnd' = [wnd EXCEPT ![i] = wnd[index + i], ![index + i] = Null]
      /\ index + i < WND /\ wnd[index + i] # Null
  BY DEF Slide, MustSlide, workerVars
<1>2. Target' = Target /\ window' = Target /\ i' # 0
  BY <1>1, TargetReached DEF Slide
<1>3. /\ i \in Nat /\ index \in Nat /\ index >= 1 /\ Len(Target) \in Nat
      /\ count = i /\ i <= Len(Target) /\ Len(Target) + index <= WND
      /\ index + i \in Places /\ i \in Places /\ i # index + i
  BY <1>1, TargetTypes, Sizes DEF ArrayInv, SlideInv, TypeOK, Places
<1>4. /\ wnd[index + i] = Target[i + 1] /\ i < Len(Target)
  <2>1. wnd[index + i] = Cell(Target, (index + i) - index)
    BY <1>1, <1>3 DEF ArrayInv, SlideInv
  <2>2. (index + i) - index = i
    BY <1>3
  <2> QED BY <1>1, <2>1, <2>2 DEF Cell
<1>5. TypeOK'
  <2>1. wnd' \in [Places -> Cells]
    BY <1>1, <1>3 DEF TypeOK, Cells
  <2>2. window' \in Seq(Packets) /\ Len(window') <= WND
    BY <1>1, <1>2, <1>3, TargetTypes, Sizes
  <2>3. i' \in 0..WND /\ count' \in 0..WND
    BY <1>1, <1>3, <1>4, Sizes
  <2> QED BY <1>1, <2>1, <2>2, <2>3 DEF TypeOK
<1>6. RefreshInv'
  BY <1>1, <1>2, <1>3 DEF ArrayInv, RefreshInv
<1>7. SlideInv'
  <2>1. count' = i' /\ i' <= Len(Target')
    BY <1>1, <1>2, <1>3, <1>4
  <2>2. ASSUME NEW p \in Places
        PROVE  /\ p < i + 1 => wnd'[p] = Target[p + 1]
               /\ i + 1 <= p /\ p < index => wnd'[p] # Null
               /\ i + 1 <= p /\ index <= p /\ p < index + (i + 1) => wnd'[p] = Null
               /\ index + (i + 1) <= p => wnd'[p] = Cell(Target, p - index)
    <3>1. p \in Nat
      BY Sizes DEF Places
    <3>2. wnd'[p] = IF p = index + i THEN Null ELSE IF p = i THEN Target[i + 1] ELSE wnd[p]
      BY <1>1, <1>3, <1>4 DEF TypeOK
    <3>3. /\ p < i => wnd[p] = Target[p + 1]
          /\ i <= p /\ p < index => wnd[p] # Null
          /\ i <= p /\ index <= p /\ p < index + i => wnd[p] = Null
          /\ index + i <= p => wnd[p] = Cell(Target, p - index)
      BY <1>1 DEF ArrayInv, SlideInv
    <3> QED BY <1>3, <3>1, <3>2, <3>3
  <2> QED BY <1>1, <1>2, <2>1, <2>2 DEF SlideInv, Cell
<1>8. Locks' /\ WorkerInv' /\ RestInv' /\ SearchInv' /\ ClearInv'
  BY <1>1 DEF ArrayInv, Locks, WorkerInv, RestInv, SearchInv, ClearInv
<1> QED BY <1>5, <1>6, <1>7, <1>8 DEF ArrayInv

\* The first loop of refresh_window ends when nothing is left to move.
LEMMA SlideEndsStep ==
  ASSUME TypeOK, ArrayInv, SlideEnds
  PROVE  TypeOK' /\ ArrayInv'
<1>1. /\ main = "slide" /\ main' = "clear" /\ ~MustSlide
      /\ UNCHANGED <<ack, index, i, count, sent, worker, wnd, usable, lock, rtx, window>>
  BY DEF SlideEnds, workerVars
<1>2. /\ i \in Nat /\ index \in Nat /\ index >= 1 /\ Len(Target) \in Nat
      /\ count = i /\ i <= Len(Target) /\ Len(Target) + index <= WND
      /\ Target' = Target
  BY <1>1, TargetTypes, Sizes DEF ArrayInv, SlideInv, TypeOK, Target
<1>3. i = Len(Target)
  <2>1. SUFFICES ASSUME i < Len(Target) PROVE FALSE
    BY <1>2
  <2>2. index + i < WND /\ index + i \in Places
    BY <1>2, <2>1, Sizes DEF Places
  <2>3. wnd[index + i] = Cell(Target, (index + i) - index) /\ (index + i) - index = i
    BY <1>1, <1>2, <2>2 DEF ArrayInv, SlideInv
  <2>4. wnd[index + i] # Null
    BY <1>1, <1>2, <2>1, <2>3, TargetTypes DEF Cell
  <2> QED BY <1>1, <2>2, <2>4 DEF MustSlide
<1>4. TypeOK'
  BY <1>1 DEF TypeOK, MainStates
<1>5. RefreshInv'
  BY <1>1, <1>2 DEF ArrayInv, RefreshInv, BaseIsFirst, AckedPackets, Cell
<1>6. ClearInv'
  <2>1. ASSUME NEW p \in Places
        PROVE  /\ p < count => wnd[p] = Target[p + 1]
               /\ count <= p /\ p < i => wnd[p] = Null
               /\ i <= p /\ p < index => wnd[p] # Null
               /\ i <= p /\ index <= p => wnd[p] = Null
    <3>1. p \in Nat
      BY Sizes DEF Places
    <3>2. /\ p < i => wnd[p] = Target[p + 1]
          /\ i <= p /\ p < index => wnd[p] # Null
          /\ i <= p /\ index <= p /\ p < index + i => wnd[p] = Null
          /\ index + i <= p => wnd[p] = Cell(Target, p - index)
      BY <1>1 DEF ArrayInv, SlideInv
    <3>3. index + i <= p => Cell(Target, p - index) = Null
      BY <1>2, <1>3, <3>1 DEF Cell
    <3> QED BY <1>2, <3>1, <3>2, <3>3
  <2> QED BY <1>1, <1>2, <1>3, <2>1 DEF ClearInv
<1>7. Locks' /\ WorkerInv' /\ RestInv' /\ SearchInv' /\ SlideInv'
  BY <1>1 DEF ArrayInv, Locks, WorkerInv, RestInv, SearchInv, SlideInv
<1> QED BY <1>4, <1>5, <1>6, <1>7 DEF ArrayInv

\* The second loop of refresh_window clears one place.
LEMMA ClearStep ==
  ASSUME TypeOK, ArrayInv, Clear
  PROVE  TypeOK' /\ ArrayInv'
<1>1. /\ main = "clear" /\ i' = i + 1 /\ i < WND /\ wnd[i] # Null
      /\ UNCHANGED <<main, ack, index, count, sent, worker, usable, lock, rtx>>
      /\ wnd' = [wnd EXCEPT ![i] = Null]
  BY DEF Clear, MustClear, workerVars
<1>2. Target' = Target /\ window' = Target /\ i' # 0
  BY <1>1, TargetReached DEF Clear
<1>3. /\ i \in Nat /\ index \in Nat /\ index >= 1 /\ Len(Target) \in Nat
      /\ count = Len(Target) /\ count <= i /\ i \in Places
  BY <1>1, TargetTypes, Sizes DEF ArrayInv, ClearInv, TypeOK, Places
<1>4. TypeOK'
  <2>1. wnd' \in [Places -> Cells]
    BY <1>1, <1>3 DEF TypeOK, Cells
  <2>2. window' \in Seq(Packets) /\ Len(window') <= WND
    BY <1>1, <1>2, TargetTypes, Sizes
  <2>3. i' \in 0..WND
    BY <1>1, <1>3, Sizes
  <2> QED BY <1>1, <2>1, <2>2, <2>3 DEF TypeOK
<1>5. RefreshInv'
  BY <1>1, <1>2 DEF ArrayInv, RefreshInv
<1>6. ClearInv'
  <2>1. ASSUME NEW p \in Places
        PROVE  /\ p < count => wnd'[p] = Target[p + 1]
               /\ count <= p /\ p < i + 1 => wnd'[p] = Null
               /\ i + 1 <= p /\ p < index => wnd'[p] # Null
               /\ i + 1 <= p /\ index <= p => wnd'[p] = Null
    <3>1. p \in Nat
      BY Sizes DEF Places
    <3>2. wnd'[p] = IF p = i THEN Null ELSE wnd[p]
      BY <1>1, <1>3 DEF TypeOK
    <3>3. /\ p < count => wnd[p] = Target[p + 1]
          /\ count <= p /\ p < i => wnd[p] = Null
          /\ i <= p /\ p < index => wnd[p] # Null
          /\ i <= p /\ index <= p => wnd[p] = Null
      BY <1>1 DEF ArrayInv, ClearInv
    <3> QED BY <1>3, <3>1, <3>2, <3>3
  <2> QED BY <1>1, <1>2, <1>3, <2>1 DEF ClearInv
<1>7. Locks' /\ WorkerInv' /\ RestInv' /\ SearchInv' /\ SlideInv'
  BY <1>1 DEF ArrayInv, Locks, WorkerInv, RestInv, SearchInv, SlideInv
<1> QED BY <1>4, <1>5, <1>6, <1>7 DEF ArrayInv

\* The second loop ends, and the places are given back to usable_wnd.
LEMMA ClearEndsStep ==
  ASSUME TypeOK, ArrayInv, ClearEnds
  PROVE  TypeOK' /\ ArrayInv'
<1>1. /\ main = "clear" /\ main' = "recv" /\ lock' = "free" /\ ~MustClear
      /\ usable' = WND - count
      /\ UNCHANGED <<ack, index, i, count, sent, worker, wnd, rtx, window>>
  BY DEF ClearEnds, workerVars
<1>2. /\ i \in Nat /\ index \in 1..WND /\ Len(Target) \in Nat
      /\ count = Len(Target) /\ count <= i /\ Len(Target) + index <= WND
  BY <1>1, TargetTypes, Sizes DEF ArrayInv, ClearInv, TypeOK
<1>3. i >= index
  <2>1. SUFFICES ASSUME i < index PROVE FALSE
    BY <1>2
  <2>2. i \in Places /\ i < WND
    BY <1>2, <2>1, Sizes DEF Places
  <2>3. wnd[i] # Null
    BY <1>1, <1>2, <2>1, <2>2 DEF ArrayInv, ClearInv
  <2> QED BY <1>1, <2>2, <2>3 DEF MustClear
<1>4. Target = window
  BY <1>2, <1>3 DEF Target
<1>5. worker \notin {"store", "take"}
  BY <1>1 DEF ArrayInv, Locks
<1>6. RestInv'
  <2>1. ASSUME NEW p \in Places
        PROVE  wnd[p] = Cell(window, p)
    <3>1. p \in Nat
      BY Sizes DEF Places
    <3>2. /\ p < count => wnd[p] = Target[p + 1]
          /\ count <= p /\ p < i => wnd[p] = Null
          /\ i <= p /\ index <= p => wnd[p] = Null
      BY <1>1 DEF ArrayInv, ClearInv
    <3> QED BY <1>2, <1>3, <1>4, <3>1, <3>2 DEF Cell
  <2>2. Holds(window)'
    BY <1>1, <2>1 DEF Holds, Cell
  <2>3. usable' = WND - Len(window')
    BY <1>1, <1>2, <1>4
  <2> QED BY <1>1, <1>5, <2>2, <2>3, WindowTypes, Sizes DEF RestInv
<1>7. usable' \in 0..WND /\ usable' # 0
  BY <1>1, <1>2, Sizes
<1>8. TypeOK'
  BY <1>1, <1>7 DEF TypeOK, MainStates
<1>9. Locks' /\ WorkerInv' /\ SearchInv' /\ RefreshInv' /\ SlideInv' /\ ClearInv'
  BY <1>1, <1>5, <1>7
     DEF ArrayInv, Locks, WorkerInv, SearchInv, RefreshInv, SlideInv, ClearInv
<1> QED BY <1>6, <1>8, <1>9 DEF ArrayInv

----------------------------------------------------------------------------
(***************************************************************************)
(* The theorems.                                                           *)
(***************************************************************************)

\* Every access to the array keeps the types and the invariant.
LEMMA ArrayStep ==
  ASSUME TypeOK, ArrayInv, [Next]_vars
  PROVE  TypeOK' /\ ArrayInv'
<1>1. CASE UNCHANGED vars
  <2>1. /\ UNCHANGED <<main, ack, index, i, count, wnd, usable, window>>
        /\ UNCHANGED <<sent, worker, lock, rtx>>
    BY <1>1 DEF vars, mainVars, workerVars
  <2>2. TypeOK' /\ Locks' /\ WorkerInv'
    BY <2>1 DEF TypeOK, ArrayInv, Locks, WorkerInv
  <2> QED BY <2>1, <2>2, SameArray DEF ArrayInv
<1>2. CASE Worker
  BY <1>2, QuietSteps, StoreStep, TakeStep DEF Worker
<1>3. CASE Main
  BY <1>3, ReceiveStep, SearchStep, SearchEndsStep, SlideStep, SlideEndsStep, ClearStep,
     ClearEndsStep DEF Main
<1>4. CASE FetchBase
  BY <1>4, QuietSteps
<1> QED BY <1>1, <1>2, <1>3, <1>4 DEF Next

\* At first every place is NULL.
LEMMA ArrayInit ==
  ASSUME Init
  PROVE  TypeOK /\ ArrayInv
<1>1. TypeOK
  <2>1. wnd \in [Places -> Cells] /\ usable \in 0..WND
    BY Sizes DEF Init, Cells
  <2>2. window \in Seq(Packets) /\ Len(window) <= WND
    BY Sizes DEF Init
  <2>3. sent \in 0..(N + 3) /\ ack \in AckNums /\ index \in 0..WND /\ i \in 0..WND
        /\ count \in 0..WND
    BY Sizes DEF Init, AckNums
  <2> QED BY <2>1, <2>2, <2>3 DEF Init, TypeOK, WorkerStates, MainStates, Cells
<1>2. RestInv
  <2>1. Len(window) = 0
    BY DEF Init
  <2>2. \A p \in Places : wnd[p] = Null /\ ~(p < 0)
    BY Sizes DEF Init, Places
  <2> QED BY <2>1, <2>2, Sizes DEF Init, RestInv, Holds, Cell
<1>3. Locks /\ WorkerInv /\ SearchInv /\ RefreshInv /\ SlideInv /\ ClearInv
  BY Sizes DEF Init, Locks, WorkerInv, SearchInv, RefreshInv, SlideInv, ClearInv
<1> QED BY <1>1, <1>2, <1>3 DEF ArrayInv

\* Types: usable_wnd stays between 0 and the size of the window, and every access to
\* the array, by the worker and in the three loops, is inside it (windows.c:11-42).
THEOREM ArrayTypeCorrect == Spec => []TypeOK
<1>1. Init => TypeOK /\ ArrayInv
  BY ArrayInit
<1>2. TypeOK /\ ArrayInv /\ [Next]_vars => (TypeOK /\ ArrayInv)'
  BY ArrayStep
<1> QED BY <1>1, <1>2, PTL DEF Spec

\* The invariant: what the array holds at every step of update_window, incoming_ack
\* and refresh_window, in terms of the packets outstanding (windows.c:11-145).
THEOREM ArrayInvCorrect == Spec => []ArrayInv
<1>1. Init => TypeOK /\ ArrayInv
  BY ArrayInit
<1>2. TypeOK /\ ArrayInv /\ [Next]_vars => (TypeOK /\ ArrayInv)'
  BY ArrayStep
<1> QED BY <1>1, <1>2, PTL DEF Spec

\* Whenever the lock is free the array holds the packets outstanding, each once and in
\* order, NULL behind them, and usable_wnd counts the rest (windows.c:25-42).
THEOREM ArrayCorrect == Spec => []ArrayIsWindow
<1>1. TypeOK /\ ArrayInv => ArrayIsWindow
  <2>1. ASSUME TypeOK, ArrayInv, lock = "free"
        PROVE  (\A p \in Places : wnd[p] = Cell(window, p)) /\ usable = WND - Len(window)
    <3>1. main = "recv" /\ worker # "take"
      BY <2>1 DEF ArrayInv, Locks
    <3> QED BY <2>1, <3>1, WindowTypes, Sizes DEF ArrayInv, RestInv, Holds
  <2> QED BY <2>1 DEF ArrayIsWindow
<1> QED BY <1>1, ArrayTypeCorrect, ArrayInvCorrect, PTL

\* The signal handler, which takes no lock, reads the first packet outstanding, or
\* NULL if there is none, at any point of the slide (server.c:68).
THEOREM BaseCorrect == Spec => []BaseIsFirst
<1>1. TypeOK /\ ArrayInv => BaseIsFirst
  <2>1. SUFFICES ASSUME TypeOK, ArrayInv PROVE wnd[0] = Cell(window, 0)
    BY DEF BaseIsFirst
  <2>2. 0 \in Places /\ 0 + 1 = 1
    BY Sizes DEF Places
  <2>3. CASE main \in {"recv", "search"}
    BY <2>1, <2>2, <2>3 DEF ArrayInv, RestInv, Holds
  <2>4. CASE main \in {"slide", "clear"} /\ i = 0
    BY <2>1, <2>4 DEF ArrayInv, RefreshInv, BaseIsFirst
  <2>5. CASE main \in {"slide", "clear"} /\ i # 0
    <3>1. Target = window /\ Len(Target) \in Nat /\ i \in Nat /\ 0 < i
      BY <2>1, <2>5, TargetTypes DEF Target, TypeOK
    <3>2. CASE Len(Target) = 0
      <4>1. main = "clear" /\ count = 0
        BY <2>1, <2>5, <3>1, <3>2 DEF ArrayInv, SlideInv, ClearInv
      <4>2. wnd[0] = Null
        BY <2>1, <2>2, <3>1, <4>1 DEF ArrayInv, ClearInv
      <4> QED BY <3>1, <3>2, <4>2 DEF Cell
    <3>3. CASE Len(Target) # 0
      <4>1. wnd[0] = Target[1]
        BY <2>1, <2>2, <2>5, <3>1, <3>3 DEF ArrayInv, SlideInv, ClearInv
      <4> QED BY <2>2, <3>1, <3>3, <4>1 DEF Cell
    <3> QED BY <3>2, <3>3
  <2> QED BY <2>1, <2>3, <2>4, <2>5 DEF TypeOK, MainStates
<1> QED BY <1>1, ArrayTypeCorrect, ArrayInvCorrect, PTL

\* The worker, which tests usable_wnd without the lock, never sees a free place that
\* is not there, and sees all free only if every packet is acknowledged
\* (server.c:326, 345).
THEOREM RoomCorrect == Spec => []RoomIsThere
<1>1. TypeOK /\ ArrayInv => RoomIsThere
  <2>1. SUFFICES ASSUME TypeOK, ArrayInv, worker = "full"
                 PROVE  usable <= WND - Len(window)
    BY DEF RoomIsThere
  <2>2. CASE main \in {"recv", "search"}
    BY <2>1, <2>2, WindowTypes, Sizes DEF ArrayInv, RestInv
  <2>3. CASE main \in {"slide", "clear"}
    <3>1. Len(window) <= Len(Target) + index
      BY <2>1, <2>3, TargetTypes, WindowTypes DEF Target
    <3> QED BY <2>1, <2>3, <3>1, TargetTypes, WindowTypes, Sizes DEF ArrayInv, RefreshInv
  <2> QED BY <2>1, <2>2, <2>3 DEF TypeOK, MainStates
<1> QED BY <1>1, ArrayTypeCorrect, ArrayInvCorrect, PTL

\* The search of incoming_ack follows no NULL pointer (windows.c:116-117).
THEOREM SearchCorrect == Spec => []SearchIsInside
<1>1. TypeOK /\ ArrayInv => SearchIsInside
  <2>1. SUFFICES ASSUME TypeOK, ArrayInv, main = "search", index < WND - usable
                 PROVE  wnd[index] # Null
    BY DEF SearchIsInside
  <2>2. wnd[index] = window[index + 1] /\ index + 1 \in 1..Len(window)
    BY <2>1, Searching, WindowTypes
  <2> QED BY <2>1, <2>2, WindowTypes
<1> QED BY <1>1, ArrayTypeCorrect, ArrayInvCorrect, PTL

\* All the accesses to the array together are one update_window or one discard of
\* what an ACK acknowledges, on the sequence of packets: what GetTransfer takes for
\* one step (windows.c:113-138).
THEOREM AtomicCorrect == Spec => RefreshIsAtomic
<1> DEFINE Atomic ==
      \/ window' = window
      \/ window' = UpdateWindow(window, sent - 1) /\ Len(window) < WND
      \/ AckedPackets(window, ack, index) /\ window' = RefreshWindow(window, index)
<1>1. ASSUME TypeOK, ArrayInv, [Next]_vars PROVE Atomic
  <2>1. CASE StoreSent
    <3>1. main = "recv" /\ worker = "store"
      BY <1>1, <2>1 DEF StoreSent, ArrayInv, Locks
    <3>2. Len(window) < WND
      BY <1>1, <3>1, WindowTypes, Sizes DEF ArrayInv, RestInv, WorkerInv, TypeOK
    <3> QED BY <2>1, <3>2 DEF StoreSent
  <2>2. CASE Slide \/ Clear
    <3>1. main \in {"slide", "clear"}
      BY <2>2 DEF Slide, Clear
    <3>2. CASE i = 0
      <4>1. AckedPackets(window, ack, index)
        BY <1>1, <3>1, <3>2 DEF ArrayInv, RefreshInv
      <4> QED BY <2>2, <3>2, <4>1 DEF Slide, Clear
    <3>3. CASE i # 0
      BY <2>2, <3>3 DEF Slide, Clear
    <3> QED BY <3>2, <3>3
  <2>3. CASE ~(StoreSent \/ Slide \/ Clear)
    BY <1>1, <2>3
       DEF Next, Worker, Main, vars, Send, LockWindow, TakePlace, NotFull, FetchBase,
           ReceiveAck, SearchNext, SearchEnds, SlideEnds, ClearEnds
  <2> QED BY <2>1, <2>2, <2>3
<1>2. TypeOK /\ ArrayInv /\ [Next]_vars => [Atomic]_vars
  BY <1>1
<1> QED BY <1>2, ArrayTypeCorrect, ArrayInvCorrect, PTL DEF Spec, RefreshIsAtomic
=============================================================================
