------------------------ MODULE ReceiveBufferProofs ------------------------
(***************************************************************************)
(* Proofs of the safety properties of ReceiveBuffer, for every size of the *)
(* file and of the receive buffer, and for packets that arrive in any      *)
(* order and any number of times.                                          *)
(***************************************************************************)
EXTENDS ReceiveBuffer, WindowLemmas

----------------------------------------------------------------------------
(***************************************************************************)
(* The inductive invariant: what the loops have done so far.               *)
(***************************************************************************)

\* No Null is in front of a packet.
NoHole == \A m, n \in Places : m < n /\ buff[n] # Null => buff[m] # Null

\* store_rwnd is looking for the first Null.  If the packet belongs in front of a
\* buffered one, such a one is still ahead, so order_rwnd comes before the Null.
SearchInv ==
  pc = "search" =>
    /\ i < RWND /\ NoHole
    /\ predicted =>
         \E n \in i..(RWND - 1) : buff[n] # Null /\ SeqNum(pk) < SeqNum(buff[n])
    /\ ~predicted =>
         /\ queue[Len(queue)] = pk /\ i < Len(queue)
         /\ \A n \in DOMAIN queue : ~ (SeqNum(pk) < SeqNum(queue[n]))
         /\ \A n \in Places : buff[n] = IF n < Len(queue) - 1 THEN queue[n + 1] ELSE Null

\* order_rwnd loses none of the packets from place i to place i + j - 1, and one of
\* them is ahead of the packet that is to be stored.
OrderInv ==
  pc = "order" =>
    /\ predicted /\ NoHole
    /\ j # 0 /\ i + j <= RWND /\ buff[i + j - 1] # Null
    /\ \E n \in i..(i + j - 1) : SeqNum(pk) < SeqNum(buff[n])

\* The packet written before the one in place n.
Before(n) == IF n = i THEN pk ELSE buff[n - 1]

\* The drain will go on to place k, and queue is what is there and behind it.
DrainsTo(k) ==
  /\ k \in i..RWND /\ predicted = (k = RWND)
  /\ k + Len(queue) <= RWND
  /\ \A n \in Places : n < i => buff[n] = Null
  /\ \A n \in i..(k - 1) : buff[n] # Null /\ SeqNum(buff[n]) = SeqAfter(Before(n))
  /\ \A n \in Places : n >= k =>
       buff[n] = IF n < k + Len(queue) THEN queue[n - k + 1] ELSE Null
  /\ queue # << >> => SeqNum(queue[1]) # SeqAfter(Before(k))
  /\ ~repeated => \A n \in DOMAIN queue : SeqAfter(Before(k)) < queue[n]

DrainInv ==
  pc = "drain" => rcvNext = SeqAfter(pk) /\ j = 0 /\ \E k \in 0..RWND : DrainsTo(k)

\* The first j packets have been moved to the front, the others begin at i + j.
SlideInv ==
  pc = "slide" =>
    /\ ~predicted /\ i # 0 /\ i + Len(queue) <= RWND /\ j <= Len(queue)
    /\ \A n \in Places : buff[n] =
         IF n < j THEN queue[n + 1]
         ELSE IF i + j <= n /\ n < i + Len(queue) THEN queue[n - i + 1] ELSE Null

\* Without overruns and repetitions the packets are in increasing order.
QueueInv ==
  /\ Len(queue) <= RWND
  /\ ~predicted /\ ~repeated =>
       /\ Increasing(queue)
       /\ pc # "drain" => \A n \in DOMAIN queue : rcvNext < queue[n]

BufferInv ==
  /\ TypeOK /\ ArrayIsQueue /\ OverrunIsPredicted
  /\ SearchInv /\ OrderInv /\ DrainInv /\ SlideInv /\ QueueInv

----------------------------------------------------------------------------
\* Packets and their sequence numbers.
LEMMA PacketNumbers ==
  ASSUME NEW p \in Packets
  PROVE  /\ p \in Int /\ p >= 0 /\ p <= N + 1 /\ p # Null /\ SeqNum(p) = p
         /\ SeqAfter(p) \in 1..(N + 1) /\ p <= SeqAfter(p) /\ SeqAfter(p) <= p + 1
         /\ SeqAfter(p) = SeqNum(p) + DataSize(p)
         /\ p <= N => SeqAfter(p) = p + 1
         /\ DataSize(p) # 0 <=> p <= N
BY WindowsAssumption, ReceiveBufferAssumption DEF Packets, SeqNum, SeqAfter, DataSize

\* The sequence of Windows.
LEMMA QueueFacts ==
  ASSUME NEW s \in Seq(Packets)
  PROVE  /\ s \in Seq(Int) /\ Len(s) \in Nat /\ DOMAIN s = 1..Len(s)
         /\ \A n \in 1..Len(s) : s[n] \in Packets
<1>1. Packets \subseteq Int
  BY PacketNumbers
<1> QED BY <1>1, WiderSequence, LenProperties, ElementOfSeq

\* The ranges of the indices, and what the array and the sequence hold.
LEMMA TypeFacts ==
  ASSUME TypeOK
  PROVE  /\ i \in Nat /\ i <= RWND /\ j \in Nat /\ j <= RWND
         /\ RWND \in Nat /\ RWND > 0 /\ N \in Nat
         /\ rcvNext \in Int /\ pk \in Packets
         /\ buff \in [Places -> Cells]
         /\ \A n \in Places : buff[n] \in Packets \cup {Null}
         /\ queue \in Seq(Packets)
         /\ Len(queue) \in Nat /\ DOMAIN queue = 1..Len(queue)
         /\ \A n \in 1..Len(queue) : queue[n] \in Packets
<1>1. queue \in Seq(Packets)
  BY DEF TypeOK
<1> QED BY <1>1, QueueFacts, WindowsAssumption DEF TypeOK, Cells

\* A store into one place, or into two, of the array.
LEMMA CellStored ==
  ASSUME NEW f \in [Places -> Cells], NEW a \in Places, NEW x \in Cells,
         NEW g, g = [f EXCEPT ![a] = x]
  PROVE  /\ g \in [Places -> Cells]
         /\ \A n \in Places : g[n] = IF n = a THEN x ELSE f[n]
OBVIOUS

\* An array after two assignments.
LEMMA TwoCellsStored ==
  ASSUME NEW f \in [Places -> Cells], NEW a \in Places, NEW x \in Cells,
         NEW b \in Places, NEW y \in Cells, a # b,
         NEW g, g = [f EXCEPT ![a] = x, ![b] = y]
  PROVE  /\ g \in [Places -> Cells]
         /\ \A n \in Places : g[n] = IF n = a THEN x ELSE IF n = b THEN y ELSE f[n]
OBVIOUS

\* At first the array is empty.
LEMMA BufferInit == Init => BufferInv
<1> SUFFICES ASSUME Init PROVE BufferInv
  OBVIOUS
<1>1. queue = << >> /\ Len(queue) = 0 /\ DOMAIN queue = {} /\ queue \in Seq(Packets)
  BY EmptySeq, LenProperties DEF Init
<1>2. RWND \in Nat \ {0} /\ N \in Nat
  BY WindowsAssumption
<1>3. TypeOK
  <2>1. buff \in [Places -> Cells]
    BY DEF Init, Cells
  <2>2. rcvNext \in 1..(N + 1) /\ pk \in Packets /\ i \in 0..RWND /\ j \in 0..RWND
    BY <1>2 DEF Init, Packets
  <2>3. pc \in States /\ predicted \in BOOLEAN /\ repeated \in BOOLEAN
    BY DEF Init, States
  <2> QED BY <1>1, <2>1, <2>2, <2>3 DEF TypeOK
<1>4. ArrayIsQueue
  BY <1>1 DEF Init, ArrayIsQueue, Places
<1>5. QueueInv
  BY <1>1, <1>2 DEF Init, QueueInv, Increasing
<1> QED BY <1>3, <1>4, <1>5
        DEF Init, BufferInv, OverrunIsPredicted, SearchInv, OrderInv, DrainInv, SlideInv

\* QueueInv does not depend on the array.
LEMMA QueueKept ==
  ASSUME QueueInv, UNCHANGED <<queue, predicted, repeated, rcvNext>>,
         pc = "drain" => pc' = "drain"
  PROVE  QueueInv'
BY DEF QueueInv

----------------------------------------------------------------------------
\* store_rwnd.
LEMMA SearchEndsKept == ASSUME BufferInv, SearchEnds PROVE BufferInv'
<1>1. /\ TypeOK /\ QueueInv /\ SearchInv
      /\ pc = "search" /\ pc' = "recv" /\ i < RWND /\ buff[i] = Null
      /\ buff' = [buff EXCEPT ![i] = pk] /\ UNCHANGED <<rcvNext, pk, i, j, history>>
  BY DEF BufferInv, SearchEnds
<1>2. /\ i \in Nat /\ i \in Places /\ RWND \in Nat /\ pk \in Packets
      /\ buff \in [Places -> Cells] /\ Len(queue) \in Nat
      /\ \A n \in 1..Len(queue) : queue[n] \in Packets /\ queue[n] # Null
  BY <1>1, TypeFacts, PacketNumbers DEF Places
<1>3. ~predicted
  <2>1. SUFFICES ASSUME predicted PROVE FALSE
    OBVIOUS
  <2>2. PICK n \in i..(RWND - 1) : buff[n] # Null
    BY <1>1, <2>1 DEF SearchInv
  <2>3. n \in Places /\ i < n
    BY <1>1, <1>2, <2>2 DEF Places
  <2> QED BY <1>1, <1>2, <2>2, <2>3 DEF SearchInv, NoHole
<1>4. /\ queue[Len(queue)] = pk /\ i < Len(queue)
      /\ \A n \in Places : buff[n] = IF n < Len(queue) - 1 THEN queue[n + 1] ELSE Null
  BY <1>1, <1>3 DEF SearchInv
<1>5. i = Len(queue) - 1
  <2>1. SUFFICES ASSUME i < Len(queue) - 1 PROVE FALSE
    BY <1>2, <1>4
  <2>2. buff[i] = queue[i + 1] /\ i + 1 \in 1..Len(queue)
    BY <1>2, <1>4, <2>1
  <2> QED BY <1>1, <1>2, <2>2
<1>6. /\ buff' \in [Places -> Cells]
      /\ \A n \in Places : buff'[n] = IF n = i THEN pk ELSE buff[n]
  BY <1>1, <1>2, CellStored DEF Cells
<1>7. ArrayIsQueue'
  <2>1. ASSUME NEW n \in Places
        PROVE  buff'[n] = IF n < Len(queue) THEN queue[n + 1] ELSE Null
    <3>1. CASE n = i
      BY <1>2, <1>4, <1>5, <1>6, <3>1
    <3>2. CASE n # i
      <4>1. buff'[n] = IF n < Len(queue) - 1 THEN queue[n + 1] ELSE Null
        BY <1>4, <1>6, <3>2
      <4> QED BY <1>2, <1>5, <3>2, <4>1 DEF Places
    <3> QED BY <3>1, <3>2
  <2> QED BY <1>1, <2>1 DEF ArrayIsQueue, history
<1>8. TypeOK'
  BY <1>1, <1>6 DEF TypeOK, States, history
<1>9. QueueInv'
  BY <1>1, QueueKept DEF history
<1>10. (OverrunIsPredicted /\ SearchInv /\ OrderInv /\ DrainInv /\ SlideInv)'
  BY <1>1, <1>3 DEF OverrunIsPredicted, SearchInv, OrderInv, DrainInv, SlideInv, history
<1> QED BY <1>7, <1>8, <1>9, <1>10 DEF BufferInv

\* The search of store_rwnd goes on, or meets a later packet and calls order_rwnd.
LEMMA SearchOnKept == ASSUME BufferInv, SearchOn PROVE BufferInv'
<1>1. /\ TypeOK /\ QueueInv /\ SearchInv
      /\ pc = "search" /\ i < RWND /\ buff[i] # Null
      /\ UNCHANGED <<rcvNext, pk, buff, history>>
  BY DEF BufferInv, SearchOn
<1>2. /\ i \in Nat /\ i \in Places /\ RWND \in Nat /\ pk \in Packets
      /\ Len(queue) \in Nat /\ DOMAIN queue = 1..Len(queue) /\ Len(queue) <= RWND
  BY <1>1, TypeFacts DEF Places, QueueInv
<1>3. ~predicted => i < Len(queue) - 1 /\ ~ (SeqNum(pk) < SeqNum(buff[i]))
  <2> SUFFICES ASSUME ~predicted
               PROVE  i < Len(queue) - 1 /\ ~ (SeqNum(pk) < SeqNum(buff[i]))
    OBVIOUS
  <2>1. /\ buff[i] = IF i < Len(queue) - 1 THEN queue[i + 1] ELSE Null
        /\ \A n \in DOMAIN queue : ~ (SeqNum(pk) < SeqNum(queue[n]))
    BY <1>1, <1>2 DEF SearchInv
  <2>2. i < Len(queue) - 1 /\ buff[i] = queue[i + 1]
    BY <1>1, <2>1
  <2>3. i + 1 \in DOMAIN queue
    BY <1>2, <2>2
  <2> QED BY <2>1, <2>2, <2>3
<1>4. QueueInv'
  BY <1>1, QueueKept DEF history
<1>5. CASE SeqNum(pk) < SeqNum(buff[i])
  <2>1. pc' = "order" /\ j' = 1 /\ i' = i
    BY <1>5 DEF SearchOn
  <2>2. TypeOK'
    BY <1>1, <1>2, <2>1 DEF TypeOK, States, history
  <2>3. OrderInv'
    <3>1. predicted' /\ NoHole' /\ j' # 0 /\ i' + j' <= RWND /\ i' + j' - 1 = i
      BY <1>1, <1>2, <1>3, <1>5, <2>1 DEF SearchInv, NoHole, history
    <3>2. i \in i'..(i' + j' - 1)
      BY <1>2, <2>1
    <3> QED BY <1>1, <1>5, <3>1, <3>2 DEF OrderInv
  <2>4. (ArrayIsQueue /\ OverrunIsPredicted /\ SearchInv /\ DrainInv /\ SlideInv)'
    BY <2>1 DEF ArrayIsQueue, OverrunIsPredicted, SearchInv, DrainInv, SlideInv
  <2> QED BY <1>4, <2>2, <2>3, <2>4 DEF BufferInv
<1>6. CASE ~ (SeqNum(pk) < SeqNum(buff[i]))
  <2>1. pc' = "search" /\ j' = j /\ i' = i + 1
    BY <1>1, <1>6 DEF SearchOn
  <2>2. TypeOK'
    BY <1>1, <1>2, <2>1 DEF TypeOK, States, history
  <2>3. SearchInv'
    <3>1. predicted => \E n \in (i + 1)..(RWND - 1) :
                         buff[n] # Null /\ SeqNum(pk) < SeqNum(buff[n])
      <4> SUFFICES ASSUME predicted
                   PROVE  \E n \in (i + 1)..(RWND - 1) :
                            buff[n] # Null /\ SeqNum(pk) < SeqNum(buff[n])
        OBVIOUS
      <4>1. PICK n \in i..(RWND - 1) : buff[n] # Null /\ SeqNum(pk) < SeqNum(buff[n])
        BY <1>1 DEF SearchInv
      <4>2. n \in (i + 1)..(RWND - 1)
        BY <1>2, <1>6, <4>1
      <4> QED BY <4>1, <4>2
    <3>2. i + 1 < RWND
      <4>1. CASE predicted
        BY <1>2, <3>1, <4>1
      <4>2. CASE ~predicted
        BY <1>2, <1>3, <4>2
      <4> QED BY <4>1, <4>2
    <3>3. ~predicted => i + 1 < Len(queue)
      BY <1>2, <1>3
    <3>4. NoHole'
      BY <1>1 DEF SearchInv, NoHole
    <3>5. predicted' => \E n \in i'..(RWND - 1) :
                         buff'[n] # Null /\ SeqNum(pk') < SeqNum(buff'[n])
      BY <1>1, <2>1, <3>1 DEF history
    <3>6. ~predicted' =>
            /\ queue'[Len(queue')] = pk' /\ i' < Len(queue')
            /\ \A n \in DOMAIN queue' : ~ (SeqNum(pk') < SeqNum(queue'[n]))
            /\ \A n \in Places : buff'[n] =
                 IF n < Len(queue') - 1 THEN queue'[n + 1] ELSE Null
      BY <1>1, <2>1, <3>3 DEF SearchInv, history
    <3> QED BY <2>1, <3>2, <3>4, <3>5, <3>6 DEF SearchInv
  <2>4. (ArrayIsQueue /\ OverrunIsPredicted /\ OrderInv /\ DrainInv /\ SlideInv)'
    BY <2>1 DEF ArrayIsQueue, OverrunIsPredicted, OrderInv, DrainInv, SlideInv
  <2> QED BY <1>4, <2>2, <2>3, <2>4 DEF BufferInv
<1> QED BY <1>5, <1>6

\* order_rwnd.
LEMMA ShiftKept == ASSUME BufferInv, Shift PROVE BufferInv'
<1>1. /\ TypeOK /\ QueueInv /\ OrderInv
      /\ pc = "order" /\ i + j < RWND /\ buff[i + j] # Null
      /\ buff' = [buff EXCEPT ![i + j] = buff[i], ![i] = buff[i + 1]] /\ j' = j + 1
      /\ UNCHANGED <<pc, rcvNext, pk, i, history>>
  BY DEF BufferInv, Shift, NextShift
<1>2. /\ i \in Nat /\ j \in Nat /\ RWND \in Nat /\ j # 0
      /\ i \in Places /\ i + 1 \in Places /\ i + j \in Places /\ i + j # i
      /\ buff \in [Places -> Cells] /\ buff[i] \in Cells /\ buff[i + 1] \in Cells
  BY <1>1, TypeFacts DEF Places, OrderInv
<1>3. /\ buff' \in [Places -> Cells]
      /\ \A n \in Places : buff'[n] = IF n = i + j THEN buff[i]
                                      ELSE IF n = i THEN buff[i + 1] ELSE buff[n]
  BY <1>1, <1>2, TwoCellsStored, Zenon
<1>4. predicted /\ NoHole /\ \E n \in i..(i + j - 1) : SeqNum(pk) < SeqNum(buff[n])
  BY <1>1 DEF OrderInv
<1>5. \A n \in Places : n <= i + j => buff[n] # Null
  <2> SUFFICES ASSUME NEW n \in Places, n <= i + j PROVE buff[n] # Null
    OBVIOUS
  <2>1. CASE n = i + j
    BY <1>1, <2>1
  <2>2. CASE n < i + j
    BY <1>1, <1>2, <1>4, <2>2 DEF NoHole
  <2> QED BY <1>2, <2>1, <2>2 DEF Places
<1>6. \A n \in Places : buff'[n] = Null <=> buff[n] = Null
  <2> SUFFICES ASSUME NEW n \in Places PROVE buff'[n] = Null <=> buff[n] = Null
    OBVIOUS
  <2>1. buff[i] # Null /\ buff[i + 1] # Null /\ buff[i + j] # Null
    BY <1>2, <1>5
  <2> QED BY <1>3, <2>1
<1>7. OrderInv'
  <2>1. NoHole'
    BY <1>4, <1>6 DEF NoHole
  <2>2. j' # 0 /\ i' + j' <= RWND /\ i' + j' - 1 = i + j /\ buff'[i + j] # Null
    BY <1>1, <1>2, <1>6
  <2>3. \E n \in i'..(i' + j' - 1) : SeqNum(pk') < SeqNum(buff'[n])
    <3>1. PICK n \in i..(i + j - 1) : SeqNum(pk) < SeqNum(buff[n])
      BY <1>4
    <3>2. CASE n = i
      <4>1. buff'[i + j] = buff[n] /\ i + j \in i'..(i' + j' - 1)
        BY <1>1, <1>2, <1>3, <2>2, <3>2
      <4> QED BY <1>1, <3>1, <4>1
    <3>3. CASE n # i
      <4>1. n \in Places /\ n # i + j /\ n \in i'..(i' + j' - 1)
        BY <1>1, <1>2, <2>2 DEF Places
      <4>2. buff'[n] = buff[n]
        BY <1>3, <3>3, <4>1
      <4> QED BY <1>1, <3>1, <4>1, <4>2
    <3> QED BY <3>2, <3>3
  <2> QED BY <1>1, <1>4, <2>1, <2>2, <2>3 DEF OrderInv, history
<1>8. TypeOK'
  <2>1. j' \in 0..RWND
    BY <1>1, <1>2
  <2> QED BY <1>1, <1>3, <2>1 DEF TypeOK, history
<1>9. QueueInv'
  BY <1>1, QueueKept DEF history
<1>10. (ArrayIsQueue /\ OverrunIsPredicted /\ SearchInv /\ DrainInv /\ SlideInv)'
  BY <1>1 DEF ArrayIsQueue, OverrunIsPredicted, SearchInv, DrainInv, SlideInv
<1> QED BY <1>7, <1>8, <1>9, <1>10 DEF BufferInv

\* order_rwnd has reached a NULL and stores the packet.
LEMMA FillGapKept == ASSUME BufferInv, FillGap PROVE BufferInv'
<1>1. /\ TypeOK /\ QueueInv /\ OrderInv
      /\ pc = "order" /\ i + j < RWND /\ buff[i + j] = Null
      /\ buff' = [buff EXCEPT ![i + j] = buff[i], ![i] = pk]
      /\ i' = i + 1 /\ pc' = "search"
      /\ UNCHANGED <<rcvNext, pk, j, history>>
  BY DEF BufferInv, FillGap
<1>2. /\ i \in Nat /\ j \in Nat /\ RWND \in Nat /\ j # 0
      /\ i \in Places /\ i + j \in Places /\ i + j - 1 \in Places /\ i + j # i
      /\ buff \in [Places -> Cells] /\ buff[i] \in Cells
      /\ pk \in Cells /\ pk # Null
  <2>1. /\ i \in Nat /\ j \in Nat /\ RWND \in Nat /\ j # 0
        /\ buff \in [Places -> Cells] /\ pk \in Packets
    BY <1>1, TypeFacts DEF OrderInv
  <2>2. i \in Places /\ i + j \in Places /\ i + j - 1 \in Places /\ i + j # i
    BY <1>1, <2>1 DEF Places
  <2>3. pk \in Cells /\ pk # Null
    BY <2>1, PacketNumbers DEF Cells
  <2> QED BY <2>1, <2>2, <2>3
<1>3. /\ buff' \in [Places -> Cells]
      /\ \A n \in Places : buff'[n] = IF n = i + j THEN buff[i]
                                      ELSE IF n = i THEN pk ELSE buff[n]
  BY <1>1, <1>2, TwoCellsStored, Zenon
<1>4. /\ predicted /\ NoHole /\ buff[i + j - 1] # Null
      /\ \E n \in i..(i + j - 1) : SeqNum(pk) < SeqNum(buff[n])
  BY <1>1 DEF OrderInv
<1>5. \A n \in Places : n < i + j => buff[n] # Null
  <2> SUFFICES ASSUME NEW n \in Places, n < i + j PROVE buff[n] # Null
    OBVIOUS
  <2>1. CASE n = i + j - 1
    BY <1>4, <2>1
  <2>2. CASE n < i + j - 1
    BY <1>2, <1>4, <2>2 DEF NoHole
  <2> QED BY <1>2, <2>1, <2>2 DEF Places
<1>6. \A n \in Places : n <= i + j => buff'[n] # Null
  <2> SUFFICES ASSUME NEW n \in Places, n <= i + j PROVE buff'[n] # Null
    OBVIOUS
  <2>1. i < i + j /\ buff[i] # Null
    <3>1. i < i + j
      BY <1>2
    <3> QED BY <1>2, <1>5, <3>1
  <2>2. n < i + j \/ n = i + j
    BY <1>2 DEF Places
  <2> QED BY <1>2, <1>3, <1>5, <2>1, <2>2
<1>7. SearchInv'
  <2>1. NoHole'
    <3> SUFFICES ASSUME NEW m \in Places, NEW n \in Places, m < n, buff'[n] # Null
                 PROVE  buff'[m] # Null
      BY DEF NoHole
    <3>1. CASE m <= i + j
      BY <1>6, <3>1
    <3>2. CASE ~ (m <= i + j)
      <4>1. m # i + j /\ n # i + j /\ m # i /\ n # i
        BY <1>2, <3>2 DEF Places
      <4>2. buff'[m] = buff[m] /\ buff'[n] = buff[n]
        BY <1>3, <4>1
      <4> QED BY <1>4, <4>2 DEF NoHole
    <3> QED BY <3>1, <3>2
  <2>2. \E n \in i'..(RWND - 1) : buff'[n] # Null /\ SeqNum(pk') < SeqNum(buff'[n])
    <3>1. PICK n \in i..(i + j - 1) : SeqNum(pk) < SeqNum(buff[n])
      BY <1>4
    <3>2. CASE n = i
      <4>1. buff'[i + j] = buff[n] /\ i + j \in i'..(RWND - 1)
        BY <1>1, <1>2, <1>3, <3>2
      <4> QED BY <1>1, <1>2, <1>6, <3>1, <4>1
    <3>3. CASE n # i
      <4>1. n \in Places /\ n # i + j /\ n <= i + j /\ n \in i'..(RWND - 1)
        BY <1>1, <1>2, <3>3 DEF Places
      <4>2. buff'[n] = buff[n] /\ buff'[n] # Null
        BY <1>3, <1>6, <3>3, <4>1
      <4> QED BY <1>1, <3>1, <4>1, <4>2
    <3> QED BY <3>2, <3>3
  <2>3. i' < RWND
    BY <1>1, <1>2
  <2> QED BY <1>1, <1>4, <2>1, <2>2, <2>3 DEF SearchInv, history
<1>8. TypeOK'
  <2>1. i' \in 0..RWND
    BY <1>1, <1>2
  <2> QED BY <1>1, <1>3, <2>1 DEF TypeOK, States, history
<1>9. QueueInv'
  BY <1>1, QueueKept DEF history
<1>10. (ArrayIsQueue /\ OverrunIsPredicted /\ OrderInv /\ DrainInv /\ SlideInv)'
  BY <1>1 DEF ArrayIsQueue, OverrunIsPredicted, OrderInv, DrainInv, SlideInv
<1> QED BY <1>7, <1>8, <1>9, <1>10 DEF BufferInv

----------------------------------------------------------------------------
\* The reordering.
LEMMA SlideKept == ASSUME BufferInv, Slide PROVE BufferInv'
<1>1. /\ TypeOK /\ QueueInv /\ SlideInv
      /\ pc = "slide" /\ i + j < RWND /\ buff[i + j] # Null
      /\ buff' = [buff EXCEPT ![j] = buff[i + j], ![i + j] = Null] /\ j' = j + 1
      /\ UNCHANGED <<pc, rcvNext, pk, i, history>>
  BY DEF BufferInv, Slide, Moved
<1>2. /\ i \in Nat /\ j \in Nat /\ RWND \in Nat /\ i # 0 /\ Len(queue) \in Nat
      /\ buff \in [Places -> Cells]
  BY <1>1, TypeFacts DEF SlideInv
<1>3. i + j \in Places /\ j \in Places /\ j # i + j
  BY <1>1, <1>2 DEF Places
<1>4. buff[i + j] \in Cells /\ Null \in Cells
  BY <1>2, <1>3 DEF Cells
<1>5. /\ buff' \in [Places -> Cells]
      /\ \A n \in Places : buff'[n] = IF n = j THEN buff[i + j]
                                      ELSE IF n = i + j THEN Null ELSE buff[n]
  BY <1>1, <1>2, <1>3, <1>4, TwoCellsStored, Zenon
<1>6. /\ ~predicted /\ i + Len(queue) <= RWND /\ j <= Len(queue)
      /\ \A n \in Places : buff[n] =
           IF n < j THEN queue[n + 1]
           ELSE IF i + j <= n /\ n < i + Len(queue) THEN queue[n - i + 1] ELSE Null
  BY <1>1 DEF SlideInv
<1>7. j < Len(queue) /\ buff[i + j] = queue[j + 1]
  <2>1. ~ (i + j < j) /\ i + j <= i + j /\ (i + j) - i + 1 = j + 1
    BY <1>2
  <2>2. buff[i + j] = IF i + j < i + Len(queue) THEN queue[j + 1] ELSE Null
    BY <1>3, <1>6, <2>1
  <2>3. i + j < i + Len(queue) /\ buff[i + j] = queue[j + 1]
    BY <1>1, <2>2
  <2> QED BY <1>2, <2>3
<1>8. ASSUME NEW n \in Places
      PROVE  buff'[n] = IF n < j + 1 THEN queue[n + 1]
                        ELSE IF i + (j + 1) <= n /\ n < i + Len(queue)
                             THEN queue[n - i + 1] ELSE Null
  <2>1. n \in Nat
    BY <1>2 DEF Places
  <2>2. CASE n = j
    <3>1. n < j + 1 /\ buff'[n] = queue[n + 1]
      BY <1>2, <1>5, <1>7, <2>2
    <3> QED BY <3>1
  <2>3. CASE n = i + j
    <3>1. ~ (n < j + 1) /\ ~ (i + (j + 1) <= n) /\ n # j
      BY <1>2, <2>3
    <3>2. buff'[n] = Null
      BY <1>5, <2>3, <3>1
    <3> QED BY <3>1, <3>2
  <2>4. CASE n # j /\ n # i + j
    <3>1. buff'[n] = buff[n]
      BY <1>5, <2>4
    <3>2. (n < j + 1 <=> n < j) /\ (i + (j + 1) <= n <=> i + j <= n)
      BY <1>2, <2>1, <2>4
    <3> QED BY <1>6, <3>1, <3>2
  <2> QED BY <2>2, <2>3, <2>4
<1>9. SlideInv'
  <2>1. j + 1 <= Len(queue)
    BY <1>2, <1>7
  <2> QED BY <1>1, <1>2, <1>6, <1>8, <2>1 DEF SlideInv, history
<1>10. TypeOK'
  <2>1. j' \in 0..RWND
    BY <1>1, <1>2
  <2> QED BY <1>1, <1>5, <2>1 DEF TypeOK, history
<1>11. QueueInv'
  BY <1>1, QueueKept DEF history
<1>12. (ArrayIsQueue /\ OverrunIsPredicted /\ SearchInv /\ OrderInv /\ DrainInv)'
  BY <1>1 DEF ArrayIsQueue, OverrunIsPredicted, SearchInv, OrderInv, DrainInv
<1> QED BY <1>9, <1>10, <1>11, <1>12 DEF BufferInv

\* The reordering of the receiver ends: the array is the sequence again.
LEMMA SlideEndsKept == ASSUME BufferInv, SlideEnds PROVE BufferInv'
<1>1. /\ TypeOK /\ QueueInv /\ SlideInv
      /\ pc = "slide" /\ (i + j < RWND => buff[i + j] = Null)
      /\ pc' = "recv" /\ UNCHANGED <<rcvNext, pk, buff, i, j, history>>
  BY DEF BufferInv, SlideEnds
<1>2. /\ i \in Nat /\ j \in Nat /\ RWND \in Nat /\ i # 0 /\ Len(queue) \in Nat
      /\ \A n \in 1..Len(queue) : queue[n] \in Packets /\ queue[n] # Null
  BY <1>1, TypeFacts, PacketNumbers DEF SlideInv
<1>3. /\ ~predicted /\ i + Len(queue) <= RWND /\ j <= Len(queue)
      /\ \A n \in Places : buff[n] =
           IF n < j THEN queue[n + 1]
           ELSE IF i + j <= n /\ n < i + Len(queue) THEN queue[n - i + 1] ELSE Null
  BY <1>1 DEF SlideInv
<1>4. j = Len(queue)
  <2>1. SUFFICES ASSUME j < Len(queue) PROVE FALSE
    BY <1>2, <1>3
  <2>2. /\ i + j < RWND /\ i + j < i + Len(queue) /\ ~ (i + j < j)
        /\ i + j <= i + j /\ (i + j) - i + 1 = j + 1 /\ j + 1 \in 1..Len(queue)
        /\ i + j \in Places
    BY <1>2, <1>3, <2>1 DEF Places
  <2>3. buff[i + j] = queue[j + 1]
    BY <1>3, <2>2
  <2> QED BY <1>1, <1>2, <2>2, <2>3
<1>5. ASSUME NEW n \in Places
      PROVE  buff[n] = IF n < Len(queue) THEN queue[n + 1] ELSE Null
  <2>1. ~ (i + j <= n /\ n < i + Len(queue))
    BY <1>2, <1>4 DEF Places
  <2> QED BY <1>3, <1>4, <2>1
<1>6. ArrayIsQueue'
  BY <1>1, <1>5 DEF ArrayIsQueue, history
<1>7. TypeOK'
  BY <1>1 DEF TypeOK, States, history
<1>8. QueueInv'
  BY <1>1, QueueKept DEF history
<1>9. (OverrunIsPredicted /\ SearchInv /\ OrderInv /\ DrainInv /\ SlideInv)'
  BY <1>1, <1>3 DEF OverrunIsPredicted, SearchInv, OrderInv, DrainInv, SlideInv, history
<1> QED BY <1>6, <1>7, <1>8, <1>9 DEF BufferInv

----------------------------------------------------------------------------
\* The drain goes on exactly when it is not yet at its end.
LEMMA DrainPlace ==
  ASSUME TypeOK, i < RWND, NEW k \in 0..RWND, DrainsTo(k)
  PROVE  Follows(pk) <=> k # i
<1>1. /\ i \in Nat /\ RWND \in Nat /\ i \in Places /\ k \in i..RWND
      /\ Len(queue) \in Nat /\ DOMAIN queue = 1..Len(queue)
      /\ \A n \in 1..Len(queue) : queue[n] \in Packets
  BY TypeFacts DEF Places, DrainsTo
<1>2. CASE k = i
  <2>1. SUFFICES ASSUME Follows(pk) PROVE FALSE
    BY <1>2
  <2>2. buff[i] # Null /\ SeqNum(buff[i]) = SeqAfter(pk)
    BY <2>1 DEF Follows
  <2>3. i >= k /\ i - k + 1 = 1 /\ (i < k + Len(queue) <=> Len(queue) # 0)
    BY <1>1, <1>2
  <2>4. buff[i] = IF Len(queue) # 0 THEN queue[1] ELSE Null
    BY <1>1, <2>3 DEF DrainsTo
  <2>5. Len(queue) # 0 /\ buff[i] = queue[1]
    BY <2>2, <2>4
  <2>6. queue # << >> /\ Before(k) = pk
    BY <1>2, <2>5, EmptySeq DEF Before
  <2> QED BY <2>2, <2>5, <2>6 DEF DrainsTo
<1>3. CASE k # i
  <2>1. i \in i..(k - 1)
    BY <1>1, <1>3
  <2> QED BY <2>1 DEF DrainsTo, Before, Follows
<1> QED BY <1>2, <1>3

\* The drain takes the packet that follows the last one written.
LEMMA DrainOnKept == ASSUME BufferInv, DrainOn PROVE BufferInv'
<1>1. /\ TypeOK /\ QueueInv /\ DrainInv
      /\ pc = "drain" /\ i < RWND /\ Follows(pk)
      /\ rcvNext' = rcvNext + DataSize(buff[i]) /\ pk' = buff[i]
      /\ buff' = [buff EXCEPT ![i] = Null] /\ i' = i + 1
      /\ UNCHANGED <<pc, j, history>>
  BY DEF BufferInv, DrainOn, Advanced, LastWritten
<1>2. /\ i \in Nat /\ RWND \in Nat /\ i \in Places /\ pk \in Packets
      /\ buff \in [Places -> Cells] /\ Null \in Cells /\ Len(queue) \in Nat
  BY <1>1, TypeFacts DEF Places, Cells
<1>3. buff[i] \in Packets /\ SeqNum(buff[i]) = SeqAfter(pk)
  BY <1>1, <1>2 DEF Follows, Cells
<1>4. /\ buff' \in [Places -> Cells]
      /\ \A n \in Places : buff'[n] = IF n = i THEN Null ELSE buff[n]
  BY <1>1, <1>2, CellStored
<1>5. rcvNext' = SeqAfter(pk') /\ rcvNext' \in 1..(N + 1)
  <2>1. rcvNext = SeqNum(buff[i])
    BY <1>1, <1>3 DEF DrainInv
  <2> QED BY <1>1, <1>3, <2>1, PacketNumbers
<1>6. PICK k \in 0..RWND : DrainsTo(k)
  BY <1>1 DEF DrainInv
<1>7. k \in (i + 1)..RWND
  <2>1. k # i
    BY <1>1, <1>6, DrainPlace
  <2> QED BY <1>2, <1>6, <2>1 DEF DrainsTo
<1>8. \A n \in (i + 1)..k : Before(n)' = Before(n)
  <2> SUFFICES ASSUME NEW n \in (i + 1)..k
               PROVE  (IF n = i' THEN pk' ELSE buff'[n - 1])
                        = (IF n = i THEN pk ELSE buff[n - 1])
    BY DEF Before
  <2>1. n - 1 \in Places /\ n # i
    BY <1>2, <1>7 DEF Places
  <2>2. CASE n = i + 1
    <3>1. n - 1 = i
      BY <1>2, <2>2
    <3> QED BY <1>1, <2>1, <2>2, <3>1
  <2>3. CASE n # i + 1
    <3>1. n - 1 # i /\ n # i'
      BY <1>1, <1>2, <1>7, <2>3
    <3> QED BY <1>4, <2>1, <3>1
  <2> QED BY <2>2, <2>3
<1>9. DrainsTo(k)'
  <2>1. \A n \in Places : n < i + 1 => buff'[n] = Null
    <3> SUFFICES ASSUME NEW n \in Places, n < i + 1 PROVE buff'[n] = Null
      OBVIOUS
    <3>1. n = i \/ n < i
      BY <1>2 DEF Places
    <3> QED BY <1>4, <1>6, <3>1 DEF DrainsTo
  <2>2. \A n \in (i + 1)..(k - 1) : buff'[n] # Null /\ SeqNum(buff'[n]) = SeqAfter(Before(n)')
    <3> SUFFICES ASSUME NEW n \in (i + 1)..(k - 1)
                 PROVE  buff'[n] # Null /\ SeqNum(buff'[n]) = SeqAfter(Before(n)')
      OBVIOUS
    <3>1. n \in Places /\ n # i /\ n \in i..(k - 1) /\ n \in (i + 1)..k
      BY <1>2, <1>7 DEF Places
    <3>2. buff'[n] = buff[n] /\ Before(n)' = Before(n)
      BY <1>4, <1>8, <3>1
    <3>3. buff[n] # Null /\ SeqNum(buff[n]) = SeqAfter(Before(n))
      BY <1>6, <3>1 DEF DrainsTo
    <3> QED BY <3>2, <3>3
  <2>3. \A n \in Places : n >= k =>
          buff'[n] = IF n < k + Len(queue) THEN queue[n - k + 1] ELSE Null
    <3> SUFFICES ASSUME NEW n \in Places, n >= k
                 PROVE  buff'[n] = IF n < k + Len(queue) THEN queue[n - k + 1] ELSE Null
      OBVIOUS
    <3>1. n # i
      BY <1>2, <1>7
    <3> QED BY <1>4, <1>6, <3>1 DEF DrainsTo
  <2>4. k \in (i + 1)..k /\ Before(k)' = Before(k)
    BY <1>2, <1>7, <1>8
  <2>5. /\ predicted = (k = RWND) /\ k + Len(queue) <= RWND
        /\ queue # << >> => SeqNum(queue[1]) # SeqAfter(Before(k))
        /\ ~repeated => \A n \in DOMAIN queue : SeqAfter(Before(k)) < queue[n]
    BY <1>6 DEF DrainsTo
  <2>6. UNCHANGED <<queue, predicted, repeated>> /\ i' = i + 1
    BY <1>1 DEF history
  <2> QED BY <1>7, <2>1, <2>2, <2>3, <2>4, <2>5, <2>6 DEF DrainsTo
<1>10. DrainInv'
  <2>1. j' = 0
    BY <1>1 DEF DrainInv
  <2> QED BY <1>5, <1>9, <2>1 DEF DrainInv
<1>11. TypeOK'
  <2>1. i' \in 0..RWND
    BY <1>1, <1>2
  <2> QED BY <1>1, <1>3, <1>4, <1>5, <2>1 DEF TypeOK, history
<1>12. QueueInv'
  BY <1>1 DEF QueueInv, history
<1>13. (ArrayIsQueue /\ OverrunIsPredicted /\ SearchInv /\ OrderInv /\ SlideInv)'
  BY <1>1 DEF ArrayIsQueue, OverrunIsPredicted, SearchInv, OrderInv, SlideInv
<1> QED BY <1>10, <1>11, <1>12, <1>13 DEF BufferInv

\* The drain ends in front of a packet that does not follow, or at a NULL.
LEMMA DrainEndsKept == ASSUME BufferInv, DrainEnds PROVE BufferInv'
<1>1. /\ TypeOK /\ QueueInv /\ DrainInv
      /\ pc = "drain" /\ i < RWND /\ ~Follows(pk)
      /\ pc' = (IF i # 0 THEN "slide" ELSE "recv")
      /\ UNCHANGED <<rcvNext, pk, buff, i, j, history>>
  BY DEF BufferInv, DrainEnds
<1>2. /\ i \in Nat /\ RWND \in Nat /\ Len(queue) \in Nat /\ DOMAIN queue = 1..Len(queue)
  BY <1>1, TypeFacts
<1>3. DrainsTo(i)
  <2>1. PICK k \in 0..RWND : DrainsTo(k)
    BY <1>1 DEF DrainInv
  <2>2. k = i
    BY <1>1, <2>1, DrainPlace
  <2> QED BY <2>1, <2>2
<1>4. /\ ~predicted /\ i + Len(queue) <= RWND /\ j = 0 /\ rcvNext = SeqAfter(pk)
      /\ \A n \in Places : n < i => buff[n] = Null
      /\ \A n \in Places : n >= i =>
           buff[n] = IF n < i + Len(queue) THEN queue[n - i + 1] ELSE Null
      /\ ~repeated => \A n \in DOMAIN queue : rcvNext < queue[n]
  <2>1. Before(i) = pk
    BY DEF Before
  <2>2. i # RWND
    BY <1>1, <1>2
  <2> QED BY <1>1, <1>3, <2>1, <2>2 DEF DrainsTo, DrainInv
<1>5. QueueInv'
  BY <1>1, <1>4 DEF QueueInv, history
<1>6. TypeOK'
  BY <1>1 DEF TypeOK, States, history
<1>7. ArrayIsQueue'
  <2>1. ASSUME i = 0, NEW n \in Places
        PROVE  buff[n] = IF n < Len(queue) THEN queue[n + 1] ELSE Null
    <3>1. n >= i /\ i + Len(queue) = Len(queue) /\ n - i + 1 = n + 1
      BY <1>2, <2>1 DEF Places
    <3> QED BY <1>4, <3>1
  <2> QED BY <1>1, <2>1 DEF ArrayIsQueue, history
<1>8. SlideInv'
  <2>1. ASSUME NEW n \in Places
        PROVE  buff[n] = IF n < j THEN queue[n + 1]
                         ELSE IF i + j <= n /\ n < i + Len(queue)
                              THEN queue[n - i + 1] ELSE Null
    <3>1. n \in Nat /\ ~ (n < j) /\ i + j = i
      BY <1>2, <1>4 DEF Places
    <3>2. CASE n < i
      BY <1>2, <1>4, <3>1, <3>2
    <3>3. CASE n >= i
      BY <1>2, <1>4, <3>1, <3>3
    <3> QED BY <1>2, <3>1, <3>2, <3>3
  <2>2. pc' = "slide" => i # 0
    BY <1>1
  <2>3. j <= Len(queue)
    BY <1>2, <1>4
  <2> QED BY <1>1, <1>4, <2>1, <2>2, <2>3 DEF SlideInv, history
<1>9. (OverrunIsPredicted /\ SearchInv /\ OrderInv /\ DrainInv)'
  BY <1>1, <1>4 DEF OverrunIsPredicted, SearchInv, OrderInv, DrainInv, history
<1> QED BY <1>5, <1>6, <1>7, <1>8, <1>9 DEF BufferInv

\* A loop has left the array.
LEMMA OverrunKept ==
  ASSUME BufferInv, Overrun("order", i + j) \/ Overrun("drain", i)
  PROVE  BufferInv'
<1>1. /\ TypeOK /\ QueueInv /\ pc' = "overrun"
      /\ UNCHANGED <<rcvNext, pk, buff, i, j, history>>
  BY DEF BufferInv, Overrun
<1>2. predicted
  <2>1. CASE Overrun("order", i + j)
    BY <2>1 DEF Overrun, BufferInv, OrderInv
  <2>2. CASE Overrun("drain", i)
    <3>1. pc = "drain" /\ i = RWND /\ DrainInv /\ RWND \in Nat
      BY <1>1, <2>2, TypeFacts DEF Overrun, BufferInv
    <3>2. PICK k \in 0..RWND : DrainsTo(k)
      BY <3>1 DEF DrainInv
    <3>3. k = RWND
      BY <3>1, <3>2 DEF DrainsTo
    <3> QED BY <3>2, <3>3 DEF DrainsTo
  <2> QED BY <2>1, <2>2
<1>3. TypeOK'
  BY <1>1 DEF TypeOK, States, history
<1>4. QueueInv'
  BY <1>1, <1>2 DEF QueueInv, history
<1>5. (ArrayIsQueue /\ OverrunIsPredicted /\ SearchInv /\ OrderInv /\ DrainInv /\ SlideInv)'
  BY <1>1, <1>2
     DEF ArrayIsQueue, OverrunIsPredicted, SearchInv, OrderInv, DrainInv, SlideInv, history
<1> QED BY <1>3, <1>4, <1>5 DEF BufferInv

----------------------------------------------------------------------------
\* The packet that is expected.
LEMMA InOrderKept ==
  ASSUME BufferInv, NEW p \in Packets, ReceiveInOrder(p)
  PROVE  BufferInv'
<1>1. /\ TypeOK /\ QueueInv /\ ~predicted
      /\ pc = "recv" /\ SeqNum(p) = rcvNext /\ DataSize(p) # 0
      /\ pk' = p /\ rcvNext' = SeqAfter(p) /\ i' = 0 /\ j' = 0 /\ pc' = "drain"
      /\ UNCHANGED <<buff, repeated>>
      /\ \A n \in Places : buff[n] = IF n < Len(queue) THEN queue[n + 1] ELSE Null
  BY DEF BufferInv, ReceiveInOrder, OverrunIsPredicted, ArrayIsQueue
<1>2. /\ RWND \in Nat /\ RWND > 0 /\ queue \in Seq(Packets)
      /\ Len(queue) \in Nat /\ DOMAIN queue = 1..Len(queue)
      /\ \A n \in 1..Len(queue) : queue[n] \in Packets /\ queue[n] # Null
      /\ queue \in Seq(Int) /\ p \in Int /\ SeqNum(p) = p
      /\ Len(queue) <= RWND
  BY <1>1, TypeFacts, QueueFacts, PacketNumbers DEF QueueInv
<1>3. PICK k \in 0..Len(queue) :
        /\ Drains(p, queue, k)
        /\ predicted' = (k = RWND)
        /\ queue' = ReorderBuffer(queue, k)
  BY DEF ReceiveInOrder
<1>4. k \in Nat /\ k \in 0..RWND
  BY <1>2
<1>5. /\ queue' \in Seq(Packets) /\ Len(queue') = Len(queue) - k
      /\ \A n \in 1..(Len(queue) - k) : queue'[n] = queue[k + n]
  BY <1>2, <1>3, SuffixProperties DEF ReorderBuffer
<1> DEFINE prev(n) == IF n = 1 THEN p ELSE queue[n - 1]
           after   == SeqAfter(IF k = 0 THEN p ELSE queue[k])
<1>6. \A n \in 0..k : Before(n)' = prev(n + 1)
  <2> SUFFICES ASSUME NEW n \in 0..k
               PROVE  (IF n = i' THEN pk' ELSE buff'[n - 1]) = prev(n + 1)
    BY DEF Before
  <2>1. CASE n = 0
    BY <1>1, <2>1
  <2>2. CASE n # 0
    <3>1. n - 1 \in Places /\ n - 1 < Len(queue) /\ n + 1 # 1 /\ (n - 1) + 1 = n
          /\ (n + 1) - 1 = n
      BY <1>2, <2>2 DEF Places
    <3>2. buff[n - 1] = queue[n]
      BY <1>1, <3>1
    <3> QED BY <1>1, <2>2, <3>1, <3>2
  <2> QED BY <2>1, <2>2
<1>7. SeqAfter(Before(k)') = after
  <2>1. Before(k)' = prev(k + 1)
    BY <1>4, <1>6
  <2>2. prev(k + 1) = IF k = 0 THEN p ELSE queue[k]
    BY <1>4
  <2> QED BY <2>1, <2>2
<1>8. ~repeated => /\ Increasing(queue')
                   /\ \A n \in DOMAIN queue' : after < queue'[n]
  <2> SUFFICES ASSUME ~repeated
               PROVE  /\ Increasing(queue')
                      /\ \A n \in DOMAIN queue' : after < queue'[n]
    OBVIOUS
  <2>1. Increasing(queue) /\ \A n \in DOMAIN queue : rcvNext < queue[n]
    BY <1>1 DEF QueueInv
  <2>2. \A n \in DOMAIN queue : SeqNum(p) < SeqNum(queue[n])
    BY <1>1, <1>2, <2>1, PacketNumbers
  <2> DEFINE aft == after
  <2>3. aft = SeqAfter(IF k = 0 THEN p ELSE queue[k])
    OBVIOUS
  <2> HIDE DEF aft, after
  <2>4. /\ \A n \in DOMAIN queue' : aft < SeqNum(queue'[n])
        /\ Increasing(queue')
    BY <1>2, <1>3, <1>4, <2>1, <2>2, <2>3, DrainedAhead
  <2>5. \A n \in DOMAIN queue' : SeqNum(queue'[n]) = queue'[n]
    <3>1. \A n \in DOMAIN queue' : queue'[n] \in Packets
      BY <1>5, QueueFacts
    <3> QED BY <3>1, PacketNumbers
  <2> QED BY <2>4, <2>5 DEF aft
<1>9. DrainsTo(k)'
  <2>1. k \in i'..RWND /\ k + Len(queue') <= RWND
    BY <1>1, <1>2, <1>4, <1>5
  <2>2. \A n \in Places : n < i' => buff'[n] = Null
    BY <1>1, <1>2 DEF Places
  <2>3. \A n \in i'..(k - 1) : buff'[n] # Null /\ SeqNum(buff'[n]) = SeqAfter(Before(n)')
    <3> SUFFICES ASSUME NEW n \in 0..(k - 1)
                 PROVE  buff[n] # Null /\ SeqNum(buff[n]) = SeqAfter(Before(n)')
      BY <1>1
    <3>1. n \in Places /\ n < Len(queue) /\ n + 1 \in 1..k /\ n + 1 \in 1..Len(queue)
          /\ n \in 0..k
      BY <1>2, <1>4 DEF Places
    <3>2. buff[n] = queue[n + 1] /\ queue[n + 1] # Null
      BY <1>1, <1>2, <3>1
    <3>3. SeqNum(queue[n + 1]) = SeqAfter(prev(n + 1))
      BY <1>3, <3>1 DEF Drains
    <3>4. Before(n)' = prev(n + 1)
      BY <1>6, <3>1
    <3> HIDE DEF prev
    <3> QED BY <3>2, <3>3, <3>4
  <2>4. \A n \in Places : n >= k =>
          buff'[n] = IF n < k + Len(queue') THEN queue'[n - k + 1] ELSE Null
    <3> SUFFICES ASSUME NEW n \in Places, n >= k
                 PROVE  buff[n] = IF n < k + Len(queue') THEN queue'[n - k + 1] ELSE Null
      BY <1>1
    <3>1. n \in Nat /\ k + Len(queue') = Len(queue)
      BY <1>2, <1>4, <1>5 DEF Places
    <3>2. CASE n < Len(queue)
      <4>1. n - k + 1 \in 1..(Len(queue) - k) /\ k + (n - k + 1) = n + 1
        BY <1>2, <1>4, <3>1, <3>2
      <4>2. queue'[n - k + 1] = queue[n + 1]
        BY <1>5, <4>1
      <4> QED BY <1>1, <3>1, <3>2, <4>2
    <3>3. CASE ~ (n < Len(queue))
      BY <1>1, <3>1, <3>3
    <3> QED BY <3>2, <3>3
  <2>5. queue' # << >> => SeqNum(queue'[1]) # SeqAfter(Before(k)')
    <3> SUFFICES ASSUME queue' # << >>
                 PROVE  SeqNum(queue'[1]) # SeqAfter(Before(k)')
      OBVIOUS
    <3>1. Len(queue') # 0
      BY <1>5, EmptySeq
    <3>2. k < Len(queue) /\ 1 \in 1..(Len(queue) - k)
      <4>1. Len(queue) \in Nat /\ Len(queue') = Len(queue) - k
        BY <1>2, <1>5
      <4> QED BY <1>4, <3>1, <4>1
    <3>3. queue'[1] = queue[k + 1]
      BY <1>5, <3>2
    <3>4. SeqNum(queue[k + 1]) # SeqAfter(prev(k + 1))
      BY <1>3, <3>2 DEF Drains
    <3>5. Before(k)' = prev(k + 1)
      BY <1>4, <1>6
    <3> HIDE DEF prev
    <3> QED BY <3>3, <3>4, <3>5
  <2>6. ~repeated' => \A n \in DOMAIN queue' : SeqAfter(Before(k)') < queue'[n]
    BY <1>1, <1>7, <1>8, Zenon
  <2> QED BY <1>3, <2>1, <2>2, <2>3, <2>4, <2>5, <2>6 DEF DrainsTo
<1>10. DrainInv'
  BY <1>1, <1>4, <1>9 DEF DrainInv
<1>11. TypeOK'
  <2>1. rcvNext' \in 1..(N + 1) /\ i' \in 0..RWND /\ j' \in 0..RWND
    BY <1>1, <1>2, PacketNumbers
  <2>2. predicted' \in BOOLEAN
    BY <1>3
  <2> QED BY <1>1, <1>5, <2>1, <2>2 DEF TypeOK, States
<1>12. QueueInv'
  <2>1. Len(queue') <= RWND
    BY <1>2, <1>4, <1>5
  <2> QED BY <1>1, <1>8, <2>1 DEF QueueInv
<1>13. (ArrayIsQueue /\ OverrunIsPredicted /\ SearchInv /\ OrderInv /\ SlideInv)'
  BY <1>1 DEF ArrayIsQueue, OverrunIsPredicted, SearchInv, OrderInv, SlideInv
<1> QED BY <1>10, <1>11, <1>12, <1>13 DEF BufferInv

----------------------------------------------------------------------------
\* A packet ahead of it: what Windows makes of it.
LEMMA StoredInQueue ==
  ASSUME BufferInv, NEW p \in Packets, ReceiveOutOfOrder(p)
  PROVE  /\ queue' \in Seq(Packets) /\ Len(queue') <= RWND
         /\ Len(queue) = RWND => queue' = queue /\ ~predicted'
         /\ Len(queue) # RWND =>
              /\ Len(queue') = Len(queue) + 1 /\ queue'[Len(queue) + 1] = p
              /\ \A n \in 1..Len(queue) : queue'[n] = queue[n]
         /\ queue = << >> => ~predicted'
         /\ QueueInv'
<1>1. /\ TypeOK /\ QueueInv /\ ~predicted /\ pc = "recv" /\ SeqNum(p) > rcvNext
      /\ pc' # "drain" /\ UNCHANGED rcvNext
      /\ predicted' = MustOrder(p, queue) /\ queue' = StoreRwnd(p, queue)
      /\ repeated' = (repeated \/ \E n \in DOMAIN queue : SeqNum(queue[n]) = SeqNum(p))
  BY DEF BufferInv, ReceiveOutOfOrder, OverrunIsPredicted
<1>2. /\ RWND \in Nat /\ RWND > 0 /\ queue \in Seq(Packets)
      /\ Len(queue) \in Nat /\ DOMAIN queue = 1..Len(queue) /\ Len(queue) <= RWND
      /\ \A n \in DOMAIN queue : queue[n] \in Int /\ SeqNum(queue[n]) = queue[n]
      /\ queue \in Seq(Int) /\ p \in Int /\ SeqNum(p) = p /\ rcvNext \in Int
  BY <1>1, TypeFacts, QueueFacts, PacketNumbers DEF QueueInv
<1>3. CASE Len(queue) = RWND
  <2>1. queue' = queue /\ ~predicted' /\ (~repeated' => ~repeated)
    <3>1. RWND \in Nat /\ Len(queue) \in Nat
      BY <1>2
    <3>2. ~ (Len(queue) < RWND)
      BY <1>3, <3>1
    <3> QED BY <1>1, <3>2 DEF StoreRwnd, MustOrder
  <2>2. QueueInv'
    BY <1>1, <2>1 DEF QueueInv
  <2>3. queue # << >>
    <3>1. RWND > 0 /\ RWND \in Nat
      BY <1>2
    <3> QED BY <1>3, <3>1, EmptySeq
  <2> QED BY <1>2, <1>3, <2>1, <2>2, <2>3
<1>4. CASE Len(queue) # RWND
  <2>1. Len(queue) < RWND /\ queue' = Append(queue, p)
    <3>1. RWND \in Nat /\ Len(queue) \in Nat /\ Len(queue) <= RWND
      BY <1>2
    <3>2. Len(queue) < RWND
      BY <1>4, <3>1
    <3> QED BY <1>1, <3>2 DEF StoreRwnd
  <2>2. /\ queue' \in Seq(Packets) /\ Len(queue') = Len(queue) + 1
        /\ queue'[Len(queue) + 1] = p
        /\ \A n \in 1..Len(queue) : queue'[n] = queue[n]
    BY <1>2, <2>1, AppendProperties
  <2>3. queue = << >> => ~predicted'
    BY <1>1 DEF MustOrder
  <2>4. ASSUME ~predicted', ~repeated'
        PROVE  Increasing(queue') /\ \A n \in DOMAIN queue' : rcvNext < queue'[n]
    <3>1. Increasing(queue) /\ \A n \in DOMAIN queue : rcvNext < queue[n]
      BY <1>1, <2>4 DEF QueueInv
    <3>2. ASSUME NEW n \in DOMAIN queue
          PROVE  queue[n] < p
      <4>1. queue # << >>
        BY <1>2, EmptySeq
      <4>2. ~ (SeqNum(p) < SeqNum(queue[n])) /\ SeqNum(queue[n]) # SeqNum(p)
        BY <1>1, <2>1, <2>4, <4>1 DEF MustOrder
      <4> QED BY <1>2, <4>2
    <3>3. Increasing(queue')
      BY <1>2, <2>1, <3>1, <3>2, StoredLast
    <3>4. ASSUME NEW n \in DOMAIN queue'
          PROVE  rcvNext < queue'[n]
      <4>1. n \in 1..Len(queue) \/ n = Len(queue) + 1
        <5>1. DOMAIN queue' = 1..(Len(queue) + 1)
          BY <2>2, LenProperties
        <5> QED BY <1>2, <5>1
      <4>2. p > rcvNext
        BY <1>1, <1>2
      <4> QED BY <1>2, <2>2, <3>1, <4>1, <4>2
    <3> QED BY <3>3, <3>4
  <2>5. Len(queue') <= RWND
    BY <1>2, <2>1, <2>2
  <2>6. QueueInv'
    BY <1>1, <2>4, <2>5 DEF QueueInv
  <2> QED BY <1>4, <2>2, <2>3, <2>5, <2>6
<1> QED BY <1>3, <1>4

\* A packet comes that is not the expected one.
LEMMA OutOfOrderKept ==
  ASSUME BufferInv, NEW p \in Packets, ReceiveOutOfOrder(p)
  PROVE  BufferInv'
<1>1. /\ TypeOK /\ QueueInv /\ ~predicted /\ pc = "recv"
      /\ pk' = p /\ i' = 0 /\ UNCHANGED <<rcvNext, j>>
      /\ predicted' = MustOrder(p, queue)
      /\ repeated' \in BOOLEAN
      /\ \A n \in Places : buff[n] = IF n < Len(queue) THEN queue[n + 1] ELSE Null
  BY DEF BufferInv, ReceiveOutOfOrder, OverrunIsPredicted, ArrayIsQueue, TypeOK
<1>2. /\ RWND \in Nat /\ RWND > 0 /\ 0 \in Places /\ RWND - 1 \in Places
      /\ queue \in Seq(Packets) /\ buff \in [Places -> Cells]
      /\ Len(queue) \in Nat /\ DOMAIN queue = 1..Len(queue) /\ Len(queue) <= RWND
      /\ \A n \in 1..Len(queue) : queue[n] \in Packets /\ queue[n] # Null
      /\ p \in Cells /\ SeqNum(p) = p /\ p \in Int
  BY <1>1, TypeFacts, PacketNumbers DEF QueueInv, Places, Cells
<1>3. /\ queue' \in Seq(Packets) /\ Len(queue') <= RWND
      /\ Len(queue) = RWND => queue' = queue /\ ~predicted'
      /\ Len(queue) # RWND =>
           /\ Len(queue') = Len(queue) + 1 /\ queue'[Len(queue) + 1] = p
           /\ \A n \in 1..Len(queue) : queue'[n] = queue[n]
      /\ queue = << >> => ~predicted'
      /\ QueueInv'
  BY StoredInQueue
<1>4. predicted' \in BOOLEAN
  BY <1>1 DEF MustOrder
<1>5. CASE buff[0] = Null
  <2>1. Len(queue) = 0 /\ queue = << >>
    <3>1. ~ (0 < Len(queue))
      BY <1>1, <1>2, <1>5
    <3> QED BY <1>2, <3>1, EmptySeq
  <2>2. buff' = [buff EXCEPT ![0] = p] /\ pc' = "recv"
    BY <1>1, <1>5 DEF ReceiveOutOfOrder
  <2>3. /\ buff' \in [Places -> Cells]
        /\ \A n \in Places : buff'[n] = IF n = 0 THEN p ELSE buff[n]
    BY <1>2, <2>2, CellStored
  <2>4. ArrayIsQueue'
    <3>1. Len(queue') = 1 /\ queue'[1] = p
      BY <1>2, <1>3, <2>1
    <3>2. ASSUME NEW n \in Places
          PROVE  buff'[n] = IF n < Len(queue') THEN queue'[n + 1] ELSE Null
      <4>1. n \in Nat
        BY <1>2 DEF Places
      <4> QED BY <1>1, <2>1, <2>3, <3>1, <4>1
    <3> QED BY <3>2 DEF ArrayIsQueue
  <2>5. TypeOK'
    <3>1. i' \in 0..RWND
      BY <1>1, <1>2
    <3> QED BY <1>1, <1>3, <1>4, <2>2, <2>3, <3>1 DEF TypeOK, States
  <2>6. (OverrunIsPredicted /\ SearchInv /\ OrderInv /\ DrainInv /\ SlideInv)'
    BY <1>3, <2>1, <2>2 DEF OverrunIsPredicted, SearchInv, OrderInv, DrainInv, SlideInv
  <2> QED BY <1>3, <2>4, <2>5, <2>6 DEF BufferInv
<1>6. CASE buff[0] # Null /\ IsFull
  <2>1. buff' = buff /\ pc' = "recv"
    BY <1>6 DEF ReceiveOutOfOrder
  <2>2. Len(queue) = RWND
    <3>1. RWND - 1 < Len(queue)
      BY <1>1, <1>2, <1>6 DEF IsFull
    <3>2. RWND \in Nat /\ Len(queue) \in Nat /\ Len(queue) <= RWND
      BY <1>2
    <3> QED BY <3>1, <3>2
  <2>3. queue' = queue /\ ~predicted'
    BY <1>3, <2>2
  <2>4. ArrayIsQueue'
    BY <1>1, <2>1, <2>3 DEF ArrayIsQueue
  <2>5. TypeOK'
    <3>1. i' \in 0..RWND
      BY <1>1, <1>2
    <3> QED BY <1>1, <1>3, <1>4, <2>1, <3>1 DEF TypeOK, States
  <2>6. (OverrunIsPredicted /\ SearchInv /\ OrderInv /\ DrainInv /\ SlideInv)'
    BY <2>1, <2>3 DEF OverrunIsPredicted, SearchInv, OrderInv, DrainInv, SlideInv
  <2> QED BY <1>3, <2>4, <2>5, <2>6 DEF BufferInv
<1>7. CASE buff[0] # Null /\ ~IsFull
  <2>1. buff' = buff /\ pc' = "search"
    BY <1>7 DEF ReceiveOutOfOrder
  <2>2. Len(queue) < RWND /\ 0 < Len(queue)
    <3>1. 0 < Len(queue)
      BY <1>1, <1>2, <1>7
    <3>2. Len(queue) # RWND
      <4>1. SUFFICES ASSUME Len(queue) = RWND PROVE FALSE
        OBVIOUS
      <4>2. RWND - 1 < Len(queue) /\ (RWND - 1) + 1 = RWND /\ RWND \in 1..Len(queue)
        BY <1>2, <4>1
      <4>3. buff[RWND - 1] = queue[RWND]
        BY <1>1, <1>2, <4>2
      <4> QED BY <1>2, <1>7, <4>2, <4>3 DEF IsFull
    <3>3. RWND \in Nat /\ Len(queue) \in Nat /\ Len(queue) <= RWND
      BY <1>2
    <3> QED BY <3>1, <3>2, <3>3
  <2>3. /\ Len(queue') = Len(queue) + 1 /\ queue'[Len(queue')] = p
        /\ \A n \in 1..Len(queue) : queue'[n] = queue[n]
        /\ DOMAIN queue' = 1..(Len(queue) + 1)
    <3>1. RWND \in Nat /\ Len(queue) \in Nat
      BY <1>2
    <3>2. Len(queue) # RWND
      BY <2>2, <3>1
    <3> QED BY <1>3, <3>2, LenProperties
  <2>4. SearchInv'
    <3>1. NoHole'
      <4>1. NoHole
        <5> SUFFICES ASSUME NEW m \in Places, NEW n \in Places, m < n, buff[n] # Null
                     PROVE  buff[m] # Null
          BY DEF NoHole
        <5>1. n < Len(queue)
          BY <1>1
        <5>2. m < Len(queue) /\ m + 1 \in 1..Len(queue)
          BY <1>2, <5>1 DEF Places
        <5> QED BY <1>1, <1>2, <5>2
      <4> QED BY <2>1, <4>1 DEF NoHole
    <3>2. predicted' => \E n \in 0..(RWND - 1) :
                          buff[n] # Null /\ SeqNum(p) < SeqNum(buff[n])
      <4> SUFFICES ASSUME MustOrder(p, queue)
                   PROVE  \E n \in 0..(RWND - 1) :
                            buff[n] # Null /\ SeqNum(p) < SeqNum(buff[n])
        BY <1>1
      <4>1. PICK n \in 1..Len(queue) : SeqNum(p) < SeqNum(queue[n])
        BY <1>2 DEF MustOrder
      <4>2. n - 1 \in 0..(RWND - 1) /\ n - 1 < Len(queue) /\ (n - 1) + 1 = n
        BY <1>2, <2>2
      <4>3. buff[n - 1] = queue[n] /\ queue[n] # Null
        BY <1>1, <1>2, <4>2 DEF Places
      <4> QED BY <4>1, <4>2, <4>3
    <3>3. ~predicted' => \A n \in DOMAIN queue' : ~ (SeqNum(p) < SeqNum(queue'[n]))
      <4> SUFFICES ASSUME ~MustOrder(p, queue), NEW n \in 1..(Len(queue) + 1)
                   PROVE  ~ (SeqNum(p) < SeqNum(queue'[n]))
        BY <1>1, <2>3
      <4>1. CASE n = Len(queue) + 1
        <5>1. queue'[n] = p
          BY <2>3, <4>1
        <5> QED BY <1>2, <5>1
      <4>2. CASE n # Len(queue) + 1
        <5>1. n \in DOMAIN queue /\ queue # << >>
          BY <1>2, <2>2, <4>2, EmptySeq
        <5>2. queue'[n] = queue[n]
          BY <1>2, <2>3, <5>1
        <5> QED BY <2>2, <5>1, <5>2 DEF MustOrder
      <4> QED BY <4>1, <4>2
    <3>4. \A n \in Places : buff[n] = IF n < Len(queue') - 1 THEN queue'[n + 1] ELSE Null
      <4> SUFFICES ASSUME NEW n \in Places
                   PROVE  buff[n] = IF n < Len(queue') - 1 THEN queue'[n + 1] ELSE Null
        OBVIOUS
      <4>1. Len(queue') - 1 = Len(queue)
        BY <1>2, <2>3
      <4>2. n < Len(queue) => queue'[n + 1] = queue[n + 1]
        BY <1>2, <2>3 DEF Places
      <4> QED BY <1>1, <4>1, <4>2
    <3>5. 0 < RWND /\ 0 < Len(queue')
      BY <1>2, <2>2, <2>3
    <3> QED BY <1>1, <2>1, <2>3, <3>1, <3>2, <3>3, <3>4, <3>5 DEF SearchInv
  <2>5. TypeOK'
    <3>1. i' \in 0..RWND
      BY <1>1, <1>2
    <3> QED BY <1>1, <1>3, <1>4, <2>1, <3>1 DEF TypeOK, States
  <2>6. (ArrayIsQueue /\ OverrunIsPredicted /\ OrderInv /\ DrainInv /\ SlideInv)'
    BY <2>1 DEF ArrayIsQueue, OverrunIsPredicted, OrderInv, DrainInv, SlideInv
  <2> QED BY <1>3, <2>4, <2>5, <2>6 DEF BufferInv
<1> QED BY <1>5, <1>6, <1>7

\* Every turn of a loop keeps the invariant.
LEMMA BufferNext == BufferInv /\ [Next]_vars => BufferInv'
<1> SUFFICES ASSUME BufferInv, [Next]_vars PROVE BufferInv'
  OBVIOUS
<1>1. CASE \E p \in Packets : ReceiveInOrder(p) \/ ReceiveOutOfOrder(p)
  BY <1>1, InOrderKept, OutOfOrderKept
<1>2. CASE SearchOn \/ SearchEnds \/ Shift \/ FillGap
  BY <1>2, SearchOnKept, SearchEndsKept, ShiftKept, FillGapKept
<1>3. CASE DrainOn \/ DrainEnds \/ Slide \/ SlideEnds
  BY <1>3, DrainOnKept, DrainEndsKept, SlideKept, SlideEndsKept
<1>4. CASE Overrun("order", i + j) \/ Overrun("drain", i)
  BY <1>4, OverrunKept
<1>5. CASE UNCHANGED vars
  BY <1>5 DEF BufferInv, vars, history, TypeOK, ArrayIsQueue, OverrunIsPredicted, SearchInv,
              NoHole, OrderInv, DrainInv, DrainsTo, Before, SlideInv, QueueInv
<1> QED BY <1>1, <1>2, <1>3, <1>4, <1>5 DEF Next, Loops

\* What the loops over the receive buffer have done at every turn, for packets in any
\* order and number (windows.c:50-98, client.c:196-230).
THEOREM BufferInvCorrect == Spec => []BufferInv
BY BufferInit, BufferNext, PTL DEF Spec

----------------------------------------------------------------------------
(***************************************************************************)
(* What the runs check.                                                    *)
(***************************************************************************)

\* Every variable of the receiver keeps its type: no loop reads or writes outside
\* the array (windows.c:50-98, client.c:357-382).
THEOREM TypeCorrect == Spec => []TypeOK
<1>1. BufferInv => TypeOK
  BY DEF BufferInv
<1> QED BY <1>1, BufferInvCorrect, PTL

\* Between two packets the array is the sequence of Windows: the loops compute
\* StoreRwnd, Drains and ReorderBuffer (windows.c:75, client.c:357-382).
THEOREM ArrayCorrect == Spec => []ArrayIsQueue
<1>1. BufferInv => ArrayIsQueue
  BY DEF BufferInv
<1> QED BY <1>1, BufferInvCorrect, PTL

\* The loops leave the array only when Windows says so, and when Windows says so the
\* receiver does not come to another packet (windows.c:50-66, client.c:360).
THEOREM OverrunCorrect == Spec => []OverrunIsPredicted
<1>1. BufferInv => OverrunIsPredicted
  BY DEF BufferInv
<1> QED BY <1>1, BufferInvCorrect, PTL

\* Without a packet that comes once more while it is buffered, what is in the buffer
\* is ahead of rcv_next (windows.c:88-94).
THEOREM AheadCorrect == Spec => []AheadUnlessRepeated
<1>1. BufferInv => AheadUnlessRepeated
  <2> SUFFICES ASSUME BufferInv, pc = "recv", ~repeated, NEW n \in Places, buff[n] # Null
               PROVE  SeqNum(buff[n]) > rcvNext
    BY DEF AheadUnlessRepeated
  <2>1. n < Len(queue) /\ buff[n] = queue[n + 1]
    BY DEF BufferInv, ArrayIsQueue
  <2>2. n + 1 \in DOMAIN queue /\ queue[n + 1] \in Packets /\ rcvNext \in Int
    BY <2>1, TypeFacts DEF BufferInv, Places
  <2>3. rcvNext < queue[n + 1]
    BY <2>2 DEF BufferInv, OverrunIsPredicted, QueueInv
  <2> QED BY <2>1, <2>2, <2>3, PacketNumbers
<1> QED BY <1>1, BufferInvCorrect, PTL
=============================================================================
