------------------------- MODULE ClientProcessProofs -------------------------
(***************************************************************************)
(* Proofs of the properties of ClientProcess, for every number of choices. *)
(***************************************************************************)
EXTENDS ClientProcess, SequenceLemmas

----------------------------------------------------------------------------
(***************************************************************************)
(* The inductive invariant.                                                *)
(***************************************************************************)

MainStates == {"menu", "socket", "timer", "create", "thread", "base", "args", "start",
               "join", "exited", "unjoined", "failed"}

Walks == [ptr : Int, timer : Nat, tm : Nat, pk : Nat, sock : Nat, found : BOOLEAN,
          known : Nat]

ClientTypes ==
  /\ main \in MainStates /\ oper \in Opers
  /\ head \in Nat \ {0} /\ running \in Nat /\ buffer \in Nat
  /\ socks \in Nat /\ timers \in Seq(Int) /\ tids \in Seq(Nat) /\ bases \in Nat
  /\ threads \in Seq({"created", "runs", "waits", "ended"})
  /\ given \in Seq(Nat) /\ Len(given) = Len(threads)
  /\ armed \in SUBSET Nat
  /\ walk \in Walks
  /\ firstId \in {0, 1}

\* Main extends the lists in the order sockets, timers, threads, bases, and starts a
\* thread when all four are as long.
ListsInOrder ==
  /\ socks = bases + (IF main \in {"timer", "create", "thread", "base"} THEN 1 ELSE 0)
  /\ Len(timers) = bases + (IF main \in {"create", "thread", "base"} THEN 1 ELSE 0)
  /\ Len(tids) = bases + (IF main = "base" THEN 1 ELSE 0)
  /\ Len(threads) <= bases
  /\ main \in {"args", "start"} => Len(threads) < bases
  /\ armed # {} => Len(threads) # 0

\* The nodes that will get no thread any more than they have.
Settled ==
  IF main \in {"base", "args", "start", "join", "exited", "unjoined"} THEN Len(tids) - 1
                                                                     ELSE Len(tids)

\* Nodes get the threads in order: in front of the first node without a thread, node n
\* has thread n.  Those before head have been joined, the others are counted.
JoinsInOrder ==
  /\ \A n \in 1..Settled : tids[n] = n \/ \E m \in 1..n : tids[m] = Unset
  /\ Len(threads) = Settled \/ \E m \in 1..Settled : tids[m] = Unset
  /\ \A t \in 1..Len(threads) : \E n \in 1..Settled : tids[n] = t
  /\ head - 1 + running = Len(threads) /\ head - 1 <= Settled
  /\ \A n \in 1..(head - 1) : tids[n] # Unset
  /\ \A t \in 1..(head - 1) : threads[t] = "ended"

\* The last node has no thread yet.
LastIsUnset ==
  main \in {"base", "args", "start", "join"} => Len(tids) # 0 /\ tids[Len(tids)] = Unset

\* After a call that failed nothing moves any more.
ClientInv ==
  /\ ClientTypes
  /\ main = "failed" \/ (ListsInOrder /\ JoinsInOrder /\ LastIsUnset)
  /\ WalkIsAligned /\ walk.known <= bases
  /\ ExitWaits

----------------------------------------------------------------------------
(***************************************************************************)
(* Steps of the main thread.                                               *)
(***************************************************************************)

\* Before the first choice the lists are empty and no thread runs.
LEMMA ClientInit == Init => ClientInv
<1> SUFFICES ASSUME Init PROVE ClientInv
  OBVIOUS
<1>1. \A S : << >> \in Seq(S) /\ Len(<< >>) = 0 /\ DOMAIN << >> = {}
  BY EmptySeq
<1>2. ClientTypes
  BY <1>1 DEF Init, ClientTypes, MainStates, Opers, NoWalk, Walks, Unset
<1>3. ListsInOrder /\ JoinsInOrder /\ LastIsUnset
  BY <1>1 DEF Init, ListsInOrder, JoinsInOrder, Settled, LastIsUnset
<1>4. WalkIsAligned /\ walk.known <= bases /\ ExitWaits
  BY DEF Init, NoWalk, WalkIsAligned, ExitWaits
<1> QED BY <1>2, <1>3, <1>4 DEF ClientInv

\* The lengths, as numbers.
LEMMA ListLengths ==
  ClientTypes => /\ Len(timers) \in Nat /\ DOMAIN timers = 1..Len(timers)
                 /\ Len(tids) \in Nat /\ DOMAIN tids = 1..Len(tids)
                 /\ Len(threads) \in Nat /\ DOMAIN threads = 1..Len(threads)
                 /\ DOMAIN given = 1..Len(threads)
BY LenProperties DEF ClientTypes

\* What is in front of the last node of a list is not the last node.
LEMMA BeforeLast ==
  ASSUME NEW L \in Nat, NEW n \in 1..(L - 1)
  PROVE  n \in 1..L /\ n # L
OBVIOUS

\* One step down the three lists: of timers, as long as the bases or one longer, of
\* sockets, at least as long, and of bases, which stops at its last node.
LEMMA NextNodes ==
  ASSUME NEW L \in Nat, NEW B \in Nat, NEW S \in Nat, L <= S, L \in {B, B + 1},
         NEW tm \in Nat, NEW pk \in Nat, NEW sock \in Nat,
         NEW known \in Nat, known <= B,
         tm \in 1..L, tm # L, sock = tm, pk \in 1..B, pk \in {sock - 1, sock},
         sock <= known => pk = sock,
         NEW next, next = IF pk < B THEN pk + 1 ELSE pk
  PROVE  /\ tm + 1 \in 1..L /\ sock + 1 = tm + 1 /\ sock + 1 <= S
         /\ next \in 1..B /\ next \in {sock, sock + 1} /\ (sock + 1) - 1 = sock
         /\ sock + 1 <= known => next = sock + 1
OBVIOUS

\* A walk stays aligned when lists get longer.
LEMMA WalkWithMore ==
  ASSUME ClientInv, walk' = walk, socks' >= socks, bases' >= bases,
         DOMAIN timers \subseteq DOMAIN timers', socks' \in Nat, bases' \in Nat
  PROVE  WalkIsAligned' /\ walk'.known <= bases'
<1>1. /\ socks \in Nat /\ bases \in Nat /\ walk \in Walks
      /\ WalkIsAligned /\ walk.known <= bases
  BY DEF ClientInv, ClientTypes
<1>2. walk.known \in Nat /\ walk.sock \in Nat /\ walk.pk \in Nat
  BY <1>1 DEF Walks
<1>3. walk'.known <= bases'
  BY <1>1, <1>2
<1>4. WalkIsAligned'
  BY <1>1, <1>2 DEF WalkIsAligned
<1> QED BY <1>3, <1>4

\* What leaves the threads of the settled nodes alone keeps the order of the joins.
LEMMA JoinsKept ==
  ASSUME JoinsInOrder, Settled' = Settled, head' = head, running' = running,
         Len(threads') = Len(threads), Len(threads) \in Nat, Settled \in Int,
         head \in Nat, running \in Nat,
         \A n \in 1..Settled : tids'[n] = tids[n],
         \A t \in 1..Len(threads) : threads[t] = "ended" => threads'[t] = "ended"
  PROVE  JoinsInOrder'
<1>1. \A n \in 1..Settled' : tids'[n] = n \/ \E m \in 1..n : tids'[m] = Unset
  <2> SUFFICES ASSUME NEW n \in 1..Settled
               PROVE  tids'[n] = n \/ \E m \in 1..n : tids'[m] = Unset
    OBVIOUS
  <2>1. tids[n] = n \/ \E m \in 1..n : tids[m] = Unset
    BY DEF JoinsInOrder
  <2>2. \A m \in 1..n : tids'[m] = tids[m]
    OBVIOUS
  <2> QED BY <2>1, <2>2
<1>2. Len(threads') = Settled' \/ \E m \in 1..Settled' : tids'[m] = Unset
  BY DEF JoinsInOrder
<1>3. \A t \in 1..Len(threads') : \E n \in 1..Settled' : tids'[n] = t
  BY DEF JoinsInOrder
<1>4. head' - 1 + running' = Len(threads') /\ head' - 1 <= Settled'
  BY DEF JoinsInOrder
<1>5. \A n \in 1..(head' - 1) : tids'[n] # Unset
  BY DEF JoinsInOrder
<1>6. \A t \in 1..(head' - 1) : threads'[t] = "ended"
  <2>1. head - 1 <= Len(threads)
    BY DEF JoinsInOrder
  <2> QED BY <2>1 DEF JoinsInOrder
<1> QED BY <1>1, <1>2, <1>3, <1>4, <1>5, <1>6 DEF JoinsInOrder

\* The steps before the node of the thread is inserted.
LEMMA MainBeforeThread ==
  ASSUME ClientInv,
         (\E o \in Opers : Choose(o)) \/ InsertSocket \/ InsertTimer \/ CreateTimer
  PROVE  ClientInv'
<1>lengths. /\ Len(timers) \in Nat /\ DOMAIN timers = 1..Len(timers)
            /\ Len(tids) \in Nat /\ DOMAIN tids = 1..Len(tids)
            /\ Len(threads) \in Nat /\ DOMAIN threads = 1..Len(threads)
            /\ DOMAIN given = 1..Len(threads)
  BY ListLengths DEF ClientInv
<1> USE <1>lengths DEF ClientInv, mainVars, listVars, threadVars
<1>0. /\ main \in {"menu", "socket", "timer", "create"} /\ main' \in MainStates
      /\ main' \in {"socket", "timer", "create", "thread"}
      /\ UNCHANGED <<head, running, buffer, tids, bases, threadVars, armed, walk, firstId>>
  BY DEF Choose, InsertSocket, InsertTimer, CreateTimer, Step, After, MainStates
<1>1. JoinsInOrder' /\ LastIsUnset' /\ ExitWaits'
  <2>1. JoinsInOrder'
    <3>1. Settled' = Settled /\ Settled \in Int
      BY <1>0 DEF Settled
    <3>2. head \in Nat /\ running \in Nat /\ JoinsInOrder
      BY <1>0 DEF ClientTypes
    <3> HIDE DEF ClientInv
    <3> QED BY <1>0, <3>1, <3>2, JoinsKept
  <2>2. LastIsUnset' /\ ExitWaits'
    BY <1>0 DEF LastIsUnset, ExitWaits
  <2> QED BY <2>1, <2>2
<1>2. ASSUME NEW o \in Opers, Choose(o)
      PROVE  ClientInv'
  <2>1. /\ main = "menu" /\ main' = "socket" /\ oper' \in Opers
        /\ socks' = socks /\ timers' = timers
    BY <1>2 DEF Choose, Step, After
  <2>2. ClientTypes' /\ ListsInOrder' /\ WalkIsAligned' /\ walk'.known <= bases'
    BY <1>0, <2>1 DEF ClientTypes, ListsInOrder, WalkIsAligned
  <2> QED BY <1>1, <2>2
<1>3. CASE InsertSocket
  <2>1. /\ main = "socket" /\ main' = "timer" /\ socks' = socks + 1
        /\ oper' = oper /\ timers' = timers
    BY <1>3 DEF InsertSocket, Step, After
  <2>2. ClientTypes' /\ ListsInOrder'
    BY <1>0, <2>1 DEF ClientTypes, ListsInOrder
  <2>3. WalkIsAligned' /\ walk'.known <= bases'
    BY <1>0, <2>1, WalkWithMore DEF ClientTypes
  <2> QED BY <1>1, <2>2, <2>3
<1>4. CASE InsertTimer
  <2>1. /\ main = "timer" /\ main' = "create" /\ timers' = Append(timers, Unset)
        /\ oper' = oper /\ socks' = socks
    BY <1>4 DEF InsertTimer, Step, After
  <2>2. /\ timers' \in Seq(Int) /\ Len(timers') = Len(timers) + 1
        /\ DOMAIN timers' = 1..(Len(timers) + 1)
    BY <2>1, AppendProperties, LenProperties DEF ClientTypes, Unset
  <2>3. ClientTypes' /\ ListsInOrder'
    BY <1>0, <2>1, <2>2 DEF ClientTypes, ListsInOrder
  <2>4. WalkIsAligned' /\ walk'.known <= bases'
    <3>1. DOMAIN timers \subseteq DOMAIN timers'
      BY <2>2
    <3> QED BY <1>0, <2>1, <3>1, WalkWithMore DEF ClientTypes
  <2> QED BY <1>1, <2>3, <2>4
<1>5. CASE CreateTimer
  <2>1. /\ main = "create" /\ main' = "thread" /\ oper' = oper /\ socks' = socks
        /\ timers' = [timers EXCEPT ![Len(timers)] = firstId + Len(timers) - 1]
    BY <1>5 DEF CreateTimer, Step, After
  <2>2. timers' \in Seq(Int) /\ Len(timers') = Len(timers)
    <3>1. firstId + Len(timers) - 1 \in Int /\ timers \in Seq(Int)
      BY DEF ClientTypes
    <3>2. Len(timers) \in 1..Len(timers)
      BY <2>1 DEF ListsInOrder, ClientTypes
    <3> HIDE DEF ClientInv
    <3> QED BY <2>1, <3>1, <3>2, ExceptSeq
  <2>3. ClientTypes' /\ ListsInOrder'
    BY <1>0, <2>1, <2>2 DEF ClientTypes, ListsInOrder
  <2>4. WalkIsAligned' /\ walk'.known <= bases'
    <3>1. DOMAIN timers' = DOMAIN timers
      BY <2>1
    <3> QED BY <1>0, <2>1, <3>1, WalkWithMore DEF ClientTypes
  <2> QED BY <1>1, <2>3, <2>4
<1> QED BY <1>2, <1>3, <1>4, <1>5

\* A choice appends a node without a thread to the list of threads.
LEMMA MainInsertThread ==
  ASSUME ClientInv, InsertThread
  PROVE  ClientInv'
<1>lengths. /\ Len(timers) \in Nat /\ DOMAIN timers = 1..Len(timers)
            /\ Len(tids) \in Nat /\ DOMAIN tids = 1..Len(tids)
            /\ Len(threads) \in Nat /\ DOMAIN threads = 1..Len(threads)
            /\ DOMAIN given = 1..Len(threads)
  BY ListLengths DEF ClientInv
<1> USE <1>lengths DEF ClientInv, mainVars, listVars, threadVars
<1>1. /\ main = "thread" /\ main' = "base" /\ tids' = Append(tids, Unset)
      /\ UNCHANGED <<oper, head, running, buffer, socks, timers, bases, threadVars, armed,
                     walk, firstId>>
  BY DEF InsertThread, Step, After
<1>2. /\ tids' \in Seq(Nat) /\ Len(tids') = Len(tids) + 1
      /\ \A n \in 1..Len(tids) : tids'[n] = tids[n]
      /\ tids'[Len(tids) + 1] = Unset
  BY <1>1, AppendProperties DEF ClientTypes, Unset
<1>3. ClientTypes' /\ ListsInOrder'
  <2>1. ClientTypes'
    BY <1>1, <1>2 DEF ClientTypes, MainStates
  <2>2. /\ socks = bases + 1 /\ Len(timers) = bases + 1 /\ Len(tids) = bases
        /\ Len(threads) <= bases /\ bases \in Nat
        /\ armed # {} => Len(threads) # 0
    BY <1>1 DEF ListsInOrder, ClientTypes
  <2> HIDE DEF ClientInv
  <2>3. ListsInOrder'
    BY <1>1, <1>2, <2>2 DEF ListsInOrder
  <2> QED BY <2>1, <2>3
<1>4. Settled = Len(tids) /\ Settled' = Len(tids)
  BY <1>1, <1>2 DEF Settled
<1>5. LastIsUnset'
  <2>1. Len(tids') = Len(tids) + 1 /\ tids'[Len(tids')] = Unset
    BY <1>2
  <2> QED BY <2>1 DEF LastIsUnset
<1>6. JoinsInOrder'
  <2>1. \A n \in 1..Settled : tids'[n] = tids[n]
    BY <1>2, <1>4
  <2>2. head \in Nat /\ running \in Nat /\ Settled \in Int /\ JoinsInOrder
    BY <1>1, <1>4 DEF ClientTypes
  <2> HIDE DEF ClientInv
  <2> QED BY <1>1, <1>4, <2>1, <2>2, JoinsKept
<1>7. WalkIsAligned' /\ walk'.known <= bases' /\ ExitWaits'
  BY <1>1 DEF WalkIsAligned, ExitWaits
<1> QED BY <1>3, <1>5, <1>6, <1>7

\* insert_base is the last of the four insertions: the lists are as long again.
LEMMA MainInsertBase ==
  ASSUME ClientInv, InsertBase
  PROVE  ClientInv'
<1>lengths. /\ Len(timers) \in Nat /\ DOMAIN timers = 1..Len(timers)
            /\ Len(tids) \in Nat /\ DOMAIN tids = 1..Len(tids)
            /\ Len(threads) \in Nat /\ DOMAIN threads = 1..Len(threads)
            /\ DOMAIN given = 1..Len(threads)
  BY ListLengths DEF ClientInv
<1> USE <1>lengths DEF ClientInv, mainVars, listVars, threadVars
<1>1. /\ main = "base" /\ bases' = bases + 1
      /\ UNCHANGED <<oper, head, running, buffer, socks, timers, tids, threadVars, armed,
                     walk, firstId>>
  BY DEF InsertBase
<1>2. main' \in {"args", "menu", "join"}
  BY DEF InsertBase, ClientTypes, Opers
<1>3. ClientTypes' /\ ListsInOrder'
  <2>1. ClientTypes'
    BY <1>1, <1>2 DEF ClientTypes, MainStates
  <2>2. /\ socks = bases + 1 /\ Len(timers) = bases + 1 /\ Len(tids) = bases + 1
        /\ Len(threads) <= bases /\ bases \in Nat
        /\ armed # {} => Len(threads) # 0
    BY <1>1 DEF ListsInOrder, ClientTypes
  <2>3. ListsInOrder'
    <3>1. socks' = bases' /\ Len(timers') = bases' /\ Len(tids') = bases'
      BY <1>1, <2>2
    <3>2. Len(threads') < bases' /\ (armed' # {} => Len(threads') # 0)
      BY <1>1, <2>2
    <3> QED BY <1>2, <3>1, <3>2, <2>2, <1>1 DEF ListsInOrder
  <2> QED BY <2>1, <2>3
<1>4. Len(tids) # 0 /\ tids[Len(tids)] = Unset /\ Settled = Len(tids) - 1
  BY <1>1 DEF LastIsUnset, Settled
<1>5. JoinsInOrder' /\ LastIsUnset'
  <2>1. LastIsUnset'
    BY <1>1, <1>4 DEF LastIsUnset
  <2>2. JoinsInOrder /\ head \in Nat /\ running \in Nat /\ Settled \in Nat
    BY <1>1, <1>4 DEF ClientTypes
  <2>3. CASE main' = "menu"
    <3>1. Settled' = Settled + 1 /\ Settled + 1 \in 1..Settled'
      <4>1. Settled' = Len(tids')
        BY <2>3 DEF Settled
      <4> QED BY <1>1, <1>4, <2>2, <4>1
    <3>2. tids[Settled + 1] = Unset
      BY <1>4
    <3>3. \A n \in 1..Settled' : tids[n] = n \/ \E m \in 1..n : tids[m] = Unset
      <4> SUFFICES ASSUME NEW n \in 1..Settled'
                   PROVE  tids[n] = n \/ \E m \in 1..n : tids[m] = Unset
        OBVIOUS
      <4>1. n \in 1..Settled \/ n = Settled + 1
        BY <2>2, <3>1
      <4>2. CASE n \in 1..Settled
        BY <2>2, <4>2 DEF JoinsInOrder
      <4>3. CASE n = Settled + 1
        <5>1. n \in 1..n /\ tids[n] = Unset
          BY <2>2, <3>2, <4>3
        <5> QED BY <5>1
      <4> QED BY <4>1, <4>2, <4>3
    <3>4. \A n \in 1..Settled : n \in 1..Settled'
      BY <2>2, <3>1
    <3>5. head - 1 <= Settled'
      <4>1. head - 1 <= Settled
        BY <2>2 DEF JoinsInOrder
      <4> HIDE DEF ClientInv
      <4> QED BY <2>2, <3>1, <4>1
    <3>6. \A t \in 1..Len(threads) : \E n \in 1..Settled' : tids[n] = t
      BY <2>2, <3>4 DEF JoinsInOrder
    <3>7. /\ tids' = tids /\ threads' = threads /\ head' = head /\ running' = running
      BY <1>1 DEF threadVars
    <3>8. \E m \in 1..Settled' : tids[m] = Unset
      BY <3>1, <3>2
    <3> HIDE DEF ClientInv
    <3> QED BY <2>1, <2>2, <3>3, <3>5, <3>6, <3>7, <3>8 DEF JoinsInOrder
  <2>4. CASE main' # "menu"
    <3>1. Settled' = Settled
      BY <1>1, <1>2, <2>4 DEF Settled
    <3> HIDE DEF ClientInv
    <3> QED BY <1>lengths, <1>1, <2>1, <2>2, <3>1, JoinsKept DEF threadVars
  <2> QED BY <2>3, <2>4
<1>6. WalkIsAligned' /\ walk'.known <= bases' /\ ExitWaits'
  <2>1. WalkIsAligned' /\ walk'.known <= bases'
    BY <1>1, WalkWithMore DEF ClientTypes
  <2> QED BY <1>2, <2>1 DEF ExitWaits
<1> QED BY <1>3, <1>5, <1>6

\* The arguments of the last node are written, and its thread is created.
LEMMA MainStartsThread ==
  ASSUME ClientInv, WriteArgs \/ StartThread
  PROVE  ClientInv'
<1>lengths. /\ Len(timers) \in Nat /\ DOMAIN timers = 1..Len(timers)
            /\ Len(tids) \in Nat /\ DOMAIN tids = 1..Len(tids)
            /\ Len(threads) \in Nat /\ DOMAIN threads = 1..Len(threads)
            /\ DOMAIN given = 1..Len(threads)
  BY ListLengths DEF ClientInv
<1> USE <1>lengths DEF ClientInv, mainVars, listVars, threadVars
<1>1. CASE WriteArgs
  <2>1. ClientTypes' /\ ListsInOrder'
    BY <1>1 DEF WriteArgs, ClientTypes, MainStates, ListsInOrder
  <2>2. JoinsInOrder' /\ LastIsUnset'
    <3>1. Settled' = Settled /\ Settled \in Int /\ LastIsUnset'
      BY <1>1 DEF WriteArgs, Settled, LastIsUnset
    <3>2. head \in Nat /\ running \in Nat /\ JoinsInOrder
      BY <1>1 DEF WriteArgs, ClientTypes
    <3>3. tids' = tids /\ threads' = threads /\ head' = head /\ running' = running
      BY <1>1 DEF WriteArgs
    <3> HIDE DEF ClientInv
    <3> QED BY <3>1, <3>2, <3>3, JoinsKept
  <2>3. WalkIsAligned' /\ walk'.known <= bases' /\ ExitWaits'
    BY <1>1 DEF WriteArgs, WalkIsAligned, ExitWaits
  <2> QED BY <2>1, <2>2, <2>3
<1>2. CASE StartThread
  <2>1. /\ main = "start" /\ main' = "menu" /\ running' = running + 1
        /\ threads' = Append(threads, "created") /\ given' = Append(given, 0)
        /\ tids' = [tids EXCEPT ![Len(tids)] = Len(threads) + 1]
        /\ UNCHANGED <<oper, head, buffer, socks, timers, bases, armed, walk, firstId>>
    BY <1>2 DEF StartThread
  <2>2. /\ threads' \in Seq({"created", "runs", "waits", "ended"})
        /\ Len(threads') = Len(threads) + 1
        /\ \A t \in 1..Len(threads) : threads'[t] = threads[t]
    <3> HIDE DEF ClientInv
    <3>1. threads \in Seq({"created", "runs", "waits", "ended"})
      BY DEF ClientInv, ClientTypes
    <3>2. "created" \in {"created", "runs", "waits", "ended"}
      OBVIOUS
    <3> QED BY <2>1, <3>1, <3>2, AppendProperties
  <2>3. given' \in Seq(Nat) /\ Len(given') = Len(threads) + 1
    <3> HIDE DEF ClientInv
    <3>1. given \in Seq(Nat) /\ Len(given) = Len(threads) /\ 0 \in Nat
      BY DEF ClientInv, ClientTypes
    <3> QED BY <2>1, <3>1, AppendProperties
  <2>4. Len(tids) # 0 /\ Len(tids) \in 1..Len(tids)
    BY <2>1 DEF LastIsUnset
  <2>5. /\ tids' \in Seq(Nat) /\ Len(tids') = Len(tids)
        /\ tids'[Len(tids)] = Len(threads) + 1
        /\ \A n \in 1..(Len(tids) - 1) : tids'[n] = tids[n]
    <3>1. Len(threads) + 1 \in Nat
      OBVIOUS
    <3>2. tids' \in Seq(Nat) /\ Len(tids') = Len(tids)
      BY <2>1, <2>4, <3>1, ExceptSeq DEF ClientTypes
    <3>3. \A n \in 1..Len(tids) :
            tids'[n] = IF n = Len(tids) THEN Len(threads) + 1 ELSE tids[n]
      BY <2>1, <2>4, <3>1, ExceptSeq DEF ClientTypes
    <3>4. tids'[Len(tids)] = Len(threads) + 1
      BY <2>4, <3>3
    <3>5. ASSUME NEW n \in 1..(Len(tids) - 1)
          PROVE  tids'[n] = tids[n]
      <4>1. n \in 1..Len(tids) /\ n # Len(tids)
        BY <1>lengths, BeforeLast
      <4>2. tids'[n] = IF n = Len(tids) THEN Len(threads) + 1 ELSE tids[n]
        BY <3>3, <4>1
      <4> QED BY <4>1, <4>2
    <3> QED BY <3>2, <3>4, <3>5
  <2>6. ClientTypes' /\ ListsInOrder'
    <3>1. ClientTypes'
      <4>1. /\ main' \in MainStates /\ oper' \in Opers /\ head' \in Nat \ {0}
            /\ running' \in Nat /\ buffer' \in Nat
        BY <2>1 DEF ClientTypes, MainStates
      <4>2. /\ socks' \in Nat /\ timers' \in Seq(Int) /\ bases' \in Nat
            /\ armed' \in SUBSET Nat /\ firstId' \in {0, 1}
            /\ walk' \in Walks
        BY <2>1 DEF ClientTypes
      <4> QED BY <2>2, <2>3, <2>5, <4>1, <4>2 DEF ClientTypes
    <3>2. /\ socks = bases /\ Len(timers) = bases /\ Len(tids) = bases
          /\ Len(threads) < bases
      BY <2>1 DEF ListsInOrder, ClientTypes
    <3>3. ListsInOrder'
      BY <2>1, <2>2, <2>5, <3>2 DEF ListsInOrder, ClientTypes
    <3> QED BY <3>1, <3>3
  <2>7. Settled = Len(tids) - 1 /\ Settled' = Len(tids)
    BY <2>1, <2>5 DEF Settled
  <2>8. JoinsInOrder'
    <3> DEFINE L == Len(tids)
    <3>1. /\ JoinsInOrder /\ head \in Nat /\ running \in Nat
          /\ L \in Nat \ {0} /\ Settled = L - 1 /\ Settled' = L
          /\ L \in 1..L /\ \A n \in 1..Settled : n \in 1..L
      BY <2>1, <2>4, <2>7 DEF ClientTypes
    <3>2. \A n \in 1..Settled : tids'[n] = tids[n]
      BY <2>5, <2>7
    <3>3. tids'[L] = Len(threads) + 1 /\ Len(threads') = Len(threads) + 1
      BY <2>2, <2>5
    <3> HIDE DEF ClientInv, L
    <3>4. \A n \in 1..L : tids'[n] = n \/ \E m \in 1..n : tids'[m] = Unset
      <4> SUFFICES ASSUME NEW n \in 1..L
                   PROVE  tids'[n] = n \/ \E m \in 1..n : tids'[m] = Unset
        OBVIOUS
      <4>1. CASE n \in 1..Settled
        <5>1. \A m \in 1..n : tids'[m] = tids[m]
          BY <3>1, <3>2, <4>1
        <5> QED BY <3>1, <3>2, <4>1, <5>1 DEF JoinsInOrder
      <4>2. CASE n = L
        <5>1. \A m \in 1..Settled : m \in 1..n
          BY <3>1, <4>2
        <5> QED BY <3>1, <3>2, <3>3, <4>2, <5>1 DEF JoinsInOrder
      <4> QED BY <3>1, <4>1, <4>2
    <3>5. Len(threads') = L \/ \E m \in 1..L : tids'[m] = Unset
      BY <3>1, <3>2, <3>3 DEF JoinsInOrder
    <3>6. \A t \in 1..Len(threads') : \E n \in 1..L : tids'[n] = t
      <4> SUFFICES ASSUME NEW t \in 1..Len(threads') PROVE \E n \in 1..L : tids'[n] = t
        OBVIOUS
      <4>1. t \in 1..Len(threads) \/ t = Len(threads) + 1
        BY <1>lengths, <3>3
      <4>2. CASE t \in 1..Len(threads)
        <5>1. PICK n \in 1..Settled : tids[n] = t
          BY <3>1, <4>2 DEF JoinsInOrder
        <5> QED BY <3>1, <3>2, <5>1
      <4>3. CASE t = Len(threads) + 1
        BY <3>1, <3>3, <4>3
      <4> QED BY <4>1, <4>2, <4>3
    <3>7. head' - 1 + running' = Len(threads') /\ head' - 1 <= L
      <4>1. head - 1 + running = Len(threads) /\ head - 1 <= Settled
        BY <3>1 DEF JoinsInOrder
      <4>2. head' = head /\ running' = running + 1
        BY <2>1
      <4> QED BY <1>lengths, <3>1, <3>3, <4>1, <4>2
    <3>8. ASSUME NEW n \in 1..(head' - 1)
          PROVE  tids'[n] # Unset /\ threads'[n] = "ended"
      <4>1. n \in 1..(head - 1) /\ n \in 1..Settled /\ n \in 1..Len(threads)
        BY <1>lengths, <2>1, <3>1 DEF JoinsInOrder
      <4> QED BY <2>2, <3>1, <3>2, <4>1 DEF JoinsInOrder
    <3> QED BY <3>1, <3>4, <3>5, <3>6, <3>7, <3>8 DEF JoinsInOrder
  <2>9. LastIsUnset' /\ WalkIsAligned' /\ walk'.known <= bases' /\ ExitWaits'
    BY <2>1 DEF LastIsUnset, WalkIsAligned, ExitWaits
  <2> QED BY <2>6, <2>8, <2>9
<1> QED BY <1>1, <1>2

\* The end of main: when it has joined as many threads as it has started, all have
\* ended; and if it meets a node without a thread before that, one behind it has one.
LEMMA MainEnds ==
  ASSUME ClientInv, JoinThread \/ JoinFails \/ Exit
  PROVE  ClientInv'
<1>lengths. /\ Len(timers) \in Nat /\ DOMAIN timers = 1..Len(timers)
            /\ Len(tids) \in Nat /\ DOMAIN tids = 1..Len(tids)
            /\ Len(threads) \in Nat /\ DOMAIN threads = 1..Len(threads)
            /\ DOMAIN given = 1..Len(threads)
  BY ListLengths DEF ClientInv
<1>1. /\ main = "join" /\ main' \in {"join", "exited", "unjoined"}
      /\ UNCHANGED <<oper, buffer, listVars, threadVars, armed, walk, firstId>>
  BY DEF JoinThread, JoinFails, Exit
<1>2. /\ ClientTypes /\ ListsInOrder /\ JoinsInOrder /\ LastIsUnset
      /\ WalkIsAligned /\ walk.known <= bases
  BY <1>1 DEF ClientInv
<1>3. head \in Nat \ {0} /\ running \in Nat
  BY <1>2 DEF ClientTypes
<1>4. /\ Settled = Len(tids) - 1 /\ Settled' = Settled /\ Settled \in Nat
      /\ Len(tids) # 0 /\ tids[Len(tids)] = Unset
  <2>1. Settled = Len(tids) - 1 /\ Settled' = Len(tids) - 1
    BY <1>1 DEF Settled, listVars
  <2>2. Len(tids) # 0 /\ tids[Len(tids)] = Unset
    BY <1>1, <1>2 DEF LastIsUnset
  <2> QED BY <1>lengths, <2>1, <2>2
<1>5. WalkIsAligned' /\ walk'.known <= bases'
  BY <1>1, <1>2 DEF WalkIsAligned, listVars
<1>6. ListsInOrder' /\ LastIsUnset'
  BY <1>1, <1>2, <1>4 DEF ListsInOrder, LastIsUnset, listVars, threadVars
<1>7. CASE JoinThread
  <2>1. /\ running > 0 /\ head <= Len(tids) /\ tids[head] # Unset
        /\ threads[tids[head]] = "ended"
        /\ head' = head + 1 /\ running' = running - 1 /\ main' = main
    BY <1>7 DEF JoinThread, MoreToJoin
  <2>2. head \in 1..Settled
    BY <1>lengths, <1>3, <1>4, <2>1
  <2>3. \A m \in 1..head : tids[m] # Unset
    <3> SUFFICES ASSUME NEW m \in 1..head PROVE tids[m] # Unset
      OBVIOUS
    <3>1. m \in 1..(head - 1) \/ m = head
      BY <1>3
    <3> QED BY <1>2, <2>1, <3>1 DEF JoinsInOrder
  <2>4. threads[head] = "ended"
    BY <1>2, <2>1, <2>2, <2>3 DEF JoinsInOrder
  <2>5. \A n \in 1..(head' - 1) : tids'[n] # Unset /\ threads'[n] = "ended"
    <3> SUFFICES ASSUME NEW n \in 1..(head' - 1)
                 PROVE  tids[n] # Unset /\ threads[n] = "ended"
      BY <1>1 DEF listVars, threadVars
    <3>1. n \in 1..head /\ (n \in 1..(head - 1) \/ n = head)
      BY <1>3, <2>1
    <3> QED BY <1>2, <2>3, <2>4, <3>1 DEF JoinsInOrder
  <2>6. head' - 1 + running' = Len(threads) /\ head' - 1 <= Settled
    BY <1>2, <1>3, <2>1, <2>2 DEF JoinsInOrder
  <2>7. JoinsInOrder'
    BY <1>1, <1>2, <1>4, <2>5, <2>6 DEF JoinsInOrder, listVars, threadVars
  <2>8. ClientTypes'
    BY <1>1, <1>2, <1>3, <2>1 DEF ClientTypes, listVars, threadVars
  <2>9. ExitWaits'
    BY <1>1, <2>1 DEF ExitWaits
  <2> QED BY <1>5, <1>6, <2>7, <2>8, <2>9 DEF ClientInv
<1>8. CASE JoinFails \/ Exit
  <2>1. head' = head /\ running' = running /\ main' \in {"exited", "unjoined"}
    BY <1>8 DEF JoinFails, Exit
  <2>2. JoinsInOrder'
    BY <1>lengths, <1>1, <1>2, <1>3, <1>4, <2>1, JoinsKept DEF listVars, threadVars
  <2>3. ClientTypes'
    BY <1>1, <1>2, <2>1 DEF ClientTypes, MainStates, listVars, threadVars
  <2>4. CASE Exit
    <3>1. main' = "exited" /\ (running = 0 \/ head > Len(tids))
      BY <1>3, <2>4 DEF Exit, MoreToJoin
    <3>2. running = 0
      <4>1. head - 1 <= Settled
        BY <1>2 DEF JoinsInOrder
      <4>2. head <= Len(tids)
        BY <1>lengths, <1>3, <1>4, <4>1
      <4> QED BY <1>lengths, <1>3, <3>1, <4>2
    <3>3. Len(threads) = head - 1
      BY <1>2, <1>3, <3>2 DEF JoinsInOrder
    <3>4. \A t \in DOMAIN threads : threads[t] = "ended"
      BY <1>lengths, <1>2, <3>3 DEF JoinsInOrder
    <3> QED BY <1>1, <1>5, <1>6, <2>2, <2>3, <3>1, <3>4
            DEF ClientInv, ExitWaits, threadVars
  <2>5. CASE JoinFails
    <3>1. /\ main' = "unjoined" /\ running > 0 /\ head <= Len(tids)
          /\ tids[head] = Unset
      BY <2>5 DEF JoinFails, MoreToJoin
    <3>2. head \in 1..Len(threads)
      BY <1>lengths, <1>2, <1>3, <3>1 DEF JoinsInOrder
    <3>3. PICK n \in 1..Settled : tids[n] = head
      BY <1>2, <3>2 DEF JoinsInOrder
    <3>4. ~ n < head
      <4> SUFFICES ASSUME n < head PROVE FALSE
        OBVIOUS
      <4>1. \A m \in 1..n : m \in 1..(head - 1)
        BY <1>3
      <4>2. \A m \in 1..n : tids[m] # Unset
        BY <1>2, <4>1 DEF JoinsInOrder
      <4>3. tids[n] = n
        BY <1>2, <4>2 DEF JoinsInOrder
      <4> QED BY <3>3, <4>3
    <3>5. n # head
      BY <1>3, <3>1, <3>3 DEF Unset
    <3>6. /\ head < n /\ head \in DOMAIN tids /\ n \in DOMAIN tids
          /\ tids[n] # Unset
      BY <1>lengths, <1>3, <1>4, <3>1, <3>3, <3>4, <3>5 DEF Unset
    <3>7. ExitWaits'
      BY <1>1, <3>1, <3>6 DEF ExitWaits, listVars
    <3> QED BY <1>5, <1>6, <2>2, <2>3, <3>7 DEF ClientInv
  <2> QED BY <1>8, <2>4, <2>5
<1> QED BY <1>7, <1>8

\* A failing call ends the process with everything as it is.
LEMMA CallFails ==
  ASSUME ClientInv, MainFails \/ \E t \in DOMAIN threads : ThreadFails(t)
  PROVE  ClientInv'
<1>1. /\ main' = "failed"
      /\ UNCHANGED <<oper, head, running, buffer, listVars, threadVars, armed, walk,
                     firstId>>
  BY DEF MainFails, ThreadFails
<1>2. ClientTypes'
  BY <1>1 DEF ClientInv, ClientTypes, MainStates, listVars, threadVars
<1>3. WalkIsAligned' /\ walk'.known <= bases' /\ ExitWaits'
  BY <1>1 DEF ClientInv, WalkIsAligned, ExitWaits, listVars
<1> QED BY <1>1, <1>2, <1>3 DEF ClientInv

----------------------------------------------------------------------------
(***************************************************************************)
(* Steps of a thread and of retransmission.                                *)
(***************************************************************************)

\* What a step of these leaves alone: a thread that has ended stays so.
LEMMA BesideMain ==
  ASSUME ClientInv, main \notin {"exited", "unjoined", "failed"},
         UNCHANGED <<mainVars, listVars, firstId>>,
         ClientTypes', WalkIsAligned', walk'.known <= bases',
         Len(threads') = Len(threads), armed' # {} => Len(threads) # 0,
         \A t \in 1..Len(threads) : threads[t] = "ended" => threads'[t] = "ended"
  PROVE  ClientInv'
<1>1. Len(threads) \in Nat /\ Len(tids) \in Nat
  BY ListLengths DEF ClientInv
<1>2. ListsInOrder' /\ LastIsUnset'
  BY DEF ClientInv, ListsInOrder, LastIsUnset, mainVars, listVars
<1>3. Settled' = Settled /\ Settled \in Int
  BY <1>1 DEF Settled, mainVars, listVars
<1>4. JoinsInOrder'
  <2>1. head \in Nat /\ running \in Nat /\ JoinsInOrder
    BY DEF ClientInv, ClientTypes
  <2> QED BY <1>1, <1>3, <2>1, JoinsKept DEF mainVars, listVars
<1>5. ExitWaits'
  BY DEF ExitWaits, mainVars
<1> QED BY <1>2, <1>4, <1>5 DEF ClientInv

\* A thread takes its arguments, arms and disarms its timer, or ends.
LEMMA ThreadSteps ==
  ASSUME ClientInv, main \notin {"exited", "unjoined", "failed"},
         NEW t \in DOMAIN threads,
         CopyArgs(t) \/ SendAndArm(t) \/ DisarmTimer(t) \/ ThreadEnds(t)
  PROVE  ClientInv'
<1>lengths. /\ Len(threads) \in Nat /\ DOMAIN threads = 1..Len(threads)
            /\ DOMAIN given = 1..Len(threads)
  BY ListLengths DEF ClientInv
<1>1. /\ threads \in Seq({"created", "runs", "waits", "ended"})
      /\ given \in Seq(Nat) /\ Len(given) = Len(threads) /\ armed \in SUBSET Nat
      /\ buffer \in Nat /\ t \in 1..Len(threads) /\ t \in 1..Len(given)
  BY <1>lengths DEF ClientInv, ClientTypes
<1>2. /\ UNCHANGED <<mainVars, listVars, firstId>> /\ walk' = walk
      /\ threads[t] # "ended"
      /\ \E to \in {"runs", "waits", "ended"} : threads' = [threads EXCEPT ![t] = to]
  BY DEF CopyArgs, SendAndArm, DisarmTimer, ThreadEnds, Goes
<1>3. /\ threads' \in Seq({"created", "runs", "waits", "ended"})
      /\ Len(threads') = Len(threads)
      /\ \A u \in 1..Len(threads) : u # t => threads'[u] = threads[u]
  <2>1. PICK to \in {"runs", "waits", "ended"} : threads' = [threads EXCEPT ![t] = to]
    BY <1>2
  <2>2. to \in {"created", "runs", "waits", "ended"}
    OBVIOUS
  <2> QED BY <1>1, <2>1, <2>2, ExceptSeq
<1>4. given' \in Seq(Nat) /\ Len(given') = Len(given)
  BY <1>1, ExceptSeq DEF CopyArgs, SendAndArm, DisarmTimer, ThreadEnds
<1>5. given[t] \in Nat
  BY <1>1, ElementOfSeq
<1>6. armed' \in SUBSET Nat
  BY <1>1, <1>5 DEF CopyArgs, SendAndArm, DisarmTimer, ThreadEnds
<1>7. ClientTypes'
  BY <1>1, <1>2, <1>3, <1>4, <1>6 DEF ClientInv, ClientTypes, mainVars, listVars
<1>8. WalkIsAligned' /\ walk'.known <= bases'
  BY <1>2 DEF ClientInv, WalkIsAligned, listVars
<1>9. \A u \in 1..Len(threads) : threads[u] = "ended" => threads'[u] = "ended"
  BY <1>2, <1>3
<1>10. Len(threads) # 0
  BY <1>1
<1> QED BY <1>2, <1>3, <1>7, <1>8, <1>9, <1>10, BesideMain

\* A walk starts when there is a thread: every list has a node then.
LEMMA CallSteps ==
  ASSUME ClientInv, main \notin {"exited", "unjoined", "failed"},
         NEW ptr \in Int, NEW timer \in Nat,
         Call(ptr, timer), Len(threads) # 0,
         UNCHANGED <<mainVars, listVars, threadVars, firstId>>
  PROVE  ClientInv'
<1>lengths. /\ Len(timers) \in Nat /\ DOMAIN timers = 1..Len(timers)
            /\ Len(threads) \in Nat
  BY ListLengths DEF ClientInv
<1>1. socks \in Nat /\ bases \in Nat /\ bases' = bases
  BY DEF ClientInv, ClientTypes, listVars
<1>2. bases >= 1 /\ Len(timers) >= bases /\ socks >= bases
  <2>1. ListsInOrder
    BY DEF ClientInv
  <2> QED BY <1>lengths, <1>1, <2>1 DEF ListsInOrder
<1>3. walk' = [ptr |-> ptr, timer |-> timer, tm |-> 1, pk |-> 1, sock |-> 1,
               found |-> FALSE, known |-> bases]
  BY DEF Call
<1>4. armed' \in SUBSET Nat
  BY DEF Call, ClientInv, ClientTypes
<1>5. ClientTypes'
  <2>1. walk' \in Walks
    BY <1>1, <1>3 DEF Walks
  <2> QED BY <1>4, <2>1 DEF ClientInv, ClientTypes, mainVars, listVars, threadVars
<1>6. WalkIsAligned' /\ walk'.known <= bases'
  BY <1>lengths, <1>1, <1>2, <1>3 DEF WalkIsAligned, listVars
<1> QED BY <1>5, <1>6, BesideMain DEF threadVars

\* A walk of retransmission starts, goes on, or ends with a resend.
LEMMA RetransmissionSteps ==
  ASSUME ClientInv, main \notin {"exited", "unjoined", "failed"},
         \/ \E k \in armed : Expire(k)
         \/ \E t \in DOMAIN threads : FastRetransmission(t)
         \/ Walk \/ Resend
  PROVE  ClientInv'
<1>lengths. /\ Len(timers) \in Nat /\ DOMAIN timers = 1..Len(timers)
            /\ Len(threads) \in Nat /\ DOMAIN threads = 1..Len(threads)
            /\ DOMAIN given = 1..Len(threads)
  BY ListLengths DEF ClientInv
<1>types. /\ socks \in Nat /\ bases \in Nat /\ armed \in SUBSET Nat /\ given \in Seq(Nat)
          /\ walk \in Walks /\ walk.known \in Nat /\ walk.known <= bases
  BY DEF ClientInv, ClientTypes, Walks
<1>1. ASSUME NEW k \in armed, Expire(k)
      PROVE  ClientInv'
  <2>1. k \in Nat /\ Unset \in Int /\ Len(threads) # 0
    BY <1>types DEF ClientInv, ListsInOrder, Unset
  <2> QED BY <1>1, <2>1, CallSteps DEF Expire
<1>2. ASSUME NEW t \in DOMAIN threads, FastRetransmission(t)
      PROVE  ClientInv'
  <2>1. given[t] \in Nat /\ Address \in Int /\ Len(threads) # 0
    BY <1>lengths, <1>types, ElementOfSeq DEF Address
  <2> QED BY <1>2, <2>1, CallSteps DEF FastRetransmission
<1>3. CASE Walk
  <2>1. /\ UNCHANGED <<mainVars, listVars, threadVars, armed, firstId>>
        /\ walk # NoWalk
    BY <1>3 DEF Walk
  <2>2. /\ walk.tm \in 1..Len(timers) /\ walk.sock = walk.tm /\ walk.sock <= socks
        /\ walk.pk \in 1..bases /\ walk.pk \in {walk.sock - 1, walk.sock}
        /\ walk.sock <= walk.known => walk.pk = walk.sock
    BY <1>lengths, <2>1 DEF ClientInv, WalkIsAligned
  <2>3. CASE WalkEnds
    <3>1. walk' = [walk EXCEPT !.found = TRUE]
      BY <1>3, <2>3 DEF Walk
    <3>2. /\ walk'.tm = walk.tm /\ walk'.pk = walk.pk /\ walk'.sock = walk.sock
          /\ walk'.known = walk.known /\ walk' \in Walks
      BY <1>types, <3>1 DEF Walks
    <3>3. ClientTypes'
      BY <2>1, <3>2 DEF ClientInv, ClientTypes, mainVars, listVars, threadVars
    <3>4. WalkIsAligned' /\ walk'.known <= bases'
      BY <1>lengths, <1>types, <2>1, <2>2, <3>2 DEF WalkIsAligned, listVars
    <3> QED BY <2>1, <3>3, <3>4, BesideMain DEF ClientInv, ListsInOrder, threadVars
  <2>4. CASE ~ WalkEnds
    <3>1. walk' = [walk EXCEPT !.tm = @ + 1, !.sock = @ + 1,
                               !.pk = IF @ < bases THEN @ + 1 ELSE @]
      BY <1>3, <2>4 DEF Walk
    <3>2. /\ walk'.tm = walk.tm + 1 /\ walk'.sock = walk.sock + 1
          /\ walk'.pk = (IF walk.pk < bases THEN walk.pk + 1 ELSE walk.pk)
          /\ walk'.known = walk.known /\ walk' \in Walks
      <4> DEFINE next == IF walk.pk < bases THEN walk.pk + 1 ELSE walk.pk
      <4>1. /\ next \in Nat /\ walk.tm + 1 \in Nat /\ walk.sock + 1 \in Nat
            /\ walk.ptr \in Int /\ walk.timer \in Nat /\ walk.found \in BOOLEAN
        BY <1>types DEF Walks
      <4>2. walk' = [walk EXCEPT !.tm = walk.tm + 1, !.sock = walk.sock + 1, !.pk = next]
        BY <3>1
      <4>3. walk' = [ptr |-> walk.ptr, timer |-> walk.timer, tm |-> walk.tm + 1,
                     pk |-> next, sock |-> walk.sock + 1, found |-> walk.found,
                     known |-> walk.known]
        BY <1>types, <4>2 DEF Walks
      <4> QED BY <1>types, <4>1, <4>3 DEF Walks
    <3>3. ClientTypes'
      BY <2>1, <3>2 DEF ClientInv, ClientTypes, mainVars, listVars, threadVars
    <3>4. /\ walk.tm # Len(timers) /\ Len(timers) <= socks
          /\ Len(timers) \in {bases, bases + 1}
      BY <1>types, <2>4 DEF WalkEnds, ClientInv, ListsInOrder
    <3>5. /\ walk'.tm \in 1..Len(timers) /\ walk'.sock = walk'.tm /\ walk'.sock <= socks
          /\ walk'.pk \in 1..bases /\ walk'.pk \in {walk'.sock - 1, walk'.sock}
          /\ walk'.sock <= walk'.known => walk'.pk = walk'.sock
      <4>1. walk.tm \in Nat /\ walk.pk \in Nat /\ walk.sock \in Nat
        BY <1>types DEF Walks
      <4>2. /\ Len(timers) \in Nat /\ bases \in Nat /\ socks \in Nat
            /\ Len(timers) <= socks /\ Len(timers) \in {bases, bases + 1}
            /\ walk.tm \in 1..Len(timers) /\ walk.tm # Len(timers)
            /\ walk.sock = walk.tm /\ walk.pk \in 1..bases
            /\ walk.pk \in {walk.sock - 1, walk.sock}
            /\ walk.known \in Nat /\ walk.known <= bases
            /\ walk.sock <= walk.known => walk.pk = walk.sock
            /\ walk'.pk = (IF walk.pk < bases THEN walk.pk + 1 ELSE walk.pk)
        BY <1>lengths, <1>types, <2>2, <3>2, <3>4
      <4>3. /\ walk.tm + 1 \in 1..Len(timers) /\ walk.sock + 1 = walk.tm + 1
            /\ walk.sock + 1 <= socks /\ walk'.pk \in 1..bases
            /\ walk'.pk \in {walk.sock, walk.sock + 1} /\ (walk.sock + 1) - 1 = walk.sock
            /\ walk.sock + 1 <= walk.known => walk'.pk = walk.sock + 1
        BY <4>1, <4>2, NextNodes
      <4> QED BY <3>2, <4>3
    <3>6. WalkIsAligned' /\ walk'.known <= bases'
      BY <1>lengths, <1>types, <2>1, <3>2, <3>5 DEF WalkIsAligned, listVars
    <3> QED BY <2>1, <3>3, <3>6, BesideMain DEF ClientInv, ListsInOrder, threadVars
  <2> QED BY <2>3, <2>4
<1>4. CASE Resend
  <2>1. /\ UNCHANGED <<mainVars, listVars, threadVars, armed, firstId>>
        /\ walk' = NoWalk
    BY <1>4 DEF Resend
  <2>2. ClientTypes'
    BY <2>1 DEF ClientInv, ClientTypes, NoWalk, Walks, Unset, mainVars, listVars, threadVars
  <2>3. WalkIsAligned' /\ walk'.known <= bases'
    BY <1>types, <2>1 DEF WalkIsAligned, NoWalk, listVars
  <2> QED BY <2>1, <2>2, <2>3, BesideMain DEF ClientInv, ListsInOrder, threadVars
<1> QED BY <1>1, <1>2, <1>3, <1>4

----------------------------------------------------------------------------
(***************************************************************************)
(* The theorems.                                                           *)
(***************************************************************************)

\* Every step of the client process keeps the invariant.
LEMMA ClientNext == ClientInv /\ [Next]_vars => ClientInv'
<1> SUFFICES ASSUME ClientInv, [Next]_vars PROVE ClientInv'
  OBVIOUS
<1>1. CASE Next
  <2>1. main \notin {"exited", "unjoined", "failed"}
    BY <1>1 DEF Next
  <2>2. CASE Main
    BY <2>2, MainBeforeThread, MainInsertThread, MainInsertBase, MainStartsThread, MainEnds,
       CallFails DEF Main
  <2>3. ASSUME NEW t \in DOMAIN threads,
               \/ CopyArgs(t) \/ SendAndArm(t) \/ DisarmTimer(t) \/ ThreadEnds(t)
               \/ ThreadFails(t) \/ FastRetransmission(t)
        PROVE  ClientInv'
    BY <2>1, <2>3, ThreadSteps, CallFails, RetransmissionSteps
  <2>4. CASE (\E k \in armed : Expire(k)) \/ Walk \/ Resend
    BY <2>1, <2>4, RetransmissionSteps
  <2> QED BY <1>1, <2>2, <2>3, <2>4 DEF Next
<1>2. CASE UNCHANGED vars
  BY <1>2 DEF vars, mainVars, listVars, threadVars, ClientInv, ClientTypes, ListsInOrder,
              JoinsInOrder, Settled, LastIsUnset, WalkIsAligned, ExitWaits
<1> QED BY <1>1, <1>2

\* The lists, the walks and the joins of the client (client.c:43-76, 752-844) keep the
\* inductive invariant.
THEOREM ClientInvCorrect == Spec => []ClientInv
BY ClientInit, ClientNext, PTL DEF Spec

\* However many choices are made while retransmission walks, the socket it sends through
\* exists, and the base is that of the socket if it was there when the walk began
\* (client.c:50-64).
THEOREM WalkAlignedCorrect == Spec => []WalkIsAligned
<1>1. ClientInv => WalkIsAligned
  BY DEF ClientInv
<1> QED BY <1>1, ClientInvCorrect, PTL

\* The choice to quit ends the process after all its threads, however many invalid
\* choices were made; a node that cannot be joined is that of an invalid choice in front
\* of a valid one (client.c:829-839).
THEOREM ExitWaitsCorrect == Spec => []ExitWaits
<1>1. ClientInv => ExitWaits
  BY DEF ClientInv
<1> QED BY <1>1, ClientInvCorrect, PTL
=============================================================================
