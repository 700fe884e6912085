---------------------------- MODULE WindowLemmas ----------------------------
(***************************************************************************)
(* Facts about the operators of Windows: what a search for an ACK discards *)
(* from a window without gaps, and what a drain takes from a buffer in     *)
(* increasing order and leaves there.  The proofs of both directions of a  *)
(* transfer rest on them.                                                  *)
(***************************************************************************)
EXTENDS Windows, SequenceLemmas

----------------------------------------------------------------------------
\* Sequence numbers: they end at N + 1, which all the empty packets have.
LEMMA SeqNumValue ==
  ASSUME NEW p \in Int
  PROVE  /\ SeqNum(p) \in Int /\ SeqNum(p) <= N + 1
         /\ SeqNum(p) <= N => SeqNum(p) = p
         /\ p <= N => SeqNum(p) = p
         /\ SeqNum(p) = N + 1 <=> p > N
         /\ DataSize(p) = 0 <=> p > N
         /\ SeqAfter(p) = SeqNum(p + 1)
BY WindowsAssumption DEF SeqNum, SeqAfter, DataSize

\* A later packet has no smaller one.
LEMMA SeqNumMonotone ==
  ASSUME NEW p \in Int, NEW q \in Int
  PROVE  /\ p <= q => SeqNum(p) <= SeqNum(q)
         /\ SeqNum(p) < SeqNum(q) => p < q
         /\ SeqNum(p) = SeqNum(q) => SeqNum(p + 1) = SeqNum(q + 1)
BY WindowsAssumption DEF SeqNum

----------------------------------------------------------------------------
\* The window of the packets b, b + 1, ...: an ACK that is not behind b is not behind
\* what is the first packet when incoming_ack has discarded i of them.
LEMMA DiscardedBeforeAck ==
  ASSUME NEW w \in Seq(Int), NEW b \in Int, NEW ack \in Int,
         \A j \in DOMAIN w : w[j] = b + j - 1,
         SeqNum(b) <= ack, NEW i \in Nat, AckedPackets(w, ack, i)
  PROVE  SeqNum(b + i) <= ack
<1>1. /\ Len(w) \in Nat /\ DOMAIN w = 1..Len(w) /\ i \in 0..Len(w)
      /\ \A j \in 1..i : SeqNum(w[j]) # ack
      /\ i < Len(w) => SeqNum(w[i + 1]) = ack
  BY LenProperties DEF AckedPackets
<1>2. CASE i < Len(w)
  <2>1. i + 1 \in DOMAIN w /\ b + (i + 1) - 1 = b + i
    BY <1>1, <1>2
  <2>2. w[i + 1] = b + i
    BY <2>1
  <2>3. SeqNum(b + i) = ack
    BY <1>1, <1>2, <2>2
  <2> QED BY <2>3
<1>3. CASE i = Len(w)
  <2>1. CASE SeqNum(b + i) <= ack
    BY <2>1
  <2>2. CASE ~ (SeqNum(b + i) <= ack)
    <3>1. SeqNum(b + i) \in Int /\ SeqNum(b + i) <= N + 1 /\ N \in Nat
          /\ SeqNum(b) \in Int
      <4>1. b + i \in Int
        OBVIOUS
      <4> QED BY <4>1, SeqNumValue, WindowsAssumption
    <3>2. ack < SeqNum(b + i) /\ ack <= N /\ SeqNum(b) <= N
      BY <2>2, <3>1
    <3>3. SeqNum(ack) = ack /\ SeqNum(b) = b
      BY <3>2, SeqNumValue
    <3>4. b <= ack /\ ack < b + i
      <4>1. SeqNum(ack) < SeqNum(b + i)
        BY <3>2, <3>3
      <4> QED BY <3>3, <4>1, SeqNumMonotone
    <3> DEFINE j == ack - b + 1
    <3>5. j \in 1..i /\ j \in DOMAIN w /\ b + j - 1 = ack
      BY <1>1, <1>3, <3>4
    <3>6. w[j] = ack
      BY <3>5
    <3> HIDE DEF j
    <3> QED BY <1>1, <3>3, <3>5, <3>6
  <2> QED BY <2>1, <2>2
<1>4. i < Len(w) \/ i = Len(w)
  <2>1. Len(w) \in Nat /\ i \in 0..Len(w)
    BY <1>1
  <2> QED BY <2>1
<1> QED BY <1>2, <1>3, <1>4

----------------------------------------------------------------------------
\* The buffered packets that follow packet p without a gap carry the sequence
\* numbers of p + 1, p + 2, ...
LEMMA DrainedRun ==
  ASSUME NEW b \in Seq(Int), NEW p \in Int, NEW k \in Nat, Drains(p, b, k)
  PROVE  \A i \in 1..k : SeqNum(b[i]) = SeqNum(p + i)
<1> DEFINE prev(i) == IF i = 1 THEN p ELSE b[i - 1]
           Wrong == {i \in 1..k : SeqNum(b[i]) # SeqNum(p + i)}
<1>1. /\ k \in 0..Len(b)
      /\ \A i \in 1..k : SeqNum(b[i]) = SeqAfter(prev(i))
  BY DEF Drains
<1>2. Len(b) \in Nat /\ \A i \in 1..Len(b) : b[i] \in Int
  BY LenProperties, ElementOfSeq
<1>3. SUFFICES ASSUME Wrong # {} PROVE FALSE
  OBVIOUS
<1>4. PICK i \in Wrong : \A j \in Wrong : i <= j
  <2>1. Wrong \in SUBSET Nat
    OBVIOUS
  <2> HIDE DEF Wrong
  <2> QED BY <1>3, <2>1, LeastNatural
<1>5. CASE i = 1
  BY <1>1, <1>5, SeqNumValue
<1>6. CASE i # 1
  <2>1. i - 1 \in 1..k /\ i - 1 \notin Wrong
    BY <1>4, <1>6
  <2>2. SeqNum(b[i - 1]) = SeqNum(p + (i - 1)) /\ b[i - 1] \in Int
    BY <1>1, <1>2, <2>1
  <2>3. SeqAfter(b[i - 1]) = SeqNum(p + (i - 1) + 1)
    <3>1. SeqAfter(b[i - 1]) = SeqNum(b[i - 1] + 1)
      BY <2>2, SeqNumValue
    <3> QED BY <2>2, <3>1, SeqNumMonotone
  <2>4. SeqNum(b[i]) = SeqAfter(b[i - 1])
    BY <1>1, <1>6
  <2>5. p + (i - 1) + 1 = p + i
    OBVIOUS
  <2> QED BY <2>3, <2>4, <2>5
<1> QED BY <1>5, <1>6

\* What is expected after a drain that began with p, and what is left of the buffer.
LEMMA DrainedNext ==
  ASSUME NEW b \in Seq(Int), NEW p \in Int, NEW k \in Nat, Drains(p, b, k),
         NEW after, after = SeqAfter(IF k = 0 THEN p ELSE b[k])
  PROVE  /\ after = SeqNum(p + k + 1) /\ SeqNum(p) <= after
         /\ k < Len(b) => SeqNum(b[k + 1]) # after
<1>1. /\ Len(b) \in Nat /\ k \in 0..Len(b)
      /\ \A i \in 1..Len(b) : b[i] \in Int
  BY LenProperties, ElementOfSeq DEF Drains
<1>2. CASE k = 0
  <2>1. after = SeqNum(p + k + 1)
    BY <1>2, SeqNumValue
  <2> QED BY <1>2, <2>1, SeqNumMonotone DEF Drains
<1>3. CASE k # 0
  <2>1. after = SeqAfter(b[k]) /\ k \in 1..k /\ k \in 1..Len(b) /\ k + 1 # 1
        /\ (k + 1) - 1 = k
    BY <1>1, <1>3
  <2>2. after = SeqNum(b[k] + 1) /\ b[k] \in Int
    BY <1>1, <2>1, SeqNumValue
  <2>3. SeqNum(b[k]) = SeqNum(p + k)
    BY <2>1, DrainedRun
  <2>4. after = SeqNum(p + k + 1)
    BY <2>2, <2>3, SeqNumMonotone
  <2>5. SeqNum(p) <= after
    BY <2>4, SeqNumMonotone
  <2>6. k < Len(b) => SeqNum(b[k + 1]) # after
    BY <2>1 DEF Drains
  <2> QED BY <2>4, <2>5, <2>6
<1> QED BY <1>2, <1>3

----------------------------------------------------------------------------
(***************************************************************************)
(* Buffers in increasing order.                                            *)
(***************************************************************************)

\* A drain leaves the packets ahead of what is expected then.
LEMMA DrainedAhead ==
  ASSUME NEW b \in Seq(Int), NEW p \in Int, NEW k \in Nat, Drains(p, b, k),
         NEW after, after = SeqAfter(IF k = 0 THEN p ELSE b[k]),
         Increasing(b), \A i \in DOMAIN b : SeqNum(p) < SeqNum(b[i]),
         NEW rest, rest = ReorderBuffer(b, k)
  PROVE  /\ rest \in Seq(Int) /\ Len(rest) = Len(b) - k
         /\ \A i \in DOMAIN rest : k + i \in DOMAIN b /\ rest[i] = b[k + i]
         /\ \A i \in DOMAIN rest : after < SeqNum(rest[i])
         /\ Increasing(rest)
<1>1. /\ Len(b) \in Nat /\ k \in 0..Len(b) /\ DOMAIN b = 1..Len(b)
      /\ \A i \in 1..Len(b) : b[i] \in Int
  BY LenProperties, ElementOfSeq DEF Drains
<1>2. /\ rest \in Seq(Int) /\ Len(rest) = Len(b) - k
      /\ \A i \in 1..(Len(b) - k) : rest[i] = b[k + i]
  BY <1>1, SuffixProperties DEF ReorderBuffer
<1>3. DOMAIN rest = 1..(Len(b) - k)
  BY <1>2, LenProperties
<1>4. ASSUME NEW i \in DOMAIN rest
      PROVE  k + i \in DOMAIN b /\ rest[i] = b[k + i]
  <2>1. i \in 1..(Len(b) - k) /\ k + i \in 1..Len(b)
    BY <1>1, <1>3
  <2> QED BY <1>1, <1>2, <2>1
<1>5. ASSUME NEW i \in DOMAIN rest
      PROVE  after < SeqNum(rest[i])
  <2>1. /\ k + 1 \in 1..Len(b) /\ k < Len(b) /\ i \in Nat /\ 1 <= i
        /\ k + i \in 1..Len(b)
    BY <1>1, <1>3, <1>5
  <2>2. after \in Int /\ SeqNum(b[k + 1]) # after /\ SeqNum(b[k + 1]) \in Int
    <3>1. p + k + 1 \in Int /\ after = SeqNum(p + k + 1) /\ SeqNum(b[k + 1]) # after
      BY <2>1, DrainedNext
    <3> QED BY <1>1, <2>1, <3>1, SeqNumValue
  <2>3. after <= SeqNum(b[k + 1])
    <3>1. CASE k = 0
      <4>1. after = SeqNum(p + 1)
        BY <3>1, SeqNumValue
      <4>2. b[k + 1] \in Int /\ SeqNum(p) < SeqNum(b[k + 1])
        BY <1>1, <2>1
      <4>3. p + 1 <= b[k + 1]
        BY <4>2, SeqNumMonotone
      <4> QED BY <4>1, <4>2, <4>3, SeqNumMonotone
    <3>2. CASE k # 0
      <4>1. k \in 1..Len(b) /\ b[k] \in Int /\ b[k + 1] \in Int
        BY <1>1, <2>1, <3>2
      <4> DEFINE x == b[k]
                 y == b[k + 1]
      <4>2. x \in Int /\ y \in Int /\ after = SeqAfter(x)
        BY <3>2, <4>1
      <4>3. k \in DOMAIN b /\ k + 1 \in DOMAIN b /\ k < k + 1 /\ (k + 1) - k = 1
        BY <1>1, <2>1, <4>1
      <4>4. x + ((k + 1) - k) <= y
        BY <4>3 DEF Increasing
      <4> HIDE DEF x, y
      <4>5. x + 1 \in Int /\ x + 1 <= y
        BY <4>2, <4>3, <4>4
      <4>6. after = SeqNum(x + 1)
        BY <4>2, SeqNumValue
      <4>7. after <= SeqNum(y)
        BY <4>2, <4>5, <4>6, SeqNumMonotone
      <4> QED BY <4>7 DEF y
    <3> QED BY <3>1, <3>2
  <2>4. b[k + 1] <= b[k + i] /\ b[k + 1] \in Int /\ b[k + i] \in Int
    <3>1. CASE i = 1
      BY <1>1, <2>1, <3>1
    <3>2. CASE i # 1
      <4>1. k + 1 < k + i /\ (k + i) - (k + 1) \in Nat
        BY <2>1, <3>2
      <4>2. b[k + 1] + ((k + i) - (k + 1)) <= b[k + i]
        BY <1>1, <2>1, <4>1 DEF Increasing
      <4> QED BY <1>1, <2>1, <4>1, <4>2
    <3> QED BY <3>1, <3>2
  <2>5. SeqNum(b[k + 1]) <= SeqNum(b[k + i]) /\ SeqNum(b[k + i]) \in Int
    BY <2>4, SeqNumMonotone, SeqNumValue
  <2>6. after < SeqNum(b[k + i])
    BY <2>2, <2>3, <2>5
  <2> QED BY <1>4, <2>6
<1>6. Increasing(rest)
  <2> SUFFICES ASSUME NEW i \in DOMAIN rest, NEW j \in DOMAIN rest, i < j
               PROVE  rest[i] + (j - i) <= rest[j]
    BY DEF Increasing
  <2>1. k + i < k + j /\ (k + j) - (k + i) = j - i
    BY <1>1, <1>3
  <2>2. b[k + i] + ((k + j) - (k + i)) <= b[k + j]
    BY <1>4, <2>1 DEF Increasing
  <2> QED BY <1>4, <2>1, <2>2
<1> QED BY <1>2, <1>4, <1>5, <1>6

\* A packet behind all that are buffered goes to the end.
LEMMA StoredLast ==
  ASSUME NEW b \in Seq(Int), NEW p \in Int, Increasing(b),
         \A i \in DOMAIN b : b[i] < p
  PROVE  /\ ~ MustOrder(p, b)
         /\ Increasing(Append(b, p))
<1>1. /\ Len(b) \in Nat /\ DOMAIN b = 1..Len(b)
      /\ \A i \in 1..Len(b) : b[i] \in Int
  BY LenProperties, ElementOfSeq
<1>2. ~ MustOrder(p, b)
  <2>1. ASSUME NEW i \in DOMAIN b PROVE ~ (SeqNum(p) < SeqNum(b[i]))
    <3>1. b[i] \in Int /\ ~ (p < b[i])
      BY <1>1
    <3> QED BY <3>1, SeqNumMonotone
  <2> QED BY <2>1 DEF MustOrder
<1> DEFINE c == Append(b, p)
<1>3. /\ \A i \in 1..Len(b) : c[i] = b[i]
      /\ c[Len(b) + 1] = p /\ c \in Seq(Int) /\ Len(c) = Len(b) + 1
  BY AppendProperties
<1>4. DOMAIN c = 1..(Len(b) + 1)
  BY <1>3, LenProperties
<1> HIDE DEF c
<1>5. ASSUME NEW i \in DOMAIN c, NEW j \in DOMAIN c, i < j
      PROVE  c[i] + (j - i) <= c[j]
  <2>1. i \in 1..Len(b) /\ c[i] = b[i] /\ b[i] \in Int /\ b[i] < p
    BY <1>1, <1>3, <1>4, <1>5
  <2>2. CASE j \in 1..Len(b)
    BY <1>1, <1>3, <1>5, <2>1, <2>2 DEF Increasing
  <2>3. CASE j = Len(b) + 1
    <3>1. CASE i = Len(b)
      BY <1>1, <1>3, <2>1, <2>3, <3>1
    <3>2. CASE i # Len(b)
      <4>1. Len(b) \in 1..Len(b) /\ i < Len(b)
        BY <1>1, <2>1, <3>2
      <4>2. b[i] + (Len(b) - i) <= b[Len(b)] /\ b[Len(b)] < p /\ b[Len(b)] \in Int
        BY <1>1, <2>1, <4>1 DEF Increasing
      <4> QED BY <1>1, <1>3, <2>1, <2>3, <4>2
    <3> QED BY <3>1, <3>2
  <2> QED BY <1>1, <1>4, <2>2, <2>3
<1>6. Increasing(c)
  BY <1>5 DEF Increasing
<1> QED BY <1>2, <1>6 DEF c

\* Packets between two numbers, in increasing order, are less than the numbers are
\* apart.
LEMMA IncreasingLength ==
  ASSUME NEW b \in Seq(Int), Increasing(b), NEW low \in Int, NEW high \in Int,
         low < high, \A i \in DOMAIN b : low < b[i] /\ b[i] < high
  PROVE  Len(b) < high - low
<1>1. /\ Len(b) \in Nat /\ DOMAIN b = 1..Len(b)
      /\ \A i \in 1..Len(b) : b[i] \in Int
  BY LenProperties, ElementOfSeq
<1>2. CASE Len(b) = 0
  BY <1>2
<1>3. CASE Len(b) = 1
  <2>1. 1 \in DOMAIN b
    BY <1>1, <1>3
  <2>2. low < b[1] /\ b[1] < high /\ b[1] \in Int
    BY <1>1, <2>1
  <2> QED BY <1>3, <2>2
<1>4. CASE Len(b) > 1
  <2>1. 1 \in DOMAIN b /\ Len(b) \in DOMAIN b /\ 1 < Len(b)
    BY <1>1, <1>4
  <2>2. b[1] + (Len(b) - 1) <= b[Len(b)]
    BY <2>1 DEF Increasing
  <2>3. low < b[1] /\ b[Len(b)] < high /\ b[1] \in Int /\ b[Len(b)] \in Int
    BY <1>1, <2>1
  <2> QED BY <1>1, <2>2, <2>3
<1> QED BY <1>1, <1>2, <1>3, <1>4
=============================================================================
