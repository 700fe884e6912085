---------------------------- MODULE ClientProcess ----------------------------
(***************************************************************************)
(* The client as a process: its main loop, which creates a socket, a timer,*)
(* a thread and a window base for every choice of the menu and never       *)
(* removes them, the threads, each of which is given its operation in a    *)
(* buffer that main uses for the next one, too, and retransmission, which  *)
(* the signal handler and a fast retransmission call: it walks through the *)
(* lists of timers, bases and sockets side by side while main extends them.*)
(*                                                                         *)
(* A node is its place in its list.  A thread is reduced to the exchanges  *)
(* for which its timer runs; PutTransfer has what retransmission sends.    *)
(* One walk at a time is followed, as a walk changes nothing that another  *)
(* one reads.  The value of a timer's signal is the timerid of its node    *)
(* before timer_create has set it, and always 0.  The field known of walk  *)
(* is not in the program: how many bases there were when the walk began.   *)
(*                                                                         *)
(* The process ends in one of three ways: main has waited for its threads  *)
(* ("exited"), main cannot join a node ("unjoined"), or a call of some     *)
(* thread has failed ("failed"), as failure ends the process and not the   *)
(* thread.  Then the other threads end where they are.                     *)
(***************************************************************************)
EXTENDS Integers, Sequences

CONSTANT MaxChoices      \* bound of the model: number of choices made in the menu

ASSUME ChoicesAssumption == MaxChoices \in Nat

VARIABLES main,     \* control state of the main thread
          oper,     \* oper
          head,     \* thread_head, which the end of main moves
          running,  \* num_threads
          buffer,   \* buff: the choice whose socket, timer and base are in it
          socks,    \* length of the list sock_head
          timers,   \* the list timer_head: the timerids
          tids,     \* the list thread_head: the tids
          bases,    \* length of the list wnd_head
          threads,  \* control states of the threads
          given,    \* the choice whose socket, timer and base a thread has
          armed,    \* the timers that run
          walk,     \* the call of retransmission
          firstId   \* the timerid that timer_create returns first

mainVars   == <<main, oper, head, running, buffer>>
listVars   == <<socks, timers, tids, bases>>
threadVars == <<threads, given>>
vars == <<mainVars, listVars, threadVars, armed, walk, firstId>>

\* What timerid and tid are before they are set; a walk starts with the first nodes.
Unset == 0

\* retransmission is given the value of a signal, or the address of a timerid.
Address == -1
NoWalk  == [ptr |-> Unset, timer |-> 0, tm |-> 0, pk |-> 0, sock |-> 0, found |-> FALSE,
            known |-> 0]

Opers == {"transfer", "invalid", "quit"}

Init ==
  /\ main = "menu" /\ oper = "invalid" /\ head = 1 /\ running = 0 /\ buffer = 0
  /\ socks = 0 /\ timers = << >> /\ tids = << >> /\ bases = 0
  /\ threads = << >> /\ given = << >>
  /\ armed = {} /\ walk = NoWalk
  /\ firstId \in {0, 1}        \* the id of the kernel, or a pointer

----------------------------------------------------------------------------
\* The main thread.  (socket does not return EINTR, for which main would leave a
\* socket without timer.)

\* The order of the steps for one choice.
AfterTimerFirst ==                                                    \* faulty
  [menu |-> "timer", timer |-> "create", create |-> "socket", socket |-> "thread",
   thread |-> "base"]
After ==
  [menu |-> "socket", socket |-> "timer", timer |-> "create", create |-> "thread",
   thread |-> "base"]

Step(state) == main = state /\ main' = After[state]

Choose(o) ==
  /\ Len(tids) < MaxChoices
  /\ Step("menu")
  /\ oper' = o
  /\ UNCHANGED <<head, running, buffer, listVars, threadVars, armed, walk, firstId>>

InsertSocket ==
  /\ Step("socket")
  /\ socks' = socks + 1
  /\ UNCHANGED <<oper, head, running, buffer, timers, tids, bases, threadVars, armed,
                 walk, firstId>>

InsertTimer ==
  /\ Step("timer")
  /\ timers' = Append(timers, Unset)
  /\ UNCHANGED <<oper, head, running, buffer, socks, tids, bases, threadVars, armed,
                 walk, firstId>>

CreateTimer ==
  /\ Step("create")
  /\ timers' = [timers EXCEPT ![Len(timers)] = firstId + Len(timers) - 1]
  /\ UNCHANGED <<oper, head, running, buffer, socks, tids, bases, threadVars, armed,
                 walk, firstId>>

InsertThread ==
  /\ Step("thread")
  /\ tids' = Append(tids, Unset)
  /\ UNCHANGED <<oper, head, running, buffer, socks, timers, bases, threadVars, armed,
                 walk, firstId>>

InsertBase ==
  /\ main = "base"
  /\ bases' = bases + 1
  /\ main' = CASE oper = "transfer" -> "args"
               [] oper = "invalid"  -> "menu"
               [] oper = "quit"     -> "join"
  /\ UNCHANGED <<oper, head, running, buffer, socks, timers, tids, threadVars, armed,
                 walk, firstId>>

WriteArgs ==
  /\ main = "args"
  /\ buffer' = Len(tids)
  /\ main' = "start"
  /\ UNCHANGED <<oper, head, running, listVars, threadVars, armed, walk, firstId>>

StartThread ==
  /\ main = "start"
  /\ threads' = Append(threads, "created")
  /\ given' = Append(given, 0)
  /\ tids' = [tids EXCEPT ![Len(tids)] = Len(threads) + 1]
  /\ running' = running + 1
  /\ main' = "menu"
  /\ UNCHANGED <<oper, head, buffer, socks, timers, bases, armed, walk, firstId>>

MoreToJoinOne == running > 1 /\ head <= Len(tids)                     \* faulty
MoreToJoin == running > 0 /\ head <= Len(tids)

JoinThread ==
  /\ main = "join" /\ MoreToJoin
  /\ tids[head] # Unset /\ threads[tids[head]] = "ended"
  /\ head' = head + 1
  /\ running' = running - 1
  /\ UNCHANGED <<main, oper, buffer, listVars, threadVars, armed, walk, firstId>>

\* pthread_join fails for a node without a thread.
JoinFails ==
  /\ main = "join" /\ MoreToJoin
  /\ tids[head] = Unset
  /\ main' = "unjoined"
  /\ UNCHANGED <<oper, head, running, buffer, listVars, threadVars, armed, walk,
                 firstId>>

Exit ==
  /\ main = "join" /\ ~MoreToJoin
  /\ main' = "exited"
  /\ UNCHANGED <<oper, head, running, buffer, listVars, threadVars, armed, walk,
                 firstId>>

\* malloc, socket, timer_create or pthread_create fails.
MainFails ==
  /\ main \in {"socket", "timer", "create", "thread", "base", "start"}
  /\ main' = "failed"
  /\ UNCHANGED <<oper, head, running, buffer, listVars, threadVars, armed, walk,
                 firstId>>

Main ==
  \/ \E o \in Opers : Choose(o)
  \/ InsertSocket \/ InsertTimer \/ CreateTimer \/ InsertThread \/ InsertBase
  \/ WriteArgs \/ StartThread \/ JoinThread \/ JoinFails \/ Exit \/ MainFails

----------------------------------------------------------------------------
\* A thread of an operation.

Goes(t, from, to) ==
  /\ threads[t] = from
  /\ threads' = [threads EXCEPT ![t] = to]
  /\ UNCHANGED <<mainVars, listVars, firstId>>

\* It copies what is in the buffer by now.
CopyArgs(t) ==
  /\ Goes(t, "created", "runs")
  /\ given' = [given EXCEPT ![t] = buffer]
  /\ UNCHANGED <<armed, walk>>

SendAndArm(t) ==
  /\ Goes(t, "runs", "waits")
  /\ armed' = armed \cup {given[t]}
  /\ UNCHANGED <<given, walk>>

\* The answer has come.
DisarmTimer(t) ==
  /\ Goes(t, "waits", "runs")
  /\ armed' = armed \ {given[t]}
  /\ UNCHANGED <<given, walk>>

\* pthread_exit, after the demolition or because the request could not be sent.
ThreadEnds(t) ==
  /\ Goes(t, "runs", "ended")
  /\ UNCHANGED <<given, armed, walk>>

\* Any other error of a thread: failure ends the process, whatever the others do.
ThreadFails(t) ==
  /\ threads[t] \in {"runs", "waits"}
  /\ main' = "failed"
  /\ UNCHANGED <<oper, head, running, buffer, listVars, threadVars, armed, walk,
                 firstId>>

----------------------------------------------------------------------------
\* retransmission.

Call(ptr, timer) ==
  /\ walk = NoWalk
  /\ walk' = [ptr |-> ptr, timer |-> timer, tm |-> 1, pk |-> 1, sock |-> 1,
              found |-> FALSE, known |-> bases]
  /\ armed' = armed \ {timer}

Expire(k) ==
  /\ k \in armed
  /\ Call(Unset, k)
  /\ UNCHANGED <<mainVars, listVars, threadVars, firstId>>

\* The third duplicate ACK of a PUT.
FastRetransmission(t) ==
  /\ threads[t] = "waits"
  /\ Call(Address, given[t])
  /\ UNCHANGED <<mainVars, listVars, threadVars, firstId>>

\* The loop ends at the last timer, or at the one with the identifier.
WalkEnds ==
  \/ walk.tm = Len(timers)
  \/ timers[walk.tm] = walk.ptr

Walk ==
  /\ walk # NoWalk /\ ~walk.found
  /\ walk' = IF WalkEnds THEN [walk EXCEPT !.found = TRUE]
             ELSE [walk EXCEPT !.tm = @ + 1, !.sock = @ + 1,
                               !.pk = IF @ < bases THEN @ + 1 ELSE @]
  /\ UNCHANGED <<mainVars, listVars, threadVars, armed, firstId>>

\* send_packet of the base that was found, through the socket that was found.
Resend ==
  /\ walk.found
  /\ walk' = NoWalk
  /\ UNCHANGED <<mainVars, listVars, threadVars, armed, firstId>>

----------------------------------------------------------------------------
Next ==
  /\ main \notin {"exited", "unjoined", "failed"}
  /\ \/ Main
     \/ \E t \in DOMAIN threads :
          \/ CopyArgs(t) \/ SendAndArm(t) \/ DisarmTimer(t) \/ ThreadEnds(t)
          \/ ThreadFails(t) \/ FastRetransmission(t)
     \/ \E k \in armed : Expire(k)
     \/ Walk \/ Resend

Spec == Init /\ [][Next]_vars

----------------------------------------------------------------------------
(***************************************************************************)
(* Properties.                                                             *)
(***************************************************************************)

\* The walks through the three lists never leave them while main extends them.  The
\* base is the one of the socket if main had inserted that base before the walk began;
\* an operation chosen during the walk may get the base of the one before, even when
\* its own has been inserted by then (client.c:50-64, 759-777).
WalkIsAligned ==
  walk # NoWalk =>
    /\ walk.tm \in DOMAIN timers
    /\ walk.sock = walk.tm /\ walk.sock <= socks
    /\ walk.pk \in 1..bases /\ walk.pk \in {walk.sock - 1, walk.sock}
    /\ walk.sock <= walk.known => walk.pk = walk.sock

\* A process that ends by the choice to quit has waited for every thread, whatever
\* invalid choices were made; and only an invalid choice in front of a valid one makes
\* it end at a node that it cannot join (client.c:829-839).
ExitWaits ==
  /\ main = "exited" => \A t \in DOMAIN threads : threads[t] = "ended"
  /\ main = "unjoined" =>
       \E n, m \in DOMAIN tids : n < m /\ tids[n] = Unset /\ tids[m] # Unset

----------------------------------------------------------------------------
(***************************************************************************)
(* A statement of the code's comments that the code does not keep.         *)
(***************************************************************************)

\* timeout.c:76 "Pointer to the timer that caused a timeout": it leads retransmission
\* to that timer.
TimerOfTimeout == walk.found /\ walk.ptr # Address => walk.tm = walk.timer
=============================================================================
