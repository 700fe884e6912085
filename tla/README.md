# Reliable file transfer over UDP: verification project

The repository is a client and a server (C, POSIX threads, real-time timers)
that list, download (GET) and upload (PUT) files over UDP. Reliability is built
on top: sequence numbers that count bytes, cumulative ACKs, a transmission
window and a receive buffer of ten packets, one retransmission timer per
transfer, fast retransmission on the third duplicate ACK. Both sides throw away
one in fifty datagrams on purpose (`loss_with_prob`, `LOSS_PROB`), so losses are
the normal case, and every behaviour checked here includes them.

Contents: [inventory](#inventory), [what is hard](#what-is-hard-here),
[modules](#modules), [model and code](#how-the-models-correspond-to-the-code),
[runs](#runs), [disagreements](#where-the-code-and-its-comments-disagree),
[proofs](#proofs), [only model-checked](#what-is-only-model-checked),
[not modelled](#what-is-not-modelled), [plan](#plan).

## Inventory

### Components, state and operations

| Component | Source | State | Operations |
|---|---|---|---|
| Packets and channel | `packet.c`, `utils.c` (both sides) | socket buffers | `create_packet`, `serialize_packet`, `unserialize_packet`, `send_packet` (loses at random), `send_ack`, `recv_packet` |
| Transmission window | `windows.c` (both) | `wnd[thread]`, `usable_wnd[thread]` | `update_window`, `refresh_window`, `incoming_ack` |
| Receive buffer | `windows.c` (both), the loops of `request_get`, `request_list`, `response_put` | `rcv_buffer`, `rcv_next` | `store_rwnd`, `order_rwnd`, drain and reorder |
| Timer | `timeout.c` (both), `retransmission` | `timerid`, `to` | `arm_timer`, `disarm_timer`, `timeout_handler`, `timeout_interval` |
| Worker | `server.c` | control state, `wnd`, `rcv_next` | `response_list`, `response_get`, `response_put` |
| Main loop and pool | `server.c`, `clients.c`, `connection.c`, `update_packet` | client list, semaphore, `mux_free`, `mux_avb`, `thread` | handshake, demolition, dispatch of ACK and DATA, `thread_service` |
| Client thread | `client.c` | control state, `rcv_next`, window | `thread_function`, `request_list`, `request_get`, `request_put`, `ack_thread` |
| Client process | `client.c`, `timeout.c`, `windows.c`, `utils.c` | menu, lists of sockets, timers, threads and window bases, `buff`, `num_threads` | `insert_*`, start and join of the threads, the walk of `retransmission` |
| Time, random numbers, progress bar | `timeout.c`, `utils.c` (both) | `to`, the log | `timeout_interval`, `rand_lim`, `print_progress` |

### How they interact

A client thread runs one operation on a socket of its own: a three-way
handshake, a request, the transfer, and a three-way demolition. All clients
send to the one socket of the server, which only the main thread reads. Main
runs the handshakes and demolitions itself, inserts a node into the client list
and posts a semaphore; a worker that takes a permit finds the first node that
has no worker, marks it, and serves its requests. Main hands a DATA packet to a
worker through the `pack` pointer of the client's node, with two mutexes per
worker used as semaphores: main locks `mux_free`, stores, unlocks `mux_avb`;
the worker locks `mux_avb`, uses the packet, unlocks `mux_free`. An ACK main
handles itself, under the worker's `wnd_lock`: it searches and slides the
worker's window and stops and starts its timer. The timer's signal handler runs
in whatever thread takes the signal, without any lock, resends the base of the
window and arms the timer again. Workers send to their clients directly.

### What makes each component correct

* Transmission window: the array holds the outstanding packets and no other,
  at every moment the handler may look, and the count of free places agrees.
* GET (and LIST, PUT): the file written is a prefix of the file sent, whatever
  the network does; an ACK counts only what was written; what the sender
  discards was received; no buffer is overrun; outstanding packets are always
  going to be resent; the file arrives in the end.
* An operation that reports its end has transferred everything; if it fails to
  report, only what the losses and errors in its way explain.
* Client process: a retransmission walks inside lists that grow under it and
  finds base, socket and timer of one operation; a process that quits has waited
  for its threads. The code keeps the first for the operations known when the
  walk begins, and loses the timer (see `ClientTimer`).
* Pool: one worker per client and the same for its life; no client without a
  worker is forgotten; a packet handed over is not replaced before it was used;
  a packet goes to the worker of its sender.

## What is hard here

The full list, each at its line and with the properties that cover it, is in
`PROJECT.json` under `hazards`. The main ones:

* three users of one window (worker, main, signal handler), two of which take a
  lock, and tests of `usable_wnd` and starts of the timer outside it;
* losses of anything, including the last packet and the ACK of the request;
  late and repeated ACKs; a retransmission that races with the ACK;
* main handles all clients one datagram at a time, with `cliaddr` and `thread`
  as global state that survives from one datagram to the next;
* two loops that shift and drain an array whose only length is the first NULL,
  and which must end inside it;
* two threads of a client that move one `base` pointer, which a signal handler
  reads; lists that are extended while the handler walks through them;
* mutexes locked by one thread and unlocked by another; clients removed from
  the list in any state while a worker holds a pointer into it.

## Modules

| Module | What it is | Extends |
|---|---|---|
| `Windows` | packets of a transfer, transmission window and receive buffer as sequences | |
| `ReliableStream` | abstract: the receiver's file only grows by the next chunks | |
| `GetTransfer` | one GET: worker, main's ACK branch, timer and handler, client, two channels | `Windows`; instantiates `ReliableStream` |
| `GetInvariant` | inductive invariants of the GET | `GetTransfer` |
| `Downloads` | GET or LIST: the operations of a LIST beside those of `GetTransfer`, and the inductive invariant of both | `GetInvariant` |
| `GetTransferProofs` | theorems on the GET and on `Downloads` | `Downloads`, `WindowLemmas` |
| `PutTransfer` | one PUT: client thread, `ack_thread`, its timer and handler, main, worker, two channels | `Windows`; instantiates `ReliableStream` |
| `PutTransferProofs` | its inductive invariants and theorems | `PutTransfer`, `WindowLemmas` |
| `SendWindow` | the array of the transmission window, one access at a time | `Windows` |
| `SendWindowProofs` | its theorems | `SendWindow`, `SequenceLemmas` |
| `ReceiveBuffer` | the array of the receive buffer, one turn of a loop at a time | `Windows` |
| `ReceiveBufferProofs` | its inductive invariant and theorems | `ReceiveBuffer`, `WindowLemmas` |
| `WindowLemmas` | what the operators of `Windows` do to windows without gaps and buffers in order | `Windows`, `SequenceLemmas` |
| `ServerPool` | main loop, handshake, demolition, client list, pool of workers, life of the clients | |
| `PoolProofs` | its theorems | `ServerPool`, `SequenceLemmas` |
| `ClientProcess` | menu, lists, threads and retransmissions of the client process | |
| `ClientProcessProofs` | its theorems | `ClientProcess`, `SequenceLemmas` |
| `SequenceLemmas` | removal, suffix and prefix of sequences, least numbers | |

The models meet as follows. `SendWindow` shows that the critical sections under
`wnd_lock` may be taken for one step on a sequence, with an unlocked reader in
between, and `ReceiveBuffer` that the loops over the receive buffer compute
what `Windows` says, or leave the array exactly when `Windows` says so. On
these two rest `GetTransfer`, `Downloads` and `PutTransfer`, each of which has
one worker that has its client already and one client. `ServerPool` has
everything around that on the server, with the transfer reduced to what
occupies the worker, and `ClientProcess` everything around it on the client,
with the transfer reduced to when its timer runs.

A definition marked "faulty" is a plausible bug in the definition behind it. No
specification uses it; put in its place, it must make a property fail.

## How the models correspond to the code

### Windows

A packet is its number in the order of first transmission: 0 is the size of the
file, `1..N` are the chunks, `N+1` and `N+2` the empty packets that may follow.
`SeqNum` counts in packets what the code counts in bytes; as in the code, empty
packets do not advance it, so two packets can share a sequence number. The
operators are those of `windows.c`; `AckedPackets` is the result of the search
loop, which ends at the number of packets if the ACK is not found, so that an
ACK of everything and a useless one look the same.

### GetTransfer

State: `pc` is where `response_get` is, `wnd` is `wnd[thread]` (and `usable_wnd`
is `WND - Len(wnd)`), `armed` and `handler` the timer and the handler's progress
(`rtx` is the packet it has fetched), `lastAck` and `dup` the two counters in
the client node (which `insert_client` does not set, so they start with any
value), `client`, `rcvNext`, `buff` and `writes` the locals of `request_get`,
and two channels. Steps outside a lock are steps of their own: `SendData`,
`PutData` (under the lock), `CheckWindow`, `ArmData`, `NotFull` are the body of
the loop at `server.c:304-332`. `IncomingAck` is the whole of `incoming_ack`;
with `Faults` the send of a fast retransmission may fail, which leaves the timer
disarmed unless the ACK slides the window. `Expire`, `FetchBase` and `Resend`
are the signal handler. `ClientReceive` is one round of the client's loop with
its five branches. A read of `wnd[0]` in an empty window sets `crashed`; after
that the server takes no step and the client may go on. The constants `Reorder`
and `Faults` add reordering by the network and failing system calls.

### Downloads

`listing` says which of the two operations runs. A LIST has its own worker
actions (`ListAccept`, `ListNotFull`, `ListAllAcked`, `ListEnd`) and its own
answer at the client; the body of the loop, the ACK branch, the handler and the
client's treatment of a packet are those of `GetTransfer`, since the code of
`response_list` and `request_list` repeats that of the GET line by line. A chunk
is a packet of names. `emptyLast` is chosen in `Init`: the names filled a packet
exactly, or there are none, and an empty packet goes through the window.

### PutTransfer

`pc` is where `request_put` is, with `"request"` for the wait in
`thread_function`; `wnd` is its window, `base` the packet that `trans_base` (the
node in `wnd_head`) points to, `acker` the state of `ack_thread`, `lastAck` and
`dup` its counters. `AckReceived` is a round of `ack_thread`: receive,
`incoming_ack`, the change of `base`, and the test for the last ACK, all under
`wnd_mux`. `PutChunk` is the section of `request_put` under `wnd_mux`; sending
before it and the test of `usable_wnd` after it are steps of their own.
`Expire`, `CheckBase` and `Resend` are the handler with `retransmission`, which
reads `base` twice; between the two `base` may become NULL or point to a packet
that was freed, and then the process crashes or sends what the memory holds.
`Receive` and `Store` are main on the server (`free`, `avb` are `mux_free` and
`mux_avb`), `PutSize`, `PutInOrder`, `PutOutOfOrder`, `PutDuplicate` a round of
`response_put` from its lock of `mux_avb` to its unlock of `mux_free`. `Faults`
lets `fopen` and `sendto` fail: the client exits, the worker returns, after
`Answer` with `mux_free` locked. `losses` is a history variable, capped at
`ManyLosses`, on which the liveness properties depend.

### SendWindow

`wnd` is the array, `usable` is `usable_wnd`, `index`, `i` and `count` the
variables of the loops. Every access to the array or the count is a step. The
variable `window` is not in the program: it is the sequence that `GetTransfer`
would have, changed at the step in which the store or the slide takes effect
for a reader of `wnd[0]`, that is with the first assignment. Main receives any
ACK of anything sent, in any order and number.

### ReceiveBuffer

`buff` is the array, `i` and `j` the variables of the loops (`order_rwnd` calls
them `pos` and `i`). `SearchOn` and `SearchEnds` are the loop of `store_rwnd`,
`Shift` and `FillGap` that of `order_rwnd`, `DrainOn`, `DrainEnds`, `Slide` and
`SlideEnds` the drain and the reordering of the receivers. `queue` is not in the
program: it is the sequence of `Windows` after the same arrivals; `predicted`
says that `Windows` takes the last arrival for an overrun. Packets arrive in
any order and number.

### ServerPool

`main` is where the main loop is; `addr`, `thread` and `packet` are `cliaddr`,
`thread` and `pk_rcv`. `thread` starts undefined and keeps its value when
`dispatch_client` finds no node. A node is a record with a number of its own,
which stands for the pointer that a worker keeps as `recipient`; the number of a
freed node is found nowhere, and what the code then reads is left open (a crash
or nothing). `free` and `avb` say which mutexes are unlocked. `window` and
`timer` are reduced to one packet per worker: what the properties need is which
worker waits for an ACK and which timer may expire. Clients run their
operation, chosen in `Init`, with the one-shot timer that resends what their
`base` points to, which may have been overwritten by a datagram received into
the same memory. Undefined behaviour of the server (an index of no worker, a
NULL packet, an empty list) sets `crashed`, and nothing is followed beyond it.

### ClientProcess

`main` is where the loop over the menu is, `After` the order of its steps. The
lists only grow, so a node is its place in the list; of sockets and bases only
the number matters. A choice inserts a node into all four lists whether it is
valid or not; `StartThread` sets the `tid` of the last node. `main` ends in one
of three states. `"exited"`: `JoinThread` has waited for every thread that is
counted; `"unjoined"`: `JoinFails`, as the node has no thread; `"failed"`:
`failure()`, which is `exit(-1)`, was called by main (`MainFails`: `malloc`,
`socket`, `timer_create` or `pthread_create` failed) or by a thread
(`ThreadFails`: an error of one operation ends the process and all other
operations with it). `ThreadEnds` is `pthread_exit`, after the demolition or
when the request could not be sent. `given` is the operation whose socket, timer
and base a thread has copied out of `buff`, which main may have overwritten
before. `walk` is a call of `retransmission`: its places in the three lists,
moved by `Walk` until `WalkEnds`. Its argument is a timer identifier, which is 0
in every signal, or an address, which equals none; its field `known`, the number
of bases when it began, is not in the program. `firstId` leaves open what the
kernel numbers its timers from. One walk at a time is followed: walks change
nothing but the timer they disarm.

## Runs

| Run | Question | Bounds | Distinct states |
|---|---|---|---|
| `GetSafety` | overruns, prefix, discarded is received, timed, invariant, implements `ReliableStream` | 4 chunks, windows of 3, 3 datagrams per socket | 1 127 726 |
| `GetLiveness` (on `Downloads`) | GET: the file arrives; LIST: its worker becomes free; an end that is reported is one | 3 chunks, windows of 2, 2 datagrams, size a multiple of the payload | 300 086 |
| `GetReorder` | prefix and refinement with reordering and failing system calls | 3 chunks, windows of 2, 2 datagrams | 1 325 967 |
| `SendWindow` | the array is the window, for its unlocked readers too | 7 packets, array of 3 | 23 484 |
| `PutTransfer` | as `GetSafety` for a PUT, and: base follows the window, an end reported is one, one loss is survived, without a loss it ends | 4 chunks, windows of 3, 3 datagrams, failing system calls | 507 438 |
| `ReceiveBuffer` | the loops compute the operators of `Windows`, leave the array when it says so, and end | 8 chunks, array of 4 | 69 716 |
| `PoolSafety` | one worker, no client forgotten, hand-over, invariant | 2 clients (GET or LIST, and PUT), 2 workers, 2 datagrams | 3 867 019 |
| `ClientProcess` | walks stay inside the lists and aligned, quitting waits for the threads | 4 choices in the menu | 4 230 379 |
| `GetNullPacket`, `GetWorkerStuck`, `PoolRightWorker`, `ClientTimer` | statements of comments that fail | smaller | |

Why the bounds are enough to be of interest. In `GetSafety` the window is
smaller than the file, so it fills, blocks the worker and slides several times;
three datagrams in a socket allow a gap, two packets behind it, and three ACKs of
the same number, hence fast retransmission; four chunks in windows of three
have buffered runs that drain partly. `GetLiveness` has the case with two packets
of one sequence number, which none of the other runs has. In `SendWindow` seven
packets go through three places, so every pair of index and length occurs,
including both packets of the same number. `PutTransfer` has the bounds of
`GetSafety`, for the same reasons, and a client that may fail or crash in
addition. In `ReceiveBuffer` ten packet numbers for four places leave gaps of
any length between what is buffered, let `order_rwnd` fill one gap, then run
into another packet or past the end, and let full arrays drain. Four choices in
`ClientProcess` are a list whose walk passes an inner node while main extends
it, with invalid choices before, between and after two operations. In `PoolSafety`
two workers and two clients allow a worker without a client, a client without a worker, a packet of
one client at the worker of the other, removal of the wrong client, and the
same worker serving one client after the other; the socket holds a datagram of
each. Sequence numbers do not wrap: they are `unsigned long` on the model's scale of a file.

All of these allow the system to stop (a finished transfer, a crash, a client
that waits for a lost packet that has no timer, an overrun, an exit), so
`CHECK_DEADLOCK` is off.

### Properties

* `GetTransfer`: `WrittenIsAcked`, `DiscardedIsReceived`, `BufferAhead`,
  `OutstandingIsTimed`, `ImplementsStream` (refinement), `FileArrives`
  (liveness).
* `Downloads`: `EndedIsReceived` (who reports an end, or is free again, has
  everything acknowledged), `ListEnds` (liveness).
* `PutTransfer`: `WrittenIsAcked`, `DiscardedIsReceived`, `BufferAhead`,
  `BaseIsFirst`, `UploadedIsWritten`, `ImplementsStream`, and the liveness
  properties `FileUploaded` and `UploadEnds`. The second loss may stop a PUT for
  good, because its timer is not armed again: the code promises no more.
* `SendWindow`: `ArrayIsWindow`, `BaseIsFirst`, `RoomIsThere`,
  `SearchIsInside`, and the action property `RefreshIsAtomic`.
* `ReceiveBuffer`: `ArrayIsQueue`, `OverrunIsPredicted`, `AheadUnlessRepeated`,
  and `LoopsEnd` (liveness: an endless loop, or a search that runs past the
  array, would break it).
* `ServerPool`: `OneWorkerPerClient`, `PermitForEveryClient`, and the action
  property `HandedOverIsKept`.
* `ClientProcess`: `WalkIsAligned`, `ExitWaits`.
* the type invariants and the inductive invariants `GetInv`, `ArrayInv` and
  `PoolInv`, which TLC checks before and besides the proofs.

### Fairness

`FairSpec` of `GetTransfer` assumes weak fairness of the worker, of main, of the
client, of an armed timer's expiry and of its handler: threads of an operating
system are scheduled, and POSIX timers expire. It assumes strong fairness of a
resend that arrives and of an ACK that arrives: `loss_with_prob` drops a datagram
with a fixed probability below one, so a datagram sent for ever is not lost for
ever. The full socket is excluded from both in the same way. No fairness is
assumed of anything that the network does besides. `DownloadSpec` assumes the same
of both operations.

`FairSpec` of `PutTransfer` assumes weak fairness of the threads and the timer
only, and nothing of the channels: its liveness properties are about runs with
no loss or one. `FairSpec` of `ReceiveBuffer` says that a thread in a loop goes
on.

## Where the code and its comments disagree

Each run below checks a statement that a comment of the code makes and that TLC
finds violated; `PROJECT.json` quotes the comment and the line.

* `GetNullPacket`: "Fetch the packet to retransmit" (`server.c:67`). In the trace
  the size packet is in the window and its timer armed, the timer expires before
  its ACK has been taken, and main takes the ACK and empties the window before
  the handler reads it without the lock: there is none, and `send_packet`
  dereferences NULL. Another trace has main empty the window between the
  store and the `arm_timer` of `server.c:291`.
* `GetWorkerStuck`: "Wait for ACK until every packet is correctly received": the
  client does not acknowledge the last packet, and the worker waits for ever.
* `PoolRightWorker`: "dispatch new messages from the clients to the right server
  thread": a packet of an unknown address goes to the worker of the packet
  before.
* `ClientTimer`: "Pointer to the timer that caused a timeout": the value of the
  signal is taken from `timerid` before the timer exists, and `retransmission`
  ends at the first or at the last operation, whichever timer expired.

Four more are in the models without a run of their own. `FileArrives` promises
the data and not the end: "If it's the the only packet in the window, start
timer" (`server.c:321`) is not done for the last, empty packet, and a client that
loses it waits for ever; the same holds for the end packet of a LIST. The ACK of an
ERROR carries the ERROR's own number, acknowledges nothing, and leaves the
worker waiting (`server.c:241`). "Store the packet in order" (`windows.c:88`) is not
what `order_rwnd` achieves: inserting in front of a buffered packet mixes the
buffer up or runs past its end. `OverrunIsPredicted` states when, and
`BufferAhead` that a network that keeps the order never gets there. A LIST whose
last packet of names is empty keeps its worker for ever (the exception in
`ListEnds`).

The models also reach a crash that no comment speaks of: a third duplicate ACK
while the window is empty makes `incoming_ack` resend a base that is not there
(`windows.c:129-132`); as `insert_client` does not set the counter, "third" may
be the first one (`IncomingAck`, `crashed`).

## Proofs

The theorems hold for every value of the constants, under the assumptions named
in the modules: `WindowsAssumption` (windows of at least one packet, the receive
buffer not smaller than the window; both are 10 in the code), `GetAssumption`
(a file without data has a size that is a multiple of the payload; sockets hold
at least one datagram), `PutAssumption` (the same of the sockets),
`SendWindowAssumption` and `ReceiveBufferAssumption` (NULL is no packet), `ChoicesAssumption` (a number),
`PoolAssumption` (finitely many workers, worker 0 is one, -1 is none).

| Theorem | Says | Rests on |
|---|---|---|
| `TypeCorrect` | capacity of window, buffer and channels in `GetTransfer` | `TypeInv`: what each control state implies for `next` and the room in the window |
| `TimedCorrect` | `OutstandingIsTimed`, if no system call fails | the same; one step per action |
| `WrittenCorrect` | `WrittenIsAcked`, on any network, with faults | `WriteInv`; a lemma that what drains has consecutive numbers (`DrainedRun`) |
| `StreamCorrect` | `GetTransfer` implements `ReliableStream` | `WriteInv`; each step is a `Deliver` or a stutter |
| `DownloadWrittenCorrect`, `DownloadStreamCorrect` | the same two for `Downloads`, so for the LIST too, on any network, with faults | `WriteClient`: `WriteInv`, and that what the server sends are packets |
| `GetInvCorrect`, `DiscardedCorrect`, `BufferCorrect` | `GetInv`, `DiscardedIsReceived`, `BufferAhead`, with `~Reorder` | `GetInv`, with `FifoInv` |
| `EndedCorrect` | `EndedIsReceived` of GET and LIST, with `~Reorder` and `~Faults` | `DownloadInv` |
| `ArrayTypeCorrect`, `ArrayInvCorrect` | every access is inside the array; what it holds at every step of the loops | `ArrayInv` |
| `ArrayCorrect`, `BaseCorrect`, `RoomCorrect`, `SearchCorrect` | the four invariants of `SendWindow` | follow from `ArrayInv` |
| `AtomicCorrect` | the loops amount to one step on the sequence | `ArrayInv`, for the ACK found by the search |
| `PoolTypeCorrect`, `PoolInvCorrect`, `OneWorkerCorrect` | types, one worker per client | `PoolInv` |
| `PermitCorrect` | a permit for every client without a worker | `PoolInv` and the property itself, by counting |
| `HandedOverCorrect` | a packet handed over stays | `PoolInv` |
| `PutTypeCorrect`, `BaseCorrect`, `UploadedCorrect` | capacities, `BaseIsFirst`, `UploadedIsWritten` in `PutTransfer`, on any network, with faults | `PutInv` |
| `PutWrittenCorrect`, `PutStreamCorrect` | `WrittenIsAcked`; `PutTransfer` implements `ReliableStream`; on any network, with faults | `PutInv`; the lemmas `DrainedRun` and `InOrderWrites` |
| `PutFifoCorrect`, `PutDiscardedCorrect`, `PutBufferCorrect` | `PutFifo`, `DiscardedIsReceived`, `BufferAhead` in `PutTransfer`, with `~Reorder`, with faults | `PutInv` and `PutFifo` |
| `BufferInvCorrect`, `TypeCorrect`, `ArrayCorrect`, `OverrunCorrect`, `AheadCorrect` | the four invariants of `ReceiveBuffer`, packets in any order and number | `BufferInv` of `ReceiveBufferProofs` |
| `WalkAlignedCorrect`, `ExitWaitsCorrect` | `WalkIsAligned`, `ExitWaits`, for any number of choices | `ClientInv` |

The invariants, and why they are needed:

* `WrittenIsAcked` alone is almost inductive; what it lacks is that before the
  size packet nothing was written or buffered (`WriteInv`). That a whole run of
  buffered packets drains in order follows from the loop's own test, so it
  holds even with a buffer whose order is broken: this is why the theorem needs
  no assumption on the network.
  The same is why `WriteClient`, for both downloads, asks nothing of the server
  but that it sends packets: whatever window, timer and ACKs do, and whatever
  fails, what is written is a prefix.
* `FifoInv` is what a network that keeps the order adds. `DiscardedIsReceived` says
  that an ACK never discards too much, and an ACK only names a number; so
  the window must be known to hold consecutive packets from `Base` on
  (`WindowInv`), and every ACK on its way to lie between `Base` and `rcvNext`, in
  order (`AckInv`): the search then finds every ACK but that of the whole window,
  so a search that fails means just that. `BufferAhead` needs
  `DataInv`: a packet ahead of the expected one is ahead of all such packets sent
  before it, on their way or buffered, because the only packet ever sent again,
  the base, is not ahead of `rcvNext`. The two halves need each other, through
  that last fact (`AckInv` bounds the base) and because the window bounds how far
  ahead a packet can be, so that the buffer has room (`RoomForAhead`).
  Without the assumption both properties are false: an old ACK that arrives late
  is not found and discards the whole window, and packets overtake each other.
* `PutFifo` is the same in the other direction, where a packet also waits in the
  hands of main and in the node of the client: `Passed` is the sequence of
  the packet handed over, the one main holds, and those in the socket, and the
  order is that of `Passed`. The packet that the client's handler resends is
  the base, which is never ahead of what the worker expects.
* `DownloadInv` carries the parts of `FifoInv` that concern ACKs over to the LIST,
  whose client expects number 0 while it waits for the answer though the first
  packet is number 1 (`DownloadAcks`), and whose end packet enters no window.
  With `DownloadControl` (behind the loop everything was sent, and at the end
  packet of a LIST everything acknowledged) it implies `EndedIsReceived`. A failing
  `sendto` makes the worker leave early, hence `~Faults`.
* `BufferInv` of `ReceiveBufferProofs` says for each loop what it has done so far.
  A packet that belongs in front of a buffered one is never let in cleanly: `OrderInv`
  keeps a packet ahead of it in the shifted part, and `SearchInv` one ahead of the
  search, so the loop of `store_rwnd` meets one packet after the other and leaves the
  array. The drain is compared with the sequence through the place at which it
  is going to stop (`DrainsTo`), and the move to the front through the number of
  packets moved (`SlideInv`). `AheadUnlessRepeated` needs that without a
  repetition the sequence is increasing with gaps counted (`Increasing`), as
  else a drain might stop short of a packet it has passed.
* Types need `Control`: that the window has room when the worker is about to
  put a packet there was tested three steps earlier, and in between only main
  changes the window, which only makes it shorter.
* `ArrayInv` is the loop invariant of the search and of both loops of
  `refresh_window`, in terms of `Target`, the window that the slide is about to
  reach: the first `i` packets are in place, then old packets up to `index`, then
  holes, then what has not moved yet. It needs the worker's part, too: nobody but
  main changes `usable` between the worker's test and its store.
* `OneWorkerPerClient` needs that node numbers are unique and not above the count
  of nodes created (`NodesNumbered`), for a fresh node and for `get_client`.
* `HandedOverIsKept` needs `OnePacketAtATime`: main stores only with `mux_free`,
  so a worker that was told of a packet is another one than `thread`; and
  `OneWorkerPerClient`, since the packet is stored by worker and read by node.
* `PermitForEveryClient` is inductive relative to `PoolInv`: removing a node or
  a `get_client` that finds no one only lowers the left side.

* `PutInv` adds to the type invariant what each control state implies for the
  window (`PutControl`), that no ACK in transit is beyond `rcvNext` and that
  `ack_thread` has left only with everything written (`PutWritten`), and
  `BaseIsFirst`. `UploadedIsWritten` needs the first of these: the ACK that
  ends `ack_thread` was sent by a worker that had written as much.
* `WalkIsAligned` needs to know in which order main extends the lists
  (`ListsInOrder`), since a walk may run between any two of its steps: the list of
  bases may be one behind, and the walk then stays at its last node and goes on
  one behind, even if the base comes in meanwhile. What it says of base and
  socket is therefore in two parts: equal for the operations whose base was there
  when the walk began (`walk.known`), and at most one behind for those chosen
  during the walk. That the two are equal always is false.
* `ExitWaits` needs that in front of the first node without a thread node `n` of
  the list of threads has thread `n`, that every thread has a node, that the
  threads before `thread_head` have ended, and that `num_threads` counts those
  behind (`JoinsInOrder`): then the count reaches zero only when all have ended,
  and a node that cannot be joined while threads are left has one of them behind
  it. The last node, of the choice to quit, has none (`LastIsUnset`). After a
  call of `failure` nothing of this is claimed: the process has ended with its
  threads where they were.

`SequenceLemmas` has the facts on sequences cited in all of them, `WindowLemmas`
those on windows without gaps and on increasing buffers that both directions of
a transfer use: how many packets an ACK discards, and what a drain leaves.

Each inductive invariant was checked by TLC on the instances of the runs before
it was proved.

## What is only model-checked

Liveness (`FileArrives`, `ListEnds`, `FileUploaded`, `UploadEnds`, `LoopsEnd`, and
the liveness statement that fails), since the prover has no fairness. Every
invariant, action property and refinement that a passing run checks is also a
theorem.

## What is not modelled

* Time: a timer that runs may expire at any moment, `timeout_interval` and its
  floating-point estimate are left out.
* The bytes of packets: serialisation, the content of files, names, directory
  entries. Memory that is never freed, the progress bar, the log.
* Data races below the level of a memory access; the handler of a signal is
  taken to run to its end except where the modules split it. The handler of the
  server walks the client list while main may be removing a node: not followed.
* `sprintf` into `buff` and `strtok` out of it are one step each in
  `ClientProcess`: a mixture of two operations in one buffer is not modelled, one
  operation in the place of the other is. Two walks of `retransmission` at a
  time are not followed.
* The start of the server (numbering of the workers) and its end.
* In `ServerPool`: what happens after undefined behaviour; memory of a freed
  node given to a new one; a random number that happens to be the very one that
  a PUT expects.
* `rtx_pack` of `response_put`. If its `seq_num` equals `rcv_next`,
  `server.c:435-453` writes its data in place of the packet's and advances
  `rcv_next`. It is memory that `insert_client` allocates and does not set, and
  `update_packet` would fill it only with a packet whose number is that of
  `rtx_packs[thread]`, which is never written and 0. `PutTransfer` assumes that
  it never matches; without this assumption what is written is undefined, and
  the theorems about a PUT say nothing.

## Plan

What is there was built in the order of importance: the GET transfer (the data
that arrives is right), the pool (who serves whom), the array under the
transfer, then the PUT, the receive buffer, the LIST and the client process.
To come, in this order:

1. Liveness of main in `ServerPool` (main waits for `mux_free` and is the only
   one to receive the ACKs the worker waits for); the transfer that follows a
   failed one in the same window.
2. The composition of two PUTs of one client in `ClientProcess` with
   `PutTransfer`: what a retransmission of the wrong base does to the transfer
   that waits for its own.
3. `BufferAhead` for the LIST: `DownloadInv` has the window and the ACKs of a
   LIST, and says nothing yet of the order of its packets.
