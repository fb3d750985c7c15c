# Verification of qinmo_net

qinmo_net is a reactor-style network library for Linux (C++17, one event loop
per thread, after muduo). This directory holds TLA+ models of its parts, TLC
configurations that check them on small instances, and TLAPS proofs about them
for every value of their constants. Paths in this file are relative to the
repository as it appears under `src/` in `PROJECT.json` (the library's own
sources are therefore `src/src/*.cpp` and `src/include/qinmo/...`).

Every definition is translated from the code. Where the code and its comments
disagree, the model follows the code; the disagreements are in section 4, and
those that a run shows are runs that are expected to be violated.

## 1. Inventory

| Component | State | Operations | Talks to |
|---|---|---|---|
| EventLoop (`EventLoop.cpp`) | `quit_`, `looping_`, `pending_`, `pendingFunctors_` under `mutex_`, an eventfd, `activeChannels_`, `timeoutMs_` | `loop`, `quit`, `wakeup`, `wakeupRead`, `runInLoop`, `queueInLoop`, `pendingFunctors`, `setTimeoutMs`, `set/removeChannel`, timers | poller, channels, TimerManager, callers on any thread |
| EventLoopThread, Thread | `loop_` under `mutex_`, `cv_`, the thread id | `start`, `threadFunc`, destructor; `Thread::start`, `join` | owner thread, EventLoop on the new thread's stack |
| EventLoopThreadPool | `threads_`, `loops_`, `next_` | `start`, `getNextLoop`, `getAllLoops`, destruction | EventLoopThread |
| TimerManager, Timer, TimerID | `timers_`, `timersOrder_`, `currTimer_`, `cancelTimer_`, a timerfd | `addEvent`, `cancelEvent`, `handleRead`, `resetTimerfd` | EventLoop's queue, its channel, the wall clock |
| Channel, EpollPoller | `events_`, `revents_`, `tie_`; `channels_` by descriptor | `handle`, `enable*/disable*`, `remove`; `poll`, `set/removeChannel` | kernel, owner of the callbacks |
| ReactorTcpConnection | `state_`, input and output buffers, water mark, timers | `connectEstablished`, `connectDestroyed`, `send`, `shutdown`, `close`, `handleRead/Write/Close/Error` | Channel, EventLoop's queue, user callbacks, server or client |
| ReactorTcpServer | `rConnects_` by descriptor, thread pool, accept channel | `start`, `newConnect`, `removeConnect`, destructor | connections on several loops |
| ReactorTcpClient(Core) | `state_`, `needStart_`, `isRetry_`, `retryMs_`, `sock_`, `channel_`, `connection_` | `connect`, `disconnect`, `stopConnecting`, `start`, `retry`, handlers, destructor | connection, poller, timers, callers on any thread |
| PacketBuffer | `buf_`, `rIndex_`, `wIndex_`, `hsIndex_` | head/peek/retrieve/append families, `readFd`, `writeFd` | connection |
| SocketTCP, SocketUDP, TcpListen, TcpConnect | descriptor, ownership, state flags | creation, move, attachment, `bind`, `listen`, `accept`, `connect`, `close` | kernel |
| InetAddr, Timestamp, Wrapper, Logger | values, thin wrappers | | not modelled |

What makes this code hard, and what each component must get right:

* **EventLoop.** Other threads push under a mutex and write the eventfd after
  releasing it; the loop may be anywhere in between. Correct means: no functor
  is lost, run twice or out of order, the loop never sleeps on one, and `quit`
  ends it.
* **EventLoopThread(Pool).** The EventLoop lives on another thread's stack; its
  pointer is published, used by the owner, and withdrawn. Correct means: no use
  of a dead loop, `start` and the destructor come back, loops shared evenly.
* **TimerManager.** A timer's function may cancel itself or others and add
  timers while `handleRead` holds iterators; one timerfd stands for all timers.
  Correct means: the running timer is kept, the timerfd covers the earliest
  timer, no timer fires early, out of order or after its cancellation, and every
  due one does fire.
* **ReactorTcpConnection.** Callback order, one disconnect per connection, bytes
  in order across the direct and the buffered path, lifetime of the connection
  against queued functors.
* **ReactorTcpServer.** A map without a lock, keyed by numbers that the kernel
  gives out again, used by several threads and by functors that may outlive the
  server. Correct means: nobody touches another connection's entry, every open
  connection is held, accepted ones are established, closed ones removed.
* **ReactorTcpClient.** A Channel that may not be deleted in its own callback and
  is reset later, retries that are pending while the user stops, connects again
  or drops the client. Correct means: the kernel never holds a deleted Channel,
  what must be watched is watched, retries, queued starts and restarts never lead
  to a second connection, a stop holds, attempts end and retries go on.
* **PacketBuffer.** Three indices over one vector, growth, compaction, partial
  reads and writes. Correct means: a queue of bytes with a header in front.
* **Sockets.** Correct means: one owner for every open descriptor, whatever is
  moved, viewed, attached or closed.

The hazards, each at its line, are listed in `PROJECT.json`, with the properties
that would catch them going wrong.

## 2. Modules

| Module | Models | Checked by | Proofs |
|---|---|---|---|
| `FunctorQueue` | what `queueInLoop`/`runInLoop` promise | through `EventLoop` | in `EventLoopProofs` |
| `EventLoop` | `EventLoop.cpp` | `event_loop` | `EventLoopProofs` |
| `EventLoopThreadPool` | `EventLoopThreadPool.cpp`, `EventLoopThread.cpp`, `Thread.cpp` | `pool`, `pool_lost_quit`, `pool_start_hangs` | `EventLoopThreadPoolProofs` |
| `TimerManager` | `TimerManager.cpp`, `Timer.cpp` | `timer` | `TimerManagerProofs` |
| `Connection` | `ReactorTcpConnection.cpp`, the connection's `Channel` and its entry in the poller | `connection`, `connection_send_throws` | `ConnectionProofs` |
| `TcpClient` | `ReactorTcpClient.cpp`, the connecting `Channel`, the poller's `channels_` | `tcp_client`, `client_second_connection` | `TcpClientProofs` |
| `TcpServer` | `ReactorTcpServer.cpp`, with the pool's turn and the connections' life | `tcp_server` | `TcpServerProofs` |
| `ByteQueue` | what a PacketBuffer promises | through `PacketBuffer` | in `PacketBufferProofs` |
| `PacketBuffer` | `PacketBuffer.cpp` | `packet_buffer` | `PacketBufferProofs` |
| `Sockets` | `SocketTCP.cpp`, `SocketUDP.cpp`, `TcpListen.cpp`, `TcpConnect.cpp` | `sockets` | `SocketsProofs` |

The modules have few parameters, and the configurations name the specifications
directly: the constants are numbers and model values.

### EventLoop

The loop's thread has a program counter `pc` (`out`, `check`, `poll`, `handle`,
`swap`, `run`, `drop`) with one action per step of `loop()` and
`pendingFunctors()`; `callback` says that user code of a channel or a functor is
on its stack, and only then, or outside `loop()`, or while the local vector of
functors is destroyed (`drop`), may the loop's thread itself queue, run or quit.
Another thread's `queueInLoop` or `quit` is two actions: the push (or the store)
and, some time later, the write to the eventfd. The eventfd saturates at
`EventfdMax`. The poller is reduced to what `loop()` sees: poll returns when the
eventfd is readable (possibly without it, if the event array is full), when
something else happens, or when a finite timeout runs out.

`ImplementsFunctorQueue` is the refinement of `FunctorQueue` with
`waiting <- batch \o queue`; a functor in `fresh` has not been handed over.

### EventLoopThreadPool

One owner thread and N loop threads, each with a program counter. A mutex is
held across two actions only in `~EventLoopThread` (`store` and `wake` of
`quit()`), so it appears as the guard `Locked`. The lambda of `Thread::start`,
`threadFunc` and the destruction of its stack object are the steps of a loop
thread. Of the EventLoop itself only `quit_` is kept; that a loop whose `quit_`
is set comes back is what `QuitStops` of `EventLoop` says. User code on a
sub-loop may quit it at any moment; the history variable `selfQuit` remembers
that it did, because `start()` only promises valid pointers without.

### TimerManager

`order` is `timersOrder_` (pairs of deadline and sequence number), `timers` the
keys of `timers_`, `when` and `interval` the fields of the Timer objects. `now`
is the wall clock, `left` the ticks until the timerfd expires on the monotonic
clock. A callback on the loop's thread applies `addEvent` and `cancelEvent` at
once, other threads' calls travel through `mailbox`. `dead` is a history
variable: the timers that `cancelEvent` removed. The number that `addEvent`
returns to another thread is read from the Timer after it was handed over; if
the Timer is gone the read is undefined and `ReturnId` allows any number.

### Connection

One established connection, from the queued `connectEstablished()` to the
release of its last `shared_ptr`, as its loop's thread sees it. `pc` walks
through `Channel::handle()` (`close`, `error`, `read`, `write`), `callback` is
the user code on the stack, `queue` the functors of this connection, which obey
`FunctorQueue`. `reading` and `writing` are the two bits of `events_`,
`registered` that the poller holds the channel's address, `owner` who made the
connection (a server, or a client until it is dropped), `owned` that the server's
table or the client's member holds the pointer, `held` that user code does. Another channel's callback may use the connection between the poll and
`handle()`, so `revents` may be stale.

Bytes are numbered in the order in which `send()` takes them: `out` are those in
`outputBuffer_`, `delivered` those the kernel has. The kernel takes any part of
a write, reports what it has to and possibly more, and the peer may send, end
and reset at any time. `accepted`, `delivered`, `disconnects` and `warned` are
history variables; `warned` also notes a crossing of the mark that
`send(PacketBuffer&)` does not announce, since `HighWaterAnnounced` speaks of
strings only.

`DropClient` is the destructor of the client: it queues `handleClose()` (the
functor `close`) and lets go of the connection. The close callback of a client's
connection works through a `weak_ptr`, so once the client is gone it queues no
`connectDestroyed()` (`Removes`, `EndCallback`). The connection is then closed,
the user hears of it once, but nothing takes its channel out of the poller, whose
`channels_` keeps the address of a channel that is freed with the last pointer.
`PointerAlive` and `ClosedIsRemoved` state this case as their only exception. If
the last pointer goes between the poll and `handle()`, the loop handles a freed
channel: the test of `tie_` (`Channel.h:49`, "Skip callback if ptr has been
released") does not help, since `tie_` is a member of that channel.

Assumed: the program ignores SIGPIPE, calls `send()` on the connection's thread
and does not catch what `send()` throws; the server outlives its connections
(`TcpServer` has the other case). Left out: the setters, `setTcpNoDelay`, and the
connection's timers, which are TimerManager's.

`shutdown()` is modelled with its test as it stands (`ShutdownReturns`), so the
state Disconnecting is never reached, and nothing behind it is modelled.

### TcpClient

The client on its loop's thread: `phase` says whether the loop handles the
channels of a poll (`active`, which holds pointers that may go stale) or runs the
functors of a turn (`batch`; new ones go to `queue`). `state`, `needStart`,
`isRetry`, `sock`, `channel` and `connection` are the members; the last three are
descriptors. `table` is the key set of the poller's `channels_`, `epoll` what the
kernel has for each descriptor: nothing, the connecting Channel, the connection's
Channel, or one that was deleted. A registration under a key that `channels_`
already has is a failing `EPOLL_CTL_MOD` (`Registered`). Descriptors are given
out again as soon as they are closed. Destructors (`Destruct`,
`DestroyConnection`) are steps that come before all others, as they do in C++.

`connect()` of another thread posts a `start` functor; the other calls are made
in callbacks of the loop's thread. `stopConnecting()` or `disconnect()` from
another thread races on `state_`, `channel_` and `sock_` and is not modelled.

What a functor has captured is destroyed with the vector that holds it, after
the last functor of the turn (`done`, `EndFunctors`), so a client or a connection
may outlive the call of its last functor.

User code that calls `connect()` while an attempt, its Channel, a retry, a queued
`start()` or an open connection is still there (`Underway`) gets what the code
does not prevent:

* `stopConnecting()` and `connect()` in one callback replace `channel_` while the
  old Channel is still in the list of the poll, and the queued reset then deletes
  the new one while it is registered;
* `connect()` while a retry timer is pending makes two attempts overlap;
* a `start()` of a connected client opens a second connection and drops the first
  (`client_second_connection`, section 4).

The properties therefore speak of clients whose `connect()` is called when they
are idle, and `clean` is a history variable that says so: it becomes false when
`connect()` is called and the client is not `Idle`, or, in a disconnect callback,
when retries are switched on after such a call. It says nothing about what the
client does by itself: `start()` runs from retry timers, from queued functors and
from `removeConnect()` without any test in the model, and that these never make
two attempts or two connections is what `OneConnection` shows and `Single`
proves. One case of the client's own remains outside: a retry whose delay is zero
seconds and that is due in the very poll in which the failure was reported, before
the queued reset of `channel_` has run (`recent`); `retryMs_ / 1000` is an integer
division, so the first delays are zero, but the timerfd is read in the same turn
only if the clock has not moved on. An execution is followed up to the step that
makes `clean` false and no further.

The model also shows: the destructor of a connected client leaves a key of
`channels_` behind (`NoStaleKeys` holds while the client exists); the branch of
`handleError()` that logs `???bug???` is reachable, by the event of an attempt
that was stopped since the poll (`LateEvent`).
`disconnect()` of a connected client does nothing beyond `needStart_`, because
`shutdown()` returns (section 4). `retryMs_` is uninitialised at the first retry
and divided as an integer, so a delay may be anything: the timer expires at some
time.

### TcpServer

The base loop's thread accepts (`NewConnect`, then `EndInsert`, which also hands
the connection to its loop); the thread of each loop runs `established`, `close`
and `remove` functors. `rConnects` maps descriptors to connections. It has no
lock, so an operation on it has a beginning and an end (`access`), and when two
threads are inside at once the execution stops being followed (`clean`): with one
or more sub-loops the model does reach that. A connection lives while the map, a
functor, a thread or user code holds it, and its descriptor is free once it does
not. The destructor (`Destroy`) runs on the base loop's thread: the pool is
destroyed before `rConnects_`, so every sub-loop is joined (`Join`; a functor that
is queued after the loop's last turn is destroyed unrun) and then the map goes
(`DestroyMap`). `dangling` notes a use of the members afterwards.
`numThread` is chosen at the start, so one run covers servers without sub-loops
(where `getNextLoop` answers the base loop) and with them.

`start()` is one action per step that another thread can see: the read of the
pool's `started_` (`StartChecks`), its store (`StartStores`), one sub-loop after
the other (`StartSub`) and the functor that listens (`StartPosts`). A second
`start()` may come at any of these points. If it finds the pool started
(`StartAgain`) it posts the functor at once, although `loops_` is still being
filled; a connection that is then accepted may get a null loop, whose constructor
calls `exit()` (`NewConnectExits`). `LoopsAreUp` says that this is the only way:
the program exits only if start() was called in between (`restarted`). If both
find the pool not started (`StartTwice`) they fill `threads_` together, which is
undefined and ends the execution.

The model also shows: without sub-loops the base loop may outlive the server with
a removal queued, which then uses freed members (`MembersAlive` is stated for
servers with sub-loops). Not covered: connections that are still in `rConnects_` when the
server goes are destroyed after their sub-loops ended, and
`~ReactorTcpConnection` cancels its timers on that loop.

### PacketBuffer and ByteQueue

`ByteQueue` says what users rely on: bytes leave in the order in which they came,
a header of fixed length that can be set and read in place goes out once and
first, and a reading call sees a prefix of what is there, as it is or in the
other byte order. `PacketBuffer` is the vector with `rIndex_`, `wIndex_` and
`hsIndex_`, the calls that read and write the header, growth, compaction, and `readFd()` and
`writeFd()`; each call of write(2) is an action of its own (`WriteHeader`,
`WriteBody`, interruption, failure), and takes any part. `ImplementsByteQueue` is
the refinement, with `contents` the bytes between the two indices. Integers of
all sizes are sequences of bytes; a conversion to the network's order reverses
them. A compaction with overlapping ranges is an undefined memcpy and ends the
execution (`defined`).

`ErrnoTellsTheRest` is what `handleWrite()` relies on. `EINTR` stays in
`savedErrno` after a successful retry, so a caller that tests it for zero would
take a success for an error; the descriptors of connections are non-blocking and
write(2) then does not return `EINTR`, which is why `Connection` has no such case.

### Sockets

Objects of all four classes, and the kernel: `kind` and `phase` of each
descriptor. Objects own or view a descriptor (`fd`, `owns`), are attached to one
that user code opened (`raw`), moved into each other in every direction
(including into themselves), closed and destroyed. `state` is the listener's
`state_`. After a close(2) that fails the object keeps a number that may be
another's by then; such an execution is not followed (`clean`).

## 3. Runs

| Run | Bounds | What it shows |
|---|---|---|
| `event_loop` | 3 functors, 2 callers, eventfd limit 1, both timeouts | no lost wakeup; refinement of `FunctorQueue`; functors run; `quit` ends the loop; with finite timeouts functors queued without a wakeup run as well |
| `pool` | 3 sub-loops that may quit themselves, counter of 3 values, 4 hand-outs | valid pointers; the destructor's `quit` is safe; even shares across a wrap; `start` and, if all loops were entered, the destructor return |
| `timer` | 2 timers, clock to 1 and set at most once, intervals 0 and 1, 1 caller, mailbox 2 | lifetime, timerfd, firing order; due timers run; cancellation is final and is not overtaken |
| `connection` | owner a server or a client, 2 bytes, 1 piece of input, high-water mark 2, queue 2 | bytes in order, interest, one disconnect, lifetime, high-water mark, silence after removal; bytes drain and closed connections leave unless their client was dropped |
| `tcp_client` | 3 descriptors, queue 2, 2 attempts under way at a time | for `connect()` of idle clients: sockets watched through living Channels, one connection, no connection ends silently, stops hold, attempts end, retries go on; `IInv` |
| `tcp_server` | 0 to 2 sub-loops, 3 connections, 2 descriptors, 2 starts, 1 close by user code, counter of 2 values | entries of `rConnects_`, use of members, the loops of connections through every order of two starts, accepted connections are established and closed ones leave; `IInv` |
| `packet_buffer` | header of 2 bytes, body of 1, chunks of 2, integers of 1 and 2 bytes, 3 bytes | refinement of `ByteQueue`; `savedErrno` |
| `sockets` | 2 `SocketTCP`, 1 `TcpConnect`, 2 `TcpListen`, 1 `SocketUDP`, 2 descriptors | one owner for each descriptor; no listener ahead of its socket |
| `pool_lost_quit`, `pool_start_hangs`, `connection_send_throws`, `client_second_connection` | as the passing runs of their module, or smaller | the disagreements of section 4 |

Why the bounds are enough: three functors allow one in the batch, one in the
queue and one being handed over; two callers allow a push and a wakeup to
interleave with another's; an eventfd limit of 1 makes saturation happen at once.
Three sub-loops give one being started or destroyed between one that runs and
one that does not exist. Two timers allow a running one and an earlier or later
one; ties, overdue deadlines and a deadline beyond the clock's end all occur; one
setting of the clock moves it back behind a deadline that was due or forward past
one that was not. Two bytes and a mark of two allow a direct part, a buffered
part and a later send, with the mark exactly reached. Three descriptors are the
old socket, the new one and a connection's; two attempts are one under way and
one that overtakes it. Three connections on two descriptors make a descriptor be
given out again while an old entry may still be there. Three bytes and a body of
one force growth, compaction and the overlapping copy, and a header of two bytes
goes out in two writes. Two objects of a class and two descriptors allow every
move between an owner, a viewer and an empty object while a number is given out
again.

`MaxTimers`, `MaxTime`, `MaxMailbox`, `MaxClockSets`, `MaxServed`, `MaxBytes`,
`MaxInput`, `MaxQueue`, `MaxFd`, `MaxAttempts`, `MaxConns`, `MaxStarts`,
`MaxCloses` and `MaxThreads` are bounds of the models, not of the code; where the
wall clock stops (`MaxTime`) the timerfd still counts, so an armed timer still
expires.

Deadlock checking is on for `event_loop`. It is off for the pool, whose owner
ends; for the timers, where a bounded clock and a bounded number of timers leave
nothing to do; for connection, client and server, which end and whose executions
stop where `clean` is lost or the program exits; for the buffer, whose bytes are bounded and which
stops at undefined behaviour; and for the sockets, which stop after a failing
close(2).

Every property of a passing run has a mutant in `PROJECT.json`: an operator in
the module that changes one definition the way a plausible slip in the code
would, and that makes the property fail. The type invariants are parts of the
`IInv` of each module (for `PacketBuffer`, of its proofs). All of them are proved;
those of `TcpClient` and `TcpServer`, the longest ones, are also checked by the runs.

### Fairness

* EventLoop: weak fairness of the loop's steps (the thread is scheduled and its
  callbacks return) and of a caller's pending write to the eventfd. Nothing is
  assumed about other descriptors, about who queues, or about `loop()` being
  called again.
* Pool: weak fairness of every thread's steps. Spurious wakeups and the user's
  calls need not happen. `SelfQuit` is a user's choice and has no fairness.
* TimerManager: weak fairness of time and of the loop's steps, strong fairness
  of `RunFunctor`, which is what `LoudRuns` of `EventLoop` establishes for
  functors queued by other threads: in this model poll may also return for
  other reasons, so `RunFunctor` is not continuously enabled.
* Connection: callbacks return (weak fairness of `EndCallback`); `handle()` gets
  its turn after the finitely many other channels of a poll, and the loop polls
  and calls functors again and again although other callbacks come between
  (strong fairness of `Handle`, `Poll`, `RunFunctor`, from `LoudRuns`). `Drained`
  also needs a peer that reads: the socket is then reported writable again and
  again and takes the whole buffer in the end. Neither user code nor the peer's
  sends, ends and resets have fairness.
* TcpClient: callbacks and destructors end (weak fairness of `Ends`). Channels,
  functors, the poll and the retry timer have strong fairness, because other
  channels' callbacks come between them again and again; that they get their turn
  is `LoudRuns` of `EventLoop` and `DueRuns` of `TimerManager`. The kernel reports
  the end of an attempt to connect (`PollReportsConnect`), as a TCP connect times
  out. Neither user code nor other threads have fairness.
* TcpServer: weak fairness of the base loop's and of each sub-loop's steps, that
  is, their queued functors run (`LoudRuns`) and an operation on the map ends.
  Nothing is assumed about accepts, closes or the destruction.
* PacketBuffer and Sockets have no liveness: nothing happens there unless it is
  called.

## 4. Disagreements between code and comments

With a run:

* **`pool_lost_quit`** - `loop()` clears `quit_` on entry (`EventLoop.cpp:42`),
  after `threadFunc` has published the loop. A pool that is destroyed right
  after `start()` may store its `quit()` in between; the store is erased and
  `join()` never returns. `EnteredLoopsAreJoined` (in `pool`) shows that this is
  the only way: if every loop had been entered, the destructor returns.
* **`pool_start_hangs`** - `start()` waits for `loop_ != nullptr`. A loop that
  quits itself early withdraws `loop_` before the starter looks; `start()`
  never returns although the EventLoop "has created" (`EventLoopThread.h:33`).
* **`connection_send_throws`** - `send()` keeps the result of `::send` in an
  unsigned variable, so -1 counts as success and `substr` throws; the error
  branch below it is dead for every non-empty string.
* **`client_second_connection`** - `needStart_` is "used to determine whether
  restart condition are met or client need to connect"
  (`ReactorTcpClient.h:106`), but it stays true while the client is connected
  and `start()` tests nothing else: `connect()` of a connected client, or a retry
  that was pending when an earlier `connect()` succeeded, begins another attempt,
  and its `newConnect()` overwrites `connection_`.

Met while modelling, and followed as the code has it:

* The test of `shutdown()` is `||` where `&&` is meant
  (`ReactorTcpConnection.cpp:264`); it returns in every state, although
  `ReactorTcpConnection.h:91` says that it does nothing "when in write event"
  only.
* `EventLoopThreadPool.h:25` says that `started()` is true "if started all
  loops"; `start()` stores it before the first one. A second `start()` of the
  server relies on it, listens, and a connection may get a null loop.
* A connection whose client was dropped is closed but never removed from the
  poller (`Connection`, above); `Channel.h:49` promises that a released object is
  not called back.
* A `cancelEvent` on the loop's thread finds nothing when the `addEvent` of
  another thread is still queued; the timer is added and runs later.
  `CancelHonoured` is about the two calls of other threads.
* `EvenShares` holds across the wrap of the counter of `getNextLoop` only if the
  number of loops divides the counter's range (2^32 in the code).
* `ReactorTcpServer.h:40` says that a closed connection is unregistered
  immediately; the erasure is queued.
* `ReactorTcpClient.h:28` says that `stopConnecting()` has no effect after the
  connection succeeded; it clears `needStart_`, so the client does not connect
  again when the connection ends.
* `SocketUDP::bind` and `connect` never set `state_`, so `isBind()` and
  `isConnect()` are always false and the `recv()` and `send()` without an address
  always fail with `ENOTCONN` (`SocketUDP.h:54-57, 70-76`).
* `connectNonBlockOrDie` returns an empty object whenever connect(2) is in
  progress, which is the usual answer for a non-blocking socket; `setReusePort`
  calls `setAddrReuse` (`SocketTCP.cpp:182`); an object whose socket(2) failed
  owns no descriptor and says it does; `TcpListen::close` does not reset
  `state_` (`NeverAhead` shows that no listener is ever ahead of its socket all
  the same).

## 5. Proofs

TLAPS checks every proof to its last leaf. The assumptions are the named ones
in the modules (`EventfdMaxAssumption`, `NAssumption`, `BoundsAssumption`, ...),
which TLC evaluates as well.

* `EventLoopProofs`: `IInv` = types, phases, and `PromiseKept`. `NoLostWakeup`
  alone is not inductive: it speaks of `pc = "poll"` only, while the promise has
  to hold from the moment a batch is taken (`pc = "run"`) until the next one is
  due; `pending_` must be known to be true in the batch, so that a callback's
  `queueInLoop` writes the wakeup. `Refinement` uses the types only: each step
  maps to `Queue`, `RunNow`, `RunNext` or a stutter. `ExactlyOnce` is a promise of
  `FunctorQueue` (`InOnePlace`) carried over by that mapping: it is inductive over
  batch and queue of the loop taken together.
* `EventLoopThreadPoolProofs`: `TypeCorrect` by itself. `QuitIsSafe` rests on
  `LoopIsPublished` (loop_ is set exactly between publishing and withdrawing)
  and `HeldLoop` (the lock keeps it there); `PoolPointersAreValid` adds
  `NotQuitting` and `UpAndRunning`, which hold as long as no loop quit itself.
  `SharesAreEven`: `EvenShares` only compares, and is not inductive; `Rounds` says
  exactly which loops are one ahead, those that the current round has passed, and
  the lemma `NextTurn` says that `next_` modulo N goes on to the next loop also when
  the counter overflows, if N divides its range. `StarterIsNotified`: whoever waits
  on `cv_` has looked at `loop_` before it was set, and setting it is followed by
  the notification (`Awaited`).
* `TimerManagerProofs`: `IInv` = types, `TablesAgree`, `RunningTimerExists`,
  `Armed`, `Numbering` (a number belongs to one timer, queued at most once, then
  pending, then gone), `Phases` and `MailOrder`. `CancelledStayDead` needs `Numbering`:
  without it a queued addition could revive a dead number. `FiringOrder` needs
  `TablesAgree` and `Phases`. `CancellationIsFinal` needs `MailOrder`: other threads
  know only numbers that were given out, so that no addition of a timer can be
  queued behind its cancellation.
* `ConnectionProofs`: `IInv` = types, `BytesInOrder`, `InterestMatches`,
  `OneDisconnect`, `Phases` (what each `state_` means), `QueueOrder` (what may
  stand where in the queue), `WillBeClosed` (an open connection that its owner has
  left is about to be closed), `WillBeRemoved` (a registered channel is open, in
  its disconnect callback, has its removal queued, or has lost its client) and
  `HighWaterAnnounced`.
  `OneDisconnect` needs `QueueOrder`: a second `connectEstablished()` would open
  a closed connection. `PointersStayAlive` follows from `WillBeRemoved` and
  `WillBeClosed`, since each of their cases but the lost client holds a pointer; `SilentAfterRemoval` from `QueueOrder`.
  `BytesStayInOrder` stands alone, on lemmas about concatenation of consecutive
  runs.
* `TcpClientProofs`: `TypeCorrect` is proved together with `Turns` (a functor only
  runs when the list of the poll is empty, which keeps the pointers of that list in
  range), and from them `StoppedStays`: `Start` is the only way to an attempt, and
  tests `needStart_` at once. The other properties need the whole `IInv`.
  `Watched` and `OneConnection` are about one moment; that they last depends on
  what is queued: `QueueFits` (a queued reset finds a `channel_` that nobody uses,
  a queued destruction a closed connection that is not the client's), `Order` (at
  most one reset and one start, no close behind its destruction), `Closing` (a
  closed connection has something queued that removes it, so its key in `channels_`
  goes before its descriptor is used again), `ActiveFits` (the events still to be
  handled are about `channel_` as it is now, none about a deleted one) and
  `Single`: at most one retry or queued `start()`, never beside an attempt or an
  open connection, and a `channel_` that is still to be reset is reset before
  either can use it. `Order` is stronger than "at most one reset" for that: the
  close of an open connection is never queued before a reset, because its
  `removeConnect()` may begin an attempt at once. All of this starts from
  `connect()` being called on idle clients (`clean`), and without `Single` it
  would not be kept by a retry. The lemmas
  `Push` and `Pop` say what a push and a pop do to the set of functors waiting in
  batch and queue, so the steps never reason about positions. `EndsAreHeard` follows
  because an open connection is always referenced, and only unreferenced ones are
  destroyed.
* `TcpServerProofs`: `IInv` is restated in terms of the set of functors in a queue
  (`ItemsOf`), as `QueuesFit` and `AccessesFit`; the lemma `SafeParts` shows that
  this is the same. `EntriesAreOwn` rests on `Descriptors` (connections that
  somebody points to have descriptors of their own: a descriptor is free only when
  the last pointer is gone) and on `QueuesFit` (only closed connections are
  removed). `MembersStay` rests on `Subs`: a connection of a sub-loop is handled
  only while that loop runs, and `rConnects_` goes after the last one was joined.
  `HandedToRunningLoops` rests on it too: whoever listens has found the pool up, or
  came while it was starting.
  `NothingForgotten`: every step that takes a functor about a connection out of a
  queue moves that connection on.
* `PacketBufferProofs`: its invariant is types, the order of the indices
  (`IndicesInOrder`), and that inside `writeFd()` no error was saved yet, which
  is what `ErrnoIsHonest` needs. `Refinement`: the lemmas `AtTheEnd` and
  `AtTheStart` say what an append does to the bytes between the indices, whether
  the vector fits, grows or is compacted; each action then maps to one of
  `ByteQueue`.
* `SocketsProofs`: `IInv` = types, `OwnedOnce`, `NeverAhead`, that a raw
  descriptor is open and that a listener owns what it holds (`ListenersOwn`):
  one that only viewed a socket could see it closed and its number given to a new
  one, and `NeverAhead` would fail.

Every invariant and every action property of the passing runs is proved, and both
refinements. Only model-checked is the liveness, which is out of the prover's
reach: `LoudRuns`, `QuitStops` and `QueuedRuns`; `StartReturns` and
`EnteredLoopsAreJoined`; `DueRuns` and `CancelHonoured`; `Drained` and
`ClosedIsRemoved`; `AttemptEnds` and `KeepsTrying`; `Established` and
`ClosedLeaves`. What these need besides fairness is proved for most of them:
`NoLostWakeup` for `LoudRuns`, `NotifyToCome` for `StartReturns`, `Armed` for
`DueRuns`, `CancelIsFinal` for `CancelHonoured`, `InterestMatches` and
`WillBeRemoved` for the two of `Connection`, `NoneForgotten` for the two of
`TcpServer`. `NotifyToCome` and `CancelIsFinal` are stated for the proofs and are
no properties of a run; `NoneForgotten` is part of the `IInv` that `tcp_server`
checks.

## 6. Plan

1. (done) EventLoop, EventLoopThreadPool, TimerManager, Connection with their
   proofs.
2. (done) `TcpClient`, `TcpServer`, `PacketBuffer` with `ByteQueue`, `Sockets`;
   the proofs of the last two.
3. (done) The proofs of the `IInv` of `TcpClient` and of `TcpServer`, and from them
   of `Watched`, `OneConnection`, `NoSilentEnd`, `OwnEntry` and `MembersAlive`; of
   `EvenShares`; of the safety parts of `StartReturns`, `CancelHonoured`,
   `Established` and `ClosedLeaves`.
4. The composition of `FunctorQueue` with TimerManager's mailbox, with the queues
   of the connections and with those of the server, which now each assume that
   queued functors run once and in order.

Not modelled, and why: InetAddr and Timestamp (values without state over time),
Wrapper and Common (inline wrappers of system calls), the Logger (a submodule
outside the sources), the examples, the Windows variant (only the raw sockets
build there); `stopConnecting()`, `disconnect()` and `send()` from other threads
(data races: nothing is defined that could be checked); the lengths of retry
delays; a poller with several connections of one sub-loop (`Connection` lets
other channels' callbacks come between at every step instead).
