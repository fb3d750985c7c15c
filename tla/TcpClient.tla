------------------------------ MODULE TcpClient ------------------------------
(***************************************************************************)
(* qinmo::net::ReactorTcpClient: connecting, retrying and stopping, with   *)
(* the Channel of the connecting socket and the table of the poller.       *)
(*                                                                         *)
(* Everything runs on the loop's thread, which handles the channels of a   *)
(* poll, runs the functors queued until then, and polls again; only        *)
(* connect() also comes from other threads.  C++ runs the destructor of    *)
(* an object when its last pointer goes: Destruct and DestroyConnection    *)
(* are steps that the thread takes before any other.                       *)
(*                                                                         *)
(* A connection is reduced to what the client sees of it (Connection has   *)
(* the rest): it is open until handleClose(), and the user's code keeps no *)
(* pointer to it beyond a callback.                                        *)
(***************************************************************************)
EXTENDS Integers, Sequences

CONSTANTS
    MaxFd,          \* bound: descriptors that may be open at a time
    MaxQueue,       \* bound: nothing is posted to a longer queue
    MaxAttempts     \* bound: attempts under way when the user asks for one more

ASSUME BoundsAssumption ==
    /\ MaxFd \in Nat \ {0}
    /\ MaxQueue \in Nat
    /\ MaxAttempts \in Nat

Fds == 1..MaxFd
NoFd == 0

VARIABLES
    phase,          \* the loop handles "channels" or runs "functors"
    active,         \* channels of this poll that are still to be handled
    recent,         \* a handler of channel_ has run in this turn of the channels
    queue, batch,   \* functors queued in the loop; those of this turn
    done,           \* those that have run; they go when the whole batch has run
    timers,         \* retry timers that are pending
    callback,       \* the user code that is running, if any
    subject,        \* the connection whose callback that is
    owned,          \* the user has not dropped the client
    client,         \* "alive" until the destructor has run, then "gone"
    state,          \* state_
    needStart,      \* needStart_
    isRetry,        \* isRetry_
    sock,           \* sock_
    channel,        \* the descriptor of *channel_
    connection,     \* the descriptor of *connection_
    conn,           \* conn[f]: the connection that owns descriptor f
    table,          \* the keys of the poller's channels_
    epoll,          \* epoll[f]: whose Channel the kernel holds for f
    gaveUp,         \* the last attempt met an error that is not retried
    clean           \* connect() was only called on an idle client (Idle), and no
                    \* retry was due in the poll that reported the failure

loopVars == <<phase, recent, active, queue, batch, done, timers>>
userVars == <<callback, subject, owned>>
flagVars == <<needStart, isRetry>>
connVars == <<connection, conn>>
pollVars == <<table, epoll>>
attemptVars == <<state, sock, channel, gaveUp, clean>>
vars == <<loopVars, userVars, client, flagVars, connVars, pollVars, attemptVars>>

Pointers == {"none", "channel", "conn", "freed"}
FunctorNames == {"start", "reset", "close", "destroyed", "delete"}
AllFunctors == [name : FunctorNames, fd : Fds \union {NoFd}]
Functor(name, f) == [name |-> name, fd |-> f]

TypeOK ==
    /\ phase \in {"channels", "functors"}
    /\ active \subseteq Fds \X (Pointers \ {"none"})
    /\ queue \in Seq(AllFunctors)
    /\ batch \in Seq(AllFunctors)
    /\ recent \in BOOLEAN
    /\ done \subseteq AllFunctors
    /\ timers \in Nat
    /\ callback \in {"none", "connect", "disconnect", "destroyed", "other"}
    /\ subject \in Fds \union {NoFd}
    /\ owned \in BOOLEAN
    /\ client \in {"alive", "gone"}
    /\ state \in {"Disconnect", "Connecting", "Connected"}
    /\ needStart \in BOOLEAN
    /\ isRetry \in BOOLEAN
    /\ sock \in Fds \union {NoFd}
    /\ channel \in Fds \union {NoFd}
    /\ connection \in Fds \union {NoFd}
    /\ conn \in [Fds -> {"none", "open", "closed"}]
    /\ table \subseteq Fds
    /\ epoll \in [Fds -> Pointers]
    /\ gaveUp \in BOOLEAN
    /\ clean \in BOOLEAN

Init ==
    /\ phase = "functors"
    /\ active = {}
    /\ queue = <<>>
    /\ batch = <<>>
    /\ recent = FALSE
    /\ done = {}
    /\ timers = 0
    /\ callback = "none"
    /\ subject = NoFd
    /\ owned = TRUE
    /\ client = "alive"
    /\ state = "Disconnect"
    /\ needStart = TRUE
    /\ isRetry = FALSE
    /\ sock = NoFd
    /\ channel = NoFd
    /\ connection = NoFd
    /\ conn = [f \in Fds |-> "none"]
    /\ table = {}
    /\ epoll = [f \in Fds |-> "none"]
    /\ gaveUp = FALSE
    /\ clean = TRUE

-----------------------------------------------------------------------------
(* Pointers.                                                               *)

Waiting == {queue[i] : i \in DOMAIN queue} \union {batch[i] : i \in DOMAIN batch}
Queued(functor) == functor \in Waiting

\* What a functor has captured lives as long as the vector that holds it.
Captured(functor) == Queued(functor) \/ functor \in done

\* connect() and removeChannel() give their functors a shared_ptr, and the
\* connect callback runs in a handler that holds one.
Held ==
    \/ owned
    \/ Captured(Functor("start", NoFd))
    \/ Captured(Functor("reset", NoFd))
    \/ callback = "connect"

Referenced(f) ==
    \/ connection = f
    \/ subject = f
    \/ Captured(Functor("close", f))
    \/ Captured(Functor("destroyed", f))

\* Destructors come first; and what follows when clean is FALSE is not modelled.
Settled ==
    /\ clean
    /\ Held \/ client = "gone"
    /\ \A f \in Fds : conn[f] # "none" => Referenced(f)

Free == {f \in Fds : f # sock /\ conn[f] = "none"}

\* setChannel() registers with the kernel only under a new key of channels_;
\* else it modifies, which fails for a descriptor the kernel does not hold.
Registered(keys, pointers, f, owner) ==
    IF f \in keys THEN pointers ELSE [pointers EXCEPT ![f] = owner]

\* close(2) takes a descriptor out of the kernel's set, not out of channels_.
Without(pointers, f) == [g \in Fds |-> IF g = f THEN "none" ELSE pointers[g]]

\* What becomes of the kernel's pointers and of the active list's when the
\* Channel that channel_ owns is deleted
ChannelFreed(pointers) ==
    [g \in Fds |-> IF pointers[g] = "channel" THEN "freed" ELSE pointers[g]]
ActiveFreed == {<<a[1], IF a[2] = "channel" THEN "freed" ELSE a[2]>> : a \in active}

-----------------------------------------------------------------------------
(* start() and retry().                                                    *)

\* An attempt, its channel, a retry, a queued start() or an open connection is
\* still there.
Underway ==
    \/ state = "Connecting"
    \/ channel # NoFd
    \/ timers > 0
    \/ Queued(Functor("start", NoFd))
    \/ connection # NoFd /\ conn[connection] = "open"

\* When connect() may be called; a client with retries enabled reconnects by
\* itself after the disconnect callback.
Idle == ~Underway /\ ~(callback = "disconnect" /\ isRetry)

\* As if retry() started no timer.
RetriedNever(n) ==
    /\ state' = "Disconnect"
    /\ sock' = NoFd
    /\ timers' = n
    /\ gaveUp' = ~(isRetry /\ needStart')

Retried(n) ==
    /\ state' = "Disconnect"
    /\ sock' = NoFd
    /\ timers' = IF isRetry /\ needStart' THEN n + 1 ELSE n
    /\ gaveUp' = ~(isRetry /\ needStart')

\* As if enableWrite() were forgotten.
BeginUnwatched(f, n) ==
    /\ state' = "Connecting"
    /\ sock' = f
    /\ channel' = f
    /\ epoll' = ChannelFreed(Without(epoll, sock))
    /\ active' = IF channel = NoFd THEN active ELSE ActiveFreed
    /\ gaveUp' = FALSE
    /\ timers' = n
    /\ UNCHANGED table

\* connect() succeeded or is in progress.  The new socket exists before the
\* assignment closes the old one, so the two descriptors differ.
Begin(f, n) ==
    /\ state' = "Connecting"
    /\ sock' = f
    /\ channel' = f
    /\ table' = table \union {f}
    /\ epoll' = Registered(table, ChannelFreed(Without(epoll, sock)), f, "channel")
    /\ active' = IF channel = NoFd THEN active ELSE ActiveFreed
    /\ gaveUp' = FALSE
    /\ timers' = n

RetryableError(n) ==
    /\ Retried(n)
    /\ epoll' = Without(epoll, sock)
    /\ UNCHANGED <<active, channel, table>>

OtherError(st, n) ==
    /\ state' = st
    /\ sock' = NoFd
    /\ epoll' = Without(epoll, sock)
    /\ gaveUp' = TRUE
    /\ timers' = n
    /\ UNCHANGED <<active, channel, table>>

\* As if start() did not look at needStart_.
StartAnyway(st, n) ==
    \E f \in Free : Begin(f, n) \/ RetryableError(n) \/ OtherError(st, n)

\* start() with state_ = st and n other timers, needStart_ having its new
\* value; the kernel gives the new socket any free descriptor.
Start(st, n) ==
    \/ /\ needStart'
       /\ \E f \in Free : Begin(f, n) \/ RetryableError(n) \/ OtherError(st, n)
    \/ /\ ~needStart'
       /\ state' = st
       /\ timers' = n
       /\ UNCHANGED <<sock, channel, table, epoll, active, gaveUp>>

-----------------------------------------------------------------------------
(* removeChannel(), and the sock_.close() that follows it in all but one   *)
(* of its uses.                                                            *)

\* As if channel_->remove() were forgotten.
ChannelNotRemoved ==
    /\ epoll' = Without(epoll, sock)
    /\ queue' = Append(queue, Functor("reset", NoFd))
    /\ UNCHANGED table

RemoveChannel ==
    /\ table' = table \ {channel}
    /\ epoll' = Without(Without(epoll, channel), sock)
    /\ queue' = Append(queue, Functor("reset", NoFd))

-----------------------------------------------------------------------------
(* The loop: the channels of a poll.                                       *)

OnLoop == Settled /\ callback = "none"

\* A handler of the connecting channel that finds state_ kConnecting.  With no
\* channel_ it would follow a null pointer.
HandlesChannel(f) ==
    /\ OnLoop
    /\ <<f, "channel">> \in active
    /\ active' = active \ {<<f, "channel">>}
    /\ client = "alive" /\ state = "Connecting" /\ channel # NoFd
    /\ UNCHANGED <<phase, batch, done, owned, client, flagVars, channel, clean>>
    /\ recent' = TRUE

\* An error event, an error of the socket, or a connection to itself
ConnectFails(f) ==
    /\ HandlesChannel(f)
    /\ RemoveChannel
    /\ Retried(timers)
    /\ UNCHANGED <<callback, subject, connVars>>

ConnectUnwanted(f) ==
    /\ HandlesChannel(f)
    /\ ~needStart
    /\ RemoveChannel
    /\ state' = "Disconnect"
    /\ sock' = NoFd
    /\ UNCHANGED <<callback, subject, connVars, timers, gaveUp>>

\* newConnect(); its connectEstablished() registers the same descriptor anew.
ConnectSucceeds(f) ==
    /\ HandlesChannel(f)
    /\ needStart
    /\ sock # NoFd
    /\ state' = "Connected"
    /\ sock' = NoFd
    /\ connection' = sock
    /\ conn' = [conn EXCEPT ![sock] = "open"]
    /\ table' = (table \ {channel}) \union {sock}
    /\ epoll' = Registered(table \ {channel}, Without(epoll, channel), sock, "conn")
    /\ queue' = Append(queue, Functor("reset", NoFd))
    /\ callback' = "connect"
    /\ subject' = sock
    /\ UNCHANGED <<timers, gaveUp>>

\* state_ has changed since the poll, or the client is gone.
LateEvent(f) ==
    /\ OnLoop
    /\ <<f, "channel">> \in active
    /\ active' = active \ {<<f, "channel">>}
    /\ client = "gone" \/ state # "Connecting"
    /\ UNCHANGED <<phase, recent, done, queue, batch, timers, userVars, client,
                   flagVars, connVars, pollVars, attemptVars>>

\* handleClose() of the connection, up to the disconnect callback
HandleClose(f) ==
    IF conn[f] = "open"
      THEN /\ conn' = [conn EXCEPT ![f] = "closed"]
           /\ callback' = "disconnect"
           /\ subject' = f
      ELSE UNCHANGED <<conn, callback, subject>>

ConnectionEvent(f) ==
    /\ OnLoop
    /\ <<f, "conn">> \in active
    /\ active' = active \ {<<f, "conn">>}
    /\ HandleClose(f) \/ UNCHANGED <<conn, callback, subject>>
    /\ UNCHANGED <<phase, recent, done, queue, batch, timers, owned, client,
                   flagVars, connection, pollVars, attemptVars>>

\* handleRead() runs the timers that are due at the time of the poll; one that
\* was set later is due there only when the clock has not moved on.
RetryTimer ==
    /\ OnLoop
    /\ phase = "channels"
    /\ timers > 0
    /\ IF client = "alive"
         THEN /\ needStart' = needStart
              /\ Start(state, timers - 1)
              /\ clean' = (clean /\ ~recent)
         ELSE /\ timers' = timers - 1
              /\ UNCHANGED <<needStart, active, pollVars, attemptVars>>
    /\ UNCHANGED <<phase, recent, done, queue, batch, userVars, client, isRetry,
                   connVars>>

-----------------------------------------------------------------------------
(* The loop: functors and poll.                                            *)

EndChannels ==
    /\ OnLoop
    /\ phase = "channels" /\ active = {}
    /\ phase' = "functors"
    /\ recent' = FALSE
    /\ batch' = queue
    /\ queue' = <<>>
    /\ UNCHANGED <<active, done, timers, userVars, client, flagVars, connVars,
                   pollVars, attemptVars>>

\* Idle rounds, and events that come to nothing, are polls with no event.
Poll ==
    /\ OnLoop
    /\ phase = "functors" /\ batch = <<>> /\ done = {}
    /\ phase' = "channels"
    /\ active' \in SUBSET {<<f, epoll[f]>> : f \in {g \in Fds : epoll[g] # "none"}}
    /\ UNCHANGED <<recent, done, queue, batch, timers, userVars, client,
                   flagVars, connVars, pollVars, attemptVars>>

Pops(name) ==
    /\ OnLoop
    /\ phase = "functors"
    /\ batch # <<>> /\ Head(batch).name = name
    /\ batch' = Tail(batch)
    /\ UNCHANGED <<phase, recent, queue, owned, client, isRetry, connection>>
    /\ done' = done \union {Head(batch)}

RunStart ==
    /\ Pops("start")
    /\ needStart' = needStart
    /\ Start(state, timers)
    /\ UNCHANGED <<callback, subject, conn, clean>>

\* Whatever Channel channel_ owns by now is deleted.
RunReset ==
    /\ Pops("reset")
    /\ channel' = NoFd
    /\ epoll' = ChannelFreed(epoll)
    /\ UNCHANGED <<active, timers, callback, subject, needStart, conn, table,
                   state, sock, gaveUp, clean>>

RunClose ==
    /\ Pops("close")
    /\ HandleClose(Head(batch).fd)
    /\ UNCHANGED <<active, timers, needStart, pollVars, attemptVars>>

\* As if connectDestroyed() did not remove the channel.
RunDestroyedStays ==
    /\ Pops("destroyed")
    /\ Head(batch).fd # NoFd
    /\ UNCHANGED <<active, timers, callback, subject, needStart, conn, pollVars,
                   attemptVars>>

\* connectDestroyed(); called through a null pointer if there is none.
RunDestroyed ==
    /\ Pops("destroyed")
    /\ LET f == Head(batch).fd
       IN  /\ f # NoFd
           /\ table' = table \ {f}
           /\ epoll' = Without(epoll, f)
           /\ IF conn[f] = "open"
                THEN /\ conn' = [conn EXCEPT ![f] = "closed"]
                     /\ callback' = "destroyed"
                     /\ subject' = f
                ELSE UNCHANGED <<conn, callback, subject>>
    /\ UNCHANGED <<active, timers, needStart, attemptVars>>

\* The functor of the destructor; its fd was closed with sock_.
RunDelete ==
    /\ Pops("delete")
    /\ table' = table \ {Head(batch).fd}
    /\ UNCHANGED <<active, timers, callback, subject, needStart, conn, epoll,
                   attemptVars>>

\* The vector of this turn's functors goes, and what they have captured.
EndFunctors ==
    /\ OnLoop
    /\ batch = <<>> /\ done # {}
    /\ done' = {}
    /\ UNCHANGED <<phase, recent, active, queue, batch, timers, userVars,
                   client, flagVars, connVars, pollVars, attemptVars>>

-----------------------------------------------------------------------------
(* The end of callbacks and of objects.                                    *)

Returns(name) ==
    /\ Settled
    /\ callback = name
    /\ callback' = "none"
    /\ subject' = NoFd
    /\ UNCHANGED <<phase, recent, done, batch, owned, client, flagVars, conn>>

EndCallback ==
    /\ \/ Returns("connect") \/ Returns("destroyed") \/ Returns("other")
       \/ client = "gone" /\ Returns("disconnect")
    /\ UNCHANGED <<queue, active, timers, connection, pollVars, attemptVars>>

\* As if removeConnect() reconnected without looking at isRetry_.
RemoveConnectStarts ==
    /\ client = "alive"
    /\ Returns("disconnect")
    /\ queue' = Append(queue, Functor("destroyed", connection))
    /\ connection' = NoFd
    /\ IF needStart
         THEN Start("Disconnect", timers) /\ UNCHANGED clean
         ELSE UNCHANGED <<active, timers, pollVars, attemptVars>>

\* removeConnect(), called by closeFunc_ after the disconnect callback
RemoveConnect ==
    /\ client = "alive"
    /\ Returns("disconnect")
    /\ queue' = Append(queue, Functor("destroyed", connection))
    /\ connection' = NoFd
    /\ IF isRetry /\ needStart
         THEN Start("Disconnect", timers) /\ UNCHANGED clean
         ELSE UNCHANGED <<active, timers, pollVars, attemptVars>>

\* As if the destructor left everything to the members.
DestructOnly ==
    /\ client = "alive" /\ ~Held
    /\ client' = "gone"
    /\ needStart' = FALSE
    /\ connection' = NoFd
    /\ sock' = NoFd
    /\ channel' = NoFd
    /\ epoll' = ChannelFreed(Without(epoll, sock))
    /\ active' = IF channel = NoFd THEN active ELSE ActiveFreed
    /\ UNCHANGED <<phase, recent, done, queue, batch, timers, userVars, isRetry,
                   conn, table, state, gaveUp, clean>>

\* ~ReactorTcpClientCore and the destruction of its members
Destruct ==
    /\ client = "alive" /\ ~Held
    /\ client' = "gone"
    /\ needStart' = FALSE
    /\ connection' = NoFd
    /\ sock' = NoFd
    /\ channel' = NoFd
    /\ IF connection = NoFd /\ state = "Connecting"
         THEN /\ queue' = Append(queue, Functor("delete", channel))
              /\ epoll' = Without(epoll, sock)
              /\ UNCHANGED active
         ELSE /\ queue' = IF connection = NoFd THEN queue
                          ELSE Append(queue, Functor("close", connection))
              /\ epoll' = ChannelFreed(Without(epoll, sock))
              /\ active' = IF channel = NoFd THEN active ELSE ActiveFreed
    /\ UNCHANGED <<phase, recent, done, batch, timers, userVars, isRetry, conn,
                   table, state, gaveUp, clean>>

\* The last pointer is gone; nothing takes the key out of channels_.
DestroyConnection(f) ==
    /\ conn[f] # "none" /\ ~Referenced(f)
    /\ conn' = [conn EXCEPT ![f] = "none"]
    /\ epoll' = Without(epoll, f)
    /\ active' = {<<a[1], IF a = <<f, "conn">> THEN "freed" ELSE a[2]>> : a \in active}
    /\ UNCHANGED <<phase, recent, done, queue, batch, timers, userVars, client,
                   flagVars, connection, table, attemptVars>>

-----------------------------------------------------------------------------
(* User code, in a callback of the client's connection or of anything else *)
(* on the loop.                                                            *)

OtherCallback ==
    /\ OnLoop
    /\ owned
    /\ callback' = "other"
    /\ UNCHANGED <<loopVars, subject, owned, client, flagVars, connVars,
                   pollVars, attemptVars>>

User ==
    /\ Settled
    /\ callback # "none"
    /\ owned
    /\ Len(queue) < MaxQueue
    /\ UNCHANGED <<phase, recent, batch, done, callback, subject, client,
                   connVars>>

\* What may still open a socket
Attempts ==
    timers + Len(SelectSeq(queue \o batch, LAMBDA q : q.name = "start"))
        + (IF state = "Connecting" THEN 1 ELSE 0)
        + (IF connection # NoFd THEN 1 ELSE 0)

Connect ==
    /\ User
    /\ Attempts < MaxAttempts
    /\ needStart' = TRUE
    /\ Start(state, timers)
    /\ clean' = (clean /\ Idle)
    /\ UNCHANGED <<queue, owned, isRetry>>

\* connect() of another thread
PostConnect ==
    /\ clean
    /\ owned
    /\ Len(queue) < MaxQueue
    /\ Attempts < MaxAttempts
    /\ needStart' = TRUE
    /\ queue' = Append(queue, Functor("start", NoFd))
    /\ clean' = (clean /\ Idle)
    /\ UNCHANGED <<phase, recent, done, active, batch, timers, userVars, client,
                   isRetry, connVars, pollVars, state, sock, channel, gaveUp>>

\* With no channel_ it would follow a null pointer.
StopConnecting ==
    /\ User
    /\ needStart' = FALSE
    /\ IF state = "Connecting"
         THEN /\ channel # NoFd
              /\ RemoveChannel
              /\ state' = "Disconnect"
              /\ sock' = NoFd
         ELSE UNCHANGED <<queue, pollVars, state, sock>>
    /\ UNCHANGED <<active, timers, owned, isRetry, channel, gaveUp, clean>>

\* On a connection disconnect() calls shutdown(), which returns at once
\* (Connection, ShutdownReturns); else it is stopConnecting().
Disconnect ==
    /\ connection # NoFd
    /\ User
    /\ needStart' = FALSE
    /\ UNCHANGED <<active, queue, timers, owned, isRetry, pollVars,
                   attemptVars>>

\* In a disconnect callback that has called connect(), it asks for a second start.
SetRetry ==
    /\ User
    /\ isRetry' = ~isRetry
    /\ clean' = (clean /\ ~(callback = "disconnect" /\ Underway))
    /\ UNCHANGED <<active, queue, timers, owned, needStart, pollVars, state,
                   sock, channel, gaveUp>>

\* close() of the connection
CloseConnection ==
    /\ User
    /\ connection # NoFd /\ conn[connection] = "open"
    /\ queue' = Append(queue, Functor("close", connection))
    /\ UNCHANGED <<active, timers, owned, flagVars, pollVars, attemptVars>>

\* The user drops the client.
Drop ==
    /\ User
    /\ owned' = FALSE
    /\ UNCHANGED <<active, queue, timers, flagVars, pollVars, attemptVars>>

-----------------------------------------------------------------------------
Channels ==
    \/ \E f \in Fds : \/ ConnectFails(f) \/ ConnectUnwanted(f) \/ ConnectSucceeds(f)
                      \/ LateEvent(f) \/ ConnectionEvent(f)
    \/ EndChannels

Functors ==
    RunStart \/ RunReset \/ RunClose \/ RunDestroyed \/ RunDelete \/ EndFunctors

Ends ==
    \/ EndCallback \/ RemoveConnect
    \/ Destruct
    \/ \E f \in Fds : DestroyConnection(f)

Next ==
    \/ Channels \/ Functors \/ Poll \/ RetryTimer
    \/ Ends
    \/ OtherCallback \/ PostConnect
    \/ Connect \/ StopConnecting \/ Disconnect \/ SetRetry \/ CloseConnection \/ Drop

(***************************************************************************)
(* Fairness: callbacks and destructors end, channels and functors get      *)
(* their turn although other callbacks come between, the kernel reports    *)
(* the end of every attempt to connect, and timers expire.                 *)
(***************************************************************************)
PollReportsConnect == Poll /\ channel # NoFd /\ <<channel, "channel">> \in active'

Fairness ==
    /\ WF_vars(Ends)
    /\ SF_vars(Channels)
    /\ SF_vars(Functors)
    /\ SF_vars(Poll)
    /\ SF_vars(PollReportsConnect)
    /\ SF_vars(RetryTimer)

Spec == Init /\ [][Next]_vars /\ Fairness

-----------------------------------------------------------------------------
(* Properties of clients whose connect() is only called when they are      *)
(* idle: clean.                                                            *)

(***************************************************************************)
(* The kernel watches the socket of every attempt, through the channel_    *)
(* that its handler will use, and of every open connection: no stale key   *)
(* of channels_ has turned a registration into a failing modification,     *)
(* also when a descriptor is used again; and neither the kernel nor the    *)
(* list of the poll that is being handled holds a Channel that was         *)
(* deleted.                                                                *)
(***************************************************************************)
Watched ==
    clean => /\ state = "Connecting" /\ client = "alive" =>
                    channel = sock /\ channel # NoFd /\ epoll[sock] = "channel"
             /\ \A f \in Fds : /\ conn[f] = "open" => epoll[f] = "conn"
                               /\ epoll[f] # "freed"
             /\ \A a \in active : a[2] # "freed"

(***************************************************************************)
(* channels_ has no key of a descriptor that is not registered, as long as *)
(* the client exists.                                                      *)
(***************************************************************************)
NoStaleKeys ==
    clean /\ client = "alive" => \A f \in table : epoll[f] # "none"

(***************************************************************************)
(* When connect() is only called on an idle client there is one connection *)
(* at a time, whatever retries, queued starts, restarts after a disconnect *)
(* and stops follow: an open one is the client's or was left to its close  *)
(* functor by the destructor, and while it is open nothing is being        *)
(* connected.  ConnectsWhenNeeded shows what other calls lead to.          *)
(***************************************************************************)
OneConnection ==
    clean => \A f \in Fds :
        conn[f] = "open" =>
            /\ connection = f \/ (client = "gone" /\ Queued(Functor("close", f)))
            /\ client = "alive" => state = "Connected" /\ sock = NoFd

(***************************************************************************)
(* What the properties above rest on.  Order: at most one start() and one  *)
(* reset of channel_ are queued, the reset before any close of the open    *)
(* connection, and no close behind the functor that destroys the           *)
(* connection; QueueFits, Attempt, Kernel, Connections: a reset waits only *)
(* while channel_ is neither empty nor in use, and the kernel's pointers,  *)
(* the descriptors and the connections match; Closing: a closed connection *)
(* is removed by what is queued for it; Single: a pending retry or a       *)
(* queued start() is the only thing that may open a socket, and channel_   *)
(* is empty by then; ActiveFits: the events that are still to be handled   *)
(* are about channel_ as it is.                                            *)
(***************************************************************************)
Turns ==
    /\ phase = "functors" => active = {} /\ ~recent
    /\ phase = "channels" => batch = <<>>
    /\ client = "gone" => ~owned /\ ~needStart /\ connection = NoFd /\ sock = NoFd
                             /\ channel = NoFd

Opened == {f \in Fds : conn[f] = "open"}

\* p must not wait before q.
Clash(opened, p, q) ==
    \/ p.name = "reset" /\ q.name = "reset"
    \/ p.name = "start" /\ q.name = "start"
    \/ p.name = "destroyed" /\ q.name = "close" /\ q.fd = p.fd
    \/ p.name = "close" /\ p.fd \in opened /\ q.name = "reset"

Order ==
    /\ \A i, j \in DOMAIN queue : i < j => ~Clash(Opened, queue[i], queue[j])
    /\ \A i, j \in DOMAIN batch : i < j => ~Clash(Opened, batch[i], batch[j])
    /\ \A i \in DOMAIN batch, j \in DOMAIN queue : ~Clash(Opened, batch[i], queue[j])

QueueFits ==
    \A q \in Waiting :
        /\ q.name \in {"start", "reset"} => q.fd = NoFd
        /\ q.name = "reset" => channel # NoFd /\ state # "Connecting" /\ client = "alive"
        /\ q.name = "close" => q.fd # NoFd /\ conn[q.fd] # "none"
        /\ q.name = "destroyed" => q.fd # NoFd /\ conn[q.fd] = "closed" /\ q.fd # connection
        /\ q.name = "delete" => client = "gone"

Attempt ==
    /\ client = "alive" => (state = "Connecting" <=> sock # NoFd)
    /\ sock # NoFd => /\ channel = sock /\ epoll[sock] = "channel"
                      /\ sock \in table
                      /\ conn[sock] = "none"
    /\ channel # NoFd => sock # NoFd \/ Queued(Functor("reset", NoFd))

Kernel ==
    \A f \in Fds :
        /\ epoll[f] = "channel" => sock = f
        /\ epoll[f] = "conn" => conn[f] # "none"
        /\ epoll[f] # "freed"
        /\ conn[f] = "open" => epoll[f] = "conn"

Connections ==
    /\ connection # NoFd =>
           \/ conn[connection] = "open" /\ state = "Connected"
           \/ /\ conn[connection] = "closed"
              /\ callback = "disconnect" /\ subject = connection
    /\ callback = "disconnect" => /\ subject # NoFd /\ conn[subject] = "closed"
                                  /\ client = "alive" => subject = connection
    /\ callback = "none" => subject = NoFd
    /\ \A f \in Fds : conn[f] = "open" => \/ connection = f
                                          \/ client = "gone" /\ Queued(Functor("close", f))

Closing ==
    \A f \in Fds : conn[f] = "closed" =>
        \/ Queued(Functor("destroyed", f))
        \/ client = "alive" /\ callback = "disconnect" /\ connection = f
        \/ client = "gone" /\ Queued(Functor("close", f))
        \/ /\ phase = "functors"
           /\ client = "alive" => f \notin table /\ ~Queued(Functor("close", f))

ActiveFits ==
    \A a \in active :
        /\ a[2] # "freed"
        /\ a[2] = "channel" /\ client = "alive" => a[1] = channel /\ connection = NoFd

\* A reset is among the functors of this turn.
Ahead == \E i \in DOMAIN batch : batch[i].name = "reset"

Single ==
    client = "alive" =>
        /\ timers <= 1
        /\ timers > 0 => ~Queued(Functor("start", NoFd))
        /\ timers > 0 \/ Queued(Functor("start", NoFd)) =>
               /\ state # "Connecting"
               /\ connection # NoFd => conn[connection] = "closed" /\ ~isRetry
        /\ Queued(Functor("start", NoFd)) => channel = NoFd
        /\ callback = "disconnect" /\ isRetry => state # "Connecting" /\ channel = NoFd
        /\ /\ Queued(Functor("reset", NoFd))
           /\ timers > 0 \/ (connection # NoFd /\ conn[connection] = "open")
           => recent \/ Ahead
        /\ \A a \in active : a[2] = "conn" =>
               conn[a[1]] # "none" /\ (conn[a[1]] = "open" => channel = NoFd)

IInv ==
    /\ TypeOK
    /\ Turns
    /\ clean => /\ Order /\ QueueFits /\ Attempt /\ Kernel /\ Connections
                /\ Closing /\ ActiveFits /\ Single /\ NoStaleKeys

(***************************************************************************)
(* No open connection vanishes: whatever the order of closes, stops and    *)
(* the destructor, its disconnect callback comes first.                    *)
(***************************************************************************)
NoSilentEnd ==
    [][clean' => \A f \in Fds : conn[f] = "open" => conn'[f] # "none"]_vars

(***************************************************************************)
(* After stopConnecting() or disconnect() no attempt begins and no connect *)
(* callback is called until the user calls connect() again: neither a      *)
(* pending retry nor a socket that connects meanwhile.                     *)
(***************************************************************************)
StopHolds ==
    [][~needStart /\ ~needStart' => /\ state' = "Connecting" => state = "Connecting"
                                    /\ callback' = "connect" => callback = "connect"]_vars

(***************************************************************************)
(* Every attempt to connect comes to an end.                               *)
(***************************************************************************)
AttemptEnds == state = "Connecting" ~> state # "Connecting" \/ ~clean \/ client = "gone"

(***************************************************************************)
(* A client that has begun to connect, has retries enabled and is neither  *)
(* stopped nor dropped is connected or connecting again and again.         *)
(***************************************************************************)
Trying == state = "Connecting" \/ connection # NoFd
Wanted == clean /\ owned /\ needStart /\ isRetry /\ ~gaveUp

KeepsTrying == [](Trying /\ []Wanted => []<>Trying)

(***************************************************************************)
(* needStart_ tells whether the client needs to connect: a connected one   *)
(* does not, and begins no other attempt.                                  *)
(***************************************************************************)
ConnectsWhenNeeded == ~(state = "Connecting" /\ \E f \in Fds : conn[f] = "open")
=============================================================================
