------------------------------ MODULE TcpServer ------------------------------
(***************************************************************************)
(* qinmo::net::ReactorTcpServer: the base loop accepts connections, enters *)
(* them into rConnects_ and hands them to the sub-loops; each sub-loop     *)
(* closes its connections and erases them from rConnects_.  The server is  *)
(* destroyed on the base loop's thread.                                    *)
(*                                                                         *)
(* rConnects_ has no lock.  An operation on it has a beginning and an end, *)
(* and once two threads are inside it at the same time its contents are    *)
(* undefined: such an execution is not followed further (clean).           *)
(*                                                                         *)
(* start() looks whether the thread pool was started, stores that it was,  *)
(* and only then starts one sub-loop after the other and fills loops_.  A  *)
(* second start() that comes in between is refused by the pool but listens *)
(* all the same, so that a connection may be accepted for a sub-loop that  *)
(* loops_ does not have yet: the program exits.                            *)
(*                                                                         *)
(* A connection is reduced to what the server sees of it (Connection has   *)
(* the rest).  It exists while a shared_ptr to it does, and its descriptor *)
(* is open as long as it exists.                                           *)
(***************************************************************************)
EXTENDS Integers, Sequences

CONSTANTS
    MaxThreads,     \* bound: the server has at most this many sub-loops
    MaxConns,       \* bound: connections that are accepted
    MaxFd,          \* bound: descriptors that may be open at a time
    MaxStarts,      \* bound: calls of start() that may be queued
    MaxCloses,      \* bound: calls of close() by user code
    Wrap            \* number of values of the unsigned counter next_ (2^32)

ASSUME BoundsAssumption ==
    /\ MaxThreads \in Nat
    /\ MaxConns \in Nat
    /\ MaxFd \in Nat
    /\ MaxStarts \in Nat
    /\ MaxCloses \in Nat
ASSUME WrapAssumption == Wrap \in Nat \ {0}

Loops == 0..MaxThreads
Base == 0
Conns == 1..MaxConns
Fds == 1..MaxFd
None == 0

VARIABLES
    numThread,      \* the argument of the constructor
    server,         \* "alive"; "joining": the destructor waits for the
                    \* sub-loops; "gone": rConnects_ is destroyed; "exited":
                    \* the program has called exit()
    sub,            \* sub[l]: sub-loop l is "unborn", "running" or "ended"
    queue,          \* queue[l]: functors about connections queued in loop l
    pool,           \* the first start(): "new", not called; "checked", started_ is
                    \* read; "starting", it is stored; "up", all loops run
    restarted,      \* start() was called while the first was "starting"
    posted,         \* start() functors queued in the base loop
    listening,      \* the listening socket is watched for connections
    next,           \* next_ of the thread pool
    rConnects,      \* rConnects_: from descriptors to connections
    access,         \* access[l]: what l's thread is doing inside rConnects_
    state,          \* state[c]: how far connection c has come
    fd, loop,       \* fd[c], loop[c]: its descriptor and its loop_
    kept,           \* connections the user keeps a shared_ptr to
    closes,         \* calls of close() by user code
    dangling,       \* a member of the server was used when it was gone
    clean           \* no two threads were inside rConnects_, or the pool's
                    \* threads_, at a time

startVars == <<pool, restarted, posted, listening>>
connVars == <<state, fd, loop, next>>
userVars == <<kept, closes>>
mapVars == <<rConnects, access, dangling, clean>>
vars == <<numThread, server, sub, queue, startVars, connVars, userVars, mapVars>>

Functor(name, c) == [name |-> name, conn |-> c]
AllFunctors == [name : {"established", "close", "remove"}, conn : Conns]
NoAccess == [name |-> "none", conn |-> None]

TypeOK ==
    /\ numThread \in Loops
    /\ server \in {"alive", "joining", "gone", "exited"}
    /\ sub \in [Loops -> {"unborn", "running", "ended"}]
    /\ queue \in [Loops -> Seq(AllFunctors)]
    /\ pool \in {"new", "checked", "starting", "up"}
    /\ restarted \in BOOLEAN
    /\ posted \in Nat
    /\ listening \in BOOLEAN
    /\ next \in 0..(Wrap - 1)
    /\ rConnects \in [Fds -> Conns \union {None}]
    /\ access \in [Loops -> [name : {"insert", "erase"}, conn : Conns] \union {NoAccess}]
    /\ state \in [Conns -> {"none", "new", "open", "closed", "removed"}]
    /\ fd \in [Conns -> Fds \union {None}]
    /\ loop \in [Conns -> Loops]
    /\ kept \subseteq Conns
    /\ closes \in 0..MaxCloses
    /\ dangling \in BOOLEAN
    /\ clean \in BOOLEAN

\* The base loop runs already when the server is made.
Init ==
    /\ numThread \in Loops
    /\ server = "alive"
    /\ sub = [l \in Loops |-> IF l = Base THEN "running" ELSE "unborn"]
    /\ queue = [l \in Loops |-> <<>>]
    /\ pool = "new"
    /\ restarted = FALSE
    /\ posted = 0
    /\ listening = FALSE
    /\ next = 0
    /\ rConnects = [f \in Fds |-> None]
    /\ access = [l \in Loops |-> NoAccess]
    /\ state = [c \in Conns |-> "none"]
    /\ fd = [c \in Conns |-> None]
    /\ loop = [c \in Conns |-> Base]
    /\ kept = {}
    /\ closes = 0
    /\ dangling = FALSE
    /\ clean = TRUE

-----------------------------------------------------------------------------
(* Who holds a connection, and which thread may take a step.               *)

Queued(l, c) == \E i \in 1..Len(queue[l]) : queue[l][i].conn = c

Alive(c) ==
    \/ \E f \in Fds : rConnects[f] = c
    \/ \E l \in Loops : access[l].conn = c \/ Queued(l, c)
    \/ c \in kept

\* As if handleClose() closed the socket.
FreeIfClosed(f) == \A c \in Conns : fd[c] = f => state[c] \notin {"new", "open"}
Free(f) == \A c \in Conns : fd[c] = f => ~Alive(c)

SubLoops == 1..numThread

OnLoop(l) ==
    /\ clean /\ server # "exited"
    /\ sub[l] = "running"
    /\ access[l] = NoAccess
    /\ l = Base => server # "joining"

\* The thread of l enters rConnects_.
Enters(l, name, c) ==
    /\ access' = [access EXCEPT ![l] = [name |-> name, conn |-> c]]
    /\ clean' = (\A k \in Loops : access[k] = NoAccess)
    /\ dangling' = (dangling \/ server = "gone")

Leaves(l) ==
    /\ clean /\ server # "exited"
    /\ access' = [access EXCEPT ![l] = NoAccess]
    /\ UNCHANGED <<clean, dangling>>

-----------------------------------------------------------------------------
(* start().                                                                *)

StartChecks ==
    /\ clean /\ server = "alive" /\ pool = "new"
    /\ pool' = "checked"
    /\ UNCHANGED <<numThread, server, sub, queue, restarted, posted, listening, connVars,
                   userVars, mapVars>>

StartStores ==
    /\ clean /\ server = "alive" /\ pool = "checked"
    /\ pool' = "starting"
    /\ UNCHANGED <<numThread, server, sub, queue, restarted, posted, listening, connVars,
                   userVars, mapVars>>

StartSub(l) ==
    /\ clean /\ server = "alive" /\ pool = "starting"
    /\ l \in SubLoops /\ sub[l] = "unborn"
    /\ \A k \in SubLoops : k < l => sub[k] # "unborn"
    /\ sub' = [sub EXCEPT ![l] = "running"]
    /\ UNCHANGED <<numThread, server, queue, startVars, connVars, userVars, mapVars>>

\* As if the server began to listen before it has started the pool.
StartPostsEarly ==
    /\ clean /\ server = "alive" /\ pool = "starting"
    /\ posted = 0
    /\ posted' = posted + 1
    /\ UNCHANGED <<numThread, server, sub, queue, pool, restarted, listening, connVars,
                   userVars, mapVars>>

StartPosts ==
    /\ clean /\ server = "alive" /\ pool = "starting"
    /\ \A l \in SubLoops : sub[l] = "running"
    /\ pool' = "up"
    /\ posted' = posted + 1
    /\ UNCHANGED <<numThread, server, sub, queue, restarted, listening, connVars, userVars,
                   mapVars>>

\* The server's own started_ is never set: the pool refuses a later start(), and
\* the functor is passed on once more.
StartAgain ==
    /\ clean /\ server = "alive"
    /\ pool \in {"starting", "up"} \/ (numThread = 0 /\ pool = "checked")
    /\ posted < MaxStarts
    /\ posted' = posted + 1
    /\ restarted' = (restarted \/ pool = "starting")
    /\ UNCHANGED <<numThread, server, sub, queue, pool, listening, connVars, userVars,
                   mapVars>>

\* Two callers that both find the pool not started fill threads_ together.
StartTwice ==
    /\ clean /\ server = "alive" /\ pool = "checked"
    /\ numThread > 0
    /\ clean' = FALSE
    /\ UNCHANGED <<numThread, server, sub, queue, startVars, connVars, userVars, rConnects,
                   access, dangling>>

\* Nothing happens when the socket listens already.
RunStart ==
    /\ OnLoop(Base) /\ server = "alive"
    /\ posted > 0
    /\ posted' = posted - 1
    /\ listening' = TRUE
    /\ UNCHANGED <<numThread, server, sub, queue, pool, restarted, connVars, userVars, mapVars>>

-----------------------------------------------------------------------------
(* newConnect(), on the base loop.                                         *)

Advanced == (next + 1) % Wrap

NextLoop == IF numThread = 0 THEN Base ELSE (next % numThread) + 1

\* The next connection may be accepted.
MayAccept(c) ==
    /\ OnLoop(Base) /\ server = "alive" /\ listening
    /\ state[c] = "none" /\ \A b \in Conns : b < c => state[b] # "none"

\* accept() gives any free descriptor; an accept() that fails changes nothing.
NewConnect(c) ==
    /\ MayAccept(c) /\ sub[NextLoop] = "running"
    /\ \E f \in Fds : Free(f) /\ fd' = [fd EXCEPT ![c] = f]
    /\ loop' = [loop EXCEPT ![c] = NextLoop]
    /\ next' = IF numThread = 0 THEN next ELSE Advanced
    /\ state' = [state EXCEPT ![c] = "new"]
    /\ Enters(Base, "insert", c)
    /\ UNCHANGED <<numThread, server, sub, queue, startVars, userVars, rConnects>>

\* The constructor of a connection with a null loop ends the program.
NewConnectExits(c) ==
    /\ MayAccept(c) /\ sub[NextLoop] = "unborn"
    /\ \E f \in Fds : Free(f)
    /\ server' = "exited"
    /\ UNCHANGED <<numThread, sub, queue, startVars, connVars, userVars, mapVars>>

\* As if the connection were not handed on.
EndInsertOnly(c) ==
    /\ access[Base] = [name |-> "insert", conn |-> c]
    /\ Leaves(Base)
    /\ rConnects' = [rConnects EXCEPT ![fd[c]] = c]
    /\ UNCHANGED <<numThread, server, sub, queue, startVars, state, fd, loop, next, userVars>>

\* runInLoop() calls connectEstablished() at once on the base loop.
EndInsert(c) ==
    /\ access[Base] = [name |-> "insert", conn |-> c]
    /\ Leaves(Base)
    /\ rConnects' = [rConnects EXCEPT ![fd[c]] = c]
    /\ IF loop[c] = Base
         THEN state' = [state EXCEPT ![c] = "open"] /\ UNCHANGED queue
         ELSE /\ queue' = [queue EXCEPT ![loop[c]] = Append(@, Functor("established", c))]
              /\ UNCHANGED state
    /\ UNCHANGED <<numThread, server, sub, startVars, fd, loop, next, userVars>>

-----------------------------------------------------------------------------
(* Connections, on their loops.                                            *)

Pops(l, name) ==
    /\ OnLoop(l)
    /\ queue[l] # <<>> /\ Head(queue[l]).name = name
    /\ UNCHANGED <<numThread, server, sub, startVars, fd, loop, next, userVars>>

RunEstablished(l) ==
    /\ Pops(l, "established")
    /\ queue' = [queue EXCEPT ![l] = Tail(@)]
    /\ state' = [state EXCEPT ![Head(queue[l]).conn] = "open"]
    /\ UNCHANGED mapVars

\* As if closeFunc_ were not set.
CloseWithoutRemoval(l, q, c) ==
    /\ queue' = [queue EXCEPT ![l] = q]
    /\ state' = [state EXCEPT ![c] = "closed"]
    /\ UNCHANGED mapVars

\* removeConnect() is called with the server's this; q is the rest of the queue.
HandleClose(l, q, c) ==
    /\ queue' = [queue EXCEPT ![l] = Append(q, Functor("remove", c))]
    /\ state' = [state EXCEPT ![c] = "closed"]
    /\ dangling' = (dangling \/ server = "gone")
    /\ UNCHANGED <<rConnects, access, clean>>

\* The peer closes, or an error is met.
CloseEvent(l, c) ==
    /\ OnLoop(l)
    /\ loop[c] = l /\ state[c] = "open" /\ Alive(c)
    /\ HandleClose(l, queue[l], c)
    /\ UNCHANGED <<numThread, server, sub, startVars, fd, loop, next, userVars>>

RunClose(l) ==
    /\ Pops(l, "close")
    /\ LET c == Head(queue[l]).conn
       IN IF state[c] = "open"
            THEN HandleClose(l, Tail(queue[l]), c)
            ELSE /\ queue' = [queue EXCEPT ![l] = Tail(@)]
                 /\ UNCHANGED <<state, mapVars>>

RunRemove(l) ==
    /\ Pops(l, "remove")
    /\ queue' = [queue EXCEPT ![l] = Tail(@)]
    /\ Enters(l, "erase", Head(queue[l]).conn)
    /\ UNCHANGED <<state, rConnects>>

\* erase(conn->getfd()), then connectDestroyed()
EndErase(l) ==
    /\ access[l].name = "erase"
    /\ Leaves(l)
    /\ LET c == access[l].conn
       IN /\ rConnects' = [rConnects EXCEPT ![fd[c]] = None]
          /\ state' = [state EXCEPT ![c] = "removed"]
    /\ UNCHANGED <<numThread, server, sub, queue, startVars, fd, loop, next, userVars>>

-----------------------------------------------------------------------------
(* The user: callbacks hand out the shared_ptr.                            *)

Keep(c) ==
    /\ OnLoop(loop[c])
    /\ state[c] = "open" /\ Alive(c)
    /\ kept' = kept \union {c}
    /\ UNCHANGED <<numThread, server, sub, queue, startVars, connVars, closes, mapVars>>

Release(c) ==
    /\ clean /\ server # "exited"
    /\ kept' = kept \ {c}
    /\ UNCHANGED <<numThread, server, sub, queue, startVars, connVars, closes, mapVars>>

\* close() of any thread, while the connection's loop is there
Close(c) ==
    /\ clean /\ server # "exited" /\ c \in kept
    /\ sub[loop[c]] = "running"
    /\ state[c] \notin {"new", "removed", "closed"}
    /\ closes < MaxCloses
    /\ closes' = closes + 1
    /\ queue' = [queue EXCEPT ![loop[c]] = Append(@, Functor("close", c))]
    /\ UNCHANGED <<numThread, server, sub, startVars, connVars, kept, mapVars>>

-----------------------------------------------------------------------------
(* The destructor, on the base loop's thread when no start() is underway   *)
(* or queued: the members go in the reverse order of their declaration,    *)
(* the pool before rConnects_.                                             *)

Destroy ==
    /\ OnLoop(Base) /\ server = "alive"
    /\ pool \in {"new", "up"} /\ posted = 0
    /\ server' = "joining"
    /\ listening' = FALSE
    /\ UNCHANGED <<numThread, sub, queue, pool, restarted, posted, connVars, userVars, mapVars>>

\* A sub-loop that is asked to quit ends with the functors it has begun; those
\* queued later are destroyed.
Join(l) ==
    /\ clean /\ server = "joining"
    /\ l \in SubLoops /\ sub[l] = "running" /\ access[l] = NoAccess
    /\ \A k \in SubLoops : k < l => sub[k] # "running"
    /\ sub' = [sub EXCEPT ![l] = "ended"]
    /\ queue' = [queue EXCEPT ![l] = <<>>]
    /\ UNCHANGED <<numThread, server, startVars, connVars, userVars, mapVars>>

\* As if rConnects_ were declared after the pool.
DestroyMapFirst ==
    /\ clean /\ server = "joining"
    /\ server' = "gone"
    /\ rConnects' = [f \in Fds |-> None]
    /\ UNCHANGED <<numThread, sub, queue, startVars, connVars, userVars, access, dangling,
                   clean>>

DestroyMap ==
    /\ clean /\ server = "joining"
    /\ \A l \in SubLoops : sub[l] # "running"
    /\ server' = "gone"
    /\ rConnects' = [f \in Fds |-> None]
    /\ UNCHANGED <<numThread, sub, queue, startVars, connVars, userVars, access, dangling,
                   clean>>

-----------------------------------------------------------------------------
LoopStep(l) ==
    \/ RunEstablished(l) \/ RunClose(l) \/ RunRemove(l) \/ EndErase(l)

BaseStep ==
    \/ RunStart
    \/ \E c \in Conns : EndInsert(c)

Destructor == DestroyMap \/ \E l \in Loops : Join(l)

StartStep ==
    \/ StartChecks \/ StartStores \/ StartPosts \/ StartAgain \/ StartTwice
    \/ \E l \in Loops : StartSub(l)

Next ==
    \/ StartStep \/ BaseStep
    \/ \E l \in Loops : LoopStep(l)
    \/ \E c \in Conns : \/ NewConnect(c) \/ NewConnectExits(c)
                        \/ Keep(c) \/ Release(c) \/ Close(c)
                        \/ \E l \in Loops : CloseEvent(l, c)
    \/ Destroy \/ Destructor

(***************************************************************************)
(* Fairness: every thread is scheduled and calls its queued functors       *)
(* (EventLoop, LoudRuns).                                                  *)
(***************************************************************************)
Fairness ==
    /\ WF_vars(BaseStep)
    /\ \A l \in Loops : WF_vars(LoopStep(l))

Spec == Init /\ [][Next]_vars /\ Fairness

-----------------------------------------------------------------------------
(***************************************************************************)
(* An open connection is in rConnects_ until the destructor, under its own *)
(* descriptor: nobody else needs to hold it.                               *)
(***************************************************************************)
OpenIsEntered ==
    server # "gone" => \A c \in Conns : state[c] = "open" => rConnects[fd[c]] = c

(***************************************************************************)
(* Descriptors are used again, and rConnects_ has them as keys: an         *)
(* insertion never overwrites, and a removal never erases, the entry of    *)
(* another connection, and every open connection keeps its entry.          *)
(***************************************************************************)
OwnEntry ==
    clean => /\ OpenIsEntered
             /\ \A l \in Loops :
                    LET c == access[l].conn
                    IN /\ access[l].name = "insert" => rConnects[fd[c]] = None
                       /\ access[l].name = "erase" => rConnects[fd[c]] \in {c, None}

(***************************************************************************)
(* With sub-loops, no close callback and no removal runs when the server's *)
(* members are gone.  (Without, the base loop may outlive the server with  *)
(* a removal queued.)                                                      *)
(***************************************************************************)
MembersAlive == numThread > 0 => ~dangling

(***************************************************************************)
(* While the server is alive the loops of its connections run, and the     *)
(* program only meets a connection without a loop, and exits, when start() *)
(* was called again while the first start() was still starting sub-loops.  *)
(***************************************************************************)
LoopsAreUp ==
    /\ server = "alive" => \A c \in Conns : state[c] # "none" => sub[loop[c]] = "running"
    /\ server = "exited" => restarted

(***************************************************************************)
(* No connection is forgotten while the server is alive: a new one is      *)
(* being entered or is to be established, a closed one is to be removed or *)
(* being erased, and a removed one has left rConnects_.                    *)
(***************************************************************************)
Waits(name, c) == \E i \in 1..Len(queue[loop[c]]) : queue[loop[c]][i] = Functor(name, c)

NoneForgotten ==
    clean /\ server = "alive" =>
        \A c \in Conns :
            /\ state[c] = "new" =>
                   Waits("established", c) \/ access[Base] = [name |-> "insert", conn |-> c]
            /\ state[c] = "closed" =>
                   Waits("remove", c) \/ access[loop[c]] = [name |-> "erase", conn |-> c]
            /\ state[c] = "removed" => \A f \in Fds : rConnects[f] # c

(***************************************************************************)
(* What the properties above rest on.  Descriptors: connections            *)
(* that exist have descriptors of their own, and entries are under them;   *)
(* Handed: a connection is handed on once, when it is entered; Removing:   *)
(* only closed ones are removed; Subs: which threads there are.            *)
(***************************************************************************)
Descriptors ==
    /\ \A c \in Conns : state[c] # "none" => fd[c] # None
    /\ \A c, d \in Conns : Alive(c) /\ Alive(d) /\ fd[c] = fd[d] => c = d
    /\ \A c \in Conns : Alive(c) => state[c] # "none"
    /\ \A f \in Fds : rConnects[f] # None => fd[rConnects[f]] = f

Inserting ==
    \A l \in Loops :
        access[l].name = "insert" => /\ l = Base /\ server = "alive"
                                     /\ state[access[l].conn] = "new"
                                     /\ rConnects[fd[access[l].conn]] = None

Handed ==
    /\ \A l \in Loops : \A i \in 1..Len(queue[l]) :
           LET q == queue[l][i]
           IN /\ loop[q.conn] = l
              /\ q.name = "established" =>
                     /\ state[q.conn] = "new"
                     /\ server # "gone" => rConnects[fd[q.conn]] = q.conn
                     /\ \A j \in 1..Len(queue[l]) : queue[l][j] = q => j = i
    /\ \A l \in Loops : access[l].name = "insert" => ~ \E k \in Loops : Queued(k, access[l].conn)

Removing ==
    /\ \A l \in Loops : \A i \in 1..Len(queue[l]) :
           queue[l][i].name = "remove" => state[queue[l][i].conn] \in {"closed", "removed"}
    /\ \A l \in Loops :
           access[l].name = "erase" => state[access[l].conn] \in {"closed", "removed"}

Subs ==
    /\ server = "alive" /\ pool = "up" => \A l \in SubLoops : sub[l] = "running"
    /\ listening \/ posted > 0 => pool = "up" \/ restarted \/ numThread = 0
    /\ sub[Base] = "running"
    /\ \A c \in Conns : state[c] # "none" =>
           IF numThread = 0 THEN loop[c] = Base ELSE loop[c] \in SubLoops
    /\ server = "gone" => \A l \in SubLoops : sub[l] # "running"
    /\ server \in {"joining", "gone"} => posted = 0 /\ ~listening

IInv ==
    /\ TypeOK
    /\ clean => /\ Descriptors /\ Inserting /\ Handed /\ Removing
                /\ OpenIsEntered
    /\ Subs
    /\ LoopsAreUp
    /\ MembersAlive
    /\ NoneForgotten

(***************************************************************************)
(* Every accepted connection is established, unless the server goes.       *)
(***************************************************************************)
Established ==
    \A c \in Conns : state[c] = "new" ~> state[c] # "new" \/ ~clean \/ server # "alive"

(***************************************************************************)
(* Every closed connection leaves rConnects_ and is removed, unless the    *)
(* server goes.                                                            *)
(***************************************************************************)
ClosedLeaves ==
    \A c \in Conns :
        state[c] = "closed" ~>
            \/ state[c] = "removed" /\ \A f \in Fds : rConnects[f] # c
            \/ ~clean \/ server # "alive"
=============================================================================
