--------------------------- MODULE TcpClientProofs ---------------------------
(***************************************************************************)
(* Proofs about TcpClient: its types and the invariants of clients that    *)
(* call connect() only when they are idle.                                 *)
(***************************************************************************)
EXTENDS TcpClient, TLAPS

(***************************************************************************)
(* What the two queues hold after a push, a pop and the swap.              *)
(***************************************************************************)
LEMMA Push ==
    ASSUME TypeOK, NEW x \in AllFunctors,
           queue' = Append(queue, x), batch' = batch
    PROVE  /\ queue' \in Seq(AllFunctors)
           /\ Waiting' = Waiting \union {x}
<1>1. /\ queue \in Seq(AllFunctors) /\ Len(queue) \in Nat /\ DOMAIN queue = 1..Len(queue)
      /\ queue' \in Seq(AllFunctors) /\ DOMAIN queue' = 1..(Len(queue) + 1)
      /\ \A i \in 1..Len(queue) : queue'[i] = queue[i]
      /\ queue'[Len(queue) + 1] = x
  BY DEF TypeOK
<1>2. {queue'[i] : i \in DOMAIN queue'} = {queue[i] : i \in DOMAIN queue} \union {x}
  <2>1. \A i \in DOMAIN queue' : i \in DOMAIN queue \/ i = Len(queue) + 1
    BY <1>1
  <2> QED BY <1>1, <2>1
<1> QED BY <1>1, <1>2 DEF Waiting

LEMMA Pop ==
    ASSUME TypeOK, batch # <<>>,
           batch' = Tail(batch), queue' = queue
    PROVE  /\ batch' \in Seq(AllFunctors)
           /\ Head(batch) \in AllFunctors
           /\ Head(batch) \in Waiting
           /\ Waiting' \subseteq Waiting
           /\ Waiting \subseteq Waiting' \union {Head(batch)}
<1>1. /\ batch \in Seq(AllFunctors) /\ Len(batch) \in Nat /\ Len(batch) > 0
      /\ Head(batch) = batch[1] /\ DOMAIN batch = 1..Len(batch)
  BY DEF TypeOK
<1>2. /\ batch' \in Seq(AllFunctors) /\ DOMAIN batch' = 1..(Len(batch) - 1)
      /\ \A i \in 1..(Len(batch) - 1) : batch'[i] = batch[i + 1]
  BY <1>1
<1>3. Waiting' \subseteq Waiting
  BY <1>1, <1>2 DEF Waiting
<1>4. ASSUME NEW i \in DOMAIN batch, i # 1  PROVE batch[i] \in Waiting'
  <2>1. i - 1 \in DOMAIN batch' /\ batch'[i - 1] = batch[i]
    BY <1>1, <1>2, <1>4
  <2> QED BY <2>1 DEF Waiting
<1> QED BY <1>1, <1>2, <1>3, <1>4 DEF Waiting

LEMMA Swap ==
    ASSUME TypeOK, batch = <<>>, batch' = queue, queue' = <<>>
    PROVE  /\ queue' \in Seq(AllFunctors) /\ batch' \in Seq(AllFunctors)
           /\ Waiting' = Waiting
  BY DEF TypeOK, Waiting

(***************************************************************************)
(* The order of the functors in the two queues.                            *)
(***************************************************************************)
OrderFor(o) ==
    /\ \A i, j \in DOMAIN queue : i < j => ~Clash(o, queue[i], queue[j])
    /\ \A i, j \in DOMAIN batch : i < j => ~Clash(o, batch[i], batch[j])
    /\ \A i \in DOMAIN batch, j \in DOMAIN queue : ~Clash(o, batch[i], queue[j])

LEMMA PushFor ==
    ASSUME TypeOK, NEW o, OrderFor(o), NEW x \in AllFunctors, \A q \in Waiting : ~Clash(o, q, x),
           queue' = Append(queue, x), batch' = batch
    PROVE  OrderFor(o)'
<1>1. /\ Len(queue) \in Nat /\ DOMAIN queue = 1..Len(queue)
      /\ DOMAIN queue' = 1..(Len(queue) + 1)
      /\ \A i \in 1..Len(queue) : queue'[i] = queue[i]
      /\ queue'[Len(queue) + 1] = x
  BY DEF TypeOK
<1>2. \A i \in DOMAIN queue' : i \in DOMAIN queue \/ i = Len(queue) + 1
  BY <1>1
<1>3. /\ \A i \in DOMAIN queue : ~Clash(o, queue[i], x)
      /\ \A i \in DOMAIN batch : ~Clash(o, batch[i], x)
  BY DEF Waiting
<1>4. \A i, j \in DOMAIN queue' : i < j => ~Clash(o, queue'[i], queue'[j])
  <2> SUFFICES ASSUME NEW i \in DOMAIN queue', NEW j \in DOMAIN queue', i < j
               PROVE  ~Clash(o, queue'[i], queue'[j])
    OBVIOUS
  <2>1. i \in DOMAIN queue /\ queue'[i] = queue[i]
    BY <1>1
  <2>2. CASE j \in DOMAIN queue
    BY <1>1, <2>1, <2>2 DEF OrderFor
  <2>3. CASE j = Len(queue) + 1
    BY <1>1, <1>3, <2>1, <2>3
  <2> QED BY <1>2, <2>2, <2>3
<1>5. \A i \in DOMAIN batch, j \in DOMAIN queue' : ~Clash(o, batch[i], queue'[j])
  <2> SUFFICES ASSUME NEW i \in DOMAIN batch, NEW j \in DOMAIN queue'
               PROVE  ~Clash(o, batch[i], queue'[j])
    OBVIOUS
  <2>1. CASE j \in DOMAIN queue
    BY <1>1, <2>1 DEF OrderFor
  <2>2. CASE j = Len(queue) + 1
    BY <1>1, <1>3, <2>2
  <2> QED BY <1>2, <2>1, <2>2
<1> QED BY <1>4, <1>5 DEF OrderFor, Clash

LEMMA PopFor ==
    ASSUME TypeOK, NEW o, OrderFor(o), batch # <<>>, batch' = Tail(batch), queue' = queue
    PROVE  OrderFor(o)' /\ \A q \in Waiting' : ~Clash(o, Head(batch), q)
<1>1. /\ Len(batch) \in Nat /\ Len(batch) > 0
      /\ Head(batch) = batch[1] /\ DOMAIN batch = 1..Len(batch) /\ 1 \in DOMAIN batch
  BY DEF TypeOK
<1>2. /\ DOMAIN batch' = 1..(Len(batch) - 1)
      /\ \A i \in DOMAIN batch' : batch'[i] = batch[i + 1] /\ i + 1 \in DOMAIN batch /\ 1 < i + 1
  BY <1>1 DEF TypeOK
<1>3. \A i, j \in DOMAIN batch' : i < j => ~Clash(o, batch'[i], batch'[j])
  <2> SUFFICES ASSUME NEW i \in DOMAIN batch', NEW j \in DOMAIN batch', i < j
               PROVE  ~Clash(o, batch'[i], batch'[j])
    OBVIOUS
  <2>1. i + 1 < j + 1
    BY <1>1, <1>2
  <2> QED BY <1>2, <2>1 DEF OrderFor
<1>4. OrderFor(o)'
  <2>1. \A i \in DOMAIN batch', j \in DOMAIN queue : ~Clash(o, batch'[i], queue[j])
    BY <1>2 DEF OrderFor
  <2> QED BY <1>3, <2>1 DEF OrderFor, Clash
<1>5. \A i \in DOMAIN batch' : ~Clash(o, batch[1], batch'[i])
  BY <1>1, <1>2 DEF OrderFor
<1>6. \A i \in DOMAIN queue : ~Clash(o, batch[1], queue[i])
  BY <1>1 DEF OrderFor
<1> QED BY <1>1, <1>4, <1>5, <1>6 DEF Waiting

LEMMA SwapFor ==
    ASSUME TypeOK, NEW o, OrderFor(o), batch' = queue, queue' = <<>>
    PROVE  OrderFor(o)'
  BY DEF TypeOK, OrderFor, Clash

\* No connection opens whose close is queued.
Milder == \A q \in Waiting : q.name = "close" /\ q.fd \in Opened' => q.fd \in Opened

LEMMA SameOpened ==
    ASSUME UNCHANGED conn
    PROVE  Opened' = Opened /\ Milder
  BY DEF Opened, Milder

LEMMA OrderNow ==
    ASSUME Order, Milder
    PROVE  OrderFor(Opened')
<1>1. \A p \in Waiting : \A q : Clash(Opened', p, q) => Clash(Opened, p, q)
  BY DEF Milder, Clash
<1> QED BY <1>1 DEF Order, OrderFor, Waiting

LEMMA OrderPush ==
    ASSUME TypeOK, Order, Milder, NEW x \in AllFunctors, \A q \in Waiting : ~Clash(Opened, q, x),
           queue' = Append(queue, x), batch' = batch
    PROVE  Order'
<1>1. PICK o : o = Opened'
  OBVIOUS
<1>2. OrderFor(o) /\ \A q \in Waiting : ~Clash(o, q, x)
  BY <1>1, OrderNow DEF Milder, Clash
<1>3. OrderFor(o)'
  BY <1>2, PushFor
<1> QED BY <1>1, <1>3 DEF Order, OrderFor

LEMMA OrderPop ==
    ASSUME TypeOK, Order, Milder, batch # <<>>, batch' = Tail(batch), queue' = queue
    PROVE  Order' /\ \A q \in Waiting' : ~Clash(Opened, Head(batch), q)
<1>1. PICK o : o = Opened'
  OBVIOUS
<1>2. PICK p : p = Opened
  OBVIOUS
<1>3. OrderFor(o) /\ OrderFor(p)
  BY <1>1, <1>2, OrderNow DEF Order, OrderFor
<1>4. OrderFor(o)' /\ \A q \in Waiting' : ~Clash(p, Head(batch), q)
  BY <1>3, PopFor
<1> QED BY <1>1, <1>2, <1>4 DEF Order, OrderFor

LEMMA OrderSwap ==
    ASSUME TypeOK, Order, Milder, batch' = queue, queue' = <<>>
    PROVE  Order'
<1>1. PICK o : o = Opened'
  OBVIOUS
<1>2. OrderFor(o)'
  BY <1>1, OrderNow, SwapFor
<1> QED BY <1>1, <1>2 DEF Order, OrderFor

LEMMA OrderSame ==
    ASSUME UNCHANGED <<queue, batch>>, Milder
    PROVE  Waiting' = Waiting /\ (Order => Order')
<1>1. Waiting' = Waiting
  BY DEF Waiting
<1>2. PICK o : o = Opened'
  OBVIOUS
<1>3. OrderFor(o) => OrderFor(o)'
  BY DEF OrderFor
<1>4. OrderFor(o)' => Order'
  BY <1>2 DEF Order, OrderFor
<1> QED BY <1>1, <1>2, <1>3, <1>4, OrderNow

LEMMA Fields ==
    \A name, f : Functor(name, f).name = name /\ Functor(name, f).fd = f
  BY DEF Functor

LEMMA WaitingTyped ==
    ASSUME TypeOK
    PROVE  \A q \in Waiting : /\ q \in AllFunctors
                              /\ q.name \in FunctorNames /\ q.fd \in Fds \union {NoFd}
                              /\ q = Functor(q.name, q.fd)
<1>1. \A q \in Waiting : q \in AllFunctors
  BY DEF TypeOK, Waiting
<1> QED BY <1>1 DEF AllFunctors, Functor

LEMMA NoFdIsNone == NoFd \notin Fds
  BY DEF NoFd, Fds

(***************************************************************************)
(* start() keeps the types of what it changes.                             *)
(***************************************************************************)
States == {"Disconnect", "Connecting", "Connected"}

StartVarsTyped ==
    /\ state \in States
    /\ sock \in Fds \union {NoFd}
    /\ channel \in Fds \union {NoFd}
    /\ table \subseteq Fds
    /\ epoll \in [Fds -> Pointers]
    /\ active \subseteq Fds \X (Pointers \ {"none"})
    /\ timers \in Nat
    /\ gaveUp \in BOOLEAN

LEMMA PointersTyped ==
    ASSUME TypeOK
    PROVE  /\ \A f : Without(epoll, f) \in [Fds -> Pointers]
           /\ \A p \in [Fds -> Pointers] : ChannelFreed(p) \in [Fds -> Pointers]
           /\ \A p \in [Fds -> Pointers] : \A f : Without(p, f) \in [Fds -> Pointers]
           /\ \A p \in [Fds -> Pointers], o \in Pointers : \A k, f :
                  Registered(k, p, f, o) \in [Fds -> Pointers]
           /\ ActiveFreed \subseteq Fds \X (Pointers \ {"none"})
<1>1. ActiveFreed \subseteq Fds \X (Pointers \ {"none"})
  BY DEF TypeOK, ActiveFreed, Pointers
<1> QED BY <1>1 DEF TypeOK, Without, ChannelFreed, Registered, Pointers

LEMMA StartTypes ==
    ASSUME TypeOK, NEW st \in States, NEW n \in Nat, needStart' \in BOOLEAN, Start(st, n)
    PROVE  StartVarsTyped'
<1> USE DEF States, StartVarsTyped
<1>0. /\ ChannelFreed(Without(epoll, sock)) \in [Fds -> Pointers]
      /\ Without(epoll, sock) \in [Fds -> Pointers]
      /\ ActiveFreed \subseteq Fds \X (Pointers \ {"none"})
      /\ \A f : Registered(table, ChannelFreed(Without(epoll, sock)), f, "channel")
                    \in [Fds -> Pointers]
  BY PointersTyped DEF Pointers
<1>1. CASE ~needStart'
  BY <1>1 DEF Start, TypeOK
<1>2. CASE needStart'
  <2>2. PICK f \in Free : Begin(f, n) \/ RetryableError(n) \/ OtherError(st, n)
    BY <1>2 DEF Start
  <2>3. CASE Begin(f, n)
    BY <1>0, <2>3 DEF Begin, TypeOK, Free
  <2>4. CASE RetryableError(n)
    BY <1>0, <2>4, <1>2 DEF RetryableError, Retried, TypeOK
  <2>5. CASE OtherError(st, n)
    BY <1>0, <2>5 DEF OtherError, TypeOK
  <2> QED BY <2>2, <2>3, <2>4, <2>5
<1> QED BY <1>1, <1>2

(***************************************************************************)
(* Type correctness.                                                       *)
(***************************************************************************)
LEMMA FunctorsTyped ==
    \A name \in FunctorNames, f \in Fds \union {NoFd} : Functor(name, f) \in AllFunctors
  BY DEF Functor, AllFunctors

LEMMA InitTypes == Init => TypeOK /\ Turns
<1> SUFFICES ASSUME Init  PROVE TypeOK /\ Turns
  OBVIOUS
<1>1. conn \in [Fds -> {"none", "open", "closed"}] /\ epoll \in [Fds -> Pointers]
  BY DEF Init, Pointers
<1>2. queue \in Seq(AllFunctors) /\ batch \in Seq(AllFunctors)
  BY DEF Init
<1> QED BY <1>1, <1>2 DEF Init, TypeOK, Turns, NoFd

LEMMA HandleCloseTypes ==
    ASSUME TypeOK, NEW f \in Fds,
           HandleClose(f) \/ UNCHANGED <<conn, callback, subject>>
    PROVE  /\ conn' \in [Fds -> {"none", "open", "closed"}]
           /\ callback' \in {"none", "connect", "disconnect", "destroyed", "other"}
           /\ subject' \in Fds \union {NoFd}
  BY DEF HandleClose, TypeOK

LEMMA ChannelsTypes ==
    ASSUME TypeOK, Turns, Channels
    PROVE  TypeOK' /\ Turns'
<1> USE DEF loopVars, userVars, flagVars, connVars, pollVars, attemptVars
<1>a. ASSUME NEW x \in AllFunctors, queue' = Append(queue, x), UNCHANGED batch
      PROVE  queue' \in Seq(AllFunctors)
  BY <1>a, Push
<1>b. Functor("reset", NoFd) \in AllFunctors
  BY FunctorsTyped DEF FunctorNames
<1>c. /\ Without(Without(epoll, channel), sock) \in [Fds -> Pointers]
      /\ Registered(table \ {channel}, Without(epoll, channel), sock, "conn") \in [Fds -> Pointers]
  BY PointersTyped DEF Pointers
<1>1. ASSUME NEW f \in Fds, ConnectFails(f)  PROVE TypeOK' /\ Turns'
  <2>1. TypeOK'
    BY <1>1, <1>a, <1>b, <1>c DEF ConnectFails, HandlesChannel, RemoveChannel, Retried, TypeOK
  <2> QED BY <2>1, <1>1 DEF ConnectFails, HandlesChannel, Turns, TypeOK
<1>2. ASSUME NEW f \in Fds, ConnectUnwanted(f)  PROVE TypeOK' /\ Turns'
  <2>1. TypeOK'
    BY <1>2, <1>a, <1>b, <1>c DEF ConnectUnwanted, HandlesChannel, RemoveChannel, TypeOK
  <2> QED BY <2>1, <1>2 DEF ConnectUnwanted, HandlesChannel, Turns, TypeOK
<1>3. ASSUME NEW f \in Fds, ConnectSucceeds(f)  PROVE TypeOK' /\ Turns'
  <2>1. TypeOK'
    BY <1>3, <1>a, <1>b, <1>c DEF ConnectSucceeds, HandlesChannel, TypeOK
  <2> QED BY <2>1, <1>3 DEF ConnectSucceeds, HandlesChannel, Turns, TypeOK
<1>4. ASSUME NEW f \in Fds, LateEvent(f)  PROVE TypeOK' /\ Turns'
  BY <1>4 DEF LateEvent, TypeOK, Turns
<1>5. ASSUME NEW f \in Fds, ConnectionEvent(f)  PROVE TypeOK' /\ Turns'
  <2>1. TypeOK'
    BY <1>5, HandleCloseTypes DEF ConnectionEvent, TypeOK
  <2> QED BY <2>1, <1>5 DEF ConnectionEvent, Turns, TypeOK
<1>6. CASE EndChannels
  <2>1. /\ queue' \in Seq(AllFunctors) /\ batch' \in Seq(AllFunctors)
        /\ phase' = "functors" /\ recent' = FALSE /\ recent' \in BOOLEAN /\ active = {}
    BY <1>6, Swap DEF EndChannels, Turns
  <2>2. UNCHANGED <<active, done, timers, userVars, client, flagVars, connVars, pollVars,
                    attemptVars>>
    BY <1>6 DEF EndChannels
  <2>3. TypeOK'
    BY <2>1, <2>2 DEF TypeOK
  <2> QED BY <2>1, <2>2, <2>3 DEF Turns
<1> QED BY <1>1, <1>2, <1>3, <1>4, <1>5, <1>6 DEF Channels

LEMMA FunctorsTypes ==
    ASSUME TypeOK, Turns, Functors
    PROVE  TypeOK' /\ Turns'
<1> USE DEF userVars, flagVars, connVars, pollVars, attemptVars
<1>a. ASSUME NEW name, Pops(name)
      PROVE  /\ batch' \in Seq(AllFunctors) /\ done' \subseteq AllFunctors
             /\ Head(batch).fd \in Fds \union {NoFd}
             /\ Turns' <=> (client = "gone" => ~needStart' /\ sock' = NoFd /\ channel' = NoFd)
                               /\ active' = {}
  <2>1. /\ batch' \in Seq(AllFunctors) /\ Head(batch) \in AllFunctors
        /\ done' = done \union {Head(batch)}
    BY <1>a, Pop DEF Pops
  <2>2. done' \subseteq AllFunctors
    BY <2>1 DEF TypeOK
  <2> QED BY <1>a, <2>1, <2>2 DEF Pops, AllFunctors, Turns
<1>1. CASE RunStart
  <2>1. StartVarsTyped'
    BY <1>1, StartTypes DEF RunStart, TypeOK, States
  <2>2. TypeOK'
    <3>1. batch' \in Seq(AllFunctors) /\ done' \subseteq AllFunctors
      BY <1>1, <1>a DEF RunStart
    <3>2. UNCHANGED <<phase, recent, queue, owned, client, isRetry, connection, callback, subject,
                      conn, needStart, clean>>
      BY <1>1 DEF RunStart, Pops
    <3> QED BY <2>1, <3>1, <3>2 DEF TypeOK, StartVarsTyped, States
  <2>3. active' = {} /\ (client = "gone" => ~needStart' /\ sock' = NoFd /\ channel' = NoFd)
    <3>1. active = {} /\ (client = "gone" => ~needStart' /\ sock = NoFd /\ channel = NoFd)
      BY <1>1 DEF RunStart, Pops, Turns
    <3>2. ActiveFreed = {}
      BY <3>1 DEF ActiveFreed
    <3> QED BY <1>1, <3>1, <3>2 DEF RunStart, Start, Begin, RetryableError, OtherError
  <2> QED BY <1>1, <1>a, <2>2, <2>3 DEF RunStart
<1>2. CASE RunReset
  <2>1. TypeOK'
    BY <1>2, <1>a, PointersTyped DEF RunReset, Pops, TypeOK
  <2> QED BY <1>2, <1>a, <2>1 DEF RunReset, Pops, Turns
<1>3. CASE RunClose
  <2>1. TypeOK'
    <3>1. CASE Head(batch).fd \in Fds
      BY <1>3, <1>a, <3>1, HandleCloseTypes DEF RunClose, Pops, TypeOK
    <3>2. CASE Head(batch).fd = NoFd
      BY <1>3, <1>a, <3>2, SMTT(30) DEF RunClose, HandleClose, Pops, TypeOK
    <3> QED BY <1>3, <1>a, <3>1, <3>2 DEF RunClose
  <2> QED BY <1>3, <1>a, <2>1 DEF RunClose, Pops, Turns
<1>4. CASE RunDestroyed
  <2>1. /\ UNCHANGED <<phase, recent, queue, owned, client, isRetry, connection>>
        /\ UNCHANGED <<active, timers, needStart, state, sock, channel, gaveUp, clean>>
        /\ batch' \in Seq(AllFunctors) /\ done' \subseteq AllFunctors
    BY <1>4, <1>a DEF RunDestroyed, Pops
  <2>2. Head(batch).fd \in Fds
    BY <1>4, <1>a DEF RunDestroyed
  <2>3. /\ table' \subseteq Fds
        /\ epoll' \in [Fds -> Pointers]
        /\ conn' \in [Fds -> {"none", "open", "closed"}]
        /\ callback' \in {"none", "connect", "disconnect", "destroyed", "other"}
        /\ subject' \in Fds \union {NoFd}
    BY <1>4, <2>2, PointersTyped DEF RunDestroyed, TypeOK
  <2>4. TypeOK'
    BY <2>1, <2>3 DEF TypeOK
  <2> QED BY <1>4, <1>a, <2>1, <2>4 DEF RunDestroyed, Pops, Turns
<1>5. CASE RunDelete
  <2>1. TypeOK'
    BY <1>5, <1>a DEF RunDelete, Pops, TypeOK
  <2> QED BY <1>5, <1>a, <2>1 DEF RunDelete, Pops, Turns
<1>6. CASE EndFunctors
  BY <1>6 DEF EndFunctors, TypeOK, Turns
<1> QED BY <1>1, <1>2, <1>3, <1>4, <1>5, <1>6 DEF Functors

LEMMA EndsTypes ==
    ASSUME TypeOK, Turns, Ends
    PROVE  TypeOK' /\ Turns'
<1> USE DEF userVars, flagVars, connVars, pollVars, attemptVars
<1>a. ASSUME NEW x \in AllFunctors, queue' = Append(queue, x), UNCHANGED batch
      PROVE  queue' \in Seq(AllFunctors)
  BY <1>a, Push
<1>1. CASE EndCallback
  BY <1>1 DEF EndCallback, Returns, TypeOK, Turns
<1>2. CASE RemoveConnect
  <2>0. Functor("destroyed", connection) \in AllFunctors
    BY FunctorsTyped DEF FunctorNames, TypeOK
  <2>1. CASE isRetry /\ needStart
    <3>1. StartVarsTyped'
      <4>1. Start("Disconnect", timers) /\ needStart' \in BOOLEAN
        BY <1>2, <2>1 DEF RemoveConnect, Returns, TypeOK
      <4> QED BY <4>1, StartTypes DEF States, TypeOK
    <3>2. TypeOK'
      BY <1>2, <1>a, <2>0, <3>1 DEF RemoveConnect, Returns, TypeOK, StartVarsTyped, States
    <3>3. phase = "functors" => active' = {}
      <4>1. phase = "functors" => active = {} /\ ActiveFreed = {}
        BY DEF Turns, ActiveFreed
      <4> QED BY <4>1, <1>2, <2>1 DEF RemoveConnect, Start, Begin, RetryableError, OtherError
    <3> QED BY <1>2, <2>1, <3>2, <3>3 DEF RemoveConnect, Returns, Turns
  <2>2. CASE ~(isRetry /\ needStart)
    <3>1. TypeOK'
      BY <1>2, <1>a, <2>0, <2>2 DEF RemoveConnect, Returns, TypeOK
    <3> QED BY <1>2, <2>2, <3>1 DEF RemoveConnect, Returns, Turns
  <2> QED BY <2>1, <2>2
<1>3. CASE Destruct
  <2>0. Functor("delete", channel) \in AllFunctors /\ Functor("close", connection) \in AllFunctors
    BY FunctorsTyped DEF FunctorNames, TypeOK
  <2>1. /\ queue' \in Seq(AllFunctors)
        /\ epoll' \in [Fds -> Pointers]
        /\ active' \subseteq Fds \X (Pointers \ {"none"})
    BY <1>3, <1>a, <2>0, PointersTyped DEF Destruct, TypeOK
  <2>a. /\ client' = "gone" /\ needStart' = FALSE /\ needStart' \in BOOLEAN
        /\ connection' = NoFd /\ sock' = NoFd /\ channel' = NoFd
        /\ UNCHANGED <<phase, recent, done, batch, timers, callback, subject, owned, isRetry, conn,
                       table, state, gaveUp, clean>>
    BY <1>3 DEF Destruct
  <2>2. TypeOK'
    BY <2>1, <2>a DEF TypeOK
  <2>3. phase = "functors" => active' = {}
    BY <1>3 DEF Destruct, Turns, ActiveFreed
  <2>4. ~owned
    BY <1>3 DEF Destruct, Held
  <2> QED BY <1>3, <2>2, <2>3, <2>4 DEF Destruct, Turns
<1>4. ASSUME NEW f \in Fds, DestroyConnection(f)  PROVE TypeOK' /\ Turns'
  <2>1. active' \subseteq Fds \X (Pointers \ {"none"})
    BY <1>4 DEF DestroyConnection, TypeOK, Pointers
  <2>2. TypeOK'
    BY <1>4, <2>1, PointersTyped DEF DestroyConnection, TypeOK
  <2>3. phase = "functors" => active' = {}
    BY <1>4 DEF DestroyConnection, Turns
  <2> QED BY <1>4, <2>2, <2>3 DEF DestroyConnection, Turns
<1> QED BY <1>1, <1>2, <1>3, <1>4 DEF Ends

LEMMA UserTypes ==
    ASSUME TypeOK, Turns,
           \/ OtherCallback \/ PostConnect
           \/ Connect \/ StopConnecting \/ Disconnect \/ SetRetry \/ CloseConnection \/ Drop
    PROVE  TypeOK' /\ Turns'
<1> USE DEF loopVars, userVars, flagVars, connVars, pollVars, attemptVars
<1>a. ASSUME NEW x \in AllFunctors, queue' = Append(queue, x), UNCHANGED batch
      PROVE  queue' \in Seq(AllFunctors)
  BY <1>a, Push
<1>b. ASSUME User  PROVE owned /\ client = "alive"
  BY <1>b DEF User, Turns, TypeOK
<1>1. CASE OtherCallback
  BY <1>1 DEF OtherCallback, TypeOK, Turns
<1>2. CASE PostConnect
  <2>1. Functor("start", NoFd) \in AllFunctors
    BY FunctorsTyped DEF FunctorNames
  <2>2. TypeOK'
    <3>1. clean' \in BOOLEAN
      BY <1>2, Zenon DEF PostConnect
    <3> QED BY <1>2, <1>a, <2>1, <3>1 DEF PostConnect, TypeOK
  <2> QED BY <1>2, <2>2 DEF PostConnect, TypeOK, Turns
<1>3. CASE Connect
  <2>1. StartVarsTyped'
    <3>1. Start(state, timers) /\ needStart' \in BOOLEAN
      BY <1>3 DEF Connect
    <3> QED BY <3>1, StartTypes DEF States, TypeOK
  <2>2. TypeOK'
    <3>1. UNCHANGED <<phase, recent, done, batch, callback, subject, client, connection, conn,
                      queue, owned, isRetry>> /\ needStart' = TRUE
      BY <1>3 DEF Connect, User
    <3>2. clean' \in BOOLEAN
      BY <1>3, Zenon DEF Connect
    <3> QED BY <2>1, <3>1, <3>2 DEF TypeOK, StartVarsTyped, States
  <2>3. phase = "functors" => active' = {}
    <3>1. phase = "functors" => active = {} /\ ActiveFreed = {}
      BY DEF Turns, ActiveFreed
    <3> QED BY <3>1, <1>3 DEF Connect, Start, Begin, RetryableError, OtherError
  <2>4. UNCHANGED <<phase, recent, batch, client>> /\ client = "alive"
    BY <1>3, <1>b DEF Connect, User
  <2> QED BY <2>2, <2>3, <2>4 DEF Turns
<1>4. CASE StopConnecting
  <2>1. Functor("reset", NoFd) \in AllFunctors
    BY FunctorsTyped DEF FunctorNames
  <2>2. Without(Without(epoll, channel), sock) \in [Fds -> Pointers]
    BY PointersTyped
  <2>3. /\ UNCHANGED <<phase, recent, done, batch, callback, subject, client, connection, conn>>
        /\ UNCHANGED <<active, timers, owned, isRetry, channel, gaveUp, clean>>
        /\ needStart' = FALSE /\ needStart' \in BOOLEAN /\ client = "alive"
    BY <1>4, <1>b DEF StopConnecting, User
  <2>4. /\ queue' \in Seq(AllFunctors)
        /\ table' \subseteq Fds
        /\ epoll' \in [Fds -> Pointers]
        /\ state' \in {"Disconnect", "Connecting", "Connected"}
        /\ sock' \in Fds \union {NoFd}
    <3>1. CASE state = "Connecting"
      BY <1>4, <1>a, <2>1, <2>2, <2>3, <3>1 DEF StopConnecting, RemoveChannel, TypeOK
    <3>2. CASE state # "Connecting"
      BY <1>4, <3>2 DEF StopConnecting, TypeOK
    <3> QED BY <3>1, <3>2
  <2>5. TypeOK'
    BY <2>3, <2>4 DEF TypeOK
  <2> QED BY <2>3, <2>5 DEF Turns
<1>5. CASE Disconnect
  <2>1. /\ UNCHANGED <<phase, recent, done, batch, callback, subject, client, connection, conn>>
        /\ UNCHANGED <<active, queue, timers, owned, isRetry, table, epoll, state, sock,
                       channel, gaveUp, clean>>
        /\ needStart' = FALSE /\ needStart' \in BOOLEAN
    BY <1>5 DEF Disconnect, User
  <2>2. TypeOK'
    BY <2>1 DEF TypeOK
  <2> QED BY <2>1, <2>2 DEF Turns
<1>6. CASE SetRetry
  <2>1. clean' \in BOOLEAN
    BY <1>6, Zenon DEF SetRetry
  <2> QED BY <1>6, <1>b, <2>1 DEF SetRetry, User, TypeOK, Turns
<1>7. CASE CloseConnection
  <2>1. Functor("close", connection) \in AllFunctors
    BY FunctorsTyped DEF FunctorNames, TypeOK
  <2>2. TypeOK'
    BY <1>7, <1>a, <2>1 DEF CloseConnection, User, TypeOK
  <2> QED BY <1>7, <1>b, <2>2 DEF CloseConnection, User, Turns
<1>8. CASE Drop
  <2>1. /\ UNCHANGED <<phase, recent, done, batch, callback, subject, client, connection, conn>>
        /\ UNCHANGED <<active, queue, timers, needStart, isRetry, table, epoll, state, sock,
                       channel, gaveUp, clean>>
        /\ owned' = FALSE /\ owned' \in BOOLEAN
    BY <1>8 DEF Drop, User
  <2>2. TypeOK'
    BY <2>1 DEF TypeOK
  <2> QED BY <2>1, <2>2 DEF Turns
<1> QED BY <1>1, <1>2, <1>3, <1>4, <1>5, <1>6, <1>7, <1>8

LEMMA StepTypes ==
    ASSUME TypeOK, Turns, [Next]_vars
    PROVE  TypeOK' /\ Turns'
<1> USE DEF loopVars, userVars, flagVars, connVars, pollVars, attemptVars
<1>1. CASE Poll
  <2>1. active' \subseteq Fds \X (Pointers \ {"none"})
    BY <1>1 DEF Poll, TypeOK, Pointers
  <2> QED BY <1>1, <2>1 DEF Poll, TypeOK, Turns
<1>2. CASE RetryTimer
  <2>1. CASE client = "alive"
    <3>1. /\ Start(state, timers - 1) /\ needStart' = needStart
          /\ timers - 1 \in Nat /\ phase = "channels"
          /\ UNCHANGED <<phase, recent, done, queue, batch, userVars, client, isRetry, connVars>>
      BY <1>2, <2>1 DEF RetryTimer, TypeOK
    <3>2. StartVarsTyped'
      BY <3>1, StartTypes DEF TypeOK, States
    <3>3. clean' \in BOOLEAN
      BY <1>2, <2>1, Zenon DEF RetryTimer
    <3> QED BY <2>1, <3>1, <3>2, <3>3 DEF TypeOK, Turns, StartVarsTyped, States
  <2>2. CASE client # "alive"
    BY <1>2, <2>2 DEF RetryTimer, TypeOK, Turns
  <2> QED BY <2>1, <2>2
<1>3. CASE UNCHANGED vars
  BY <1>3 DEF vars, TypeOK, Turns
<1> QED
  BY <1>1, <1>2, <1>3, ChannelsTypes, FunctorsTypes, EndsTypes, UserTypes DEF Next

(***************************************************************************)
(* The state of TcpClient keeps its types.                                 *)
(***************************************************************************)
THEOREM TypeCorrect == Spec => []TypeOK
<1>1. Spec => [](TypeOK /\ Turns)
  BY InitTypes, StepTypes, PTL DEF Spec
<1> QED BY <1>1, PTL

(***************************************************************************)
(* A client that is stopped stays stopped until connect() is called: no    *)
(* retry, no queued start() and no late event begins an attempt.           *)
(***************************************************************************)
LEMMA StartStops ==
    ASSUME NEW st, NEW n, Start(st, n), ~needStart'
    PROVE  state' = st
  BY DEF Start

LEMMA StepStops ==
    ASSUME [Next]_vars, ~needStart, ~needStart'
    PROVE  /\ state' = "Connecting" => state = "Connecting"
           /\ callback' = "connect" => callback = "connect"
<1> USE DEF loopVars, userVars, flagVars, connVars, pollVars, attemptVars
<1>1. CASE Channels
  <2>1. ASSUME NEW f \in Fds, ConnectFails(f)
        PROVE  state' = "Disconnect" /\ callback' = callback
    BY <2>1 DEF ConnectFails, Retried
  <2>2. ASSUME NEW f \in Fds, ConnectUnwanted(f)
        PROVE  state' = "Disconnect" /\ callback' = callback
    BY <2>2 DEF ConnectUnwanted
  <2>3. ASSUME NEW f \in Fds, ConnectionEvent(f)
        PROVE  state' = state /\ callback' \in {callback, "disconnect"}
    BY <2>3 DEF ConnectionEvent, HandleClose
  <2> QED BY <1>1, <2>1, <2>2, <2>3 DEF Channels, ConnectSucceeds, LateEvent, EndChannels
<1>2. CASE Functors
  <2>1. CASE RunStart
    BY <2>1, StartStops DEF RunStart
  <2>2. CASE RunClose
    BY <2>2 DEF RunClose, HandleClose
  <2>3. CASE RunDestroyed
    BY <2>3 DEF RunDestroyed
  <2> QED BY <1>2, <2>1, <2>2, <2>3 DEF Functors, RunReset, RunDelete, EndFunctors
<1>3. CASE RetryTimer
  BY <1>3, StartStops DEF RetryTimer
<1>4. CASE Ends
  <2>1. CASE RemoveConnect
    BY <2>1 DEF RemoveConnect, Returns
  <2>2. CASE EndCallback
    BY <2>2 DEF EndCallback, Returns
  <2> QED BY <1>4, <2>1, <2>2 DEF Ends, Destruct, DestroyConnection
<1>5. CASE Connect \/ PostConnect
  BY <1>5 DEF Connect, PostConnect
<1>6. CASE StopConnecting
  BY <1>6 DEF StopConnecting, User
<1>7. CASE Disconnect \/ SetRetry \/ CloseConnection \/ Drop
  BY <1>7 DEF Disconnect, SetRetry, CloseConnection, Drop, User
<1>8. CASE Poll \/ OtherCallback
  BY <1>8 DEF Poll, OtherCallback
<1>9. CASE UNCHANGED vars
  BY <1>9 DEF vars
<1> QED BY <1>1, <1>2, <1>3, <1>4, <1>5, <1>6, <1>7, <1>8, <1>9 DEF Next

THEOREM StoppedStays == Spec => StopHolds
<1>1. [Next]_vars =>
        [~needStart /\ ~needStart' => /\ state' = "Connecting" => state = "Connecting"
                                      /\ callback' = "connect" => callback = "connect"]_vars
  BY StepStops
<1> QED BY <1>1, PTL DEF Spec, StopHolds

-----------------------------------------------------------------------------
(* The strengthened invariant, one lemma per kind of step.                 *)

Safe ==
    /\ Order /\ QueueFits /\ Attempt /\ Kernel /\ Connections
    /\ Closing /\ ActiveFits /\ NoStaleKeys

Reset == Functor("reset", NoFd)

LEMMA ResetIsOne ==
    ASSUME TypeOK, QueueFits
    PROVE  \A q \in Waiting : q.name = "reset" <=> q = Reset
  BY WaitingTyped, Fields DEF QueueFits, Reset

(***************************************************************************)
(* start(), when no earlier attempt is overtaken: it begins an attempt on  *)
(* a free descriptor that neither channels_ nor the kernel knows, or fails *)
(* and leaves nothing behind, or does nothing.                             *)
(***************************************************************************)
Begins ==
    /\ sock = NoFd /\ channel = NoFd /\ active' = active
    /\ \E f \in Fds : /\ conn[f] = "none" /\ epoll[f] = "none" /\ f \notin table
                      /\ state' = "Connecting"
                      /\ sock' = f
                      /\ channel' = f
                      /\ table' = table \union {f}
                      /\ epoll' = [epoll EXCEPT ![f] = "channel"]

Fails(st) ==
    /\ sock = NoFd /\ channel = NoFd
    /\ sock' = NoFd /\ state' \in {"Disconnect", st}
    /\ UNCHANGED <<active, channel, table, epoll>>

Skips(st) ==
    /\ state' = st
    /\ UNCHANGED <<sock, channel, table, epoll, active>>

LEMMA NothingToFree ==
    ASSUME TypeOK, Kernel, sock = NoFd
    PROVE  /\ Without(epoll, sock) = epoll
           /\ ChannelFreed(epoll) = epoll
           /\ ChannelFreed(Without(epoll, sock)) = epoll
<1>1. \A f \in Fds : epoll[f] # "channel" /\ f # sock
  BY NoFdIsNone DEF Kernel
<1>2. epoll = [f \in Fds |-> epoll[f]]
  BY DEF TypeOK
<1>3. Without(epoll, sock) = epoll
  BY <1>1, <1>2 DEF Without
<1>4. ChannelFreed(epoll) = epoll
  BY <1>1, <1>2 DEF ChannelFreed
<1> QED BY <1>3, <1>4

LEMMA StartOutcome ==
    ASSUME TypeOK, Attempt, Kernel, NoStaleKeys, clean, client = "alive",
           NEW st, NEW n, Start(st, n), needStart' => channel = NoFd
    PROVE  Begins \/ Fails(st) \/ (~needStart' /\ Skips(st))
<1>1. CASE ~needStart'
  BY <1>1 DEF Start, Skips
<1>2. CASE needStart'
  <2>2. channel = NoFd /\ sock = NoFd
    BY <1>2 DEF Attempt
  <2>3. PICK f \in Free : Begin(f, n) \/ RetryableError(n) \/ OtherError(st, n)
    BY <1>2 DEF Start
  <2>4. CASE Begin(f, n)
    <3>1. f \in Fds /\ conn[f] = "none"
      BY DEF Free
    <3>2. epoll[f] = "none"
      BY <2>2, <3>1, NoFdIsNone DEF Kernel, TypeOK, Pointers
    <3>3. f \notin table
      BY <3>2 DEF NoStaleKeys
    <3>4. epoll' = [epoll EXCEPT ![f] = "channel"]
      BY <2>2, <2>4, <3>3, NothingToFree DEF Begin, Registered
    <3> QED BY <2>2, <2>4, <3>1, <3>2, <3>3, <3>4 DEF Begin, Begins
  <2>5. CASE RetryableError(n)
    BY <2>2, <2>5, NothingToFree DEF RetryableError, Retried, Fails
  <2>6. CASE OtherError(st, n)
    BY <2>2, <2>6, NothingToFree DEF OtherError, Fails
  <2> QED BY <2>3, <2>4, <2>5, <2>6
<1> QED BY <1>1, <1>2

LEMMA StartSafe ==
    ASSUME TypeOK, Turns, QueueFits, Attempt, Kernel, ActiveFits, NoStaleKeys, client = "alive", clean,
           Begins \/ Fails(state) \/ Fails("Disconnect") \/ Skips(state),
           UNCHANGED <<client, conn>>, connection' \in {connection, NoFd},
           Reset \in Waiting => Reset \in Waiting'
    PROVE  /\ Attempt' /\ Kernel' /\ ActiveFits' /\ NoStaleKeys'
           /\ \A q \in Waiting : q.name = "reset" => channel' # NoFd /\ state' # "Connecting"
           /\ \A f \in Fds : f \in table' => f \in table \/ conn[f] = "none"
<1> USE NoFdIsNone
<1>0. \A q \in Waiting : q.name = "reset" => q = Reset /\ channel # NoFd /\ state # "Connecting"
  BY ResetIsOne DEF QueueFits
<1>1. CASE Begins
  <2>1. PICK f \in Fds : /\ conn[f] = "none" /\ epoll[f] = "none" /\ f \notin table
                         /\ state' = "Connecting" /\ sock' = f /\ channel' = f
                         /\ table' = table \union {f}
                         /\ epoll' = [epoll EXCEPT ![f] = "channel"]
    BY <1>1 DEF Begins
  <2>2. epoll'[f] = "channel" /\ \A g \in Fds : g # f => epoll'[g] = epoll[g]
    BY <2>1 DEF TypeOK
  <2>3. sock = NoFd /\ channel = NoFd /\ active' = active
    BY <1>1 DEF Begins
  <2>4. Attempt'
    BY <2>1, <2>2 DEF Attempt
  <2>5. Kernel'
    BY <2>1, <2>2, <2>3 DEF Kernel
  <2>6. ActiveFits'
    <3>1. \A a \in active : a \in Fds \X (Pointers \ {"none"})
      BY DEF TypeOK
    <3>2. \A a \in active : a[2] # "freed" /\ a[2] # "channel"
      BY <2>3, <3>1 DEF ActiveFits
    <3> QED BY <2>3, <3>2 DEF ActiveFits
  <2>7. NoStaleKeys'
    <3>1. table \subseteq Fds
      BY DEF TypeOK
    <3> QED BY <2>1, <2>2, <3>1 DEF NoStaleKeys
  <2> QED BY <1>0, <2>1, <2>3, <2>4, <2>5, <2>6, <2>7
<1>2. CASE Fails(state) \/ Fails("Disconnect")
  <2>1. /\ sock = NoFd /\ channel = NoFd /\ sock' = NoFd
        /\ UNCHANGED <<active, channel, table, epoll>>
        /\ state' # "Connecting"
    BY <1>2 DEF Fails, Attempt
  <2>2. Attempt' /\ Kernel' /\ NoStaleKeys'
    BY <2>1 DEF Attempt, Kernel, NoStaleKeys
  <2>3. ActiveFits'
    BY <2>1 DEF ActiveFits
  <2> QED BY <1>0, <2>1, <2>2, <2>3
<1>3. CASE Skips(state)
  <2>1. UNCHANGED <<state, sock, channel, table, epoll, active>>
    BY <1>3 DEF Skips
  <2>2. Attempt' /\ Kernel' /\ NoStaleKeys'
    BY <2>1 DEF Attempt, Kernel, NoStaleKeys, Queued, Reset
  <2>3. ActiveFits'
    BY <2>1 DEF ActiveFits
  <2> QED BY <1>0, <2>1, <2>2, <2>3
<1> QED BY <1>1, <1>2, <1>3

(***************************************************************************)
(* A handler that gives the attempt up: the channel leaves channels_ and   *)
(* the kernel, its reset is queued, and the socket is closed.              *)
(***************************************************************************)
LEMMA AbandonSafe ==
    ASSUME TypeOK, Turns, Safe, clean,
           state = "Connecting", client = "alive", RemoveChannel,
           state' = "Disconnect", sock' = NoFd, active' \subseteq active,
           UNCHANGED <<phase, batch, client, channel, connection, conn, callback, subject>>
    PROVE  Safe'
<1> USE NoFdIsNone DEF Safe
<1>1. /\ sock # NoFd /\ channel = sock /\ sock \in Fds /\ conn[sock] = "none"
      /\ epoll[sock] = "channel"
  BY DEF Attempt, TypeOK
<1>2. /\ table' = table \ {sock}
      /\ queue' = Append(queue, Reset) /\ batch' = batch
      /\ epoll' = [f \in Fds |-> IF f = sock THEN "none" ELSE epoll[f]]
  <2>1. Without(Without(epoll, sock), sock) = [f \in Fds |-> IF f = sock THEN "none" ELSE epoll[f]]
    BY DEF Without
  <2> QED BY <1>1, <2>1 DEF RemoveChannel, Reset
<1>3. Reset \in AllFunctors /\ Reset.name = "reset" /\ Reset.fd = NoFd
  BY FunctorsTyped, Fields DEF Reset, FunctorNames
<1>4. Waiting' = Waiting \union {Reset}
  BY <1>2, <1>3, Push
<1>5. \A q \in Waiting : q.name # "reset"
  BY DEF QueueFits
<1>6. Order'
  <2>1. \A q \in Waiting : ~Clash(Opened, q, Reset)
    <3>1. Opened = {}
      BY DEF Opened, Connections
    <3> QED BY <1>3, <1>5, <3>1 DEF Clash
  <2> QED BY <1>2, <1>3, <2>1, OrderPush, SameOpened
<1>7. QueueFits'
  BY <1>1, <1>3, <1>4 DEF QueueFits
<1>8. Attempt'
  BY <1>4 DEF Attempt, Queued, Reset
<1>9. Kernel'
  BY <1>1, <1>2 DEF Kernel
<1>10. Connections'
  BY <1>4 DEF Connections, Queued
<1>11. Closing'
  BY <1>2, <1>3, <1>4, Fields DEF Closing, Queued
<1>12. ActiveFits'
  BY DEF ActiveFits
<1>13. NoStaleKeys'
  BY <1>2 DEF NoStaleKeys, TypeOK
<1> QED BY <1>6, <1>7, <1>8, <1>9, <1>10, <1>11, <1>12, <1>13

(***************************************************************************)
(* newConnect(): the socket becomes the connection's, and its descriptor   *)
(* is registered anew because the channel has left channels_.              *)
(***************************************************************************)
LEMMA SucceedSafe ==
    ASSUME TypeOK, Turns, Safe, clean, NEW f \in Fds, ConnectSucceeds(f)
    PROVE  Safe'
<1> USE NoFdIsNone DEF Safe
<1>1. /\ state = "Connecting" /\ client = "alive" /\ callback = "none" /\ needStart
      /\ <<f, "channel">> \in active /\ active' = active \ {<<f, "channel">>}
      /\ UNCHANGED <<phase, batch, client, channel>>
  BY DEF ConnectSucceeds, HandlesChannel, OnLoop
<1>2. /\ sock # NoFd /\ channel = sock /\ sock \in Fds /\ conn[sock] = "none"
      /\ epoll[sock] = "channel"
  BY <1>1 DEF Attempt, TypeOK
<1>3. connection = NoFd
  BY <1>1 DEF Connections
<1>4. /\ state' = "Connected" /\ sock' = NoFd /\ connection' = sock
      /\ conn' = [conn EXCEPT ![sock] = "open"]
      /\ table' = (table \ {sock}) \union {sock}
      /\ queue' = Append(queue, Reset)
      /\ callback' = "connect" /\ subject' = sock
  BY <1>2 DEF ConnectSucceeds, Reset
<1>5. epoll' = [g \in Fds |-> IF g = sock THEN "conn" ELSE epoll[g]]
  <2>1. epoll' = [Without(epoll, sock) EXCEPT ![sock] = "conn"]
    BY <1>2 DEF ConnectSucceeds, Registered
  <2> QED BY <1>2, <2>1 DEF Without
<1>6. conn'[sock] = "open" /\ \A g \in Fds : g # sock => conn'[g] = conn[g]
  BY <1>2, <1>4 DEF TypeOK
<1>7. Reset \in AllFunctors /\ Reset.name = "reset" /\ Reset.fd = NoFd
  BY FunctorsTyped, Fields DEF Reset, FunctorNames
<1>8. Waiting' = Waiting \union {Reset}
  BY <1>1, <1>4, <1>7, Push
<1>9. \A q \in Waiting : q.name # "reset"
  BY <1>1 DEF QueueFits
<1>10. \A g \in Fds : conn[g] # "open"
  BY <1>1, <1>3 DEF Connections
<1>11. Order'
  <2>1. Opened = {} /\ Opened' = {sock}
    BY <1>2, <1>6, <1>10 DEF Opened
  <2>2. Milder
    BY <1>2, <2>1 DEF Milder, QueueFits
  <2>3. \A q \in Waiting : ~Clash(Opened, q, Reset)
    BY <1>7, <1>9, <2>1 DEF Clash
  <2> QED BY <1>1, <1>4, <1>7, <2>2, <2>3, OrderPush
<1>12. QueueFits'
  <2>1. \A q \in Waiting : q.name \in {"close", "destroyed"} => q.fd # sock /\ q.fd \in Fds
    BY <1>2, WaitingTyped DEF QueueFits
  <2> QED BY <1>1, <1>2, <1>4, <1>6, <1>7, <1>8, <2>1 DEF QueueFits
<1>13. Attempt'
  BY <1>1, <1>4, <1>8 DEF Attempt, Queued, Reset
<1>14. Kernel'
  BY <1>2, <1>4, <1>5, <1>6, <1>10 DEF Kernel
<1>15. Connections'
  BY <1>2, <1>4, <1>6, <1>10 DEF Connections
<1>16. Closing'
  BY <1>1, <1>3, <1>4, <1>6, <1>7, <1>8, Fields DEF Closing, Queued
<1>17. ActiveFits'
  <2>1. \A a \in active' : a \in active /\ a[2] # "freed" /\ a = <<a[1], a[2]>>
    BY <1>1 DEF ActiveFits, TypeOK
  <2>2. f = sock
    BY <1>1, <1>2 DEF ActiveFits
  <2>3. \A a \in active' : a[2] # "channel"
    BY <1>1, <1>2, <2>1, <2>2 DEF ActiveFits
  <2> QED BY <2>1, <2>3 DEF ActiveFits
<1>18. NoStaleKeys'
  BY <1>1, <1>2, <1>4, <1>5 DEF NoStaleKeys, TypeOK
<1> QED BY <1>11, <1>12, <1>13, <1>14, <1>15, <1>16, <1>17, <1>18

(***************************************************************************)
(* Steps that leave the attempt, the connections and the kernel alone: x   *)
(* may be queued, and y may have been taken from the batch.                *)
(***************************************************************************)
LEMMA KeptSafe ==
    ASSUME TypeOK, Turns, Safe, clean, Order', active' \subseteq active,
           UNCHANGED <<phase, client, state, sock, channel, connection, conn, table, epoll, subject>>,
           callback' = callback \/ (callback = "none" /\ callback' = "other"),
           \A q \in Waiting' : \/ q \in Waiting
                               \/ q = Functor("start", NoFd)
                               \/ q = Functor("close", connection) /\ connection # NoFd
                                      /\ conn[connection] = "open",
           \A q \in Waiting : \/ q \in Waiting'
                              \/ q.name = "start"
                              \/ q.name = "close" /\ conn[q.fd] # "open" /\ phase = "functors"
    PROVE  Safe'
<1> USE NoFdIsNone DEF Safe
<1>1. QueueFits'
  <2> SUFFICES ASSUME NEW q \in Waiting'
               PROVE  /\ q.name \in {"start", "reset"} => q.fd = NoFd
                      /\ q.name = "reset" => channel # NoFd /\ state # "Connecting" /\ client = "alive"
                      /\ q.name = "close" => q.fd # NoFd /\ conn[q.fd] # "none"
                      /\ q.name = "destroyed" => q.fd # NoFd /\ conn[q.fd] = "closed" /\ q.fd # connection
                      /\ q.name = "delete" => client = "gone"
    BY DEF QueueFits
  <2>1. CASE q \in Waiting
    BY <2>1 DEF QueueFits
  <2>2. CASE q \notin Waiting
    BY <2>2, Fields
  <2> QED BY <2>1, <2>2
<1>2. Attempt'
  <2>1. Queued(Functor("reset", NoFd)) => Queued(Functor("reset", NoFd))'
    BY Fields DEF Queued
  <2> QED BY <2>1 DEF Attempt
<1>3. Kernel'
  BY DEF Kernel
<1>4. Connections'
  <2>1. \A f \in Fds : conn[f] = "open" /\ Queued(Functor("close", f)) => Queued(Functor("close", f))'
    BY Fields DEF Queued
  <2> QED BY <2>1 DEF Connections
<1>5. Closing'
  <2> SUFFICES ASSUME NEW f \in Fds, conn[f] = "closed"
               PROVE  \/ Queued(Functor("destroyed", f))'
                      \/ client = "alive" /\ callback' = "disconnect" /\ connection = f
                      \/ client = "gone" /\ Queued(Functor("close", f))'
                      \/ /\ phase = "functors"
                         /\ client = "alive" => f \notin table /\ ~Queued(Functor("close", f))'
    BY DEF Closing
  <2>1. Functor("destroyed", f) \in Waiting => Functor("destroyed", f) \in Waiting'
    BY Fields
  <2>2. Functor("close", f) \in Waiting => Functor("close", f) \in Waiting' \/ phase = "functors"
    BY Fields
  <2>3. Functor("close", f) \in Waiting' => Functor("close", f) \in Waiting
    BY Fields
  <2> QED BY <2>1, <2>2, <2>3 DEF Closing, Queued, TypeOK
<1>6. ActiveFits' /\ NoStaleKeys'
  BY DEF ActiveFits, NoStaleKeys
<1> QED BY <1>1, <1>2, <1>3, <1>4, <1>5, <1>6

LEMMA CloseMilder ==
    ASSUME TypeOK, NEW f \in Fds, HandleClose(f)
    PROVE  Milder
<1>1. conn[f] = "open" => \A g \in Fds : conn'[g] = "open" => conn[g] = "open"
  BY DEF HandleClose, TypeOK
<1>2. conn[f] # "open" => conn' = conn
  BY DEF HandleClose
<1> QED BY <1>1, <1>2 DEF Milder, Opened

(***************************************************************************)
(* handleClose() of an open connection, from an event of the poll or from  *)
(* its close functor.                                                      *)
(***************************************************************************)
LEMMA CloseSafe ==
    ASSUME TypeOK, Turns, Safe, clean, Order', active' \subseteq active, callback = "none",
           NEW f \in Fds, conn[f] = "open", HandleClose(f),
           UNCHANGED <<phase, client, state, sock, channel, connection, table, epoll>>,
           Waiting' \subseteq Waiting,
           \A q \in Waiting : \/ q \in Waiting'
                              \/ q = Functor("close", f) /\ phase = "functors"
    PROVE  Safe'
<1> USE NoFdIsNone DEF Safe
<1>1. conn' = [conn EXCEPT ![f] = "closed"] /\ callback' = "disconnect" /\ subject' = f
  BY DEF HandleClose
<1>2. conn'[f] = "closed" /\ \A g \in Fds : g # f => conn'[g] = conn[g]
  BY <1>1 DEF TypeOK
<1>3. connection = f \/ (client = "gone" /\ Queued(Functor("close", f)))
  BY DEF Connections
<1>4. connection # NoFd => connection = f
  BY <1>3 DEF Turns
<1>5. QueueFits'
  <2>1. \A q \in Waiting : q.name = "destroyed" => q.fd # f /\ q.fd \in Fds
    BY WaitingTyped DEF QueueFits
  <2>2. \A q \in Waiting : q.name = "close" => q.fd \in Fds
    BY WaitingTyped DEF QueueFits
  <2> QED BY <1>2, <2>1, <2>2 DEF QueueFits
<1>6. Attempt'
  <2>1. Queued(Functor("reset", NoFd)) => Queued(Functor("reset", NoFd))'
    BY Fields DEF Queued
  <2>2. sock # NoFd => sock # f /\ sock \in Fds
    BY DEF Attempt, TypeOK
  <2> QED BY <1>2, <2>1, <2>2 DEF Attempt
<1>7. Kernel'
  BY <1>2 DEF Kernel
<1>8. Connections'
  <2>1. \A g \in Fds : g # f /\ Queued(Functor("close", g)) => Queued(Functor("close", g))'
    BY Fields DEF Queued
  <2>2. connection' # NoFd => conn'[connection'] = "closed" /\ subject' = connection'
    BY <1>1, <1>2, <1>4
  <2>3. subject' # NoFd /\ conn'[subject'] = "closed" /\ (client' = "alive" => subject' = connection')
    BY <1>1, <1>2, <1>3
  <2>4. \A g \in Fds : conn'[g] = "open" =>
            connection' = g \/ (client' = "gone" /\ Queued(Functor("close", g))')
    BY <1>2, <2>1 DEF Connections
  <2> QED BY <1>1, <2>2, <2>3, <2>4 DEF Connections
<1>9. Closing'
  <2> SUFFICES ASSUME NEW g \in Fds, conn'[g] = "closed"
               PROVE  \/ Queued(Functor("destroyed", g))'
                      \/ client = "alive" /\ callback' = "disconnect" /\ connection = g
                      \/ client = "gone" /\ Queued(Functor("close", g))'
                      \/ /\ phase = "functors"
                         /\ client = "alive" => g \notin table /\ ~Queued(Functor("close", g))'
    BY DEF Closing
  <2>1. Functor("destroyed", g) \in Waiting => Functor("destroyed", g) \in Waiting'
    BY Fields
  <2>2. Functor("close", g) \in Waiting => Functor("close", g) \in Waiting' \/ phase = "functors"
    BY Fields
  <2>3. CASE g = f
    BY <1>1, <1>3, <2>2, <2>3 DEF Queued, TypeOK, Turns
  <2>4. CASE g # f
    <3>1. conn[g] = "closed" /\ client \in {"alive", "gone"}
      BY <1>2, <2>4 DEF TypeOK
    <3>2. Functor("close", g) \in Waiting' => Functor("close", g) \in Waiting
      OBVIOUS
    <3> QED BY <2>1, <2>2, <3>1, <3>2 DEF Closing, Queued
  <2> QED BY <2>3, <2>4
<1>10. ActiveFits' /\ NoStaleKeys'
  BY DEF ActiveFits, NoStaleKeys
<1> QED BY <1>5, <1>6, <1>7, <1>8, <1>9, <1>10

(***************************************************************************)
(* start() from connect(), from a timer and from its functor: nothing but  *)
(* the attempt changes.                                                    *)
(***************************************************************************)
LEMMA AttemptStepSafe ==
    ASSUME TypeOK, Turns, Safe, clean, client = "alive", Order', NEW n, Start(state, n),
           needStart' => /\ channel = NoFd
                         /\ connection # NoFd => conn[connection] = "closed",
           UNCHANGED <<phase, client, connection, conn, callback, subject>>,
           Waiting' \subseteq Waiting,
           \A q \in Waiting : q \in Waiting' \/ q.name = "start"
    PROVE  Safe'
<1> USE NoFdIsNone DEF Safe
<1>1. Begins \/ Fails(state) \/ (~needStart' /\ Skips(state))
  BY StartOutcome
<1>3. Reset \in Waiting => Reset \in Waiting'
  BY Fields DEF Reset
<1>4. /\ Attempt' /\ Kernel' /\ ActiveFits' /\ NoStaleKeys'
      /\ \A q \in Waiting : q.name = "reset" => channel' # NoFd /\ state' # "Connecting"
      /\ \A f \in Fds : f \in table' => f \in table \/ conn[f] = "none"
  BY <1>1, <1>3, StartSafe
<1>5. QueueFits'
  BY <1>4 DEF QueueFits
<1>6. Connections'
  <2>1. connection # NoFd /\ conn[connection] = "open" => state' = state
    BY <1>1 DEF Skips, Begins, Fails, Start
  <2>2. \A f \in Fds : Queued(Functor("close", f)) => Queued(Functor("close", f))'
    BY Fields DEF Queued
  <2> QED BY <2>1, <2>2 DEF Connections
<1>7. Closing'
  <2>1. \A f \in Fds : /\ Queued(Functor("close", f)) <=> Queued(Functor("close", f))'
                       /\ Queued(Functor("destroyed", f)) <=> Queued(Functor("destroyed", f))'
    BY Fields DEF Queued
  <2> QED BY <1>4, <2>1 DEF Closing
<1> QED BY <1>4, <1>5, <1>6, <1>7

(***************************************************************************)
(* The loop changes between the channels of a poll and the functors.       *)
(***************************************************************************)
LEMMA TurnSafe ==
    ASSUME TypeOK, Turns, Safe, clean, EndChannels \/ Poll
    PROVE  Safe'
<1> USE NoFdIsNone DEF Safe
<1>1. /\ callback = "none" /\ subject = NoFd /\ Settled
      /\ UNCHANGED <<client, state, sock, channel, connection, conn, table, epoll, callback, subject>>
  BY DEF EndChannels, Poll, OnLoop, userVars, connVars, pollVars, attemptVars, Connections
<1>2. Waiting' = Waiting /\ Order'
  <2>1. CASE EndChannels
    BY <1>1, <2>1, Swap, OrderSwap, SameOpened DEF EndChannels, Turns
  <2>2. CASE Poll
    BY <1>1, <2>2, OrderSame, SameOpened DEF Poll
  <2> QED BY <2>1, <2>2
<1>3. QueueFits' /\ Attempt' /\ Kernel' /\ Connections' /\ NoStaleKeys'
  BY <1>1, <1>2 DEF QueueFits, Attempt, Kernel, Connections, NoStaleKeys, Queued
<1>4. \A f \in Fds : conn[f] = "closed" => connection # f
  BY <1>1 DEF Connections
<1>5. CASE EndChannels
  <2>1. active' = {} /\ phase = "channels" /\ phase' = "functors"
    BY <1>5 DEF EndChannels
  <2>2. Closing'
    <3>1. \A f \in Fds : conn[f] = "closed" =>
              Queued(Functor("destroyed", f)) \/ (client = "gone" /\ Queued(Functor("close", f)))
      BY <1>1, <2>1 DEF Closing
    <3> QED BY <1>1, <1>2, <3>1 DEF Closing, Queued
  <2>3. ActiveFits'
    BY <2>1 DEF ActiveFits
  <2> QED BY <1>2, <1>3, <2>2, <2>3
<1>6. CASE Poll
  <2>1. /\ phase = "functors" /\ phase' = "channels"
        /\ active' \subseteq {<<f, epoll[f]>> : f \in {g \in Fds : epoll[g] # "none"}}
    BY <1>6 DEF Poll
  <2>2. Closing'
    <3> SUFFICES ASSUME NEW f \in Fds, conn[f] = "closed"
                 PROVE  Queued(Functor("destroyed", f)) \/ (client = "gone" /\ Queued(Functor("close", f)))
      BY <1>1, <1>2 DEF Closing, Queued
    <3>1. Queued(Functor("close", f)) \/ Queued(Functor("destroyed", f))
      BY <1>1, <1>4, <1>6 DEF Poll, Settled, Referenced, Captured
    <3>2. client \in {"alive", "gone"}
      BY DEF TypeOK
    <3> QED BY <1>1, <1>4, <3>1, <3>2 DEF Closing
  <2>3. ActiveFits'
    <3> SUFFICES ASSUME NEW f \in Fds, epoll[f] # "none"
                 PROVE  /\ epoll[f] # "freed"
                        /\ epoll[f] = "channel" /\ client = "alive" => f = channel /\ connection = NoFd
      BY <1>1, <2>1 DEF ActiveFits
    <3>1. ASSUME epoll[f] = "channel", client = "alive"  PROVE f = channel /\ connection = NoFd
      <4>1. sock = f /\ channel = f /\ state = "Connecting"
        BY <3>1 DEF Kernel, Attempt
      <4> QED BY <1>1, <4>1 DEF Connections
    <3> QED BY <3>1 DEF Kernel
  <2> QED BY <1>2, <1>3, <2>2, <2>3
<1> QED BY <1>5, <1>6

(***************************************************************************)
(* The functors of removeChannel(), of a removed connection and of the     *)
(* destructor.                                                             *)
(***************************************************************************)
LEMMA RunResetSafe ==
    ASSUME TypeOK, Turns, Safe, clean, RunReset
    PROVE  Safe'
<1> USE NoFdIsNone DEF Safe
<1>1. /\ phase = "functors" /\ batch # <<>> /\ Head(batch).name = "reset"
      /\ batch' = Tail(batch) /\ channel' = NoFd /\ epoll' = ChannelFreed(epoll)
      /\ UNCHANGED <<phase, queue, active, client, state, sock, connection, conn, table,
                     callback, subject>>
  BY DEF RunReset, Pops
<1>2. Waiting' \subseteq Waiting /\ Waiting \subseteq Waiting' \union {Head(batch)}
      /\ Head(batch) \in Waiting
  BY <1>1, Pop
<1>3. Order' /\ \A q \in Waiting' : q.name # "reset"
  BY <1>1, OrderPop, SameOpened DEF Clash
<1>4. state # "Connecting" /\ client = "alive" /\ sock = NoFd
  BY <1>1, <1>2 DEF QueueFits, Attempt
<1>5. epoll' = epoll
  BY <1>1, <1>4, NothingToFree
<1>6. active = {}
  BY <1>1 DEF Turns
<1>7. QueueFits'
  BY <1>1, <1>2, <1>3 DEF QueueFits
<1>8. Attempt' /\ Kernel' /\ ActiveFits' /\ NoStaleKeys'
  BY <1>1, <1>4, <1>5, <1>6 DEF Attempt, Kernel, ActiveFits, NoStaleKeys
<1>9. Connections'
  BY <1>1, <1>4 DEF Connections
<1>10. Closing'
  <2>1. \A f \in Fds : /\ Queued(Functor("close", f)) <=> Queued(Functor("close", f))'
                       /\ Queued(Functor("destroyed", f)) <=> Queued(Functor("destroyed", f))'
    BY <1>1, <1>2, Fields DEF Queued
  <2> QED BY <1>1, <2>1 DEF Closing
<1> QED BY <1>3, <1>7, <1>8, <1>9, <1>10

LEMMA RunDestroyedSafe ==
    ASSUME TypeOK, Turns, Safe, clean, RunDestroyed
    PROVE  Safe'
<1> USE NoFdIsNone DEF Safe
<1> DEFINE f == Head(batch).fd
<1>1. /\ phase = "functors" /\ batch # <<>> /\ Head(batch).name = "destroyed"
      /\ batch' = Tail(batch)
  BY DEF RunDestroyed, Pops
<1>2. /\ Waiting' \subseteq Waiting /\ Waiting \subseteq Waiting' \union {Head(batch)}
      /\ Head(batch) \in Waiting
  BY <1>1, Pop DEF RunDestroyed, Pops
<1>3. f \in Fds /\ conn[f] = "closed" /\ f # connection /\ Head(batch) = Functor("destroyed", f)
  BY <1>1, <1>2, WaitingTyped DEF QueueFits
<1>4. /\ table' = table \ {f}
      /\ epoll' = [g \in Fds |-> IF g = f THEN "none" ELSE epoll[g]]
      /\ UNCHANGED <<phase, queue, active, client, state, sock, channel, connection, conn,
                     callback, subject>>
  BY <1>3 DEF RunDestroyed, Pops, Without, attemptVars
<1>5. Order' /\ \A q \in Waiting' : ~(q.name = "close" /\ q.fd = f)
  BY <1>1, <1>4, OrderPop, SameOpened DEF Clash
<1> HIDE DEF f
<1>6. QueueFits'
  BY <1>2, <1>4 DEF QueueFits
<1>7. Attempt'
  <2>1. Queued(Functor("reset", NoFd)) => Queued(Functor("reset", NoFd))'
    BY <1>2, <1>3, Fields DEF Queued
  <2>2. sock # NoFd => sock # f /\ sock \in Fds
    BY <1>3 DEF Attempt, TypeOK
  <2> QED BY <1>4, <2>1, <2>2 DEF Attempt
<1>8. Kernel'
  BY <1>3, <1>4 DEF Kernel
<1>9. Connections'
  <2>1. \A g \in Fds : Queued(Functor("close", g)) => Queued(Functor("close", g))'
    BY <1>2, <1>3, Fields DEF Queued
  <2> QED BY <1>4, <2>1 DEF Connections
<1>10. Closing'
  <2> SUFFICES ASSUME NEW g \in Fds, conn[g] = "closed"
               PROVE  \/ Queued(Functor("destroyed", g))'
                      \/ client = "alive" /\ callback = "disconnect" /\ connection = g
                      \/ client = "gone" /\ Queued(Functor("close", g))'
                      \/ client = "alive" => g \notin table' /\ ~Queued(Functor("close", g))'
    BY <1>1, <1>4 DEF Closing
  <2>1. Queued(Functor("close", g)) <=> Queued(Functor("close", g))'
    BY <1>2, <1>3, Fields DEF Queued
  <2>2. CASE g = f
    BY <1>4, <1>5, <2>2, Fields DEF Queued
  <2>3. CASE g # f
    <3>1. Queued(Functor("destroyed", g)) => Queued(Functor("destroyed", g))'
      BY <1>2, <1>3, <2>3, Fields DEF Queued
    <3> QED BY <1>4, <2>1, <3>1 DEF Closing
  <2> QED BY <2>2, <2>3
<1>11. ActiveFits'
  BY <1>4 DEF ActiveFits
<1>12. NoStaleKeys'
  BY <1>4 DEF NoStaleKeys, TypeOK
<1> QED BY <1>5, <1>6, <1>7, <1>8, <1>9, <1>10, <1>11, <1>12

LEMMA RunDeleteSafe ==
    ASSUME TypeOK, Turns, Safe, clean, RunDelete
    PROVE  Safe'
<1> USE NoFdIsNone DEF Safe
<1>1. /\ phase = "functors" /\ batch # <<>> /\ Head(batch).name = "delete"
      /\ batch' = Tail(batch)
      /\ UNCHANGED <<phase, queue, active, client, state, sock, channel, connection, conn,
                     epoll, callback, subject>>
  BY DEF RunDelete, Pops, attemptVars
<1>2. /\ Waiting' \subseteq Waiting /\ Waiting \subseteq Waiting' \union {Head(batch)}
      /\ Head(batch) \in Waiting
  BY <1>1, Pop
<1>3. client = "gone" /\ sock = NoFd /\ channel = NoFd
  BY <1>1, <1>2 DEF QueueFits, Turns
<1>4. Order'
  BY <1>1, OrderPop, SameOpened
<1>5. QueueFits' /\ Attempt' /\ Kernel' /\ ActiveFits' /\ NoStaleKeys'
  BY <1>1, <1>2, <1>3 DEF QueueFits, Attempt, Kernel, ActiveFits, NoStaleKeys
<1>6. \A f \in Fds : /\ Queued(Functor("close", f)) <=> Queued(Functor("close", f))'
                     /\ Queued(Functor("destroyed", f)) <=> Queued(Functor("destroyed", f))'
  BY <1>1, <1>2, Fields DEF Queued
<1>7. Connections' /\ Closing'
  BY <1>1, <1>3, <1>6 DEF Connections, Closing
<1> QED BY <1>4, <1>5, <1>7

(***************************************************************************)
(* The ends of callbacks and of objects.                                   *)
(***************************************************************************)
LEMMA EndCallbackSafe ==
    ASSUME TypeOK, Turns, Safe, clean, EndCallback
    PROVE  Safe'
<1> USE NoFdIsNone DEF Safe
<1>1. /\ UNCHANGED <<phase, queue, batch, active, client, state, sock, channel, connection, conn,
                     table, epoll>>
      /\ callback' = "none" /\ subject' = NoFd
      /\ callback = "disconnect" => client = "gone"
  BY DEF EndCallback, Returns, pollVars, attemptVars
<1>2. Waiting' = Waiting /\ Order'
  BY <1>1, OrderSame, SameOpened
<1>3. connection # NoFd => client # "gone"
  BY DEF Turns
<1>4. QueueFits' /\ Attempt' /\ Kernel' /\ ActiveFits' /\ NoStaleKeys'
  BY <1>1, <1>2 DEF QueueFits, Attempt, Kernel, ActiveFits, NoStaleKeys, Queued
<1>5. Connections'
  BY <1>1, <1>2, <1>3 DEF Connections, Queued
<1>6. Closing'
  BY <1>1, <1>2 DEF Closing, Queued
<1> QED BY <1>2, <1>4, <1>5, <1>6

LEMMA RemoveConnectSafe ==
    ASSUME TypeOK, Turns, Safe, Single, clean, RemoveConnect
    PROVE  Safe'
<1> USE NoFdIsNone DEF Safe
<1> DEFINE x == Functor("destroyed", connection)
<1>1. /\ client = "alive" /\ callback = "disconnect" /\ callback' = "none" /\ subject' = NoFd
      /\ queue' = Append(queue, x) /\ connection' = NoFd
      /\ UNCHANGED <<phase, batch, client, conn, needStart>>
  BY DEF RemoveConnect, Returns, flagVars
<1>2. connection \in Fds /\ conn[connection] = "closed"
  BY <1>1 DEF Connections, TypeOK
<1>3. x \in AllFunctors /\ x.name = "destroyed" /\ x.fd = connection
  BY FunctorsTyped, Fields DEF FunctorNames, TypeOK
<1>4. Waiting' = Waiting \union {x}
  BY <1>1, <1>3, Push
<1>5. Order'
  BY <1>1, <1>3, OrderPush, SameOpened DEF Clash
<1> HIDE DEF x
<1>6. Begins \/ Fails("Disconnect") \/ Skips(state)
  <2>1. CASE isRetry /\ needStart
    <3>1. Start("Disconnect", timers)
      BY <2>1 DEF RemoveConnect
    <3>2. channel = NoFd
      BY <1>1, <2>1 DEF Single
    <3> QED BY <1>1, <2>1, <3>1, <3>2, StartOutcome
  <2>2. CASE ~(isRetry /\ needStart)
    BY <2>2 DEF RemoveConnect, Skips, pollVars, attemptVars
  <2> QED BY <2>1, <2>2
<1>7. /\ Attempt' /\ Kernel' /\ ActiveFits' /\ NoStaleKeys'
      /\ \A q \in Waiting : q.name = "reset" => channel' # NoFd /\ state' # "Connecting"
      /\ \A f \in Fds : f \in table' => f \in table \/ conn[f] = "none"
  BY <1>1, <1>4, <1>6, StartSafe
<1>8. QueueFits'
  <2>1. \A q \in Waiting : q.name = "destroyed" => q.fd # NoFd
    BY DEF QueueFits
  <2> QED BY <1>1, <1>2, <1>3, <1>4, <1>7, <2>1 DEF QueueFits
<1>9. Connections'
  <2>1. \A f \in Fds : conn[f] # "open"
    BY <1>1, <1>2 DEF Connections
  <2> QED BY <1>1, <2>1 DEF Connections
<1>10. Closing'
  <2> SUFFICES ASSUME NEW f \in Fds, conn[f] = "closed"
               PROVE  \/ Functor("destroyed", f) \in Waiting'
                      \/ /\ phase = "functors"
                         /\ f \notin table' /\ Functor("close", f) \notin Waiting'
    BY <1>1 DEF Closing, Queued
  <2>1. f = connection => Functor("destroyed", f) \in Waiting'
    BY <1>4 DEF x
  <2>2. Functor("close", f) \in Waiting' => Functor("close", f) \in Waiting
    BY <1>3, <1>4, Fields
  <2> QED BY <1>1, <1>4, <1>7, <2>1, <2>2 DEF Closing, Queued
<1> QED BY <1>5, <1>7, <1>8, <1>9, <1>10

LEMMA DestructSafe ==
    ASSUME TypeOK, Turns, Safe, clean, Destruct
    PROVE  Safe'
<1> USE NoFdIsNone DEF Safe
<1>1. /\ client = "alive" /\ client' = "gone" /\ ~Held
      /\ connection' = NoFd /\ sock' = NoFd /\ channel' = NoFd
      /\ UNCHANGED <<phase, batch, conn, table, state, callback, subject>>
  BY DEF Destruct, userVars
<1>2. \A q \in Waiting : q.name # "reset"
  <2>1. Reset \notin Waiting
    BY <1>1 DEF Held, Captured, Queued, Reset
  <2> QED BY <2>1, ResetIsOne
<1>3. channel # NoFd => sock # NoFd
  BY <1>2, Fields DEF Attempt, Queued
<1>4. connection # NoFd => conn[connection] # "none" /\ connection \in Fds
  BY DEF Connections, TypeOK
<1>5. \A f \in Fds : conn[f] = "open" => connection = f
  BY <1>1 DEF Connections
<1>6. \A f \in Fds : epoll[f] = "channel" => f = sock
  BY DEF Kernel
<1>7. \A f \in Fds : epoll'[f] = IF f = sock THEN "none" ELSE epoll[f]
  BY <1>6 DEF Destruct, Without, ChannelFreed
<1>8. Kernel'
  <2>1. \A f \in Fds : conn[f] = "open" => f # sock
    BY DEF Attempt
  <2> QED BY <1>1, <1>6, <1>7, <2>1 DEF Kernel
<1>9. \/ connection = NoFd /\ queue' = queue
      \/ connection = NoFd /\ queue' = Append(queue, Functor("delete", channel))
      \/ connection # NoFd /\ queue' = Append(queue, Functor("close", connection))
  BY DEF Destruct
<1>10. /\ Order'
       /\ \A q \in Waiting : q \in Waiting'
       /\ \A q \in Waiting' : \/ q \in Waiting
                              \/ q = Functor("delete", channel)
                              \/ q = Functor("close", connection) /\ connection # NoFd
       /\ connection # NoFd => Functor("close", connection) \in Waiting'
  <2>0. Functor("delete", channel) \in AllFunctors /\ Functor("close", connection) \in AllFunctors
    BY FunctorsTyped DEF FunctorNames, TypeOK
  <2>1. CASE connection = NoFd /\ queue' = queue
    BY <1>1, <2>1, OrderSame, SameOpened
  <2>2. CASE connection = NoFd /\ queue' = Append(queue, Functor("delete", channel))
    <3>1. Order'
      BY <1>1, <2>0, <2>2, Fields, OrderPush, SameOpened DEF Clash
    <3>2. Waiting' = Waiting \union {Functor("delete", channel)}
      BY <1>1, <2>0, <2>2, Push
    <3> QED BY <2>2, <3>1, <3>2
  <2>3. CASE connection # NoFd /\ queue' = Append(queue, Functor("close", connection))
    <3>1. Order'
      <4>1. \A q \in Waiting : ~Clash(Opened, q, Functor("close", connection))
        BY Fields DEF Clash, QueueFits
      <4> QED BY <1>1, <2>0, <2>3, <4>1, OrderPush, SameOpened
    <3>2. Waiting' = Waiting \union {Functor("close", connection)}
      BY <1>1, <2>0, <2>3, Push
    <3> QED BY <2>3, <3>1, <3>2
  <2> QED BY <1>9, <2>1, <2>2, <2>3
<1>11. QueueFits'
  <2> SUFFICES ASSUME NEW q \in Waiting'
               PROVE  /\ q.name \in {"start", "reset"} => q.fd = NoFd
                      /\ q.name # "reset"
                      /\ q.name = "close" => q.fd # NoFd /\ conn[q.fd] # "none"
                      /\ q.name = "destroyed" => q.fd # NoFd /\ conn[q.fd] = "closed"
    BY <1>1 DEF QueueFits
  <2>1. CASE q \in Waiting
    BY <1>2, <2>1 DEF QueueFits
  <2>2. CASE q = Functor("delete", channel)
    BY <2>2, Fields
  <2>3. CASE q = Functor("close", connection) /\ connection # NoFd
    BY <1>4, <2>3, Fields
  <2> QED BY <1>10, <2>1, <2>2, <2>3
<1>12. Attempt'
  BY <1>1 DEF Attempt
<1>13. Connections'
  BY <1>1, <1>5, <1>10 DEF Connections, Queued
<1>14. Closing'
  BY <1>1, <1>10 DEF Closing, Queued
<1>15. ActiveFits'
  <2>1. CASE active' = active
    BY <1>1, <2>1 DEF ActiveFits
  <2>2. CASE active' # active /\ active' = ActiveFreed /\ channel # NoFd
    <3>1. connection # NoFd
      <4>1. state = "Connecting"
        BY <1>1, <1>3, <2>2 DEF Attempt
      <4> QED BY <2>2, <4>1 DEF Destruct
    <3>2. \A a \in active : a[2] # "channel" /\ a[2] # "freed"
      BY <1>1, <3>1 DEF ActiveFits
    <3>3. \A a \in active' : a[2] # "freed"
      BY <2>2, <3>2 DEF ActiveFreed
    <3> QED BY <1>1, <3>3 DEF ActiveFits
  <2>3. active' = active \/ (active' = ActiveFreed /\ channel # NoFd)
    BY DEF Destruct
  <2> QED BY <2>1, <2>2, <2>3
<1>16. NoStaleKeys'
  BY <1>1 DEF NoStaleKeys
<1> QED BY <1>8, <1>10, <1>11, <1>12, <1>13, <1>14, <1>15, <1>16

\* A connection without pointers was closed before.
LEMMA UnreferencedClosed ==
    ASSUME Safe, NEW f \in Fds, DestroyConnection(f)
    PROVE  conn[f] # "open" /\ connection # f /\ \A q \in Waiting :
               q # Functor("close", f) /\ q # Functor("destroyed", f)
<1>1. connection # f /\ ~Queued(Functor("close", f)) /\ ~Queued(Functor("destroyed", f))
  BY DEF DestroyConnection, Referenced, Captured
<1> QED BY <1>1 DEF Safe, Connections, Queued

LEMMA DestroyConnectionSafe ==
    ASSUME TypeOK, Turns, Safe, clean, NEW f \in Fds, DestroyConnection(f)
    PROVE  Safe'
<1> USE NoFdIsNone DEF Safe
<1>1. /\ conn[f] = "closed" /\ connection # f /\ subject # f
      /\ \A q \in Waiting : q # Functor("close", f) /\ q # Functor("destroyed", f)
  BY UnreferencedClosed DEF DestroyConnection, Referenced, TypeOK
<1>2. phase = "functors" /\ (client = "alive" => f \notin table)
  BY <1>1 DEF Closing, Queued
<1>3. active = {} /\ active' = {}
  BY <1>2 DEF Turns, DestroyConnection
<1>4. /\ conn' = [conn EXCEPT ![f] = "none"]
      /\ epoll' = [g \in Fds |-> IF g = f THEN "none" ELSE epoll[g]]
      /\ UNCHANGED <<phase, queue, batch, client, state, sock, channel, connection, table,
                     callback, subject>>
  BY DEF DestroyConnection, Without, userVars, attemptVars
<1>5. conn'[f] = "none" /\ \A g \in Fds : g # f => conn'[g] = conn[g]
  BY <1>4 DEF TypeOK
<1>6. Waiting' = Waiting /\ Order'
  BY <1>4, <1>5, OrderSame DEF Milder, Opened
<1>7. QueueFits'
  <2>1. \A q \in Waiting : q.name \in {"close", "destroyed"} => q.fd # f /\ q.fd \in Fds
    BY <1>1, WaitingTyped DEF QueueFits
  <2> QED BY <1>4, <1>5, <1>6, <2>1 DEF QueueFits
<1>8. Attempt'
  <2>1. sock # NoFd => sock # f /\ sock \in Fds
    BY <1>1 DEF Attempt, TypeOK
  <2> QED BY <1>4, <1>5, <1>6, <2>1 DEF Attempt, Queued
<1>9. Kernel'
  BY <1>4, <1>5 DEF Kernel
<1>10. Connections'
  BY <1>1, <1>4, <1>5, <1>6 DEF Connections, Queued, TypeOK
<1>11. Closing'
  BY <1>4, <1>5, <1>6 DEF Closing, Queued
<1>12. ActiveFits'
  BY <1>3 DEF ActiveFits
<1>13. NoStaleKeys'
  BY <1>2, <1>4 DEF NoStaleKeys, TypeOK
<1> QED BY <1>6, <1>7, <1>8, <1>9, <1>10, <1>11, <1>12, <1>13

-----------------------------------------------------------------------------
(* One retry or one queued start() at a time.                              *)

StartFunctor == Functor("start", NoFd)

\* What start() leaves behind when nothing else may open a socket.
LEMMA StartSingle ==
    ASSUME TypeOK, Safe, Single, client = "alive",
           NEW st \in {state, "Disconnect"}, Start(st, 0),
           channel = NoFd, state # "Connecting", \A f \in Fds : conn[f] # "open",
           UNCHANGED <<conn, isRetry>>, needStart' \in BOOLEAN,
           connection' \in {connection, NoFd},
           connection' # NoFd => conn[connection'] = "closed" /\ ~isRetry,
           callback' # "disconnect" \/ ~isRetry,
           StartFunctor \notin Waiting', Reset \notin Waiting'
    PROVE  Single'
<1> USE NoFdIsNone DEF Safe
<1>0. sock = NoFd /\ ChannelFreed(Without(epoll, sock)) = epoll
  BY NothingToFree DEF Attempt
<1>1. /\ active' = active
      /\ \/ timers' = 0
         \/ timers' = 1 /\ isRetry /\ state' # "Connecting"
  <2>1. CASE ~needStart'
    BY <2>1 DEF Start
  <2>2. CASE needStart'
    <3>1. PICK f \in Free : Begin(f, 0) \/ RetryableError(0) \/ OtherError(st, 0)
      BY <2>2 DEF Start
    <3>2. CASE Begin(f, 0)
      BY <3>2 DEF Begin
    <3>3. CASE RetryableError(0)
      BY <2>2, <3>3 DEF RetryableError, Retried
    <3>4. CASE OtherError(st, 0)
      BY <3>4 DEF OtherError
    <3> QED BY <3>1, <3>2, <3>3, <3>4
  <2> QED BY <2>1, <2>2
<1>2. ~Queued(StartFunctor)' /\ ~Queued(Reset)'
  BY DEF Queued, StartFunctor, Reset
<1>3. \A a \in active' : a[2] = "conn" =>
          conn'[a[1]] # "none" /\ (conn'[a[1]] = "open" => channel' = NoFd)
  <2>1. \A a \in active : a[1] \in Fds
    BY DEF TypeOK
  <2> QED BY <1>1, <2>1 DEF Single
<1>4. timers' > 0 => connection' = NoFd
  BY <1>1
<1> QED BY <1>1, <1>2, <1>3, <1>4 DEF Single, StartFunctor, Reset

\* Steps that leave timers, the attempt and the connections alone
LEMMA SingleKept ==
    ASSUME TypeOK, Safe, Single, client' = client,
           UNCHANGED <<timers, isRetry, state, channel, connection, conn>>,
           active' \subseteq active,
           callback' = "disconnect" => callback = "disconnect",
           Waiting' \ Waiting \subseteq {q \in AllFunctors : q.name \notin {"start", "reset"}},
           recent \/ Ahead => recent' \/ Ahead' \/ ~Queued(Reset)'
    PROVE  Single'
<1>1. /\ Queued(StartFunctor)' => Queued(StartFunctor)
      /\ Queued(Reset)' => Queued(Reset)
  BY Fields DEF Queued, StartFunctor, Reset
<1>2. \A a \in active' : a[2] = "conn" /\ client = "alive" =>
          conn[a[1]] # "none" /\ (conn[a[1]] = "open" => channel = NoFd)
  BY DEF Single
<1> QED BY <1>1, <1>2 DEF Single, StartFunctor, Reset

\* A pop takes no reset away that another one hides.
LEMMA PopAhead ==
    ASSUME TypeOK, Turns, Safe, NEW name, Pops(name), conn' = conn
    PROVE  recent \/ Ahead => recent' \/ Ahead' \/ ~Queued(Reset)'
<1> USE DEF Safe
<1>1. /\ batch # <<>> /\ batch' = Tail(batch) /\ queue' = queue /\ recent' = recent
      /\ Head(batch).name = name
  BY DEF Pops
<1>2. Head(batch) \in Waiting /\ \A q \in Waiting' : ~Clash(Opened, Head(batch), q)
  BY <1>1, Pop, OrderPop, SameOpened
<1>3. CASE name = "reset"
  <2>1. \A q \in Waiting' : q.name # "reset"
    BY <1>1, <1>2, <1>3 DEF Clash
  <2> QED BY <2>1, Fields DEF Queued, Reset
<1>4. CASE name # "reset"
  <2>1. ASSUME NEW i \in DOMAIN batch, batch[i].name = "reset"  PROVE Ahead'
    <3>1. /\ batch \in Seq(AllFunctors) /\ Len(batch) \in Nat /\ Len(batch) > 0
          /\ DOMAIN batch = 1..Len(batch) /\ Head(batch) = batch[1]
      BY <1>1 DEF TypeOK
    <3>2. /\ DOMAIN batch' = 1..(Len(batch) - 1)
          /\ \A j \in 1..(Len(batch) - 1) : batch'[j] = batch[j + 1]
      BY <1>1, <3>1
    <3>3. i # 1
      BY <1>1, <1>4, <2>1, <3>1
    <3>4. i - 1 \in DOMAIN batch' /\ batch'[i - 1] = batch[i]
      BY <3>1, <3>2, <3>3
    <3> QED BY <2>1, <3>4 DEF Ahead
  <2> QED BY <1>1, <2>1 DEF Ahead
<1> QED BY <1>3, <1>4

\* removeChannel() and the end of the attempt
LEMMA AbandonSingle ==
    ASSUME TypeOK, Safe, Single, state = "Connecting", client = "alive",
           state' # "Connecting", RemoveChannel,
           UNCHANGED <<batch, client, channel, connection, conn, callback, isRetry>>,
           active' \subseteq active,
           timers' = 0 \/ (timers' = 1 /\ recent' /\ callback = "none")
    PROVE  Single'
<1> USE NoFdIsNone DEF Safe
<1>1. timers = 0 /\ ~Queued(StartFunctor)
  BY DEF Single, TypeOK, StartFunctor
<1>2. Reset \in AllFunctors
  BY FunctorsTyped DEF Reset, FunctorNames
<1>3. Waiting' = Waiting \union {Reset}
  BY <1>2, Push DEF RemoveChannel, Reset
<1>4. ~Queued(StartFunctor)'
  BY <1>1, <1>3, Fields DEF Queued, StartFunctor, Reset
<1>5. callback = "disconnect" => ~isRetry
  BY DEF Single
<1>6. \A a \in active' : a[2] = "conn" =>
          conn[a[1]] # "none" /\ (conn[a[1]] = "open" => channel = NoFd)
  BY DEF Single
<1>7. /\ timers' > 0 => connection = NoFd
      /\ connection # NoFd => conn[connection] # "open"
  BY DEF Connections
<1> QED BY <1>1, <1>4, <1>5, <1>6, <1>7 DEF Single, StartFunctor

\* handleClose() of the open connection, when no reset waits
LEMMA CloseSingle ==
    ASSUME TypeOK, Safe, Single, NEW f \in Fds, conn[f] = "open", HandleClose(f),
           UNCHANGED <<client, timers, isRetry, state, channel, connection>>,
           active' \subseteq active, Waiting' \subseteq Waiting,
           client = "alive" => channel = NoFd
    PROVE  Single'
<1> USE NoFdIsNone DEF Safe
<1> SUFFICES ASSUME client = "alive"
             PROVE  Single'
  BY DEF Single
<1>1. /\ conn' = [conn EXCEPT ![f] = "closed"]
      /\ connection = f /\ state = "Connected"
  BY DEF HandleClose, Connections
<1>2. timers = 0 /\ ~Queued(StartFunctor)
  BY <1>1 DEF Single, TypeOK, StartFunctor
<1>3. ~Queued(StartFunctor)'
  BY <1>2 DEF Queued
<1>4. \A a \in active' : a[2] = "conn" => conn'[a[1]] # "none"
  <2> SUFFICES ASSUME NEW a \in active', a[2] = "conn"
               PROVE  conn'[a[1]] # "none"
    OBVIOUS
  <2>1. a \in active /\ a[1] \in Fds
    BY DEF TypeOK
  <2>2. conn[a[1]] # "none"
    BY <2>1 DEF Single
  <2> QED BY <1>1, <2>1, <2>2 DEF TypeOK
<1>5. conn'[connection] = "closed"
  BY <1>1 DEF TypeOK
<1> QED BY <1>1, <1>2, <1>3, <1>4, <1>5 DEF Single, StartFunctor

LEMMA ChannelsSingle ==
    ASSUME TypeOK, Turns, Safe, Single, Channels
    PROVE  Single'
<1> USE NoFdIsNone DEF Safe, loopVars, userVars, flagVars, connVars, pollVars, attemptVars
<1>1. ASSUME NEW f \in Fds, ConnectFails(f) \/ ConnectUnwanted(f)
      PROVE  Single'
  <2>1. /\ state = "Connecting" /\ client = "alive" /\ RemoveChannel /\ recent'
        /\ state' = "Disconnect" /\ active' \subseteq active /\ callback = "none"
        /\ UNCHANGED <<batch, client, channel, connection, conn, callback, isRetry>>
        /\ timers' \in {timers, timers + 1}
    BY <1>1 DEF ConnectFails, ConnectUnwanted, HandlesChannel, Retried, OnLoop
  <2>2. timers = 0
    BY <2>1 DEF Single, TypeOK
  <2> QED BY <2>1, <2>2, AbandonSingle
<1>2. ASSUME NEW f \in Fds, ConnectSucceeds(f)
      PROVE  Single'
  <2>1. /\ state = "Connecting" /\ client = "alive" /\ callback' = "connect"
        /\ state' = "Connected" /\ connection' = sock /\ conn' = [conn EXCEPT ![sock] = "open"]
        /\ queue' = Append(queue, Reset) /\ active' \subseteq active
        /\ UNCHANGED <<batch, client, channel, timers>> /\ recent'
    BY <1>2 DEF ConnectSucceeds, HandlesChannel, Reset
  <2>2. timers = 0 /\ ~Queued(StartFunctor) /\ sock \in Fds /\ conn[sock] = "none"
    BY <2>1 DEF Single, Attempt, TypeOK, StartFunctor
  <2>3. ~Queued(StartFunctor)'
    <3>1. Reset \in AllFunctors
      BY FunctorsTyped DEF Reset, FunctorNames
    <3>2. Waiting' = Waiting \union {Reset}
      BY <2>1, <3>1, Push
    <3> QED BY <2>2, <3>2, Fields DEF Queued, StartFunctor, Reset
  <2>4. \A g \in Fds : conn[g] # "open"
    BY <2>1 DEF Connections
  <2>5. \A a \in active' : a[2] = "conn" => conn'[a[1]] \notin {"none", "open"}
    <3> SUFFICES ASSUME NEW a \in active', a[2] = "conn"
                 PROVE  conn'[a[1]] \notin {"none", "open"}
      OBVIOUS
    <3>1. a \in active /\ a[1] \in Fds
      BY <2>1 DEF TypeOK
    <3>2. conn[a[1]] # "none"
      BY <2>1, <3>1 DEF Single
    <3> QED BY <2>1, <2>2, <2>4, <3>1, <3>2 DEF TypeOK
  <2> QED BY <2>1, <2>2, <2>3, <2>5 DEF Single, StartFunctor
<1>3. ASSUME NEW f \in Fds, LateEvent(f)
      PROVE  Single'
  <2>1. /\ active' \subseteq active
        /\ UNCHANGED <<client, timers, isRetry, state, channel, connection, conn, callback,
                       recent, queue, batch>>
    BY <1>3 DEF LateEvent
  <2>2. Waiting' = Waiting /\ (Ahead => Ahead')
    BY <2>1 DEF Waiting, Ahead
  <2> QED BY <2>1, <2>2, SingleKept
<1>4. ASSUME NEW f \in Fds, ConnectionEvent(f)
      PROVE  Single'
  <2>1. /\ active' \subseteq active /\ callback = "none" /\ <<f, "conn">> \in active
        /\ UNCHANGED <<client, timers, isRetry, state, channel, connection, recent, queue, batch>>
        /\ HandleClose(f) \/ UNCHANGED <<conn, callback, subject>>
    BY <1>4 DEF ConnectionEvent, OnLoop
  <2>2. Waiting' = Waiting /\ (Ahead => Ahead')
    BY <2>1 DEF Waiting, Ahead
  <2>3. CASE conn[f] = "open" /\ HandleClose(f)
    <3>1. client = "alive" => channel = NoFd
      BY <2>1, <2>3 DEF Single
    <3> QED BY <2>1, <2>2, <2>3, <3>1, CloseSingle
  <2>4. CASE UNCHANGED <<conn, callback, subject>>
    BY <2>1, <2>2, <2>4, SingleKept
  <2> QED BY <2>1, <2>3, <2>4 DEF HandleClose
<1>5. CASE EndChannels
  <2>1. /\ active = {} /\ active' = active /\ batch = <<>> /\ batch' = queue /\ queue' = <<>>
        /\ UNCHANGED <<client, timers, isRetry, state, channel, connection, conn, callback>>
    BY <1>5 DEF EndChannels, Turns
  <2>2. Waiting' = Waiting
    BY <2>1, Swap
  <2>3. Queued(Reset)' => Ahead'
    <3>1. Queued(Reset)' => \E i \in DOMAIN batch' : batch'[i] = Reset
      BY <2>1 DEF Queued, Waiting
    <3> QED BY <3>1, Fields DEF Ahead, Reset
  <2> QED BY <2>1, <2>2, <2>3, SingleKept
<1> QED BY <1>1, <1>2, <1>3, <1>4, <1>5 DEF Channels

LEMMA FunctorsSingle ==
    ASSUME TypeOK, Turns, Safe, Single, Functors
    PROVE  Single'
<1> USE NoFdIsNone DEF Safe, loopVars, userVars, flagVars, connVars, pollVars, attemptVars
<1>a. ASSUME NEW name, Pops(name)
      PROVE  /\ active = {} /\ callback = "none" /\ Head(batch).name = name
             /\ Head(batch) \in Waiting /\ Waiting' \subseteq Waiting
             /\ Waiting \subseteq Waiting' \union {Head(batch)}
             /\ UNCHANGED <<recent, client, isRetry, connection>>
  BY <1>a, Pop DEF Pops, OnLoop, Turns
<1>1. CASE RunStart
  <2>1. /\ Pops("start") /\ Start(state, timers)
        /\ UNCHANGED <<callback, conn, needStart>>
    BY <1>1 DEF RunStart
  <2> SUFFICES ASSUME client = "alive"
               PROVE  Single'
    BY <1>a, <2>1 DEF Single
  <2>2. Queued(StartFunctor)
    BY <1>a, <2>1, WaitingTyped DEF Queued, QueueFits, StartFunctor
  <2>3. /\ channel = NoFd /\ state # "Connecting" /\ timers = 0
        /\ connection # NoFd => conn[connection] = "closed" /\ ~isRetry
    BY <2>2 DEF Single, StartFunctor, TypeOK
  <2>4. \A f \in Fds : conn[f] # "open"
    BY <2>3 DEF Connections
  <2>5. StartFunctor \notin Waiting'
    <3>1. \A q \in Waiting' : ~Clash(Opened, Head(batch), q)
      BY <2>1, OrderPop, SameOpened DEF Pops
    <3> QED BY <1>a, <2>1, <3>1, Fields DEF Clash, StartFunctor
  <2>6. Reset \notin Waiting'
    BY <1>a, <2>1, <2>3, Fields DEF QueueFits, Reset
  <2>7. connection' = connection /\ isRetry' = isRetry /\ callback' = "none"
        /\ needStart' \in BOOLEAN
    BY <1>a, <2>1 DEF TypeOK
  <2> QED BY <2>1, <2>3, <2>4, <2>5, <2>6, <2>7, StartSingle
<1>2. CASE RunReset
  <2>1. /\ Pops("reset") /\ channel' = NoFd /\ active' = {} /\ callback' = "none"
        /\ UNCHANGED <<timers, state, conn>>
    BY <1>2, <1>a DEF RunReset
  <2>2. ~Queued(Reset)'
    <3>1. \A q \in Waiting' : ~Clash(Opened, Head(batch), q)
      BY <2>1, OrderPop, SameOpened DEF Pops
    <3> QED BY <1>a, <2>1, <3>1, Fields DEF Clash, Queued, Reset
  <2>3. Queued(StartFunctor)' => Queued(StartFunctor)
    BY <1>a, <2>1 DEF Queued
  <2> QED BY <1>a, <2>1, <2>2, <2>3 DEF Single, StartFunctor, Reset
<1>3. CASE RunClose
  <2> DEFINE f == Head(batch).fd
  <2>1. /\ Pops("close") /\ HandleClose(f) /\ active' = active
        /\ UNCHANGED <<timers, state, channel>>
    BY <1>3 DEF RunClose
  <2>2. f \in Fds /\ Head(batch) = Functor("close", f)
    BY <1>a, <2>1, WaitingTyped DEF QueueFits
  <2>b. Pops("close") => \A q \in Waiting' : ~Clash(Opened, Head(batch), q)
    BY <2>1, <2>2, OrderPop, CloseMilder DEF Pops
  <2>3. CASE conn[f] = "open"
    <3>1. f \in Opened /\ Head(batch).name = "close"
      BY <1>a, <2>1, <2>2, <2>3 DEF Opened
    <3>2. \A q \in Waiting' : q.name # "reset"
      BY <2>1, <2>b, <3>1 DEF Clash
    <3>3. Reset \notin Waiting
      BY <1>a, <2>1, <2>2, <3>2, Fields DEF Reset
    <3>4. client = "alive" => state = "Connected" /\ sock = NoFd
      BY <2>2, <2>3 DEF Connections, Attempt
    <3>5. client = "alive" => channel = NoFd
      BY <3>3, <3>4 DEF Attempt, Queued, Reset
    <3> HIDE DEF f
    <3> QED BY <1>a, <2>1, <2>2, <2>3, <3>5, CloseSingle
  <2>4. CASE conn[f] # "open"
    <3>1. UNCHANGED <<conn, callback>>
      BY <2>1, <2>4 DEF HandleClose
    <3>2. recent \/ Ahead => recent' \/ Ahead' \/ ~Queued(Reset)'
      BY <2>1, <3>1, PopAhead
    <3> HIDE DEF f
    <3> QED BY <1>a, <2>1, <3>1, <3>2, SingleKept
  <2> QED BY <2>3, <2>4
<1>4. CASE RunDestroyed
  <2>1. /\ Pops("destroyed") /\ active' = active
        /\ UNCHANGED <<timers, state, channel>>
    BY <1>4 DEF RunDestroyed
  <2>2. conn[Head(batch).fd] = "closed"
    BY <1>a, <2>1 DEF QueueFits
  <2>3. UNCHANGED <<conn, callback>>
    BY <1>4, <2>2 DEF RunDestroyed
  <2>4. recent \/ Ahead => recent' \/ Ahead' \/ ~Queued(Reset)'
    BY <2>1, <2>3, PopAhead
  <2> QED BY <1>a, <2>1, <2>3, <2>4, SingleKept
<1>5. CASE RunDelete
  <2>1. /\ Pops("delete") /\ active' = active
        /\ UNCHANGED <<timers, state, channel, conn, callback>>
    BY <1>5 DEF RunDelete
  <2>2. recent \/ Ahead => recent' \/ Ahead' \/ ~Queued(Reset)'
    BY <2>1, PopAhead
  <2> QED BY <1>a, <2>1, <2>2, SingleKept
<1>6. CASE EndFunctors
  <2>1. /\ active' = active
        /\ UNCHANGED <<client, timers, isRetry, state, channel, connection, conn, callback,
                       recent, queue, batch>>
    BY <1>6 DEF EndFunctors
  <2>2. Waiting' = Waiting /\ (Ahead => Ahead')
    BY <2>1 DEF Waiting, Ahead
  <2> QED BY <2>1, <2>2, SingleKept
<1> QED BY <1>1, <1>2, <1>3, <1>4, <1>5, <1>6 DEF Functors

LEMMA EndsSingle ==
    ASSUME TypeOK, Turns, Safe, Single, Ends
    PROVE  Single'
<1> USE NoFdIsNone DEF Safe, loopVars, userVars, flagVars, connVars, pollVars, attemptVars
<1>1. CASE EndCallback
  <2>1. /\ active' = active /\ callback' = "none"
        /\ UNCHANGED <<client, timers, isRetry, state, channel, connection, conn,
                       recent, queue, batch>>
    BY <1>1 DEF EndCallback, Returns
  <2>2. Waiting' = Waiting /\ (Ahead => Ahead')
    BY <2>1 DEF Waiting, Ahead
  <2> QED BY <2>1, <2>2, SingleKept
<1>2. CASE RemoveConnect
  <2> DEFINE x == Functor("destroyed", connection)
  <2>1. /\ client = "alive" /\ callback = "disconnect" /\ callback' = "none"
        /\ queue' = Append(queue, x) /\ connection' = NoFd
        /\ UNCHANGED <<recent, batch, client, conn, needStart, isRetry>>
    BY <1>2 DEF RemoveConnect, Returns
  <2>2. conn[connection] = "closed"
    BY <2>1 DEF Connections
  <2>3. x \in AllFunctors /\ x.name = "destroyed" /\ x.fd = connection
    BY FunctorsTyped, Fields DEF FunctorNames, TypeOK
  <2> HIDE DEF x
  <2>4. Waiting' = Waiting \union {x}
    BY <2>1, <2>3, Push
  <2>5. CASE isRetry /\ needStart
    <3>1. Start("Disconnect", timers)
      BY <1>2, <2>5 DEF RemoveConnect
    <3>2. /\ channel = NoFd /\ state # "Connecting" /\ timers = 0 /\ ~Queued(StartFunctor)
      BY <2>1, <2>2, <2>5 DEF Single, StartFunctor, TypeOK, Connections
    <3>3. \A f \in Fds : conn[f] # "open"
      BY <2>1, <2>2 DEF Connections
    <3>4. StartFunctor \notin Waiting' /\ Reset \notin Waiting'
      BY <2>3, <2>4, <3>2, Fields DEF Queued, StartFunctor, Reset, QueueFits
    <3>5. needStart' \in BOOLEAN /\ connection' = NoFd /\ callback' # "disconnect"
      BY <2>1 DEF TypeOK
    <3> QED BY <2>1, <3>1, <3>2, <3>3, <3>4, <3>5, StartSingle
  <2>6. CASE ~(isRetry /\ needStart)
    <3>1. UNCHANGED <<active, timers, state, channel>>
      BY <1>2, <2>6 DEF RemoveConnect
    <3>2. /\ Queued(StartFunctor)' => Queued(StartFunctor)
          /\ Queued(Reset)' => Queued(Reset)
      BY <2>3, <2>4, Fields DEF Queued, StartFunctor, Reset
    <3>3. recent \/ Ahead => recent' \/ Ahead'
      BY <2>1 DEF Ahead
    <3> QED BY <2>1, <3>1, <3>2, <3>3 DEF Single, StartFunctor, Reset
  <2> QED BY <2>5, <2>6
<1>3. CASE Destruct
  BY <1>3 DEF Destruct, Single
<1>4. ASSUME NEW f \in Fds, DestroyConnection(f)
      PROVE  Single'
  <2>1. /\ connection # f /\ conn' = [conn EXCEPT ![f] = "none"]
        /\ UNCHANGED <<client, timers, isRetry, state, channel, connection, callback,
                       recent, queue, batch>>
    BY <1>4, UnreferencedClosed DEF DestroyConnection
  <2>2. Waiting' = Waiting /\ (Ahead => Ahead')
    BY <2>1 DEF Waiting, Ahead
  <2>3. active' = {}
    <3>1. /\ conn[f] = "closed" /\ \A q \in Waiting : q # Functor("close", f) /\ q # Functor("destroyed", f)
      BY <1>4, UnreferencedClosed DEF DestroyConnection, TypeOK
    <3>2. phase = "functors"
      BY <2>1, <3>1 DEF Closing, Queued
    <3> QED BY <1>4, <3>2 DEF Turns, DestroyConnection
  <2>4. connection # NoFd => conn'[connection] = conn[connection]
    BY <2>1 DEF TypeOK
  <2>5. Queued(StartFunctor)' = Queued(StartFunctor) /\ Queued(Reset)' = Queued(Reset)
    BY <2>2 DEF Queued
  <2> QED BY <2>1, <2>2, <2>3, <2>4, <2>5 DEF Single, StartFunctor, Reset
<1> QED BY <1>1, <1>2, <1>3, <1>4 DEF Ends

LEMMA PollSingle ==
    ASSUME TypeOK, Turns, Safe, Single, Poll
    PROVE  Single'
<1> USE NoFdIsNone DEF Safe, loopVars, userVars, flagVars, connVars, pollVars, attemptVars
<1>1. /\ batch = <<>> /\ callback = "none"
      /\ active' \subseteq {<<f, epoll[f]>> : f \in {g \in Fds : epoll[g] # "none"}}
      /\ UNCHANGED <<client, timers, isRetry, state, channel, connection, conn, callback,
                     recent, queue, batch>>
  BY DEF Poll, OnLoop
<1>2. Queued(StartFunctor)' = Queued(StartFunctor) /\ Queued(Reset)' = Queued(Reset)
  BY <1>1 DEF Queued, Waiting
<1>3. ~Ahead /\ recent' = recent /\ (Ahead => Ahead')
  BY <1>1 DEF Ahead
<1>4. ~recent
  BY DEF Turns, Poll
<1>5. ASSUME NEW f \in Fds, epoll[f] = "conn", client = "alive"
      PROVE  conn[f] # "none" /\ (conn[f] = "open" => channel = NoFd)
  <2>1. conn[f] # "none"
    BY <1>5 DEF Kernel
  <2>2. ASSUME conn[f] = "open"  PROVE channel = NoFd
    <3>1. connection = f /\ state = "Connected" /\ sock = NoFd
      BY <1>5, <2>2 DEF Connections, Attempt
    <3>2. ~Queued(Reset)
      BY <1>3, <1>4, <1>5, <2>2, <3>1 DEF Single, Reset
    <3> QED BY <3>1, <3>2 DEF Attempt, Reset
  <2> QED BY <2>1, <2>2
<1>6. \A a \in active' : a[2] = "conn" /\ client = "alive" =>
          conn[a[1]] # "none" /\ (conn[a[1]] = "open" => channel = NoFd)
  BY <1>1, <1>5
<1> QED BY <1>1, <1>2, <1>3, <1>6 DEF Single, StartFunctor, Reset

LEMMA UserSingle ==
    ASSUME TypeOK, Turns, Safe, Single, clean',
           \/ OtherCallback \/ PostConnect
           \/ Connect \/ StopConnecting \/ Disconnect \/ SetRetry \/ CloseConnection \/ Drop
    PROVE  Single'
<1> USE NoFdIsNone DEF Safe, loopVars, userVars, flagVars, connVars, pollVars, attemptVars
<1>a. ASSUME Idle
      PROVE  /\ state # "Connecting" /\ channel = NoFd /\ timers = 0 /\ ~Queued(StartFunctor)
             /\ connection # NoFd => conn[connection] = "closed" /\ ~isRetry
             /\ \A f \in Fds : client = "alive" => conn[f] # "open"
             /\ callback # "disconnect" \/ ~isRetry
             /\ Reset \notin Waiting
  <2>1. /\ state # "Connecting" /\ channel = NoFd /\ timers = 0 /\ ~Queued(StartFunctor)
        /\ connection # NoFd => conn[connection] # "open"
        /\ callback # "disconnect" \/ ~isRetry
    BY <1>a DEF Idle, Underway, StartFunctor, TypeOK
  <2>2. Reset \notin Waiting
    BY <2>1, Fields DEF QueueFits, Reset
  <2> QED BY <2>1, <2>2 DEF Connections
<1>b. ASSUME UNCHANGED <<client, timers, isRetry, state, channel, connection, conn,
                         recent, queue, batch, active>>,
             callback' = "disconnect" => callback = "disconnect"
      PROVE  Single'
  <2>1. Waiting' = Waiting /\ (Ahead => Ahead')
    BY <1>b DEF Waiting, Ahead
  <2> QED BY <1>b, <2>1, SingleKept
<1>1. CASE OtherCallback
  BY <1>1, <1>b DEF OtherCallback
<1>2. CASE PostConnect
  <2>1. /\ Idle /\ queue' = Append(queue, StartFunctor)
        /\ UNCHANGED <<client, timers, isRetry, state, channel, connection, conn, callback,
                       recent, batch, active>>
    BY <1>2 DEF PostConnect, StartFunctor
  <2>2. StartFunctor \in AllFunctors
    BY FunctorsTyped DEF FunctorNames, StartFunctor
  <2>3. Waiting' = Waiting \union {StartFunctor}
    BY <2>1, <2>2, Push
  <2>4. ~Queued(Reset)'
    BY <1>a, <2>1, <2>3, Fields DEF Queued, StartFunctor, Reset
  <2> QED BY <1>a, <2>1, <2>4 DEF Single, StartFunctor, Reset
<1>3. CASE Connect
  <2>1. /\ Idle /\ Start(state, timers) /\ needStart' \in BOOLEAN
        /\ UNCHANGED <<queue, batch, client, isRetry, connection, conn, callback>>
    BY <1>3 DEF Connect, User
  <2>2. client = "alive" /\ Waiting' = Waiting
    BY <1>3, <2>1 DEF Connect, User, Turns, TypeOK, Waiting
  <2>3. StartFunctor \notin Waiting' /\ Reset \notin Waiting'
    BY <1>a, <2>1, <2>2 DEF Queued
  <2> QED BY <1>a, <2>1, <2>2, <2>3, StartSingle
<1>4. CASE StopConnecting
  <2>1. /\ client = "alive"
        /\ UNCHANGED <<recent, batch, callback, client, connection, conn, active, channel,
                       isRetry, timers>>
    BY <1>4 DEF StopConnecting, User, Turns, TypeOK
  <2>2. CASE state = "Connecting"
    <3>1. RemoveChannel /\ state' = "Disconnect"
      BY <1>4, <2>2 DEF StopConnecting
    <3>2. timers = 0
      BY <2>1, <2>2 DEF Single, TypeOK
    <3> QED BY <2>1, <2>2, <3>1, <3>2, AbandonSingle
  <2>3. CASE state # "Connecting"
    <3>1. UNCHANGED <<queue, state>>
      BY <1>4, <2>3 DEF StopConnecting
    <3> QED BY <1>b, <2>1, <3>1
  <2> QED BY <2>2, <2>3
<1>5. CASE Disconnect \/ Drop
  BY <1>5, <1>b DEF Disconnect, Drop, User
<1>6. CASE SetRetry
  <2>1. /\ UNCHANGED <<client, timers, state, channel, connection, conn, callback,
                       recent, queue, batch, active>>
        /\ callback = "disconnect" => ~Underway
    BY <1>6 DEF SetRetry, User
  <2>2. Waiting' = Waiting /\ (Ahead => Ahead')
    BY <2>1 DEF Waiting, Ahead
  <2>3. CASE callback = "disconnect"
    <3>1. /\ timers = 0 /\ ~Queued(StartFunctor) /\ state # "Connecting" /\ channel = NoFd
          /\ ~(connection # NoFd /\ conn[connection] = "open")
      BY <2>1, <2>3 DEF Underway, StartFunctor, TypeOK
    <3>2. ~Queued(StartFunctor)'
      BY <2>2, <3>1 DEF Queued
    <3> QED BY <2>1, <3>1, <3>2 DEF Single, StartFunctor
  <2>4. CASE callback # "disconnect"
    <3>1. connection # NoFd => conn[connection] = "open"
      BY <2>4 DEF Connections
    <3>2. Queued(StartFunctor)' = Queued(StartFunctor) /\ Queued(Reset)' = Queued(Reset)
      BY <2>2 DEF Queued
    <3> QED BY <2>1, <2>2, <2>4, <3>1, <3>2 DEF Single, StartFunctor, Reset
  <2> QED BY <2>3, <2>4
<1>7. CASE CloseConnection
  <2>1. /\ queue' = Append(queue, Functor("close", connection))
        /\ UNCHANGED <<client, timers, isRetry, state, channel, connection, conn, callback,
                       recent, batch, active>>
    BY <1>7 DEF CloseConnection, User
  <2>2. Functor("close", connection) \in AllFunctors
    BY FunctorsTyped DEF FunctorNames, TypeOK
  <2>3. Waiting' = Waiting \union {Functor("close", connection)}
    BY <2>1, <2>2, Push
  <2>4. Waiting' \ Waiting \subseteq {q \in AllFunctors : q.name \notin {"start", "reset"}}
    BY <2>2, <2>3, Fields
  <2>5. Ahead => Ahead'
    BY <2>1 DEF Ahead
  <2> QED BY <2>1, <2>4, <2>5, SingleKept
<1> QED BY <1>1, <1>2, <1>3, <1>4, <1>5, <1>6, <1>7

-----------------------------------------------------------------------------
(* All steps together.                                                     *)

LEMMA ChannelsSafe ==
    ASSUME TypeOK, Turns, Safe, clean, Channels
    PROVE  Safe'
<1> USE DEF loopVars, userVars, flagVars, connVars, pollVars, attemptVars
<1>1. ASSUME NEW f \in Fds, ConnectFails(f) \/ ConnectUnwanted(f)
      PROVE  Safe'
  <2>1. /\ state = "Connecting" /\ client = "alive" /\ RemoveChannel
        /\ state' = "Disconnect" /\ sock' = NoFd /\ active' \subseteq active
        /\ UNCHANGED <<phase, batch, client, channel, connection, conn, callback, subject>>
    BY <1>1 DEF ConnectFails, ConnectUnwanted, HandlesChannel, Retried
  <2> QED BY <2>1, AbandonSafe
<1>2. ASSUME NEW f \in Fds, LateEvent(f)
      PROVE  Safe'
  <2>1. /\ active' \subseteq active
        /\ UNCHANGED <<phase, queue, batch, client, state, sock, channel, connection, conn, table,
                       epoll, subject, callback>>
    BY <1>2 DEF LateEvent
  <2>2. Waiting' = Waiting /\ Order'
    BY <2>1, OrderSame, SameOpened DEF Safe
  <2> QED BY <2>1, <2>2, KeptSafe
<1>3. ASSUME NEW f \in Fds, ConnectionEvent(f)
      PROVE  Safe'
  <2>1. /\ active' \subseteq active /\ callback = "none"
        /\ UNCHANGED <<phase, queue, batch, client, state, sock, channel, connection, table, epoll>>
        /\ HandleClose(f) \/ UNCHANGED <<conn, callback, subject>>
    BY <1>3 DEF ConnectionEvent, OnLoop
  <2>2. Waiting' = Waiting /\ Order'
    BY <2>1, OrderSame, CloseMilder, SameOpened DEF Safe
  <2>3. CASE conn[f] = "open" /\ HandleClose(f)
    BY <2>1, <2>2, <2>3, CloseSafe
  <2>4. CASE UNCHANGED <<conn, callback, subject>>
    BY <2>1, <2>2, <2>4, KeptSafe
  <2> QED BY <2>1, <2>3, <2>4 DEF HandleClose
<1> QED BY <1>1, <1>2, <1>3, SucceedSafe, TurnSafe DEF Channels

LEMMA FunctorsSafe ==
    ASSUME TypeOK, Turns, Safe, Single, clean, Functors
    PROVE  Safe'
<1> USE DEF loopVars, userVars, flagVars, connVars, pollVars, attemptVars
<1>a. ASSUME NEW name, Pops(name)
      PROVE  /\ phase = "functors" /\ callback = "none"
             /\ Head(batch).name = name /\ Head(batch) \in Waiting
             /\ Waiting' \subseteq Waiting /\ Waiting \subseteq Waiting' \union {Head(batch)}
             /\ Milder => Order'
             /\ UNCHANGED <<phase, queue, client, connection>>
  BY <1>a, Pop, OrderPop DEF Pops, OnLoop, Safe
<1>1. CASE RunStart
  <2>1. /\ Pops("start") /\ Start(state, timers)
        /\ UNCHANGED <<callback, subject, conn, needStart>>
    BY <1>1 DEF RunStart
  <2>a. Order'
    BY <1>a, <2>1, SameOpened
  <2>2. CASE client = "alive"
    <3>1. Queued(Functor("start", NoFd))
      BY <1>a, <2>1, WaitingTyped DEF Queued, Safe, QueueFits
    <3>2. channel = NoFd /\ (connection # NoFd => conn[connection] = "closed")
      BY <2>2, <3>1 DEF Single
    <3> QED BY <1>a, <2>1, <2>a, <2>2, <3>2, AttemptStepSafe
  <2>3. CASE client # "alive"
    <3>1. ~needStart'
      BY <2>1, <2>3 DEF Turns, TypeOK
    <3>2. UNCHANGED <<state, sock, channel, table, epoll, active>>
      BY <2>1, <3>1 DEF Start
    <3> QED BY <1>a, <2>1, <2>a, <3>2, KeptSafe
  <2> QED BY <2>2, <2>3
<1>2. CASE RunClose
  <2> DEFINE f == Head(batch).fd
  <2>1. /\ Pops("close") /\ HandleClose(f)
        /\ UNCHANGED <<active, state, sock, channel, table, epoll>>
    BY <1>2 DEF RunClose
  <2>2. f \in Fds /\ Head(batch) = Functor("close", f)
    BY <1>a, <2>1, WaitingTyped DEF Safe, QueueFits
  <2> HIDE DEF f
  <2>a. Order'
    BY <1>a, <2>1, <2>2, CloseMilder
  <2>3. CASE conn[f] = "open"
    BY <1>a, <2>1, <2>2, <2>3, <2>a, CloseSafe
  <2>4. CASE conn[f] # "open"
    <3>1. UNCHANGED <<conn, callback, subject>>
      BY <2>1, <2>4 DEF HandleClose
    <3> QED BY <1>a, <2>1, <2>2, <2>4, <2>a, <3>1, Fields, KeptSafe
  <2> QED BY <2>3, <2>4
<1>3. CASE EndFunctors
  <2>1. UNCHANGED <<phase, queue, batch, active, client, state, sock, channel, connection, conn,
                    table, epoll, subject, callback>>
    BY <1>3 DEF EndFunctors
  <2>2. Waiting' = Waiting /\ Order'
    BY <2>1, OrderSame, SameOpened DEF Safe
  <2> QED BY <2>1, <2>2, KeptSafe
<1> QED BY <1>1, <1>2, <1>3, RunResetSafe, RunDestroyedSafe, RunDeleteSafe DEF Functors

LEMMA UserSafe ==
    ASSUME TypeOK, Turns, Safe, clean, clean',
           \/ OtherCallback \/ PostConnect
           \/ Connect \/ StopConnecting \/ Disconnect \/ SetRetry \/ CloseConnection \/ Drop
    PROVE  Safe'
<1> USE DEF loopVars, userVars, flagVars, connVars, pollVars, attemptVars
<1>a. ASSUME owned  PROVE client = "alive"
  BY <1>a DEF Turns, TypeOK
<1>1. ASSUME UNCHANGED <<phase, queue, batch, active, client, state, sock, channel, connection, conn,
                         table, epoll, subject>>,
             callback' = callback \/ (callback = "none" /\ callback' = "other")
      PROVE  Safe'
  <2>1. Waiting' = Waiting /\ Order'
    BY <1>1, OrderSame, SameOpened DEF Safe
  <2> QED BY <1>1, <2>1, KeptSafe
<1>2. ASSUME UNCHANGED <<phase, batch, active, client, state, sock, channel, connection, conn,
                         table, epoll, subject, callback>>,
             NEW x \in AllFunctors, queue' = Append(queue, x),
             \/ x = Functor("start", NoFd) /\ ~Queued(Functor("start", NoFd))
             \/ x = Functor("close", connection) /\ connection # NoFd /\ conn[connection] = "open"
      PROVE  Safe'
  <2>1. Waiting' = Waiting \union {x}
    BY <1>2, Push
  <2>2. Order'
    <3>1. ~Queued(Functor("start", NoFd)) => \A q \in Waiting : q.name # "start"
      BY WaitingTyped DEF Queued, Safe, QueueFits
    <3>2. \A q \in Waiting : ~Clash(Opened, q, x)
      BY <1>2, <3>1, Fields DEF Clash, Safe, QueueFits
    <3> QED BY <1>2, <3>2, OrderPush, SameOpened DEF Safe
  <2> QED BY <1>2, <2>1, <2>2, KeptSafe
<1>3. CASE OtherCallback
  BY <1>1, <1>3 DEF OtherCallback, OnLoop
<1>4. CASE PostConnect
  <2>1. Functor("start", NoFd) \in AllFunctors
    BY FunctorsTyped DEF FunctorNames
  <2>2. ~Queued(Functor("start", NoFd))
    BY <1>4 DEF PostConnect, Idle, Underway
  <2> QED BY <1>2, <1>4, <2>1, <2>2 DEF PostConnect
<1>5. CASE Connect
  <2>1. /\ Start(state, timers) /\ owned
        /\ UNCHANGED <<phase, queue, batch, client, connection, conn, callback, subject>>
    BY <1>5 DEF Connect, User
  <2>2. Waiting' = Waiting /\ Order'
    BY <2>1, OrderSame, SameOpened DEF Safe
  <2>3. Idle
    BY <1>5 DEF Connect
  <2>4. channel = NoFd /\ (connection # NoFd => conn[connection] = "closed")
    BY <2>3 DEF Idle, Underway, Safe, Connections
  <2> QED BY <1>a, <2>1, <2>2, <2>4, AttemptStepSafe
<1>6. CASE StopConnecting
  <2>1. /\ owned
        /\ UNCHANGED <<phase, batch, callback, subject, client, connection, conn, active, channel>>
    BY <1>6 DEF StopConnecting, User
  <2>2. CASE state = "Connecting"
    <3>1. RemoveChannel /\ state' = "Disconnect" /\ sock' = NoFd
      BY <1>6, <2>2 DEF StopConnecting
    <3> QED BY <1>a, <2>1, <2>2, <3>1, AbandonSafe
  <2>3. CASE state # "Connecting"
    <3>1. UNCHANGED <<queue, table, epoll, state, sock>>
      BY <1>6, <2>3 DEF StopConnecting
    <3> QED BY <1>1, <2>1, <3>1
  <2> QED BY <2>2, <2>3
<1>7. CASE Disconnect \/ SetRetry \/ Drop
  <2>1. UNCHANGED <<phase, queue, batch, active, client, state, sock, channel, connection, conn,
                    table, epoll, subject, callback>>
    BY <1>7 DEF Disconnect, SetRetry, Drop, User
  <2> QED BY <1>1, <2>1
<1>8. CASE CloseConnection
  <2>1. Functor("close", connection) \in AllFunctors
    BY FunctorsTyped DEF FunctorNames, TypeOK
  <2>2. /\ UNCHANGED <<phase, batch, active, client, state, sock, channel, connection, conn,
                       table, epoll, subject, callback>>
        /\ queue' = Append(queue, Functor("close", connection))
        /\ connection # NoFd /\ conn[connection] = "open"
    BY <1>8 DEF CloseConnection, User
  <2> QED BY <1>2, <2>1, <2>2
<1> QED BY <1>3, <1>4, <1>5, <1>6, <1>7, <1>8

\* Once connect() was called on a client that was not idle, that stays so.
LEMMA StayClean == [Next]_vars /\ clean' => clean
<1> SUFFICES ASSUME [Next]_vars, clean'  PROVE clean
  OBVIOUS
<1> USE DEF attemptVars
<1>2. CASE Channels \/ Functors \/ Poll \/ RetryTimer
  BY <1>2 DEF Channels, Functors, ConnectFails, ConnectUnwanted, ConnectSucceeds, HandlesChannel,
       LateEvent, ConnectionEvent, EndChannels, RunStart, RunReset, RunClose, RunDestroyed,
       RunDelete, EndFunctors, Pops, Poll, RetryTimer, OnLoop, Settled
<1>3. CASE Ends
  BY <1>3 DEF Ends, EndCallback, RemoveConnect, Returns, Destruct, DestroyConnection, Settled
<1>4. CASE OtherCallback \/ PostConnect
           \/ Connect \/ StopConnecting \/ Disconnect \/ SetRetry \/ CloseConnection \/ Drop
  BY <1>4 DEF OtherCallback, PostConnect, Connect, StopConnecting, Disconnect, SetRetry,
       CloseConnection, Drop, User, OnLoop, Settled
<1>5. CASE UNCHANGED vars
  BY <1>5 DEF vars
<1> QED BY <1>2, <1>3, <1>4, <1>5 DEF Next

\* A retry that is due finds channel_ empty.
LEMMA TimerAlone ==
    ASSUME TypeOK, Turns, Safe, Single, RetryTimer, clean', client = "alive"
    PROVE  /\ channel = NoFd /\ timers = 1 /\ ~Queued(Functor("start", NoFd))
           /\ state # "Connecting"
           /\ connection # NoFd => conn[connection] = "closed" /\ ~isRetry
<1>1. timers > 0 /\ ~recent /\ phase = "channels"
  BY DEF RetryTimer
<1>2. ~Ahead
  <2>1. batch = <<>>
    BY <1>1 DEF Turns
  <2> QED BY <2>1 DEF Ahead
<1>3. ~Queued(Functor("reset", NoFd)) /\ state # "Connecting"
  BY <1>1, <1>2 DEF Single
<1>4. channel = NoFd
  BY <1>3 DEF Safe, Attempt
<1>5. timers = 1
  BY <1>1 DEF Single, TypeOK
<1> QED BY <1>1, <1>3, <1>4, <1>5 DEF Single

LEMMA StepSafe ==
    ASSUME TypeOK, Turns, clean => Safe /\ Single, [Next]_vars, clean'
    PROVE  Safe' /\ Single'
<1> USE DEF loopVars, userVars, flagVars, connVars, pollVars, attemptVars
<1>0. clean /\ Safe /\ Single
  BY StayClean
<1>1. CASE RetryTimer
  <2>1. UNCHANGED <<phase, queue, batch, client, connection, conn, callback, subject>>
    BY <1>1 DEF RetryTimer
  <2>2. Waiting' = Waiting /\ Order'
    BY <1>0, <2>1, OrderSame, SameOpened DEF Safe
  <2>3. CASE client = "alive"
    <3>1. Start(state, timers - 1)
      BY <1>1, <2>3 DEF RetryTimer
    <3>2. channel = NoFd /\ (connection # NoFd => conn[connection] = "closed")
      BY <1>0, <1>1, <2>3, TimerAlone
    <3>3. Safe'
      BY <1>0, <2>1, <2>2, <2>3, <3>1, <3>2, AttemptStepSafe
    <3>4. Single'
      <4>1. /\ timers - 1 = 0 /\ state # "Connecting" /\ ~Queued(StartFunctor)
            /\ connection # NoFd => ~isRetry
        BY <1>0, <1>1, <2>3, TimerAlone DEF StartFunctor
      <4>2. \A f \in Fds : conn[f] # "open"
        BY <2>3, <3>2, <1>0, NoFdIsNone DEF Safe, Connections
      <4>3. StartFunctor \notin Waiting' /\ Reset \notin Waiting'
        BY <1>0, <2>2, <3>2, <4>1, Fields DEF Queued, Safe, QueueFits, Reset
      <4>4. needStart' \in BOOLEAN /\ isRetry' = isRetry /\ callback' = "none"
        BY <1>1, <2>3 DEF RetryTimer, OnLoop, TypeOK
      <4> QED BY <1>0, <2>1, <2>3, <3>1, <3>2, <4>1, <4>2, <4>3, <4>4, StartSingle
    <3> QED BY <3>3, <3>4
  <2>4. CASE client # "alive"
    <3>1. UNCHANGED <<active, table, epoll, state, sock, channel>>
      BY <1>1, <2>4 DEF RetryTimer
    <3>2. Safe'
      BY <1>0, <2>1, <2>2, <3>1, KeptSafe
    <3> QED BY <2>1, <2>4, <3>2 DEF Single
  <2> QED BY <2>3, <2>4
<1>2. CASE Ends
  BY <1>0, <1>2, EndCallbackSafe, RemoveConnectSafe, DestructSafe, DestroyConnectionSafe,
     EndsSingle DEF Ends
<1>3. CASE UNCHANGED vars
  <2>1. UNCHANGED <<phase, queue, batch, active, client, state, sock, channel, connection, conn,
                    table, epoll, subject, callback>>
    BY <1>3 DEF vars
  <2>2. Waiting' = Waiting /\ Order'
    BY <1>0, <2>1, OrderSame, SameOpened DEF Safe
  <2>3. (Ahead => Ahead') /\ UNCHANGED <<timers, isRetry, recent>>
    BY <1>3 DEF vars, Ahead
  <2>4. Single'
    BY <1>0, <2>1, <2>2, <2>3, SingleKept
  <2> QED BY <1>0, <2>1, <2>2, <2>4, KeptSafe
<1>4. CASE Poll
  BY <1>0, <1>4, TurnSafe, PollSingle
<1> QED
  BY <1>0, <1>1, <1>2, <1>3, <1>4, ChannelsSafe, ChannelsSingle, FunctorsSafe, FunctorsSingle,
     UserSafe, UserSingle DEF Next

LEMMA InitIInv == Init => IInv
<1> SUFFICES ASSUME Init  PROVE IInv
  OBVIOUS
<1>1. TypeOK /\ Turns
  BY InitTypes
<1>2. Waiting = {} /\ Order
  BY DEF Init, Waiting, Order
<1>3. \A f \in Fds : conn[f] = "none" /\ epoll[f] = "none"
  BY DEF Init
<1>4. QueueFits /\ Attempt /\ Kernel /\ Connections /\ Closing /\ ActiveFits /\ NoStaleKeys
  BY <1>2, <1>3 DEF Init, QueueFits, Attempt, Kernel, Connections, Closing, ActiveFits, NoStaleKeys
<1>5. Single
  BY <1>2 DEF Init, Single, Queued, NoFd
<1> QED BY <1>1, <1>2, <1>4, <1>5 DEF IInv

LEMMA StepIInv == IInv /\ [Next]_vars => IInv'
<1> SUFFICES ASSUME IInv, [Next]_vars  PROVE IInv'
  OBVIOUS
<1>1. TypeOK /\ Turns /\ (clean => Safe /\ Single)
  BY DEF IInv, Safe
<1>2. TypeOK' /\ Turns' /\ (clean' => Safe' /\ Single')
  BY <1>1, StepTypes, StepSafe
<1> QED BY <1>2 DEF IInv, Safe

(***************************************************************************)
(* IInv is inductive: as long as connect() is only called on idle clients, *)
(* the functors queued, the attempt, the connections, the keys of          *)
(* channels_ and the pointers that the kernel and the active list hold fit *)
(* together, and at most one retry or queued start() is pending, which     *)
(* finds channel_ empty and no connection open (Single).                   *)
(***************************************************************************)
THEOREM Invariance == Spec => []IInv
BY InitIInv, StepIInv, PTL DEF Spec

(***************************************************************************)
(* The kernel watches the socket of every attempt and of every open        *)
(* connection through the Channel that handles it, and no deleted Channel  *)
(* is reachable from the kernel or from the active list.                   *)
(***************************************************************************)
THEOREM SocketsAreWatched == Spec => []Watched
<1>1. IInv => Watched
  BY DEF IInv, Watched, Attempt, Kernel, ActiveFits
<1> QED BY <1>1, Invariance, PTL

(***************************************************************************)
(* While the client exists and its connect() was only called when it was   *)
(* idle, channels_ keeps no key of a descriptor that is not registered:    *)
(* enabling writing on a new socket registers it and never fails as a      *)
(* modification.                                                           *)
(***************************************************************************)
THEOREM KeysAreFresh == Spec => []NoStaleKeys
<1>1. IInv => NoStaleKeys
  BY DEF IInv, NoStaleKeys
<1> QED BY <1>1, Invariance, PTL

(***************************************************************************)
(* As long as connect() is only called on idle clients there is one        *)
(* connection at a time, and none while something is being connected:      *)
(* retries, queued starts and restarts after a disconnect never overlap.   *)
(***************************************************************************)
THEOREM OnlyOneConnection == Spec => []OneConnection
<1>1. IInv => OneConnection
  <2> SUFFICES ASSUME TypeOK, Turns, Safe, NEW f \in Fds, conn[f] = "open"
               PROVE  /\ connection = f \/ (client = "gone" /\ Queued(Functor("close", f)))
                      /\ client = "alive" => state = "Connected" /\ sock = NoFd
    BY DEF IInv, Safe, OneConnection
  <2> QED BY NoFdIsNone DEF Safe, Connections, Attempt
<1> QED BY <1>1, Invariance, PTL

(***************************************************************************)
(* No open connection vanishes without its disconnect callback, whatever   *)
(* the order of closes, stops and the destructor.                          *)
(***************************************************************************)
THEOREM EndsAreHeard == Spec => NoSilentEnd
<1>1. ASSUME IInv, [Next]_vars, clean', NEW f \in Fds, conn[f] = "open"
      PROVE  conn'[f] # "none"
  <2>1. TypeOK /\ Safe
    BY <1>1, StayClean DEF IInv, Safe
  <2>2. \A g \in Fds : DestroyConnection(g) => g # f
    BY <1>1, <2>1, UnreferencedClosed
  <2>3. \A g \in Fds : HandleClose(g) => conn'[f] # "none"
    BY <1>1, <2>1 DEF HandleClose, TypeOK
  <2>4. CASE \E g \in Fds : DestroyConnection(g)
    BY <1>1, <2>1, <2>2, <2>4 DEF DestroyConnection, TypeOK
  <2>5. CASE Channels
    <3>1. ASSUME NEW g \in Fds, ConnectSucceeds(g)  PROVE conn'[f] # "none"
      BY <1>1, <2>1, <3>1 DEF ConnectSucceeds, TypeOK
    <3> QED BY <1>1, <2>3, <2>5, <3>1 DEF Channels, ConnectFails, ConnectUnwanted, LateEvent,
              ConnectionEvent, EndChannels, connVars
  <2>6. CASE Functors
    <3>1. CASE RunClose
      <4>1. Head(batch).fd \in Fds
        <5>1. Head(batch) \in Waiting /\ Head(batch).name = "close"
          BY <2>1, <3>1, Pop DEF RunClose, Pops
        <5> QED BY <2>1, <5>1, WaitingTyped DEF Safe, QueueFits
      <4> QED BY <2>3, <3>1, <4>1 DEF RunClose
    <3>2. CASE RunDestroyed
      BY <1>1, <2>1, <3>2 DEF RunDestroyed, TypeOK
    <3> QED BY <1>1, <2>6, <3>1, <3>2 DEF Functors, RunStart, RunReset, RunDelete,
              EndFunctors, connVars
  <2>7. CASE EndCallback \/ RemoveConnect \/ Destruct
    BY <1>1, <2>7 DEF EndCallback, RemoveConnect, Returns, Destruct
  <2>8. CASE Poll \/ RetryTimer \/ OtherCallback \/ PostConnect
    BY <1>1, <2>8 DEF Poll, RetryTimer, OtherCallback, PostConnect, connVars
  <2>9. CASE Connect \/ StopConnecting \/ Disconnect \/ SetRetry \/ CloseConnection \/ Drop
    BY <1>1, <2>9 DEF Connect, StopConnecting, Disconnect, SetRetry, CloseConnection, Drop, User,
         connVars
  <2>10. CASE UNCHANGED vars
    BY <1>1, <2>10 DEF vars, connVars
  <2> QED BY <1>1, <2>4, <2>5, <2>6, <2>7, <2>8, <2>9, <2>10 DEF Next, Ends
<1>2. IInv /\ [Next]_vars =>
          [clean' => \A f \in Fds : conn[f] = "open" => conn'[f] # "none"]_vars
  BY <1>1
<1> QED BY <1>2, Invariance, PTL DEF Spec, NoSilentEnd
=============================================================================
