-------------------------------- MODULE Sockets --------------------------------
(***************************************************************************)
(* qinmo::net::SocketTCP, SocketUDP, TcpListen and TcpConnect: objects     *)
(* that own or only view a descriptor, through creation, attachment, moves *)
(* in either direction, close() and destruction, and the states that bind, *)
(* listen, accept and connect go through.                                  *)
(*                                                                         *)
(* One thread uses the objects.  An object that does not exist is one that *)
(* is empty.  A new object returned by a call is moved into a variable of  *)
(* the caller, which may hold another one.  recv and send change nothing   *)
(* here.  On Linux a close(2) that fails has freed the descriptor all the  *)
(* same, but the object keeps its number, and closes it again later, when  *)
(* it may be another's: such an execution is not followed further (clean). *)
(***************************************************************************)
EXTENDS Integers

CONSTANTS
    Tcps,           \* objects of class SocketTCP
    Connects,       \* of class TcpConnect
    Listeners,      \* of class TcpListen
    Udps,           \* of class SocketUDP
    Fds,            \* descriptors
    None            \* g_SocketTypeEmpty

ASSUME ObjectsAssumption ==
    /\ Tcps \cap (Connects \union Listeners \union Udps) = {}
    /\ Connects \cap (Listeners \union Udps) = {}
    /\ Listeners \cap Udps = {}
ASSUME NoneAssumption == None \notin Fds

Objects == Tcps \union Connects \union Listeners \union Udps

VARIABLES
    fd,         \* sockfd_ of each object
    owns,       \* owns_ of each object
    state,      \* state_ of each listener
    kind,       \* the kernel: the type of each descriptor, "none" if it is free
    phase,      \* the kernel: how far the socket of each descriptor has come
    raw,        \* open descriptors that user code closes itself
    clean       \* no close(2) has failed

kernelVars == <<kind, phase>>
vars == <<fd, owns, state, kernelVars, raw, clean>>

Created == 0
Bound == 1
Listening == 2

TypeOK ==
    /\ fd \in [Objects -> Fds \union {None}]
    /\ owns \in [Objects -> BOOLEAN]
    /\ state \in [Listeners -> {Created, Bound, Listening}]
    /\ kind \in [Fds -> {"none", "tcp", "udp"}]
    /\ phase \in [Fds -> {"new", "bound", "listening", "connected"}]
    /\ raw \subseteq Fds
    /\ clean \in BOOLEAN

Init ==
    /\ fd = [o \in Objects |-> None]
    /\ owns = [o \in Objects |-> FALSE]
    /\ state = [l \in Listeners |-> Created]
    /\ kind = [d \in Fds |-> "none"]
    /\ phase = [d \in Fds |-> "new"]
    /\ raw = {}
    /\ clean = TRUE

KindOf(o) == IF o \in Udps THEN "udp" ELSE "tcp"
Open(d) == kind[d] # "none"

-----------------------------------------------------------------------------
(* close() and moves.                                                      *)

\* close() reaches close(2).
Closes(o) == owns[o] /\ fd[o] # None

\* close(2), if it is reached, succeeds or fails.
CloseReturns(o, ok) == clean' = (ok \/ ~Closes(o))

\* After close() of o, unless it had nothing to close, and with a new socket,
\* unless d is None: descriptor d of kind k in phase p.
Kernel(o, d, k, p) ==
    LET freed(e) == Closes(o) /\ e = fd[o] IN
    /\ kind' = [e \in Fds |-> IF e = d THEN k ELSE IF freed(e) THEN "none" ELSE kind[e]]
    /\ phase' = [e \in Fds |-> IF e = d THEN p ELSE IF freed(e) THEN "new" ELSE phase[e]]

NoNewSocket(o) == Kernel(o, None, "none", "new")

Close(o) ==
    /\ Closes(o)
    /\ \E ok \in BOOLEAN :
           /\ CloseReturns(o, ok)
           /\ fd' = IF ok THEN [fd EXCEPT ![o] = None] ELSE fd
           /\ owns' = IF ok THEN [owns EXCEPT ![o] = FALSE] ELSE owns
    /\ NoNewSocket(o)
    /\ UNCHANGED <<state, raw>>

\* o is closed and becomes (d, own); a listener s with it.
Becomes(o, d, own, s) ==
    /\ \E ok \in BOOLEAN : CloseReturns(o, ok)
    /\ fd' = [fd EXCEPT ![o] = d]
    /\ owns' = [owns EXCEPT ![o] = own]
    /\ state' = IF o \in Listeners THEN [state EXCEPT ![o] = s] ELSE state

\* As if the destructor did not close.
Abandon(o) ==
    /\ fd' = [fd EXCEPT ![o] = None]
    /\ owns' = [owns EXCEPT ![o] = FALSE]
    /\ UNCHANGED <<state, kernelVars, raw, clean>>

\* The destructor; the same as an empty object moved into o, which stands for
\* an address that is not valid, a descriptor of another kind, a failed
\* accept(), and a failed connectRaw(), which has closed its own descriptor.
Destroy(o) ==
    /\ Becomes(o, None, FALSE, Created)
    /\ NoNewSocket(o)
    /\ UNCHANGED raw

SameClass(o, p) ==
    \E class \in {Tcps, Connects, Listeners, Udps} : {o, p} \subseteq class

\* As if the state stayed behind.
MoveWithoutState(o, p) ==
    /\ SameClass(o, p)
    /\ \E ok \in BOOLEAN : CloseReturns(o, ok)
    /\ fd' = [fd EXCEPT ![o] = fd[p], ![p] = None]
    /\ owns' = [owns EXCEPT ![o] = owns[p], ![p] = FALSE]
    /\ NoNewSocket(o)
    /\ UNCHANGED <<state, raw>>

\* o = std::move(p), also with p the same object.
Move(o, p) ==
    /\ SameClass(o, p)
    /\ \E ok \in BOOLEAN : CloseReturns(o, ok)
    /\ fd' = [fd EXCEPT ![o] = fd[p], ![p] = None]
    /\ owns' = [owns EXCEPT ![o] = owns[p], ![p] = FALSE]
    /\ state' = IF o \in Listeners THEN [state EXCEPT ![o] = state[p]] ELSE state
    /\ NoNewSocket(o)
    /\ UNCHANGED raw

-----------------------------------------------------------------------------
(* New objects, moved into o.                                              *)

\* createRaw(); d is None when socket(2) fails: the object owns nothing.
Create(o, d) ==
    /\ o \notin Connects
    /\ d # None => ~Open(d)
    /\ Becomes(o, d, TRUE, Created)
    /\ Kernel(o, d, KindOf(o), "new")
    /\ UNCHANGED raw

Attach(o, d) ==
    /\ o \in Tcps \union Udps
    /\ d \in raw /\ kind[d] = KindOf(o)
    /\ Becomes(o, d, TRUE, Created)
    /\ NoNewSocket(o)
    /\ raw' = raw \ {d}

\* A view of an open descriptor; o may own it itself, and then closes it.
Borrow(o, d) ==
    /\ o \in Tcps \union Udps
    /\ Open(d) /\ kind[d] = KindOf(o)
    /\ Becomes(o, d, FALSE, Created)
    /\ NoNewSocket(o)
    /\ UNCHANGED raw

\* accept() of l, into o; a SocketTCP does not look at its state.
Accept(l, o, d) ==
    /\ \/ l \in Tcps /\ o \in Tcps
       \/ l \in Listeners /\ o \in Connects /\ state[l] = Listening
    /\ fd[l] # None /\ kind[fd[l]] = "tcp" /\ phase[fd[l]] = "listening"
    /\ ~Open(d)
    /\ Becomes(o, d, TRUE, Created)
    /\ Kernel(o, d, "tcp", "connected")
    /\ UNCHANGED raw

ConnectRaw(o, d) ==
    /\ o \in Connects
    /\ ~Open(d)
    /\ Becomes(o, d, TRUE, Created)
    /\ Kernel(o, d, "tcp", "connected")
    /\ UNCHANGED raw

-----------------------------------------------------------------------------
(* The socket goes on, whatever is returned; otherwise nothing changes.    *)

Goes(o, from, to) ==
    /\ fd[o] # None /\ Open(fd[o]) /\ phase[fd[o]] \in from
    /\ phase' = [phase EXCEPT ![fd[o]] = to]
    /\ UNCHANGED <<fd, owns, kind, raw, clean>>

Bind(o) ==
    /\ o \in Tcps \union Udps
    /\ Goes(o, {"new"}, "bound")
    /\ UNCHANGED state

BindListener(l) ==
    /\ state[l] = Created
    /\ Goes(l, {"new"}, "bound")
    /\ state' = [state EXCEPT ![l] = Bound]

\* listen(2) binds a socket that is not bound, and may be repeated.
Listen(o) ==
    /\ o \in Tcps
    /\ Goes(o, {"new", "bound", "listening"}, "listening")
    /\ kind[fd[o]] = "tcp"
    /\ UNCHANGED state

ListenListener(l) ==
    /\ state[l] = Bound
    /\ Goes(l, {"new", "bound", "listening"}, "listening")
    /\ state' = [state EXCEPT ![l] = Listening]

\* A datagram socket connects again and again: the flag that would stop it is
\* never set.
Connect(o) ==
    /\ \/ o \in Tcps /\ Goes(o, {"new", "bound"}, "connected")
       \/ o \in Udps /\ Goes(o, {"new", "bound", "connected"}, "connected")
    /\ UNCHANGED state

\* User code opens and closes descriptors of its own.
UserOpens(d, k, p) ==
    /\ ~Open(d)
    /\ kind' = [kind EXCEPT ![d] = k]
    /\ phase' = [phase EXCEPT ![d] = p]
    /\ raw' = raw \union {d}
    /\ UNCHANGED <<fd, owns, state, clean>>

UserCloses(d) ==
    /\ d \in raw
    /\ kind' = [kind EXCEPT ![d] = "none"]
    /\ phase' = [phase EXCEPT ![d] = "new"]
    /\ raw' = raw \ {d}
    /\ UNCHANGED <<fd, owns, state, clean>>

-----------------------------------------------------------------------------
Next ==
    /\ clean
    /\ \/ \E o \in Objects :
              \/ Close(o) \/ Destroy(o)
              \/ Bind(o) \/ Listen(o) \/ Connect(o)
              \/ \E p \in Objects : Move(o, p)
              \/ \E d \in Fds \union {None} : Create(o, d)
              \/ \E d \in Fds : Attach(o, d) \/ Borrow(o, d) \/ ConnectRaw(o, d)
              \/ \E l \in Objects, d \in Fds : Accept(l, o, d)
       \/ \E l \in Listeners : BindListener(l) \/ ListenListener(l)
       \/ \E d \in Fds :
              \/ UserCloses(d)
              \/ \E k \in {"tcp", "udp"}, p \in {"new", "bound", "connected"} : UserOpens(d, k, p)

Spec == Init /\ [][Next]_vars

-----------------------------------------------------------------------------
(* Properties.                                                             *)

Owners(d) == {o \in Objects : owns[o] /\ fd[o] = d}

\* As long as no close(2) fails, every open descriptor has exactly one owner,
\* an object or user code, whatever is created, attached, viewed, moved, also
\* onto itself, closed and destroyed; and what an object owns is open.  (A
\* second owner would close a number that is already somebody else's.)
OwnedOnce ==
    clean =>
        /\ \A o \in Objects : Closes(o) => Open(fd[o])
        /\ \A o, p \in Objects : Closes(o) /\ owns[p] /\ fd[p] = fd[o] => p = o
        /\ \A d \in Fds : Open(d) => (d \in raw <=> Owners(d) = {})

\* A listener's state is never ahead of its socket, although close() does not
\* reset it and a move leaves it behind in the object that has become empty.
NeverAhead ==
    clean => \A l \in Listeners :
        fd[l] # None =>
            /\ state[l] = Bound => phase[fd[l]] # "new"
            /\ state[l] = Listening => phase[fd[l]] = "listening"

\* The strengthening that every step preserves: a listener has no view, what
\* it holds it owns; and what user code closes itself is open.
ListenersOwn == clean => \A l \in Listeners : fd[l] # None => owns[l]
RawOpen == clean => \A d \in raw : Open(d)

IInv == TypeOK /\ OwnedOnce /\ RawOpen /\ NeverAhead /\ ListenersOwn
===============================================================================
