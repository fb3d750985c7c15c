------------------------------ MODULE Connection ------------------------------
(***************************************************************************)
(* qinmo::net::ReactorTcpConnection with its Channel: one established      *)
(* connection in the loop it belongs to, from connectEstablished() to      *)
(* connectDestroyed() and to the release of the last shared_ptr.           *)
(*                                                                         *)
(* All callbacks run on the loop's thread, and so do the calls of send().  *)
(* Queued functors follow FunctorQueue: in order, each once, some time     *)
(* later.  The kernel's socket takes any part of what is written to it.    *)
(* The program is assumed to ignore SIGPIPE.                               *)
(***************************************************************************)
EXTENDS Integers, Sequences

CONSTANTS
    MaxBytes,       \* bound: how many bytes are sent
    MaxInput,       \* bound: how many pieces of data the peer sends
    MaxQueue,       \* bound: user code does not add to a longer queue
    WaterMark       \* waterMark_

ASSUME BoundsAssumption ==
    /\ MaxBytes \in Nat
    /\ MaxInput \in Nat
    /\ MaxQueue \in Nat
ASSUME WaterMarkAssumption == WaterMark \in Nat \ {0}

VARIABLES
    pc,             \* "loop": outside Channel::handle; "close", "error",
                    \* "read", "write": the test that comes next in handle();
                    \* "threw": an exception has left EventLoop::loop()
    callback,       \* the user code that is running, if any
    revents,        \* revents_ while it is used, from poll to the end of handle()
    state,          \* state_
    reading,        \* kReadEvent is in events_
    writing,        \* kWriteEvent is in events_
    registered,     \* the poller holds the address of the channel
    out,            \* readable bytes of outputBuffer_
    queue,          \* functors of this connection queued in the loop
    owner,          \* who made it; "gone": a client that was dropped
    owned,          \* the owner holds its shared_ptr
    held,           \* user code has kept a shared_ptr
    peer,           \* what the peer has done
    inbox,          \* pieces of data in the socket's receive buffer
    input,          \* how many pieces the peer has sent
    accepted,       \* how many bytes send() has taken; byte i is the i-th
    delivered,      \* the bytes in the order in which the kernel got them
    disconnects,    \* how often the disconnect callback was called
    warned          \* the high-water mark was announced since it was crossed,
                    \* or a PacketBuffer has crossed it

channelVars == <<reading, writing, registered>>
refVars == <<owner, owned, held>>
peerVars == <<peer, inbox, input>>
outVars == <<out, accepted, delivered, warned>>
vars == <<pc, callback, revents, state, channelVars, queue, refVars, peerVars,
          outVars, disconnects>>

\* "destroyed" is the disconnect callback when connectDestroyed() calls it.
Callbacks == {"connect", "message", "complete", "high", "disconnect", "destroyed"}
FunctorNames == {"established", "complete", "high", "close", "destroyed"}

TypeOK ==
    /\ pc \in {"loop", "close", "error", "read", "write", "threw"}
    /\ callback \in Callbacks \union {"none", "other"}
    /\ revents \subseteq {"in", "out", "err", "hup"}
    /\ state \in {"Connecting", "Connected", "Disconnecting", "Disconnected"}
    /\ reading \in BOOLEAN
    /\ writing \in BOOLEAN
    /\ registered \in BOOLEAN
    /\ out \in Seq(Nat)
    /\ queue \in Seq(FunctorNames)
    /\ owner \in {"server", "client", "gone"}
    /\ owned \in BOOLEAN
    /\ held \in BOOLEAN
    /\ peer \in {"open", "fin", "reset"}
    /\ inbox \in Nat
    /\ input \in 0..MaxInput
    /\ accepted \in 0..MaxBytes
    /\ delivered \in Seq(Nat)
    /\ disconnects \in Nat
    /\ warned \in BOOLEAN

\* newConnect() has made the object and passed connectEstablished on.
Init ==
    /\ pc = "loop"
    /\ callback = "none"
    /\ revents = {}
    /\ state = "Connecting"
    /\ reading = FALSE
    /\ writing = FALSE
    /\ registered = FALSE
    /\ out = <<>>
    /\ queue = <<"established">>
    /\ owner \in {"server", "client"}
    /\ owned = TRUE
    /\ held = FALSE
    /\ peer = "open"
    /\ inbox = 0
    /\ input = 0
    /\ accepted = 0
    /\ delivered = <<>>
    /\ disconnects = 0
    /\ warned = FALSE

\* Somebody holds a shared_ptr: the owner, user code, a functor, a callback
\* of the connection, or handle() after tie_.lock().
Alive ==
    \/ owned \/ held \/ queue # <<>>
    \/ callback \in Callbacks
    \/ pc \in {"error", "read", "write"}

-----------------------------------------------------------------------------
(* handleClose() up to the disconnect callback; handleError() ends in it.  *)

CloseAgain ==
    /\ state' = "Disconnected"
    /\ reading' = FALSE
    /\ writing' = FALSE
    /\ callback' = "disconnect"
    /\ disconnects' = disconnects + 1

HandleClose ==
    IF state = "Disconnected"
      THEN UNCHANGED <<state, reading, writing, callback, disconnects>>
      ELSE /\ state' = "Disconnected"
           /\ reading' = FALSE
           /\ writing' = FALSE
           /\ callback' = "disconnect"
           /\ disconnects' = disconnects + 1

\* The callback returns.  After the disconnect callback closeFunc_ queues the
\* removal; a client forgets the connection at once, a server when it is
\* removed.  With the client gone closeFunc_ finds its weak_ptr expired.
EndCallbackForgets ==
    /\ callback # "none"
    /\ callback' = "none"
    /\ owned' = (owned /\ (callback = "disconnect" => owner = "server"))
    /\ UNCHANGED <<pc, revents, state, channelVars, queue, owner, held, peerVars, outVars,
                   disconnects>>

EndCallbackRemoves ==
    /\ callback # "none"
    /\ callback' = "none"
    /\ registered' = (registered /\ callback # "disconnect")
    /\ UNCHANGED <<pc, revents, state, reading, writing, queue, refVars, peerVars,
                   outVars, disconnects>>

Removes == callback = "disconnect" /\ owner # "gone"

EndCallback ==
    /\ callback # "none"
    /\ callback' = "none"
    /\ queue' = IF Removes THEN Append(queue, "destroyed") ELSE queue
    /\ owned' = (owned /\ (Removes => owner = "server"))
    /\ UNCHANGED <<pc, revents, state, channelVars, owner, held, peerVars, outVars,
                   disconnects>>

-----------------------------------------------------------------------------
(* The functors.                                                           *)

Pops(functor) ==
    /\ pc = "loop" /\ callback = "none"
    /\ queue # <<>> /\ Head(queue) = functor
    /\ queue' = Tail(queue)
    /\ UNCHANGED <<pc, revents, owner, held, peerVars, outVars>>

ConnectEstablished ==
    /\ Pops("established")
    /\ state' = "Connected"
    /\ reading' = TRUE
    /\ registered' = TRUE
    /\ callback' = "connect"
    /\ UNCHANGED <<writing, owned, disconnects>>

CallUser(functor) ==
    /\ Pops(functor)
    /\ callback' = functor
    /\ UNCHANGED <<state, channelVars, owned, disconnects>>

RunClose ==
    /\ Pops("close")
    /\ HandleClose
    /\ UNCHANGED <<registered, owned>>

\* removeConnect's functor: the registry entry goes, then connectDestroyed().
ConnectDestroyed ==
    /\ Pops("destroyed")
    /\ owned' = FALSE
    /\ registered' = FALSE
    /\ IF state = "Connected"
         THEN /\ state' = "Disconnected"
              /\ reading' = FALSE
              /\ writing' = FALSE
              /\ callback' = "destroyed"
              /\ disconnects' = disconnects + 1
         ELSE UNCHANGED <<state, reading, writing, callback, disconnects>>

RunFunctor ==
    \/ ConnectEstablished
    \/ CallUser("complete") \/ CallUser("high")
    \/ RunClose \/ ConnectDestroyed

-----------------------------------------------------------------------------
(* Poll and Channel::handle().                                             *)

\* Level-triggered: what there is to read is reported until it is read; a
\* spurious report happens.  Errors and hang-ups are reported whatever events_
\* asks for.
Reported == IF reading /\ (inbox > 0 \/ peer # "open") THEN {"in"} ELSE {}

Possible ==
    (IF reading THEN {"in"} ELSE {})
        \union (IF writing THEN {"out"} ELSE {})
        \union (IF peer = "reset" THEN {"err", "hup"} ELSE {})

\* A destroyed connection has closed its descriptor: the kernel reports it no
\* more, although channels_ may still hold the address.
Poll ==
    /\ pc = "loop" /\ callback = "none"
    /\ registered /\ Alive
    /\ \E events \in SUBSET Possible :
           /\ events # {} /\ Reported \subseteq events
           /\ revents' = events
    /\ pc' = "close"
    /\ UNCHANGED <<callback, state, channelVars, queue, refVars, peerVars, outVars,
                   disconnects>>

\* tie_.lock() succeeds.  tie_ is a member of the Channel, freed with it: an
\* execution that handles a freed Channel is not followed (PointerAlive).
HandleGoes(from, to) ==
    /\ pc = from /\ callback = "none"
    /\ Alive
    /\ pc' = to
    /\ revents' = IF to = "loop" THEN {} ELSE revents
    /\ UNCHANGED <<registered, refVars, peer, input, accepted>>

Skip(from, to) ==
    /\ HandleGoes(from, to)
    /\ UNCHANGED <<callback, state, reading, writing, queue, inbox, out, delivered,
                   warned, disconnects>>

CloseEvent ==
    /\ HandleGoes("close", "error")
    /\ "hup" \in revents /\ "in" \notin revents
    /\ HandleClose
    /\ UNCHANGED <<queue, inbox, out, delivered, warned>>

NoCloseEvent == Skip("close", "error") /\ ("hup" \notin revents \/ "in" \in revents)

ErrorEvent ==
    /\ HandleGoes("error", "read")
    /\ "err" \in revents
    /\ HandleClose
    /\ UNCHANGED <<queue, inbox, out, delivered, warned>>

NoErrorEvent == Skip("error", "read") /\ "err" \notin revents

ReadData ==
    /\ HandleGoes("read", "write")
    /\ "in" \in revents
    /\ inbox > 0
    /\ inbox' \in 0..(inbox - 1)
    /\ callback' = "message"
    /\ UNCHANGED <<state, reading, writing, queue, out, delivered, warned, disconnects>>

\* read() returned 0 or an error other than EAGAIN and EINTR.
ReadEnds ==
    /\ HandleGoes("read", "write")
    /\ "in" \in revents
    /\ peer = "reset" \/ (peer = "fin" /\ inbox = 0)
    /\ HandleClose
    /\ UNCHANGED <<queue, inbox, out, delivered, warned>>

\* No event, or read() failed with EAGAIN or EINTR.
NoReadEvent ==
    /\ Skip("read", "write")
    /\ "in" \notin revents \/ (inbox = 0 /\ peer = "open")

WriteEvent ==
    /\ HandleGoes("write", "loop")
    /\ "out" \in revents
    /\ writing

\* The first n bytes of the buffer go to the kernel.
Flushed(n) ==
    /\ delivered' = delivered \o SubSeq(out, 1, n)
    /\ out' = SubSeq(out, n + 1, Len(out))
    /\ warned' = (warned /\ Len(out) - n >= WaterMark)

WriteAll ==
    /\ WriteEvent
    /\ Flushed(Len(out))
    /\ writing' = FALSE
    /\ queue' = Append(queue, "complete")
    /\ UNCHANGED <<callback, state, reading, inbox, disconnects>>

\* write() ended in EAGAIN.
WritePartStops ==
    /\ WriteEvent
    /\ \E n \in 0..(Len(out) - 1) : Flushed(n)
    /\ writing' = FALSE
    /\ UNCHANGED <<callback, state, reading, queue, inbox, disconnects>>

WritePart ==
    /\ WriteEvent
    /\ \E n \in 0..(Len(out) - 1) : Flushed(n)
    /\ UNCHANGED <<callback, state, reading, writing, queue, inbox, disconnects>>

WriteFails ==
    /\ WriteEvent
    /\ peer = "reset"
    /\ \E n \in 0..(Len(out) - 1) : Flushed(n)
    /\ HandleClose
    /\ UNCHANGED <<queue, inbox>>

NoWriteEvent == Skip("write", "loop") /\ ("out" \notin revents \/ ~writing)

Handle ==
    \/ CloseEvent \/ NoCloseEvent
    \/ ErrorEvent \/ NoErrorEvent
    \/ ReadData \/ ReadEnds \/ NoReadEvent
    \/ WriteAll \/ WritePart \/ WriteFails \/ NoWriteEvent

-----------------------------------------------------------------------------
(* User code.  A call in a state that makes it return at once is a         *)
(* stuttering step and is left out.                                        *)

\* A timer of the connection, or another channel's code that has kept its
\* shared_ptr; that channel may come between poll and handle().
OtherCallback ==
    /\ pc \in {"loop", "close"} /\ callback = "none"
    /\ Alive
    /\ callback' = "other"
    /\ UNCHANGED <<pc, revents, state, channelVars, queue, refVars, peerVars,
                   outVars, disconnects>>

Keep ==
    /\ callback # "none"
    /\ held' = TRUE
    /\ UNCHANGED <<pc, callback, revents, state, channelVars, queue, owner, owned, peerVars,
                   outVars, disconnects>>

Release ==
    /\ held' = FALSE
    /\ UNCHANGED <<pc, callback, revents, state, channelVars, queue, owner, owned, peerVars,
                   outVars, disconnects>>

NewBytes(k) == [i \in 1..k |-> accepted + i]

Sends(k) ==
    /\ callback # "none"
    /\ state = "Connected"
    /\ Len(queue) < MaxQueue
    /\ accepted + k <= MaxBytes
    /\ accepted' = accepted + k
    /\ UNCHANGED <<pc, callback, revents, state, reading, registered, refVars,
                   peerVars, disconnects>>

AlwaysDirectly == TRUE
MayWriteDirectly == ~writing /\ out = <<>>

CrossesLate(bytes) == Len(out) < WaterMark /\ WaterMark < Len(out) + Len(bytes)
Crosses(bytes) == Len(out) < WaterMark /\ WaterMark <= Len(out) + Len(bytes)

\* The end of send(): announce the high-water mark, append, enableWrite().
BufferUnwatched(bytes) ==
    /\ queue' = IF Crosses(bytes) THEN Append(queue, "high") ELSE queue
    /\ warned' = (warned \/ Crosses(bytes))
    /\ out' = out \o bytes
    /\ UNCHANGED writing

Buffer(bytes) ==
    /\ queue' = IF Crosses(bytes) THEN Append(queue, "high") ELSE queue
    /\ warned' = (warned \/ Crosses(bytes))
    /\ out' = out \o bytes
    /\ writing' = TRUE

SendAll(k) ==
    /\ k > 0
    /\ Sends(k)
    /\ MayWriteDirectly
    /\ delivered' = delivered \o NewBytes(k)
    /\ queue' = Append(queue, "complete")
    /\ UNCHANGED <<writing, out, warned>>

SendPart(k) ==
    /\ Sends(k)
    /\ MayWriteDirectly
    /\ \E n \in 1..(k - 1) :
           /\ delivered' = delivered \o SubSeq(NewBytes(k), 1, n)
           /\ Buffer(SubSeq(NewBytes(k), n + 1, k))

\* Something is buffered already; or the string is empty, nothing is sent
\* and errno is an old one.
SendLater(k) ==
    /\ Sends(k)
    /\ k = 0 \/ ~MayWriteDirectly
    /\ Buffer(NewBytes(k))
    /\ UNCHANGED delivered

\* ::send() failed: -1 is taken for a length, the new size is one too many,
\* and substr() throws.  User code does not catch it.
SendThrows(k) ==
    /\ callback # "none"
    /\ state = "Connected"
    /\ MayWriteDirectly
    /\ queue' = IF WaterMark <= k + 1 THEN Append(queue, "high") ELSE queue
    /\ pc' = "threw"
    /\ callback' = "none"
    /\ UNCHANGED <<revents, state, channelVars, refVars, peerVars, outVars,
                   disconnects>>

\* send(PacketBuffer&) always appends, and announces nothing.
SendPacket(k) ==
    /\ Sends(k)
    /\ out' = out \o NewBytes(k)
    /\ writing' = TRUE
    /\ warned' = (warned \/ Crosses(NewBytes(k)))
    /\ UNCHANGED <<queue, delivered>>

\* The test that makes shutdown() return
ShutdownReturns == state # "Connected" \/ state # "Connecting"

Shutdown ==
    /\ pc # "threw"
    /\ held \/ callback # "none"
    /\ state' = IF ShutdownReturns THEN state ELSE "Disconnecting"
    /\ UNCHANGED <<pc, callback, revents, channelVars, queue, refVars, peerVars,
                   outVars, disconnects>>

\* close(), from any thread
Close ==
    /\ pc # "threw"
    /\ held \/ callback # "none"
    /\ state \notin {"Connecting", "Disconnected"}
    /\ Len(queue) < MaxQueue
    /\ queue' = Append(queue, "close")
    /\ UNCHANGED <<pc, callback, revents, state, channelVars, refVars, peerVars,
                   outVars, disconnects>>

\* The destructor of the client, on any thread.  The handler that calls the
\* connect callback holds the client.
DropClient ==
    /\ pc # "threw"
    /\ owner = "client" /\ state # "Connecting" /\ callback # "connect"
    /\ owner' = "gone"
    /\ owned' = FALSE
    /\ queue' = IF owned THEN Append(queue, "close") ELSE queue
    /\ UNCHANGED <<pc, callback, revents, state, channelVars, held, peerVars, outVars,
                   disconnects>>

UserStep ==
    \/ OtherCallback \/ Keep \/ Release \/ DropClient
    \/ \E k \in 0..MaxBytes : SendAll(k) \/ SendPart(k) \/ SendLater(k) \/ SendPacket(k)
                            \/ SendThrows(k)
    \/ Shutdown \/ Close

-----------------------------------------------------------------------------
(* The peer.                                                               *)

PeerSends ==
    /\ peer = "open"
    /\ input < MaxInput
    /\ input' = input + 1
    /\ inbox' = inbox + 1
    /\ UNCHANGED <<pc, callback, revents, state, channelVars, queue, refVars, peer,
                   outVars, disconnects>>

PeerEnds(how) ==
    /\ peer # "reset" /\ peer # how
    /\ peer' = how
    /\ UNCHANGED <<pc, callback, revents, state, channelVars, queue, refVars, inbox,
                   input, outVars, disconnects>>

PeerStep == PeerSends \/ PeerEnds("fin") \/ PeerEnds("reset")

-----------------------------------------------------------------------------
Next == RunFunctor \/ Poll \/ Handle \/ EndCallback \/ UserStep \/ PeerStep

(***************************************************************************)
(* Fairness: callbacks return; handle() gets its turn after the finitely   *)
(* many other channels of one poll; the loop polls again and calls queued  *)
(* functors (EventLoop, LoudRuns); a peer that stays open reads, so that   *)
(* the socket becomes writable and takes the whole buffer in the end.      *)
(***************************************************************************)
Fairness ==
    /\ WF_vars(EndCallback) /\ SF_vars(Handle)
    /\ SF_vars(Poll) /\ SF_vars(Poll /\ "out" \in revents')
    /\ SF_vars(RunFunctor) /\ SF_vars(WriteAll)

Spec == Init /\ [][Next]_vars /\ Fairness

-----------------------------------------------------------------------------
(***************************************************************************)
(* The kernel gets the bytes in the order in which they were passed to     *)
(* send(), each once, whether send() wrote them itself or handleWrite did. *)
(***************************************************************************)
BytesInOrder ==
    /\ Len(delivered) + Len(out) = accepted
    /\ \A i \in 1..Len(delivered) : delivered[i] = i
    /\ \A i \in 1..Len(out) : out[i] = Len(delivered) + i

(***************************************************************************)
(* While something is buffered the open connection waits for the socket to *)
(* become writable; a closed one waits for nothing.                        *)
(***************************************************************************)
InterestMatches ==
    /\ state = "Connected" /\ out # <<>> => writing
    /\ reading \/ writing => state = "Connected" /\ registered

(***************************************************************************)
(* The disconnect callback is called once, whichever of read, write, error *)
(* and queued close() come together.                                       *)
(***************************************************************************)
OneDisconnect == disconnects = IF state = "Disconnected" THEN 1 ELSE 0

(***************************************************************************)
(* The address that the poller holds, and that a poll has handed to the    *)
(* loop, is that of a live channel, unless the client was dropped and the  *)
(* connection is closed: then nothing takes it out of the poller.          *)
(***************************************************************************)
PointerAlive ==
    registered \/ pc = "close" => Alive \/ (owner = "gone" /\ state = "Disconnected")

(***************************************************************************)
(* A buffer at or beyond the high-water mark was announced by send(string) *)
(* since it was last below the mark, or a PacketBuffer carried it across,  *)
(* which announces nothing.                                                *)
(***************************************************************************)
HighWaterAnnounced == Len(out) >= WaterMark => warned

(***************************************************************************)
(* Once connectDestroyed() has removed the channel none of the user's      *)
(* callbacks is called for this connection any more.                       *)
(***************************************************************************)
Removed == state = "Disconnected" /\ ~registered

NothingAfterRemoval ==
    [][Removed => callback' \notin Callbacks \/ callback' = callback]_vars

(***************************************************************************)
(* The strengthening that the proofs use.  Phases: what each state_ means  *)
(* for the rest; QueueOrder: connectEstablished() comes first in the       *)
(* queue, and nothing but close() after connectDestroyed(); WillBeClosed:  *)
(* an open connection that its owner has left is about to be closed;       *)
(* WillBeRemoved: a channel in the poller is open or on its way out,       *)
(* unless its client was dropped.                                          *)
(***************************************************************************)
Phases ==
    /\ state # "Disconnecting"
    /\ state = "Connecting" =>
           pc = "loop" /\ callback \in {"none", "other"} /\ out = <<>> /\ owned /\ ~registered
    /\ state = "Connected" => registered
    /\ pc \in {"close", "error", "read", "write"} => registered
    /\ callback \in {"disconnect", "destroyed"} => state = "Disconnected"

Last == {"close", "destroyed"}

QueueOrder ==
    /\ \A i \in 1..Len(queue) : queue[i] = "established" => i = 1 /\ state = "Connecting"
    /\ state = "Connecting" => queue # <<>> /\ queue[1] = "established"
    /\ \A i \in 1..Len(queue) : queue[i] = "destroyed" =>
           state = "Disconnected" /\ \A j \in i..Len(queue) : queue[j] \in Last
    /\ Removed => \A i \in 1..Len(queue) : queue[i] \in Last

WillBeClosed ==
    state = "Connected" => owned \/ \E i \in 1..Len(queue) : queue[i] = "close"

WillBeRemoved ==
    registered =>
        \/ state = "Connected"
        \/ callback = "disconnect"
        \/ owner = "gone"
        \/ \E i \in 1..Len(queue) : queue[i] = "destroyed"

IInv ==
    /\ TypeOK
    /\ BytesInOrder
    /\ InterestMatches
    /\ OneDisconnect
    /\ Phases
    /\ QueueOrder
    /\ WillBeClosed
    /\ WillBeRemoved
    /\ HighWaterAnnounced

(***************************************************************************)
(* Every byte that send() took reaches the kernel, or the connection ends. *)
(***************************************************************************)
Drained ==
    \A b \in 1..MaxBytes :
        accepted >= b ~> Len(delivered) >= b \/ state = "Disconnected" \/ pc = "threw"

(***************************************************************************)
(* A closed connection leaves the poller and its owner's registry, unless  *)
(* its owner is a client that is dropped before.                           *)
(***************************************************************************)
ClosedIsRemoved ==
    state = "Disconnected" ~> (~registered /\ ~owned) \/ owner = "gone" \/ pc = "threw"

(***************************************************************************)
(* send() comes back to its caller.                                        *)
(***************************************************************************)
SendReturns == pc # "threw"
=============================================================================
