---------------------------- MODULE TimerManager ----------------------------
(***************************************************************************)
(* qinmo::net::TimerManager and Timer: the timers of one EventLoop, kept   *)
(* in a map by sequence number and in a set ordered by deadline, and one   *)
(* timerfd armed for the earliest of them.  addEvent and cancelEvent work  *)
(* on the loop's thread; other threads' calls reach it through the queue   *)
(* of FunctorQueue, here the mailbox.                                      *)
(*                                                                         *)
(* Deadlines are read off the wall clock, which may be set; the timerfd    *)
(* counts down on the monotonic clock.                                     *)
(***************************************************************************)
EXTENDS Integers, Sequences

CONSTANTS
    MaxTimers,      \* bound: how many timers are created
    MaxTime,        \* bound: the wall clock stops here, the timerfd does not
    Intervals,      \* repetition intervals in ticks; 0 is a one-shot timer
    Callers,        \* threads other than the loop's
    MaxMailbox,     \* bound: calls of other threads waiting for the loop
    MaxClockSets    \* bound: how often the wall clock is set

ASSUME BoundsAssumption ==
    /\ MaxTimers \in Nat
    /\ MaxTime \in Nat
    /\ MaxMailbox \in Nat
    /\ MaxClockSets \in Nat
ASSUME IntervalsAssumption == Intervals \subseteq Nat

Seqs == 1..MaxTimers        \* sequence numbers; 0 is no timer

VARIABLES
    pc,             \* "wait": in poll; "handle": after poll; handleRead():
                    \* "scan" at the head of its loop, "run" in a callback
    now,            \* the wall clock
    clockSets,      \* how often the wall clock was set
    left,           \* ticks until the timerfd expires; 0: it is not counting
    readable,       \* the timerfd has an expiration to be read
    fired,          \* the timerfd's channel is active and not handled yet
    time,           \* when poll returned
    timers,         \* keys of timers_
    order,          \* timersOrder_: pairs <<deadline, sequence>>
    when,           \* when[s]: time_ of timer s
    interval,       \* interval[s]: interval_ of timer s
    curr,           \* currTimer_
    cancelled,      \* cancelTimer_: cancelled while they were running
    lastSeq,        \* Timer::s_currSeq
    mailbox,        \* calls of other threads queued in the loop
    calls,          \* calls[t]: the timer of which t is in addEvent, or 0
    known,          \* sequence numbers that were returned in a TimerID
    dead            \* history: timers that cancelEvent has removed

clockVars == <<now, clockSets>>
fdVars == <<left, readable>>
tableVars == <<timers, order, when, interval>>
callVars == <<lastSeq, mailbox, calls, known>>
vars == <<pc, clockVars, fdVars, fired, time, tableVars, curr, cancelled, callVars,
          dead>>

Times == 0..MaxTime

TypeOK ==
    /\ pc \in {"wait", "handle", "scan", "run"}
    /\ now \in Times
    /\ clockSets \in 0..MaxClockSets
    /\ left \in Nat
    /\ readable \in BOOLEAN
    /\ fired \in BOOLEAN
    /\ time \in Times
    /\ timers \subseteq Seqs
    /\ order \subseteq Nat \X Seqs
    /\ when \in [Seqs -> Nat]
    /\ interval \in [Seqs -> Intervals \union {0}]
    /\ curr \in Seqs \union {0}
    /\ cancelled \subseteq Seqs
    /\ lastSeq \in 0..MaxTimers
    /\ mailbox \in Seq({"add", "cancel"} \X Seqs)
    /\ calls \in [Callers -> Seqs \union {0}]
    /\ known \subseteq Seqs
    /\ dead \subseteq Seqs

Init ==
    /\ pc = "wait"
    /\ now = 0
    /\ clockSets = 0
    /\ left = 0
    /\ readable = FALSE
    /\ fired = FALSE
    /\ time = 0
    /\ timers = {}
    /\ order = {}
    /\ when = [s \in Seqs |-> 0]
    /\ interval = [s \in Seqs |-> 0]
    /\ curr = 0
    /\ cancelled = {}
    /\ lastSeq = 0
    /\ mailbox = <<>>
    /\ calls = [t \in Callers |-> 0]
    /\ known = {}
    /\ dead = {}

-----------------------------------------------------------------------------
(* timersOrder_ and resetTimerfd.                                          *)

\* The entry of a timer.
EntryOf(s) == <<when[s], s>>

\* std::pair compares deadlines first, then sequence numbers.
BySequence(d, e) == d[2] <= e[2]
Before(d, e) == d[1] < e[1] \/ (d[1] = e[1] /\ d[2] <= e[2])

IsFirst(e, entries) == e \in entries /\ \A d \in entries : Before(e, d)

\* A deadline that has passed is armed one tick ahead: zero would disarm.
\* timerfd_settime also forgets an expiration that was not read.
ResetTimerfd(deadline) ==
    /\ left' = IF deadline > now THEN deadline - now ELSE 1
    /\ readable' = FALSE

NoReset(entries) == UNCHANGED fdVars
ResetToFirst(entries) == \E e \in entries : IsFirst(e, entries) /\ ResetTimerfd(e[1])

-----------------------------------------------------------------------------
(* The functors of addEvent and cancelEvent.                               *)

\* The new timer is the earliest, or the only one.
Earliest(deadline) == \A e \in order : e[1] > deadline

AddTimer(s, deadline) ==
    /\ IF curr = 0 /\ Earliest(deadline)
         THEN ResetTimerfd(deadline)
         ELSE UNCHANGED fdVars
    /\ order' = order \union {<<deadline, s>>}
    /\ timers' = timers \union {s}
    /\ UNCHANGED <<cancelled, dead>>

\* A timer that cancels itself is kept until handleRead is done.
NotKept(s) == cancelled
KeptIfRunning(s) == IF s = curr THEN cancelled \union {s} ELSE cancelled

CancelTimer(s) ==
    \/ /\ s \notin timers
       /\ UNCHANGED <<fdVars, order, timers, cancelled, dead>>
    \/ /\ s \in timers
       /\ order' = order \ {EntryOf(s)}
       /\ timers' = timers \ {s}
       /\ cancelled' = KeptIfRunning(s)
       /\ dead' = dead \union {s}
       /\ IF curr = 0 /\ IsFirst(EntryOf(s), order) /\ order' # {}
            THEN ResetToFirst(order')
            ELSE UNCHANGED fdVars

\* new Timer: the object and its sequence number are made by the caller.
NewTimer(deadline, repeat) ==
    /\ lastSeq < MaxTimers
    /\ lastSeq' = lastSeq + 1
    /\ when' = [when EXCEPT ![lastSeq'] = deadline]
    /\ interval' = [interval EXCEPT ![lastSeq'] = repeat]

-----------------------------------------------------------------------------
(* User code on the loop's thread: a timer's function, another channel's   *)
(* callback or a functor.  runInLoop calls the functor at once.            *)

LoopAdd(deadline, repeat) ==
    /\ pc \in {"handle", "run"}
    /\ NewTimer(deadline, repeat)
    /\ AddTimer(lastSeq', deadline)
    /\ known' = known \union {lastSeq'}
    /\ UNCHANGED <<pc, clockVars, fired, time, curr, mailbox, calls>>

LoopCancel(s) ==
    /\ pc \in {"handle", "run"}
    /\ s \in known
    /\ CancelTimer(s)
    /\ UNCHANGED <<pc, clockVars, fired, time, when, interval, curr, callVars>>

-----------------------------------------------------------------------------
(* Other threads.                                                          *)

\* queueInLoop pushes at the back.
PushedFront(call) == <<call>> \o mailbox
Pushed(call) == Append(mailbox, call)

Add(t, deadline, repeat) ==
    /\ calls[t] = 0
    /\ Len(mailbox) < MaxMailbox
    /\ NewTimer(deadline, repeat)
    /\ mailbox' = Pushed(<<"add", lastSeq'>>)
    /\ calls' = [calls EXCEPT ![t] = lastSeq']
    /\ UNCHANGED <<pc, clockVars, fdVars, fired, time, timers, order, curr, cancelled,
                   known, dead>>

\* The Timer objects that exist
Allocated ==
    timers \union cancelled
        \union {s \in Seqs : \E i \in 1..Len(mailbox) : mailbox[i] = <<"add", s>>}

\* addEvent reads the sequence number from the Timer after the functor was
\* queued.  By then the timer may have run and been freed: the read is
\* undefined and the TimerID may carry any number.
ReturnId(t) ==
    /\ calls[t] # 0
    /\ \E s \in IF calls[t] \in Allocated THEN {calls[t]} ELSE 1..lastSeq :
           known' = known \union {s}
    /\ calls' = [calls EXCEPT ![t] = 0]
    /\ UNCHANGED <<pc, clockVars, fdVars, fired, time, tableVars, curr, cancelled,
                   lastSeq, mailbox, dead>>

Cancel(t, s) ==
    /\ calls[t] = 0
    /\ Len(mailbox) < MaxMailbox
    /\ s \in known
    /\ mailbox' = Pushed(<<"cancel", s>>)
    /\ UNCHANGED <<pc, clockVars, fdVars, fired, time, tableVars, curr, cancelled,
                   lastSeq, calls, known, dead>>

-----------------------------------------------------------------------------
(* The loop's thread.                                                      *)

PollReturns ==
    /\ pc = "wait"
    /\ pc' = "handle"
    /\ time' = now
    /\ fired' = readable
    /\ UNCHANGED <<clockVars, fdVars, tableVars, curr, cancelled, callVars, dead>>

\* A callback that re-armed the timerfd since poll makes the read fail, which
\* is only logged.
HandleRead ==
    /\ pc = "handle" /\ fired
    /\ pc' = "scan"
    /\ fired' = FALSE
    /\ readable' = FALSE
    /\ UNCHANGED <<clockVars, left, time, tableVars, curr, cancelled, callVars, dead>>

\* The functors queued by other threads are called after the channels.
RunFunctor ==
    /\ pc = "handle" /\ ~fired
    /\ mailbox # <<>>
    /\ LET s == Head(mailbox)[2]
       IN \/ Head(mailbox)[1] = "add" /\ AddTimer(s, when[s])
          \/ Head(mailbox)[1] = "cancel" /\ CancelTimer(s)
    /\ mailbox' = Tail(mailbox)
    /\ UNCHANGED <<pc, clockVars, fired, time, when, interval, curr, lastSeq,
                   calls, known>>

BackToPoll ==
    /\ pc = "handle" /\ ~fired
    /\ pc' = "wait"
    /\ UNCHANGED <<clockVars, fdVars, fired, time, tableVars, curr, cancelled, callVars,
                   dead>>

RunTimer ==
    /\ pc = "scan"
    /\ \E e \in order :
           /\ IsFirst(e, order)
           /\ e[1] <= time
           /\ curr' = e[2]
    /\ pc' = "run"
    /\ UNCHANGED <<clockVars, fdVars, fired, time, tableVars, cancelled, callVars,
                   dead>>

\* The function has returned: a repeating timer moves on by its interval, a
\* one-shot timer is freed, one that was cancelled meanwhile is left alone.
AssumedPending == TRUE
StillPending == curr \in timers

TimerDone ==
    /\ pc = "run"
    /\ pc' = "scan"
    /\ curr' = 0
    /\ IF ~StillPending
         THEN UNCHANGED tableVars
         ELSE LET others == order \ {EntryOf(curr)}
                  again == when[curr] + interval[curr]
              IN \/ /\ interval[curr] # 0
                    /\ when' = [when EXCEPT ![curr] = again]
                    /\ order' = others \union {<<again, curr>>}
                    /\ UNCHANGED <<timers, interval>>
                 \/ /\ interval[curr] = 0
                    /\ when' = [when EXCEPT ![curr] = 0]
                    /\ order' = others
                    /\ timers' = timers \ {curr}
                    /\ UNCHANGED interval
    /\ UNCHANGED <<clockVars, fdVars, fired, time, cancelled, callVars, dead>>

EndRead ==
    /\ pc = "scan"
    /\ \A e \in order : e[1] > time
    /\ pc' = "handle"
    /\ cancelled' = {}
    /\ IF order = {} THEN UNCHANGED fdVars ELSE ResetToFirst(order)
    /\ UNCHANGED <<clockVars, fired, time, tableVars, curr, callVars, dead>>

-----------------------------------------------------------------------------
(* Clocks.                                                                 *)

Tick ==
    /\ now < MaxTime \/ left > 0
    /\ now' = IF now < MaxTime THEN now + 1 ELSE now
    /\ left' = IF left > 0 THEN left - 1 ELSE 0
    /\ readable' = (readable \/ left = 1)
    /\ UNCHANGED <<pc, clockSets, fired, time, tableVars, curr, cancelled, callVars,
                   dead>>

SetClock ==
    /\ clockSets < MaxClockSets
    /\ clockSets' = clockSets + 1
    /\ now' \in Times
    /\ UNCHANGED <<pc, fdVars, fired, time, tableVars, curr, cancelled, callVars, dead>>

-----------------------------------------------------------------------------
UserStep ==
    \/ \E deadline \in Times, repeat \in Intervals :
           \/ LoopAdd(deadline, repeat)
           \/ \E t \in Callers : Add(t, deadline, repeat)
    \/ \E s \in Seqs :
           LoopCancel(s) \/ \E t \in Callers : Cancel(t, s)

LoopStep ==
    \/ (readable \/ mailbox # <<>>) /\ PollReturns
    \/ HandleRead \/ RunTimer \/ TimerDone \/ EndRead \/ BackToPoll

\* Other channels and poll's timeout make it return as well.
PollOther == ~(readable \/ mailbox # <<>>) /\ PollReturns

Next ==
    \/ UserStep
    \/ \E t \in Callers : ReturnId(t)
    \/ LoopStep \/ PollOther \/ RunFunctor
    \/ Tick \/ SetClock

(***************************************************************************)
(* Fairness: time passes, the loop's thread is scheduled, and a queued     *)
(* functor is called in the end (EventLoop, LoudRuns).                     *)
(***************************************************************************)
Fairness == WF_vars(Tick) /\ WF_vars(LoopStep) /\ SF_vars(RunFunctor)

Spec == Init /\ [][Next]_vars /\ Fairness

-----------------------------------------------------------------------------
(***************************************************************************)
(* The map and the ordered set hold the same timers, so the first entry of *)
(* the set always finds its timer: the error branch of handleRead is dead. *)
(***************************************************************************)
TablesAgree == order = {<<when[s], s>> : s \in timers}

(***************************************************************************)
(* The Timer whose function is running is not freed under it, whatever the *)
(* function cancels: cancelTimer_ keeps it.                                *)
(***************************************************************************)
RunningTimerExists == curr # 0 => curr \in timers \union cancelled

(***************************************************************************)
(* Outside handleRead every pending timer is covered: the timerfd has      *)
(* expired or counts down, and, while the wall clock is not set, expires   *)
(* no later than the deadline or the next tick.                            *)
(***************************************************************************)
ClockWasSet == clockSets > 0

Latest(deadline) == IF deadline > now THEN deadline ELSE now + 1

Covered(deadline) ==
    readable \/ fired \/ (left > 0 /\ (ClockWasSet \/ now + left <= Latest(deadline)))

Armed == pc \in {"wait", "handle"} => \A e \in order : Covered(e[1])

(***************************************************************************)
(* The strengthening that every step preserves: a sequence number belongs  *)
(* to one timer, which is queued once, then pending, then gone; currTimer_ *)
(* is set exactly while a function runs; other threads know and queue only *)
(* numbers that were given out, and no cancelEvent is queued before the    *)
(* addEvent of the same timer.                                             *)
(***************************************************************************)
Numbering ==
    /\ timers \union dead \subseteq 1..lastSeq
    /\ timers \intersect dead = {}
    /\ \A i \in 1..Len(mailbox) : mailbox[i][1] = "add" =>
           /\ mailbox[i][2] \in (1..lastSeq) \ (timers \union dead)
           /\ \A j \in 1..Len(mailbox) : mailbox[j] = mailbox[i] => j = i

Phases ==
    /\ curr # 0 <=> pc = "run"
    /\ fired => pc = "handle"
    /\ ClockWasSet \/ time <= now

MailOrder ==
    /\ known \subseteq 1..lastSeq
    /\ \A t \in Callers : calls[t] \in 0..lastSeq
    /\ \A i \in 1..Len(mailbox) : mailbox[i][2] \in 1..lastSeq
    /\ \A i, j \in 1..Len(mailbox) :
           mailbox[i][1] = "cancel" /\ mailbox[j] = <<"add", mailbox[i][2]>> => j < i

IInv ==
    /\ TypeOK
    /\ TablesAgree
    /\ RunningTimerExists
    /\ Armed
    /\ Numbering
    /\ Phases
    /\ MailOrder

(***************************************************************************)
(* A timer is called only while no earlier one is pending, and never       *)
(* before its deadline while the wall clock is not set.                    *)
(***************************************************************************)
Starts(s) == curr = 0 /\ curr' = s

FiresInOrder ==
    [][\A s \in Seqs : Starts(s) =>
           /\ \A u \in timers : when[s] <= when[u]
           /\ ClockWasSet \/ when[s] <= now]_vars

(***************************************************************************)
(* Once cancelEvent has removed a timer its function is not called again,  *)
(* though it may have been running, and repeating, when it was cancelled.  *)
(***************************************************************************)
NeverAfterCancel == [][\A s \in dead : ~Starts(s)]_vars

(***************************************************************************)
(* A timer that has ended never comes back, and the functor of a           *)
(* cancelEvent ends its timer for good: no addEvent of it is left behind   *)
(* in the queue.  With the fairness of RunFunctor this is CancelHonoured.  *)
(***************************************************************************)
Over(s) ==
    /\ s \in 1..lastSeq
    /\ s \notin timers
    /\ \A i \in 1..Len(mailbox) : mailbox[i] # <<"add", s>>

CancelIsFinal ==
    [][\A s \in Seqs :
           Over(s) \/ (RunFunctor /\ Head(mailbox) = <<"cancel", s>>) => Over(s)']_vars

(***************************************************************************)
(* Every timer whose deadline the clock reaches is called or cancelled.    *)
(***************************************************************************)
DueRuns ==
    \A s \in Seqs :
        s \in timers /\ when[s] <= MaxTime ~> s \notin timers \/ when[s] > MaxTime

(***************************************************************************)
(* A cancelEvent of another thread takes effect for good: it is not        *)
(* overtaken by the queued addEvent of the same timer.                     *)
(***************************************************************************)
CancelHonoured ==
    \A s \in Seqs :
        (\E i \in 1..Len(mailbox) : mailbox[i] = <<"cancel", s>>)
            ~> [](s \notin timers)
=============================================================================
