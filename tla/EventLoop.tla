------------------------------ MODULE EventLoop ------------------------------
(***************************************************************************)
(* qinmo::net::EventLoop (src/EventLoop.cpp): one thread that polls,       *)
(* handles the active channels and runs the functors queued for it, and    *)
(* any number of other threads that queue functors or ask it to quit.      *)
(*                                                                         *)
(* The poller is reduced to what loop() sees of it: poll returns some      *)
(* channels, among them the eventfd's wakeup channel only if its counter   *)
(* is not zero; epoll is level-triggered, so a counter above zero makes    *)
(* every poll return.  "io" stands for all other channels together.        *)
(***************************************************************************)
EXTENDS Integers, Sequences

CONSTANTS
    Functors,       \* the functor objects that may be handed to the loop
    Callers,        \* threads other than the loop's
    EventfdMax,     \* largest value of the eventfd counter (2^64-2 in Linux)
    Timeouts        \* poll timeouts in use: "infinite" is any negative value

ASSUME EventfdMaxAssumption == EventfdMax \in Nat \ {0}
ASSUME TimeoutsAssumption == Timeouts \subseteq {"finite", "infinite"}

VARIABLES
    pc,             \* where the loop's thread is; "out": not inside loop()
    callback,       \* user code of a channel or of a functor is running
    quit,           \* quit_
    pending,        \* pending_
    queue,          \* pendingFunctors_
    batch,          \* the local vector of pendingFunctors() yet to be called
    wakeups,        \* counter of wakeupfd_
    active,         \* activeChannels_ yet to be handled
    timeout,        \* timeoutMs_
    blocking,       \* the timeout the current poll was given
    calls,          \* calls[t]: what thread t still has to do of its call
    fresh,          \* functors not handed over yet
    ran,            \* functors that were called
    quiet           \* functors queued by the loop's thread outside a callback

loopVars == <<pc, callback, active, blocking, batch>>
sharedVars == <<quit, pending, queue, wakeups, timeout>>
vars == <<pc, callback, quit, pending, queue, batch, wakeups, active, timeout,
          blocking, calls, fresh, ran, quiet>>

TypeOK ==
    /\ pc \in {"out", "check", "poll", "handle", "swap", "run", "drop"}
    /\ callback \in BOOLEAN
    /\ quit \in BOOLEAN
    /\ pending \in BOOLEAN
    /\ queue \in Seq(Functors)
    /\ batch \in Seq(Functors)
    /\ wakeups \in 0..EventfdMax
    /\ active \subseteq {"wakeup", "io"}
    /\ timeout \in Timeouts
    /\ blocking \in Timeouts
    /\ calls \in [Callers -> {"none", "wakeup"}]
    /\ fresh \subseteq Functors
    /\ ran \subseteq Functors
    /\ quiet \subseteq Functors

Init ==
    /\ pc = "out"
    /\ callback = FALSE
    /\ quit = FALSE
    /\ pending = FALSE
    /\ queue = <<>>
    /\ batch = <<>>
    /\ wakeups = 0
    /\ active = {}
    /\ timeout \in Timeouts
    /\ blocking = timeout
    /\ calls = [t \in Callers |-> "none"]
    /\ fresh = Functors
    /\ ran = {}
    /\ quiet = {}

-----------------------------------------------------------------------------
(* The loop's thread: loop() and pendingFunctors().                        *)

\* A write to the non-blocking eventfd fails silently at the counter's limit.
Bumped == IF wakeups < EventfdMax THEN wakeups + 1 ELSE wakeups

EnterLoop ==
    /\ pc = "out"
    /\ pc' = "check"
    /\ quit' = FALSE
    /\ UNCHANGED <<callback, pending, queue, batch, wakeups, active, timeout,
                   blocking, calls, fresh, ran, quiet>>

Check ==
    /\ pc = "check"
    /\ pc' = IF quit THEN "out" ELSE "poll"
    /\ active' = {}
    /\ blocking' = timeout
    /\ UNCHANGED <<callback, batch, sharedVars, calls, fresh, ran, quiet>>

PollReturns(channels) ==
    /\ pc = "poll"
    /\ pc' = "handle"
    /\ "wakeup" \in channels => wakeups > 0
    /\ active' = channels
    /\ UNCHANGED <<callback, blocking, batch, sharedVars, calls, fresh, ran, quiet>>

\* With a counter above zero poll returns; a batch of ready descriptors
\* larger than the event array may leave the wakeup channel for later.
PollWake ==
    /\ wakeups > 0
    /\ \E channels \in {{"wakeup"}, {"io"}, {"wakeup", "io"}} : PollReturns(channels)

\* As if loop() went on without pendingFunctors when no channel is active.
PollTimeoutContinues ==
    /\ blocking = "finite" /\ wakeups = 0
    /\ pc = "poll"
    /\ pc' = "check"
    /\ UNCHANGED <<callback, active, blocking, batch, sharedVars, calls, fresh, ran,
                   quiet>>

PollTimeout == blocking = "finite" /\ wakeups = 0 /\ PollReturns({})

\* What other descriptors and signals (EINTR) do is not the loop's to promise.
PollOther == wakeups = 0 /\ \E channels \in {{"io"}, {}} : PollReturns(channels)

HandleWakeup ==
    /\ pc = "handle" /\ ~callback
    /\ "wakeup" \in active
    /\ active' = active \ {"wakeup"}
    /\ wakeups' = 0
    /\ UNCHANGED <<pc, callback, quit, pending, queue, batch, timeout, blocking,
                   calls, fresh, ran, quiet>>

HandleIO ==
    /\ pc = "handle" /\ ~callback
    /\ "io" \in active
    /\ active' = active \ {"io"}
    /\ callback' = TRUE
    /\ UNCHANGED <<pc, blocking, batch, sharedVars, calls, fresh, ran, quiet>>

EndCallback ==
    /\ callback
    /\ callback' = FALSE
    /\ UNCHANGED <<pc, active, blocking, batch, sharedVars, calls, fresh, ran, quiet>>

BeginPending ==
    /\ pc = "handle" /\ ~callback
    /\ active = {}
    /\ pc' = "swap"
    /\ pending' = TRUE
    /\ UNCHANGED <<callback, quit, queue, batch, wakeups, active, timeout, blocking,
                   calls, fresh, ran, quiet>>

\* As if the functors were copied and not swapped out.
CopyBatch ==
    /\ pc = "swap"
    /\ pc' = "run"
    /\ batch' = queue
    /\ UNCHANGED <<callback, active, blocking, sharedVars, calls, fresh, ran, quiet>>

Swap ==
    /\ pc = "swap"
    /\ pc' = "run"
    /\ batch' = queue
    /\ queue' = <<>>
    /\ UNCHANGED <<callback, quit, pending, wakeups, active, timeout, blocking,
                   calls, fresh, ran, quiet>>

RunFunctor ==
    /\ pc = "run" /\ ~callback
    /\ batch # <<>>
    /\ ran' = ran \union {Head(batch)}
    /\ batch' = Tail(batch)
    /\ callback' = TRUE
    /\ UNCHANGED <<pc, active, blocking, sharedVars, calls, fresh, quiet>>

EndPending ==
    /\ pc = "run" /\ ~callback
    /\ batch = <<>>
    /\ pc' = "drop"
    /\ pending' = FALSE
    /\ UNCHANGED <<callback, quit, queue, batch, wakeups, active, timeout, blocking,
                   calls, fresh, ran, quiet>>

\* The local vector is destroyed after pending_ is cleared: the destructors
\* of what the functors captured are user code too, run at pc = "drop".
DropFunctors ==
    /\ pc = "drop"
    /\ pc' = "check"
    /\ UNCHANGED <<callback, active, blocking, batch, sharedVars, calls, fresh, ran, quiet>>

-----------------------------------------------------------------------------
(* User code on the loop's thread.                                         *)

OnLoopThread == callback \/ pc \in {"out", "drop"}

\* queueInLoop on the loop's own thread writes a wakeup only if pending_.
NoWakeup == wakeups
WakeupIfPending == IF pending THEN Bumped ELSE wakeups

LoopQueue(f) ==
    /\ OnLoopThread
    /\ f \in fresh
    /\ fresh' = fresh \ {f}
    /\ queue' = Append(queue, f)
    /\ wakeups' = WakeupIfPending
    /\ quiet' = IF callback THEN quiet ELSE quiet \union {f}
    /\ UNCHANGED <<loopVars, quit, pending, timeout, calls, ran>>

LoopRun(f) ==
    /\ OnLoopThread
    /\ f \in fresh
    /\ fresh' = fresh \ {f}
    /\ ran' = ran \union {f}
    /\ UNCHANGED <<loopVars, sharedVars, calls, quiet>>

LoopQuit ==
    /\ OnLoopThread
    /\ quit' = TRUE
    /\ UNCHANGED <<loopVars, pending, queue, wakeups, timeout, calls, fresh, ran, quiet>>

-----------------------------------------------------------------------------
(* Other threads: the store or the locked push is one step, the write to   *)
(* the eventfd another.  pending_ is read only by the loop's own thread:   *)
(* another thread always takes the first branch of the ||.                 *)

Post(t, f) ==
    /\ calls[t] = "none"
    /\ f \in fresh
    /\ fresh' = fresh \ {f}
    /\ queue' = Append(queue, f)
    /\ calls' = [calls EXCEPT ![t] = "wakeup"]
    /\ UNCHANGED <<loopVars, quit, pending, wakeups, timeout, ran, quiet>>

PostQuit(t) ==
    /\ calls[t] = "none"
    /\ quit' = TRUE
    /\ calls' = [calls EXCEPT ![t] = "wakeup"]
    /\ UNCHANGED <<loopVars, pending, queue, wakeups, timeout, fresh, ran, quiet>>

\* As if another thread's wakeup depended on pending_, too.
WakeupOnlyIfPending(t) ==
    /\ calls[t] = "wakeup"
    /\ wakeups' = WakeupIfPending
    /\ calls' = [calls EXCEPT ![t] = "none"]
    /\ UNCHANGED <<loopVars, quit, pending, queue, timeout, fresh, ran, quiet>>

Wakeup(t) ==
    /\ calls[t] = "wakeup"
    /\ wakeups' = Bumped
    /\ calls' = [calls EXCEPT ![t] = "none"]
    /\ UNCHANGED <<loopVars, quit, pending, queue, timeout, fresh, ran, quiet>>

\* Any thread may change the timeout; the poll in progress keeps its own.
SetTimeoutMs(ms) ==
    /\ timeout' = ms
    /\ UNCHANGED <<loopVars, quit, pending, queue, wakeups, calls, fresh, ran, quiet>>

-----------------------------------------------------------------------------

LoopStep ==
    \/ Check \/ PollWake \/ PollTimeout \/ HandleWakeup \/ HandleIO
    \/ EndCallback \/ BeginPending \/ Swap \/ RunFunctor \/ EndPending
    \/ DropFunctors

UserStep ==
    \/ EnterLoop \/ LoopQuit
    \/ \E f \in Functors : LoopQueue(f) \/ LoopRun(f)

CallerStep ==
    \E t \in Callers : PostQuit(t) \/ Wakeup(t) \/ \E f \in Functors : Post(t, f)

Next ==
    \/ LoopStep
    \/ PollOther
    \/ UserStep
    \/ CallerStep
    \/ \E ms \in Timeouts : SetTimeoutMs(ms)

(***************************************************************************)
(* Fairness: the loop's thread is scheduled, its callbacks return, and a   *)
(* thread inside wakeup() reaches its write.  Nothing is assumed of other  *)
(* descriptors, of who queues, quits or calls loop() again.                *)
(***************************************************************************)
Fairness ==
    /\ WF_vars(LoopStep)
    /\ \A t \in Callers : WF_vars(Wakeup(t))

Spec == Init /\ [][Next]_vars /\ Fairness

-----------------------------------------------------------------------------
Elements(s) == {s[i] : i \in 1..Len(s)}

Loud == Elements(queue) \ quiet

WakeupPromised == wakeups > 0 \/ \E t \in Callers : calls[t] = "wakeup"

(***************************************************************************)
(* No lost wakeup: the loop never blocks in poll on a functor that another *)
(* thread, or a callback of its own thread, has queued, unless the eventfd *)
(* is readable or the queueing thread is about to make it so.              *)
(***************************************************************************)
NoLostWakeup == pc = "poll" /\ Loud # {} => WakeupPromised

(***************************************************************************)
(* The strengthening of NoLostWakeup that every step preserves: pending_,  *)
(* callbacks and the batch belong to their phases of the loop, and the     *)
(* promise must hold from the taking of a batch until the next is due.     *)
(***************************************************************************)
Phases ==
    /\ pending <=> pc \in {"swap", "run"}
    /\ callback => pc \in {"handle", "run"}
    /\ batch # <<>> => pc = "run"

PromiseKept == pc \notin {"handle", "swap"} /\ Loud # {} => WakeupPromised

IInv == TypeOK /\ Phases /\ PromiseKept

(***************************************************************************)
(* queueInLoop and runInLoop keep the promise of FunctorQueue whatever the *)
(* threads do: at most one call each, in the order of queueing, also for a *)
(* functor queued while a batch is being run.                              *)
(***************************************************************************)
Abstract == INSTANCE FunctorQueue WITH waiting <- batch \o queue
ImplementsFunctorQueue == Abstract!Spec

(***************************************************************************)
(* A functor queued by another thread or by a callback is called, or the   *)
(* loop ends, even if poll has no timeout and no other channel is active.  *)
(***************************************************************************)
LoudRuns ==
    \A f \in Functors : f \in Loud /\ pc # "out" ~> f \in ran \/ pc = "out"

(***************************************************************************)
(* quit() from a callback or from another thread ends a loop that has been *)
(* entered, also one that is blocked in a poll without timeout.            *)
(***************************************************************************)
QuitStops == quit /\ pc # "out" ~> pc = "out"

(***************************************************************************)
(* Once every poll has a finite timeout each queued functor is called or   *)
(* the loop ends, also one queued by the loop's thread before loop() or in *)
(* the destructor of a functor, for which queueInLoop writes no wakeup.    *)
(***************************************************************************)
QueuedRuns ==
    <>[](blocking = "finite") =>
        \A f \in Functors :
            f \in Elements(queue) /\ pc # "out" ~> f \in ran \/ pc = "out"
=============================================================================
