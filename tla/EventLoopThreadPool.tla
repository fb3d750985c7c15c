------------------------- MODULE EventLoopThreadPool -------------------------
(***************************************************************************)
(* qinmo::net::EventLoopThreadPool and the EventLoopThreads and Threads it *)
(* owns: one owner thread starts N loop threads one after another, hands   *)
(* out their loops in turn and, in its destructor, stops and joins them    *)
(* one after another.  Each loop thread builds an EventLoop on its stack,  *)
(* publishes it, runs loop() and withdraws it.                             *)
(*                                                                         *)
(* Of an EventLoop only quit_ is kept: loop() clears it on entry and comes *)
(* back when it is set (EventLoop, QuitStops).                             *)
(***************************************************************************)
EXTENDS Integers, Functions

CONSTANTS
    N,          \* number of sub-loops
    Wrap,       \* number of values of the unsigned counter next_ (2^32)
    MaxServed   \* bound: how many loops are handed out

ASSUME NAssumption == N \in Nat \ {0}
ASSUME WrapAssumption == Wrap \in Nat \ {0}
ASSUME MaxServedAssumption == MaxServed \in Nat

Threads == 1..N

VARIABLES
    owner,      \* where the owner's thread is
    current,    \* the EventLoopThread its start() or destructor works on
    thread,     \* thread[i]: where the i-th loop thread is
    loop,       \* loop[i]: whether loop_ of the i-th EventLoopThread is set
    quit,       \* quit[i]: quit_ of the EventLoop on that thread's stack
    loops,      \* loops_ of the pool: what start() returned
    next,       \* next_
    served,     \* served[i]: how often loops_[i] was handed out
    selfQuit    \* user code on a sub-loop has called quit() on it

vars == <<owner, current, thread, loop, quit, loops, next, served, selfQuit>>

\* Where the stack object eventLoop of threadFunc() exists
Alive == {"init", "publish", "notify", "enter", "loop", "withdraw", "unwind"}

TypeOK ==
    /\ owner \in {"idle", "spawn", "check", "blocked", "return", "serving",
                  "destroy", "store", "wake", "join", "gone"}
    /\ current \in Threads
    /\ thread \in [Threads -> Alive \union {"none", "created", "ended"}]
    /\ loop \in [Threads -> BOOLEAN]
    /\ quit \in [Threads -> BOOLEAN]
    /\ loops \in [Threads -> {"unset", "loop", "null"}]
    /\ next \in 0..(Wrap - 1)
    /\ served \in [Threads -> Nat]
    /\ selfQuit \in BOOLEAN

Init ==
    /\ owner = "idle"
    /\ current = 1
    /\ thread = [i \in Threads |-> "none"]
    /\ loop = [i \in Threads |-> FALSE]
    /\ quit = [i \in Threads |-> FALSE]
    /\ loops = [i \in Threads |-> "unset"]
    /\ next = 0
    /\ served = [i \in Threads |-> 0]
    /\ selfQuit = FALSE

\* The owner holds mutex_ of EventLoopThread i while its destructor calls quit().
NeverLocked(i) == FALSE
Locked(i) == current = i /\ owner \in {"store", "wake"}

-----------------------------------------------------------------------------
(* The owner: EventLoopThreadPool::start, EventLoopThread::start and        *)
(* Thread::start.                                                          *)

OwnerGoes(from, to) == owner = from /\ owner' = to

\* Thread::start creates the thread; it runs nothing of the owner's yet.
Create ==
    /\ thread' = [thread EXCEPT ![current'] = "created"]
    /\ UNCHANGED <<loop, quit, next, served, selfQuit>>

StartPool ==
    /\ OwnerGoes("idle", "spawn")
    /\ current' = 1
    /\ Create
    /\ UNCHANGED loops

\* Thread::start waits until the new thread has stored its id.
SeeId ==
    /\ OwnerGoes("spawn", "check")
    /\ thread[current] # "created"
    /\ UNCHANGED <<current, thread, loop, quit, loops, next, served, selfQuit>>

\* The predicate of cv_.wait, evaluated under mutex_
\* As if cv_.wait had no predicate.
CheckNothing ==
    /\ OwnerGoes("check", "return")
    /\ UNCHANGED <<current, thread, loop, quit, loops, next, served, selfQuit>>

CheckLoop ==
    /\ owner = "check"
    /\ owner' = IF loop[current] THEN "return" ELSE "blocked"
    /\ UNCHANGED <<current, thread, loop, quit, loops, next, served, selfQuit>>

\* return loop_, read again after mutex_ was released; then the next thread
Return ==
    /\ owner = "return"
    /\ loops' = [loops EXCEPT ![current] = IF loop[current] THEN "loop" ELSE "null"]
    /\ \/ /\ current < N
          /\ owner' = "spawn"
          /\ current' = current + 1
          /\ Create
       \/ /\ current = N
          /\ owner' = "serving"
          /\ UNCHANGED <<current, thread, loop, quit, next, served, selfQuit>>

SpuriousWakeup ==
    /\ OwnerGoes("blocked", "check")
    /\ UNCHANGED <<current, thread, loop, quit, loops, next, served, selfQuit>>

\* The unsigned counter wraps.
NotAdvanced == next
Advanced == (next + 1) % Wrap

GetNextLoop ==
    /\ owner = "serving"
    /\ SumFunction(served) < MaxServed
    /\ next' = Advanced
    /\ served' = [served EXCEPT ![(next % N) + 1] = @ + 1]
    /\ UNCHANGED <<owner, current, thread, loop, quit, loops, selfQuit>>

-----------------------------------------------------------------------------
(* The owner: the destructors of threads_, in the order of the vector.     *)

DestroyPool ==
    /\ OwnerGoes("serving", "destroy")
    /\ current' = 1
    /\ UNCHANGED <<thread, loop, quit, loops, next, served, selfQuit>>

\* As if the destructor only joined.
JoinOnly ==
    /\ OwnerGoes("destroy", "join")
    /\ UNCHANGED <<current, thread, loop, quit, loops, next, served, selfQuit>>

LockAndLook ==
    /\ owner = "destroy"
    /\ owner' = IF loop[current] THEN "store" ELSE "join"
    /\ UNCHANGED <<current, thread, loop, quit, loops, next, served, selfQuit>>

QuitStore ==
    /\ OwnerGoes("store", "wake")
    /\ quit' = [quit EXCEPT ![current] = TRUE]
    /\ UNCHANGED <<current, thread, loop, loops, next, served, selfQuit>>

QuitWakeup ==
    /\ OwnerGoes("wake", "join")
    /\ UNCHANGED <<current, thread, loop, quit, loops, next, served, selfQuit>>

Join ==
    /\ owner = "join"
    /\ thread[current] = "ended"
    /\ IF current < N
         THEN owner' = "destroy" /\ current' = current + 1
         ELSE owner' = "gone" /\ UNCHANGED current
    /\ UNCHANGED <<thread, loop, quit, loops, next, served, selfQuit>>

-----------------------------------------------------------------------------
(* The loop threads: the lambda of Thread::start and threadFunc().         *)

ThreadGoes(i, from, to) ==
    /\ thread[i] = from
    /\ thread' = [thread EXCEPT ![i] = to]
    /\ UNCHANGED <<current, loops, next, served, selfQuit>>

StoreId(i) ==
    /\ ThreadGoes(i, "created", "init")
    /\ UNCHANGED <<owner, loop, quit>>

EndInitFunc(i) ==
    /\ ThreadGoes(i, "init", "publish")
    /\ UNCHANGED <<owner, loop, quit>>

Publish(i) ==
    /\ ~Locked(i)
    /\ ThreadGoes(i, "publish", "notify")
    /\ loop' = [loop EXCEPT ![i] = TRUE]
    /\ UNCHANGED <<owner, quit>>

\* As if threadFunc did not notify cv_.
NotifyNobody(i) ==
    /\ ThreadGoes(i, "notify", "enter")
    /\ UNCHANGED <<owner, loop, quit>>

\* Nobody but the owner waits on cv_.
Notify(i) ==
    /\ ThreadGoes(i, "notify", "enter")
    /\ owner' = IF owner = "blocked" /\ current = i THEN "check" ELSE owner
    /\ UNCHANGED <<loop, quit>>

EnterLoop(i) ==
    /\ ThreadGoes(i, "enter", "loop")
    /\ quit' = [quit EXCEPT ![i] = FALSE]
    /\ UNCHANGED <<owner, loop>>

LeaveLoop(i) ==
    /\ quit[i]
    /\ ThreadGoes(i, "loop", "withdraw")
    /\ UNCHANGED <<owner, loop, quit>>

Withdraw(i) ==
    /\ ~Locked(i)
    /\ ThreadGoes(i, "withdraw", "unwind")
    /\ loop' = [loop EXCEPT ![i] = FALSE]
    /\ UNCHANGED <<owner, quit>>

\* The destructor of the stack object eventLoop
Unwind(i) ==
    /\ ThreadGoes(i, "unwind", "ended")
    /\ UNCHANGED <<owner, loop, quit>>

\* User code: the initialization function or a callback calls quit().
SelfQuit(i) ==
    /\ thread[i] \in {"init", "loop"}
    /\ quit' = [quit EXCEPT ![i] = TRUE]
    /\ selfQuit' = TRUE
    /\ UNCHANGED <<owner, current, thread, loop, loops, next, served>>

-----------------------------------------------------------------------------
OwnerStep ==
    \/ SeeId \/ CheckLoop \/ Return
    \/ LockAndLook \/ QuitStore \/ QuitWakeup \/ Join

ThreadStep(i) ==
    \/ StoreId(i) \/ EndInitFunc(i) \/ Publish(i) \/ Notify(i) \/ EnterLoop(i)
    \/ LeaveLoop(i) \/ Withdraw(i) \/ Unwind(i)

Next ==
    \/ OwnerStep
    \/ StartPool \/ SpuriousWakeup \/ GetNextLoop \/ DestroyPool
    \/ \E i \in Threads : ThreadStep(i) \/ SelfQuit(i)

(***************************************************************************)
(* Fairness: every thread is scheduled and the initialization function     *)
(* returns; spurious wakeups and the user's calls may never come.          *)
(***************************************************************************)
Fairness ==
    /\ WF_vars(OwnerStep)
    /\ \A i \in Threads : WF_vars(ThreadStep(i))

Spec == Init /\ [][Next]_vars /\ Fairness

-----------------------------------------------------------------------------
(***************************************************************************)
(* The destructor calls quit(), a store and then a write to the eventfd,   *)
(* only on an EventLoop that still exists, although the store alone lets   *)
(* the loop's thread leave loop(): mutex_ keeps it from unwinding.         *)
(***************************************************************************)
QuitOnLiveLoop == owner \in {"store", "wake"} => thread[current] \in Alive

(***************************************************************************)
(* Until user code quits a sub-loop, the pool holds only pointers to loops *)
(* that exist, from the return of start() until the pool's destructor.     *)
(***************************************************************************)
PointersValid ==
    owner = "serving" /\ ~selfQuit =>
        \A i \in Threads : loops[i] = "loop" /\ thread[i] \in Alive

(***************************************************************************)
(* getNextLoop shares the loops out evenly: no loop is ever handed out two *)
(* times more than another, provided that their number divides the range   *)
(* of the counter, which starts again at 0 when it overflows.              *)
(***************************************************************************)
EvenShares ==
    Wrap % N = 0 => \A i, j \in Threads : served[i] - served[j] <= 1

(***************************************************************************)
(* start() waits on cv_ only while the notification is still to come,      *)
(* unless a sub-loop quits by itself meanwhile: publishing and notifying   *)
(* cannot slip in between its look at loop_ and its wait.                  *)
(***************************************************************************)
NotifyToCome ==
    owner = "blocked" /\ ~selfQuit => thread[current] \in {"init", "publish", "notify"}

(***************************************************************************)
(* The strengthening that every step preserves: loop_ is set exactly while *)
(* the thread is between publishing and withdrawing, the destructor's lock *)
(* keeps it there, only user code asks a loop to quit before the           *)
(* destructor does, the loops that the current round of getNextLoop has    *)
(* passed are one ahead of the others, and start() only waits for a thread *)
(* that it has made and that has not notified it since loop_ was set.      *)
(***************************************************************************)
Published == {"notify", "enter", "loop", "withdraw"}

Starting == {"spawn", "check", "blocked", "return"}

\* The threads whose start() has come back, or is about to
Started ==
    IF owner = "serving" THEN Threads
    ELSE {i \in Threads : i < current \/ (owner = "return" /\ i = current)}

UpAndRunning ==
    owner \in Starting \union {"serving"} =>
        \A i \in Started : /\ thread[i] \in Published \ {"withdraw"}
                           /\ i < current \/ owner = "serving" => loops[i] = "loop"

LoopIsPublished == \A i \in Threads : loop[i] <=> thread[i] \in Published

HeldLoop == owner \in {"store", "wake"} => loop[current]

Untouched ==
    owner \in Starting \union {"idle"} =>
        \A i \in Threads : i > current \/ owner = "idle" => thread[i] = "none"

NotQuitting ==
    owner \in Starting \union {"idle", "serving"} =>
        \A i \in Threads : ~quit[i] /\ thread[i] \notin {"withdraw", "unwind", "ended"}

Ahead(i) == IF i <= next % N THEN 1 ELSE 0

Rounds ==
    Wrap % N = 0 =>
        \A i, j \in Threads : served[i] - served[j] = Ahead(i) - Ahead(j)

Awaited ==
    /\ owner \in Starting => thread[current] # "none"
    /\ owner \in Starting \ {"spawn"} => thread[current] # "created"
    /\ owner = "blocked" => ~loop[current] \/ thread[current] = "notify"

IInv ==
    /\ TypeOK
    /\ Rounds
    /\ Awaited
    /\ LoopIsPublished
    /\ HeldLoop
    /\ Untouched
    /\ ~selfQuit => NotQuitting /\ UpAndRunning

(***************************************************************************)
(* start() comes back once the EventLoops have been created, unless a      *)
(* sub-loop quits by itself meanwhile.                                     *)
(***************************************************************************)
StartReturns == owner = "spawn" ~> owner = "serving" \/ selfQuit

(***************************************************************************)
(* start() comes back once the EventLoops have been created.               *)
(***************************************************************************)
StartAlwaysReturns == owner = "spawn" ~> owner = "serving"

(***************************************************************************)
(* The destructor of a pool whose loops were not quit by user code joins   *)
(* every loop thread and comes back.                                       *)
(***************************************************************************)
DestructorReturns == owner = "destroy" /\ ~selfQuit ~> owner = "gone" \/ selfQuit

(***************************************************************************)
(* The destructor does come back if it starts when every sub-loop has      *)
(* entered loop(), also if some have quit by themselves.                   *)
(***************************************************************************)
Entered == {"loop", "withdraw", "unwind", "ended"}

EnteredLoopsAreJoined ==
    owner = "destroy" /\ (\A i \in Threads : thread[i] \in Entered) ~> owner = "gone"
=============================================================================
