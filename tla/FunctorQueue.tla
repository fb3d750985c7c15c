---------------------------- MODULE FunctorQueue ----------------------------
(***************************************************************************)
(* What EventLoop::queueInLoop and EventLoop::runInLoop promise their      *)
(* callers: a functor handed to the loop is run at most once, and queued   *)
(* functors are run in the order in which they were queued.  How the loop  *)
(* is woken, which batch a functor travels in and what the poller does is  *)
(* left to EventLoop, which is shown to implement this module.             *)
(***************************************************************************)
EXTENDS Naturals, Sequences

CONSTANT Functors       \* the functor objects that may be handed to the loop

VARIABLES
    fresh,              \* functors not handed over yet
    waiting,            \* queued functors, the oldest first
    ran                 \* functors that were called

vars == <<fresh, waiting, ran>>

Init ==
    /\ fresh = Functors
    /\ waiting = <<>>
    /\ ran = {}

\* queueInLoop, and runInLoop on another thread
Queue(f) ==
    /\ f \in fresh
    /\ fresh' = fresh \ {f}
    /\ waiting' = Append(waiting, f)
    /\ UNCHANGED ran

\* runInLoop on the loop's own thread calls the functor at once
RunNow(f) ==
    /\ f \in fresh
    /\ fresh' = fresh \ {f}
    /\ ran' = ran \union {f}
    /\ UNCHANGED waiting

RunNext ==
    /\ waiting # <<>>
    /\ ran' = ran \union {Head(waiting)}
    /\ waiting' = Tail(waiting)
    /\ UNCHANGED fresh

Next ==
    \/ \E f \in Functors : Queue(f) \/ RunNow(f)
    \/ RunNext

Spec == Init /\ [][Next]_vars

Elements(s) == {s[i] : i \in 1..Len(s)}

(***************************************************************************)
(* Every functor is in exactly one place: not handed over, at one position *)
(* of the queue, or called.  None is lost, duplicated or called twice.     *)
(***************************************************************************)
InOnePlace ==
    /\ fresh \union ran \union Elements(waiting) = Functors
    /\ fresh \intersect ran = {}
    /\ \A i \in 1..Len(waiting) : waiting[i] \notin fresh \union ran
    /\ \A i, j \in 1..Len(waiting) : waiting[i] = waiting[j] => i = j
=============================================================================
