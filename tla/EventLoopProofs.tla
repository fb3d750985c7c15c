--------------------------- MODULE EventLoopProofs ---------------------------
(***************************************************************************)
(* Theorems about EventLoop, for any functors, any threads, any limit of   *)
(* the eventfd counter and any poll timeouts.                              *)
(***************************************************************************)
EXTENDS EventLoop, SequenceTheorems, TLAPS

\* What Bumped does to the counter: it stays in range and is never zero.
LEMMA BumpedPositive ==
    ASSUME TypeOK
    PROVE  Bumped \in 0..EventfdMax /\ Bumped > 0
BY EventfdMaxAssumption DEF TypeOK, Bumped

\* Pushing a functor adds it to the elements of the queue, and nothing else.
LEMMA ElementsAppend ==
    ASSUME NEW S, NEW s \in Seq(S), NEW f \in S
    PROVE  Elements(Append(s, f)) = Elements(s) \union {f}
<1>1. /\ Len(s) \in Nat
      /\ Len(Append(s, f)) = Len(s) + 1
      /\ Append(s, f)[Len(s) + 1] = f
      /\ \A i \in 1..Len(s) : Append(s, f)[i] = s[i]
  BY AppendProperties, LenProperties
<1>2. 1..Len(s) + 1 = 1..Len(s) \union {Len(s) + 1}
  BY <1>1
<1>3. QED
  BY <1>1, <1>2, Zenon DEF Elements

LEMMA ElementsEmpty == Elements(<<>>) = {}
BY DEF Elements

-----------------------------------------------------------------------------
(* Type correctness, one step per action.                                  *)

LEMMA InitTypeOK == Init => TypeOK
<1> SUFFICES ASSUME Init
             PROVE  TypeOK
  OBVIOUS
<1>1. <<>> \in Seq(Functors)
  BY EmptySeq
<1>2. /\ callback \in BOOLEAN
      /\ quit \in BOOLEAN
      /\ pending \in BOOLEAN
  BY Zenon DEF Init
<1>3. QED
  BY <1>1, <1>2, EventfdMaxAssumption DEF Init, TypeOK

LEMMA NextTypeOK == TypeOK /\ [Next]_vars => TypeOK'
<1> SUFFICES ASSUME TypeOK, [Next]_vars
             PROVE  TypeOK'
  OBVIOUS
<1> USE DEF TypeOK, loopVars, sharedVars
<1>1. CASE EnterLoop
  BY <1>1 DEF EnterLoop
<1>2. CASE Check
  BY <1>2 DEF Check
<1>3. CASE PollWake \/ PollTimeout \/ PollOther
  BY <1>3 DEF PollWake, PollTimeout, PollOther, PollReturns
<1>4. CASE HandleWakeup
  BY <1>4, EventfdMaxAssumption DEF HandleWakeup
<1>5. CASE HandleIO \/ EndCallback
  BY <1>5 DEF HandleIO, EndCallback
<1>6. CASE BeginPending \/ EndPending \/ DropFunctors
  BY <1>6 DEF BeginPending, EndPending, DropFunctors
<1>7. CASE Swap
  BY <1>7 DEF Swap
<1>8. CASE RunFunctor
  <2>1. Head(batch) \in Functors /\ Tail(batch) \in Seq(Functors)
    BY <1>8, HeadTailProperties DEF RunFunctor
  <2>2. QED
    BY <1>8, <2>1 DEF RunFunctor
<1>9. ASSUME NEW f \in Functors, LoopQueue(f)
      PROVE  TypeOK'
  <2>1. Append(queue, f) \in Seq(Functors)
    BY AppendProperties
  <2>2. QED
    BY <1>9, <2>1, BumpedPositive DEF LoopQueue, WakeupIfPending
<1>10. ASSUME NEW f \in Functors, LoopRun(f)
       PROVE  TypeOK'
  BY <1>10 DEF LoopRun
<1>11. CASE LoopQuit
  BY <1>11 DEF LoopQuit
<1>12. ASSUME NEW t \in Callers, NEW f \in Functors, Post(t, f)
       PROVE  TypeOK'
  <2>1. Append(queue, f) \in Seq(Functors)
    BY AppendProperties
  <2>2. QED
    BY <1>12, <2>1 DEF Post
<1>13. ASSUME NEW t \in Callers, PostQuit(t)
       PROVE  TypeOK'
  BY <1>13 DEF PostQuit
<1>14. ASSUME NEW t \in Callers, Wakeup(t)
       PROVE  TypeOK'
  BY <1>14, BumpedPositive DEF Wakeup
<1>15. ASSUME NEW ms \in Timeouts, SetTimeoutMs(ms)
       PROVE  TypeOK'
  BY <1>15 DEF SetTimeoutMs
<1>16. CASE UNCHANGED vars
  BY <1>16 DEF vars
<1>17. QED
  BY <1>1, <1>2, <1>3, <1>4, <1>5, <1>6, <1>7, <1>8, <1>9, <1>10, <1>11, <1>12,
     <1>13, <1>14, <1>15, <1>16
     DEF Next, LoopStep, UserStep, CallerStep

\* Every variable keeps its type in every reachable state; in particular the
\* eventfd counter never exceeds its limit.
THEOREM TypeCorrect == Spec => []TypeOK
BY InitTypeOK, NextTypeOK, PTL DEF Spec

-----------------------------------------------------------------------------
(* No lost wakeup: IInv is inductive and implies it.                       *)

LEMMA InitIInv == Init => IInv
BY InitTypeOK, ElementsEmpty DEF Init, IInv, Phases, PromiseKept, Loud

LEMMA NextPhases == TypeOK /\ Phases /\ [Next]_vars => Phases'
BY DEF TypeOK, Phases, Next, LoopStep, UserStep, CallerStep, EnterLoop, Check,
       PollWake, PollTimeout, PollOther, PollReturns, HandleWakeup, HandleIO,
       EndCallback, BeginPending, Swap, RunFunctor, EndPending, DropFunctors,
       LoopQueue, LoopRun, LoopQuit, Post, PostQuit, Wakeup, SetTimeoutMs,
       OnLoopThread, loopVars, sharedVars, vars

\* A step that leaves the queue, the quiet functors, the counter and the
\* callers alone keeps the promise unless it leaves handle or swap.
LEMMA PromiseFrame ==
    ASSUME PromiseKept, UNCHANGED <<queue, quiet, wakeups, calls>>,
           pc' \notin {"handle", "swap"} => pc \notin {"handle", "swap"}
    PROVE  PromiseKept'
BY DEF PromiseKept, Loud, Elements, WakeupPromised

LEMMA NextPromiseKept == IInv /\ [Next]_vars => PromiseKept'
<1> SUFFICES ASSUME TypeOK, Phases, PromiseKept, [Next]_vars
             PROVE  PromiseKept'
  BY DEF IInv
<1>1. CASE \/ EnterLoop \/ Check \/ PollWake \/ PollTimeout \/ PollOther
           \/ HandleIO \/ EndCallback \/ BeginPending \/ RunFunctor
           \/ EndPending \/ DropFunctors \/ LoopQuit
           \/ UNCHANGED vars
           \/ \E f \in Functors : LoopRun(f)
           \/ \E ms \in Timeouts : SetTimeoutMs(ms)
  <2>1. /\ UNCHANGED <<queue, quiet, wakeups, calls>>
        /\ pc' \notin {"handle", "swap"} => pc \notin {"handle", "swap"}
    BY <1>1 DEF EnterLoop, Check, PollWake, PollTimeout, PollOther, PollReturns,
                HandleIO, EndCallback, BeginPending, RunFunctor, EndPending,
                DropFunctors, LoopQuit, LoopRun, SetTimeoutMs, loopVars,
                sharedVars, vars
  <2>2. QED
    BY <2>1, PromiseFrame
<1>2. CASE HandleWakeup
  BY <1>2 DEF HandleWakeup, PromiseKept
<1>3. CASE Swap
  BY <1>3, ElementsEmpty DEF Swap, PromiseKept, Loud
<1>4. ASSUME NEW f \in Functors, LoopQueue(f)
      PROVE  PromiseKept'
  <2>1. Elements(queue)' = Elements(queue) \union {f}
    BY <1>4, ElementsAppend DEF LoopQueue, TypeOK
  <2>2. CASE callback /\ pc = "run"
    <3>1. wakeups' > 0
      BY <1>4, <2>2, BumpedPositive DEF LoopQueue, WakeupIfPending, Phases
    <3>2. QED
      BY <3>1 DEF PromiseKept, WakeupPromised
  <2>3. CASE callback /\ pc = "handle"
    BY <1>4, <2>3 DEF LoopQueue, PromiseKept, loopVars
  <2>4. CASE ~callback
    <3>1. Loud' \subseteq Loud
      BY <1>4, <2>1, <2>4 DEF LoopQueue, Loud
    <3>2. /\ pc' = pc
          /\ calls' = calls
          /\ wakeups > 0 => wakeups' > 0
      BY <1>4, BumpedPositive DEF LoopQueue, WakeupIfPending, loopVars
    <3>3. QED
      BY <3>1, <3>2 DEF PromiseKept, WakeupPromised
  <2>5. QED
    BY <2>2, <2>3, <2>4 DEF Phases
<1>5. ASSUME NEW t \in Callers, NEW f \in Functors, Post(t, f)
      PROVE  PromiseKept'
  BY <1>5 DEF Post, TypeOK, PromiseKept, WakeupPromised
<1>6. ASSUME NEW t \in Callers, PostQuit(t)
      PROVE  PromiseKept'
  BY <1>6 DEF PostQuit, TypeOK, PromiseKept, WakeupPromised
<1>7. ASSUME NEW t \in Callers, Wakeup(t)
      PROVE  PromiseKept'
  BY <1>7, BumpedPositive DEF Wakeup, PromiseKept, WakeupPromised
<1>8. QED
  BY <1>1, <1>2, <1>3, <1>4, <1>5, <1>6, <1>7
     DEF Next, LoopStep, UserStep, CallerStep

LEMMA NextIInv == IInv /\ [Next]_vars => IInv'
BY NextTypeOK, NextPhases, NextPromiseKept DEF IInv

\* The strengthened invariant holds in every reachable state.
THEOREM Invariance == Spec => []IInv
BY InitIInv, NextIInv, PTL DEF Spec

\* The loop never blocks in poll on a functor queued by another thread or by
\* a callback unless a wakeup is in the eventfd or about to be written to it.
THEOREM NoWakeupIsLost == Spec => []NoLostWakeup
<1>1. IInv => NoLostWakeup
  BY DEF IInv, PromiseKept, NoLostWakeup
<1>2. QED
  BY Invariance, <1>1, PTL

-----------------------------------------------------------------------------
(* Refinement of FunctorQueue.                                             *)

LEMMA InitAbstract == Init => Abstract!Init
BY EmptySeq, ConcatEmptySeq DEF Init, Abstract!Init

LEMMA StepAbstract == IInv /\ [Next]_vars => [Abstract!Next]_(Abstract!vars)
<1> SUFFICES ASSUME TypeOK, Phases, [Next]_vars
             PROVE  [Abstract!Next]_(Abstract!vars)
  BY DEF IInv
<1> DEFINE waiting == batch \o queue
<1>0. batch \in Seq(Functors) /\ queue \in Seq(Functors)
  BY DEF TypeOK
<1>1. CASE UNCHANGED <<fresh, ran, batch, queue>>
  BY <1>1 DEF Abstract!vars
<1>2. CASE Swap
  <2>1. batch = <<>>
    BY <1>2 DEF Swap, Phases
  <2>2. waiting' = waiting
    BY <1>0, <1>2, <2>1, ConcatEmptySeq DEF Swap
  <2>3. QED
    BY <1>2, <2>2 DEF Swap, Abstract!vars
<1>3. CASE RunFunctor
  <2>1. waiting # <<>>
    BY <1>0, <1>3, ConcatEqualIffEmpty DEF RunFunctor
  <2>2. /\ Head(waiting) = Head(batch)
        /\ Tail(waiting) = Tail(batch) \o queue
    <3>1. /\ Len(batch) \in Nat \ {0}
          /\ Len(queue) \in Nat
      BY <1>0, <1>3, EmptySeq, LenProperties DEF RunFunctor
    <3>2. /\ waiting \in Seq(Functors)
          /\ Len(waiting) = Len(batch) + Len(queue)
          /\ \A i \in 1..Len(waiting) :
                waiting[i] = IF i <= Len(batch) THEN batch[i] ELSE queue[i - Len(batch)]
      BY <1>0, ConcatProperties
    <3>3. /\ Tail(batch) \in Seq(Functors)
          /\ Len(Tail(batch)) = Len(batch) - 1
          /\ \A i \in 1..Len(Tail(batch)) : Tail(batch)[i] = batch[i + 1]
      BY <1>0, <1>3, HeadTailProperties DEF RunFunctor
    <3>4. /\ Tail(waiting) \in Seq(Functors)
          /\ Len(Tail(waiting)) = Len(waiting) - 1
          /\ \A i \in 1..Len(Tail(waiting)) : Tail(waiting)[i] = waiting[i + 1]
      BY <2>1, <3>2, HeadTailProperties
    <3>5. LET rest == Tail(batch) \o queue IN
          /\ rest \in Seq(Functors)
          /\ Len(rest) = Len(Tail(batch)) + Len(queue)
          /\ \A i \in 1..Len(rest) :
                rest[i] = IF i <= Len(Tail(batch)) THEN Tail(batch)[i]
                                                   ELSE queue[i - Len(Tail(batch))]
      BY <1>0, <3>3, ConcatProperties
    <3>6. \A i \in 1..Len(Tail(waiting)) : Tail(waiting)[i] = (Tail(batch) \o queue)[i]
      BY <3>1, <3>2, <3>3, <3>4, <3>5
    <3>7. Len(Tail(waiting)) = Len(Tail(batch) \o queue)
      BY <3>1, <3>2, <3>3, <3>4, <3>5
    <3>8. Tail(waiting) = Tail(batch) \o queue
      BY <3>4, <3>5, <3>6, <3>7, SeqEqual
    <3>9. Head(waiting) = Head(batch)
      BY <3>1, <3>2
    <3>10. QED
      BY <3>8, <3>9
  <2>3. waiting' = Tail(waiting) /\ ran' = ran \union {Head(waiting)} /\ fresh' = fresh
    BY <1>3, <2>2 DEF RunFunctor, sharedVars
  <2>4. Abstract!RunNext
    BY <2>1, <2>3 DEF Abstract!RunNext
  <2>5. QED
    BY <2>4 DEF Abstract!Next
<1>4. ASSUME NEW f \in Functors,
             f \in fresh, fresh' = fresh \ {f}, UNCHANGED <<batch, ran>>,
             queue' = Append(queue, f)
      PROVE  Abstract!Queue(f)
  <2>1. waiting' = Append(waiting, f)
    <3>1. <<f>> \in Seq(Functors) /\ waiting \in Seq(Functors)
      BY <1>0, ConcatProperties
    <3>2. /\ Append(queue, f) = queue \o <<f>>
          /\ Append(waiting, f) = waiting \o <<f>>
      BY <1>0, <3>1, AppendIsConcat
    <3>3. QED
      BY <1>0, <1>4, <3>1, <3>2, ConcatAssociative
  <2>2. QED
    BY <1>4, <2>1 DEF Abstract!Queue
<1>5. ASSUME NEW f \in Functors, LoopQueue(f)
      PROVE  Abstract!Queue(f)
  BY <1>4, <1>5 DEF LoopQueue, loopVars
<1>6. ASSUME NEW f \in Functors, NEW t \in Callers, Post(t, f)
      PROVE  Abstract!Queue(f)
  BY <1>4, <1>6 DEF Post, loopVars
<1>7. ASSUME NEW f \in Functors, LoopRun(f)
      PROVE  Abstract!RunNow(f)
  BY <1>7 DEF LoopRun, loopVars, sharedVars, Abstract!RunNow
<1>8. CASE \/ \E f \in Functors : LoopQueue(f) \/ LoopRun(f)
           \/ \E t \in Callers, f \in Functors : Post(t, f)
  BY <1>5, <1>6, <1>7, <1>8 DEF Abstract!Next
<1>9. CASE \/ EnterLoop \/ Check \/ PollWake \/ PollTimeout \/ PollOther
           \/ HandleWakeup \/ HandleIO \/ EndCallback \/ BeginPending
           \/ EndPending \/ DropFunctors \/ LoopQuit
           \/ UNCHANGED vars
           \/ \E t \in Callers : PostQuit(t) \/ Wakeup(t)
           \/ \E ms \in Timeouts : SetTimeoutMs(ms)
  <2>1. UNCHANGED <<fresh, ran, batch, queue>>
    BY <1>9 DEF EnterLoop, Check, PollWake, PollTimeout, PollOther, PollReturns,
                HandleWakeup, HandleIO, EndCallback, BeginPending, EndPending,
                DropFunctors, LoopQuit, PostQuit, Wakeup, SetTimeoutMs,
                loopVars, sharedVars, vars
  <2>2. QED
    BY <1>1, <2>1
<1>10. QED
  BY <1>2, <1>3, <1>8, <1>9 DEF Next, LoopStep, UserStep, CallerStep

\* queueInLoop and runInLoop keep the promise of FunctorQueue: at most one
\* call of each functor, in the order of queueing, from any threads.
THEOREM Refinement == Spec => ImplementsFunctorQueue
<1>1. Spec => Abstract!Init /\ [][Abstract!Next]_(Abstract!vars)
  BY InitAbstract, StepAbstract, Invariance, PTL DEF Spec
<1>2. QED
  BY <1>1 DEF ImplementsFunctorQueue, Abstract!Spec

-----------------------------------------------------------------------------
(***************************************************************************)
(* What FunctorQueue promises follows for EventLoop: a set of functors not *)
(* handed over, a queue and a set of called ones share nothing.            *)
(***************************************************************************)
OnePlace(unused, w, called) ==
    /\ unused \union called \union Elements(w) = Functors
    /\ unused \intersect called = {}
    /\ \A i \in 1..Len(w) : w[i] \notin unused \union called
    /\ \A i, j \in 1..Len(w) : w[i] = w[j] => i = j

LEMMA QueueKeepsOnePlace ==
    ASSUME NEW unused \in SUBSET Functors, NEW w \in Seq(Functors), NEW called \in SUBSET Functors,
           OnePlace(unused, w, called), NEW f \in unused
    PROVE  OnePlace(unused \ {f}, Append(w, f), called)
<1> DEFINE v == Append(w, f)
<1>1. /\ Len(w) \in Nat
      /\ Len(v) = Len(w) + 1
      /\ \A i \in 1..Len(w) : v[i] = w[i]
      /\ v[Len(w) + 1] = f
  BY AppendProperties, LenProperties
<1>2. 1..Len(v) = 1..Len(w) \union {Len(w) + 1}
  BY <1>1
<1>3. Elements(v) = Elements(w) \union {f}
  BY ElementsAppend
<1> HIDE DEF v
<1>4. (unused \ {f}) \union called \union Elements(v) = Functors
  BY <1>3 DEF OnePlace
<1>5. \A i \in 1..Len(v) : v[i] \notin (unused \ {f}) \union called
  BY <1>1, <1>2 DEF OnePlace
<1>6. \A i, j \in 1..Len(v) : v[i] = v[j] => i = j
  BY <1>1, <1>2 DEF OnePlace
<1>7. (unused \ {f}) \intersect called = {}
  BY DEF OnePlace
<1>8. OnePlace(unused \ {f}, v, called)
  BY <1>4, <1>5, <1>6, <1>7 DEF OnePlace
<1> QED BY <1>8 DEF v

LEMMA RunKeepsOnePlace ==
    ASSUME NEW unused \in SUBSET Functors, NEW w \in Seq(Functors), NEW called \in SUBSET Functors,
           OnePlace(unused, w, called), w # <<>>
    PROVE  OnePlace(unused, Tail(w), called \union {Head(w)})
<1> DEFINE v == Tail(w)
<1>1. /\ Len(w) \in Nat \ {0}
      /\ v \in Seq(Functors)
      /\ Len(v) = Len(w) - 1
      /\ \A i \in 1..Len(v) : v[i] = w[i + 1]
      /\ Head(w) = w[1]
  BY HeadTailProperties, EmptySeq
<1> HIDE DEF v
<1>2. \A i \in 1..Len(v) : i + 1 \in 1..Len(w) /\ i + 1 # 1 /\ v[i] = w[i + 1]
  BY <1>1
<1>3. \A i \in 1..Len(w) : i = 1 \/ (i - 1 \in 1..Len(v) /\ w[i] = v[i - 1])
  BY <1>1
<1>4. 1 \in 1..Len(w)
  BY <1>1
<1>5. Elements(w) = Elements(v) \union {w[1]}
  <2>1. Elements(w) \subseteq Elements(v) \union {w[1]}
    BY <1>3 DEF Elements
  <2>2. Elements(v) \union {w[1]} \subseteq Elements(w)
    BY <1>2, <1>4 DEF Elements
  <2> QED BY <2>1, <2>2
<1>6. unused \union (called \union {w[1]}) \union Elements(v) = Functors
  BY <1>5 DEF OnePlace
<1>7. w[1] \notin unused
  BY <1>4 DEF OnePlace
<1>8. \A i \in 1..Len(v) : v[i] \notin unused \union (called \union {w[1]})
  BY <1>2, <1>4 DEF OnePlace
<1>9. \A i, j \in 1..Len(v) : v[i] = v[j] => i = j
  <2> SUFFICES ASSUME NEW i \in 1..Len(v), NEW j \in 1..Len(v), v[i] = v[j]
               PROVE  i = j
    OBVIOUS
  <2>1. i + 1 = j + 1
    BY <1>2 DEF OnePlace
  <2> QED BY <1>1, <2>1
<1>10. OnePlace(unused, v, called \union {w[1]})
  BY <1>6, <1>7, <1>8, <1>9 DEF OnePlace
<1> QED BY <1>1, <1>10 DEF v

LEMMA InitOnePlace == Abstract!Init => OnePlace(fresh, batch \o queue, ran)
<1> SUFFICES ASSUME Abstract!Init
             PROVE  OnePlace(fresh, batch \o queue, ran)
  OBVIOUS
<1>1. batch \o queue = <<>> /\ fresh = Functors /\ ran = {}
  BY DEF Abstract!Init
<1>2. Len(<<>>) = 0 /\ 1..0 = {}
  BY EmptySeq
<1> QED BY <1>1, <1>2, ElementsEmpty DEF OnePlace

LEMMA StepOnePlace ==
    ASSUME TypeOK, OnePlace(fresh, batch \o queue, ran), [Abstract!Next]_(Abstract!vars)
    PROVE  OnePlace(fresh, batch \o queue, ran)'
<1> DEFINE w == batch \o queue
<1>1. fresh \in SUBSET Functors /\ ran \in SUBSET Functors /\ w \in Seq(Functors)
  BY ConcatProperties DEF TypeOK
<1>2. ASSUME NEW f \in Functors, Abstract!Queue(f)
      PROVE  OnePlace(fresh', w', ran')
  <2>1. f \in fresh /\ fresh' = fresh \ {f} /\ w' = Append(w, f) /\ ran' = ran
    BY <1>2 DEF Abstract!Queue
  <2> QED BY <1>1, <2>1, QueueKeepsOnePlace
<1>3. ASSUME NEW f \in Functors, Abstract!RunNow(f)
      PROVE  OnePlace(fresh', w', ran')
  <2>1. f \in fresh /\ fresh' = fresh \ {f} /\ w' = w /\ ran' = ran \union {f}
    BY <1>3 DEF Abstract!RunNow
  <2> HIDE DEF w
  <2>2. OnePlace(fresh, w, ran)
    BY DEF w
  <2> QED BY <1>1, <2>1, <2>2 DEF OnePlace
<1>4. CASE Abstract!RunNext
  <2>1. w # <<>> /\ fresh' = fresh /\ w' = Tail(w) /\ ran' = ran \union {Head(w)}
    BY <1>4 DEF Abstract!RunNext
  <2> QED BY <1>1, <2>1, RunKeepsOnePlace
<1>5. CASE UNCHANGED Abstract!vars
  BY <1>5 DEF Abstract!vars
<1>6. OnePlace(fresh', w', ran')
  BY <1>2, <1>3, <1>4, <1>5 DEF Abstract!Next
<1> QED BY <1>6

\* Every functor is at one position of the batch that is being run or of the
\* queue, or was called, or was never handed to queueInLoop or runInLoop: none
\* is lost, duplicated or called twice.
THEOREM ExactlyOnce == Spec => []Abstract!InOnePlace
<1>1. Spec => []TypeOK /\ Abstract!Init /\ [][Abstract!Next]_(Abstract!vars)
  BY TypeCorrect, InitAbstract, StepAbstract, Invariance, PTL DEF Spec
<1>2. Spec => []OnePlace(fresh, batch \o queue, ran)
  BY <1>1, InitOnePlace, StepOnePlace, PTL
<1>3. OnePlace(fresh, batch \o queue, ran) => Abstract!InOnePlace
  BY DEF OnePlace, Abstract!InOnePlace, Elements, Abstract!Elements
<1> QED BY <1>2, <1>3, PTL
=============================================================================
