------------------------- MODULE TimerManagerProofs -------------------------
(***************************************************************************)
(* Theorems about TimerManager, for any number of timers, any deadlines    *)
(* and intervals, any threads, and with or without a settable wall clock.  *)
(***************************************************************************)
EXTENDS TimerManager, SequenceTheorems, TLAPS

\* Every step is one of these (the disjuncts of Next, flattened).
LEMMA NextCases ==
    Next <=>
        \/ \E deadline \in Times, repeat \in Intervals : LoopAdd(deadline, repeat)
        \/ \E t \in Callers, deadline \in Times, repeat \in Intervals :
               Add(t, deadline, repeat)
        \/ \E s \in Seqs : LoopCancel(s)
        \/ \E t \in Callers, s \in Seqs : Cancel(t, s)
        \/ \E t \in Callers : ReturnId(t)
        \/ PollReturns \/ HandleRead \/ RunFunctor \/ BackToPoll
        \/ RunTimer \/ TimerDone \/ EndRead
        \/ Tick \/ SetClock
BY DEF Next, UserStep, LoopStep, PollOther

-----------------------------------------------------------------------------
(* What the functors of addEvent and cancelEvent do to the types.          *)

LEMMA ResetType ==
    ASSUME TypeOK, NEW deadline \in Nat, ResetTimerfd(deadline)
    PROVE  /\ left' \in Nat /\ left' > 0
           /\ readable' = FALSE
           /\ now + left' <= Latest(deadline)
BY BoundsAssumption DEF TypeOK, ResetTimerfd, Times, Latest

LEMMA AddTimerType ==
    ASSUME TypeOK, NEW s \in Seqs, NEW deadline \in Nat, AddTimer(s, deadline)
    PROVE  /\ left' \in Nat
           /\ readable' \in BOOLEAN
           /\ order' \subseteq Nat \X Seqs
           /\ timers' \subseteq Seqs
           /\ cancelled' = cancelled
           /\ dead' = dead
<1>1. left' \in Nat /\ readable' \in BOOLEAN
  <2>1. CASE UNCHANGED fdVars
    BY <2>1 DEF TypeOK, fdVars
  <2>2. CASE ResetTimerfd(deadline)
    BY <2>2, ResetType, Zenon
  <2>3. QED
    BY <2>1, <2>2 DEF AddTimer
<1>2. QED
  BY <1>1 DEF AddTimer, TypeOK

LEMMA CancelTimerType ==
    ASSUME TypeOK, NEW s \in Seqs, CancelTimer(s)
    PROVE  /\ left' \in Nat
           /\ readable' \in BOOLEAN
           /\ order' \subseteq order
           /\ timers' \subseteq timers
           /\ cancelled' \subseteq Seqs
           /\ dead' \subseteq Seqs
<1>1. left' \in Nat /\ readable' \in BOOLEAN
  <2>1. CASE UNCHANGED fdVars
    BY <2>1 DEF TypeOK, fdVars
  <2>2. CASE ResetToFirst(order') /\ order' \subseteq order
    <3>1. PICK e \in order' : ResetTimerfd(e[1])
      BY <2>2 DEF ResetToFirst
    <3>2. e[1] \in Nat
      BY <2>2, <3>1 DEF TypeOK
    <3>3. QED
      BY <3>1, <3>2, ResetType, Zenon
  <2>3. QED
    BY <2>1, <2>2 DEF CancelTimer
<1>2. QED
  BY <1>1 DEF CancelTimer, KeptIfRunning, TypeOK

LEMMA NewTimerType ==
    ASSUME TypeOK, NEW deadline \in Times, NEW repeat \in Intervals,
           NewTimer(deadline, repeat)
    PROVE  /\ lastSeq' \in Seqs /\ lastSeq' = lastSeq + 1
           /\ lastSeq' \in 0..MaxTimers
           /\ when' \in [Seqs -> Nat]
           /\ interval' \in [Seqs -> Intervals \union {0}]
           /\ when'[lastSeq'] = deadline
           /\ \A s \in Seqs : s # lastSeq' => when'[s] = when[s]
           /\ deadline \in Nat
BY BoundsAssumption DEF TypeOK, NewTimer, Times, Seqs

\* The head of the mailbox is a call, and the rest is a mailbox.
LEMMA MailboxType ==
    ASSUME TypeOK, mailbox # <<>>
    PROVE  /\ Len(mailbox) \in Nat \ {0}
           /\ Head(mailbox) = mailbox[1]
           /\ mailbox[1] \in {"add", "cancel"} \X Seqs
           /\ Tail(mailbox) \in Seq({"add", "cancel"} \X Seqs)
           /\ Len(Tail(mailbox)) = Len(mailbox) - 1
           /\ \A i \in 1..Len(Tail(mailbox)) : Tail(mailbox)[i] = mailbox[i + 1]
<1> mailbox \in Seq({"add", "cancel"} \X Seqs)
  BY DEF TypeOK
<1>1. Len(mailbox) \in Nat \ {0}
  BY EmptySeq
<1>2. mailbox[1] \in {"add", "cancel"} \X Seqs /\ Head(mailbox) = mailbox[1]
  BY <1>1, ElementOfSeq
<1>3. QED
  BY <1>1, <1>2, HeadTailProperties

-----------------------------------------------------------------------------
(* Type correctness.                                                       *)

LEMMA InitTypeOK == Init => TypeOK
<1> SUFFICES ASSUME Init
             PROVE  TypeOK
  OBVIOUS
<1>1. /\ mailbox \in Seq({"add", "cancel"} \X Seqs)
      /\ calls \in [Callers -> Seqs \union {0}]
  BY EmptySeq DEF Init
<1>2. /\ readable \in BOOLEAN
      /\ fired \in BOOLEAN
  BY Zenon DEF Init
<1>3. QED
  BY <1>1, <1>2, BoundsAssumption DEF Init, TypeOK, Times

LEMMA NextTypeOK == TypeOK /\ [Next]_vars => TypeOK'
<1> SUFFICES ASSUME TypeOK, [Next]_vars
             PROVE  TypeOK'
  OBVIOUS
<1> USE DEF clockVars, fdVars, tableVars, callVars
<1>1. ASSUME NEW deadline \in Times, NEW repeat \in Intervals,
             LoopAdd(deadline, repeat)
      PROVE  TypeOK'
  <2>1. NewTimer(deadline, repeat) /\ AddTimer(lastSeq', deadline)
    BY <1>1 DEF LoopAdd
  <2>2. /\ lastSeq' \in Seqs /\ lastSeq' \in 0..MaxTimers
        /\ when' \in [Seqs -> Nat]
        /\ interval' \in [Seqs -> Intervals \union {0}]
        /\ deadline \in Nat
    BY <2>1, NewTimerType
  <2>3. /\ left' \in Nat /\ readable' \in BOOLEAN
        /\ order' \subseteq Nat \X Seqs /\ timers' \subseteq Seqs
        /\ cancelled' = cancelled /\ dead' = dead
    BY <2>1, <2>2, AddTimerType
  <2>4. QED
    BY <1>1, <2>2, <2>3 DEF LoopAdd, TypeOK
<1>2. ASSUME NEW s \in Seqs, LoopCancel(s)
      PROVE  TypeOK'
  <2>1. /\ left' \in Nat /\ readable' \in BOOLEAN
        /\ order' \subseteq order /\ timers' \subseteq timers
        /\ cancelled' \subseteq Seqs /\ dead' \subseteq Seqs
    BY <1>2, CancelTimerType DEF LoopCancel
  <2>2. QED
    BY <1>2, <2>1 DEF LoopCancel, TypeOK
<1>3. ASSUME NEW t \in Callers, NEW deadline \in Times, NEW repeat \in Intervals,
             Add(t, deadline, repeat)
      PROVE  TypeOK'
  <2>1. /\ lastSeq' \in Seqs /\ lastSeq' \in 0..MaxTimers
        /\ when' \in [Seqs -> Nat]
        /\ interval' \in [Seqs -> Intervals \union {0}]
    BY <1>3, NewTimerType DEF Add, Pushed
  <2>2. mailbox' \in Seq({"add", "cancel"} \X Seqs)
    BY <1>3, <2>1, AppendProperties DEF Add, Pushed, TypeOK
  <2>3. QED
    BY <1>3, <2>1, <2>2 DEF Add, TypeOK
<1>4. ASSUME NEW t \in Callers, NEW s \in Seqs, Cancel(t, s)
      PROVE  TypeOK'
  <2>1. mailbox' \in Seq({"add", "cancel"} \X Seqs)
    BY <1>4, AppendProperties DEF Cancel, Pushed, TypeOK
  <2>2. QED
    BY <1>4, <2>1 DEF Cancel, TypeOK
<1>5. ASSUME NEW t \in Callers, ReturnId(t)
      PROVE  TypeOK'
  BY <1>5, BoundsAssumption DEF ReturnId, TypeOK, Seqs
<1>6. CASE PollReturns \/ HandleRead \/ BackToPoll
  BY <1>6 DEF PollReturns, HandleRead, BackToPoll, TypeOK
<1>7. CASE RunFunctor
  <2> DEFINE s == Head(mailbox)[2]
  <2>1. s \in Seqs /\ Tail(mailbox) \in Seq({"add", "cancel"} \X Seqs)
    BY <1>7, MailboxType DEF RunFunctor
  <2>2. when[s] \in Nat
    BY <2>1 DEF TypeOK
  <2>3. CASE AddTimer(s, when[s])
    <3>1. /\ left' \in Nat /\ readable' \in BOOLEAN
          /\ order' \subseteq Nat \X Seqs /\ timers' \subseteq Seqs
          /\ cancelled' = cancelled /\ dead' = dead
      BY <2>1, <2>2, <2>3, AddTimerType
    <3>2. QED
      BY <1>7, <2>1, <3>1 DEF RunFunctor, TypeOK
  <2>4. CASE CancelTimer(s)
    <3>1. /\ left' \in Nat /\ readable' \in BOOLEAN
          /\ order' \subseteq order /\ timers' \subseteq timers
          /\ cancelled' \subseteq Seqs /\ dead' \subseteq Seqs
      BY <2>1, <2>4, CancelTimerType
    <3>2. QED
      BY <1>7, <2>1, <3>1 DEF RunFunctor, TypeOK
  <2>5. QED
    BY <1>7, <2>3, <2>4 DEF RunFunctor
<1>8. CASE RunTimer
  BY <1>8 DEF RunTimer, TypeOK
<1>9. CASE TimerDone
  <2>1. CASE curr \notin timers
    BY <1>9, <2>1 DEF TimerDone, StillPending, EntryOf, TypeOK
  <2>2. CASE curr \in timers
    <3>1. curr \in Seqs /\ when[curr] \in Nat /\ interval[curr] \in Nat
      <4>1. curr \in Seqs
        BY <2>2 DEF TypeOK
      <4>2. interval[curr] \in Intervals \union {0} /\ when[curr] \in Nat
        BY <4>1 DEF TypeOK
      <4>3. \A x \in Intervals \union {0} : x \in Nat
        BY IntervalsAssumption
      <4>4. QED
        BY <4>1, <4>2, <4>3
    <3>2. /\ when' \in [Seqs -> Nat]
          /\ order' \subseteq Nat \X Seqs
          /\ timers' \subseteq Seqs
          /\ interval' = interval
      BY <1>9, <2>2, <3>1 DEF TimerDone, StillPending, EntryOf, TypeOK
    <3>3. /\ pc' = "scan"
          /\ curr' = 0
          /\ UNCHANGED <<clockVars, fdVars, fired, time, cancelled, callVars, dead>>
      BY <1>9 DEF TimerDone
    <3>4. QED
      BY <3>2, <3>3 DEF TypeOK
  <2>3. QED
    BY <2>1, <2>2
<1>10. CASE EndRead
  <2>1. left' \in Nat /\ readable' \in BOOLEAN
    <3>1. CASE UNCHANGED fdVars
      BY <3>1 DEF TypeOK
    <3>2. CASE ResetToFirst(order)
      <4>1. PICK e \in order : ResetTimerfd(e[1])
        BY <3>2 DEF ResetToFirst
      <4>2. QED
        BY <4>1, ResetType DEF TypeOK
    <3>3. QED
      BY <1>10, <3>1, <3>2 DEF EndRead
  <2>2. QED
    BY <1>10, <2>1 DEF EndRead, TypeOK
<1>11. CASE Tick
  BY <1>11, BoundsAssumption DEF Tick, TypeOK, Times
<1>12. CASE SetClock
  BY <1>12, BoundsAssumption DEF SetClock, TypeOK
<1>13. CASE UNCHANGED vars
  BY <1>13 DEF vars, TypeOK
<1>14. QED
  BY <1>1, <1>2, <1>3, <1>4, <1>5, <1>6, <1>7, <1>8, <1>9, <1>10, <1>11, <1>12,
     <1>13, NextCases

\* Every variable keeps its type in every reachable state.
THEOREM TypeCorrect == Spec => []TypeOK
BY InitTypeOK, NextTypeOK, PTL DEF Spec

-----------------------------------------------------------------------------
(* The map, the ordered set and the running timer.                         *)

LEMMA AddAgrees ==
    ASSUME TablesAgree, NEW s, NEW deadline, AddTimer(s, deadline),
           when'[s] = deadline, \A u \in timers : when'[u] = when[u]
    PROVE  TablesAgree'
<1>1. /\ order' = order \union {<<deadline, s>>}
      /\ timers' = timers \union {s}
  BY DEF AddTimer
<1>2. QED
  BY <1>1 DEF TablesAgree

LEMMA CancelAgrees ==
    ASSUME TablesAgree, NEW s, CancelTimer(s), when' = when
    PROVE  TablesAgree'
BY DEF TablesAgree, CancelTimer, EntryOf

LEMMA NextTablesAgree == IInv /\ [Next]_vars => TablesAgree'
<1> SUFFICES ASSUME TypeOK, TablesAgree, Numbering, [Next]_vars
             PROVE  TablesAgree'
  BY DEF IInv
<1> USE DEF clockVars, fdVars, tableVars, callVars
<1>0. ASSUME NEW deadline \in Times, NEW repeat \in Intervals,
             NewTimer(deadline, repeat)
      PROVE  when'[lastSeq'] = deadline /\ \A u \in timers : when'[u] = when[u]
  BY <1>0, NewTimerType DEF TypeOK, Numbering
<1>1. ASSUME NEW deadline \in Times, NEW repeat \in Intervals,
             LoopAdd(deadline, repeat)
      PROVE  TablesAgree'
  BY <1>0, <1>1, AddAgrees DEF LoopAdd
<1>2. ASSUME NEW s \in Seqs, LoopCancel(s)
      PROVE  TablesAgree'
  BY <1>2, CancelAgrees DEF LoopCancel
<1>3. ASSUME NEW t \in Callers, NEW deadline \in Times, NEW repeat \in Intervals,
             Add(t, deadline, repeat)
      PROVE  TablesAgree'
  <2>1. \A u \in timers : when'[u] = when[u]
    BY <1>0, <1>3 DEF Add
  <2>2. QED
    BY <1>3, <2>1 DEF Add, TablesAgree
<1>4. CASE RunFunctor
  BY <1>4, AddAgrees, CancelAgrees DEF RunFunctor
<1>5. CASE TimerDone
  <2>1. CASE curr \notin timers
    BY <1>5, <2>1 DEF TimerDone, StillPending, EntryOf, TablesAgree
  <2>2. CASE curr \in timers /\ interval[curr] # 0
    <3>1. /\ when' = [when EXCEPT ![curr] = when[curr] + interval[curr]]
          /\ order' = (order \ {<<when[curr], curr>>})
                          \union {<<when[curr] + interval[curr], curr>>}
          /\ timers' = timers
      BY <1>5, <2>2 DEF TimerDone, StillPending, EntryOf
    <3>2. /\ when'[curr] = when[curr] + interval[curr]
          /\ \A u \in timers : u # curr => when'[u] = when[u]
      BY <2>2, <3>1 DEF TypeOK
    <3>3. QED
      BY <2>2, <3>1, <3>2 DEF TablesAgree
  <2>3. CASE curr \in timers /\ interval[curr] = 0
    <3>1. /\ when' = [when EXCEPT ![curr] = 0]
          /\ order' = order \ {<<when[curr], curr>>}
          /\ timers' = timers \ {curr}
      BY <1>5, <2>3 DEF TimerDone, StillPending, EntryOf
    <3>2. \A u \in timers' : u # curr /\ when'[u] = when[u]
      BY <3>1 DEF TypeOK
    <3>3. QED
      BY <2>3, <3>1, <3>2 DEF TablesAgree
  <2>4. QED
    BY <2>1, <2>2, <2>3
<1>6. CASE \/ \E t \in Callers : ReturnId(t) \/ \E s \in Seqs : Cancel(t, s)
           \/ PollReturns \/ HandleRead \/ BackToPoll \/ RunTimer \/ EndRead
           \/ Tick \/ SetClock \/ UNCHANGED vars
  BY <1>6 DEF ReturnId, Cancel, PollReturns, HandleRead, BackToPoll, RunTimer,
              EndRead, Tick, SetClock, vars, TablesAgree
<1>7. QED
  BY <1>1, <1>2, <1>3, <1>4, <1>5, <1>6, NextCases

LEMMA NextRunningTimerExists == IInv /\ [Next]_vars => RunningTimerExists'
<1> SUFFICES ASSUME TablesAgree, RunningTimerExists, Phases, [Next]_vars
             PROVE  RunningTimerExists'
  BY DEF IInv
<1> USE DEF clockVars, fdVars, tableVars, callVars, RunningTimerExists
<1>1. ASSUME NEW deadline \in Times, NEW repeat \in Intervals,
             LoopAdd(deadline, repeat)
      PROVE  RunningTimerExists'
  <2>1. curr' = curr /\ AddTimer(lastSeq', deadline)
    BY <1>1 DEF LoopAdd
  <2>2. timers \subseteq timers' /\ cancelled' = cancelled
    BY <2>1 DEF AddTimer
  <2>3. QED
    BY <2>1, <2>2
<1>2. CASE RunFunctor \/ \E s \in Seqs : LoopCancel(s)
  <2>1. curr' = curr
    BY <1>2 DEF RunFunctor, LoopCancel
  <2>2. PICK s : (\E deadline : AddTimer(s, deadline)) \/ CancelTimer(s)
    BY <1>2 DEF RunFunctor, LoopCancel
  <2>3. CASE \E deadline : AddTimer(s, deadline)
    BY <2>1, <2>3 DEF AddTimer
  <2>4. CASE CancelTimer(s)
    BY <2>1, <2>4 DEF CancelTimer, KeptIfRunning
  <2>5. QED
    BY <2>2, <2>3, <2>4
<1>3. CASE RunTimer
  <2>1. PICK e \in order : curr' = e[2]
    BY <1>3 DEF RunTimer
  <2>2. e[2] \in timers
    BY <2>1 DEF TablesAgree
  <2>3. QED
    BY <1>3, <2>1, <2>2 DEF RunTimer
<1>4. CASE TimerDone
  BY <1>4 DEF TimerDone, StillPending, EntryOf
<1>5. CASE EndRead
  BY <1>5 DEF EndRead, Phases
<1>6. CASE \/ \E t \in Callers : ReturnId(t) \/ \E s \in Seqs : Cancel(t, s)
           \/ \E t \in Callers, deadline \in Times, repeat \in Intervals :
                  Add(t, deadline, repeat)
           \/ PollReturns \/ HandleRead \/ BackToPoll \/ Tick \/ SetClock
           \/ UNCHANGED vars
  BY <1>6 DEF ReturnId, Cancel, Add, PollReturns, HandleRead, BackToPoll, Tick,
              SetClock, vars
<1>7. QED
  BY <1>1, <1>2, <1>3, <1>4, <1>5, <1>6, NextCases

LEMMA NextPhases == IInv /\ [Next]_vars => Phases'
<1> SUFFICES ASSUME TypeOK, TablesAgree, Phases, [Next]_vars
             PROVE  Phases'
  BY DEF IInv
<1> USE DEF clockVars, fdVars, tableVars, callVars, ClockWasSet, Phases
<1>1. CASE \/ \E deadline \in Times, repeat \in Intervals : LoopAdd(deadline, repeat)
           \/ \E t \in Callers, deadline \in Times, repeat \in Intervals :
                  Add(t, deadline, repeat)
           \/ \E s \in Seqs : LoopCancel(s)
  <2>1. CASE \E deadline \in Times, repeat \in Intervals : LoopAdd(deadline, repeat)
    BY <2>1 DEF LoopAdd
  <2>2. CASE \E t \in Callers, deadline \in Times, repeat \in Intervals :
                 Add(t, deadline, repeat)
    BY <2>2 DEF Add
  <2>3. CASE \E s \in Seqs : LoopCancel(s)
    BY <2>3 DEF LoopCancel
  <2>4. QED
    BY <1>1, <2>1, <2>2, <2>3
<1>2. CASE \E t \in Callers : ReturnId(t) \/ \E s \in Seqs : Cancel(t, s)
  <2>1. CASE \E t \in Callers : ReturnId(t)
    BY <2>1 DEF ReturnId
  <2>2. CASE \E t \in Callers, s \in Seqs : Cancel(t, s)
    BY <2>2 DEF Cancel
  <2>3. QED
    BY <1>2, <2>1, <2>2
<1>3. CASE UNCHANGED vars
  BY <1>3 DEF vars
<1>4. CASE PollReturns
  BY <1>4 DEF PollReturns, TypeOK, Times
<1>5. CASE RunTimer
  BY <1>5 DEF RunTimer, TypeOK, Seqs
<1>6. CASE Tick
  BY <1>6 DEF Tick, TypeOK, Times
<1>7. CASE SetClock
  BY <1>7, BoundsAssumption DEF SetClock, TypeOK
<1>8. CASE HandleRead \/ BackToPoll \/ EndRead
  BY <1>8 DEF HandleRead, BackToPoll, EndRead
<1>9. CASE RunFunctor
  BY <1>9 DEF RunFunctor
<1>10. CASE TimerDone
  BY <1>10 DEF TimerDone
<1>11. QED
  BY <1>1, <1>2, <1>3, <1>4, <1>5, <1>6, <1>7, <1>8, <1>9, <1>10, NextCases

-----------------------------------------------------------------------------
(* Sequence numbers.                                                       *)

LEMMA CancelNumbering ==
    ASSUME NEW s, CancelTimer(s)
    PROVE  /\ timers' \union dead' = timers \union dead
           /\ timers \intersect dead = {} => timers' \intersect dead' = {}
BY DEF CancelTimer

LEMMA AppendedMailbox ==
    ASSUME TypeOK, NEW call \in {"add", "cancel"} \X Seqs,
           mailbox' = Append(mailbox, call)
    PROVE  /\ Len(mailbox) \in Nat
           /\ Len(mailbox') = Len(mailbox) + 1
           /\ mailbox'[Len(mailbox) + 1] = call
           /\ \A i \in 1..Len(mailbox) : mailbox'[i] = mailbox[i]
           /\ 1..Len(mailbox') = 1..Len(mailbox) \union {Len(mailbox) + 1}
<1>1. mailbox \in Seq({"add", "cancel"} \X Seqs)
  BY DEF TypeOK
<1>2. QED
  BY <1>1, AppendProperties, LenProperties

LEMMA NextNumbering == IInv /\ [Next]_vars => Numbering'
<1> SUFFICES ASSUME TypeOK, Numbering, [Next]_vars
             PROVE  Numbering'
  BY DEF IInv
<1> USE DEF clockVars, fdVars, tableVars, callVars
<1>0. lastSeq \in Nat
  BY BoundsAssumption DEF TypeOK
<1>1. ASSUME NEW deadline \in Times, NEW repeat \in Intervals,
             LoopAdd(deadline, repeat)
      PROVE  Numbering'
  <2>1. /\ lastSeq' = lastSeq + 1
        /\ timers' = timers \union {lastSeq + 1}
        /\ UNCHANGED <<dead, mailbox>>
    BY <1>1 DEF LoopAdd, NewTimer, AddTimer
  <2>2. QED
    BY <1>0, <2>1 DEF Numbering
<1>2. ASSUME NEW s \in Seqs, LoopCancel(s)
      PROVE  Numbering'
  <2>1. UNCHANGED <<lastSeq, mailbox>>
    BY <1>2 DEF LoopCancel
  <2>2. /\ timers' \union dead' = timers \union dead
        /\ timers' \intersect dead' = {}
    BY <1>2, CancelNumbering DEF LoopCancel, Numbering
  <2>3. QED
    BY <2>1, <2>2 DEF Numbering
<1>3. ASSUME NEW t \in Callers, NEW deadline \in Times, NEW repeat \in Intervals,
             Add(t, deadline, repeat)
      PROVE  Numbering'
  <2>1. /\ lastSeq' = lastSeq + 1
        /\ lastSeq + 1 \in Seqs
        /\ UNCHANGED <<timers, dead>>
        /\ mailbox' = Append(mailbox, <<"add", lastSeq + 1>>)
    BY <1>3, NewTimerType DEF Add, Pushed
  <2>2. /\ Len(mailbox) \in Nat
        /\ mailbox'[Len(mailbox) + 1] = <<"add", lastSeq + 1>>
        /\ \A i \in 1..Len(mailbox) : mailbox'[i] = mailbox[i]
        /\ 1..Len(mailbox') = 1..Len(mailbox) \union {Len(mailbox) + 1}
    BY <2>1, AppendedMailbox
  <2>3. ASSUME NEW i \in 1..Len(mailbox'), mailbox'[i][1] = "add"
        PROVE  /\ mailbox'[i][2] \in (1..lastSeq') \ (timers' \union dead')
               /\ \A j \in 1..Len(mailbox') : mailbox'[j] = mailbox'[i] => j = i
    <3>1. CASE i = Len(mailbox) + 1
      <4>1. mailbox'[i] = <<"add", lastSeq + 1>> /\ mailbox'[i][2] = lastSeq + 1
        BY <2>2, <3>1
      <4>2. lastSeq + 1 \in (1..lastSeq') \ (timers' \union dead')
        BY <1>0, <2>1 DEF Numbering
      <4>3. ASSUME NEW j \in 1..Len(mailbox'), mailbox'[j] = mailbox'[i]
            PROVE  j = i
        <5>1. ASSUME j \in 1..Len(mailbox)
              PROVE  FALSE
          <6>1. mailbox[j][1] = "add" /\ mailbox[j][2] = lastSeq + 1
            BY <2>2, <4>1, <4>3, <5>1
          <6>2. mailbox[j][2] \in 1..lastSeq
            BY <5>1, <6>1 DEF Numbering
          <6>3. QED
            BY <1>0, <6>1, <6>2
        <5>2. QED
          BY <2>2, <3>1, <5>1
      <4>4. QED
        BY <4>1, <4>2, <4>3
    <3>2. CASE i \in 1..Len(mailbox)
      <4>1. mailbox[i][2] \in (1..lastSeq) \ (timers \union dead)
        BY <2>2, <2>3, <3>2 DEF Numbering
      <4>2. ASSUME NEW j \in 1..Len(mailbox'), mailbox'[j] = mailbox'[i]
            PROVE  j = i
        <5>1. j # Len(mailbox) + 1
          BY <1>0, <2>2, <3>2, <4>1, <4>2
        <5>2. QED
          BY <2>2, <2>3, <3>2, <4>2, <5>1 DEF Numbering
      <4>3. QED
        BY <1>0, <2>1, <2>2, <3>2, <4>1, <4>2
    <3>3. QED
      BY <2>2, <3>1, <3>2
  <2>4. QED
    BY <1>0, <2>1, <2>3 DEF Numbering
<1>4. ASSUME NEW t \in Callers, NEW s \in Seqs, Cancel(t, s)
      PROVE  Numbering'
  <2>1. /\ UNCHANGED <<lastSeq, timers, dead>>
        /\ mailbox' = Append(mailbox, <<"cancel", s>>)
    BY <1>4 DEF Cancel, Pushed
  <2>2. /\ Len(mailbox) \in Nat
        /\ mailbox'[Len(mailbox) + 1] = <<"cancel", s>>
        /\ \A i \in 1..Len(mailbox) : mailbox'[i] = mailbox[i]
        /\ 1..Len(mailbox') = 1..Len(mailbox) \union {Len(mailbox) + 1}
    BY <2>1, AppendedMailbox
  <2>3. ASSUME NEW i \in 1..Len(mailbox'), mailbox'[i][1] = "add"
        PROVE  /\ mailbox'[i][2] \in (1..lastSeq') \ (timers' \union dead')
               /\ \A j \in 1..Len(mailbox') : mailbox'[j] = mailbox'[i] => j = i
    <3>1. i \in 1..Len(mailbox)
      BY <2>2, <2>3
    <3>2. ASSUME NEW j \in 1..Len(mailbox'), mailbox'[j] = mailbox'[i]
          PROVE  j = i
      <4>1. j # Len(mailbox) + 1
        BY <2>2, <2>3, <3>2
      <4>2. QED
        BY <2>2, <2>3, <3>1, <3>2, <4>1 DEF Numbering
    <3>3. QED
      BY <2>1, <2>2, <2>3, <3>1, <3>2 DEF Numbering
  <2>4. QED
    BY <2>1, <2>3 DEF Numbering
<1>5. CASE RunFunctor
  <2> DEFINE s == mailbox[1][2]
  <2>1. /\ Len(mailbox) \in Nat \ {0}
        /\ mailbox[1] \in {"add", "cancel"} \X Seqs
        /\ Len(mailbox') = Len(mailbox) - 1
        /\ \A i \in 1..Len(mailbox') : mailbox'[i] = mailbox[i + 1]
        /\ lastSeq' = lastSeq
        /\ \/ mailbox[1][1] = "add" /\ AddTimer(s, when[s])
           \/ mailbox[1][1] = "cancel" /\ CancelTimer(s)
    BY <1>5, MailboxType DEF RunFunctor
  <2>2. ASSUME NEW i \in 1..Len(mailbox'), mailbox'[i][1] = "add"
        PROVE  /\ i + 1 \in 1..Len(mailbox)
               /\ mailbox'[i] = mailbox[i + 1]
               /\ mailbox'[i][2] \in (1..lastSeq) \ (timers \union dead)
               /\ mailbox'[i] # mailbox[1]
               /\ \A j \in 1..Len(mailbox') : mailbox'[j] = mailbox'[i] => j = i
    <3>1. i + 1 \in 1..Len(mailbox) /\ 1 \in 1..Len(mailbox) /\ i + 1 # 1
      BY <2>1
    <3>2. \A j \in 1..Len(mailbox) : mailbox[j] = mailbox[i + 1] => j = i + 1
      BY <2>1, <2>2, <3>1 DEF Numbering
    <3>3. ASSUME NEW j \in 1..Len(mailbox'), mailbox'[j] = mailbox'[i]
          PROVE  j = i
      <4>1. j + 1 \in 1..Len(mailbox) /\ mailbox[j + 1] = mailbox[i + 1]
        BY <2>1, <3>3
      <4>2. j + 1 = i + 1
        BY <3>2, <4>1
      <4>3. QED
        BY <4>2
    <3>4. QED
      BY <2>1, <2>2, <3>1, <3>2, <3>3 DEF Numbering
  <2>3. CASE mailbox[1][1] = "add" /\ AddTimer(s, when[s])
    <3>1. /\ timers' = timers \union {s}
          /\ dead' = dead
      BY <2>3 DEF AddTimer
    <3>2. s \in (1..lastSeq) \ (timers \union dead)
      BY <2>1, <2>3 DEF Numbering
    <3>3. ASSUME NEW i \in 1..Len(mailbox'), mailbox'[i][1] = "add"
          PROVE  mailbox'[i][2] # s
      <4>1. mailbox'[i] \in {"add", "cancel"} \X Seqs
        <5>1. i + 1 \in 1..Len(mailbox) /\ mailbox'[i] = mailbox[i + 1]
          BY <2>2, <3>3
        <5>2. mailbox[i + 1] \in {"add", "cancel"} \X Seqs
          BY <5>1, ElementOfSeq DEF TypeOK
        <5>3. QED
          BY <5>1, <5>2
      <4>2. QED
        BY <2>1, <2>2, <2>3, <3>3, <4>1
    <3>4. QED
      BY <2>1, <2>2, <3>1, <3>2, <3>3 DEF Numbering
  <2>4. CASE mailbox[1][1] = "cancel" /\ CancelTimer(s)
    <3>1. /\ timers' \union dead' = timers \union dead
          /\ timers' \intersect dead' = {}
      BY <2>4, CancelNumbering DEF Numbering
    <3>2. QED
      BY <2>1, <2>2, <3>1 DEF Numbering
  <2>5. QED
    BY <2>1, <2>3, <2>4
<1>6. CASE TimerDone
  <2>1. timers' \subseteq timers /\ UNCHANGED <<lastSeq, mailbox, dead>>
    BY <1>6 DEF TimerDone, StillPending, EntryOf
  <2>2. QED
    BY <2>1 DEF Numbering
<1>7. CASE \/ \E t \in Callers : ReturnId(t)
           \/ PollReturns \/ HandleRead \/ BackToPoll \/ RunTimer \/ EndRead
           \/ Tick \/ SetClock \/ UNCHANGED vars
  <2>1. UNCHANGED <<lastSeq, mailbox, timers, dead>>
    BY <1>7 DEF ReturnId, PollReturns, HandleRead, BackToPoll, RunTimer, EndRead,
                Tick, SetClock, vars
  <2>2. QED
    BY <2>1 DEF Numbering
<1>8. QED
  BY <1>1, <1>2, <1>3, <1>4, <1>5, <1>6, <1>7, NextCases

-----------------------------------------------------------------------------
(* The order of the calls of other threads.                                *)

LEMMA NextMailOrder == IInv /\ [Next]_vars => MailOrder'
<1> SUFFICES ASSUME TypeOK, MailOrder, [Next]_vars
             PROVE  MailOrder'
  BY DEF IInv
<1> USE DEF clockVars, fdVars, tableVars, callVars
<1>0. lastSeq \in Nat
  BY BoundsAssumption DEF TypeOK
<1>1. ASSUME NEW deadline \in Times, NEW repeat \in Intervals,
             LoopAdd(deadline, repeat)
      PROVE  MailOrder'
  <2>1. /\ lastSeq' = lastSeq + 1
        /\ known' = known \union {lastSeq + 1}
        /\ UNCHANGED <<mailbox, calls>>
    BY <1>1 DEF LoopAdd, NewTimer
  <2>2. 1..lastSeq \subseteq 1..lastSeq' /\ 0..lastSeq \subseteq 0..lastSeq'
        /\ lastSeq + 1 \in 1..lastSeq'
    BY <1>0, <2>1
  <2>3. known' \subseteq 1..lastSeq' /\ \A t \in Callers : calls'[t] \in 0..lastSeq'
    BY <2>1, <2>2 DEF MailOrder
  <2>4. \A i \in 1..Len(mailbox') : mailbox'[i][2] \in 1..lastSeq'
    BY <2>1, <2>2 DEF MailOrder
  <2>5. QED
    BY <2>1, <2>3, <2>4 DEF MailOrder
<1>2. ASSUME NEW t \in Callers, NEW deadline \in Times, NEW repeat \in Intervals,
             Add(t, deadline, repeat)
      PROVE  MailOrder'
  <2>1. /\ lastSeq' = lastSeq + 1
        /\ lastSeq + 1 \in Seqs
        /\ known' = known
        /\ calls' = [calls EXCEPT ![t] = lastSeq + 1]
        /\ mailbox' = Append(mailbox, <<"add", lastSeq + 1>>)
    BY <1>2, NewTimerType DEF Add, Pushed
  <2>2. /\ Len(mailbox) \in Nat
        /\ mailbox'[Len(mailbox) + 1] = <<"add", lastSeq + 1>>
        /\ \A i \in 1..Len(mailbox) : mailbox'[i] = mailbox[i]
        /\ 1..Len(mailbox') = 1..Len(mailbox) \union {Len(mailbox) + 1}
    BY <2>1, AppendedMailbox
  <2>3. \A i \in 1..Len(mailbox') : mailbox'[i][2] \in 1..lastSeq'
    BY <1>0, <2>1, <2>2 DEF MailOrder
  <2>4. ASSUME NEW i \in 1..Len(mailbox'), NEW j \in 1..Len(mailbox'),
               mailbox'[i][1] = "cancel", mailbox'[j] = <<"add", mailbox'[i][2]>>
        PROVE  j < i
    <3>1. i \in 1..Len(mailbox)
      BY <2>2, <2>4
    <3>2. mailbox[i][2] # lastSeq + 1
      BY <1>0, <3>1 DEF MailOrder
    <3>3. j \in 1..Len(mailbox)
      BY <2>2, <2>4, <3>1, <3>2
    <3>4. QED
      BY <2>2, <2>4, <3>1, <3>3 DEF MailOrder
  <2>5. known' \subseteq 1..lastSeq' /\ \A u \in Callers : calls'[u] \in 0..lastSeq'
    BY <1>0, <2>1 DEF MailOrder, TypeOK
  <2>6. QED
    BY <2>3, <2>4, <2>5 DEF MailOrder
<1>3. ASSUME NEW t \in Callers, NEW s \in Seqs, Cancel(t, s)
      PROVE  MailOrder'
  <2>1. /\ UNCHANGED <<lastSeq, known, calls>>
        /\ s \in known
        /\ mailbox' = Append(mailbox, <<"cancel", s>>)
    BY <1>3 DEF Cancel, Pushed
  <2>2. /\ Len(mailbox) \in Nat
        /\ mailbox'[Len(mailbox) + 1] = <<"cancel", s>>
        /\ \A i \in 1..Len(mailbox) : mailbox'[i] = mailbox[i]
        /\ 1..Len(mailbox') = 1..Len(mailbox) \union {Len(mailbox) + 1}
    BY <2>1, AppendedMailbox
  <2>3. \A i \in 1..Len(mailbox') : mailbox'[i][2] \in 1..lastSeq'
    BY <2>1, <2>2 DEF MailOrder
  <2>4. ASSUME NEW i \in 1..Len(mailbox'), NEW j \in 1..Len(mailbox'),
               mailbox'[i][1] = "cancel", mailbox'[j] = <<"add", mailbox'[i][2]>>
        PROVE  j < i
    <3>1. j \in 1..Len(mailbox)
      BY <2>2, <2>4
    <3>2. CASE i = Len(mailbox) + 1
      BY <2>2, <3>1, <3>2
    <3>3. CASE i \in 1..Len(mailbox)
      BY <2>2, <2>4, <3>1, <3>3 DEF MailOrder
    <3>4. QED
      BY <2>2, <3>2, <3>3
  <2>5. QED
    BY <2>1, <2>3, <2>4 DEF MailOrder
<1>4. ASSUME NEW t \in Callers, ReturnId(t)
      PROVE  MailOrder'
  <2>1. /\ calls' = [calls EXCEPT ![t] = 0]
        /\ UNCHANGED <<lastSeq, mailbox>>
    BY <1>4 DEF ReturnId
  <2>2. PICK s \in 1..lastSeq : known' = known \union {s}
    <3>1. calls[t] \in 1..lastSeq
      BY <1>0, <1>4 DEF ReturnId, MailOrder
    <3>2. QED
      BY <1>4, <3>1 DEF ReturnId
  <2>3. known' \subseteq 1..lastSeq' /\ \A u \in Callers : calls'[u] \in 0..lastSeq'
    BY <1>0, <2>1, <2>2 DEF MailOrder, TypeOK
  <2>4. QED
    BY <2>1, <2>3 DEF MailOrder
<1>5. CASE RunFunctor
  <2>1. /\ Len(mailbox) \in Nat \ {0}
        /\ Len(mailbox') = Len(mailbox) - 1
        /\ \A i \in 1..Len(mailbox') : mailbox'[i] = mailbox[i + 1]
        /\ UNCHANGED <<lastSeq, known, calls>>
    BY <1>5, MailboxType DEF RunFunctor
  <2>2. \A i \in 1..Len(mailbox') : i + 1 \in 1..Len(mailbox)
    BY <2>1
  <2>3. \A i \in 1..Len(mailbox') : mailbox'[i][2] \in 1..lastSeq'
    BY <2>1, <2>2 DEF MailOrder
  <2>4. ASSUME NEW i \in 1..Len(mailbox'), NEW j \in 1..Len(mailbox'),
               mailbox'[i][1] = "cancel", mailbox'[j] = <<"add", mailbox'[i][2]>>
        PROVE  j < i
    <3>1. j + 1 < i + 1
      BY <2>1, <2>2, <2>4 DEF MailOrder
    <3>2. QED
      BY <3>1
  <2>5. QED
    BY <2>1, <2>3, <2>4 DEF MailOrder
<1>6. CASE \/ \E s \in Seqs : LoopCancel(s)
           \/ PollReturns \/ HandleRead \/ BackToPoll \/ RunTimer \/ TimerDone
           \/ EndRead \/ Tick \/ SetClock \/ UNCHANGED vars
  <2>1. UNCHANGED <<lastSeq, mailbox, calls, known>>
    BY <1>6 DEF LoopCancel, PollReturns, HandleRead, BackToPoll, RunTimer, TimerDone,
                EndRead, Tick, SetClock, vars
  <2>2. QED
    BY <2>1 DEF MailOrder
<1>7. QED
  BY <1>1, <1>2, <1>3, <1>4, <1>5, <1>6, NextCases

-----------------------------------------------------------------------------
(* The timerfd covers every pending timer.                                 *)

LEMMA ResetCovers ==
    ASSUME TypeOK, NEW a \in Nat, NEW b \in Nat, a <= b,
           ResetTimerfd(a), now' = now
    PROVE  Covered(b)'
<1>1. left' > 0 /\ left' \in Nat /\ now' + left' <= Latest(a)
  BY ResetType
<1>2. Latest(a) <= Latest(b)' /\ now' \in Nat /\ Latest(a) \in Nat /\ Latest(b)' \in Nat
  BY BoundsAssumption DEF Latest, TypeOK, Times
<1>3. now' + left' <= Latest(b)'
  BY <1>1, <1>2
<1>4. QED
  BY <1>1, <1>3 DEF Covered

LEMMA EarlierCovers ==
    ASSUME TypeOK, NEW a \in Nat, NEW b \in Nat, a <= b,
           Covered(a), UNCHANGED <<clockVars, fdVars, fired>>
    PROVE  Covered(b)'
<1>1. Latest(a) <= Latest(b) /\ Latest(a) \in Nat /\ Latest(b) \in Nat /\ now \in Nat
  BY BoundsAssumption DEF Latest, TypeOK, Times
<1>2. Covered(b)
  BY <1>1 DEF Covered, TypeOK
<1>3. QED
  BY <1>2 DEF Covered, ClockWasSet, Latest, clockVars, fdVars

LEMMA AddArmed ==
    ASSUME TypeOK, curr = 0, \A e \in order : Covered(e[1]),
           NEW s \in Seqs, NEW deadline \in Nat, AddTimer(s, deadline),
           UNCHANGED <<clockVars, fired>>
    PROVE  \A e \in order' : Covered(e[1])'
<1>0. order \subseteq Nat \X Seqs /\ order' = order \union {<<deadline, s>>}
  BY DEF TypeOK, AddTimer
<1>1. CASE \A e \in order : e[1] > deadline
  <2>1. ResetTimerfd(deadline)
    BY <1>1 DEF AddTimer, Earliest
  <2>2. \A e \in order' : e[1] \in Nat /\ deadline <= e[1]
    BY <1>0, <1>1
  <2>3. QED
    BY <2>1, <2>2, ResetCovers DEF clockVars
<1>2. CASE \E e \in order : ~(e[1] > deadline)
  <2>1. UNCHANGED fdVars
    BY <1>2 DEF AddTimer, Earliest
  <2>2. PICK d \in order : d[1] <= deadline /\ d[1] \in Nat
    BY <1>0, <1>2
  <2>3. ASSUME NEW e \in order'
        PROVE  Covered(e[1])'
    <3>1. CASE e \in order
      <4>1. e[1] \in Nat /\ e[1] <= e[1] /\ Covered(e[1])
        BY <1>0, <3>1
      <4>2. QED
        BY <2>1, <4>1, EarlierCovers
    <3>2. CASE e = <<deadline, s>>
      <4>1. Covered(d[1])
        BY <2>2
      <4>2. Covered(deadline)'
        BY <2>1, <2>2, <4>1, EarlierCovers
      <4>3. QED
        BY <3>2, <4>2
    <3>3. QED
      BY <1>0, <3>1, <3>2
  <2>4. QED
    BY <2>3
<1>3. QED
  BY <1>1, <1>2

LEMMA FirstCovers ==
    ASSUME TypeOK, NEW entries, entries \subseteq Nat \X Seqs,
           ResetToFirst(entries), now' = now
    PROVE  \A e \in entries : Covered(e[1])'
<1>1. PICK first \in entries : IsFirst(first, entries) /\ ResetTimerfd(first[1])
  BY DEF ResetToFirst
<1>2. \A e \in entries : first[1] \in Nat /\ e[1] \in Nat /\ first[1] <= e[1]
  BY <1>1 DEF IsFirst, Before
<1>3. QED
  BY <1>1, <1>2, ResetCovers

LEMMA CancelArmed ==
    ASSUME TypeOK, \A e \in order : Covered(e[1]),
           NEW s \in Seqs, CancelTimer(s), UNCHANGED <<clockVars, fired>>
    PROVE  \A e \in order' : Covered(e[1])'
<1>0. order' \subseteq order /\ order \subseteq Nat \X Seqs /\ order' \subseteq Nat \X Seqs
  BY DEF CancelTimer, KeptIfRunning, TypeOK
<1>1. CASE UNCHANGED fdVars
  <2>1. \A e \in order' : e[1] \in Nat /\ e[1] <= e[1] /\ Covered(e[1])
    BY <1>0
  <2>2. QED
    BY <1>1, <2>1, EarlierCovers
<1>2. CASE ResetToFirst(order')
  BY <1>0, <1>2, FirstCovers DEF clockVars
<1>3. QED
  BY <1>1, <1>2 DEF CancelTimer

LEMMA NextArmed == IInv /\ [Next]_vars => Armed'
<1> SUFFICES ASSUME TypeOK, Armed, Phases, [Next]_vars
             PROVE  Armed'
  BY DEF IInv
<1> USE DEF clockVars, tableVars, callVars
<1>1. ASSUME NEW deadline \in Times, NEW repeat \in Intervals,
             LoopAdd(deadline, repeat)
      PROVE  Armed'
  <2>1. /\ NewTimer(deadline, repeat)
        /\ AddTimer(lastSeq', deadline)
        /\ UNCHANGED <<pc, clockVars, fired>>
    BY <1>1 DEF LoopAdd
  <2>2. lastSeq' \in Seqs /\ deadline \in Nat
    BY <2>1, NewTimerType
  <2>3. CASE pc = "handle"
    <3>1. curr = 0 /\ \A e \in order : Covered(e[1])
      BY <2>3 DEF Phases, Armed
    <3>2. \A e \in order' : Covered(e[1])'
      BY <2>1, <2>2, <3>1, AddArmed
    <3>3. QED
      BY <3>2 DEF Armed
  <2>4. CASE pc = "run"
    BY <2>1, <2>4 DEF Armed
  <2>5. QED
    BY <1>1, <2>3, <2>4 DEF LoopAdd
<1>2. ASSUME NEW s \in Seqs, LoopCancel(s)
      PROVE  Armed'
  <2>1. CancelTimer(s) /\ UNCHANGED <<pc, clockVars, fired>>
    BY <1>2 DEF LoopCancel
  <2>2. CASE pc = "handle"
    <3>1. \A e \in order' : Covered(e[1])'
      BY <2>1, <2>2, CancelArmed DEF Armed
    <3>2. QED
      BY <3>1 DEF Armed
  <2>3. CASE pc = "run"
    BY <2>1, <2>3 DEF Armed
  <2>4. QED
    BY <1>2, <2>2, <2>3 DEF LoopCancel
<1>3. CASE RunFunctor
  <2> DEFINE s == Head(mailbox)[2]
  <2>1. s \in Seqs
    BY <1>3, MailboxType DEF RunFunctor
  <2>2. when[s] \in Nat
    BY <2>1 DEF TypeOK
  <2>3. /\ UNCHANGED <<clockVars, fired>>
        /\ curr = 0
        /\ \A e \in order : Covered(e[1])
        /\ AddTimer(s, when[s]) \/ CancelTimer(s)
    BY <1>3 DEF RunFunctor, Phases, Armed
  <2>4. \A e \in order' : Covered(e[1])'
    BY <2>1, <2>2, <2>3, AddArmed, CancelArmed
  <2>5. QED
    BY <2>4 DEF Armed
<1>4. CASE HandleRead \/ RunTimer \/ TimerDone
  BY <1>4 DEF HandleRead, RunTimer, TimerDone, Armed
<1>5. CASE EndRead
  <2>1. order' = order /\ now' = now /\ (order = {} \/ ResetToFirst(order))
    BY <1>5 DEF EndRead
  <2>2. \A e \in order' : Covered(e[1])'
    BY <2>1, FirstCovers DEF TypeOK
  <2>3. QED
    BY <2>2 DEF Armed
<1>6. CASE PollReturns
  <2>1. ASSUME NEW e \in order
        PROVE  Covered(e[1])'
    BY <1>6 DEF PollReturns, Phases, Armed, Covered, ClockWasSet, Latest, fdVars
  <2>2. QED
    BY <1>6, <2>1 DEF PollReturns, Armed
<1>7. CASE Tick
  <2>1. ASSUME NEW e \in order, pc \in {"wait", "handle"}
        PROVE  Covered(e[1])'
    <3>1. Covered(e[1]) /\ e[1] \in Nat /\ now \in Nat /\ left \in Nat
      BY <2>1, BoundsAssumption DEF Armed, TypeOK, Times
    <3>2. CASE readable \/ fired
      BY <1>7, <3>2 DEF Tick, Covered
    <3>3. CASE left = 1
      BY <1>7, <3>3 DEF Tick, Covered
    <3>4. CASE left > 0 /\ left # 1 /\ (ClockWasSet \/ now + left <= Latest(e[1]))
      <4>1. /\ left' = left - 1 /\ left' > 0
            /\ now' = now + 1 \/ now' = now
        BY <1>7, <3>1, <3>4 DEF Tick
      <4>2. CASE ClockWasSet
        BY <1>7, <4>1, <4>2 DEF Tick, Covered, ClockWasSet
      <4>3. CASE now + left <= Latest(e[1])
        <5>1. now' + left' <= Latest(e[1])'
          BY <3>1, <4>1, <4>3 DEF Latest
        <5>2. QED
          BY <4>1, <5>1 DEF Covered
      <4>4. QED
        BY <3>4, <4>2, <4>3
    <3>5. QED
      BY <3>1, <3>2, <3>3, <3>4 DEF Covered
  <2>2. QED
    BY <1>7, <2>1 DEF Tick, Armed
<1>8. CASE SetClock
  BY <1>8, BoundsAssumption DEF SetClock, Armed, Covered, ClockWasSet, TypeOK, fdVars
<1>9. CASE \/ \E t \in Callers : ReturnId(t) \/ \E s \in Seqs : Cancel(t, s)
           \/ \E t \in Callers, deadline \in Times, repeat \in Intervals :
                  Add(t, deadline, repeat)
           \/ BackToPoll \/ UNCHANGED vars
  <2>1. /\ UNCHANGED <<clockVars, left, readable, fired, order>>
        /\ pc' \in {"wait", "handle"} => pc \in {"wait", "handle"}
    BY <1>9 DEF ReturnId, Cancel, Add, BackToPoll, vars, fdVars
  <2>2. QED
    BY <2>1 DEF Armed, Covered, ClockWasSet, Latest
<1>10. QED
  BY <1>1, <1>2, <1>3, <1>4, <1>5, <1>6, <1>7, <1>8, <1>9, NextCases

-----------------------------------------------------------------------------
LEMMA InitIInv == Init => IInv
<1> SUFFICES ASSUME Init
             PROVE  IInv
  OBVIOUS
<1>1. TypeOK
  BY InitTypeOK
<1>2. TablesAgree /\ RunningTimerExists /\ Armed
  BY DEF Init, TablesAgree, RunningTimerExists, Armed
<1>3. Numbering /\ Phases /\ MailOrder
  BY DEF Init, Numbering, Phases, MailOrder
<1>4. QED
  BY <1>1, <1>2, <1>3 DEF IInv

\* The strengthened invariant holds in every reachable state.
THEOREM Invariance == Spec => []IInv
<1>1. IInv /\ [Next]_vars => IInv'
  BY NextTypeOK, NextTablesAgree, NextRunningTimerExists, NextArmed,
     NextNumbering, NextPhases, NextMailOrder DEF IInv
<1>2. QED
  BY InitIInv, <1>1, PTL DEF Spec

\* The map and the ordered set of timers always hold the same timers.
THEOREM TablesAlwaysAgree == Spec => []TablesAgree
BY Invariance, PTL DEF IInv

\* No cancellation frees the timer whose function is running.
THEOREM RunningTimerIsKept == Spec => []RunningTimerExists
BY Invariance, PTL DEF IInv

\* Outside handleRead the timerfd covers every pending timer.
THEOREM AlwaysArmed == Spec => []Armed
BY Invariance, PTL DEF IInv

LEMMA StartIsRunTimer ==
    ASSUME IInv, [Next]_vars, NEW s \in Seqs, Starts(s)
    PROVE  RunTimer
<1>1. curr' # curr
  BY DEF Starts, Seqs
<1>2. curr' = curr \/ curr' = 0 \/ RunTimer
  BY NextCases DEF LoopAdd, LoopCancel, Add, Cancel, ReturnId, PollReturns,
       HandleRead, RunFunctor, BackToPoll, TimerDone, EndRead, Tick, SetClock,
       tableVars, vars
<1>3. curr' # 0
  BY DEF Starts, Seqs
<1>4. QED
  BY <1>1, <1>2, <1>3

\* A timer removed by cancelEvent is never called again.
THEOREM CancelledStayDead == Spec => NeverAfterCancel
<1>1. ASSUME IInv, [Next]_vars
      PROVE  [\A s \in dead : ~Starts(s)]_vars
  <2>1. SUFFICES ASSUME NEW s \in dead, Starts(s)
                 PROVE  FALSE
    OBVIOUS
  <2>2. s \in Seqs
    BY <1>1 DEF IInv, TypeOK
  <2>3. RunTimer
    BY <1>1, <2>1, <2>2, StartIsRunTimer
  <2>4. PICK e \in order : curr' = e[2]
    BY <2>3 DEF RunTimer
  <2>5. s \in timers
    BY <1>1, <2>1, <2>4 DEF IInv, TablesAgree, Starts
  <2>6. QED
    BY <1>1, <2>1, <2>5 DEF IInv, Numbering
<1>2. QED
  BY <1>1, Invariance, PTL DEF Spec, NeverAfterCancel

\* Timers are called in the order of their deadlines and, unless the wall
\* clock is set, never early.
THEOREM FiringOrder == Spec => FiresInOrder
<1>1. ASSUME IInv, [Next]_vars
      PROVE  [\A s \in Seqs : Starts(s) =>
                  /\ \A u \in timers : when[s] <= when[u]
                  /\ ClockWasSet \/ when[s] <= now]_vars
  <2>1. SUFFICES ASSUME NEW s \in Seqs, Starts(s)
                 PROVE  /\ \A u \in timers : when[s] <= when[u]
                        /\ ClockWasSet \/ when[s] <= now
    OBVIOUS
  <2>2. RunTimer
    BY <1>1, <2>1, StartIsRunTimer
  <2>3. PICK e \in order : IsFirst(e, order) /\ e[1] <= time /\ curr' = e[2]
    BY <2>2 DEF RunTimer
  <2>4. e = <<when[s], s>>
    BY <1>1, <2>1, <2>3 DEF IInv, TablesAgree, Starts
  <2>5. \A u \in timers : <<when[u], u>> \in order /\ when[u] \in Nat /\ when[s] \in Nat
    BY <1>1 DEF IInv, TablesAgree, TypeOK
  <2>6. \A u \in timers : when[s] <= when[u]
    <3>1. ASSUME NEW u \in timers
          PROVE  when[s] <= when[u]
      <4>1. Before(<<when[s], s>>, <<when[u], u>>)
        BY <2>3, <2>4, <2>5 DEF IsFirst
      <4>2. when[u] \in Nat /\ when[s] \in Nat
        BY <2>5
      <4>3. when[s] < when[u] \/ when[s] = when[u]
        BY <4>1 DEF Before
      <4>4. QED
        BY <4>2, <4>3
    <3>2. QED
      BY <3>1
  <2>7. ClockWasSet \/ when[s] <= now
    BY <1>1, <2>3, <2>4, BoundsAssumption DEF IInv, Phases, TypeOK, Times
  <2>8. QED
    BY <2>6, <2>7
<1>2. QED
  BY <1>1, Invariance, PTL DEF Spec, FiresInOrder

\* What was cancelled by another thread does not come back.
LEMMA OverStays ==
    ASSUME IInv, [Next]_vars, NEW s \in Seqs,
           Over(s) \/ (RunFunctor /\ Head(mailbox) = <<"cancel", s>>)
    PROVE  Over(s)'
<1> USE DEF clockVars, fdVars, tableVars, callVars
<1>0. TypeOK /\ lastSeq \in Nat /\ MailOrder
  BY BoundsAssumption DEF IInv, TypeOK
<1>1. CASE RunFunctor
  <2>1. /\ Len(mailbox) \in Nat \ {0}
        /\ Head(mailbox) = mailbox[1]
        /\ Len(mailbox') = Len(mailbox) - 1
        /\ \A i \in 1..Len(mailbox') : mailbox'[i] = mailbox[i + 1]
        /\ mailbox[1] \in {"add", "cancel"} \X Seqs
        /\ lastSeq' = lastSeq
    BY <1>0, <1>1, MailboxType DEF RunFunctor
  <2>2. 1 \in 1..Len(mailbox) /\ \A i \in 1..Len(mailbox') : i + 1 \in 1..Len(mailbox)
    BY <2>1
  <2>3. s \in 1..lastSeq
    BY <1>0, <2>1, <2>2 DEF Over, MailOrder
  <2>4. \A i \in 1..Len(mailbox') : mailbox'[i] # <<"add", s>>
    <3>1. CASE Over(s)
      BY <2>1, <2>2, <3>1 DEF Over
    <3>2. CASE mailbox[1] = <<"cancel", s>>
      <4>1. \A j \in 1..Len(mailbox) : mailbox[j] # <<"add", s>>
        BY <1>0, <2>2, <3>2 DEF MailOrder
      <4>2. QED
        BY <2>1, <2>2, <4>1
    <3>3. QED
      BY <2>1, <3>1, <3>2
  <2>5. s \notin timers'
    <3>1. CASE mailbox[1][1] = "add" /\ AddTimer(mailbox[1][2], when[mailbox[1][2]])
      <4>1. Over(s)
        BY <2>1, <3>1
      <4>2. mailbox[1][2] # s
        BY <2>1, <2>2, <3>1, <4>1 DEF Over
      <4>3. QED
        BY <3>1, <4>1, <4>2 DEF AddTimer, Over
    <3>2. CASE mailbox[1][1] = "cancel" /\ CancelTimer(mailbox[1][2])
      BY <2>1, <3>2 DEF CancelTimer, Over
    <3>3. QED
      BY <1>1, <2>1, <3>1, <3>2 DEF RunFunctor
  <2>6. QED
    BY <2>1, <2>3, <2>4, <2>5 DEF Over
<1>2. ASSUME ~RunFunctor
      PROVE  Over(s)
  BY <1>2
<1>3. ASSUME NEW deadline \in Times, NEW repeat \in Intervals,
             LoopAdd(deadline, repeat), Over(s)
      PROVE  Over(s)'
  BY <1>0, <1>3 DEF LoopAdd, NewTimer, AddTimer, Over
<1>4. ASSUME NEW t \in Callers, NEW deadline \in Times, NEW repeat \in Intervals,
             Add(t, deadline, repeat), Over(s)
      PROVE  Over(s)'
  <2>1. /\ lastSeq' = lastSeq + 1
        /\ timers' = timers
        /\ mailbox' = Append(mailbox, <<"add", lastSeq + 1>>)
        /\ <<"add", lastSeq + 1>> \in {"add", "cancel"} \X Seqs
    BY <1>0, <1>4, NewTimerType DEF Add, Pushed
  <2>2. /\ mailbox'[Len(mailbox) + 1] = <<"add", lastSeq + 1>>
        /\ \A i \in 1..Len(mailbox) : mailbox'[i] = mailbox[i]
        /\ 1..Len(mailbox') = 1..Len(mailbox) \union {Len(mailbox) + 1}
    BY <1>0, <2>1, AppendedMailbox
  <2>3. s # lastSeq + 1 /\ s \in 1..lastSeq'
    BY <1>0, <1>4, <2>1 DEF Over
  <2>4. \A i \in 1..Len(mailbox') : mailbox'[i] # <<"add", s>>
    BY <1>4, <2>2, <2>3 DEF Over
  <2>5. QED
    BY <1>4, <2>1, <2>3, <2>4 DEF Over
<1>5. ASSUME NEW t \in Callers, NEW u \in Seqs, Cancel(t, u), Over(s)
      PROVE  Over(s)'
  <2>1. /\ UNCHANGED <<lastSeq, timers>>
        /\ mailbox' = Append(mailbox, <<"cancel", u>>)
    BY <1>5 DEF Cancel, Pushed
  <2>2. QED
    BY <1>0, <1>5, <2>1, AppendedMailbox DEF Over
<1>6. ASSUME \/ \E t \in Callers : ReturnId(t)
             \/ \E u \in Seqs : LoopCancel(u)
             \/ PollReturns \/ HandleRead \/ BackToPoll \/ RunTimer \/ TimerDone
             \/ EndRead \/ Tick \/ SetClock \/ UNCHANGED vars,
             Over(s)
      PROVE  Over(s)'
  <2>1. timers' \subseteq timers /\ UNCHANGED <<lastSeq, mailbox>>
    BY <1>6 DEF ReturnId, LoopCancel, CancelTimer, PollReturns, HandleRead, BackToPoll,
                RunTimer, TimerDone, EndRead, Tick, SetClock, vars
  <2>2. QED
    BY <1>6, <2>1 DEF Over
<1>7. QED
  BY <1>1, <1>2, <1>3, <1>4, <1>5, <1>6, NextCases

\* A cancelEvent of another thread is final: once its functor has run, neither
\* a queued addEvent nor the end of handleRead brings the timer back.
THEOREM CancellationIsFinal == Spec => CancelIsFinal
<1>1. IInv /\ [Next]_vars =>
          [\A s \in Seqs :
               Over(s) \/ (RunFunctor /\ Head(mailbox) = <<"cancel", s>>) => Over(s)']_vars
  BY OverStays
<1>2. QED
  BY <1>1, Invariance, PTL DEF Spec, CancelIsFinal
=============================================================================
