---------------------- MODULE EventLoopThreadPoolProofs ----------------------
(***************************************************************************)
(* Theorems about EventLoopThreadPool, for any number of sub-loops.        *)
(***************************************************************************)
EXTENDS EventLoopThreadPool, TLAPS

LEMMA InitIInv == Init => IInv
<1> SUFFICES ASSUME Init
             PROVE  IInv
  OBVIOUS
<1>1. 1 \in Threads /\ 0 \in 0..(Wrap - 1)
  BY NAssumption, WrapAssumption DEF Threads
<1>2. Rounds
  <2>1. \A i \in Threads : served[i] = 0 /\ Ahead(i) = Ahead(1)
    BY NAssumption DEF Init, Ahead, Threads
  <2>2. Ahead(1) \in Int
    BY DEF Ahead
  <2> QED BY <2>1, <2>2, <1>1 DEF Rounds
<1>3. QED
  BY <1>1, <1>2, MaxServedAssumption DEF Init, IInv, TypeOK, Alive, LoopIsPublished,
     HeldLoop, Untouched, NotQuitting, Published, Starting, UpAndRunning, Awaited

\* The disjuncts of Next, flattened.
LEMMA NextCases ==
    Next <=>
        \/ StartPool \/ SeeId \/ CheckLoop \/ Return \/ SpuriousWakeup
        \/ GetNextLoop \/ DestroyPool \/ LockAndLook \/ QuitStore \/ QuitWakeup
        \/ Join
        \/ \E i \in Threads :
               \/ StoreId(i) \/ EndInitFunc(i) \/ Publish(i) \/ Notify(i)
               \/ EnterLoop(i) \/ LeaveLoop(i) \/ Withdraw(i) \/ Unwind(i)
               \/ SelfQuit(i)
BY DEF Next, OwnerStep, ThreadStep

LEMMA NextTypeOK == TypeOK /\ [Next]_vars => TypeOK'
<1> SUFFICES ASSUME TypeOK, [Next]_vars
             PROVE  TypeOK'
  OBVIOUS
<1> USE NAssumption DEF TypeOK, Alive, OwnerGoes, Create, ThreadGoes
<1>1. CASE StartPool
  BY <1>1 DEF StartPool, Threads
<1>2. CASE SeeId \/ CheckLoop \/ SpuriousWakeup
  BY <1>2 DEF SeeId, CheckLoop, SpuriousWakeup
<1>3. CASE Return
  <2>1. loops' \in [Threads -> {"unset", "loop", "null"}]
    BY <1>3 DEF Return
  <2>2. current < N => current + 1 \in Threads
    BY DEF Threads
  <2>3. QED
    BY <1>3, <2>1, <2>2 DEF Return
<1>4. CASE GetNextLoop
  <2>1. next' \in 0..(Wrap - 1) /\ (next % N) + 1 \in Threads
    BY <1>4, WrapAssumption DEF GetNextLoop, Advanced, Threads
  <2>2. QED
    BY <1>4, <2>1 DEF GetNextLoop
<1>5. CASE DestroyPool \/ LockAndLook \/ QuitStore \/ QuitWakeup
  <2>1. 1 \in Threads
    BY DEF Threads
  <2>2. current' \in Threads
    BY <1>5, <2>1 DEF DestroyPool, LockAndLook, QuitStore, QuitWakeup
  <2>3. quit' \in [Threads -> BOOLEAN]
    BY <1>5 DEF DestroyPool, LockAndLook, QuitStore, QuitWakeup
  <2>4. QED
    BY <1>5, <2>2, <2>3 DEF DestroyPool, LockAndLook, QuitStore, QuitWakeup
<1>6. CASE Join
  BY <1>6 DEF Join, Threads
<1>7. ASSUME NEW i \in Threads,
             \/ StoreId(i) \/ EndInitFunc(i) \/ Publish(i) \/ Notify(i)
             \/ EnterLoop(i) \/ LeaveLoop(i) \/ Withdraw(i) \/ Unwind(i)
             \/ SelfQuit(i)
      PROVE  TypeOK'
  BY <1>7 DEF StoreId, EndInitFunc, Publish, Notify, EnterLoop, LeaveLoop,
              Withdraw, Unwind, SelfQuit
<1>8. CASE UNCHANGED vars
  BY <1>8 DEF vars
<1>9. QED
  BY <1>1, <1>2, <1>3, <1>4, <1>5, <1>6, <1>7, <1>8, NextCases

LEMMA NextUntouched == TypeOK /\ Untouched /\ [Next]_vars => Untouched'
<1> SUFFICES ASSUME TypeOK, Untouched, [Next]_vars
             PROVE  Untouched'
  OBVIOUS
<1> USE NAssumption DEF TypeOK, Untouched, Starting, OwnerGoes, Create, ThreadGoes
<1>1. CASE StartPool
  BY <1>1 DEF StartPool, Threads
<1>2. CASE Return
  BY <1>2 DEF Return, Threads
<1>3. CASE \/ SeeId \/ CheckLoop \/ SpuriousWakeup \/ GetNextLoop \/ DestroyPool
           \/ LockAndLook \/ QuitStore \/ QuitWakeup \/ Join \/ UNCHANGED vars
  BY <1>3 DEF SeeId, CheckLoop, SpuriousWakeup, GetNextLoop, DestroyPool,
              LockAndLook, QuitStore, QuitWakeup, Join, vars
<1>4. ASSUME NEW i \in Threads,
             \/ StoreId(i) \/ EndInitFunc(i) \/ Publish(i) \/ Notify(i)
             \/ EnterLoop(i) \/ LeaveLoop(i) \/ Withdraw(i) \/ Unwind(i)
             \/ SelfQuit(i)
      PROVE  Untouched'
  BY <1>4 DEF StoreId, EndInitFunc, Publish, Notify, EnterLoop, LeaveLoop,
              Withdraw, Unwind, SelfQuit
<1>5. QED
  BY <1>1, <1>2, <1>3, <1>4, NextCases

\* Thread::start only ever fills a slot that holds no thread yet.
LEMMA CreateFresh ==
    ASSUME TypeOK, Untouched, StartPool \/ Return
    PROVE  \/ /\ current' \in Threads
              /\ thread[current'] = "none"
              /\ thread' = [thread EXCEPT ![current'] = "created"]
              /\ owner' = "spawn"
           \/ thread' = thread /\ owner' = "serving" /\ current' = current
<1> USE NAssumption DEF TypeOK, Untouched, Starting, Threads, OwnerGoes, Create
<1>1. CASE StartPool
  BY <1>1 DEF StartPool
<1>2. CASE Return
  BY <1>2 DEF Return
<1>3. QED
  BY <1>1, <1>2

\* loop_ follows its thread, and the owner's lock keeps it set during quit().
LEMMA NextLoops ==
    TypeOK /\ Untouched /\ LoopIsPublished /\ HeldLoop /\ [Next]_vars =>
        LoopIsPublished' /\ HeldLoop'
<1> SUFFICES ASSUME TypeOK, Untouched, LoopIsPublished, HeldLoop, [Next]_vars
             PROVE  LoopIsPublished' /\ HeldLoop'
  OBVIOUS
<1> USE NAssumption DEF TypeOK, LoopIsPublished, HeldLoop, Published, Alive,
                        OwnerGoes, Create, ThreadGoes
<1>1. CASE StartPool \/ Return
  <2>1. loop' = loop
    BY <1>1 DEF StartPool, Return
  <2>2. QED
    BY <1>1, <2>1, CreateFresh
<1>3. CASE \/ SeeId \/ CheckLoop \/ SpuriousWakeup \/ GetNextLoop \/ DestroyPool
           \/ LockAndLook \/ QuitStore \/ QuitWakeup \/ Join \/ UNCHANGED vars
  BY <1>3 DEF SeeId, CheckLoop, SpuriousWakeup, GetNextLoop, DestroyPool,
              LockAndLook, QuitStore, QuitWakeup, Join, vars
<1>4. ASSUME NEW i \in Threads,
             \/ StoreId(i) \/ EndInitFunc(i) \/ Publish(i) \/ Notify(i)
             \/ EnterLoop(i) \/ LeaveLoop(i) \/ Withdraw(i) \/ Unwind(i)
             \/ SelfQuit(i)
      PROVE  LoopIsPublished' /\ HeldLoop'
  BY <1>4 DEF StoreId, EndInitFunc, Publish, Notify, EnterLoop, LeaveLoop,
              Withdraw, Unwind, SelfQuit, Locked
<1>5. QED
  BY <1>1, <1>3, <1>4, NextCases

\* The owner looks at loop_ and begins to wait in one step, and a thread that
\* publishes its loop notifies afterwards.
LEMMA NextAwaited == TypeOK /\ Untouched /\ Awaited /\ [Next]_vars => Awaited'
<1> SUFFICES ASSUME TypeOK, Untouched, Awaited, [Next]_vars
             PROVE  Awaited'
  OBVIOUS
<1> USE NAssumption DEF TypeOK, Awaited, Starting, OwnerGoes, ThreadGoes
<1>1. CASE StartPool \/ Return
  BY <1>1, CreateFresh
<1>2. CASE \/ SeeId \/ CheckLoop \/ SpuriousWakeup \/ GetNextLoop \/ DestroyPool
           \/ LockAndLook \/ QuitStore \/ QuitWakeup \/ Join \/ UNCHANGED vars
  BY <1>2 DEF SeeId, CheckLoop, SpuriousWakeup, GetNextLoop, DestroyPool,
              LockAndLook, QuitStore, QuitWakeup, Join, vars
<1>3. ASSUME NEW i \in Threads,
             \/ StoreId(i) \/ EndInitFunc(i) \/ Publish(i) \/ Notify(i)
             \/ EnterLoop(i) \/ LeaveLoop(i) \/ Withdraw(i) \/ Unwind(i)
             \/ SelfQuit(i)
      PROVE  Awaited'
  BY <1>3 DEF StoreId, EndInitFunc, Publish, Notify, EnterLoop, LeaveLoop,
              Withdraw, Unwind, SelfQuit
<1>4. QED
  BY <1>1, <1>2, <1>3, NextCases

\* Without quits by user code no loop is asked to quit before the destructor.
LEMMA NextNotQuitting ==
    TypeOK /\ NotQuitting /\ ~selfQuit' /\ [Next]_vars => NotQuitting'
<1> SUFFICES ASSUME TypeOK, NotQuitting, ~selfQuit', [Next]_vars
             PROVE  NotQuitting'
  OBVIOUS
<1> USE DEF TypeOK, NotQuitting, Starting, OwnerGoes, Create, ThreadGoes
<1>1. CASE \/ StartPool \/ SeeId \/ CheckLoop \/ Return \/ SpuriousWakeup
           \/ GetNextLoop \/ DestroyPool \/ LockAndLook \/ QuitStore
           \/ QuitWakeup \/ Join \/ UNCHANGED vars
  BY <1>1 DEF StartPool, SeeId, CheckLoop, Return, SpuriousWakeup, GetNextLoop,
              DestroyPool, LockAndLook, QuitStore, QuitWakeup, Join, vars
<1>2. ASSUME NEW i \in Threads,
             \/ StoreId(i) \/ EndInitFunc(i) \/ Publish(i) \/ Notify(i)
             \/ EnterLoop(i) \/ LeaveLoop(i) \/ Withdraw(i) \/ Unwind(i)
             \/ SelfQuit(i)
      PROVE  NotQuitting'
  BY <1>2 DEF StoreId, EndInitFunc, Publish, Notify, EnterLoop, LeaveLoop,
              Withdraw, Unwind, SelfQuit
<1>3. QED
  BY <1>1, <1>2, NextCases

\* Every start() that came back gave a pointer to a loop that runs on.
LEMMA NextUpAndRunning ==
    IInv /\ ~selfQuit /\ ~selfQuit' /\ [Next]_vars => UpAndRunning'
<1> SUFFICES ASSUME TypeOK, Untouched, LoopIsPublished, NotQuitting, UpAndRunning,
                    ~selfQuit', [Next]_vars
             PROVE  UpAndRunning'
  BY DEF IInv
<1> USE NAssumption DEF TypeOK, UpAndRunning, Started, Starting, Published, OwnerGoes,
                        ThreadGoes
<1>1. CASE StartPool
  BY <1>1 DEF StartPool, Threads
<1>2. CASE Return
  <2>1. loop[current] /\ loops' = [loops EXCEPT ![current] = "loop"]
    BY <1>2 DEF Return, LoopIsPublished
  <2>2. \A i \in Threads : i <= current =>
            thread[i] \in Published \ {"withdraw"} /\ loops'[i] = "loop"
    BY <1>2, <2>1 DEF Return, Threads
  <2>3. CASE /\ current < N
             /\ owner' = "spawn"
             /\ current' = current + 1
             /\ thread' = [thread EXCEPT ![current + 1] = "created"]
    BY <2>2, <2>3 DEF Threads
  <2>4. CASE current = N /\ owner' = "serving" /\ UNCHANGED <<current, thread>>
    BY <2>2, <2>4 DEF Threads
  <2>5. QED
    BY <1>2, <2>3, <2>4 DEF Return, Create
<1>3. CASE CheckLoop
  <2>1. loop[current] => thread[current] \in Published \ {"withdraw"}
    BY <1>3 DEF CheckLoop, LoopIsPublished, NotQuitting
  <2>2. QED
    BY <1>3, <2>1 DEF CheckLoop, Threads
<1>4. CASE \/ SeeId \/ SpuriousWakeup \/ GetNextLoop \/ UNCHANGED vars
  BY <1>4 DEF SeeId, SpuriousWakeup, GetNextLoop, vars
<1>5. CASE DestroyPool \/ LockAndLook \/ QuitStore \/ QuitWakeup \/ Join
  BY <1>5 DEF DestroyPool, LockAndLook, QuitStore, QuitWakeup, Join
<1>6. ASSUME NEW i \in Threads,
             \/ StoreId(i) \/ EndInitFunc(i) \/ Publish(i) \/ Notify(i)
             \/ EnterLoop(i) \/ LeaveLoop(i) \/ Withdraw(i) \/ Unwind(i)
             \/ SelfQuit(i)
      PROVE  UpAndRunning'
  BY <1>6 DEF StoreId, EndInitFunc, Publish, Notify, EnterLoop, LeaveLoop,
              Withdraw, Unwind, SelfQuit, NotQuitting
<1>7. QED
  BY <1>1, <1>2, <1>3, <1>4, <1>5, <1>6, NextCases

LEMMA QuitIsRemembered == selfQuit /\ [Next]_vars => selfQuit'
BY NextCases DEF StartPool, SeeId, CheckLoop, Return, SpuriousWakeup, GetNextLoop,
   DestroyPool, LockAndLook, QuitStore, QuitWakeup, Join, StoreId, EndInitFunc,
   Publish, Notify, EnterLoop, LeaveLoop, Withdraw, Unwind, SelfQuit, Create,
   ThreadGoes, vars

-----------------------------------------------------------------------------
(* Counting modulo the number of loops, for getNextLoop.                    *)

LEMMA DivMod ==
    ASSUME NEW x \in Nat, NEW n \in Nat \ {0}
    PROVE  x \div n \in Int /\ x % n \in 0..(n - 1) /\ x = n * (x \div n) + (x % n)
BY SMTT(30)

LEMMA ModOf ==
    ASSUME NEW q \in Int, NEW n \in Nat \ {0}, NEW r \in 0..(n - 1)
    PROVE  (n * q + r) % n = r
BY SMTT(30)

LEMMA ModNext ==
    ASSUME NEW x \in Nat, NEW n \in Nat \ {0}
    PROVE  (x + 1) % n = IF x % n = n - 1 THEN 0 ELSE (x % n) + 1
<1> DEFINE q == x \div n
           r == x % n
<1>1. x = n * q + r /\ r \in 0..(n - 1) /\ q \in Int
  BY DivMod
<1> HIDE DEF q, r
<1>2. n * q \in Int /\ n * (q + 1) = n * q + n
  BY <1>1
<1>3. CASE r = n - 1
  <2>1. (n * (q + 1) + 0) % n = 0
    BY <1>1, ModOf
  <2>2. x + 1 = n * (q + 1) + 0
    BY <1>1, <1>2, <1>3
  <2> QED BY <1>3, <2>1, <2>2 DEF r
<1>4. CASE r # n - 1
  <2>1. (n * q + (r + 1)) % n = r + 1
    BY <1>1, <1>4, ModOf
  <2>2. x + 1 = n * q + (r + 1)
    BY <1>1, <1>2
  <2> QED BY <1>4, <2>1, <2>2 DEF r
<1> QED BY <1>3, <1>4

\* The next place in the round, also where the counter overflows.
LEMMA NextTurn ==
    ASSUME TypeOK, Wrap % N = 0
    PROVE  Advanced % N = IF next % N = N - 1 THEN 0 ELSE (next % N) + 1
<1>1. next \in Nat /\ next + 1 <= Wrap
  BY WrapAssumption DEF TypeOK
<1>2. (next + 1) % N = IF next % N = N - 1 THEN 0 ELSE (next % N) + 1
  BY <1>1, NAssumption, ModNext
<1>3. CASE next + 1 < Wrap
  <2>1. Advanced = next + 1
    BY <1>1, <1>3, WrapAssumption DEF Advanced
  <2> QED BY <1>2, <2>1
<1>4. CASE next + 1 = Wrap
  <2>1. Advanced = 0
    BY <1>4, WrapAssumption DEF Advanced
  <2>2. 0 % N = 0
    BY NAssumption
  <2>3. (next + 1) % N = 0
    BY <1>4
  <2>4. next % N \in 0..(N - 1)
    BY <1>1, NAssumption, DivMod
  <2>5. next % N = N - 1
    BY <1>2, <2>3, <2>4
  <2> QED BY <2>1, <2>2, <2>5
<1> QED BY <1>1, <1>3, <1>4, WrapAssumption

\* Whoever is handed out gains one, and the last of a round ends it.
LEMMA NextRounds == TypeOK /\ Rounds /\ [Next]_vars => Rounds'
<1> SUFFICES ASSUME TypeOK, Rounds, [Next]_vars, Wrap % N = 0
             PROVE  \A i, j \in Threads : served'[i] - served'[j] = Ahead(i)' - Ahead(j)'
  BY DEF Rounds
<1>1. \A i, j \in Threads : served[i] - served[j] = Ahead(i) - Ahead(j)
  BY DEF Rounds
<1>2. CASE GetNextLoop
  <2> DEFINE r == next % N
             s == next' % N
  <2>1. s = IF r = N - 1 THEN 0 ELSE r + 1
    BY <1>2, NextTurn DEF GetNextLoop
  <2>2. r \in 0..(N - 1)
    BY NAssumption, WrapAssumption, DivMod DEF TypeOK
  <2>3. \A i \in Threads : /\ Ahead(i) = IF i <= r THEN 1 ELSE 0
                           /\ Ahead(i)' = IF i <= s THEN 1 ELSE 0
    BY DEF Ahead
  <2>4. \A i \in Threads : served'[i] = IF i = r + 1 THEN served[i] + 1 ELSE served[i]
    BY <1>2 DEF GetNextLoop, TypeOK
  <2> HIDE DEF r, s
  <2>5. r + 1 \in Threads /\ \A i \in Threads : served[i] \in Int /\ i \in 1..N
    BY <2>2, NAssumption DEF Threads, TypeOK
  <2>6. \A i \in Threads : served'[i] - Ahead(i)' = served[i] - Ahead(i) + (IF r = N - 1 THEN 1 ELSE 0)
    <3>1. CASE r = N - 1
      BY <2>1, <2>3, <2>4, <2>5, <3>1, NAssumption
    <3>2. CASE r # N - 1
      BY <2>1, <2>2, <2>3, <2>4, <2>5, <3>2, NAssumption
    <3> QED BY <3>1, <3>2
  <2>7. \A i \in Threads : Ahead(i) \in Int /\ Ahead(i)' \in Int /\ served'[i] \in Int
    BY <2>3, <2>4, <2>5
  <2> TAKE i, j \in Threads
  <2>8. served[i] - served[j] = Ahead(i) - Ahead(j)
    BY <1>1
  <2>9. /\ served'[i] - Ahead(i)' = served[i] - Ahead(i) + (IF r = N - 1 THEN 1 ELSE 0)
        /\ served'[j] - Ahead(j)' = served[j] - Ahead(j) + (IF r = N - 1 THEN 1 ELSE 0)
    BY <2>6
  <2> QED BY <2>5, <2>7, <2>8, <2>9
<1>3. ASSUME UNCHANGED <<next, served>>
      PROVE  \A i, j \in Threads : served'[i] - served'[j] = Ahead(i)' - Ahead(j)'
  BY <1>1, <1>3 DEF Ahead
<1>4. ASSUME ~GetNextLoop  PROVE UNCHANGED <<next, served>>
  BY <1>4, NextCases DEF StartPool, SeeId, CheckLoop, Return, SpuriousWakeup,
     DestroyPool, LockAndLook, QuitStore, QuitWakeup, Join, StoreId, EndInitFunc,
     Publish, Notify, EnterLoop, LeaveLoop, Withdraw, Unwind, SelfQuit, Create,
     ThreadGoes, vars
<1> QED BY <1>2, <1>3, <1>4

-----------------------------------------------------------------------------
\* The state of the pool keeps its types.
THEOREM TypeCorrect == Spec => []TypeOK
<1>1. Init => TypeOK
  BY InitIInv DEF IInv
<1>2. QED
  BY <1>1, NextTypeOK, PTL DEF Spec

\* The strengthened invariant holds in every reachable state.
THEOREM Invariance == Spec => []IInv
<1>1. IInv /\ [Next]_vars => IInv'
  <2> SUFFICES ASSUME IInv, [Next]_vars
               PROVE  IInv'
    OBVIOUS
  <2>1. TypeOK' /\ Untouched' /\ LoopIsPublished' /\ HeldLoop'
    BY NextTypeOK, NextUntouched, NextLoops DEF IInv
  <2>2. ~selfQuit' => NotQuitting' /\ UpAndRunning'
    BY NextNotQuitting, NextUpAndRunning, QuitIsRemembered DEF IInv, TypeOK
  <2>3. Rounds' /\ Awaited'
    BY NextRounds, NextAwaited DEF IInv
  <2>4. QED
    BY <2>1, <2>2, <2>3 DEF IInv
<1>2. QED
  BY InitIInv, <1>1, PTL DEF Spec

\* The destructor never calls quit() on an EventLoop that is gone.
THEOREM QuitIsSafe == Spec => []QuitOnLiveLoop
<1>1. IInv => QuitOnLiveLoop
  BY DEF IInv, TypeOK, LoopIsPublished, HeldLoop, QuitOnLiveLoop, Published, Alive
<1>2. QED
  BY Invariance, <1>1, PTL

\* While the pool serves, each of its pointers is to a loop that exists,
\* until user code quits a sub-loop.
THEOREM PoolPointersAreValid == Spec => []PointersValid
<1>1. IInv => PointersValid
  BY DEF IInv, UpAndRunning, Started, Starting, PointersValid, Published, Alive
<1>2. QED
  BY Invariance, <1>1, PTL

\* start() never waits for a notification that has been given already.
THEOREM StarterIsNotified == Spec => []NotifyToCome
<1>1. IInv => NotifyToCome
  BY DEF IInv, TypeOK, Awaited, LoopIsPublished, NotQuitting, NotifyToCome, Published,
         Starting, Alive
<1>2. QED
  BY Invariance, <1>1, PTL

\* No loop of the pool is ever handed out two times more than another, if the
\* number of loops divides the range of the counter.
THEOREM SharesAreEven == Spec => []EvenShares
<1>1. IInv => EvenShares
  BY DEF IInv, TypeOK, Rounds, Ahead, EvenShares
<1>2. QED
  BY Invariance, <1>1, PTL
=============================================================================
