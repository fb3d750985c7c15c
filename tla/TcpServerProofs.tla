--------------------------- MODULE TcpServerProofs ---------------------------
(***************************************************************************)
(* Theorems about TcpServer, for any numbers of sub-loops, connections,    *)
(* descriptors, start() calls and close() calls.                           *)
(***************************************************************************)
EXTENDS TcpServer, TLAPS

(***************************************************************************)
(* The functors in one loop's queue, and what a push and a pop do to them. *)
(***************************************************************************)
ItemsOf(s) == {s[i] : i \in 1..Len(s)}

OnceIn(s) ==
    \A i, j \in 1..Len(s) : s[i].name = "established" /\ s[j] = s[i] => j = i

LEMMA AppendItems ==
    ASSUME NEW s \in Seq(AllFunctors), NEW x \in AllFunctors
    PROVE  /\ Append(s, x) \in Seq(AllFunctors)
           /\ ItemsOf(Append(s, x)) = ItemsOf(s) \union {x}
           /\ OnceIn(s) /\ (x.name # "established" \/ x \notin ItemsOf(s))
                  => OnceIn(Append(s, x))
<1> DEFINE v == Append(s, x)
<1>1. /\ Len(s) \in Nat
      /\ v \in Seq(AllFunctors)
      /\ Len(v) = Len(s) + 1
      /\ \A i \in 1..Len(s) : v[i] = s[i]
      /\ v[Len(s) + 1] = x
  OBVIOUS
<1> HIDE DEF v
<1>2. \A i \in 1..Len(v) : i \in 1..Len(s) \/ i = Len(s) + 1
  BY <1>1
<1>3. ItemsOf(v) = ItemsOf(s) \union {x}
  BY <1>1, <1>2 DEF ItemsOf
<1>4. ASSUME OnceIn(s), x.name # "established" \/ x \notin ItemsOf(s)
      PROVE  OnceIn(v)
  <2>1. \A i \in 1..Len(s) : x.name = "established" => s[i] # x
    BY <1>4 DEF ItemsOf
  <2> QED BY <1>1, <1>2, <1>4, <2>1 DEF OnceIn
<1> QED BY <1>1, <1>3, <1>4 DEF v

LEMMA TailItems ==
    ASSUME NEW s \in Seq(AllFunctors), s # <<>>
    PROVE  /\ Tail(s) \in Seq(AllFunctors)
           /\ Head(s) \in AllFunctors
           /\ ItemsOf(s) = ItemsOf(Tail(s)) \union {Head(s)}
           /\ OnceIn(s) => /\ OnceIn(Tail(s))
                           /\ Head(s).name = "established" => Head(s) \notin ItemsOf(Tail(s))
<1> DEFINE v == Tail(s)
<1>1. /\ Len(s) \in Nat \ {0}
      /\ v \in Seq(AllFunctors)
      /\ Len(v) = Len(s) - 1
      /\ \A i \in 1..Len(v) : v[i] = s[i + 1]
      /\ Head(s) = s[1] /\ s[1] \in AllFunctors
  OBVIOUS
<1> HIDE DEF v
<1>2. \A i \in 1..Len(v) : i + 1 \in 1..Len(s) /\ i + 1 # 1 /\ v[i] = s[i + 1]
  BY <1>1
<1>3. \A i \in 1..Len(s) : i = 1 \/ (i - 1 \in 1..Len(v) /\ s[i] = v[i - 1])
  BY <1>1
<1>4. 1 \in 1..Len(s)
  BY <1>1
<1>5. ItemsOf(s) \subseteq ItemsOf(v) \union {s[1]}
  BY <1>3 DEF ItemsOf
<1>6. ItemsOf(v) \union {s[1]} \subseteq ItemsOf(s)
  BY <1>2, <1>4 DEF ItemsOf
<1>7. ASSUME OnceIn(s)  PROVE OnceIn(v)
  <2> SUFFICES ASSUME NEW i \in 1..Len(v), NEW j \in 1..Len(v),
                      v[i].name = "established", v[j] = v[i]
               PROVE  j = i
    BY DEF OnceIn
  <2>1. j + 1 = i + 1
    BY <1>2, <1>7 DEF OnceIn
  <2> QED BY <1>1, <2>1
<1>8. ASSUME OnceIn(s), s[1].name = "established"  PROVE s[1] \notin ItemsOf(v)
  BY <1>2, <1>4, <1>8 DEF OnceIn, ItemsOf
<1> QED BY <1>1, <1>5, <1>6, <1>7, <1>8 DEF v

LEMMA EmptyItems ==
    /\ <<>> \in Seq(AllFunctors)
    /\ ItemsOf(<<>>) = {}
    /\ OnceIn(<<>>)
  BY DEF ItemsOf, OnceIn

LEMMA FunctorTyped ==
    \A name \in {"established", "close", "remove"}, c \in Conns : Functor(name, c) \in AllFunctors
  BY DEF Functor, AllFunctors

(***************************************************************************)
(* The invariant in terms of the functors queued, whatever their places.   *)
(***************************************************************************)
Fits(q, l) ==
    /\ loop[q.conn] = l
    /\ q.name = "established" => /\ state[q.conn] = "new"
                                 /\ server # "gone" => rConnects[fd[q.conn]] = q.conn
    /\ q.name = "remove" => state[q.conn] \in {"closed", "removed"}

QueuesFit ==
    \A l \in Loops : OnceIn(queue[l]) /\ \A q \in ItemsOf(queue[l]) : Fits(q, l)

AccessesFit ==
    \A l \in Loops :
        /\ access[l].name = "insert" =>
               /\ l = Base /\ server = "alive"
               /\ state[access[l].conn] = "new"
               /\ rConnects[fd[access[l].conn]] = None
               /\ \A k \in Loops : \A q \in ItemsOf(queue[k]) : q.conn # access[l].conn
        /\ access[l].name = "erase" => state[access[l].conn] \in {"closed", "removed"}

Safe == Descriptors /\ Inserting /\ Handed /\ Removing /\ OpenIsEntered

LEMMA QueuedItems ==
    \A l, c : Queued(l, c) <=> \E q \in ItemsOf(queue[l]) : q.conn = c
  BY DEF Queued, ItemsOf

LEMMA AliveItems ==
    \A c : Alive(c) <=> \/ \E f \in Fds : rConnects[f] = c
                        \/ \E l \in Loops : access[l].conn = c
                        \/ \E l \in Loops : \E q \in ItemsOf(queue[l]) : q.conn = c
                        \/ c \in kept
  BY QueuedItems DEF Alive

LEMMA SafeParts == Safe <=> Descriptors /\ QueuesFit /\ AccessesFit /\ OpenIsEntered
<1>1. Handed /\ Removing /\ Inserting => QueuesFit
  BY DEF Handed, Removing, QueuesFit, Fits, OnceIn, ItemsOf
<1>2. Handed /\ Removing /\ Inserting => AccessesFit
  BY QueuedItems DEF Handed, Removing, Inserting, AccessesFit
<1>3. AccessesFit => Inserting
  BY DEF Inserting, AccessesFit
<1>4. QueuesFit /\ AccessesFit => Handed /\ Removing
  <2> SUFFICES ASSUME QueuesFit, AccessesFit
               PROVE  Handed /\ Removing
    OBVIOUS
  <2>1. \A l \in Loops : \A i \in 1..Len(queue[l]) : Fits(queue[l][i], l)
    BY DEF QueuesFit, ItemsOf
  <2>2. \A l \in Loops : \A i, j \in 1..Len(queue[l]) :
            queue[l][i].name = "established" /\ queue[l][j] = queue[l][i] => j = i
    BY DEF QueuesFit, OnceIn
  <2>3. \A l \in Loops : access[l].name = "insert" => ~ \E k \in Loops : Queued(k, access[l].conn)
    BY QueuedItems DEF AccessesFit
  <2> QED BY <2>1, <2>2, <2>3 DEF Handed, Removing, Fits, AccessesFit
<1> QED BY <1>1, <1>2, <1>3, <1>4 DEF Safe

-----------------------------------------------------------------------------
(* Type correctness, one step per action.                                  *)

LEMMA NextTyped ==
    ASSUME TypeOK
    PROVE  Advanced \in 0..(Wrap - 1) /\ NextLoop \in Loops
           /\ (numThread = 0 => NextLoop = Base) /\ (numThread > 0 => NextLoop \in SubLoops)
<1>1. /\ Wrap \in Nat \ {0} /\ next \in Nat /\ numThread \in Nat /\ numThread <= MaxThreads
      /\ MaxThreads \in Nat
  BY WrapAssumption, BoundsAssumption DEF TypeOK, Loops
<1>2. Advanced \in 0..(Wrap - 1)
  BY <1>1 DEF Advanced
<1>3. ASSUME numThread > 0  PROVE next % numThread \in 0..(numThread - 1)
  BY <1>1, <1>3
<1> QED BY <1>1, <1>2, <1>3 DEF NextLoop, Loops, Base, SubLoops

LEMMA InitTypes == Init => TypeOK
<1> SUFFICES ASSUME Init  PROVE TypeOK
  OBVIOUS
<1>1. queue \in [Loops -> Seq(AllFunctors)]
  BY EmptyItems DEF Init
<1>2. Base \in Loops /\ 0 \in 0..(Wrap - 1) /\ 0 \in 0..MaxCloses
  BY BoundsAssumption, WrapAssumption DEF Base, Loops
<1> QED BY <1>1, <1>2 DEF Init, TypeOK, Base

LEMMA HandleCloseTypes ==
    ASSUME TypeOK, NEW l \in Loops, NEW q \in Seq(AllFunctors), NEW c \in Conns, HandleClose(l, q, c)
    PROVE  /\ queue' \in [Loops -> Seq(AllFunctors)]
           /\ state' \in [Conns -> {"none", "new", "open", "closed", "removed"}]
           /\ dangling' \in BOOLEAN
<1>1. Append(q, Functor("remove", c)) \in Seq(AllFunctors)
  BY FunctorTyped, AppendItems
<1>2. dangling' \in BOOLEAN
  BY Zenon DEF HandleClose, TypeOK
<1> QED BY <1>1, <1>2 DEF HandleClose, TypeOK

LEMMA EntersTypes ==
    ASSUME TypeOK, NEW l \in Loops, NEW name \in {"insert", "erase"}, NEW c \in Conns,
           Enters(l, name, c)
    PROVE  /\ access' \in [Loops -> [name : {"insert", "erase"}, conn : Conns] \union {NoAccess}]
           /\ clean' \in BOOLEAN
           /\ dangling' \in BOOLEAN
<1>1. clean' \in BOOLEAN /\ dangling' \in BOOLEAN
  BY Zenon DEF Enters, TypeOK
<1> QED BY <1>1 DEF Enters, TypeOK

LEMMA StepTypes == TypeOK /\ [Next]_vars => TypeOK'
<1> SUFFICES ASSUME TypeOK, [Next]_vars
             PROVE  TypeOK'
  OBVIOUS
<1> USE DEF startVars, connVars, userVars, mapVars
<1>a. Base \in Loops /\ SubLoops \subseteq Loops
  BY BoundsAssumption DEF Base, Loops, SubLoops, TypeOK
<1>b. ASSUME NEW l \in Loops, NEW name, Pops(l, name)
      PROVE  /\ Tail(queue[l]) \in Seq(AllFunctors)
             /\ Head(queue[l]).conn \in Conns
  <2>1. queue[l] \in Seq(AllFunctors) /\ queue[l] # <<>>
    BY <1>b DEF TypeOK, Pops
  <2>2. Head(queue[l]) \in AllFunctors
    BY <2>1, TailItems
  <2> QED BY <2>1, <2>2, TailItems DEF AllFunctors
<1>1. CASE StartStep
  <2>1. CASE StartChecks
    BY <2>1 DEF StartChecks, TypeOK
  <2>2. CASE StartStores
    BY <2>2 DEF StartStores, TypeOK
  <2>3. CASE StartPosts
    BY <2>3 DEF StartPosts, TypeOK
  <2>4. CASE StartAgain
    <3>1. restarted' \in BOOLEAN
      BY <2>4, Zenon DEF StartAgain, TypeOK
    <3> QED BY <2>4, <3>1 DEF StartAgain, TypeOK
  <2>5. CASE StartTwice
    <3>1. clean' \in BOOLEAN
      BY <2>5 DEF StartTwice
    <3> QED BY <2>5, <3>1 DEF StartTwice, TypeOK
  <2>6. ASSUME NEW l \in Loops, StartSub(l)  PROVE TypeOK'
    BY <2>6 DEF StartSub, TypeOK
  <2> QED BY <1>1, <2>1, <2>2, <2>3, <2>4, <2>5, <2>6 DEF StartStep
<1>2. CASE RunStart
  BY <1>2 DEF RunStart, TypeOK
<1>3. ASSUME NEW c \in Conns, EndInsert(c)  PROVE TypeOK'
  <2>1. loop[c] \in Loops /\ queue[loop[c]] \in Seq(AllFunctors)
    BY DEF TypeOK
  <2>2. Append(queue[loop[c]], Functor("established", c)) \in Seq(AllFunctors)
    BY <2>1, AppendItems, FunctorTyped
  <2>3. /\ queue' \in [Loops -> Seq(AllFunctors)]
        /\ state' \in [Conns -> {"none", "new", "open", "closed", "removed"}]
    BY <1>3, <2>2 DEF EndInsert, TypeOK
  <2>4. rConnects' \in [Fds -> Conns \union {None}]
    BY <1>3 DEF EndInsert, TypeOK
  <2>5. access' \in [Loops -> [name : {"insert", "erase"}, conn : Conns] \union {NoAccess}]
    BY <1>3 DEF EndInsert, Leaves, TypeOK
  <2> QED BY <1>3, <2>3, <2>4, <2>5 DEF EndInsert, Leaves, TypeOK
<1>4. ASSUME NEW l \in Loops, RunEstablished(l)  PROVE TypeOK'
  <2>1. Tail(queue[l]) \in Seq(AllFunctors) /\ Head(queue[l]).conn \in Conns
    BY <1>4, <1>b DEF RunEstablished
  <2> QED BY <1>4, <2>1 DEF RunEstablished, Pops, TypeOK
<1>5. ASSUME NEW l \in Loops, RunClose(l)  PROVE TypeOK'
  <2>1. Tail(queue[l]) \in Seq(AllFunctors) /\ Head(queue[l]).conn \in Conns
    BY <1>5, <1>b DEF RunClose
  <2>2. CASE state[Head(queue[l]).conn] = "open"
    <3>1. HandleClose(l, Tail(queue[l]), Head(queue[l]).conn)
      BY <1>5, <2>2 DEF RunClose
    <3>2. UNCHANGED <<rConnects, access, clean>>
      BY <3>1 DEF HandleClose
    <3> QED BY <1>5, <2>1, <3>1, <3>2, HandleCloseTypes DEF RunClose, Pops, TypeOK
  <2>3. CASE state[Head(queue[l]).conn] # "open"
    BY <1>5, <2>1, <2>3 DEF RunClose, Pops, TypeOK
  <2> QED BY <2>2, <2>3
<1>6. ASSUME NEW l \in Loops, RunRemove(l)  PROVE TypeOK'
  <2>1. Tail(queue[l]) \in Seq(AllFunctors) /\ Head(queue[l]).conn \in Conns
    BY <1>6, <1>b DEF RunRemove
  <2>2. queue' \in [Loops -> Seq(AllFunctors)]
    BY <1>6, <2>1 DEF RunRemove, TypeOK
  <2> QED BY <1>6, <2>1, <2>2, EntersTypes DEF RunRemove, Pops, TypeOK
<1>7. ASSUME NEW l \in Loops, EndErase(l)  PROVE TypeOK'
  <2>1. access' \in [Loops -> [name : {"insert", "erase"}, conn : Conns] \union {NoAccess}]
    BY <1>7 DEF EndErase, Leaves, TypeOK
  <2> QED BY <1>7, <2>1 DEF EndErase, Leaves, TypeOK
<1>8. ASSUME NEW c \in Conns, NewConnect(c)  PROVE TypeOK'
  <2>1. /\ fd' \in [Conns -> Fds \union {None}]
        /\ loop' \in [Conns -> Loops]
        /\ next' \in 0..(Wrap - 1)
        /\ state' \in [Conns -> {"none", "new", "open", "closed", "removed"}]
    BY <1>8, NextTyped DEF NewConnect, TypeOK
  <2> QED BY <1>8, <1>a, <2>1, EntersTypes DEF NewConnect, TypeOK
<1>16. ASSUME NEW c \in Conns, NewConnectExits(c)  PROVE TypeOK'
  BY <1>16 DEF NewConnectExits, TypeOK
<1>9. ASSUME NEW c \in Conns, Keep(c) \/ Release(c)  PROVE TypeOK'
  BY <1>9 DEF Keep, Release, TypeOK
<1>10. ASSUME NEW c \in Conns, Close(c)  PROVE TypeOK'
  <2>1. Append(queue[loop[c]], Functor("close", c)) \in Seq(AllFunctors)
    BY AppendItems, FunctorTyped DEF TypeOK
  <2>2. closes' \in 0..MaxCloses
    BY <1>10, BoundsAssumption DEF Close, TypeOK
  <2> QED BY <1>10, <2>1, <2>2 DEF Close, TypeOK
<1>11. ASSUME NEW l \in Loops, NEW c \in Conns, CloseEvent(l, c)  PROVE TypeOK'
  <2>1. HandleClose(l, queue[l], c) /\ queue[l] \in Seq(AllFunctors)
    BY <1>11 DEF CloseEvent, TypeOK
  <2>2. UNCHANGED <<rConnects, access, clean>>
    BY <2>1 DEF HandleClose
  <2> QED BY <1>11, <2>1, <2>2, HandleCloseTypes DEF CloseEvent, TypeOK
<1>12. CASE Destroy
  BY <1>12 DEF Destroy, TypeOK
<1>13. CASE DestroyMap
  BY <1>13 DEF DestroyMap, TypeOK
<1>14. ASSUME NEW l \in Loops, Join(l)  PROVE TypeOK'
  BY <1>14, EmptyItems DEF Join, TypeOK
<1>15. CASE UNCHANGED vars
  BY <1>15 DEF vars, TypeOK
<1> QED
  BY <1>1, <1>2, <1>3, <1>4, <1>5, <1>6, <1>7, <1>8, <1>9, <1>10, <1>11, <1>12, <1>13, <1>14,
     <1>15, <1>16 DEF Next, BaseStep, LoopStep, Destructor

\* The state of TcpServer keeps its types.
THEOREM TypeCorrect == Spec => []TypeOK
BY InitTypes, StepTypes, PTL DEF Spec

-----------------------------------------------------------------------------
(* Which threads there are, and where connections are handed to.           *)

Rest == Subs /\ LoopsAreUp /\ MembersAlive

\* What is popped from a queue is about a connection of that loop.
LEMMA Popped ==
    ASSUME TypeOK, QueuesFit, NEW l \in Loops, NEW name, Pops(l, name)
    PROVE  /\ queue[l] \in Seq(AllFunctors) /\ queue[l] # <<>>
           /\ Head(queue[l]) \in ItemsOf(queue[l])
           /\ Head(queue[l]) \in AllFunctors
           /\ Head(queue[l]).conn \in Conns
           /\ Head(queue[l]).name = name
           /\ Fits(Head(queue[l]), l)
<1>1. queue[l] \in Seq(AllFunctors) /\ queue[l] # <<>>
  BY DEF TypeOK, Pops
<1>2. Head(queue[l]) \in ItemsOf(queue[l]) /\ Head(queue[l]) \in AllFunctors
  BY <1>1, TailItems
<1> QED BY <1>1, <1>2 DEF QueuesFit, Pops, AllFunctors

\* A thread that handles a connection belongs to a server whose members exist,
\* when there are sub-loops.
LEMMA NotGone ==
    ASSUME TypeOK, Subs, NEW l \in Loops, NEW c \in Conns,
           loop[c] = l, state[c] # "none", sub[l] = "running", numThread > 0
    PROVE  server # "gone"
  BY DEF Subs, TypeOK, Loops

LEMMA RestKept ==
    ASSUME Rest, UNCHANGED <<numThread, server, sub, pool, restarted, posted, listening, loop>>,
           numThread > 0 => dangling' = dangling,
           \A c \in Conns : state'[c] # "none" => state[c] # "none"
    PROVE  Rest'
<1>1. Subs'
  <2>1. SubLoops' = SubLoops
    BY DEF SubLoops
  <2> QED BY <2>1 DEF Rest, Subs
<1>2. LoopsAreUp'
  BY DEF Rest, LoopsAreUp
<1>3. MembersAlive'
  BY DEF Rest, MembersAlive
<1> QED BY <1>1, <1>2, <1>3 DEF Rest

LEMMA StepRest ==
    ASSUME TypeOK, Rest, clean => QueuesFit /\ AccessesFit, [Next]_vars
    PROVE  Rest'
<1> USE DEF startVars, connVars, userVars, mapVars
<1>a. SubLoops \subseteq Loops /\ Base \in Loops /\ Base \notin SubLoops
  BY BoundsAssumption DEF Base, Loops, SubLoops, TypeOK
<1>1. CASE StartStep
  <2>1. /\ server = "alive" /\ SubLoops' = SubLoops
        /\ \A l \in Loops : sub[l] = "running" => sub'[l] = "running"
        /\ UNCHANGED <<numThread, server, listening, loop, state, dangling>>
    BY <1>1 DEF StartStep, StartChecks, StartStores, StartSub, StartPosts, StartAgain,
                StartTwice, SubLoops, TypeOK
  <2>2. pool' = "up" => \A l \in SubLoops : sub'[l] = "running"
    BY <1>1, <1>a, <2>1 DEF StartStep, StartChecks, StartStores, StartSub, StartPosts,
                            StartAgain, StartTwice, Rest, Subs
  <2>3. listening' \/ posted' > 0 => pool' = "up" \/ restarted' \/ numThread' = 0
    BY <1>1, <2>1 DEF StartStep, StartChecks, StartStores, StartSub, StartPosts, StartAgain,
                      StartTwice, Rest, Subs
  <2>4. Subs'
    <3>1. sub'[Base] = "running"
      BY <1>a, <2>1 DEF Rest, Subs
    <3> QED BY <2>1, <2>2, <2>3, <3>1 DEF Rest, Subs
  <2>5. LoopsAreUp'
    BY <2>1 DEF Rest, LoopsAreUp, TypeOK
  <2>6. MembersAlive'
    BY <2>1 DEF Rest, MembersAlive
  <2> QED BY <2>4, <2>5, <2>6 DEF Rest
<1>2. CASE RunStart
  <2>1. /\ posted > 0 /\ server = "alive" /\ SubLoops' = SubLoops
        /\ UNCHANGED <<numThread, server, sub, pool, restarted, loop, state, dangling>>
    BY <1>2 DEF RunStart, SubLoops
  <2>2. Subs'
    BY <2>1 DEF Rest, Subs
  <2> QED BY <2>1, <2>2 DEF Rest, LoopsAreUp, MembersAlive
<1>3. ASSUME NEW c \in Conns, EndInsert(c)  PROVE Rest'
  <2>1. clean /\ UNCHANGED <<numThread, server, sub, pool, restarted, posted, listening, loop,
                             dangling>>
    BY <1>3 DEF EndInsert, Leaves
  <2>2. state[c] = "new"
    BY <1>3, <1>a, <2>1 DEF EndInsert, AccessesFit
  <2>3. \A b \in Conns : state'[b] # "none" => state[b] # "none"
    BY <1>3, <2>2 DEF EndInsert, TypeOK
  <2> QED BY <2>1, <2>3, RestKept
<1>4. ASSUME NEW l \in Loops, RunEstablished(l)  PROVE Rest'
  <2>1. /\ clean /\ Pops(l, "established")
        /\ UNCHANGED <<numThread, server, sub, pool, restarted, posted, listening, loop,
                             dangling>>
    BY <1>4 DEF RunEstablished, Pops, OnLoop
  <2>2. state[Head(queue[l]).conn] = "new"
    BY <2>1, Popped DEF Fits
  <2>3. \A b \in Conns : state'[b] # "none" => state[b] # "none"
    BY <1>4, <2>2 DEF RunEstablished, TypeOK
  <2> QED BY <2>1, <2>3, RestKept
<1>5. ASSUME NEW l \in Loops, NEW q, NEW c \in Conns, HandleClose(l, q, c), OnLoop(l),
             loop[c] = l, state[c] = "open",
             UNCHANGED <<numThread, server, sub, pool, restarted, posted, listening, loop>>
      PROVE  Rest'
  <2>1. numThread > 0 => dangling' = dangling
    <3>1. numThread > 0 => server # "gone"
      BY <1>5, NotGone DEF Rest, OnLoop
    <3>2. server # "gone" => dangling' = dangling
      BY <1>5, Zenon DEF HandleClose, TypeOK
    <3> QED BY <3>1, <3>2
  <2>2. \A b \in Conns : state'[b] # "none" => state[b] # "none"
    BY <1>5 DEF HandleClose, TypeOK
  <2> QED BY <1>5, <2>1, <2>2, RestKept
<1>6. ASSUME NEW l \in Loops, RunClose(l)  PROVE Rest'
  <2>1. /\ Pops(l, "close") /\ OnLoop(l) /\ clean
        /\ UNCHANGED <<numThread, server, sub, pool, restarted, posted, listening, loop>>
    BY <1>6 DEF RunClose, Pops, OnLoop
  <2>2. Head(queue[l]).conn \in Conns /\ loop[Head(queue[l]).conn] = l
    BY <2>1, Popped DEF Fits
  <2>3. CASE state[Head(queue[l]).conn] = "open"
    <3>1. HandleClose(l, Tail(queue[l]), Head(queue[l]).conn)
      BY <1>6, <2>3 DEF RunClose
    <3> QED BY <1>5, <2>1, <2>2, <2>3, <3>1
  <2>4. CASE state[Head(queue[l]).conn] # "open"
    BY <1>6, <2>1, <2>4, RestKept DEF RunClose
  <2> QED BY <2>3, <2>4
<1>7. ASSUME NEW l \in Loops, RunRemove(l)  PROVE Rest'
  <2>1. /\ Pops(l, "remove") /\ OnLoop(l) /\ clean
        /\ UNCHANGED <<numThread, server, sub, pool, restarted, posted, listening, loop, state>>
    BY <1>7 DEF RunRemove, Pops, OnLoop
  <2>2. /\ Head(queue[l]).conn \in Conns
        /\ loop[Head(queue[l]).conn] = l /\ state[Head(queue[l]).conn] # "none"
    BY <2>1, Popped DEF Fits
  <2>3. numThread > 0 => server # "gone"
    BY <2>1, <2>2, NotGone DEF Rest, OnLoop
  <2>4. server # "gone" => dangling' = dangling
    BY <1>7, Zenon DEF RunRemove, Enters, TypeOK
  <2> QED BY <2>1, <2>3, <2>4, RestKept
<1>8. ASSUME NEW l \in Loops, EndErase(l)  PROVE Rest'
  <2>1. clean /\ UNCHANGED <<numThread, server, sub, pool, restarted, posted, listening, loop,
                             dangling>>
    BY <1>8 DEF EndErase, Leaves
  <2>2. state[access[l].conn] # "none"
    BY <1>8, <2>1 DEF EndErase, AccessesFit
  <2>3. \A b \in Conns : state'[b] # "none" => state[b] # "none"
    BY <1>8, <2>2 DEF EndErase, TypeOK
  <2> QED BY <2>1, <2>3, RestKept
<1>9. ASSUME NEW c \in Conns, NewConnect(c)  PROVE Rest'
  <2>1. /\ listening /\ server = "alive" /\ OnLoop(Base) /\ SubLoops' = SubLoops
        /\ sub[NextLoop] = "running"
        /\ loop' = [loop EXCEPT ![c] = NextLoop]
        /\ state' = [state EXCEPT ![c] = "new"]
        /\ UNCHANGED <<numThread, server, sub, pool, restarted, posted, listening>>
    BY <1>9 DEF NewConnect, MayAccept, SubLoops
  <2>2. IF numThread = 0 THEN NextLoop = Base ELSE NextLoop \in SubLoops
    BY NextTyped DEF TypeOK, Loops
  <2>4. Subs'
    <3>1. \A b \in Conns : state'[b] # "none" =>
             IF numThread = 0 THEN loop'[b] = Base ELSE loop'[b] \in SubLoops
      BY <2>1, <2>2 DEF Rest, Subs, TypeOK
    <3> QED BY <2>1, <3>1 DEF Rest, Subs
  <2>5. LoopsAreUp'
    BY <2>1 DEF Rest, LoopsAreUp, TypeOK
  <2>6. dangling' = dangling
    BY <1>9, <2>1, Zenon DEF NewConnect, Enters, TypeOK
  <2> QED BY <2>1, <2>4, <2>5, <2>6 DEF Rest, MembersAlive
<1>16. ASSUME NEW c \in Conns, NewConnectExits(c)  PROVE Rest'
  <2>1. /\ listening /\ server = "alive" /\ server' = "exited" /\ SubLoops' = SubLoops
        /\ sub[NextLoop] = "unborn"
        /\ UNCHANGED <<numThread, sub, pool, restarted, posted, listening, loop, state, dangling>>
    BY <1>16 DEF NewConnectExits, MayAccept, SubLoops
  <2>2. IF numThread = 0 THEN NextLoop = Base ELSE NextLoop \in SubLoops
    BY NextTyped DEF TypeOK, Loops
  <2>3. restarted
    BY <2>1, <2>2 DEF Rest, Subs
  <2> QED BY <2>1, <2>3 DEF Rest, Subs, LoopsAreUp, MembersAlive
<1>10. ASSUME NEW c \in Conns, Keep(c) \/ Release(c) \/ Close(c)  PROVE Rest'
  BY <1>10, RestKept DEF Keep, Release, Close
<1>11. ASSUME NEW l \in Loops, NEW c \in Conns, CloseEvent(l, c)  PROVE Rest'
  BY <1>5, <1>11 DEF CloseEvent
<1>12. CASE Destroy
  <2>1. /\ posted = 0 /\ server' = "joining" /\ listening' = FALSE /\ SubLoops' = SubLoops
        /\ UNCHANGED <<numThread, sub, pool, restarted, posted, loop, state, dangling>>
    BY <1>12 DEF Destroy, SubLoops
  <2> QED BY <2>1 DEF Rest, Subs, LoopsAreUp, MembersAlive
<1>13. CASE DestroyMap
  <2>1. /\ server = "joining" /\ server' = "gone" /\ SubLoops' = SubLoops
        /\ \A l \in SubLoops : sub[l] # "running"
        /\ UNCHANGED <<numThread, sub, pool, restarted, posted, listening, loop, state, dangling>>
    BY <1>13 DEF DestroyMap, SubLoops
  <2> QED BY <2>1 DEF Rest, Subs, LoopsAreUp, MembersAlive
<1>14. ASSUME NEW l \in Loops, Join(l)  PROVE Rest'
  <2>1. /\ server = "joining" /\ l \in SubLoops /\ SubLoops' = SubLoops
        /\ sub' = [sub EXCEPT ![l] = "ended"]
        /\ UNCHANGED <<numThread, server, pool, restarted, posted, listening, loop, state,
                       dangling>>
    BY <1>14 DEF Join, SubLoops
  <2>2. sub'[Base] = "running" /\ posted = 0 /\ ~listening
    BY <1>a, <2>1 DEF Rest, Subs, TypeOK
  <2> QED BY <2>1, <2>2 DEF Rest, Subs, LoopsAreUp, MembersAlive
<1>15. CASE UNCHANGED vars
  BY <1>15, RestKept DEF vars
<1> QED
  BY <1>1, <1>2, <1>3, <1>4, <1>6, <1>7, <1>8, <1>9, <1>10, <1>11, <1>12, <1>13, <1>14,
     <1>15, <1>16 DEF Next, BaseStep, LoopStep, Destructor

-----------------------------------------------------------------------------
(***************************************************************************)
(* Descriptors, queued functors, accesses of rConnects_ and open           *)
(* connections fit together.                                               *)
(***************************************************************************)
LEMMA DescriptorsKept ==
    ASSUME TypeOK, Descriptors, fd' = fd,
           \A c \in Conns : state[c] # "none" <=> state'[c] # "none",
           \A c \in Conns : Alive(c)' => Alive(c),
           \A f \in Fds : rConnects'[f] # None => fd[rConnects'[f]] = f
    PROVE  Descriptors'
<1>1. /\ \A c \in Conns : state'[c] # "none" => fd'[c] # None
      /\ \A c, d \in Conns : Alive(c)' /\ Alive(d)' /\ fd'[c] = fd'[d] => c = d
      /\ \A c \in Conns : Alive(c)' => state'[c] # "none"
      /\ \A f \in Fds : rConnects'[f] # None => fd'[rConnects'[f]] = f
  BY DEF Descriptors
<1> QED BY <1>1 DEF Descriptors

\* What holds of a connection that is handled on, or queued in, a loop.
LEMMA DistinctFds ==
    ASSUME TypeOK, Descriptors
    PROVE  /\ \A c, d \in Conns : Alive(c) /\ Alive(d) /\ fd[c] = fd[d] => c = d
           /\ \A c \in Conns : Alive(c) => fd[c] \in Fds /\ state[c] # "none"
           /\ \A l \in Loops : access[l] # NoAccess =>
                  access[l].conn \in Conns /\ Alive(access[l].conn)
           /\ \A l \in Loops : \A q \in ItemsOf(queue[l]) :
                  q \in AllFunctors /\ q.conn \in Conns /\ Alive(q.conn)
<1>1. \A l \in Loops : access[l] # NoAccess => access[l].conn \in Conns
  BY DEF TypeOK
<1>2. \A l \in Loops : \A q \in ItemsOf(queue[l]) : q \in AllFunctors
  BY DEF TypeOK, ItemsOf
<1>3. \A q \in AllFunctors : q.conn \in Conns
  BY DEF AllFunctors
<1> QED BY <1>1, <1>2, <1>3, AliveItems DEF Descriptors, TypeOK

\* Alive(c) in the next state.
LEMMA AliveNext ==
    \A c : Alive(c)' <=> \/ \E f \in Fds : rConnects'[f] = c
                         \/ \E l \in Loops : access'[l].conn = c
                         \/ \E l \in Loops : \E q \in ItemsOf(queue'[l]) : q.conn = c
                         \/ c \in kept'
  BY DEF Alive, Queued, ItemsOf

LEMMA EndInsertSafe ==
    ASSUME TypeOK, Descriptors, QueuesFit, AccessesFit, OpenIsEntered,
           NEW c \in Conns, EndInsert(c)
    PROVE  Descriptors' /\ QueuesFit' /\ AccessesFit' /\ OpenIsEntered'
<1>a. Base \in Loops
  BY BoundsAssumption DEF Base, Loops
<1>1. /\ access[Base].name = "insert" /\ access[Base].conn = c
      /\ access' = [access EXCEPT ![Base] = NoAccess]
      /\ rConnects' = [rConnects EXCEPT ![fd[c]] = c]
      /\ UNCHANGED <<server, fd, loop, kept>>
  BY DEF EndInsert, Leaves, userVars
<1>2. /\ state[c] = "new" /\ server = "alive" /\ rConnects[fd[c]] = None
      /\ \A k \in Loops : \A q \in ItemsOf(queue[k]) : q.conn # c
      /\ Alive(c) /\ fd[c] \in Fds
  BY <1>a, <1>1, DistinctFds DEF AccessesFit, Alive
<1>3. rConnects'[fd[c]] = c /\ \A f \in Fds : f # fd[c] => rConnects'[f] = rConnects[f]
  BY <1>1, <1>2 DEF TypeOK
<1>4. /\ access'[Base] = NoAccess
      /\ \A l \in Loops : l # Base => access'[l] = access[l] /\ access[l].name # "insert"
  BY <1>a, <1>1 DEF AccessesFit, TypeOK
<1> DEFINE x == Functor("established", c)
<1>5. \/ /\ loop[c] = Base /\ state' = [state EXCEPT ![c] = "open"] /\ queue' = queue
      \/ /\ state' = state
         /\ queue' = [queue EXCEPT ![loop[c]] = Append(@, x)]
  BY DEF EndInsert
<1>6. /\ \A l \in Loops : l # loop[c] => queue'[l] = queue[l]
      /\ \A l \in Loops : queue'[l] = queue[l] \/ (l = loop[c] /\ queue'[l] = Append(queue[l], x))
  BY <1>5 DEF TypeOK
<1>7. \A l \in Loops : queue[l] \in Seq(AllFunctors)
  BY DEF TypeOK
<1>8. x \in AllFunctors /\ x.name = "established" /\ x.conn = c
  BY FunctorTyped DEF Functor
<1> HIDE DEF x
<1>9. \A l \in Loops : \A q \in ItemsOf(queue'[l]) :
          q \in ItemsOf(queue[l]) \/ (l = loop[c] /\ q = x /\ state' = state)
  <2> SUFFICES ASSUME NEW l \in Loops
               PROVE  \A q \in ItemsOf(queue'[l]) :
                          q \in ItemsOf(queue[l]) \/ (l = loop[c] /\ q = x /\ state' = state)
    OBVIOUS
  <2>1. CASE queue'[l] = queue[l]
    BY <2>1
  <2>2. CASE queue' # queue /\ l = loop[c] /\ queue'[l] = Append(queue[l], x)
    <3>1. state' = state
      BY <1>5, <2>2
    <3> QED BY <1>7, <1>8, <2>2, <3>1, AppendItems
  <2> QED BY <1>6, <2>1, <2>2
<1>10. \A l \in Loops : OnceIn(queue'[l])
  <2> SUFFICES ASSUME NEW l \in Loops
               PROVE  OnceIn(queue'[l])
    OBVIOUS
  <2>1. x \notin ItemsOf(queue[l]) /\ OnceIn(queue[l])
    BY <1>2, <1>8 DEF QueuesFit
  <2> QED BY <1>6, <1>7, <1>8, <2>1, AppendItems
<1>11. \A b \in Conns : Alive(b)' => Alive(b)
  <2> SUFFICES ASSUME NEW b \in Conns, Alive(b)', b # c
               PROVE  Alive(b)
    BY <1>2
  <2>1. \A f \in Fds : rConnects'[f] = b => rConnects[f] = b
    BY <1>3
  <2>2. \A l \in Loops : access'[l].conn = b => access[l].conn = b
    BY <1>4 DEF NoAccess, None, Conns
  <2>3. \A l \in Loops : \A q \in ItemsOf(queue'[l]) : q.conn = b => q \in ItemsOf(queue[l])
    BY <1>8, <1>9
  <2> QED BY <1>1, <2>1, <2>2, <2>3, AliveItems, AliveNext
<1>12. \A b \in Conns : b # c => state'[b] = state[b]
  BY <1>5 DEF TypeOK
<1>13. state'[c] \in {"new", "open"} /\ (state' = state => state'[c] = "new")
       /\ (state'[c] = "open" => state' # state)
  BY <1>2, <1>5 DEF TypeOK
<1>14. Descriptors'
  <2>1. \A f \in Fds : rConnects'[f] # None => fd[rConnects'[f]] = f
    BY <1>3 DEF Descriptors
  <2>2. \A b \in Conns : state[b] # "none" <=> state'[b] # "none"
    BY <1>2, <1>12, <1>13
  <2> QED BY <1>1, <1>11, <2>1, <2>2, DescriptorsKept
<1>15. QueuesFit'
  <2> SUFFICES ASSUME NEW l \in Loops, NEW q \in ItemsOf(queue'[l])
               PROVE  Fits(q, l)'
    BY <1>10 DEF QueuesFit
  <2>1. CASE q \in ItemsOf(queue[l])
    <3>1. Fits(q, l) /\ q.conn # c /\ q.conn \in Conns
      BY <1>2, <2>1, DistinctFds DEF QueuesFit
    <3>2. rConnects[fd[q.conn]] = q.conn => rConnects'[fd[q.conn]] = q.conn
      <4>1. q.conn # None /\ fd[q.conn] \in Fds
        BY <2>1, <3>1, DistinctFds DEF None, Conns
      <4> QED BY <1>2, <1>3, <4>1
    <3> QED BY <1>1, <1>12, <3>1, <3>2 DEF Fits
  <2>2. CASE l = loop[c] /\ q = x /\ state' = state
    BY <1>1, <1>3, <1>8, <1>13, <2>2 DEF Fits
  <2> QED BY <1>9, <2>1, <2>2
<1>16. AccessesFit'
  <2> SUFFICES ASSUME NEW l \in Loops
               PROVE  /\ access'[l].name # "insert"
                      /\ access'[l].name = "erase" => state'[access'[l].conn] \in {"closed", "removed"}
    BY DEF AccessesFit
  <2>1. CASE l = Base
    BY <1>4, <2>1 DEF NoAccess
  <2>2. CASE l # Base
    <3>1. access[l].name = "erase" =>
              access[l].conn # c /\ access[l].conn \in Conns /\ state[access[l].conn] \in {"closed", "removed"}
      BY <1>2, DistinctFds DEF AccessesFit, NoAccess
    <3> QED BY <1>4, <1>12, <2>2, <3>1
  <2> QED BY <2>1, <2>2
<1>17. OpenIsEntered'
  <2> SUFFICES ASSUME NEW b \in Conns, state'[b] = "open"
               PROVE  rConnects'[fd[b]] = b
    BY <1>1 DEF OpenIsEntered
  <2>1. CASE b = c
    BY <1>3, <2>1
  <2>2. CASE b # c
    <3>0. state[b] = "open" /\ b # None
      BY <1>12, <2>2 DEF None, Conns
    <3>1. rConnects[fd[b]] = b /\ b # None /\ fd[b] \in Fds
      BY <1>2, <3>0 DEF OpenIsEntered, Descriptors, TypeOK
    <3> QED BY <1>2, <1>3, <3>1
  <2> QED BY <2>1, <2>2
<1> QED BY <1>14, <1>15, <1>16, <1>17

LEMMA NewConnectSafe ==
    ASSUME TypeOK, Descriptors, QueuesFit, AccessesFit, OpenIsEntered,
           NEW c \in Conns, NewConnect(c)
    PROVE  Descriptors' /\ QueuesFit' /\ AccessesFit' /\ OpenIsEntered'
<1>a. Base \in Loops
  BY BoundsAssumption DEF Base, Loops
<1>0. PICK f \in Fds : Free(f) /\ fd' = [fd EXCEPT ![c] = f]
  BY DEF NewConnect
<1>1. /\ state[c] = "none" /\ server = "alive" /\ access[Base] = NoAccess
      /\ loop' = [loop EXCEPT ![c] = NextLoop]
      /\ state' = [state EXCEPT ![c] = "new"]
      /\ access' = [access EXCEPT ![Base] = [name |-> "insert", conn |-> c]]
      /\ UNCHANGED <<server, queue, kept, rConnects>>
  BY DEF NewConnect, MayAccept, OnLoop, Enters, userVars
<1>2. ~Alive(c)
  BY <1>1 DEF Descriptors
<1>3. /\ fd'[c] = f /\ state'[c] = "new"
      /\ \A b \in Conns : b # c => fd'[b] = fd[b] /\ loop'[b] = loop[b] /\ state'[b] = state[b]
  BY <1>0, <1>1 DEF TypeOK
<1>4. /\ access'[Base] = [name |-> "insert", conn |-> c]
      /\ \A l \in Loops : l # Base => access'[l] = access[l]
  BY <1>a, <1>1 DEF TypeOK
<1>5. \A b \in Conns : Alive(b)' => Alive(b) \/ b = c
  <2> SUFFICES ASSUME NEW b \in Conns, Alive(b)', b # c
               PROVE  Alive(b)
    OBVIOUS
  <2>1. \A l \in Loops : access'[l].conn = b => access[l].conn = b
    BY <1>4
  <2> QED BY <1>1, <2>1, AliveItems, AliveNext
<1>6. \A b \in Conns : Alive(b) => b # c /\ fd[b] # f
  BY <1>0, <1>2 DEF Free
<1>7. \A g \in Fds : rConnects[g] # None =>
          /\ rConnects[g] \in Conns /\ Alive(rConnects[g]) /\ fd[rConnects[g]] = g
  BY DEF TypeOK, Alive, Descriptors
<1>8. rConnects[f] = None
  BY <1>6, <1>7
<1>9. Descriptors'
  <2>1. \A b \in Conns : state'[b] # "none" => fd'[b] # None
    BY <1>3 DEF Descriptors, None, Fds
  <2>2. \A b, d \in Conns : Alive(b)' /\ Alive(d)' /\ fd'[b] = fd'[d] => b = d
    BY <1>3, <1>5, <1>6 DEF Descriptors
  <2>3. \A b \in Conns : Alive(b)' => state'[b] # "none"
    BY <1>3, <1>5 DEF Descriptors
  <2>4. \A g \in Fds : rConnects'[g] # None => fd'[rConnects'[g]] = g
    BY <1>1, <1>3, <1>6, <1>7
  <2> QED BY <2>1, <2>2, <2>3, <2>4 DEF Descriptors
<1>10. \A l \in Loops : \A q \in ItemsOf(queue[l]) : q.conn \in Conns /\ q.conn # c
  BY <1>6, DistinctFds
<1>11. QueuesFit'
  <2> SUFFICES ASSUME NEW l \in Loops, NEW q \in ItemsOf(queue[l])
               PROVE  Fits(q, l)'
    BY <1>1 DEF QueuesFit
  <2>1. Fits(q, l) /\ q.conn \in Conns /\ q.conn # c
    BY <1>10 DEF QueuesFit
  <2> QED BY <1>1, <1>3, <2>1 DEF Fits
<1>12. AccessesFit'
  <2> SUFFICES ASSUME NEW l \in Loops
               PROVE  /\ access'[l].name = "insert" =>
                             /\ l = Base /\ server = "alive"
                             /\ state'[access'[l].conn] = "new"
                             /\ rConnects[fd'[access'[l].conn]] = None
                             /\ \A k \in Loops : \A q \in ItemsOf(queue[k]) : q.conn # access'[l].conn
                      /\ access'[l].name = "erase" => state'[access'[l].conn] \in {"closed", "removed"}
    BY <1>1 DEF AccessesFit
  <2>1. CASE l = Base
    BY <1>1, <1>3, <1>4, <1>8, <1>10, <2>1
  <2>2. CASE l # Base
    <3>1. access[l].name = "erase" =>
              access[l].conn # c /\ access[l].conn \in Conns /\ state[access[l].conn] \in {"closed", "removed"}
      BY <1>6, DistinctFds DEF AccessesFit, NoAccess
    <3>2. access[l].name # "insert"
      BY <2>2 DEF AccessesFit
    <3> QED BY <1>3, <1>4, <2>2, <3>1, <3>2
  <2> QED BY <2>1, <2>2
<1>13. OpenIsEntered'
  BY <1>1, <1>3 DEF OpenIsEntered
<1> QED BY <1>9, <1>11, <1>12, <1>13

\* Nothing but queues and pointers change, and what is queued anew fits.
LEMMA SafeKept ==
    ASSUME TypeOK, Descriptors, QueuesFit, AccessesFit, OpenIsEntered,
           UNCHANGED <<server, fd, loop, state, rConnects, access>>,
           \A c \in Conns : Alive(c)' => Alive(c),
           \A l \in Loops : OnceIn(queue'[l]),
           \A l \in Loops : \A q \in ItemsOf(queue'[l]) :
               \/ q \in ItemsOf(queue[l])
               \/ Fits(q, l) /\ \A k \in Loops : access[k].name = "insert" => q.conn # access[k].conn
    PROVE  Descriptors' /\ QueuesFit' /\ AccessesFit' /\ OpenIsEntered'
<1>1. Descriptors'
  BY DescriptorsKept DEF Descriptors
<1>2. QueuesFit'
  <2>1. \A l \in Loops : \A q \in ItemsOf(queue'[l]) : Fits(q, l)
    BY DEF QueuesFit
  <2> QED BY <2>1 DEF QueuesFit, Fits
<1>3. AccessesFit'
  BY DEF AccessesFit
<1>4. OpenIsEntered'
  BY DEF OpenIsEntered
<1> QED BY <1>1, <1>2, <1>3, <1>4

LEMMA SameFunctor ==
    \A q, r \in AllFunctors : q.name = r.name /\ q.conn = r.conn => q = r
  BY DEF AllFunctors

\* What is left in the queues when a functor was popped.
LEMMA PopsItems ==
    ASSUME TypeOK, QueuesFit, NEW l \in Loops, NEW name, Pops(l, name)
    PROVE  /\ OnceIn(Tail(queue[l])) /\ Tail(queue[l]) \in Seq(AllFunctors)
           /\ \A q \in ItemsOf(Tail(queue[l])) :
                  q \in ItemsOf(queue[l]) /\ (name = "established" => q # Head(queue[l]))
           /\ queue' = [queue EXCEPT ![l] = Tail(@)] =>
                  /\ \A k \in Loops : OnceIn(queue'[k])
                  /\ \A k \in Loops : \A q \in ItemsOf(queue'[k]) :
                         q \in ItemsOf(queue[k]) /\ (name = "established" /\ k = l => q # Head(queue[l]))
<1>1. /\ OnceIn(Tail(queue[l])) /\ Tail(queue[l]) \in Seq(AllFunctors)
      /\ \A q \in ItemsOf(Tail(queue[l])) :
             q \in ItemsOf(queue[l]) /\ (name = "established" => q # Head(queue[l]))
  BY Popped, TailItems DEF QueuesFit
<1>2. queue' = [queue EXCEPT ![l] = Tail(@)] =>
          queue'[l] = Tail(queue[l]) /\ \A k \in Loops : k # l => queue'[k] = queue[k]
  BY DEF TypeOK
<1> QED BY <1>1, <1>2 DEF QueuesFit

LEMMA RunEstablishedSafe ==
    ASSUME TypeOK, Descriptors, QueuesFit, AccessesFit, OpenIsEntered,
           NEW l \in Loops, RunEstablished(l)
    PROVE  Descriptors' /\ QueuesFit' /\ AccessesFit' /\ OpenIsEntered'
<1> DEFINE h == Head(queue[l])
           c == h.conn
<1>1. /\ Pops(l, "established")
      /\ queue' = [queue EXCEPT ![l] = Tail(@)]
      /\ state' = [state EXCEPT ![c] = "open"]
      /\ UNCHANGED <<server, fd, loop, kept, rConnects, access>>
  BY DEF RunEstablished, Pops, mapVars, userVars
<1>2. /\ h \in ItemsOf(queue[l]) /\ h \in AllFunctors /\ c \in Conns /\ h.name = "established"
      /\ loop[c] = l /\ state[c] = "new" /\ (server # "gone" => rConnects[fd[c]] = c)
  BY <1>1, Popped DEF Fits
<1>3. /\ \A k \in Loops : OnceIn(queue'[k])
      /\ \A k \in Loops : \A q \in ItemsOf(queue'[k]) : q \in ItemsOf(queue[k]) /\ (k = l => q # h)
  BY <1>1, PopsItems
<1> HIDE DEF h
<1>4. state'[c] = "open" /\ \A b \in Conns : b # c => state'[b] = state[b]
  BY <1>1, <1>2 DEF TypeOK
<1>5. Descriptors'
  <2>1. \A b \in Conns : Alive(b)' => Alive(b)
    BY <1>1, <1>3, AliveItems, AliveNext
  <2>2. \A b \in Conns : state[b] # "none" <=> state'[b] # "none"
    BY <1>2, <1>4
  <2>3. \A f \in Fds : rConnects'[f] # None => fd[rConnects'[f]] = f
    BY <1>1 DEF Descriptors
  <2> QED BY <1>1, <2>1, <2>2, <2>3, DescriptorsKept
<1>6. QueuesFit'
  <2> SUFFICES ASSUME NEW k \in Loops, NEW q \in ItemsOf(queue'[k])
               PROVE  Fits(q, k)'
    BY <1>3 DEF QueuesFit
  <2>1. q \in ItemsOf(queue[k]) /\ (k = l => q # h) /\ Fits(q, k)
    BY <1>3 DEF QueuesFit
  <2>2. q \in AllFunctors /\ q.conn \in Conns
    BY <2>1, DistinctFds
  <2>3. CASE q.conn # c
    BY <1>1, <1>4, <2>1, <2>2, <2>3 DEF Fits
  <2>4. CASE q.conn = c
    <3>1. k = l
      BY <1>2, <2>1, <2>4 DEF Fits
    <3>2. q.name # "established"
      BY <1>2, <2>1, <2>2, <2>4, <3>1, SameFunctor
    <3>3. q.name # "remove"
      BY <1>2, <2>1, <2>4 DEF Fits
    <3> QED BY <1>1, <2>1, <3>2, <3>3 DEF Fits
  <2> QED BY <2>3, <2>4
<1>7. AccessesFit'
  <2>1. \A k \in Loops : access[k].name \in {"insert", "erase"} =>
            access[k].conn # c /\ access[k].conn \in Conns
    <3>1. \A k \in Loops : access[k].name \in {"insert", "erase"} => access[k].conn \in Conns
      BY DistinctFds DEF NoAccess
    <3> QED BY <1>2, <3>1 DEF AccessesFit
  <2> QED BY <1>1, <1>3, <1>4, <2>1 DEF AccessesFit
<1>8. OpenIsEntered'
  BY <1>1, <1>2, <1>4 DEF OpenIsEntered
<1> QED BY <1>5, <1>6, <1>7, <1>8

\* s is the queue of l that the handler finds, or what is left of it.
LEMMA HandleCloseSafe ==
    ASSUME TypeOK, Descriptors, QueuesFit, AccessesFit, OpenIsEntered,
           NEW l \in Loops, NEW c \in Conns, NEW s \in Seq(AllFunctors),
           OnceIn(s), ItemsOf(s) \subseteq ItemsOf(queue[l]),
           HandleClose(l, s, c), loop[c] = l, state[c] = "open", Alive(c),
           UNCHANGED <<server, fd, loop, kept>>
    PROVE  Descriptors' /\ QueuesFit' /\ AccessesFit' /\ OpenIsEntered'
<1> DEFINE x == Functor("remove", c)
<1>1. /\ queue' = [queue EXCEPT ![l] = Append(s, x)]
      /\ state' = [state EXCEPT ![c] = "closed"]
      /\ UNCHANGED <<server, fd, loop, kept, rConnects, access>>
  BY DEF HandleClose
<1>2. x \in AllFunctors /\ x.name = "remove" /\ x.conn = c
  BY FunctorTyped DEF Functor
<1> HIDE DEF x
<1>3. queue'[l] = Append(s, x) /\ \A k \in Loops : k # l => queue'[k] = queue[k]
  BY <1>1 DEF TypeOK
<1>4. ItemsOf(Append(s, x)) = ItemsOf(s) \union {x} /\ OnceIn(Append(s, x))
  BY <1>2, AppendItems
<1>5. /\ \A k \in Loops : OnceIn(queue'[k])
      /\ \A k \in Loops : \A q \in ItemsOf(queue'[k]) : q \in ItemsOf(queue[k]) \/ (k = l /\ q = x)
  BY <1>3, <1>4 DEF QueuesFit
<1>6. state'[c] = "closed" /\ \A b \in Conns : b # c => state'[b] = state[b]
  BY <1>1 DEF TypeOK
<1>7. Descriptors'
  <2>1. \A b \in Conns : Alive(b)' => Alive(b)
    BY <1>1, <1>2, <1>5, AliveItems, AliveNext
  <2>2. \A b \in Conns : state[b] # "none" <=> state'[b] # "none"
    BY <1>6
  <2>3. \A f \in Fds : rConnects'[f] # None => fd[rConnects'[f]] = f
    BY <1>1 DEF Descriptors
  <2> QED BY <1>1, <2>1, <2>2, <2>3, DescriptorsKept
<1>8. QueuesFit'
  <2> SUFFICES ASSUME NEW k \in Loops, NEW q \in ItemsOf(queue'[k])
               PROVE  Fits(q, k)'
    BY <1>5 DEF QueuesFit
  <2>1. CASE q \in ItemsOf(queue[k])
    <3>1. Fits(q, k) /\ q.conn \in Conns
      BY <2>1, DistinctFds DEF QueuesFit
    <3> QED BY <1>1, <1>6, <3>1 DEF Fits
  <2>2. CASE k = l /\ q = x
    BY <1>1, <1>2, <1>6, <2>2 DEF Fits
  <2> QED BY <1>5, <2>1, <2>2
<1>9. AccessesFit'
  <2>1. \A k \in Loops : access[k].name \in {"insert", "erase"} =>
            access[k].conn # c /\ access[k].conn \in Conns
    <3>1. \A k \in Loops : access[k].name \in {"insert", "erase"} => access[k].conn \in Conns
      BY DistinctFds DEF NoAccess
    <3> QED BY <3>1 DEF AccessesFit
  <2>2. \A k \in Loops : access[k].name = "insert" =>
            \A j \in Loops : \A q \in ItemsOf(queue'[j]) : q.conn # access[k].conn
    BY <1>2, <1>5, <2>1 DEF AccessesFit
  <2> QED BY <1>1, <1>6, <2>1, <2>2 DEF AccessesFit
<1>10. OpenIsEntered'
  BY <1>1, <1>6 DEF OpenIsEntered
<1> QED BY <1>7, <1>8, <1>9, <1>10

LEMMA RunRemoveSafe ==
    ASSUME TypeOK, Descriptors, QueuesFit, AccessesFit, OpenIsEntered,
           NEW l \in Loops, RunRemove(l)
    PROVE  Descriptors' /\ QueuesFit' /\ AccessesFit' /\ OpenIsEntered'
<1> DEFINE h == Head(queue[l])
           c == h.conn
<1>1. /\ Pops(l, "remove")
      /\ queue' = [queue EXCEPT ![l] = Tail(@)]
      /\ access' = [access EXCEPT ![l] = [name |-> "erase", conn |-> c]]
      /\ access[l] = NoAccess
      /\ UNCHANGED <<server, fd, loop, kept, rConnects, state>>
  BY DEF RunRemove, Pops, OnLoop, Enters, userVars
<1>2. /\ h \in ItemsOf(queue[l]) /\ c \in Conns /\ state[c] \in {"closed", "removed"}
  BY <1>1, Popped DEF Fits
<1>3. /\ \A k \in Loops : OnceIn(queue'[k])
      /\ \A k \in Loops : \A q \in ItemsOf(queue'[k]) : q \in ItemsOf(queue[k])
  BY <1>1, PopsItems
<1> HIDE DEF h
<1>4. /\ access'[l] = [name |-> "erase", conn |-> c]
      /\ \A k \in Loops : k # l => access'[k] = access[k]
  BY <1>1 DEF TypeOK
<1>5. Descriptors'
  <2>1. \A b \in Conns : Alive(b)' => Alive(b)
    BY <1>1, <1>2, <1>3, <1>4, AliveItems, AliveNext
  <2>2. \A f \in Fds : rConnects'[f] # None => fd[rConnects'[f]] = f
    BY <1>1 DEF Descriptors
  <2> QED BY <1>1, <2>1, <2>2, DescriptorsKept
<1>6. QueuesFit'
  BY <1>1, <1>3 DEF QueuesFit, Fits
<1>7. AccessesFit'
  <2> SUFFICES ASSUME NEW k \in Loops
               PROVE  /\ access'[k].name = "insert" =>
                             /\ k = Base /\ server = "alive"
                             /\ state[access'[k].conn] = "new"
                             /\ rConnects[fd[access'[k].conn]] = None
                             /\ \A j \in Loops : \A q \in ItemsOf(queue'[j]) : q.conn # access'[k].conn
                      /\ access'[k].name = "erase" => state[access'[k].conn] \in {"closed", "removed"}
    BY <1>1 DEF AccessesFit
  <2>1. CASE k = l
    BY <1>2, <1>4, <2>1
  <2>2. CASE k # l
    BY <1>3, <1>4, <2>2 DEF AccessesFit
  <2> QED BY <2>1, <2>2
<1>8. OpenIsEntered'
  BY <1>1 DEF OpenIsEntered
<1> QED BY <1>5, <1>6, <1>7, <1>8

LEMMA EndEraseSafe ==
    ASSUME TypeOK, Descriptors, QueuesFit, AccessesFit, OpenIsEntered,
           NEW l \in Loops, EndErase(l)
    PROVE  Descriptors' /\ QueuesFit' /\ AccessesFit' /\ OpenIsEntered'
<1> DEFINE c == access[l].conn
<1>1. /\ access[l].name = "erase"
      /\ access' = [access EXCEPT ![l] = NoAccess]
      /\ rConnects' = [rConnects EXCEPT ![fd[c]] = None]
      /\ state' = [state EXCEPT ![c] = "removed"]
      /\ UNCHANGED <<server, fd, loop, kept, queue>>
  BY DEF EndErase, Leaves, userVars
<1>2. /\ c \in Conns /\ Alive(c) /\ fd[c] \in Fds
      /\ state[c] \in {"closed", "removed"}
  <2>1. access[l] # NoAccess
    BY <1>1 DEF NoAccess
  <2>2. c \in Conns /\ Alive(c)
    BY <2>1, DistinctFds
  <2> QED BY <1>1, <2>2, DistinctFds DEF AccessesFit
<1> HIDE DEF c
<1>3. rConnects'[fd[c]] = None /\ \A f \in Fds : f # fd[c] => rConnects'[f] = rConnects[f]
  BY <1>1, <1>2 DEF TypeOK
<1>4. /\ access'[l] = NoAccess
      /\ \A k \in Loops : k # l => access'[k] = access[k]
  BY <1>1 DEF TypeOK
<1>5. state'[c] = "removed" /\ \A b \in Conns : b # c => state'[b] = state[b]
  BY <1>1, <1>2 DEF TypeOK
<1>6. \A b \in Conns : b # None
  BY DEF Conns, None
<1>7. \A b \in Conns : b # c /\ fd[b] \in Fds /\ rConnects[fd[b]] = b => rConnects'[fd[b]] = b
  <2> SUFFICES ASSUME NEW b \in Conns, b # c, fd[b] \in Fds, rConnects[fd[b]] = b
               PROVE  rConnects'[fd[b]] = b
    OBVIOUS
  <2>1. Alive(b)
    BY DEF Alive
  <2>2. fd[b] # fd[c]
    BY <1>2, <2>1, DistinctFds
  <2> QED BY <1>3, <2>2
<1>8. Descriptors'
  <2>1. \A b \in Conns : Alive(b)' => Alive(b)
    <3>1. \A b \in Conns : \A k \in Loops : access'[k].conn = b => access[k].conn = b
      BY <1>4, <1>6 DEF NoAccess
    <3>2. \A b \in Conns : \A f \in Fds : rConnects'[f] = b => rConnects[f] = b
      BY <1>3, <1>6
    <3> QED BY <1>1, <3>1, <3>2, AliveItems, AliveNext
  <2>2. \A b \in Conns : state[b] # "none" <=> state'[b] # "none"
    BY <1>2, <1>5
  <2>3. \A f \in Fds : rConnects'[f] # None => fd[rConnects'[f]] = f
    BY <1>3 DEF Descriptors
  <2> QED BY <1>1, <2>1, <2>2, <2>3, DescriptorsKept
<1>9. QueuesFit'
  <2> SUFFICES ASSUME NEW k \in Loops, NEW q \in ItemsOf(queue[k])
               PROVE  Fits(q, k)'
    BY <1>1 DEF QueuesFit
  <2>1. Fits(q, k) /\ q.conn \in Conns /\ fd[q.conn] \in Fds
    BY DistinctFds DEF QueuesFit
  <2>2. q.name = "established" => q.conn # c
    BY <1>2, <2>1 DEF Fits
  <2> QED BY <1>1, <1>5, <1>7, <2>1, <2>2 DEF Fits
<1>10. AccessesFit'
  <2> SUFFICES ASSUME NEW k \in Loops, k # l
               PROVE  /\ access[k].name = "insert" =>
                             /\ k = Base /\ server = "alive"
                             /\ state'[access[k].conn] = "new"
                             /\ rConnects'[fd[access[k].conn]] = None
                             /\ \A j \in Loops : \A q \in ItemsOf(queue[j]) : q.conn # access[k].conn
                      /\ access[k].name = "erase" => state'[access[k].conn] \in {"closed", "removed"}
    BY <1>1, <1>4 DEF AccessesFit, NoAccess
  <2>1. access[k].name \in {"insert", "erase"} => access[k].conn \in Conns /\ fd[access[k].conn] \in Fds
    BY DistinctFds DEF NoAccess
  <2>2. access[k].name = "insert" => access[k].conn # c
    BY <1>2 DEF AccessesFit
  <2> QED BY <1>3, <1>5, <2>1, <2>2 DEF AccessesFit
<1>11. OpenIsEntered'
  <2> SUFFICES ASSUME server # "gone", NEW b \in Conns, state'[b] = "open"
               PROVE  rConnects'[fd[b]] = b
    BY <1>1 DEF OpenIsEntered
  <2>1. b # c /\ state[b] = "open"
    BY <1>5
  <2>2. rConnects[fd[b]] = b /\ fd[b] \in Fds
    BY <2>1 DEF OpenIsEntered, Descriptors, TypeOK
  <2> QED BY <1>7, <2>1, <2>2
<1> QED BY <1>8, <1>9, <1>10, <1>11

-----------------------------------------------------------------------------
(* All steps together.                                                     *)

\* An execution is not followed further once it is not clean.
LEMMA CleanBefore == [Next]_vars /\ clean' => clean
<1> USE DEF startVars, connVars, userVars, mapVars
<1> QED
  BY DEF Next, StartStep, StartChecks, StartStores, StartSub, StartPosts, StartAgain,
         StartTwice, BaseStep, RunStart, EndInsert, LoopStep, RunEstablished, RunClose,
         RunRemove, EndErase, NewConnect, NewConnectExits, MayAccept, Keep, Release, Close,
         CloseEvent, Destroy, Destructor, DestroyMap, Join, Pops, OnLoop, Leaves, vars

\* Nothing makes a server alive again.
LEMMA AliveBefore ==
    [Next]_vars /\ server' = "alive" =>
        /\ server = "alive" /\ ~Destroy /\ ~DestroyMap /\ \A l \in Loops : ~Join(l)
        /\ \A c \in Conns : ~NewConnectExits(c)
<1> USE DEF startVars, connVars, userVars, mapVars
<1> QED
  BY DEF Next, StartStep, StartChecks, StartStores, StartSub, StartPosts, StartAgain,
         StartTwice, BaseStep, RunStart, EndInsert, LoopStep, RunEstablished, RunClose,
         RunRemove, EndErase, NewConnect, NewConnectExits, MayAccept, Keep, Release, Close,
         CloseEvent, Destroy, Destructor, DestroyMap, Join, Pops, vars

LEMMA StepSafe ==
    ASSUME TypeOK, clean => Safe, [Next]_vars, clean'
    PROVE  Safe'
<1> USE DEF startVars, connVars, userVars, mapVars
<1> SUFFICES ASSUME Descriptors, QueuesFit, AccessesFit, OpenIsEntered
             PROVE  Descriptors' /\ QueuesFit' /\ AccessesFit' /\ OpenIsEntered'
  <2>1. clean
    BY CleanBefore
  <2>2. Safe' <=> (Descriptors /\ QueuesFit /\ AccessesFit /\ OpenIsEntered)'
    BY SafeParts, PTL
  <2> QED BY <2>1, <2>2, SafeParts
<1>a. Base \in Loops
  BY BoundsAssumption DEF Base, Loops
<1>b. \A l \in Loops : OnceIn(queue[l])
  BY DEF QueuesFit
<1>1. ASSUME UNCHANGED <<server, fd, loop, state, rConnects, access, queue>>,
             \A c \in Conns : c \in kept' => c \in kept \/ Alive(c)
      PROVE  Descriptors' /\ QueuesFit' /\ AccessesFit' /\ OpenIsEntered'
  <2>1. \A c \in Conns : Alive(c)' => Alive(c)
    BY <1>1, AliveItems, AliveNext
  <2> QED BY <1>b, <1>1, <2>1, SafeKept
<1>2. CASE StartStep \/ RunStart
  BY <1>1, <1>2 DEF StartStep, StartChecks, StartStores, StartSub, StartPosts, StartAgain,
                    StartTwice, RunStart
<1>11. ASSUME NEW c \in Conns, NewConnectExits(c)
       PROVE  Descriptors' /\ QueuesFit' /\ AccessesFit' /\ OpenIsEntered'
  <2>1. /\ access[Base] = NoAccess /\ server = "alive" /\ server' = "exited"
        /\ UNCHANGED <<fd, loop, state, rConnects, access, queue, kept>>
    BY <1>11 DEF NewConnectExits, MayAccept, OnLoop
  <2>2. Descriptors'
    <3>1. \A b \in Conns : Alive(b)' => Alive(b)
      BY <2>1, AliveItems, AliveNext
    <3> QED BY <2>1, <3>1, DescriptorsKept DEF Descriptors
  <2>3. \A l \in Loops : access[l].name # "insert"
    BY <1>a, <2>1 DEF AccessesFit, NoAccess
  <2> QED BY <2>1, <2>2, <2>3 DEF QueuesFit, Fits, AccessesFit, OpenIsEntered
<1>3. ASSUME NEW l \in Loops, RunClose(l)
      PROVE  Descriptors' /\ QueuesFit' /\ AccessesFit' /\ OpenIsEntered'
  <2> DEFINE c == Head(queue[l]).conn
  <2>1. Pops(l, "close") /\ UNCHANGED <<server, fd, loop, kept>>
    BY <1>3 DEF RunClose, Pops
  <2>2. c \in Conns /\ loop[c] = l /\ Alive(c)
    BY <2>1, Popped, DistinctFds DEF Fits
  <2>3. CASE state[c] = "open"
    <3>1. HandleClose(l, Tail(queue[l]), c)
      BY <1>3, <2>3 DEF RunClose
    <3>2. /\ OnceIn(Tail(queue[l])) /\ Tail(queue[l]) \in Seq(AllFunctors)
          /\ ItemsOf(Tail(queue[l])) \subseteq ItemsOf(queue[l])
      BY <2>1, PopsItems
    <3> HIDE DEF c
    <3> QED BY <2>1, <2>2, <2>3, <3>1, <3>2, HandleCloseSafe
  <2>4. CASE state[c] # "open"
    <3>1. /\ queue' = [queue EXCEPT ![l] = Tail(@)]
          /\ UNCHANGED <<state, rConnects, access>>
      BY <1>3, <2>4 DEF RunClose
    <3>2. /\ \A k \in Loops : OnceIn(queue'[k])
          /\ \A k \in Loops : \A q \in ItemsOf(queue'[k]) : q \in ItemsOf(queue[k])
      BY <2>1, <3>1, PopsItems
    <3>3. \A b \in Conns : Alive(b)' => Alive(b)
      BY <2>1, <3>1, <3>2, AliveItems, AliveNext
    <3> QED BY <2>1, <3>1, <3>2, <3>3, SafeKept
  <2> QED BY <2>3, <2>4
<1>4. ASSUME NEW l \in Loops, NEW c \in Conns, CloseEvent(l, c)
      PROVE  Descriptors' /\ QueuesFit' /\ AccessesFit' /\ OpenIsEntered'
  <2>1. /\ HandleClose(l, queue[l], c) /\ loop[c] = l /\ state[c] = "open" /\ Alive(c)
        /\ UNCHANGED <<server, fd, loop, kept>>
    BY <1>4 DEF CloseEvent
  <2>2. queue[l] \in Seq(AllFunctors)
    BY DEF TypeOK
  <2> QED BY <1>b, <2>1, <2>2, HandleCloseSafe
<1>5. ASSUME NEW c \in Conns, Keep(c) \/ Release(c)
      PROVE  Descriptors' /\ QueuesFit' /\ AccessesFit' /\ OpenIsEntered'
  BY <1>1, <1>5 DEF Keep, Release
<1>6. ASSUME NEW c \in Conns, Close(c)
      PROVE  Descriptors' /\ QueuesFit' /\ AccessesFit' /\ OpenIsEntered'
  <2> DEFINE x == Functor("close", c)
  <2>1. /\ c \in kept /\ state[c] # "new"
        /\ queue' = [queue EXCEPT ![loop[c]] = Append(@, x)]
        /\ UNCHANGED <<server, fd, loop, state, rConnects, access, kept>>
    BY <1>6 DEF Close
  <2>2. x \in AllFunctors /\ x.name = "close" /\ x.conn = c
    BY FunctorTyped DEF Functor
  <2> HIDE DEF x
  <2>3. loop[c] \in Loops /\ queue[loop[c]] \in Seq(AllFunctors)
    BY DEF TypeOK
  <2>4. /\ queue'[loop[c]] = Append(queue[loop[c]], x)
        /\ \A k \in Loops : k # loop[c] => queue'[k] = queue[k]
    BY <2>1, <2>3 DEF TypeOK
  <2>5. /\ \A k \in Loops : OnceIn(queue'[k])
        /\ \A k \in Loops : \A q \in ItemsOf(queue'[k]) : q \in ItemsOf(queue[k]) \/ (k = loop[c] /\ q = x)
    <3>1. /\ OnceIn(queue'[loop[c]])
          /\ ItemsOf(queue'[loop[c]]) = ItemsOf(queue[loop[c]]) \union {x}
      BY <1>b, <2>2, <2>3, <2>4, AppendItems
    <3> QED BY <1>b, <2>4, <3>1
  <2>6. \A b \in Conns : Alive(b)' => Alive(b)
    BY <2>1, <2>2, <2>5, AliveItems, AliveNext
  <2>7. Fits(x, loop[c]) /\ \A k \in Loops : access[k].name = "insert" => x.conn # access[k].conn
    BY <2>1, <2>2 DEF Fits, AccessesFit
  <2> QED BY <2>1, <2>5, <2>6, <2>7, SafeKept
<1>7. CASE Destroy
  <2>1. /\ access[Base] = NoAccess /\ server = "alive" /\ server' = "joining"
        /\ UNCHANGED <<fd, loop, state, rConnects, access, queue, kept>>
    BY <1>7 DEF Destroy, OnLoop
  <2>2. Descriptors'
    <3>1. \A c \in Conns : Alive(c)' => Alive(c)
      BY <2>1, AliveItems, AliveNext
    <3> QED BY <2>1, <3>1, DescriptorsKept DEF Descriptors
  <2>3. \A l \in Loops : access[l].name # "insert"
    BY <1>a, <2>1 DEF AccessesFit, NoAccess
  <2> QED BY <2>1, <2>2, <2>3 DEF QueuesFit, Fits, AccessesFit, OpenIsEntered
<1>8. CASE DestroyMap
  <2>1. /\ server = "joining" /\ server' = "gone"
        /\ rConnects' = [f \in Fds |-> None]
        /\ UNCHANGED <<fd, loop, state, access, queue, kept>>
    BY <1>8 DEF DestroyMap
  <2>2. Descriptors'
    <3>1. \A c \in Conns : c # None
      BY DEF Conns, None
    <3>2. \A c \in Conns : Alive(c)' => Alive(c)
      BY <2>1, <3>1, AliveItems, AliveNext
    <3>3. \A f \in Fds : rConnects'[f] = None
      BY <2>1
    <3> QED BY <2>1, <3>2, <3>3, DescriptorsKept
  <2>3. \A l \in Loops : access[l].name # "insert"
    BY <2>1 DEF AccessesFit
  <2> QED BY <2>1, <2>2, <2>3 DEF QueuesFit, Fits, AccessesFit, OpenIsEntered
<1>9. ASSUME NEW l \in Loops, Join(l)
      PROVE  Descriptors' /\ QueuesFit' /\ AccessesFit' /\ OpenIsEntered'
  <2>1. /\ queue' = [queue EXCEPT ![l] = <<>>]
        /\ UNCHANGED <<server, fd, loop, state, rConnects, access, kept>>
    BY <1>9 DEF Join
  <2>2. queue'[l] = <<>> /\ \A k \in Loops : k # l => queue'[k] = queue[k]
    BY <2>1 DEF TypeOK
  <2>3. /\ \A k \in Loops : OnceIn(queue'[k])
        /\ \A k \in Loops : \A q \in ItemsOf(queue'[k]) : q \in ItemsOf(queue[k])
    BY <1>b, <2>2, EmptyItems
  <2>4. \A c \in Conns : Alive(c)' => Alive(c)
    BY <2>1, <2>3, AliveItems, AliveNext
  <2> QED BY <2>1, <2>3, <2>4, SafeKept
<1>10. CASE UNCHANGED vars
  BY <1>1, <1>10 DEF vars
<1> QED
  BY <1>2, <1>3, <1>4, <1>5, <1>6, <1>7, <1>8, <1>9, <1>10, <1>11, EndInsertSafe,
     NewConnectSafe, RunEstablishedSafe, RunRemoveSafe, EndEraseSafe
  DEF Next, BaseStep, LoopStep, Destructor

-----------------------------------------------------------------------------
(* No connection is forgotten.                                             *)

OnItsWay(c) ==
    /\ state[c] = "new" =>
           \/ Functor("established", c) \in ItemsOf(queue[loop[c]])
           \/ access[Base] = [name |-> "insert", conn |-> c]
    /\ state[c] = "closed" =>
           \/ Functor("remove", c) \in ItemsOf(queue[loop[c]])
           \/ access[loop[c]] = [name |-> "erase", conn |-> c]
    /\ state[c] = "removed" => \A f \in Fds : rConnects[f] # c

LEMMA NoneForgottenItems ==
    NoneForgotten <=> (clean /\ server = "alive" => \A c \in Conns : OnItsWay(c))
<1>1. \A name, c : Waits(name, c) <=> Functor(name, c) \in ItemsOf(queue[loop[c]])
  BY DEF Waits, ItemsOf
<1> QED BY <1>1 DEF NoneForgotten, OnItsWay

\* Nothing happens to c: its entry and what waits for it stay.
LEMMA WayKept ==
    ASSUME NEW c \in Conns, OnItsWay(c), state'[c] = state[c], loop'[c] = loop[c],
           \A q \in ItemsOf(queue[loop[c]]) :
               q \in {Functor("established", c), Functor("remove", c)}
                   => q \in ItemsOf(queue'[loop[c]]),
           access[Base] = [name |-> "insert", conn |-> c] => access'[Base] = access[Base],
           access[loop[c]] = [name |-> "erase", conn |-> c] => access'[loop[c]] = access[loop[c]],
           \A f \in Fds : rConnects'[f] = c => rConnects[f] = c
    PROVE  OnItsWay(c)'
BY DEF OnItsWay

\* A functor is pushed at the back of the queue of l, or the first one is popped.
LEMMA PushItems ==
    ASSUME TypeOK, NEW l \in Loops, NEW s \in Seq(AllFunctors), NEW x \in AllFunctors,
           queue' = [queue EXCEPT ![l] = Append(s, x)]
    PROVE  /\ ItemsOf(queue'[l]) = ItemsOf(s) \union {x}
           /\ \A k \in Loops : k # l => ItemsOf(queue'[k]) = ItemsOf(queue[k])
BY AppendItems DEF TypeOK

LEMMA PopItems ==
    ASSUME TypeOK, NEW l \in Loops, queue[l] # <<>>
    PROVE  /\ Tail(queue[l]) \in Seq(AllFunctors)
           /\ ItemsOf(queue[l]) = ItemsOf(Tail(queue[l])) \union {Head(queue[l])}
           /\ queue' = [queue EXCEPT ![l] = Tail(@)] =>
                  /\ queue'[l] = Tail(queue[l])
                  /\ \A k \in Loops : k # l => queue'[k] = queue[k]
<1>1. queue[l] \in Seq(AllFunctors)
  BY DEF TypeOK
<1> QED BY <1>1, TailItems DEF TypeOK

LEMMA HandleCloseWay ==
    ASSUME TypeOK, NEW l \in Loops, NEW c \in Conns, NEW s \in Seq(AllFunctors),
           HandleClose(l, s, c), loop[c] = l, loop' = loop,
           \A q \in ItemsOf(queue[l]) : q.name # "close" => q \in ItemsOf(s),
           \A b \in Conns : OnItsWay(b)
    PROVE  \A b \in Conns : OnItsWay(b)'
<1> DEFINE x == Functor("remove", c)
<1>1. x \in AllFunctors
  BY FunctorTyped
<1>2. /\ queue' = [queue EXCEPT ![l] = Append(s, x)]
      /\ state' = [state EXCEPT ![c] = "closed"]
      /\ UNCHANGED <<rConnects, access>>
  BY DEF HandleClose
<1> HIDE DEF x
<1>3. /\ ItemsOf(queue'[l]) = ItemsOf(s) \union {x}
      /\ \A k \in Loops : k # l => ItemsOf(queue'[k]) = ItemsOf(queue[k])
  BY <1>1, <1>2, PushItems
<1>4. OnItsWay(c)'
  BY <1>2, <1>3 DEF OnItsWay, TypeOK, x
<1>5. ASSUME NEW b \in Conns, b # c  PROVE OnItsWay(b)'
  <2>1. loop[b] \in Loops /\ state'[b] = state[b]
    BY <1>2, <1>5 DEF TypeOK
  <2>2. \A q \in ItemsOf(queue[loop[b]]) :
            q \in {Functor("established", b), Functor("remove", b)} => q \in ItemsOf(queue'[loop[b]])
    BY <1>3, <2>1 DEF Functor
  <2> QED BY <1>2, <2>1, <2>2, WayKept
<1> QED BY <1>4, <1>5

LEMMA EndInsertWay ==
    ASSUME TypeOK, NEW c \in Conns, EndInsert(c), state[c] = "new",
           \A b \in Conns : OnItsWay(b)
    PROVE  \A b \in Conns : OnItsWay(b)'
<1> DEFINE x == Functor("established", c)
<1>a. Base \in Loops /\ loop[c] \in Loops /\ queue[loop[c]] \in Seq(AllFunctors)
  BY BoundsAssumption DEF Base, Loops, TypeOK
<1>1. x \in AllFunctors
  BY FunctorTyped
<1> HIDE DEF x
<1>2. /\ access[Base] = [name |-> "insert", conn |-> c]
      /\ access' = [access EXCEPT ![Base] = NoAccess]
      /\ rConnects' = [rConnects EXCEPT ![fd[c]] = c]
      /\ loop' = loop
  BY DEF EndInsert, Leaves
<1>3. CASE loop[c] = Base /\ state' = [state EXCEPT ![c] = "open"] /\ UNCHANGED queue
  <2>1. OnItsWay(c)'
    BY <1>3 DEF OnItsWay, TypeOK
  <2>2. ASSUME NEW b \in Conns, b # c  PROVE OnItsWay(b)'
    <3>1. state'[b] = state[b] /\ \A f \in Fds : rConnects'[f] = b => rConnects[f] = b
      BY <1>2, <1>3, <2>2 DEF TypeOK
    <3>2. /\ access[Base] # [name |-> "insert", conn |-> b]
          /\ access[loop[b]] = [name |-> "erase", conn |-> b] => access'[loop[b]] = access[loop[b]]
      BY <1>2, <2>2, <1>a DEF TypeOK
    <3> QED BY <1>2, <1>3, <3>1, <3>2, WayKept
  <2> QED BY <2>1, <2>2
<1>4. CASE queue' = [queue EXCEPT ![loop[c]] = Append(@, x)] /\ UNCHANGED state
  <2>1. /\ ItemsOf(queue'[loop[c]]) = ItemsOf(queue[loop[c]]) \union {x}
        /\ \A k \in Loops : k # loop[c] => ItemsOf(queue'[k]) = ItemsOf(queue[k])
    BY <1>a, <1>1, <1>4, PushItems DEF TypeOK
  <2>2. OnItsWay(c)'
    BY <1>2, <1>4, <2>1 DEF OnItsWay, x
  <2>3. ASSUME NEW b \in Conns, b # c  PROVE OnItsWay(b)'
    <3>1. state'[b] = state[b] /\ \A f \in Fds : rConnects'[f] = b => rConnects[f] = b
      BY <1>2, <1>4, <2>3 DEF TypeOK
    <3>2. /\ access[Base] # [name |-> "insert", conn |-> b]
          /\ access[loop[b]] = [name |-> "erase", conn |-> b] => access'[loop[b]] = access[loop[b]]
      BY <1>2, <2>3, <1>a DEF TypeOK
    <3>3. loop[b] \in Loops
      BY DEF TypeOK
    <3> QED BY <1>2, <2>1, <3>1, <3>2, <3>3, WayKept
  <2> QED BY <2>2, <2>3
<1> QED BY <1>3, <1>4 DEF EndInsert, x

LEMMA RunEstablishedWay ==
    ASSUME TypeOK, QueuesFit, NEW l \in Loops, RunEstablished(l),
           \A b \in Conns : OnItsWay(b)
    PROVE  \A b \in Conns : OnItsWay(b)'
<1> DEFINE h == Head(queue[l])
<1>1. /\ Pops(l, "established") /\ queue[l] # <<>>
      /\ queue' = [queue EXCEPT ![l] = Tail(@)]
      /\ state' = [state EXCEPT ![h.conn] = "open"]
      /\ UNCHANGED <<loop, rConnects, access>>
  BY DEF RunEstablished, Pops, mapVars
<1>2. h \in AllFunctors /\ h.name = "established" /\ h.conn \in Conns
  BY <1>1, Popped
<1>3. /\ ItemsOf(queue[l]) = ItemsOf(queue'[l]) \union {h}
      /\ \A k \in Loops : k # l => queue'[k] = queue[k]
  BY <1>1, PopItems
<1>b. PICK c \in Conns : c = h.conn
  BY <1>2
<1> HIDE DEF h
<1>4. OnItsWay(c)'
  BY <1>1, <1>2, <1>b DEF OnItsWay, TypeOK
<1>5. ASSUME NEW b \in Conns, b # c  PROVE OnItsWay(b)'
  <2>1. loop[b] \in Loops /\ state'[b] = state[b]
    BY <1>1, <1>b, <1>5 DEF TypeOK
  <2>2. h # Functor("established", b) /\ h # Functor("remove", b)
    BY <1>b, <1>5 DEF Functor
  <2> QED BY <1>1, <1>3, <2>1, <2>2, WayKept
<1> QED BY <1>4, <1>5

LEMMA RunCloseWay ==
    ASSUME TypeOK, QueuesFit, NEW l \in Loops, RunClose(l), \A b \in Conns : OnItsWay(b)
    PROVE  \A b \in Conns : OnItsWay(b)'
<1> DEFINE h == Head(queue[l])
<1>1. Pops(l, "close") /\ queue[l] # <<>> /\ loop' = loop
  BY DEF RunClose, Pops
<1>2. h \in AllFunctors /\ h.name = "close" /\ h.conn \in Conns /\ loop[h.conn] = l
  BY <1>1, Popped DEF Fits
<1>3. /\ Tail(queue[l]) \in Seq(AllFunctors)
      /\ ItemsOf(queue[l]) = ItemsOf(Tail(queue[l])) \union {h}
      /\ queue' = [queue EXCEPT ![l] = Tail(@)] =>
             queue'[l] = Tail(queue[l]) /\ \A k \in Loops : k # l => queue'[k] = queue[k]
  BY <1>1, PopItems
<1>4. CASE state[h.conn] = "open"
  <2>1. HandleClose(l, Tail(queue[l]), h.conn)
    BY <1>4 DEF RunClose
  <2> HIDE DEF h
  <2> QED BY <1>1, <1>2, <1>3, <2>1, HandleCloseWay
<1>5. CASE state[h.conn] # "open"
  <2>1. queue' = [queue EXCEPT ![l] = Tail(@)] /\ UNCHANGED <<state, rConnects, access>>
    BY <1>5 DEF RunClose, mapVars
  <2> HIDE DEF h
  <2> SUFFICES ASSUME NEW b \in Conns  PROVE OnItsWay(b)'
    OBVIOUS
  <2>2. h # Functor("established", b) /\ h # Functor("remove", b) /\ loop[b] \in Loops
    BY <1>2 DEF Functor, TypeOK
  <2> QED BY <1>1, <1>3, <2>1, <2>2, WayKept
<1> QED BY <1>4, <1>5

LEMMA RunRemoveWay ==
    ASSUME TypeOK, QueuesFit, NEW l \in Loops, RunRemove(l), \A b \in Conns : OnItsWay(b)
    PROVE  \A b \in Conns : OnItsWay(b)'
<1> DEFINE h == Head(queue[l])
<1>1. /\ Pops(l, "remove") /\ queue[l] # <<>> /\ access[l] = NoAccess
      /\ queue' = [queue EXCEPT ![l] = Tail(@)]
      /\ access' = [access EXCEPT ![l] = [name |-> "erase", conn |-> h.conn]]
      /\ UNCHANGED <<loop, rConnects, state>>
  BY DEF RunRemove, Pops, OnLoop, Enters
<1>2. /\ h \in AllFunctors /\ h.name = "remove" /\ h.conn \in Conns
      /\ loop[h.conn] = l /\ state[h.conn] \in {"closed", "removed"}
  BY <1>1, Popped DEF Fits
<1>3. /\ ItemsOf(queue[l]) = ItemsOf(queue'[l]) \union {h}
      /\ \A k \in Loops : k # l => queue'[k] = queue[k]
  BY <1>1, PopItems
<1>b. PICK c \in Conns : c = h.conn
  BY <1>2
<1> HIDE DEF h
<1>a. Base \in Loops
  BY BoundsAssumption DEF Base, Loops
<1>4. OnItsWay(c)'
  BY <1>1, <1>2, <1>b DEF OnItsWay, TypeOK
<1>5. ASSUME NEW b \in Conns, b # c  PROVE OnItsWay(b)'
  <2>1. loop[b] \in Loops
    BY DEF TypeOK
  <2>2. h # Functor("established", b) /\ h # Functor("remove", b)
    BY <1>b, <1>5 DEF Functor
  <2>3. /\ access[Base] = [name |-> "insert", conn |-> b] => access'[Base] = access[Base]
        /\ access[loop[b]] = [name |-> "erase", conn |-> b] => access'[loop[b]] = access[loop[b]]
    BY <1>1, <1>a, <2>1 DEF NoAccess, TypeOK
  <2> QED BY <1>1, <1>3, <2>1, <2>2, <2>3, WayKept
<1> QED BY <1>4, <1>5

LEMMA EndEraseWay ==
    ASSUME TypeOK, Descriptors, NEW l \in Loops, EndErase(l), \A b \in Conns : OnItsWay(b)
    PROVE  \A b \in Conns : OnItsWay(b)'
<1>b. PICK c \in Conns : access[l] = [name |-> "erase", conn |-> c]
  BY DEF EndErase, TypeOK, NoAccess
<1>1. /\ access[l].conn = c
      /\ access' = [access EXCEPT ![l] = NoAccess]
      /\ rConnects' = [rConnects EXCEPT ![fd[c]] = None]
      /\ state' = [state EXCEPT ![c] = "removed"]
      /\ UNCHANGED <<loop, queue>>
  BY <1>b DEF EndErase, Leaves
<1>a. Base \in Loops /\ \A b \in Conns : b # None
  BY BoundsAssumption DEF Base, Loops, Conns, None
<1>2. OnItsWay(c)'
  <2>1. \A f \in Fds : rConnects[f] = c => f = fd[c]
    BY <1>1, <1>a DEF Descriptors
  <2>2. \A f \in Fds : rConnects'[f] # c
    BY <1>1, <1>a, <2>1 DEF TypeOK
  <2> QED BY <1>1, <2>2 DEF OnItsWay, TypeOK
<1>3. ASSUME NEW b \in Conns, b # c  PROVE OnItsWay(b)'
  <2>1. loop[b] \in Loops /\ state'[b] = state[b]
    BY <1>1, <1>3 DEF TypeOK
  <2>2. \A f \in Fds : rConnects'[f] = b => rConnects[f] = b
    BY <1>1, <1>a DEF TypeOK
  <2>3. /\ access[Base] = [name |-> "insert", conn |-> b] => access'[Base] = access[Base]
        /\ access[loop[b]] = [name |-> "erase", conn |-> b] => access'[loop[b]] = access[loop[b]]
    BY <1>1, <1>b, <1>3, <1>a, <2>1 DEF TypeOK
  <2> QED BY <1>1, <2>1, <2>2, <2>3, WayKept
<1> QED BY <1>2, <1>3

LEMMA NewConnectWay ==
    ASSUME TypeOK, NEW c \in Conns, NewConnect(c), \A b \in Conns : OnItsWay(b)
    PROVE  \A b \in Conns : OnItsWay(b)'
<1>a. Base \in Loops
  BY BoundsAssumption DEF Base, Loops
<1>1. /\ access[Base] = NoAccess
      /\ access' = [access EXCEPT ![Base] = [name |-> "insert", conn |-> c]]
      /\ state' = [state EXCEPT ![c] = "new"]
      /\ loop' = [loop EXCEPT ![c] = NextLoop]
      /\ UNCHANGED <<queue, rConnects>>
  BY DEF NewConnect, MayAccept, OnLoop, Enters
<1>2. OnItsWay(c)'
  BY <1>1, <1>a DEF OnItsWay, TypeOK
<1>3. ASSUME NEW b \in Conns, b # c  PROVE OnItsWay(b)'
  <2>1. loop'[b] = loop[b] /\ loop[b] \in Loops /\ state'[b] = state[b]
    BY <1>1, <1>3 DEF TypeOK
  <2>2. /\ access[Base] = [name |-> "insert", conn |-> b] => access'[Base] = access[Base]
        /\ access[loop[b]] = [name |-> "erase", conn |-> b] => access'[loop[b]] = access[loop[b]]
    BY <1>1, <1>a, <2>1 DEF NoAccess, TypeOK
  <2> QED BY <1>1, <2>1, <2>2, WayKept
<1> QED BY <1>2, <1>3

LEMMA StepWay ==
    ASSUME TypeOK, clean => Safe, NoneForgotten, [Next]_vars
    PROVE  NoneForgotten'
<1> USE DEF startVars, connVars, userVars, mapVars
<1>1. NoneForgotten' <=> (clean /\ server = "alive" => \A c \in Conns : OnItsWay(c))'
  BY NoneForgottenItems, PTL
<1> SUFFICES ASSUME clean', server' = "alive"
             PROVE  \A c \in Conns : OnItsWay(c)'
  BY <1>1
<1>2. clean
  BY CleanBefore
<1>3. /\ server = "alive" /\ ~Destroy /\ ~DestroyMap /\ \A l \in Loops : ~Join(l)
      /\ \A c \in Conns : ~NewConnectExits(c)
  BY AliveBefore
<1>4. Descriptors /\ QueuesFit /\ AccessesFit /\ \A c \in Conns : OnItsWay(c)
  BY <1>2, <1>3, SafeParts, NoneForgottenItems
<1>5. ASSUME UNCHANGED <<loop, state, rConnects, access, queue>>
      PROVE  \A c \in Conns : OnItsWay(c)'
  BY <1>4, <1>5, WayKept
<1>6. CASE StartStep \/ RunStart \/ UNCHANGED vars \/ \E c \in Conns : Keep(c) \/ Release(c)
  BY <1>5, <1>6 DEF StartStep, StartChecks, StartStores, StartSub, StartPosts, StartAgain,
                    StartTwice, RunStart, Keep, Release, vars
<1>7. ASSUME NEW c \in Conns, EndInsert(c)  PROVE \A b \in Conns : OnItsWay(b)'
  <2>1. state[c] = "new"
    BY <1>4, <1>7, BoundsAssumption DEF EndInsert, AccessesFit, Base, Loops
  <2> QED BY <1>4, <1>7, <2>1, EndInsertWay
<1>8. ASSUME NEW l \in Loops, NEW c \in Conns, CloseEvent(l, c)
      PROVE  \A b \in Conns : OnItsWay(b)'
  <2>1. /\ HandleClose(l, queue[l], c) /\ loop[c] = l /\ loop' = loop
        /\ queue[l] \in Seq(AllFunctors)
    BY <1>8 DEF CloseEvent, TypeOK
  <2> QED BY <1>4, <2>1, HandleCloseWay
<1>9. ASSUME NEW c \in Conns, Close(c)  PROVE \A b \in Conns : OnItsWay(b)'
  <2> DEFINE x == Functor("close", c)
  <2>1. /\ queue' = [queue EXCEPT ![loop[c]] = Append(@, x)]
        /\ UNCHANGED <<loop, state, rConnects, access>>
    BY <1>9 DEF Close
  <2>2. x \in AllFunctors /\ loop[c] \in Loops /\ queue[loop[c]] \in Seq(AllFunctors)
    BY FunctorTyped DEF TypeOK
  <2> HIDE DEF x
  <2>3. \A k \in Loops : \A q \in ItemsOf(queue[k]) : q \in ItemsOf(queue'[k])
    BY <2>1, <2>2, PushItems
  <2>4. \A b \in Conns : loop[b] \in Loops
    BY DEF TypeOK
  <2> QED BY <1>4, <2>1, <2>3, <2>4, WayKept
<1> QED
  BY <1>3, <1>4, <1>6, <1>7, <1>8, <1>9, RunEstablishedWay, RunCloseWay, RunRemoveWay,
     EndEraseWay, NewConnectWay DEF Next, BaseStep, LoopStep, Destructor

LEMMA InitIInv == Init => IInv
<1> SUFFICES ASSUME Init  PROVE IInv
  OBVIOUS
<1>a. Base \in Loops
  BY BoundsAssumption DEF Base, Loops
<1>1. TypeOK
  BY InitTypes
<1>2. \A l \in Loops : ItemsOf(queue[l]) = {} /\ OnceIn(queue[l]) /\ access[l] = NoAccess
  BY EmptyItems DEF Init
<1>3. \A c \in Conns : c # None /\ state[c] = "none"
  BY DEF Init, Conns, None
<1>4. \A f \in Fds : rConnects[f] = None
  BY DEF Init
<1>5. \A c \in Conns : ~Alive(c)
  BY <1>2, <1>3, <1>4, AliveItems DEF NoAccess, Init
<1>6. Descriptors
  BY <1>3, <1>4, <1>5 DEF Descriptors
<1>7. QueuesFit /\ AccessesFit /\ OpenIsEntered
  BY <1>2, <1>3 DEF QueuesFit, AccessesFit, OpenIsEntered, NoAccess
<1>8. Safe
  BY <1>6, <1>7, SafeParts
<1>9. Rest
  BY <1>a, <1>3 DEF Init, Rest, Subs, LoopsAreUp, MembersAlive
<1>10. NoneForgotten
  BY <1>3 DEF NoneForgotten
<1> QED BY <1>1, <1>8, <1>9, <1>10 DEF IInv, Safe, Rest

LEMMA StepIInv == IInv /\ [Next]_vars => IInv'
<1> SUFFICES ASSUME IInv, [Next]_vars
             PROVE  IInv'
  OBVIOUS
<1>1. TypeOK /\ (clean => Safe) /\ Rest /\ NoneForgotten
  BY DEF IInv, Safe, Rest
<1>2. clean => QueuesFit /\ AccessesFit
  BY <1>1, SafeParts
<1>3. TypeOK' /\ Rest' /\ (clean' => Safe') /\ NoneForgotten'
  BY <1>1, <1>2, StepTypes, StepRest, StepSafe, StepWay
<1> QED BY <1>3 DEF IInv, Safe, Rest

(***************************************************************************)
(* IInv is inductive: descriptors, queued functors, accesses of rConnects_ *)
(* and open connections fit together, whatever the threads do, as long as  *)
(* no two of them were inside rConnects_ at a time.                        *)
(***************************************************************************)
THEOREM Invariance == Spec => []IInv
BY InitIInv, StepIInv, PTL DEF Spec

(***************************************************************************)
(* Although rConnects_ has descriptors as keys and descriptors are used    *)
(* again, no insertion overwrites and no removal erases the entry of       *)
(* another connection, and every open connection keeps its entry.          *)
(***************************************************************************)
THEOREM EntriesAreOwn == Spec => []OwnEntry
<1>1. IInv => OwnEntry
  <2> SUFFICES ASSUME TypeOK, clean, Safe, NEW l \in Loops
               PROVE  /\ access[l].name = "insert" => rConnects[fd[access[l].conn]] = None
                      /\ access[l].name = "erase" =>
                             rConnects[fd[access[l].conn]] \in {access[l].conn, None}
    BY DEF IInv, Safe, OwnEntry
  <2>1. CASE access[l].name = "erase"
    <3> DEFINE c == access[l].conn
               d == rConnects[fd[c]]
    <3>1. c \in Conns /\ Alive(c) /\ fd[c] \in Fds
      BY <2>1, DistinctFds DEF Safe, NoAccess
    <3>2. ASSUME d # None  PROVE d = c
      <4>1. d \in Conns /\ Alive(d) /\ fd[d] = fd[c]
        BY <3>1, <3>2 DEF Safe, Descriptors, Alive, TypeOK
      <4> QED BY <3>1, <4>1 DEF Safe, Descriptors
    <3> QED BY <2>1, <3>2
  <2>2. CASE access[l].name # "erase"
    BY <2>2 DEF Safe, Inserting
  <2> QED BY <2>1, <2>2
<1> QED BY <1>1, Invariance, PTL

(***************************************************************************)
(* With sub-loops, no close callback and no removal of a connection ever   *)
(* uses the server's members after they were destroyed: the pool is joined *)
(* before rConnects_ goes.                                                 *)
(***************************************************************************)
THEOREM MembersStay == Spec => []MembersAlive
<1>1. IInv => MembersAlive
  BY DEF IInv
<1> QED BY <1>1, Invariance, PTL

(***************************************************************************)
(* However start() is called while the pool starts its threads, the loop   *)
(* of every connection of a living server runs; and the program meets a    *)
(* loop that is not there, and exits, only after a start() that was called *)
(* between the first one's store of started_ and its last sub-loop.        *)
(***************************************************************************)
THEOREM HandedToRunningLoops == Spec => []LoopsAreUp
<1>1. IInv => LoopsAreUp
  BY DEF IInv
<1> QED BY <1>1, Invariance, PTL

(***************************************************************************)
(* While the server is alive every accepted connection is being entered or *)
(* waits to be established, every closed one waits to be removed, and a    *)
(* removed one has left rConnects_.                                        *)
(***************************************************************************)
THEOREM NothingForgotten == Spec => []NoneForgotten
<1>1. IInv => NoneForgotten
  BY DEF IInv
<1> QED BY <1>1, Invariance, PTL
=============================================================================
