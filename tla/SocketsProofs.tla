----------------------------- MODULE SocketsProofs -----------------------------
(***************************************************************************)
(* Proofs about Sockets: its types, the ownership of descriptors and the   *)
(* states of listeners.                                                    *)
(***************************************************************************)
EXTENDS Sockets, TLAPS

LEMMA InitIInv ==
    ASSUME Init
    PROVE  IInv
  BY DEF Init, IInv, TypeOK, OwnedOnce, NeverAhead, ListenersOwn, RawOpen, Closes, Open, Owners,
         Created, Bound, Listening, Objects

(***************************************************************************)
(* The kernel after close() and a new socket.                              *)
(***************************************************************************)
LEMMA KernelTypes ==
    ASSUME TypeOK, NEW o \in Objects, NEW d \in Fds \union {None},
           NEW k \in {"tcp", "udp"}, NEW p \in {"new", "bound", "listening", "connected"},
           Kernel(o, d, k, p) \/ NoNewSocket(o)
    PROVE  /\ kind' \in [Fds -> {"none", "tcp", "udp"}]
           /\ phase' \in [Fds -> {"new", "bound", "listening", "connected"}]
  BY DEF Kernel, NoNewSocket, TypeOK

LEMMA CleanTypes ==
    ASSUME NEW o \in Objects, NEW ok \in BOOLEAN, CloseReturns(o, ok), TypeOK
    PROVE  clean' \in BOOLEAN
  BY DEF CloseReturns, Closes, TypeOK

LEMMA BecomesTypes ==
    ASSUME TypeOK, NEW o \in Objects, NEW d \in Fds \union {None}, NEW own \in BOOLEAN,
           NEW s \in {Created, Bound, Listening}, Becomes(o, d, own, s)
    PROVE  /\ fd' \in [Objects -> Fds \union {None}]
           /\ owns' \in [Objects -> BOOLEAN]
           /\ state' \in [Listeners -> {Created, Bound, Listening}]
           /\ clean' \in BOOLEAN
<1>1. clean' \in BOOLEAN
  BY CleanTypes DEF Becomes
<1>2. state' \in [Listeners -> {Created, Bound, Listening}]
  <2>1. CASE o \in Listeners
    BY <2>1 DEF Becomes, TypeOK
  <2>2. CASE o \notin Listeners
    BY <2>2 DEF Becomes, TypeOK
  <2> QED BY <2>1, <2>2
<1> QED BY <1>1, <1>2 DEF Becomes, TypeOK

LEMMA StepTypes ==
    ASSUME TypeOK, [Next]_vars
    PROVE  TypeOK'
<1> USE DEF kernelVars
<1>0. /\ Tcps \subseteq Objects /\ Connects \subseteq Objects
      /\ Listeners \subseteq Objects /\ Udps \subseteq Objects
  BY DEF Objects
<1>1. ASSUME NEW o \in Objects, Close(o)  PROVE TypeOK'
  <2>1. clean' \in BOOLEAN /\ state' = state /\ raw' = raw /\ NoNewSocket(o)
    BY <1>1, CleanTypes DEF Close
  <2>2. /\ fd' \in [Objects -> Fds \union {None}]
        /\ owns' \in [Objects -> BOOLEAN]
    BY <1>1 DEF Close, TypeOK
  <2> QED BY <2>1, <2>2, KernelTypes DEF TypeOK
<1>2. ASSUME NEW o \in Objects, NEW d \in Fds \union {None}, NEW own \in BOOLEAN,
             Becomes(o, d, own, Created),
             \/ NoNewSocket(o) \/ Kernel(o, d, KindOf(o), "new")
             \/ Kernel(o, d, "tcp", "connected"),
             raw' \subseteq raw
      PROVE  TypeOK'
  <2>1. KindOf(o) \in {"tcp", "udp"}
    BY DEF KindOf
  <2>2. /\ kind' \in [Fds -> {"none", "tcp", "udp"}]
        /\ phase' \in [Fds -> {"new", "bound", "listening", "connected"}]
    BY <1>2, <2>1, KernelTypes
  <2> QED BY <1>2, <2>2, BecomesTypes DEF TypeOK
<1>3. ASSUME NEW o \in Objects, Destroy(o)  PROVE TypeOK'
  BY <1>2, <1>3 DEF Destroy
<1>4. ASSUME NEW o \in Objects, NEW p \in Objects, Move(o, p)  PROVE TypeOK'
  <2>1. clean' \in BOOLEAN /\ raw' = raw /\ NoNewSocket(o)
    BY <1>4, CleanTypes DEF Move
  <2>2. o \in Listeners => p \in Listeners
    BY <1>4, ObjectsAssumption DEF Move, SameClass
  <2>3. /\ fd' \in [Objects -> Fds \union {None}]
        /\ owns' \in [Objects -> BOOLEAN]
        /\ state' \in [Listeners -> {Created, Bound, Listening}]
    BY <1>4, <2>2 DEF Move, TypeOK
  <2> QED BY <2>1, <2>3, KernelTypes DEF TypeOK
<1>5. ASSUME NEW o \in Objects, NEW d \in Fds \union {None}, Create(o, d)  PROVE TypeOK'
  BY <1>2, <1>5 DEF Create
<1>6. ASSUME NEW o \in Objects, NEW d \in Fds, Attach(o, d)  PROVE TypeOK'
  BY <1>2, <1>6 DEF Attach
<1>7. ASSUME NEW o \in Objects, NEW d \in Fds, Borrow(o, d)  PROVE TypeOK'
  BY <1>2, <1>7 DEF Borrow
<1>8. ASSUME NEW o \in Objects, NEW d \in Fds, ConnectRaw(o, d)  PROVE TypeOK'
  BY <1>2, <1>8 DEF ConnectRaw
<1>9. ASSUME NEW l \in Objects, NEW o \in Objects, NEW d \in Fds, Accept(l, o, d)  PROVE TypeOK'
  BY <1>2, <1>9 DEF Accept
<1>10. ASSUME NEW o \in Objects, Bind(o) \/ Listen(o) \/ Connect(o)  PROVE TypeOK'
  BY <1>10 DEF Bind, Listen, Connect, Goes, TypeOK
<1>11. ASSUME NEW l \in Listeners, BindListener(l) \/ ListenListener(l)  PROVE TypeOK'
  BY <1>0, <1>11 DEF BindListener, ListenListener, Goes, TypeOK
<1>12. ASSUME NEW d \in Fds, UserCloses(d)  PROVE TypeOK'
  BY <1>12 DEF UserCloses, TypeOK
<1>13. ASSUME NEW d \in Fds, NEW k \in {"tcp", "udp"}, NEW p \in {"new", "bound", "connected"},
              UserOpens(d, k, p)
       PROVE  TypeOK'
  BY <1>13 DEF UserOpens, TypeOK
<1>14. CASE UNCHANGED vars
  BY <1>14 DEF vars, TypeOK
<1> QED
  BY <1>1, <1>3, <1>4, <1>5, <1>6, <1>7, <1>8, <1>9, <1>10, <1>11, <1>12, <1>13, <1>14
  DEF Next

(***************************************************************************)
(* Ownership and the listeners' states, read in a state in which no        *)
(* close(2) has failed.                                                    *)
(***************************************************************************)
Owned ==
    /\ \A o \in Objects : Closes(o) => Open(fd[o])
    /\ \A o, p \in Objects : Closes(o) /\ owns[p] /\ fd[p] = fd[o] => p = o
    /\ \A d \in Fds : Open(d) => (d \in raw <=> \A o \in Objects : ~(owns[o] /\ fd[o] = d))
    /\ \A d \in raw : Open(d)

Behind ==
    \A l \in Listeners :
        fd[l] # None =>
            /\ owns[l]
            /\ state[l] = Bound => phase[fd[l]] # "new"
            /\ state[l] = Listening => phase[fd[l]] = "listening"

LEMMA Cleanly ==
    /\ OwnedOnce /\ RawOpen <=> (clean => Owned)
    /\ NeverAhead /\ ListenersOwn <=> (clean => Behind)
<1>1. OwnedOnce /\ RawOpen <=> (clean => Owned)
  BY DEF OwnedOnce, RawOpen, Owned, Owners
<1>2. NeverAhead /\ ListenersOwn <=> (clean => Behind)
  BY DEF NeverAhead, ListenersOwn, Behind
<1> QED BY <1>1, <1>2

(***************************************************************************)
(* What close() does to the kernel, by descriptor.                         *)
(***************************************************************************)
LEMMA Freed ==
    ASSUME TypeOK, NEW o \in Objects, NEW d \in Fds \union {None}, NEW k, NEW p,
           Kernel(o, d, k, p)
    PROVE  /\ d # None => kind'[d] = k /\ phase'[d] = p
           /\ \A e \in Fds : e # d /\ Closes(o) /\ e = fd[o] => kind'[e] = "none"
           /\ \A e \in Fds : e # d /\ ~(Closes(o) /\ e = fd[o]) =>
                                 kind'[e] = kind[e] /\ phase'[e] = phase[e]
  BY NoneAssumption DEF Kernel

LEMMA BecomesOwned ==
    ASSUME TypeOK, Owned, NEW o \in Objects, NEW d \in Fds \union {None}, NEW own \in BOOLEAN,
           fd' = [fd EXCEPT ![o] = d], owns' = [owns EXCEPT ![o] = own],
           \/ d = None /\ raw' = raw /\ Kernel(o, None, "none", "new")
           \/ /\ own /\ d \in Fds /\ ~Open(d) /\ raw' = raw
              /\ \E k \in {"tcp", "udp"}, p \in {"new", "connected"} : Kernel(o, d, k, p)
           \/ own /\ d \in raw /\ Open(d) /\ raw' = raw \ {d} /\ Kernel(o, None, "none", "new")
           \/ ~own /\ raw' = raw /\ Kernel(o, None, "none", "new")
    PROVE  Owned'
<1>0. \A d2 \in raw : ~Open(d2) \/ \A q \in Objects : ~(owns[q] /\ fd[q] = d2)
  BY DEF Owned, TypeOK
<1>1. /\ fd'[o] = d /\ owns'[o] = own
      /\ \A p \in Objects \ {o} : fd'[p] = fd[p] /\ owns'[p] = owns[p]
  BY DEF TypeOK
<1>2. \A p \in Objects : fd[p] \in Fds \union {None}
  BY DEF TypeOK
<1> DEFINE NoOwner(e) == \A q \in Objects : ~(owns[q] /\ fd[q] = e)
<1>7. ASSUME NEW e \in Fds, ~(Closes(o) /\ e = fd[o])
      PROVE  NoOwner(e)' <=> NoOwner(e) /\ ~(own /\ d = e)
  <2>1. e # None
    BY NoneAssumption
  <2>2. ~(owns[o] /\ fd[o] = e)
    BY <1>7, <2>1 DEF Closes
  <2> QED BY <1>1, <2>2
<1>3. CASE d = None /\ raw' = raw /\ Kernel(o, None, "none", "new")
  <2>1. \A e \in Fds : kind'[e] = IF Closes(o) /\ e = fd[o] THEN "none" ELSE kind[e]
    BY <1>3, Freed, NoneAssumption
  <2>3. (\A p1 \in Objects : Closes(p1) => Open(fd[p1]))'
    BY <1>1, <1>2, <1>3, <2>1 DEF Owned, Closes, Open
  <2>4. (\A p1, p2 \in Objects : Closes(p1) /\ owns[p2] /\ fd[p2] = fd[p1] => p2 = p1)'
    BY <1>1, <1>2, <1>3, <2>1 DEF Owned, Closes
  <2>5. ASSUME NEW e \in Fds, Open(e)'  PROVE (e \in raw <=> NoOwner(e))'
    <3>1. ~(Closes(o) /\ e = fd[o]) /\ Open(e) /\ d # e
      BY <1>3, <2>1, <2>5, NoneAssumption DEF Open
    <3> QED BY <1>3, <1>7, <3>1 DEF Owned
  <2>6. (\A e \in raw : Open(e))'
    BY <1>0, <1>2, <1>3, <2>1 DEF Owned, Closes, Open, TypeOK
  <2> QED BY <2>3, <2>4, <2>5, <2>6 DEF Owned
<1>4. ASSUME NEW k \in {"tcp", "udp"}, NEW p \in {"new", "connected"}, Kernel(o, d, k, p),
             own, d \in Fds, ~Open(d), raw' = raw
      PROVE  Owned'
  <2>1. /\ kind'[d] = k /\ d \notin raw /\ d # None
        /\ \A e \in Fds \ {d} : kind'[e] = IF Closes(o) /\ e = fd[o] THEN "none" ELSE kind[e]
    BY <1>4, Freed, NoneAssumption DEF Owned
  <2>2. \A p1 \in Objects : owns[p1] => fd[p1] # d
    BY <1>4, <2>1 DEF Owned, Closes
  <2>3. (\A p1 \in Objects : Closes(p1) => Open(fd[p1]))'
    BY <1>1, <1>2, <1>4, <2>1, <2>2 DEF Owned, Closes, Open
  <2>4. (\A p1, p2 \in Objects : Closes(p1) /\ owns[p2] /\ fd[p2] = fd[p1] => p2 = p1)'
    BY <1>1, <1>2, <1>4, <2>1, <2>2 DEF Owned, Closes
  <2>5. ASSUME NEW e \in Fds, Open(e)'  PROVE (e \in raw <=> NoOwner(e))'
    <3>1. CASE e = d
      <4>1. ~NoOwner(e)'
        BY <1>1, <1>4, <3>1
      <4> QED BY <1>4, <2>1, <3>1, <4>1
    <3>2. CASE e # d
      <4>1. ~(Closes(o) /\ e = fd[o]) /\ Open(e)
        BY <2>1, <2>5, <3>2 DEF Open
      <4> QED BY <1>4, <1>7, <3>2, <4>1 DEF Owned
    <3> QED BY <3>1, <3>2
  <2>6. (\A e \in raw : Open(e))'
    BY <1>2, <1>4, <2>1 DEF Owned, Closes, Open, TypeOK
  <2> QED BY <2>3, <2>4, <2>5, <2>6 DEF Owned
<1>5. CASE own /\ d \in raw /\ Open(d) /\ raw' = raw \ {d} /\ Kernel(o, None, "none", "new")
  <2>1. \A e \in Fds : kind'[e] = IF Closes(o) /\ e = fd[o] THEN "none" ELSE kind[e]
    BY <1>5, Freed, NoneAssumption
  <2>2. d \in Fds /\ d # None /\ \A p1 \in Objects : owns[p1] => fd[p1] # d
    BY <1>0, <1>5, NoneAssumption DEF TypeOK
  <2>3. (\A p1 \in Objects : Closes(p1) => Open(fd[p1]))'
    BY <1>1, <1>2, <1>5, <2>1, <2>2 DEF Owned, Closes, Open
  <2>4. (\A p1, p2 \in Objects : Closes(p1) /\ owns[p2] /\ fd[p2] = fd[p1] => p2 = p1)'
    BY <1>1, <1>2, <1>5, <2>1, <2>2 DEF Owned, Closes
  <2>5. ASSUME NEW e \in Fds, Open(e)'  PROVE (e \in raw <=> NoOwner(e))'
    <3>1. ~(Closes(o) /\ e = fd[o]) /\ Open(e)
      BY <2>1, <2>5 DEF Open
    <3> QED BY <1>5, <1>7, <3>1 DEF Owned
  <2>6. (\A e \in raw : Open(e))'
    BY <1>0, <1>2, <1>5, <2>1 DEF Owned, Closes, Open, TypeOK
  <2> QED BY <2>3, <2>4, <2>5, <2>6 DEF Owned
<1>6. CASE ~own /\ raw' = raw /\ Kernel(o, None, "none", "new")
  <2>1. \A e \in Fds : kind'[e] = IF Closes(o) /\ e = fd[o] THEN "none" ELSE kind[e]
    BY <1>6, Freed, NoneAssumption
  <2>3. (\A p1 \in Objects : Closes(p1) => Open(fd[p1]))'
    BY <1>1, <1>2, <1>6, <2>1 DEF Owned, Closes, Open
  <2>4. (\A p1, p2 \in Objects : Closes(p1) /\ owns[p2] /\ fd[p2] = fd[p1] => p2 = p1)'
    BY <1>1, <1>2, <1>6, <2>1 DEF Owned, Closes
  <2>5. ASSUME NEW e \in Fds, Open(e)'  PROVE (e \in raw <=> NoOwner(e))'
    <3>1. ~(Closes(o) /\ e = fd[o]) /\ Open(e)
      BY <2>1, <2>5 DEF Open
    <3> QED BY <1>6, <1>7, <3>1 DEF Owned
  <2>6. (\A e \in raw : Open(e))'
    BY <1>0, <1>2, <1>6, <2>1 DEF Owned, Closes, Open, TypeOK
  <2> QED BY <2>3, <2>4, <2>5, <2>6 DEF Owned
<1> QED BY <1>3, <1>4, <1>5, <1>6

(***************************************************************************)
(* What a listener holds is left alone when another object is closed, and  *)
(* by a new socket.                                                        *)
(***************************************************************************)
LEMMA OthersKept ==
    ASSUME TypeOK, Owned, Behind, NEW l \in Listeners, fd[l] # None,
           NEW o \in Objects \ {l}, NEW d \in Fds \union {None}, NEW k, NEW p,
           Kernel(o, d, k, p), d # None => ~Open(d)
    PROVE  phase'[fd[l]] = phase[fd[l]]
<1>1. Closes(l) /\ l \in Objects /\ fd[l] \in Fds
  BY DEF Behind, Closes, Objects, TypeOK
<1>2. Open(fd[l])
  BY <1>1 DEF Owned
<1>3. ~(Closes(o) /\ fd[l] = fd[o])
  BY <1>1 DEF Owned, Closes
<1> QED BY <1>1, <1>2, <1>3, Freed, NoneAssumption

LEMMA BecomesBehind ==
    ASSUME TypeOK, Owned, Behind,
           NEW o \in Objects, NEW d \in Fds \union {None}, NEW own \in BOOLEAN,
           Becomes(o, d, own, Created),
           o \in Listeners => own \/ d = None,
           \/ Kernel(o, None, "none", "new")
           \/ /\ d \in Fds /\ ~Open(d)
              /\ \E k \in {"tcp", "udp"}, p \in {"new", "connected"} : Kernel(o, d, k, p)
    PROVE  Behind'
<1>1. /\ fd'[o] = d /\ owns'[o] = own
      /\ o \in Listeners => state'[o] = Created
      /\ \A p \in Objects \ {o} : fd'[p] = fd[p] /\ owns'[p] = owns[p]
      /\ \A l \in Listeners \ {o} : state'[l] = state[l]
  BY DEF Becomes, TypeOK
<1>2. Listeners \subseteq Objects
  BY DEF Objects
<1>3. ASSUME NEW l \in Listeners, fd'[l] # None, l = o
      PROVE  owns'[l] /\ state'[l] # Bound /\ state'[l] # Listening
  BY <1>1, <1>3 DEF Created, Bound, Listening
<1>4. ASSUME NEW l \in Listeners, fd'[l] # None, l # o
      PROVE  /\ fd'[l] = fd[l] /\ owns'[l] = owns[l] /\ state'[l] = state[l]
             /\ phase'[fd[l]] = phase[fd[l]]
  <2>1. fd'[l] = fd[l] /\ owns'[l] = owns[l] /\ state'[l] = state[l]
    BY <1>1, <1>2, <1>4
  <2>2. o \in Objects \ {l} /\ fd[l] # None
    BY <1>4, <2>1
  <2>3. CASE Kernel(o, None, "none", "new")
    <3>1. phase'[fd[l]] = phase[fd[l]]
      BY <2>2, <2>3, OthersKept
    <3> QED BY <2>1, <3>1
  <2>4. ASSUME d \in Fds, ~Open(d), NEW k \in {"tcp", "udp"}, NEW p \in {"new", "connected"},
               Kernel(o, d, k, p)
        PROVE  phase'[fd[l]] = phase[fd[l]]
    BY <2>2, <2>4, OthersKept
  <2> QED BY <2>1, <2>3, <2>4
<1> QED BY <1>3, <1>4 DEF Behind

(***************************************************************************)
(* A move: what the source held is the target's.                           *)
(***************************************************************************)
LEMMA MoveKeeps ==
    ASSUME TypeOK, Owned, Behind, NEW o \in Objects, NEW p \in Objects, Move(o, p)
    PROVE  Owned' /\ Behind'
<1>1. /\ fd' = [q \in Objects |-> IF q = p THEN None ELSE IF q = o THEN fd[p] ELSE fd[q]]
      /\ owns' = [q \in Objects |-> IF q = p THEN FALSE ELSE IF q = o THEN owns[p] ELSE owns[q]]
      /\ raw' = raw
      /\ Kernel(o, None, "none", "new")
  BY DEF Move, NoNewSocket, TypeOK
<1>2. /\ \A q \in Objects : fd[q] \in Fds \union {None}
      /\ \A e \in Fds : kind'[e] = IF Closes(o) /\ e = fd[o] THEN "none" ELSE kind[e]
  BY <1>1, Freed, NoneAssumption DEF TypeOK
<1>3. ASSUME NEW q \in Objects, Closes(q)', q # o  PROVE Closes(q) /\ fd'[q] = fd[q]
  BY <1>1, <1>3 DEF Closes
<1>4. ASSUME Closes(o)'  PROVE Closes(p) /\ fd'[o] = fd[p] /\ o # p
  BY <1>1, <1>4 DEF Closes
<1>5. (\A q \in Objects : Closes(q) => Open(fd[q]))'
  <2>1. ASSUME NEW q \in Objects, Closes(q)', q # o  PROVE Open(fd[q])'
    <3>1. Closes(q) /\ fd'[q] = fd[q] /\ Open(fd[q]) /\ fd[q] \in Fds
      BY <1>2, <1>3, <2>1 DEF Owned, Closes
    <3>2. ~(Closes(o) /\ fd[q] = fd[o])
      BY <2>1, <3>1 DEF Owned, Closes
    <3> QED BY <1>2, <3>1, <3>2 DEF Open
  <2>2. ASSUME Closes(o)'  PROVE Open(fd[o])'
    <3>1. Closes(p) /\ fd'[o] = fd[p] /\ o # p /\ Open(fd[p]) /\ fd[p] \in Fds
      BY <1>2, <1>4, <2>2 DEF Owned, Closes
    <3>2. ~(Closes(o) /\ fd[p] = fd[o])
      BY <3>1 DEF Owned, Closes
    <3> QED BY <1>2, <3>1, <3>2 DEF Open
  <2> QED BY <2>1, <2>2
<1>6. (\A q, r \in Objects : Closes(q) /\ owns[r] /\ fd[r] = fd[q] => r = q)'
  BY <1>1, <1>2 DEF Owned, Closes
<1>7. ASSUME NEW e \in Fds, Open(e)'
      PROVE  (e \in raw <=> \A q \in Objects : ~(owns[q] /\ fd[q] = e))'
  <2>1. ~(Closes(o) /\ e = fd[o]) /\ Open(e) /\ e # None
    BY <1>2, <1>7, NoneAssumption DEF Open
  <2>2. ~(owns[o] /\ fd[o] = e)
    BY <2>1 DEF Closes
  <2>3. (\A q \in Objects : ~(owns'[q] /\ fd'[q] = e)) <=>
            (\A q \in Objects : ~(owns[q] /\ fd[q] = e))
    BY <1>1, <2>1, <2>2
  <2> QED BY <1>1, <2>1, <2>3 DEF Owned
<1>8. (\A e \in raw : Open(e))'
  <2>1. ASSUME NEW e \in raw  PROVE Open(e)'
    <3>1. e \in Fds /\ Open(e) /\ ~(owns[o] /\ fd[o] = e)
      BY DEF Owned, TypeOK
    <3> QED BY <1>2, <3>1 DEF Open, Closes
  <2> QED BY <1>1, <2>1
<1>9. Behind'
  <2>0. Listeners \subseteq Objects
    BY DEF Objects
  <2>1. ASSUME NEW l \in Listeners, l # o, fd'[l] # None
        PROVE  /\ owns'[l] /\ fd'[l] = fd[l] /\ state'[l] = state[l]
               /\ phase'[fd[l]] = phase[fd[l]]
    <3>1. owns'[l] = owns[l] /\ fd'[l] = fd[l]
      BY <1>1, <2>0, <2>1
    <3>2. state'[l] = state[l]
      BY <2>1 DEF Move, TypeOK
    <3>3. owns[l] /\ phase'[fd[l]] = phase[fd[l]]
      BY <1>1, <2>1, <3>1, OthersKept DEF Behind
    <3> QED BY <3>1, <3>2, <3>3
  <2>2. ASSUME o \in Listeners, fd'[o] # None
        PROVE  /\ p \in Listeners /\ owns'[o] /\ fd'[o] = fd[p] /\ state'[o] = state[p]
               /\ phase'[fd[p]] = phase[fd[p]]
    <3>1. p \in Listeners
      BY <2>2, ObjectsAssumption DEF Move, SameClass
    <3>2. o # p /\ fd'[o] = fd[p] /\ owns'[o] = owns[p]
      BY <1>1, <2>2
    <3>3. state'[o] = state[p]
      BY <2>2 DEF Move, TypeOK
    <3>4. owns[p] /\ phase'[fd[p]] = phase[fd[p]]
      BY <1>1, <2>2, <3>1, <3>2, OthersKept DEF Behind
    <3> QED BY <3>1, <3>2, <3>3, <3>4
  <2> QED BY <2>1, <2>2 DEF Behind
<1> QED BY <1>1, <1>5, <1>6, <1>7, <1>8, <1>9 DEF Owned

(***************************************************************************)
(* The steps that only move a socket on, and those of user code.           *)
(***************************************************************************)
LEMMA GoesKeeps ==
    ASSUME TypeOK, Owned, Behind, NEW o \in Objects, NEW from, NEW to, Goes(o, from, to),
           \/ state' = state /\ "listening" \notin from \ {to} /\ to # "new"
           \/ /\ o \in Listeners /\ \E s : state' = [state EXCEPT ![o] = s]
              /\ \/ state'[o] = Bound /\ to = "bound" /\ from = {"new"}
                 \/ state'[o] = Listening /\ to = "listening"
    PROVE  Owned' /\ Behind'
<1>1. /\ fd' = fd /\ owns' = owns /\ kind' = kind /\ raw' = raw
      /\ fd[o] \in Fds /\ phase[fd[o]] \in from
      /\ phase' = [phase EXCEPT ![fd[o]] = to]
  BY DEF Goes, TypeOK
<1>2. Owned'
  BY <1>1 DEF Owned, Closes, Open
<1>3. ASSUME NEW l \in Listeners, fd'[l] # None
      PROVE  /\ owns'[l]
             /\ state'[l] = Bound => phase'[fd'[l]] # "new"
             /\ state'[l] = Listening => phase'[fd'[l]] = "listening"
  <2>0. fd[l] \in Fds /\ owns[l] /\ phase' \in [Fds -> {"new", "bound", "listening", "connected", to}]
    BY <1>1, <1>3 DEF Behind, TypeOK, Objects
  <2>1. phase'[fd[l]] = IF fd[l] = fd[o] THEN to ELSE phase[fd[l]]
    BY <1>1, <2>0 DEF TypeOK
  <2>2. CASE state' = state /\ "listening" \notin from \ {to} /\ to # "new"
    BY <1>1, <1>3, <2>0, <2>1, <2>2 DEF Behind
  <2>3. CASE /\ o \in Listeners /\ \E s : state' = [state EXCEPT ![o] = s]
             /\ \/ state'[o] = Bound /\ to = "bound" /\ from = {"new"}
                \/ state'[o] = Listening /\ to = "listening"
    <3>1. to # "new" /\ Bound # Listening
      BY <2>3 DEF Bound, Listening
    <3>2. CASE l = o
      BY <1>1, <2>0, <2>1, <2>3, <3>1, <3>2
    <3>3. CASE l # o
      <4>1. state'[l] = state[l]
        BY <2>3, <3>3 DEF TypeOK
      <4>2. fd[l] # fd[o]
        BY <1>1, <2>0, <2>3, <3>3, NoneAssumption DEF Owned, Closes, Behind, Objects
      <4> QED BY <1>1, <1>3, <2>0, <2>1, <4>1, <4>2 DEF Behind
    <3> QED BY <3>2, <3>3
  <2> QED BY <2>2, <2>3
<1> QED BY <1>2, <1>3 DEF Behind

LEMMA UserKeeps ==
    ASSUME TypeOK, Owned, Behind, NEW d \in Fds,
           \/ UserCloses(d)
           \/ \E k \in {"tcp", "udp"}, p \in {"new", "bound", "connected"} : UserOpens(d, k, p)
    PROVE  Owned' /\ Behind'
<1>1. /\ fd' = fd /\ owns' = owns /\ state' = state
      /\ \A e \in Fds \ {d} : /\ kind'[e] = kind[e] /\ phase'[e] = phase[e]
                              /\ e \in raw' <=> e \in raw
      /\ \/ d \in raw /\ kind'[d] = "none" /\ d \notin raw'
         \/ ~Open(d) /\ kind'[d] # "none" /\ d \in raw'
      /\ raw' \subseteq Fds
  BY DEF UserCloses, UserOpens, TypeOK
<1>2. \A q \in Objects : Closes(q) => fd[q] # d /\ fd[q] \in Fds
  BY <1>1, NoneAssumption DEF Owned, Closes, TypeOK
<1>3. \A q \in Objects : ~(owns[q] /\ fd[q] = d)
  BY <1>2, NoneAssumption DEF Closes
<1>4. Owned'
  <2>1. (\A q \in Objects : Closes(q) => Open(fd[q]))'
    BY <1>1, <1>2 DEF Owned, Closes, Open
  <2>2. (\A q, r \in Objects : Closes(q) /\ owns[r] /\ fd[r] = fd[q] => r = q)'
    BY <1>1 DEF Owned, Closes
  <2>3. (\A e \in Fds : Open(e) => (e \in raw <=> \A q \in Objects : ~(owns[q] /\ fd[q] = e)))'
    <3>1. ASSUME NEW e \in Fds, Open(e)'
          PROVE  (e \in raw <=> \A q \in Objects : ~(owns[q] /\ fd[q] = e))'
      BY <1>1, <1>3, <3>1 DEF Owned, Open
    <3> QED BY <3>1
  <2>4. (\A e \in raw : Open(e))'
    BY <1>1 DEF Owned, Open
  <2> QED BY <2>1, <2>2, <2>3, <2>4 DEF Owned
<1>5. Behind'
  <2>1. ASSUME NEW l \in Listeners, fd[l] # None
        PROVE  phase'[fd[l]] = phase[fd[l]]
    <3>1. Closes(l) /\ l \in Objects
      BY <2>1 DEF Behind, Closes, Objects
    <3> QED BY <1>1, <1>2, <3>1
  <2> QED BY <1>1, <2>1 DEF Behind
<1> QED BY <1>4, <1>5

LEMMA CloseKeeps ==
    ASSUME TypeOK, Owned, Behind, NEW o \in Objects, Close(o), clean'
    PROVE  Owned' /\ Behind'
<1>1. /\ fd' = [fd EXCEPT ![o] = None] /\ owns' = [owns EXCEPT ![o] = FALSE]
      /\ raw' = raw /\ state' = state /\ Kernel(o, None, "none", "new")
  BY DEF Close, CloseReturns, NoNewSocket
<1>2. Owned'
  BY <1>1, BecomesOwned
<1>3. ASSUME NEW l \in Listeners, fd'[l] # None
      PROVE  fd'[l] = fd[l] /\ owns'[l] = owns[l] /\ phase'[fd[l]] = phase[fd[l]]
  <2>1. l # o /\ l \in Objects /\ fd'[l] = fd[l] /\ owns'[l] = owns[l]
    BY <1>1, <1>3 DEF Objects, TypeOK
  <2> QED BY <1>1, <1>3, <2>1, OthersKept
<1> QED BY <1>1, <1>2, <1>3 DEF Behind

LEMMA NewKeeps ==
    ASSUME TypeOK, Owned, Behind,
           NEW o \in Objects, NEW d \in Fds \union {None}, NEW own \in BOOLEAN,
           Becomes(o, d, own, Created),
           o \in Listeners => own \/ d = None,
           \/ d = None /\ raw' = raw /\ Kernel(o, None, "none", "new")
           \/ /\ own /\ d \in Fds /\ ~Open(d) /\ raw' = raw
              /\ \E k \in {"tcp", "udp"}, p \in {"new", "connected"} : Kernel(o, d, k, p)
           \/ own /\ d \in raw /\ Open(d) /\ raw' = raw \ {d} /\ Kernel(o, None, "none", "new")
           \/ ~own /\ raw' = raw /\ Kernel(o, None, "none", "new")
    PROVE  Owned' /\ Behind'
<1>1. Owned'
  BY BecomesOwned DEF Becomes
<1>2. Behind'
  BY BecomesBehind
<1> QED BY <1>1, <1>2

LEMMA StepKeeps ==
    ASSUME TypeOK, Owned, Behind, [Next]_vars, clean'
    PROVE  Owned' /\ Behind'
<1> USE DEF NoNewSocket
<1>1. ASSUME NEW o \in Objects, Destroy(o)  PROVE Owned' /\ Behind'
  BY <1>1, NewKeeps DEF Destroy
<1>2. ASSUME NEW o \in Objects, NEW d \in Fds \union {None}, Create(o, d)
      PROVE  Owned' /\ Behind'
  <2>1. KindOf(o) \in {"tcp", "udp"}
    BY DEF KindOf
  <2>2. CASE d = None
    <3>1. Becomes(o, None, TRUE, Created) /\ raw' = raw /\ Kernel(o, None, "none", "new")
      BY <1>2, <2>2, NoneAssumption DEF Create, Kernel
    <3> QED BY <3>1, NewKeeps
  <2>3. CASE d # None
    <3>1. d \in Fds /\ ~Open(d) /\ Becomes(o, d, TRUE, Created) /\ raw' = raw
          /\ \E k \in {"tcp", "udp"}, p \in {"new", "connected"} : Kernel(o, d, k, p)
      BY <1>2, <2>1, <2>3 DEF Create
    <3> QED BY <3>1, NewKeeps
  <2> QED BY <2>2, <2>3
<1>3. ASSUME NEW o \in Objects, NEW d \in Fds, Attach(o, d)  PROVE Owned' /\ Behind'
  <2>1. Becomes(o, d, TRUE, Created) /\ d \in raw /\ Open(d) /\ raw' = raw \ {d}
        /\ Kernel(o, None, "none", "new")
    BY <1>3 DEF Attach, Owned
  <2> QED BY <2>1, NewKeeps
<1>4. ASSUME NEW o \in Objects, NEW d \in Fds, Borrow(o, d)  PROVE Owned' /\ Behind'
  <2>1. Becomes(o, d, FALSE, Created) /\ raw' = raw /\ Kernel(o, None, "none", "new")
        /\ o \notin Listeners
    BY <1>4, ObjectsAssumption DEF Borrow
  <2> QED BY <2>1, NewKeeps
<1>5. ASSUME NEW o \in Objects, NEW d \in Fds,
             ConnectRaw(o, d) \/ \E l \in Objects : Accept(l, o, d)
      PROVE  Owned' /\ Behind'
  <2>1. Becomes(o, d, TRUE, Created) /\ ~Open(d) /\ raw' = raw
        /\ Kernel(o, d, "tcp", "connected")
    BY <1>5 DEF ConnectRaw, Accept
  <2> QED BY <2>1, NewKeeps
<1>6. ASSUME NEW o \in Objects, Bind(o) \/ Listen(o) \/ Connect(o)  PROVE Owned' /\ Behind'
  <2>1. CASE Bind(o)
    BY <2>1, GoesKeeps DEF Bind
  <2>2. CASE Listen(o)
    BY <2>2, GoesKeeps DEF Listen
  <2>3. CASE Connect(o)
    BY <2>3, GoesKeeps DEF Connect
  <2> QED BY <1>6, <2>1, <2>2, <2>3
<1>7. ASSUME NEW l \in Listeners, BindListener(l) \/ ListenListener(l)  PROVE Owned' /\ Behind'
  <2>1. l \in Objects
    BY DEF Objects
  <2>2. CASE BindListener(l)
    BY <2>1, <2>2, GoesKeeps DEF BindListener, TypeOK
  <2>3. CASE ListenListener(l)
    BY <2>1, <2>3, GoesKeeps DEF ListenListener, TypeOK
  <2> QED BY <1>7, <2>2, <2>3
<1>8. CASE UNCHANGED vars
  <2>1. UNCHANGED <<fd, owns, state, kind, phase, raw>>
    BY <1>8 DEF vars, kernelVars
  <2> QED BY <2>1 DEF Owned, Behind, Closes, Open
<1> QED
  BY <1>1, <1>2, <1>3, <1>4, <1>5, <1>6, <1>7, <1>8, CloseKeeps, MoveKeeps, UserKeeps DEF Next

LEMMA StepIInv ==
    ASSUME IInv, [Next]_vars
    PROVE  IInv'
<1>1. TypeOK'
  BY StepTypes DEF IInv
<1>2. ASSUME clean'  PROVE clean
  BY <1>2 DEF Next, vars
<1>3. clean' => Owned' /\ Behind'
  BY <1>2, StepKeeps, Cleanly DEF IInv
<1>4. OwnedOnce' /\ RawOpen'
  BY <1>3 DEF OwnedOnce, RawOpen, Owned, Owners
<1>5. NeverAhead' /\ ListenersOwn'
  BY <1>3 DEF NeverAhead, ListenersOwn, Behind
<1> QED BY <1>1, <1>4, <1>5 DEF IInv

(***************************************************************************)
(* The state of Sockets keeps its types.                                   *)
(***************************************************************************)
THEOREM TypeCorrect == Spec => []TypeOK
<1>1. Init => TypeOK
  BY InitIInv DEF IInv
<1> QED BY <1>1, StepTypes, PTL DEF Spec

THEOREM Invariance == Spec => []IInv
  BY InitIInv, StepIInv, PTL DEF Spec

(***************************************************************************)
(* With any number of objects and descriptors, an open descriptor has      *)
(* exactly one owner until a close(2) fails.                               *)
(***************************************************************************)
THEOREM OneOwner == Spec => []OwnedOnce
<1>1. IInv => OwnedOnce
  BY DEF IInv
<1> QED BY <1>1, Invariance, PTL

(***************************************************************************)
(* A listener's state is never ahead of its socket.                        *)
(***************************************************************************)
THEOREM StateBehindSocket == Spec => []NeverAhead
<1>1. IInv => NeverAhead
  BY DEF IInv
<1> QED BY <1>1, Invariance, PTL
=============================================================================
