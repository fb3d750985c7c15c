--------------------------- MODULE ConnectionProofs ---------------------------
(***************************************************************************)
(* Theorems about Connection, for any number of bytes, any input of the    *)
(* peer, any length of the queue and any high-water mark.                  *)
(***************************************************************************)
EXTENDS Connection, SequenceTheorems, TLAPS

LEMMA Bounds ==
    /\ MaxBytes \in Nat /\ MaxInput \in Nat /\ MaxQueue \in Nat
    /\ WaterMark \in Nat \ {0}
BY BoundsAssumption, WaterMarkAssumption

\* k new bytes are the next k numbers.
LEMMA NewBytesAre ==
    ASSUME accepted \in Nat, NEW k \in Nat
    PROVE  /\ NewBytes(k) \in Seq(Nat)
           /\ Len(NewBytes(k)) = k
           /\ \A i \in 1..k : NewBytes(k)[i] = accepted + i
BY DEF NewBytes

\* Both parts of the new bytes are runs of consecutive numbers.
LEMMA SplitNewBytes ==
    ASSUME accepted \in Nat, NEW k \in Nat, NEW n \in 0..k
    PROVE  /\ SubSeq(NewBytes(k), 1, n) \in Seq(Nat)
           /\ Len(SubSeq(NewBytes(k), 1, n)) = n
           /\ \A i \in 1..n : SubSeq(NewBytes(k), 1, n)[i] = accepted + i
           /\ SubSeq(NewBytes(k), n + 1, k) \in Seq(Nat)
           /\ Len(SubSeq(NewBytes(k), n + 1, k)) = k - n
           /\ \A i \in 1..(k - n) : SubSeq(NewBytes(k), n + 1, k)[i] = accepted + n + i
<1>1. \A i \in 1..k : NewBytes(k)[i] \in Nat /\ NewBytes(k)[i] = accepted + i
  BY DEF NewBytes
<1>2. /\ SubSeq(NewBytes(k), 1, n) \in Seq(Nat)
      /\ Len(SubSeq(NewBytes(k), 1, n)) = IF 1 <= n THEN n - 1 + 1 ELSE 0
      /\ \A i \in 1..(n - 1 + 1) : SubSeq(NewBytes(k), 1, n)[i] = NewBytes(k)[1 + i - 1]
  <2>1. \A i \in 1..n : NewBytes(k)[i] \in Nat
    BY <1>1
  <2>2. QED
    BY <2>1, SubSeqProperties
<1>3. /\ SubSeq(NewBytes(k), n + 1, k) \in Seq(Nat)
      /\ Len(SubSeq(NewBytes(k), n + 1, k)) = IF n + 1 <= k THEN k - (n + 1) + 1 ELSE 0
      /\ \A i \in 1..(k - (n + 1) + 1) :
             SubSeq(NewBytes(k), n + 1, k)[i] = NewBytes(k)[n + 1 + i - 1]
  <2>1. \A i \in (n + 1)..k : i \in 1..k
    OBVIOUS
  <2>2. \A i \in (n + 1)..k : NewBytes(k)[i] \in Nat
    BY <1>1, <2>1
  <2>3. QED
    BY <2>2, SubSeqProperties
<1>4. ASSUME NEW i \in 1..n
      PROVE  SubSeq(NewBytes(k), 1, n)[i] = accepted + i
  <2>1. i \in 1..(n - 1 + 1) /\ 1 + i - 1 = i /\ i \in 1..k
    OBVIOUS
  <2>2. QED
    BY <1>1, <1>2, <2>1
<1>5. ASSUME NEW i \in 1..(k - n)
      PROVE  SubSeq(NewBytes(k), n + 1, k)[i] = accepted + n + i
  <2>1. /\ i \in 1..(k - (n + 1) + 1) /\ n + 1 + i - 1 = n + i /\ n + i \in 1..k
        /\ accepted + (n + i) = accepted + n + i
    OBVIOUS
  <2>2. QED
    BY <1>1, <1>3, <2>1
<1>6. QED
  BY <1>2, <1>3, <1>4, <1>5

\* Two runs of consecutive numbers make one.
LEMMA ConcatConsecutive ==
    ASSUME NEW s \in Seq(Nat), NEW t \in Seq(Nat), NEW base \in Nat,
           \A i \in 1..Len(s) : s[i] = base + i,
           \A i \in 1..Len(t) : t[i] = base + Len(s) + i
    PROVE  /\ Len(s \o t) = Len(s) + Len(t)
           /\ \A i \in 1..Len(s \o t) : (s \o t)[i] = base + i
<1>1. Len(s) \in Nat /\ Len(t) \in Nat
  BY LenProperties
<1>2. /\ Len(s \o t) = Len(s) + Len(t)
      /\ \A i \in 1..Len(s) + Len(t) :
             (s \o t)[i] = IF i <= Len(s) THEN s[i] ELSE t[i - Len(s)]
  BY ConcatProperties
<1>3. ASSUME NEW i \in 1..Len(s) + Len(t)
      PROVE  (s \o t)[i] = base + i
  <2>1. CASE i <= Len(s)
    BY <1>1, <1>2, <2>1
  <2>2. CASE ~(i <= Len(s))
    <3>1. i - Len(s) \in 1..Len(t) /\ base + Len(s) + (i - Len(s)) = base + i
      BY <1>1, <2>2
    <3>2. QED
      BY <1>2, <2>2, <3>1
  <2>3. QED
    BY <2>1, <2>2
<1>4. QED
  BY <1>2, <1>3

\* What writing n bytes of the buffer does to it and to the kernel's side.
LEMMA FlushedIs ==
    ASSUME TypeOK, NEW n \in 0..Len(out), Flushed(n)
    PROVE  /\ out' \in Seq(Nat)
           /\ delivered' \in Seq(Nat)
           /\ Len(out') = Len(out) - n
           /\ Len(delivered') = Len(delivered) + n
           /\ \A i \in 1..Len(out') : out'[i] = out[n + i]
           /\ \A i \in 1..Len(delivered) : delivered'[i] = delivered[i]
           /\ \A i \in 1..n : delivered'[Len(delivered) + i] = out[i]
<1>1. out \in Seq(Nat) /\ delivered \in Seq(Nat) /\ Len(out) \in Nat /\ Len(delivered) \in Nat
  BY LenProperties DEF TypeOK
<1>2. \A i \in 1..Len(out) : out[i] \in Nat
  BY <1>1, ElementOfSeq
<1>3. /\ SubSeq(out, 1, n) \in Seq(Nat)
      /\ Len(SubSeq(out, 1, n)) = n
      /\ \A i \in 1..n : SubSeq(out, 1, n)[i] = out[i]
  <2>1. \A i \in 1..n : out[i] \in Nat
    BY <1>1, <1>2
  <2>2. /\ SubSeq(out, 1, n) \in Seq(Nat)
        /\ Len(SubSeq(out, 1, n)) = IF 1 <= n THEN n - 1 + 1 ELSE 0
        /\ \A i \in 1..(n - 1 + 1) : SubSeq(out, 1, n)[i] = out[1 + i - 1]
    BY <1>1, <2>1, SubSeqProperties
  <2>3. QED
    BY <1>1, <2>2
<1>4. /\ out' \in Seq(Nat)
      /\ Len(out') = Len(out) - n
      /\ \A i \in 1..Len(out') : out'[i] = out[n + i]
  <2>1. \A i \in (n + 1)..Len(out) : out[i] \in Nat
    BY <1>1, <1>2
  <2>2. /\ SubSeq(out, n + 1, Len(out)) \in Seq(Nat)
        /\ Len(SubSeq(out, n + 1, Len(out))) =
               IF n + 1 <= Len(out) THEN Len(out) - (n + 1) + 1 ELSE 0
        /\ \A i \in 1..(Len(out) - (n + 1) + 1) :
               SubSeq(out, n + 1, Len(out))[i] = out[n + 1 + i - 1]
    BY <1>1, <2>1, SubSeqProperties
  <2>3. QED
    BY <1>1, <2>2 DEF Flushed
<1>5. /\ delivered' \in Seq(Nat)
      /\ Len(delivered') = Len(delivered) + n
      /\ \A i \in 1..(Len(delivered) + n) :
             delivered'[i] = IF i <= Len(delivered) THEN delivered[i]
                                                    ELSE SubSeq(out, 1, n)[i - Len(delivered)]
  BY <1>1, <1>3, ConcatProperties DEF Flushed
<1>6. \A i \in 1..n : delivered'[Len(delivered) + i] = out[i]
  <2>1. ASSUME NEW i \in 1..n
        PROVE  /\ Len(delivered) + i \in 1..(Len(delivered) + n)
               /\ ~(Len(delivered) + i <= Len(delivered))
               /\ (Len(delivered) + i) - Len(delivered) = i
    BY <1>1
  <2>2. QED
    BY <1>3, <1>5, <2>1
<1>7. \A i \in 1..Len(delivered) : delivered'[i] = delivered[i]
  BY <1>1, <1>5
<1>8. QED
  BY <1>4, <1>5, <1>6, <1>7

\* What buffering bytes does: they are appended, the queue grows by at most
\* the announcement of the high-water mark.
LEMMA BufferIs ==
    ASSUME TypeOK, NEW bytes \in Seq(Nat), Buffer(bytes)
    PROVE  /\ out' \in Seq(Nat)
           /\ Len(out') = Len(out) + Len(bytes)
           /\ \A i \in 1..Len(out) : out'[i] = out[i]
           /\ \A i \in 1..Len(bytes) : out'[Len(out) + i] = bytes[i]
           /\ queue' = queue \/ queue' = Append(queue, "high")
           /\ warned' \in BOOLEAN
           /\ writing' = TRUE
           /\ Len(out') >= WaterMark => Len(out) >= WaterMark \/ warned'
           /\ warned => warned'
<1>1. out \in Seq(Nat) /\ Len(out) \in Nat /\ Len(bytes) \in Nat
  BY LenProperties DEF TypeOK
<1>2. /\ out \o bytes \in Seq(Nat)
      /\ Len(out \o bytes) = Len(out) + Len(bytes)
      /\ \A i \in 1..(Len(out) + Len(bytes)) :
             (out \o bytes)[i] = IF i <= Len(out) THEN out[i] ELSE bytes[i - Len(out)]
  BY <1>1, ConcatProperties
<1>3. \A i \in 1..Len(bytes) : (out \o bytes)[Len(out) + i] = bytes[i]
  <2>1. ASSUME NEW i \in 1..Len(bytes)
        PROVE  /\ Len(out) + i \in 1..(Len(out) + Len(bytes))
               /\ ~(Len(out) + i <= Len(out))
               /\ (Len(out) + i) - Len(out) = i
    BY <1>1
  <2>2. QED
    BY <1>2, <2>1
<1>4. warned' = (warned \/ Crosses(bytes))
  BY Zenon DEF Buffer
<1>5. warned' \in BOOLEAN
  BY <1>4, Zenon
<1>6. /\ Len(out') >= WaterMark => Len(out) >= WaterMark \/ warned'
      /\ warned => warned'
  <2>1. warned \/ Crosses(bytes) => warned'
    BY <1>4, Zenon
  <2>2. Len(out') >= WaterMark => Len(out) >= WaterMark \/ Crosses(bytes)
    BY <1>1, <1>2, Bounds DEF Buffer, Crosses
  <2>3. QED
    BY <2>1, <2>2
<1>7. QED
  BY <1>1, <1>2, <1>3, <1>5, <1>6 DEF Buffer
-----------------------------------------------------------------------------
(* Type correctness, one step per action.                                  *)

LEMMA InitTypeOK == Init => TypeOK
<1> SUFFICES ASSUME Init
             PROVE  TypeOK
  OBVIOUS
<1>1. <<>> \in Seq(Nat) /\ <<"established">> \in Seq(FunctorNames)
  BY EmptySeq DEF FunctorNames
<1>2. /\ reading \in BOOLEAN /\ writing \in BOOLEAN /\ registered \in BOOLEAN
      /\ owned \in BOOLEAN /\ held \in BOOLEAN /\ warned \in BOOLEAN
  BY Zenon DEF Init
<1>3. QED
  BY <1>1, <1>2, Bounds DEF Init, TypeOK

\* A functor that is queued or called leaves a queue of functors.
LEMMA QueueAppend ==
    ASSUME queue \in Seq(FunctorNames), NEW f \in FunctorNames
    PROVE  /\ Append(queue, f) \in Seq(FunctorNames)
           /\ Len(queue) \in Nat
           /\ Len(Append(queue, f)) = Len(queue) + 1
           /\ \A i \in 1..Len(queue) : Append(queue, f)[i] = queue[i]
           /\ Append(queue, f)[Len(queue) + 1] = f
BY AppendProperties, LenProperties

LEMMA QueueTail ==
    ASSUME queue \in Seq(FunctorNames), queue # <<>>
    PROVE  /\ Head(queue) = queue[1]
           /\ Tail(queue) \in Seq(FunctorNames)
           /\ Len(queue) \in Nat \ {0}
           /\ Len(Tail(queue)) = Len(queue) - 1
           /\ \A i \in 1..Len(Tail(queue)) : Tail(queue)[i] = queue[i + 1]
BY HeadTailProperties, LenProperties, EmptySeq

\* The Boolean part of TypeOK
Flags ==
    /\ reading \in BOOLEAN /\ writing \in BOOLEAN /\ registered \in BOOLEAN
    /\ owned \in BOOLEAN /\ held \in BOOLEAN
    /\ warned \in BOOLEAN

LEMMA NextFlags == TypeOK /\ [Next]_vars => Flags'
<1> SUFFICES ASSUME TypeOK, [Next]_vars
             PROVE  Flags'
  OBVIOUS
<1>0. Flags
  BY DEF TypeOK, Flags
<1> USE DEF Flags, channelVars, refVars, peerVars, outVars
<1>1. CASE RunFunctor
  BY <1>0, <1>1 DEF RunFunctor, ConnectEstablished, CallUser, RunClose, ConnectDestroyed, Pops,
     HandleClose
<1>2. CASE Poll \/ OtherCallback \/ Keep \/ Release \/ DropClient \/ Close \/ PeerStep
  BY <1>0, <1>2 DEF Poll, OtherCallback, Keep, Release, DropClient, Close, PeerStep,
     PeerSends, PeerEnds
<1>3. CASE CloseEvent \/ ErrorEvent \/ ReadEnds \/ ReadData
  BY <1>0, <1>3 DEF CloseEvent, ErrorEvent, ReadEnds, ReadData, HandleGoes, HandleClose
<1>4. CASE NoCloseEvent \/ NoErrorEvent \/ NoReadEvent \/ NoWriteEvent
  BY <1>0, <1>4 DEF NoCloseEvent, NoErrorEvent, NoReadEvent, NoWriteEvent, Skip, HandleGoes
<1>5. CASE WriteAll \/ WritePart \/ WriteFails
  <2>1. PICK n : Flushed(n)
    BY <1>5 DEF WriteAll, WritePart, WriteFails
  <2>2. warned' \in BOOLEAN
    BY <2>1, Zenon DEF Flushed
  <2>3. QED
    BY <1>0, <1>5, <2>2 DEF WriteAll, WritePart, WriteFails, WriteEvent, HandleGoes, HandleClose
<1>6. ASSUME NEW k \in 0..MaxBytes, SendAll(k) \/ SendPacket(k) \/ SendThrows(k)
      PROVE  Flags'
  BY <1>0, <1>6 DEF SendAll, SendPacket, SendThrows, Sends
<1>7. ASSUME NEW k \in 0..MaxBytes, SendPart(k) \/ SendLater(k)
      PROVE  Flags'
  <2>1. PICK bytes : Buffer(bytes)
    BY <1>7 DEF SendPart, SendLater
  <2>2. warned' \in BOOLEAN /\ writing' = TRUE
    BY <2>1, Zenon DEF Buffer
  <2>3. QED
    BY <1>0, <1>7, <2>2 DEF SendPart, SendLater, Sends
<1>8. CASE Shutdown
  BY <1>0, <1>8 DEF Shutdown
<1>9. CASE UNCHANGED vars
  BY <1>0, <1>9 DEF vars
<1>10. CASE EndCallback
  <2>1. owned' \in BOOLEAN
    BY <1>10, Zenon DEF EndCallback
  <2>2. QED
    BY <1>0, <1>10, <2>1 DEF EndCallback
<1>11. QED
  BY <1>1, <1>2, <1>3, <1>4, <1>5, <1>6, <1>7, <1>8, <1>9, <1>10 DEF Next, Handle, UserStep

\* A client that was dropped does not come back.
LEMMA StaysGone == [Next]_vars => owner' = owner \/ owner' = "gone"
<1> SUFFICES ASSUME [Next]_vars
             PROVE  owner' = owner \/ owner' = "gone"
  OBVIOUS
<1> USE DEF refVars
<1>1. CASE RunFunctor \/ Poll
  BY <1>1 DEF RunFunctor, ConnectEstablished, CallUser, RunClose, ConnectDestroyed, Pops, Poll
<1>2. CASE Handle
  BY <1>2 DEF Handle, CloseEvent, NoCloseEvent, ErrorEvent, NoErrorEvent, ReadData, ReadEnds,
     NoReadEvent, WriteAll, WritePart, WriteFails, WriteEvent, NoWriteEvent, Skip, HandleGoes
<1>3. CASE EndCallback \/ PeerStep \/ UNCHANGED vars
  BY <1>3 DEF EndCallback, PeerStep, PeerSends, PeerEnds, vars
<1>4. CASE UserStep
  BY <1>4 DEF UserStep, OtherCallback, Keep, Release, DropClient, SendAll, SendPart, SendLater,
     SendPacket, SendThrows, Sends, Shutdown, Close
<1>5. QED
  BY <1>1, <1>2, <1>3, <1>4 DEF Next

LEMMA NextTypeOK == TypeOK /\ [Next]_vars => TypeOK'
<1> SUFFICES ASSUME TypeOK, [Next]_vars
             PROVE  TypeOK'
  OBVIOUS
<1>f. Flags'
  BY NextFlags
<1>o. owner' \in {"server", "client", "gone"}
  BY StaysGone DEF TypeOK
<1> USE <1>f, <1>o DEF TypeOK, Flags, channelVars, refVars, peerVars, outVars, Callbacks
<1>q. /\ queue \in Seq(FunctorNames)
      /\ {"established", "complete", "high", "close", "destroyed"} \subseteq FunctorNames
  BY DEF FunctorNames
<1>n. accepted \in Nat /\ \A k \in 0..MaxBytes : k \in Nat
  BY Bounds
<1>1. CASE RunFunctor
  <2>1. queue' \in Seq(FunctorNames)
    BY <1>1, <1>q, QueueTail DEF RunFunctor, ConnectEstablished, CallUser, RunClose,
       ConnectDestroyed, Pops
  <2>2. CASE ConnectEstablished
    BY <2>1, <2>2 DEF ConnectEstablished, Pops
  <2>3. CASE CallUser("complete") \/ CallUser("high")
    BY <2>1, <2>3 DEF CallUser, Pops
  <2>4. CASE RunClose
    BY <2>1, <2>4 DEF RunClose, Pops, HandleClose
  <2>5. CASE ConnectDestroyed
    BY <2>1, <2>5 DEF ConnectDestroyed, Pops
  <2>6. QED
    BY <1>1, <2>2, <2>3, <2>4, <2>5 DEF RunFunctor
<1>2. CASE Poll
  <2>1. revents' \subseteq {"in", "out", "err", "hup"}
    BY <1>2 DEF Poll, Possible
  <2>2. QED
    BY <1>2, <2>1 DEF Poll
<1>3. CASE CloseEvent \/ ErrorEvent \/ ReadEnds
  <2>1. /\ state' \in {state, "Disconnected"}
        /\ callback' \in {callback, "disconnect"}
        /\ disconnects' \in Nat
    BY <1>3 DEF CloseEvent, ErrorEvent, ReadEnds, HandleClose
  <2>2. pc' \in {"error", "read", "write"}
    BY <1>3 DEF CloseEvent, ErrorEvent, ReadEnds, HandleGoes
  <2>3. /\ UNCHANGED <<out, queue, peer, inbox, input, accepted, delivered>>
        /\ revents' \in {revents, {}}
    BY <1>3 DEF CloseEvent, ErrorEvent, ReadEnds, HandleGoes
  <2>4. QED
    BY <2>1, <2>2, <2>3
<1>4. CASE NoCloseEvent \/ NoErrorEvent \/ NoReadEvent \/ NoWriteEvent
  <2>1. PICK from, to \in {"loop", "close", "error", "read", "write"} : Skip(from, to)
    BY <1>4 DEF NoCloseEvent, NoErrorEvent, NoReadEvent, NoWriteEvent
  <2>2. /\ UNCHANGED <<callback, state, out, queue, peer, inbox, input, accepted,
                       delivered, disconnects>>
        /\ revents' \in {revents, {}}
    BY <2>1 DEF Skip, HandleGoes
  <2>3. pc' \in {"loop", "close", "error", "read", "write"}
    BY <2>1 DEF Skip, HandleGoes
  <2>4. QED
    BY <2>2, <2>3
<1>5. CASE ReadData
  <2>1. inbox' \in Nat
    BY <1>5 DEF ReadData
  <2>2. QED
    BY <1>5, <2>1 DEF ReadData, HandleGoes
<1>6. CASE WriteAll \/ WritePart \/ WriteFails
  <2>1. Len(out) \in Nat
    BY LenProperties
  <2>2. PICK n \in 0..Len(out) : Flushed(n)
    BY <1>6, <2>1 DEF WriteAll, WritePart, WriteFails
  <2>3. out' \in Seq(Nat) /\ delivered' \in Seq(Nat)
    BY <2>2, FlushedIs
  <2>4. Append(queue, "complete") \in Seq(FunctorNames)
    BY <1>q, QueueAppend
  <2>5. CASE WriteAll
    BY <2>3, <2>4, <2>5 DEF WriteAll, WriteEvent, HandleGoes
  <2>6. CASE WritePart
    BY <2>3, <2>6 DEF WritePart, WriteEvent, HandleGoes
  <2>7. CASE WriteFails
    <3>1. /\ state' \in {state, "Disconnected"}
          /\ callback' \in {callback, "disconnect"}
          /\ disconnects' \in Nat
      BY <2>7 DEF WriteFails, HandleClose
    <3>2. QED
      BY <2>3, <2>7, <3>1 DEF WriteFails, WriteEvent, HandleGoes
  <2>8. QED
    BY <1>6, <2>5, <2>6, <2>7
<1>7. CASE EndCallback
  <2>1. Append(queue, "destroyed") \in Seq(FunctorNames)
    BY <1>q, QueueAppend
  <2>2. QED
    BY <1>7, <2>1 DEF EndCallback
<1>8. CASE OtherCallback \/ Keep \/ Release \/ DropClient
  <2>1. Append(queue, "close") \in Seq(FunctorNames)
    BY <1>q, QueueAppend
  <2>2. CASE OtherCallback \/ Keep \/ Release
    BY <2>2 DEF OtherCallback, Keep, Release
  <2>3. CASE DropClient
    <3>1. queue' \in Seq(FunctorNames)
      BY <1>q, <2>1, <2>3 DEF DropClient
    <3>2. UNCHANGED <<pc, callback, revents, state, out, peer, inbox, input, accepted,
                      delivered, disconnects>>
      BY <2>3 DEF DropClient
    <3>3. QED
      BY <3>1, <3>2
  <2>4. QED
    BY <1>8, <2>2, <2>3
<1>9. ASSUME NEW k \in 0..MaxBytes, SendAll(k)
      PROVE  TypeOK'
  <2>1. delivered \o NewBytes(k) \in Seq(Nat)
    BY <1>n, NewBytesAre, ConcatProperties
  <2>2. Append(queue, "complete") \in Seq(FunctorNames)
    BY <1>q, QueueAppend
  <2>3. QED
    BY <1>9, <2>1, <2>2 DEF SendAll, Sends
<1>10. ASSUME NEW k \in 0..MaxBytes, SendPart(k)
       PROVE  TypeOK'
  <2>1. PICK n \in 1..(k - 1) :
            /\ delivered' = delivered \o SubSeq(NewBytes(k), 1, n)
            /\ Buffer(SubSeq(NewBytes(k), n + 1, k))
    BY <1>10 DEF SendPart
  <2>2. SubSeq(NewBytes(k), 1, n) \in Seq(Nat) /\ SubSeq(NewBytes(k), n + 1, k) \in Seq(Nat)
    <3>1. k \in Nat /\ n \in 0..k
      BY <1>n
    <3>2. QED
      BY <1>n, <3>1, SplitNewBytes
  <2>3. /\ out' \in Seq(Nat)
        /\ queue' = queue \/ queue' = Append(queue, "high")
    BY <2>1, <2>2, BufferIs
  <2>4. delivered' \in Seq(Nat) /\ Append(queue, "high") \in Seq(FunctorNames)
    BY <1>q, <2>1, <2>2, QueueAppend, ConcatProperties
  <2>5. queue' \in Seq(FunctorNames) /\ accepted' \in 0..MaxBytes
    <3>1. accepted' \in 0..MaxBytes
      BY <1>n, <1>10, Bounds DEF SendPart, Sends
    <3>2. QED
      BY <2>3, <2>4, <3>1
  <2>6. UNCHANGED <<pc, callback, revents, state, peer, inbox, input, disconnects>>
    BY <1>10 DEF SendPart, Sends
  <2>7. delivered' \in Seq(Nat)
    BY <1>10, <2>3, <2>4
  <2>8. QED
    BY <1>10, <2>3, <2>4, <2>5, <2>6, <2>7
<1>11. ASSUME NEW k \in 0..MaxBytes, SendLater(k)
       PROVE  TypeOK'
  <2>1. /\ out' \in Seq(Nat)
        /\ queue' = queue \/ queue' = Append(queue, "high")
    BY <1>n, <1>11, NewBytesAre, BufferIs DEF SendLater
  <2>2. Append(queue, "high") \in Seq(FunctorNames)
    BY <1>q, QueueAppend
  <2>3. queue' \in Seq(FunctorNames) /\ accepted' \in 0..MaxBytes
    <3>1. accepted' \in 0..MaxBytes
      BY <1>n, <1>11, Bounds DEF SendLater, Sends
    <3>2. QED
      BY <2>1, <2>2, <3>1
  <2>4. UNCHANGED <<pc, callback, revents, state, peer, inbox, input, disconnects>>
    BY <1>11 DEF SendLater, Sends
  <2>5. delivered' \in Seq(Nat)
    BY <1>11, <2>1, <2>2 DEF SendLater
  <2>6. QED
    BY <1>11, <2>1, <2>2, <2>3, <2>4, <2>5
<1>12. ASSUME NEW k \in 0..MaxBytes, SendPacket(k)
       PROVE  TypeOK'
  <2>1. out \o NewBytes(k) \in Seq(Nat)
    BY <1>n, NewBytesAre, ConcatProperties
  <2>2. QED
    BY <1>12, <2>1 DEF SendPacket, Sends
<1>13. ASSUME NEW k \in 0..MaxBytes, SendThrows(k)
       PROVE  TypeOK'
  <2>1. Append(queue, "high") \in Seq(FunctorNames)
    BY <1>q, QueueAppend
  <2>2. QED
    BY <1>13, <2>1 DEF SendThrows
<1>14. CASE Shutdown
  BY <1>14 DEF Shutdown
<1>15. CASE Close
  <2>1. Append(queue, "close") \in Seq(FunctorNames)
    BY <1>q, QueueAppend
  <2>2. QED
    BY <1>15, <2>1 DEF Close
<1>16. CASE PeerStep
  <2>1. inbox' \in Nat /\ input' \in 0..MaxInput /\ peer' \in {"open", "fin", "reset"}
    BY <1>16, Bounds DEF PeerStep, PeerSends, PeerEnds
  <2>2. /\ UNCHANGED <<pc, callback, revents, state, queue, disconnects>>
        /\ out' = out /\ accepted' = accepted /\ delivered' = delivered
    BY <1>16 DEF PeerStep, PeerSends, PeerEnds
  <2>3. QED
    BY <2>1, <2>2
<1>17. CASE UNCHANGED vars
  BY <1>17 DEF vars
<1>18. QED
  BY <1>1, <1>2, <1>3, <1>4, <1>5, <1>6, <1>7, <1>8, <1>9, <1>10, <1>11, <1>12, <1>13,
     <1>14, <1>15, <1>16, <1>17
     DEF Next, Handle, UserStep

\* Every variable keeps its type in every reachable state.
THEOREM TypeCorrect == Spec => []TypeOK
BY InitTypeOK, NextTypeOK, PTL DEF Spec

-----------------------------------------------------------------------------
(* The bytes.                                                              *)

\* The steps that touch neither the buffer nor the kernel's side.
LEMMA OutUntouched ==
    ASSUME [Next]_vars,
           ~(WriteAll \/ WritePart \/ WriteFails),
           \A k \in 0..MaxBytes : ~(SendAll(k) \/ SendPart(k) \/ SendLater(k) \/ SendPacket(k))
    PROVE  UNCHANGED <<out, accepted, delivered, warned>>
<1> USE DEF outVars
<1>1. CASE RunFunctor
  BY <1>1 DEF RunFunctor, ConnectEstablished, CallUser, RunClose, ConnectDestroyed, Pops
<1>2. CASE \/ Poll \/ EndCallback \/ OtherCallback \/ Keep \/ Release \/ DropClient
           \/ Shutdown \/ Close \/ PeerStep
  BY <1>2 DEF Poll, EndCallback, OtherCallback, Keep, Release, DropClient, Shutdown, Close, PeerStep,
     PeerSends, PeerEnds
<1>3. CASE CloseEvent \/ ErrorEvent \/ ReadEnds \/ ReadData
  BY <1>3 DEF CloseEvent, ErrorEvent, ReadEnds, ReadData, HandleGoes
<1>4. CASE NoCloseEvent \/ NoErrorEvent \/ NoReadEvent \/ NoWriteEvent
  BY <1>4 DEF NoCloseEvent, NoErrorEvent, NoReadEvent, NoWriteEvent, Skip, HandleGoes
<1>5. ASSUME NEW k \in 0..MaxBytes, SendThrows(k)
      PROVE  UNCHANGED <<out, accepted, delivered, warned>>
  BY <1>5 DEF SendThrows
<1>6. CASE UNCHANGED vars
  BY <1>6 DEF vars
<1>7. QED
  BY <1>1, <1>2, <1>3, <1>4, <1>5, <1>6 DEF Next, Handle, UserStep

LEMMA InitBytes == Init => BytesInOrder
BY DEF Init, BytesInOrder

LEMMA NextBytes == TypeOK /\ BytesInOrder /\ [Next]_vars => BytesInOrder'
<1> SUFFICES ASSUME TypeOK, BytesInOrder, [Next]_vars
             PROVE  BytesInOrder'
  OBVIOUS
<1>0. /\ out \in Seq(Nat) /\ delivered \in Seq(Nat)
      /\ Len(out) \in Nat /\ Len(delivered) \in Nat
      /\ accepted \in Nat /\ \A k \in 0..MaxBytes : k \in Nat
  BY LenProperties, Bounds DEF TypeOK
<1>s. Len(delivered) + Len(out) = accepted
  BY DEF BytesInOrder
<1>1. CASE WriteAll \/ WritePart \/ WriteFails
  <2>1. PICK n \in 0..Len(out) : Flushed(n)
    BY <1>0, <1>1 DEF WriteAll, WritePart, WriteFails
  <2>2. /\ Len(out') = Len(out) - n
        /\ Len(delivered') = Len(delivered) + n
        /\ \A i \in 1..Len(out') : out'[i] = out[n + i]
        /\ \A i \in 1..Len(delivered) : delivered'[i] = delivered[i]
        /\ \A i \in 1..n : delivered'[Len(delivered) + i] = out[i]
    BY <2>1, FlushedIs
  <2>3. accepted' = accepted
    BY <1>1 DEF WriteAll, WritePart, WriteFails, WriteEvent, HandleGoes
  <2>4. \A i \in 1..Len(delivered') : delivered'[i] = i
    <3>1. ASSUME NEW i \in 1..Len(delivered'), ~(i <= Len(delivered))
          PROVE  /\ i - Len(delivered) \in 1..n
                 /\ i - Len(delivered) \in 1..Len(out)
                 /\ Len(delivered) + (i - Len(delivered)) = i
      BY <1>0, <2>2, <3>1
    <3>2. ASSUME NEW i \in 1..Len(delivered'), i <= Len(delivered)
          PROVE  delivered'[i] = i
      BY <1>0, <2>2, <3>2 DEF BytesInOrder
    <3>3. ASSUME NEW i \in 1..Len(delivered'), ~(i <= Len(delivered))
          PROVE  delivered'[i] = i
      BY <2>2, <3>1, <3>3 DEF BytesInOrder
    <3>4. QED
      BY <3>2, <3>3
  <2>5. \A i \in 1..Len(out') : out'[i] = Len(delivered') + i
    <3>1. ASSUME NEW i \in 1..Len(out')
          PROVE  n + i \in 1..Len(out) /\ Len(delivered) + (n + i) = Len(delivered') + i
      BY <1>0, <2>2
    <3>2. QED
      BY <2>2, <3>1 DEF BytesInOrder
  <2>6. QED
    <3>1. Len(delivered') + Len(out') = accepted'
      <4>1. Len(delivered') = Len(delivered) + n /\ Len(out') = Len(out) - n
        BY <2>2
      <4>2. (Len(delivered) + n) + (Len(out) - n) = accepted
        BY <1>0, <1>s
      <4>3. QED
        BY <2>3, <4>1, <4>2
    <3>2. QED
      BY <2>4, <2>5, <3>1 DEF BytesInOrder
<1>2. ASSUME NEW k \in 0..MaxBytes, SendAll(k)
      PROVE  BytesInOrder'
  <2>1. /\ out' = out /\ accepted' = accepted + k
        /\ delivered' = delivered \o NewBytes(k)
        /\ Len(out) = 0 /\ Len(delivered) = accepted
    BY <1>0, <1>2 DEF SendAll, Sends, MayWriteDirectly, BytesInOrder
  <2>2. /\ \A i \in 1..Len(delivered) : delivered[i] = 0 + i
        /\ \A i \in 1..Len(NewBytes(k)) : NewBytes(k)[i] = 0 + Len(delivered) + i
    BY <1>0, <2>1, NewBytesAre DEF BytesInOrder
  <2>3. /\ Len(delivered') = accepted + k
        /\ \A i \in 1..Len(delivered') : delivered'[i] = 0 + i
    <3>1. NewBytes(k) \in Seq(Nat) /\ Len(NewBytes(k)) = k /\ 0 \in Nat
      BY <1>0, NewBytesAre
    <3>2. /\ Len(delivered \o NewBytes(k)) = Len(delivered) + Len(NewBytes(k))
          /\ \A i \in 1..Len(delivered \o NewBytes(k)) : (delivered \o NewBytes(k))[i] = 0 + i
      BY <1>0, <2>2, <3>1, ConcatConsecutive
    <3>3. QED
      BY <2>1, <3>1, <3>2
  <2>4. QED
    BY <1>0, <2>1, <2>3 DEF BytesInOrder
<1>3. ASSUME NEW k \in 0..MaxBytes, SendPart(k)
      PROVE  BytesInOrder'
  <2>1. PICK n \in 1..(k - 1) :
            /\ delivered' = delivered \o SubSeq(NewBytes(k), 1, n)
            /\ Buffer(SubSeq(NewBytes(k), n + 1, k))
    BY <1>3 DEF SendPart
  <2>2. accepted' = accepted + k /\ Len(out) = 0 /\ Len(delivered) = accepted
    BY <1>0, <1>3 DEF SendPart, Sends, MayWriteDirectly, BytesInOrder
  <2>3. k \in Nat /\ n \in 0..k
    BY <1>0
  <2> DEFINE first == SubSeq(NewBytes(k), 1, n)
             rest == SubSeq(NewBytes(k), n + 1, k)
  <2>4. /\ first \in Seq(Nat) /\ Len(first) = n
        /\ \A i \in 1..n : first[i] = accepted + i
        /\ rest \in Seq(Nat) /\ Len(rest) = k - n
        /\ \A i \in 1..(k - n) : rest[i] = accepted + n + i
    BY <1>0, <2>3, SplitNewBytes
  <2>5. /\ Len(out') = Len(out) + Len(rest)
        /\ \A i \in 1..Len(rest) : out'[Len(out) + i] = rest[i]
    BY <2>1, <2>4, BufferIs
  <2>6. delivered' = delivered \o first
    BY <2>1
  <2> HIDE DEF first, rest
  <2>7. /\ Len(out') = k - n
        /\ \A i \in 1..(k - n) : out'[i] = accepted + n + i
    <3>1. \A i \in 1..(k - n) : i \in 1..Len(rest) /\ Len(out) + i = i
      BY <2>2, <2>3, <2>4
    <3>2. Len(out') = k - n
      BY <2>2, <2>3, <2>4, <2>5
    <3>3. QED
      BY <2>4, <2>5, <3>1, <3>2
  <2>8. /\ \A i \in 1..Len(delivered) : delivered[i] = 0 + i
        /\ \A i \in 1..Len(first) : first[i] = 0 + Len(delivered) + i
    BY <1>0, <2>2, <2>3, <2>4 DEF BytesInOrder
  <2>9. /\ Len(delivered') = accepted + n
        /\ \A i \in 1..Len(delivered') : delivered'[i] = 0 + i
    <3>1. first \in Seq(Nat) /\ 0 \in Nat
      BY <2>4
    <3>2. /\ Len(delivered \o first) = Len(delivered) + Len(first)
          /\ \A i \in 1..Len(delivered \o first) : (delivered \o first)[i] = 0 + i
      BY <1>0, <2>8, <3>1, ConcatConsecutive
    <3>3. QED
      BY <2>2, <2>4, <2>6, <3>2
  <2>10. QED
    BY <1>0, <2>2, <2>3, <2>7, <2>9 DEF BytesInOrder
<1>4. ASSUME NEW k \in 0..MaxBytes, SendLater(k) \/ SendPacket(k)
      PROVE  BytesInOrder'
  <2>1. /\ delivered' = delivered
        /\ accepted' = accepted + k
        /\ out' = out \o NewBytes(k)
    BY <1>4 DEF SendLater, SendPacket, Sends, Buffer
  <2>2. /\ k \in Nat /\ NewBytes(k) \in Seq(Nat) /\ Len(NewBytes(k)) = k
        /\ \A i \in 1..k : NewBytes(k)[i] = accepted + i
    BY <1>0, NewBytesAre
  <2>3. /\ \A i \in 1..Len(out) : out[i] = Len(delivered) + i
        /\ \A i \in 1..Len(NewBytes(k)) : NewBytes(k)[i] = Len(delivered) + Len(out) + i
    BY <1>0, <2>2 DEF BytesInOrder
  <2>4. /\ Len(out') = Len(out) + k
        /\ \A i \in 1..Len(out') : out'[i] = Len(delivered) + i
    <3>1. /\ Len(out \o NewBytes(k)) = Len(out) + Len(NewBytes(k))
          /\ \A i \in 1..Len(out \o NewBytes(k)) : (out \o NewBytes(k))[i] = Len(delivered) + i
      BY <1>0, <2>2, <2>3, ConcatConsecutive
    <3>2. QED
      BY <2>1, <2>2, <3>1
  <2>5. Len(delivered') + Len(out') = accepted'
    <3>1. Len(delivered') = Len(delivered)
      BY <2>1
    <3>2. Len(out') = Len(out) + k
      BY <2>4
    <3>3. accepted' = accepted + k /\ k \in Nat
      BY <2>1, <2>2
    <3>4. Len(delivered) + (Len(out) + k) = accepted + k
      BY <1>0, <1>s, <3>3
    <3>5. QED
      BY <3>1, <3>2, <3>3, <3>4
  <2>6. QED
    BY <2>1, <2>4, <2>5 DEF BytesInOrder
<1>5. CASE UNCHANGED <<out, accepted, delivered, warned>>
  BY <1>5 DEF BytesInOrder
<1>6. QED
  BY <1>1, <1>2, <1>3, <1>4, <1>5, OutUntouched

\* The kernel gets the bytes in the order of the calls of send().
THEOREM BytesStayInOrder == Spec => []BytesInOrder
<1>1. TypeOK /\ BytesInOrder /\ [Next]_vars => TypeOK' /\ BytesInOrder'
  BY NextTypeOK, NextBytes
<1>2. QED
  BY InitTypeOK, InitBytes, <1>1, PTL DEF Spec

-----------------------------------------------------------------------------
(* What each state of the connection means for the rest.                   *)

Control ==
    /\ InterestMatches
    /\ OneDisconnect
    /\ Phases

\* Only connectEstablished() is called while connecting, and only a closed
\* connection is destroyed.
LEMMA PopHead ==
    ASSUME TypeOK, QueueOrder, NEW functor, Pops(functor)
    PROVE  /\ functor = "established" <=> state = "Connecting"
           /\ functor = "destroyed" => state = "Disconnected"
<1>1. queue[1] = functor /\ 1 \in 1..Len(queue)
  BY QueueTail DEF Pops, TypeOK
<1>2. QED
  BY <1>1 DEF QueueOrder

\* handleClose() on a connection that is not connecting.
LEMMA HandleCloseIs ==
    ASSUME TypeOK, Control, HandleClose, state # "Connecting", callback = "none"
    PROVE  /\ state' = "Disconnected"
           /\ ~reading' /\ ~writing'
           /\ disconnects' = 1
           /\ callback' \in {"none", "disconnect"}
           /\ state # "Disconnected" => callback' = "disconnect"
<1>1. CASE state = "Disconnected"
  BY <1>1 DEF HandleClose, Control, InterestMatches, OneDisconnect
<1>2. CASE state # "Disconnected"
  BY <1>2 DEF HandleClose, Control, OneDisconnect
<1>3. QED
  BY <1>1, <1>2

LEMMA InitControl == Init => Control
BY DEF Init, Control, InterestMatches, OneDisconnect, Phases

LEMMA NextControl == TypeOK /\ Control /\ QueueOrder /\ [Next]_vars => Control'
<1> SUFFICES ASSUME TypeOK, Control, QueueOrder, [Next]_vars
             PROVE  Control'
  OBVIOUS
<1>f. Flags /\ Flags'
  BY NextFlags DEF TypeOK, Flags
<1> USE DEF Control, InterestMatches, OneDisconnect, Phases, channelVars, refVars, peerVars,
        outVars
<1>1. CASE ConnectEstablished
  <2>1. state = "Connecting"
    BY <1>1, PopHead DEF ConnectEstablished
  <2>2. QED
    BY <1>1, <2>1 DEF ConnectEstablished, Pops
<1>2. CASE CallUser("complete") \/ CallUser("high")
  <2>1. state # "Connecting"
    BY <1>2, PopHead DEF CallUser
  <2>2. QED
    BY <1>2, <2>1 DEF CallUser, Pops
<1>3. CASE RunClose
  <2>1. state # "Connecting"
    BY <1>3, PopHead DEF RunClose
  <2>2. QED
    BY <1>3, <2>1, HandleCloseIs DEF RunClose, Pops
<1>4. CASE ConnectDestroyed
  <2>1. state = "Disconnected"
    BY <1>4, PopHead DEF ConnectDestroyed
  <2>2. QED
    BY <1>4, <2>1 DEF ConnectDestroyed, Pops
<1>5. CASE Poll
  BY <1>5 DEF Poll
<1>6. CASE CloseEvent \/ ErrorEvent \/ ReadEnds
  <2>1. HandleClose /\ state # "Connecting" /\ callback = "none"
    BY <1>6 DEF CloseEvent, ErrorEvent, ReadEnds, HandleGoes
  <2>2. QED
    BY <1>6, <2>1, HandleCloseIs DEF CloseEvent, ErrorEvent, ReadEnds, HandleGoes
<1>7. CASE NoCloseEvent \/ NoErrorEvent \/ NoReadEvent \/ NoWriteEvent
  <2>1. PICK from, to : Skip(from, to) /\ from # "loop"
    BY <1>7 DEF NoCloseEvent, NoErrorEvent, NoReadEvent, NoWriteEvent
  <2>2. state # "Connecting" /\ from \in {"close", "error", "read", "write"}
    BY <1>7, <2>1 DEF Skip, HandleGoes, NoCloseEvent, NoErrorEvent, NoReadEvent, NoWriteEvent
  <2>3. QED
    BY <2>1, <2>2 DEF Skip, HandleGoes
<1>8. CASE ReadData
  BY <1>8 DEF ReadData, HandleGoes
<1>9. CASE WriteAll
  <2>1. Len(out) \in Nat /\ Len(out) \in 0..Len(out)
    BY LenProperties DEF TypeOK
  <2>2. Len(out') = 0 /\ out' \in Seq(Nat)
    BY <1>9, <2>1, FlushedIs DEF WriteAll
  <2>3. out' = <<>>
    BY <2>2, EmptySeq
  <2>4. QED
    BY <1>9, <2>3 DEF WriteAll, WriteEvent, HandleGoes
<1>10. CASE WritePart
  BY <1>10 DEF WritePart, WriteEvent, HandleGoes
<1>11. CASE WriteFails
  <2>1. HandleClose /\ state # "Connecting" /\ callback = "none"
    BY <1>11 DEF WriteFails, WriteEvent, HandleGoes
  <2>2. QED
    BY <1>11, <2>1, HandleCloseIs DEF WriteFails, WriteEvent, HandleGoes
<1>12. CASE EndCallback
  <2>1. /\ callback' = "none"
        /\ UNCHANGED <<pc, state, reading, writing, registered, out, disconnects>>
    BY <1>12 DEF EndCallback
  <2>2. state = "Disconnected" \/ owned' = owned
    <3>1. Removes => state = "Disconnected"
      BY DEF Removes
    <3>2. ~Removes => owned' = owned
      BY <1>12 DEF EndCallback, TypeOK
    <3>3. QED
      BY <3>1, <3>2
  <2>3. QED
    BY <2>1, <2>2
<1>13. CASE OtherCallback \/ Keep \/ Release \/ DropClient
  BY <1>13 DEF OtherCallback, Keep, Release, DropClient
<1>14. ASSUME NEW k \in 0..MaxBytes, SendAll(k) \/ SendThrows(k)
       PROVE  Control'
  BY <1>14 DEF SendAll, SendThrows, Sends
<1>15. ASSUME NEW k \in 0..MaxBytes, SendPart(k) \/ SendLater(k) \/ SendPacket(k)
       PROVE  Control'
  <2>1. writing' = TRUE /\ Sends(k)
    BY <1>15 DEF SendPart, SendLater, SendPacket, Buffer
  <2>2. owned' = owned
    BY <2>1 DEF Sends
  <2>3. QED
    BY <2>1, <2>2 DEF Sends
<1>16. CASE Shutdown
  BY <1>16 DEF Shutdown, ShutdownReturns
<1>17. CASE Close
  BY <1>17 DEF Close
<1>18. CASE PeerStep
  BY <1>18 DEF PeerStep, PeerSends, PeerEnds
<1>19. CASE UNCHANGED vars
  BY <1>19 DEF vars
<1>20. QED
  BY <1>1, <1>2, <1>3, <1>4, <1>5, <1>6, <1>7, <1>8, <1>9, <1>10, <1>11, <1>12, <1>13,
     <1>14, <1>15, <1>16, <1>17, <1>18, <1>19
     DEF Next, RunFunctor, Handle, UserStep

-----------------------------------------------------------------------------
(* The order of the queued functors.                                       *)

\* A functor that is appended in the right state keeps the order.
LEMMA OrderAfterAppend ==
    ASSUME TypeOK, QueueOrder, NEW f \in FunctorNames, f # "established",
           queue' = Append(queue, f), state' = state, registered' = registered,
           state # "Connecting",
           \/ state = "Connected" /\ f # "destroyed"
           \/ state = "Disconnected" /\ f = "destroyed"
           \/ f = "close"
    PROVE  QueueOrder'
<1>1. /\ Len(queue) \in Nat
      /\ Len(queue') = Len(queue) + 1
      /\ \A i \in 1..Len(queue) : queue'[i] = queue[i]
      /\ queue'[Len(queue) + 1] = f
  BY QueueAppend DEF TypeOK
<1>2. \A i \in 1..Len(queue') : i \in 1..Len(queue) \/ i = Len(queue) + 1
  BY <1>1
<1>3. \A i \in 1..Len(queue') : queue'[i] # "established"
  BY <1>1, <1>2 DEF QueueOrder
<1>4. ASSUME NEW i \in 1..Len(queue'), queue'[i] = "destroyed"
      PROVE  state = "Disconnected" /\ \A j \in i..Len(queue') : queue'[j] \in Last
  <2>1. state = "Disconnected"
    BY <1>1, <1>2, <1>4 DEF QueueOrder
  <2>2. f \in Last
    BY <2>1 DEF Last
  <2>3. ASSUME NEW j \in i..Len(queue')
        PROVE  queue'[j] \in Last
    <3>1. CASE j = Len(queue) + 1
      BY <1>1, <2>2, <3>1
    <3>2. CASE j # Len(queue) + 1
      <4>1. i \in 1..Len(queue) /\ j \in 1..Len(queue) /\ j \in i..Len(queue)
        BY <1>1, <3>2
      <4>2. queue[i] = "destroyed" /\ queue'[j] = queue[j]
        BY <1>1, <1>4, <4>1
      <4>3. QED
        BY <4>1, <4>2 DEF QueueOrder
    <3>3. QED
      BY <3>1, <3>2
  <2>4. QED
    BY <2>1, <2>3
<1>5. Removed' => \A i \in 1..Len(queue') : queue'[i] \in Last
  <2>1. Removed' => Removed /\ f \in Last
    BY DEF Removed, Last
  <2>2. QED
    BY <1>1, <1>2, <2>1 DEF QueueOrder
<1>6. QED
  BY <1>3, <1>4, <1>5 DEF QueueOrder

\* So does a functor that is popped.
LEMMA OrderAfterPop ==
    ASSUME TypeOK, QueueOrder, queue # <<>>, queue' = Tail(queue),
           state' # "Connecting",
           state = "Disconnected" => state' = "Disconnected",
           Removed' => Removed \/ queue[1] = "destroyed"
    PROVE  QueueOrder'
<1>1. /\ Len(queue) \in Nat \ {0}
      /\ Len(queue') = Len(queue) - 1
      /\ \A i \in 1..Len(queue') : queue'[i] = queue[i + 1]
  BY QueueTail DEF TypeOK
<1>2. \A i \in 1..Len(queue') : i + 1 \in 1..Len(queue) /\ i + 1 # 1 /\ i + 1 \in 1..Len(queue)
  BY <1>1
<1>3. \A i \in 1..Len(queue') : queue'[i] # "established"
  BY <1>1, <1>2 DEF QueueOrder
<1>4. ASSUME NEW i \in 1..Len(queue'), queue'[i] = "destroyed"
      PROVE  state' = "Disconnected" /\ \A j \in i..Len(queue') : queue'[j] \in Last
  <2>1. queue[i + 1] = "destroyed" /\ i + 1 \in 1..Len(queue)
    BY <1>1, <1>2, <1>4
  <2>2. \A j \in i..Len(queue') :
            j \in 1..Len(queue') /\ j + 1 \in (i + 1)..Len(queue)
    BY <1>1
  <2>3. QED
    BY <1>1, <2>1, <2>2 DEF QueueOrder
<1>5. Removed' => \A i \in 1..Len(queue') : queue'[i] \in Last
  <2>1. CASE Removed
    BY <1>1, <1>2, <2>1 DEF QueueOrder
  <2>2. CASE queue[1] = "destroyed"
    <3>1. 1 \in 1..Len(queue) /\ \A i \in 1..Len(queue') : i + 1 \in 1..Len(queue)
      BY <1>1
    <3>2. \A j \in 1..Len(queue) : queue[j] \in Last
      BY <2>2, <3>1 DEF QueueOrder
    <3>3. QED
      BY <1>1, <3>1, <3>2
  <2>3. QED
    BY <2>1, <2>2
<1>6. QED
  BY <1>3, <1>4, <1>5 DEF QueueOrder

\* And a step that leaves the queue alone, as long as it removes nothing.
LEMMA OrderUntouched ==
    ASSUME QueueOrder, queue' = queue, Removed' => Removed,
           state' = state \/ (state # "Connecting" /\ state' = "Disconnected")
    PROVE  QueueOrder'
<1>1. CASE state' = state
  BY <1>1 DEF QueueOrder
<1>2. CASE state # "Connecting" /\ state' = "Disconnected"
  <2>1. \A i \in 1..Len(queue) : queue[i] # "established"
    BY <1>2 DEF QueueOrder
  <2>2. QED
    BY <1>2, <2>1 DEF QueueOrder
<1>3. QED
  BY <1>1, <1>2

LEMMA InitOrder == Init => QueueOrder
BY DEF Init, QueueOrder, Removed

LEMMA NextOrder == TypeOK /\ Control /\ QueueOrder /\ [Next]_vars => QueueOrder'
<1> SUFFICES ASSUME TypeOK, Control, QueueOrder, [Next]_vars
             PROVE  QueueOrder'
  OBVIOUS
<1>0. /\ state # "Connecting" /\ state # "Disconnected" => state = "Connected"
      /\ state = "Connected" => registered
      /\ pc \in {"close", "error", "read", "write"} => registered /\ state # "Connecting"
      /\ writing => state = "Connected"
  BY DEF TypeOK, Control, Phases, InterestMatches
<1>q. {"complete", "high", "close", "destroyed"} \subseteq FunctorNames
  BY DEF FunctorNames
<1> USE DEF channelVars
<1>1. CASE ConnectEstablished
  <2>1. /\ state = "Connecting" /\ queue # <<>> /\ queue' = Tail(queue)
        /\ state' = "Connected"
    BY <1>1, PopHead DEF ConnectEstablished, Pops
  <2>2. QED
    BY <2>1, OrderAfterPop DEF Removed
<1>2. CASE CallUser("complete") \/ CallUser("high")
  <2>1. /\ state # "Connecting" /\ queue # <<>> /\ queue' = Tail(queue)
        /\ state' = state /\ registered' = registered
    BY <1>2, PopHead DEF CallUser, Pops
  <2>2. QED
    BY <2>1, OrderAfterPop DEF Removed
<1>3. CASE RunClose
  <2>1. /\ state # "Connecting" /\ queue # <<>> /\ queue' = Tail(queue)
        /\ state' = "Disconnected" /\ registered' = registered
    BY <1>3, PopHead DEF RunClose, Pops, HandleClose
  <2>2. QED
    BY <1>0, <2>1, OrderAfterPop DEF Removed
<1>4. CASE ConnectDestroyed
  <2>1. /\ state = "Disconnected" /\ queue # <<>> /\ queue' = Tail(queue)
        /\ state' = "Disconnected"
    BY <1>4, PopHead DEF ConnectDestroyed, Pops
  <2>2. queue[1] = "destroyed"
    BY <1>4, QueueTail DEF ConnectDestroyed, Pops, TypeOK
  <2>3. QED
    BY <2>1, <2>2, OrderAfterPop
<1>5. CASE Poll \/ OtherCallback \/ Keep \/ Release \/ PeerStep \/ UNCHANGED vars
  <2>1. queue' = queue /\ state' = state /\ registered' = registered
    BY <1>5 DEF Poll, OtherCallback, Keep, Release, PeerStep, PeerSends, PeerEnds, vars
  <2>2. QED
    BY <2>1, OrderUntouched DEF Removed
<1>6. CASE CloseEvent \/ ErrorEvent \/ ReadEnds \/ WriteFails
  <2>1. /\ queue' = queue /\ state' = "Disconnected" /\ registered' = registered
        /\ pc \in {"close", "error", "read", "write"}
    BY <1>6 DEF CloseEvent, ErrorEvent, ReadEnds, WriteFails, WriteEvent, HandleGoes, HandleClose
  <2>2. QED
    BY <1>0, <2>1, OrderUntouched DEF Removed
<1>7. CASE NoCloseEvent \/ NoErrorEvent \/ NoReadEvent \/ NoWriteEvent
  <2>1. queue' = queue /\ state' = state /\ registered' = registered
    BY <1>7 DEF NoCloseEvent, NoErrorEvent, NoReadEvent, NoWriteEvent, Skip, HandleGoes
  <2>2. QED
    BY <2>1, OrderUntouched DEF Removed
<1>8. CASE ReadData \/ WritePart
  <2>1. queue' = queue /\ state' = state /\ registered' = registered
    BY <1>8 DEF ReadData, WritePart, WriteEvent, HandleGoes
  <2>2. QED
    BY <2>1, OrderUntouched DEF Removed
<1>9. CASE WriteAll
  <2>1. /\ queue' = Append(queue, "complete") /\ state' = state /\ registered' = registered
        /\ state = "Connected"
    BY <1>0, <1>9 DEF WriteAll, WriteEvent, HandleGoes
  <2>2. QED
    BY <1>q, <2>1, OrderAfterAppend
<1>10. CASE EndCallback
  <2>1. state' = state /\ registered' = registered
    BY <1>10 DEF EndCallback
  <2>2. CASE Removes
    <3>1. queue' = Append(queue, "destroyed") /\ state = "Disconnected"
      BY <1>10, <2>2 DEF EndCallback, Removes, Control, Phases
    <3>2. QED
      BY <1>q, <2>1, <3>1, OrderAfterAppend
  <2>3. CASE ~Removes
    <3>1. queue' = queue
      BY <1>10, <2>3 DEF EndCallback
    <3>2. QED
      BY <2>1, <3>1, OrderUntouched DEF Removed
  <2>4. QED
    BY <2>2, <2>3
<1>11. ASSUME NEW k \in 0..MaxBytes,
              SendAll(k) \/ SendPart(k) \/ SendLater(k) \/ SendPacket(k) \/ SendThrows(k)
       PROVE  QueueOrder'
  <2>1. state' = state /\ registered' = registered /\ state = "Connected"
    BY <1>11 DEF SendAll, SendPart, SendLater, SendPacket, SendThrows, Sends
  <2>2. queue' = queue \/ queue' = Append(queue, "complete") \/ queue' = Append(queue, "high")
    BY <1>11 DEF SendAll, SendPart, SendLater, SendPacket, SendThrows, Buffer
  <2>3. CASE queue' = queue
    BY <2>1, <2>3, OrderUntouched DEF Removed
  <2>4. CASE queue' = Append(queue, "complete")
    BY <1>q, <2>1, <2>4, OrderAfterAppend
  <2>5. CASE queue' = Append(queue, "high")
    BY <1>q, <2>1, <2>5, OrderAfterAppend
  <2>6. QED
    BY <2>2, <2>3, <2>4, <2>5
<1>12. CASE Shutdown
  <2>1. queue' = queue /\ state' = state /\ registered' = registered
    BY <1>12 DEF Shutdown, ShutdownReturns
  <2>2. QED
    BY <2>1, OrderUntouched DEF Removed
<1>13. CASE Close
  <2>1. /\ queue' = Append(queue, "close") /\ state' = state /\ registered' = registered
        /\ state # "Connecting"
    BY <1>13 DEF Close
  <2>2. QED
    BY <1>q, <2>1, OrderAfterAppend
<1>14. CASE DropClient
  <2>1. /\ state' = state /\ registered' = registered /\ state # "Connecting"
        /\ queue' = queue \/ queue' = Append(queue, "close")
    BY <1>14 DEF DropClient
  <2>2. CASE queue' = queue
    BY <2>1, <2>2, OrderUntouched DEF Removed
  <2>3. CASE queue' = Append(queue, "close")
    BY <1>q, <2>1, <2>3, OrderAfterAppend
  <2>4. QED
    BY <2>1, <2>2, <2>3
<1>15. QED
  BY <1>1, <1>2, <1>3, <1>4, <1>5, <1>6, <1>7, <1>8, <1>9, <1>10, <1>11, <1>12, <1>13, <1>14
     DEF Next, RunFunctor, Handle, UserStep

-----------------------------------------------------------------------------
(* An open connection that its owner has left is about to be closed, and a *)
(* channel in the poller is open or on its way out.                        *)

LEMMA InitWillBe == Init => WillBeClosed /\ WillBeRemoved
BY DEF Init, WillBeClosed, WillBeRemoved

\* What is queued stays queued while others are appended.
LEMMA StaysQueued ==
    ASSUME TypeOK, NEW f \in FunctorNames, queue' = Append(queue, f),
           NEW g, NEW i \in 1..Len(queue), queue[i] = g
    PROVE  \E j \in 1..Len(queue') : queue'[j] = g
<1>1. /\ Len(queue) \in Nat
      /\ Len(queue') = Len(queue) + 1
      /\ queue'[i] = queue[i]
  BY QueueAppend DEF TypeOK
<1>2. i \in 1..Len(queue')
  BY <1>1
<1>3. QED
  BY <1>1, <1>2

\* And while others are called.
LEMMA StaysUncalled ==
    ASSUME TypeOK, queue # <<>>, queue' = Tail(queue),
           NEW g, queue[1] # g, NEW i \in 1..Len(queue), queue[i] = g
    PROVE  \E j \in 1..Len(queue') : queue'[j] = g
<1>1. /\ Len(queue) \in Nat \ {0}
      /\ Len(queue') = Len(queue) - 1
      /\ \A j \in 1..Len(queue') : queue'[j] = queue[j + 1]
  BY QueueTail DEF TypeOK
<1>2. i # 1
  OBVIOUS
<1>3. i - 1 \in 1..Len(queue') /\ (i - 1) + 1 = i
  BY <1>1, <1>2
<1>4. QED
  BY <1>1, <1>3

LEMMA NextWillBeClosed ==
    TypeOK /\ Control /\ QueueOrder /\ WillBeClosed /\ [Next]_vars => WillBeClosed'
<1> SUFFICES ASSUME TypeOK, Control, QueueOrder, WillBeClosed, [Next]_vars,
                    state' = "Connected"
             PROVE  owned' \/ \E i \in 1..Len(queue') : queue'[i] = "close"
  BY DEF WillBeClosed
<1> USE DEF refVars, channelVars
<1>q. {"complete", "high", "close", "destroyed"} \subseteq FunctorNames
  BY DEF FunctorNames
<1>1. CASE ConnectEstablished
  BY <1>1, PopHead DEF ConnectEstablished, Control, Phases
<1>2. CASE CallUser("complete") \/ CallUser("high")
  <2>1. PICK f \in {"complete", "high"} : Pops(f)
    BY <1>2 DEF CallUser
  <2>2. queue # <<>> /\ queue' = Tail(queue) /\ queue[1] # "close"
    BY <2>1, QueueTail DEF Pops, TypeOK
  <2>3. owned' = owned /\ state = "Connected"
    BY <1>2 DEF CallUser
  <2>4. QED
    BY <2>2, <2>3, StaysUncalled DEF WillBeClosed
<1>3. CASE RunClose
  BY <1>3 DEF RunClose, HandleClose
<1>4. CASE ConnectDestroyed
  BY <1>4, PopHead DEF ConnectDestroyed
<1>5. ASSUME state = "Connected", owned' = owned,
             \/ queue' = queue
             \/ \E f \in FunctorNames : queue' = Append(queue, f)
      PROVE  owned' \/ \E i \in 1..Len(queue') : queue'[i] = "close"
  BY <1>5, StaysQueued DEF WillBeClosed
<1>6. CASE \/ Poll \/ OtherCallback \/ Keep \/ Release \/ PeerStep \/ UNCHANGED vars
           \/ Shutdown \/ Close \/ CloseEvent \/ ErrorEvent \/ ReadEnds \/ WriteFails
  <2>1. state = "Connected" /\ owned' = owned
    BY <1>6 DEF Poll, OtherCallback, Keep, Release, PeerStep, PeerSends, PeerEnds, vars,
       Shutdown, ShutdownReturns, Close, CloseEvent, ErrorEvent, ReadEnds, WriteFails,
       WriteEvent, HandleGoes, HandleClose
  <2>2. queue' = queue \/ queue' = Append(queue, "close")
    BY <1>6 DEF Poll, OtherCallback, Keep, Release, PeerStep, PeerSends, PeerEnds, vars,
       Shutdown, Close, CloseEvent, ErrorEvent, ReadEnds, WriteFails
  <2>3. QED
    BY <1>5, <1>q, <2>1, <2>2
<1>7. CASE \/ NoCloseEvent \/ NoErrorEvent \/ NoReadEvent \/ NoWriteEvent
           \/ ReadData \/ WritePart \/ WriteAll
  <2>1. state = "Connected" /\ owned' = owned
    BY <1>7 DEF NoCloseEvent, NoErrorEvent, NoReadEvent, NoWriteEvent, Skip, HandleGoes,
       ReadData, WritePart, WriteAll, WriteEvent
  <2>2. queue' = queue \/ queue' = Append(queue, "complete")
    BY <1>7 DEF NoCloseEvent, NoErrorEvent, NoReadEvent, NoWriteEvent, Skip, HandleGoes,
       ReadData, WritePart, WriteAll, WriteEvent
  <2>3. QED
    BY <1>5, <1>q, <2>1, <2>2
<1>8. CASE EndCallback
  <2>1. state = "Connected" /\ ~Removes
    BY <1>8 DEF EndCallback, Removes, Control, Phases
  <2>2. queue' = queue /\ owned' = owned
    BY <1>8, <2>1 DEF EndCallback, TypeOK
  <2>3. QED
    BY <1>5, <2>1, <2>2
<1>9. ASSUME NEW k \in 0..MaxBytes,
             SendAll(k) \/ SendPart(k) \/ SendLater(k) \/ SendPacket(k) \/ SendThrows(k)
      PROVE  owned' \/ \E i \in 1..Len(queue') : queue'[i] = "close"
  <2>1. state = "Connected" /\ owned' = owned
    BY <1>9 DEF SendAll, SendPart, SendLater, SendPacket, SendThrows, Sends
  <2>2. queue' = queue \/ queue' = Append(queue, "complete") \/ queue' = Append(queue, "high")
    BY <1>9 DEF SendAll, SendPart, SendLater, SendPacket, SendThrows, Buffer
  <2>3. QED
    BY <1>5, <1>q, <2>1, <2>2
<1>10. CASE DropClient
  <2>1. state = "Connected"
    BY <1>10 DEF DropClient
  <2>2. CASE owned
    <3>1. /\ Len(queue) \in Nat
          /\ Len(queue') = Len(queue) + 1
          /\ queue'[Len(queue) + 1] = "close"
      BY <1>10, <1>q, <2>2, QueueAppend DEF DropClient, TypeOK
    <3>2. Len(queue) + 1 \in 1..Len(queue')
      BY <3>1
    <3>3. QED
      BY <3>1, <3>2
  <2>3. CASE ~owned
    BY <1>10, <2>1, <2>3 DEF DropClient, WillBeClosed
  <2>4. QED
    BY <2>2, <2>3
<1>11. QED
  BY <1>1, <1>2, <1>3, <1>4, <1>6, <1>7, <1>8, <1>9, <1>10
     DEF Next, RunFunctor, Handle, UserStep

LEMMA NextWillBeRemoved ==
    TypeOK /\ Control /\ QueueOrder /\ WillBeRemoved /\ [Next]_vars => WillBeRemoved'
<1> SUFFICES ASSUME TypeOK, Control, QueueOrder, WillBeRemoved, [Next]_vars, registered'
             PROVE  \/ state' = "Connected"
                    \/ callback' = "disconnect"
                    \/ owner' = "gone"
                    \/ \E i \in 1..Len(queue') : queue'[i] = "destroyed"
  BY DEF WillBeRemoved
<1> USE DEF channelVars
<1>q. {"complete", "high", "close", "destroyed"} \subseteq FunctorNames
  BY DEF FunctorNames
<1>0. state # "Connecting" => state = "Connected" \/ state = "Disconnected"
  BY DEF TypeOK, Control, Phases
<1>1. CASE ConnectEstablished
  BY <1>1 DEF ConnectEstablished
<1>2. CASE CallUser("complete") \/ CallUser("high") \/ RunClose
  <2>1. PICK f \in {"complete", "high", "close"} : Pops(f)
    BY <1>2 DEF CallUser, RunClose
  <2>2. /\ callback = "none" /\ state # "Connecting" /\ queue[1] = f
        /\ Len(queue) \in Nat \ {0}
        /\ Len(queue') = Len(queue) - 1
        /\ \A i \in 1..Len(queue') : queue'[i] = queue[i + 1]
    BY <2>1, PopHead, QueueTail DEF Pops, TypeOK
  <2>3. registered
    BY <1>2 DEF CallUser, RunClose
  <2>4. CASE state = "Connected"
    BY <1>2, <2>2, <2>4 DEF CallUser, RunClose, HandleClose
  <2>5. CASE \E i \in 1..Len(queue) : queue[i] = "destroyed"
    <3>1. queue # <<>> /\ queue' = Tail(queue) /\ queue[1] # "destroyed"
      BY <2>1, <2>2 DEF Pops
    <3>2. QED
      BY <2>5, <3>1, StaysUncalled
  <2>6. QED
    BY <2>2, <2>3, <2>4, <2>5, StaysGone DEF WillBeRemoved
<1>3. CASE ConnectDestroyed
  BY <1>3 DEF ConnectDestroyed
<1>4. CASE EndCallback /\ Removes
  <2>1. /\ Len(queue) \in Nat
        /\ Len(queue') = Len(queue) + 1
        /\ queue'[Len(queue) + 1] = "destroyed"
    BY <1>4, <1>q, QueueAppend DEF EndCallback, TypeOK
  <2>2. Len(queue) + 1 \in 1..Len(queue')
    BY <2>1
  <2>3. QED
    BY <2>1, <2>2
<1>5. CASE CloseEvent \/ ErrorEvent \/ ReadEnds \/ WriteFails
  <2>1. HandleClose /\ state # "Connecting" /\ callback = "none" /\ queue' = queue
        /\ registered
    BY <1>5 DEF CloseEvent, ErrorEvent, ReadEnds, WriteFails, WriteEvent, HandleGoes, Control,
       Phases
  <2>2. QED
    BY <2>1, StaysGone DEF HandleClose, WillBeRemoved
<1>6. ASSUME registered, state' = state,
             callback # "disconnect" \/ callback' = callback \/ owner' = "gone",
             \/ queue' = queue
             \/ \E f \in FunctorNames : queue' = Append(queue, f)
      PROVE  \/ state' = "Connected"
             \/ callback' = "disconnect"
             \/ owner' = "gone"
             \/ \E i \in 1..Len(queue') : queue'[i] = "destroyed"
  BY <1>6, StaysQueued, StaysGone DEF WillBeRemoved
<1>7. CASE \/ Poll \/ OtherCallback \/ Keep \/ Release \/ PeerStep \/ UNCHANGED vars
           \/ Shutdown \/ Close \/ DropClient \/ (EndCallback /\ ~Removes)
  <2>1. /\ registered /\ state' = state
        /\ callback # "disconnect" \/ callback' = callback \/ owner' = "gone"
    BY <1>7, StaysGone DEF Poll, OtherCallback, Keep, Release, PeerStep, PeerSends, PeerEnds, vars,
       Shutdown, ShutdownReturns, Close, DropClient, EndCallback, Removes
  <2>2. queue' = queue \/ queue' = Append(queue, "close")
    BY <1>7 DEF Poll, OtherCallback, Keep, Release, PeerStep, PeerSends, PeerEnds, vars,
       Shutdown, Close, DropClient, EndCallback
  <2>3. QED
    BY <1>6, <1>q, <2>1, <2>2
<1>8. CASE \/ NoCloseEvent \/ NoErrorEvent \/ NoReadEvent \/ NoWriteEvent
           \/ ReadData \/ WritePart \/ WriteAll
  <2>1. registered /\ state' = state /\ callback = "none"
    BY <1>8 DEF NoCloseEvent, NoErrorEvent, NoReadEvent, NoWriteEvent, Skip, HandleGoes,
       ReadData, WritePart, WriteAll, WriteEvent
  <2>2. queue' = queue \/ queue' = Append(queue, "complete")
    BY <1>8 DEF NoCloseEvent, NoErrorEvent, NoReadEvent, NoWriteEvent, Skip, HandleGoes,
       ReadData, WritePart, WriteAll, WriteEvent
  <2>3. QED
    BY <1>6, <1>q, <2>1, <2>2
<1>9. ASSUME NEW k \in 0..MaxBytes,
             SendAll(k) \/ SendPart(k) \/ SendLater(k) \/ SendPacket(k) \/ SendThrows(k)
      PROVE  state' = "Connected"
  BY <1>9 DEF SendAll, SendPart, SendLater, SendPacket, SendThrows, Sends
<1>10. QED
  BY <1>1, <1>2, <1>3, <1>4, <1>5, <1>7, <1>8, <1>9
     DEF Next, RunFunctor, Handle, UserStep

-----------------------------------------------------------------------------
(* The high-water mark.                                                    *)

LEMMA InitHighWater == Init => HighWaterAnnounced
BY Bounds DEF Init, HighWaterAnnounced

LEMMA NextHighWater ==
    ASSUME TypeOK, HighWaterAnnounced, [Next]_vars
    PROVE  HighWaterAnnounced'
<1>0. Len(out) \in Nat /\ WaterMark \in Nat \ {0} /\ \A k \in 0..MaxBytes : k \in Nat
  BY LenProperties, Bounds DEF TypeOK
<1>1. CASE WriteAll \/ WritePart \/ WriteFails
  <2>1. PICK n \in 0..Len(out) : Flushed(n)
    BY <1>0, <1>1 DEF WriteAll, WritePart, WriteFails
  <2>2. Len(out') = Len(out) - n
    BY <2>1, FlushedIs
  <2>3. warned /\ Len(out) - n >= WaterMark => warned'
    BY <2>1, Zenon DEF Flushed
  <2>4. Len(out') >= WaterMark => Len(out) >= WaterMark /\ Len(out) - n >= WaterMark
    BY <1>0, <2>2
  <2>5. QED
    BY <2>3, <2>4 DEF HighWaterAnnounced
<1>2. ASSUME NEW k \in 0..MaxBytes, SendAll(k)
      PROVE  HighWaterAnnounced'
  BY <1>2 DEF SendAll, HighWaterAnnounced
<1>3. ASSUME NEW k \in 0..MaxBytes, SendPart(k) \/ SendLater(k)
      PROVE  HighWaterAnnounced'
  <2>1. PICK bytes \in Seq(Nat) : Buffer(bytes)
    <3>1. CASE SendLater(k)
      BY <1>0, <3>1, NewBytesAre DEF SendLater, TypeOK
    <3>2. CASE SendPart(k)
      <4>1. PICK n \in 1..(k - 1) : Buffer(SubSeq(NewBytes(k), n + 1, k))
        BY <3>2 DEF SendPart
      <4>2. k \in Nat /\ n \in 0..k /\ accepted \in Nat
        BY <1>0 DEF TypeOK
      <4>3. QED
        BY <4>1, <4>2, SplitNewBytes
    <3>3. QED
      BY <1>3, <3>1, <3>2
  <2>2. /\ Len(out') >= WaterMark => Len(out) >= WaterMark \/ warned'
        /\ warned => warned'
    BY <2>1, BufferIs
  <2>3. QED
    BY <2>2 DEF HighWaterAnnounced
<1>4. CASE UNCHANGED <<out, accepted, delivered, warned>>
  BY <1>4 DEF HighWaterAnnounced
<1>5. ASSUME NEW k \in 0..MaxBytes, SendPacket(k)
      PROVE  HighWaterAnnounced'
  <2>1. /\ out' = out \o NewBytes(k) /\ NewBytes(k) \in Seq(Nat)
        /\ Crosses(NewBytes(k)) \/ warned => warned'
    BY <1>0, <1>5, NewBytesAre DEF SendPacket, TypeOK
  <2>2. Len(out') = Len(out) + Len(NewBytes(k))
    BY <2>1, ConcatProperties DEF TypeOK
  <2>3. QED
    BY <1>0, <2>1, <2>2 DEF Crosses, HighWaterAnnounced
<1>6. QED
  BY <1>1, <1>2, <1>3, <1>4, <1>5, OutUntouched

-----------------------------------------------------------------------------
(* The invariant, and what follows from it.                                *)

\* The strengthened invariant holds in every reachable state.
THEOREM Invariance == Spec => []IInv
<1>1. Init => IInv
  BY InitTypeOK, InitBytes, InitControl, InitOrder, InitWillBe, InitHighWater
     DEF IInv, Control
<1>2. IInv /\ [Next]_vars => IInv'
  <2> SUFFICES ASSUME IInv, [Next]_vars
               PROVE  IInv'
    OBVIOUS
  <2>1. TypeOK /\ BytesInOrder /\ Control /\ QueueOrder /\ WillBeClosed /\ WillBeRemoved
    BY DEF IInv, Control
  <2>2. /\ TypeOK' /\ BytesInOrder' /\ Control' /\ QueueOrder'
        /\ WillBeClosed' /\ WillBeRemoved'
    BY <2>1, NextTypeOK, NextBytes, NextControl, NextOrder, NextWillBeClosed, NextWillBeRemoved
  <2>3. HighWaterAnnounced'
    BY <2>1, NextHighWater DEF IInv
  <2>4. QED
    BY <2>2, <2>3 DEF IInv, Control
<1>3. QED
  BY <1>1, <1>2, PTL DEF Spec

\* The open connection waits for the socket while something is buffered, the
\* closed one waits for nothing.
THEOREM InterestStaysMatched == Spec => []InterestMatches
<1>1. IInv => InterestMatches
  BY DEF IInv
<1>2. QED
  BY <1>1, Invariance, PTL

\* However the connection ends, its disconnect callback is called once.
THEOREM DisconnectedOnce == Spec => []OneDisconnect
<1>1. IInv => OneDisconnect
  BY DEF IInv
<1>2. QED
  BY <1>1, Invariance, PTL

\* The poller never holds the address of a channel that may be freed, unless
\* the client was dropped and the connection is closed.
THEOREM PointersStayAlive == Spec => []PointerAlive
<1>1. IInv => PointerAlive
  <2> SUFFICES ASSUME IInv, registered \/ pc = "close", ~(owner = "gone" /\ state = "Disconnected")
               PROVE  Alive
    BY DEF PointerAlive
  <2>1. registered
    BY DEF IInv, Phases
  <2>2. CASE state = "Connected"
    BY <2>2 DEF IInv, WillBeClosed, Alive
  <2>3. CASE callback = "disconnect"
    BY <2>3 DEF Alive, Callbacks
  <2>4. CASE \E i \in 1..Len(queue) : queue[i] = "destroyed"
    <3>1. queue # <<>>
      BY <2>4
    <3>2. QED
      BY <3>1 DEF Alive
  <2>5. CASE owner = "gone"
    <3>1. state = "Connected"
      BY <2>1, <2>5 DEF IInv, TypeOK, Phases
    <3>2. QED
      BY <2>2, <3>1
  <2>6. QED
    BY <2>1, <2>2, <2>3, <2>4, <2>5 DEF IInv, WillBeRemoved
<1>2. QED
  BY <1>1, Invariance, PTL

\* Every buffer at or beyond the high-water mark was announced, unless it was
\* a PacketBuffer that carried it there.
THEOREM HighWaterIsAnnounced == Spec => []HighWaterAnnounced
<1>1. IInv => HighWaterAnnounced
  BY DEF IInv
<1>2. QED
  BY <1>1, Invariance, PTL

\* No callback of the user is called once connectDestroyed() has run.
THEOREM SilentAfterRemoval == Spec => NothingAfterRemoval
<1>1. IInv /\ [Next]_vars =>
          [Removed => callback' \notin Callbacks \/ callback' = callback]_vars
  <2> SUFFICES ASSUME IInv, [Next]_vars, Removed
               PROVE  callback' \notin Callbacks \/ callback' = callback
    OBVIOUS
  <2>1. TypeOK /\ QueueOrder /\ state = "Disconnected" /\ ~registered
    BY DEF IInv, Removed
  <2>2. pc \notin {"close", "error", "read", "write"}
    BY <2>1 DEF IInv, Phases
  <2>3. ASSUME NEW f, Pops(f)
        PROVE  f \in Last
    <3>1. queue[1] = f /\ 1 \in 1..Len(queue)
      BY <2>1, <2>3, QueueTail DEF Pops, TypeOK
    <3>2. QED
      BY <2>1, <3>1 DEF QueueOrder
  <2>4. CASE RunFunctor
    <3>1. ~Pops("established") /\ ~Pops("complete") /\ ~Pops("high")
      BY <2>3 DEF Last
    <3>2. CASE RunClose
      BY <2>1, <3>2 DEF RunClose, HandleClose
    <3>3. CASE ConnectDestroyed
      BY <2>1, <3>3 DEF ConnectDestroyed
    <3>4. QED
      BY <2>4, <3>1, <3>2, <3>3 DEF RunFunctor, ConnectEstablished, CallUser
  <2>5. CASE Poll
    BY <2>5 DEF Poll
  <2>6. CASE Handle
    BY <2>2, <2>6 DEF Handle, CloseEvent, NoCloseEvent, ErrorEvent, NoErrorEvent, ReadData,
       ReadEnds, NoReadEvent, WriteAll, WritePart, WriteFails, WriteEvent, NoWriteEvent, Skip,
       HandleGoes
  <2>7. CASE EndCallback
    BY <2>7 DEF EndCallback, Callbacks
  <2>8. CASE UserStep
    <3>1. CASE OtherCallback \/ Keep \/ Release \/ DropClient \/ Shutdown \/ Close
      BY <3>1 DEF OtherCallback, Keep, Release, DropClient, Shutdown, Close, Callbacks
    <3>2. ASSUME NEW k \in 0..MaxBytes,
                 SendAll(k) \/ SendPart(k) \/ SendLater(k) \/ SendPacket(k) \/ SendThrows(k)
          PROVE  FALSE
      BY <2>1, <3>2 DEF SendAll, SendPart, SendLater, SendPacket, SendThrows, Sends
    <3>3. QED
      BY <2>8, <3>1, <3>2 DEF UserStep
  <2>9. CASE PeerStep
    BY <2>9 DEF PeerStep, PeerSends, PeerEnds
  <2>10. CASE UNCHANGED vars
    BY <2>10 DEF vars
  <2>11. QED
    BY <2>4, <2>5, <2>6, <2>7, <2>8, <2>9, <2>10 DEF Next
<1>2. QED
  BY <1>1, Invariance, PTL DEF Spec, NothingAfterRemoval
=============================================================================
