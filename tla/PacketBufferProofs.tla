--------------------------- MODULE PacketBufferProofs ---------------------------
(***************************************************************************)
(* Proofs about PacketBuffer: its types, the order of its indices, and     *)
(* that it implements ByteQueue, for every size of header, body and chunk. *)
(***************************************************************************)
EXTENDS PacketBuffer, SequenceTheorems, TLAPS

(***************************************************************************)
(* Sequences of bytes.                                                     *)
(***************************************************************************)
LEMMA ByteNat == Byte \subseteq Nat /\ 0 \in Byte
  BY SizesAssumption, MaxBytesAssumption DEF Byte

LEMMA Mapped ==
    ASSUME NEW n \in Nat, NEW f \in [1..n -> Byte]
    PROVE  f \in Seq(Byte) /\ Len(f) = n /\ DOMAIN f = 1..n
  BY SeqDef

LEMMA SubLen ==
    ASSUME NEW s \in Seq(Byte), NEW m \in Nat, NEW n \in Nat, m <= n, n <= Len(s)
    PROVE  /\ SubSeq(s, m + 1, n) \in Seq(Byte)
           /\ Len(SubSeq(s, m + 1, n)) = n - m
           /\ \A i \in 1..(n - m) : SubSeq(s, m + 1, n)[i] = s[m + i]
<1>1. \A i \in (m + 1)..n : s[i] \in Byte
  BY ElementOfSeq
<1>2. /\ SubSeq(s, m + 1, n) \in Seq(Byte)
      /\ Len(SubSeq(s, m + 1, n)) = IF m + 1 <= n THEN n - (m + 1) + 1 ELSE 0
      /\ \A i \in 1..(n - (m + 1) + 1) : SubSeq(s, m + 1, n)[i] = s[m + 1 + i - 1]
  BY <1>1, SubSeqProperties
<1> QED BY <1>2

LEMMA StoredSeq ==
    ASSUME NEW b \in Seq(Byte), NEW w \in Nat, NEW bytes \in Seq(Byte),
           w + Len(bytes) <= Len(b)
    PROVE  /\ Stored(b, w, bytes) \in Seq(Byte)
           /\ Len(Stored(b, w, bytes)) = Len(b)
           /\ \A i \in 1..Len(b) :
                  Stored(b, w, bytes)[i] =
                      IF w < i /\ i <= w + Len(bytes) THEN bytes[i - w] ELSE b[i]
<1>1. Len(b) \in Nat /\ Len(bytes) \in Nat
  BY LenProperties
<1>2. ASSUME NEW i \in 1..Len(b)
      PROVE  (IF w < i /\ i <= w + Len(bytes) THEN bytes[i - w] ELSE b[i]) \in Byte
  <2>1. CASE w < i /\ i <= w + Len(bytes)
    <3>1. i - w \in 1..Len(bytes)
      BY <1>1, <2>1
    <3> QED BY <2>1, <3>1, ElementOfSeq
  <2>2. CASE ~(w < i /\ i <= w + Len(bytes))
    BY <2>2, ElementOfSeq
  <2> QED BY <2>1, <2>2
<1>3. Stored(b, w, bytes) \in [1..Len(b) -> Byte]
  BY <1>2 DEF Stored
<1>4. Stored(b, w, bytes) \in Seq(Byte) /\ Len(Stored(b, w, bytes)) = Len(b)
  BY <1>1, <1>3, Mapped
<1> QED BY <1>4 DEF Stored

LEMMA ReverseSeq ==
    ASSUME NEW s \in Seq(Byte)
    PROVE  Reverse(s) \in Seq(Byte) /\ Len(Reverse(s)) = Len(s)
<1>1. Len(s) \in Nat
  BY LenProperties
<1>2. \A i \in 1..Len(s) : s[(Len(s) - i) + 1] \in Byte
  BY <1>1, ElementOfSeq
<1>3. Reverse(s) \in [1..Len(s) -> Byte]
  BY <1>2 DEF Reverse
<1> QED BY <1>1, <1>3, Mapped

LEMMA ZerosSeq ==
    ASSUME NEW n \in Nat
    PROVE  Zeros(n) \in Seq(Byte) /\ Len(Zeros(n)) = n
<1>1. Zeros(n) \in [1..n -> Byte]
  BY ByteNat DEF Zeros
<1> QED BY <1>1, Mapped

(***************************************************************************)
(* What is stored is appended to what can be read, whether the vector has  *)
(* room, grows or is compacted.                                            *)
(***************************************************************************)
Room(len) ==
    IF Fits(len) THEN WritableSize
    ELSE IF Grows(len) THEN len
    ELSE Len(buf) - HeaderSize - ReadableSize

Appended(bytes) ==
    /\ buf' \in Seq(Byte) /\ rIndex' \in Nat /\ wIndex' \in Nat
    /\ IndicesInOrder'
    /\ Readable' = Readable \o bytes
    /\ Header' = Header

LEMMA AtTheEnd ==
    ASSUME TypeOK, IndicesInOrder, NEW bytes \in Seq(Byte), NEW b \in Seq(Byte),
           Len(b) >= wIndex + Len(bytes),
           \A i \in 1..wIndex : b[i] = buf[i],
           buf' = Stored(b, wIndex, bytes),
           wIndex' = wIndex + Len(bytes), rIndex' = rIndex
    PROVE  Appended(bytes)
<1>0. /\ HeaderSize \in Nat /\ rIndex \in Nat /\ wIndex \in Nat /\ buf \in Seq(Byte)
      /\ HeaderSize <= rIndex /\ rIndex <= wIndex /\ wIndex <= Len(buf)
      /\ Len(bytes) \in Nat /\ Len(b) \in Nat /\ Len(buf) \in Nat
  BY SizesAssumption, LenProperties DEF TypeOK, IndicesInOrder
<1>1. /\ buf' \in Seq(Byte) /\ Len(buf') = Len(b)
      /\ \A i \in 1..Len(b) : buf'[i] = IF wIndex < i /\ i <= wIndex + Len(bytes)
                                          THEN bytes[i - wIndex] ELSE b[i]
  BY <1>0, StoredSeq
<1>2. rIndex' \in Nat /\ wIndex' \in Nat /\ IndicesInOrder'
  BY <1>0, <1>1 DEF IndicesInOrder
<1>3. /\ Readable \in Seq(Byte) /\ Len(Readable) = wIndex - rIndex
      /\ \A i \in 1..(wIndex - rIndex) : Readable[i] = buf[rIndex + i]
  BY <1>0, SubLen DEF Readable
<1>4. /\ Readable' \in Seq(Byte) /\ Len(Readable') = wIndex + Len(bytes) - rIndex
      /\ \A i \in 1..(wIndex + Len(bytes) - rIndex) : Readable'[i] = buf'[rIndex + i]
  <2>1. wIndex + Len(bytes) \in Nat /\ rIndex <= wIndex + Len(bytes)
    BY <1>0
  <2>2. Readable' = SubSeq(buf', rIndex + 1, wIndex + Len(bytes))
    BY DEF Readable
  <2> HIDE DEF Readable
  <2> QED BY <1>0, <1>1, <2>1, <2>2, SubLen
<1>5. /\ Readable \o bytes \in Seq(Byte)
      /\ Len(Readable \o bytes) = Len(Readable) + Len(bytes)
      /\ \A i \in 1..(Len(Readable) + Len(bytes)) :
             (Readable \o bytes)[i] = IF i <= Len(Readable) THEN Readable[i]
                                      ELSE bytes[i - Len(Readable)]
  BY <1>3, ConcatProperties
<1>6. Readable' = Readable \o bytes
  <2>1. ASSUME NEW i \in 1..Len(Readable')  PROVE Readable'[i] = (Readable \o bytes)[i]
    <3>1. rIndex + i \in 1..Len(b) /\ Readable'[i] = buf'[rIndex + i]
      BY <1>0, <1>4
    <3>2. CASE i <= wIndex - rIndex
      BY <1>0, <1>1, <1>3, <1>5, <3>1, <3>2
    <3>3. CASE ~(i <= wIndex - rIndex)
      <4>1. wIndex < rIndex + i /\ rIndex + i <= wIndex + Len(bytes)
            /\ rIndex + i - wIndex = i - Len(Readable)
        BY <1>0, <1>3, <1>4, <3>3
      <4> QED BY <1>0, <1>1, <1>3, <1>4, <1>5, <3>1, <3>3, <4>1
    <3> QED BY <3>2, <3>3
  <2>2. Len(Readable') = Len(Readable \o bytes)
    BY <1>0, <1>3, <1>4, <1>5
  <2> HIDE DEF Readable
  <2> QED BY <1>4, <1>5, <2>1, <2>2, SeqEqual
<1>7. Header' = Header
  <2>1. /\ Header \in Seq(Byte) /\ Len(Header) = HeaderSize
        /\ \A i \in 1..HeaderSize : Header[i] = buf[0 + i]
    BY <1>0, SubLen DEF Header
  <2>2. /\ Header' \in Seq(Byte) /\ Len(Header') = HeaderSize
        /\ \A i \in 1..HeaderSize : Header'[i] = buf'[0 + i]
    BY <1>0, <1>1, SubLen DEF Header
  <2>3. ASSUME NEW i \in 1..HeaderSize  PROVE Header'[i] = Header[i]
    <3>1. i \in 1..wIndex /\ i \in 1..Len(b) /\ ~(wIndex < i) /\ 0 + i = i
      BY <1>0
    <3>2. buf'[i] = b[i] /\ b[i] = buf[i]
      BY <1>1, <3>1
    <3> HIDE DEF Header
    <3> QED BY <2>1, <2>2, <3>1, <3>2
  <2> QED BY <2>1, <2>2, <2>3, SeqEqual
<1> QED BY <1>1, <1>2, <1>6, <1>7 DEF Appended

LEMMA AtTheStart ==
    ASSUME TypeOK, IndicesInOrder, NEW bytes \in Seq(Byte),
           Len(buf) >= HeaderSize + ReadableSize + Len(bytes),
           buf' = Stored(Stored(buf, HeaderSize, Readable), HeaderSize + ReadableSize, bytes),
           rIndex' = HeaderSize,
           wIndex' = HeaderSize + ReadableSize + Len(bytes)
    PROVE  Appended(bytes)
<1> DEFINE b == Stored(buf, HeaderSize, Readable)
           w == HeaderSize + ReadableSize
<1>0. /\ HeaderSize \in Nat /\ rIndex \in Nat /\ wIndex \in Nat /\ buf \in Seq(Byte)
      /\ HeaderSize <= rIndex /\ rIndex <= wIndex /\ wIndex <= Len(buf)
      /\ Len(bytes) \in Nat /\ Len(buf) \in Nat
      /\ ReadableSize = wIndex - rIndex /\ w \in Nat
  BY SizesAssumption, LenProperties DEF TypeOK, IndicesInOrder, ReadableSize
<1>1. /\ Readable \in Seq(Byte) /\ Len(Readable) = ReadableSize
  BY <1>0, SubLen DEF Readable
<1>2. /\ b \in Seq(Byte) /\ Len(b) = Len(buf)
      /\ \A i \in 1..Len(buf) : b[i] = IF HeaderSize < i /\ i <= HeaderSize + Len(Readable)
                                         THEN Readable[i - HeaderSize] ELSE buf[i]
  <2>1. HeaderSize + Len(Readable) <= Len(buf)
    BY <1>0, <1>1
  <2> HIDE DEF Readable
  <2> QED BY <1>0, <1>1, <2>1, StoredSeq
<1>3. /\ buf' \in Seq(Byte) /\ Len(buf') = Len(b)
      /\ \A i \in 1..Len(b) : buf'[i] = IF w < i /\ i <= w + Len(bytes)
                                          THEN bytes[i - w] ELSE b[i]
  <2>1. buf' = Stored(b, w, bytes) /\ w + Len(bytes) <= Len(b)
    BY <1>0, <1>2
  <2> HIDE DEF b, w
  <2> QED BY <1>0, <1>2, <2>1, StoredSeq
<1>4. rIndex' \in Nat /\ wIndex' \in Nat /\ IndicesInOrder'
  BY <1>0, <1>2, <1>3 DEF IndicesInOrder
<1> HIDE DEF b
<1>5. /\ Readable' \in Seq(Byte) /\ Len(Readable') = ReadableSize + Len(bytes)
      /\ \A i \in 1..(ReadableSize + Len(bytes)) : Readable'[i] = buf'[HeaderSize + i]
  <2>1. w + Len(bytes) \in Nat /\ HeaderSize <= w + Len(bytes) /\ w + Len(bytes) <= Len(buf')
    BY <1>0, <1>2, <1>3
  <2>2. Readable' = SubSeq(buf', HeaderSize + 1, w + Len(bytes))
    BY DEF Readable
  <2>3. (w + Len(bytes)) - HeaderSize = ReadableSize + Len(bytes)
    BY <1>0
  <2> DEFINE last == w + Len(bytes)
             part == SubSeq(buf', HeaderSize + 1, last)
  <2>4. /\ part \in Seq(Byte) /\ Len(part) = last - HeaderSize
        /\ \A i \in 1..(last - HeaderSize) : part[i] = buf'[HeaderSize + i]
    <3> HIDE DEF last, w
    <3>1. last \in Nat /\ HeaderSize <= last /\ last <= Len(buf')
      BY <2>1 DEF last
    <3> QED BY <1>0, <1>3, <3>1, SubLen
  <2>5. Readable' = part /\ last - HeaderSize = ReadableSize + Len(bytes)
    BY <2>2, <2>3
  <2> HIDE DEF Readable, part, last
  <2> QED BY <2>4, <2>5
<1>6. /\ Readable \o bytes \in Seq(Byte)
      /\ Len(Readable \o bytes) = Len(Readable) + Len(bytes)
      /\ \A i \in 1..(Len(Readable) + Len(bytes)) :
             (Readable \o bytes)[i] = IF i <= Len(Readable) THEN Readable[i]
                                      ELSE bytes[i - Len(Readable)]
  BY <1>1, ConcatProperties
<1>7. Readable' = Readable \o bytes
  <2> HIDE DEF Readable
  <2>1. ASSUME NEW i \in 1..Len(Readable')  PROVE Readable'[i] = (Readable \o bytes)[i]
    <3>1. HeaderSize + i \in 1..Len(b) /\ HeaderSize + i \in 1..Len(buf)
          /\ Readable'[i] = buf'[HeaderSize + i]
      BY <1>0, <1>2, <1>5
    <3>2. CASE i <= Len(Readable)
      <4>1. /\ ~(w < HeaderSize + i) /\ HeaderSize < HeaderSize + i
            /\ HeaderSize + i <= HeaderSize + Len(Readable)
            /\ (HeaderSize + i) - HeaderSize = i
        BY <1>0, <1>1, <1>5, <3>2
      <4>2. buf'[HeaderSize + i] = b[HeaderSize + i]
        BY <1>3, <3>1, <4>1
      <4>3. b[HeaderSize + i] = Readable[i]
        BY <1>2, <3>1, <4>1
      <4>4. i \in 1..(Len(Readable) + Len(bytes))
        BY <1>0, <1>1, <1>5
      <4> QED BY <1>6, <3>1, <3>2, <4>2, <4>3, <4>4
    <3>3. CASE ~(i <= Len(Readable))
      <4>1. /\ w < HeaderSize + i /\ HeaderSize + i <= w + Len(bytes)
            /\ (HeaderSize + i) - w = i - Len(Readable)
            /\ i \in 1..(Len(Readable) + Len(bytes))
        BY <1>0, <1>1, <1>5, <3>3
      <4>2. buf'[HeaderSize + i] = bytes[(HeaderSize + i) - w]
        BY <1>3, <3>1, <4>1
      <4> QED BY <1>6, <3>1, <3>3, <4>1, <4>2
    <3> QED BY <3>2, <3>3
  <2>2. Len(Readable') = Len(Readable \o bytes)
    BY <1>0, <1>1, <1>5, <1>6
  <2> QED BY <1>5, <1>6, <2>1, <2>2, SeqEqual
<1>8. Header' = Header
  <2>1. /\ Header \in Seq(Byte) /\ Len(Header) = HeaderSize
        /\ \A i \in 1..HeaderSize : Header[i] = buf[0 + i]
    BY <1>0, SubLen DEF Header
  <2>2. /\ Header' \in Seq(Byte) /\ Len(Header') = HeaderSize
        /\ \A i \in 1..HeaderSize : Header'[i] = buf'[0 + i]
    <3>1. HeaderSize <= Len(buf') /\ HeaderSize - 0 = HeaderSize /\ 0 <= HeaderSize /\ 0 \in Nat
      BY <1>0, <1>2, <1>3
    <3>2. Header' = SubSeq(buf', 0 + 1, HeaderSize)
      BY DEF Header
    <3>3. LET part == SubSeq(buf', 0 + 1, HeaderSize)
          IN  /\ part \in Seq(Byte) /\ Len(part) = HeaderSize - 0
              /\ \A i \in 1..(HeaderSize - 0) : part[i] = buf'[0 + i]
      BY <1>0, <1>3, <3>1, SubLen
    <3> HIDE DEF Header
    <3> QED BY <3>1, <3>2, <3>3
  <2>3. ASSUME NEW i \in 1..HeaderSize  PROVE Header'[i] = Header[i]
    <3>1. /\ i \in 1..Len(b) /\ i \in 1..Len(buf) /\ 0 + i = i
          /\ ~(w < i) /\ ~(HeaderSize < i)
      BY <1>0, <1>2
    <3>2. buf'[i] = b[i] /\ b[i] = buf[i]
      BY <1>2, <1>3, <3>1
    <3> HIDE DEF Header
    <3> QED BY <2>1, <2>2, <3>1, <3>2
  <2> QED BY <2>1, <2>2, <2>3, SeqEqual
<1> QED BY <1>3, <1>4, <1>7, <1>8 DEF Appended

LEMMA EnsuredStep ==
    ASSUME TypeOK, IndicesInOrder, NEW len \in Nat, NEW bytes \in Seq(Byte),
           Len(bytes) <= Room(len), EnsuredAndStored(len, bytes)
    PROVE  Appended(bytes)
<1>0. /\ HeaderSize \in Nat /\ rIndex \in Nat /\ wIndex \in Nat /\ buf \in Seq(Byte)
      /\ HeaderSize <= rIndex /\ rIndex <= wIndex /\ wIndex <= Len(buf)
      /\ Len(bytes) \in Nat /\ Len(buf) \in Nat
      /\ ReadableSize = wIndex - rIndex /\ WritableSize = Len(buf) - wIndex
  BY SizesAssumption, LenProperties DEF TypeOK, IndicesInOrder, ReadableSize, WritableSize
<1>1. CASE Fits(len)
  <2>1. Len(buf) >= wIndex + Len(bytes)
    BY <1>0, <1>1 DEF Room
  <2>2. /\ buf' = Stored(buf, wIndex, bytes)
        /\ wIndex' = wIndex + Len(bytes) /\ rIndex' = rIndex
    BY <1>1 DEF EnsuredAndStored, Grows, Compacts
  <2> QED BY <1>0, <2>1, <2>2, AtTheEnd
<1>2. CASE Grows(len)
  <2> DEFINE b == buf \o Zeros(len - WritableSize)
  <2>1. len - WritableSize \in Nat /\ Room(len) = len
    BY <1>0, <1>2 DEF Grows, Fits, Room
  <2>2. Zeros(len - WritableSize) \in Seq(Byte) /\ Len(Zeros(len - WritableSize)) = len - WritableSize
    BY <2>1, ZerosSeq
  <2>3. /\ b \in Seq(Byte) /\ Len(b) = Len(buf) + (len - WritableSize)
        /\ \A i \in 1..Len(buf) : b[i] = buf[i]
    BY <1>0, <2>2, ConcatProperties
  <2>4. /\ buf' = Stored(b, wIndex, bytes)
        /\ wIndex' = wIndex + Len(bytes) /\ rIndex' = rIndex
    BY <1>2 DEF EnsuredAndStored, Grows, Compacts
  <2> HIDE DEF b
  <2>5. Len(b) >= wIndex + Len(bytes) /\ \A i \in 1..wIndex : b[i] = buf[i]
    BY <1>0, <2>1, <2>3
  <2> QED BY <2>3, <2>4, <2>5, AtTheEnd
<1>3. CASE Compacts(len)
  <2>1. Len(buf) >= HeaderSize + ReadableSize + Len(bytes)
    BY <1>0, <1>3 DEF Compacts, Room
  <2> QED BY <1>3, <2>1, AtTheStart DEF EnsuredAndStored, Compacts
<1> QED BY <1>1, <1>2, <1>3 DEF EnsuredAndStored

(***************************************************************************)
(* The invariant.  NoErrorYet: inside writeFd() no call has failed yet.    *)
(***************************************************************************)
NoErrorYet == pc = "write" => saved # "error"
IInv == TypeOK /\ IndicesInOrder /\ NoErrorYet

LEMMA Sizes ==
    ASSUME TypeOK, IndicesInOrder
    PROVE  /\ HeaderSize \in Nat /\ rIndex \in Nat /\ wIndex \in Nat /\ buf \in Seq(Byte)
           /\ HeaderSize <= rIndex /\ rIndex <= wIndex /\ wIndex <= Len(buf)
           /\ Len(buf) \in Nat /\ ReadableSize = wIndex - rIndex
           /\ WritableSize = Len(buf) - wIndex
           /\ ReadableSize \in Nat /\ WritableSize \in Nat
           /\ Readable \in Seq(Byte) /\ Len(Readable) = ReadableSize
           /\ \A i \in 1..ReadableSize : Readable[i] = buf[rIndex + i]
           /\ Header \in Seq(Byte) /\ Len(Header) = HeaderSize
           /\ \A i \in 1..HeaderSize : Header[i] = buf[i]
<1>1. /\ HeaderSize \in Nat /\ rIndex \in Nat /\ wIndex \in Nat /\ buf \in Seq(Byte)
      /\ HeaderSize <= rIndex /\ rIndex <= wIndex /\ wIndex <= Len(buf)
      /\ Len(buf) \in Nat /\ ReadableSize = wIndex - rIndex
      /\ WritableSize = Len(buf) - wIndex
  BY SizesAssumption, LenProperties DEF TypeOK, IndicesInOrder, ReadableSize, WritableSize
<1>2. /\ Readable \in Seq(Byte) /\ Len(Readable) = ReadableSize
      /\ \A i \in 1..ReadableSize : Readable[i] = buf[rIndex + i]
  BY <1>1, SubLen DEF Readable
<1>3. /\ Header \in Seq(Byte) /\ Len(Header) = HeaderSize
      /\ \A i \in 1..HeaderSize : Header[i] = buf[0 + i]
  BY <1>1, SubLen DEF Header
<1>4. \A i \in 1..HeaderSize : 0 + i = i
  OBVIOUS
<1> QED BY <1>1, <1>2, <1>3, <1>4

LEMMA NewBytesSeq ==
    ASSUME TypeOK, NEW k \in Nat, put + k <= MaxBytes
    PROVE  NewBytes(k) \in Seq(Byte) /\ Len(NewBytes(k)) = k
<1>1. NewBytes(k) \in [1..k -> Byte]
  BY SizesAssumption, MaxBytesAssumption DEF TypeOK, NewBytes, Byte
<1> QED BY <1>1, Mapped

\* What ensureWrite() and a copy do to the state, if the copy is defined.
LEMMA ComesStep ==
    ASSUME TypeOK, IndicesInOrder, NEW len \in Nat, NEW bytes \in Seq(Byte),
           Len(bytes) <= Room(len), put + Len(bytes) <= MaxBytes, Comes(len, bytes)
    PROVE  /\ buf' \in Seq(Byte) /\ rIndex' \in Nat /\ wIndex' \in Nat
           /\ put' \in 0..MaxBytes /\ defined' \in BOOLEAN
           /\ IndicesInOrder' /\ Header' = Header
           /\ \/ put' = put + Len(bytes) /\ Readable' = Readable \o bytes
              \/ put' = put /\ Readable' = Readable
<1>1. CASE EnsuredAndStored(len, bytes) /\ put' = put + Len(bytes) /\ UNCHANGED defined
  <2>1. Appended(bytes)
    BY <1>1, EnsuredStep
  <2>2. put' \in 0..MaxBytes /\ defined' \in BOOLEAN
    BY <1>1, LenProperties, MaxBytesAssumption DEF TypeOK
  <2> QED BY <1>1, <2>1, <2>2 DEF Appended
<1>2. CASE Overlaps(len) /\ defined' = FALSE /\ UNCHANGED <<indexVars, put>>
  BY <1>2 DEF indexVars, TypeOK, IndicesInOrder, Header, Readable
<1> QED BY <1>1, <1>2 DEF Comes

LEMMA RoomEnough ==
    ASSUME TypeOK, IndicesInOrder, NEW len \in Nat
    PROVE  len <= Room(len) /\ Room(len) \in Nat
BY Sizes DEF Room, Fits, Grows

LEMMA RetrieveStep ==
    ASSUME TypeOK, IndicesInOrder, NEW n \in Nat, n <= ReadableSize, Retrieve(n)
    PROVE  /\ buf' \in Seq(Byte) /\ rIndex' \in Nat /\ wIndex' \in Nat
           /\ IndicesInOrder' /\ Header' = Header
           /\ Readable' = SubSeq(Readable, n + 1, Len(Readable))
<1>0. /\ HeaderSize \in Nat /\ rIndex \in Nat /\ wIndex \in Nat /\ buf \in Seq(Byte)
      /\ HeaderSize <= rIndex /\ rIndex <= wIndex /\ wIndex <= Len(buf)
      /\ Len(buf) \in Nat /\ ReadableSize = wIndex - rIndex
      /\ Readable \in Seq(Byte) /\ Len(Readable) = ReadableSize
      /\ \A i \in 1..ReadableSize : Readable[i] = buf[rIndex + i]
  BY Sizes
<1>1. CASE n = ReadableSize
  <2>1. rIndex' = HeaderSize /\ wIndex' = HeaderSize /\ buf' = buf
    BY <1>1 DEF Retrieve, RetrieveAll
  <2>2. Readable' = <<>>
    BY <1>0, <2>1, SubSeqEmpty DEF Readable
  <2>3. SubSeq(Readable, n + 1, Len(Readable)) = <<>>
    BY <1>0, <1>1, SubSeqEmpty
  <2>4. buf' \in Seq(Byte) /\ rIndex' \in Nat /\ wIndex' \in Nat /\ IndicesInOrder'
    BY <1>0, <2>1 DEF IndicesInOrder
  <2>5. Header' = Header
    BY <2>1 DEF Header
  <2>6. Readable' = SubSeq(Readable, n + 1, Len(Readable))
    BY <2>2, <2>3
  <2> QED BY <2>4, <2>5, <2>6
<1>2. CASE n # ReadableSize
  <2>1. rIndex' = rIndex + n /\ wIndex' = wIndex /\ buf' = buf
    BY <1>2 DEF Retrieve
  <2> DEFINE here == SubSeq(buf, rIndex + n + 1, wIndex)
             rest == SubSeq(Readable, n + 1, Len(Readable))
  <2>2. /\ here \in Seq(Byte) /\ Len(here) = wIndex - (rIndex + n)
        /\ \A i \in 1..(wIndex - (rIndex + n)) : here[i] = buf[(rIndex + n) + i]
    BY <1>0, SubLen
  <2>3. /\ rest \in Seq(Byte) /\ Len(rest) = Len(Readable) - n
        /\ \A i \in 1..(Len(Readable) - n) : rest[i] = Readable[n + i]
    <3> HIDE DEF Readable
    <3> QED BY <1>0, SubLen
  <2>4. here = rest
    <3> HIDE DEF Readable, here, rest
    <3>1. Len(here) = Len(rest)
      BY <1>0, <2>2, <2>3
    <3>2. ASSUME NEW i \in 1..Len(here)  PROVE here[i] = rest[i]
      <4>1. n + i \in 1..ReadableSize /\ (rIndex + n) + i = rIndex + (n + i)
            /\ i \in 1..(Len(Readable) - n) /\ i \in 1..(wIndex - (rIndex + n))
        BY <1>0, <2>2
      <4> QED BY <1>0, <2>2, <2>3, <4>1
    <3> QED BY <2>2, <2>3, <3>1, <3>2, SeqEqual
  <2>5. Readable' = here
    BY <2>1 DEF Readable
  <2>6. IndicesInOrder'
    BY <1>0, <2>1 DEF IndicesInOrder
  <2>7. buf' \in Seq(Byte) /\ rIndex' \in Nat /\ wIndex' \in Nat
    BY <1>0, <2>1
  <2>8. Header' = Header
    BY <2>1 DEF Header
  <2>9. Readable' = rest
    BY <2>4, <2>5
  <2> QED BY <2>6, <2>7, <2>8, <2>9
<1> QED BY <1>1, <1>2

\* A part of a sequence of bytes is a sequence of bytes, and so is its reverse.
LEMMA FirstSeq ==
    ASSUME TypeOK, IndicesInOrder, NEW n \in Nat, n <= ReadableSize
    PROVE  First(n) \in Seq(Byte) /\ NetToHost(First(n)) \in Seq(Byte)
<1>1. Readable \in Seq(Byte) /\ n <= Len(Readable) /\ Len(Readable) \in Nat
  BY Sizes
<1>2. SubSeq(Readable, 0 + 1, n) \in Seq(Byte)
  BY <1>1, SubLen
<1>3. First(n) \in Seq(Byte)
  BY <1>2 DEF First
<1>4. Reverse(First(n)) \in Seq(Byte)
  BY <1>3, ReverseSeq
<1> QED BY <1>3, <1>4 DEF NetToHost

LEMMA HeaderPart ==
    ASSUME TypeOK, IndicesInOrder, NEW offset \in Nat, NEW n \in Nat, offset + n <= HeaderSize
    PROVE  /\ SubSeq(Header, offset + 1, offset + n) \in Seq(Byte)
           /\ NetToHost(SubSeq(Header, offset + 1, offset + n)) \in Seq(Byte)
           /\ SubSeq(buf, offset + 1, offset + n) = SubSeq(Header, offset + 1, offset + n)
<1>0. /\ Header \in Seq(Byte) /\ Len(Header) = HeaderSize
      /\ \A i \in 1..HeaderSize : Header[i] = buf[i]
      /\ HeaderSize \in Nat /\ buf \in Seq(Byte) /\ HeaderSize <= Len(buf) /\ Len(buf) \in Nat
  BY Sizes
<1> DEFINE h == SubSeq(Header, offset + 1, offset + n)
           b == SubSeq(buf, offset + 1, offset + n)
<1>1. /\ h \in Seq(Byte) /\ Len(h) = (offset + n) - offset
      /\ \A i \in 1..((offset + n) - offset) : h[i] = Header[offset + i]
  <2> HIDE DEF Header
  <2> QED BY <1>0, SubLen
<1>2. /\ b \in Seq(Byte) /\ Len(b) = (offset + n) - offset
      /\ \A i \in 1..((offset + n) - offset) : b[i] = buf[offset + i]
  BY <1>0, SubLen
<1>3. b = h
  <2> HIDE DEF Header, b, h
  <2>1. ASSUME NEW i \in 1..Len(b)  PROVE b[i] = h[i]
    <3>1. offset + i \in 1..HeaderSize /\ i \in 1..((offset + n) - offset)
      BY <1>0, <1>2
    <3> QED BY <1>0, <1>1, <1>2, <3>1
  <2> QED BY <1>1, <1>2, <2>1, SeqEqual
<1> QED BY <1>1, <1>3, ReverseSeq DEF NetToHost

(***************************************************************************)
(* Every step keeps the invariant.                                         *)
(***************************************************************************)
LEMMA SeeTypes ==
    ASSUME IInv, NEW bytes \in Seq(Byte), See(bytes), UNCHANGED indexVars
    PROVE  IInv'
BY DEF IInv, TypeOK, IndicesInOrder, NoErrorYet, See, Calls, indexVars

LEMMA InputKeeps ==
    ASSUME IInv,
           \/ \E k \in 0..MaxBytes : AppendBytes(k) \/ AppendInt(k) \/ ReadFd(k)
           \/ \E errno \in {"EINTR", "error"} : ReadFdFails(errno)
    PROVE  IInv'
<1> USE DEF IInv
<1>0. ASSUME NEW len \in Nat, NEW bytes \in Seq(Byte), Len(bytes) <= Room(len),
             put + Len(bytes) <= MaxBytes, Comes(len, bytes), Calls,
             hsIndex' = hsIndex, pc' = pc, saved' \in {"0", "EINTR", "error"},
             seen' = seen, wire' = wire
      PROVE  IInv'
  <2>1. TypeOK'
    BY <1>0, ComesStep DEF TypeOK
  <2>2. IndicesInOrder'
    BY <1>0, ComesStep
  <2> QED BY <1>0, <2>1, <2>2 DEF NoErrorYet, Calls
<1>1. ASSUME NEW k \in 0..MaxBytes, AppendBytes(k)  PROVE IInv'
  <2>1. k \in Nat /\ put + k <= MaxBytes /\ NewBytes(k) \in Seq(Byte) /\ Len(NewBytes(k)) = k
    BY <1>1, NewBytesSeq, MaxBytesAssumption DEF AppendBytes
  <2>2. k <= Room(k)
    BY <2>1, RoomEnough
  <2> QED BY <1>0, <1>1, <2>1, <2>2 DEF AppendBytes, TypeOK
<1>2. ASSUME NEW k \in 0..MaxBytes, AppendInt(k)  PROVE IInv'
  <2>1. k \in Nat /\ put + k <= MaxBytes /\ NewBytes(k) \in Seq(Byte) /\ Len(NewBytes(k)) = k
    BY <1>2, NewBytesSeq, MaxBytesAssumption DEF AppendInt
  <2>2. HostToNet(NewBytes(k)) \in Seq(Byte) /\ Len(HostToNet(NewBytes(k))) = k
    BY <2>1, ReverseSeq DEF HostToNet
  <2>3. k <= Room(k)
    BY <2>1, RoomEnough
  <2> QED BY <1>0, <1>2, <2>1, <2>2, <2>3 DEF AppendInt, TypeOK
<1>3. ASSUME NEW k \in 0..MaxBytes, ReadFd(k)  PROVE IInv'
  <2>1. k \in Nat /\ put + k <= MaxBytes /\ NewBytes(k) \in Seq(Byte) /\ Len(NewBytes(k)) = k
    BY <1>3, NewBytesSeq, MaxBytesAssumption DEF ReadFd
  <2>2. k <= Room(ChunkSize) /\ ChunkSize \in Nat
    BY <1>3, SizesAssumption DEF ReadFd, Room
  <2> QED BY <1>0, <1>3, <2>1, <2>2 DEF ReadFd
<1>4. ASSUME NEW errno \in {"EINTR", "error"}, ReadFdFails(errno)  PROVE IInv'
  <2>1. <<>> \in Seq(Byte) /\ Len(<<>>) = 0
    OBVIOUS
  <2>2. 0 <= Room(ChunkSize) /\ ChunkSize \in Nat /\ put + 0 <= MaxBytes
    BY RoomEnough, SizesAssumption, MaxBytesAssumption DEF TypeOK
  <2> QED BY <1>0, <1>4, <2>1, <2>2 DEF ReadFdFails
<1> QED BY <1>1, <1>2, <1>3, <1>4

LEMMA ReadKeeps ==
    ASSUME IInv, ReadStep
    PROVE  IInv'
<1> USE DEF IInv
<1>0. ASSUME NEW n \in 0..MaxBytes, n <= ReadableSize
      PROVE  n \in Nat /\ First(n) \in Seq(Byte) /\ NetToHost(First(n)) \in Seq(Byte)
  BY <1>0, FirstSeq, MaxBytesAssumption
<1>1. ASSUME NEW n \in 0..MaxBytes, n <= ReadableSize, Retrieve(n),
             NEW bytes \in Seq(Byte), See(bytes)
      PROVE  IInv'
  <2>1. buf' \in Seq(Byte) /\ rIndex' \in Nat /\ wIndex' \in Nat /\ IndicesInOrder'
    BY <1>0, <1>1, RetrieveStep
  <2> QED BY <1>1, <2>1 DEF TypeOK, NoErrorYet, See, Calls
<1>2. ASSUME NEW n \in 0..MaxBytes, Peek(n) \/ RetrieveBytes(n) \/ PeekInt(n) \/ RetrieveInt(n)
      PROVE  IInv'
  <2>1. CASE Peek(n)
    BY <1>0, <2>1, SeeTypes DEF Peek
  <2>2. CASE RetrieveBytes(n)
    BY <1>0, <1>1, <2>2 DEF RetrieveBytes
  <2>3. CASE PeekInt(n)
    BY <1>0, <2>3, SeeTypes DEF PeekInt
  <2>4. CASE RetrieveInt(n)
    BY <1>0, <1>1, <2>4 DEF RetrieveInt
  <2> QED BY <1>2, <2>1, <2>2, <2>3, <2>4
<1>3. ASSUME NEW offset \in 0..HeaderSize, NEW n \in 0..HeaderSize,
             HeadGet(offset, n) \/ HeadGetInt(offset, n)
      PROVE  IInv'
  <2>1. offset \in Nat /\ n \in Nat /\ offset + n <= HeaderSize
    BY <1>3, SizesAssumption DEF HeadGet, HeadGetInt
  <2>2. /\ SubSeq(Header, offset + 1, offset + n) \in Seq(Byte)
        /\ NetToHost(SubSeq(Header, offset + 1, offset + n)) \in Seq(Byte)
    BY <2>1, HeaderPart
  <2> QED BY <1>3, <2>2, SeeTypes DEF HeadGet, HeadGetInt
<1> QED BY <1>2, <1>3 DEF ReadStep

\* headSet*() stays inside the header.
LEMMA HeadSetStep ==
    ASSUME IInv, NEW offset \in 0..HeaderSize, NEW n \in 0..HeaderSize, HeadSet(offset, n)
    PROVE  /\ buf' \in Seq(Byte) /\ IndicesInOrder'
           /\ Readable' = Readable
           /\ Header' \in Seq(Byte) /\ Len(Header') = HeaderSize
<1> DEFINE bytes == [i \in 1..n |-> MaxBytes + offset + i]
<1>0. /\ HeaderSize \in Nat /\ rIndex \in Nat /\ wIndex \in Nat /\ buf \in Seq(Byte)
      /\ HeaderSize <= rIndex /\ rIndex <= wIndex /\ wIndex <= Len(buf)
      /\ Len(buf) \in Nat /\ offset \in Nat /\ n \in Nat /\ offset + n <= HeaderSize
      /\ Readable \in Seq(Byte) /\ Len(Readable) = wIndex - rIndex
      /\ \A i \in 1..(wIndex - rIndex) : Readable[i] = buf[rIndex + i]
  BY Sizes, SizesAssumption DEF IInv, HeadSet
<1>1. bytes \in Seq(Byte) /\ Len(bytes) = n
  <2>1. bytes \in [1..n -> Byte]
    BY <1>0, MaxBytesAssumption DEF Byte
  <2> HIDE DEF bytes
  <2> QED BY <1>0, <2>1, Mapped
<1>2. /\ buf' = Stored(buf, offset, bytes) /\ offset + Len(bytes) <= Len(buf)
      /\ rIndex' = rIndex /\ wIndex' = wIndex
  BY <1>0, <1>1 DEF HeadSet
<1> HIDE DEF bytes
<1>3. /\ buf' \in Seq(Byte) /\ Len(buf') = Len(buf)
      /\ \A i \in 1..Len(buf) : buf'[i] = IF offset < i /\ i <= offset + Len(bytes)
                                            THEN bytes[i - offset] ELSE buf[i]
  <2> DEFINE b == Stored(buf, offset, bytes)
  <2>1. /\ b \in Seq(Byte) /\ Len(b) = Len(buf)
        /\ \A i \in 1..Len(buf) : b[i] = IF offset < i /\ i <= offset + Len(bytes)
                                           THEN bytes[i - offset] ELSE buf[i]
    BY <1>0, <1>1, <1>2, StoredSeq
  <2>2. buf' = b
    BY <1>2
  <2> HIDE DEF b
  <2> QED BY <2>1, <2>2
<1>4. IndicesInOrder'
  BY <1>0, <1>2, <1>3 DEF IndicesInOrder
<1>5. Readable' = Readable
  <2> DEFINE now == SubSeq(buf', rIndex + 1, wIndex)
  <2>1. /\ now \in Seq(Byte) /\ Len(now) = wIndex - rIndex
        /\ \A i \in 1..(wIndex - rIndex) : now[i] = buf'[rIndex + i]
    BY <1>0, <1>3, SubLen
  <2>2. Readable' = now
    BY <1>2 DEF Readable
  <2>3. now = Readable
    <3> HIDE DEF now, Readable
    <3>1. ASSUME NEW i \in 1..Len(now)  PROVE now[i] = Readable[i]
      <4>1. rIndex + i \in 1..Len(buf) /\ ~(rIndex + i <= offset + Len(bytes))
            /\ i \in 1..(wIndex - rIndex)
        BY <1>0, <1>1, <2>1
      <4> QED BY <1>0, <1>3, <2>1, <4>1
    <3> QED BY <1>0, <2>1, <3>1, SeqEqual
  <2> QED BY <2>2, <2>3
<1>6. Header' \in Seq(Byte) /\ Len(Header') = HeaderSize
  <2>1. LET h == SubSeq(buf', 0 + 1, HeaderSize)
        IN  h \in Seq(Byte) /\ Len(h) = HeaderSize - 0
    BY <1>0, <1>3, SubLen
  <2> QED BY <1>0, <2>1 DEF Header
<1> QED BY <1>3, <1>4, <1>5, <1>6

LEMMA WriteKeeps ==
    ASSUME IInv, BeginWriteFd \/ WriteFdStep
    PROVE  IInv'
<1> USE DEF IInv
<1>1. ASSUME NEW n \in 1..HeaderSize, WriteHeader(n)  PROVE IInv'
  <2>1. /\ hsIndex \in Nat /\ n \in Nat /\ hsIndex + n <= HeaderSize
    BY <1>1, SizesAssumption DEF WriteHeader, TypeOK
  <2>2. SubSeq(buf, hsIndex + 1, hsIndex + n) \in Seq(Byte)
    BY <2>1, HeaderPart
  <2>3. wire' \in Seq(Byte) /\ hsIndex' \in 0..HeaderSize
    BY <1>1, <2>1, <2>2, SizesAssumption, ConcatProperties DEF WriteHeader, TypeOK
  <2> QED BY <1>1, <2>3 DEF WriteHeader, indexVars, TypeOK, IndicesInOrder, NoErrorYet
<1>2. ASSUME NEW n \in 1..MaxBytes, WriteBody(n)  PROVE IInv'
  <2>1. n \in Nat /\ n <= ReadableSize
    BY <1>2, MaxBytesAssumption, Sizes DEF WriteBody
  <2>2. First(n) \in Seq(Byte)
    BY <2>1, FirstSeq
  <2>3. wire' \in Seq(Byte)
    BY <1>2, <2>2, ConcatProperties DEF WriteBody, TypeOK
  <2>4. buf' \in Seq(Byte) /\ rIndex' \in Nat /\ wIndex' \in Nat /\ IndicesInOrder'
    BY <1>2, <2>1, RetrieveStep DEF WriteBody
  <2> QED BY <1>2, <2>3, <2>4 DEF WriteBody, TypeOK, NoErrorYet
<1>3. ASSUME BeginWriteFd \/ WriteInterrupted \/ WriteFails \/ WriteDone  PROVE IInv'
  BY <1>3 DEF BeginWriteFd, WriteInterrupted, WriteFails, WriteDone, indexVars, TypeOK,
              IndicesInOrder, NoErrorYet
<1> QED BY <1>1, <1>2, <1>3 DEF WriteFdStep

LEMMA InitHolds == Init => IInv
<1> SUFFICES ASSUME Init PROVE IInv
  OBVIOUS
<1>1. buf \in Seq(Byte) /\ Len(buf) = HeaderSize + BodySize
  BY SizesAssumption, ZerosSeq DEF Init
<1> QED BY <1>1, SizesAssumption, MaxBytesAssumption
        DEF Init, IInv, TypeOK, IndicesInOrder, NoErrorYet

LEMMA NextKeeps == IInv /\ [Next]_vars => IInv'
<1> SUFFICES ASSUME IInv, [Next]_vars PROVE IInv'
  OBVIOUS
<1>1. CASE UNCHANGED vars
  BY <1>1 DEF vars, indexVars, IInv, TypeOK, IndicesInOrder, NoErrorYet
<1>2. ASSUME NEW offset \in 0..HeaderSize, NEW n \in 0..HeaderSize, HeadSet(offset, n)
      PROVE  IInv'
  BY <1>2, HeadSetStep DEF HeadSet, IInv, TypeOK, NoErrorYet, Calls
<1> QED BY <1>1, <1>2, InputKeeps, ReadKeeps, WriteKeeps DEF Next

\* The strengthened invariant is inductive.
THEOREM Invariance == Spec => []IInv
BY InitHolds, NextKeeps, PTL DEF Spec

\* The state keeps its types for every size of header, body, chunk and integer.
THEOREM TypeCorrect == Spec => []TypeOK
<1>1. IInv => TypeOK
  BY DEF IInv
<1> QED BY <1>1, Invariance, PTL

\* The indices stay in order through every retrieval, growth and compaction.
THEOREM IndicesStayOrdered == Spec => []IndicesInOrder
<1>1. IInv => IndicesInOrder
  BY DEF IInv
<1> QED BY <1>1, Invariance, PTL

\* writeFd() reports an error exactly when it leaves something unwritten.
THEOREM ErrnoIsHonest == Spec => ErrnoTellsTheRest
<1>1. IInv /\ [Next]_vars => [pc = "write" /\ pc' = "idle" => (Unwritten' <=> saved' = "error")]_vars
  <2> SUFFICES ASSUME IInv, Next, pc = "write", pc' = "idle"
               PROVE  Unwritten' <=> saved' = "error"
    BY DEF vars, indexVars
  <2>1. WriteFails \/ WriteDone
    BY DEF Next, AppendBytes, AppendInt, ReadFd, ReadFdFails, ReadStep, Peek, RetrieveBytes,
           PeekInt, RetrieveInt, HeadGet, HeadGetInt, See, Calls, HeadSet, BeginWriteFd,
           WriteFdStep, WriteHeader, WriteBody, WriteInterrupted
  <2> QED BY <2>1 DEF WriteFails, WriteDone, indexVars, Unwritten, ReadableSize, IInv, NoErrorYet
<1> QED BY <1>1, Invariance, PTL DEF Spec, ErrnoTellsTheRest

(***************************************************************************)
(* PacketBuffer implements ByteQueue: the header and what can be read are  *)
(* its state, and the cursor hsIndex_ says how much of the header is out.  *)
(***************************************************************************)
LEMMA StutterStep ==
    ASSUME UNCHANGED <<indexVars, put, hsIndex, wire, seen>>
    PROVE  UNCHANGED Abstract!vars
BY DEF indexVars, Abstract!vars, Header, Readable

LEMMA FormsOf ==
    ASSUME NEW bytes
    PROVE  Abstract!Forms(bytes) = {bytes, Reverse(bytes)}
BY DEF Abstract!Forms, Abstract!Reverse, Reverse

LEMMA PutImplemented ==
    ASSUME IInv,
           \/ \E k \in 0..MaxBytes : AppendBytes(k) \/ AppendInt(k) \/ ReadFd(k)
           \/ \E errno \in {"EINTR", "error"} : ReadFdFails(errno)
    PROVE  [Abstract!Next]_Abstract!vars
<1> USE DEF IInv
<1>0. ASSUME NEW k \in Nat, NewBytes(k) \in Seq(Byte), Len(NewBytes(k)) = k,
             NEW len \in Nat, k <= Room(len), put + k <= MaxBytes,
             NEW bytes \in Seq(Byte), bytes \in {NewBytes(k), Reverse(NewBytes(k))},
             Comes(len, bytes), hsIndex' = hsIndex, seen' = seen, wire' = wire
      PROVE  [Abstract!Next]_Abstract!vars
  <2>1. Len(bytes) = k
    BY <1>0, ReverseSeq
  <2>2. /\ Header' = Header
        /\ \/ put' = put + k /\ Readable' = Readable \o bytes
           \/ put' = put /\ Readable' = Readable
    BY <1>0, <2>1, ComesStep
  <2>3. CASE put' = put + k /\ Readable' = Readable \o bytes
    <3>1. put' - put = k
      BY <1>0, <2>3 DEF TypeOK
    <3>2. bytes \in Abstract!Forms([i \in 1..(put' - put) |-> put + i])
      BY <1>0, <3>1, FormsOf DEF NewBytes
    <3>3. Abstract!Put
      BY <1>0, <2>2, <2>3, <3>1, <3>2 DEF Abstract!Put
    <3> QED BY <3>3 DEF Abstract!Next
  <2>4. CASE put' = put /\ Readable' = Readable
    BY <1>0, <2>2, <2>4 DEF Abstract!vars
  <2> QED BY <2>2, <2>3, <2>4
<1>1. ASSUME NEW k \in 0..MaxBytes, AppendBytes(k)  PROVE [Abstract!Next]_Abstract!vars
  <2>1. k \in Nat /\ put + k <= MaxBytes /\ NewBytes(k) \in Seq(Byte) /\ Len(NewBytes(k)) = k
    BY <1>1, NewBytesSeq, MaxBytesAssumption DEF AppendBytes
  <2>2. k <= Room(k)
    BY <2>1, RoomEnough
  <2> QED BY <1>0, <1>1, <2>1, <2>2 DEF AppendBytes
<1>2. ASSUME NEW k \in 0..MaxBytes, AppendInt(k)  PROVE [Abstract!Next]_Abstract!vars
  <2>1. k \in Nat /\ put + k <= MaxBytes /\ NewBytes(k) \in Seq(Byte) /\ Len(NewBytes(k)) = k
    BY <1>2, NewBytesSeq, MaxBytesAssumption DEF AppendInt
  <2>2. Reverse(NewBytes(k)) \in Seq(Byte) /\ HostToNet(NewBytes(k)) = Reverse(NewBytes(k))
    BY <2>1, ReverseSeq DEF HostToNet
  <2>3. k <= Room(k)
    BY <2>1, RoomEnough
  <2> QED BY <1>0, <1>2, <2>1, <2>2, <2>3 DEF AppendInt
<1>3. ASSUME NEW k \in 0..MaxBytes, ReadFd(k)  PROVE [Abstract!Next]_Abstract!vars
  <2>1. k \in Nat /\ put + k <= MaxBytes /\ NewBytes(k) \in Seq(Byte) /\ Len(NewBytes(k)) = k
    BY <1>3, NewBytesSeq, MaxBytesAssumption DEF ReadFd
  <2>2. k <= Room(ChunkSize) /\ ChunkSize \in Nat
    BY <1>3, SizesAssumption DEF ReadFd, Room
  <2> QED BY <1>0, <1>3, <2>1, <2>2 DEF ReadFd
<1>4. ASSUME NEW errno \in {"EINTR", "error"}, ReadFdFails(errno)
      PROVE  [Abstract!Next]_Abstract!vars
  <2>1. <<>> \in Seq(Byte) /\ Len(<<>>) = 0 /\ put \in Nat
    BY MaxBytesAssumption DEF TypeOK
  <2>2. 0 <= Room(ChunkSize) /\ ChunkSize \in Nat /\ put + 0 <= MaxBytes /\ put + 0 = put
    BY RoomEnough, SizesAssumption, MaxBytesAssumption DEF TypeOK
  <2>3. Comes(ChunkSize, <<>>)
    BY <1>4 DEF ReadFdFails
  <2>4. /\ Header' = Header
        /\ \/ put' = put + 0 /\ Readable' = Readable \o <<>>
           \/ put' = put /\ Readable' = Readable
    BY <2>1, <2>2, <2>3, ComesStep
  <2>5. Readable \o <<>> = Readable
    BY Sizes, ConcatEmptySeq
  <2>6. Readable' = Readable /\ put' = put
    BY <2>2, <2>4, <2>5
  <2> QED BY <1>4, <2>4, <2>6 DEF ReadFdFails, Abstract!vars
<1> QED BY <1>1, <1>2, <1>3, <1>4

LEMMA SeeImplemented ==
    ASSUME IInv, ReadStep
    PROVE  Abstract!Next
<1> USE DEF IInv
<1>0. ReadableSize \in Nat /\ Len(Readable) = ReadableSize
  BY Sizes
<1>1. ASSUME NEW n \in 0..MaxBytes, Peek(n) \/ RetrieveBytes(n) \/ PeekInt(n) \/ RetrieveInt(n)
      PROVE  Abstract!Next
  <2>1. n \in 0..Len(Readable) /\ n \in Nat /\ n <= ReadableSize
    BY <1>0, <1>1, MaxBytesAssumption DEF Peek, RetrieveBytes, PeekInt, RetrieveInt
  <2>2. /\ seen' \in Abstract!Forms(SubSeq(Readable, 1, n))
        /\ UNCHANGED <<put, hsIndex, wire>>
    BY <1>1, FormsOf DEF Peek, RetrieveBytes, PeekInt, RetrieveInt, See, First, NetToHost
  <2>3. /\ Header' = Header
        /\ \/ Readable' = Readable
           \/ Readable' = SubSeq(Readable, n + 1, Len(Readable))
    <3>1. CASE UNCHANGED indexVars
      BY <3>1 DEF indexVars, Header, Readable
    <3>2. CASE Retrieve(n)
      BY <2>1, <3>2, RetrieveStep
    <3> QED BY <1>1, <3>1, <3>2 DEF Peek, RetrieveBytes, PeekInt, RetrieveInt
  <2>4. Abstract!See
    BY <2>1, <2>2, <2>3 DEF Abstract!See, Abstract!Rest
  <2> QED BY <2>4 DEF Abstract!Next
<1>2. ASSUME NEW offset \in 0..HeaderSize, NEW n \in 0..HeaderSize,
             HeadGet(offset, n) \/ HeadGetInt(offset, n)
      PROVE  Abstract!Next
  <2>1. n \in 0..(HeaderSize - offset)
    BY <1>2, SizesAssumption DEF HeadGet, HeadGetInt
  <2>2. /\ seen' \in Abstract!Forms(SubSeq(Header, offset + 1, offset + n))
        /\ UNCHANGED <<put, hsIndex, wire>>
    BY <1>2, FormsOf DEF HeadGet, HeadGetInt, See, NetToHost
  <2>3. Header' = Header /\ Readable' = Readable
    BY <1>2 DEF HeadGet, HeadGetInt, indexVars, Header, Readable
  <2>4. Abstract!SeeHeader
    BY <1>2, <2>1, <2>2, <2>3 DEF Abstract!SeeHeader
  <2> QED BY <2>4 DEF Abstract!Next
<1> QED BY <1>1, <1>2 DEF ReadStep

LEMMA WriteImplemented ==
    ASSUME IInv, BeginWriteFd \/ WriteFdStep
    PROVE  [Abstract!Next]_Abstract!vars
<1> USE DEF IInv
<1>1. ASSUME NEW n \in 1..HeaderSize, WriteHeader(n)  PROVE Abstract!Next
  <2>1. /\ hsIndex \in Nat /\ n \in Nat /\ hsIndex + n <= HeaderSize
        /\ n \in 1..(HeaderSize - hsIndex)
    BY <1>1, SizesAssumption DEF WriteHeader, TypeOK
  <2>2. wire' = wire \o SubSeq(Header, hsIndex + 1, hsIndex + n)
    BY <1>1, <2>1, HeaderPart DEF WriteHeader
  <2>3. Header' = Header /\ Readable' = Readable
    BY <1>1 DEF WriteHeader, indexVars, Header, Readable
  <2>4. Abstract!SendHeader
    BY <1>1, <2>1, <2>2, <2>3 DEF WriteHeader, Abstract!SendHeader
  <2> QED BY <2>4 DEF Abstract!Next
<1>2. ASSUME NEW n \in 1..MaxBytes, WriteBody(n)  PROVE Abstract!Next
  <2>1. n \in Nat /\ n <= ReadableSize /\ n \in 1..Len(Readable) /\ hsIndex = HeaderSize
    BY <1>2, SizesAssumption, Sizes DEF WriteBody, TypeOK
  <2>2. Header' = Header /\ Readable' = SubSeq(Readable, n + 1, Len(Readable))
    BY <1>2, <2>1, RetrieveStep DEF WriteBody
  <2>3. wire' = wire \o SubSeq(Readable, 1, n) /\ UNCHANGED <<put, hsIndex, seen>>
    BY <1>2 DEF WriteBody, First
  <2>4. Abstract!SendBody
    BY <2>1, <2>2, <2>3 DEF Abstract!SendBody, Abstract!Rest
  <2> QED BY <2>4 DEF Abstract!Next
<1>3. ASSUME BeginWriteFd \/ WriteInterrupted \/ WriteFails \/ WriteDone
      PROVE  UNCHANGED Abstract!vars
  BY <1>3, StutterStep DEF BeginWriteFd, WriteInterrupted, WriteFails, WriteDone
<1> QED BY <1>1, <1>2, <1>3 DEF WriteFdStep

LEMMA HeadSetImplemented ==
    ASSUME IInv, NEW offset \in 0..HeaderSize, NEW n \in 0..HeaderSize, HeadSet(offset, n)
    PROVE  Abstract!Next
<1>1. Readable' = Readable /\ Header' \in Seq(Byte) /\ Len(Header') = HeaderSize
  BY HeadSetStep
<1>2. Header' \in [1..HeaderSize -> Byte]
  BY <1>1, LenProperties
<1>3. Abstract!SetHeader
  BY <1>1, <1>2 DEF HeadSet, Abstract!SetHeader
<1> QED BY <1>3 DEF Abstract!Next

LEMMA InitImplemented == Init => Abstract!Init
<1> SUFFICES ASSUME Init PROVE Abstract!Init
  OBVIOUS
<1>1. TypeOK /\ IndicesInOrder
  BY InitHolds DEF IInv
<1>2. Header \in Seq(Byte) /\ Len(Header) = HeaderSize
  BY <1>1, Sizes
<1>3. Header \in [1..HeaderSize -> Byte]
  BY <1>2, LenProperties
<1>4. Readable = <<>>
  BY <1>1, Sizes, SubSeqEmpty DEF Init, Readable
<1> QED BY <1>3, <1>4 DEF Init, Abstract!Init

LEMMA NextImplemented == IInv /\ [Next]_vars => [Abstract!Next]_Abstract!vars
<1> SUFFICES ASSUME IInv, [Next]_vars PROVE [Abstract!Next]_Abstract!vars
  OBVIOUS
<1>1. CASE UNCHANGED vars
  BY <1>1, StutterStep DEF vars
<1> QED BY <1>1, PutImplemented, SeeImplemented, WriteImplemented, HeadSetImplemented DEF Next

\* PacketBuffer implements ByteQueue: no byte is lost, repeated or reordered,
\* and the header goes out once, before the body.
THEOREM Refinement == Spec => ImplementsByteQueue
BY InitImplemented, NextImplemented, Invariance, PTL DEF Spec, ImplementsByteQueue, Abstract!Spec
=============================================================================
