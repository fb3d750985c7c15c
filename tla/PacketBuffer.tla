----------------------------- MODULE PacketBuffer -----------------------------
(***************************************************************************)
(* qinmo::net::PacketBuffer: a header and a body in one vector, with the   *)
(* indices of the next byte to read and to write, the compaction and the   *)
(* growth of the vector, and the loops of readFd() and writeFd() over what *)
(* read(2) and write(2) may do.                                            *)
(*                                                                         *)
(* One thread uses a buffer.  A byte of the body is a number that counts   *)
(* the bytes that came, one of the header is MaxBytes plus its place, and  *)
(* 0 is a byte that was never written.  Integers are sequences of bytes in *)
(* host order, which is little-endian.                                     *)
(*                                                                         *)
(* The compaction copies with memcpy, which is undefined where the ranges  *)
(* overlap: such an execution is not followed further (defined).           *)
(***************************************************************************)
EXTENDS Integers, Sequences, SequencesExt

CONSTANTS
    HeaderSize,     \* headerSize_
    BodySize,       \* the constructor's bodySize
    ChunkSize,      \* chunkSize of readFd
    IntSizes,       \* sizes of integers: {1, 2, 4, 8}
    MaxBytes        \* bound: bytes that are appended or read

ASSUME SizesAssumption ==
    /\ HeaderSize \in Nat
    /\ BodySize \in Nat
    /\ ChunkSize \in Nat
    /\ IntSizes \subseteq Nat \ {0}
ASSUME MaxBytesAssumption == MaxBytes \in Nat

VARIABLES
    buf,        \* buf_
    rIndex,     \* rIndex_
    wIndex,     \* wIndex_
    hsIndex,    \* hsIndex_
    pc,         \* "idle", or "write" inside writeFd()
    saved,      \* savedErrno of the last readFd() or writeFd(): 0, EINTR or any other
    seen,       \* what the last reading call returned
    wire,       \* what the kernel has taken
    put,        \* how many bytes have been appended or read
    defined     \* no memcpy had overlapping ranges

indexVars == <<buf, rIndex, wIndex>>
vars == <<indexVars, hsIndex, pc, saved, seen, wire, put, defined>>

Byte == 0..(MaxBytes + HeaderSize)

TypeOK ==
    /\ buf \in Seq(Byte)
    /\ rIndex \in Nat
    /\ wIndex \in Nat
    /\ hsIndex \in 0..HeaderSize
    /\ pc \in {"idle", "write"}
    /\ saved \in {"0", "EINTR", "error"}
    /\ seen \in Seq(Byte)
    /\ wire \in Seq(Byte)
    /\ put \in 0..MaxBytes
    /\ defined \in BOOLEAN

Zeros(n) == [i \in 1..n |-> 0]

Init ==
    /\ buf = Zeros(HeaderSize + BodySize)
    /\ rIndex = HeaderSize
    /\ wIndex = HeaderSize
    /\ hsIndex = 0
    /\ pc = "idle"
    /\ saved = "0"
    /\ seen = <<>>
    /\ wire = <<>>
    /\ put = 0
    /\ defined = TRUE

-----------------------------------------------------------------------------
(* The indices.                                                            *)

ReadableSize == wIndex - rIndex
WritableSize == Len(buf) - wIndex
Readable == SubSeq(buf, rIndex + 1, wIndex)
Header == SubSeq(buf, 1, HeaderSize)

\* bytes written over b from index w on
Stored(b, w, bytes) ==
    [i \in 1..Len(b) |-> IF w < i /\ i <= w + Len(bytes) THEN bytes[i - w] ELSE b[i]]

\* As if what is left were forgotten.
RetrieveAll(n) == rIndex' = HeaderSize /\ wIndex' = HeaderSize /\ UNCHANGED buf

\* retrieve()
Retrieve(n) ==
    IF n = ReadableSize
      THEN RetrieveAll(n)
      ELSE rIndex' = rIndex + n /\ UNCHANGED <<wIndex, buf>>

Fits(len) == WritableSize >= len

Grows(len) == ~Fits(len) /\ rIndex - HeaderSize + WritableSize < len
Compacts(len) == ~Fits(len) /\ ~Grows(len)

Overlaps(len) == Compacts(len) /\ ReadableSize > rIndex - HeaderSize

\* ensureWrite(len), and then bytes stored at the write index
EnsuredAndStored(len, bytes) ==
    \/ /\ Fits(len)
       /\ buf' = Stored(buf, wIndex, bytes)
       /\ wIndex' = wIndex + Len(bytes)
       /\ UNCHANGED rIndex
    \/ /\ Grows(len)
       /\ buf' = Stored(buf \o Zeros(len - WritableSize), wIndex, bytes)
       /\ wIndex' = wIndex + Len(bytes)
       /\ UNCHANGED rIndex
    \/ /\ Compacts(len) /\ ~Overlaps(len)
       /\ buf' = Stored(Stored(buf, HeaderSize, Readable), HeaderSize + ReadableSize, bytes)
       /\ rIndex' = HeaderSize
       /\ wIndex' = HeaderSize + ReadableSize + Len(bytes)

-----------------------------------------------------------------------------
(* Bytes come in.                                                          *)

Calls == pc = "idle" /\ defined

NewBytes(k) == [i \in 1..k |-> put + i]

Comes(len, bytes) ==
    \/ /\ EnsuredAndStored(len, bytes)
       /\ put' = put + Len(bytes)
       /\ UNCHANGED defined
    \/ /\ Overlaps(len)
       /\ defined' = FALSE
       /\ UNCHANGED <<indexVars, put>>

\* append() and appendString()
AppendBytes(k) ==
    /\ Calls
    /\ put + k <= MaxBytes
    /\ Comes(k, NewBytes(k))
    /\ UNCHANGED <<hsIndex, pc, saved, seen, wire>>

HostToNet(bytes) == Reverse(bytes)
NetToHost(bytes) == Reverse(bytes)

\* append8() to append64()
AppendInt(k) ==
    /\ Calls
    /\ k \in IntSizes /\ put + k <= MaxBytes
    /\ Comes(k, HostToNet(NewBytes(k)))
    /\ UNCHANGED <<hsIndex, pc, saved, seen, wire>>

\* read() fills at most what is writable, which may be more than a chunk; k is
\* 0 at the end of the stream.
ReadFd(k) ==
    /\ Calls
    /\ put + k <= MaxBytes
    /\ k <= IF Fits(ChunkSize) THEN WritableSize
            ELSE IF Grows(ChunkSize) THEN ChunkSize
            ELSE Len(buf) - HeaderSize - ReadableSize
    /\ Comes(ChunkSize, NewBytes(k))
    /\ saved' = "0"
    /\ UNCHANGED <<hsIndex, pc, seen, wire>>

ReadFdFails(errno) ==
    /\ Calls
    /\ Comes(ChunkSize, <<>>)
    /\ saved' = errno
    /\ UNCHANGED <<hsIndex, pc, seen, wire>>

-----------------------------------------------------------------------------
(* Bytes are read.  A call that asks for more than there is returns false. *)

See(bytes) ==
    /\ Calls
    /\ seen' = bytes
    /\ UNCHANGED <<hsIndex, pc, saved, wire, put, defined>>

First(n) == SubSeq(Readable, 1, n)

\* peekString(), peekAll()
Peek(n) ==
    /\ n <= ReadableSize
    /\ See(First(n))
    /\ UNCHANGED indexVars

\* retrieveString(), retrieveAll()
RetrieveBytes(n) ==
    /\ n <= ReadableSize
    /\ See(First(n))
    /\ Retrieve(n)

PeekInt(n) ==
    /\ n \in IntSizes /\ n <= ReadableSize
    /\ See(NetToHost(First(n)))
    /\ UNCHANGED indexVars

RetrieveInt(n) ==
    /\ n \in IntSizes /\ n <= ReadableSize
    /\ See(NetToHost(First(n)))
    /\ Retrieve(n)

-----------------------------------------------------------------------------
(* The header.  A call that goes beyond it returns false.                  *)

HeadGet(offset, n) ==
    /\ offset + n <= HeaderSize
    /\ See(SubSeq(Header, offset + 1, offset + n))
    /\ UNCHANGED indexVars

HeadGetInt(offset, n) ==
    /\ n \in IntSizes /\ offset + n <= HeaderSize
    /\ See(NetToHost(SubSeq(Header, offset + 1, offset + n)))
    /\ UNCHANGED indexVars

\* headSet8() to headSetString(); the bytes as they are stored, those of an
\* integer after hostToNet.
HeadSet(offset, n) ==
    /\ Calls
    /\ offset + n <= HeaderSize
    /\ buf' = Stored(buf, offset, [i \in 1..n |-> MaxBytes + offset + i])
    /\ UNCHANGED <<rIndex, wIndex, hsIndex, pc, saved, seen, wire, put, defined>>

-----------------------------------------------------------------------------
(* writeFd(): one action for each call of write(2).                        *)

BeginWriteFd ==
    /\ Calls
    /\ pc' = "write"
    /\ saved' = "0"
    /\ UNCHANGED <<indexVars, hsIndex, seen, wire, put, defined>>

WriteHeader(n) ==
    /\ pc = "write"
    /\ hsIndex < HeaderSize /\ n \in 1..(HeaderSize - hsIndex)
    /\ wire' = wire \o SubSeq(buf, hsIndex + 1, hsIndex + n)
    /\ hsIndex' = hsIndex + n
    /\ UNCHANGED <<indexVars, pc, saved, seen, put, defined>>

WriteBody(n) ==
    /\ pc = "write"
    /\ hsIndex >= HeaderSize /\ n \in 1..ReadableSize
    /\ wire' = wire \o First(n)
    /\ Retrieve(n)
    /\ UNCHANGED <<hsIndex, pc, saved, seen, put, defined>>

Unwritten == hsIndex < HeaderSize \/ ReadableSize # 0

\* write() failed with EINTR: it is called again, and savedErrno stays.
WriteInterrupted ==
    /\ pc = "write" /\ Unwritten
    /\ saved' = "EINTR"
    /\ UNCHANGED <<indexVars, hsIndex, pc, seen, wire, put, defined>>

WriteFails ==
    /\ pc = "write" /\ Unwritten
    /\ saved' = "error"
    /\ pc' = "idle"
    /\ UNCHANGED <<indexVars, hsIndex, seen, wire, put, defined>>

\* As if the loop ended with any call that writes less than all.
StopsEarly ==
    /\ pc = "write"
    /\ pc' = "idle"
    /\ UNCHANGED <<indexVars, hsIndex, saved, seen, wire, put, defined>>

WriteDone ==
    /\ pc = "write" /\ ~Unwritten
    /\ pc' = "idle"
    /\ UNCHANGED <<indexVars, hsIndex, saved, seen, wire, put, defined>>

-----------------------------------------------------------------------------
ReadStep ==
    \/ \E n \in 0..MaxBytes : Peek(n) \/ RetrieveBytes(n) \/ PeekInt(n) \/ RetrieveInt(n)
    \/ \E offset, n \in 0..HeaderSize : HeadGet(offset, n) \/ HeadGetInt(offset, n)

WriteFdStep ==
    \/ \E n \in 1..HeaderSize : WriteHeader(n)
    \/ \E n \in 1..MaxBytes : WriteBody(n)
    \/ WriteInterrupted \/ WriteFails \/ WriteDone

Next ==
    \/ \E k \in 0..MaxBytes : AppendBytes(k) \/ AppendInt(k) \/ ReadFd(k)
    \/ \E errno \in {"EINTR", "error"} : ReadFdFails(errno)
    \/ ReadStep
    \/ \E offset, n \in 0..HeaderSize : HeadSet(offset, n)
    \/ BeginWriteFd \/ WriteFdStep

Spec == Init /\ [][Next]_vars

-----------------------------------------------------------------------------
(* Properties.                                                             *)

\* Whatever is appended, read, retrieved, compacted and grown, the indices
\* stay in order: header, consumed bytes, readable bytes, free space.
\* (Every access of begin() + rIndex_ or begin() + wIndex_ is inside buf_.)
IndicesInOrder ==
    /\ HeaderSize <= rIndex
    /\ rIndex <= wIndex
    /\ wIndex <= Len(buf)

\* Compaction and growth lose, repeat and reorder nothing, integers go out and
\* come back in the same byte order, and however write(2) splits what it is
\* given, the header goes out once, and before the body.
Abstract == INSTANCE ByteQueue WITH header <- Header, contents <- Readable, sent <- hsIndex
ImplementsByteQueue == Abstract!Spec

\* savedErrno tells the caller of writeFd() whether all went out: handleWrite()
\* stops watching the descriptor when it is 0, and would never write the rest.
\* (EINTR also means all: it stays when the repeated write(2) succeeds.)
ErrnoTellsTheRest ==
    [][pc = "write" /\ pc' = "idle" => (Unwritten' <=> saved' = "error")]_vars

=============================================================================
