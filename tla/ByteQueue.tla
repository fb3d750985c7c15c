------------------------------ MODULE ByteQueue ------------------------------
(***************************************************************************)
(* What a PacketBuffer promises to its users: a header of fixed length     *)
(* that can be set and read in place and goes out once, before everything  *)
(* else; and a queue of bytes that leave in the order in which they came.  *)
(***************************************************************************)
EXTENDS Integers, Sequences, SequencesExt

CONSTANTS
    HeaderSize,
    Byte

VARIABLES
    header,     \* the header
    contents,   \* bytes that came and have not left
    put,        \* how many bytes have come; a byte is the number it came with
    sent,       \* how many bytes of the header have gone out
    wire,       \* what has gone out
    seen        \* what the last reading call returned

vars == <<header, contents, put, sent, wire, seen>>

Init ==
    /\ header \in [1..HeaderSize -> Byte]
    /\ contents = <<>>
    /\ put = 0
    /\ sent = 0
    /\ wire = <<>>
    /\ seen = <<>>

\* A caller gives and gets bytes as they are, or as an integer in its own
\* byte order.
Forms(bytes) == {bytes, Reverse(bytes)}

Put ==
    /\ put' - put \in Nat
    /\ LET bytes == [i \in 1..(put' - put) |-> put + i]
       IN  \E form \in Forms(bytes) : contents' = contents \o form
    /\ UNCHANGED <<header, sent, wire, seen>>

Rest(n) == SubSeq(contents, n + 1, Len(contents))

\* A reading call may leave the bytes, or take them out.
See ==
    /\ \E n \in 0..Len(contents) :
           /\ seen' \in Forms(SubSeq(contents, 1, n))
           /\ contents' \in {contents, Rest(n)}
    /\ UNCHANGED <<header, put, sent, wire>>

SetHeader ==
    /\ header' \in [1..HeaderSize -> Byte]
    /\ UNCHANGED <<contents, put, sent, wire, seen>>

SeeHeader ==
    /\ \E offset \in 0..HeaderSize : \E n \in 0..(HeaderSize - offset) :
           seen' \in Forms(SubSeq(header, offset + 1, offset + n))
    /\ UNCHANGED <<header, contents, put, sent, wire>>

SendHeader ==
    /\ \E n \in 1..(HeaderSize - sent) :
           /\ sent' = sent + n
           /\ wire' = wire \o SubSeq(header, sent + 1, sent + n)
    /\ UNCHANGED <<header, contents, put, seen>>

SendBody ==
    /\ sent = HeaderSize
    /\ \E n \in 1..Len(contents) :
           /\ wire' = wire \o SubSeq(contents, 1, n)
           /\ contents' = Rest(n)
    /\ UNCHANGED <<header, put, sent, seen>>

Next == Put \/ See \/ SetHeader \/ SeeHeader \/ SendHeader \/ SendBody

Spec == Init /\ [][Next]_vars
=============================================================================
