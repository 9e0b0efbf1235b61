------------------------------- MODULE Buffer -------------------------------
(***************************************************************************)
(* rpc::Buffer: a vector of bytes with the positions between which there   *)
(* is something to read.  What is before readPos_ and after writePos_ is   *)
(* still in the vector.  An operation that also returns something gives a  *)
(* record with `value`.                                                    *)
(***************************************************************************)
EXTENDS Integers, Sequences

CONSTANTS
    Bytes,
    Zero,         \* what a vector is filled with
    InitialSize,  \* INITIAL_SIZE
    ExtraSize     \* the size of extrabuf in ReadFd

\* Assumed by every module that takes this one.
BufferConstants ==
    /\ Zero \in Bytes
    /\ InitialSize \in Nat \ {0}
    /\ ExtraSize \in Nat

Buffers == {b \in [bytes : Seq(Bytes), readPos : Nat, writePos : Nat] :
                b.readPos <= b.writePos /\ b.writePos <= Len(b.bytes)}

Zeros(n) == [i \in 1 .. n |-> Zero]
NewBuffer(initialSize) == [bytes |-> Zeros(initialSize), readPos |-> 0, writePos |-> 0]

\* The move constructor leaves a vector of no bytes behind.
MovedFrom(b) == NewBuffer(0)

ReadableBytes(b) == b.writePos - b.readPos
WritableBytes(b) == Len(b.bytes) - b.writePos
PrependableBytes(b) == b.readPos

\* PeekStringView, and Peek with ReadableBytes.
Readable(b) == SubSeq(b.bytes, b.readPos + 1, b.writePos)

RetrieveAll(b) == [b EXCEPT !.readPos = 0, !.writePos = 0]

Retrieve(b, len) ==
    IF len < ReadableBytes(b) THEN [b EXCEPT !.readPos = @ + len] ELSE RetrieveAll(b)

RetrieveAllToStr(b) == [value |-> Readable(b), left |-> RetrieveAll(b)]
ReadString(b, n) == [value |-> SubSeq(b.bytes, b.readPos + 1, b.readPos + n), left |-> Retrieve(b, n)]

\* The four bytes of a number; see Codec for what ntohl makes of them.
PeekInt32(b) == SubSeq(b.bytes, b.readPos + 1, b.readPos + 4)
ReadInt32(b) == [value |-> PeekInt32(b), left |-> Retrieve(b, 4)]

Greater(m, n) == IF m < n THEN n ELSE m

\* resize keeps the bytes and adds zeros; moving the readable bytes to the
\* front leaves the others where they are.
Grown(b, needed) ==
    LET newSize == Greater(b.writePos + needed, needed + InitialSize)
    IN [b EXCEPT !.bytes = @ \o Zeros(newSize - Len(@))]

ShiftedInPlace(b) ==
    [bytes |-> b.bytes, readPos |-> 0, writePos |-> ReadableBytes(b)]
Shifted(b) ==
    [bytes |-> Readable(b) \o SubSeq(b.bytes, ReadableBytes(b) + 1, Len(b.bytes)),
     readPos |-> 0,
     writePos |-> ReadableBytes(b)]

MakeSpace(b, needed) ==
    IF WritableBytes(b) + PrependableBytes(b) < needed THEN Grown(b, needed) ELSE Shifted(b)

EnsureWritableButOne(b, len) == IF WritableBytes(b) < len - 1 THEN MakeSpace(b, len) ELSE b
EnsureWritable(b, len) == IF WritableBytes(b) < len THEN MakeSpace(b, len) ELSE b

\* std::copy to WriteBegin, and HasWritten.
Stored(b, data) ==
    [b EXCEPT !.bytes = [i \in DOMAIN @ |->
                            IF i \in b.writePos + 1 .. b.writePos + Len(data)
                            THEN data[i - b.writePos] ELSE @[i]],
              !.writePos = @ + Len(data)]

AppendBytes(b, data) == Stored(EnsureWritable(b, Len(data)), data)

\* ReadFd when readv gives `data`: it fills the vector and then extrabuf, whose
\* content is appended.
ReadFdRoom(b) == WritableBytes(b) + ExtraSize
ReadFd(b, data) ==
    IF Len(data) <= WritableBytes(b) THEN Stored(b, data)
    ELSE AppendBytes(Stored(b, SubSeq(data, 1, WritableBytes(b))),
                     SubSeq(data, WritableBytes(b) + 1, Len(data)))

\* WriteFd, when write takes n bytes.
WriteFd(b, n) == SubSeq(b.bytes, b.readPos + 1, b.readPos + n)
=============================================================================
