------------------------------- MODULE Codec -------------------------------
(***************************************************************************)
(* rpc::Codec: a frame is the length of a serialized message, in four      *)
(* digits with the most significant one first, and the message.  A stream  *)
(* of frames is a sequence of cells: digits, and the cells of Message,     *)
(* each of which stands for one byte of a length.                          *)
(***************************************************************************)
EXTENDS Message

CONSTANTS
    ByteBase,     \* the values of a byte
    MaxFrameSize  \* MAX_FRAME_SIZE

UInt32Max == ByteBase * ByteBase * ByteBase * ByteBase - 1

ASSUME CodecAssumption ==
    /\ ByteBase \in Nat \ {0, 1}
    /\ MaxFrameSize \in 0 .. UInt32Max

Digit(d) == [kind |-> "digit", val |-> d]

\* htonl and ntohl.  Every byte is a digit to ntohl, but only those that htonl
\* made have a value here.
Place == <<ByteBase * ByteBase * ByteBase, ByteBase * ByteBase, ByteBase, 1>>
LengthCells(n) == [i \in 1 .. 4 |-> Digit((n \div Place[i]) % ByteBase)]
ValueOf(c) == IF c \in {Digit(d) : d \in 0 .. ByteBase - 1} THEN c.val ELSE 0
LengthOf(s) == ValueOf(s[1]) * Place[1] + ValueOf(s[2]) * Place[2]
               + ValueOf(s[3]) * Place[3] + ValueOf(s[4]) * Place[4]

\* Codec::encode of a message serialized as `data`: its frame, or nothing.
\* SerializeToString fails first, for what an int does not count.
IntMax == UInt32Max \div 2
NoFrame == <<>>
Encode(data) ==
    IF Len(data) > IntMax \/ Len(data) > UInt32Max THEN NoFrame
    ELSE LengthCells(Len(data)) \o data

\* Codec::decode of the readable bytes `s`, for requests.  What it consumes is
\* 0 unless the frame is complete.
Decoded(status, consumed, msg) == [status |-> status, consumed |-> consumed, msg |-> msg]

Decode(s) ==
    IF Len(s) < 4 THEN Decoded("Incomplete", 0, RequestDefault)
    ELSE LET len == LengthOf(s) IN
         IF len > MaxFrameSize THEN Decoded("Corrupted", 0, RequestDefault)
         ELSE IF len > Len(s) - 4 THEN Decoded("Incomplete", 0, RequestDefault)
         ELSE LET p == RequestParse(RequestDefault, SubSeq(s, 5, 4 + len)) IN
              Decoded(IF p.ok THEN "Ok" ELSE "Corrupted", 4 + len, p.msg)
=============================================================================
