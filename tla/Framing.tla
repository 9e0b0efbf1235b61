------------------------------ MODULE Framing ------------------------------
(***************************************************************************)
(* A TCP connection in one direction, from the program that sends messages *)
(* to the one that reads them.  Each end is a TcpConnection on its own     *)
(* loop thread.  The sender encodes a request and gives it to sendInLoop,  *)
(* which writes what the socket takes and keeps the rest in the output     *)
(* buffer for handleWrite; the receiver's handleRead fills the input       *)
(* buffer, and onMessage takes frames off it until one is not complete.    *)
(* Either end may close at any time.                                       *)
(*                                                                         *)
(* `pipe` is what was written and not read, in the sockets and on the      *)
(* network; a read finds any part of it.                                   *)
(***************************************************************************)
EXTENDS Codec, FiniteSets

CONSTANTS
    Messages,     \* the requests that the sender sends, each at most once
    MaxSends,     \* bound: how many
    PipeSize,     \* bound: the cells between a write and a read
    Zero, InitialSize, ExtraSize

Cells == {Tag(num, type) : num \in 0 .. 9, type \in {"len", "varint", "end"}}
         \cup {Payload(v) : v \in Strings \cup Codes}
         \cup {Digit(d) : d \in 0 .. ByteBase - 1} \cup {Zero}

B == INSTANCE Buffer WITH Bytes <- Cells

\* A request whose fields a program has set: the parser kept nothing in it.
Requests == [service_name : Strings, method_name : Strings, request_id : Strings,
             body : Strings, unknown : {<<>>}]

ASSUME FramingAssumption ==
    /\ B!BufferConstants
    /\ PipeSize \in Nat \ {0}
    /\ Messages \subseteq Requests

VARIABLES
    outBuf,     \* the sender's output_buffer_
    writing,    \* EPOLLOUT is in events_ of the sender's channel
    sender,     \* its state_: "Connected", "Disconnected", "killed" by SIGPIPE
    pipe,
    fin,        \* the sender's socket is closed: a FIN follows what is in the pipe
    error,      \* the error of the sender's socket after a RST, or "none"
    inBuf,      \* the receiver's input_buffer_
    receiver,   \* its state_
    reading,    \* onMessage runs
    \* History, read by properties only:
    written,    \* what was given to sendInLoop
    taken,      \* what onMessage retrieved
    sent,       \* the messages sent
    delivered   \* the messages decoded

senderVars == <<outBuf, writing, sender>>
receiverVars == <<inBuf, receiver, reading>>
netVars == <<pipe, fin, error>>
history == <<written, taken, sent, delivered>>
vars == <<senderVars, receiverVars, netVars, history>>

Least(m, n) == IF m < n THEN m ELSE n
PipeRoom == PipeSize - Len(pipe)
Frame == [m \in Messages |-> Encode(RequestSerialize(m))]

-----------------------------------------------------------------------------

Init ==
    /\ outBuf = B!NewBuffer(InitialSize)
    /\ writing = FALSE
    /\ sender = "Connected"
    /\ pipe = <<>>
    /\ fin = FALSE
    /\ error = "none"
    /\ inBuf = B!NewBuffer(InitialSize)
    /\ receiver = "Connected"
    /\ reading = FALSE
    /\ written = <<>>
    /\ taken = <<>>
    /\ sent = <<>>
    /\ delivered = <<>>

(* The sender.                                                             *)

\* What is left of a write goes to the output buffer, and EPOLLOUT is enabled.
KeepQuietly(rest) ==
    /\ outBuf' = B!AppendBytes(outBuf, rest)
    /\ UNCHANGED writing
Keep(rest) ==
    /\ outBuf' = B!AppendBytes(outBuf, rest)
    /\ writing' = TRUE

\* write() takes some of the data, or fails with EAGAIN or ECONNRESET.
WriteNow(data) ==
    \/ /\ PipeRoom > 0
       /\ error = "none"
       /\ \E n \in 1 .. Least(Len(data), PipeRoom) :
            /\ pipe' = pipe \o SubSeq(data, 1, n)
            /\ IF n < Len(data) THEN Keep(SubSeq(data, n + 1, Len(data)))
                                ELSE UNCHANGED <<outBuf, writing>>
    \/ /\ (error = "none" /\ PipeRoom = 0) \/ error = "ECONNRESET"
       /\ Keep(data)
       /\ UNCHANGED pipe

SendInLoop(data) ==
    IF B!ReadableBytes(outBuf) = 0 THEN WriteNow(data) ELSE Keep(data) /\ UNCHANGED pipe

Unsent == {m \in Messages : \A i \in DOMAIN sent : sent[i] # m}

\* A message that cannot be encoded is not sent.
Send(m) ==
    /\ m \in Unsent
    /\ Len(sent) < MaxSends
    /\ sender = "Connected"
    /\ Frame[m] # NoFrame
    /\ SendInLoop(Frame[m])
    /\ written' = written \o Frame[m]
    /\ sent' = Append(sent, m)
    /\ UNCHANGED <<sender, fin, error, receiverVars, taken, delivered>>

\* handleWrite, when epoll says that there is room and no error.
HandleWrite ==
    /\ writing
    /\ sender = "Connected"
    /\ error = "none"
    /\ \E n \in 1 .. Least(B!ReadableBytes(outBuf), PipeRoom) :
        /\ pipe' = pipe \o B!WriteFd(outBuf, n)
        /\ outBuf' = B!Retrieve(outBuf, n)
        /\ writing' = (B!ReadableBytes(outBuf') # 0)
    /\ UNCHANGED <<sender, fin, error, receiverVars, history>>

\* write() fails with EPIPE: nothing ignores the SIGPIPE that comes with it.
Killed ==
    /\ sender = "Connected"
    /\ error = "EPIPE"
    /\ B!ReadableBytes(outBuf) = 0
    /\ \E m \in Unsent : Frame[m] # NoFrame
    /\ sender' = "killed"
    /\ fin' = TRUE
    /\ UNCHANGED <<outBuf, writing, pipe, error, receiverVars, history>>

\* handleClose of the sender, for a reason of its own or because it sees that
\* the other end closed; its connection is destroyed and the socket closed.
SenderCloses ==
    /\ sender = "Connected"
    /\ sender' = "Disconnected"
    /\ writing' = FALSE
    /\ fin' = TRUE
    /\ UNCHANGED <<outBuf, pipe, error, receiverVars, history>>

\* What arrives where the receiver has closed, or was there unread when it did,
\* is answered with a RST; the error is EPIPE if a FIN came before.
Resets ==
    /\ receiver = "Disconnected"
    /\ pipe # <<>>
    /\ error = "none"
    /\ error' \in {"ECONNRESET", "EPIPE"}
    /\ UNCHANGED <<senderVars, pipe, fin, receiverVars, history>>

-----------------------------------------------------------------------------
(* The receiver.                                                           *)

\* handleRead: ReadFd, then the message callback.
HandleRead ==
    /\ receiver = "Connected"
    /\ ~reading
    /\ \E n \in 1 .. Least(Len(pipe), B!ReadFdRoom(inBuf)) :
        /\ inBuf' = B!ReadFd(inBuf, SubSeq(pipe, 1, n))
        /\ pipe' = SubSeq(pipe, n + 1, Len(pipe))
    /\ reading' = TRUE
    /\ UNCHANGED <<receiver, senderVars, fin, error, history>>

ReceiverGone ==
    /\ receiver' = "Disconnected"
    /\ reading' = FALSE

\* A turn of the loop of onMessage.
DecodeTurn ==
    /\ reading
    /\ LET d == Decode(B!Readable(inBuf)) IN
        \/ /\ d.status = "Incomplete"
           /\ reading' = FALSE
           /\ UNCHANGED <<inBuf, receiver, taken, delivered>>
        \/ /\ d.status = "Corrupted"
           /\ ReceiverGone
           /\ UNCHANGED <<inBuf, taken, delivered>>
        \/ /\ d.status = "Ok"
           /\ inBuf' = B!Retrieve(inBuf, d.consumed)
           /\ taken' = taken \o SubSeq(B!Readable(inBuf), 1, d.consumed)
           /\ delivered' = Append(delivered, d.msg)
           /\ UNCHANGED <<receiver, reading>>
    /\ UNCHANGED <<senderVars, netVars, written, sent>>

\* HandleEvent tests EPOLLRDHUP before EPOLLIN: once the FIN is there the
\* connection is closed, whatever is left to read.
HandleRdHup ==
    /\ receiver = "Connected"
    /\ ~reading
    /\ fin
    /\ ReceiverGone
    /\ UNCHANGED <<inBuf, senderVars, netVars, history>>

\* The receiver closes for a reason of its own.
ReceiverCloses ==
    /\ receiver = "Connected"
    /\ ~reading
    /\ ReceiverGone
    /\ UNCHANGED <<inBuf, senderVars, netVars, history>>

-----------------------------------------------------------------------------
Next ==
    \/ \E m \in Messages : Send(m)
    \/ HandleWrite \/ Killed \/ SenderCloses \/ Resets
    \/ HandleRead \/ DecodeTurn \/ HandleRdHup \/ ReceiverCloses

Safety == Init /\ [][Next]_vars

\* The two loop threads go on: an event that epoll reports is handled.  This is
\* weak fairness of three actions, with what enables each of them written out.
CanWrite == writing /\ sender = "Connected" /\ error = "none" /\ PipeRoom > 0
CanRead == receiver = "Connected" /\ ~reading /\ pipe # <<>>

Fairness ==
    /\ []<>~CanWrite \/ []<><<HandleWrite>>_vars
    /\ []<>~CanRead \/ []<><<HandleRead>>_vars
    /\ []<>~reading \/ []<><<DecodeTurn>>_vars

Spec == Safety /\ Fairness

-----------------------------------------------------------------------------
(* Properties.                                                             *)

\* The positions of both buffers stay inside their vectors, as the asserts in
\* buffer.cc have it, and EPOLLOUT is asked for as long as output waits.
TypeOK ==
    /\ outBuf \in B!Buffers
    /\ inBuf \in B!Buffers
    /\ writing \in BOOLEAN
    /\ sender \in {"Connected", "Disconnected", "killed"}
    /\ receiver \in {"Connected", "Disconnected"}
    /\ reading \in BOOLEAN
    /\ fin \in BOOLEAN
    /\ error \in {"none", "ECONNRESET", "EPIPE"}
    /\ pipe \in Seq(Cells)
    /\ written \in Seq(Cells)
    /\ taken \in Seq(Cells)
    /\ sent \in Seq(Messages)
    /\ sender = "Connected" => (writing <=> B!ReadableBytes(outBuf) > 0)

\* Through two buffers that grow, shift and are read in pieces, and a socket
\* that takes pieces, no byte is lost, doubled or overtaken: what was given to
\* sendInLoop is what onMessage took, what waits in the input buffer, in the
\* sockets and in the output buffer, in this order.
BytesConserved == written = taken \o B!Readable(inBuf) \o pipe \o B!Readable(outBuf)

\* Each relies on the other: what a buffer moves is what it holds as long as
\* its positions are right.
WireConsistent == TypeOK /\ BytesConserved

\* A message the receiver accepts: not longer than MAX_FRAME_SIZE, which
\* Codec::encode does not look at, and with strings that are UTF-8.
Acceptable == {m \in Messages :
    /\ Len(RequestSerialize(m)) <= MaxFrameSize
    /\ \A num \in DOMAIN RequestFields :
        RequestFields[num].utf8 => m[RequestFields[num].name] # BadUtf8}

\* The messages are delivered as they were sent and in their order, and as long
\* as both ends are open they all are, up to one that the receiver does not
\* accept, which closes the connection.
Stream == INSTANCE MessageStream WITH
    Accepted <- Acceptable,
    open <- sender = "Connected" /\ receiver = "Connected"
StreamSafety == Stream!Init /\ [][Stream!Next]_(Stream!vars)
StreamProgress == Stream!Progress
=============================================================================
