----------------------------- MODULE RpcClient -----------------------------
(***************************************************************************)
(* rpc::RpcClient with the TcpClient and the event loop it owns: calls     *)
(* from several threads and from callbacks, responses, timeouts, a         *)
(* connection that fails or ends at any time, and Stop.                    *)
(*                                                                         *)
(*   threads   one per call that the application makes (a call may also be *)
(*             made by the loop thread, inside the callback of another),   *)
(*             the owner, who calls Start and Stop, and the loop thread;   *)
(*   shared    pending_calls_ under pending_mutex_, the atomics stopped_   *)
(*             and connected_, the functor queue under its mutex, and      *)
(*             TcpClient::connection_, which nothing protects.             *)
(*                                                                         *)
(* Time is abstract: an armed timer may fire at any tick (TimeWheel says   *)
(* when).  Sockets are the peer's view `net`, what we wrote and it has not *)
(* answered, and what it wrote and we have not read.  Request ids are      *)
(* unique; the timer ids made from them are TimerOf, whatever it is.       *)
(***************************************************************************)
EXTENDS Integers, Sequences, FiniteSets

CONSTANTS
    Calls,     \* the calls made, each with its request id
    TimerIds,
    TimerOf,   \* the int that std::hash of a request id is cut down to
    NoCall,
    Corrupt,   \* a frame that Codec::decode rejects
    Faults     \* what may go wrong: "encode", "corrupt", "reset", "refuse"; or
               \* "untimed", a call with a negative timeout_ms

ASSUME ClientAssumption ==
    /\ TimerOf \in [Calls -> TimerIds]
    /\ NoCall \notin Calls
    /\ Corrupt \notin Calls

VARIABLES
    \* RpcClient and TcpClient
    stopped,   \* RpcClient::stopped_
    pending,   \* the keys of pending_calls_
    holder,    \* the call whose thread holds pending_mutex_ between two steps
    connected, \* TcpClient::connected_
    link,      \* "null", "connecting" (channel_ set), or connection_: "up", "down"
    \* EventLoop
    quit,      \* quit_
    functors,  \* pending_functors_
    batch,     \* the local queue of HandlePendingFunctors
    timers,    \* timer_map_: the call whose timeout is armed under an id
    \* the threads
    lpc,       \* the loop thread, and where it goes
    retCb,     \*   when the callback it is in returns,
    retDrop,   \*   when onConnection or onError returns,
    retClose,  \*   when handleClose returns
    onLoop,    \* the call the loop thread is making
    frames,    \* complete frames in the input buffer
    tmpLoop,   \* the local map of a DropAllPending on the loop thread
    firing,    \* the id of the timer whose callback runs
    cpc,       \* each call's thread
    spc,       \* the owner
    tmpStop,   \* the local map of the DropAllPending in Stop
    \* the other end
    net,       \* "none", "syn", "open", "failed", "fin", "rst"
    wire,      \* requests written and not answered
    inbox,     \* frames sent by the peer and not read
    \* History, read by properties only:
    results,   \* the codes each call's callback was given
    accepted   \* the calls that entered pending_calls_

clientVars == <<stopped, pending, holder, connected, link>>
loopVars   == <<lpc, retCb, retDrop, retClose, onLoop, frames, tmpLoop, firing>>
queueVars  == <<quit, functors, batch>>
netVars    == <<net, wire, inbox>>
ownerVars  == <<spc, tmpStop>>
history    == <<results, accepted>>
vars == <<clientVars, loopVars, queueVars, timers, cpc, ownerVars, netVars, history>>

LoopPC == {"off", "begin", "test", "handle", "frames", "tick", "run", "callback",
           "notify", "swap", "drop", "closed", "reset", "exited"}
CallPC == {"new", "gate", "timer", "encode", "failed", "late", "deref", "end", "crashed"}
OwnerPC == {"new", "spawned", "started", "swap", "drop", "disconnect", "quit", "join",
            "final", "stopped"}
Codes == {"not_running", "encode_failed", "timeout", "disconnected", "network_error", "response"}

\* The functors this client queues.
FConnect == [op |-> "connect", call |-> NoCall]
FClose == [op |-> "close", call |-> NoCall]
FDisconnect == [op |-> "disconnect", call |-> NoCall]
FAddTimer(c) == [op |-> "addTimer", call |-> c]
FRemoveTimer(c) == [op |-> "removeTimer", call |-> c]
FSend(c) == [op |-> "send", call |-> c]
Functors == [op : {"connect", "disconnect"}, call : {NoCall}]
            \cup [op : {"addTimer", "removeTimer", "send"}, call : Calls]

Init ==
    /\ stopped = FALSE
    /\ pending = {}
    /\ holder = NoCall
    /\ connected = FALSE
    /\ link = "null"
    /\ quit = FALSE
    /\ functors = <<>>
    /\ batch = <<>>
    /\ timers = [i \in TimerIds |-> NoCall]
    /\ lpc = "off"
    /\ retCb = "tick"
    /\ retDrop = "tick"
    /\ retClose = "tick"
    /\ onLoop = NoCall
    /\ frames = <<>>
    /\ tmpLoop = {}
    /\ firing = {}
    /\ cpc = [c \in Calls |-> "new"]
    /\ spc = "new"
    /\ tmpStop = {}
    /\ net = "none"
    /\ wire = {}
    /\ inbox = <<>>
    /\ results = [c \in Calls |-> <<>>]
    /\ accepted = {}

-----------------------------------------------------------------------------
(* Helpers.  A definition just above another with its parameters is a      *)
(* wrong variant of it, a slip the code could have; nothing here uses it.  *)

\* A callback is invoked.
Answer(c, code) == results' = [results EXCEPT ![c] = Append(@, code)]

\* pending_calls_.erase(it), after the callback was moved out.
Kept(c) == pending
Taken(c) == pending \ {c}

\* QueueInLoop, and RunInLoop off the loop thread.
PostFront(f) == functors' = <<f>> \o functors
Post(f) == functors' = Append(functors, f)

MutexFree == holder = NoCall

\* TimeWheel::AddTimer does nothing for an id that is in the map.
NotArmed(c) == timers
Armed(c) == IF timers[TimerOf[c]] = NoCall
            THEN [timers EXCEPT ![TimerOf[c]] = c] ELSE timers

\* EventLoop::AddTimer on its thread; a negative delay arms nothing.
Arms(c) ==
    \/ timers' = Armed(c)
    \/ "untimed" \in Faults /\ UNCHANGED timers

\* TimeWheel::RemoveTimer.
Disarmed(c) == [timers EXCEPT ![TimerOf[c]] = NoCall]

\* The end of Tick's work on a timer: its entry goes.
LeftArmed(ids) == timers
Erased(ids) == [i \in TimerIds |-> IF i \in ids THEN NoCall ELSE timers[i]]

\* TcpConnection::sendInLoop; what the socket does not take yet waits in the
\* output buffer, which is a delay on the wire.
Written(c) == IF link = "up" THEN wire \cup {c} ELSE wire

\* TcpConnection::handleClose up to the connection callback.
HandleCloseForgets(ret) ==
    /\ link' = "null"
    /\ retDrop' = "closed"
    /\ retClose' = ret
    /\ lpc' = "notify"
HandleClose(ret) ==
    /\ link' = "down"
    /\ retDrop' = "closed"
    /\ retClose' = ret
    /\ lpc' = "notify"

-----------------------------------------------------------------------------
(* CallRaw, on a thread of the application or, nested in the callback of   *)
(* another call, on the loop thread.                                       *)

OnLoop(c) == onLoop = c

\* The call returns.
Returns(c) == onLoop' = IF OnLoop(c) THEN NoCall ELSE onLoop

\* Who holds the mutex between the two tests of CallRaw.
UnlockedGate(c) == NoCall
GateHolder(c) == c

\* pending_mutex_ is locked and stopped_ is read; the refusal's callback runs
\* with the mutex held.  (A refusal looks the same on either thread.)
CallEnter(c) ==
    /\ cpc[c] = "new"
    /\ MutexFree
    /\ \/ UNCHANGED onLoop
       \/ /\ lpc = "callback"
          /\ onLoop = NoCall
          /\ ~stopped
          /\ onLoop' = c
    /\ IF stopped
       THEN /\ cpc' = [cpc EXCEPT ![c] = "end"]
            /\ Answer(c, "not_running")
            /\ UNCHANGED holder
       ELSE /\ cpc' = [cpc EXCEPT ![c] = "gate"]
            /\ holder' = GateHolder(c)
            /\ UNCHANGED results
    /\ UNCHANGED <<stopped, pending, connected, link, lpc, retCb, retDrop, retClose, frames,
                   tmpLoop, firing, queueVars, timers, ownerVars, netVars, accepted>>

\* connected_ is read; the call is refused, or entered in pending_calls_.
CallGate(c) ==
    /\ cpc[c] = "gate"
    /\ holder' = NoCall
    /\ \/ /\ ~connected
          /\ Answer(c, "not_running")
          /\ cpc' = [cpc EXCEPT ![c] = "end"]
          /\ Returns(c)
          /\ UNCHANGED <<pending, accepted>>
       \/ /\ connected
          /\ pending' = pending \cup {c}
          /\ accepted' = accepted \cup {c}
          /\ cpc' = [cpc EXCEPT ![c] = "timer"]
          /\ UNCHANGED <<results, onLoop>>
    /\ UNCHANGED <<stopped, connected, link, lpc, retCb, retDrop, retClose, frames,
                   tmpLoop, firing, queueVars, timers, ownerVars, netVars>>

\* loop_->AddTimer.
CallAddTimer(c) ==
    /\ cpc[c] = "timer"
    /\ cpc' = [cpc EXCEPT ![c] = "encode"]
    /\ IF OnLoop(c)
       THEN Arms(c) /\ UNCHANGED functors
       ELSE Post(FAddTimer(c)) /\ UNCHANGED timers
    /\ UNCHANGED <<clientVars, quit, batch, loopVars, ownerVars, netVars, history>>

\* Codec::encode fails: the call takes its own callback back, if it still can.
EncodeFails(c) ==
    /\ "encode" \in Faults
    /\ cpc[c] = "encode"
    /\ MutexFree
    /\ pending' = Taken(c)
    /\ cpc' = [cpc EXCEPT ![c] = IF c \in pending THEN "failed" ELSE "late"]
    /\ UNCHANGED <<stopped, holder, connected, link, queueVars, timers, loopVars, ownerVars,
                   netVars, history>>

\* loop_->RemoveTimer, then the callback it took.
AnswerEncodeFailed(c) ==
    /\ cpc[c] \in {"failed", "late"}
    /\ IF OnLoop(c)
       THEN timers' = Disarmed(c) /\ UNCHANGED functors
       ELSE Post(FRemoveTimer(c)) /\ UNCHANGED timers
    /\ IF cpc[c] = "failed" THEN Answer(c, "encode_failed") ELSE UNCHANGED results
    /\ cpc' = [cpc EXCEPT ![c] = "end"]
    /\ Returns(c)
    /\ UNCHANGED <<clientVars, quit, batch, lpc, retCb, retDrop, retClose, frames, tmpLoop,
                   firing, ownerVars, netVars, accepted>>

\* Codec::encode succeeds and TcpClient::Send tests connection_.
CallSend(c) ==
    /\ cpc[c] = "encode"
    /\ \/ /\ link \in {"up", "down"}
          /\ cpc' = [cpc EXCEPT ![c] = "deref"]
          /\ UNCHANGED onLoop
       \/ /\ link \in {"null", "connecting"}
          /\ cpc' = [cpc EXCEPT ![c] = "end"]
          /\ Returns(c)
    /\ UNCHANGED <<clientVars, queueVars, timers, lpc, retCb, retDrop, retClose, frames,
                   tmpLoop, firing, ownerVars, netVars, history>>

\* connection_->send: connection_ is read again, and by now it may be null.
CallDeref(c) ==
    /\ cpc[c] = "deref"
    /\ \/ /\ link \in {"null", "connecting"}
          /\ cpc' = [cpc EXCEPT ![c] = "crashed"]
          /\ UNCHANGED <<functors, wire, onLoop>>
       \/ /\ link \in {"up", "down"}
          /\ cpc' = [cpc EXCEPT ![c] = "end"]
          /\ Returns(c)
          /\ IF OnLoop(c)
             THEN wire' = Written(c) /\ UNCHANGED functors
             ELSE /\ functors' = IF link = "up" THEN Append(functors, FSend(c)) ELSE functors
                  /\ UNCHANGED wire
    /\ UNCHANGED <<clientVars, quit, batch, timers, lpc, retCb, retDrop, retClose, frames,
                   tmpLoop, firing, ownerVars, net, inbox, history>>

CallStep(c) ==
    \/ CallGate(c) \/ CallAddTimer(c) \/ EncodeFails(c) \/ AnswerEncodeFailed(c)
    \/ CallSend(c) \/ CallDeref(c)

-----------------------------------------------------------------------------
(* The loop thread: EventLoop::Loop.                                       *)

Begin ==
    /\ lpc = "begin"
    /\ quit' = FALSE
    /\ lpc' = "test"
    /\ UNCHANGED <<clientVars, functors, batch, timers, retCb, retDrop, retClose, onLoop, frames,
                   tmpLoop, firing, cpc, ownerVars, netVars, history>>

GoesOnForEver == TRUE
GoesOn == ~quit

Test ==
    /\ lpc = "test"
    /\ lpc' = IF GoesOn THEN "handle" ELSE "exited"
    /\ UNCHANGED <<clientVars, queueVars, timers, retCb, retDrop, retClose, onLoop, frames,
                   tmpLoop, firing, cpc, ownerVars, netVars, history>>

\* What epoll reports and Channel::HandleEvent dispatches: a reset sets EPOLLERR
\* or EPOLLHUP, for which only the connecting channel has a callback, a FIN
\* sets EPOLLRDHUP, for which only the connection has one; both hide EPOLLIN.
ConnectReady == link = "connecting" /\ net = "open"
ConnectError == link = "connecting" /\ net \in {"failed", "rst"}
ReadReady    == link = "up" /\ net = "open" /\ inbox # <<>>
CloseReady   == link = "up" /\ net = "fin"

\* Wait returns with nothing that has a callback.
NoEvent ==
    /\ lpc = "handle"
    /\ ~(ConnectReady \/ ConnectError \/ ReadReady \/ CloseReady)
    /\ lpc' = "tick"
    /\ UNCHANGED <<clientVars, queueVars, timers, retCb, retDrop, retClose, onLoop, frames,
                   tmpLoop, firing, cpc, ownerVars, netVars, history>>

\* TcpClient::HandleWrite with no pending socket error.
ConnectSucceeds ==
    /\ lpc = "handle"
    /\ ConnectReady
    /\ link' = "up"
    /\ connected' = TRUE
    /\ lpc' = "tick"
    /\ UNCHANGED <<stopped, pending, holder, queueVars, timers, retCb, retDrop, retClose, onLoop,
                   frames, tmpLoop, firing, cpc, ownerVars, netVars, history>>

\* TcpClient::HandleError, and HandleWrite with an error; then onError.
ConnectFails ==
    /\ lpc = "handle"
    /\ ConnectError
    /\ link' = "null"
    /\ retDrop' = "tick"
    /\ lpc' = "notify"
    /\ UNCHANGED <<stopped, pending, holder, connected, queueVars, timers, retCb, retClose, onLoop,
                   frames, tmpLoop, firing, cpc, ownerVars, netVars, history>>

\* TcpConnection::handleRead: ReadFd takes some of the complete frames there.
ReadEvent ==
    /\ lpc = "handle"
    /\ ReadReady
    /\ \E n \in 1..Len(inbox) :
          /\ frames' = SubSeq(inbox, 1, n)
          /\ inbox' = SubSeq(inbox, n + 1, Len(inbox))
    /\ lpc' = "frames"
    /\ UNCHANGED <<clientVars, queueVars, timers, retCb, retDrop, retClose, onLoop,
                   tmpLoop, firing, cpc, ownerVars, net, wire, history>>

\* The connection is reset between Wait and readv, which fails: handleClose.
\* (What comes after data and a FIN is read before the end of input, and by
\* then EPOLLRDHUP is reported.)
ReadFails ==
    /\ lpc = "handle"
    /\ ReadReady
    /\ "reset" \in Faults
    /\ net' = "rst"
    /\ HandleClose("tick")
    /\ UNCHANGED <<stopped, pending, holder, connected, queueVars, timers, retCb, onLoop, frames,
                   tmpLoop, firing, cpc, ownerVars, wire, inbox, history>>

\* EPOLLRDHUP: TcpConnection::handleClose.
CloseEvent ==
    /\ lpc = "handle"
    /\ CloseReady
    /\ HandleClose("tick")
    /\ UNCHANGED <<stopped, pending, holder, connected, queueVars, timers, retCb, onLoop, frames,
                   tmpLoop, firing, cpc, ownerVars, netVars, history>>

\* The loop of onMessage: no complete frame is left, ...
FramesDone ==
    /\ lpc = "frames"
    /\ frames = <<>>
    /\ lpc' = "tick"
    /\ UNCHANGED <<clientVars, queueVars, timers, retCb, retDrop, retClose, onLoop, frames,
                   tmpLoop, firing, cpc, ownerVars, netVars, history>>

\* ... a corrupted one closes the connection and ends onMessage, ...
CorruptFrame ==
    /\ lpc = "frames"
    /\ frames # <<>>
    /\ Head(frames) = Corrupt
    /\ frames' = <<>>
    /\ HandleClose("tick")
    /\ UNCHANGED <<stopped, pending, holder, connected, queueVars, timers, retCb, onLoop,
                   tmpLoop, firing, cpc, ownerVars, netVars, history>>

\* ... a response takes the callback of its call, if it is still there.
ResponseFrame(c) ==
    /\ lpc = "frames"
    /\ frames # <<>>
    /\ Head(frames) = c
    /\ MutexFree
    /\ frames' = Tail(frames)
    /\ timers' = Disarmed(c)
    /\ \/ /\ c \in pending
          /\ pending' = Taken(c)
          /\ Answer(c, "response")
          /\ lpc' = "callback"
          /\ retCb' = "frames"
       \/ /\ c \notin pending
          /\ UNCHANGED <<pending, results, lpc, retCb>>
    /\ UNCHANGED <<stopped, holder, connected, link, queueVars, retDrop, retClose, onLoop,
                   tmpLoop, firing, cpc, ownerVars, netVars, accepted>>

\* A callback of the application returns; Tick erases its timer only now.
CallbackReturns ==
    /\ lpc = "callback"
    /\ onLoop = NoCall
    /\ lpc' = retCb
    /\ firing' = {}
    /\ timers' = Erased(firing)
    /\ UNCHANGED <<clientVars, queueVars, retCb, retDrop, retClose, onLoop, frames,
                   tmpLoop, cpc, ownerVars, netVars, history>>

-----------------------------------------------------------------------------
(* The loop thread: a connection that ends, onConnection and onError.      *)

\* Both begin by reading stopped_, ...
Notify ==
    /\ lpc = "notify"
    /\ lpc' = IF stopped THEN retDrop ELSE "swap"
    /\ UNCHANGED <<clientVars, queueVars, timers, retCb, retDrop, retClose, onLoop, frames,
                   tmpLoop, firing, cpc, ownerVars, netVars, history>>

\* ... and go on with DropAllPending: the swap under the mutex, ...
LoopSwap ==
    /\ lpc = "swap"
    /\ MutexFree
    /\ tmpLoop' = pending
    /\ pending' = {}
    /\ lpc' = "drop"
    /\ UNCHANGED <<stopped, holder, connected, link, queueVars, timers, retCb, retDrop, retClose,
                   onLoop, frames, firing, cpc, ownerVars, netVars, history>>

\* ... then timer and callback of each call, in the order of a hash map.
LoopDrop ==
    /\ lpc = "drop"
    /\ \/ /\ tmpLoop = {}
          /\ lpc' = retDrop
          /\ UNCHANGED <<timers, tmpLoop, retCb, results>>
       \/ \E c \in tmpLoop :
             /\ tmpLoop' = tmpLoop \ {c}
             /\ timers' = Disarmed(c)
             /\ Answer(c, IF retDrop = "closed" THEN "disconnected" ELSE "network_error")
             /\ lpc' = "callback"
             /\ retCb' = "drop"
    /\ UNCHANGED <<clientVars, queueVars, retDrop, retClose, onLoop, frames, firing,
                   cpc, ownerVars, netVars, accepted>>

\* The close callback of TcpClient: SetConnected(false).
StillConnected == connected
NowConnected == FALSE
CloseCallback ==
    /\ lpc = "closed"
    /\ connected' = NowConnected
    /\ lpc' = retClose
    /\ UNCHANGED <<stopped, pending, holder, link, queueVars, timers, retCb, retDrop, retClose,
                   onLoop, frames, tmpLoop, firing, cpc, ownerVars, netVars, history>>

-----------------------------------------------------------------------------
(* The loop thread: timers and functors.                                   *)

\* Tick calls the timeout callback of an armed timer that is due.
FireTimer(i) ==
    /\ lpc = "tick"
    /\ timers[i] # NoCall
    /\ MutexFree
    /\ \/ /\ timers[i] \in pending
          /\ pending' = Taken(timers[i])
          /\ Answer(timers[i], "timeout")
          /\ firing' = {i}
          /\ lpc' = "callback"
          /\ retCb' = "tick"
          /\ UNCHANGED timers
       \/ /\ timers[i] \notin pending
          /\ timers' = Erased({i})
          /\ UNCHANGED <<pending, results, firing, lpc, retCb>>
    /\ UNCHANGED <<stopped, holder, connected, link, queueVars, retDrop, retClose, onLoop, frames,
                   tmpLoop, cpc, ownerVars, netVars, accepted>>

\* Tick returns; HandlePendingFunctors swaps the queue.
SwapFunctors ==
    /\ lpc = "tick"
    /\ batch' = functors
    /\ functors' = <<>>
    /\ lpc' = "run"
    /\ UNCHANGED <<clientVars, quit, timers, retCb, retDrop, retClose, onLoop, frames,
                   tmpLoop, firing, cpc, ownerVars, netVars, history>>

RunDone ==
    /\ lpc = "run"
    /\ batch = <<>>
    /\ lpc' = "test"
    /\ UNCHANGED <<clientVars, queueVars, timers, retCb, retDrop, retClose, onLoop, frames,
                   tmpLoop, firing, cpc, ownerVars, netVars, history>>

Runs(op) == lpc = "run" /\ batch # <<>> /\ Head(batch).op = op /\ batch' = Tail(batch)

\* TcpClient::Connect: in progress, connected at once, or failed at once.
RunConnect ==
    /\ Runs("connect")
    /\ \/ /\ link' = "connecting"
          /\ net' = "syn"
          /\ UNCHANGED <<connected, lpc, retDrop>>
       \/ /\ link' = "up"
          /\ net' = "open"
          /\ connected' = TRUE
          /\ UNCHANGED <<lpc, retDrop>>
       \/ /\ "refuse" \in Faults
          /\ lpc' = "notify"
          /\ retDrop' = "run"
          /\ UNCHANGED <<link, net, connected>>
    /\ UNCHANGED <<stopped, pending, holder, quit, functors, timers, retCb, retClose, onLoop,
                   frames, tmpLoop, firing, cpc, ownerVars, wire, inbox, history>>

\* TcpClient::DisconnectInLoop; handleClose runs inside it when the connection is up.
RunDisconnect ==
    /\ Runs("disconnect")
    /\ connected' = FALSE
    /\ \/ /\ link = "up"
          /\ HandleClose("reset")
       \/ /\ link # "up"
          /\ link' = "null"
          /\ UNCHANGED <<lpc, retDrop, retClose>>
    /\ UNCHANGED <<stopped, pending, holder, quit, functors, timers, retCb, onLoop,
                   frames, tmpLoop, firing, cpc, ownerVars, netVars, history>>

\* The end of DisconnectInLoop: connection_.reset().
ResetConnection ==
    /\ lpc = "reset"
    /\ link' = "null"
    /\ lpc' = "run"
    /\ UNCHANGED <<stopped, pending, holder, connected, queueVars, timers, retCb, retDrop, retClose,
                   onLoop, frames, tmpLoop, firing, cpc, ownerVars, netVars, history>>

RunTimerFunctor ==
    /\ \/ Runs("addTimer") /\ Arms(Head(batch).call)
       \/ Runs("removeTimer") /\ timers' = Disarmed(Head(batch).call)
    /\ UNCHANGED <<clientVars, quit, functors, loopVars, cpc, ownerVars, netVars, history>>

\* The functor of TcpConnection::send.
RunSend ==
    /\ Runs("send")
    /\ wire' = Written(Head(batch).call)
    /\ UNCHANGED <<clientVars, quit, functors, timers, loopVars, cpc, ownerVars, net, inbox, history>>

LoopStep ==
    \/ Begin \/ Test
    \/ NoEvent \/ ConnectSucceeds \/ ConnectFails \/ ReadEvent \/ ReadFails \/ CloseEvent
    \/ FramesDone \/ CorruptFrame \/ (\E c \in Calls : ResponseFrame(c))
    \/ CallbackReturns
    \/ Notify \/ LoopSwap \/ LoopDrop \/ CloseCallback \/ ResetConnection
    \/ (\E i \in TimerIds : FireTimer(i)) \/ SwapFunctors
    \/ RunDone \/ RunConnect \/ RunDisconnect \/ RunTimerFunctor \/ RunSend

-----------------------------------------------------------------------------
(* The owner: Start, then Stop (the destructor calls it too).              *)

OwnerGoes(from, to) == spc = from /\ spc' = to

\* The thread of Loop is created; then Connect is queued.
Start ==
    /\ OwnerGoes("new", "spawned")
    /\ lpc' = "begin"
    /\ UNCHANGED <<clientVars, queueVars, timers, retCb, retDrop, retClose, onLoop, frames,
                   tmpLoop, firing, cpc, tmpStop, netVars, history>>

StartConnect ==
    /\ OwnerGoes("spawned", "started")
    /\ Post(FConnect)
    /\ UNCHANGED <<clientVars, quit, batch, timers, loopVars, cpc, tmpStop, netVars, history>>

Stop ==
    /\ spc \in {"new", "started"}
    /\ spc' = "swap"
    /\ stopped' = TRUE
    /\ UNCHANGED <<pending, holder, connected, link, queueVars, timers, loopVars, cpc, tmpStop,
                   netVars, history>>

\* DropAllPending(CLIENT_NOT_RUNNING).
StopSwap ==
    /\ OwnerGoes("swap", "drop")
    /\ MutexFree
    /\ tmpStop' = pending
    /\ pending' = {}
    /\ UNCHANGED <<stopped, holder, connected, link, queueVars, timers, loopVars, cpc, netVars, history>>

StopDrop ==
    /\ spc = "drop"
    /\ \/ /\ tmpStop = {}
          /\ spc' = "disconnect"
          /\ UNCHANGED <<functors, tmpStop, results>>
       \/ \E c \in tmpStop :
             /\ tmpStop' = tmpStop \ {c}
             /\ Post(FRemoveTimer(c))
             /\ Answer(c, "not_running")
             /\ UNCHANGED spc
    /\ UNCHANGED <<clientVars, quit, batch, timers, loopVars, cpc, netVars, accepted>>

\* client_->Disconnect()
StopDisconnect ==
    /\ OwnerGoes("disconnect", "quit")
    /\ Post(FDisconnect)
    /\ UNCHANGED <<clientVars, quit, batch, timers, loopVars, cpc, tmpStop, netVars, history>>

\* loop_->Quit(); a thread that was never started is not joined.
StopQuit ==
    /\ OwnerGoes("quit", IF lpc = "off" THEN "final" ELSE "join")
    /\ quit' = TRUE
    /\ UNCHANGED <<clientVars, functors, batch, timers, loopVars, cpc, tmpStop, netVars, history>>

\* loop_thread_.join()
Detached == TRUE
LoopThreadEnded == lpc = "exited"

Join ==
    /\ OwnerGoes("join", "final")
    /\ LoopThreadEnded
    /\ UNCHANGED <<clientVars, queueVars, timers, loopVars, cpc, tmpStop, netVars, history>>

\* client_->Stop() queues DisconnectInLoop once more.
StopFinal ==
    /\ OwnerGoes("final", "stopped")
    /\ Post(FDisconnect)
    /\ UNCHANGED <<clientVars, quit, batch, timers, loopVars, cpc, tmpStop, netVars, history>>

StopStep == StopSwap \/ StopDrop \/ StopDisconnect \/ StopQuit \/ Join \/ StopFinal

-----------------------------------------------------------------------------
(* The peer and the network, as long as our side looks at the socket.      *)

PeerGoes(from, to) ==
    /\ link \in {"connecting", "up"}
    /\ net \in from
    /\ net' = to
    /\ UNCHANGED <<clientVars, loopVars, queueVars, timers, cpc, ownerVars, wire, inbox, history>>

PeerAccepts == PeerGoes({"syn"}, "open")
PeerRefuses == "refuse" \in Faults /\ PeerGoes({"syn"}, "failed")
PeerCloses  == PeerGoes({"open"}, "fin")
PeerResets  == "reset" \in Faults /\ PeerGoes({"open", "fin"}, "rst")

PeerSends(frame) ==
    /\ link = "up"
    /\ net = "open"
    /\ inbox' = Append(inbox, frame)
    /\ UNCHANGED <<clientVars, loopVars, queueVars, timers, cpc, ownerVars, net, history>>

\* A server answers a request once, in any order.
PeerAnswers(c) == c \in wire /\ wire' = wire \ {c} /\ PeerSends(c)

\* Bound: one rejected frame in flight; the first one read ends the connection.
PeerGarbles ==
    /\ "corrupt" \in Faults
    /\ \A i \in DOMAIN inbox : inbox[i] # Corrupt
    /\ PeerSends(Corrupt)
    /\ UNCHANGED wire

Peer ==
    PeerAccepts \/ PeerRefuses \/ PeerCloses \/ PeerResets \/ PeerGarbles
    \/ \E c \in Calls : PeerAnswers(c)

-----------------------------------------------------------------------------
Next ==
    \/ \E c \in Calls : CallEnter(c) \/ CallStep(c)
    \/ LoopStep
    \/ Start \/ StartConnect \/ Stop \/ StopStep
    \/ Peer

\* Threads inside the library are scheduled, callbacks return, and an armed timer
\* is due at some tick if the ticks go on for ever.  Nobody has to call, start
\* or stop, and the peer owes nothing.
Fairness ==
    /\ WF_vars(LoopStep)
    /\ \A i \in TimerIds : SF_vars(FireTimer(i))
    /\ \A c \in Calls : WF_vars(CallStep(c))
    /\ WF_vars(StartConnect)
    /\ WF_vars(StopStep)

Safety == Init /\ [][Next]_vars
Spec == Safety /\ Fairness

-----------------------------------------------------------------------------
(* Properties.                                                             *)

TypeOK ==
    /\ stopped \in BOOLEAN /\ connected \in BOOLEAN /\ quit \in BOOLEAN
    /\ pending \subseteq Calls
    /\ holder \in Calls \cup {NoCall}
    /\ link \in {"null", "connecting", "up", "down"}
    /\ functors \in Seq(Functors)
    /\ batch \in Seq(Functors)
    /\ timers \in [TimerIds -> Calls \cup {NoCall}]
    /\ lpc \in LoopPC /\ retCb \in LoopPC /\ retDrop \in LoopPC /\ retClose \in LoopPC
    /\ onLoop \in Calls \cup {NoCall}
    /\ frames \in Seq(Calls \cup {Corrupt})
    /\ tmpLoop \subseteq Calls
    /\ firing \subseteq TimerIds
    /\ cpc \in [Calls -> CallPC]
    /\ spc \in OwnerPC
    /\ tmpStop \subseteq Calls
    /\ net \in {"none", "syn", "open", "failed", "fin", "rst"}
    /\ wire \subseteq Calls
    /\ inbox \in Seq(Calls \cup {Corrupt})
    /\ results \in [Calls -> Seq(Codes)]
    /\ accepted \subseteq Calls

\* The call whose callback its own thread took back after a failed encode.
TakenBack == {c \in Calls : cpc[c] = "failed"}

Answered == {c \in Calls : results[c] # <<>>}

\* A callback is never invoked twice, whichever of the response, the timeout, the
\* disconnect, the failed encode and Stop reach the call, and in what order.
AtMostOnce == \A c \in Calls : Len(results[c]) <= 1

\* An accepted call that has no answer is in exactly one pair of hands.
HeldOnce ==
    \A c \in accepted \ Answered :
        \/ c \in pending /\ c \notin tmpLoop \cup tmpStop \cup TakenBack
        \/ c \in tmpLoop /\ c \notin pending \cup tmpStop \cup TakenBack
        \/ c \in tmpStop /\ c \notin pending \cup tmpLoop \cup TakenBack
        \/ c \in TakenBack /\ c \notin pending \cup tmpLoop \cup tmpStop

\* Both together: whatever reaches a call, one thread at a time has its
\* callback, and invokes it once.
AnsweredByOneHolder == AtMostOnce /\ HeldOnce

\* Once Stop has taken the pending calls, none is entered any more, although a
\* caller may have read stopped_ before it was set.
StopClosesGate == spc \notin {"new", "spawned", "started", "swap"} => pending = {}

\* When Stop has returned no accepted call can still be answered by another
\* thread than its own: what its callback refers to may be destroyed.
StopLeavesNoCallback ==
    spc \in {"final", "stopped"} => accepted \subseteq Answered \cup TakenBack

\* What Stop guarantees from its swap on and when it returns.
StopIsClean == StopClosesGate /\ StopLeavesNoCallback

\* IsConnected() is true only with a live connection, but for the time
\* handleClose takes to reach the close callback.
ConnectedIsUp ==
    connected => link = "up" \/ lpc \in {"notify", "swap", "drop", "callback", "closed"}

\* The client implements its contract with the application, ...
status == [c \in Calls |-> IF c \in Answered THEN "answered"
                           ELSE IF c \in accepted THEN "waiting" ELSE "new"]
closed == spc \notin {"new", "spawned", "started", "swap"}
Contract == INSTANCE CallContract
ContractSafety == Contract!Safety

\* ... liveness included: every accepted call is answered.
ContractSpec == Contract!Spec

\* Its loop runs every functor once, in the order queued.
Queue == INSTANCE FunctorQueue WITH waiting <- batch \o functors, exited <- lpc = "exited"
QueueSpec == Queue!Spec

\* Stop returns once the loop thread has entered Loop() before Quit.
StopReturns == (spc = "join" /\ quit /\ lpc # "begin") ~> (spc = "stopped")

\* No timer outlives its use: a client whose loop goes on forgets the timer of an
\* answered call in the end, even one that was armed after the answer.
TimersForgotten ==
    \A c \in Calls : (c \in Answered /\ cpc[c] = "end") ~>
        (lpc \in {"off", "exited"} \/ timers[TimerOf[c]] # c)

\* What the README promises of a disconnection: all pending requests are called
\* back.  After the close callback none may be left.
DisconnectAnswersAll ==
    link = "down" /\ ~stopped /\ lpc = "test" => pending = {}

\* What the tests and the architecture document promise of Stop: it disconnects.
StopDisconnects == spc = "stopped" => ~connected

\* What keep-alive is configured for: a connection the peer no longer has is noticed.
ResetNoticed == (link = "up" /\ net = "rst") ~> (link # "up" \/ lpc = "exited")

\* The unprotected connection_ can be null under Send only in a call that
\* overlaps Stop: nothing else takes the connection away from a caller.
SendFailsOnlyInStop == (\E c \in Calls : cpc[c] = "crashed") => stopped

\* What a caller may infer from connected_, although neither it nor connection_
\* is protected (tcp_client.cc:179).
ConnectedIsSafe == ConnectedIsUp /\ SendFailsOnlyInStop
=============================================================================
