----------------------------- MODULE RpcServer -----------------------------
(***************************************************************************)
(* rpc::RpcServer with the TcpServer, the RpcService, the thread pool and  *)
(* the event loop it owns: connections that are accepted and lost,         *)
(* requests that go to the pool and are answered from there through the    *)
(* loop, and Stop.                                                         *)
(*                                                                         *)
(*   threads   the loop thread, the workers of the pool, the owner, who    *)
(*             calls Start, RegisterRaw and Stop, and the clients;         *)
(*   shared    the atomics RpcServer::stopped_ and TcpServer::stopped_,    *)
(*             the functor queue, the pool's queue, methods_, each under   *)
(*             its mutex, and TcpConnection::state_, which a worker reads  *)
(*             while the loop thread writes it.                            *)
(*                                                                         *)
(* ThreadPool, EventLoop and Framing have what is inside those three: here *)
(* a task is taken, a batch of functors is swapped out and a frame is      *)
(* decoded in one step, and a frame is written whole or not at all.        *)
(***************************************************************************)
EXTENDS Integers, Sequences, FiniteSets

CONSTANTS
    Conns,      \* the connections that clients make
    Requests,   \* the requests they send
    ConnOf,     \* on which of them
    Workers,    \* the pool's threads
    MaxQueue,   \* maxQueueSize_
    None,       \* no connection, no request
    Corrupt,    \* a frame that Codec::decode rejects
    Outcomes,   \* how a handler may end: a code, "throws", or "TOO_LARGE" when
                \* it makes a response that cannot be serialized
    Faults      \* what clients may do: "corrupt", "fin", "rst"

ASSUME ServerAssumption ==
    /\ ConnOf \in [Requests -> Conns]
    /\ Workers # {}
    /\ MaxQueue \in Nat
    /\ None \notin Conns \cup Requests
    /\ Corrupt \notin Requests
    /\ Outcomes \subseteq {"OK", "SERVER_REQUEST_PARSE_FAILED", "SERVER_RESPONSE_SERIALIZE_FAILED",
                           "SERVER_INTERNAL_ERROR", "TOO_LARGE", "throws"}

VARIABLES
    \* RpcServer and RpcService
    stopped,      \* RpcServer::stopped_
    registered,   \* the method that is called is in methods_
    \* TcpServer
    tcpStopped,   \* TcpServer::stopped_
    listening,    \* listen_fd_ is not shut down, and after listen
    accepting,    \* accept_channel_
    connections,  \* the connections in connections_
    \* TcpConnection
    state,        \* "none", "Connected", "Disconnected"
    out,          \* output_buffer_: the responses in it
    \* ThreadPool
    tasks,        \* its queue
    closed,       \* isClosed
    wpc,          \* each worker, and
    wreq,         \*   the request of its task,
    wcode,        \*   the code of the response it made
    \* EventLoop
    quit,
    functors,
    batch,
    lpc,          \* the loop thread, and
    todo,         \*   the events that Wait reported and are not handled,
    cur,          \*   the connection whose onMessage runs,
    req,          \*   the request it has decoded
    \* the owner
    spc,
    \* the clients
    net,          \* each connection: "none", "backlog", "open", "fin", "rst"
    inbox,        \* frames sent and not decoded
    got,          \* responses received
    \* History, read by properties only:
    unsent,       \* requests that no client has sent
    lost          \* requests whose handler threw what Invoke does not catch or
                  \* made a response that Codec::encode refused

serverVars == <<stopped, registered, tcpStopped, listening, accepting>>
connVars == <<connections, state, out>>
poolVars == <<tasks, closed, wpc, wreq, wcode>>
queueVars == <<quit, functors, batch>>
loopVars == <<lpc, todo, cur, req>>
netVars == <<net, inbox, got>>
vars == <<serverVars, connVars, poolVars, queueVars, loopVars, spc, netVars, unsent, lost>>

LoopPC == {"off", "begin", "wait", "handle", "frames", "gate", "post", "run", "exited"}
WorkerPC == {"idle", "lock", "invoke", "send", "done", "exited"}
OwnerPC == {"new", "started", "accepting", "goaway", "wait", "tcp", "quit", "join", "reset", "stopped"}
Codes == (Outcomes \ {"throws"})
         \cup {"OK", "SERVER_SERVICE_NOT_FOUND", "SERVER_BUSY", "SERVER_SHUTTING_DOWN"}

\* A response on its way to a client; one that refuses new requests has no id.
Response(r, code) == [req |-> r, code |-> code]
GoAway == Response(None, "SERVER_SHUTTING_DOWN")
Responses == [req : Requests \cup {None}, code : Codes]

\* The functors this server queues.
FListen == [op |-> "listen", conn |-> None, resp |-> GoAway]
FStopAccepting == [op |-> "stopAccepting", conn |-> None, resp |-> GoAway]
FGoAway == [op |-> "goAway", conn |-> None, resp |-> GoAway]
FStop == [op |-> "stop", conn |-> None, resp |-> GoAway]
FSend(c, resp) == [op |-> "send", conn |-> c, resp |-> resp]
Functors == {FListen, FStopAccepting, FGoAway, FStop}
            \cup {FSend(c, resp) : c \in Conns, resp \in Responses}

Init ==
    /\ stopped = FALSE /\ registered = FALSE
    /\ tcpStopped = FALSE /\ listening = FALSE /\ accepting = FALSE
    /\ connections = {}
    /\ state = [c \in Conns |-> "none"]
    /\ out = [c \in Conns |-> <<>>]
    /\ tasks = <<>> /\ closed = FALSE
    /\ wpc = [w \in Workers |-> "idle"]
    /\ wreq = [w \in Workers |-> None]
    /\ wcode = [w \in Workers |-> "OK"]
    /\ quit = FALSE /\ functors = <<>> /\ batch = <<>>
    /\ lpc = "off" /\ todo = {} /\ cur = None /\ req = None
    /\ spc = "new"
    /\ net = [c \in Conns |-> "none"]
    /\ inbox = [c \in Conns |-> <<>>]
    /\ got = [c \in Conns |-> <<>>]
    /\ unsent = Requests
    /\ lost = {}

-----------------------------------------------------------------------------
(* Helpers.                                                                *)

Post(f) == functors' = Append(functors, f)

\* TcpConnection::sendInLoop of several frames, each on its connection: what the
\* socket does not take waits in the output buffer.
SendUnbuffered(c, resp) ==
    \/ UNCHANGED <<out, got>>
    \/ /\ out[c] = <<>>
       /\ net[c] \in {"open", "fin"}
       /\ got' = [got EXCEPT ![c] = Append(@, resp)]
       /\ UNCHANGED out
SendUnchecked(c, resp) ==
    \/ out' = [out EXCEPT ![c] = Append(@, resp)] /\ UNCHANGED got
    \/ /\ out[c] = <<>>
       /\ net[c] \in {"open", "fin"}
       /\ got' = [got EXCEPT ![c] = Append(@, resp)]
       /\ UNCHANGED out
SendInLoop(c, resp) ==
    \/ state[c] # "Connected" /\ UNCHANGED <<out, got>>
    \/ state[c] = "Connected" /\ SendUnchecked(c, resp)

\* What keeps a connection alive for weak_conn.lock().
Alive(c) ==
    \/ c \in connections
    \/ cur = c
    \/ \E w \in Workers : wreq[w] # None /\ ConnOf[wreq[w]] = c /\ wpc[w] \in {"invoke", "send", "done"}
    \/ \E i \in DOMAIN functors : functors[i].conn = c
    \/ \E i \in DOMAIN batch : batch[i].conn = c

\* TcpServer::RemoveConnection, on the loop thread.
Removed(c) == IF tcpStopped THEN connections ELSE connections \ {c}

\* TcpConnection::handleClose with its callbacks.
HandleClose(c) ==
    /\ state' = [state EXCEPT ![c] = "Disconnected"]
    /\ connections' = Removed(c)

\* shutdown of listen_fd_, with which the backlog is reset.
ShutDown ==
    /\ listening' = FALSE
    /\ net' = [c \in Conns |-> IF net[c] = "backlog" THEN "rst" ELSE net[c]]

Active == {w \in Workers : wpc[w] \in {"lock", "invoke", "send", "done"}}

\* The predicate of WaitForTasks.
QueueEmpty == tasks = <<>>
PoolIdle == tasks = <<>> /\ Active = {}

-----------------------------------------------------------------------------
(* The clients.                                                            *)

Connect(c) ==
    /\ net[c] = "none"
    /\ listening
    /\ net' = [net EXCEPT ![c] = "backlog"]
    /\ UNCHANGED <<serverVars, connVars, poolVars, queueVars, loopVars, spc, inbox, got, unsent, lost>>

Garbled(c) == \E i \in DOMAIN inbox[c] : inbox[c][i] = Corrupt

\* (What comes after garbage is never read, so nothing is sent after it.)
SendRequest(r) ==
    /\ r \in unsent
    /\ ~Garbled(ConnOf[r])
    /\ net[ConnOf[r]] \in {"backlog", "open"}
    /\ inbox' = [inbox EXCEPT ![ConnOf[r]] = Append(@, r)]
    /\ unsent' = unsent \ {r}
    /\ UNCHANGED <<serverVars, connVars, poolVars, queueVars, loopVars, spc, net, got, lost>>

SendGarbage(c) ==
    /\ "corrupt" \in Faults
    /\ net[c] = "open"
    /\ ~Garbled(c)
    /\ inbox' = [inbox EXCEPT ![c] = Append(@, Corrupt)]
    /\ UNCHANGED <<serverVars, connVars, poolVars, queueVars, loopVars, spc, net, got, unsent, lost>>

Leave(c) ==
    /\ net[c] = "open"
    /\ \E how \in Faults \cap {"fin", "rst"} : net' = [net EXCEPT ![c] = how]
    /\ UNCHANGED <<serverVars, connVars, poolVars, queueVars, loopVars, spc, inbox, got, unsent, lost>>

-----------------------------------------------------------------------------
(* The loop thread.                                                        *)

Begin ==
    /\ lpc = "begin"
    /\ quit' = FALSE
    /\ lpc' = "run"
    /\ UNCHANGED <<serverVars, connVars, poolVars, functors, batch, todo, cur, req, spc, netVars, unsent, lost>>

\* quit_ is read, when all functors have run.
Test ==
    /\ lpc = "run"
    /\ batch = <<>>
    /\ lpc' = IF quit THEN "exited" ELSE "wait"
    /\ UNCHANGED <<serverVars, connVars, poolVars, queueVars, todo, cur, req, spc, netVars, unsent, lost>>

\* The events that epoll reports, as HandleEvent sees them: the end of a
\* connection's input, once it is known, hides the input before it, and a reset
\* hides everything.  The accept channel accepts one connection at a time.
Usable(c) == state[c] = "Connected" /\ net[c] \in {"open", "fin"}

Wait ==
    /\ lpc = "wait"
    /\ \E ended \in SUBSET {c \in Conns : Usable(c) /\ net[c] = "fin"} :
       \E new \in SUBSET {c \in Conns : accepting /\ net[c] = "backlog"} :
        /\ Cardinality(new) = IF accepting /\ \E c \in Conns : net[c] = "backlog" THEN 1 ELSE 0
        /\ todo' = {<<c, "accept">> : c \in new} \cup {<<c, "end">> : c \in ended}
                   \cup {<<c, "in">> : c \in {d \in Conns \ ended : Usable(d) /\ inbox[d] # <<>>}}
                   \cup {<<c, "out">> : c \in {d \in Conns \ ended : Usable(d) /\ out[d] # <<>>}}
    /\ lpc' = "handle"
    /\ UNCHANGED <<serverVars, connVars, poolVars, queueVars, cur, req, spc, netVars, unsent, lost>>

Handling(c, event) ==
    /\ lpc = "handle"
    /\ <<c, event>> \in todo
    /\ todo' = todo \ {<<c, event>>}

\* TcpServer::HandleAccept.
HandleAccept(c) ==
    /\ Handling(c, "accept")
    /\ IF tcpStopped \/ net[c] # "backlog"
       THEN UNCHANGED <<state, connections, net>>
       ELSE /\ state' = [state EXCEPT ![c] = "Connected"]
            /\ connections' = connections \cup {c}
            /\ net' = [net EXCEPT ![c] = "open"]
    /\ UNCHANGED <<serverVars, out, poolVars, queueVars, lpc, cur, req, spc, inbox, got, unsent, lost>>

\* handleRead, as far as the message callback.
HandleRead(c) ==
    /\ Handling(c, "in")
    /\ Usable(c)
    /\ lpc' = "frames"
    /\ cur' = c
    /\ UNCHANGED <<serverVars, connVars, poolVars, queueVars, req, spc, netVars, unsent, lost>>

\* handleRead when readv fails, because the connection was reset since Wait,
\* and the event that says that the other end has closed.
HandleEnd(c) ==
    /\ \/ Handling(c, "in") /\ net[c] = "rst"
       \/ Handling(c, "end")
    /\ HandleClose(c)
    /\ UNCHANGED <<serverVars, out, poolVars, queueVars, lpc, cur, req, spc, netVars, unsent, lost>>

\* handleWrite, after handleRead; it writes all of the output or a part of it.
HandleWrite(c) ==
    /\ Handling(c, "out")
    /\ <<c, "in">> \notin todo
    /\ \/ /\ Usable(c)
          /\ \E n \in 1 .. Len(out[c]) :
                /\ got' = [got EXCEPT ![c] = @ \o SubSeq(out[c], 1, n)]
                /\ out' = [out EXCEPT ![c] = SubSeq(@, n + 1, Len(@))]
       \/ ~Usable(c) /\ UNCHANGED <<got, out>>
    /\ UNCHANGED <<serverVars, connections, state, poolVars, queueVars, lpc, cur, req, spc, net, inbox, unsent, lost>>

\* RpcServer::onMessage: the rest of the input is not a complete frame.
NoFrame ==
    /\ lpc = "frames"
    /\ lpc' = "handle"
    /\ cur' = None
    /\ UNCHANGED <<serverVars, connVars, poolVars, queueVars, todo, req, spc, netVars, unsent, lost>>

NextFrame ==
    /\ lpc = "frames"
    /\ inbox[cur] # <<>>
    /\ \/ /\ Head(inbox[cur]) = Corrupt
          /\ HandleClose(cur)
          /\ lpc' = "handle"
          /\ cur' = None
          /\ UNCHANGED req
       \/ /\ Head(inbox[cur]) # Corrupt
          /\ lpc' = "gate"
          /\ req' = Head(inbox[cur])
          /\ UNCHANGED <<state, connections, cur>>
    /\ inbox' = [inbox EXCEPT ![cur] = Tail(@)]
    /\ UNCHANGED <<serverVars, out, poolVars, queueVars, todo, spc, net, got, unsent, lost>>

\* The loop thread answers the request itself.
Refuse(code) ==
    /\ SendInLoop(cur, Response(req, code))
    /\ lpc' = "frames"
    /\ req' = None

\* stopped_ is read.
GateWithoutContinue ==
    /\ lpc = "gate"
    /\ IF stopped THEN /\ SendInLoop(cur, Response(req, "SERVER_SHUTTING_DOWN"))
                       /\ lpc' = "post" /\ UNCHANGED req
                  ELSE lpc' = "post" /\ UNCHANGED <<req, out, got>>
    /\ UNCHANGED <<serverVars, connections, state, poolVars, queueVars, todo, cur, spc, net, inbox, unsent, lost>>
Gate ==
    /\ lpc = "gate"
    /\ IF stopped THEN Refuse("SERVER_SHUTTING_DOWN")
                  ELSE lpc' = "post" /\ UNCHANGED <<req, out, got>>
    /\ UNCHANGED <<serverVars, connections, state, poolVars, queueVars, todo, cur, spc, net, inbox, unsent, lost>>

\* TryAddTask, by now perhaps on a pool that Stop has waited for.
RoomForOneMore == ~closed /\ Len(tasks) <= MaxQueue
Room == ~closed /\ Len(tasks) < MaxQueue

PostTask ==
    /\ lpc = "post"
    /\ \/ /\ Room
          /\ tasks' = Append(tasks, req)
          /\ lpc' = "frames"
          /\ req' = None
          /\ UNCHANGED <<out, got>>
       \/ ~Room /\ Refuse("SERVER_BUSY") /\ UNCHANGED tasks
    /\ UNCHANGED <<serverVars, connections, state, closed, wpc, wreq, wcode, queueVars, todo, cur, spc, net,
                   inbox, unsent, lost>>

\* HandlePendingFunctors, when all events are handled.
Swap ==
    /\ lpc = "handle"
    /\ todo = {}
    /\ batch' = functors
    /\ functors' = <<>>
    /\ lpc' = "run"
    /\ UNCHANGED <<serverVars, connVars, poolVars, quit, todo, cur, req, spc, netVars, unsent, lost>>

Running(op) ==
    /\ lpc = "run"
    /\ batch # <<>>
    /\ Head(batch).op = op
    /\ batch' = Tail(batch)

\* The functor of TcpServer::Start.  If StopAccepting came before, its shutdown
\* failed, as the socket did not listen yet.
RunListen ==
    /\ Running("listen")
    /\ accepting' = TRUE
    /\ listening' = TRUE
    /\ UNCHANGED <<stopped, registered, tcpStopped, connVars, poolVars, quit, functors, loopVars, spc, netVars,
                   unsent, lost>>

RunSend ==
    /\ Running("send")
    /\ SendInLoop(Head(batch).conn, Head(batch).resp)
    /\ UNCHANGED <<serverVars, connections, state, poolVars, quit, functors, loopVars, spc, net, inbox, unsent, lost>>

\* The broadcast of Stop to every connection, each of which may buffer it.
RunGoAway ==
    /\ Running("goAway")
    /\ \E direct \in SUBSET {c \in connections : Usable(c) /\ out[c] = <<>>} :
        /\ got' = [c \in Conns |-> IF c \in direct THEN Append(got[c], GoAway) ELSE got[c]]
        /\ out' = [c \in Conns |-> IF c \in connections \ direct /\ state[c] = "Connected"
                                   THEN Append(out[c], GoAway) ELSE out[c]]
    /\ UNCHANGED <<serverVars, connections, state, poolVars, quit, functors, loopVars, spc, net, inbox, unsent, lost>>

\* TcpServer::StopAcceptingInLoop.
RunStopAccepting ==
    /\ Running("stopAccepting")
    /\ accepting' = FALSE
    /\ UNCHANGED <<stopped, registered, tcpStopped, listening, connVars, poolVars, quit, functors, loopVars, spc,
                   netVars, unsent, lost>>

\* TcpServer::StopInLoop; what is in the output buffers is not written.
RunStop ==
    /\ Running("stop")
    /\ accepting' = FALSE
    /\ ShutDown
    /\ state' = [c \in Conns |-> IF c \in connections THEN "Disconnected" ELSE state[c]]
    /\ connections' = {}
    /\ UNCHANGED <<stopped, registered, tcpStopped, out, poolVars, quit, functors, loopVars, spc, inbox, got,
                   unsent, lost>>

LoopStep ==
    \/ Begin \/ Test \/ Wait
    \/ \E c \in Conns : HandleAccept(c) \/ HandleRead(c) \/ HandleEnd(c) \/ HandleWrite(c)
    \/ NoFrame \/ NextFrame \/ Gate \/ PostTask
    \/ Swap \/ RunListen \/ RunSend \/ RunGoAway \/ RunStopAccepting \/ RunStop

-----------------------------------------------------------------------------
(* A worker, and the task that onMessage gave the pool.                    *)

Take(w) ==
    /\ wpc[w] = "idle"
    /\ tasks # <<>>
    /\ wreq' = [wreq EXCEPT ![w] = Head(tasks)]
    /\ tasks' = Tail(tasks)
    /\ wpc' = [wpc EXCEPT ![w] = "lock"]
    /\ UNCHANGED <<serverVars, connVars, closed, wcode, queueVars, loopVars, spc, netVars, unsent, lost>>

\* weak_conn.lock().
Lock(w) ==
    /\ wpc[w] = "lock"
    /\ wpc' = [wpc EXCEPT ![w] = IF Alive(ConnOf[wreq[w]]) THEN "invoke" ELSE "done"]
    /\ UNCHANGED <<serverVars, connVars, tasks, closed, wreq, wcode, queueVars, loopVars, spc, netVars, unsent,
                   lost>>

\* RpcService::Invoke: what it looks up it calls, and what the call throws it
\* answers, if it is a std::exception; anything else ends the task.
Invoke(w) ==
    /\ wpc[w] = "invoke"
    /\ \/ /\ ~registered
          /\ wcode' = [wcode EXCEPT ![w] = "SERVER_SERVICE_NOT_FOUND"]
          /\ wpc' = [wpc EXCEPT ![w] = "send"]
          /\ UNCHANGED lost
       \/ /\ registered
          /\ \E code \in Outcomes \ {"throws"} : wcode' = [wcode EXCEPT ![w] = code]
          /\ wpc' = [wpc EXCEPT ![w] = "send"]
          /\ UNCHANGED lost
       \/ /\ registered
          /\ "throws" \in Outcomes
          /\ wpc' = [wpc EXCEPT ![w] = "done"]
          /\ lost' = lost \cup {wreq[w]}
          /\ UNCHANGED wcode
    /\ UNCHANGED <<serverVars, connVars, tasks, closed, wreq, queueVars, loopVars, spc, netVars, unsent>>

\* Codec::encode of the response: protobuf serializes at most 2 GiB.
Encodes(w) == wcode[w] # "TOO_LARGE"

\* encode and conn->send: what does not encode is dropped without a word;
\* state_ is tested here and, on the loop thread, again.
Send(w) ==
    /\ wpc[w] = "send"
    /\ LET c == ConnOf[wreq[w]] IN
       \/ Encodes(w) /\ state[c] = "Connected" /\ Post(FSend(c, Response(wreq[w], wcode[w]))) /\ UNCHANGED lost
       \/ Encodes(w) /\ state[c] # "Connected" /\ UNCHANGED <<functors, lost>>
       \/ ~Encodes(w) /\ lost' = lost \cup {wreq[w]} /\ UNCHANGED functors
    /\ wpc' = [wpc EXCEPT ![w] = "done"]
    /\ UNCHANGED <<serverVars, connVars, tasks, closed, wreq, wcode, quit, batch, loopVars, spc, netVars, unsent>>

\* The task is over and activeTasks is decremented.
DoneUnlessThrown(w) ==
    /\ wpc[w] = "done"
    /\ wreq[w] \notin lost
    /\ wpc' = [wpc EXCEPT ![w] = "idle"]
    /\ wreq' = [wreq EXCEPT ![w] = None]
    /\ wcode' = [wcode EXCEPT ![w] = "OK"]
    /\ UNCHANGED <<serverVars, connVars, tasks, closed, queueVars, loopVars, spc, netVars, unsent, lost>>
Done(w) ==
    /\ wpc[w] = "done"
    /\ wpc' = [wpc EXCEPT ![w] = "idle"]
    /\ wreq' = [wreq EXCEPT ![w] = None]
    /\ wcode' = [wcode EXCEPT ![w] = "OK"]
    /\ UNCHANGED <<serverVars, connVars, tasks, closed, queueVars, loopVars, spc, netVars, unsent, lost>>

Exit(w) ==
    /\ wpc[w] = "idle"
    /\ closed
    /\ tasks = <<>>
    /\ wpc' = [wpc EXCEPT ![w] = "exited"]
    /\ UNCHANGED <<serverVars, connVars, tasks, closed, wreq, wcode, queueVars, loopVars, spc, netVars, unsent,
                   lost>>

WorkerStep(w) == Take(w) \/ Lock(w) \/ Invoke(w) \/ Send(w) \/ Done(w) \/ Exit(w)

-----------------------------------------------------------------------------
(* The owner.                                                              *)

OwnerAt(from, to) == spc = from /\ spc' = to

Start ==
    /\ OwnerAt("new", "started")
    /\ lpc' = "begin"
    /\ Post(FListen)
    /\ UNCHANGED <<serverVars, connVars, poolVars, quit, batch, todo, cur, req, netVars, unsent, lost>>

\* RegisterRaw.  (It may be called later too; what Invoke looks up is there or not.)
Register ==
    /\ spc = "new"
    /\ ~registered
    /\ registered' = TRUE
    /\ UNCHANGED <<stopped, tcpStopped, listening, accepting, connVars, poolVars, queueVars, loopVars, spc, netVars,
                   unsent, lost>>

\* Stop, from the compare_exchange on; the destructor's does nothing more.
StopBegins ==
    /\ OwnerAt("started", "accepting")
    /\ stopped' = TRUE
    /\ UNCHANGED <<registered, tcpStopped, listening, accepting, connVars, poolVars, queueVars, loopVars, netVars,
                   unsent, lost>>

StopAccepting ==
    /\ OwnerAt("accepting", "goaway")
    /\ ShutDown
    /\ Post(FStopAccepting)
    /\ UNCHANGED <<stopped, registered, tcpStopped, accepting, connVars, poolVars, quit, batch, loopVars, inbox, got,
                   unsent, lost>>

PostGoAway ==
    /\ OwnerAt("goaway", "wait")
    /\ Post(FGoAway)
    /\ UNCHANGED <<serverVars, connVars, poolVars, quit, batch, loopVars, netVars, unsent, lost>>

WaitForTasks ==
    /\ OwnerAt("wait", "tcp")
    /\ PoolIdle
    /\ UNCHANGED <<serverVars, connVars, poolVars, queueVars, loopVars, netVars, unsent, lost>>

TcpStop ==
    /\ OwnerAt("tcp", "quit")
    /\ tcpStopped' = TRUE
    /\ Post(FStop)
    /\ UNCHANGED <<stopped, registered, listening, accepting, connVars, poolVars, quit, batch, loopVars, netVars,
                   unsent, lost>>

Quit ==
    /\ OwnerAt("quit", "join")
    /\ quit' = TRUE
    /\ UNCHANGED <<serverVars, connVars, poolVars, functors, batch, loopVars, netVars, unsent, lost>>

Join ==
    /\ OwnerAt("join", "reset")
    /\ lpc = "exited"
    /\ closed' = TRUE
    /\ UNCHANGED <<serverVars, connVars, tasks, wpc, wreq, wcode, queueVars, loopVars, netVars, unsent, lost>>

\* pool_.reset(): the workers finish what is queued, and are joined.
PoolReset ==
    /\ OwnerAt("reset", "stopped")
    /\ \A w \in Workers : wpc[w] = "exited"
    /\ UNCHANGED <<serverVars, connVars, poolVars, queueVars, loopVars, netVars, unsent, lost>>

StopStep == StopAccepting \/ PostGoAway \/ WaitForTasks \/ TcpStop \/ Quit \/ Join \/ PoolReset

ClientStep ==
    \/ \E c \in Conns : Connect(c) \/ SendGarbage(c) \/ Leave(c)
    \/ \E r \in Requests : SendRequest(r)

Next ==
    \/ ClientStep \/ LoopStep
    \/ \E w \in Workers : WorkerStep(w)
    \/ Start \/ Register \/ StopBegins \/ StopStep

Safety == Init /\ [][Next]_vars

\* The loop goes on, the workers are scheduled and their handlers return, and
\* the owner goes on with a Stop that has begun.
Fairness == WF_vars(LoopStep) /\ (\A w \in Workers : WF_vars(WorkerStep(w))) /\ WF_vars(StopStep)

Spec == Safety /\ Fairness

-----------------------------------------------------------------------------
(* Properties.                                                             *)

\* The pool's queue does not outgrow its bound, and all values are of their type.
TypeOK ==
    /\ {stopped, registered, tcpStopped, listening, accepting, closed, quit} \subseteq BOOLEAN
    /\ connections \subseteq Conns
    /\ state \in [Conns -> {"none", "Connected", "Disconnected"}]
    /\ out \in [Conns -> Seq(Responses)]
    /\ tasks \in Seq(Requests) /\ Len(tasks) <= MaxQueue
    /\ wpc \in [Workers -> WorkerPC]
    /\ wreq \in [Workers -> Requests \cup {None}]
    /\ wcode \in [Workers -> Codes]
    /\ functors \in Seq(Functors)
    /\ batch \in Seq(Functors)
    /\ lpc \in LoopPC
    /\ todo \subseteq Conns \X {"accept", "in", "out", "end"}
    /\ cur \in Conns \cup {None}
    /\ req \in Requests \cup {None}
    /\ spc \in OwnerPC
    /\ net \in [Conns -> {"none", "backlog", "open", "fin", "rst"}]
    /\ inbox \in [Conns -> Seq(Requests \cup {Corrupt})]
    /\ got \in [Conns -> Seq(Responses)]
    /\ unsent \subseteq Requests
    /\ lost \subseteq Requests

\* Where request r is, from its sending to its answer.
Times(s, S) == Cardinality({i \in DOMAIN s : s[i] \in S})
AnswersTo(r) == {resp \in Responses : resp.req = r}
SendsFor(r) == {f \in Functors : f.op = "send" /\ f.resp.req = r}

Unsent(r) == IF r \in unsent THEN 1 ELSE 0
Unread(r) == Times(inbox[ConnOf[r]], {r})
Decoded(r) == IF req = r THEN 1 ELSE 0
Queued(r) == Times(tasks, {r})
InWork(r) == Cardinality({w \in Workers : wreq[w] = r /\ wpc[w] # "done"})
Posted(r) == Times(functors, SendsFor(r))
Swapped(r) == Times(batch, SendsFor(r))
Buffered(r) == Times(out[ConnOf[r]], AnswersTo(r))
Answers(r) == Times(got[ConnOf[r]], AnswersTo(r))

Places(r) ==
    Unsent(r) + Unread(r) + Decoded(r) + Queued(r) + InWork(r) + Posted(r) + Swapped(r) + Buffered(r) + Answers(r)

\* A request is in one pair of hands at a time, and so never answered twice:
\* neither by a gate, a full pool and a task at once nor by two tasks.
OneAnswer == \A r \in Requests : Places(r) <= 1

\* Both together: types, and every request in one place.
ServerConsistent == TypeOK /\ OneAnswer

\* As long as its connection is not closed, a request that came is not dropped,
\* whatever Stop does meanwhile, unless its handler threw what Invoke does not
\* catch or made a response that Codec::encode refuses.
NothingLost == \A r \in Requests :
    Places(r) = 0 => r \in lost \/ state[ConnOf[r]] = "Disconnected"

\* Once WaitForTasks has returned, the pool may get one more task, the one whose
\* request passed the gate before stopped_ was set; and none is left in the end.
StopDrains ==
    /\ spc \in {"tcp", "quit", "join", "reset"} => Len(tasks) + Cardinality(Active) <= 1
    /\ spc = "stopped" => tasks = <<>> /\ Active = {} /\ lpc = "exited"

\* Stop returns, unless Loop has not begun when it calls Quit.
StopReturns == spc = "accepting" ~> spc = "stopped" \/ (spc = "join" /\ ~quit /\ lpc # "exited")

\* A request that onMessage has taken from an open connection is answered, with
\* the exceptions of NothingLost and of a server that stops.
Answered == \A r \in Requests :
    req = r ~> \/ \E i \in DOMAIN got[ConnOf[r]] : got[ConnOf[r]][i].req = r
               \/ r \in lost \/ stopped \/ net[ConnOf[r]] # "open" \/ state[ConnOf[r]] = "Disconnected"

\* Both together: what the server has begun, a request or its own end, it ends.
EverythingEnds == StopReturns /\ Answered
=============================================================================
