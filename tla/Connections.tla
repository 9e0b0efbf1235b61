---------------------------- MODULE Connections ----------------------------
(***************************************************************************)
(* Who owns which descriptor in a server: TcpServer and its table of       *)
(* connections, TcpConnection, Channel and Epoller, with the threads that  *)
(* share a connection by reference.                                        *)
(*                                                                         *)
(* A channel is named by its owner: the listener or a connection.  A       *)
(* connection is destroyed, and its descriptor closed, in the step that    *)
(* drops the last reference to it; the next accept may get the same        *)
(* number.  epoll keeps a pointer to a channel for each descriptor, and a  *)
(* batch of events keeps copies of such pointers.  What a read brings and  *)
(* what a task computes are choices; bytes are in Framing, requests and    *)
(* answers in RpcServer.  A use of a destroyed channel is recorded in      *)
(* "dangling" and then reads the memory as it was left.                    *)
(*                                                                         *)
(* EPOLLERR and EPOLLHUP are "err".  HandleEvent looks at "err" first,     *)
(* then at "rdhup", so an event of either needs no other flag.             *)
(*                                                                         *)
(* Bounds: the set Conns (connections are never reused), MaxTasks requests *)
(* in the pool's queue, MaxFunctors queued functors.                       *)
(***************************************************************************)
EXTENDS Naturals, Sequences, FiniteSets, FiniteSetsExt

CONSTANTS Conns, Fds, Workers, Listener, Nobody, MaxTasks, MaxFunctors

ASSUME ConnectionsAssumption ==
    /\ Fds \subseteq Nat /\ Listener \notin Conns \cup Fds /\ Nobody \notin Conns \cup {Listener}
    /\ MaxTasks \in Nat /\ MaxFunctors \in Nat

VARIABLES
    net,        \* descriptors, channels and the table; see Network
    held,       \* what a worker has: a connection it has locked, or Nobody
    tasks,      \* the pool's queue, each task with its weak reference
    functors,   \* pending_functors_
    running,    \* the functors HandlePendingFunctors has swapped out
    batch,      \* the events of the last Wait not yet dispatched
    loop,       \* where the loop is
    current,    \* the channel in HandleEvent between its read and its write
    server,     \* how far RpcServer::Stop has come
    dangling    \* the uses of destroyed channels

vars == <<net, held, tasks, functors, running, batch, loop, current, server, dangling>>
others == <<held, tasks>>

Channels == Conns \cup {Listener}
Unwatched == [ptr |-> Nobody, interest |-> {}]

\* state: of a channel's owner; events: events_; fd: sockfd_, listen_fd_;
\* owner: the open descriptors; table: connections_; epoll: the interest list;
\* refusing: the listener has been shut down.
Network ==
    [state  : [Channels -> {"unborn", "up", "down", "gone"}],
     events : [Channels -> SUBSET {"in", "out"}],
     fd     : [Channels -> Fds \cup {Listener, Nobody}],
     owner  : [Fds -> Conns \cup {Nobody}],
     table  : [Fds -> Conns \cup {Nobody}],
     epoll  : [Fds \cup {Listener} -> [ptr : Channels \cup {Nobody}, interest : SUBSET {"in", "out"}]],
     refusing : BOOLEAN]

Functors == [do : {"start", "stopAccepting", "stop"}, conn : {Nobody}] \cup [do : {"send"}, conn : Conns]
Do(what) == [do |-> what, conn |-> Nobody]

Init ==
    /\ net = [state  |-> [h \in Channels |-> "unborn"],
              events |-> [h \in Channels |-> {}],
              fd     |-> [h \in Channels |-> IF h = Listener THEN Listener ELSE Nobody],
              owner  |-> [f \in Fds |-> Nobody],
              table  |-> [f \in Fds |-> Nobody],
              epoll  |-> [f \in Fds \cup {Listener} |-> Unwatched],
              refusing |-> FALSE]
    /\ held = [w \in Workers |-> Nobody] /\ tasks = <<>>
    /\ functors = <<Do("start")>> /\ running = <<>>
    /\ batch = {} /\ loop = "wait" /\ current = Nobody
    /\ server = "running" /\ dangling = {}

Stopped == server \in {"stopped", "quit"}

----------------------------------------------------------------------------
(* Channels and descriptors *)

\* ModFd: EPOLL_CTL_MOD, or ADD when the descriptor is not in the list.
ModFd(n, h) == [n EXCEPT !.epoll[n.fd[h]] = [ptr |-> h, interest |-> n.events[h]]]

DelFd(n, h) == [n EXCEPT !.epoll[n.fd[h]] = Unwatched]

Enable(n, h, ev) == ModFd([n EXCEPT !.events[h] = @ \cup ev], h)

Disable(n, h, ev) == ModFd([n EXCEPT !.events[h] = @ \ ev], h)

\* The constructor of TcpConnection on a new descriptor, and its entry in the
\* table.
Accepted(n, c, f) ==
    [Enable([n EXCEPT !.state[c] = "up", !.fd[c] = f, !.owner[f] = c], c, {"in"}) EXCEPT !.table[f] = c]

NotRemoved(n, c) == n

\* RemoveConnection: by number, and only while the server is not stopped.
RemoveConnection(n, c) == IF Stopped THEN n ELSE [n EXCEPT !.table[n.fd[c]] = Nobody]

RemovedFirst(n, c) == Disable(DelFd(n, c), c, {"in", "out"})

\* channel_->DisableAll and channel_->Remove.
Detached(n, c) == DelFd(Disable(n, c, {"in", "out"}), c)

HandleCloseAndFd(n, c) ==
    IF n.state[c] = "down" THEN n
    ELSE LET m == RemoveConnection(Detached([n EXCEPT !.state[c] = "down"], c), c)
         IN [m EXCEPT !.owner[m.fd[c]] = Nobody]

HandleClose(n, c) ==
    IF n.state[c] = "down" THEN n
    ELSE RemoveConnection(Detached([n EXCEPT !.state[c] = "down"], c), c)

\* The connections that nobody refers to: not the table, nor those in kept.
Unreferenced(n, kept) ==
    {c \in Conns : n.state[c] \in {"up", "down"} /\ c \notin kept /\ \A f \in Fds : n.table[f] # c}

\* ~TcpConnection of every connection that is not referred to any more: the
\* channel goes, and the descriptor with what epoll knew of it.
Swept(n, kept) ==
    LET lost == Unreferenced(n, kept)
        open(f) == n.owner[f] \notin lost
    IN [n EXCEPT
            !.state = [h \in Channels |-> IF h \in lost THEN "gone" ELSE @[h]],
            !.owner = [f \in Fds |-> IF open(f) THEN @[f] ELSE Nobody],
            !.epoll = [f \in DOMAIN @ |-> IF f = Listener \/ open(f) THEN @[f] ELSE Unwatched]]

LockedBy(h) == {h[w] : w \in Workers} \ {Nobody}
KeptBy(queue) == {queue[i].conn : i \in DOMAIN queue} \ {Nobody}
Kept == LockedBy(held) \cup KeptBy(functors) \cup KeptBy(running)

----------------------------------------------------------------------------
(* The loop *)

\* What epoll may report of a descriptor.
Reports(f) ==
    LET e == net.epoll[f]
    IN IF e.ptr = Nobody THEN {}
       ELSE IF f = Listener THEN (IF net.refusing THEN {{"err"}} ELSE SUBSET e.interest \ {{}})
       ELSE {{"err"}, {"rdhup"}} \cup (SUBSET e.interest \ {{}})

Wait ==
    /\ loop = "wait" /\ server # "quit"
    /\ \E ready \in SUBSET {f \in DOMAIN net.epoll : Reports(f) # {}} :
       \E revents \in [ready -> {{"err"}, {"rdhup"}, {"in"}, {"out"}, {"in", "out"}}] :
          /\ \A f \in ready : revents[f] \in Reports(f)
          /\ batch' = {[ptr |-> net.epoll[f].ptr, revents |-> revents[f]] : f \in ready}
    /\ loop' = "batch"
    /\ UNCHANGED <<net, others, functors, running, current, server, dangling>>

LoopEnds ==
    /\ loop = "wait" /\ server = "quit"
    /\ loop' = "ended"
    /\ UNCHANGED <<net, others, functors, running, batch, current, server, dangling>>

\* is_none_event on a channel that is not there any more.
DispatchDangling(e) ==
    /\ net.state[e.ptr] = "gone"
    /\ dangling' = dangling \cup {[channel |-> e.ptr, at |-> "event"]}
    /\ UNCHANGED <<net, others, functors, loop, current>>

Ignore(e) ==
    /\ net.state[e.ptr] # "gone"
    /\ net.events[e.ptr] = {} \/ "err" \in e.revents
    /\ UNCHANGED <<net, others, functors, loop, current, dangling>>

\* HandleAccept: accept4 takes the lowest free number, or finds nothing.
HandleAccept(e) ==
    /\ e.ptr = Listener /\ net.state[Listener] = "up"
    /\ net.events[Listener] # {} /\ e.revents = {"in"}
    /\ \/ net' = net
       \/ \E c \in Conns :
             /\ ~Stopped /\ ~net.refusing
             /\ net.state[c] = "unborn"
             /\ LET free == {f \in Fds : net.owner[f] = Nobody}
                IN free # {} /\ net' = Swept(Accepted(net, c, Min(free)), Kept)
    /\ UNCHANGED <<others, functors, loop, current, dangling>>

Watched(e) == e.ptr \in Conns /\ net.state[e.ptr] # "gone" /\ net.events[e.ptr] # {}

PeerCloses(e) ==
    /\ Watched(e) /\ "rdhup" \in e.revents
    /\ net' = Swept(HandleClose(net, e.ptr), Kept)
    /\ UNCHANGED <<others, functors, loop, current, dangling>>

\* sendInLoop in part: what the socket does not take is left to EPOLLOUT.
SentInPart(n, c) == IF n.state[c] = "up" THEN Enable(n, c, {"out"}) ELSE n

\* handleRead and onMessage: a request for the pool, an answer sent at once,
\* and the end of the connection, each or not.
HandleRead(e) ==
    /\ Watched(e) /\ "in" \in e.revents
    /\ \E task, answer, close \in BOOLEAN :
          LET c == e.ptr
              sent == IF answer THEN SentInPart(net, c) ELSE net
          IN /\ task => Len(tasks) < MaxTasks
             /\ tasks' = IF task THEN Append(tasks, c) ELSE tasks
             /\ net' = IF close THEN Swept(HandleClose(sent, c), Kept) ELSE sent
    /\ IF "out" \in e.revents
       THEN loop' = "out" /\ current' = e.ptr
       ELSE UNCHANGED <<loop, current>>
    /\ UNCHANGED <<held, functors, dangling>>

\* handleWrite: the rest goes out, or part of it.
Drains(c) == net' = net \/ (net.state[c] = "up" /\ net' = Disable(net, c, {"out"}))

HandleWrite(e) ==
    /\ Watched(e) /\ e.revents = {"out"}
    /\ Drains(e.ptr)
    /\ UNCHANGED <<others, functors, loop, current, dangling>>

Dispatch ==
    /\ loop = "batch"
    /\ \E e \in batch :
          /\ DispatchDangling(e) \/ Ignore(e) \/ HandleAccept(e) \/ PeerCloses(e) \/ HandleRead(e) \/ HandleWrite(e)
          /\ batch' = batch \ {e}
    /\ UNCHANGED <<running, server>>

\* HandleEvent goes on to EPOLLOUT; Remove has taken the callbacks of a
\* connection that was closed by its read.
WriteAfterRead ==
    /\ loop = "out"
    /\ \/ /\ net.state[current] = "gone"
          /\ dangling' = dangling \cup {[channel |-> current, at |-> "write"]}
          /\ net' = net
       \/ /\ net.state[current] # "gone"
          /\ Drains(current)
          /\ UNCHANGED dangling
    /\ loop' = "batch" /\ current' = Nobody
    /\ UNCHANGED <<others, functors, running, batch, server>>

SwapFunctors ==
    /\ loop = "batch" /\ batch = {}
    /\ running' = functors /\ functors' = <<>>
    /\ loop' = "functors"
    /\ UNCHANGED <<net, others, batch, current, server, dangling>>

\* TcpServer::Start on the loop's thread.
Started(n) == Enable([n EXCEPT !.state[Listener] = "up"], Listener, {"in"})

\* StopAcceptingInLoop: the channel is disabled and destroyed, its descriptor
\* stays in epoll.
AcceptingStopped(n) ==
    IF n.state[Listener] # "up" THEN n
    ELSE [Disable(n, Listener, {"in"}) EXCEPT !.state[Listener] = "gone"]

\* StopInLoop: HandleClose of every connection of the table, which is cleared
\* then; they do not touch each other's descriptors.
AllStopped(n) ==
    LET closing == {c \in Conns : n.state[c] # "down" /\ \E f \in Fds : n.table[f] = c}
        fds == {n.fd[c] : c \in closing}
    IN [AcceptingStopped(n) EXCEPT
            !.state = [h \in Channels |-> IF h \in closing THEN "down" ELSE @[h]],
            !.events = [h \in Channels |-> IF h \in closing THEN {} ELSE @[h]],
            !.epoll = [f \in DOMAIN @ |-> IF f \in fds THEN Unwatched ELSE @[f]],
            !.table = [f \in Fds |-> Nobody],
            !.refusing = TRUE]

RunFunctor ==
    /\ loop = "functors" /\ running # <<>>
    /\ LET f == Head(running)
           left == LockedBy(held) \cup KeptBy(functors) \cup KeptBy(Tail(running))
       IN \/ f.do = "start" /\ net' = Started(net)
          \/ f.do = "stopAccepting" /\ net' = AcceptingStopped(net)
          \/ f.do = "stop" /\ net' = Swept(AllStopped(net), left)
          \/ f.do = "send" /\ net' = Swept(net, left)
          \/ f.do = "send" /\ net' = Swept(SentInPart(net, f.conn), left)
    /\ running' = Tail(running)
    /\ UNCHANGED <<others, functors, batch, loop, current, server, dangling>>

FunctorsDone ==
    /\ loop = "functors" /\ running = <<>>
    /\ loop' = "wait"
    /\ UNCHANGED <<net, others, functors, running, batch, current, server, dangling>>

LoopStep == Wait \/ LoopEnds \/ Dispatch \/ WriteAfterRead \/ SwapFunctors \/ RunFunctor \/ FunctorsDone

----------------------------------------------------------------------------
(* The workers *)

\* weak_conn.lock(): a task whose connection is gone does nothing.
Lock(w) ==
    /\ held[w] = Nobody /\ tasks # <<>>
    /\ tasks' = Tail(tasks)
    /\ held' = [held EXCEPT ![w] = IF net.state[Head(tasks)] = "gone" THEN Nobody ELSE Head(tasks)]
    /\ UNCHANGED <<net, functors, running, batch, loop, current, server, dangling>>

\* send from another thread: the functor holds the connection.
Send(w) ==
    /\ held[w] # Nobody /\ net.state[held[w]] = "up"
    /\ Len(functors) < MaxFunctors
    /\ functors' = Append(functors, [do |-> "send", conn |-> held[w]])
    /\ UNCHANGED <<net, others, running, batch, loop, current, server, dangling>>

\* The task ends and drops its reference, which may be the last one.
Drop(w) ==
    /\ held[w] # Nobody
    /\ held' = [held EXCEPT ![w] = Nobody]
    /\ net' = Swept(net, LockedBy(held') \cup KeptBy(functors) \cup KeptBy(running))
    /\ UNCHANGED <<tasks, functors, running, batch, loop, current, server, dangling>>

----------------------------------------------------------------------------
(* RpcServer::Stop, on its caller's thread *)

\* The shutdown of a socket that does not listen yet fails.
StopAccepting ==
    /\ server = "running" /\ Len(functors) < MaxFunctors
    /\ server' = "draining"
    /\ net' = [net EXCEPT !.refusing = net.state[Listener] # "unborn"]
    /\ functors' = Append(functors, Do("stopAccepting"))
    /\ UNCHANGED <<others, running, batch, loop, current, dangling>>

Stop ==
    /\ server = "draining" /\ Len(functors) < MaxFunctors
    /\ server' = "stopped"
    /\ functors' = Append(functors, Do("stop"))
    /\ UNCHANGED <<net, others, running, batch, loop, current, dangling>>

Quit ==
    /\ server = "stopped"
    /\ server' = "quit"
    /\ UNCHANGED <<net, others, functors, running, batch, loop, current, dangling>>

Next ==
    \/ LoopStep
    \/ \E w \in Workers : Lock(w) \/ Send(w) \/ Drop(w)
    \/ StopAccepting \/ Stop \/ Quit

\* The loop goes round, and a task takes its turn and ends; nobody has to
\* stop the server.
Fairness == WF_vars(LoopStep) /\ \A w \in Workers : WF_vars(Lock(w)) /\ WF_vars(Drop(w))

Safety == Init /\ [][Next]_vars
Spec == Safety /\ Fairness

----------------------------------------------------------------------------
(* Properties *)

\* The types of descriptors, channels and references.
TypeOK ==
    /\ net \in Network
    /\ held \in [Workers -> Conns \cup {Nobody}] /\ tasks \in Seq(Conns)
    /\ functors \in Seq(Functors) /\ running \in Seq(Functors)
    /\ batch \subseteq [ptr : Channels, revents : SUBSET {"in", "out", "rdhup", "err"}]
    /\ loop \in {"wait", "batch", "out", "functors", "ended"} /\ current \in Conns \cup {Nobody}
    /\ server \in {"running", "draining", "stopped", "quit"}
    /\ dangling \subseteq [channel : Channels, at : {"event", "write"}]

\* A descriptor has one owner: a connection that is not destroyed owns the
\* number it was given, and an entry of the table belongs to the owner of its
\* number, also after a number was reused.  This is what makes it right that
\* RemoveConnection erases by number (tcp_server.cc:138).
TableMatchesDescriptors ==
    /\ \A c \in Conns : net.state[c] \in {"up", "down"} => net.owner[net.fd[c]] = c
    /\ \A f \in Fds : net.table[f] # Nobody => net.owner[f] = net.table[f]

\* Both together: types, and one owner for every descriptor.
DescriptorsConsistent == TypeOK /\ TableMatchesDescriptors

\* epoll points only at connections that are up, through their own
\* descriptor: a closed one is never registered again (ModFd adds what it does
\* not find), and no event is dispatched to a connection that was destroyed.
EpollPointsAtLive ==
    /\ \A f \in Fds : LET c == net.epoll[f].ptr IN c # Nobody => net.state[c] = "up" /\ net.fd[c] = f
    /\ \A d \in dangling : d.at = "event" => d.channel = Listener

\* A connection that is down is destroyed and its descriptor closed, whoever
\* drops the last reference, as long as the loop runs.
DownIsDestroyed ==
    \A c \in Conns : net.state[c] = "down" ~> net.state[c] = "gone" \/ server = "quit"

\* What the architecture document says of TcpConnection: no connection is
\* destroyed inside one of its callbacks.
SurvivesCallback == \A d \in dangling : d.at # "write"
============================================================================
