-------------------------- MODULE RpcServerProofs --------------------------
(***************************************************************************)
(* Proofs about RpcServer, for any connections, requests and workers.      *)
(*                                                                         *)
(* Hands is the inductive invariant: types, and what is in whose hands.    *)
(* With it every action is shown to leave a request where it is, to move   *)
(* it to the next hand or to drop it for a reason (Kept), which gives      *)
(* OneAnswer and NothingLost.  Drain is the invariant of Stop.             *)
(***************************************************************************)
EXTENDS RpcServer, SequenceTheorems, FiniteSetTheorems, TLAPS

-----------------------------------------------------------------------------
(* Sequences.                                                              *)

\* A queue that is not empty is its head before its tail.
LEMMA HeadAndTail ==
    ASSUME NEW S, NEW s \in Seq(S), s # <<>>
    PROVE  Head(s) \in S /\ Tail(s) \in Seq(S) /\ s = <<Head(s)>> \o Tail(s)
<1>1. Len(s) \in Nat \ {0} /\ Head(s) \in S /\ Tail(s) \in Seq(S)
  BY EmptySeq, HeadTailProperties
<1>2. s = SubSeq(s, 1, Len(s)) /\ Tail(s) = SubSeq(s, 2, Len(s))
  BY SubSeqFull, TailIsSubSeq
<1>3. SubSeq(s, 1, Len(s)) = <<s[1]>> \o SubSeq(s, 2, Len(s))
  BY <1>1, SubSeqRecursiveFirst
<1>4. Head(s) = s[1]
  OBVIOUS
<1> QED  BY <1>1, <1>2, <1>3, <1>4

\* A sequence is cut in two.
LEMMA Split ==
    ASSUME NEW S, NEW s \in Seq(S), NEW n \in 0 .. Len(s)
    PROVE  /\ SubSeq(s, 1, n) \in Seq(S) /\ Len(SubSeq(s, 1, n)) = n
           /\ SubSeq(s, n + 1, Len(s)) \in Seq(S) /\ Len(SubSeq(s, n + 1, Len(s))) = Len(s) - n
           /\ SubSeq(s, 1, n) \o SubSeq(s, n + 1, Len(s)) = s
<1>1. n \in Nat /\ Len(s) \in Nat /\ n <= Len(s)
  OBVIOUS
<1>2. SubSeq(s, 1, n) \in Seq(S) /\ Len(SubSeq(s, 1, n)) = n
  BY <1>1
<1>3. SubSeq(s, n + 1, Len(s)) \in Seq(S) /\ Len(SubSeq(s, n + 1, Len(s))) = Len(s) - n
  BY <1>1
<1>4. SubSeq(s, 1, n) \o SubSeq(s, n + 1, Len(s)) = SubSeq(s, 1, Len(s))
  <2>1. 1 \in 1 .. Len(s) + 1 /\ n \in 1 - 1 .. Len(s) /\ Len(s) \in n .. Len(s)
    BY <1>1
  <2> QED  BY <2>1, ConcatAdjacentSubSeq
<1> QED  BY <1>2, <1>3, <1>4, SubSeqFull

-----------------------------------------------------------------------------
(* How often the members of a set are in a sequence.                       *)

\* The positions that Times counts.
Positions(s, S) == {i \in DOMAIN s : s[i] \in S}

LEMMA PositionsFinite ==
    ASSUME NEW T, NEW s \in Seq(T), NEW S
    PROVE  IsFiniteSet(Positions(s, S)) /\ Times(s, S) \in Nat
<1>1. DOMAIN s = 1 .. Len(s) /\ Len(s) \in Nat
  OBVIOUS
<1>2. IsFiniteSet(1 .. Len(s))
  BY <1>1, FS_Interval
<1>3. Positions(s, S) \in SUBSET (1 .. Len(s))
  BY <1>1 DEF Positions
<1>4. IsFiniteSet(Positions(s, S))
  BY <1>2, <1>3, FS_Subset
<1> QED  BY <1>4, FS_CardinalityType DEF Times, Positions

LEMMA TimesZero ==
    ASSUME NEW s, NEW S, \A i \in DOMAIN s : s[i] \notin S
    PROVE  Times(s, S) = 0
<1>1. {i \in DOMAIN s : s[i] \in S} = {}
  OBVIOUS
<1> QED  BY <1>1, FS_EmptySet DEF Times

LEMMA TimesEmpty ==
    ASSUME NEW S
    PROVE  Times(<<>>, S) = 0
<1>1. \A i \in DOMAIN <<>> : <<>>[i] \notin S
  OBVIOUS
<1> QED  BY <1>1, TimesZero

LEMMA TimesConcat ==
    ASSUME NEW T, NEW s \in Seq(T), NEW t \in Seq(T), NEW S
    PROVE  Times(s \o t, S) = Times(s, S) + Times(t, S)
<1> DEFINE A == Positions(s, S)
           B == Positions(t, S)
           C == {Len(s) + i : i \in B}
           f == [i \in B |-> Len(s) + i]
<1>1. /\ DOMAIN s = 1 .. Len(s) /\ Len(s) \in Nat
      /\ DOMAIN t = 1 .. Len(t) /\ Len(t) \in Nat
  OBVIOUS
<1>2. /\ s \o t \in Seq(T)
      /\ Len(s \o t) = Len(s) + Len(t)
      /\ \A i \in 1 .. Len(s) : (s \o t)[i] = s[i]
      /\ \A i \in 1 .. Len(t) : (s \o t)[Len(s) + i] = t[i]
  OBVIOUS
<1>3. DOMAIN (s \o t) = 1 .. Len(s) + Len(t)
  BY <1>2
<1>4. IsFiniteSet(A) /\ IsFiniteSet(B)
  BY PositionsFinite
<1>5. A \subseteq 1 .. Len(s) /\ B \subseteq 1 .. Len(t)
  BY <1>1 DEF Positions
<1>6. f \in Bijection(B, C)
  <2>1. f \in [B -> C] /\ \A y \in C : \E x \in B : f[x] = y
    OBVIOUS
  <2>2. \A x, y \in B : f[x] = f[y] => x = y
    BY <1>1, <1>5
  <2> QED  BY <2>1, <2>2, Zenon DEF Bijection, Injection, Surjection, IsInjective
<1>7. IsFiniteSet(C) /\ Cardinality(C) = Cardinality(B)
  BY <1>4, <1>6, FS_Bijection DEF ExistsBijection
<1>8. Positions(s \o t, S) = A \cup C
  <2>1. ASSUME NEW i \in Positions(s \o t, S), i \notin A
        PROVE  i \in C
    <3>1. i \in 1 .. Len(s) + Len(t) /\ (s \o t)[i] \in S
      BY <1>3 DEF Positions
    <3>2. ~(i \in 1 .. Len(s))
      BY <1>1, <1>2, <2>1, <3>1 DEF Positions
    <3>3. i - Len(s) \in 1 .. Len(t) /\ Len(s) + (i - Len(s)) = i
      BY <1>1, <3>1, <3>2
    <3>4. t[i - Len(s)] \in S
      BY <1>2, <3>1, <3>3
    <3>5. i - Len(s) \in B
      BY <1>1, <3>3, <3>4 DEF Positions
    <3> QED  BY <3>3, <3>5
  <2>2. ASSUME NEW i \in A
        PROVE  i \in Positions(s \o t, S)
    <3>1. i \in 1 .. Len(s) /\ s[i] \in S
      BY <1>1 DEF Positions
    <3>2. i \in 1 .. Len(s) + Len(t)
      BY <1>1, <3>1
    <3> QED  BY <1>2, <1>3, <3>1, <3>2 DEF Positions
  <2>3. ASSUME NEW i \in B
        PROVE  Len(s) + i \in Positions(s \o t, S)
    <3>1. i \in 1 .. Len(t) /\ t[i] \in S
      BY <1>1 DEF Positions
    <3>2. Len(s) + i \in 1 .. Len(s) + Len(t)
      BY <1>1, <3>1
    <3> QED  BY <1>2, <1>3, <3>1, <3>2 DEF Positions
  <2> QED  BY <2>1, <2>2, <2>3, Zenon
<1>9. A \cap C = {}
  BY <1>1, <1>5
<1> HIDE DEF A, B, C, f
<1>10. Cardinality(A \cup C) = Cardinality(A) + Cardinality(C) - Cardinality(A \cap C)
  BY <1>4, <1>7, FS_Union
<1>11. Cardinality(A \cap C) = 0
  BY <1>9, FS_EmptySet
<1>12. Cardinality(A) \in Nat /\ Cardinality(B) \in Nat
  BY <1>4, FS_CardinalityType
<1>13. Cardinality(A \cup C) = Cardinality(A) + Cardinality(B)
  BY <1>7, <1>10, <1>11, <1>12
<1>14. Times(s \o t, S) = Cardinality(A \cup C) /\ Times(s, S) = Cardinality(A) /\ Times(t, S) = Cardinality(B)
  BY <1>8 DEF Times, Positions, A, B
<1> QED  BY <1>13, <1>14

LEMMA TimesOne ==
    ASSUME NEW x, NEW S
    PROVE  Times(<<x>>, S) = IF x \in S THEN 1 ELSE 0
<1>1. CASE x \in S
  <2>1. {i \in DOMAIN <<x>> : <<x>>[i] \in S} = {1}
    BY <1>1
  <2> QED  BY <1>1, <2>1, FS_Singleton DEF Times
<1>2. CASE x \notin S
  <2>1. \A i \in DOMAIN <<x>> : <<x>>[i] \notin S
    BY <1>2
  <2> QED  BY <1>2, <2>1, TimesZero
<1> QED  BY <1>1, <1>2

LEMMA TimesAppend ==
    ASSUME NEW T, NEW s \in Seq(T), NEW x \in T, NEW S
    PROVE  Times(Append(s, x), S) = Times(s, S) + IF x \in S THEN 1 ELSE 0
<1>1. <<x>> \in Seq(T) /\ Append(s, x) = s \o <<x>>
  BY AppendIsConcat
<1>2. Times(s \o <<x>>, S) = Times(s, S) + Times(<<x>>, S)
  BY <1>1, TimesConcat
<1>3. Times(<<x>>, S) = IF x \in S THEN 1 ELSE 0
  BY TimesOne
<1> QED  BY <1>1, <1>2, <1>3, Zenon

LEMMA TimesTail ==
    ASSUME NEW T, NEW s \in Seq(T), s # <<>>, NEW S
    PROVE  Times(s, S) = Times(Tail(s), S) + IF Head(s) \in S THEN 1 ELSE 0
<1>1. Head(s) \in T /\ Tail(s) \in Seq(T) /\ s = <<Head(s)>> \o Tail(s) /\ <<Head(s)>> \in Seq(T)
  BY HeadAndTail
<1>2. Times(<<Head(s)>> \o Tail(s), S) = Times(<<Head(s)>>, S) + Times(Tail(s), S)
  BY <1>1, TimesConcat
<1>3. Times(Tail(s), S) \in Nat
  BY <1>1, PositionsFinite
<1> DEFINE x == Head(s)
           rest == Tail(s)
<1> HIDE DEF x, rest
<1>4. Times(<<x>>, S) = IF x \in S THEN 1 ELSE 0
  BY TimesOne
<1>5. Times(s, S) = Times(<<x>>, S) + Times(rest, S)
  BY <1>1, <1>2, Zenon DEF x, rest
<1>6. Times(rest, S) \in Nat
  BY <1>3 DEF rest
<1>7. Times(s, S) = Times(rest, S) + IF x \in S THEN 1 ELSE 0
  BY <1>4, <1>5, <1>6
<1> QED  BY <1>7, Zenon DEF x, rest

LEMMA TimesSplit ==
    ASSUME NEW T, NEW s \in Seq(T), NEW S, NEW n \in 1 .. Len(s)
    PROVE  Times(s, S) = Times(SubSeq(s, 1, n), S) + Times(SubSeq(s, n + 1, Len(s)), S)
<1>1. n \in 0 .. Len(s)
  OBVIOUS
<1>2. /\ SubSeq(s, 1, n) \in Seq(T)
      /\ SubSeq(s, n + 1, Len(s)) \in Seq(T)
      /\ SubSeq(s, 1, n) \o SubSeq(s, n + 1, Len(s)) = s
  BY <1>1, Split
<1> DEFINE p == SubSeq(s, 1, n)
           q == SubSeq(s, n + 1, Len(s))
<1>3. p \in Seq(T) /\ q \in Seq(T) /\ p \o q = s
  BY <1>2, Zenon
<1> HIDE DEF p, q
<1>4. Times(p \o q, S) = Times(p, S) + Times(q, S)
  BY <1>3, TimesConcat
<1>5. Times(s, S) = Times(p, S) + Times(q, S)
  BY <1>3, <1>4, Zenon
<1> QED  BY <1>5, Zenon DEF p, q

-----------------------------------------------------------------------------
(* The inductive invariant: types, and what is in whose hands.             *)

\* The requests of connections that have been accepted, and functors whose
\* response goes to the connection of its request.
Begun == {r \in Requests : state[ConnOf[r]] # "none"}
Sendable == {f \in Functors : f.op = "send" => f.resp.req \in Begun /\ f.conn = ConnOf[f.resp.req]}

Flags ==
    /\ {stopped, registered, tcpStopped, listening, accepting, closed, quit} \subseteq BOOLEAN
    /\ spc \in OwnerPC
    /\ unsent \subseteq Requests
    /\ lost \subseteq Requests

\* A connection is in the server's books from accept to its end.
Life ==
    /\ connections \subseteq Conns
    /\ state \in [Conns -> {"none", "Connected", "Disconnected"}]
    /\ net \in [Conns -> {"none", "backlog", "open", "fin", "rst"}]
    /\ todo \subseteq Conns \X {"accept", "in", "out", "end"}
    /\ \A c \in Conns : net[c] \in {"none", "backlog"} => state[c] = "none"
    /\ \A c \in Conns : state[c] = "Connected" => c \in connections
    /\ \A c \in connections : state[c] # "none"
    /\ \A c \in Conns : <<c, "end">> \in todo => state[c] # "none"

\* The loop thread handles a connection that was accepted, and its request.
Loop ==
    /\ lpc \in LoopPC
    /\ cur \in Conns \cup {None}
    /\ req \in Requests \cup {None}
    /\ lpc \in {"frames", "gate", "post"} => cur \in Conns /\ state[cur] # "none"
    /\ lpc \in {"gate", "post"} => req \in Requests /\ ConnOf[req] = cur
    /\ lpc \notin {"gate", "post"} => req = None
    /\ spc = "new" => lpc = "off"

Data ==
    /\ out \in [Conns -> Seq(Responses)]
    /\ got \in [Conns -> Seq(Responses)]
    /\ inbox \in [Conns -> Seq(Requests \cup {Corrupt})]
    /\ \A c \in Conns : inbox[c] \in Seq({r \in Requests : ConnOf[r] = c} \cup {Corrupt})

Pool ==
    /\ tasks \in Seq(Begun)
    /\ Len(tasks) <= MaxQueue
    /\ wpc \in [Workers -> WorkerPC]
    /\ wreq \in [Workers -> Requests \cup {None}]
    /\ wcode \in [Workers -> Codes]
    /\ \A w \in Workers : IF w \in Active THEN wreq[w] \in Begun ELSE wreq[w] = None
    /\ IsFiniteSet(Active)

Queues ==
    /\ functors \in Seq(Sendable)
    /\ batch \in Seq(Sendable)
    /\ lpc # "run" => batch = <<>>

Hands == Flags /\ Life /\ Loop /\ Data /\ Pool /\ Queues

LEMMA SeqGrows ==
    ASSUME NEW S, NEW T, S \subseteq T
    PROVE  Seq(S) \subseteq Seq(T)
OBVIOUS

LEMMA InitHands == Init => Hands
<1> SUFFICES ASSUME Init PROVE Hands
  OBVIOUS
<1>1. Flags /\ Life
  BY DEF Init, Flags, Life, OwnerPC
<1>2. Loop
  BY DEF Init, Loop, LoopPC
<1>3. Data
  BY DEF Init, Data
<1>4. Pool
  <2>1. "OK" \in Codes
    BY DEF Codes
  <2>2. Active = {}
    BY DEF Init, Active
  <2>3. <<>> \in Seq(Begun) /\ Len(<<>>) = 0
    OBVIOUS
  <2> QED  BY <2>1, <2>2, <2>3, FS_EmptySet, ServerAssumption DEF Init, Pool, WorkerPC
<1>5. Queues
  BY DEF Init, Queues
<1> QED  BY <1>1, <1>2, <1>3, <1>4, <1>5 DEF Hands

-----------------------------------------------------------------------------
(* Every step keeps it.                                                    *)

\* The owner's steps.
LEMMA OwnerSteps ==
    Next => \/ UNCHANGED spc
            \/ Start \/ StopBegins \/ StopAccepting \/ PostGoAway \/ WaitForTasks \/ TcpStop \/ Quit \/ Join \/ PoolReset
BY DEF Next, ClientStep, Connect, SendGarbage, Leave, SendRequest, LoopStep, Begin, Test, Wait, HandleAccept, HandleRead,
   HandleEnd, HandleWrite, NoFrame, NextFrame, Gate, PostTask, Swap, RunListen, RunSend, RunGoAway, RunStopAccepting,
   RunStop, WorkerStep, Take, Lock, Invoke, Send, Done, Exit, Register, StopStep

LEMMA FlagsKept == Hands /\ Next => Flags'
<1> SUFFICES ASSUME Hands, Next PROVE Flags'
  OBVIOUS
<1> USE DEF Hands, Flags, OwnerPC, serverVars, connVars, poolVars, queueVars, loopVars, netVars
<1>1. {stopped, registered, tcpStopped, listening, accepting}' \subseteq BOOLEAN
  BY DEF Next, ClientStep, Connect, SendGarbage, Leave, SendRequest, LoopStep, Begin, Test, Wait, HandleAccept, HandleRead,
     HandleEnd, HandleWrite, NoFrame, NextFrame, Gate, PostTask, Swap, RunListen, RunSend, RunGoAway, RunStopAccepting, RunStop,
     WorkerStep, Take, Lock, Invoke, Send, Done, Exit, Start, Register, StopBegins, StopStep, StopAccepting, PostGoAway,
     WaitForTasks, TcpStop, Quit, Join, PoolReset, ShutDown
<1>2. {closed, quit}' \subseteq BOOLEAN
  BY DEF Next, ClientStep, Connect, SendGarbage, Leave, SendRequest, LoopStep, Begin, Test, Wait, HandleAccept, HandleRead,
     HandleEnd, HandleWrite, NoFrame, NextFrame, Gate, PostTask, Swap, RunListen, RunSend, RunGoAway, RunStopAccepting, RunStop,
     WorkerStep, Take, Lock, Invoke, Send, Done, Exit, Start, Register, StopBegins, StopStep, StopAccepting, PostGoAway,
     WaitForTasks, TcpStop, Quit, Join, PoolReset
<1>3. spc' \in OwnerPC
  BY OwnerSteps DEF Start, StopBegins, StopAccepting, PostGoAway, WaitForTasks, TcpStop, Quit, Join, PoolReset, OwnerAt
<1>4. unsent' \subseteq Requests
  BY DEF Next, ClientStep, Connect, SendGarbage, Leave, SendRequest, LoopStep, Begin, Test, Wait, HandleAccept, HandleRead,
     HandleEnd, HandleWrite, NoFrame, NextFrame, Gate, PostTask, Swap, RunListen, RunSend, RunGoAway, RunStopAccepting, RunStop,
     WorkerStep, Take, Lock, Invoke, Send, Done, Exit, Start, Register, StopBegins, StopStep, StopAccepting, PostGoAway,
     WaitForTasks, TcpStop, Quit, Join, PoolReset
<1>5. lost' \subseteq Requests
  <2>1. CASE \E w \in Workers : Invoke(w) \/ Send(w)
    BY <2>1 DEF Invoke, Send, Pool, Begun, Active
  <2>2. CASE UNCHANGED lost
    BY <2>2
  <2>3. UNCHANGED lost \/ \E w \in Workers : Invoke(w) \/ Send(w)
    BY DEF Next, ClientStep, Connect, SendGarbage, Leave, SendRequest, LoopStep, Begin, Test, Wait, HandleAccept, HandleRead,
     HandleEnd, HandleWrite, NoFrame, NextFrame, Gate, PostTask, Swap, RunListen, RunSend, RunGoAway, RunStopAccepting, RunStop,
     WorkerStep, Take, Lock, Done, Exit, Start, Register, StopBegins, StopStep, StopAccepting, PostGoAway,
     WaitForTasks, TcpStop, Quit, Join, PoolReset
  <2> QED  BY <2>1, <2>2, <2>3
<1> QED  BY <1>1, <1>2, <1>3, <1>4, <1>5

\* Who changes what.
LEMMA ConnectionsChange ==
    Next => \/ UNCHANGED <<connections, state, net, todo>>
            \/ \E c \in Conns : Connect(c) \/ Leave(c) \/ HandleAccept(c) \/ HandleRead(c) \/ HandleEnd(c)
                                \/ HandleWrite(c)
            \/ Wait \/ NextFrame \/ RunStop \/ StopAccepting
BY DEF Next, ClientStep, SendGarbage, SendRequest, LoopStep, Begin, Test, NoFrame, Gate, PostTask, Swap, RunListen, RunSend,
   RunGoAway, RunStopAccepting, WorkerStep, Take, Lock, Invoke, Send, Done, Exit, Start, Register, StopBegins, StopStep,
   PostGoAway, WaitForTasks, TcpStop, Quit, Join, PoolReset, serverVars, connVars, poolVars, queueVars, loopVars, netVars

LEMMA LoopChanges ==
    Next => \/ UNCHANGED <<lpc, cur, req>>
            \/ \E c \in Conns : HandleRead(c)
            \/ Begin \/ Test \/ Wait \/ NoFrame \/ NextFrame \/ Gate \/ PostTask \/ Swap \/ Start
BY DEF Next, ClientStep, Connect, SendGarbage, Leave, SendRequest, LoopStep, HandleAccept, HandleEnd, HandleWrite,
   RunListen, RunSend, RunGoAway, RunStopAccepting, RunStop, WorkerStep, Take, Lock, Invoke, Send, Done, Exit, Register,
   StopBegins, StopStep, StopAccepting, PostGoAway, WaitForTasks, TcpStop, Quit, Join, PoolReset,
   serverVars, connVars, poolVars, queueVars, loopVars, netVars

LEMMA NewOnce == Next => (spc' = "new" => spc = "new")
BY DEF Next, ClientStep, Connect, SendGarbage, Leave, SendRequest, LoopStep, Begin, Test, Wait, HandleAccept, HandleRead,
   HandleEnd, HandleWrite, NoFrame, NextFrame, Gate, PostTask, Swap, RunListen, RunSend, RunGoAway, RunStopAccepting,
   RunStop, WorkerStep, Take, Lock, Invoke, Send, Done, Exit, Start, Register, StopBegins, StopStep, StopAccepting,
   PostGoAway, WaitForTasks, TcpStop, Quit, Join, PoolReset, OwnerAt

LEMMA DataChanges ==
    Next => \/ UNCHANGED <<out, got, inbox>>
            \/ \E r \in Requests : SendRequest(r)
            \/ \E c \in Conns : SendGarbage(c) \/ HandleWrite(c)
            \/ NextFrame \/ Gate \/ PostTask \/ RunSend \/ RunGoAway
BY DEF Next, ClientStep, Connect, Leave, LoopStep, Begin, Test, Wait, HandleAccept, HandleRead, HandleEnd, NoFrame, Swap,
   RunListen, RunStopAccepting, RunStop, WorkerStep, Take, Lock, Invoke, Send, Done, Exit, Start, Register,
   StopBegins, StopStep, StopAccepting, PostGoAway, WaitForTasks, TcpStop, Quit, Join, PoolReset,
   serverVars, connVars, poolVars, queueVars, loopVars, netVars

LEMMA PoolChanges ==
    Next => \/ UNCHANGED <<tasks, wpc, wreq, wcode>>
            \/ \E w \in Workers : Take(w) \/ Lock(w) \/ Invoke(w) \/ Send(w) \/ Done(w) \/ Exit(w)
            \/ PostTask
BY DEF Next, ClientStep, Connect, SendGarbage, Leave, SendRequest, LoopStep, Begin, Test, Wait, HandleAccept, HandleRead,
   HandleEnd, HandleWrite, NoFrame, NextFrame, Gate, Swap, RunListen, RunSend, RunGoAway, RunStopAccepting, RunStop,
   WorkerStep, Start, Register, StopBegins, StopStep, StopAccepting, PostGoAway, WaitForTasks, TcpStop, Quit, Join,
   PoolReset, serverVars, connVars, poolVars, queueVars, loopVars, netVars

LEMMA QueuesChange ==
    Next => \/ UNCHANGED <<functors, batch, lpc>>
            \/ UNCHANGED <<functors, batch>> /\ lpc # "run"
            \/ \E w \in Workers : Send(w)
            \/ Begin \/ Test \/ Swap \/ RunListen \/ RunSend \/ RunGoAway \/ RunStopAccepting \/ RunStop
            \/ Start \/ StopAccepting \/ PostGoAway \/ TcpStop
BY DEF Next, ClientStep, Connect, SendGarbage, Leave, SendRequest, LoopStep, Wait, HandleAccept, HandleRead,
   HandleEnd, HandleWrite, NoFrame, NextFrame, Gate, PostTask, Handling,
   WorkerStep, Take, Lock, Invoke, Done, Exit, Register, StopBegins, StopStep, WaitForTasks, Quit, Join,
   PoolReset, serverVars, connVars, poolVars, queueVars, loopVars, netVars

LEMMA LifeKept == Hands /\ Next => Life'
<1> SUFFICES ASSUME Hands, Next PROVE Life'
  OBVIOUS
<1> USE DEF Hands, Life, connVars, netVars, loopVars
<1>1. CASE UNCHANGED <<connections, state, net, todo>>
  BY <1>1
<1>2. ASSUME NEW c \in Conns, Connect(c) PROVE Life'
  BY <1>2 DEF Connect
<1>3. ASSUME NEW c \in Conns, Leave(c) PROVE Life'
  BY <1>3 DEF Leave
<1>4. ASSUME NEW c \in Conns, HandleAccept(c) PROVE Life'
  BY <1>4 DEF HandleAccept, Handling
<1>5. ASSUME NEW c \in Conns, HandleRead(c) PROVE Life'
  BY <1>5 DEF HandleRead, Handling
<1>6. ASSUME NEW c \in Conns, HandleEnd(c) PROVE Life'
  BY <1>6 DEF HandleEnd, Handling, HandleClose, Removed
<1>7. ASSUME NEW c \in Conns, HandleWrite(c) PROVE Life'
  BY <1>7 DEF HandleWrite, Handling
<1>8. CASE Wait
  BY <1>8 DEF Wait, Usable
<1>9. CASE NextFrame
  BY <1>9 DEF NextFrame, HandleClose, Removed, Loop
<1>10. CASE RunStop
  BY <1>10 DEF RunStop, ShutDown
<1>11. CASE StopAccepting
  BY <1>11 DEF StopAccepting, ShutDown
<1> QED  BY <1>1, <1>2, <1>3, <1>4, <1>5, <1>6, <1>7, <1>8, <1>9, <1>10, <1>11, ConnectionsChange

\* A connection that was accepted once stays accepted, or lost.
LEMMA BegunStays ==
    Hands /\ Next => \A c \in Conns : /\ state[c] # "none" => state'[c] # "none"
                                      /\ state[c] = "Disconnected" => state'[c] = "Disconnected"
<1> SUFFICES ASSUME Hands, Next, NEW c \in Conns
             PROVE  /\ state[c] # "none" => state'[c] # "none"
                    /\ state[c] = "Disconnected" => state'[c] = "Disconnected"
  OBVIOUS
<1> USE DEF Hands, Life, connVars
<1>1. CASE UNCHANGED state
  BY <1>1
<1>2. ASSUME NEW d \in Conns, HandleAccept(d)
      PROVE  /\ state[c] # "none" => state'[c] # "none"
             /\ state[c] = "Disconnected" => state'[c] = "Disconnected"
  BY <1>2 DEF HandleAccept
<1>3. ASSUME NEW d \in Conns, HandleEnd(d)
      PROVE  /\ state[c] # "none" => state'[c] # "none"
             /\ state[c] = "Disconnected" => state'[c] = "Disconnected"
  BY <1>3 DEF HandleEnd, HandleClose
<1>4. CASE NextFrame
  BY <1>4 DEF NextFrame, HandleClose
<1>5. CASE RunStop
  BY <1>5 DEF RunStop
<1>6. CASE Wait \/ StopAccepting \/ \E d \in Conns : Connect(d) \/ Leave(d) \/ HandleRead(d) \/ HandleWrite(d)
  BY <1>6 DEF Wait, StopAccepting, Connect, Leave, HandleRead, HandleWrite
<1> QED  BY <1>1, <1>2, <1>3, <1>4, <1>5, <1>6, ConnectionsChange

LEMMA LoopKept == Hands /\ Next => Loop'
<1> SUFFICES ASSUME Hands, Next PROVE Loop'
  OBVIOUS
<1> USE DEF Hands, Life, Loop, LoopPC
<1>0. spc' = "new" => spc = "new"
  BY NewOnce
<1>1. CASE UNCHANGED <<lpc, cur, req>>
  BY <1>0, <1>1, BegunStays
<1>2. ASSUME NEW c \in Conns, HandleRead(c) PROVE Loop'
  BY <1>0, <1>2 DEF HandleRead, Handling, Usable, connVars
<1>3. CASE Begin
  BY <1>0, <1>3 DEF Begin
<1>4. CASE Test
  BY <1>0, <1>4 DEF Test
<1>5. CASE Wait
  BY <1>0, <1>5 DEF Wait
<1>6. CASE NoFrame
  BY <1>0, <1>6 DEF NoFrame
<1>7. CASE NextFrame
  <2>1. CASE Head(inbox[cur]) = Corrupt
    BY <1>0, <1>7, <2>1, ServerAssumption DEF NextFrame
  <2>2. CASE Head(inbox[cur]) # Corrupt
    <3>1. cur \in Conns /\ inbox[cur] \in Seq({r \in Requests : ConnOf[r] = cur} \cup {Corrupt}) /\ inbox[cur] # <<>>
      BY <1>0, <1>7 DEF NextFrame, Data
    <3>2. Head(inbox[cur]) \in {r \in Requests : ConnOf[r] = cur} \cup {Corrupt}
      BY <3>1, HeadAndTail, Zenon
    <3>3. Head(inbox[cur]) \in Requests /\ ConnOf[Head(inbox[cur])] = cur
      BY <2>2, <3>2
    <3>4. lpc' = "gate" /\ lpc = "frames" /\ req' = Head(inbox[cur]) /\ cur' = cur /\ state' = state
      BY <1>7, <2>2 DEF NextFrame
    <3>5. state[cur] # "none"
      BY <1>0, <1>7 DEF NextFrame
    <3> QED  BY <1>0, <3>1, <3>3, <3>4, <3>5
  <2> QED  BY <2>1, <2>2
<1>8. CASE Gate
  BY <1>0, <1>8 DEF Gate, Refuse
<1>9. CASE PostTask
  BY <1>0, <1>9 DEF PostTask, Refuse
<1>10. CASE Swap
  BY <1>0, <1>10 DEF Swap
<1>11. CASE Start
  BY <1>0, <1>11 DEF Start, OwnerAt, connVars, loopVars
<1> QED  BY <1>1, <1>2, <1>3, <1>4, <1>5, <1>6, <1>7, <1>8, <1>9, <1>10, <1>11, LoopChanges

LEMMA ResponseType ==
    /\ GoAway \in Responses
    /\ \A r \in Requests : \A code \in Codes : Response(r, code) \in Responses
BY DEF GoAway, Response, Responses, Codes

LEMMA SendType ==
    ASSUME NEW f \in Functors, f.op = "send"
    PROVE  f.conn \in Conns /\ f.resp \in Responses
BY DEF Functors, FListen, FStopAccepting, FGoAway, FStop, FSend

LEMMA SendInLoopType ==
    ASSUME Data, NEW c \in Conns, NEW resp \in Responses, SendInLoop(c, resp)
    PROVE  out' \in [Conns -> Seq(Responses)] /\ got' \in [Conns -> Seq(Responses)]
<1>1. Append(out[c], resp) \in Seq(Responses) /\ Append(got[c], resp) \in Seq(Responses)
  BY DEF Data
<1> QED  BY <1>1 DEF Data, SendInLoop, SendUnchecked

LEMMA DataKept == Hands /\ Next => Data'
<1> SUFFICES ASSUME Hands, Next PROVE Data'
  OBVIOUS
<1>0. Data /\ Loop
  BY DEF Hands
<1>1. CASE UNCHANGED <<out, got, inbox>>
  BY <1>0, <1>1 DEF Data
<1>2. ASSUME NEW r \in Requests, SendRequest(r) PROVE Data'
  BY <1>0, <1>2, ServerAssumption DEF SendRequest, Data, connVars
<1>3. ASSUME NEW c \in Conns, SendGarbage(c) PROVE Data'
  BY <1>0, <1>3 DEF SendGarbage, Data, connVars
<1>4. ASSUME NEW c \in Conns, HandleWrite(c) PROVE Data'
  <2>1. inbox' = inbox
    BY <1>4 DEF HandleWrite
  <2>2. CASE UNCHANGED <<got, out>>
    BY <1>0, <2>1, <2>2 DEF Data
  <2>3. ASSUME NEW n \in 1 .. Len(out[c]),
               got' = [got EXCEPT ![c] = @ \o SubSeq(out[c], 1, n)],
               out' = [out EXCEPT ![c] = SubSeq(@, n + 1, Len(@))]
        PROVE  Data'
    <3>1. out[c] \in Seq(Responses) /\ got[c] \in Seq(Responses) /\ n \in 0 .. Len(out[c])
      BY <1>0 DEF Data
    <3>2. SubSeq(out[c], 1, n) \in Seq(Responses) /\ SubSeq(out[c], n + 1, Len(out[c])) \in Seq(Responses)
      BY <3>1, Split
    <3>3. got[c] \o SubSeq(out[c], 1, n) \in Seq(Responses)
      BY <3>1, <3>2
    <3> QED  BY <1>0, <2>1, <2>3, <3>2, <3>3 DEF Data
  <2> QED  BY <1>4, <2>2, <2>3 DEF HandleWrite
<1>5. CASE NextFrame
  <2>1. cur \in Conns /\ inbox[cur] # <<>> /\ out' = out /\ got' = got /\ inbox' = [inbox EXCEPT ![cur] = Tail(@)]
    BY <1>0, <1>5 DEF NextFrame, Loop
  <2>2. Tail(inbox[cur]) \in Seq({r \in Requests : ConnOf[r] = cur} \cup {Corrupt})
    BY <1>0, <2>1, HeadAndTail DEF Data
  <2>3. Tail(inbox[cur]) \in Seq(Requests \cup {Corrupt})
    BY <1>0, <2>1, HeadAndTail DEF Data
  <2> QED  BY <1>0, <2>1, <2>2, <2>3 DEF Data
<1>6. CASE Gate
  <2>1. inbox' = inbox /\ cur \in Conns /\ req \in Requests
    BY <1>0, <1>6 DEF Gate, Loop
  <2>2. Response(req, "SERVER_SHUTTING_DOWN") \in Responses
    BY <2>1, ResponseType DEF Codes
  <2>3. out' \in [Conns -> Seq(Responses)] /\ got' \in [Conns -> Seq(Responses)]
    BY <1>0, <1>6, <2>1, <2>2, SendInLoopType DEF Gate, Refuse, Data
  <2> QED  BY <1>0, <2>1, <2>3 DEF Data
<1>7. CASE PostTask
  <2>1. inbox' = inbox /\ cur \in Conns /\ req \in Requests
    BY <1>0, <1>7 DEF PostTask, Loop
  <2>2. Response(req, "SERVER_BUSY") \in Responses
    BY <2>1, ResponseType DEF Codes
  <2>3. out' \in [Conns -> Seq(Responses)] /\ got' \in [Conns -> Seq(Responses)]
    BY <1>0, <1>7, <2>1, <2>2, SendInLoopType DEF PostTask, Refuse, Data
  <2> QED  BY <1>0, <2>1, <2>3 DEF Data
<1>8. CASE RunSend
  <2>1. batch # <<>> /\ Head(batch).op = "send" /\ inbox' = inbox /\ batch \in Seq(Sendable)
        /\ SendInLoop(Head(batch).conn, Head(batch).resp)
    BY <1>8 DEF RunSend, Running, Hands, Queues
  <2>2. Head(batch) \in Functors
    BY <2>1, HeadAndTail DEF Sendable
  <2>3. out' \in [Conns -> Seq(Responses)] /\ got' \in [Conns -> Seq(Responses)]
    BY <1>0, <2>1, <2>2, SendType, SendInLoopType
  <2> QED  BY <1>0, <2>1, <2>3 DEF Data
<1>9. CASE RunGoAway
  <2>1. PICK direct \in SUBSET Conns :
           /\ got' = [c \in Conns |-> IF c \in direct THEN Append(got[c], GoAway) ELSE got[c]]
           /\ out' = [c \in Conns |-> IF c \in connections \ direct /\ state[c] = "Connected"
                                      THEN Append(out[c], GoAway) ELSE out[c]]
    BY <1>9 DEF RunGoAway, Hands, Life
  <2>2. \A c \in Conns : Append(got[c], GoAway) \in Seq(Responses) /\ Append(out[c], GoAway) \in Seq(Responses)
    BY <1>0, ResponseType DEF Data
  <2>3. inbox' = inbox
    BY <1>9 DEF RunGoAway
  <2> QED  BY <1>0, <2>1, <2>2, <2>3 DEF Data
<1> QED  BY <1>1, <1>2, <1>3, <1>4, <1>5, <1>6, <1>7, <1>8, <1>9, DataChanges

LEMMA PoolKept == Hands /\ Next => Pool'
<1> SUFFICES ASSUME Hands, Next PROVE Pool'
  OBVIOUS
<1>0. Pool /\ Begun \in SUBSET Requests /\ Begun \subseteq Begun'
  BY BegunStays, ServerAssumption DEF Hands, Begun
<1>1. Seq(Begun) \subseteq Seq(Begun')
  BY <1>0, SeqGrows
<1>2. CASE UNCHANGED <<tasks, wpc, wreq, wcode>>
  BY <1>0, <1>1, <1>2 DEF Pool, Active
<1>3. ASSUME NEW w \in Workers, Take(w) PROVE Pool'
  <2>1. /\ tasks # <<>> /\ tasks' = Tail(tasks) /\ wpc[w] = "idle" /\ wcode' = wcode
        /\ wreq' = [wreq EXCEPT ![w] = Head(tasks)] /\ wpc' = [wpc EXCEPT ![w] = "lock"]
    BY <1>3 DEF Take
  <2>2. Head(tasks) \in Begun /\ Tail(tasks) \in Seq(Begun)
    BY <1>0, <2>1, HeadAndTail DEF Pool
  <2>3. Len(Tail(tasks)) <= MaxQueue
    BY <1>0, <2>1, ServerAssumption DEF Pool
  <2>4. Active' = Active \cup {w}
    BY <1>0, <2>1 DEF Pool, Active
  <2>5. IsFiniteSet(Active')
    BY <1>0, <2>4, FS_AddElement DEF Pool
  <2>6. \A v \in Workers : IF v \in Active' THEN wreq'[v] \in Begun' ELSE wreq'[v] = None
    BY <1>0, <2>1, <2>2, <2>4 DEF Pool
  <2> QED  BY <1>0, <1>1, <2>1, <2>2, <2>3, <2>5, <2>6 DEF Pool, WorkerPC
<1>4. ASSUME NEW w \in Workers, Lock(w) PROVE Pool'
  <2>1. Active' = Active
    BY <1>0, <1>4 DEF Pool, Active, Lock
  <2> QED  BY <1>0, <1>1, <1>4, <2>1 DEF Lock, Pool, WorkerPC
<1>5. ASSUME NEW w \in Workers, Invoke(w) PROVE Pool'
  <2>1. Active' = Active
    BY <1>0, <1>5 DEF Pool, Active, Invoke
  <2> QED  BY <1>0, <1>1, <1>5, <2>1 DEF Invoke, Pool, WorkerPC, Codes
<1>6. ASSUME NEW w \in Workers, Send(w) PROVE Pool'
  <2>1. Active' = Active
    BY <1>0, <1>6 DEF Pool, Active, Send
  <2> QED  BY <1>0, <1>1, <1>6, <2>1 DEF Send, Pool, WorkerPC
<1>7. ASSUME NEW w \in Workers, Done(w) PROVE Pool'
  <2>1. Active' = Active \ {w}
    BY <1>0, <1>7 DEF Pool, Active, Done
  <2>2. IsFiniteSet(Active')
    BY <1>0, <2>1, FS_RemoveElement DEF Pool
  <2> QED  BY <1>0, <1>1, <1>7, <2>1, <2>2 DEF Done, Pool, WorkerPC, Codes
<1>8. ASSUME NEW w \in Workers, Exit(w) PROVE Pool'
  <2>1. Active' = Active
    BY <1>0, <1>8 DEF Pool, Active, Exit
  <2> QED  BY <1>0, <1>1, <1>8, <2>1 DEF Exit, Pool, WorkerPC
<1>9. CASE PostTask
  <2>1. UNCHANGED <<wpc, wreq, wcode>>
    BY <1>9 DEF PostTask
  <2>2. CASE Room /\ tasks' = Append(tasks, req)
    <3>1. req \in Begun
      BY <1>9 DEF PostTask, Hands, Loop, Begun
    <3>2. Append(tasks, req) \in Seq(Begun) /\ Len(Append(tasks, req)) = Len(tasks) + 1
      BY <1>0, <3>1 DEF Pool
    <3>3. Len(Append(tasks, req)) <= MaxQueue
      BY <1>0, <2>2, <3>2, ServerAssumption DEF Room, Pool
    <3> QED  BY <1>0, <1>1, <2>1, <2>2, <3>2, <3>3 DEF Pool, Active
  <2>3. CASE UNCHANGED tasks
    BY <1>0, <1>1, <2>1, <2>3 DEF Pool, Active
  <2> QED  BY <1>9, <2>2, <2>3 DEF PostTask
<1> QED  BY <1>2, <1>3, <1>4, <1>5, <1>6, <1>7, <1>8, <1>9, PoolChanges

LEMMA QueuesKept == Hands /\ Next => Queues'
<1> SUFFICES ASSUME Hands, Next PROVE Queues'
  OBVIOUS
<1>0. Queues /\ Sendable \subseteq Sendable'
  <2>1. Begun \subseteq Begun'
    BY BegunStays, ServerAssumption DEF Hands, Begun
  <2> QED  BY <2>1 DEF Hands, Sendable
<1>1. Seq(Sendable) \subseteq Seq(Sendable')
  BY <1>0, SeqGrows
<1>2. {FListen, FStopAccepting, FGoAway, FStop} \subseteq Sendable
  BY DEF Sendable, Functors, FListen, FStopAccepting, FGoAway, FStop
<1>3. ASSUME NEW f \in Sendable, Post(f), UNCHANGED <<batch, lpc>> PROVE Queues'
  <2>1. Append(functors, f) \in Seq(Sendable)
    BY <1>0 DEF Queues
  <2> QED  BY <1>0, <1>1, <1>3, <2>1 DEF Queues, Post
<1>4. ASSUME batch # <<>>, lpc = "run", batch' = Tail(batch), UNCHANGED <<functors, lpc>> PROVE Queues'
  <2>1. Tail(batch) \in Seq(Sendable)
    BY <1>0, <1>4, HeadAndTail DEF Queues
  <2> QED  BY <1>0, <1>1, <1>4, <2>1 DEF Queues
<1>5. CASE UNCHANGED <<functors, batch, lpc>>
  BY <1>0, <1>1, <1>5 DEF Queues
<1>6. CASE UNCHANGED <<functors, batch>> /\ lpc # "run"
  BY <1>0, <1>1, <1>6 DEF Queues
<1>7. ASSUME NEW w \in Workers, Send(w) PROVE Queues'
  <2>1. UNCHANGED <<batch, lpc>> /\ wpc[w] = "send"
    BY <1>7 DEF Send, loopVars
  <2>2. CASE UNCHANGED functors
    BY <1>5, <2>1, <2>2
  <2>3. CASE Post(FSend(ConnOf[wreq[w]], Response(wreq[w], wcode[w])))
    <3>1. wreq[w] \in Begun /\ wreq[w] \in Requests /\ wcode[w] \in Codes
      BY <2>1 DEF Hands, Pool, Active, Begun
    <3>2. ConnOf[wreq[w]] \in Conns /\ Response(wreq[w], wcode[w]) \in Responses
      BY <3>1, ResponseType, ServerAssumption
    <3>3. FSend(ConnOf[wreq[w]], Response(wreq[w], wcode[w])) \in Sendable
      BY <3>1, <3>2 DEF Sendable, Functors, FSend, Response
    <3> QED  BY <1>3, <2>1, <2>3, <3>3
  <2> QED  BY <1>7, <2>2, <2>3 DEF Send
<1>8. CASE Begin
  BY <1>0, <1>1, <1>8 DEF Begin, Queues
<1>9. CASE Test
  BY <1>0, <1>1, <1>9 DEF Test, Queues, queueVars
<1>10. CASE Swap
  BY <1>0, <1>1, <1>10 DEF Swap, Queues
<1>11. CASE RunListen
  BY <1>4, <1>11 DEF RunListen, Running, loopVars
<1>12. CASE RunSend
  BY <1>4, <1>12 DEF RunSend, Running, loopVars
<1>13. CASE RunGoAway
  BY <1>4, <1>13 DEF RunGoAway, Running, loopVars
<1>14. CASE RunStopAccepting
  BY <1>4, <1>14 DEF RunStopAccepting, Running, loopVars
<1>15. CASE RunStop
  BY <1>4, <1>15 DEF RunStop, Running, loopVars
<1>16. CASE Start
  <2>1. Append(functors, FListen) \in Seq(Sendable)
    BY <1>0, <1>2 DEF Queues
  <2>2. lpc = "off" /\ batch' = batch /\ functors' = Append(functors, FListen)
    BY <1>16 DEF Start, OwnerAt, Post, Hands, Loop
  <2> QED  BY <1>0, <1>1, <2>1, <2>2 DEF Queues
<1>17. CASE StopAccepting
  BY <1>2, <1>3, <1>17 DEF StopAccepting, loopVars
<1>18. CASE PostGoAway
  BY <1>2, <1>3, <1>18 DEF PostGoAway, loopVars
<1>19. CASE TcpStop
  BY <1>2, <1>3, <1>19 DEF TcpStop, loopVars
<1> QED  BY <1>5, <1>6, <1>7, <1>8, <1>9, <1>10, <1>11, <1>12, <1>13, <1>14, <1>15, <1>16, <1>17, <1>18, <1>19,
            QueuesChange

LEMMA HandsStutter == Hands /\ UNCHANGED vars => Hands'
<1> SUFFICES ASSUME Hands, UNCHANGED vars PROVE Hands'
  OBVIOUS
<1> USE DEF vars, serverVars, connVars, poolVars, queueVars, loopVars, netVars, Hands
<1>1. Flags' /\ Life'
  BY DEF Flags, Life
<1>2. Loop' /\ Data'
  BY DEF Loop, Data
<1>3. Pool' /\ Queues'
  BY DEF Pool, Queues, Begun, Sendable, Active
<1> QED  BY <1>1, <1>2, <1>3

LEMMA HandsStep == Hands /\ [Next]_vars => Hands'
BY HandsStutter, FlagsKept, LifeKept, LoopKept, DataKept, PoolKept, QueuesKept DEF Hands

\* The server's data are in order: every frame on the connection of its client,
\* every task and every response of a connection that was accepted, every
\* worker with the task it took.
THEOREM HandsAlways == Safety => []Hands
BY InitHands, HandsStep, PTL DEF Safety

LEMMA HandsType == Hands => TypeOK
<1> SUFFICES ASSUME Hands PROVE TypeOK
  OBVIOUS
<1>1. Begun \subseteq Requests /\ Sendable \subseteq Functors
  BY DEF Begun, Sendable
<1>2. Seq(Begun) \subseteq Seq(Requests) /\ Seq(Sendable) \subseteq Seq(Functors)
  BY <1>1, SeqGrows
<1> QED  BY <1>2 DEF Hands, Flags, Life, Loop, Data, Pool, Queues, TypeOK

\* All values are of their type and the pool's queue is within its bound.
THEOREM TypesAlways == Safety => []TypeOK
BY HandsAlways, HandsType, PTL

-----------------------------------------------------------------------------
(* A request moves from hand to hand: the parts of Places.                 *)

\* Nobody will answer it any more.
Gone(r) == r \in lost \/ state[ConnOf[r]] = "Disconnected"

\* The workers that have it.
AtWork(r) == {w \in Workers : wreq[w] = r /\ wpc[w] # "done"}

Counted == \A r \in Requests :
    {Unsent(r), Unread(r), Decoded(r), Queued(r), InWork(r), Posted(r), Swapped(r), Buffered(r), Answers(r)} \subseteq Nat

LEMMA AtWorkFinite ==
    ASSUME Hands, NEW r \in Requests
    PROVE  AtWork(r) \subseteq Active /\ IsFiniteSet(AtWork(r)) /\ InWork(r) = Cardinality(AtWork(r))
<1>1. AtWork(r) \in SUBSET Active /\ IsFiniteSet(Active)
  BY ServerAssumption DEF Hands, Pool, AtWork
<1>2. IsFiniteSet(AtWork(r))
  BY <1>1, FS_Subset
<1> QED  BY <1>1, <1>2 DEF AtWork, InWork

LEMMA HandsCount == Hands => Counted
<1> SUFFICES ASSUME Hands, NEW r \in Requests
             PROVE  {Unsent(r), Unread(r), Decoded(r), Queued(r), InWork(r), Posted(r), Swapped(r), Buffered(r),
                     Answers(r)} \subseteq Nat
  BY DEF Counted
<1>1. Unsent(r) \in Nat /\ Decoded(r) \in Nat
  BY DEF Unsent, Decoded
<1>2. ConnOf[r] \in Conns
  BY ServerAssumption
<1>3. Unread(r) \in Nat
  BY <1>2, PositionsFinite DEF Hands, Data, Unread
<1>4. Queued(r) \in Nat
  BY PositionsFinite DEF Hands, Pool, Queued
<1>5. InWork(r) \in Nat
  BY AtWorkFinite, FS_CardinalityType
<1>6. Posted(r) \in Nat /\ Swapped(r) \in Nat
  BY PositionsFinite DEF Hands, Queues, Posted, Swapped
<1>7. Buffered(r) \in Nat /\ Answers(r) \in Nat
  BY <1>2, PositionsFinite DEF Hands, Data, Buffered, Answers
<1> QED  BY <1>1, <1>3, <1>4, <1>5, <1>6, <1>7

LEMMA HandsCountNext == Hands' => Counted'
BY HandsCount, PTL

\* A variable that does not change keeps its part.
LEMMA SameParts ==
    ASSUME NEW r
    PROVE  /\ UNCHANGED unsent => Unsent(r)' = Unsent(r)
           /\ UNCHANGED inbox => Unread(r)' = Unread(r)
           /\ UNCHANGED req => Decoded(r)' = Decoded(r)
           /\ UNCHANGED tasks => Queued(r)' = Queued(r)
           /\ UNCHANGED <<wpc, wreq>> => InWork(r)' = InWork(r)
           /\ UNCHANGED functors => Posted(r)' = Posted(r)
           /\ UNCHANGED batch => Swapped(r)' = Swapped(r)
           /\ UNCHANGED out => Buffered(r)' = Buffered(r)
           /\ UNCHANGED got => Answers(r)' = Answers(r)
BY DEF Unsent, Unread, Decoded, Queued, InWork, Posted, Swapped, Buffered, Answers

LEMMA SendsAre ==
    ASSUME NEW r \in Requests
    PROVE  /\ \A f \in Functors : f.op # "send" => f \notin SendsFor(r)
           /\ \A resp \in Responses : resp \in AnswersTo(r) <=> resp.req = r
           /\ GoAway \notin AnswersTo(r)
           /\ \A c \in Conns, resp \in Responses : FSend(c, resp) \in SendsFor(r) <=> resp.req = r
BY ServerAssumption DEF SendsFor, AnswersTo, GoAway, Response, FSend, Functors

\* A functor is queued.
LEMMA PostCounts ==
    ASSUME Hands, NEW r \in Requests, NEW f \in Functors, Post(f)
    PROVE  Posted(r)' = Posted(r) + IF f \in SendsFor(r) THEN 1 ELSE 0
<1>1. functors \in Seq(Functors) /\ functors' = Append(functors, f)
  BY SeqGrows DEF Hands, Queues, Sendable, Post
<1>2. Times(Append(functors, f), SendsFor(r)) = Times(functors, SendsFor(r)) + IF f \in SendsFor(r) THEN 1 ELSE 0
  BY <1>1, TimesAppend
<1> QED  BY <1>1, <1>2, Zenon DEF Posted

\* The first functor of the batch is taken.
LEMMA RunCounts ==
    ASSUME Hands, NEW r \in Requests, NEW op, Running(op)
    PROVE  /\ Head(batch) \in Sendable /\ Head(batch).op = op
           /\ Swapped(r) = Swapped(r)' + IF Head(batch) \in SendsFor(r) THEN 1 ELSE 0
<1>1. batch \in Seq(Sendable) /\ batch # <<>> /\ batch' = Tail(batch) /\ Head(batch).op = op
  BY DEF Hands, Queues, Running
<1>2. Times(batch, SendsFor(r)) = Times(Tail(batch), SendsFor(r)) + IF Head(batch) \in SendsFor(r) THEN 1 ELSE 0
  BY <1>1, TimesTail
<1>3. Head(batch) \in Sendable
  BY <1>1, HeadAndTail
<1>4. Swapped(r) = Times(batch, SendsFor(r)) /\ Swapped(r)' = Times(Tail(batch), SendsFor(r))
  BY <1>1, Zenon DEF Swapped
<1> QED  BY <1>1, <1>2, <1>3, <1>4, Zenon

\* A response goes to the socket, to the output buffer or, if its connection is
\* closed, nowhere.
LEMMA SendCounts ==
    ASSUME Hands, NEW r \in Requests, NEW resp \in Responses, resp.req \in Requests,
           SendInLoop(ConnOf[resp.req], resp)
    PROVE  IF resp.req = r
           THEN \/ /\ state[ConnOf[r]] # "Connected"
                   /\ Buffered(r)' = Buffered(r) /\ Answers(r)' = Answers(r)
                \/ Buffered(r)' = Buffered(r) + 1 /\ Answers(r)' = Answers(r)
                \/ Buffered(r)' = Buffered(r) /\ Answers(r)' = Answers(r) + 1
           ELSE Buffered(r)' = Buffered(r) /\ Answers(r)' = Answers(r)
<1> DEFINE c == ConnOf[resp.req]
           d == ConnOf[r]
           one == IF resp \in AnswersTo(r) THEN 1 ELSE 0
<1>1. c \in Conns /\ d \in Conns /\ out \in [Conns -> Seq(Responses)] /\ got \in [Conns -> Seq(Responses)]
  BY ServerAssumption DEF Hands, Data
<1>2. resp \in AnswersTo(r) <=> resp.req = r
  BY SendsAre
<1>3. CASE state[c] # "Connected" /\ UNCHANGED <<out, got>>
  <2>1. Buffered(r)' = Buffered(r) /\ Answers(r)' = Answers(r)
    BY <1>3, SameParts
  <2> QED  BY <1>3, <2>1
<1>4. CASE out' = [out EXCEPT ![c] = Append(@, resp)] /\ UNCHANGED got
  <2>1. Times(Append(out[c], resp), AnswersTo(r)) = Times(out[c], AnswersTo(r)) + one
    BY <1>1, TimesAppend
  <2>2. Answers(r)' = Answers(r)
    BY <1>4, SameParts
  <2>3. c # d => Buffered(r)' = Buffered(r)
    BY <1>1, <1>4 DEF Buffered
  <2>4. c = d => out'[d] = Append(out[c], resp)
    BY <1>1, <1>4
  <2>5. c = d => Buffered(r)' = Buffered(r) + one
    BY <2>1, <2>4, Zenon DEF Buffered
  <2>6. Buffered(r) \in Nat
    BY HandsCount DEF Counted
  <2> HIDE DEF c, d
  <2>7. resp.req = r => c = d
    BY DEF c, d
  <2> QED  BY <1>2, <2>2, <2>3, <2>5, <2>6, <2>7
<1>5. CASE got' = [got EXCEPT ![c] = Append(@, resp)] /\ UNCHANGED out
  <2>1. Times(Append(got[c], resp), AnswersTo(r)) = Times(got[c], AnswersTo(r)) + one
    BY <1>1, TimesAppend
  <2>2. Buffered(r)' = Buffered(r)
    BY <1>5, SameParts
  <2>3. c # d => Answers(r)' = Answers(r)
    BY <1>1, <1>5 DEF Answers
  <2>4. c = d => got'[d] = Append(got[c], resp)
    BY <1>1, <1>5
  <2>5. c = d => Answers(r)' = Answers(r) + one
    BY <2>1, <2>4, Zenon DEF Answers
  <2>6. Answers(r) \in Nat
    BY HandsCount DEF Counted
  <2> HIDE DEF c, d
  <2>7. resp.req = r => c = d
    BY DEF c, d
  <2> QED  BY <1>2, <2>2, <2>3, <2>5, <2>6, <2>7
<1> QED  BY <1>3, <1>4, <1>5 DEF SendInLoop, SendUnchecked

\* A step leaves a request where it is, moves it, or drops it for good.
Kept(r) ==
    \/ Places(r)' = Places(r)
    \/ Places(r)' = Places(r) - 1 /\ Gone(r)'

LEMMA RequestsMove ==
    Next => \/ UNCHANGED <<unsent, inbox, req, tasks, wpc, wreq, functors, batch, out, got>>
            \/ \E r \in Requests : SendRequest(r)
            \/ \E c \in Conns : SendGarbage(c) \/ HandleWrite(c)
            \/ NextFrame \/ Gate \/ PostTask \/ Swap
            \/ RunListen \/ RunSend \/ RunGoAway \/ RunStopAccepting \/ RunStop
            \/ \E w \in Workers : Take(w) \/ Lock(w) \/ Invoke(w) \/ Send(w) \/ Done(w) \/ Exit(w)
            \/ Start \/ StopAccepting \/ PostGoAway \/ TcpStop
BY DEF Next, ClientStep, Connect, Leave, LoopStep, Begin, Test, Wait, HandleAccept, HandleRead, HandleEnd, NoFrame,
   WorkerStep, Register, StopBegins, StopStep, WaitForTasks, Quit, Join, PoolReset, serverVars, connVars, poolVars,
   queueVars, loopVars, netVars

\* A client sends a request, or garbage.
LEMMA SendRequestKeeps ==
    ASSUME Hands, NEW r \in Requests, NEW q \in Requests, SendRequest(q)
    PROVE  Kept(r)
<1> DEFINE c == ConnOf[q]
           d == ConnOf[r]
           frames == {p \in Requests : ConnOf[p] = c} \cup {Corrupt}
<1>1. /\ q \in unsent /\ unsent' = unsent \ {q} /\ inbox' = [inbox EXCEPT ![c] = Append(@, q)]
      /\ UNCHANGED <<req, tasks, wpc, wreq, functors, batch, out, got>>
  BY DEF SendRequest, connVars, poolVars, queueVars, loopVars
<1>2. c \in Conns /\ d \in Conns /\ inbox \in [Conns -> Seq(Requests \cup {Corrupt})]
  BY ServerAssumption DEF Hands, Data
<1>3. Times(Append(inbox[c], q), {r}) = Times(inbox[c], {r}) + IF q \in {r} THEN 1 ELSE 0
  BY <1>2, TimesAppend
<1>4. Unread(r) \in Nat
  BY HandsCount DEF Counted
<1>5. CASE q = r
  <2>1. Unsent(r) = 1 /\ Unsent(r)' = 0
    BY <1>1, <1>5 DEF Unsent
  <2>2. inbox'[d] = Append(inbox[c], q) /\ c = d
    BY <1>1, <1>2, <1>5
  <2> HIDE DEF c, d
  <2>3. Times(Append(inbox[c], q), {r}) = Times(inbox[c], {r}) + 1
    BY <1>3, <1>5
  <2>4. Unread(r)' = Unread(r) + 1
    BY <2>2, <2>3, Zenon DEF Unread, d
  <2>5. /\ Decoded(r)' = Decoded(r) /\ Queued(r)' = Queued(r) /\ InWork(r)' = InWork(r) /\ Posted(r)' = Posted(r)
        /\ Swapped(r)' = Swapped(r) /\ Buffered(r)' = Buffered(r) /\ Answers(r)' = Answers(r)
    BY <1>1, SameParts
  <2>6. Counted
    BY HandsCount
  <2> QED  BY <2>1, <2>4, <2>5, <2>6 DEF Kept, Places, Counted
<1>6. CASE q # r
  <2>1. Unsent(r)' = Unsent(r)
    BY <1>1, <1>6 DEF Unsent
  <2>2. c = d => inbox'[d] = Append(inbox[c], q)
    BY <1>1, <1>2
  <2>3. c # d => inbox'[d] = inbox[d]
    BY <1>1, <1>2
  <2> HIDE DEF c, d
  <2>4. Times(Append(inbox[c], q), {r}) = Times(inbox[c], {r})
    <3>1. Times(inbox[c], {r}) \in Nat
      BY <1>2, PositionsFinite
    <3> QED  BY <1>3, <1>6, <3>1
  <2>5. Unread(r)' = Unread(r)
    BY <2>2, <2>3, <2>4, Zenon DEF Unread, d
  <2>6. /\ Decoded(r)' = Decoded(r) /\ Queued(r)' = Queued(r) /\ InWork(r)' = InWork(r) /\ Posted(r)' = Posted(r)
        /\ Swapped(r)' = Swapped(r) /\ Buffered(r)' = Buffered(r) /\ Answers(r)' = Answers(r)
    BY <1>1, SameParts
  <2> QED  BY <2>1, <2>5, <2>6 DEF Kept, Places
<1> QED  BY <1>5, <1>6

LEMMA SendGarbageKeeps ==
    ASSUME Hands, NEW r \in Requests, NEW c \in Conns, SendGarbage(c)
    PROVE  Kept(r)
<1> DEFINE d == ConnOf[r]
<1>1. /\ inbox' = [inbox EXCEPT ![c] = Append(@, Corrupt)]
      /\ UNCHANGED <<unsent, req, tasks, wpc, wreq, functors, batch, out, got>>
  BY DEF SendGarbage, connVars, poolVars, queueVars, loopVars
<1>2. d \in Conns /\ inbox \in [Conns -> Seq(Requests \cup {Corrupt})] /\ Corrupt \notin {r}
  BY ServerAssumption DEF Hands, Data
<1>3. Times(Append(inbox[c], Corrupt), {r}) = Times(inbox[c], {r})
  <2>1. Times(Append(inbox[c], Corrupt), {r}) = Times(inbox[c], {r}) + IF Corrupt \in {r} THEN 1 ELSE 0
    BY <1>2, TimesAppend
  <2>2. Times(inbox[c], {r}) \in Nat
    BY <1>2, PositionsFinite
  <2> QED  BY <1>2, <2>1, <2>2
<1>4. c = d => inbox'[d] = Append(inbox[c], Corrupt)
  BY <1>1, <1>2
<1>5. c # d => inbox'[d] = inbox[d]
  BY <1>1, <1>2
<1>6. Unread(r)' = Unread(r)
  BY <1>3, <1>4, <1>5, Zenon DEF Unread
<1>7. /\ Unsent(r)' = Unsent(r) /\ Decoded(r)' = Decoded(r) /\ Queued(r)' = Queued(r) /\ InWork(r)' = InWork(r)
      /\ Posted(r)' = Posted(r) /\ Swapped(r)' = Swapped(r) /\ Buffered(r)' = Buffered(r) /\ Answers(r)' = Answers(r)
  BY <1>1, SameParts
<1> QED  BY <1>6, <1>7 DEF Kept, Places

\* The socket takes the first responses of the output buffer.
LEMMA HandleWriteKeeps ==
    ASSUME Hands, NEW r \in Requests, NEW c \in Conns, HandleWrite(c)
    PROVE  Kept(r)
<1> DEFINE d == ConnOf[r]
           S == AnswersTo(r)
<1>1. UNCHANGED <<unsent, inbox, req, tasks, wpc, wreq, functors, batch>>
  BY DEF HandleWrite, poolVars, queueVars
<1>2. /\ Unsent(r)' = Unsent(r) /\ Unread(r)' = Unread(r) /\ Decoded(r)' = Decoded(r) /\ Queued(r)' = Queued(r)
      /\ InWork(r)' = InWork(r) /\ Posted(r)' = Posted(r) /\ Swapped(r)' = Swapped(r)
  BY <1>1, SameParts
<1>3. d \in Conns /\ out \in [Conns -> Seq(Responses)] /\ got \in [Conns -> Seq(Responses)]
  BY ServerAssumption DEF Hands, Data
<1>4. CASE UNCHANGED <<got, out>>
  BY <1>2, <1>4, SameParts DEF Kept, Places
<1>5. ASSUME NEW n \in 1 .. Len(out[c]),
             got' = [got EXCEPT ![c] = @ \o SubSeq(out[c], 1, n)],
             out' = [out EXCEPT ![c] = SubSeq(@, n + 1, Len(@))]
      PROVE  Kept(r)
  <2>1. CASE c # d
    <3>1. got'[d] = got[d] /\ out'[d] = out[d]
      BY <1>3, <1>5, <2>1
    <3>2. Buffered(r)' = Buffered(r) /\ Answers(r)' = Answers(r)
      BY <3>1, Zenon DEF Buffered, Answers
    <3> QED  BY <1>2, <3>2 DEF Kept, Places
  <2>2. CASE c = d
    <3> DEFINE p == SubSeq(out[c], 1, n)
               q == SubSeq(out[c], n + 1, Len(out[c]))
    <3>1. Times(out[c], S) = Times(p, S) + Times(q, S)
      BY <1>3, TimesSplit
    <3>2. p \in Seq(Responses) /\ q \in Seq(Responses)
      <4>1. n \in 0 .. Len(out[c])
        BY <1>3
      <4> QED  BY <1>3, <4>1, Split
    <3>3. got'[d] = got[c] \o p /\ out'[d] = q
      BY <1>3, <1>5, <2>2
    <3> HIDE DEF p, q, S
    <3>4. Times(got[c] \o p, S) = Times(got[c], S) + Times(p, S)
      BY <1>3, <3>2, TimesConcat
    <3>5. Buffered(r) = Times(out[c], S) /\ Buffered(r)' = Times(q, S)
      BY <2>2, <3>3, Zenon DEF Buffered, S
    <3>6. Answers(r) = Times(got[c], S) /\ Answers(r)' = Times(got[c] \o p, S)
      BY <2>2, <3>3, Zenon DEF Answers, S
    <3>7. Times(p, S) \in Nat /\ Times(q, S) \in Nat /\ Times(got[c], S) \in Nat
      BY <1>3, <3>2, PositionsFinite
    <3>8. Buffered(r)' + Answers(r)' = Buffered(r) + Answers(r)
      BY <3>1, <3>4, <3>5, <3>6, <3>7
    <3>9. {Buffered(r), Answers(r), Buffered(r)', Answers(r)'} \subseteq Nat
      BY <3>1, <3>4, <3>5, <3>6, <3>7
    <3> DEFINE others == Unsent(r) + Unread(r) + Decoded(r) + Queued(r) + InWork(r) + Posted(r) + Swapped(r)
    <3>10. others \in Nat
      <4>1. Counted
        BY HandsCount
      <4> QED  BY <4>1, SMTT(30) DEF Counted
    <3>11. Places(r) = others + Buffered(r) + Answers(r)
      BY DEF Places
    <3>12. Places(r)' = others + Buffered(r)' + Answers(r)'
      BY <1>2 DEF Places
    <3> HIDE DEF others
    <3> QED  BY <3>8, <3>9, <3>10, <3>11, <3>12 DEF Kept
  <2> QED  BY <2>1, <2>2
<1> QED  BY <1>4, <1>5 DEF HandleWrite

\* onMessage takes a frame from the input.
LEMMA NextFrameKeeps ==
    ASSUME Hands, NEW r \in Requests, NextFrame
    PROVE  Kept(r)
<1> DEFINE frames == {p \in Requests : ConnOf[p] = cur} \cup {Corrupt}
           x == Head(inbox[cur])
           d == ConnOf[r]
<1>1. /\ lpc = "frames" /\ cur \in Conns /\ req = None
      /\ inbox[cur] # <<>> /\ inbox' = [inbox EXCEPT ![cur] = Tail(@)]
      /\ UNCHANGED <<unsent, tasks, wpc, wreq, functors, batch, out, got>>
  BY DEF NextFrame, Hands, Loop, poolVars, queueVars
<1>2. d \in Conns /\ inbox \in [Conns -> Seq(Requests \cup {Corrupt})] /\ inbox[cur] \in Seq(frames)
      /\ None # r /\ Corrupt # r
  BY <1>1, ServerAssumption DEF Hands, Data
<1>3. x \in frames
  BY <1>1, <1>2, HeadAndTail
<1>4. Times(inbox[cur], {r}) = Times(Tail(inbox[cur]), {r}) + IF x \in {r} THEN 1 ELSE 0
  BY <1>1, <1>2, TimesTail
<1>5. Times(Tail(inbox[cur]), {r}) \in Nat
  BY <1>1, <1>2, HeadAndTail, PositionsFinite
<1>6. Unread(r) = Unread(r)' + IF x = r THEN 1 ELSE 0
  <2>1. CASE cur = d
    <3>1. inbox'[d] = Tail(inbox[cur])
      BY <1>1, <1>2, <2>1
    <3>2. Unread(r) = Times(inbox[cur], {r}) /\ Unread(r)' = Times(Tail(inbox[cur]), {r})
      BY <2>1, <3>1, Zenon DEF Unread
    <3> HIDE DEF x
    <3> QED  BY <1>4, <1>5, <3>2
  <2>2. CASE cur # d
    <3>1. inbox'[d] = inbox[d]
      BY <1>1, <1>2, <2>2
    <3>2. Unread(r)' = Unread(r)
      BY <3>1, Zenon DEF Unread
    <3>3. x # r
      BY <1>2, <1>3, <2>2
    <3>4. Unread(r) \in Nat
      BY HandsCount DEF Counted
    <3> QED  BY <3>2, <3>3, <3>4
  <2> QED  BY <2>1, <2>2
<1>7. Decoded(r) = 0 /\ Decoded(r)' = IF x = r THEN 1 ELSE 0
  <2>1. CASE x = Corrupt
    BY <1>1, <1>2, <2>1 DEF NextFrame, Decoded
  <2>2. CASE x # Corrupt
    BY <1>1, <1>2, <2>2 DEF NextFrame, Decoded
  <2> QED  BY <2>1, <2>2
<1>8. /\ Unsent(r)' = Unsent(r) /\ Queued(r)' = Queued(r) /\ InWork(r)' = InWork(r) /\ Posted(r)' = Posted(r)
      /\ Swapped(r)' = Swapped(r) /\ Buffered(r)' = Buffered(r) /\ Answers(r)' = Answers(r)
  BY <1>1, SameParts
<1>9. Unread(r) \in Nat /\ Unread(r)' \in Nat
  <2>1. CASE cur = d
    <3>1. inbox'[d] = Tail(inbox[cur])
      BY <1>1, <1>2, <2>1
    <3>2. Unread(r)' = Times(Tail(inbox[cur]), {r})
      BY <3>1, Zenon DEF Unread
    <3> QED  BY <1>5, <3>2, HandsCount DEF Counted
  <2>2. CASE cur # d
    <3>1. inbox'[d] = inbox[d]
      BY <1>1, <1>2, <2>2
    <3>2. Unread(r)' = Unread(r)
      BY <3>1, Zenon DEF Unread
    <3> QED  BY <3>2, HandsCount DEF Counted
  <2> QED  BY <2>1, <2>2
<1> HIDE DEF x
<1>10. Unread(r)' + Decoded(r)' = Unread(r) + Decoded(r)
  BY <1>6, <1>7, <1>9
<1> DEFINE others == Queued(r) + InWork(r) + Posted(r) + Swapped(r) + Buffered(r) + Answers(r)
<1>11. Counted
  BY HandsCount
<1>12. Decoded(r)' \in Nat
  BY <1>7
<1> QED  BY <1>8, <1>9, <1>10, <1>11, <1>12 DEF Kept, Places, Counted

\* The loop thread answers what it has decoded.
LEMMA RefuseKeeps ==
    ASSUME Hands, NEW r \in Requests, lpc \in {"gate", "post"}, NEW code \in Codes, Refuse(code),
           UNCHANGED <<unsent, inbox, tasks, wpc, wreq, functors, batch, state>>
    PROVE  Kept(r)
<1> DEFINE resp == Response(req, code)
<1>1. req \in Requests /\ ConnOf[req] = cur /\ cur \in Conns /\ state[cur] # "none"
      /\ state \in [Conns -> {"none", "Connected", "Disconnected"}]
  BY DEF Hands, Loop, Life
<1>2. resp \in Responses /\ resp.req = req
  BY <1>1, ResponseType DEF Response
<1>3. SendInLoop(ConnOf[resp.req], resp) /\ req' = None /\ None # r
  BY <1>1, <1>2, ServerAssumption DEF Refuse
<1> HIDE DEF resp
<1>4. /\ Unsent(r)' = Unsent(r) /\ Unread(r)' = Unread(r) /\ Queued(r)' = Queued(r) /\ InWork(r)' = InWork(r)
      /\ Posted(r)' = Posted(r) /\ Swapped(r)' = Swapped(r)
  BY SameParts
<1>5. Counted
  BY HandsCount
<1>6. Decoded(r)' = 0
  BY <1>3 DEF Decoded
<1>7. CASE req # r
  <2>1. Buffered(r)' = Buffered(r) /\ Answers(r)' = Answers(r)
    BY <1>1, <1>2, <1>3, <1>7, SendCounts
  <2>2. Decoded(r) = 0
    BY <1>7 DEF Decoded
  <2> QED  BY <1>4, <1>6, <2>1, <2>2 DEF Kept, Places
<1>8. CASE req = r
  <2>1. Decoded(r) = 1
    BY <1>8 DEF Decoded
  <2>2. \/ /\ state[ConnOf[r]] # "Connected"
           /\ Buffered(r)' = Buffered(r) /\ Answers(r)' = Answers(r)
        \/ Buffered(r)' = Buffered(r) + 1 /\ Answers(r)' = Answers(r)
        \/ Buffered(r)' = Buffered(r) /\ Answers(r)' = Answers(r) + 1
    BY <1>1, <1>2, <1>3, <1>8, SendCounts
  <2>3. state[ConnOf[r]] # "Connected" => Gone(r)'
    BY <1>1, <1>8 DEF Gone
  <2>4. Places(r)' = Places(r) \/ (Places(r)' = Places(r) - 1 /\ state[ConnOf[r]] # "Connected")
    BY <1>4, <1>5, <1>6, <2>1, <2>2 DEF Places, Counted
  <2> QED  BY <2>3, <2>4 DEF Kept
<1> QED  BY <1>7, <1>8

LEMMA GateKeeps ==
    ASSUME Hands, NEW r \in Requests, Gate
    PROVE  Kept(r)
<1>1. UNCHANGED <<unsent, inbox, tasks, wpc, wreq, functors, batch, state>> /\ lpc \in {"gate", "post"}
  BY DEF Gate, poolVars, queueVars
<1>2. CASE stopped
  <2>1. Refuse("SERVER_SHUTTING_DOWN") /\ "SERVER_SHUTTING_DOWN" \in Codes
    BY <1>2 DEF Gate, Codes
  <2> QED  BY <1>1, <2>1, RefuseKeeps
<1>3. CASE ~stopped
  <2>1. UNCHANGED <<req, out, got>>
    BY <1>3 DEF Gate
  <2> QED  BY <1>1, <2>1, SameParts DEF Kept, Places
<1> QED  BY <1>2, <1>3

LEMMA PostTaskKeeps ==
    ASSUME Hands, NEW r \in Requests, PostTask
    PROVE  Kept(r)
<1>1. UNCHANGED <<unsent, inbox, wpc, wreq, functors, batch, state>> /\ lpc \in {"gate", "post"}
  BY DEF PostTask, queueVars
<1>2. CASE Refuse("SERVER_BUSY") /\ UNCHANGED tasks
  <2>1. "SERVER_BUSY" \in Codes
    BY DEF Codes
  <2> QED  BY <1>1, <1>2, <2>1, RefuseKeeps
<1>3. CASE tasks' = Append(tasks, req) /\ req' = None /\ UNCHANGED <<out, got>>
  <2>1. req \in Begun /\ tasks \in Seq(Begun) /\ None # r
    BY <1>1, ServerAssumption DEF Hands, Loop, Pool, Begun
  <2>2. Times(Append(tasks, req), {r}) = Times(tasks, {r}) + IF req \in {r} THEN 1 ELSE 0
    BY <2>1, TimesAppend
  <2>3. Queued(r)' = Queued(r) + IF req \in {r} THEN 1 ELSE 0
    BY <1>3, <2>2, Zenon DEF Queued
  <2>4. Decoded(r)' = 0 /\ Decoded(r) = IF req \in {r} THEN 1 ELSE 0
    BY <1>3, <2>1 DEF Decoded
  <2>5. /\ Unsent(r)' = Unsent(r) /\ Unread(r)' = Unread(r) /\ InWork(r)' = InWork(r)
        /\ Posted(r)' = Posted(r) /\ Swapped(r)' = Swapped(r) /\ Buffered(r)' = Buffered(r) /\ Answers(r)' = Answers(r)
    BY <1>1, <1>3, SameParts
  <2>6. Counted
    BY HandsCount
  <2> QED  BY <2>3, <2>4, <2>5, <2>6 DEF Kept, Places, Counted
<1> QED  BY <1>2, <1>3 DEF PostTask

\* The queue becomes the batch.
LEMMA SwapKeeps ==
    ASSUME Hands, NEW r \in Requests, Swap
    PROVE  Kept(r)
<1>1. /\ batch = <<>> /\ batch' = functors /\ functors' = <<>>
      /\ UNCHANGED <<unsent, inbox, req, tasks, wpc, wreq, out, got>>
  BY DEF Swap, Hands, Queues, connVars, poolVars, netVars
<1>2. Swapped(r) = 0 /\ Posted(r)' = 0
  BY <1>1, TimesEmpty DEF Swapped, Posted
<1>3. Swapped(r)' = Posted(r)
  BY <1>1, Zenon DEF Swapped, Posted
<1>4. /\ Unsent(r)' = Unsent(r) /\ Unread(r)' = Unread(r) /\ Decoded(r)' = Decoded(r) /\ Queued(r)' = Queued(r)
      /\ InWork(r)' = InWork(r) /\ Buffered(r)' = Buffered(r) /\ Answers(r)' = Answers(r)
  BY <1>1, SameParts
<1>5. Counted
  BY HandsCount
<1> QED  BY <1>2, <1>3, <1>4, <1>5 DEF Kept, Places, Counted

\* A functor that sends no response to a request runs.
LEMMA RunOtherKeeps ==
    ASSUME Hands, NEW r \in Requests, NEW op, op # "send", Running(op),
           UNCHANGED <<unsent, inbox, req, tasks, wpc, wreq, functors>>,
           Buffered(r)' = Buffered(r), Answers(r)' = Answers(r)
    PROVE  Kept(r)
<1>1. Head(batch) \in Sendable /\ Head(batch).op = op
      /\ Swapped(r) = Swapped(r)' + IF Head(batch) \in SendsFor(r) THEN 1 ELSE 0
  BY RunCounts
<1>2. Head(batch) \notin SendsFor(r)
  BY <1>1, SendsAre DEF Sendable
<1>3. Swapped(r) = Swapped(r)' + 0
  BY <1>1, <1>2, Zenon
<1>4. Swapped(r)' \in Nat
  <2>1. batch' \in Seq(Sendable)
    BY HeadAndTail DEF Hands, Queues, Running
  <2> QED  BY <2>1, PositionsFinite DEF Swapped
<1>5. /\ Unsent(r)' = Unsent(r) /\ Unread(r)' = Unread(r) /\ Decoded(r)' = Decoded(r) /\ Queued(r)' = Queued(r)
      /\ InWork(r)' = InWork(r) /\ Posted(r)' = Posted(r)
  BY SameParts
<1>6. Swapped(r)' = Swapped(r)
  BY <1>3, <1>4
<1> QED  BY <1>5, <1>6 DEF Kept, Places

LEMMA RunSendKeeps ==
    ASSUME Hands, NEW r \in Requests, RunSend
    PROVE  Kept(r)
<1> DEFINE f == Head(batch)
<1>1. Running("send") /\ SendInLoop(f.conn, f.resp)
      /\ UNCHANGED <<unsent, inbox, req, tasks, wpc, wreq, functors, state>>
  BY DEF RunSend, poolVars, loopVars
<1>2. f \in Sendable /\ f.op = "send"
      /\ Swapped(r) = Swapped(r)' + IF f \in SendsFor(r) THEN 1 ELSE 0
  BY <1>1, RunCounts
<1>3. Swapped(r)' \in Nat
  <2>1. batch' \in Seq(Sendable)
    BY <1>1, HeadAndTail DEF Hands, Queues, Running
  <2> QED  BY <2>1, PositionsFinite DEF Swapped
<1> HIDE DEF f
<1>4. /\ f \in Functors /\ f.resp \in Responses /\ f.resp.req \in Requests /\ f.conn = ConnOf[f.resp.req]
      /\ state[ConnOf[f.resp.req]] # "none"
  BY <1>2, SendType DEF Sendable, Begun
<1>5. f \in SendsFor(r) <=> f.resp.req = r
  BY <1>2, <1>4 DEF SendsFor
<1>6. /\ Unsent(r)' = Unsent(r) /\ Unread(r)' = Unread(r) /\ Decoded(r)' = Decoded(r) /\ Queued(r)' = Queued(r)
      /\ InWork(r)' = InWork(r) /\ Posted(r)' = Posted(r)
  BY <1>1, SameParts
<1>7. Counted
  BY HandsCount
<1>8. CASE f.resp.req # r
  <2>1. Buffered(r)' = Buffered(r) /\ Answers(r)' = Answers(r)
    BY <1>1, <1>4, <1>8, SendCounts
  <2>2. Swapped(r)' = Swapped(r)
    BY <1>2, <1>3, <1>5, <1>8
  <2> QED  BY <1>6, <2>1, <2>2 DEF Kept, Places
<1>9. CASE f.resp.req = r
  <2>1. Swapped(r) = Swapped(r)' + 1
    BY <1>2, <1>5, <1>9
  <2>2. \/ /\ state[ConnOf[r]] # "Connected"
           /\ Buffered(r)' = Buffered(r) /\ Answers(r)' = Answers(r)
        \/ Buffered(r)' = Buffered(r) + 1 /\ Answers(r)' = Answers(r)
        \/ Buffered(r)' = Buffered(r) /\ Answers(r)' = Answers(r) + 1
    BY <1>1, <1>4, <1>9, SendCounts
  <2>3. state[ConnOf[r]] # "Connected" => Gone(r)'
    BY <1>1, <1>4, <1>9, ServerAssumption DEF Gone, Hands, Life
  <2> DEFINE others == Unsent(r) + Unread(r) + Decoded(r) + Queued(r) + InWork(r) + Posted(r)
  <2>4. others \in Nat /\ Buffered(r) \in Nat /\ Answers(r) \in Nat
    BY <1>7 DEF Counted
  <2>5. Places(r) = others + Swapped(r) + Buffered(r) + Answers(r)
    BY DEF Places
  <2>6. Places(r)' = others + Swapped(r)' + Buffered(r)' + Answers(r)'
    BY <1>6 DEF Places
  <2> HIDE DEF others
  <2>7. Places(r)' = Places(r) \/ (Places(r)' = Places(r) - 1 /\ state[ConnOf[r]] # "Connected")
    BY <1>3, <2>1, <2>2, <2>4, <2>5, <2>6
  <2> QED  BY <2>3, <2>7 DEF Kept
<1> QED  BY <1>8, <1>9

\* The broadcast of Stop answers no request.
LEMMA RunGoAwayKeeps ==
    ASSUME Hands, NEW r \in Requests, RunGoAway
    PROVE  Kept(r)
<1> DEFINE d == ConnOf[r]
           S == AnswersTo(r)
<1>1. Running("goAway") /\ UNCHANGED <<unsent, inbox, req, tasks, wpc, wreq, functors>>
  BY DEF RunGoAway, poolVars, loopVars
<1>2. d \in Conns /\ out \in [Conns -> Seq(Responses)] /\ got \in [Conns -> Seq(Responses)]
  BY ServerAssumption DEF Hands, Data
<1>3. out'[d] \in {out[d], Append(out[d], GoAway)} /\ got'[d] \in {got[d], Append(got[d], GoAway)}
  BY <1>2 DEF RunGoAway
<1>4. ASSUME NEW s \in Seq(Responses)
      PROVE  Times(Append(s, GoAway), S) = Times(s, S)
  <2>1. Times(Append(s, GoAway), S) = Times(s, S) + IF GoAway \in S THEN 1 ELSE 0
    BY ResponseType, TimesAppend
  <2>2. Times(s, S) \in Nat /\ GoAway \notin S
    BY PositionsFinite, SendsAre
  <2> QED  BY <2>1, <2>2
<1> HIDE DEF S
<1>5. Times(out'[d], S) = Times(out[d], S) /\ Times(got'[d], S) = Times(got[d], S)
  BY <1>2, <1>3, <1>4
<1>6. Buffered(r)' = Buffered(r) /\ Answers(r)' = Answers(r)
  BY <1>5, Zenon DEF Buffered, Answers, S
<1> QED  BY <1>1, <1>6, RunOtherKeeps

\* A worker that takes a task, or is done with one, keeps the requests that
\* other workers have.
LEMMA AtWorkChanges ==
    ASSUME Hands, NEW r \in Requests, NEW w \in Workers
    PROVE  /\ AtWork(r)' = AtWork(r) \cup {w} /\ w \notin AtWork(r) => InWork(r)' = InWork(r) + 1
           /\ AtWork(r)' = AtWork(r) \ {w} /\ w \in AtWork(r) => InWork(r)' = InWork(r) - 1
           /\ AtWork(r)' = AtWork(r) => InWork(r)' = InWork(r)
<1> DEFINE A == AtWork(r)
<1>1. IsFiniteSet(A) /\ InWork(r) = Cardinality(A) /\ InWork(r)' = Cardinality(A')
  <2>1. InWork(r)' = Cardinality(A')
    BY DEF InWork, AtWork
  <2> QED  BY <2>1, AtWorkFinite
<1> HIDE DEF A
<1>2. w \notin A => Cardinality(A \cup {w}) = Cardinality(A) + 1
  BY <1>1, FS_AddElement
<1>3. w \in A => Cardinality(A \ {w}) = Cardinality(A) - 1
  BY <1>1, FS_RemoveElement
<1> QED  BY <1>1, <1>2, <1>3, Zenon DEF A

LEMMA TakeKeeps ==
    ASSUME Hands, NEW r \in Requests, NEW w \in Workers, Take(w)
    PROVE  Kept(r)
<1> DEFINE x == Head(tasks)
<1>1. /\ tasks # <<>> /\ tasks' = Tail(tasks) /\ wpc[w] = "idle" /\ wreq' = [wreq EXCEPT ![w] = x]
      /\ wpc' = [wpc EXCEPT ![w] = "lock"]
      /\ UNCHANGED <<unsent, inbox, req, functors, batch, out, got>>
  BY DEF Take, connVars, queueVars, loopVars, netVars
<1>2. tasks \in Seq(Begun) /\ wreq[w] = None /\ None # r /\ wpc \in [Workers -> WorkerPC]
      /\ wreq \in [Workers -> Requests \cup {None}]
  BY <1>1, ServerAssumption DEF Hands, Pool, Active
<1>3. Times(tasks, {r}) = Times(Tail(tasks), {r}) + IF x \in {r} THEN 1 ELSE 0
  BY <1>1, <1>2, TimesTail
<1>4. Queued(r) = Queued(r)' + IF x \in {r} THEN 1 ELSE 0
  BY <1>1, <1>3, Zenon DEF Queued
<1>5. Queued(r)' \in Nat
  <2>1. tasks' \in Seq(Begun)
    BY <1>1, <1>2, HeadAndTail
  <2> QED  BY <2>1, PositionsFinite DEF Queued
<1> HIDE DEF x
<1>6. w \notin AtWork(r)
  BY <1>2 DEF AtWork
<1>7. InWork(r)' = InWork(r) + IF x \in {r} THEN 1 ELSE 0
  <2>0. InWork(r) \in Nat
    BY HandsCount DEF Counted
  <2>1. CASE x = r
    <3>1. AtWork(r)' = AtWork(r) \cup {w}
      BY <1>1, <1>2, <2>1 DEF AtWork
    <3> QED  BY <1>6, <2>1, <3>1, AtWorkChanges
  <2>2. CASE x # r
    <3>1. AtWork(r)' = AtWork(r)
      BY <1>1, <1>2, <2>2 DEF AtWork
    <3>2. InWork(r)' = InWork(r)
      BY <3>1, AtWorkChanges
    <3> QED  BY <2>0, <2>2, <3>2
  <2> QED  BY <2>1, <2>2
<1>8. /\ Unsent(r)' = Unsent(r) /\ Unread(r)' = Unread(r) /\ Decoded(r)' = Decoded(r)
      /\ Posted(r)' = Posted(r) /\ Swapped(r)' = Swapped(r) /\ Buffered(r)' = Buffered(r) /\ Answers(r)' = Answers(r)
  BY <1>1, SameParts
<1>9. Counted
  BY HandsCount
<1> QED  BY <1>4, <1>5, <1>7, <1>8, <1>9 DEF Kept, Places, Counted

\* A worker drops its request, and says why.
LEMMA DropKeeps ==
    ASSUME Hands, NEW r \in Requests, NEW w \in Workers, wpc[w] \in {"lock", "invoke", "send"},
           wpc' = [wpc EXCEPT ![w] = "done"], wreq[w] = r => Gone(r)',
           UNCHANGED <<unsent, inbox, req, tasks, wreq, functors, batch, out, got>>
    PROVE  Kept(r)
<1>1. wpc \in [Workers -> WorkerPC]
  BY DEF Hands, Pool
<1>2. /\ Unsent(r)' = Unsent(r) /\ Unread(r)' = Unread(r) /\ Decoded(r)' = Decoded(r) /\ Queued(r)' = Queued(r)
      /\ Posted(r)' = Posted(r) /\ Swapped(r)' = Swapped(r) /\ Buffered(r)' = Buffered(r) /\ Answers(r)' = Answers(r)
  BY SameParts
<1>3. CASE wreq[w] = r
  <2>1. AtWork(r)' = AtWork(r) \ {w} /\ w \in AtWork(r)
    BY <1>1, <1>3 DEF AtWork
  <2>2. InWork(r)' = InWork(r) - 1
    BY <2>1, AtWorkChanges
  <2>3. Counted
    BY HandsCount
  <2>4. Places(r)' = Places(r) - 1
    BY <1>2, <2>2, <2>3 DEF Places, Counted
  <2> QED  BY <1>3, <2>4 DEF Kept
<1>4. CASE wreq[w] # r
  <2>1. AtWork(r)' = AtWork(r)
    BY <1>1, <1>4 DEF AtWork
  <2>2. InWork(r)' = InWork(r)
    BY <2>1, AtWorkChanges
  <2> QED  BY <1>2, <2>2 DEF Kept, Places
<1> QED  BY <1>3, <1>4

\* A worker goes on with its request.
LEMMA WorkGoesOn ==
    ASSUME Hands, NEW r \in Requests, AtWork(r)' = AtWork(r),
           UNCHANGED <<unsent, inbox, req, tasks, functors, batch, out, got>>
    PROVE  Kept(r)
<1>1. InWork(r)' = InWork(r)
  BY DEF InWork, AtWork
<1> QED  BY <1>1, SameParts DEF Kept, Places

LEMMA LockKeeps ==
    ASSUME Hands, NEW r \in Requests, NEW w \in Workers, Lock(w)
    PROVE  Kept(r)
<1>1. /\ wpc[w] = "lock" /\ wpc \in [Workers -> WorkerPC] /\ wreq[w] \in Begun
      /\ UNCHANGED <<unsent, inbox, req, tasks, wreq, functors, batch, out, got, state>>
  BY DEF Lock, connVars, queueVars, loopVars, netVars, Hands, Pool, Active
<1>2. CASE Alive(ConnOf[wreq[w]])
  <2>1. wpc' = [wpc EXCEPT ![w] = "invoke"]
    BY <1>2 DEF Lock
  <2>2. AtWork(r)' = AtWork(r)
    BY <1>1, <2>1 DEF AtWork
  <2> QED  BY <1>1, <2>2, WorkGoesOn
<1>3. CASE ~Alive(ConnOf[wreq[w]])
  <2>1. wpc' = [wpc EXCEPT ![w] = "done"]
    BY <1>3 DEF Lock
  <2>2. state[ConnOf[wreq[w]]] = "Disconnected"
    <3>1. ConnOf[wreq[w]] \in Conns /\ ConnOf[wreq[w]] \notin connections /\ state[ConnOf[wreq[w]]] # "none"
      BY <1>1, <1>3, ServerAssumption DEF Alive, Begun
    <3> QED  BY <3>1 DEF Hands, Life
  <2>3. wreq[w] = r => Gone(r)'
    BY <1>1, <2>2 DEF Gone
  <2> QED  BY <1>1, <2>1, <2>3, DropKeeps
<1> QED  BY <1>2, <1>3

LEMMA InvokeKeeps ==
    ASSUME Hands, NEW r \in Requests, NEW w \in Workers, Invoke(w)
    PROVE  Kept(r)
<1>1. /\ wpc[w] = "invoke" /\ wpc \in [Workers -> WorkerPC]
      /\ UNCHANGED <<unsent, inbox, req, tasks, wreq, functors, batch, out, got>>
  BY DEF Invoke, connVars, queueVars, loopVars, netVars, Hands, Pool
<1>2. CASE wpc' = [wpc EXCEPT ![w] = "send"]
  <2>1. AtWork(r)' = AtWork(r)
    BY <1>1, <1>2 DEF AtWork
  <2> QED  BY <1>1, <2>1, WorkGoesOn
<1>3. CASE wpc' = [wpc EXCEPT ![w] = "done"] /\ lost' = lost \cup {wreq[w]}
  <2>1. wreq[w] = r => Gone(r)'
    BY <1>3 DEF Gone
  <2> QED  BY <1>1, <1>3, <2>1, DropKeeps
<1> QED  BY <1>2, <1>3 DEF Invoke

LEMMA SendKeeps ==
    ASSUME Hands, NEW r \in Requests, NEW w \in Workers, Send(w)
    PROVE  Kept(r)
<1> DEFINE q == wreq[w]
           resp == Response(q, wcode[w])
<1>1. /\ wpc[w] = "send" /\ wpc \in [Workers -> WorkerPC] /\ wpc' = [wpc EXCEPT ![w] = "done"]
      /\ q \in Begun /\ wcode[w] \in Codes
      /\ UNCHANGED <<unsent, inbox, req, tasks, wreq, batch, out, got, state>>
  BY DEF Send, connVars, queueVars, loopVars, netVars, Hands, Pool, Active
<1>2. q \in Requests /\ ConnOf[q] \in Conns /\ state[ConnOf[q]] # "none"
  BY <1>1, ServerAssumption DEF Begun
<1>3. CASE state[ConnOf[q]] # "Connected" /\ UNCHANGED <<functors, lost>>
  <2>1. state[ConnOf[q]] = "Disconnected"
    BY <1>2, <1>3 DEF Hands, Life
  <2>2. wreq[w] = r => Gone(r)'
    BY <1>1, <2>1 DEF Gone
  <2> QED  BY <1>1, <1>3, <2>2, DropKeeps
<1>4. CASE Post(FSend(ConnOf[q], resp))
  <2>1. resp \in Responses /\ resp.req = q
    BY <1>1, <1>2, ResponseType DEF Response
  <2> HIDE DEF resp
  <2>2. FSend(ConnOf[q], resp) \in Functors /\ (FSend(ConnOf[q], resp) \in SendsFor(r) <=> q = r)
    BY <1>2, <2>1, SendsAre DEF Functors
  <2>3. Posted(r)' = Posted(r) + IF FSend(ConnOf[q], resp) \in SendsFor(r) THEN 1 ELSE 0
    BY <1>4, <2>2, PostCounts
  <2>4. /\ Unsent(r)' = Unsent(r) /\ Unread(r)' = Unread(r) /\ Decoded(r)' = Decoded(r) /\ Queued(r)' = Queued(r)
        /\ Swapped(r)' = Swapped(r) /\ Buffered(r)' = Buffered(r) /\ Answers(r)' = Answers(r)
    BY <1>1, SameParts
  <2>5. Counted
    BY HandsCount
  <2>6. CASE q = r
    <3>1. AtWork(r)' = AtWork(r) \ {w} /\ w \in AtWork(r)
      BY <1>1, <2>6 DEF AtWork
    <3>2. InWork(r)' = InWork(r) - 1
      BY <3>1, AtWorkChanges
    <3>3. Posted(r)' = Posted(r) + 1
      BY <2>2, <2>3, <2>6
    <3> QED  BY <2>4, <2>5, <3>2, <3>3 DEF Kept, Places, Counted
  <2>7. CASE q # r
    <3>1. AtWork(r)' = AtWork(r)
      BY <1>1, <2>7 DEF AtWork
    <3>2. InWork(r)' = InWork(r)
      BY <3>1, AtWorkChanges
    <3>3. Posted(r)' = Posted(r)
      BY <2>2, <2>3, <2>5, <2>7 DEF Counted
    <3> QED  BY <2>4, <3>2, <3>3 DEF Kept, Places
  <2> QED  BY <2>6, <2>7
<1>5. CASE lost' = lost \cup {q} /\ UNCHANGED functors
  <2>1. wreq[w] = r => Gone(r)'
    BY <1>5 DEF Gone
  <2> QED  BY <1>1, <1>5, <2>1, DropKeeps
<1> QED  BY <1>3, <1>4, <1>5 DEF Send

LEMMA DoneKeeps ==
    ASSUME Hands, NEW r \in Requests, NEW w \in Workers, Done(w) \/ Exit(w)
    PROVE  Kept(r)
<1>1. UNCHANGED <<unsent, inbox, req, tasks, functors, batch, out, got>>
  BY DEF Done, Exit, connVars, queueVars, loopVars, netVars
<1>2. wpc \in [Workers -> WorkerPC] /\ wreq \in [Workers -> Requests \cup {None}] /\ None # r
      /\ (wpc[w] = "idle" => wreq[w] = None)
  BY ServerAssumption DEF Hands, Pool, Active
<1>3. CASE Done(w)
  <2>1. AtWork(r)' = AtWork(r)
    BY <1>2, <1>3 DEF AtWork, Done
  <2> QED  BY <1>1, <2>1, WorkGoesOn
<1>4. CASE Exit(w)
  <2>1. AtWork(r)' = AtWork(r)
    BY <1>2, <1>4 DEF AtWork, Exit
  <2> QED  BY <1>1, <2>1, WorkGoesOn
<1> QED  BY <1>3, <1>4

\* Start and Stop queue functors that send no response to a request.
LEMMA OwnerPostKeeps ==
    ASSUME Hands, NEW r \in Requests, NEW f \in {FListen, FStopAccepting, FGoAway, FStop}, Post(f),
           UNCHANGED <<unsent, inbox, req, tasks, wpc, wreq, batch, out, got>>
    PROVE  Kept(r)
<1>1. f \in Functors /\ f \notin SendsFor(r)
  BY DEF Functors, SendsFor, FListen, FStopAccepting, FGoAway, FStop
<1>2. Posted(r)' = Posted(r) + IF f \in SendsFor(r) THEN 1 ELSE 0
  BY <1>1, PostCounts
<1>3. Posted(r)' = Posted(r)
  BY <1>1, <1>2, HandsCount DEF Counted
<1> QED  BY <1>3, SameParts DEF Kept, Places

LEMMA EveryStepKeeps ==
    ASSUME Hands, NEW r \in Requests, Next
    PROVE  Kept(r)
<1> USE DEF connVars, poolVars, queueVars, loopVars, netVars
<1>1. CASE UNCHANGED <<unsent, inbox, req, tasks, wpc, wreq, functors, batch, out, got>>
  BY <1>1, SameParts DEF Kept, Places
<1>2. CASE \E q \in Requests : SendRequest(q)
  BY <1>2, SendRequestKeeps
<1>3. CASE \E c \in Conns : SendGarbage(c) \/ HandleWrite(c)
  BY <1>3, SendGarbageKeeps, HandleWriteKeeps
<1>4. CASE NextFrame \/ Gate \/ PostTask \/ Swap
  BY <1>4, NextFrameKeeps, GateKeeps, PostTaskKeeps, SwapKeeps
<1>5. CASE RunListen
  BY <1>5, SameParts, RunOtherKeeps DEF RunListen
<1>6. CASE RunStopAccepting
  BY <1>6, SameParts, RunOtherKeeps DEF RunStopAccepting
<1>7. CASE RunStop
  BY <1>7, SameParts, RunOtherKeeps DEF RunStop
<1>8. CASE RunSend \/ RunGoAway
  BY <1>8, RunSendKeeps, RunGoAwayKeeps
<1>9. ASSUME NEW w \in Workers, Take(w) \/ Lock(w) \/ Invoke(w) \/ Send(w) \/ Done(w) \/ Exit(w)
      PROVE  Kept(r)
  BY <1>9, TakeKeeps, LockKeeps, InvokeKeeps, SendKeeps, DoneKeeps
<1>10. CASE Start
  BY <1>10, OwnerPostKeeps DEF Start
<1>11. CASE StopAccepting
  BY <1>11, OwnerPostKeeps DEF StopAccepting
<1>12. CASE PostGoAway
  BY <1>12, OwnerPostKeeps DEF PostGoAway
<1>13. CASE TcpStop
  BY <1>13, OwnerPostKeeps DEF TcpStop
<1> QED  BY <1>1, <1>2, <1>3, <1>4, <1>5, <1>6, <1>7, <1>8, <1>9, <1>10, <1>11, <1>12, <1>13, RequestsMove

-----------------------------------------------------------------------------
(* One answer at most, and none forgotten.                                 *)

Accounted == OneAnswer /\ NothingLost

LEMMA InitAccounted == Init => Accounted
<1> SUFFICES ASSUME Init, NEW r \in Requests PROVE Places(r) = 1
  BY DEF Accounted, OneAnswer, NothingLost
<1>1. ConnOf[r] \in Conns /\ None # r
  BY ServerAssumption
<1>2. Unsent(r) = 1 /\ Decoded(r) = 0
  BY <1>1 DEF Init, Unsent, Decoded
<1>3. Unread(r) = 0 /\ Buffered(r) = 0 /\ Answers(r) = 0
  BY <1>1, TimesEmpty DEF Init, Unread, Buffered, Answers
<1>4. Queued(r) = 0 /\ Posted(r) = 0 /\ Swapped(r) = 0
  BY TimesEmpty DEF Init, Queued, Posted, Swapped
<1>5. {w \in Workers : wreq[w] = r /\ wpc[w] # "done"} = {}
  BY <1>1 DEF Init
<1>6. InWork(r) = 0
  BY <1>5, FS_EmptySet DEF InWork
<1> QED  BY <1>2, <1>3, <1>4, <1>6 DEF Places

\* What is gone stays gone.
LEMMA GoneStays ==
    ASSUME Hands, Next, NEW r \in Requests, Gone(r)
    PROVE  Gone(r)'
<1>1. lost \subseteq lost'
  BY DEF Next, ClientStep, Connect, SendGarbage, Leave, SendRequest, LoopStep, Begin, Test, Wait, HandleAccept, HandleRead,
     HandleEnd, HandleWrite, NoFrame, NextFrame, Gate, PostTask, Swap, RunListen, RunSend, RunGoAway, RunStopAccepting,
     RunStop, WorkerStep, Take, Lock, Invoke, Send, Done, Exit, Start, Register, StopBegins, StopStep, StopAccepting,
     PostGoAway, WaitForTasks, TcpStop, Quit, Join, PoolReset
<1> QED  BY <1>1, BegunStays, ServerAssumption DEF Gone

LEMMA AccountedStep == Hands /\ Accounted /\ [Next]_vars => Accounted'
<1> SUFFICES ASSUME Hands, Accounted, [Next]_vars, NEW r \in Requests
             PROVE  (Places(r) <= 1)' /\ (Places(r) = 0 => r \in lost \/ state[ConnOf[r]] = "Disconnected")'
  BY DEF Accounted, OneAnswer, NothingLost
<1>1. Places(r) \in Nat /\ Places(r) <= 1 /\ (Places(r) = 0 => Gone(r))
  BY HandsCount DEF Accounted, OneAnswer, NothingLost, Places, Counted, Gone
<1>2. CASE Next
  <2>1. Kept(r) /\ (Gone(r) => Gone(r)')
    BY <1>2, EveryStepKeeps, GoneStays
  <2>2. Places(r)' <= 1 /\ (Places(r)' = 0 => Gone(r)')
    BY <1>1, <2>1 DEF Kept
  <2> QED  BY <2>2 DEF Gone
<1>3. CASE UNCHANGED vars
  <2>1. Places(r)' = Places(r)
    BY <1>3, SameParts DEF Places, vars, connVars, poolVars, queueVars, loopVars, netVars
  <2>2. UNCHANGED <<lost, state>>
    BY <1>3 DEF vars, connVars
  <2> QED  BY <1>1, <2>1, <2>2 DEF Gone
<1> QED  BY <1>2, <1>3

\* Every request is in one place, or gone for a reason.
THEOREM AccountedAlways == Safety => []Accounted
BY HandsAlways, InitAccounted, AccountedStep, PTL DEF Safety

\* Types, and a request in one pair of hands at a time: it is never answered
\* twice, however the gate, the pool and Stop interleave.
THEOREM ServerIsConsistent == Safety => []ServerConsistent
<1>1. TypeOK /\ Accounted => ServerConsistent
  BY DEF Accounted, ServerConsistent
<1> QED  BY <1>1, TypesAlways, AccountedAlways, PTL

\* A request that no hand holds had a handler that threw what Invoke does not
\* catch or made a response that Codec::encode refused, or its connection is
\* closed.
THEOREM NothingIsLost == Safety => []NothingLost
<1>1. Accounted => NothingLost
  BY DEF Accounted
<1> QED  BY <1>1, AccountedAlways, PTL

-----------------------------------------------------------------------------
(* Stop leaves no task behind.                                             *)

\* The tasks of the pool and the one that the loop thread is about to add.
Late == IF lpc = "post" THEN 1 ELSE 0
Load == Len(tasks) + Cardinality(Active) + Late

Drain ==
    /\ spc \notin {"new", "started"} => stopped
    /\ spc \in {"tcp", "quit", "join", "reset"} => Load <= 1
    /\ spc \in {"reset", "stopped"} => lpc = "exited" /\ closed
    /\ \A w \in Workers : wpc[w] = "exited" => closed /\ tasks = <<>>
    /\ spc = "stopped" => \A w \in Workers : wpc[w] = "exited"

LEMMA HandsLoad ==
    ASSUME Hands
    PROVE  /\ Len(tasks) \in Nat /\ Cardinality(Active) \in Nat /\ Late \in Nat /\ Load \in Nat
           /\ IsFiniteSet(Active)
<1>1. Len(tasks) \in Nat /\ IsFiniteSet(Active)
  BY DEF Hands, Pool
<1>2. Cardinality(Active) \in Nat
  BY <1>1, FS_CardinalityType
<1> QED  BY <1>1, <1>2 DEF Load, Late

\* What Stop sets stays set, and a loop that has ended does not go on.
LEMMA StopStays ==
    Hands /\ Next => /\ stopped => stopped'
                     /\ closed => closed'
                     /\ lpc = "exited" /\ spc # "new" => lpc' = "exited"
                     /\ stopped /\ lpc' = "post" => lpc = "post"
<1> SUFFICES ASSUME Hands, Next
             PROVE  /\ stopped => stopped'
                    /\ closed => closed'
                    /\ lpc = "exited" /\ spc # "new" => lpc' = "exited"
                    /\ stopped /\ lpc' = "post" => lpc = "post"
  OBVIOUS
<1>1. (stopped => stopped') /\ (closed => closed')
  <2> USE DEF Next, ClientStep, Connect, SendGarbage, Leave, SendRequest, LoopStep, Begin, Test, Wait, HandleAccept, HandleRead,
          HandleEnd, HandleWrite, NoFrame, NextFrame, Gate, PostTask, Swap, RunListen, RunSend, RunGoAway, RunStopAccepting,
          RunStop, WorkerStep, Take, Lock, Invoke, Send, Done, Exit, Start, Register, StopBegins, StopStep, StopAccepting,
          PostGoAway, WaitForTasks, TcpStop, Quit, Join, PoolReset, serverVars, poolVars
  <2>1. stopped => stopped'
    OBVIOUS
  <2>2. closed => closed'
    OBVIOUS
  <2> QED  BY <2>1, <2>2
<1>2. (lpc = "exited" /\ spc # "new" => lpc' = "exited") /\ (stopped /\ lpc' = "post" => lpc = "post")
  BY LoopChanges DEF HandleRead, Handling, Begin, Test, Wait, NoFrame, NextFrame, Gate, Refuse, PostTask, Swap, Start, OwnerAt
<1> QED  BY <1>1, <1>2

\* With stopped_ set nothing passes the gate, so the load only sinks.
LEMMA LoadSinks ==
    ASSUME Hands, Next, stopped
    PROVE  Load' <= Load
<1>0. /\ Len(tasks) \in Nat /\ Cardinality(Active) \in Nat /\ Late \in Nat /\ Load \in Nat
      /\ IsFiniteSet(Active) /\ wpc \in [Workers -> WorkerPC] /\ tasks \in Seq(Begun)
  BY HandsLoad DEF Hands, Pool
<1>1. Late' <= Late /\ Late' \in Nat
  BY StopStays DEF Late
<1>2. CASE UNCHANGED <<tasks, wpc>>
  <2>1. Active' = Active
    BY <1>2 DEF Active
  <2> QED  BY <1>0, <1>1, <1>2, <2>1 DEF Load
<1>3. ASSUME NEW w \in Workers, Take(w) PROVE Load' <= Load
  <2>1. tasks # <<>> /\ tasks' = Tail(tasks) /\ wpc[w] = "idle" /\ wpc' = [wpc EXCEPT ![w] = "lock"]
    BY <1>3 DEF Take
  <2>2. Len(tasks') = Len(tasks) - 1
    BY <1>0, <2>1
  <2>3. Active' = Active \cup {w} /\ w \notin Active
    BY <1>0, <2>1 DEF Active
  <2>4. Cardinality(Active') = Cardinality(Active) + 1
    BY <1>0, <2>3, FS_AddElement
  <2> QED  BY <1>0, <1>1, <2>2, <2>4 DEF Load
<1>4. ASSUME NEW w \in Workers, Lock(w) \/ Invoke(w) \/ Send(w) \/ Exit(w) PROVE Load' <= Load
  <2>1. CASE Lock(w)
    <3>1. Active' = Active /\ tasks' = tasks
      BY <1>0, <2>1 DEF Active, Lock
    <3> QED  BY <1>0, <1>1, <3>1 DEF Load
  <2>2. CASE Invoke(w)
    <3>1. Active' = Active /\ tasks' = tasks
      BY <1>0, <2>2 DEF Active, Invoke
    <3> QED  BY <1>0, <1>1, <3>1 DEF Load
  <2>3. CASE Send(w)
    <3>1. Active' = Active /\ tasks' = tasks
      BY <1>0, <2>3 DEF Active, Send
    <3> QED  BY <1>0, <1>1, <3>1 DEF Load
  <2>4. CASE Exit(w)
    <3>1. Active' = Active /\ tasks' = tasks
      BY <1>0, <2>4 DEF Active, Exit
    <3> QED  BY <1>0, <1>1, <3>1 DEF Load
  <2> QED  BY <1>4, <2>1, <2>2, <2>3, <2>4
<1>5. ASSUME NEW w \in Workers, Done(w) PROVE Load' <= Load
  <2>1. Active' = Active \ {w} /\ w \in Active /\ tasks' = tasks
    BY <1>0, <1>5 DEF Active, Done
  <2>2. Cardinality(Active') = Cardinality(Active) - 1
    BY <1>0, <2>1, FS_RemoveElement
  <2> QED  BY <1>0, <1>1, <2>1, <2>2 DEF Load
<1>6. CASE PostTask
  <2>1. Active' = Active
    BY <1>6 DEF PostTask, Active
  <2>2. Late = 1 /\ Late' = 0
    BY <1>6 DEF PostTask, Refuse, Late
  <2>3. Len(tasks') \in {Len(tasks), Len(tasks) + 1}
    BY <1>0, <1>6 DEF PostTask
  <2> QED  BY <1>0, <2>1, <2>2, <2>3 DEF Load
<1> QED  BY <1>2, <1>3, <1>4, <1>5, <1>6, PoolChanges

LEMMA InitDrain == Init => Drain
BY DEF Init, Drain

LEMMA DrainStep == Hands /\ Drain /\ [Next]_vars => Drain'
<1> SUFFICES ASSUME Hands, Drain, Next PROVE Drain'
  <2>1. UNCHANGED vars /\ Drain => Drain'
    BY DEF vars, serverVars, poolVars, loopVars, Drain, Load, Late, Active
  <2> QED  BY <2>1
<1>1. spc' \notin {"new", "started"} => stopped'
  BY OwnerSteps, StopStays DEF Drain, Start, StopBegins, StopAccepting, PostGoAway, WaitForTasks, TcpStop, Quit, Join,
     PoolReset, OwnerAt
<1>2. spc' \in {"tcp", "quit", "join", "reset"} => Load' <= 1
  <2>1. CASE spc \in {"tcp", "quit", "join", "reset"}
    <3>1. Load' <= Load /\ Load <= 1
      BY <2>1, LoadSinks DEF Drain
    <3>2. Load \in Nat /\ Load' \in Int
      <4>1. Hands'
        BY HandsStep
      <4>2. Len(tasks') \in Nat /\ IsFiniteSet(Active')
        BY <4>1 DEF Hands, Pool
      <4>3. Cardinality(Active') \in Nat
        BY <4>2, FS_CardinalityType
      <4> QED  BY <4>2, <4>3, HandsLoad DEF Load, Late
    <3> QED  BY <3>1, <3>2
  <2>2. CASE WaitForTasks
    <3>1. tasks' = <<>> /\ Active' = {}
      BY <2>2 DEF WaitForTasks, PoolIdle, Active, poolVars
    <3>2. Len(tasks') = 0 /\ Cardinality(Active') = 0
      BY <3>1, FS_EmptySet
    <3> QED  BY <3>2 DEF Load, Late
  <2> QED  BY <2>1, <2>2, OwnerSteps DEF Start, StopBegins, StopAccepting, PostGoAway, TcpStop, Quit, Join, PoolReset, OwnerAt
<1>3. spc' \in {"reset", "stopped"} => lpc' = "exited" /\ closed'
  BY OwnerSteps, StopStays DEF Drain, Start, StopBegins, StopAccepting, PostGoAway, WaitForTasks, TcpStop, Quit, Join,
     PoolReset, OwnerAt, loopVars, poolVars
<1>4. ASSUME NEW w \in Workers, wpc'[w] = "exited"
      PROVE  closed' /\ tasks' = <<>>
  <2>0. wpc \in [Workers -> WorkerPC]
    BY DEF Hands, Pool
  <2>1. CASE UNCHANGED <<tasks, wpc>>
    BY <1>4, <2>1, StopStays DEF Drain
  <2>2. ASSUME NEW v \in Workers, Take(v) PROVE closed' /\ tasks' = <<>>
    <3>1. wpc[w] = "exited" /\ tasks # <<>>
      BY <1>4, <2>0, <2>2 DEF Take
    <3> QED  BY <3>1 DEF Drain
  <2>3. ASSUME NEW v \in Workers, Lock(v) \/ Invoke(v) \/ Send(v) \/ Done(v) \/ Exit(v) PROVE closed' /\ tasks' = <<>>
    <3>1. tasks' = tasks /\ (wpc[w] = "exited" \/ (closed /\ tasks = <<>>))
      BY <1>4, <2>0, <2>3 DEF Lock, Invoke, Send, Done, Exit
    <3> QED  BY <3>1, StopStays DEF Drain
  <2>4. CASE PostTask
    <3>1. wpc[w] = "exited" /\ (~closed \/ UNCHANGED tasks)
      BY <1>4, <2>4 DEF PostTask, Room
    <3> QED  BY <3>1, StopStays DEF Drain
  <2> QED  BY <2>1, <2>2, <2>3, <2>4, PoolChanges
<1>5. spc' = "stopped" => \A w \in Workers : wpc'[w] = "exited"
  <2>1. CASE PoolReset
    BY <2>1 DEF PoolReset, poolVars
  <2>2. CASE spc = "stopped"
    <3>1. \A w \in Workers : wpc[w] = "exited"
      BY <2>2 DEF Drain
    <3>2. UNCHANGED wpc
      BY <3>1, PoolChanges DEF Take, Lock, Invoke, Send, Done, Exit, PostTask
    <3> QED  BY <3>1, <3>2
  <2> QED  BY <2>1, <2>2, OwnerSteps DEF Start, StopBegins, StopAccepting, PostGoAway, WaitForTasks, TcpStop, Quit, Join, OwnerAt
<1> QED  BY <1>1, <1>2, <1>3, <1>4, <1>5 DEF Drain

\* Between the wait of Stop and its end the pool has one task at most, and in
\* the end none, with the loop and the workers ended.
THEOREM StopLeavesNothing == Safety => []StopDrains
<1>1. Hands /\ Drain => StopDrains
  <2> SUFFICES ASSUME Hands, Drain PROVE StopDrains
    OBVIOUS
  <2>1. spc \in {"tcp", "quit", "join", "reset"} => Len(tasks) + Cardinality(Active) <= 1
    BY HandsLoad DEF Drain, Load
  <2>2. spc = "stopped" => tasks = <<>> /\ Active = {} /\ lpc = "exited"
    BY ServerAssumption DEF Drain, Active
  <2> QED  BY <2>1, <2>2 DEF StopDrains
<1>2. Safety => []Drain
  BY HandsAlways, InitDrain, DrainStep, PTL DEF Safety
<1> QED  BY <1>1, <1>2, HandsAlways, PTL
=============================================================================
