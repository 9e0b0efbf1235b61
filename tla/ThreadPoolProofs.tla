-------------------------- MODULE ThreadPoolProofs --------------------------
(***************************************************************************)
(* The safety of ThreadPool, for any number of workers, users and tasks    *)
(* and any queue size.  The inductive invariant is the conjunction of      *)
(* TypeOK, of Places and OfferedOnce, which say what the threads' places   *)
(* and the histories mean, and of the properties themselves.               *)
(***************************************************************************)
EXTENDS ThreadPool, SequenceTheorems, FiniteSetTheorems, TLAPS

-----------------------------------------------------------------------------
(* Queues.                                                                 *)

\* A queue that is not empty is its head before its tail.
LEMMA HeadAndTail ==
    ASSUME NEW S, NEW s \in Seq(S), s # <<>>
    PROVE  Head(s) \in S /\ Tail(s) \in Seq(S) /\ s = <<Head(s)>> \o Tail(s)
<1>1. Len(s) \in Nat \ {0} /\ Head(s) \in S /\ Tail(s) \in Seq(S)
  BY EmptySeq, HeadTailProperties
<1>2. s = SubSeq(s, 1, Len(s)) /\ Tail(s) = SubSeq(s, 2, Len(s))
  BY SubSeqFull, TailIsSubSeq
<1>3. SubSeq(s, 1, Len(s)) = <<s[1]>> \o SubSeq(s, 2, Len(s))
  BY <1>1, SubSeqRecursiveFirst
<1>4. Head(s) = s[1]
  OBVIOUS
<1> QED  BY <1>1, <1>2, <1>3, <1>4

\* What moves from the head of one queue to the end of another stays in place.
LEMMA HeadMoves ==
    ASSUME NEW S, NEW s \in Seq(S), NEW q \in Seq(S), q # <<>>
    PROVE  Append(s, Head(q)) \o Tail(q) = s \o q
<1>1. Head(q) \in S /\ Tail(q) \in Seq(S) /\ q = <<Head(q)>> \o Tail(q)
  BY HeadAndTail
<1>2. Append(s, Head(q)) = s \o <<Head(q)>> /\ <<Head(q)>> \in Seq(S)
  BY <1>1, AppendIsConcat
<1> QED  BY <1>1, <1>2, ConcatAssociative

-----------------------------------------------------------------------------
(* Types.                                                                  *)

\* The places of workers and users never mix: only the members change.
LEMMA PlaceType ==
    ASSUME TypeOK, NEW p \in [Threads -> WorkerPC \cup UserPC],
           \A t \in Threads : p[t] = pc[t] \/ (t \in Workers /\ p[t] \in WorkerPC)
                                           \/ (t \in Users /\ p[t] \in UserPC)
    PROVE  /\ \A w \in Workers : p[w] \in WorkerPC
           /\ \A u \in Users : p[u] \in UserPC
BY PoolAssumption DEF TypeOK, Threads

LEMMA TypeInit == Init => TypeOK
<1> SUFFICES ASSUME Init PROVE TypeOK
  OBVIOUS
<1>1. /\ pc \in [Threads -> WorkerPC \cup UserPC]
      /\ \A w \in Workers : pc[w] \in WorkerPC
      /\ \A u \in Users : pc[u] \in UserPC
  BY PoolAssumption DEF Init, Threads, WorkerPC, UserPC
<1>2. /\ holds \in [Workers -> Tasks \cup {NoTask}]
      /\ owed \in [Users -> SUBSET Tasks]
  BY DEF Init
<1>3. tasks \in Seq(Tasks) /\ accepted \in Seq(Tasks) /\ started \in Seq(Tasks)
  BY DEF Init
<1>4. /\ asleep \subseteq Workers /\ emptyAsleep \subseteq Users
      /\ finished \subseteq Tasks /\ refused \subseteq Tasks
  BY DEF Init
<1>5. isClosed \in BOOLEAN
  BY DEF Init
<1>6. activeTasks \in Int
  BY DEF Init
<1> QED  BY <1>1, <1>2, <1>3, <1>4, <1>5, <1>6 DEF TypeOK

LEMMA TypeSubmit ==
    ASSUME TypeOK, NEW c \in Threads, NEW t \in Tasks, TryAddTask(c, t) \/ AddTask(c, t)
    PROVE  TypeOK'
<1>1. /\ tasks' \in Seq(Tasks)
      /\ accepted' \in Seq(Tasks)
      /\ refused' \subseteq Tasks
  <2>1. CASE Push(c, t)
    BY <2>1 DEF TypeOK, Push
  <2>2. CASE UNCHANGED <<tasks, accepted>> /\ refused' = refused \cup {t}
    BY <2>2 DEF TypeOK
  <2> QED  BY <2>1, <2>2 DEF TryAddTask, AddTask
<1>2. /\ pc' \in [Threads -> WorkerPC \cup UserPC]
      /\ \A d \in Threads : pc'[d] = pc[d] \/ (d \in Workers /\ pc'[d] \in WorkerPC)
                                           \/ (d \in Users /\ pc'[d] \in UserPC)
  BY DEF TypeOK, TryAddTask, AddTask, Push, AfterThrow, Threads, WorkerPC, UserPC
<1>3. /\ \A w \in Workers : pc'[w] \in WorkerPC
      /\ \A u \in Users : pc'[u] \in UserPC
  BY <1>2, PlaceType
<1>4. UNCHANGED <<isClosed, activeTasks, asleep, emptyAsleep, holds, started, finished, owed>>
  BY DEF TryAddTask, AddTask
<1> QED  BY <1>1, <1>2, <1>3, <1>4 DEF TypeOK

LEMMA TypeNotifyOne ==
    ASSUME TypeOK, NEW c \in Threads, NotifyOne(c)
    PROVE  TypeOK'
<1>1. asleep' \subseteq Workers
  BY DEF TypeOK, NotifyOne
<1>2. /\ pc' \in [Threads -> WorkerPC \cup UserPC]
      /\ \A d \in Threads : pc'[d] = pc[d] \/ (d \in Workers /\ pc'[d] \in WorkerPC)
                                           \/ (d \in Users /\ pc'[d] \in UserPC)
  BY DEF TypeOK, NotifyOne, AfterPush, Sleepers, Threads, WorkerPC, UserPC
<1>3. /\ \A w \in Workers : pc'[w] \in WorkerPC
      /\ \A u \in Users : pc'[u] \in UserPC
  BY <1>2, PlaceType
<1> QED  BY <1>1, <1>2, <1>3 DEF TypeOK, NotifyOne, history

LEMMA TypeUsers ==
    ASSUME TypeOK, NEW u \in Users, WaitForTasks(u) \/ WaitCheck(u)
    PROVE  TypeOK'
<1>1. emptyAsleep' \subseteq Users
  BY DEF TypeOK, WaitForTasks, WaitCheck
<1>2. /\ pc' \in [Threads -> WorkerPC \cup UserPC]
      /\ \A d \in Threads : pc'[d] = pc[d] \/ (d \in Workers /\ pc'[d] \in WorkerPC)
                                           \/ (d \in Users /\ pc'[d] \in UserPC)
  BY DEF TypeOK, WaitForTasks, WaitCheck, Threads, WorkerPC, UserPC
<1>3. /\ \A w \in Workers : pc'[w] \in WorkerPC
      /\ \A v \in Users : pc'[v] \in UserPC
  BY <1>2, PlaceType
<1>4. owed' \in [Users -> SUBSET Tasks]
  BY DEF TypeOK, WaitForTasks, WaitCheck, history, Elems
<1> QED  BY <1>1, <1>2, <1>3, <1>4 DEF TypeOK, WaitForTasks, WaitCheck, history

LEMMA TypeWorkers ==
    ASSUME TypeOK, Places, NEW w \in Workers, Take(w) \/ TaskEnds(w) \/ Done(w)
    PROVE  TypeOK'
<1>1. /\ tasks' \in Seq(Tasks)
      /\ started' \in Seq(Tasks)
      /\ holds' \in [Workers -> Tasks \cup {NoTask}]
      /\ activeTasks' \in Int
  <2>1. CASE tasks # <<>> /\ Take(w) /\ pc'[w] = "run"
    <3>1. Oldest \in Tasks /\ Tail(tasks) \in Seq(Tasks)
      BY <2>1 DEF TypeOK, Oldest
    <3>2. /\ tasks' = Tail(tasks)
          /\ started' = Append(started, Oldest)
          /\ holds' = [holds EXCEPT ![w] = Oldest]
          /\ activeTasks' = activeTasks + 1
      BY <2>1 DEF Take, TypeOK, Threads
    <3> QED  BY <3>1, <3>2 DEF TypeOK
  <2>2. CASE Take(w) /\ UNCHANGED <<tasks, activeTasks, holds, started>>
    BY <2>2 DEF TypeOK
  <2>3. CASE TaskEnds(w)
    BY <2>3 DEF TaskEnds, TypeOK, history
  <2>4. CASE Done(w)
    BY <2>4 DEF Done, Remaining, TypeOK
  <2>5. Take(w) => \/ tasks # <<>> /\ pc'[w] = "run"
                   \/ UNCHANGED <<tasks, activeTasks, holds, started>>
    BY DEF Take, TypeOK, Threads
  <2> QED  BY <2>1, <2>2, <2>3, <2>4, <2>5
<1>2. /\ asleep' \subseteq Workers
      /\ emptyAsleep' \subseteq Users
  BY DEF TypeOK, Take, TaskEnds, Done
<1>3. finished' \subseteq Tasks
  BY DEF TypeOK, Places, Busy, Take, TaskEnds, Done, history
<1>4. /\ pc' \in [Threads -> WorkerPC \cup UserPC]
      /\ \A d \in Threads : pc'[d] = pc[d] \/ (d \in Workers /\ pc'[d] \in WorkerPC)
                                           \/ (d \in Users /\ pc'[d] \in UserPC)
  BY DEF TypeOK, Take, TaskEnds, Done, Threads, WorkerPC, UserPC
<1>5. /\ \A v \in Workers : pc'[v] \in WorkerPC
      /\ \A u \in Users : pc'[u] \in UserPC
  BY <1>4, PlaceType
<1> QED  BY <1>1, <1>2, <1>3, <1>4, <1>5 DEF TypeOK, Take, TaskEnds, Done, history

LEMMA TypeRest ==
    ASSUME TypeOK,
           Close \/ NotifyAll \/ JoinAll \/ \E t \in Threads : SpuriousWakeup(t)
    PROVE  TypeOK'
<1>1. /\ asleep' \subseteq Workers
      /\ emptyAsleep' \subseteq Users
      /\ isClosed' \in BOOLEAN
  BY DEF TypeOK, Close, NotifyAll, JoinAll, SpuriousWakeup
<1>2. /\ pc' \in [Threads -> WorkerPC \cup UserPC]
      /\ \A d \in Threads : pc'[d] = pc[d] \/ (d \in Workers /\ pc'[d] \in WorkerPC)
                                           \/ (d \in Users /\ pc'[d] \in UserPC)
  <2>1. CASE Close \/ JoinAll
    BY <2>1, PoolAssumption DEF TypeOK, Close, JoinAll, Threads, WorkerPC, UserPC
  <2>2. CASE NotifyAll
    BY <2>2, PoolAssumption DEF TypeOK, NotifyAll, Sleepers, Threads, WorkerPC, UserPC
  <2>3. CASE \E t \in Threads : SpuriousWakeup(t)
    BY <2>3 DEF TypeOK, SpuriousWakeup, Threads, WorkerPC, UserPC
  <2> QED  BY <2>1, <2>2, <2>3
<1>3. /\ \A w \in Workers : pc'[w] \in WorkerPC
      /\ \A u \in Users : pc'[u] \in UserPC
  BY <1>2, PlaceType
<1> QED  BY <1>1, <1>2, <1>3 DEF TypeOK, Close, NotifyAll, JoinAll, SpuriousWakeup, history

-----------------------------------------------------------------------------
(* Places.                                                                 *)

LEMMA PlacesInit == Init => Places
BY PoolAssumption DEF Init, Places, Threads, Busy

LEMMA PlacesSubmit ==
    ASSUME TypeOK, Places, NEW c \in Threads, NEW t \in Tasks, TryAddTask(c, t) \/ AddTask(c, t)
    PROVE  Places'
<1>1. UNCHANGED <<isClosed, asleep, emptyAsleep, holds>>
  BY DEF TryAddTask, AddTask
<1>2. \A d \in Threads : \/ pc'[d] = pc[d]
                         \/ d \in Workers /\ pc[d] = "run" /\ pc'[d] \in {"notify", "done"}
                         \/ d \in Users /\ pc[d] = "idle" /\ pc'[d] \in {"notify", "idle"}
  BY PoolAssumption DEF TypeOK, TryAddTask, AddTask, Push, AfterThrow, MaySubmit, Threads
<1>3. Busy' = Busy
  BY <1>2, PoolAssumption DEF Busy, Threads
<1>4. tasks' = tasks \/ ~isClosed
  BY DEF TryAddTask, AddTask, Push, HasRoom
<1> QED  BY <1>1, <1>2, <1>3, <1>4, PoolAssumption DEF Places, Threads

LEMMA PlacesNotifyOne ==
    ASSUME TypeOK, Places, NEW c \in Threads, NotifyOne(c)
    PROVE  Places'
<1>1. UNCHANGED <<isClosed, tasks, emptyAsleep, holds>>
  BY DEF NotifyOne
<1>2. pc'[c] = AfterPush(c) /\ pc[c] = "notify"
  BY PoolAssumption DEF NotifyOne, TypeOK, Places, Threads, Sleepers
<1>3. \A d \in Threads \ {c} : \/ pc'[d] = pc[d] /\ (d \in asleep' <=> d \in asleep)
                               \/ d \in Workers /\ d \notin asleep' /\ pc[d] = "asleep" /\ pc'[d] = "check"
  BY PoolAssumption DEF NotifyOne, TypeOK, Places, Threads, Sleepers
<1>4. asleep' \subseteq asleep /\ c \notin asleep
  BY <1>2 DEF NotifyOne, Places
<1>5. Busy' = Busy
  BY <1>2, <1>3, PoolAssumption DEF Busy, Threads, AfterPush
<1>6. asleep' = {w \in Workers : pc'[w] = "asleep"}
  BY <1>2, <1>3, <1>4, PoolAssumption DEF Places, Threads, AfterPush
<1>7. emptyAsleep' = {u \in Users : pc'[u] = "asleep"}
  BY <1>1, <1>2, <1>3, PoolAssumption DEF Places, Threads, AfterPush
<1>8. /\ \A w \in Workers : (pc'[w] = "exited") = (pc[w] = "exited")
      /\ (pc'[Owner] = "gone") = (pc[Owner] = "gone")
  BY <1>2, <1>3, PoolAssumption DEF Threads, AfterPush
<1> QED  BY <1>1, <1>5, <1>6, <1>7, <1>8 DEF Places

LEMMA PlacesUsers ==
    ASSUME TypeOK, Places, NEW u \in Users, WaitForTasks(u) \/ WaitCheck(u)
    PROVE  Places'
<1>1. UNCHANGED <<isClosed, tasks, asleep, holds>>
  BY DEF WaitForTasks, WaitCheck
<1>2. /\ \A w \in Workers : pc'[w] = pc[w]
      /\ \A v \in Users \ {u} : pc'[v] = pc[v]
      /\ pc[u] \in {"idle", "wait"} /\ pc'[u] \in {"wait", "idle", "asleep"}
      /\ emptyAsleep' = IF pc'[u] = "asleep" THEN emptyAsleep \cup {u} ELSE emptyAsleep
  BY PoolAssumption DEF TypeOK, WaitForTasks, WaitCheck, Threads
<1>3. Busy' = Busy
  BY <1>2 DEF Busy
<1> QED  BY <1>1, <1>2, <1>3, PoolAssumption DEF Places

LEMMA PlacesWorkers ==
    ASSUME TypeOK, Places, NEW w \in Workers, Take(w) \/ TaskEnds(w) \/ Done(w)
    PROVE  Places'
<1>1. isClosed' = isClosed /\ (tasks = <<>> => tasks' = <<>>)
  BY DEF Take, TaskEnds, Done, history
<1>2. CASE Take(w)
  <2>1. /\ \A d \in Threads \ {w} : pc'[d] = pc[d]
        /\ pc[w] = "check" /\ pc'[w] \in {"asleep", "exited", "run"}
        /\ asleep' = IF pc'[w] = "asleep" THEN asleep \cup {w} ELSE asleep
        /\ emptyAsleep' = emptyAsleep
        /\ pc'[w] = "exited" => isClosed' /\ tasks' = <<>>
        /\ \A v \in Workers \ {w} : holds'[v] = holds[v]
    BY <1>2 DEF Take, TypeOK, Threads, Leaves
  <2>2. pc'[w] = "run" => holds'[w] \in Tasks
    BY <1>2 DEF Take, TypeOK, Threads, Oldest
  <2>3. \A v \in Busy' : holds'[v] \in Tasks
    BY <2>1, <2>2 DEF Places, Busy, Threads
  <2> QED  BY <1>1, <2>1, <2>3, PoolAssumption DEF Places, Threads
<1>3. CASE TaskEnds(w)
  <2>1. /\ \A d \in Threads \ {w} : pc'[d] = pc[d]
        /\ pc[w] = "run" /\ pc'[w] = "done"
        /\ UNCHANGED <<asleep, emptyAsleep, holds>>
    BY <1>3 DEF TaskEnds, TypeOK, Threads
  <2>2. Busy' = Busy
    BY <2>1 DEF Busy, Threads
  <2> QED  BY <1>1, <2>1, <2>2, PoolAssumption DEF Places, Threads
<1>4. CASE Done(w)
  <2>1. PICK woken \in SUBSET emptyAsleep :
            /\ emptyAsleep' = emptyAsleep \ woken
            /\ pc' = [t \in Threads |-> IF t = w THEN "check"
                                        ELSE IF t \in woken THEN "wait" ELSE pc[t]]
    BY <1>4 DEF Done
  <2>2. pc[w] = "done" /\ asleep' = asleep
    BY <1>4 DEF Done
  <2>3. \A v \in Workers \ {w} : holds'[v] = holds[v] /\ pc'[v] = pc[v]
    BY <1>4, <2>1, PoolAssumption DEF Done, TypeOK, Threads
  <2>4. pc'[w] = "check"
    BY <2>1 DEF Threads
  <2>5. \A u \in Users : pc'[u] = IF u \in woken THEN "wait" ELSE pc[u]
    BY <2>1, PoolAssumption DEF Threads
  <2>6. emptyAsleep' = {u \in Users : pc'[u] = "asleep"}
    BY <2>1, <2>5 DEF Places
  <2>7. asleep' = {v \in Workers : pc'[v] = "asleep"}
    BY <2>2, <2>3, <2>4 DEF Places
  <2>8. \A v \in Busy' : holds'[v] \in Tasks
    BY <2>3, <2>4 DEF Places, Busy
  <2>9. pc'[Owner] = "gone" => pc[Owner] = "gone"
    BY <2>5, PoolAssumption
  <2> QED  BY <1>1, <2>2, <2>3, <2>4, <2>6, <2>7, <2>8, <2>9 DEF Places
<1> QED  BY <1>2, <1>3, <1>4

LEMMA PlacesRest ==
    ASSUME TypeOK, Places,
           Close \/ NotifyAll \/ JoinAll \/ \E t \in Threads : SpuriousWakeup(t)
    PROVE  Places'
<1>1. UNCHANGED <<tasks, holds>> /\ (isClosed => isClosed')
  BY DEF Close, NotifyAll, JoinAll, SpuriousWakeup
<1>2. CASE Close
  <2>1. /\ \A d \in Threads \ {Owner} : pc'[d] = pc[d]
        /\ pc[Owner] = "idle" /\ pc'[Owner] = "closed"
        /\ UNCHANGED <<asleep, emptyAsleep>>
    BY <1>2, PoolAssumption DEF Close, TypeOK, Threads
  <2>2. Busy' = Busy
    BY <2>1, PoolAssumption DEF Busy, Threads
  <2> QED  BY <1>1, <2>1, <2>2, PoolAssumption DEF Places, Threads
<1>3. CASE NotifyAll
  <2>1. /\ pc[Owner] = "closed" /\ pc'[Owner] = "join"
        /\ \A u \in Users \ {Owner} : pc'[u] = pc[u]
        /\ \A w \in Workers : pc'[w] = IF w \in asleep THEN "check" ELSE pc[w]
        /\ asleep' = {} /\ emptyAsleep' = emptyAsleep
    BY <1>3, PoolAssumption DEF NotifyAll, TypeOK, Places, Sleepers, Threads
  <2>2. Busy' = Busy
    BY <2>1 DEF Busy, Places
  <2> QED  BY <1>1, <2>1, <2>2, PoolAssumption DEF Places
<1>4. CASE JoinAll
  <2>1. /\ \A d \in Threads \ {Owner} : pc'[d] = pc[d]
        /\ pc[Owner] = "join" /\ pc'[Owner] = "gone"
        /\ \A w \in Workers : pc[w] = "exited"
        /\ UNCHANGED <<asleep, emptyAsleep>>
    BY <1>4, PoolAssumption DEF JoinAll, TypeOK, Threads
  <2>2. Busy' = Busy
    BY <2>1, PoolAssumption DEF Busy, Threads
  <2> QED  BY <1>1, <2>1, <2>2, PoolAssumption DEF Places, Threads
<1>5. CASE \E t \in Threads : SpuriousWakeup(t)
  <2>1. PICK t \in Threads : SpuriousWakeup(t)
    BY <1>5
  <2>2. /\ \A d \in Threads \ {t} : pc'[d] = pc[d]
        /\ pc[t] = "asleep" /\ pc'[t] \in {"check", "wait"}
        /\ asleep' = asleep \ {t} /\ emptyAsleep' = emptyAsleep \ {t}
    BY <2>1, PoolAssumption DEF SpuriousWakeup, TypeOK, Places, Threads
  <2>3. Busy' = Busy
    BY <2>2 DEF Busy, Threads
  <2> QED  BY <1>1, <2>2, <2>3, PoolAssumption DEF Places, Threads
<1> QED  BY <1>2, <1>3, <1>4, <1>5

-----------------------------------------------------------------------------
(* The three kinds of step, as the tasks see them.                         *)

\* Nothing starts or ends; at most a task that was never accepted is queued.
Quiet ==
    /\ UNCHANGED <<activeTasks, holds, started, finished>>
    /\ Busy' = Busy
    /\ \/ UNCHANGED <<tasks, accepted>>
       \/ \E t \in Tasks : /\ t \notin Elems(accepted)
                          /\ tasks' = Append(tasks, t)
                          /\ accepted' = Append(accepted, t)

\* Worker w takes the oldest task.
Starts(w) ==
    /\ w \notin Busy /\ Busy' = Busy \cup {w}
    /\ tasks # <<>>
    /\ tasks' = Tail(tasks)
    /\ started' = Append(started, Head(tasks))
    /\ activeTasks' = activeTasks + 1
    /\ holds' = [holds EXCEPT ![w] = Head(tasks)]
    /\ UNCHANGED <<accepted, finished>>

\* Worker w is done with its task.
Ends(w) ==
    /\ w \in Busy /\ Busy' = Busy \ {w}
    /\ activeTasks' = activeTasks - 1
    /\ finished' = finished \cup {holds[w]}
    /\ holds' = [holds EXCEPT ![w] = NoTask]
    /\ UNCHANGED <<tasks, accepted, started>>

LEMMA ThreeKinds ==
    ASSUME TypeOK, Places, [Next]_vars
    PROVE  Quiet \/ \E w \in Workers : Starts(w) \/ Ends(w)
<1>1. ASSUME NEW c \in Threads, NEW t \in Tasks, TryAddTask(c, t) \/ AddTask(c, t)
      PROVE  Quiet
  <2>1. Busy' = Busy
    BY <1>1, PoolAssumption
    DEF TypeOK, TryAddTask, AddTask, Push, AfterThrow, MaySubmit, Busy, Threads
  <2>2. UNCHANGED <<activeTasks, holds, started, finished>>
    BY <1>1 DEF TryAddTask, AddTask
  <2>3. \/ UNCHANGED <<tasks, accepted>>
        \/ /\ t \notin Elems(accepted)
           /\ tasks' = Append(tasks, t)
           /\ accepted' = Append(accepted, t)
    BY <1>1 DEF TryAddTask, AddTask, Push, Offered
  <2> QED  BY <2>1, <2>2, <2>3 DEF Quiet
<1>2. ASSUME NEW c \in Threads, NotifyOne(c)
      PROVE  Quiet
  <2>1. Busy' = Busy
    BY <1>2, PoolAssumption DEF TypeOK, Places, NotifyOne, AfterPush, Sleepers, Busy, Threads
  <2> QED  BY <1>2, <2>1 DEF Quiet, NotifyOne, history
<1>3. ASSUME NEW u \in Users, WaitForTasks(u) \/ WaitCheck(u)
      PROVE  Quiet
  <2>1. Busy' = Busy
    BY <1>3, PoolAssumption DEF TypeOK, WaitForTasks, WaitCheck, Busy, Threads
  <2> QED  BY <1>3, <2>1 DEF Quiet, WaitForTasks, WaitCheck, history
<1>4. ASSUME NEW w \in Workers, Take(w)
      PROVE  Quiet \/ Starts(w)
  <2>1. pc[w] = "check" /\ w \notin Busy
    BY <1>4 DEF Take, Busy
  <2>2. /\ \A v \in Workers \ {w} : pc'[v] = pc[v]
        /\ UNCHANGED <<accepted, finished>>
        /\ \/ pc'[w] = "run" /\ tasks # <<>> /\ tasks' = Tail(tasks)
              /\ started' = Append(started, Head(tasks))
              /\ activeTasks' = activeTasks + 1
              /\ holds' = [holds EXCEPT ![w] = Head(tasks)]
           \/ pc'[w] \in {"asleep", "exited"}
              /\ UNCHANGED <<tasks, activeTasks, holds, started>>
    BY <1>4 DEF Take, TypeOK, Threads, Oldest
  <2> QED  BY <2>1, <2>2 DEF Quiet, Starts, Busy
<1>5. ASSUME NEW w \in Workers, TaskEnds(w)
      PROVE  Quiet
  <2>1. Busy' = Busy
    BY <1>5 DEF TaskEnds, TypeOK, Busy, Threads
  <2> QED  BY <1>5, <2>1 DEF Quiet, TaskEnds, history
<1>6. ASSUME NEW w \in Workers, Done(w)
      PROVE  Ends(w)
  <2>1. pc[w] = "done" /\ pc'[w] = "check"
    BY <1>6 DEF Done, Threads
  <2>2. \A v \in Workers \ {w} : pc'[v] = pc[v]
    BY <1>6, PoolAssumption DEF Done, Places, TypeOK, Threads
  <2>3. w \in Busy /\ Busy' = Busy \ {w}
    BY <2>1, <2>2 DEF Busy
  <2> QED  BY <1>6, <2>3 DEF Ends, Done, Remaining
<1>7. ASSUME NEW t \in Threads, SpuriousWakeup(t)
      PROVE  Quiet
  <2>1. Busy' = Busy
    BY <1>7, PoolAssumption DEF SpuriousWakeup, TypeOK, Places, Busy, Threads
  <2> QED  BY <1>7, <2>1 DEF Quiet, SpuriousWakeup, history
<1>8. ASSUME Close \/ JoinAll
      PROVE  Quiet
  <2>1. Busy' = Busy
    BY <1>8, PoolAssumption DEF Close, JoinAll, TypeOK, Busy, Threads
  <2> QED  BY <1>8, <2>1 DEF Quiet, Close, JoinAll, history
<1>9. ASSUME NotifyAll
      PROVE  Quiet
  <2>1. Busy' = Busy
    BY <1>9, PoolAssumption DEF NotifyAll, Sleepers, TypeOK, Places, Busy, Threads
  <2> QED  BY <1>9, <2>1 DEF Quiet, NotifyAll, history
<1>10. CASE UNCHANGED vars
  BY <1>10 DEF vars, history, Quiet, Busy
<1> QED  BY <1>1, <1>2, <1>3, <1>4, <1>5, <1>6, <1>7, <1>8, <1>9, <1>10 DEF Next, Submit

-----------------------------------------------------------------------------
(* Sequences.                                                              *)

LEMMA ElemsAppend ==
    ASSUME NEW s \in Seq(Tasks), NEW t \in Tasks
    PROVE  Elems(Append(s, t)) = Elems(s) \cup {t}
<1>1. /\ DOMAIN s = 1..Len(s) /\ Len(s) \in Nat
      /\ DOMAIN Append(s, t) = 1..(Len(s) + 1)
      /\ \A i \in 1..Len(s) : Append(s, t)[i] = s[i]
      /\ Append(s, t)[Len(s) + 1] = t
  OBVIOUS
<1>2. 1..(Len(s) + 1) = 1..Len(s) \cup {Len(s) + 1}
  BY <1>1
<1> QED  BY <1>1, <1>2 DEF Elems

-----------------------------------------------------------------------------
(* The histories and the tasks in hand.                                    *)

LEMMA OfferedOnceInit == Init => OfferedOnce
BY DEF Init, OfferedOnce, Elems

LEMMA OfferedOnceStep ==
    ASSUME TypeOK, Places, OfferedOnce, [Next]_vars
    PROVE  OfferedOnce'
<1>1. Elems(accepted) \subseteq Elems(accepted')
  <2>1. accepted' = accepted \/ \E t \in Tasks : accepted' = Append(accepted, t)
    BY ThreeKinds DEF Quiet, Starts, Ends
  <2> QED  BY <2>1, ElemsAppend DEF TypeOK
<1>2. \/ accepted' = accepted
      \/ \E t \in Tasks : t \notin Elems(accepted) /\ accepted' = Append(accepted, t)
  BY ThreeKinds DEF Quiet, Starts, Ends
<1>3. \A i, j \in 1..Len(accepted') : accepted'[i] = accepted'[j] => i = j
  <2>1. CASE accepted' = accepted
    BY <2>1 DEF OfferedOnce
  <2>2. ASSUME NEW t \in Tasks, t \notin Elems(accepted), accepted' = Append(accepted, t)
        PROVE  \A i, j \in 1..Len(accepted') : accepted'[i] = accepted'[j] => i = j
    <3>1. /\ Len(accepted) \in Nat /\ Len(accepted') = Len(accepted) + 1
          /\ \A i \in 1..Len(accepted) : accepted'[i] = accepted[i]
          /\ accepted'[Len(accepted) + 1] = t
          /\ DOMAIN accepted = 1..Len(accepted)
      BY <2>2 DEF TypeOK
    <3>2. \A i \in 1..Len(accepted) : accepted[i] # t
      BY <2>2, <3>1 DEF Elems
    <3> QED  BY <3>1, <3>2 DEF OfferedOnce
  <2> QED  BY <1>2, <2>1, <2>2
<1>4. \A u \in Users : owed'[u] \subseteq Elems(accepted')
  <2>1. owed' = owed \/ \E u \in Users : owed' = [owed EXCEPT ![u] = Elems(accepted)]
    BY DEF Next, vars, history, Submit, TryAddTask, AddTask, NotifyOne, WaitForTasks,
           WaitCheck, Take, TaskEnds, Done, SpuriousWakeup, Close, NotifyAll, JoinAll
  <2> QED  BY <1>1, <2>1 DEF OfferedOnce, TypeOK
<1> QED  BY <1>3, <1>4 DEF OfferedOnce, Elems

LEMMA FifoInit == Init => FifoOnce
BY DEF Init, FifoOnce

LEMMA FifoStep ==
    ASSUME TypeOK, Places, FifoOnce, [Next]_vars
    PROVE  FifoOnce'
<1>1. CASE Quiet
  <2>1. CASE UNCHANGED <<tasks, accepted>>
    BY <1>1, <2>1 DEF Quiet, FifoOnce
  <2>2. ASSUME NEW t \in Tasks, tasks' = Append(tasks, t), accepted' = Append(accepted, t)
        PROVE  FifoOnce'
    <3>1. started \in Seq(Tasks) /\ tasks \in Seq(Tasks)
      BY DEF TypeOK
    <3>2. <<t>> \in Seq(Tasks) /\ started \o tasks \in Seq(Tasks)
      BY <3>1, ConcatProperties
    <3>3. /\ Append(started \o tasks, t) = (started \o tasks) \o <<t>>
          /\ Append(tasks, t) = tasks \o <<t>>
      BY <3>1, <3>2, AppendIsConcat
    <3>4. Append(started \o tasks, t) = started \o Append(tasks, t)
      BY <3>1, <3>2, <3>3, ConcatAssociative
    <3> QED  BY <1>1, <2>2, <3>4 DEF Quiet, FifoOnce
  <2> QED  BY <1>1, <2>1, <2>2 DEF Quiet
<1>2. CASE \E w \in Workers : Starts(w)
  <2>1. Append(started, Head(tasks)) \o Tail(tasks) = started \o tasks
    BY <1>2, HeadMoves DEF Starts, TypeOK
  <2> QED  BY <1>2, <2>1 DEF Starts, FifoOnce
<1>3. CASE \E w \in Workers : Ends(w)
  BY <1>3 DEF Ends, FifoOnce
<1> QED  BY <1>1, <1>2, <1>3, ThreeKinds

LEMMA BusyFinite == IsFiniteSet(Busy) /\ Cardinality(Busy) \in Nat
<1>1. Busy \subseteq Workers
  BY DEF Busy
<1>2. IsFiniteSet(Busy)
  BY <1>1, PoolAssumption, FS_Subset
<1> QED  BY <1>2, FS_CardinalityType

LEMMA ActiveInit == Init => ActiveCount
<1> SUFFICES ASSUME Init PROVE ActiveCount
  OBVIOUS
<1>1. Busy = {}
  BY DEF Init, Busy, Threads
<1> QED  BY <1>1, FS_EmptySet DEF Init, ActiveCount

LEMMA ActiveStep ==
    ASSUME TypeOK, Places, ActiveCount, [Next]_vars
    PROVE  ActiveCount'
<1>1. CASE Quiet
  BY <1>1 DEF Quiet, ActiveCount
<1>2. ASSUME NEW w \in Workers, Starts(w)
      PROVE  ActiveCount'
  <2>1. Cardinality(Busy \cup {w}) = Cardinality(Busy) + 1
    BY <1>2, BusyFinite, FS_AddElement DEF Starts
  <2> QED  BY <1>2, <2>1 DEF Starts, ActiveCount
<1>3. ASSUME NEW w \in Workers, Ends(w)
      PROVE  ActiveCount'
  <2>1. Cardinality(Busy \ {w}) = Cardinality(Busy) - 1
    BY <1>3, BusyFinite, FS_RemoveElement DEF Ends
  <2> QED  BY <1>3, <2>1 DEF Ends, ActiveCount
<1> QED  BY <1>1, <1>2, <1>3, ThreeKinds

LEMMA HeldInit == Init => StartedIsHeldOrOver
<1> SUFFICES ASSUME Init PROVE StartedIsHeldOrOver
  OBVIOUS
<1>1. Busy = {} /\ Elems(started) = {} /\ finished = {}
  BY DEF Init, Busy, Threads, Elems
<1> QED  BY <1>1 DEF StartedIsHeldOrOver

\* The oldest queued task was not started before.
LEMMA OldestIsNew ==
    ASSUME TypeOK, FifoOnce, OfferedOnce, tasks # <<>>
    PROVE  Head(tasks) \notin Elems(started)
<1>1. /\ Len(started) \in Nat /\ Len(tasks) \in Nat \ {0}
      /\ DOMAIN started = 1..Len(started)
      /\ Head(tasks) = tasks[1]
  BY DEF TypeOK
<1>2. /\ Len(accepted) = Len(started) + Len(tasks)
      /\ \A i \in 1..(Len(started) + Len(tasks)) :
            accepted[i] = IF i <= Len(started) THEN started[i] ELSE tasks[i - Len(started)]
  BY ConcatProperties DEF TypeOK, FifoOnce
<1>3. accepted[Len(started) + 1] = Head(tasks)
  <2>1. Len(started) + 1 \in 1..(Len(started) + Len(tasks)) /\ ~(Len(started) + 1 <= Len(started))
        /\ (Len(started) + 1) - Len(started) = 1
    BY <1>1
  <2> QED  BY <1>1, <1>2, <2>1
<1>4. ASSUME NEW i \in 1..Len(started), started[i] = Head(tasks)
      PROVE  FALSE
  <2>1. /\ i \in 1..Len(accepted) /\ Len(started) + 1 \in 1..Len(accepted)
        /\ accepted[i] = started[i] /\ i # Len(started) + 1
    BY <1>1, <1>2
  <2> QED  BY <1>3, <1>4, <2>1 DEF OfferedOnce
<1> QED  BY <1>1, <1>4 DEF Elems

LEMMA HeldStep ==
    ASSUME TypeOK, Places, OfferedOnce, FifoOnce, StartedIsHeldOrOver, [Next]_vars
    PROVE  StartedIsHeldOrOver'
<1>1. CASE Quiet
  BY <1>1 DEF Quiet, StartedIsHeldOrOver, Elems
<1>2. ASSUME NEW w \in Workers, Starts(w)
      PROVE  StartedIsHeldOrOver'
  <2> DEFINE new == Head(tasks)
  <2>1. new \in Tasks /\ new \notin Elems(started)
    BY <1>2, OldestIsNew, HeadTailProperties DEF Starts, TypeOK
  <2>2. Elems(started') = Elems(started) \cup {new}
    BY <1>2, <2>1, ElemsAppend DEF Starts, TypeOK
  <2>3. /\ Busy' = Busy \cup {w} /\ w \notin Busy /\ finished' = finished
        /\ \A v \in Busy : holds'[v] = holds[v]
        /\ holds'[w] = new
        /\ Busy \subseteq Workers
    BY <1>2 DEF Starts, TypeOK, Busy
  <2>4. new \notin finished /\ \A v \in Busy : holds[v] # new
    BY <2>1 DEF StartedIsHeldOrOver
  <2> HIDE DEF new
  <2>5. {holds'[v] : v \in Busy'} = {holds[v] : v \in Busy} \cup {new}
    BY <2>3
  <2>6. Elems(started') = finished' \cup {holds'[v] : v \in Busy'}
    BY <2>2, <2>3, <2>5 DEF StartedIsHeldOrOver
  <2>7. /\ \A v \in Busy' : holds'[v] \notin finished'
        /\ \A u, v \in Busy' : u # v => holds'[u] # holds'[v]
    BY <2>3, <2>4 DEF StartedIsHeldOrOver
  <2> QED  BY <2>6, <2>7 DEF StartedIsHeldOrOver, Elems
<1>3. ASSUME NEW w \in Workers, Ends(w)
      PROVE  StartedIsHeldOrOver'
  <2>1. /\ Busy' = Busy \ {w} /\ w \in Busy /\ finished' = finished \cup {holds[w]}
        /\ \A v \in Busy' : holds'[v] = holds[v]
        /\ started' = started
    BY <1>3 DEF Ends, TypeOK, Busy
  <2>2. {holds[v] : v \in Busy} = {holds'[v] : v \in Busy'} \cup {holds[w]}
    BY <2>1
  <2>3. /\ \A v \in Busy' : holds'[v] \notin finished'
        /\ \A u, v \in Busy' : u # v => holds'[u] # holds'[v]
    BY <2>1 DEF StartedIsHeldOrOver
  <2>4. Elems(started') = finished' \cup {holds'[v] : v \in Busy'}
    BY <2>1, <2>2 DEF StartedIsHeldOrOver
  <2> QED  BY <2>3, <2>4 DEF StartedIsHeldOrOver, Elems
<1> QED  BY <1>1, <1>2, <1>3, ThreeKinds

-----------------------------------------------------------------------------
(* The condition variables.                                                *)

LEMMA WaiterInit == Init => WaiterSleepsOnlyOnWork
BY DEF Init, WaiterSleepsOnlyOnWork

\* Nobody who leaves the queue and the counter alone puts a waiter to sleep
\* but the waiter itself, which has just seen work.
LEMMA WaiterStep ==
    ASSUME TypeOK, Places, ActiveCount, WaiterSleepsOnlyOnWork, [Next]_vars
    PROVE  WaiterSleepsOnlyOnWork'
<1>0. activeTasks \in Nat
  BY BusyFinite DEF ActiveCount
<1>1. ASSUME NEW c \in Threads, NEW t \in Tasks, TryAddTask(c, t) \/ AddTask(c, t)
      PROVE  WaiterSleepsOnlyOnWork'
  <2>1. emptyAsleep' = emptyAsleep /\ activeTasks' = activeTasks
    BY <1>1 DEF TryAddTask, AddTask
  <2>2. tasks' = tasks \/ tasks' # <<>>
    BY <1>1 DEF TryAddTask, AddTask, Push, TypeOK
  <2> QED  BY <2>1, <2>2 DEF WaiterSleepsOnlyOnWork, Idle
<1>2. ASSUME NEW u \in Users, WaitForTasks(u) \/ WaitCheck(u)
      PROVE  WaiterSleepsOnlyOnWork'
  BY <1>2 DEF WaitForTasks, WaitCheck, WaiterSleepsOnlyOnWork, Idle, history
<1>3. ASSUME NEW w \in Workers, Take(w)
      PROVE  WaiterSleepsOnlyOnWork'
  <2>1. /\ emptyAsleep' = emptyAsleep
        /\ UNCHANGED <<tasks, activeTasks>> \/ activeTasks' = activeTasks + 1
    BY <1>3 DEF Take
  <2> QED  BY <1>0, <2>1 DEF WaiterSleepsOnlyOnWork, Idle
<1>4. ASSUME NEW w \in Workers, Done(w)
      PROVE  WaiterSleepsOnlyOnWork'
  BY <1>4 DEF Done, LastOne, Remaining, WaiterSleepsOnlyOnWork, Idle
<1>5. ASSUME \/ \E c \in Threads : NotifyOne(c) \/ SpuriousWakeup(c)
             \/ \E w \in Workers : TaskEnds(w)
             \/ Close \/ NotifyAll \/ JoinAll
             \/ UNCHANGED vars
      PROVE  WaiterSleepsOnlyOnWork'
  <2>1. UNCHANGED <<tasks, activeTasks>> /\ emptyAsleep' \subseteq emptyAsleep
    BY <1>5 DEF NotifyOne, SpuriousWakeup, TaskEnds, Close, NotifyAll, JoinAll, vars, history
  <2> QED  BY <2>1 DEF WaiterSleepsOnlyOnWork, Idle
<1> QED  BY <1>1, <1>2, <1>3, <1>4, <1>5 DEF Next, Submit

LEMMA AnnouncedInit == Init => QueuedIsAnnounced
BY DEF Init, QueuedIsAnnounced

LEMMA AnnouncedStep ==
    ASSUME TypeOK, Places, QueuedIsAnnounced, [Next]_vars
    PROVE  QueuedIsAnnounced'
<1> SUFFICES ASSUME tasks' # <<>>, asleep' = Workers
             PROVE  \E u \in Users : pc'[u] = "notify"
  BY DEF QueuedIsAnnounced
<1>1. ASSUME NEW c \in Threads, NEW t \in Tasks, TryAddTask(c, t) \/ AddTask(c, t)
      PROVE  \E u \in Users : pc'[u] = "notify"
  <2>1. asleep = Workers
    BY <1>1 DEF TryAddTask, AddTask
  <2>2. c \in Users /\ pc[c] = "idle"
    BY <1>1, <2>1 DEF TryAddTask, AddTask, MaySubmit, Places
  <2>3. CASE Push(c, t)
    BY <2>2, <2>3 DEF Push, TypeOK
  <2>4. CASE UNCHANGED tasks /\ \A d \in Users \ {c} : pc'[d] = pc[d]
    BY <2>1, <2>2, <2>4 DEF QueuedIsAnnounced
  <2>5. Push(c, t) \/ (UNCHANGED tasks /\ \A d \in Users \ {c} : pc'[d] = pc[d])
    BY <1>1 DEF TryAddTask, AddTask, TypeOK, Threads
  <2> QED  BY <2>3, <2>4, <2>5
<1>2. ASSUME NEW c \in Threads, NotifyOne(c)
      PROVE  \E u \in Users : pc'[u] = "notify"
  <2>1. CASE Sleepers = {}
    BY <1>2, <2>1, PoolAssumption DEF NotifyOne, Sleepers
  <2>2. CASE Sleepers # {}
    <3>1. \E w \in asleep : asleep' = asleep \ {w}
      BY <1>2, <2>2 DEF NotifyOne, Sleepers
    <3> QED  BY <3>1 DEF TypeOK
  <2> QED  BY <2>1, <2>2
<1>3. ASSUME NEW u \in Users, WaitForTasks(u) \/ WaitCheck(u)
      PROVE  \E v \in Users : pc'[v] = "notify"
  <2>1. /\ UNCHANGED <<tasks, asleep>> /\ pc[u] # "notify"
        /\ \A v \in Users \ {u} : pc'[v] = pc[v]
    BY <1>3 DEF WaitForTasks, WaitCheck, TypeOK, Threads
  <2> QED  BY <2>1 DEF QueuedIsAnnounced
<1>4. ASSUME NEW w \in Workers, Take(w)
      PROVE  \E u \in Users : pc'[u] = "notify"
  <2>1. pc[w] = "check" /\ w \notin asleep
    BY <1>4 DEF Take, Places
  <2>2. w \in asleep' => tasks = <<>> /\ tasks' = tasks
    BY <1>4, <2>1 DEF Take
  <2> QED  BY <2>2
<1>5. ASSUME NEW w \in Workers, TaskEnds(w) \/ Done(w)
      PROVE  \E u \in Users : pc'[u] = "notify"
  <2>1. w \notin asleep /\ asleep' = asleep
    BY <1>5 DEF TaskEnds, Done, Places
  <2> QED  BY <2>1
<1>6. ASSUME NEW t \in Threads, SpuriousWakeup(t)
      PROVE  \E u \in Users : pc'[u] = "notify"
  <2>1. tasks' = tasks /\ pc[t] = "asleep"
    BY <1>6 DEF SpuriousWakeup, Places
  <2>2. asleep' = asleep
    BY <1>6 DEF SpuriousWakeup, TypeOK
  <2>3. \A u \in Users \ {t} : pc'[u] = pc[u]
    BY <1>6 DEF SpuriousWakeup, TypeOK, Threads
  <2> QED  BY <2>1, <2>2, <2>3 DEF QueuedIsAnnounced
<1>7. CASE Close
  <2>1. UNCHANGED <<tasks, asleep>> /\ \A u \in Users : pc[u] = "idle"
    BY <1>7 DEF Close
  <2> QED  BY <2>1 DEF QueuedIsAnnounced
<1>8. CASE NotifyAll
  <2>1. asleep' = {}
    BY <1>8 DEF NotifyAll, Sleepers
  <2> QED  BY <2>1, PoolAssumption
<1>9. CASE JoinAll
  <2>1. asleep' = asleep /\ \A w \in Workers : pc[w] = "exited"
    BY <1>9 DEF JoinAll
  <2>2. asleep = {}
    BY <2>1 DEF Places
  <2> QED  BY <2>1, <2>2, PoolAssumption
<1>10. CASE UNCHANGED vars
  BY <1>10 DEF vars, history, QueuedIsAnnounced
<1> QED  BY <1>1, <1>2, <1>3, <1>4, <1>5, <1>6, <1>7, <1>8, <1>9, <1>10 DEF Next, Submit

-----------------------------------------------------------------------------
(* The theorems.                                                           *)

PoolInv ==
    /\ TypeOK
    /\ Places
    /\ OfferedOnce
    /\ FifoOnce
    /\ ActiveCount
    /\ StartedIsHeldOrOver
    /\ WaiterSleepsOnlyOnWork
    /\ QueuedIsAnnounced

LEMMA TypeStep ==
    ASSUME TypeOK, Places, [Next]_vars
    PROVE  TypeOK'
<1>1. CASE UNCHANGED vars
  BY <1>1 DEF vars, history, TypeOK
<1> QED  BY <1>1, TypeSubmit, TypeNotifyOne, TypeUsers, TypeWorkers, TypeRest DEF Next, Submit

LEMMA PlacesStep ==
    ASSUME TypeOK, Places, [Next]_vars
    PROVE  Places'
<1>1. CASE UNCHANGED vars
  BY <1>1 DEF vars, history, Places, Busy
<1> QED  BY <1>1, PlacesSubmit, PlacesNotifyOne, PlacesUsers, PlacesWorkers, PlacesRest
         DEF Next, Submit

\* The inductive invariant of the pool: every queued, running and finished task
\* is accounted for, and every sleeper has somebody to wake it.
THEOREM PoolInvariant == Safety => []PoolInv
<1>1. Init => PoolInv
  BY TypeInit, PlacesInit, OfferedOnceInit, FifoInit, ActiveInit, HeldInit, WaiterInit,
     AnnouncedInit DEF PoolInv
<1>2. PoolInv /\ [Next]_vars => PoolInv'
  BY TypeStep, PlacesStep, OfferedOnceStep, FifoStep, ActiveStep, HeldStep, WaiterStep,
     AnnouncedStep DEF PoolInv
<1> QED  BY <1>1, <1>2, PTL DEF Safety

\* The types of the pool's state, for any number of threads and tasks.
THEOREM PoolTypes == Safety => []TypeOK
BY PoolInvariant, PTL DEF PoolInv

\* Tasks start in the order of their acceptance, each one once (tasks.emplace,
\* tasks.front and pop).
THEOREM TasksStartInOrder == Safety => []FifoOnce
BY PoolInvariant, PTL DEF PoolInv

\* activeTasks, an integer that workers count up and down in two critical
\* sections, is the number of the workers in between.
THEOREM CounterIsExact == Safety => []ActiveCount
BY PoolInvariant, PTL DEF PoolInv

\* A started task is over or in the hands of one worker: none is lost or shared.
THEOREM NoTaskLost == Safety => []StartedIsHeldOrOver
BY PoolInvariant, PTL DEF PoolInv

\* The notification after the unlock of AddTask and TryAddTask is not lost.
THEOREM NoLostWakeup == Safety => []QueuedIsAnnounced
BY PoolInvariant, PTL DEF PoolInv

\* The notify_all of the last active worker is not lost.
THEOREM NoLostWaiter == Safety => []WaiterSleepsOnlyOnWork
BY PoolInvariant, PTL DEF PoolInv

\* When the queue is empty and nobody is at work, all that was accepted is over.
LEMMA IdleMeansOver ==
    ASSUME PoolInv, tasks = <<>>, Busy = {}
    PROVE  Elems(accepted) = finished
<1>1. accepted = started
  BY ConcatEmptySeq DEF PoolInv, TypeOK, FifoOnce
<1> QED  BY <1>1 DEF PoolInv, StartedIsHeldOrOver

\* ~ThreadPool drains: when the joins are over, every accepted task has run.
THEOREM DestructorRunsAll == Safety => []DestructorDrains
<1>1. PoolInv => DestructorDrains
  <2> SUFFICES ASSUME PoolInv, pc[Owner] = "gone"
               PROVE  Elems(accepted) = finished
    BY DEF DestructorDrains
  <2>1. \A w \in Workers : pc[w] = "exited"
    BY DEF PoolInv, Places
  <2>2. tasks = <<>> /\ Busy = {}
    BY <2>1, PoolAssumption DEF PoolInv, Places, Busy
  <2> QED  BY <2>2, IdleMeansOver
<1> QED  BY <1>1, PoolInvariant, PTL

\* WaitForTasks returns only when what was accepted before the call is over.
THEOREM WaitIsSound == Safety => WaitCoversEarlierTasks
<1>1. PoolInv /\ [Next]_vars => [EarlierTasksAreOver]_vars
  <2> SUFFICES ASSUME PoolInv, Next, NEW u \in Users, pc[u] = "wait", pc'[u] = "idle"
               PROVE  owed[u] \subseteq finished
    BY DEF EarlierTasksAreOver
  <2>1. WaitCheck(u) /\ Idle
    <3>1. ASSUME NEW c \in Threads, NEW t \in Tasks, TryAddTask(c, t) \/ AddTask(c, t)
          PROVE  FALSE
      BY <3>1, PoolAssumption
      DEF TryAddTask, AddTask, Push, MaySubmit, PoolInv, TypeOK, Threads
    <3>2. ASSUME NEW c \in Threads, NotifyOne(c) \/ SpuriousWakeup(c)
          PROVE  FALSE
      BY <3>2, PoolAssumption
      DEF NotifyOne, SpuriousWakeup, Sleepers, PoolInv, TypeOK, Places, Threads
    <3>3. ASSUME NEW v \in Users, WaitForTasks(v)
          PROVE  FALSE
      BY <3>3 DEF WaitForTasks, PoolInv, TypeOK, Threads
    <3>4. ASSUME NEW v \in Users, WaitCheck(v)
          PROVE  v = u /\ Idle
      BY <3>4 DEF WaitCheck, PoolInv, TypeOK, Threads
    <3>5. ASSUME NEW w \in Workers, Take(w) \/ TaskEnds(w)
          PROVE  FALSE
      BY <3>5, PoolAssumption DEF Take, TaskEnds, PoolInv, TypeOK, Threads
    <3>6. ASSUME NEW w \in Workers, Done(w)
          PROVE  FALSE
      <4>1. pc'[u] \in {"wait", pc[u]}
        BY <3>6, PoolAssumption DEF Done, Threads
      <4> QED  BY <4>1
    <3>7. CASE Close \/ NotifyAll \/ JoinAll
      BY <3>7, PoolAssumption
      DEF Close, NotifyAll, JoinAll, Sleepers, PoolInv, TypeOK, Places, Threads
    <3> QED  BY <3>1, <3>2, <3>3, <3>4, <3>5, <3>6, <3>7 DEF Next, Submit
  <2>2. Busy = {}
    BY <2>1, BusyFinite, FS_EmptySet DEF Idle, PoolInv, ActiveCount
  <2>3. Elems(accepted) = finished
    BY <2>1, <2>2, IdleMeansOver DEF Idle
  <2> QED  BY <2>3 DEF PoolInv, OfferedOnce
<1> QED  BY <1>1, PoolInvariant, PTL DEF Safety, WaitCoversEarlierTasks

\* The counter and the hands of the workers agree.
THEOREM TasksAreAccountedFor == Safety => []TasksAccountedFor
BY CounterIsExact, NoTaskLost, PTL DEF TasksAccountedFor

\* No sleeper of either condition variable is forgotten.
THEOREM NobodySleepsForEver == Safety => []SleepersAreWoken
BY NoLostWakeup, NoLostWaiter, PTL DEF SleepersAreWoken

\* What the two waiting calls promise when they return.
THEOREM ReturnsAreJustified == Safety => ReturnsAreSound
BY WaitIsSound, DestructorRunsAll, PTL DEF ReturnsAreSound, WaitCoversEarlierTasks

=============================================================================
