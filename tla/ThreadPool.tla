----------------------------- MODULE ThreadPool -----------------------------
(***************************************************************************)
(* rpc::ThreadPool (src/code/base/pool/threadpool.h): worker threads, a    *)
(* bounded FIFO of tasks, one mutex and two condition variables.           *)
(*                                                                         *)
(* A critical section of the code blocks nowhere but in a condition wait,  *)
(* so each is one action; what a thread does between two critical          *)
(* sections (run a task, notify after the unlock) is an action of its own. *)
(* A condition variable is the set of the threads asleep on it.            *)
(***************************************************************************)
EXTENDS Integers, Sequences, FiniteSets

CONSTANTS
    Workers,      \* the worker threads the constructor starts
    Users,        \* the other threads that call the pool
    Owner,        \* the user that destroys it
    Tasks,        \* the tasks offered to the pool, each offered once
    MaxQueueSize, \* maxQueueSize_
    NoTask        \* what a worker that runs nothing holds

ASSUME PoolAssumption ==
    /\ IsFiniteSet(Workers) /\ Workers # {}
    /\ Workers \cap Users = {}
    /\ Owner \in Users
    /\ MaxQueueSize \in Nat
    /\ NoTask \notin Tasks

VARIABLES
    isClosed,     \* Pool::isClosed
    tasks,        \* Pool::tasks
    activeTasks,  \* Pool::activeTasks
    asleep,       \* the workers blocked in cond.wait
    emptyAsleep,  \* the users blocked in condEmpty.wait
    pc,           \* where each thread is
    holds,        \* the task a worker took and has not finished
    \* History, read by properties only:
    accepted,     \* the tasks pushed, in the order of the pushes
    started,      \* the tasks popped, in the order of the pops
    finished,     \* the tasks whose run is over
    refused,      \* the tasks turned away
    owed          \* the tasks accepted before a user's call of WaitForTasks

history == <<accepted, started, finished, refused, owed>>
vars == <<isClosed, tasks, activeTasks, asleep, emptyAsleep, pc, holds, history>>

Threads == Workers \cup Users

WorkerPC == {"check", "asleep", "run", "notify", "done", "exited"}
UserPC   == {"idle", "notify", "wait", "asleep", "closed", "join", "gone"}

Elems(s) == {s[i] : i \in DOMAIN s}

(* A definition just above another with its parameters is a wrong variant  *)
(* of it, a slip the code could have; nothing here uses it.                *)

\* Pool(): nothing is queued, every worker is about to lock the mutex.
Init ==
    /\ isClosed = FALSE
    /\ tasks = <<>>
    /\ activeTasks = 0
    /\ asleep = {}
    /\ emptyAsleep = {}
    /\ pc = [t \in Threads |-> IF t \in Workers THEN "check" ELSE "idle"]
    /\ holds = [w \in Workers |-> NoTask]
    /\ accepted = <<>>
    /\ started = <<>>
    /\ finished = {}
    /\ refused = {}
    /\ owed = [u \in Users |-> {}]

-----------------------------------------------------------------------------
(* Callers.  A user that is in no call, or a worker inside a task, may     *)
(* submit; the destructor ends the users' calls.                           *)

MaySubmit(c) ==
    \/ c \in Users /\ pc[c] = "idle" /\ pc[Owner] \notin {"closed", "join", "gone"}
    \/ c \in Workers /\ pc[c] = "run"

HasRoom == ~isClosed /\ Len(tasks) < MaxQueueSize

\* The push of AddTask and TryAddTask, under the mutex; the notification
\* follows the unlock.
Push(c, t) ==
    /\ HasRoom
    /\ tasks' = Append(tasks, t)
    /\ accepted' = Append(accepted, t)
    /\ pc' = [pc EXCEPT ![c] = "notify"]
    /\ UNCHANGED refused

Offered(t) == t \in Elems(accepted) \cup refused

\* TryAddTask: a refusal is the result false, and the caller goes on.
TryAddTask(c, t) ==
    /\ MaySubmit(c)
    /\ ~Offered(t)
    /\ \/ Push(c, t)
       \/ /\ ~HasRoom
          /\ refused' = refused \cup {t}
          /\ UNCHANGED <<tasks, accepted, pc>>
    /\ UNCHANGED <<isClosed, activeTasks, asleep, emptyAsleep, holds, started, finished, owed>>

\* Where the exception of AddTask takes its caller: out of the task, for a worker.
AfterThrowSkipsDone(c) == IF c \in Workers THEN "check" ELSE "idle"
AfterThrow(c) == IF c \in Workers THEN "done" ELSE "idle"

\* AddTask: a refusal is an exception.
AddTask(c, t) ==
    /\ MaySubmit(c)
    /\ ~Offered(t)
    /\ \/ Push(c, t)
       \/ /\ ~HasRoom
          /\ refused' = refused \cup {t}
          /\ pc' = [pc EXCEPT ![c] = AfterThrow(c)]
          /\ UNCHANGED <<tasks, accepted>>
    /\ UNCHANGED <<isClosed, activeTasks, asleep, emptyAsleep, holds, started, finished, owed>>

\* Who a notification of cond can reach.
NoSleepers == {}
Sleepers == asleep

\* Where the caller goes on after its submission.
AfterPushIdles(c) == "idle"
AfterPush(c) == IF c \in Workers THEN "run" ELSE "idle"

\* cond.notify_one() after the unlock: one sleeper, if there is one, wakes.
NotifyOne(c) ==
    /\ pc[c] = "notify"
    /\ \/ \E w \in Sleepers :
             /\ asleep' = asleep \ {w}
             /\ pc' = [pc EXCEPT ![c] = AfterPush(c), ![w] = "check"]
       \/ /\ Sleepers = {}
          /\ pc' = [pc EXCEPT ![c] = AfterPush(c)]
          /\ UNCHANGED asleep
    /\ UNCHANGED <<isClosed, tasks, activeTasks, emptyAsleep, holds, history>>

\* The predicate of condEmpty.wait.
IdleQueue == tasks = <<>>
Idle == tasks = <<>> /\ activeTasks = 0

\* WaitForTasks is called.
WaitForTasks(u) ==
    /\ pc[u] = "idle"
    /\ pc[Owner] \notin {"closed", "join", "gone"}
    /\ pc' = [pc EXCEPT ![u] = "wait"]
    /\ owed' = [owed EXCEPT ![u] = Elems(accepted)]
    /\ UNCHANGED <<isClosed, tasks, activeTasks, asleep, emptyAsleep, holds,
                   accepted, started, finished, refused>>

\* It is evaluated under the mutex: return, or sleep.
WaitCheck(u) ==
    /\ pc[u] = "wait"
    /\ \/ /\ Idle
          /\ pc' = [pc EXCEPT ![u] = "idle"]
          /\ UNCHANGED emptyAsleep
       \/ /\ ~Idle
          /\ pc' = [pc EXCEPT ![u] = "asleep"]
          /\ emptyAsleep' = emptyAsleep \cup {u}
    /\ UNCHANGED <<isClosed, tasks, activeTasks, asleep, holds, history>>

-----------------------------------------------------------------------------
(* Workers.                                                                *)

\* The end of a worker: closed, and the queue drained.
LeavesAtOnce == isClosed
Leaves == isClosed /\ tasks = <<>>

\* The task a worker takes.
Newest == tasks[Len(tasks)]
Oldest == Head(tasks)

\* cond.wait's predicate under the mutex, and what follows it up to the unlock:
\* sleep, leave, or take a task.
Take(w) ==
    /\ pc[w] = "check"
    /\ \/ /\ ~isClosed /\ tasks = <<>>
          /\ pc' = [pc EXCEPT ![w] = "asleep"]
          /\ asleep' = asleep \cup {w}
          /\ UNCHANGED <<tasks, activeTasks, holds, started>>
       \/ /\ Leaves
          /\ pc' = [pc EXCEPT ![w] = "exited"]
          /\ UNCHANGED <<tasks, activeTasks, holds, started, asleep>>
       \/ /\ ~Leaves /\ tasks # <<>>
          /\ holds' = [holds EXCEPT ![w] = Oldest]
          /\ tasks' = Tail(tasks)
          /\ started' = Append(started, Oldest)
          /\ activeTasks' = activeTasks + 1
          /\ pc' = [pc EXCEPT ![w] = "run"]
          /\ UNCHANGED asleep
    /\ UNCHANGED <<isClosed, emptyAsleep, accepted, finished, refused, owed>>

\* task() returns or throws; both catch clauses are empty.
TaskEnds(w) ==
    /\ w \in Workers
    /\ pc[w] = "run"
    /\ pc' = [pc EXCEPT ![w] = "done"]
    /\ UNCHANGED <<isClosed, tasks, activeTasks, asleep, emptyAsleep, holds, history>>

\* The counter after this task, and the test made with it.
StillActive == activeTasks
Remaining == activeTasks - 1
LastOneBefore == activeTasks = 0 /\ tasks = <<>>
LastOne == Remaining = 0 /\ tasks = <<>>

\* The second critical section; the last active worker wakes the waiters.
Done(w) ==
    /\ pc[w] = "done"
    /\ activeTasks' = Remaining
    /\ finished' = finished \cup {holds[w]}
    /\ holds' = [holds EXCEPT ![w] = NoTask]
    /\ LET woken == IF LastOne THEN emptyAsleep ELSE {} IN
       /\ emptyAsleep' = emptyAsleep \ woken
       /\ pc' = [t \in Threads |-> IF t = w THEN "check"
                                   ELSE IF t \in woken THEN "wait"
                                   ELSE pc[t]]
    /\ UNCHANGED <<isClosed, tasks, asleep, accepted, started, refused, owed>>

\* A condition variable may also wake a thread for no reason.
SpuriousWakeup(t) ==
    /\ \/ /\ t \in asleep
          /\ asleep' = asleep \ {t}
          /\ pc' = [pc EXCEPT ![t] = "check"]
          /\ UNCHANGED emptyAsleep
       \/ /\ t \in emptyAsleep
          /\ emptyAsleep' = emptyAsleep \ {t}
          /\ pc' = [pc EXCEPT ![t] = "wait"]
          /\ UNCHANGED asleep
    /\ UNCHANGED <<isClosed, tasks, activeTasks, holds, history>>

-----------------------------------------------------------------------------
(* ~ThreadPool, called when no user is inside a call.                      *)

Close ==
    /\ \A u \in Users : pc[u] = "idle"
    /\ isClosed' = TRUE
    /\ pc' = [pc EXCEPT ![Owner] = "closed"]
    /\ UNCHANGED <<tasks, activeTasks, asleep, emptyAsleep, holds, history>>

\* cond.notify_all(), after the unlock.
NotifyAll ==
    /\ pc[Owner] = "closed"
    /\ asleep' = asleep \ Sleepers
    /\ pc' = [t \in Threads |-> IF t = Owner THEN "join"
                                ELSE IF t \in Sleepers THEN "check"
                                ELSE pc[t]]
    /\ UNCHANGED <<isClosed, tasks, activeTasks, emptyAsleep, holds, history>>

JoinAll ==
    /\ pc[Owner] = "join"
    /\ \A w \in Workers : pc[w] = "exited"
    /\ pc' = [pc EXCEPT ![Owner] = "gone"]
    /\ UNCHANGED <<isClosed, tasks, activeTasks, asleep, emptyAsleep, holds, history>>

-----------------------------------------------------------------------------
Submit == \E c \in Threads, t \in Tasks : TryAddTask(c, t) \/ AddTask(c, t)

Next ==
    \/ Submit
    \/ \E c \in Threads : NotifyOne(c)
    \/ \E u \in Users : WaitForTasks(u) \/ WaitCheck(u)
    \/ \E w \in Workers : Take(w) \/ TaskEnds(w) \/ Done(w)
    \/ \E t \in Threads : SpuriousWakeup(t)
    \/ Close
    \/ NotifyAll
    \/ JoinAll

\* A thread inside a call of the pool is scheduled, and a task returns; nobody
\* has to call the pool, and no spurious wakeup need come.
Fairness ==
    /\ \A c \in Threads : WF_vars(NotifyOne(c))
    /\ \A u \in Users : WF_vars(WaitCheck(u))
    /\ \A w \in Workers : WF_vars(Take(w)) /\ WF_vars(TaskEnds(w)) /\ WF_vars(Done(w))
    /\ WF_vars(NotifyAll)
    /\ WF_vars(JoinAll)

Safety == Init /\ [][Next]_vars
Spec == Safety /\ Fairness

-----------------------------------------------------------------------------
(* Properties.                                                             *)

TypeOK ==
    /\ isClosed \in BOOLEAN
    /\ tasks \in Seq(Tasks)
    /\ activeTasks \in Int
    /\ asleep \subseteq Workers
    /\ emptyAsleep \subseteq Users
    /\ pc \in [Threads -> WorkerPC \cup UserPC]
    /\ \A w \in Workers : pc[w] \in WorkerPC
    /\ \A u \in Users : pc[u] \in UserPC
    /\ holds \in [Workers -> Tasks \cup {NoTask}]
    /\ accepted \in Seq(Tasks)
    /\ started \in Seq(Tasks)
    /\ finished \subseteq Tasks
    /\ refused \subseteq Tasks
    /\ owed \in [Users -> SUBSET Tasks]

\* The workers inside a task, from the pop to the second critical section.
Busy == {w \in Workers : pc[w] \in {"run", "notify", "done"}}

\* What the threads' places say of the rest of the state; the proofs need it.
Places ==
    /\ asleep = {w \in Workers : pc[w] = "asleep"}
    /\ emptyAsleep = {u \in Users : pc[u] = "asleep"}
    /\ \A w \in Busy : holds[w] \in Tasks
    /\ \A w \in Workers : pc[w] = "exited" => isClosed /\ tasks = <<>>
    /\ pc[Owner] = "gone" => \A w \in Workers : pc[w] = "exited"

\* No task is accepted twice, and a waiter is owed accepted tasks only.
OfferedOnce ==
    /\ \A i, j \in 1..Len(accepted) : accepted[i] = accepted[j] => i = j
    /\ \A u \in Users : owed[u] \subseteq Elems(accepted)

\* Tasks start in the order they were accepted, each one once: what was popped
\* followed by what is queued is what was pushed, whatever threads push and pop.
FifoOnce == accepted = started \o tasks

\* The counter WaitForTasks trusts is the number of workers inside a task.
ActiveCount == activeTasks = Cardinality(Busy)

\* A task that was started is either over or held by exactly one worker: a
\* throwing task, a nested submission or a refusal inside a task loses none.
StartedIsHeldOrOver ==
    /\ Elems(started) = finished \cup {holds[w] : w \in Busy}
    /\ \A w \in Busy : holds[w] \notin finished
    /\ \A v, w \in Busy : v # w => holds[v] # holds[w]

\* Both together: the counter counts the tasks that are not over, and each has
\* its worker.
TasksAccountedFor == ActiveCount /\ StartedIsHeldOrOver

\* No lost wakeup: while a task is queued and every worker sleeps, the
\* notification of its submitter is still to come.
QueuedIsAnnounced ==
    tasks # <<>> /\ asleep = Workers => \E u \in Users : pc[u] = "notify"

\* No lost wakeup of a waiter: nobody sleeps in WaitForTasks on an idle pool.
WaiterSleepsOnlyOnWork == emptyAsleep # {} => ~Idle

\* No wakeup of either condition variable is lost.
SleepersAreWoken == QueuedIsAnnounced /\ WaiterSleepsOnlyOnWork

\* WaitForTasks returns only when every task that was accepted before its call is over.
EarlierTasksAreOver == \A u \in Users : pc[u] = "wait" /\ pc'[u] = "idle" => owed[u] \subseteq finished
WaitCoversEarlierTasks == [][EarlierTasksAreOver]_vars

\* The destructor drains: once it has joined the workers, every accepted task has run.
DestructorDrains == pc[Owner] = "gone" => Elems(accepted) = finished

\* What the return of WaitForTasks and of the destructor tells its caller.
ReturnsAreSound == [][EarlierTasksAreOver /\ DestructorDrains']_vars

\* Every accepted task is run in the end, closed pool or not.
AcceptedRuns == \A t \in Tasks : (t \in Elems(accepted)) ~> (t \in finished)

\* WaitForTasks returns (the tasks offered are finitely many).
WaitReturns == \A u \in Users : (pc[u] = "wait") ~> (pc[u] = "idle")

\* The destructor's joins return.
DestructorReturns == (pc[Owner] = "closed") ~> (pc[Owner] = "gone")

\* Every call that waits for the workers returns.
EveryCallReturns == WaitReturns /\ DestructorReturns
=============================================================================
