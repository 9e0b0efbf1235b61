----------------------------- MODULE EventLoop -----------------------------
(***************************************************************************)
(* rpc::EventLoop (src/code/network/core/event_loop.cc): the thread that   *)
(* runs Loop(), the functors other threads queue for it, the eventfd that  *)
(* wakes it and the flag that ends it.  Callbacks of channels and timers   *)
(* are not modelled here beyond what they may call: QueueInLoop, RunInLoop *)
(* and Quit, on the loop thread.                                           *)
(***************************************************************************)
EXTENDS Integers, Sequences

CONSTANTS
    Threads,    \* the threads that use the loop, the loop thread excepted
    LoopThread, \* the thread that calls Loop()
    Functors,   \* the functors that are posted, each at most once
    WakeupFd    \* wakeup_fd_

\* eventfd() returns descriptor 0 only to a process that closed its stdin.
ASSUME LoopAssumption ==
    /\ LoopThread \notin Threads
    /\ WakeupFd \in Nat \ {0}

VARIABLES
    quit,       \* quit_
    functors,   \* pending_functors_
    batch,      \* the local queue of HandlePendingFunctors
    readable,   \* the counter of the eventfd is not zero
    woke,       \* the wakeup descriptor is among the events Wait returned
    lpc,        \* where the loop thread is
    waking,     \* the threads between a push (or quit_ = true) and Wakeup
    \* History, read by properties only:
    posted,     \* the functors pushed, in order
    ran,        \* the queued functors that have run, in order
    inline,     \* the functors RunInLoop ran without queueing them
    asked,      \* the threads that have called Quit
    fresh       \* Wakeup has written since the loop last came to Wait

history == <<posted, ran, inline, asked, fresh>>
vars == <<quit, functors, batch, readable, woke, lpc, waking, history>>

All == Threads \cup {LoopThread}

\* The points of the loop, and those where it is inside a callback.
Callback == {"handle", "tick", "functor"}
LoopPC == {"begin", "test", "wait", "swap", "run", "exited"} \cup Callback

Elems(s) == {s[i] : i \in DOMAIN s}

(* A definition just above another with its parameters is a wrong variant  *)
(* of it, a slip the code could have; nothing here uses it.                *)

\* EventLoop(), and a thread about to execute the first line of Loop().
Init ==
    /\ quit = FALSE
    /\ functors = <<>>
    /\ batch = <<>>
    /\ readable = FALSE
    /\ woke = FALSE
    /\ lpc = "begin"
    /\ waking = {}
    /\ posted = <<>>
    /\ ran = <<>>
    /\ inline = {}
    /\ asked = {}
    /\ fresh = FALSE

-----------------------------------------------------------------------------
(* The interface, called by any thread outside a call of its own; the loop *)
(* thread calls it from a callback.                                        *)

MayCall(t) == t \notin waking /\ (t = LoopThread => lpc \in Callback)

New(f) == f \notin Elems(posted) \cup inline

\* pending_functors_ after a push.
PushedFront(f) == <<f>> \o functors
Pushed(f) == Append(functors, f)

\* The threads that owe a Wakeup once t has pushed or quit.
NobodyWakes(t) == waking
WakingWith(t) == waking \cup {t}

\* QueueInLoop: the push under the mutex; Wakeup follows the unlock.
QueueInLoop(t, f) ==
    /\ MayCall(t)
    /\ New(f)
    /\ functors' = Pushed(f)
    /\ posted' = Append(posted, f)
    /\ waking' = WakingWith(t)
    /\ UNCHANGED <<quit, batch, readable, woke, lpc, ran, inline, asked, fresh>>

\* RunInLoop on the loop thread calls the functor; elsewhere it is QueueInLoop.
RunInLoop(t, f) ==
    \/ /\ t # LoopThread
       /\ QueueInLoop(t, f)
    \/ /\ t = LoopThread
       /\ MayCall(t)
       /\ New(f)
       /\ inline' = inline \cup {f}
       /\ UNCHANGED <<quit, functors, batch, readable, woke, lpc, waking, posted, ran, asked, fresh>>

\* Quit: the flag, then Wakeup.  Bound: once per thread, since a second call of
\* the same thread repeats both writes.
Quit(t) ==
    /\ MayCall(t)
    /\ t \notin asked
    /\ quit' = TRUE
    /\ asked' = asked \cup {t}
    /\ waking' = WakingWith(t)
    /\ UNCHANGED <<functors, batch, readable, woke, lpc, posted, ran, inline, fresh>>

\* Wakeup: write(wakeup_fd_).
Wakeup(t) ==
    /\ t \in waking
    /\ readable' = TRUE
    /\ fresh' = TRUE
    /\ waking' = waking \ {t}
    /\ UNCHANGED <<quit, functors, batch, woke, lpc, posted, ran, inline, asked>>

-----------------------------------------------------------------------------
(* Loop().  The loop thread goes on when its callback has returned.        *)

At(p) == lpc = p /\ LoopThread \notin waking

\* quit_ = false; thread_id_ = this thread.
Begin ==
    /\ At("begin")
    /\ quit' = FALSE
    /\ lpc' = "test"
    /\ UNCHANGED <<functors, batch, readable, woke, waking, history>>

\* The condition of the while loop.
GoesOnForEver == TRUE
GoesOn == ~quit

Test ==
    /\ At("test")
    /\ lpc' = IF GoesOn THEN "wait" ELSE "exited"
    /\ UNCHANGED <<quit, functors, batch, readable, woke, waking, history>>

\* Wait(100) returns: on an event or on the timeout.  The eventfd is level
\* triggered, so it is reported exactly when it is readable.
Wait ==
    /\ At("wait")
    /\ woke' = readable
    /\ lpc' = "handle"
    /\ UNCHANGED <<quit, functors, batch, readable, waking, history>>

\* Epoller::GetEventFd of the wakeup descriptor.  AddFd stores the descriptor
\* in data.fd and then nullptr in data.ptr of the same union.
GetEventFd == 0

\* The event loop over the reported events, the wakeup one included; its
\* channel is null.  The callbacks of the other events ran before this step.
HandleEvents ==
    /\ At("handle")
    /\ readable' = IF woke /\ GetEventFd = WakeupFd THEN FALSE ELSE readable
    /\ woke' = FALSE
    /\ fresh' = IF woke THEN FALSE ELSE fresh
    /\ lpc' = "tick"
    /\ UNCHANGED <<quit, functors, batch, waking, posted, ran, inline, asked>>

\* timer_->Tick() returns.
Tick ==
    /\ At("tick")
    /\ lpc' = "swap"
    /\ UNCHANGED <<quit, functors, batch, readable, woke, waking, history>>

\* The swap of HandlePendingFunctors, under the mutex.
Swap ==
    /\ At("swap")
    /\ batch' = functors
    /\ functors' = <<>>
    /\ lpc' = "run"
    /\ UNCHANGED <<quit, readable, woke, waking, history>>

\* functors.front()() is called, or the local queue is empty.
RunNext ==
    /\ At("run")
    /\ lpc' = IF batch = <<>> THEN "test" ELSE "functor"
    /\ UNCHANGED <<quit, functors, batch, readable, woke, waking, history>>

\* The loop over the local queue goes on until it is empty.
OneFunctorOnly == "test"
AfterFunctor == "run"

\* The functor returns, and is popped.
FunctorReturns ==
    /\ At("functor")
    /\ ran' = Append(ran, Head(batch))
    /\ batch' = Tail(batch)
    /\ lpc' = AfterFunctor
    /\ UNCHANGED <<quit, functors, readable, woke, waking, posted, inline, asked, fresh>>

LoopStep ==
    Begin \/ Test \/ Wait \/ HandleEvents \/ Tick \/ Swap \/ RunNext \/ FunctorReturns

Next ==
    \/ \E t \in All, f \in Functors : QueueInLoop(t, f) \/ RunInLoop(t, f)
    \/ \E t \in All : Quit(t) \/ Wakeup(t)
    \/ LoopStep

\* The loop thread and a thread inside QueueInLoop or Quit are scheduled; Wait
\* returns because of its timeout, and callbacks return.
Fairness == WF_vars(LoopStep) /\ \A t \in All : WF_vars(Wakeup(t))

Safety == Init /\ [][Next]_vars
Spec == Safety /\ Fairness

-----------------------------------------------------------------------------
(* Properties.                                                             *)

TypeOK ==
    /\ quit \in BOOLEAN /\ readable \in BOOLEAN /\ woke \in BOOLEAN
    /\ functors \in Seq(Functors)
    /\ batch \in Seq(Functors)
    /\ lpc \in LoopPC
    /\ batch # <<>> => lpc \in {"run", "functor"}
    /\ waking \subseteq All
    /\ posted \in Seq(Functors)
    /\ ran \in Seq(Functors)
    /\ inline \subseteq Functors
    /\ asked \subseteq All
    /\ fresh \in BOOLEAN

\* Nothing is lost, doubled or reordered by the swap, whoever queues during it.
QueueOrder == posted = ran \o batch \o functors

\* A functor never waits for the timeout of Wait: while the loop is in Wait with
\* work queued, the eventfd is readable or the write is on its way.
WorkWakesLoop == lpc = "wait" /\ functors # <<>> => readable \/ waking # {}

\* Quit cannot be overlooked either: the flag is set while the loop waits only
\* with a wakeup there or on its way.
QuitWakesLoop == lpc = "wait" /\ quit => readable \/ waking # {}

\* Both together: the loop never sleeps in Wait on something it has to do.
NeverSleepsOnWork == WorkWakesLoop /\ QuitWakesLoop

\* The queue implements its abstract promise.
Queue == INSTANCE FunctorQueue WITH waiting <- batch \o functors, exited <- lpc = "exited"
QueueSpec == Queue!Spec

\* A queued functor runs unless the loop is told to quit.
FunctorsRun == \A f \in Functors : (f \in Elems(posted)) ~> (f \in Elems(ran) \/ asked # {})

\* A Quit that comes after the first line of Loop() ends the loop.
QuitEndsRunningLoop == (quit /\ lpc # "begin") ~> (lpc = "exited")

\* What the document says of Quit: Loop blocks until Quit is called.
QuitEndsLoop == (asked # {}) ~> (lpc = "exited")

\* What the code means by reading the eventfd: a wakeup is reported once, so that
\* Wait blocks when there is nothing to do.
WakeupReportedOnce == lpc = "handle" /\ woke => fresh
=============================================================================
