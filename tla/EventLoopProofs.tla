--------------------------- MODULE EventLoopProofs ---------------------------
(***************************************************************************)
(* The safety of EventLoop, for any number of threads and functors: the    *)
(* queue loses, doubles and reorders nothing, no wakeup is lost, and the   *)
(* queue of the loop implements FunctorQueue.                              *)
(***************************************************************************)
EXTENDS EventLoop, SequenceTheorems, TLAPS

-----------------------------------------------------------------------------
(* Queues.                                                                 *)

\* A queue that is not empty is its head before its tail.
LEMMA HeadAndTail ==
    ASSUME NEW S, NEW s \in Seq(S), s # <<>>
    PROVE  Head(s) \in S /\ Tail(s) \in Seq(S) /\ s = <<Head(s)>> \o Tail(s)
<1>1. Len(s) \in Nat \ {0} /\ Head(s) \in S /\ Tail(s) \in Seq(S)
  BY EmptySeq, HeadTailProperties
<1>2. s = SubSeq(s, 1, Len(s)) /\ Tail(s) = SubSeq(s, 2, Len(s))
  BY SubSeqFull, TailIsSubSeq
<1>3. SubSeq(s, 1, Len(s)) = <<s[1]>> \o SubSeq(s, 2, Len(s))
  BY <1>1, SubSeqRecursiveFirst
<1>4. Head(s) = s[1]
  OBVIOUS
<1> QED  BY <1>1, <1>2, <1>3, <1>4

\* What moves from the head of one queue to the end of another stays in place.
LEMMA HeadMoves ==
    ASSUME NEW S, NEW s \in Seq(S), NEW q \in Seq(S), q # <<>>
    PROVE  Append(s, Head(q)) \o Tail(q) = s \o q
<1>1. Head(q) \in S /\ Tail(q) \in Seq(S) /\ q = <<Head(q)>> \o Tail(q)
  BY HeadAndTail
<1>2. Append(s, Head(q)) = s \o <<Head(q)>> /\ <<Head(q)>> \in Seq(S)
  BY <1>1, AppendIsConcat
<1> QED  BY <1>1, <1>2, ConcatAssociative

\* The head of two queues in a row is the head of the first.
LEMMA TailOfTwo ==
    ASSUME NEW S, NEW s \in Seq(S), NEW q \in Seq(S), s # <<>>
    PROVE  Tail(s \o q) = Tail(s) \o q /\ s \o q # <<>>
<1> DEFINE t == Tail(s \o q)
           u == Tail(s) \o q
<1>1. /\ Tail(s) \in Seq(S) /\ Len(s) \in Nat /\ Len(s) # 0 /\ Len(Tail(s)) = Len(s) - 1 /\ Len(q) \in Nat
      /\ \A i \in 1 .. Len(s) - 1 : Tail(s)[i] = s[i + 1]
  BY HeadTailProperties, EmptySeq
<1>2. s \o q \in Seq(S) /\ Len(s \o q) = Len(s) + Len(q) /\ s \o q # <<>>
  BY <1>1
<1>3. t \in Seq(S) /\ Len(t) = Len(s) + Len(q) - 1 /\ \A i \in 1 .. Len(t) : t[i] = (s \o q)[i + 1]
  BY <1>1, <1>2, HeadTailProperties
<1>4. u \in Seq(S) /\ Len(u) = Len(t) /\ \A i \in 1 .. Len(u) : u[i] = (s \o q)[i + 1]
  BY <1>1, <1>3, ConcatProperties
<1> QED  BY <1>2, <1>3, <1>4, SeqEqual

\* What is added to the second of two queues is added to both.
LEMMA AppendRight ==
    ASSUME NEW S, NEW s \in Seq(S), NEW q \in Seq(S), NEW f \in S
    PROVE  s \o Append(q, f) = Append(s \o q, f)
<1>1. <<f>> \in Seq(S) /\ s \o q \in Seq(S)
  BY ConcatProperties
<1>2. Append(s \o q, f) = (s \o q) \o <<f>> /\ Append(q, f) = q \o <<f>>
  BY <1>1, AppendIsConcat
<1> QED  BY <1>1, <1>2, ConcatAssociative

-----------------------------------------------------------------------------

\* The loop is inside a functor only when its local queue holds it.
InFunctor == lpc = "functor" => batch # <<>>

\* The wakeup is on its way or there, except where the loop is on its way to the
\* queue, or to the test of quit_, anyway.  This holds whether or not the loop
\* reads the eventfd.
WorkOwed == functors # <<>> /\ lpc \notin {"tick", "swap"} => readable \/ waking # {}
QuitOwed == quit /\ lpc \in {"begin", "wait", "handle"} => readable \/ waking # {}

LoopInv ==
    /\ TypeOK
    /\ InFunctor
    /\ QueueOrder
    /\ WorkOwed
    /\ QuitOwed

-----------------------------------------------------------------------------
(* The invariant.                                                          *)

LEMMA LoopInit == Init => LoopInv
<1> SUFFICES ASSUME Init PROVE LoopInv
  OBVIOUS
<1>1. /\ quit \in BOOLEAN /\ readable \in BOOLEAN /\ woke \in BOOLEAN /\ fresh \in BOOLEAN
  BY DEF Init
<1>2. /\ functors \in Seq(Functors) /\ batch \in Seq(Functors)
      /\ posted \in Seq(Functors) /\ ran \in Seq(Functors)
  BY DEF Init
<1>3. /\ lpc \in LoopPC /\ (batch # <<>> => lpc \in {"run", "functor"})
      /\ waking \subseteq All /\ inline \subseteq Functors /\ asked \subseteq All
  BY DEF Init, LoopPC
<1>4. QueueOrder
  BY DEF Init, QueueOrder
<1>5. InFunctor /\ WorkOwed /\ QuitOwed
  BY DEF Init, InFunctor, WorkOwed, QuitOwed
<1> QED  BY <1>1, <1>2, <1>3, <1>4, <1>5 DEF LoopInv, TypeOK

LEMMA PushKeeps ==
    ASSUME LoopInv, NEW t \in All, NEW f \in Functors, QueueInLoop(t, f)
    PROVE  LoopInv'
<1>1. /\ functors' = Append(functors, f) /\ posted' = Append(posted, f)
      /\ waking' = waking \cup {t}
      /\ UNCHANGED <<quit, batch, readable, woke, lpc, ran, inline, asked, fresh>>
  BY DEF QueueInLoop, Pushed, WakingWith
<1>2. functors' \in Seq(Functors) /\ posted' \in Seq(Functors) /\ waking' \subseteq All
  BY <1>1 DEF LoopInv, TypeOK
<1>3. TypeOK'
  BY <1>1, <1>2 DEF LoopInv, TypeOK
<1>4. QueueOrder'
  <2>1. ran \o batch \in Seq(Functors) /\ functors \in Seq(Functors)
    BY ConcatProperties DEF LoopInv, TypeOK
  <2>2. (ran \o batch) \o Append(functors, f) = Append((ran \o batch) \o functors, f)
    BY <2>1, AppendRight
  <2> QED  BY <1>1, <2>2 DEF LoopInv, QueueOrder
<1>5. InFunctor' /\ WorkOwed' /\ QuitOwed'
  BY <1>1 DEF LoopInv, InFunctor, WorkOwed, QuitOwed
<1> QED  BY <1>3, <1>4, <1>5 DEF LoopInv

LEMMA CallsKeep ==
    ASSUME LoopInv, NEW t \in All,
           \/ Quit(t) \/ Wakeup(t)
           \/ \E f \in Functors : QueueInLoop(t, f) \/ RunInLoop(t, f)
    PROVE  LoopInv'
<1>1. CASE Quit(t)
  <2>1. /\ quit' = TRUE /\ waking' = waking \cup {t} /\ asked' = asked \cup {t}
        /\ UNCHANGED <<functors, batch, readable, woke, lpc, posted, ran, inline, fresh>>
    BY <1>1 DEF Quit, WakingWith
  <2>2. TypeOK'
    BY <2>1 DEF LoopInv, TypeOK
  <2> QED  BY <2>1, <2>2 DEF LoopInv, InFunctor, QueueOrder, WorkOwed, QuitOwed
<1>2. CASE Wakeup(t)
  <2>1. TypeOK'
    BY <1>2 DEF Wakeup, LoopInv, TypeOK
  <2> QED  BY <1>2, <2>1 DEF Wakeup, LoopInv, InFunctor, QueueOrder, WorkOwed, QuitOwed
<1>3. ASSUME NEW f \in Functors, RunInLoop(t, f), ~QueueInLoop(t, f)
      PROVE  LoopInv'
  <2>1. /\ inline' = inline \cup {f}
        /\ UNCHANGED <<quit, functors, batch, readable, woke, lpc, waking, posted, ran, asked, fresh>>
    BY <1>3 DEF RunInLoop
  <2>2. TypeOK'
    BY <2>1 DEF LoopInv, TypeOK
  <2> QED  BY <2>1, <2>2 DEF LoopInv, InFunctor, QueueOrder, WorkOwed, QuitOwed
<1> QED  BY <1>1, <1>2, <1>3, PushKeeps

LEMMA LoopKeeps ==
    ASSUME LoopInv, LoopStep
    PROVE  LoopInv'
<1>1. CASE Begin
  <2>1. TypeOK'
    BY <1>1 DEF Begin, At, LoopInv, TypeOK, LoopPC, history
  <2> QED  BY <1>1, <2>1
           DEF Begin, At, LoopInv, InFunctor, QueueOrder, WorkOwed, QuitOwed, history
<1>2. CASE Test
  <2>1. TypeOK'
    BY <1>2 DEF Test, At, LoopInv, TypeOK, LoopPC, history
  <2> QED  BY <1>2, <2>1
           DEF Test, GoesOn, At, LoopInv, InFunctor, QueueOrder, WorkOwed, QuitOwed, history
<1>3. CASE Wait
  <2>1. TypeOK'
    BY <1>3 DEF Wait, At, LoopInv, TypeOK, LoopPC, Callback, history
  <2> QED  BY <1>3, <2>1
           DEF Wait, At, LoopInv, InFunctor, QueueOrder, WorkOwed, QuitOwed, history
<1>4. CASE HandleEvents
  <2>1. readable' \in BOOLEAN /\ woke' \in BOOLEAN /\ fresh' \in BOOLEAN
    BY <1>4 DEF HandleEvents, LoopInv, TypeOK
  <2>2. /\ lpc = "handle" /\ lpc' = "tick"
        /\ UNCHANGED <<quit, functors, batch, waking, posted, ran, inline, asked>>
    BY <1>4 DEF HandleEvents, At
  <2>3. TypeOK'
    BY <2>1, <2>2 DEF LoopInv, TypeOK, LoopPC, Callback
  <2> QED  BY <2>2, <2>3 DEF LoopInv, InFunctor, QueueOrder, WorkOwed, QuitOwed
<1>5. CASE Tick
  <2>1. TypeOK'
    BY <1>5 DEF Tick, At, LoopInv, TypeOK, LoopPC, Callback, history
  <2> QED  BY <1>5, <2>1
           DEF Tick, At, LoopInv, InFunctor, QueueOrder, WorkOwed, QuitOwed, history
<1>6. CASE Swap
  <2>1. /\ lpc = "swap" /\ lpc' = "run" /\ batch = <<>>
        /\ batch' = functors /\ functors' = <<>>
        /\ UNCHANGED <<quit, readable, woke, waking, posted, ran, inline, asked, fresh>>
    BY <1>6 DEF Swap, At, LoopInv, TypeOK, history
  <2>2. TypeOK'
    BY <2>1 DEF LoopInv, TypeOK, LoopPC
  <2>3. ran \o <<>> = ran /\ (ran \o functors) \o <<>> = ran \o functors
    BY ConcatEmptySeq, ConcatProperties DEF LoopInv, TypeOK
  <2>4. QueueOrder'
    BY <2>1, <2>3 DEF LoopInv, QueueOrder
  <2> QED  BY <2>1, <2>2, <2>4 DEF LoopInv, InFunctor, WorkOwed, QuitOwed
<1>7. CASE RunNext
  <2>1. TypeOK'
    BY <1>7 DEF RunNext, At, LoopInv, TypeOK, LoopPC, Callback, history
  <2> QED  BY <1>7, <2>1
           DEF RunNext, At, LoopInv, InFunctor, QueueOrder, WorkOwed, QuitOwed, history
<1>8. CASE FunctorReturns
  <2>1. /\ lpc = "functor" /\ lpc' = "run" /\ batch # <<>>
        /\ ran' = Append(ran, Head(batch)) /\ batch' = Tail(batch)
        /\ UNCHANGED <<quit, functors, readable, woke, waking, posted, inline, asked, fresh>>
    BY <1>8 DEF FunctorReturns, AfterFunctor, At, LoopInv, InFunctor
  <2>2. ran' \in Seq(Functors) /\ batch' \in Seq(Functors)
    BY <2>1, HeadAndTail DEF LoopInv, TypeOK
  <2>3. TypeOK'
    BY <2>1, <2>2 DEF LoopInv, TypeOK, LoopPC
  <2>4. Append(ran, Head(batch)) \o Tail(batch) = ran \o batch
    BY <2>1, HeadMoves DEF LoopInv, TypeOK
  <2>5. QueueOrder'
    BY <2>1, <2>4 DEF LoopInv, QueueOrder
  <2> QED  BY <2>1, <2>3, <2>5 DEF LoopInv, InFunctor, WorkOwed, QuitOwed
<1> QED  BY <1>1, <1>2, <1>3, <1>4, <1>5, <1>6, <1>7, <1>8 DEF LoopStep

\* The inductive invariant of the loop.
THEOREM LoopInvariant == Safety => []LoopInv
<1>1. LoopInv /\ [Next]_vars => LoopInv'
  <2>1. CASE UNCHANGED vars
    BY <2>1 DEF vars, history, LoopInv, TypeOK, InFunctor, QueueOrder, WorkOwed, QuitOwed
  <2> QED  BY <2>1, CallsKeep, LoopKeeps DEF Next
<1> QED  BY <1>1, LoopInit, PTL DEF Safety

\* The types of the loop's state, for any number of threads and functors.
THEOREM LoopTypes == Safety => []TypeOK
BY LoopInvariant, PTL DEF LoopInv

\* What was posted is what has run, the rest of the batch and what is queued, in
\* this order, whoever posts while HandlePendingFunctors swaps and runs.
THEOREM NothingLostOrReordered == Safety => []QueueOrder
BY LoopInvariant, PTL DEF LoopInv

\* QueueInLoop's write after the unlock reaches a loop that waits with work queued.
THEOREM WorkIsAnnounced == Safety => []WorkWakesLoop
<1>1. LoopInv => WorkWakesLoop
  BY DEF LoopInv, WorkOwed, WorkWakesLoop
<1> QED  BY <1>1, LoopInvariant, PTL

\* Quit's write reaches a loop that waits with the flag set.
THEOREM QuitIsAnnounced == Safety => []QuitWakesLoop
<1>1. LoopInv => QuitWakesLoop
  BY DEF LoopInv, QuitOwed, QuitWakesLoop
<1> QED  BY <1>1, LoopInvariant, PTL

-----------------------------------------------------------------------------
(* The queue implements its promise.                                       *)

\* The steps of EventLoop that FunctorQueue does not see.
LEMMA Stutters ==
    ASSUME UNCHANGED <<functors, batch>>, (lpc' = "exited") = (lpc = "exited")
    PROVE  UNCHANGED Queue!fqvars
BY DEF Queue!fqvars

LEMMA QueueStep ==
    ASSUME LoopInv, [Next]_vars
    PROVE  [Queue!Next]_(Queue!fqvars)
<1>1. ASSUME NEW t \in All, NEW f \in Functors, QueueInLoop(t, f)
      PROVE  Queue!Post(f)
  <2>1. functors' = Append(functors, f) /\ batch' = batch /\ lpc' = lpc
    BY <1>1 DEF QueueInLoop, Pushed
  <2>2. batch \in Seq(Functors) /\ functors \in Seq(Functors)
    BY DEF LoopInv, TypeOK
  <2>3. batch \o Append(functors, f) = Append(batch \o functors, f)
    BY <2>2, AppendRight
  <2> QED  BY <2>1, <2>3 DEF Queue!Post
<1>2. ASSUME NEW t \in All, NEW f \in Functors, RunInLoop(t, f)
      PROVE  QueueInLoop(t, f) \/ UNCHANGED Queue!fqvars
  BY <1>2, Stutters DEF RunInLoop
<1>3. ASSUME NEW t \in All, Quit(t) \/ Wakeup(t)
      PROVE  UNCHANGED Queue!fqvars
  BY <1>3, Stutters DEF Quit, Wakeup
<1>4. CASE Begin \/ Wait \/ HandleEvents \/ Tick \/ RunNext
  BY <1>4, Stutters DEF Begin, Wait, HandleEvents, Tick, RunNext, At, history
<1>5. CASE Test
  <2>1. /\ UNCHANGED <<functors, batch>> /\ lpc = "test"
        /\ lpc' = "wait" \/ lpc' = "exited"
    BY <1>5 DEF Test, At
  <2>2. CASE lpc' = "wait"
    BY <2>1, <2>2, Stutters
  <2>3. CASE lpc' = "exited"
    BY <2>1, <2>3 DEF Queue!Next, Queue!Exit
  <2> QED  BY <2>1, <2>2, <2>3
<1>6. CASE Swap
  <2>1. /\ batch = <<>> /\ batch' = functors /\ functors' = <<>>
        /\ lpc = "swap" /\ lpc' = "run"
    BY <1>6 DEF Swap, At, LoopInv, TypeOK
  <2>2. functors \o <<>> = functors /\ <<>> \o functors = functors
    BY ConcatEmptySeq DEF LoopInv, TypeOK
  <2> QED  BY <2>1, <2>2 DEF Queue!fqvars
<1>7. CASE FunctorReturns
  <2>1. /\ lpc = "functor" /\ lpc' = "run" /\ batch # <<>>
        /\ batch' = Tail(batch) /\ functors' = functors
    BY <1>7 DEF FunctorReturns, AfterFunctor, At, LoopInv, InFunctor
  <2>2. Tail(batch \o functors) = Tail(batch) \o functors /\ batch \o functors # <<>>
    BY <2>1, TailOfTwo DEF LoopInv, TypeOK
  <2> QED  BY <2>1, <2>2 DEF Queue!Next, Queue!RunOldest
<1>8. CASE UNCHANGED vars
  BY <1>8, Stutters DEF vars
<1> QED  BY <1>1, <1>2, <1>3, <1>4, <1>5, <1>6, <1>7, <1>8 DEF Next, LoopStep, Queue!Next

\* The loop's queue implements FunctorQueue: what is posted runs once and in
\* order, as long as the loop has not exited.
THEOREM LoopImplementsQueue == Safety => QueueSpec
<1>1. Init => Queue!Init
  BY DEF Init, Queue!Init
<1> QED  BY <1>1, QueueStep, LoopInvariant, PTL DEF Safety, QueueSpec, Queue!Spec

\* The loop never sleeps on work or on Quit.
THEOREM NothingSleptOn == Safety => []NeverSleepsOnWork
BY WorkIsAnnounced, QuitIsAnnounced, PTL DEF NeverSleepsOnWork

=============================================================================
