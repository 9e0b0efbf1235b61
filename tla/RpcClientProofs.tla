--------------------------- MODULE RpcClientProofs ---------------------------
(***************************************************************************)
(* Proofs about RpcClient, for any number of calls and any assignment of   *)
(* timer ids to them: no callback is invoked twice, an open call is in one *)
(* pair of hands, and Stop leaves neither a pending call nor a callback.   *)
(*                                                                         *)
(* HeldOnce alone is not inductive: that a DropAllPending may overwrite    *)
(* its local map, that a call past the gate was not entered before, and    *)
(* that nobody is between the tests of CallRaw once Stop has swapped, are  *)
(* facts about the program counters.  Hands adds them.                     *)
(*                                                                         *)
(* LinkFacts is the invariant of the connection: connected_ can be trusted *)
(* outside handleClose.  With both, the loop inside the client implements  *)
(* FunctorQueue.                                                           *)
(***************************************************************************)
EXTENDS RpcClient, SequenceTheorems, TLAPS

\* A call in somebody's hands is accepted and has no answer yet, no two hold it,
\* and an accepted call in nobody's hands has one.
HandsDisjoint ==
    /\ pending \cup tmpLoop \cup tmpStop \cup TakenBack \subseteq accepted \ Answered
    /\ accepted \ Answered \subseteq pending \cup tmpLoop \cup tmpStop \cup TakenBack
    /\ pending \cap (tmpLoop \cup tmpStop \cup TakenBack) = {}
    /\ tmpLoop \cap (tmpStop \cup TakenBack) = {}
    /\ tmpStop \cap TakenBack = {}

\* Before the gate a call is unknown; the mutex belongs to the call in the gate.
GateFacts ==
    /\ \A c \in Calls : cpc[c] \in {"new", "gate"} => c \notin accepted /\ c \notin Answered
    /\ \A c \in Calls : cpc[c] = "gate" <=> holder = c

\* When the local maps of the two DropAllPending can hold something.
MapFacts ==
    /\ tmpLoop # {} => lpc = "drop" \/ (lpc = "callback" /\ retCb = "drop")
    /\ tmpStop # {} => spc = "drop"

\* What Stop has established at each of its steps.
StopFacts ==
    /\ spc \notin {"new", "spawned", "started"} => stopped
    /\ closed => pending = {} /\ holder = NoCall
    /\ spc \in {"final", "stopped"} => lpc \in {"off", "exited"}
    /\ lpc = "off" => spc \notin {"spawned", "started", "join"}
    /\ spc = "new" => lpc = "off"
    /\ retCb # "off" /\ retDrop # "off" /\ retClose # "off"

Hands == AtMostOnce /\ HandsDisjoint /\ GateFacts /\ MapFacts /\ StopFacts

-----------------------------------------------------------------------------
\* Invoking the callback of an unanswered call, and of no other, keeps every
\* callback at one invocation.
LEMMA AnswerOnce ==
    ASSUME results \in [Calls -> Seq(Codes)], AtMostOnce,
           NEW c \in Calls, c \notin Answered, NEW code \in Codes, Answer(c, code)
    PROVE  /\ AtMostOnce'
           /\ Answered' = Answered \cup {c}
<1>1. results[c] = <<>>
  BY DEF Answered
<1>2. results' = [results EXCEPT ![c] = <<code>>]
  BY <1>1 DEF Answer
<1>3. results' \in [Calls -> Seq(Codes)]
  BY <1>2
<1>4. ASSUME NEW d \in Calls
      PROVE  /\ Len(results'[d]) <= 1
             /\ results'[d] # <<>> <=> (d = c \/ results[d] # <<>>)
  <2>1. CASE d = c
    BY <2>1, <1>2
  <2>2. CASE d # c
    BY <2>2, <1>2 DEF AtMostOnce
  <2> QED
    BY <2>1, <2>2
<1> QED
  BY <1>3, <1>4 DEF AtMostOnce, Answered
-----------------------------------------------------------------------------
\* An answer, a queued functor and a change of the timers keep their types.
LEMMA AnswerType ==
    ASSUME results \in [Calls -> Seq(Codes)], NEW c \in Calls, NEW code \in Codes, Answer(c, code)
    PROVE  results' \in [Calls -> Seq(Codes)]
BY DEF Answer

LEMMA PostType ==
    ASSUME functors \in Seq(Functors), NEW f \in Functors, Post(f)
    PROVE  functors' \in Seq(Functors)
BY DEF Post

LEMMA TimerType ==
    ASSUME timers \in [TimerIds -> Calls \cup {NoCall}]
    PROVE  /\ \A c \in Calls : Armed(c) \in [TimerIds -> Calls \cup {NoCall}]
           /\ \A c \in Calls : Disarmed(c) \in [TimerIds -> Calls \cup {NoCall}]
           /\ \A ids : Erased(ids) \in [TimerIds -> Calls \cup {NoCall}]
BY DEF Armed, Disarmed, Erased

LEMMA FunctorType ==
    /\ FConnect \in Functors /\ FDisconnect \in Functors
    /\ \A c \in Calls : FAddTimer(c) \in Functors /\ FRemoveTimer(c) \in Functors
                        /\ FSend(c) \in Functors
BY DEF Functors, FConnect, FDisconnect, FAddTimer, FRemoveTimer, FSend

\* A functor that is run has the call its operation needs.
LEMMA RunsType ==
    ASSUME batch \in Seq(Functors), NEW op, Runs(op)
    PROVE  /\ batch' \in Seq(Functors)
           /\ op \in {"addTimer", "removeTimer", "send"} => Head(batch).call \in Calls
<1>1. batch # <<>> /\ Head(batch).op = op /\ batch' = Tail(batch)
  BY DEF Runs
<1>2. Head(batch) \in Functors
  BY <1>1
<1> QED
  BY <1>1, <1>2 DEF Functors

\* Every step of every thread and of the network keeps the types.
LEMMA TypeStep == TypeOK /\ [Next]_vars => TypeOK'
<1> SUFFICES ASSUME TypeOK, [Next]_vars
             PROVE  TypeOK'
  OBVIOUS
<1> USE DEF clientVars, loopVars, queueVars, netVars, ownerVars, history
<1>a. \A code \in {"not_running", "encode_failed", "timeout", "disconnected",
                   "network_error", "response"} : code \in Codes
  BY DEF Codes
<1>1. ASSUME NEW c \in Calls, CallEnter(c)
      PROVE  TypeOK'
  <2>1. results' \in [Calls -> Seq(Codes)]
    BY <1>1, <1>a, AnswerType DEF CallEnter, TypeOK
  <2>2. cpc' \in [Calls -> CallPC] /\ holder' \in Calls \cup {NoCall}
    BY <1>1 DEF CallEnter, GateHolder, CallPC, TypeOK
  <2>3. onLoop' \in Calls \cup {NoCall}
    BY <1>1 DEF CallEnter, TypeOK
  <2> QED
    BY <1>1, <2>1, <2>2, <2>3 DEF CallEnter, TypeOK
<1>2. ASSUME NEW c \in Calls, CallStep(c)
      PROVE  TypeOK'
  <2>0. ASSUME Returns(c)
        PROVE  onLoop' \in Calls \cup {NoCall}
    BY <2>0 DEF Returns, TypeOK
  <2>1. CASE CallGate(c)
    <3>1. results' \in [Calls -> Seq(Codes)]
      BY <2>1, <1>a, AnswerType DEF CallGate, TypeOK
    <3>2. cpc' \in [Calls -> CallPC] /\ onLoop' \in Calls \cup {NoCall}
      BY <2>1, <2>0 DEF CallGate, CallPC, TypeOK
    <3> QED
      BY <2>1, <3>1, <3>2 DEF CallGate, TypeOK
  <2>2. CASE CallAddTimer(c)
    <3>1. /\ timers' \in [TimerIds -> Calls \cup {NoCall}]
          /\ functors' \in Seq(Functors)
      BY <2>2, TimerType, PostType, FunctorType DEF CallAddTimer, Arms, TypeOK
    <3> QED
      BY <2>2, <3>1 DEF CallAddTimer, CallPC, TypeOK
  <2>3. CASE EncodeFails(c)
    <3>1. cpc' \in [Calls -> CallPC]
      BY <2>3 DEF EncodeFails, CallPC, TypeOK
    <3> QED
      BY <2>3, <3>1 DEF EncodeFails, Taken, TypeOK
  <2>4. CASE AnswerEncodeFailed(c)
    <3>1. /\ timers' \in [TimerIds -> Calls \cup {NoCall}]
          /\ functors' \in Seq(Functors)
      BY <2>4, TimerType, PostType, FunctorType DEF AnswerEncodeFailed, TypeOK
    <3>2. results' \in [Calls -> Seq(Codes)]
      BY <2>4, <1>a, AnswerType DEF AnswerEncodeFailed, TypeOK
    <3>3. cpc' \in [Calls -> CallPC] /\ onLoop' \in Calls \cup {NoCall}
      BY <2>4, <2>0 DEF AnswerEncodeFailed, CallPC, TypeOK
    <3> QED
      BY <2>4, <3>1, <3>2, <3>3 DEF AnswerEncodeFailed, TypeOK
  <2>5. CASE CallSend(c)
    <3>1. cpc' \in [Calls -> CallPC] /\ onLoop' \in Calls \cup {NoCall}
      BY <2>5, <2>0 DEF CallSend, CallPC, TypeOK
    <3> QED
      BY <2>5, <3>1 DEF CallSend, TypeOK
  <2>6. CASE CallDeref(c)
    <3>1. cpc' \in [Calls -> CallPC] /\ onLoop' \in Calls \cup {NoCall}
      BY <2>6, <2>0 DEF CallDeref, CallPC, TypeOK
    <3>2. \/ UNCHANGED functors
          \/ functors' = Append(functors, FSend(c))
      BY <2>6 DEF CallDeref
    <3>3. functors' \in Seq(Functors)
      <4>1. FSend(c) \in Functors
        BY FunctorType
      <4> QED
        BY <3>2, <4>1, PostType DEF TypeOK, Post
    <3>4. wire' \subseteq Calls
      BY <2>6 DEF CallDeref, Written, TypeOK
    <3> QED
      BY <2>6, <3>1, <3>3, <3>4 DEF CallDeref, TypeOK
  <2> QED
    BY <1>2, <2>1, <2>2, <2>3, <2>4, <2>5, <2>6 DEF CallStep
<1>3. CASE LoopStep
  <2>0. CASE ConnectSucceeds
    BY <2>0 DEF ConnectSucceeds, LoopPC, TypeOK
  <2>1. CASE Begin \/ Test \/ NoEvent \/ FramesDone
    <3>1. quit' \in BOOLEAN
      BY <2>1 DEF Begin, Test, NoEvent, FramesDone, TypeOK
    <3> QED
      BY <2>1, <3>1 DEF Begin, Test, NoEvent, FramesDone, LoopPC, TypeOK
  <2>2. CASE Notify \/ ResetConnection \/ RunDone
    <3>1. CASE Notify
      BY <3>1 DEF Notify, LoopPC, TypeOK
    <3>2. CASE ResetConnection
      BY <3>2 DEF ResetConnection, LoopPC, TypeOK
    <3>3. CASE RunDone
      BY <3>3 DEF RunDone, LoopPC, TypeOK
    <3> QED BY <2>2, <3>1, <3>2, <3>3
  <2>3. CASE CloseCallback
    <3>1. connected' = FALSE
      BY <2>3 DEF CloseCallback, NowConnected
    <3> QED
      BY <2>3, <3>1 DEF CloseCallback, TypeOK
  <2>4. CASE ConnectFails \/ ReadFails \/ CloseEvent
    <3>1. CASE ConnectFails
      BY <3>1 DEF ConnectFails, HandleClose, LoopPC, TypeOK
    <3>2. CASE CloseEvent
      BY <3>2 DEF CloseEvent, HandleClose, LoopPC, TypeOK
    <3>3. CASE ReadFails
      BY <3>3 DEF ReadFails, HandleClose, LoopPC, TypeOK
    <3> QED BY <2>4, <3>1, <3>2, <3>3
  <2>5. CASE ReadEvent
    BY <2>5 DEF ReadEvent, LoopPC, TypeOK
  <2>6. CASE CorruptFrame
    BY <2>6 DEF CorruptFrame, HandleClose, LoopPC, TypeOK
  <2>7. ASSUME NEW c \in Calls, ResponseFrame(c)
        PROVE  TypeOK'
    <3>1. results' \in [Calls -> Seq(Codes)]
      BY <2>7, <1>a, AnswerType DEF ResponseFrame, TypeOK
    <3>2. timers' \in [TimerIds -> Calls \cup {NoCall}]
      BY <2>7, TimerType DEF ResponseFrame, TypeOK
    <3>3. frames' \in Seq(Calls \cup {Corrupt})
      BY <2>7 DEF ResponseFrame, TypeOK
    <3> QED
      BY <2>7, <3>1, <3>2, <3>3 DEF ResponseFrame, Taken, LoopPC, TypeOK
  <2>8. CASE CallbackReturns
    <3>1. timers' \in [TimerIds -> Calls \cup {NoCall}]
      BY <2>8, TimerType DEF CallbackReturns, TypeOK
    <3> QED
      BY <2>8, <3>1 DEF CallbackReturns, TypeOK
  <2>9. CASE LoopSwap
    BY <2>9 DEF LoopSwap, LoopPC, TypeOK
  <2>10. CASE LoopDrop
    <3>1. results' \in [Calls -> Seq(Codes)]
      BY <2>10, <1>a, AnswerType DEF LoopDrop, TypeOK
    <3>2. timers' \in [TimerIds -> Calls \cup {NoCall}]
      BY <2>10, TimerType DEF LoopDrop, TypeOK
    <3> QED
      BY <2>10, <3>1, <3>2 DEF LoopDrop, LoopPC, TypeOK
  <2>11. ASSUME NEW i \in TimerIds, FireTimer(i)
         PROVE  TypeOK'
    <3>1. timers[i] \in Calls
      BY <2>11 DEF FireTimer, TypeOK
    <3>2. results' \in [Calls -> Seq(Codes)]
      BY <2>11, <3>1, <1>a, AnswerType DEF FireTimer, TypeOK
    <3>3. timers' \in [TimerIds -> Calls \cup {NoCall}]
      BY <2>11, TimerType DEF FireTimer, TypeOK
    <3> QED
      BY <2>11, <3>2, <3>3 DEF FireTimer, Taken, LoopPC, TypeOK
  <2>12. CASE SwapFunctors
    BY <2>12 DEF SwapFunctors, LoopPC, TypeOK
  <2>13. CASE RunConnect
    <3>1. batch' \in Seq(Functors)
      BY <2>13, RunsType DEF RunConnect, TypeOK
    <3>2. connected' \in BOOLEAN
      BY <2>13 DEF RunConnect, TypeOK
    <3>3. /\ link' \in {"null", "connecting", "up", "down"}
          /\ net' \in {"none", "syn", "open", "failed", "fin", "rst"}
          /\ lpc' \in LoopPC /\ retDrop' \in LoopPC
      BY <2>13 DEF RunConnect, LoopPC, TypeOK
    <3> QED
      BY <2>13, <3>1, <3>2, <3>3 DEF RunConnect, TypeOK
  <2>14. CASE RunDisconnect
    <3>1. batch' \in Seq(Functors)
      BY <2>14, RunsType DEF RunDisconnect, TypeOK
    <3>2. /\ connected' \in BOOLEAN
          /\ link' \in {"null", "connecting", "up", "down"}
          /\ lpc' \in LoopPC /\ retDrop' \in LoopPC /\ retClose' \in LoopPC
      BY <2>14 DEF RunDisconnect, HandleClose, LoopPC, TypeOK
    <3> QED
      BY <2>14, <3>1, <3>2 DEF RunDisconnect, TypeOK
  <2>15. CASE RunTimerFunctor
    <3>1. /\ batch' \in Seq(Functors)
          /\ timers' \in [TimerIds -> Calls \cup {NoCall}]
      BY <2>15, RunsType, TimerType DEF RunTimerFunctor, Arms, TypeOK
    <3> QED
      BY <2>15, <3>1 DEF RunTimerFunctor, Arms, TypeOK
  <2>16. CASE RunSend
    <3>1. batch' \in Seq(Functors) /\ Head(batch).call \in Calls
      BY <2>16, RunsType DEF RunSend, TypeOK
    <3> QED
      BY <2>16, <3>1 DEF RunSend, Written, TypeOK
  <2> QED
    BY <1>3, <2>0, <2>1, <2>2, <2>3, <2>4, <2>5, <2>6, <2>7, <2>8, <2>9, <2>10, <2>11, <2>12,
       <2>13, <2>14, <2>15, <2>16 DEF LoopStep
<1>4. CASE Start \/ Stop
  <2>1. CASE Start
    BY <2>1 DEF Start, OwnerGoes, LoopPC, OwnerPC, TypeOK
  <2>2. CASE Stop
    BY <2>2 DEF Stop, OwnerPC, TypeOK
  <2> QED
    BY <1>4, <2>1, <2>2
<1>5. CASE StartConnect
  <2>1. functors' \in Seq(Functors)
    BY <1>5, PostType, FunctorType DEF StartConnect, TypeOK
  <2> QED
    BY <1>5, <2>1 DEF StartConnect, OwnerGoes, OwnerPC, TypeOK
<1>6. CASE StopStep
  <2>1. CASE StopSwap \/ StopQuit \/ Join
    <3>1. CASE StopSwap
      BY <3>1 DEF StopSwap, OwnerGoes, OwnerPC, TypeOK
    <3>2. CASE StopQuit
      BY <3>2 DEF StopQuit, OwnerGoes, OwnerPC, TypeOK
    <3>3. CASE Join
      BY <3>3 DEF Join, OwnerGoes, OwnerPC, TypeOK
    <3> QED BY <2>1, <3>1, <3>2, <3>3
  <2>2. CASE StopDrop
    <3>1. functors' \in Seq(Functors)
      BY <2>2, PostType, FunctorType DEF StopDrop, TypeOK
    <3>2. results' \in [Calls -> Seq(Codes)]
      BY <2>2, <1>a, AnswerType DEF StopDrop, TypeOK
    <3> QED
      BY <2>2, <3>1, <3>2 DEF StopDrop, OwnerPC, TypeOK
  <2>3. CASE StopDisconnect \/ StopFinal
    <3>1. functors' \in Seq(Functors)
      BY <2>3, PostType, FunctorType DEF StopDisconnect, StopFinal, TypeOK
    <3> QED
      BY <2>3, <3>1 DEF StopDisconnect, StopFinal, OwnerGoes, OwnerPC, TypeOK
  <2> QED
    BY <1>6, <2>1, <2>2, <2>3 DEF StopStep
<1>7. CASE Peer
  <2>1. CASE PeerAccepts \/ PeerRefuses \/ PeerCloses \/ PeerResets
    BY <2>1 DEF PeerAccepts, PeerRefuses, PeerCloses, PeerResets, PeerGoes, TypeOK
  <2>2. ASSUME NEW frame \in Calls \cup {Corrupt}, PeerSends(frame), wire' \subseteq wire
        PROVE  TypeOK'
    <3>1. inbox' \in Seq(Calls \cup {Corrupt})
      BY <2>2 DEF PeerSends, TypeOK
    <3> QED
      BY <2>2, <3>1 DEF PeerSends, TypeOK
  <2>3. CASE PeerGarbles
    BY <2>2, <2>3 DEF PeerGarbles
  <2>4. ASSUME NEW c \in Calls, PeerAnswers(c)
        PROVE  TypeOK'
    BY <2>2, <2>4 DEF PeerAnswers
  <2> QED
    BY <1>7, <2>1, <2>3, <2>4 DEF Peer
<1>8. CASE UNCHANGED vars
  BY <1>8 DEF vars, TypeOK
<1> QED
  BY <1>1, <1>2, <1>3, <1>4, <1>5, <1>6, <1>7, <1>8 DEF Next
\* What the client does is typed.
THEOREM TypeCorrect == Safety => []TypeOK
<1>1. Init => TypeOK
  <2> SUFFICES ASSUME Init
               PROVE  TypeOK
    OBVIOUS
  <2>1. stopped \in BOOLEAN /\ connected \in BOOLEAN /\ quit \in BOOLEAN
    BY DEF Init
  <2>2. /\ timers \in [TimerIds -> Calls \cup {NoCall}]
        /\ cpc \in [Calls -> CallPC]
        /\ results \in [Calls -> Seq(Codes)]
    BY DEF Init, CallPC
  <2> QED
    BY <2>1, <2>2 DEF Init, TypeOK, LoopPC, OwnerPC
<1> QED
  BY <1>1, TypeStep, PTL DEF Safety

-----------------------------------------------------------------------------
\* A step of a call's thread moves that call only.
LEMMA ThreadStep ==
    ASSUME TypeOK, NEW c \in Calls, NEW pc \in CallPC, cpc' = [cpc EXCEPT ![c] = pc]
    PROVE  /\ TakenBack' = IF pc = "failed" THEN TakenBack \cup {c} ELSE TakenBack \ {c}
           /\ cpc'[c] = pc
           /\ \A d \in Calls \ {c} : cpc'[d] = cpc[d]
<1>1. /\ cpc'[c] = pc
      /\ \A d \in Calls \ {c} : cpc'[d] = cpc[d]
  BY DEF TypeOK
<1> QED
  BY <1>1 DEF TakenBack

\* A step that touches no call and no map keeps Hands if it keeps the facts
\* about the program counters.
LEMMA NoHandMoves ==
    ASSUME Hands, MapFacts', StopFacts',
           UNCHANGED <<pending, holder, tmpLoop, tmpStop, cpc, results, accepted>>
    PROVE  Hands'
BY DEF Hands, AtMostOnce, HandsDisjoint, GateFacts, TakenBack, Answered

\* CallRaw, from its gate to the request written.
LEMMA CallKeepsHands ==
    ASSUME TypeOK, Hands, NEW c \in Calls, CallEnter(c) \/ CallStep(c)
    PROVE  Hands'
<1> USE ClientAssumption DEF Hands
<1> USE DEF clientVars, loopVars, queueVars, netVars, ownerVars, history
<1>1. CASE CallEnter(c)
  <2>1. /\ UNCHANGED <<stopped, pending, tmpLoop, tmpStop, accepted, lpc, spc>>
        /\ UNCHANGED <<retCb, retDrop, retClose>>
        /\ cpc[c] = "new" /\ holder = NoCall
    BY <1>1 DEF CallEnter, MutexFree
  <2>2. c \notin accepted /\ c \notin Answered /\ c \notin TakenBack
    BY <2>1 DEF GateFacts, TakenBack
  <2>3. CASE stopped
    <3>1. /\ cpc' = [cpc EXCEPT ![c] = "end"]
          /\ holder' = holder
          /\ Answer(c, "not_running")
      BY <1>1, <2>3 DEF CallEnter
    <3>2. AtMostOnce' /\ Answered' = Answered \cup {c}
      BY <3>1, <2>2, AnswerOnce DEF TypeOK, Codes
    <3>3. /\ TakenBack' = TakenBack
          /\ cpc'[c] = "end"
          /\ \A d \in Calls \ {c} : cpc'[d] = cpc[d]
      BY <2>1, <2>2, <3>1, ThreadStep DEF CallPC, TakenBack
    <3>4. HandsDisjoint'
      BY <2>1, <2>2, <3>2, <3>3 DEF HandsDisjoint
    <3>5. GateFacts'
      BY <2>1, <3>1, <3>2, <3>3 DEF GateFacts
    <3> QED
      BY <2>1, <3>1, <3>2, <3>4, <3>5 DEF MapFacts, StopFacts, closed
  <2>4. CASE ~stopped
    <3>1. /\ cpc' = [cpc EXCEPT ![c] = "gate"]
          /\ holder' = c
          /\ results' = results
      BY <1>1, <2>4 DEF CallEnter, GateHolder
    <3>2. AtMostOnce' /\ Answered' = Answered
      BY <3>1 DEF AtMostOnce, Answered
    <3>3. /\ TakenBack' = TakenBack
          /\ cpc'[c] = "gate"
          /\ \A d \in Calls \ {c} : cpc'[d] = cpc[d]
      BY <2>1, <2>2, <3>1, ThreadStep DEF CallPC, TakenBack
    <3>4. HandsDisjoint'
      BY <2>1, <3>2, <3>3 DEF HandsDisjoint
    <3>5. GateFacts'
      BY <2>1, <2>2, <3>1, <3>2, <3>3 DEF GateFacts
    <3>6. StopFacts'
      BY <2>1, <2>4 DEF StopFacts, closed
    <3> QED
      BY <2>1, <3>2, <3>4, <3>5, <3>6 DEF MapFacts
  <2> QED
    BY <2>3, <2>4
<1>2. CASE CallGate(c)
  <2>1. /\ UNCHANGED <<stopped, tmpLoop, tmpStop, lpc, spc, retCb, retDrop, retClose>>
        /\ cpc[c] = "gate" /\ holder = c /\ holder' = NoCall
    BY <1>2 DEF CallGate, GateFacts
  <2>2. c \notin accepted /\ c \notin Answered /\ c \notin TakenBack
    BY <2>1 DEF GateFacts, TakenBack
  <2>3. ~closed
    BY <2>1 DEF StopFacts
  <2>4. CASE ~connected
    <3>1. /\ cpc' = [cpc EXCEPT ![c] = "end"]
          /\ Answer(c, "not_running")
          /\ pending' = pending /\ accepted' = accepted
      BY <1>2, <2>4 DEF CallGate
    <3>2. AtMostOnce' /\ Answered' = Answered \cup {c}
      BY <3>1, <2>2, AnswerOnce DEF TypeOK, Codes
    <3>3. /\ TakenBack' = TakenBack
          /\ cpc'[c] = "end"
          /\ \A d \in Calls \ {c} : cpc'[d] = cpc[d]
      BY <2>1, <2>2, <3>1, ThreadStep DEF CallPC, TakenBack
    <3>4. HandsDisjoint'
      BY <2>1, <2>2, <3>1, <3>2, <3>3 DEF HandsDisjoint
    <3>5. GateFacts'
      BY <2>1, <3>1, <3>2, <3>3 DEF GateFacts
    <3> QED
      BY <2>1, <2>3, <3>2, <3>4, <3>5 DEF MapFacts, StopFacts, closed
  <2>5. CASE connected
    <3>1. /\ cpc' = [cpc EXCEPT ![c] = "timer"]
          /\ pending' = pending \cup {c} /\ accepted' = accepted \cup {c}
          /\ results' = results
      BY <1>2, <2>5 DEF CallGate
    <3>2. AtMostOnce' /\ Answered' = Answered
      BY <3>1 DEF AtMostOnce, Answered
    <3>3. /\ TakenBack' = TakenBack
          /\ cpc'[c] = "timer"
          /\ \A d \in Calls \ {c} : cpc'[d] = cpc[d]
      BY <2>1, <2>2, <3>1, ThreadStep DEF CallPC, TakenBack
    <3>4. HandsDisjoint'
      BY <2>1, <2>2, <3>1, <3>2, <3>3 DEF HandsDisjoint
    <3>5. GateFacts'
      BY <2>1, <3>1, <3>2, <3>3 DEF GateFacts
    <3> QED
      BY <2>1, <2>3, <3>2, <3>4, <3>5 DEF MapFacts, StopFacts, closed
  <2> QED
    BY <2>4, <2>5
<1>3. CASE CallAddTimer(c) \/ CallSend(c) \/ CallDeref(c)
  <2>1. /\ UNCHANGED <<stopped, pending, holder, tmpLoop, tmpStop, accepted, results>>
        /\ UNCHANGED <<lpc, spc, retCb, retDrop, retClose>>
        /\ cpc[c] \in {"timer", "encode", "deref"}
        /\ \E pc \in {"encode", "deref", "end", "crashed"} : cpc' = [cpc EXCEPT ![c] = pc]
    BY <1>3 DEF CallAddTimer, CallSend, CallDeref
  <2>2. PICK pc \in {"encode", "deref", "end", "crashed"} : cpc' = [cpc EXCEPT ![c] = pc]
    BY <2>1
  <2>3. /\ TakenBack' = TakenBack
        /\ cpc'[c] = pc
        /\ \A d \in Calls \ {c} : cpc'[d] = cpc[d]
    BY <2>1, <2>2, ThreadStep DEF CallPC, TakenBack
  <2>4. AtMostOnce' /\ Answered' = Answered
    BY <2>1 DEF AtMostOnce, Answered
  <2>5. HandsDisjoint'
    BY <2>1, <2>3, <2>4 DEF HandsDisjoint
  <2>6. GateFacts'
    BY <2>1, <2>3, <2>4 DEF GateFacts
  <2> QED
    BY <2>1, <2>4, <2>5, <2>6 DEF MapFacts, StopFacts, closed
<1>4. CASE EncodeFails(c)
  <2>1. /\ UNCHANGED <<stopped, holder, tmpLoop, tmpStop, accepted, results>>
        /\ UNCHANGED <<lpc, spc, retCb, retDrop, retClose>>
        /\ cpc[c] = "encode"
        /\ pending' = pending \ {c}
        /\ cpc' = [cpc EXCEPT ![c] = IF c \in pending THEN "failed" ELSE "late"]
    BY <1>4 DEF EncodeFails, Taken
  <2>2. /\ TakenBack' = IF c \in pending THEN TakenBack \cup {c} ELSE TakenBack
        /\ cpc'[c] \in {"failed", "late"}
        /\ \A d \in Calls \ {c} : cpc'[d] = cpc[d]
    BY <2>1, ThreadStep DEF CallPC, TakenBack
  <2>3. AtMostOnce' /\ Answered' = Answered
    BY <2>1 DEF AtMostOnce, Answered
  <2>4. HandsDisjoint'
    BY <2>1, <2>2, <2>3 DEF HandsDisjoint
  <2>5. GateFacts'
    BY <2>1, <2>2, <2>3 DEF GateFacts
  <2> QED
    BY <2>1, <2>3, <2>4, <2>5 DEF MapFacts, StopFacts, closed
<1>5. CASE AnswerEncodeFailed(c)
  <2>1. /\ UNCHANGED <<stopped, pending, holder, tmpLoop, tmpStop, accepted>>
        /\ UNCHANGED <<lpc, spc, retCb, retDrop, retClose>>
        /\ cpc[c] \in {"failed", "late"}
        /\ cpc' = [cpc EXCEPT ![c] = "end"]
    BY <1>5 DEF AnswerEncodeFailed
  <2>2. /\ TakenBack' = TakenBack \ {c}
        /\ cpc'[c] = "end"
        /\ \A d \in Calls \ {c} : cpc'[d] = cpc[d]
    BY <2>1, ThreadStep DEF CallPC
  <2>3. CASE cpc[c] = "failed"
    <3>1. c \in TakenBack /\ c \notin Answered /\ c \in accepted
      BY <2>3 DEF TakenBack, HandsDisjoint
    <3>2. AtMostOnce' /\ Answered' = Answered \cup {c}
      BY <1>5, <2>3, <3>1, AnswerOnce DEF AnswerEncodeFailed, TypeOK, Codes
    <3>3. HandsDisjoint'
      BY <2>1, <2>2, <3>1, <3>2 DEF HandsDisjoint
    <3>4. GateFacts'
      BY <2>1, <2>2, <3>2 DEF GateFacts
    <3> QED
      BY <2>1, <3>2, <3>3, <3>4 DEF MapFacts, StopFacts, closed
  <2>4. CASE cpc[c] = "late"
    <3>1. results' = results /\ c \notin TakenBack
      BY <1>5, <2>4 DEF AnswerEncodeFailed, TakenBack
    <3>2. AtMostOnce' /\ Answered' = Answered
      BY <3>1 DEF AtMostOnce, Answered
    <3>3. HandsDisjoint'
      BY <2>1, <2>2, <3>1, <3>2 DEF HandsDisjoint
    <3>4. GateFacts'
      BY <2>1, <2>2, <3>2 DEF GateFacts
    <3> QED
      BY <2>1, <3>2, <3>3, <3>4 DEF MapFacts, StopFacts, closed
  <2> QED
    BY <2>1, <2>3, <2>4
<1> QED
  BY <1>1, <1>2, <1>3, <1>4, <1>5 DEF CallStep
\* A callback taken from pending_calls_, by a response or by a timeout.
LEMMA TakeKeepsHands ==
    ASSUME TypeOK, Hands, NEW c \in pending, NEW code \in Codes, Answer(c, code),
           pending' = Taken(c), MapFacts', StopFacts',
           UNCHANGED <<holder, tmpLoop, tmpStop, cpc, accepted>>
    PROVE  Hands'
<1> USE DEF Hands
<1>1. c \in Calls /\ c \in accepted /\ c \notin Answered
  BY DEF HandsDisjoint, TypeOK
<1>2. AtMostOnce' /\ Answered' = Answered \cup {c}
  BY <1>1, AnswerOnce DEF TypeOK
<1>3. TakenBack' = TakenBack
  BY DEF TakenBack
<1>4. HandsDisjoint'
  BY <1>1, <1>2, <1>3 DEF HandsDisjoint, Taken
<1>5. GateFacts'
  BY <1>1, <1>2 DEF GateFacts
<1> QED
  BY <1>2, <1>4, <1>5

\* The loop thread.
LEMMA LoopKeepsHands ==
    ASSUME TypeOK, Hands, LoopStep
    PROVE  Hands'
<1> USE DEF clientVars, loopVars, queueVars, netVars, ownerVars, history
<1>a. ASSUME UNCHANGED <<stopped, holder, spc>>, pending' \subseteq pending,
             lpc \notin {"off", "exited"}, lpc' # "off",
             retCb' # "off", retDrop' # "off", retClose' # "off"
      PROVE  StopFacts'
  BY <1>a DEF Hands, StopFacts, closed
<1>b. ASSUME UNCHANGED <<tmpLoop, tmpStop, spc>>, lpc \notin {"drop", "callback"}
      PROVE  MapFacts'
  BY <1>b DEF Hands, MapFacts
<1>c. retCb # "off" /\ retDrop # "off" /\ retClose # "off"
  BY DEF Hands, StopFacts
<1>1. CASE Begin \/ Test \/ NoEvent \/ ConnectSucceeds \/ FramesDone \/ Notify
           \/ CloseCallback \/ ResetConnection \/ RunDone \/ SwapFunctors
  <2>1. /\ UNCHANGED <<stopped, pending, holder, tmpLoop, tmpStop, cpc, spc, results, accepted>>
        /\ UNCHANGED <<retCb, retDrop, retClose>>
        /\ lpc \notin {"off", "exited", "drop", "callback"}
        /\ lpc' # "off"
    BY <1>1, <1>c DEF Begin, Test, NoEvent, ConnectSucceeds, FramesDone, Notify, CloseCallback,
                      ResetConnection, RunDone, SwapFunctors
  <2> QED
    BY <2>1, <1>a, <1>b, <1>c, NoHandMoves
<1>2. CASE ConnectFails \/ ReadFails \/ CloseEvent \/ CorruptFrame \/ ReadEvent \/ RunConnect \/ RunDisconnect
           \/ RunTimerFunctor \/ RunSend
  <2>1. /\ UNCHANGED <<stopped, pending, holder, tmpLoop, tmpStop, cpc, spc, results, accepted>>
        /\ lpc \notin {"off", "exited", "drop", "callback"}
        /\ lpc' # "off" /\ retCb' # "off" /\ retDrop' # "off" /\ retClose' # "off"
    BY <1>2, <1>c DEF ConnectFails, ReadFails, CloseEvent, CorruptFrame, ReadEvent, HandleClose, RunConnect,
                      RunDisconnect, RunTimerFunctor, RunSend, Runs
  <2> QED
    BY <2>1, <1>a, <1>b, NoHandMoves
<1>3. ASSUME NEW c \in Calls, ResponseFrame(c)
      PROVE  Hands'
  <2>1. /\ UNCHANGED <<stopped, holder, tmpLoop, tmpStop, cpc, spc, accepted>>
        /\ UNCHANGED <<retDrop, retClose>>
        /\ lpc = "frames"
    BY <1>3 DEF ResponseFrame
  <2>2. CASE c \in pending
    <3>1. /\ pending' = Taken(c) /\ Answer(c, "response")
          /\ lpc' = "callback" /\ retCb' = "frames"
      BY <1>3, <2>2 DEF ResponseFrame
    <3>2. MapFacts' /\ StopFacts'
      BY <2>1, <3>1, <1>a, <1>b, <1>c DEF Taken
    <3> QED
      BY <2>1, <2>2, <3>1, <3>2, TakeKeepsHands DEF Codes
  <2>3. CASE c \notin pending
    <3>1. UNCHANGED <<pending, results, lpc, retCb>>
      BY <1>3, <2>3 DEF ResponseFrame
    <3> QED
      BY <2>1, <3>1, <1>a, <1>b, <1>c, NoHandMoves
  <2> QED
    BY <2>2, <2>3
<1>4. ASSUME NEW i \in TimerIds, FireTimer(i)
      PROVE  Hands'
  <2>1. /\ UNCHANGED <<stopped, holder, tmpLoop, tmpStop, cpc, spc, accepted>>
        /\ UNCHANGED <<retDrop, retClose>>
        /\ lpc = "tick"
    BY <1>4 DEF FireTimer
  <2>2. CASE timers[i] \in pending
    <3>1. /\ pending' = Taken(timers[i]) /\ Answer(timers[i], "timeout")
          /\ lpc' = "callback" /\ retCb' = "tick"
      BY <1>4, <2>2 DEF FireTimer
    <3>2. MapFacts' /\ StopFacts'
      BY <2>1, <3>1, <1>a, <1>b, <1>c DEF Taken
    <3> QED
      BY <2>1, <2>2, <3>1, <3>2, TakeKeepsHands DEF Codes
  <2>3. CASE timers[i] \notin pending
    <3>1. UNCHANGED <<pending, results, lpc, retCb>>
      BY <1>4, <2>3 DEF FireTimer
    <3> QED
      BY <2>1, <3>1, <1>a, <1>b, <1>c, NoHandMoves
  <2> QED
    BY <2>2, <2>3
<1>5. CASE CallbackReturns
  <2>1. /\ UNCHANGED <<stopped, pending, holder, tmpLoop, tmpStop, cpc, spc, results, accepted>>
        /\ UNCHANGED <<retCb, retDrop, retClose>>
        /\ lpc = "callback" /\ lpc' = retCb
    BY <1>5 DEF CallbackReturns
  <2>2. MapFacts'
    BY <2>1 DEF Hands, MapFacts
  <2> QED
    BY <2>1, <2>2, <1>a, <1>c, NoHandMoves
<1>6. CASE LoopSwap
  <2>1. /\ UNCHANGED <<stopped, holder, tmpStop, cpc, spc, results, accepted>>
        /\ UNCHANGED <<retCb, retDrop, retClose>>
        /\ lpc = "swap" /\ lpc' = "drop"
        /\ tmpLoop' = pending /\ pending' = {}
    BY <1>6 DEF LoopSwap
  <2>2. tmpLoop = {}
    BY <2>1 DEF Hands, MapFacts
  <2>3. AtMostOnce' /\ Answered' = Answered /\ TakenBack' = TakenBack
    BY <2>1 DEF Hands, AtMostOnce, Answered, TakenBack
  <2>4. HandsDisjoint'
    BY <2>1, <2>2, <2>3 DEF Hands, HandsDisjoint
  <2>5. GateFacts'
    BY <2>1, <2>3 DEF Hands, GateFacts
  <2>6. MapFacts' /\ StopFacts'
    BY <2>1, <1>a, <1>c DEF Hands, MapFacts
  <2> QED
    BY <2>3, <2>4, <2>5, <2>6 DEF Hands
<1>7. CASE LoopDrop
  <2>1. /\ UNCHANGED <<stopped, pending, holder, tmpStop, cpc, spc, accepted>>
        /\ UNCHANGED <<retDrop, retClose>>
        /\ lpc = "drop"
    BY <1>7 DEF LoopDrop
  <2>2. CASE tmpLoop = {}
    <3>1. lpc' = retDrop /\ UNCHANGED <<tmpLoop, retCb, results>>
      BY <1>7, <2>2 DEF LoopDrop
    <3>2. MapFacts'
      BY <2>1, <2>2, <3>1 DEF Hands, MapFacts
    <3> QED
      BY <2>1, <3>1, <3>2, <1>a, <1>c, NoHandMoves
  <2>3. CASE tmpLoop # {}
    <3>1. PICK c \in tmpLoop :
             /\ tmpLoop' = tmpLoop \ {c}
             /\ \E code \in Codes : Answer(c, code)
             /\ lpc' = "callback"
             /\ retCb' = "drop"
      BY <1>7, <2>3 DEF LoopDrop, Codes
    <3>2. c \in Calls /\ c \in accepted /\ c \notin Answered
      BY DEF Hands, HandsDisjoint, TypeOK
    <3>3. AtMostOnce' /\ Answered' = Answered \cup {c}
      BY <3>1, <3>2, AnswerOnce DEF Hands, TypeOK
    <3>4. TakenBack' = TakenBack
      BY <2>1 DEF TakenBack
    <3>5. HandsDisjoint'
      BY <2>1, <3>1, <3>2, <3>3, <3>4 DEF Hands, HandsDisjoint
    <3>6. GateFacts'
      BY <2>1, <3>2, <3>3 DEF Hands, GateFacts
    <3>7. MapFacts' /\ StopFacts'
      BY <2>1, <3>1, <1>a, <1>c DEF Hands, MapFacts
    <3> QED
      BY <3>3, <3>5, <3>6, <3>7 DEF Hands
  <2> QED
    BY <2>2, <2>3
<1> QED
  BY <1>1, <1>2, <1>3, <1>4, <1>5, <1>6, <1>7 DEF LoopStep

\* The owner.
LEMMA OwnerKeepsHands ==
    ASSUME TypeOK, Hands, Start \/ StartConnect \/ Stop \/ StopStep
    PROVE  Hands'
<1> USE DEF clientVars, loopVars, queueVars, netVars, ownerVars, history, OwnerGoes
<1>1. CASE Start \/ StartConnect \/ Stop \/ StopDisconnect \/ StopQuit \/ Join \/ StopFinal
  <2>1. UNCHANGED <<pending, holder, tmpLoop, tmpStop, cpc, results, accepted>>
    BY <1>1 DEF Start, StartConnect, Stop, StopDisconnect, StopQuit, Join, StopFinal
  <2>2. MapFacts'
    BY <1>1 DEF Hands, MapFacts, StopFacts, Start, StartConnect, Stop, StopDisconnect, StopQuit,
                Join, StopFinal
  <2>3. StopFacts'
    <3>1. CASE Start \/ StartConnect
      BY <3>1 DEF Hands, StopFacts, closed, Start, StartConnect
    <3>2. CASE Stop
      BY <3>2 DEF Hands, StopFacts, closed, Stop
    <3>3. CASE StopDisconnect \/ StopQuit \/ Join \/ StopFinal
      BY <3>3 DEF Hands, StopFacts, closed, StopDisconnect, StopQuit, Join, StopFinal,
                  LoopThreadEnded
    <3> QED
      BY <1>1, <3>1, <3>2, <3>3
  <2> QED
    BY <2>1, <2>2, <2>3, NoHandMoves
<1>2. CASE StopSwap
  <2>1. /\ UNCHANGED <<stopped, holder, tmpLoop, lpc, retCb, retDrop, retClose>>
        /\ UNCHANGED <<cpc, results, accepted>>
        /\ spc = "swap" /\ spc' = "drop" /\ holder = NoCall
        /\ tmpStop' = pending /\ pending' = {}
    BY <1>2 DEF StopSwap, MutexFree
  <2>2. tmpStop = {}
    BY <2>1 DEF Hands, MapFacts
  <2>3. AtMostOnce' /\ Answered' = Answered /\ TakenBack' = TakenBack
    BY <2>1 DEF Hands, AtMostOnce, Answered, TakenBack
  <2>4. HandsDisjoint'
    BY <2>1, <2>2, <2>3 DEF Hands, HandsDisjoint
  <2>5. GateFacts'
    BY <2>1, <2>3 DEF Hands, GateFacts
  <2>6. MapFacts' /\ StopFacts'
    BY <2>1 DEF Hands, MapFacts, StopFacts, closed
  <2> QED
    BY <2>3, <2>4, <2>5, <2>6 DEF Hands
<1>3. CASE StopDrop
  <2>1. /\ UNCHANGED <<stopped, pending, holder, tmpLoop, lpc, retCb, retDrop, retClose>>
        /\ UNCHANGED <<cpc, accepted>>
        /\ spc = "drop"
    BY <1>3 DEF StopDrop
  <2>2. CASE tmpStop = {}
    <3>1. spc' = "disconnect" /\ UNCHANGED <<tmpStop, results>>
      BY <1>3, <2>2 DEF StopDrop
    <3>2. MapFacts' /\ StopFacts'
      BY <2>1, <2>2, <3>1 DEF Hands, MapFacts, StopFacts, closed
    <3> QED
      BY <2>1, <3>1, <3>2, NoHandMoves
  <2>3. CASE tmpStop # {}
    <3>1. PICK c \in tmpStop :
             /\ tmpStop' = tmpStop \ {c}
             /\ Answer(c, "not_running")
             /\ spc' = spc
      BY <1>3, <2>3 DEF StopDrop
    <3>2. c \in Calls /\ c \in accepted /\ c \notin Answered
      BY DEF Hands, HandsDisjoint, TypeOK
    <3>3. AtMostOnce' /\ Answered' = Answered \cup {c}
      BY <3>1, <3>2, AnswerOnce DEF Hands, TypeOK, Codes
    <3>4. TakenBack' = TakenBack
      BY <2>1 DEF TakenBack
    <3>5. HandsDisjoint'
      BY <2>1, <3>1, <3>2, <3>3, <3>4 DEF Hands, HandsDisjoint
    <3>6. GateFacts'
      BY <2>1, <3>2, <3>3 DEF Hands, GateFacts
    <3>7. MapFacts' /\ StopFacts'
      BY <2>1, <3>1 DEF Hands, MapFacts, StopFacts, closed
    <3> QED
      BY <3>3, <3>5, <3>6, <3>7 DEF Hands
  <2> QED
    BY <2>2, <2>3
<1> QED
  BY <1>1, <1>2, <1>3 DEF StopStep

\* The peer and the network.
LEMMA PeerKeepsHands ==
    ASSUME Hands, Peer
    PROVE  Hands'
<1>1. UNCHANGED <<clientVars, loopVars, cpc, ownerVars, history>>
  BY DEF Peer, PeerAccepts, PeerRefuses, PeerCloses, PeerResets, PeerGoes, PeerGarbles,
         PeerAnswers, PeerSends
<1>2. MapFacts' /\ StopFacts'
  BY <1>1 DEF clientVars, loopVars, ownerVars, Hands, MapFacts, StopFacts, closed
<1> QED
  BY <1>1, <1>2, NoHandMoves DEF clientVars, loopVars, ownerVars, history

-----------------------------------------------------------------------------
\* Whichever of the response, the timeout, the disconnect, the failed encode and
\* Stop reach a call first, its callback is in one place, and is invoked from
\* there once.
THEOREM HandsInvariant == Safety => [](TypeOK /\ Hands)
<1>1. Init => Hands
  <2> SUFFICES ASSUME Init
               PROVE  Hands
    OBVIOUS
  <2>1. AtMostOnce /\ Answered = {} /\ TakenBack = {}
    BY DEF Init, AtMostOnce, Answered, TakenBack
  <2>2. HandsDisjoint
    BY <2>1 DEF Init, HandsDisjoint
  <2>3. GateFacts
    BY <2>1, ClientAssumption DEF Init, GateFacts
  <2>4. MapFacts /\ StopFacts
    BY DEF Init, MapFacts, StopFacts, closed
  <2> QED
    BY <2>1, <2>2, <2>3, <2>4 DEF Hands
<1>2. TypeOK /\ Hands /\ [Next]_vars => Hands'
  <2> SUFFICES ASSUME TypeOK, Hands, [Next]_vars
               PROVE  Hands'
    OBVIOUS
  <2>1. ASSUME NEW c \in Calls, CallEnter(c) \/ CallStep(c)
        PROVE  Hands'
    BY <2>1, CallKeepsHands
  <2>2. CASE LoopStep
    BY <2>2, LoopKeepsHands
  <2>3. CASE Start \/ StartConnect \/ Stop \/ StopStep
    BY <2>3, OwnerKeepsHands
  <2>4. CASE Peer
    BY <2>4, PeerKeepsHands
  <2>5. CASE UNCHANGED vars
    <3>1. UNCHANGED <<clientVars, loopVars, cpc, ownerVars, history>>
      BY <2>5 DEF vars
    <3>2. MapFacts' /\ StopFacts'
      BY <3>1 DEF clientVars, loopVars, ownerVars, Hands, MapFacts, StopFacts, closed
    <3> QED
      BY <3>1, <3>2, NoHandMoves DEF clientVars, loopVars, ownerVars, history
  <2> QED
    BY <2>1, <2>2, <2>3, <2>4, <2>5 DEF Next
<1> QED
  BY <1>1, <1>2, TypeCorrect, PTL DEF Safety

\* No callback is invoked twice (the three take-outs under pending_mutex_ and the
\* two swaps exclude each other).
THEOREM NeverAnsweredTwice == Safety => []AtMostOnce
BY HandsInvariant, PTL DEF Hands

\* An accepted call without an answer is held by pending_calls_, by the local map
\* of one DropAllPending or by its own thread, and by one of them only.
THEOREM OneHolder == Safety => []HeldOnce
<1>1. TypeOK /\ Hands => HeldOnce
  BY DEF Hands, HandsDisjoint, HeldOnce
<1> QED
  BY <1>1, HandsInvariant, PTL

\* After the swap in Stop no call enters pending_calls_: both tests of CallRaw are
\* made under the mutex the swap takes.
THEOREM StopIsFinal == Safety => []StopClosesGate
<1>1. TypeOK /\ Hands => StopClosesGate
  BY DEF Hands, StopFacts, StopClosesGate, closed
<1> QED
  BY <1>1, HandsInvariant, PTL

\* Once Stop has joined the loop thread, only a call whose own thread holds its
\* callback is still open.
THEOREM NothingLeftAfterStop == Safety => []StopLeavesNoCallback
<1>1. TypeOK /\ Hands => StopLeavesNoCallback
  <2> SUFFICES ASSUME Hands, spc \in {"final", "stopped"}
               PROVE  accepted \subseteq Answered \cup TakenBack
    BY DEF StopLeavesNoCallback
  <2>1. pending = {} /\ lpc \in {"off", "exited"}
    BY DEF Hands, StopFacts, closed
  <2>2. tmpLoop = {} /\ tmpStop = {}
    BY <2>1 DEF Hands, MapFacts
  <2> QED
    BY <2>1, <2>2 DEF Hands, HandsDisjoint
<1> QED
  BY <1>1, HandsInvariant, PTL

-----------------------------------------------------------------------------
\* The status of a call is changed by its acceptance and by its answer.
LEMMA StatusStays ==
    ASSUME UNCHANGED <<results, accepted>>
    PROVE  UNCHANGED status
BY DEF status, Answered

LEMMA StatusAnswered ==
    ASSUME TypeOK, AtMostOnce, NEW c \in Calls, c \notin Answered,
           NEW code \in Codes, Answer(c, code), UNCHANGED <<accepted, closed>>
    PROVE  Contract!Next
<1>1. Answered' = Answered \cup {c}
  BY AnswerOnce DEF TypeOK
<1>2. status' = [status EXCEPT ![c] = "answered"]
  BY <1>1 DEF status
<1>3. status[c] = IF c \in accepted THEN "waiting" ELSE "new"
  BY DEF status
<1>4. Contract!Refuse(c) \/ Contract!Answer(c)
  BY <1>2, <1>3 DEF Contract!Refuse, Contract!Answer
<1> QED
  BY <1>4 DEF Contract!Next

\* Every step of the client is a step of the contract, or none.
LEMMA ContractStep == TypeOK /\ Hands /\ [Next]_vars => [Contract!Next]_(Contract!ccvars)
<1> SUFFICES ASSUME TypeOK, Hands, [Next]_vars
             PROVE  Contract!Next \/ UNCHANGED <<status, closed>>
  BY DEF Contract!ccvars
<1> USE DEF clientVars, loopVars, queueVars, netVars, ownerVars, history
<1>a. AtMostOnce
  BY DEF Hands
<1>b. \A code \in {"not_running", "encode_failed", "timeout", "disconnected",
                   "network_error", "response"} : code \in Codes
  BY DEF Codes
<1>c. \A c \in pending \cup tmpLoop \cup tmpStop \cup TakenBack : c \in Calls /\ c \notin Answered
  BY DEF Hands, HandsDisjoint, TypeOK
<1>1. ASSUME NEW c \in Calls, CallEnter(c)
      PROVE  Contract!Next \/ UNCHANGED <<status, closed>>
  <2>1. UNCHANGED <<accepted, closed>> /\ c \notin Answered
    BY <1>1 DEF CallEnter, closed, Hands, GateFacts
  <2>2. CASE stopped
    BY <1>1, <2>1, <2>2, <1>a, <1>b, StatusAnswered DEF CallEnter
  <2>3. CASE ~stopped
    BY <1>1, <2>1, <2>3, StatusStays DEF CallEnter
  <2> QED
    BY <2>2, <2>3
<1>2. ASSUME NEW c \in Calls, CallGate(c)
      PROVE  Contract!Next \/ UNCHANGED <<status, closed>>
  <2>1. /\ UNCHANGED closed
        /\ c \notin Answered /\ c \notin accepted /\ holder = c
    BY <1>2 DEF CallGate, closed, Hands, GateFacts
  <2>2. CASE ~connected
    BY <1>2, <2>1, <2>2, <1>a, <1>b, StatusAnswered DEF CallGate
  <2>3. CASE connected
    <3>1. accepted' = accepted \cup {c} /\ results' = results
      BY <1>2, <2>3 DEF CallGate
    <3>2. status[c] = "new" /\ status' = [status EXCEPT ![c] = "waiting"]
      BY <2>1, <3>1 DEF status, Answered
    <3>3. ~closed
      BY <2>1, ClientAssumption DEF Hands, StopFacts
    <3> QED
      BY <2>1, <3>2, <3>3 DEF Contract!Next, Contract!Accept
  <2> QED
    BY <2>2, <2>3
<1>3. ASSUME NEW c \in Calls,
             CallAddTimer(c) \/ EncodeFails(c) \/ CallSend(c) \/ CallDeref(c)
      PROVE  UNCHANGED <<status, closed>>
  <2>1. UNCHANGED <<results, accepted, spc>>
    BY <1>3 DEF CallAddTimer, EncodeFails, CallSend, CallDeref
  <2> QED
    BY <2>1, StatusStays DEF closed
<1>4. ASSUME NEW c \in Calls, AnswerEncodeFailed(c)
      PROVE  Contract!Next \/ UNCHANGED <<status, closed>>
  <2>1. UNCHANGED <<accepted, closed>>
    BY <1>4 DEF AnswerEncodeFailed, closed
  <2>2. CASE cpc[c] = "failed"
    <3>1. c \notin Answered
      BY <2>2, <1>c DEF TakenBack
    <3> QED
      BY <1>4, <2>1, <2>2, <3>1, <1>a, <1>b, StatusAnswered DEF AnswerEncodeFailed
  <2>3. CASE cpc[c] # "failed"
    BY <1>4, <2>1, <2>3, StatusStays DEF AnswerEncodeFailed
  <2> QED
    BY <2>2, <2>3
<1>5. CASE LoopStep
  <2>1. ASSUME NEW c \in Calls, ResponseFrame(c)
        PROVE  Contract!Next \/ UNCHANGED <<status, closed>>
    <3>1. UNCHANGED <<accepted, closed>>
      BY <2>1 DEF ResponseFrame, closed
    <3>2. CASE c \in pending
      BY <2>1, <3>1, <3>2, <1>a, <1>b, <1>c, StatusAnswered DEF ResponseFrame
    <3>3. CASE c \notin pending
      BY <2>1, <3>1, <3>3, StatusStays DEF ResponseFrame
    <3> QED
      BY <3>2, <3>3
  <2>2. ASSUME NEW i \in TimerIds, FireTimer(i)
        PROVE  Contract!Next \/ UNCHANGED <<status, closed>>
    <3>1. UNCHANGED <<accepted, closed>>
      BY <2>2 DEF FireTimer, closed
    <3>2. CASE timers[i] \in pending
      BY <2>2, <3>1, <3>2, <1>a, <1>b, <1>c, StatusAnswered DEF FireTimer
    <3>3. CASE timers[i] \notin pending
      BY <2>2, <3>1, <3>3, StatusStays DEF FireTimer
    <3> QED
      BY <3>2, <3>3
  <2>3. CASE LoopDrop
    <3>1. UNCHANGED <<accepted, closed>>
      BY <2>3 DEF LoopDrop, closed
    <3>2. CASE tmpLoop = {}
      BY <2>3, <3>1, <3>2, StatusStays DEF LoopDrop
    <3>3. CASE tmpLoop # {}
      <4>1. PICK c \in tmpLoop, code \in Codes : Answer(c, code)
        BY <2>3, <3>3, <1>b DEF LoopDrop
      <4> QED
        BY <3>1, <4>1, <1>a, <1>c, StatusAnswered
    <3> QED
      BY <3>2, <3>3
  <2>4. ASSUME UNCHANGED <<results, accepted, spc>>
        PROVE  UNCHANGED <<status, closed>>
    BY <2>4, StatusStays DEF closed
  <2>5. CASE Begin \/ Test \/ NoEvent \/ ConnectSucceeds \/ ConnectFails \/ ReadEvent
             \/ ReadFails \/ CloseEvent \/ FramesDone \/ CorruptFrame \/ CallbackReturns \/ Notify
    BY <2>4, <2>5 DEF Begin, Test, NoEvent, ConnectSucceeds, ConnectFails, ReadEvent, ReadFails, CloseEvent,
                      FramesDone, CorruptFrame, CallbackReturns, Notify
  <2>6. CASE LoopSwap \/ CloseCallback \/ ResetConnection \/ SwapFunctors \/ RunDone
             \/ RunConnect \/ RunDisconnect \/ RunTimerFunctor \/ RunSend
    BY <2>4, <2>6 DEF LoopSwap, CloseCallback, ResetConnection, SwapFunctors, RunDone,
                      RunConnect, RunDisconnect, RunTimerFunctor, RunSend
  <2> QED
    BY <1>5, <2>1, <2>2, <2>3, <2>5, <2>6 DEF LoopStep
<1>6. CASE Start \/ StartConnect \/ Stop \/ StopDisconnect \/ StopQuit \/ Join \/ StopFinal
  <2>1. UNCHANGED <<results, accepted>> /\ UNCHANGED closed
    BY <1>6 DEF Start, StartConnect, Stop, StopDisconnect, StopQuit, Join, StopFinal, OwnerGoes,
                closed
  <2> QED
    BY <2>1, StatusStays
<1>7. CASE StopSwap
  <2>1. UNCHANGED <<results, accepted>> /\ closed'
    BY <1>7 DEF StopSwap, OwnerGoes, closed
  <2> QED
    BY <2>1, StatusStays DEF Contract!Next, Contract!Close
<1>8. CASE StopDrop
  <2>1. UNCHANGED <<accepted, closed>>
    BY <1>8 DEF StopDrop, closed
  <2>2. CASE tmpStop = {}
    BY <1>8, <2>1, <2>2, StatusStays DEF StopDrop
  <2>3. CASE tmpStop # {}
    <3>1. PICK c \in tmpStop : Answer(c, "not_running")
      BY <1>8, <2>3 DEF StopDrop
    <3> QED
      BY <2>1, <3>1, <1>a, <1>b, <1>c, StatusAnswered
  <2> QED
    BY <2>2, <2>3
<1>9. CASE Peer
  <2>1. UNCHANGED <<results, accepted, spc>>
    BY <1>9 DEF Peer, PeerAccepts, PeerRefuses, PeerCloses, PeerResets, PeerGoes, PeerGarbles,
                PeerAnswers, PeerSends
  <2> QED
    BY <2>1, StatusStays DEF closed
<1>10. CASE UNCHANGED vars
  BY <1>10, StatusStays DEF vars, closed
<1> QED
  BY <1>1, <1>2, <1>3, <1>4, <1>5, <1>6, <1>7, <1>8, <1>9, <1>10 DEF Next, CallStep, StopStep

\* The client implements its contract: refused or accepted, answered once, and
\* nothing accepted after Stop has closed it.
THEOREM ImplementsContract == Safety => ContractSafety
<1>1. Init => Contract!Init
  BY DEF Init, Contract!Init, status, closed, Answered
<1> QED
  BY <1>1, ContractStep, HandsInvariant, PTL DEF Safety, ContractSafety, Contract!Safety

\* Every accepted call is in one pair of hands, and answered once.
THEOREM OneHolderAnswersOnce == Safety => []AnsweredByOneHolder
BY NeverAnsweredTwice, OneHolder, PTL DEF AnsweredByOneHolder

\* Stop leaves nothing to answer and nobody who could.
THEOREM StopCleansUp == Safety => []StopIsClean
BY StopIsFinal, NothingLeftAfterStop, PTL DEF StopIsClean

-----------------------------------------------------------------------------
(* What connected_ and connection_ tell.                                   *)

Has(s, op) == \E i \in DOMAIN s : s[i].op = op
Once(s, op) == \A i, j \in DOMAIN s : s[i].op = op /\ s[j].op = op => i = j

\* DropAllPending and the notification it belongs to, on the loop thread.
Notifying == lpc \in {"notify", "swap", "drop"} \/ (lpc = "callback" /\ retCb = "drop")

\* The connect functor of Start is queued once, and finds no connection.
ConnectFacts ==
    /\ spc \in {"new", "spawned"} => ~Has(batch, "connect") /\ ~Has(functors, "connect")
    /\ Has(batch, "connect") => ~Has(functors, "connect")
    /\ Once(batch, "connect") /\ Once(functors, "connect")
    /\ spc \in {"new", "spawned"} \/ Has(batch, "connect") \/ Has(functors, "connect") =>
           link = "null" /\ ~connected

\* connected_ outlives the connection only on the way to the close callback, and
\* functors are left in the batch only when one of them has ended the connection
\* or failed to make it.
CloseFacts ==
    /\ retCb \in {"tick", "frames", "drop"}
    /\ retDrop \in {"tick", "run", "closed"}
    /\ retClose \in {"tick", "reset"}
    /\ connected /\ link # "up" =>
           link = "down" /\ retDrop = "closed" /\ (Notifying \/ lpc = "closed")
    /\ lpc = "reset" => ~connected
    /\ lpc = "frames" \/ (lpc = "callback" /\ retCb = "frames") => link = "up"
    /\ batch # <<>> =>
           \/ lpc \in {"run", "reset"}
           \/ Notifying /\ (retDrop = "run" \/ (retDrop = "closed" /\ retClose = "reset"))
           \/ lpc = "closed" /\ retClose = "reset"

\* Only Stop takes the connection away from under a caller.
TakenByStop ==
    /\ Has(batch, "disconnect") \/ Has(functors, "disconnect") => stopped
    /\ retClose = "reset" \/ lpc = "reset" => stopped
    /\ \A c \in Calls : cpc[c] = "deref" => link \in {"up", "down"} \/ stopped
    /\ \A c \in Calls : cpc[c] = "crashed" => stopped

LinkFacts == ConnectFacts /\ CloseFacts /\ TakenByStop

LEMMA HasAppend ==
    ASSUME NEW s \in Seq(Functors), NEW f \in Functors, NEW op
    PROVE  /\ Has(Append(s, f), op) <=> Has(s, op) \/ f.op = op
           /\ Once(s, op) /\ (f.op = op => ~Has(s, op)) => Once(Append(s, f), op)
<1>1. /\ DOMAIN s = 1 .. Len(s) /\ Len(s) \in Nat
      /\ DOMAIN Append(s, f) = 1 .. Len(s) + 1
      /\ \A i \in 1 .. Len(s) : Append(s, f)[i] = s[i]
      /\ Append(s, f)[Len(s) + 1] = f
  OBVIOUS
<1> DEFINE t == Append(s, f)
<1> HIDE DEF t
<1>2. /\ DOMAIN s = 1 .. Len(s) /\ Len(s) \in Nat /\ DOMAIN t = 1 .. Len(s) + 1
      /\ \A i \in 1 .. Len(s) : t[i] = s[i]
      /\ t[Len(s) + 1] = f
  BY <1>1 DEF t
<1>3. Has(t, op) <=> Has(s, op) \/ f.op = op
  BY <1>2 DEF Has
<1>4. Once(s, op) /\ (f.op = op => ~Has(s, op)) => Once(t, op)
  BY <1>2 DEF Has, Once
<1> QED  BY <1>3, <1>4 DEF t

LEMMA HasTail ==
    ASSUME NEW s \in Seq(Functors), s # <<>>, NEW op
    PROVE  /\ Has(Tail(s), op) => Has(s, op)
           /\ Head(s).op = op => Has(s, op)
           /\ Once(s, op) => Once(Tail(s), op)
           /\ Once(s, op) /\ Head(s).op = op => ~Has(Tail(s), op)
<1> DEFINE t == Tail(s)
<1>1. /\ Len(s) \in Nat \ {0} /\ Len(t) = Len(s) - 1 /\ t \in Seq(Functors)
      /\ \A i \in 1 .. Len(t) : t[i] = s[i + 1]
      /\ Head(s) = s[1]
  BY HeadTailProperties, EmptySeq
<1>2. DOMAIN s = 1 .. Len(s) /\ DOMAIN t = 1 .. Len(t) /\ Len(t) \in Nat
  BY <1>1
<1> HIDE DEF t
<1>3. \A i \in DOMAIN t : i + 1 \in DOMAIN s /\ t[i] = s[i + 1] /\ i + 1 # 1
  BY <1>1, <1>2
<1>4. 1 \in DOMAIN s /\ Head(s) = s[1]
  BY <1>1, <1>2
<1>5. \A i, j \in DOMAIN t : i + 1 = j + 1 => i = j
  BY <1>2
<1>6. Has(t, op) => Has(s, op)
  BY <1>3 DEF Has
<1>7. Head(s).op = op => Has(s, op)
  BY <1>4 DEF Has
<1>8. Once(s, op) => Once(t, op)
  BY <1>3, <1>5 DEF Once
<1>9. Once(s, op) /\ Head(s).op = op => ~Has(t, op)
  BY <1>3, <1>4 DEF Once, Has
<1> QED  BY <1>6, <1>7, <1>8, <1>9 DEF t

LEMMA HasNone == \A op : ~Has(<<>>, op) /\ Once(<<>>, op)
BY DEF Has, Once

\* Who changes the queue.
LEMMA QueueMoves ==
    ASSUME TypeOK, Hands, Next
    PROVE  \/ UNCHANGED <<functors, batch>>
           \/ /\ \E f \in Functors : f.op \in {"addTimer", "removeTimer", "send"} /\ Post(f)
              /\ UNCHANGED <<batch, lpc>>
           \/ StartConnect \/ StopDisconnect \/ StopFinal \/ SwapFunctors
           \/ \E op \in {"addTimer", "removeTimer", "send"} : Runs(op) /\ UNCHANGED <<functors, lpc>>
           \/ RunConnect \/ RunDisconnect
<1> USE DEF clientVars, loopVars, queueVars, netVars, ownerVars, history
<1>0. \A c \in Calls : /\ FAddTimer(c) \in Functors /\ FAddTimer(c).op = "addTimer"
                       /\ FRemoveTimer(c) \in Functors /\ FRemoveTimer(c).op = "removeTimer"
                       /\ FSend(c) \in Functors /\ FSend(c).op = "send"
  BY FunctorType DEF FAddTimer, FRemoveTimer, FSend
<1>1. ASSUME NEW c \in Calls, Post(FAddTimer(c)) \/ Post(FRemoveTimer(c)) \/ Post(FSend(c))
      PROVE  \E f \in Functors : f.op \in {"addTimer", "removeTimer", "send"} /\ Post(f)
  BY <1>0, <1>1
<1>2. ASSUME NEW c \in Calls, CallEnter(c) \/ CallStep(c)
      PROVE  \/ UNCHANGED <<functors, batch>>
             \/ /\ \E f \in Functors : f.op \in {"addTimer", "removeTimer", "send"} /\ Post(f)
                /\ UNCHANGED <<batch, lpc>>
  <2>1. CASE CallEnter(c) \/ CallGate(c) \/ EncodeFails(c) \/ CallSend(c)
    BY <2>1 DEF CallEnter, CallGate, EncodeFails, CallSend
  <2>2. CASE CallAddTimer(c)
    BY <1>1, <2>2 DEF CallAddTimer
  <2>3. CASE AnswerEncodeFailed(c)
    BY <1>1, <2>3 DEF AnswerEncodeFailed
  <2>4. CASE CallDeref(c)
    BY <1>1, <2>4 DEF CallDeref, Post
  <2> QED  BY <1>2, <2>1, <2>2, <2>3, <2>4 DEF CallStep
<1>3. CASE LoopStep
  <2>1. CASE Begin \/ Test \/ NoEvent \/ ConnectSucceeds \/ ConnectFails \/ ReadEvent \/ ReadFails \/ CloseEvent
             \/ FramesDone \/ CorruptFrame \/ (\E c \in Calls : ResponseFrame(c)) \/ CallbackReturns
    BY <2>1 DEF Begin, Test, NoEvent, ConnectSucceeds, ConnectFails, ReadEvent, ReadFails, CloseEvent,
       FramesDone, CorruptFrame, ResponseFrame, CallbackReturns
  <2>2. CASE Notify \/ LoopSwap \/ LoopDrop \/ CloseCallback \/ ResetConnection
             \/ (\E i \in TimerIds : FireTimer(i)) \/ RunDone
    BY <2>2 DEF Notify, LoopSwap, LoopDrop, CloseCallback, ResetConnection, FireTimer, RunDone
  <2>3. CASE RunTimerFunctor \/ RunSend
    BY <2>3 DEF RunTimerFunctor, RunSend
  <2> QED  BY <1>3, <2>1, <2>2, <2>3 DEF LoopStep
<1>4. CASE StopDrop
  <2>1. tmpStop \subseteq Calls
    BY DEF TypeOK
  <2> QED  BY <1>1, <1>4, <2>1 DEF StopDrop
<1>5. CASE Start \/ Stop \/ StopSwap \/ StopQuit \/ Join \/ Peer
  BY <1>5 DEF Start, Stop, StopSwap, StopQuit, Join, Peer, PeerAccepts, PeerRefuses, PeerCloses, PeerResets,
     PeerGoes, PeerGarbles, PeerAnswers, PeerSends
<1> QED  BY <1>2, <1>3, <1>4, <1>5 DEF Next, StopStep

LEMMA LinkMoves ==
    Next => \/ UNCHANGED <<link, connected>>
            \/ ConnectSucceeds \/ ConnectFails \/ ReadFails \/ CloseEvent \/ CorruptFrame \/ CloseCallback \/ ResetConnection
            \/ RunConnect \/ RunDisconnect
BY DEF Next, CallEnter, CallStep, CallGate, CallAddTimer, EncodeFails, AnswerEncodeFailed, CallSend, CallDeref,
   LoopStep, Begin, Test, NoEvent, ReadEvent, FramesDone, ResponseFrame, CallbackReturns, Notify, LoopSwap, LoopDrop,
   FireTimer, SwapFunctors, RunDone, RunTimerFunctor, RunSend, Start, StartConnect, Stop, StopStep, StopSwap, StopDrop,
   StopDisconnect, StopQuit, Join, StopFinal, Peer, PeerAccepts, PeerRefuses, PeerCloses, PeerResets,
   PeerGoes, PeerGarbles, PeerAnswers, PeerSends, clientVars, loopVars, queueVars, netVars, ownerVars, history

\* The loop and what it returns to.
LEMMA ThreadsMove ==
    Next => \/ UNCHANGED <<lpc, retCb, retDrop, retClose, batch>>
            \/ LoopStep
            \/ Start
BY DEF Next, CallEnter, CallStep, CallGate, CallAddTimer, EncodeFails, AnswerEncodeFailed, CallSend, CallDeref,
   StartConnect, Stop, StopStep, StopSwap, StopDrop,
   StopDisconnect, StopQuit, Join, StopFinal, Peer, PeerAccepts, PeerRefuses, PeerCloses, PeerResets,
   PeerGoes, PeerGarbles, PeerAnswers, PeerSends, clientVars, loopVars, queueVars, netVars, ownerVars, history

LEMMA StartIsPast == Next => (spc' \in {"new", "spawned"} => spc \in {"new", "spawned"})
BY DEF Next, CallEnter, CallStep, CallGate, CallAddTimer, EncodeFails, AnswerEncodeFailed, CallSend, CallDeref,
   LoopStep, Begin, Test, NoEvent, ConnectSucceeds, ConnectFails, ReadEvent, ReadFails, CloseEvent, FramesDone, CorruptFrame,
   ResponseFrame, CallbackReturns, Notify, LoopSwap, LoopDrop, CloseCallback, ResetConnection, FireTimer, SwapFunctors,
   RunDone, RunConnect, RunDisconnect, RunTimerFunctor, RunSend, Start, StartConnect, Stop, StopStep, StopSwap, StopDrop,
   StopDisconnect, StopQuit, Join, StopFinal, Peer, PeerAccepts, PeerRefuses, PeerCloses, PeerResets,
   PeerGoes, PeerGarbles, PeerAnswers, PeerSends, OwnerGoes, ownerVars

\* Without a connection there is none until the connect functor runs.
LEMMA NullStays ==
    ASSUME CloseFacts, Next, link = "null", ~connected, ~RunConnect
    PROVE  link' = "null" /\ ~connected'
<1>1. ~ConnectSucceeds /\ ~ConnectFails /\ ~ReadFails /\ ~CloseEvent /\ ~CorruptFrame
  BY DEF ConnectSucceeds, ConnectFails, ReadFails, CloseEvent, CorruptFrame, ConnectReady, ConnectError, ReadReady,
     CloseReady, CloseFacts
<1>2. CloseCallback \/ ResetConnection \/ RunDisconnect => link' = "null" /\ ~connected'
  BY DEF CloseCallback, NowConnected, ResetConnection, RunDisconnect
<1> QED  BY <1>1, <1>2, LinkMoves

LEMMA ConnectKept == TypeOK /\ Hands /\ LinkFacts /\ Next => ConnectFacts'
<1> SUFFICES ASSUME TypeOK, Hands, LinkFacts, Next PROVE ConnectFacts'
  OBVIOUS
<1>0. /\ ConnectFacts /\ CloseFacts
      /\ functors \in Seq(Functors) /\ batch \in Seq(Functors)
      /\ spc' \in {"new", "spawned"} => spc \in {"new", "spawned"}
  BY StartIsPast DEF LinkFacts, TypeOK
<1>1. CASE RunConnect
  <2>1. /\ batch # <<>> /\ Head(batch).op = "connect" /\ batch' = Tail(batch) /\ functors' = functors
        /\ spc' = spc
    BY <1>1 DEF RunConnect, Runs, ownerVars
  <2>2. Has(batch, "connect") /\ ~Has(batch', "connect") /\ Once(batch', "connect")
    BY <1>0, <2>1, HasTail DEF ConnectFacts
  <2> QED  BY <1>0, <2>1, <2>2 DEF ConnectFacts
<1>2. CASE ~RunConnect
  <2>0. link = "null" /\ ~connected => link' = "null" /\ ~connected'
    BY <1>0, <1>2, NullStays
  <2>1. CASE UNCHANGED <<functors, batch>>
    BY <1>0, <2>0, <2>1 DEF ConnectFacts
  <2>2. ASSUME NEW f \in Functors, f.op # "connect", Post(f), UNCHANGED batch PROVE ConnectFacts'
    <3>1. /\ Has(functors', "connect") <=> Has(functors, "connect")
          /\ Once(functors, "connect") => Once(functors', "connect")
      BY <1>0, <2>2, HasAppend DEF Post
    <3> QED  BY <1>0, <2>0, <2>2, <3>1 DEF ConnectFacts
  <2>3. CASE StartConnect
    <3>1. spc = "spawned" /\ spc' = "started" /\ functors' = Append(functors, FConnect) /\ batch' = batch
          /\ FConnect \in Functors
      BY <2>3, FunctorType DEF StartConnect, OwnerGoes, Post
    <3>2. ~Has(functors, "connect") /\ ~Has(batch, "connect") /\ Once(functors', "connect")
      BY <1>0, <3>1, HasAppend DEF ConnectFacts
    <3> QED  BY <1>0, <2>0, <3>1, <3>2 DEF ConnectFacts
  <2>4. CASE StopDisconnect \/ StopFinal
    <3>1. Post(FDisconnect) /\ UNCHANGED batch /\ FDisconnect \in Functors /\ FDisconnect.op # "connect"
      BY <2>4, FunctorType DEF StopDisconnect, StopFinal, FDisconnect
    <3> QED  BY <2>2, <3>1
  <2>5. CASE SwapFunctors
    <3>1. batch' = functors /\ functors' = <<>>
      BY <2>5 DEF SwapFunctors
    <3> QED  BY <1>0, <2>0, <3>1, HasNone DEF ConnectFacts
  <2>6. ASSUME NEW op, Runs(op), UNCHANGED functors PROVE ConnectFacts'
    <3>1. batch # <<>> /\ batch' = Tail(batch)
      BY <2>6 DEF Runs
    <3>2. (Has(batch', "connect") => Has(batch, "connect")) /\ (Once(batch, "connect") => Once(batch', "connect"))
      BY <1>0, <3>1, HasTail
    <3> QED  BY <1>0, <2>0, <2>6, <3>2 DEF ConnectFacts
  <2>7. CASE RunDisconnect
    BY <2>6, <2>7 DEF RunDisconnect
  <2> QED  BY <1>2, <2>1, <2>2, <2>3, <2>4, <2>5, <2>6, <2>7, QueueMoves
<1> QED  BY <1>1, <1>2

LEMMA CloseKept == TypeOK /\ Hands /\ LinkFacts /\ Next => CloseFacts'
<1> SUFFICES ASSUME TypeOK, Hands, LinkFacts, Next PROVE CloseFacts'
  OBVIOUS
<1> USE DEF clientVars, loopVars, queueVars, netVars, ownerVars, history
<1>0. CloseFacts
  BY DEF LinkFacts
<1>1. CASE UNCHANGED <<lpc, retCb, retDrop, retClose, batch>> /\ ~LoopStep
  <2>1. UNCHANGED <<link, connected>>
    BY <1>1, LinkMoves DEF LoopStep
  <2> QED  BY <1>0, <1>1, <2>1 DEF CloseFacts, Notifying
<1>2. CASE Start
  <2>1. ~connected /\ batch = <<>>
    BY <1>0, <1>2 DEF Start, OwnerGoes, LinkFacts, ConnectFacts, CloseFacts, Notifying, Hands, StopFacts
  <2> QED  BY <1>0, <1>2, <2>1 DEF Start, CloseFacts
<1>3. CASE LoopStep
  <2> USE <1>0 DEF CloseFacts, Notifying
  <2>1. CASE Begin
    BY <2>1 DEF Begin
  <2>2. CASE Test
    BY <2>2 DEF Test
  <2>3. CASE NoEvent
    BY <2>3 DEF NoEvent
  <2>4. CASE ConnectSucceeds
    BY <2>4 DEF ConnectSucceeds
  <2>5. CASE ConnectFails
    BY <2>5 DEF ConnectFails, ConnectError
  <2>6. CASE ReadEvent
    BY <2>6 DEF ReadEvent, ReadReady
  <2>7. CASE ReadFails \/ CloseEvent
    BY <2>7 DEF ReadFails, CloseEvent, HandleClose
  <2>8. CASE FramesDone
    BY <2>8 DEF FramesDone
  <2>9. CASE CorruptFrame
    BY <2>9 DEF CorruptFrame, HandleClose
  <2>10. CASE \E c \in Calls : ResponseFrame(c)
    BY <2>10 DEF ResponseFrame
  <2>11. CASE CallbackReturns
    BY <2>11 DEF CallbackReturns
  <2>12. CASE Notify
    BY <2>12 DEF Notify
  <2>13. CASE LoopSwap
    BY <2>13 DEF LoopSwap
  <2>14. CASE LoopDrop
    BY <2>14 DEF LoopDrop
  <2>15. CASE CloseCallback
    BY <2>15 DEF CloseCallback, NowConnected
  <2>16. CASE ResetConnection
    BY <2>16 DEF ResetConnection
  <2>17. CASE \E i \in TimerIds : FireTimer(i)
    BY <2>17 DEF FireTimer
  <2>18. CASE SwapFunctors
    BY <2>18 DEF SwapFunctors
  <2>19. CASE RunDone
    BY <2>19 DEF RunDone
  <2>20. CASE RunConnect
    <3>1. link = "null" /\ ~connected /\ lpc = "run"
      <4>1. Has(batch, "connect") /\ lpc = "run"
        BY <2>20, HasTail DEF RunConnect, Runs, TypeOK
      <4> QED  BY <4>1 DEF LinkFacts, ConnectFacts
    <3> QED  BY <2>20, <3>1 DEF RunConnect, Runs
  <2>21. CASE RunDisconnect
    BY <2>21 DEF RunDisconnect, Runs, HandleClose
  <2>22. CASE RunTimerFunctor
    BY <2>22 DEF RunTimerFunctor, Runs
  <2>23. CASE RunSend
    BY <2>23 DEF RunSend, Runs
  <2> QED  BY <1>3, <2>1, <2>2, <2>3, <2>4, <2>5, <2>6, <2>7, <2>8, <2>9, <2>10, <2>11, <2>12, <2>13, <2>14, <2>15,
              <2>16, <2>17, <2>18, <2>19, <2>20, <2>21, <2>22, <2>23 DEF LoopStep
<1> QED  BY <1>1, <1>2, <1>3, ThreadsMove

LEMMA TakenKept == TypeOK /\ Hands /\ LinkFacts /\ Next => TakenByStop'
<1> SUFFICES ASSUME TypeOK, Hands, LinkFacts, Next PROVE TakenByStop'
  OBVIOUS
<1> USE DEF clientVars, loopVars, queueVars, netVars, ownerVars, history
<1>0. /\ TakenByStop /\ CloseFacts /\ ConnectFacts /\ StopFacts
      /\ functors \in Seq(Functors) /\ batch \in Seq(Functors)
      /\ cpc \in [Calls -> CallPC] /\ link \in {"null", "connecting", "up", "down"}
  BY DEF LinkFacts, TypeOK, Hands
<1>1. stopped => stopped'
  BY DEF Next, CallEnter, CallStep, CallGate, CallAddTimer, EncodeFails, AnswerEncodeFailed, CallSend, CallDeref,
   LoopStep, Begin, Test, NoEvent, ConnectSucceeds, ConnectFails, ReadEvent, ReadFails, CloseEvent, FramesDone, CorruptFrame,
   ResponseFrame, CallbackReturns, Notify, LoopSwap, LoopDrop, CloseCallback, ResetConnection, FireTimer, SwapFunctors,
   RunDone, RunConnect, RunDisconnect, RunTimerFunctor, RunSend, Start, StartConnect, Stop, StopStep, StopSwap, StopDrop,
   StopDisconnect, StopQuit, Join, StopFinal, Peer, PeerAccepts, PeerRefuses, PeerCloses, PeerResets,
   PeerGoes, PeerGarbles, PeerAnswers, PeerSends
<1>2. Has(batch, "disconnect")' \/ Has(functors, "disconnect")' => stopped'
  <2>1. CASE UNCHANGED <<functors, batch>>
    BY <1>0, <1>1, <2>1 DEF TakenByStop
  <2>2. ASSUME NEW f \in Functors, f.op # "disconnect", Post(f), UNCHANGED batch
        PROVE  Has(batch, "disconnect")' \/ Has(functors, "disconnect")' => stopped'
    <3>1. Has(functors', "disconnect") <=> Has(functors, "disconnect")
      BY <1>0, <2>2, HasAppend DEF Post
    <3> QED  BY <1>0, <1>1, <2>2, <3>1 DEF TakenByStop
  <2>3. CASE StartConnect
    <3>1. Post(FConnect) /\ UNCHANGED batch /\ FConnect \in Functors /\ FConnect.op # "disconnect"
      BY <2>3, FunctorType DEF StartConnect, FConnect
    <3> QED  BY <2>2, <3>1
  <2>4. CASE StopDisconnect \/ StopFinal
    BY <1>0, <1>1, <2>4 DEF StopDisconnect, StopFinal, OwnerGoes, StopFacts
  <2>5. CASE SwapFunctors
    <3>1. batch' = functors /\ functors' = <<>>
      BY <2>5 DEF SwapFunctors
    <3> QED  BY <1>0, <1>1, <3>1, HasNone DEF TakenByStop
  <2>6. ASSUME NEW op, Runs(op), UNCHANGED functors
        PROVE  Has(batch, "disconnect")' \/ Has(functors, "disconnect")' => stopped'
    <3>1. batch # <<>> /\ batch' = Tail(batch)
      BY <2>6 DEF Runs
    <3>2. Has(batch', "disconnect") => Has(batch, "disconnect")
      BY <1>0, <3>1, HasTail
    <3> QED  BY <1>0, <1>1, <2>6, <3>2 DEF TakenByStop
  <2>7. CASE RunConnect \/ RunDisconnect
    BY <2>6, <2>7 DEF RunConnect, RunDisconnect
  <2> QED  BY <2>1, <2>2, <2>3, <2>4, <2>5, <2>6, <2>7, QueueMoves
<1>3. RunDisconnect => stopped
  <2>1. RunDisconnect => Has(batch, "disconnect")
    BY <1>0, HasTail DEF RunDisconnect, Runs
  <2> QED  BY <1>0, <2>1 DEF TakenByStop
<1>4. retClose' = "reset" \/ lpc' = "reset" => stopped'
  <2>1. CASE UNCHANGED <<lpc, retClose>>
    BY <1>0, <1>1, <2>1 DEF TakenByStop
  <2>2. CASE Start
    BY <1>0, <1>1, <2>2 DEF Start, TakenByStop
  <2>3. CASE RunDisconnect
    BY <1>1, <1>3, <2>3
  <2>4. CASE LoopStep /\ ~RunDisconnect
    <3>1. retClose' \in {retClose, "tick"} /\ (lpc' = "reset" => lpc = "closed" /\ retClose = "reset")
      BY <1>0, <2>4 DEF LoopStep, Begin, Test, NoEvent, ConnectSucceeds, ConnectFails, ReadEvent, ReadFails, CloseEvent, FramesDone,
         CorruptFrame, ResponseFrame, CallbackReturns, Notify, LoopSwap, LoopDrop, CloseCallback, ResetConnection,
         FireTimer, SwapFunctors, RunDone, RunConnect, RunTimerFunctor, RunSend, HandleClose, CloseFacts, Runs
    <3> QED  BY <1>0, <1>1, <3>1 DEF TakenByStop
  <2> QED  BY <2>1, <2>2, <2>3, <2>4, ThreadsMove
<1>5. link \in {"up", "down"} => link' \in {"up", "down"} \/ stopped
  <2>1. CASE UNCHANGED link
    BY <2>1
  <2>2. CASE ConnectSucceeds \/ ReadFails \/ CloseEvent \/ CorruptFrame \/ CloseCallback
    BY <2>2 DEF ConnectSucceeds, ReadFails, CloseEvent, CorruptFrame, HandleClose, CloseCallback
  <2>3. CASE ConnectFails
    BY <2>3 DEF ConnectFails, ConnectError
  <2>4. CASE ResetConnection
    BY <1>0, <2>4 DEF ResetConnection, TakenByStop
  <2>5. CASE RunDisconnect
    BY <1>3, <2>5
  <2>6. CASE RunConnect
    <3>1. Has(batch, "connect")
      BY <1>0, <2>6, HasTail DEF RunConnect, Runs
    <3> QED  BY <1>0, <3>1 DEF ConnectFacts
  <2> QED  BY <2>1, <2>2, <2>3, <2>4, <2>5, <2>6, LinkMoves
<1>6. ASSUME NEW c \in Calls
      PROVE  /\ cpc'[c] = "deref" => link' \in {"up", "down"} \/ stopped'
             /\ cpc'[c] = "crashed" => stopped'
  <2>1. CASE cpc'[c] = cpc[c]
    BY <1>0, <1>1, <1>5, <2>1 DEF TakenByStop
  <2>2. CASE cpc'[c] # cpc[c]
    <3>1. CallEnter(c) \/ CallStep(c)
      <4>1. ASSUME NEW d \in Calls, d # c, CallEnter(d) \/ CallStep(d) PROVE FALSE
        BY <1>0, <2>2, <4>1 DEF CallEnter, CallStep, CallGate, CallAddTimer, EncodeFails, AnswerEncodeFailed, CallSend,
           CallDeref
      <4>2. CASE LoopStep
        BY <2>2, <4>2 DEF LoopStep, Begin, Test, NoEvent, ConnectSucceeds, ConnectFails, ReadEvent, ReadFails, CloseEvent,
           FramesDone, CorruptFrame, ResponseFrame, CallbackReturns, Notify, LoopSwap, LoopDrop, CloseCallback,
           ResetConnection, FireTimer, SwapFunctors, RunDone, RunConnect, RunDisconnect, RunTimerFunctor, RunSend
      <4>3. CASE Start \/ StartConnect \/ Stop \/ StopStep \/ Peer
        BY <2>2, <4>3 DEF Start, StartConnect, Stop, StopStep, StopSwap, StopDrop, StopDisconnect, StopQuit, Join,
           StopFinal, Peer, PeerAccepts, PeerRefuses, PeerCloses, PeerResets, PeerGoes, PeerGarbles, PeerAnswers, PeerSends
      <4> QED  BY <4>1, <4>2, <4>3 DEF Next
    <3>2. /\ cpc'[c] = "deref" => CallSend(c)
          /\ cpc'[c] = "crashed" => CallDeref(c)
      BY <1>0, <3>1 DEF CallEnter, CallStep, CallGate, CallAddTimer, EncodeFails, AnswerEncodeFailed, CallSend, CallDeref
    <3>3. cpc'[c] = "deref" => link' \in {"up", "down"}
      BY <1>0, <3>2 DEF CallSend
    <3>4. cpc'[c] = "crashed" => stopped
      BY <1>0, <3>2 DEF CallDeref, TakenByStop
    <3> QED  BY <1>1, <3>3, <3>4
  <2> QED  BY <2>1, <2>2
<1> QED  BY <1>2, <1>4, <1>6 DEF TakenByStop

LEMMA LinkStep == TypeOK /\ Hands /\ LinkFacts /\ [Next]_vars => LinkFacts'
<1>1. LinkFacts /\ UNCHANGED vars => LinkFacts'
  <2> SUFFICES ASSUME LinkFacts, UNCHANGED vars PROVE LinkFacts'
    OBVIOUS
  <2> USE DEF vars, clientVars, loopVars, queueVars, ownerVars, LinkFacts
  <2>1. ConnectFacts'
    BY DEF ConnectFacts
  <2>2. CloseFacts'
    BY DEF CloseFacts, Notifying
  <2>3. TakenByStop'
    BY DEF TakenByStop
  <2> QED  BY <2>1, <2>2, <2>3
<1> QED  BY <1>1, ConnectKept, CloseKept, TakenKept DEF LinkFacts

\* The connect functor runs once, connected_ is true only with a connection or on
\* the way to the close callback, and only Stop takes a connection away.
THEOREM LinkInvariant == Safety => []LinkFacts
<1>1. Init => LinkFacts
  <2> SUFFICES ASSUME Init PROVE LinkFacts
    OBVIOUS
  <2>1. ConnectFacts
    BY HasNone DEF Init, ConnectFacts
  <2>2. CloseFacts
    BY DEF Init, CloseFacts
  <2>3. TakenByStop
    BY HasNone DEF Init, TakenByStop
  <2> QED  BY <2>1, <2>2, <2>3 DEF LinkFacts
<1> QED  BY <1>1, LinkStep, HandsInvariant, PTL DEF Safety

\* IsConnected() means a live connection, but for the time handleClose takes, and
\* a Send that finds its connection gone has been overtaken by Stop.
THEOREM ConnectedCanBeTrusted == Safety => []ConnectedIsSafe
<1>1. LinkFacts => ConnectedIsSafe
  BY DEF LinkFacts, CloseFacts, TakenByStop, Notifying, ConnectedIsSafe, ConnectedIsUp, SendFailsOnlyInStop
<1> QED  BY <1>1, LinkInvariant, PTL

-----------------------------------------------------------------------------
(* The loop inside the client implements FunctorQueue.                     *)

\* The head of two queues in a row is the head of the first.
LEMMA TailOfTwo ==
    ASSUME NEW S, NEW s \in Seq(S), NEW q \in Seq(S), s # <<>>
    PROVE  Tail(s \o q) = Tail(s) \o q /\ s \o q # <<>>
<1> DEFINE t == Tail(s \o q)
           u == Tail(s) \o q
<1>1. /\ Tail(s) \in Seq(S) /\ Len(s) \in Nat /\ Len(s) # 0 /\ Len(Tail(s)) = Len(s) - 1 /\ Len(q) \in Nat
      /\ \A i \in 1 .. Len(s) - 1 : Tail(s)[i] = s[i + 1]
  BY HeadTailProperties, EmptySeq
<1>2. s \o q \in Seq(S) /\ Len(s \o q) = Len(s) + Len(q) /\ s \o q # <<>>
  BY <1>1
<1>3. t \in Seq(S) /\ Len(t) = Len(s) + Len(q) - 1 /\ \A i \in 1 .. Len(t) : t[i] = (s \o q)[i + 1]
  BY <1>1, <1>2, HeadTailProperties
<1>4. u \in Seq(S) /\ Len(u) = Len(t) /\ \A i \in 1 .. Len(u) : u[i] = (s \o q)[i + 1]
  BY <1>1, <1>3, ConcatProperties
<1> QED  BY <1>2, <1>3, <1>4, SeqEqual

\* What is added to the second of two queues is added to both.
LEMMA AppendRight ==
    ASSUME NEW S, NEW s \in Seq(S), NEW q \in Seq(S), NEW f \in S
    PROVE  s \o Append(q, f) = Append(s \o q, f)
<1>1. <<f>> \in Seq(S) /\ s \o q \in Seq(S)
  BY ConcatProperties
<1>2. Append(s \o q, f) = (s \o q) \o <<f>> /\ Append(q, f) = q \o <<f>>
  BY <1>1, AppendIsConcat
<1> QED  BY <1>1, <1>2, ConcatAssociative

LEMMA QueueUntouched ==
    ASSUME UNCHANGED <<functors, batch>>, (lpc' = "exited") = (lpc = "exited")
    PROVE  UNCHANGED Queue!fqvars
BY DEF Queue!fqvars

\* When the loop thread exits.
LEMMA ExitMoves ==
    ASSUME TypeOK, Hands, LinkFacts, Next
    PROVE  \/ (lpc' = "exited") = (lpc = "exited")
           \/ Test
<1> USE DEF loopVars
<1>0. CloseFacts /\ StopFacts
  BY DEF LinkFacts, Hands
<1>1. CASE UNCHANGED lpc
  BY <1>1
<1>2. CASE Start
  BY <1>0, <1>2 DEF Start, OwnerGoes, StopFacts
<1>3. CASE LoopStep /\ ~Test /\ lpc' # lpc
  <2>1. lpc # "exited" /\ lpc' # "exited"
    BY <1>0, <1>3 DEF LoopStep, Begin, NoEvent, ConnectSucceeds, ConnectFails, ReadEvent, ReadFails, CloseEvent, FramesDone,
       CorruptFrame, ResponseFrame, CallbackReturns, Notify, LoopSwap, LoopDrop, CloseCallback, ResetConnection,
       FireTimer, SwapFunctors, RunDone, RunConnect, RunDisconnect, RunTimerFunctor, RunSend, HandleClose, CloseFacts, Runs
  <2> QED  BY <2>1
<1> QED  BY <1>1, <1>2, <1>3, ThreadsMove

LEMMA QueueKept == TypeOK /\ Hands /\ LinkFacts /\ [Next]_vars => [Queue!Next]_(Queue!fqvars)
<1> SUFFICES ASSUME TypeOK, Hands, LinkFacts, [Next]_vars PROVE [Queue!Next]_(Queue!fqvars)
  OBVIOUS
<1>0. functors \in Seq(Functors) /\ batch \in Seq(Functors) /\ CloseFacts
  BY DEF TypeOK, LinkFacts
<1>1. ASSUME NEW f \in Functors, Post(f), UNCHANGED <<batch, lpc>>
      PROVE  Queue!Post(f)
  <2>0. batch \in Seq(Functors) /\ functors \in Seq(Functors)
    BY <1>0
  <2>1. batch \o Append(functors, f) = Append(batch \o functors, f)
    BY <2>0, AppendRight
  <2> QED  BY <1>1, <2>1 DEF Post, Queue!Post
<1>2. ASSUME lpc = "run", lpc' # "exited", batch # <<>>, batch' = Tail(batch), UNCHANGED functors
      PROVE  Queue!RunOldest
  <2>1. Tail(batch \o functors) = Tail(batch) \o functors /\ batch \o functors # <<>>
    BY <1>0, <1>2, TailOfTwo
  <2> QED  BY <1>2, <2>1 DEF Queue!RunOldest
<1>3. CASE UNCHANGED vars
  BY <1>3, QueueUntouched DEF vars, queueVars, loopVars
<1>4. CASE Test
  <2>1. UNCHANGED <<functors, batch>> /\ lpc = "test" /\ (lpc' = "handle" \/ lpc' = "exited")
    BY <1>4 DEF Test, queueVars
  <2>2. CASE lpc' = "handle"
    BY <2>1, <2>2, QueueUntouched
  <2>3. CASE lpc' = "exited"
    BY <2>1, <2>3 DEF Queue!Next, Queue!Exit
  <2> QED  BY <2>1, <2>2, <2>3
<1>5. CASE Next /\ ~Test
  <2>0. (lpc' = "exited") = (lpc = "exited")
    BY <1>5, ExitMoves
  <2>1. CASE UNCHANGED <<functors, batch>>
    BY <2>0, <2>1, QueueUntouched
  <2>2. CASE \E f \in Functors : Post(f) /\ UNCHANGED <<batch, lpc>>
    BY <1>1, <2>2 DEF Queue!Next
  <2>3. CASE StartConnect \/ StopDisconnect \/ StopFinal
    <3>1. UNCHANGED <<batch, lpc>> /\ (Post(FConnect) \/ Post(FDisconnect))
      BY <2>3 DEF StartConnect, StopDisconnect, StopFinal, loopVars
    <3> QED  BY <2>2, <3>1, FunctorType
  <2>4. CASE SwapFunctors
    <3>1. batch = <<>> /\ batch' = functors /\ functors' = <<>>
      BY <1>0, <2>4 DEF SwapFunctors, CloseFacts, Notifying
    <3>2. functors \o <<>> = functors /\ <<>> \o functors = functors
      BY <1>0, ConcatEmptySeq
    <3> QED  BY <2>0, <3>1, <3>2 DEF Queue!fqvars
  <2>5. ASSUME NEW op, Runs(op), UNCHANGED functors PROVE Queue!Next
    <3>1. lpc = "run" /\ lpc' # "exited" /\ batch # <<>> /\ batch' = Tail(batch)
      BY <2>0, <2>5 DEF Runs
    <3> QED  BY <1>2, <2>5, <3>1 DEF Queue!Next
  <2>6. CASE RunConnect \/ RunDisconnect
    BY <2>5, <2>6 DEF RunConnect, RunDisconnect
  <2> QED  BY <1>5, <2>1, <2>2, <2>3, <2>4, <2>5, <2>6, QueueMoves
<1> QED  BY <1>3, <1>4, <1>5

\* What is posted to the client's loop runs once and in order, although a functor
\* may run handleClose, and with it the application's callbacks, inside the batch.
THEOREM ClientImplementsQueue == Safety => QueueSpec
<1>1. Init => Queue!Init
  BY DEF Init, Queue!Init
<1> QED  BY <1>1, QueueKept, HandsInvariant, LinkInvariant, PTL DEF Safety, QueueSpec, Queue!Spec
=============================================================================
