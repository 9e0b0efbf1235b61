----------------------------- MODULE LogProofs -----------------------------
(***************************************************************************)
(* Proofs about Log, for any writers, lines, days, any capacity of the     *)
(* queue and any length of a file: the queue keeps its order, a line whose *)
(* write() has returned is on disk once or on its way there, and push      *)
(* never waits.                                                            *)
(***************************************************************************)
EXTENDS Log, SequenceTheorems, FiniteSetTheorems, TLAPS

\* Where a line can be.
Disk == {file[i].line : i \in DOMAIN file}
InHand == {hand[i] : i \in DOMAIN hand}
InQueue == {queue[i] : i \in DOMAIN queue}
Lost == {cleared[i] : i \in DOMAIN cleared} \cup refused
Places == Disk \cup InHand \cup InQueue \cup Lost

\* The write thread has a line in hand between pop and fputs, and only then.
Holding ==
    /\ thread = "hand" => Len(hand) = 1
    /\ thread # "hand" => hand = <<>>

\* What the writers have done and may still do.
Calls ==
    \A w \in Writers :
        /\ over[w] <= MaxWrites[w] /\ promised[w] <= over[w]
        /\ pc[w] # "idle" => over[w] < MaxWrites[w]

\* The destructor closes the queue once; before it does nothing is thrown away,
\* and afterwards the queue stays empty.
Stages ==
    /\ closed => dtor \in {"join", "flush", "over"} /\ queue = <<>>
    /\ ~closed => cleared = <<>> /\ refused = {}

\* mtx_ is held by one writer between full() and push, and what full() said
\* stays true.
Room ==
    /\ \A v, w \in Writers : pc[v] = "push" /\ pc[w] = "push" => v = w
    /\ PushNeverWaits

\* No line is anywhere twice.
Distinct ==
    /\ \A i, j \in DOMAIN file : file[i].line = file[j].line => i = j
    /\ \A i, j \in DOMAIN queue : queue[i] = queue[j] => i = j
    /\ Disk \cap InHand = {} /\ Disk \cap InQueue = {} /\ Disk \cap Lost = {}
    /\ InHand \cap InQueue = {} /\ InHand \cap Lost = {} /\ InQueue \cap Lost = {}

\* The lines of the calls that have returned, and no others, are somewhere.
Accounted ==
    /\ \A l \in Places : l \in Line /\ l[2] <= over[l[1]]
    /\ \A w \in Writers : \A n \in 1 .. over[w] : <<w, n>> \in Places

\* A line is lost only to the destructor, and only if its call was not over when
\* the destructor began.
Late ==
    /\ \A l \in Lost : l[2] > promised[l[1]] /\ dtor # "no"
    /\ dtor = "close" => \A l \in InQueue : l[2] > promised[l[1]]

LogInv ==
    TypeOK /\ QueueKeepsOrder /\ Holding /\ Calls /\ Stages /\ Room /\ Distinct /\ Accounted /\ Late

-----------------------------------------------------------------------------
(* Lines, and who moves them.                                              *)

LEMMA LineIs ==
    /\ \A l \in Line : l[1] \in Writers /\ l[2] \in 1 .. MaxWrites[l[1]] /\ l = <<l[1], l[2]>>
    /\ \A w \in Writers : \A n \in 1 .. MaxWrites[w] : <<w, n>> \in Line
BY DEF Line

LEMMA ThisIsLine ==
    ASSUME TypeOK, Calls, NEW w \in Writers, pc[w] # "idle"
    PROVE  This(w) \in Line /\ This(w)[1] = w /\ This(w)[2] = over[w] + 1
<1>1. MaxWrites[w] \in Nat /\ over[w] \in Nat /\ over[w] < MaxWrites[w]
  BY LogAssumption DEF TypeOK, Calls
<1>2. over[w] + 1 \in 1 .. MaxWrites[w]
  BY <1>1
<1> QED  BY <1>2, LineIs DEF This

Quiet == UNCHANGED <<file, hand, queue, pushed, cleared, refused, over>>

\* The steps that move a line; the others leave every line where it is.
LEMMA WhoMoves ==
    ASSUME [Next]_vars
    PROVE  \/ Quiet
           \/ Pop \/ WriteLine \/ CloseQueue
           \/ \E w \in Writers : WriteThrough(w) \/ Push(w) \/ PushRefused(w)
<1>1. CASE UNCHANGED vars
  BY <1>1 DEF vars, settings, writing, disposed, counted, Quiet
<1>2. ASSUME NEW w \in Writers, Begin(w) \/ Check(w) \/ Rotate(w) \/ Compose(w) PROVE Quiet
  BY <1>2 DEF Begin, Check, Rotate, Compose, disposed, Quiet
<1>3. CASE PopWaits \/ PopEnds \/ SpuriousWakeup \/ InitAgain \/ Midnight
  BY <1>3 DEF PopWaits, PopEnds, SpuriousWakeup, InitAgain, Midnight, writing, disposed, Quiet
<1>4. CASE Destroy \/ Drain \/ DrainEnds \/ Join \/ CloseFile
  BY <1>4 DEF Destroy, Drain, DrainEnds, Join, CloseFile, writing, disposed, Quiet
<1> QED  BY <1>1, <1>2, <1>3, <1>4 DEF Next, Write, AsyncWrite, Destructor

LEMMA QuietPlaces ==
    ASSUME Quiet
    PROVE  /\ Disk' = Disk /\ InHand' = InHand /\ InQueue' = InQueue /\ Lost' = Lost /\ Places' = Places
BY DEF Quiet, Disk, InHand, InQueue, Lost, Places

-----------------------------------------------------------------------------
(* Types.                                                                  *)

LEMMA InitInv == Init => LogInv
<1> SUFFICES ASSUME Init PROVE LogInv
  OBVIOUS
<1>0. /\ MaxDay \in Nat \ {0} /\ Capacity \in Nat \ {0} /\ MaxWrites \in [Writers -> Nat]
      /\ file = <<>> /\ hand = <<>> /\ queue = <<>> /\ pushed = <<>> /\ cleared = <<>> /\ refused = {}
  BY LogAssumption DEF Init
<1>1. TypeOK
  <2>1. Name(1, 0) \in Names /\ 1 \in 1 .. MaxDay
    BY <1>0 DEF Names, Name
  <2>2. /\ queue \in Seq(Line) /\ hand \in Seq(Line) /\ pushed \in Seq(Line) /\ cleared \in Seq(Line)
        /\ file \in Seq(Entry) /\ refused \in SUBSET Line
    BY <1>0
  <2>3. /\ pc \in [Writers -> {"idle", "check", "rotate", "append", "push"}]
        /\ day \in [Writers -> 1 .. MaxDay] /\ over \in [Writers -> Nat] /\ promised \in [Writers -> Nat]
    BY <2>1 DEF Init
  <2> QED  BY <2>1, <2>2, <2>3 DEF Init, TypeOK
<1>2. QueueKeepsOrder
  <2>1. {j \in 1 .. 0 : file[j].queued} = {}
    OBVIOUS
  <2>2. Taken(Len(file)) = 0
    BY <1>0, <2>1, FS_EmptySet DEF Taken
  <2>3. SubSeq(pushed, 0 + 1, Len(pushed)) = <<>> /\ hand \o queue \o cleared = <<>>
    BY <1>0
  <2> QED  BY <1>0, <2>2, <2>3 DEF QueueKeepsOrder
<1>3. Disk = {} /\ InHand = {} /\ InQueue = {} /\ Lost = {} /\ Places = {}
  BY <1>0 DEF Disk, InHand, InQueue, Lost, Places
<1>4. Holding /\ Stages
  BY <1>0 DEF Init, Holding, Stages
<1>5. Calls /\ Room
  BY <1>0 DEF Init, Calls, Room, PushNeverWaits
<1>6. Distinct
  BY <1>0, <1>3 DEF Distinct
<1>7. Accounted
  BY <1>0, <1>3 DEF Accounted, Init
<1>8. Late
  BY <1>3 DEF Late
<1> QED  BY <1>1, <1>2, <1>4, <1>5, <1>6, <1>7, <1>8 DEF LogInv

LEMMA NotifiedType ==
    ASSUME thread \in {"none", "start", "asleep", "awake", "hand", "ended"}
    PROVE  /\ Notified(thread) \in {"none", "start", "asleep", "awake", "hand", "ended"}
           /\ Notified(thread) = "hand" <=> thread = "hand"
BY DEF Notified

LEMMA PartType ==
    ASSUME NEW n \in Nat
    PROVE  n \div MaxLines \in Nat
<1>1. MaxLines \in Nat \ {0}
  BY LogAssumption
<1> QED  BY <1>1

LEMMA TypeKept ==
    ASSUME TypeOK, Holding, Calls, [Next]_vars
    PROVE  TypeOK'
<1>0. /\ MaxDay \in Nat /\ MaxLines \in Nat \ {0} /\ toDay \in 1 .. MaxDay /\ lineCount \in Nat
      /\ fp \in Names /\ isAsync \in BOOLEAN /\ hand \in Seq(Line) /\ file \in Seq(Entry) /\ queue \in Seq(Line)
      /\ pc \in [Writers -> {"idle", "check", "rotate", "append", "push"}]
      /\ day \in [Writers -> 1 .. MaxDay] /\ over \in [Writers -> Nat]
      /\ Notified(thread) \in {"none", "start", "asleep", "awake", "hand", "ended"}
  BY LogAssumption, NotifiedType DEF TypeOK
<1>1. CASE Pop
  <2>1. Head(queue) \in Line /\ Tail(queue) \in Seq(Line) /\ <<Head(queue)>> \in Seq(Line)
    BY <1>0, <1>1, HeadTailProperties DEF Pop
  <2> QED  BY <1>1, <2>1 DEF Pop, TypeOK, settings, writing, disposed, counted
<1>2. CASE PopWaits \/ PopEnds \/ SpuriousWakeup
  BY <1>2 DEF PopWaits, PopEnds, SpuriousWakeup, TypeOK, settings, writing, disposed, counted
<1>3. CASE WriteLine
  <2>1. [line |-> hand[1], name |-> fp, queued |-> TRUE] \in Entry
    <3>1. hand[1] \in Line
      <4>1. Len(hand) = 1
        BY <1>3 DEF WriteLine, Holding
      <4>2. 1 \in 1 .. Len(hand)
        BY <4>1
      <4> QED  BY <1>0, <4>2, ElementOfSeq
    <3> QED  BY <1>0, <3>1 DEF Entry
  <2>2. file' \in Seq(Entry)
    BY <1>0, <1>3, <2>1, AppendProperties DEF WriteLine, Written
  <2>3. /\ UNCHANGED <<today, inits, toDay, lineCount, fp, isAsync, queue, closed, pc, day, over, dtor, pushed,
                       cleared, refused, promised>>
        /\ hand' = <<>> /\ thread' = "start"
    BY <1>3 DEF WriteLine, settings, writing, disposed, counted
  <2>4. hand' \in Seq(Line)
    BY <2>3
  <2> QED  BY <2>2, <2>3, <2>4 DEF TypeOK
<1>4. ASSUME NEW w \in Writers, Begin(w) PROVE TypeOK'
  BY <1>4 DEF Begin, TypeOK, settings, disposed, counted
<1>5. ASSUME NEW w \in Writers, Check(w) PROVE TypeOK'
  BY <1>5 DEF Check, TypeOK, settings, disposed, counted
<1>6. ASSUME NEW w \in Writers, Rotate(w) PROVE TypeOK'
  <2>0. lineCount \div MaxLines \in Nat
    BY <1>0, PartType
  <2>1. day[w] \in 1 .. MaxDay /\ lineCount \div MaxLines \in Nat
    BY <1>0, <2>0
  <2>2. Name(day[w], 0) \in Names /\ Name(day[w], lineCount \div MaxLines) \in Names
    BY <2>1 DEF Name, Names
  <2>3. fp' \in Names /\ toDay' \in 1 .. MaxDay /\ lineCount' \in Nat
    <3>1. CASE toDay # day[w] /\ toDay' = day[w] /\ lineCount' = 0 /\ fp' = Name(day[w], 0)
      BY <2>1, <2>2, <3>1
    <3>2. CASE fp' = Name(day[w], lineCount \div MaxLines) /\ UNCHANGED <<toDay, lineCount>>
      BY <1>0, <2>2, <3>2
    <3> QED  BY <1>6, <3>1, <3>2 DEF Rotate
  <2>4. thread' \in {"none", "start", "asleep", "awake", "hand", "ended"}
    BY <1>0, <1>6 DEF Rotate, TypeOK
  <2> QED  BY <1>6, <2>3, <2>4 DEF Rotate, TypeOK, disposed, counted
<1>7. ASSUME NEW w \in Writers, Compose(w) PROVE TypeOK'
  BY <1>7 DEF Compose, TypeOK, disposed, counted
<1>8. ASSUME NEW w \in Writers, WriteThrough(w) PROVE TypeOK'
  <2>1. This(w) \in Line
    BY <1>8, ThisIsLine DEF WriteThrough
  <2>2. [line |-> This(w), name |-> fp, queued |-> FALSE] \in Entry
    BY <1>0, <2>1 DEF Entry
  <2>3. file' \in Seq(Entry)
    BY <1>0, <1>8, <2>2, AppendProperties DEF WriteThrough, Written
  <2>4. /\ UNCHANGED <<today, inits, toDay, fp, isAsync, queue, closed, thread, hand, day, dtor, pushed,
                       cleared, refused, promised>>
        /\ lineCount' = lineCount + 1 /\ over' = [over EXCEPT ![w] = @ + 1] /\ pc' = [pc EXCEPT ![w] = "idle"]
    BY <1>8 DEF WriteThrough, Returned, disposed, counted
  <2>5. /\ lineCount' \in Nat /\ over' \in [Writers -> Nat]
        /\ pc' \in [Writers -> {"idle", "check", "rotate", "append", "push"}]
    BY <1>0, <2>4
  <2> QED  BY <2>3, <2>4, <2>5 DEF TypeOK
<1>9. ASSUME NEW w \in Writers, Push(w) PROVE TypeOK'
  <2>1. This(w) \in Line
    BY <1>9, ThisIsLine DEF Push
  <2>2. queue' \in Seq(Line) /\ pushed' \in Seq(Line)
    BY <1>0, <1>9, <2>1 DEF Push, Enqueued, TypeOK
  <2> QED  BY <1>0, <1>9, <2>2 DEF Push, Returned, TypeOK, settings, disposed, counted
<1>10. ASSUME NEW w \in Writers, PushRefused(w) PROVE TypeOK'
  <2>1. This(w) \in Line
    BY <1>10, ThisIsLine DEF PushRefused
  <2> QED  BY <1>10, <2>1 DEF PushRefused, Returned, TypeOK, settings, counted
<1>11. CASE InitAgain
  <2>1. today \in 1 .. MaxDay
    BY DEF TypeOK
  <2>2. Name(today, 0) \in Names
    BY <2>1 DEF Name, Names
  <2>3. thread' \in {"none", "start", "asleep", "awake", "hand", "ended"}
    BY <1>0, <1>11 DEF InitAgain, TypeOK
  <2> QED  BY <1>11, <2>1, <2>2, <2>3 DEF InitAgain, TypeOK, writing, disposed
<1>12. CASE Destroy
  BY <1>12 DEF Destroy, TypeOK, settings, writing, counted
<1>13. CASE Drain \/ DrainEnds \/ Join \/ CloseFile
  BY <1>0, <1>13 DEF Drain, DrainEnds, Join, CloseFile, TypeOK, settings, writing, disposed, counted
<1>14. CASE CloseQueue
  BY <1>0, <1>14 DEF CloseQueue, TypeOK, settings, writing, counted
<1>15. CASE Midnight
  BY <1>0, <1>15 DEF Midnight, TypeOK, settings, writing, disposed
<1>16. CASE UNCHANGED vars
  BY <1>16 DEF vars, TypeOK, settings, writing, disposed, counted
<1> QED  BY <1>1, <1>2, <1>3, <1>4, <1>5, <1>6, <1>7, <1>8, <1>9, <1>10, <1>11, <1>12, <1>13, <1>14, <1>15, <1>16
         DEF Next, Write, AsyncWrite, Destructor

-----------------------------------------------------------------------------
(* The order of the queue.                                                 *)

LEMMA TakenIs ==
    ASSUME TypeOK, NEW i \in 0 .. Len(file)
    PROVE  Taken(i) \in Nat /\ Taken(i) <= i
<1> DEFINE A == {j \in 1 .. i : file[j].queued}
<1>1. i \in Nat /\ A \subseteq 1 .. i
  BY DEF TypeOK
<1>2. IsFiniteSet(1 .. i) /\ Cardinality(1 .. i) = i
  BY <1>1, FS_Interval
<1>3. IsFiniteSet(A) /\ Cardinality(A) <= i
  BY <1>1, <1>2, FS_Subset
<1> QED  BY <1>3, FS_CardinalityType DEF Taken

\* An entry at the end of the file adds one to what the queue has given, if it
\* came through the queue.
LEMMA TakenNext ==
    ASSUME TypeOK, NEW e \in Entry, file' = Append(file, e), NEW n, n = Len(file)
    PROVE  /\ file' \in Seq(Entry) /\ Len(file') = n + 1 /\ n \in Nat
           /\ file'[n + 1] = e /\ \A i \in 1 .. n : file'[i] = file[i]
           /\ \A i \in 0 .. n : Taken(i)' = Taken(i)
           /\ Taken(n + 1)' = IF e.queued THEN Taken(n) + 1 ELSE Taken(n)
<1>1. /\ file' \in Seq(Entry) /\ Len(file') = n + 1 /\ n \in Nat
      /\ file'[n + 1] = e /\ \A i \in 1 .. n : file'[i] = file[i]
  BY DEF TypeOK
<1>2. ASSUME NEW i \in 0 .. n
      PROVE  Taken(i)' = Taken(i)
  <2>1. \A j \in 1 .. i : file'[j] = file[j]
    BY <1>1
  <2>2. {j \in 1 .. i : file'[j].queued} = {j \in 1 .. i : file[j].queued}
    BY <2>1
  <2> QED  BY <2>2 DEF Taken
<1> DEFINE A == {j \in 1 .. n : file[j].queued}
           B == {j \in 1 .. n + 1 : file'[j].queued}
<1>3. \A j : j \in 1 .. n + 1 <=> j \in 1 .. n \/ j = n + 1
  BY <1>1
<1>4. n + 1 \notin 1 .. n
  BY <1>1
<1>5. IsFiniteSet(A)
  <2>1. A \subseteq 1 .. n /\ n \in Nat
    BY <1>1
  <2>2. IsFiniteSet(1 .. n)
    BY <2>1, FS_Interval
  <2> QED  BY <2>1, <2>2, FS_Subset
<1>6. Taken(n + 1)' = Cardinality(B) /\ Taken(n) = Cardinality(A)
  BY DEF Taken
<1>7. CASE e.queued
  <2>1. B = A \cup {n + 1} /\ n + 1 \notin A
    BY <1>1, <1>3, <1>4, <1>7
  <2> HIDE DEF A, B
  <2>2. Cardinality(B) = Cardinality(A) + 1
    BY <1>5, <2>1, FS_AddElement
  <2> QED  BY <1>1, <1>2, <1>6, <1>7, <2>2
<1>8. CASE ~e.queued
  <2>1. B = A
    BY <1>1, <1>3, <1>4, <1>8
  <2> HIDE DEF A, B
  <2> QED  BY <1>1, <1>2, <1>6, <1>8, <2>1
<1> QED  BY <1>7, <1>8

\* Sequences that agree up to m have the same parts up to m.
LEMMA SamePart ==
    ASSUME NEW s \in Seq(Line), NEW t \in Seq(Line), NEW k \in Nat, NEW m \in Nat,
           k <= m, m <= Len(s), m <= Len(t), \A i \in 1 .. m : s[i] = t[i]
    PROVE  SubSeq(s, k + 1, m) = SubSeq(t, k + 1, m)
<1> DEFINE p == SubSeq(s, k + 1, m)
           q == SubSeq(t, k + 1, m)
<1>1. \A i \in 1 .. m - k : k + i \in 1 .. m
  OBVIOUS
<1>2. p \in Seq(Line) /\ Len(p) = m - k /\ \A i \in 1 .. m - k : p[i] = s[k + i]
  OBVIOUS
<1>3. q \in Seq(Line) /\ Len(q) = m - k /\ \A i \in 1 .. m - k : q[i] = t[k + i]
  OBVIOUS
<1> HIDE DEF p, q
<1>4. p = q
  BY <1>1, <1>2, <1>3, SeqEqual
<1> QED  BY <1>4 DEF p, q

LEMMA OrderKept ==
    ASSUME TypeOK, QueueKeepsOrder, Holding, Calls, Stages, [Next]_vars
    PROVE  QueueKeepsOrder'
<1> PICK n : n = Len(file)
  OBVIOUS
<1> PICK k : k = Taken(n)
  OBVIOUS
<1> DEFINE rest == hand \o queue \o cleared
<1>0. /\ file \in Seq(Entry) /\ n \in Nat /\ hand \in Seq(Line) /\ queue \in Seq(Line) /\ cleared \in Seq(Line)
      /\ pushed \in Seq(Line) /\ Len(pushed) \in Nat /\ DOMAIN file = 1 .. n
  BY DEF TypeOK
<1>1. k \in Nat
  BY <1>0, TakenIs
<1>2. /\ k <= Len(pushed) /\ SubSeq(pushed, k + 1, Len(pushed)) = rest
      /\ \A i \in 1 .. n : file[i].queued => file[i].line = pushed[Taken(i)]
  BY <1>0 DEF QueueKeepsOrder
<1>3. ASSUME UNCHANGED <<file, pushed>>, hand' \o queue' \o cleared' = rest PROVE QueueKeepsOrder'
  BY <1>3 DEF QueueKeepsOrder, Taken
<1>4. CASE Quiet
  BY <1>3, <1>4 DEF Quiet
<1>5. CASE Pop
  <2>1. /\ queue # <<>> /\ hand = <<>> /\ hand' = <<Head(queue)>> /\ queue' = Tail(queue)
        /\ UNCHANGED <<file, pushed, cleared>>
    BY <1>5 DEF Pop, Holding, disposed
  <2>2. queue = <<Head(queue)>> \o Tail(queue)
    <3>1. Len(queue) \in Nat \ {0} /\ Head(queue) = queue[1]
      BY <1>0, <2>1, EmptySeq
    <3>2. SubSeq(queue, 1, Len(queue)) = <<queue[1]>> \o SubSeq(queue, 2, Len(queue))
      BY <1>0, <3>1, SubSeqRecursiveFirst
    <3> QED  BY <1>0, <2>1, <3>1, <3>2, SubSeqFull, TailIsSubSeq
  <2>3. hand' \o queue' = hand \o queue
    BY <1>0, <2>1, <2>2, ConcatEmptySeq
  <2> QED  BY <1>3, <2>1, <2>3
<1>6. CASE CloseQueue
  <2>1. /\ cleared = <<>> /\ cleared' = queue /\ queue' = <<>> /\ UNCHANGED <<file, pushed, hand>>
    BY <1>6 DEF CloseQueue, Stages
  <2>2. hand \o queue \in Seq(Line)
    BY <1>0, ConcatProperties
  <2>3. (hand \o <<>>) \o queue = (hand \o queue) \o <<>>
    BY <1>0, <2>2, ConcatEmptySeq
  <2> QED  BY <1>3, <2>1, <2>3
<1>7. ASSUME NEW w \in Writers, PushRefused(w) PROVE QueueKeepsOrder'
  BY <1>3, <1>7 DEF PushRefused
<1>8. ASSUME NEW w \in Writers, Push(w) PROVE QueueKeepsOrder'
  <2> DEFINE l == This(w)
  <2>1. l \in Line
    BY <1>8, ThisIsLine DEF Push
  <2>2. /\ queue' = Append(queue, l) /\ pushed' = Append(pushed, l) /\ cleared = <<>> /\ UNCHANGED <<file, hand, cleared>>
    BY <1>8 DEF Push, Enqueued, Stages, disposed
  <2> HIDE DEF l
  <2>3. /\ pushed' \in Seq(Line) /\ Len(pushed') = Len(pushed) + 1 /\ pushed'[Len(pushed) + 1] = l
        /\ \A i \in 1 .. Len(pushed) : pushed'[i] = pushed[i]
    BY <1>0, <2>1, <2>2
  <2>4. ASSUME NEW i \in 1 .. n, file[i].queued
        PROVE  file[i].line = pushed'[Taken(i)]
    <3>1. Taken(i) \in 1 .. Len(pushed)
      <4>1. Taken(i) \in Nat /\ Taken(i) # 0
        <5>1. i \in 0 .. n
          BY <1>0
        <5>2. i \in {j \in 1 .. i : file[j].queued} /\ IsFiniteSet({j \in 1 .. i : file[j].queued})
          <6>1. i \in Nat /\ i \in 1 .. i /\ IsFiniteSet(1 .. i)
            BY <5>1, FS_Interval
          <6>2. {j \in 1 .. i : file[j].queued} \subseteq 1 .. i
            OBVIOUS
          <6> QED  BY <2>4, <6>1, <6>2, FS_Subset
        <5>3. Cardinality({j \in 1 .. i : file[j].queued}) # 0
          BY <5>2, FS_EmptySet
        <5> QED  BY <5>1, <5>3, TakenIs DEF Taken
      <4>2. Taken(i) <= k
        <5>1. {j \in 1 .. i : file[j].queued} \subseteq {j \in 1 .. n : file[j].queued}
          BY <1>0
        <5>2. IsFiniteSet({j \in 1 .. n : file[j].queued})
          <6>1. {j \in 1 .. n : file[j].queued} \subseteq 1 .. n /\ IsFiniteSet(1 .. n)
            BY <1>0, FS_Interval
          <6> QED  BY <6>1, FS_Subset
        <5> QED  BY <5>1, <5>2, FS_Subset DEF Taken
      <4> QED  BY <1>0, <1>1, <1>2, <4>1, <4>2
    <3> QED  BY <1>2, <2>3, <2>4, <3>1
  <2>5. SubSeq(pushed', k + 1, Len(pushed')) = hand' \o queue' \o cleared'
    <3>1. SubSeq(pushed', k + 1, Len(pushed')) = SubSeq(pushed', k + 1, Len(pushed)) \o <<l>>
      <4>1. k + 1 \in 1 .. Len(pushed') /\ Len(pushed') \in k + 1 .. Len(pushed') /\ Len(pushed') - 1 = Len(pushed)
        BY <1>0, <1>1, <1>2, <2>3
      <4> QED  BY <2>3, <4>1, SubSeqRecursiveSecond
    <3>2. SubSeq(pushed', k + 1, Len(pushed)) = SubSeq(pushed, k + 1, Len(pushed))
      <4>1. Len(pushed) <= Len(pushed') /\ Len(pushed) <= Len(pushed)
        BY <1>0, <2>3
      <4>2. /\ pushed' \in Seq(Line) /\ pushed \in Seq(Line) /\ k \in Nat /\ Len(pushed) \in Nat /\ k <= Len(pushed)
            /\ \A i \in 1 .. Len(pushed) : pushed'[i] = pushed[i]
        BY <1>0, <1>1, <1>2, <2>3
      <4> QED  BY ONLY <4>1, <4>2, SamePart
    <3>3. rest = hand \o queue
      <4>1. hand \o queue \in Seq(Line)
        BY <1>0, ConcatProperties
      <4> QED  BY <2>2, <4>1, ConcatEmptySeq
    <3>4. (hand \o queue) \o <<l>> = hand \o (queue \o <<l>>) /\ queue \o <<l>> = Append(queue, l) /\ Append(queue, l) \in Seq(Line)
      <4>1. <<l>> \in Seq(Line)
        BY <2>1
      <4>2. queue \in Seq(Line) /\ hand \in Seq(Line)
        BY <1>0
      <4>3. (hand \o queue) \o <<l>> = hand \o (queue \o <<l>>)
        BY <4>1, <4>2, ConcatAssociative
      <4>4. queue \o <<l>> = Append(queue, l)
        BY <2>1, <4>2, AppendIsConcat
      <4>5. Append(queue, l) \in Seq(Line)
        BY <2>1, <4>2, AppendProperties
      <4> QED  BY <4>3, <4>4, <4>5
    <3>5. hand \o Append(queue, l) \in Seq(Line)
      BY <1>0, <3>4, ConcatProperties
    <3>6. hand' \o queue' \o cleared' = hand \o Append(queue, l)
      BY <2>2, <3>5, ConcatEmptySeq
    <3> HIDE DEF rest
    <3> QED  BY <1>2, <3>1, <3>2, <3>3, <3>4, <3>6
  <2>6. Taken(n)' = k /\ \A i \in 1 .. n : Taken(i)' = Taken(i)
    BY <2>2 DEF Taken
  <2>7. k <= Len(pushed')
    BY <1>0, <1>1, <1>2, <2>3
  <2> QED  BY <1>0, <2>2, <2>4, <2>5, <2>6, <2>7 DEF QueueKeepsOrder
<1>9. ASSUME NEW w \in Writers, WriteThrough(w) PROVE QueueKeepsOrder'
  <2> DEFINE e == [line |-> This(w), name |-> fp, queued |-> FALSE]
  <2>1. e \in Entry /\ ~e.queued
    BY <1>9, ThisIsLine DEF WriteThrough, Entry, TypeOK
  <2>2. file' = Append(file, e) /\ UNCHANGED <<hand, queue, pushed, cleared>>
    BY <1>9 DEF WriteThrough, Written, disposed
  <2> HIDE DEF e
  <2>3. /\ Len(file') = n + 1 /\ file'[n + 1] = e /\ \A i \in 1 .. n : file'[i] = file[i]
        /\ \A i \in 0 .. n : Taken(i)' = Taken(i)
        /\ Taken(n + 1)' = k /\ DOMAIN file' = 1 .. n + 1
    BY <2>1, <2>2, TakenNext
  <2>4. ASSUME NEW i \in 1 .. n + 1, file'[i].queued
        PROVE  file'[i].line = pushed[Taken(i)']
    <3>1. i \in 1 .. n /\ i \in 0 .. n
      BY <1>0, <2>1, <2>3, <2>4
    <3> QED  BY <1>2, <2>3, <2>4, <3>1
  <2>5. Taken(Len(file))' = k
    <3>1. Taken(Len(file))' = Cardinality({j \in 1 .. Len(file') : file'[j].queued})
      BY DEF Taken
    <3>2. Taken(n + 1)' = Cardinality({j \in 1 .. n + 1 : file'[j].queued})
      BY DEF Taken
    <3> QED  BY <2>3, <3>1, <3>2
  <2> QED  BY <1>2, <2>2, <2>3, <2>4, <2>5 DEF QueueKeepsOrder
<1>10. CASE WriteLine
  <2> DEFINE x == hand[1]
             e == [line |-> x, name |-> fp, queued |-> TRUE]
  <2>1. x \in Line /\ Len(hand) = 1 /\ hand = <<x>>
    <3>1. hand \in Seq(Line) /\ Len(hand) = 1
      BY <1>10 DEF WriteLine, Holding, TypeOK
    <3>2. hand[1] \in Line
      <4>1. 1 \in 1 .. Len(hand)
        BY <3>1
      <4> QED  BY <3>1, <4>1, ElementOfSeq
    <3>3. hand = <<hand[1]>>
      <4>1. <<hand[1]>> \in Seq(Line) /\ Len(<<hand[1]>>) = 1 /\ \A i \in 1 .. 1 : hand[i] = <<hand[1]>>[i]
        BY <3>2
      <4> QED  BY <3>1, <4>1, SeqEqual
    <3> QED  BY <3>1, <3>2, <3>3
  <2>2. file' = Append(file, e) /\ hand' = <<>> /\ UNCHANGED <<queue, pushed, cleared>>
    BY <1>10 DEF WriteLine, Written, disposed
  <2> HIDE DEF x
  <2>3. e \in Entry /\ e.queued /\ e.line = x
    BY <2>1 DEF Entry, TypeOK
  <2> HIDE DEF e
  <2>4. /\ Len(file') = n + 1 /\ file'[n + 1] = e /\ \A i \in 1 .. n : file'[i] = file[i]
        /\ \A i \in 0 .. n : Taken(i)' = Taken(i)
        /\ Taken(n + 1)' = k + 1 /\ DOMAIN file' = 1 .. n + 1
    BY <2>2, <2>3, TakenNext
  <2>5. /\ queue \o cleared \in Seq(Line) /\ rest = <<x>> \o (queue \o cleared)
        /\ hand' \o queue' \o cleared' = queue \o cleared
    <3>1. <<x>> \in Seq(Line) /\ queue \o cleared \in Seq(Line)
      BY <1>0, <2>1, ConcatProperties
    <3>2. rest = <<x>> \o (queue \o cleared)
      BY <1>0, <2>1, <3>1, ConcatAssociative
    <3>3. <<>> \o queue = queue
      BY <1>0, ConcatEmptySeq
    <3> QED  BY <2>2, <3>1, <3>2, <3>3
  <2> DEFINE t == queue \o cleared
  <2>6. Len(<<x>> \o t) = 1 + Len(t) /\ Len(t) \in Nat /\ (<<x>> \o t)[1] = x /\ Tail(<<x>> \o t) = t
    <3>1. <<x>> \in Seq(Line) /\ t \in Seq(Line)
      BY <2>1, <2>5
    <3> HIDE DEF t
    <3>2. Len(<<x>> \o t) = 1 + Len(t) /\ Len(t) \in Nat /\ (<<x>> \o t)[1] = x
      BY <3>1
    <3>3. Tail(<<x>> \o t) = t
      BY <3>1
    <3> QED  BY <3>2, <3>3
  <2> HIDE DEF rest, t
  <2>7. Len(rest) = Len(pushed) - k /\ Len(rest) >= 1
    <3>1. SubSeq(pushed, k + 1, Len(pushed)) = rest /\ k + 1 \in Int /\ Len(pushed) \in Int
      BY <1>0, <1>1, <1>2
    <3>2. Len(rest) = Len(pushed) - k
      BY <1>0, <1>1, <1>2, <3>1
    <3> QED  BY <2>5, <2>6, <3>2 DEF t
  <2>8. k + 1 \in 1 .. Len(pushed)
    BY <1>0, <1>1, <2>7
  <2>9. pushed[k + 1] = x /\ SubSeq(pushed, k + 2, Len(pushed)) = t
    <3>1. Len(pushed) \in k + 1 .. Len(pushed)
      BY <1>0, <2>8
    <3>2. Head(rest) = pushed[k + 1] /\ Tail(rest) = SubSeq(pushed, (k + 1) + 1, Len(pushed))
      BY <1>0, <1>2, <2>8, <3>1, HeadTailOfSubSeq
    <3>3. Head(<<x>> \o t) = (<<x>> \o t)[1]
      OBVIOUS
    <3>4. (k + 1) + 1 = k + 2
      BY <1>1
    <3> QED  BY <2>5, <2>6, <3>2, <3>3, <3>4 DEF t
  <2>10. ASSUME NEW i \in 1 .. n + 1, file'[i].queued
         PROVE  file'[i].line = pushed[Taken(i)']
    <3>1. CASE i \in 1 .. n
      <4>1. i \in 0 .. n
        BY <1>0, <3>1
      <4> QED  BY <1>2, <2>4, <2>10, <3>1, <4>1
    <3>2. CASE i = n + 1
      BY <2>3, <2>4, <2>9, <3>2
    <3> QED  BY <1>0, <3>1, <3>2
  <2>11. Taken(Len(file))' = k + 1 /\ k + 1 <= Len(pushed) /\ (k + 1) + 1 = k + 2
    <3>1. Taken(Len(file))' = Cardinality({j \in 1 .. Len(file') : file'[j].queued})
      BY DEF Taken
    <3>2. Taken(n + 1)' = Cardinality({j \in 1 .. n + 1 : file'[j].queued})
      BY DEF Taken
    <3>3. Taken(Len(file))' = k + 1
      BY <2>4, <3>1, <3>2
    <3> QED  BY <1>0, <1>1, <2>8, <3>3
  <2> QED  BY <2>2, <2>4, <2>5, <2>9, <2>10, <2>11 DEF QueueKeepsOrder, t
<1> QED  BY <1>4, <1>5, <1>6, <1>7, <1>8, <1>9, <1>10, WhoMoves

-----------------------------------------------------------------------------
(* The write thread, the writers, the destructor and the room in the queue. *)

LEMMA HoldingKept ==
    ASSUME TypeOK, Holding, [Next]_vars
    PROVE  Holding'
<1>0. ASSUME hand' = hand, thread' = "hand" <=> thread = "hand" PROVE Holding'
  BY <1>0 DEF Holding
<1>1. Notified(thread) = "hand" <=> thread = "hand"
  BY NotifiedType DEF TypeOK
<1>2. CASE Pop
  <2>1. hand' = <<Head(queue)>> /\ thread' = "hand"
    BY <1>2 DEF Pop
  <2>2. Len(hand') = 1
    BY <2>1
  <2> QED  BY <2>1, <2>2 DEF Holding
<1>3. CASE WriteLine
  BY <1>3 DEF WriteLine, Holding
<1>4. CASE PopWaits \/ PopEnds \/ SpuriousWakeup
  BY <1>0, <1>4 DEF PopWaits, PopEnds, SpuriousWakeup
<1>5. ASSUME NEW w \in Writers, Begin(w) \/ Check(w) \/ Compose(w) \/ WriteThrough(w) \/ PushRefused(w)
      PROVE  Holding'
  BY <1>0, <1>5 DEF Begin, Check, Compose, WriteThrough, PushRefused
<1>6. ASSUME NEW w \in Writers, Rotate(w) \/ Push(w)
      PROVE  Holding'
  BY <1>0, <1>1, <1>6 DEF Rotate, Push
<1>7. CASE InitAgain
  BY <1>0, <1>1, <1>7 DEF InitAgain
<1>8. CASE Destroy \/ DrainEnds \/ Join \/ CloseFile \/ Midnight
  BY <1>0, <1>8 DEF Destroy, DrainEnds, Join, CloseFile, Midnight
<1>9. CASE Drain \/ CloseQueue
  BY <1>0, <1>1, <1>9 DEF Drain, CloseQueue
<1>10. CASE UNCHANGED vars
  BY <1>0, <1>10 DEF vars
<1> QED  BY <1>2, <1>3, <1>4, <1>5, <1>6, <1>7, <1>8, <1>9, <1>10 DEF Next, Write, AsyncWrite, Destructor

\* Who begins, returns or makes the destructor's promise.
LEMMA CallsKept ==
    ASSUME TypeOK, Calls, [Next]_vars
    PROVE  Calls'
<1>0. /\ pc \in [Writers -> {"idle", "check", "rotate", "append", "push"}] /\ MaxWrites \in [Writers -> Nat]
      /\ over \in [Writers -> Nat] /\ promised \in [Writers -> Nat]
  BY LogAssumption DEF TypeOK
<1>1. ASSUME NEW w \in Writers, Begin(w) PROVE Calls'
  BY <1>0, <1>1 DEF Begin, disposed, Calls
<1>2. ASSUME NEW w \in Writers, Check(w) \/ Rotate(w) \/ Compose(w) PROVE Calls'
  <2>1. /\ UNCHANGED <<over, promised>> /\ pc[w] # "idle"
        /\ \A v \in Writers : v # w => pc'[v] = pc[v]
    BY <1>0, <1>2 DEF Check, Rotate, Compose, disposed
  <2> QED  BY <2>1 DEF Calls
<1>3. ASSUME NEW w \in Writers, WriteThrough(w) \/ Push(w) \/ PushRefused(w) PROVE Calls'
  <2>1. Returned(w) /\ promised' = promised /\ pc[w] # "idle"
    BY <1>3 DEF WriteThrough, Push, PushRefused, disposed
  <2>2. /\ over'[w] = over[w] + 1 /\ pc'[w] = "idle"
        /\ \A v \in Writers : v # w => over'[v] = over[v] /\ pc'[v] = pc[v]
    BY <1>0, <2>1 DEF Returned
  <2>3. ASSUME NEW v \in Writers
        PROVE  over'[v] <= MaxWrites[v] /\ promised'[v] <= over'[v] /\ (pc'[v] # "idle" => over'[v] < MaxWrites[v])
    BY <1>0, <2>1, <2>2 DEF Calls
  <2> QED  BY <2>3 DEF Calls
<1>4. CASE Pop \/ PopWaits \/ PopEnds \/ WriteLine \/ SpuriousWakeup \/ Midnight
  BY <1>4 DEF Pop, PopWaits, PopEnds, WriteLine, SpuriousWakeup, Midnight, writing, disposed, Calls
<1>5. CASE InitAgain
  BY <1>5 DEF InitAgain, writing, disposed, Calls
<1>6. CASE Destroy
  BY <1>0, <1>6 DEF Destroy, writing, Calls
<1>7. CASE Drain \/ DrainEnds \/ CloseQueue \/ Join \/ CloseFile
  BY <1>7 DEF Drain, DrainEnds, CloseQueue, Join, CloseFile, writing, disposed, Calls
<1>8. CASE UNCHANGED vars
  BY <1>8 DEF vars, writing, disposed, Calls
<1> QED  BY <1>1, <1>2, <1>3, <1>4, <1>5, <1>6, <1>7, <1>8 DEF Next, Write, AsyncWrite, Destructor

\* The steps of the destructor; the others do not touch what it keeps.
LEMMA WhoDestroys ==
    ASSUME [Next]_vars
    PROVE  UNCHANGED <<dtor, promised, closed, cleared>> \/ Destroy \/ DrainEnds \/ CloseQueue \/ Join \/ CloseFile
<1>1. ASSUME NEW w \in Writers, Begin(w) \/ Write(w) PROVE UNCHANGED <<dtor, promised, closed, cleared>>
  BY <1>1 DEF Begin, Write, Check, Rotate, Compose, WriteThrough, Push, PushRefused, disposed
<1>2. CASE AsyncWrite \/ SpuriousWakeup
  BY <1>2 DEF AsyncWrite, Pop, PopWaits, PopEnds, WriteLine, SpuriousWakeup, disposed
<1>3. CASE InitAgain \/ Midnight \/ Drain
  BY <1>3 DEF InitAgain, Midnight, Drain, disposed
<1>4. CASE UNCHANGED vars
  BY <1>4 DEF vars, disposed
<1> QED  BY <1>1, <1>2, <1>3, <1>4 DEF Next, Destructor

LEMMA StagesKept ==
    ASSUME TypeOK, Stages, [Next]_vars
    PROVE  Stages'
<1>1. CASE CloseQueue
  BY <1>1 DEF CloseQueue, Stages
<1>2. ASSUME ~CloseQueue PROVE closed' = closed /\ cleared' = cleared
  BY <1>2, WhoDestroys DEF Destroy, DrainEnds, Join, CloseFile
<1>3. ASSUME ~CloseQueue, closed PROVE dtor' \in {"join", "flush", "over"} /\ queue' = <<>>
  <2>1. dtor \in {"join", "flush", "over"} /\ queue = <<>>
    BY <1>3 DEF Stages
  <2>2. dtor' \in {"join", "flush", "over"}
    BY <1>3, <2>1, WhoDestroys DEF Destroy, DrainEnds, Join, CloseFile
  <2>3. queue' = queue
    <3>1. CASE Quiet
      BY <3>1 DEF Quiet
    <3>2. ~Pop
      BY <2>1 DEF Pop
    <3>3. CASE WriteLine
      BY <3>3 DEF WriteLine
    <3>4. ASSUME NEW w \in Writers PROVE ~Push(w)
      BY <1>3 DEF Push
    <3>5. ASSUME NEW w \in Writers, WriteThrough(w) \/ PushRefused(w) PROVE queue' = queue
      BY <3>5 DEF WriteThrough, PushRefused
    <3> QED  BY <1>3, <3>1, <3>2, <3>3, <3>4, <3>5, WhoMoves
  <2> QED  BY <2>1, <2>2, <2>3
<1>4. ASSUME ~CloseQueue, ~closed PROVE cleared' = <<>> /\ refused' = {}
  <2>1. cleared = <<>> /\ refused = {}
    BY <1>4 DEF Stages
  <2>2. refused' = refused
    <3>1. CASE Quiet
      BY <3>1 DEF Quiet
    <3>2. CASE Pop \/ WriteLine
      BY <3>2 DEF Pop, WriteLine, disposed
    <3>3. ASSUME NEW w \in Writers PROVE ~PushRefused(w)
      BY <1>4 DEF PushRefused
    <3>4. ASSUME NEW w \in Writers, WriteThrough(w) \/ Push(w) PROVE refused' = refused
      BY <3>4 DEF WriteThrough, Push, disposed
    <3> QED  BY <1>4, <3>1, <3>2, <3>3, <3>4, WhoMoves
  <2> QED  BY <1>2, <1>4, <2>1, <2>2
<1> QED  BY <1>1, <1>2, <1>3, <1>4 DEF Stages

\* full() was tested in the critical section in which push comes, and whoever
\* takes from the queue or closes it only makes room.
LEMMA RoomKept ==
    ASSUME TypeOK, Stages, Room, [Next]_vars
    PROVE  Room'
<1>0. /\ pc \in [Writers -> {"idle", "check", "rotate", "append", "push"}] /\ queue \in Seq(Line)
      /\ Len(queue) \in Nat /\ Capacity \in Nat
  BY LogAssumption DEF TypeOK
<1>1. ASSUME \A v \in Writers : pc'[v] = "push" => pc[v] = "push",
             closed' = closed, Len(queue') <= Len(queue), Len(queue') \in Nat
      PROVE  Room'
  BY <1>0, <1>1 DEF Room, PushNeverWaits
<1>2. ASSUME NEW w \in Writers, Begin(w) \/ Check(w) \/ Rotate(w) PROVE Room'
  <2>1. \A v \in Writers : pc'[v] = "push" => pc[v] = "push"
    BY <1>0, <1>2 DEF Begin, Check, Rotate
  <2>2. UNCHANGED <<closed, queue>>
    BY <1>2 DEF Begin, Check, Rotate
  <2> QED  BY <1>0, <1>1, <2>1, <2>2
<1>3. ASSUME NEW w \in Writers, Compose(w) PROVE Room'
  <2>1. /\ \A v \in Writers : pc'[v] = "push" => v = w
        /\ Len(queue) < Capacity /\ queue' = queue
    BY <1>0, <1>3 DEF Compose, MtxFree, Full
  <2> QED  BY <2>1 DEF Room, PushNeverWaits
<1>4. ASSUME NEW w \in Writers, WriteThrough(w) \/ PushRefused(w) PROVE Room'
  <2>1. Returned(w) /\ UNCHANGED <<closed, queue>>
    BY <1>4 DEF WriteThrough, PushRefused
  <2>2. \A v \in Writers : pc'[v] = "push" => pc[v] = "push"
    BY <1>0, <2>1 DEF Returned
  <2> QED  BY <1>0, <1>1, <2>1, <2>2
<1>5. ASSUME NEW w \in Writers, Push(w) PROVE Room'
  <2>1. Returned(w) /\ pc[w] = "push"
    BY <1>5 DEF Push
  <2>2. \A v \in Writers : pc'[v] = "push" => v # w /\ pc[v] = "push"
    BY <1>0, <2>1 DEF Returned
  <2>3. \A v \in Writers : pc'[v] # "push"
    BY <2>1, <2>2 DEF Room
  <2> QED  BY <2>3 DEF Room, PushNeverWaits
<1>6. CASE Pop
  <2>1. UNCHANGED <<pc, closed>> /\ queue # <<>> /\ queue' = Tail(queue)
    BY <1>6 DEF Pop, writing
  <2>2. Len(queue') = Len(queue) - 1 /\ Len(queue) # 0
    BY <1>0, <2>1
  <2> QED  BY <1>0, <1>1, <2>1, <2>2
<1>7. CASE PopWaits \/ PopEnds \/ SpuriousWakeup \/ WriteLine \/ Midnight
  <2>1. UNCHANGED <<pc, closed, queue>>
    BY <1>7 DEF PopWaits, PopEnds, SpuriousWakeup, WriteLine, Midnight, writing
  <2> QED  BY <1>0, <1>1, <2>1
<1>8. CASE InitAgain \/ Destroy \/ Drain \/ DrainEnds \/ Join \/ CloseFile
  <2>1. UNCHANGED <<pc, closed, queue>>
    BY <1>8 DEF InitAgain, Destroy, Drain, DrainEnds, Join, CloseFile, writing
  <2> QED  BY <1>0, <1>1, <2>1
<1>9. CASE CloseQueue
  <2>1. pc' = pc /\ closed' = TRUE
    BY <1>9 DEF CloseQueue, writing
  <2> QED  BY <2>1 DEF Room, PushNeverWaits
<1>10. CASE UNCHANGED vars
  <2>1. UNCHANGED <<pc, closed, queue>>
    BY <1>10 DEF vars, writing
  <2> QED  BY <1>0, <1>1, <2>1
<1> QED  BY <1>2, <1>3, <1>4, <1>5, <1>6, <1>7, <1>8, <1>9, <1>10 DEF Next, Write, AsyncWrite, Destructor

-----------------------------------------------------------------------------
(* Where the steps move the lines.                                         *)

LEMMA FreshLine ==
    ASSUME TypeOK, Calls, Accounted, NEW w \in Writers, pc[w] # "idle"
    PROVE  /\ This(w) \in Line /\ This(w)[1] = w /\ This(w)[2] = over[w] + 1 /\ over[w] \in Nat
           /\ This(w) \notin Places
<1>1. This(w) \in Line /\ This(w)[1] = w /\ This(w)[2] = over[w] + 1 /\ over[w] \in Nat
  BY ThisIsLine DEF TypeOK
<1>2. ~(over[w] + 1 <= over[w])
  BY <1>1
<1> QED  BY <1>1, <1>2 DEF Accounted

LEMMA PopMoves ==
    ASSUME TypeOK, Holding, Distinct, Pop
    PROVE  /\ Head(queue) \in InQueue /\ InHand = {}
           /\ InHand' = {Head(queue)} /\ InQueue' = InQueue \ {Head(queue)}
           /\ Disk' = Disk /\ Lost' = Lost
           /\ \A i, j \in DOMAIN queue' : queue'[i] = queue'[j] => i = j
<1>1. /\ queue \in Seq(Line) /\ queue # <<>> /\ hand' = <<Head(queue)>> /\ queue' = Tail(queue) /\ hand = <<>>
      /\ UNCHANGED <<file, cleared, refused>>
  BY DEF TypeOK, Pop, Holding, disposed
<1>2. /\ Len(queue) \in Nat \ {0} /\ Head(queue) = queue[1] /\ DOMAIN queue = 1 .. Len(queue)
      /\ DOMAIN queue' = 1 .. Len(queue) - 1 /\ \A i \in 1 .. Len(queue) - 1 : queue'[i] = queue[i + 1]
  BY <1>1
<1>3. Head(queue) \in InQueue
  BY <1>2 DEF InQueue
<1>4. InHand = {} /\ InHand' = {Head(queue)}
  BY <1>1 DEF InHand
<1>5. InQueue' = InQueue \ {Head(queue)}
  <2>1. ASSUME NEW l \in InQueue'
        PROVE  l \in InQueue \ {Head(queue)}
    <3>1. PICK i \in 1 .. Len(queue) - 1 : l = queue'[i]
      BY <1>2 DEF InQueue
    <3>2. l = queue[i + 1] /\ i + 1 \in 1 .. Len(queue) /\ 1 \in 1 .. Len(queue) /\ i + 1 # 1
      BY <1>2, <3>1
    <3>3. l # queue[1]
      BY <1>2, <3>2 DEF Distinct
    <3> QED  BY <1>2, <3>2, <3>3 DEF InQueue
  <2>2. ASSUME NEW l \in InQueue \ {Head(queue)}
        PROVE  l \in InQueue'
    <3>1. PICK i \in 1 .. Len(queue) : l = queue[i]
      BY <1>2 DEF InQueue
    <3>2. i # 1
      BY <1>2, <3>1
    <3>3. i - 1 \in 1 .. Len(queue) - 1 /\ (i - 1) + 1 = i
      BY <1>2, <3>2
    <3>4. queue'[i - 1] = l
      BY <1>2, <3>1, <3>3
    <3> QED  BY <1>2, <3>3, <3>4 DEF InQueue
  <2> QED  BY <2>1, <2>2
<1>6. Disk' = Disk /\ Lost' = Lost
  BY <1>1 DEF Disk, Lost
<1>7. ASSUME NEW i \in DOMAIN queue', NEW j \in DOMAIN queue', queue'[i] = queue'[j]
      PROVE  i = j
  <2>1. i \in 1 .. Len(queue) - 1 /\ j \in 1 .. Len(queue) - 1
    BY <1>2, <1>7
  <2>2. i + 1 \in DOMAIN queue /\ j + 1 \in DOMAIN queue /\ queue[i + 1] = queue[j + 1]
    BY <1>2, <1>7, <2>1
  <2>3. i + 1 = j + 1
    BY <2>2 DEF Distinct
  <2> QED  BY <2>1, <2>3
<1> QED  BY <1>3, <1>4, <1>5, <1>6, <1>7

\* The line that an entry appended to the file adds to the lines on disk.
LEMMA DiskGrows ==
    ASSUME TypeOK, NEW e \in Entry, file' = Append(file, e)
    PROVE  /\ Disk' = Disk \cup {e.line}
           /\ Distinct /\ e.line \notin Disk => \A i, j \in DOMAIN file' : file'[i].line = file'[j].line => i = j
<1> PICK n : n = Len(file)
  OBVIOUS
<1>1. /\ n \in Nat /\ DOMAIN file = 1 .. n /\ DOMAIN file' = 1 .. n + 1 /\ file'[n + 1] = e
      /\ \A i \in 1 .. n : file'[i] = file[i]
  BY TakenNext DEF TypeOK
<1>2. \A i : i \in 1 .. n + 1 <=> i \in 1 .. n \/ i = n + 1
  BY <1>1
<1>3. Disk' = Disk \cup {e.line}
  BY <1>1, <1>2 DEF Disk
<1>4. ASSUME Distinct, e.line \notin Disk, NEW i \in DOMAIN file', NEW j \in DOMAIN file', file'[i].line = file'[j].line
      PROVE  i = j
  <2>1. \A m \in 1 .. n : file'[m].line # e.line
    BY <1>1, <1>4 DEF Disk
  <2> QED  BY <1>1, <1>2, <1>4, <2>1 DEF Distinct
<1> QED  BY <1>3, <1>4

LEMMA WriteLineMoves ==
    ASSUME TypeOK, Holding, WriteLine
    PROVE  /\ hand[1] \in Line /\ InHand = {hand[1]} /\ InHand' = {} /\ Disk' = Disk \cup {hand[1]}
           /\ InQueue' = InQueue /\ Lost' = Lost /\ queue' = queue
           /\ Distinct /\ hand[1] \notin Disk => \A i, j \in DOMAIN file' : file'[i].line = file'[j].line => i = j
<1>1. hand \in Seq(Line) /\ Len(hand) = 1
  BY DEF WriteLine, Holding, TypeOK
<1>2. hand[1] \in Line /\ DOMAIN hand = {1}
  BY <1>1
<1> DEFINE e == [line |-> hand[1], name |-> fp, queued |-> TRUE]
<1>3. file' = Append(file, e) /\ hand' = <<>> /\ UNCHANGED <<queue, cleared, refused>>
  BY DEF WriteLine, Written, disposed
<1>4. e \in Entry /\ e.line = hand[1]
  BY <1>2 DEF Entry, TypeOK
<1> HIDE DEF e
<1>5. InHand = {hand[1]} /\ InHand' = {}
  BY <1>2, <1>3 DEF InHand
<1> QED  BY <1>2, <1>3, <1>4, <1>5, DiskGrows DEF InQueue, Lost

LEMMA WriteThroughMoves ==
    ASSUME TypeOK, Calls, Accounted, NEW w \in Writers, WriteThrough(w)
    PROVE  /\ Disk' = Disk \cup {This(w)} /\ InHand' = InHand /\ InQueue' = InQueue /\ Lost' = Lost /\ queue' = queue
           /\ Distinct => \A i, j \in DOMAIN file' : file'[i].line = file'[j].line => i = j
<1> DEFINE e == [line |-> This(w), name |-> fp, queued |-> FALSE]
<1>1. This(w) \in Line /\ This(w) \notin Disk
  BY FreshLine DEF WriteThrough, Places
<1>2. file' = Append(file, e) /\ UNCHANGED <<hand, queue, cleared, refused>>
  BY DEF WriteThrough, Written, disposed
<1>3. e \in Entry /\ e.line = This(w)
  BY <1>1 DEF Entry, TypeOK
<1> HIDE DEF e
<1> QED  BY <1>1, <1>2, <1>3, DiskGrows DEF InHand, InQueue, Lost

LEMMA PushMoves ==
    ASSUME TypeOK, Calls, Accounted, NEW w \in Writers, Push(w)
    PROVE  /\ InQueue' = InQueue \cup {This(w)} /\ InHand' = InHand /\ Disk' = Disk /\ Lost' = Lost /\ file' = file
           /\ Distinct => \A i, j \in DOMAIN queue' : queue'[i] = queue'[j] => i = j
<1> DEFINE l == This(w)
<1>1. l \in Line /\ l \notin InQueue
  BY FreshLine DEF Push, Places
<1>2. queue' = Append(queue, l) /\ UNCHANGED <<hand, file, cleared, refused>>
  BY DEF Push, Enqueued, disposed
<1> HIDE DEF l
<1> PICK n : n = Len(queue)
  OBVIOUS
<1>3. /\ n \in Nat /\ DOMAIN queue = 1 .. n /\ DOMAIN queue' = 1 .. n + 1 /\ queue'[n + 1] = l
      /\ \A i \in 1 .. n : queue'[i] = queue[i]
  BY <1>1, <1>2 DEF TypeOK
<1>4. \A i : i \in 1 .. n + 1 <=> i \in 1 .. n \/ i = n + 1
  BY <1>3
<1>5. InQueue' = InQueue \cup {l}
  BY <1>3, <1>4 DEF InQueue
<1>6. ASSUME Distinct, NEW i \in DOMAIN queue', NEW j \in DOMAIN queue', queue'[i] = queue'[j]
      PROVE  i = j
  <2>1. \A m \in 1 .. n : queue'[m] # l
    BY <1>1, <1>3 DEF InQueue
  <2> QED  BY <1>3, <1>4, <1>6, <2>1 DEF Distinct
<1> QED  BY <1>2, <1>5, <1>6 DEF InHand, Disk, Lost, l

LEMMA RefusedMoves ==
    ASSUME NEW w \in Writers, PushRefused(w)
    PROVE  /\ Lost' = Lost \cup {This(w)} /\ InHand' = InHand /\ Disk' = Disk /\ InQueue' = InQueue
           /\ UNCHANGED <<file, queue>>
BY DEF PushRefused, InHand, Disk, InQueue, Lost

LEMMA CloseMoves ==
    ASSUME TypeOK, Stages, CloseQueue
    PROVE  /\ Lost' = Lost \cup InQueue /\ InQueue' = {} /\ InHand' = InHand /\ Disk' = Disk
           /\ queue' = <<>> /\ file' = file
<1>1. ~closed
  BY DEF Stages, CloseQueue
<1>2. cleared = <<>> /\ cleared' = queue /\ queue' = <<>> /\ UNCHANGED <<file, hand, refused>>
  BY <1>1 DEF Stages, CloseQueue
<1> QED  BY <1>2 DEF InHand, Disk, InQueue, Lost

-----------------------------------------------------------------------------
(* No line is twice, none is forgotten, and none is lost but to the         *)
(* destructor.                                                              *)

LEMMA DistinctKept ==
    ASSUME TypeOK, Holding, Calls, Stages, Distinct, Accounted, [Next]_vars
    PROVE  Distinct'
<1>0. /\ Disk \cap InHand = {} /\ Disk \cap InQueue = {} /\ Disk \cap Lost = {}
      /\ InHand \cap InQueue = {} /\ InHand \cap Lost = {} /\ InQueue \cap Lost = {}
  BY DEF Distinct
<1>1. ASSUME NEW w \in Writers, pc[w] # "idle"
      PROVE  This(w) \notin Disk /\ This(w) \notin InHand /\ This(w) \notin InQueue /\ This(w) \notin Lost
  BY <1>1, FreshLine DEF Places
<1>2. CASE Quiet
  <2>1. UNCHANGED <<file, queue>>
    BY <1>2 DEF Quiet
  <2> QED  BY <1>2, <2>1, QuietPlaces DEF Distinct
<1>3. CASE Pop
  <2>1. file' = file
    BY <1>3 DEF Pop
  <2> QED  BY <1>0, <1>3, <2>1, PopMoves DEF Distinct
<1>4. CASE WriteLine
  BY <1>0, <1>4, WriteLineMoves DEF Distinct
<1>5. CASE CloseQueue
  <2>1. \A i, j \in DOMAIN queue' : queue'[i] = queue'[j] => i = j
    BY <1>5, CloseMoves
  <2> QED  BY <1>0, <1>5, <2>1, CloseMoves DEF Distinct
<1>6. ASSUME NEW w \in Writers, WriteThrough(w) PROVE Distinct'
  <2>1. pc[w] # "idle"
    BY <1>6 DEF WriteThrough
  <2> QED  BY <1>0, <1>1, <1>6, <2>1, WriteThroughMoves DEF Distinct
<1>7. ASSUME NEW w \in Writers, Push(w) PROVE Distinct'
  <2>1. pc[w] # "idle"
    BY <1>7 DEF Push
  <2> QED  BY <1>0, <1>1, <1>7, <2>1, PushMoves DEF Distinct
<1>8. ASSUME NEW w \in Writers, PushRefused(w) PROVE Distinct'
  <2>1. pc[w] # "idle"
    BY <1>8 DEF PushRefused
  <2> QED  BY <1>0, <1>1, <1>8, <2>1, RefusedMoves DEF Distinct
<1> QED  BY <1>2, <1>3, <1>4, <1>5, <1>6, <1>7, <1>8, WhoMoves

LEMMA AccountedKept ==
    ASSUME TypeOK, Holding, Calls, Stages, Distinct, Accounted, [Next]_vars
    PROVE  Accounted'
<1>1. ASSUME Places' = Places, over' = over PROVE Accounted'
  BY <1>1 DEF Accounted
<1>2. ASSUME NEW w \in Writers, pc[w] # "idle", Returned(w), Places' = Places \cup {This(w)}
      PROVE  Accounted'
  <2>1. /\ over \in [Writers -> Nat]
        /\ This(w) \in Line /\ This(w)[1] = w /\ This(w)[2] = over[w] + 1 /\ This(w) = <<w, over[w] + 1>>
    BY <1>2, ThisIsLine DEF TypeOK, This
  <2>2. over'[w] = over[w] + 1 /\ over[w] \in Nat /\ \A v \in Writers : v # w => over'[v] = over[v]
    BY <1>2, <2>1 DEF Returned
  <2>3. ASSUME NEW l \in Places'
        PROVE  l \in Line /\ l[2] <= over'[l[1]]
    <3>1. CASE l = This(w)
      BY <2>1, <2>2, <3>1
    <3>2. CASE l \in Places
      <4>1. l \in Line /\ l[2] <= over[l[1]]
        BY <3>2 DEF Accounted
      <4>2. l[1] \in Writers /\ l[2] \in 1 .. MaxWrites[l[1]]
        BY <4>1, LineIs
      <4>3. l[2] \in Nat /\ over[l[1]] \in Nat
        BY <2>1, <4>2, LogAssumption
      <4>4. over'[l[1]] = over[l[1]] \/ over'[l[1]] = over[l[1]] + 1
        BY <2>2, <4>2
      <4> QED  BY <4>1, <4>3, <4>4
    <3> QED  BY <1>2, <3>1, <3>2
  <2>4. ASSUME NEW v \in Writers, NEW n \in 1 .. over'[v]
        PROVE  <<v, n>> \in Places'
    <3>1. CASE n \in 1 .. over[v]
      BY <1>2, <3>1 DEF Accounted
    <3>2. CASE n \notin 1 .. over[v]
      <4>1. v = w /\ n = over[w] + 1
        BY <2>1, <2>2, <3>2
      <4> QED  BY <1>2, <2>1, <4>1
    <3> QED  BY <3>1, <3>2
  <2> QED  BY <2>3, <2>4 DEF Accounted
<1>3. CASE Quiet
  BY <1>1, <1>3, QuietPlaces DEF Quiet
<1>4. CASE Pop
  <2>1. over' = over
    BY <1>4 DEF Pop, writing
  <2>2. Places' = Places
    BY <1>4, PopMoves DEF Places
  <2> QED  BY <1>1, <2>1, <2>2
<1>5. CASE WriteLine
  <2>1. over' = over
    BY <1>5 DEF WriteLine, writing
  <2>2. Places' = Places
    BY <1>5, WriteLineMoves DEF Places
  <2> QED  BY <1>1, <2>1, <2>2
<1>6. CASE CloseQueue
  <2>1. over' = over
    BY <1>6 DEF CloseQueue, writing
  <2>2. Places' = Places
    BY <1>6, CloseMoves DEF Places
  <2> QED  BY <1>1, <2>1, <2>2
<1>7. ASSUME NEW w \in Writers, WriteThrough(w) PROVE Accounted'
  <2>1. pc[w] # "idle" /\ Returned(w)
    BY <1>7 DEF WriteThrough
  <2>2. Places' = Places \cup {This(w)}
    BY <1>7, WriteThroughMoves DEF Places
  <2> QED  BY <1>2, <2>1, <2>2
<1>8. ASSUME NEW w \in Writers, Push(w) PROVE Accounted'
  <2>1. pc[w] # "idle" /\ Returned(w)
    BY <1>8 DEF Push
  <2>2. Places' = Places \cup {This(w)}
    BY <1>8, PushMoves DEF Places
  <2> QED  BY <1>2, <2>1, <2>2
<1>9. ASSUME NEW w \in Writers, PushRefused(w) PROVE Accounted'
  <2>1. pc[w] # "idle" /\ Returned(w)
    BY <1>9 DEF PushRefused
  <2>2. Places' = Places \cup {This(w)}
    BY <1>9, RefusedMoves DEF Places
  <2> QED  BY <1>2, <2>1, <2>2
<1> QED  BY <1>3, <1>4, <1>5, <1>6, <1>7, <1>8, <1>9, WhoMoves

\* The destructor waits for an empty queue before it closes it: what is in the
\* queue at that moment was pushed after ~Log had begun.
LEMMA LateKept ==
    ASSUME TypeOK, Holding, Calls, Stages, Distinct, Accounted, Late, [Next]_vars
    PROVE  Late'
<1>1. CASE Destroy
  <2>1. Lost = {} /\ dtor' # "close" /\ Lost' = Lost
    BY <1>1 DEF Destroy, Late, Lost
  <2> QED  BY <2>1 DEF Late
<1>2. CASE DrainEnds
  <2>1. /\ InQueue' = {} /\ Lost' = Lost /\ promised' = promised /\ dtor' # "no"
    BY <1>2 DEF DrainEnds, Drained, InQueue, Lost
  <2> QED  BY <2>1 DEF Late
<1>3. CASE Join \/ CloseFile
  <2>1. Lost' = Lost /\ promised' = promised /\ dtor' \notin {"no", "close"}
    BY <1>3 DEF Join, CloseFile, Lost
  <2> QED  BY <2>1 DEF Late
<1>4. CASE CloseQueue
  <2>1. dtor = "close" /\ promised' = promised /\ dtor' \notin {"no", "close"}
    BY <1>4 DEF CloseQueue
  <2>2. Lost' = Lost \cup InQueue
    BY <1>4, CloseMoves
  <2> QED  BY <2>1, <2>2 DEF Late
<1>5. ASSUME UNCHANGED <<dtor, promised>>, Lost' = Lost, InQueue' \subseteq InQueue
      PROVE  Late'
  BY <1>5 DEF Late
<1>6. ASSUME NEW w \in Writers, pc[w] # "idle"
      PROVE  This(w)[2] > promised[This(w)[1]]
  <2>1. This(w)[1] = w /\ This(w)[2] = over[w] + 1 /\ over[w] \in Nat /\ promised[w] \in Nat
    BY <1>6, ThisIsLine DEF TypeOK
  <2>2. promised[w] <= over[w]
    BY DEF Calls
  <2> QED  BY <2>1, <2>2
<1>7. CASE UNCHANGED <<dtor, promised>>
  <2>1. CASE Quiet
    BY <1>5, <1>7, <2>1, QuietPlaces
  <2>2. CASE Pop
    <3>1. Lost' = Lost /\ InQueue' \subseteq InQueue
      BY <2>2, PopMoves
    <3> QED  BY <1>5, <1>7, <3>1
  <2>3. CASE WriteLine
    BY <1>5, <1>7, <2>3, WriteLineMoves
  <2>4. ASSUME NEW w \in Writers, WriteThrough(w) PROVE Late'
    BY <1>5, <1>7, <2>4, WriteThroughMoves
  <2>5. ASSUME NEW w \in Writers, Push(w) PROVE Late'
    <3>1. pc[w] # "idle"
      BY <2>5 DEF Push
    <3>2. Lost' = Lost /\ InQueue' = InQueue \cup {This(w)}
      BY <2>5, PushMoves
    <3> QED  BY <1>6, <1>7, <3>1, <3>2 DEF Late
  <2>6. ASSUME NEW w \in Writers, PushRefused(w) PROVE Late'
    <3>1. pc[w] # "idle" /\ closed
      BY <2>6 DEF PushRefused
    <3>2. dtor \notin {"no", "close"}
      BY <3>1 DEF Stages
    <3>3. Lost' = Lost \cup {This(w)}
      BY <2>6, RefusedMoves
    <3> QED  BY <1>6, <1>7, <3>1, <3>2, <3>3 DEF Late
  <2> QED  BY <1>4, <2>1, <2>2, <2>3, <2>4, <2>5, <2>6, WhoMoves
<1> QED  BY <1>1, <1>2, <1>3, <1>4, <1>7, WhoDestroys

LEMMA LogStep == LogInv /\ [Next]_vars => LogInv'
BY TypeKept, OrderKept, HoldingKept, CallsKept, StagesKept, RoomKept, DistinctKept, AccountedKept, LateKept DEF LogInv

\* The invariant of the log (log.cc:14-194, log.h:52-110): types, order, one
\* place for every line of a call that has returned, and room for every push.
THEOREM LogInvariant == Safety => []LogInv
<1>1. Init => LogInv
  BY InitInv
<1>2. LogInv /\ [Next]_vars => LogInv'
  BY LogStep
<1> QED  BY <1>1, <1>2, PTL DEF Safety

\* The lines that go through the queue come to the file in the order in which
\* the queue took them, and no gap is left, whatever the toggles of isAsync_ and
\* the lines that go past a full queue (log.cc:148, log.h:56-77).
THEOREM LogIsConsistent == Spec => []LogConsistent
<1>1. LogInv => LogConsistent
  BY DEF LogInv, LogConsistent
<1> QED  BY <1>1, LogInvariant, PTL DEF Spec

\* push() never waits for room with mtx_ locked (log.cc:148, log.h:59).
THEOREM PushAlwaysHasRoom == Spec => []PushNeverWaits
<1>1. LogInv => PushNeverWaits
  BY DEF LogInv, Room
<1> QED  BY <1>1, LogInvariant, PTL DEF Spec

LEMMA RangeIs ==
    /\ \A l : l \in Range(hand) <=> l \in InHand
    /\ \A l : l \in Range(queue) <=> l \in InQueue
    /\ \A l : l \in Range(cleared) \/ l \in refused <=> l \in Lost
BY DEF Range, InHand, InQueue, Lost

LEMMA InvKeepsReturned == LogInv => ReturnedIsKept
<1> SUFFICES ASSUME LogInv, NEW w \in Writers, NEW n \in 1 .. over[w]
             PROVE  LET l == <<w, n>>
                        onDisk == {i \in DOMAIN file : file[i].line = l}
                        onItsWay == l \in Range(hand) \/ l \in Range(queue)
                        lost == l \in Range(cleared) \/ l \in refused
                    IN /\ Cardinality(onDisk) = IF onItsWay \/ lost THEN 0 ELSE 1
                       /\ lost => dtor # "no" /\ n > promised[w] /\ ~onItsWay
  BY DEF ReturnedIsKept
<1> DEFINE l == <<w, n>>
           onDisk == {i \in DOMAIN file : file[i].line = l}
<1>1. l \in Places /\ l[1] = w /\ l[2] = n
  BY DEF LogInv, Accounted
<1>2. (l \in Range(hand) \/ l \in Range(queue)) <=> l \in InHand \/ l \in InQueue
  BY RangeIs
<1>3. (l \in Range(cleared) \/ l \in refused) <=> l \in Lost
  BY RangeIs
<1>4. l \in Lost => dtor # "no" /\ n > promised[w] /\ l \notin InHand /\ l \notin InQueue
  BY <1>1 DEF LogInv, Late, Distinct
<1>5. l \in InHand \/ l \in InQueue \/ l \in Lost => Cardinality(onDisk) = 0
  <2>1. SUFFICES ASSUME l \in InHand \/ l \in InQueue \/ l \in Lost PROVE Cardinality(onDisk) = 0
    OBVIOUS
  <2>2. l \notin Disk
    BY <2>1 DEF LogInv, Distinct
  <2>3. onDisk = {}
    BY <2>2 DEF Disk
  <2> QED  BY <2>3, FS_EmptySet
<1>6. ~(l \in InHand \/ l \in InQueue \/ l \in Lost) => Cardinality(onDisk) = 1
  <2>1. SUFFICES ASSUME ~(l \in InHand \/ l \in InQueue \/ l \in Lost) PROVE Cardinality(onDisk) = 1
    OBVIOUS
  <2>2. l \in Disk
    BY <1>1, <2>1 DEF Places
  <2>3. PICK i \in DOMAIN file : file[i].line = l
    BY <2>2 DEF Disk
  <2>4. onDisk = {i}
    BY <2>3 DEF LogInv, Distinct
  <2> QED  BY <2>4, FS_Singleton
<1> HIDE DEF l, onDisk
<1>7. Cardinality(onDisk) = IF (l \in Range(hand) \/ l \in Range(queue)) \/ (l \in Range(cleared) \/ l \in refused) THEN 0 ELSE 1
  BY <1>2, <1>3, <1>5, <1>6
<1>8. (l \in Range(cleared) \/ l \in refused) => dtor # "no" /\ n > promised[w] /\ ~(l \in Range(hand) \/ l \in Range(queue))
  BY <1>2, <1>3, <1>4
<1> QED  BY <1>7, <1>8 DEF l, onDisk

\* A line whose write() has returned is on disk exactly once or on its way
\* there, but for lines whose write() was still going on when ~Log began
\* (log.cc:14-27, log.cc:94-155).
THEOREM ReturnedLinesAreKept == Spec => []ReturnedIsKept
<1>1. LogInv => ReturnedIsKept
  BY InvKeepsReturned
<1> QED  BY <1>1, LogInvariant, PTL DEF Spec
=============================================================================
