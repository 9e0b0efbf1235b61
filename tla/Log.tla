-------------------------------- MODULE Log --------------------------------
(***************************************************************************)
(* The asynchronous log (src/code/base/log): threads that write lines, the *)
(* queue, the thread that takes lines from it and puts them on the file,   *)
(* the rotation of files, Init called again, and the destructor.           *)
(*                                                                         *)
(* A line is a pair of its writer and a number; a day is a number; a file  *)
(* is named by its day and its part.  mtx_ is held over more than one step *)
(* only by a writer between full() and push(); every other critical        *)
(* section is one step.  toDay_ and lineCount_ are read without the mutex  *)
(* (log.cc:102): the reader gets the value of that moment and acts on it   *)
(* later.  localtime's shared buffer may hand a writer the day of another  *)
(* one; a writer that read the clock just before midnight already does     *)
(* what such a day could make it do.                                       *)
(*                                                                         *)
(* The level is not modelled: a line that it stops is a line not begun.    *)
(*                                                                         *)
(* Bounds: MaxWrites[w] lines of writer w, MaxDay days, MaxInits further   *)
(* calls of Init.  As in the other modules, a definition just above another *)
(* that differs from it in one point is a wrong variant, kept to show that *)
(* the properties notice it.                                               *)
(***************************************************************************)
EXTENDS Naturals, Sequences, SequencesExt, FiniteSets

CONSTANTS Writers, Capacity, MaxLines, MaxDay, MaxWrites, MaxInits

ASSUME LogAssumption ==
    /\ Capacity \in Nat \ {0} /\ MaxLines \in Nat \ {0}
    /\ MaxDay \in Nat \ {0} /\ MaxWrites \in [Writers -> Nat] /\ MaxInits \in Nat

VARIABLES
    today,      \* the clock
    toDay, lineCount, fp, isAsync,
    queue, closed,
    thread,     \* writeThread_: where it is in AsyncWrite_
    hand,       \* the line it holds between pop and fputs, as a sequence
    pc,         \* where each writer is in write
    day,        \* the day it read from the clock
    over,       \* how many of its calls have returned
    dtor,       \* where the destructor is
    file,       \* every line on disk, in order: [line, name, queued]
    pushed,     \* every line the queue has accepted
    cleared,    \* the lines that close() threw away
    refused,    \* the lines that push refused
    promised,   \* how many calls of each writer had returned when ~Log began
    inits       \* further calls of Init

settings == <<toDay, lineCount, fp, isAsync>>
writing  == <<pc, day, over>>
disposed == <<cleared, refused, promised, dtor>>
counted  == <<today, inits>>
vars == <<settings, queue, closed, thread, hand, writing, file, pushed, disposed, counted>>

Line  == UNION {{w} \X (1 .. MaxWrites[w]) : w \in Writers}
Name(d, part) == [day |-> d, part |-> part]
Names == [day : 1 .. MaxDay, part : Nat]
Entry == [line : Line, name : Names, queued : BOOLEAN]
This(w) == <<w, over[w] + 1>>

Init ==
    /\ today = 1 /\ inits = 0
    /\ toDay = 1 /\ lineCount = 0 /\ fp = Name(1, 0)
    /\ isAsync \in BOOLEAN
    /\ thread = IF isAsync THEN "start" ELSE "none"
    /\ queue = <<>> /\ closed = FALSE /\ hand = <<>>
    /\ pc = [w \in Writers |-> "idle"]
    /\ day = [w \in Writers |-> 1]
    /\ over = [w \in Writers |-> 0]
    /\ dtor = "no" /\ file = <<>> /\ pushed = <<>> /\ cleared = <<>> /\ refused = {}
    /\ promised = [w \in Writers |-> 0]

----------------------------------------------------------------------------
(* AsyncQueue *)

FullButOne == Len(queue) > Capacity

Full == Len(queue) >= Capacity

NotNotified(t) == t

\* notify_one on cond_consumer_: only the write thread ever waits there.
Notified(t) == IF t = "asleep" THEN "awake" ELSE t

EnqueuedFront(q, l) == <<l>> \o q

Enqueued(q, l) == Append(q, l)

\* pop() on a queue that is not empty; a thread that has slept looks at
\* closed_ first, one that has just come in does not look at it at all.
Pop ==
    /\ \/ thread = "start"
       \/ thread = "awake" /\ ~closed
    /\ queue # <<>>
    /\ hand' = <<Head(queue)>>
    /\ queue' = Tail(queue)
    /\ thread' = "hand"
    /\ UNCHANGED <<settings, closed, writing, file, pushed, disposed, counted>>

PopWaits ==
    /\ \/ thread = "start"
       \/ thread = "awake" /\ ~closed
    /\ queue = <<>>
    /\ thread' = "asleep"
    /\ UNCHANGED <<settings, queue, closed, hand, writing, file, pushed, disposed, counted>>

PopEnds ==
    /\ thread = "awake" /\ closed
    /\ thread' = "ended"
    /\ UNCHANGED <<settings, queue, closed, hand, writing, file, pushed, disposed, counted>>

SpuriousWakeup ==
    /\ thread = "asleep"
    /\ thread' = "awake"
    /\ UNCHANGED <<settings, queue, closed, hand, writing, file, pushed, disposed, counted>>

----------------------------------------------------------------------------
(* The write thread and the writers *)

MtxFree == \A w \in Writers : pc[w] # "push"

Written(l, queued) == Append(file, [line |-> l, name |-> fp, queued |-> queued])

\* AsyncWrite_ between two calls of pop.
WriteLine ==
    /\ thread = "hand" /\ MtxFree
    /\ file' = Written(hand[1], TRUE)
    /\ hand' = <<>>
    /\ thread' = "start"
    /\ UNCHANGED <<settings, queue, closed, writing, pushed, disposed, counted>>

\* The level lets the line through, and write reads the clock.
Begin(w) ==
    /\ pc[w] = "idle" /\ dtor = "no"
    /\ over[w] < MaxWrites[w]
    /\ day' = [day EXCEPT ![w] = today]
    /\ pc' = [pc EXCEPT ![w] = "check"]
    /\ UNCHANGED <<settings, queue, closed, thread, hand, over, file, pushed, disposed, counted>>

FullFile == lineCount # 0 /\ lineCount % MaxLines = 0

\* The test without the mutex.
Check(w) ==
    /\ pc[w] = "check" /\ dtor # "over"
    /\ pc' = [pc EXCEPT ![w] = IF toDay # day[w] \/ FullFile THEN "rotate" ELSE "append"]
    /\ UNCHANGED <<settings, queue, closed, thread, hand, day, over, file, pushed, disposed, counted>>

\* The rotation tests the day again, but not the number of lines.
Rotate(w) ==
    /\ pc[w] = "rotate" /\ dtor # "over" /\ MtxFree
    /\ \/ /\ toDay # day[w]
          /\ toDay' = day[w] /\ lineCount' = 0
          /\ fp' = Name(day[w], 0)
       \/ /\ toDay = day[w]
          /\ fp' = Name(day[w], lineCount \div MaxLines)
          /\ UNCHANGED <<toDay, lineCount>>
    /\ thread' = IF isAsync THEN Notified(thread) ELSE thread
    /\ pc' = [pc EXCEPT ![w] = "append"]
    /\ UNCHANGED <<isAsync, queue, closed, hand, day, over, file, pushed, disposed, counted>>

Returned(w) ==
    /\ over' = [over EXCEPT ![w] = @ + 1]
    /\ pc' = [pc EXCEPT ![w] = "idle"]

\* The second critical section, as far as the test of full().
Compose(w) ==
    /\ pc[w] = "append" /\ dtor # "over" /\ MtxFree
    /\ isAsync /\ ~Full
    /\ lineCount' = lineCount + 1
    /\ pc' = [pc EXCEPT ![w] = "push"]
    /\ UNCHANGED <<toDay, fp, isAsync, queue, closed, thread, hand, day, over, file, pushed, disposed, counted>>

\* ... with a full queue, or none: the line goes straight to the file.
WriteThrough(w) ==
    /\ pc[w] = "append" /\ dtor # "over" /\ MtxFree
    /\ ~isAsync \/ Full
    /\ lineCount' = lineCount + 1
    /\ file' = Written(This(w), FALSE)
    /\ Returned(w)
    /\ UNCHANGED <<toDay, fp, isAsync, queue, closed, thread, hand, day, pushed, disposed, counted>>

\* push, and the end of write's critical section.  push would wait for room
\* here, with mtx_ locked.
Push(w) ==
    /\ pc[w] = "push" /\ ~closed
    /\ Len(queue) < Capacity
    /\ queue' = Enqueued(queue, This(w))
    /\ pushed' = Append(pushed, This(w))
    /\ thread' = Notified(thread)
    /\ Returned(w)
    /\ UNCHANGED <<settings, closed, hand, day, file, disposed, counted>>

PushRefused(w) ==
    /\ pc[w] = "push" /\ closed
    /\ refused' = refused \cup {This(w)}
    /\ Returned(w)
    /\ UNCHANGED <<settings, queue, closed, thread, hand, day, file, pushed, cleared, promised, dtor, counted>>

\* Init a second time, by a thread that knows that nobody is writing.  The
\* queue and its thread stay, whatever becomes of isAsync_.
InitAgain ==
    /\ dtor = "no" /\ inits < MaxInits
    /\ \A w \in Writers : pc[w] = "idle"
    /\ inits' = inits + 1
    /\ isAsync' \in BOOLEAN
    /\ toDay' = today /\ lineCount' = 0 /\ fp' = Name(today, 0)
    /\ thread' = IF ~isAsync' THEN thread
                 ELSE IF thread = "none" THEN "start" ELSE Notified(thread)
    /\ UNCHANGED <<queue, closed, hand, writing, file, pushed, disposed, today>>

----------------------------------------------------------------------------
(* The destructor *)

Destroy ==
    /\ dtor = "no"
    /\ dtor' = IF thread = "none" THEN "flush" ELSE "drain"
    /\ promised' = over
    /\ UNCHANGED <<settings, queue, closed, thread, hand, writing, file, pushed, cleared, refused, counted>>

DrainedAnyway == Len(queue) >= 0

Drained == queue = <<>>

\* One round of the loop that waits for an empty queue.
Drain ==
    /\ dtor = "drain" /\ ~Drained
    /\ thread' = Notified(thread)
    /\ UNCHANGED <<settings, queue, closed, hand, writing, file, pushed, disposed, counted>>

DrainEnds ==
    /\ dtor = "drain" /\ Drained
    /\ dtor' = "close"
    /\ UNCHANGED <<settings, queue, closed, thread, hand, writing, file, pushed, cleared, refused, promised, counted>>

\* notify_all: the write thread, if it sleeps, is woken.
CloseQueue ==
    /\ dtor = "close"
    /\ cleared' = queue
    /\ queue' = <<>> /\ closed' = TRUE
    /\ thread' = Notified(thread)
    /\ dtor' = "join"
    /\ UNCHANGED <<settings, hand, writing, file, pushed, refused, promised, counted>>

Join ==
    /\ dtor = "join" /\ thread = "ended"
    /\ dtor' = "flush"
    /\ UNCHANGED <<settings, queue, closed, thread, hand, writing, file, pushed, cleared, refused, promised, counted>>

\* flush() and fclose: from here on there is no log to write to.
CloseFile ==
    /\ dtor = "flush" /\ MtxFree
    /\ dtor' = "over"
    /\ UNCHANGED <<settings, queue, closed, thread, hand, writing, file, pushed, cleared, refused, promised, counted>>

----------------------------------------------------------------------------

Midnight ==
    /\ today < MaxDay /\ dtor # "over"
    /\ today' = today + 1
    /\ UNCHANGED <<settings, queue, closed, thread, hand, writing, file, pushed, disposed, inits>>

Write(w) == Check(w) \/ Rotate(w) \/ Compose(w) \/ WriteThrough(w) \/ Push(w) \/ PushRefused(w)
AsyncWrite == Pop \/ PopWaits \/ PopEnds \/ WriteLine
Destructor == Drain \/ DrainEnds \/ CloseQueue \/ Join \/ CloseFile

Next ==
    \/ \E w \in Writers : Begin(w) \/ Write(w)
    \/ AsyncWrite \/ SpuriousWakeup
    \/ InitAgain
    \/ Destroy \/ Destructor
    \/ Midnight

\* Threads are scheduled; nobody has to write, to call Init or to end the
\* program, and no wakeup has to be spurious.
Fairness ==
    /\ \A w \in Writers : WF_vars(Write(w))
    /\ WF_vars(AsyncWrite)
    /\ WF_vars(Destructor)

Safety == Init /\ [][Next]_vars
Spec == Safety /\ Fairness

----------------------------------------------------------------------------
(* Properties *)

\* The types of the log's state: it has a thread as soon as it is
\* asynchronous, and a line in hand exactly between pop and fputs.
TypeOK ==
    /\ today \in 1 .. MaxDay /\ inits \in Nat
    /\ toDay \in 1 .. MaxDay /\ lineCount \in Nat /\ fp \in Names /\ isAsync \in BOOLEAN
    /\ queue \in Seq(Line) /\ closed \in BOOLEAN
    /\ thread \in {"none", "start", "asleep", "awake", "hand", "ended"}
    /\ hand \in Seq(Line)
    /\ pc \in [Writers -> {"idle", "check", "rotate", "append", "push"}]
    /\ day \in [Writers -> 1 .. MaxDay] /\ over \in [Writers -> Nat]
    /\ dtor \in {"no", "drain", "close", "join", "flush", "over"}
    /\ file \in Seq(Entry) /\ pushed \in Seq(Line)
    /\ cleared \in Seq(Line) /\ refused \in SUBSET Line /\ promised \in [Writers -> Nat]

LinesOf(entries) == [i \in DOMAIN entries |-> entries[i].line]

\* How many of the first i entries have been through the queue.
Taken(i) == Cardinality({j \in 1 .. i : file[j].queued})

\* The lines that have been through the queue are on disk, in the write
\* thread's hand, in the queue or thrown away by close(), in the order in
\* which the queue took them, also when Init toggles isAsync_ and when other
\* lines overtake them directly: the k-th of them on disk is the k-th that was
\* pushed, and the others follow without a gap.
QueueKeepsOrder ==
    /\ Taken(Len(file)) <= Len(pushed)
    /\ \A i \in DOMAIN file : file[i].queued => file[i].line = pushed[Taken(i)]
    /\ SubSeq(pushed, Taken(Len(file)) + 1, Len(pushed)) = hand \o queue \o cleared

\* Both together: types, and a queue that accounts for its lines.
LogConsistent == TypeOK /\ QueueKeepsOrder

\* A line whose write() had returned before ~Log began is never lost: it is on
\* disk once, or on its way there; and neither is any other line, unless it
\* came while the destructor was at work.
ReturnedIsKept ==
    \A w \in Writers : \A n \in 1 .. over[w] :
        LET l == <<w, n>>
            onDisk == {i \in DOMAIN file : file[i].line = l}
            onItsWay == l \in Range(hand) \/ l \in Range(queue)
            lost == l \in Range(cleared) \/ l \in refused
        IN /\ Cardinality(onDisk) = IF onItsWay \/ lost THEN 0 ELSE 1
           /\ lost => dtor # "no" /\ n > promised[w] /\ ~onItsWay

\* push() never waits for room: it would do so with mtx_ locked, which the
\* write thread needs to empty the queue (log.cc:148, log.h:59).
PushNeverWaits == \A w \in Writers : pc[w] = "push" => closed \/ Len(queue) < Capacity

\* Every line in the queue gets to the disk, unless close() throws it away.
LinesReachFile ==
    \A l \in Line : l \in Range(queue) ~> (l \in Range(LinesOf(file)) \/ l \in Range(cleared))

\* The destructor's loop over empty() ends, and its join returns if close()
\* found the write thread asleep in pop.  (If it found the thread at fputs or
\* on its way to its wait, pop waits without a look at closed_, and only a
\* spurious wakeup ends the join.)
DestructorReturns ==
    /\ dtor = "drain" ~> dtor \in {"join", "flush", "over"}
    /\ (dtor = "join" /\ thread \in {"awake", "ended"}) ~> dtor = "over"

\* Both together: nothing waits for the write thread in vain, but a destructor
\* whose close() comes between two waits of the thread.
NothingWaitsInVain == LinesReachFile /\ DestructorReturns

\* What the README says of rotation: files are cut by the number of lines.
FilesCutByLines ==
    \A name \in {file[i].name : i \in DOMAIN file} :
        Cardinality({i \in DOMAIN file : file[i].name = name}) <= MaxLines
============================================================================
