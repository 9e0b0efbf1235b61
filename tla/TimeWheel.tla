----------------------------- MODULE TimeWheel -----------------------------
(***************************************************************************)
(* rpc::TimeWheel (src/code/base/timer/timer.cc): WheelSize lists of timer *)
(* nodes, a map from the id of a timer to its node, and Tick, which visits *)
(* the lists the clock has passed.  One thread uses a wheel; the callbacks *)
(* Tick runs may add and remove timers, so Tick is a step per node.        *)
(*                                                                         *)
(* A node has a serial number, which stands for the list iterator that the *)
(* map keeps.  The clock is an integer of milliseconds that goes on at any *)
(* time, also between the nodes of one Tick, which reads it for each.      *)
(***************************************************************************)
EXTENDS Integers, Sequences, FiniteSets

CONSTANTS
    WheelSize,  \* WHEEL_SIZE
    TickMs,     \* tick_ms_
    Ids,        \* the ids timers are added under
    Delays,     \* the delays they are added with
    MaxTime,    \* bound: the last value of the clock
    MaxAdds     \* bound: the number of nodes made

ASSUME WheelAssumption ==
    /\ WheelSize \in Nat \ {0}
    /\ TickMs \in Nat \ {0}
    /\ Delays \subseteq Int
    /\ MaxTime \in Nat
    /\ MaxAdds \in Nat

VARIABLES
    now,       \* Clock::now()
    wheel,     \* wheel_: for each slot the list of its nodes
    map,       \* timer_map_: the node of each id, or 0
    slot,      \* current_slot_
    lastTick,  \* last_tick_time_
    pc,        \* "idle", in Tick: "visit", in a callback of Tick: "callback"
    pos,       \* the iterator of Tick
    left,      \* the iterations of Tick's outer loop still to do
    tickNow,   \* the clock Tick read first
    \* History, read by properties only:
    made,      \* what each node was made with: [total, due, at]
    steps,     \* the slots passed so far
    cancelled, \* the nodes whose id was removed after they were added
    fired      \* the nodes whose callback was called, in order

tickVars == <<pc, pos, left, tickNow>>
history == <<made, steps, cancelled, fired>>
vars == <<now, wheel, map, slot, lastTick, tickVars, history>>

Slots == 0..(WheelSize - 1)
Serials == 1..MaxAdds

\* The nodes of the wheel.
Nodes == UNION {{wheel[s][i] : i \in DOMAIN wheel[s]} : s \in Slots}

EraseAt(list, i) == SubSeq(list, 1, i - 1) \o SubSeq(list, i + 1, Len(list))

(* A definition just above another with its parameters is a wrong variant  *)
(* of it, a slip the code could have; nothing here uses it.                *)

Init ==
    /\ now = 0
    /\ wheel = [s \in Slots |-> <<>>]
    /\ map = [id \in Ids |-> 0]
    /\ slot = 0
    /\ lastTick = 0
    /\ pc = "idle"
    /\ pos = 1
    /\ left = 0
    /\ tickNow = 0
    /\ made = <<>>
    /\ steps = 0
    /\ cancelled = {}
    /\ fired = <<>>

Advance ==
    /\ now < MaxTime
    /\ now' = now + 1
    /\ UNCHANGED <<wheel, map, slot, lastTick, tickVars, history>>

-----------------------------------------------------------------------------
(* The interface, called between ticks or from a callback.                 *)

\* The wheel's idea of the time: the slots passed since the last tick count.
Base == lastTick + (IF pc = "idle" THEN 0 ELSE (tickNow - lastTick) \div TickMs - left) * TickMs

\* The slot so many slots ahead of the current one.
SlotUnwrapped(n) == slot + n
SlotAhead(n) == (slot + n) % WheelSize

\* How often Tick passes a node before its turn.
RoundsShort(total) == IF total = 0 THEN 0 ELSE (total - 1) \div WheelSize
RoundsOf(total) == total \div WheelSize

\* AddTimer: a negative delay or an id in the map makes it return at once.
AddTimer(id, delay) ==
    /\ pc \in {"idle", "callback"}
    /\ delay >= 0
    /\ map[id] = 0
    /\ Len(made) < MaxAdds
    /\ LET total == delay \div TickMs
           target == SlotAhead(total)
           node == [n |-> Len(made) + 1, id |-> id, expire |-> now + delay,
                    isDeleted |-> FALSE, rounds |-> RoundsOf(total)]
       IN /\ wheel' = [wheel EXCEPT ![target] = Append(@, node)]
          /\ map' = [map EXCEPT ![id] = node.n]
          /\ made' = Append(made, [total |-> total, due |-> Base + (total + 1) * TickMs, at |-> steps])
    /\ UNCHANGED <<now, slot, lastTick, tickVars, steps, cancelled, fired>>

\* RemoveTimer: the node of the id is marked, and Tick will erase it.
RemoveTimer(id) ==
    /\ pc \in {"idle", "callback"}
    /\ cancelled' = cancelled \cup {nd.n : nd \in {x \in Nodes : x.id = id}}
    /\ wheel' = [s \in Slots |-> [i \in DOMAIN wheel[s] |->
                    IF wheel[s][i].n = map[id]
                    THEN [wheel[s][i] EXCEPT !.isDeleted = TRUE] ELSE wheel[s][i]]]
    /\ map' = [map EXCEPT ![id] = 0]
    /\ UNCHANGED <<now, slot, lastTick, tickVars, made, steps, fired>>

-----------------------------------------------------------------------------
(* Tick.                                                                   *)

List == wheel[slot]
Node == List[pos]

TickBegin ==
    /\ pc = "idle"
    /\ (now - lastTick) \div TickMs > 0
    /\ left' = (now - lastTick) \div TickMs
    /\ tickNow' = now
    /\ pos' = 1
    /\ pc' = "visit"
    /\ UNCHANGED <<now, wheel, map, slot, lastTick, history>>

Visiting == pc = "visit" /\ pos <= Len(List)

\* The map entry and the node of the iterator go.
EraseNodeOnly ==
    /\ wheel' = [wheel EXCEPT ![slot] = EraseAt(@, pos)]
    /\ UNCHANGED map
EraseEntryOnly ==
    /\ map' = [map EXCEPT ![Node.id] = 0]
    /\ UNCHANGED wheel
EraseNode ==
    /\ map' = [map EXCEPT ![Node.id] = 0]
    /\ wheel' = [wheel EXCEPT ![slot] = EraseAt(@, pos)]

VisitDeleted ==
    /\ Visiting
    /\ Node.isDeleted
    /\ EraseNode
    /\ UNCHANGED <<now, slot, lastTick, tickVars, history>>

\* A node whose rounds are used up, or that is overdue.
LastRound == Node.rounds <= 1 \/ now >= Node.expire
Expired == Node.rounds = 0 \/ now >= Node.expire

\* it->cb()
VisitExpired ==
    /\ Visiting
    /\ ~Node.isDeleted
    /\ Expired
    /\ pc' = "callback"
    /\ fired' = Append(fired, Node.n)
    /\ UNCHANGED <<now, wheel, map, slot, lastTick, pos, left, tickNow, made, steps, cancelled>>

CallbackReturns ==
    /\ pc = "callback"
    /\ EraseNode
    /\ pc' = "visit"
    /\ UNCHANGED <<now, slot, lastTick, pos, left, tickNow, history>>

VisitLater ==
    /\ Visiting
    /\ ~Node.isDeleted
    /\ ~Expired
    /\ wheel' = [wheel EXCEPT ![slot][pos].rounds = @ - 1]
    /\ pos' = pos + 1
    /\ UNCHANGED <<now, map, slot, lastTick, pc, left, tickNow, history>>

\* The end of a list; after the last one Tick returns, and the part of a tick
\* that was left over is forgotten.
NextSlot ==
    /\ pc = "visit"
    /\ pos > Len(List)
    /\ slot' = SlotAhead(1)
    /\ steps' = steps + 1
    /\ left' = left - 1
    /\ pos' = 1
    /\ IF left = 1
       THEN pc' = "idle" /\ lastTick' = tickNow
       ELSE UNCHANGED <<pc, lastTick>>
    /\ UNCHANGED <<now, wheel, map, tickNow, made, cancelled, fired>>

Tick == TickBegin \/ VisitDeleted \/ VisitExpired \/ CallbackReturns \/ VisitLater \/ NextSlot

Next ==
    \/ Advance
    \/ \E id \in Ids : RemoveTimer(id) \/ \E delay \in Delays : AddTimer(id, delay)
    \/ Tick

Spec == Init /\ [][Next]_vars

-----------------------------------------------------------------------------
(* Properties.                                                             *)

TypeOK ==
    /\ now \in 0..MaxTime
    /\ \A nd \in Nodes : /\ nd.n \in Serials /\ nd.id \in Ids /\ nd.expire \in Nat
                         /\ nd.isDeleted \in BOOLEAN /\ nd.rounds \in Nat
    /\ map \in [Ids -> 0..MaxAdds]
    /\ slot \in Slots
    /\ lastTick \in 0..MaxTime
    /\ pc \in {"idle", "visit", "callback"}
    /\ pos \in Nat \ {0} /\ left \in Nat /\ tickNow \in 0..MaxTime
    /\ steps \in Nat
    /\ cancelled \subseteq Serials
    /\ Len(made) <= MaxAdds

\* The iterators of the map are valid: an entry leads to a node of the wheel that
\* has its id and is not marked, whatever callbacks add and remove during Tick.
MapEntryIsNode ==
    \A id \in Ids : map[id] # 0 =>
        \E nd \in Nodes : nd.n = map[id] /\ nd.id = id /\ ~nd.isDeleted

\* The wheel's two structures, the list of each slot and the map into them, agree.
WheelConsistent == TypeOK /\ MapEntryIsNode

\* The arithmetic of slots and rounds: a node is always as many slots away from
\* its turn as its delay asked for, less the slots passed since, so that no
\* turn of the wheel is skipped or counted twice.
SlotsToGo(s, i) ==
    LET visited == s = slot /\ pc # "idle" /\ i < pos
        rounds == IF visited THEN wheel[s][i].rounds + 1 ELSE wheel[s][i].rounds
    IN ((s + WheelSize - slot) % WheelSize) + WheelSize * rounds
OnSchedule ==
    \A s \in Slots : \A i \in DOMAIN wheel[s] :
        LET m == made[wheel[s][i].n]
        IN ~wheel[s][i].isDeleted => SlotsToGo(s, i) = m.total - (steps - m.at)

\* A timer fires neither before the wheel's time reaches the end of its slot nor,
\* when that is late, before its expiry.
FiresInItsSlot ==
    pc = "callback" => now >= made[Node.n].due \/ now >= Node.expire

\* Both together: no turn of the wheel is miscounted, neither on the way to a
\* timer's slot nor when it fires.
SlotsCounted == OnSchedule /\ FiresInItsSlot

\* A callback is called once, and its node is gone afterwards.
FiresOnce ==
    /\ \A i, j \in DOMAIN fired : fired[i] = fired[j] => i = j
    /\ \A nd \in Nodes : (\E i \in DOMAIN fired : fired[i] = nd.n) => pc = "callback" /\ nd = Node

\* What the timeout of a call means: not before its time.
NeverEarly == pc = "callback" => now >= Node.expire

\* What the test of RemoveTimer expects: a removed timer does not fire.
RemovedNeverFires ==
    [][\A nd \in Nodes : nd.n \in cancelled => fired' # Append(fired, nd.n)]_vars
=============================================================================
