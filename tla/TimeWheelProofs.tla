-------------------------- MODULE TimeWheelProofs --------------------------
(***************************************************************************)
(* Proofs about TimeWheel, for any size of the wheel, any length of a tick *)
(* and any delays, with callbacks that add and remove timers in the middle *)
(* of Tick: the map and the lists agree, a timer fires once, and no turn   *)
(* of the wheel is skipped or counted twice.                               *)
(***************************************************************************)
EXTENDS TimeWheel, SequenceTheorems, TLAPS

NodeType == [n : Serials, id : Ids, expire : Nat, isDeleted : BOOLEAN, rounds : Nat]

\* The lists: a node stands in one place, and Tick's iterator at a node when its
\* callback runs.
Listed ==
    /\ wheel \in [Slots -> Seq(NodeType)]
    /\ \A s \in Slots : \A i \in DOMAIN wheel[s] : wheel[s][i].n <= Len(made)
    /\ \A s, t \in Slots : \A i \in DOMAIN wheel[s], j \in DOMAIN wheel[t] :
          wheel[s][i].n = wheel[t][j].n => s = t /\ i = j
    /\ pc = "callback" => pos <= Len(List)

\* Everything that is not in a list.
Values ==
    /\ now \in 0 .. MaxTime /\ map \in [Ids -> 0 .. MaxAdds] /\ slot \in Slots /\ lastTick \in 0 .. MaxTime
    /\ pc \in {"idle", "visit", "callback"} /\ pos \in Nat \ {0} /\ left \in Nat /\ tickNow \in 0 .. MaxTime
    /\ made \in Seq([total : Nat, due : Int, at : Nat]) /\ Len(made) <= MaxAdds
    /\ steps \in Nat /\ cancelled \subseteq Serials /\ fired \in Seq(Nat)

\* The clock, and the slots that a Tick still has to pass.
Clock ==
    /\ lastTick <= now
    /\ pc # "idle" => /\ lastTick <= tickNow /\ tickNow <= now
                      /\ left >= 1 /\ left <= (tickNow - lastTick) \div TickMs

\* An entry of the map leads to a node that is not marked.
Mapped ==
    \A id \in Ids : map[id] # 0 =>
        \E s \in Slots : \E i \in DOMAIN wheel[s] :
            wheel[s][i].n = map[id] /\ wheel[s][i].id = id /\ ~wheel[s][i].isDeleted

\* The wheel's time is never behind the slots it has passed: what is left over
\* at the end of a Tick is added to it, and no slot is counted for it.
Due ==
    \A n \in DOMAIN made :
        /\ made[n].at <= steps
        /\ made[n].due <= Base + (made[n].total + 1 - (steps - made[n].at)) * TickMs

\* A timer that has fired is gone, or is the one whose callback runs.
Fired ==
    /\ \A k \in DOMAIN fired : fired[k] \in 1 .. Len(made)
    /\ \A k, l \in DOMAIN fired : fired[k] = fired[l] => k = l
    /\ \A s \in Slots : \A i \in DOMAIN wheel[s] : \A k \in DOMAIN fired :
          fired[k] = wheel[s][i].n => pc = "callback" /\ s = slot /\ i = pos

WheelInv == Values /\ Listed /\ Clock /\ Mapped /\ OnSchedule /\ Due /\ Fired /\ FiresInItsSlot

-----------------------------------------------------------------------------
(* Lists and slots.                                                        *)

\* The list without the node at the iterator: those behind it move up.
LEMMA Erased ==
    ASSUME NEW S, NEW list \in Seq(S), NEW p \in 1 .. Len(list)
    PROVE  /\ EraseAt(list, p) \in Seq(S)
           /\ Len(EraseAt(list, p)) = Len(list) - 1
           /\ \A i \in 1 .. Len(list) - 1 : EraseAt(list, p)[i] = list[IF i < p THEN i ELSE i + 1]
<1> DEFINE first == SubSeq(list, 1, p - 1)
           rest == SubSeq(list, p + 1, Len(list))
<1>0. p \in Nat /\ Len(list) \in Nat /\ 1 <= p /\ p <= Len(list)
  OBVIOUS
<1>1. first \in Seq(S) /\ Len(first) = p - 1 /\ \A i \in 1 .. p - 1 : first[i] = list[i]
  BY <1>0
<1>2. rest \in Seq(S) /\ Len(rest) = Len(list) - p /\ \A i \in 1 .. Len(list) - p : rest[i] = list[p + i]
  BY <1>0, SubSeqProperties
<1> HIDE DEF first, rest
<1>3. /\ first \o rest \in Seq(S) /\ Len(first \o rest) = Len(first) + Len(rest)
      /\ \A i \in 1 .. Len(first) : (first \o rest)[i] = first[i]
      /\ \A i \in 1 .. Len(rest) : (first \o rest)[Len(first) + i] = rest[i]
  <2>1. first \in Seq(S) /\ rest \in Seq(S)
    BY <1>1, <1>2
  <2> QED  BY <2>1
<1>4. ASSUME NEW i \in 1 .. Len(list) - 1
      PROVE  (first \o rest)[i] = list[IF i < p THEN i ELSE i + 1]
  <2>1. CASE i < p
    <3>1. i \in 1 .. p - 1
      BY <1>0, <2>1
    <3> QED  BY <1>1, <1>3, <2>1, <3>1
  <2>2. CASE ~(i < p)
    <3>1. i - (p - 1) \in 1 .. Len(list) - p /\ (p - 1) + (i - (p - 1)) = i /\ p + (i - (p - 1)) = i + 1
      BY <1>0, <2>2
    <3>2. (first \o rest)[i] = rest[i - (p - 1)]
      BY <1>1, <1>2, <1>3, <3>1
    <3>3. rest[i - (p - 1)] = list[i + 1]
      BY <1>2, <3>1
    <3> QED  BY <2>2, <3>2, <3>3
  <2> QED  BY <2>1, <2>2
<1>5. Len(first \o rest) = Len(list) - 1
  BY <1>0, <1>1, <1>2, <1>3
<1>6. EraseAt(list, p) = first \o rest
  BY DEF EraseAt, first, rest
<1> QED  BY <1>3, <1>4, <1>5, <1>6

\* How far a slot is ahead of another.
LEMMA Distance ==
    ASSUME NEW s \in Slots, NEW t \in Slots
    PROVE  /\ (s + WheelSize - t) % WheelSize = IF s >= t THEN s - t ELSE s + WheelSize - t
           /\ (s + WheelSize - t) % WheelSize \in Nat
<1>0. WheelSize \in Nat \ {0} /\ s \in Nat /\ t \in Nat /\ s < WheelSize /\ t < WheelSize
  BY WheelAssumption DEF Slots
<1> DEFINE x == s + WheelSize - t
<1>1. CASE s >= t
  <2>1. x \in Nat /\ WheelSize <= x /\ x < 2 * WheelSize /\ x - WheelSize = s - t /\ s - t \in Nat
    BY <1>0, <1>1
  <2> HIDE DEF x
  <2>2. x % WheelSize = x - WheelSize
    BY <1>0, <2>1
  <2> QED  BY <1>1, <2>1, <2>2 DEF x
<1>2. CASE ~(s >= t)
  <2>1. x \in Nat /\ x < WheelSize
    BY <1>0, <1>2
  <2> HIDE DEF x
  <2>2. x % WheelSize = x
    BY <1>0, <2>1
  <2> QED  BY <1>2, <2>1, <2>2 DEF x
<1> QED  BY <1>1, <1>2

LEMMA NextOf ==
    ASSUME slot \in Slots
    PROVE  SlotAhead(1) = (IF slot + 1 = WheelSize THEN 0 ELSE slot + 1) /\ SlotAhead(1) \in Slots
<1>0. WheelSize \in Nat \ {0} /\ slot \in Nat /\ slot < WheelSize
  BY WheelAssumption DEF Slots
<1>1. (slot + 1) % WheelSize = IF slot + 1 = WheelSize THEN 0 ELSE slot + 1
  <2> DEFINE x == slot + 1
  <2>1. x \in Nat /\ x <= WheelSize /\ (x # WheelSize => x < WheelSize)
    BY <1>0
  <2> HIDE DEF x
  <2>2. x % WheelSize = IF x = WheelSize THEN 0 ELSE x
    BY <1>0, <2>1
  <2> QED  BY <2>2 DEF x
<1> QED  BY <1>0, <1>1 DEF SlotAhead, Slots

\* When the current slot moves on, every slot is one nearer, and the slot that
\* was left a whole turn less one away.
LEMMA Nearer ==
    ASSUME slot \in Slots, NEW s \in Slots
    PROVE  (s + WheelSize - SlotAhead(1)) % WheelSize =
              IF s = slot THEN WheelSize - 1 ELSE ((s + WheelSize - slot) % WheelSize) - 1
<1>0. WheelSize \in Nat \ {0} /\ slot \in Nat /\ slot < WheelSize /\ s \in Nat /\ s < WheelSize
  BY WheelAssumption DEF Slots
<1> DEFINE u == SlotAhead(1)
<1>1. u = (IF slot + 1 = WheelSize THEN 0 ELSE slot + 1) /\ u \in Slots
  BY NextOf
<1> HIDE DEF u
<1>2. (s + WheelSize - u) % WheelSize = IF s >= u THEN s - u ELSE s + WheelSize - u
  BY <1>1, Distance
<1>3. (s + WheelSize - slot) % WheelSize = IF s >= slot THEN s - slot ELSE s + WheelSize - slot
  BY Distance
<1>4. (IF s >= u THEN s - u ELSE s + WheelSize - u) =
         IF s = slot THEN WheelSize - 1 ELSE (IF s >= slot THEN s - slot ELSE s + WheelSize - slot) - 1
  BY <1>0, <1>1
<1> QED  BY <1>2, <1>3, <1>4 DEF u

\* The slot and the rounds of a new timer are as many slots away as it asked for.
LEMMA AsManyAsAsked ==
    ASSUME slot \in Slots, NEW total \in Nat
    PROVE  /\ SlotAhead(total) \in Slots /\ RoundsOf(total) \in Nat
           /\ ((SlotAhead(total) + WheelSize - slot) % WheelSize) + WheelSize * RoundsOf(total) = total
<1>0. WheelSize \in Nat \ {0} /\ slot \in Nat /\ slot < WheelSize
  BY WheelAssumption DEF Slots
<1> DEFINE q == total \div WheelSize
           r == total % WheelSize
<1>1. q \in Nat /\ r \in Nat /\ r < WheelSize
  BY <1>0
<1>2. r = total - WheelSize * q
  BY <1>0
<1> HIDE DEF q, r
<1>3. WheelSize * q \in Nat /\ total = WheelSize * q + r
  BY <1>0, <1>1, <1>2
<1> DEFINE t == SlotAhead(total)
<1>4. t = (IF slot + r < WheelSize THEN slot + r ELSE slot + r - WheelSize) /\ t \in Slots
  <2>1. CASE slot + r < WheelSize
    <3> DEFINE x == slot + r
    <3>1. x \in Nat /\ x < WheelSize
      BY <1>0, <1>1, <2>1
    <3>2. slot + total = WheelSize * q + x
      BY <1>0, <1>1, <1>3
    <3> HIDE DEF x
    <3>3. (WheelSize * q + x) % WheelSize = x
      BY <1>0, <1>1, <3>1
    <3>4. t = x
      BY <3>2, <3>3 DEF SlotAhead
    <3> QED  BY <2>1, <3>1, <3>4, <1>0 DEF x, Slots
  <2>2. CASE ~(slot + r < WheelSize)
    <3> DEFINE x == slot + r - WheelSize
               p == q + 1
    <3>1. x \in Nat /\ x < WheelSize /\ p \in Nat
      BY <1>0, <1>1, <2>2
    <3>2. WheelSize * p = WheelSize * q + WheelSize
      BY <1>0, <1>1
    <3>3. slot + total = WheelSize * p + x
      BY <1>0, <1>1, <1>3, <3>2
    <3> HIDE DEF x, p
    <3>4. (WheelSize * p + x) % WheelSize = x
      BY <1>0, <3>1
    <3>5. t = x
      BY <3>3, <3>4 DEF SlotAhead
    <3> QED  BY <2>2, <3>1, <3>5, <1>0 DEF x, Slots
  <2> QED  BY <2>1, <2>2
<1> HIDE DEF t
<1>5. (t + WheelSize - slot) % WheelSize = IF t >= slot THEN t - slot ELSE t + WheelSize - slot
  BY <1>4, Distance
<1>6. (t + WheelSize - slot) % WheelSize = r
  BY <1>0, <1>1, <1>4, <1>5
<1>7. RoundsOf(total) = q
  BY DEF RoundsOf, q
<1> QED  BY <1>1, <1>3, <1>4, <1>6, <1>7 DEF t


LEMMA NodesAre ==
    \A nd : nd \in Nodes <=> \E s \in Slots : \E i \in DOMAIN wheel[s] : nd = wheel[s][i]
BY DEF Nodes

-----------------------------------------------------------------------------
(* The steps that take a node out.                                         *)

\* Where an element of the lists was before the iterator's node was erased.
From(s, i) == IF s = slot /\ i >= pos THEN i + 1 ELSE i

LEMMA ErasedWheel ==
    ASSUME Values, Listed, pos <= Len(List), EraseNode
    PROVE  /\ wheel' \in [Slots -> Seq(NodeType)]
           /\ \A s \in Slots : \A i \in DOMAIN wheel'[s] :
                 /\ From(s, i) \in DOMAIN wheel[s] /\ wheel'[s][i] = wheel[s][From(s, i)]
                 /\ ~(s = slot /\ From(s, i) = pos)
           /\ \A s \in Slots : \A k \in DOMAIN wheel[s] : ~(s = slot /\ k = pos) =>
                 \E i \in DOMAIN wheel'[s] : wheel'[s][i] = wheel[s][k]
           /\ Node.id \in Ids /\ map' = [map EXCEPT ![Node.id] = 0]
<1>0. /\ slot \in Slots /\ pos \in Nat \ {0} /\ List \in Seq(NodeType) /\ pos \in 1 .. Len(List)
      /\ wheel \in [Slots -> Seq(NodeType)]
  BY DEF Values, Listed, List
<1> DEFINE short == EraseAt(List, pos)
<1>1. /\ short \in Seq(NodeType) /\ Len(short) = Len(List) - 1
      /\ \A i \in 1 .. Len(List) - 1 : short[i] = List[IF i < pos THEN i ELSE i + 1]
  BY <1>0, Erased
<1>2. wheel' = [wheel EXCEPT ![slot] = short]
  BY DEF EraseNode, List
<1> HIDE DEF short
<1>3. wheel' \in [Slots -> Seq(NodeType)] /\ wheel'[slot] = short /\ \A s \in Slots \ {slot} : wheel'[s] = wheel[s]
  BY <1>0, <1>1, <1>2
<1>4. /\ \A s \in Slots : DOMAIN wheel[s] = 1 .. Len(wheel[s])
      /\ DOMAIN short = 1 .. Len(List) - 1 /\ DOMAIN List = 1 .. Len(List) /\ Len(List) \in Nat
  BY <1>0, <1>1
<1>5. ASSUME NEW s \in Slots, NEW i \in DOMAIN wheel'[s]
      PROVE  /\ From(s, i) \in DOMAIN wheel[s] /\ wheel'[s][i] = wheel[s][From(s, i)]
             /\ ~(s = slot /\ From(s, i) = pos)
  <2>1. CASE s # slot
    BY <1>3, <2>1 DEF From
  <2>2. CASE s = slot
    <3>1. i \in 1 .. Len(List) - 1 /\ wheel'[s][i] = short[i]
      BY <1>3, <1>4, <2>2
    <3>2. From(s, i) = (IF i < pos THEN i ELSE i + 1) /\ From(s, i) \in 1 .. Len(List) /\ From(s, i) # pos
      BY <1>0, <1>4, <2>2, <3>1 DEF From
    <3>3. short[i] = List[From(s, i)]
      BY <1>1, <3>1, <3>2
    <3> QED  BY <1>4, <2>2, <3>1, <3>2, <3>3 DEF List
  <2> QED  BY <2>1, <2>2
<1>6. ASSUME NEW s \in Slots, NEW k \in DOMAIN wheel[s], ~(s = slot /\ k = pos)
      PROVE  \E i \in DOMAIN wheel'[s] : wheel'[s][i] = wheel[s][k]
  <2>1. CASE s # slot
    BY <1>3, <2>1
  <2>2. CASE s = slot
    <3> DEFINE i == IF k < pos THEN k ELSE k - 1
    <3>1. k \in 1 .. Len(List) /\ k # pos
      BY <1>4, <1>6, <2>2 DEF List
    <3>2. i \in 1 .. Len(List) - 1 /\ (IF i < pos THEN i ELSE i + 1) = k
      BY <1>0, <1>4, <3>1
    <3> HIDE DEF i
    <3>3. short[i] = List[k] /\ i \in DOMAIN short
      BY <1>1, <1>4, <3>2
    <3> QED  BY <1>3, <2>2, <3>3 DEF List
  <2> QED  BY <2>1, <2>2
<1>7. Node.id \in Ids
  <2>1. Node \in NodeType
    BY <1>0 DEF Node
  <2> QED  BY <2>1 DEF NodeType
<1> QED  BY <1>3, <1>5, <1>6, <1>7 DEF EraseNode

LEMMA EraseKeeps ==
    ASSUME WheelInv, pc \in {"visit", "callback"}, pos <= Len(List), EraseNode, pc' = "visit",
           UNCHANGED <<now, slot, lastTick, pos, left, tickNow, history>>,
           \A k \in DOMAIN fired : fired[k] = Node.n => pc = "callback"
    PROVE  WheelInv'
<1>0. /\ Values /\ Listed /\ Clock /\ Mapped /\ OnSchedule /\ Due /\ Fired
      /\ UNCHANGED <<made, steps, cancelled, fired>>
  BY DEF WheelInv, history
<1>1. /\ wheel' \in [Slots -> Seq(NodeType)]
      /\ \A s \in Slots : \A i \in DOMAIN wheel'[s] :
            /\ From(s, i) \in DOMAIN wheel[s] /\ wheel'[s][i] = wheel[s][From(s, i)]
            /\ ~(s = slot /\ From(s, i) = pos)
      /\ \A s \in Slots : \A k \in DOMAIN wheel[s] : ~(s = slot /\ k = pos) =>
            \E i \in DOMAIN wheel'[s] : wheel'[s][i] = wheel[s][k]
      /\ Node.id \in Ids /\ map' = [map EXCEPT ![Node.id] = 0]
  BY <1>0, ErasedWheel
<1>2. \A s \in Slots : \A i, j \in DOMAIN wheel'[s] : From(s, i) = From(s, j) => i = j
  <2> SUFFICES ASSUME NEW s \in Slots, NEW i \in DOMAIN wheel'[s], NEW j \in DOMAIN wheel'[s],
                      From(s, i) = From(s, j)
               PROVE  i = j
    OBVIOUS
  <2>1. i \in Nat /\ j \in Nat /\ pos \in Nat
    BY <1>0, <1>1 DEF Values
  <2> QED  BY <2>1 DEF From
<1>3. Values'
  <2>1. map' \in [Ids -> 0 .. MaxAdds]
    BY <1>0, <1>1, WheelAssumption DEF Values
  <2> QED  BY <1>0, <2>1 DEF Values
<1>4. Listed'
  <2>1. \A s \in Slots : \A i \in DOMAIN wheel'[s] : wheel'[s][i].n <= Len(made)
    BY <1>0, <1>1 DEF Listed
  <2>2. ASSUME NEW s \in Slots, NEW t \in Slots, NEW i \in DOMAIN wheel'[s], NEW j \in DOMAIN wheel'[t],
               wheel'[s][i].n = wheel'[t][j].n
        PROVE  s = t /\ i = j
    <3>1. /\ From(s, i) \in DOMAIN wheel[s] /\ wheel'[s][i] = wheel[s][From(s, i)]
          /\ From(t, j) \in DOMAIN wheel[t] /\ wheel'[t][j] = wheel[t][From(t, j)]
      BY <1>1
    <3>2. wheel[s][From(s, i)].n = wheel[t][From(t, j)].n
      BY <2>2, <3>1
    <3>3. s = t /\ From(s, i) = From(t, j)
      BY <1>0, <3>1, <3>2 DEF Listed
    <3> QED  BY <1>2, <3>3
  <2> QED  BY <1>0, <1>1, <2>1, <2>2 DEF Listed
<1>5. Clock'
  BY <1>0 DEF Clock
<1>6. Mapped'
  <2> SUFFICES ASSUME NEW id \in Ids, map'[id] # 0
               PROVE  \E s \in Slots : \E i \in DOMAIN wheel'[s] :
                          wheel'[s][i].n = map'[id] /\ wheel'[s][i].id = id /\ ~wheel'[s][i].isDeleted
    BY DEF Mapped
  <2>1. id # Node.id /\ map'[id] = map[id]
    BY <1>0, <1>1 DEF Values
  <2>2. PICK s \in Slots : \E k \in DOMAIN wheel[s] :
           wheel[s][k].n = map[id] /\ wheel[s][k].id = id /\ ~wheel[s][k].isDeleted
    BY <1>0, <2>1 DEF Mapped
  <2>3. PICK k \in DOMAIN wheel[s] :
           wheel[s][k].n = map[id] /\ wheel[s][k].id = id /\ ~wheel[s][k].isDeleted
    BY <2>2
  <2>4. ~(s = slot /\ k = pos)
    BY <2>1, <2>3 DEF Node, List
  <2>5. PICK i \in DOMAIN wheel'[s] : wheel'[s][i] = wheel[s][k]
    BY <1>1, <2>4
  <2> QED  BY <2>1, <2>3, <2>5
<1>7. OnSchedule'
  <2> SUFFICES ASSUME NEW s \in Slots, NEW i \in DOMAIN wheel'[s], ~wheel'[s][i].isDeleted
               PROVE  SlotsToGo(s, i)' = made[wheel'[s][i].n].total - (steps - made[wheel'[s][i].n].at)
    BY <1>0 DEF OnSchedule
  <2> DEFINE k == From(s, i)
  <2>1. k \in DOMAIN wheel[s] /\ wheel'[s][i] = wheel[s][k]
    BY <1>1
  <2>2. s = slot => (i < pos <=> k < pos)
    <3>1. i \in Nat /\ pos \in Nat
      BY <1>0, <1>1 DEF Values
    <3> QED  BY <3>1 DEF From
  <2> HIDE DEF k
  <2>3. SlotsToGo(s, i)' = SlotsToGo(s, k)
    BY <2>1, <2>2 DEF SlotsToGo
  <2>4. SlotsToGo(s, k) = made[wheel[s][k].n].total - (steps - made[wheel[s][k].n].at)
    BY <1>0, <2>1 DEF OnSchedule
  <2> QED  BY <2>1, <2>3, <2>4
<1>8. Due'
  BY <1>0 DEF Due, Base
<1>9. Fired'
  BY <1>0, <1>1 DEF Fired
<1>10. FiresInItsSlot'
  BY DEF FiresInItsSlot
<1> QED  BY <1>3, <1>4, <1>5, <1>6, <1>7, <1>8, <1>9, <1>10 DEF WheelInv


-----------------------------------------------------------------------------
(* The interface.                                                          *)

LEMMA RemoveMarks ==
    ASSUME Values, Listed, NEW id \in Ids, RemoveTimer(id)
    PROVE  /\ wheel' \in [Slots -> Seq(NodeType)]
           /\ \A s \in Slots : DOMAIN wheel'[s] = DOMAIN wheel[s] /\ Len(wheel'[s]) = Len(wheel[s])
           /\ \A s \in Slots : \A i \in DOMAIN wheel[s] :
                 /\ wheel'[s][i].n = wheel[s][i].n /\ wheel'[s][i].id = wheel[s][i].id
                 /\ wheel'[s][i].expire = wheel[s][i].expire /\ wheel'[s][i].rounds = wheel[s][i].rounds
                 /\ wheel[s][i].isDeleted => wheel'[s][i].isDeleted
                 /\ wheel[s][i].n # map[id] => wheel'[s][i] = wheel[s][i]
<1>0. wheel \in [Slots -> Seq(NodeType)]
  BY DEF Listed
<1> DEFINE Marked(nd) == IF nd.n = map[id] THEN [nd EXCEPT !.isDeleted = TRUE] ELSE nd
<1>1. \A nd \in NodeType : /\ Marked(nd) \in NodeType
                           /\ Marked(nd).n = nd.n /\ Marked(nd).id = nd.id
                           /\ Marked(nd).expire = nd.expire /\ Marked(nd).rounds = nd.rounds
                           /\ nd.isDeleted => Marked(nd).isDeleted
                           /\ nd.n # map[id] => Marked(nd) = nd
  BY DEF NodeType
<1>2. wheel' = [s \in Slots |-> [i \in DOMAIN wheel[s] |-> Marked(wheel[s][i])]]
  BY DEF RemoveTimer
<1> HIDE DEF Marked
<1>3. ASSUME NEW s \in Slots
      PROVE  /\ wheel'[s] \in Seq(NodeType)
             /\ DOMAIN wheel'[s] = DOMAIN wheel[s] /\ Len(wheel'[s]) = Len(wheel[s])
             /\ \A i \in DOMAIN wheel[s] : wheel'[s][i] = Marked(wheel[s][i]) /\ wheel[s][i] \in NodeType
  <2> DEFINE list == wheel[s]
             m == Len(list)
             f == [i \in 1 .. m |-> Marked(list[i])]
  <2>1. list \in Seq(NodeType) /\ m \in Nat /\ DOMAIN list = 1 .. m
    BY <1>0
  <2>2. wheel'[s] = f
    BY <1>2, <2>1
  <2> HIDE DEF list, m
  <2>3. \A i \in 1 .. m : list[i] \in NodeType
    BY <2>1 DEF m
  <2>4. f \in [1 .. m -> NodeType]
    BY <1>1, <2>3
  <2> HIDE DEF f
  <2>5. f \in Seq(NodeType)
    BY <2>1, <2>4, SeqDef
  <2>6. DOMAIN f = 1 .. m /\ Len(f) = m
    BY <2>1, <2>4, <2>5
  <2>7. \A i \in 1 .. m : f[i] = Marked(list[i])
    BY DEF f
  <2> QED  BY <2>1, <2>2, <2>3, <2>5, <2>6, <2>7 DEF list, m
<1>4. wheel' \in [Slots -> Seq(NodeType)]
  <2>1. wheel' = [s \in Slots |-> wheel'[s]]
    BY <1>2
  <2> QED  BY <1>3, <2>1
<1> QED  BY <1>1, <1>3, <1>4

LEMMA RemoveKeeps ==
    ASSUME WheelInv, NEW id \in Ids, RemoveTimer(id)
    PROVE  WheelInv'
<1>0. /\ Values /\ Listed /\ Clock /\ Mapped /\ OnSchedule /\ Due /\ Fired /\ FiresInItsSlot
      /\ UNCHANGED <<now, slot, lastTick, pc, pos, left, tickNow, made, steps, fired>>
      /\ map' = [map EXCEPT ![id] = 0]
      /\ cancelled' = cancelled \cup {nd.n : nd \in {x \in Nodes : x.id = id}}
  BY DEF WheelInv, RemoveTimer, tickVars
<1>1. /\ wheel' \in [Slots -> Seq(NodeType)]
      /\ \A s \in Slots : DOMAIN wheel'[s] = DOMAIN wheel[s] /\ Len(wheel'[s]) = Len(wheel[s])
      /\ \A s \in Slots : \A i \in DOMAIN wheel[s] :
            /\ wheel'[s][i].n = wheel[s][i].n /\ wheel'[s][i].id = wheel[s][i].id
            /\ wheel'[s][i].expire = wheel[s][i].expire /\ wheel'[s][i].rounds = wheel[s][i].rounds
            /\ wheel[s][i].isDeleted => wheel'[s][i].isDeleted
            /\ wheel[s][i].n # map[id] => wheel'[s][i] = wheel[s][i]
  BY <1>0, RemoveMarks
<1>2. Values'
  <2>1. map' \in [Ids -> 0 .. MaxAdds]
    BY <1>0, WheelAssumption DEF Values
  <2>2. \A nd \in Nodes : nd.n \in Serials
    <3>1. \A s \in Slots : \A i \in DOMAIN wheel[s] : wheel[s][i] \in NodeType
      BY <1>0 DEF Listed
    <3> QED  BY <3>1, NodesAre DEF NodeType
  <2>3. cancelled' \subseteq Serials
    BY <1>0, <2>2 DEF Values
  <2> QED  BY <1>0, <2>1, <2>3 DEF Values
<1>3. Listed'
  <2>1. pc' = "callback" => pos' <= Len(List)'
    BY <1>0, <1>1 DEF Listed, List, Values
  <2> QED  BY <1>0, <1>1, <2>1 DEF Listed
<1>4. Clock'
  BY <1>0 DEF Clock
<1>5. Mapped'
  <2> SUFFICES ASSUME NEW other \in Ids, map'[other] # 0
               PROVE  \E s \in Slots : \E i \in DOMAIN wheel'[s] :
                          wheel'[s][i].n = map'[other] /\ wheel'[s][i].id = other /\ ~wheel'[s][i].isDeleted
    BY DEF Mapped
  <2>1. other # id /\ map'[other] = map[other] /\ map[other] # 0
    BY <1>0 DEF Values
  <2>2. PICK s \in Slots : \E i \in DOMAIN wheel[s] :
           wheel[s][i].n = map[other] /\ wheel[s][i].id = other /\ ~wheel[s][i].isDeleted
    BY <1>0, <2>1 DEF Mapped
  <2>3. PICK i \in DOMAIN wheel[s] :
           wheel[s][i].n = map[other] /\ wheel[s][i].id = other /\ ~wheel[s][i].isDeleted
    BY <2>2
  <2>4. map[other] # map[id]
    <3>1. SUFFICES ASSUME map[other] = map[id] PROVE FALSE
      OBVIOUS
    <3>2. PICK t \in Slots : \E j \in DOMAIN wheel[t] : wheel[t][j].n = map[id] /\ wheel[t][j].id = id
      BY <1>0, <2>1, <3>1 DEF Mapped
    <3>3. PICK j \in DOMAIN wheel[t] : wheel[t][j].n = map[id] /\ wheel[t][j].id = id
      BY <3>2
    <3>4. s = t /\ i = j
      BY <1>0, <2>3, <3>1, <3>3 DEF Listed
    <3> QED  BY <2>1, <2>3, <3>3, <3>4
  <2>5. wheel'[s][i] = wheel[s][i] /\ i \in DOMAIN wheel'[s]
    BY <1>1, <2>3, <2>4
  <2> QED  BY <2>1, <2>3, <2>5
<1>6. OnSchedule'
  <2> SUFFICES ASSUME NEW s \in Slots, NEW i \in DOMAIN wheel[s], ~wheel'[s][i].isDeleted
               PROVE  SlotsToGo(s, i)' = made[wheel'[s][i].n].total - (steps - made[wheel'[s][i].n].at)
    BY <1>0, <1>1 DEF OnSchedule
  <2>1. SlotsToGo(s, i)' = SlotsToGo(s, i)
    BY <1>0, <1>1 DEF SlotsToGo
  <2>2. SlotsToGo(s, i) = made[wheel[s][i].n].total - (steps - made[wheel[s][i].n].at)
    BY <1>0, <1>1 DEF OnSchedule
  <2> QED  BY <1>1, <2>1, <2>2
<1>7. Due'
  BY <1>0 DEF Due, Base
<1>8. Fired'
  BY <1>0, <1>1 DEF Fired
<1>9. FiresInItsSlot'
  <2> SUFFICES ASSUME pc = "callback" PROVE now >= made[Node'.n].due \/ now >= Node'.expire
    BY <1>0 DEF FiresInItsSlot
  <2>1. pos \in DOMAIN wheel[slot] /\ slot \in Slots
    BY <1>0 DEF Values, Listed, List
  <2>2. Node'.n = Node.n /\ Node'.expire = Node.expire
    BY <1>0, <1>1, <2>1 DEF Node, List
  <2> QED  BY <1>0, <2>2 DEF FiresInItsSlot
<1> QED  BY <1>2, <1>3, <1>4, <1>5, <1>6, <1>7, <1>8, <1>9 DEF WheelInv


LEMMA BaseType == Values => Base \in Int
<1> SUFFICES ASSUME Values PROVE Base \in Int
  OBVIOUS
<1>1. /\ TickMs \in Nat \ {0} /\ lastTick \in Int /\ tickNow \in Int /\ left \in Int
  BY WheelAssumption DEF Values
<1>2. (tickNow - lastTick) \div TickMs \in Int
  BY <1>1
<1> QED  BY <1>1, <1>2 DEF Base

LEMMA AddKeeps ==
    ASSUME WheelInv, NEW id \in Ids, NEW delay \in Delays, AddTimer(id, delay)
    PROVE  WheelInv'
<1>0. /\ Values /\ Listed /\ Clock /\ Mapped /\ OnSchedule /\ Due /\ Fired /\ FiresInItsSlot
      /\ UNCHANGED <<now, slot, lastTick, pc, pos, left, tickNow, steps, cancelled, fired>>
      /\ map[id] = 0 /\ Len(made) < MaxAdds
  BY DEF WheelInv, AddTimer, tickVars
<1> DEFINE N == Len(made)
           total == delay \div TickMs
           target == SlotAhead(total)
           node == [n |-> N + 1, id |-> id, expire |-> now + delay, isDeleted |-> FALSE, rounds |-> RoundsOf(total)]
           m == [total |-> total, due |-> Base + (total + 1) * TickMs, at |-> steps]
           L == Len(wheel[target])
<1>1. /\ wheel' = [wheel EXCEPT ![target] = Append(@, node)]
      /\ map' = [map EXCEPT ![id] = N + 1] /\ made' = Append(made, m)
  BY DEF AddTimer
<1>2. /\ N \in Nat /\ N + 1 \in Serials /\ N + 1 \in 0 .. MaxAdds /\ delay \in Nat /\ now \in Nat
      /\ TickMs \in Nat \ {0} /\ Base \in Int
  BY <1>0, BaseType, WheelAssumption DEF AddTimer, Values, Serials
<1>3. total \in Nat
  BY <1>2
<1> HIDE DEF total
<1>4. /\ target \in Slots /\ RoundsOf(total) \in Nat
      /\ ((target + WheelSize - slot) % WheelSize) + WheelSize * RoundsOf(total) = total
  BY <1>0, <1>3, AsManyAsAsked DEF Values
<1>5. node \in NodeType /\ node.n = N + 1 /\ node.id = id /\ node.isDeleted = FALSE /\ node.rounds = RoundsOf(total)
  BY <1>2, <1>4 DEF NodeType
<1>6. /\ m \in [total : Nat, due : Int, at : Nat]
      /\ m.total = total /\ m.due = Base + (total + 1) * TickMs /\ m.at = steps
  BY <1>0, <1>2, <1>3 DEF Values
<1> HIDE DEF target, node, m
<1>7. /\ wheel' \in [Slots -> Seq(NodeType)]
      /\ \A s \in Slots : \A i \in DOMAIN wheel[s] : i \in DOMAIN wheel'[s] /\ wheel'[s][i] = wheel[s][i]
      /\ L \in Nat /\ L + 1 \in DOMAIN wheel'[target] /\ wheel'[target][L + 1] = node
      /\ \A s \in Slots : \A i \in DOMAIN wheel'[s] : i \in DOMAIN wheel[s] \/ (s = target /\ i = L + 1)
      /\ L + 1 \notin DOMAIN wheel[target]
      /\ \A s \in Slots : Len(wheel[s]) <= Len(wheel'[s])
  <2>1. wheel \in [Slots -> Seq(NodeType)]
    BY <1>0 DEF Listed
  <2> DEFINE list == wheel[target]
             long == Append(list, node)
  <2>2. list \in Seq(NodeType) /\ L \in Nat /\ DOMAIN list = 1 .. L /\ Len(list) = L
    BY <1>4, <2>1
  <2>3. /\ long \in Seq(NodeType) /\ DOMAIN long = 1 .. L + 1 /\ Len(long) = L + 1 /\ long[L + 1] = node
        /\ \A i \in 1 .. L : long[i] = list[i]
    BY <1>5, <2>2
  <2>4. wheel' = [wheel EXCEPT ![target] = long]
    BY <1>1
  <2> HIDE DEF long
  <2>5. wheel' \in [Slots -> Seq(NodeType)] /\ wheel'[target] = long /\ \A s \in Slots \ {target} : wheel'[s] = wheel[s]
    BY <1>4, <2>1, <2>3, <2>4
  <2>6. \A s \in Slots : Len(wheel[s]) \in Nat
    BY <2>1
  <2>7. \A i \in 1 .. L + 1 : i \in 1 .. L \/ i = L + 1
    BY <2>2
  <2>8. L + 1 \notin 1 .. L /\ L + 1 \in 1 .. L + 1 /\ \A i \in 1 .. L : i \in 1 .. L + 1
    BY <2>2
  <2>9. ASSUME NEW s \in Slots
        PROVE  /\ \A i \in DOMAIN wheel[s] : i \in DOMAIN wheel'[s] /\ wheel'[s][i] = wheel[s][i]
               /\ \A i \in DOMAIN wheel'[s] : i \in DOMAIN wheel[s] \/ (s = target /\ i = L + 1)
               /\ Len(wheel[s]) <= Len(wheel'[s])
    <3>1. CASE s # target
      BY <2>5, <2>6, <3>1
    <3>2. CASE s = target
      <4>1. L <= L + 1
        BY <2>2
      <4> QED  BY <2>2, <2>3, <2>5, <2>7, <2>8, <3>2, <4>1
    <3> QED  BY <3>1, <3>2
  <2>10. L \in Nat /\ L + 1 \in DOMAIN wheel'[target] /\ wheel'[target][L + 1] = node /\ L + 1 \notin DOMAIN wheel[target]
    BY <2>2, <2>3, <2>5, <2>8
  <2> QED  BY <2>5, <2>9, <2>10
<1>8. /\ made' \in Seq([total : Nat, due : Int, at : Nat]) /\ Len(made') = N + 1
      /\ DOMAIN made = 1 .. N /\ DOMAIN made' = 1 .. N + 1
      /\ \A n \in 1 .. N : made'[n] = made[n]
      /\ made'[N + 1] = m
  BY <1>0, <1>1, <1>6 DEF Values
<1>9. \A s \in Slots : \A i \in DOMAIN wheel[s] : wheel[s][i].n \in 1 .. N
  <2>1. \A s \in Slots : \A i \in DOMAIN wheel[s] : wheel[s][i] \in NodeType /\ wheel[s][i].n <= N
    BY <1>0 DEF Listed
  <2> QED  BY <1>2, <2>1 DEF NodeType, Serials
<1>91. ASSUME NEW s \in Slots, NEW i \in DOMAIN wheel'[s]
       PROVE  \/ /\ i \in DOMAIN wheel[s] /\ wheel'[s][i] = wheel[s][i]
                 /\ wheel[s][i].n \in 1 .. N /\ wheel'[s][i].n # N + 1
              \/ s = target /\ i = L + 1 /\ wheel'[s][i].n = N + 1
  <2>1. CASE i \in DOMAIN wheel[s]
    <3>1. wheel'[s][i] = wheel[s][i] /\ wheel[s][i].n \in 1 .. N
      BY <1>7, <1>9, <2>1
    <3>2. wheel[s][i].n # N + 1
      BY <1>2, <3>1
    <3> QED  BY <2>1, <3>1, <3>2
  <2>2. CASE s = target /\ i = L + 1
    <3>1. wheel'[s][i].n = N + 1
      BY <1>5, <1>7, <2>2
    <3> QED  BY <2>2, <3>1
  <2> QED  BY <1>7, <2>1, <2>2
<1> HIDE DEF L, N
<1>10. Values'
  <2>1. map' \in [Ids -> 0 .. MaxAdds]
    BY <1>0, <1>1, <1>2 DEF Values
  <2>2. Len(made') <= MaxAdds
    BY <1>2, <1>8 DEF Serials
  <2> QED  BY <1>0, <1>8, <2>1, <2>2 DEF Values
<1>11. Listed'
  <2>1. \A s \in Slots : \A i \in DOMAIN wheel'[s] : wheel'[s][i].n <= Len(made')
    <3>1. Len(made') = N + 1 /\ \A n \in 1 .. N : n <= N + 1
      BY <1>2, <1>8
    <3>2. N + 1 <= N + 1
      BY <1>2
    <3> QED  BY <1>91, <3>1, <3>2
  <2>3. ASSUME NEW s \in Slots, NEW t \in Slots, NEW i \in DOMAIN wheel'[s], NEW j \in DOMAIN wheel'[t],
               wheel'[s][i].n = wheel'[t][j].n
        PROVE  s = t /\ i = j
    <3>1. CASE wheel'[s][i].n = N + 1
      BY <1>91, <2>3, <3>1
    <3>2. CASE wheel'[s][i].n # N + 1
      <4>1. /\ i \in DOMAIN wheel[s] /\ wheel'[s][i] = wheel[s][i]
            /\ j \in DOMAIN wheel[t] /\ wheel'[t][j] = wheel[t][j]
        BY <1>91, <2>3, <3>2
      <4> QED  BY <1>0, <2>3, <4>1 DEF Listed
    <3> QED  BY <3>1, <3>2
  <2>4. pc' = "callback" => pos' <= Len(wheel'[slot'])
    <3>1. /\ slot \in Slots /\ pos \in Nat /\ Len(wheel[slot]) \in Nat /\ Len(wheel'[slot]) \in Nat
          /\ Len(wheel[slot]) <= Len(wheel'[slot])
      BY <1>0, <1>7 DEF Values, Listed
    <3> QED  BY <1>0, <3>1 DEF Listed, List
  <2> QED  BY <1>7, <2>1, <2>3, <2>4 DEF Listed, List
<1>12. Clock'
  BY <1>0 DEF Clock
<1>13. Mapped'
  <2> SUFFICES ASSUME NEW other \in Ids, map'[other] # 0
               PROVE  \E s \in Slots : \E i \in DOMAIN wheel'[s] :
                          wheel'[s][i].n = map'[other] /\ wheel'[s][i].id = other /\ ~wheel'[s][i].isDeleted
    BY DEF Mapped
  <2>1. CASE other = id
    <3>1. map'[other] = N + 1
      BY <1>0, <1>1, <2>1 DEF Values
    <3> QED  BY <1>4, <1>5, <1>7, <2>1, <3>1
  <2>2. CASE other # id
    <3>1. map'[other] = map[other]
      BY <1>0, <1>1, <2>2 DEF Values
    <3> QED  BY <1>0, <1>7, <3>1 DEF Mapped
  <2> QED  BY <2>1, <2>2
<1>14. OnSchedule'
  <2> SUFFICES ASSUME NEW s \in Slots, NEW i \in DOMAIN wheel'[s], ~wheel'[s][i].isDeleted
               PROVE  SlotsToGo(s, i)' = made'[wheel'[s][i].n].total - (steps' - made'[wheel'[s][i].n].at)
    BY DEF OnSchedule
  <2>1. CASE i \in DOMAIN wheel[s]
    <3>1. wheel'[s][i] = wheel[s][i] /\ made'[wheel[s][i].n] = made[wheel[s][i].n]
      BY <1>7, <1>8, <1>9, <2>1
    <3>2. SlotsToGo(s, i)' = SlotsToGo(s, i)
      BY <1>0, <3>1 DEF SlotsToGo
    <3>3. SlotsToGo(s, i) = made[wheel[s][i].n].total - (steps - made[wheel[s][i].n].at)
      BY <1>0, <2>1, <3>1 DEF OnSchedule
    <3> QED  BY <1>0, <3>1, <3>2, <3>3
  <2>2. CASE s = target /\ i = L + 1
    <3>1. wheel'[s][i] = node /\ made'[node.n] = m
      BY <1>5, <1>7, <1>8, <2>2
    <3>2. ~(s = slot /\ pc # "idle" /\ i < pos)
      <4>1. SUFFICES ASSUME s = slot, pc # "idle" PROVE ~(i < pos)
        OBVIOUS
      <4>2. pc = "callback"
        BY <1>0, <4>1 DEF AddTimer, Values
      <4>3. pos <= L /\ pos \in Nat
        BY <1>0, <2>2, <4>1, <4>2 DEF Listed, List, Values, L
      <4> QED  BY <1>7, <2>2, <4>3
    <3>3. SlotsToGo(s, i)' = total
      BY <1>0, <1>4, <1>5, <2>2, <3>1, <3>2 DEF SlotsToGo
    <3>4. m.total - (steps - m.at) = total
      BY <1>0, <1>3, <1>6 DEF Values
    <3> QED  BY <1>0, <3>1, <3>3, <3>4
  <2> QED  BY <1>7, <2>1, <2>2
<1>15. Due'
  <2>1. Base' = Base
    BY <1>0 DEF Base
  <2> SUFFICES ASSUME NEW n \in 1 .. N + 1
               PROVE  /\ made'[n].at <= steps
                      /\ made'[n].due <= Base + (made'[n].total + 1 - (steps - made'[n].at)) * TickMs
    BY <1>0, <1>8, <2>1 DEF Due
  <2>2. CASE n \in 1 .. N
    BY <1>0, <1>8, <2>2 DEF Due
  <2>3. CASE n = N + 1
    <3>1. steps \in Nat /\ total + 1 - (steps - steps) = total + 1
      BY <1>0, <1>3 DEF Values
    <3>2. (total + 1) * TickMs \in Int
      BY <1>2, <1>3
    <3> QED  BY <1>2, <1>6, <1>8, <2>3, <3>1, <3>2
  <2> QED  BY <1>2, <2>2, <2>3
<1>16. Fired'
  <2>1. \A k \in DOMAIN fired : fired[k] \in 1 .. N + 1 /\ fired[k] # N + 1
    BY <1>0, <1>2 DEF Fired, N
  <2>2. ASSUME NEW s \in Slots, NEW i \in DOMAIN wheel'[s], NEW k \in DOMAIN fired, fired[k] = wheel'[s][i].n
        PROVE  pc = "callback" /\ s = slot /\ i = pos
    <3>1. i \in DOMAIN wheel[s] /\ wheel'[s][i] = wheel[s][i]
      BY <1>91, <2>1, <2>2
    <3> QED  BY <1>0, <2>2, <3>1 DEF Fired
  <2> QED  BY <1>0, <1>8, <2>1, <2>2 DEF Fired
<1>17. FiresInItsSlot'
  <2> SUFFICES ASSUME pc = "callback" PROVE now >= made'[Node'.n].due \/ now >= Node'.expire
    BY <1>0 DEF FiresInItsSlot
  <2>1. pos \in DOMAIN wheel[slot] /\ slot \in Slots
    BY <1>0 DEF Values, Listed, List
  <2>2. Node' = Node /\ made'[Node.n] = made[Node.n]
    BY <1>0, <1>7, <1>8, <1>9, <2>1 DEF Node, List
  <2> QED  BY <1>0, <2>2 DEF FiresInItsSlot
<1> QED  BY <1>10, <1>11, <1>12, <1>13, <1>14, <1>15, <1>16, <1>17 DEF WheelInv


-----------------------------------------------------------------------------
(* The steps of Tick, and the clock.                                       *)

LEMMA Times ==
    /\ TickMs \in Nat \ {0}
    /\ \A a \in Int : a * TickMs \in Int /\ (a + 1) * TickMs = a * TickMs + TickMs
    /\ \A a \in Int : (a - 1) * TickMs = a * TickMs - TickMs
    /\ \A x \in Nat : x \div TickMs \in Nat /\ (x \div TickMs) * TickMs <= x
<1>1. TickMs \in Nat \ {0}
  BY WheelAssumption
<1>2. \A a \in Int : a * TickMs \in Int
  BY <1>1
<1>3. \A a \in Int : (a + 1) * TickMs = a * TickMs + TickMs
  BY <1>1
<1>4. \A a \in Int : (a - 1) * TickMs = a * TickMs - TickMs
  BY <1>1
<1>5. ASSUME NEW x \in Nat PROVE x \div TickMs \in Nat /\ (x \div TickMs) * TickMs <= x
  <2>1. x \div TickMs \in Nat /\ TickMs * (x \div TickMs) <= x
    BY <1>1
  <2> QED  BY <1>1, <2>1
<1> QED  BY <1>1, <1>2, <1>3, <1>4, <1>5

\* While a Tick runs, the slots it has passed and the current one lie in the past.
LEMMA BaseBehind ==
    ASSUME Values, Clock, pc # "idle"
    PROVE  /\ Base = lastTick + ((tickNow - lastTick) \div TickMs - left) * TickMs
           /\ Base + TickMs <= tickNow
           /\ left # 1 => lastTick + ((tickNow - lastTick) \div TickMs - (left - 1)) * TickMs = Base + TickMs
<1> DEFINE T == (tickNow - lastTick) \div TickMs
           a == T - left
           passed == a * TickMs
<1>0. /\ lastTick \in Nat /\ tickNow \in Nat /\ left \in Nat /\ left >= 1 /\ lastTick <= tickNow
      /\ tickNow - lastTick \in Nat /\ TickMs \in Nat \ {0}
  BY WheelAssumption DEF Values, Clock
<1>1. T \in Nat /\ T * TickMs <= tickNow - lastTick /\ left <= T
  BY <1>0, Times DEF Clock
<1>2. Base = lastTick + passed
  BY DEF Base
<1> HIDE DEF T
<1>3. a \in Int /\ T - (left - 1) = a + 1 /\ T = a + left
  BY <1>0, <1>1
<1> HIDE DEF a
<1>4. passed \in Int /\ (a + 1) * TickMs = passed + TickMs
  BY <1>3, Times
<1>5. (a + 1) * TickMs <= T * TickMs
  <2>1. a + 1 <= T /\ T - (a + 1) \in Nat
    BY <1>0, <1>1, <1>3
  <2>2. (T - (a + 1)) * TickMs \in Nat
    BY <1>0, <2>1
  <2>3. T * TickMs = (a + 1) * TickMs + (T - (a + 1)) * TickMs
    BY <1>0, <1>1, <1>3
  <2>4. T * TickMs \in Int /\ (a + 1) * TickMs \in Int
    BY <1>0, <1>1, <1>3
  <2> QED  BY <2>2, <2>3, <2>4
<1>6. T * TickMs \in Int
  BY <1>1, Times
<1> HIDE DEF passed
<1>7. Base + TickMs <= tickNow
  BY <1>0, <1>1, <1>2, <1>4, <1>5, <1>6
<1>8. lastTick + (T - (left - 1)) * TickMs = Base + TickMs
  BY <1>0, <1>2, <1>3, <1>4
<1>9. Base = lastTick + (T - left) * TickMs
  BY <1>2 DEF passed, a
<1> QED  BY <1>7, <1>8, <1>9 DEF T

LEMMA WheelInit == Init => WheelInv
<1> SUFFICES ASSUME Init PROVE WheelInv
  OBVIOUS
<1>1. wheel \in [Slots -> Seq(NodeType)] /\ \A s \in Slots : wheel[s] = <<>>
  BY DEF Init
<1>2. 0 \in Slots /\ 0 \in 0 .. MaxTime /\ 0 \in 0 .. MaxAdds
  BY WheelAssumption DEF Slots
<1>3. Values
  <2>1. map \in [Ids -> 0 .. MaxAdds]
    BY <1>2 DEF Init
  <2>2. made \in Seq([total : Nat, due : Int, at : Nat]) /\ Len(made) = 0
    BY DEF Init
  <2> QED  BY <1>2, <2>1, <2>2, WheelAssumption DEF Init, Values
<1>4. \A s \in Slots : DOMAIN wheel[s] = {}
  BY <1>1
<1>5. Listed
  BY <1>1, <1>4 DEF Init, Listed
<1>6. Clock /\ Mapped /\ FiresInItsSlot
  BY <1>4 DEF Init, Clock, Mapped, FiresInItsSlot
<1>7. OnSchedule
  BY <1>4 DEF OnSchedule
<1>8. DOMAIN made = {} /\ DOMAIN fired = {}
  BY DEF Init
<1>9. Due
  BY <1>8 DEF Due
<1>10. Fired
  BY <1>4, <1>8 DEF Fired
<1> QED  BY <1>3, <1>5, <1>6, <1>7, <1>9, <1>10 DEF WheelInv

\* What is remembered of a node.
LEMMA MadeWith ==
    ASSUME Values, NEW n \in 1 .. Len(made)
    PROVE  made[n].total \in Nat /\ made[n].due \in Int /\ made[n].at \in Nat /\ n \in DOMAIN made
<1> DEFINE S == [total : Nat, due : Int, at : Nat]
<1>1. made \in Seq(S)
  BY DEF Values
<1> HIDE DEF S
<1>2. made[n] \in S /\ n \in DOMAIN made
  BY <1>1
<1> QED  BY <1>2 DEF S

LEMMA AdvanceKeeps == ASSUME WheelInv, Advance PROVE WheelInv'
<1>0. /\ Values /\ Listed /\ Clock /\ Mapped /\ OnSchedule /\ Due /\ Fired /\ FiresInItsSlot
      /\ UNCHANGED <<wheel, map, slot, lastTick, pc, pos, left, tickNow, made, steps, cancelled, fired>>
      /\ now' = now + 1 /\ now < MaxTime
  BY DEF WheelInv, Advance, tickVars, history
<1>1. Values'
  BY <1>0, WheelAssumption DEF Values
<1>2. Listed' /\ Mapped' /\ OnSchedule' /\ Due' /\ Fired'
  BY <1>0 DEF Listed, List, Mapped, OnSchedule, SlotsToGo, Due, Base, Fired
<1>3. Clock'
  BY <1>0 DEF Clock, Values
<1>4. FiresInItsSlot'
  <2> SUFFICES ASSUME pc = "callback" PROVE now + 1 >= made[Node.n].due \/ now + 1 >= Node.expire
    BY <1>0 DEF FiresInItsSlot, Node, List
  <2>1. now >= made[Node.n].due \/ now >= Node.expire
    BY <1>0 DEF FiresInItsSlot
  <2>2. Node \in NodeType /\ Node.n <= Len(made)
    BY <1>0 DEF Values, Listed, List, Node
  <2>3. Node.expire \in Nat /\ Node.n \in 1 .. Len(made)
    BY <2>2, <1>0 DEF NodeType, Serials, Values
  <2>4. made[Node.n].due \in Int
    BY <1>0, <2>3, MadeWith
  <2>5. now \in Int
    BY <1>0 DEF Values
  <2> HIDE DEF Node
  <2> QED  BY <2>1, <2>3, <2>4, <2>5
<1> QED  BY <1>1, <1>2, <1>3, <1>4 DEF WheelInv

LEMMA BeginKeeps == ASSUME WheelInv, TickBegin PROVE WheelInv'
<1>0. /\ Values /\ Listed /\ Clock /\ Mapped /\ OnSchedule /\ Due /\ Fired
      /\ UNCHANGED <<now, wheel, map, slot, lastTick, made, steps, cancelled, fired>>
      /\ pc = "idle" /\ pc' = "visit" /\ pos' = 1 /\ tickNow' = now
      /\ left' = (now - lastTick) \div TickMs /\ left' > 0
  BY DEF WheelInv, TickBegin, history
<1>1. now \in Nat /\ lastTick \in Nat /\ lastTick <= now /\ now - lastTick \in Nat
  BY <1>0 DEF Values, Clock
<1>2. left' \in Nat
  BY <1>0, <1>1, Times
<1>3. Values'
  BY <1>0, <1>2 DEF Values
<1>4. Listed' /\ Mapped'
  BY <1>0 DEF Listed, List, Mapped
<1>5. Clock'
  BY <1>0, <1>1, <1>2 DEF Clock
<1>6. ASSUME NEW s \in Slots, NEW i \in DOMAIN wheel[s] PROVE SlotsToGo(s, i)' = SlotsToGo(s, i)
  <2>1. ~(i < 1)
    BY <1>0 DEF Listed
  <2> QED  BY <1>0, <2>1 DEF SlotsToGo
<1>7. OnSchedule'
  BY <1>0, <1>6 DEF OnSchedule
<1>8. Due'
  <2>1. Base' = lastTick + (left' - left') * TickMs
    BY <1>0 DEF Base
  <2>2. Base = lastTick + 0 * TickMs
    BY <1>0 DEF Base
  <2>3. Base' = Base
    BY <1>2, <2>1, <2>2
  <2> QED  BY <1>0, <2>3 DEF Due
<1>9. Fired' /\ FiresInItsSlot'
  BY <1>0 DEF Fired, FiresInItsSlot
<1> QED  BY <1>3, <1>4, <1>5, <1>7, <1>8, <1>9 DEF WheelInv

\* What Tick's iterator stands at.
LEMMA AtIterator ==
    ASSUME Values, Listed, pos <= Len(List)
    PROVE  /\ slot \in Slots /\ pos \in DOMAIN wheel[slot] /\ Node = wheel[slot][pos] /\ Node \in NodeType
           /\ Node.n \in 1 .. Len(made)
<1>1. slot \in Slots /\ pos \in DOMAIN wheel[slot] /\ Node = wheel[slot][pos]
  BY DEF Values, Listed, List, Node
<1>2. Node \in NodeType /\ Node.n <= Len(made)
  BY <1>1 DEF Listed
<1> QED  BY <1>1, <1>2 DEF NodeType, Serials, Values

LEMMA DeletedKeeps == ASSUME WheelInv, VisitDeleted PROVE WheelInv'
<1>0. Values /\ Listed /\ Fired /\ Visiting /\ EraseNode
  BY DEF WheelInv, VisitDeleted
<1>1. \A k \in DOMAIN fired : fired[k] = Node.n => pc = "callback"
  BY <1>0, AtIterator DEF Fired, Visiting
<1> QED  BY <1>0, <1>1, EraseKeeps DEF VisitDeleted, Visiting, tickVars

LEMMA ReturnKeeps == ASSUME WheelInv, CallbackReturns PROVE WheelInv'
<1>0. pc = "callback" /\ pos <= Len(List) /\ EraseNode
  BY DEF WheelInv, Listed, CallbackReturns
<1> QED  BY <1>0, EraseKeeps DEF CallbackReturns

LEMMA ExpiredKeeps == ASSUME WheelInv, VisitExpired PROVE WheelInv'
<1>0. /\ Values /\ Listed /\ Clock /\ Mapped /\ OnSchedule /\ Due /\ Fired
      /\ UNCHANGED <<now, wheel, map, slot, lastTick, pos, left, tickNow, made, steps, cancelled>>
      /\ pc = "visit" /\ pos <= Len(List) /\ ~Node.isDeleted /\ Expired
      /\ pc' = "callback" /\ fired' = Append(fired, Node.n)
  BY DEF WheelInv, VisitExpired, Visiting
<1>1. /\ slot \in Slots /\ pos \in DOMAIN wheel[slot] /\ Node = wheel[slot][pos] /\ Node \in NodeType
      /\ Node.n \in 1 .. Len(made)
  BY <1>0, AtIterator
<1>2. /\ fired' \in Seq(Nat) /\ DOMAIN fired' = 1 .. Len(fired) + 1 /\ DOMAIN fired = 1 .. Len(fired)
      /\ \A k \in 1 .. Len(fired) : fired'[k] = fired[k]
      /\ fired'[Len(fired) + 1] = Node.n /\ Len(fired) \in Nat
  <2>1. fired \in Seq(Nat) /\ Node.n \in Nat
    BY <1>0, <1>1 DEF Values
  <2> QED  BY <1>0, <2>1
<1>3. Values'
  BY <1>0, <1>2 DEF Values
<1>4. Listed' /\ Mapped'
  BY <1>0 DEF Listed, List, Mapped
<1>5. Clock'
  BY <1>0 DEF Clock
<1>6. \A s \in Slots : \A i \in DOMAIN wheel[s] : SlotsToGo(s, i)' = SlotsToGo(s, i)
  BY <1>0 DEF SlotsToGo
<1>7. OnSchedule'
  BY <1>0, <1>6 DEF OnSchedule
<1>8. Base' = Base /\ Due'
  BY <1>0 DEF Due, Base
<1>9. Fired'
  <2>1. \A k \in 1 .. Len(fired) : fired[k] \in 1 .. Len(made) /\ fired[k] # Node.n
    BY <1>0, <1>1, <1>2 DEF Fired
  <2>2. \A k \in DOMAIN fired' : k \in 1 .. Len(fired) \/ k = Len(fired) + 1
    BY <1>2
  <2>3. \A k \in DOMAIN fired' : fired'[k] \in 1 .. Len(made)
    BY <1>1, <1>2, <2>1, <2>2
  <2>4. \A k, l \in DOMAIN fired' : fired'[k] = fired'[l] => k = l
    BY <1>0, <1>2, <2>1, <2>2 DEF Fired
  <2>5. ASSUME NEW s \in Slots, NEW i \in DOMAIN wheel[s], NEW k \in DOMAIN fired', fired'[k] = wheel[s][i].n
        PROVE  s = slot /\ i = pos
    <3>1. k = Len(fired) + 1
      BY <1>0, <1>2, <2>2, <2>5 DEF Fired
    <3>2. wheel[s][i].n = wheel[slot][pos].n
      BY <1>1, <1>2, <2>5, <3>1
    <3> QED  BY <1>0, <1>1, <3>2 DEF Listed
  <2> QED  BY <1>0, <2>3, <2>4, <2>5 DEF Fired
<1>10. FiresInItsSlot'
  <2> SUFFICES now >= made[Node.n].due \/ now >= Node.expire
    BY <1>0 DEF FiresInItsSlot, Node, List
  <2>1. CASE Node.rounds = 0
    <3> DEFINE m == made[Node.n]
    <3>0. m.total \in Nat /\ m.due \in Int /\ m.at \in Nat /\ steps \in Nat /\ Node.n \in DOMAIN made
      BY <1>0, <1>1, MadeWith DEF Values
    <3>1. SlotsToGo(slot, pos) = m.total - (steps - m.at)
      BY <1>0, <1>1 DEF OnSchedule
    <3>2. (slot + WheelSize - slot) % WheelSize = slot - slot
      <4>1. slot \in Slots /\ slot \in Nat
        BY <1>1, WheelAssumption DEF Slots
      <4>2. (slot + WheelSize - slot) % WheelSize = IF slot >= slot THEN slot - slot ELSE slot + WheelSize - slot
        BY <4>1, Distance
      <4> QED  BY <4>1, <4>2
    <3>3. ~(pos < pos) /\ slot - slot = 0 /\ WheelSize * 0 = 0
      BY <1>0, <1>1, WheelAssumption DEF Values, Slots
    <3>4. SlotsToGo(slot, pos) = 0
      BY <1>1, <2>1, <3>2, <3>3 DEF SlotsToGo
    <3>5. m.due <= Base + (m.total + 1 - (steps - m.at)) * TickMs
      BY <1>0, <3>0 DEF Due
    <3> HIDE DEF m
    <3>6. m.total + 1 - (steps - m.at) = 1 /\ 1 * TickMs = TickMs
      <4>1. m.total + 1 - (steps - m.at) = 1
        BY <3>0, <3>1, <3>4
      <4>2. \A a \in Nat : 1 * a = a
        OBVIOUS
      <4> QED  BY <4>1, <4>2, Times
    <3>7. Base + TickMs <= tickNow /\ tickNow <= now
      BY <1>0, BaseBehind DEF Clock
    <3>8. Base \in Int /\ TickMs \in Int /\ tickNow \in Int /\ now \in Int
      BY <1>0, BaseType, Times DEF Values
    <3> QED  BY <3>0, <3>5, <3>6, <3>7, <3>8 DEF m
  <2>2. CASE now >= Node.expire
    BY <2>2
  <2> QED  BY <1>0, <2>1, <2>2 DEF Expired
<1> QED  BY <1>3, <1>4, <1>5, <1>7, <1>8, <1>9, <1>10 DEF WheelInv


LEMMA LaterKeeps == ASSUME WheelInv, VisitLater PROVE WheelInv'
<1>0. /\ Values /\ Listed /\ Clock /\ Mapped /\ OnSchedule /\ Due /\ Fired
      /\ UNCHANGED <<now, map, slot, lastTick, pc, left, tickNow, made, steps, cancelled, fired>>
      /\ pc = "visit" /\ pos <= Len(List) /\ ~Expired /\ pos' = pos + 1
      /\ wheel' = [wheel EXCEPT ![slot][pos].rounds = @ - 1]
  BY DEF WheelInv, VisitLater, Visiting, history
<1>1. /\ slot \in Slots /\ pos \in DOMAIN wheel[slot] /\ Node = wheel[slot][pos] /\ Node \in NodeType
      /\ Node.n \in 1 .. Len(made) /\ wheel \in [Slots -> Seq(NodeType)]
  BY <1>0, AtIterator DEF Listed
<1> DEFINE turned == [Node EXCEPT !.rounds = @ - 1]
           list == [List EXCEPT ![pos] = turned]
<1>2. Node.rounds \in Nat /\ Node.rounds # 0 /\ Node.rounds - 1 \in Nat
  BY <1>0, <1>1 DEF Expired, NodeType
<1>3. /\ turned \in NodeType /\ turned.n = Node.n /\ turned.id = Node.id
      /\ turned.isDeleted = Node.isDeleted /\ turned.rounds = Node.rounds - 1
  BY <1>1, <1>2 DEF NodeType
<1>4. wheel' = [wheel EXCEPT ![slot] = list]
  BY <1>0 DEF List, Node
<1> HIDE DEF turned
<1>5. list \in Seq(NodeType) /\ DOMAIN list = DOMAIN List /\ Len(list) = Len(List)
      /\ list[pos] = turned /\ \A i \in DOMAIN List \ {pos} : list[i] = List[i]
  BY <1>1, <1>3 DEF List
<1> HIDE DEF list
<1>6. /\ wheel' \in [Slots -> Seq(NodeType)] /\ \A s \in Slots : DOMAIN wheel'[s] = DOMAIN wheel[s]
      /\ wheel'[slot][pos] = turned
      /\ \A s \in Slots : \A i \in DOMAIN wheel[s] : ~(s = slot /\ i = pos) => wheel'[s][i] = wheel[s][i]
  BY <1>1, <1>4, <1>5 DEF List
<1>7. \A s \in Slots : \A i \in DOMAIN wheel[s] : /\ wheel'[s][i].n = wheel[s][i].n
                                                  /\ wheel'[s][i].id = wheel[s][i].id
                                                  /\ wheel'[s][i].isDeleted = wheel[s][i].isDeleted
  BY <1>1, <1>3, <1>6
<1>8. Values'
  BY <1>0 DEF Values
<1>9. Listed'
  BY <1>0, <1>6, <1>7 DEF Listed
<1>10. Clock'
  BY <1>0 DEF Clock
<1>11. Mapped'
  <2> SUFFICES ASSUME NEW id \in Ids, map'[id] # 0
               PROVE  \E s \in Slots : \E i \in DOMAIN wheel'[s] :
                          wheel'[s][i].n = map'[id] /\ wheel'[s][i].id = id /\ ~wheel'[s][i].isDeleted
    BY DEF Mapped
  <2>1. map'[id] = map[id]
    BY <1>0
  <2>2. PICK s \in Slots : \E i \in DOMAIN wheel[s] :
           wheel[s][i].n = map[id] /\ wheel[s][i].id = id /\ ~wheel[s][i].isDeleted
    BY <1>0, <2>1 DEF Mapped
  <2>3. PICK i \in DOMAIN wheel[s] :
           wheel[s][i].n = map[id] /\ wheel[s][i].id = id /\ ~wheel[s][i].isDeleted
    BY <2>2
  <2> QED  BY <1>6, <1>7, <2>1, <2>3
<1>12. ASSUME NEW s \in Slots, NEW i \in DOMAIN wheel[s] PROVE SlotsToGo(s, i)' = SlotsToGo(s, i)
  <2>1. i \in Nat /\ pos \in Nat
    <3>1. wheel[s] \in Seq(NodeType)
      BY <1>1
    <3> QED  BY <1>0, <3>1 DEF Values
  <2>2. CASE s = slot /\ i = pos
    <3>1. i < pos + 1 /\ ~(i < pos) /\ Node.rounds - 1 + 1 = Node.rounds
      BY <1>2, <2>1, <2>2
    <3> QED  BY <1>0, <1>1, <1>3, <1>6, <2>2, <3>1 DEF SlotsToGo
  <2>3. CASE ~(s = slot /\ i = pos)
    <3>1. s = slot => (i < pos + 1 <=> i < pos)
      BY <2>1, <2>3
    <3> QED  BY <1>0, <1>6, <2>3, <3>1 DEF SlotsToGo
  <2> QED  BY <2>2, <2>3
<1>13. OnSchedule'
  BY <1>0, <1>6, <1>7, <1>12 DEF OnSchedule
<1>14. Due'
  BY <1>0 DEF Due, Base
<1>15. Fired' /\ FiresInItsSlot'
  BY <1>0, <1>6, <1>7 DEF Fired, FiresInItsSlot
<1> QED  BY <1>8, <1>9, <1>10, <1>11, <1>13, <1>14, <1>15 DEF WheelInv

LEMMA NextSlotKeeps == ASSUME WheelInv, NextSlot PROVE WheelInv'
<1>0. /\ Values /\ Listed /\ Clock /\ Mapped /\ OnSchedule /\ Due /\ Fired
      /\ UNCHANGED <<now, wheel, map, tickNow, made, cancelled, fired>>
      /\ pc = "visit" /\ pos > Len(List) /\ slot' = SlotAhead(1) /\ steps' = steps + 1
      /\ left' = left - 1 /\ pos' = 1
      /\ (left = 1 /\ pc' = "idle" /\ lastTick' = tickNow) \/ (left # 1 /\ pc' = pc /\ lastTick' = lastTick)
  BY DEF WheelInv, NextSlot
<1>1. /\ slot \in Slots /\ wheel \in [Slots -> Seq(NodeType)] /\ slot' \in Slots /\ steps \in Nat
      /\ left \in Nat /\ left >= 1 /\ lastTick <= tickNow /\ tickNow <= now
      /\ lastTick \in Nat /\ tickNow \in Nat /\ now \in Nat
  BY <1>0, NextOf DEF Values, Listed, Clock
<1>2. Values'
  BY <1>0, <1>1 DEF Values
<1>3. Listed' /\ Mapped'
  BY <1>0 DEF Listed, Mapped
<1>4. Clock'
  <2>1. CASE left = 1
    BY <1>0, <1>1, <2>1 DEF Clock
  <2>2. CASE left # 1
    <3>1. left <= (tickNow - lastTick) \div TickMs /\ (tickNow - lastTick) \div TickMs \in Nat
      BY <1>0, <1>1, Times DEF Clock
    <3>2. left - 1 >= 1 /\ left - 1 <= (tickNow - lastTick) \div TickMs
      BY <1>1, <2>2, <3>1
    <3> QED  BY <1>0, <1>1, <2>2, <3>2 DEF Clock
  <2> QED  BY <2>1, <2>2
<1>5. ASSUME NEW s \in Slots, NEW i \in DOMAIN wheel[s]
      PROVE  SlotsToGo(s, i)' = SlotsToGo(s, i) - 1
  <2> DEFINE rounds == wheel[s][i].rounds
             d == (s + WheelSize - slot) % WheelSize
  <2>0. rounds \in Nat /\ i \in Nat /\ 1 <= i /\ WheelSize \in Nat \ {0} /\ d \in Nat
    <3>1. wheel[s][i] \in NodeType /\ i \in Nat /\ 1 <= i
      BY <1>1
    <3>2. d \in Nat
      BY <1>1, Distance
    <3> QED  BY <3>1, <3>2, WheelAssumption DEF NodeType
  <2>1. SlotsToGo(s, i)' = ((s + WheelSize - SlotAhead(1)) % WheelSize) + WheelSize * rounds
    <3>1. ~(i < 1)
      BY <2>0
    <3> QED  BY <1>0, <3>1 DEF SlotsToGo
  <2>2. (s + WheelSize - SlotAhead(1)) % WheelSize = IF s = slot THEN WheelSize - 1 ELSE d - 1
    BY <1>1, Nearer
  <2>3. CASE s = slot
    <3>1. i < pos
      BY <1>0, <2>0, <2>3 DEF List, Values
    <3>2. SlotsToGo(s, i) = d + WheelSize * (rounds + 1)
      BY <1>0, <2>3, <3>1 DEF SlotsToGo
    <3>3. d = 0
      BY <1>1, <2>3, Distance, WheelAssumption DEF Slots
    <3> HIDE DEF rounds, d
    <3>4. WheelSize * (rounds + 1) = WheelSize * rounds + WheelSize /\ WheelSize * rounds \in Nat
      BY <2>0
    <3> QED  BY <2>0, <2>1, <2>2, <2>3, <3>2, <3>3, <3>4
  <2>4. CASE s # slot
    <3>1. SlotsToGo(s, i) = d + WheelSize * rounds
      BY <2>4 DEF SlotsToGo
    <3> HIDE DEF rounds, d
    <3>2. WheelSize * rounds \in Nat
      BY <2>0
    <3> QED  BY <2>0, <2>1, <2>2, <2>4, <3>1, <3>2
  <2> QED  BY <2>3, <2>4
<1>6. OnSchedule'
  <2> SUFFICES ASSUME NEW s \in Slots, NEW i \in DOMAIN wheel'[s], ~wheel'[s][i].isDeleted
               PROVE  SlotsToGo(s, i)' = made'[wheel'[s][i].n].total - (steps' - made'[wheel'[s][i].n].at)
    BY DEF OnSchedule
  <2> DEFINE m == made[wheel[s][i].n]
  <2>0. i \in DOMAIN wheel[s] /\ ~wheel[s][i].isDeleted
    BY <1>0
  <2>1. SlotsToGo(s, i) = m.total - (steps - m.at)
    BY <1>0, <2>0 DEF OnSchedule
  <2>2. wheel[s][i].n \in 1 .. Len(made)
    <3>1. wheel[s][i] \in NodeType /\ wheel[s][i].n <= Len(made)
      BY <1>0, <2>0 DEF Listed
    <3> QED  BY <1>0, <3>1 DEF NodeType, Serials, Values
  <2>3. m.total \in Nat /\ m.at \in Nat
    BY <1>0, <2>2, MadeWith
  <2> HIDE DEF m
  <2>4. m.total - ((steps + 1) - m.at) = m.total - (steps - m.at) - 1
    <3>1. \A a, b, c \in Int : a - ((b + 1) - c) = a - (b - c) - 1
      OBVIOUS
    <3>2. m.total \in Int /\ steps \in Int /\ m.at \in Int
      BY <1>1, <2>3
    <3> QED  BY <3>1, <3>2
  <2>5. SlotsToGo(s, i)' = SlotsToGo(s, i) - 1
    BY <1>5, <2>0
  <2>6. wheel' = wheel /\ made' = made /\ steps' = steps + 1
    BY <1>0
  <2>7. SlotsToGo(s, i)' = m.total - ((steps + 1) - m.at)
    BY <2>1, <2>4, <2>5
  <2>8. SlotsToGo(s, i)' = made[wheel[s][i].n].total - ((steps + 1) - made[wheel[s][i].n].at)
    BY <2>7 DEF m
  <2> QED  BY <2>6, <2>8
<1>7. Base' \in Int /\ Base \in Int /\ Base' >= Base + TickMs
  <2>1. Base' \in Int /\ Base \in Int
    <3>1. ASSUME Values' PROVE Base' \in Int
      <4>1. /\ TickMs \in Nat \ {0} /\ lastTick' \in Int /\ tickNow' \in Int /\ left' \in Int
        BY <3>1, WheelAssumption DEF Values
      <4>2. (tickNow' - lastTick') \div TickMs \in Int
        BY <4>1
      <4> QED  BY <4>1, <4>2 DEF Base
    <3> QED  BY <1>0, <1>2, <3>1, BaseType
  <2>2. Base + TickMs <= tickNow
    BY <1>0, BaseBehind
  <2>3. CASE left = 1
    <3>1. Base' = tickNow + 0 * TickMs
      BY <1>0, <2>3 DEF Base
    <3>2. Base' = tickNow
      BY <1>1, <3>1, Times
    <3> QED  BY <1>1, <2>1, <2>2, <3>2, Times
  <2>4. CASE left # 1
    <3>1. Base' = lastTick + ((tickNow - lastTick) \div TickMs - (left - 1)) * TickMs
      BY <1>0, <2>4 DEF Base
    <3>2. Base' = Base + TickMs
      BY <1>0, <2>4, <3>1, BaseBehind
    <3> QED  BY <2>1, <3>2, Times
  <2> QED  BY <2>3, <2>4
<1>8. Due'
  <2> SUFFICES ASSUME NEW n \in DOMAIN made'
               PROVE  /\ made'[n].at <= steps'
                      /\ made'[n].due <= Base' + (made'[n].total + 1 - (steps' - made'[n].at)) * TickMs
    BY DEF Due
  <2>0. n \in DOMAIN made /\ made' = made /\ steps' = steps + 1
    BY <1>0
  <2> DEFINE m == made[n]
             a == m.total + 1 - (steps - m.at)
  <2>1. m.total \in Nat /\ m.due \in Int /\ m.at \in Nat
    <3>1. n \in 1 .. Len(made)
      BY <1>0, <2>0 DEF Values
    <3> QED  BY <1>0, <3>1, MadeWith
  <2>2. m.at <= steps /\ m.due <= Base + a * TickMs
    BY <1>0, <2>0 DEF Due
  <2> HIDE DEF m
  <2>3. a \in Int /\ m.total + 1 - ((steps + 1) - m.at) = a - 1
    BY <1>1, <2>1
  <2> HIDE DEF a
  <2>4. (a - 1) * TickMs = a * TickMs - TickMs /\ a * TickMs \in Int /\ TickMs \in Int
    BY <2>3, Times
  <2>5. m.due <= Base' + (a - 1) * TickMs
    BY <1>7, <2>1, <2>2, <2>4
  <2> QED  BY <1>1, <2>0, <2>1, <2>2, <2>3, <2>5 DEF m
<1>9. Fired' /\ FiresInItsSlot'
  BY <1>0 DEF Fired, FiresInItsSlot
<1> QED  BY <1>2, <1>3, <1>4, <1>6, <1>8, <1>9 DEF WheelInv

-----------------------------------------------------------------------------

LEMMA WheelStep == WheelInv /\ [Next]_vars => WheelInv'
<1> SUFFICES ASSUME WheelInv, [Next]_vars PROVE WheelInv'
  OBVIOUS
<1>1. CASE Advance
  BY <1>1, AdvanceKeeps
<1>2. ASSUME NEW id \in Ids, RemoveTimer(id) PROVE WheelInv'
  BY <1>2, RemoveKeeps
<1>3. ASSUME NEW id \in Ids, NEW delay \in Delays, AddTimer(id, delay) PROVE WheelInv'
  BY <1>3, AddKeeps
<1>4. CASE Tick
  BY <1>4, BeginKeeps, DeletedKeeps, ExpiredKeeps, ReturnKeeps, LaterKeeps, NextSlotKeeps DEF Tick
<1>5. CASE UNCHANGED vars
  <2>1. UNCHANGED <<now, wheel, map, slot, lastTick, pc, pos, left, tickNow, made, steps, cancelled, fired>>
    BY <1>5 DEF vars, tickVars, history
  <2>2. Values' /\ Listed' /\ Clock' /\ Mapped'
    BY <2>1 DEF WheelInv, Values, Listed, List, Clock, Mapped
  <2>3. OnSchedule' /\ Due' /\ Fired' /\ FiresInItsSlot'
    BY <2>1 DEF WheelInv, OnSchedule, SlotsToGo, Due, Base, Fired, FiresInItsSlot, Node, List
  <2> QED  BY <2>2, <2>3 DEF WheelInv
<1> QED  BY <1>1, <1>2, <1>3, <1>4, <1>5 DEF Next

\* The lists, the map and the clock of timer.cc stay in step through every call
\* and every node that Tick visits, with callbacks that add and remove timers.
THEOREM WheelInvariant == Spec => []WheelInv
<1>1. Init => WheelInv
  BY WheelInit
<1>2. WheelInv /\ [Next]_vars => WheelInv'
  BY WheelStep
<1> QED  BY <1>1, <1>2, PTL DEF Spec

LEMMA ConsistentInside == WheelInv => WheelConsistent
<1> SUFFICES ASSUME WheelInv PROVE WheelConsistent
  OBVIOUS
<1>1. Values /\ Listed /\ Mapped
  BY DEF WheelInv
<1>2. \A nd \in Nodes : nd \in NodeType
  BY <1>1, NodesAre DEF Listed
<1>3. TypeOK
  BY <1>1, <1>2 DEF TypeOK, Values, NodeType
<1>4. MapEntryIsNode
  <2> SUFFICES ASSUME NEW id \in Ids, map[id] # 0
               PROVE  \E nd \in Nodes : nd.n = map[id] /\ nd.id = id /\ ~nd.isDeleted
    BY DEF MapEntryIsNode
  <2>1. PICK s \in Slots : \E i \in DOMAIN wheel[s] :
           wheel[s][i].n = map[id] /\ wheel[s][i].id = id /\ ~wheel[s][i].isDeleted
    BY <1>1 DEF Mapped
  <2>2. PICK i \in DOMAIN wheel[s] :
           wheel[s][i].n = map[id] /\ wheel[s][i].id = id /\ ~wheel[s][i].isDeleted
    BY <2>1
  <2>3. wheel[s][i] \in Nodes
    BY NodesAre
  <2> QED  BY <2>2, <2>3
<1> QED  BY <1>3, <1>4 DEF WheelConsistent

LEMMA FiresOnceInside == WheelInv => FiresOnce
<1> SUFFICES ASSUME WheelInv PROVE FiresOnce
  OBVIOUS
<1>1. Fired
  BY DEF WheelInv
<1>2. ASSUME NEW nd \in Nodes, NEW k \in DOMAIN fired, fired[k] = nd.n
      PROVE  pc = "callback" /\ nd = Node
  <2>1. PICK s \in Slots : \E i \in DOMAIN wheel[s] : nd = wheel[s][i]
    BY NodesAre
  <2>2. PICK i \in DOMAIN wheel[s] : nd = wheel[s][i]
    BY <2>1
  <2>3. pc = "callback" /\ s = slot /\ i = pos
    BY <1>1, <1>2, <2>2 DEF Fired
  <2> QED  BY <2>2, <2>3 DEF Node, List
<1> QED  BY <1>1, <1>2 DEF FiresOnce, Fired

\* RemoveTimer and the erasing of Tick use the map's iterators: each is valid.
THEOREM MapLeadsToNodes == Spec => []WheelConsistent
BY WheelInvariant, ConsistentInside, PTL

\* No turn of the wheel is skipped or counted twice, on the way to a timer's slot
\* and when it fires.
THEOREM NoTurnMiscounted == Spec => []SlotsCounted
<1>1. WheelInv => SlotsCounted
  BY DEF WheelInv, SlotsCounted
<1> QED  BY <1>1, WheelInvariant, PTL

\* it->cb() is called at most once for a timer, and the node goes right after it.
THEOREM CalledOnce == Spec => []FiresOnce
BY WheelInvariant, FiresOnceInside, PTL
=============================================================================
