------------------------- MODULE ConnectionsProofs -------------------------
(***************************************************************************)
(* Proofs about Connections, for any number of connections, descriptors    *)
(* and workers: a descriptor has one owner, the table and epoll name it,   *)
(* and no event is dispatched to a connection that was destroyed.          *)
(*                                                                         *)
(* DescriptorsConsistent is not inductive: that the lowest free number can *)
(* be given to the next connection rests on a number with an entry in the  *)
(* table being owned, that a sweep takes no connection out of a batch of   *)
(* events rests on every connection that is up being in the table, and     *)
(* that an event of the batch cannot be overtaken by the end of its own    *)
(* connection rests on a channel being in the batch once.  NetFacts and    *)
(* BatchFacts add them.                                                    *)
(***************************************************************************)
EXTENDS Connections, WellFoundedInduction, TLAPS

\* Of the descriptors, the channels and the table: owners and numbers match both
\* ways, a connection that is up is in the table, and epoll points only at
\* connections that are up, or at the listener through its own descriptor.
Owned(n) ==
    /\ \A c \in Conns : n.state[c] \in {"up", "down"} => n.fd[c] \in Fds /\ n.owner[n.fd[c]] = c
    /\ \A f \in Fds : n.owner[f] # Nobody => n.state[n.owner[f]] \in {"up", "down"} /\ n.fd[n.owner[f]] = f
Tabled(n) ==
    /\ \A f \in Fds : n.table[f] # Nobody => n.owner[f] = n.table[f]
    /\ \A c \in Conns : n.state[c] = "up" => n.table[n.fd[c]] = c
Pointing(n) ==
    /\ \A f \in Fds : n.epoll[f].ptr # Nobody =>
          n.epoll[f].ptr \in Conns /\ n.state[n.epoll[f].ptr] = "up" /\ n.fd[n.epoll[f].ptr] = f
    /\ n.epoll[Listener].ptr \in {Nobody, Listener}
    /\ n.fd[Listener] = Listener

NetFacts(n) == n \in Network /\ Owned(n) /\ Tabled(n) /\ Pointing(n)

\* Of the events of a batch: each channel once, and the connections are up.
BatchFacts ==
    /\ \A e \in batch : e.ptr \in Conns => net.state[e.ptr] = "up"
    /\ \A e, g \in batch : e.ptr = g.ptr => e = g
    /\ batch # {} => loop \in {"batch", "out"}
    /\ loop = "out" => current \in Conns
    /\ \A d \in dangling : d.at = "event" => d.channel = Listener

ConnectionsInv == TypeOK /\ NetFacts(net) /\ BatchFacts

-----------------------------------------------------------------------------
(* What the operators on the network do.                                   *)

\* Number by number, who epoll points at.
Points(n, m, h, p) ==
    \A f \in Fds \cup {Listener} : m.epoll[f].ptr = (IF f = n.fd[h] THEN p ELSE n.epoll[f].ptr)

SameOwners(n, m) == m.state = n.state /\ m.fd = n.fd /\ m.owner = n.owner /\ m.table = n.table

LEMMA ModFdEffect ==
    ASSUME NEW n \in Network, NEW h \in Channels, n.fd[h] \in Fds \cup {Listener}
    PROVE  LET m == ModFd(n, h)
           IN  m \in Network /\ SameOwners(n, m) /\ Points(n, m, h, h)
BY DEF ModFd, Network, SameOwners, Points

LEMMA DelFdEffect ==
    ASSUME NEW n \in Network, NEW h \in Channels, n.fd[h] \in Fds \cup {Listener}
    PROVE  LET m == DelFd(n, h)
           IN  m \in Network /\ SameOwners(n, m) /\ Points(n, m, h, Nobody)
BY DEF DelFd, Network, SameOwners, Points, Unwatched

LEMMA EnableEffect ==
    ASSUME NEW n \in Network, NEW h \in Channels, n.fd[h] \in Fds \cup {Listener},
           NEW ev \in SUBSET {"in", "out"}
    PROVE  LET m == Enable(n, h, ev)
           IN  m \in Network /\ SameOwners(n, m) /\ Points(n, m, h, h)
<1> DEFINE p == [n EXCEPT !.events[h] = @ \cup ev]
<1>1. p \in Network /\ SameOwners(n, p) /\ p.epoll = n.epoll
  BY DEF Network, SameOwners
<1> HIDE DEF p
<1>2. p.fd[h] \in Fds \cup {Listener}
  BY <1>1 DEF SameOwners
<1> DEFINE m == ModFd(p, h)
<1>3. m \in Network /\ SameOwners(p, m) /\ Points(p, m, h, h)
  BY <1>1, <1>2, ModFdEffect
<1> HIDE DEF m
<1>4. SameOwners(n, m) /\ Points(n, m, h, h)
  BY <1>1, <1>3 DEF SameOwners, Points
<1>5. Enable(n, h, ev) = m
  BY DEF Enable, m, p
<1> QED  BY <1>3, <1>4, <1>5

LEMMA DisableEffect ==
    ASSUME NEW n \in Network, NEW h \in Channels, n.fd[h] \in Fds \cup {Listener},
           NEW ev \in SUBSET {"in", "out"}
    PROVE  LET m == Disable(n, h, ev)
           IN  m \in Network /\ SameOwners(n, m) /\ Points(n, m, h, h)
<1> DEFINE p == [n EXCEPT !.events[h] = @ \ ev]
<1>1. p \in Network /\ SameOwners(n, p) /\ p.epoll = n.epoll
  BY DEF Network, SameOwners
<1> HIDE DEF p
<1>2. p.fd[h] \in Fds \cup {Listener}
  BY <1>1 DEF SameOwners
<1> DEFINE m == ModFd(p, h)
<1>3. m \in Network /\ SameOwners(p, m) /\ Points(p, m, h, h)
  BY <1>1, <1>2, ModFdEffect
<1> HIDE DEF m
<1>4. SameOwners(n, m) /\ Points(n, m, h, h)
  BY <1>1, <1>3 DEF SameOwners, Points
<1>5. Disable(n, h, ev) = m
  BY DEF Disable, m, p
<1> QED  BY <1>3, <1>4, <1>5

\* Detached leaves owners and table alone, and takes the descriptor out of epoll.
LEMMA DetachedEffect ==
    ASSUME NEW n \in Network, NEW c \in Conns, n.fd[c] \in Fds
    PROVE  LET m == Detached(n, c)
           IN  m \in Network /\ SameOwners(n, m) /\ Points(n, m, c, Nobody)
<1> DEFINE p == Disable(n, c, {"in", "out"})
<1>0. c \in Channels /\ {"in", "out"} \in SUBSET {"in", "out"}
  BY DEF Channels
<1>1. p \in Network /\ SameOwners(n, p) /\ Points(n, p, c, c)
  BY <1>0, DisableEffect
<1> HIDE DEF p
<1>2. p.fd[c] \in Fds \cup {Listener}
  BY <1>1 DEF SameOwners
<1> DEFINE m == DelFd(p, c)
<1>3. m \in Network /\ SameOwners(p, m) /\ Points(p, m, c, Nobody)
  BY <1>0, <1>1, <1>2, DelFdEffect
<1> HIDE DEF m
<1>4. SameOwners(n, m) /\ Points(n, m, c, Nobody)
  BY <1>1, <1>3 DEF SameOwners, Points
<1>5. Detached(n, c) = m
  BY DEF Detached, m, p
<1> QED  BY <1>3, <1>4, <1>5


-----------------------------------------------------------------------------
(* Every operator on the network keeps its facts.                          *)

\* A channel that is up, or the listener, is registered again.
LEMMA RegisteredKeeps ==
    ASSUME NEW n, NetFacts(n), NEW h \in Channels, h # Listener => n.state[h] = "up",
           NEW m \in Network, SameOwners(n, m), Points(n, m, h, h)
    PROVE  NetFacts(m)
<1>0. n \in Network /\ Owned(n) /\ Tabled(n) /\ Pointing(n)
  BY DEF NetFacts
<1>1. Owned(m)
  BY <1>0 DEF Owned, SameOwners
<1>2. Tabled(m)
  BY <1>0 DEF Tabled, SameOwners
<1>3. Pointing(m)
  <2>1. h # Listener => h \in Conns
    BY DEF Channels
  <2>2. m.fd[Listener] = Listener
    BY <1>0 DEF Pointing, SameOwners
  <2>3. m.epoll[Listener].ptr \in {Nobody, Listener}
    <3>1. CASE h = Listener
      BY <1>0, <3>1 DEF Pointing, Points
    <3>2. CASE h # Listener
      <4>1. n.fd[h] # Listener
        BY <1>0, <2>1, <3>2, ConnectionsAssumption DEF Owned
      <4> QED  BY <1>0, <4>1 DEF Pointing, Points
    <3> QED  BY <3>1, <3>2
  <2>4. ASSUME NEW f \in Fds, m.epoll[f].ptr # Nobody
        PROVE  m.epoll[f].ptr \in Conns /\ m.state[m.epoll[f].ptr] = "up" /\ m.fd[m.epoll[f].ptr] = f
    <3>1. CASE f = n.fd[h]
      <4>1. h # Listener
        BY <1>0, <3>1, ConnectionsAssumption DEF Pointing
      <4>2. m.epoll[f].ptr = h
        BY <3>1 DEF Points
      <4> QED  BY <2>1, <3>1, <4>1, <4>2 DEF SameOwners
    <3>2. CASE f # n.fd[h]
      <4>1. m.epoll[f].ptr = n.epoll[f].ptr
        BY <3>2 DEF Points
      <4> QED  BY <1>0, <2>4, <4>1 DEF Pointing, SameOwners
    <3> QED  BY <3>1, <3>2
  <2> QED  BY <2>2, <2>3, <2>4 DEF Pointing
<1> QED  BY <1>1, <1>2, <1>3 DEF NetFacts

LEMMA EnableKeeps ==
    ASSUME NEW n, NetFacts(n), NEW h \in Channels, h # Listener => n.state[h] = "up",
           NEW ev \in SUBSET {"in", "out"}
    PROVE  NetFacts(Enable(n, h, ev)) /\ Enable(n, h, ev).state = n.state
<1>1. n \in Network /\ n.fd[h] \in Fds \cup {Listener}
  BY DEF NetFacts, Owned, Pointing, Channels
<1> DEFINE m == Enable(n, h, ev)
<1>2. m \in Network /\ SameOwners(n, m) /\ Points(n, m, h, h)
  BY <1>1, EnableEffect
<1> HIDE DEF m
<1>3. NetFacts(m) /\ m.state = n.state
  BY <1>2, RegisteredKeeps DEF SameOwners
<1> QED  BY <1>3 DEF m

LEMMA DisableKeeps ==
    ASSUME NEW n, NetFacts(n), NEW h \in Channels, h # Listener => n.state[h] = "up",
           NEW ev \in SUBSET {"in", "out"}
    PROVE  NetFacts(Disable(n, h, ev)) /\ Disable(n, h, ev).state = n.state
<1>1. n \in Network /\ n.fd[h] \in Fds \cup {Listener}
  BY DEF NetFacts, Owned, Pointing, Channels
<1> DEFINE m == Disable(n, h, ev)
<1>2. m \in Network /\ SameOwners(n, m) /\ Points(n, m, h, h)
  BY <1>1, DisableEffect
<1> HIDE DEF m
<1>3. NetFacts(m) /\ m.state = n.state
  BY <1>2, RegisteredKeeps DEF SameOwners
<1> QED  BY <1>3 DEF m

LEMMA SentInPartKeeps ==
    ASSUME NEW n, NetFacts(n), NEW c \in Conns
    PROVE  NetFacts(SentInPart(n, c)) /\ SentInPart(n, c).state = n.state
<1>1. c \in Channels /\ {"out"} \in SUBSET {"in", "out"}
  BY DEF Channels
<1> QED  BY <1>1, EnableKeeps DEF SentInPart

\* The lowest free number is free.
LEMMA LowestIsFree ==
    ASSUME NEW S \in SUBSET Nat, S # {}
    PROVE  Min(S) \in S
<1> DEFINE R == OpToRel(<, Nat)
<1>1. IsWellFoundedOn(R, Nat)
  BY NatLessThanWellFounded
<1>2. \A x, y \in Nat : <<x, y>> \in R <=> x < y
  BY DEF OpToRel
<1> HIDE DEF R
<1>3. PICK x \in S : \A y \in S : ~(<<y, x>> \in R)
  BY <1>1, WFMin
<1>4. ASSUME NEW y \in S PROVE x <= y
  <2>1. x \in Nat /\ y \in Nat
    OBVIOUS
  <2>2. ~(y < x)
    BY <1>2, <1>3, <2>1, Zenon
  <2> QED  BY <2>1, <2>2
<1> QED  BY <1>4 DEF Min

\* A connection gets a number that nobody owns.
LEMMA AcceptedKeeps ==
    ASSUME NEW n, NetFacts(n), NEW c \in Conns, n.state[c] = "unborn",
           NEW f \in Fds, n.owner[f] = Nobody
    PROVE  /\ NetFacts(Accepted(n, c, f))
           /\ \A d \in Conns \ {c} : Accepted(n, c, f).state[d] = n.state[d]
<1>0. n \in Network /\ Owned(n) /\ Tabled(n) /\ Pointing(n)
  BY DEF NetFacts
<1> DEFINE p == [n EXCEPT !.state[c] = "up", !.fd[c] = f, !.owner[f] = c]
<1>1. /\ c \in Channels /\ {"in"} \in SUBSET {"in", "out"} /\ c # Listener /\ c # Nobody
      /\ f # Listener
  BY ConnectionsAssumption DEF Channels
<1>2. /\ p \in Network
      /\ p.state = [n.state EXCEPT ![c] = "up"] /\ p.fd = [n.fd EXCEPT ![c] = f]
      /\ p.owner = [n.owner EXCEPT ![f] = c]
      /\ p.table = n.table /\ p.epoll = n.epoll
  BY <1>0, <1>1 DEF Network
<1> HIDE DEF p
<1>3. p.fd[c] = f
  BY <1>0, <1>1, <1>2 DEF Network
<1> DEFINE q == Enable(p, c, {"in"})
<1>4. q \in Network /\ SameOwners(p, q) /\ Points(p, q, c, c)
  BY <1>1, <1>2, <1>3, EnableEffect
<1> HIDE DEF q
<1> DEFINE m == [q EXCEPT !.table[f] = c]
<1>5. /\ m \in Network /\ m.state = q.state /\ m.fd = q.fd /\ m.owner = q.owner /\ m.epoll = q.epoll
      /\ m.table = [q.table EXCEPT ![f] = c]
  BY <1>4 DEF Network
<1> HIDE DEF m
<1>6. /\ \A d \in Conns : m.state[d] = IF d = c THEN "up" ELSE n.state[d]
      /\ \A h \in Channels : m.fd[h] = IF h = c THEN f ELSE n.fd[h]
      /\ \A g \in Fds : m.owner[g] = IF g = f THEN c ELSE n.owner[g]
      /\ \A g \in Fds : m.table[g] = IF g = f THEN c ELSE n.table[g]
      /\ \A g \in Fds \cup {Listener} : m.epoll[g].ptr = IF g = f THEN c ELSE n.epoll[g].ptr
  BY <1>0, <1>1, <1>2, <1>3, <1>4, <1>5 DEF Network, SameOwners, Points, Channels
<1>7. \A d \in Conns : d \in Channels /\ d # Listener /\ d # Nobody
  BY ConnectionsAssumption DEF Channels
<1>8. \A g \in Fds : /\ n.owner[g] \in Conns \cup {Nobody} /\ n.table[g] \in Conns \cup {Nobody}
                     /\ n.epoll[g].ptr \in Channels \cup {Nobody}
  BY <1>0 DEF Network
<1>9. \A d \in Conns : n.state[d] \in {"up", "down"} => d # c /\ n.fd[d] # f
  BY <1>0, <1>7 DEF Owned
<1>10. Owned(m)
  BY <1>0, <1>6, <1>7, <1>8, <1>9 DEF Owned
<1>11. Tabled(m)
  BY <1>0, <1>6, <1>7, <1>8, <1>9 DEF Tabled, Owned
<1>12. Pointing(m)
  <2>1. m.epoll[Listener].ptr \in {Nobody, Listener} /\ m.fd[Listener] = Listener
    BY <1>0, <1>1, <1>6 DEF Pointing, Channels
  <2>2. ASSUME NEW g \in Fds, m.epoll[g].ptr # Nobody
        PROVE  m.epoll[g].ptr \in Conns /\ m.state[m.epoll[g].ptr] = "up" /\ m.fd[m.epoll[g].ptr] = g
    BY <1>0, <1>6, <1>7, <1>9, <2>2 DEF Pointing
  <2> QED  BY <2>1, <2>2 DEF Pointing
<1>13. Accepted(n, c, f) = m
  BY DEF Accepted, m, q, p
<1> QED  BY <1>5, <1>6, <1>10, <1>11, <1>12, <1>13 DEF NetFacts


\* The end of a connection that is up: no other changes its state.
LEMMA HandleCloseKeeps ==
    ASSUME NEW n, NetFacts(n), NEW c \in Conns, n.state[c] = "up"
    PROVE  /\ NetFacts(HandleClose(n, c))
           /\ \A d \in Conns \ {c} : HandleClose(n, c).state[d] = n.state[d]
<1>0. n \in Network /\ Owned(n) /\ Tabled(n) /\ Pointing(n)
  BY DEF NetFacts
<1> DEFINE f == n.fd[c]
<1>1. c \in Channels /\ c # Listener /\ f \in Fds /\ f # Listener /\ n.owner[f] = c
  BY <1>0, ConnectionsAssumption DEF Channels, Owned
<1> DEFINE p == [n EXCEPT !.state[c] = "down"]
<1>2. /\ p \in Network /\ p.state = [n.state EXCEPT ![c] = "down"] /\ p.fd = n.fd
      /\ p.owner = n.owner /\ p.table = n.table /\ p.epoll = n.epoll
  BY <1>0, <1>1 DEF Network
<1> HIDE DEF p
<1> DEFINE q == Detached(p, c)
<1>3. q \in Network /\ SameOwners(p, q) /\ Points(p, q, c, Nobody)
  BY <1>1, <1>2, DetachedEffect
<1> HIDE DEF q
<1> DEFINE m == RemoveConnection(q, c)
<1>4. /\ m \in Network /\ m.state = q.state /\ m.fd = q.fd /\ m.owner = q.owner /\ m.epoll = q.epoll
      /\ m.table \in {q.table, [q.table EXCEPT ![q.fd[c]] = Nobody]}
  BY <1>3 DEF RemoveConnection, Network
<1> HIDE DEF m
<1>5. /\ \A d \in Conns : m.state[d] = IF d = c THEN "down" ELSE n.state[d]
      /\ m.fd = n.fd /\ m.owner = n.owner
      /\ \A g \in Fds : m.table[g] = n.table[g] \/ (g = f /\ m.table[g] = Nobody)
      /\ \A g \in Fds \cup {Listener} : m.epoll[g].ptr = IF g = f THEN Nobody ELSE n.epoll[g].ptr
  BY <1>0, <1>1, <1>2, <1>3, <1>4 DEF Network, SameOwners, Points, Channels
<1>6. \A d \in Conns : d \in Channels /\ d # Listener /\ d # Nobody
  BY ConnectionsAssumption DEF Channels
<1>7. \A g \in Fds : n.owner[g] \in Conns \cup {Nobody}
  BY <1>0 DEF Network
<1>8. \A d \in Conns : d # c /\ n.state[d] = "up" => n.fd[d] # f
  BY <1>0, <1>1 DEF Owned
<1> HIDE DEF f
<1>9. Owned(m)
  BY <1>0, <1>5, <1>6, <1>7 DEF Owned
<1>10. Tabled(m)
  <2>1. \A g \in Fds : m.table[g] # Nobody => m.owner[g] = m.table[g]
    BY <1>0, <1>5 DEF Tabled
  <2>2. ASSUME NEW d \in Conns, m.state[d] = "up" PROVE m.table[m.fd[d]] = d
    <3>1. d # c /\ n.state[d] = "up" /\ n.fd[d] # f /\ n.fd[d] \in Fds
      BY <1>0, <1>5, <1>8, <2>2 DEF Owned
    <3> QED  BY <1>0, <1>5, <3>1 DEF Tabled
  <2> QED  BY <2>1, <2>2 DEF Tabled
<1>11. Pointing(m)
  <2>1. m.epoll[Listener].ptr \in {Nobody, Listener} /\ m.fd[Listener] = Listener
    BY <1>0, <1>1, <1>5 DEF Pointing
  <2>2. ASSUME NEW g \in Fds, m.epoll[g].ptr # Nobody
        PROVE  m.epoll[g].ptr \in Conns /\ m.state[m.epoll[g].ptr] = "up" /\ m.fd[m.epoll[g].ptr] = g
    <3>1. g # f /\ m.epoll[g].ptr = n.epoll[g].ptr
      BY <1>5, <2>2
    <3>2. n.epoll[g].ptr # c
      BY <1>0, <2>2, <3>1 DEF Pointing, f
    <3> QED  BY <1>0, <1>5, <2>2, <3>1, <3>2 DEF Pointing
  <2> QED  BY <2>1, <2>2 DEF Pointing
<1>12. HandleClose(n, c) = m
  BY DEF HandleClose, m, q, p
<1> QED  BY <1>4, <1>5, <1>9, <1>10, <1>11, <1>12 DEF NetFacts

\* What is swept is in no table, so no connection that is up is swept.
LEMMA SweptKeeps ==
    ASSUME NEW n, NetFacts(n), NEW kept
    PROVE  /\ NetFacts(Swept(n, kept))
           /\ \A c \in Conns : n.state[c] = "up" => Swept(n, kept).state[c] = "up"
<1>0. n \in Network /\ Owned(n) /\ Tabled(n) /\ Pointing(n)
  BY DEF NetFacts
<1> DEFINE lost == Unreferenced(n, kept)
           m == Swept(n, kept)
<1>1. /\ lost \subseteq Conns
      /\ \A c \in lost : n.state[c] \in {"up", "down"} /\ \A f \in Fds : n.table[f] # c
  BY DEF Unreferenced
<1>2. \A c \in Conns : n.state[c] = "up" => c \notin lost
  BY <1>0, <1>1 DEF Tabled, Owned
<1>3. Listener \notin lost /\ Nobody \notin lost /\ Listener \notin Fds
  BY <1>1, ConnectionsAssumption
<1> DEFINE st == [h \in Channels |-> IF h \in lost THEN "gone" ELSE n.state[h]]
           ow == [f \in Fds |-> IF n.owner[f] \notin lost THEN n.owner[f] ELSE Nobody]
           ep == [f \in DOMAIN n.epoll |-> IF f = Listener \/ n.owner[f] \notin lost THEN n.epoll[f] ELSE Unwatched]
<1>4. m = [n EXCEPT !.state = st, !.owner = ow, !.epoll = ep]
  BY DEF Swept
<1>5. DOMAIN n.epoll = Fds \cup {Listener}
  BY <1>0 DEF Network
<1> HIDE DEF lost, m, st, ow, ep
<1>6. /\ m.state = st /\ m.owner = ow /\ m.epoll = ep
      /\ m.fd = n.fd /\ m.table = n.table /\ m.events = n.events /\ m.refusing = n.refusing
      /\ m = [state |-> m.state, events |-> m.events, fd |-> m.fd, owner |-> m.owner, table |-> m.table,
              epoll |-> m.epoll, refusing |-> m.refusing]
  BY <1>0, <1>4 DEF Network
<1>7. /\ m.state = [h \in Channels |-> IF h \in lost THEN "gone" ELSE n.state[h]]
      /\ m.owner = [f \in Fds |-> IF n.owner[f] \notin lost THEN n.owner[f] ELSE Nobody]
      /\ m.epoll = [f \in Fds \cup {Listener} |->
                      IF f = Listener \/ n.owner[f] \notin lost THEN n.epoll[f] ELSE Unwatched]
  BY <1>5, <1>6 DEF st, ow, ep
<1>8. m \in Network
  <2>1. m.state \in [Channels -> {"unborn", "up", "down", "gone"}]
    BY <1>0, <1>7 DEF Network
  <2>2. m.owner \in [Fds -> Conns \cup {Nobody}]
    BY <1>0, <1>7 DEF Network
  <2>3. m.epoll \in [Fds \cup {Listener} -> [ptr : Channels \cup {Nobody}, interest : SUBSET {"in", "out"}]]
    BY <1>0, <1>7 DEF Network, Unwatched
  <2> QED  BY <1>0, <1>6, <2>1, <2>2, <2>3 DEF Network
<1>9. /\ \A c \in Conns : c \in Channels /\ c # Nobody /\ m.state[c] = IF c \in lost THEN "gone" ELSE n.state[c]
      /\ \A f \in Fds : m.owner[f] = IF n.owner[f] \in lost THEN Nobody ELSE n.owner[f]
      /\ \A f \in Fds : m.epoll[f].ptr = IF n.owner[f] \in lost THEN Nobody ELSE n.epoll[f].ptr
      /\ m.epoll[Listener] = n.epoll[Listener]
  BY <1>3, <1>7, ConnectionsAssumption DEF Channels, Unwatched
<1>10. \A f \in Fds : n.owner[f] \in Conns \cup {Nobody}
  BY <1>0 DEF Network
<1>11. Owned(m)
  BY <1>0, <1>6, <1>9, <1>10 DEF Owned
<1>12. Tabled(m)
  BY <1>0, <1>1, <1>2, <1>6, <1>9 DEF Tabled
<1>13. Pointing(m)
  BY <1>0, <1>2, <1>6, <1>9 DEF Pointing
<1> QED  BY <1>2, <1>8, <1>9, <1>11, <1>12, <1>13 DEF NetFacts, m

\* Only the listener's state changes, or nothing of the connections.
LEMMA ListenerKeeps ==
    ASSUME NEW n, NetFacts(n), NEW st \in {"up", "gone"}
    PROVE  /\ NetFacts([n EXCEPT !.state[Listener] = st])
           /\ \A c \in Conns : [n EXCEPT !.state[Listener] = st].state[c] = n.state[c]
<1>0. n \in Network /\ Owned(n) /\ Tabled(n) /\ Pointing(n)
  BY DEF NetFacts
<1> DEFINE m == [n EXCEPT !.state[Listener] = st]
<1>1. /\ m \in Network /\ m.fd = n.fd /\ m.owner = n.owner /\ m.table = n.table /\ m.epoll = n.epoll
      /\ m.state = [n.state EXCEPT ![Listener] = st]
  BY <1>0 DEF Network, Channels
<1>2. \A c \in Conns : c # Listener /\ c \in Channels /\ c # Nobody
  BY ConnectionsAssumption DEF Channels
<1> HIDE DEF m
<1>3. \A c \in Conns : m.state[c] = n.state[c]
  BY <1>0, <1>1, <1>2 DEF Network
<1>4. \A f \in Fds : n.owner[f] \in Conns \cup {Nobody}
  BY <1>0 DEF Network
<1>5. Owned(m) /\ Tabled(m) /\ Pointing(m)
  BY <1>0, <1>1, <1>3, <1>4 DEF Owned, Tabled, Pointing
<1> QED  BY <1>1, <1>3, <1>5 DEF NetFacts, m

LEMMA StartedKeeps ==
    ASSUME NEW n, NetFacts(n)
    PROVE  NetFacts(Started(n))
<1> DEFINE p == [n EXCEPT !.state[Listener] = "up"]
<1>1. NetFacts(p)
  BY ListenerKeeps
<1> HIDE DEF p
<1>2. Listener \in Channels /\ {"in"} \in SUBSET {"in", "out"}
  BY DEF Channels
<1>3. NetFacts(Enable(p, Listener, {"in"}))
  BY <1>1, <1>2, EnableKeeps
<1> QED  BY <1>3 DEF Started, p

LEMMA AcceptingStoppedKeeps ==
    ASSUME NEW n, NetFacts(n)
    PROVE  /\ NetFacts(AcceptingStopped(n))
           /\ \A c \in Conns : AcceptingStopped(n).state[c] = n.state[c]
<1> DEFINE p == Disable(n, Listener, {"in"})
<1>1. Listener \in Channels /\ {"in"} \in SUBSET {"in", "out"}
  BY DEF Channels
<1>2. NetFacts(p) /\ p.state = n.state
  BY <1>1, DisableKeeps
<1> HIDE DEF p
<1>3. /\ NetFacts([p EXCEPT !.state[Listener] = "gone"])
      /\ \A c \in Conns : [p EXCEPT !.state[Listener] = "gone"].state[c] = p.state[c]
  BY <1>2, ListenerKeeps
<1> QED  BY <1>2, <1>3 DEF AcceptingStopped, p


\* Every connection of the table is closed, and no other is up.
LEMMA AllStoppedKeeps ==
    ASSUME NEW n, NetFacts(n)
    PROVE  NetFacts(AllStopped(n))
<1> DEFINE a == AcceptingStopped(n)
           closing == {c \in Conns : n.state[c] # "down" /\ \E f \in Fds : n.table[f] = c}
           fds == {n.fd[c] : c \in closing}
           m == AllStopped(n)
<1>1. NetFacts(a) /\ \A c \in Conns : a.state[c] = n.state[c]
  BY AcceptingStoppedKeeps
<1>2. a.fd = n.fd
  <2> DEFINE p == Disable(n, Listener, {"in"})
  <2>1. n \in Network /\ n.fd[Listener] \in Fds \cup {Listener} /\ Listener \in Channels
        /\ {"in"} \in SUBSET {"in", "out"}
    BY DEF NetFacts, Pointing, Channels
  <2>2. p.fd = n.fd /\ p \in Network
    BY <2>1, DisableEffect DEF SameOwners
  <2> HIDE DEF p
  <2>3. [p EXCEPT !.state[Listener] = "gone"].fd = p.fd
    BY <2>2 DEF Network
  <2> QED  BY <2>2, <2>3 DEF AcceptingStopped, p
<1> DEFINE st == [h \in Channels |-> IF h \in closing THEN "down" ELSE a.state[h]]
           ev == [h \in Channels |-> IF h \in closing THEN {} ELSE a.events[h]]
           ep == [f \in DOMAIN a.epoll |-> IF f \in fds THEN Unwatched ELSE a.epoll[f]]
           ta == [f \in Fds |-> Nobody]
<1>3. m = [a EXCEPT !.state = st, !.events = ev, !.epoll = ep, !.table = ta, !.refusing = TRUE]
  BY DEF AllStopped
<1> HIDE DEF m, a, st, ev, ep, ta
<1>4. a \in Network /\ Owned(a) /\ Tabled(a) /\ Pointing(a)
  BY <1>1 DEF NetFacts
<1>5. /\ m.state = st /\ m.events = ev /\ m.epoll = ep /\ m.table = ta /\ m.refusing = TRUE
      /\ m.fd = a.fd /\ m.owner = a.owner
      /\ m = [state |-> m.state, events |-> m.events, fd |-> m.fd, owner |-> m.owner, table |-> m.table,
              epoll |-> m.epoll, refusing |-> m.refusing]
  BY <1>3, <1>4 DEF Network
<1>6. closing \subseteq Conns /\ \A c \in closing : n.state[c] # "down" /\ \E f \in Fds : n.table[f] = c
  OBVIOUS
<1>7. \A f \in fds : \E c \in closing : f = a.fd[c]
  BY <1>2
<1>8. \A c \in closing : a.fd[c] \in fds
  BY <1>2
<1>9. \A c \in Conns : a.state[c] = "up" => c \in closing
  BY <1>1 DEF NetFacts, Owned, Tabled
<1>10. \A c \in closing : a.state[c] = "up"
  <2> SUFFICES ASSUME NEW c \in closing PROVE a.state[c] = "up"
    OBVIOUS
  <2>1. PICK f \in Fds : n.table[f] = c
    BY <1>6
  <2>2. c \in Conns /\ c # Nobody /\ n.state[c] # "down"
    BY <1>6, ConnectionsAssumption
  <2>3. n.state[c] \in {"up", "down"}
    BY <2>1, <2>2 DEF NetFacts, Tabled, Owned
  <2> QED  BY <1>1, <2>2, <2>3
<1> HIDE DEF closing, fds
<1>11. Listener \notin closing /\ Listener \notin Fds /\ Listener \notin fds
  BY <1>4, <1>6, <1>7, <1>10, ConnectionsAssumption DEF Owned
<1>12. /\ \A h \in Channels : m.state[h] = IF h \in closing THEN "down" ELSE a.state[h]
       /\ \A f \in Fds \cup {Listener} : m.epoll[f] = IF f \in fds THEN Unwatched ELSE a.epoll[f]
       /\ \A f \in Fds : m.table[f] = Nobody
       /\ \A c \in Conns : c \in Channels /\ c # Nobody
  BY <1>4, <1>5, ConnectionsAssumption DEF st, ep, ta, Network, Channels
<1>13. m \in Network
  <2>1. st \in [Channels -> {"unborn", "up", "down", "gone"}]
    BY <1>4 DEF st, Network
  <2>2. ev \in [Channels -> SUBSET {"in", "out"}]
    BY <1>4 DEF ev, Network
  <2>3. ep \in [Fds \cup {Listener} -> [ptr : Channels \cup {Nobody}, interest : SUBSET {"in", "out"}]]
    BY <1>4 DEF ep, Network, Unwatched
  <2>4. ta \in [Fds -> Conns \cup {Nobody}]
    BY DEF ta
  <2> QED  BY <1>4, <1>5, <2>1, <2>2, <2>3, <2>4 DEF Network
<1>14. \A f \in Fds : a.owner[f] \in Conns \cup {Nobody}
  BY <1>4 DEF Network
<1>15. Owned(m)
  BY <1>4, <1>5, <1>10, <1>12, <1>14 DEF Owned
<1>16. Tabled(m)
  BY <1>9, <1>12 DEF Tabled
<1>17. Pointing(m)
  <2>1. m.epoll[Listener].ptr \in {Nobody, Listener} /\ m.fd[Listener] = Listener
    BY <1>4, <1>5, <1>11, <1>12 DEF Pointing
  <2>2. ASSUME NEW f \in Fds, m.epoll[f].ptr # Nobody PROVE FALSE
    <3>1. f \notin fds /\ a.epoll[f].ptr # Nobody
      BY <1>12, <2>2 DEF Unwatched
    <3>2. a.epoll[f].ptr \in closing /\ a.fd[a.epoll[f].ptr] = f
      BY <1>4, <1>9, <3>1 DEF Pointing
    <3> QED  BY <1>8, <3>1, <3>2
  <2> QED  BY <2>1, <2>2 DEF Pointing
<1> QED  BY <1>13, <1>15, <1>16, <1>17 DEF NetFacts, m

\* Of the listener's descriptor, that nobody can connect any more.
LEMMA RefusingKeeps ==
    ASSUME NEW n, NetFacts(n), NEW shut \in BOOLEAN
    PROVE  /\ NetFacts([n EXCEPT !.refusing = shut])
           /\ [n EXCEPT !.refusing = shut].state = n.state
<1> DEFINE m == [n EXCEPT !.refusing = shut]
<1>1. /\ m \in Network /\ m.fd = n.fd /\ m.owner = n.owner /\ m.table = n.table /\ m.epoll = n.epoll
      /\ m.state = n.state
  BY DEF NetFacts, Network
<1> HIDE DEF m
<1> QED  BY <1>1 DEF NetFacts, Owned, Tabled, Pointing, m


-----------------------------------------------------------------------------
(* The network through every step.                                         *)

Alive(n, events) == \A e \in events : e.ptr \in Conns => n.state[e.ptr] = "up"

\* The network keeps its facts, and the connections of the events their state.
Safe(n, events) == NetFacts(n) /\ Alive(n, events)

LEMMA SweptSafe ==
    ASSUME NEW n, NEW events, Safe(n, events), NEW kept
    PROVE  Safe(Swept(n, kept), events)
BY SweptKeeps DEF Safe, Alive

LEMMA SameStates ==
    ASSUME NEW n, NEW events, Safe(n, events), NEW m, NetFacts(m),
           \A c \in Conns : m.state[c] = n.state[c]
    PROVE  Safe(m, events)
BY DEF Safe, Alive

\* The end of a connection without an event left in the batch.
LEMMA HandleCloseSafe ==
    ASSUME NEW n, NEW events, Safe(n, events), NEW c \in Conns, n.state[c] = "up",
           \A e \in events : e.ptr # c
    PROVE  Safe(HandleClose(n, c), events)
BY HandleCloseKeeps DEF Safe, Alive

LEMMA DrainsSafe ==
    ASSUME NEW events, Safe(net, events), NEW c \in Conns, Drains(c)
    PROVE  Safe(net', events)
<1>1. CASE net' = net
  BY <1>1
<1>2. CASE net.state[c] = "up" /\ net' = Disable(net, c, {"out"})
  <2>1. c \in Channels /\ {"out"} \in SUBSET {"in", "out"} /\ NetFacts(net)
    BY DEF Channels, Safe
  <2>2. NetFacts(net') /\ net'.state = net.state
    BY <1>2, <2>1, DisableKeeps
  <2> QED  BY <2>2, SameStates
<1> QED  BY <1>1, <1>2 DEF Drains

LEMMA AcceptSafe ==
    ASSUME NEW events, Safe(net, events), NEW e, HandleAccept(e)
    PROVE  Safe(net', events)
<1>1. CASE net' = net
  BY <1>1
<1>2. ASSUME NEW c \in Conns, net.state[c] = "unborn",
             LET free == {f \in Fds : net.owner[f] = Nobody}
             IN  free # {} /\ net' = Swept(Accepted(net, c, Min(free)), Kept)
      PROVE  Safe(net', events)
  <2> DEFINE free == {f \in Fds : net.owner[f] = Nobody}
             m == Accepted(net, c, Min(free))
  <2>1. Min(free) \in free
    <3>1. free \in SUBSET Nat /\ free # {}
      BY <1>2, ConnectionsAssumption
    <3> HIDE DEF free
    <3> QED  BY <3>1, LowestIsFree
  <2>2. NetFacts(net)
    BY DEF Safe
  <2>3. NetFacts(m) /\ \A d \in Conns \ {c} : m.state[d] = net.state[d]
    <3> DEFINE f == Min(free)
    <3>1. f \in Fds /\ net.owner[f] = Nobody
      BY <2>1
    <3> HIDE DEF f
    <3>2. /\ NetFacts(Accepted(net, c, f))
          /\ \A d \in Conns \ {c} : Accepted(net, c, f).state[d] = net.state[d]
      BY <1>2, <2>2, <3>1, AcceptedKeeps
    <3> QED  BY <3>2 DEF f
  <2>4. net' = Swept(m, Kept)
    BY <1>2
  <2> HIDE DEF m
  <2>5. Safe(m, events)
    BY <1>2, <2>3 DEF Safe, Alive
  <2> QED  BY <2>4, <2>5, SweptSafe
<1> QED  BY <1>1, <1>2 DEF HandleAccept

\* An event of the batch: none of its connections has ended before.
LEMMA DispatchSafe ==
    ASSUME TypeOK, Safe(net, batch), BatchFacts, Dispatch
    PROVE  /\ Safe(net', batch')
           /\ \A d \in dangling' : d.at = "event" => d.channel = Listener
           /\ loop' \in {"batch", "out"}
           /\ loop' = "out" => current' \in Conns
<1>1. loop = "batch"
  BY DEF Dispatch
<1>2. PICK e \in batch :
         /\ \/ DispatchDangling(e) \/ Ignore(e) \/ HandleAccept(e) \/ PeerCloses(e) \/ HandleRead(e)
            \/ HandleWrite(e)
         /\ batch' = batch \ {e}
  BY DEF Dispatch
<1>3. \A g \in batch' : g.ptr # e.ptr
  BY <1>2 DEF BatchFacts
<1>4. Safe(net, batch')
  BY <1>2 DEF Safe, Alive
<1>5. e.ptr \in Channels /\ (e.ptr \in Conns => net.state[e.ptr] = "up")
  BY DEF TypeOK, Safe, Alive
<1>6. NetFacts(net)
  BY DEF Safe
<1>7. CASE DispatchDangling(e)
  <2>1. e.ptr = Listener
    BY <1>5, <1>7 DEF DispatchDangling, Channels
  <2> QED  BY <1>1, <1>4, <1>7, <2>1 DEF DispatchDangling, BatchFacts
<1>8. CASE Ignore(e)
  BY <1>1, <1>4, <1>8 DEF Ignore, BatchFacts
<1>9. CASE HandleAccept(e)
  <2>1. Safe(net', batch')
    BY <1>4, <1>9, AcceptSafe
  <2> QED  BY <1>1, <1>9, <2>1 DEF HandleAccept, BatchFacts
<1>10. CASE PeerCloses(e)
  <2>1. e.ptr \in Conns /\ net.state[e.ptr] = "up"
    BY <1>5, <1>10 DEF PeerCloses, Watched
  <2>2. Safe(HandleClose(net, e.ptr), batch')
    BY <1>3, <1>4, <2>1, HandleCloseSafe
  <2>3. Safe(net', batch')
    BY <1>10, <2>2, SweptSafe DEF PeerCloses
  <2> QED  BY <1>1, <1>10, <2>3 DEF PeerCloses, BatchFacts
<1>11. CASE HandleRead(e)
  <2>1. e.ptr \in Conns /\ net.state[e.ptr] = "up"
    BY <1>5, <1>11 DEF HandleRead, Watched
  <2>2. PICK answer, close \in BOOLEAN :
           LET sent == IF answer THEN SentInPart(net, e.ptr) ELSE net
           IN  net' = IF close THEN Swept(HandleClose(sent, e.ptr), Kept) ELSE sent
    BY <1>11 DEF HandleRead
  <2> DEFINE sent == IF answer THEN SentInPart(net, e.ptr) ELSE net
  <2>3. NetFacts(sent) /\ sent.state = net.state
    BY <1>6, <2>1, SentInPartKeeps
  <2>4. net' = IF close THEN Swept(HandleClose(sent, e.ptr), Kept) ELSE sent
    BY <2>2
  <2> HIDE DEF sent
  <2>5. Safe(sent, batch') /\ sent.state[e.ptr] = "up"
    BY <1>4, <2>1, <2>3, SameStates
  <2>6. Safe(HandleClose(sent, e.ptr), batch')
    BY <1>3, <2>1, <2>5, HandleCloseSafe
  <2>7. Safe(net', batch')
    BY <2>4, <2>5, <2>6, SweptSafe
  <2> QED  BY <1>1, <1>11, <2>1, <2>7 DEF HandleRead, BatchFacts
<1>12. CASE HandleWrite(e)
  <2>1. e.ptr \in Conns
    BY <1>12 DEF HandleWrite, Watched
  <2>2. Safe(net', batch')
    BY <1>4, <1>12, <2>1, DrainsSafe DEF HandleWrite
  <2> QED  BY <1>1, <1>12, <2>2 DEF HandleWrite, BatchFacts
<1> QED  BY <1>2, <1>7, <1>8, <1>9, <1>10, <1>11, <1>12

\* The events of a Wait: each channel once, through its own descriptor.
LEMMA WaitSafe ==
    ASSUME TypeOK, NetFacts(net), Wait
    PROVE  /\ Alive(net, batch')
           /\ \A e, g \in batch' : e.ptr = g.ptr => e = g
           /\ batch' \subseteq [ptr : Channels, revents : SUBSET {"in", "out", "rdhup", "err"}]
<1>0. net \in Network /\ Pointing(net)
  BY DEF NetFacts
<1>1. PICK ready \in SUBSET {f \in DOMAIN net.epoll : Reports(f) # {}} :
      \E revents \in [ready -> {{"err"}, {"rdhup"}, {"in"}, {"out"}, {"in", "out"}}] :
         batch' = {[ptr |-> net.epoll[f].ptr, revents |-> revents[f]] : f \in ready}
  BY DEF Wait
<1>2. PICK revents \in [ready -> {{"err"}, {"rdhup"}, {"in"}, {"out"}, {"in", "out"}}] :
         batch' = {[ptr |-> net.epoll[f].ptr, revents |-> revents[f]] : f \in ready}
  BY <1>1
<1> DEFINE p(f) == net.epoll[f].ptr
<1>3. \A f \in ready : f \in Fds \cup {Listener} /\ p(f) # Nobody
  BY <1>0, <1>1 DEF Reports, Network
<1>4. \A f \in ready : p(f) \in Conns => f \in Fds /\ net.state[p(f)] = "up" /\ net.fd[p(f)] = f
  BY <1>0, <1>3, ConnectionsAssumption DEF Pointing
<1>5. \A f \in ready : p(f) \notin Conns => f = Listener /\ p(f) = Listener
  BY <1>0, <1>3 DEF Pointing
<1>6. \A f, g \in ready : p(f) = p(g) => f = g
  BY <1>4, <1>5
<1>7. \A f \in ready : p(f) \in Channels /\ revents[f] \in SUBSET {"in", "out", "rdhup", "err"}
  BY <1>5 DEF Channels
<1> HIDE DEF p
<1>8. batch' = {[ptr |-> p(f), revents |-> revents[f]] : f \in ready}
  BY <1>2 DEF p
<1>9. \A e \in batch' : \E f \in ready : e = [ptr |-> p(f), revents |-> revents[f]]
  BY <1>8
<1>10. Alive(net, batch')
  BY <1>4, <1>9 DEF Alive
<1>11. ASSUME NEW e \in batch', NEW g \in batch', e.ptr = g.ptr PROVE e = g
  <2>1. PICK f \in ready : e = [ptr |-> p(f), revents |-> revents[f]]
    BY <1>9
  <2>2. PICK h \in ready : g = [ptr |-> p(h), revents |-> revents[h]]
    BY <1>9
  <2>3. f = h
    BY <1>6, <1>11, <2>1, <2>2
  <2> QED  BY <2>1, <2>2, <2>3
<1>12. batch' \subseteq [ptr : Channels, revents : SUBSET {"in", "out", "rdhup", "err"}]
  BY <1>7, <1>9
<1> QED  BY <1>10, <1>11, <1>12


\* A functor runs when no event is left of the batch.
LEMMA RunFunctorSafe ==
    ASSUME TypeOK, NetFacts(net), BatchFacts, RunFunctor
    PROVE  NetFacts(net') /\ batch = {}
<1>1. batch = {}
  BY DEF RunFunctor, BatchFacts
<1>2. running # <<>> /\ Head(running) \in Functors
  BY DEF RunFunctor, TypeOK
<1> DEFINE f == Head(running)
           left == LockedBy(held) \cup KeptBy(functors) \cup KeptBy(Tail(running))
<1> HIDE DEF left
<1>3. \/ f.do = "start" /\ net' = Started(net)
      \/ f.do = "stopAccepting" /\ net' = AcceptingStopped(net)
      \/ f.do = "stop" /\ net' = Swept(AllStopped(net), left)
      \/ f.do = "send" /\ net' = Swept(net, left)
      \/ f.do = "send" /\ net' = Swept(SentInPart(net, f.conn), left)
  BY DEF RunFunctor, left
<1>4. f.do = "send" => f.conn \in Conns
  BY <1>2 DEF Functors
<1> HIDE DEF f
<1>5. NetFacts(Started(net)) /\ NetFacts(AcceptingStopped(net))
  BY StartedKeeps, AcceptingStoppedKeeps
<1>6. NetFacts(Swept(AllStopped(net), left)) /\ NetFacts(Swept(net, left))
  BY AllStoppedKeeps, SweptKeeps
<1>7. f.do = "send" => NetFacts(Swept(SentInPart(net, f.conn), left))
  BY <1>4, SentInPartKeeps, SweptKeeps
<1> QED  BY <1>1, <1>3, <1>5, <1>6, <1>7

LEMMA NetStep == ConnectionsInv /\ [Next]_vars => NetFacts(net)' /\ BatchFacts'
<1> SUFFICES ASSUME ConnectionsInv, [Next]_vars PROVE NetFacts(net)' /\ BatchFacts'
  OBVIOUS
<1>0. TypeOK /\ NetFacts(net) /\ BatchFacts /\ Safe(net, batch)
  BY DEF ConnectionsInv, Safe, Alive, BatchFacts
<1>1. ASSUME UNCHANGED <<batch, current, dangling>>, loop' = loop, Safe(net', batch')
      PROVE  NetFacts(net)' /\ BatchFacts'
  BY <1>0, <1>1 DEF BatchFacts, Safe, Alive
<1>2. CASE UNCHANGED vars
  BY <1>0, <1>1, <1>2 DEF vars, others
<1>3. CASE Wait
  <2>1. UNCHANGED <<net, current, dangling>> /\ loop' = "batch"
    BY <1>3 DEF Wait
  <2> QED  BY <1>0, <1>3, <2>1, WaitSafe DEF BatchFacts, Alive
<1>4. CASE LoopEnds \/ FunctorsDone
  <2>1. UNCHANGED <<net, batch, current, dangling>> /\ loop # "batch" /\ loop # "out" /\ loop' \notin {"batch", "out"}
    BY <1>4 DEF LoopEnds, FunctorsDone
  <2> QED  BY <1>0, <2>1 DEF BatchFacts
<1>5. CASE Dispatch
  <2>1. \A e \in batch' : e \in batch
    BY <1>5 DEF Dispatch
  <2>2. /\ Safe(net', batch')
        /\ \A d \in dangling' : d.at = "event" => d.channel = Listener
        /\ loop' \in {"batch", "out"}
        /\ loop' = "out" => current' \in Conns
    BY <1>0, <1>5, DispatchSafe
  <2>3. \A e, g \in batch' : e.ptr = g.ptr => e = g
    BY <1>0, <2>1 DEF BatchFacts
  <2> QED  BY <2>2, <2>3 DEF BatchFacts, Safe, Alive
<1>6. CASE WriteAfterRead
  <2>1. current \in Conns /\ loop' = "batch" /\ UNCHANGED batch
    BY <1>0, <1>6 DEF WriteAfterRead, BatchFacts
  <2>2. Safe(net', batch')
    BY <1>0, <1>6, <2>1, DrainsSafe DEF WriteAfterRead
  <2>3. \A d \in dangling' : d \in dangling \/ d.at = "write"
    BY <1>6 DEF WriteAfterRead
  <2> QED  BY <1>0, <2>1, <2>2, <2>3 DEF BatchFacts, Safe, Alive
<1>7. CASE SwapFunctors
  BY <1>0, <1>7 DEF SwapFunctors, BatchFacts
<1>8. CASE RunFunctor
  <2>1. UNCHANGED <<batch, current, dangling>> /\ loop' = loop
    BY <1>8 DEF RunFunctor
  <2>2. NetFacts(net') /\ batch = {}
    BY <1>0, <1>8, RunFunctorSafe
  <2> QED  BY <1>0, <2>1, <2>2 DEF BatchFacts
<1>9. ASSUME NEW w \in Workers, Lock(w) \/ Send(w) PROVE NetFacts(net)' /\ BatchFacts'
  BY <1>0, <1>1, <1>9 DEF Lock, Send, others
<1>10. ASSUME NEW w \in Workers, Drop(w) PROVE NetFacts(net)' /\ BatchFacts'
  <2>1. UNCHANGED <<batch, current, dangling>> /\ loop' = loop
    BY <1>10 DEF Drop
  <2>2. Safe(net', batch')
    BY <1>0, <1>10, <2>1, SweptSafe DEF Drop
  <2> QED  BY <1>1, <2>1, <2>2
<1>11. CASE StopAccepting
  <2>1. UNCHANGED <<batch, current, dangling>> /\ loop' = loop
        /\ net' = [net EXCEPT !.refusing = net.state[Listener] # "unborn"]
    BY <1>11 DEF StopAccepting
  <2>2. Safe(net', batch')
    <3> DEFINE shut == net.state[Listener] # "unborn"
    <3>1. shut \in BOOLEAN
      OBVIOUS
    <3> HIDE DEF shut
    <3>2. net' = [net EXCEPT !.refusing = shut]
      BY <2>1 DEF shut
    <3> QED  BY <1>0, <2>1, <3>1, <3>2, RefusingKeeps, SameStates
  <2> QED  BY <1>1, <2>1, <2>2
<1>12. CASE Stop \/ Quit
  BY <1>0, <1>1, <1>12 DEF Stop, Quit, others
<1> QED  BY <1>2, <1>3, <1>4, <1>5, <1>6, <1>7, <1>8, <1>9, <1>10, <1>11, <1>12 DEF Next, LoopStep

-----------------------------------------------------------------------------
(* The types and the theorems.                                             *)

LEMMA TypesStep == ConnectionsInv /\ NetFacts(net)' /\ [Next]_vars => TypeOK'
<1> SUFFICES ASSUME ConnectionsInv, NetFacts(net)', [Next]_vars PROVE TypeOK'
  OBVIOUS
<1>0. TypeOK /\ NetFacts(net) /\ BatchFacts /\ net' \in Network
  BY DEF ConnectionsInv, NetFacts
<1> DEFINE Rest ==
        /\ held \in [Workers -> Conns \cup {Nobody}] /\ tasks \in Seq(Conns)
        /\ functors \in Seq(Functors) /\ running \in Seq(Functors)
        /\ server \in {"running", "draining", "stopped", "quit"}
    Loop ==
        /\ batch \subseteq [ptr : Channels, revents : SUBSET {"in", "out", "rdhup", "err"}]
        /\ loop \in {"wait", "batch", "out", "functors", "ended"} /\ current \in Conns \cup {Nobody}
        /\ dangling \subseteq [channel : Channels, at : {"event", "write"}]
<1>1. TypeOK <=> net \in Network /\ Rest /\ Loop
  BY DEF TypeOK
<1>2. ASSUME Rest', Loop' PROVE TypeOK'
  BY <1>0, <1>2 DEF TypeOK
<1>3. UNCHANGED <<held, tasks, functors, running, server>> => Rest'
  BY <1>0, <1>1
<1>4. UNCHANGED <<batch, loop, current, dangling>> => Loop'
  BY <1>0, <1>1
<1>5. \A what \in {"start", "stopAccepting", "stop"} : Do(what) \in Functors
  BY DEF Do, Functors
<1>6. CASE UNCHANGED vars
  BY <1>2, <1>3, <1>4, <1>6 DEF vars, others
<1>7. CASE Wait
  <2>1. Loop'
    BY <1>0, <1>1, <1>7, WaitSafe DEF Wait
  <2> QED  BY <1>2, <1>3, <1>7, <2>1 DEF Wait, others
<1>8. CASE LoopEnds \/ FunctorsDone
  <2>1. Loop'
    BY <1>0, <1>1, <1>8 DEF LoopEnds, FunctorsDone
  <2> QED  BY <1>2, <1>3, <1>8, <2>1 DEF LoopEnds, FunctorsDone, others
<1>9. CASE Dispatch
  <2>1. PICK e \in batch :
           /\ \/ DispatchDangling(e) \/ Ignore(e) \/ HandleAccept(e) \/ PeerCloses(e) \/ HandleRead(e)
              \/ HandleWrite(e)
           /\ batch' = batch \ {e}
    BY <1>9 DEF Dispatch
  <2>2. e.ptr \in Channels
    BY <1>0 DEF TypeOK
  <2>3. dangling' \subseteq dangling \cup [channel : Channels, at : {"event", "write"}]
    BY <2>1, <2>2 DEF DispatchDangling, Ignore, HandleAccept, PeerCloses, HandleRead, HandleWrite
  <2>4. /\ loop' \in {loop, "out"} /\ current' \in {current} \cup Conns
    BY <2>1 DEF DispatchDangling, Ignore, HandleAccept, PeerCloses, HandleRead, HandleWrite, Watched
  <2>5. Loop'
    BY <1>0, <1>1, <2>1, <2>3, <2>4
  <2>6. UNCHANGED <<held, functors, running, server>>
    BY <1>9, <2>1 DEF Dispatch, DispatchDangling, Ignore, HandleAccept, PeerCloses, HandleRead, HandleWrite, others
  <2>7. tasks' = tasks \/ (e.ptr \in Conns /\ tasks' = Append(tasks, e.ptr))
    BY <2>1 DEF DispatchDangling, Ignore, HandleAccept, PeerCloses, HandleRead, HandleWrite, others, Watched
  <2>8. tasks' \in Seq(Conns)
    <3>1. tasks \in Seq(Conns)
      BY <1>0, <1>1
    <3> QED  BY <2>7, <3>1
  <2>9. Rest'
    BY <1>0, <1>1, <2>6, <2>8
  <2> QED  BY <1>2, <2>5, <2>9
<1>10. CASE WriteAfterRead
  <2>1. current \in Channels
    BY <1>0, <1>10 DEF WriteAfterRead, BatchFacts, Channels
  <2>2. Loop'
    BY <1>0, <1>1, <1>10, <2>1 DEF WriteAfterRead
  <2> QED  BY <1>2, <1>3, <1>10, <2>2 DEF WriteAfterRead, others
<1>11. CASE SwapFunctors
  <2>1. Loop' /\ Rest'
    BY <1>0, <1>1, <1>11 DEF SwapFunctors, others
  <2> QED  BY <1>2, <2>1
<1>12. CASE RunFunctor
  <2>1. running \in Seq(Functors) /\ running # <<>> /\ running' = Tail(running)
    BY <1>0, <1>12 DEF RunFunctor, TypeOK
  <2>2. running' \in Seq(Functors)
    BY <2>1
  <2>3. Rest'
    BY <1>0, <1>1, <1>12, <2>2 DEF RunFunctor, others
  <2> QED  BY <1>2, <1>4, <1>12, <2>3 DEF RunFunctor
<1>13. ASSUME NEW w \in Workers, Lock(w) PROVE TypeOK'
  <2>1. tasks \in Seq(Conns) /\ tasks # <<>>
    BY <1>0, <1>13 DEF Lock, TypeOK
  <2>2. tasks' \in Seq(Conns) /\ Head(tasks) \in Conns
    BY <1>13, <2>1 DEF Lock
  <2>3. held' \in [Workers -> Conns \cup {Nobody}]
    BY <1>0, <1>1, <1>13, <2>2 DEF Lock
  <2>4. Rest'
    BY <1>0, <1>1, <1>13, <2>2, <2>3 DEF Lock
  <2> QED  BY <1>2, <1>4, <1>13, <2>4 DEF Lock
<1>14. ASSUME NEW w \in Workers, Send(w) PROVE TypeOK'
  <2>1. held[w] \in Conns
    BY <1>0, <1>1, <1>14 DEF Send
  <2>2. functors' \in Seq(Functors)
    <3> DEFINE f == [do |-> "send", conn |-> held[w]]
    <3>1. f \in Functors
      BY <2>1 DEF Functors
    <3>2. functors' = Append(functors, f) /\ functors \in Seq(Functors)
      BY <1>0, <1>1, <1>14 DEF Send
    <3> HIDE DEF f
    <3> QED  BY <3>1, <3>2
  <2>3. Rest'
    BY <1>0, <1>1, <1>14, <2>2 DEF Send, others
  <2> QED  BY <1>2, <1>4, <1>14, <2>3 DEF Send
<1>15. ASSUME NEW w \in Workers, Drop(w) PROVE TypeOK'
  <2>1. Rest'
    BY <1>0, <1>1, <1>15 DEF Drop
  <2> QED  BY <1>2, <1>4, <1>15, <2>1 DEF Drop
<1>16. CASE StopAccepting \/ Stop
  <2>1. PICK g \in Functors : functors' = Append(functors, g)
    BY <1>5, <1>16 DEF StopAccepting, Stop
  <2>2. functors' \in Seq(Functors)
    BY <1>0, <1>1, <2>1
  <2>3. Rest'
    BY <1>0, <1>1, <1>16, <2>2 DEF StopAccepting, Stop, others
  <2> QED  BY <1>2, <1>4, <1>16, <2>3 DEF StopAccepting, Stop
<1>17. CASE Quit
  <2>1. Rest'
    BY <1>0, <1>1, <1>17 DEF Quit, others
  <2> QED  BY <1>2, <1>4, <1>17, <2>1 DEF Quit
<1> QED  BY <1>6, <1>7, <1>8, <1>9, <1>10, <1>11, <1>12, <1>13, <1>14, <1>15, <1>16, <1>17 DEF Next, LoopStep

LEMMA ConnectionsInit == Init => ConnectionsInv
<1> SUFFICES ASSUME Init PROVE ConnectionsInv
  OBVIOUS
<1>1. net \in Network
  BY DEF Init, Network, Channels, Unwatched
<1>2. Owned(net) /\ Tabled(net)
  BY ConnectionsAssumption DEF Init, Owned, Tabled, Channels
<1>3. Pointing(net)
  BY DEF Init, Pointing, Unwatched, Channels
<1>4. BatchFacts
  BY DEF Init, BatchFacts
<1>5. TypeOK
  <2>1. Do("start") \in Functors
    BY DEF Do, Functors
  <2>2. <<Do("start")>> \in Seq(Functors)
    BY <2>1
  <2> QED  BY <1>1, <2>2 DEF Init, TypeOK
<1> QED  BY <1>1, <1>2, <1>3, <1>4, <1>5 DEF ConnectionsInv, NetFacts

\* Whatever is accepted, closed, sent and stopped, in any order of the loop and
\* the workers: owners and numbers match, the table holds what is up, epoll
\* points at it, and a batch of events is not overtaken.
THEOREM NetworkInvariant == Safety => []ConnectionsInv
<1>1. ConnectionsInv /\ [Next]_vars => ConnectionsInv'
  BY NetStep, TypesStep DEF ConnectionsInv
<1> QED  BY <1>1, ConnectionsInit, PTL DEF Safety

\* A descriptor has one owner, and the table's entry for a number is the owner of
\* that number, also after the number was given to another connection.
THEOREM DescriptorsHaveOneOwner == Safety => []DescriptorsConsistent
<1>1. ConnectionsInv => DescriptorsConsistent
  BY DEF ConnectionsInv, NetFacts, Owned, Tabled, DescriptorsConsistent, TableMatchesDescriptors
<1> QED  BY <1>1, NetworkInvariant, PTL

\* epoll points only at connections that are up, and no event is dispatched to a
\* connection that was destroyed.
THEOREM EventsFindTheirConnection == Safety => []EpollPointsAtLive
<1>1. ConnectionsInv => EpollPointsAtLive
  BY DEF ConnectionsInv, NetFacts, Pointing, BatchFacts, EpollPointsAtLive
<1> QED  BY <1>1, NetworkInvariant, PTL
=============================================================================
