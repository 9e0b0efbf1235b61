--------------------------- MODULE FramingProofs ---------------------------
(***************************************************************************)
(* Theorems about what goes over a connection: about the messages of       *)
(* MessageApi, which are read as they were written, for any strings and    *)
(* codes; and about Framing, which delivers them as they were sent, for    *)
(* any messages, any sizes of frames, buffers and sockets, and any base of *)
(* the bytes.                                                              *)
(***************************************************************************)
EXTENDS Framing, MessageApi, SequenceTheorems, FiniteSetTheorems,
        WellFoundedInduction, TLAPS

-----------------------------------------------------------------------------
(* Sequences.                                                              *)

\* A piece of a sequence.
LEMMA PartOf ==
    ASSUME NEW S, NEW s \in Seq(S), NEW m \in Nat, NEW n \in Nat, m <= n, n <= Len(s)
    PROVE  /\ SubSeq(s, m + 1, n) \in Seq(S)
           /\ Len(SubSeq(s, m + 1, n)) = n - m
           /\ \A i \in 1 .. n - m : SubSeq(s, m + 1, n)[i] = s[m + i]
OBVIOUS

\* One sequence behind another.
LEMMA Concatenated ==
    ASSUME NEW S, NEW s \in Seq(S), NEW t \in Seq(S)
    PROVE  /\ s \o t \in Seq(S)
           /\ Len(s \o t) = Len(s) + Len(t)
           /\ \A i \in 1 .. Len(s) : (s \o t)[i] = s[i]
           /\ \A i \in 1 .. Len(t) : (s \o t)[Len(s) + i] = t[i]
OBVIOUS

\* A sequence is cut in two.
LEMMA Split ==
    ASSUME NEW S, NEW s \in Seq(S), NEW n \in 0 .. Len(s)
    PROVE  /\ SubSeq(s, 1, n) \in Seq(S) /\ Len(SubSeq(s, 1, n)) = n
           /\ SubSeq(s, n + 1, Len(s)) \in Seq(S) /\ Len(SubSeq(s, n + 1, Len(s))) = Len(s) - n
           /\ SubSeq(s, 1, n) \o SubSeq(s, n + 1, Len(s)) = s
<1>1. n \in Nat /\ Len(s) \in Nat /\ n <= Len(s)
  OBVIOUS
<1>2. SubSeq(s, 1, n) \in Seq(S) /\ Len(SubSeq(s, 1, n)) = n
  BY <1>1
<1>3. SubSeq(s, n + 1, Len(s)) \in Seq(S) /\ Len(SubSeq(s, n + 1, Len(s))) = Len(s) - n
  BY <1>1
<1>4. SubSeq(s, 1, n) \o SubSeq(s, n + 1, Len(s)) = SubSeq(s, 1, Len(s))
  <2>1. 1 \in 1 .. Len(s) + 1 /\ n \in 1 - 1 .. Len(s) /\ Len(s) \in n .. Len(s)
    BY <1>1
  <2> QED  BY <2>1, ConcatAdjacentSubSeq
<1> QED  BY <1>2, <1>3, <1>4, SubSeqFull

\* The front of a piece.
LEMMA FrontOfPart ==
    ASSUME NEW S, NEW s \in Seq(S), NEW m \in Nat, NEW n \in Nat, NEW k \in Nat,
           m + k <= n, n <= Len(s)
    PROVE  SubSeq(s, m + 1, m + k) = SubSeq(SubSeq(s, m + 1, n), 1, k)
<1>1. CASE k = 0
  BY <1>1, SubSeqEmpty
<1>2. CASE k > 0
  <2>1. m + 1 \in 1 .. Len(s) /\ n \in 1 .. Len(s) /\ 1 \in 1 .. n - (m + 1) + 1 /\ k \in 1 .. n - (m + 1) + 1
    BY <1>2
  <2>2. SubSeq(SubSeq(s, m + 1, n), 1, k) = SubSeq(s, (m + 1) + 1 - 1, (m + 1) + k - 1)
    BY <2>1, SubSeqOfSubSeq
  <2> QED  BY <2>2
<1> QED  BY <1>1, <1>2

-----------------------------------------------------------------------------
(* Numbers.                                                                *)

\* A set of numbers with 0 and, with every number, the next is all of them.
LEMMA AllNumbers ==
    ASSUME NEW S, 0 \in S, \A n \in Nat : n \in S => n + 1 \in S
    PROVE  \A n \in Nat : n \in S
<1> DEFINE R == OpToRel(<, Nat)
           T == Nat \ S
<1> SUFFICES ASSUME T # {} PROVE FALSE
  OBVIOUS
<1>1. IsWellFoundedOn(R, Nat)
  BY NatLessThanWellFounded, Zenon
<1>2. \A x, y \in Nat : <<x, y>> \in R <=> x < y
  BY DEF OpToRel
<1>3. T \subseteq Nat
  OBVIOUS
<1> HIDE DEF R
<1>4. PICK x \in T : \A y \in T : ~(<<y, x>> \in R)
  <2> HIDE DEF T
  <2> QED  BY <1>1, <1>3, WFMin
<1>5. x \in Nat /\ x # 0 /\ x \notin S
  BY <1>4
<1>6. x - 1 \in Nat /\ x - 1 < x
  BY <1>5
<1>7. x - 1 \in S
  BY <1>2, <1>4, <1>5, <1>6
<1>8. (x - 1) + 1 \in S
  BY <1>6, <1>7
<1> QED  BY <1>5, <1>8

\* Quotient and remainder.
LEMMA Euclid ==
    ASSUME NEW n \in Nat, NEW c \in Nat \ {0}
    PROVE  /\ n \div c \in Nat
           /\ n % c \in 0 .. c - 1
           /\ n = c * (n \div c) + (n % c)
OBVIOUS

\* They are the only ones.
LEMMA DivUnique ==
    ASSUME NEW n \in Nat, NEW c \in Nat \ {0}, NEW q \in Nat, NEW r \in 0 .. c - 1, n = c * q + r
    PROVE  n \div c = q
<1>1. PICK p \in Nat, s \in 0 .. c - 1 : p = n \div c /\ n = c * p + s
  BY Euclid
<1>2. CASE p < q
  <2>1. c * (p + 1) <= c * q
    BY <1>2
  <2>2. c * (p + 1) = c * p + c
    OBVIOUS
  <2> QED  BY <1>1, <2>1, <2>2
<1>3. CASE q < p
  <2>1. c * (q + 1) <= c * p
    BY <1>3
  <2>2. c * (q + 1) = c * q + c
    OBVIOUS
  <2> QED  BY <1>1, <2>1, <2>2
<1> QED  BY <1>1, <1>2, <1>3

\* Dividing twice is dividing by the product.
LEMMA DivDiv ==
    ASSUME NEW n \in Nat, NEW c \in Nat \ {0}, NEW e \in Nat \ {0}
    PROVE  n \div (c * e) = (n \div c) \div e
<1>1. PICK q \in Nat, r \in 0 .. c - 1 : q = n \div c /\ n = c * q + r
  BY Euclid
<1>2. PICK p \in Nat, s \in 0 .. e - 1 : p = q \div e /\ q = e * p + s
  BY Euclid
<1>3. n = (c * e) * p + (c * s + r)
  <2>1. c * q = c * (e * p) + c * s
    BY <1>2
  <2>2. c * (e * p) = (c * e) * p
    OBVIOUS
  <2>3. c * s \in Nat /\ c * q \in Nat /\ (c * e) * p \in Nat
    OBVIOUS
  <2> QED  BY <1>1, <2>1, <2>2, <2>3
<1>4. c * s + r \in 0 .. c * e - 1
  <2>1. c * (s + 1) <= c * e
    BY <1>2
  <2>2. c * (s + 1) = c * s + c
    OBVIOUS
  <2>3. c * s \in Nat /\ c * e \in Nat
    OBVIOUS
  <2> QED  BY <1>1, <2>1, <2>2, <2>3
<1>5. c * e \in Nat \ {0}
  OBVIOUS
<1> DEFINE d == c * e
           m == c * s + r
<1>6. d \in Nat \ {0} /\ m \in 0 .. d - 1 /\ n = d * p + m
  BY <1>3, <1>4, <1>5
<1> HIDE DEF d, m
<1>7. n \div d = p
  BY <1>6, DivUnique
<1> QED  BY <1>1, <1>2, <1>7 DEF d

-----------------------------------------------------------------------------
(* The loop of the parser.                                                 *)

\* The states of the loop over `w`, one after the other.
Turns(fields, st, w, after) ==
    /\ after[0] = st
    /\ \A n \in 1 .. Len(w) : after[n] = ParseCell(fields, after[n - 1], w[n])

\* The function of the loop's definition.
Loop(fields, st, w, after) ==
    after = [n \in 0 .. Len(w) |->
                IF n = 0 THEN st ELSE ParseCell(fields, after[n - 1], w[n])]

\* There are such states, and such a function.
LEMMA TurnsExist ==
    ASSUME NEW fields, NEW st, NEW w, Len(w) \in Nat
    PROVE  \E after : Turns(fields, st, w, after) /\ Loop(fields, st, w, after)
<1> DEFINE Upto(k) == \E g : g = [n \in 0 .. k |->
                          IF n = 0 THEN st ELSE ParseCell(fields, g[n - 1], w[n])]
           S == {k \in Nat : Upto(k)}
<1>1. 0 \in S
  <2> DEFINE g == [n \in 0 .. 0 |-> st]
  <2>1. g = [n \in 0 .. 0 |-> IF n = 0 THEN st ELSE ParseCell(fields, g[n - 1], w[n])]
    BY Z3
  <2> HIDE DEF g
  <2> QED  BY <2>1
<1>2. ASSUME NEW k \in Nat, k \in S PROVE k + 1 \in S
  <2>1. PICK g : g = [n \in 0 .. k |->
                          IF n = 0 THEN st ELSE ParseCell(fields, g[n - 1], w[n])]
    BY <1>2
  <2> DEFINE h == [n \in 0 .. k + 1 |->
                      IF n = k + 1 THEN ParseCell(fields, g[k], w[k + 1]) ELSE g[n]]
  <2>2. \A n \in 0 .. k + 1 :
            h[n] = IF n = 0 THEN st ELSE ParseCell(fields, h[n - 1], w[n])
    <3> SUFFICES ASSUME NEW n \in 0 .. k + 1
                 PROVE  h[n] = IF n = 0 THEN st ELSE ParseCell(fields, h[n - 1], w[n])
      OBVIOUS
    <3>1. CASE n = k + 1
      <4>1. h[n - 1] = g[k] /\ n - 1 = k
        BY <3>1
      <4>2. h[n] = ParseCell(fields, g[k], w[k + 1])
        BY <3>1
      <4> HIDE DEF h
      <4> QED  BY <3>1, <4>1, <4>2
    <3>2. CASE n = 0
      <4>1. h[0] = g[0]
        OBVIOUS
      <4>2. g[0] = st
        BY <2>1
      <4> HIDE DEF h
      <4> QED  BY <3>2, <4>1, <4>2
    <3>3. CASE n \in 1 .. k
      <4>1. h[n] = g[n] /\ h[n - 1] = g[n - 1]
        BY <3>3
      <4>2. g[n] = ParseCell(fields, g[n - 1], w[n])
        BY <2>1, <3>3
      <4> HIDE DEF h
      <4> QED  BY <3>3, <4>1, <4>2
    <3> QED  BY <3>1, <3>2, <3>3
  <2>3. h = [n \in 0 .. k + 1 |-> h[n]]
    OBVIOUS
  <2> HIDE DEF h
  <2>4. h = [n \in 0 .. k + 1 |-> IF n = 0 THEN st ELSE ParseCell(fields, h[n - 1], w[n])]
    BY <2>2, <2>3
  <2>5. Upto(k + 1)
    BY <2>4
  <2> QED  BY <2>5
<1>3. Len(w) \in S
  <2> HIDE DEF S
  <2> QED  BY <1>1, <1>2, AllNumbers
<1>4. PICK after : after = [n \in 0 .. Len(w) |->
                       IF n = 0 THEN st ELSE ParseCell(fields, after[n - 1], w[n])]
  BY <1>3
<1>5. after[0] = st
  BY <1>4
<1>6. \A n \in 1 .. Len(w) : after[n] = ParseCell(fields, after[n - 1], w[n])
  BY <1>4
<1> QED  BY <1>4, <1>5, <1>6 DEF Turns, Loop

\* Any such states end where the loop ends.
LEMMA RunIs ==
    ASSUME NEW fields, NEW st, NEW w, Len(w) \in Nat,
           NEW after, Turns(fields, st, w, after)
    PROVE  Run(fields, st, w) = after[Len(w)]
<1> DEFINE f == CHOOSE g : Loop(fields, st, w, g)
<1>1. Run(fields, st, w) = f[Len(w)]
  BY DEF Run, Loop
<1>2. Loop(fields, st, w, f)
  <2>1. \E g : Loop(fields, st, w, g)
    BY TurnsExist, Zenon
  <2> QED  BY <2>1, Zenon
<1> HIDE DEF f
<1> DEFINE S == {n \in Nat : n <= Len(w) => f[n] = after[n]}
<1>3. 0 \in S
  <2>1. f[0] = st
    BY <1>2 DEF Loop
  <2> QED  BY <2>1 DEF Turns
<1>4. ASSUME NEW n \in Nat, n \in S PROVE n + 1 \in S
  <2> SUFFICES ASSUME n + 1 <= Len(w) PROVE f[n + 1] = after[n + 1]
    OBVIOUS
  <2>1. f[n] = after[n]
    BY <1>4
  <2>2. n + 1 \in 1 .. Len(w) /\ n + 1 \in 0 .. Len(w) /\ n + 1 # 0 /\ (n + 1) - 1 = n
    OBVIOUS
  <2>3. f[n + 1] = ParseCell(fields, f[n], w[n + 1])
    BY <1>2, <2>2 DEF Loop
  <2>4. after[n + 1] = ParseCell(fields, after[n], w[n + 1])
    BY <2>2 DEF Turns
  <2> QED  BY <2>1, <2>3, <2>4
<1>5. Len(w) \in S
  <2> HIDE DEF S
  <2> QED  BY <1>3, <1>4, AllNumbers
<1> QED  BY <1>1, <1>5

\* The states again, named.
LEMMA RunTurns ==
    ASSUME NEW fields, NEW st, NEW w, Len(w) \in Nat
    PROVE  \E after : Turns(fields, st, w, after) /\ after[Len(w)] = Run(fields, st, w)
<1>1. PICK after : Turns(fields, st, w, after)
  BY TurnsExist, Zenon
<1>2. Run(fields, st, w) = after[Len(w)]
  BY <1>1, RunIs, Zenon
<1> QED  BY <1>1, <1>2, Zenon

\* No cell changes nothing.
LEMMA RunNothing ==
    ASSUME NEW fields, NEW st
    PROVE  Run(fields, st, <<>>) = st
<1>1. Len(<<>>) = 0 /\ Len(<<>>) \in Nat
  OBVIOUS
<1>2. PICK after : /\ Turns(fields, st, <<>>, after)
                   /\ after[Len(<<>>)] = Run(fields, st, <<>>)
  BY <1>1, RunTurns, Zenon
<1> QED  BY <1>1, <1>2 DEF Turns

\* One sequence of cells after another.
LEMMA RunConcat ==
    ASSUME NEW fields, NEW st, NEW S, NEW u \in Seq(S), NEW v \in Seq(S)
    PROVE  Run(fields, st, u \o v) = Run(fields, Run(fields, st, u), v)
<1> DEFINE mid == Run(fields, st, u)
           w == u \o v
<1>1. /\ Len(u) \in Nat /\ Len(v) \in Nat /\ Len(w) \in Nat /\ Len(w) = Len(u) + Len(v)
      /\ \A n \in 1 .. Len(u) : w[n] = u[n]
      /\ \A n \in 1 .. Len(v) : w[Len(u) + n] = v[n]
  OBVIOUS
<1> HIDE DEF w
<1>2. PICK a : Turns(fields, st, u, a) /\ a[Len(u)] = mid
  BY <1>1, RunTurns
<1> HIDE DEF mid
<1>3. PICK b : Turns(fields, mid, v, b) /\ b[Len(v)] = Run(fields, mid, v)
  BY <1>1, RunTurns
<1> DEFINE c == [n \in 0 .. Len(w) |-> IF n <= Len(u) THEN a[n] ELSE b[n - Len(u)]]
<1>4. c[0] = st
  BY <1>1, <1>2 DEF Turns
<1>5. ASSUME NEW n \in 1 .. Len(w) PROVE c[n] = ParseCell(fields, c[n - 1], w[n])
  <2>1. CASE n <= Len(u)
    <3>1. c[n] = a[n] /\ c[n - 1] = a[n - 1] /\ n \in 1 .. Len(u)
      BY <1>1, <2>1
    <3>2. a[n] = ParseCell(fields, a[n - 1], u[n])
      BY <1>2, <3>1 DEF Turns
    <3> HIDE DEF c
    <3> QED  BY <1>1, <3>1, <3>2
  <2>2. CASE n > Len(u)
    <3> DEFINE i == n - Len(u)
    <3>1. i \in 1 .. Len(v) /\ n = Len(u) + i
      BY <1>1, <2>2
    <3>2. c[n] = b[i]
      BY <1>1, <2>2
    <3>3. c[n - 1] = b[i - 1]
      <4>1. CASE i = 1
        <5>1. n - 1 = Len(u)
          BY <1>1, <3>1, <4>1
        <5>2. c[n - 1] = a[Len(u)]
          BY <1>1, <5>1
        <5> QED  BY <1>2, <1>3, <4>1, <5>2 DEF Turns
      <4>2. CASE i # 1
        <5>1. n - 1 > Len(u) /\ n - 1 \in 0 .. Len(w) /\ (n - 1) - Len(u) = i - 1
          BY <1>1, <3>1, <4>2
        <5> QED  BY <1>1, <5>1
      <4> QED  BY <4>1, <4>2
    <3>4. w[n] = v[i]
      BY <1>1, <3>1
    <3>5. b[i] = ParseCell(fields, b[i - 1], v[i])
      BY <1>3, <3>1 DEF Turns
    <3> HIDE DEF c, i
    <3> QED  BY <3>2, <3>3, <3>4, <3>5
  <2> QED  BY <1>1, <2>1, <2>2
<1>6. c[Len(w)] = b[Len(v)]
  <2>1. CASE Len(v) = 0
    BY <1>1, <1>2, <1>3, <2>1 DEF Turns
  <2>2. CASE Len(v) # 0
    BY <1>1, <2>2
  <2> QED  BY <2>1, <2>2
<1> HIDE DEF c
<1>7. Turns(fields, st, w, c)
  BY <1>4, <1>5 DEF Turns
<1>8. Len(w) \in Nat
  BY <1>1
<1>9. Run(fields, st, w) = c[Len(w)]
  BY <1>7, <1>8, RunIs, Zenon
<1> QED  BY <1>3, <1>6, <1>9 DEF w, mid

\* A loop that is over stays where it is.
LEMMA RunOver ==
    ASSUME NEW fields, NEW st, st.over, NEW w, Len(w) \in Nat
    PROVE  Run(fields, st, w) = st
<1> DEFINE a == [n \in 0 .. Len(w) |-> st]
<1>1. \A cell : ParseCell(fields, st, cell) = st
  BY DEF ParseCell
<1>2. Turns(fields, st, w, a)
  BY <1>1 DEF Turns
<1>3. a[Len(w)] = st
  OBVIOUS
<1> HIDE DEF a
<1> QED  BY <1>2, <1>3, RunIs

\* One cell, and two.
LEMMA RunOne ==
    ASSUME NEW fields, NEW st, NEW w, Len(w) = 1
    PROVE  Run(fields, st, w) = ParseCell(fields, st, w[1])
<1> DEFINE a == [n \in 0 .. 1 |-> IF n = 0 THEN st ELSE ParseCell(fields, st, w[1])]
<1>1. a[0] = st /\ a[1] = ParseCell(fields, st, w[1])
  OBVIOUS
<1>2. \A n \in 1 .. 1 : n = 1 /\ n - 1 = 0
  OBVIOUS
<1> HIDE DEF a
<1>3. Turns(fields, st, w, a)
  BY <1>1, <1>2 DEF Turns
<1>4. Len(w) \in Nat
  OBVIOUS
<1>5. Run(fields, st, w) = a[Len(w)]
  BY <1>3, <1>4, RunIs
<1> QED  BY <1>1, <1>5

\* A payload is read behind its tag.
LEMMA RunTwo ==
    ASSUME NEW fields, NEW st, NEW w, Len(w) = 2
    PROVE  Run(fields, st, w) = ParseCell(fields, ParseCell(fields, st, w[1]), w[2])
<1> DEFINE s1 == ParseCell(fields, st, w[1])
           s2 == ParseCell(fields, s1, w[2])
           a == [n \in 0 .. 2 |-> IF n = 0 THEN st ELSE IF n = 1 THEN s1 ELSE s2]
<1>1. a[0] = st /\ a[1] = s1 /\ a[2] = s2
  OBVIOUS
<1>2. \A n \in 1 .. 2 : (n = 1 /\ n - 1 = 0) \/ (n = 2 /\ n - 1 = 1)
  OBVIOUS
<1> HIDE DEF a
<1>3. Turns(fields, st, w, a)
  BY <1>1, <1>2 DEF Turns
<1>4. Len(w) \in Nat
  OBVIOUS
<1>5. Run(fields, st, w) = a[Len(w)]
  BY <1>3, <1>4, RunIs
<1> QED  BY <1>1, <1>5

-----------------------------------------------------------------------------
(* Messages of a class.                                                    *)

\* What the two lists of fields have in common.
Schema(fields) ==
    /\ DOMAIN fields = 1 .. 4
    /\ \A i \in 1 .. 4 :
        /\ fields[i].name # "unknown"
        /\ fields[i].wire \in {"len", "varint"}
        /\ fields[i].utf8 \in BOOLEAN
        /\ fields[i].utf8 => fields[i].default # BadUtf8
        /\ fields[i].default \in Values(fields[i])
    /\ \A i, j \in 1 .. 4 : fields[i].name = fields[j].name => i = j

WireCells == {Tag(num, type) : num \in Nat, type \in {"len", "varint", "end"}}
             \cup {Payload(v) : v \in Strings \cup Codes}

Names(fields) == {fields[i].name : i \in 1 .. 4} \cup {"unknown"}

Shaped(fields, m) ==
    /\ m = [name \in Names(fields) |-> m[name]]
    /\ m.unknown \in Seq(WireCells)

\* Cells that a parser of this class keeps as they are, whatever it has.
Kept(fields, u) ==
    /\ u \in Seq(WireCells)
    /\ \A m : Shaped(fields, m) =>
            Run(fields, Reading(m), u) = Reading([m EXCEPT !.unknown = @ \o u])

Typed(fields, m) ==
    /\ Shaped(fields, m)
    /\ \A i \in 1 .. 4 : m[fields[i].name] \in Values(fields[i])
    /\ Kept(fields, m.unknown)

\* The two classes.
LEMMA Schemas == Schema(RequestFields) /\ Schema(ResponseFields)
<1>1. /\ RequestFields[1] = Str("service_name") /\ RequestFields[2] = Str("method_name")
      /\ RequestFields[3] = Str("request_id") /\ RequestFields[4] = Byt("body")
      /\ DOMAIN RequestFields = 1 .. 4
  BY DEF RequestFields
<1>2. /\ ResponseFields[1] = Str("request_id") /\ ResponseFields[2] = Varint("code")
      /\ ResponseFields[3] = Str("msg") /\ ResponseFields[4] = Byt("body")
      /\ DOMAIN ResponseFields = 1 .. 4
  BY DEF ResponseFields
<1>3. \A i \in 1 .. 4 : i = 1 \/ i = 2 \/ i = 3 \/ i = 4
  OBVIOUS
<1>4. Schema(RequestFields)
  <2> DEFINE F == RequestFields
  <2>1. \A i \in 1 .. 4 : F[i].name # "unknown" /\ F[i].wire \in {"len", "varint"}
    BY <1>1, <1>3 DEF Str, Byt
  <2>2. \A i \in 1 .. 4 : F[i].utf8 \in BOOLEAN
    <3>1. F[1].utf8 = TRUE /\ F[2].utf8 = TRUE /\ F[3].utf8 = TRUE /\ F[4].utf8 = FALSE
      BY <1>1 DEF Str, Byt
    <3> HIDE DEF F
    <3> QED  BY <1>3, <3>1
  <2>3. \A i \in 1 .. 4 : F[i].default = Empty /\ F[i].wire = "len"
    BY <1>1, <1>3 DEF Str, Byt
  <2>4. \A i, j \in 1 .. 4 : F[i].name = F[j].name => i = j
    <3>1. /\ F[1].name = "service_name" /\ F[2].name = "method_name"
          /\ F[3].name = "request_id" /\ F[4].name = "body"
      BY <1>1 DEF Str, Byt
    <3> QED  BY <1>3, <3>1
  <2> QED  BY <1>1, <2>1, <2>2, <2>3, <2>4, MessageAssumption DEF Schema, Values
<1>5. Schema(ResponseFields)
  <2> DEFINE F == ResponseFields
  <2>1. \A i \in 1 .. 4 : F[i].name # "unknown" /\ F[i].wire \in {"len", "varint"}
    BY <1>2, <1>3 DEF Str, Byt, Varint
  <2>2. \A i \in 1 .. 4 : F[i].utf8 \in BOOLEAN
    <3>1. F[1].utf8 = TRUE /\ F[2].utf8 = FALSE /\ F[3].utf8 = TRUE /\ F[4].utf8 = FALSE
      BY <1>2 DEF Str, Byt, Varint
    <3> HIDE DEF F
    <3> QED  BY <1>3, <3>1
  <2>3. \A i \in 1 .. 4 : \/ F[i].default = Empty /\ F[i].wire = "len"
                          \/ F[i].default = 0 /\ F[i].wire = "varint" /\ F[i].utf8 = FALSE
    BY <1>2, <1>3 DEF Str, Byt, Varint
  <2>4. \A i, j \in 1 .. 4 : F[i].name = F[j].name => i = j
    <3>1. /\ F[1].name = "request_id" /\ F[2].name = "code"
          /\ F[3].name = "msg" /\ F[4].name = "body"
      BY <1>2 DEF Str, Byt, Varint
    <3> QED  BY <1>3, <3>1
  <2> QED  BY <1>2, <2>1, <2>2, <2>3, <2>4, MessageAssumption DEF Schema, Values
<1> QED  BY <1>4, <1>5

\* The names of a schema.
LEMMA NamesOf ==
    ASSUME NEW fields, Schema(fields), NEW m, Shaped(fields, m)
    PROVE  /\ DOMAIN m = Names(fields)
           /\ "unknown" \in DOMAIN m
           /\ \A i \in 1 .. 4 : fields[i].name \in DOMAIN m
           /\ m["unknown"] = m.unknown
BY DEF Schema, Shaped, Names

\* Cells are appended to what a message keeps.
LEMMA KeepsMore ==
    ASSUME NEW fields, Schema(fields), NEW m, Shaped(fields, m), NEW u \in Seq(WireCells)
    PROVE  /\ Shaped(fields, [m EXCEPT !.unknown = @ \o u])
           /\ [m EXCEPT !.unknown = @ \o u].unknown = m.unknown \o u
           /\ \A n \in Names(fields) : n # "unknown" => [m EXCEPT !.unknown = @ \o u][n] = m[n]
<1>1. "unknown" \in DOMAIN m /\ DOMAIN m = Names(fields)
  BY NamesOf
<1>2. m.unknown \o u \in Seq(WireCells)
  BY DEF Shaped
<1> QED  BY <1>1, <1>2 DEF Shaped

\* Nothing is kept, and kept cells one after the other.
LEMMA KeptNothing ==
    ASSUME NEW fields, Schema(fields)
    PROVE  Kept(fields, <<>>)
<1>1. <<>> \in Seq(WireCells)
  OBVIOUS
<1>2. ASSUME NEW m, Shaped(fields, m) PROVE [m EXCEPT !.unknown = @ \o <<>>] = m
  <2>1. m.unknown \o <<>> = m.unknown
    BY <1>2, ConcatEmptySeq DEF Shaped
  <2> QED  BY <1>2, <2>1, NamesOf DEF Shaped
<1> QED  BY <1>1, <1>2, RunNothing DEF Kept

LEMMA WireAssociative ==
    ASSUME NEW a \in Seq(WireCells), NEW b \in Seq(WireCells), NEW c \in Seq(WireCells)
    PROVE  (a \o b) \o c = a \o (b \o c)
<1> DEFINE S == WireCells
<1>1. a \in Seq(S) /\ b \in Seq(S) /\ c \in Seq(S)
  OBVIOUS
<1> HIDE DEF S
<1> QED  BY <1>1, ConcatAssociative

\* What two parses keep can be kept by one.
LEMMA KeptConcat ==
    ASSUME NEW fields, Schema(fields), NEW u, Kept(fields, u), NEW v, Kept(fields, v)
    PROVE  Kept(fields, u \o v)
<1>1. u \in Seq(WireCells) /\ v \in Seq(WireCells) /\ u \o v \in Seq(WireCells)
  BY DEF Kept
<1>2. ASSUME NEW m, Shaped(fields, m)
      PROVE  Run(fields, Reading(m), u \o v) = Reading([m EXCEPT !.unknown = @ \o (u \o v)])
  <2> DEFINE m1 == [m EXCEPT !.unknown = @ \o u]
  <2>1. Shaped(fields, m1) /\ m1.unknown = m.unknown \o u
    BY <1>1, <1>2, KeepsMore
  <2>2. Run(fields, Reading(m), u) = Reading(m1)
    BY <1>2 DEF Kept
  <2>3. Run(fields, Reading(m1), v) = Reading([m1 EXCEPT !.unknown = @ \o v])
    <3> HIDE DEF m1
    <3> QED  BY <2>1 DEF Kept
  <2>4. [m1 EXCEPT !.unknown = @ \o v] = [m EXCEPT !.unknown = @ \o (u \o v)]
    <3>1. (m.unknown \o u) \o v = m.unknown \o (u \o v)
      <4>1. m.unknown \in Seq(WireCells)
        BY <1>2 DEF Shaped
      <4> QED  BY <1>1, <4>1, WireAssociative, Zenon
    <3> QED  BY <1>2, <3>1, NamesOf
  <2>5. Run(fields, Reading(m), u \o v) = Run(fields, Run(fields, Reading(m), u), v)
    BY <1>1, RunConcat
  <2> QED  BY <2>2, <2>3, <2>4, <2>5
<1> QED  BY <1>1, <1>2 DEF Kept

\* A tag that is not known, with its payload.
LEMMA KeptField ==
    ASSUME NEW fields, Schema(fields), NEW num \in Nat, NEW type \in {"len", "varint"},
           ~Known(fields, Tag(num, type)), NEW v \in Strings \cup Codes
    PROVE  Kept(fields, <<Tag(num, type), Payload(v)>>)
<1> DEFINE t == Tag(num, type)
           p == Payload(v)
<1>1. /\ t \in WireCells /\ p \in WireCells
      /\ t.kind = "tag" /\ t.type # "end" /\ p.kind # "tag" /\ p.val = v
  BY DEF WireCells, Tag, Payload
<1>2. <<t, p>> \in Seq(WireCells)
  BY <1>1
<1>3. ~Known(fields, t)
  OBVIOUS
<1> HIDE DEF t
<1>4. ASSUME NEW m, Shaped(fields, m)
      PROVE  Run(fields, Reading(m), <<t, p>>) = Reading([m EXCEPT !.unknown = @ \o <<t, p>>])
  <2> DEFINE mid == [msg |-> m, tag |-> t, over |-> FALSE]
  <2>1. ParseCell(fields, Reading(m), t) = mid
    BY <1>1 DEF ParseCell, Reading, ReadTag
  <2>2. ParseCell(fields, mid, p) = KeepUnknown(mid, v)
    BY <1>1, <1>3 DEF ParseCell
  <2> DEFINE end == Reading([m EXCEPT !.unknown = @ \o <<t, p>>])
  <2>3. KeepUnknown(mid, v) = end
    <3> DEFINE w == m.unknown \o <<t, p>>
               n == [m EXCEPT !.unknown = w]
    <3>1. KeepUnknown(mid, v) = [mid EXCEPT !.msg = n, !.tag = NoTag]
      BY DEF KeepUnknown
    <3>2. end = [msg |-> n, tag |-> NoTag, over |-> FALSE]
      BY DEF Reading
    <3> HIDE DEF n
    <3> QED  BY <3>1, <3>2
  <2> DEFINE w == <<t, p>>
  <2>4. Len(w) = 2 /\ w[1] = t /\ w[2] = p
    OBVIOUS
  <2> HIDE DEF mid, w, end
  <2>5. Run(fields, Reading(m), w) = end
    BY <2>1, <2>2, <2>3, <2>4, RunTwo
  <2> QED  BY <2>5 DEF w, end
<1> QED  BY <1>2, <1>4 DEF Kept, t

-----------------------------------------------------------------------------
(* A message is read.                                                      *)

\* The message `m` when the first `k` fields of `a` have been read into it.
Partly(fields, m, a, k) == [name \in DOMAIN m |->
    IF \E i \in 1 .. k : fields[i].name = name /\ a[name] # fields[i].default
    THEN a[name] ELSE m[name]]

\* What the loop leaves when it meets a string that is not UTF-8.
Spoilt(m) == [msg |-> m, tag |-> NoTag, over |-> TRUE]

Readable(fields, a, k) ==
    \A i \in 1 .. k : fields[i].utf8 => a[fields[i].name] # BadUtf8

\* Cells `w` are the first `k` fields of `a` to whoever reads them into `m`.
ReadsAs(fields, m, a, k, w) ==
    /\ w \in Seq(WireCells)
    /\ Readable(fields, a, k) =>
            Run(fields, Reading(m), w) = Reading(Partly(fields, m, a, k))
    /\ ~Readable(fields, a, k) =>
            \E j \in 1 .. k : Run(fields, Reading(m), w) = Spoilt(Partly(fields, m, a, j))

\* The fields of a message, whatever it keeps.
Filled(fields, a) == \A i \in 1 .. 4 : a[fields[i].name] \in Values(fields[i])

\* A merge that stopped half way leaves a message.
LEMMA PartlyShaped ==
    ASSUME NEW fields, Schema(fields), NEW m, Shaped(fields, m), NEW a, NEW k \in 0 .. 4
    PROVE  /\ Shaped(fields, Partly(fields, m, a, k))
           /\ Partly(fields, m, a, k).unknown = m.unknown
           /\ DOMAIN Partly(fields, m, a, k) = DOMAIN m
           /\ \A i \in 1 .. 4 : Partly(fields, m, a, k)[fields[i].name]
                 = IF i <= k /\ a[fields[i].name] # fields[i].default
                   THEN a[fields[i].name] ELSE m[fields[i].name]
<1> DEFINE p == Partly(fields, m, a, k)
<1>1. /\ DOMAIN m = Names(fields) /\ "unknown" \in DOMAIN m
      /\ \A i \in 1 .. 4 : fields[i].name \in DOMAIN m
  BY NamesOf
<1>2. p.unknown = m.unknown
  BY <1>1 DEF Partly, Schema
<1>3. DOMAIN p = Names(fields) /\ p = [name \in Names(fields) |-> p[name]]
  BY <1>1 DEF Partly
<1>4. ASSUME NEW i \in 1 .. 4
      PROVE  p[fields[i].name] = IF i <= k /\ a[fields[i].name] # fields[i].default
                                 THEN a[fields[i].name] ELSE m[fields[i].name]
  <2> DEFINE n == fields[i].name
  <2>1. n \in DOMAIN m
    BY <1>1
  <2>2. (\E j \in 1 .. k : fields[j].name = n /\ a[n] # fields[j].default)
            <=> (i <= k /\ a[n] # fields[i].default)
    BY DEF Schema
  <2> QED  BY <2>1, <2>2 DEF Partly
<1> QED  BY <1>1, <1>2, <1>3, <1>4 DEF Shaped

\* A field on the wire.
LEMMA EncodedCells ==
    ASSUME NEW fields, Schema(fields), NEW i \in 1 .. 4, NEW v \in Values(fields[i])
    PROVE  /\ Encoded(fields[i], i, v) \in Seq(WireCells)
           /\ v = fields[i].default => Encoded(fields[i], i, v) = <<>>
           /\ v # fields[i].default =>
                /\ Len(Encoded(fields[i], i, v)) = 2
                /\ Encoded(fields[i], i, v)[1] = Tag(i, fields[i].wire)
                /\ Encoded(fields[i], i, v)[2] = Payload(v)
<1>1. Tag(i, fields[i].wire) \in WireCells
  BY DEF Schema, WireCells
<1>2. Payload(v) \in WireCells
  BY DEF Values, WireCells
<1> QED  BY <1>1, <1>2 DEF Encoded

\* One more field.
LEMMA FieldIsRead ==
    ASSUME NEW fields, Schema(fields), NEW m, Shaped(fields, m), NEW a, Filled(fields, a),
           NEW k \in 0 .. 3, NEW w, ReadsAs(fields, m, a, k, w)
    PROVE  ReadsAs(fields, m, a, k + 1,
                   w \o Encoded(fields[k + 1], k + 1, a[fields[k + 1].name]))
<1> DEFINE i == k + 1
           f == fields[i]
           v == a[f.name]
           e == Encoded(f, i, v)
           p == Partly(fields, m, a, k)
           q == Partly(fields, m, a, i)
<1>1. i \in 1 .. 4 /\ k \in 0 .. 4 /\ i \in 0 .. 4 /\ v \in Values(f)
  BY DEF Filled
<1>2. /\ e \in Seq(WireCells)
      /\ v = f.default => e = <<>>
      /\ v # f.default => Len(e) = 2 /\ e[1] = Tag(i, f.wire) /\ e[2] = Payload(v)
  BY <1>1, EncodedCells
<1>3. w \in Seq(WireCells) /\ w \o e \in Seq(WireCells) /\ Len(e) \in Nat
  <2> HIDE DEF e
  <2> QED  BY <1>2 DEF ReadsAs
<1>4. Run(fields, Reading(m), w \o e) = Run(fields, Run(fields, Reading(m), w), e)
  <2> HIDE DEF e
  <2> QED  BY <1>2, <1>3, RunConcat
<1>5. /\ Shaped(fields, p) /\ DOMAIN p = DOMAIN m /\ DOMAIN q = DOMAIN m
      /\ f.name \in DOMAIN m
  BY <1>1, PartlyShaped, NamesOf
<1>6. q = IF v = f.default THEN p ELSE [p EXCEPT ![f.name] = v]
  <2>1. ASSUME NEW name \in DOMAIN m, name # f.name PROVE q[name] = p[name]
    <3>1. \A j \in 1 .. i : fields[j].name = name => j \in 1 .. k
      BY <2>1
    <3>2. \A j \in 1 .. k : j \in 1 .. i
      OBVIOUS
    <3> QED  BY <2>1, <3>1, <3>2 DEF Partly
  <2>2. q[f.name] = IF v # f.default THEN v ELSE m[f.name]
    BY <1>1, PartlyShaped
  <2>3. p[f.name] = m[f.name]
    <3>1. ~(i <= k)
      OBVIOUS
    <3> QED  BY <1>1, <3>1, PartlyShaped
  <2>4. q = [name \in DOMAIN m |-> q[name]] /\ p = [name \in DOMAIN m |-> p[name]]
    BY DEF Partly
  <2> HIDE DEF p, q, v, f
  <2> QED  BY <1>5, <2>1, <2>2, <2>3, <2>4
<1>7. Readable(fields, a, i) <=> Readable(fields, a, k) /\ (f.utf8 => v # BadUtf8)
  BY DEF Readable
<1>8. CASE ~Readable(fields, a, k)
  <2>1. PICK j \in 1 .. k : Run(fields, Reading(m), w) = Spoilt(Partly(fields, m, a, j))
    BY <1>8 DEF ReadsAs
  <2>2. Run(fields, Spoilt(Partly(fields, m, a, j)), e) = Spoilt(Partly(fields, m, a, j))
    <3>1. Spoilt(Partly(fields, m, a, j)).over
      BY DEF Spoilt
    <3> HIDE DEF e
    <3> QED  BY <1>3, <3>1, RunOver
  <2>3. j \in 1 .. i
    OBVIOUS
  <2> QED  BY <1>3, <1>4, <1>7, <1>8, <2>1, <2>2, <2>3 DEF ReadsAs
<1>9. CASE Readable(fields, a, k)
  <2>1. Run(fields, Reading(m), w \o e) = Run(fields, Reading(p), e)
    BY <1>4, <1>9 DEF ReadsAs
  <2>2. CASE v = f.default
    <3>1. Run(fields, Reading(m), w \o e) = Reading(q)
      BY <1>2, <1>6, <2>1, <2>2, RunNothing
    <3>2. f.utf8 => v # BadUtf8
      BY <1>1, <2>2 DEF Schema
    <3> QED  BY <1>3, <1>7, <1>9, <3>1, <3>2 DEF ReadsAs
  <2>3. CASE v # f.default
    <3> DEFINE t == Tag(i, f.wire)
               mid == [msg |-> p, tag |-> t, over |-> FALSE]
    <3>1. Run(fields, Reading(p), e) = ParseCell(fields, ParseCell(fields, Reading(p), t), Payload(v))
      <4> HIDE DEF e, t, p, v
      <4> QED  BY <1>2, <2>3, RunTwo DEF t
    <3>2. t.kind = "tag" /\ t.type # "end" /\ t.num = i /\ t.type = f.wire
      BY <1>1 DEF Tag, Schema
    <3>3. ParseCell(fields, Reading(p), t) = mid
      <4> HIDE DEF p, t
      <4> QED  BY <3>2 DEF ParseCell, Reading, ReadTag
    <3>4. Known(fields, t)
      BY <1>1, <3>2 DEF Known, Schema
    <3>5. ParseCell(fields, mid, Payload(v)) = ReadField(fields, mid, v)
      <4> HIDE DEF p, t, v
      <4> QED  BY <3>4 DEF ParseCell, Payload
    <3>6. ReadField(fields, mid, v)
            = [msg |-> q, tag |-> NoTag, over |-> (f.utf8 /\ v = BadUtf8)]
      <4>1. q = [p EXCEPT ![f.name] = v]
        BY <1>6, <2>3
      <4>2. fields[mid.tag.num] = f
        BY <3>2
      <4> DEFINE bad == f.utf8 /\ v = BadUtf8
      <4>3. ReadField(fields, mid, v) = [mid EXCEPT !.msg = q, !.tag = NoTag, !.over = bad]
        <5> HIDE DEF p, t, v, q, f
        <5> QED  BY <4>1, <4>2 DEF ReadField
      <4> HIDE DEF p, t, q, bad
      <4>4. ReadField(fields, mid, v) = [msg |-> q, tag |-> NoTag, over |-> bad]
        BY <4>3
      <4> QED  BY <4>4 DEF bad
    <3>7. Run(fields, Reading(m), w \o e)
            = [msg |-> q, tag |-> NoTag, over |-> (f.utf8 /\ v = BadUtf8)]
      <4> HIDE DEF mid
      <4> QED  BY <2>1, <3>1, <3>3, <3>5, <3>6
    <3>8. CASE f.utf8 => v # BadUtf8
      <4>1. (f.utf8 /\ v = BadUtf8) = FALSE
        BY <3>8
      <4>2. Run(fields, Reading(m), w \o e) = Reading(q)
        BY <3>7, <4>1 DEF Reading
      <4> QED  BY <1>3, <1>7, <1>9, <3>8, <4>2 DEF ReadsAs
    <3>9. CASE ~(f.utf8 => v # BadUtf8)
      <4>1. (f.utf8 /\ v = BadUtf8) = TRUE
        BY <3>9
      <4>2. Run(fields, Reading(m), w \o e) = Spoilt(q)
        BY <3>7, <4>1 DEF Spoilt
      <4>3. i \in 1 .. i
        OBVIOUS
      <4> QED  BY <1>3, <1>7, <3>9, <4>2, <4>3 DEF ReadsAs
    <3> QED  BY <3>8, <3>9
  <2> QED  BY <2>2, <2>3
<1> QED  BY <1>8, <1>9

-----------------------------------------------------------------------------
(* Whole messages.                                                         *)

\* The cells of a message, without what it keeps.
FieldCells(fields, a) ==
    LET Field(num) == Encoded(fields[num], num, a[fields[num].name])
    IN  Field(1) \o Field(2) \o Field(3) \o Field(4)

\* The cells of all fields are read one field after the other.
LEMMA FieldCellsRead ==
    ASSUME NEW fields, Schema(fields), NEW m, Shaped(fields, m), NEW a, Filled(fields, a)
    PROVE  ReadsAs(fields, m, a, 4, FieldCells(fields, a))
<1> DEFINE E(i) == Encoded(fields[i], i, a[fields[i].name])
<1>1. ReadsAs(fields, m, a, 0, <<>>)
  <2>1. Partly(fields, m, a, 0) = m
    <3>1. \A name \in DOMAIN m : Partly(fields, m, a, 0)[name] = m[name]
      BY DEF Partly
    <3>2. m = [name \in DOMAIN m |-> m[name]]
      BY NamesOf DEF Shaped
    <3> QED  BY <3>1, <3>2 DEF Partly
  <2>2. Readable(fields, a, 0)
    BY DEF Readable
  <2>3. <<>> \in Seq(WireCells)
    OBVIOUS
  <2> QED  BY <2>1, <2>2, <2>3, RunNothing DEF ReadsAs
<1>2. \A i \in 1 .. 4 : E(i) \in Seq(WireCells)
  BY EncodedCells DEF Filled
<1>3. ReadsAs(fields, m, a, 1, <<>> \o E(1))
  <2>1. ASSUME NEW w, ReadsAs(fields, m, a, 0, w) PROVE ReadsAs(fields, m, a, 0 + 1, w \o E(0 + 1))
    <3>1. 0 \in 0 .. 3
      OBVIOUS
    <3> QED  BY <2>1, <3>1, FieldIsRead, Zenon
  <2>2. ReadsAs(fields, m, a, 0 + 1, <<>> \o E(0 + 1))
    BY <1>1, <2>1, Zenon
  <2> QED  BY <2>2
<1>4. <<>> \o E(1) = E(1)
  <2> HIDE DEF E
  <2> QED  BY <1>2, ConcatEmptySeq
<1>5. ReadsAs(fields, m, a, 1, E(1))
  BY <1>3, <1>4
<1>6. ReadsAs(fields, m, a, 2, E(1) \o E(2))
  BY <1>5, FieldIsRead
<1>7. ReadsAs(fields, m, a, 3, (E(1) \o E(2)) \o E(3))
  BY <1>6, FieldIsRead
<1>8. ReadsAs(fields, m, a, 4, ((E(1) \o E(2)) \o E(3)) \o E(4))
  BY <1>7, FieldIsRead
<1> QED  BY <1>8 DEF FieldCells

\* Merging is reading all the fields and keeping what the other keeps.
LEMMA MergedIs ==
    ASSUME NEW fields, Schema(fields), NEW m, Typed(fields, m), NEW a, Typed(fields, a)
    PROVE  /\ Merged(fields, m, a) = [Partly(fields, m, a, 4) EXCEPT !.unknown = @ \o a.unknown]
           /\ Typed(fields, Merged(fields, m, a))
<1> DEFINE p == Partly(fields, m, a, 4)
           r == Merged(fields, m, a)
<1>1. /\ Shaped(fields, m) /\ Shaped(fields, a) /\ Filled(fields, m) /\ Filled(fields, a)
      /\ Kept(fields, m.unknown) /\ Kept(fields, a.unknown)
      /\ m.unknown \in Seq(WireCells) /\ a.unknown \in Seq(WireCells)
  BY DEF Typed, Shaped, Filled
<1>2. /\ DOMAIN m = Names(fields) /\ "unknown" \in DOMAIN m
      /\ \A i \in 1 .. 4 : fields[i].name \in DOMAIN m
  BY <1>1, NamesOf
<1>3. /\ Shaped(fields, p) /\ p.unknown = m.unknown /\ DOMAIN p = DOMAIN m
      /\ \A i \in 1 .. 4 : p[fields[i].name]
            = IF i <= 4 /\ a[fields[i].name] # fields[i].default
              THEN a[fields[i].name] ELSE m[fields[i].name]
  BY <1>1, PartlyShaped
<1>4. r["unknown"] = m.unknown \o a.unknown
  BY <1>2 DEF Merged
<1>5. ASSUME NEW i \in 1 .. 4 PROVE r[fields[i].name] = p[fields[i].name]
  <2> DEFINE n == fields[i].name
  <2>1. n \in DOMAIN m /\ n # "unknown"
    BY <1>2 DEF Schema
  <2>2. Untouched(fields, a, n) <=> a[n] = fields[i].default
    BY DEF Untouched, Schema
  <2>3. r[n] = IF Untouched(fields, a, n) THEN m[n] ELSE a[n]
    BY <2>1 DEF Merged
  <2> QED  BY <1>3, <2>2, <2>3
<1>6. r = [p EXCEPT !.unknown = @ \o a.unknown]
  <2> DEFINE q == [p EXCEPT !.unknown = @ \o a.unknown]
  <2>1. /\ q = [name \in DOMAIN m |-> q[name]] /\ q["unknown"] = m.unknown \o a.unknown
        /\ \A name \in DOMAIN m : name # "unknown" => q[name] = p[name]
    BY <1>2, <1>3 DEF Shaped
  <2>2. r = [name \in DOMAIN m |-> r[name]]
    BY DEF Merged
  <2>3. \A name \in DOMAIN m : name # "unknown" => \E i \in 1 .. 4 : name = fields[i].name
    BY <1>2 DEF Names
  <2>4. \A name \in DOMAIN m : r[name] = q[name]
    <3> HIDE DEF r, q, p
    <3> QED  BY <1>4, <1>5, <2>1, <2>3
  <2> HIDE DEF r, q
  <2>5. r = q
    BY <2>1, <2>2, <2>4
  <2> QED  BY <2>5 DEF q
<1>7. Typed(fields, r)
  <2>1. Shaped(fields, r) /\ r.unknown = m.unknown \o a.unknown
    <3> DEFINE u == a.unknown
    <3>1. u \in Seq(WireCells) /\ r = [p EXCEPT !.unknown = @ \o u]
      BY <1>1, <1>6
    <3> HIDE DEF p, r, u
    <3>2. Shaped(fields, r) /\ r.unknown = p.unknown \o u
      BY <1>3, <3>1, KeepsMore
    <3> QED  BY <1>3, <3>2 DEF u
  <2>2. \A i \in 1 .. 4 : r[fields[i].name] \in Values(fields[i])
    <3> HIDE DEF p, r
    <3> QED  BY <1>1, <1>3, <1>5 DEF Filled
  <2>3. Kept(fields, r.unknown)
    BY <1>1, <2>1, KeptConcat
  <2> QED  BY <2>1, <2>2, <2>3 DEF Typed
<1> QED  BY <1>6, <1>7

\* A message that is read stays a message, even when the reading fails.
LEMMA PartlyTyped ==
    ASSUME NEW fields, Schema(fields), NEW m, Typed(fields, m), NEW a, Filled(fields, a),
           NEW k \in 0 .. 4
    PROVE  Typed(fields, Partly(fields, m, a, k))
BY PartlyShaped DEF Typed, Filled

\* The parser reads what the serializer wrote: it merges it into what it has,
\* or stops at a string that is not UTF-8.
LEMMA SerializedRead ==
    ASSUME NEW fields, Schema(fields), NEW m, Typed(fields, m), NEW a, Typed(fields, a)
    PROVE  /\ Serialized(fields, a) \in Seq(WireCells)
           /\ Readable(fields, a, 4) =>
                Run(fields, Reading(m), Serialized(fields, a)) = Reading(Merged(fields, m, a))
           /\ ~Readable(fields, a, 4) => \E j \in 1 .. 4 :
                Run(fields, Reading(m), Serialized(fields, a)) = Spoilt(Partly(fields, m, a, j))
<1> DEFINE w == FieldCells(fields, a)
           u == a.unknown
           p == Partly(fields, m, a, 4)
<1>1. Shaped(fields, m) /\ Filled(fields, a) /\ Kept(fields, u) /\ u \in Seq(WireCells)
  BY DEF Typed, Shaped, Filled
<1>2. ReadsAs(fields, m, a, 4, w)
  BY <1>1, FieldCellsRead
<1>3. Serialized(fields, a) = w \o u
  BY DEF Serialized, FieldCells
<1>4. w \in Seq(WireCells) /\ Len(u) \in Nat
  <2> HIDE DEF w
  <2> QED  BY <1>1, <1>2 DEF ReadsAs
<1> HIDE DEF w
<1>5. w \o u \in Seq(WireCells)
  BY <1>1, <1>4
<1>6. Run(fields, Reading(m), w \o u) = Run(fields, Run(fields, Reading(m), w), u)
  BY <1>1, <1>4, RunConcat
<1>7. ASSUME Readable(fields, a, 4)
      PROVE  Run(fields, Reading(m), w \o u) = Reading(Merged(fields, m, a))
  <2>1. Run(fields, Reading(m), w) = Reading(p)
    BY <1>2, <1>7 DEF ReadsAs
  <2>2. Shaped(fields, p)
    BY <1>1, PartlyShaped
  <2>3. Run(fields, Reading(p), u) = Reading([p EXCEPT !.unknown = @ \o u])
    <3> HIDE DEF p, u
    <3> QED  BY <1>1, <2>2 DEF Kept
  <2>4. Merged(fields, m, a) = [p EXCEPT !.unknown = @ \o u]
    BY MergedIs
  <2> QED  BY <1>6, <2>1, <2>3, <2>4
<1>8. ASSUME ~Readable(fields, a, 4)
      PROVE  \E j \in 1 .. 4 : Run(fields, Reading(m), w \o u) = Spoilt(Partly(fields, m, a, j))
  <2>1. PICK j \in 1 .. 4 : Run(fields, Reading(m), w) = Spoilt(Partly(fields, m, a, j))
    BY <1>2, <1>8 DEF ReadsAs
  <2>2. Spoilt(Partly(fields, m, a, j)).over
    BY DEF Spoilt
  <2>3. Run(fields, Spoilt(Partly(fields, m, a, j)), u) = Spoilt(Partly(fields, m, a, j))
    BY <1>4, <2>2, RunOver
  <2> QED  BY <1>6, <2>1, <2>3
<1> QED  BY <1>3, <1>5, <1>7, <1>8

-----------------------------------------------------------------------------
(* What the default instances and the tails are.                           *)

Defaults(fields, d) ==
    /\ Typed(fields, d)
    /\ d.unknown = <<>>
    /\ \A i \in 1 .. 4 : d[fields[i].name] = fields[i].default

\* The default instances are instances, and nothing is set in them.
LEMMA DefaultInstances ==
    Defaults(RequestFields, RequestDefault) /\ Defaults(ResponseFields, ResponseDefault)
<1>1. \A i \in 1 .. 4 : i = 1 \/ i = 2 \/ i = 3 \/ i = 4
  OBVIOUS
<1>2. Defaults(RequestFields, RequestDefault)
  <2> DEFINE F == RequestFields
             d == RequestDefault
  <2>1. /\ F[1].name = "service_name" /\ F[1].default = Empty /\ F[1].wire = "len"
        /\ F[2].name = "method_name" /\ F[2].default = Empty /\ F[2].wire = "len"
        /\ F[3].name = "request_id" /\ F[3].default = Empty /\ F[3].wire = "len"
        /\ F[4].name = "body" /\ F[4].default = Empty /\ F[4].wire = "len"
    BY DEF RequestFields, Str, Byt
  <2> HIDE DEF F
  <2>2. Names(F) = {"service_name", "method_name", "request_id", "body", "unknown"}
    <3>1. {F[i].name : i \in 1 .. 4} = {F[1].name, F[2].name, F[3].name, F[4].name}
      BY <1>1
    <3> QED  BY <2>1, <3>1 DEF Names
  <2>3. d = [name \in Names(F) |-> d[name]] /\ d.unknown = <<>>
    BY <2>2 DEF RequestDefault
  <2>4. \A i \in 1 .. 4 : d[F[i].name] = F[i].default
    BY <1>1, <2>1 DEF RequestDefault
  <2>5. \A i \in 1 .. 4 : F[i].default \in Values(F[i])
    BY Schemas DEF Schema, F
  <2>6. Kept(F, <<>>)
    BY Schemas, KeptNothing DEF F
  <2>7. <<>> \in Seq(WireCells)
    OBVIOUS
  <2> HIDE DEF d
  <2>8. Defaults(F, d)
    BY <2>3, <2>4, <2>5, <2>6, <2>7 DEF Defaults, Typed, Shaped
  <2> QED  BY <2>8 DEF F, d
<1>3. Defaults(ResponseFields, ResponseDefault)
  <2> DEFINE F == ResponseFields
             d == ResponseDefault
  <2>1. /\ F[1].name = "request_id" /\ F[1].default = Empty /\ F[1].wire = "len"
        /\ F[2].name = "code" /\ F[2].default = 0 /\ F[2].wire = "varint"
        /\ F[3].name = "msg" /\ F[3].default = Empty /\ F[3].wire = "len"
        /\ F[4].name = "body" /\ F[4].default = Empty /\ F[4].wire = "len"
    BY DEF ResponseFields, Str, Byt, Varint
  <2> HIDE DEF F
  <2>2. Names(F) = {"request_id", "code", "msg", "body", "unknown"}
    <3>1. {F[i].name : i \in 1 .. 4} = {F[1].name, F[2].name, F[3].name, F[4].name}
      BY <1>1
    <3> QED  BY <2>1, <3>1 DEF Names
  <2>3. d = [name \in Names(F) |-> d[name]] /\ d.unknown = <<>>
    BY <2>2 DEF ResponseDefault
  <2>4. \A i \in 1 .. 4 : d[F[i].name] = F[i].default
    BY <1>1, <2>1 DEF ResponseDefault
  <2>5. \A i \in 1 .. 4 : F[i].default \in Values(F[i])
    BY Schemas DEF Schema, F
  <2>6. Kept(F, <<>>)
    BY Schemas, KeptNothing DEF F
  <2>7. <<>> \in Seq(WireCells)
    OBVIOUS
  <2> HIDE DEF d
  <2>8. Defaults(F, d)
    BY <2>3, <2>4, <2>5, <2>6, <2>7 DEF Defaults, Typed, Shaped
  <2> QED  BY <2>8 DEF F, d
<1> QED  BY <1>2, <1>3

\* A message merged into a default one is itself.
LEMMA MergedIntoDefault ==
    ASSUME NEW fields, Schema(fields), NEW d, Defaults(fields, d), NEW a, Typed(fields, a)
    PROVE  Merged(fields, d, a) = a
<1> DEFINE r == Merged(fields, d, a)
<1>1. Typed(fields, d) /\ Shaped(fields, d) /\ Shaped(fields, a)
  BY DEF Defaults, Typed
<1>2. DOMAIN d = Names(fields) /\ DOMAIN a = Names(fields) /\ "unknown" \in Names(fields)
  BY <1>1, NamesOf
<1>3. r["unknown"] = a["unknown"]
  <2>1. a.unknown \in Seq(WireCells) /\ d.unknown = <<>>
    BY <1>1 DEF Shaped, Defaults
  <2>2. d.unknown \o a.unknown = a.unknown
    BY <2>1, ConcatEmptySeq
  <2> QED  BY <1>2, <2>2 DEF Merged
<1>4. ASSUME NEW i \in 1 .. 4 PROVE r[fields[i].name] = a[fields[i].name]
  <2> DEFINE n == fields[i].name
  <2>1. n \in DOMAIN d /\ n # "unknown"
    BY <1>2 DEF Schema, Names
  <2>2. Untouched(fields, a, n) <=> a[n] = fields[i].default
    BY DEF Untouched, Schema
  <2>3. d[n] = fields[i].default
    BY DEF Defaults
  <2> QED  BY <2>1, <2>2, <2>3 DEF Merged
<1>5. r = [name \in Names(fields) |-> r[name]] /\ a = [name \in Names(fields) |-> a[name]]
  BY <1>1, <1>2 DEF Merged, Shaped
<1>6. \A name \in Names(fields) : r[name] = a[name]
  <2> HIDE DEF r
  <2> QED  BY <1>3, <1>4 DEF Names
<1> HIDE DEF r
<1>7. r = a
  BY <1>5, <1>6
<1> QED  BY <1>7 DEF r

\* A message that keeps more cells is a message.
LEMMA TypedMore ==
    ASSUME NEW fields, Schema(fields), NEW m, Typed(fields, m), NEW u, Kept(fields, u)
    PROVE  Typed(fields, [m EXCEPT !.unknown = @ \o u])
<1> DEFINE r == [m EXCEPT !.unknown = @ \o u]
<1>1. Shaped(fields, m) /\ u \in Seq(WireCells) /\ Kept(fields, m.unknown)
  BY DEF Typed, Kept
<1>2. Shaped(fields, r) /\ r.unknown = m.unknown \o u
  BY <1>1, KeepsMore
<1> HIDE DEF r
<1>3. \A n \in Names(fields) : n # "unknown" => r[n] = m[n]
  <2>1. DOMAIN m = Names(fields)
    BY <1>1, NamesOf
  <2> QED  BY <2>1 DEF r
<1>4. \A i \in 1 .. 4 : fields[i].name \in Names(fields) /\ fields[i].name # "unknown"
  BY DEF Names, Schema
<1>5. Kept(fields, r.unknown)
  BY <1>1, <1>2, KeptConcat
<1>6. Typed(fields, r)
  BY <1>2, <1>3, <1>4, <1>5 DEF Typed
<1> QED  BY <1>6 DEF r

\* A message with another value in a field is a message.
LEMMA TypedSet ==
    ASSUME NEW fields, Schema(fields), NEW m, Typed(fields, m),
           NEW i \in 1 .. 4, NEW v \in Values(fields[i])
    PROVE  Typed(fields, [m EXCEPT ![fields[i].name] = v])
<1> DEFINE n == fields[i].name
           r == [m EXCEPT ![n] = v]
<1>1. Shaped(fields, m) /\ Kept(fields, m.unknown) /\ m.unknown \in Seq(WireCells)
  BY DEF Typed, Shaped
<1>2. DOMAIN m = Names(fields) /\ n \in DOMAIN m /\ n # "unknown" /\ "unknown" \in DOMAIN m
  BY <1>1, NamesOf DEF Schema
<1>3. r = [name \in Names(fields) |-> r[name]]
  BY <1>2
<1>4. r.unknown = m.unknown
  BY <1>2
<1>5. \A j \in 1 .. 4 : r[fields[j].name] \in Values(fields[j])
  <2> SUFFICES ASSUME NEW j \in 1 .. 4 PROVE r[fields[j].name] \in Values(fields[j])
    OBVIOUS
  <2>1. CASE j = i
    BY <1>2, <2>1
  <2>2. CASE j # i
    <3>1. fields[j].name # n
      BY <2>2 DEF Schema
    <3>2. r[fields[j].name] = m[fields[j].name]
      BY <1>1, <3>1, NamesOf
    <3> QED  BY <3>2 DEF Typed
  <2> QED  BY <2>1, <2>2
<1> HIDE DEF r
<1>6. Typed(fields, r)
  BY <1>1, <1>3, <1>4, <1>5 DEF Typed, Shaped
<1> QED  BY <1>6 DEF r

\* Whatever follows a message, what the parser makes of it is a message.
LEMMA TailRead ==
    ASSUME NEW fields, Schema(fields), fields[1].wire = "len", fields[4].wire = "len",
           NEW p, Typed(fields, p), NEW t \in Tails
    PROVE  t \in Seq(WireCells) /\ Typed(fields, Run(fields, Reading(p), t).msg)
<1>0. /\ Empty \in Strings /\ BadUtf8 \in Strings /\ 0 \in Codes
      /\ \A v \in Strings \cup Codes : Payload(v) \in WireCells
      /\ \A n \in Nat, type \in {"len", "varint", "end"} : Tag(n, type) \in WireCells
  BY MessageAssumption DEF WireCells
<1>1. CASE t = <<>>
  <2>1. Run(fields, Reading(p), t).msg = p
    BY <1>1, RunNothing DEF Reading
  <2> QED  BY <1>1, <2>1
<1>2. CASE t = <<Tag(9, "len"), Payload(BadUtf8)>>
  <2>1. ~Known(fields, Tag(9, "len"))
    BY DEF Known, Tag, Schema
  <2>2. Kept(fields, t)
    BY <1>0, <1>2, <2>1, KeptField
  <2> DEFINE q == [p EXCEPT !.unknown = @ \o t]
  <2>3. Run(fields, Reading(p), t) = Reading(q)
    BY <2>2 DEF Kept, Typed
  <2>4. Typed(fields, q) /\ t \in Seq(WireCells)
    BY <2>2, TypedMore DEF Kept
  <2> HIDE DEF q
  <2>5. Reading(q).msg = q
    BY DEF Reading
  <2> QED  BY <2>3, <2>4, <2>5
<1>3. CASE t = <<Tag(4, "varint"), Payload(0)>>
  <2>1. ~Known(fields, Tag(4, "varint"))
    BY DEF Known, Tag, Schema
  <2>2. Kept(fields, t)
    BY <1>0, <1>3, <2>1, KeptField
  <2> DEFINE q == [p EXCEPT !.unknown = @ \o t]
  <2>3. Run(fields, Reading(p), t) = Reading(q)
    BY <2>2 DEF Kept, Typed
  <2>4. Typed(fields, q) /\ t \in Seq(WireCells)
    BY <2>2, TypedMore DEF Kept
  <2> HIDE DEF q
  <2>5. Reading(q).msg = q
    BY DEF Reading
  <2> QED  BY <2>3, <2>4, <2>5
<1>4. CASE t = <<Tag(1, "len"), Payload(Empty)>>
  <2> DEFINE c == Tag(1, "len")
             mid == [msg |-> p, tag |-> c, over |-> FALSE]
             r == [p EXCEPT ![fields[1].name] = Empty]
  <2>1. Len(t) = 2 /\ t[1] = c /\ t[2] = Payload(Empty) /\ t \in Seq(WireCells)
    BY <1>0, <1>4
  <2>2. Run(fields, Reading(p), t) = ParseCell(fields, ParseCell(fields, Reading(p), c), Payload(Empty))
    <3> HIDE DEF c
    <3> QED  BY <2>1, RunTwo
  <2>3. c.kind = "tag" /\ c.type = "len" /\ c.num = 1
    BY DEF Tag
  <2>4. ParseCell(fields, Reading(p), c) = mid
    <3> HIDE DEF c
    <3> QED  BY <2>3 DEF ParseCell, Reading, ReadTag
  <2>5. Known(fields, c)
    BY <2>3 DEF Known, Schema
  <2>6. ParseCell(fields, mid, Payload(Empty)) = ReadField(fields, mid, Empty)
    <3> HIDE DEF c
    <3> QED  BY <2>5 DEF ParseCell, Payload
  <2>7. ReadField(fields, mid, Empty).msg = r
    BY <2>3 DEF ReadField
  <2>8. Typed(fields, r)
    <3>1. 1 \in 1 .. 4 /\ Empty \in Values(fields[1])
      BY <1>0 DEF Values
    <3> QED  BY <3>1, TypedSet
  <2>9. Run(fields, Reading(p), t).msg = r
    <3> HIDE DEF c, mid, r
    <3> QED  BY <2>2, <2>4, <2>6, <2>7
  <2> HIDE DEF r, c, mid
  <2> QED  BY <2>1, <2>8, <2>9
<1>5. CASE t = <<EndGroup>> \/ t = <<Tag(1, "len")>>
  <2>1. Len(t) = 1 /\ t \in Seq(WireCells) /\ t[1].kind = "tag"
    <3>1. EndGroup \in WireCells /\ EndGroup.kind = "tag"
      BY <1>0 DEF EndGroup, Tag
    <3>2. Tag(1, "len") \in WireCells /\ Tag(1, "len").kind = "tag"
      BY <1>0 DEF Tag
    <3>3. PICK c \in WireCells : c.kind = "tag" /\ t = <<c>>
      BY <1>5, <3>1, <3>2
    <3> QED  BY <3>3
  <2>2. Run(fields, Reading(p), t) = ParseCell(fields, Reading(p), t[1])
    BY <2>1, RunOne
  <2>3. ParseCell(fields, Reading(p), t[1]).msg = p
    BY <2>1 DEF ParseCell, Reading, ReadTag
  <2> QED  BY <2>1, <2>2, <2>3
<1> QED  BY <1>1, <1>2, <1>3, <1>4, <1>5 DEF Tails

\* What a message becomes when another is read into it, with a tail.
LEMMA ParsedTyped ==
    ASSUME NEW fields, Schema(fields), fields[1].wire = "len", fields[4].wire = "len",
           NEW m, Typed(fields, m), NEW a, Typed(fields, a), NEW t \in Tails
    PROVE  Typed(fields, Run(fields, Reading(m), Serialized(fields, a) \o t).msg)
<1> DEFINE w == Serialized(fields, a)
<1>1. /\ w \in Seq(WireCells)
      /\ Readable(fields, a, 4) =>
            Run(fields, Reading(m), w) = Reading(Merged(fields, m, a))
      /\ ~Readable(fields, a, 4) => \E j \in 1 .. 4 :
            Run(fields, Reading(m), w) = Spoilt(Partly(fields, m, a, j))
  BY SerializedRead
<1>2. t \in Seq(WireCells)
  <2>1. Typed(fields, m)
    OBVIOUS
  <2> QED  BY <2>1, TailRead
<1>3. Run(fields, Reading(m), w \o t) = Run(fields, Run(fields, Reading(m), w), t)
  <2> HIDE DEF w
  <2> QED  BY <1>1, <1>2, RunConcat
<1>4. CASE Readable(fields, a, 4)
  <2>1. Run(fields, Reading(m), w \o t) = Run(fields, Reading(Merged(fields, m, a)), t)
    BY <1>1, <1>3, <1>4
  <2>2. Typed(fields, Merged(fields, m, a))
    BY MergedIs
  <2> QED  BY <2>1, <2>2, TailRead
<1>5. CASE ~Readable(fields, a, 4)
  <2>1. PICK j \in 1 .. 4 : Run(fields, Reading(m), w) = Spoilt(Partly(fields, m, a, j))
    BY <1>1, <1>5
  <2> DEFINE st == Spoilt(Partly(fields, m, a, j))
  <2>2. st.over /\ st.msg = Partly(fields, m, a, j) /\ Len(t) \in Nat
    BY <1>2 DEF Spoilt
  <2>3. Typed(fields, st.msg)
    <3>1. j \in 0 .. 4 /\ Filled(fields, a)
      BY DEF Typed, Filled
    <3> QED  BY <2>2, <3>1, PartlyTyped
  <2> HIDE DEF st
  <2>4. Run(fields, st, t) = st
    BY <2>2, RunOver
  <2> QED  BY <1>3, <2>1, <2>3, <2>4 DEF st
<1> QED  BY <1>4, <1>5

-----------------------------------------------------------------------------
(* ByteSizeLong.                                                           *)

\* A member counts for one.
LEMMA CountOne ==
    ASSUME NEW A, IsFiniteSet(A), NEW x, x \notin A, NEW D
    PROVE  /\ IsFiniteSet(A \cup (IF x \in D THEN {x} ELSE {}))
           /\ Cardinality(A \cup (IF x \in D THEN {x} ELSE {}))
                = Cardinality(A) + (IF x \in D THEN 1 ELSE 0)
<1>1. IsFiniteSet(A \cup {x}) /\ Cardinality(A \cup {x}) = Cardinality(A) + 1
  BY FS_AddElement
<1>2. A \cup {} = A /\ Cardinality(A) \in Nat
  BY FS_CardinalityType
<1> QED  BY <1>1, <1>2

\* The members of a set of field numbers, counted.
LEMMA CountFour ==
    ASSUME NEW D \in SUBSET (1 .. 4)
    PROVE  Cardinality(D) = (IF 1 \in D THEN 1 ELSE 0) + (IF 2 \in D THEN 1 ELSE 0)
                            + (IF 3 \in D THEN 1 ELSE 0) + (IF 4 \in D THEN 1 ELSE 0)
<1> DEFINE One(x) == IF x \in D THEN {x} ELSE {}
           A1 == {} \cup One(1)
           A2 == A1 \cup One(2)
           A3 == A2 \cup One(3)
           A4 == A3 \cup One(4)
<1>1. 1 \notin {} /\ 2 \notin A1 /\ 3 \notin A2 /\ 4 \notin A3
  OBVIOUS
<1>2. A4 = D
  <2>1. \A x : /\ x \in One(1) <=> x = 1 /\ 1 \in D
               /\ x \in One(2) <=> x = 2 /\ 2 \in D
               /\ x \in One(3) <=> x = 3 /\ 3 \in D
               /\ x \in One(4) <=> x = 4 /\ 4 \in D
    OBVIOUS
  <2>2. \A x \in D : x = 1 \/ x = 2 \/ x = 3 \/ x = 4
    OBVIOUS
  <2> HIDE DEF One
  <2>3. \A x : x \in A4 <=> x \in D
    BY <2>1, <2>2
  <2> HIDE DEF A4
  <2> QED  BY <2>3
<1>3. IsFiniteSet(A1) /\ Cardinality(A1) = (IF 1 \in D THEN 1 ELSE 0)
  BY <1>1, FS_EmptySet, CountOne
<1>4. IsFiniteSet(A2) /\ Cardinality(A2) = Cardinality(A1) + (IF 2 \in D THEN 1 ELSE 0)
  <2> HIDE DEF A1
  <2> QED  BY <1>1, <1>3, CountOne
<1>5. IsFiniteSet(A3) /\ Cardinality(A3) = Cardinality(A2) + (IF 3 \in D THEN 1 ELSE 0)
  <2> HIDE DEF A2
  <2> QED  BY <1>1, <1>4, CountOne
<1>6. IsFiniteSet(A4) /\ Cardinality(A4) = Cardinality(A3) + (IF 4 \in D THEN 1 ELSE 0)
  <2> HIDE DEF A3
  <2> QED  BY <1>1, <1>5, CountOne
<1> HIDE DEF A1, A2, A3, A4
<1> QED  BY <1>2, <1>3, <1>4, <1>5, <1>6

\* A message is as long as its fields and what it keeps.
LEMMA SizeIs ==
    ASSUME NEW fields, Schema(fields), NEW a, Typed(fields, a)
    PROVE  Len(Serialized(fields, a))
             = 2 * Cardinality({num \in 1 .. 4 : a[fields[num].name] # fields[num].default})
               + Len(a.unknown)
<1> DEFINE E(i) == Encoded(fields[i], i, a[fields[i].name])
           D == {num \in 1 .. 4 : a[fields[num].name] # fields[num].default}
           u == a.unknown
<1>1. \A i \in 1 .. 4 : E(i) \in Seq(WireCells) /\ Len(E(i)) = IF i \in D THEN 2 ELSE 0
  <2> SUFFICES ASSUME NEW i \in 1 .. 4
               PROVE  E(i) \in Seq(WireCells) /\ Len(E(i)) = IF i \in D THEN 2 ELSE 0
    OBVIOUS
  <2> DEFINE v == a[fields[i].name]
  <2>1. v \in Values(fields[i])
    BY DEF Typed
  <2>2. /\ E(i) \in Seq(WireCells)
        /\ v = fields[i].default => E(i) = <<>>
        /\ v # fields[i].default => Len(E(i)) = 2
    BY <2>1, EncodedCells
  <2>3. i \in D <=> v # fields[i].default
    OBVIOUS
  <2>4. Len(<<>>) = 0
    OBVIOUS
  <2> HIDE DEF E, v, D
  <2> QED  BY <2>2, <2>3, <2>4
<1>2. u \in Seq(WireCells)
  BY DEF Typed, Shaped
<1>3. Serialized(fields, a) = E(1) \o E(2) \o E(3) \o E(4) \o u
  BY DEF Serialized
<1>4. Cardinality(D) = (IF 1 \in D THEN 1 ELSE 0) + (IF 2 \in D THEN 1 ELSE 0)
                       + (IF 3 \in D THEN 1 ELSE 0) + (IF 4 \in D THEN 1 ELSE 0)
  BY CountFour
<1>5. 1 \in 1 .. 4 /\ 2 \in 1 .. 4 /\ 3 \in 1 .. 4 /\ 4 \in 1 .. 4
  OBVIOUS
<1> HIDE DEF E, D, u
<1>6. Len(E(1) \o E(2) \o E(3) \o E(4) \o u)
        = Len(E(1)) + Len(E(2)) + Len(E(3)) + Len(E(4)) + Len(u)
  <2>1. /\ E(1) \in Seq(WireCells) /\ E(2) \in Seq(WireCells)
        /\ E(3) \in Seq(WireCells) /\ E(4) \in Seq(WireCells)
    BY <1>1, <1>5
  <2> QED  BY <1>2, <2>1
<1>7. Len(E(1)) + Len(E(2)) + Len(E(3)) + Len(E(4)) = 2 * Cardinality(D)
  <2> DEFINE n(i) == IF i \in D THEN 1 ELSE 0
  <2>1. ASSUME NEW i \in 1 .. 4 PROVE Len(E(i)) = n(i) + n(i) /\ n(i) \in Nat
    BY <1>1
  <2>2. Cardinality(D) = n(1) + n(2) + n(3) + n(4)
    BY <1>4
  <2> HIDE DEF n
  <2>3. PICK p \in Nat : p = n(1) /\ Len(E(1)) = p + p
    BY <1>5, <2>1
  <2>4. PICK q \in Nat : q = n(2) /\ Len(E(2)) = q + q
    BY <1>5, <2>1
  <2>5. PICK r \in Nat : r = n(3) /\ Len(E(3)) = r + r
    BY <1>5, <2>1
  <2>6. PICK s \in Nat : s = n(4) /\ Len(E(4)) = s + s
    BY <1>5, <2>1
  <2>7. Cardinality(D) = p + q + r + s
    BY <2>2, <2>3, <2>4, <2>5, <2>6
  <2>8. (p + p) + (q + q) + (r + r) + (s + s) = 2 * (p + q + r + s)
    OBVIOUS
  <2>9. Len(E(1)) + Len(E(2)) + Len(E(3)) + Len(E(4)) = (p + p) + (q + q) + (r + r) + (s + s)
    BY <2>3, <2>4, <2>5, <2>6
  <2> QED  BY <2>7, <2>8, <2>9, Zenon
<1>8. Len(u) \in Nat
  BY <1>2
<1> QED  BY <1>3, <1>6, <1>7, <1>8 DEF D, u

-----------------------------------------------------------------------------
(* The program with two messages.                                          *)

\* Both objects are messages of the class.
ObjectsInv ==
    /\ class \in {"request", "response"}
    /\ obj = [o \in Objects |-> obj[o]]
    /\ \A o \in Objects : Typed(Fields, obj[o])

\* The operations of either class, in terms of its fields.
LEMMA ClassOperations ==
    ASSUME class \in {"request", "response"}
    PROVE  /\ Schema(Fields) /\ Fields[1].wire = "len" /\ Fields[4].wire = "len"
           /\ Defaults(Fields, Default)
           /\ \A m : /\ Serialize(m) = Serialized(Fields, m)
                     /\ ClearAll(m) = Default
                     /\ ByteSize(m) = 2 * Cardinality({num \in 1 .. 4 :
                            m[Fields[num].name] # Fields[num].default}) + Len(m.unknown)
           /\ \A m, w : Parse(m, w) = ParsedInto(Fields, m, w)
           /\ \A m, a : /\ Merge(m, a) = Merged(Fields, m, a)
                        /\ Copy(m, a) = Merged(Fields, Default, a)
<1>1. CASE class = "request"
  <2>1. Fields = RequestFields /\ Default = RequestDefault
    BY <1>1 DEF Fields, Default
  <2>2. RequestFields[1].wire = "len" /\ RequestFields[4].wire = "len"
    BY DEF RequestFields, Str, Byt
  <2>3. \A m : /\ Serialize(m) = Serialized(RequestFields, m)
               /\ ClearAll(m) = RequestDefault
               /\ ByteSize(m) = 2 * Cardinality({num \in 1 .. 4 :
                      m[RequestFields[num].name] # RequestFields[num].default}) + Len(m.unknown)
    BY <1>1 DEF Serialize, ClearAll, ByteSize, RequestSerialize, RequestClear, RequestByteSize
  <2>4. \A m, w : Parse(m, w) = ParsedInto(RequestFields, m, w)
    BY <1>1 DEF Parse, RequestParse
  <2>5. \A m, a : /\ Merge(m, a) = Merged(RequestFields, m, a)
                  /\ Copy(m, a) = Merged(RequestFields, RequestDefault, a)
    BY <1>1 DEF Merge, Copy, RequestCopy, RequestMerge, RequestClear
  <2> QED  BY <2>1, <2>2, <2>3, <2>4, <2>5, Schemas, DefaultInstances
<1>2. CASE class = "response"
  <2>1. Fields = ResponseFields /\ Default = ResponseDefault
    BY <1>2 DEF Fields, Default
  <2>2. ResponseFields[1].wire = "len" /\ ResponseFields[4].wire = "len"
    BY DEF ResponseFields, Str, Byt
  <2>3. \A m : /\ Serialize(m) = Serialized(ResponseFields, m)
               /\ ClearAll(m) = ResponseDefault
               /\ ByteSize(m) = 2 * Cardinality({num \in 1 .. 4 :
                      m[ResponseFields[num].name] # ResponseFields[num].default}) + Len(m.unknown)
    BY <1>2 DEF Serialize, ClearAll, ByteSize, ResponseSerialize, ResponseClear, ResponseByteSize
  <2>4. \A m, w : Parse(m, w) = ParsedInto(ResponseFields, m, w)
    BY <1>2 DEF Parse, ResponseParse
  <2>5. \A m, a : /\ Merge(m, a) = Merged(ResponseFields, m, a)
                  /\ Copy(m, a) = Merged(ResponseFields, ResponseDefault, a)
    BY <1>2 DEF Merge, Copy, ResponseCopy, ResponseMerge, ResponseClear
  <2> QED  BY <2>1, <2>2, <2>3, <2>4, <2>5, Schemas, DefaultInstances
<1> QED  BY <1>1, <1>2

\* At first every object is a default instance.
LEMMA ObjectsInit == ApiInit => ObjectsInv
<1> SUFFICES ASSUME ApiInit PROVE ObjectsInv
  OBVIOUS
<1>1. class \in {"request", "response"} /\ obj = [o \in Objects |-> Default]
  BY DEF ApiInit
<1>2. Typed(Fields, Default)
  BY <1>1, ClassOperations DEF Defaults
<1> QED  BY <1>1, <1>2 DEF ObjectsInv

\* One object has another value.
LEMMA OneObject ==
    ASSUME ObjectsInv, class' = class, NEW o \in Objects, NEW m, Typed(Fields, m),
           obj' = [obj EXCEPT ![o] = m]
    PROVE  ObjectsInv'
<1>1. Fields' = Fields
  BY DEF Fields
<1>2. obj' = [p \in Objects |-> obj'[p]]
  BY DEF ObjectsInv
<1>3. \A p \in Objects : Typed(Fields, obj'[p])
  BY DEF ObjectsInv
<1> QED  BY <1>1, <1>2, <1>3 DEF ObjectsInv

\* Every operation keeps the objects typed.
LEMMA ObjectsNext == ObjectsInv /\ ApiNext => ObjectsInv'
<1> SUFFICES ASSUME ObjectsInv, ApiNext PROVE ObjectsInv'
  OBVIOUS
<1>0. /\ class' = class /\ Fields' = Fields /\ class \in {"request", "response"}
      /\ obj = [o \in Objects |-> obj[o]]
      /\ \A o \in Objects : Typed(Fields, obj[o]) /\ Other(o) \in Objects /\ Other(o) # o
  BY DEF ApiNext, ObjectsInv, Fields, Objects, Other
<1>1. /\ Schema(Fields) /\ Fields[1].wire = "len" /\ Fields[4].wire = "len"
      /\ Defaults(Fields, Default) /\ Typed(Fields, Default) /\ DOMAIN Fields = 1 .. 4
  BY <1>0, ClassOperations DEF Schema, Defaults
<1>2. ASSUME NEW o \in Objects, Set(o) PROVE ObjectsInv'
  <2>1. PICK num \in DOMAIN Fields : \E v \in Values(Fields[num]) :
            obj' = [obj EXCEPT ![o][Fields[num].name] = v]
    BY <1>2 DEF Set
  <2>2. PICK v \in Values(Fields[num]) : obj' = [obj EXCEPT ![o][Fields[num].name] = v]
    BY <2>1
  <2> DEFINE m == [obj[o] EXCEPT ![Fields[num].name] = v]
  <2>3. obj' = [obj EXCEPT ![o] = m]
    BY <2>2
  <2>4. Typed(Fields, m)
    BY <1>0, <1>1, TypedSet
  <2> HIDE DEF m
  <2> QED  BY <1>0, <2>3, <2>4, OneObject
<1>3. ASSUME NEW o \in Objects, Transfer(o) PROVE ObjectsInv'
  <2>1. PICK num \in DOMAIN Fields :
            LET f == Fields[num] IN
            /\ f.wire = "len"
            /\ obj' = [obj EXCEPT ![o][f.name] = f.default, ![Other(o)][f.name] = obj[o][f.name]]
    BY <1>3 DEF Transfer
  <2> DEFINE f == Fields[num]
             m == [obj[o] EXCEPT ![f.name] = f.default]
             n == [obj[Other(o)] EXCEPT ![f.name] = obj[o][f.name]]
  <2>2. f.default \in Values(f) /\ obj[o][f.name] \in Values(f)
    BY <1>0, <1>1 DEF Schema, Typed
  <2>3. Typed(Fields, m)
    BY <1>0, <1>1, <2>2, TypedSet
  <2>4. Typed(Fields, n)
    BY <1>0, <1>1, <2>2, TypedSet
  <2>5. obj' = [p \in Objects |-> IF p = o THEN m ELSE IF p = Other(o) THEN n ELSE obj[p]]
    BY <1>0, <2>1
  <2> HIDE DEF m, n
  <2> QED  BY <1>0, <2>3, <2>4, <2>5 DEF ObjectsInv
<1>4. ASSUME NEW o \in Objects, Clear(o) PROVE ObjectsInv'
  <2>1. obj' = [obj EXCEPT ![o] = Default]
    BY <1>0, <1>4, ClassOperations DEF Clear
  <2> QED  BY <1>0, <1>1, <2>1, OneObject
<1>5. ASSUME NEW o \in Objects, CopyFrom(o) PROVE ObjectsInv'
  <2>1. obj' = [obj EXCEPT ![o] = Merged(Fields, Default, obj[Other(o)])]
    BY <1>0, <1>5, ClassOperations DEF CopyFrom
  <2>2. Typed(Fields, Merged(Fields, Default, obj[Other(o)]))
    BY <1>0, <1>1, MergedIs
  <2> QED  BY <1>0, <2>1, <2>2, OneObject
<1>6. ASSUME NEW o \in Objects, MergeFrom(o) PROVE ObjectsInv'
  <2>1. obj' = [obj EXCEPT ![o] = Merged(Fields, obj[o], obj[Other(o)])]
    BY <1>0, <1>6, ClassOperations DEF MergeFrom
  <2>2. Typed(Fields, Merged(Fields, obj[o], obj[Other(o)]))
    BY <1>0, <1>1, MergedIs
  <2> QED  BY <1>0, <2>1, <2>2, OneObject
<1>7. ASSUME NEW o \in Objects, ParseFrom(o) PROVE ObjectsInv'
  <2>1. PICK t \in Tails :
            obj' = [obj EXCEPT ![o] = Parse(@, Serialize(obj[Other(o)]) \o t).msg]
    BY <1>7 DEF ParseFrom
  <2> DEFINE m == Run(Fields, Reading(obj[o]), Serialized(Fields, obj[Other(o)]) \o t).msg
  <2>2. Parse(obj[o], Serialize(obj[Other(o)]) \o t).msg = m
    <3> DEFINE w == Serialized(Fields, obj[Other(o)]) \o t
    <3>1. Parse(obj[o], Serialize(obj[Other(o)]) \o t) = ParsedInto(Fields, obj[o], w)
      BY <1>0, ClassOperations
    <3>2. ParsedInto(Fields, obj[o], w).msg = Run(Fields, Reading(obj[o]), w).msg
      BY DEF ParsedInto
    <3> QED  BY <3>1, <3>2
  <2>3. Typed(Fields, m)
    BY <1>0, <1>1, ParsedTyped
  <2> HIDE DEF m
  <2>4. obj' = [obj EXCEPT ![o] = m]
    BY <2>1, <2>2
  <2> QED  BY <1>0, <2>3, <2>4, OneObject
<1>8. ASSUME Swap PROVE ObjectsInv'
  BY <1>0, <1>8 DEF Swap, ObjectsInv
<1> QED  BY <1>2, <1>3, <1>4, <1>5, <1>6, <1>7, <1>8 DEF ApiNext

\* Whatever a program does to two messages, and whatever it parses into them,
\* both are messages of their class whose unknown cells the parser keeps.
THEOREM MessagesInvariant == ApiSpec => []ObjectsInv
<1>1. ObjectsInv /\ UNCHANGED apiVars => ObjectsInv'
  BY DEF ObjectsInv, apiVars, Fields
<1> QED  BY <1>1, ObjectsInit, ObjectsNext, PTL DEF ApiSpec

\* A message parsed from what was written.
LEMMA ParseIs ==
    ASSUME ObjectsInv, NEW o \in Objects
    PROVE  /\ Readable(Fields, obj[o], 4) <=> Utf8(obj[o])
           /\ Readable(Fields, obj[o], 4) => Parse(Default, Serialize(obj[o])) = [ok |-> TRUE, msg |-> obj[o]]
           /\ ~Readable(Fields, obj[o], 4) => ~Parse(Default, Serialize(obj[o])).ok
<1>0. /\ Schema(Fields) /\ Defaults(Fields, Default) /\ Typed(Fields, Default)
      /\ DOMAIN Fields = 1 .. 4 /\ Typed(Fields, obj[o])
  BY ClassOperations DEF Schema, Defaults, ObjectsInv
<1> DEFINE a == obj[o]
           w == Serialized(Fields, a)
           end == Run(Fields, Reading(Default), w)
<1>1. Parse(Default, Serialize(a)) = [ok |-> ~end.over /\ end.tag = NoTag, msg |-> end.msg]
  BY ClassOperations DEF ParsedInto, ObjectsInv
<1>2. Readable(Fields, a, 4) <=> Utf8(a)
  BY <1>0 DEF Readable, Utf8
<1>3. /\ Readable(Fields, a, 4) => end = Reading(Merged(Fields, Default, a))
      /\ ~Readable(Fields, a, 4) => \E j \in 1 .. 4 : end = Spoilt(Partly(Fields, Default, a, j))
  BY <1>0, SerializedRead
<1>4. Merged(Fields, Default, a) = a
  BY <1>0, MergedIntoDefault
<1> HIDE DEF end
<1>5. ASSUME Readable(Fields, a, 4)
      PROVE  Parse(Default, Serialize(a)) = [ok |-> TRUE, msg |-> a]
  <2>1. end = Reading(a)
    BY <1>3, <1>4, <1>5
  <2>2. (~end.over /\ end.tag = NoTag) = TRUE /\ end.msg = a
    BY <2>1 DEF Reading
  <2> QED  BY <1>1, <2>2
<1>6. ASSUME ~Readable(Fields, a, 4) PROVE ~Parse(Default, Serialize(a)).ok
  <2>1. (~end.over /\ end.tag = NoTag) = FALSE
    BY <1>3, <1>6 DEF Spoilt
  <2>2. Parse(Default, Serialize(a)) = [ok |-> FALSE, msg |-> end.msg]
    BY <1>1, <2>1
  <2> QED  BY <2>2
<1> QED  BY <1>2, <1>5, <1>6

\* A typed object is read back as it was written.
LEMMA ObjectsRoundTrip == ObjectsInv => MessagesConsistent
<1> SUFFICES ASSUME ObjectsInv PROVE MessagesConsistent
  OBVIOUS
<1>0. Schema(Fields) /\ DOMAIN Fields = 1 .. 4 /\ \A o \in Objects : Typed(Fields, obj[o])
  BY ClassOperations DEF Schema, ObjectsInv
<1>1. FieldsTyped
  BY <1>0 DEF FieldsTyped, ObjectsInv, Typed
<1>2. ASSUME NEW o \in Objects
      PROVE  /\ ByteSize(obj[o]) = Len(Serialize(obj[o]))
             /\ Parse(Default, Serialize(obj[o])).ok <=> Utf8(obj[o])
             /\ Parse(Default, Serialize(obj[o])).ok =>
                    Parse(Default, Serialize(obj[o])).msg = obj[o]
  <2>1. ByteSize(obj[o]) = Len(Serialize(obj[o]))
    <3>1. Serialize(obj[o]) = Serialized(Fields, obj[o])
      BY ClassOperations DEF ObjectsInv
    <3>2. ByteSize(obj[o]) = 2 * Cardinality({num \in 1 .. 4 :
              obj[o][Fields[num].name] # Fields[num].default}) + Len(obj[o].unknown)
      BY ClassOperations DEF ObjectsInv
    <3> QED  BY <1>0, <3>1, <3>2, SizeIs
  <2> DEFINE p == Parse(Default, Serialize(obj[o]))
  <2>2. /\ Readable(Fields, obj[o], 4) <=> Utf8(obj[o])
        /\ Readable(Fields, obj[o], 4) => p = [ok |-> TRUE, msg |-> obj[o]]
        /\ ~Readable(Fields, obj[o], 4) => ~p.ok
    BY ParseIs
  <2> HIDE DEF p
  <2>3. /\ p.ok <=> Utf8(obj[o])
        /\ p.ok => p.msg = obj[o]
    BY <2>2
  <2> QED  BY <2>1, <2>3 DEF p
<1>3. RoundTrip
  BY <1>2 DEF RoundTrip
<1> QED  BY <1>1, <1>3 DEF MessagesConsistent

\* What is written is read back, of the announced length, unless a string is
\* not UTF-8.
THEOREM MessagesRoundTrip == ApiSpec => []MessagesConsistent
BY MessagesInvariant, ObjectsRoundTrip, PTL

\* Two that are written one behind the other are read as their merge.
LEMMA ObjectsMerge == ObjectsInv => ConcatenationMerges
<1> SUFFICES ASSUME ObjectsInv, Utf8(obj[1]), Utf8(obj[2]), NEW o \in Objects
             PROVE  Parse(Default, Serialize(obj[o]) \o Serialize(obj[Other(o)]))
                      = [ok |-> TRUE, msg |-> Merge(obj[o], obj[Other(o)])]
  BY DEF ConcatenationMerges
<1> DEFINE a == obj[o]
           b == obj[Other(o)]
           u == Serialized(Fields, a)
           v == Serialized(Fields, b)
<1>0. /\ Schema(Fields) /\ Defaults(Fields, Default) /\ Typed(Fields, Default)
      /\ DOMAIN Fields = 1 .. 4 /\ Typed(Fields, a) /\ Typed(Fields, b)
      /\ Utf8(a) /\ Utf8(b)
  BY ClassOperations DEF Schema, Defaults, ObjectsInv, Other, Objects
<1>1. /\ Serialize(a) = u /\ Serialize(b) = v
      /\ Parse(Default, u \o v) = ParsedInto(Fields, Default, u \o v)
      /\ Merge(a, b) = Merged(Fields, a, b)
  BY ClassOperations DEF ObjectsInv
<1>2. Readable(Fields, a, 4) /\ Readable(Fields, b, 4)
  BY <1>0 DEF Readable, Utf8
<1>3. u \in Seq(WireCells) /\ v \in Seq(WireCells)
  BY <1>0, SerializedRead
<1>4. Run(Fields, Reading(Default), u) = Reading(a)
  BY <1>0, <1>2, SerializedRead, MergedIntoDefault
<1>5. Run(Fields, Reading(a), v) = Reading(Merged(Fields, a, b))
  BY <1>0, <1>2, SerializedRead
<1>6. Run(Fields, Reading(Default), u \o v) = Reading(Merged(Fields, a, b))
  <2> HIDE DEF u, v, a, b
  <2> QED  BY <1>3, <1>4, <1>5, RunConcat
<1> DEFINE r == Merged(Fields, a, b)
<1>7. ParsedInto(Fields, Default, u \o v) = [ok |-> TRUE, msg |-> r]
  <2> HIDE DEF r, u, v
  <2>1. /\ (~Reading(r).over /\ Reading(r).tag = NoTag) = TRUE
        /\ Reading(r).msg = r
    BY DEF Reading
  <2> QED  BY <1>6, <2>1 DEF ParsedInto, r
<1> QED  BY <1>1, <1>7

\* Reading two messages one after the other is merging the second into the
\* first.
THEOREM MessagesConcatenate == ApiSpec => []ConcatenationMerges
BY MessagesInvariant, ObjectsMerge, PTL

-----------------------------------------------------------------------------
(* Buffers: what each operation does to the readable bytes, and that the   *)
(* positions stay inside the vector, which the asserts of buffer.cc say.   *)

LEMMA BufferType ==
    ASSUME NEW b \in B!Buffers
    PROVE  /\ b.bytes \in Seq(Cells) /\ b.readPos \in Nat /\ b.writePos \in Nat
           /\ b.readPos <= b.writePos /\ b.writePos <= Len(b.bytes) /\ Len(b.bytes) \in Nat
           /\ b = [bytes |-> b.bytes, readPos |-> b.readPos, writePos |-> b.writePos]
BY DEF B!Buffers

LEMMA BufferOf ==
    ASSUME NEW s \in Seq(Cells), NEW r \in Nat, NEW w \in Nat, r <= w, w <= Len(s)
    PROVE  [bytes |-> s, readPos |-> r, writePos |-> w] \in B!Buffers
BY DEF B!Buffers

\* The readable bytes, one by one.
LEMMA ReadableIs ==
    ASSUME NEW b \in B!Buffers
    PROVE  /\ B!Readable(b) \in Seq(Cells)
           /\ Len(B!Readable(b)) = B!ReadableBytes(b)
           /\ B!ReadableBytes(b) \in Nat
           /\ \A i \in 1 .. B!ReadableBytes(b) : B!Readable(b)[i] = b.bytes[b.readPos + i]
BY BufferType DEF B!Readable, B!ReadableBytes

\* Retrieve takes bytes from the front.
THEOREM RetrieveConsumes ==
    ASSUME NEW b \in B!Buffers, NEW n \in 0 .. B!ReadableBytes(b)
    PROVE  /\ B!Retrieve(b, n) \in B!Buffers
           /\ B!Readable(B!Retrieve(b, n)) = SubSeq(B!Readable(b), n + 1, B!ReadableBytes(b))
<1> DEFINE c == B!Retrieve(b, n)
           rest == SubSeq(B!Readable(b), n + 1, B!ReadableBytes(b))
<1>1. /\ b.bytes \in Seq(Cells) /\ b.readPos \in Nat /\ b.writePos \in Nat
      /\ b.readPos <= b.writePos /\ b.writePos <= Len(b.bytes)
      /\ b = [bytes |-> b.bytes, readPos |-> b.readPos, writePos |-> b.writePos]
  BY BufferType
<1>2. n \in Nat /\ n <= b.writePos - b.readPos /\ B!ReadableBytes(b) = b.writePos - b.readPos
  BY <1>1 DEF B!ReadableBytes
<1>3. rest \in Seq(Cells) /\ Len(rest) = B!ReadableBytes(b) - n
      /\ \A i \in 1 .. Len(rest) : rest[i] = b.bytes[b.readPos + n + i]
  <2>1. B!Readable(b) \in Seq(Cells) /\ Len(B!Readable(b)) = B!ReadableBytes(b)
        /\ \A i \in 1 .. B!ReadableBytes(b) : B!Readable(b)[i] = b.bytes[b.readPos + i]
    BY ReadableIs
  <2>2. B!ReadableBytes(b) \in Nat /\ n <= B!ReadableBytes(b) /\ B!ReadableBytes(b) - n \in Nat
    BY <1>1, <1>2
  <2>3. rest \in Seq(Cells) /\ Len(rest) = B!ReadableBytes(b) - n
        /\ \A i \in 1 .. B!ReadableBytes(b) - n : rest[i] = B!Readable(b)[n + i]
    BY <1>2, <2>1, <2>2, PartOf
  <2>4. \A i \in 1 .. B!ReadableBytes(b) - n :
            /\ n + i \in 1 .. B!ReadableBytes(b)
            /\ b.readPos + (n + i) = b.readPos + n + i
    BY <1>1, <1>2, <2>2
  <2> HIDE DEF rest
  <2> QED BY <2>1, <2>3, <2>4
<1>4. CASE n < B!ReadableBytes(b)
  <2>1. c = [bytes |-> b.bytes, readPos |-> b.readPos + n, writePos |-> b.writePos]
    BY <1>1, <1>4 DEF B!Retrieve
  <2>0. b.readPos + n \in Nat /\ b.readPos + n <= b.writePos
    BY <1>1, <1>2
  <2>2. c \in B!Buffers
    BY <1>1, <2>0, <2>1, BufferOf
  <2>3. B!Readable(c) \in Seq(Cells) /\ Len(B!Readable(c)) = B!ReadableBytes(b) - n
        /\ \A i \in 1 .. B!ReadableBytes(b) - n : B!Readable(c)[i] = b.bytes[b.readPos + n + i]
    BY <1>1, <1>2, <2>1, <2>2, ReadableIs DEF B!ReadableBytes
  <2>4. B!Readable(c) = rest
    BY <1>3, <2>3, SeqEqual
  <2> QED BY <2>2, <2>4
<1>5. CASE ~(n < B!ReadableBytes(b))
  <2>1. c = [bytes |-> b.bytes, readPos |-> 0, writePos |-> 0]
    BY <1>1, <1>5 DEF B!Retrieve, B!RetrieveAll
  <2>2. c \in B!Buffers
    BY <1>1, <2>1, BufferOf
  <2>3. B!Readable(c) = <<>> /\ rest = <<>>
    BY <1>1, <1>2, <1>5, <2>1 DEF B!Readable
  <2> QED BY <2>2, <2>3
<1> QED BY <1>4, <1>5

\* ReadString and WriteFd hand out the front of the readable bytes.
THEOREM FrontIsHandedOut ==
    ASSUME NEW b \in B!Buffers, NEW n \in 0 .. B!ReadableBytes(b)
    PROVE  /\ B!WriteFd(b, n) = SubSeq(B!Readable(b), 1, n)
           /\ B!ReadString(b, n).value = SubSeq(B!Readable(b), 1, n)
<1>1. /\ b.bytes \in Seq(Cells) /\ b.readPos \in Nat /\ b.writePos \in Nat
      /\ b.readPos <= b.writePos /\ b.writePos <= Len(b.bytes)
  BY BufferType
<1>2. n \in Nat /\ b.readPos + n <= b.writePos
  BY <1>1 DEF B!ReadableBytes
<1>3. SubSeq(b.bytes, b.readPos + 1, b.readPos + n)
         = SubSeq(SubSeq(b.bytes, b.readPos + 1, b.writePos), 1, n)
  BY <1>1, <1>2, FrontOfPart
<1> QED BY <1>3 DEF B!WriteFd, B!ReadString, B!Readable

\* A buffer with the readable bytes `v`.
LEMMA ReadableByElements ==
    ASSUME NEW b \in B!Buffers, NEW v \in Seq(Cells), B!ReadableBytes(b) = Len(v),
           \A i \in 1 .. Len(v) : b.bytes[b.readPos + i] = v[i]
    PROVE  B!Readable(b) = v
<1>1. B!Readable(b) \in Seq(Cells) /\ Len(B!Readable(b)) = Len(v)
  BY ReadableIs
<1>2. \A i \in 1 .. Len(v) : B!Readable(b)[i] = v[i]
  BY ReadableIs
<1> QED BY <1>1, <1>2, SeqEqual

LEMMA ZerosType ==
    ASSUME NEW n \in Nat
    PROVE  B!Zeros(n) \in Seq(Cells) /\ Len(B!Zeros(n)) = n
BY FramingAssumption DEF B!BufferConstants, B!Zeros

\* A new buffer is empty.
LEMMA NewIsEmpty ==
    ASSUME NEW n \in Nat
    PROVE  B!NewBuffer(n) \in B!Buffers /\ B!Readable(B!NewBuffer(n)) = <<>>
<1>1. B!NewBuffer(n) = [bytes |-> B!Zeros(n), readPos |-> 0, writePos |-> 0]
  BY DEF B!NewBuffer
<1>2. B!Zeros(n) \in Seq(Cells) /\ Len(B!Zeros(n)) = n
  BY ZerosType
<1>3. B!NewBuffer(n) \in B!Buffers
  BY <1>1, <1>2, BufferOf
<1>4. B!Readable(B!NewBuffer(n)) = SubSeq(B!Zeros(n), 1, 0)
  BY <1>1 DEF B!Readable
<1> QED BY <1>2, <1>3, <1>4

\* Storing what fits puts it behind the readable bytes.
LEMMA StoredAppends ==
    ASSUME NEW b \in B!Buffers, NEW data \in Seq(Cells), Len(data) <= B!WritableBytes(b)
    PROVE  /\ B!Stored(b, data) \in B!Buffers
           /\ B!Readable(B!Stored(b, data)) = B!Readable(b) \o data
           /\ B!WritableBytes(B!Stored(b, data)) = B!WritableBytes(b) - Len(data)
<1> DEFINE c == B!Stored(b, data)
           new == [i \in DOMAIN b.bytes |->
                      IF i \in b.writePos + 1 .. b.writePos + Len(data)
                      THEN data[i - b.writePos] ELSE b.bytes[i]]
<1>1. /\ b.bytes \in Seq(Cells) /\ b.readPos \in Nat /\ b.writePos \in Nat
      /\ b.readPos <= b.writePos /\ b.writePos <= Len(b.bytes)
      /\ b = [bytes |-> b.bytes, readPos |-> b.readPos, writePos |-> b.writePos]
  BY BufferType
<1>2. Len(data) \in Nat /\ Len(b.bytes) \in Nat /\ b.writePos + Len(data) <= Len(b.bytes)
  BY <1>1 DEF B!WritableBytes
<1>3. c = [bytes |-> new, readPos |-> b.readPos, writePos |-> b.writePos + Len(data)]
  <2>1. c = [b EXCEPT !.bytes = new, !.writePos = @ + Len(data)]
    BY DEF B!Stored
  <2> HIDE DEF new, c
  <2> QED BY <1>1, <2>1
<1>4. new \in Seq(Cells) /\ Len(new) = Len(b.bytes)
  <2>1. DOMAIN b.bytes = 1 .. Len(b.bytes)
    BY <1>1
  <2>2. ASSUME NEW i \in 1 .. Len(b.bytes)
        PROVE  new[i] \in Cells
    <3>1. CASE i \in b.writePos + 1 .. b.writePos + Len(data)
      <4>1. i - b.writePos \in 1 .. Len(data)
        BY <1>1, <1>2, <2>2, <3>1
      <4> QED BY <2>1, <3>1, <4>1
    <3>2. CASE ~(i \in b.writePos + 1 .. b.writePos + Len(data))
      BY <1>1, <2>1, <3>2
    <3> QED BY <3>1, <3>2
  <2>3. new \in [1 .. Len(b.bytes) -> Cells]
    BY <2>1, <2>2
  <2> QED BY <1>2, <2>3
<1>5. \A i \in 1 .. Len(b.bytes) : new[i] = IF i \in b.writePos + 1 .. b.writePos + Len(data)
                                          THEN data[i - b.writePos] ELSE b.bytes[i]
  BY <1>1
<1> HIDE DEF new
<1>6. c \in B!Buffers /\ B!WritableBytes(c) = B!WritableBytes(b) - Len(data)
  <2>1. b.writePos + Len(data) \in Nat /\ b.readPos <= b.writePos + Len(data)
    BY <1>1, <1>2
  <2>2. c \in B!Buffers
    BY <1>1, <1>2, <1>3, <1>4, <2>1, BufferOf
  <2>3. B!WritableBytes(c) = Len(b.bytes) - (b.writePos + Len(data))
    BY <1>3, <1>4 DEF B!WritableBytes
  <2> HIDE DEF c
  <2> QED BY <1>1, <1>2, <2>2, <2>3 DEF B!WritableBytes
<1>7. B!ReadableBytes(c) = B!ReadableBytes(b) + Len(data) /\ c.readPos = b.readPos /\ c.bytes = new
  BY <1>1, <1>2, <1>3 DEF B!ReadableBytes
<1> DEFINE v == B!Readable(b) \o data
<1>8. /\ v \in Seq(Cells) /\ Len(v) = B!ReadableBytes(b) + Len(data)
      /\ \A i \in 1 .. B!ReadableBytes(b) : v[i] = b.bytes[b.readPos + i]
      /\ \A i \in B!ReadableBytes(b) + 1 .. B!ReadableBytes(b) + Len(data) : v[i] = data[i - B!ReadableBytes(b)]
  <2>1. /\ B!Readable(b) \in Seq(Cells) /\ Len(B!Readable(b)) = B!ReadableBytes(b)
        /\ \A i \in 1 .. B!ReadableBytes(b) : B!Readable(b)[i] = b.bytes[b.readPos + i]
        /\ B!ReadableBytes(b) \in Nat
    BY ReadableIs
  <2> QED BY <1>2, <2>1
<1> HIDE DEF v, c
<1>9. ASSUME NEW i \in 1 .. Len(v)
      PROVE  c.bytes[c.readPos + i] = v[i]
  <2>0. B!ReadableBytes(b) = b.writePos - b.readPos
    BY DEF B!ReadableBytes
  <2>1. CASE i <= B!ReadableBytes(b)
    <3>1. b.readPos + i \in 1 .. b.writePos
      BY <1>1, <1>8, <2>0, <2>1
    <3>2. new[b.readPos + i] = b.bytes[b.readPos + i]
      BY <1>1, <1>2, <1>5, <3>1
    <3>3. v[i] = b.bytes[b.readPos + i]
      BY <1>1, <1>8, <2>0, <2>1
    <3> QED BY <1>7, <3>2, <3>3
  <2>2. CASE ~(i <= B!ReadableBytes(b))
    <3>1. /\ b.readPos + i \in b.writePos + 1 .. b.writePos + Len(data)
          /\ (b.readPos + i) - b.writePos = i - B!ReadableBytes(b)
      BY <1>1, <1>2, <1>8, <2>0, <2>2
    <3>2. new[b.readPos + i] = data[i - B!ReadableBytes(b)]
      <4>1. b.readPos + i \in 1 .. Len(b.bytes)
        BY <1>1, <1>2, <3>1
      <4>2. new[b.readPos + i] = data[(b.readPos + i) - b.writePos]
        BY <1>5, <3>1, <4>1
      <4> QED BY <3>1, <4>2
    <3>3. i \in B!ReadableBytes(b) + 1 .. B!ReadableBytes(b) + Len(data)
      BY <1>1, <1>2, <1>8, <2>0, <2>2
    <3>4. v[i] = data[i - B!ReadableBytes(b)]
      BY <1>8, <3>3
    <3> QED BY <1>7, <3>2, <3>4
  <2> QED BY <2>1, <2>2
<1>10. B!Readable(c) = v
  BY <1>6, <1>7, <1>8, <1>9, ReadableByElements
<1> QED BY <1>6, <1>10 DEF c, v

\* makeSpace, when moving the readable bytes to the front makes room enough.
LEMMA ShiftedKeeps ==
    ASSUME NEW b \in B!Buffers
    PROVE  /\ B!Shifted(b) \in B!Buffers
           /\ B!Readable(B!Shifted(b)) = B!Readable(b)
           /\ B!WritableBytes(B!Shifted(b)) = B!WritableBytes(b) + B!PrependableBytes(b)
<1> DEFINE c == B!Shifted(b)
           n == B!ReadableBytes(b)
           rest == SubSeq(b.bytes, n + 1, Len(b.bytes))
<1>1. /\ b.bytes \in Seq(Cells) /\ b.readPos \in Nat /\ b.writePos \in Nat
      /\ b.readPos <= b.writePos /\ b.writePos <= Len(b.bytes) /\ Len(b.bytes) \in Nat
  BY BufferType
<1>2. n \in Nat /\ n = b.writePos - b.readPos /\ n <= Len(b.bytes)
  BY <1>1 DEF B!ReadableBytes
<1>3. B!Readable(b) \in Seq(Cells) /\ Len(B!Readable(b)) = n
  BY ReadableIs
<1>4. rest \in Seq(Cells) /\ Len(rest) = Len(b.bytes) - n
  BY <1>1, <1>2, PartOf
<1>5. c = [bytes |-> B!Readable(b) \o rest, readPos |-> 0, writePos |-> n]
  BY DEF B!Shifted
<1> HIDE DEF n, rest, c
<1>6. /\ B!Readable(b) \o rest \in Seq(Cells)
      /\ Len(B!Readable(b) \o rest) = Len(b.bytes)
      /\ \A i \in 1 .. n : (B!Readable(b) \o rest)[i] = B!Readable(b)[i]
  <2>1. Len(B!Readable(b)) + Len(rest) = Len(b.bytes)
    BY <1>1, <1>2, <1>3, <1>4
  <2>2. B!Readable(b) \in Seq(Cells) /\ rest \in Seq(Cells)
    BY <1>3, <1>4
  <2>3. /\ B!Readable(b) \o rest \in Seq(Cells)
        /\ Len(B!Readable(b) \o rest) = Len(B!Readable(b)) + Len(rest)
        /\ \A i \in 1 .. Len(B!Readable(b)) : (B!Readable(b) \o rest)[i] = B!Readable(b)[i]
    BY <2>2, Concatenated
  <2> QED BY <1>3, <2>1, <2>3
<1>7. c \in B!Buffers
  <2>1. 0 <= n /\ n <= Len(B!Readable(b) \o rest)
    BY <1>2, <1>6
  <2> QED BY <1>2, <1>5, <1>6, <2>1, BufferOf
<1>8. B!ReadableBytes(c) = n /\ c.readPos = 0 /\ c.bytes = B!Readable(b) \o rest
  BY <1>2, <1>5 DEF B!ReadableBytes
<1>9. \A i \in 1 .. n : c.bytes[c.readPos + i] = B!Readable(b)[i]
  BY <1>2, <1>6, <1>8
<1>10. B!Readable(c) = B!Readable(b)
  BY <1>3, <1>7, <1>8, <1>9, ReadableByElements
<1>11. B!WritableBytes(c) = B!WritableBytes(b) + B!PrependableBytes(b)
  BY <1>1, <1>2, <1>5, <1>6 DEF B!WritableBytes, B!PrependableBytes
<1> QED BY <1>7, <1>10, <1>11 DEF c

\* makeSpace, when the vector must grow.
LEMMA GrownKeeps ==
    ASSUME NEW b \in B!Buffers, NEW needed \in Nat,
           B!WritableBytes(b) + B!PrependableBytes(b) < needed
    PROVE  /\ B!Grown(b, needed) \in B!Buffers
           /\ B!Readable(B!Grown(b, needed)) = B!Readable(b)
           /\ B!WritableBytes(B!Grown(b, needed)) >= needed
<1> DEFINE c == B!Grown(b, needed)
           newSize == B!Greater(b.writePos + needed, needed + InitialSize)
           more == B!Zeros(newSize - Len(b.bytes))
<1>1. /\ b.bytes \in Seq(Cells) /\ b.readPos \in Nat /\ b.writePos \in Nat
      /\ b.readPos <= b.writePos /\ b.writePos <= Len(b.bytes) /\ Len(b.bytes) \in Nat
      /\ b = [bytes |-> b.bytes, readPos |-> b.readPos, writePos |-> b.writePos]
  BY BufferType
<1>2. newSize \in Nat /\ newSize >= b.writePos + needed
  BY <1>1, FramingAssumption DEF B!Greater, B!BufferConstants
<1> HIDE DEF newSize
<1>3. newSize - Len(b.bytes) \in Nat
  BY <1>1, <1>2 DEF B!WritableBytes, B!PrependableBytes
<1>4. more \in Seq(Cells) /\ Len(more) = newSize - Len(b.bytes)
  BY <1>3, ZerosType
<1>5. c = [b EXCEPT !.bytes = @ \o more]
  BY DEF B!Grown, newSize
<1> HIDE DEF more, c
<1>6. c = [bytes |-> b.bytes \o more, readPos |-> b.readPos, writePos |-> b.writePos]
  BY <1>1, <1>5
<1>7. /\ b.bytes \o more \in Seq(Cells)
      /\ Len(b.bytes \o more) = newSize
      /\ \A i \in 1 .. Len(b.bytes) : (b.bytes \o more)[i] = b.bytes[i]
  BY <1>1, <1>2, <1>4
<1>8. c \in B!Buffers
  <2>1. b.writePos <= Len(b.bytes \o more)
    BY <1>1, <1>2, <1>7
  <2> QED BY <1>1, <1>6, <1>7, <2>1, BufferOf
<1>9. B!WritableBytes(c) >= needed
  BY <1>1, <1>2, <1>6, <1>7 DEF B!WritableBytes
<1>10. /\ B!Readable(b) \in Seq(Cells) /\ Len(B!Readable(b)) = B!ReadableBytes(b)
       /\ \A i \in 1 .. B!ReadableBytes(b) : B!Readable(b)[i] = b.bytes[b.readPos + i]
  BY ReadableIs
<1>11. B!ReadableBytes(c) = B!ReadableBytes(b)
  BY <1>6 DEF B!ReadableBytes
<1>12. ASSUME NEW i \in 1 .. B!ReadableBytes(b)
       PROVE  c.bytes[c.readPos + i] = B!Readable(b)[i]
  <2>1. b.readPos + i \in 1 .. Len(b.bytes)
    BY <1>1 DEF B!ReadableBytes
  <2> QED BY <1>6, <1>7, <1>10, <2>1
<1>13. B!Readable(c) = B!Readable(b)
  BY <1>8, <1>10, <1>11, <1>12, ReadableByElements
<1> QED BY <1>8, <1>9, <1>13 DEF c

\* EnsureWritable makes room and leaves what there is to read.
THEOREM EnsureWritableMakesRoom ==
    ASSUME NEW b \in B!Buffers, NEW len \in Nat
    PROVE  /\ B!EnsureWritable(b, len) \in B!Buffers
           /\ B!Readable(B!EnsureWritable(b, len)) = B!Readable(b)
           /\ B!WritableBytes(B!EnsureWritable(b, len)) >= len
<1>1. B!WritableBytes(b) \in Nat /\ B!PrependableBytes(b) \in Nat
  BY BufferType DEF B!WritableBytes, B!PrependableBytes
<1>2. CASE B!WritableBytes(b) + B!PrependableBytes(b) < len
  BY <1>1, <1>2, GrownKeeps DEF B!EnsureWritable, B!MakeSpace
<1>3. CASE ~(B!WritableBytes(b) + B!PrependableBytes(b) < len)
  BY <1>1, <1>3, ShiftedKeeps DEF B!EnsureWritable, B!MakeSpace
<1> QED BY <1>2, <1>3

\* Append, and a write straight into the vector, put their bytes at the end.
THEOREM AppendAppends ==
    ASSUME NEW b \in B!Buffers, NEW data \in Seq(Cells)
    PROVE  /\ B!AppendBytes(b, data) \in B!Buffers
           /\ B!Readable(B!AppendBytes(b, data)) = B!Readable(b) \o data
<1> DEFINE c == B!EnsureWritable(b, Len(data))
<1>1. Len(data) \in Nat
  OBVIOUS
<1>2. c \in B!Buffers /\ B!Readable(c) = B!Readable(b) /\ Len(data) <= B!WritableBytes(c)
  <2>1. B!WritableBytes(c) >= Len(data) /\ c \in B!Buffers /\ B!Readable(c) = B!Readable(b)
    BY <1>1, EnsureWritableMakesRoom
  <2>2. B!WritableBytes(c) \in Nat
    BY <2>1, BufferType DEF B!WritableBytes
  <2> HIDE DEF c
  <2> QED BY <1>1, <2>1, <2>2
<1>3. B!AppendBytes(b, data) = B!Stored(c, data)
  BY DEF B!AppendBytes
<1> HIDE DEF c
<1> QED BY <1>2, <1>3, StoredAppends

\* ReadFd puts what it read at the end, through extrabuf or not.
THEOREM ReadFdAppends ==
    ASSUME NEW b \in B!Buffers, NEW data \in Seq(Cells)
    PROVE  /\ B!ReadFd(b, data) \in B!Buffers
           /\ B!Readable(B!ReadFd(b, data)) = B!Readable(b) \o data
<1>1. CASE Len(data) <= B!WritableBytes(b)
  BY <1>1, StoredAppends DEF B!ReadFd
<1>2. CASE ~(Len(data) <= B!WritableBytes(b))
  <2> DEFINE room == B!WritableBytes(b)
             first == SubSeq(data, 1, room)
             rest == SubSeq(data, room + 1, Len(data))
             c == B!Stored(b, first)
  <2>1. room \in Nat /\ Len(data) \in Nat /\ room < Len(data)
    BY <1>2, BufferType DEF B!WritableBytes
  <2>2. /\ first \in Seq(Cells) /\ rest \in Seq(Cells) /\ Len(first) = room
        /\ first \o rest = data
    <3>1. room \in 0 .. Len(data)
      BY <2>1
    <3> HIDE DEF room
    <3> QED BY <3>1, Split
  <2>3. c \in B!Buffers /\ B!Readable(c) = B!Readable(b) \o first
    <3>1. Len(first) <= B!WritableBytes(b)
      BY <2>1, <2>2
    <3> HIDE DEF first
    <3> QED BY <2>2, <3>1, StoredAppends
  <2>4. B!ReadFd(b, data) = B!AppendBytes(c, rest)
    BY <1>2 DEF B!ReadFd
  <2> HIDE DEF c, rest, first
  <2>5. B!ReadFd(b, data) \in B!Buffers /\ B!Readable(B!ReadFd(b, data)) = (B!Readable(b) \o first) \o rest
    BY <2>2, <2>3, <2>4, AppendAppends
  <2>6. (B!Readable(b) \o first) \o rest = B!Readable(b) \o (first \o rest)
    <3>1. B!Readable(b) \in Seq(Cells)
      BY ReadableIs
    <3> HIDE DEF room
    <3>2. first \in Seq(Cells) /\ rest \in Seq(Cells)
      BY <2>2
    <3> QED BY <3>1, <3>2, ConcatAssociative
  <2> QED BY <2>2, <2>5, <2>6
<1> QED BY <1>1, <1>2

LEMMA BufferReads ==
    ASSUME NEW b \in B!Buffers
    PROVE  /\ B!Readable(b) \in Seq(Cells)
           /\ B!ReadableBytes(b) = Len(B!Readable(b))
BY ReadableIs

LEMMA BufferNew ==
    B!NewBuffer(InitialSize) \in B!Buffers /\ B!Readable(B!NewBuffer(InitialSize)) = <<>>
<1>1. InitialSize \in Nat
  BY FramingAssumption DEF B!BufferConstants
<1> QED BY <1>1, NewIsEmpty

-----------------------------------------------------------------------------
(* Frames.                                                                 *)

LEMMA PlaceType == \A i \in 1 .. 4 : Place[i] \in Nat \ {0}
<1>1. ByteBase \in Nat \ {0}
  BY CodecAssumption
<1>2. ByteBase * ByteBase \in Nat \ {0}
  BY <1>1
<1>3. (ByteBase * ByteBase) * ByteBase \in Nat \ {0}
  BY <1>1, <1>2
<1> QED BY <1>1, <1>2, <1>3 DEF Place

\* A request that a program has filled in, and its cells.
LEMMA RequestTyped ==
    ASSUME NEW m \in Requests
    PROVE  Typed(RequestFields, m)
<1> DEFINE F == RequestFields
<1>1. \A i \in 1 .. 4 : i = 1 \/ i = 2 \/ i = 3 \/ i = 4
  OBVIOUS
<1>2. /\ F[1].name = "service_name" /\ F[1].wire = "len"
      /\ F[2].name = "method_name" /\ F[2].wire = "len"
      /\ F[3].name = "request_id" /\ F[3].wire = "len"
      /\ F[4].name = "body" /\ F[4].wire = "len"
  BY DEF RequestFields, Str, Byt
<1> HIDE DEF F
<1>3. Names(F) = {"service_name", "method_name", "request_id", "body", "unknown"}
  <2>1. {F[i].name : i \in 1 .. 4} = {F[1].name, F[2].name, F[3].name, F[4].name}
    BY <1>1
  <2> QED  BY <1>2, <2>1 DEF Names
<1>4. m = [name \in Names(F) |-> m[name]] /\ m.unknown = <<>>
  BY <1>3 DEF Requests
<1>5. \A i \in 1 .. 4 : m[F[i].name] \in Values(F[i])
  BY <1>1, <1>2 DEF Requests, Values
<1>6. Kept(F, <<>>)
  BY Schemas, KeptNothing DEF F
<1>7. <<>> \in Seq(WireCells)
  OBVIOUS
<1> QED  BY <1>4, <1>5, <1>6, <1>7 DEF Typed, Shaped, F

\* Its cells are cells of the wire.
LEMMA RequestCells == \A m \in Messages : RequestSerialize(m) \in Seq(Cells)
<1> SUFFICES ASSUME NEW m \in Messages PROVE RequestSerialize(m) \in Seq(Cells)
  OBVIOUS
<1> DEFINE F == RequestFields
           E(i) == Encoded(F[i], i, m[F[i].name])
<1>1. Typed(F, m) /\ Schema(F) /\ m.unknown = <<>>
  BY RequestTyped, Schemas, FramingAssumption DEF Requests
<1>2. ASSUME NEW i \in 1 .. 4 PROVE E(i) \in Seq(Cells)
  <2> DEFINE v == m[F[i].name]
  <2>1. v \in Values(F[i]) /\ F[i].wire \in {"len", "varint"}
    BY <1>1 DEF Typed, Schema
  <2>2. Tag(i, F[i].wire) \in Cells
    BY <2>1 DEF Cells
  <2>3. Payload(v) \in Cells
    BY <2>1 DEF Cells, Values
  <2>4. /\ Encoded(F[i], i, v) = <<>> \/ Encoded(F[i], i, v) = <<Tag(i, F[i].wire), Payload(v)>>
    BY DEF Encoded
  <2>5. <<>> \in Seq(Cells) /\ <<Tag(i, F[i].wire), Payload(v)>> \in Seq(Cells)
    BY <2>2, <2>3
  <2> QED  BY <2>4, <2>5
<1>3. RequestSerialize(m) = E(1) \o E(2) \o E(3) \o E(4) \o <<>>
  BY <1>1 DEF RequestSerialize, Serialized
<1>4. E(1) \in Seq(Cells) /\ E(2) \in Seq(Cells) /\ E(3) \in Seq(Cells) /\ E(4) \in Seq(Cells)
  BY <1>2
<1> HIDE DEF E
<1>5. E(1) \o E(2) \o E(3) \o E(4) \o <<>> \in Seq(Cells)
  BY <1>4
<1> QED  BY <1>3, <1>5

LEMMA FrameType == \A m \in Messages : Frame[m] \in Seq(Cells)
<1> SUFFICES ASSUME NEW m \in Messages
             PROVE  Frame[m] \in Seq(Cells)
  OBVIOUS
<1> DEFINE data == RequestSerialize(m)
<1>1. data \in Seq(Cells) /\ Len(data) \in Nat
  BY RequestCells
<1>2. Frame[m] = Encode(data)
  BY DEF Frame
<1> HIDE DEF data
<1>3. ASSUME NEW i \in 1 .. 4
      PROVE  Digit((Len(data) \div Place[i]) % ByteBase) \in Cells
  <2>1. Len(data) \div Place[i] \in Int
    BY <1>1, PlaceType
  <2>2. (Len(data) \div Place[i]) % ByteBase \in 0 .. ByteBase - 1
    BY <2>1, CodecAssumption
  <2> QED BY <2>2 DEF Cells
<1>4. LengthCells(Len(data)) \in Seq(Cells)
  <2>1. LengthCells(Len(data)) \in [1 .. 4 -> Cells]
    BY <1>3 DEF LengthCells
  <2> QED BY <2>1, SeqDef
<1>5. LengthCells(Len(data)) \o data \in Seq(Cells)
  BY <1>1, <1>4, Concatenated
<1>6. <<>> \in Seq(Cells)
  OBVIOUS
<1> QED BY <1>2, <1>5, <1>6 DEF Encode, NoFrame

LEMMA LengthType == \A s : LengthOf(s) \in Nat
<1>1. \A c : ValueOf(c) \in Nat
  BY CodecAssumption DEF ValueOf, Digit
<1>2. ASSUME NEW s, NEW i \in 1 .. 4
      PROVE  ValueOf(s[i]) * Place[i] \in Nat
  BY <1>1, PlaceType
<1>3. ASSUME NEW s
      PROVE  LengthOf(s) \in Nat
  <2>1. /\ ValueOf(s[1]) * Place[1] \in Nat /\ ValueOf(s[2]) * Place[2] \in Nat
        /\ ValueOf(s[3]) * Place[3] \in Nat /\ ValueOf(s[4]) * Place[4] \in Nat
    BY <1>2
  <2> QED BY <2>1 DEF LengthOf
<1> QED BY <1>3

\* decode never takes more than there is.
THEOREM DecodeStaysInside ==
    ASSUME NEW s \in Seq(Cells), Decode(s).status = "Ok"
    PROVE  Decode(s).consumed \in 0 .. Len(s)
<1> DEFINE len == LengthOf(s)
<1>1. len \in Nat /\ Len(s) \in Nat
  BY LengthType
<1>2. ~(Len(s) < 4) /\ ~(len > MaxFrameSize) /\ ~(len > Len(s) - 4)
  BY DEF Decode, Decoded
<1>3. Decode(s).consumed = 4 + len
  BY <1>2 DEF Decode, Decoded
<1> HIDE DEF len
<1> QED BY <1>1, <1>2, <1>3

-----------------------------------------------------------------------------
(* The invariant.                                                          *)

LEMMA InitWire == Init => WireConsistent
<1> SUFFICES ASSUME Init PROVE WireConsistent
  OBVIOUS
<1>1. /\ outBuf \in B!Buffers /\ B!Readable(outBuf) = <<>>
      /\ inBuf \in B!Buffers /\ B!Readable(inBuf) = <<>>
  BY BufferNew DEF Init
<1>2. B!ReadableBytes(outBuf) = 0
  BY <1>1, BufferReads
<1>3. TypeOK
  <2>1. pipe \in Seq(Cells) /\ written \in Seq(Cells) /\ taken \in Seq(Cells) /\ sent \in Seq(Messages)
    BY DEF Init
  <2>2. /\ writing = FALSE /\ ~(B!ReadableBytes(outBuf) > 0) /\ fin = FALSE /\ reading = FALSE
        /\ sender = "Connected" /\ receiver = "Connected" /\ error = "none"
    BY <1>2 DEF Init
  <2> QED BY <1>1, <2>1, <2>2 DEF TypeOK
<1>4. /\ written = <<>> /\ taken = <<>> /\ pipe = <<>>
      /\ B!Readable(inBuf) = <<>> /\ B!Readable(outBuf) = <<>>
  BY <1>1 DEF Init
<1>5. BytesConserved
  BY <1>4 DEF BytesConserved
<1> QED BY <1>3, <1>5 DEF WireConsistent

\* What is on its way, as four pieces of one sequence of cells.
LEMMA Pieces ==
    ASSUME TypeOK
    PROVE  /\ taken \in Seq(Cells) /\ B!Readable(inBuf) \in Seq(Cells)
           /\ pipe \in Seq(Cells) /\ B!Readable(outBuf) \in Seq(Cells)
           /\ taken \o B!Readable(inBuf) \in Seq(Cells)
           /\ taken \o B!Readable(inBuf) \o pipe \in Seq(Cells)
<1>1. /\ taken \in Seq(Cells) /\ pipe \in Seq(Cells)
      /\ B!Readable(inBuf) \in Seq(Cells) /\ B!Readable(outBuf) \in Seq(Cells)
  BY BufferReads DEF TypeOK
<1>2. taken \o B!Readable(inBuf) \in Seq(Cells)
  BY <1>1, Concatenated
<1> QED BY <1>1, <1>2, Concatenated

\* sendInLoop takes all of the data, into the socket or the output buffer.
LEMMA SendInLoopKeeps ==
    ASSUME TypeOK, NEW data \in Seq(Cells), data # <<>>, SendInLoop(data),
           sender = "Connected"
    PROVE  /\ outBuf' \in B!Buffers /\ pipe' \in Seq(Cells) /\ writing' \in BOOLEAN
           /\ writing' <=> B!ReadableBytes(outBuf') > 0
           /\ \A s \in Seq(Cells) :
                (s \o pipe') \o B!Readable(outBuf') = ((s \o pipe) \o B!Readable(outBuf)) \o data
<1> DEFINE out == B!Readable(outBuf)
<1>1. /\ outBuf \in B!Buffers /\ pipe \in Seq(Cells) /\ out \in Seq(Cells)
      /\ B!ReadableBytes(outBuf) = Len(out) /\ Len(data) \in Nat \ {0}
      /\ writing \in BOOLEAN /\ (writing <=> Len(out) > 0)
  BY BufferReads DEF TypeOK
<1>2. ASSUME Keep(data), UNCHANGED pipe
      PROVE  /\ outBuf' \in B!Buffers /\ pipe' \in Seq(Cells) /\ writing' \in BOOLEAN
             /\ writing' <=> B!ReadableBytes(outBuf') > 0
             /\ \A s \in Seq(Cells) :
                  (s \o pipe') \o B!Readable(outBuf') = ((s \o pipe) \o out) \o data
  <2>1. outBuf' = B!AppendBytes(outBuf, data) /\ writing' = TRUE /\ pipe' = pipe
    BY <1>2 DEF Keep
  <2>2. outBuf' \in B!Buffers /\ B!Readable(outBuf') = out \o data
    BY <1>1, <2>1, AppendAppends
  <2>3. B!ReadableBytes(outBuf') = Len(out) + Len(data)
    BY <1>1, <2>2, BufferReads, Concatenated
  <2> HIDE DEF out
  <2>4. ASSUME NEW s \in Seq(Cells)
        PROVE  (s \o pipe) \o (out \o data) = ((s \o pipe) \o out) \o data
    <3>1. s \o pipe \in Seq(Cells)
      BY <1>1, Concatenated
    <3>2. out \in Seq(Cells) /\ data \in Seq(Cells)
      BY <1>1
    <3>3. \A u \in Seq(Cells) : (u \o out) \o data = u \o (out \o data)
      BY <3>2, ConcatAssociative, SMTT(30)
    <3> QED BY <3>1, <3>3, Zenon
  <2>5. \A s \in Seq(Cells) :
           (s \o pipe') \o B!Readable(outBuf') = ((s \o pipe) \o out) \o data
    BY <2>1, <2>2, <2>4
  <2>6. writing' \in BOOLEAN /\ writing'
    BY <2>1
  <2>7. B!ReadableBytes(outBuf') > 0
    BY <1>1, <2>3
  <2>8. pipe' \in Seq(Cells)
    BY <1>1, <2>1
  <2> QED BY <2>2, <2>5, <2>6, <2>7, <2>8
<1>3. CASE B!ReadableBytes(outBuf) = 0 /\ PipeRoom > 0
          /\ \E n \in 1 .. Least(Len(data), PipeRoom) :
                /\ pipe' = pipe \o SubSeq(data, 1, n)
                /\ IF n < Len(data) THEN Keep(SubSeq(data, n + 1, Len(data)))
                                    ELSE UNCHANGED <<outBuf, writing>>
  <2>1. PICK n \in 1 .. Least(Len(data), PipeRoom) :
            /\ pipe' = pipe \o SubSeq(data, 1, n)
            /\ IF n < Len(data) THEN Keep(SubSeq(data, n + 1, Len(data)))
                                ELSE UNCHANGED <<outBuf, writing>>
    BY <1>3
  <2> DEFINE a == SubSeq(data, 1, n)
             b == SubSeq(data, n + 1, Len(data))
  <2>2. PipeRoom \in Int /\ n \in 1 .. Len(data)
    BY <1>1, FramingAssumption DEF PipeRoom, Least
  <2>3. /\ a \in Seq(Cells) /\ b \in Seq(Cells) /\ a \o b = data
        /\ Len(b) = Len(data) - n
    <3>1. n \in 0 .. Len(data)
      BY <1>1, <2>2
    <3> QED BY <3>1, Split
  <2>4. out = <<>>
    BY <1>1, <1>3, EmptySeq
  <2> HIDE DEF a, b, out
  <2>5. pipe' = pipe \o a /\ pipe' \in Seq(Cells)
    BY <1>1, <2>1, <2>3, Concatenated DEF a
  <2>6. /\ outBuf' \in B!Buffers /\ B!Readable(outBuf') = b
        /\ writing' \in BOOLEAN /\ (writing' <=> B!ReadableBytes(outBuf') > 0)
    <3>1. CASE n < Len(data)
      <4>1. outBuf' = B!AppendBytes(outBuf, b) /\ writing' = TRUE
        BY <2>1, <3>1 DEF Keep, b
      <4>2. outBuf' \in B!Buffers /\ B!Readable(outBuf') = out \o b
        BY <1>1, <2>3, <4>1, AppendAppends DEF out
      <4>3. B!Readable(outBuf') = b
        BY <2>3, <2>4, <4>2
      <4>4. Len(b) > 0 /\ B!ReadableBytes(outBuf') = Len(b)
        <5>1. Len(b) > 0
          BY <1>1, <2>2, <2>3, <3>1
        <5>2. B!ReadableBytes(outBuf') = Len(b)
          BY <4>2, <4>3, BufferReads
        <5> QED BY <5>1, <5>2
      <4> QED BY <4>1, <4>2, <4>3, <4>4
    <3>2. CASE ~(n < Len(data))
      <4>1. outBuf' = outBuf /\ writing' = writing
        BY <2>1, <3>2
      <4>2. Len(b) = 0
        BY <1>1, <2>2, <2>3, <3>2
      <4>3. b = <<>>
        BY <2>3, <4>2, EmptySeq
      <4>4. B!Readable(outBuf') = <<>>
        BY <2>4, <4>1 DEF out
      <4>5. Len(out) = 0 /\ B!ReadableBytes(outBuf') = Len(out)
        BY <1>1, <2>4, <4>1
      <4> QED BY <1>1, <4>1, <4>3, <4>4, <4>5
    <3> QED BY <3>1, <3>2
  <2>7. ASSUME NEW s \in Seq(Cells)
        PROVE  (s \o pipe') \o B!Readable(outBuf') = ((s \o pipe) \o out) \o data
    <3>1. (s \o (pipe \o a)) \o b = (s \o pipe) \o (a \o b)
      <4>1. pipe \in Seq(Cells) /\ a \in Seq(Cells) /\ b \in Seq(Cells)
        BY <1>1, <2>3
      <4>2. s \o pipe \in Seq(Cells)
        BY <4>1, Concatenated
      <4>3. s \o (pipe \o a) = (s \o pipe) \o a
        BY <4>1, ConcatAssociative, SMTT(30)
      <4>4. \A u \in Seq(Cells) : (u \o a) \o b = u \o (a \o b)
        BY <4>1, ConcatAssociative, SMTT(30)
      <4> QED BY <4>2, <4>3, <4>4, Zenon
    <3>2. s \o pipe \in Seq(Cells)
      BY <1>1, Concatenated
    <3>3. (s \o pipe) \o out = s \o pipe
      BY <2>4, <3>2
    <3> QED BY <2>3, <2>5, <2>6, <3>1, <3>3
  <2> QED BY <2>5, <2>6, <2>7 DEF out
<1>4. \/ Keep(data) /\ UNCHANGED pipe
      \/ /\ B!ReadableBytes(outBuf) = 0 /\ PipeRoom > 0
         /\ \E n \in 1 .. Least(Len(data), PipeRoom) :
                /\ pipe' = pipe \o SubSeq(data, 1, n)
                /\ IF n < Len(data) THEN Keep(SubSeq(data, n + 1, Len(data)))
                                    ELSE UNCHANGED <<outBuf, writing>>
  BY DEF SendInLoop, WriteNow
<1> QED BY <1>2, <1>3, <1>4 DEF out

\* What was sent is written, and waits.
LEMMA SendKeeps ==
    ASSUME WireConsistent, NEW m \in Messages, Send(m)
    PROVE  WireConsistent'
<1>1. Frame[m] \in Seq(Cells) /\ Frame[m] # <<>>
  BY FrameType DEF Send, NoFrame
<1>2. /\ TypeOK /\ SendInLoop(Frame[m]) /\ sender = "Connected"
      /\ written' = written \o Frame[m] /\ sent' = Append(sent, m)
      /\ UNCHANGED <<sender, fin, error, inBuf, receiver, reading, taken, delivered>>
  BY DEF Send, WireConsistent, receiverVars
<1>3. /\ outBuf' \in B!Buffers /\ pipe' \in Seq(Cells) /\ writing' \in BOOLEAN
      /\ writing' <=> B!ReadableBytes(outBuf') > 0
      /\ \A s \in Seq(Cells) :
            (s \o pipe') \o B!Readable(outBuf')
               = ((s \o pipe) \o B!Readable(outBuf)) \o Frame[m]
  BY <1>1, <1>2, SendInLoopKeeps
<1>4. TypeOK'
  <2>1. written' \in Seq(Cells)
    BY <1>1, <1>2, Concatenated DEF TypeOK
  <2>2. sent' \in Seq(Messages)
    BY <1>2 DEF TypeOK
  <2>3. /\ inBuf' \in B!Buffers /\ taken' \in Seq(Cells) /\ sender' = "Connected"
        /\ receiver' \in {"Connected", "Disconnected"} /\ reading' \in BOOLEAN /\ fin' \in BOOLEAN
        /\ error' \in {"none", "ECONNRESET", "EPIPE"}
    BY <1>2 DEF TypeOK
  <2> QED BY <1>3, <2>1, <2>2, <2>3 DEF TypeOK
<1>5. BytesConserved'
  <2>1. taken \o B!Readable(inBuf) \in Seq(Cells)
    BY <1>2, Pieces
  <2>2. ((taken \o B!Readable(inBuf)) \o pipe') \o B!Readable(outBuf')
           = (((taken \o B!Readable(inBuf)) \o pipe) \o B!Readable(outBuf)) \o Frame[m]
    BY <1>3, <2>1
  <2>3. written = ((taken \o B!Readable(inBuf)) \o pipe) \o B!Readable(outBuf)
    BY DEF WireConsistent, BytesConserved
  <2>4. taken' = taken /\ B!Readable(inBuf)' = B!Readable(inBuf) /\ written' = written \o Frame[m]
    BY <1>2 DEF B!Readable
  <2> QED BY <2>2, <2>3, <2>4 DEF BytesConserved
<1> QED BY <1>4, <1>5 DEF WireConsistent

\* What handleWrite writes leaves the output buffer.
LEMMA HandleWriteKeeps ==
    ASSUME WireConsistent, HandleWrite
    PROVE  WireConsistent'
<1> DEFINE out == B!Readable(outBuf)
           s == taken \o B!Readable(inBuf)
<1>1. /\ outBuf \in B!Buffers /\ out \in Seq(Cells) /\ B!ReadableBytes(outBuf) = Len(out)
      /\ pipe \in Seq(Cells) /\ s \in Seq(Cells) /\ Len(out) \in Nat
  BY Pieces, BufferReads DEF WireConsistent, TypeOK
<1>2. PICK n \in 1 .. Least(B!ReadableBytes(outBuf), PipeRoom) :
          /\ pipe' = pipe \o B!WriteFd(outBuf, n)
          /\ outBuf' = B!Retrieve(outBuf, n)
          /\ writing' = (B!ReadableBytes(outBuf') # 0)
  BY DEF HandleWrite
<1>3. n \in 0 .. Len(out)
  BY <1>1, <1>2, FramingAssumption DEF Least, PipeRoom
<1> DEFINE a == SubSeq(out, 1, n)
           b == SubSeq(out, n + 1, Len(out))
<1>4. a \in Seq(Cells) /\ b \in Seq(Cells) /\ a \o b = out
  BY <1>1, <1>3, Split
<1>5. outBuf' \in B!Buffers /\ B!Readable(outBuf') = b /\ pipe' = pipe \o a
  <2>1. n \in 0 .. B!ReadableBytes(outBuf)
    BY <1>1, <1>3
  <2>2. B!WriteFd(outBuf, n) = a
    BY <1>1, <2>1, FrontIsHandedOut
  <2> QED BY <1>1, <1>2, <2>1, <2>2, RetrieveConsumes
<1> HIDE DEF a, b, out, s
<1>6. pipe' \in Seq(Cells)
  BY <1>1, <1>4, <1>5, Concatenated
<1>7. writing' \in BOOLEAN /\ (writing' <=> B!ReadableBytes(outBuf') > 0)
  <2>1. B!ReadableBytes(outBuf') \in Nat
    BY <1>5, BufferReads, LenProperties
  <2>2. B!ReadableBytes(outBuf') # 0 <=> B!ReadableBytes(outBuf') > 0
    BY <2>1
  <2>3. (B!ReadableBytes(outBuf') # 0) \in BOOLEAN
    OBVIOUS
  <2>4. writing' = (B!ReadableBytes(outBuf') # 0)
    BY <1>2
  <2>5. writing' \in BOOLEAN
    BY <2>3, <2>4
  <2> QED BY <2>2, <2>4, <2>5
<1>8. UNCHANGED <<sender, fin, error, inBuf, receiver, reading, written, taken, sent, delivered>>
  BY DEF HandleWrite, receiverVars, history
<1>9. TypeOK'
  BY <1>5, <1>6, <1>7, <1>8 DEF WireConsistent, TypeOK
<1>10. (s \o (pipe \o a)) \o b = (s \o pipe) \o (a \o b)
  <2>1. s \in Seq(Cells) /\ pipe \in Seq(Cells) /\ a \in Seq(Cells) /\ b \in Seq(Cells)
    BY <1>1, <1>4
  <2>2. s \o pipe \in Seq(Cells)
    BY <2>1, Concatenated
  <2>3. s \o (pipe \o a) = (s \o pipe) \o a
    BY <2>1, ConcatAssociative, SMTT(30)
  <2>4. \A u \in Seq(Cells) : (u \o a) \o b = u \o (a \o b)
    BY <2>1, ConcatAssociative, SMTT(30)
  <2> QED BY <2>2, <2>3, <2>4, Zenon
<1>11. BytesConserved'
  <2>1. s' = s /\ written' = written
    BY <1>8 DEF s, B!Readable
  <2>2. written = (s \o pipe) \o out
    BY DEF WireConsistent, BytesConserved, s, out
  <2>3. written' = (s' \o pipe') \o B!Readable(outBuf')
    BY <1>4, <1>5, <1>10, <2>1, <2>2
  <2> QED BY <2>3 DEF BytesConserved, s
<1> QED BY <1>9, <1>11 DEF WireConsistent

\* What a read takes from the socket is in the input buffer.
LEMMA HandleReadKeeps ==
    ASSUME WireConsistent, HandleRead
    PROVE  WireConsistent'
<1> DEFINE in == B!Readable(inBuf)
           out == B!Readable(outBuf)
<1>1. /\ inBuf \in B!Buffers /\ in \in Seq(Cells) /\ taken \in Seq(Cells)
      /\ pipe \in Seq(Cells) /\ out \in Seq(Cells) /\ Len(pipe) \in Nat
  BY Pieces, BufferReads DEF WireConsistent, TypeOK
<1>2. PICK n \in 1 .. Least(Len(pipe), B!ReadFdRoom(inBuf)) :
          /\ inBuf' = B!ReadFd(inBuf, SubSeq(pipe, 1, n))
          /\ pipe' = SubSeq(pipe, n + 1, Len(pipe))
  BY DEF HandleRead
<1>3. n \in 0 .. Len(pipe)
  <2>1. B!ReadFdRoom(inBuf) \in Int
    BY <1>1, FramingAssumption DEF B!ReadFdRoom, B!WritableBytes, B!Buffers, B!BufferConstants
  <2> QED BY <1>1, <1>2, <2>1 DEF Least
<1> DEFINE a == SubSeq(pipe, 1, n)
           b == SubSeq(pipe, n + 1, Len(pipe))
<1>4. a \in Seq(Cells) /\ b \in Seq(Cells) /\ a \o b = pipe
  BY <1>1, <1>3, Split
<1> HIDE DEF a, b
<1>5. inBuf' \in B!Buffers /\ B!Readable(inBuf') = in \o a /\ pipe' = b
  <2>1. inBuf' = B!ReadFd(inBuf, a) /\ pipe' = b
    BY <1>2 DEF a, b
  <2> QED BY <1>1, <1>4, <2>1, ReadFdAppends
<1> HIDE DEF in, out
<1>6. /\ reading' = TRUE
      /\ UNCHANGED <<receiver, outBuf, writing, sender, fin, error, written, taken, sent, delivered>>
  BY DEF HandleRead, senderVars, history
<1>7. TypeOK'
  BY <1>4, <1>5, <1>6 DEF WireConsistent, TypeOK
<1>8. (taken \o (in \o a)) \o b = (taken \o in) \o (a \o b)
  <2>1. taken \in Seq(Cells) /\ in \in Seq(Cells) /\ a \in Seq(Cells) /\ b \in Seq(Cells)
    BY <1>1, <1>4
  <2>2. taken \o in \in Seq(Cells)
    BY <2>1, Concatenated
  <2>3. taken \o (in \o a) = (taken \o in) \o a
    BY <2>1, ConcatAssociative, SMTT(30)
  <2>4. \A u \in Seq(Cells) : (u \o a) \o b = u \o (a \o b)
    BY <2>1, ConcatAssociative, SMTT(30)
  <2> QED BY <2>2, <2>3, <2>4, Zenon
<1>9. BytesConserved'
  <2>1. written = ((taken \o in) \o pipe) \o out
    BY DEF WireConsistent, BytesConserved, in, out
  <2>2. taken' = taken /\ B!Readable(outBuf') = out /\ written' = written
    BY <1>6 DEF out
  <2>3. written' = ((taken' \o B!Readable(inBuf')) \o pipe') \o B!Readable(outBuf')
    BY <1>4, <1>5, <1>8, <2>1, <2>2
  <2> QED BY <2>3 DEF BytesConserved
<1> QED BY <1>7, <1>9 DEF WireConsistent

\* What onMessage takes leaves the input buffer.
LEMMA DecodeTurnKeeps ==
    ASSUME WireConsistent, DecodeTurn
    PROVE  WireConsistent'
<1> DEFINE in == B!Readable(inBuf)
           d == Decode(in)
<1>1. /\ inBuf \in B!Buffers /\ in \in Seq(Cells) /\ taken \in Seq(Cells)
      /\ B!ReadableBytes(inBuf) = Len(in)
  BY Pieces, BufferReads DEF WireConsistent, TypeOK
<1>2. UNCHANGED <<outBuf, writing, sender, pipe, fin, error, written, sent>>
  BY DEF DecodeTurn, senderVars, netVars
<1>3. CASE d.status = "Ok" /\ inBuf' = B!Retrieve(inBuf, d.consumed)
           /\ taken' = taken \o SubSeq(in, 1, d.consumed) /\ UNCHANGED <<receiver, reading>>
  <2> DEFINE n == d.consumed
             a == SubSeq(in, 1, n)
             b == SubSeq(in, n + 1, Len(in))
  <2>1. n \in 0 .. Len(in)
    BY <1>1, <1>3, DecodeStaysInside
  <2>2. a \in Seq(Cells) /\ b \in Seq(Cells) /\ a \o b = in
    BY <1>1, <2>1, Split
  <2>3. inBuf' \in B!Buffers /\ B!Readable(inBuf') = b
    BY <1>1, <1>3, <2>1, RetrieveConsumes
  <2>4. taken' = taken \o a
    BY <1>3
  <2> HIDE DEF a, b, n, d, in
  <2>5. taken' \in Seq(Cells)
    BY <1>1, <2>2, <2>4, Concatenated
  <2>6. TypeOK'
    BY <1>2, <1>3, <2>3, <2>5 DEF WireConsistent, TypeOK
  <2>7. (taken \o a) \o b = taken \o (a \o b)
    <3>1. a \in Seq(Cells) /\ b \in Seq(Cells)
      BY <2>2
    <3>2. \A w \in Seq(Cells) : (w \o a) \o b = w \o (a \o b)
      BY <3>1, ConcatAssociative, SMTT(30)
    <3> QED BY <1>1, <3>2
  <2>8. taken' \o B!Readable(inBuf') = taken \o in
    BY <2>2, <2>3, <2>4, <2>7
  <2>9. written = ((taken \o in) \o pipe) \o B!Readable(outBuf)
    BY DEF WireConsistent, BytesConserved, in
  <2>10. B!Readable(outBuf') = B!Readable(outBuf) /\ pipe' = pipe /\ written' = written
    BY <1>2
  <2>11. BytesConserved'
    BY <2>8, <2>9, <2>10 DEF BytesConserved
  <2> QED BY <2>6, <2>11 DEF WireConsistent
<1>4. CASE /\ UNCHANGED <<inBuf, taken>> /\ reading' = FALSE
           /\ receiver' \in {receiver, "Disconnected"}
  <2>1. TypeOK'
    BY <1>2, <1>4 DEF WireConsistent, TypeOK
  <2>2. BytesConserved'
    BY <1>2, <1>4 DEF WireConsistent, BytesConserved, B!Readable
  <2> QED BY <2>1, <2>2 DEF WireConsistent
<1>5. \/ d.status = "Ok" /\ inBuf' = B!Retrieve(inBuf, d.consumed)
         /\ taken' = taken \o SubSeq(in, 1, d.consumed) /\ UNCHANGED <<receiver, reading>>
      \/ /\ UNCHANGED <<inBuf, taken>> /\ reading' = FALSE
         /\ receiver' \in {receiver, "Disconnected"}
  BY DEF DecodeTurn, ReceiverGone
<1> QED BY <1>3, <1>4, <1>5

\* The other steps move no byte.
LEMMA OthersKeep ==
    ASSUME WireConsistent,
           Killed \/ SenderCloses \/ Resets \/ HandleRdHup \/ ReceiverCloses \/ UNCHANGED vars
    PROVE  WireConsistent'
<1>1. UNCHANGED <<outBuf, pipe, inBuf, written, taken, sent>>
  BY DEF Killed, SenderCloses, Resets, HandleRdHup, ReceiverCloses, vars, senderVars,
         receiverVars, netVars, history
<1>2. /\ sender' \in {"Connected", "Disconnected", "killed"} /\ writing' \in BOOLEAN
      /\ receiver' \in {"Connected", "Disconnected"} /\ reading' \in BOOLEAN /\ fin' \in BOOLEAN
      /\ error' \in {"none", "ECONNRESET", "EPIPE"}
      /\ sender' = "Connected" => sender = "Connected" /\ writing' = writing
  <2>1. CASE Killed
    BY <2>1 DEF Killed, WireConsistent, TypeOK, receiverVars
  <2>2. CASE SenderCloses
    BY <2>2 DEF SenderCloses, WireConsistent, TypeOK, receiverVars
  <2>3. CASE Resets
    BY <2>3 DEF Resets, WireConsistent, TypeOK, receiverVars, senderVars
  <2>4. CASE HandleRdHup \/ ReceiverCloses
    BY <2>4 DEF HandleRdHup, ReceiverCloses, ReceiverGone, WireConsistent, TypeOK, senderVars, netVars
  <2>5. CASE UNCHANGED vars
    BY <2>5 DEF vars, WireConsistent, TypeOK, senderVars, receiverVars, netVars
  <2> QED BY <2>1, <2>2, <2>3, <2>4, <2>5
<1>3. TypeOK'
  BY <1>1, <1>2 DEF WireConsistent, TypeOK
<1>4. BytesConserved'
  BY <1>1 DEF WireConsistent, BytesConserved, B!Readable
<1> QED BY <1>3, <1>4 DEF WireConsistent

\* The positions of both buffers stay inside their vectors, whatever is
\* written, read, grown and shifted; EPOLLOUT is asked for while output waits;
\* and no byte is lost, doubled or overtaken between sendInLoop and onMessage.
THEOREM WireInvariant == Safety => []WireConsistent
<1>1. WireConsistent /\ [Next]_vars => WireConsistent'
  BY SendKeeps, HandleWriteKeeps, HandleReadKeeps, DecodeTurnKeeps, OthersKeep DEF Next
<1> QED BY InitWire, <1>1, PTL DEF Safety

-----------------------------------------------------------------------------
(* The messages, as they are delivered.                                    *)

\* A message that the parser of the other end accepts is the one that was sent.
LEMMA RequestRoundTrip ==
    ASSUME NEW m \in Messages, RequestParse(RequestDefault, RequestSerialize(m)).ok
    PROVE  /\ RequestParse(RequestDefault, RequestSerialize(m)).msg = m
           /\ \A num \in DOMAIN RequestFields :
                RequestFields[num].utf8 => m[RequestFields[num].name] # BadUtf8
<1> DEFINE F == RequestFields
           w == Serialized(F, m)
           end == Run(F, Reading(RequestDefault), w)
<1>1. Typed(F, m) /\ Schema(F) /\ Defaults(F, RequestDefault) /\ DOMAIN F = 1 .. 4
  BY RequestTyped, Schemas, DefaultInstances, FramingAssumption DEF Schema
<1>2. RequestParse(RequestDefault, RequestSerialize(m))
        = [ok |-> ~end.over /\ end.tag = NoTag, msg |-> end.msg]
  BY DEF RequestParse, RequestSerialize, ParsedInto
<1>3. /\ Readable(F, m, 4) => end = Reading(Merged(F, RequestDefault, m))
      /\ ~Readable(F, m, 4) => \E j \in 1 .. 4 : end = Spoilt(Partly(F, RequestDefault, m, j))
  BY <1>1, SerializedRead DEF Defaults
<1>4. Merged(F, RequestDefault, m) = m
  BY <1>1, MergedIntoDefault
<1> HIDE DEF end
<1>5. ~end.over
  <2>1. [ok |-> ~end.over /\ end.tag = NoTag, msg |-> end.msg].ok
    BY <1>2
  <2> QED  BY <2>1
<1>6. Readable(F, m, 4)
  BY <1>3, <1>5 DEF Spoilt
<1>7. RequestParse(RequestDefault, RequestSerialize(m)).msg = m
  BY <1>2, <1>3, <1>4, <1>6 DEF Reading
<1> QED  BY <1>1, <1>6, <1>7 DEF Readable

-----------------------------------------------------------------------------
(* The length of a frame.                                                  *)

\* ntohl of what htonl made.
LEMMA LengthRoundTrip ==
    ASSUME NEW n \in 0 .. UInt32Max, NEW s, \A i \in 1 .. 4 : s[i] = LengthCells(n)[i]
    PROVE  LengthOf(s) = n
<1> DEFINE b == ByteBase
           q3 == n \div b
           q2 == q3 \div b
           q1 == q2 \div b
<1>1. b \in Nat \ {0} /\ b * b \in Nat \ {0} /\ b * b * b \in Nat \ {0} /\ n \in Nat
  <2>1. b \in Nat \ {0}
    BY CodecAssumption
  <2>2. b * b \in Nat \ {0}
    BY <2>1
  <2>3. b * b * b \in Nat \ {0}
    BY <2>1, <2>2
  <2>4. b * b * b * b \in Nat
    BY <2>1, <2>3
  <2>5. n \in 0 .. b * b * b * b - 1
    BY DEF UInt32Max
  <2> QED  BY <2>1, <2>2, <2>3, <2>4, <2>5
<1>2. n < b * b * b * b
  <2>1. b * b * b * b \in Nat
    BY <1>1
  <2>2. n \in 0 .. b * b * b * b - 1
    BY DEF UInt32Max
  <2> QED  BY <2>1, <2>2
<1> HIDE DEF b
<1>3. q3 \in Nat /\ n % b \in 0 .. b - 1 /\ n = b * q3 + (n % b)
  BY <1>1, Euclid
<1>4. q2 \in Nat /\ q3 % b \in 0 .. b - 1 /\ q3 = b * q2 + (q3 % b)
  <2> HIDE DEF q3
  <2> QED  BY <1>1, <1>3, Euclid
<1>5. q1 \in Nat /\ q2 % b \in 0 .. b - 1 /\ q2 = b * q1 + (q2 % b)
  <2> HIDE DEF q2
  <2> QED  BY <1>1, <1>4, Euclid
<1>6. n \div (b * b) = q2 /\ n \div (b * b * b) = q1 /\ n \div 1 = n
  <2>1. n \div (b * b) = q2
    BY <1>1, DivDiv
  <2>2. n \div ((b * b) * b) = (n \div (b * b)) \div b
    BY <1>1, DivDiv
  <2>3. n \div 1 = n
    BY <1>1
  <2> QED  BY <2>1, <2>2, <2>3
<1> DEFINE d1 == q1
           d2 == q2 % b
           d3 == q3 % b
           d4 == n % b
<1> HIDE DEF q1, q2, q3
<1>7. q1 \in 0 .. b - 1 /\ q1 % b = q1
  <2>1. q1 < b
    <3> SUFFICES ASSUME b <= q1 PROVE FALSE
      BY <1>1, <1>5
    <3>1. b * b <= b * q1 /\ b * q1 <= q2
      BY <1>1, <1>5
    <3>2. b * (b * b) <= b * q2 /\ b * q2 <= q3
      <4>1. b * b <= q2
        BY <1>1, <1>4, <1>5, <3>1
      <4> QED  BY <1>1, <1>4, <4>1
    <3>3. b * (b * (b * b)) <= b * q3 /\ b * q3 <= n
      <4>1. b * (b * b) <= q3 /\ b * (b * b) \in Nat
        BY <1>1, <1>3, <1>4, <3>2
      <4> QED  BY <1>1, <1>3, <4>1
    <3>4. b * (b * (b * b)) = b * b * b * b
      BY <1>1
    <3>5. b * b * b * b <= n
      BY <1>1, <1>3, <3>3, <3>4
    <3> QED  BY <1>1, <1>2, <3>5
  <2>2. q1 \in 0 .. b - 1
    BY <1>1, <1>5, <2>1
  <2>3. q1 % b = q1
    <3>1. q1 % b \in 0 .. b - 1 /\ q1 = b * (q1 \div b) + (q1 % b) /\ q1 \div b \in Nat
      BY <1>1, <1>5, Euclid
    <3>2. q1 \div b = 0
      <4>1. q1 = b * 0 + q1
        BY <1>1, <1>5
      <4> QED  BY <1>1, <1>5, <2>2, <4>1, DivUnique
    <3> QED  BY <1>1, <1>5, <3>1, <3>2
  <2> QED  BY <2>2, <2>3
<1>8. /\ s[1] = Digit(q1) /\ s[2] = Digit(d2) /\ s[3] = Digit(d3) /\ s[4] = Digit(d4)
  <2>1. /\ Place[1] = b * b * b /\ Place[2] = b * b /\ Place[3] = b /\ Place[4] = 1
    BY DEF Place, b
  <2>2. \A i \in 1 .. 4 : s[i] = Digit((n \div Place[i]) % b)
    BY DEF LengthCells, b
  <2>3. s[1] = Digit((n \div Place[1]) % b) /\ s[2] = Digit((n \div Place[2]) % b)
        /\ s[3] = Digit((n \div Place[3]) % b) /\ s[4] = Digit((n \div Place[4]) % b)
    BY <2>2
  <2> QED  BY <1>6, <1>7, <2>1, <2>3 DEF q3
<1>9. \A d \in 0 .. b - 1 : ValueOf(Digit(d)) = d
  BY DEF ValueOf, Digit, b
<1>10. LengthOf(s) = q1 * (b * b * b) + d2 * (b * b) + d3 * b + d4 * 1
  <2>1. ValueOf(s[1]) = q1 /\ ValueOf(s[2]) = d2 /\ ValueOf(s[3]) = d3 /\ ValueOf(s[4]) = d4
    BY <1>3, <1>4, <1>5, <1>7, <1>8, <1>9
  <2>2. /\ Place[1] = b * b * b /\ Place[2] = b * b /\ Place[3] = b /\ Place[4] = 1
    BY DEF Place, b
  <2> QED  BY <2>1, <2>2 DEF LengthOf
<1> HIDE DEF d2, d3, d4
<1>11. d2 \in Nat /\ d3 \in Nat /\ d4 \in Nat /\ q2 = b * q1 + d2 /\ q3 = b * q2 + d3 /\ n = b * q3 + d4
  BY <1>1, <1>3, <1>4, <1>5 DEF d2, d3, d4
<1>12. q1 * (b * b * b) + d2 * (b * b) + d3 * b + d4 * 1 = n
  <2>1. q2 * (b * b) = q1 * (b * b * b) + d2 * (b * b)
    BY <1>1, <1>5, <1>11
  <2>2. q3 * b = q2 * (b * b) + d3 * b
    BY <1>1, <1>4, <1>11
  <2>3. n = q3 * b + d4
    BY <1>1, <1>3, <1>11
  <2>4. /\ q1 * (b * b * b) \in Nat /\ d2 * (b * b) \in Nat /\ d3 * b \in Nat
        /\ q2 * (b * b) \in Nat /\ q3 * b \in Nat
    BY <1>1, <1>3, <1>4, <1>5, <1>11
  <2> QED  BY <1>11, <2>1, <2>2, <2>3, <2>4
<1> QED  BY <1>10, <1>12

-----------------------------------------------------------------------------
(* What onMessage decodes.                                                 *)

\* A frame: four digits and the message.
LEMMA FrameIs ==
    ASSUME NEW m \in Messages, Frame[m] # NoFrame
    PROVE  LET data == RequestSerialize(m)
               len == Len(data)
           IN  /\ data \in Seq(Cells) /\ len \in 0 .. UInt32Max
               /\ Frame[m] \in Seq(Cells) /\ Len(Frame[m]) = 4 + len
               /\ \A i \in 1 .. 4 : Frame[m][i] = LengthCells(len)[i]
               /\ \A i \in 1 .. len : Frame[m][4 + i] = data[i]
<1> DEFINE data == RequestSerialize(m)
           len == Len(data)
           head == LengthCells(len)
<1>1. data \in Seq(Cells) /\ len \in Nat
  BY RequestCells
<1>2. UInt32Max \in Nat
  <2>1. ByteBase * ByteBase * ByteBase * ByteBase \in Nat \ {0}
    <3>1. ByteBase \in Nat \ {0}
      BY CodecAssumption
    <3>2. ByteBase * ByteBase * ByteBase \in Nat \ {0}
      BY <3>1
    <3> QED  BY <3>1, <3>2
  <2> QED  BY <2>1 DEF UInt32Max
<1>3. Frame[m] = Encode(data)
  BY DEF Frame
<1>4. ~(len > UInt32Max) /\ Frame[m] = head \o data
  BY <1>3 DEF Encode
<1>5. Frame[m] \in Seq(Cells)
  BY FrameType
<1>6. head \in Seq({head[i] : i \in 1 .. 4}) /\ Len(head) = 4
  BY DEF LengthCells
<1> DEFINE S == Cells \cup {head[i] : i \in 1 .. 4}
<1>7. head \in Seq(S) /\ data \in Seq(S)
  <2> HIDE DEF head, data
  <2> QED  BY <1>1, <1>6
<1> HIDE DEF S, head
<1>8. /\ Len(head \o data) = 4 + len
      /\ \A i \in 1 .. 4 : (head \o data)[i] = head[i]
      /\ \A i \in 1 .. len : (head \o data)[4 + i] = data[i]
  <2> HIDE DEF data
  <2> QED  BY <1>6, <1>7, Concatenated
<1> QED  BY <1>1, <1>2, <1>4, <1>5, <1>8 DEF head

\* If what waits to be read begins as a frame does, what decode makes of it is
\* the message of the frame, and it takes that frame and no more.
THEOREM DecodesTheFrame ==
    ASSUME NEW m \in Messages, Frame[m] # NoFrame, NEW s \in Seq(Cells),
           \A i \in 1 .. Len(s) : i <= Len(Frame[m]) => s[i] = Frame[m][i],
           Decode(s).status = "Ok"
    PROVE  /\ m \in Acceptable
           /\ Decode(s).msg = m
           /\ Decode(s).consumed = Len(Frame[m])
<1> DEFINE data == RequestSerialize(m)
           len == Len(data)
           p == RequestParse(RequestDefault, data)
<1>1. /\ data \in Seq(Cells) /\ len \in 0 .. UInt32Max /\ len \in Nat
      /\ Len(Frame[m]) = 4 + len
      /\ \A i \in 1 .. 4 : Frame[m][i] = LengthCells(len)[i]
      /\ \A i \in 1 .. len : Frame[m][4 + i] = data[i]
  BY FrameIs
<1>2. ~(Len(s) < 4) /\ ~(LengthOf(s) > MaxFrameSize) /\ ~(LengthOf(s) > Len(s) - 4)
  BY DEF Decode, Decoded
<1>3. Len(s) \in Nat /\ Len(s) >= 4
  BY <1>2
<1>4. \A i \in 1 .. 4 : s[i] = LengthCells(len)[i]
  <2> HIDE DEF data, len
  <2> QED  BY <1>1, <1>3
<1>5. LengthOf(s) = len
  BY <1>1, <1>4, LengthRoundTrip
<1>6. len <= MaxFrameSize /\ 4 + len <= Len(s)
  <2>1. MaxFrameSize \in Int
    BY CodecAssumption
  <2> QED  BY <1>1, <1>2, <1>3, <1>5, <2>1
<1>7. SubSeq(s, 5, 4 + len) = data
  <2> HIDE DEF data
  <2>1. 4 \in Nat /\ 4 + len \in Nat /\ 4 <= 4 + len
    BY <1>1
  <2>2. /\ SubSeq(s, 4 + 1, 4 + len) \in Seq(Cells)
        /\ Len(SubSeq(s, 4 + 1, 4 + len)) = (4 + len) - 4
        /\ \A i \in 1 .. (4 + len) - 4 : SubSeq(s, 4 + 1, 4 + len)[i] = s[4 + i]
    BY <1>6, <2>1, PartOf
  <2> DEFINE t == SubSeq(s, 5, 4 + len)
  <2>3. t \in Seq(Cells) /\ Len(t) = len /\ \A i \in 1 .. len : t[i] = s[4 + i]
    BY <1>1, <2>2
  <2>4. \A i \in 1 .. len : s[4 + i] = data[i]
    BY <1>1, <1>3, <1>6
  <2>5. \A i \in 1 .. Len(t) : t[i] = data[i]
    BY <2>3, <2>4
  <2> HIDE DEF t
  <2>6. t = data
    BY <1>1, <2>3, <2>5, SeqEqual
  <2> QED  BY <2>6 DEF t
<1>8. Decode(s) = Decoded(IF p.ok THEN "Ok" ELSE "Corrupted", 4 + len, p.msg)
  <2> HIDE DEF len, data
  <2> QED  BY <1>2, <1>5, <1>7 DEF Decode
<1> HIDE DEF p
<1>9. p.ok /\ Decode(s).consumed = 4 + len /\ Decode(s).msg = p.msg
  <2> HIDE DEF len
  <2> QED  BY <1>8 DEF Decoded
<1>10. /\ p.msg = m
       /\ \A num \in DOMAIN RequestFields :
            RequestFields[num].utf8 => m[RequestFields[num].name] # BadUtf8
  BY <1>9, RequestRoundTrip DEF p
<1> QED  BY <1>1, <1>6, <1>9, <1>10 DEF Acceptable

-----------------------------------------------------------------------------
(* What was written, frame by frame.                                       *)

\* The frames of `s` end, in cells `w`, where `cut` says.
Cuts(cut, s, w) ==
    /\ cut \in [0 .. Len(s) -> Nat]
    /\ cut[0] = 0
    /\ cut[Len(s)] = Len(w)
    /\ \A i \in 1 .. Len(s) :
        /\ Frame[s[i]] # NoFrame
        /\ cut[i] = cut[i - 1] + Len(Frame[s[i]])
        /\ \A j \in 1 .. Len(Frame[s[i]]) : w[cut[i - 1] + j] = Frame[s[i]][j]

\* As many messages are delivered as frames were taken, whole.
FramesInv ==
    /\ delivered \in Seq(Messages)
    /\ Len(delivered) <= Len(sent)
    /\ \E cut : Cuts(cut, sent, written) /\ cut[Len(delivered)] = Len(taken)

StreamInv == WireConsistent /\ FramesInv

\* At first nothing is sent.
LEMMA InitFrames == Init => FramesInv
<1> SUFFICES ASSUME Init PROVE FramesInv
  OBVIOUS
<1> DEFINE cut == [i \in 0 .. 0 |-> 0]
<1>1. sent = <<>> /\ delivered = <<>> /\ written = <<>> /\ taken = <<>> /\ Len(<<>>) = 0
  BY DEF Init
<1>2. cut \in [0 .. 0 -> Nat] /\ cut[0] = 0
  OBVIOUS
<1> HIDE DEF cut
<1>3. Cuts(cut, <<>>, <<>>)
  <2>1. \A i \in 1 .. 0 : FALSE
    OBVIOUS
  <2> QED  BY <1>1, <1>2, <2>1 DEF Cuts
<1>4. <<>> \in Seq(Messages) /\ Len(<<>>) <= Len(<<>>)
  OBVIOUS
<1> QED  BY <1>1, <1>2, <1>3, <1>4 DEF FramesInv

\* One more frame is written.
LEMMA OneMoreFrame ==
    ASSUME NEW s \in Seq(Messages), NEW w \in Seq(Cells), NEW cut, Cuts(cut, s, w),
           NEW m \in Messages, Frame[m] # NoFrame
    PROVE  \E new : /\ Cuts(new, Append(s, m), w \o Frame[m])
                    /\ \A i \in 0 .. Len(s) : new[i] = cut[i]
<1> DEFINE n == Len(s)
           f == Frame[m]
           t == Append(s, m)
           v == w \o f
           new == [i \in 0 .. n + 1 |-> IF i = n + 1 THEN Len(v) ELSE cut[i]]
<1>1. /\ n \in Nat /\ t \in Seq(Messages) /\ Len(t) = n + 1 /\ t[n + 1] = m
      /\ \A i \in 1 .. n : t[i] = s[i]
  OBVIOUS
<1>2. f \in Seq(Cells) /\ Len(f) \in Nat /\ Len(w) \in Nat
  BY FrameType
<1>3. /\ Len(v) = Len(w) + Len(f)
      /\ \A i \in 1 .. Len(w) : v[i] = w[i]
      /\ \A i \in 1 .. Len(f) : v[Len(w) + i] = f[i]
  <2> HIDE DEF f
  <2> QED  BY <1>2, Concatenated
<1> HIDE DEF n, t, v, f
<1>4. /\ \A i \in 0 .. n : cut[i] \in Nat
      /\ cut[0] = 0 /\ cut[n] = Len(w)
      /\ \A i \in 1 .. n :
            /\ Frame[s[i]] # NoFrame
            /\ cut[i] = cut[i - 1] + Len(Frame[s[i]])
            /\ \A j \in 1 .. Len(Frame[s[i]]) : w[cut[i - 1] + j] = Frame[s[i]][j]
  BY DEF Cuts, n
<1>5. /\ \A i \in 0 .. n : new[i] = cut[i]
      /\ new[n + 1] = Len(v) /\ new \in [0 .. n + 1 -> Nat]
  BY <1>1, <1>2, <1>3, <1>4
<1> HIDE DEF new
<1>6. \A i \in 1 .. n : cut[i] <= Len(w)
  <2> DEFINE S == {k \in Nat : k <= n => cut[n - k] <= Len(w)}
  <2>1. 0 \in S
    BY <1>1, <1>2, <1>4
  <2>2. ASSUME NEW k \in Nat, k \in S PROVE k + 1 \in S
    <3> SUFFICES ASSUME k + 1 <= n PROVE cut[n - (k + 1)] <= Len(w)
      OBVIOUS
    <3> DEFINE i == n - k
    <3>1. i \in 1 .. n /\ i - 1 = n - (k + 1) /\ i - 1 \in 0 .. n /\ i \in 0 .. n
      BY <1>1
    <3>2. cut[i] <= Len(w)
      <4>1. k <= n
        BY <1>1
      <4> QED  BY <2>2, <4>1
    <3> HIDE DEF i
    <3>3. s[i] \in Messages
      BY <3>1 DEF n
    <3>4. Len(Frame[s[i]]) \in Nat
      BY <3>3, FrameType
    <3>5. cut[i] = cut[i - 1] + Len(Frame[s[i]])
      BY <1>4, <3>1
    <3> QED  BY <1>2, <1>4, <3>1, <3>2, <3>4, <3>5
  <2> HIDE DEF S
  <2>3. \A k \in Nat : k \in S
    BY <2>1, <2>2, AllNumbers
  <2> SUFFICES ASSUME NEW i \in 1 .. n PROVE cut[i] <= Len(w)
    OBVIOUS
  <2>4. n - i \in Nat /\ n - i <= n /\ n - (n - i) = i
    BY <1>1
  <2> QED  BY <2>3, <2>4 DEF S
<1>7. ASSUME NEW i \in 1 .. n + 1
      PROVE  /\ Frame[t[i]] # NoFrame
             /\ new[i] = new[i - 1] + Len(Frame[t[i]])
             /\ \A j \in 1 .. Len(Frame[t[i]]) : v[new[i - 1] + j] = Frame[t[i]][j]
  <2>1. CASE i = n + 1
    <3>1. i - 1 = n /\ n \in 0 .. n
      BY <1>1, <2>1
    <3>2. new[i - 1] = Len(w) /\ new[i] = Len(v) /\ t[i] = m
      BY <1>1, <1>4, <1>5, <2>1, <3>1
    <3> QED  BY <1>3, <3>2 DEF f
  <2>2. CASE i # n + 1
    <3>1. i \in 1 .. n /\ i - 1 \in 0 .. n /\ i \in 0 .. n
      BY <1>1, <2>2
    <3>2. t[i] = s[i] /\ new[i] = cut[i] /\ new[i - 1] = cut[i - 1] /\ s[i] \in Messages
      BY <1>1, <1>5, <3>1 DEF n
    <3>3. Len(Frame[s[i]]) \in Nat /\ cut[i - 1] \in Nat /\ cut[i] <= Len(w)
      BY <1>4, <1>6, <3>1, <3>2, FrameType
    <3>4. cut[i] = cut[i - 1] + Len(Frame[s[i]])
      BY <1>4, <3>1
    <3>5. ASSUME NEW j \in 1 .. Len(Frame[s[i]])
          PROVE  v[cut[i - 1] + j] = Frame[s[i]][j]
      <4>1. cut[i - 1] + j \in 1 .. Len(w)
        BY <1>2, <3>3, <3>4
      <4>2. w[cut[i - 1] + j] = Frame[s[i]][j]
        BY <1>4, <3>1
      <4> QED  BY <1>3, <4>1, <4>2
    <3> QED  BY <1>4, <3>1, <3>2, <3>4, <3>5
  <2> QED  BY <2>1, <2>2
<1>8. Cuts(new, t, v)
  <2>1. 0 \in 0 .. n
    BY <1>1
  <2> QED  BY <1>1, <1>4, <1>5, <1>7, <2>1 DEF Cuts
<1> QED  BY <1>5, <1>8 DEF t, v, n, f

\* What waits to be read follows, among what was written, what was taken.
LEMMA WaitsBehindTaken ==
    ASSUME WireConsistent
    PROVE  LET in == B!Readable(inBuf) IN
           /\ in \in Seq(Cells) /\ Len(taken) \in Nat
           /\ Len(taken) + Len(in) <= Len(written)
           /\ \A i \in 1 .. Len(in) : written[Len(taken) + i] = in[i]
<1> DEFINE in == B!Readable(inBuf)
           out == B!Readable(outBuf)
           u == taken \o in
           v == u \o pipe
           w == v \o out
<1>1. /\ taken \in Seq(Cells) /\ in \in Seq(Cells) /\ pipe \in Seq(Cells) /\ out \in Seq(Cells)
      /\ u \in Seq(Cells) /\ v \in Seq(Cells)
  BY Pieces DEF WireConsistent
<1>2. written = w
  BY DEF WireConsistent, BytesConserved
<1> HIDE DEF in, out
<1>3. /\ Len(u) = Len(taken) + Len(in)
      /\ \A i \in 1 .. Len(in) : u[Len(taken) + i] = in[i]
  BY <1>1, Concatenated
<1> HIDE DEF u
<1>4. Len(v) = Len(u) + Len(pipe) /\ \A i \in 1 .. Len(u) : v[i] = u[i]
  BY <1>1, Concatenated
<1> HIDE DEF v
<1>5. Len(w) = Len(v) + Len(out) /\ \A i \in 1 .. Len(v) : w[i] = v[i]
  BY <1>1, Concatenated
<1> HIDE DEF w
<1>6. Len(taken) \in Nat /\ Len(in) \in Nat /\ Len(pipe) \in Nat /\ Len(out) \in Nat
  BY <1>1
<1>7. Len(taken) + Len(in) <= Len(written)
  BY <1>2, <1>3, <1>4, <1>5, <1>6
<1>8. ASSUME NEW i \in 1 .. Len(in) PROVE written[Len(taken) + i] = in[i]
  <2>1. Len(taken) + i \in 1 .. Len(u) /\ Len(taken) + i \in 1 .. Len(v)
    BY <1>3, <1>4, <1>6
  <2> QED  BY <1>2, <1>3, <1>4, <1>5, <2>1
<1> QED  BY <1>1, <1>6, <1>7, <1>8 DEF in

\* A turn that decodes a message delivers the next one that was sent.
LEMMA NextIsDelivered ==
    ASSUME StreamInv, DecodeTurn, Decode(B!Readable(inBuf)).status = "Ok"
    PROVE  /\ Len(delivered) < Len(sent)
           /\ sent[Len(delivered) + 1] \in Acceptable
           /\ delivered' = Append(delivered, sent[Len(delivered) + 1])
           /\ UNCHANGED <<sent, sender, receiver>>
           /\ FramesInv'
<1> DEFINE in == B!Readable(inBuf)
           d == Decode(in)
           k == Len(delivered)
           n == Len(sent)
<1>1. /\ in \in Seq(Cells) /\ Len(in) \in Nat /\ Len(taken) \in Nat
      /\ Len(taken) + Len(in) <= Len(written)
      /\ \A i \in 1 .. Len(in) : written[Len(taken) + i] = in[i]
  BY WaitsBehindTaken DEF StreamInv
<1>2. /\ delivered \in Seq(Messages) /\ k \in Nat /\ k <= n /\ n \in Nat
      /\ sent \in Seq(Messages) /\ taken \in Seq(Cells)
  BY DEF StreamInv, FramesInv, WireConsistent, TypeOK
<1>3. PICK cut : Cuts(cut, sent, written) /\ cut[k] = Len(taken)
  BY DEF StreamInv, FramesInv
<1>4. /\ taken' = taken \o SubSeq(in, 1, d.consumed)
      /\ delivered' = Append(delivered, d.msg)
      /\ UNCHANGED <<sent, sender, receiver, written>>
  BY DEF DecodeTurn, senderVars
<1>5. ~(Len(in) < 4)
  BY DEF Decode, Decoded
<1> HIDE DEF in
<1>6. k < n
  <2>1. cut[n] = Len(written)
    BY <1>3 DEF Cuts
  <2>2. k # n
    BY <1>1, <1>3, <1>5, <2>1
  <2> QED  BY <1>2, <2>2
<1> DEFINE m == sent[k + 1]
<1>7. k + 1 \in 1 .. n /\ (k + 1) - 1 = k /\ m \in Messages
  BY <1>2, <1>6
<1>8. /\ Frame[m] # NoFrame
      /\ cut[k + 1] = cut[k] + Len(Frame[m])
      /\ \A j \in 1 .. Len(Frame[m]) : written[cut[k] + j] = Frame[m][j]
  BY <1>3, <1>7 DEF Cuts
<1> HIDE DEF m
<1>9. \A i \in 1 .. Len(in) : i <= Len(Frame[m]) => in[i] = Frame[m][i]
  <2>1. Len(Frame[m]) \in Nat
    BY <1>7, FrameType
  <2> QED  BY <1>1, <1>3, <1>8, <2>1
<1>10. m \in Acceptable /\ d.msg = m /\ d.consumed = Len(Frame[m])
  BY <1>1, <1>7, <1>8, <1>9, DecodesTheFrame DEF in
<1>11. delivered' = Append(delivered, m) /\ delivered' \in Seq(Messages) /\ Len(delivered') = k + 1
  BY <1>2, <1>4, <1>7, <1>10
<1>12. Len(taken') = cut[k + 1]
  <2>1. d.consumed \in 0 .. Len(in)
    BY <1>1, DecodeStaysInside DEF in
  <2> DEFINE a == SubSeq(in, 1, d.consumed)
  <2> HIDE DEF d
  <2>2. a \in Seq(Cells) /\ Len(a) = d.consumed
    BY <1>1, <2>1, Split
  <2> HIDE DEF a
  <2>3. Len(taken \o a) = Len(taken) + Len(a)
    BY <1>2, <2>2, Concatenated
  <2>4. Len(taken') = Len(taken) + d.consumed
    BY <1>4, <2>2, <2>3 DEF a
  <2> QED  BY <1>3, <1>8, <1>10, <2>4
<1>13. FramesInv'
  <2>1. Cuts(cut, sent', written') /\ cut[Len(delivered')] = Len(taken')
    BY <1>3, <1>4, <1>11, <1>12
  <2>2. Len(delivered') <= Len(sent')
    BY <1>2, <1>4, <1>6, <1>11
  <2> QED  BY <1>11, <2>1, <2>2 DEF FramesInv
<1> QED  BY <1>4, <1>6, <1>10, <1>11, <1>13 DEF m

\* The other turns, and the steps of no turn, deliver nothing.
LEMMA OthersDeliverNothing ==
    ASSUME StreamInv, UNCHANGED <<sent, delivered, written, taken>>
    PROVE  FramesInv'
BY DEF StreamInv, FramesInv

\* Send is the only step that writes.
LEMMA SendFrames ==
    ASSUME StreamInv, NEW m \in Messages, Send(m)
    PROVE  /\ FramesInv'
           /\ sent' = Append(sent, m)
           /\ UNCHANGED <<delivered, sender, receiver>>
<1>1. /\ Frame[m] # NoFrame /\ sent' = Append(sent, m) /\ written' = written \o Frame[m]
      /\ UNCHANGED <<delivered, sender, receiver, taken>>
  BY DEF Send, receiverVars
<1>2. /\ sent \in Seq(Messages) /\ written \in Seq(Cells) /\ delivered \in Seq(Messages)
      /\ Len(delivered) <= Len(sent)
  BY DEF StreamInv, FramesInv, WireConsistent, TypeOK
<1>3. PICK cut : Cuts(cut, sent, written) /\ cut[Len(delivered)] = Len(taken)
  BY DEF StreamInv, FramesInv
<1>4. PICK new : /\ Cuts(new, Append(sent, m), written \o Frame[m])
                 /\ \A i \in 0 .. Len(sent) : new[i] = cut[i]
  BY <1>1, <1>2, <1>3, OneMoreFrame
<1>5. Len(delivered) \in 0 .. Len(sent) /\ Len(sent') = Len(sent) + 1
  BY <1>1, <1>2
<1>6. Cuts(new, sent', written') /\ new[Len(delivered')] = Len(taken')
  BY <1>1, <1>3, <1>4, <1>5
<1>7. Len(delivered') <= Len(sent') /\ delivered' \in Seq(Messages)
  BY <1>1, <1>2, <1>5
<1> QED  BY <1>1, <1>6, <1>7 DEF FramesInv

\* Every step is one of the stream's, or none, and keeps the invariant.
LEMMA StepStreams ==
    ASSUME StreamInv, [Next]_vars
    PROVE  FramesInv' /\ [Stream!Next]_(Stream!vars)
<1> DEFINE open == sender = "Connected" /\ receiver = "Connected"
<1>1. ASSUME NEW m \in Messages, Send(m) PROVE FramesInv' /\ [Stream!Next]_(Stream!vars)
  <2>1. FramesInv' /\ sent' = Append(sent, m) /\ UNCHANGED <<delivered, sender, receiver>>
    BY <1>1, SendFrames
  <2>2. Stream!Send
    BY <2>1 DEF Stream!Send
  <2> QED  BY <2>1, <2>2 DEF Stream!Next
<1>2. ASSUME UNCHANGED <<sent, delivered, written, taken>>,
             (sender' = "Connected" /\ receiver' = "Connected") = open
                \/ ~(sender' = "Connected" /\ receiver' = "Connected")
      PROVE  FramesInv' /\ [Stream!Next]_(Stream!vars)
  <2>1. FramesInv'
    BY <1>2, OthersDeliverNothing
  <2>2. CASE (sender' = "Connected" /\ receiver' = "Connected") = open
    BY <1>2, <2>1, <2>2 DEF Stream!vars
  <2>3. CASE ~(sender' = "Connected" /\ receiver' = "Connected")
    <3>1. Stream!Close
      BY <1>2, <2>3 DEF Stream!Close
    <3> QED  BY <2>1, <3>1 DEF Stream!Next
  <2> QED  BY <1>2, <2>2, <2>3
<1>3. CASE HandleWrite \/ Resets \/ HandleRead \/ UNCHANGED vars
  <2>1. UNCHANGED <<sent, delivered, written, taken, sender, receiver>>
    BY <1>3 DEF HandleWrite, Resets, HandleRead, vars, senderVars, receiverVars, history
  <2> QED  BY <1>2, <2>1
<1>4. CASE Killed \/ SenderCloses \/ HandleRdHup \/ ReceiverCloses
  <2>1. UNCHANGED <<sent, delivered, written, taken>>
    BY <1>4 DEF Killed, SenderCloses, HandleRdHup, ReceiverCloses, history
  <2>2. sender' # "Connected" \/ receiver' # "Connected"
    BY <1>4 DEF Killed, SenderCloses, HandleRdHup, ReceiverCloses, ReceiverGone
  <2> QED  BY <1>2, <2>1, <2>2
<1>5. CASE DecodeTurn
  <2> DEFINE d == Decode(B!Readable(inBuf))
  <2>1. CASE d.status = "Ok"
    <3>1. /\ Len(delivered) < Len(sent)
          /\ sent[Len(delivered) + 1] \in Acceptable
          /\ delivered' = Append(delivered, sent[Len(delivered) + 1])
          /\ UNCHANGED <<sent, sender, receiver>>
          /\ FramesInv'
      BY <1>5, <2>1, NextIsDelivered
    <3>2. Stream!Deliver
      BY <3>1 DEF Stream!Deliver, Stream!Waiting, Stream!NextUp
    <3> QED  BY <3>1, <3>2 DEF Stream!Next
  <2>2. CASE d.status # "Ok"
    <3>1. /\ UNCHANGED <<sent, delivered, written, taken, sender>>
          /\ receiver' = receiver \/ receiver' = "Disconnected"
      BY <1>5, <2>2 DEF DecodeTurn, ReceiverGone, senderVars
    <3> QED  BY <1>2, <3>1
  <2> QED  BY <2>1, <2>2
<1> QED  BY <1>1, <1>3, <1>4, <1>5 DEF Next

\* The frames written and taken agree with the messages sent and delivered.
THEOREM StreamInvariant == Safety => []StreamInv
<1>1. Init => StreamInv
  BY InitWire, InitFrames DEF StreamInv
<1>2. WireConsistent /\ [Next]_vars => WireConsistent'
  BY SendKeeps, HandleWriteKeeps, HandleReadKeeps, DecodeTurnKeeps, OthersKeep DEF Next
<1>3. StreamInv /\ [Next]_vars => StreamInv'
  BY <1>2, StepStreams DEF StreamInv
<1> QED  BY <1>1, <1>3, PTL DEF Safety

\* The connection implements the stream of messages: what is delivered is what
\* was sent, in its order, and nothing that is not accepted.
THEOREM ImplementsStream == Safety => StreamSafety
<1>1. Init => Stream!Init
  BY DEF Init, Stream!Init
<1>2. StreamInv /\ [Next]_vars => [Stream!Next]_(Stream!vars)
  BY StepStreams
<1> QED  BY <1>1, <1>2, StreamInvariant, PTL DEF Safety, StreamSafety
=============================================================================
