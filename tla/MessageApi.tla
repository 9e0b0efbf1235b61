---------------------------- MODULE MessageApi ----------------------------
(***************************************************************************)
(* Two messages of one generated class in the hands of a program, which    *)
(* sets and clears fields, moves a string from one to the other, copies,   *)
(* merges and swaps messages, and parses into them what it received.       *)
(***************************************************************************)
EXTENDS Message

CONSTANT MaxUnknown   \* bound: cells of unknown fields in a message

VARIABLES
    class,  \* "request" or "response": the class of both
    obj     \* the two objects, 1 and 2

apiVars == <<class, obj>>

Objects == {1, 2}

Fields == IF class = "request" THEN RequestFields ELSE ResponseFields
Default == IF class = "request" THEN RequestDefault ELSE ResponseDefault
Serialize(m) == IF class = "request" THEN RequestSerialize(m) ELSE ResponseSerialize(m)
ByteSize(m) == IF class = "request" THEN RequestByteSize(m) ELSE ResponseByteSize(m)
Parse(m, w) == IF class = "request" THEN RequestParse(m, w) ELSE ResponseParse(m, w)
Merge(to, from) == IF class = "request" THEN RequestMerge(to, from) ELSE ResponseMerge(to, from)
Copy(to, from) == IF class = "request" THEN RequestCopy(to, from) ELSE ResponseCopy(to, from)
ClearAll(m) == IF class = "request" THEN RequestClear(m) ELSE ResponseClear(m)

Values(field) == IF field.wire = "len" THEN Strings ELSE Codes

\* What may follow a message on the wire: nothing, a field of a later version
\* of the schema, one whose type changed, a repetition, an end-group tag, a
\* tag whose payload is missing.
Tails == {<<>>, <<Tag(9, "len"), Payload(BadUtf8)>>, <<Tag(4, "varint"), Payload(0)>>,
          <<Tag(1, "len"), Payload(Empty)>>, <<EndGroup>>, <<Tag(1, "len")>>}

Small(m) == Len(m.unknown) <= MaxUnknown
Other(o) == 3 - o

-----------------------------------------------------------------------------

ApiInit ==
    /\ class \in {"request", "response"}
    /\ obj = [o \in Objects |-> Default]

\* set_*, mutable_*, set_allocated_*: the field has a new value.
Set(o) == \E num \in DOMAIN Fields : \E v \in Values(Fields[num]) :
    obj' = [obj EXCEPT ![o][Fields[num].name] = v]

\* set_allocated_* of one with what release_* of the other gave.
Transfer(o) == \E num \in DOMAIN Fields : LET f == Fields[num] IN
    /\ f.wire = "len"
    /\ obj' = [obj EXCEPT ![o][f.name] = f.default, ![Other(o)][f.name] = obj[o][f.name]]

Clear(o) == obj' = [obj EXCEPT ![o] = ClearAll(@)]

\* CopyFrom, operator= and, into an object made for it, the copy constructor.
CopyFrom(o) == obj' = [obj EXCEPT ![o] = Copy(@, obj[Other(o)])]

MergeFrom(o) == obj' = [obj EXCEPT ![o] = Merge(@, obj[Other(o)])]

\* Swap and, as no arena is in use, the move assignment.
Swap == obj' = [o \in Objects |-> obj[Other(o)]]

\* MergeFromString of a message that another program sent.
ParseFrom(o) == \E t \in Tails :
    obj' = [obj EXCEPT ![o] = Parse(@, Serialize(obj[Other(o)]) \o t).msg]

ApiNext ==
    /\ \/ \E o \in Objects : Set(o) \/ Transfer(o) \/ Clear(o) \/ CopyFrom(o) \/ MergeFrom(o)
                             \/ ParseFrom(o)
       \/ Swap
    /\ \A o \in Objects : Small(obj'[o])
    /\ UNCHANGED class

ApiSpec == ApiInit /\ [][ApiNext]_apiVars

-----------------------------------------------------------------------------
\* Whatever is parsed, a field holds a value of its type.
FieldsTyped ==
    /\ class \in {"request", "response"}
    /\ \A o \in Objects : \A num \in DOMAIN Fields :
        obj[o][Fields[num].name] \in Values(Fields[num])

\* Every string of a message that must be UTF-8 is.
Utf8(m) == \A num \in DOMAIN Fields : Fields[num].utf8 => m[Fields[num].name] # BadUtf8

\* What is written is read back as it was, the fields of another version of
\* the schema included, and ByteSizeLong says how long it is; but a string that
\* is not UTF-8 is written all the same and makes the reader fail.
RoundTrip == \A o \in Objects :
    LET w == Serialize(obj[o])
        p == Parse(Default, w)
    IN  /\ ByteSize(obj[o]) = Len(w)
        /\ p.ok <=> Utf8(obj[o])
        /\ p.ok => p.msg = obj[o]

\* Both together: types, and messages that survive the wire.
MessagesConsistent == FieldsTyped /\ RoundTrip

\* Reading two messages one after the other into the same object is merging
\* the second into the first.
ConcatenationMerges == \A o \in Objects :
    Utf8(obj[1]) /\ Utf8(obj[2]) =>
        Parse(Default, Serialize(obj[o]) \o Serialize(obj[Other(o)]))
            = [ok |-> TRUE, msg |-> Merge(obj[o], obj[Other(o)])]
=============================================================================
