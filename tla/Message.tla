------------------------------ MODULE Message ------------------------------
(***************************************************************************)
(* rpc::RpcRequest and rpc::RpcResponse as the protobuf compiler generated *)
(* them: their fields, the operations of a message on its fields and on    *)
(* another message, and the two directions of the wire format.             *)
(*                                                                         *)
(* A message is a record of its fields and of `unknown`, what the parser   *)
(* kept of the fields it does not know.  The wire is a sequence of cells:  *)
(* a tag (field number and wire type), then the payload it announces.  A   *)
(* payload is one cell whatever its size; strings are the members of       *)
(* Strings, and BadUtf8 stands for those that are not UTF-8.               *)
(***************************************************************************)
EXTENDS Integers, Sequences, FiniteSets

CONSTANTS Strings, Empty, BadUtf8, Codes

ASSUME MessageAssumption ==
    /\ {Empty, BadUtf8} \subseteq Strings
    /\ Empty # BadUtf8
    /\ 0 \in Codes

\* Fields by number: a string that must be UTF-8, bytes, or an int32.
Str(name) == [name |-> name, wire |-> "len", utf8 |-> TRUE, default |-> Empty]
Byt(name) == [name |-> name, wire |-> "len", utf8 |-> FALSE, default |-> Empty]
Varint(name) == [name |-> name, wire |-> "varint", utf8 |-> FALSE, default |-> 0]

RequestFields == <<Str("service_name"), Str("method_name"), Str("request_id"), Byt("body")>>
ResponseFields == <<Str("request_id"), Varint("code"), Str("msg"), Byt("body")>>

\* The wire.
Tag(num, type) == [kind |-> "tag", num |-> num, type |-> type]
EndGroup == Tag(0, "end")
Payload(v) == [kind |-> "payload", val |-> v]

\* What the generated operations do, for a message with the given fields.
Encoded(field, num, v) ==
    IF v = field.default THEN <<>> ELSE <<Tag(num, field.wire), Payload(v)>>

Serialized(fields, m) ==
    LET Field(num) == Encoded(fields[num], num, m[fields[num].name])
    IN  Field(1) \o Field(2) \o Field(3) \o Field(4) \o m.unknown

\* A field that is empty in `from` leaves the one in `to` alone.
Untouched(fields, from, name) ==
    \E num \in DOMAIN fields : fields[num].name = name /\ from[name] = fields[num].default

Merged(fields, to, from) == [name \in DOMAIN to |->
    IF name = "unknown" THEN to.unknown \o from.unknown
    ELSE IF Untouched(fields, from, name) THEN to[name] ELSE from[name]]

\* One turn of the loop of _InternalParse, split where the tag has been read.
\* `tag` is the tag whose payload comes next; an end-group tag ends the loop.
NoTag == Tag(0, "none")

KnownNumber(fields, tag) == tag.num \in DOMAIN fields
Known(fields, tag) == tag.num \in DOMAIN fields /\ fields[tag.num].wire = tag.type

ReadTag(st, tag) == [st EXCEPT !.tag = tag, !.over = tag.type = "end"]

ReadField(fields, st, v) ==
    LET field == fields[st.tag.num] IN
    [st EXCEPT !.msg[field.name] = v, !.tag = NoTag, !.over = field.utf8 /\ v = BadUtf8]

KeepUnknown(st, v) == [st EXCEPT !.msg.unknown = @ \o <<st.tag, Payload(v)>>, !.tag = NoTag]

ParseCell(fields, st, cell) ==
    IF st.over THEN st
    ELSE IF cell.kind = "tag" THEN ReadTag(st, cell)
    ELSE IF Known(fields, st.tag) THEN ReadField(fields, st, cell.val)
    ELSE KeepUnknown(st, cell.val)

\* The loop over the cells of `w`, from state `st`.
Run(fields, st, w) ==
    LET after[n \in 0 .. Len(w)] ==
            IF n = 0 THEN st ELSE ParseCell(fields, after[n - 1], w[n])
    IN  after[Len(w)]

Reading(m) == [msg |-> m, tag |-> NoTag, over |-> FALSE]

\* The parse of wire `w` into message `m`.  It succeeds when the loop ended
\* where the wire ends.
ParsedInto(fields, m, w) ==
    LET end == Run(fields, Reading(m), w)
    IN  [ok |-> ~end.over /\ end.tag = NoTag, msg |-> end.msg]

-----------------------------------------------------------------------------
(* RpcRequest.  Here and in every module, a definition just above another  *)
(* with its parameters is a wrong variant of it, a slip the code could     *)
(* have; nothing uses it.                                                  *)

RequestDefault == [service_name |-> Empty, method_name |-> Empty, request_id |-> Empty,
                   body |-> Empty, unknown |-> <<>>]

RequestClear(m) == RequestDefault

RequestSerialize(m) == Serialized(RequestFields, m)

RequestSizeNoTags(m) ==
    Cardinality({num \in 1 .. 4 : m[RequestFields[num].name] # RequestFields[num].default})
    + Len(m.unknown)
RequestByteSize(m) ==
    2 * Cardinality({num \in 1 .. 4 : m[RequestFields[num].name] # RequestFields[num].default})
    + Len(m.unknown)

RequestMergeEmpty(to, from) ==
    [Merged(RequestFields, to, from) EXCEPT !.body = from.body]
RequestMerge(to, from) == Merged(RequestFields, to, from)

RequestCopy(to, from) == RequestMerge(RequestClear(to), from)

RequestCopied(from) == RequestMerge(RequestDefault, from)

RequestParse(m, w) == ParsedInto(RequestFields, m, w)

-----------------------------------------------------------------------------
(* RpcResponse.                                                            *)

ResponseDefault == [request_id |-> Empty, code |-> 0, msg |-> Empty,
                    body |-> Empty, unknown |-> <<>>]

ResponseClear(m) == ResponseDefault

ResponseSerialize(m) == Serialized(ResponseFields, m)

ResponseByteSize(m) ==
    2 * Cardinality({num \in 1 .. 4 : m[ResponseFields[num].name] # ResponseFields[num].default})
    + Len(m.unknown)

ResponseMerge(to, from) == Merged(ResponseFields, to, from)
ResponseCopy(to, from) == ResponseMerge(ResponseClear(to), from)
ResponseCopied(from) == ResponseMerge(ResponseDefault, from)

ResponseParse(m, w) == ParsedInto(ResponseFields, m, w)
=============================================================================
