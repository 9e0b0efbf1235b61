----------------------------- MODULE MCFraming -----------------------------
(* Requests with one field to four: the shortest frame, the longest that   *)
(* the receiver takes, one that is too long for it, one that protobuf does *)
(* not serialize, and one with a string that is not UTF-8.                 *)
EXTENDS Framing

CONSTANT name

Fields(n) == [RequestDefault EXCEPT !.request_id = name,
                                    !.body = IF n > 1 THEN BadUtf8 ELSE Empty,
                                    !.service_name = IF n > 2 THEN name ELSE Empty,
                                    !.method_name = IF n > 3 THEN name ELSE Empty]

MCMessages == {Fields(n) : n \in 1 .. 4}
              \cup {[RequestDefault EXCEPT !.request_id = BadUtf8]}
=============================================================================
