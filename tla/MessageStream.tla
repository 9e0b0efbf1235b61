--------------------------- MODULE MessageStream ---------------------------
(***************************************************************************)
(* What a connection promises to those who send messages over it: they     *)
(* arrive as they were sent and in order, as long as it is open.  One that *)
(* is not Accepted never arrives, and the connection does not outlive it.  *)
(***************************************************************************)
EXTENDS Integers, Sequences

CONSTANTS Messages, Accepted, MaxSends
VARIABLES sent, delivered, open

vars == <<sent, delivered, open>>

Init == sent = <<>> /\ delivered = <<>> /\ open = TRUE

Send ==
    /\ \E m \in Messages : sent' = Append(sent, m)
    /\ UNCHANGED <<delivered, open>>

NextUp == sent[Len(delivered) + 1]
Waiting == Len(delivered) < Len(sent)

Deliver ==
    /\ Waiting
    /\ NextUp \in Accepted
    /\ delivered' = Append(delivered, NextUp)
    /\ UNCHANGED <<sent, open>>

Close == open' = FALSE /\ UNCHANGED <<sent, delivered>>

Next == Send \/ Deliver \/ Close

\* What was sent is delivered, or the connection closes.
Progress == \A n \in 1 .. MaxSends :
    Len(sent) >= n /\ open = TRUE ~> Len(delivered) >= n \/ open = FALSE

Spec == Init /\ [][Next]_vars /\ Progress
=============================================================================
