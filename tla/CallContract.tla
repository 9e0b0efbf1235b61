---------------------------- MODULE CallContract ----------------------------
(***************************************************************************)
(* What RpcClient promises the application about its calls: a call is      *)
(* refused or accepted, an accepted call is answered once, with whatever   *)
(* result, and once Stop has closed the client no call is accepted.        *)
(***************************************************************************)
CONSTANT Calls

VARIABLES
    status,    \* of each call: "new", "waiting" or "answered"
    closed     \* Stop has taken over the pending calls

ccvars == <<status, closed>>

Init ==
    /\ status = [c \in Calls |-> "new"]
    /\ closed = FALSE

Refuse(c) ==
    /\ status[c] = "new"
    /\ status' = [status EXCEPT ![c] = "answered"]
    /\ UNCHANGED closed

Accept(c) ==
    /\ ~closed
    /\ status[c] = "new"
    /\ status' = [status EXCEPT ![c] = "waiting"]
    /\ UNCHANGED closed

Answer(c) ==
    /\ status[c] = "waiting"
    /\ status' = [status EXCEPT ![c] = "answered"]
    /\ UNCHANGED closed

Close ==
    /\ closed' = TRUE
    /\ UNCHANGED status

Next == (\E c \in Calls : Refuse(c) \/ Accept(c) \/ Answer(c)) \/ Close

Safety == Init /\ [][Next]_ccvars

Spec == Safety /\ \A c \in Calls : WF_ccvars(Answer(c))
=============================================================================
