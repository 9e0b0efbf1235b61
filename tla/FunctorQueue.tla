---------------------------- MODULE FunctorQueue ----------------------------
(***************************************************************************)
(* What the task queue of an event loop promises, seen from outside: what  *)
(* is posted runs once, in the order it was posted, until the loop exits.  *)
(* EventLoop and the loop inside RpcClient implement it.                   *)
(***************************************************************************)
EXTENDS Sequences

CONSTANT Functors

VARIABLES
    waiting,   \* posted and not yet run, oldest first
    exited     \* the loop has returned: nothing runs any more

fqvars == <<waiting, exited>>

Init == waiting = <<>> /\ exited = FALSE

Post(f) == waiting' = Append(waiting, f) /\ UNCHANGED exited

RunOldest ==
    /\ ~exited
    /\ waiting # <<>>
    /\ waiting' = Tail(waiting)
    /\ UNCHANGED exited

Exit == exited' = TRUE /\ UNCHANGED waiting

Next == (\E f \in Functors : Post(f)) \/ RunOldest \/ Exit

Spec == Init /\ [][Next]_fqvars
=============================================================================
