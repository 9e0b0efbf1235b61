----------------------------- MODULE MCRpcClient -----------------------------
(* Calls with timer ids of their own.                                      *)
EXTENDS RpcClient, TLC

MCTimerOf == [c \in Calls |-> c]

MCSymmetry == Permutations(Calls)
=============================================================================
