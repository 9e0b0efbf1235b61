---------------------------- MODULE MCRpcServer ----------------------------
(* All requests on one connection.                                         *)
EXTENDS RpcServer

MCConnOf == [r \in Requests |-> CHOOSE c \in Conns : TRUE]
=============================================================================
