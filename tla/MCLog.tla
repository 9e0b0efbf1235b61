------------------------------- MODULE MCLog -------------------------------
(* One writer with two lines and one with a single line. *)
EXTENDS Log

CONSTANTS w1, w2

MCMaxWrites == [w \in Writers |-> IF w = w1 THEN 2 ELSE 1]
============================================================================
