--------------------------- MODULE MCHandlerQueue ---------------------------
(* Four producers, a queue of two, deadlines at two of five instants. *)
EXTENDS HandlerQueue

CONSTANTS op1, op2, op3, op4

MCOps == {op1, op2, op3, op4}
MCDeadlines == {1, 3}
=============================================================================
