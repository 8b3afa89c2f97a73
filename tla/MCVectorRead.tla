---------------------------- MODULE MCVectorRead ----------------------------
(* Two chunks that touch, and a server that does not honour ranges. *)
EXTENDS VectorRead

MCSingle == {<<[off |-> 0, len |-> 2], [off |-> 2, len |-> 2]>>}
=============================================================================
