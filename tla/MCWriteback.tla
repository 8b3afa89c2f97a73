---------------------------- MODULE MCWriteback ----------------------------
(* An instance of Writeback: a file of two bytes; one unit of the clock is  *)
(* five minutes.                                                            *)
EXTENDS Writeback

MCBoth == BOOLEAN
=============================================================================
