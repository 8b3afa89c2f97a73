----------------------------- MODULE MCPutFile -----------------------------
(* Instances of PutFile: writes of 2, 1 and 1 bytes at offsets 0, 2 and 3,  *)
(* and one that repeats offset 2.                                           *)
EXTENDS PutFile

CONSTANTS w1, w2, w3, w4

MCWrites3 == {w1, w2, w3}
MCWrites4 == {w1, w2, w3, w4}
MCOffset == [w \in Writes |-> CASE w = w1 -> 0 [] w = w2 -> 2 [] w = w3 -> 3 [] OTHER -> 2]
MCSize == [w \in Writes |-> IF w = w1 THEN 2 ELSE 1]
MCAsizes == {-1, 4}
=============================================================================
