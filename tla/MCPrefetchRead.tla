--------------------------- MODULE MCPrefetchRead ---------------------------
(* Small instances of PrefetchRead for TLC. *)
EXTENDS PrefetchRead, TLC

CONSTANTS r1, r2, r3, r4

MCReads == {r1, r2, r3, r4}
MCReadsIn == "orderly" :> MCReads @@ "anytime" :> {r1, r2, r3}

\* Sequential reads from the middle of the object; the last two compete for the
\* same offset and one of them runs past the end of the object.
MCOffset == [r \in Reads |-> CASE r = r1 -> 1 [] r = r2 -> 3 [] OTHER -> 4]
MCSize == [r \in Reads |-> CASE r = r1 -> 2 [] r = r2 -> 1 [] r = r3 -> 2 [] OTHER -> 1]

=============================================================================
