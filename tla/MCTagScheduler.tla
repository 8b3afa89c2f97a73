--------------------------- MODULE MCTagScheduler ---------------------------
(* Small instances of TagScheduler for TLC. *)
EXTENDS TagScheduler, TLC

CONSTANTS host1, host2, o1, o2, o3, o4, w1, w2

MCTags == {host1, host2}

\* Three operations of one origin and one of another.
MCOps == {o1, o2, o3, o4}
MCTagOf == [o \in MCOps |-> IF o = o4 THEN host2 ELSE host1]

MCSmallOps == {o1, o2, o4}
MCSmallTagOf == [o \in MCSmallOps |-> IF o = o4 THEN host2 ELSE host1]

MCWorkers == {w1, w2}
MCOneWorker == {w1}

MCSymmetry == Permutations({o1, o2, o3}) \cup Permutations(MCWorkers)
=============================================================================
