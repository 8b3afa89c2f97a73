----------------------------- MODULE PrefixMap -----------------------------
(***************************************************************************)
(* What the director cache promises: a map from path prefixes to origins   *)
(* in which a lookup finds the longest prefix of its path that has an      *)
(* origin and is not too old.  A prefix is as old as the last put at it or *)
(* at a longer prefix.  What is too old may be forgotten at any time.      *)
(***************************************************************************)
EXTENDS Integers, Sequences, FiniteSets

CONSTANTS
    Objects,        \* the paths that are looked up
    Origins,
    Lifetime,
    MaxAge,         \* bound on ages: beyond it they are not told apart
    None

\* The prefixes at which an origin can be stored; << >> is the root.
Prefixes(p) == {SubSeq(p, 1, n) : n \in 0..Len(p)}
Paths == UNION {Prefixes(p) : p \in Objects}

VARIABLES
    stored,         \* the origin of each prefix and its age
    answer          \* the last answer

pvars == <<stored, answer>>

Init ==
    /\ stored = [q \in Paths |-> None]
    /\ answer = None

\* The root is never too old, it can only be forgotten.
Visible(q) ==
    /\ stored[q] # None
    /\ stored[q].age <= Lifetime \/ q = << >>

Longest(S) == CHOOSE q \in S : \A r \in S : Len(r) <= Len(q)

Lookup(p) ==
    LET hits == {q \in Paths : q \in Prefixes(p) /\ Visible(q)} IN
    IF hits = {} THEN None
    ELSE [path |-> p, at |-> Longest(hits), origin |-> stored[Longest(hits)].origin]

Get(p) ==
    /\ answer' = Lookup(p)
    /\ UNCHANGED stored

Renewed(q) == IF stored[q] = None THEN None ELSE [stored[q] EXCEPT !.age = 0]

Put(q, o) ==
    /\ stored' = [r \in Paths |-> IF r = q THEN [origin |-> o, age |-> 0]
                                  ELSE IF r \in Prefixes(q) THEN Renewed(r) ELSE stored[r]]
    /\ UNCHANGED answer

Forget ==
    /\ \E S \in SUBSET {q \in Paths : stored[q] # None /\ stored[q].age > Lifetime} :
          stored' = [q \in Paths |-> IF q \in S THEN None ELSE stored[q]]
    /\ UNCHANGED answer

Reset ==
    /\ stored' = [q \in Paths |-> None]
    /\ UNCHANGED answer

Older(e) == IF e = None \/ e.age = MaxAge THEN e ELSE [e EXCEPT !.age = @ + 1]

Tick ==
    /\ stored' = [q \in Paths |-> Older(stored[q])]
    /\ UNCHANGED answer

Next ==
    \/ \E p \in Objects : Get(p)
    \/ \E q \in Paths, o \in Origins : Put(q, o)
    \/ Forget \/ Reset \/ Tick

Spec == Init /\ [][Next]_pvars
=============================================================================
