--------------------------- MODULE ChecksumCache ---------------------------
(***************************************************************************)
(* The cache of the checksums of an object (ChecksumCache.hh and .cc) with *)
(* the queries that use it (Filesystem::Query, ChecksumResponseHandler).   *)
(*                                                                         *)
(* A checksum is represented by its type and the time since the origin     *)
(* sent it; times are relative, and not told apart beyond TooOld.  Put and *)
(* Expire hold the lock of the cache exclusively.  Get only shares it, but *)
(* changes the entry: its two assignments are two steps.                   *)
(***************************************************************************)
EXTENDS Integers, FiniteSets

CONSTANTS
    Askers,         \* threads that query a checksum
    Types,          \* checksum types
    Lifetime,       \* g_expiry_duration
    MaxLag,         \* bound on the delay of the expiry thread
    None

\* Times are not negative, and None is none of the values it stands beside.
ConstantsOK ==
    /\ Lifetime \in Nat /\ MaxLag \in Nat /\ None \notin Nat
    /\ None \notin [avail : SUBSET Types, last : Types, value : [type : Types, age : Nat],
                    left : Int]

VARIABLES
    centry,         \* the entry of m_checksums
    cmap,           \* m_checksum_map: the age of the checksum of each type
    asker,          \* what each thread does
    told            \* the last answer from the cache: what was asked, what was given

cvars == <<centry, cmap, asker, told>>

TooOld == Lifetime + 1
Lowest == -1 - MaxLag
Idle == [at |-> "idle"]

Init ==
    /\ centry = None
    /\ cmap = [t \in Types |-> None]
    /\ asker = [c \in Askers |-> Idle]
    /\ told = None

\* Nobody holds the shared lock.
Unread == \A c \in Askers : asker[c].at # "copy"

Older(n) == IF n = None \/ n = TooOld THEN n ELSE n + 1

\* The clock; a unit is far longer than the section in Get.
Tick ==
    /\ Unread
    /\ cmap' = [t \in Types |-> Older(cmap[t])]
    /\ centry' = IF centry = None THEN None
                 ELSE [centry EXCEPT !.left = IF @ = Lowest THEN @ ELSE @ - 1,
                                     !.value.age = Older(@)]
    /\ UNCHANGED <<asker, told>>

-----------------------------------------------------------------------------

Become(c, what, t) == asker' = [asker EXCEPT ![c] = [at |-> what, type |-> t]]

\* Get finds the type: in an entry that has not expired and offers it, and in its map
\* unless it is the type used last.
Hits(t) ==
    IF centry = None THEN FALSE
    ELSE /\ centry.left >= 0 /\ t \in centry.avail
         /\ centry.last # t => cmap[t] # None

\* Query, and Get for the one type it asks for: a miss, after which the origin
\* is asked, the value in the entry, or the value in the map, which then becomes the
\* one in the entry.
Ask(c, t) ==
    /\ asker[c] = Idle
    /\ \/ ~Hits(t) /\ Become(c, "origin", t) /\ UNCHANGED <<centry, told>>
       \/ /\ Hits(t) /\ centry.last = t
          /\ told' = [type |-> t, value |-> centry.value]
          /\ UNCHANGED <<centry, asker>>
       \/ /\ Hits(t) /\ centry.last # t
          /\ centry' = [centry EXCEPT !.last = t]
          /\ Become(c, "copy", t) /\ UNCHANGED told
    /\ UNCHANGED cmap

\* The rest of Get, under the shared lock.
Copy(c) ==
    /\ asker[c].at = "copy"
    /\ LET v == [type |-> asker[c].type, age |-> cmap[asker[c].type]] IN
          /\ centry' = [centry EXCEPT !.value = v]
          /\ told' = [type |-> asker[c].type, value |-> v]
    /\ asker' = [asker EXCEPT ![c] = Idle]
    /\ UNCHANGED cmap

\* Mutant: an entry that exists is made to offer the types of the maps.
EmplaceAll(e, S) ==
    LET t == CHOOSE t \in S : TRUE IN
    [avail |-> {u \in Types : u \in S \/ cmap[u] # None}, last |-> t,
     value |-> [type |-> t, age |-> 0], left |-> Lifetime]

\* m_checksums.emplace: the entry of a set of new checksums, unless there is one.
Emplace(e, S) ==
    IF e # None THEN e
    ELSE LET t == CHOOSE t \in S : TRUE IN
         [avail |-> S, last |-> t, value |-> [type |-> t, age |-> 0], left |-> Lifetime]

\* The response of the origin: ChecksumResponseHandler puts what a Digest header has.
Put(c) ==
    /\ asker[c].at = "origin" /\ Unread
    /\ \E S \in SUBSET Types :
          IF S = {} THEN UNCHANGED <<cmap, centry>>
          ELSE /\ cmap' = [t \in Types |-> IF t \in S THEN 0 ELSE cmap[t]]
               /\ centry' = Emplace(centry, S)
    /\ asker' = [asker EXCEPT ![c] = Idle]
    /\ UNCHANGED told

\* A pass of ExpireThread, which read the clock before it got the lock.
Expire ==
    /\ Unread /\ centry # None
    /\ \E lag \in 0..MaxLag : centry.left + lag < 0
    /\ cmap' = [t \in Types |-> IF t \in centry.avail THEN None ELSE cmap[t]]
    /\ centry' = None
    /\ UNCHANGED <<asker, told>>

Next ==
    \/ \E c \in Askers : Copy(c) \/ Put(c) \/ \E t \in Types : Ask(c, t)
    \/ Expire \/ Tick

Spec == Init /\ [][Next]_cvars

-----------------------------------------------------------------------------
(* Properties. *)

\* A checksum that is older than g_expiry_duration is never given, although Put leaves
\* an entry alone that exists, Get copies between entry and maps, and checksums of
\* types the entry does not know of stay in their maps for ever.
NoStaleChecksum == told # None => told.value.age <= Lifetime

\* A query for a type is answered with a checksum of that type.
RightType == told # None => told.value.type = told.type

\* The maps hold nothing once the entry has expired and was removed.
MapsEmptied == centry = None => \A t \in Types : cmap[t] = None
=============================================================================
