--------------------------- MODULE DirectorCache ---------------------------
(***************************************************************************)
(* The cache of what the director of a federation answers (DirectorCache.hh*)
(* and .cc), with the requests that consult and fill it (ConstructURL and  *)
(* Open, DirectorCacheResponseHandler.cc) and the cache of connection      *)
(* brokers the same responses fill (BrokerCache.cc).                       *)
(*                                                                         *)
(* The director cache is a tree of path components.  Time is relative:     *)
(* left is the time to the expiry of an entry, negative when it has passed.*)
(* Operations hold the mutex of their cache and are single steps.  The     *)
(* expiry threads read the clock before they get the mutex, at most MaxLag *)
(* units earlier.                                                          *)
(***************************************************************************)
EXTENDS Integers, Sequences, FiniteSets

CONSTANTS
    Objects,        \* the paths of the requests
    Origins,        \* origins the director may send a request to
    Brokered,       \* those that are reached through a broker
    Lifetime,       \* the minute of CacheEntry
    BrokerLifetime, \* m_entry_lifetime
    MaxLag,         \* bound on the delay of the expiry threads
    None

\* A node of the tree is named by its path; << >> is m_root.
Prefixes(p) == {SubSeq(p, 1, n) : n \in 0..Len(p)}
Paths == UNION {Prefixes(p) : p \in Objects}

\* Paths are sequences, lifetimes are not negative, and None is none of the values it
\* stands beside.
ConstantsOK ==
    /\ \A p \in Objects : p \in Seq({p[i] : i \in DOMAIN p})
    /\ Lifetime \in Nat /\ MaxLag \in Nat
    /\ None \notin Origins /\ None \notin Paths
    /\ None \notin [value : Origins \cup {None}, left : Int]
    /\ None \notin [origin : Origins, age : Int]

VARIABLES
    tree,           \* the nodes: m_value and the time to m_expiry
    brokers,        \* m_url_broker, by origin
    pending,        \* requests that went to the director
    answer          \* the last answer of DirectorCache::Get

dvars == <<tree, brokers, pending, answer>>

Lowest == -1 - MaxLag
Present(t, q) == t[q] # None
Expired(e, lag) == e.left + lag < 0

Fresh == [q \in Paths |-> IF q = << >> THEN [value |-> None, left |-> Lifetime]
                          ELSE None]

Init ==
    /\ tree = Fresh
    /\ brokers = [o \in Brokered |-> None]
    /\ pending = {} /\ answer = None

Sooner(e) == IF e = None \/ e.left = Lowest THEN e ELSE [e EXCEPT !.left = @ - 1]

Tick ==
    /\ tree' = [q \in Paths |-> Sooner(tree[q])]
    /\ brokers' = [o \in Brokered |-> Sooner(brokers[o])]
    /\ UNCHANGED <<pending, answer>>

-----------------------------------------------------------------------------
(* Lookups. *)

\* Mutant: Get does not look at the expiry of the children.
GetExpired(p) ==
    LET here(n) == IF tree[SubSeq(p, 1, n)].value = None THEN None ELSE SubSeq(p, 1, n)
        get[n \in 0..Len(p)] ==
            IF n = Len(p) \/ ~Present(tree, SubSeq(p, 1, n + 1)) THEN here(n)
            ELSE IF get[n + 1] = None THEN here(n) ELSE get[n + 1]
    IN get[0]

\* CacheEntry::Get, from the root down: the node whose value is used.  A child that
\* is missing, expired or has nothing to offer leaves it to its parent.
GetNode(p) ==
    LET here(n) == IF tree[SubSeq(p, 1, n)].value = None THEN None ELSE SubSeq(p, 1, n)
        get[n \in 0..Len(p)] ==
            IF n = Len(p) THEN here(n)
            ELSE LET child == SubSeq(p, 1, n + 1) IN
                 IF ~Present(tree, child) \/ Expired(tree[child], 0) THEN here(n)
                 ELSE IF get[n + 1] = None THEN here(n) ELSE get[n + 1]
    IN get[0]

\* DirectorCache::Get
Answer(p) ==
    IF GetNode(p) = None THEN None
    ELSE [path |-> p, at |-> GetNode(p), origin |-> tree[GetNode(p)].value]

\* ConstructURL and Open: an object whose origin is cached is asked for there, and
\* the response is not cached; any other goes to the director.
Resolve(p) ==
    /\ answer' = Answer(p)
    /\ pending' = IF answer' = None THEN pending \cup {p} ELSE pending
    /\ UNCHANGED <<tree, brokers>>

\* BrokerCache::Get, which ConnectionBroker calls.
BrokerGet(o) ==
    IF brokers[o] = None \/ Expired(brokers[o], 0) THEN None ELSE brokers[o].url

-----------------------------------------------------------------------------
(* Responses. *)

\* Mutant: only the node with the value gets a new expiry.
PutLast(t, q, o) ==
    [r \in Paths |->
        IF r = q THEN [value |-> o, left |-> Lifetime]
        ELSE IF r \in Prefixes(q) /\ ~Present(t, r) THEN [value |-> None, left |-> Lifetime]
        ELSE t[r]]

\* CacheEntry::Put: every node on the way is made if need be and gets a new expiry;
\* the last one gets the value.
PutPath(t, q, o) ==
    [r \in Paths |->
        IF r = q THEN [value |-> o, left |-> Lifetime]
        ELSE IF r \in Prefixes(q)
        THEN [value |-> IF Present(t, r) THEN t[r].value ELSE None, left |-> Lifetime]
        ELSE t[r]]

\* BrokerCache::Put: an entry that exists gets the URL of the origin itself.
BrokerPut(b, o) ==
    [b EXCEPT ![o] = [url |-> IF b[o] = None THEN "broker" ELSE "origin",
                      left |-> BrokerLifetime]]

\* HandleResponse of DirectorCacheResponseHandler: the first entry of the Link header
\* names an origin and the prefix it serves, if it is there and makes sense; Location
\* and X-Pelican-Broker name the broker of the origin.
Respond(p) ==
    /\ p \in pending
    /\ pending' = pending \ {p}
    /\ \E o \in Origins :
          /\ \/ \E n \in 0..Len(p) : tree' = PutPath(tree, SubSeq(p, 1, n), o)
             \/ UNCHANGED tree
          /\ brokers' = IF o \in Brokered THEN BrokerPut(brokers, o) ELSE brokers
    /\ UNCHANGED answer

-----------------------------------------------------------------------------
(* Expiry. *)

\* CacheEntry::Expire of the root: children that expired go with all that is below
\* them, deeper nodes are left alone, and the root loses its value.
ExpireTree(t, lag) ==
    [q \in Paths |->
        IF q = << >>
        THEN IF Expired(t[q], lag) THEN [t[q] EXCEPT !.value = None] ELSE t[q]
        ELSE IF Present(t, SubSeq(q, 1, 1)) /\ Expired(t[SubSeq(q, 1, 1)], lag)
        THEN None ELSE t[q]]

\* A pass of DirectorCache::ExpireThread.
Expire ==
    /\ \E lag \in 0..MaxLag : tree' = ExpireTree(tree, lag)
    /\ UNCHANGED <<brokers, pending, answer>>

\* A pass of BrokerCache::ExpireThread.
BrokerExpire ==
    /\ \E lag \in 0..MaxLag :
          brokers' = [o \in Brokered |->
                        IF brokers[o] # None /\ Expired(brokers[o], lag) THEN None
                        ELSE brokers[o]]
    /\ UNCHANGED <<tree, pending, answer>>

\* ResetAll, by the query "pelican.directorcache reset".
Reset ==
    /\ tree' = Fresh
    /\ UNCHANGED <<brokers, pending, answer>>

-----------------------------------------------------------------------------

Next ==
    \/ \E p \in Objects : Resolve(p) \/ Respond(p)
    \/ Expire \/ BrokerExpire \/ Reset \/ Tick

Spec == Init /\ [][Next]_dvars

-----------------------------------------------------------------------------
(* Properties. *)

\* Why Get may stop at the first expired node: no node outlives its parent, other
\* than the root, and every node has its parent, after any sequence of puts, passes
\* of the expiry thread and resets.
ExpiryNested ==
    \A q \in Paths : Len(q) > 1 /\ Present(tree, q) =>
        /\ Present(tree, SubSeq(q, 1, Len(q) - 1))
        /\ tree[q].left <= tree[SubSeq(q, 1, Len(q) - 1)].left

\* What is stored, seen as a map of prefixes.
StoredEntry(q) ==
    IF ~Present(tree, q) \/ tree[q].value = None THEN None
    ELSE [origin |-> tree[q].value, age |-> Lifetime - tree[q].left]

Promise == INSTANCE PrefixMap WITH
    MaxAge <- Lifetime - Lowest,
    stored <- [q \in Paths |-> StoredEntry(q)]

\* The tree with its walk implements the map with its longest live prefix.
ImplementsPrefixMap == Promise!Spec

\* BrokerCache.hh says of an entry: URL for the broker to use.
BrokerKnown == \A o \in Brokered : BrokerGet(o) \in {None, "broker"}

=============================================================================
