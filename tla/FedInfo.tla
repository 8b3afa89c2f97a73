------------------------------ MODULE FedInfo ------------------------------
(***************************************************************************)
(* The cached metadata of one federation (FedInfo.cc, FedInfo.hh): any     *)
(* number of threads in GetInfo and the refresh thread.                    *)
(*                                                                         *)
(* Time is relative: ages grow with Tick and are not told apart beyond     *)
(* MaxLifetime + 1.  A lookup on the network runs without any lock, takes  *)
(* at most LookupTime (m_fed_timeout), and notes the time when it starts.  *)
(* The refresh thread sleeps for RefreshPeriod between its passes, and a   *)
(* pass takes at most LookupTime.                                          *)
(***************************************************************************)
EXTENDS Integers, FiniteSets

CONSTANTS
    Clients,        \* threads that call GetInfo
    MaxLifetime,    \* m_max_lifetime
    DiscardTime,    \* m_discard_unused_time
    NegativeTime,   \* m_negative_cache_time
    StaleTime,      \* m_stale_time
    RefreshPeriod,
    LookupTime,
    None

\* The times are what FedInfo.hh makes them, up to their scale: an entry that was not yet
\* stale at one pass, and a lookup that ends as late as it can, leave time for the next
\* pass before the lifetime is over.
ConstantsOK ==
    /\ {MaxLifetime, DiscardTime, NegativeTime, StaleTime, RefreshPeriod, LookupTime}
          \subseteq Nat
    /\ StaleTime + RefreshPeriod + LookupTime <= MaxLifetime
    /\ LookupTime + RefreshPeriod + LookupTime <= MaxLifetime
    /\ None \notin Nat /\ None \notin [valid : BOOLEAN, age : Nat, idle : Nat]

VARIABLES
    info,           \* the entry of m_info_cache
    asking,         \* the age of the lookup of each client, None without one
    served,         \* what GetInfo returned last
    refresher,      \* what the refresh thread does, and for how long
    skipped         \* a pass of it found no curl handle

fvars == <<info, asking, served, refresher, skipped>>

MaxAge == MaxLifetime + 1

\* A FederationInfo: negative or not, the time since it was made, and the time since
\* m_last_use, which the constructors leave at the epoch.
Info(valid, age) == [valid |-> valid, age |-> age, idle |-> MaxAge]

Doing(what) == [at |-> what, for |-> 0]

Init ==
    /\ info = None
    /\ asking = [c \in Clients |-> None]
    /\ served = None
    /\ refresher = Doing("asleep") /\ skipped = FALSE

IsExpired(i) == i.age > IF i.valid THEN MaxLifetime ELSE NegativeTime

Grown(n) == IF n = MaxAge THEN n ELSE n + 1

Tick ==
    /\ refresher.for < IF refresher.at = "asleep" THEN RefreshPeriod ELSE LookupTime
    /\ \A c \in Clients : asking[c] # None => asking[c] < LookupTime
    /\ info' = IF info = None THEN None
               ELSE [info EXCEPT !.age = Grown(@), !.idle = Grown(@)]
    /\ asking' = [c \in Clients |-> IF asking[c] = None THEN None ELSE asking[c] + 1]
    /\ refresher' = [refresher EXCEPT !.for = @ + 1]
    /\ UNCHANGED <<served, skipped>>

-----------------------------------------------------------------------------
(* GetInfo, with the use its callers make of the result. *)

\* Whatever is cached is returned as it is; if it is valid, GetDirector notes the use.
GetCached(c) ==
    /\ info # None /\ asking[c] = None
    /\ served' = info
    /\ info' = IF info.valid THEN [info EXCEPT !.idle = 0] ELSE info
    /\ UNCHANGED <<asking, refresher, skipped>>

\* Nothing is cached: the lookup begins, unless there is no handle for it.
GetMissing(c) ==
    /\ info = None /\ asking[c] = None
    /\ \/ asking' = [asking EXCEPT ![c] = 0] /\ UNCHANGED served
       \/ served' = None /\ UNCHANGED asking
    /\ UNCHANGED <<info, refresher, skipped>>

\* LookupInfo: the metadata, or a negative entry if anything goes wrong.
LookupInfo(age) == {Info(TRUE, age), Info(FALSE, age)}

\* The result replaces whatever is cached by now.
GetLooked(c) ==
    /\ asking[c] # None
    /\ \E i \in LookupInfo(asking[c]) :
          /\ served' = i
          /\ info' = IF i.valid THEN [i EXCEPT !.idle = 0] ELSE i
    /\ asking' = [asking EXCEPT ![c] = None]
    /\ UNCHANGED <<refresher, skipped>>

-----------------------------------------------------------------------------
(* RefreshThread. *)

\* Mutant: only what has expired is looked up again.
VerdictExpired(i) ==
    IF ~IsExpired(i) THEN "keep"
    ELSE IF ~i.valid \/ i.idle > DiscardTime THEN "delete" ELSE "lookup"

\* Mutant: a negative entry is not removed.
VerdictLasting(i) ==
    IF IsExpired(i) /\ i.valid
    THEN IF i.idle > DiscardTime THEN "delete" ELSE "lookup"
    ELSE IF i.valid /\ i.age > StaleTime THEN "lookup" ELSE "keep"

\* What a pass decides about an entry.
Verdict(i) ==
    IF IsExpired(i) /\ i.valid
    THEN IF i.idle > DiscardTime THEN "delete" ELSE "lookup"
    ELSE IF IsExpired(i) THEN "delete"
    ELSE IF i.age > StaleTime THEN "lookup" ELSE "keep"

\* The scan of the cache, without its mutex.
Scan ==
    /\ refresher = [at |-> "asleep", for |-> RefreshPeriod]
    /\ refresher' = IF info = None \/ Verdict(info) = "keep" THEN Doing("asleep")
                    ELSE Doing(Verdict(info))
    /\ UNCHANGED <<info, asking, served, skipped>>

\* No curl handle: the pass is skipped.
SkipScan ==
    /\ refresher = [at |-> "asleep", for |-> RefreshPeriod]
    /\ refresher' = Doing("asleep") /\ skipped' = TRUE
    /\ UNCHANGED <<info, asking, served>>

\* The update under the mutex.  LookupInfo never returns null, so that a lookup that
\* failed replaces the entry too.
Apply ==
    /\ \/ /\ refresher.at = "delete"
          /\ info' = None
       \/ /\ refresher.at = "lookup"
          /\ info' \in LookupInfo(refresher.for)
    /\ refresher' = Doing("asleep")
    /\ UNCHANGED <<asking, served, skipped>>

-----------------------------------------------------------------------------

Next ==
    \/ Tick \/ Scan \/ SkipScan \/ Apply
    \/ \E c \in Clients : GetCached(c) \/ GetMissing(c) \/ GetLooked(c)

\* Time passes, the refresh thread runs, is not refused a handle for ever, and
\* lookups end by their timeout.
Fairness ==
    /\ WF_fvars(Tick) /\ SF_fvars(Scan) /\ WF_fvars(Apply)
    /\ \A c \in Clients : WF_fvars(GetLooked(c))

Spec == Init /\ [][Next]_fvars
FairSpec == Spec /\ Fairness

-----------------------------------------------------------------------------
(* Properties. *)

\* m_max_lifetime: no metadata older than that is served.  GetInfo does not look at
\* the expiry, so this rests on the passes of the refresh thread: none may be skipped.
ServedFresh == ~skipped /\ served # None /\ served.valid => served.age <= MaxLifetime

\* A failed lookup is not remembered for ever, whatever lookups fail in between and
\* overwrite each other: the federation is asked again.
NegativeEnds ==
    (info # None /\ ~info.valid) ~> (info = None \/ refresher.at = "lookup" \/ info.valid)

\* The message of RefreshThread: it will keep the stale entry.
StaleKept ==
    [][refresher.at = "lookup" /\ Apply /\ info # None /\ info.valid /\ ~IsExpired(info)
        => info'.valid]_fvars

\* m_discard_unused_time: metadata that is not used is removed, not renewed.
UnusedDropped ==
    (info # None /\ info.valid) ~> (info = None \/ info.idle <= DiscardTime)
=============================================================================
