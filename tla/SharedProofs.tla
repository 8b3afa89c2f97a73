---------------------------- MODULE SharedProofs ----------------------------
(***************************************************************************)
(* For every number of threads and every choice of lifetimes: federation   *)
(* metadata and checksums that are given out have not outlived their       *)
(* lifetime, and the access token is one.                                  *)
(***************************************************************************)
EXTENDS MCShared, TLAPS

-----------------------------------------------------------------------------
(* The federation metadata. *)

FedEntry == [valid : BOOLEAN, age : Nat, idle : Nat]

\* What the clock allows a thread of FedInfo.
Allowed == IF refresher.at = "asleep" THEN RefreshPeriod ELSE LookupTime

\* How long the passes of the refresh thread let an entry live: one that was not stale at
\* the last pass, or was looked up since, is replaced at the end of the next one.
Passes == IF refresher.at = "asleep" THEN 0 ELSE RefreshPeriod

FedType ==
    /\ info \in FedEntry \cup {None}
    /\ asking \in [Clients -> (0..LookupTime) \cup {None}]
    /\ refresher \in [at : {"asleep", "delete", "lookup"}, for : Nat]
    /\ refresher.for <= Allowed
    /\ skipped \in BOOLEAN

\* ServedFresh says nothing of what is cached; GetInfo returns that as it is.
CachedFresh ==
    ~skipped /\ info # None /\ info.valid =>
        \E limit \in {StaleTime, LookupTime} : info.age <= limit + Passes + refresher.for

FedInv == FedType /\ CachedFresh /\ F!ServedFresh

\* What is cached can be served.
LEMMA CachedServable ==
    ASSUME FedType, CachedFresh, ~skipped, info # None, info.valid
    PROVE  info.age <= MaxLifetime
  <1>1. info \in FedEntry /\ info.age \in Nat
    BY Zenon DEF FedType, FedEntry
  <1>2. /\ MaxLifetime \in Nat /\ StaleTime \in Nat /\ RefreshPeriod \in Nat /\ LookupTime \in Nat
        /\ StaleTime + RefreshPeriod + LookupTime <= MaxLifetime
        /\ LookupTime + RefreshPeriod + LookupTime <= MaxLifetime
    BY Zenon, ComponentConstants DEF F!ConstantsOK
  <1>3. refresher.for \in Nat /\ refresher.for <= Allowed
    BY Zenon DEF FedType
  <1>4. PICK limit \in {StaleTime, LookupTime} : info.age <= limit + Passes + refresher.for
    BY Zenon DEF CachedFresh
  <1> QED BY <1>1, <1>2, <1>3, <1>4 DEF Allowed, Passes

\* The result of a lookup is as old as the lookup.
LEMMA LookupAge ==
    ASSUME NEW n \in Nat, NEW i \in F!LookupInfo(n)
    PROVE  i \in FedEntry /\ i.age = n
  <1>1. PICK b \in BOOLEAN : i = [valid |-> b, age |-> n, idle |-> MaxLifetime + 1]
    BY Zenon DEF F!LookupInfo, F!Info, F!MaxAge
  <1>2. MaxLifetime + 1 \in Nat
    BY ComponentConstants DEF F!ConstantsOK
  <1> QED BY Zenon, <1>1, <1>2 DEF FedEntry

\* A step of the clock.
LEMMA FedTick ==
    ASSUME FedInv, F!Tick
    PROVE  FedInv'
  <1>1. /\ MaxLifetime \in Nat /\ StaleTime \in Nat /\ RefreshPeriod \in Nat /\ LookupTime \in Nat
        /\ None \notin Nat /\ None \notin FedEntry
    BY Zenon, ComponentConstants DEF F!ConstantsOK, FedEntry
  <1>2. /\ refresher' = [refresher EXCEPT !.for = refresher.for + 1]
        /\ refresher.for < Allowed /\ UNCHANGED <<served, skipped>>
    BY Zenon DEF F!Tick, Allowed
  <1>3. /\ refresher' \in [at : {"asleep", "delete", "lookup"}, for : Nat]
        /\ refresher'.at = refresher.at /\ refresher'.for = refresher.for + 1
        /\ refresher.for \in Nat
    BY <1>2 DEF FedInv, FedType
  <1>4. refresher'.for <= Allowed'
    BY <1>1, <1>2, <1>3 DEF Allowed
  <1>5. asking' \in [Clients -> (0..LookupTime) \cup {None}]
    <2>1. ASSUME NEW c \in Clients
          PROVE  (IF asking[c] = None THEN None ELSE asking[c] + 1) \in (0..LookupTime) \cup {None}
      <3>1. asking[c] # None => asking[c] \in 0..LookupTime /\ asking[c] < LookupTime
        BY Zenon DEF F!Tick, FedInv, FedType
      <3> QED BY <1>1, <3>1
    <2> QED BY Zenon, <2>1 DEF F!Tick
  <1>6. CASE info = None
    <2>1. info' = None
      BY Zenon, <1>6 DEF F!Tick
    <2> QED BY Zenon, <1>2, <1>3, <1>4, <1>5, <2>1 DEF FedInv, FedType, CachedFresh, F!ServedFresh
  <1>7. CASE info # None
    <2>1. info \in FedEntry /\ info.age \in Nat /\ info.idle \in Nat
      BY Zenon, <1>7 DEF FedInv, FedType, FedEntry
    <2>2. \A n \in Nat : F!Grown(n) \in Nat /\ F!Grown(n) <= n + 1
      BY <1>1 DEF F!Grown, F!MaxAge
    <2>3. info' = [info EXCEPT !.age = F!Grown(info.age), !.idle = F!Grown(info.idle)]
      BY Zenon, <1>7 DEF F!Tick
    <2>4. info' \in FedEntry /\ info'.valid = info.valid /\ info'.age = F!Grown(info.age)
      BY Zenon, <2>1, <2>2, <2>3 DEF FedEntry
    <2>5. info'.age \in Nat /\ info'.age <= info.age + 1
      BY Zenon, <2>1, <2>2, <2>4
    <2>6. CachedFresh'
      <3> SUFFICES ASSUME ~skipped', info' # None, info'.valid
                   PROVE  \E limit \in {StaleTime, LookupTime} :
                             info'.age <= limit + Passes' + refresher'.for
        BY Zenon DEF CachedFresh
      <3>1. PICK limit \in {StaleTime, LookupTime} : info.age <= limit + Passes + refresher.for
        BY Zenon, <1>2, <1>7, <2>4 DEF FedInv, CachedFresh
      <3>2. Passes' = Passes /\ Passes \in Nat
        BY Zenon, <1>1, <1>3 DEF Passes
      <3>3. info'.age <= limit + Passes' + refresher'.for
        BY <1>1, <1>3, <2>1, <2>5, <3>1, <3>2
      <3> QED BY Zenon, <3>3
    <2>7. F!ServedFresh'
      BY Zenon, <1>2 DEF FedInv, F!ServedFresh
    <2>8. FedType'
      BY Zenon, <1>2, <1>3, <1>4, <1>5, <2>4 DEF FedInv, FedType
    <2> QED BY Zenon, <2>6, <2>7, <2>8 DEF FedInv
  <1> QED BY Zenon, <1>6, <1>7

\* The calls of GetInfo.
LEMMA FedGet ==
    ASSUME FedInv, NEW c \in Clients, F!GetCached(c) \/ F!GetMissing(c) \/ F!GetLooked(c)
    PROVE  FedInv'
  <1>1. /\ MaxLifetime \in Nat /\ StaleTime \in Nat /\ RefreshPeriod \in Nat /\ LookupTime \in Nat
        /\ LookupTime <= MaxLifetime /\ None \notin Nat /\ None \notin FedEntry
    BY ComponentConstants DEF F!ConstantsOK, FedEntry
  <1>2. refresher' = refresher /\ skipped' = skipped
    BY Zenon DEF F!GetCached, F!GetMissing, F!GetLooked
  <1>3. Passes \in Nat /\ Passes' = Passes /\ Allowed' = Allowed /\ refresher.for \in Nat
    BY Zenon, <1>1, <1>2 DEF Passes, Allowed, FedInv, FedType
  <1>4. CASE F!GetCached(c)
    <2>1. info # None /\ info \in FedEntry /\ served' = info /\ asking' = asking
      BY Zenon, <1>4 DEF F!GetCached, FedInv, FedType
    <2>2. info' = info \/ info' = [info EXCEPT !.idle = 0]
      BY Zenon, <1>4 DEF F!GetCached
    <2>3. info' \in FedEntry /\ info'.valid = info.valid /\ info'.age = info.age
      BY <2>1, <2>2 DEF FedEntry
    <2>4. F!ServedFresh'
      BY Zenon, <1>2, <2>1, CachedServable DEF FedInv, F!ServedFresh
    <2>5. FedType'
      BY Zenon, <1>2, <1>3, <2>1, <2>3 DEF FedInv, FedType
    <2>6. CachedFresh'
      BY Zenon, <1>2, <1>3, <2>1, <2>3 DEF FedInv, CachedFresh
    <2> QED BY Zenon, <2>4, <2>5, <2>6 DEF FedInv
  <1>5. CASE F!GetMissing(c)
    <2>1. /\ info' = info /\ info = None
          /\ \/ asking' = [asking EXCEPT ![c] = 0] /\ served' = served
             \/ asking' = asking /\ served' = None
      BY Zenon, <1>5 DEF F!GetMissing
    <2>2. asking' \in [Clients -> (0..LookupTime) \cup {None}]
      BY <1>1, <2>1 DEF FedInv, FedType
    <2> QED BY Zenon, <1>2, <1>3, <2>1, <2>2 DEF FedInv, FedType, CachedFresh, F!ServedFresh
  <1>6. CASE F!GetLooked(c)
    <2>1. asking[c] \in 0..LookupTime /\ asking' = [asking EXCEPT ![c] = None]
      BY Zenon, <1>6 DEF F!GetLooked, FedInv, FedType
    <2>2. PICK i \in F!LookupInfo(asking[c]) :
             served' = i /\ info' = IF i.valid THEN [i EXCEPT !.idle = 0] ELSE i
      BY Zenon, <1>6 DEF F!GetLooked
    <2>3. i \in FedEntry /\ i.age = asking[c] /\ i.age <= LookupTime /\ i.age \in Nat
      BY <1>1, <2>1, LookupAge
    <2>4. info' \in FedEntry /\ info'.age = i.age
      BY Zenon, <2>2, <2>3 DEF FedEntry
    <2>5. asking' \in [Clients -> (0..LookupTime) \cup {None}]
      BY Zenon, <2>1 DEF FedInv, FedType
    <2>6. i.age <= LookupTime + Passes + refresher.for
      BY <1>1, <1>3, <2>3
    <2>7. CachedFresh'
      BY Zenon, <1>2, <1>3, <2>4, <2>6 DEF CachedFresh
    <2>8. i.age <= MaxLifetime
      BY <1>1, <2>3
    <2>9. F!ServedFresh'
      BY Zenon, <2>2, <2>8 DEF F!ServedFresh
    <2> QED BY Zenon, <1>2, <1>3, <2>4, <2>5, <2>7, <2>9 DEF FedInv, FedType
  <1> QED BY Zenon, <1>4, <1>5, <1>6

\* The passes of the refresh thread.
LEMMA FedRefresh ==
    ASSUME FedInv, F!Scan \/ F!SkipScan \/ F!Apply
    PROVE  FedInv'
  <1>1. /\ MaxLifetime \in Nat /\ StaleTime \in Nat /\ RefreshPeriod \in Nat /\ LookupTime \in Nat
        /\ None \notin FedEntry
    BY Zenon, ComponentConstants DEF F!ConstantsOK, FedEntry
  <1>2. asking' = asking /\ served' = served
    BY Zenon DEF F!Scan, F!SkipScan, F!Apply
  <1>3. \A what \in {"asleep", "delete", "lookup"} :
           /\ F!Doing(what) \in [at : {"asleep", "delete", "lookup"}, for : Nat]
           /\ F!Doing(what).at = what /\ F!Doing(what).for = 0
    BY Zenon DEF F!Doing
  <1>4. CASE F!Scan
    <2>1. /\ info' = info /\ skipped' = skipped
          /\ refresher.at = "asleep" /\ refresher.for = RefreshPeriod
      BY Zenon, <1>4 DEF F!Scan
    <2>2. CASE refresher' = F!Doing("asleep") /\ (info = None \/ F!Verdict(info) = "keep")
      <3>1. refresher'.at = "asleep" /\ refresher'.for = 0
        BY Zenon, <1>3, <2>2
      <3>2. info # None /\ info.valid => info.age <= StaleTime
        <4> SUFFICES ASSUME info # None, info.valid PROVE info.age <= StaleTime
          OBVIOUS
        <4>1. info.age \in Nat
          BY Zenon DEF FedInv, FedType, FedEntry
        <4>2. F!Verdict(info) = "keep"
          BY Zenon, <2>2
        <4> QED BY <1>1, <4>1, <4>2 DEF F!Verdict
      <3>3. Passes' = 0 /\ Allowed' = RefreshPeriod
        BY Zenon, <3>1 DEF Passes, Allowed
      <3>4. StaleTime + 0 + 0 = StaleTime
        BY <1>1
      <3>5. CachedFresh'
        BY Zenon, <2>1, <3>1, <3>2, <3>3, <3>4 DEF CachedFresh
      <3>6. FedType'
        BY <1>1, <1>2, <1>3, <2>1, <2>2, <3>1, <3>3 DEF FedInv, FedType
      <3> QED BY Zenon, <1>2, <2>1, <3>5, <3>6 DEF FedInv, F!ServedFresh
    <2>3. CASE refresher' = F!Doing(F!Verdict(info)) /\ F!Verdict(info) # "keep"
      <3>1. F!Verdict(info) \in {"delete", "lookup"}
        BY Zenon, <2>3 DEF F!Verdict
      <3>2. refresher'.at # "asleep" /\ refresher'.for = 0
        BY Zenon, <1>3, <2>3, <3>1
      <3>3. Passes' = RefreshPeriod /\ Passes = 0 /\ Allowed' = LookupTime
        BY Zenon, <2>1, <3>2 DEF Passes, Allowed
      <3>4. \A limit \in {StaleTime, LookupTime} :
               limit + Passes' + refresher'.for = limit + Passes + refresher.for
        BY <1>1, <2>1, <3>2, <3>3
      <3>5. CachedFresh'
        BY Zenon, <2>1, <3>4 DEF CachedFresh, FedInv
      <3>6. FedType'
        BY <1>1, <1>2, <1>3, <2>1, <2>3, <3>1, <3>2, <3>3 DEF FedInv, FedType
      <3> QED BY Zenon, <1>2, <2>1, <3>5, <3>6 DEF FedInv, F!ServedFresh
    <2> QED BY Zenon, <1>4, <2>2, <2>3 DEF F!Scan
  <1>5. CASE F!SkipScan
    <2>1. info' = info /\ skipped' = TRUE /\ refresher' = F!Doing("asleep")
      BY Zenon, <1>5 DEF F!SkipScan
    <2>2. refresher'.at = "asleep" /\ refresher'.for = 0 /\ Allowed' = RefreshPeriod
      BY Zenon, <1>3, <2>1 DEF Allowed
    <2> QED BY <1>1, <1>2, <1>3, <2>1, <2>2 DEF FedInv, FedType, CachedFresh, F!ServedFresh
  <1>6. CASE F!Apply
    <2>1. skipped' = skipped /\ refresher' = F!Doing("asleep")
      BY Zenon, <1>6 DEF F!Apply
    <2>2. refresher'.at = "asleep" /\ refresher'.for = 0 /\ Allowed' = RefreshPeriod /\ Passes' = 0
      BY Zenon, <1>3, <2>1 DEF Allowed, Passes
    <2>3. info' = None \/ (info' \in FedEntry /\ info'.age <= LookupTime)
      <3>1. refresher.at = "lookup" => refresher.for \in Nat /\ refresher.for <= LookupTime
        BY Zenon DEF FedInv, FedType, Allowed
      <3>2. CASE refresher.at = "lookup" /\ info' \in F!LookupInfo(refresher.for)
        BY Zenon, <3>1, <3>2, LookupAge
      <3> QED BY Zenon, <1>6, <3>2 DEF F!Apply
    <2>4. LookupTime + 0 + 0 = LookupTime
      BY <1>1
    <2>5. CachedFresh'
      BY Zenon, <2>2, <2>3, <2>4 DEF CachedFresh
    <2>6. FedType'
      BY <1>1, <1>2, <1>3, <2>1, <2>2, <2>3 DEF FedInv, FedType
    <2> QED BY Zenon, <1>2, <2>1, <2>5, <2>6 DEF FedInv, F!ServedFresh
  <1> QED BY Zenon, <1>4, <1>5, <1>6

\* Metadata that GetInfo serves is not older than m_max_lifetime, whatever GetInfo, its
\* lookups and the refresh thread overwrite, as long as no pass was skipped for want of a
\* curl handle and the times leave room for a pass.
THEOREM MetadataServedFresh ==
    F!Spec => []ServedFresh
  <1>1. F!Init => FedInv
    <2> SUFFICES ASSUME F!Init PROVE FedInv
      OBVIOUS
    <2>1. RefreshPeriod \in Nat /\ LookupTime \in Nat
      BY Zenon, ComponentConstants DEF F!ConstantsOK
    <2>2. refresher \in [at : {"asleep", "delete", "lookup"}, for : Nat] /\ refresher.for = 0
      BY Zenon DEF F!Init, F!Doing
    <2>3. refresher.for <= Allowed
      BY <2>1, <2>2 DEF Allowed
    <2> QED BY Zenon, <2>2, <2>3 DEF F!Init, FedInv, FedType, CachedFresh, F!ServedFresh
  <1>2. FedInv /\ [F!Next]_F!fvars => FedInv'
    <2> SUFFICES ASSUME FedInv, [F!Next]_F!fvars PROVE FedInv'
      OBVIOUS
    <2>1. CASE UNCHANGED F!fvars
      BY Zenon, <2>1 DEF F!fvars, FedInv, FedType, CachedFresh, Passes, Allowed, F!ServedFresh
    <2> QED BY Zenon, <2>1, FedTick, FedGet, FedRefresh DEF F!Next
  <1>3. FedInv => ServedFresh
    BY Zenon DEF FedInv, ServedFresh
  <1> QED BY <1>1, <1>2, <1>3, PTL DEF F!Spec

-----------------------------------------------------------------------------
(* The checksum cache. *)

Sum == [type : Types, age : 0..C!TooOld]
SumEntry == [avail : SUBSET Types, last : Types, value : Sum, left : C!Lowest..ChecksumLifetime]

SumType ==
    /\ centry \in SumEntry \cup {None}
    /\ cmap \in [Types -> (0..C!TooOld) \cup {None}]
    /\ asker \in [Askers -> {C!Idle} \cup [at : {"origin", "copy"}, type : Types]]

\* The time an entry has left is time its checksums have, too: the one it holds, and
\* those in the maps of the types it offers.  The maps of other types may hold anything.
InTime ==
    centry # None =>
        /\ centry.value.age + centry.left <= ChecksumLifetime
        /\ \A t \in centry.avail : cmap[t] # None /\ cmap[t] + centry.left <= ChecksumLifetime

\* While a thread is inside Get its entry stays, unexpired.
CopySafe ==
    \A c \in Askers : asker[c].at = "copy" =>
        centry # None /\ centry.left >= 0 /\ asker[c].type \in centry.avail

SumInv == SumType /\ InTime /\ CopySafe /\ C!NoStaleChecksum

\* Time that is left is taken from the lifetime.
LEMMA NotOlder ==
    ASSUME NEW age \in Nat, NEW left \in Int, NEW lifetime \in Nat,
           left >= 0, age + left <= lifetime
    PROVE  age <= lifetime
  OBVIOUS

\* The bounds of the times.
LEMMA SumConstants ==
    /\ ChecksumLifetime \in Nat /\ C!TooOld \in Nat /\ C!TooOld = ChecksumLifetime + 1
    /\ C!Lowest \in Int /\ C!Lowest < 0 /\ C!TooOld + C!Lowest <= ChecksumLifetime
    /\ None \notin SumEntry /\ None \notin 0..C!TooOld
  <1>1. /\ ChecksumLifetime \in Nat /\ MaxLag \in Nat /\ None \notin Nat
        /\ None \notin [avail : SUBSET Types, last : Types, value : [type : Types, age : Nat],
                        left : Int]
    BY Zenon, ComponentConstants DEF C!ConstantsOK
  <1>2. /\ C!TooOld \in Nat /\ C!TooOld = ChecksumLifetime + 1
        /\ C!Lowest \in Int /\ C!Lowest < 0 /\ C!TooOld + C!Lowest <= ChecksumLifetime
    BY <1>1 DEF C!TooOld, C!Lowest
  <1>3. SumEntry \subseteq [avail : SUBSET Types, last : Types,
                            value : [type : Types, age : Nat], left : Int]
    BY <1>1, <1>2 DEF SumEntry, Sum
  <1> QED BY <1>1, <1>2, <1>3

\* A step of the clock.
LEMMA SumTick ==
    ASSUME SumInv, C!Tick
    PROVE  SumInv'
  <1>1. asker' = asker /\ told' = told /\ \A c \in Askers : asker[c].at # "copy"
    BY Zenon DEF C!Tick, C!Unread
  <1>2. \A n \in 0..C!TooOld : C!Older(n) \in 0..C!TooOld /\ C!Older(n) <= n + 1
    BY SumConstants DEF C!Older
  <1>3. C!Older(None) = None
    BY Zenon DEF C!Older
  <1>4. cmap' \in [Types -> (0..C!TooOld) \cup {None}]
    BY Zenon, <1>2, <1>3 DEF C!Tick, SumInv, SumType
  <1>5. CASE centry = None
    <2>1. centry' = None
      BY Zenon, <1>5 DEF C!Tick
    <2> QED BY Zenon, <1>1, <1>4, <2>1 DEF SumInv, SumType, InTime, CopySafe, C!NoStaleChecksum
  <1>6. CASE centry # None
    <2> DEFINE l == IF centry.left = C!Lowest THEN centry.left ELSE centry.left - 1
               v == [centry.value EXCEPT !.age = C!Older(centry.value.age)]
    <2>1. /\ centry \in SumEntry /\ centry.value \in Sum /\ centry.value.age \in 0..C!TooOld
          /\ centry.left \in C!Lowest..ChecksumLifetime /\ centry.avail \subseteq Types
      BY Zenon, <1>6 DEF SumInv, SumType, SumEntry, Sum
    <2>2. centry' = [centry EXCEPT !.left = l, !.value = v]
      BY Zenon, <1>6, <2>1 DEF C!Tick, SumEntry, Sum
    <2>3. v \in Sum /\ v.age = C!Older(centry.value.age)
      BY Zenon, <1>2, <2>1 DEF Sum
    <2>4. l \in C!Lowest..ChecksumLifetime
      BY <2>1, SumConstants
    <2>5. /\ centry' \in SumEntry /\ centry'.left = l /\ centry'.value = v
          /\ centry'.avail = centry.avail
      <3> HIDE DEF l, v
      <3> QED BY Zenon, <2>1, <2>2, <2>3, <2>4 DEF SumEntry
    <2>6. ASSUME NEW n \in 0..C!TooOld, n + centry.left <= ChecksumLifetime
          PROVE  C!Older(n) + l <= ChecksumLifetime
      <3>1. C!Older(n) \in 0..C!TooOld /\ C!Older(n) <= n + 1
        BY Zenon, <1>2
      <3>2. n \in Nat /\ C!Older(n) \in Nat /\ C!Older(n) <= C!TooOld /\ centry.left \in Int
        BY <2>1, <3>1, SumConstants
      <3> QED BY <2>6, <3>1, <3>2, SumConstants
    <2>7. centry.value.age + centry.left <= ChecksumLifetime
      BY Zenon, <1>6 DEF SumInv, InTime
    <2>8. ASSUME NEW t \in centry'.avail
          PROVE  cmap'[t] # None /\ cmap'[t] + centry'.left <= ChecksumLifetime
      <3>1. t \in Types /\ cmap[t] \in 0..C!TooOld /\ cmap[t] + centry.left <= ChecksumLifetime
        BY Zenon, <1>6, <2>1, <2>5 DEF SumInv, InTime, SumType
      <3>2. cmap'[t] = C!Older(cmap[t])
        BY Zenon, <3>1 DEF C!Tick
      <3> HIDE DEF l, v
      <3> QED BY Zenon, <1>2, <2>5, <2>6, <3>1, <3>2, SumConstants
    <2>9. centry'.value.age + centry'.left <= ChecksumLifetime
      <3> HIDE DEF l, v
      <3> QED BY Zenon, <2>1, <2>3, <2>5, <2>6, <2>7
    <2>10. InTime'
      BY Zenon, <2>8, <2>9 DEF InTime
    <2> QED BY Zenon, <1>1, <1>4, <2>5, <2>10 DEF SumInv, SumType, CopySafe, C!NoStaleChecksum
  <1> QED BY Zenon, <1>5, <1>6

\* Get: what it finds is in time.
LEMMA SumAsk ==
    ASSUME SumInv, NEW c \in Askers, NEW t \in Types, C!Ask(c, t)
    PROVE  SumInv'
  <1>1. cmap' = cmap
    BY Zenon DEF C!Ask
  <1>2. \A what \in {"origin", "copy"} :
           C!Become(c, what, t) =>
              /\ asker' \in [Askers -> {C!Idle} \cup [at : {"origin", "copy"}, type : Types]]
              /\ asker'[c].at = what /\ asker'[c].type = t
              /\ \A d \in Askers : d # c => asker'[d] = asker[d]
    BY DEF C!Become, SumInv, SumType
  <1>3. CASE ~C!Hits(t) /\ C!Become(c, "origin", t) /\ UNCHANGED <<centry, told>>
    <2>1. \A d \in Askers : asker'[d].at = "copy" => asker'[d] = asker[d]
      BY Zenon, <1>2, <1>3
    <2>2. SumType'
      BY Zenon, <1>1, <1>2, <1>3 DEF SumInv, SumType
    <2>3. CopySafe'
      BY Zenon, <1>3, <2>1 DEF SumInv, CopySafe
    <2> QED BY Zenon, <1>1, <1>3, <2>2, <2>3 DEF SumInv, InTime, C!NoStaleChecksum
  <1>4. CASE /\ C!Hits(t) /\ centry.last = t
             /\ told' = [type |-> t, value |-> centry.value] /\ UNCHANGED <<centry, asker>>
    <2>1. centry # None /\ centry.left >= 0
      BY Zenon, <1>4 DEF C!Hits
    <2>2. /\ centry.left \in Int /\ centry.value.age \in Nat
          /\ centry.value.age + centry.left <= ChecksumLifetime
      BY <2>1, SumConstants DEF SumInv, SumType, InTime, SumEntry, Sum
    <2>3. centry.value.age <= ChecksumLifetime
      BY Zenon, <2>1, <2>2, SumConstants, NotOlder
    <2>4. C!NoStaleChecksum'
      BY Zenon, <1>4, <2>3 DEF C!NoStaleChecksum
    <2> QED BY ZenonT(20), <1>1, <1>4, <2>4 DEF SumInv, SumType, InTime, CopySafe
  <1>5. CASE /\ C!Hits(t) /\ centry.last # t /\ centry' = [centry EXCEPT !.last = t]
             /\ C!Become(c, "copy", t) /\ UNCHANGED told
    <2>1. centry # None /\ centry.left >= 0 /\ t \in centry.avail
      BY Zenon, <1>5 DEF C!Hits
    <2>2. centry \in SumEntry
      BY Zenon, <2>1 DEF SumInv, SumType
    <2>3. /\ centry' \in SumEntry /\ centry'.left = centry.left /\ centry'.avail = centry.avail
          /\ centry'.value = centry.value
      BY Zenon, <1>5, <2>2 DEF SumEntry
    <2>4. centry' # None
      BY Zenon, <2>3, SumConstants
    <2>5. SumType'
      BY Zenon, <1>1, <1>2, <1>5, <2>3 DEF SumInv, SumType
    <2>6. InTime'
      BY Zenon, <1>1, <2>1, <2>3 DEF SumInv, InTime
    <2>7. CopySafe'
      <3> SUFFICES ASSUME NEW d \in Askers, asker'[d].at = "copy"
                   PROVE  centry' # None /\ centry'.left >= 0 /\ asker'[d].type \in centry'.avail
        BY Zenon DEF CopySafe
      <3>1. CASE d = c
        BY Zenon, <1>2, <1>5, <2>1, <2>3, <2>4, <3>1
      <3>2. CASE d # c
        BY Zenon, <1>2, <1>5, <2>3, <2>4, <3>2 DEF SumInv, CopySafe
      <3> QED BY Zenon, <3>1, <3>2
    <2> QED BY Zenon, <1>5, <2>5, <2>6, <2>7 DEF SumInv, C!NoStaleChecksum
  <1> QED BY Zenon, <1>3, <1>4, <1>5 DEF C!Ask

\* The end of Get: the value in the map is in time as well.
LEMMA SumCopy ==
    ASSUME SumInv, NEW c \in Askers, C!Copy(c)
    PROVE  SumInv'
  <1> DEFINE t == asker[c].type
             v == [type |-> t, age |-> cmap[t]]
  <1>1. /\ centry' = [centry EXCEPT !.value = v] /\ told' = [type |-> t, value |-> v]
        /\ asker' = [asker EXCEPT ![c] = C!Idle] /\ cmap' = cmap
    BY Zenon DEF C!Copy
  <1>2. centry # None /\ centry.left >= 0 /\ t \in centry.avail
    BY Zenon DEF C!Copy, SumInv, CopySafe
  <1>3. centry \in SumEntry
    BY Zenon, <1>2 DEF SumInv, SumType
  <1>4. /\ t \in Types /\ cmap[t] \in 0..C!TooOld /\ cmap[t] + centry.left <= ChecksumLifetime
        /\ centry.left \in Int
    BY SMTT(20), <1>2, <1>3, SumConstants DEF SumInv, SumType, InTime, SumEntry
  <1>5. v \in Sum /\ v.age = cmap[t]
    BY Zenon, <1>4 DEF Sum
  <1> HIDE DEF v
  <1>6. /\ centry' \in SumEntry /\ centry'.left = centry.left /\ centry'.avail = centry.avail
        /\ centry'.value = v
    BY Zenon, <1>1, <1>3, <1>5 DEF SumEntry
  <1>7. asker' \in [Askers -> {C!Idle} \cup [at : {"origin", "copy"}, type : Types]]
    BY Zenon, <1>1 DEF SumInv, SumType
  <1>8. \A d \in Askers : asker'[d].at = "copy" => asker'[d] = asker[d]
    BY Zenon, <1>1 DEF SumInv, SumType, C!Idle
  <1>9. SumType'
    BY Zenon, <1>1, <1>6, <1>7 DEF SumInv, SumType
  <1>10. InTime'
    BY Zenon, <1>1, <1>2, <1>4, <1>5, <1>6 DEF SumInv, InTime
  <1>11. CopySafe'
    BY Zenon, <1>2, <1>6, <1>8, SumConstants DEF SumInv, CopySafe
  <1>12. cmap[t] <= ChecksumLifetime
    <2>1. cmap[t] \in Nat
      BY <1>4, SumConstants
    <2> HIDE DEF t
    <2> QED BY <1>2, <1>4, <2>1, SumConstants
  <1>13. C!NoStaleChecksum'
    BY Zenon, <1>1, <1>5, <1>12 DEF C!NoStaleChecksum
  <1> QED BY Zenon, <1>9, <1>10, <1>11, <1>13 DEF SumInv

\* The response of the origin, which leaves an entry alone that exists.
LEMMA SumPut ==
    ASSUME SumInv, NEW c \in Askers, C!Put(c)
    PROVE  SumInv'
  <1>1. /\ asker' = [asker EXCEPT ![c] = C!Idle] /\ told' = told
        /\ \A d \in Askers : asker[d].at # "copy"
    BY Zenon DEF C!Put, C!Unread
  <1>2. asker' \in [Askers -> {C!Idle} \cup [at : {"origin", "copy"}, type : Types]]
    BY Zenon, <1>1 DEF SumInv, SumType
  <1>3. \A d \in Askers : asker'[d].at # "copy"
    BY Zenon, <1>1 DEF SumInv, SumType, C!Idle
  <1>4. PICK S \in SUBSET Types :
           IF S = {} THEN UNCHANGED <<cmap, centry>>
           ELSE /\ cmap' = [t \in Types |-> IF t \in S THEN 0 ELSE cmap[t]]
                /\ centry' = C!Emplace(centry, S)
    BY Zenon DEF C!Put
  <1>5. CASE S = {}
    BY Zenon, <1>1, <1>2, <1>3, <1>4, <1>5
       DEF SumInv, SumType, InTime, CopySafe, C!NoStaleChecksum
  <1>6. CASE S # {}
    <2>1. /\ cmap' = [t \in Types |-> IF t \in S THEN 0 ELSE cmap[t]]
          /\ centry' = C!Emplace(centry, S)
      BY Zenon, <1>4, <1>6
    <2>2. 0 \in 0..C!TooOld /\ 0 # None
      BY SumConstants
    <2>3. cmap' \in [Types -> (0..C!TooOld) \cup {None}]
      BY Zenon, <2>1, <2>2 DEF SumInv, SumType
    <2>4. CASE centry = None
      <3> DEFINE t == CHOOSE t \in S : TRUE
      <3>1. t \in S /\ t \in Types
        BY Zenon, <1>6
      <3>2. centry' = [avail |-> S, last |-> t, value |-> [type |-> t, age |-> 0],
                       left |-> ChecksumLifetime]
        BY Zenon, <2>1, <2>4 DEF C!Emplace
      <3> HIDE DEF t
      <3>3. centry' \in SumEntry
        BY <2>2, <3>1, <3>2, SumConstants DEF SumEntry, Sum
      <3>4. \A u \in S : cmap'[u] = 0
        BY Zenon, <2>1
      <3>5. 0 + ChecksumLifetime <= ChecksumLifetime
        BY SMTT(20), SumConstants
      <3>6. InTime'
        BY Zenon, <2>2, <3>2, <3>4, <3>5 DEF InTime
      <3> QED BY Zenon, <1>1, <1>2, <1>3, <2>3, <3>3, <3>6
              DEF SumInv, SumType, CopySafe, C!NoStaleChecksum
    <2>5. CASE centry # None
      <3>1. centry' = centry /\ centry \in SumEntry
        BY Zenon, <2>1, <2>5 DEF C!Emplace, SumInv, SumType
      <3>2. centry.left \in Int /\ centry.left <= ChecksumLifetime /\ centry.avail \subseteq Types
        BY <3>1, SumConstants DEF SumEntry
      <3>3. ASSUME NEW u \in centry.avail
            PROVE  cmap'[u] # None /\ cmap'[u] + centry.left <= ChecksumLifetime
        <4>1. cmap[u] # None /\ cmap[u] + centry.left <= ChecksumLifetime
          BY Zenon, <2>5 DEF SumInv, InTime
        <4>2. cmap'[u] = 0 \/ cmap'[u] = cmap[u]
          BY Zenon, <2>1, <3>2
        <4>3. 0 + centry.left <= ChecksumLifetime
          BY <3>2
        <4> QED BY Zenon, <2>2, <4>1, <4>2, <4>3
      <3>4. InTime'
        BY Zenon, <3>1, <3>3 DEF SumInv, InTime
      <3> QED BY ZenonT(20), <1>1, <1>2, <1>3, <2>3, <3>1, <3>4
              DEF SumInv, SumType, CopySafe, C!NoStaleChecksum
    <2> QED BY Zenon, <2>4, <2>5
  <1> QED BY Zenon, <1>5, <1>6

\* No checksum is given out that is older than g_expiry_duration, although Put leaves an
\* entry alone that exists, Get copies between maps and entry under a shared lock, and
\* maps keep checksums no entry knows of.
THEOREM NoChecksumTooOld ==
    C!Spec => []NoStaleChecksum
  <1>1. C!Init => SumInv
    BY DEF C!Init, SumInv, SumType, InTime, CopySafe, C!NoStaleChecksum, C!Idle
  <1>2. SumInv /\ [C!Next]_C!cvars => SumInv'
    <2> SUFFICES ASSUME SumInv, [C!Next]_C!cvars PROVE SumInv'
      BY Zenon
    <2>1. CASE C!Expire
      <3>1. /\ centry' = None /\ asker' = asker /\ told' = told
            /\ \A c \in Askers : asker[c].at # "copy"
        BY Zenon, <2>1 DEF C!Expire, C!Unread
      <3>2. cmap' \in [Types -> (0..C!TooOld) \cup {None}]
        BY Zenon, <2>1 DEF C!Expire, SumInv, SumType
      <3> QED BY Zenon, <3>1, <3>2 DEF SumInv, SumType, InTime, CopySafe, C!NoStaleChecksum
    <2>2. CASE UNCHANGED C!cvars
      BY Zenon, <2>2 DEF C!cvars, SumInv, SumType, InTime, CopySafe, C!NoStaleChecksum
    <2> QED BY Zenon, <2>1, <2>2, SumTick, SumAsk, SumCopy, SumPut DEF C!Next
  <1>3. SumInv => NoStaleChecksum
    BY Zenon DEF SumInv, NoStaleChecksum
  <1> QED BY <1>1, <1>2, <1>3, PTL DEF C!Spec

-----------------------------------------------------------------------------
(* The access token. *)

Places == {"out", "read", "files", "filesystems", "contents"}

TokenType ==
    /\ refresh \in [Refreshers -> [at : Places, old : T!Values, new : T!Values]]
    /\ wrapped \in [Files -> [at : {"none", "made", "open"}, token : T!Values]]
    /\ {onDisk, contents, fileParam} \subseteq T!Values
    /\ overlapped \in BOOLEAN /\ manual \in BOOLEAN

\* The token of the files that are open.
OpenAgree == \A f \in Files : wrapped[f].at = "open" => wrapped[f].token = fileParam

\* Refreshes that have not overlapped are one at a time.
Alone == ~overlapped => \A r, s \in Refreshers : r # s => T!Idle(r) \/ T!Idle(s)

\* How far such a refresh has come: files first, then filesystems, then the factory.
Underway ==
    ~overlapped /\ ~manual =>
        /\ (\A r \in Refreshers : refresh[r].at \in {"out", "read", "files"}) =>
              fileParam = contents /\ fsParam = contents
        /\ \A r \in Refreshers :
              /\ refresh[r].at \in {"filesystems", "contents"} => fileParam = refresh[r].new
              /\ refresh[r].at = "contents" => fsParam = refresh[r].new

TokenInv == TokenType /\ OpenAgree /\ Alone /\ Underway

\* SetCacheToken of the files reaches every one that may be open.
LEMMA FilesSet ==
    ASSUME TokenType, NEW v \in T!Values, T!SetFiles(v)
    PROVE  /\ fileParam' = v /\ OpenAgree'
           /\ wrapped' \in [Files -> [at : {"none", "made", "open"}, token : T!Values]]
  <1>1. /\ fileParam' = v
        /\ wrapped' = [f \in Files |-> IF wrapped[f].at = "none" THEN wrapped[f]
                                       ELSE [wrapped[f] EXCEPT !.token = v]]
    BY Zenon DEF T!SetFiles
  <1>2. ASSUME NEW f \in Files
        PROVE  /\ wrapped'[f] \in [at : {"none", "made", "open"}, token : T!Values]
               /\ wrapped'[f].at = "open" => wrapped'[f].token = v
    BY Zenon, <1>1 DEF TokenType
  <1> QED BY Zenon, <1>1, <1>2 DEF OpenAgree

\* The steps of a refresh.
LEMMA TokenRefresh ==
    ASSUME TokenInv, NEW r \in Refreshers,
           \/ T!Begin(r) \/ T!Read(r)
           \/ T!UpdateFiles(r) \/ T!UpdateFilesystems(r) \/ T!Remember(r)
    PROVE  TokenInv'
  <1>1. refresh[r] \in [at : Places, old : T!Values, new : T!Values]
    BY Zenon DEF TokenInv, TokenType
  <1>2. NoToken \in T!Values
    BY Zenon DEF T!Values
  <1>3. \A where \in Places : T!Goes(r, where) =>
           /\ refresh' \in [Refreshers -> [at : Places, old : T!Values, new : T!Values]]
           /\ refresh'[r].at = where /\ refresh'[r].new = refresh[r].new
           /\ \A s \in Refreshers : s # r => refresh'[s] = refresh[s]
    BY SMTT(20) DEF T!Goes, TokenInv, TokenType
  <1>4. CASE T!Begin(r)
    <2>1. /\ UNCHANGED <<onDisk, contents, fileParam, fsParam, wrapped, httpFs, manual>>
          /\ overlapped' = (overlapped \/ \E s \in Refreshers \ {r} : ~T!Idle(s))
          /\ refresh[r].at = "out"
      BY Zenon, <1>4 DEF T!Begin, T!given, T!Idle
    <2>2. /\ refresh' \in [Refreshers -> [at : Places, old : T!Values, new : T!Values]]
          /\ refresh'[r].at \in {"out", "read"}
          /\ \A s \in Refreshers : s # r => refresh'[s] = refresh[s]
      BY Zenon, <1>2, <1>4, <2>1 DEF T!Begin, TokenInv, TokenType, Places
    <2>3. TokenType'
      BY Zenon, <2>1, <2>2 DEF TokenInv, TokenType
    <2>4. ~overlapped' => ~overlapped /\ \A s \in Refreshers : s # r => refresh[s].at = "out"
      BY ZenonT(20), <2>1 DEF T!Idle
    <2>5. Alone'
      BY Zenon, <2>2, <2>4 DEF Alone, T!Idle
    <2>6. Underway'
      BY ZenonT(20), <2>1, <2>2, <2>4 DEF TokenInv, Underway
    <2> QED BY Zenon, <2>1, <2>3, <2>5, <2>6 DEF TokenInv, OpenAgree
  <1>5. CASE T!Read(r)
    <2>1. /\ UNCHANGED <<onDisk, contents, fileParam, fsParam, wrapped, overlapped, manual>>
          /\ refresh[r].at = "read"
      BY Zenon, <1>5 DEF T!Read, T!given
    <2>2. /\ refresh' \in [Refreshers -> [at : Places, old : T!Values, new : T!Values]]
          /\ refresh'[r].at \in {"out", "files"}
          /\ \A s \in Refreshers : s # r => refresh'[s] = refresh[s]
      <3>1. CASE T!Goes(r, "out")
        BY Zenon, <1>3, <3>1 DEF Places
      <3>2. CASE refresh' = [refresh EXCEPT ![r].at = "files", ![r].new = onDisk]
        BY ZenonT(20), <3>2 DEF TokenInv, TokenType, Places
      <3> QED BY Zenon, <1>5, <3>1, <3>2 DEF T!Read
    <2>3. TokenType'
      BY Zenon, <2>1, <2>2 DEF TokenInv, TokenType
    <2>4. Alone'
      BY Zenon, <2>1, <2>2 DEF TokenInv, Alone, T!Idle
    <2>5. Underway'
      BY Zenon, <2>1, <2>2 DEF TokenInv, Underway
    <2> QED BY Zenon, <2>1, <2>3, <2>4, <2>5 DEF TokenInv, OpenAgree
  <1>6. CASE T!UpdateFiles(r)
    <2>1. /\ UNCHANGED <<onDisk, contents, fsParam, overlapped, manual>>
          /\ refresh[r].at = "files" /\ T!SetFiles(refresh[r].new) /\ T!Goes(r, "filesystems")
      BY Zenon, <1>6 DEF T!UpdateFiles
    <2>2. /\ fileParam' = refresh[r].new /\ OpenAgree'
          /\ wrapped' \in [Files -> [at : {"none", "made", "open"}, token : T!Values]]
      BY Zenon, <1>1, <2>1, FilesSet DEF TokenInv
    <2>3. /\ refresh' \in [Refreshers -> [at : Places, old : T!Values, new : T!Values]]
          /\ refresh'[r].at = "filesystems" /\ refresh'[r].new = refresh[r].new
          /\ \A s \in Refreshers : s # r => refresh'[s] = refresh[s]
      BY Zenon, <1>3, <2>1 DEF Places
    <2>4. TokenType'
      BY Zenon, <1>1, <2>1, <2>2, <2>3 DEF TokenInv, TokenType
    <2>5. Alone'
      BY Zenon, <2>1, <2>3 DEF TokenInv, Alone, T!Idle
    <2>6. ~overlapped => \A s \in Refreshers : s # r => refresh[s].at = "out"
      BY ZenonT(20), <2>1 DEF TokenInv, Alone, T!Idle
    <2>7. Underway'
      BY ZenonT(20), <2>1, <2>2, <2>3, <2>6 DEF Underway
    <2> QED BY Zenon, <2>2, <2>4, <2>5, <2>7 DEF TokenInv
  <1>7. CASE T!UpdateFilesystems(r)
    <2>1. /\ UNCHANGED <<onDisk, contents, fileParam, wrapped, overlapped, manual>>
          /\ refresh[r].at = "filesystems" /\ fsParam' = refresh[r].new /\ T!Goes(r, "contents")
      BY Zenon, <1>7 DEF T!UpdateFilesystems, T!SetFilesystems
    <2>2. /\ refresh' \in [Refreshers -> [at : Places, old : T!Values, new : T!Values]]
          /\ refresh'[r].at = "contents" /\ refresh'[r].new = refresh[r].new
          /\ \A s \in Refreshers : s # r => refresh'[s] = refresh[s]
      BY Zenon, <1>3, <2>1 DEF Places
    <2>3. TokenType'
      BY Zenon, <2>1, <2>2 DEF TokenInv, TokenType
    <2>4. Alone'
      BY ZenonT(20), <2>1, <2>2 DEF TokenInv, Alone, T!Idle
    <2>5. ~overlapped => \A s \in Refreshers : s # r => refresh[s].at = "out"
      BY ZenonT(20), <2>1 DEF TokenInv, Alone, T!Idle
    <2>6. Underway'
      BY ZenonT(20), <2>1, <2>2, <2>5 DEF TokenInv, Underway
    <2> QED BY Zenon, <2>1, <2>3, <2>4, <2>6 DEF TokenInv, OpenAgree
  <1>8. CASE T!Remember(r)
    <2>1. /\ UNCHANGED <<onDisk, fileParam, fsParam, wrapped, overlapped, manual>>
          /\ refresh[r].at = "contents" /\ contents' = refresh[r].new /\ T!Goes(r, "out")
      BY ZenonT(20), <1>8 DEF T!Remember, T!given
    <2>2. /\ refresh' \in [Refreshers -> [at : Places, old : T!Values, new : T!Values]]
          /\ refresh'[r].at = "out" /\ refresh'[r].new = refresh[r].new
          /\ \A s \in Refreshers : s # r => refresh'[s] = refresh[s]
      BY Zenon, <1>3, <2>1 DEF Places
    <2>3. TokenType'
      BY Zenon, <1>1, <2>1, <2>2 DEF TokenInv, TokenType
    <2>4. Alone'
      BY ZenonT(20), <2>1, <2>2 DEF TokenInv, Alone, T!Idle
    <2>5. ~overlapped => \A s \in Refreshers : s # r => refresh[s].at = "out"
      BY ZenonT(20), <2>1 DEF TokenInv, Alone, T!Idle
    <2>6. ~overlapped /\ ~manual => fileParam = refresh[r].new /\ fsParam = refresh[r].new
      BY Zenon, <2>1 DEF TokenInv, Underway
    <2>7. Underway'
      BY Zenon, <2>1, <2>2, <2>5, <2>6 DEF Underway
    <2> QED BY ZenonT(20), <2>1, <2>3, <2>4, <2>7 DEF TokenInv, OpenAgree
  <1> QED BY Zenon, <1>4, <1>5, <1>6, <1>7, <1>8

\* Files and filesystems under construction, CacheToken, and the file that changes.
LEMMA TokenOther ==
    ASSUME TokenInv,
           \/ T!Rotate \/ \E v \in T!Values : T!SetCacheToken(v)
           \/ \E f \in Files : T!MakeWrapped(f) \/ T!GiveToken(f)
           \/ \E h \in Hosts : T!MakeHttpFs(h) \/ T!MapHttpFs(h)
    PROVE  TokenInv'
  <1>1. CASE T!Rotate
    <2>1. UNCHANGED <<contents, refresh, fileParam, fsParam, wrapped, overlapped, manual>>
      BY Zenon, <1>1 DEF T!Rotate, T!given
    <2>2. onDisk' \in T!Values
      BY Zenon, <1>1 DEF T!Rotate, T!Values
    <2> QED BY Zenon, <2>1, <2>2 DEF TokenInv, TokenType, OpenAgree, Alone, Underway, T!Idle
  <1>2. ASSUME NEW v \in T!Values, T!SetCacheToken(v) PROVE TokenInv'
    <2>1. /\ UNCHANGED <<onDisk, contents, refresh, fsParam, overlapped>> /\ manual' = TRUE
          /\ T!SetFiles(v)
      BY Zenon, <1>2 DEF T!SetCacheToken
    <2>2. /\ fileParam' = v /\ OpenAgree'
          /\ wrapped' \in [Files -> [at : {"none", "made", "open"}, token : T!Values]]
      BY Zenon, <2>1, FilesSet DEF TokenInv
    <2> QED BY Zenon, <2>1, <2>2 DEF TokenInv, TokenType, Alone, Underway, T!Idle
  <1>3. ASSUME NEW f \in Files, T!MakeWrapped(f) \/ T!GiveToken(f) PROVE TokenInv'
    <2>1. /\ UNCHANGED <<onDisk, contents, refresh, fileParam, fsParam, overlapped, manual>>
          /\ \/ wrapped' = [wrapped EXCEPT ![f] = [at |-> "made", token |-> NoToken]]
             \/ wrapped' = [wrapped EXCEPT ![f] = [at |-> "open", token |-> fileParam]]
      <3>1. CASE T!MakeWrapped(f)
        BY Zenon, <3>1 DEF T!MakeWrapped
      <3>2. CASE T!GiveToken(f)
        BY Zenon, <3>2 DEF T!GiveToken
      <3> QED BY Zenon, <1>3, <3>1, <3>2
    <2> DEFINE W == [at : {"none", "made", "open"}, token : T!Values]
    <2>2. NoToken \in T!Values /\ fileParam \in T!Values /\ wrapped \in [Files -> W] /\ OpenAgree
      BY Zenon DEF T!Values, TokenInv, TokenType
    <2>3. PICK w \in W : /\ wrapped' = [wrapped EXCEPT ![f] = w]
                         /\ w.at = "open" => w.token = fileParam
      <3>1. CASE wrapped' = [wrapped EXCEPT ![f] = [at |-> "made", token |-> NoToken]]
        <4>1. [at |-> "made", token |-> NoToken] \in W
          BY Zenon, <2>2
        <4> QED BY Zenon, <3>1, <4>1
      <3>2. CASE wrapped' = [wrapped EXCEPT ![f] = [at |-> "open", token |-> fileParam]]
        <4>1. [at |-> "open", token |-> fileParam] \in W
          BY Zenon, <2>2
        <4> QED BY Zenon, <3>2, <4>1
      <3> QED BY Zenon, <2>1, <3>1, <3>2
    <2>4. wrapped' \in [Files -> W]
      <3> HIDE DEF W
      <3> QED BY ZenonT(30), <2>2, <2>3
    <2>5. OpenAgree'
      <3> HIDE DEF W
      <3>1. ASSUME NEW g \in Files, wrapped'[g].at = "open" PROVE wrapped'[g].token = fileParam
        BY Zenon, <2>2, <2>3, <3>1 DEF OpenAgree
      <3>2. fileParam' = fileParam
        BY Zenon, <2>1
      <3> QED BY Zenon, <3>1, <3>2 DEF OpenAgree
    <2>6. TokenType'
      BY Zenon, <2>1, <2>4 DEF TokenInv, TokenType
    <2>7. Alone' /\ Underway'
      BY Zenon, <2>1 DEF TokenInv, Alone, Underway, T!Idle
    <2> QED BY Zenon, <2>5, <2>6, <2>7 DEF TokenInv
  <1>4. ASSUME NEW h \in Hosts, T!MakeHttpFs(h) \/ T!MapHttpFs(h) PROVE TokenInv'
    <2>1. UNCHANGED <<onDisk, contents, refresh, fileParam, fsParam, wrapped, overlapped, manual>>
      BY Zenon, <1>4 DEF T!MakeHttpFs, T!MapHttpFs
    <2> QED BY Zenon, <2>1 DEF TokenInv, TokenType, OpenAgree, Alone, Underway, T!Idle
  <1> QED BY SMTT(20), <1>1, <1>2, <1>3, <1>4

\* A file that is open has the token of the plug-in, whatever opens, retries, refreshes
\* and CacheToken do at once; and refreshes that do not overlap leave files, filesystems
\* and m_token_contents with one token.
THEOREM OneToken ==
    T!Spec => []TokensAgree
  <1>1. T!Init => TokenInv
    <2> SUFFICES ASSUME T!Init PROVE TokenInv
      OBVIOUS
    <2>1. /\ contents \in T!Values /\ onDisk \in T!Values /\ NoToken \in T!Values
          /\ fileParam = contents /\ fsParam = contents /\ overlapped = FALSE /\ manual = FALSE
      BY Zenon DEF T!Init, T!Values
    <2>2. refresh = [r \in Refreshers |-> [at |-> "out", old |-> NoToken, new |-> NoToken]]
      BY Zenon DEF T!Init, T!Resting
    <2>3. wrapped = [f \in Files |-> [at |-> "none", token |-> NoToken]]
      BY Zenon DEF T!Init
    <2>4. TokenType
      BY ZenonT(20), <2>1, <2>2, <2>3 DEF TokenType, Places
    <2> QED BY Zenon, <2>1, <2>2, <2>3, <2>4 DEF TokenInv, OpenAgree, Alone, Underway, T!Idle
  <1>2. TokenInv /\ [T!Next]_T!tvars => TokenInv'
    <2> SUFFICES ASSUME TokenInv, [T!Next]_T!tvars PROVE TokenInv'
      OBVIOUS
    <2>1. CASE UNCHANGED T!tvars
      BY Zenon, <2>1 DEF T!tvars, TokenInv, TokenType, OpenAgree, Alone, Underway, T!Idle
    <2> QED BY Zenon, <2>1, TokenRefresh, TokenOther DEF T!Next
  <1>3. TokenInv => TokensAgree
    BY Zenon DEF TokenInv, TokensAgree, T!TokensAgree, OpenAgree, Underway, T!Idle
  <1> QED BY <1>1, <1>2, <1>3, PTL DEF T!Spec
=============================================================================
