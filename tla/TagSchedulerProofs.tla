------------------------- MODULE TagSchedulerProofs -------------------------
(***************************************************************************)
(* For every set of origins, operations and workers and every setting of   *)
(* the limits: the scheduler's counters are exact and its caps hold.       *)
(***************************************************************************)
EXTENDS TagScheduler, BasicLemmas

\* A set of operations that gains one operation is one larger.
LEMMA GrowByOne ==
    ASSUME NEW S \in SUBSET Ops, NEW T \in SUBSET Ops, NEW o \in Ops,
           o \notin S, T = S \cup {o}
    PROVE  /\ Cardinality(S) \in Nat
           /\ Cardinality(T) = Cardinality(S) + 1
  <1>1. IsFiniteSet(S)
    BY Zenon, FS_Subset, ConstantsAssumption
  <1> QED BY Zenon, <1>1, FS_AddElement, FS_CardinalityType

\* A set of operations that loses one operation is one smaller.
LEMMA ShrinkByOne ==
    ASSUME NEW S \in SUBSET Ops, NEW T \in SUBSET Ops, NEW o \in S,
           T = S \ {o}
    PROVE  /\ Cardinality(S) \in Nat /\ Cardinality(S) > 0
           /\ Cardinality(T) = Cardinality(S) - 1
  <1>1. IsFiniteSet(S) /\ IsFiniteSet(T)
    BY Zenon, FS_Subset, ConstantsAssumption
  <1>2. Cardinality(T) = Cardinality(S) - 1
    BY Zenon, <1>1, FS_RemoveElement
  <1> QED BY <1>1, <1>2, FS_CardinalityType

\* The cardinality of a set of operations is a natural number.
LEMMA CardIsNat ==
    ASSUME NEW S \in SUBSET Ops
    PROVE  Cardinality(S) \in Nat
  BY Zenon, FS_Subset, FS_CardinalityType, ConstantsAssumption

\* Both caps are positive integers.
LEMMA CapsType == StarvingCap \in Nat \ {0} /\ ActiveCap \in Nat \ {0}
  <1>1. Cardinality(Workers) \in Nat
    BY Zenon, FS_CardinalityType, ConstantsAssumption
  <1>2. WorkerCount \in Nat \ {0}
    <2>1. Cardinality(Workers) * MaxOps \in Nat
      BY <1>1, ConstantsAssumption
    <2> QED BY <2>1 DEF WorkerCount
  <1>3. ASSUME NEW percent \in Int
        PROVE  PercentToCap(percent) \in Nat \ {0}
    <2>1. CASE percent <= 0 \/ percent >= 100
      BY Zenon, <1>2, <2>1 DEF PercentToCap
    <2>2. CASE percent > 0 /\ percent < 100
      <3>1. WorkerCount * percent \in Nat
        BY <1>2, <2>2
      <3>2. (WorkerCount * percent + 99) \div 100 \in Int
        BY <3>1
      <3> QED BY <2>2, <3>2 DEF PercentToCap
    <2> QED BY <2>1, <2>2
  <1> QED BY Zenon, <1>3, ConstantsAssumption DEF StarvingCap, ActiveCap

\* Appending a new member.
LEMMA EnumeratesAppend ==
    ASSUME NEW S \in SUBSET Ops, NEW q \in Seq(Ops), NEW o \in Ops,
           Enumerates(q, S), o \notin S
    PROVE  Enumerates(Append(q, o), S \cup {o})
  <1> DEFINE r == Append(q, o)
  <1>1. /\ Len(q) \in Nat /\ Len(r) = Len(q) + 1 /\ r[Len(q) + 1] = o
        /\ \A i \in 1..Len(q) : r[i] = q[i]
    OBVIOUS
  <1>2. \A i \in 1..Len(r) : i \in 1..Len(q) \/ i = Len(q) + 1
    BY <1>1
  <1> HIDE DEF r
  <1>3. \A i \in 1..Len(r) : r[i] \in S \cup {o}
    BY Zenon, <1>1, <1>2 DEF Enumerates
  <1>4. \A i, j \in 1..Len(r) : r[i] = r[j] => i = j
    BY Zenon, <1>1, <1>2 DEF Enumerates
  <1>5. ASSUME NEW p \in S \cup {o} PROVE \E i \in 1..Len(r) : r[i] = p
    <2>1. CASE p \in S
      <3>1. PICK i \in 1..Len(q) : q[i] = p
        BY Zenon, <2>1 DEF Enumerates
      <3> QED BY <1>1, <3>1
    <2>2. CASE p = o
      <3>1. Len(q) + 1 \in 1..Len(r)
        BY <1>1
      <3> QED BY Zenon, <1>1, <2>2, <3>1
    <2> QED BY Zenon, <2>1, <2>2
  <1> QED BY Zenon, <1>3, <1>4, <1>5 DEF Enumerates, r

\* What is left when the member at position i is removed.
LEMMA RemoveAtPlaces ==
    ASSUME NEW q \in Seq(Ops), NEW i \in 1..Len(q)
    PROVE  /\ RemoveAt(q, i) \in Seq(Ops) /\ Len(RemoveAt(q, i)) = Len(q) - 1
           /\ \A k \in 1..Len(RemoveAt(q, i)) :
                 RemoveAt(q, i)[k] = q[IF k < i THEN k ELSE k + 1]
  <1> DEFINE r == RemoveAt(q, i)
             at(k) == IF k < i THEN k ELSE k + 1
             before == SubSeq(q, 1, i - 1)
             after == SubSeq(q, i + 1, Len(q))
  <1>1. /\ before \in Seq(Ops) /\ Len(before) = i - 1
        /\ \A k \in 1..(i - 1) : before[k] = q[k]
    <2>1. 1 \in Int /\ i - 1 \in Int /\ \A k \in 1..(i - 1) : q[k] \in Ops
      OBVIOUS
    <2> QED BY <2>1, SubSeqProperties
  <1>2. /\ after \in Seq(Ops) /\ Len(after) = Len(q) - i
        /\ \A k \in 1..(Len(q) - i) : after[k] = q[i + k]
    <2>1. i + 1 \in Int /\ Len(q) \in Int /\ \A k \in (i + 1)..Len(q) : q[k] \in Ops
      OBVIOUS
    <2> QED BY <2>1, SubSeqProperties
  <1> HIDE DEF before, after
  <1>3. r \in Seq(Ops) /\ Len(r) = Len(q) - 1
    <2>1. r = before \o after
      BY Zenon DEF RemoveAt, before, after
    <2>2. /\ before \o after \in Seq(Ops)
          /\ Len(before \o after) = Len(before) + Len(after)
      BY Zenon, <1>1, <1>2, ConcatProperties
    <2>3. Len(before) + Len(after) = Len(q) - 1
      BY <1>1, <1>2
    <2> HIDE DEF r
    <2> QED BY Zenon, <2>1, <2>2, <2>3
  <1>4. \A k \in 1..Len(r) : r[k] = q[at(k)]
    <2> TAKE k \in 1..Len(r)
    <2>1. r[k] = IF k <= i - 1 THEN before[k] ELSE after[k - (i - 1)]
      <3>1. r = before \o after
        BY Zenon DEF RemoveAt, before, after
      <3>2. k \in 1..(Len(before) + Len(after))
        BY <1>1, <1>2, <1>3
      <3>3. (before \o after)[k] =
               IF k <= Len(before) THEN before[k] ELSE after[k - Len(before)]
        BY Zenon, <1>1, <1>2, <3>2, ConcatProperties
      <3> HIDE DEF r
      <3> QED BY Zenon, <1>1, <3>1, <3>3
    <2>2. CASE k < i
      BY <1>1, <2>1, <2>2
    <2>3. CASE k >= i
      <3>1. k - (i - 1) \in 1..(Len(q) - i) /\ i + (k - (i - 1)) = k + 1
        BY <1>3, <2>3
      <3> QED BY <1>2, <2>1, <2>3, <3>1
    <2> QED BY <1>3, <2>2, <2>3
  <1> QED BY Zenon, <1>3, <1>4

\* Removing the member at position i.
LEMMA EnumeratesRemove ==
    ASSUME NEW S \in SUBSET Ops, NEW q \in Seq(Ops), Enumerates(q, S),
           NEW i \in 1..Len(q)
    PROVE  RemoveAt(q, i) \in Seq(Ops) /\ Enumerates(RemoveAt(q, i), S \ {q[i]})
  <1> DEFINE r == RemoveAt(q, i)
             at(k) == IF k < i THEN k ELSE k + 1
  <1>3. r \in Seq(Ops) /\ Len(r) = Len(q) - 1
    BY Zenon, RemoveAtPlaces
  <1>4. \A k \in 1..Len(r) : r[k] = q[at(k)]
    BY Zenon, RemoveAtPlaces
  <1> HIDE DEF r
  <1>5. /\ Len(q) \in Nat
        /\ \A k \in 1..Len(r) : at(k) \in 1..Len(q) /\ at(k) # i
        /\ \A k, l \in 1..Len(r) : at(k) = at(l) => k = l
        /\ \A j \in 1..Len(q) : j # i => \E k \in 1..Len(r) : at(k) = j
    <2>1. ASSUME NEW j \in 1..Len(q), j # i
          PROVE  \E k \in 1..Len(r) : at(k) = j
      <3>1. CASE j < i
        <4>1. j \in 1..Len(r) /\ at(j) = j
          BY <1>3, <3>1
        <4> QED BY Zenon, <4>1
      <3>2. CASE j > i
        <4>1. j - 1 \in 1..Len(r) /\ at(j - 1) = j
          BY <1>3, <3>2
        <4> QED BY Zenon, <4>1
      <3> QED BY <2>1, <3>1, <3>2
    <2> QED BY <1>3, <2>1
  <1> HIDE DEF at
  <1>6. \A k \in 1..Len(r) : r[k] \in S \ {q[i]}
    BY <1>4, <1>5 DEF Enumerates
  <1>7. \A k, l \in 1..Len(r) : r[k] = r[l] => k = l
    BY <1>4, <1>5 DEF Enumerates
  <1>8. ASSUME NEW p \in S \ {q[i]} PROVE \E k \in 1..Len(r) : r[k] = p
    <2>1. PICK j \in 1..Len(q) : q[j] = p
      BY Zenon DEF Enumerates
    <2>2. PICK k \in 1..Len(r) : at(k) = j
      BY Zenon, <1>5, <2>1
    <2> QED BY Zenon, <1>4, <2>1, <2>2
  <1> QED BY Zenon, <1>3, <1>6, <1>7, <1>8 DEF Enumerates, r

\* The scheduler starts with everything in step.
LEMMA InitInv == Init => SchedulerInv
  <1> SUFFICES ASSUME Init PROVE SchedulerInv
    OBVIOUS
  <1>1. TypeOK
    <2>1. pending \in [Tags -> Seq(Ops)]
      BY DEF Init
    <2> QED BY Zenon, <2>1, ConstantsAssumption DEF Init, TypeOK, OpStates, ThreadStates
  <1>2. Queued = {} /\ \A t \in Tags : Running(t) = {} /\ Starved(t) = {}
    BY Zenon DEF Init, Queued, Running, Starved
  <1>3. Cardinality({}) = 0
    BY Zenon, FS_EmptySet
  <1>4. SlotAccounting
    BY Zenon, <1>2, <1>3 DEF Init, SlotAccounting
  <1>5. CapsRespected
    BY <1>2, <1>3, CapsType DEF CapsRespected
  <1>6. QueueAccounting /\ EntryKept /\ HooksMatch
    BY <1>2, <1>3 DEF Init, QueueAccounting, Waiting, Enumerates, EntryKept,
                      HooksMatch
  <1> QED BY Zenon, <1>1, <1>4, <1>5, <1>6 DEF SchedulerInv

\* A step that moves no operation into or out of a queue keeps the queues' accounts.
LEMMA QueuesKept ==
    ASSUME QueueAccounting, Queued' = Queued, UNCHANGED <<pending, totalPending>>
    PROVE  QueueAccounting'
  <1>1. \A t \in Tags : Waiting(t)' = Waiting(t)
    BY Zenon DEF Waiting
  <1>2. \A t \in Tags : Enumerates(pending[t], Waiting(t)')
    BY Zenon, <1>1 DEF QueueAccounting
  <1> QED BY Zenon, <1>2 DEF QueueAccounting

\* A step that moves no operation and touches no counter keeps the invariant.
LEMMA QuietStep ==
    ASSUME SchedulerInv, TypeOK',
           UNCHANGED <<pending, active, starving, present, totalPending,
                       opState, firstByte, hooked>>
    PROVE  SchedulerInv'
  <1>1. Queued' = Queued /\ \A t \in Tags : Running(t)' = Running(t)
                                            /\ Starved(t)' = Starved(t)
    BY Zenon DEF Queued, Running, Starved
  <1>2. SlotAccounting' /\ CapsRespected'
    BY Zenon, <1>1 DEF SchedulerInv, SlotAccounting, CapsRespected
  <1>3. QueueAccounting'
    BY Zenon, <1>1, QueuesKept DEF SchedulerInv
  <1>4. EntryKept' /\ HooksMatch'
    BY Zenon, <1>1 DEF SchedulerInv, EntryKept, HooksMatch
  <1> QED BY Zenon, <1>2, <1>3, <1>4 DEF SchedulerInv

\* Notifying a sleeper keeps the threads' type.
LEMMA NotifyType ==
    ASSUME TypeOK, NotifyOne \/ UNCHANGED thread
    PROVE  thread' \in [Workers -> ThreadStates]
  BY Zenon DEF TypeOK, NotifyOne, ThreadStates

\* Admit, refusing.
LEMMA AdmitRejectInv ==
    ASSUME SchedulerInv, NEW o \in Ops, AdmitReject(o)
    PROVE  SchedulerInv'
  <1> USE ConstantsAssumption DEF SchedulerInv
  <1>1. present \subseteq present'
    BY Zenon DEF AdmitReject
  <1>2. TypeOK'
    <2>1. TagOf[o] \in Tags
      OBVIOUS
    <2>2. rejects' \in [Tags -> Nat] /\ present' \subseteq Tags
      <3>1. CASE UNCHANGED <<rejects, present>>
        BY Zenon, <3>1 DEF TypeOK
      <3>2. CASE /\ rejects' = [rejects EXCEPT ![TagOf[o]] = @ + 1]
                 /\ present' = present \cup {TagOf[o]}
        BY <2>1, <3>2 DEF TypeOK
      <3> QED BY Zenon, <3>1, <3>2 DEF AdmitReject
    <2>3. opState' \in [Ops -> OpStates]
      BY Zenon DEF TypeOK, AdmitReject, OpStates
    <2> QED BY Zenon, <2>2, <2>3 DEF TypeOK, AdmitReject
  <1>3. Queued' = Queued /\ \A t \in Tags : Running(t)' = Running(t)
                                            /\ Starved(t)' = Starved(t)
    BY Zenon DEF AdmitReject, Queued, Running, Starved, TypeOK
  <1>4. SlotAccounting' /\ CapsRespected'
    BY Zenon, <1>3 DEF AdmitReject, SlotAccounting, CapsRespected
  <1>5. QueueAccounting'
    BY Zenon, <1>3, QueuesKept DEF AdmitReject
  <1>6. EntryKept' /\ HooksMatch'
    BY Zenon, <1>1, <1>3 DEF AdmitReject, EntryKept, HooksMatch, TypeOK
  <1> QED BY Zenon, <1>2, <1>4, <1>5, <1>6

\* Admit, accepting.
LEMMA AdmitAcceptInv ==
    ASSUME SchedulerInv, NEW o \in Ops, AdmitAccept(o)
    PROVE  SchedulerInv'
  <1> DEFINE t == TagOf[o]
  <1> USE ConstantsAssumption DEF SchedulerInv
  <1>0. t \in Tags /\ pending[t] \in Seq(Ops) /\ totalPending \in Nat
    BY Zenon DEF TypeOK
  <1>1. pending' \in [Tags -> Seq(Ops)]
    BY <1>0 DEF TypeOK, AdmitAccept
  <1>2. TypeOK'
    <2>1. thread' \in [Workers -> ThreadStates]
      BY Zenon, NotifyType DEF AdmitAccept
    <2>2. admits' \in [Tags -> Nat] /\ totalPending' \in Nat
      BY <1>0 DEF TypeOK, AdmitAccept
    <2>3. opState' \in [Ops -> OpStates]
      BY Zenon DEF TypeOK, AdmitAccept, OpStates
    <2> QED BY Zenon, <1>0, <1>1, <2>1, <2>2, <2>3 DEF TypeOK, AdmitAccept
  <1>3. /\ o \notin Queued /\ Queued' = Queued \cup {o}
        /\ \A u \in Tags : Running(u)' = Running(u) /\ Starved(u)' = Starved(u)
    BY SMTT(20) DEF AdmitAccept, Queued, Running, Starved, TypeOK
  <1>4. SlotAccounting' /\ CapsRespected'
    BY Zenon, <1>3 DEF AdmitAccept, SlotAccounting, CapsRespected
  <1>5. QueueAccounting'
    <2>1. Queued \in SUBSET Ops /\ Queued' \in SUBSET Ops
      BY Zenon DEF Queued
    <2>2. totalPending' = Cardinality(Queued')
      <3>1. Cardinality(Queued') = Cardinality(Queued) + 1
        BY Zenon, <1>3, <2>1, GrowByOne
      <3> QED BY Zenon, <3>1 DEF AdmitAccept, QueueAccounting
    <2>3. ASSUME NEW u \in Tags, u # t
          PROVE  Enumerates(pending'[u], Waiting(u)')
      <3>1. pending'[u] = pending[u] /\ Waiting(u)' = Waiting(u)
        BY Zenon, <1>3, <2>3 DEF AdmitAccept, TypeOK, Waiting
      <3> QED BY Zenon, <3>1 DEF QueueAccounting
    <2>4. Enumerates(pending'[t], Waiting(t)')
      <3>1. /\ pending'[t] = Append(pending[t], o)
            /\ Waiting(t)' = Waiting(t) \cup {o} /\ o \notin Waiting(t)
        BY Zenon, <1>0, <1>3 DEF AdmitAccept, TypeOK, Waiting
      <3>2. Enumerates(pending[t], Waiting(t)) /\ Waiting(t) \in SUBSET Ops
        BY Zenon, <1>0, <2>1 DEF QueueAccounting, Waiting
      <3> QED BY Zenon, <1>0, <3>1, <3>2, EnumeratesAppend
    <2> QED BY Zenon, <2>2, <2>3, <2>4 DEF QueueAccounting
  <1>6. EntryKept' /\ HooksMatch'
    BY <1>3 DEF AdmitAccept, EntryKept, HooksMatch, TypeOK
  <1> QED BY Zenon, <1>2, <1>4, <1>5, <1>6

\* A tag whose FIFO is empty has no waiting operation; one whose count of
\* operations is zero has none.
LEMMA EmptyFifo ==
    ASSUME NEW S, Enumerates(<< >>, S) PROVE S = {}
  BY DEF Enumerates

LEMMA EmptyCount ==
    ASSUME NEW S \in SUBSET Ops, Cardinality(S) = 0 PROVE S = {}
  BY Zenon, FS_Subset, FS_EmptySet, ConstantsAssumption

\* Popping the head removes the first member.
LEMMA EnumeratesTail ==
    ASSUME NEW S \in SUBSET Ops, NEW q \in Seq(Ops), q # << >>, Enumerates(q, S)
    PROVE  /\ Head(q) \in S
           /\ Tail(q) \in Seq(Ops) /\ Enumerates(Tail(q), S \ {Head(q)})
  <1>1. Len(q) \in Nat /\ 1 \in 1..Len(q) /\ Head(q) = q[1]
    OBVIOUS
  <1>2. Tail(q) = SubSeq(q, 2, Len(q)) /\ Tail(q) \in Seq(Ops)
    BY Zenon, TailIsSubSeq, HeadTailProperties
  <1>3. SubSeq(q, 1, 0) = << >>
    BY SubSeqEmpty
  <1>4. RemoveAt(q, 1) = << >> \o SubSeq(q, 2, Len(q))
    BY <1>3 DEF RemoveAt
  <1>5. RemoveAt(q, 1) = Tail(q)
    BY Zenon, <1>2, <1>4, ConcatEmptySeq
  <1>6. Enumerates(RemoveAt(q, 1), S \ {q[1]})
    BY Zenon, <1>1, EnumeratesRemove
  <1>7. q[1] \in S
    BY Zenon, <1>1 DEF Enumerates
  <1> QED BY Zenon, <1>1, <1>2, <1>5, <1>6, <1>7

\* Consume and TryConsume.
LEMMA DispatchInv ==
    ASSUME SchedulerInv, NEW w \in Workers, NEW t \in Tags, Dispatch(w, t)
    PROVE  SchedulerInv'
  <1> DEFINE o == Head(pending[t])
  <1> USE ConstantsAssumption DEF SchedulerInv
  <1>0. /\ pending[t] \in Seq(Ops) /\ pending[t] # << >>
        /\ starving[t] < StarvingCap /\ active[t] < ActiveCap
        /\ active[t] \in Nat /\ starving[t] \in Nat
    BY Zenon DEF TypeOK, Dispatch, Eligible
  <1>1. /\ o \in Waiting(t) /\ Waiting(t) \in SUBSET Ops
        /\ Tail(pending[t]) \in Seq(Ops)
        /\ Enumerates(Tail(pending[t]), Waiting(t) \ {o})
    <2>1. Waiting(t) \in SUBSET Ops /\ Enumerates(pending[t], Waiting(t))
      BY Zenon DEF QueueAccounting, Waiting, Queued
    <2> QED BY Zenon, <1>0, <2>1, EnumeratesTail
  <1>2. o \in Ops /\ opState[o] = "queued" /\ TagOf[o] = t
    BY Zenon, <1>1 DEF Waiting, Queued
  <1>3. /\ opState' = [opState EXCEPT ![o] = "running"]
        /\ runBy' = [runBy EXCEPT ![o] = w]
        /\ pending' = [pending EXCEPT ![t] = Tail(@)]
        /\ totalPending' = totalPending - 1
        /\ active' = [active EXCEPT ![t] = @ + 1]
        /\ starving' = [starving EXCEPT ![t] = @ + 1]
        /\ thread' = [thread EXCEPT ![w] = "idle"]
        /\ UNCHANGED <<admits, rejects, present, shutdown, mu, firstByte,
                       hooked, late, sweep>>
    BY Zenon DEF Dispatch
  <1> HIDE DEF o
  <1>4. o \notin firstByte
    BY Zenon, <1>2 DEF HooksMatch
  <1>5. Queued' = Queued \ {o} /\ o \in Queued
        /\ Queued \in SUBSET Ops /\ Queued' \in SUBSET Ops
    BY Zenon, <1>2, <1>3 DEF Queued, TypeOK
  <1>6. totalPending' = Cardinality(Queued') /\ totalPending' \in Nat
    <2>1. Cardinality(Queued') = Cardinality(Queued) - 1
          /\ Cardinality(Queued) \in Nat /\ Cardinality(Queued) > 0
      BY Zenon, <1>5, ShrinkByOne
    <2> QED BY <1>3, <2>1 DEF QueueAccounting
  <1>7. TypeOK'
    <2>1. pending' \in [Tags -> Seq(Ops)]
      BY Zenon, <1>1, <1>3 DEF TypeOK
    <2>2. active' \in [Tags -> Nat] /\ starving' \in [Tags -> Nat]
      <3>1. active \in [Tags -> Nat] /\ starving \in [Tags -> Nat]
        BY Zenon DEF TypeOK
      <3> QED BY SMTT(20), <1>0, <1>3, <3>1
    <2>3. opState' \in [Ops -> OpStates]
      BY Zenon, <1>3 DEF TypeOK, OpStates
    <2>4. runBy' \in [Ops -> Workers \cup {NoThread}]
      BY Zenon, <1>3 DEF TypeOK
    <2>5. thread' \in [Workers -> ThreadStates]
      BY Zenon, <1>3 DEF TypeOK, ThreadStates
    <2> QED BY Zenon, <1>3, <1>6, <2>1, <2>2, <2>3, <2>4, <2>5 DEF TypeOK
  <1>8. /\ o \notin Running(t) /\ o \notin Starved(t)
        /\ Running(t)' = Running(t) \cup {o} /\ Starved(t)' = Starved(t) \cup {o}
        /\ Running(t) \in SUBSET Ops /\ Running(t)' \in SUBSET Ops
        /\ Starved(t) \in SUBSET Ops /\ Starved(t)' \in SUBSET Ops
    BY <1>2, <1>3, <1>4 DEF Running, Starved, TypeOK
  <1>9. \A u \in Tags : u # t => Running(u)' = Running(u)
                                 /\ Starved(u)' = Starved(u)
    BY Zenon, <1>2, <1>3 DEF Running, Starved, TypeOK
  <1>10. /\ Cardinality(Running(t)') = Cardinality(Running(t)) + 1
         /\ Cardinality(Starved(t)') = Cardinality(Starved(t)) + 1
    BY Zenon, <1>2, <1>8, GrowByOne
  <1>11. SlotAccounting'
    <2>1. ASSUME NEW u \in Tags, u # t
          PROVE  active'[u] = Cardinality(Running(u)')
                 /\ starving'[u] = Cardinality(Starved(u)')
      BY Zenon, <1>3, <1>9, <2>1 DEF SlotAccounting, TypeOK
    <2>2. active'[t] = Cardinality(Running(t)')
          /\ starving'[t] = Cardinality(Starved(t)')
      BY Zenon, <1>3, <1>10 DEF SlotAccounting, TypeOK
    <2> QED BY Zenon, <2>1, <2>2 DEF SlotAccounting
  <1>12. CapsRespected'
    <2>1. ASSUME NEW u \in Tags, u # t
          PROVE  Cardinality(Running(u)') <= ActiveCap
                 /\ Cardinality(Starved(u)') <= StarvingCap
      BY Zenon, <1>9, <2>1 DEF CapsRespected
    <2>2. Cardinality(Running(t)') <= ActiveCap
          /\ Cardinality(Starved(t)') <= StarvingCap
      <3>1. active[t] = Cardinality(Running(t)) /\ starving[t] = Cardinality(Starved(t))
        BY Zenon DEF SlotAccounting
      <3> QED BY <1>0, <1>10, <3>1, CapsType
    <2>3. ActiveCap' = ActiveCap /\ StarvingCap' = StarvingCap
      BY Zenon DEF ActiveCap, StarvingCap, PercentToCap, WorkerCount
    <2> QED BY Zenon, <2>1, <2>2, <2>3 DEF CapsRespected
  <1>13. QueueAccounting'
    <2>1. ASSUME NEW u \in Tags, u # t
          PROVE  Enumerates(pending'[u], Waiting(u)')
      <3>1. pending'[u] = pending[u] /\ Waiting(u)' = Waiting(u)
        BY Zenon, <1>2, <1>3, <1>5, <2>1 DEF TypeOK, Waiting
      <3> QED BY Zenon, <3>1 DEF QueueAccounting
    <2>2. Enumerates(pending'[t], Waiting(t)')
      <3>1. pending'[t] = Tail(pending[t]) /\ Waiting(t)' = Waiting(t) \ {o}
        BY Zenon, <1>3, <1>5 DEF TypeOK, Waiting
      <3> QED BY Zenon, <1>1, <3>1
    <2> QED BY Zenon, <1>6, <2>1, <2>2 DEF QueueAccounting
  <1>14. EntryKept' /\ HooksMatch'
    BY Zenon, <1>2, <1>3 DEF EntryKept, HooksMatch, TypeOK
  <1> QED BY Zenon, <1>7, <1>11, <1>12, <1>13, <1>14

\* OnFirstByte, through the hook of a running operation.
LEMMA OnFirstByteInv ==
    ASSUME SchedulerInv, NEW o \in Ops, OnFirstByte(o)
    PROVE  SchedulerInv'
  <1> DEFINE t == TagOf[o]
  <1> USE ConstantsAssumption DEF SchedulerInv
  <1>1. /\ opState[o] = "running" /\ o \notin firstByte
        /\ firstByte' = firstByte \cup {o}
        /\ UNCHANGED <<pending, active, admits, rejects, present, totalPending,
                       shutdown, mu, opState, runBy, hooked, late, sweep>>
    BY Zenon DEF OnFirstByte
  <1>2. /\ t \in Tags /\ t \in present /\ o \in Starved(t)
        /\ Starved(t) \in SUBSET Ops
    BY Zenon, <1>1 DEF EntryKept, Starved, Running
  <1>3. /\ Queued' = Queued
        /\ \A u \in Tags : Running(u)' = Running(u)
        /\ Starved(t)' = Starved(t) \ {o}
        /\ \A u \in Tags : u # t => Starved(u)' = Starved(u)
    BY Zenon, <1>1, <1>2 DEF Queued, Running, Starved
  <1>4. /\ Cardinality(Starved(t)) \in Nat /\ Cardinality(Starved(t)) > 0
        /\ Cardinality(Starved(t)') = Cardinality(Starved(t)) - 1
    BY Zenon, <1>2, <1>3, ShrinkByOne
  <1>5. starving \in [Tags -> Nat] /\ starving[t] = Cardinality(Starved(t))
    BY Zenon, <1>2 DEF TypeOK, SlotAccounting
  <1>6. starving' = [starving EXCEPT ![t] = @ - 1] /\ NotifyOne
    BY Zenon, <1>2, <1>4, <1>5 DEF OnFirstByte
  <1>7. TypeOK'
    <2>1. starving' \in [Tags -> Nat]
      BY <1>2, <1>4, <1>5, <1>6
    <2>2. thread' \in [Workers -> ThreadStates]
      BY SMTT(20), <1>6, NotifyType
    <2> QED BY Zenon, <1>1, <2>1, <2>2 DEF TypeOK
  <1>8. SlotAccounting'
    <2>1. \A u \in Tags : u # t => starving'[u] = Cardinality(Starved(u)')
      BY Zenon, <1>3, <1>5, <1>6 DEF SlotAccounting
    <2>2. starving'[t] = Cardinality(Starved(t)')
      BY Zenon, <1>2, <1>4, <1>5, <1>6
    <2> QED BY Zenon, <1>1, <1>3, <2>1, <2>2 DEF SlotAccounting
  <1>9. CapsRespected'
    <2>1. Cardinality(Starved(t)') <= StarvingCap
      BY <1>2, <1>4, CapsType DEF CapsRespected
    <2> QED BY Zenon, <1>3, <2>1 DEF CapsRespected
  <1>10. QueueAccounting'
    BY Zenon, <1>1, <1>3, QueuesKept
  <1>11. EntryKept' /\ HooksMatch'
    BY Zenon, <1>1, <1>3 DEF EntryKept, HooksMatch
  <1> QED BY Zenon, <1>7, <1>8, <1>9, <1>10, <1>11

\* The completion of a running operation.
LEMMA SetDoneInv ==
    ASSUME SchedulerInv, NEW o \in Ops, SetDone(o)
    PROVE  SchedulerInv'
  <1> DEFINE t == TagOf[o]
             a == Decrement(active, t)
             s == ReleaseStarving(t, o \notin firstByte)
  <1> USE ConstantsAssumption DEF SchedulerInv
  <1>1. /\ opState[o] = "running"
        /\ opState' = [opState EXCEPT ![o] = "done"]
        /\ hooked' = hooked \ {o}
        /\ UNCHANGED <<pending, totalPending, shutdown, mu, runBy, firstByte,
                       late, sweep>>
    BY Zenon DEF SetDone
  <1>2. t \in Tags /\ t \in present /\ o \in hooked /\ o \in Running(t)
    BY Zenon, <1>1 DEF EntryKept, HooksMatch, Running
  <1>3. /\ active' = a /\ starving' = s
        /\ \/ /\ Idle(t, pending, a, s)
              /\ present' = present \ {t}
              /\ admits' = [admits EXCEPT ![t] = 0]
              /\ rejects' = [rejects EXCEPT ![t] = 0]
           \/ UNCHANGED <<present, admits, rejects>>
        /\ NotifyOne
    BY Zenon, <1>2 DEF SetDone, OnDone
  <1>4. /\ Queued' = Queued
        /\ Running(t)' = Running(t) \ {o} /\ Starved(t)' = Starved(t) \ {o}
        /\ \A u \in Tags : u # t => Running(u)' = Running(u)
                                    /\ Starved(u)' = Starved(u)
        /\ Running(t) \in SUBSET Ops /\ Running(t)' \in SUBSET Ops
        /\ Starved(t) \in SUBSET Ops /\ Starved(t)' \in SUBSET Ops
    BY Zenon, <1>1, <1>2 DEF Queued, Running, Starved, TypeOK
  <1>5. /\ active \in [Tags -> Nat] /\ starving \in [Tags -> Nat]
        /\ active[t] = Cardinality(Running(t))
        /\ starving[t] = Cardinality(Starved(t))
    BY Zenon, <1>2 DEF TypeOK, SlotAccounting
  <1>6. /\ Cardinality(Running(t)) > 0
        /\ Cardinality(Running(t)') = Cardinality(Running(t)) - 1
    BY Zenon, <1>2, <1>4, ShrinkByOne
  <1>7. active' \in [Tags -> Nat] /\ active'[t] = Cardinality(Running(t)')
        /\ \A u \in Tags : u # t => active'[u] = active[u]
    BY <1>2, <1>3, <1>5, <1>6 DEF Decrement
  <1>8. starving' \in [Tags -> Nat] /\ starving'[t] = Cardinality(Starved(t)')
        /\ \A u \in Tags : u # t => starving'[u] = starving[u]
    <2>1. CASE o \in firstByte
      <3>1. Starved(t)' = Starved(t)
        BY Zenon, <1>4, <2>1 DEF Starved
      <3> QED BY Zenon, <1>3, <1>5, <2>1, <3>1 DEF ReleaseStarving
    <2>2. CASE o \notin firstByte
      <3>1. o \in Starved(t)
        BY Zenon, <1>2, <2>2 DEF Starved
      <3>2. /\ Cardinality(Starved(t)) > 0
            /\ Cardinality(Starved(t)') = Cardinality(Starved(t)) - 1
        BY Zenon, <1>4, <3>1, ShrinkByOne
      <3> QED BY <1>2, <1>3, <1>5, <2>2, <3>2 DEF Decrement, ReleaseStarving
    <2> QED BY Zenon, <2>1, <2>2
  <1>9. TypeOK'
    <2>1. thread' \in [Workers -> ThreadStates]
      BY Zenon, <1>3, NotifyType
    <2>2. opState' \in [Ops -> OpStates]
      BY Zenon, <1>1 DEF TypeOK, OpStates
    <2>3. /\ admits' \in [Tags -> Nat] /\ rejects' \in [Tags -> Nat]
          /\ present' \subseteq Tags
      <3>1. /\ admits \in [Tags -> Nat] /\ rejects \in [Tags -> Nat]
            /\ present \subseteq Tags
        BY Zenon DEF TypeOK
      <3> QED BY <1>2, <1>3, <3>1
    <2> QED BY Zenon, <1>1, <1>7, <1>8, <2>1, <2>2, <2>3 DEF TypeOK
  <1>10. SlotAccounting'
    BY Zenon, <1>4, <1>7, <1>8 DEF SlotAccounting
  <1>11. CapsRespected'
    <2>1. Cardinality(Running(t)') <= ActiveCap
      BY <1>2, <1>4, <1>6, CapsType, CardIsNat DEF CapsRespected
    <2>2. Cardinality(Starved(t)') <= StarvingCap
      <3>1. Cardinality(Starved(t)') <= Cardinality(Starved(t))
        BY Zenon, <1>4, FS_Subset, ConstantsAssumption
      <3>2. Cardinality(Starved(t)) <= StarvingCap
        BY Zenon, <1>2 DEF CapsRespected
      <3> QED BY SMTT(20), <1>4, <3>1, <3>2, CardIsNat, CapsType
    <2> QED BY Zenon, <1>4, <2>1, <2>2 DEF CapsRespected
  <1>12. QueueAccounting'
    BY Zenon, <1>1, <1>4, QueuesKept
  <1>13. EntryKept'
    <2>1. CASE UNCHANGED present
      BY Zenon, <1>1, <2>1 DEF EntryKept, TypeOK
    <2>2. CASE Idle(t, pending, a, s) /\ present' = present \ {t}
      <3>1. Waiting(t) = {}
        BY ZenonT(20), <1>2, <2>2, EmptyFifo DEF QueueAccounting, Idle
      <3>2. Running(t)' = {}
        BY Zenon, <1>3, <1>4, <1>7, <2>2, EmptyCount DEF Idle
      <3>3. \A p \in Ops : TagOf[p] = t => opState'[p] \notin {"queued", "running"}
        BY Zenon, <1>1, <3>1, <3>2 DEF Waiting, Queued, Running, TypeOK
      <3> QED BY Zenon, <1>1, <2>2, <3>3 DEF EntryKept, TypeOK
    <2> QED BY Zenon, <1>3, <2>1, <2>2
  <1>14. HooksMatch'
    BY Zenon, <1>1 DEF HooksMatch, TypeOK
  <1> QED BY Zenon, <1>9, <1>10, <1>11, <1>12, <1>13, <1>14

\* Expire removes one operation.
LEMMA ExpireOpInv ==
    ASSUME SchedulerInv, NEW o \in Ops, ExpireOp(o)
    PROVE  SchedulerInv'
  <1> DEFINE t == TagOf[o]
  <1> USE ConstantsAssumption DEF SchedulerInv
  <1>1. PICK i \in 1..Len(pending[t]) :
            /\ pending[t][i] = o
            /\ pending' = [pending EXCEPT ![t] = RemoveAt(@, i)]
    BY Zenon DEF ExpireOp
  <1>2. /\ hooked' = hooked \ {o}
        /\ totalPending' = totalPending - 1
        /\ opState' = [opState EXCEPT ![o] = "expired"]
        /\ runBy' = [runBy EXCEPT ![o] = mu]
        /\ sweep' = sweep \ {o}
        /\ UNCHANGED <<active, starving, admits, rejects, present, shutdown, mu,
                       firstByte, late, thread>>
    BY Zenon DEF ExpireOp
  <1>3. /\ t \in Tags /\ pending[t] \in Seq(Ops)
        /\ Waiting(t) \in SUBSET Ops /\ Enumerates(pending[t], Waiting(t))
    BY Zenon DEF TypeOK, QueueAccounting, Waiting, Queued
  <1>4. /\ RemoveAt(pending[t], i) \in Seq(Ops)
        /\ Enumerates(RemoveAt(pending[t], i), Waiting(t) \ {o})
    BY Zenon, <1>1, <1>3, EnumeratesRemove
  <1>5. opState[o] = "queued"
    BY Zenon, <1>1, <1>3 DEF Enumerates, Waiting, Queued
  <1>6. /\ Queued' = Queued \ {o} /\ o \in Queued
        /\ Queued \in SUBSET Ops /\ Queued' \in SUBSET Ops
        /\ \A u \in Tags : Running(u)' = Running(u) /\ Starved(u)' = Starved(u)
    BY Zenon, <1>2, <1>5 DEF Queued, Running, Starved, TypeOK
  <1>7. totalPending' = Cardinality(Queued') /\ totalPending' \in Nat
    <2>1. Cardinality(Queued') = Cardinality(Queued) - 1
          /\ Cardinality(Queued) \in Nat /\ Cardinality(Queued) > 0
      BY Zenon, <1>6, ShrinkByOne
    <2> QED BY <1>2, <2>1 DEF QueueAccounting
  <1>8. TypeOK'
    <2>1. pending' \in [Tags -> Seq(Ops)]
      BY Zenon, <1>1, <1>4 DEF TypeOK
    <2>2. opState' \in [Ops -> OpStates]
      BY Zenon, <1>2 DEF TypeOK, OpStates
    <2>3. runBy' \in [Ops -> Workers \cup {NoThread}]
      BY Zenon, <1>2 DEF TypeOK
    <2> QED BY Zenon, <1>2, <1>7, <2>1, <2>2, <2>3 DEF TypeOK
  <1>9. SlotAccounting' /\ CapsRespected'
    BY Zenon, <1>2, <1>6 DEF SlotAccounting, CapsRespected
  <1>10. QueueAccounting'
    <2>1. ASSUME NEW u \in Tags, u # t
          PROVE  Enumerates(pending'[u], Waiting(u)')
      <3>1. pending'[u] = pending[u] /\ Waiting(u)' = Waiting(u)
        BY Zenon, <1>1, <1>6, <2>1 DEF TypeOK, Waiting
      <3> QED BY Zenon, <3>1 DEF QueueAccounting
    <2>2. Enumerates(pending'[t], Waiting(t)')
      <3>1. /\ pending'[t] = RemoveAt(pending[t], i)
            /\ Waiting(t)' = Waiting(t) \ {o}
        BY ZenonT(20), <1>1, <1>3, <1>6 DEF TypeOK, Waiting
      <3> QED BY Zenon, <1>4, <3>1
    <2> QED BY Zenon, <1>7, <2>1, <2>2 DEF QueueAccounting
  <1>11. EntryKept' /\ HooksMatch'
    BY Zenon, <1>2, <1>5 DEF EntryKept, HooksMatch, TypeOK
  <1> QED BY Zenon, <1>8, <1>9, <1>10, <1>11

\* The end of Expire's sweep.
LEMMA ExpireEndInv ==
    ASSUME SchedulerInv, ExpireEnd
    PROVE  SchedulerInv'
  <1> DEFINE kept == {t \in present : ~Idle(t, pending, active, starving)}
  <1> USE ConstantsAssumption DEF SchedulerInv
  <1>1. /\ present' = kept
        /\ mu' = NoThread
        /\ admits' = [t \in Tags |-> IF t \in kept THEN admits[t] ELSE 0]
        /\ rejects' = [t \in Tags |-> IF t \in kept THEN rejects[t] ELSE 0]
        /\ UNCHANGED <<pending, active, starving, totalPending, shutdown,
                       opState, runBy, firstByte, hooked, late, sweep, thread>>
    BY Zenon DEF ExpireEnd
  <1>2. TypeOK'
    <2>1. /\ admits \in [Tags -> Nat] /\ rejects \in [Tags -> Nat]
          /\ present \subseteq Tags
      BY Zenon DEF TypeOK
    <2>2. /\ admits' \in [Tags -> Nat] /\ rejects' \in [Tags -> Nat]
          /\ present' \subseteq Tags
      BY Zenon, <1>1, <2>1
    <2> QED BY Zenon, <1>1, <2>2 DEF TypeOK
  <1>3. Queued' = Queued /\ \A t \in Tags : Running(t)' = Running(t)
                                            /\ Starved(t)' = Starved(t)
    BY Zenon, <1>1 DEF Queued, Running, Starved
  <1>4. SlotAccounting' /\ CapsRespected'
    BY Zenon, <1>1, <1>3 DEF SlotAccounting, CapsRespected
  <1>5. QueueAccounting' /\ HooksMatch'
    <2>1. QueueAccounting'
      BY Zenon, <1>1, <1>3, QueuesKept
    <2>2. HooksMatch'
      BY Zenon, <1>1 DEF HooksMatch
    <2> QED BY Zenon, <2>1, <2>2
  <1>6. EntryKept'
    <2> SUFFICES ASSUME NEW o \in Ops, opState[o] \in {"queued", "running"}
                 PROVE  ~Idle(TagOf[o], pending, active, starving)
      BY Zenon, <1>1 DEF EntryKept
    <2> DEFINE t == TagOf[o]
    <2>1. CASE opState[o] = "queued"
      <3>1. o \in Waiting(t) /\ Enumerates(pending[t], Waiting(t))
        BY Zenon, <2>1 DEF Waiting, Queued, QueueAccounting
      <3>2. pending[t] # << >>
        BY Zenon, <3>1, EmptyFifo
      <3> QED BY Zenon, <3>2 DEF Idle
    <2>2. CASE opState[o] = "running"
      <3>1. o \in Running(t) /\ Running(t) \in SUBSET Ops
            /\ active[t] = Cardinality(Running(t))
        BY Zenon, <2>2 DEF Running, SlotAccounting
      <3>2. active[t] # 0
        BY Zenon, <3>1, EmptyCount
      <3> QED BY Zenon, <3>2 DEF Idle
    <2> QED BY Zenon, <2>1, <2>2
  <1> QED BY Zenon, <1>2, <1>4, <1>5, <1>6

\* The failure of an expired operation.
LEMMA FailExpiredInv ==
    ASSUME SchedulerInv, NEW o \in Ops, FailExpired(o)
    PROVE  SchedulerInv'
  <1> USE ConstantsAssumption DEF SchedulerInv
  <1>1. opState[o] = "expired" /\ o \notin hooked
    BY Zenon DEF FailExpired, HooksMatch
  <1>2. /\ opState' = [opState EXCEPT ![o] = "done"] /\ hooked' = hooked
        /\ UNCHANGED <<pending, active, starving, admits, rejects, present,
                       totalPending, shutdown, mu, runBy, firstByte, late,
                       sweep, thread>>
    BY Zenon, <1>1 DEF FailExpired
  <1>3. TypeOK'
    <2>1. opState' \in [Ops -> OpStates]
      BY Zenon, <1>2 DEF TypeOK, OpStates
    <2> QED BY Zenon, <1>2, <2>1 DEF TypeOK
  <1>4. Queued' = Queued /\ \A t \in Tags : Running(t)' = Running(t)
                                            /\ Starved(t)' = Starved(t)
    BY Zenon, <1>1, <1>2 DEF Queued, Running, Starved, TypeOK
  <1>5. SlotAccounting' /\ CapsRespected'
    BY Zenon, <1>2, <1>4 DEF SlotAccounting, CapsRespected
  <1>6. QueueAccounting'
    BY Zenon, <1>2, <1>4, QueuesKept
  <1>7. EntryKept' /\ HooksMatch'
    BY Zenon, <1>1, <1>2 DEF EntryKept, HooksMatch, TypeOK
  <1> QED BY Zenon, <1>3, <1>5, <1>6, <1>7

\* Steps that only wake, put to sleep or time threads.
LEMMA ThreadStepInv ==
    ASSUME SchedulerInv,
           \/ \E w \in Workers : \/ ConsumeWait(w) \/ ConsumeNothing(w)
                                 \/ ExpireBegin(w) \/ ExpireReturn(w)
           \/ \E o \in Ops : DeadlinePasses(o)
           \/ Shutdown
           \/ UNCHANGED vars
    PROVE  SchedulerInv'
  <1> USE ConstantsAssumption DEF SchedulerInv, TypeOK, ThreadStates, tagVars
  <1>1. ASSUME NEW w \in Workers,
               ConsumeWait(w) \/ ConsumeNothing(w) \/ ExpireReturn(w)
        PROVE  SchedulerInv'
    <2>1. TypeOK'
      BY ZenonT(20), <1>1 DEF ConsumeWait, ConsumeNothing, ExpireReturn
    <2> QED BY ZenonT(20), <1>1, <2>1, QuietStep
            DEF ConsumeWait, ConsumeNothing, ExpireReturn
  <1>2. ASSUME NEW w \in Workers, ExpireBegin(w) PROVE SchedulerInv'
    <2>1. TypeOK'
      BY Zenon, <1>2 DEF ExpireBegin
    <2> QED BY ZenonT(20), <1>2, <2>1, QuietStep DEF ExpireBegin
  <1>3. ASSUME NEW o \in Ops, DeadlinePasses(o) PROVE SchedulerInv'
    <2>1. TypeOK'
      BY Zenon, <1>3 DEF DeadlinePasses
    <2> QED BY ZenonT(20), <1>3, <2>1, QuietStep DEF DeadlinePasses
  <1>4. CASE Shutdown
    <2>1. TypeOK'
      BY Zenon, <1>4 DEF Shutdown
    <2> QED BY ZenonT(20), <1>4, <2>1, QuietStep DEF Shutdown
  <1>5. CASE UNCHANGED vars
    <2>1. TypeOK'
      BY Zenon, <1>5 DEF vars
    <2> QED BY Zenon, <1>5, <2>1, QuietStep DEF vars
  <1> QED BY ZenonT(20), <1>1, <1>2, <1>3, <1>4, <1>5

\* Every reachable state satisfies the invariant: the counters of every tag and
\* the queue are exact, the entry of a busy tag is kept, the hooks sit on
\* exactly the operations they account for, and the caps hold.
THEOREM SchedulerCorrect == Spec => []SchedulerInv
  <1>1. Init => SchedulerInv
    BY Zenon, InitInv
  <1>2. SchedulerInv /\ [Next]_vars => SchedulerInv'
    <2> SUFFICES ASSUME SchedulerInv, [Next]_vars PROVE SchedulerInv'
      OBVIOUS
    <2>1. ASSUME NEW o \in Ops, OpStep(o) PROVE SchedulerInv'
      BY Zenon, <2>1, AdmitRejectInv, AdmitAcceptInv, OnFirstByteInv, SetDoneInv,
         ExpireOpInv, FailExpiredInv, ThreadStepInv DEF OpStep
    <2>2. ASSUME NEW w \in Workers, WorkerStep(w) PROVE SchedulerInv'
      <3>1. CASE Consume(w)
        <4>1. PICK t \in Tags : Dispatch(w, t)
          BY Zenon, <3>1 DEF Consume
        <4> QED BY Zenon, <4>1, DispatchInv
      <3> QED BY Zenon, <2>2, <3>1, ThreadStepInv DEF WorkerStep
    <2> QED BY Zenon, <2>1, <2>2, ExpireEndInv, ThreadStepInv DEF Next
  <1> QED BY <1>1, <1>2, PTL DEF Spec

\* No origin ever holds more of the worker pool than its two caps allow, for
\* any number of origins, operations and workers and any percentages.
THEOREM CapsHold == Spec => []CapsRespected
  <1>1. SchedulerInv => CapsRespected
    BY Zenon DEF SchedulerInv
  <1> QED BY <1>1, SchedulerCorrect, PTL

\* The in-flight and starving counters of every origin are exact.
THEOREM SlotsExact == Spec => []SlotAccounting
  <1>1. SchedulerInv => SlotAccounting
    BY Zenon DEF SchedulerInv
  <1> QED BY <1>1, SchedulerCorrect, PTL

\* The pending count is exact and no queued operation is lost or duplicated.
THEOREM QueueExact == Spec => []QueueAccounting
  <1>1. SchedulerInv => QueueAccounting
    BY Zenon DEF SchedulerInv
  <1> QED BY <1>1, SchedulerCorrect, PTL

-----------------------------------------------------------------------------
(* No wake-up is lost.  The argument counts: while a worker sleeps, what runs and what the   *)
(* caps let run fits the workers that are awake.                                             *)

\* Place i of the FIFO of tag t is within both caps.
Within(t, i) == i + starving[t] <= StarvingCap /\ i + active[t] <= ActiveCap

\* The operations the caps leave room for: so many may be dispatched before another
\* operation completes or sees its first byte.
Ready ==
    {o \in Ops : \E i \in 1..Len(pending[TagOf[o]]) :
                    pending[TagOf[o]][i] = o /\ Within(TagOf[o], i)}

InFlight == {o \in Ops : opState[o] = "running"}
Awake == {w \in Workers : thread[w] # "waiting"}

\* What the workers that are awake can run.
Budget == MaxOps * Cardinality(Awake)

\* What may come to need a worker: the operations that run and those that may be
\* dispatched.
Demand == Cardinality(Ready) + Cardinality(InFlight)

\* An operation in flight is with a worker; a worker asleep in Consume runs none, and
\* none runs more than MaxOps.
PoolRuns ==
    /\ \A o \in InFlight : runBy[o] \in Workers
    /\ \A w \in Workers : thread[w] \in {"waiting", "woken"} => RunBy(w) = {}
    /\ \A w \in Workers : Cardinality(RunBy(w)) <= MaxOps

\* While a worker sleeps, those awake have room for everything that may be dispatched.
PoolRoom == ~shutdown /\ Awake # Workers => Demand <= Budget

PoolInv == PoolRuns /\ PoolRoom

\* A set with at most one new member is at most one larger.
LEMMA OneMore ==
    ASSUME NEW S \in SUBSET Ops, NEW T \in SUBSET Ops, \A x, y \in T \ S : x = y
    PROVE  /\ Cardinality(S) \in Nat /\ Cardinality(T) \in Nat
           /\ Cardinality(T) <= Cardinality(S) + 1
           /\ \A x \in S \ T : Cardinality(T) <= Cardinality(S)
           /\ T \subseteq S => Cardinality(T) <= Cardinality(S)
  <1>1. /\ IsFiniteSet(S) /\ IsFiniteSet(T)
        /\ Cardinality(S) \in Nat /\ Cardinality(T) \in Nat
    BY Zenon, FS_Subset, CardIsNat, ConstantsAssumption
  <1>2. ASSUME T \subseteq S PROVE Cardinality(T) <= Cardinality(S)
    BY Zenon, <1>1, <1>2, FS_Subset
  <1>3. ASSUME NEW U \in SUBSET Ops, NEW x \in T, x \notin U, T \subseteq U \cup {x}
        PROVE  Cardinality(U) \in Nat /\ Cardinality(T) <= Cardinality(U) + 1
    <2>1. /\ Cardinality(U \cup {x}) = Cardinality(U) + 1 /\ Cardinality(U) \in Nat
          /\ IsFiniteSet(U \cup {x})
      <3>1. U \cup {x} \in SUBSET Ops
        OBVIOUS
      <3> QED BY Zenon, <1>3, <3>1, GrowByOne, FS_Subset, ConstantsAssumption
    <2>2. Cardinality(T) <= Cardinality(U \cup {x})
      BY Zenon, <1>3, <2>1, FS_Subset
    <2> QED BY Zenon, <2>1, <2>2
  <1>4. Cardinality(T) <= Cardinality(S) + 1
    <2>1. CASE T \subseteq S
      BY <1>1, <1>2, <2>1
    <2>2. CASE \E x \in T : x \notin S
      <3>1. PICK x \in T : x \notin S
        BY Zenon, <2>2
      <3> QED BY <1>3, <3>1
    <2> QED BY Zenon, <2>1, <2>2
  <1>5. ASSUME NEW x \in S \ T PROVE Cardinality(T) <= Cardinality(S)
    <2>1. CASE T \subseteq S
      BY Zenon, <1>2, <2>1
    <2>2. CASE \E y \in T : y \notin S
      <3>1. PICK y \in T : y \notin S
        BY Zenon, <2>2
      <3>2. T \subseteq (S \ {x}) \cup {y} /\ y \notin S \ {x} /\ S \ {x} \in SUBSET Ops
        BY Zenon, <3>1
      <3>3. Cardinality(T) <= Cardinality(S \ {x}) + 1
        BY Zenon, <1>3, <3>2
      <3>4. Cardinality(S \ {x}) = Cardinality(S) - 1
        BY Zenon, <3>2, ShrinkByOne
      <3> QED BY <1>1, <3>3, <3>4
    <2> QED BY Zenon, <2>1, <2>2
  <1> QED BY Zenon, <1>1, <1>2, <1>4, <1>5

\* More awake workers can run more.
LEMMA BudgetGrows ==
    ASSUME Awake \subseteq Awake'
    PROVE  /\ Budget \in Nat /\ Budget' \in Nat /\ Budget <= Budget'
           /\ Awake' # Awake => Budget + 1 <= Budget'
  <1>1. Awake \subseteq Workers /\ Awake' \subseteq Workers /\ IsFiniteSet(Workers)
    BY Zenon, ConstantsAssumption DEF Awake
  <1>2. IsFiniteSet(Awake) /\ IsFiniteSet(Awake')
    BY Zenon, <1>1, FS_Subset
  <1>3. /\ Cardinality(Awake) \in Nat /\ Cardinality(Awake') \in Nat
        /\ Cardinality(Awake) <= Cardinality(Awake')
        /\ Awake' # Awake => Cardinality(Awake) # Cardinality(Awake')
    <2>1. Cardinality(Awake) = Cardinality(Awake') => Awake = Awake'
      BY Zenon, <1>2, FS_Subset
    <2> QED BY Zenon, <1>2, <2>1, FS_Subset, FS_CardinalityType
  <1>4. MaxOps \in Nat \ {0}
    BY Zenon, ConstantsAssumption
  <1>5. ASSUME NEW a \in Nat, NEW b \in Nat, a <= b
        PROVE  /\ MaxOps * a \in Nat /\ MaxOps * b \in Nat /\ MaxOps * a <= MaxOps * b
               /\ a # b => MaxOps * a + 1 <= MaxOps * b
    <2>1. PICK d \in Nat : b = a + d
      <3>1. b - a \in Nat /\ b = a + (b - a)
        BY <1>5
      <3> QED BY Zenon, <3>1
    <2>2. MaxOps * b = MaxOps * a + MaxOps * d
      BY <1>4, <2>1
    <2>3. MaxOps * a \in Nat /\ MaxOps * d \in Nat /\ MaxOps * b \in Nat
      BY <1>4
    <2>4. d # 0 => MaxOps * d >= 1
      BY <1>4
    <2> QED BY <2>1, <2>2, <2>3, <2>4
  <1> QED BY Zenon, <1>3, <1>5 DEF Budget

\* The demand is a number.
LEMMA DemandType ==
    /\ Cardinality(Ready) \in Nat /\ Cardinality(InFlight) \in Nat
    /\ Cardinality(Ready') \in Nat /\ Cardinality(InFlight') \in Nat
    /\ Demand \in Nat /\ Demand' \in Nat
  <1>1. /\ Ready \in SUBSET Ops /\ Ready' \in SUBSET Ops
        /\ InFlight \in SUBSET Ops /\ InFlight' \in SUBSET Ops
    BY Zenon DEF Ready, InFlight
  <1>2. /\ Cardinality(Ready) \in Nat /\ Cardinality(InFlight) \in Nat
        /\ Cardinality(Ready') \in Nat /\ Cardinality(InFlight') \in Nat
    BY Zenon, <1>1, CardIsNat
  <1> QED BY <1>2 DEF Demand

\* The room stays when no worker falls asleep and the demand does not grow.
LEMMA RoomKept ==
    ASSUME PoolRoom, Awake \subseteq Awake', shutdown' = shutdown, Demand' <= Demand
    PROVE  PoolRoom'
  <1> SUFFICES ASSUME ~shutdown', Awake' # Workers PROVE Demand' <= Budget'
    BY Zenon DEF PoolRoom
  <1>1. Awake # Workers /\ ~shutdown
    BY Zenon DEF Awake
  <1>2. Demand <= Budget
    BY Zenon, <1>1 DEF PoolRoom
  <1>3. Budget \in Nat /\ Budget' \in Nat /\ Budget <= Budget'
    BY Zenon, BudgetGrows
  <1> QED BY <1>2, <1>3, DemandType

\* notify_one pays for one more operation.
LEMMA NotifyPays ==
    ASSUME TypeOK, PoolRoom, NotifyOne, shutdown' = shutdown, Demand' <= Demand + 1
    PROVE  PoolRoom'
  <1> SUFFICES ASSUME ~shutdown', Awake' # Workers PROVE Demand' <= Budget'
    BY Zenon DEF PoolRoom
  <1>1. PICK w \in Workers : /\ thread[w] = "waiting"
                             /\ thread' = [thread EXCEPT ![w] = "woken"]
    <2>1. CASE \E w \in Workers : thread[w] = "waiting"
      BY Zenon, <2>1 DEF NotifyOne
    <2>2. CASE ~ \E w \in Workers : thread[w] = "waiting"
      BY Zenon, <2>2 DEF NotifyOne, Awake
    <2> QED BY Zenon, <2>1, <2>2
  <1>2. thread \in [Workers -> ThreadStates]
    BY Zenon DEF TypeOK
  <1>3. Awake \subseteq Awake' /\ w \in Awake' /\ w \notin Awake
    BY Zenon, <1>1, <1>2 DEF Awake
  <1>4. Demand <= Budget
    BY Zenon, <1>3 DEF PoolRoom
  <1>5. Budget \in Nat /\ Budget' \in Nat /\ Budget + 1 <= Budget'
    BY Zenon, <1>3, BudgetGrows
  <1> QED BY <1>4, <1>5, DemandType

\* Which worker runs what is kept when nothing starts to run.
LEMMA RunsKept ==
    ASSUME PoolRuns,
           \A o \in Ops : opState'[o] = "running" =>
                             opState[o] = "running" /\ runBy'[o] = runBy[o],
           \A w \in Workers : thread'[w] \in {"waiting", "woken"} =>
                                 thread[w] \in {"waiting", "woken"} \/ RunBy(w) = {}
    PROVE  PoolRuns' /\ InFlight' \subseteq InFlight
  <1>1. InFlight' \subseteq InFlight /\ \A o \in InFlight' : runBy'[o] = runBy[o]
    BY Zenon DEF InFlight
  <1>2. \A w \in Workers : RunBy(w)' \subseteq RunBy(w) /\ RunBy(w) \in SUBSET Ops
    BY Zenon DEF RunBy
  <1>3. ASSUME NEW w \in Workers PROVE Cardinality(RunBy(w)') <= MaxOps
    <2>1. RunBy(w)' \in SUBSET Ops
      BY Zenon, <1>2
    <2>2. /\ Cardinality(RunBy(w)') <= Cardinality(RunBy(w))
          /\ Cardinality(RunBy(w)') \in Nat /\ Cardinality(RunBy(w)) \in Nat
      BY Zenon, <1>2, <2>1, OneMore
    <2>3. Cardinality(RunBy(w)) <= MaxOps /\ MaxOps \in Nat
      BY Zenon, ConstantsAssumption DEF PoolRuns
    <2> QED BY <2>2, <2>3
  <1>4. \A w \in Workers : thread'[w] \in {"waiting", "woken"} => RunBy(w)' = {}
    BY Zenon, <1>2 DEF PoolRuns
  <1>5. \A o \in InFlight' : runBy'[o] \in Workers
    BY Zenon, <1>1 DEF PoolRuns
  <1> QED BY Zenon, <1>1, <1>3, <1>4, <1>5 DEF PoolRuns

\* A step that leaves the queues and the counters alone and puts nobody to sleep.
LEMMA QuietPool ==
    ASSUME PoolInv, UNCHANGED <<pending, starving, active>>,
           shutdown' = shutdown \/ shutdown' = TRUE,
           \A o \in Ops : opState'[o] = "running" =>
                             opState[o] = "running" /\ runBy'[o] = runBy[o],
           \A w \in Workers : /\ thread'[w] = "waiting" => thread[w] = "waiting"
                              /\ thread'[w] = "woken" => thread[w] \in {"waiting", "woken"}
    PROVE  PoolInv'
  <1>1. PoolRuns' /\ InFlight' \subseteq InFlight
    <2>1. \A w \in Workers : thread'[w] \in {"waiting", "woken"} =>
                                 thread[w] \in {"waiting", "woken"} \/ RunBy(w) = {}
      BY Zenon
    <2> QED BY Zenon, <2>1, RunsKept DEF PoolInv
  <1>2. Ready' = Ready
    BY Zenon DEF Ready, Within
  <1>3. Cardinality(InFlight') <= Cardinality(InFlight)
    <2>1. InFlight \in SUBSET Ops /\ InFlight' \in SUBSET Ops
      BY Zenon DEF InFlight
    <2> QED BY Zenon, <1>1, <2>1, OneMore
  <1>4. Demand' <= Demand
    BY <1>2, <1>3, DemandType DEF Demand
  <1>5. Awake \subseteq Awake'
    BY Zenon DEF Awake
  <1>6. CASE shutdown' = shutdown
    BY Zenon, <1>1, <1>4, <1>5, <1>6, RoomKept DEF PoolInv
  <1>7. CASE shutdown' = TRUE
    BY Zenon, <1>1, <1>7 DEF PoolInv, PoolRoom
  <1> QED BY Zenon, <1>6, <1>7

\* notify_one puts nobody to sleep.
LEMMA NotifyWakes ==
    ASSUME TypeOK, NotifyOne \/ UNCHANGED thread
    PROVE  \A w \in Workers :
              /\ thread'[w] = "waiting" => thread[w] = "waiting"
              /\ thread'[w] = "woken" => thread[w] \in {"waiting", "woken"}
  <1>1. thread \in [Workers -> ThreadStates]
    BY Zenon DEF TypeOK
  <1> QED BY Zenon, <1>1 DEF NotifyOne

\* One slot given back makes at most one more operation ready.
LEMMA OneFreed ==
    ASSUME TypeOK, TypeOK', NEW t \in Tags, UNCHANGED pending,
           \A u \in Tags \ {t} : starving'[u] = starving[u] /\ active'[u] = active[u],
           starving'[t] >= starving[t] - 1, active'[t] >= active[t] - 1
    PROVE  Cardinality(Ready') <= Cardinality(Ready) + 1
  <1>1. \A u \in Tags : Len(pending[u]) \in Nat
    BY DEF TypeOK
  <1>2. \A x \in Ready' \ Ready : TagOf[x] = t
    BY Zenon, ConstantsAssumption DEF Ready, Within
  <1>3. ASSUME NEW x \in Ready' \ Ready
        PROVE  \E i \in 1..Len(pending[t]) :
                  pending[t][i] = x /\ Within(t, i)' /\ ~Within(t, i)
    BY Zenon, <1>2 DEF Ready
  <1>4. ASSUME NEW i \in 1..Len(pending[t]), NEW j \in 1..Len(pending[t]),
               Within(t, i)', ~Within(t, i), Within(t, j)', ~Within(t, j)
        PROVE  i = j
    <2>1. /\ starving[t] \in Nat /\ starving'[t] \in Nat
          /\ active[t] \in Nat /\ active'[t] \in Nat
      BY Zenon DEF TypeOK
    <2>2. ASSUME NEW k \in Nat
          PROVE  Within(t, k)' <=> /\ k + starving'[t] <= StarvingCap
                                   /\ k + active'[t] <= ActiveCap
      BY Zenon DEF Within
    <2>3. i \in Nat /\ j \in Nat
      BY <1>1
    <2>4. /\ i + starving'[t] <= StarvingCap /\ i + active'[t] <= ActiveCap
          /\ j + starving'[t] <= StarvingCap /\ j + active'[t] <= ActiveCap
      BY Zenon, <1>4, <2>2, <2>3
    <2>5. /\ ~(i + starving[t] <= StarvingCap /\ i + active[t] <= ActiveCap)
          /\ ~(j + starving[t] <= StarvingCap /\ j + active[t] <= ActiveCap)
      BY Zenon, <1>4 DEF Within
    <2>6. starving'[t] >= starving[t] - 1 /\ active'[t] >= active[t] - 1
      OBVIOUS
    <2>7. ASSUME NEW s \in Nat, NEW a \in Nat, NEW s1 \in Nat, NEW a1 \in Nat,
                 s = starving[t], a = active[t], s1 = starving'[t], a1 = active'[t]
          PROVE  i = j
      <3>1. s1 >= s - 1 /\ a1 >= a - 1
        BY Zenon, <2>6, <2>7
      <3>2. /\ i + s1 <= StarvingCap /\ i + a1 <= ActiveCap
            /\ j + s1 <= StarvingCap /\ j + a1 <= ActiveCap
        BY Zenon, <2>4, <2>7
      <3>3. /\ ~(i + s <= StarvingCap /\ i + a <= ActiveCap)
            /\ ~(j + s <= StarvingCap /\ j + a <= ActiveCap)
        BY Zenon, <2>5, <2>7
      <3> QED BY <2>3, <3>1, <3>2, <3>3, CapsType
    <2> QED BY Zenon, <2>1, <2>7
  <1>5. \A x, y \in Ready' \ Ready : x = y
    BY Zenon, <1>3, <1>4
  <1>6. Ready \in SUBSET Ops /\ Ready' \in SUBSET Ops
    BY Zenon DEF Ready
  <1> QED BY Zenon, <1>5, <1>6, OneMore

\* Admit, accepting: the new operation may be ready, and notify_one pays for it.
LEMMA AdmitAcceptPool ==
    ASSUME SchedulerInv, SchedulerInv', PoolInv, NEW o \in Ops, AdmitAccept(o)
    PROVE  PoolInv'
  <1> DEFINE t == TagOf[o]
  <1>1. /\ pending' = [pending EXCEPT ![t] = Append(pending[t], o)]
        /\ opState[o] = "new" /\ opState' = [opState EXCEPT ![o] = "queued"]
        /\ NotifyOne /\ UNCHANGED <<starving, active, shutdown, runBy>>
    BY Zenon DEF AdmitAccept
  <1>2. /\ pending \in [Tags -> Seq(Ops)] /\ t \in Tags /\ opState \in [Ops -> OpStates]
        /\ TypeOK
    BY Zenon, ConstantsAssumption DEF SchedulerInv, TypeOK
  <1>3. \A x \in Ops : opState'[x] = "running" <=> opState[x] = "running"
    BY Zenon, <1>1, <1>2
  <1>4. PoolRuns' /\ InFlight' = InFlight
    <2>1. \A w \in Workers : thread'[w] \in {"waiting", "woken"} =>
                                 thread[w] \in {"waiting", "woken"} \/ RunBy(w) = {}
      BY Zenon, <1>1, <1>2, NotifyWakes
    <2>2. InFlight' = InFlight
      BY Zenon, <1>3 DEF InFlight
    <2> QED BY Zenon, <1>1, <1>3, <2>1, <2>2, RunsKept DEF PoolInv
  <1>5. ASSUME NEW x \in Ready', x # o PROVE x \in Ready
    <2>1. PICK i \in 1..Len(pending'[TagOf[x]]) :
              pending'[TagOf[x]][i] = x /\ Within(TagOf[x], i)'
      BY Zenon DEF Ready
    <2>2. Within(TagOf[x], i)
      BY Zenon, <1>1, <2>1 DEF Within
    <2>3. x \in Ops /\ TagOf[x] \in Tags
      BY Zenon, ConstantsAssumption DEF Ready
    <2>4. i \in 1..Len(pending[TagOf[x]]) /\ pending[TagOf[x]][i] = x
      <3>1. CASE TagOf[x] # t
        BY Zenon, <1>1, <1>2, <2>1, <2>3, <3>1
      <3>2. CASE TagOf[x] = t
        <4>1. pending'[t] = Append(pending[t], o) /\ pending[t] \in Seq(Ops)
          BY Zenon, <1>1, <1>2
        <4>2. /\ Len(Append(pending[t], o)) = Len(pending[t]) + 1 /\ Len(pending[t]) \in Nat
              /\ Append(pending[t], o)[Len(pending[t]) + 1] = o
              /\ \A k \in 1..Len(pending[t]) : Append(pending[t], o)[k] = pending[t][k]
          BY <4>1
        <4>3. i # Len(pending[t]) + 1
          BY Zenon, <1>5, <2>1, <3>2, <4>1, <4>2
        <4> QED BY <2>1, <3>2, <4>1, <4>2, <4>3
      <3> QED BY Zenon, <3>1, <3>2
    <2> QED BY Zenon, <2>2, <2>3, <2>4 DEF Ready
  <1>6. Cardinality(Ready') <= Cardinality(Ready) + 1
    <2>1. \A x, y \in Ready' \ Ready : x = y
      BY Zenon, <1>5
    <2>2. Ready \in SUBSET Ops /\ Ready' \in SUBSET Ops
      BY Zenon DEF Ready
    <2> QED BY Zenon, <2>1, <2>2, OneMore
  <1>7. Demand' <= Demand + 1
    BY <1>4, <1>6, DemandType DEF Demand
  <1> QED BY Zenon, <1>1, <1>2, <1>4, <1>7, NotifyPays DEF PoolInv

\* The first byte frees a starving slot, and notify_one pays for it.
LEMMA OnFirstBytePool ==
    ASSUME SchedulerInv, SchedulerInv', PoolInv, NEW o \in Ops, OnFirstByte(o)
    PROVE  PoolInv'
  <1> DEFINE t == TagOf[o]
  <1>1. UNCHANGED <<pending, active, shutdown, opState, runBy>>
    BY Zenon DEF OnFirstByte
  <1>2. /\ TypeOK /\ TypeOK' /\ t \in Tags
        /\ starving \in [Tags -> Nat] /\ active \in [Tags -> Nat]
    BY Zenon, ConstantsAssumption DEF SchedulerInv, TypeOK
  <1>3. CASE UNCHANGED <<starving, thread>>
    <2>1. \A w \in Workers : /\ thread'[w] = "waiting" => thread[w] = "waiting"
                             /\ thread'[w] = "woken" => thread[w] \in {"waiting", "woken"}
      BY Zenon, <1>3
    <2> QED BY Zenon, <1>1, <1>3, <2>1, QuietPool
  <1>4. CASE starving' = [starving EXCEPT ![t] = starving[t] - 1] /\ NotifyOne
    <2>1. Cardinality(Ready') <= Cardinality(Ready) + 1
      <3>1. /\ \A u \in Tags \ {t} : starving'[u] = starving[u] /\ active'[u] = active[u]
            /\ starving'[t] >= starving[t] - 1 /\ active'[t] >= active[t] - 1
        BY <1>1, <1>2, <1>4
      <3> QED BY Zenon, <1>1, <1>2, <3>1, OneFreed
    <2>2. PoolRuns' /\ InFlight' = InFlight
      <3>1. \A w \in Workers : thread'[w] \in {"waiting", "woken"} =>
                                   thread[w] \in {"waiting", "woken"} \/ RunBy(w) = {}
        BY Zenon, <1>2, <1>4, NotifyWakes
      <3>2. InFlight' = InFlight
        BY Zenon, <1>1 DEF InFlight
      <3> QED BY Zenon, <1>1, <3>1, <3>2, RunsKept DEF PoolInv
    <2>3. Demand' <= Demand + 1
      BY <2>1, <2>2, DemandType DEF Demand
    <2> QED BY Zenon, <1>1, <1>2, <1>4, <2>2, <2>3, NotifyPays DEF PoolInv
  <1> QED BY Zenon, <1>3, <1>4 DEF OnFirstByte

\* A completion frees the slots of one operation and the room it took.
LEMMA SetDonePool ==
    ASSUME SchedulerInv, SchedulerInv', PoolInv, NEW o \in Ops, SetDone(o)
    PROVE  PoolInv'
  <1> DEFINE t == TagOf[o]
  <1>1. /\ UNCHANGED <<pending, shutdown, runBy>>
        /\ opState[o] = "running" /\ opState' = [opState EXCEPT ![o] = "done"]
        /\ \/ OnDone(t, o \notin firstByte)
           \/ UNCHANGED <<active, starving, thread>>
    BY Zenon DEF SetDone
  <1>2. /\ TypeOK /\ TypeOK' /\ t \in Tags /\ opState \in [Ops -> OpStates]
        /\ starving \in [Tags -> Nat] /\ active \in [Tags -> Nat]
    BY Zenon, ConstantsAssumption DEF SchedulerInv, TypeOK
  <1>3. NotifyOne \/ UNCHANGED thread
    BY Zenon, <1>1 DEF OnDone
  <1>4. Cardinality(Ready') <= Cardinality(Ready) + 1
    <2>1. /\ \/ active' = active \/ active' = [active EXCEPT ![t] = active[t] - 1]
          /\ \/ starving' = starving \/ starving' = [starving EXCEPT ![t] = starving[t] - 1]
      BY Zenon, <1>1 DEF OnDone, Decrement, ReleaseStarving
    <2>2. /\ \A u \in Tags \ {t} : starving'[u] = starving[u] /\ active'[u] = active[u]
          /\ starving'[t] >= starving[t] - 1 /\ active'[t] >= active[t] - 1
      BY <1>2, <2>1
    <2> QED BY Zenon, <1>1, <1>2, <2>2, OneFreed
  <1>5. \A x \in Ops : opState'[x] = "running" <=> opState[x] = "running" /\ x # o
    BY Zenon, <1>1, <1>2
  <1>6. PoolRuns' /\ InFlight' = InFlight \ {o} /\ o \in InFlight
    <2>1. \A w \in Workers : thread'[w] \in {"waiting", "woken"} =>
                                 thread[w] \in {"waiting", "woken"} \/ RunBy(w) = {}
      BY Zenon, <1>2, <1>3, NotifyWakes
    <2>2. InFlight' = InFlight \ {o} /\ o \in InFlight
      BY Zenon, <1>1, <1>5 DEF InFlight
    <2> QED BY Zenon, <1>1, <1>5, <2>1, <2>2, RunsKept DEF PoolInv
  <1>7. Cardinality(InFlight') = Cardinality(InFlight) - 1
    <2>1. InFlight \in SUBSET Ops /\ InFlight' \in SUBSET Ops
      BY Zenon DEF InFlight
    <2> QED BY Zenon, <1>6, <2>1, ShrinkByOne
  <1>8. Demand' <= Demand
    BY <1>4, <1>7, DemandType DEF Demand
  <1>9. Awake \subseteq Awake'
    BY Zenon, <1>2, <1>3, NotifyWakes DEF Awake
  <1> QED BY Zenon, <1>1, <1>6, <1>8, <1>9, RoomKept DEF PoolInv

\* The head of an eligible tag's FIFO is ready.
LEMMA HeadReady ==
    ASSUME SchedulerInv, NEW t \in Eligible
    PROVE  /\ pending[t] \in Seq(Ops) /\ pending[t] # << >> /\ t \in Tags
           /\ Head(pending[t]) \in Ready /\ TagOf[Head(pending[t])] = t
           /\ opState[Head(pending[t])] = "queued"
  <1>1. /\ pending[t] \in Seq(Ops) /\ pending[t] # << >> /\ t \in Tags
        /\ starving[t] \in Nat /\ active[t] \in Nat
        /\ starving[t] < StarvingCap /\ active[t] < ActiveCap
    BY Zenon DEF SchedulerInv, TypeOK, Eligible
  <1>2. Enumerates(pending[t], Waiting(t)) /\ Waiting(t) \in SUBSET Ops
    BY Zenon, <1>1 DEF SchedulerInv, QueueAccounting, Waiting, Queued
  <1>3. Head(pending[t]) \in Waiting(t)
    BY Zenon, <1>1, <1>2, EnumeratesTail
  <1>4. /\ Head(pending[t]) \in Ops /\ TagOf[Head(pending[t])] = t
        /\ opState[Head(pending[t])] = "queued"
    BY Zenon, <1>3 DEF Waiting, Queued
  <1>5. 1 \in 1..Len(pending[t]) /\ pending[t][1] = Head(pending[t])
    BY <1>1
  <1>6. Within(t, 1)
    BY <1>1, CapsType DEF Within
  <1> QED BY Zenon, <1>1, <1>4, <1>5, <1>6 DEF Ready

\* When nothing can be dispatched nothing is ready.
LEMMA NoneReady ==
    ASSUME SchedulerInv, Eligible = {}
    PROVE  Ready = {}
  <1> SUFFICES ASSUME NEW o \in Ready PROVE FALSE
    OBVIOUS
  <1> DEFINE t == TagOf[o]
  <1>1. PICK i \in 1..Len(pending[t]) : pending[t][i] = o /\ Within(t, i)
    BY Zenon DEF Ready
  <1>2. /\ t \in Tags /\ pending[t] \in Seq(Ops) /\ o \in Ops
        /\ starving[t] \in Nat /\ active[t] \in Nat
    BY Zenon, ConstantsAssumption DEF SchedulerInv, TypeOK, Ready
  <1>3. pending[t] # << >> /\ starving[t] < StarvingCap /\ active[t] < ActiveCap
    <2>1. i + starving[t] <= StarvingCap /\ i + active[t] <= ActiveCap
      BY Zenon, <1>1 DEF Within
    <2>2. i \in Nat \ {0} /\ pending[t] # << >>
      BY <1>2
    <2> QED BY <1>2, <2>1, <2>2, CapsType
  <1>4. t \in present
    <2>1. o \in Waiting(t)
      <3>1. Enumerates(pending[t], Waiting(t))
        BY Zenon, <1>2 DEF SchedulerInv, QueueAccounting
      <3>2. pending[t][i] \in Waiting(t)
        BY Zenon, <1>1, <3>1 DEF Enumerates
      <3> QED BY Zenon, <1>1, <3>2
    <2> QED BY Zenon, <1>2, <2>1 DEF SchedulerInv, EntryKept, Waiting, Queued
  <1> QED BY Zenon, <1>3, <1>4 DEF Eligible

\* Every operation in flight is with a worker that is awake, so their number is
\* bounded by what each of those runs.
LEMMA FlightSpread ==
    ASSUME PoolRuns, NEW B \in SUBSET Workers, \A o \in InFlight : runBy[o] \in B
    PROVE  /\ Cardinality(InFlight) <= MaxOps * Cardinality(B)
           /\ (\A w \in B : Cardinality(RunBy(w)) >= MaxOps) =>
                 Cardinality(InFlight) >= MaxOps * Cardinality(B)
  <1>1. /\ IsFiniteSet(B) /\ IsFiniteSet(InFlight) /\ MaxOps \in Nat
    <2>1. InFlight \subseteq Ops /\ IsFiniteSet(Ops) /\ IsFiniteSet(Workers)
      BY Zenon, ConstantsAssumption DEF InFlight
    <2> QED BY Zenon, <2>1, FS_Subset, ConstantsAssumption
  <1>2. \A w : {o \in InFlight : runBy[o] = w} = RunBy(w)
    BY Zenon DEF InFlight, RunBy
  <1>3. /\ (\A w \in B : Cardinality({o \in InFlight : runBy[o] = w}) <= MaxOps) =>
              Cardinality(InFlight) <= MaxOps * Cardinality(B)
        /\ (\A w \in B : Cardinality({o \in InFlight : runBy[o] = w}) >= MaxOps) =>
              Cardinality(InFlight) >= MaxOps * Cardinality(B)
    BY Zenon, <1>1, Spread
  <1>4. /\ (\A w \in B : Cardinality(RunBy(w)) <= MaxOps) =>
              Cardinality(InFlight) <= MaxOps * Cardinality(B)
        /\ (\A w \in B : Cardinality(RunBy(w)) >= MaxOps) =>
              Cardinality(InFlight) >= MaxOps * Cardinality(B)
    BY Zenon, <1>2, <1>3
  <1> QED BY Zenon, <1>4 DEF PoolRuns

\* A dispatch moves an operation from the ready ones to those in flight.
LEMMA ConsumePool ==
    ASSUME SchedulerInv, SchedulerInv', PoolInv, NEW w \in Workers, Consume(w)
    PROVE  PoolInv'
  <1>1. PICK t \in Tags : Dispatch(w, t)
    BY Zenon DEF Consume
  <1> DEFINE o == Head(pending[t])
             q == pending[t]
  <1>2. /\ t \in Eligible
        /\ opState' = [opState EXCEPT ![o] = "running"] /\ runBy' = [runBy EXCEPT ![o] = w]
        /\ pending' = [pending EXCEPT ![t] = Tail(q)]
        /\ active' = [active EXCEPT ![t] = active[t] + 1]
        /\ starving' = [starving EXCEPT ![t] = starving[t] + 1]
        /\ thread' = [thread EXCEPT ![w] = "idle"] /\ shutdown' = shutdown
    BY Zenon, <1>1 DEF Dispatch
  <1>3. /\ q \in Seq(Ops) /\ q # << >> /\ o \in Ready /\ TagOf[o] = t /\ o \in Ops
        /\ opState[o] = "queued"
    BY Zenon, <1>2, HeadReady DEF Ready
  <1>4. /\ pending \in [Tags -> Seq(Ops)] /\ opState \in [Ops -> OpStates]
        /\ active \in [Tags -> Nat] /\ starving \in [Tags -> Nat]
        /\ thread \in [Workers -> ThreadStates] /\ DOMAIN runBy = Ops
    BY Zenon DEF SchedulerInv, TypeOK
  <1>5. ASSUME NEW x \in Ready' PROVE x \in Ready /\ x # o
    <2>1. PICK i \in 1..Len(pending'[TagOf[x]]) :
              pending'[TagOf[x]][i] = x /\ Within(TagOf[x], i)'
      BY Zenon DEF Ready
    <2>2. x \in Ops /\ TagOf[x] \in Tags
      BY Zenon, ConstantsAssumption DEF Ready
    <2>3. x # o
      <3>1. opState'[o] = "running"
        BY Zenon, <1>2, <1>3, <1>4
      <3>2. x \in Waiting(TagOf[x])'
        <4>1. Enumerates(pending'[TagOf[x]], Waiting(TagOf[x])')
          BY Zenon, <2>2 DEF SchedulerInv, QueueAccounting
        <4>2. pending'[TagOf[x]][i] \in Waiting(TagOf[x])'
          BY Zenon, <2>1, <4>1 DEF Enumerates
        <4> QED BY Zenon, <2>1, <4>2
      <3>3. opState'[x] = "queued"
        BY Zenon, <3>2 DEF Waiting, Queued
      <3> QED BY Zenon, <3>1, <3>3
    <2>4. CASE TagOf[x] # t
      <3>1. /\ pending'[TagOf[x]] = pending[TagOf[x]]
            /\ starving'[TagOf[x]] = starving[TagOf[x]] /\ active'[TagOf[x]] = active[TagOf[x]]
        BY Zenon, <1>2, <1>4, <2>2, <2>4
      <3> QED BY Zenon, <2>1, <2>2, <2>3, <3>1 DEF Ready, Within
    <2>5. CASE TagOf[x] = t
      <3>1. /\ pending'[t] = Tail(q) /\ Len(Tail(q)) = Len(q) - 1 /\ Len(q) \in Nat \ {0}
            /\ \A k \in 1..Len(Tail(q)) : Tail(q)[k] = q[k + 1]
        BY <1>2, <1>3, <1>4
      <3>2. i + 1 \in 1..Len(q) /\ q[i + 1] = x
        BY <2>1, <2>5, <3>1
      <3>3. i + starving'[t] <= StarvingCap /\ i + active'[t] <= ActiveCap
        BY Zenon, <2>1, <2>5 DEF Within
      <3>4. /\ starving'[t] = starving[t] + 1 /\ active'[t] = active[t] + 1
            /\ starving[t] \in Nat /\ active[t] \in Nat /\ i \in Nat
        BY <1>2, <1>4, <2>1, <2>5, <3>1
      <3>5. Within(t, i + 1)
        BY <3>3, <3>4, CapsType DEF Within
      <3> QED BY Zenon, <2>2, <2>3, <2>5, <3>2, <3>5 DEF Ready
    <2> QED BY Zenon, <2>4, <2>5
  <1>6. \A x \in Ops : /\ opState'[x] = "running" <=> opState[x] = "running" \/ x = o
                       /\ x # o => runBy'[x] = runBy[x]
    BY Zenon, <1>2, <1>3, <1>4
  <1>7. runBy'[o] = w /\ o \notin InFlight /\ InFlight' = InFlight \cup {o}
    <2>1. runBy'[o] = w
      BY Zenon, <1>2, <1>3, <1>4
    <2> QED BY Zenon, <1>3, <1>6, <2>1 DEF InFlight
  <1>8. Demand' <= Demand
    <2>1. /\ Ready \in SUBSET Ops /\ Ready' \in SUBSET Ops /\ Ready \ {o} \in SUBSET Ops
          /\ InFlight \in SUBSET Ops /\ InFlight' \in SUBSET Ops
      BY Zenon DEF Ready, InFlight
    <2>2. Cardinality(InFlight') = Cardinality(InFlight) + 1
      BY Zenon, <1>3, <1>7, <2>1, GrowByOne
    <2>3. Cardinality(Ready \ {o}) = Cardinality(Ready) - 1
      BY Zenon, <1>3, <2>1, ShrinkByOne
    <2>4. Cardinality(Ready') <= Cardinality(Ready \ {o})
      <3>1. Ready' \subseteq Ready \ {o}
        BY Zenon, <1>5
      <3> QED BY Zenon, <2>1, <3>1, OneMore
    <2>5. Cardinality(Ready \ {o}) \in Nat
      BY Zenon, <2>1, CardIsNat
    <2> QED BY <2>2, <2>3, <2>4, <2>5, DemandType DEF Demand
  <1>9. /\ Awake \subseteq Awake' /\ thread'[w] = "idle"
        /\ \A v \in Workers \ {w} : thread'[v] = thread[v]
    BY Zenon, <1>2, <1>4 DEF Awake
  <1>10. PoolRuns'
    <2>1. \A x \in InFlight' : runBy'[x] \in Workers
      BY Zenon, <1>6, <1>7 DEF PoolInv, PoolRuns, InFlight
    <2>2. \A v \in Workers \ {w} : RunBy(v)' = RunBy(v)
      BY Zenon, <1>3, <1>6, <1>7 DEF RunBy
    <2>3. RunBy(w)' = RunBy(w) \cup {o} /\ o \notin RunBy(w)
      BY Zenon, <1>3, <1>6, <1>7 DEF RunBy
    <2>4. Cardinality(RunBy(w)') <= MaxOps
      <3>1. Cardinality(RunBy(w)) < MaxOps
        <4>1. CASE thread[w] = "woken"
          <5>1. RunBy(w) = {}
            BY Zenon, <4>1 DEF PoolInv, PoolRuns
          <5> QED BY <5>1, FS_EmptySet, ConstantsAssumption
        <4> QED BY Zenon, <4>1 DEF Consume
      <3>2. RunBy(w) \in SUBSET Ops /\ RunBy(w)' \in SUBSET Ops
        BY Zenon DEF RunBy
      <3>3. Cardinality(RunBy(w)') = Cardinality(RunBy(w)) + 1 /\ Cardinality(RunBy(w)) \in Nat
        BY Zenon, <1>3, <2>3, <3>2, GrowByOne
      <3> QED BY <3>1, <3>3, ConstantsAssumption
    <2>5. \A v \in Workers : Cardinality(RunBy(v)') <= MaxOps
      BY Zenon, <2>2, <2>4 DEF PoolInv, PoolRuns
    <2>6. \A v \in Workers : thread'[v] \in {"waiting", "woken"} => RunBy(v)' = {}
      BY Zenon, <1>9, <2>2 DEF PoolInv, PoolRuns
    <2> QED BY Zenon, <2>1, <2>5, <2>6 DEF PoolRuns
  <1> QED BY Zenon, <1>2, <1>8, <1>9, <1>10, RoomKept DEF PoolInv

\* A worker that falls asleep leaves nothing ready and no operation of its own, so
\* those still awake run all there is.
LEMMA ConsumeWaitPool ==
    ASSUME SchedulerInv, PoolInv, NEW w \in Workers, ConsumeWait(w)
    PROVE  PoolInv'
  <1>1. /\ RunBy(w) = {} /\ Eligible = {} /\ thread' = [thread EXCEPT ![w] = "waiting"]
        /\ UNCHANGED <<pending, active, starving, opState, runBy, shutdown>>
    BY Zenon DEF ConsumeWait, tagVars
  <1>2. thread \in [Workers -> ThreadStates]
    BY Zenon DEF SchedulerInv, TypeOK
  <1>3. thread'[w] = "waiting" /\ \A v \in Workers \ {w} : thread'[v] = thread[v]
    BY Zenon, <1>1, <1>2
  <1>4. Ready' = {} /\ InFlight' = InFlight
    <2>1. Ready' = Ready /\ InFlight' = InFlight
      BY Zenon, <1>1 DEF Ready, Within, InFlight
    <2> QED BY Zenon, <1>1, <2>1, NoneReady
  <1>5. PoolRuns'
    <2>1. \A v \in Workers : thread'[v] \in {"waiting", "woken"} =>
                                 thread[v] \in {"waiting", "woken"} \/ RunBy(v) = {}
      BY Zenon, <1>1, <1>3
    <2> QED BY Zenon, <1>1, <2>1, RunsKept DEF PoolInv
  <1>6. \A o \in InFlight : runBy[o] \in Awake'
    <2> SUFFICES ASSUME NEW o \in InFlight
                 PROVE  runBy[o] \in Workers /\ thread'[runBy[o]] # "waiting"
      BY Zenon DEF Awake
    <2>1. runBy[o] \in Workers /\ o \in RunBy(runBy[o])
      BY Zenon DEF PoolInv, PoolRuns, InFlight, RunBy
    <2>2. RunBy(runBy[o]) # {} /\ runBy[o] # w
      BY Zenon, <1>1, <2>1
    <2> QED BY Zenon, <1>3, <2>1, <2>2 DEF PoolInv, PoolRuns
  <1>7. Cardinality(InFlight) <= Budget'
    <2>1. Awake' \in SUBSET Workers
      BY Zenon DEF Awake
    <2>2. Cardinality(InFlight) <= MaxOps * Cardinality(Awake')
      BY Zenon, <1>6, <2>1, FlightSpread DEF PoolInv
    <2> QED BY Zenon, <2>2 DEF Budget
  <1>8. Demand' = Cardinality(InFlight)
    <2>1. Cardinality({}) = 0
      BY Zenon, FS_EmptySet
    <2> QED BY <1>4, <2>1, DemandType DEF Demand
  <1>9. Demand' <= Budget'
    BY Zenon, <1>7, <1>8
  <1> QED BY Zenon, <1>5, <1>9 DEF PoolInv, PoolRoom

\* A place before one within a cap is within the cap.
LEMMA Earlier ==
    ASSUME NEW k \in Nat, NEW n \in Nat, NEW s \in Nat, NEW c \in Nat, k < n, n + s <= c
    PROVE  k + 1 + s <= c /\ k + s <= c
  OBVIOUS

\* An expired operation that makes room for another was ready itself.
LEMMA ExpireOpPool ==
    ASSUME SchedulerInv, SchedulerInv', PoolInv, NEW o \in Ops, ExpireOp(o)
    PROVE  PoolInv'
  <1> DEFINE t == TagOf[o]
             q == pending[t]
  <1>1. PICK i \in 1..Len(q) : q[i] = o /\ pending' = [pending EXCEPT ![t] = RemoveAt(q, i)]
    BY Zenon DEF ExpireOp
  <1>2. /\ UNCHANGED <<active, starving, shutdown, thread>>
        /\ opState' = [opState EXCEPT ![o] = "expired"] /\ runBy' = [runBy EXCEPT ![o] = mu]
    BY Zenon DEF ExpireOp
  <1>3. /\ t \in Tags /\ pending \in [Tags -> Seq(Ops)] /\ q \in Seq(Ops)
        /\ opState \in [Ops -> OpStates] /\ DOMAIN runBy = Ops
        /\ starving[t] \in Nat /\ active[t] \in Nat
    BY Zenon, ConstantsAssumption DEF SchedulerInv, TypeOK
  <1> DEFINE r == RemoveAt(q, i)
  <1>4. /\ pending'[t] = r /\ Len(r) = Len(q) - 1 /\ Len(q) \in Nat
        /\ \A k \in 1..Len(r) : r[k] = q[IF k < i THEN k ELSE k + 1]
    <2>1. pending'[t] = r /\ Len(q) \in Nat
      BY <1>1, <1>3
    <2> QED BY Zenon, <1>3, <2>1, RemoveAtPlaces
  <1> HIDE DEF r
  <1>5. opState[o] = "queued"
    <2>1. Enumerates(q, Waiting(t))
      BY Zenon, <1>3 DEF SchedulerInv, QueueAccounting
    <2>2. q[i] \in Waiting(t)
      BY Zenon, <2>1 DEF Enumerates
    <2> QED BY Zenon, <1>1, <2>2 DEF Waiting, Queued
  <1>6. \A x \in Ops : opState'[x] = "running" <=> opState[x] = "running"
    BY Zenon, <1>2, <1>3, <1>5
  <1>7. \A x \in Ops : opState'[x] = "running" => runBy'[x] = runBy[x]
    BY Zenon, <1>2, <1>3, <1>5, <1>6
  <1>8. PoolRuns' /\ InFlight' = InFlight
    <2>1. \A w \in Workers : thread'[w] \in {"waiting", "woken"} =>
                                 thread[w] \in {"waiting", "woken"} \/ RunBy(w) = {}
      BY Zenon, <1>2
    <2>2. InFlight' = InFlight
      BY Zenon, <1>6 DEF InFlight
    <2> QED BY Zenon, <1>6, <1>7, <2>1, <2>2, RunsKept DEF PoolInv
  \* Whatever becomes ready moved up into the last place within the caps.
  <1>9. ASSUME NEW x \in Ready' \ Ready
        PROVE  \E k \in Nat : /\ k >= i /\ k + 1 \in 1..Len(q) /\ q[k + 1] = x
                              /\ Within(t, k) /\ ~Within(t, k + 1)
    <2>1. PICK k \in 1..Len(pending'[TagOf[x]]) :
              pending'[TagOf[x]][k] = x /\ Within(TagOf[x], k)'
      BY Zenon DEF Ready
    <2>2. Within(TagOf[x], k) /\ x \in Ops /\ TagOf[x] \in Tags
      <3>1. x \in Ops /\ TagOf[x] \in Tags
        BY Zenon, ConstantsAssumption DEF Ready
      <3> QED BY Zenon, <1>2, <2>1, <3>1 DEF Within
    <2>3. \A j \in 1..Len(pending[TagOf[x]]) :
              pending[TagOf[x]][j] = x => ~Within(TagOf[x], j)
      BY Zenon, <2>2 DEF Ready
    <2>4. TagOf[x] = t
      <3> SUFFICES ASSUME TagOf[x] # t PROVE FALSE
        OBVIOUS
      <3>1. pending'[TagOf[x]] = pending[TagOf[x]]
        BY Zenon, <1>1, <1>3, <2>2
      <3> QED BY Zenon, <2>1, <2>2, <2>3, <3>1
    <2>5. k \in 1..Len(r) /\ r[k] = x /\ Within(t, k)
      BY Zenon, <1>4, <2>1, <2>2, <2>4
    <2>6. \A j \in 1..Len(q) : q[j] = x => ~Within(t, j)
      BY Zenon, <2>3, <2>4
    <2>7. ~(k < i)
      <3> SUFFICES ASSUME k < i PROVE FALSE
        OBVIOUS
      <3>1. k \in 1..Len(q) /\ q[k] = x
        BY <1>4, <2>5
      <3> QED BY Zenon, <2>5, <2>6, <3>1
    <2>8. k \in Nat /\ k >= i /\ k + 1 \in 1..Len(q) /\ q[k + 1] = x
      BY <1>1, <1>4, <2>5, <2>7
    <2> QED BY Zenon, <2>5, <2>6, <2>8
  <1>10. \A x, y \in Ready' \ Ready : x = y
    <2> SUFFICES ASSUME NEW x \in Ready' \ Ready, NEW y \in Ready' \ Ready PROVE x = y
      OBVIOUS
    <2>1. PICK k \in Nat : q[k + 1] = x /\ Within(t, k) /\ ~Within(t, k + 1)
      BY Zenon, <1>9
    <2>2. PICK l \in Nat : q[l + 1] = y /\ Within(t, l) /\ ~Within(t, l + 1)
      BY Zenon, <1>9
    <2>3. k = l
      <3> SUFFICES ASSUME NEW s \in Nat, NEW a \in Nat, s = starving[t], a = active[t]
                   PROVE  k = l
        BY Zenon, <1>3
      <3>1. /\ k + s <= StarvingCap /\ k + a <= ActiveCap
            /\ l + s <= StarvingCap /\ l + a <= ActiveCap
        BY Zenon, <2>1, <2>2 DEF Within
      <3>2. /\ ~(k + 1 + s <= StarvingCap /\ k + 1 + a <= ActiveCap)
            /\ ~(l + 1 + s <= StarvingCap /\ l + 1 + a <= ActiveCap)
        BY Zenon, <2>1, <2>2 DEF Within
      <3>3. ASSUME NEW m \in Nat, NEW n \in Nat, m < n,
                   n + s <= StarvingCap, n + a <= ActiveCap
            PROVE  m + 1 + s <= StarvingCap /\ m + 1 + a <= ActiveCap
        BY Zenon, <3>3, CapsType, Earlier
      <3>4. ~(k < l) /\ ~(l < k)
        BY Zenon, <3>1, <3>2, <3>3
      <3> QED BY <3>4
    <2> QED BY Zenon, <2>1, <2>2, <2>3
  <1>11. ASSUME NEW x \in Ready' \ Ready PROVE o \in Ready \ Ready'
    <2>1. PICK k \in Nat : k >= i /\ Within(t, k)
      BY Zenon, <1>9
    <2>2. Within(t, i)
      <3>1. i \in Nat /\ (i = k \/ i < k)
        BY <1>4, <2>1
      <3> QED BY Zenon, <1>3, <2>1, <3>1, CapsType, Earlier DEF Within
    <2>3. o \in Ready
      BY Zenon, <1>1, <2>2 DEF Ready
    <2>4. o \notin Ready'
      <3> SUFFICES ASSUME o \in Ready' PROVE FALSE
        OBVIOUS
      <3>1. PICK j \in 1..Len(pending'[t]) : pending'[t][j] = o
        BY Zenon DEF Ready
      <3>2. Enumerates(pending'[t], Waiting(t)')
        BY Zenon, <1>3 DEF SchedulerInv, QueueAccounting
      <3>3. pending'[t][j] \in Waiting(t)'
        BY Zenon, <3>1, <3>2 DEF Enumerates
      <3>4. opState'[o] = "queued"
        BY Zenon, <3>1, <3>3 DEF Waiting, Queued
      <3> QED BY Zenon, <1>2, <1>3, <3>4
    <2> QED BY Zenon, <2>3, <2>4
  <1>12. Cardinality(Ready') <= Cardinality(Ready)
    <2>1. Ready \in SUBSET Ops /\ Ready' \in SUBSET Ops
      BY Zenon DEF Ready
    <2>2. CASE Ready' \subseteq Ready
      BY Zenon, <1>10, <2>1, <2>2, OneMore
    <2>3. CASE o \in Ready \ Ready'
      BY Zenon, <1>10, <2>1, <2>3, OneMore
    <2> QED BY Zenon, <1>11, <2>2, <2>3
  <1>13. Demand' <= Demand
    BY <1>8, <1>12, DemandType DEF Demand
  <1>14. Awake \subseteq Awake'
    BY Zenon, <1>2 DEF Awake
  <1> QED BY Zenon, <1>2, <1>8, <1>13, <1>14, RoomKept DEF PoolInv

\* The steps that touch neither queue nor counter.
LEMMA QuietStepsPool ==
    ASSUME SchedulerInv, PoolInv,
           \/ \E o \in Ops : AdmitReject(o) \/ DeadlinePasses(o) \/ FailExpired(o)
           \/ \E w \in Workers : ConsumeNothing(w) \/ ExpireBegin(w) \/ ExpireReturn(w)
           \/ ExpireEnd \/ Shutdown \/ UNCHANGED vars
    PROVE  PoolInv'
  <1> DEFINE Same == \A o \in Ops : opState'[o] = "running" =>
                                       opState[o] = "running" /\ runBy'[o] = runBy[o]
             Wakes == \A w \in Workers :
                         /\ thread'[w] = "waiting" => thread[w] = "waiting"
                         /\ thread'[w] = "woken" => thread[w] \in {"waiting", "woken"}
  <1>0. opState \in [Ops -> OpStates] /\ thread \in [Workers -> ThreadStates] /\ HooksMatch
    BY Zenon DEF SchedulerInv, TypeOK
  <1>1. ASSUME NEW o \in Ops, AdmitReject(o) \/ DeadlinePasses(o) \/ FailExpired(o)
        PROVE  PoolInv'
    <2>1. o \notin hooked \/ AdmitReject(o) \/ DeadlinePasses(o)
      BY Zenon, <1>0, <1>1 DEF FailExpired, HooksMatch
    <2>2. /\ UNCHANGED <<pending, starving, active, shutdown, runBy, thread>>
          /\ \/ opState' = opState \/ opState' = [opState EXCEPT ![o] = "rejected"]
             \/ opState' = [opState EXCEPT ![o] = "done"]
      BY Zenon, <1>1, <2>1 DEF AdmitReject, DeadlinePasses, FailExpired, tagVars
    <2>3. Same
      BY Zenon, <1>0, <2>2
    <2>4. Wakes
      BY Zenon, <2>2
    <2> QED BY Zenon, <2>2, <2>3, <2>4, QuietPool
  <1>2. ASSUME NEW w \in Workers, ConsumeNothing(w) \/ ExpireBegin(w) \/ ExpireReturn(w)
        PROVE  PoolInv'
    <2>1. /\ UNCHANGED <<pending, starving, active, shutdown, runBy, opState>>
          /\ \/ thread' = [thread EXCEPT ![w] = "idle"]
             \/ thread' = [thread EXCEPT ![w] = "expiring"]
      BY Zenon, <1>2 DEF ConsumeNothing, ExpireBegin, ExpireReturn, tagVars
    <2>2. Wakes
      BY Zenon, <1>0, <2>1
    <2> QED BY Zenon, <2>1, <2>2, QuietPool
  <1>3. CASE ExpireEnd \/ UNCHANGED vars
    <2>1. UNCHANGED <<pending, starving, active, shutdown, runBy, opState, thread>>
      BY Zenon, <1>3 DEF ExpireEnd, vars
    <2>2. Wakes
      BY Zenon, <2>1
    <2> QED BY Zenon, <2>1, <2>2, QuietPool
  <1>4. CASE Shutdown
    <2>1. /\ UNCHANGED <<pending, starving, active, runBy, opState>> /\ shutdown' = TRUE
          /\ thread' = [w \in Workers |->
                           IF thread[w] = "waiting" THEN "woken" ELSE thread[w]]
      BY Zenon, <1>4 DEF Shutdown, tagVars
    <2>2. Wakes
      BY Zenon, <2>1
    <2> QED BY Zenon, <2>1, <2>2, QuietPool
  <1> QED BY Zenon, <1>1, <1>2, <1>3, <1>4

\* The pool starts awake and idle.
LEMMA InitPool == Init => PoolInv
  <1> SUFFICES ASSUME Init PROVE PoolInv
    OBVIOUS
  <1>1. opState = [o \in Ops |-> "new"] /\ thread = [w \in Workers |-> "idle"]
    BY Zenon DEF Init
  <1>2. InFlight = {} /\ Awake = Workers /\ \A w \in Workers : RunBy(w) = {}
    BY Zenon, <1>1 DEF InFlight, Awake, RunBy
  <1>3. \A w \in Workers : Cardinality(RunBy(w)) <= MaxOps
    BY <1>2, FS_EmptySet, ConstantsAssumption
  <1> QED BY Zenon, <1>2, <1>3 DEF PoolInv, PoolRuns, PoolRoom

\* The count implies that no wake-up is lost.
LEMMA PoolSuffices ==
    ASSUME SchedulerInv, PoolInv
    PROVE  NoSleepingPool
  <1> SUFFICES ASSUME Eligible # {}, ~shutdown, NEW w \in Workers, thread[w] = "waiting",
                      \A v \in Workers : thread[v] # "waiting" =>
                                            ~(Cardinality(RunBy(v)) < MaxOps)
               PROVE  FALSE
    BY Zenon DEF NoSleepingPool
  <1>1. Awake \in SUBSET Workers /\ Awake # Workers
    BY Zenon DEF Awake
  <1>2. \A o \in InFlight : runBy[o] \in Awake
    <2> SUFFICES ASSUME NEW o \in InFlight PROVE runBy[o] \in Awake
      OBVIOUS
    <2>1. runBy[o] \in Workers /\ o \in RunBy(runBy[o])
      BY Zenon DEF PoolInv, PoolRuns, InFlight, RunBy
    <2> QED BY Zenon, <2>1 DEF PoolInv, PoolRuns, Awake
  <1>3. \A v \in Awake : Cardinality(RunBy(v)) >= MaxOps
    <2> SUFFICES ASSUME NEW v \in Awake PROVE Cardinality(RunBy(v)) >= MaxOps
      OBVIOUS
    <2>1. RunBy(v) \in SUBSET Ops /\ ~(Cardinality(RunBy(v)) < MaxOps)
      BY Zenon DEF RunBy, Awake
    <2>2. Cardinality(RunBy(v)) \in Nat
      BY Zenon, <2>1, CardIsNat
    <2> QED BY <2>1, <2>2, ConstantsAssumption
  <1>4. Cardinality(InFlight) >= Budget
    BY Zenon, <1>1, <1>2, <1>3, FlightSpread DEF Budget, PoolInv
  <1>5. Demand <= Budget
    BY Zenon, <1>1 DEF PoolInv, PoolRoom
  <1>6. Cardinality(Ready) >= 1
    <2>1. PICK t \in Eligible : TRUE
      BY Zenon
    <2>2. Head(pending[t]) \in Ready /\ Ready \in SUBSET Ops
      BY Zenon, <2>1, HeadReady DEF Ready
    <2>3. Cardinality(Ready) # 0
      BY Zenon, <2>2, EmptyCount
    <2> QED BY <2>3, DemandType
  <1>7. Budget \in Nat
    <2>1. Awake \subseteq Workers /\ IsFiniteSet(Workers)
      BY Zenon, <1>1, ConstantsAssumption
    <2>2. Cardinality(Awake) \in Nat
      BY Zenon, <2>1, FS_Subset, FS_CardinalityType
    <2> QED BY <2>2, ConstantsAssumption DEF Budget
  <1> QED BY <1>4, <1>5, <1>6, <1>7, DemandType DEF Demand

\* No wake-up is lost: whatever the order of admissions, completions, first bytes,
\* expiries and time-outs, while an operation could be dispatched and a worker sleeps in
\* Consume, a worker with room is awake.
THEOREM NoLostWakeup == Spec => []NoSleepingPool
  <1>1. Init => PoolInv
    BY Zenon, InitPool
  <1>2. SchedulerInv /\ SchedulerInv' /\ PoolInv /\ [Next]_vars => PoolInv'
    <2> SUFFICES ASSUME SchedulerInv, SchedulerInv', PoolInv, [Next]_vars PROVE PoolInv'
      OBVIOUS
    <2>1. ASSUME NEW o \in Ops, OpStep(o) PROVE PoolInv'
      BY Zenon, <2>1, AdmitAcceptPool, OnFirstBytePool, SetDonePool, ExpireOpPool,
         QuietStepsPool DEF OpStep
    <2>2. ASSUME NEW w \in Workers, WorkerStep(w) PROVE PoolInv'
      BY Zenon, <2>2, ConsumePool, ConsumeWaitPool, QuietStepsPool DEF WorkerStep
    <2>3. CASE ExpireEnd \/ Shutdown \/ UNCHANGED vars
      BY Zenon, <2>3, QuietStepsPool
    <2> QED BY Zenon, <2>1, <2>2, <2>3 DEF Next
  <1>3. SchedulerInv /\ PoolInv => NoSleepingPool
    BY Zenon, PoolSuffices
  <1> QED BY <1>1, <1>2, <1>3, SchedulerCorrect, PTL DEF Spec
=============================================================================
