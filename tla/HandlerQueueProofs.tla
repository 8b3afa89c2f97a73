------------------------- MODULE HandlerQueueProofs -------------------------
(***************************************************************************)
(* For every set of operations, every limit and every set of deadlines:    *)
(* the pipe, the queue and the places of the operations stay in step.      *)
(***************************************************************************)
EXTENDS HandlerQueue, BasicLemmas

\* The operations UnexpiredBounded counts.
Unexpired == {o \in Queued : limit[o] > now}

\* All three invariants at once: that the queue holds no operation twice is needed
\* to know that what TryConsume takes is gone.
QueueInv == TypeOK /\ PipeMatchesQueue /\ InOnePlace /\ UnexpiredBounded

\* Deadlines are instants.
LEMMA DeadlinesType ==
    ASSUME TypeOK
    PROVE  now \in Nat /\ \A o \in Ops : expiry[o] \in Nat /\ limit[o] \in Nat
  <1>1. Deadlines \subseteq Nat /\ now \in Nat
    BY ConstantsAssumption DEF TypeOK
  <1>2. \A o \in Ops : expiry[o] \in Deadlines /\ limit[o] \in Deadlines
    BY Zenon DEF TypeOK
  <1> QED BY Zenon, <1>1, <1>2

\* ... after a step too.
LEMMA DeadlinesPrime == TypeOK' => \A o \in Ops : limit'[o] \in Nat
  <1> SUFFICES ASSUME TypeOK' PROVE \A o \in Ops : limit'[o] \in Nat
    OBVIOUS
  <1>1. Deadlines \subseteq Nat
    BY ConstantsAssumption
  <1>2. \A o \in Ops : limit'[o] \in Deadlines
    BY Zenon DEF TypeOK
  <1> QED BY Zenon, <1>1, <1>2

\* The queue's elements, in the terms of the lemmas.
LEMMA QueuedIsRange == Queued = Range(ops) /\ Queued' = Range(ops')
  BY Zenon DEF Queued, Range

\* A smaller set of operations that are not expired is within the limit too.
LEMMA BoundKept ==
    ASSUME TypeOK, UnexpiredBounded, Unexpired' \subseteq Unexpired
    PROVE  UnexpiredBounded'
  <1>1. Unexpired \subseteq Ops
    BY DEF Unexpired, Queued, TypeOK
  <1>2. IsFiniteSet(Unexpired)
    BY Zenon, <1>1, FS_Subset, ConstantsAssumption
  <1>3. Cardinality(Unexpired') <= Cardinality(Unexpired) /\ IsFiniteSet(Unexpired')
    BY Zenon, <1>2, FS_Subset
  <1>4. Cardinality(Unexpired) \in Nat /\ Cardinality(Unexpired') \in Nat
    BY Zenon, <1>2, <1>3, FS_CardinalityType
  <1>5. Cardinality(Unexpired) <= MaxPending
    BY Zenon DEF UnexpiredBounded, Unexpired
  <1>6. Cardinality(Unexpired') <= MaxPending
    BY <1>3, <1>4, <1>5, ConstantsAssumption
  <1> QED BY Zenon, <1>6 DEF UnexpiredBounded, Unexpired

\* The queue starts empty.
LEMMA InitInv == Init => QueueInv
  <1> SUFFICES ASSUME Init PROVE QueueInv
    OBVIOUS
  <1>1. TypeOK
    <2>1. ops \in Seq(Ops) /\ now \in 0..MaxTime
      BY ConstantsAssumption DEF Init
    <2> QED BY Zenon, <2>1 DEF Init, TypeOK
  <1>2. Queued = {} /\ Len(ops) = 0 /\ DOMAIN ops = {}
    BY DEF Init, Queued
  <1>3. UnexpiredBounded
    <2>1. {o \in Queued : limit[o] > now} = {}
      BY Zenon, <1>2
    <2> QED BY <2>1, FS_EmptySet, ConstantsAssumption DEF UnexpiredBounded
  <1>4. InOnePlace
    BY Zenon, <1>1, <1>2 DEF Init, InOnePlace
  <1> QED BY Zenon, <1>1, <1>2, <1>3, <1>4 DEF QueueInv, PipeMatchesQueue, Init

\* What TryProduce does after its wait: the operation, so far in no queue, is failed
\* or queued, and queued beyond the limit only if its deadline has come.
LEMMA FinishInv ==
    ASSUME QueueInv, NEW o \in Ops, state[o] \in {"new", "waiting"},
           limit' \in [Ops -> Deadlines], \A p \in Ops : p # o => limit'[p] = limit[p],
           Room \/ now >= limit'[o], Finish(o),
           notified' \subseteq Ops, UNCHANGED <<shutdown, now, expiry, expired>>
    PROVE  QueueInv'
  <1>1. TypeOK /\ InOnePlace /\ pipe = Len(ops) /\ ops \in Seq(Ops) /\ now \in Nat
    BY DEF QueueInv, PipeMatchesQueue, TypeOK
  <1>2. o \notin Queued /\ o \notin expired /\ Queued \subseteq Ops
    BY <1>1 DEF InOnePlace, TypeOK, Queued
  <1>3. CASE now > limit'[o]
    <2>1. UNCHANGED <<ops, pipe>> /\ state' = [state EXCEPT ![o] = "failed"]
      BY Zenon, <1>3 DEF Finish
    <2>2. TypeOK'
      BY Zenon, <1>1, <2>1 DEF TypeOK
    <2>3. Queued' = Queued
      BY Zenon, <2>1 DEF Queued
    <2>4. InOnePlace'
      BY Zenon, <1>1, <1>2, <2>1, <2>2, <2>3 DEF InOnePlace, TypeOK
    <2>5. Unexpired' \subseteq Unexpired
      BY Zenon, <1>2, <2>3 DEF Unexpired
    <2>6. UnexpiredBounded'
      BY Zenon, <1>1, <2>5, BoundKept DEF QueueInv
    <2> QED BY Zenon, <1>1, <2>1, <2>2, <2>4, <2>6 DEF QueueInv, PipeMatchesQueue
  <1>4. CASE ~(now > limit'[o])
    <2>1. /\ ops' = Append(ops, o) /\ pipe' = pipe + 1
          /\ state' = [state EXCEPT ![o] = "queued"]
      BY Zenon, <1>4 DEF Finish, NotifyPipe
    <2>2. /\ ops' \in Seq(Ops) /\ Len(ops') = Len(ops) + 1
          /\ Queued' = Queued \cup {o}
          /\ \A i, j \in DOMAIN ops' : ops'[i] = ops'[j] => i = j
      <3>1. o \in Ops /\ ops \in Seq(Ops) /\ Range(ops) = Queued /\ Range(ops') = Queued'
        BY Zenon, <1>1, <1>2, QueuedIsRange DEF InOnePlace, TypeOK
      <3>2. ops' \in Seq(Ops) /\ Len(ops') = Len(ops) + 1 /\ Range(ops') = Range(ops) \cup {o}
        BY <2>1, <3>1, AppendRange
      <3>3. o \notin Range(ops) /\ \A i, j \in DOMAIN ops : ops[i] = ops[j] => i = j
        BY Zenon, <1>1, <1>2, <3>1 DEF InOnePlace
      <3>4. \A i, j \in DOMAIN ops' : ops'[i] = ops'[j] => i = j
        BY <2>1, <3>1, <3>3, AppendRange
      <3> QED BY Zenon, <3>1, <3>2, <3>4
    <2>3. TypeOK'
      BY <1>1, <2>1, <2>2 DEF TypeOK
    <2>4. InOnePlace'
      BY <1>1, <1>2, <2>1, <2>2, <2>3 DEF InOnePlace, TypeOK
    <2>5. UnexpiredBounded'
      <3>1. CASE Room
        <4>1. Unexpired' \subseteq Range(ops')
          BY Zenon, QueuedIsRange DEF Unexpired
        <4>2. IsFiniteSet(Range(ops')) /\ Cardinality(Range(ops')) <= Len(ops')
          BY Zenon, <2>2, RangeBound
        <4>3. /\ Cardinality(Unexpired') <= Cardinality(Range(ops'))
              /\ IsFiniteSet(Unexpired')
          BY Zenon, <4>1, <4>2, FS_Subset
        <4>4. /\ Cardinality(Unexpired') \in Nat /\ Cardinality(Range(ops')) \in Nat
              /\ Len(ops) \in Nat
          BY Zenon, <1>1, <4>2, <4>3, FS_CardinalityType, LenProperties
        <4>5. Cardinality(Unexpired') <= MaxPending
          BY <2>2, <3>1, <4>2, <4>3, <4>4, ConstantsAssumption DEF Room
        <4> QED BY Zenon, <4>5 DEF UnexpiredBounded, Unexpired
      <3>2. CASE now >= limit'[o]
        <4>1. limit'[o] \in Nat /\ now' = now
          BY Zenon, <2>3, DeadlinesPrime
        <4>2. Unexpired' \subseteq Unexpired
          BY <1>1, <1>2, <2>2, <3>2, <4>1 DEF Unexpired
        <4> QED BY Zenon, <1>1, <4>2, BoundKept DEF QueueInv
      <3> QED BY Zenon, <3>1, <3>2
    <2>6. pipe' = Len(ops')
      BY Zenon, <1>1, <2>1, <2>2
    <2> QED BY Zenon, <2>3, <2>4, <2>5, <2>6 DEF QueueInv, PipeMatchesQueue
  <1> QED BY Zenon, <1>3, <1>4

\* Produce keeps the invariants.
LEMMA ProduceInv ==
    ASSUME QueueInv, NEW o \in Ops, Produce(o)
    PROVE  QueueInv'
  <1>1. TypeOK /\ InOnePlace /\ state[o] = "new" /\ notified \subseteq Ops
    BY Zenon DEF QueueInv, Produce, TypeOK
  <1>2. /\ limit' = [limit EXCEPT ![o] = expiry[o]]
        /\ limit' \in [Ops -> Deadlines] /\ limit'[o] = expiry[o]
        /\ \A p \in Ops : p # o => limit'[p] = limit[p]
    BY Zenon, <1>1 DEF Produce, TypeOK
  <1>3. UNCHANGED <<shutdown, now, expiry, notified, expired>>
    BY Zenon DEF Produce
  <1>4. CASE Room \/ now >= expiry[o]
    <2>1. Finish(o)
      BY Zenon, <1>4 DEF Produce
    <2> QED BY Zenon, <1>1, <1>2, <1>3, <1>4, <2>1, FinishInv
  <1>5. CASE ~(Room \/ now >= expiry[o])
    <2>1. state' = [state EXCEPT ![o] = "waiting"] /\ UNCHANGED <<ops, pipe>>
      BY Zenon, <1>5 DEF Produce
    <2>2. TypeOK'
      BY Zenon, <1>1, <1>2, <1>3, <2>1 DEF TypeOK
    <2>3. Queued' = Queued /\ o \notin Queued /\ o \notin expired /\ Queued \subseteq Ops
      BY <1>1, <2>1 DEF Queued, InOnePlace, TypeOK
    <2>4. InOnePlace'
      BY Zenon, <1>1, <1>3, <2>1, <2>2, <2>3 DEF InOnePlace, TypeOK
    <2>5. Unexpired' \subseteq Unexpired
      BY Zenon, <1>2, <1>3, <2>3 DEF Unexpired
    <2>6. UnexpiredBounded'
      BY Zenon, <1>1, <2>5, BoundKept DEF QueueInv
    <2> QED BY Zenon, <2>1, <2>2, <2>4, <2>6 DEF QueueInv, PipeMatchesQueue
  <1> QED BY Zenon, <1>4, <1>5

\* So does a producer that wakes up.
LEMMA WakeInv ==
    ASSUME QueueInv, NEW o \in Ops, Wake(o)
    PROVE  QueueInv'
  <1>1. TypeOK /\ InOnePlace /\ state[o] = "waiting" /\ limit' = limit
    BY Zenon DEF QueueInv, Wake
  <1>2. notified' \subseteq Ops /\ UNCHANGED <<shutdown, now, expiry, expired>>
    BY Zenon, <1>1 DEF Wake, TypeOK
  <1>3. limit' \in [Ops -> Deadlines]
    BY Zenon, <1>1 DEF TypeOK
  <1>4. CASE Room \/ now >= limit[o]
    <2>1. Finish(o)
      BY Zenon, <1>4 DEF Wake
    <2>2. Room \/ now >= limit'[o]
      BY Zenon, <1>1, <1>4
    <2> QED BY Zenon, <1>1, <1>2, <1>3, <2>1, <2>2, FinishInv
  <1>5. CASE ~(Room \/ now >= limit[o])
    <2>1. UNCHANGED <<ops, pipe, state>>
      BY Zenon, <1>5 DEF Wake
    <2> QED BY <1>1, <1>2, <2>1 DEF QueueInv, TypeOK, PipeMatchesQueue, InOnePlace,
                                    UnexpiredBounded, Queued
  <1> QED BY Zenon, <1>4, <1>5

\* A worker that takes the oldest operation keeps them: the operation is nowhere
\* else in the queue.
LEMMA TryConsumeInv ==
    ASSUME QueueInv, TryConsume
    PROVE  QueueInv'
  <1>1. /\ TypeOK /\ InOnePlace /\ pipe = Len(ops) /\ ops \in Seq(Ops) /\ ops # << >>
        /\ UnexpiredBounded
    BY Zenon DEF QueueInv, TypeOK, TryConsume, PipeMatchesQueue
  <1>2. /\ ops' = Tail(ops) /\ pipe' = DrainPipe(pipe, 1)
        /\ state' = [state EXCEPT ![Head(ops)] = "taken"]
        /\ UNCHANGED <<shutdown, now, expiry, limit, expired>>
    BY Zenon DEF TryConsume, Popped
  <1>3. /\ ops' \in Seq(Ops) /\ Len(ops') = Len(ops) - 1 /\ Len(ops) \in Nat \ {0}
        /\ Head(ops) \in Queued /\ Queued = Queued' \cup {Head(ops)}
        /\ Head(ops) \notin Queued'
        /\ \A i, j \in DOMAIN ops' : ops'[i] = ops'[j] => i = j
    BY <1>1, <1>2, TailRange, QueuedIsRange DEF InOnePlace
  <1>4. Queued \subseteq Ops /\ Head(ops) \notin expired
    BY <1>1, <1>3 DEF Queued, InOnePlace, TypeOK
  <1>5. notified' \subseteq Ops
    BY <1>1 DEF TryConsume, NotifyProducer, Waiting, TypeOK
  <1>6. pipe' = Len(ops')
    BY <1>1, <1>2, <1>3 DEF DrainPipe
  <1>7. TypeOK'
    BY <1>1, <1>2, <1>3, <1>4, <1>5, <1>6 DEF TypeOK
  <1>8. InOnePlace'
    BY <1>1, <1>2, <1>3, <1>4, <1>7 DEF InOnePlace, TypeOK
  <1>9. Unexpired' \subseteq Unexpired
    BY Zenon, <1>2, <1>3 DEF Unexpired
  <1>10. UnexpiredBounded'
    BY Zenon, <1>1, <1>9, BoundKept
  <1> QED BY Zenon, <1>6, <1>7, <1>8, <1>10 DEF QueueInv, PipeMatchesQueue

\* Expire keeps them: as many bytes leave the pipe as operations leave the queue, and
\* each of these is now among those to be failed.
LEMMA ExpireInv ==
    ASSUME QueueInv, Expire
    PROVE  QueueInv'
  <1> DEFINE S == {o \in Ops : expiry[o] >= now}
  <1>1. /\ TypeOK /\ InOnePlace /\ pipe = Len(ops) /\ ops \in Seq(Ops)
        /\ UnexpiredBounded /\ Queued \subseteq Ops
    BY DEF QueueInv, TypeOK, PipeMatchesQueue, Queued
  <1>2. /\ ops' = Kept(ops, S) /\ pipe' = DrainPipe(pipe, Len(ops) - Len(ops'))
        /\ UNCHANGED <<shutdown, now, expiry, limit, notified>>
    BY Zenon DEF Expire
  <1>3. /\ ops' \in Seq(Ops) /\ Queued' = Queued \cap S
        /\ \A i, j \in DOMAIN ops' : ops'[i] = ops'[j] => i = j
    <2> HIDE DEF S
    <2>1. /\ ops' \in Seq(Ops) /\ Range(ops') = Range(ops) \cap S
          /\ (\A i, j \in DOMAIN ops : ops[i] = ops[j] => i = j) =>
                \A i, j \in DOMAIN ops' : ops'[i] = ops'[j] => i = j
      <3>1. /\ Kept(ops, S) \in Seq(Ops) /\ Range(Kept(ops, S)) = Range(ops) \cap S
            /\ (\A i, j \in DOMAIN ops : ops[i] = ops[j] => i = j) =>
                  \A i, j \in DOMAIN Kept(ops, S) : Kept(ops, S)[i] = Kept(ops, S)[j] => i = j
        BY <1>1, KeptProperties, Zenon
      <3> QED BY Zenon, <1>2, <3>1
    <2>2. \A i, j \in DOMAIN ops : ops[i] = ops[j] => i = j
      BY Zenon, <1>1 DEF InOnePlace
    <2> QED BY Zenon, <2>1, <2>2, QueuedIsRange
  <1>4. Len(ops') <= Len(ops) /\ Len(ops') \in Nat /\ Len(ops) \in Nat
    <2>1. /\ IsFiniteSet(Range(ops) \ S)
          /\ Len(ops') + Cardinality(Range(ops) \ S) <= Len(ops)
      <3> HIDE DEF S
      <3> QED BY Zenon, <1>1, <1>2, KeptProperties
    <2>2. Cardinality(Range(ops) \ S) \in Nat
      <3> HIDE DEF S
      <3> QED BY Zenon, <2>1, FS_CardinalityType
    <2>3. Len(ops') \in Nat /\ Len(ops) \in Nat
      BY Zenon, <1>1, <1>3, LenProperties
    <2> DEFINE c == Cardinality(Range(ops) \ S)
    <2> HIDE DEF c
    <2> QED BY <2>1, <2>2, <2>3 DEF c
  <1>5. pipe' = Len(ops')
    BY <1>1, <1>2, <1>4 DEF DrainPipe
  <1>6. \A o \in Ops : (expiry[o] >= now) <=> ~(expiry[o] < now)
    BY <1>1, DeadlinesType
  <1>7. /\ expired' = expired \cup {o \in Queued : expiry[o] < now}
        /\ state' = [o \in Ops |-> IF o \in Queued /\ expiry[o] < now
                                   THEN "expired" ELSE state[o]]
    BY Zenon DEF Expire, Overdue
  <1>8. TypeOK'
    BY Zenon, <1>1, <1>2, <1>3, <1>4, <1>5, <1>7 DEF TypeOK
  <1>9. InOnePlace'
    <2>1. \A o \in Ops : state'[o] = "queued" <=> o \in Queued'
      BY Zenon, <1>1, <1>3, <1>6, <1>7 DEF InOnePlace
    <2>2. \A o \in Ops : state'[o] = "expired" <=> o \in expired'
      BY Zenon, <1>1, <1>7 DEF InOnePlace
    <2> QED BY Zenon, <1>3, <1>8, <2>1, <2>2 DEF InOnePlace
  <1>10. Unexpired' \subseteq Unexpired
    BY Zenon, <1>2, <1>3 DEF Unexpired
  <1>11. UnexpiredBounded'
    BY Zenon, <1>1, <1>10, BoundKept
  <1> QED BY Zenon, <1>5, <1>8, <1>9, <1>11 DEF QueueInv, PipeMatchesQueue

\* The other steps move no operation into or out of the queue.
LEMMA OtherInv ==
    ASSUME QueueInv,
           \/ Tick \/ Shutdown \/ UNCHANGED vars
           \/ \E o \in Ops : ExtendDeadline(o) \/ FailExpired(o)
    PROVE  QueueInv'
  <1>1. TypeOK /\ InOnePlace /\ UnexpiredBounded /\ pipe = Len(ops)
    BY Zenon DEF QueueInv, PipeMatchesQueue
  <1>2. UNCHANGED <<ops, pipe, limit, notified>> /\ Queued' = Queued
    BY Zenon DEF Tick, Shutdown, ExtendDeadline, FailExpired, vars, Queued
  <1>3. now \in Nat /\ now' \in Nat /\ now <= now' /\ now' <= MaxTime
    BY <1>1, ConstantsAssumption
       DEF Tick, Shutdown, ExtendDeadline, FailExpired, vars, TypeOK
  <1>4. TypeOK'
    <2>1. CASE Tick \/ Shutdown \/ UNCHANGED vars
      <3>1. now' \in 0..MaxTime
        BY <1>3
      <3>2. shutdown' \in BOOLEAN
        BY Zenon, <1>1, <2>1 DEF Tick, Shutdown, vars, TypeOK
      <3>3. UNCHANGED <<expiry, state, expired>>
        BY Zenon, <2>1 DEF Tick, Shutdown, vars
      <3> QED BY Zenon, <1>1, <1>2, <3>1, <3>2, <3>3 DEF TypeOK
    <2>2. ASSUME NEW o \in Ops, ExtendDeadline(o) PROVE TypeOK'
      <3>1. expiry' \in [Ops -> Deadlines]
        BY Zenon, <1>1, <2>2 DEF ExtendDeadline, TypeOK
      <3> QED BY Zenon, <1>1, <2>2, <3>1 DEF ExtendDeadline, TypeOK
    <2>3. ASSUME NEW o \in Ops, FailExpired(o) PROVE TypeOK'
      BY Zenon, <1>1, <2>3 DEF FailExpired, TypeOK
    <2> QED BY Zenon, <2>1, <2>2, <2>3
  <1>5. Unexpired' \subseteq Unexpired
    <2>1. \A o \in Queued : limit[o] \in Nat
      <3>1. Queued \subseteq Ops
        BY <1>1 DEF TypeOK, Queued
      <3> QED BY Zenon, <1>1, <3>1, DeadlinesType
    <2> QED BY <1>2, <1>3, <2>1 DEF Unexpired
  <1>6. UnexpiredBounded'
    BY Zenon, <1>1, <1>5, BoundKept
  <1>7. InOnePlace'
    <2>1. CASE UNCHANGED <<state, expired>>
      BY Zenon, <1>1, <1>2, <1>4, <2>1 DEF InOnePlace
    <2>2. CASE \E o \in Ops : FailExpired(o)
      <3>1. PICK o \in Ops : FailExpired(o)
        BY Zenon, <2>2
      <3>2. /\ state' = [state EXCEPT ![o] = "failed"] /\ expired' = expired \ {o}
            /\ state[o] = "expired"
        BY Zenon, <1>1, <3>1 DEF FailExpired, InOnePlace
      <3> QED BY Zenon, <1>1, <1>2, <1>4, <3>2 DEF InOnePlace, TypeOK
    <2> QED BY Zenon, <2>1, <2>2 DEF Tick, Shutdown, ExtendDeadline, vars
  <1> QED BY Zenon, <1>1, <1>2, <1>4, <1>6, <1>7 DEF QueueInv, PipeMatchesQueue

\* QueueInv is inductive.
LEMMA NextInv == QueueInv /\ [Next]_vars => QueueInv'
  <1> SUFFICES ASSUME QueueInv, [Next]_vars PROVE QueueInv'
    OBVIOUS
  <1>1. CASE Tick \/ Shutdown \/ UNCHANGED vars
    BY Zenon, <1>1, OtherInv
  <1>2. ASSUME NEW o \in Ops, ExtendDeadline(o) \/ FailExpired(o) PROVE QueueInv'
    BY Zenon, <1>2, OtherInv
  <1>3. ASSUME NEW o \in Ops, Produce(o) PROVE QueueInv'
    BY Zenon, <1>3, ProduceInv
  <1>4. ASSUME NEW o \in Ops, Wake(o) PROVE QueueInv'
    BY Zenon, <1>4, WakeInv
  <1>5. CASE TryConsume \/ Consume
    BY Zenon, <1>5, TryConsumeInv DEF Consume
  <1>6. CASE Expire
    BY Zenon, <1>6, ExpireInv
  <1> QED BY Zenon, <1>1, <1>2, <1>3, <1>4, <1>5, <1>6 DEF Next

\* For every set of operations and every limit, one byte is in the pipe for each queued
\* operation: poll wakes a worker exactly while there is something to take.
THEOREM PipeAlwaysMatches == Spec => []PipeMatchesQueue
  <1>1. QueueInv => PipeMatchesQueue
    BY Zenon DEF QueueInv
  <1> QED BY <1>1, InitInv, NextInv, PTL DEF Spec

\* No operation is queued twice, both taken and expired, or lost between the places:
\* Produce, TryConsume and Expire hand each one on exactly once.
THEOREM OpsInOnePlace == Spec => []InOnePlace
  <1>1. QueueInv => InOnePlace
    BY Zenon DEF QueueInv
  <1> QED BY <1>1, InitInv, NextInv, PTL DEF Spec

\* m_max_pending_ops bounds the operations whose deadline lies ahead.
THEOREM LimitKept == Spec => []UnexpiredBounded
  <1>1. QueueInv => UnexpiredBounded
    BY Zenon DEF QueueInv
  <1> QED BY <1>1, InitInv, NextInv, PTL DEF Spec
=============================================================================
