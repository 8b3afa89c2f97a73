------------------------ MODULE SchedulerQueueProofs ------------------------
(***************************************************************************)
(* For every set of operations and workers and every configuration: no     *)
(* operation waits, in the scheduler or in the queue, without a byte in    *)
(* the pipe or a producer about to write one.                              *)
(***************************************************************************)
EXTENDS SchedulerQueue, BasicLemmas

\* Producers between Admit and the write of their byte.
Writing == {o \in Ops : prod[o] = "notifies"}

\* Workers between the dispatch of an operation and the read of its byte.
Draining == {w \in Workers : at[w] = "drains"}

\* What workers removed from the scheduler and have not read the bytes of.
Undrained == {p \in Workers \X Ops : p[2] \in removed[p[1]]}

\* WorkVisible is not inductive: a byte may be read only because the operation it
\* stood for has left.  So the reads that are due count as well.
WorkCounted ==
    Cardinality(scheduled) + Len(fifo) + Cardinality(Draining) + Cardinality(Undrained)
        <= pipe + Cardinality(Writing)

WorkInv ==
    /\ TypeOK
    /\ \A w \in Workers : at[w] # "drainsExpired" => removed[w] = {}
    /\ factory = "new" => \A w \in Workers : at[w] = "none"
    /\ WorkCounted

-----------------------------------------------------------------------------
(* The type invariant. *)

\* Setting the place of a worker keeps the type of at.
LEMMA GotoType ==
    ASSUME TypeOK, NEW w \in Workers,
           NEW where \in {"none", "run", "inside", "drains", "maintains", "expires",
                         "drainsExpired", "polls", "ended"},
           Goto(w, where)
    PROVE  at' \in [Workers -> {"none", "run", "inside", "drains", "maintains", "expires",
                                "drainsExpired", "polls", "ended"}]
  BY Zenon DEF TypeOK, Goto

\* The steps of producers keep the types.
LEMMA ProducerType ==
    ASSUME TypeOK, NEW o \in Ops, Produce(o) \/ Admit(o) \/ Notify(o)
    PROVE  TypeOK'
  <1>1. CASE Produce(o)
    <2>1. /\ prod' \in [Ops -> {"new", "admits", "notifies", "done"}]
          /\ fifo' \in Seq(Ops) /\ pipe' \in Nat /\ scheduled' \subseteq Ops
      <3>1. CASE attached
        BY Zenon, <1>1, <3>1 DEF Produce, TypeOK, queueVars
      <3>2. CASE ~attached
        <4>1. /\ prod' = [prod EXCEPT ![o] = "done"] /\ fifo' = Append(fifo, o)
              /\ pipe' = pipe + 1 /\ scheduled' = scheduled
          BY Zenon, <1>1, <3>2 DEF Produce, NotifyPipe
        <4>2. fifo' \in Seq(Ops)
          BY Zenon, <4>1, AppendProperties DEF TypeOK
        <4> QED BY <4>1, <4>2 DEF TypeOK
      <3> QED BY Zenon, <3>1, <3>2
    <2>2. UNCHANGED <<configVars, workerVars, exitVars>>
      BY Zenon, <1>1 DEF Produce
    <2> QED BY Zenon, <2>1, <2>2 DEF TypeOK, configVars, workerVars, exitVars
  <1>2. CASE Admit(o)
    <2>1. /\ prod' \in [Ops -> {"new", "admits", "notifies", "done"}]
          /\ scheduled' \subseteq Ops
      BY Zenon, <1>2 DEF Admit, TypeOK
    <2>2. UNCHANGED <<configVars, fifo, pipe, workerVars, exitVars>>
      BY Zenon, <1>2 DEF Admit
    <2> QED BY Zenon, <2>1, <2>2 DEF TypeOK, configVars, workerVars, exitVars
  <1>3. CASE Notify(o)
    <2>1. prod' \in [Ops -> {"new", "admits", "notifies", "done"}] /\ pipe' \in Nat
      BY <1>3 DEF Notify, TypeOK, NotifyPipe
    <2>2. UNCHANGED <<configVars, scheduled, fifo, workerVars, exitVars>>
      BY Zenon, <1>3 DEF Notify
    <2> QED BY Zenon, <2>1, <2>2 DEF TypeOK, configVars, workerVars, exitVars
  <1> QED BY Zenon, <1>1, <1>2, <1>3

\* Reading bytes leaves a number of bytes, and at least what was there less what is read.
LEMMA DrainType ==
    ASSUME NEW n \in Nat, NEW k \in Nat
    PROVE  DrainPipe(n, k) \in Nat /\ DrainPipe(n, k) >= n - k
  BY DEF DrainPipe

\* The steps of workers keep the types.
LEMMA WorkerType ==
    ASSUME ConstantsOK, TypeOK, NEW w \in Workers, WorkerStep(w)
    PROVE  TypeOK'
  <1> USE DEF TypeOK
  <1>1. CASE Ask(w)
    <2>1. UNCHANGED <<configVars, queueVars, prod, holds, removed, exitVars>>
      BY Zenon, <1>1 DEF Ask
    <2>2. Goto(w, "inside") \/ Goto(w, "maintains")
      BY Zenon, <1>1 DEF Ask
    <2> QED BY <2>1, <2>2, GotoType DEF configVars, queueVars, exitVars
  <1>2. CASE TakeQueued(w)
    <2>1. UNCHANGED <<configVars, scheduled, prod, at, removed, exitVars>>
      BY Zenon, <1>2 DEF TakeQueued
    <2>2. fifo # << >> /\ fifo' = Tail(fifo) /\ pipe' = DrainPipe(pipe, 1) /\ Run(w, Head(fifo))
      BY Zenon, <1>2 DEF TakeQueued
    <2>3. Head(fifo) \in Ops /\ fifo' \in Seq(Ops)
      BY Zenon, <2>2, HeadTailProperties
    <2>4. pipe' \in Nat
      BY Zenon, <2>2, DrainType
    <2>5. holds' \in [Workers -> SUBSET Ops]
      BY Zenon, <2>2, <2>3 DEF Run
    <2> QED BY Zenon, <2>1, <2>3, <2>4, <2>5 DEF configVars, exitVars
  <1>3. CASE Dispatch(w)
    <2>1. UNCHANGED <<configVars, fifo, pipe, prod, removed, exitVars>>
      BY Zenon, <1>3 DEF Dispatch
    <2>2. Goto(w, "maintains") \/ Goto(w, "drains")
      BY Zenon, <1>3 DEF Dispatch
    <2>3. scheduled' \subseteq Ops /\ holds' \in [Workers -> SUBSET Ops]
      BY <1>3 DEF Dispatch, Run
    <2> QED BY <2>1, <2>2, <2>3, GotoType DEF configVars, exitVars
  <1>4. CASE Drain(w)
    <2>1. UNCHANGED <<configVars, scheduled, fifo, prod, holds, removed, exitVars>>
      BY Zenon, <1>4 DEF Drain
    <2>2. pipe' \in Nat /\ Goto(w, "run")
      BY Zenon, <1>4, DrainType DEF Drain
    <2> QED BY Zenon, <2>1, <2>2, GotoType DEF configVars, exitVars
  <1>5. CASE Maintain(w)
    <2>1. UNCHANGED <<configVars, scheduled, prod, holds, removed, exitVars>>
      BY Zenon, <1>5 DEF Maintain
    <2>2. Goto(w, "polls") \/ Goto(w, "expires")
      BY Zenon, <1>5 DEF Maintain
    <2>3. fifo' \in Seq(Ops) /\ pipe' \in Nat
      <3>1. CASE UNCHANGED <<fifo, pipe>>
        BY Zenon, <3>1
      <3>2. ASSUME NEW overdue \in SUBSET {fifo[i] : i \in DOMAIN fifo},
                   fifo' = Kept(fifo, Ops \ overdue),
                   pipe' = DrainPipe(pipe, Cardinality(overdue))
            PROVE  fifo' \in Seq(Ops) /\ pipe' \in Nat
        <4>1. fifo' \in Seq(Ops)
          BY Zenon, <3>2, KeptProperties
        <4>2. IsFiniteSet(overdue)
          <5>1. IsFiniteSet(Range(fifo))
            BY Zenon, RangeBound
          <5>2. overdue \in SUBSET Range(fifo)
            BY Zenon DEF Range
          <5> QED BY Zenon, <5>1, <5>2, FS_Subset
        <4>3. Cardinality(overdue) \in Nat
          BY Zenon, <4>2, FS_CardinalityType
        <4> QED BY Zenon, <3>2, <4>1, <4>3, DrainType
      <3> QED BY Zenon, <1>5, <3>1, <3>2 DEF Maintain
    <2> QED BY <2>1, <2>2, <2>3, GotoType DEF configVars, exitVars
  <1>6. CASE ExpireScheduled(w)
    <2>1. UNCHANGED <<configVars, fifo, pipe, prod, holds, exitVars>>
      BY Zenon, <1>6 DEF ExpireScheduled
    <2>2. Goto(w, "polls") \/ Goto(w, "drainsExpired")
      BY Zenon, <1>6 DEF ExpireScheduled
    <2>3. scheduled' \subseteq Ops /\ removed' \in [Workers -> SUBSET Ops]
      BY Zenon, <1>6 DEF ExpireScheduled
    <2> QED BY <2>1, <2>2, <2>3, GotoType DEF configVars, exitVars
  <1>7. CASE DrainExpired(w)
    <2>1. UNCHANGED <<configVars, scheduled, fifo, prod, holds, exitVars>>
      BY Zenon, <1>7 DEF DrainExpired
    <2>2. Goto(w, "polls") /\ pipe' = DrainPipe(pipe, Cardinality(removed[w]))
      BY Zenon, <1>7 DEF DrainExpired
    <2>3. removed' \in [Workers -> SUBSET Ops]
      BY Zenon, <1>7 DEF DrainExpired
    <2>4. Cardinality(removed[w]) \in Nat
      BY Zenon, FS_Subset, FS_CardinalityType DEF ConstantsOK
    <2>5. pipe' \in Nat
      BY Zenon, <2>2, <2>4, DrainType
    <2> QED BY Zenon, <2>1, <2>2, <2>3, <2>5, GotoType DEF configVars, exitVars
  <1>8. CASE Poll(w)
    <2>1. UNCHANGED <<configVars, queueVars, prod, removed, exitVars>>
      BY Zenon, <1>8 DEF Poll
    <2>2. Goto(w, "ended") \/ Goto(w, "run")
      BY Zenon, <1>8 DEF Poll
    <2>3. holds' \in [Workers -> SUBSET Ops]
      BY Zenon, <1>8 DEF Poll
    <2> QED BY <2>1, <2>2, <2>3, GotoType DEF configVars, queueVars, exitVars
  <1> QED BY Zenon, <1>1, <1>2, <1>3, <1>4, <1>5, <1>6, <1>7, <1>8 DEF WorkerStep

\* The steps of the start and of the end keep the types.
LEMMA LifeType ==
    ASSUME ConstantsOK, TypeOK,
           \/ Initialize \/ Monitor \/ RequestShutdown \/ Detach \/ ShutdownScheduler
           \/ JoinMonitor \/ ShutdownDone \/ \E w \in Workers : ShutdownWorker(w)
           \/ UNCHANGED vars
    PROVE  TypeOK'
  <1>1. CASE Initialize
    <2>1. UNCHANGED <<queueVars, prod, holds, removed, closed, queueDown, stop, pool>>
      BY Zenon, <1>1 DEF Initialize
    <2>2. maxOps' \in Nat /\ buffer' \in Nat /\ attached' \in BOOLEAN
      <3>1. PICK v \in OpsSettings : maxOps' = Accepted(v)
        BY Zenon, <1>1 DEF Initialize, Configure
      <3>2. PICK b \in Buffers : buffer' = b /\ attached' = (b > 0)
        BY Zenon, <1>1 DEF Initialize, Configure
      <3>3. v \in Int /\ b \in Nat /\ DefaultMaxOps \in Nat
        BY Zenon DEF ConstantsOK
      <3>4. maxOps' \in Nat
        BY <3>1, <3>3 DEF Accepted
      <3> QED BY <3>2, <3>3, <3>4
    <2>3. at' = [w \in Workers |-> "run"] /\ monitor' = "waits" /\ factory' = "up"
      BY Zenon, <1>1 DEF Initialize
    <2> QED BY Zenon, <2>1, <2>2, <2>3 DEF TypeOK, queueVars
  <1>2. CASE ~Initialize
    <2>1. UNCHANGED <<configVars, queueVars, prod, workerVars>>
      BY Zenon, <1>2 DEF Monitor, RequestShutdown, Detach, ShutdownScheduler, JoinMonitor,
                  ShutdownDone, ShutdownWorker, vars, configVars, queueVars, workerVars
    <2>2. /\ attached' \in BOOLEAN /\ closed' \in BOOLEAN /\ queueDown' \in BOOLEAN
          /\ stop' \subseteq Workers /\ monitor' \in {"none", "waits", "ended"}
          /\ factory' \in {"new", "up", "requested", "detached", "closed", "returned"}
          /\ pool' \in {"up", "stopping", "stopped"}
      <3>1. CASE Detach
        BY Zenon, <3>1 DEF Detach, TypeOK
      <3>2. CASE ShutdownScheduler
        <4>1. closed' \in BOOLEAN
          BY <3>2 DEF ShutdownScheduler
        <4> QED BY Zenon, <3>2, <4>1 DEF ShutdownScheduler, TypeOK
      <3>3. CASE Monitor \/ RequestShutdown \/ JoinMonitor \/ ShutdownDone
        BY Zenon, <3>3 DEF Monitor, RequestShutdown, JoinMonitor, ShutdownDone, TypeOK
      <3>4. ASSUME NEW w \in Workers, ShutdownWorker(w)
            PROVE  /\ attached' \in BOOLEAN /\ closed' \in BOOLEAN /\ queueDown' \in BOOLEAN
                   /\ stop' \subseteq Workers /\ monitor' = monitor /\ factory' = factory
                   /\ pool' = "stopping"
        BY Zenon, <3>4 DEF ShutdownWorker, TypeOK
      <3>5. CASE UNCHANGED vars
        BY Zenon, <3>5 DEF vars, exitVars, TypeOK
      <3> QED BY Zenon, <1>2, <3>1, <3>2, <3>3, <3>4, <3>5 DEF TypeOK
    <2> QED BY Zenon, <2>1, <2>2 DEF TypeOK, configVars, queueVars, workerVars
  <1> QED BY Zenon, <1>1, <1>2

-----------------------------------------------------------------------------
(* The count. *)

\* What the count adds up are natural numbers, before and after a step.
LEMMA CountsType ==
    ASSUME ConstantsOK, TypeOK, TypeOK'
    PROVE  /\ Cardinality(scheduled) \in Nat /\ Cardinality(scheduled') \in Nat
           /\ Len(fifo) \in Nat /\ Len(fifo') \in Nat /\ pipe \in Nat /\ pipe' \in Nat
           /\ Cardinality(Draining) \in Nat /\ Cardinality(Draining') \in Nat
           /\ Cardinality(Undrained) \in Nat /\ Cardinality(Undrained') \in Nat
           /\ Cardinality(Writing) \in Nat /\ Cardinality(Writing') \in Nat
           /\ IsFiniteSet(scheduled) /\ IsFiniteSet(Draining) /\ IsFiniteSet(Undrained)
           /\ IsFiniteSet(Writing) /\ IsFiniteSet(Writing') /\ IsFiniteSet(Undrained')
  <1>1. IsFiniteSet(Ops) /\ IsFiniteSet(Workers) /\ IsFiniteSet(Workers \X Ops)
    BY Zenon, FS_Product DEF ConstantsOK
  <1>2. /\ scheduled \in SUBSET Ops /\ scheduled' \in SUBSET Ops
        /\ Writing \in SUBSET Ops /\ Writing' \in SUBSET Ops
        /\ Draining \in SUBSET Workers /\ Draining' \in SUBSET Workers
    BY Zenon DEF TypeOK, Writing, Draining
  <1>3. Undrained \in SUBSET (Workers \X Ops) /\ Undrained' \in SUBSET (Workers \X Ops)
    BY Zenon DEF Undrained
  <1>4. \A S \in SUBSET Ops : IsFiniteSet(S) /\ Cardinality(S) \in Nat
    BY Zenon, <1>1, FS_Subset, FS_CardinalityType
  <1>5. \A S \in SUBSET Workers : IsFiniteSet(S) /\ Cardinality(S) \in Nat
    BY Zenon, <1>1, FS_Subset, FS_CardinalityType
  <1>6. \A S \in SUBSET (Workers \X Ops) : IsFiniteSet(S) /\ Cardinality(S) \in Nat
    BY Zenon, <1>1, FS_Subset, FS_CardinalityType
  <1>7. Len(fifo) \in Nat /\ Len(fifo') \in Nat /\ pipe \in Nat /\ pipe' \in Nat
    BY Zenon, LenProperties DEF TypeOK
  <1> QED BY Zenon, <1>2, <1>3, <1>4, <1>5, <1>6, <1>7

\* A step that leaves the queues, the producers and what is removed alone, and lets no
\* worker drain, keeps the count.
LEMMA QuietStep ==
    ASSUME ConstantsOK, WorkInv, TypeOK', UNCHANGED <<scheduled, fifo, pipe, prod, removed>>,
           Draining' \subseteq Draining
    PROVE  WorkCounted'
  <1>1. TypeOK /\ WorkCounted /\ Undrained' = Undrained /\ Writing' = Writing
    BY Zenon DEF WorkInv, Undrained, Writing
  <1>2. Cardinality(Draining') <= Cardinality(Draining)
    BY Zenon, <1>1, CountsType, FS_Subset
  <1> QED BY <1>1, <1>2, CountsType DEF WorkCounted

\* The count before and after a step, as numbers.
Numbers(a, a2, b, b2, c, c2, d, d2, n, n2, p, p2) ==
    /\ Cardinality(scheduled) = a /\ Cardinality(scheduled') = a2
    /\ Len(fifo) = b /\ Len(fifo') = b2
    /\ Cardinality(Draining) = c /\ Cardinality(Draining') = c2
    /\ Cardinality(Undrained) = d /\ Cardinality(Undrained') = d2
    /\ Cardinality(Writing) = n /\ Cardinality(Writing') = n2
    /\ pipe = p /\ pipe' = p2

\* The invariant, and what is left to show, in terms of them.
LEMMA CountAsNumbers ==
    ASSUME ConstantsOK, WorkInv, TypeOK'
    PROVE  \E a, a2, b, b2, c, c2, d, d2, n, n2, p, p2 \in Nat :
              /\ Numbers(a, a2, b, b2, c, c2, d, d2, n, n2, p, p2)
              /\ a + b + c + d <= p + n
              /\ a2 + b2 + c2 + d2 <= p2 + n2 => WorkCounted'
  <1>1. TypeOK /\ WorkCounted
    BY Zenon DEF WorkInv
  <1>2. /\ Cardinality(scheduled) \in Nat /\ Cardinality(scheduled') \in Nat
        /\ Len(fifo) \in Nat /\ Len(fifo') \in Nat /\ pipe \in Nat /\ pipe' \in Nat
        /\ Cardinality(Draining) \in Nat /\ Cardinality(Draining') \in Nat
        /\ Cardinality(Undrained) \in Nat /\ Cardinality(Undrained') \in Nat
        /\ Cardinality(Writing) \in Nat /\ Cardinality(Writing') \in Nat
    BY Zenon, <1>1, CountsType
  <1> USE <1>2
  <1> WITNESS Cardinality(scheduled) \in Nat, Cardinality(scheduled') \in Nat,
              Len(fifo) \in Nat, Len(fifo') \in Nat,
              Cardinality(Draining) \in Nat, Cardinality(Draining') \in Nat,
              Cardinality(Undrained) \in Nat, Cardinality(Undrained') \in Nat,
              Cardinality(Writing) \in Nat, Cardinality(Writing') \in Nat,
              pipe \in Nat, pipe' \in Nat
  <1> QED BY Zenon, <1>1 DEF Numbers, WorkCounted

\* The producers keep the count: an operation joins m_ops with its byte, and the
\* scheduler with the promise of its byte.
LEMMA ProducerCount ==
    ASSUME ConstantsOK, WorkInv, TypeOK', NEW o \in Ops, Produce(o) \/ Admit(o) \/ Notify(o)
    PROVE  WorkCounted'
  <1>1. TypeOK /\ WorkCounted /\ UNCHANGED <<at, removed>>
    BY Zenon DEF WorkInv, Produce, Admit, Notify, workerVars
  <1>2. Draining' = Draining /\ Undrained' = Undrained
    BY Zenon, <1>1 DEF Draining, Undrained
  <1>3. CASE Produce(o)
    <2>1. Writing' = Writing /\ UNCHANGED scheduled
      BY Zenon, <1>1, <1>3 DEF Produce, Writing, TypeOK, queueVars
    <2>2. Len(fifo') + pipe = Len(fifo) + pipe'
      <3>1. CASE attached
        BY Zenon, <1>3, <3>1 DEF Produce, queueVars
      <3>2. CASE ~attached
        <4>1. fifo' = Append(fifo, o) /\ pipe' = pipe + 1
          BY Zenon, <1>3, <3>2 DEF Produce, NotifyPipe
        <4>2. Len(fifo') = Len(fifo) + 1
          BY <1>1, <4>1, AppendProperties DEF TypeOK
        <4> QED BY SMTT(20), <1>1, <4>1, <4>2, CountsType
      <3> QED BY Zenon, <3>1, <3>2
    <2> QED BY SMTT(20), <1>1, <1>2, <2>1, <2>2, CountsType DEF WorkCounted
  <1>4. CASE Admit(o)
    <2>1. UNCHANGED <<fifo, pipe>> /\ prod[o] = "admits"
      BY Zenon, <1>4 DEF Admit
    <2>2. CASE closed \/ Cardinality(scheduled) >= buffer
      <3>1. UNCHANGED scheduled /\ Writing' = Writing
        BY Zenon, <1>1, <1>4, <2>1, <2>2 DEF Admit, Writing, TypeOK
      <3> QED BY Zenon, <1>1, <1>2, <2>1, <3>1, CountsType DEF WorkCounted
    <2>3. CASE ~(closed \/ Cardinality(scheduled) >= buffer)
      <3>1. /\ scheduled' = scheduled \cup {o}
            /\ Writing' = Writing \cup {o} /\ o \notin Writing
        BY <1>1, <1>4, <2>1, <2>3 DEF Admit, Writing, TypeOK
      <3>2. Cardinality(Writing') = Cardinality(Writing) + 1
        BY Zenon, <1>1, <3>1, CountsType, FS_AddElement
      <3>3. Cardinality(scheduled') <= Cardinality(scheduled) + 1
        <4>1. IsFiniteSet(scheduled) /\ Cardinality(scheduled) \in Nat
          BY Zenon, <1>1, CountsType
        <4>2. Cardinality(scheduled') = IF o \in scheduled THEN Cardinality(scheduled)
                                        ELSE Cardinality(scheduled) + 1
          BY Zenon, <3>1, <4>1, FS_AddElement
        <4> QED BY <4>1, <4>2
      <3>4. /\ Cardinality(Draining') = Cardinality(Draining)
            /\ Cardinality(Undrained') = Cardinality(Undrained)
        BY Zenon, <1>2
      <3>5. PICK a, a2, b, b2, c, c2, d, d2, n, n2, p, p2 \in Nat :
               /\ Numbers(a, a2, b, b2, c, c2, d, d2, n, n2, p, p2)
               /\ a + b + c + d <= p + n
               /\ a2 + b2 + c2 + d2 <= p2 + n2 => WorkCounted'
        BY Zenon, CountAsNumbers
      <3>6. a2 <= a + 1 /\ b2 = b /\ c2 = c /\ d2 = d /\ n2 = n + 1 /\ p2 = p
        BY Zenon, <2>1, <3>2, <3>3, <3>4, <3>5 DEF Numbers
      <3> QED BY <3>5, <3>6
    <2> QED BY Zenon, <2>2, <2>3
  <1>5. CASE Notify(o)
    <2>1. UNCHANGED <<scheduled, fifo>> /\ pipe' = pipe + 1
      BY Zenon, <1>5 DEF Notify, NotifyPipe
    <2>2. Writing' = Writing \ {o} /\ o \in Writing
      BY Zenon, <1>1, <1>5 DEF Notify, Writing, TypeOK
    <2>3. Cardinality(Writing') = Cardinality(Writing) - 1
      BY Zenon, <1>1, <2>2, CountsType, FS_RemoveElement
    <2> QED BY <1>1, <1>2, <2>1, <2>3, CountsType DEF WorkCounted
  <1> QED BY Zenon, <1>3, <1>4, <1>5

\* Workers that take from m_ops, or fail what is overdue there, keep it.
LEMMA QueuedCount ==
    ASSUME ConstantsOK, WorkInv, TypeOK', NEW w \in Workers, TakeQueued(w) \/ Maintain(w)
    PROVE  WorkCounted'
  <1>1. TypeOK /\ WorkCounted /\ UNCHANGED <<scheduled, prod, removed>>
    BY Zenon DEF WorkInv, TakeQueued, Maintain
  <1>2. Writing' = Writing /\ Undrained' = Undrained /\ fifo \in Seq(Ops)
    BY Zenon, <1>1 DEF Writing, Undrained, TypeOK
  <1>3. CASE TakeQueued(w)
    <2>1. /\ fifo # << >> /\ fifo' = Tail(fifo) /\ pipe' = DrainPipe(pipe, 1)
          /\ Draining' = Draining
      BY Zenon, <1>3 DEF TakeQueued, Draining
    <2>2. Len(fifo') = Len(fifo) - 1
      BY Zenon, <1>2, <2>1, HeadTailProperties
    <2>3. pipe' >= pipe - 1
      BY Zenon, <1>1, <2>1, DrainType DEF TypeOK
    <2> QED BY SMTT(20), <1>1, <1>2, <2>1, <2>2, <2>3, CountsType DEF WorkCounted
  <1>4. CASE Maintain(w)
    <2>1. Draining' \subseteq Draining
      BY Zenon, <1>1, <1>4 DEF Maintain, Goto, Draining, TypeOK
    <2>2. CASE UNCHANGED <<fifo, pipe>>
      BY Zenon, <1>1, <2>1, <2>2, QuietStep
    <2>3. ASSUME NEW overdue \in SUBSET {fifo[i] : i \in DOMAIN fifo},
                 fifo' = Kept(fifo, Ops \ overdue),
                 pipe' = DrainPipe(pipe, Cardinality(overdue))
          PROVE  WorkCounted'
      <3>1. Range(fifo) \ (Ops \ overdue) = overdue
        <4>1. Range(fifo) \subseteq Ops /\ overdue \subseteq Range(fifo)
          BY Zenon, <1>2, RangeOfSeq DEF Range
        <4> QED BY Zenon, <4>1
      <3>2. IsFiniteSet(overdue) /\ Len(fifo') + Cardinality(overdue) <= Len(fifo)
        <4> DEFINE S == Ops \ overdue
        <4>1. IsFiniteSet(Range(fifo) \ S) /\ Len(fifo') + Cardinality(Range(fifo) \ S) <= Len(fifo)
          <5> HIDE DEF S
          <5>1. fifo' = Kept(fifo, S)
            BY Zenon, <2>3 DEF S
          <5> QED BY Zenon, <1>2, <5>1, KeptProperties
        <4> QED BY ZenonT(20), <3>1, <4>1
      <3>3. Cardinality(overdue) \in Nat
        BY Zenon, <3>2, FS_CardinalityType
      <3>4. pipe' >= pipe - Cardinality(overdue)
        BY Zenon, <1>1, <2>3, <3>3, DrainType DEF TypeOK
      <3>5. Cardinality(Draining') <= Cardinality(Draining)
        BY Zenon, <1>1, <2>1, CountsType, FS_Subset
      <3>6. /\ Cardinality(Writing') = Cardinality(Writing)
            /\ Cardinality(Undrained') = Cardinality(Undrained)
            /\ Cardinality(scheduled') = Cardinality(scheduled)
        BY Zenon, <1>1, <1>2
      <3>7. PICK a, a2, b, b2, c, c2, d, d2, n, n2, p, p2 \in Nat :
               /\ Numbers(a, a2, b, b2, c, c2, d, d2, n, n2, p, p2)
               /\ a + b + c + d <= p + n
               /\ a2 + b2 + c2 + d2 <= p2 + n2 => WorkCounted'
        BY Zenon, CountAsNumbers
      <3>8. PICK k \in Nat : k = Cardinality(overdue)
        BY Zenon, <3>3
      <3>9. a2 = a /\ b2 + k <= b /\ c2 <= c /\ d2 = d /\ n2 = n /\ p2 >= p - k
        BY Zenon, <3>2, <3>4, <3>5, <3>6, <3>7, <3>8 DEF Numbers
      <3> QED BY <3>7, <3>9
    <2> QED BY Zenon, <1>4, <2>2, <2>3 DEF Maintain
  <1> QED BY Zenon, <1>3, <1>4

\* What a worker removed, as pairs.
LEMMA OwnRemoved ==
    ASSUME NEW w \in Workers, NEW S \in SUBSET Ops, IsFiniteSet(S)
    PROVE  IsFiniteSet({w} \X S) /\ Cardinality({w} \X S) = Cardinality(S)
  <1>1. IsFiniteSet({w}) /\ Cardinality({w}) = 1
    BY ZenonT(20), FS_Singleton
  <1>2. IsFiniteSet({w} \X S) /\ Cardinality({w} \X S) = 1 * Cardinality(S)
    BY Zenon, <1>1, FS_Product
  <1>3. Cardinality(S) \in Nat
    BY Zenon, FS_CardinalityType
  <1> QED BY <1>2, <1>3

\* Workers that take from the scheduler, and read the bytes afterwards, keep it.
LEMMA ScheduledCount ==
    ASSUME ConstantsOK, WorkInv, TypeOK', NEW w \in Workers,
           Dispatch(w) \/ Drain(w) \/ ExpireScheduled(w) \/ DrainExpired(w)
    PROVE  WorkCounted'
  <1>1. TypeOK /\ WorkCounted /\ UNCHANGED <<prod, fifo>>
    BY Zenon DEF WorkInv, Dispatch, Drain, ExpireScheduled, DrainExpired
  <1>2. Writing' = Writing
    BY Zenon, <1>1 DEF Writing
  <1>3. CASE Dispatch(w)
    <2>1. UNCHANGED <<pipe, removed>> /\ at[w] = "inside" /\ Undrained' = Undrained
      BY Zenon, <1>3 DEF Dispatch, Undrained
    <2>2. CASE Goto(w, "maintains") /\ UNCHANGED <<scheduled, holds>>
      <3>1. Draining' \subseteq Draining
        BY Zenon, <1>1, <2>2 DEF Goto, Draining, TypeOK
      <3> QED BY Zenon, <1>1, <2>1, <2>2, <3>1, QuietStep
    <2>3. ASSUME NEW o \in scheduled, scheduled' = scheduled \ {o}, Goto(w, "drains")
          PROVE  WorkCounted'
      <3>1. Draining' = Draining \cup {w}
        BY Zenon, <1>1, <2>1, <2>3 DEF Goto, Draining, TypeOK
      <3>2. w \notin Draining
        BY Zenon, <2>1 DEF Draining
      <3>3. Cardinality(Draining') = Cardinality(Draining) + 1
        BY Zenon, <1>1, <3>1, <3>2, CountsType, FS_AddElement
      <3>4. Cardinality(scheduled') = Cardinality(scheduled) - 1
        BY Zenon, <1>1, <2>3, CountsType, FS_RemoveElement
      <3> QED BY SMTT(20), <1>1, <1>2, <2>1, <3>3, <3>4, CountsType DEF WorkCounted
    <2> QED BY Zenon, <1>3, <2>2, <2>3 DEF Dispatch
  <1>4. CASE Drain(w)
    <2>1. /\ UNCHANGED <<scheduled, removed>> /\ at[w] = "drains" /\ Undrained' = Undrained
          /\ pipe' = DrainPipe(pipe, 1)
      BY Zenon, <1>4 DEF Drain, Undrained
    <2>2. Draining' = Draining \ {w} /\ w \in Draining
      BY Zenon, <1>1, <1>4 DEF Drain, Goto, Draining, TypeOK
    <2>3. Cardinality(Draining') = Cardinality(Draining) - 1
      BY Zenon, <1>1, <2>2, CountsType, FS_RemoveElement
    <2>4. pipe' >= pipe - 1
      BY Zenon, <1>1, <2>1, DrainType DEF TypeOK
    <2>5. /\ Cardinality(Writing') = Cardinality(Writing)
          /\ Cardinality(Undrained') = Cardinality(Undrained)
          /\ Cardinality(scheduled') = Cardinality(scheduled) /\ Len(fifo') = Len(fifo)
      BY Zenon, <1>1, <1>2, <2>1
    <2>6. PICK a, a2, b, b2, c, c2, d, d2, n, n2, p, p2 \in Nat :
             /\ Numbers(a, a2, b, b2, c, c2, d, d2, n, n2, p, p2)
             /\ a + b + c + d <= p + n
             /\ a2 + b2 + c2 + d2 <= p2 + n2 => WorkCounted'
      BY Zenon, CountAsNumbers
    <2>7. a2 = a /\ b2 = b /\ c2 = c - 1 /\ d2 = d /\ n2 = n /\ p2 >= p - 1
      BY Zenon, <2>3, <2>4, <2>5, <2>6 DEF Numbers
    <2> QED BY <2>6, <2>7
  <1>5. CASE ExpireScheduled(w)
    <2>1. PICK overdue \in SUBSET scheduled :
             /\ scheduled' = scheduled \ overdue
             /\ removed' = [removed EXCEPT ![w] = overdue]
             /\ Goto(w, IF overdue = {} THEN "polls" ELSE "drainsExpired")
      BY ZenonT(20), <1>5 DEF ExpireScheduled
    <2>2. UNCHANGED pipe /\ at[w] = "expires" /\ removed[w] = {}
      BY Zenon, <1>5 DEF ExpireScheduled, WorkInv
    <2>3. Draining' \subseteq Draining
      BY Zenon, <1>1, <2>1 DEF Goto, Draining, TypeOK
    <2>4. Cardinality(Draining') <= Cardinality(Draining)
      BY Zenon, <1>1, <2>3, CountsType, FS_Subset
    <2>5. overdue \in SUBSET Ops /\ IsFiniteSet(overdue)
      BY Zenon, <1>1, CountsType, FS_Subset DEF TypeOK
    <2>6. Cardinality(scheduled') = Cardinality(scheduled) - Cardinality(overdue)
      <3>1. scheduled \cap overdue = overdue
        OBVIOUS
      <3>2. IsFiniteSet(scheduled)
        BY Zenon, <1>1, CountsType
      <3>3. Cardinality(scheduled \ overdue)
               = Cardinality(scheduled) - Cardinality(scheduled \cap overdue)
        BY Zenon, <3>2, FS_Difference
      <3> QED BY Zenon, <2>1, <3>1, <3>3
    <2>7. Cardinality(Undrained') = Cardinality(Undrained) + Cardinality(overdue)
      <3> DEFINE own == {w} \X overdue
      <3>1. Undrained' = Undrained \cup own /\ Undrained \cap own = {}
        BY <1>1, <2>1, <2>2, <2>5 DEF Undrained, TypeOK
      <3>2. IsFiniteSet(own) /\ Cardinality(own) = Cardinality(overdue)
        BY Zenon, <2>5, OwnRemoved
      <3>3. IsFiniteSet(Undrained) /\ Cardinality(Undrained) \in Nat
        BY Zenon, <1>1, CountsType
      <3> HIDE DEF own
      <3>4. Cardinality(Undrained \cup own)
               = Cardinality(Undrained) + Cardinality(own) - Cardinality(Undrained \cap own)
        BY Zenon, <3>2, <3>3, FS_Union
      <3>5. Cardinality(Undrained \cap own) = 0
        BY Zenon, <3>1, FS_EmptySet
      <3>6. Cardinality(own) \in Nat
        BY Zenon, <3>2, FS_CardinalityType
      <3> QED BY <3>1, <3>2, <3>3, <3>4, <3>5, <3>6
    <2>8. Cardinality(overdue) \in Nat
      BY Zenon, <2>5, FS_CardinalityType
    <2>9. Cardinality(Writing') = Cardinality(Writing) /\ Len(fifo') = Len(fifo)
      BY Zenon, <1>1, <1>2
    <2>10. PICK a, a2, b, b2, c, c2, d, d2, n, n2, p, p2 \in Nat :
             /\ Numbers(a, a2, b, b2, c, c2, d, d2, n, n2, p, p2)
             /\ a + b + c + d <= p + n
             /\ a2 + b2 + c2 + d2 <= p2 + n2 => WorkCounted'
      BY Zenon, CountAsNumbers
    <2>11. PICK k \in Nat : k = Cardinality(overdue)
      BY Zenon, <2>8
    <2>12. a2 = a - k /\ b2 = b /\ c2 <= c /\ d2 = d + k /\ n2 = n /\ p2 = p
      BY Zenon, <2>2, <2>4, <2>6, <2>7, <2>9, <2>10, <2>11 DEF Numbers
    <2> QED BY <2>10, <2>12
  <1>6. CASE DrainExpired(w)
    <2> DEFINE own == {w} \X removed[w]
    <2>1. /\ UNCHANGED scheduled /\ pipe' = DrainPipe(pipe, Cardinality(removed[w]))
          /\ removed' = [removed EXCEPT ![w] = {}] /\ Goto(w, "polls")
      BY Zenon, <1>6 DEF DrainExpired
    <2>2. Draining' \subseteq Draining
      BY Zenon, <1>1, <2>1 DEF Goto, Draining, TypeOK
    <2>3. Cardinality(Draining') <= Cardinality(Draining)
      BY Zenon, <1>1, <2>2, CountsType, FS_Subset
    <2>4. removed[w] \in SUBSET Ops /\ IsFiniteSet(removed[w])
      <3>1. removed[w] \in SUBSET Ops
        BY Zenon, <1>1 DEF TypeOK
      <3> QED BY Zenon, <3>1, FS_Subset DEF ConstantsOK
    <2>5. Undrained' = Undrained \ own /\ Undrained \cap own = own
      BY <1>1, <2>1, <2>4 DEF Undrained, TypeOK
    <2>6. IsFiniteSet(own) /\ Cardinality(own) = Cardinality(removed[w])
      BY Zenon, <2>4, OwnRemoved
    <2>7. Cardinality(Undrained') = Cardinality(Undrained) - Cardinality(removed[w])
      <3> HIDE DEF own
      <3>1. IsFiniteSet(Undrained)
        BY Zenon, <1>1, CountsType
      <3>2. Cardinality(Undrained \ own) = Cardinality(Undrained) - Cardinality(Undrained \cap own)
        BY Zenon, <3>1, FS_Difference
      <3> QED BY Zenon, <2>5, <2>6, <3>2
    <2>8. Cardinality(removed[w]) \in Nat
      BY Zenon, <2>4, FS_CardinalityType
    <2>9. pipe' >= pipe - Cardinality(removed[w])
      BY Zenon, <1>1, <2>1, <2>8, DrainType DEF TypeOK
    <2>10. /\ Cardinality(Writing') = Cardinality(Writing) /\ Len(fifo') = Len(fifo)
           /\ Cardinality(scheduled') = Cardinality(scheduled)
      BY Zenon, <1>1, <1>2, <2>1
    <2>11. PICK a, a2, b, b2, c, c2, d, d2, n, n2, p, p2 \in Nat :
             /\ Numbers(a, a2, b, b2, c, c2, d, d2, n, n2, p, p2)
             /\ a + b + c + d <= p + n
             /\ a2 + b2 + c2 + d2 <= p2 + n2 => WorkCounted'
      BY Zenon, CountAsNumbers
    <2>12. PICK k \in Nat : k = Cardinality(removed[w])
      BY Zenon, <2>8
    <2>13. a2 = a /\ b2 = b /\ c2 <= c /\ d2 = d - k /\ n2 = n /\ p2 >= p - k
      BY Zenon, <2>3, <2>7, <2>9, <2>10, <2>11, <2>12 DEF Numbers
    <2> QED BY <2>11, <2>13
  <1> QED BY Zenon, <1>3, <1>4, <1>5, <1>6

\* The start and the end of the plug-in keep it.
LEMMA LifeCount ==
    ASSUME ConstantsOK, WorkInv, TypeOK',
           \/ Initialize \/ Monitor \/ RequestShutdown \/ Detach \/ ShutdownScheduler
           \/ JoinMonitor \/ ShutdownDone \/ \E w \in Workers : ShutdownWorker(w)
           \/ UNCHANGED vars
    PROVE  WorkInv'
  <1>1. UNCHANGED <<scheduled, fifo, pipe, prod, removed>>
    BY Zenon DEF Initialize, Monitor, RequestShutdown, Detach, ShutdownScheduler, JoinMonitor,
           ShutdownDone, ShutdownWorker, vars, queueVars, workerVars
  <1>2. CASE Initialize
    <2>1. /\ at' = [w \in Workers |-> "run"] /\ factory = "new" /\ factory' = "up"
          /\ \A w \in Workers : removed[w] = {}
      BY Zenon, <1>2 DEF Initialize, WorkInv
    <2>2. Draining' \subseteq Draining
      BY Zenon, <2>1 DEF Draining
    <2>3. WorkCounted'
      BY Zenon, <1>1, <2>2, QuietStep
    <2> QED BY ZenonT(20), <1>1, <2>1, <2>3 DEF WorkInv
  <1>3. CASE ~Initialize
    <2>1. at' = at /\ (factory' = "new" => factory = "new")
      BY Zenon, <1>3 DEF Monitor, RequestShutdown, Detach, ShutdownScheduler, JoinMonitor,
                  ShutdownDone, ShutdownWorker, vars, workerVars, exitVars
    <2>2. Draining' \subseteq Draining
      BY Zenon, <2>1 DEF Draining
    <2>3. WorkCounted'
      BY Zenon, <1>1, <2>2, QuietStep
    <2> QED BY Zenon, <1>1, <2>1, <2>3 DEF WorkInv
  <1> QED BY Zenon, <1>2, <1>3

\* WorkInv is inductive.
LEMMA NextInv ==
    ASSUME ConstantsOK
    PROVE  WorkInv /\ [Next]_vars => WorkInv'
  <1> SUFFICES ASSUME WorkInv, [Next]_vars PROVE WorkInv'
    OBVIOUS
  <1>0. TypeOK
    BY Zenon DEF WorkInv
  <1>1. ASSUME NEW o \in Ops, Produce(o) \/ Admit(o) \/ Notify(o) PROVE WorkInv'
    <2>1. TypeOK'
      BY Zenon, <1>0, <1>1, ProducerType
    <2>2. WorkCounted'
      BY Zenon, <1>1, <2>1, ProducerCount
    <2>3. UNCHANGED <<at, removed, factory>>
      BY Zenon, <1>1 DEF Produce, Admit, Notify, workerVars, exitVars
    <2> QED BY Zenon, <2>1, <2>2, <2>3 DEF WorkInv
  <1>2. ASSUME NEW w \in Workers, WorkerStep(w) PROVE WorkInv'
    <2>1. TypeOK'
      BY Zenon, <1>0, <1>2, WorkerType
    <2>2. WorkCounted'
      <3>1. CASE Ask(w) \/ Poll(w)
        <4>1. UNCHANGED <<scheduled, fifo, pipe, prod, removed>>
          BY Zenon, <3>1 DEF Ask, Poll, queueVars
        <4>2. Draining' \subseteq Draining
          BY Zenon, <1>0, <3>1 DEF Ask, Poll, Goto, Draining, TypeOK
        <4> QED BY Zenon, <2>1, <4>1, <4>2, QuietStep
      <3> QED BY Zenon, <1>2, <2>1, <3>1, QueuedCount, ScheduledCount DEF WorkerStep
    <2>3. \A v \in Workers : at'[v] # "drainsExpired" => removed'[v] = {}
      <3>1. CASE ExpireScheduled(w)
        BY Zenon, <1>0, <3>1 DEF ExpireScheduled, Goto, TypeOK, WorkInv
      <3>2. CASE DrainExpired(w)
        BY Zenon, <1>0, <3>2 DEF DrainExpired, Goto, TypeOK, WorkInv
      <3>3. CASE Ask(w) \/ TakeQueued(w) \/ Dispatch(w) \/ Drain(w) \/ Maintain(w) \/ Poll(w)
        <4>1. removed' = removed /\ removed[w] = {}
          BY Zenon, <3>3 DEF Ask, TakeQueued, Dispatch, Drain, Maintain, Poll, WorkInv
        <4>2. \A v \in Workers \ {w} : at'[v] = at[v]
          <5>1. at' = at \/ \E where : Goto(w, where)
            BY Zenon, <3>3 DEF Ask, TakeQueued, Dispatch, Drain, Maintain, Poll
          <5> QED BY Zenon, <1>0, <5>1 DEF Goto, TypeOK
        <4> QED BY Zenon, <4>1, <4>2 DEF WorkInv
      <3> QED BY Zenon, <1>2, <3>1, <3>2, <3>3 DEF WorkerStep
    <2>4. factory' = factory /\ at[w] # "none"
      BY Zenon, <1>2 DEF WorkerStep, Ask, TakeQueued, Dispatch, Drain, Maintain, ExpireScheduled,
                  DrainExpired, Poll, exitVars
    <2>5. factory' # "new"
      BY Zenon, <2>4 DEF WorkInv
    <2> QED BY Zenon, <2>1, <2>2, <2>3, <2>5 DEF WorkInv
  <1>3. ASSUME \/ Initialize \/ Monitor \/ RequestShutdown \/ Detach \/ ShutdownScheduler
               \/ JoinMonitor \/ ShutdownDone \/ \E w \in Workers : ShutdownWorker(w)
               \/ UNCHANGED vars
        PROVE  WorkInv'
    BY Zenon, <1>0, <1>3, LifeType, LifeCount
  <1> QED BY Zenon, <1>1, <1>2, <1>3 DEF Next, ExitStep

\* The plug-in starts with nothing to do.
LEMMA InitInv ==
    ASSUME ConstantsOK
    PROVE  Init => WorkInv
  <1> SUFFICES ASSUME Init PROVE WorkInv
    OBVIOUS
  <1>1. TypeOK
    <2>1. fifo \in Seq(Ops) /\ stop \subseteq Workers /\ scheduled \subseteq Ops
      BY DEF Init
    <2> QED BY Zenon, <2>1 DEF Init, TypeOK
  <1>2. scheduled = {} /\ Draining = {} /\ Undrained = {} /\ Writing = {}
    BY Zenon DEF Init, Draining, Undrained, Writing
  <1>3. Len(fifo) = 0 /\ pipe = 0
    BY Zenon DEF Init
  <1>4. WorkCounted
    BY <1>2, <1>3, FS_EmptySet DEF WorkCounted
  <1> QED BY Zenon, <1>1, <1>4 DEF WorkInv, Init

\* Whatever producers, workers and Factory::Shutdown interleave, and however many there
\* are, waiting operations are never more than the bytes in the pipe and the bytes their
\* producers are about to write.
THEOREM WorkStaysVisible ==
    ASSUME ConstantsOK
    PROVE  Spec => []WorkVisible
  <1>1. WorkInv => WorkVisible
    <2> SUFFICES ASSUME WorkInv PROVE WorkVisible
      OBVIOUS
    <2>1. /\ Cardinality(scheduled) \in Nat /\ Len(fifo) \in Nat /\ pipe \in Nat
          /\ Cardinality(Draining) \in Nat /\ Cardinality(Undrained) \in Nat
          /\ Cardinality(Writing) \in Nat
      <3>1. IsFiniteSet(Ops) /\ IsFiniteSet(Workers) /\ IsFiniteSet(Workers \X Ops)
        BY Zenon, FS_Product DEF ConstantsOK
      <3>2. scheduled \in SUBSET Ops /\ Writing \in SUBSET Ops /\ Draining \in SUBSET Workers
        BY Zenon DEF WorkInv, TypeOK, Writing, Draining
      <3>3. Undrained \in SUBSET (Workers \X Ops)
        BY Zenon DEF Undrained
      <3>4. Len(fifo) \in Nat /\ pipe \in Nat
        BY Zenon, LenProperties DEF WorkInv, TypeOK
      <3> QED BY Zenon, <3>1, <3>2, <3>3, <3>4, FS_Subset, FS_CardinalityType
    <2>2. Cardinality(scheduled) + Len(fifo) <= pipe + Cardinality(Writing)
      BY <2>1 DEF WorkInv, WorkCounted
    <2> QED BY Zenon, <2>2 DEF WorkVisible, WorkInv, Writing
  <1> QED BY <1>1, InitInv, NextInv, PTL DEF Spec
=============================================================================
