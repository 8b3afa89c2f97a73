---------------------------- MODULE TagScheduler ----------------------------
(***************************************************************************)
(* The per-origin fair scheduler of the HTTP engine                        *)
(* (src/XrdClCurl/XrdClCurlTagScheduler.cc), with the threads that call it.*)
(*                                                                         *)
(* Application threads Admit operations under the tag of their origin;     *)
(* curl worker threads Consume them; an operation that a worker holds      *)
(* reports its first response byte and its completion through two hooks;   *)
(* a worker's maintenance pass expires operations that waited too long.    *)
(*                                                                         *)
(* m_mu is the scheduler's mutex.  A critical section without a loop is    *)
(* one step; the sweep of Expire removes one operation per step while mu   *)
(* is held.  The weighted random draw of PickTag_locked is a free choice   *)
(* among the eligible tags: every eligible tag has positive weight.        *)
(***************************************************************************)
EXTENDS Integers, Sequences, FiniteSets

CONSTANTS
    Tags,               \* origin host names
    Ops,                \* curl operations, each submitted at most once
    TagOf,              \* the tag SchedulerTagFor derives from an operation's URL
    Workers,            \* curl worker threads
    MaxOps,             \* m_max_ops: operations one worker runs at a time
    StarvingPercent,    \* Config::per_tag_starving_percent
    ActivePercent,      \* Config::per_tag_active_percent
    PendingBufferSize,  \* Config::pending_buffer_size, 0 = unbounded
    PerTagPendingSize,  \* Config::per_tag_pending_size, 0 = unbounded
    NoThread            \* "m_mu is free"

ASSUME ConstantsAssumption ==
    /\ IsFiniteSet(Ops) /\ IsFiniteSet(Workers)
    /\ TagOf \in [Ops -> Tags]
    /\ MaxOps \in Nat \ {0}
    /\ StarvingPercent \in Int /\ ActivePercent \in Int
    /\ PendingBufferSize \in Nat /\ PerTagPendingSize \in Nat
    /\ NoThread \notin Workers

VARIABLES
    pending,        \* m_tags[t].pending, the FIFO of each tag
    active,         \* m_tags[t].active
    starving,       \* m_tags[t].starving
    admits,         \* m_tags[t].admits
    rejects,        \* m_tags[t].rejects
    present,        \* the tags that have an entry in m_tags
    totalPending,   \* m_total_pending
    shutdown,       \* m_shutdown
    mu,             \* the worker inside Expire's sweep, or NoThread
    opState,        \* where each operation is
    runBy,          \* the worker that runs it or expired it
    firstByte,      \* the operations whose first_byte flag is set
    hooked,         \* the operations whose hooks are installed and not cleared
    late,           \* the operations whose deadline has passed
    sweep,          \* the expired operations Expire has still to remove
    thread          \* what each worker is doing with the scheduler

vars == <<pending, active, starving, admits, rejects, present, totalPending,
          shutdown, mu, opState, runBy, firstByte, hooked, late, sweep, thread>>

tagVars == <<pending, active, starving, admits, rejects, present>>

OpStates ==
    {"new", "queued", "running", "expired", "rejected", "done"}

\* "idle": in its event loop; "waiting": asleep on m_cv inside Consume; "woken":
\* notified, about to re-acquire m_mu; "expiring": in HandlerQueue::Expire.
ThreadStates == {"idle", "waiting", "woken", "expiring"}

WorkerCount == LET n == Cardinality(Workers) * MaxOps IN IF n < 1 THEN 1 ELSE n

\* Mutant: the cap is rounded down, without the floor of one slot.
PercentToCapFloor(percent) ==
    IF percent <= 0 \/ percent >= 100 THEN WorkerCount
    ELSE (WorkerCount * percent) \div 100

\* Percent <= 0 or >= 100 disables the cap; otherwise the ceiling, at least 1.
PercentToCap(percent) ==
    IF percent <= 0 \/ percent >= 100 THEN WorkerCount
    ELSE LET cap == (WorkerCount * percent + 99) \div 100
         IN  IF cap < 1 THEN 1 ELSE cap

StarvingCap == PercentToCap(StarvingPercent)
ActiveCap == PercentToCap(ActivePercent)

Running(t) == {o \in Ops : opState[o] = "running" /\ TagOf[o] = t}
Starved(t) == {o \in Running(t) : o \notin firstByte}
Queued == {o \in Ops : opState[o] = "queued"}
Waiting(t) == {o \in Queued : TagOf[o] = t}
RunBy(w) == {o \in Ops : opState[o] = "running" /\ runBy[o] = w}

Init ==
    /\ pending = [t \in Tags |-> << >>]
    /\ active = [t \in Tags |-> 0]
    /\ starving = [t \in Tags |-> 0]
    /\ admits = [t \in Tags |-> 0]
    /\ rejects = [t \in Tags |-> 0]
    /\ present = {}
    /\ totalPending = 0
    /\ shutdown = FALSE
    /\ mu = NoThread
    /\ opState = [o \in Ops |-> "new"]
    /\ runBy = [o \in Ops |-> NoThread]
    /\ firstByte = {}
    /\ hooked = {}
    /\ late = {}
    /\ sweep = {}
    /\ thread = [w \in Workers |-> "idle"]

-----------------------------------------------------------------------------
\* Mutant: nobody is notified.
NotifyNobody == UNCHANGED thread

\* m_cv.notify_one(): wakes one sleeping worker, if there is one.
NotifyOne ==
    IF \E w \in Workers : thread[w] = "waiting"
    THEN \E w \in Workers : /\ thread[w] = "waiting"
                            /\ thread' = [thread EXCEPT ![w] = "woken"]
    ELSE UNCHANGED thread

GlobalFull == PendingBufferSize > 0 /\ totalPending >= PendingBufferSize
PerTagFull(t) == PerTagPendingSize > 0 /\ Len(pending[t]) >= PerTagPendingSize

\* Admit refuses the operation; HandlerQueue::Produce then fails it with
\* errRetry.  A refusal counts against the tag and creates its entry.
AdmitReject(o) ==
    LET t == TagOf[o] IN
    /\ mu = NoThread
    /\ opState[o] = "new"
    /\ opState' = [opState EXCEPT ![o] = "rejected"]
    /\ \/ shutdown /\ UNCHANGED <<rejects, present>>
       \/ /\ ~shutdown
          /\ GlobalFull \/ PerTagFull(t)
          /\ rejects' = [rejects EXCEPT ![t] = @ + 1]
          /\ present' = present \cup {t}
    /\ UNCHANGED <<pending, active, starving, admits, totalPending, shutdown,
                   mu, runBy, firstByte, hooked, late, sweep, thread>>

\* Admit accepts: hooks first, then the FIFO, then notify_one.
AdmitAccept(o) ==
    LET t == TagOf[o] IN
    /\ mu = NoThread
    /\ opState[o] = "new"
    /\ ~shutdown /\ ~GlobalFull /\ ~PerTagFull(t)
    /\ hooked' = hooked \cup {o}
    /\ pending' = [pending EXCEPT ![t] = Append(@, o)]
    /\ totalPending' = totalPending + 1
    /\ admits' = [admits EXCEPT ![t] = @ + 1]
    /\ present' = present \cup {t}
    /\ opState' = [opState EXCEPT ![o] = "queued"]
    /\ NotifyOne
    /\ UNCHANGED <<active, starving, rejects, shutdown, mu, runBy, firstByte,
                   late, sweep>>

-----------------------------------------------------------------------------
\* Mutant: the caps are compared one too late.
EligibleOffByOne == {t \in present : /\ pending[t] # << >>
                                     /\ starving[t] <= StarvingCap
                                     /\ active[t] <= ActiveCap}

\* The tags PickTag_locked may draw.
Eligible == {t \in present : /\ pending[t] # << >>
                             /\ starving[t] < StarvingCap
                             /\ active[t] < ActiveCap}

\* Consume and TryConsume once a tag is drawn: pop its FIFO, count the
\* operation as active and as starving, hand it to the worker.
Dispatch(w, t) ==
    /\ t \in Eligible
    /\ LET o == Head(pending[t]) IN
       /\ opState' = [opState EXCEPT ![o] = "running"]
       /\ runBy' = [runBy EXCEPT ![o] = w]
    /\ pending' = [pending EXCEPT ![t] = Tail(@)]
    /\ totalPending' = totalPending - 1
    /\ active' = [active EXCEPT ![t] = @ + 1]
    /\ starving' = [starving EXCEPT ![t] = @ + 1]
    /\ thread' = [thread EXCEPT ![w] = "idle"]
    /\ UNCHANGED <<admits, rejects, present, shutdown, mu, firstByte, hooked,
                   late, sweep>>

\* A worker with room takes an operation: TryConsume when it already runs
\* some, Consume when it runs none, or the loop of Consume after a wake-up.
Consume(w) ==
    /\ mu = NoThread
    /\ ~shutdown
    /\ \/ thread[w] = "idle" /\ Cardinality(RunBy(w)) < MaxOps
       \/ thread[w] = "woken"
    /\ \E t \in Tags : Dispatch(w, t)

\* Consume finds nothing to dispatch and sleeps on m_cv.  Only a worker that
\* runs no operation blocks: the others use TryConsume.
ConsumeWait(w) ==
    /\ mu = NoThread
    /\ ~shutdown
    /\ thread[w] \in {"idle", "woken"}
    /\ RunBy(w) = {}
    /\ Eligible = {}
    /\ thread' = [thread EXCEPT ![w] = "waiting"]
    /\ UNCHANGED <<tagVars, totalPending, shutdown, mu, opState, runBy,
                   firstByte, hooked, late, sweep>>

\* Consume returns nullptr: the deadline passed (a notified worker whose
\* deadline passed before it re-acquired m_mu also reports a timeout), or the
\* scheduler was shut down.
ConsumeNothing(w) ==
    /\ mu = NoThread
    /\ thread[w] \in {"waiting", "woken"}
    /\ thread' = [thread EXCEPT ![w] = "idle"]
    /\ UNCHANGED <<tagVars, totalPending, shutdown, mu, opState, runBy,
                   firstByte, hooked, late, sweep>>

-----------------------------------------------------------------------------
\* The first response header arrives: CurlOperation::HeaderCallback fires
\* m_on_first_byte, which runs OnFirstByte once per operation.
OnFirstByte(o) ==
    LET t == TagOf[o] IN
    /\ mu = NoThread
    /\ opState[o] = "running" /\ thread[runBy[o]] = "idle"
    /\ o \in hooked
    /\ o \notin firstByte
    /\ firstByte' = firstByte \cup {o}
    /\ IF t \in present /\ starving[t] > 0
       THEN /\ starving' = [starving EXCEPT ![t] = @ - 1]
            /\ NotifyOne
       ELSE UNCHANGED <<starving, thread>>
    /\ UNCHANGED <<pending, active, admits, rejects, present, totalPending,
                   shutdown, mu, opState, runBy, hooked, late, sweep>>

\* An entry without queued or in-flight operations is erased from m_tags,
\* and its counters with it.
Idle(t, p, a, s) == p[t] = << >> /\ a[t] = 0 /\ s[t] = 0

Decrement(f, t) == IF f[t] > 0 THEN [f EXCEPT ![t] = @ - 1] ELSE f

\* A completed operation that never saw a byte still holds a starving slot.
ReleaseStarving(t, still_starving) ==
    IF still_starving THEN Decrement(starving, t) ELSE starving

\* The release of a completed operation's slots.
OnDone(t, still_starving) ==
    IF t \notin present
    THEN UNCHANGED <<active, starving, admits, rejects, present, thread>>
    ELSE LET a == Decrement(active, t)
             s == ReleaseStarving(t, still_starving)
         IN  /\ active' = a
             /\ starving' = s
             /\ IF Idle(t, pending, a, s)
                THEN /\ present' = present \ {t}
                     /\ admits' = [admits EXCEPT ![t] = 0]
                     /\ rejects' = [rejects EXCEPT ![t] = 0]
                ELSE UNCHANGED <<present, admits, rejects>>
             /\ NotifyOne

\* A running operation reaches its terminal state: CurlOperation::SetDone
\* fires m_on_done, if it is still installed.
SetDone(o) ==
    /\ mu = NoThread
    /\ opState[o] = "running" /\ thread[runBy[o]] = "idle"
    /\ opState' = [opState EXCEPT ![o] = "done"]
    /\ hooked' = hooked \ {o}
    /\ IF o \in hooked
       THEN OnDone(TagOf[o], o \notin firstByte)
       ELSE UNCHANGED <<active, starving, admits, rejects, present, thread>>
    /\ UNCHANGED <<pending, totalPending, shutdown, mu, runBy, firstByte, late,
                   sweep>>

-----------------------------------------------------------------------------
\* Time passes the deadline of an operation that no worker runs yet.
DeadlinePasses(o) ==
    /\ opState[o] \in {"new", "queued"}
    /\ o \notin late
    /\ late' = late \cup {o}
    /\ UNCHANGED <<tagVars, totalPending, shutdown, mu, opState, runBy,
                   firstByte, hooked, sweep, thread>>

\* Expire, called from the maintenance pass of a worker: it reads the clock,
\* takes m_mu and walks every FIFO.
ExpireBegin(w) ==
    /\ mu = NoThread
    /\ thread[w] = "idle"
    /\ mu' = w
    /\ thread' = [thread EXCEPT ![w] = "expiring"]
    /\ sweep' = late \cap Queued
    /\ UNCHANGED <<tagVars, totalPending, shutdown, opState, runBy, firstByte,
                   hooked, late>>

\* Mutant: the head leaves the FIFO instead of the expired operation.
RemoveHead(q, i) == Tail(q)

\* q without its element at position i.
RemoveAt(q, i) == SubSeq(q, 1, i - 1) \o SubSeq(q, i + 1, Len(q))

\* Mutant: the hooks stay on the expired operation.
ExpireOpKeepsHooks(o) ==
    LET t == TagOf[o] IN
    /\ mu # NoThread
    /\ o \in sweep
    /\ \E i \in 1..Len(pending[t]) :
          /\ pending[t][i] = o
          /\ pending' = [pending EXCEPT ![t] = RemoveAt(@, i)]
    /\ totalPending' = totalPending - 1
    /\ opState' = [opState EXCEPT ![o] = "expired"]
    /\ runBy' = [runBy EXCEPT ![o] = mu]
    /\ sweep' = sweep \ {o}
    /\ UNCHANGED <<active, starving, admits, rejects, present, shutdown, mu,
                   firstByte, late, thread, hooked>>

\* One expired operation leaves its FIFO; its hooks are dropped so that the
\* failure the caller is about to report releases nobody's slot.
ExpireOp(o) ==
    LET t == TagOf[o] IN
    /\ mu # NoThread
    /\ o \in sweep
    /\ \E i \in 1..Len(pending[t]) :
          /\ pending[t][i] = o
          /\ pending' = [pending EXCEPT ![t] = RemoveAt(@, i)]
    /\ hooked' = hooked \ {o}
    /\ totalPending' = totalPending - 1
    /\ opState' = [opState EXCEPT ![o] = "expired"]
    /\ runBy' = [runBy EXCEPT ![o] = mu]
    /\ sweep' = sweep \ {o}
    /\ UNCHANGED <<active, starving, admits, rejects, present, shutdown, mu,
                   firstByte, late, thread>>

\* The end of the sweep: idle entries are erased and m_mu is released.
ExpireEnd ==
    LET kept == {t \in present : ~Idle(t, pending, active, starving)} IN
    /\ mu # NoThread
    /\ sweep = {}
    /\ mu' = NoThread
    /\ present' = kept
    /\ admits' = [t \in Tags |-> IF t \in kept THEN admits[t] ELSE 0]
    /\ rejects' = [t \in Tags |-> IF t \in kept THEN rejects[t] ELSE 0]
    /\ UNCHANGED <<pending, active, starving, totalPending, shutdown, opState,
                   runBy, firstByte, hooked, late, sweep, thread>>

\* HandlerQueue::Expire fails the operations its sweep removed, outside every
\* lock: the hooks are gone, so SetDone touches no counter.
FailExpired(o) ==
    /\ opState[o] = "expired" /\ mu # runBy[o]
    /\ IF o \in hooked
       THEN mu = NoThread /\ OnDone(TagOf[o], o \notin firstByte)
       ELSE UNCHANGED <<active, starving, admits, rejects, present, thread>>
    /\ hooked' = hooked \ {o}
    /\ opState' = [opState EXCEPT ![o] = "done"]
    /\ UNCHANGED <<pending, totalPending, shutdown, mu, runBy, firstByte, late,
                   sweep>>

\* HandlerQueue::Expire returns to the worker's event loop.
ExpireReturn(w) ==
    /\ thread[w] = "expiring" /\ mu # w
    /\ \A o \in Ops : opState[o] = "expired" => runBy[o] # w
    /\ thread' = [thread EXCEPT ![w] = "idle"]
    /\ UNCHANGED <<tagVars, totalPending, shutdown, mu, opState, runBy,
                   firstByte, hooked, late, sweep>>

\* Shutdown: no further admission or dispatch, every sleeper wakes.
Shutdown ==
    /\ mu = NoThread
    /\ ~shutdown
    /\ shutdown' = TRUE
    /\ thread' = [w \in Workers |->
                     IF thread[w] = "waiting" THEN "woken" ELSE thread[w]]
    /\ UNCHANGED <<tagVars, totalPending, mu, opState, runBy, firstByte, hooked,
                   late, sweep>>

-----------------------------------------------------------------------------
OpStep(o) ==
    \/ AdmitReject(o) \/ AdmitAccept(o)
    \/ OnFirstByte(o) \/ SetDone(o)
    \/ DeadlinePasses(o) \/ ExpireOp(o) \/ FailExpired(o)

WorkerStep(w) ==
    \/ Consume(w) \/ ConsumeWait(w) \/ ConsumeNothing(w)
    \/ ExpireBegin(w) \/ ExpireReturn(w)

Next ==
    \/ \E o \in Ops : OpStep(o)
    \/ \E w \in Workers : WorkerStep(w)
    \/ ExpireEnd
    \/ Shutdown

Spec == Init /\ [][Next]_vars

\* A thread that keeps asking for m_mu gets it, so steps that take m_mu are
\* strongly fair; a transfer always ends (completion, stall timeout); the draw
\* gives every eligible tag a positive weight, so no tag is passed over forever.
\* Nothing is assumed of Admit, of deadlines or of Shutdown.
Fairness ==
    /\ \A o \in Ops : SF_vars(SetDone(o))
    /\ \A o \in Ops : WF_vars(ExpireOp(o)) /\ WF_vars(FailExpired(o))
    /\ WF_vars(ExpireEnd)
    /\ \A w \in Workers : WF_vars(ExpireReturn(w)) /\ SF_vars(ConsumeNothing(w))
    /\ \A t \in Tags : SF_vars(\E w \in Workers : Consume(w) /\ Dispatch(w, t))

FairSpec == Spec /\ Fairness

-----------------------------------------------------------------------------
\* Every variable has its type.
TypeOK ==
    /\ pending \in [Tags -> Seq(Ops)]
    /\ active \in [Tags -> Nat] /\ starving \in [Tags -> Nat]
    /\ admits \in [Tags -> Nat] /\ rejects \in [Tags -> Nat]
    /\ present \subseteq Tags
    /\ totalPending \in Nat
    /\ shutdown \in BOOLEAN
    /\ mu \in Workers \cup {NoThread}
    /\ opState \in [Ops -> OpStates]
    /\ runBy \in [Ops -> Workers \cup {NoThread}]
    /\ firstByte \subseteq Ops
    /\ hooked \subseteq Ops /\ late \subseteq Ops /\ sweep \subseteq Ops
    /\ thread \in [Workers -> ThreadStates]

\* The per-tag counters are exact in every state: `active` is the number of
\* operations of the tag that workers hold and `starving` the number of those
\* that have not seen a response byte, whatever mix of completions, first bytes,
\* expiries and entry erasures came before (Consume, OnFirstByte, OnDone, Expire).
SlotAccounting ==
    \A t \in Tags : /\ active[t] = Cardinality(Running(t))
                    /\ starving[t] = Cardinality(Starved(t))

\* No origin ever holds more than its share of the pool, counted on the
\* operations workers really run and not on the scheduler's own counters
\* (PickTag_locked against m_starving_cap and m_active_cap).
CapsRespected ==
    \A t \in Tags : /\ Cardinality(Running(t)) <= ActiveCap
                    /\ Cardinality(Starved(t)) <= StarvingCap

\* q lists every member of S once and nothing else.
Enumerates(q, S) ==
    /\ \A i \in 1..Len(q) : q[i] \in S
    /\ \A i, j \in 1..Len(q) : q[i] = q[j] => i = j
    /\ \A o \in S : \E i \in 1..Len(q) : q[i] = o

\* m_total_pending, which Admit compares with the global limit, is the number
\* of operations that wait, and each of them waits in exactly one place, in the
\* FIFO of its own tag (Admit, Consume, Expire).
QueueAccounting ==
    /\ totalPending = Cardinality(Queued)
    /\ \A t \in Tags : Enumerates(pending[t], Waiting(t))

\* An entry of m_tags is erased only when nothing of its tag waits or runs, so
\* OnDone and OnFirstByte never miss the entry they must decrement and the FIFO
\* of an erased tag loses no operation (OnDone, Expire).
EntryKept ==
    \A o \in Ops : opState[o] \in {"queued", "running"} => TagOf[o] \in present

\* The hooks are installed on exactly the operations the scheduler accounts
\* for, and one that has not been dispatched has not reported a first byte: a
\* completion always releases what its dispatch took, and nothing else (the
\* hooks set in Admit and cleared in Expire, fired once by SetDone).
HooksMatch ==
    /\ hooked = {o \in Ops : opState[o] \in {"queued", "running"}}
    /\ \A o \in firstByte : opState[o] \in {"running", "done"}

\* The conjunction that every step preserves; it implies the caps and the
\* accounting above.
SchedulerInv ==
    /\ TypeOK
    /\ SlotAccounting
    /\ CapsRespected
    /\ QueueAccounting
    /\ EntryKept
    /\ HooksMatch

\* No lost wake-up: while some operation could be dispatched and a worker sleeps
\* on m_cv, a worker that has room is awake and will look (notify_one in Admit,
\* OnFirstByte and OnDone against the wait in Consume).
NoSleepingPool ==
    (Eligible # {} /\ ~shutdown /\ \E w \in Workers : thread[w] = "waiting")
        => \E w \in Workers : /\ thread[w] # "waiting"
                              /\ Cardinality(RunBy(w)) < MaxOps

\* Every admitted operation leaves the queue, to a worker or by expiry, unless
\* the scheduler is shut down: no slot is leaked that would block its tag for
\* ever (Consume, OnDone, OnFirstByte, Expire).
AdmittedIsServed ==
    \A o \in Ops : opState[o] = "queued" ~> (opState[o] # "queued" \/ shutdown)

\* XrdClCurlTagScheduler.hh:166 calls the per-tag admit counters monotonic over
\* the tag's lifetime.
LifetimeCountersMonotonic ==
    [][\A t \in Tags : admits'[t] >= admits[t]]_vars
=============================================================================
