---------------------------- MODULE HandlerQueue ----------------------------
(***************************************************************************)
(* The queue of curl operations between the threads that make requests and *)
(* the workers, without a TagScheduler (src/XrdClCurl/XrdClCurlUtil.cc).   *)
(* The shared request queue and the continue queue of each worker are      *)
(* instances of it.  One byte in a pipe per queued operation makes the     *)
(* queue visible to poll; producers block while the queue is full.         *)
(*                                                                         *)
(* Every critical section of m_mutex is one step.  Waiting on a condition  *)
(* variable ends by a notification or when the clock reaches the deadline. *)
(* The wait of Consume is bounded by a second, so that a worker that was   *)
(* not notified returns with nothing and calls again; it is not a state.   *)
(***************************************************************************)
EXTENDS Integers, Sequences, FiniteSets, FifoQueue

CONSTANTS
    Ops,            \* operations, each produced by a thread of its own
    MaxPending,     \* m_max_pending_ops
    MaxTime,        \* bound on the clock
    Deadlines       \* the values the expiry of an operation is drawn from

ASSUME ConstantsAssumption ==
    /\ IsFiniteSet(Ops)
    /\ MaxPending \in Nat \ {0} /\ MaxTime \in Nat
    /\ Deadlines \subseteq 0..MaxTime /\ Deadlines # {}

VARIABLES
    ops,            \* m_ops
    pipe,           \* bytes in the pipe
    shutdown,       \* m_shutdown
    now,            \* steady_clock
    expiry,         \* GetOperationExpiry of each operation
    limit,          \* handler_expiry, as TryProduce read it
    state,          \* where each operation is
    notified,       \* waiting producers that m_producer_cv has notified
    expired         \* operations Expire removed and has still to fail

vars == <<ops, pipe, shutdown, now, expiry, limit, state, notified, expired>>

Queued == {ops[i] : i \in DOMAIN ops}
Waiting == {o \in Ops : state[o] = "waiting"}

Init ==
    /\ ops = << >> /\ pipe = 0 /\ shutdown = FALSE /\ now = 0
    /\ expiry \in [Ops -> Deadlines]
    /\ limit = expiry
    /\ state = [o \in Ops |-> "new"]
    /\ notified = {} /\ expired = {}

Tick ==
    /\ now < MaxTime
    /\ now' = now + 1
    /\ UNCHANGED <<ops, pipe, shutdown, expiry, limit, state, notified, expired>>

\* ExtendDeadline and the progress of a transfer move the expiry forward.
ExtendDeadline(o) ==
    /\ state[o] \in {"waiting", "queued"}
    /\ \E d \in Deadlines : d > expiry[o] /\ expiry' = [expiry EXCEPT ![o] = d]
    /\ UNCHANGED <<ops, pipe, shutdown, now, limit, state, notified, expired>>

\* Mutant: the limit of the queue is not observed.
AlwaysRoom == TRUE

\* The predicate the producer waits for.
Room == Len(ops) < MaxPending

\* Mutant: the byte is written only into an empty pipe.
NotifyEmpty(n) == 1

\* NotifyPipe_locked: the pipe holds far more bytes than the queue operations.
NotifyPipe(n) == n + 1

\* DrainPipe_locked: reading an empty pipe is not an error.
DrainPipe(n, k) == IF n > k THEN n - k ELSE 0

\* TryProduce after the wait, still under the lock: past the deadline the
\* operation is refused, and Produce fails it; else it is queued.
Finish(o) ==
    IF now > limit'[o]
    THEN /\ state' = [state EXCEPT ![o] = "failed"]
         /\ UNCHANGED <<ops, pipe>>
    ELSE /\ ops' = Append(ops, o)
         /\ pipe' = NotifyPipe(pipe)
         /\ state' = [state EXCEPT ![o] = "queued"]

\* Produce: wait_until tests its predicate, then the deadline.
Produce(o) ==
    /\ state[o] = "new"
    /\ limit' = [limit EXCEPT ![o] = expiry[o]]
    /\ IF Room \/ now >= expiry[o]
       THEN Finish(o)
       ELSE state' = [state EXCEPT ![o] = "waiting"] /\ UNCHANGED <<ops, pipe>>
    /\ UNCHANGED <<shutdown, now, expiry, notified, expired>>

\* A waiting producer runs again: it was notified, or its deadline has come.
Wake(o) ==
    /\ state[o] = "waiting"
    /\ o \in notified \/ now >= limit[o]
    /\ notified' = notified \ {o}
    /\ limit' = limit
    /\ IF Room \/ now >= limit[o]
       THEN Finish(o)
       ELSE UNCHANGED <<ops, pipe, state>>
    /\ UNCHANGED <<shutdown, now, expiry, expired>>

\* m_producer_cv.notify_one.
NotifyProducer ==
    \/ Waiting \subseteq notified /\ notified' = notified
    \/ \E o \in Waiting \ notified : notified' = notified \cup {o}

\* Mutant: the operation stays in the queue.
NotPopped == ops

\* pop_front.
Popped == Tail(ops)

\* TryConsume takes the oldest operation.
TryConsume ==
    /\ ops # << >>
    /\ state' = [state EXCEPT ![Head(ops)] = "taken"]
    /\ ops' = Popped
    /\ pipe' = DrainPipe(pipe, 1)
    /\ NotifyProducer
    /\ UNCHANGED <<shutdown, now, expiry, limit, expired>>

\* Consume does too, unless the queue is shut down.
Consume ==
    /\ ~shutdown
    /\ TryConsume

\* Mutant: what is removed is not failed.
NoneFound == {}

\* The operations Expire finds.
Overdue == {o \in Queued : expiry[o] < now}

\* Expire, under the lock: overdue operations leave the queue, as many bytes
\* leave the pipe.  Producers are not notified of the room.  (That Expire
\* first wakes stalled transfers concerns only the continue queue: PrefetchRead
\* and PutFile.)
Expire ==
    /\ ops' = Kept(ops, {o \in Ops : expiry[o] >= now})
    /\ pipe' = DrainPipe(pipe, Len(ops) - Len(ops'))
    /\ expired' = expired \cup Overdue
    /\ state' = [o \in Ops |-> IF o \in Queued /\ expiry[o] < now
                               THEN "expired" ELSE state[o]]
    /\ UNCHANGED <<shutdown, now, expiry, limit, notified>>

\* Expire, after the lock is released: each of them is failed.
FailExpired(o) ==
    /\ o \in expired
    /\ expired' = expired \ {o}
    /\ state' = [state EXCEPT ![o] = "failed"]
    /\ UNCHANGED <<ops, pipe, shutdown, now, expiry, limit, notified>>

Shutdown ==
    /\ ~shutdown
    /\ shutdown' = TRUE
    /\ UNCHANGED <<ops, pipe, now, expiry, limit, state, notified, expired>>

Next ==
    \/ Tick
    \/ \E o \in Ops : ExtendDeadline(o) \/ Produce(o) \/ Wake(o) \/ FailExpired(o)
    \/ TryConsume \/ Consume \/ Expire \/ Shutdown

Spec == Init /\ [][Next]_vars

\* Time passes, woken threads run, and a worker calls Expire in every
\* maintenance period.  That it consumes is not assumed: it may be at its limit
\* of running transfers.
Fairness ==
    /\ WF_vars(Tick)
    /\ \A o \in Ops : WF_vars(Wake(o)) /\ WF_vars(FailExpired(o))
    /\ WF_vars(Expire)

FairSpec == Spec /\ Fairness

-----------------------------------------------------------------------------
\* The type of the state.
TypeOK ==
    /\ ops \in Seq(Ops) /\ pipe \in Nat /\ shutdown \in BOOLEAN
    /\ now \in 0..MaxTime
    /\ expiry \in [Ops -> Deadlines] /\ limit \in [Ops -> Deadlines]
    /\ state \in [Ops -> {"new", "waiting", "queued", "taken", "expired", "failed"}]
    /\ notified \subseteq Ops /\ expired \subseteq Ops

\* poll reports the queue readable exactly while it holds operations: one byte
\* per operation, through Produce, TryConsume and Expire.
PipeMatchesQueue == pipe = Len(ops)

\* An operation is in one place: in the queue once, with a worker, or failed
\* once; Expire, TryConsume and a refused Produce never share one.
InOnePlace ==
    /\ TypeOK
    /\ \A o \in Ops : state[o] = "queued" <=> o \in Queued
    /\ \A i, j \in DOMAIN ops : ops[i] = ops[j] => i = j
    /\ \A o \in Ops : state[o] = "expired" <=> o \in expired

\* The operations whose deadline, as the producer knew it, lies ahead never
\* exceed m_max_pending_ops.  (One that stops waiting at the very instant of
\* its deadline is queued even though the queue is full.)
UnexpiredBounded == Cardinality({o \in Queued : limit[o] > now}) <= MaxPending

\* Every operation leaves the queue: a producer that waits, an operation that
\* is queued and one that Expire removed ends with a worker or failed, even if
\* no worker ever consumes.
EveryOpLeaves ==
    \A o \in Ops : (state[o] \in {"waiting", "queued", "expired"}) ~>
                   (state[o] \in {"taken", "failed"})
=============================================================================
