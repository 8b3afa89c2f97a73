--------------------------- MODULE SchedulerQueue ---------------------------
(***************************************************************************)
(* The request queue in front of a TagScheduler, from the start of the     *)
(* plug-in to its end (src/XrdClCurl/XrdClCurlUtil.cc and                  *)
(* XrdClCurlFactory.cc).  With a scheduler the operations are kept by it,  *)
(* under its mutex, and the bytes of the pipe that make them visible to    *)
(* poll are written and read under the mutex of the queue: every call is   *)
(* two critical sections, and the pointer to the scheduler is read before  *)
(* them without any lock.  At exit Factory::Shutdown takes the scheduler   *)
(* away while producers and workers are anywhere in between.               *)
(*                                                                         *)
(* Which operation the scheduler picks, and when an operation is overdue,  *)
(* is left open (TagScheduler, HandlerQueue).  A wait of Consume or poll   *)
(* ends after a second or 50 ms, so that no thread waits for ever.         *)
(***************************************************************************)
EXTENDS Integers, Sequences, FiniteSets, FifoQueue

CONSTANTS
    Ops,            \* operations, each produced by a thread of its own
    Workers,        \* the worker threads
    Buffers,        \* the configured values of CurlPendingBuffer
    OpsSettings,    \* the configured values of CurlMaxOpsPerWorker
    DefaultMaxOps,  \* m_default_max_ops
    LargestMaxOps   \* the largest value that is accepted

\* There are finitely many threads and operations; a pending buffer is not negative.
ConstantsOK ==
    /\ IsFiniteSet(Ops) /\ IsFiniteSet(Workers)
    /\ Buffers \subseteq Nat /\ OpsSettings \subseteq Int
    /\ DefaultMaxOps \in Nat /\ LargestMaxOps \in Nat

VARIABLES
    buffer,         \* pending_buffer_size; 0 if there is no scheduler
    maxOps,         \* m_max_ops
    attached,       \* m_scheduler of the queue is not null
    closed,         \* m_shutdown of the scheduler
    scheduled,      \* the operations in the scheduler
    fifo,           \* m_ops
    pipe,           \* bytes in the pipe
    queueDown,      \* m_shutdown of the queue
    prod,           \* how far the producer of each operation is
    at,             \* where each worker is in its loop
    holds,          \* the operations each worker runs
    removed,        \* what the worker's Expire took from the scheduler
    stop,           \* the workers whose shutdown pipe is closed
    monitor,        \* the thread of Factory::Monitor
    factory,        \* how far Factory::Shutdown is
    pool            \* how far CurlWorker::ShutdownAll is

configVars == <<buffer, maxOps>>
queueVars == <<scheduled, fifo, pipe>>
workerVars == <<at, holds, removed>>
exitVars == <<attached, closed, queueDown, stop, monitor, factory, pool>>
vars == <<configVars, queueVars, prod, workerVars, exitVars>>

Init ==
    /\ buffer = 0 /\ maxOps = 0 /\ attached = FALSE /\ closed = FALSE
    /\ scheduled = {} /\ fifo = << >> /\ pipe = 0 /\ queueDown = FALSE
    /\ prod = [o \in Ops |-> "new"]
    /\ at = [w \in Workers |-> "none"]
    /\ holds = [w \in Workers |-> {}] /\ removed = [w \in Workers |-> {}]
    /\ stop = {} /\ monitor = "none" /\ factory = "new" /\ pool = "up"

\* A setting out of its range is replaced by the default.
Accepted(v) == IF v <= 0 \/ v > LargestMaxOps THEN DefaultMaxOps ELSE v

\* Initialize reads the settings; without a pending buffer there is no scheduler.
Configure ==
    /\ \E v \in OpsSettings : maxOps' = Accepted(v)
    /\ \E b \in Buffers : buffer' = b /\ attached' = (b > 0)

\* Initialize, under m_shutdown_lock: the workers run once Start has registered
\* them, the monitor last.
Initialize ==
    /\ factory = "new"
    /\ Configure
    /\ at' = [w \in Workers |-> "run"]
    /\ monitor' = "waits"
    /\ factory' = "up"
    /\ UNCHANGED <<queueVars, prod, holds, removed, closed, queueDown, stop, pool>>

-----------------------------------------------------------------------------
(* Producers *)

\* Mutant: the byte is written only into an empty pipe.
NotifyEmpty(n) == 1

\* NotifyPipe_locked.
NotifyPipe(n) == n + 1

\* DrainPipe_locked, k times: reading an empty pipe is not an error.
DrainPipe(n, k) == IF n > k THEN n - k ELSE 0

\* TryProduce reads m_scheduler.  Without one the operation joins m_ops, and the
\* byte is written, in one critical section.
Produce(o) ==
    /\ factory # "new" /\ prod[o] = "new"
    /\ IF attached
       THEN /\ prod' = [prod EXCEPT ![o] = "admits"]
            /\ UNCHANGED queueVars
       ELSE /\ prod' = [prod EXCEPT ![o] = "done"]
            /\ fifo' = Append(fifo, o) /\ pipe' = NotifyPipe(pipe)
            /\ UNCHANGED scheduled
    /\ UNCHANGED <<configVars, workerVars, exitVars>>

\* Admit refuses when shut down or full, and Produce fails the operation.
Admit(o) ==
    /\ prod[o] = "admits"
    /\ IF closed \/ Cardinality(scheduled) >= buffer
       THEN /\ prod' = [prod EXCEPT ![o] = "done"]
            /\ UNCHANGED scheduled
       ELSE /\ prod' = [prod EXCEPT ![o] = "notifies"]
            /\ scheduled' = scheduled \cup {o}
    /\ UNCHANGED <<configVars, fifo, pipe, workerVars, exitVars>>

\* ... and only then the byte is written, under the mutex of the queue.
Notify(o) ==
    /\ prod[o] = "notifies"
    /\ prod' = [prod EXCEPT ![o] = "done"]
    /\ pipe' = NotifyPipe(pipe)
    /\ UNCHANGED <<configVars, scheduled, fifo, workerVars, exitVars>>

-----------------------------------------------------------------------------
(* Workers *)

Goto(w, where) == at' = [at EXCEPT ![w] = where]
Run(w, o) == holds' = [holds EXCEPT ![w] = @ \cup {o}]

\* Run asks for operations while it is below m_max_ops: Consume if it has none,
\* else TryConsume; both read m_scheduler.
Ask(w) ==
    /\ at[w] = "run"
    /\ IF Cardinality(holds[w]) < maxOps /\ attached THEN Goto(w, "inside")
       ELSE /\ \/ Cardinality(holds[w]) >= maxOps
               \/ fifo = << >> \/ (queueDown /\ holds[w] = {})
            /\ Goto(w, "maintains")
    /\ UNCHANGED <<configVars, queueVars, prod, holds, removed, exitVars>>

\* Consume and TryConsume on m_ops.
TakeQueued(w) ==
    /\ at[w] = "run" /\ ~attached /\ Cardinality(holds[w]) < maxOps
    /\ fifo # << >> /\ (queueDown => holds[w] # {})
    /\ Run(w, Head(fifo))
    /\ fifo' = Tail(fifo) /\ pipe' = DrainPipe(pipe, 1)
    /\ UNCHANGED <<configVars, scheduled, prod, at, removed, exitVars>>

\* The scheduler hands out an operation, or none: its caps forbid it, it has
\* none, or it is shut down.
Dispatch(w) ==
    /\ at[w] = "inside"
    /\ \/ /\ Goto(w, "maintains")
          /\ UNCHANGED <<scheduled, holds>>
       \/ /\ ~closed
          /\ \E o \in scheduled : Run(w, o) /\ scheduled' = scheduled \ {o}
          /\ Goto(w, "drains")
    /\ UNCHANGED <<configVars, fifo, pipe, prod, removed, exitVars>>

\* ... and only then the byte of the operation is read.
Drain(w) ==
    /\ at[w] = "drains"
    /\ pipe' = DrainPipe(pipe, 1)
    /\ Goto(w, "run")
    /\ UNCHANGED <<configVars, scheduled, fifo, prod, holds, removed, exitVars>>

\* Expire, if the maintenance period is over, reads m_scheduler.  On m_ops it
\* is one critical section.
Maintain(w) ==
    /\ at[w] = "maintains"
    /\ \/ Goto(w, "polls") /\ UNCHANGED <<fifo, pipe>>
       \/ attached /\ Goto(w, "expires") /\ UNCHANGED <<fifo, pipe>>
       \/ /\ ~attached
          /\ \E overdue \in SUBSET {fifo[i] : i \in DOMAIN fifo} :
                /\ overdue # {}
                /\ fifo' = Kept(fifo, Ops \ overdue)
                /\ pipe' = DrainPipe(pipe, Cardinality(overdue))
          /\ Goto(w, "polls")
    /\ UNCHANGED <<configVars, scheduled, prod, holds, removed, exitVars>>

\* TagScheduler::Expire takes what is overdue.
ExpireScheduled(w) ==
    /\ at[w] = "expires"
    /\ \E overdue \in SUBSET scheduled :
          /\ scheduled' = scheduled \ overdue
          /\ removed' = [removed EXCEPT ![w] = overdue]
          /\ Goto(w, IF overdue = {} THEN "polls" ELSE "drainsExpired")
    /\ UNCHANGED <<configVars, fifo, pipe, prod, holds, exitVars>>

\* A byte is read for each of them; then they are failed, outside every lock.
DrainExpired(w) ==
    /\ at[w] = "drainsExpired"
    /\ pipe' = DrainPipe(pipe, Cardinality(removed[w]))
    /\ removed' = [removed EXCEPT ![w] = {}]
    /\ Goto(w, "polls")
    /\ UNCHANGED <<configVars, scheduled, fifo, prod, holds, exitVars>>

\* poll returns, and some transfers are done.  If the shutdown pipe is closed
\* the worker ends; what it still runs is dropped without an answer.
Poll(w) ==
    /\ at[w] = "polls"
    /\ \E running \in SUBSET holds[w] :
          holds' = [holds EXCEPT ![w] = IF w \in stop THEN {} ELSE running]
    /\ Goto(w, IF w \in stop THEN "ended" ELSE "run")
    /\ UNCHANGED <<configVars, queueVars, prod, removed, exitVars>>

-----------------------------------------------------------------------------
(* The end of the plug-in: the destructors of two static objects, in either order *)

\* Mutant: the monitor waits again without looking at m_shutdown_requested.
NeverStops == FALSE

\* What Monitor finds after its wait of at most five seconds.
ShutdownRequested == factory # "up"

\* Monitor: a round of statistics and a tick of the scheduler changes nothing
\* here; it ends when shutdown is requested.
Monitor ==
    /\ monitor = "waits" /\ ShutdownRequested
    /\ monitor' = "ended"
    /\ UNCHANGED <<configVars, queueVars, prod, workerVars,
                   attached, closed, queueDown, stop, factory, pool>>

\* Factory::Shutdown asks the monitor to end ...
RequestShutdown ==
    /\ factory = "up" /\ pool # "stopping"
    /\ factory' = "requested"
    /\ UNCHANGED <<configVars, queueVars, prod, workerVars,
                   attached, closed, queueDown, stop, monitor, pool>>

\* ... takes the scheduler away from the queue ...
Detach ==
    /\ factory = "requested"
    /\ attached' = FALSE
    /\ factory' = "detached"
    /\ UNCHANGED <<configVars, queueVars, prod, workerVars,
                   closed, queueDown, stop, monitor, pool>>

\* ... shuts it down ...
ShutdownScheduler ==
    /\ factory = "detached"
    /\ closed' = (buffer > 0)
    /\ factory' = "closed"
    /\ UNCHANGED <<configVars, queueVars, prod, workerVars,
                   attached, queueDown, stop, monitor, pool>>

\* ... and joins the monitor.
JoinMonitor ==
    /\ factory = "closed" /\ monitor = "ended"
    /\ factory' = "returned"
    /\ UNCHANGED <<configVars, queueVars, prod, workerVars,
                   attached, closed, queueDown, stop, monitor, pool>>

\* CurlWorker::ShutdownAll shuts the workers down one after the other: the queue,
\* then the pipe of the worker ...
ShutdownWorker(w) ==
    /\ factory \in {"up", "returned"} /\ pool \in {"up", "stopping"}
    /\ w \notin stop /\ \A v \in stop : at[v] = "ended"
    /\ pool' = "stopping"
    /\ queueDown' = TRUE
    /\ stop' = stop \cup {w}
    /\ UNCHANGED <<configVars, queueVars, prod, workerVars,
                   attached, closed, monitor, factory>>

\* ... and joins it before the next.
ShutdownDone ==
    /\ pool = "stopping" /\ stop = Workers
    /\ \A w \in Workers : at[w] = "ended"
    /\ pool' = "stopped"
    /\ UNCHANGED <<configVars, queueVars, prod, workerVars,
                   attached, closed, queueDown, stop, monitor, factory>>

-----------------------------------------------------------------------------
WorkerStep(w) ==
    \/ Ask(w) \/ TakeQueued(w) \/ Dispatch(w) \/ Drain(w) \/ Maintain(w)
    \/ ExpireScheduled(w) \/ DrainExpired(w) \/ Poll(w)

\* The steps of the thread that exits, once it has begun.
ExitStep ==
    \/ Detach \/ ShutdownScheduler \/ JoinMonitor \/ ShutdownDone
    \/ pool = "stopping" /\ \E w \in Workers : ShutdownWorker(w)

Next ==
    \/ Initialize
    \/ \E o \in Ops : Produce(o) \/ Admit(o) \/ Notify(o)
    \/ \E w \in Workers : WorkerStep(w)
    \/ Monitor \/ RequestShutdown
    \/ pool = "up" /\ \E w \in Workers : ShutdownWorker(w)
    \/ ExitStep

Spec == Init /\ [][Next]_vars

\* The threads run: no wait of theirs is without a bound but that for a thread
\* they join.
Fairness ==
    /\ \A w \in Workers : WF_vars(WorkerStep(w))
    /\ WF_vars(Monitor) /\ WF_vars(ExitStep)

FairSpec == Spec /\ Fairness

-----------------------------------------------------------------------------
\* The type of the state.
TypeOK ==
    /\ buffer \in Nat /\ maxOps \in Nat /\ attached \in BOOLEAN /\ closed \in BOOLEAN
    /\ scheduled \subseteq Ops /\ fifo \in Seq(Ops) /\ pipe \in Nat
    /\ queueDown \in BOOLEAN
    /\ prod \in [Ops -> {"new", "admits", "notifies", "done"}]
    /\ at \in [Workers -> {"none", "run", "inside", "drains", "maintains", "expires",
                           "drainsExpired", "polls", "ended"}]
    /\ holds \in [Workers -> SUBSET Ops] /\ removed \in [Workers -> SUBSET Ops]
    /\ stop \subseteq Workers /\ monitor \in {"none", "waits", "ended"}
    /\ factory \in {"new", "up", "requested", "detached", "closed", "returned"}
    /\ pool \in {"up", "stopping", "stopped"}

\* Waiting operations are never more than the bytes in the pipe and the bytes
\* their producers are about to write: whatever TryProduce, Consume, Expire and
\* Factory::Shutdown interleave, a worker in poll sees that there is work.
WorkVisible ==
    /\ TypeOK
    /\ Cardinality(scheduled) + Len(fifo)
          <= pipe + Cardinality({o \in Ops : prod[o] = "notifies"})

\* The exit ends: Factory::Shutdown gets its monitor, ShutdownAll its workers,
\* wherever they are when it begins.
ExitEnds ==
    /\ (factory = "requested") ~> (factory = "returned")
    /\ (pool = "stopping") ~> (pool = "stopped")

\* There are no more bytes than operations they stand for.  This does not hold:
\* a worker that dispatches an operation before its producer has written the
\* byte finds none to drain, and the byte that follows is never read.  From then
\* on poll returns at once in every worker that has no room or nothing to take.
NoStaleByte ==
    (\A o \in Ops : prod[o] \in {"new", "done"}) =>
        pipe <= Cardinality(scheduled) + Len(fifo)
                + Cardinality({w \in Workers : at[w] = "drains"})
                + Cardinality(UNION {removed[w] : w \in Workers})

\* When Factory::Shutdown returns, and the scheduler is freed, no thread is
\* inside it.  This does not hold: Shutdown wakes a worker that is in Consume,
\* but does not wait until it has left.
SchedulerQuiet ==
    factory = "returned" =>
        /\ \A w \in Workers : at[w] \notin {"inside", "expires"}
        /\ \A o \in Ops : prod[o] # "admits"
=============================================================================
