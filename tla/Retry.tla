------------------------------- MODULE Retry -------------------------------
(***************************************************************************)
(* The retry thread of the Pelican plug-in (RetryThread.cc) and the        *)
(* handlers that use it to repeat a read, a paged read or an open that     *)
(* failed with a retryable error (PelicanFile.cc); and the handler of a    *)
(* Stat, which repeats it from the callback (PelicanFilesystem.cc).        *)
(*                                                                         *)
(* Time is relative: due[c] is how far the deadline of the entry of c is   *)
(* away, and Tick brings everything one unit nearer.  Every critical       *)
(* section of the mutex of RetryState is one step.  A handler object is    *)
(* named by its m_attempt: the first is 0, each retry makes the next one.  *)
(***************************************************************************)
EXTENDS Integers, FiniteSets, FiniteSetsExt

CONSTANTS
    Calls,          \* calls of a Pelican::File or Filesystem
    Ways,           \* what each may be: "open", "read", "pgread" or "stat"
    MaxRetries,     \* bound on the value given to PelicanRetryCount
    BaseDelay,      \* base_delay
    MaxDelay,       \* max_delay of ComputeDelay
    None

VARIABLES
    call,           \* what became of each call
    due,            \* the entries of the heap, by call
    orphans,        \* calls whose entry no thread serves: it came after the last one
    pc,             \* where Run is
    cur,            \* the call whose entry Run has popped
    wake,           \* how far the deadline is that Run waits for
    notified,       \* the condition variable was notified
    started, shutdown,
    stopping,       \* where Shutdown is
    retryCount,     \* File::m_retry_count
    opened          \* opens that have set m_is_opened

vars == <<call, due, orphans, pc, cur, wake, notified, started, shutdown,
          stopping, retryCount, opened>>
threadVars == <<pc, cur, wake>>
stateVars == <<orphans, started, shutdown, stopping>>

Queued == {c \in Calls : due[c] # None}
Attempts == 0..MaxRetries
Delays == 0..MaxDelay

\* The deadline at the top of the heap.
Top == Min({due[c] : c \in Queued})

TypeOK ==
    /\ call \in [Calls -> [way : {"open", "read", "pgread", "stat"},
                           st : {"new", "issued", "queued", "firing", "answered",
                                 "refused"},
                           attempt : Attempts, budget : Attempts,
                           live : SUBSET Attempts, answers : Nat]]
    /\ due \in [Calls -> Delays \cup {None}]
    /\ orphans \subseteq Calls
    /\ pc \in {"absent", "check", "idle", "sleep", "fire", "count", "gone"}
    /\ cur \in Calls \cup {None} /\ wake \in Delays
    /\ notified \in BOOLEAN /\ started \in BOOLEAN /\ shutdown \in BOOLEAN
    /\ stopping \in {"no", "joining", "done"}
    /\ retryCount \in Attempts /\ opened \subseteq Calls

Init ==
    /\ \E way \in [Calls -> UNION {Ways[c] : c \in Calls}] :
        /\ \A c \in Calls : way[c] \in Ways[c]
        /\ call = [c \in Calls |-> [way |-> way[c], st |-> "new", attempt |-> 0, budget |-> 0,
                                    live |-> {}, answers |-> 0]]
    /\ due = [c \in Calls |-> None] /\ orphans = {}
    /\ pc = "absent" /\ cur = None /\ wake = 0 /\ notified = FALSE
    /\ started = FALSE /\ shutdown = FALSE /\ stopping = "no"
    /\ retryCount \in Attempts /\ opened = {}

Nearer(d) == IF d = None \/ d = 0 THEN d ELSE d - 1

Tick ==
    /\ \E c \in Queued : due[c] > 0
    /\ due' = [c \in Calls |-> Nearer(due[c])]
    /\ wake' = Nearer(wake)
    /\ UNCHANGED <<call, pc, cur, notified, stateVars, retryCount, opened>>

-----------------------------------------------------------------------------
(* The calls and their handlers. *)

\* ComputeDelay: exponential, capped.
ComputeDelay(attempt) ==
    Min({BaseDelay * 2^(IF attempt < 15 THEN attempt ELSE 15), MaxDelay})

\* SetProperty("PelicanRetryCount") at any time.
SetRetryCount(n) ==
    /\ retryCount' = n
    /\ UNCHANGED <<call, due, notified, threadVars, stateVars, opened>>

\* Read, PgRead, Open or Stat: with retries the wrapped file gets a retry handler, else
\* the handler of the user.  The wrapped file may refuse the call; the retry
\* handler is then deleted and nobody is called back.
Issue(c) ==
    /\ started /\ call[c].st = "new"
    /\ \/ call' = [call EXCEPT ![c].st = "issued", ![c].budget = retryCount,
                               ![c].live = IF retryCount > 0 THEN {0} ELSE {}]
       \/ call' = [call EXCEPT ![c].st = "refused"]
    /\ UNCHANGED <<due, notified, threadVars, stateVars, retryCount, opened>>

\* m_retries_remaining of the handler with attempt number r.attempt.
Remaining(r) == r.budget - r.attempt

\* Mutant: the handler whose call ends is not deleted.
AnsweredKeeping(r, gone) == [r EXCEPT !.st = "answered", !.answers = @ + 1]

\* The handler of the user is called; the handlers in gone are deleted.
Answered(r, gone) ==
    [r EXCEPT !.st = "answered", !.answers = @ + 1, !.live = @ \ gone]

\* Mutant: the entry is pushed without waking the thread.
SubmitQuietly(c, delay) ==
    /\ due' = [due EXCEPT ![c] = delay]
    /\ UNCHANGED <<notified, orphans>>

\* RetryThread::Submit.  After Shutdown it fills a fresh state that no thread serves.
Submit(c, delay) ==
    IF stopping = "done"
    THEN orphans' = orphans \cup {c} /\ UNCHANGED <<due, notified>>
    ELSE /\ due' = [due EXCEPT ![c] = delay]
         /\ notified' = TRUE
         /\ UNCHANGED orphans

\* HandleResponse of three of the retry handlers for a retryable error, with retries
\* left: the next handler is made, this one is kept by the entry.
ScheduleRetry(c) ==
    /\ call[c].st = "issued" /\ Remaining(call[c]) > 0
    /\ Submit(c, ComputeDelay(call[c].attempt))
    /\ call' = [call EXCEPT ![c].st = "queued", ![c].attempt = @ + 1,
                            ![c].live = @ \cup {call[c].attempt + 1}]
    /\ UNCHANGED <<threadVars, started, shutdown, stopping, retryCount, opened>>

RetryRead(c) == call[c].way = "read" /\ ScheduleRetry(c)
RetryPgRead(c) == call[c].way = "pgread" /\ ScheduleRetry(c)
RetryOpen(c) == call[c].way = "open" /\ ScheduleRetry(c)

\* StatRetryHandler repeats the call at once. It is not deleted when the repetition is
\* accepted; when it is refused the user gets the error of the earlier one.
RetryStat(c) ==
    /\ call[c].way = "stat" /\ call[c].st = "issued" /\ Remaining(call[c]) > 0
    /\ \/ call' = [call EXCEPT ![c].attempt = @ + 1, ![c].live = @ \cup {call[c].attempt + 1}]
       \/ call' = [call EXCEPT ![c] = Answered(@, {call[c].attempt})]
    /\ UNCHANGED <<due, notified, threadVars, stateVars, retryCount, opened>>

\* HandleResponse otherwise: success, a final error, or no retries left.  An open
\* that succeeds sets m_is_opened before anything else sees the response.
Respond(c) ==
    /\ call[c].st = "issued"
    /\ call' = [call EXCEPT ![c] = Answered(@, {call[c].attempt})]
    /\ opened' \in {opened, IF call[c].way = "open" THEN opened \cup {c} ELSE opened}
    /\ UNCHANGED <<due, notified, threadVars, stateVars, retryCount>>

-----------------------------------------------------------------------------
(* RetryThread::Start, Run and Shutdown. *)

Start ==
    /\ ~started /\ stopping = "no"
    /\ started' = TRUE /\ pc' = "check"
    /\ UNCHANGED <<call, due, orphans, cur, wake, notified, shutdown, stopping,
                   retryCount, opened>>

Exit ==
    /\ pc' = "gone"
    /\ UNCHANGED <<due, cur, wake>>

\* queue.pop
Pop(S) == [c \in Calls |-> IF c \in S THEN None ELSE due[c]]

\* Run after its wait_until: one entry whose deadline has passed, or go back.
Fire ==
    IF shutdown /\ Queued = {}
    THEN Exit /\ UNCHANGED call
    ELSE IF Queued # {} /\ Top = 0
    THEN \E c \in Queued :
            /\ due[c] = Top
            /\ due' = Pop({c})
            /\ pc' = "fire" /\ cur' = c /\ wake' = 0
            /\ call' = [call EXCEPT ![c].st = "firing"]
    ELSE pc' = "check" /\ wake' = 0 /\ UNCHANGED <<call, due, cur>>

\* The predicate of wait_until.
Ready == shutdown \/ (Queued # {} /\ Top = 0)

\* The test for the end of Run.
Drained == shutdown /\ Queued = {}

\* Run, from the top of its loop or past the wait for the first entry.
Check ==
    /\ \/ pc = "check"
       \/ pc = "idle" /\ notified /\ (shutdown \/ Queued # {})
    /\ IF Drained
       THEN Exit /\ UNCHANGED <<call, notified>>
       ELSE IF Queued = {}
       THEN pc' = "idle" /\ notified' = FALSE /\ UNCHANGED <<call, due, cur, wake>>
       ELSE IF Ready
       THEN Fire /\ notified' = FALSE
       ELSE /\ pc' = "sleep" /\ wake' = Top /\ notified' = FALSE
            /\ UNCHANGED <<call, due, cur>>
    /\ UNCHANGED <<stateVars, retryCount, opened>>

\* wait_until ends at the deadline it was given, or when a notification finds its
\* predicate true; else it goes on waiting for the same deadline.
Wake ==
    /\ pc = "sleep"
    /\ \/ wake = 0 /\ Fire /\ notified' = FALSE
       \/ notified /\ Ready /\ Fire /\ notified' = FALSE
       \/ notified /\ ~Ready /\ wake > 0 /\ notified' = FALSE
          /\ UNCHANGED <<call, due, threadVars>>
    /\ UNCHANGED <<stateVars, retryCount, opened>>

\* The retry was refused: the new handler is deleted, the user gets the error.
RefusedRetry(r) == Answered(r, {r.attempt})

\* The entry's function, outside the lock: the wrapped file takes the call with the
\* new handler, or refuses it.
Reissue ==
    /\ pc = "fire"
    /\ \/ call' = [call EXCEPT ![cur].st = "issued"] /\ pc' = "count"
       \/ call' = [call EXCEPT ![cur] = RefusedRetry(@)] /\ pc' = "count"
    /\ UNCHANGED <<due, cur, wake, notified, stateVars, retryCount, opened>>

\* The counter of retries, then the old handler is deleted (self_guard).
FinishFire ==
    /\ pc = "count"
    /\ call' = [call EXCEPT ![cur].live = @ \ {Min(@)}]
    /\ pc' = "check" /\ cur' = None
    /\ UNCHANGED <<due, wake, notified, stateVars, retryCount, opened>>

Shutdown ==
    /\ stopping = "no"
    /\ IF started
       THEN /\ shutdown' = TRUE /\ notified' = TRUE /\ stopping' = "joining"
       ELSE /\ stopping' = "done" /\ UNCHANGED <<shutdown, notified>>
    /\ UNCHANGED <<call, due, orphans, threadVars, started, retryCount, opened>>

\* join returns; the state is deleted with the entries that came too late.
Joined ==
    /\ stopping = "joining" /\ pc = "gone"
    /\ stopping' = "done"
    /\ orphans' = orphans \cup Queued /\ due' = Pop(Calls)
    /\ UNCHANGED <<call, threadVars, notified, started, shutdown, retryCount, opened>>

-----------------------------------------------------------------------------

Run == Check \/ Wake \/ Reissue \/ FinishFire

\* Everything has ended.
Terminated ==
    /\ \A c \in Calls : call[c].st \in {"answered", "refused"} \/ c \in orphans
    /\ UNCHANGED vars

Next ==
    \/ Tick
    \/ \E c \in Calls : Issue(c) \/ RetryRead(c) \/ RetryPgRead(c) \/ RetryOpen(c)
                          \/ RetryStat(c) \/ Respond(c)
    \/ \E n \in Attempts : SetRetryCount(n)
    \/ Start \/ Run \/ Shutdown \/ Joined
    \/ Terminated

\* Time passes, the thread runs, Shutdown goes on once its thread has ended, and the
\* wrapped file answers: the operations of XrdClCurl are bounded by timeouts.
Fairness ==
    /\ WF_vars(Tick) /\ WF_vars(Run) /\ WF_vars(Joined)
    /\ \A c \in Calls : WF_vars(RetryRead(c) \/ RetryPgRead(c) \/ RetryOpen(c) \/ RetryStat(c)
                                 \/ Respond(c))

Spec == Init /\ [][Next]_vars
FairSpec == Spec /\ Fairness

-----------------------------------------------------------------------------
(* Properties. *)

\* However a call is refused, retried, refused again or answered, its user is called
\* at most once, never after the call was refused; when that has happened no entry
\* for it is left, and every retry handler made for it is deleted (but the one that
\* the retry thread is about to delete, and those of a Stat).  It is repeated at most as often as
\* PelicanRetryCount said when it was made.
RetryAnsweredOnce ==
    TypeOK /\ \A c \in Calls :
        /\ call[c].attempt <= call[c].budget
        /\ call[c].answers = IF call[c].st = "answered" THEN 1 ELSE 0
        /\ call[c].st \in {"answered", "refused"} =>
            /\ due[c] = None /\ c \notin orphans
            /\ cur # c /\ call[c].way # "stat" => call[c].live = {}
        /\ call[c].st = "issued" /\ call[c].way # "stat" =>
            call[c].live \ {call[c].attempt - 1} =
                IF call[c].budget > 0 THEN {call[c].attempt} ELSE {}

\* A call that the wrapped file took is answered, with retries in between and also
\* while RetryThread::Shutdown drains the queue; only an error that arrives after the
\* retry thread has ended is kept back for ever.
EveryCallAnswered ==
    \A c \in Calls :
        call[c].st = "issued" ~> (call[c].st = "answered" \/ c \in orphans)

\* RetryThread::Shutdown drains: what is in the queue before the thread has ended is
\* fired, also if Shutdown was called meanwhile, and Shutdown returns.
ShutdownDrains ==
    /\ \A c \in Calls : (due[c] # None /\ pc # "gone") ~> call[c].st = "firing"
    /\ stopping = "joining" ~> stopping = "done"

\* The comment in Run: it waits until the earliest deadline or until it is woken for
\* new work.  It does not sleep beyond the deadline of an entry it was told of.
NotPastDeadline ==
    pc = "sleep" /\ ~notified => \A c \in Queued : wake <= due[c]

=============================================================================
