----------------------------- MODULE CurlWorker -----------------------------
(***************************************************************************)
(* The event loop of one worker (CurlWorker::Run, XrdClCurlUtil.cc): the   *)
(* map of curl handles to operations, redirects, the OPTIONS probe that    *)
(* holds an operation back until the verbs of its endpoint are known, and  *)
(* connections that must be asked for from a connection broker.            *)
(*                                                                         *)
(* The loop is one thread and serves what libcurl, the broker and the      *)
(* clock have ready.  One event is one step, in any order: an iteration of *)
(* the loop may find just that event.  A step is sequential code, written  *)
(* here as operators that take the state s of the worker and return the    *)
(* next one.  The continue queue is left to PrefetchRead and PutFile.      *)
(***************************************************************************)
EXTENDS Integers, FiniteSets

CONSTANTS
    Ops,            \* operations
    Stats,          \* those that need the verbs of their endpoint
    Brokered,       \* those whose endpoints are reached through the broker
    Endpoints,
    Home,           \* the endpoint of the requests
    Handles,        \* addresses of curl handles
    Fds,            \* sockets to the broker
    MaxOps,         \* m_max_ops
    MaxRedirects,   \* m_max_redirects
    MaxProbes,      \* bound on the probes an operation has at a time
    MayExhaust,     \* whether curl_easy_init may return null
    MayLinger,      \* whether expired verbs stay in the cache for a while
    None

ASSUME ConstantsAssumption ==
    /\ IsFiniteSet(Ops) /\ IsFiniteSet(Handles)
    /\ Stats \subseteq Ops /\ Brokered \subseteq Ops
    /\ Home \in Endpoints
    /\ MaxOps \in Nat \ {0} /\ MaxRedirects \in Nat /\ MaxProbes \in Nat \ {0}
    /\ MayExhaust \in BOOLEAN /\ MayLinger \in BOOLEAN
    /\ None \notin Handles \cup Fds \cup Endpoints

\* Objects of class CurlOperation: the operations and their CurlOptionsOps.
Objects == Ops \X (0..MaxProbes)
Own(o) == <<o, 0>>
IsProbe(x) == x[2] > 0
Parent(x) == Own(x[1])

VARIABLES
    queued,         \* operations in the request queue
    op,             \* the members of each object
    opMap,          \* m_op_map
    multi,          \* handles libcurl runs
    pool,           \* HandlerQueue::m_handles
    running,        \* running_handles
    reqs,           \* broker_reqs: the handle that waits for each socket
    verbs,          \* VerbsCache: "unset", "unknown", "known", "stale"
    stopped         \* the loop has ended

vars == <<queued, op, opMap, multi, pool, running, reqs, verbs, stopped>>

State == [op |-> op, opMap |-> opMap, multi |-> multi, pool |-> pool,
          running |-> running, reqs |-> reqs, verbs |-> verbs]

Becomes(s) ==
    /\ op' = s.op /\ opMap' = s.opMap /\ multi' = s.multi /\ pool' = s.pool
    /\ running' = s.running /\ reqs' = s.reqs /\ verbs' = s.verbs

Idle == [curl |-> None, parentCurl |-> None, url |-> Home, redirect |-> FALSE,
         redirects |-> 0, callout |-> FALSE, req |-> None, tried |-> FALSE,
         answered |-> FALSE]

Init ==
    /\ queued = Ops
    /\ op = [x \in Objects |-> Idle]
    /\ opMap = [h \in Handles |-> None]
    /\ multi = {} /\ pool = {} /\ running = 0
    /\ reqs = [f \in Fds |-> None]
    /\ verbs = [e \in Endpoints |-> "unset"]
    /\ stopped = FALSE

InMap(s) == {h \in Handles : s.opMap[h] # None}

\* GetHandle: a recycled handle, else a new one, whose address does not matter;
\* None stands for null.
GetHandle(s) ==
    LET fresh == Handles \ (InMap(s) \cup s.multi) IN
    IF s.pool # {} THEN s.pool
    ELSE (IF fresh # {} THEN {CHOOSE h \in fresh : TRUE} ELSE {})
         \cup (IF MayExhaust THEN {None} ELSE {})

\* The sockets BeginCallout may return; None stands for its failure.
FreeFds(s) == (Fds \ {s.op[x].req : x \in Objects}) \cup {None}

\* What a redirect may find: no broker ("direct"), or one that is asked at once.
Connections(s, x) ==
    {"direct"} \cup
    (IF x # None /\ x[1] \in Brokered THEN FreeFds(s) ELSE {})

-----------------------------------------------------------------------------
(* VerbsCache *)

\* Put: what is known is not replaced by what is not, expired or not.
Put(s, e, v) ==
    IF v = "known" \/ s.verbs[e] \in {"unset", "unknown"}
    THEN [s EXCEPT !.verbs[e] = v] ELSE s

\* Get: expired verbs count as not probed.
Unset(s, e) == s.verbs[e] \in {"unset", "stale"}

-----------------------------------------------------------------------------
(* CurlOperation *)

\* Fail and Success: the handler of an operation is claimed and called; a probe
\* has none, and its failure is remembered in the cache.
Fail(s, x) ==
    IF IsProbe(x) THEN Put(s, s.op[x].url, "unknown")
    ELSE [s EXCEPT !.op[x].answered = TRUE]

Success(s, x) == [s EXCEPT !.op[x].answered = TRUE]

ReleaseHandle(s, x) ==
    [s EXCEPT !.op[x].curl = None, !.op[x].callout = FALSE,
              !.op[x].req = None, !.op[x].tried = FALSE]

\* Setup: the handle, and a callout if the broker of the endpoint is cached.
Setup(s, x, h, callout) ==
    [s EXCEPT !.op[x].curl = h, !.op[x].callout = callout,
              !.op[x].req = None, !.op[x].tried = FALSE]

Callouts(x) == IF x[1] \in Brokered THEN BOOLEAN ELSE {FALSE}

\* Too many redirects.
OverLimit(n) == n > MaxRedirects

\* Redirect to location loc (None: the server gave none), with the connection fd:
\* the new state and the action to take.
Redirect(s, x, loc, fd) ==
    LET n == s.op[x].redirects + 1
        cleared == [s EXCEPT !.op[x].callout = FALSE, !.op[x].req = None,
                             !.op[x].tried = FALSE]
        moved == [cleared EXCEPT !.op[x].redirects = n, !.op[x].url = loc,
                                 !.op[x].redirect = FALSE]
        called == [moved EXCEPT !.op[x].callout = TRUE, !.op[x].req = fd,
                                !.op[x].tried = TRUE]
        next == IF fd = "direct" THEN moved ELSE called
    IN  IF loc = None THEN <<Fail(cleared, x), "Fail">>
        ELSE IF OverLimit(n) THEN <<Fail(cleared, x), "Fail">>
        ELSE IF fd = None THEN <<Fail(next, x), "Fail">>
        ELSE IF x[1] \in Stats /\ Unset(s, loc)
        THEN <<[next EXCEPT !.op[x].redirect = TRUE], "ReinvokeAfterAllow">>
        ELSE <<next, "Reinvoke">>

-----------------------------------------------------------------------------
(* Pieces of the loop *)

AddHandle(s, h) == [s EXCEPT !.multi = @ \cup {h}]
RemoveHandle(s, h) == [s EXCEPT !.multi = @ \ {h}]
RecycleHandle(s, h) == [s EXCEPT !.pool = @ \cup {h}]

\* Mutant: the handle is not counted out.
EraseUncounted(s, h) == [s EXCEPT !.opMap[h] = None]

\* m_op_map.erase and running_handles -= 1.
Erase(s, h) == [s EXCEPT !.opMap[h] = None, !.running = @ - 1]

\* m_op_map[curl] = x, and the handle is set up for it.
Enter(s, x, h, callout) ==
    [Setup(s, x, h, callout) EXCEPT !.opMap[h] = x, !.pool = @ \ {h}]

\* curl_multi_add_handle and running_handles += 1.
Start(s, h) == [AddHandle(s, h) EXCEPT !.running = @ + 1]

\* The new CurlOptionsOp x on handle h, for the operation p with handle ph.
NewProbe(s, x, h, p, ph, callout) ==
    LET made == [s EXCEPT !.op[x] = [Idle EXCEPT !.url = s.op[p].url,
                                                  !.parentCurl = ph]]
    IN  Start(Enter(made, x, h, callout), h)

FreeProbes(s, o) ==
    {x \in {o} \X (1..MaxProbes) : \A h \in Handles : s.opMap[h] # x}

\* Mutant: the operation is left waiting.
DropParent(s, x, fd) == s

\* If x is a probe, it has failed: the operation it held back goes on, unless it
\* waits at a redirect that fails now.  (After an HTTP error the entry of the
\* parent is erased without a look at it; it is always there.)
ResumeParent(s, x, fd) ==
    LET p == Parent(x)
        ph == s.op[x].parentCurl
        r == Redirect(s, p, s.op[p].url, fd)
    IN  IF ~IsProbe(x) THEN s
        ELSE IF ~s.op[p].redirect THEN AddHandle(s, ph)
        ELSE IF r[2] # "Fail" THEN AddHandle(r[1], ph)
        ELSE IF s.opMap[ph] = None THEN r[1]
        ELSE Erase(Fail(r[1], s.opMap[ph]), ph)

-----------------------------------------------------------------------------
(* Consuming from the request queue *)

\* An operation without a handle, or whose Setup or FinishSetup fails; its
\* handle goes with it.
ConsumeFails(o) ==
    /\ ~stopped /\ o \in queued /\ running < MaxOps
    /\ queued' = queued \ {o}
    /\ \E h \in GetHandle(State) :
          Becomes([Fail(State, Own(o)) EXCEPT !.pool = @ \ {h}])
    /\ UNCHANGED stopped

\* An operation that starts.
ConsumeStart(o) ==
    /\ ~stopped /\ o \in queued /\ running < MaxOps
    /\ ~(o \in Stats /\ Unset(State, op[Own(o)].url))
    /\ queued' = queued \ {o}
    /\ \E h \in GetHandle(State) \ {None}, callout \in Callouts(Own(o)) :
          Becomes(Start(Enter(State, Own(o), h, callout), h))
    /\ UNCHANGED stopped

\* An operation that starts with a probe.  If there is no handle for the probe,
\* the operation is failed, and stays in the map.
ConsumeProbe(o) ==
    /\ ~stopped /\ o \in queued /\ running < MaxOps
    /\ o \in Stats /\ Unset(State, op[Own(o)].url)
    /\ queued' = queued \ {o}
    /\ \E h \in GetHandle(State) \ {None}, callout \in Callouts(Own(o)) :
          LET s == Enter(State, Own(o), h, callout) IN
          \E hp \in GetHandle(s), x \in FreeProbes(s, o), pc \in Callouts(Own(o)) :
             IF hp = None THEN Becomes(Fail(s, Own(o)))
             ELSE Becomes(NewProbe([s EXCEPT !.running = @ + 1], x, hp, Own(o), h, pc))
    /\ UNCHANGED stopped

-----------------------------------------------------------------------------
(* Waiting for the broker *)

\* broker_reqs.erase.
EraseRequest(s, f) == [s EXCEPT !.reqs[f] = None]

\* The request of socket f is 20 seconds old.
ExpireRequest(f) ==
    /\ ~stopped /\ reqs[f] # None
    /\ \E fd \in Connections(State, opMap[reqs[f]]) :
          LET h == reqs[f]
              x == opMap[h]
              t == IF x = None THEN State
                   ELSE Erase(ReleaseHandle(Fail(ResumeParent(State, x, fd), x), x), h)
          IN  Becomes(EraseRequest(t, f))
    /\ UNCHANGED <<queued, stopped>>

\* The broker answers on socket f.  WaitSocketCallback asks the operation that is
\* found, which fails if it has no callout under way.
Answer(f) ==
    /\ ~stopped /\ reqs[f] # None
    /\ \E x \in Objects : op[x].req = f
    /\ \E fd \in Connections(State, opMap[reqs[f]]), good \in BOOLEAN :
          LET h == reqs[f]
              x == opMap[h]
              done == [State EXCEPT !.op[x].req = None]
              t == IF x = None THEN State
                   ELSE IF good /\ op[x].req # None THEN AddHandle(done, h)
                   ELSE Erase(Fail(ResumeParent(done, x, fd), x), h)
          IN  Becomes(EraseRequest(t, f))
    /\ UNCHANGED <<queued, stopped>>

-----------------------------------------------------------------------------
(* Finished transfers *)

\* WaitSocket() >= 0.
Waits(s, x) == s.op[x].req # None

\* broker_reqs[callout_socket] = easy_handle, if the operation has a callout.
WaitFor(s, x, h) == IF Waits(s, x) THEN [s EXCEPT !.reqs[s.op[x].req] = h] ELSE s

\* The end of a handle, recycled or cleaned up.
Retire(s, h) == Erase(RemoveHandle(s, h), h)

\* The end of an operation whose request went well.
Finish(s, x, h) == Retire(RecycleHandle(ReleaseHandle(Success(s, x), x), h), h)

\* A handle libcurl has finished with, and the object it belongs to.
Finished(h, x) == ~stopped /\ h \in multi /\ x = opMap[h] /\ x # None

\* A response that is no error and no redirect.
CompleteOk(h, x) ==
    /\ Finished(h, x) /\ ~IsProbe(x)
    /\ Becomes(Finish([State EXCEPT !.op[x].redirect = FALSE], x, h))
    /\ UNCHANGED <<queued, stopped>>

\* A redirect.  An operation that must wait for its callout or for a probe leaves
\* the multi handle; one that Redirect has failed goes through Success as well.
CompleteRedirect(h, x) ==
    /\ Finished(h, x) /\ ~IsProbe(x)
    /\ \E loc \in Endpoints \cup {None}, fd \in Connections(State, x) :
          LET r == Redirect([State EXCEPT !.op[x].redirect = TRUE], x, loc, fd)
              s == WaitFor(RemoveHandle(r[1], h), x, h)
          IN  CASE r[2] = "Fail" -> Becomes(Finish(s, x, h))
                [] r[2] = "Reinvoke" ->
                     Becomes(IF Waits(s, x) THEN s ELSE AddHandle(s, h))
                [] r[2] = "ReinvokeAfterAllow" ->
                     \E hp \in GetHandle(s), p \in FreeProbes(s, x[1]), pc \in Callouts(x) :
                        IF hp = None THEN Becomes(Finish(Fail(s, x), x, h))
                        ELSE Becomes(NewProbe(s, p, hp, x, h, pc))
    /\ UNCHANGED <<queued, stopped>>

\* The OPTIONS response: the verbs are cached, the handle is recycled and the
\* operation is started; if it waits at a redirect, Redirect is called again.
\* Should it ask for another probe (expired verbs are still in the cache),
\* GetHandle returns the handle that was just recycled, which is then removed.
CompleteProbe(h, x) ==
    /\ Finished(h, x) /\ IsProbe(x)
    /\ \E v \in {"known", "unknown"}, fd \in Connections(State, x) :
          LET p == Parent(x)
              s == RecycleHandle(RemoveHandle(AddHandle(
                      ReleaseHandle(Put(State, op[x].url, v), x),
                      op[x].parentCurl), h), h)
              r == Redirect(s, p, op[p].url, fd)
              t == WaitFor(r[1], p, h)
          IN  IF ~op[p].redirect THEN Becomes(Erase(s, h))
              ELSE IF r[2] # "ReinvokeAfterAllow" THEN Becomes(Erase(t, h))
              ELSE \E n \in FreeProbes(t, p[1]), pc \in Callouts(p) :
                      Becomes(RemoveHandle(NewProbe(t, n, h, p, h, pc), h))
    /\ UNCHANGED <<queued, stopped>>

\* An HTTP error: the handle is recycled.
CompleteHttpError(h, x) ==
    /\ Finished(h, x)
    /\ \E fd \in Connections(State, x) :
          LET s == [State EXCEPT !.op[x].redirect = FALSE] IN
          Becomes(Retire(RecycleHandle(
              ResumeParent(ReleaseHandle(Fail(s, x), x), x, fd), h), h))
    /\ UNCHANGED <<queued, stopped>>

\* A transfer that libcurl or a callback has ended, timeouts included.
CompleteError(h, x) ==
    /\ Finished(h, x)
    /\ \E fd \in Connections(State, x) :
          Becomes(Retire(ReleaseHandle(ResumeParent(Fail(State, x), x, fd), x), h))
    /\ UNCHANGED <<queued, stopped>>

\* No connection could be reused: the broker is asked for one, once.
CompleteUnconnected(h, x) ==
    /\ Finished(h, x) /\ op[x].callout /\ ~op[x].tried
    /\ \E fd \in FreeFds(State) :
          LET s == [State EXCEPT !.op[x].tried = TRUE, !.op[x].req = fd] IN
          Becomes(IF fd = None THEN Retire(ReleaseHandle(Fail(s, x), x), h)
                  ELSE WaitFor(RemoveHandle(s, h), x, h))
    /\ UNCHANGED <<queued, stopped>>

-----------------------------------------------------------------------------
\* Cached verbs expire; until the expiry thread runs, the entry stays.
VerbsExpire(e) ==
    /\ verbs[e] # "unset"
    /\ \E v \in {"unset"} \cup (IF MayLinger /\ verbs[e] = "known" THEN {"stale"} ELSE {}) :
          verbs' = [verbs EXCEPT ![e] = v]
    /\ UNCHANGED <<queued, op, opMap, multi, pool, running, reqs, stopped>>

\* The loop ends.  Operations in the map are failed only if the last
\* curl_multi_wait went wrong.
Shutdown ==
    /\ ~stopped /\ stopped' = TRUE
    /\ \E bad \in BOOLEAN :
          op' = [x \in Objects |->
                   IF bad /\ ~IsProbe(x) /\ \E h \in Handles : opMap[h] = x
                   THEN [op[x] EXCEPT !.answered = TRUE] ELSE op[x]]
    /\ UNCHANGED <<queued, opMap, multi, pool, running, reqs, verbs>>

\* Nothing is under way.
Quiescent ==
    /\ \/ stopped
       \/ queued = {} /\ multi = {} /\ \A f \in Fds : reqs[f] = None
    /\ UNCHANGED vars

Complete(h, x) ==
    \/ CompleteOk(h, x) \/ CompleteRedirect(h, x) \/ CompleteProbe(h, x)
    \/ CompleteHttpError(h, x) \/ CompleteError(h, x) \/ CompleteUnconnected(h, x)

Consume(o) == ConsumeFails(o) \/ ConsumeStart(o) \/ ConsumeProbe(o)

Next ==
    \/ \E o \in Ops : Consume(o)
    \/ \E h \in Handles, x \in Objects : Complete(h, x)
    \/ \E f \in Fds : ExpireRequest(f) \/ Answer(f)
    \/ \E e \in Endpoints : VerbsExpire(e)
    \/ Shutdown \/ Quiescent

Spec == Init /\ [][Next]_vars

\* Every transfer ends, at the latest by its timeouts, and the maintenance pass
\* finds the requests to the broker that have expired.  The loop consumes while
\* it runs fewer than m_max_ops.
Fairness ==
    /\ \A h \in Handles : WF_vars(\E x \in Objects : Complete(h, x))
    /\ \A f \in Fds : WF_vars(ExpireRequest(f))
    /\ \A o \in Ops : WF_vars(Consume(o))

FairSpec == Spec /\ Fairness

-----------------------------------------------------------------------------
\* The type of the state.
TypeOK ==
    /\ queued \subseteq Ops
    /\ op \in [Objects -> [curl : Handles \cup {None}, parentCurl : Handles \cup {None},
                            url : Endpoints, redirect : BOOLEAN,
                            redirects : 0..MaxRedirects, callout : BOOLEAN,
                            req : Fds \cup {None}, tried : BOOLEAN, answered : BOOLEAN]]
    /\ opMap \in [Handles -> Objects \cup {None}]
    /\ multi \subseteq Handles /\ pool \subseteq Handles /\ running \in Nat
    /\ reqs \in [Fds -> Handles \cup {None}]
    /\ verbs \in [Endpoints -> {"unset", "unknown", "known", "stale"}]
    /\ stopped \in BOOLEAN

\* The operations a probe holds back.
HeldBack == {op[opMap[h]].parentCurl : h \in {k \in Handles : opMap[k] # None /\ IsProbe(opMap[k])}}
Waiting == {reqs[f] : f \in {g \in Fds : reqs[g] # None}}

\* running_handles counts the handles that run, wait for the broker or for a
\* probe: at zero the worker sleeps in Consume, above m_max_ops it takes nothing.
RunningExact == running = Cardinality(multi \cup HeldBack \cup Waiting)

\* A handle belongs to one operation: what libcurl runs is in the map, under the
\* operation that was set up on it, and is not free for another one; broker_reqs
\* maps a socket to the handle of the operation that asked for the connection.
HandlesOwned ==
    /\ multi \subseteq InMap(State)
    /\ \A h \in InMap(State) : op[opMap[h]].curl = h
    /\ pool \cap InMap(State) = {}
    /\ \A f \in Fds : reqs[f] # None =>
          opMap[reqs[f]] # None /\ op[opMap[reqs[f]]].req = f

\* The operation a probe is made for does not run before the probe has ended.
ParentHeld == HeldBack \cap multi = {}

\* The worker's books are exact, through redirects, probes and the broker: the
\* count and the owners of the handles, and what is held back.
HandlesExact == TypeOK /\ RunningExact /\ HandlesOwned /\ ParentHeld

\* Every operation is taken and answered, unless the worker is stopped: no path
\* through redirects, probes and the broker forgets one, or leaves the worker
\* at its limit.
EveryOpAnswered == \A o \in Ops : <>(op[Own(o)].answered \/ stopped)
=============================================================================
