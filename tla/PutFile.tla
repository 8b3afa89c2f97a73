------------------------------ MODULE PutFile ------------------------------
(***************************************************************************)
(* Writing one file with one PUT: File::Write, File::Close and ~File, the  *)
(* PutResponseHandler that serialises the writes, CurlPutOp and the worker *)
(* that drives the upload (src/XrdClCurl/XrdClCurlFile.cc,                 *)
(* XrdClCurlOpPut.cc, XrdClCurlUtil.cc).                                   *)
(*                                                                         *)
(* As in PrefetchRead, todo[t] is the code thread t has still to run, one  *)
(* piece per step.  PutResponseHandler::m_mutex stays held while the next  *)
(* write is handed to the operation, so lock names its owner between steps.*)
(*                                                                         *)
(* libcurl and the origin are external: libcurl asks the read callback for *)
(* data until it returns 0, pauses or has given the announced number of    *)
(* bytes, and again after it was unpaused; a body that ends too early      *)
(* fails; the origin answers a complete body or fails the request.         *)
(***************************************************************************)
EXTENDS Integers, Sequences, FiniteSets

CONSTANTS
    Writes,         \* calls of File::Write, each on an application thread
    Offset, Size,   \* of each write
    Worker, Closer, \* the curl worker thread, the thread that closes the file
    OverlapCalls,   \* whether calls of Write may overlap in time
    MayFail,        \* whether requests are refused, fail or stall
    MayExpire,      \* whether continuations expire in the continue queue
    MayReject,      \* whether the continue queue may refuse a continuation
    Asizes,         \* the sizes announced with oss.asize, -1 for none
    None

ASSUME ConstantsAssumption ==
    /\ IsFiniteSet(Writes)
    /\ Offset \in [Writes -> Nat] /\ Size \in [Writes -> Nat]
    /\ OverlapCalls \in BOOLEAN /\ MayFail \in BOOLEAN
    /\ MayExpire \in BOOLEAN /\ MayReject \in BOOLEAN
    /\ Asizes \subseteq Nat \cup {-1}
    /\ Worker \notin Writes /\ Closer \notin Writes /\ Worker # Closer
    /\ None \notin Writes \cup {Worker, Closer}

VARIABLES
    \* File
    isOpened,       \* m_is_opened
    destroyed,      \* ~File has returned
    putHandler,     \* m_put_handler is set
    putOp,          \* m_put_op, and m_op of the PutResponseHandler, are set
    putOffset,      \* m_put_offset
    asize,          \* m_asize
    \* PutResponseHandler
    active,         \* m_active
    activeHandler,  \* m_active_handler
    pendingWrites,  \* m_pending_writes
    lock,           \* who holds m_mutex between two steps
    \* CurlPutOp
    installed,      \* m_handler is the PutResponseHandler
    data,           \* m_data
    final,          \* m_final
    done,           \* m_done
    hasFailed,      \* m_has_failed
    isPaused,       \* m_is_paused
    \* worker, libcurl and origin
    slot,           \* where the operation is in the worker
    continueQueue,  \* how many times the operation is in m_continue_queue
    curlPaused,     \* libcurl holds the upload back
    bodySent,       \* the read callback has returned 0
    object,         \* the bytes the origin has received
    \* application
    calls,          \* the state of each write and of the close
    noOpUsed,       \* QueueWrite ran before the operation was set
    todo

fileVars == <<isOpened, destroyed, putHandler, putOp, putOffset,
              asize>>
queueVars == <<active, activeHandler, pendingWrites, lock>>
opVars == <<installed, data, final, done, hasFailed, isPaused>>
curlVars == <<slot, continueQueue, curlPaused, bodySent, object>>
vars == <<fileVars, queueVars, opVars, curlVars, calls, noOpUsed, todo>>

\* Closing sends an empty write, so the close is one of the calls.
Calls == Writes \cup {Closer}
Threads == Calls \cup {Worker}

Piece(do, h) == [do |-> do, h |-> h]
Just(do) == Piece(do, None)
Top(t, do) == todo[t] # << >> /\ Head(todo[t]).do = do
TopHandler(t) == Head(todo[t]).h
Push(t, pieces) == todo' = [todo EXCEPT ![t] = pieces \o Tail(@)]
Call(t, pieces) == todo[t] = << >> /\ todo' = [todo EXCEPT ![t] = pieces]

Fail == <<Just("SetFailed"), Just("ClaimFail")>>
FailAndRelease == Fail \o <<Just("Release")>>
Success == <<Just("SetDone"), Just("ClaimSuccess"), Just("Release")>>

\* Continue, called with m_mutex held, and the return that releases it.
Continue(h) == <<Piece("Install", h), Just("Enqueue")>>

\* A byte is named by the offset its write claims for it.
Bytes(at, n) == [i \in 1..n |-> at + i - 1]
Payload(h) == IF h \in Writes THEN Bytes(Offset[h], Size[h]) ELSE << >>

Init ==
    /\ isOpened = TRUE /\ destroyed = FALSE
    /\ putHandler = FALSE /\ putOp = FALSE /\ putOffset = 0
    /\ asize \in Asizes
    /\ active = FALSE /\ activeHandler = None /\ pendingWrites = << >> /\ lock = None
    /\ installed = FALSE /\ data = << >> /\ final = FALSE
    /\ done = FALSE /\ hasFailed = FALSE /\ isPaused = FALSE
    /\ slot = "none" /\ continueQueue = 0 /\ curlPaused = FALSE
    /\ bodySent = FALSE /\ object = << >>
    /\ calls = [c \in Calls |-> "idle"]
    /\ noOpUsed = FALSE
    /\ todo = [t \in Threads |-> << >>]

Return(c, result) == calls' = [calls EXCEPT ![c] = result]

\* The handler of call c is invoked.
Answered(c, result) ==
    [calls EXCEPT ![c] = IF @ = "called" THEN result ELSE "twice"]

-----------------------------------------------------------------------------
(* File::Write *)

CallWrite(w) ==
    /\ calls[w] = "idle"
    /\ OverlapCalls \/ \A t \in Calls : todo[t] = << >>
    /\ IF isOpened
       THEN /\ Return(w, "called")
            /\ Call(w, <<Just(IF putHandler THEN "Advance" ELSE "Create")>>)
       ELSE Return(w, "refused") /\ Call(w, << >>)
    /\ UNCHANGED <<fileVars, queueVars, opVars, curlVars, noOpUsed>>

\* The first write installs the PutResponseHandler; a write that lost the
\* race for it goes straight to the winner's queue.
Create(w) ==
    /\ Top(w, "Create")
    /\ IF putHandler
       THEN /\ Push(w, <<Just("QueueWrite")>>)
            /\ UNCHANGED <<putHandler, queueVars>>
       ELSE /\ putHandler' = TRUE
            /\ active' = TRUE /\ activeHandler' = w /\ pendingWrites' = << >>
            /\ Push(w, <<Just("NewOp")>>)
            /\ UNCHANGED lock
    /\ UNCHANGED <<isOpened, destroyed, putOp, putOffset, asize, opVars,
                   curlVars, calls, noOpUsed>>

\* An upload starts at offset 0, or not at all.
NewOp(w) ==
    /\ Top(w, "NewOp")
    /\ IF Offset[w] # 0
       THEN /\ putHandler' = FALSE /\ active' = FALSE /\ activeHandler' = None
            /\ Return(w, "refused")
            /\ Push(w, << >>)
            /\ UNCHANGED <<putOp, putOffset, installed, data>>
       ELSE /\ putOp' = TRUE
            /\ installed' = TRUE
            /\ data' = Payload(w)
            /\ putOffset' = putOffset + Size[w]
            /\ Push(w, <<Just("Produce")>>)
            /\ UNCHANGED <<putHandler, active, activeHandler, calls>>
    /\ UNCHANGED <<isOpened, destroyed, asize, pendingWrites, lock, final, done,
                   hasFailed, isPaused, curlVars, noOpUsed>>

\* m_queue->Produce: queued, or refused and failed at once.
Produce(t) ==
    /\ Top(t, "Produce")
    /\ \/ slot' = "queued" /\ Push(t, << >>)
       \/ MayFail /\ slot' = "released" /\ Push(t, Fail)
    /\ UNCHANGED <<fileVars, queueVars, opVars, continueQueue, curlPaused,
                   bodySent, object, calls, noOpUsed>>

\* Mutant: the offset is not compared.
AnyOffset(w) == TRUE

\* A later write has to ask for the current end of the upload.
AtEnd(w) == Offset[w] = putOffset

\* A later write claims its place: fetch_add, and fetch_sub if it was wrong.
Advance(w) ==
    /\ Top(w, "Advance")
    /\ putOffset' = putOffset + Size[w]
    /\ Push(w, <<Just(IF AtEnd(w) THEN "QueueWrite" ELSE "Retreat")>>)
    /\ UNCHANGED <<isOpened, destroyed, putHandler, putOp, asize, queueVars,
                   opVars, curlVars, calls, noOpUsed>>

\* fetch_sub.
Without(w) == putOffset - Size[w]

Retreat(w) ==
    /\ Top(w, "Retreat")
    /\ putOffset' = Without(w)
    /\ Return(w, "refused")
    /\ Push(w, << >>)
    /\ UNCHANGED <<isOpened, destroyed, putHandler, putOp, asize, queueVars,
                   opVars, curlVars, noOpUsed>>

\* QueueWrite, before the lock: a failed operation takes no more writes.
QueueWrite(c) ==
    /\ Top(c, "QueueWrite")
    /\ noOpUsed' = (noOpUsed \/ ~putOp)
    /\ IF hasFailed
       THEN Return(c, "refused") /\ Push(c, << >>)
       ELSE calls' = calls /\ Push(c, <<Just("EnterQueue")>>)
    /\ UNCHANGED <<fileVars, queueVars, opVars, curlVars>>

\* The operation still works on an earlier write.
Busy == active

\* QueueWrite, with the lock: the write goes to the operation or waits.
EnterQueue(c) ==
    /\ Top(c, "EnterQueue") /\ lock = None
    /\ IF ~Busy
       THEN /\ active' = TRUE /\ activeHandler' = c
            /\ lock' = c
            /\ Push(c, Continue(c) \o <<Just("Unlock")>>)
            /\ UNCHANGED pendingWrites
       ELSE /\ pendingWrites' = Append(pendingWrites, c)
            /\ Push(c, << >>)
            /\ UNCHANGED <<active, activeHandler, lock>>
    /\ UNCHANGED <<fileVars, opVars, curlVars, calls, noOpUsed>>

Unlock(t) ==
    /\ Top(t, "Unlock") \/ Top(t, "PopUnlock")
    /\ lock' = None
    /\ pendingWrites' = IF Top(t, "PopUnlock") THEN Tail(pendingWrites)
                        ELSE pendingWrites
    /\ Push(t, << >>)
    /\ UNCHANGED <<fileVars, active, activeHandler, opVars, curlVars, calls,
                   noOpUsed>>

-----------------------------------------------------------------------------
(* CurlPutOp *)

\* Mutant: the end of the body is never marked.
NeverLast(h) == FALSE

\* An empty write is the last one.
LastWrite(h) == Payload(h) = << >>

\* Continue: the handler, the data, and the mark of the last, empty write.
Install(t) ==
    /\ Top(t, "Install")
    /\ installed' = TRUE
    /\ data' = Payload(TopHandler(t))
    /\ final' = (final \/ LastWrite(TopHandler(t)))
    /\ Push(t, << >>)
    /\ UNCHANGED <<fileVars, queueVars, done, hasFailed, isPaused, curlVars,
                   calls, noOpUsed>>

\* m_continue_queue->Produce: queued, or refused because the deadline of the
\* operation has passed, and then failed by the caller.
Enqueue(t) ==
    /\ Top(t, "Enqueue")
    /\ \/ continueQueue' = continueQueue + 1 /\ Push(t, << >>)
       \/ MayReject /\ continueQueue' = continueQueue /\ Push(t, Fail)
    /\ UNCHANGED <<fileVars, queueVars, opVars, slot, curlPaused, bodySent,
                   object, calls, noOpUsed>>

SetDone(t) ==
    /\ Top(t, "SetDone") \/ Top(t, "SetFailed")
    /\ done' = TRUE
    /\ hasFailed' = Top(t, "SetFailed")
    /\ Push(t, << >>)
    /\ UNCHANGED <<fileVars, queueVars, installed, data, final, isPaused,
                   curlVars, calls, noOpUsed>>

\* The handler is claimed by Success, Pause (HandleOk), Fail or
\* FailStrandedHandler (HandleError).  Without one the default handler logs.
Claim(t) ==
    /\ \/ Top(t, "ClaimSuccess") \/ Top(t, "ClaimPause") \/ Top(t, "ClaimFail")
    /\ installed' = FALSE
    /\ Push(t, IF ~installed THEN << >>
               ELSE <<Just(IF Top(t, "ClaimFail") THEN "HandleError" ELSE "HandleOk")>>)
    /\ UNCHANGED <<fileVars, queueVars, data, final, done, hasFailed, isPaused,
                   curlVars, calls, noOpUsed>>

-----------------------------------------------------------------------------
(* PutResponseHandler::HandleResponse *)

AnswerAll(handlers, do) == [i \in DOMAIN handlers |-> Piece(do, handlers[i])]

\* Mutant: the writes in the queue are forgotten.
OnlyActive == IF activeHandler = None THEN << >> ELSE <<activeHandler>>

\* Who learns of a failure: the active write, then those behind it.
Failing == (IF activeHandler = None THEN << >> ELSE <<activeHandler>>) \o pendingWrites

\* What m_active becomes when no write is left.
Inactive == FALSE

\* Mutant: the queue is not cleared.
Uncleared == pendingWrites

\* The queue after a failure.
Cleared == << >>

\* After a failure, nothing is active and nobody waits.
HandleError(t) ==
    /\ Top(t, "HandleError") /\ lock = None
    /\ active' = Inactive /\ activeHandler' = None /\ pendingWrites' = Cleared
    /\ Push(t, AnswerAll(Failing, "AnswerError"))
    /\ UNCHANGED <<fileVars, lock, opVars, curlVars, calls, noOpUsed>>

\* After a success, the next write starts before this one is answered.
HandleOk(t) ==
    /\ Top(t, "HandleOk")
    /\ Push(t, <<Just("ProcessQueue")>> \o
               IF activeHandler = None THEN << >>
               ELSE <<Piece("AnswerOk", activeHandler)>>)
    /\ UNCHANGED <<fileVars, queueVars, opVars, curlVars, calls, noOpUsed>>

ProcessQueue(t) ==
    /\ Top(t, "ProcessQueue") /\ lock = None
    /\ IF pendingWrites = << >>
       THEN /\ active' = Inactive /\ activeHandler' = None
            /\ Push(t, << >>)
            /\ UNCHANGED lock
       ELSE /\ activeHandler' = Head(pendingWrites)
            /\ lock' = t
            /\ Push(t, Continue(Head(pendingWrites)) \o <<Just("PopUnlock")>>)
            /\ UNCHANGED active
    /\ UNCHANGED <<fileVars, pendingWrites, opVars, curlVars, calls, noOpUsed>>

Answer(t) ==
    /\ Top(t, "AnswerOk") \/ Top(t, "AnswerError")
    /\ calls' = Answered(TopHandler(t), IF Top(t, "AnswerOk") THEN "ok" ELSE "error")
    /\ Push(t, << >>)
    /\ UNCHANGED <<fileVars, queueVars, opVars, curlVars, noOpUsed>>

-----------------------------------------------------------------------------
(* The worker thread *)

WorkerStart ==
    /\ slot = "queued"
    /\ \/ slot' = "active" /\ Call(Worker, << >>)
       \/ MayFail /\ slot' = "released" /\ Call(Worker, Fail)
    /\ UNCHANGED <<fileVars, queueVars, opVars, continueQueue, curlPaused,
                   bodySent, object, calls, noOpUsed>>

\* All bytes of the Content-Length header, which Write and Close derive from
\* m_asize, have been read; without one, the read callback has returned 0.
BodyComplete == IF asize >= 0 THEN Len(object) >= asize ELSE bodySent

\* libcurl asks for data: some of it, the end of the body, or a pause.
ReadCallback ==
    /\ slot = "active" /\ ~curlPaused /\ ~bodySent /\ ~BodyComplete
    /\ IF data # << >>
       THEN \E k \in 1..Len(data) :
            /\ asize >= 0 => Len(object) + k <= asize
            /\ object' = object \o SubSeq(data, 1, k)
            /\ data' = SubSeq(data, k + 1, Len(data))
            /\ Call(Worker, << >>)
            /\ UNCHANGED <<bodySent, isPaused>>
       ELSE /\ bodySent' = final
            /\ isPaused' = (isPaused \/ ~final)
            /\ Call(Worker, IF final THEN << >>
                            ELSE <<Just("ClaimPause"), Just("CurlPaused")>>)
            /\ UNCHANGED <<object, data>>
    /\ UNCHANGED <<fileVars, queueVars, installed, final, done, hasFailed, slot,
                   continueQueue, curlPaused, calls, noOpUsed>>

\* The read callback returned CURL_READFUNC_PAUSE.
CurlPaused ==
    /\ Top(Worker, "CurlPaused")
    /\ curlPaused' = TRUE
    /\ Push(Worker, << >>)
    /\ UNCHANGED <<fileVars, queueVars, opVars, slot, continueQueue, bodySent,
                   object, calls, noOpUsed>>

\* The origin answers once it has the whole body.
TransferCompletes ==
    /\ slot = "active" /\ BodyComplete
    /\ Call(Worker, Success)
    /\ UNCHANGED <<fileVars, queueVars, opVars, curlVars, calls, noOpUsed>>

\* The body ended before the announced number of bytes.
BodyShort == bodySent /\ ~BodyComplete

\* CURLMSG_DONE with an error: the body is short, the request failed or stalled.
TransferFails ==
    /\ slot = "active" /\ (BodyShort \/ MayFail)
    /\ Call(Worker, FailAndRelease)
    /\ UNCHANGED <<fileVars, queueVars, opVars, curlVars, calls, noOpUsed>>

Release ==
    /\ Top(Worker, "Release")
    /\ slot' = "released"
    /\ Push(Worker, << >>)
    /\ UNCHANGED <<fileVars, queueVars, opVars, continueQueue, curlPaused,
                   bodySent, object, calls, noOpUsed>>

\* The worker takes a continuation: an ended operation's handler is claimed
\* and failed (FailStrandedHandler), a paused transfer resumes.
DrainContinue ==
    /\ continueQueue > 0
    /\ continueQueue' = continueQueue - 1
    /\ \/ /\ done
          /\ Call(Worker, <<Just("ClaimFail")>>)
          /\ UNCHANGED <<curlPaused, isPaused>>
       \/ /\ ~done
          /\ curlPaused' = FALSE /\ isPaused' = FALSE
          /\ Call(Worker, << >>)
       \/ /\ ~done /\ MayFail
          /\ Call(Worker, FailAndRelease)
          /\ UNCHANGED <<curlPaused, isPaused>>
    /\ UNCHANGED <<fileVars, queueVars, installed, data, final, done, hasFailed,
                   slot, bodySent, object, calls, noOpUsed>>

\* HandlerQueue::Expire on the continue queue: the operation has been idle for
\* the stall interval.  A paused transfer is woken, then every continuation is
\* removed and failed.
ExpireContinue ==
    /\ continueQueue > 0 /\ MayExpire
    /\ continueQueue' = 0
    /\ curlPaused' = (curlPaused /\ ~isPaused)
    /\ isPaused' = FALSE
    /\ Call(Worker, IF continueQueue = 1 THEN Fail ELSE Fail \o Fail)
    /\ UNCHANGED <<fileVars, queueVars, installed, data, final, done, hasFailed,
                   slot, bodySent, object, calls, noOpUsed>>

-----------------------------------------------------------------------------
(* Close and ~File *)

\* A running upload of unknown size is ended with an empty write; a file that
\* was never written is created with an empty PUT; otherwise the close is
\* answered at once, also when the upload has failed.
Close ==
    /\ isOpened
    /\ \A w \in Writes : todo[w] = << >>
    /\ isOpened' = FALSE
    /\ IF putOp /\ ~hasFailed /\ ~(asize >= 0 /\ putOffset = asize)
       THEN /\ Return(Closer, "called")
            /\ Call(Closer, <<Just("QueueWrite")>>)
            /\ UNCHANGED <<putHandler, putOp, asize, active, activeHandler,
                           installed>>
       ELSE IF ~putOp
       THEN /\ asize' = 0
            /\ putHandler' = TRUE /\ putOp' = TRUE
            /\ active' = TRUE /\ activeHandler' = Closer
            /\ installed' = TRUE
            /\ Return(Closer, "called")
            /\ Call(Closer, <<Just("Produce")>>)
       ELSE /\ Return(Closer, "ok")
            /\ Call(Closer, << >>)
            /\ UNCHANGED <<putHandler, putOp, asize, active, activeHandler,
                           installed>>
    /\ UNCHANGED <<destroyed, putOffset, pendingWrites, lock, data, final, done,
                   hasFailed, isPaused, curlVars, noOpUsed>>

\* Mutant: ~File does not wait.
AlwaysComplete == TRUE

\* WaitForCompletion.
Complete == ~active

\* ~File, which XrdCl runs without waiting for the answer to Close.
Destroy ==
    /\ ~isOpened /\ ~destroyed
    /\ \A w \in Writes : todo[w] = << >>
    /\ lock = None /\ Complete
    /\ destroyed' = TRUE
    /\ Call(Closer, << >>)
    /\ UNCHANGED <<isOpened, putHandler, putOp, putOffset, asize, queueVars,
                   opVars, curlVars, calls, noOpUsed>>

-----------------------------------------------------------------------------
WriteStep(w) == Create(w) \/ NewOp(w) \/ Advance(w) \/ Retreat(w)

HandlerStep(t) ==
    \/ Produce(t) \/ Install(t) \/ Enqueue(t) \/ Unlock(t)
    \/ SetDone(t) \/ Claim(t)
    \/ HandleError(t) \/ HandleOk(t) \/ ProcessQueue(t) \/ Answer(t)

CallStep(c) == QueueWrite(c) \/ EnterQueue(c)

WorkerStep ==
    \/ WorkerStart \/ ReadCallback \/ CurlPaused \/ TransferCompletes
    \/ TransferFails \/ Release \/ DrainContinue \/ ExpireContinue

Quiescent ==
    /\ \A t \in Threads : todo[t] = << >>
    /\ UNCHANGED vars

Next ==
    \/ \E w \in Writes : CallWrite(w) \/ WriteStep(w)
    \/ \E c \in Calls : CallStep(c)
    \/ \E t \in Threads : HandlerStep(t)
    \/ WorkerStep
    \/ Close
    \/ Destroy
    \/ Quiescent

Spec == Init /\ [][Next]_vars

\* Every thread that is inside the code goes on, and the worker takes
\* what is ready: its loop serves both queues and every socket in each turn.
Fairness ==
    /\ \A w \in Writes : WF_vars(WriteStep(w))
    /\ \A c \in Calls : WF_vars(CallStep(c))
    /\ \A t \in Threads : WF_vars(HandlerStep(t))
    /\ WF_vars(WorkerStart \/ ReadCallback \/ CurlPaused \/ TransferCompletes
               \/ (BodyShort /\ TransferFails) \/ Release \/ DrainContinue)
    /\ WF_vars(Destroy)

FairSpec == Spec /\ Fairness

-----------------------------------------------------------------------------
Pieces == [do : {"Create", "NewOp", "Produce", "Advance", "Retreat", "QueueWrite",
                 "EnterQueue", "Unlock", "PopUnlock", "Install", "Enqueue",
                 "SetDone", "SetFailed", "ClaimSuccess", "ClaimPause", "ClaimFail",
                 "HandleError", "HandleOk", "ProcessQueue", "AnswerOk",
                 "AnswerError", "CurlPaused", "Release"},
           h : Calls \cup {None}]

\* The type of the state.
TypeOK ==
    /\ isOpened \in BOOLEAN /\ destroyed \in BOOLEAN
    /\ putHandler \in BOOLEAN /\ putOp \in BOOLEAN
    /\ putOffset \in Nat /\ asize \in Nat \cup {-1}
    /\ active \in BOOLEAN /\ activeHandler \in Calls \cup {None}
    /\ pendingWrites \in Seq(Calls) /\ lock \in Threads \cup {None}
    /\ installed \in BOOLEAN /\ data \in Seq(Nat) /\ final \in BOOLEAN
    /\ done \in BOOLEAN /\ hasFailed \in BOOLEAN /\ isPaused \in BOOLEAN
    /\ slot \in {"none", "queued", "active", "released"}
    /\ continueQueue \in 0..2 /\ curlPaused \in BOOLEAN
    /\ bodySent \in BOOLEAN /\ object \in Seq(Nat)
    /\ calls \in [Calls -> {"idle", "called", "refused", "ok", "error", "twice"}]
    /\ noOpUsed \in BOOLEAN
    /\ todo \in [Threads -> Seq(Pieces)]

NobodyFailed == \A c \in Calls : calls[c] # "error"

\* No silent gap: unless some call was answered with an error, the origin has
\* received a prefix of the file, the bytes in offset order, none missing, none
\* twice (Write's offset test, the queue of PutResponseHandler, ReadCallback).
UploadInOrder == NobodyFailed => object = Bytes(0, Len(object))

\* No handler is invoked twice, or invoked after Write returned an error:
\* Success, Pause, Fail and FailStrandedHandler race for it (ClaimHandler).
AnsweredOnce == TypeOK /\ \A c \in Calls : calls[c] # "twice"

\* Unless some call was answered with an error, a write that was answered OK
\* has been taken by libcurl to its last byte
\* (Pause answers from the read callback, Success from the worker).
OkMeansTaken ==
    NobodyFailed => \A w \in Writes : calls[w] = "ok" =>
        Offset[w]..Offset[w] + Size[w] - 1 \subseteq {object[i] : i \in DOMAIN object}

\* Unless some call was answered with an error, the bytes libcurl may still read belong to
\* a write whose buffer has not been given back (HandleResponse answers only
\* the active write).
BufferStillOwned ==
    (NobodyFailed /\ data # << >>) =>
        \E w \in Writes : /\ calls[w] = "called"
                          /\ Head(data) \in Offset[w]..Offset[w] + Size[w] - 1

\* A close answered OK after an upload of unannounced size that did not fail
\* means that the origin confirmed the object, with every accepted byte.
CloseMeansStored ==
    (calls[Closer] = "ok" /\ NobodyFailed /\ ~hasFailed /\ asize = -1) =>
        done /\ Len(object) = putOffset

\* Once ~File has deleted the PutResponseHandler nobody calls it: it is not
\* installed and no thread is inside it (WaitForCompletion and m_active).
NoLateCallback ==
    destroyed =>
        /\ ~installed
        /\ \A t \in Threads : \A i \in DOMAIN todo[t] :
              todo[t][i].do \notin {"HandleOk", "HandleError", "ProcessQueue",
                                   "Unlock", "PopUnlock"}

\* An answer of OK is true: of a write, and of the close that ends the upload.
OkIsTrue == OkMeansTaken /\ CloseMeansStored

\* What the caller has been given back is not used any more: neither the buffer of an
\* answered write by libcurl nor the deleted handler by a callback.
NoLateUse == BufferStillOwned /\ NoLateCallback

\* No thread asks for m_mutex while it holds it: a continuation the queue
\* refuses is failed on the thread that queued it.
NoSelfDeadlock ==
    \A t \in Threads : ~(lock = t /\ (Top(t, "HandleError") \/ Top(t, "ProcessQueue")))

\* QueueWrite only runs when the operation it continues has been set.
OpSetBeforeUse == ~noOpUsed

\* Every write and close that was accepted is eventually answered, and ~File
\* returns: the wait for the active write ends.
EveryCallAnswered ==
    /\ \A c \in Calls : (calls[c] = "called") ~> (calls[c] # "called")
    /\ ~isOpened ~> destroyed
=============================================================================
