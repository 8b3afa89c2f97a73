---------------------------- MODULE PrefetchRead ----------------------------
(***************************************************************************)
(* Sequential reads of one open file served by one long GET (the prefetch  *)
(* operation): File::Read/ReadPrefetch, the chain of                       *)
(* PrefetchResponseHandlers, CurlReadOp, the worker thread that drives the *)
(* transfer and its continue queue, and File::Close/~File                  *)
(* (src/XrdClCurl/XrdClCurlFile.cc, XrdClCurlOpRead.cc, XrdClCurlUtil.cc). *)
(*                                                                         *)
(* Calls nest across components (a write callback delivers a response,     *)
(* whose handler continues the operation for the next read, which may      *)
(* deliver again...), on whichever thread they happen.  So each thread has *)
(* a stack of the pieces of code it has still to run, todo[t]; one step    *)
(* runs the piece on top and pushes the calls it makes.  A piece is code   *)
(* that no other thread can observe half done: a critical section of       *)
(* m_prefetch_mutex or of the continue queue, or one access to an atomic   *)
(* member of the operation.                                                *)
(*                                                                         *)
(* libcurl is external: it calls Write with the next bytes, in order; it   *)
(* holds the transfer back once Write answers CURL_WRITEFUNC_PAUSE; and    *)
(* curl_easy_pause(CURLPAUSE_CONT) may call Write before it returns.       *)
(***************************************************************************)
EXTENDS Integers, Sequences, FiniteSets

CONSTANTS
    Reads,          \* calls of File::Read, each on an application thread
    Offset,         \* the offset each read asks for
    Size,           \* the number of bytes each read asks for
    ObjectLen,      \* the size of the remote object (m_prefetch_size)
    MaxBlock,       \* bound: most bytes one Write callback carries
    Worker,         \* the curl worker thread
    Closer,         \* the thread that closes and destroys the file
    MayTimeout,     \* whether requests are refused, fail or stall
    ReadsIn,        \* the reads made in an "orderly" behaviour (the file is closed when
                    \* no read waits) and in one where it is closed "anytime" (no call
                    \* of Read is in progress) and continuations expire in their queue
    None

ASSUME ConstantsAssumption ==
    /\ IsFiniteSet(Reads)
    /\ Offset \in [Reads -> Nat] /\ Size \in [Reads -> Nat \ {0}]
    /\ ObjectLen \in Nat /\ MaxBlock \in Nat \ {0}
    /\ MayTimeout \in BOOLEAN
    /\ DOMAIN ReadsIn \subseteq {"orderly", "anytime"}
    /\ \A c \in DOMAIN ReadsIn : ReadsIn[c] \subseteq Reads
    /\ Worker \notin Reads /\ Closer \notin Reads /\ Worker # Closer
    /\ None \notin Reads \cup {Worker, Closer}

VARIABLES
    conduct,        \* which of them this behaviour is
    \* File and its PrefetchDefaultHandler
    isOpened,       \* m_is_opened
    alive,          \* GetFileLocked() is not null
    enabled,        \* m_prefetch_enabled
    prefetchOp,     \* m_prefetch_op is set
    prefetchOffset, \* m_prefetch_offset
    tail,           \* m_last_prefetch_handler
    next,           \* m_next of each read's PrefetchResponseHandler
    mutex,          \* who holds m_prefetch_mutex between two steps
    \* the CurlReadOp
    handler,        \* m_handler
    buffer,         \* whose memory m_buffer points to
    bufferSize,     \* m_buffer_size
    written,        \* m_written
    extra,          \* m_prefetch_buffer
    extraOffset,    \* m_prefetch_buffer_offset
    objectOffset,   \* m_prefetch_object_offset
    done,           \* m_done
    hasFailed,      \* m_has_failed
    isPaused,       \* m_is_paused
    cancelled,      \* m_cancelled
    first,          \* m_op.first
    \* the worker, its continue queue and libcurl
    slot,           \* where the operation is in the worker
    continueQueue,  \* how many times the operation is in m_continue_queue
    queueMutex,     \* who holds the continue queue's mutex between two steps
    curlPaused,     \* libcurl holds the transfer back
    sent,           \* the next byte of the object libcurl will hand to Write
    \* the application
    reads,          \* the state of each read
    memory,         \* the contents of each read's buffer
    strayWrite,     \* the engine wrote into a buffer it had given back
    deadFileUsed,   \* the engine called into a destroyed File
    todo

fileVars == <<isOpened, alive, enabled, prefetchOp, prefetchOffset, tail, next,
              mutex>>
dataVars == <<buffer, bufferSize, written, extra, extraOffset, objectOffset>>
flagVars == <<done, hasFailed, isPaused, cancelled, first>>
curlVars == <<slot, continueQueue, queueMutex, curlPaused, sent>>
appVars == <<reads, memory, strayWrite, deadFileUsed>>
engineVars == <<fileVars, handler, dataVars, flagVars, curlVars, appVars, todo>>
vars == <<conduct, engineVars>>

Threads == Reads \cup {Worker, Closer}

\* Closer also stands for the CancelResponseHandler and its one-byte buffer.
Handlers == Reads \cup {Closer, None}

\* A piece of code to run: what, for which handler, a number (the bytes of a
\* response, Failure for an error status, or where a Write was called from) and
\* the object offset a response says its bytes are from.
Chunk(do, h, n, at) == [do |-> do, h |-> h, n |-> n, at |-> at]
Piece(do, h, n) == Chunk(do, h, n, 0)
Just(do) == Piece(do, None, 0)
Failure == -1

InPerform == 0      \* Write called by curl_multi_perform
InContinue == 1     \* Write called by the worker's ContinueHandle
InExpire == 2       \* Write called by the ContinueHandle of HandlerQueue::Expire

Top(t, do) == todo[t] # << >> /\ Head(todo[t]).do = do
Push(t, pieces) == todo' = [todo EXCEPT ![t] = pieces \o Tail(@)]
Call(t, pieces) == todo[t] = << >> /\ todo' = [todo EXCEPT ![t] = pieces]

\* The calls that end an operation, and the continuation for handler h.
Fail == <<Just("SetFailed"), Just("ClaimFail")>>
FailAndRelease == Fail \o <<Just("Release")>>
Success == <<Just("SetDone"), Just("ClaimSuccess"), Just("Release")>>
Continue(h) == <<Piece("Install", h, 0), Piece("Copy", h, 0), Just("Check")>>

\* What invoking handler h with n bytes (or Failure) runs: the read's
\* PrefetchResponseHandler, or the PrefetchDefaultHandler when no read waits.
Respond(h, n) ==
    IF h \in Reads THEN <<Chunk("Handle", h, n, first + objectOffset)>>
    ELSE <<Just("DisablePrefetch")>>

\* The n bytes of the object at offset at: a byte is named by its offset.
Bytes(at, n) == [i \in 1..n |-> at + i - 1]

\* How much of len bytes fits in room.
ToCopy(len, room) == IF len > room THEN room ELSE len

\* Mutant: what does not fit is lost.
DropLeftover(block, to_copy) == << >>

\* What the write callback keeps of a block for the next read.
Leftover(block, to_copy) == SubSeq(block, to_copy + 1, Len(block))

BufferSize(h) == IF h \in Reads THEN Size[h] ELSE 1

Init ==
    /\ conduct \in DOMAIN ReadsIn
    /\ isOpened = TRUE /\ alive = TRUE /\ enabled = TRUE /\ prefetchOp = FALSE
    /\ prefetchOffset = 0
    /\ tail = None /\ next = [r \in Reads |-> None] /\ mutex = None
    /\ handler = None
    /\ buffer = None /\ bufferSize = 0 /\ written = 0
    /\ extra = << >> /\ extraOffset = 0 /\ objectOffset = 0
    /\ done = FALSE /\ hasFailed = FALSE /\ isPaused = FALSE
    /\ cancelled = FALSE /\ first = 0
    /\ slot = "none" /\ continueQueue = 0 /\ queueMutex = None
    /\ curlPaused = FALSE /\ sent = 0
    /\ reads = [r \in Reads |-> "idle"]
    /\ memory = [r \in Reads |-> << >>]
    /\ strayWrite = FALSE /\ deadFileUsed = FALSE
    /\ todo = [t \in Threads |-> << >>]

-----------------------------------------------------------------------------
(* File::Read and File::ReadPrefetch *)

\* The application reads; each read is made once, while the File exists.
CallRead(r) ==
    /\ reads[r] = "idle" /\ alive
    /\ todo[Closer] = << >>
    /\ Call(r, <<Piece("Read", r, 0)>>)
    /\ reads' = [reads EXCEPT ![r] = "called"]
    /\ UNCHANGED <<fileVars, handler, dataVars, flagVars, curlVars, memory,
                   strayWrite, deadFileUsed>>

\* Read reports an error: the file is closed.  (When a resubmitted read fails,
\* ResubmitOperation hands the same status to the read's handler.)
ReadRefused(t, h) ==
    /\ ~isOpened
    /\ reads' = [reads EXCEPT ![h] = "error"]
    /\ deadFileUsed' = (deadFileUsed \/ ~alive)
    /\ Push(t, << >>)
    /\ UNCHANGED <<fileVars, handler, dataVars, flagVars, curlVars, memory,
                   strayWrite>>

\* The read asks for what the prefetch delivers next (the compare of the
\* compare_exchange on m_prefetch_offset).
Sequential(h) == prefetchOffset = Offset[h]

\* Mutant: the tail moves without the link.
Unlinked(h) == next

\* The chain with h behind the last waiting read.
Linked(h) == IF tail = None THEN next ELSE [next EXCEPT ![tail] = h]

\* The prefetch cannot serve the read: it becomes a GET of its own, which the
\* shared queue answers.
ReadDirect(t, h) ==
    /\ isOpened
    /\ \/ ~enabled
       \/ prefetchOp /\ (done \/ ~Sequential(h))
    /\ enabled' = (enabled /\ ~(prefetchOp /\ done))
    /\ reads' = [reads EXCEPT ![h] = "direct"]
    /\ Push(t, << >>)
    /\ UNCHANGED <<isOpened, alive, prefetchOp, prefetchOffset, tail, next,
                   mutex, handler, dataVars, flagVars, curlVars, memory,
                   strayWrite, deadFileUsed>>

\* The first read creates the operation.  The offset is stored and the
\* operation queued after m_prefetch_mutex is released.
ReadStartsPrefetch(t, h) ==
    /\ isOpened /\ enabled /\ ~prefetchOp
    /\ prefetchOp' = TRUE
    /\ tail' = h
    /\ next' = Linked(h)
    /\ handler' = h
    /\ buffer' = h /\ bufferSize' = Size[h] /\ written' = 0
    /\ first' = Offset[h] /\ sent' = Offset[h]
    /\ Push(t, <<Piece("StoreOffset", h, 0), Just("Produce")>>)
    /\ UNCHANGED <<isOpened, alive, enabled, prefetchOffset, mutex, extra,
                   extraOffset, objectOffset, done, hasFailed, isPaused,
                   cancelled, slot, continueQueue, queueMutex, curlPaused,
                   appVars>>

\* A read at the expected offset joins: behind the last waiting read, or, when
\* none waits, by continuing the operation itself.
ReadJoinsPrefetch(t, h) ==
    /\ isOpened /\ enabled /\ prefetchOp /\ ~done
    /\ Sequential(h)
    /\ prefetchOffset' = Offset[h] + Size[h]
    /\ tail' = h
    /\ next' = Linked(h)
    /\ Push(t, IF tail = None THEN Continue(h) ELSE << >>)
    /\ UNCHANGED <<isOpened, alive, enabled, prefetchOp, mutex, handler,
                   dataVars, flagVars, curlVars, appVars>>

Read(t) ==
    /\ Top(t, "Read") /\ mutex = None
    /\ LET h == Head(todo[t]).h IN
       \/ ReadRefused(t, h) \/ ReadDirect(t, h)
       \/ ReadStartsPrefetch(t, h) \/ ReadJoinsPrefetch(t, h)

StoreOffset(t) ==
    /\ Top(t, "StoreOffset")
    /\ LET h == Head(todo[t]).h IN prefetchOffset' = Offset[h] + Size[h]
    /\ Push(t, << >>)
    /\ UNCHANGED <<isOpened, alive, enabled, prefetchOp, tail, next, mutex,
                   handler, dataVars, flagVars, curlVars, appVars>>

\* m_queue->Produce: the operation is queued, or rejected and failed at once.
Produce(t) ==
    /\ Top(t, "Produce")
    /\ \/ slot' = "queued" /\ Push(t, << >>)
       \/ MayTimeout /\ slot' = "released" /\ Push(t, Fail)
    /\ UNCHANGED <<fileVars, handler, dataVars, flagVars, continueQueue,
                   queueMutex, curlPaused, sent, appVars>>

-----------------------------------------------------------------------------
(* CurlReadOp: the ways its handler is installed and claimed *)

\* Mutant: the handler is read, not exchanged.
NotTaken == handler

\* ClaimHandler: what m_handler holds once it has been taken.
Taken == None

\* Continue, first statement: m_handler = handler.
Install(t) ==
    /\ Top(t, "Install")
    /\ handler' = Head(todo[t]).h
    /\ Push(t, << >>)
    /\ UNCHANGED <<fileVars, dataVars, flagVars, curlVars, appVars>>

\* Bytes bs land in h's buffer at position pos.
Store(h, pos, bs) ==
    /\ memory' = IF h \in Reads
                 THEN [memory EXCEPT ![h] = SubSeq(@, 1, pos) \o bs]
                 ELSE memory
    /\ strayWrite' = (strayWrite \/ (bs # << >> /\ h \in Reads
                                     /\ reads[h] # "called"))

\* Continue, then: the buffer, and what earlier callbacks left over.
Copy(t) ==
    LET h == Head(todo[t]).h
        left == Len(extra) - extraOffset
        to_copy == ToCopy(left, BufferSize(h))
    IN
    /\ Top(t, "Copy")
    /\ buffer' = h /\ bufferSize' = BufferSize(h)
    /\ written' = to_copy
    /\ Store(h, 0, SubSeq(extra, extraOffset + 1, extraOffset + to_copy))
    /\ IF extraOffset + to_copy = Len(extra)
       THEN extra' = << >> /\ extraOffset' = 0
       ELSE extra' = extra /\ extraOffset' = extraOffset + to_copy
    /\ Push(t, << >>)
    /\ UNCHANGED <<fileVars, handler, objectOffset, flagVars, curlVars, reads,
                   deadFileUsed>>

\* Continue, last: an operation that has ended meanwhile is answered here.
Check(t) ==
    /\ Top(t, "Check")
    /\ Push(t, <<Just(IF ~done THEN "Enqueue"
                      ELSE IF hasFailed THEN "FailStranded" ELSE "Deliver")>>)
    /\ UNCHANGED <<fileVars, handler, dataVars, flagVars, curlVars, appVars>>

\* m_continue_queue->Produce: queued, or refused because the operation's
\* deadline has passed, and then failed by the caller.
Enqueue(t) ==
    /\ Top(t, "Enqueue") /\ queueMutex = None
    /\ \/ continueQueue' = continueQueue + 1 /\ Push(t, << >>)
       \/ MayTimeout /\ continueQueue' = continueQueue /\ Push(t, Fail)
    /\ UNCHANGED <<fileVars, handler, dataVars, flagVars, slot, queueMutex,
                   curlPaused, sent, appVars>>

\* FailStrandedHandler: an error for the handler, if there is one.
FailStranded(t) ==
    /\ Top(t, "FailStranded")
    /\ handler' = Taken
    /\ Push(t, IF handler = None THEN << >> ELSE Respond(handler, Failure))
    /\ UNCHANGED <<fileVars, dataVars, flagVars, curlVars, appVars>>

\* DeliverResponse: what was written so far goes to the handler, and the
\* buffer is given back.
Deliver(t) ==
    /\ Top(t, "Deliver")
    /\ IF handler = None
       THEN Push(t, << >>) /\ UNCHANGED <<handler, dataVars>>
       ELSE /\ handler' = Taken
            /\ Push(t, Respond(handler, written))
            /\ objectOffset' = objectOffset + written
            /\ buffer' = None /\ bufferSize' = 0
            /\ UNCHANGED <<written, extra, extraOffset>>
    /\ UNCHANGED <<fileVars, flagVars, curlVars, appVars>>

\* Success, after SetDone(false).
ClaimSuccess(t) ==
    /\ Top(t, "ClaimSuccess")
    /\ IF handler = None
       THEN Push(t, << >>) /\ UNCHANGED <<handler, objectOffset>>
       ELSE /\ handler' = Taken
            /\ Push(t, Respond(handler, written))
            /\ objectOffset' = objectOffset + written
    /\ UNCHANGED <<fileVars, buffer, bufferSize, written, extra, extraOffset,
                   flagVars, curlVars, appVars>>

\* Fail, after SetDone(true): the handler or else the default handler.
ClaimFail(t) ==
    /\ Top(t, "ClaimFail")
    /\ handler' = Taken
    /\ Push(t, Respond(handler, Failure))
    /\ UNCHANGED <<fileVars, dataVars, flagVars, curlVars, appVars>>

SetDone(t) ==
    /\ Top(t, "SetDone") \/ Top(t, "SetFailed")
    /\ done' = TRUE
    /\ hasFailed' = Top(t, "SetFailed")
    /\ Push(t, << >>)
    /\ UNCHANGED <<fileVars, handler, dataVars, isPaused, cancelled, first,
                   curlVars, appVars>>

-----------------------------------------------------------------------------
(* PrefetchResponseHandler and PrefetchDefaultHandler *)

\* HandleResponse of read h's handler, its critical section: a short or failed
\* read tears the chain down, anything else lets the next read continue.
Handle(t) ==
    LET h == Head(todo[t]).h
        n == Head(todo[t]).n
        ok == n # Failure
        short == ok /\ n # Size[h]
        chain_continues == next[h] # None /\ alive /\ prefetchOp /\ ok /\ ~short
        resubmit_chain == next[h] # None /\ ~chain_continues
    IN
    /\ Top(t, "Handle") /\ mutex = None
    /\ prefetchOffset' = IF short /\ alive THEN prefetchOffset - (Size[h] - n)
                         ELSE prefetchOffset
    /\ enabled' = (enabled /\ ok /\ ~resubmit_chain)
    /\ tail' = IF alive /\ (resubmit_chain \/ ~ok \/ (tail = h /\ next[h] = None))
               THEN None ELSE tail
    /\ prefetchOp' = (prefetchOp /\ (ok \/ ~alive))
    /\ Push(t, (IF chain_continues THEN Continue(next[h])
                ELSE IF resubmit_chain THEN <<Piece("Resubmit", next[h], n)>>
                ELSE << >>) \o <<[Head(todo[t]) EXCEPT !.do = "Answer"]>>)
    /\ UNCHANGED <<isOpened, alive, next, mutex, handler, dataVars, flagVars,
                   curlVars, appVars>>

\* HandleResponse, last: the application gets its answer.
Answer(t) ==
    LET h == Head(todo[t]).h
        n == Head(todo[t]).n
        at == Head(todo[t]).at
    IN
    /\ Top(t, "Answer")
    /\ reads' = [reads EXCEPT ![h] =
                   IF @ # "called" THEN "twice"
                   ELSE IF n = Failure THEN "error"
                   ELSE IF at = Offset[h] /\ SubSeq(memory[h], 1, n) = Bytes(at, n)
                   THEN "ok" ELSE "corrupt"]
    /\ Push(t, << >>)
    /\ UNCHANGED <<fileVars, handler, dataVars, flagVars, curlVars, memory,
                   strayWrite, deadFileUsed>>

\* ResubmitOperation, per read: a plain Read if the File still exists, else
\* the status the chain was torn down with.
Resubmit(t) ==
    LET h == Head(todo[t]).h
        n == Head(todo[t]).n
        advance == Piece("Advance", h, n)
    IN
    /\ Top(t, "Resubmit") /\ mutex = None
    /\ IF alive
       THEN Push(t, <<Piece("Read", h, 0), advance>>) /\ reads' = reads
       ELSE /\ Push(t, <<advance>>)
            /\ reads' = [reads EXCEPT ![h] = IF @ # "called" THEN "twice"
                           ELSE IF n = Failure THEN "error" ELSE "okNoData"]
    /\ UNCHANGED <<fileVars, handler, dataVars, flagVars, curlVars, memory,
                   strayWrite, deadFileUsed>>

Advance(t) ==
    LET h == Head(todo[t]).h IN
    /\ Top(t, "Advance") /\ mutex = None
    /\ Push(t, IF next[h] = None THEN << >>
               ELSE <<Piece("Resubmit", next[h], Head(todo[t]).n)>>)
    /\ UNCHANGED <<fileVars, handler, dataVars, flagVars, curlVars, appVars>>

DisablePrefetch(t) ==
    /\ Top(t, "DisablePrefetch") /\ mutex = None
    /\ enabled' = FALSE
    /\ Push(t, << >>)
    /\ UNCHANGED <<isOpened, alive, prefetchOp, prefetchOffset, tail, next,
                   mutex, handler, dataVars, flagVars, curlVars, appVars>>

-----------------------------------------------------------------------------
(* The worker thread *)

\* The operation leaves the shared queue: it is started, or it has expired.
WorkerStart ==
    /\ slot = "queued"
    /\ \/ slot' = "active" /\ Call(Worker, << >>)
       \/ MayTimeout /\ slot' = "released" /\ Call(Worker, Fail)
    /\ UNCHANGED <<fileVars, handler, dataVars, flagVars, continueQueue,
                   queueMutex, curlPaused, sent, appVars>>

\* curl_multi_perform has data for the write callback.
PerformWrite ==
    /\ slot = "active" /\ ~curlPaused /\ sent < ObjectLen
    /\ Call(Worker, <<Piece("Write", None, InPerform)>>)
    /\ UNCHANGED <<fileVars, handler, dataVars, flagVars, curlVars, appVars>>

\* CURLMSG_DONE: the whole object arrived.
TransferCompletes ==
    /\ slot = "active" /\ ~curlPaused /\ sent >= ObjectLen
    /\ Call(Worker, Success)
    /\ UNCHANGED <<fileVars, handler, dataVars, flagVars, curlVars, appVars>>

\* CURLMSG_DONE: XferInfoCallback aborted a stalled transfer, or it failed.
TransferFails ==
    /\ slot = "active" /\ MayTimeout
    /\ Call(Worker, FailAndRelease)
    /\ UNCHANGED <<fileVars, handler, dataVars, flagVars, curlVars, appVars>>

\* ContinueHandle resumes the transfer, unless it has ended or is cancelled.
Resumed == curlPaused /\ (done \/ cancelled)

\* The worker takes a continuation from the continue queue.
DrainContinue ==
    /\ continueQueue > 0 /\ queueMutex = None
    /\ continueQueue' = continueQueue - 1
    /\ slot' = IF ~done /\ cancelled THEN "released" ELSE slot
    /\ curlPaused' = Resumed
    /\ Call(Worker, IF done THEN <<Just("FailStranded")>>
                    ELSE IF cancelled THEN Fail
                    ELSE <<Piece("Flush", None, InContinue), Just("Unpaused")>>)
    /\ UNCHANGED <<fileVars, handler, dataVars, flagVars, queueMutex, sent,
                   appVars>>

\* HandlerQueue::Expire on the continue queue: the operation has been idle for
\* the stall interval.  A paused transfer is first woken, with the queue's
\* mutex held; then every continuation is removed and failed.
ExpireContinue ==
    LET wake == isPaused /\ ~done IN
    /\ continueQueue > 0 /\ queueMutex = None /\ conduct = "anytime"
    /\ continueQueue' = 0
    /\ queueMutex' = Worker
    /\ curlPaused' = (curlPaused /\ ~wake)
    /\ Call(Worker, (IF wake
                     THEN <<Piece("Flush", None, InExpire), Just("Unpaused")>>
                     ELSE << >>)
                    \o <<Just("Unlock")>>
                    \o IF continueQueue = 1 THEN Fail ELSE Fail \o Fail)
    /\ UNCHANGED <<fileVars, handler, dataVars, flagVars, slot, sent, appVars>>

Unlock ==
    /\ Top(Worker, "Unlock")
    /\ queueMutex' = None
    /\ Push(Worker, << >>)
    /\ UNCHANGED <<fileVars, handler, dataVars, flagVars, slot, continueQueue,
                   curlPaused, sent, appVars>>

\* Inside curl_easy_pause(CURLPAUSE_CONT): libcurl may hand over data at once.
Flush ==
    /\ Top(Worker, "Flush")
    /\ \/ /\ ~curlPaused /\ sent < ObjectLen
          /\ Push(Worker, <<Piece("Write", None, Head(todo[Worker]).n),
                            Head(todo[Worker])>>)
       \/ Push(Worker, << >>)
    /\ UNCHANGED <<fileVars, handler, dataVars, flagVars, curlVars, appVars>>

\* ContinueHandle, after curl_easy_pause: SetPaused(false).
Unpaused ==
    /\ Top(Worker, "Unpaused")
    /\ isPaused' = FALSE
    /\ Push(Worker, << >>)
    /\ UNCHANGED <<fileVars, handler, dataVars, done, hasFailed, cancelled,
                   first, curlVars, appVars>>

\* Write, first test.  A cancelled operation aborts the transfer: the worker
\* fails it on CURLE_WRITE_ERROR, or when ContinueHandle reports the error; on
\* the expiry path the result of ContinueHandle is ignored.
Write ==
    LET from == Head(todo[Worker]).n IN
    /\ Top(Worker, "Write")
    /\ CASE ~cancelled -> Push(Worker, <<Piece("WriteBody", None, from)>>)
         [] cancelled /\ from = InPerform -> Push(Worker, FailAndRelease)
         [] cancelled /\ from # InPerform ->
              LET rest == SubSeq(todo[Worker], 4, Len(todo[Worker])) IN
              todo' = [todo EXCEPT ![Worker] =
                         IF from = InContinue THEN FailAndRelease \o rest ELSE rest]
    /\ UNCHANGED <<fileVars, handler, dataVars, flagVars, curlVars, appVars>>

\* Write, the rest: pause if there is no room, else take the whole block and
\* keep what does not fit.
WriteBody ==
    /\ Top(Worker, "WriteBody")
    /\ IF buffer = None \/ bufferSize = written
       THEN /\ isPaused' = TRUE
            /\ Push(Worker, <<Just("Deliver"), Just("CurlPaused")>>)
            /\ UNCHANGED <<dataVars, sent, memory, strayWrite>>
       ELSE \E k \in 1..MaxBlock :
            LET room == bufferSize - written
                to_copy == ToCopy(k, room)
                block == Bytes(sent, k)
            IN
            /\ sent + k <= ObjectLen
            /\ Store(buffer, written, SubSeq(block, 1, to_copy))
            /\ written' = written + to_copy
            /\ IF k > room
               THEN /\ extra' = extra \o Leftover(block, to_copy)
                    /\ extraOffset' = 0
               ELSE UNCHANGED <<extra, extraOffset>>
            /\ sent' = sent + k
            /\ Push(Worker, << >>)
            /\ UNCHANGED <<buffer, bufferSize, objectOffset, isPaused>>
    /\ UNCHANGED <<fileVars, handler, done, hasFailed, cancelled, first, slot,
                   continueQueue, queueMutex, curlPaused, reads, deadFileUsed>>

\* Write returned CURL_WRITEFUNC_PAUSE.
CurlPaused ==
    /\ Top(Worker, "CurlPaused")
    /\ curlPaused' = TRUE
    /\ Push(Worker, << >>)
    /\ UNCHANGED <<fileVars, handler, dataVars, flagVars, slot, continueQueue,
                   queueMutex, sent, appVars>>

\* The transfer is over: the curl handle leaves the worker.
Release ==
    /\ Top(Worker, "Release")
    /\ slot' = "released"
    /\ Push(Worker, << >>)
    /\ UNCHANGED <<fileVars, handler, dataVars, flagVars, continueQueue,
                   queueMutex, curlPaused, sent, appVars>>

-----------------------------------------------------------------------------
(* Closing: the application is in no call of Read, but reads may be waiting *)

CloseStart ==
    /\ isOpened
    /\ conduct = "orderly" => \A r \in Reads : reads[r] # "called"
    /\ \A r \in Reads : todo[r] = << >>
    /\ isOpened' = FALSE
    /\ Call(Closer, <<Just("Cancel")>>)
    /\ UNCHANGED <<alive, enabled, prefetchOp, prefetchOffset, tail, next,
                   mutex, handler, dataVars, flagVars, curlVars, appVars>>

\* CancelPrefetch takes the mutex and cancels a running operation...
Cancel ==
    /\ Top(Closer, "Cancel") /\ mutex = None
    /\ IF prefetchOp /\ ~done
       THEN /\ cancelled' = TRUE
            /\ mutex' = Closer
            /\ Push(Closer, <<Just("CancelSnapshot")>>)
            /\ UNCHANGED <<enabled, prefetchOp>>
       ELSE /\ enabled' = FALSE /\ prefetchOp' = FALSE
            /\ Push(Closer, << >>)
            /\ UNCHANGED <<cancelled, mutex>>
    /\ UNCHANGED <<isOpened, alive, prefetchOffset, tail, next, handler,
                   dataVars, done, hasFailed, isPaused, first, curlVars, appVars>>

\* ... then looks whether it is paused, and if so continues it to wake the
\* worker, after the mutex is released.
CancelSnapshot ==
    /\ Top(Closer, "CancelSnapshot")
    /\ enabled' = FALSE /\ prefetchOp' = FALSE
    /\ mutex' = None
    /\ Push(Closer, IF isPaused THEN Continue(Closer) ELSE << >>)
    /\ UNCHANGED <<isOpened, alive, prefetchOffset, tail, next, handler,
                   dataVars, flagVars, curlVars, appVars>>

\* ~File after Close: CancelPrefetch finds no operation; DetachFile.
Destroy ==
    /\ ~isOpened /\ alive /\ mutex = None
    /\ \A r \in Reads : todo[r] = << >>
    /\ alive' = FALSE
    /\ Call(Closer, << >>)
    /\ UNCHANGED <<isOpened, enabled, prefetchOp, prefetchOffset, tail, next,
                   mutex, handler, dataVars, flagVars, curlVars, appVars>>

-----------------------------------------------------------------------------
OpStep(t) ==
    \/ Read(t) \/ StoreOffset(t) \/ Produce(t)
    \/ Install(t) \/ Copy(t) \/ Check(t) \/ Enqueue(t)
    \/ FailStranded(t) \/ Deliver(t) \/ ClaimSuccess(t) \/ ClaimFail(t) \/ SetDone(t)
    \/ Handle(t) \/ Answer(t) \/ Resubmit(t) \/ Advance(t) \/ DisablePrefetch(t)

WorkerStep ==
    \/ WorkerStart \/ PerformWrite \/ TransferCompletes \/ TransferFails
    \/ DrainContinue \/ ExpireContinue \/ Unlock \/ Flush \/ Unpaused
    \/ Write \/ WriteBody \/ CurlPaused \/ Release

CloserStep == CloseStart \/ Cancel \/ CancelSnapshot \/ Destroy

\* No thread is inside a call: the program may rest here.
Quiescent ==
    /\ \A t \in Threads : todo[t] = << >>
    /\ UNCHANGED engineVars

\* The worker waits for the queue mutex that it holds itself (Expire, Flush, Enqueue).
Stuck ==
    /\ Top(Worker, "Enqueue") /\ queueMutex = Worker
    /\ UNCHANGED engineVars

Next ==
    /\ \/ \E r \in ReadsIn[conduct] : CallRead(r)
       \/ \E t \in Threads : OpStep(t)
       \/ WorkerStep
       \/ CloserStep
       \/ Quiescent \/ Stuck
    /\ UNCHANGED conduct

Spec == Init /\ [][Next]_vars

\* The threads run, and the worker's loop goes on: data arrives, or the stall
\* interval passes.  The application need not read or close.
Fairness ==
    /\ \A t \in Threads : WF_engineVars(OpStep(t))
    /\ WF_engineVars(WorkerStep)
    /\ WF_engineVars(Cancel \/ CancelSnapshot)

FairSpec == Spec /\ Fairness

-----------------------------------------------------------------------------
\* The type of the state.
TypeOK ==
    /\ {isOpened, alive, enabled, prefetchOp, done, hasFailed, isPaused,
        cancelled, curlPaused, strayWrite, deadFileUsed} \subseteq BOOLEAN
    /\ prefetchOffset \in Nat
    /\ tail \in Reads \cup {None} /\ next \in [Reads -> Reads \cup {None}]
    /\ mutex \in {None, Closer} /\ queueMutex \in {None, Worker}
    /\ handler \in Handlers /\ buffer \in Handlers
    /\ written \in 0..bufferSize \/ buffer = None
    /\ extraOffset \in 0..Len(extra)
    /\ slot \in {"none", "queued", "active", "released"}
    /\ continueQueue \in 0..2
    /\ reads \in [Reads -> {"idle", "called", "direct", "ok", "error",
                            "okNoData", "corrupt", "twice"}]

\* A read that is answered with success holds exactly the bytes of the object
\* at the offset it asked for, whatever was read ahead, left over from earlier
\* callbacks or handed along the chain.
RightBytes == \A r \in Reads : reads[r] # "corrupt"

\* No read is answered twice: ClaimHandler hands a handler to one of the
\* terminal dispatches, the continuation and the rescue of a stranded handler.
AnsweredOnce == TypeOK /\ \A r \in Reads : reads[r] # "twice"

\* Some code that will run, or the operation, or another read still leads to r.
Reachable(r) ==
    \/ handler = r
    \/ \E t \in Threads : \E i \in 1..Len(todo[t]) :
         todo[t][i].h = r /\ todo[t][i].do \notin {"StoreOffset", "Advance"}
    \/ \E t \in Threads : \E i \in 1..Len(todo[t]) :
         /\ todo[t][i].do = "Advance"
         /\ next[todo[t][i].h] = r
    \/ \E q \in Reads : reads[q] = "called" /\ next[q] = r

\* A read that waits is never forgotten: its handler is installed, queued
\* behind a waiting read, or about to be invoked or resubmitted.
WaitingReadKept == \A r \in Reads : reads[r] = "called" => Reachable(r)

\* The above, if the file is closed when no read waits (PrefetchResponseHandler's chain,
\* ClaimHandler and the rescue of a stranded handler).
NoReadLost == conduct = "orderly" => WaitingReadKept

\* Then every read is eventually answered or handed over to a GET of its own.
EveryReadAnswered ==
    \A r \in Reads : conduct = "orderly" /\ reads[r] = "called" ~> reads[r] # "called"

\* A cancelled transfer does not stay parked in libcurl: it runs, so the next
\* callback aborts it, or the worker has been told to remove it.
CancelledNotParked ==
    (/\ cancelled /\ slot = "active" /\ curlPaused
     /\ \A t \in Threads : todo[t] = << >>) => continueQueue > 0

\* m_is_paused says whether the transfer is paused in libcurl, whenever the
\* worker is between two callbacks.
PausedFlagRight ==
    (slot = "active" /\ todo[Worker] = << >>) => (isPaused <=> curlPaused)

\* The engine does not write into a read's buffer once the read is answered.
NoStrayWrite == ~strayWrite

\* The engine calls into the File only while it exists.
ParentAccessSafe == ~deadFileUsed

\* A read answered with success carries a response.
OkCarriesData == \A r \in Reads : reads[r] # "okNoData"

\* The worker never waits for a queue mutex it holds itself.
NoSelfDeadlock == ~(queueMutex = Worker /\ Top(Worker, "Enqueue"))
=============================================================================
