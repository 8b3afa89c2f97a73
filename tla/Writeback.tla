----------------------------- MODULE Writeback -----------------------------
(***************************************************************************)
(* Writing one file through the writeback cache of Pelican::File: each     *)
(* write goes into a mapped file on disk and is answered at once, the      *)
(* wrapped file uploads from the mapping, and the WritebackResponseHandler *)
(* ends the transfer after the close                                       *)
(* (src/XrdClPelican/PelicanFile.cc, WritebackDB.cc, PelicanFactory.cc).   *)
(*                                                                         *)
(* todo[t] is the code thread t has still to run, one piece per step; a    *)
(* critical section of m_mutex is one step.  The App thread calls the file *)
(* one call at a time; the Worker thread answers for the wrapped file,     *)
(* whose own behaviour PutFile models.  A close races with the Worker when *)
(* the Worker is inside HandleResponse meanwhile: races says whether that  *)
(* happens in this behaviour.  A use of a freed handler could do anything, *)
(* so in a behaviour with races the file outlives every answer.            *)
(***************************************************************************)
EXTENDS Integers, Sequences, FiniteSets

CONSTANTS
    App, Worker,
    Size,           \* oss.asize; a write is one byte long
    RaceModes,      \* the values of races
    MayFail,        \* whether the open, writes, the upload and the close fail
    MayFailDb,      \* whether a transaction of the database fails
    MaxTime,        \* bound on the clock
    TouchAfter,     \* 5 seconds
    PartLimit,      \* 300 seconds
    RowLimit,       \* 10 minutes
    FinalLimit      \* 6 hours

ASSUME ConstantsAssumption ==
    /\ App # Worker
    /\ Size \in Nat \ {0}
    /\ RaceModes \subseteq BOOLEAN
    /\ MayFail \in BOOLEAN /\ MayFailDb \in BOOLEAN
    /\ MaxTime \in Nat /\ TouchAfter \in Nat /\ PartLimit \in Nat
    /\ RowLimit \in Nat /\ FinalLimit \in Nat
    /\ TouchAfter <= PartLimit

VARIABLES
    \* application and wrapped file
    file,           \* the File: "new", "open", "closed", "failed", "gone"
    sent,           \* bytes of the writes the wrapped file took
    outstanding,    \* writes the wrapped file took and has not answered
    putFailed,      \* the upload has failed
    wrappedOpen,    \* the wrapped file is open
    closePending,   \* its Close is to be answered by the worker
    \* WritebackResponseHandler
    handler,        \* "none", "live", "freed"
    selfRef,        \* m_self_ref is set
    closed,         \* m_closed
    hadError,       \* m_had_error
    refcount,       \* m_refcount; -1 stands for the largest size_t
    offset,         \* WritebackInfo::offset
    releases,       \* how often the mapping and the descriptor were released
    \* disk and database
    part,           \* the .part file exists
    partMtime,      \* its modification time
    lastWrite,      \* WritebackInfo::last_write_time
    row,            \* status of the transfer in the database, or "none"
    rowBytes,       \* bytes_transferred
    rowUpdated,     \* updated_at
    now,
    \* a thread in WaitForAllWritebacks or ShutdownAll
    waiter,         \* "idle", "copied", "blocked", "woken", "returned", "stuck"
    waitFor,        \* what it waits for: "idle" handlers or "deleted" ones
    races,
    todo

fileVars == <<file, sent, outstanding, putFailed, wrappedOpen, closePending>>
handlerVars == <<handler, selfRef, closed, hadError, refcount, offset, releases>>
diskVars == <<part, partMtime, lastWrite>>
rowVars == <<row, rowBytes, rowUpdated>>
waitVars == <<waiter, waitFor>>
vars == <<fileVars, handlerVars, diskVars, rowVars, now, waitVars, races, todo>>

Threads == {App, Worker}

Piece(do, arg) == [do |-> do, arg |-> arg]
Just(do) == Piece(do, FALSE)
Top(t, do) == todo[t] # << >> /\ Head(todo[t]).do = do
TopArg(t) == Head(todo[t]).arg
Push(t, pieces) == todo' = [todo EXCEPT ![t] = pieces \o Tail(@)]
Call(t, pieces) == todo[t] = << >> /\ todo' = [todo EXCEPT ![t] = pieces]
Pending(do) == Cardinality({t \in Threads : \E i \in DOMAIN todo[t] : todo[t][i].do = do})

HandleResponse(ok) == <<Piece("Sub", ok)>>
Shutdown == <<Just("Release"), Just("Judge"), Just("CloseFile")>>
End == <<Just("ResetSelf"), Just("Notify")>>
CloseResponse(ok) ==
    (IF ok THEN << >> ELSE <<Just("SetError")>>) \o <<Just("TestError")>> \o End

Init ==
    /\ file = "new" /\ sent = 0 /\ outstanding = 0 /\ putFailed = FALSE
    /\ wrappedOpen = FALSE /\ closePending = FALSE
    /\ handler = "none" /\ selfRef = FALSE /\ closed = FALSE /\ hadError = FALSE
    /\ refcount = 0 /\ offset = 0 /\ releases = 0
    /\ part = FALSE /\ partMtime = 0 /\ lastWrite = 0
    /\ row = "none" /\ rowBytes = 0 /\ rowUpdated = 0
    /\ now = 0
    /\ waiter = "idle" /\ waitFor \in {"idle", "deleted"}
    /\ races \in RaceModes
    /\ todo = [t \in Threads |-> << >>]

-----------------------------------------------------------------------------
(* File *)

\* CreateTransfer: the row of the transfer.
CreateTransfer == row' = "ACTIVE" /\ rowUpdated' = now

\* BeginWritebackFile makes the .part file, the row and the handler, all or
\* nothing (without them the file is written directly, outside this module).
\* A second attempt finds the .part file and goes on with the same handler.
BeginWritebackFile ==
    IF handler = "none"
    THEN /\ handler' = "live" /\ selfRef' = TRUE
         /\ part' = TRUE /\ partMtime' = now /\ lastWrite' = now
         /\ CreateTransfer
    ELSE UNCHANGED <<handler, selfRef, diskVars, row, rowUpdated>>

\* Open: then the wrapped file is opened, or the open fails and the handler
\* stays.
Open ==
    /\ file \in {"new", "failed"} /\ todo[App] = << >>
    /\ BeginWritebackFile
    /\ \/ file' = "open"
       \/ MayFail /\ file' = "failed"
    /\ wrappedOpen' = (file' = "open")
    /\ UNCHANGED <<sent, outstanding, putFailed, closePending, closed, hadError,
                   refcount, offset, releases, rowBytes, now, waitVars, races, todo>>

\* Write at the current offset (any other is refused, as is a write after an
\* error): pwrite into the .part file, then the wrapped write.
Write ==
    /\ file = "open" /\ offset < Size /\ ~hadError
    /\ Call(App, <<Just("WrappedWrite")>>)
    /\ offset' = offset + 1
    /\ partMtime' = now /\ lastWrite' = now
    /\ UNCHANGED <<fileVars, handler, selfRef, closed, hadError, refcount, releases,
                   part, rowVars, now, waitVars, races>>

\* The wrapped file takes the write, fails it on this thread, or refuses it.
WrappedWrite ==
    /\ Top(App, "WrappedWrite")
    /\ \/ /\ ~putFailed
          /\ sent' = sent + 1 /\ outstanding' = outstanding + 1
          /\ Push(App, <<Just("IncrementRef")>>)
          /\ UNCHANGED putFailed
       \/ /\ ~putFailed /\ MayFail /\ sent = 0
          /\ sent' = sent + 1 /\ putFailed' = TRUE
          /\ Push(App, HandleResponse(FALSE) \o <<Just("IncrementRef")>>)
          /\ UNCHANGED outstanding
       \/ /\ putFailed
          /\ Push(App, <<Just("SetError")>>)
          /\ UNCHANGED <<sent, outstanding, putFailed>>
    /\ UNCHANGED <<file, wrappedOpen, closePending, handlerVars, diskVars, rowVars,
                   now, waitVars, races>>

\* Mutant: the write is not counted.
Uncounted == refcount

\* fetch_add.
Counted == refcount + 1

IncrementRef ==
    /\ Top(App, "IncrementRef")
    /\ refcount' = Counted
    /\ Push(App, << >>)
    /\ UNCHANGED <<fileVars, handler, selfRef, closed, hadError, offset, releases,
                   diskVars, rowVars, now, waitVars, races>>

\* Close, answered at once; the wrapped file goes to the handler.
Close ==
    /\ file = "open"
    /\ races \/ todo[Worker] = << >>
    /\ file' = "closed"
    /\ Call(App, <<Just("SetClosed"), Just("TestRef")>>)
    /\ UNCHANGED <<sent, outstanding, putFailed, wrappedOpen, closePending,
                   handlerVars, diskVars, rowVars, now, waitVars, races>>

SetClosed ==
    /\ Top(App, "SetClosed")
    /\ closed' = TRUE
    /\ Push(App, << >>)
    /\ UNCHANGED <<fileVars, handler, selfRef, hadError, refcount, offset, releases,
                   diskVars, rowVars, now, waitVars, races>>

\* m_refcount.load() == 0.
AllAnswered == refcount = 0

TestRef ==
    /\ Top(App, "TestRef")
    /\ Push(App, IF AllAnswered THEN Shutdown ELSE << >>)
    /\ UNCHANGED <<fileVars, handlerVars, diskVars, rowVars, now, waitVars, races>>

\* The handler after its own reference or that of the File was dropped: deleted
\* with the last one, unless the thread that waits holds a copy.
AfterDrop(self, held) ==
    IF handler = "live" /\ ~self /\ ~held /\ waiter # "copied" THEN "freed" ELSE handler

\* Mutant: nobody is notified.
NotifyNobody == waiter' = waiter

\* notify_all reaches the thread that waits, and only if it waits.
NotifyAll == waiter' = IF waiter = "blocked" THEN "woken" ELSE waiter

\* ~File.
Destroy ==
    /\ file \in {"closed", "failed"} /\ todo[App] = << >>
    /\ races => todo[Worker] = << >> /\ outstanding = 0 /\ ~closePending
    /\ file' = "gone"
    /\ handler' = AfterDrop(selfRef, FALSE)
    /\ IF handler' # handler THEN NotifyAll ELSE UNCHANGED waiter
    /\ UNCHANGED <<sent, outstanding, putFailed, wrappedOpen, closePending, selfRef,
                   closed, hadError, refcount, offset, releases, diskVars, rowVars,
                   now, waitFor, races, todo>>

-----------------------------------------------------------------------------
(* The wrapped file's answers *)

\* A write is answered; after a failure, all are answered with errors.
AnswerWrite ==
    /\ outstanding > 0
    /\ races \/ ~(Top(App, "SetClosed") \/ Top(App, "TestRef"))
    /\ outstanding' = outstanding - 1
    /\ \/ ~putFailed /\ UNCHANGED putFailed /\ Call(Worker, HandleResponse(TRUE))
       \/ (putFailed \/ MayFail) /\ putFailed' = TRUE
          /\ Call(Worker, HandleResponse(FALSE))
    /\ UNCHANGED <<file, sent, wrappedOpen, closePending, handlerVars, diskVars,
                   rowVars, now, waitVars, races>>

\* The upload fails between two writes: no handler is there to be told.
UploadFails ==
    /\ MayFail /\ sent \in 1..Size - 1 /\ outstanding = 0 /\ ~putFailed
    /\ putFailed' = TRUE
    /\ UNCHANGED <<file, sent, outstanding, wrappedOpen, closePending, handlerVars,
                   diskVars, rowVars, now, waitVars, races, todo>>

AnswerClose ==
    /\ closePending
    /\ closePending' = FALSE
    /\ \E ok \in (IF MayFail THEN BOOLEAN ELSE {TRUE}) :
          Call(Worker, CloseResponse(ok))
    /\ UNCHANGED <<file, sent, outstanding, putFailed, wrappedOpen, handlerVars,
                   diskVars, rowVars, now, waitVars, races>>

-----------------------------------------------------------------------------
(* WritebackResponseHandler *)

\* HandleResponse: fetch_sub, then the error, then the test of m_closed.
Sub(t) ==
    /\ Top(t, "Sub")
    /\ refcount' = refcount - 1
    /\ Push(t, (IF TopArg(t) THEN << >> ELSE <<Just("SetError")>>)
               \o <<Piece("ReadClosed", refcount = 1)>>)
    /\ UNCHANGED <<fileVars, handler, selfRef, closed, hadError, offset, releases,
                   diskVars, rowVars, now, waitVars, races>>

SetError(t) ==
    /\ Top(t, "SetError")
    /\ hadError' = TRUE
    /\ Push(t, << >>)
    /\ UNCHANGED <<fileVars, handler, selfRef, closed, refcount, offset, releases,
                   diskVars, rowVars, now, waitVars, races>>

\* Mutant: only Close ends the transfer.
NeverLast(last) == FALSE

\* Mutant: every answer after the close ends the transfer.
AnyAnswer(last) == closed

\* The last answer after the close ends the transfer.
LastOne(last) == last /\ closed

ReadClosed(t) ==
    /\ Top(t, "ReadClosed")
    /\ Push(t, IF LastOne(TopArg(t)) THEN Shutdown ELSE << >>)
    /\ UNCHANGED <<fileVars, handlerVars, diskVars, rowVars, now, waitVars, races>>

\* Shutdown: munmap, close, unlink.  (The handler has its file and its info
\* whenever m_closed is set, so the test for an invalid state never fires.)
Release(t) ==
    /\ Top(t, "Release")
    /\ releases' = releases + 1
    /\ part' = FALSE
    /\ Push(t, << >>)
    /\ UNCHANGED <<fileVars, handler, selfRef, closed, hadError, refcount, offset,
                   partMtime, lastWrite, rowVars, now, waitVars, races>>

\* Fewer bytes were written than announced.
Incomplete == offset # Size

Judge(t) ==
    /\ Top(t, "Judge")
    /\ hadError' = (hadError \/ Incomplete)
    /\ Push(t, << >>)
    /\ UNCHANGED <<fileVars, handler, selfRef, closed, refcount, offset, releases,
                   diskVars, rowVars, now, waitVars, races>>

\* Close of the wrapped file: refused if it is closed already, answered at once
\* if the upload is complete or has failed, else answered by the worker.
CloseFile(t) ==
    /\ Top(t, "CloseFile")
    /\ wrappedOpen' = FALSE
    /\ IF ~wrappedOpen
       THEN /\ Push(t, <<Just("SetError"), Piece("Finalize", FALSE)>> \o End)
            /\ UNCHANGED closePending
       ELSE IF sent > 0 /\ (putFailed \/ sent = Size)
       THEN Push(t, CloseResponse(TRUE)) /\ UNCHANGED closePending
       ELSE closePending' = TRUE /\ Push(t, << >>)
    /\ UNCHANGED <<file, sent, outstanding, putFailed, handlerVars, diskVars, rowVars,
                   now, waitVars, races>>

\* Mutant: errors are not looked at.
AssumedGood == FALSE

\* HadError, when the close was answered.
Bad == hadError

TestError(t) ==
    /\ Top(t, "TestError")
    /\ Push(t, <<Piece("Finalize", ~Bad)>>)
    /\ UNCHANGED <<fileVars, handlerVars, diskVars, rowVars, now, waitVars, races>>

\* FinalizeTransfer: an UPDATE of the row, if there is one and the database
\* is not locked by another thread.
Finalize(t) ==
    /\ Top(t, "Finalize")
    /\ \/ /\ row # "none"
          /\ row' = IF TopArg(t) THEN "SUCCESS" ELSE "FAILED"
          /\ rowBytes' = offset /\ rowUpdated' = now
       \/ (row = "none" \/ MayFailDb) /\ UNCHANGED rowVars
    /\ Push(t, << >>)
    /\ UNCHANGED <<fileVars, handlerVars, diskVars, now, waitVars, races>>

\* m_self_ref.reset(), and the destructor if the File is gone.
ResetSelf(t) ==
    /\ Top(t, "ResetSelf")
    /\ selfRef' = FALSE
    /\ handler' = AfterDrop(FALSE, file # "gone")
    /\ IF handler' # handler THEN NotifyAll ELSE UNCHANGED waiter
    /\ Push(t, << >>)
    /\ UNCHANGED <<fileVars, closed, hadError, refcount, offset, releases, diskVars,
                   rowVars, now, waitFor, races>>

Notify(t) ==
    /\ Top(t, "Notify")
    /\ NotifyAll
    /\ Push(t, << >>)
    /\ UNCHANGED <<fileVars, handlerVars, diskVars, rowVars, now, waitFor, races>>

-----------------------------------------------------------------------------
(* WaitForAllWritebacks and ShutdownAll *)

\* The predicate, with m_instance_mutex held.  That of WaitForAllWritebacks
\* copies m_self_ref, and while the copy is there the handler is not deleted.
WaitCheck ==
    /\ waiter \in {"idle", "woken"}
    /\ waiter' = CASE handler # "live" -> "returned"
                   [] handler = "live" /\ waitFor = "deleted" -> "blocked"
                   [] handler = "live" /\ waitFor = "idle" ->
                        IF selfRef THEN "copied" ELSE "returned"
    /\ UNCHANGED <<fileVars, handlerVars, diskVars, rowVars, now, waitFor, races, todo>>

\* The copy is dropped and the thread waits; if the copy was the last reference,
\* the destructor asks this thread for the mutex it holds.
WaitBlock ==
    /\ waiter = "copied"
    /\ waiter' = IF selfRef \/ file # "gone" THEN "blocked" ELSE "stuck"
    /\ UNCHANGED <<fileVars, handlerVars, diskVars, rowVars, now, waitFor, races, todo>>

-----------------------------------------------------------------------------
(* The maintenance thread *)

Tick ==
    /\ now < MaxTime
    /\ now' = now + 1
    /\ UNCHANGED <<fileVars, handlerVars, diskVars, rowVars, waitVars, races, todo>>

\* Mutant: nothing is touched.
Untouched == FALSE

\* The .part file of a live handler without recent writes is touched.
Touched == handler = "live" /\ now - lastWrite > TouchAfter

\* UpdateAllTransfers: an active row whose transfer has advanced.
RowGrows == handler = "live" /\ row = "ACTIVE" /\ offset > rowBytes

\* The status UpdateAllTransfers leaves.
StatusKept == row

\* UpdateAllTransfers: an active row takes the bytes of its transfer.
UpdateAllTransfers ==
    /\ rowBytes' = IF RowGrows THEN offset ELSE rowBytes
    /\ rowUpdated' = IF RowGrows THEN now ELSE rowUpdated

\* ExpireOldTransfers: rows that were not updated for too long are deleted.
ExpireOldTransfers ==
    LET limit == IF row = "ACTIVE" THEN RowLimit ELSE FinalLimit IN
    row' = IF rowUpdated' < now - limit THEN "none" ELSE StatusKept

\* One pass: touch the files of the live handlers, delete the .part files
\* nobody touched, then update and expire the rows.
Maintenance ==
    /\ handler # "none" /\ waiter # "stuck"
    /\ partMtime' = IF part /\ Touched THEN now ELSE partMtime
    /\ part' = (part /\ now - partMtime' <= PartLimit)
    /\ \/ UpdateAllTransfers /\ ExpireOldTransfers
       \/ MayFailDb /\ UNCHANGED rowVars
    /\ UNCHANGED <<fileVars, handlerVars, lastWrite, now, waitVars, races, todo>>

-----------------------------------------------------------------------------
ThreadStep(t) ==
    \/ Sub(t) \/ SetError(t) \/ ReadClosed(t) \/ Release(t) \/ Judge(t)
    \/ CloseFile(t) \/ TestError(t) \/ Finalize(t) \/ ResetSelf(t) \/ Notify(t)

AppStep == WrappedWrite \/ IncrementRef \/ SetClosed \/ TestRef
WaiterStep == WaitCheck \/ WaitBlock

\* The application may do nothing more.
Quiescent ==
    /\ \A t \in Threads : todo[t] = << >>
    /\ UNCHANGED vars

Next ==
    \/ Open \/ Write \/ Close \/ Destroy
    \/ AppStep
    \/ AnswerWrite \/ UploadFails \/ AnswerClose
    \/ \E t \in Threads : ThreadStep(t)
    \/ WaiterStep
    \/ Tick \/ Maintenance
    \/ Quiescent

Spec == Init /\ [][Next]_vars

\* Threads inside the code go on, and the wrapped file answers what it took
\* (EveryCallAnswered of PutFile).  Nothing is assumed of the application, of the
\* maintenance thread or of the clock.
Fairness ==
    /\ WF_vars(AppStep)
    /\ \A t \in Threads : WF_vars(ThreadStep(t))
    /\ WF_vars(AnswerWrite \/ AnswerClose)
    /\ WF_vars(waiter # "idle" /\ WaiterStep)

FairSpec == Spec /\ Fairness

-----------------------------------------------------------------------------
Pieces == [do : {"WrappedWrite", "IncrementRef", "SetClosed", "TestRef", "Sub",
                 "SetError", "ReadClosed", "Release", "Judge", "CloseFile",
                 "TestError", "Finalize", "ResetSelf", "Notify"},
           arg : BOOLEAN]

\* The type of the state.
TypeOK ==
    /\ file \in {"new", "open", "closed", "failed", "gone"}
    /\ sent \in 0..Size /\ outstanding \in 0..Size
    /\ putFailed \in BOOLEAN /\ wrappedOpen \in BOOLEAN /\ closePending \in BOOLEAN
    /\ handler \in {"none", "live", "freed"}
    /\ selfRef \in BOOLEAN /\ closed \in BOOLEAN /\ hadError \in BOOLEAN
    /\ refcount \in -1..Size /\ offset \in 0..Size /\ releases \in Nat
    /\ part \in BOOLEAN /\ partMtime \in 0..MaxTime /\ lastWrite \in 0..MaxTime
    /\ row \in {"none", "ACTIVE", "SUCCESS", "FAILED"}
    /\ rowBytes \in 0..Size /\ rowUpdated \in 0..MaxTime /\ now \in 0..MaxTime
    /\ waiter \in {"idle", "copied", "blocked", "woken", "returned", "stuck"}
    /\ waitFor \in {"idle", "deleted"}
    /\ races \in BOOLEAN
    /\ todo \in [Threads -> Seq(Pieces)]

\* m_refcount counts the writes that are not answered, give or take the calls
\* of IncrementRef and fetch_sub that are under way: Write increments it only
\* after the wrapped write, and the answer may come first.
RefcountExact ==
    TypeOK /\ refcount = outstanding + Pending("Sub") - Pending("IncrementRef")

\* The mapping is there while the wrapped file may read a write's bytes from
\* it: the transfer ends only when all outstanding writes have completed.
MappedWhileRead == outstanding > 0 => releases = 0

\* The maintenance thread never deletes the .part file of a live transfer,
\* however long the application waits between two writes.
PartKept == (handler = "live" /\ releases = 0) => part

\* SUCCESS in the database means that every announced byte was written to the
\* cache and taken by the wrapped file (Shutdown's comparison and HadError), and,
\* when Close does not run while the worker is inside HandleResponse, that the
\* upload did not fail and nothing of it is outstanding.
SuccessIsTrue ==
    row = "SUCCESS" =>
        /\ offset = Size /\ sent = Size
        /\ ~races => ~putFailed /\ outstanding = 0

\* No thread is inside a deleted handler (except for m_shutdown_cv, which is
\* static): the reference to itself keeps it until the transfer has ended.
NoUseAfterFree ==
    handler = "freed" =>
        \A t \in Threads : \A i \in DOMAIN todo[t] : todo[t][i].do = "Notify"

\* When Close does not run while the worker is inside HandleResponse, the
\* mapping, the descriptor and the .part file are released once, after the last
\* outstanding write was answered; and no deleted handler is in use in any case.
ReleasedOnce == (~races => MappedWhileRead /\ releases <= 1) /\ NoUseAfterFree

\* A result in the database stays as it is until it expires, whatever the
\* maintenance thread does meanwhile.
ResultStays ==
    [][~races /\ row \in {"SUCCESS", "FAILED"} => row' \in {row, "none"}]_vars

\* Every transfer ends: after Close, also when it races with the last answer,
\* the handler gives up the reference to itself.
TransferEnds == closed ~> ~selfRef

\* ShutdownAll returns once the file was closed and deleted.
ShutdownReturns ==
    (waiter # "idle" /\ waitFor = "deleted" /\ closed /\ file = "gone")
        ~> waiter = "returned"

\* WaitForAllWritebacks returns once the file was closed and deleted.
WaitReturns ==
    (waiter # "idle" /\ waitFor = "idle" /\ closed /\ file = "gone")
        ~> waiter = "returned"
=============================================================================
