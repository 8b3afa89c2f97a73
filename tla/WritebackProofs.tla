-------------------------- MODULE WritebackProofs --------------------------
(***************************************************************************)
(* Proofs about Writeback: the reference count, the life of the .part      *)
(* file, what SUCCESS in the database means, and that a transfer is ended  *)
(* once, for every size of the file, with and without races.               *)
(*                                                                         *)
(* The code a thread has still to run is one of some twenty sequences,     *)
(* named below; all that follows speaks of those names.                    *)
(***************************************************************************)
EXTENDS Writeback, FiniteSetTheorems, TLAPS

\* A piece with the argument TRUE.
Said(do) == Piece(do, TRUE)

\* What the App thread may have to run within a Write ...
AtWrite == <<Just("WrappedWrite")>>
AtCount == <<Just("IncrementRef")>>
AtFailed == <<Just("Sub"), Just("IncrementRef")>>
AtFailedErr == <<Just("SetError"), Just("ReadClosed"), Just("IncrementRef")>>
AtFailedRead == <<Just("ReadClosed"), Just("IncrementRef")>>
AtRefused == <<Just("SetError")>>
\* ... and within Close.
AtClose == <<Just("SetClosed"), Just("TestRef")>>
AtTest == <<Just("TestRef")>>

\* What the Worker has to run when it answers a write.
AtGood == <<Said("Sub")>>
AtBad == <<Just("Sub")>>
AtErrLast == <<Just("SetError"), Said("ReadClosed")>>
AtErrMore == <<Just("SetError"), Just("ReadClosed")>>
AtLast == <<Said("ReadClosed")>>
AtMore == <<Just("ReadClosed")>>

\* What either may have to run to end the transfer.
AtRelease == <<Just("Release"), Just("Judge"), Just("CloseFile")>>
AtJudge == <<Just("Judge"), Just("CloseFile")>>
AtCloseFile == <<Just("CloseFile")>>
AtReopened == <<Just("SetError"), Just("Finalize"), Just("ResetSelf"), Just("Notify")>>
AtBadClose == <<Just("SetError"), Just("TestError"), Just("ResetSelf"), Just("Notify")>>
AtTestError == <<Just("TestError"), Just("ResetSelf"), Just("Notify")>>
AtSuccess == <<Said("Finalize"), Just("ResetSelf"), Just("Notify")>>
AtFailure == <<Just("Finalize"), Just("ResetSelf"), Just("Notify")>>
AtReset == <<Just("ResetSelf"), Just("Notify")>>
AtNotify == <<Just("Notify")>>

CallSet == {AtWrite, AtCount, AtFailed, AtFailedErr, AtFailedRead, AtRefused, AtClose, AtTest}
AnswerSet == {AtGood, AtBad, AtErrLast, AtErrMore, AtLast, AtMore}
EndSet == {AtRelease, AtJudge, AtCloseFile, AtReopened, AtBadClose, AtTestError, AtSuccess,
              AtFailure, AtReset, AtNotify}
AppStacks == {<< >>} \cup CallSet \cup EndSet
WorkerStacks == {<< >>} \cup AnswerSet \cup EndSet

\* The place of a thread, by its stack.
Place(s) ==
    CASE s = AtWrite -> "write"
      [] s = AtCount -> "count"
      [] s = AtFailed -> "failed"
      [] s = AtFailedErr -> "failedErr"
      [] s = AtFailedRead -> "failedRead"
      [] s = AtRefused -> "refused"
      [] s = AtClose -> "close"
      [] s = AtTest -> "test"
      [] s = AtGood -> "good"
      [] s = AtBad -> "bad"
      [] s = AtErrLast -> "errLast"
      [] s = AtErrMore -> "errMore"
      [] s = AtLast -> "last"
      [] s = AtMore -> "more"
      [] s = AtRelease -> "release"
      [] s = AtJudge -> "judge"
      [] s = AtCloseFile -> "closeFile"
      [] s = AtReopened -> "reopened"
      [] s = AtBadClose -> "badClose"
      [] s = AtTestError -> "testError"
      [] s = AtSuccess -> "success"
      [] s = AtFailure -> "failure"
      [] s = AtReset -> "reset"
      [] s = AtNotify -> "notify"
      [] OTHER -> "idle"

\* The places of the two threads.
AppAt == Place(todo[App])
WorkerAt == Place(todo[Worker])

InWrite(p) == p \in {"write", "count", "failed", "failedErr", "failedRead", "refused"}
InClose(p) == p \in {"close", "test"}
InEnd(p) == p \in {"release", "judge", "closeFile", "reopened", "badClose", "testError",
                   "success", "failure", "reset"}

\* The threads' stacks.
StacksOK ==
    /\ todo \in [Threads -> Seq(Pieces)]
    /\ todo[App] \in AppStacks /\ todo[Worker] \in WorkerStacks

\* Where the threads may be while the file is open, is being closed or is closed.
OrderOK ==
    /\ InWrite(AppAt) => file = "open"
    /\ InClose(AppAt) => file = "closed"
    /\ (AppAt = "close" => ~closed) /\ (AppAt = "test" => closed)
    /\ closed => file \in {"closed", "gone"}
    /\ InEnd(AppAt) \/ InEnd(WorkerAt) \/ AppAt = "notify" \/ WorkerAt = "notify"
         \/ closePending => closed

\* A thread that has an answer to subtract, and one that has a write to count.
Subtracts(p) == p \in {"failed", "good", "bad"}
Counts(p) == p \in {"count", "failed", "failedErr", "failedRead"}
One(b) == IF b THEN 1 ELSE 0
Subs == One(Subtracts(AppAt)) + One(Subtracts(WorkerAt))

\* The counters.
CountsOK ==
    /\ refcount = outstanding + Subs - One(Counts(AppAt))
    /\ outstanding + Subs <= sent
    /\ sent + One(AppAt = "write") <= offset
    /\ AppAt = "failed" => sent = 1

\* A thread that has an error to note.
Owes(p) == p \in {"bad", "failed", "errLast", "errMore", "failedErr"}

\* A thread that has compared the size.
Judged(p) == p \in {"closeFile", "badClose", "testError"}

\* What the database is told: an error is noted, or all bytes went through.
TruthOK ==
    /\ hadError \/ offset = sent + One(AppAt = "write") \/ AppAt = "refused"
    /\ putFailed => hadError \/ sent < Size \/ Owes(AppAt) \/ Owes(WorkerAt)
    /\ closePending \/ Judged(AppAt) \/ Judged(WorkerAt) => hadError \/ offset = Size
    /\ AppAt = "success" \/ WorkerAt = "success" \/ row = "SUCCESS" => offset = Size /\ sent = Size

\* With races, the File outlives every answer.
RaceOK ==
    /\ handler = "freed" => file = "gone"
    /\ file = "gone" => AppAt = "idle" /\ WorkerAt = "idle" /\ outstanding = 0 /\ ~closePending

Final == row \in {"SUCCESS", "FAILED"}

\* Without races, a transfer is first running ...
Running ==
    /\ ~closePending /\ releases = 0 /\ ~Final
    /\ selfRef <=> handler = "live"
    /\ handler # "freed" /\ (handler = "none" => file = "new")
    /\ file = "new" => outstanding = 0 /\ WorkerAt = "idle"
    /\ AppAt = "idle" \/ InWrite(AppAt) \/ InClose(AppAt)
    /\ ~InEnd(WorkerAt) /\ WorkerAt # "notify"
    /\ InClose(AppAt) => WorkerAt = "idle"
    /\ closed /\ WorkerAt \in {"last", "errLast"} => outstanding = 0

\* ... then it is being ended, by a thread at p while the other is at q ...
EndedBy(p, q) ==
    /\ InEnd(p) /\ q = "idle" /\ ~closePending
    /\ releases = IF p = "release" THEN 0 ELSE 1
    /\ Final => p = "reset"
    /\ p = "success" => ~putFailed

\* ... with a pause until the wrapped file's Close is answered ...
EndPending ==
    /\ closePending /\ releases = 1 /\ ~Final
    /\ AppAt = "idle" /\ WorkerAt = "idle"

Ending ==
    /\ closed /\ handler = "live" /\ selfRef /\ outstanding = 0
    /\ EndPending \/ EndedBy(AppAt, WorkerAt) \/ EndedBy(WorkerAt, AppAt)
    /\ row = "SUCCESS" => ~putFailed

\* ... and then it has ended.
Ended ==
    /\ closed /\ ~selfRef /\ outstanding = 0 /\ ~closePending /\ releases = 1
    /\ AppAt \in {"idle", "notify"} /\ WorkerAt \in {"idle", "notify"}
    /\ row = "SUCCESS" => ~putFailed

\* What a transfer goes through.
PhaseOK == IF races THEN RaceOK ELSE Running \/ Ending \/ Ended

\* The inductive invariant.
Inv == TypeOK /\ StacksOK /\ OrderOK /\ CountsOK /\ TruthOK /\ PhaseOK

\* Thread t goes from place p to place q.
Moves(t, p, q) ==
    /\ StacksOK'
    /\ \/ t = App /\ AppAt = p /\ AppAt' = q /\ WorkerAt' = WorkerAt
       \/ t = Worker /\ WorkerAt = p /\ WorkerAt' = q /\ AppAt' = AppAt

-----------------------------------------------------------------------------
(* Every step keeps the invariant, given how it moves the threads. *)

\* The counters are within the size of the file.
LEMMA Bounded ==
    ASSUME NEW n \in Nat, NEW f \in 0..n, NEW s \in Nat, NEW o \in Nat, NEW r,
           NEW x \in {0, 1, 2}, NEW c \in {0, 1}, NEW w \in {0, 1},
           r = o + x - c, o + x <= s, s + w <= f
    PROVE  s \in 0..n /\ o \in 0..n /\ r \in -1..n
  OBVIOUS

\* A write of the application.
LEMMA WriteKeeps ==
    ASSUME Inv, ConstantsAssumption, Write,
           Moves(App, "idle", "write")
    PROVE  Inv'
  <1>1. /\ TypeOK /\ StacksOK /\ OrderOK /\ CountsOK /\ TruthOK /\ PhaseOK
        /\ App # Worker /\ Size \in Nat /\ MaxTime \in Nat
    BY Zenon DEF Inv, ConstantsAssumption
  <1>2. /\ UNCHANGED <<file, sent, outstanding, putFailed, wrappedOpen, closePending,
                          handler, selfRef, closed, hadError, refcount, releases, part,
                          row, rowBytes, rowUpdated, now, waiter, waitFor, races>>
        /\ file = "open" /\ offset < Size /\ ~hadError
        /\ offset' = offset + 1 /\ partMtime' = now /\ lastWrite' = now
    BY Zenon DEF Write, fileVars, rowVars, waitVars
  <1>3. /\ StacksOK'
        /\ AppAt = "idle" /\ AppAt' = "write" /\ WorkerAt' = WorkerAt
    BY <1>1 DEF Moves
  <1>4. OrderOK'
    BY Zenon, <1>1, <1>2, <1>3 DEF OrderOK, InClose, InEnd
  <1>5. CountsOK'
    BY <1>1, <1>2, <1>3 DEF CountsOK, Subs, One, Subtracts, Counts, TypeOK
  <1>6. TruthOK'
    BY <1>1, <1>2, <1>3 DEF TruthOK, One, Judged, TypeOK
  <1>7. TypeOK'
    <2>1. sent' \in Nat /\ outstanding' \in Nat /\ refcount' \in Int /\ offset' \in 0..Size
      BY <1>1, <1>2, <1>3 DEF TypeOK
    <2>2. sent' \in 0..Size /\ outstanding' \in 0..Size /\ refcount' \in -1..Size
      <3>1. /\ Subs' \in {0, 1, 2} /\ One(Counts(AppAt))' \in {0, 1}
            /\ One(AppAt = "write")' \in {0, 1}
        BY DEF Subs, One
      <3>2. /\ refcount' = outstanding' + Subs' - One(Counts(AppAt))'
            /\ outstanding' + Subs' <= sent' /\ sent' + One(AppAt = "write")' <= offset'
        BY Zenon, <1>5 DEF CountsOK
      <3> QED BY Zenon, <2>1, <3>1, <3>2, Bounded
    <2>3. /\ partMtime' \in 0..MaxTime
          /\ lastWrite' \in 0..MaxTime
      BY Zenon, <1>1, <1>2 DEF TypeOK
    <2> QED BY <1>1, <1>2, <1>3 DEF TypeOK, StacksOK
  <1>8. PhaseOK'
    <2>1. CASE races
      BY Zenon, <1>1, <1>2, <2>1 DEF PhaseOK, RaceOK
    <2>2. CASE ~races /\ Running
      BY Zenon, <1>2, <1>3, <2>2 DEF PhaseOK, Running, Final, InWrite, InClose
    <2>3. CASE ~races /\ Ending
      BY Zenon, <1>1, <1>2, <2>3 DEF Ending, OrderOK
    <2>4. CASE ~races /\ Ended
      BY Zenon, <1>1, <1>2, <2>4 DEF Ended, OrderOK
    <2> QED BY Zenon, <1>1, <2>1, <2>2, <2>3, <2>4 DEF PhaseOK
  <1> QED BY Zenon, <1>3, <1>4, <1>5, <1>6, <1>7, <1>8 DEF Inv

\* The wrapped write.
LEMMA WrappedWriteKeeps ==
    ASSUME Inv, ConstantsAssumption, WrappedWrite,
           \/ /\ ~putFailed /\ sent' = sent + 1 /\ outstanding' = outstanding + 1
              /\ putFailed' = putFailed /\ Moves(App, "write", "count")
           \/ /\ ~putFailed /\ sent = 0 /\ sent' = sent + 1 /\ putFailed'
              /\ outstanding' = outstanding /\ Moves(App, "write", "failed")
           \/ /\ putFailed /\ UNCHANGED <<sent, outstanding, putFailed>>
              /\ Moves(App, "write", "refused")
    PROVE  Inv'
  <1>1. /\ TypeOK /\ StacksOK /\ OrderOK /\ CountsOK /\ TruthOK /\ PhaseOK
        /\ App # Worker /\ Size \in Nat /\ MaxTime \in Nat
    BY Zenon DEF Inv, ConstantsAssumption
  <1>2. /\ UNCHANGED <<file, wrappedOpen, closePending, handler, selfRef, closed,
                          hadError, refcount, offset, releases, part, partMtime, lastWrite,
                          row, rowBytes, rowUpdated, now, waiter, waitFor, races>>
    BY Zenon DEF WrappedWrite, handlerVars, diskVars, rowVars, waitVars
  <1>3. /\ StacksOK'
        /\ AppAt = "write" /\ WorkerAt' = WorkerAt
        /\ \/ /\ ~putFailed /\ sent' = sent + 1 /\ outstanding' = outstanding + 1
              /\ putFailed' = putFailed /\ AppAt' = "count"
           \/ /\ ~putFailed /\ sent = 0 /\ sent' = sent + 1 /\ putFailed' = TRUE
              /\ outstanding' = outstanding /\ AppAt' = "failed"
           \/ /\ putFailed /\ sent' = sent /\ outstanding' = outstanding /\ putFailed' = putFailed
              /\ AppAt' = "refused"
    BY <1>1 DEF Moves, WrappedWrite
  <1>4. OrderOK'
    BY Zenon, <1>1, <1>2, <1>3 DEF OrderOK, InWrite, InClose, InEnd
  <1>5. CountsOK'
    BY <1>1, <1>2, <1>3 DEF CountsOK, Subs, One, Subtracts, Counts, TypeOK
  <1>6. TruthOK'
    BY <1>1, <1>2, <1>3 DEF TruthOK, CountsOK, One, Owes, Judged, TypeOK
  <1>7. TypeOK'
    <2>1. sent' \in Nat /\ outstanding' \in Nat /\ refcount' \in Int /\ offset' \in 0..Size
      BY <1>1, <1>2, <1>3 DEF TypeOK
    <2>2. sent' \in 0..Size /\ outstanding' \in 0..Size /\ refcount' \in -1..Size
      <3>1. /\ Subs' \in {0, 1, 2} /\ One(Counts(AppAt))' \in {0, 1}
            /\ One(AppAt = "write")' \in {0, 1}
        BY DEF Subs, One
      <3>2. /\ refcount' = outstanding' + Subs' - One(Counts(AppAt))'
            /\ outstanding' + Subs' <= sent' /\ sent' + One(AppAt = "write")' <= offset'
        BY Zenon, <1>5 DEF CountsOK
      <3> QED BY Zenon, <2>1, <3>1, <3>2, Bounded
    <2>3. /\ putFailed' \in BOOLEAN
      BY Zenon, <1>1 DEF TypeOK
    <2> QED BY <1>1, <1>2, <1>3, <2>2, <2>3 DEF TypeOK, StacksOK
  <1>8. PhaseOK'
    <2>1. CASE races
      BY Zenon, <1>1, <1>2, <1>3, <2>1 DEF PhaseOK, RaceOK
    <2>2. CASE ~races /\ Running
      BY Zenon, <1>1, <1>2, <1>3, <2>2 DEF PhaseOK, Running, Final, OrderOK, InWrite, InClose
    <2>3. CASE ~races /\ Ending
      BY Zenon, <1>3, <2>3 DEF Ending, EndPending, EndedBy, InEnd
    <2>4. CASE ~races /\ Ended
      BY Zenon, <1>3, <2>4 DEF Ended
    <2> QED BY Zenon, <1>1, <2>1, <2>2, <2>3, <2>4 DEF PhaseOK
  <1> QED BY Zenon, <1>3, <1>4, <1>5, <1>6, <1>7, <1>8 DEF Inv

\* The write is counted.
LEMMA IncrementRefKeeps ==
    ASSUME Inv, ConstantsAssumption, IncrementRef,
           Moves(App, "count", "idle")
    PROVE  Inv'
  <1>1. /\ TypeOK /\ StacksOK /\ OrderOK /\ CountsOK /\ TruthOK /\ PhaseOK
        /\ App # Worker /\ Size \in Nat /\ MaxTime \in Nat
    BY Zenon DEF Inv, ConstantsAssumption
  <1>2. /\ UNCHANGED <<file, sent, outstanding, putFailed, wrappedOpen, closePending,
                          handler, selfRef, closed, hadError, offset, releases, part,
                          partMtime, lastWrite, row, rowBytes, rowUpdated, now, waiter,
                          waitFor, races>>
        /\ refcount' = refcount + 1
    BY Zenon DEF IncrementRef, Counted, fileVars, diskVars, rowVars, waitVars
  <1>3. /\ StacksOK'
        /\ AppAt = "count" /\ AppAt' = "idle" /\ WorkerAt' = WorkerAt
    BY <1>1 DEF Moves
  <1>4. OrderOK'
    BY Zenon, <1>1, <1>2, <1>3 DEF OrderOK, InWrite, InClose, InEnd
  <1>5. CountsOK'
    BY <1>1, <1>2, <1>3 DEF CountsOK, Subs, One, Subtracts, Counts, TypeOK
  <1>6. TruthOK'
    BY Zenon, <1>1, <1>2, <1>3 DEF TruthOK, Owes, Judged
  <1>7. TypeOK'
    <2>1. sent' \in Nat /\ outstanding' \in Nat /\ refcount' \in Int /\ offset' \in 0..Size
      BY <1>1, <1>2, <1>3 DEF TypeOK
    <2>2. sent' \in 0..Size /\ outstanding' \in 0..Size /\ refcount' \in -1..Size
      <3>1. /\ Subs' \in {0, 1, 2} /\ One(Counts(AppAt))' \in {0, 1}
            /\ One(AppAt = "write")' \in {0, 1}
        BY DEF Subs, One
      <3>2. /\ refcount' = outstanding' + Subs' - One(Counts(AppAt))'
            /\ outstanding' + Subs' <= sent' /\ sent' + One(AppAt = "write")' <= offset'
        BY Zenon, <1>5 DEF CountsOK
      <3> QED BY Zenon, <2>1, <3>1, <3>2, Bounded
    <2> QED BY <1>1, <1>2, <1>3, <2>2 DEF TypeOK, StacksOK
  <1>8. PhaseOK'
    <2>1. CASE races
      BY Zenon, <1>1, <1>2, <1>3, <2>1 DEF PhaseOK, RaceOK
    <2>2. CASE ~races /\ Running
      BY Zenon, <1>2, <1>3, <2>2 DEF PhaseOK, Running, Final, InClose
    <2>3. CASE ~races /\ Ending
      BY Zenon, <1>3, <2>3 DEF Ending, EndPending, EndedBy, InEnd
    <2>4. CASE ~races /\ Ended
      BY Zenon, <1>3, <2>4 DEF Ended
    <2> QED BY Zenon, <1>1, <2>1, <2>2, <2>3, <2>4 DEF PhaseOK
  <1> QED BY Zenon, <1>3, <1>4, <1>5, <1>6, <1>7, <1>8 DEF Inv

\* The application closes the file.
LEMMA CloseKeeps ==
    ASSUME Inv, ConstantsAssumption, Close,
           Moves(App, "idle", "close"), races \/ WorkerAt = "idle"
    PROVE  Inv'
  <1>1. /\ TypeOK /\ StacksOK /\ OrderOK /\ CountsOK /\ TruthOK /\ PhaseOK
        /\ App # Worker /\ Size \in Nat /\ MaxTime \in Nat
    BY Zenon DEF Inv, ConstantsAssumption
  <1>2. /\ UNCHANGED <<sent, outstanding, putFailed, wrappedOpen, closePending, handler,
                          selfRef, closed, hadError, refcount, offset, releases, part,
                          partMtime, lastWrite, row, rowBytes, rowUpdated, now, waiter,
                          waitFor, races>>
        /\ file = "open" /\ file' = "closed"
        /\ races \/ todo[Worker] = << >>
    BY Zenon DEF Close, handlerVars, diskVars, rowVars, waitVars
  <1>3. /\ StacksOK'
        /\ AppAt = "idle" /\ AppAt' = "close" /\ WorkerAt' = WorkerAt
        /\ races \/ WorkerAt = "idle"
    BY <1>1 DEF Moves
  <1>4. OrderOK'
    BY Zenon, <1>1, <1>2, <1>3 DEF OrderOK, InWrite, InEnd
  <1>5. CountsOK'
    BY Zenon, <1>1, <1>2, <1>3 DEF CountsOK, Subs, One, Subtracts, Counts
  <1>6. TruthOK'
    BY Zenon, <1>1, <1>2, <1>3 DEF TruthOK, Owes, Judged
  <1>7. TypeOK'
    <2>1. /\ file' \in {"new", "open", "closed", "failed", "gone"}
      BY Zenon, <1>2
    <2> QED BY <1>1, <1>2, <1>3 DEF TypeOK, StacksOK
  <1>8. PhaseOK'
    <2>1. CASE races
      BY Zenon, <1>1, <1>2, <2>1 DEF PhaseOK, RaceOK
    <2>2. CASE ~races /\ Running
      BY Zenon, <1>2, <1>3, <2>2 DEF PhaseOK, Running, Final, InClose
    <2>3. CASE ~races /\ Ending
      BY Zenon, <1>1, <1>2, <2>3 DEF Ending, OrderOK
    <2>4. CASE ~races /\ Ended
      BY Zenon, <1>1, <1>2, <2>4 DEF Ended, OrderOK
    <2> QED BY Zenon, <1>1, <2>1, <2>2, <2>3, <2>4 DEF PhaseOK
  <1> QED BY Zenon, <1>3, <1>4, <1>5, <1>6, <1>7, <1>8 DEF Inv

\* m_closed is set.
LEMMA SetClosedKeeps ==
    ASSUME Inv, ConstantsAssumption, SetClosed,
           Moves(App, "close", "test")
    PROVE  Inv'
  <1>1. /\ TypeOK /\ StacksOK /\ OrderOK /\ CountsOK /\ TruthOK /\ PhaseOK
        /\ App # Worker /\ Size \in Nat /\ MaxTime \in Nat
    BY Zenon DEF Inv, ConstantsAssumption
  <1>2. /\ UNCHANGED <<file, sent, outstanding, putFailed, wrappedOpen, closePending,
                          handler, selfRef, hadError, refcount, offset, releases, part,
                          partMtime, lastWrite, row, rowBytes, rowUpdated, now, waiter,
                          waitFor, races>>
        /\ closed' = TRUE
    BY Zenon DEF SetClosed, fileVars, diskVars, rowVars, waitVars
  <1>3. /\ StacksOK'
        /\ AppAt = "close" /\ AppAt' = "test" /\ WorkerAt' = WorkerAt
    BY <1>1 DEF Moves
  <1>4. OrderOK'
    BY Zenon, <1>1, <1>2, <1>3 DEF OrderOK, InWrite, InClose
  <1>5. CountsOK'
    BY Zenon, <1>1, <1>2, <1>3 DEF CountsOK, Subs, One, Subtracts, Counts
  <1>6. TruthOK'
    BY Zenon, <1>1, <1>2, <1>3 DEF TruthOK, Owes, Judged
  <1>7. TypeOK'
    <2>1. /\ closed' \in BOOLEAN
      BY Zenon, <1>2
    <2> QED BY <1>1, <1>2, <1>3 DEF TypeOK, StacksOK
  <1>8. PhaseOK'
    <2>1. CASE races
      BY Zenon, <1>1, <1>2, <1>3, <2>1 DEF PhaseOK, RaceOK
    <2>2. CASE ~races /\ Running
      BY Zenon, <1>2, <1>3, <2>2 DEF PhaseOK, Running, Final, InClose
    <2>3. CASE ~races /\ Ending
      BY Zenon, <1>1, <1>3, <2>3 DEF Ending, OrderOK
    <2>4. CASE ~races /\ Ended
      BY Zenon, <1>3, <2>4 DEF Ended
    <2> QED BY Zenon, <1>1, <2>1, <2>2, <2>3, <2>4 DEF PhaseOK
  <1> QED BY Zenon, <1>3, <1>4, <1>5, <1>6, <1>7, <1>8 DEF Inv

\* Close looks whether all writes were answered.
LEMMA TestRefKeeps ==
    ASSUME Inv, ConstantsAssumption, TestRef,
           IF refcount = 0 THEN Moves(App, "test", "release") ELSE Moves(App, "test", "idle")
    PROVE  Inv'
  <1>1. /\ TypeOK /\ StacksOK /\ OrderOK /\ CountsOK /\ TruthOK /\ PhaseOK
        /\ App # Worker /\ Size \in Nat /\ MaxTime \in Nat
    BY Zenon DEF Inv, ConstantsAssumption
  <1>2. /\ UNCHANGED <<file, sent, outstanding, putFailed, wrappedOpen, closePending,
                          handler, selfRef, closed, hadError, refcount, offset, releases,
                          part, partMtime, lastWrite, row, rowBytes, rowUpdated, now,
                          waiter, waitFor, races>>
    BY Zenon DEF TestRef, fileVars, handlerVars, diskVars, rowVars, waitVars
  <1>3. /\ StacksOK'
        /\ AppAt = "test" /\ WorkerAt' = WorkerAt
        /\ AppAt' = IF refcount = 0 THEN "release" ELSE "idle"
    BY <1>1 DEF Moves
  <1>4. OrderOK'
    BY Zenon, <1>1, <1>2, <1>3 DEF OrderOK, InWrite, InClose
  <1>5. CountsOK'
    BY Zenon, <1>1, <1>2, <1>3 DEF CountsOK, Subs, One, Subtracts, Counts
  <1>6. TruthOK'
    BY Zenon, <1>1, <1>2, <1>3 DEF TruthOK, Owes, Judged
  <1>7. TypeOK'
    <2> QED BY <1>1, <1>2, <1>3 DEF TypeOK, StacksOK
  <1>8. PhaseOK'
    <2>1. CASE races
      BY Zenon, <1>1, <1>2, <1>3, <2>1 DEF PhaseOK, RaceOK
    <2>2. CASE ~races /\ Running
      BY <1>1, <1>2, <1>3, <2>2 DEF PhaseOK, Running, Final, Ending, EndedBy, OrderOK, CountsOK,
         Subs, One, Counts, InEnd, TypeOK
    <2>3. CASE ~races /\ Ending
      BY Zenon, <1>3, <2>3 DEF Ending, EndPending, EndedBy, InEnd
    <2>4. CASE ~races /\ Ended
      BY Zenon, <1>3, <2>4 DEF Ended
    <2> QED BY Zenon, <1>1, <2>1, <2>2, <2>3, <2>4 DEF PhaseOK
  <1> QED BY Zenon, <1>3, <1>4, <1>5, <1>6, <1>7, <1>8 DEF Inv

\* A write is answered.
LEMMA AnswerWriteKeeps ==
    ASSUME Inv, ConstantsAssumption, AnswerWrite,
           \/ ~putFailed /\ UNCHANGED putFailed /\ Moves(Worker, "idle", "good")
           \/ putFailed' /\ Moves(Worker, "idle", "bad"),
           races \/ ~InClose(AppAt)
    PROVE  Inv'
  <1>1. /\ TypeOK /\ StacksOK /\ OrderOK /\ CountsOK /\ TruthOK /\ PhaseOK
        /\ App # Worker /\ Size \in Nat /\ MaxTime \in Nat
    BY Zenon DEF Inv, ConstantsAssumption
  <1>2. /\ UNCHANGED <<file, sent, wrappedOpen, closePending, handler, selfRef, closed,
                          hadError, refcount, offset, releases, part, partMtime, lastWrite,
                          row, rowBytes, rowUpdated, now, waiter, waitFor, races>>
        /\ outstanding > 0 /\ outstanding' = outstanding - 1 /\ putFailed' \in {putFailed, TRUE}
        /\ races \/ ~(Top(App, "SetClosed") \/ Top(App, "TestRef"))
    BY Zenon DEF AnswerWrite, handlerVars, diskVars, rowVars, waitVars
  <1>3. /\ StacksOK'
        /\ WorkerAt = "idle" /\ AppAt' = AppAt
        /\ \/ ~putFailed /\ putFailed' = putFailed /\ WorkerAt' = "good"
           \/ putFailed' = TRUE /\ WorkerAt' = "bad"
        /\ races \/ ~InClose(AppAt)
    BY <1>1, <1>2 DEF Moves, TypeOK
  <1>4. OrderOK'
    BY Zenon, <1>1, <1>2, <1>3 DEF OrderOK, InEnd
  <1>5. CountsOK'
    BY <1>1, <1>2, <1>3 DEF CountsOK, Subs, One, Subtracts, TypeOK
  <1>6. TruthOK'
    BY <1>1, <1>2, <1>3 DEF TruthOK, Owes, Judged
  <1>7. TypeOK'
    <2>1. sent' \in Nat /\ outstanding' \in Nat /\ refcount' \in Int /\ offset' \in 0..Size
      BY <1>1, <1>2, <1>3 DEF TypeOK
    <2>2. sent' \in 0..Size /\ outstanding' \in 0..Size /\ refcount' \in -1..Size
      <3>1. /\ Subs' \in {0, 1, 2} /\ One(Counts(AppAt))' \in {0, 1}
            /\ One(AppAt = "write")' \in {0, 1}
        BY DEF Subs, One
      <3>2. /\ refcount' = outstanding' + Subs' - One(Counts(AppAt))'
            /\ outstanding' + Subs' <= sent' /\ sent' + One(AppAt = "write")' <= offset'
        BY Zenon, <1>5 DEF CountsOK
      <3> QED BY Zenon, <2>1, <3>1, <3>2, Bounded
    <2>3. /\ putFailed' \in BOOLEAN
      BY Zenon, <1>1 DEF TypeOK
    <2> QED BY <1>1, <1>2, <1>3, <2>3 DEF TypeOK, StacksOK
  <1>8. PhaseOK'
    <2>1. CASE races
      BY <1>1, <1>2, <2>1 DEF PhaseOK, RaceOK
    <2>2. CASE ~races /\ Running
      BY <1>2, <1>3, <2>2 DEF PhaseOK, Running, Final, InEnd
    <2>3. CASE ~races /\ Ending
      BY <1>2, <2>3 DEF Ending
    <2>4. CASE ~races /\ Ended
      BY <1>2, <2>4 DEF Ended
    <2> QED BY Zenon, <1>1, <2>1, <2>2, <2>3, <2>4 DEF PhaseOK
  <1> QED BY Zenon, <1>3, <1>4, <1>5, <1>6, <1>7, <1>8 DEF Inv

\* The close is answered.
LEMMA AnswerCloseKeeps ==
    ASSUME Inv, ConstantsAssumption, AnswerClose,
           Moves(Worker, "idle", "testError") \/ Moves(Worker, "idle", "badClose")
    PROVE  Inv'
  <1>1. /\ TypeOK /\ StacksOK /\ OrderOK /\ CountsOK /\ TruthOK /\ PhaseOK
        /\ App # Worker /\ Size \in Nat /\ MaxTime \in Nat
    BY Zenon DEF Inv, ConstantsAssumption
  <1>2. /\ UNCHANGED <<file, sent, outstanding, putFailed, wrappedOpen, handler,
                          selfRef, closed, hadError, refcount, offset, releases, part,
                          partMtime, lastWrite, row, rowBytes, rowUpdated, now, waiter,
                          waitFor, races>>
        /\ closePending /\ closePending' = FALSE
    BY Zenon DEF AnswerClose, handlerVars, diskVars, rowVars, waitVars
  <1>3. /\ StacksOK'
        /\ WorkerAt = "idle" /\ AppAt' = AppAt
        /\ WorkerAt' \in {"testError", "badClose"}
    BY <1>1 DEF Moves
  <1>4. OrderOK'
    BY Zenon, <1>1, <1>2, <1>3 DEF OrderOK
  <1>5. CountsOK'
    BY Zenon, <1>1, <1>2, <1>3 DEF CountsOK, Subs, One, Subtracts
  <1>6. TruthOK'
    BY Zenon, <1>1, <1>2, <1>3 DEF TruthOK, Owes
  <1>7. TypeOK'
    <2>1. /\ closePending' \in BOOLEAN
      BY Zenon, <1>2
    <2> QED BY <1>1, <1>2, <1>3, <2>1 DEF TypeOK, StacksOK
  <1>8. PhaseOK'
    <2>1. CASE races
      BY Zenon, <1>1, <1>2, <2>1 DEF PhaseOK, RaceOK
    <2>2. CASE ~races /\ Running
      BY Zenon, <1>2, <2>2 DEF Running
    <2>3. CASE ~races /\ Ending
      BY Zenon, <1>2, <1>3, <2>3 DEF PhaseOK, Ending, EndPending, EndedBy, Final, InEnd
    <2>4. CASE ~races /\ Ended
      BY Zenon, <1>2, <2>4 DEF Ended
    <2> QED BY Zenon, <1>1, <2>1, <2>2, <2>3, <2>4 DEF PhaseOK
  <1> QED BY Zenon, <1>3, <1>4, <1>5, <1>6, <1>7, <1>8 DEF Inv

\* The answer to a write that failed at once is never the last one: the write was not counted.
LEMMA NotLast ==
    ASSUME CountsOK, TypeOK, AppAt = "failed"
    PROVE  refcount # 1
  <1>1. sent = 1 /\ refcount = outstanding + Subs - 1 /\ outstanding + Subs <= sent
    BY DEF CountsOK, Counts, One
  <1> QED BY <1>1 DEF TypeOK, Subs, One

\* An answer is subtracted.
LEMMA SubKeeps ==
    ASSUME Inv, ConstantsAssumption, NEW t \in Threads, Sub(t),
           \/ /\ t = Worker
              /\ \/ Moves(t, "good", IF refcount = 1 THEN "last" ELSE "more")
                 \/ Moves(t, "bad", IF refcount = 1 THEN "errLast" ELSE "errMore")
           \/ /\ t = App /\ AppAt = "failed"
              /\ refcount # 1 => Moves(t, "failed", "failedErr")
    PROVE  Inv'
  <1>1. /\ TypeOK /\ StacksOK /\ OrderOK /\ CountsOK /\ TruthOK /\ PhaseOK
        /\ App # Worker /\ Size \in Nat /\ MaxTime \in Nat
    BY Zenon DEF Inv, ConstantsAssumption
  <1>2. /\ UNCHANGED <<file, sent, outstanding, putFailed, wrappedOpen, closePending,
                          handler, selfRef, closed, hadError, offset, releases, part,
                          partMtime, lastWrite, row, rowBytes, rowUpdated, now, waiter,
                          waitFor, races>>
        /\ refcount' = refcount - 1
    BY Zenon DEF Sub, fileVars, diskVars, rowVars, waitVars
  <1>3. /\ StacksOK'
        /\ \/ /\ t = Worker /\ WorkerAt = "good" /\ AppAt' = AppAt
              /\ WorkerAt' = IF refcount = 1 THEN "last" ELSE "more"
           \/ /\ t = Worker /\ WorkerAt = "bad" /\ AppAt' = AppAt
              /\ WorkerAt' = IF refcount = 1 THEN "errLast" ELSE "errMore"
           \/ t = App /\ AppAt = "failed" /\ AppAt' = "failedErr" /\ WorkerAt' = WorkerAt
    BY <1>1, NotLast DEF Moves
  <1>4. OrderOK'
    BY Zenon, <1>1, <1>2, <1>3 DEF OrderOK, InWrite, InClose, InEnd
  <1>5. CountsOK'
    BY <1>1, <1>2, <1>3 DEF CountsOK, Subs, One, Subtracts, Counts, TypeOK
  <1>6. TruthOK'
    BY Zenon, <1>1, <1>2, <1>3 DEF TruthOK, Owes, Judged
  <1>7. TypeOK'
    <2>1. sent' \in Nat /\ outstanding' \in Nat /\ refcount' \in Int /\ offset' \in 0..Size
      BY <1>1, <1>2, <1>3 DEF TypeOK
    <2>2. sent' \in 0..Size /\ outstanding' \in 0..Size /\ refcount' \in -1..Size
      <3>1. /\ Subs' \in {0, 1, 2} /\ One(Counts(AppAt))' \in {0, 1}
            /\ One(AppAt = "write")' \in {0, 1}
        BY DEF Subs, One
      <3>2. /\ refcount' = outstanding' + Subs' - One(Counts(AppAt))'
            /\ outstanding' + Subs' <= sent' /\ sent' + One(AppAt = "write")' <= offset'
        BY Zenon, <1>5 DEF CountsOK
      <3> QED BY Zenon, <2>1, <3>1, <3>2, Bounded
    <2> QED BY <1>1, <1>2, <1>3, <2>2 DEF TypeOK, StacksOK
  <1>8. PhaseOK'
    <2>1. CASE races
      BY Zenon, <1>1, <1>2, <1>3, <2>1 DEF PhaseOK, RaceOK
    <2>2. CASE ~races /\ Running
      BY <1>1, <1>2, <1>3, <2>2 DEF PhaseOK, Running, Final, OrderOK, CountsOK, Subs, One,
         Subtracts, Counts, InWrite, InClose, InEnd, TypeOK
    <2>3. CASE ~races /\ Ending
      BY Zenon, <1>3, <2>3 DEF Ending, EndPending, EndedBy, InEnd
    <2>4. CASE ~races /\ Ended
      BY Zenon, <1>3, <2>4 DEF Ended
    <2> QED BY Zenon, <1>1, <2>1, <2>2, <2>3, <2>4 DEF PhaseOK
  <1> QED BY Zenon, <1>3, <1>4, <1>5, <1>6, <1>7, <1>8 DEF Inv

\* An error is noted.
LEMMA SetErrorKeeps ==
    ASSUME Inv, ConstantsAssumption, NEW t \in Threads, SetError(t),
           \/ Moves(t, "failedErr", "failedRead") \/ Moves(t, "refused", "idle")
           \/ Moves(t, "errLast", "last") \/ Moves(t, "errMore", "more")
           \/ Moves(t, "reopened", "failure") \/ Moves(t, "badClose", "testError")
    PROVE  Inv'
  <1>1. /\ TypeOK /\ StacksOK /\ OrderOK /\ CountsOK /\ TruthOK /\ PhaseOK
        /\ App # Worker /\ Size \in Nat /\ MaxTime \in Nat
    BY Zenon DEF Inv, ConstantsAssumption
  <1>2. /\ UNCHANGED <<file, sent, outstanding, putFailed, wrappedOpen, closePending,
                          handler, selfRef, closed, refcount, offset, releases, part,
                          partMtime, lastWrite, row, rowBytes, rowUpdated, now, waiter,
                          waitFor, races>>
        /\ hadError' = TRUE
    BY Zenon DEF SetError, fileVars, diskVars, rowVars, waitVars
  <1>3. /\ StacksOK'
        /\ \/ t = App /\ AppAt = "failedErr" /\ AppAt' = "failedRead" /\ WorkerAt' = WorkerAt
           \/ t = Worker /\ WorkerAt = "failedErr" /\ WorkerAt' = "failedRead" /\ AppAt' = AppAt
           \/ t = App /\ AppAt = "refused" /\ AppAt' = "idle" /\ WorkerAt' = WorkerAt
           \/ t = Worker /\ WorkerAt = "refused" /\ WorkerAt' = "idle" /\ AppAt' = AppAt
           \/ t = App /\ AppAt = "errLast" /\ AppAt' = "last" /\ WorkerAt' = WorkerAt
           \/ t = Worker /\ WorkerAt = "errLast" /\ WorkerAt' = "last" /\ AppAt' = AppAt
           \/ t = App /\ AppAt = "errMore" /\ AppAt' = "more" /\ WorkerAt' = WorkerAt
           \/ t = Worker /\ WorkerAt = "errMore" /\ WorkerAt' = "more" /\ AppAt' = AppAt
           \/ t = App /\ AppAt = "reopened" /\ AppAt' = "failure" /\ WorkerAt' = WorkerAt
           \/ t = Worker /\ WorkerAt = "reopened" /\ WorkerAt' = "failure" /\ AppAt' = AppAt
           \/ t = App /\ AppAt = "badClose" /\ AppAt' = "testError" /\ WorkerAt' = WorkerAt
           \/ t = Worker /\ WorkerAt = "badClose" /\ WorkerAt' = "testError" /\ AppAt' = AppAt
    BY <1>1 DEF Moves
  <1>4. OrderOK'
    BY Zenon, <1>1, <1>2, <1>3 DEF OrderOK, InWrite, InClose, InEnd
  <1>5. CountsOK'
    BY Zenon, <1>1, <1>2, <1>3 DEF CountsOK, Subs, One, Subtracts, Counts
  <1>6. TruthOK'
    BY Zenon, <1>1, <1>2, <1>3 DEF TruthOK
  <1>7. TypeOK'
    <2>1. /\ hadError' \in BOOLEAN
      BY Zenon, <1>2
    <2> QED BY <1>1, <1>2, <1>3 DEF TypeOK, StacksOK
  <1>8. PhaseOK'
    <2>1. CASE races
      BY Zenon, <1>1, <1>2, <1>3, <2>1 DEF PhaseOK, RaceOK
    <2>2. CASE ~races /\ Running
      BY Zenon, <1>2, <1>3, <2>2 DEF PhaseOK, Running, Final, InWrite, InClose, InEnd
    <2>3. CASE ~races /\ Ending
      BY Zenon, <1>2, <1>3, <2>3 DEF PhaseOK, Ending, EndPending, EndedBy, Final, InEnd
    <2>4. CASE ~races /\ Ended
      BY Zenon, <1>3, <2>4 DEF Ended
    <2> QED BY Zenon, <1>1, <2>1, <2>2, <2>3, <2>4 DEF PhaseOK
  <1> QED BY Zenon, <1>3, <1>4, <1>5, <1>6, <1>7, <1>8 DEF Inv

\* The last answer after the close ends the transfer.
LEMMA ReadClosedKeeps ==
    ASSUME Inv, ConstantsAssumption, NEW t \in Threads, ReadClosed(t),
           \/ Moves(t, "last", IF closed THEN "release" ELSE "idle")
           \/ Moves(t, "more", "idle") \/ Moves(t, "failedRead", "count")
    PROVE  Inv'
  <1>1. /\ TypeOK /\ StacksOK /\ OrderOK /\ CountsOK /\ TruthOK /\ PhaseOK
        /\ App # Worker /\ Size \in Nat /\ MaxTime \in Nat
    BY Zenon DEF Inv, ConstantsAssumption
  <1>2. /\ UNCHANGED <<file, sent, outstanding, putFailed, wrappedOpen, closePending,
                          handler, selfRef, closed, hadError, refcount, offset, releases,
                          part, partMtime, lastWrite, row, rowBytes, rowUpdated, now,
                          waiter, waitFor, races>>
    BY Zenon DEF ReadClosed, fileVars, handlerVars, diskVars, rowVars, waitVars
  <1>3. /\ StacksOK'
        /\ \/ t = App /\ AppAt = "last" /\ AppAt' = (IF closed THEN "release" ELSE "idle")
                /\ WorkerAt' = WorkerAt
           \/ t = Worker /\ WorkerAt = "last" /\ WorkerAt' = (IF closed THEN "release" ELSE "idle")
                /\ AppAt' = AppAt
           \/ t = App /\ AppAt = "more" /\ AppAt' = "idle" /\ WorkerAt' = WorkerAt
           \/ t = Worker /\ WorkerAt = "more" /\ WorkerAt' = "idle" /\ AppAt' = AppAt
           \/ t = App /\ AppAt = "failedRead" /\ AppAt' = "count" /\ WorkerAt' = WorkerAt
           \/ t = Worker /\ WorkerAt = "failedRead" /\ WorkerAt' = "count" /\ AppAt' = AppAt
    BY <1>1 DEF Moves
  <1>4. OrderOK'
    BY Zenon, <1>1, <1>2, <1>3 DEF OrderOK, InWrite, InClose, InEnd
  <1>5. CountsOK'
    BY Zenon, <1>1, <1>2, <1>3 DEF CountsOK, Subs, One, Subtracts, Counts
  <1>6. TruthOK'
    BY Zenon, <1>1, <1>2, <1>3 DEF TruthOK, Owes, Judged
  <1>7. TypeOK'
    <2> QED BY <1>1, <1>2, <1>3 DEF TypeOK, StacksOK
  <1>8. PhaseOK'
    <2>1. CASE races
      BY Zenon, <1>1, <1>2, <1>3, <2>1 DEF PhaseOK, RaceOK
    <2>2. CASE ~races /\ Running
      BY Zenon, <1>1, <1>2, <1>3, <2>2 DEF PhaseOK, Running, Final, Ending, EndedBy, OrderOK,
         InWrite, InClose, InEnd, TypeOK
    <2>3. CASE ~races /\ Ending
      BY Zenon, <1>3, <2>3 DEF Ending, EndPending, EndedBy, InEnd
    <2>4. CASE ~races /\ Ended
      BY Zenon, <1>3, <2>4 DEF Ended
    <2> QED BY Zenon, <1>1, <2>1, <2>2, <2>3, <2>4 DEF PhaseOK
  <1> QED BY Zenon, <1>3, <1>4, <1>5, <1>6, <1>7, <1>8 DEF Inv

\* The mapping is released.
LEMMA ReleaseKeeps ==
    ASSUME Inv, ConstantsAssumption, NEW t \in Threads, Release(t),
           Moves(t, "release", "judge")
    PROVE  Inv'
  <1>1. /\ TypeOK /\ StacksOK /\ OrderOK /\ CountsOK /\ TruthOK /\ PhaseOK
        /\ App # Worker /\ Size \in Nat /\ MaxTime \in Nat
    BY Zenon DEF Inv, ConstantsAssumption
  <1>2. /\ UNCHANGED <<file, sent, outstanding, putFailed, wrappedOpen, closePending,
                          handler, selfRef, closed, hadError, refcount, offset, partMtime,
                          lastWrite, row, rowBytes, rowUpdated, now, waiter, waitFor,
                          races>>
        /\ releases' = releases + 1 /\ part' = FALSE
    BY Zenon DEF Release, fileVars, rowVars, waitVars
  <1>3. /\ StacksOK'
        /\ \/ t = App /\ AppAt = "release" /\ AppAt' = "judge" /\ WorkerAt' = WorkerAt
           \/ t = Worker /\ WorkerAt = "release" /\ WorkerAt' = "judge" /\ AppAt' = AppAt
    BY <1>1 DEF Moves
  <1>4. OrderOK'
    BY Zenon, <1>1, <1>2, <1>3 DEF OrderOK, InWrite, InClose, InEnd
  <1>5. CountsOK'
    BY Zenon, <1>1, <1>2, <1>3 DEF CountsOK, Subs, One, Subtracts, Counts
  <1>6. TruthOK'
    BY Zenon, <1>1, <1>2, <1>3 DEF TruthOK, Owes, Judged
  <1>7. TypeOK'
    <2>1. /\ releases' \in Nat
      BY <1>1, <1>2, <1>3 DEF TypeOK
    <2>2. /\ part' \in BOOLEAN
      BY Zenon, <1>2
    <2> QED BY <1>1, <1>2, <1>3, <2>2 DEF TypeOK, StacksOK
  <1>8. PhaseOK'
    <2>1. CASE races
      BY Zenon, <1>1, <1>2, <1>3, <2>1 DEF PhaseOK, RaceOK
    <2>2. CASE ~races /\ Running
      BY Zenon, <1>3, <2>2 DEF Running, InWrite, InClose, InEnd
    <2>3. CASE ~races /\ Ending
      BY <1>2, <1>3, <2>3 DEF PhaseOK, Ending, EndPending, EndedBy, Final, InEnd
    <2>4. CASE ~races /\ Ended
      BY Zenon, <1>3, <2>4 DEF Ended
    <2> QED BY Zenon, <1>1, <2>1, <2>2, <2>3, <2>4 DEF PhaseOK
  <1> QED BY Zenon, <1>3, <1>4, <1>5, <1>6, <1>7, <1>8 DEF Inv

\* The size is compared.
LEMMA JudgeKeeps ==
    ASSUME Inv, ConstantsAssumption, NEW t \in Threads, Judge(t),
           Moves(t, "judge", "closeFile")
    PROVE  Inv'
  <1>1. /\ TypeOK /\ StacksOK /\ OrderOK /\ CountsOK /\ TruthOK /\ PhaseOK
        /\ App # Worker /\ Size \in Nat /\ MaxTime \in Nat
    BY Zenon DEF Inv, ConstantsAssumption
  <1>2. /\ UNCHANGED <<file, sent, outstanding, putFailed, wrappedOpen, closePending,
                          handler, selfRef, closed, refcount, offset, releases, part,
                          partMtime, lastWrite, row, rowBytes, rowUpdated, now, waiter,
                          waitFor, races>>
        /\ hadError' = (hadError \/ offset # Size)
    BY Zenon DEF Judge, Incomplete, fileVars, diskVars, rowVars, waitVars
  <1>3. /\ StacksOK'
        /\ \/ t = App /\ AppAt = "judge" /\ AppAt' = "closeFile" /\ WorkerAt' = WorkerAt
           \/ t = Worker /\ WorkerAt = "judge" /\ WorkerAt' = "closeFile" /\ AppAt' = AppAt
    BY <1>1 DEF Moves
  <1>4. OrderOK'
    BY Zenon, <1>1, <1>2, <1>3 DEF OrderOK, InWrite, InClose, InEnd
  <1>5. CountsOK'
    BY Zenon, <1>1, <1>2, <1>3 DEF CountsOK, Subs, One, Subtracts, Counts
  <1>6. TruthOK'
    BY Zenon, <1>1, <1>2, <1>3 DEF TruthOK, Owes
  <1>7. TypeOK'
    <2>1. /\ hadError' \in BOOLEAN
      BY Zenon, <1>2
    <2> QED BY <1>1, <1>2, <1>3 DEF TypeOK, StacksOK
  <1>8. PhaseOK'
    <2>1. CASE races
      BY Zenon, <1>1, <1>2, <1>3, <2>1 DEF PhaseOK, RaceOK
    <2>2. CASE ~races /\ Running
      BY Zenon, <1>3, <2>2 DEF Running, InWrite, InClose, InEnd
    <2>3. CASE ~races /\ Ending
      BY Zenon, <1>2, <1>3, <2>3 DEF PhaseOK, Ending, EndPending, EndedBy, Final, InEnd
    <2>4. CASE ~races /\ Ended
      BY Zenon, <1>3, <2>4 DEF Ended
    <2> QED BY Zenon, <1>1, <2>1, <2>2, <2>3, <2>4 DEF PhaseOK
  <1> QED BY Zenon, <1>3, <1>4, <1>5, <1>6, <1>7, <1>8 DEF Inv

\* The wrapped file is closed.
LEMMA CloseFileKeeps ==
    ASSUME Inv, ConstantsAssumption, NEW t \in Threads, CloseFile(t),
           \/ Moves(t, "closeFile", "reopened") /\ UNCHANGED closePending
           \/ Moves(t, "closeFile", "testError") /\ UNCHANGED closePending
           \/ Moves(t, "closeFile", "idle") /\ closePending'
    PROVE  Inv'
  <1>1. /\ TypeOK /\ StacksOK /\ OrderOK /\ CountsOK /\ TruthOK /\ PhaseOK
        /\ App # Worker /\ Size \in Nat /\ MaxTime \in Nat
    BY Zenon DEF Inv, ConstantsAssumption
  <1>2. /\ UNCHANGED <<file, sent, outstanding, putFailed, handler, selfRef, closed,
                          hadError, refcount, offset, releases, part, partMtime, lastWrite,
                          row, rowBytes, rowUpdated, now, waiter, waitFor, races>>
        /\ wrappedOpen' = FALSE /\ closePending' \in {closePending, TRUE}
    BY Zenon DEF CloseFile, handlerVars, diskVars, rowVars, waitVars
  <1>3. /\ StacksOK'
        /\ \/ t = App /\ AppAt = "closeFile" /\ AppAt' = "reopened"
                /\ WorkerAt' = WorkerAt /\ closePending' = closePending
           \/ t = Worker /\ WorkerAt = "closeFile" /\ WorkerAt' = "reopened"
                /\ AppAt' = AppAt /\ closePending' = closePending
           \/ t = App /\ AppAt = "closeFile" /\ AppAt' = "testError"
                /\ WorkerAt' = WorkerAt /\ closePending' = closePending
           \/ t = Worker /\ WorkerAt = "closeFile" /\ WorkerAt' = "testError"
                /\ AppAt' = AppAt /\ closePending' = closePending
           \/ t = App /\ AppAt = "closeFile" /\ AppAt' = "idle"
                /\ WorkerAt' = WorkerAt /\ closePending'
           \/ t = Worker /\ WorkerAt = "closeFile" /\ WorkerAt' = "idle"
                /\ AppAt' = AppAt /\ closePending'
    BY <1>1 DEF Moves
  <1>4. OrderOK'
    BY Zenon, <1>1, <1>2, <1>3 DEF OrderOK, InWrite, InClose, InEnd
  <1>5. CountsOK'
    BY Zenon, <1>1, <1>2, <1>3 DEF CountsOK, Subs, One, Subtracts, Counts
  <1>6. TruthOK'
    BY Zenon, <1>1, <1>2, <1>3 DEF TruthOK, Owes, Judged
  <1>7. TypeOK'
    <2>1. /\ wrappedOpen' \in BOOLEAN
          /\ closePending' \in BOOLEAN
      BY Zenon, <1>1, <1>2 DEF TypeOK
    <2> QED BY <1>1, <1>2, <1>3, <2>1 DEF TypeOK, StacksOK
  <1>8. PhaseOK'
    <2>1. CASE races
      BY Zenon, <1>1, <1>2, <1>3, <2>1 DEF PhaseOK, RaceOK
    <2>2. CASE ~races /\ Running
      BY Zenon, <1>3, <2>2 DEF Running, InWrite, InClose, InEnd
    <2>3. CASE ~races /\ Ending
      BY <1>2, <1>3, <2>3 DEF PhaseOK, Ending, EndPending, EndedBy, Final, InEnd
    <2>4. CASE ~races /\ Ended
      BY Zenon, <1>3, <2>4 DEF Ended
    <2> QED BY Zenon, <1>1, <2>1, <2>2, <2>3, <2>4 DEF PhaseOK
  <1> QED BY Zenon, <1>3, <1>4, <1>5, <1>6, <1>7, <1>8 DEF Inv

\* The result is chosen.
LEMMA TestErrorKeeps ==
    ASSUME Inv, ConstantsAssumption, NEW t \in Threads, TestError(t),
           Moves(t, "testError", IF hadError THEN "failure" ELSE "success")
    PROVE  Inv'
  <1>1. /\ TypeOK /\ StacksOK /\ OrderOK /\ CountsOK /\ TruthOK /\ PhaseOK
        /\ App # Worker /\ Size \in Nat /\ MaxTime \in Nat
    BY Zenon DEF Inv, ConstantsAssumption
  <1>2. /\ UNCHANGED <<file, sent, outstanding, putFailed, wrappedOpen, closePending,
                          handler, selfRef, closed, hadError, refcount, offset, releases,
                          part, partMtime, lastWrite, row, rowBytes, rowUpdated, now,
                          waiter, waitFor, races>>
    BY Zenon DEF TestError, fileVars, handlerVars, diskVars, rowVars, waitVars
  <1>3. /\ StacksOK'
        /\ \/ /\ t = App /\ AppAt = "testError" /\ WorkerAt' = WorkerAt
              /\ AppAt' = (IF hadError THEN "failure" ELSE "success")
           \/ /\ t = Worker /\ WorkerAt = "testError" /\ AppAt' = AppAt
              /\ WorkerAt' = (IF hadError THEN "failure" ELSE "success")
    BY <1>1 DEF Moves
  <1>4. OrderOK'
    BY Zenon, <1>1, <1>2, <1>3 DEF OrderOK, InWrite, InClose, InEnd
  <1>5. CountsOK'
    BY Zenon, <1>1, <1>2, <1>3 DEF CountsOK, Subs, One, Subtracts, Counts
  <1>6. TruthOK'
    BY <1>1, <1>2, <1>3 DEF TruthOK, OrderOK, One, Owes, Judged, InWrite, InEnd, TypeOK
  <1>7. TypeOK'
    <2> QED BY <1>1, <1>2, <1>3 DEF TypeOK, StacksOK
  <1>8. PhaseOK'
    <2>1. CASE races
      BY Zenon, <1>1, <1>2, <1>3, <2>1 DEF PhaseOK, RaceOK
    <2>2. CASE ~races /\ Running
      BY Zenon, <1>3, <2>2 DEF Running, InWrite, InClose, InEnd
    <2>3. CASE ~races /\ Ending
      BY <1>1, <1>2, <1>3, <2>3 DEF PhaseOK, Ending, EndPending, EndedBy, Final, One, InEnd,
         TypeOK, TruthOK, Owes, Judged
    <2>4. CASE ~races /\ Ended
      BY Zenon, <1>3, <2>4 DEF Ended
    <2> QED BY Zenon, <1>1, <2>1, <2>2, <2>3, <2>4 DEF PhaseOK
  <1> QED BY Zenon, <1>3, <1>4, <1>5, <1>6, <1>7, <1>8 DEF Inv

\* The result is stored.
LEMMA FinalizeKeeps ==
    ASSUME Inv, ConstantsAssumption, NEW t \in Threads, Finalize(t),
           \/ Moves(t, "success", "reset")
           \/ Moves(t, "failure", "reset") /\ row' \in {row, "FAILED"}
    PROVE  Inv'
  <1>1. /\ TypeOK /\ StacksOK /\ OrderOK /\ CountsOK /\ TruthOK /\ PhaseOK
        /\ App # Worker /\ Size \in Nat /\ MaxTime \in Nat
    BY Zenon DEF Inv, ConstantsAssumption
  <1>2. /\ UNCHANGED <<file, sent, outstanding, putFailed, wrappedOpen, closePending,
                          handler, selfRef, closed, hadError, refcount, offset, releases,
                          part, partMtime, lastWrite, now, waiter, waitFor, races>>
        /\ row' \in {row, "SUCCESS", "FAILED"} /\ rowBytes' \in {rowBytes, offset}
        /\ rowUpdated' \in {rowUpdated, now}
    BY Zenon DEF Finalize, fileVars, handlerVars, diskVars, rowVars, waitVars
  <1>3. /\ StacksOK'
        /\ \/ t = App /\ AppAt = "success" /\ AppAt' = "reset" /\ WorkerAt' = WorkerAt
           \/ t = Worker /\ WorkerAt = "success" /\ WorkerAt' = "reset" /\ AppAt' = AppAt
           \/ t = App /\ AppAt = "failure" /\ AppAt' = "reset"
                /\ WorkerAt' = WorkerAt /\ row' \in {row, "FAILED"}
           \/ t = Worker /\ WorkerAt = "failure" /\ WorkerAt' = "reset"
                /\ AppAt' = AppAt /\ row' \in {row, "FAILED"}
    BY <1>1 DEF Moves
  <1>4. OrderOK'
    BY Zenon, <1>1, <1>2, <1>3 DEF OrderOK, InWrite, InClose, InEnd
  <1>5. CountsOK'
    BY Zenon, <1>1, <1>2, <1>3 DEF CountsOK, Subs, One, Subtracts, Counts
  <1>6. TruthOK'
    BY Zenon, <1>1, <1>2, <1>3 DEF TruthOK, Owes, Judged
  <1>7. TypeOK'
    <2>1. /\ row' \in {"none", "ACTIVE", "SUCCESS", "FAILED"}
          /\ rowBytes' \in 0..Size
          /\ rowUpdated' \in 0..MaxTime
      BY Zenon, <1>1, <1>2 DEF TypeOK
    <2> QED BY <1>1, <1>2, <1>3 DEF TypeOK, StacksOK
  <1>8. PhaseOK'
    <2>1. CASE races
      BY Zenon, <1>1, <1>2, <1>3, <2>1 DEF PhaseOK, RaceOK
    <2>2. CASE ~races /\ Running
      BY Zenon, <1>3, <2>2 DEF Running, InWrite, InClose, InEnd
    <2>3. CASE ~races /\ Ending
      BY Zenon, <1>2, <1>3, <2>3 DEF PhaseOK, Ending, EndPending, EndedBy, InEnd
    <2>4. CASE ~races /\ Ended
      BY Zenon, <1>3, <2>4 DEF Ended
    <2> QED BY Zenon, <1>1, <2>1, <2>2, <2>3, <2>4 DEF PhaseOK
  <1> QED BY Zenon, <1>3, <1>4, <1>5, <1>6, <1>7, <1>8 DEF Inv

\* The handler gives up the reference to itself.
LEMMA ResetSelfKeeps ==
    ASSUME Inv, ConstantsAssumption, NEW t \in Threads, ResetSelf(t),
           Moves(t, "reset", "notify")
    PROVE  Inv'
  <1>1. /\ TypeOK /\ StacksOK /\ OrderOK /\ CountsOK /\ TruthOK /\ PhaseOK
        /\ App # Worker /\ Size \in Nat /\ MaxTime \in Nat
    BY Zenon DEF Inv, ConstantsAssumption
  <1>2. /\ UNCHANGED <<file, sent, outstanding, putFailed, wrappedOpen, closePending,
                          closed, hadError, refcount, offset, releases, part, partMtime,
                          lastWrite, row, rowBytes, rowUpdated, now, waitFor, races>>
        /\ selfRef' = FALSE
        /\ handler' \in {handler, IF file = "gone" THEN "freed" ELSE handler}
        /\ waiter' \in {waiter, "woken"}
    BY Zenon DEF ResetSelf, AfterDrop, NotifyAll, fileVars, diskVars, rowVars
  <1>3. /\ StacksOK'
        /\ \/ t = App /\ AppAt = "reset" /\ AppAt' = "notify" /\ WorkerAt' = WorkerAt
           \/ t = Worker /\ WorkerAt = "reset" /\ WorkerAt' = "notify" /\ AppAt' = AppAt
    BY <1>1 DEF Moves
  <1>4. OrderOK'
    BY Zenon, <1>1, <1>2, <1>3 DEF OrderOK, InWrite, InClose, InEnd
  <1>5. CountsOK'
    BY Zenon, <1>1, <1>2, <1>3 DEF CountsOK, Subs, One, Subtracts, Counts
  <1>6. TruthOK'
    BY Zenon, <1>1, <1>2, <1>3 DEF TruthOK, Owes, Judged
  <1>7. TypeOK'
    <2>1. /\ handler' \in {"none", "live", "freed"}
          /\ waiter' \in {"idle", "copied", "blocked", "woken", "returned", "stuck"}
      BY Zenon, <1>1, <1>2 DEF TypeOK
    <2>2. /\ selfRef' \in BOOLEAN
      BY Zenon, <1>2
    <2> QED BY <1>1, <1>2, <1>3, <2>2 DEF TypeOK, StacksOK
  <1>8. PhaseOK'
    <2>1. CASE races
      BY Zenon, <1>1, <1>2, <1>3, <2>1 DEF PhaseOK, RaceOK
    <2>2. CASE ~races /\ Running
      BY Zenon, <1>3, <2>2 DEF Running, InWrite, InClose, InEnd
    <2>3. CASE ~races /\ Ending
      BY Zenon, <1>2, <1>3, <2>3 DEF PhaseOK, Ending, EndPending, EndedBy, Ended
    <2>4. CASE ~races /\ Ended
      BY Zenon, <1>3, <2>4 DEF Ended
    <2> QED BY Zenon, <1>1, <2>1, <2>2, <2>3, <2>4 DEF PhaseOK
  <1> QED BY Zenon, <1>3, <1>4, <1>5, <1>6, <1>7, <1>8 DEF Inv

\* The thread that waits is woken.
LEMMA NotifyKeeps ==
    ASSUME Inv, ConstantsAssumption, NEW t \in Threads, Notify(t),
           Moves(t, "notify", "idle")
    PROVE  Inv'
  <1>1. /\ TypeOK /\ StacksOK /\ OrderOK /\ CountsOK /\ TruthOK /\ PhaseOK
        /\ App # Worker /\ Size \in Nat /\ MaxTime \in Nat
    BY Zenon DEF Inv, ConstantsAssumption
  <1>2. /\ UNCHANGED <<file, sent, outstanding, putFailed, wrappedOpen, closePending,
                          handler, selfRef, closed, hadError, refcount, offset, releases,
                          part, partMtime, lastWrite, row, rowBytes, rowUpdated, now,
                          waitFor, races>>
        /\ waiter' \in {waiter, "woken"}
    BY Zenon DEF Notify, NotifyAll, fileVars, handlerVars, diskVars, rowVars
  <1>3. /\ StacksOK'
        /\ \/ t = App /\ AppAt = "notify" /\ AppAt' = "idle" /\ WorkerAt' = WorkerAt
           \/ t = Worker /\ WorkerAt = "notify" /\ WorkerAt' = "idle" /\ AppAt' = AppAt
    BY <1>1 DEF Moves
  <1>4. OrderOK'
    BY Zenon, <1>1, <1>2, <1>3 DEF OrderOK, InWrite, InClose
  <1>5. CountsOK'
    BY Zenon, <1>1, <1>2, <1>3 DEF CountsOK, Subs, One, Subtracts, Counts
  <1>6. TruthOK'
    BY Zenon, <1>1, <1>2, <1>3 DEF TruthOK, Owes, Judged
  <1>7. TypeOK'
    <2>1. /\ waiter' \in {"idle", "copied", "blocked", "woken", "returned", "stuck"}
      BY Zenon, <1>1, <1>2 DEF TypeOK
    <2> QED BY <1>1, <1>2, <1>3 DEF TypeOK, StacksOK
  <1>8. PhaseOK'
    <2>1. CASE races
      BY Zenon, <1>1, <1>2, <1>3, <2>1 DEF PhaseOK, RaceOK
    <2>2. CASE ~races /\ Running
      BY Zenon, <1>1, <1>2, <1>3, <2>2 DEF PhaseOK, Running, Final, OrderOK
    <2>3. CASE ~races /\ Ending
      BY Zenon, <1>3, <2>3 DEF Ending, EndPending, EndedBy, InEnd
    <2>4. CASE ~races /\ Ended
      BY Zenon, <1>2, <1>3, <2>4 DEF PhaseOK, Ended
    <2> QED BY Zenon, <1>1, <2>1, <2>2, <2>3, <2>4 DEF PhaseOK
  <1> QED BY Zenon, <1>3, <1>4, <1>5, <1>6, <1>7, <1>8 DEF Inv

\* The file is opened.
LEMMA OpenKeeps ==
    ASSUME Inv, ConstantsAssumption, Open,
           StacksOK', UNCHANGED <<AppAt, WorkerAt>>
    PROVE  Inv'
  <1>1. /\ TypeOK /\ StacksOK /\ OrderOK /\ CountsOK /\ TruthOK /\ PhaseOK
        /\ App # Worker /\ Size \in Nat /\ MaxTime \in Nat
    BY Zenon DEF Inv, ConstantsAssumption
  <1>2. /\ UNCHANGED <<sent, outstanding, putFailed, closePending, closed, hadError,
                          refcount, offset, releases, rowBytes, now, waiter, waitFor,
                          races>>
        /\ todo' = todo /\ file \in {"new", "failed"} /\ file' \in {"open", "failed"}
        /\ wrappedOpen' = (file' = "open")
        /\ \/ /\ handler = "none" /\ handler' = "live" /\ selfRef' = TRUE /\ part' = TRUE
              /\ partMtime' = now /\ lastWrite' = now /\ row' = "ACTIVE" /\ rowUpdated' = now
           \/ /\ handler # "none"
              /\ UNCHANGED <<handler, selfRef, part, partMtime, lastWrite, row, rowUpdated>>
    BY Zenon DEF Open, BeginWritebackFile, CreateTransfer, diskVars, waitVars
  <1>3. /\ StacksOK'
        /\ AppAt' = AppAt /\ WorkerAt' = WorkerAt
    BY Zenon
  <1>4. OrderOK'
    BY Zenon, <1>1, <1>2 DEF OrderOK
  <1>5. CountsOK'
    BY Zenon, <1>1, <1>2 DEF CountsOK, Subs
  <1>6. TruthOK'
    BY Zenon, <1>1, <1>2 DEF TruthOK
  <1>7. TypeOK'
    <2>1. /\ file' \in {"new", "open", "closed", "failed", "gone"}
          /\ handler' \in {"none", "live", "freed"}
          /\ partMtime' \in 0..MaxTime
          /\ lastWrite' \in 0..MaxTime
          /\ row' \in {"none", "ACTIVE", "SUCCESS", "FAILED"}
          /\ rowUpdated' \in 0..MaxTime
      BY Zenon, <1>1, <1>2 DEF TypeOK
    <2>2. /\ wrappedOpen' \in BOOLEAN
          /\ selfRef' \in BOOLEAN
          /\ part' \in BOOLEAN
      BY Zenon, <1>1, <1>2 DEF TypeOK
    <2> QED BY Zenon, <1>1, <1>2, <1>3, <2>1, <2>2 DEF TypeOK, StacksOK
  <1>8. PhaseOK'
    <2>1. CASE races
      BY Zenon, <1>1, <1>2, <2>1 DEF PhaseOK, RaceOK
    <2>2. CASE ~races /\ Running
      BY Zenon, <1>1, <1>2, <2>2 DEF PhaseOK, Running, Final, TypeOK
    <2>3. CASE ~races /\ Ending
      BY Zenon, <1>1, <1>2, <2>3 DEF Ending, OrderOK
    <2>4. CASE ~races /\ Ended
      BY Zenon, <1>1, <1>2, <2>4 DEF Ended, OrderOK
    <2> QED BY Zenon, <1>1, <2>1, <2>2, <2>3, <2>4 DEF PhaseOK
  <1> QED BY Zenon, <1>4, <1>5, <1>6, <1>7, <1>8 DEF Inv

\* The File is deleted.
LEMMA DestroyKeeps ==
    ASSUME Inv, ConstantsAssumption, Destroy,
           StacksOK', UNCHANGED <<AppAt, WorkerAt>>,
           AppAt = "idle", races => WorkerAt = "idle"
    PROVE  Inv'
  <1>1. /\ TypeOK /\ StacksOK /\ OrderOK /\ CountsOK /\ TruthOK /\ PhaseOK
        /\ App # Worker /\ Size \in Nat /\ MaxTime \in Nat
    BY Zenon DEF Inv, ConstantsAssumption
  <1>2. /\ UNCHANGED <<sent, outstanding, putFailed, wrappedOpen, closePending, selfRef,
                          closed, hadError, refcount, offset, releases, part, partMtime,
                          lastWrite, row, rowBytes, rowUpdated, now, waitFor, races>>
        /\ todo' = todo /\ file \in {"closed", "failed"} /\ file' = "gone" /\ todo[App] = << >>
        /\ races => todo[Worker] = << >> /\ outstanding = 0 /\ ~closePending
        /\ handler' \in {handler, IF selfRef THEN handler ELSE "freed"}
        /\ handler' = "freed" => handler \in {"live", "freed"}
        /\ waiter' \in {waiter, "woken"}
    BY Zenon DEF Destroy, AfterDrop, NotifyAll, diskVars, rowVars
  <1>3. /\ StacksOK'
        /\ AppAt' = AppAt /\ WorkerAt' = WorkerAt
        /\ AppAt = "idle" /\ (races => WorkerAt = "idle")
    BY Zenon
  <1>4. OrderOK'
    BY Zenon, <1>1, <1>2 DEF OrderOK, InClose
  <1>5. CountsOK'
    BY Zenon, <1>1, <1>2 DEF CountsOK, Subs
  <1>6. TruthOK'
    BY Zenon, <1>1, <1>2 DEF TruthOK
  <1>7. TypeOK'
    <2>1. /\ file' \in {"new", "open", "closed", "failed", "gone"}
          /\ handler' \in {"none", "live", "freed"}
          /\ waiter' \in {"idle", "copied", "blocked", "woken", "returned", "stuck"}
      BY Zenon, <1>1, <1>2 DEF TypeOK
    <2> QED BY <1>1, <1>2 DEF TypeOK
  <1>8. PhaseOK'
    <2>1. CASE races
      BY Zenon, <1>2, <2>1 DEF PhaseOK, RaceOK
    <2>2. CASE ~races /\ Running
      BY Zenon, <1>2, <2>2 DEF PhaseOK, Running, Final
    <2>3. CASE ~races /\ Ending
      BY Zenon, <1>2, <2>3 DEF PhaseOK, Ending, EndPending, EndedBy, Final
    <2>4. CASE ~races /\ Ended
      BY Zenon, <1>2, <2>4 DEF PhaseOK, Ended
    <2> QED BY Zenon, <1>1, <2>1, <2>2, <2>3, <2>4 DEF PhaseOK
  <1> QED BY Zenon, <1>4, <1>5, <1>6, <1>7, <1>8 DEF Inv

\* The upload fails between two writes.
LEMMA UploadFailsKeeps ==
    ASSUME Inv, ConstantsAssumption, UploadFails,
           StacksOK', UNCHANGED <<AppAt, WorkerAt>>
    PROVE  Inv'
  <1>1. /\ TypeOK /\ StacksOK /\ OrderOK /\ CountsOK /\ TruthOK /\ PhaseOK
        /\ App # Worker /\ Size \in Nat /\ MaxTime \in Nat
    BY Zenon DEF Inv, ConstantsAssumption
  <1>2. /\ UNCHANGED <<file, sent, outstanding, wrappedOpen, closePending, handler,
                          selfRef, closed, hadError, refcount, offset, releases, part,
                          partMtime, lastWrite, row, rowBytes, rowUpdated, now, waiter,
                          waitFor, races>>
        /\ todo' = todo /\ sent \in 1..Size - 1 /\ putFailed' = TRUE
    BY Zenon DEF UploadFails, handlerVars, diskVars, rowVars, waitVars
  <1>3. /\ StacksOK'
        /\ AppAt' = AppAt /\ WorkerAt' = WorkerAt
    BY Zenon
  <1>4. OrderOK'
    BY Zenon, <1>1, <1>2 DEF OrderOK
  <1>5. CountsOK'
    BY Zenon, <1>1, <1>2 DEF CountsOK, Subs
  <1>6. TruthOK'
    BY <1>1, <1>2 DEF TruthOK
  <1>7. TypeOK'
    <2>1. /\ putFailed' \in BOOLEAN
      BY Zenon, <1>2
    <2> QED BY <1>1, <1>2 DEF TypeOK
  <1>8. PhaseOK'
    <2>1. CASE races
      BY Zenon, <1>1, <1>2, <2>1 DEF PhaseOK, RaceOK
    <2>2. CASE ~races /\ Running
      BY Zenon, <1>2, <2>2 DEF PhaseOK, Running, Final
    <2>3. CASE ~races /\ Ending
      BY <1>1, <1>2, <2>3 DEF PhaseOK, Ending, EndPending, EndedBy, Final, TruthOK
    <2>4. CASE ~races /\ Ended
      BY <1>1, <1>2, <2>4 DEF PhaseOK, Ended, TruthOK
    <2> QED BY Zenon, <1>1, <2>1, <2>2, <2>3, <2>4 DEF PhaseOK
  <1> QED BY Zenon, <1>4, <1>5, <1>6, <1>7, <1>8 DEF Inv

-----------------------------------------------------------------------------
(* Stacks. *)
\* The stacks of the App thread within a call of the application: their depth, what is
\* on top, and what is below.
LEMMA CallStacks ==
    /\ Len(AtWrite) = 1 /\ Head(AtWrite) = Just("WrappedWrite") /\ Tail(AtWrite) = << >>
    /\ Len(AtCount) = 1 /\ Head(AtCount) = Just("IncrementRef") /\ Tail(AtCount) = << >>
    /\ Len(AtFailed) = 2 /\ Head(AtFailed) = Just("Sub") /\ Tail(AtFailed) = AtCount
    /\ Len(AtFailedErr) = 3 /\ Head(AtFailedErr) = Just("SetError")
       /\ Tail(AtFailedErr) = AtFailedRead
    /\ Len(AtFailedRead) = 2 /\ Head(AtFailedRead) = Just("ReadClosed")
       /\ Tail(AtFailedRead) = AtCount
    /\ Len(AtRefused) = 1 /\ Head(AtRefused) = Just("SetError") /\ Tail(AtRefused) = << >>
    /\ Len(AtClose) = 2 /\ Head(AtClose) = Just("SetClosed") /\ Tail(AtClose) = AtTest
    /\ Len(AtTest) = 1 /\ Head(AtTest) = Just("TestRef") /\ Tail(AtTest) = << >>
  BY DEF AtWrite, AtCount, AtFailed, AtFailedErr, AtFailedRead, AtRefused, AtClose, AtTest

\* Those of an answer.
LEMMA AnswerStacks ==
    /\ Len(AtGood) = 1 /\ Head(AtGood) = Said("Sub") /\ Tail(AtGood) = << >>
    /\ Len(AtBad) = 1 /\ Head(AtBad) = Just("Sub") /\ Tail(AtBad) = << >>
    /\ Len(AtErrLast) = 2 /\ Head(AtErrLast) = Just("SetError") /\ Tail(AtErrLast) = AtLast
    /\ Len(AtErrMore) = 2 /\ Head(AtErrMore) = Just("SetError") /\ Tail(AtErrMore) = AtMore
    /\ Len(AtLast) = 1 /\ Head(AtLast) = Said("ReadClosed") /\ Tail(AtLast) = << >>
    /\ Len(AtMore) = 1 /\ Head(AtMore) = Just("ReadClosed") /\ Tail(AtMore) = << >>
  BY DEF AtGood, AtBad, AtErrLast, AtErrMore, AtLast, AtMore

\* Those that end a transfer.
LEMMA EndStacks ==
    /\ Len(AtRelease) = 3 /\ Head(AtRelease) = Just("Release") /\ Tail(AtRelease) = AtJudge
    /\ Len(AtJudge) = 2 /\ Head(AtJudge) = Just("Judge") /\ Tail(AtJudge) = AtCloseFile
    /\ Len(AtCloseFile) = 1 /\ Head(AtCloseFile) = Just("CloseFile") /\ Tail(AtCloseFile) = << >>
    /\ Len(AtReopened) = 4 /\ Head(AtReopened) = Just("SetError") /\ Tail(AtReopened) = AtFailure
    /\ Len(AtBadClose) = 4 /\ Head(AtBadClose) = Just("SetError") /\ Tail(AtBadClose) = AtTestError
    /\ Len(AtTestError) = 3 /\ Head(AtTestError) = Just("TestError") /\ Tail(AtTestError) = AtReset
    /\ Len(AtSuccess) = 3 /\ Head(AtSuccess) = Said("Finalize") /\ Tail(AtSuccess) = AtReset
    /\ Len(AtFailure) = 3 /\ Head(AtFailure) = Just("Finalize") /\ Tail(AtFailure) = AtReset
    /\ Len(AtReset) = 2 /\ Head(AtReset) = Just("ResetSelf") /\ Tail(AtReset) = AtNotify
    /\ Len(AtNotify) = 1 /\ Head(AtNotify) = Just("Notify") /\ Tail(AtNotify) = << >>
  BY DEF AtRelease, AtJudge, AtCloseFile, AtReopened, AtBadClose, AtTestError, AtSuccess,
        AtFailure, AtReset, AtNotify

\* What the stacks have on top.
LEMMA Tops ==
    /\ Head(AtWrite).do = "WrappedWrite"
    /\ Head(AtCount).do = "IncrementRef"
    /\ Head(AtFailed).do = "Sub"
    /\ Head(AtFailedErr).do = "SetError"
    /\ Head(AtFailedRead).do = "ReadClosed"
    /\ Head(AtRefused).do = "SetError"
    /\ Head(AtClose).do = "SetClosed"
    /\ Head(AtTest).do = "TestRef"
    /\ Head(AtGood).do = "Sub"
    /\ Head(AtBad).do = "Sub"
    /\ Head(AtErrLast).do = "SetError"
    /\ Head(AtErrMore).do = "SetError"
    /\ Head(AtLast).do = "ReadClosed"
    /\ Head(AtMore).do = "ReadClosed"
    /\ Head(AtRelease).do = "Release"
    /\ Head(AtJudge).do = "Judge"
    /\ Head(AtCloseFile).do = "CloseFile"
    /\ Head(AtReopened).do = "SetError"
    /\ Head(AtBadClose).do = "SetError"
    /\ Head(AtTestError).do = "TestError"
    /\ Head(AtSuccess).do = "Finalize"
    /\ Head(AtFailure).do = "Finalize"
    /\ Head(AtReset).do = "ResetSelf"
    /\ Head(AtNotify).do = "Notify"
  <1>1. /\ Head(AtWrite).do = "WrappedWrite"
        /\ Head(AtCount).do = "IncrementRef"
        /\ Head(AtFailed).do = "Sub"
        /\ Head(AtFailedErr).do = "SetError"
        /\ Head(AtFailedRead).do = "ReadClosed"
        /\ Head(AtRefused).do = "SetError"
        /\ Head(AtClose).do = "SetClosed"
        /\ Head(AtTest).do = "TestRef"
    BY CallStacks DEF Just, Said, Piece
  <1>2. /\ Head(AtGood).do = "Sub"
        /\ Head(AtBad).do = "Sub"
        /\ Head(AtErrLast).do = "SetError"
        /\ Head(AtErrMore).do = "SetError"
        /\ Head(AtLast).do = "ReadClosed"
        /\ Head(AtMore).do = "ReadClosed"
    BY AnswerStacks DEF Just, Said, Piece
  <1>3. /\ Head(AtRelease).do = "Release"
        /\ Head(AtJudge).do = "Judge"
        /\ Head(AtCloseFile).do = "CloseFile"
        /\ Head(AtReopened).do = "SetError"
        /\ Head(AtBadClose).do = "SetError"
        /\ Head(AtTestError).do = "TestError"
        /\ Head(AtSuccess).do = "Finalize"
        /\ Head(AtFailure).do = "Finalize"
        /\ Head(AtReset).do = "ResetSelf"
        /\ Head(AtNotify).do = "Notify"
    BY EndStacks DEF Just, Said, Piece
  <1> QED BY Zenon, <1>1, <1>2, <1>3

\* With which arguments.
LEMMA Args ==
    /\ Head(AtGood).arg /\ ~Head(AtBad).arg /\ ~Head(AtFailed).arg
    /\ Head(AtLast).arg /\ ~Head(AtMore).arg /\ ~Head(AtFailedRead).arg
    /\ Head(AtSuccess).arg /\ ~Head(AtFailure).arg
  BY CallStacks, AnswerStacks, EndStacks DEF Just, Said, Piece

\* Stacks are sequences of pieces.
LEMMA StackType ==
    /\ AtWrite \in Seq(Pieces)
    /\ AtCount \in Seq(Pieces)
    /\ AtFailed \in Seq(Pieces)
    /\ AtFailedErr \in Seq(Pieces)
    /\ AtFailedRead \in Seq(Pieces)
    /\ AtRefused \in Seq(Pieces)
    /\ AtClose \in Seq(Pieces)
    /\ AtTest \in Seq(Pieces)
    /\ AtGood \in Seq(Pieces)
    /\ AtBad \in Seq(Pieces)
    /\ AtErrLast \in Seq(Pieces)
    /\ AtErrMore \in Seq(Pieces)
    /\ AtLast \in Seq(Pieces)
    /\ AtMore \in Seq(Pieces)
    /\ AtRelease \in Seq(Pieces)
    /\ AtJudge \in Seq(Pieces)
    /\ AtCloseFile \in Seq(Pieces)
    /\ AtReopened \in Seq(Pieces)
    /\ AtBadClose \in Seq(Pieces)
    /\ AtTestError \in Seq(Pieces)
    /\ AtSuccess \in Seq(Pieces)
    /\ AtFailure \in Seq(Pieces)
    /\ AtReset \in Seq(Pieces)
    /\ AtNotify \in Seq(Pieces)
  <1>1. /\ Said("Sub") \in Pieces /\ Said("ReadClosed") \in Pieces /\ Said("Finalize") \in Pieces
    BY Zenon DEF Piece, Said, Pieces
  <1>2. \A d \in {"WrappedWrite", "IncrementRef", "SetClosed", "TestRef", "Sub", "SetError",
                  "ReadClosed", "Release", "Judge", "CloseFile", "TestError", "Finalize",
                  "ResetSelf", "Notify"} : Just(d) \in Pieces
    BY Zenon DEF Piece, Just, Pieces
  <1>3. /\ AtWrite \in Seq(Pieces)
        /\ AtCount \in Seq(Pieces)
        /\ AtFailed \in Seq(Pieces)
        /\ AtFailedErr \in Seq(Pieces)
        /\ AtFailedRead \in Seq(Pieces)
        /\ AtRefused \in Seq(Pieces)
        /\ AtClose \in Seq(Pieces)
        /\ AtTest \in Seq(Pieces)
    BY <1>1, <1>2 DEF AtWrite, AtCount, AtFailed, AtFailedErr, AtFailedRead, AtRefused,
        AtClose, AtTest
  <1>4. /\ AtGood \in Seq(Pieces)
        /\ AtBad \in Seq(Pieces)
        /\ AtErrLast \in Seq(Pieces)
        /\ AtErrMore \in Seq(Pieces)
        /\ AtLast \in Seq(Pieces)
        /\ AtMore \in Seq(Pieces)
    BY <1>1, <1>2 DEF AtGood, AtBad, AtErrLast, AtErrMore, AtLast, AtMore
  <1>5. /\ AtRelease \in Seq(Pieces)
        /\ AtJudge \in Seq(Pieces)
        /\ AtCloseFile \in Seq(Pieces)
        /\ AtReopened \in Seq(Pieces)
        /\ AtBadClose \in Seq(Pieces)
        /\ AtTestError \in Seq(Pieces)
        /\ AtSuccess \in Seq(Pieces)
        /\ AtFailure \in Seq(Pieces)
        /\ AtReset \in Seq(Pieces)
        /\ AtNotify \in Seq(Pieces)
    BY <1>1, <1>2 DEF AtRelease, AtJudge, AtCloseFile, AtReopened, AtBadClose, AtTestError,
        AtSuccess, AtFailure, AtReset, AtNotify
  <1> QED BY Zenon, <1>3, <1>4, <1>5

\* How deep the stacks are.
LEMMA Lens ==
    /\ Len(AtWrite) = 1 /\ Len(AtCount) = 1 /\ Len(AtFailed) = 2
    /\ Len(AtFailedErr) = 3 /\ Len(AtFailedRead) = 2 /\ Len(AtRefused) = 1
    /\ Len(AtClose) = 2 /\ Len(AtTest) = 1 /\ Len(AtGood) = 1
    /\ Len(AtBad) = 1 /\ Len(AtErrLast) = 2 /\ Len(AtErrMore) = 2
    /\ Len(AtLast) = 1 /\ Len(AtMore) = 1 /\ Len(AtRelease) = 3
    /\ Len(AtJudge) = 2 /\ Len(AtCloseFile) = 1 /\ Len(AtReopened) = 4
    /\ Len(AtBadClose) = 4 /\ Len(AtTestError) = 3 /\ Len(AtSuccess) = 3
    /\ Len(AtFailure) = 3 /\ Len(AtReset) = 2 /\ Len(AtNotify) = 1
  BY Zenon, CallStacks, AnswerStacks, EndStacks

\* None of the stacks is empty.
LEMMA NotEmpty ==
    /\ AtWrite # << >> /\ AtCount # << >> /\ AtFailed # << >>
    /\ AtFailedErr # << >> /\ AtFailedRead # << >> /\ AtRefused # << >>
    /\ AtClose # << >> /\ AtTest # << >> /\ AtGood # << >>
    /\ AtBad # << >> /\ AtErrLast # << >> /\ AtErrMore # << >>
    /\ AtLast # << >> /\ AtMore # << >> /\ AtRelease # << >>
    /\ AtJudge # << >> /\ AtCloseFile # << >> /\ AtReopened # << >>
    /\ AtBadClose # << >> /\ AtTestError # << >> /\ AtSuccess # << >>
    /\ AtFailure # << >> /\ AtReset # << >> /\ AtNotify # << >>
  BY Zenon DEF AtWrite, AtCount, AtFailed, AtFailedErr, AtFailedRead, AtRefused,
        AtClose, AtTest, AtGood, AtBad, AtErrLast, AtErrMore,
        AtLast, AtMore, AtRelease, AtJudge, AtCloseFile, AtReopened,
        AtBadClose, AtTestError, AtSuccess, AtFailure, AtReset, AtNotify

\* Stacks with the same piece on top differ below or in its argument.
LEMMA Differ ==
    /\ AtFailed # AtGood /\ AtFailed # AtBad /\ AtGood # AtBad
    /\ AtFailedRead # AtLast /\ AtFailedRead # AtMore /\ AtLast # AtMore
    /\ AtSuccess # AtFailure
    /\ AtFailedErr # AtRefused /\ AtFailedErr # AtErrLast /\ AtFailedErr # AtErrMore
    /\ AtFailedErr # AtReopened /\ AtFailedErr # AtBadClose
    /\ AtRefused # AtErrLast /\ AtRefused # AtErrMore
    /\ AtRefused # AtReopened /\ AtRefused # AtBadClose
    /\ AtErrLast # AtErrMore /\ AtErrLast # AtReopened /\ AtErrLast # AtBadClose
    /\ AtErrMore # AtReopened /\ AtErrMore # AtBadClose /\ AtReopened # AtBadClose
  <1>1. AtFailed # AtGood /\ AtFailed # AtBad
    BY Lens
  <1>2. AtFailedRead # AtLast /\ AtFailedRead # AtMore
    BY Lens
  <1>3. /\ AtFailedErr # AtRefused /\ AtFailedErr # AtErrLast /\ AtFailedErr # AtErrMore
        /\ AtFailedErr # AtReopened /\ AtFailedErr # AtBadClose
        /\ AtRefused # AtErrLast /\ AtRefused # AtErrMore
        /\ AtRefused # AtReopened /\ AtRefused # AtBadClose
        /\ AtErrLast # AtReopened /\ AtErrLast # AtBadClose
        /\ AtErrMore # AtReopened /\ AtErrMore # AtBadClose
    BY Lens
  <1>4. AtGood # AtBad /\ AtLast # AtMore /\ AtSuccess # AtFailure
    BY Zenon, Args
  <1>5. AtErrLast # AtErrMore
    BY Zenon, <1>4, AnswerStacks
  <1>6. AtReopened # AtBadClose
    <2>1. AtFailure # AtTestError
      BY Zenon, Tops
    <2> QED BY Zenon, <2>1, EndStacks
  <1> QED BY Zenon, <1>1, <1>2, <1>3, <1>4, <1>5, <1>6

\* The places of the stacks.
LEMMA Places ==
    /\ Place(<< >>) = "idle"
    /\ Place(AtWrite) = "write"
    /\ Place(AtCount) = "count"
    /\ Place(AtFailed) = "failed"
    /\ Place(AtFailedErr) = "failedErr"
    /\ Place(AtFailedRead) = "failedRead"
    /\ Place(AtRefused) = "refused"
    /\ Place(AtClose) = "close"
    /\ Place(AtTest) = "test"
    /\ Place(AtGood) = "good"
    /\ Place(AtBad) = "bad"
    /\ Place(AtErrLast) = "errLast"
    /\ Place(AtErrMore) = "errMore"
    /\ Place(AtLast) = "last"
    /\ Place(AtMore) = "more"
    /\ Place(AtRelease) = "release"
    /\ Place(AtJudge) = "judge"
    /\ Place(AtCloseFile) = "closeFile"
    /\ Place(AtReopened) = "reopened"
    /\ Place(AtBadClose) = "badClose"
    /\ Place(AtTestError) = "testError"
    /\ Place(AtSuccess) = "success"
    /\ Place(AtFailure) = "failure"
    /\ Place(AtReset) = "reset"
    /\ Place(AtNotify) = "notify"
  <1>0. Place(<< >>) = "idle"
    BY Zenon, NotEmpty DEF Place
  <1>1. Place(AtWrite) = "write"
    BY Zenon, Tops, Differ DEF Place
  <1>2. Place(AtCount) = "count"
    BY Zenon, Tops, Differ DEF Place
  <1>3. Place(AtFailed) = "failed"
    BY Zenon, Tops, Differ DEF Place
  <1>4. Place(AtFailedErr) = "failedErr"
    BY Zenon, Tops, Differ DEF Place
  <1>5. Place(AtFailedRead) = "failedRead"
    BY Zenon, Tops, Differ DEF Place
  <1>6. Place(AtRefused) = "refused"
    BY Zenon, Tops, Differ DEF Place
  <1>7. Place(AtClose) = "close"
    BY Zenon, Tops, Differ DEF Place
  <1>8. Place(AtTest) = "test"
    BY Zenon, Tops, Differ DEF Place
  <1>9. Place(AtGood) = "good"
    BY Zenon, Tops, Differ DEF Place
  <1>10. Place(AtBad) = "bad"
    BY Zenon, Tops, Differ DEF Place
  <1>11. Place(AtErrLast) = "errLast"
    BY Zenon, Tops, Differ DEF Place
  <1>12. Place(AtErrMore) = "errMore"
    BY Zenon, Tops, Differ DEF Place
  <1>13. Place(AtLast) = "last"
    BY Zenon, Tops, Differ DEF Place
  <1>14. Place(AtMore) = "more"
    BY Zenon, Tops, Differ DEF Place
  <1>15. Place(AtRelease) = "release"
    BY Zenon, Tops, Differ DEF Place
  <1>16. Place(AtJudge) = "judge"
    BY Zenon, Tops, Differ DEF Place
  <1>17. Place(AtCloseFile) = "closeFile"
    BY Zenon, Tops, Differ DEF Place
  <1>18. Place(AtReopened) = "reopened"
    BY Zenon, Tops, Differ DEF Place
  <1>19. Place(AtBadClose) = "badClose"
    BY Zenon, Tops, Differ DEF Place
  <1>20. Place(AtTestError) = "testError"
    BY Zenon, Tops, Differ DEF Place
  <1>21. Place(AtSuccess) = "success"
    BY Zenon, Tops, Differ DEF Place
  <1>22. Place(AtFailure) = "failure"
    BY Zenon, Tops, Differ DEF Place
  <1>23. Place(AtReset) = "reset"
    BY Zenon, Tops, Differ DEF Place
  <1>24. Place(AtNotify) = "notify"
    BY Zenon, Tops, Differ DEF Place
  <1> QED BY Zenon, <1>0, <1>1, <1>2, <1>3, <1>4, <1>5, <1>6, <1>7, <1>8, <1>9, <1>10, <1>11,
             <1>12, <1>13, <1>14, <1>15, <1>16, <1>17, <1>18, <1>19, <1>20, <1>21, <1>22, <1>23,
             <1>24

\* What a thread runs, by what is on top of its stack.
LEMMA OnTop ==
    ASSUME StacksOK, NEW t \in Threads
    PROVE  /\ Top(t, "WrappedWrite") => todo[t] = AtWrite
           /\ Top(t, "IncrementRef") => todo[t] = AtCount
           /\ Top(t, "SetClosed") => todo[t] = AtClose
           /\ Top(t, "TestRef") => todo[t] = AtTest
           /\ Top(t, "Sub") => todo[t] \in {AtFailed, AtGood, AtBad}
           /\ Top(t, "SetError") => todo[t] \in {AtFailedErr, AtRefused, AtErrLast, AtErrMore,
                                                 AtReopened, AtBadClose}
           /\ Top(t, "ReadClosed") => todo[t] \in {AtFailedRead, AtLast, AtMore}
           /\ Top(t, "Release") => todo[t] = AtRelease
           /\ Top(t, "Judge") => todo[t] = AtJudge
           /\ Top(t, "CloseFile") => todo[t] = AtCloseFile
           /\ Top(t, "TestError") => todo[t] = AtTestError
           /\ Top(t, "Finalize") => todo[t] \in {AtSuccess, AtFailure}
           /\ Top(t, "ResetSelf") => todo[t] = AtReset
           /\ Top(t, "Notify") => todo[t] = AtNotify
  <1> DEFINE s == todo[t]
  <1>1. s # << >> =>
          s \in {AtWrite, AtCount, AtFailed, AtFailedErr, AtFailedRead, AtRefused, AtClose,
                 AtTest, AtGood, AtBad, AtErrLast, AtErrMore, AtLast, AtMore, AtRelease,
                 AtJudge, AtCloseFile, AtReopened, AtBadClose, AtTestError, AtSuccess,
                 AtFailure, AtReset, AtNotify}
    BY Zenon DEF StacksOK, Threads, AppStacks, WorkerStacks, CallSet, AnswerSet, EndSet
  <1>2. \A d : Top(t, d) <=> s # << >> /\ Head(s).do = d
    BY Zenon DEF Top
  <1> HIDE DEF s
  <1>3. QED
    <2>1. CASE s = << >>
      BY Zenon, <1>2, <2>1
    <2>2. CASE s # << >>
      <3>1. \A d : Top(t, d) => Head(s).do = d
        BY Zenon, <1>2
      <3> QED BY <1>1, <2>2, <3>1, Tops DEF s
    <2> QED BY Zenon, <2>1, <2>2

\* Sequences with the same members are the same.
LEMMA SameSequence ==
    ASSUME NEW S, NEW s \in Seq(S), NEW t \in Seq(S), Len(s) = Len(t),
           \A i \in 1..Len(s) : s[i] = t[i]
    PROVE  s = t
  <1>1. DOMAIN s = 1..Len(s) /\ DOMAIN t = 1..Len(s)
    OBVIOUS
  <1>2. s = [i \in DOMAIN s |-> s[i]] /\ t = [i \in DOMAIN t |-> t[i]]
    OBVIOUS
  <1> QED BY Zenon, <1>1, <1>2

\* The empty sequence on either side.
LEMMA EmptyBeside ==
    ASSUME NEW S, NEW s \in Seq(S)
    PROVE  << >> \o s = s /\ s \o << >> = s
  <1>1. << >> \o s \in Seq(S) /\ Len(<< >> \o s) = Len(s)
        /\ \A i \in 1..Len(s) : (<< >> \o s)[i] = s[i]
    OBVIOUS
  <1>2. s \o << >> \in Seq(S) /\ Len(s \o << >>) = Len(s)
        /\ \A i \in 1..Len(s) : (s \o << >>)[i] = s[i]
    OBVIOUS
  <1>3. << >> \o s = s
    BY <1>1, SameSequence
  <1>4. s \o << >> = s
    BY <1>2, SameSequence
  <1> QED BY <1>3, <1>4

\* Small sequences, put together.
LEMMA Join11 ==
    ASSUME NEW S, NEW a \in S, NEW b \in S
    PROVE  <<a>> \o <<b>> = <<a, b>>
  <1> DEFINE x == <<a>> \o <<b>>
             y == <<a, b>>
  <1>1. x \in Seq(S) /\ Len(x) = 2 /\ x[1] = a /\ x[2] = b
    OBVIOUS
  <1>2. y \in Seq(S) /\ Len(y) = 2 /\ y[1] = a /\ y[2] = b
    OBVIOUS
  <1> HIDE DEF x, y
  <1>3. x = y
    BY <1>1, <1>2, SameSequence
  <1> QED BY Zenon, <1>3 DEF x, y

\* The same with two pieces below.
LEMMA Join12 ==
    ASSUME NEW S, NEW a \in S, NEW b \in S, NEW c \in S
    PROVE  <<a>> \o <<b, c>> = <<a, b, c>>
  <1> DEFINE x == <<a>> \o <<b, c>>
             y == <<a, b, c>>
  <1>1. x \in Seq(S) /\ Len(x) = 3 /\ x[1] = a /\ x[2] = b /\ x[3] = c
    OBVIOUS
  <1>2. y \in Seq(S) /\ Len(y) = 3 /\ y[1] = a /\ y[2] = b /\ y[3] = c
    OBVIOUS
  <1> HIDE DEF x, y
  <1>3. x = y
    BY <1>1, <1>2, SameSequence
  <1> QED BY Zenon, <1>3 DEF x, y

\* The same with two pieces on top.
LEMMA Join21 ==
    ASSUME NEW S, NEW a \in S, NEW b \in S, NEW c \in S
    PROVE  <<a, b>> \o <<c>> = <<a, b, c>>
  <1> DEFINE x == <<a, b>> \o <<c>>
             y == <<a, b, c>>
  <1>1. x \in Seq(S) /\ Len(x) = 3 /\ x[1] = a /\ x[2] = b /\ x[3] = c
    OBVIOUS
  <1>2. y \in Seq(S) /\ Len(y) = 3 /\ y[1] = a /\ y[2] = b /\ y[3] = c
    OBVIOUS
  <1> HIDE DEF x, y
  <1>3. x = y
    BY <1>1, <1>2, SameSequence
  <1> QED BY Zenon, <1>3 DEF x, y

\* The same with two pieces on top and two below.
LEMMA Join22 ==
    ASSUME NEW S, NEW a \in S, NEW b \in S, NEW c \in S, NEW d \in S
    PROVE  <<a, b>> \o <<c, d>> = <<a, b, c, d>>
  <1> DEFINE x == <<a, b>> \o <<c, d>>
             y == <<a, b, c, d>>
  <1>1. x \in Seq(S) /\ Len(x) = 4 /\ x[1] = a /\ x[2] = b /\ x[3] = c /\ x[4] = d
    OBVIOUS
  <1>2. y \in Seq(S) /\ Len(y) = 4 /\ y[1] = a /\ y[2] = b /\ y[3] = c /\ y[4] = d
    OBVIOUS
  <1> HIDE DEF x, y
  <1>3. x = y
    BY <1>1, <1>2, SameSequence
  <1> QED BY Zenon, <1>3 DEF x, y

\* The pieces of code.
LEMMA PieceType ==
    /\ Said("Sub") \in Pieces /\ Said("ReadClosed") \in Pieces /\ Said("Finalize") \in Pieces
    /\ Just("IncrementRef") \in Pieces /\ Just("Sub") \in Pieces /\ Just("SetError") \in Pieces
    /\ Just("ReadClosed") \in Pieces /\ Just("TestError") \in Pieces
    /\ Just("Finalize") \in Pieces /\ Just("ResetSelf") \in Pieces /\ Just("Notify") \in Pieces
  BY Zenon DEF Piece, Just, Said, Pieces

\* The stacks the code pushes are those named above.
LEMMA Pushed ==
    /\ HandleResponse(TRUE) = AtGood /\ HandleResponse(FALSE) = AtBad
    /\ AtBad \o AtCount = AtFailed /\ Shutdown = AtRelease
    /\ AtRefused \o AtLast = AtErrLast /\ AtRefused \o AtMore = AtErrMore
    /\ AtErrMore \o AtCount = AtFailedErr
    /\ CloseResponse(TRUE) = AtTestError /\ CloseResponse(FALSE) = AtBadClose
    /\ <<Just("SetError"), Piece("Finalize", FALSE)>> \o End = AtReopened
    /\ <<Said("Finalize")>> \o AtReset = AtSuccess
    /\ <<Just("Finalize")>> \o AtReset = AtFailure
  <1>1. HandleResponse(TRUE) = AtGood /\ HandleResponse(FALSE) = AtBad /\ Shutdown = AtRelease
    BY Zenon DEF HandleResponse, AtGood, AtBad, Said, Just, Shutdown, AtRelease
  <1>2. AtBad \o AtCount = AtFailed
    BY Zenon, PieceType, Join11 DEF AtBad, AtCount, AtFailed
  <1>3. AtRefused \o AtLast = AtErrLast /\ AtRefused \o AtMore = AtErrMore
    BY Zenon, PieceType, Join11 DEF AtRefused, AtLast, AtMore, AtErrLast, AtErrMore
  <1>4. AtErrMore \o AtCount = AtFailedErr
    BY PieceType, Join21 DEF AtErrMore, AtCount, AtFailedErr
  <1>5. <<Just("TestError")>> \o AtReset = AtTestError
    BY PieceType, Join12 DEF AtReset, AtTestError
  <1>6. <<Just("SetError"), Just("TestError")>> \o AtReset = AtBadClose
    BY PieceType, Join22 DEF AtReset, AtBadClose
  <1>7. End = AtReset
    BY Zenon DEF End, AtReset
  <1>8. CloseResponse(TRUE) = AtTestError
    <2>1. << >> \o <<Just("TestError")>> = <<Just("TestError")>>
      BY PieceType, EmptyBeside
    <2> QED BY Zenon, <1>5, <1>7, <2>1 DEF CloseResponse
  <1>9. CloseResponse(FALSE) = AtBadClose
    <2>1. <<Just("SetError")>> \o <<Just("TestError")>> = <<Just("SetError"), Just("TestError")>>
      BY Zenon, PieceType, Join11
    <2> QED BY Zenon, <1>6, <1>7, <2>1 DEF CloseResponse
  <1>10. <<Just("SetError"), Piece("Finalize", FALSE)>> \o End = AtReopened
    <2>1. <<Just("SetError"), Just("Finalize")>> \o AtReset = AtReopened
      BY PieceType, Join22 DEF AtReset, AtReopened
    <2> QED BY Zenon, <1>7, <2>1 DEF Just
  <1>11. <<Said("Finalize")>> \o AtReset = AtSuccess /\ <<Just("Finalize")>> \o AtReset = AtFailure
    BY PieceType, Join12 DEF AtReset, AtSuccess, AtFailure
  <1> QED BY Zenon, <1>1, <1>2, <1>3, <1>4, <1>8, <1>9, <1>10, <1>11

\* A step that leaves thread t with the stack s, and the other thread alone.
Goes(t, s) ==
    /\ todo' \in [Threads -> Seq(Pieces)] /\ todo'[t] = s
    /\ \A u \in Threads \ {t} : todo'[u] = todo[u]

\* Push with a stack or with nothing.
LEMMA PushStep ==
    ASSUME StacksOK, NEW t \in Threads, NEW p \in Seq(Pieces), Push(t, p),
           Tail(todo[t]) \in Seq(Pieces)
    PROVE  Goes(t, p \o Tail(todo[t]))
  BY DEF Push, Goes, StacksOK

\* Push when nothing is left below, and when nothing is pushed.
LEMMA PushSimple ==
    ASSUME StacksOK, NEW t \in Threads, NEW p \in Seq(Pieces), Push(t, p)
    PROVE  /\ Tail(todo[t]) = << >> => Goes(t, p)
           /\ p = << >> /\ Tail(todo[t]) \in Seq(Pieces) => Goes(t, Tail(todo[t]))
  <1>1. p \o << >> = p /\ << >> \in Seq(Pieces)
    BY EmptyBeside
  <1>2. ASSUME Tail(todo[t]) \in Seq(Pieces) PROVE << >> \o Tail(todo[t]) = Tail(todo[t])
    BY Zenon, <1>2, EmptyBeside
  <1> QED BY Zenon, <1>1, <1>2, PushStep

\* The stacks of the App thread's own code.
LEMMA AppMoves ==
    ASSUME StacksOK, ConstantsAssumption
    PROVE  /\ WrappedWrite =>
                /\ todo[App] = AtWrite
                /\ \/ /\ ~putFailed /\ sent' = sent + 1 /\ outstanding' = outstanding + 1
                      /\ putFailed' = putFailed /\ Goes(App, AtCount)
                   \/ /\ ~putFailed /\ sent = 0 /\ sent' = sent + 1 /\ putFailed'
                      /\ outstanding' = outstanding /\ Goes(App, AtFailed)
                   \/ /\ putFailed /\ UNCHANGED <<sent, outstanding, putFailed>>
                      /\ Goes(App, AtRefused)
           /\ IncrementRef => todo[App] = AtCount /\ Goes(App, << >>)
           /\ SetClosed => todo[App] = AtClose /\ Goes(App, AtTest)
           /\ TestRef =>
                /\ todo[App] = AtTest
                /\ IF refcount = 0 THEN Goes(App, AtRelease) ELSE Goes(App, << >>)
           /\ Write => todo[App] = << >> /\ Goes(App, AtWrite)
           /\ Close => todo[App] = << >> /\ Goes(App, AtClose)
  <1>1. App \in Threads /\ << >> \in Seq(Pieces)
    BY DEF Threads
  <1>2. WrappedWrite => todo[App] = AtWrite /\ Tail(todo[App]) = << >>
    BY Zenon, <1>1, OnTop, CallStacks DEF WrappedWrite
  <1>3. /\ <<Just("IncrementRef")>> = AtCount /\ <<Just("SetError")>> = AtRefused
        /\ HandleResponse(FALSE) \o <<Just("IncrementRef")>> = AtFailed
    BY Zenon, Pushed DEF AtCount, AtRefused
  <1>4. ASSUME WrappedWrite
        PROVE  \/ /\ ~putFailed /\ sent' = sent + 1 /\ outstanding' = outstanding + 1
                  /\ putFailed' = putFailed /\ Goes(App, AtCount)
               \/ /\ ~putFailed /\ sent = 0 /\ sent' = sent + 1 /\ putFailed'
                  /\ outstanding' = outstanding /\ Goes(App, AtFailed)
               \/ /\ putFailed /\ UNCHANGED <<sent, outstanding, putFailed>>
                  /\ Goes(App, AtRefused)
    <2>1. /\ Push(App, AtCount) => Goes(App, AtCount)
          /\ Push(App, AtFailed) => Goes(App, AtFailed)
          /\ Push(App, AtRefused) => Goes(App, AtRefused)
      BY Zenon, <1>1, <1>2, <1>4, StackType, PushSimple
    <2> QED BY Zenon, <1>3, <1>4, <2>1 DEF WrappedWrite
  <1>5. IncrementRef => todo[App] = AtCount /\ Goes(App, << >>)
    BY Zenon, <1>1, OnTop, CallStacks, PushSimple DEF IncrementRef
  <1>6. SetClosed => todo[App] = AtClose /\ Goes(App, AtTest)
    BY Zenon, <1>1, OnTop, CallStacks, StackType, PushSimple DEF SetClosed
  <1>7. TestRef =>
          /\ todo[App] = AtTest
          /\ IF refcount = 0 THEN Goes(App, AtRelease) ELSE Goes(App, << >>)
    <2> SUFFICES ASSUME TestRef
                 PROVE  /\ todo[App] = AtTest
                        /\ IF refcount = 0 THEN Goes(App, AtRelease) ELSE Goes(App, << >>)
      OBVIOUS
    <2>1. todo[App] = AtTest /\ Tail(todo[App]) = << >>
      BY Zenon, <1>1, OnTop, CallStacks DEF TestRef
    <2>2. CASE refcount = 0
      BY Zenon, <1>1, <2>1, <2>2, Pushed, StackType, PushSimple DEF TestRef, AllAnswered
    <2>3. CASE refcount # 0
      BY Zenon, <1>1, <2>1, <2>3, PushSimple DEF TestRef, AllAnswered
    <2> QED BY Zenon, <2>1, <2>2, <2>3
  <1>8. Write => todo[App] = << >> /\ Goes(App, AtWrite)
    BY Zenon, <1>1, StackType DEF Write, Call, Goes, StacksOK, AtWrite
  <1>9. Close => todo[App] = << >> /\ Goes(App, AtClose)
    BY Zenon, <1>1, StackType DEF Close, Call, Goes, StacksOK, AtClose
  <1> QED BY Zenon, <1>2, <1>4, <1>5, <1>6, <1>7, <1>8, <1>9

\* The stacks of HandleResponse.
LEMMA SubMoves ==
    ASSUME StacksOK, NEW t \in Threads, Sub(t)
    PROVE  \/ todo[t] = AtGood /\ Goes(t, IF refcount = 1 THEN AtLast ELSE AtMore)
           \/ todo[t] = AtBad /\ Goes(t, IF refcount = 1 THEN AtErrLast ELSE AtErrMore)
           \/ /\ todo[t] = AtFailed
              /\ refcount # 1 => Goes(t, AtFailedErr)
  <1>1. todo[t] \in {AtFailed, AtGood, AtBad}
    BY Zenon, OnTop DEF Sub
  <1>2. /\ refcount = 1 => <<Piece("ReadClosed", refcount = 1)>> = AtLast
        /\ refcount # 1 => <<Piece("ReadClosed", refcount = 1)>> = AtMore
    BY Zenon DEF AtLast, AtMore, Just, Said
  <1>3. CASE todo[t] = AtGood
    <2>1. Tail(todo[t]) = << >> /\ TopArg(t)
      BY Zenon, <1>3, AnswerStacks, Args DEF TopArg
    <2>2. << >> \o AtLast = AtLast /\ << >> \o AtMore = AtMore
      BY Zenon, StackType, EmptyBeside
    <2>3. Push(t, << >> \o <<Piece("ReadClosed", refcount = 1)>>)
      BY Zenon, <2>1 DEF Sub
    <2>4. CASE refcount = 1
      BY Zenon, <1>2, <1>3, <2>1, <2>2, <2>3, <2>4, StackType, PushSimple
    <2>5. CASE refcount # 1
      BY Zenon, <1>2, <1>3, <2>1, <2>2, <2>3, <2>5, StackType, PushSimple
    <2> QED BY Zenon, <2>4, <2>5
  <1>4. ASSUME ~TopArg(t) PROVE Push(t, AtRefused \o <<Piece("ReadClosed", refcount = 1)>>)
    BY Zenon, <1>4 DEF Sub, AtRefused
  <1>5. CASE todo[t] = AtBad
    <2>1. Tail(todo[t]) = << >> /\ ~TopArg(t)
      BY Zenon, <1>5, AnswerStacks, Args DEF TopArg
    <2>2. CASE refcount = 1
      BY Zenon, <1>2, <1>4, <1>5, <2>1, <2>2, Pushed, StackType, PushSimple
    <2>3. CASE refcount # 1
      BY Zenon, <1>2, <1>4, <1>5, <2>1, <2>3, Pushed, StackType, PushSimple
    <2> QED BY Zenon, <2>2, <2>3
  <1>6. CASE todo[t] = AtFailed
    <2>1. Tail(todo[t]) = AtCount /\ ~TopArg(t)
      BY Zenon, <1>6, CallStacks, Args DEF TopArg
    <2>2. CASE refcount # 1
      <3>1. Push(t, AtErrMore)
        BY Zenon, <1>2, <1>4, <2>1, <2>2, Pushed
      <3> QED BY Zenon, <1>6, <2>1, <3>1, Pushed, StackType, PushStep
    <2> QED BY Zenon, <1>6, <2>2
  <1> QED BY Zenon, <1>1, <1>3, <1>5, <1>6

\* The stacks of SetError.
LEMMA SetErrorMoves ==
    ASSUME StacksOK, NEW t \in Threads, SetError(t)
    PROVE  \/ todo[t] = AtFailedErr /\ Goes(t, AtFailedRead)
           \/ todo[t] = AtRefused /\ Goes(t, << >>)
           \/ todo[t] = AtErrLast /\ Goes(t, AtLast)
           \/ todo[t] = AtErrMore /\ Goes(t, AtMore)
           \/ todo[t] = AtReopened /\ Goes(t, AtFailure)
           \/ todo[t] = AtBadClose /\ Goes(t, AtTestError)
  <1>1. /\ todo[t] \in {AtFailedErr, AtRefused, AtErrLast, AtErrMore, AtReopened, AtBadClose}
        /\ Push(t, << >>)
    BY Zenon, OnTop DEF SetError
  <1>2. << >> \in Seq(Pieces)
    OBVIOUS
  <1>3. Tail(todo[t]) \in Seq(Pieces)
    <2>1. Tail(todo[t]) \in {AtFailedRead, << >>, AtLast, AtMore, AtFailure, AtTestError}
      BY Zenon, <1>1, CallStacks, AnswerStacks, EndStacks
    <2> QED BY Zenon, <1>2, <2>1, StackType
  <1>4. Goes(t, Tail(todo[t]))
    BY Zenon, <1>1, <1>2, <1>3, PushSimple
  <1> QED BY Zenon, <1>1, <1>4, CallStacks, AnswerStacks, EndStacks

\* The stacks of the test of m_closed.
LEMMA ReadClosedMoves ==
    ASSUME StacksOK, NEW t \in Threads, ReadClosed(t)
    PROVE  \/ todo[t] = AtLast /\ Goes(t, IF closed THEN AtRelease ELSE << >>)
           \/ todo[t] = AtMore /\ Goes(t, << >>)
           \/ todo[t] = AtFailedRead /\ Goes(t, AtCount)
  <1>1. todo[t] \in {AtFailedRead, AtLast, AtMore}
    BY Zenon, OnTop DEF ReadClosed
  <1>2. << >> \in Seq(Pieces)
    OBVIOUS
  <1>3. CASE todo[t] = AtLast
    <2>1. Tail(todo[t]) = << >> /\ TopArg(t)
      BY Zenon, <1>3, AnswerStacks, Args DEF TopArg
    <2>2. CASE closed
      BY Zenon, <1>3, <2>1, <2>2, Pushed, StackType, PushSimple DEF ReadClosed, LastOne
    <2>3. CASE ~closed
      BY Zenon, <1>2, <1>3, <2>1, <2>3, PushSimple DEF ReadClosed, LastOne
    <2> QED BY Zenon, <2>2, <2>3
  <1>4. CASE todo[t] = AtMore
    <2>1. Tail(todo[t]) = << >> /\ ~TopArg(t)
      BY Zenon, <1>4, AnswerStacks, Args DEF TopArg
    <2> QED BY Zenon, <1>2, <1>4, <2>1, PushSimple DEF ReadClosed, LastOne
  <1>5. CASE todo[t] = AtFailedRead
    <2>1. Tail(todo[t]) = AtCount /\ ~TopArg(t)
      BY Zenon, <1>5, CallStacks, Args DEF TopArg
    <2> QED BY Zenon, <1>2, <1>5, <2>1, StackType, PushSimple DEF ReadClosed, LastOne
  <1> QED BY Zenon, <1>1, <1>3, <1>4, <1>5

\* The stacks of Shutdown and of the close that follows it.
LEMMA EndMoves ==
    ASSUME StacksOK, NEW t \in Threads
    PROVE  /\ Release(t) => todo[t] = AtRelease /\ Goes(t, AtJudge)
           /\ Judge(t) => todo[t] = AtJudge /\ Goes(t, AtCloseFile)
           /\ CloseFile(t) =>
                /\ todo[t] = AtCloseFile
                /\ \/ ~wrappedOpen /\ Goes(t, AtReopened) /\ UNCHANGED closePending
                   \/ Goes(t, AtTestError) /\ UNCHANGED closePending
                   \/ Goes(t, << >>) /\ closePending'
           /\ TestError(t) =>
                /\ todo[t] = AtTestError
                /\ Goes(t, IF hadError THEN AtFailure ELSE AtSuccess)
           /\ Finalize(t) => todo[t] \in {AtSuccess, AtFailure} /\ Goes(t, AtReset)
           /\ ResetSelf(t) => todo[t] = AtReset /\ Goes(t, AtNotify)
           /\ Notify(t) => todo[t] = AtNotify /\ Goes(t, << >>)
  <1>1. << >> \in Seq(Pieces)
    OBVIOUS
  <1>2. Release(t) => todo[t] = AtRelease /\ Goes(t, AtJudge)
    BY Zenon, <1>1, OnTop, EndStacks, StackType, PushSimple DEF Release
  <1>3. Judge(t) => todo[t] = AtJudge /\ Goes(t, AtCloseFile)
    BY Zenon, <1>1, OnTop, EndStacks, StackType, PushSimple DEF Judge
  <1>4. ASSUME CloseFile(t)
        PROVE  /\ todo[t] = AtCloseFile
               /\ \/ ~wrappedOpen /\ Goes(t, AtReopened) /\ UNCHANGED closePending
                  \/ Goes(t, AtTestError) /\ UNCHANGED closePending
                  \/ Goes(t, << >>) /\ closePending'
    <2>1. todo[t] = AtCloseFile /\ Tail(todo[t]) = << >>
      BY Zenon, <1>4, OnTop, EndStacks DEF CloseFile
    <2>2. /\ Push(t, AtReopened) => Goes(t, AtReopened)
          /\ Push(t, AtTestError) => Goes(t, AtTestError)
          /\ Push(t, << >>) => Goes(t, << >>)
      BY Zenon, <1>1, <2>1, StackType, PushSimple
    <2>3. \/ ~wrappedOpen /\ Push(t, AtReopened) /\ UNCHANGED closePending
          \/ Push(t, AtTestError) /\ UNCHANGED closePending
          \/ Push(t, << >>) /\ closePending'
      BY Zenon, <1>4, Pushed DEF CloseFile
    <2> QED BY Zenon, <2>1, <2>2, <2>3
  <1>5. ASSUME TestError(t)
        PROVE  /\ todo[t] = AtTestError
               /\ Goes(t, IF hadError THEN AtFailure ELSE AtSuccess)
    <2>1. todo[t] = AtTestError /\ Tail(todo[t]) = AtReset /\ AtReset \in Seq(Pieces)
      BY Zenon, <1>5, OnTop, EndStacks, StackType DEF TestError
    <2>2. <<Said("Finalize")>> \in Seq(Pieces) /\ <<Just("Finalize")>> \in Seq(Pieces)
      BY PieceType
    <2>3. CASE hadError
      <3>1. Push(t, <<Just("Finalize")>>)
        BY Zenon, <1>5, <2>3 DEF TestError, Bad, Just
      <3> QED BY Zenon, <2>1, <2>2, <2>3, <3>1, Pushed, PushStep
    <2>4. CASE ~hadError
      <3>1. Push(t, <<Said("Finalize")>>)
        BY Zenon, <1>5, <2>4 DEF TestError, Bad, Said
      <3> QED BY Zenon, <2>1, <2>2, <2>4, <3>1, Pushed, PushStep
    <2> QED BY Zenon, <2>3, <2>4
  <1>6. Finalize(t) => todo[t] \in {AtSuccess, AtFailure} /\ Goes(t, AtReset)
    <2> SUFFICES ASSUME Finalize(t) PROVE todo[t] \in {AtSuccess, AtFailure} /\ Goes(t, AtReset)
      OBVIOUS
    <2>1. todo[t] \in {AtSuccess, AtFailure} /\ Push(t, << >>)
      BY Zenon, OnTop DEF Finalize
    <2>2. Tail(todo[t]) = AtReset
      BY Zenon, <2>1, EndStacks
    <2> QED BY Zenon, <1>1, <2>1, <2>2, StackType, PushSimple
  <1>7. ResetSelf(t) => todo[t] = AtReset /\ Goes(t, AtNotify)
    BY Zenon, <1>1, OnTop, EndStacks, StackType, PushSimple DEF ResetSelf
  <1>8. Notify(t) => todo[t] = AtNotify /\ Goes(t, << >>)
    BY Zenon, <1>1, OnTop, EndStacks, StackType, PushSimple DEF Notify
  <1> QED BY Zenon, <1>2, <1>3, <1>4, <1>5, <1>6, <1>7, <1>8

\* The stacks of the answers of the wrapped file.
LEMMA AnswerMoves ==
    ASSUME StacksOK
    PROVE  /\ AnswerWrite =>
                /\ todo[Worker] = << >>
                /\ \/ ~putFailed /\ UNCHANGED putFailed /\ Goes(Worker, AtGood)
                   \/ putFailed' /\ Goes(Worker, AtBad)
           /\ AnswerClose =>
                /\ todo[Worker] = << >>
                /\ Goes(Worker, AtTestError) \/ Goes(Worker, AtBadClose)
  <1>1. Worker \in Threads
    BY Zenon DEF Threads
  <1>2. ASSUME NEW s \in Seq(Pieces), Call(Worker, s)
        PROVE  todo[Worker] = << >> /\ Goes(Worker, s)
    BY Zenon, <1>1, <1>2 DEF Call, Goes, StacksOK
  <1>3. AnswerWrite =>
          /\ todo[Worker] = << >>
          /\ \/ ~putFailed /\ UNCHANGED putFailed /\ Goes(Worker, AtGood)
             \/ putFailed' /\ Goes(Worker, AtBad)
    BY Zenon, <1>2, Pushed, StackType DEF AnswerWrite
  <1>4. AnswerClose => Call(Worker, AtTestError) \/ Call(Worker, AtBadClose)
    BY Zenon, Pushed DEF AnswerClose
  <1> QED BY Zenon, <1>2, <1>3, <1>4, StackType

\* Where the threads can be.
LEMMA PlaceSets ==
    ASSUME StacksOK
    PROVE  /\ AppAt \in {"idle", "write", "count", "failed", "failedErr", "failedRead", "refused",
                         "close", "test", "release", "judge", "closeFile", "reopened", "badClose",
                         "testError", "success", "failure", "reset", "notify"}
           /\ WorkerAt \in {"idle", "good", "bad", "errLast", "errMore", "last", "more", "release",
                            "judge", "closeFile", "reopened", "badClose", "testError", "success",
                            "failure", "reset", "notify"}
           /\ AppAt = "idle" <=> todo[App] = << >>
           /\ WorkerAt = "idle" <=> todo[Worker] = << >>
           /\ AppAt = "notify" => todo[App] = AtNotify
           /\ WorkerAt = "notify" => todo[Worker] = AtNotify
  <1>1. todo[App] \in AppStacks /\ todo[Worker] \in WorkerStacks
    BY Zenon DEF StacksOK
  <1>2. ASSUME NEW s \in AppStacks
        PROVE  /\ Place(s) \in {"idle", "write", "count", "failed", "failedErr", "failedRead",
                                "refused", "close", "test", "release", "judge", "closeFile",
                                "reopened", "badClose", "testError", "success", "failure", "reset",
                                "notify"}
               /\ (Place(s) = "idle" <=> s = << >>) /\ (Place(s) = "notify" => s = AtNotify)
    BY <1>2, Places DEF AppStacks, CallSet, EndSet
  <1>3. ASSUME NEW s \in WorkerStacks
        PROVE  /\ Place(s) \in {"idle", "good", "bad", "errLast", "errMore", "last", "more",
                                "release", "judge", "closeFile", "reopened", "badClose",
                                "testError", "success", "failure", "reset", "notify"}
               /\ (Place(s) = "idle" <=> s = << >>) /\ (Place(s) = "notify" => s = AtNotify)
    BY <1>3, Places DEF WorkerStacks, AnswerSet, EndSet
  <1> QED BY Zenon, <1>1, <1>2, <1>3 DEF AppAt, WorkerAt

\* Which stacks hold an answer to subtract or a write to count.
LEMMA Holds ==
    ASSUME NEW s, s \in AppStacks \/ s \in WorkerStacks
    PROVE  /\ (\E i \in DOMAIN s : s[i].do = "Sub") <=> Subtracts(Place(s))
           /\ (\E i \in DOMAIN s : s[i].do = "IncrementRef") <=> Counts(Place(s))
  <1>1. CASE s = << >>
    BY <1>1, Places DEF Subtracts, Counts
  <1>2. \A i \in DOMAIN AtWrite : AtWrite[i].do \notin {"Sub", "IncrementRef"}
    BY DEF AtWrite, Just, Said, Piece
  <1>3. \A i \in DOMAIN AtRefused : AtRefused[i].do \notin {"Sub", "IncrementRef"}
    BY DEF AtRefused, Just, Said, Piece
  <1>4. \A i \in DOMAIN AtClose : AtClose[i].do \notin {"Sub", "IncrementRef"}
    BY DEF AtClose, Just, Said, Piece
  <1>5. \A i \in DOMAIN AtTest : AtTest[i].do \notin {"Sub", "IncrementRef"}
    BY DEF AtTest, Just, Said, Piece
  <1>6. \A i \in DOMAIN AtErrLast : AtErrLast[i].do \notin {"Sub", "IncrementRef"}
    BY DEF AtErrLast, Just, Said, Piece
  <1>7. \A i \in DOMAIN AtErrMore : AtErrMore[i].do \notin {"Sub", "IncrementRef"}
    BY DEF AtErrMore, Just, Said, Piece
  <1>8. \A i \in DOMAIN AtLast : AtLast[i].do \notin {"Sub", "IncrementRef"}
    BY DEF AtLast, Just, Said, Piece
  <1>9. \A i \in DOMAIN AtMore : AtMore[i].do \notin {"Sub", "IncrementRef"}
    BY DEF AtMore, Just, Said, Piece
  <1>10. \A i \in DOMAIN AtRelease : AtRelease[i].do \notin {"Sub", "IncrementRef"}
    BY DEF AtRelease, Just, Said, Piece
  <1>11. \A i \in DOMAIN AtJudge : AtJudge[i].do \notin {"Sub", "IncrementRef"}
    BY DEF AtJudge, Just, Said, Piece
  <1>12. \A i \in DOMAIN AtCloseFile : AtCloseFile[i].do \notin {"Sub", "IncrementRef"}
    BY DEF AtCloseFile, Just, Said, Piece
  <1>13. \A i \in DOMAIN AtReopened : AtReopened[i].do \notin {"Sub", "IncrementRef"}
    BY DEF AtReopened, Just, Said, Piece
  <1>14. \A i \in DOMAIN AtBadClose : AtBadClose[i].do \notin {"Sub", "IncrementRef"}
    BY DEF AtBadClose, Just, Said, Piece
  <1>15. \A i \in DOMAIN AtTestError : AtTestError[i].do \notin {"Sub", "IncrementRef"}
    BY DEF AtTestError, Just, Said, Piece
  <1>16. \A i \in DOMAIN AtSuccess : AtSuccess[i].do \notin {"Sub", "IncrementRef"}
    BY DEF AtSuccess, Just, Said, Piece
  <1>17. \A i \in DOMAIN AtFailure : AtFailure[i].do \notin {"Sub", "IncrementRef"}
    BY DEF AtFailure, Just, Said, Piece
  <1>18. \A i \in DOMAIN AtReset : AtReset[i].do \notin {"Sub", "IncrementRef"}
    BY DEF AtReset, Just, Said, Piece
  <1>19. \A i \in DOMAIN AtNotify : AtNotify[i].do \notin {"Sub", "IncrementRef"}
    BY DEF AtNotify, Just, Said, Piece
  <1>20. CASE s \in {AtWrite, AtRefused, AtClose, AtTest, AtErrLast, AtErrMore, AtLast,
                      AtMore, AtRelease, AtJudge, AtCloseFile, AtReopened, AtBadClose,
                      AtTestError, AtSuccess, AtFailure, AtReset, AtNotify}
    <2>1. ~Subtracts(Place(s)) /\ ~Counts(Place(s))
      BY Zenon, <1>20, Places DEF Subtracts, Counts
    <2>2. \A i \in DOMAIN s : s[i].do \notin {"Sub", "IncrementRef"}
      BY Zenon, <1>2, <1>3, <1>4, <1>5, <1>6, <1>7, <1>8, <1>9, <1>10, <1>11, <1>12, <1>13,
         <1>14, <1>15, <1>16, <1>17, <1>18, <1>19, <1>20
    <2> QED BY Zenon, <2>1, <2>2
  <1>21. /\ (\E i \in DOMAIN AtFailed : AtFailed[i].do = "Sub")
         /\ (\E i \in DOMAIN AtFailed : AtFailed[i].do = "IncrementRef")
    BY DEF AtFailed, Just, Said, Piece
  <1>22. /\ (\E i \in DOMAIN AtGood : AtGood[i].do = "Sub")
         /\ ~(\E i \in DOMAIN AtGood : AtGood[i].do = "IncrementRef")
    BY DEF AtGood, Just, Said, Piece
  <1>23. /\ (\E i \in DOMAIN AtBad : AtBad[i].do = "Sub")
         /\ ~(\E i \in DOMAIN AtBad : AtBad[i].do = "IncrementRef")
    BY DEF AtBad, Just, Said, Piece
  <1>24. /\ ~(\E i \in DOMAIN AtCount : AtCount[i].do = "Sub")
         /\ (\E i \in DOMAIN AtCount : AtCount[i].do = "IncrementRef")
    BY DEF AtCount, Just, Said, Piece
  <1>25. /\ ~(\E i \in DOMAIN AtFailedErr : AtFailedErr[i].do = "Sub")
         /\ (\E i \in DOMAIN AtFailedErr : AtFailedErr[i].do = "IncrementRef")
    BY DEF AtFailedErr, Just, Said, Piece
  <1>26. /\ ~(\E i \in DOMAIN AtFailedRead : AtFailedRead[i].do = "Sub")
         /\ (\E i \in DOMAIN AtFailedRead : AtFailedRead[i].do = "IncrementRef")
    BY DEF AtFailedRead, Just, Said, Piece
  <1>27. CASE s \in {AtFailed, AtGood, AtBad, AtCount, AtFailedErr, AtFailedRead}
    BY <1>21, <1>22, <1>23, <1>24, <1>25, <1>26, <1>27, Places DEF Subtracts, Counts
  <1> QED BY Zenon, <1>1, <1>20, <1>27 DEF AppStacks, WorkerStacks, CallSet, AnswerSet, EndSet

\* RefcountExact counts threads.
LEMMA PendingCounts ==
    ASSUME StacksOK, ConstantsAssumption
    PROVE  Pending("Sub") = Subs /\ Pending("IncrementRef") = One(Counts(AppAt))
  <1>1. App # Worker
    BY Zenon DEF ConstantsAssumption
  <1>2. ASSUME NEW P, P \subseteq Threads
        PROVE  Cardinality(P) = One(App \in P) + One(Worker \in P)
    <2>1. /\ P = {} \/ P = {App} \/ P = {Worker} \/ P = {App, Worker}
      BY Zenon, <1>2 DEF Threads
    <2>2. Cardinality({}) = 0 /\ Cardinality({App}) = 1 /\ Cardinality({Worker}) = 1
      BY Zenon, FS_EmptySet, FS_Singleton
    <2>3. Cardinality({App, Worker}) = 2
      <3>1. {App, Worker} = {App} \cup {Worker} /\ Worker \notin {App} /\ IsFiniteSet({App})
        BY Zenon, <1>1, FS_Singleton
      <3> QED BY <2>2, <3>1, FS_AddElement
    <2> QED BY <1>1, <2>1, <2>2, <2>3 DEF One
  <1> DEFINE With(d) == {t \in Threads : \E i \in DOMAIN todo[t] : todo[t][i].do = d}
  <1>3. \A t \in Threads : /\ t \in With("Sub") <=> Subtracts(Place(todo[t]))
                           /\ t \in With("IncrementRef") <=> Counts(Place(todo[t]))
    BY Zenon, Holds DEF StacksOK, Threads
  <1>4. ~Counts(WorkerAt)
    BY Zenon, PlaceSets DEF Counts
  <1>5. /\ Pending("Sub") = Cardinality(With("Sub")) /\ With("Sub") \subseteq Threads
        /\ Pending("IncrementRef") = Cardinality(With("IncrementRef"))
        /\ With("IncrementRef") \subseteq Threads
    BY Zenon DEF Pending
  <1> HIDE DEF With
  <1>6. /\ Pending("Sub") = One(App \in With("Sub")) + One(Worker \in With("Sub"))
        /\ Pending("IncrementRef")
             = One(App \in With("IncrementRef")) + One(Worker \in With("IncrementRef"))
    BY Zenon, <1>2, <1>5
  <1>7. App \in Threads /\ Worker \in Threads
    BY Zenon DEF Threads
  <1> QED BY <1>3, <1>4, <1>6, <1>7 DEF Subs, One, AppAt, WorkerAt


-----------------------------------------------------------------------------
(* How the threads move from place to place. *)

\* A step of a thread's stack is a step from place to place.
LEMMA Moved ==
    ASSUME StacksOK, ConstantsAssumption, NEW t \in Threads, NEW s, Goes(t, s),
           s \in EndSet \/ s = << >> \/ (t = App /\ s \in CallSet)
             \/ (t = Worker /\ s \in AnswerSet)
    PROVE  Moves(t, Place(todo[t]), Place(s))
  <1>1. App # Worker
    BY Zenon DEF ConstantsAssumption
  <1>2. todo' \in [Threads -> Seq(Pieces)]
    BY Zenon DEF Goes
  <1>3. CASE t = App
    <2>1. todo'[App] = s /\ todo'[Worker] = todo[Worker]
      BY Zenon, <1>1, <1>3 DEF Goes, Threads
    <2>2. s \in AppStacks
      BY Zenon, <1>1, <1>3 DEF AppStacks
    <2> QED BY Zenon, <1>2, <1>3, <2>1, <2>2 DEF Moves, StacksOK, AppAt, WorkerAt
  <1>4. CASE t = Worker
    <2>1. todo'[Worker] = s /\ todo'[App] = todo[App]
      BY Zenon, <1>1, <1>4 DEF Goes, Threads
    <2>2. s \in WorkerStacks
      BY Zenon, <1>1, <1>4 DEF WorkerStacks
    <2> QED BY Zenon, <1>2, <1>4, <2>1, <2>2 DEF Moves, StacksOK, AppAt, WorkerAt
  <1> QED BY Zenon, <1>3, <1>4 DEF Threads

\* The threads stay where they are.
LEMMA Stays ==
    ASSUME StacksOK, UNCHANGED todo
    PROVE  StacksOK' /\ AppAt' = AppAt /\ WorkerAt' = WorkerAt
  BY Zenon DEF StacksOK, AppAt, WorkerAt

\* The calls of the application.
LEMMA AppSteps ==
    ASSUME StacksOK, ConstantsAssumption
    PROVE  /\ WrappedWrite =>
                \/ /\ ~putFailed /\ sent' = sent + 1 /\ outstanding' = outstanding + 1
                   /\ putFailed' = putFailed /\ Moves(App, "write", "count")
                \/ /\ ~putFailed /\ sent = 0 /\ sent' = sent + 1 /\ putFailed'
                   /\ outstanding' = outstanding /\ Moves(App, "write", "failed")
                \/ /\ putFailed /\ UNCHANGED <<sent, outstanding, putFailed>>
                   /\ Moves(App, "write", "refused")
           /\ IncrementRef => Moves(App, "count", "idle")
           /\ SetClosed => Moves(App, "close", "test")
           /\ TestRef => IF refcount = 0 THEN Moves(App, "test", "release")
                         ELSE Moves(App, "test", "idle")
           /\ Write => Moves(App, "idle", "write")
           /\ Close => Moves(App, "idle", "close")
  <1>1. /\ AtCount \in CallSet /\ AtFailed \in CallSet /\ AtRefused \in CallSet
        /\ AtTest \in CallSet /\ AtWrite \in CallSet /\ AtClose \in CallSet /\ AtRelease \in EndSet
    BY Zenon DEF CallSet, EndSet
  <1>2. App \in Threads
    BY Zenon DEF Threads
  <1>3. ASSUME NEW s, Goes(App, s), s \in CallSet \/ s \in EndSet \/ s = << >>
        PROVE  Moves(App, Place(todo[App]), Place(s))
    BY Zenon, <1>2, <1>3, Moved
  <1> HIDE DEF Goes, Moves, Place
  <1>4. IncrementRef => Moves(App, "count", "idle")
    BY Zenon, <1>3, AppMoves, Places
  <1>5. SetClosed => Moves(App, "close", "test")
    BY Zenon, <1>1, <1>3, AppMoves, Places
  <1>6. TestRef => IF refcount = 0 THEN Moves(App, "test", "release")
                   ELSE Moves(App, "test", "idle")
    BY Zenon, <1>1, <1>3, AppMoves, Places
  <1>7. ASSUME Write PROVE Moves(App, "idle", "write")
    <2>1. Moves(App, Place(<< >>), Place(AtWrite))
      BY Zenon, <1>1, <1>3, <1>7, AppMoves
    <2> QED BY Zenon, <2>1, Places
  <1>8. ASSUME Close PROVE Moves(App, "idle", "close")
    <2>1. Moves(App, Place(<< >>), Place(AtClose))
      BY Zenon, <1>1, <1>3, <1>8, AppMoves
    <2> QED BY Zenon, <2>1, Places
  <1>9. WrappedWrite =>
          \/ /\ ~putFailed /\ sent' = sent + 1 /\ outstanding' = outstanding + 1
             /\ putFailed' = putFailed /\ Moves(App, "write", "count")
          \/ /\ ~putFailed /\ sent = 0 /\ sent' = sent + 1 /\ putFailed'
             /\ outstanding' = outstanding /\ Moves(App, "write", "failed")
          \/ /\ putFailed /\ UNCHANGED <<sent, outstanding, putFailed>>
             /\ Moves(App, "write", "refused")
    <2>1. todo[App] = AtWrite => /\ Goes(App, AtCount) => Moves(App, "write", "count")
                                 /\ Goes(App, AtFailed) => Moves(App, "write", "failed")
                                 /\ Goes(App, AtRefused) => Moves(App, "write", "refused")
      BY Zenon, <1>1, <1>3, Places
    <2> QED BY Zenon, <2>1, AppMoves
  <1> QED BY Zenon, <1>4, <1>5, <1>6, <1>7, <1>8, <1>9

\* HandleResponse.
LEMMA AnswerSteps ==
    ASSUME StacksOK, ConstantsAssumption, NEW t \in Threads
    PROVE  /\ Sub(t) =>
                \/ /\ t = Worker
                   /\ \/ Moves(t, "good", IF refcount = 1 THEN "last" ELSE "more")
                      \/ Moves(t, "bad", IF refcount = 1 THEN "errLast" ELSE "errMore")
                \/ /\ t = App /\ AppAt = "failed"
                   /\ refcount # 1 => Moves(t, "failed", "failedErr")
           /\ SetError(t) =>
                \/ Moves(t, "failedErr", "failedRead") \/ Moves(t, "refused", "idle")
                \/ Moves(t, "errLast", "last") \/ Moves(t, "errMore", "more")
                \/ Moves(t, "reopened", "failure") \/ Moves(t, "badClose", "testError")
           /\ ReadClosed(t) =>
                \/ Moves(t, "last", IF closed THEN "release" ELSE "idle")
                \/ Moves(t, "more", "idle") \/ Moves(t, "failedRead", "count")
  <1>1. /\ AtFailedErr \in CallSet /\ AtFailedRead \in CallSet /\ AtCount \in CallSet
        /\ AtLast \in AnswerSet /\ AtMore \in AnswerSet /\ AtErrLast \in AnswerSet
        /\ AtErrMore \in AnswerSet
        /\ AtRelease \in EndSet /\ AtFailure \in EndSet /\ AtTestError \in EndSet
    BY Zenon DEF CallSet, AnswerSet, EndSet
  <1>2. ASSUME NEW s, Goes(t, s),
               s \in EndSet \/ s = << >> \/ (t = App /\ s \in CallSet)
                 \/ (t = Worker /\ s \in AnswerSet)
        PROVE  Moves(t, Place(todo[t]), Place(s))
    BY Zenon, <1>2, Moved
  <1>3. /\ todo[t] \in {AtGood, AtBad, AtErrLast, AtErrMore, AtLast, AtMore} => t = Worker
        /\ todo[t] \in {AtFailed, AtFailedErr, AtFailedRead, AtRefused} => t = App
    BY Places, PlaceSets DEF Threads, AppAt, WorkerAt
  <1> HIDE DEF Goes, Moves, Place
  <1>4. ASSUME Sub(t)
        PROVE  \/ /\ t = Worker
                  /\ \/ Moves(t, "good", IF refcount = 1 THEN "last" ELSE "more")
                     \/ Moves(t, "bad", IF refcount = 1 THEN "errLast" ELSE "errMore")
               \/ /\ t = App /\ AppAt = "failed"
                  /\ refcount # 1 => Moves(t, "failed", "failedErr")
    <2>1. CASE todo[t] = AtGood /\ Goes(t, IF refcount = 1 THEN AtLast ELSE AtMore)
      BY Zenon, <1>1, <1>2, <1>3, <2>1, Places
    <2>2. CASE todo[t] = AtBad /\ Goes(t, IF refcount = 1 THEN AtErrLast ELSE AtErrMore)
      BY Zenon, <1>1, <1>2, <1>3, <2>2, Places
    <2>3. CASE todo[t] = AtFailed /\ (refcount # 1 => Goes(t, AtFailedErr))
      BY Zenon, <1>1, <1>2, <1>3, <2>3, Places DEF AppAt
    <2> QED BY Zenon, <1>4, <2>1, <2>2, <2>3, SubMoves
  <1>5. ASSUME SetError(t)
        PROVE  \/ Moves(t, "failedErr", "failedRead") \/ Moves(t, "refused", "idle")
               \/ Moves(t, "errLast", "last") \/ Moves(t, "errMore", "more")
               \/ Moves(t, "reopened", "failure") \/ Moves(t, "badClose", "testError")
    <2>1. /\ todo[t] = AtFailedErr /\ Goes(t, AtFailedRead) => Moves(t, "failedErr", "failedRead")
          /\ todo[t] = AtRefused /\ Goes(t, << >>) => Moves(t, "refused", "idle")
          /\ todo[t] = AtErrLast /\ Goes(t, AtLast) => Moves(t, "errLast", "last")
          /\ todo[t] = AtErrMore /\ Goes(t, AtMore) => Moves(t, "errMore", "more")
          /\ todo[t] = AtReopened /\ Goes(t, AtFailure) => Moves(t, "reopened", "failure")
          /\ todo[t] = AtBadClose /\ Goes(t, AtTestError) => Moves(t, "badClose", "testError")
      BY Zenon, <1>1, <1>2, <1>3, Places
    <2> QED BY Zenon, <1>5, <2>1, SetErrorMoves
  <1>6. ASSUME ReadClosed(t)
        PROVE  \/ Moves(t, "last", IF closed THEN "release" ELSE "idle")
               \/ Moves(t, "more", "idle") \/ Moves(t, "failedRead", "count")
    <2>1. CASE todo[t] = AtLast /\ Goes(t, IF closed THEN AtRelease ELSE << >>)
      BY Zenon, <1>1, <1>2, <2>1, Places
    <2>2. CASE todo[t] = AtMore /\ Goes(t, << >>)
      BY Zenon, <1>2, <2>2, Places
    <2>3. CASE todo[t] = AtFailedRead /\ Goes(t, AtCount)
      BY Zenon, <1>1, <1>2, <1>3, <2>3, Places
    <2> QED BY Zenon, <1>6, <2>1, <2>2, <2>3, ReadClosedMoves
  <1> QED BY Zenon, <1>4, <1>5, <1>6

\* The end of the transfer, and the answers of the wrapped file.
LEMMA EndSteps ==
    ASSUME StacksOK, ConstantsAssumption, NEW t \in Threads
    PROVE  /\ Release(t) => Moves(t, "release", "judge")
           /\ Judge(t) => Moves(t, "judge", "closeFile")
           /\ CloseFile(t) =>
                \/ Moves(t, "closeFile", "reopened") /\ UNCHANGED closePending
                \/ Moves(t, "closeFile", "testError") /\ UNCHANGED closePending
                \/ Moves(t, "closeFile", "idle") /\ closePending'
           /\ TestError(t) => Moves(t, "testError", IF hadError THEN "failure" ELSE "success")
           /\ Finalize(t) =>
                \/ Moves(t, "success", "reset")
                \/ Moves(t, "failure", "reset") /\ row' \in {row, "FAILED"}
           /\ ResetSelf(t) => Moves(t, "reset", "notify")
           /\ Notify(t) => Moves(t, "notify", "idle")
           /\ AnswerWrite =>
                \/ ~putFailed /\ UNCHANGED putFailed /\ Moves(Worker, "idle", "good")
                \/ putFailed' /\ Moves(Worker, "idle", "bad")
           /\ AnswerClose => Moves(Worker, "idle", "testError") \/ Moves(Worker, "idle", "badClose")
  <1>1. /\ AtJudge \in EndSet /\ AtCloseFile \in EndSet /\ AtReopened \in EndSet
        /\ AtTestError \in EndSet /\ AtFailure \in EndSet /\ AtSuccess \in EndSet
        /\ AtReset \in EndSet /\ AtNotify \in EndSet /\ AtBadClose \in EndSet
        /\ AtGood \in AnswerSet /\ AtBad \in AnswerSet
    BY Zenon DEF AnswerSet, EndSet
  <1>2. ASSUME NEW u \in Threads, NEW s, Goes(u, s),
               s \in EndSet \/ s = << >> \/ (u = Worker /\ s \in AnswerSet)
        PROVE  Moves(u, Place(todo[u]), Place(s))
    BY Zenon, <1>2, Moved
  <1>3. Worker \in Threads
    BY Zenon DEF Threads
  <1> HIDE DEF Goes, Moves, Place
  <1>4. ASSUME Release(t) PROVE Moves(t, "release", "judge")
    <2>1. todo[t] = AtRelease /\ Goes(t, AtJudge)
      BY Zenon, <1>4, EndMoves
    <2>2. Moves(t, Place(AtRelease), Place(AtJudge))
      BY Zenon, <1>1, <1>2, <2>1
    <2> QED BY Zenon, <2>2, Places
  <1>5. ASSUME Judge(t) PROVE Moves(t, "judge", "closeFile")
    <2>1. todo[t] = AtJudge /\ Goes(t, AtCloseFile)
      BY Zenon, <1>5, EndMoves
    <2>2. Moves(t, Place(AtJudge), Place(AtCloseFile))
      BY Zenon, <1>1, <1>2, <2>1
    <2> QED BY Zenon, <2>2, Places
  <1>6. CloseFile(t) =>
          \/ Moves(t, "closeFile", "reopened") /\ UNCHANGED closePending
          \/ Moves(t, "closeFile", "testError") /\ UNCHANGED closePending
          \/ Moves(t, "closeFile", "idle") /\ closePending'
    <2>1. todo[t] = AtCloseFile =>
            /\ Goes(t, AtReopened) => Moves(t, "closeFile", "reopened")
            /\ Goes(t, AtTestError) => Moves(t, "closeFile", "testError")
            /\ Goes(t, << >>) => Moves(t, "closeFile", "idle")
      BY Zenon, <1>1, <1>2, Places
    <2> QED BY Zenon, <2>1, EndMoves
  <1>7. TestError(t) => Moves(t, "testError", IF hadError THEN "failure" ELSE "success")
    <2>1. todo[t] = AtTestError =>
            /\ Goes(t, AtFailure) => Moves(t, "testError", "failure")
            /\ Goes(t, AtSuccess) => Moves(t, "testError", "success")
      BY Zenon, <1>1, <1>2, Places
    <2> QED BY Zenon, <2>1, EndMoves
  <1>8. Finalize(t) =>
          \/ Moves(t, "success", "reset")
          \/ Moves(t, "failure", "reset") /\ row' \in {row, "FAILED"}
    <2> SUFFICES ASSUME Finalize(t)
                 PROVE  \/ Moves(t, "success", "reset")
                        \/ Moves(t, "failure", "reset") /\ row' \in {row, "FAILED"}
      OBVIOUS
    <2>0. todo[t] \in {AtSuccess, AtFailure} /\ Goes(t, AtReset)
      BY Zenon, EndMoves
    <2>1. todo[t] \in {AtSuccess, AtFailure} /\ Moves(t, Place(todo[t]), "reset")
      <3>1. Moves(t, Place(todo[t]), Place(AtReset))
        BY Zenon, <1>1, <1>2, <2>0
      <3> QED BY Zenon, <2>0, <3>1, Places
    <2>2. CASE todo[t] = AtSuccess
      BY Zenon, <2>1, <2>2, Places
    <2>3. CASE todo[t] = AtFailure
      <3>1. ~TopArg(t)
        BY Zenon, <2>3, Args DEF TopArg
      <3>2. row' \in {row, "FAILED"}
        BY Zenon, <3>1 DEF Finalize, rowVars
      <3> QED BY Zenon, <2>1, <2>3, <3>2, Places
    <2> QED BY Zenon, <2>1, <2>2, <2>3
  <1>9. ASSUME ResetSelf(t) PROVE Moves(t, "reset", "notify")
    <2>1. todo[t] = AtReset /\ Goes(t, AtNotify)
      BY Zenon, <1>9, EndMoves
    <2>2. Moves(t, Place(AtReset), Place(AtNotify))
      BY Zenon, <1>1, <1>2, <2>1
    <2> QED BY Zenon, <2>2, Places
  <1>10. ASSUME Notify(t) PROVE Moves(t, "notify", "idle")
    <2>1. todo[t] = AtNotify /\ Goes(t, << >>)
      BY Zenon, <1>10, EndMoves
    <2>2. Moves(t, Place(AtNotify), Place(<< >>))
      BY Zenon, <1>1, <1>2, <2>1
    <2> QED BY Zenon, <2>2, Places
  <1>11. AnswerWrite =>
           \/ ~putFailed /\ UNCHANGED putFailed /\ Moves(Worker, "idle", "good")
           \/ putFailed' /\ Moves(Worker, "idle", "bad")
    BY Zenon, <1>1, <1>2, <1>3, AnswerMoves, Places
  <1>12. AnswerClose => Moves(Worker, "idle", "testError") \/ Moves(Worker, "idle", "badClose")
    BY Zenon, <1>1, <1>2, <1>3, AnswerMoves, Places
  <1> QED BY Zenon, <1>4, <1>5, <1>6, <1>7, <1>8, <1>9, <1>10, <1>11, <1>12

\* Close is under way when SetClosed or TestRef is next.
LEMMA ClosingTop ==
    ASSUME StacksOK, InClose(AppAt)
    PROVE  Top(App, "SetClosed") \/ Top(App, "TestRef")
  <1>1. todo[App] \in {AtClose, AtTest}
    BY Zenon, Places DEF StacksOK, AppStacks, CallSet, EndSet, AppAt, InClose
  <1> QED BY Zenon, <1>1, Tops, NotEmpty DEF Top

\* Steps that change nothing but clocks, bytes, the waiting thread or an old row.
LEMMA QuietKeeps ==
    ASSUME Inv, TypeOK', row' \in {row, "none"},
           UNCHANGED <<todo, file, sent, outstanding, putFailed, closePending, handler, selfRef,
                       closed, hadError, refcount, offset, releases, races>>
    PROVE  Inv'
  <1>1. StacksOK /\ OrderOK /\ CountsOK /\ TruthOK /\ PhaseOK
    BY Zenon DEF Inv
  <1>2. StacksOK' /\ AppAt' = AppAt /\ WorkerAt' = WorkerAt
    BY Zenon, <1>1, Stays
  <1>3. OrderOK'
    BY Zenon, <1>1, <1>2 DEF OrderOK
  <1>4. CountsOK'
    BY Zenon, <1>1, <1>2 DEF CountsOK, Subs
  <1>5. TruthOK'
    BY Zenon, <1>1, <1>2 DEF TruthOK
  <1>6. PhaseOK'
    <2>1. CASE races
      BY Zenon, <1>1, <1>2, <2>1 DEF PhaseOK, RaceOK
    <2>2. CASE ~races /\ Running
      BY Zenon, <1>1, <1>2, <2>2 DEF PhaseOK, Running, Final
    <2>3. CASE ~races /\ Ending
      BY Zenon, <1>1, <1>2, <2>3 DEF PhaseOK, Ending, EndPending, EndedBy, Final
    <2>4. CASE ~races /\ Ended
      BY Zenon, <1>1, <1>2, <2>4 DEF PhaseOK, Ended
    <2> QED BY Zenon, <1>1, <2>1, <2>2, <2>3, <2>4 DEF PhaseOK
  <1> QED BY Zenon, <1>2, <1>3, <1>4, <1>5, <1>6 DEF Inv

\* The clock, the thread that waits and the maintenance thread.
LEMMA OthersKeep ==
    ASSUME Inv, ConstantsAssumption, Tick \/ WaiterStep \/ Maintenance \/ UNCHANGED vars
    PROVE  Inv'
  <1>1. TypeOK
    BY Zenon DEF Inv
  <1>2. CASE Tick
    <2>1. TypeOK'
      <3>1. now' \in 0..MaxTime
        BY <1>1, <1>2 DEF Tick, TypeOK, ConstantsAssumption
      <3> QED BY <1>1, <1>2, <3>1 DEF Tick, TypeOK, fileVars, handlerVars, diskVars, rowVars,
                 waitVars
    <2> QED BY Zenon, <1>2, <2>1, QuietKeeps DEF Tick, fileVars, handlerVars, rowVars
  <1>3. CASE WaiterStep
    <2>1. /\ waiter' \in {"idle", "copied", "blocked", "woken", "returned", "stuck"}
          /\ UNCHANGED <<fileVars, handlerVars, diskVars, rowVars, now, waitFor, races, todo>>
      <3>1. CASE WaitCheck
        BY Zenon, <1>1, <3>1 DEF WaitCheck, TypeOK
      <3>2. CASE WaitBlock
        BY Zenon, <1>1, <3>2 DEF WaitBlock, TypeOK
      <3> QED BY Zenon, <1>3, <3>1, <3>2 DEF WaiterStep
    <2>2. TypeOK'
      BY <1>1, <2>1 DEF TypeOK, fileVars, handlerVars, diskVars, rowVars
    <2> QED BY Zenon, <2>1, <2>2, QuietKeeps DEF fileVars, handlerVars, rowVars
  <1>4. CASE Maintenance
    <2>1. /\ UNCHANGED <<fileVars, handlerVars, lastWrite, now, waitVars, races, todo>>
          /\ partMtime' \in {partMtime, now} /\ row' \in {row, "none"}
          /\ rowBytes' \in {rowBytes, offset} /\ rowUpdated' \in {rowUpdated, now}
      BY Zenon, <1>4 DEF Maintenance, UpdateAllTransfers, ExpireOldTransfers, StatusKept,
         rowVars
    <2>2. part' \in BOOLEAN
      BY Zenon, <1>4 DEF Maintenance
    <2>3. TypeOK'
      BY <1>1, <2>1, <2>2 DEF TypeOK, fileVars, handlerVars, waitVars
    <2> QED BY Zenon, <2>1, <2>3, QuietKeeps DEF fileVars, handlerVars
  <1>5. CASE UNCHANGED vars
    <2>1. UNCHANGED <<fileVars, handlerVars, diskVars, rowVars, now, waitVars, races, todo>>
      BY Zenon, <1>5 DEF vars
    <2>2. TypeOK'
      BY <1>1, <2>1 DEF TypeOK, fileVars, handlerVars, diskVars, rowVars, waitVars
    <2> QED BY Zenon, <2>1, <2>2, QuietKeeps DEF fileVars, handlerVars, rowVars
  <1> QED BY Zenon, <1>2, <1>3, <1>4, <1>5

\* Nothing has happened yet.
LEMMA InitInv ==
    ASSUME ConstantsAssumption, Init
    PROVE  Inv
  <1>1. todo[App] = << >> /\ todo[Worker] = << >> /\ App \in Threads /\ Worker \in Threads
    BY Zenon DEF Init, Threads
  <1>2. << >> \in Seq(Pieces)
    OBVIOUS
  <1>3. StacksOK
    BY Zenon, <1>1, <1>2 DEF Init, StacksOK, AppStacks, WorkerStacks
  <1>4. AppAt = "idle" /\ WorkerAt = "idle"
    BY Zenon, <1>1, Places DEF AppAt, WorkerAt
  <1>5. TypeOK
    <2>1. races \in BOOLEAN
      BY Zenon DEF Init, ConstantsAssumption
    <2>2. 0 \in 0..Size /\ 0 \in 0..MaxTime /\ 0 \in -1..Size /\ 0 \in Nat
      BY DEF ConstantsAssumption
    <2>3. FALSE \in BOOLEAN
      OBVIOUS
    <2> QED BY Zenon, <1>3, <2>1, <2>2, <2>3 DEF Init, TypeOK, StacksOK
  <1>6. OrderOK
    BY Zenon, <1>4 DEF OrderOK, InWrite, InClose, InEnd, Init
  <1>7. CountsOK /\ TruthOK
    BY <1>4 DEF CountsOK, TruthOK, Subs, One, Subtracts, Counts, Judged, Init
  <1>8. PhaseOK
    BY Zenon, <1>4 DEF PhaseOK, RaceOK, Running, Final, InWrite, InClose, InEnd, Init
  <1> QED BY Zenon, <1>3, <1>5, <1>6, <1>7, <1>8 DEF Inv

\* The invariant is inductive: one lemma per step of the threads.
LEMMA NextInv ==
    ASSUME Inv, ConstantsAssumption, [Next]_vars
    PROVE  Inv'
  <1>0. StacksOK
    BY Zenon DEF Inv
  <1>1. CASE Open
    <2>1. UNCHANGED todo
      BY Zenon, <1>1 DEF Open
    <2> QED BY Zenon, <1>0, <1>1, <2>1, Stays, OpenKeeps
  <1>2. CASE Write
    BY Zenon, <1>0, <1>2, AppSteps, WriteKeeps
  <1>3. CASE Close
    <2>1. races \/ WorkerAt = "idle"
      BY Zenon, <1>0, <1>3, PlaceSets DEF Close
    <2> QED BY Zenon, <1>0, <1>3, <2>1, AppSteps, CloseKeeps
  <1>4. CASE Destroy
    <2>1. UNCHANGED todo /\ todo[App] = << >> /\ (races => todo[Worker] = << >>)
      BY Zenon, <1>4 DEF Destroy
    <2>2. AppAt = "idle" /\ (races => WorkerAt = "idle")
      BY Zenon, <1>0, <2>1, PlaceSets
    <2> QED BY Zenon, <1>0, <1>4, <2>1, <2>2, Stays, DestroyKeeps
  <1>5. CASE AppStep
    <2>1. CASE WrappedWrite
      BY Zenon, <1>0, <2>1, AppSteps, WrappedWriteKeeps
    <2>2. CASE IncrementRef
      BY Zenon, <1>0, <2>2, AppSteps, IncrementRefKeeps
    <2>3. CASE SetClosed
      BY Zenon, <1>0, <2>3, AppSteps, SetClosedKeeps
    <2>4. CASE TestRef
      BY Zenon, <1>0, <2>4, AppSteps, TestRefKeeps
    <2> QED BY Zenon, <1>5, <2>1, <2>2, <2>3, <2>4 DEF AppStep
  <1>6. CASE AnswerWrite
    <2>1. races \/ ~InClose(AppAt)
      BY Zenon, <1>0, <1>6, ClosingTop DEF AnswerWrite
    <2>2. Worker \in Threads
      BY Zenon DEF Threads
    <2> QED BY Zenon, <1>0, <1>6, <2>1, <2>2, EndSteps, AnswerWriteKeeps
  <1>7. CASE UploadFails
    <2>1. UNCHANGED todo
      BY Zenon, <1>7 DEF UploadFails
    <2> QED BY Zenon, <1>0, <1>7, <2>1, Stays, UploadFailsKeeps
  <1>8. CASE AnswerClose
    <2>1. Worker \in Threads
      BY Zenon DEF Threads
    <2> QED BY Zenon, <1>0, <1>8, <2>1, EndSteps, AnswerCloseKeeps
  <1>9. ASSUME NEW t \in Threads, ThreadStep(t) PROVE Inv'
    <2>1. CASE Sub(t)
      <3>1. \/ /\ t = Worker
               /\ \/ Moves(t, "good", IF refcount = 1 THEN "last" ELSE "more")
                  \/ Moves(t, "bad", IF refcount = 1 THEN "errLast" ELSE "errMore")
            \/ /\ t = App /\ AppAt = "failed"
               /\ refcount # 1 => Moves(t, "failed", "failedErr")
        BY Zenon, <1>0, <2>1, AnswerSteps
      <3> QED BY Zenon, <2>1, <3>1, SubKeeps
    <2>2. CASE SetError(t)
      BY Zenon, <1>0, <2>2, AnswerSteps, SetErrorKeeps
    <2>3. CASE ReadClosed(t)
      BY Zenon, <1>0, <2>3, AnswerSteps, ReadClosedKeeps
    <2>4. CASE Release(t)
      BY Zenon, <1>0, <2>4, EndSteps, ReleaseKeeps
    <2>5. CASE Judge(t)
      BY Zenon, <1>0, <2>5, EndSteps, JudgeKeeps
    <2>6. CASE CloseFile(t)
      BY Zenon, <1>0, <2>6, EndSteps, CloseFileKeeps
    <2>7. CASE TestError(t)
      BY Zenon, <1>0, <2>7, EndSteps, TestErrorKeeps
    <2>8. CASE Finalize(t)
      BY Zenon, <1>0, <2>8, EndSteps, FinalizeKeeps
    <2>9. CASE ResetSelf(t)
      BY Zenon, <1>0, <2>9, EndSteps, ResetSelfKeeps
    <2>10. CASE Notify(t)
      BY Zenon, <1>0, <2>10, EndSteps, NotifyKeeps
    <2> QED BY Zenon, <1>9, <2>1, <2>2, <2>3, <2>4, <2>5, <2>6, <2>7, <2>8, <2>9, <2>10
            DEF ThreadStep
  <1>10. CASE WaiterStep \/ Tick \/ Maintenance \/ Quiescent \/ UNCHANGED vars
    BY Zenon, <1>10, OthersKeep DEF Quiescent
  <1> QED BY Zenon, <1>1, <1>2, <1>3, <1>4, <1>5, <1>6, <1>7, <1>8, <1>9, <1>10 DEF Next

\* Inv holds in every reachable state.
LEMMA AlwaysInv == Spec => []Inv
  <1>1. Init => Inv
    BY Zenon, InitInv, ConstantsAssumption
  <1>2. Inv /\ [Next]_vars => Inv'
    BY Zenon, NextInv, ConstantsAssumption
  <1> QED BY <1>1, <1>2, PTL DEF Spec

-----------------------------------------------------------------------------
(* What follows. *)

\* RefcountExact: m_refcount of the WritebackResponseHandler is the number of writes
\* that are not answered, plus the answers that have not been subtracted, minus
\* the write that has not been counted; it never goes astray, however IncrementRef
\* and the answers interleave.
THEOREM CountExact == Spec => []RefcountExact
  <1>1. Inv => RefcountExact
    <2> SUFFICES ASSUME Inv PROVE RefcountExact
      OBVIOUS
    <2>1. TypeOK /\ StacksOK /\ refcount = outstanding + Subs - One(Counts(AppAt))
      BY Zenon DEF Inv, CountsOK
    <2>2. Pending("Sub") = Subs /\ Pending("IncrementRef") = One(Counts(AppAt))
      BY Zenon, <2>1, PendingCounts, ConstantsAssumption
    <2> QED BY Zenon, <2>1, <2>2 DEF RefcountExact
  <1> QED BY <1>1, AlwaysInv, PTL

\* SuccessIsTrue: FinalizeTransfer stores SUCCESS only after every announced byte was
\* written and taken, also when Close races with the last answer; without that race the
\* upload has not failed and nothing is outstanding.
THEOREM SuccessTrue == Spec => []SuccessIsTrue
  <1>1. Inv => SuccessIsTrue
    BY Zenon DEF Inv, TruthOK, PhaseOK, Running, Ending, Ended, Final, SuccessIsTrue
  <1> QED BY <1>1, AlwaysInv, PTL

\* ReleasedOnce: without that race Shutdown of the handler runs once, after the last
\* answer; and in no case is a deleted handler in use.
THEOREM EndsOnce == Spec => []ReleasedOnce
  <1>1. Inv => ReleasedOnce
    <2> SUFFICES ASSUME Inv PROVE ReleasedOnce
      OBVIOUS
    <2>1. StacksOK /\ PhaseOK
      BY Zenon DEF Inv
    <2>2. ~races => MappedWhileRead /\ releases <= 1
      BY <2>1 DEF PhaseOK, Running, Ending, EndPending, EndedBy, Ended, MappedWhileRead
    <2>3. NoUseAfterFree
      <3> SUFFICES ASSUME handler = "freed"
                   PROVE  \A t \in Threads : \A i \in DOMAIN todo[t] : todo[t][i].do = "Notify"
        BY Zenon DEF NoUseAfterFree
      <3>1. AppAt \in {"idle", "notify"} /\ WorkerAt \in {"idle", "notify"}
        BY Zenon, <2>1 DEF PhaseOK, RaceOK, Running, Ending, Ended
      <3>2. \A t \in Threads : todo[t] = << >> \/ todo[t] = AtNotify
        BY Zenon, <2>1, <3>1, PlaceSets DEF Threads
      <3>3. \A i \in DOMAIN AtNotify : AtNotify[i].do = "Notify"
        BY DEF AtNotify, Just, Piece
      <3>4. DOMAIN << >> = {}
        OBVIOUS
      <3> QED BY Zenon, <3>2, <3>3, <3>4
    <2> QED BY Zenon, <2>2, <2>3 DEF ReleasedOnce
  <1> QED BY <1>1, AlwaysInv, PTL

\* A step never changes a result but by expiry.
LEMMA ResultStep ==
    ASSUME Inv, ConstantsAssumption, [Next]_vars, ~races, Final
    PROVE  row' \in {row, "none"}
  <1>1. StacksOK /\ OrderOK /\ PhaseOK
    BY Zenon DEF Inv
  <1>2. closed /\ AppAt \notin {"success", "failure"} /\ WorkerAt \notin {"success", "failure"}
    BY Zenon, <1>1 DEF PhaseOK, Running, Ending, EndPending, EndedBy, Ended
  <1>3. CASE Open
    BY Zenon, <1>1, <1>2, <1>3 DEF OrderOK, Open
  <1>4. ASSUME NEW t \in Threads, Finalize(t) PROVE FALSE
    BY Zenon, <1>1, <1>2, <1>4, EndSteps DEF Moves
  <1>5. CASE Maintenance
    BY Zenon, <1>5 DEF Maintenance, UpdateAllTransfers, ExpireOldTransfers, StatusKept, rowVars
  <1>6. CASE Write \/ Close \/ Destroy \/ AppStep \/ AnswerWrite \/ UploadFails \/ AnswerClose
    BY Zenon, <1>6 DEF Write, Close, Destroy, AppStep, WrappedWrite, IncrementRef, SetClosed,
       TestRef,
                       AnswerWrite, UploadFails, AnswerClose, rowVars
  <1>7. ASSUME NEW t \in Threads, ThreadStep(t), ~Finalize(t) PROVE row' = row
    BY Zenon, <1>7 DEF ThreadStep, Sub, SetError, ReadClosed, Release, Judge, CloseFile,
       TestError,
                       ResetSelf, Notify, rowVars
  <1>8. CASE WaiterStep \/ Tick \/ Quiescent \/ UNCHANGED vars
    BY Zenon, <1>8 DEF WaiterStep, WaitCheck, WaitBlock, Tick, Quiescent, vars, rowVars
  <1> QED BY Zenon, <1>3, <1>4, <1>5, <1>6, <1>7, <1>8 DEF Next

\* ResultStays: without the race, what FinalizeTransfer stored is not overwritten, neither
\* by a second end of the transfer nor by the maintenance thread.
THEOREM ResultKept == Spec => ResultStays
  <1>1. Inv /\ [Next]_vars =>
          [~races /\ row \in {"SUCCESS", "FAILED"} => row' \in {row, "none"}]_vars
    BY Zenon, ResultStep, ConstantsAssumption DEF Final
  <1> QED BY <1>1, AlwaysInv, PTL DEF Spec, ResultStays

\* The .part file of a live transfer has not been left alone for longer than its writes.
PartInv ==
    /\ lastWrite <= now /\ partMtime <= now
    /\ handler = "live" => lastWrite <= partMtime
    /\ PartKept

\* Each step keeps the .part file of a live transfer.
LEMMA PartStep ==
    ASSUME Inv, PartInv, ConstantsAssumption, [Next]_vars
    PROVE  PartInv'
  <1>1. TypeOK
    BY Zenon DEF Inv
  <1>2. CASE Open
    BY <1>1, <1>2 DEF PartInv, PartKept, Open, BeginWritebackFile, diskVars, TypeOK
  <1>3. CASE Write
    BY <1>1, <1>3 DEF PartInv, PartKept, Write, TypeOK
  <1>4. CASE Destroy
    BY Zenon, <1>1, <1>4 DEF PartInv, PartKept, Destroy, AfterDrop, diskVars
  <1>5. ASSUME NEW t \in Threads, ResetSelf(t) PROVE PartInv'
    BY Zenon, <1>1, <1>5 DEF PartInv, PartKept, ResetSelf, AfterDrop, diskVars
  <1>6. ASSUME NEW t \in Threads, Release(t) PROVE PartInv'
    BY <1>1, <1>6 DEF PartInv, PartKept, Release, TypeOK
  <1>7. CASE Tick
    BY <1>1, <1>7 DEF PartInv, PartKept, Tick, handlerVars, diskVars, TypeOK
  <1>8. CASE Maintenance
    BY <1>1, <1>8 DEF PartInv, PartKept, Maintenance, Touched, handlerVars, TypeOK,
       ConstantsAssumption
  <1>9. ASSUME UNCHANGED <<handler, releases, diskVars, now>> PROVE PartInv'
    BY Zenon, <1>9 DEF PartInv, PartKept, diskVars
  <1>10. CASE Close \/ AppStep \/ AnswerWrite \/ UploadFails \/ AnswerClose
    BY Zenon, <1>9, <1>10 DEF Close, AppStep, WrappedWrite, IncrementRef, SetClosed, TestRef,
       AnswerWrite,
                              UploadFails, AnswerClose, handlerVars
  <1>11. ASSUME NEW t \in Threads, ThreadStep(t), ~ResetSelf(t), ~Release(t) PROVE PartInv'
    BY Zenon, <1>9, <1>11 DEF ThreadStep, Sub, SetError, ReadClosed, Judge, CloseFile,
       TestError,
                              Finalize, Notify, handlerVars
  <1>12. CASE WaiterStep \/ Quiescent \/ UNCHANGED vars
    BY Zenon, <1>9, <1>12 DEF WaiterStep, WaitCheck, WaitBlock, Quiescent, vars, handlerVars
  <1> QED BY Zenon, <1>2, <1>3, <1>4, <1>5, <1>6, <1>7, <1>8, <1>10, <1>11, <1>12 DEF Next

\* PartKept: the maintenance pass touches the .part file of a live transfer before it
\* looks for old ones, and a touch or a write is never older than TouchAfter <= PartLimit.
THEOREM PartStays == Spec => []PartKept
  <1>1. Init => PartInv
    BY DEF Init, PartInv, PartKept
  <1>2. Inv /\ PartInv /\ [Next]_vars => PartInv'
    BY Zenon, PartStep, ConstantsAssumption
  <1>3. PartInv => PartKept
    BY Zenon DEF PartInv
  <1> QED BY <1>1, <1>2, <1>3, AlwaysInv, PTL DEF Spec
=============================================================================
