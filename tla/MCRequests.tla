----------------------------- MODULE MCRequests -----------------------------
(***************************************************************************)
(* Small instances, for TLC, of requests that take several callbacks: the  *)
(* retries of the Pelican plug-in, the directory calls of the S3 plug-in   *)
(* and the vector reads of the curl plug-in. They have no state in common, *)
(* so a behaviour exercises the one that focus names; the others rest.     *)
(***************************************************************************)
EXTENDS Integers, Sequences, FiniteSets, TLC

CONSTANTS
    Calls, Ways, MaxRetries, BaseDelay, MaxDelay, None,         \* Retry
    Plan, Names, Sentinels, MaxBlocks,                          \* S3Directory
    Requests, Servers, FileSize, OffMax,                        \* VectorRead
    a1, a2

VARIABLES
    focus,
    call, due, orphans, pc, cur, wake, notified, started, shutdown, stopping, retryCount,
    opened,
    sentinel, bucket, mapped, made, req,
    request, reply, arrived, rest, op, outcome

R == INSTANCE Retry
S == INSTANCE S3Directory
V == INSTANCE VectorRead

retries == <<call, due, orphans, pc, cur, wake, notified, started, shutdown, stopping,
             retryCount, opened>>
s3 == <<sentinel, bucket, mapped, made, req>>
vector == <<request, reply, arrived, rest, op, outcome>>
all == <<focus, retries, s3, vector>>

MCWays == a1 :> {"open", "stat"} @@ a2 :> {"read", "pgread"}
MCPlan == a1 :> {"list", "stat"} @@ a2 :> {"mkdir", "rmdir", "forward"}
MCSentinels == {<<>>, <<"dirsentinel">>}

\* One chunk; two that touch, in both orders; two with a gap; three, of which two
\* touch; an empty chunk at the offset of another.
Chunk(o, l) == [off |-> o, len |-> l]
MCRequests ==
    {<<Chunk(1, 2)>>, <<Chunk(0, 2), Chunk(2, 1)>>, <<Chunk(2, 2), Chunk(0, 2)>>,
     <<Chunk(1, 1), Chunk(3, 2)>>, <<Chunk(3, 1), Chunk(0, 1), Chunk(1, 2)>>,
     <<Chunk(1, 0), Chunk(1, 2)>>}

Init ==
    /\ focus \in {"retry", "s3", "vector"}
    /\ R!Init /\ (focus # "retry" => retryCount = 0 /\ call[a1].way = "open"
                                        /\ call[a2].way = "read")
    /\ S!Init /\ (focus # "s3" => sentinel = <<>> /\ bucket = {})
    /\ V!Init /\ (focus # "vector" => reply.server = "one" /\ Len(request) = 1)

Next ==
    /\ \/ focus = "retry" /\ R!Next /\ UNCHANGED <<s3, vector>>
       \/ focus = "s3" /\ S!Next /\ UNCHANGED <<retries, vector>>
       \/ focus = "vector" /\ V!Next /\ UNCHANGED <<retries, s3>>
    /\ UNCHANGED focus

\* What Retry and S3Directory are fair to is not enabled while they rest.
Spec == Init /\ [][Next]_all /\ R!Fairness /\ S!Fairness

-----------------------------------------------------------------------------
(* The properties of the components, under names of their own. *)

\* Retrying handlers: a call of the Pelican file or filesystem is answered once,
\* retried at most as often as configured, and leaves no handler or entry behind.
RetryAnsweredOnce == R!RetryAnsweredOnce

\* A call that may be retried is answered, or came too late for the retry thread;
\* RetryThread::Shutdown fires what is queued and returns.
RetryAnswers == R!EveryCallAnswered /\ R!ShutdownDrains

\* S3 directory calls answer once and truthfully, and share one filesystem handle.
S3AnswersTrue == S!S3AnswersTrue

\* Every S3 directory call is answered, or ends in the use of a deleted handler.
S3Answers == S!EveryCallAnswered

\* A vector read that succeeds has the right bytes in every buffer.
VectorRight == V!VectorRight

\* The parser of a multipart body does not depend on how the body is cut.
VectorSplitFree == V!SplitIndependent
=============================================================================
