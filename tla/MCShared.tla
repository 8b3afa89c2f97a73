------------------------------ MODULE MCShared ------------------------------
(***************************************************************************)
(* Small instances, for TLC, of what all files and filesystems share: the  *)
(* director cache, the federation metadata, the checksum cache and the     *)
(* access token of the Pelican plug-in, and the request queue of the curl  *)
(* plug-in with its scheduler.  They have no state in common, so that a    *)
(* behaviour exercises the one that focus names; the others rest.  The     *)
(* director cache is the one whose definitions keep their names.           *)
(***************************************************************************)
EXTENDS DirectorCache

CONSTANTS
    Clients, MaxLifetime, DiscardTime, NegativeTime,            \* FedInfo
    StaleTime, RefreshPeriod, LookupTime,
    Askers, Types, ChecksumLifetime,                            \* ChecksumCache
    Refreshers, Files, Hosts, Tokens, NoToken,                  \* CacheToken
    Ops, Workers, Buffers, OpsSettings, DefaultMaxOps,          \* SchedulerQueue
    LargestMaxOps,
    o1, o2, c1, c2, f1, h1, t1, t2, md5, crc

VARIABLES
    focus,
    info, asking, served, refresher, skipped,
    centry, cmap, asker, told,
    located, onDisk, contents, refresh, fileParam, fsParam, wrapped, httpFs, overlapped, manual,
    buffer, maxOps, attached, closed, scheduled, fifo, pipe, queueDown, prod,
    at, holds, removed, stop, monitor, factory, pool

F == INSTANCE FedInfo
C == INSTANCE ChecksumCache WITH Lifetime <- ChecksumLifetime
T == INSTANCE CacheToken
Q == INSTANCE SchedulerQueue

\* What the proofs assume of the constants of a component holds of this instance.
ASSUME ComponentConstants ==
    /\ ConstantsOK /\ F!ConstantsOK /\ C!ConstantsOK /\ Q!ConstantsOK

federation == <<info, asking, served, refresher, skipped>>
checksum == <<centry, cmap, asker, told>>
token == <<located, onDisk, contents, refresh, fileParam, fsParam, wrapped, httpFs,
           overlapped, manual>>
queue == <<buffer, maxOps, attached, closed, scheduled, fifo, pipe, queueDown, prod,
           at, holds, removed, stop, monitor, factory, pool>>
all == <<focus, dvars, federation, checksum, token, queue>>

\* Two objects with a common prefix.
MCObjects == {<<1, 2>>, <<1, 3>>}

SharedInit ==
    /\ focus \in {"director", "federation", "checksum", "token", "queue"}
    /\ Init /\ F!Init /\ C!Init /\ T!Init /\ Q!Init
    /\ focus # "token" => ~located /\ onDisk = t1 /\ contents = NoToken

SharedNext ==
    /\ \/ focus = "director" /\ Next /\ UNCHANGED <<federation, checksum, token, queue>>
       \/ focus = "federation" /\ F!Next /\ UNCHANGED <<dvars, checksum, token, queue>>
       \/ focus = "checksum" /\ C!Next /\ UNCHANGED <<dvars, federation, token, queue>>
       \/ focus = "token" /\ T!Next /\ UNCHANGED <<dvars, federation, checksum, queue>>
       \/ focus = "queue" /\ Q!Next /\ UNCHANGED <<dvars, federation, checksum, token>>
    /\ UNCHANGED focus

\* The fairness of FedInfo and of SchedulerQueue: every thread of the latter runs.
\* Nothing is asked of the others.
Fairness ==
    /\ WF_federation(focus = "federation" /\ F!Tick)
    /\ SF_federation(focus = "federation" /\ F!Scan)
    /\ WF_federation(focus = "federation" /\ F!Apply)
    /\ \A c \in Clients : WF_federation(focus = "federation" /\ F!GetLooked(c))
    /\ \A w \in Workers : WF_queue(focus = "queue" /\ Q!WorkerStep(w))
    /\ WF_queue(focus = "queue" /\ Q!Monitor)
    /\ WF_queue(focus = "queue" /\ Q!ExitStep)

SharedSpec == SharedInit /\ [][SharedNext]_all /\ Fairness

-----------------------------------------------------------------------------
(* The properties of the other components, under their own names. *)

\* The federation metadata a client is given has not outlived its lifetime, whatever the
\* refresh thread does meanwhile.
ServedFresh == F!ServedFresh

\* A failed look-up of the federation metadata is not remembered for ever.
NegativeEnds == F!NegativeEnds

\* A checksum the cache gives out is not older than its lifetime allows.
NoStaleChecksum == C!NoStaleChecksum

\* Open files hold the plug-in's token, and refreshes that do not overlap leave one
\* token everywhere.
TokensAgree == T!TokensAgree

\* A waiting operation always has its byte in the pipe, or a producer about to write it.
WorkVisible == Q!WorkVisible

\* The destructors that end the threads of the curl plug-in return.
ExitEnds == Q!ExitEnds
=============================================================================
