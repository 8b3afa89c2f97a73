----------------------------- MODULE S3Directory -----------------------------
(***************************************************************************)
(* The S3 plug-in: directories emulated on the keys of a bucket, by calls  *)
(* that chain requests to the curl plug-in from callback to callback       *)
(* (XrdClS3Filesystem.cc, XrdClS3DownloadHandler.cc).                      *)
(*                                                                         *)
(* One emulated directory; its keys are abstract names. A call of the      *)
(* curl plug-in is refused, or accepted and answered later; each callback  *)
(* is a step. A block is kReadSize bytes or less.                          *)
(***************************************************************************)
EXTENDS Naturals, Sequences, FiniteSets

CONSTANTS
    Calls,          \* calls of the application, made once each
    Plan,           \* the kinds of call each of them may be
    Names,          \* objects other clients keep in the directory
    Sentinels,      \* values of the option XrdClS3MkdirSentinel, as their pieces; <<>> is empty
    MaxBlocks       \* bound: blocks in the body of a listing

VARIABLES
    sentinel,       \* the option, which a run of the program does not change
    bucket,         \* the keys in the directory
    mapped,         \* m_handles has the FileSystem of the endpoint
    made,           \* FileSystem objects made for it and kept
    req             \* the calls

svars == <<sentinel, bucket, mapped, made, req>>

Key(s) == IF s = <<>> THEN {} ELSE {s[Len(s)]}
Page == [keys |-> {}, truncated |-> FALSE, valid |-> TRUE]

\* at: what the call waits for. told, said: how often and what the caller was told.
\* size, cursor: blocks of the body, and those in the buffer. bad: m_read_status.
\* freed: the DirListResponseHandler of the download has been deleted.
Fresh == [kind |-> "none", at |-> "idle", expired |-> FALSE, told |-> 0, said |-> "none",
          page |-> Page, size |-> 0, cursor |-> 0, bad |-> FALSE, found |-> FALSE,
          entries |-> {}, freed |-> FALSE]

Init ==
    /\ sentinel \in Sentinels
    /\ bucket \in SUBSET (Names \cup Key(sentinel))
    /\ mapped = FALSE /\ made = 0
    /\ req = [c \in Calls |-> Fresh]

Told(x, what) == [x EXCEPT !.told = @ + 1, !.said = what]
Done(x, what) == [Told(x, what) EXCEPT !.at = "done"]
Moves(c, X) == \E x \in X : req' = [req EXCEPT ![c] = x]

-----------------------------------------------------------------------------
(* The service and the clock. *)

\* Other clients store and delete objects.
OtherClient ==
    /\ \E n \in Names : bucket' \in {bucket \cup {n}, bucket \ {n}} \ {bucket}
    /\ UNCHANGED <<sentinel, mapped, made, req>>

\* The clock is read in the callbacks of these requests.
Expire(c) ==
    /\ req[c].at \in {"open", "read", "close", "mkopen"} /\ ~req[c].expired
    /\ req' = [req EXCEPT ![c].expired = TRUE]
    /\ UNCHANGED <<sentinel, bucket, mapped, made>>

-----------------------------------------------------------------------------
(* Starting calls. A refused request is the return value of the call. *)

\* DownloadUrl: both of its Open calls may be refused.
DownloadUrl(x, refused) == {refused, [x EXCEPT !.at = "open", !.cursor = 0, !.bad = FALSE]}

DirList(c) ==
    /\ req[c].at = "idle" /\ "list" \in Plan[c]
    /\ Moves(c, LET x == [req[c] EXCEPT !.kind = "list"] IN DownloadUrl(x, Done(x, "refused")))
    /\ UNCHANGED <<sentinel, bucket, mapped, made>>

\* Stat, and Locate, Query, Rm, RmDir: GetFSHandle under the shared lock ...
WithHandle(c) ==
    /\ req[c].at = "idle"
    /\ \E k \in Plan[c] \cap ({"stat", "forward"} \cup IF sentinel = <<>> THEN {} ELSE {"rmdir"}) :
          req' = [req EXCEPT ![c].kind = k, ![c].at = IF mapped THEN "issue" ELSE "make"]
    /\ UNCHANGED <<sentinel, bucket, mapped, made>>

\* ... and, if it was not there, under the exclusive one. SetProperty may fail.
MakeHandle(c) ==
    /\ req[c].at = "make"
    /\ \/ /\ mapped' = TRUE /\ made' = IF mapped THEN made ELSE made + 1
          /\ req' = [req EXCEPT ![c].at = "issue"]
       \/ /\ ~mapped /\ req' = [req EXCEPT ![c] = Done(@, "refused")]
          /\ UNCHANGED <<mapped, made>>
    /\ UNCHANGED <<sentinel, bucket>>

Issue(c) ==
    /\ req[c].at = "issue"
    /\ Moves(c, {Done(req[c], "refused"), [req[c] EXCEPT !.at = req[c].kind]})
    /\ UNCHANGED <<sentinel, bucket, mapped, made>>

\* Without a sentinel directories need not be made or removed.
NoSentinel(c) ==
    /\ req[c].at = "idle" /\ sentinel = <<>>
    /\ \E k \in Plan[c] \cap {"mkdir", "rmdir"} : req' = [req EXCEPT ![c] = Done([@ EXCEPT !.kind = k], "ok")]
    /\ UNCHANGED <<sentinel, bucket, mapped, made>>

MkDir(c) ==
    /\ req[c].at = "idle" /\ sentinel # <<>> /\ "mkdir" \in Plan[c]
    /\ Moves(c, LET x == [req[c] EXCEPT !.kind = "mkdir"]
                IN  {Done(x, "refused"), [x EXCEPT !.at = "mkopen"]})
    /\ UNCHANGED <<sentinel, bucket, mapped, made>>

-----------------------------------------------------------------------------
(* DirListResponseHandler::HandleResponse, of DirList and of the existence   *)
(* check of Stat (StatHandlerDirectory passes its answer on).                *)

\* The part of the key from its last slash is compared with the option.
IsSentinel(k) == <<"/", k>> = sentinel

\* A truncated listing is continued by the handler itself, which is deleted on return,
\* and after an answer if the time is up.
Listed(x, ok) ==
    LET y == [x EXCEPT !.found = \E k \in x.page.keys : IsSentinel(k),
                       !.entries = @ \cup {k \in x.page.keys : ~IsSentinel(k)}]
        any == y.entries # {} \/ y.found
        z == IF x.expired THEN Told(y, "expired") ELSE y
    IN  IF x.freed THEN {[x EXCEPT !.at = "undefined"]}
        ELSE IF ~ok \/ ~x.page.valid THEN {Done(x, "error")}
        ELSE IF ~x.page.truncated \/ (x.kind = "stat" /\ any)
        THEN {Done(y, IF any THEN "ok" ELSE "notfound")}
        ELSE {[w EXCEPT !.freed = TRUE] : w \in DownloadUrl(z, Done(z, "error"))}

-----------------------------------------------------------------------------
(* S3DownloadHandler. *)

\* Mutant: a close that is refused tells nobody.
CloseSilent(x, bad) == {[x EXCEPT !.at = "close", !.bad = bad], [x EXCEPT !.at = "dropped"]}

\* Close, from a read that failed, ended or was refused.
Close(x, bad) == {[x EXCEPT !.at = "close", !.bad = bad]} \cup Listed(x, FALSE)

\* The listing is what the bucket holds when the server opens it: all or a page of it.
Pages == {[keys |-> ks, truncated |-> ks # bucket, valid |-> TRUE] : ks \in SUBSET bucket}
            \cup {[Page EXCEPT !.valid = FALSE]}

RespondOpen(c) ==
    /\ req[c].at = "open"
    /\ \/ Moves(c, Listed(req[c], FALSE))
       \/ /\ ~req[c].expired
          /\ \E p \in Pages, n \in 1 .. MaxBlocks :
                LET x == [req[c] EXCEPT !.size = n, !.page = p]
                IN  Moves(c, {[x EXCEPT !.at = "read"]} \cup Close(x, TRUE))
    /\ UNCHANGED <<sentinel, bucket, mapped, made>>

\* Mutant: when the next read is refused the file is closed as after the last one.
ReadOnPartial(x) == {[x EXCEPT !.cursor = @ + 1]} \cup Close([x EXCEPT !.cursor = @ + 1], FALSE)

\* A block has arrived; the next read is accepted or refused.
ReadOn(x) == {[x EXCEPT !.cursor = @ + 1]} \cup Close([x EXCEPT !.cursor = @ + 1], TRUE)

\* ReadHandler: expired, failed (or without a chunk), the end of the file, or a block.
RespondRead(c) ==
    /\ req[c].at = "read"
    /\ \E ok \in BOOLEAN :
          Moves(c, IF req[c].expired THEN Listed(req[c], FALSE)
                   ELSE IF ~ok THEN Close(req[c], TRUE)
                   ELSE IF req[c].cursor = req[c].size THEN Close(req[c], FALSE)
                   ELSE ReadOn(req[c]))
    /\ UNCHANGED <<sentinel, bucket, mapped, made>>

\* CloseHandler: an earlier error goes before the status of the close.
RespondClose(c) ==
    /\ req[c].at = "close"
    /\ \E ok \in BOOLEAN : Moves(c, Listed(req[c], ok /\ ~req[c].bad))
    /\ UNCHANGED <<sentinel, bucket, mapped, made>>

-----------------------------------------------------------------------------
(* The other callbacks. *)

\* StatHandler: what is not an object may be a directory.
RespondStat(c) ==
    /\ req[c].at = "stat"
    /\ \E r \in {"ok", "error", "notfound"} :
          Moves(c, IF r # "notfound" THEN {Done([req[c] EXCEPT !.kind = "forward"], r)}
                   ELSE DownloadUrl(req[c], Done(req[c], "error")))
    /\ UNCHANGED <<sentinel, bucket, mapped, made>>

\* Handlers that are passed through. A RmDir removes the sentinel.
RespondForward(c) ==
    /\ req[c].at \in {"forward", "rmdir"}
    /\ \E r \in {"ok", "error"} :
          /\ req' = [req EXCEPT ![c] = Done(@, r)]
          /\ bucket' = IF r = "ok" /\ req[c].kind = "rmdir" THEN bucket \ Key(sentinel) ELSE bucket
    /\ UNCHANGED <<sentinel, mapped, made>>

\* MkdirHandler after the open: a call that is out of time is answered and goes on all
\* the same; one whose close is refused is answered with the status of the open.
RespondMkOpen(c) ==
    /\ req[c].at = "mkopen"
    /\ LET y == IF req[c].expired THEN Told(req[c], "expired") ELSE req[c]
       IN  Moves(c, {Done(req[c], "error"), Done(y, "ok"), [y EXCEPT !.at = "mkclose"]})
    /\ UNCHANGED <<sentinel, bucket, mapped, made>>

\* MkdirHandler after the close, which stores the sentinel.
RespondMkClose(c) ==
    /\ req[c].at = "mkclose"
    /\ \E r \in {"ok", "error"} :
          /\ req' = [req EXCEPT ![c] = Done(@, r)]
          /\ bucket' = IF r = "ok" THEN bucket \cup Key(sentinel) ELSE bucket
    /\ UNCHANGED <<sentinel, mapped, made>>

-----------------------------------------------------------------------------

Start(c) == DirList(c) \/ WithHandle(c) \/ NoSentinel(c) \/ MkDir(c)
Step(c) == MakeHandle(c) \/ Issue(c)
Respond(c) == RespondOpen(c) \/ RespondRead(c) \/ RespondClose(c) \/ RespondStat(c)
                \/ RespondForward(c) \/ RespondMkOpen(c) \/ RespondMkClose(c)

Next ==
    \/ OtherClient
    \/ \E c \in Calls : Expire(c) \/ Start(c) \/ Step(c) \/ Respond(c)

\* The curl plug-in answers what it accepts, and a call in progress runs on.
Fairness == \A c \in Calls : WF_svars(Step(c) \/ Respond(c))
Spec == Init /\ [][Next]_svars /\ Fairness

-----------------------------------------------------------------------------
(* Properties. *)

\* The cases in which the code does not keep count of its answers: further pages of a
\* listing, and a MkDir that runs out of time before its open is answered.
OffTrack(x) == x.freed \/ (x.kind = "mkdir" /\ x.expired)

\* A call is answered at most once, whichever of its requests are refused, fail or run
\* out of time; a listing that is a success was read to its end and is what the server
\* sent; and there is one FileSystem per endpoint, whoever asks first.
S3AnswersTrue ==
    /\ made <= 1
    /\ \A c \in Calls : LET x == req[c] IN
          /\ x.told <= 1 \/ OffTrack(x)
          /\ x.said = "ok" /\ x.kind = "list" =>
                ~x.bad /\ x.cursor = x.size /\ x.page.keys \subseteq x.entries \cup
                    {k \in x.page.keys : IsSentinel(k)}
          /\ x.said = "ok" /\ x.kind = "stat" => x.cursor = x.size /\ x.page.keys # {}

\* Every call comes to an answer, or to the use of a deleted handler.
EveryCallAnswered ==
    \A c \in Calls : req[c].at # "idle" ~> (req[c].told > 0 \/ req[c].at = "undefined")

\* A sentinel object does not show up in directory listings.
SentinelHidden ==
    \A c \in Calls : req[c].said = "ok" /\ req[c].kind = "list" => Key(sentinel) \cap req[c].entries = {}

\* A continued listing calls a handler that still exists.
HandlerKept == \A c \in Calls : req[c].at # "undefined"
=============================================================================
