----------------------------- MODULE CacheToken -----------------------------
(***************************************************************************)
(* The access token of the Pelican plug-in: read from a file by the        *)
(* maintenance thread and by applications (PelicanFactory.cc), and given   *)
(* to every wrapped file and HTTP filesystem (PelicanFile.cc,              *)
(* PelicanFilesystem.cc), the ones that are being made included.           *)
(*                                                                         *)
(* Critical sections of m_token_mutex and of the two m_list_mutex are      *)
(* steps, as is the reading of the token file.                             *)
(***************************************************************************)
EXTENDS Naturals, FiniteSets

CONSTANTS
    Refreshers,     \* threads in RefreshToken
    Files,          \* objects of class Pelican::File
    Hosts,          \* keys of the m_url_map of a Pelican::Filesystem
    Tokens,
    NoToken         \* the empty string

VARIABLES
    located,        \* m_token_file is set
    onDisk,         \* the token in the file
    contents,       \* m_token_contents
    refresh,        \* where each refresher is
    fileParam,      \* File::m_query_params
    fsParam,        \* Filesystem::m_query_params
    wrapped,        \* the wrapped file of each File and its token
    httpFs,         \* the HTTP filesystem of each host and its token
    overlapped,     \* two refreshes have overlapped
    manual          \* the property CacheToken was set

tvars == <<located, onDisk, contents, refresh, fileParam, fsParam, wrapped, httpFs,
           overlapped, manual>>
given == <<fileParam, fsParam, wrapped, httpFs>>

Values == Tokens \cup {NoToken}
Resting == [at |-> "out", old |-> NoToken, new |-> NoToken]
Idle(r) == refresh[r].at = "out"

\* The constructor of the factory: no token, the token of BEARER_TOKEN, or a file.
Init ==
    /\ located \in BOOLEAN /\ onDisk \in Tokens
    /\ contents \in IF located THEN {NoToken} ELSE Values
    /\ fileParam = contents /\ fsParam = contents
    /\ refresh = [r \in Refreshers |-> Resting]
    /\ wrapped = [f \in Files |-> [at |-> "none", token |-> NoToken]]
    /\ httpFs = [h \in Hosts |-> [at |-> "none", token |-> NoToken]]
    /\ overlapped = FALSE /\ manual = FALSE

\* Somebody else replaces the token in the file.
Rotate ==
    /\ onDisk' \in Tokens \ {onDisk}
    /\ UNCHANGED <<located, contents, refresh, given, overlapped, manual>>

-----------------------------------------------------------------------------
(* SetCacheToken: the new value, and everything that is in the list. *)

\* Mutant: files are updated only when the value is set for the first time.
SetFilesOnce(t) ==
    /\ fileParam' = t
    /\ wrapped' = IF fileParam # NoToken THEN wrapped
                  ELSE [f \in Files |-> IF wrapped[f].at = "none" THEN wrapped[f]
                                        ELSE [wrapped[f] EXCEPT !.token = t]]

\* File::SetCacheToken
SetFiles(t) ==
    /\ fileParam' = t
    /\ wrapped' = [f \in Files |-> IF wrapped[f].at = "none" THEN wrapped[f]
                                   ELSE [wrapped[f] EXCEPT !.token = t]]

\* Filesystem::SetCacheToken
SetFilesystems(t) ==
    /\ fsParam' = t
    /\ httpFs' = [h \in Hosts |-> IF httpFs[h].at = "mapped"
                                  THEN [httpFs[h] EXCEPT !.token = t] ELSE httpFs[h]]

\* SetProperty("CacheToken") of a File.
SetCacheToken(t) ==
    /\ SetFiles(t)
    /\ manual' = TRUE
    /\ UNCHANGED <<located, onDisk, contents, refresh, fsParam, httpFs, overlapped>>

-----------------------------------------------------------------------------
(* RefreshToken, by the maintenance thread or by SetProperty("RefreshToken"), *)
(* which also sets the location.                                              *)

Goes(r, where) == refresh' = [refresh EXCEPT ![r].at = where]

Begin(r) ==
    /\ Idle(r)
    /\ located' \in {located, TRUE}
    /\ refresh' = IF located' THEN [refresh EXCEPT ![r] = [at |-> "read", old |-> contents,
                                                           new |-> NoToken]]
                  ELSE refresh
    /\ overlapped' = (overlapped \/ \E s \in Refreshers \ {r} : ~Idle(s))
    /\ UNCHANGED <<onDisk, contents, given, manual>>

\* ReadCacheToken: a failure and an unchanged token end the refresh.
Read(r) ==
    /\ refresh[r].at = "read"
    /\ \/ Goes(r, "out")
       \/ /\ onDisk # refresh[r].old
          /\ refresh' = [refresh EXCEPT ![r].at = "files", ![r].new = onDisk]
    /\ UNCHANGED <<located, onDisk, contents, given, overlapped, manual>>

UpdateFiles(r) ==
    /\ refresh[r].at = "files"
    /\ SetFiles(refresh[r].new)
    /\ Goes(r, "filesystems")
    /\ UNCHANGED <<located, onDisk, contents, fsParam, httpFs, overlapped, manual>>

UpdateFilesystems(r) ==
    /\ refresh[r].at = "filesystems"
    /\ SetFilesystems(refresh[r].new)
    /\ Goes(r, "contents")
    /\ UNCHANGED <<located, onDisk, contents, fileParam, wrapped, overlapped, manual>>

Remember(r) ==
    /\ refresh[r].at = "contents"
    /\ contents' = refresh[r].new
    /\ Goes(r, "out")
    /\ UNCHANGED <<located, onDisk, given, overlapped, manual>>

-----------------------------------------------------------------------------
(* Files and filesystems under construction. *)

\* Open, or a retry of it: a new wrapped file, without a token; the old one is gone.
MakeWrapped(f) ==
    /\ wrapped' = [wrapped EXCEPT ![f] = [at |-> "made", token |-> NoToken]]
    /\ UNCHANGED <<located, onDisk, contents, refresh, fileParam, fsParam, httpFs,
                   overlapped, manual>>

\* Then it is given the token, under the mutex, and opened.
GiveToken(f) ==
    /\ wrapped[f].at = "made"
    /\ wrapped' = [wrapped EXCEPT ![f] = [at |-> "open", token |-> fileParam]]
    /\ UNCHANGED <<located, onDisk, contents, refresh, fileParam, fsParam, httpFs,
                   overlapped, manual>>

\* ConstructURL for a host without a filesystem: it gets the token, under the mutex ...
MakeHttpFs(h) ==
    /\ httpFs[h].at = "none"
    /\ httpFs' = [httpFs EXCEPT ![h] = [at |-> "made", token |-> fsParam]]
    /\ UNCHANGED <<located, onDisk, contents, refresh, fileParam, fsParam, wrapped,
                   overlapped, manual>>

\* ... and is then put into the map, without it.
MapHttpFs(h) ==
    /\ httpFs[h].at = "made"
    /\ httpFs' = [httpFs EXCEPT ![h].at = "mapped"]
    /\ UNCHANGED <<located, onDisk, contents, refresh, fileParam, fsParam, wrapped,
                   overlapped, manual>>

-----------------------------------------------------------------------------

Next ==
    \/ Rotate
    \/ \E t \in Values : SetCacheToken(t)
    \/ \E r \in Refreshers :
          Begin(r) \/ Read(r) \/ UpdateFiles(r) \/ UpdateFilesystems(r) \/ Remember(r)
    \/ \E f \in Files : MakeWrapped(f) \/ GiveToken(f)
    \/ \E h \in Hosts : MakeHttpFs(h) \/ MapHttpFs(h)

Spec == Init /\ [][Next]_tvars

-----------------------------------------------------------------------------
(* Properties. *)

\* A file that is open has the token the plug-in uses, however its Open, its retries,
\* refreshes and CacheToken interleave; and a refresh that is over leaves files,
\* filesystems and m_token_contents with one token, unless another one overlapped it
\* or CacheToken overrode it.
TokensAgree ==
    /\ \A f \in Files : wrapped[f].at = "open" => wrapped[f].token = fileParam
    /\ (\A r \in Refreshers : Idle(r)) /\ ~overlapped /\ ~manual =>
          fileParam = contents /\ fsParam = contents

\* The same without regard to overlapping refreshes.
RefreshesAgree ==
    (\A r \in Refreshers : Idle(r)) /\ ~manual => fileParam = contents /\ fsParam = contents

\* An HTTP filesystem that requests use has the token of the plug-in.
FilesystemsAgree == \A h \in Hosts : httpFs[h].at = "mapped" => httpFs[h].token = fsParam
=============================================================================
