----------------------------- MODULE VectorRead -----------------------------
(***************************************************************************)
(* CurlVectorReadOp (XrdClCurlOpReadV.cc): the ranges of one request, and  *)
(* the parser that copies the body of the answer, in whatever pieces curl  *)
(* delivers it, into the buffers of the requested chunks.                  *)
(*                                                                         *)
(* A body is a sequence of symbols <<kind, first, last>>: a byte of the    *)
(* file, by its offset, or a piece of the text of a part's lines.          *)
(***************************************************************************)
EXTENDS Integers, Sequences, FiniteSets, FiniteSetsExt, SequencesExt

CONSTANTS
    Requests,       \* the chunk lists asked for: sequences of [off, len]
    Servers,        \* the ways of answering that are explored
    FileSize,       \* bytes in the remote file
    OffMax          \* numeric_limits<off_t>::max(), more than any body is long

VARIABLES
    request,        \* the chunk list of the caller
    reply,          \* the status line, the headers, and what the server is
    arrived,        \* the part of the body delivered so far
    rest,           \* the part that is not
    op,             \* the members of the CurlVectorReadOp
    outcome         \* the answer to the caller

vvars == <<request, reply, arrived, rest, op, outcome>>

-----------------------------------------------------------------------------
(* What servers send. *)

Sym(k) == <<k, 0, 0>>
Byte(o) == <<"byte", o, 0>>
CRLF == <<Sym("CR"), Sym("LF")>>
Separator == <<Sym("--"), Sym("boundary")>>
Bytes(first, last) == [i \in 1 .. last - first + 1 |-> Byte(first + i - 1)]

\* One part: the boundary, two header lines, an empty line and the payload. An
\* additional empty line precedes the boundary, as in the answers of XRootD.
Part(p, header) ==
    CRLF \o Separator \o CRLF \o <<Sym("type")>> \o CRLF \o <<<<header, p.first, p.last>>>>
         \o CRLF \o CRLF \o Bytes(p.first, p.last)

Multipart(parts, header) ==
    FoldLeft(LAMBDA body, p : body \o Part(p, header), <<>>, parts)
        \o CRLF \o Separator \o <<Sym("--")>> \o CRLF

\* Setup: the ranges of the chunks that are not empty.
Ranges(req) == {[first |-> req[i].off, last |-> req[i].off + req[i].len - 1] :
                i \in {j \in DOMAIN req : req[j].len > 0}}

\* The ranges with some that touch each other joined into one.
Joined(S) == [first |-> Min({r.first : r \in S}), last |-> Max({r.last : r \in S})]
Adjoining(S) ==
    Cardinality(S) > 1 /\ \A n \in Joined(S).first .. Joined(S).last :
        Cardinality({r \in S : n \in r.first .. r.last}) = 1
Groupings(S) == {S} \cup {(S \ J) \cup {Joined(J)} : J \in {T \in SUBSET S : Adjoining(T)}}

Answer(status, offset, body, server) ==
    [status |-> status, multipart |-> offset = -1, offset |-> offset, body |-> body,
     server |-> server]

Answers(req, server) ==
    CASE server = "parts" ->        \* every range once, in any order, some joined
            {Answer(206, -1, Multipart(p, "range"), server) :
                p \in UNION {SetToSeqs(G) : G \in Groupings(Ranges(req))}}
      [] server = "one" ->          \* a single range needs no multipart
            {Answer(206, r.first, Bytes(r.first, r.last), server) :
                r \in {s \in Ranges(req) : Cardinality(Ranges(req)) = 1}}
      [] server = "malformed" ->    \* the header of a part is not a usable Content-Range
            {Answer(206, -1, Multipart(SetToSeq(Ranges(req)), h), server) :
                h \in {"type", "nocolon", "badrange"}}
      [] server = "error" -> {Answer(500, 0, Bytes(0, 0), server)}
      [] server = "whole" ->        \* Range is ignored: the whole file
            {Answer(200, 0, Bytes(0, FileSize - 1), server)}
      [] server = "short" ->        \* the first range comes in two parts
            {Answer(206, -1, Multipart(<<[r EXCEPT !.last = r.first],
                                         [r EXCEPT !.first = r.first + 1]>>, "range"), server) :
                r \in {s \in Ranges(req) : Cardinality(Ranges(req)) = 1 /\ s.last > s.first}}

-----------------------------------------------------------------------------
(* The operation. Indices of the chunk list start at 0, as in the code. *)

\* The constructor. A chunk keeps where its buffer is: request number and index.
NewOp(req) ==
    [chunks |-> [i \in DOMAIN req |-> [off |-> req[i].off, len |-> req[i].len,
                                       req |-> i, at |-> 0]],
     memory |-> [i \in DOMAIN req |-> [j \in 1 .. req[i].len |-> Sym("none")]],
     response_idx |-> 0, buffer_idx |-> 0, skip |-> 0, partial |-> <<>>,
     boundary |-> TRUE, first |-> -1, len |-> -1, vr |-> <<>>, failed |-> FALSE]

\* FailCallback
Failed(o) == [o EXCEPT !.failed = TRUE]

\* A chunk of the result: where the caller finds how many bytes of which offset.
Entry(off, len, c) == [off |-> off, len |-> len, req |-> c.req, at |-> c.at]

\* Mutant: the search does not stop at a match; the last chunk not behind the response
\* is taken.
LastBuffer(o) ==
    LET n == Len(o.chunks)
        Skips(i) == o.chunks[i + 1].off - o.first
        ahead == {i \in 0 .. n - 1 : Skips(i) >= 0}
        best == Max(ahead)
    IN  IF ahead = {} THEN [o EXCEPT !.buffer_idx = 0, !.skip = OffMax]
        ELSE [o EXCEPT !.response_idx = best, !.buffer_idx = 0, !.skip = Skips(best)]

\* The chunk that starts where the response does or, failing that, the nearest one
\* after it; searched from the current chunk round the list.
CalculateNextBuffer(o) ==
    LET n == Len(o.chunks)
        Index(ctr) == (o.response_idx + ctr) % n
        Skips(ctr) == o.chunks[Index(ctr) + 1].off - o.first
        ahead == {c \in 0 .. n - 1 : Skips(c) >= 0}
        best == CHOOSE c \in ahead : \A d \in ahead :
                    Skips(c) < Skips(d) \/ (Skips(c) = Skips(d) /\ c <= d)
    IN  IF ahead = {} THEN [o EXCEPT !.buffer_idx = 0, !.skip = OffMax]
        ELSE [o EXCEPT !.response_idx = Index(best), !.buffer_idx = 0, !.skip = Skips(best)]

InPayload(o) == o.boundary /\ o.first # -1 /\ o.len # -1
SeqPrefix(s, n) == SubSeq(s, 1, n)
SeqFrom(s, n) == SubSeq(s, n + 1, Len(s))

\* One turn of the loop inside a payload: n symbols go into the current chunk; then
\* that chunk or the part may be complete. The rest of a chunk whose part is short
\* becomes a new chunk; its insertion invalidates the reference `chunk`, read again
\* for the entry (fresh: the memory still holds the old value).
Copy(o, b, n, fresh) ==
    LET c == o.chunks[o.response_idx + 1]
        filled == o.buffer_idx + n
        mem == [o.memory EXCEPT ![c.req] =
                   [j \in DOMAIN @ |-> IF j - c.at - o.buffer_idx \in 1 .. n
                                       THEN b[j - c.at - o.buffer_idx] ELSE @[j]]]
        p == [o EXCEPT !.memory = mem, !.buffer_idx = filled]
        Given(off) == [p EXCEPT !.vr = Append(@, Entry(off, filled, c)),
                                !.buffer_idx = 0, !.response_idx = @ + 1]
    IN  IF filled = c.len
        THEN IF o.len = c.len THEN [Given(c.off) EXCEPT !.first = -1, !.len = -1]
             ELSE CalculateNextBuffer([Given(c.off) EXCEPT !.first = @ + c.len,
                                                           !.len = @ - c.len])
        ELSE IF o.len = filled
        THEN [Given(IF fresh THEN c.off ELSE OffMax) EXCEPT !.first = -1, !.len = -1,
                !.chunks = Append(@, [off |-> c.off + filled, len |-> c.len - filled,
                                      req |-> c.req, at |-> c.at + filled])]
        ELSE p

\* Mutant: a CR at the end of one piece is not joined with the LF of the next.
GetLineUnjoined(o, b) ==
    LET ends == {i \in 1 .. Len(b) - 1 : SubSeq(b, i, i + 1) = CRLF}
        pos == Min(ends)
    IN  IF ends = {} THEN [ok |-> FALSE, line |-> <<>>, b |-> <<>>,
                           o |-> [o EXCEPT !.partial = @ \o b]]
        ELSE [ok |-> TRUE, line |-> o.partial \o SeqPrefix(b, pos - 1), b |-> SeqFrom(b, pos + 1),
              o |-> [o EXCEPT !.partial = <<>>]]

\* get_next_line: a line may be continued from earlier pieces, its CR included.
GetNextLine(o, b) ==
    LET ends == {i \in 1 .. Len(b) - 1 : SubSeq(b, i, i + 1) = CRLF}
        pos == Min(ends)
    IN  IF o.partial # <<>> /\ Last(o.partial) = Sym("CR") /\ b # <<>> /\ Head(b) = Sym("LF")
        THEN [ok |-> TRUE, line |-> Front(o.partial), b |-> Tail(b),
              o |-> [o EXCEPT !.partial = <<>>]]
        ELSE IF ends = {} THEN [ok |-> FALSE, line |-> <<>>, b |-> <<>>,
                                o |-> [o EXCEPT !.partial = @ \o b]]
        ELSE [ok |-> TRUE, line |-> o.partial \o SeqPrefix(b, pos - 1), b |-> SeqFrom(b, pos + 1),
              o |-> [o EXCEPT !.partial = <<>>]]

\* A line of a part's headers: without colon, not Content-Range, unusable, or the range.
HeaderLine(o, line) ==
    LET h == Head(line)
    IN  CASE h[1] = "type" -> o
          [] h[1] = "range" /\ h[3] + 1 >= h[2] ->
                CalculateNextBuffer([o EXCEPT !.first = h[2], !.len = h[3] + 1 - h[2]])
          [] OTHER -> Failed(o)

RECURSIVE Parse(_, _, _), Boundary(_, _, _), Headers(_, _, _)

\* The outer loop of Write.
Parse(o, b, fresh) ==
    IF b = <<>> THEN o
    ELSE IF ~InPayload(o) THEN Boundary(o, b, fresh)
    ELSE IF o.skip > 0
    THEN LET n == Min({o.skip, Len(b)})
         IN  Parse([o EXCEPT !.skip = @ - n], SeqFrom(b, n), fresh)
    ELSE LET n == Min({o.chunks[o.response_idx + 1].len - o.buffer_idx, Len(b)})
             p == Copy(o, b, n, fresh)
         IN  IF InPayload(p) THEN Parse(p, SeqFrom(b, n), fresh)
             ELSE Boundary(p, SeqFrom(b, n), fresh)

\* The boundary line, unless an earlier Write has consumed it.
Boundary(o, b, fresh) ==
    LET l == GetNextLine(o, b)
    IN  IF ~o.boundary THEN Headers(o, b, fresh)
        ELSE IF ~l.ok THEN l.o
        ELSE IF l.line = <<>> THEN Boundary(l.o, l.b, fresh)
        ELSE IF l.line = Separator THEN Headers(l.o, l.b, fresh)
        ELSE IF l.line = Append(Separator, Sym("--")) THEN l.o
        ELSE Failed(l.o)

\* The header lines; after the empty one the payload follows.
Headers(o, b, fresh) ==
    LET l == GetNextLine(o, b)
        p == HeaderLine(l.o, l.line)
    IN  IF ~l.ok THEN [l.o EXCEPT !.boundary = FALSE]
        ELSE IF l.line # <<>> THEN IF p.failed THEN p ELSE Headers(p, l.b, fresh)
        ELSE IF l.o.first = -1 \/ l.o.len = -1 THEN Failed(l.o)
        ELSE Parse([l.o EXCEPT !.boundary = TRUE], l.b, fresh)

Write(o, r, b, fresh) ==
    IF r.status = 200 THEN Parse([o EXCEPT !.first = 0, !.len = OffMax], b, fresh)
    ELSE IF r.status >= 400 THEN o
    ELSE IF ~r.multipart THEN Parse([o EXCEPT !.first = r.offset, !.len = OffMax], b, fresh)
    ELSE Parse(o, b, fresh)

\* Success: a partial last chunk is part of the result.
Results(o) ==
    IF o.buffer_idx = 0 THEN o.vr
    ELSE LET c == o.chunks[o.response_idx + 1]
         IN  Append(o.vr, Entry(c.off, o.buffer_idx, c))

-----------------------------------------------------------------------------

Init ==
    /\ request \in Requests
    /\ \E s \in Servers : \E a \in Answers(request, s) : reply = a /\ rest = a.body
    /\ arrived = <<>>
    /\ op = NewOp(request)
    /\ outcome = "none"

\* curl delivers any number of bytes at a time; after a failure it gives up.
Deliver(n) ==
    /\ outcome = "none" /\ ~op.failed
    /\ \E fresh \in BOOLEAN : op' = Write(op, reply, SeqPrefix(rest, n), fresh)
    /\ arrived' = arrived \o SeqPrefix(rest, n)
    /\ rest' = SeqFrom(rest, n)
    /\ UNCHANGED <<request, reply, outcome>>

Success ==
    /\ outcome = "none" /\ ~op.failed /\ rest = <<>> /\ reply.status < 400
    /\ outcome' = "ok"
    /\ op' = [op EXCEPT !.vr = Results(op)]
    /\ UNCHANGED <<request, reply, arrived, rest>>

Fail ==
    /\ outcome = "none"
    /\ op.failed \/ (rest = <<>> /\ reply.status >= 400)
    /\ outcome' = "error"
    /\ UNCHANGED <<request, reply, arrived, rest, op>>

Next == (\E n \in 1 .. Len(rest) : Deliver(n)) \/ Success \/ Fail

Spec == Init /\ [][Next]_vvars

-----------------------------------------------------------------------------
(* Properties. *)

\* The chunk e of the result is what it says: the bytes of the file at its offset.
Genuine(e) ==
    \A i \in 1 .. e.len : op.memory[e.req][e.at + i] = Byte(e.off + i - 1)

\* However the body of a well-formed answer is cut into pieces, a vector read that
\* succeeds has filled every buffer with the bytes asked for, once each.
VectorRight ==
    outcome = "ok" /\ reply.server \in {"parts", "one"} =>
        /\ \A i \in DOMAIN op.vr : Genuine(op.vr[i])
        /\ \A i \in DOMAIN request : request[i].len > 0 =>
              Cardinality({k \in DOMAIN op.vr : op.vr[k] = Entry(request[i].off,
                              request[i].len, [req |-> i, at |-> 0])}) = 1

\* What has been copied and what was rejected depends on the bytes that have arrived
\* and not on how curl cut them.
SplitIndependent ==
    reply.multipart /\ outcome = "none" =>
        LET once == Write(NewOp(request), reply, arrived, TRUE)
        IN  <<op.vr, op.memory, op.failed>> = <<once.vr, once.memory, once.failed>>

\* Every chunk of the result holds the bytes at its offset also when the server sends a
\* single response.
SingleResponseRight == outcome = "ok" => \A i \in DOMAIN op.vr : Genuine(op.vr[i])
=============================================================================
