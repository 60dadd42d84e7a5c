----------------------------- MODULE FcgiInput -----------------------------
(***************************************************************************)
(* The reading half of the FastCGI library (loungeact_fastcgi/fcgiapp.c):   *)
(* FCGX_Accept_r, the record parser FillBuffProc, ReadParams, the calls by  *)
(* which a handler reads, and FCGX_Finish_r.                                *)
(*                                                                         *)
(* A connection is a sequence of units.  A header is HeaderLen units, the   *)
(* first of which tells the record; the body of FCGI_BEGIN_REQUEST is one   *)
(* unit, and so is a byte of a stream; a name-value pair is two units, its  *)
(* lengths and its text.  OS_Read returns any number of units that are      *)
(* there, up to the size of the buffer.  The web server is external.        *)
(***************************************************************************)
EXTENDS Naturals, SequencesExt

CONSTANTS
    Requests,      \* what a web server sends for a request: named sequences of records
    Later,         \* bound: names of the requests that may come after the first
    HeaderLen,     \* sizeof(FCGI_Header), in units
    BuffLen,       \* the size of the reader's buffer, in units
    ReadSizes,     \* how much a handler asks for in one call
    MaxRequests    \* bound: requests that the web server sends

\* A record: its type, the id of its request, its content and its padding.
IsRecord(r) == r.id \in Nat /\ r.pad \in Nat /\ r.content \in Seq(ToSet(r.content))

ASSUME InputAssumption ==
    /\ HeaderLen \in Nat \ {0} /\ BuffLen \in Nat \ {0} /\ MaxRequests \in Nat
    /\ Later \subseteq DOMAIN Requests
    /\ ReadSizes \subseteq Nat \ {0}
    /\ \A q \in DOMAIN Requests : /\ Requests[q] \in Seq(ToSet(Requests[q]))
                                  /\ \A r \in ToSet(Requests[q]) : IsRecord(r)

VARIABLES
    at,       \* where the process is: in FCGX_Accept_r, in a call, in the handler
    fill,     \* whether FillBuffProc is running
    nest,     \* what ProcessHeader reads from the stream: nothing, a body, values
    in,       \* the reader
    req,      \* FCGX_Request: id, role, keep, begun, conn, params
    pend,     \* ReadParams: the lengths whose text is not there yet
    want,     \* the call of the handler: units still to read, and if to a newline
    wire,     \* sent by the web server and not read yet
    server,   \* the web server: request, rest to send, patience, death, requests
    replies,  \* records that the reader wrote to the connection
    got,      \* history: what the handler has read, by stream
    clean     \* history: every request of the connection before was read to its end,
              \* and no signal has interrupted the reading of this one

vars == <<at, fill, nest, in, req, pend, want, wire, server, replies, got, clean>>

-----------------------------------------------------------------------------
(* Records on the wire.                                                     *)

Roles == {"RESPONDER", "AUTHORIZER", "FILTER"}

Known == {"FCGI_MAX_CONNS", "FCGI_MAX_REQS", "FCGI_MPXS_CONNS"}

(* A record as units: its header, content and padding.                      *)
Units(r) ==
    [i \in 1..HeaderLen |->
        IF i = 1 THEN [u |-> "header", type |-> r.type, id |-> r.id,
                       len |-> Len(r.content), pad |-> r.pad]
        ELSE [u |-> "more"]]
    \o [i \in 1..Len(r.content) |->
            [u |-> IF r.type = "BEGIN_REQUEST" THEN "body" ELSE "content", c |-> r.content[i]]]
    \o [i \in 1..r.pad |-> [u |-> "pad"]]

AllUnits(rs) == FlattenSeq([i \in 1..Len(rs) |-> Units(rs[i])])

Begin(r) == r.type = "BEGIN_REQUEST"
Management(r) == r.id = 0 /\ ~Begin(r)

(* Records that the reader answers, given the id of the request.            *)
Answered(r, id) == Management(r) \/ (Begin(r) /\ r.id # id)

Body(u)  == u.c
Value(u) == IF u.u = "content" THEN u.c ELSE "junk"

-----------------------------------------------------------------------------
(* Requests.                                                                *)

Texts(units) == [i \in 1..Len(units) \div 2 |-> units[2 * i]]

(* Mutant of ValuesResult: names that the library does not know too.        *)
ValuesOfAll(vals) == vals

(* FCGI_GET_VALUES_RESULT has a value for each name that the library knows. *)
ValuesResult(vals) == SelectSeq(vals, LAMBDA v : v \in Known)

(* response[64] has room for three names, each of which takes 16 to 18      *)
(* bytes after the header.                                                  *)
Fits(vals) == Len(ValuesResult(vals)) <= 3

Answer(r) ==
    CASE Begin(r)               -> [type |-> "CANT_MPX_CONN", id |-> r.id]
      [] r.type = "GET_VALUES"  -> [type |-> "GET_VALUES_RESULT", id |-> 0,
                                    vals |-> SelectSeq(Texts(r.content), LAMBDA v : v \in Known)]
      [] OTHER                  -> [type |-> "UNKNOWN_TYPE", id |-> 0]

(* The answers to those of the records that want one.                       *)
AnswersTo(rs, id) ==
    FlattenSeq([i \in 1..Len(rs) |-> IF Answered(rs[i], id) THEN <<Answer(rs[i])>> ELSE <<>>])

(* What the records of a request carry on one of its streams.               *)
Content(q, type) ==
    FlattenSeq([i \in 1..Len(q) |->
        IF q[i].id = q[1].id /\ q[i].type = type THEN q[i].content ELSE <<>>])

(* FCGI_PARAMS up to the record p, FCGI_STDIN up to s, and FCGI_DATA for a  *)
(* filter: each ends with a record without content, and the last of them is *)
(* the last record.                                                         *)
Ends(q, p, s) ==
    /\ 1 < p /\ p < s /\ s <= Len(q)
    /\ s < Len(q) <=> q[1].content[1].role = "FILTER"
    /\ \A i \in {p, s, Len(q)} : q[i].id = q[1].id /\ q[i].pad = 0
    /\ \A i \in 2..Len(q) : q[i].id = q[1].id =>
          /\ q[i].type = (IF i <= p THEN "PARAMS" ELSE IF i <= s THEN "STDIN" ELSE "DATA")
          /\ q[i].content = <<>> <=> i \in {p, s, Len(q)}

WellFormed(q) ==
    /\ q # <<>> /\ Begin(q[1]) /\ q[1].id # 0
    /\ Len(q[1].content) = 1 /\ q[1].content[1].role \in Roles
    /\ \E p, s \in 1..Len(q) : Ends(q, p, s)
    /\ Len(Content(q, "PARAMS")) % 2 = 0

(* Requests that the parser is up to.  Those that are not: a record without *)
(* content for another request (the skip flag stays set), padding after a   *)
(* record without content or after FCGI_BEGIN_REQUEST (SetReaderType        *)
(* forgets it), an unknown management record with content (it is delivered  *)
(* as data), FCGI_GET_VALUES with more names than there is room for in the  *)
(* answer, and FCGI_ABORT_REQUEST (a protocol error).                       *)
Tame(q) ==
    /\ WellFormed(q)
    /\ q[1].pad = 0
    /\ \A i \in 2..Len(q) :
          /\ Begin(q[i]) => q[i].id # 0 /\ Len(q[i].content) = 1
          /\ (q[i].id # q[1].id /\ ~Management(q[i])) => q[i].content # <<>>
          /\ Management(q[i]) =>
                IF q[i].type = "GET_VALUES"
                THEN Len(q[i].content) % 2 = 0 /\ Fits(Texts(q[i].content))
                ELSE q[i].content = <<>>

TameRequests == {q \in DOMAIN Requests : Tame(Requests[q])}

-----------------------------------------------------------------------------
(* The stream.  `buf' is what lies between rdNext and buffStop, `avail' of  *)
(* which the caller may have (up to stop); `unget' is rdNext - stopUnget.   *)

(* NewStream, NewReader                                                     *)
NewReader ==
    [buf |-> <<>>, avail |-> 0, unget |-> 0, type |-> "0", eor |-> FALSE, skip |-> FALSE,
     contentLen |-> 0, paddingLen |-> 0, closed |-> FALSE, errno |-> "0", hdr |-> <<>>]

NoNest == [k |-> "none", pend |-> <<>>, vals |-> <<>>]

(* SetError: only the first error is kept.                                  *)
SetError(s, e) == [s EXCEPT !.errno = IF @ = "0" THEN e ELSE @, !.closed = TRUE]

(* SetReaderType: what is left of the current record is forgotten, its      *)
(* padding too.                                                             *)
SetReaderType(s, type) ==
    [s EXCEPT !.type = type, !.eor = FALSE, !.skip = FALSE, !.contentLen = 0,
              !.paddingLen = 0, !.avail = 0, !.closed = FALSE]

Least(m, n) == IF m < n THEN m ELSE n

Drop(s, n) == [s EXCEPT !.buf = SubSeq(@, n + 1, Len(@))]

(* Mutant of Take: what was taken still counts as available.                *)
TakeKeepsStop(s, n) == [Drop(s, n) EXCEPT !.unget = @ + n]

(* Taking n of the units that are available.                                *)
Take(s, n) == [Drop(s, n) EXCEPT !.avail = @ - n, !.unget = @ + n]

-----------------------------------------------------------------------------
(* FillBuffProc                                                             *)

(* Content that is not for the caller.                                      *)
SkipContent(s) ==
    LET n == Least(s.contentLen, Len(s.buf)) IN
    IF s.contentLen = 0 THEN s
    ELSE [Drop(s, n) EXCEPT !.contentLen = @ - n, !.skip = n < s.contentLen]

(* Mutant of SkipPadding: padding in the next buffer is forgotten.          *)
SkipPaddingInBuffer(s) ==
    LET n == Least(s.paddingLen, Len(s.buf)) IN
    IF s.contentLen > 0 THEN s ELSE [Drop(s, n) EXCEPT !.paddingLen = 0]

SkipPadding(s) ==
    LET n == Least(s.paddingLen, Len(s.buf)) IN
    IF s.contentLen > 0 THEN s ELSE [Drop(s, n) EXCEPT !.paddingLen = @ - n]

TakeHeader(s) ==
    LET n == Least(HeaderLen - Len(s.hdr), Len(s.buf)) IN
    [Drop(s, n) EXCEPT !.hdr = @ \o SubSeq(s.buf, 1, n)]

Skipped(s) == SkipPadding(SkipContent(s))
Delivers(s) == s.contentLen > 0 /\ ~s.skip
RecordDone(s) == s.contentLen = 0 /\ s.paddingLen = 0

(* Mutant of EndsRecord: only with something left in the buffer.            *)
EndsRecordWithMore(s) == s.eor /\ s.buf # <<>>

(* In a recursive call from ProcessHeader the end of the record is the end. *)
EndsRecord(s) == s.eor

Others == <<at, req, pend, want, server, got, clean>>

(* The buffer is empty: OS_Read, which waits if there is nothing.  Also     *)
(* when all of the record has been read and eorStop would end the call.     *)
OS_Read ==
    /\ fill /\ in.buf = <<>>
    /\ \/ \E n \in 1..Least(BuffLen, Len(wire)) :
             /\ in' = [in EXCEPT !.buf = SubSeq(wire, 1, n)]
             /\ wire' = SubSeq(wire, n + 1, Len(wire))
             /\ UNCHANGED fill
       \/ /\ wire = <<>> /\ server.dead
          /\ \E e \in {"PROTOCOL_ERROR", "OS_ERROR"} : in' = SetError(in, e)
          /\ fill' = FALSE
          /\ UNCHANGED wire
    /\ UNCHANGED <<Others, nest, replies>>

(* Content for the caller, as much as there is in the buffer.               *)
Deliver ==
    LET n == Least(in.contentLen, Len(in.buf)) IN
    /\ fill /\ in.buf # <<>> /\ Delivers(in)
    /\ in' = [in EXCEPT !.contentLen = @ - n, !.avail = n, !.unget = 0]
    /\ fill' = FALSE
    /\ UNCHANGED <<Others, nest, wire, replies>>

(* One more turn of the loop, or the end of the record that ProcessHeader   *)
(* reads, which the caller sees as the end of the stream.                   *)
Advance ==
    LET s == Skipped(in) IN
    /\ fill /\ in.buf # <<>> /\ ~Delivers(in)
    /\ \/ ~RecordDone(s) /\ in' = s /\ UNCHANGED fill
       \/ RecordDone(s) /\ EndsRecord(s) /\ in' = [s EXCEPT !.closed = TRUE, !.avail = 0] /\ fill' = FALSE
       \/ /\ RecordDone(s) /\ ~EndsRecord(s)
          /\ Len(TakeHeader(s).hdr) < HeaderLen
          /\ in' = TakeHeader(s) /\ UNCHANGED fill
    /\ UNCHANGED <<Others, nest, wire, replies>>

-----------------------------------------------------------------------------
(* ProcessHeader, ProcessBeginRecord, ProcessManagementRecord               *)

(* write_it_all for an answer, which fails when the web server is gone; a   *)
(* connection that failed once fails for ever.                              *)
Reply(record) == in.errno # "OS_ERROR" /\ replies' = Append(replies, record)

(* A negative status: the stream fails.                                     *)
Fails(s, e) == in' = SetError(s, e) /\ fill' = FALSE

(* Mutant of Skips: content of other requests is delivered.                 *)
DeliversAll(s) == in' = s /\ UNCHANGED fill

(* SKIP.  The flag is cleared with the last byte of content, so that it     *)
(* outlives a record without content.                                       *)
Skips(s) == in' = [s EXCEPT !.skip = TRUE] /\ UNCHANGED fill

Nested(s, k) == /\ nest' = [NoNest EXCEPT !.k = k]
                /\ in' = [s EXCEPT !.eor = TRUE]

Sized(s, h) == [s EXCEPT !.contentLen = h.len, !.paddingLen = h.pad]

ProcessHeader(h, s) ==
    /\ ~Begin(h) /\ h.id # 0
    /\ \/ h.id # req.id /\ Skips(Sized(s, h))
       \/ h.id = req.id /\ h.type # s.type /\ Fails(Sized(s, h), "PROTOCOL_ERROR")
       \/ /\ h.id = req.id /\ h.type = s.type
          /\ \/ h.len = 0 /\ in' = [Sized(s, h) EXCEPT !.closed = TRUE] /\ fill' = FALSE
             \/ h.len > 0 /\ in' = Sized(s, h) /\ UNCHANGED fill
    /\ UNCHANGED <<nest, req, replies>>

(* The request id is taken before the body is read.  A second request on    *)
(* the connection is answered and skipped.                                  *)
ProcessBeginRecord(h, s) ==
    /\ Begin(h)
    /\ \/ /\ h.id = 0 \/ h.len # 1
          /\ Fails(Sized(s, h), "PROTOCOL_ERROR")
          /\ UNCHANGED <<nest, req, replies>>
       \/ /\ h.id # 0 /\ h.len = 1 /\ req.begun
          /\ \/ Reply([type |-> "CANT_MPX_CONN", id |-> h.id]) /\ Skips(Sized(s, h))
             \/ server.dead /\ Fails(Sized(s, h), "OS_ERROR") /\ UNCHANGED replies
          /\ UNCHANGED <<nest, req>>
       \/ /\ h.id # 0 /\ h.len = 1 /\ ~req.begun
          /\ req' = [req EXCEPT !.id = h.id]
          /\ Nested(Sized(s, h), "body")
          /\ UNCHANGED <<replies>> /\ fill' = FALSE

(* Anything but FCGI_GET_VALUES is answered at once, and its content is not *)
(* skipped.                                                                 *)
ProcessManagementRecord(h, s) ==
    /\ Management(h)
    /\ \/ h.type = "GET_VALUES" /\ Nested(Sized(s, h), "values") /\ fill' = FALSE /\ UNCHANGED replies
       \/ /\ h.type # "GET_VALUES" /\ UNCHANGED nest
          /\ \/ /\ Reply([type |-> "UNKNOWN_TYPE", id |-> 0])
                /\ in' = Sized(s, h) /\ UNCHANGED fill
             \/ server.dead /\ Fails(Sized(s, h), "OS_ERROR") /\ UNCHANGED replies
    /\ UNCHANGED req

(* A header is complete: `h' is its first unit, `s' the stream after it.    *)
FillHeader ==
    LET t == TakeHeader(Skipped(in))
        s == [t EXCEPT !.hdr = <<>>, !.avail = 0]
        h == t.hdr[1]
    IN
    /\ fill /\ in.buf # <<>> /\ ~Delivers(in)
    /\ RecordDone(Skipped(in)) /\ ~in.eor
    /\ Len(t.hdr) = HeaderLen
    /\ \/ /\ h.u # "header" /\ Fails(s, "UNSUPPORTED_VERSION")
          /\ UNCHANGED <<nest, req, replies>>
       \/ h.u = "header" /\ ProcessHeader(h, s)
       \/ h.u = "header" /\ ProcessBeginRecord(h, s)
       \/ h.u = "header" /\ ProcessManagementRecord(h, s)
    /\ UNCHANGED <<at, pend, want, wire, server, got, clean>>

(* FCGX_GetStr for the body of FCGI_BEGIN_REQUEST.  A body that was skipped *)
(* or cut short is a protocol error.                                        *)
ReadBody ==
    LET s == [in EXCEPT !.eor = FALSE, !.closed = FALSE] IN
    /\ ~fill /\ nest.k = "body"
    /\ \/ /\ in.avail = 0 /\ ~in.closed /\ fill' = TRUE
          /\ UNCHANGED <<in, nest, req>>
       \/ /\ in.avail > 0 /\ nest' = NoNest
          /\ req' = [req EXCEPT !.begun = TRUE, !.role = Body(in.buf[1]).role,
                                !.keep = Body(in.buf[1]).keep]
          /\ in' = Take(s, 1)
          /\ UNCHANGED fill
       \/ /\ in.avail = 0 /\ in.closed /\ nest' = NoNest
          /\ in' = SetError(s, "PROTOCOL_ERROR")
          /\ UNCHANGED <<req, fill>>
    /\ UNCHANGED <<at, pend, want, wire, server, replies, got, clean>>

(* ReadParams for FCGI_GET_VALUES, and the answer.                          *)
ReadValues ==
    LET s == [in EXCEPT !.eor = FALSE, !.closed = FALSE]
        value == Value(in.buf[1])
    IN
    /\ ~fill /\ nest.k = "values"
    /\ \/ /\ in.avail = 0 /\ ~in.closed /\ fill' = TRUE
          /\ UNCHANGED <<in, nest, replies>>
       \/ /\ in.avail > 0 /\ in' = Take(in, 1)
          /\ nest' = IF nest.pend = <<>> THEN [nest EXCEPT !.pend = <<value>>]
                     ELSE [nest EXCEPT !.pend = <<>>, !.vals = Append(@, value)]
          /\ UNCHANGED <<fill, replies>>
       \/ /\ in.avail = 0 /\ in.closed /\ nest' = NoNest
          /\ IF nest.pend # <<>> \/ in.errno # "0" \/ in.contentLen # 0
             THEN /\ in' = SetError(s, IF nest.pend # <<>> THEN "PARAMS_ERROR" ELSE "PROTOCOL_ERROR")
                  /\ UNCHANGED <<fill, replies>>
             ELSE /\ Fits(nest.vals)
                  /\ \/ /\ Reply([type |-> "GET_VALUES_RESULT", id |-> 0,
                                 vals |-> ValuesResult(nest.vals)])
                        /\ in' = s /\ fill' = TRUE
                     \/ /\ server.dead /\ in' = SetError(s, "OS_ERROR")
                        /\ UNCHANGED <<fill, replies>>
    /\ UNCHANGED <<at, req, pend, want, wire, server, got, clean>>

(* All of FCGI_GET_VALUES has been read, and the answer is made.            *)
MakesResult ==
    /\ ~fill /\ nest.k = "values" /\ in.avail = 0 /\ in.closed
    /\ nest.pend = <<>> /\ in.errno = "0" /\ in.contentLen = 0

(* sprintf writes past response[64].  What the process does then is         *)
(* undefined, and the model ends here.                                      *)
Overruns ==
    /\ MakesResult /\ ~Fits(nest.vals)
    /\ at' = "overrun" /\ nest' = NoNest
    /\ UNCHANGED <<fill, in, req, pend, want, wire, server, replies, got, clean>>

-----------------------------------------------------------------------------
(* A signal.  Its handler is installed without SA_RESTART, and OS_Read and  *)
(* OS_Write do not try again: a call that waits fails with EINTR although   *)
(* the web server is alive.                                                 *)

Untouched == <<at, req, pend, want, wire, server, replies, got>>

(* The part of a header that was read is lost with FillBuffProc's locals.   *)
ReadInterrupted ==
    /\ fill /\ in.buf = <<>> /\ wire = <<>> /\ ~server.dead
    /\ Fails([in EXCEPT !.hdr = <<>>], "EINTR")
    /\ UNCHANGED nest

(* write_it_all for an answer to FCGI_BEGIN_REQUEST or a management record. *)
ReplyInterrupted ==
    LET t == TakeHeader(Skipped(in))
        h == t.hdr[1]
    IN
    /\ fill /\ in.buf # <<>> /\ ~Delivers(in)
    /\ RecordDone(Skipped(in)) /\ ~in.eor
    /\ Len(t.hdr) = HeaderLen /\ h.u = "header"
    /\ \/ Begin(h) /\ h.id # 0 /\ h.len = 1 /\ req.begun
       \/ Management(h) /\ h.type # "GET_VALUES"
    /\ Fails(Sized([t EXCEPT !.hdr = <<>>, !.avail = 0], h), "EINTR")
    /\ UNCHANGED nest

(* write_it_all for FCGI_GET_VALUES_RESULT.                                 *)
ValuesInterrupted ==
    /\ MakesResult /\ Fits(nest.vals)
    /\ in' = SetError([in EXCEPT !.eor = FALSE, !.closed = FALSE], "EINTR")
    /\ nest' = NoNest
    /\ UNCHANGED fill

Interrupted ==
    /\ ReadInterrupted \/ ReplyInterrupted \/ ValuesInterrupted
    /\ clean' = FALSE
    /\ UNCHANGED Untouched

-----------------------------------------------------------------------------
(* FCGX_Accept_r                                                            *)

Requested == <<wire, server, replies, got>>

Nothing == [type \in {"STDIN", "DATA"} |-> <<>>]

(* FCGX_InitRequest *)
NoRequest == [id |-> 0, role |-> "none", keep |-> FALSE, begun |-> FALSE, conn |-> FALSE, params |-> <<>>]

Init ==
    /\ at = "accept" /\ fill = FALSE /\ nest = NoNest
    /\ in = NewReader /\ req = NoRequest /\ pend = <<>>
    /\ want = [n |-> 0, line |-> FALSE]
    /\ wire = <<>>
    /\ server = [q |-> "none", rest |-> <<>>, patient |-> FALSE, dead |-> FALSE, count |-> 0]
    /\ replies = <<>>
    /\ got = Nothing
    /\ clean = TRUE

(* The web server (external) has a request: on a new connection, or on the  *)
(* one that was kept.  A patient server waits for the answer to a           *)
(* management record before it sends more.                                  *)
ServerRequests ==
    /\ at = "accept" /\ server.count < MaxRequests
    /\ \/ ~req.conn /\ req' = [req EXCEPT !.conn = TRUE] /\ wire' = <<>> /\ clean' = TRUE
       \/ req.conn /\ ~server.dead /\ UNCHANGED <<req, wire, clean>>
    /\ \E q \in IF server.count = 0 THEN DOMAIN Requests ELSE Later, patient \in BOOLEAN :
          /\ patient => \E r \in ToSet(Requests[q]) : Management(r)
          /\ server' = [q |-> q, rest |-> IF req.conn THEN server.rest \o Requests[q] ELSE Requests[q],
                        patient |-> patient, dead |-> FALSE, count |-> server.count + 1]
    /\ replies' = <<>>
    /\ got' = Nothing
    /\ at' = "begin" /\ fill' = TRUE
    /\ in' = NewReader
    /\ UNCHANGED <<nest, pend, want>>

(* Records that the web server wants answered, and how many it has sent.    *)
Asks(r) == Answered(r, Requests[server.q][1].id)

Owed == LET id == Requests[server.q][1].id IN
        Len(AnswersTo(Requests[server.q], id)) - Len(AnswersTo(server.rest, id))

(* The next records, up to one that a patient server wants answered.  It    *)
(* may die with any part of them sent.                                      *)
ServerSends ==
    /\ server.rest # <<>> /\ ~server.dead /\ req.conn
    /\ server.patient => Len(replies) >= Owed
    /\ \E n \in 1..Len(server.rest) :
          /\ n = Len(server.rest) \/ (server.patient /\ Asks(server.rest[n]))
          /\ \A i \in 1..n - 1 : ~(server.patient /\ Asks(server.rest[i]))
          /\ LET units == AllUnits(SubSeq(server.rest, 1, n)) IN
             \/ /\ wire' = wire \o units
                /\ server' = [server EXCEPT !.rest = SubSeq(@, n + 1, Len(@))]
             \/ \E k \in 0..Len(units) :
                   /\ wire' = wire \o SubSeq(units, 1, k)
                   /\ server' = [server EXCEPT !.rest = <<>>, !.dead = TRUE]
    /\ UNCHANGED <<at, fill, nest, in, req, pend, want, replies, got, clean>>

(* The first FillBuffProc returns.                                          *)
Begun ==
    /\ at = "begin" /\ ~fill /\ nest.k = "none"
    /\ \/ /\ req.begun /\ req.role \in Roles
          /\ req' = [req EXCEPT !.params = <<req.role>>]
          /\ in' = SetReaderType(in, "PARAMS")
          /\ at' = "params"
       \/ /\ ~(req.begun /\ req.role \in Roles)
          /\ at' = "retry" /\ UNCHANGED <<in, req>>
    /\ pend' = <<>>
    /\ UNCHANGED <<fill, nest, want, Requested, clean>>

(* Mutant of PutParam: the place of the last one is not left behind.        *)
PutParamOver(params, p) == Append(Front(params), p)

PutParam(params, p) == Append(params, p)

(* ReadParams; at the end of FCGI_PARAMS the request is accepted. *)
ReadParams ==
    /\ at = "params" /\ ~fill /\ nest.k = "none"
    /\ \/ /\ in.avail = 0 /\ ~in.closed /\ fill' = TRUE
          /\ UNCHANGED <<at, in, req, pend>>
       \/ /\ in.avail > 0 /\ in' = Take(in, 1)
          /\ pend' = IF pend = <<>> THEN <<Value(in.buf[1])>> ELSE <<>>
          /\ req' = IF pend = <<>> THEN req ELSE [req EXCEPT !.params = PutParam(@, Value(in.buf[1]))]
          /\ UNCHANGED <<at, fill>>
       \/ /\ in.avail = 0 /\ in.closed
          /\ IF pend # <<>>
             THEN at' = "retry" /\ in' = SetError(in, "PARAMS_ERROR")
             ELSE at' = "app" /\ in' = SetReaderType(in, "STDIN")
          /\ pend' = <<>>
          /\ UNCHANGED <<fill, req>>
    /\ UNCHANGED <<nest, want, Requested, clean>>

(* TryAgain: FCGX_Free closes the connection.                               *)
TryAgain ==
    /\ at = "retry"
    /\ at' = "accept"
    /\ req' = [req EXCEPT !.conn = FALSE, !.begun = FALSE, !.params = <<>>]
    /\ UNCHANGED <<fill, nest, in, pend, want, Requested, clean>>

-----------------------------------------------------------------------------
(* The handler.                                                             *)

InHandler == at = "app"

(* FCGX_GetChar, FCGX_GetStr (line = FALSE) and FCGX_GetLine, which reads   *)
(* one less than it is given and stops after a newline.                     *)
Read(n, line) ==
    /\ InHandler
    /\ want' = [n |-> IF line THEN n - 1 ELSE n, line |-> line]
    /\ at' = "read"
    /\ UNCHANGED <<fill, nest, in, req, pend, Requested, clean>>

(* What the call can have at once: up to the newline for FCGX_GetLine.      *)
Chunk ==
    LET n == Least(want.n, in.avail)
        newlines == {i \in 1..n : Value(in.buf[i]) = "\n"}
    IN
    IF want.line /\ newlines # {} THEN CHOOSE i \in newlines : \A j \in newlines : i <= j ELSE n

(* Mutant of ReadEnds: the end of the stream is not looked at.              *)
ReadEndsFull(n) == n = 0

(* A call is over when it has all it wants, or at the end of the stream.    *)
ReadEnds(n) == n = 0 \/ in.closed

Reading ==
    LET n == IF in.closed THEN 0 ELSE Chunk
        ended == want.line /\ n > 0 /\ Value(in.buf[n]) = "\n"
    IN
    /\ at = "read" /\ ~fill /\ nest.k = "none"
    /\ in' = Take(in, n)
    /\ got' = IF in.type \in DOMAIN got
              THEN [got EXCEPT ![in.type] = @ \o [i \in 1..n |-> Value(in.buf[i])]] ELSE got
    /\ want' = [want EXCEPT !.n = IF ended THEN 0 ELSE @ - n]
    /\ IF ReadEnds(want'.n) THEN at' = "app" /\ UNCHANGED fill
       ELSE fill' = TRUE /\ UNCHANGED at
    /\ UNCHANGED <<nest, req, pend, wire, server, replies, clean>>

(* FCGX_UnGetChar, of the unit that was read last.                          *)
FCGX_UnGetChar ==
    LET read == got[in.type] IN
    /\ InHandler /\ read # <<>>
    /\ ~in.closed /\ in.unget > 0
    /\ in' = [in EXCEPT !.buf = <<[u |-> "content", c |-> Last(read)]>> \o @,
                        !.avail = @ + 1, !.unget = @ - 1]
    /\ got' = [got EXCEPT ![in.type] = Front(@)]
    /\ UNCHANGED <<at, fill, nest, req, pend, want, wire, server, replies, clean>>

(* FCGX_StartFilterData *)
FCGX_StartFilterData ==
    /\ InHandler
    /\ in' = IF req.role = "FILTER" /\ in.closed /\ in.type = "STDIN"
             THEN SetReaderType(in, "DATA")
             ELSE SetError(in, "CALL_SEQ_ERROR")
    /\ UNCHANGED <<at, fill, nest, req, pend, want, Requested, clean>>

\* The request is one that the parser is up to, on a connection without a past,
\* and no signal has interrupted the reading of it.
Served == server.q \in TameRequests /\ clean

LastStream == IF req.role = "FILTER" THEN "DATA" ELSE "STDIN"

(* FCGX_Finish_r, by the next FCGX_Accept_r: the reader is freed with what  *)
(* it has buffered.  The connection is closed unless it is to be kept and   *)
(* nothing failed; a write of the output may fail, with the web server gone *)
(* or by a signal.                                                          *)
FCGX_Finish_r ==
    /\ InHandler
    /\ \E failed \in BOOLEAN :
          LET close == ~req.keep \/ in.errno # "0" \/ failed IN
          req' = [req EXCEPT !.conn = ~close, !.begun = FALSE, !.params = <<>>]
    /\ clean' = (Served /\ in.closed /\ in.errno = "0" /\ in.type = LastStream)
    /\ in' = NewReader
    /\ at' = "accept"
    /\ UNCHANGED <<fill, nest, pend, want, Requested>>

(* main of loungeact-fastcgi.c: a fresh request for every FCGX_Accept_r, so *)
(* that nothing is finished and the connection is lost.                     *)
MainAbandons ==
    /\ InHandler
    /\ req' = NoRequest /\ in' = NewReader /\ at' = "accept"
    /\ UNCHANGED <<fill, nest, pend, want, Requested, clean>>

Library == OS_Read \/ Deliver \/ Advance \/ FillHeader \/ ReadBody \/ ReadValues
           \/ Overruns \/ Begun \/ ReadParams \/ TryAgain \/ Reading

Next ==
    \/ Library \/ Interrupted
    \/ ServerRequests \/ ServerSends
    \/ \E n \in ReadSizes, line \in BOOLEAN : Read(n, line)
    \/ FCGX_UnGetChar \/ FCGX_StartFilterData \/ FCGX_Finish_r \/ MainAbandons

Spec == Init /\ [][Next]_vars /\ WF_vars(Library) /\ WF_vars(ServerSends)

-----------------------------------------------------------------------------
(* Properties.                                                              *)

(* Types, and what the parser keeps between calls: `stop' lies within the   *)
(* buffer, a header is worked off as soon as it is complete, and nothing is *)
(* under way while the handler runs.                                        *)
TypeOK ==
    /\ at \in {"accept", "begin", "params", "app", "read", "retry", "overrun"}
    /\ fill \in BOOLEAN /\ clean \in BOOLEAN
    /\ nest.k \in {"none", "body", "values"}
    /\ in.avail \in 0..Len(in.buf) /\ Len(in.hdr) < HeaderLen
    /\ in.contentLen \in Nat /\ in.paddingLen \in Nat /\ in.unget \in Nat
    /\ (at \in {"accept", "app", "retry", "overrun"}) => (~fill /\ nest.k = "none")
    /\ want.n \in Nat

\* What is to be read and answered, by request.
Input == [q \in TameRequests |-> [type \in {"PARAMS", "STDIN", "DATA"} |-> Content(Requests[q], type)]]
Output == [q \in TameRequests |-> AnswersTo(Requests[q], Requests[q][1].id)]

AtEnd(type) == InHandler /\ in.type = type /\ in.closed /\ in.errno = "0"

(* Whatever pieces the connection delivers, and whatever the web server     *)
(* interleaves (management records, other requests, padding), a handler     *)
(* reads the content of FCGI_STDIN and then of FCGI_DATA in order, without  *)
(* a byte missing or added, pushed back bytes too; and it is told that the  *)
(* stream has ended, without an error, only after all of it.                *)
StreamsIntact ==
    Served => \A type \in DOMAIN got :
        /\ IsPrefix(got[type], Input[server.q][type])
        /\ AtEnd(type) => got[type] = Input[server.q][type]

(* The handler starts with exactly the parameters that the web server sent, *)
(* in order, although a pair may be cut by records, reads and management    *)
(* records that ReadParams itself reads; unless the stream's error code     *)
(* says otherwise, for a connection that breaks between two pairs ends      *)
(* FCGI_PARAMS as well as its last record does.                             *)
ParamsIntact ==
    (Served /\ InHandler /\ in.errno = "0") =>
        req.params = <<req.role>> \o Texts(Input[server.q]["PARAMS"])

(* Every management record, and every attempt to multiplex the connection,  *)
(* is answered once, in order, and before the request's input has ended.    *)
AnswersInOrder ==
    Served =>
        /\ IsPrefix(replies, Output[server.q])
        /\ AtEnd(LastStream) => replies = Output[server.q]

(* FCGX_Accept_r gives a request up only because the web server is gone or  *)
(* a signal has interrupted a call: nothing of an earlier request on a      *)
(* connection that was kept, read to its end, gets in the way of the next,  *)
(* and up to three names of FCGI_GET_VALUES fit into their answer.          *)
NeverRefused == Served => at # "overrun" /\ (at = "retry" => server.dead)

(* The process waits in OS_Read for a server that waits for an answer.      *)
MutualWait ==
    /\ fill /\ in.buf = <<>> /\ wire = <<>>
    /\ server.patient /\ server.rest # <<>> /\ Len(replies) < Owed

(* Process and web server never wait for one another, if FCGI_GET_VALUES    *)
(* records are padded: FillBuffProc reads before it looks whether the       *)
(* record has ended, and padding is what makes it look first.               *)
NoMutualWait ==
    (Served /\ \A r \in ToSet(Requests[server.q]) : r.type = "GET_VALUES" => r.pad > 0)
        => ~MutualWait

(* Nothing will come any more, and the connection stays open.               *)
Starved == fill /\ in.buf = <<>> /\ wire = <<>> /\ server.rest = <<>> /\ ~server.dead

(* Every call of the library returns, for good or ill, while the web server *)
(* sends what it has to or dies: for a request that the parser is up to, it *)
(* never waits for more than the request has; for a wild one it may.        *)
CallReturns ==
    (at \in {"begin", "params", "read"}) ~>
        (at \in {"accept", "app", "overrun"} \/ MutualWait \/ (Starved /\ ~Served))
=============================================================================
