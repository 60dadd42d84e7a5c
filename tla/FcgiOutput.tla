----------------------------- MODULE FcgiOutput -----------------------------
(***************************************************************************)
(* The writing half of the FastCGI library (loungeact_fastcgi/fcgiapp.c):   *)
(* the two buffered writers of a request, FCGI_STDOUT and FCGI_STDERR,      *)
(* which share a connection and the count of writers that are open.  The    *)
(* one that is closed last ends the request.                                *)
(*                                                                         *)
(* Sizes are in units: HeaderLen for a header, which is also what records   *)
(* are aligned to, and twice that for FCGI_END_REQUEST.  A byte of a stream *)
(* is its number in the stream.  FCGX_PutChar, FCGX_PutS and what the       *)
(* conversions of FCGX_VFPrintF produce all go through FCGX_PutStr.         *)
(***************************************************************************)
EXTENDS Integers, Sequences

CONSTANTS
    HeaderLen,      \* sizeof(FCGI_Header), in units
    Size,           \* the size of each writer's buffer, in units
    PutSizes,       \* how much a handler writes in one call
    Statuses,       \* exit statuses
    MaxPut,         \* bound: bytes that a handler writes to a stream
    MaxRequests     \* bound: requests

Writers == {"STDOUT", "STDERR"}

ASSUME OutputAssumption ==
    /\ HeaderLen \in Nat \ {0} /\ MaxPut \in Nat /\ MaxRequests \in Nat
    /\ PutSizes \subseteq Nat
    /\ \A s \in Writers : Size[s] \in Nat /\ Size[s] >= 4 * HeaderLen   \* max(bufflen, 32)

VARIABLES
    w,          \* the writers
    nWriters,   \* writers that are not closed
    appStatus,  \* the status for FCGI_END_REQUEST
    call,       \* what is being put, where, and what follows
    out,        \* units written to the connection for this request
    dead,       \* whether the web server is gone
    torn,       \* history: whether a write to a server that is there was interrupted
    put,        \* history: bytes that each stream has taken
    setTo,      \* history: the status set last during this request, or -1
    served      \* requests that were finished

vars == <<w, nWriters, appStatus, call, out, dead, torn, put, setTo, served>>

(* Mutant of Aligned: no padding for what is nearly aligned.                *)
AlignedNot(n) == n

(* AlignInt8 *)
Aligned(n) == ((n + HeaderLen - 1) \div HeaderLen) * HeaderLen

(* NewStream, NewWriter: the size of the buffer is a multiple of the        *)
(* alignment, and room is left for a header.                                *)
NewWriter == [buf |-> <<>>, raw |-> FALSE, any |-> FALSE, closed |-> FALSE, fclosed |-> FALSE, errno |-> "0"]

Stop(s) == (Size[s] \div HeaderLen) * HeaderLen

(* Mutant of Used: no room is kept for the header.                          *)
UsedByContent(x) == Len(x.buf)

Used(x) == Len(x.buf) + IF x.raw THEN 0 ELSE HeaderLen

(* After FCGX_FClose, stop is wrNext.                                       *)
Room(s, x) == IF x.fclosed THEN 0 ELSE Stop(s) - Used(x)

(* MakeHeader *)
MakeHeader(type, len, pad) ==
    [i \in 1..HeaderLen |-> IF i = 1 THEN [u |-> "header", type |-> type, len |-> len, pad |-> pad]
                            ELSE [u |-> "more"]]

(* MakeEndRequestBody *)
EndRequest(status) ==
    MakeHeader("END_REQUEST", HeaderLen, 0) \o [i \in 1..HeaderLen |-> [u |-> "status", n |-> status]]

NoCall == [s |-> "none", rest |-> <<>>, then |-> "none", after |-> "none"]

Init ==
    /\ w = [s \in Writers |-> NewWriter]
    /\ nWriters = 2
    /\ appStatus = 0
    /\ call = NoCall
    /\ out = <<>>
    /\ dead = FALSE /\ torn = FALSE
    /\ put = [s \in Writers |-> 0]
    /\ setTo = -1
    /\ served = 0

Idle == call = NoCall /\ served < MaxRequests

-----------------------------------------------------------------------------
(* EmptyBuffProc and FCGX_PutStr                                            *)

(* The contents of the buffer as a record, padded; nothing for no content.  *)
Encapsulated(s, x) ==
    LET pad == Aligned(Len(x.buf)) - Len(x.buf) IN
    CASE x.raw         -> x.buf
      [] x.buf = <<>>  -> <<>>
      [] OTHER         -> MakeHeader(s, Len(x.buf), pad) \o x.buf \o [i \in 1..pad |-> [u |-> "pad"]]

Heads(units) == {i \in 1..Len(units) : units[i].u = "header"}

(* The records that end a stream or the request.                            *)
Ends(units, type) ==
    {i \in Heads(units) : units[i].type = type /\ (units[i].len = 0 \/ type = "END_REQUEST")}

(* What is kept of the units once a write was cut: if they end the request. *)
Remains(units) ==
    IF Ends(units, "END_REQUEST") = {} THEN <<>> ELSE MakeHeader("END_REQUEST", HeaderLen, 0)

(* `out' with more units; what nobody will read is not kept.                *)
Sent(units, cut) ==
    IF dead THEN out ELSE IF cut THEN Remains(out \o units) ELSE out \o units

(* SetError: only the first error is kept.                                  *)
SetError(x, e) == [x EXCEPT !.errno = IF @ = "0" THEN e ELSE @, !.closed = TRUE]

(* Mutant of Emptied: wrNext is not set back after the write.               *)
EmptiedNot(x) == [x EXCEPT !.any = TRUE]

Emptied(x) == [x EXCEPT !.buf = <<>>, !.any = TRUE]

(* The buffer is left as it was made up.                                    *)
WriteFails(x, e) ==
    SetError([x EXCEPT !.any = TRUE,
                       !.buf = IF x.raw THEN e ELSE SubSeq(e, HeaderLen + 1, Len(e))], "OS_ERROR")

(* EmptyBuffProc with doClose = FALSE, of `x', which becomes the writer.    *)
(* write_it_all may fail when the web server is gone, and also when it is   *)
(* not, after any part was sent: a signal's handler is installed without    *)
(* SA_RESTART, and OS_Write does not try again.                             *)
EmptyBuffProc(s, x) ==
    LET e == Encapsulated(s, x) IN
    \/ /\ e = <<>>
       /\ w' = [w EXCEPT ![s] = x]
       /\ UNCHANGED <<out, torn>>
    \/ /\ e # <<>>
       /\ w' = [w EXCEPT ![s] = Emptied(x)]
       /\ out' = Sent(e, torn)
       /\ UNCHANGED torn
    \/ /\ e # <<>>
       /\ w' = [w EXCEPT ![s] = WriteFails(x, e)]
       /\ torn' = (torn \/ ~dead)
       /\ \E k \in 0..Len(e) - 1 : out' = Sent(SubSeq(e, 1, k), torn')

Least(m, n) == IF m < n THEN m ELSE n

(* FCGX_PutStr, by a handler: n more bytes.                                 *)
FCGX_PutStr(s, n) ==
    /\ Idle /\ put[s] + n <= MaxPut
    /\ call' = [NoCall EXCEPT !.s = s, !.then = "return",
                              !.rest = [i \in 1..n |-> [u |-> "byte", s |-> s, n |-> put[s] + i]]]
    /\ UNCHANGED <<w, nWriters, appStatus, out, dead, torn, put, setTo, served>>

(* Mutant of PutEnds: a stream that has failed is tried again.              *)
PutEndsMoved(x, rest) == rest = <<>>

(* All was moved, or the stream has failed or was closed.                   *)
PutEnds(x, rest) == rest = <<>> \/ x.closed

(* A turn of FCGX_PutStr's loop: what fits is moved, also into a stream     *)
(* that has failed; the rest needs an empty buffer.                         *)
PutTurn ==
    LET s == call.s
        n == Least(Len(call.rest), Room(s, w[s]))
        x == [w[s] EXCEPT !.buf = @ \o SubSeq(call.rest, 1, n)]
        rest == SubSeq(call.rest, n + 1, Len(call.rest))
    IN
    /\ call.rest # <<>>
    /\ put' = [put EXCEPT ![s] = @ + IF call.then = "return" THEN n ELSE 0]
    /\ \/ /\ PutEnds(x, rest)
          /\ w' = [w EXCEPT ![s] = x] /\ UNCHANGED <<out, torn>>
          /\ call' = [call EXCEPT !.rest = <<>>]
       \/ /\ ~PutEnds(x, rest)
          /\ EmptyBuffProc(s, x)
          /\ call' = [call EXCEPT !.rest = rest]
    /\ UNCHANGED <<nWriters, appStatus, dead, setTo, served>>

PutReturns ==
    /\ call.then = "return" /\ call.rest = <<>>
    /\ call' = NoCall
    /\ UNCHANGED <<w, nWriters, appStatus, out, dead, torn, put, setTo, served>>

(* FCGX_FFlush: nothing for a stream that is closed.                        *)
FCGX_FFlush(s) ==
    /\ Idle
    /\ ~w[s].closed
    /\ EmptyBuffProc(s, w[s])
    /\ UNCHANGED <<nWriters, appStatus, call, dead, put, setTo, served>>

-----------------------------------------------------------------------------
(* FCGX_FClose, WriteCloseRecords                                           *)

(* Mutant of NeedsEof: for every stream but an empty one.                   *)
NeedsEofIfWritten(s, x) == x.any \/ x.buf # <<>>

(* A stream of errors that was never written to has no end either.  `x' is  *)
(* the writer with its buffer made into a record.                           *)
NeedsEof(s, x) == ~(s = "STDERR" /\ x.buf = <<>> /\ ~x.any)

(* FCGX_FClose starts, also of a stream that has failed: the buffer is made *)
(* into a record and the writer goes over to raw records.                   *)
StartClose(s, after) ==
    LET x == [w[s] EXCEPT !.buf = Encapsulated(s, w[s]), !.raw = TRUE] IN
    IF w[s].fclosed
    THEN call' = [NoCall EXCEPT !.s = s, !.then = "closed", !.after = after] /\ UNCHANGED w
    ELSE /\ w' = [w EXCEPT ![s] = x]
         /\ call' = [s |-> s, then |-> "end", after |-> after,
                     rest |-> IF NeedsEof(s, x) THEN MakeHeader(s, 0, 0) ELSE <<>>]

FCGX_FClose(s) ==
    /\ Idle
    /\ StartClose(s, "return")
    /\ UNCHANGED <<nWriters, appStatus, out, dead, torn, put, setTo, served>>

IsLastWriter == nWriters = 1

WriteEndRequest ==
    /\ call.then = "end" /\ call.rest = <<>>
    /\ call' = [call EXCEPT !.rest = IF IsLastWriter THEN EndRequest(appStatus) ELSE <<>>,
                            !.then = "empty"]
    /\ nWriters' = nWriters - 1
    /\ UNCHANGED <<w, appStatus, out, dead, torn, put, setTo, served>>

(* The last write of EmptyBuffProc.                                         *)
CloseWrites ==
    /\ call.then = "empty" /\ call.rest = <<>>
    /\ EmptyBuffProc(call.s, w[call.s])
    /\ call' = [call EXCEPT !.then = "closed"]
    /\ UNCHANGED <<nWriters, appStatus, dead, put, setTo, served>>

(* The end of FCGX_FClose; in FCGX_Finish_r, FCGI_STDOUT is next.           *)
Closed ==
    /\ call.then = "closed" /\ call.rest = <<>>
    /\ IF w[call.s].fclosed
       THEN /\ IF call.after = "out" THEN StartClose("STDOUT", "free")
               ELSE /\ call' = IF call.after = "free" THEN [NoCall EXCEPT !.then = "free"] ELSE NoCall
                    /\ UNCHANGED w
       ELSE /\ w' = [w EXCEPT ![call.s].fclosed = TRUE, ![call.s].closed = TRUE]
            /\ UNCHANGED call
    /\ UNCHANGED <<nWriters, appStatus, out, dead, torn, put, setTo, served>>

(* FCGX_ClearError: isClosed stays.                                         *)
FCGX_ClearError(s) ==
    /\ Idle
    /\ w[s].errno # "0"
    /\ w' = [w EXCEPT ![s].errno = "0"]
    /\ UNCHANGED <<nWriters, appStatus, call, out, dead, torn, put, setTo, served>>

(* FCGX_SetExitStatus *)
FCGX_SetExitStatus(status) ==
    /\ Idle
    /\ appStatus' = status
    /\ setTo' = IF nWriters > 0 THEN status ELSE setTo
    /\ UNCHANGED <<w, nWriters, call, out, dead, torn, put, served>>

(* FCGX_Finish_r: FCGI_STDERR first.                                        *)
FCGX_Finish_r ==
    /\ Idle
    /\ StartClose("STDERR", "out")
    /\ UNCHANGED <<nWriters, appStatus, out, dead, torn, put, setTo, served>>

(* FCGX_Free, and FCGX_Accept_r for the next request: new writers, but the  *)
(* exit status is left as it is.  A connection may be kept unless a stream  *)
(* has an error.                                                            *)
NextRequest ==
    /\ call.then = "free"
    /\ w' = [s \in Writers |-> NewWriter]
    /\ nWriters' = 2
    /\ call' = NoCall /\ out' = <<>> /\ dead' = FALSE
    /\ torn' = (torn /\ \A s \in Writers : w[s].errno = "0")
    /\ put' = [s \in Writers |-> 0] /\ setTo' = -1
    /\ served' = served + 1
    /\ UNCHANGED appStatus

(* The web server (external) goes away.                                     *)
ServerDies ==
    /\ ~dead /\ dead' = TRUE
    /\ out' = <<>>
    /\ UNCHANGED <<w, nWriters, appStatus, call, torn, put, setTo, served>>

Calls == PutTurn \/ PutReturns \/ WriteEndRequest \/ CloseWrites \/ Closed \/ NextRequest

Next ==
    \/ Calls
    \/ \E s \in Writers : \/ \E n \in PutSizes : FCGX_PutStr(s, n)
                          \/ FCGX_FFlush(s) \/ FCGX_FClose(s) \/ FCGX_ClearError(s)
    \/ \E status \in Statuses : FCGX_SetExitStatus(status)
    \/ FCGX_Finish_r
    \/ ServerDies

Spec == Init /\ [][Next]_vars /\ WF_vars(Calls)

-----------------------------------------------------------------------------
(* What a web server makes of what was written.                             *)

Span(h) == HeaderLen + h.len + h.pad

(* A record, aligned, from a header to the next one or to the end, with     *)
(* bytes of its own stream only.                                            *)
Record(units, i, next) ==
    /\ (next - i) % HeaderLen = 0
    /\ next \in Heads(units) \/ next = Len(units) + 1
    /\ \A j \in (i + 1)..(next - 1) :
          /\ units[j].u # "header"
          /\ units[j].u = "byte" => units[j].s = units[i].type

(* The units are records, one right after the other.                        *)
Whole(units) ==
    /\ units # <<>> => 1 \in Heads(units)
    /\ \A i \in Heads(units) : Record(units, i, i + Span(units[i]))

(* The bytes of stream s among the units are lo + 1 .. hi, in this order.   *)
BytesOf(units, s) == {i \in 1..Len(units) : units[i].u = "byte" /\ units[i].s = s}

Carries(units, s, lo, hi) ==
    /\ \A i, j \in BytesOf(units, s) : i < j => units[i].n < units[j].n
    /\ {units[i].n : i \in BytesOf(units, s)} = (lo + 1)..hi

Once(units, type) == \E i \in Heads(units) : Ends(units, type) = {i}

-----------------------------------------------------------------------------
(* Properties.                                                              *)

Units ==
    [u : {"header"}, type : Writers \cup {"END_REQUEST"}, len : Nat, pad : Nat]
        \cup [u : {"more", "pad"}]
        \cup [u : {"byte"}, s : Writers, n : Nat]
        \cup [u : {"status"}, n : Statuses \cup {0}]

Streams == [buf : Seq(Units), raw : BOOLEAN, any : BOOLEAN, closed : BOOLEAN, fclosed : BOOLEAN,
            errno : {"0", "OS_ERROR"}]

\* The web server is there, and every write to it went through.
Intact == ~dead /\ ~torn

(* Types, and that a buffer never overruns its end, header included.        *)
TypeOK ==
    /\ w \in [Writers -> Streams]
    /\ \A s \in Writers : Used(w[s]) <= Stop(s) \/ w[s].fclosed
    /\ \A s \in Writers : w[s].fclosed => w[s].closed
    /\ nWriters \in 0..2
    /\ appStatus \in Statuses \cup {0}
    /\ call \in [s : Writers \cup {"none"}, rest : Seq(Units),
                 then : {"none", "return", "end", "empty", "closed", "free"},
                 after : {"none", "return", "out", "free"}]
    /\ out \in Seq(Units)
    /\ dead \in BOOLEAN /\ torn \in BOOLEAN
    /\ put \in [Writers -> 0..MaxPut]
    /\ setTo \in Statuses \cup {-1}
    /\ served \in 0..MaxRequests

(* Records never overrun: the padding fits into the buffer, as the comment  *)
(* in EmptyBuffProc argues, and what is written without interruption falls  *)
(* into whole records, although FCGX_PutStr writes the closing records in   *)
(* pieces when the buffer is nearly full: only FCGI_END_REQUEST is ever     *)
(* split between two writes.                                                *)
WholeRecords == (Intact /\ call.then # "empty") => Whole(out)

(* Each stream's bytes are written in order and none is lost or doubled, if *)
(* no write is interrupted: what was written is the beginning of what the   *)
(* stream took, and the rest is in its buffer, however puts, flushes and    *)
(* closes of the two streams interleave.                                    *)
BytesInOrder ==
    Intact => \A s \in Writers : \E m \in 0..put[s] :
        Carries(out, s, 0, m) /\ Carries(w[s].buf, s, m, put[s])

(* A response to a web server that is there, written without interruption,  *)
(* ends the request once, with its last record, after the end of            *)
(* FCGI_STDOUT and, if it was written to, of FCGI_STDERR, whichever the     *)
(* handler closed first; and with the status that was set last, if one was. *)
EndsOnceAndLast ==
    Intact =>
    /\ \A i \in Ends(out, "END_REQUEST"), j \in Heads(out) : j <= i
    /\ call.then = "free" =>
          /\ Once(out, "END_REQUEST") /\ Once(out, "STDOUT")
          /\ IF put["STDERR"] > 0 THEN Once(out, "STDERR") ELSE Ends(out, "STDERR") = {}
          /\ setTo # -1 => out[Len(out)].n = setTo


(* Every call returns, and a request that is being finished is finished,    *)
(* whether the web server is there or not.                                  *)
CallEnds == (call # NoCall) ~> (call = NoCall)

-----------------------------------------------------------------------------
(* What makes these properties inductive.                                   *)

Closing(s) == call.s = s /\ call.then \in {"end", "empty"}

(* Which writers are closed, how many count, and what FCGX_FClose still has *)
(* to do.                                                                   *)
Closes ==
    /\ call.then \in {"return", "end", "empty", "closed"} <=> call.s \in Writers
    /\ call.then = "none" => call = NoCall
    /\ call.then \in {"closed", "free"} => call.rest = <<>>
    /\ call.then # "none" => served < MaxRequests
    /\ \A s \in Writers :
          /\ w[s].fclosed => w[s].raw
          /\ Closing(s) => w[s].raw /\ ~w[s].fclosed
          /\ w[s].raw => w[s].fclosed \/ Closing(s) \/ (call.s = s /\ call.then = "closed")
          /\ call.s = s /\ call.then = "closed" => w[s].raw
    /\ nWriters = (IF w["STDOUT"].raw THEN 0 ELSE 1) + (IF w["STDERR"].raw THEN 0 ELSE 1)
                  + (IF call.then = "end" THEN 1 ELSE 0)
    /\ call.after = "out" => call.s = "STDERR"
    /\ call.after = "free" => call.s = "STDOUT" /\ w["STDERR"].fclosed
    /\ call.then = "free" => w["STDOUT"].fclosed /\ w["STDERR"].fclosed

(* What FCGX_PutStr has still to move for a handler.                        *)
Puts ==
    call.then = "return" =>
        /\ put[call.s] + Len(call.rest) <= MaxPut
        /\ \A i \in 1..Len(call.rest) :
              call.rest[i] = [u |-> "byte", s |-> call.s, n |-> put[call.s] + i]

(* With a web server that is there: buffers hold bytes, until they hold     *)
(* records, until they are empty.                                           *)
Buffers ==
    Intact => \A s \in Writers :
        /\ w[s].closed => w[s].fclosed
        /\ ~w[s].raw => \A i \in 1..Len(w[s].buf) : w[s].buf[i].u = "byte" /\ w[s].buf[i].s = s
        /\ w[s].raw => \A i \in 1..Len(w[s].buf) : w[s].buf[i].u = "byte" => w[s].buf[i].s = s
        /\ w[s].raw /\ ~Closing(s) => w[s].buf = <<>>

(* What is written once the writers have moved what they have.              *)
Pending == IF call.then \in {"end", "empty"} THEN w[call.s].buf \o call.rest ELSE <<>>

Records ==
    Intact =>
        /\ call.then # "empty" => Whole(out)
        /\ call.then = "end" => /\ Whole(w[call.s].buf) /\ Len(w[call.s].buf) % HeaderLen = 0
                                /\ call.rest \in {<<>>, MakeHeader(call.s, 0, 0)}
        /\ call.then = "empty" => /\ Whole(out \o Pending)
                                  /\ \A i \in 1..Len(call.rest) : call.rest[i].u # "byte"

Endings ==
    LET units == out \o Pending IN
    Intact =>
        /\ IF w["STDOUT"].raw THEN Once(units, "STDOUT") ELSE Ends(units, "STDOUT") = {}
        /\ IF w["STDERR"].raw /\ put["STDERR"] > 0 THEN Once(units, "STDERR") ELSE Ends(units, "STDERR") = {}
        /\ ~w["STDERR"].raw => (put["STDERR"] > 0 <=> w["STDERR"].any \/ w["STDERR"].buf # <<>>)
        /\ IF nWriters = 0
           THEN /\ \E i \in Heads(units) :
                      Ends(units, "END_REQUEST") = {i} /\ \A j \in Heads(units) : j <= i
                /\ setTo # -1 => units[Len(units)].n = setTo
           ELSE /\ Ends(units, "END_REQUEST") = {}
                /\ setTo # -1 => appStatus = setTo

OutputInv == TypeOK /\ Closes /\ Puts /\ Buffers /\ Records /\ BytesInOrder /\ Endings
=============================================================================
