---------------------------- MODULE MCFcgiInput ----------------------------
(* Small instances of FcgiInput for TLC.                                    *)
EXTENDS FcgiInput

R(type, id, content, pad) == [type |-> type, id |-> id, content |-> content, pad |-> pad]
B(id, role, keep, pad)    == R("BEGIN_REQUEST", id, <<[role |-> role, keep |-> keep]>>, pad)
Pair(p)                   == <<"len", p>>

\* A pair cut by two records, with a question between them, and another request.
Questions == <<B(1, "RESPONDER", TRUE, 0), R("PARAMS", 1, <<"len">>, 2),
               R("GET_VALUES", 0, Pair("FCGI_MAX_REQS"), 1), R("PARAMS", 1, <<"p">>, 0),
               R("PARAMS", 1, <<>>, 0), R("STDIN", 1, <<"a", "\n">>, 1),
               R("STDIN", 2, <<"x">>, 1), R("STDIN", 1, <<"b">>, 0), R("STDIN", 1, <<>>, 0)>>
\* A filter, on a connection that the server tries to multiplex.
Filter == <<B(3, "FILTER", TRUE, 0), R("PARAMS", 3, <<>>, 0), B(4, "RESPONDER", FALSE, 2),
            R("STDIN", 3, <<"c">>, 1), R("STDIN", 3, <<>>, 0), R("UNKNOWN", 0, <<>>, 0),
            R("DATA", 3, <<"d">>, 0), R("DATA", 3, <<>>, 0)>>
\* Values asked for before the request, without padding, and the connection closed after.
Early == <<B(5, "AUTHORIZER", FALSE, 0), R("GET_VALUES", 0, Pair("other"), 0),
           R("PARAMS", 5, Pair("q"), 0), R("PARAMS", 5, <<>>, 0), R("STDIN", 5, <<>>, 0)>>
\* What the parser is not up to.
PaddedBegin  == <<B(1, "RESPONDER", TRUE, 1), R("PARAMS", 1, <<>>, 0)>>
OddRole      == <<B(1, "OTHER", TRUE, 0)>>
NullBegin    == <<R("BEGIN_REQUEST", 0, <<>>, 0)>>
HalfPair     == <<B(1, "RESPONDER", TRUE, 0), R("PARAMS", 1, <<"len">>, 0), R("PARAMS", 1, <<>>, 0)>>
HalfValue    == <<B(1, "RESPONDER", TRUE, 0), R("GET_VALUES", 0, <<"len">>, 1)>>
ManyValues   == <<B(1, "RESPONDER", TRUE, 0),
                  R("GET_VALUES", 0, Pair("FCGI_MAX_REQS") \o Pair("FCGI_MAX_REQS")
                                     \o Pair("FCGI_MAX_REQS") \o Pair("FCGI_MPXS_CONNS"), 1)>>
EmptySkipped == <<B(1, "RESPONDER", TRUE, 0), R("PARAMS", 1, <<>>, 0), R("STDIN", 2, <<>>, 0),
                  R("UNKNOWN", 0, <<"x">>, 0), R("STDIN", 1, <<"a">>, 0), R("STDIN", 1, <<>>, 0)>>
LateBegin    == <<R("STDIN", 2, <<>>, 0), B(1, "RESPONDER", TRUE, 0)>>
Abort        == <<B(1, "RESPONDER", TRUE, 0), R("PARAMS", 1, <<>>, 0), R("ABORT_REQUEST", 1, <<>>, 0)>>

MCRequests == [Questions |-> Questions, Filter |-> Filter, Early |-> Early, PaddedBegin |-> PaddedBegin,
               OddRole |-> OddRole, NullBegin |-> NullBegin, HalfPair |-> HalfPair,
               HalfValue |-> HalfValue, ManyValues |-> ManyValues,
               EmptySkipped |-> EmptySkipped, LateBegin |-> LateBegin, Abort |-> Abort]
=============================================================================
