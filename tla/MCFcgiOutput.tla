---------------------------- MODULE MCFcgiOutput ----------------------------
(* Small instances of FcgiOutput for TLC.                                   *)
EXTENDS FcgiOutput

\* Four headers, the least that NewStream allocates, and a size that is rounded down.
MCSize == [s \in {"STDOUT", "STDERR"} |-> IF s = "STDOUT" THEN 8 ELSE 9]
=============================================================================
