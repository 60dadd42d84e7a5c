------------------------------ MODULE MCSqlite ------------------------------
(* Small instances of SqliteStore for TLC.                                  *)
EXTENDS SqliteStore, TLC

CONSTANTS t1, t2, c1, c2, a, r1

\* Two threads on connections of their own, and two that share one.
OwnOrShared == {[t \in Threads |-> IF t = t1 THEN c1 ELSE c2], [t \in Threads |-> c1]}

OneCell     == {<<a>>}
SomeRevs    == {<<r1>>}

\* The state without the last result, which no action reads.
WithoutResults == <<conn, docs, meta, tx, call, it, mark, crashed, after>>

KeySymmetry == Permutations(Keys)
=============================================================================
