---------------------------- MODULE MCBdbStore ----------------------------
(* Small instances of BdbStore for TLC.                                     *)
EXTENDS BdbStore, TLC

CONSTANTS k1, k2, r1, r2, r3, a, b, p1, p2, p3

\* Every record on one leaf page, as in a small database.
OnePage     == {p1}
AllOnOne    == [k \in Keys |-> p1]
\* Every record on a page of its own, as in a database that has split.
ThreePages  == {p1, p2, p3}
TwoPages    == {p1, p2}
OnePageEach == [k \in Keys |-> IF k = k1 THEN p2 ELSE p3]

NoRevs      == {<<>>}
OneCell     == {<<a>>}
TwoCells    == {<<a, b>>}
OneRev      == {<<r1>>}
None        == {}

\* The state without what no action reads.
WithoutResults == <<db, seqrec, owner, txn, cur, crashed, truth, uninit, owed>>

Symmetry    == Permutations(Threads)
=============================================================================
