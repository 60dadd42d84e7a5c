SPECIFICATION Spec
CONSTANTS
    Garbage = Garbage
    t1 = t1  t2 = t2  c1 = c1  c2 = c2  a = a  r1 = r1
    Threads = {t1, t2}
    Conns = {c1, c2}
    Keys = {k1, k2}
    Revs = {r1}
    DataCells = {a}
    Bodies <- OneCell
    Histories <- SomeRevs
    DocSeqs = {1}
    Connections <- OwnOrShared
    Readers = {t2}
    Replacers = {t1}
    MaxRevs = 1
    RevLen = 16
    MaxSeq = 3
    NoRev = NoRev  NoRow = NoRow  NoTx = NoTx  NoCall = NoCall  NoIter = NoIter  NoMark = NoMark
INVARIANTS
    CheckedIsCurrent
    CleanSeqsDistinct
    MarkCoversLaterPuts
    StoredAsMeant
PROPERTIES
    SuccessIsCommitted
SYMMETRY KeySymmetry
VIEW WithoutResults
CHECK_DEADLOCK FALSE
