SPECIFICATION FairSpec
CONSTANTS
    Garbage = Garbage
    Threads = {t1, t2}
    k1 = k1  k2 = k2  r1 = r1  r2 = r2  r3 = r3  a = a  b = b
    p1 = p1  p2 = p2  p3 = p3
    Keys = {k1}
    Revs = {r1, r2}
    DataCells = {a, b}
    Bodies <- OneCell
    Histories <- NoRevs
    SetRevsArgs <- OneRev
    DocSeqs = {1}
    Sinces = {}
    Deleted = {FALSE}
    Pages <- TwoPages
    PageOf <- OnePageEach
    SeqPage = p1
    JunkSeqs = {0}
    MaxRevs = 1
    MaxSeq = 2
    MaxDocSeq = 2
    MaxCells = 2
    AllocFails = TRUE
    NoRev = NoRev  NoObj = NoObj  NoTxn = NoTxn  NoIter = NoIter
    Nobody = Nobody  Leaked = Leaked
INVARIANTS
    TypeOK
    CheckStaysValid
PROPERTIES
    Linearizable
    ReadersGetIn
