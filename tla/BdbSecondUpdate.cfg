SPECIFICATION Spec
CONSTANTS
    Garbage = Garbage
    Threads = {t1}
    k1 = k1  k2 = k2  r1 = r1  r2 = r2  r3 = r3  a = a  b = b
    p1 = p1  p2 = p2  p3 = p3
    Keys = {k1}
    Revs = {r1, r2}
    DataCells = {a, b}
    Bodies <- TwoCells
    Histories <- NoRevs
    SetRevsArgs <- None
    DocSeqs = {1}
    Sinces = {}
    Deleted = {FALSE}
    Pages <- OnePage
    PageOf <- AllOnOne
    SeqPage = p1
    JunkSeqs = {0, 1, 9}
    MaxRevs = 1024
    MaxSeq = 4
    MaxDocSeq = 4
    MaxCells = 2
    AllocFails = FALSE
    NoRev = NoRev  NoObj = NoObj  NoTxn = NoTxn  NoIter = NoIter
    Nobody = Nobody  Leaked = Leaked
INVARIANTS
    AlwaysReadable
