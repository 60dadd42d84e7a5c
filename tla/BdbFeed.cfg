SPECIFICATION Spec
CONSTANTS
    Garbage = Garbage
    Threads = {t1, t2}
    k1 = k1  k2 = k2  r1 = r1  r2 = r2  r3 = r3  a = a  b = b
    p1 = p1  p2 = p2  p3 = p3
    Keys = {k1, k2}
    Revs = {r1}
    DataCells = {a, b}
    Bodies <- TwoCells
    Histories <- NoRevs
    SetRevsArgs <- None
    DocSeqs = {1}
    Sinces = {0, 1}
    Deleted = {FALSE}
    Pages <- ThreePages
    PageOf <- OnePageEach
    SeqPage = p1
    JunkSeqs = {2}
    MaxRevs = 1024
    MaxSeq = 3
    MaxDocSeq = 3
    MaxCells = 2
    AllocFails = FALSE
    NoRev = NoRev  NoObj = NoObj  NoTxn = NoTxn  NoIter = NoIter
    Nobody = Nobody  Leaked = Leaked
INVARIANTS
    ScanComplete
    FirstUpdateReadable
PROPERTIES
    SeqOrder
VIEW WithoutResults
SYMMETRY Symmetry
