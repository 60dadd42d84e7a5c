SPECIFICATION FairSpec
CONSTANTS
    Garbage = Garbage
    a = a  b = b  del = del
    Keys = {k1, k2}
    Edits = {a, del}
    Deletion = del
    Answers = {"theirs"}
    KeepsLastSeq = FALSE
    MaxGeneration = 3
    MaxUpdates = 3
    NoObj = NoObj  NoRev = NoRev  NoSeq = NoSeq
PROPERTIES
    Converges
