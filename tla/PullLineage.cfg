SPECIFICATION Spec
CONSTANTS
    Garbage = Garbage
    a = a  b = b  del = del
    Keys = {k1}
    Edits = {a, b, del}
    Deletion = del
    Answers = {"mine", "theirs", "merged"}
    KeepsLastSeq = TRUE
    MaxGeneration = 4
    MaxUpdates = 4
    NoObj = NoObj  NoRev = NoRev  NoSeq = NoSeq
INVARIANTS
    TypeOK
    GenerationMatches
PROPERTIES
    NoSilentLoss
SYMMETRY Symmetry
