SPECIFICATION Spec
CONSTANTS
    v = v  w = w  silent = silent  single = single  double = double
    Keys = {k1, k2, k3}
    Docs = {silent, single, double}
    Values = {v, w}
    Emits <- ThreeKinds
    MaxSeq = 4
    NoObj = NoObj
INVARIANTS
    TypeOK
    MappedOnce
    ReducesAll
SYMMETRY Symmetry
