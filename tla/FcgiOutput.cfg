SPECIFICATION Spec
CONSTANTS
    HeaderLen = 2
    Size <- MCSize
    PutSizes = {5}
    Statuses = {1, 2}
    MaxPut = 10
    MaxRequests = 2
INVARIANTS
    TypeOK
    WholeRecords
    BytesInOrder
    EndsOnceAndLast
PROPERTIES
    CallEnds
CHECK_DEADLOCK FALSE
