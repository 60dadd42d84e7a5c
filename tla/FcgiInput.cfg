SPECIFICATION Spec
CONSTANTS
    Requests <- MCRequests
    Later = {"Questions", "Early"}
    HeaderLen = 2
    BuffLen = 3
    ReadSizes = {2}
    MaxRequests = 2
INVARIANTS
    TypeOK
    StreamsIntact
    ParamsIntact
    AnswersInOrder
    NeverRefused
    NoMutualWait
PROPERTIES
    CallReturns
CHECK_DEADLOCK FALSE
