SPECIFICATION Spec
CONSTANTS
    Procs = {p1, p2}
    Clients = {c1, c2}
    MaxFaults = 1
    None = None
    MaxFdNumber = 1
    FirstSize = 1
    MaxRequests = 3
    MaxOpens = 3
INVARIANTS
    ConnectionsAccounted
    DispatchSound
PROPERTIES
    ShutdownHeeded
    ClientsTaken
    RequestsComplete
CHECK_DEADLOCK FALSE
