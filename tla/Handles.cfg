SPECIFICATION FairSpec
CONSTANTS
    n1 = n1  n2 = n2
    Names = {n1, n2, lite}
    BdbNames = {n1, n2}
    SqliteNames = {lite}
    Spells <- SomeSpells
    MaxHandles = 3
    Workers = {w1, w2}
    MaxSize = 2
    JunkRefs = {0}
    Existing = {n1}
    MaxRefs = 2
    Nobody = Nobody
INVARIANTS
    SafeUntilEnded
    HoldsMostRecent
    SafeWhileRecent
PROPERTIES
    MutexComesBack
CHECK_DEADLOCK FALSE
