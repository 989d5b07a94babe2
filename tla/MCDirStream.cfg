CONSTANTS
    t1 = t1
    t2 = t2
    Threads <- MCThreads
    NoThread = NoThread
    MaxName = 3
    MaxBatch = 2
SPECIFICATION FairSpec
INVARIANTS
    ScanPosition
    TestStillHolds
    ErrnoKept
PROPERTIES
    Refines
    LockReleased
