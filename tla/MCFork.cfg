CONSTANTS
    LastHandle = 4
    ScanLimit = 3
    StdHandles <- MCStdHandles
    ConsoleHandle = 1
    InitialKinds <- MCInitialKinds
    OtherKinds <- EventsOnly
    MaxForks = 2
    MaxOpens = 1
    Pages = 4
    Layouts <- MCLayouts
SPECIFICATION FairSpec
CHECK_DEADLOCK FALSE
INVARIANTS
    ChildRunsPatched
    ChildHasItsMemory
    NoForeignHandles
    ResultsTellTheTruth
PROPERTIES
    FilesAreInherited
    ClosesItsOwn
    ChildrenReturn
