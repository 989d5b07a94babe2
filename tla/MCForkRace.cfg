CONSTANTS
    LastHandle = 5
    ScanLimit = 4
    StdHandles <- MCStdHandles
    ConsoleHandle = 1
    InitialKinds <- FilesOnly
    OtherKinds <- FilesAndProcesses
    MaxForks = 1
    MaxOpens = 1
    Pages = 1
    Layouts <- OneLayout
SPECIFICATION Spec
CHECK_DEADLOCK FALSE
INVARIANTS
    NoForeignHandles
