CONSTANTS
    Entry = "getopt_long"
    Arguments <- MCArguments
    LaterArguments <- FewArguments
    OptstringPrefixes <- MCPrefixes
    Takes <- MCTakes
    POSIXLY_CORRECT = FALSE
    MaxScans = 3
SPECIFICATION Spec
CHECK_DEADLOCK FALSE
INVARIANTS
    ResultsInOrder
    OperandsLast
    ArgvStaysStable
