CONSTANTS
    Threads = {t1, t2}
    Sockets = {s1, s2, s3, s4}
    INVALID_SOCKET = INVALID_SOCKET
    Requests <- MCRequests
SPECIFICATION Spec
SYMMETRY Symmetry
INVARIANTS
    OwnsWhatItReported
    ErrorSurvivesCleanup
    FirstReachesSecond
