CONSTANTS
    Threads = {t1}
    Sockets = {s1, s2, s3}
    INVALID_SOCKET = INVALID_SOCKET
    Requests <- StreamRequests
SPECIFICATION Spec
SYMMETRY Symmetry
INVARIANTS
    FailsOnlyWhenWinsockFails
