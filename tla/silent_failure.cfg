SPECIFICATION Spec
CONSTANTS
    p1 = p1
    p2 = p2
    NoProber = NoProber
    Probers <- OneProber
    Budget = 1
    Pieces = 2
    Capacity = 1
    AllowSocket <- SocketOnly
    Faults <- Unprintable
CHECK_DEADLOCK FALSE
INVARIANT FailureIsReported
