SPECIFICATION Spec
CONSTANTS
    p1 = p1
    p2 = p2
    NoProber = NoProber
    Probers <- TwoProbers
    Budget = 1
    Pieces = 2
    Capacity = 1
    AllowSocket <- SocketOnly
    Faults <- NoFaults
CHECK_DEADLOCK FALSE
INVARIANT TimeoutMeansNoSafePoint
