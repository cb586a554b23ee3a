SPECIFICATION ProberSpec
CONSTANTS
    p1 = p1
    p2 = p2
    NoProber = NoProber
    Probers <- OneProber
    Budget = 2
    Pieces = 3
    Capacity = 1
    AllowSocket <- BothKinds
    Faults <- EveryFault
CHECK_DEADLOCK FALSE
INVARIANTS
    TypeOK
    LifeCycle
    TargetOutwaitsProber
    CutOnlyByExit
    AnsweredLeavesNothing
    LeftoversAreExplained
PROPERTIES
    EveryCallReturns
    OneShotAndReturns
