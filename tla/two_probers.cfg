SPECIFICATION Spec
CONSTANTS
    p1 = p1
    p2 = p2
    NoProber = NoProber
    Probers <- TwoProbers
    Budget = 1
    Pieces = 2
    Capacity = 1
    AllowSocket <- BothKinds
    Faults <- ExitOrRaise
SYMMETRY ProberSymmetry
CHECK_DEADLOCK FALSE
INVARIANTS
    LifeCycle
    ScriptsNest
    AnswerHasAPlace
    EnvelopeIsWritten
    LostOnlyToAnother
PROPERTIES
    OneShot
