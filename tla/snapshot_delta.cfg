SPECIFICATION Spec
CONSTANTS
    Types <- ThreeTypes
    TopN = 2
    Worlds <- SomeWorlds
    MaxSnapshots = 3
    Null = Null
CHECK_DEADLOCK FALSE
INVARIANTS
    TypeOK
    DeltasBoundTheChange
    TypesSumToTotal
    DeltasAddUp
    AbsenceIsNotZero
