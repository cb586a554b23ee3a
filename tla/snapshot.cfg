SPECIFICATION Spec
CONSTANTS
    s1 = s1
    d1 = d1
    Snappers <- OneSnapper
    Doctors <- OneDoctor
    Builtins <- TwoBuiltins
    Installations <- SomeInstallations
    Selections <- SomeSelections
    RootLevels <- SomeLevels
CHECK_DEADLOCK FALSE
INVARIANTS
    TypeOK
    FirstClaimWins
    CheckTellsSkips
    LoggerRestored
    EachSectionStandsAlone
    OnlyOddFailuresSpread
    SectionsNeverCollide
