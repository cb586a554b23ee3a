SPECIFICATION FairSpec
CONSTANTS
    Hosts <- SomeHosts
    Processes <- SomeProcesses
    NoProcess = NoProcess
    NoKnob = NoKnob
    ProberVersion <- Prober
    MaxChanges = 2
CHECK_DEADLOCK FALSE
INVARIANTS
    TypeOK
    OkIsEarned
    FailIsReal
    NoObstacleUnmentioned
    OnlyInterpretersAreRun
    ExitCodeTellsVerdict
PROPERTY DiagnosisReturns
