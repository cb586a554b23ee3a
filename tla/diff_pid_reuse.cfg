SPECIFICATION Spec
CONSTANTS
    Interval = 2
    NoCount = NoCount
    Counts <- SomeCounts
    MaxSamples = 3
    MaxTime = 7
    MaxProcess = 2
CHECK_DEADLOCK FALSE
INVARIANT DeltaOfOneProcess
