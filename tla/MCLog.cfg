SPECIFICATION FairLogSpec
CONSTANTS
    MaxJobs = 1
    MaxLines = 2
    Ring = 1
    MaxBatch = 2
    MaxTrouble = 1
CHECK_DEADLOCK FALSE
INVARIANTS
    LinesThenVerdict
PROPERTY
    LogArrives
