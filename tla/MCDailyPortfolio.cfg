SPECIFICATION FairSpec
CONSTANTS
    Retries = 1
    MaxRuns = 2
    MaxVersion = 2
    MaxLost = 1
INVARIANT
    AuditedMartsWereTested
PROPERTY
    RunsEnd
CHECK_DEADLOCK FALSE
