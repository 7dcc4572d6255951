CONSTANTS
    MaxEvents = 13
    MaxBatch = 3
    MaxRuns = 5
    MaxAudit = 2
    SourceLimit = 2
    SeedNormal = 2
    SeedDuplicates = 1
    SeedInvalid = 3
    SeedLate = 1
SPECIFICATION Spec
INVARIANTS
    Inv
    RoomForEveryCorrection
    FactsMatchAccepted
    OnlyRunsCanBlockReplay
    EveryReplayHasItsRun
    CountersAgree
    SuppressedBehindOriginal
PROPERTIES
    HistoryIsKept
    ImplementsLedger
