CONSTANTS
    MaxEvents = 9
    MaxBatch = 2
    MaxRuns = 4
    MaxAudit = 2
    SourceLimit = 1
    SeedNormal = 1
    SeedDuplicates = 1
    SeedInvalid = 1
    SeedLate = 1
SPECIFICATION TxSpec
PROPERTIES
    ImplementsWorkspace
    RefusedForAReason
    CommitsWhatWasAsked
