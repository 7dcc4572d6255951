SPECIFICATION Spec
CONSTANTS
    MinCustomers = 1
    MaxCustomers = 1
    MaxEvents = 5
    MaxRuns = 2
    MaxRecords = 5
INVARIANTS
    FirstDeliveryDecides
    MartsTellTheStory
    ArtifactsAgree
CHECK_DEADLOCK FALSE
