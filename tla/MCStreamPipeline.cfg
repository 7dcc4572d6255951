CONSTANTS
    Events = {e1, e2}
    Typed = {e1}
    Flaws = {"none", "wrong_version", "no_payment"}
    MaxTime = 1
    Delay = 1
    MaxMessages = 3
    MaxCrashes = 1
SPECIFICATION Spec
INVARIANTS
    NothingSkipped
    WarehouseFollowsSilver
    SeenIsLoaded
    DeadLettersComplete
    CopiesNeedARepetition
CHECK_DEADLOCK FALSE
