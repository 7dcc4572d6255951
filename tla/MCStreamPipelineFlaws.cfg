CONSTANTS
    Events = {e1, e2}
    Typed = {e1}
    Flaws = {"none", "wrong_version", "no_version", "no_payment"}
    MaxTime = 1
    Delay = 1
    MaxMessages = 2
    MaxCrashes = 1
SPECIFICATION FairSpec
CHECK_DEADLOCK FALSE
PROPERTIES
    EveryMessageSettles
