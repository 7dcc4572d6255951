SPECIFICATION FairSpec
CONSTANTS
    Markets = {kenya}
    All = all
    Filters = {none, late}
    NoFilter = none
    MaxCalls = 3
    MaxExpired = 1
INVARIANTS
    ShownAsAsked
    CurrentAtRest
PROPERTY
    WaitingEnds
CHECK_DEADLOCK FALSE
