SPECIFICATION Spec
CONSTANTS
    Visitors = {v1, v2}
    Addresses = {a1, a2}
    Minute = 2
    Ttl = 4
    MaxRequests = 2
    MaxMutations = 1
    MaxNew = 2
    MaxAddresses = 1
    MaxSessions = 2
    MaxTime = 7
    MaxRestarts = 1
SYMMETRY Symmetry
INVARIANTS
    WithinTwiceTheLimit
    RefusalsAreEarned
    ActiveVisitorsStay
CHECK_DEADLOCK FALSE
