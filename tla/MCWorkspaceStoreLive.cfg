CONSTANTS
    Threads = {t1, t2, t3}
    Browsers = {b1}
    SessionIds = {s1, s2}
    NoSession = NoSession
    Nobody = Nobody
    MaxSessions = 1
    MaxSlots = 2
    Ttl = 1
    Stall = 1
    MaxTime = 2
    MaxChanges = 0
    MaxMishaps = 0
SPECIFICATION FairSpec
PROPERTIES
    AdmittedIsAnswered
    OpenTransactionsAreSpared
