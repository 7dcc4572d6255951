CONSTANTS
    Threads = {t1, t2}
    Browsers = {b1, b2}
    SessionIds = {s1, s2, s3}
    NoSession = NoSession
    Nobody = Nobody
    MaxSessions = 2
    MaxSlots = 2
    Ttl = 2
    Stall = 1
    MaxTime = 4
    MaxChanges = 1
    MaxMishaps = 1
SYMMETRY Symmetry
SPECIFICATION Spec
INVARIANTS
    ResourcesHeld
    OneTransactionPerVisitor
    ConfirmedChangesStay
    VisitorsHaveWarehouses
    OrphansComeFromMishaps
PROPERTIES
    InUseIsNeverRemoved
