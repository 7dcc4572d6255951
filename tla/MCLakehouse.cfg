SPECIFICATION Spec
CONSTANTS
    Events = {e1, e2}
    MaxDay = 2
    MaxMessages = 2
    MaxBackfills = 2
    MaxAttempts = 3
SYMMETRY Symmetry
INVARIANT
    DamageHasACause
PROPERTY
    RebuildRestores
CHECK_DEADLOCK FALSE
