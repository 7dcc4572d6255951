SPECIFICATION ProducerSpec
CONSTANTS
    MinCustomers = 1
    MaxCustomers = 2
    MaxEvents = 4
    Runs = {r1, r2}
    Replicas = 1
    MaxQueue = 2
    Every = 2
SYMMETRY Symmetry
INVARIANTS
    StoryIsCoherent
    NeededComesFirst
CHECK_DEADLOCK FALSE
