SPECIFICATION Spec
CONSTANTS
    Client = {c1, c2, c3}
    Watcher = {w1}
    Nobody = Nobody
    Requests <- AllKinds
    MaxSessions = 2
    MaxQMITransports = 2
    Watchdog = TRUE
    MaxAged = 1
SYMMETRY Symmetry
INVARIANTS
    TypeOK
    CardExclusion
    BarrierFence
PROPERTIES
    QueueIsFair
    ImplementsCardAccess
