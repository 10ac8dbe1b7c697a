SPECIFICATION HangingSpec
CONSTANTS
    Client = {c1, c2, c3}
    Watcher = {w1}
    Nobody = Nobody
    Requests <- LiveMix
    MaxSessions = 1
    MaxQMITransports = 1
    Watchdog = TRUE
    MaxAged = 0
PROPERTIES
    WaitersServed
CHECK_DEADLOCK FALSE
