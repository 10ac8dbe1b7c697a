SPECIFICATION AgingSpec
CONSTANTS
    Client = {c1, c2, c3}
    Watcher = {}
    Nobody = Nobody
    Requests <- PriorityMix
    MaxSessions = 1
    MaxQMITransports = 1
    Watchdog = FALSE
    MaxAged = 3
PROPERTIES
    AgingPreventsStarvation
