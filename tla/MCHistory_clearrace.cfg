SPECIFICATION MCSpec
CONSTANTS
    A = A
    B = B
    Card = {A, B}
    NoCard = NoCard
    Long <- OneLong
    Single = {}
    Garbled <- OneGarbled
    ManualClear = TRUE
    Truncates = TRUE
    Refuses = FALSE
    MaxClock = 1
    Call = {"in", "out"}
    Incoming = {"in"}
    NoCall = NoCall
    Index = {1, 2}
    Fault = {"identity", "query", "listing", "save"}
    MaxRecords = 2
    Id = {r1}
    MaxVersion = 2
    Dir = {d1, d2}
    None = None
    Owner = {o1, o2}
    Keep = 2
    MaxFiles = 4
    BackupFault = {"save", "config", "crash"}
PROPERTIES
    SIMNeverErased
CHECK_DEADLOCK FALSE
