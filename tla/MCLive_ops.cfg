SPECIFICATION MCSpec
CONSTANTS
    Caller = {w1, w2, w3}
    MaxGeneration = 2
    Nil = Nil
    Id = {r1}
    MaxVersion = 2
    Dir = {d1, d2}
    None = None
    Owner = {o1, o2}
    Keep = 1
    MaxFiles = 3
    Fault = {"save", "config", "crash"}
    Client = {c1, c2}
    MaxPlugs = 2
    MaxTrouble = 1
    Slot = {1, 2}
    Segments = 2
    MaxSends = 2
    Card = {A}
    NoCard = NoCard
    Long <- OneLong
    Single = {}
    Garbled = {}
    ManualClear = FALSE
    Truncates = TRUE
    Refuses = TRUE
    MaxClock = 0
PROPERTIES
    GateWorks
    ChangesReachBackup
    ModuleIsFound
    SIMMessagesArchived
CHECK_DEADLOCK FALSE
