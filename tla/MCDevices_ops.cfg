SPECIFICATION MCSpec
CONSTANTS
    Caller = {p1, p2}
    Nobody = nobody
    IndTx = {0}
    MaxCollectors = 1
    IndicationCap = 1
    MaxTx = 4
    MaxInd = 2
    MaxSessions = 3
    Message = {m1, m2, m3}
    Client = {c1, c2}
    None = None
    Outgoing = {m3}
    Index = {0, 1}
    MaxSets = 2
SYMMETRY Symmetry
INVARIANTS
    MessagesAreWhole
    NobodyForgotten
    ClientsAccounted
    USSDSessionsSound
    ErasedBackendSMSWasRead
    SelectionAsReported
CHECK_DEADLOCK FALSE
