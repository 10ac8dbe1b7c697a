CONSTANTS Proc = {h1, h2}
  Reload = reload
  Nobody = nobody
  MaxCalls = 2
  MaxEvents = 1
  Profile = {x1, x2}
  MaxOps = 4
  Client = {p1, p2}
  Channel = {1, 2}
  NoChannel = 0
  NoLease = nolease
  TransportCalls = 5
  MaxTrouble = 2
SPECIFICATION MCSpec
INVARIANTS
    WaitersHear
CHECK_DEADLOCK FALSE
