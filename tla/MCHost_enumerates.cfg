CONSTANTS Caller = {c1, c2}
  Pooled = {o1, o2}
  Nothing = nothing
  Kind = {"normal", "sms"}
  QueueCap = 1
  Threshold = 2
  MaxCalls = 3
  Message = {a, b}
  Parts = {a, b}
  Job = {j1, j2}
  User = {u1, u2}
  Collector = {d1, d2}
  None = none
  MaxEvents = 4
  MaxPlugs = 3
  MaxTrouble = 2
  Slot = {1, 2}
  Segments = 2
  MaxSends = 2
  MaxScripts = 2
  DeviceLease = 2
  HostLease = 3
  Module = {m1, m2}
  MaxMeddling = 3
  NoFile = nofile
  Card = {k1, k2}
  Text = {t1, t2}
  Updater = {u1, u2}
  Device = {d1, d2}
  Record = {r1, r2, r3}
  MaxChanges = 4
SPECIFICATION HubSpec
PROPERTIES
    CallsSerialized
CHECK_DEADLOCK FALSE
