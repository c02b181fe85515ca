\* One device, the loop and one handler, with one call that fails or hangs.
CONSTANTS
  i1 = i1
  i2 = i2
  Device = {d1}
  Lower <- MCLower
  IP = {i1, i2}
  NoIP = NoIP
  Absent = Absent
  Loop = Loop
  Handlers = {h1}
  GraceLimit = 3
  StartModes = {"absent", "running"}
  MaxEvents = 3
  MaxFaults = 1
SPECIFICATION WatchedSpec
SYMMETRY Symmetry
VIEW WatchedView
CHECK_DEADLOCK FALSE
INVARIANTS
  TypeOK
  PublishedWasHealthy
  GraceRespected
  SyncsSerialized
  QuietSyncRepairs
