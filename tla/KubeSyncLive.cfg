\* What must happen in the end, with two events, or one event and a call that
\* fails or hangs.  The view hides what no later step reads.
CONSTANTS
  i1 = i1
  i2 = i2
  Device = {d1}
  Lower <- MCLower
  IP = {i1, i2}
  NoIP = NoIP
  Absent = Absent
  Loop = Loop
  Handlers = {h1}
  GraceLimit = 2
  StartModes = {"running"}
  MaxEvents = 2
  MaxFaults = 1
SPECIFICATION LiveSpec
VIEW LiveView
CHECK_DEADLOCK FALSE
PROPERTIES
  SyncReturns
  StopTerminates
  Converges
