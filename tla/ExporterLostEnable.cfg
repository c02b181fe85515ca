CONSTANTS
  ta = ta
  tb = tb
  tx = tx
  None = None
  Stub = ta
  StubMode = StubMode
  Type = {ta, tb, tx}
  Supported = {ta, tb}
  Metric = {"m1"}
  Offers <- MCOffers
  EnvTypes = {ta, None}
  Files <- MCFiles
  Edits <- MCEdits
  Scrape = {1}
  Sync = {1, 2}
  MaxObjects = 4
  MaxEvents = 2
  MaxFaults = 0
SPECIFICATION Spec
VIEW FullView
CHECK_DEADLOCK FALSE
INVARIANT EnableSticks
