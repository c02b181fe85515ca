\* One scrape, two background PUTs, one request or kill, one failing call.
CONSTANTS
  ta = ta
  tb = tb
  tx = tx
  None = None
  Stub = ta
  StubMode = StubMode
  Type = {ta, tb, tx}
  Supported = {ta, tb}
  Metric = {"m1"}
  Offers <- MCOffers
  EnvTypes = {ta, None, StubMode}
  Files <- MCFiles
  Edits <- MCEdits
  Scrape = {1}
  Sync = {1, 2}
  MaxObjects = 4
  MaxEvents = 1
  MaxFaults = 1
SPECIFICATION FairSpec
VIEW View
\* Nothing has to happen once everything is settled.
CHECK_DEADLOCK FALSE
INVARIANTS
  TypeOK
  CollectorsMatch
  FileStarts
PROPERTY SettlesDown
