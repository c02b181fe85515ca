\* Two plugs, or one that connects twice, and overlapping scrapes.
CONSTANTS
  Plug = {p1, p2}
  Conn = {c1, c2}
  Scrape = {s1, s2}
  failure = failure
  partial = partial
  Reply = {failure, partial}
  Result <- MCResult
  Bad = Bad
  None = None
SPECIFICATION FairSpec
CHECK_DEADLOCK FALSE
INVARIANTS
  TypeOK
  RegistryNamesHandlers
  OwnReading
  NoLeakedFuture
PROPERTIES
  ScrapeReturns
  DeadIsForgotten
