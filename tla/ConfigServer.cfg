\* Three requests on one device, handled concurrently, with failing
\* statements and one restart of the server.
CONSTANTS
  d1 = d1
  i1 = i1
  i2 = i2
  bad = bad
  raw = raw
  c1 = c1
  c2 = c2
  Device = {d1}
  Request = {r1, r2, r3}
  GoodIP = {i1, i2}
  BadIP = {bad, raw}
  NoIP = NoIP
  Conf = {c1, c2}
  Omitted = Omitted
  NoRow = NoRow
  NoCall = NoCall
  Calls <- MCCalls
  Seed <- MCSeed
  MaxInFlight = 3
  MaxBoots = 2
  DbErrors = TRUE
SPECIFICATION Spec
SYMMETRY Symmetry
CHECK_DEADLOCK FALSE
INVARIANTS
  TypeOK
  AddressesVetted
  CreatorsPaidFor
PROPERTY ImplementsRegistry
