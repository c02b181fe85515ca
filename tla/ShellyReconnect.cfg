\* A plug reconnects before the server has noticed that it lost it.
CONSTANTS
  Plug = {p1}
  Conn = {c1, c2}
  Scrape = {s1}
  failure = failure
  partial = partial
  Reply = {failure, partial}
  Result <- MCResult
  Bad = Bad
  None = None
SPECIFICATION Spec
SYMMETRY Symmetry
CHECK_DEADLOCK FALSE
INVARIANT ConnectedIsListed
