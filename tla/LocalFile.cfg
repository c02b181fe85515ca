\* A scrape and the management API, both under config_lock; two failing
\* calls, two kills.  A third inode is the second .tmp next to the file.
CONSTANTS
  short = short
  long = long
  scrape = scrape
  api = api
  main = main
  None = None
  Saver = {scrape, api}
  Locked = {scrape, api}
  Config = {short, long}
  Size <- MCSize
  MaxSize = 2
  Inode = {i1, i2, i3}
  MaxFaults = 2
  MaxKills = 2
SPECIFICATION Spec
SYMMETRY Symmetry
INVARIANTS
  TypeOK
  FileWhole
  SaveAllOrNothing
PROPERTY ImplementsAtomicFile
