\* The main thread saves what a reload brought while a scrape saves.
CONSTANTS
  short = short
  long = long
  scrape = scrape
  api = api
  main = main
  None = None
  Saver = {scrape, main}
  Locked = {scrape}
  Config = {short, long}
  Size <- MCSize
  MaxSize = 2
  Inode = {i1, i2, i3, i4}
  MaxFaults = 0
  MaxKills = 0
SPECIFICATION Spec
INVARIANT FileWhole
