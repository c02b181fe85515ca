\* One device of each type: two overlapping scrapes of a RAPL counter that
\* wraps around, or two overlapping scrapes of tegrastats.
CONSTANTS
  Scrape = {s1, s2}
  MaxRange = 2
  MaxEnergy = 3
  MaxClock = 2
  MaxJiffies = 2
  None = None
  Thread = {t1, t2}
  Pid = {p1, p2, p3}
  Line <- MCLine
  Absent = Absent
SPECIFICATION CollectorsSpec
SYMMETRY Symmetry
VIEW View
CHECK_DEADLOCK FALSE
INVARIANTS
  TypeOK
  PowerHonest
  UsageIsPercent
  JetsonTypeOK
  NoProcessLeft
  AbandonedEnds
  CoresAgree
