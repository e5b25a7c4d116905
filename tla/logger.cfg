SPECIFICATION Spec
CONSTANTS
  Procs = {p1, p2}
  Types = {"T_LOG_LOOP", "T_LOG_DAY", "other"}
  dwMaxNum = 4
  dwMaxSize = 1
  Cycle = 3
  MaxMessages = 6
  MaxDayMessages = 3
  MaxTime = 4
INVARIANTS TypeOK OrderedFiles KeepsLatest
PROPERTIES OneDayKept
