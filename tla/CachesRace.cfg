SPECIFICATION FairSpec
CONSTANTS
  r1 = r1
  Runs = {r1}
  f = f
  Preflights = {f}
  Steps = 1
  Interval = 2
  MaxChapters = 2
  MaxCrashes = 1
  MaxLosses = 0

PROPERTY TxSettles
CHECK_DEADLOCK FALSE
