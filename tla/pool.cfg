SPECIFICATION FairSpec
CONSTANTS
  min_threads = 0
  max_threads = 5
  MaxRequired = 6
  MaxPills = 3
CHECK_DEADLOCK FALSE
INVARIANTS TypeOK Accounted StaysUp
PROPERTIES SignalEndsRun
