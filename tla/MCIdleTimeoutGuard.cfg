SPECIFICATION FairSpec
CONSTANTS
  Tab = {t1, t2}
  Idle = 1
  Absolute = 2
  Prompt = 1
  Extension = {2}
  MaxTime = 2
  MaxFlight = 1
INVARIANTS
  ClockWithinAbsolute
PROPERTIES
  EveryTabLeaves
  ClocksAgree
CHECK_DEADLOCK FALSE
