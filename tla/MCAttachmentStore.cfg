SPECIFICATION FairSpec
CONSTANTS
  Key = {x1}
  Worker = {w1, w2}
  NoKey = NoKey
INVARIANTS
  ActiveKeepsObject
PROPERTIES
  OrphansGo
CHECK_DEADLOCK FALSE
