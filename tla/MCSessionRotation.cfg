SPECIFICATION Spec
CONSTANTS
  Worker = {w1, w2}
  MaxTime = 1
  Lifetime = 1
  Idle = 2
  Absolute = 3
  Extension = {1}
  NoRecord = NoRecord
  NoToken = NoToken
  Free = Free
INVARIANTS
  RotationSafe
CHECK_DEADLOCK FALSE
