SPECIFICATION FairSpec
CONSTANTS
  Worker = {w1, w2}
  MaxTime = 3
  Lifetime = 1
  Idle = 1
  Absolute = 2
  Extension = {1}
  NoRecord = NoRecord
  NoToken = NoToken
  Free = Free
INVARIANTS
  AbsoluteTimeout
  AnswerFresh
PROPERTIES
  LockKept
  RequestsEnd
CHECK_DEADLOCK FALSE
