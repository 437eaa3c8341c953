SPECIFICATION FairSpec
CONSTANTS
  Candidate = {c1}
  Slot = {}
  Registration = {r1, r2}
  Worker = {w1, w2}
  Attempts = 2
  NoSlot = NoSlot
  NoCandidate = NoCandidate
  NoRow = NoRow
  Absent = Absent
PROPERTIES
  RequestsEnd
  BookingCloses
CHECK_DEADLOCK FALSE
