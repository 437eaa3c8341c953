SPECIFICATION Spec
CONSTANTS
  Candidate = {c1, c2}
  Slot = {s1, s2}
  Registration = {r1, r2}
  Worker = {w1, w2}
  Attempts = 2
  NoSlot = NoSlot
  NoCandidate = NoCandidate
  NoRow = NoRow
  Absent = Absent
SYMMETRY Symmetry
INVARIANTS
  ActiveUnique
  NoCircularWait
  OfferedIsGranted
  ScreensAgree
PROPERTIES
  CancelledStays
  ImplementsSheet
CHECK_DEADLOCK FALSE
