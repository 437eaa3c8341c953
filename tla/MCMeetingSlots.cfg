SPECIFICATION Spec
CONSTANTS
  Worker = {w1, w2}
  Interval <- Intervals
  MeetingDay <- Day
  MaxBatch = 3
SYMMETRY Workers
INVARIANTS
  SlotsDisjoint
  SortOrderTotal
