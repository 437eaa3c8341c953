SPECIFICATION Spec
CONSTANTS
  Application = {a1, a2}
  Worker = {w1, w2}
  NoRow = NoRow
INVARIANTS
  ActiveDegreeUnique
