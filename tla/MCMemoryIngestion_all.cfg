SPECIFICATION Spec
CONSTANTS
  Batches = {b1, b2}
  b1 = b1
  b2 = b2
  Turns = {1, 2}
  Submissions <- TwoTurns
  Workers = {w1, w2}
  w1 = w1
  w2 = w2
  GroupSize = 2
  MaxRuns = 2
  MaxFaults = 3
SYMMETRY Symmetry
CHECK_DEADLOCK FALSE
INVARIANTS
  BatchesSound
  NoFactLost
  ReportsTrue
