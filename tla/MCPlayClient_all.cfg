SPECIFICATION Spec
CONSTANTS
  Pids = {p1}
  p1 = p1
  MaxTurns = 2
  PageSize = 1
  MaxStreams = 3
  MaxVisits = 1
  MaxAttempts = 2
CHECK_DEADLOCK FALSE
INVARIANTS ScreenSound
PROPERTIES OwnDraft NarrationEnds
