SPECIFICATION LifecycleSpec
CONSTANTS
  Requests = {r1, r2}
  Calls = {c1, c2}
  Participants = {alice, bob}
  r1 = r1
  r2 = r2
  c1 = c1
  c2 = c2
  alice = alice
  bob = bob
  Operations = {"join", "edit", "abandon"}
  SoloScenario = FALSE
  Unlocked = Unlocked
  MasterMode = FALSE
  IsPlaytest = FALSE
  WriteAttempts = 2
  PlayCountThreshold = 2
  MemoryInterval = 2
SYMMETRY Symmetry
CHECK_DEADLOCK FALSE
INVARIANTS
  TurnsLogged
  JoinsSerialized
PROPERTIES
  EndingIsFinal
