SPECIFICATION MCSpec
CONSTANTS
  Requests = {1, 2, 3}
  Participants = {alice, bob}
  alice = alice
  bob = bob
  MasterMode = TRUE
  IsPlaytest = FALSE
  WriteAttempts = 2
  PlayCountThreshold = 2
  MemoryInterval = 2
  MaxOpen = 2
ACTION_CONSTRAINT Arrivals
CHECK_DEADLOCK FALSE
INVARIANTS
  ConsistentStory
PROPERTIES
  TurnsTaken
  ImplementsLog
  OutcomesStand
  RequestSettles
