SPECIFICATION FairSpec
CONSTANTS
  Fields <- MCFields
  Location = "current_location_id"
  None = None
  Values <- MCValues
  Tags = {"win", "lose", "timeout"}
  Snapshots <- MCSnapshots
  MaxRoundTrips = 2
  MaxCalls = 2
CHECK_DEADLOCK FALSE
INVARIANTS
  WorldSound
  RulesKept
  TrueIsScheduled
PROPERTIES
  TurnEnds
