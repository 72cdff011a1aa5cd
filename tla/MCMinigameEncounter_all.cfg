SPECIFICATION Spec
CONSTANTS
  Encounters = 3
  Duration = 8
  MaxHp = 3
  Invulnerable = 3
  Clamp = 2
  MaxMsgs = 2
CHECK_DEADLOCK FALSE
INVARIANTS EncounterSound HitsApart
PROPERTIES FirstOutcomeStays EncounterEnds
