SPECIFICATION SoundSpec
CONSTANTS
  Stories <- MCStories
  Moods <- MCMoods
  Tracks <- MCTracks
  InitialMood <- MCInitialMood
  MaxVisits = 2
  MaxTurns = 2
  MaxToggles = 1
CHECK_DEADLOCK FALSE
INVARIANTS OneTrackHeard EncounterHonoursMute
