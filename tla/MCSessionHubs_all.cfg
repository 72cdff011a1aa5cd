SPECIFICATION FairSpec
CONSTANTS
  Participants = {alice, bob}
  Connections = {n1, n2, n3}
  Viewers = {v1, v2}
  None = None
  MaxEvents = 2
  MaxNotices = 3
  alice = alice
  bob = bob
  n1 = n1
  n2 = n2
  n3 = n3
  v1 = v1
  v2 = v2
CHECK_DEADLOCK FALSE
CONSTRAINTS
  OneHub
INVARIANTS
  HubsSound
PROPERTIES
  EndReachesConnected
  QueuedIsSeen
