SPECIFICATION FairSpec
CONSTANTS
  Calls = {c1, c2, c3}
  c1 = c1
  c2 = c2
  c3 = c3
  PatchFields = {"story", "tag", "status"}
  MayRestart = TRUE
  Original = Original
  Empty = Empty
CHECK_DEADLOCK FALSE
INVARIANTS
  JobsApartUnlessPatched
  PlayedIsKept
PROPERTIES
  ListingIsEarned
  PublishSettles
