SPECIFICATION StudioSpec
CONSTANTS
  Reply <- MCFields
  Texts = {"old", "mine"}
  Old = "old"
  MaxActs = 1
  MaxStreams = 1
  MaxTasks = 2
  MaxFaults = 0
CHECK_DEADLOCK FALSE
INVARIANT FieldsKept
