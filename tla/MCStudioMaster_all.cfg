SPECIFICATION StudioSpec
CONSTANTS
  Reply <- MCReply
  Texts = {"old", "mine"}
  Old = "old"
  MaxActs = 3
  MaxStreams = 1
  MaxTasks = 2
  MaxFaults = 1
CHECK_DEADLOCK FALSE
INVARIANTS CardsAnswered
PROPERTIES ChatKept EditorFaithful
