CONSTANTS
  Modes <- AllModes
  Genesis = 1
  Chunk = 1
  Window = 1
  FetchMayFail = FALSE
  CommitMayFail = FALSE
  MayPrune = FALSE
  OtherIds = {3}
  MaxBlock = 3
  MaxResets = 1
  MaxRestarts = 0
SPECIFICATION FairSpec
PROPERTIES Unstuck Follows FinalFollows
CHECK_DEADLOCK FALSE
