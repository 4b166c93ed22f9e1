SPECIFICATION FairSpec
CONSTANTS
  Channels = {c1}
  MaxSlot = 3
  Chunk = 1
  Recent = 1
  IdleLimit = 1
  MaxRestarts = 1
  FetchMayFail = TRUE
  CommitMayFail = TRUE
  MayStartLate = TRUE
PROPERTY Ends
CHECK_DEADLOCK FALSE
