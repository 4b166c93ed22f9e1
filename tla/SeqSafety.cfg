CONSTANTS
  Modes <- AllModes
  Genesis = 1
  Chunk = 2
  Window = 1
  FetchMayFail = FALSE
  CommitMayFail = FALSE
  MayPrune = TRUE
  OtherIds = {3}
  MaxBlock = 3
  MaxResets = 0
  MaxRestarts = 2
SPECIFICATION Spec
INVARIANTS TypeOK NoHole PassComplete
CHECK_DEADLOCK FALSE
