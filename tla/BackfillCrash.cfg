SPECIFICATION Spec
CONSTANTS
  Channels = {c1}
  MaxSlot = 4
  Chunk = 1
  Recent = 1
  IdleLimit = 1
  MaxRestarts = 2
  FetchMayFail = FALSE
  CommitMayFail = FALSE
  MayStartLate = FALSE
INVARIANTS TypeOK RangeStored 
PROPERTIES Covers
CHECK_DEADLOCK FALSE
