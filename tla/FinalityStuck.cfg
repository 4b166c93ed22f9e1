SPECIFICATION FairSpec
CONSTANTS
  MaxBlock = 1
  MaxSlot = 2
  MaxCrashes = 0
  Seeding = {}
  HasRpc = FALSE
  BedrockFinal = {FALSE}
PROPERTY CatchesUp
CHECK_DEADLOCK FALSE
