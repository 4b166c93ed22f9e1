SPECIFICATION FairSpec
CONSTANTS
  MaxBlock = 1
  MaxSlot = 2
  MaxCrashes = 1
  Seeding = {}
  HasRpc = TRUE
  BedrockFinal = {TRUE, FALSE}
INVARIANT ReportEvidenced
PROPERTIES Promoted
CHECK_DEADLOCK FALSE
