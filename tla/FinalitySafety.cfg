SPECIFICATION Spec
CONSTANTS
  MaxBlock = 2
  MaxSlot = 2
  MaxCrashes = 1
  Seeding = {"backfill", "discover"}
  HasRpc = FALSE
  BedrockFinal = {TRUE, FALSE}
INVARIANTS TypeInv EvidenceInv
PROPERTIES NeverLowered
