SPECIFICATION FairSpec
CONSTANTS
  Tip = 4
  FirstBatch = 1
  Batch = 2
  MinTxs = 1
  MoreTxs = 1
  MoreBatches = 2
  MaxBlocks = 4
  Runs = {r1, r2}
  MaxClicks = 3
INVARIANTS TypeOK Counts
PROPERTIES Refines Settles
CHECK_DEADLOCK FALSE
