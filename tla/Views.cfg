SPECIFICATION Spec
CONSTANTS
  Parts = {"verify", "settle", "live", "labels", "guess", "cli"}
  Unused = Unused
  \* An honest and a dishonest zone of four blocks, one reset.
  MaxBlocks = 4
  MaxResets = 1
  MaxBad = 1
  ChunkSize = 2
  MergeEvery = 1
  VerifCap = 3
  MaxTip = 1
  Kinds = {"nothing", "clock", "user", "raw"}
  SettleSlots = 2
  Accounts = {x, y}
  MaxBlock = 3
  MaxBalance = 2
  MaxCommits = 3
  Relabellers = {1, 2}
  MaxRestarts = 1
  Txs <- ThreeTxs
  Sources = {"stream", "rpc", "walk"}
  Cap = 2
  Queue = 2
  Page = 1
  MaxReads = 3
  MaxSlot = 3
  MaxId = 2
  MaxChunk = 2
  MaxScans = 2
  MaxPolls = 3
INVARIANTS NotAccused SaidOfZone FeedShows  RightName Reported
\* Each part stops at its bounds.
CHECK_DEADLOCK FALSE
