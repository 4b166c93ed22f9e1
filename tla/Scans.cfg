SPECIFICATION FairSpec
CONSTANTS
  Channels = {a}
  Nodes = {n1}
  n1 = n1
  a = a
  OnNode <- Everywhere
  NoNode = NoNode
  Sequencers = {a}
  DataChannels = {}
  Ignored = {}
  Starts <- Started
  Forms <- Posted
  Cap = 1
  Rounds = 1
  MaxOld = 1
  MaxCalls = 1
  Callers = {"form", "standing", "demand"}
INVARIANTS TypeOK AgainstCurrent  AdoptedOnce
PROPERTIES AllAdopted StopsDiscovering OldTasksEnd
