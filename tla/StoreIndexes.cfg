SPECIFICATION Spec
CONSTANTS
  Decoded <- AllDecoded
  LegacyStores <- AllLegacy
  Accounts <- AllAccounts
  Programs <- AllPrograms
  NoProgram = NoProgram
  TokenPrograms = {"token", "hex"}
  AtaPrograms = {"ata"}
  Foreign = {"hex"}
  Definition <- AllDefinition
  Times = {3}
  Walks <- BothWays
  Limit = 1
INVARIANTS
  TypeOK
  FeedAgrees
  ZoneFeedAgrees
  ProgramsAgree
  AccountsAgree
  PagesOnce
PROPERTY NothingLost
