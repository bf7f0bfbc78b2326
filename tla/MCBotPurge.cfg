SPECIFICATION PurgeSpec
CONSTANTS
  Sidecars = {s1, s2}
  OwnedTables <- MCOwnedTables
  Identifiers <- MCIdentifiers
  Bots <- MCBots
  BotTables <- MCBotTables
  NoBot = NoBot
  MaxFaults = 2
  MaxRounds = 2
INVARIANTS
  PurgeTypeOK
  ServesTheWholeSchema
  VerifiedIsPurged
  RefusalMeansPurged
PROPERTIES
  CreatesOnlyWhereMigrated
  StartsUnlessCut
  PendingIsPurged
