SPECIFICATION FairTxSpec
CONSTANTS
  r1 = r1
  r2 = r2
  c1 = c1
  c2 = c2
  Rows <- MCRows
  Clients <- MCClients
  NoOne = NoOne
  Ceiling = 9
  ReserveRatio <- MCReserveRatio
  Scale = 2
  MaxUnits = 6
  MaxCosts <- MCMaxCosts
  Unpriced = Unpriced
  Reports <- MCReports
  Expiry = 1
  DayLength = 2
  LastTime = 2
INVARIANTS
  NoStaleView
PROPERTIES
  LedgerSpec
  EveryTransactionEnds
