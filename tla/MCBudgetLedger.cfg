SPECIFICATION Spec
CONSTANTS
  r1 = r1
  r2 = r2
  r3 = r3
  Rows <- MCRows
  Ceiling = 9
  ReserveRatio <- MCReserveRatio
  Scale = 2
  MaxUnits = 6
  MaxCosts <- MCMaxCosts
  Unpriced = Unpriced
  Reports <- MCReports
  Expiry = 1
  DayLength = 2
  LastTime = 2
SYMMETRY Symmetry
INVARIANTS
  TypeOK
  CeilingHolds
  HumanReserveKept
  ReservedIsDerived
  SpentIsTheBooks
  BreakerRemembers
PROPERTIES
  FinalRowsStay
