SPECIFICATION ServiceSpec
CHECK_DEADLOCK FALSE
CONSTANTS
  q1 = q1
  q2 = q2
  q3 = q3
  s1 = s1
  s2 = s2
  b1 = b1
  Rows <- ThreeRequests
  SidecarOf <- OnTwo
  KindOf <- Unasked
  Waiting <- None
  Sidecars <- TwoSidecars
  Bots <- OneBot
  BotOf <- ForOneBot
  Deleted <- None
  Nobody = Nobody
  ResponseDeadline = 2
  TurnLimit = 3
  AmbientLimit = 1
  AmbientWindow = 2
  Ceiling = 9
  ReserveRatio <- MCReserveRatio
  Scale = 2
  MaxUnits = 6
  MaxCosts <- MCMaxCosts
  Unpriced = Unpriced
  Reports <- OneReport
  Expiry = 3
  DayLength = 5
  LastTime = 4
INVARIANTS
  NotReclaimedUnderneath
  AmbientBounded
