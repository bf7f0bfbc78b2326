SPECIFICATION TransportSpec
CONSTANTS
  Ids <- MCOneId
  LaneOf <- MCOneLane
  Refused <- MCNone
  Answers <- MCAnswers
  Garbled <- MCGarbled
  Regenerate = "again"
  Nobody = Nobody
  Capacity = 1
  Deadline = 1
  CoordinatorTimeout = 1
  MaxOutstanding = 2
  LastTime = 2
INVARIANTS
  HeldWithinCoordinatorTimeout
