SPECIFICATION FairSpec
CONSTANTS
  Ids <- MCIds
  LaneOf <- MCLaneOf
  Refused <- MCRefused
  Answers <- MCAnswers
  Garbled <- MCGarbled
  Capacity = 1
  Deadline = 1
  LastTime = 3
INVARIANTS
  TypeOK
  SentOnce
  AnswersItsRequest
PROPERTIES
  StopReturns
  EveryRequestLeaves
