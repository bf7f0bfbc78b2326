SPECIFICATION PathSpec
CONSTANTS
  g1 = g1
  g2 = g2
  m1 = m1
  m2 = m2
  EvidenceIds <- TwoIds
  MemoryIds <- TwoMemories
  Facts <- MCFacts
  Lines <- MCLines
  Contexts <- MCContexts
  MaxEvidence = 3
  MaxRetries = 1
  MaxExtracted = 1
  NoRequest = NoRequest
  NoAnswer = NoAnswer
SYMMETRY Names
INVARIANTS
  AnswerTypeOK
  PrivateStaysPrivate
  IdentityStaysApart
  ClaimsAreGrounded
  AcceptedIsDelivered
PROPERTIES
  KeepsTheContract
