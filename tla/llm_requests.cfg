SPECIFICATION LLMFairSpec
CONSTANTS
  Call = {c1, c2}
  Closed = Closed
  MaxAttempts = 3
  Backoff = 1
  CallTimeout = 2
  Threshold = 2
  ResetTimeout = 3
INVARIANTS WithinBudget
PROPERTIES OpenEnds CallEnds
