SPECIFICATION Spec
CONSTANTS
  Attempt = {a1, a2, a3}
  Source = {h1, h2}
  Email = {e1}
  Replica = {r1}
  RequestLimit = 2
  RequestWindow = 1
  Limit = 1
  Window = 2
  MaxFailures = 2
  LockFor = 2
  Redis = Redis
  None = None
INVARIANTS TypeOK WindowHolds CounterExpires LockIsEarned
SYMMETRY Symmetry
