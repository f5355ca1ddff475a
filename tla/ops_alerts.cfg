SPECIFICATION FairSpec
CONSTANTS
  Replica = {r1, r2}
  Task = {t1, t2}
  Fp = {fpA, fpB}
  NoFinding = NoFinding
  MaxAlerts = 2
  ListLimit = 200
  MaxRestarts = 1
INVARIANTS OneFindingPerFingerprint NoneForgotten FlagTellsNew
PROPERTIES ImplementsLog PostsOverlap EventuallyNotified
