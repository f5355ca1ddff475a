SPECIFICATION Spec
CONSTANTS
  Replica = {r1, r2}
  Run = {x1, x2, x3}
  Payload <- OneRefused
  NoPayload = NoPayload
  NoRun = NoRun
  MaxIterations = 2
  MaxListed = 2
  MaxReplicas = 20
  MaxApproves = 1
  MaxRestarts = 1
SYMMETRY Symmetry
INVARIANTS OnlyAgreedCards AskOrAct FoundAtHome
