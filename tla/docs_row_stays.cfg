SPECIFICATION Spec
CONSTANTS
  Doc = {d1}
  Eraser = {e1}
  Collection = {c1}
  Session = {s1}
  NoSession = NoSession
  Backends = {"postgres"}
  Faults = FALSE
INVARIANTS DeletedIsGone
