SPECIFICATION Spec
CONSTANTS
  Doc = {d1, d2}
  Eraser = {e1, e2}
  Collection = {c1, c2}
  Session = {s1, s2}
  NoSession = NoSession
  Backends = {"memory", "postgres"}
  Faults = TRUE
SYMMETRY Symmetry
INVARIANTS TypeOK ChunksLeaveOnRequest RowsLeaveOnRequest OrphanChunks OrphanRows DeletedStaysOut SessionSwept
