SPECIFICATION Spec
CONSTANTS
  Exchange = {x1, x2, x3}
  Session = {s1, s2}
  Replica = {r1, r2}
  MaxMessages = 3
  MaxChars = 2
  Database = Database
SYMMETRY Symmetry
INVARIANTS PairsTogether QuestionHasAnswer AnsweredIsRemembered ClashNeedsCrossing
PROPERTY HistoryIsTail
