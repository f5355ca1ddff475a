SPECIFICATION Spec
CONSTANTS
  Token <- MCToken
  Name <- MCName
  Namespace <- MCNamespace
  Default = "default"
  Text <- MCText
  Json <- MCJson
  Alert <- MCAlert
  Numeral <- MCNumeral
  Podlike = {"my-pod"}
  Restarting = {"restarting"}
  Scaling = {"scaled"}
  MaxReplicas = 1
  Outside = {9}
  Unnamed = "several words"
  None = None
INVARIANTS Understood EvidenceFits
PROPERTIES AnswersAreTrue ChangesAsTold
