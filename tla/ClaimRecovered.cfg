\* A session whose key CASE recovery finds.
CONSTANTS
  ka = ka  p1 = p1
  KeyIds = {5, 6}
  Keys = {ka}
  NodeIds = {0, 1}
  Messages <- OneMessage
  HintTexts <- NoTexts
  RecoveredKeys <- RecoveredSession
  UserKeySets <- NoUserInput
  UserNodeSets <- NoUserInput
  Paths = {p1}
  MaxTime = 2
  SameTick = TRUE
SPECIFICATION Spec
INVARIANTS
  RecoveredSessionsDecrypt
