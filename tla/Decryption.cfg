\* Keys from every source, some of which know no source of the messages.
CONSTANTS
  ka = ka  kb = kb  p1 = p1  p2 = p2
  KeyIds = {5, 6}
  Keys = {ka, kb}
  NodeIds = {0, 1, 2}
  Messages <- TheMessages
  HintTexts <- TheTexts
  RecoveredKeys <- TheRecovered
  UserKeySets <- TheUserKeys
  UserNodeSets <- TheUserNodes
  Paths = {p1, p2}
  MaxTime = 2
  SameTick = FALSE
SPECIFICATION Spec
SYMMETRY PathSymmetry
INVARIANTS
  TypeOK
  DecryptionIsStable
  KeysAreJustified
  CachedHintsAreCurrent
