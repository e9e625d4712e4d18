\* The session keys are known before the pass begins, or never.
CONSTANTS
  Message <- AllMessages
  Captures <- MixedCaptures
  Sessions = {5}
  LateSessions = {}
SPECIFICATION Spec
INVARIANTS
  TypeOK
  RecordsFiledOnce
  ReadableFramesRecorded
  ListsInFrameOrder
  AckedByEarliestAck
  ShownFramesAreEarlier
PROPERTIES
  HistoryOnlyGrows
