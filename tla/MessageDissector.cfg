SPECIFICATION Spec
CONSTANTS
  KnownFields <- KnownFieldsDef
  Messages <- MessagesDef
INVARIANTS
  TypeOK
  OpenIsAround
  ShownOnce
  NothingPassedOver
  KeepsPlace
  OwnPath
  ConformingShown
PROPERTIES
  Returns
CHECK_DEADLOCK FALSE
