\* All captures of up to four messages, one after the other.
CONSTANTS
  KeyIds = {5, 6}
  Keys <- TheKeys
  NodeIds = {0}
  Message <- TheMessages
  Points = {"P", "Q"}
  MaxFrames = 4
SPECIFICATION Spec
INVARIANTS
  TypeOK
  KeysAreSessionKeys
  SessionsRecovered
PROPERTIES
  RedissectionChangesNothing
  ImplementsKeyMap
