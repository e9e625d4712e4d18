\* Two key ids, three keys, one node besides the unknown one.
CONSTANTS
  KeyIds = {5, 6}
  Keys = {k1, k2, k3}
  NodeIds = {0, 1}
SPECIFICATION Spec
INVARIANTS
  TypeOK
  NoKeyTwice
PROPERTIES
  ImplementsKeyMap
