SPECIFICATION Spec
CONSTANTS
  Streams <- StreamsDef
  Lengths <- LengthsDef
INVARIANTS
  TypeOK
  PdusAdjoin
PROPERTIES
  FramesMessages
  AllDissected
CHECK_DEADLOCK FALSE
