\* Up to ten calls on each document: ten encodings cut off at every byte, and
\* all sequences of at most four tokens of an alphabet of eight.
CONSTANTS
  Documents <- TheDocuments
  Expected <- TheExpected
  ImplicitProfileKnown = FALSE
  FirstStackSize = 1
  MaxCalls = 10
SPECIFICATION Spec
INVARIANTS
  TypeOK
  ExtentsAreElements
  LastItemIsOfElement
  ShowsWholeElement
PROPERTIES
  ImplementsCursor
CHECK_DEADLOCK FALSE
