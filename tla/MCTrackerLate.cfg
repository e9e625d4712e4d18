\* A key may become known while the capture is open.
CONSTANTS
  Message <- AllMessages
  Captures <- LongCaptures
  Sessions = {5}
  LateSessions = {5}
SPECIFICATION Spec
INVARIANTS
  AckedByLaterAck
  RetransmissionsNumbered
  ExchangeFilterIsContiguous
PROPERTIES
  HistoryOnlyGrows
