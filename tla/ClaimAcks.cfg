CONSTANTS
  Message <- ClaimMessages
  Captures <- OneExchangeCaptures
  Sessions = {5, 6}
  LateSessions = {}
SPECIFICATION Spec
INVARIANT AcknowledgementsIdentified
