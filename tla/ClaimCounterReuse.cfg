CONSTANTS
  Message <- ClaimMessages
  Captures <- TwoSessionsCaptures
  Sessions = {5, 6}
  LateSessions = {}
SPECIFICATION Spec
INVARIANT ReuseWithinSession
