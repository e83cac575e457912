SPECIFICATION MCSpec
CONSTANTS
  Callers = {c1, c2}
  NoOne = NoOne
  Sessions = {"k1", "k2"}
  MaxSessions = 1
  MaxRows = 6
  MaxMsgs = 5
  ChatRequests = {"r1", "r2", "r3"}
  TokenOf <- CheckedTokenOf
  SessionOf <- CheckedSessionOf
  StreamingRequests = {"r1", "r3"}
  StreamSlots = 1
  MaxDbFailures = 1
  Pages = {"r1", "r2", "r3"}
  PageKey <- CheckedPageKey
  NewsKeys = {"n"}
  ForcedPages = {"r2"}
  MaxJobs = 2
  MaxExpiries = 1
INVARIANTS
  SingleFlight
  SlotsExact
  OneJobPerKey
PROPERTIES
  ClaimsAreReleased
