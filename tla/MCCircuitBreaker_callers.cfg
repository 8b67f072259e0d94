CONSTANTS
  Caller = {c1, c2, c3}
  CircuitBreakerDelay = 2
  RetryCount = 1
SPECIFICATION FairSpec
INVARIANTS
  BreakerStaysOpen
  LateSendsBounded
  AnnouncedOnce
PROPERTIES
  BreakerCloses
  FetchReturns
