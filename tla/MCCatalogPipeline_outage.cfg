CONSTANTS
  f1 = f1
  r1 = r1
  w1 = w1
  w2 = w2
  x1 = x1
  p1 = p1
  p2 = p2
  p3 = p3
  i1 = i1
  i3 = i3
  pageP = pageP
  itemI = itemI
  Caller = {f1, r1, w1, w2, x1}
  Page = {p1, p2, p3}
  Link = {i1, i3}
  Nothing = Nothing
  Role <- Goroutines
  About <- MCAbout
  Listed <- MCListed
  Copy <- MCCopy
  CircuitBreakerDelay = 1
  RetryCount = 1
CHECK_DEADLOCK FALSE
SPECIFICATION PipelineFairSpec
INVARIANTS
  WorkAccounted
  RequestsBounded
  UnaskedOnlyAfterQuota
PROPERTIES
  AllSettle
