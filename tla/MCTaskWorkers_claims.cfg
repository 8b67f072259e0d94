CONSTANTS
  p1 = p1
  i1 = i1
  i2 = i2
  Dummy = dummy
  Pages = {p1}
  Items = {i1, i2}
  PageItems <- PageOfTwo
  MaxWorkers = 1
  MaxCrawled = 1
  MaxFaults = 0
  MaxSlow = 1
  MaxDummies = 1
SPECIFICATION Spec
INVARIANTS
  TypeOK
  AckedIsDone
  SingleHandler
  RetriesBounded
\* The crawl, the faults and the messages come to an end.
CHECK_DEADLOCK FALSE
