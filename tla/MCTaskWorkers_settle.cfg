CONSTANTS
  p1 = p1
  i1 = i1
  i2 = i2
  Dummy = dummy
  Pages = {p1}
  Items = {i1}
  PageItems <- PageOfOne
  MaxWorkers = 1
  MaxCrawled = 1
  MaxFaults = 1
  MaxSlow = 1
  MaxDummies = 0
SPECIFICATION FairSpec
INVARIANTS
  WorkersInv
PROPERTIES
  ImplementsLedger
  ItemsSettle
  QueueDrains
\* The crawl, the faults and the messages come to an end.
CHECK_DEADLOCK FALSE
