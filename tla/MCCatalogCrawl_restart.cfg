CONSTANTS
  MaxWorkers = 2
  Totals = {1, 5}
  Unnumbered = {3}
  MaxRestarts = 1
SPECIFICATION FairSpec
INVARIANTS
  TypeOK
  CheckpointGap
  CompletedIsHanded
  SendNeverBlocks
  CrawlInv
PROPERTIES
  ImplementsScan
  FetchersExit
  CrawlEnds
\* A category ends: completed, failed, or blocked for good.
CHECK_DEADLOCK FALSE
