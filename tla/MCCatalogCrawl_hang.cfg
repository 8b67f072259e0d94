CONSTANTS
  MaxWorkers = 2
  Totals = {1, 3}
  Unnumbered = {}
  MaxRestarts = 0
SPECIFICATION FairSpec
PROPERTIES
  ParseAllFinishes
\* A category ends: completed, failed, or blocked for good.
CHECK_DEADLOCK FALSE
