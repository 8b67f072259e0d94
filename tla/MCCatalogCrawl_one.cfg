CONSTANTS
  MaxWorkers = 1
  Totals = {1, 3, 4}
  Unnumbered = {2}
  MaxRestarts = 2
SPECIFICATION Spec
INVARIANTS
  NoPageSkipped
\* A category ends: completed, failed, or blocked for good.
CHECK_DEADLOCK FALSE
