CONSTANTS
  MaxWorkers = 2
  Totals = {5}
  Unnumbered = {}
  MaxRestarts = 0
SPECIFICATION Spec
INVARIANTS
  NoPageSkipped
\* A category ends: completed, failed, or blocked for good.
CHECK_DEADLOCK FALSE
