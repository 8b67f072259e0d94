CONSTANTS
  Category = {k1, k2}
  Stream = {s1}
  Number = {3}
  Half = 536870912
  Second = 1000000
  Unset = Unset
  NoError = NoError
  MaxStarts = 0
SPECIFICATION FairSpec
PROPERTIES
  ErrorReachesMain
\* The process ends, or waits for ever.
CHECK_DEADLOCK FALSE
