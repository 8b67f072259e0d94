CONSTANTS
  Category = {k1, k2, k3}
  Stream = {s1, s2}
  Number <- MCNumber
  Half = 536870912
  Second = 1000000
  Unset = Unset
  NoError = NoError
  MaxStarts = 1
SPECIFICATION FairSpec
INVARIANTS
  GroupsBeforeWork
  LoginBeforeWork
  ParseAllIsHonest
  PanicsOverFileOnly
PROPERTIES
  CategoriesEnd
\* The process ends, or waits for ever.
CHECK_DEADLOCK FALSE
