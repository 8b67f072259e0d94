CONSTANTS
  Count = 4
  Slots = 2
  MaxGets = 7
SPECIFICATION FairSpec
INVARIANTS
  SendNeverWaits
  WorkingKept
  HandedOutEvenly
PROPERTIES
  Constructed
\* Nobody has to call Get.
CHECK_DEADLOCK FALSE
