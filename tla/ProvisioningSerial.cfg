SPECIFICATION Spec
CONSTANTS
  MaxSlots = 2
  Calls = {c1}
  Serials = {f1, n1, n2, n3, n4, n5}
  Foreign = {f1}
  Cap = 4
  NoCert = NoCert
  Overlap = FALSE
  Crashes = TRUE
INVARIANTS StoredLive ForeignKept
PROPERTIES CleanupComplete ImplementsSlotStore CallsReturn
