SPECIFICATION Spec
CONSTANTS
  MaxSlots = 2
  Calls = {c1, c2}
  Serials = {f1, n1, n2, n3, n4, n5}
  Foreign = {f1}
  Cap = 5
  NoCert = NoCert
  Overlap = TRUE
  Crashes = FALSE
SYMMETRY Interchangeable
INVARIANT StoredLive
