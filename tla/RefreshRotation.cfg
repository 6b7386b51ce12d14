SPECIFICATION Spec
CONSTANTS
  MaxSlots = 3
  Periods <- OnePeriod
  Managers = {m1}
  None = None
  Overlap = TRUE
  MaxChanges = 1
  MaxForms = 1
  MaxTime = 5
  MaxFaults = 1
INVARIANT StampNotFuture
PROPERTY RoundRobin
