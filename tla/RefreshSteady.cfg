SPECIFICATION Spec
CONSTANTS
  MaxSlots = 2
  Periods <- TwoPeriods
  Managers = {m1, m2}
  None = None
  Overlap = FALSE
  MaxChanges = 0
  MaxForms = 1
  MaxTime = 5
  MaxFaults = 2
INVARIANTS TypeOK OnePerPeriod
PROPERTIES StampMonotone CatchesUp
