SPECIFICATION Spec
CONSTANTS
  MaxSlots = 2
  Periods <- OnePeriod
  Managers = {m1}
  None = None
  Overlap = FALSE
  MaxChanges = 1
  MaxForms = 0
  MaxTime = 5
  MaxFaults = 0
PROPERTY CatchesUp
