SPECIFICATION Spec
CONSTANTS
  Managers = {m1, m2}
  Tokens = {t1, t2, t3, t4}
  None = none
  Overlap = FALSE
  Egress = TRUE
  MaxProvisions = 1
  MaxFaults = 1
INVARIANTS TypeOK SessionAlive
PROPERTY SpentTokenAsks
