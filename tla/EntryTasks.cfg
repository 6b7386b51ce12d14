SPECIFICATION Spec
CONSTANTS
  MaxSlots = 2
  Tasks = {t1, t2}
  Certs = {c1, c2, c3}
  Forms = {1, 2}
  Count <- Counts
  Stamps = {s1}
  None = none
SYMMETRY Interchangeable
INVARIANTS EgressRecorded ShownIsRecorded TunnelsCurrent
PROPERTIES CredentialKept ScheduleKept ImplementsSlotStore
