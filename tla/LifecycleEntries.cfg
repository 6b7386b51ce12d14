SPECIFICATION Spec
CONSTANTS
  Ids = {i1, i2}
  Names <- Typed
  Lower <- LowerCase
  UserFlows = {u1, u2}
  Hosts = 2
  MaxSlots = 1
  None = none
SYMMETRY Interchangeable
INVARIANTS TypeOK SessionUsable OneLoginPerEntry ErrorTold ServicesServe ManagersRun RefusedIsAsked SensorsFollow
