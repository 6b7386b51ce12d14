SPECIFICATION Spec
CONSTANTS
  MaxSlots = 2
  Certs <- OneCert
  Cidrs <- NoCidr
  Appliers = {a1}
  Switchers = {e1}
  Gateways = {"pppoe"}
  Reconfigure = TRUE
  MaxLosses = 1
INVARIANTS NoDuplicates FoundIsThere
PROPERTIES SwitchSteps ApplyExact
