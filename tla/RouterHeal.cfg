SPECIFICATION Spec
CONSTANTS
  MaxSlots = 1
  Certs <- OneCert
  Cidrs <- OneCidr
  Appliers = {}
  Switchers = {e1, e2}
  Gateways = {"pppoe"}
  Reconfigure = FALSE
  MaxLosses = 0
PROPERTY SoleSwitchExact
