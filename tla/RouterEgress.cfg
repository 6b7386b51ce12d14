SPECIFICATION Spec
CONSTANTS
  MaxSlots = 2
  Certs <- OneCert
  Cidrs <- OneCidr
  Appliers = {}
  Switchers = {e1}
  Gateways = {"pppoe", "other"}
  Reconfigure = TRUE
  MaxLosses = 1
INVARIANT TypeOK
PROPERTIES ImplementsSwitch RouteGoesFirst
