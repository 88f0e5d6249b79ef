SPECIFICATION ConnFairSpec
CONSTANTS
  ConnIDs = {c1}
  MaxPackets = 2
  Routers = {mux0, mux1}
  DefaultRouter = mux0
  UnbindRouters = {mux1}
  Timeouts = {}
  DisablePanicRecovery = FALSE
  HasOnClose = TRUE
  Panics = {"decode"}
PROPERTIES
  ClosedClientReleased
  LivesToTheEnd
INVARIANTS
  PanicsContained
CHECK_DEADLOCK FALSE
