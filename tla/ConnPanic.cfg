SPECIFICATION ConnSpec
CONSTANTS
  ConnIDs = {c1}
  MaxPackets = 2
  Routers = {mux0, mux1}
  DefaultRouter = mux0
  UnbindRouters = {mux1}
  Timeouts = {"read", "write"}
  DisablePanicRecovery = FALSE
  HasOnClose = TRUE
  Panics = {"handler"}
INVARIANT PanicsContained
CHECK_DEADLOCK FALSE
