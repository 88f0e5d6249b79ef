SPECIFICATION FairSpec
CONSTANTS
  ConnIDs = {1}
  MaxPackets = 1
  Routers = {mux0}
  DefaultRouter = mux0
  UnbindRouters = {}
  Timeouts = {}
  DisablePanicRecovery = FALSE
  HasOnClose = TRUE
  Panics = {"elsewhere"}
  Stoppers = {s1}
  Starters = {}
  TLSListener = FALSE
  Faults = {"listen", "accept", "closeListener"}
PROPERTY StopClosesConnections
CHECK_DEADLOCK FALSE
