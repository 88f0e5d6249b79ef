SPECIFICATION FairSpec
CONSTANTS
  ConnIDs = {1}
  MaxPackets = 1
  Routers = {mux0}
  DefaultRouter = mux0
  UnbindRouters = {}
  Timeouts = {"read", "write"}
  DisablePanicRecovery = FALSE
  HasOnClose = TRUE
  Panics = {"elsewhere"}
  Stoppers = {s1}
  Starters = {}
  TLSListener = TRUE
  Faults = {"listen", "accept", "closeListener"}
PROPERTIES
  StopTerminates
  StopEndsRun
  DeadlinesEndConnection
CHECK_DEADLOCK FALSE
