SPECIFICATION Spec
CONSTANTS
  ConnIDs = {1, 2}
  MaxPackets = 0
  Routers = {mux0}
  DefaultRouter = mux0
  UnbindRouters = {}
  Timeouts = {}
  DisablePanicRecovery = FALSE
  HasOnClose = TRUE
  Panics = {"elsewhere"}
  Stoppers = {s1, s2}
  Starters = {d1}
  TLSListener = TRUE
  Faults = {"listen", "accept", "closeListener"}
INVARIANTS
  TypeOK
  NoReadAfterStop
  OneLateConnection
  StopPanicsOnLateConnection
  ReadyMeansDialable
CHECK_DEADLOCK FALSE
