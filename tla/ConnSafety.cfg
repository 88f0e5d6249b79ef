SPECIFICATION ConnSpec
CONSTANTS
  ConnIDs = {c1}
  MaxPackets = 3
  Routers = {mux0, mux1}
  DefaultRouter = mux0
  UnbindRouters = {mux1}
  Timeouts = {"read", "write"}
  DisablePanicRecovery = FALSE
  HasOnClose = TRUE
  Panics = {"decode", "handler", "onClose", "elsewhere"}
INVARIANTS
  ConnTypeOK
  CloseDrainsRequests
  OneWriter
  ReplyOnArrivalLayer
  LastRequest
  StartTLSHoldsLoop
  OnCloseOnce
PROPERTIES
  LivesAsPromised
CHECK_DEADLOCK FALSE
