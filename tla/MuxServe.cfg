SPECIFICATION Spec
CONSTANTS
  Callers = {c1, c2, c3}
  Calls <- MCCalls
  Requests = {q1}
  Messages <- MCMessages
  EqualFold <- MCEqualFold
  Nobody = Nobody
  Blank = Blank
INVARIANTS
  TypeOK
  FirstMatch
  NoHandlerMissed
  RegisteredStays
  PanicNeedsRegistration
SYMMETRY Symmetry
CHECK_DEADLOCK FALSE
