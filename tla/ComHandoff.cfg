SPECIFICATION Spec
CONSTANTS
  c1 = c1 c2 = c2 c3 = c3
  Callers <- ThreeCallers
  NoCaller = NoCaller
  SupportsTerminal = TRUE
  CanTimeOut = TRUE
INVARIANTS OneAccepted 
PROPERTY ReturnEndsWait
CHECK_DEADLOCK FALSE
