SPECIFICATION Spec
CONSTANTS
  Callers = {a, b}
  NoCaller = none
  FirstWords <- Words
  Transports <- SSH
  Calls <- PortAndSystem
  MaxCalls = 3
  MaxTimeouts = 0
  MaxStrays = 0
  NetMayFail = FALSE
  ShowAnywhere = TRUE
SYMMETRY AnyCaller
INVARIANT SharedInGlobalMode
CHECK_DEADLOCK FALSE
