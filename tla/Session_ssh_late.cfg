SPECIFICATION Spec
CONSTANTS
  Callers = {a, b}
  NoCaller = none
  FirstWords <- Words
  Transports <- SSH
  Calls <- Refresh
  MaxCalls = 3
  MaxTimeouts = 1
  MaxStrays = 0
  NetMayFail = FALSE
  ShowAnywhere = TRUE
SYMMETRY AnyCaller
INVARIANT FreshRead
CHECK_DEADLOCK FALSE
