SPECIFICATION Spec
CONSTANTS
  Callers = {a, b}
  NoCaller = none
  FirstWords <- Words
  Transports <- EchoingTelnet
  Calls <- DeleteSaveRefresh
  MaxCalls = 4
  MaxTimeouts = 2
  MaxStrays = 1
  NetMayFail = FALSE
  ShowAnywhere = TRUE
SYMMETRY AnyCaller
INVARIANTS FreshRead DurableWhenSaved PromptKnown
CHECK_DEADLOCK FALSE

