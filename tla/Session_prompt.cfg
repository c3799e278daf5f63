SPECIFICATION Spec
CONSTANTS
  Callers = {a, b}
  NoCaller = none
  FirstWords <- Words
  Transports <- AllTransports
  Calls <- AllKinds
  MaxCalls = 3
  MaxTimeouts = 0
  MaxStrays = 0
  NetMayFail = TRUE
  ShowAnywhere = FALSE
SYMMETRY AnyCaller
INVARIANTS FreshRead AppliedWhenClaimed DurableWhenSaved NothingLeftBehind ModesAgree PromptKnown
PROPERTIES SaveQueuedBehindAddress ImplementsExecutor
CHECK_DEADLOCK FALSE
