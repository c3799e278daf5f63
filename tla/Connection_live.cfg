SPECIFICATION LayersSpec
CONSTANTS
  Callers = {a, b}
  NoCaller = none
  FirstWords <- Words
  Transports <- SSHOrEcho
  Calls <- EveryShape
  MaxCalls = 2
  MaxTimeouts = 2
  MaxStrays = 0
  NetMayFail = TRUE
  ShowAnywhere = TRUE
  Settings <- SomeSettings
  Banners <- SomeBanners
  Messages <- EveryMessage
  Commands <- ALine
  Sizes = {2}
  MaxMessages = 2
  MaxLines = 1
  MayFail = TRUE
INVARIANTS ReadyForCalls DialectFromConfig WaitsOnlyIfRefused DecodedIsMeant HeardIsMeant
PROPERTIES PasswordAtItsPrompt ConnectionReturns ConnectionStarts
CHECK_DEADLOCK FALSE
