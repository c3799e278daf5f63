SPECIFICATION FairSpec
CONSTANTS
  Vlans <- ThreeVlans
  Firmwares <- OnContext
  BulkTagging = TRUE
  Plans <- AllPlan
  Ports <- Bare
  HandLines <- NoHand
  FirstVlans <- ThreeVlans
  MaxEdits = 1
  MaxFailures = 2
  MaxByHand = 0
PROPERTIES FailedSaveIsMadeGood
CHECK_DEADLOCK FALSE
