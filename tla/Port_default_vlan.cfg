SPECIFICATION FairSpec
CONSTANTS
  Vlans <- ThreeVlans
  Firmwares <- OnContext
  BulkTagging = FALSE
  Plans <- DefaultPlan
  Ports <- Bare
  HandLines <- NoHand
  FirstVlans <- ThreeVlans
  MaxEdits = 1
  MaxFailures = 0
  MaxByHand = 0
PROPERTIES EventuallyClean
CHECK_DEADLOCK FALSE
