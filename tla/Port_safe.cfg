SPECIFICATION FairSpec
CONSTANTS
  Vlans <- FourVlans
  Firmwares <- AnyFirmware
  BulkTagging = TRUE
  Plans <- DefaultToo
  Ports <- Used
  HandLines <- AnyHand
  FirstVlans <- TwoVlans
  MaxEdits = 3
  MaxFailures = 1
  MaxByHand = 1
INVARIANTS TypeOK NoRefusal SuccessMeetsPlan CleanPlanIsTrue BulkFailureShows
PROPERTIES SettlesUnlessRefused UntaggedNeverDropped RepairsOnlyAdd
CHECK_DEADLOCK FALSE
