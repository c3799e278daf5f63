SPECIFICATION FairSpec
CONSTANTS
  Accounts <- TwoAccounts
  OwnAccount <- Admin
  Groups <- Together
  Plans <- FewPlans
  Factory <- OutOfTheBox
  MaxEdits = 1
  MaxFailures = 2
  MaxReboots = 1
INVARIANTS TypeOK SuccessSurvivesReboot RenameStrandsNothing
PROPERTIES AddressTakesGatewayAlong MovesOnlyWithLeave EventuallySettles
