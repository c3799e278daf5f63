SPECIFICATION FairSpec
CONSTANTS
  trunk = trunk
  other = other
  Ports <- TwoPorts
  Vlans <- SixVlans
  Firmwares <- BothFirmwares
  Plans <- Mixed
  FirstVlans <- FiveVlans
  MaxEdits = 2
  MaxFailures = 1
INVARIANTS TypeOK TrunksStayComplete
PROPERTY TrunksConverge
