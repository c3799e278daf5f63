SPECIFICATION Spec
CONSTANTS
  trunk = trunk
  other = other
  Ports <- TwoPorts
  Vlans <- SixVlans
  Firmwares <- BothFirmwares
  Plans <- Listed
  FirstVlans <- FourVlans
  MaxEdits = 1
  MaxFailures = 0
PROPERTY ListedPortsUntouched
