SPECIFICATION FairSpec
CONSTANTS
  r1 = r1
  r2 = r2
  r3 = r3
  p1 = p1
  p2 = p2
  gateway = gateway
  route = route
  lag = lag
  Unknown = unknown
  Resources = {r1, r2, r3}
  PortIds = {p1, p2}
  Names = {"a"}
  Fleets <- SomeFleets
  Hidings <- SomeHidings
  Devices <- Fresh
  HandLines <- Disabling
  Networks <- SomeNetworks
  MaxEdits = 2
  MaxFailures = 1
  MaxMoves = 1
  MaxByHand = 1
INVARIANTS ClaimsExact ClashNeverWritten
PROPERTIES CutOnlyUnaware WalksSettle
