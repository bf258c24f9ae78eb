SPECIFICATION Spec
CONSTANTS
  Gateways = {g1, g2}
  Hosts = {h1, h2}
  Flows = {f1, f2}
  NoHost = NoHost
  Everywhere = Everywhere
  NoEntry = NoEntry
  NoChoice = NoChoice
  Nobody = Nobody
  MayGarble = TRUE
  MaxPairings = 2
  MaxMoves = 1
SYMMETRY Symmetry
INVARIANT TypeOK OwnAddress OnePairing
PROPERTY IdentityKept ImplementsRegistry
