\* Every pair of operations may overlap but the seven that conflict.
SPECIFICATION RequestSpec
CONSTANTS
  Order = {o1, o2}
  Number = {n1, n2}
  combo = combo
  paleta = paleta
  Product = {combo, paleta}
  NoOrder = NoOrder
  NoNumber = NoNumber
  NoProduct = NoProduct
  Channels = {"ONLINE"}
  Carts <- MixedCarts
  Additions <- NoAdditions
  InitialStock <- TwoOfEach
  MaxUnits = 1
  MaxRounds = 2
  Request = {r1, r2, r3}
  Idle = Idle
  Together <- CompatiblePairs
SYMMETRY Symmetric
INVARIANTS
  NumbersOwned
  RaffleGate
  PaidFirst
  WinnersDistinct
  StockLedger
