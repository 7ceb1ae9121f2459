\* Two overlapping requests, any pair of operations.
SPECIFICATION RequestSpec
CONSTANTS
  Order = {o1, o2}
  Number = {n1, n2}
  combo = combo
  paleta = paleta
  Product = {combo}
  NoOrder = NoOrder
  NoNumber = NoNumber
  NoProduct = NoProduct
  Channels = {"ONLINE"}
  Carts <- PlainCarts
  Additions <- NoAdditions
  InitialStock <- TwoOfEach
  MaxUnits = 1
  MaxRounds = 2
  Request = {r1, r2}
  Idle = Idle
  Together <- EveryPair
SYMMETRY Symmetric
INVARIANTS
  NumbersAgree
  StatusAgrees
  WinnersKept
  NoUnitLost
