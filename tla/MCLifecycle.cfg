\* Requests overlap, on both sales channels and with items added by hand, but
\* for conflicting ones and reports that meet a report or a deletion.
SPECIFICATION RequestSpec

CONSTANTS
  Order = {o1, o2}
  Number = {n1, n2}
  combo = combo
  paleta = paleta
  Product = {combo, paleta}
  NoOrder = NoOrder
  NoNumber = NoNumber
  NoProduct = NoProduct
  Channels = {"ONLINE", "PRESENCIAL"}
  Carts <- PlainCarts
  Additions <- OneMixedMore
  InitialStock <- TwoOfEach
  MaxUnits = 2
  MaxRounds = 1
  Request = {r1, r2}
  Idle = Idle
  Together <- OrderlyPairs


  

PROPERTIES
  LifecycleSpec
