\* An item added before the number is chosen, and the order deleted.
SPECIFICATION Spec

CONSTANTS
  Order = {o1}
  Number = {n1}
  combo = combo
  Product = {combo}
  NoOrder = NoOrder
  NoNumber = NoNumber
  NoProduct = NoProduct
  Channels = {"ONLINE"}
  Carts <- PlainCarts
  Additions <- OneMore
  InitialStock <- TwoOfEach
  MaxUnits = 2
  MaxRounds = 2

INVARIANTS
  StockReturned
