\* Three orders, two carts in opposite orders, two numbers, one unit of each
\* product.  Stops when every order was released.
SPECIFICATION FairSpec
CHECK_DEADLOCK FALSE
CONSTANTS
  o1 = o1
  o2 = o2
  o3 = o3
  Order = {o1, o2, o3}
  Number = {n1, n2}
  combo = combo
  paleta = paleta
  Product = {combo, paleta}
  Nobody = Nobody
  Carts <- CrossedCarts
  InitialStock <- OneOfEach
  OpenLimit = 3
INVARIANTS
  StockConserved
  NumberOwned
  NoOversell
PROPERTIES
  Ended
