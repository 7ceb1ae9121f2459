SPECIFICATION Spec
CONSTANTS
  combo = combo
  paleta = paleta
  g1 = g1
  a1 = a1
  Product = {combo, paleta}
  Group = {g1}
  Option = {a1}
  Combos = {combo}
  GroupOf <- OneGroup
  NoProduct = NoProduct
  NoOption = NoOption
  Order = {o1}
  NoLine = NoLine
  Request = {r1}
  Idle = Idle
  FirstStock = 1
  MaxStock = 1
  MaxPosition = 3
  Number = {n1}
  Account = {u1}
  NoWipe = NoWipe
INVARIANTS
  PositionsDistinct
  LedgerHolds
PROPERTY ResetComplete
