\* Two orders, up to three numbers, two configurations at once and resets.
SPECIFICATION RaffleSpec
CONSTANTS
  Order = {o1, o2}
  Number = {1, 2, 3}
  Total = 3
  Admin = {a1, a2}
  NoConf = NoConf
  combo = combo
  paleta = paleta
  Product = {combo, paleta}
  NoOrder = NoOrder
  NoNumber = NoNumber
  NoProduct = NoProduct
  Channels = {"ONLINE"}
  Carts <- ComboCarts
  Additions <- NoAdditions
  InitialStock <- TwoOfEach
  MaxUnits = 1
  MaxRounds = 2
SYMMETRY Symmetric
INVARIANTS
  Contiguous
  SoldOrOrphaned
  BooksSurviveReset
