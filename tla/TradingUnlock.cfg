CONSTANTS
  Maker = m
  Takers = {t1}
  MakerSells = TRUE
  MaxUnits = 2
  MinUnits = 1
  MaxAdds = 1
  MaxTakes = 1
  MaxTrades = 1
  Coins = {c1}
  OtherOps = 0
  Faults = {}
  Cancels = TRUE
  Invalidates = FALSE
  None = None
SPECIFICATION Spec
SYMMETRY Symmetric
INVARIANTS
  UnlockFindsOrder
CHECK_DEADLOCK FALSE
