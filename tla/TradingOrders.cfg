CONSTANTS
  Maker = m
  Takers = {t1, t2}
  MakerSells = TRUE
  MaxUnits = 2
  MinUnits = 1
  MaxAdds = 1
  MaxTakes = 1
  MaxTrades = 2
  Coins = {c1}
  OtherOps = 0
  Faults = {"refused", "midway", "update"}
  Cancels = TRUE
  Invalidates = TRUE
  None = None
SPECIFICATION Spec
SYMMETRY Symmetric
INVARIANTS
  MakerTradeUnique
  LockedOrderHasHolder
  NotReoffered
  FilledWithinOffer
PROPERTIES
  ImplementsAtomicSwap
CHECK_DEADLOCK FALSE
