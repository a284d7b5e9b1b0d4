CONSTANTS
  Maker = m
  Takers = {t1}
  MakerSells = FALSE
  MaxUnits = 1
  MinUnits = 1
  MaxAdds = 1
  MaxTakes = 2
  MaxTrades = 2
  Coins = {c1}
  OtherOps = 1
  Faults = {}
  Cancels = FALSE
  Invalidates = FALSE
  None = None
SPECIFICATION Spec
SYMMETRY Symmetric
INVARIANTS
  TypeOK
  AtomicTrade
  SignaturesCommit
  OutcomesAgree
  TradeInv
  AbandonedNotExecuted
CHECK_DEADLOCK FALSE
