CONSTANTS
  Maker = m
  Takers = {t1}
  MakerSells = FALSE
  MaxUnits = 1
  MinUnits = 1
  MaxAdds = 2
  MaxTakes = 2
  MaxTrades = 2
  Coins = {c1}
  OtherOps = 0
  Faults = {"lostReply"}
  Cancels = FALSE
  Invalidates = FALSE
  None = None
SPECIFICATION FairSpec
INVARIANTS
  InputsExclusive
  NoLeakedLock
PROPERTIES
  OrderFreed
  AbandonedReleases
CHECK_DEADLOCK FALSE
