CONSTANTS
  Callers = {xmpp, rpc}
  Refresher = refresher
  MaxOrders = 2
SPECIFICATION FairSpec
INVARIANTS NoLostOrder
PROPERTIES LockedWithdrawn AvailableOffered
