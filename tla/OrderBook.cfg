CONSTANTS
  Accounts = {1, 2}
  Orders = {1, 2, 3}
  Data <- MCData
  Timeout = 1
  MaxTime = 4
  MaxQueue = 4
SPECIFICATION FairSpec
INVARIANTS QueueCoversBook ViewsBestFirst
PROPERTIES TimeoutExact StaleRemoved
