CONSTANTS
  Confirmations = 4
  MaxReorg = 3
  MaxReorgs = 2
  MaxLag = 1
  MaxHeight = 8
SPECIFICATION FairSpec
INVARIANTS
  SuccessFinal
  FailureExplained
PROPERTIES
  ConfirmedDecided
CHECK_DEADLOCK FALSE
