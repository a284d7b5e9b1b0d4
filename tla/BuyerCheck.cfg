CONSTANTS
  MAX_BLOCK_ANCESTORS_CHECKED = 3
  MaxBlocks = 6
SPECIFICATION Spec
INVARIANTS
  MinedTradeValid
  MismatchExplained
CHECK_DEADLOCK FALSE
