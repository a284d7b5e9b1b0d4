CONSTANTS
  Half = 4
  Balance = 2
SPECIFICATION Spec
INVARIANTS SellerPaid SignaturesScoped HonestAccepted ShownNoAbort
CHECK_DEADLOCK FALSE
