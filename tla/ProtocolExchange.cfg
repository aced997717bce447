SPECIFICATION Spec
CONSTANTS
  Bits = 2
  Apps = {"research", "live", "data_hub"}
CHECK_DEADLOCK FALSE
INVARIANT ExchangeIsFaithful
