SPECIFICATION FairSpec
CONSTANTS
  Pushes = {"u1"}
  Listings = {"l1", "l2"}
  Updates <- MCUpdates
  Quantity <- MCQuantity
  Names <- MCNames
  OtherQuantities = {}
  Attempts = 3
  Workers = 2
  MaxReplays = 1
  MaxFaults = 0
PROPERTIES
  DeadLettersAreRetried
CHECK_DEADLOCK FALSE
