SPECIFICATION FairSpec
CONSTANTS
  Pushes = {"u1"}
  Listings = {"l1", "l2"}
  Updates <- MCUpdates
  Quantity <- MCQuantity
  Names <- MCNames
  OtherQuantities = {3}
  Attempts = 3
  Workers = 2
  MaxReplays = 2
  MaxFaults = 1
INVARIANTS
  MirrorWasAccepted
  CompletedDelivered
  ReplaysFollowFailure
PROPERTIES
  JobsSettle
CHECK_DEADLOCK FALSE
