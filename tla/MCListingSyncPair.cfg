SPECIFICATION Spec
CONSTANTS
  Pushes = {"u1", "u2"}
  Listings = {"l1", "l2"}
  Updates <- MCUpdates
  Quantity <- MCQuantity
  Names <- MCNames
  OtherQuantities = {}
  Attempts = 2
  Workers = 2
  MaxReplays = 1
  MaxFaults = 1
INVARIANTS
  MirrorWasAccepted
  CompletedDelivered
  ReplaysFollowFailure
CHECK_DEADLOCK FALSE
