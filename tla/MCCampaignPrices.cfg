SPECIFICATION FairSpec
CONSTANTS
  Campaigns = {"s", "d"}
  Listings = {"l1", "l2"}
  Callers = {"u"}
  Discount <- MCDiscount
  OwnerPrices = {999, 1200}
  FirstPrice <- MCFirstPrice
  Scopes <- MCScopes
  FirstScope <- MCFirstScope
  Start <- MCStart
  End <- MCEnd
  Endless = {"d"}
  MaxTime = 2
  MaxCalls = 3
  MaxUpsets = 1
INVARIANTS
  OriginalsAreKept
  PricesComeBack
PROPERTIES
  ScheduleIsKept
CHECK_DEADLOCK FALSE
