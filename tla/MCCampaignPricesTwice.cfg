SPECIFICATION Spec
CONSTANTS
  Campaigns = {"s"}
  Listings = {"l1", "l2"}
  Callers = {"u"}
  Discount <- MCDiscount
  OwnerPrices = {999, 1200}
  FirstPrice <- MCFirstPrice
  Scopes <- MCScopes
  FirstScope <- MCFirstScope
  Start <- MCStart
  End <- MCEnd
  Endless = {}
  MaxTime = 2
  MaxCalls = 3
  MaxUpsets = 0
INVARIANT
  OriginalsAreOriginal
CHECK_DEADLOCK FALSE
