SPECIFICATION FairSpec
CONSTANTS
  Requests = {p1, p2, p3}
  Places = {"Av", "Bv", "Bw"}
  ProductOf <- MCProductOf
  Transfers = {"t1", "t2"}
  ItemsOf <- MCItemsOf
  Counts = {"c1"}
  CountedIn <- MCCountedIn
  Direct <- MCDirect
  NewStock <- MCNewStock
  Initial <- MCInitial
INVARIANTS
  NeverNegative
  TransfersBalance
  ClosedWithItsGoods
PROPERTIES
  RequestsEnd
