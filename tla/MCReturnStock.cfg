SPECIFICATION FairSpec
CONSTANTS
  Requests = {p1, p2}
  Existing = {r1, r2}
  b1 = b1
  b2 = b2
  Barcodes = {b1, b2}
  ItemLists <- MCItemLists
  PlatformIds = {"pid"}
  NoId = "null"
  Targets = {"APPROVED", "RECEIVED", "REFUNDED", "COMPLETED"}
  Reports <- MCReports
INVARIANTS
  TypeOK
  ReceivedIsRestocked
  RestockedOnce
  PlatformReturnOnce
  StockMatchesMovements
  DecisionsAreTold
PROPERTIES
  BooksWhatItHolds
  RequestsEnd
