SPECIFICATION Spec
CONSTANTS
  Requests = {p1, p2}
  Existing = {r1}
  b1 = b1
  b2 = b2
  Barcodes = {b1, b2}
  ItemLists <- MCItemLists
  PlatformIds = {"pid"}
  NoId = "null"
  Targets = {"REFUNDED"}
  Reports <- MCReports
PROPERTIES
  NeverApprovesDecided
