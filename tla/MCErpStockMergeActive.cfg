SPECIFICATION MergeSpec
CONSTANTS
  Jobs = {"full", "more", "other"}
  FullSyncs = {"full", "other"}
  SourceOf <- MCSourceOf
  Sources = {"s1", "s2"}
  Products = {"i", "j"}
  Feeds <- MCFeeds
  MaxUpsets = 1
INVARIANTS
  CentralIsOfActive
CHECK_DEADLOCK FALSE
