SPECIFICATION MergeSpec
CONSTANTS
  Jobs = {"full", "more", "other"}
  FullSyncs = {"full", "other"}
  SourceOf <- MCSourceOf
  Sources = {"s1", "s2"}
  Products = {"i", "j"}
  Feeds <- MCFeeds
  MaxUpsets = 1
INVARIANTS
  SumUnlessRaced
  CentralIsExplained
  PushesWereImported
CHECK_DEADLOCK FALSE
