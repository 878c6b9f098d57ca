SPECIFICATION FairSpec
CONSTANTS
  Events = {"d"}
  Tests = {"t"}
  Attempts = 2
  Threshold = 2
  Workers = 2
  Resent = {"d"}
  MaxRedeliveries = 1
  MaxUpsets = 1
INVARIANTS
  OpenRowsAreQueued
  RepeatsAreExplained
PROPERTIES
  KeepsBreaker
  DeliveriesEnd
CHECK_DEADLOCK FALSE
