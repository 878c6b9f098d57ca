SPECIFICATION Spec
CONSTANTS
  Events = {"d"}
  Tests = {}
  Attempts = 2
  Threshold = 3
  Workers = 1
  Resent = {"d"}
  MaxRedeliveries = 1
  MaxUpsets = 0
PROPERTIES
  SuccessNotResent
CHECK_DEADLOCK FALSE
