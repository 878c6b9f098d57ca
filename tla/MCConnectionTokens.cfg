SPECIFICATION FairTokenSpec
CONSTANTS
  Refreshers = {"job1", "job2"}
  Panels = {"panel1", "panel2"}
  MaxConsents = 1
  MaxExpiries = 2
  MaxLosses = 1
INVARIANTS
  TokenKept
PROPERTIES
  TokensAreRenewed
CHECK_DEADLOCK FALSE
