SPECIFICATION DistributionSpec
CONSTANTS
  Platforms = {1, 2}
  r1 = r1
  r2 = r2
  Callers = {r1, r2}
  Attempts = 2
  Totals = {3}
  Several = {1, 2, 3}
  Shown = {0, 1, 2, 3, 4}
  MaxMishaps = 1
SYMMETRY MCSymmetry
INVARIANTS
  SharesAreFair
  MarketsShowTotal
CHECK_DEADLOCK FALSE
