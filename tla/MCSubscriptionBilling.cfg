SPECIFICATION Spec
CONSTANTS
  Handlers = {1, 2}
  Payments = {1, 2}
  MaxNow = 1
  MaxCharges = 2
INVARIANTS
  PaidIsServed
  CommissionOnce
  ChargedOncePerPeriod
CHECK_DEADLOCK FALSE
