SPECIFICATION Spec
CONSTANTS
  Handlers = {1, 2}
  Payments = {1, 2}
  MaxNow = 1
  MaxCharges = 2
INVARIANTS
  CommissionIsIdempotent
CHECK_DEADLOCK FALSE
