SPECIFICATION OrderSpec
CONSTANTS
  Requests = {p1, p2, p3}
  Orders = {"o"}
  CancelAttempts = 3
  PanelStatuses = {"DELIVERED", "CANCELLED"}
  MaxTurns = 2
SYMMETRY Symmetry
INVARIANTS
  CancelledThereToo
  InvoicedOnce
CHECK_DEADLOCK FALSE
