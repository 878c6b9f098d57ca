SPECIFICATION FairOrderSpec
CONSTANTS
  Requests = {p1}
  Orders = {"o"}
  CancelAttempts = 2
  PanelStatuses = {"DELIVERED", "CANCELLED"}
  MaxTurns = 0
PROPERTIES
  DeliveredIsInvoiced
CHECK_DEADLOCK FALSE
