SPECIFICATION Spec
CONSTANTS
  Requests = {p1, p2, p3}
  Orders = {"o1", "o2"}
  Lines = {"l1", "l2", "l3"}
  OrderOf <- MCOrderOf
  BarcodeOf <- MCBarcodeOf
  Ordered <- MCOrdered
  Deliveries <- MCDeliveries
INVARIANTS
  CancelledHasNoGoods
