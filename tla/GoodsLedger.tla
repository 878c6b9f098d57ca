---------------------------- MODULE GoodsLedger ----------------------------
(***************************************************************************)
(* What receiving goods promises, whatever runs beside it: a purchase      *)
(* order's lines and the PURCHASE movements of the stock change together,  *)
(* in one step, and a line never counts more than was ordered or than the  *)
(* movements brought in.  PurchaseOrder is shown to implement it.          *)
(***************************************************************************)
EXTENDS Integers

CONSTANTS
  Lines,    \* the lines of the purchase orders
  Ordered   \* PurchaseOrderItem.orderedQty

VARIABLES
  received,  \* PurchaseOrderItem.receivedQty
  booked     \* units the PURCHASE movements brought in for a line

Init ==
  /\ received = [l \in Lines |-> 0]
  /\ booked = [l \in Lines |-> 0]

\* A delivery: every line either stays as it is, or has more booked and counts at least
\* the units this delivery brought.
Deliver ==
  /\ booked' \in [Lines -> Nat]
  /\ received' \in [Lines -> Nat]
  /\ \A l \in Lines :
       \/ booked'[l] = booked[l] /\ received'[l] = received[l]
       \/ /\ booked'[l] > booked[l]
          /\ received'[l] >= booked'[l] - booked[l]
          /\ received'[l] <= booked'[l]
          /\ received'[l] <= Ordered[l]

Spec == Init /\ [][Deliver]_<<received, booked>>
=============================================================================
