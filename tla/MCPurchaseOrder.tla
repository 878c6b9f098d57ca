-------------------------- MODULE MCPurchaseOrder --------------------------
(* A small instance of PurchaseOrder for TLC: an order with two products, and one with a
   single line for the first of them. *)
EXTENDS PurchaseOrder, TLC

MCOrderOf == [l \in Lines |-> IF l = "l3" THEN "o2" ELSE "o1"]
MCBarcodeOf == [l \in Lines |-> IF l = "l2" THEN "b2" ELSE "b1"]
MCOrdered == [l \in Lines |-> IF l = "l1" THEN 2 ELSE 1]

Of(x, m) == [line |-> x, qty |-> m]
MCDeliveries ==
  {[order |-> "o1", items |-> <<Of("l1", 2), Of("l2", 1)>>],
   [order |-> "o1", items |-> <<Of("l2", 1), Of("l1", 1)>>],
   [order |-> "o2", items |-> <<Of("l3", 1)>>]}

Symmetry == Permutations(Requests)
=============================================================================
