-------------------------- MODULE MCCentralStock --------------------------
(* A small instance of CentralStock for TLC: one product in two warehouses, A and B, and a
   second one that B does not have yet. *)
EXTENDS CentralStock, TLC

MCProductOf == [l \in Places |-> IF l = "Bw" THEN "w" ELSE "v"]

Of(a, b, n) == [from |-> a, to |-> b, qty |-> n]
\* Back and forth, the way back with a second item the source may not have.
MCItemsOf == [t \in Transfers |->
  IF t = "t1" THEN <<Of("Av", "Bv", 1)>> ELSE <<Of("Bv", "Av", 1), Of("Bv", "Av", 1)>>]
MCDirect == {Of("Av", "Bv", 2)}

To(l, n) == [place |-> l, qty |-> n]
MCCountedIn == [c \in Counts |-> <<To("Bv", 1), To("Bw", 1)>>]
MCNewStock == {To("Bw", 2)}

MCInitial == <<None, 1>> :> To("Av", 2) @@ <<None, 2>> :> To("Bv", 1)
=============================================================================
