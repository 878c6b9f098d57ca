------------------------ MODULE MCStockDistribution ------------------------
(* A small instance of StockDistribution for TLC: requests are interchangeable. *)
EXTENDS StockDistribution, TLC

MCSymmetry == Permutations(Callers)
=============================================================================
