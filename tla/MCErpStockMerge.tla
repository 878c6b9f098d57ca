-------------------------- MODULE MCErpStockMerge --------------------------
(* A small instance of ErpStockMerge for TLC: a full import and a stock import of one
   connection, and a full import of another. *)
EXTENDS ErpStockMerge

MCSourceOf == [p \in Jobs |-> IF p \in {"full", "more"} THEN "s1" ELSE "s2"]

Of(i, n) == [product |-> i, qty |-> n]
MCFeeds == [p \in Jobs |->
  CASE p = "full" -> {<<>>, <<Of("i", 2)>>}
    [] p = "more" -> {<<Of("i", 1)>>}
    [] p = "other" -> {<<Of("i", 1)>>, <<Of("j", 2)>>}]
=============================================================================
