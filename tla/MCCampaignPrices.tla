-------------------------- MODULE MCCampaignPrices --------------------------
(* A small instance of CampaignPrices for TLC: s is scheduled and takes a share, d is  *)
(* switched on by hand, takes an amount and has no end.                                *)
EXTENDS CampaignPrices

MCDiscount == [c \in Campaigns |-> IF c = "s"
  THEN [type |-> "PERCENTAGE", value |-> 15, min |-> 0]
  ELSE [type |-> "FIXED", value |-> 300, min |-> 500]]
MCScopes == {{}, {"l1"}, Listings}
MCFirstScope == [c \in Campaigns |-> IF c = "s" THEN Listings ELSE {"l1"}]
MCFirstPrice == [l \in Listings |-> IF l = "l1" THEN 999 ELSE 1200]
MCStart == [c \in Campaigns |-> IF c = "s" THEN 1 ELSE 0]
MCEnd == [c \in Campaigns |-> 2]
=============================================================================
