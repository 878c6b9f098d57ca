----------------------- MODULE MCSubscriptionBilling -----------------------
(* A small instance of SubscriptionBilling for TLC: the values are in the configurations. *)
EXTENDS SubscriptionBilling
=============================================================================
