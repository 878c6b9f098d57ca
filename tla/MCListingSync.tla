--------------------------- MODULE MCListingSync ---------------------------
(* A small instance of ListingSync for TLC. *)
EXTENDS ListingSync

MCUpdates == [u \in Pushes |-> IF u = "u1" THEN Listings ELSE {"l1"}]
MCQuantity == [u \in Pushes |-> IF u = "u1" THEN 1 ELSE 2]
\* A push alone is queued as either kind of job; of two, one is a batch and one a sync-stock job.
MCNames == [u \in Pushes |-> IF Pushes = {"u1"} THEN JobNames
                            ELSE {IF u = "u1" THEN "sync-batch" ELSE "sync-stock"}]
=============================================================================
