--------------------------- MODULE MCReturnStock ---------------------------
(* A small instance of ReturnStock for TLC. *)
EXTENDS ReturnStock

CONSTANTS b1, b2

OneOfEach(x, y) == <<[barcode |-> x, quantity |-> 1], [barcode |-> y, quantity |-> 1]>>

\* Two products in both orders, so that two restocks can wait for each other.
MCItemLists == {OneOfEach(b1, b2), OneOfEach(b2, b1)}

\* The same product twice and a line of quantity 0.
Repeated == <<[barcode |-> b1, quantity |-> 1], [barcode |-> b2, quantity |-> 0],
              [barcode |-> b1, quantity |-> 2]>>

\* The marketplace's return comes in received, with other items, and with a status the
\* mapping does not know; and once without an identifier.
MCReports ==
  {[id |-> "pid", status |-> "RECEIVED", items |-> OneOfEach(b1, b2)],
   [id |-> "pid", status |-> "OTHER", items |-> Repeated],
   [id |-> "null", status |-> "REFUNDED", items |-> OneOfEach(b2, b1)]}

=============================================================================
