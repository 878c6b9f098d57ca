--------------------------- MODULE PurchaseOrder ---------------------------
(***************************************************************************)
(* Purchase orders and the goods received for them (apps/backend/src/      *)
(* purchase-order/purchase-order.service.ts, stock/stock-movement.         *)
(* service.ts applyPurchaseInflow).                                        *)
(*                                                                         *)
(* A request is one call of sendPO, confirmPO, cancelPO or receiveItems.   *)
(* They interleave at every await.  As in ReturnStock, transactions run    *)
(* under READ COMMITTED: the writes of an open one live in req[p] and      *)
(* reach the tables in Commit, and the rows it has written stay locked     *)
(* until then.  The products have their central stock row in the main      *)
(* warehouse.                                                              *)
(***************************************************************************)
EXTENDS Integers, Sequences, FiniteSets, Functions

CONSTANTS
  Requests,    \* the calls that are made, each of them once
  Orders,      \* purchase orders of the organization
  Lines,       \* their lines
  OrderOf,     \* PurchaseOrderItem.purchaseOrderId
  BarcodeOf,   \* PurchaseOrderItem.barcode
  Ordered,     \* PurchaseOrderItem.orderedQty
  Deliveries   \* what receiveItems is called with: lists of a line and a quantity

POStatus == {"DRAFT", "SENT", "CONFIRMED", "PARTIALLY_RECEIVED", "RECEIVED", "CANCELLED"}
RECEIVABLE_STATUSES == {"SENT", "CONFIRMED", "PARTIALLY_RECEIVED"}
LinesOf(o) == {l \in Lines : OrderOf[l] = o}
Barcodes == Range(BarcodeOf)
Receipt == [line : Lines, qty : Nat \ {0}]

ASSUME PurchaseAssumption ==
  /\ IsFiniteSet(Lines)
  /\ OrderOf \in [Lines -> Orders]
  /\ DOMAIN BarcodeOf = Lines
  /\ Ordered \in [Lines -> Nat \ {0}]
  /\ Deliveries \subseteq [order : Orders, items : Seq(Receipt)]
  /\ \A d \in Deliveries : \A i \in DOMAIN d.items : d.items[i].line \in LinesOf(d.order)

VARIABLES
  po,        \* PurchaseOrder.status
  received,  \* PurchaseOrderItem.receivedQty
  stock,     \* StockEntry.quantity of the central rows
  booked,    \* units the PURCHASE movements brought in for a line
  released,  \* orders for which sendPO got past its mail
  pushes,    \* sync-stock jobs: a barcode and the quantity to announce
  pc,        \* the await each request has reached
  req        \* the local variables and uncommitted writes of each request

vars == <<po, received, stock, booked, released, pushes, pc, req>>

Ended == {"done", "failed"}
InTx == {"fresh", "line", "readStock", "writeStock", "readLines", "commit"}
NoOrder == "none"
Nothing == [l \in Lines |-> 0]

NoReq == [order |-> NoOrder, to |-> "none", items |-> <<>>, k |-> 1, line |-> Nothing,
          add |-> Nothing, before |-> 0, held |-> [b \in Barcodes |-> 0], todo |-> {}]

Request == [order : Orders \cup {NoOrder}, to : POStatus \cup {"none"}, items : Seq(Receipt),
            k : Nat \ {0}, line : [Lines -> Nat], add : [Lines -> Nat], before : Nat,
            held : [Barcodes -> Nat], todo : SUBSET Barcodes]

TypeOK ==
  /\ po \in [Orders -> POStatus]
  /\ received \in [Lines -> Nat]
  /\ stock \in [Barcodes -> Nat]
  /\ booked \in [Lines -> Nat]
  /\ released \subseteq Orders
  /\ pushes \subseteq [barcode : Barcodes, stock : Nat]
  /\ pc \in [Requests -> {"idle", "mail", "write", "push"} \cup InTx \cup Ended]
  /\ req \in [Requests -> Request]

\* The orders are drafts, or were sent and maybe confirmed before.
Init ==
  /\ po \in [Orders -> {"DRAFT", "SENT", "CONFIRMED"}]
  /\ released = {o \in Orders : po[o] # "DRAFT"}
  /\ received = Nothing
  /\ stock = [b \in Barcodes |-> 0]
  /\ booked = Nothing
  /\ pushes = {}
  /\ pc = [p \in Requests |-> "idle"]
  /\ req = [p \in Requests |-> NoReq]

Goto(p, l) == pc' = [pc EXCEPT ![p] = l]
End(p, l) == Goto(p, l) /\ req' = [req EXCEPT ![p] = NoReq]

----------------------------------------------------------------------------
\* sendPO, confirmPO and cancelPO: findOne and a guard, then an UPDATE that commits on
\* its own, for sendPO after the mail to the supplier.  That mail may fail unseen:
\* EmailService.send swallows every error and sends nothing without a key, so that getting
\* past it is all sendPO knows, and all that is kept here.

Change(p, o, s, at) ==
  /\ req' = [req EXCEPT ![p] = [NoReq EXCEPT !.order = o, !.to = s]]
  /\ Goto(p, at)

\* Mutant of StartSend: the status is written before the mail.
MutSendUnmailed(p, o) ==
  /\ pc[p] = "idle"
  /\ IF po[o] = "DRAFT" THEN Change(p, o, "SENT", "write") ELSE End(p, "failed")
  /\ UNCHANGED <<po, received, stock, booked, released, pushes>>

StartSend(p, o) ==
  /\ pc[p] = "idle"
  /\ IF po[o] = "DRAFT" THEN Change(p, o, "SENT", "mail") ELSE End(p, "failed")
  /\ UNCHANGED <<po, received, stock, booked, released, pushes>>

SendMail(p) ==
  /\ pc[p] = "mail"
  /\ released' = released \cup {req[p].order}
  /\ Goto(p, "write")
  /\ UNCHANGED <<po, received, stock, booked, pushes, req>>

StartConfirm(p, o) ==
  /\ pc[p] = "idle"
  /\ IF po[o] = "SENT" THEN Change(p, o, "CONFIRMED", "write") ELSE End(p, "failed")
  /\ UNCHANGED <<po, received, stock, booked, released, pushes>>

StartCancel(p, o) ==
  /\ pc[p] = "idle"
  /\ IF po[o] \notin {"CANCELLED", "RECEIVED"} /\ \A l \in LinesOf(o) : received[l] = 0
     THEN Change(p, o, "CANCELLED", "write")
     ELSE End(p, "failed")
  /\ UNCHANGED <<po, received, stock, booked, released, pushes>>

WriteStatus(p) ==
  /\ pc[p] = "write"
  /\ po' = [po EXCEPT ![req[p].order] = req[p].to]
  /\ End(p, "done")
  /\ UNCHANGED <<received, stock, booked, released, pushes>>

----------------------------------------------------------------------------
\* receiveItems: the status guard is checked before the transaction.

StartReceive(p, d) ==
  /\ pc[p] = "idle"
  /\ IF po[d.order] \in RECEIVABLE_STATUSES
     THEN /\ req' = [req EXCEPT ![p] = [NoReq EXCEPT !.order = d.order, !.items = d.items]]
          /\ Goto(p, "fresh")
     ELSE End(p, "failed")
  /\ UNCHANGED <<po, received, stock, booked, released, pushes>>

\* The order's lines are read once; the loop counts on in these copies.
ReadFresh(p) ==
  /\ pc[p] = "fresh"
  /\ req' = [req EXCEPT ![p].line = received]
  /\ Goto(p, "line")
  /\ UNCHANGED <<po, received, stock, booked, released, pushes>>

AtItem(p) == req[p].k \in DOMAIN req[p].items
LineOf(p) == req[p].items[req[p].k].line
QtyOf(p) == req[p].items[req[p].k].qty

\* Mutant of remaining: earlier deliveries are forgotten.
MutRemaining(p) == Ordered[LineOf(p)]

remaining(p) == Ordered[LineOf(p)] - req[p].line[LineOf(p)]

LockedLines(p) ==
  IF pc[p] \in InTx
  THEN {l \in Lines : req[p].add[l] > 0}
         \cup IF pc[p] \in {"readStock", "writeStock"} THEN {LineOf(p)} ELSE {}
  ELSE {}
LockedStock(p) == {b \in Barcodes : \E l \in Lines : BarcodeOf[l] = b /\ req[p].add[l] > 0}

RefuseReceipt(p) ==
  /\ pc[p] = "line" /\ AtItem(p)
  /\ QtyOf(p) > remaining(p)
  /\ End(p, "failed")
  /\ UNCHANGED <<po, received, stock, booked, released, pushes>>

\* purchaseOrderItem.update with the new sum: locks the line.
UpdateLine(p) ==
  /\ pc[p] = "line" /\ AtItem(p)
  /\ QtyOf(p) <= remaining(p)
  /\ \A q \in Requests \ {p} : LineOf(p) \notin LockedLines(q)
  /\ req' = [req EXCEPT ![p].line[LineOf(p)] = @ + QtyOf(p)]
  /\ Goto(p, "readStock")
  /\ UNCHANGED <<po, received, stock, booked, released, pushes>>

\* Mutant of ReadStock: beforeQuantity counted back from a row that is not written yet.
MutBefore(p) ==
  /\ pc[p] = "readStock"
  /\ LET b == BarcodeOf[LineOf(p)]
     IN  req' = [req EXCEPT ![p].before =
                   (IF b \in LockedStock(p) THEN req[p].held[b] ELSE stock[b]) - QtyOf(p)]
  /\ Goto(p, "writeStock")
  /\ UNCHANGED <<po, received, stock, booked, released, pushes>>

\* applyPurchaseInflow: read the central row, write the sum (locks the row) and the movement.
ReadStock(p) ==
  /\ pc[p] = "readStock"
  /\ LET b == BarcodeOf[LineOf(p)]
     IN  req' = [req EXCEPT ![p].before = IF b \in LockedStock(p) THEN req[p].held[b] ELSE stock[b]]
  /\ Goto(p, "writeStock")
  /\ UNCHANGED <<po, received, stock, booked, released, pushes>>

WriteStock(p) ==
  /\ pc[p] = "writeStock"
  /\ LET b == BarcodeOf[LineOf(p)]
     IN  /\ \A q \in Requests \ {p} : b \notin LockedStock(q)
         /\ req' = [req EXCEPT ![p].held[b] = req[p].before + QtyOf(p),
                               ![p].add[LineOf(p)] = @ + QtyOf(p),
                               ![p].k = @ + 1]
  /\ Goto(p, "line")
  /\ UNCHANGED <<po, received, stock, booked, released, pushes>>

\* The lines as the transaction sees them: its own writes over what is committed.
Seen(p) == [l \in Lines |-> IF req[p].add[l] > 0 THEN req[p].line[l] ELSE received[l]]

\* Mutant of ReadLines: one complete line is enough.
MutSomeLine(p) ==
  /\ pc[p] = "line" /\ ~AtItem(p)
  /\ req' = [req EXCEPT ![p].to = IF \E l \in LinesOf(req[p].order) : Seen(p)[l] >= Ordered[l]
                                  THEN "RECEIVED" ELSE "PARTIALLY_RECEIVED"]
  /\ Goto(p, "commit")
  /\ UNCHANGED <<po, received, stock, booked, released, pushes>>

ReadLines(p) ==
  /\ pc[p] = "line" /\ ~AtItem(p)
  /\ req' = [req EXCEPT ![p].to = IF \A l \in LinesOf(req[p].order) : Seen(p)[l] >= Ordered[l]
                                  THEN "RECEIVED" ELSE "PARTIALLY_RECEIVED"]
  /\ Goto(p, "commit")
  /\ UNCHANGED <<po, received, stock, booked, released, pushes>>

Commit(p) ==
  /\ pc[p] = "commit"
  /\ po' = [po EXCEPT ![req[p].order] = req[p].to]
  /\ received' = Seen(p)
  /\ booked' = [l \in Lines |-> booked[l] + req[p].add[l]]
  /\ stock' = [b \in Barcodes |-> IF b \in LockedStock(p) THEN req[p].held[b] ELSE stock[b]]
  /\ req' = [req EXCEPT ![p] = [NoReq EXCEPT !.todo = LockedStock(p)]]
  /\ Goto(p, "push")
  /\ UNCHANGED <<released, pushes>>

\* Mutant of PushStock: the new quantity is announced before the transaction commits.
MutPushInTx(p, b) ==
  /\ pc[p] \in {"commit", "push"}
  /\ b \in LockedStock(p) \cup req[p].todo
  /\ pushes' = pushes \cup {[barcode |-> b,
                              stock |-> IF pc[p] = "commit" THEN req[p].held[b] ELSE stock[b]]}
  /\ IF req[p].todo = {b} THEN End(p, "done")
     ELSE req' = [req EXCEPT ![p].todo = @ \ {b}] /\ UNCHANGED pc
  /\ UNCHANGED <<po, received, stock, booked, released>>

\* triggerListingSync, one product after the other.
PushStock(p, b) ==
  /\ pc[p] = "push"
  /\ b \in req[p].todo
  /\ pushes' = pushes \cup {[barcode |-> b, stock |-> stock[b]]}
  /\ IF req[p].todo = {b} THEN End(p, "done")
     ELSE req' = [req EXCEPT ![p].todo = @ \ {b}] /\ UNCHANGED pc
  /\ UNCHANGED <<po, received, stock, booked, released>>

----------------------------------------------------------------------------
\* p waits for a row that q has locked.
WaitsFor(p, q) ==
  /\ p # q
  /\ \/ pc[p] = "line" /\ AtItem(p) /\ LineOf(p) \in LockedLines(q)
     \/ pc[p] = "writeStock" /\ BarcodeOf[LineOf(p)] \in LockedStock(q)

\* PostgreSQL ends one transaction of a circle of waiting ones.
DeadlockVictim(p) ==
  /\ \E S \in SUBSET Requests :
       /\ p \in S
       /\ \A q \in S : \E u \in S : WaitsFor(q, u)
       /\ \A q \in S : \E u \in S : WaitsFor(u, q)
  /\ End(p, "failed")
  /\ UNCHANGED <<po, received, stock, booked, released, pushes>>

\* The process dies, or a statement, the mail or the queue fails: an open transaction is
\* rolled back, what was committed before stays.
Crash(p) ==
  /\ pc[p] \notin {"idle"} \cup Ended
  /\ End(p, "failed")
  /\ UNCHANGED <<po, received, stock, booked, released, pushes>>

\* Every request has ended: the system may rest.
Rest == (\A p \in Requests : pc[p] \in Ended) /\ UNCHANGED vars

Start(p) ==
  \/ \E o \in Orders : StartSend(p, o) \/ StartConfirm(p, o) \/ StartCancel(p, o)
  \/ \E d \in Deliveries : StartReceive(p, d)

Continue(p) ==
  \/ SendMail(p) \/ WriteStatus(p) \/ ReadFresh(p) \/ RefuseReceipt(p) \/ UpdateLine(p)
  \/ ReadStock(p) \/ WriteStock(p) \/ ReadLines(p) \/ Commit(p) \/ DeadlockVictim(p)
  \/ \E b \in Barcodes : PushStock(p, b)

Next == Rest \/ \E p \in Requests : Start(p) \/ Continue(p) \/ Crash(p)

Spec == Init /\ [][Next]_vars

----------------------------------------------------------------------------
(* Properties *)

\* receiveItems keeps the promise of GoodsLedger: lines and movements change together, and
\* no line counts more than was ordered or than was booked, whatever runs concurrently.
Ledger == INSTANCE GoodsLedger
KeepsLedger == Ledger!Spec

\* What n has for the lines of a barcode, and what the movements brought in for it.
UnitsOf(n, b) == SumFunctionOnSet([l \in Lines |-> IF BarcodeOf[l] = b THEN n[l] ELSE 0], Lines)
BookedUnits(b) == UnitsOf(booked, b)

\* The central stock and what is announced to the marketplaces never exceed what the
\* movements explain, though applyPurchaseInflow writes sums of values read before the lock.
StockIsExplained ==
  /\ \A b \in Barcodes : stock[b] <= BookedUnits(b)
  /\ \A j \in pushes : j.stock <= BookedUnits(j.barcode)

\* Goods enter the stock only for orders for which sendPO got past its mail (the supplier may
\* have got none, as a failed mail goes unseen), however sendPO, confirmPO and cancelPO
\* overwrite each other's status.
GoodsWereOrdered == \A l \in Lines : booked[l] > 0 => OrderOf[l] \in released

\* An order is RECEIVED only when the movements cover every line, though a lost update may
\* lower a line again between the reading of the lines and the write of the status.
ReceivedIsComplete ==
  \A o \in Orders : po[o] = "RECEIVED" => \A l \in LinesOf(o) : booked[l] >= Ordered[l]

\* receiveItems answers '... için en fazla ${remaining} adet teslim alınabilir': no more is
\* taken into stock than was ordered.
NeverOverReceived == \A l \in Lines : booked[l] <= Ordered[l]

\* cancelPO answers 'Kısmen teslim alınmış sipariş iptal edilemez': an order that has goods
\* is never cancelled.
CancelledHasNoGoods ==
  \A o \in Orders : po[o] = "CANCELLED" => \A l \in LinesOf(o) : received[l] = 0
=============================================================================
