----------------------------- MODULE OrderFlow -----------------------------
(***************************************************************************)
(* The status of an order, its cancellation and its invoices               *)
(* (apps/backend/src/order/order.service.ts, order-auto-invoice.ts,        *)
(* jobs/marketplace-push.processor.ts push-order-cancel, jobs/erp-sync.    *)
(* processor.ts push-order-invoice and sync-invoices, invoice/invoice.     *)
(* service.ts create and createFromOrder, accounting-invoice.service.ts    *)
(* pushToErp, erp-connection.service.ts syncOrderToErp).                   *)
(*                                                                         *)
(* The status is written by the panel, by the pull of the marketplace's    *)
(* orders, by its webhooks and by the job that cancels; each reads the     *)
(* order in one statement and writes it by id in another.  Some of them    *)
(* start an invoice in the background, in the organisation's own books or  *)
(* as a job for its ERP.  Users make invoices too, and most of their calls *)
(* do not look for an earlier one.                                         *)
(***************************************************************************)
EXTENDS Integers, FiniteSets

CONSTANTS
  Requests,      \* calls and jobs, each made once
  Orders,        \* orders of one marketplace whose adapter can cancel, with autoInvoice on
  CancelAttempts, \* attempts of a cancel job
  PanelStatuses, \* bound: what the panel sets a status to
  MaxTurns       \* bound: lost connections, deaths of the process and changes of the
                 \* accounting mode, taken together

ASSUME OrderFlowAssumption ==
  /\ Orders # {} /\ CancelAttempts \in Nat \ {0} /\ MaxTurns \in Nat

OrderStatus == {"NEW", "PICKING", "INVOICED", "SHIPPED", "DELIVERED", "CANCELLED", "RETURNED"}
ASSUME PanelStatusesAssumption == PanelStatuses \subseteq OrderStatus

VARIABLES
  native,     \* whether invoices are the organisation's own (AccountingMode.NATIVE): then no
              \* connection to an ERP is active
  status,     \* Order.status
  market,     \* the order's status at the marketplace
  connected,  \* whether there is a connection with credentials to a marketplace that takes
              \* cancellations
  drafts,     \* Invoice rows of an order
  erp,        \* invoices the ERP has made for an order
  ownDrafts,  \* those of drafts that a user asked for in a call that looked for none
  ownErp,     \* those of erp that a user asked for in a call that looked for none
  logged,     \* orders with an erp.invoice_created entry in the audit log
  mixed,      \* orders whose accounting mode was another once, or for which a user had an
              \* Invoice row made beside the ERP
  byHand,     \* orders set CANCELLED in the panel, or cancelled without a connection
  doubtful,   \* orders an invoice was looked for while another was being made by one that
              \* had looked too, or made by such a one without its answer or its log entry
  pc, req, turns

Books == <<drafts, erp, ownDrafts, ownErp, logged, mixed, doubtful>>  \* what is said of invoices
World == <<native, status, market, connected, Books, byHand, turns>>
orderVars == <<World, pc, req>>

\* What an invoice is made for: an order after a look for an earlier invoice, an order
\* without one, or an Invoice row that is sent to the ERP.
Kinds == {"checked", "order", "invoice"}
NoReq == [order |-> CHOOSE o \in Orders : TRUE, new |-> "NEW", invoices |-> FALSE, made |-> 0,
          kind |-> "checked"]

InJob == {"check", "bill", "log", "tell", "finalRead", "finalWrite"}
Places == {"idle", "write", "mode", "findDraft", "createDraft", "queued", "queuedCancel", "done"} \cup InJob

OrderTypeOK ==
  /\ native \in BOOLEAN
  /\ status \in [Orders -> OrderStatus] /\ market \in [Orders -> OrderStatus]
  /\ connected \in BOOLEAN
  /\ drafts \in [Orders -> Nat] /\ erp \in [Orders -> Nat]
  /\ ownDrafts \in [Orders -> Nat] /\ ownErp \in [Orders -> Nat]
  /\ {logged, mixed, byHand, doubtful} \subseteq SUBSET Orders
  /\ pc \in [Requests -> Places]
  /\ req \in [Requests -> [order : Orders, new : OrderStatus,
                           invoices : BOOLEAN, made : 0..(CancelAttempts - 1), kind : Kinds]]
  /\ turns \in 0..MaxTurns

OrderInit ==
  /\ native \in BOOLEAN
  /\ status = [o \in Orders |-> "NEW"] /\ market = [o \in Orders |-> "NEW"]
  /\ connected = TRUE
  /\ drafts = [o \in Orders |-> 0] /\ erp = [o \in Orders |-> 0]
  /\ ownDrafts = [o \in Orders |-> 0] /\ ownErp = [o \in Orders |-> 0]
  /\ logged = {} /\ mixed = {} /\ byHand = {} /\ doubtful = {}
  /\ pc = [p \in Requests |-> "idle"]
  /\ req = [p \in Requests |-> NoReq]
  /\ turns = 0

Order(p) == req[p].order
Goto(p, l) == pc' = [pc EXCEPT ![p] = l]
End(p, l) == Goto(p, l) /\ req' = [req EXCEPT ![p] = NoReq]

----------------------------------------------------------------------------
\* The writers of the status.

shouldTriggerOrderAutoInvoice(prev, new) == prev # new /\ new \in {"SHIPPED", "DELIVERED"}

\* The order is read; whether the write will start an invoice follows from what was read.
Ask(p, o, new, invoices) ==
  /\ req' = [req EXCEPT ![p] = [order |-> o, new |-> new, made |-> 0, kind |-> "checked",
         invoices |-> invoices /\ shouldTriggerOrderAutoInvoice(status[o], new)]]
  /\ Goto(p, "write")

\* updateStatus, which may invoice, and bulkUpdateStatus, which does not.
updateStatus(p, o, s) ==
  /\ pc[p] = "idle"
  /\ \E invoices \in BOOLEAN : Ask(p, o, s, invoices)
  /\ UNCHANGED World

\* bulkShip, shipOrder and addTrackingNumber.
bulkShip(p, o) ==
  /\ pc[p] = "idle"
  /\ IF status[o] \in {"SHIPPED", "DELIVERED"} THEN Goto(p, "done") /\ UNCHANGED req
     ELSE Ask(p, o, "SHIPPED", FALSE)
  /\ UNCHANGED World

\* upsertFromPlatform with a page that was fetched now.
upsertFromPlatform(p, o) ==
  /\ pc[p] = "idle"
  /\ Ask(p, o, market[o], FALSE)
  /\ UNCHANGED World

\* updateStatusFromPlatform: with books of its own no invoice is made of a webhook.
updateStatusFromPlatform(p, o) ==
  /\ pc[p] = "idle"
  /\ Ask(p, o, market[o], ~native)
  /\ UNCHANGED World

WriteStatus(p) ==
  /\ pc[p] = "write"
  /\ status' = [status EXCEPT ![Order(p)] = req[p].new]
  /\ byHand' = IF req[p].new = "CANCELLED" /\ market[Order(p)] # "CANCELLED"
               THEN byHand \cup {Order(p)} ELSE byHand
  /\ IF req[p].invoices
     THEN Goto(p, "mode") /\ UNCHANGED req
     ELSE End(p, "done")
  /\ UNCHANGED <<native, market, connected, Books, turns>>

----------------------------------------------------------------------------
\* Invoices.

\* The others that are making an invoice of the order after a look.
Invoicing(p) == {q \in Requests \ {p} :
  Order(q) = Order(p) /\ pc[q] \in {"createDraft", "bill", "log"} /\ req[q].kind = "checked"}
Doubt(p) == doubtful' = IF Invoicing(p) # {} THEN doubtful \cup {Order(p)} ELSE doubtful

Begin(p, o, kind, l) ==
  /\ pc[p] = "idle"
  /\ req' = [req EXCEPT ![p].order = o, ![p].kind = kind]
  /\ Goto(p, l)

runAutoInvoiceOnFulfillment(p) ==
  /\ pc[p] = "mode"
  /\ Goto(p, IF native THEN "findDraft" ELSE "queued")
  /\ UNCHANGED <<World, req>>

\* A user asks for the invoice of an order or for its PDF, in either mode.
createFromOrder(p, o) ==
  /\ Begin(p, o, "checked", "findDraft")
  /\ mixed' = IF native THEN mixed ELSE mixed \cup {o}
  /\ UNCHANGED <<native, status, market, connected, drafts, erp, ownDrafts, ownErp, logged,
                 byHand, doubtful, turns>>

\* A user fills in an invoice and names an order: nothing is looked for.
createManual(p, o) == Begin(p, o, "order", "createDraft") /\ UNCHANGED World

\* Mutant of FindDraft: an order that has an invoice gets another.
MutDraftsAgain(p) ==
  /\ pc[p] = "findDraft"
  /\ Goto(p, "createDraft") /\ UNCHANGED req
  /\ Doubt(p)
  /\ UNCHANGED <<native, status, market, connected, drafts, erp, ownDrafts, ownErp, logged,
                 mixed, byHand, turns>>

\* createFromOrder looks for an invoice of the order, then makes one.
FindDraft(p) ==
  /\ pc[p] = "findDraft"
  /\ IF drafts[Order(p)] > 0 THEN End(p, "done") ELSE Goto(p, "createDraft") /\ UNCHANGED req
  /\ Doubt(p)
  /\ UNCHANGED <<native, status, market, connected, drafts, erp, ownDrafts, ownErp, logged,
                 mixed, byHand, turns>>

\* One more, and one more of the user's own when nothing was looked for.
Counted(p, own) == IF req[p].kind = "checked" THEN own ELSE [own EXCEPT ![Order(p)] = @ + 1]

CreateDraft(p) ==
  /\ pc[p] = "createDraft"
  /\ drafts' = [drafts EXCEPT ![Order(p)] = @ + 1]
  /\ ownDrafts' = Counted(p, ownDrafts)
  /\ End(p, "done")
  /\ UNCHANGED <<native, status, market, connected, erp, ownErp, logged, mixed, byHand,
                 doubtful, turns>>

\* Without an active connection the job is over.
TakeInvoiceJob(p) ==
  /\ pc[p] = "queued"
  /\ IF native THEN End(p, "done") ELSE Goto(p, "check") /\ UNCHANGED req
  /\ UNCHANGED World

\* sync-invoices, for one of the delivered orders.
syncInvoices(p, o) ==
  /\ ~native /\ status[o] = "DELIVERED"
  /\ Begin(p, o, "checked", "check")
  /\ UNCHANGED World

\* A user sends an order to the primary ERP, active or not, and an issued invoice to an
\* active one: neither looks at the log.
syncOrderToErp(p, o) == Begin(p, o, "order", "bill") /\ UNCHANGED World
pushToErp(p, o) ==
  /\ ~native /\ drafts[o] > 0
  /\ Begin(p, o, "invoice", "bill")
  /\ UNCHANGED World

CheckLog(p) ==
  /\ pc[p] = "check"
  /\ IF Order(p) \in logged THEN End(p, "done") ELSE Goto(p, "bill") /\ UNCHANGED req
  /\ Doubt(p)
  /\ UNCHANGED <<native, status, market, connected, drafts, erp, ownDrafts, ownErp, logged,
                 mixed, byHand, turns>>

\* The ERP makes the invoice or refuses it, or its answer is lost.  An error ends the job
\* without another attempt.
CreateErpInvoice(p) ==
  /\ pc[p] = "bill"
  /\ \/ /\ erp' = [erp EXCEPT ![Order(p)] = @ + 1]
        /\ ownErp' = Counted(p, ownErp)
        /\ \/ Goto(p, "log") /\ UNCHANGED <<req, doubtful>>
           \/ /\ End(p, "done")
              /\ doubtful' = IF req[p].kind = "checked" THEN doubtful \cup {Order(p)} ELSE doubtful
     \/ End(p, "done") /\ UNCHANGED <<erp, ownErp, doubtful>>
  /\ UNCHANGED <<native, status, market, connected, drafts, ownDrafts, logged, mixed, byHand, turns>>

\* The entry of pushToErp names the Invoice row, not the order.
LogInvoice(p) ==
  /\ pc[p] = "log"
  /\ logged' = IF req[p].kind = "invoice" THEN logged ELSE logged \cup {Order(p)}
  /\ End(p, "done")
  /\ UNCHANGED <<native, status, market, connected, drafts, erp, ownDrafts, ownErp, mixed,
                 byHand, doubtful, turns>>

----------------------------------------------------------------------------
\* Cancellation: cancelOrder queues a job, which tells the marketplace first.

cancelOrder(p, o) ==
  /\ pc[p] = "idle"
  /\ IF status[o] = "CANCELLED" THEN Goto(p, "done") /\ UNCHANGED req
     ELSE Goto(p, "queuedCancel") /\ req' = [req EXCEPT ![p].order = o]
  /\ UNCHANGED World

\* Mutant of TakeCancelJob: the order is cancelled here before the marketplace knows.
MutCancelsFirst(p) ==
  /\ pc[p] = "queuedCancel"
  /\ Goto(p, IF req[p].made > 0 THEN "tell" ELSE "finalRead")
  /\ UNCHANGED <<World, req>>

TakeCancelJob(p) ==
  /\ pc[p] = "queuedCancel"
  /\ Goto(p, IF connected THEN "tell" ELSE "finalRead")
  /\ byHand' = IF connected THEN byHand ELSE byHand \cup {Order(p)}
  /\ UNCHANGED <<native, status, market, connected, Books, turns, req>>

\* The attempt throws, and Bull runs the job again until its attempts are used up.
CancelFails(p) ==
  IF req[p].made + 1 < CancelAttempts
  THEN Goto(p, "queuedCancel") /\ req' = [req EXCEPT ![p].made = @ + 1]
  ELSE End(p, "done")

\* adapter.cancelOrder: the marketplace cancels or refuses, and its answer may be lost.
TellMarket(p) ==
  /\ pc[p] = "tell"
  /\ \/ /\ market' = [market EXCEPT ![Order(p)] = "CANCELLED"]
        /\ (Goto(p, "finalRead") /\ UNCHANGED req) \/ CancelFails(p)
     \/ CancelFails(p) /\ UNCHANGED market
  /\ UNCHANGED <<native, status, connected, Books, byHand, turns>>

\* finalizeOrderCancellationFromJob: either statement may fail, and so may the note that
\* handlePushOrderCancel takes after them.
ReadForCancel(p) ==
  /\ pc[p] = "finalRead"
  /\ \/ status[Order(p)] = "CANCELLED" /\ End(p, "done")
     \/ status[Order(p)] # "CANCELLED" /\ Goto(p, "finalWrite") /\ UNCHANGED req
     \/ CancelFails(p)
  /\ UNCHANGED World

Finalize(p) ==
  /\ pc[p] = "finalWrite"
  /\ \/ status' = [status EXCEPT ![Order(p)] = "CANCELLED"] /\ (End(p, "done") \/ CancelFails(p))
     \/ CancelFails(p) /\ UNCHANGED status
  /\ UNCHANGED <<native, market, connected, Books, byHand, turns>>

----------------------------------------------------------------------------
\* The marketplace, the connection and the process.

After(s) == CASE s = "NEW" -> {"SHIPPED", "CANCELLED"} [] s = "SHIPPED" -> {"DELIVERED"} [] OTHER -> {}
MarketMoves(o) ==
  /\ \E s \in After(market[o]) : market' = [market EXCEPT ![o] = s]
  /\ UNCHANGED <<native, status, connected, Books, byHand, pc, req, turns>>

Disconnect ==
  /\ connected /\ turns < MaxTurns
  /\ connected' = FALSE
  /\ turns' = turns + 1
  /\ UNCHANGED <<native, status, market, Books, byHand, pc, req>>

\* The organisation's first ERP connection is made or made active, its last one removed or
\* made inactive, or an administrator chooses the mode.
ChangeMode ==
  /\ turns < MaxTurns
  /\ native' = ~native
  /\ mixed' = Orders
  /\ turns' = turns + 1
  /\ UNCHANGED <<status, market, connected, drafts, erp, ownDrafts, ownErp, logged, byHand,
                 doubtful, pc, req>>

\* Bull runs the jobs of a process that died again; what was no job is lost.
OrderCrash ==
  /\ turns < MaxTurns
  /\ turns' = turns + 1
  /\ doubtful' = doubtful \cup
       {Order(p) : p \in {q \in Requests : pc[q] = "log" /\ req[q].kind = "checked"}}
  /\ pc' = [p \in Requests |->
       CASE pc[p] \in {"tell", "finalRead", "finalWrite"} -> "queuedCancel"
         [] pc[p] \in {"check", "bill", "log"} /\ req[p].kind = "checked" -> "queued"
         [] pc[p] \in {"bill", "log"} /\ req[p].kind # "checked" -> "done"
         [] pc[p] \in {"write", "mode", "findDraft", "createDraft"} -> "done"
         [] OTHER -> pc[p]]
  /\ UNCHANGED <<native, status, market, connected, drafts, erp, ownDrafts, ownErp, logged,
                 mixed, byHand, req>>

Call(p, o) ==
  \/ \E s \in PanelStatuses : updateStatus(p, o, s)
  \/ bulkShip(p, o) \/ upsertFromPlatform(p, o) \/ updateStatusFromPlatform(p, o)
  \/ syncInvoices(p, o) \/ cancelOrder(p, o)
  \/ createFromOrder(p, o) \/ createManual(p, o) \/ syncOrderToErp(p, o) \/ pushToErp(p, o)
Step(p) ==
  \/ WriteStatus(p) \/ runAutoInvoiceOnFulfillment(p) \/ FindDraft(p) \/ CreateDraft(p)
  \/ TakeInvoiceJob(p) \/ CheckLog(p) \/ CreateErpInvoice(p) \/ LogInvoice(p)
  \/ TakeCancelJob(p) \/ TellMarket(p) \/ ReadForCancel(p) \/ Finalize(p)

OrderNext ==
  \/ \E p \in Requests : Step(p) \/ \E o \in Orders : Call(p, o)
  \/ \E o \in Orders : MarketMoves(o)
  \/ Disconnect \/ ChangeMode \/ OrderCrash

OrderSpec == OrderInit /\ [][OrderNext]_orderVars

\* The process, the queues and the database keep running; users, the marketplace and the
\* schedule of the pulls owe nothing.
FairOrderSpec == OrderSpec /\ \A p \in Requests : WF_orderVars(Step(p))

----------------------------------------------------------------------------
(* Properties *)

\* An order is shown as cancelled only when the marketplace has cancelled it, whatever is
\* lost, repeated or overtaken between the two: a buyer's order is not dropped here while
\* the marketplace still waits for it.  (A user may set the status by hand, and an order
\* whose connection is gone is cancelled here alone.  The types are checked along with it.)
CancelledThereToo ==
  OrderTypeOK /\ \A o \in Orders \ byHand : status[o] = "CANCELLED" => market[o] = "CANCELLED"

\* However often an order becomes shipped or delivered and whoever finds out, those that
\* look for an earlier invoice make one at most in the organisation's books and one in its
\* ERP, and one in both as long as the accounting mode stays and no user has an Invoice row
\* made beside the ERP: every other invoice is one that a user asked for in a call that
\* looks for none.  (Unless two were looking at the same time, or the ERP's answer or the log
\* entry was lost.)
InvoicedOnce ==
  \A o \in Orders \ doubtful :
    /\ drafts[o] <= 1 + ownDrafts[o]
    /\ erp[o] <= 1 + ownErp[o]
    /\ o \notin mixed => drafts[o] + erp[o] <= 1 + ownDrafts[o] + ownErp[o]

\* schema.prisma:1829, 'Teslim edildiğinde otomatik satış faturası oluştur' (create a sales
\* invoice automatically when it is delivered): a delivered order comes to have an invoice.
DeliveredIsInvoiced ==
  \A o \in Orders : status[o] = "DELIVERED" ~> drafts[o] + erp[o] > 0
=============================================================================
