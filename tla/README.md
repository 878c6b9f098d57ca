# Senkronize in TLA+

Senkronize keeps the stock, prices, orders and returns of a shop the same on
several marketplaces and in its ERP. This directory models the parts of its
backend (`apps/backend/src`, NestJS on Prisma, PostgreSQL, Bull and Redis) that
decide whether the numbers stay right: what may run at the same time, what may
fail in between, and what is tried again. Paths below are relative to
`apps/backend/src` unless they begin with `apps/` or `prisma/` (that is
`apps/backend/prisma/`).

Read `ReturnStock.tla` first; the other modules follow its conventions.

## 1. The system

| Part | State it keeps | Operations | Interacts with |
|---|---|---|---|
| Returns, `return/return.service.ts` | `Return` with items, status, `stockRestoredAt`, `platformReturnId` | createFromOrder, approveReturn, rejectReturn, updateReturnStatus, upsertFromPlatform | stock rows of the platform, the order, the marketplace-push queue; called by the panel and by pull jobs |
| Purchase orders, `purchase-order/` | `PurchaseOrder`, its lines with `receivedQty` | createPO, updatePO, sendPO, confirmPO, receiveItems, cancelPO | central stock, mail, the listing-sync queue |
| Central stock, `stock/`, `warehouse/` | `StockEntry` with platform null, `StockMovement`, `StockTransfer`, `StockCountSession` | confirmTransfer, cancelTransfer, applySession, cancelSession, adjustStock, transferStock | each other, through the rows |
| Listing sync, `jobs/listing-sync.processor.ts`, `sync/listing-push.service.ts` | Bull jobs, `Listing.quantity` | enqueue, sync-batch, sync-stock, sync-price, push-product | marketplaces, the connection's settings |
| Dead letters, `jobs/dlq.processor.ts` | the dead-letter queue, alerts | failed-event hooks, moveToDeadLetter, store, replay, the task at 02:00 | the listing-sync queue |
| Marketplace push, `jobs/marketplace-push.processor.ts` | jobs, platform stock rows | push-stock, push-price, return-action, order-cancel | marketplaces, orders |
| ERP, `erp-connection/`, `erp/`, `jobs/erp-sync.processor.ts` | `ErpStockEntry`, central stock | merge, delete, sync, push | ERP systems, the listing-sync queue |
| Orders, `order/` | `Order`, reservations, invoices | upsertFromPlatform, status changes, ship, cancel | both marketplace queues, webhooks |
| Outgoing webhooks, `webhook/outbound-webhook.service.ts` | endpoints with failure counts, deliveries | dispatch, deliver, redeliver, disable | customers' servers, Bull |
| Tokens, `marketplace-connection/token-refresh.service.ts` | encrypted credentials | refresh by cron, refresh by job | marketplaces |
| Scheduler, conflicts, `jobs/sync-scheduler.task.ts`, `sync/conflict.service.ts` | cron ticks, conflicts | tick, resolve | all queues, adjustStock |
| Subscriptions, `subscription/`, `payment/`, `partner/partner.service.ts` | `Subscription`, `Payment`, stored cards, `CommissionLedger` | checkout, reports, cancel, reactivate, trial, renewal | Iyzico, PayTR, the partner's ledger |
| Distribution, `stock/stock-distribution.service.ts` | platform stock rows | computeDistribution, distributeStock | the marketplace-push queue |
| Campaigns, `campaign/` | `Campaign` with the original prices, `Listing.salePrice` | activate, pause, deactivate, update, delete, the five-minute task | the marketplace-push queue |
| Accounts and books, `auth/`, `accounting/`, `invoice/` | sessions, invoices, ledgers | login, drafts of invoices | orders |
| Around it | `product/`, `category/`, `pricing/`, `reports/`, `notifications/`, `support/`, `admin/`, `migration/` | mostly single-row changes and queries | |
| Elsewhere | `adapters/` (1,323 files of vendor clients), `apps/panel`, `apps/marketing`, `desktop` | formats, HTTP, user interface | |

What is hard in it:

* **Several processes and many awaits.** Panel requests, the workers of seven
  queues and cron tasks share the tables. A guard is usually checked on a row
  read before the transaction, or without one.
* **READ COMMITTED.** Interactive transactions read and write statement by
  statement. Some quantities are written as `{ increment }`, most as a value
  computed from an earlier read.
* **At-least-once work.** Bull repeats what throws or stalls; marketplaces may
  apply a call and fail to answer; some jobs carry absolute quantities.
* **No repair.** What a process leaves half done between two commits (an order
  not marked, a push not queued) stays so.

What makes each part correct:

* Returns: the goods of a return enter the stock exactly once when it is
  received, they are the goods the return holds, and no concurrent restock is lost;
  the marketplace is told what was decided.
* Purchase orders: lines and movements change together; nothing enters the
  stock for an order `sendPO` has not released; an order is closed when it is complete.
* Central stock: no negative rows, no half transfers, a transfer closed with
  its goods and moved once, one row for a product and a warehouse.
* Listing sync and dead letters: what the worker writes to the panel's quantity was
  accepted by the marketplace; a job that called it counts as done only if something
  was delivered; retries, dead letters and replays exclude each other; every push
  comes to an end.
* ERP merge: the central stock is the sum of the sources, and nothing that was
  rolled back is announced.
* Orders: an order is not cancelled here while the marketplace waits for it; those
  that look for an earlier invoice of an order make one.
* Webhooks: an endpoint is switched off only by failures in a row; a job stops at
  the yes to its own post, and ends; no row stays open that nobody is to deliver.
* Tokens: concurrent refreshes of a one-time token do not lose the connection, and
  what does lose it can be named.
* Subscriptions: who has paid is served until what was paid for is over; a
  commission is entered and a stored card charged once.
* Campaigns: originals survive until the owner's prices are back, and the task keeps
  the dates.
* Distribution: the shares are fair and add up, and so does what the
  marketplaces offer.

## 2. Modules

| Module | What it is | Theorems |
|---|---|---|
| `ReturnStock` | returns and the stock they bring back | `ReturnStockProofs` |
| `GoodsLedger` | what receiving goods promises (abstract) | |
| `PurchaseOrder` | purchase orders, statement by statement; implements `GoodsLedger` | `PurchaseOrderProofs` |
| `CentralStock` | transfers, direct moves, counts and corrections on the central rows | `StockProofs` |
| `ListingSync` | the listing-sync queue, its worker and the dead-letter queue | `MarketplaceProofs` |
| `EndpointBreaker` | what the circuit breaker of a webhook endpoint promises (abstract) | |
| `WebhookDelivery` | deliveries to a customer's endpoint; implements `EndpointBreaker` | `WebhookDeliveryProofs` |
| `SubscriptionBilling` | checkouts, reports of payments, trial, renewal, commission | `SubscriptionBillingProofs` |
| `CampaignPrices` | campaigns, the prices they lower and put back, and their task | `CampaignPricesProofs` |
| `ErpStockMerge` | imports of several ERPs that merge into the central stock | `StockProofs` |
| `OrderFlow` | an order's status, its cancellation and its invoices | `MarketplaceProofs` |
| `ConnectionTokens` | a marketplace connection with one-time refresh tokens | `MarketplaceProofs` |
| `StockDistribution` | the division of a quantity, and the push-stock jobs that carry it out | `StockProofs` |
| `SumTheorems` | facts about sums over finite sets | itself |
| `MC*` | instances of these for TLC | |

`StockProofs` and `MarketplaceProofs` each extend three modules that share no variable.
For that `ErpStockMerge`, `OrderFlow`, `ConnectionTokens` and `StockDistribution` name
what every module has (`Init`, `Next`, `Spec`, `TypeOK`, `vars`, `Crash`) after
themselves, as in `MergeInit` or `OrderSpec`.

### How code becomes actions

*Requests.* A service method that runs when called is a *request* `p`. `pc[p]`
is the await it has reached, `req[p]` its local variables. Everything between
two awaits that reads or writes the database is one action; what only computes
is part of it. A `Start...` action is the first read with the guards on it;
which call a request is, is chosen there. (`ErpStockMerge` calls the two `at` and
`import`, `ConnectionTokens` `at` and `held`, `StockDistribution` `call`.)

*Transactions.* Under READ COMMITTED a statement sees what is committed plus
what its own transaction wrote. The writes of an open transaction therefore
live in `req[p]` and reach the tables in its commit action, the locks follow
from how far each request has got, and an UPDATE of a locked row waits (its
guard is false). `DeadlockVictim` ends a request of a circle of waiting ones, as
PostgreSQL does. `Crash` stands for the death of the process and for any failing
statement: the request ends, an open transaction leaves nothing, what was
committed before stays.

*Jobs.* `ListingSync` has no requests: a job goes through the states Bull gives
it, and an attempt that throws goes through `FailAttempt`. A job is a push and a
generation, since a replay is a new job with the same payload. "waiting" covers
Bull's "delayed": a back-off may take any time.

### ReturnStock

| Action | Code (`return/return.service.ts`) |
|---|---|
| StartCreate, CreateManual, MarkOrderReturned | createFromOrder: read of the order, insert, update of the order |
| StartDecision, WriteDecision, PushDecision | approveReturn and rejectReturn: guard, update by id, job |
| StartUpdate, TxUpdate | updateReturnStatus: read of the previous status, update in the transaction |
| StartPlatform, TxUpdate, TxInsert, TxInsertRefused | upsertFromPlatform: find, then update with other items, or insert (unique id) |
| ReadFresh, ReadStock, AddStock, CommitRestored, CommitKept | maybeRestoreReturnStock and the commit |
| CancelOrder | the order is cancelled elsewhere |

A request that inserts a return names its row. All requests fall on one day, so
that a marketplace row without an id matches any return without one. `stock` is
the platform's row in the main warehouse, `booked` the RETURN movements by return.
`decided` and `untold` are history: the decisions approveReturn and rejectReturn have
written, and those of them whose request ended before it queued the job.

### PurchaseOrder

StartSend, SendMail, StartConfirm, StartCancel and WriteStatus are the three
small methods; StartReceive to Commit are receiveItems with applyPurchaseInflow,
in which UpdateLine locks the line and WriteStock the stock row; PushStock is
triggerListingSync. `released` holds the orders for which sendPO got past its mail:
whether the supplier got it the code does not know, as `EmailService.send` swallows
every error and sends nothing without a key. `held` and `before` are the local sums the code writes as
absolute values. The products have their central row already; what happens when
they do not is the subject of `CentralStock`.

### CentralStock

Every operation becomes a list of stages, each a findFirst and a write: `take`
(check the source, write what is left), `put` (write the sum), `add` (the
`{ increment }` of transferStock), `compare` and `set` (count and correction).
Rows have ids, as there may be several for one place; findFirst returns any of
them. `sent` and `ledger` sum the TRANSFER movements of a place. adjustStock
and transferStock check only that the warehouses exist, which they do here.

### ListingSync

One platform, stock only. A sync-stock job first looks for the listings its barcode
may be pushed to (ReadListings), a sync-batch job has them in its payload; the name of a
job says which it is, and only a batch counts as a replay (`dlqReplay`).
ReadConnection to Finish are processListingSyncBatch and the throw of syncBatch and
syncStock, FilterUpdates the policy of the products; CallBatch and CallItem each may
fail after the marketplace has applied the call. A job that has nothing left to send
before its first call is done (GoOn). `mirror` is `Listing.quantity` with its last
writer: `ListingService.updateStock`, imports and the resolution of conflicts write
there too (WriteQuantity), without a marketplace having accepted it. HandlerFails, moveToDeadLetter and
handlePermanentFailure are ListingSyncDlqHooks.onFailed; StoreDeadLetter and
ReplayDeadLetter the two workers of the dead-letter queue; ReadDeadLetters and
MoveDeadLetter the nightly task, whose list is read once and moved one by one.
`accepted` is what the marketplace has ever taken.

### WebhookDelivery and EndpointBreaker

A job is a row of `WebhookDelivery` and a number: 0 is the first delivery, n the
n-th time a user sends the row again; a test runs in the request. ReadEndpoint to
disableEndpoint are deliverOnce, one action for a statement: nothing here opens a
transaction, so that every gap between two statements is a place where the
owner, another job or the death of the process comes in. ThrowInTry and Rescue
are its catch, which may itself fail. `accepted` counts what the receiver has
answered yes to.

The refinement maps `endpoint.status` and `endpoint.failures` to the abstract
`state` and `count`; `due` is the number of jobs that have counted a failure at
the threshold and have still to write DISABLED. `EndpointBreaker` says nothing
of deliveries: it lets any failure count, but only one that found the threshold
may trip, and only the owner may switch on.

### ErpStockMerge

Transactions are as in section 2: FindErp to CommitMerge are the two functions of
`erp-stock-merge.util.ts`, writes reach the tables in CommitMerge, `HoldsProduct`,
`Merging` and `HoldsCentral` are the row locks. Seen is READ COMMITTED: the sum
takes the committed rows and the transaction's own. A full import locks the
product first and thereby waits for another full import; an import of stock
alone does not. `raced` remembers the products for which a sum was taken while
another open transaction had written the same product; `ever` the values each
ERP row has had. Of `reconcileAfterImport` the stock part is modelled.

### OrderFlow

A request is any call or job with an order. Ask reads the order and decides
about the invoice from what it read, WriteStatus is the update by id; all six
writers of the status share them. The automatic invoice goes to the
organisation's own books (FindDraft, CreateDraft) or through a job to its ERP
(CheckLog, CreateErpInvoice, LogInvoice). Users make invoices too: createFromOrder looks
for an Invoice row in either mode; createManual, syncOrderToErp and pushToErp look for
nothing, and `ownDrafts` and `ownErp` count what they make. ChangeMode is the making,
switching and removing of an ERP connection with the accounting mode it implies, taken
as one write; `mixed` holds the orders whose mode was another once. Issuing an invoice is left
out, so that pushToErp may send any row. TakeCancelJob to Finalize are the
cancel job with Bull's attempts; the code gives it five (STANDARD), the run three.
`market` is the order at the marketplace, which moves by itself. `autoInvoice` is
on, as the property on invoices says nothing otherwise. A marketplace whose
adapter cannot cancel is handled as one that is not connected, as the code does.

### SubscriptionBilling

One organisation. A handler is a request or notification under way; Begin is the
read of the payment, Activate the transaction, FindFee and AddFee the commission
after it. Time is counted in billing periods, and stands still while a handler
runs. Reports of a payment may come late, more than once, and be taken for
another open payment (Latest), as the code does when it does not know the order.
`mislaid` is set when a status was written over another than the one that had
been read, or a cancellation was dated before the end of the period, and reset by
the next activation; `shared` holds payments that two handlers had in hand at
once; `lost` says that the answer to a charge, or the process after it, was lost.

### ConnectionTokens

One connection of a marketplace that takes each refresh token once. Pairs of
tokens are numbered in the order they are given out. A refresher is a job or the
schedule: read, trade, write the column, and a job then uses the pair. A panel request
consents, edits or tests; an edit writes the column back as it was read, a test uses
the column as it is. Using a pair (getAccessToken, as Allegro's and Mercado Libre's
adapters do it) trades its refresh token if the access token is over by then, and the
new pair stays in the caller's memory. `astray` is set when a new pair was lost after
the trade, an adapter traded the column's pair, or an edit wrote over a newer column,
and reset when a pair is stored. With marketplaces that allow a refresh token again less
can go wrong.

### StockDistribution

`computeDistribution` is a function from the total, the sales and the strategy
to a set of divisions: a ratio is a binary fraction, so that a product that
should be whole may come out just short of it, and Floors has both outcomes.
Of the orders in which the code goes through the platforms only the last one matters,
which gets the rest: LastRead and LastBySales are the ends of the two orders.
distributeStock chooses any of them; StoreShares is the transaction, QueueJob the
loop that queues jobs, TakeJob to UpdateRow are handlePushStock with its retries.
`muddled` is set when another request or job was under way, the request died, or
one of its jobs failed for good or was passed over.

### CampaignPrices

A call has the row of its campaign in `rows` from findCampaignOrThrow on (the task:
the rows of a whole round, as findMany returned them) and never reads it again.
ReadListings is resolveAffectedListings, applyCampaignPrices and
restoreCampaignPrices are the transactions of these names; they write values from
memory only, so that each is one step. SetActive and SetEnded are the statements
after them, in a request or in the task; StatementFails is an error, which ends a
request but not the round of the task. The prices follow calculateDiscountedPrice,
in kurus; list prices follow them in the code and are left out. `owner` is the price the
owner gave a listing last, `edited` the listings that got it while a campaign was at them:
the end of the campaign puts the snapshot back over it. `crossed` and
`shared` hold the campaigns, and the listings, that two calls, or two campaigns,
were at: the code has nothing to keep these apart, and says nothing of them.

## 3. What TLC checks

| Run | Bounds | Shows |
|---|---|---|
| `returns` | 2 calls, 2 returns, 2 products, 184,928 states | the goods of a return are booked once, the right ones, none lost; decisions are told; every call ends |
| `listing_sync` | 1 push, a batch or a sync-stock job, to 2 listings, 3 attempts, 2 workers, 2 replays, 1 fault, 445,579 states | MirrorWasAccepted, CompletedDelivered, ReplaysFollowFailure; every queued push is completed or failed in the end |
| `dlq_nightly` | 1 push, no fault | *violated*: dead letters are not retried |
| `purchase_order` | 3 calls, 2 orders, 3 lines, 2 products, symmetric calls, 111,218 states | the order keeps the ledger; stock and announcements stay within what came in |
| `central_stock` | 3 calls, 2 transfers, 1 count, 1 direct move, 1 correction, 46,592 states | no negative row, no half transfer, every call ends |
| `webhooks` | 1 event sent again once, 1 test, 2 attempts, threshold 2, 2 workers, 1 upset, 0.3 million states | RepeatsAreExplained, OpenRowsAreQueued, DeliveriesEnd; the endpoint implements its breaker |
| `erp_merge` | 2 ERPs, 2 full imports and 1 stock import, 2 products, 1 upset, 0.9 million states | the central stock is the sum unless sums raced, and explained if they did; nothing rolled back is announced |
| `orders` | 3 symmetric calls, 1 order, 3 attempts, 2 turns, 1.7 million states | CancelledThereToo, InvoicedOnce |
| `billing` | 2 checkouts, 2 handlers, 2 periods, 2 charges, 5.5 million states | PaidIsServed, CommissionOnce, ChargedOncePerPeriod |
| `tokens` | 2 refreshers, 2 panel requests, 1 consent, 2 expiries, 1 upset, 1.7 million states | the token is kept and renewed, unless it was lost in one of three ways |
| `campaigns` | 2 campaigns, 2 listings, 2 prices of their owner, 3 requests, the task, 1 upset, 719,868 states | OriginalsAreKept, PricesComeBack, ScheduleIsKept |
| `distribution` | divisions: 3 platforms, totals and sales to 4; jobs: 2 symmetric requests, 2 platforms, total 3, 2 attempts, 1 upset, 2.9 million states | shares are fair; the marketplaces together offer the total |

An *upset* is whatever the environment does against the code: a failing
statement, a death of the process, a connection that is removed (*fault* and *turn* mean
the same; a turn may also be a change of the accounting mode, a fault a change of the
settings or a quantity somebody else writes). The type
invariants of all modules but `ReturnStock` and `PurchaseOrder` are the first
conjunct of one of their invariants.

Why these bounds: each race of these services is between two calls on one row,
and a deadlock needs two calls with two rows in both orders; three calls add a
bystander whose commit falls between two steps of another. The item lists hold
the cases that differ: a product twice, a quantity of zero, both orders, an item
the source does not have any more. `listing_sync` has the
code's three attempts; with two replays a crash of the nightly task makes two jobs
of one push run at a time, and one fault may fall at any point. Two pushes, a batch and a
sync-stock job over one listing, with two attempts and one replay satisfy the same
safety properties (`MCListingSyncPair.cfg`, 3.7 million states); liveness is out of TLC's
reach there.
`Attempts` and `Workers` are otherwise parameters. `MaxReplays` and `MaxFaults` are the only
bounds the code does not have; each call of `Requests` is made at most once.

In `webhooks` two attempts and a threshold of two are the least that let a retry
cross a redelivery and a failure of one job trip beside another. In `erp_merge`
the third job is needed for a stale row beside a race. `orders` needs three calls:
one that makes the order shipped, one that takes it back or makes an invoice by hand, one
that finds it shipped again; its two turns let the accounting mode change and change back. In `billing` the second period is needed for a renewal and an
expired trial, the second checkout for a report that is taken for another
payment. In `tokens` the first pair and its successor run out, while a refresher, a job that
uses a pair, a test and an edit are under way. In `campaigns`
three requests pause a campaign, edit it and switch it on again between two rounds
of the task, or switch a second one on beside them; with two prices an owner's newer one
can be told from the one in a snapshot, wherever it falls.

The runs of `ListingSync` and of the later modules do not check for deadlock:
when all work has ended and the bounds are used up, the system is at rest.
`ReturnStock`, `PurchaseOrder` and `CentralStock` have an action `Rest` for that,
so that TLC's deadlock check finds calls that wait for ever.

**Fairness.** `FairSpec` of `ReturnStock` and `CentralStock` says that a call
that was made is carried on: Node's event loop runs what it has scheduled, the
database answers or fails, and PostgreSQL ends circles of waiting transactions.
Nothing is assumed of who makes calls, of crashes, or of which request wins. In
`ListingSync` Bull, the failed-event handlers, the dead-letter worker and the
cron keep running (each weakly fair); users, marketplaces, the database's
failures and crashes owe nothing, and which call of the marketplace succeeds
stays open. `FairSpec` of `WebhookDelivery` lets every queued delivery and every
statement go on, and says nothing of the receiver, the owner and faults. That of
`ConnectionTokens` has the schedule come round, as the cron does every ten
minutes, and a refresh that was begun go on. In `CampaignPrices` time passes and the
task comes round and finishes its rounds (the cron fires every five minutes and
catches errors); requests of users owe nothing. `OrderFlow` states `FairOrderSpec` for the
configuration of section 4 only. `PurchaseOrder`, `ErpStockMerge`,
`SubscriptionBilling` and `StockDistribution` are checked for safety only.

## 4. What the code says of itself and does not hold

The run `dlq_nightly` and the configurations below each check one sentence of the
repository, and TLC refutes it. They can be repeated with
`tlc -config X.cfg M`, where M is the `MC` module the name begins with.

| Configuration | Property | What the code says | What happens |
|---|---|---|---|
| `MCListingSyncNightly` (run `dlq_nightly`) | DeadLettersAreRetried | `jobs/dlq.processor.ts:228`: dead letters are tried again every night | the queue's own `store` worker has taken them by then |
| `MCReturnStockGuard` | NeverApprovesDecided | `return/return.service.ts:455`: a decided return cannot be approved | the guard looks at a stale row; the update is by id |
| `MCPurchaseOrderOver` | NeverOverReceived | `purchase-order.service.ts:354`: no more than what remains | two receipts read the lines before either commits |
| `MCPurchaseOrderCancel` | CancelledHasNoGoods | `purchase-order.service.ts:455`: an order received in part cannot be cancelled | a receipt commits between check and update |
| `MCCentralStockTwice` | MovedOnce | `stock/stock-transfer.service.ts:255`: only an open transfer can be confirmed | two confirmations pass the check |
| `MCCentralStockUnique` | CentralRowIsUnique | `prisma/schema.prisma:1668`: one row for a product, platform and warehouse | the central rows' platform is null, which the index does not find equal |
| `MCWebhookDeliveryResent` | SuccessNotResent | `webhook/outbound-webhook.service.ts:286`: a delivered webhook is not sent again | the first job delivers between redeliver's check and its reset |
| `MCErpStockMergeActive` | CentralIsOfActive | `prisma/schema.prisma:1673`: the central stock is the sum of the active ERP sources | a removed connection's rows stay and count |
| `MCCampaignPricesTwice` | OriginalsAreOriginal | `prisma/schema.prisma:2564`: the prices from before the activation | a request and the task switch one campaign on; the second takes the discounted prices for the originals |
| `MCOrderFlowDelivered` | DeliveredIsInvoiced | `prisma/schema.prisma:1829`: a sales invoice is made when the order is delivered | pulls and bulk changes of the status make none |
| `MCSubscriptionBillingTwice` | CommissionIsIdempotent | `partner/partner.service.ts:870`: idempotent | two reports of one payment both find no entry |
| `MCSubscriptionBillingAccess` | AccessUntilPeriodEnd | the panel, `SubscriptionTab.tsx:1013`: access until the end of the period | a late write dates the cancellation earlier |

Noted while modelling, with no statement to refute: a return opened in the panel
is never linked to the marketplace's return of the same goods, so both restore
them (`platformReturnId` is only written when it is already the same);
`StockService.updateStock` has no caller; push and pull jobs are never
dead-lettered; a replay that cannot be queued is reported as permanently failed
twice; nothing in the repository increases `reservedQty`, so the release of
reservations at a cancellation has no effect; PayTR's activation leaves
`subscriptionEndsAt` of an earlier cancellation in place; with several ERPs the
marketplaces are told the quantity of the one that was imported, not the sum; the
`push-price` jobs of campaigns carry no price, so that their worker finds nothing
to send and the marketplaces keep the old one
(`jobs/marketplace-push.processor.ts:230`); a campaign that is switched on again
after a pause takes its percentage off the discounted price; a paused campaign is
never ended by the task, and when it is deleted its prices stay lowered; a price the
owner gives a listing during a campaign is overwritten when it ends; two campaigns on one listing that do not nest leave the first one's price behind; the decision of a
request that dies before it has queued its job is never told; a purchase order counts as
sent though its mail failed; `ListingService.updateStock` shows a quantity no marketplace
has accepted yet, also if none ever does; the panel's `syncOrderToErp` makes a second
invoice of an order that has one; a test of a connection may spend the one refresh token
in the column.

## 5. What is proved

With TLAPS, for any number of calls, rows, products, quantities, jobs and faults.
Every safety property that a passing run checks is a theorem, of states, of steps and
of refinement alike:

| Module | Theorem | Property of the runs |
|---|---|---|
| `ReturnStockProofs` | TypeCorrect | TypeOK |
| | ReceivedRestocked | ReceivedIsRestocked |
| | NeverRestockedTwice | RestockedOnce |
| | MovementsAreTheItems | BooksWhatItHolds (of steps) |
| | DecisionsTold | DecisionsAreTold |
| | RestockedThroughOneRow | PlatformReturnOnce |
| | NoRestockLost | StockMatchesMovements |
| `PurchaseOrderProofs` | TypeCorrect | TypeOK |
| | OrderedGoodsOnly | GoodsWereOrdered |
| | CompleteWhenReceived | ReceivedIsComplete |
| | ImplementsLedger | KeepsLedger (refinement) |
| | StockExplained | StockIsExplained |
| `StockProofs` | NoneBelowZero | NeverNegative |
| | NoHalfTransfer | TransfersBalance |
| | CompletedMoved | ClosedWithItsGoods |
| | CentralIsSum | SumUnlessRaced |
| | CentralWasReal | CentralIsExplained |
| | PushesAreCommitted | PushesWereImported |
| | FairShares (and DivisionIsFair) | SharesAreFair |
| | TotalIsShown | MarketsShowTotal |
| `MarketplaceProofs` | MirrorIsTrue | MirrorWasAccepted |
| | DoneWasDelivered | CompletedDelivered |
| | ReplayedAfterFailure | ReplaysFollowFailure |
| | NoneDropped | CancelledThereToo |
| | OneInvoice | InvoicedOnce |
| | TokenNotLost | TokenKept |
| `WebhookDeliveryProofs` | OpenRowsQueued | OpenRowsAreQueued |
| | RepeatsExplained | RepeatsAreExplained |
| | ImplementsBreaker | KeepsBreaker (refinement) |
| `SubscriptionBillingProofs` | PaidStaysServed | PaidIsServed |
| | OneCommission | CommissionOnce |
| | OneCharge | ChargedOncePerPeriod |
| `CampaignPricesProofs` | OriginalsKept | OriginalsAreKept |
| | NothingLeftDiscounted | PricesComeBack |

The assumptions are those of the modules (`...Assumption`), which TLC evaluates
in every run: statuses and lists are of the right kind, a delivery names lines of
its order, quantities are positive, places and lines are finite. A transfer moves
one product from one place to another (`Move`), as a `StockTransferItem` has
one `productId`. There is a payment at all (`Payments # {}`), and "none" and
"scheduler" are no campaign and no user. There is an order and a platform, the
connections of ERPs and the platforms are finitely many, and platforms are numbers,
which stand for the order they are read in. Nothing is assumed of the number of
calls, jobs, attempts, campaigns or periods, or of the order of steps.

Each proof rests on an inductive invariant (`IInv`; `MergeInv`, `OrderInv`, `TokenInv`
and `DistributionInv` in the parts of the two common modules), which TLC checked on the
instance of the run before it was proved; but for SharesAreFair, which is about the
division alone, none of the properties is inductive by itself. A theorem `Inductive`
(`MergesInductive`, `OrdersInductive`, ...) says that the specification implies it always
(`Invariant` in `ReturnStockProofs` and `PurchaseOrderProofs`, which have a second
invariant besides); the other theorems follow from it.

*Returns.* TypeOK is inductive only with `Locals`: a request that is at a
statement has the row and the list position that statement needs. The
invariant then adds three things. No two requests hold one return row
(the row lock). A request past ReadFresh knows from `stockRestoredAt`, which
cannot change under its lock, that the return is not restored; this is why the
stale previous status does no harm to RestockedOnce. For ReceivedIsRestocked one
needs more: the only way to skip the restore is a previous status that already
restores, and a return that ever had one is restored from then on.
PlatformReturnOnce rests on `IdInv`: an insert the unique index has let through
is alone with its identifier until it commits, so that of two pulls that both
found nothing one is refused. For StockMatchesMovements `LedgerInv` says that the
increments of an open transaction are the units of the items it has passed; the
commit then books them all, whatever other restocks committed in between. DecisionsAreTold
says of each decision written where it is: told, on its way with the request that wrote it,
or lost with that request; a request at its push is one that has written.

*Purchase orders.* `IInv` says of each request, by what it does, that it is
sound: a status change to SENT has got past its mail, a receipt holds its lines alone,
the local copy of a line is within the order and covers what the receipt adds,
and a decision for RECEIVED is covered by the movements. The last is the point
where a naive invariant fails: a line may be overwritten with a lower value
between the reading of the lines and the write of the status, so that the
theorem speaks of the movements, which only grow, and `LinesAreCovered`
(received <= booked) carries it over. ImplementsLedger follows: Commit is a
`Deliver` step of `GoodsLedger`, all other steps leave its variables alone.
StockIsExplained needs `ClaimIsSound`: what a request has read or written of a
product is covered by what is booked and what it will itself book.

*Central stock.* A request's stages come in pairs (`InPairs`): a take is followed
by a put of as many units of the same product. What a transaction has sent sums to
minus what it still owes (`Owed`), which is zero between pairs, and a commit comes
only there. A row that is about to be written was read with enough in it; that the
committed row may have changed since is why lost updates remain possible
(MovedOnce is refuted) while negative quantities do not: what is written comes
from the quantity that was checked.

*Listing sync.* `WorkIsSound` ties the worker's variables to the marketplace:
what it counts as done was accepted. A job leaves off where it called the marketplace or
before, and its place stays in `work` when it is done, which is what CompletedDelivered
looks at. `Attempted` and `DeadFailed` make the three
queues exclude each other: whatever is in the dead-letter queue, in the list of
the nightly task or about to be reported has failed for good, and such a job
never runs again.

*Webhooks.* For RepeatsAreExplained a job whose yes has arrived is past its post for
good (`Settled`), and each further yes is paid for by a fault. OpenRowsAreQueued
needs that whoever opened a row last has not yet written its outcome
(`OpenHasWriter`), which survives crossing redeliveries because a reset is followed
by a job. The refinement maps the pending DISABLED writes to `due`; started jobs
are finitely many however many there may be, so that their number exists.

*Subscriptions.* `StatusFollows` is the point: unless a status was mislaid, a
period that still runs is never on trial, and ends no later than the access does;
then no tick of the clock can end the access first. A charge is followed from the
answer to the write that moves the end of the period (`ChargeIsKnown`), a payment
from hand to hand (`OneInHand`, `FeeIsNew`).

*Campaigns.* What a call has read of a campaign that no other call is at is still
what the campaign has (`ReadsCurrent`); hence an original is taken only of a
listing without one, or kept. Prices are the owners' (`Owned`: the last one, or an earlier one of a listing in `edited`)
in four places: originals, prices read for an activation, prices put back while the
originals are still there, and prices nobody engages.

*ERP merge.* `JobSound` says of each job, by how far it is, what its transaction has
seen; `TablesSound` what the tables keep: a product without a race has one central row
with the total, or no row and nothing to sum. The two meet in `OneMerges`: of a product
that is not raced at most one job is past its sum, as the second would have found the
first one's ERP row written and marked the product. Hence between the sum and the commit
no other commit changes a term of it, and what is committed is still the sum.
CentralIsExplained does without this, as what the sum has seen was committed once
(`SumExplained`), which no later step can undo. An announcement repeats a value of
the feed that was committed (`Known`), and values are only added to `ever`.

*Orders.* A cancellation on its way to the row was taken by the marketplace or has
nobody to be told (`CancelledThereFirst`); a cancelled order does not move any more.
For invoices `OneLedger` keeps the books and the ERP apart as long as the mode stays, and
`OneMaker` says that of an order without doubt at most one request makes an invoice after a
look and is the first to; what users make without a look is counted apart (`MoreDrafts`,
`MoreErp`);
between the ERP's answer and its log entry the job that called is still there
(`LoggedOrDoubtful`), so that the next one sees the entry or waits in doubt.

*Tokens.* A pair that was traded and not yet stored is still taken by the marketplace and
is with one process only (`NewPairsAreFresh`), so that storing it makes the column good
whatever was stored in between; and while the column's pair is spent, a refresher with
such a pair is under way, or it went astray (`PairIsUsable`). A pair in use proves nothing: an
adapter that trades the column's sets `astray`, one that trades an older or a newer pair
does not touch the column. That the numbers of pairs suffice is
`PairsAreCounted`.

*Distribution.* Fairness is arithmetic: a floor times the sum of the weights is at most
the total times the weight (`FloorIs`); summed up, the floors of all but the last leave
at least nothing (`DivideIs`). For equal shares the platforms' ranks are 0, 1, 2, ...
(`Ranks`), so that exactly the remainder gets one more. For MarketsShowTotal a request
that is not disturbed is alone (`Alone`): the rows hold its shares from the transaction
on, and a marketplace shows its share unless its job is still to be queued or has not
come past its call. A repeated job sends the same quantity, which is why it does no harm.

*Sums.* `SumTheorems` proves what is needed of `SumFunctionOnSet`: empty sets,
splitting, changing one term, adding functions, monotony, factors, counting. The library's induction
theorems take a predicate as a parameter, which the installed provers cannot
instantiate; the proofs go over a set instead, by the smallest counterexample.

Only model-checked:

* Liveness (RequestsEnd, JobsSettle, DeliveriesEnd, TokensAreRenewed,
  ScheduleIsKept): ENABLED and fairness are beyond the prover's backends.
* The refuted statements of section 4.

No module here declares a RECURSIVE operator.

## 6. Mutants

Each checked property has a mutant: an operator `Mut...` beside the definition
it would replace, changed the way a plausible bug would (a missing guard, a
value computed too early, a step out of order). With it TLC finds the property
violated, so that none of the properties holds by the shape of the model.

## 7. Not modelled, and why

Amounts of money (but for the prices campaigns change), texts, logs,
notifications, caches and queries: no property speaks of them. Vendor adapters: formats and HTTP; the modules have what the code expects
of them (a call is applied, refused, or applied without an answer). User
interfaces. Authentication and sessions, issuing of invoices, partners apart from
commissions, data import, pricing: single rows without concurrency of their own,
or not surveyed in full. The repository is far larger than its core: most of its
lines are adapters, forms, pages, reports and translations, which keep no state a
property could be about. The list of `components` in `PROJECT.json` names each
part with its reason.

## 8. Plan

1. *Done*: eleven modules of the system, two abstract specifications, the runs
   of section 3, and proofs of all their safety properties and of both
   refinements (section 5).
2. Further models: sessions and their limit, issuing of invoices; of the hazards
   without a property, the second approval of a return and the quantity that is
   announced when several ERPs have a product.
