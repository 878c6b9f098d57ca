--------------------------- MODULE ErpStockMerge ---------------------------
(***************************************************************************)
(* The stock that several ERP connections of an organisation bring in      *)
(* (apps/backend/src/jobs/erp-sync.processor.ts handleSyncProducts and     *)
(* pullStockFromErp, erp-connection/erp-stock-merge.util.ts, erp-product-  *)
(* reconcile.service.ts): each keeps its own ErpStockEntry rows, and the   *)
(* central stock is set to their sum, one transaction for each product.    *)
(*                                                                         *)
(* import[p] holds the local variables of a job and uncommitted writes.    *)
(* The transactions run under READ COMMITTED: a statement reads what is    *)
(* committed, and a row one has written is locked until it ends.           *)
(***************************************************************************)
EXTENDS Integers, Sequences, FiniteSets, Functions

CONSTANTS
  Jobs,       \* jobs of the erp-sync queue
  SourceOf,   \* the connection each was queued for
  FullSyncs,  \* the sync-products jobs; the others are sync-stock
  Sources,    \* ErpConnection rows, all of one ERP type
  Products,   \* stock keys in the main warehouse
  Feeds,      \* what the ERP may answer each: sequences of a product and its quantity
  MaxUpsets   \* bound: removed connections, failing transactions and deaths of the
              \* process, taken together

ASSUME ErpStockMergeAssumption ==
  /\ SourceOf \in [Jobs -> Sources] /\ FullSyncs \subseteq Jobs
  /\ IsFiniteSet(Sources) /\ IsFiniteSet(Products)
  /\ \A p \in Jobs : Feeds[p] \subseteq Seq([product : Products, qty : Nat])
  /\ MaxUpsets \in Nat

Absent == -1
NoRow == <<>>
CentralIds == {NoRow} \cup (Jobs \X Products)

VARIABLES
  active,     \* the connections that are active and not deleted
  erp,        \* ErpStockEntry.quantity of each connection and product, or Absent
  central,    \* the central StockEntry rows: their products and quantities
  announced,  \* the quantities queued for the marketplaces
  ever,       \* the values a connection's row has had
  raced,      \* products for which a sum missed another open transaction's write
  at, import, faults

mergeVars == <<active, erp, central, announced, ever, raced, at, import, faults>>

\* A job that turns to item k of what it imports or removes.
Working(feed, k, removing, pushes) ==
  [feed |-> feed, k |-> k, removing |-> removing, before |-> 0, found |-> FALSE,
   sum |-> 0, row |-> NoRow, pushes |-> pushes]
NoImport == Working(<<>>, 1, FALSE, {})
Push == [product : Products, qty : Nat]
Import == [feed : Seq(Push), k : Nat \ {0}, removing : BOOLEAN, before : Nat, found : BOOLEAN,
           sum : Nat, row : CentralIds, pushes : SUBSET Push]

InTx == {"find", "write", "sum", "findCentral", "writeCentral", "commit"}

MergeTypeOK ==
  /\ active \subseteq Sources
  /\ erp \in [Sources -> [Products -> Nat \cup {Absent}]]
  /\ DOMAIN central \subseteq CentralIds /\ \A r \in DOMAIN central : central[r] \in Push
  /\ announced \subseteq Push
  /\ ever \in [Sources -> [Products -> SUBSET (Nat \cup {Absent})]]
  /\ raced \subseteq Products
  /\ at \in [Jobs -> {"idle", "prior", "product", "queue", "reconcile", "done"} \cup InTx]
  /\ import \in [Jobs -> Import] /\ \A p \in Jobs : import[p].k <= Len(import[p].feed) + 1
  /\ faults \in 0..MaxUpsets

MergeInit ==
  /\ active = Sources
  /\ erp = [s \in Sources |-> [i \in Products |-> Absent]]
  /\ central = <<>>
  /\ announced = {}
  /\ ever = [s \in Sources |-> [i \in Products |-> {Absent}]]
  /\ raced = {}
  /\ at = [p \in Jobs |-> "idle"]
  /\ import = [p \in Jobs |-> NoImport]
  /\ faults = 0

MayUpset == faults + Cardinality(Sources \ active) < MaxUpsets
Source(p) == SourceOf[p]
Item(p) == import[p].feed[import[p].k]
MoveJob(p, l) == at' = [at EXCEPT ![p] = l]
World == <<active, erp, central, announced, ever, raced, faults>>
Stored == <<active, erp, central, announced, ever, faults>>

\* The transactions that have written the ERP row of product i, or locked the product's row,
\* or written central row r, and are still open.
Merging(i) == {q \in Jobs : at[q] \in {"sum", "findCentral", "writeCentral", "commit"} /\ Item(q).product = i}
HoldsProduct(i) == {q \in FullSyncs : ~import[q].removing /\ at[q] \in InTx /\ Item(q).product = i}

HoldsCentral(p, r) == {q \in Jobs \ {p} : at[q] = "commit" /\ import[q].row = r}

\* What the sum of job p sees: the committed rows and its own write.
Seen(p, s, i) ==
  IF s # Source(p) \/ i # Item(p).product THEN erp[s][i]
  ELSE IF import[p].removing THEN Absent ELSE Item(p).qty

\* The aggregate leaves out what has no row.
Counted(q) == IF q = Absent THEN 0 ELSE q

\* Mutant of MergedQty: the connection's own row counts as it was before the transaction.
MutOldOwn(p, i) == SumFunctionOnSet([s \in Sources |-> Counted(erp[s][i])], Sources)
\* Mutant of MergedQty: the aggregate is not limited to the product.
MutAllProducts(p, i) ==
  SumFunctionOnSet([x \in Sources \X Products |-> Counted(Seen(p, x[1], x[2]))], Sources \X Products)
MergedQty(p, i) == SumFunctionOnSet([s \in Sources |-> Counted(Seen(p, s, i))], Sources)

----------------------------------------------------------------------------
\* From item to item.

\* After an item of the feed the next one, then the pushes; after a stale row the next one.
Follow(p, pushes) ==
  LET r == import[p]
      more == r.k < Len(r.feed)
  IN  /\ import' = [import EXCEPT ![p] = Working(r.feed, r.k + 1, r.removing, pushes)]
      /\ MoveJob(p, IF more THEN (IF r.removing THEN "write" ELSE "prior")
                 ELSE IF r.removing THEN "done" ELSE "queue")

\* An item that changed the stock is remembered for the marketplaces, with the quantity this
\* connection gave.
AfterImport(p) ==
  IF import[p].removing \/ import[p].before = Item(p).qty THEN import[p].pushes
  ELSE {x \in import[p].pushes : x.product # Item(p).product} \cup {Item(p)}

GiveUp(p) == MoveJob(p, "done") /\ import' = [import EXCEPT ![p] = NoImport]

\* Mutant of ItemFails: the marketplaces are told all the same.
MutFailsAndPushes(p) == IF import[p].removing THEN GiveUp(p) ELSE Follow(p, AfterImport(p))

\* The transaction is rolled back: the import counts the item as failed and goes on, the
\* reconciliation gives up.
ItemFails(p) == IF import[p].removing THEN GiveUp(p) ELSE Follow(p, import[p].pushes)

\* runSyncJob: the credentials are those of the connection the job names or, when that one
\* is gone, of any other of the same type.
StartJob(p) ==
  /\ at[p] = "idle"
  /\ IF active = {} THEN MoveJob(p, "done") /\ UNCHANGED import
     ELSE \E feed \in Feeds[p] :
            /\ import' = [import EXCEPT ![p] = Working(feed, 1, FALSE, {})]
            /\ MoveJob(p, IF feed = <<>> THEN "queue" ELSE "prior")
  /\ UNCHANGED World

CentralRows(i) == {r \in DOMAIN central : central[r].product = i}

\* The central stock as the movement and the decision to push will see it.
ReadPrior(p) ==
  /\ at[p] = "prior"
  /\ \/ CentralRows(Item(p).product) = {} /\ UNCHANGED import
     \/ \E r \in CentralRows(Item(p).product) : import' = [import EXCEPT ![p].before = central[r].qty]
  /\ MoveJob(p, IF p \in FullSyncs THEN "product" ELSE "find")
  /\ UNCHANGED World

\* tx.product.update of sync-products, which locks the product.
LockProduct(p) ==
  /\ at[p] = "product" /\ HoldsProduct(Item(p).product) = {}
  /\ MoveJob(p, "find")
  /\ UNCHANGED <<World, import>>

----------------------------------------------------------------------------
\* upsertErpStockAndMergeCentral and deleteErpStockAndMergeCentral.

FindErp(p) ==
  /\ at[p] = "find"
  /\ import' = [import EXCEPT ![p].found = erp[Source(p)][Item(p).product] # Absent]
  /\ MoveJob(p, "write")
  /\ UNCHANGED World

\* The update or create, which waits for another job of the connection, and fails when the
\* row has gone or come meanwhile; deleteMany takes what there is.
WriteErp(p) ==
  /\ at[p] = "write"
  /\ ~\E q \in Merging(Item(p).product) : Source(q) = Source(p)
  /\ IF import[p].removing \/ import[p].found = (erp[Source(p)][Item(p).product] # Absent)
     THEN MoveJob(p, "sum") /\ UNCHANGED import
     ELSE ItemFails(p)
  /\ UNCHANGED World

Sum(p) ==
  /\ at[p] = "sum"
  /\ import' = [import EXCEPT ![p].sum = MergedQty(p, Item(p).product)]
  /\ raced' = IF Merging(Item(p).product) # {p} THEN raced \cup {Item(p).product} ELSE raced
  /\ MoveJob(p, "findCentral")
  /\ UNCHANGED Stored

FindCentral(p) ==
  /\ at[p] = "findCentral"
  /\ LET rows == CentralRows(Item(p).product)
     IN  \/ rows = {} /\ MoveJob(p, IF import[p].removing THEN "commit" ELSE "writeCentral") /\ UNCHANGED import
         \/ \E r \in rows : import' = [import EXCEPT ![p].row = r] /\ MoveJob(p, "writeCentral")
  /\ UNCHANGED World

\* The row found is updated, or deleted when nothing is left; without one a row is created.
WriteCentral(p) ==
  /\ at[p] = "writeCentral"
  /\ LET r == import[p].row
     IN  IF r = NoRow THEN MoveJob(p, "commit") /\ import' = [import EXCEPT ![p].row = <<p, Item(p).product>>]
         ELSE /\ HoldsCentral(p, r) = {}
              /\ IF r \in DOMAIN central THEN MoveJob(p, "commit") /\ UNCHANGED import
                                         ELSE ItemFails(p)
  /\ UNCHANGED World

\* The central rows with one created or updated.
Put(r, new) == [x \in DOMAIN central \cup {r} |-> IF x = r THEN new ELSE central[x]]

CommitMerge(p) ==
  /\ at[p] = "commit"
  /\ LET s == Source(p)
         i == Item(p).product
         r == import[p].row
         new == IF import[p].removing THEN Absent ELSE Item(p).qty
     IN  /\ erp' = [erp EXCEPT ![s][i] = new]
         /\ ever' = [ever EXCEPT ![s][i] = @ \cup {new}]
         /\ central' =
              IF r = NoRow THEN central
              ELSE IF import[p].removing /\ import[p].sum = 0 THEN Restrict(central, DOMAIN central \ {r})
              ELSE Put(r, [product |-> i, qty |-> import[p].sum])
  /\ Follow(p, AfterImport(p))
  /\ UNCHANGED <<active, announced, raced, faults>>

----------------------------------------------------------------------------
\* After the items.

\* enqueueStockPushBatch.
QueuePushes(p) ==
  /\ at[p] = "queue"
  /\ announced' = announced \cup import[p].pushes
  /\ MoveJob(p, IF p \in FullSyncs THEN "reconcile" ELSE "done")
  /\ import' = [import EXCEPT ![p].pushes = {}]
  /\ UNCHANGED <<active, erp, central, ever, raced, faults>>

Order(is) == CHOOSE o \in [1..Cardinality(is) -> is] : Range(o) = is

\* reconcileAfterImport: the rows of the connection that the feed did not have.
Reconcile(p) ==
  /\ at[p] = "reconcile"
  /\ LET stale == {i \in Products : erp[Source(p)][i] # Absent} \ {import[p].feed[n].product : n \in 1..Len(import[p].feed)}
     IN  IF stale = {} \/ Source(p) \notin active
         THEN GiveUp(p)
         ELSE /\ import' = [import EXCEPT ![p] = Working(
                   [n \in 1..Cardinality(stale) |-> [product |-> Order(stale)[n], qty |-> 0]], 1, TRUE, {})]
              /\ MoveJob(p, "write")
  /\ UNCHANGED World

----------------------------------------------------------------------------
\* remove: the connection is marked deleted; its stock rows and the central stock stay.
RemoveConnection(s) ==
  /\ s \in active /\ MayUpset
  /\ active' = active \ {s}
  /\ UNCHANGED <<erp, central, announced, ever, raced, at, import, faults>>

\* A statement fails, or the transaction takes too long.
TxFails(p) ==
  /\ at[p] \in InTx /\ MayUpset
  /\ faults' = faults + 1
  /\ ItemFails(p)
  /\ UNCHANGED <<active, erp, central, announced, ever, raced>>

\* The process dies; Bull runs its jobs again from the start.
MergeCrash ==
  /\ MayUpset
  /\ faults' = faults + 1
  /\ at' = [p \in Jobs |-> IF at[p] = "done" THEN "done" ELSE "idle"]
  /\ import' = [p \in Jobs |-> NoImport]
  /\ UNCHANGED <<active, erp, central, announced, ever, raced>>

Step(p) ==
  \/ StartJob(p) \/ ReadPrior(p) \/ LockProduct(p) \/ FindErp(p) \/ WriteErp(p) \/ Sum(p)
  \/ FindCentral(p) \/ WriteCentral(p) \/ CommitMerge(p) \/ QueuePushes(p) \/ Reconcile(p)

MergeNext ==
  \/ \E p \in Jobs : Step(p) \/ TxFails(p)
  \/ \E s \in Sources : RemoveConnection(s)
  \/ MergeCrash

MergeSpec == MergeInit /\ [][MergeNext]_mergeVars

----------------------------------------------------------------------------
(* Properties *)

Total(i) == SumFunctionOnSet([s \in Sources |-> Counted(erp[s][i])], Sources)

\* erp-stock-merge.util.ts:3, 'merkezi stoku tüm ERP kaynaklarının toplamına günceller' (sets
\* the central stock to the sum of all ERP sources): true of every product, through failing
\* items, reconciliations, deaths and repeated jobs, as long as no sum was taken while
\* another transaction had the same product written and not committed.  (The types are
\* checked along with it.)
SumUnlessRaced ==
  MergeTypeOK /\ \A i \in Products \ raced :
    /\ Cardinality(CentralRows(i)) <= 1
    /\ SumFunctionOnSet([r \in CentralRows(i) |-> central[r].qty], CentralRows(i)) = Total(i)

\* Raced or not, a central row is the sum of one value for each connection that its row
\* really had at some time: no quantity counts twice, and none of another product.
CentralIsExplained ==
  \A r \in DOMAIN central :
    \E then \in [Sources -> UNION {ever[s][central[r].product] : s \in Sources}] :
      /\ \A s \in Sources : then[s] \in ever[s][central[r].product]
      /\ central[r].qty = SumFunctionOnSet([s \in Sources |-> Counted(then[s])], Sources)

\* The marketplaces are told only quantities that a connection's row has had: nothing of an
\* item that failed, and nothing before its transaction is committed.
PushesWereImported ==
  \A x \in announced : \E s \in Sources : x.qty \in ever[s][x.product]

\* schema.prisma:1673, 'merkezi stok = aktif ERP kaynaklarının toplamı' (the central stock is
\* the sum of the active ERP sources), where jobs are at rest and none has raced.
CentralIsOfActive ==
  (\A p \in Jobs : at[p] \in {"idle", "done"}) =>
    \A i \in Products \ raced : \A r \in CentralRows(i) :
      central[r].qty = SumFunctionOnSet([s \in active |-> Counted(erp[s][i])], active)
=============================================================================
