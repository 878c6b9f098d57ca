---------------------------- MODULE ReturnStock ----------------------------
(***************************************************************************)
(* Customer returns and the stock they bring back                          *)
(* (apps/backend/src/return/return.service.ts).                            *)
(*                                                                         *)
(* A request is one call of createFromOrder, approveReturn, rejectReturn,  *)
(* updateReturnStatus, or one row of upsertFromPlatform.  Requests of the  *)
(* panel and the jobs of the pull queue run concurrently; they interleave  *)
(* at every await, and a process may die at any of them.                   *)
(*                                                                         *)
(* PostgreSQL runs the transactions under READ COMMITTED: a statement      *)
(* reads what is committed when it runs, an UPDATE or INSERT keeps its row *)
(* locked until the transaction ends, and nothing of a transaction is      *)
(* visible before it commits.  So the writes of an open transaction live   *)
(* in req[p] and reach the tables in its commit action, and the locks are  *)
(* derived from how far each request has got.                              *)
(***************************************************************************)
EXTENDS Integers, Sequences, FiniteSets, Functions

CONSTANTS
  Requests,     \* the calls that are made, each of them once
  Existing,     \* returns that are in the table already
  Barcodes,     \* products
  ItemLists,    \* the lists of return items the callers send
  PlatformIds,  \* the marketplace's own identifiers of its returns
  NoId,         \* null in Return.platformReturnId
  Targets,      \* the statuses updateReturnStatus is asked for
  Reports       \* the rows the marketplaces' adapters hand to upsertFromPlatform

ReturnStatus == {"REQUESTED", "APPROVED", "IN_TRANSIT", "RECEIVED",
                 "REFUNDED", "REJECTED", "COMPLETED"}
Absent == "ABSENT"   \* a key that is not in the table yet, or a null status

\* A request inserts at most one return: its key is named after the request.
Rows == Requests \cup Existing

Decision == [row : Rows, action : {"APPROVED", "REJECTED"}]
Item == [barcode : Barcodes, quantity : Nat]
RawStatus == ReturnStatus \cup {"OTHER"}

ASSUME ReturnAssumption ==
  /\ NoId \notin PlatformIds
  /\ Requests \cap Existing = {}
  /\ Targets \subseteq ReturnStatus
  /\ ItemLists \subseteq Seq(Item)
  /\ Reports \subseteq [id : PlatformIds \cup {NoId}, status : RawStatus, items : Seq(Item)]

VARIABLES
  ret,      \* table Return: key -> status, stockRestoredAt set?, platformReturnId, items
  stock,    \* StockEntry.quantity of the platform's row in the main warehouse
  booked,   \* RETURN movements: key -> the item lists taken into stock for it
  order,    \* status of the order the returns belong to
  pushes,   \* push-return-action jobs handed to the marketplace-push queue
  decided,  \* history: the decisions approveReturn and rejectReturn wrote to a return
  untold,   \* history: of these, those whose request ended before it queued the job
  pc,       \* the await each request has reached
  req       \* the local variables and uncommitted writes of each request

told == <<pushes, decided, untold>>
vars == <<ret, stock, booked, order, told, pc, req>>

STOCK_RESTORE_STATUSES == {"RECEIVED", "REFUNDED"}
DecidedForApprove == {"REJECTED", "REFUNDED", "COMPLETED"}
Ended == {"done", "failed"}
\* Awaits at which a request's transaction is open and holds its Return row.
InTx == {"fresh", "readStock", "addStock", "keep"}

NoReq(p) == [op |-> "none", row |-> p, id |-> NoId, to |-> Absent, prev |-> Absent,
             items |-> <<>>, k |-> 1, mark |-> FALSE,
             before |-> [b \in Barcodes |-> 0], added |-> [b \in Barcodes |-> 0]]

\* Mutant: a marketplace's own wording is stored as it comes.
MutMapStatus(raw) == raw

mapPlatformReturnStatus(raw) == IF raw \in ReturnStatus THEN raw ELSE "REQUESTED"

Present(r) == ret[r].status # Absent
RowLocked(r) == \E q \in Requests : pc[q] \in InTx /\ req[q].row = r
\* The barcodes whose stock row p's open transaction has updated so far.
StockHeld(p) ==
  IF pc[p] \in {"readStock", "addStock"} THEN {b \in Barcodes : req[p].added[b] > 0} ELSE {}
ReturnRow == [status : ReturnStatus \cup {Absent}, restored : BOOLEAN,
              id : PlatformIds \cup {NoId}, items : Seq(Item)]
Request == [op : {"none", "create", "decide", "update", "platform"}, row : Rows,
            id : PlatformIds \cup {NoId}, to : ReturnStatus \cup {Absent},
            prev : ReturnStatus \cup {Absent}, items : Seq(Item), k : Nat \ {0},
            mark : BOOLEAN, before : [Barcodes -> Int], added : [Barcodes -> Nat]]

TypeOK ==
  /\ ret \in [Rows -> ReturnRow]
  /\ booked \in [Rows -> Seq(Seq(Item))]
  /\ order \in {"OPEN", "CANCELLED", "RETURNED"}
  /\ pushes \subseteq Decision /\ decided \subseteq Decision /\ untold \subseteq Decision
  /\ pc \in [Requests -> {"idle", "create", "markOrder", "decide", "push", "tx",
                          "insert"} \cup InTx \cup Ended]
  /\ req \in [Requests -> Request]
  /\ stock \in [Barcodes -> Int]

Init ==
  /\ ret \in [Rows -> [status : {Absent, "REQUESTED"}, restored : {FALSE},
                        id : PlatformIds \cup {NoId}, items : ItemLists \cup {<<>>}]]
  /\ \A p \in Requests : ret[p] = [status |-> Absent, restored |-> FALSE, id |-> NoId, items |-> <<>>]
  /\ \A r \in Existing : ret[r].status = "REQUESTED" /\ ret[r].items \in ItemLists
  /\ \A r, s \in Existing : ret[r].id = ret[s].id /\ ret[r].id # NoId => r = s
  /\ stock = [b \in Barcodes |-> 0]
  /\ booked = [r \in Rows |-> <<>>]
  /\ order = "OPEN"
  /\ pushes = {} /\ decided = {} /\ untold = {}
  /\ pc = [p \in Requests |-> "idle"]
  /\ req = [p \in Requests |-> NoReq(p)]

Goto(p, l) == pc' = [pc EXCEPT ![p] = l]

\* The request ends, and its local variables and uncommitted writes with it.
End(p, l) == Goto(p, l) /\ req' = [req EXCEPT ![p] = NoReq(p)]

----------------------------------------------------------------------------
\* createFromOrder: read the order, insert the return, then mark the order.

StartCreate(p, its) ==
  /\ pc[p] = "idle"
  /\ IF order = "CANCELLED"
     THEN End(p, "failed")
     ELSE /\ req' = [req EXCEPT ![p] = [NoReq(p) EXCEPT !.op = "create", !.items = its,
                       !.mark = (order # "RETURNED")]]
          /\ Goto(p, "create")
  /\ UNCHANGED <<ret, stock, booked, order, told>>

CreateManual(p) ==
  /\ pc[p] = "create"
  /\ ret' = [ret EXCEPT ![p] = [status |-> "REQUESTED", restored |-> FALSE,
                                id |-> NoId, items |-> req[p].items]]
  /\ IF req[p].mark THEN Goto(p, "markOrder") /\ UNCHANGED req ELSE End(p, "done")
  /\ UNCHANGED <<stock, booked, order, told>>

MarkOrderReturned(p) ==
  /\ pc[p] = "markOrder"
  /\ order' = "RETURNED"
  /\ End(p, "done")
  /\ UNCHANGED <<ret, stock, booked, told>>

\* The order is cancelled elsewhere (OrderService.finalizeOrderCancellationFromJob).
CancelOrder ==
  /\ order = "OPEN"
  /\ order' = "CANCELLED"
  /\ UNCHANGED <<ret, stock, booked, told, pc, req>>

----------------------------------------------------------------------------
\* approveReturn and rejectReturn: a guard on the row read first, an UPDATE that
\* commits on its own, and a job for the marketplace when the row has its id.

StartDecision(p, r, s) ==
  /\ pc[p] = "idle"
  /\ Present(r)
  /\ IF ret[r].status \in DecidedForApprove
     THEN End(p, "failed")
     ELSE /\ req' = [req EXCEPT ![p] = [NoReq(p) EXCEPT !.op = "decide", !.row = r,
                       !.to = s, !.id = ret[r].id]]
          /\ Goto(p, "decide")
  /\ UNCHANGED <<ret, stock, booked, order, told>>

DecisionOf(p) == [row |-> req[p].row, action |-> req[p].to]

WriteDecision(p) ==
  /\ pc[p] = "decide"
  /\ ~RowLocked(req[p].row)
  /\ ret' = [ret EXCEPT ![req[p].row].status = req[p].to]
  /\ decided' = decided \cup {DecisionOf(p)}
  /\ Goto(p, IF req[p].id = NoId THEN "done" ELSE "push")
  /\ UNCHANGED <<stock, booked, order, pushes, untold, req>>

\* Mutant: the job is queued before the row is written.
MutPushFirst(p) ==
  /\ pc[p] \in {"decide", "push"}
  /\ req[p].id # NoId
  /\ pushes' = pushes \cup {DecisionOf(p)}
  /\ IF pc[p] = "push" THEN Goto(p, "done") ELSE UNCHANGED pc
  /\ UNCHANGED <<ret, stock, booked, order, decided, untold, req>>

PushDecision(p) ==
  /\ pc[p] = "push"
  /\ pushes' = pushes \cup {DecisionOf(p)}
  /\ Goto(p, "done")
  /\ UNCHANGED <<ret, stock, booked, order, decided, untold, req>>

----------------------------------------------------------------------------
\* updateReturnStatus and upsertFromPlatform: what is read before the transaction.

StartUpdate(p, r, s) ==
  /\ pc[p] = "idle"
  /\ Present(r)
  /\ req' = [req EXCEPT ![p] = [NoReq(p) EXCEPT !.op = "update", !.row = r, !.to = s,
               !.prev = ret[r].status, !.id = ret[r].id]]
  /\ Goto(p, "tx")
  /\ UNCHANGED <<ret, stock, booked, order, told>>

\* The row upsertFromPlatform takes for the marketplace's: same platformReturnId, or,
\* when the marketplace gives none, one without it (all requests fall on one day).
Matches(m) == {r \in Rows : Present(r) /\ ret[r].id = m.id}

StartPlatform(p, m) ==
  /\ pc[p] = "idle"
  /\ \/ \E r \in Matches(m) :
          /\ req' = [req EXCEPT ![p] = [NoReq(p) EXCEPT !.op = "platform", !.row = r,
                       !.to = mapPlatformReturnStatus(m.status), !.id = m.id,
                       !.prev = ret[r].status, !.items = m.items]]
          /\ Goto(p, "tx")
     \/ /\ Matches(m) = {}
        /\ req' = [req EXCEPT ![p] = [NoReq(p) EXCEPT !.op = "platform",
                     !.to = mapPlatformReturnStatus(m.status), !.id = m.id, !.items = m.items]]
        /\ Goto(p, "insert")
  /\ UNCHANGED <<ret, stock, booked, order, told>>

\* tx.return.update: waits for the row's lock, and keeps it.  updateReturnStatus
\* then reads the items again, upsertFromPlatform replaces them by the marketplace's.
TxUpdate(p) ==
  /\ pc[p] = "tx"
  /\ ~RowLocked(req[p].row)
  /\ req' = [req EXCEPT ![p].items = IF req[p].op = "update" THEN ret[req[p].row].items ELSE @]
  /\ Goto(p, "fresh")
  /\ UNCHANGED <<ret, stock, booked, order, told>>

\* Mutant: no unique index on platformReturnId.
MutInsertAnyway(p) ==
  /\ pc[p] = "insert"
  /\ Goto(p, "fresh")
  /\ UNCHANGED <<ret, stock, booked, order, told, req>>

\* tx.return.create: a committed row with the same platformReturnId is a unique
\* violation, an uncommitted one makes the INSERT wait.
TxInsert(p) ==
  /\ pc[p] = "insert"
  /\ req[p].id # NoId =>
       /\ \A s \in Rows : ~(Present(s) /\ ret[s].id = req[p].id)
       /\ \A q \in Requests : ~(pc[q] \in InTx /\ ~Present(req[q].row)
                                  /\ req[q].id = req[p].id)
  /\ Goto(p, "fresh")
  /\ UNCHANGED <<ret, stock, booked, order, told, req>>

TxInsertRefused(p) ==
  /\ pc[p] = "insert"
  /\ req[p].id # NoId
  /\ \E s \in Rows : Present(s) /\ ret[s].id = req[p].id
  /\ End(p, "failed")
  /\ UNCHANGED <<ret, stock, booked, order, told>>

----------------------------------------------------------------------------
\* maybeRestoreReturnStock, inside the transaction.

\* Mutant: trusts the status read before the transaction, not stockRestoredAt.
MutTrustsPrev(p) ==
  /\ req[p].to \in STOCK_RESTORE_STATUSES
  /\ req[p].prev \notin STOCK_RESTORE_STATUSES

\* Mutant: restores only from APPROVED on, as if no step were ever skipped.
MutOnlyApproved(p) ==
  /\ ~ret[req[p].row].restored
  /\ req[p].to \in STOCK_RESTORE_STATUSES
  /\ req[p].prev = "APPROVED"

\* The status it reads back is the one the transaction has just written.
MustRestore(p) ==
  /\ ~ret[req[p].row].restored
  /\ req[p].to \in STOCK_RESTORE_STATUSES
  /\ req[p].prev \notin STOCK_RESTORE_STATUSES

ReadFresh(p) ==
  /\ pc[p] = "fresh"
  /\ Goto(p, IF MustRestore(p) THEN "readStock" ELSE "keep")
  /\ UNCHANGED <<ret, stock, booked, order, told, req>>

AtItem(p) == req[p].k \in DOMAIN req[p].items
ItemOf(p) == req[p].items[req[p].k]

\* Mutant: the loop does not get past a line of quantity 0.
MutStuckAtZero(p) ==
  /\ pc[p] = "readStock"
  /\ AtItem(p) /\ ItemOf(p).quantity > 0
  /\ req' = req
  /\ Goto(p, "addStock")
  /\ UNCHANGED <<ret, stock, booked, order, told>>

\* stockEntry.findUnique: the quantity the movement will call beforeQuantity.
ReadStock(p) ==
  /\ pc[p] = "readStock"
  /\ AtItem(p)
  /\ IF ItemOf(p).quantity = 0
     THEN /\ req' = [req EXCEPT ![p].k = @ + 1]
          /\ UNCHANGED pc
     ELSE /\ req' = IF ItemOf(p).barcode \in StockHeld(p) THEN req
                    ELSE [req EXCEPT ![p].before[ItemOf(p).barcode] = stock[ItemOf(p).barcode]]
          /\ Goto(p, "addStock")
  /\ UNCHANGED <<ret, stock, booked, order, told>>

\* stockEntry.upsert { increment } and the RETURN movement: locks the stock row.
AddStock(p) ==
  /\ pc[p] = "addStock"
  /\ \A q \in Requests \ {p} : ItemOf(p).barcode \notin StockHeld(q)
  /\ req' = [req EXCEPT ![p].k = @ + 1, ![p].added[ItemOf(p).barcode] = @ + ItemOf(p).quantity]
  /\ Goto(p, "readStock")
  /\ UNCHANGED <<ret, stock, booked, order, told>>

\* Mutant: the marketplace's items are booked, the old ones stay on the return.
MutWrittenOldItems(p, restored) ==
  [status |-> req[p].to,
   restored |-> restored,
   id |-> IF Present(req[p].row) THEN ret[req[p].row].id ELSE req[p].id,
   items |-> IF Present(req[p].row) THEN ret[req[p].row].items ELSE req[p].items]

\* The row a transaction leaves behind.
Written(p, restored) ==
  [status |-> req[p].to,
   restored |-> restored,
   id |-> IF Present(req[p].row) THEN ret[req[p].row].id ELSE req[p].id,
   items |-> req[p].items]

\* Mutant: the new quantity is computed from the one read before the lock.
MutAbsolute(p) ==
  [b \in Barcodes |-> IF b \in StockHeld(p) THEN req[p].before[b] + req[p].added[b] ELSE stock[b]]

Incremented(p) == [b \in Barcodes |-> stock[b] + req[p].added[b]]

CommitRestored(p) ==
  /\ pc[p] = "readStock"
  /\ ~AtItem(p)
  /\ ret' = [ret EXCEPT ![req[p].row] = Written(p, TRUE)]
  /\ stock' = Incremented(p)
  /\ booked' = [booked EXCEPT ![req[p].row] = Append(@, req[p].items)]
  /\ End(p, "done")
  /\ UNCHANGED <<order, told>>

CommitKept(p) ==
  /\ pc[p] = "keep"
  /\ ret' = [ret EXCEPT ![req[p].row] = Written(p, ret[req[p].row].restored)]
  /\ End(p, "done")
  /\ UNCHANGED <<stock, booked, order, told>>

----------------------------------------------------------------------------
\* p waits for a stock row that q has locked.
WaitsFor(p, q) ==
  /\ p # q
  /\ pc[p] = "addStock"
  /\ ItemOf(p).barcode \in StockHeld(q)

\* PostgreSQL ends one transaction of a circle of waiting ones.
DeadlockVictim(p) ==
  /\ \E S \in SUBSET Requests :
       /\ p \in S
       /\ \A q \in S : \E u \in S : WaitsFor(q, u)
       /\ \A q \in S : \E u \in S : WaitsFor(u, q)
  /\ End(p, "failed")
  /\ UNCHANGED <<ret, stock, booked, order, told>>

\* The process dies, or a statement fails: an open transaction is rolled back,
\* what was committed before stays.  Nothing queues the job of a decision again that was
\* written by a request which then died.
Crash(p) ==
  /\ pc[p] \notin {"idle"} \cup Ended
  /\ untold' = untold \cup (IF pc[p] = "push" THEN {DecisionOf(p)} ELSE {})
  /\ End(p, "failed")
  /\ UNCHANGED <<ret, stock, booked, order, pushes, decided>>

\* Every request has ended: the system may rest.
Rest == (\A p \in Requests : pc[p] \in Ended) /\ UNCHANGED vars

Start(p) ==
  \/ \E its \in ItemLists : StartCreate(p, its)
  \/ \E r \in Rows : \/ \E s \in {"APPROVED", "REJECTED"} : StartDecision(p, r, s)
                     \/ \E s \in Targets : StartUpdate(p, r, s)
  \/ \E m \in Reports : StartPlatform(p, m)

Continue(p) ==
  \/ CreateManual(p) \/ TxInsert(p) \/ MarkOrderReturned(p) \/ WriteDecision(p) \/ PushDecision(p)
  \/ TxUpdate(p) \/ TxInsertRefused(p) \/ ReadFresh(p) \/ ReadStock(p) \/ AddStock(p)
  \/ CommitRestored(p) \/ CommitKept(p) \/ DeadlockVictim(p)

Next == CancelOrder \/ Rest \/ \E p \in Requests : Start(p) \/ Continue(p) \/ Crash(p)

Spec == Init /\ [][Next]_vars

\* A call that was made is carried on by the event loop and the database.
FairSpec == Spec /\ \A p \in Requests : WF_vars(Continue(p))

----------------------------------------------------------------------------
(* Properties *)

\* How many of product b each item of a list is, and how many the list holds.
Quantities(items, b) ==
  [i \in DOMAIN items |-> IF items[i].barcode = b THEN items[i].quantity ELSE 0]
Units(items, b) == SumFunctionOnSet(Quantities(items, b), DOMAIN items)

\* The returns that have movements, and how many of b those of one brought in.
Restocked == {r \in Rows : booked[r] # <<>>}
UnitsBooked(r, b) == SumFunctionOnSet([i \in DOMAIN booked[r] |-> Units(booked[r][i], b)], DOMAIN booked[r])

\* Goods the shop has received are in stock: every committed return in a restoring
\* status has been restored, whatever raced to bring it there (the previous status
\* maybeRestoreReturnStock trusts is read before the transaction).
ReceivedIsRestocked ==
  \A r \in Rows : ret[r].status \in STOCK_RESTORE_STATUSES => ret[r].restored

\* A return's goods enter the stock at most once, and stockRestoredAt says whether.
RestockedOnce ==
  \A r \in Rows : Len(booked[r]) = IF ret[r].restored THEN 1 ELSE 0

\* A marketplace return is taken into stock through one row only, though find and
\* create of upsertFromPlatform are two statements.
PlatformReturnOnce ==
  \A r, s \in Rows : booked[r] # <<>> /\ booked[s] # <<>> /\ ret[r].id = ret[s].id
                        /\ ret[r].id # NoId => r = s

\* The stock is what the movements say: no concurrent restock of the same product is lost.
StockMatchesMovements ==
  \A b \in Barcodes :
    stock[b] = SumFunctionOnSet([r \in Restocked |-> UnitsBooked(r, b)], Restocked)

\* What is taken into stock are the items the return has when that commits, and only the
\* step that sets stockRestoredAt books anything.
BooksWhatItHolds ==
  [][\A r \in Rows : booked'[r] # booked[r] =>
       /\ ~ret[r].restored /\ ret'[r].restored
       /\ booked'[r] = Append(booked[r], ret'[r].items)]_vars

\* A decision that was written to the return and has still to be queued by its request.
OnItsWay(d) == \E p \in Requests : pc[p] = "push" /\ DecisionOf(p) = d

\* What the marketplace is told are decisions that were written before, on returns it knows;
\* and each decision written to such a return is told or about to be, whatever other
\* decisions, updates and pulls of the return do meanwhile, but for those whose request died
\* between the two statements (they are lost, as nothing looks for them).
DecisionsAreTold ==
  /\ \A d \in pushes : d \in decided /\ ret[d.row].id # NoId
  /\ \A d \in decided : ret[d.row].id = NoId \/ d \in pushes \cup untold \/ OnItsWay(d)

\* approveReturn answers 'Bu iade durumu için onay verilemez' for a return that is rejected,
\* refunded or completed: an approval never overwrites one of these.
NeverApprovesDecided ==
  [][\A p \in Requests : WriteDecision(p) /\ req[p].to = "APPROVED"
       => ret[req[p].row].status \notin DecidedForApprove]_vars

\* Every request ends: no waiting for row locks is forever.
RequestsEnd == \A p \in Requests : pc[p] # "idle" ~> pc[p] \in Ended
=============================================================================
