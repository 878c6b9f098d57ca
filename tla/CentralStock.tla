--------------------------- MODULE CentralStock ---------------------------
(***************************************************************************)
(* The central stock (StockEntry rows with platform null) and what moves   *)
(* it: transfers between warehouses (apps/backend/src/stock/stock-         *)
(* transfer.service.ts, warehouse/warehouse.service.ts), stock counts      *)
(* (stock/stock-count.service.ts), and corrections (stock/stock-movement.  *)
(* service.ts adjustStock, which the product page, the stock page and the  *)
(* conflict resolution call).                                              *)
(*                                                                         *)
(* Each is one transaction that reads a row and writes it, row after row.  *)
(* It runs under READ COMMITTED: its writes live in req[p] until Commit,   *)
(* and the rows it has updated stay locked until then.  The unique index   *)
(* of StockEntry has the nullable platform in it, so that it does not      *)
(* hold for central rows: a place may get several, and findFirst takes     *)
(* any of them.                                                            *)
(***************************************************************************)
EXTENDS Integers, Sequences, FiniteSets, Functions

CONSTANTS
  Requests,   \* the calls that are made, each of them once
  Places,     \* a product in a warehouse
  ProductOf,  \* the product of a place
  Transfers,  \* StockTransfer rows
  ItemsOf,    \* their items: from which place to which, and how many
  Counts,     \* StockCountSession rows
  CountedIn,  \* their items: a place and the counted quantity
  Direct,     \* what WarehouseService.transferStock is called with
  NewStock,   \* what adjustStock is called with
  Initial     \* the central rows at the start, by their ids

\* Goods are moved from one warehouse to another, as the same product.
Move == {m \in [from : Places, to : Places, qty : Nat \ {0}] : ProductOf[m.from] = ProductOf[m.to]}
Setting == [place : Places, qty : Nat]
Kinds == {"take", "put", "add", "set", "compare"}
Stage == [kind : Kinds, place : Places, qty : Nat]

None == "none"
\* A row that was there at the start, or the one that request p creates at stage k.
RowIds == ({None} \cup Requests) \X Nat
AreRows(f) == DOMAIN f \subseteq RowIds /\ f \in [DOMAIN f -> [place : Places, qty : Int]]

ASSUME CentralStockAssumption ==
  /\ IsFiniteSet(Places) /\ DOMAIN ProductOf = Places
  /\ ItemsOf \in [Transfers -> Seq(Move) \ {<<>>}]
  /\ CountedIn \in [Counts -> Seq(Setting) \ {<<>>}]
  /\ Direct \subseteq Move
  /\ NewStock \subseteq Setting
  /\ AreRows(Initial) /\ \A r \in DOMAIN Initial : Initial[r].qty >= 0 /\ r[1] = None

VARIABLES
  rows,      \* the committed central rows: their places and quantities
  ledger,    \* sum of the TRANSFER movements of each place
  moved,     \* how often the goods of a transfer have been moved
  transfer,  \* StockTransfer.status
  count,     \* StockCountSession.status
  pc,        \* the await each request has reached
  req        \* the local variables and uncommitted writes of each request

vars == <<rows, ledger, moved, transfer, count, pc, req>>

TransferStatus == {"DRAFT", "IN_TRANSIT", "COMPLETED", "CANCELLED"}
OpenTransfer == {"DRAFT", "IN_TRANSIT"}
CountStatus == {"IN_PROGRESS", "COMPLETED", "CANCELLED"}
Ended == {"done", "failed"}
Zero == [l \in Places |-> 0]

\* The locals of a call about transfer t or count c before it has read a row, and of none.
Called(t, c, stages) ==
  [transfer |-> t, count |-> c, stages |-> stages, k |-> 1,
   row |-> <<None, 0>>, before |-> 0, wrote |-> <<>>, sent |-> Zero]
NoReq == Called(None, None, <<>>)

IsRequest(r) ==
  /\ r.transfer \in Transfers \cup {None} /\ r.count \in Counts \cup {None}
  /\ r.stages \in Seq(Stage) /\ r.k \in Nat \ {0}
  /\ r.row \in RowIds /\ r.before \in Int
  /\ AreRows(r.wrote) /\ r.sent \in [Places -> Int]

TypeOK ==
  /\ AreRows(rows)
  /\ ledger \in [Places -> Int]
  /\ moved \in [Transfers -> Nat]
  /\ transfer \in [Transfers -> TransferStatus]
  /\ count \in [Counts -> CountStatus]
  /\ pc \in [Requests -> {"idle", "cancel", "read", "write"} \cup Ended]
  /\ DOMAIN req = Requests /\ \A p \in Requests : IsRequest(req[p])

Init ==
  /\ rows = Initial
  /\ ledger = Zero
  /\ moved = [t \in Transfers |-> 0]
  /\ transfer = [t \in Transfers |-> "DRAFT"]
  /\ count = [c \in Counts |-> "IN_PROGRESS"]
  /\ pc = [p \in Requests |-> "idle"]
  /\ req = [p \in Requests |-> NoReq]

Goto(p, l) == pc' = [pc EXCEPT ![p] = l]
End(p, l) == Goto(p, l) /\ req' = [req EXCEPT ![p] = NoReq]
Tables == <<rows, ledger, moved, transfer, count>>

----------------------------------------------------------------------------
\* What each call reads and checks before its transaction.

At(kind, place, qty) == [kind |-> kind, place |-> place, qty |-> qty]
TakeAndPut(m, put) == <<At("take", m.from, m.qty), At(put, m.to, m.qty)>>

\* For each item a row of the source, then one of the target.
StagesOf(items) ==
  [i \in 1..(2 * Len(items)) |-> TakeAndPut(items[(i + 1) \div 2], "put")[2 - (i % 2)]]

\* For each item the comparison, then the adjustment that a match skips.
StagesOfCount(items) ==
  [i \in 1..(2 * Len(items)) |->
     LET c == items[(i + 1) \div 2] IN At(IF i % 2 = 1 THEN "compare" ELSE "set", c.place, c.qty)]
\* Mutant: the transfer is closed before the transaction.
MutClosesFirst(p, t) ==
  /\ pc[p] = "idle"
  /\ IF transfer[t] \in OpenTransfer
     THEN /\ req' = [req EXCEPT ![p] = Called(t, None, StagesOf(ItemsOf[t]))]
          /\ transfer' = [transfer EXCEPT ![t] = "COMPLETED"]
          /\ Goto(p, "read")
     ELSE End(p, "failed") /\ UNCHANGED transfer
  /\ UNCHANGED <<rows, ledger, moved, count>>

StartConfirm(p, t) ==
  /\ pc[p] = "idle"
  /\ IF transfer[t] \in OpenTransfer
     THEN /\ req' = [req EXCEPT ![p] = Called(t, None, StagesOf(ItemsOf[t]))]
          /\ Goto(p, "read")
     ELSE End(p, "failed")
  /\ UNCHANGED Tables

StartCancel(p, t) ==
  /\ pc[p] = "idle"
  /\ IF transfer[t] \in OpenTransfer
     THEN req' = [req EXCEPT ![p] = Called(t, None, <<>>)] /\ Goto(p, "cancel")
     ELSE End(p, "failed")
  /\ UNCHANGED Tables

StartApply(p, c) ==
  /\ pc[p] = "idle"
  /\ IF count[c] = "IN_PROGRESS"
     THEN /\ req' = [req EXCEPT ![p] = Called(None, c, StagesOfCount(CountedIn[c]))]
          /\ Goto(p, "read")
     ELSE End(p, "failed")
  /\ UNCHANGED Tables

StartCancelCount(p, c) ==
  /\ pc[p] = "idle"
  /\ IF count[c] = "IN_PROGRESS"
     THEN req' = [req EXCEPT ![p] = Called(None, c, <<>>)] /\ Goto(p, "cancel")
     ELSE End(p, "failed")
  /\ UNCHANGED Tables

StartDirect(p, m) ==
  /\ pc[p] = "idle"
  /\ req' = [req EXCEPT ![p] = Called(None, None, TakeAndPut(m, "add"))]
  /\ Goto(p, "read")
  /\ UNCHANGED Tables

StartNewStock(p, s) ==
  /\ pc[p] = "idle"
  /\ req' = [req EXCEPT ![p] = Called(None, None, <<At("set", s.place, s.qty)>>)]
  /\ Goto(p, "read")
  /\ UNCHANGED Tables

\* cancelTransfer and cancelSession: an UPDATE that commits on its own.
WriteCancelled(p) ==
  /\ pc[p] = "cancel"
  /\ transfer' = [t \in Transfers |-> IF t = req[p].transfer THEN "CANCELLED" ELSE transfer[t]]
  /\ count' = [c \in Counts |-> IF c = req[p].count THEN "CANCELLED" ELSE count[c]]
  /\ End(p, "done")
  /\ UNCHANGED <<rows, ledger, moved>>

----------------------------------------------------------------------------
\* The transaction: for each stage findFirst, then update or create.

AtStage(p) == req[p].k \in DOMAIN req[p].stages
StageOf(p) == req[p].stages[req[p].k]
PlaceOf(p) == StageOf(p).place

\* The table as p's transaction sees it, and the rows of the stage's place that findFirst may
\* return; where there is none, the row that will be created.
View(p) ==
  LET mine == req[p].wrote
  IN  [r \in DOMAIN mine \cup DOMAIN rows |-> IF r \in DOMAIN mine THEN mine[r] ELSE rows[r]]
Found(p) ==
  LET found == {r \in DOMAIN View(p) : View(p)[r].place = PlaceOf(p)}
  IN  IF found = {} THEN {<<p, req[p].k>>} ELSE found
Sees(p, r) == IF r \in DOMAIN View(p) THEN View(p)[r].qty ELSE 0
\* Mutant: the source is not checked.
MutNotChecked(p, r) == FALSE

Short(p, r) == StageOf(p).kind = "take" /\ Sees(p, r) < StageOf(p).qty
Matches(p, r) == Sees(p, r) = StageOf(p).qty

ReadRow(p) ==
  /\ pc[p] = "read" /\ AtStage(p) /\ StageOf(p).kind # "compare"
  /\ \E r \in Found(p) :
       /\ ~Short(p, r)
       /\ req' = [req EXCEPT ![p].row = r, ![p].before = Sees(p, r)]
  /\ Goto(p, "write")
  /\ UNCHANGED Tables
\* Mutant: an item that agrees is compared again.
MutCompareAgain(p) ==
  /\ pc[p] = "read" /\ AtStage(p) /\ StageOf(p).kind = "compare"
  /\ \E r \in Found(p) : req' = [req EXCEPT ![p].k = @ + (IF Matches(p, r) THEN 0 ELSE 1)]
  /\ UNCHANGED <<rows, ledger, moved, transfer, count, pc>>

\* getCentralSystemQuantity: a count that agrees leaves the row alone.
Compare(p) ==
  /\ pc[p] = "read" /\ AtStage(p) /\ StageOf(p).kind = "compare"
  /\ \E r \in Found(p) : req' = [req EXCEPT ![p].k = @ + (IF Matches(p, r) THEN 2 ELSE 1)]
  /\ UNCHANGED <<rows, ledger, moved, transfer, count, pc>>
\* Not enough in the source: the error rolls the transaction back.
RefuseTake(p) ==
  /\ pc[p] = "read" /\ AtStage(p)
  /\ \E r \in Found(p) : Short(p, r)
  /\ End(p, "failed")
  /\ UNCHANGED Tables

Locks(q, r) == pc[q] \in {"read", "write"} /\ r \in DOMAIN req[q].wrote /\ r \in DOMAIN rows

\* Everything but increment writes what was computed from the quantity read before.
NewQty(p) ==
  LET s == StageOf(p)
  IN  CASE s.kind = "take" -> req[p].before - s.qty
        [] s.kind = "put"  -> req[p].before + s.qty
        [] s.kind = "add"  -> Sees(p, req[p].row) + s.qty
        [] s.kind = "set"  -> s.qty

\* The quantity of the TRANSFER movement.
Sent(s) == IF s.kind = "take" THEN -s.qty ELSE IF s.kind \in {"put", "add"} THEN s.qty ELSE 0

WriteRow(p) ==
  /\ pc[p] = "write"
  /\ \A q \in Requests \ {p} : ~Locks(q, req[p].row)
  /\ req' = [req EXCEPT
       ![p].wrote = [r \in DOMAIN @ \cup {req[p].row} |->
                       IF r = req[p].row THEN [place |-> PlaceOf(p), qty |-> NewQty(p)] ELSE @[r]],
       ![p].sent[PlaceOf(p)] = @ + Sent(StageOf(p)),
       ![p].k = @ + 1]
  /\ Goto(p, "read")
  /\ UNCHANGED Tables

\* The transfer or the session is marked as completed, whatever its status is by now.
Commit(p) ==
  /\ pc[p] = "read" /\ ~AtStage(p)
  /\ rows' = View(p)
  /\ ledger' = [l \in Places |-> ledger[l] + req[p].sent[l]]
  /\ moved' = [t \in Transfers |-> IF t = req[p].transfer THEN moved[t] + 1 ELSE moved[t]]
  /\ transfer' = [t \in Transfers |-> IF t = req[p].transfer THEN "COMPLETED" ELSE transfer[t]]
  /\ count' = [c \in Counts |-> IF c = req[p].count THEN "COMPLETED" ELSE count[c]]
  /\ End(p, "done")

----------------------------------------------------------------------------
\* p waits for a row that q has locked.
WaitsFor(p, q) == p # q /\ pc[p] = "write" /\ Locks(q, req[p].row)

\* PostgreSQL ends one transaction of a circle of waiting ones.
DeadlockVictim(p) ==
  /\ \E S \in SUBSET Requests :
       /\ p \in S
       /\ \A q \in S : \E u \in S : WaitsFor(q, u)
       /\ \A q \in S : \E u \in S : WaitsFor(u, q)
  /\ End(p, "failed")
  /\ UNCHANGED Tables

\* Mutant: the statements are not in a transaction, those before the crash are kept.
MutKeepsHalf(p) ==
  /\ pc[p] \in {"cancel", "read", "write"}
  /\ rows' = View(p)
  /\ ledger' = [l \in Places |-> ledger[l] + req[p].sent[l]]
  /\ End(p, "failed")
  /\ UNCHANGED <<moved, transfer, count>>

\* The process dies or a statement fails: an open transaction is rolled back.
Crash(p) ==
  /\ pc[p] \in {"cancel", "read", "write"}
  /\ End(p, "failed")
  /\ UNCHANGED Tables

\* Every request has ended: the system may rest.
Rest == (\A p \in Requests : pc[p] \in Ended) /\ UNCHANGED vars

Start(p) ==
  \/ \E t \in Transfers : StartConfirm(p, t) \/ StartCancel(p, t)
  \/ \E c \in Counts : StartApply(p, c) \/ StartCancelCount(p, c)
  \/ \E m \in Direct : StartDirect(p, m)
  \/ \E s \in NewStock : StartNewStock(p, s)

Continue(p) ==
  \/ WriteCancelled(p) \/ ReadRow(p) \/ Compare(p) \/ RefuseTake(p) \/ WriteRow(p) \/ Commit(p)
  \/ DeadlockVictim(p)

Next == Rest \/ \E p \in Requests : Start(p) \/ Continue(p) \/ Crash(p)

Spec == Init /\ [][Next]_vars

\* A call that was made is carried on by the event loop and the database.
FairSpec == Spec /\ \A p \in Requests : WF_vars(Continue(p))

----------------------------------------------------------------------------
(* Properties *)

\* No central row ever goes below zero, though the check of the source and the write of it are
\* two statements and several requests take from it.  (The types are checked along with it.)
NeverNegative == TypeOK /\ \A r \in DOMAIN rows : rows[r].qty >= 0

\* What n has for the product of x, in all warehouses.
BalanceOf(n, x) ==
  SumFunctionOnSet([l \in Places |-> IF ProductOf[l] = ProductOf[x] THEN n[l] ELSE 0], Places)

\* The TRANSFER movements of a product cancel out over the warehouses: no request leaves half
\* of a transfer behind, also when a later item is short, when it is a deadlock's victim, or
\* when the process dies.
TransfersBalance == \A x \in Places : BalanceOf(ledger, x) = 0

\* A transfer is COMPLETED only when its goods were moved, and goods move only for a transfer
\* that is closed by the same transaction.
ClosedWithItsGoods ==
  \A t \in Transfers :
    /\ transfer[t] = "COMPLETED" => moved[t] > 0
    /\ moved[t] > 0 => transfer[t] \notin OpenTransfer

\* Every request ends: transfers in opposite directions do not wait for each other forever.
RequestsEnd == \A p \in Requests : pc[p] # "idle" ~> pc[p] \in Ended

\* confirmTransfer answers 'Bu transfer onaylanamaz.' for a transfer that is closed: its goods
\* are moved at most once.
MovedOnce == \A t \in Transfers : moved[t] <= 1

\* The schema declares a row of StockEntry unique for a product, a platform and a warehouse.
CentralRowIsUnique == \A r, s \in DOMAIN rows : rows[r].place = rows[s].place => r = s
=============================================================================
