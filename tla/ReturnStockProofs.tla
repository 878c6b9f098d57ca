------------------------- MODULE ReturnStockProofs -------------------------
(* Proofs about ReturnStock, for every set of requests, returns and products. *)
EXTENDS ReturnStock, SumTheorems, TLAPS

\* Two open transactions never hold the same return: the UPDATE of a return waits
\* for its row lock, and a return being inserted is seen by nobody else.
RowHeldOnce ==
  \A p, q \in Requests : pc[p] \in InTx /\ pc[q] \in InTx /\ req[p].row = req[q].row => p = q

\* The key a request will insert under is free until it does.
KeyIsFree ==
  \A p \in Requests : pc[p] \in {"idle", "create", "insert"} =>
    ret[p].status = Absent /\ req[p].row = p

\* A request past its first read works on a return that is there, or on its own.
RowIsThere ==
  \A p \in Requests :
    /\ pc[p] \in {"decide", "tx"} => ret[req[p].row].status # Absent
    /\ pc[p] \in InTx => ret[req[p].row].status # Absent \/ req[p].row = p

\* What is not in the table has not been restored.
AbsentNotRestored == \A r \in Rows : ret[r].status = Absent => ~ret[r].restored

\* What each request carries across its awaits: the status it will write; a restoring
\* status it has read means the return had been restored by then; and between the
\* decision to restore and the commit nobody else restores.
CarriedOver ==
  \A p \in Requests :
    /\ pc[p] \in {"tx", "insert"} \cup InTx =>
         /\ req[p].to \in ReturnStatus
         /\ req[p].prev \in STOCK_RESTORE_STATUSES =>
              ret[req[p].row].restored /\ pc[p] # "insert"
    /\ pc[p] \in {"readStock", "addStock"} => ~ret[req[p].row].restored
    /\ pc[p] = "keep" /\ req[p].to \in STOCK_RESTORE_STATUSES => ret[req[p].row].restored

\* A stock row is written for an item of the list.
AtAnItem == \A p \in Requests : pc[p] = "addStock" => AtItem(p)

\* approveReturn and rejectReturn write nothing else.
DecidesYesOrNo ==
  \A p \in Requests : pc[p] \in {"decide", "push"} => req[p].to \in {"APPROVED", "REJECTED"}

Locals == AtAnItem /\ DecidesYesOrNo

IInv ==
  /\ TypeOK
  /\ Locals
  /\ RowHeldOnce
  /\ KeyIsFree
  /\ RowIsThere
  /\ AbsentNotRestored
  /\ CarriedOver
  /\ ReceivedIsRestocked
  /\ RestockedOnce

----------------------------------------------------------------------------
\* The locals a request starts and ends with are well typed.
LEMMA NoReqType ==
  ASSUME NEW p \in Requests
  PROVE  NoReq(p) \in Request
BY DEF NoReq, Request, Rows, Absent, Item

\* An item a request stands at is one of the products' with a natural quantity.
LEMMA ItemType ==
  ASSUME TypeOK, NEW p \in Requests, AtItem(p)
  PROVE  ItemOf(p) \in Item
BY DEF TypeOK, AtItem, ItemOf, Request

\* Assignments to one field keep a return, or a request's locals, well typed.
LEMMA ReturnFields ==
  ASSUME NEW x \in ReturnRow, NEW s \in ReturnStatus
  PROVE  [x EXCEPT !.status = s] \in ReturnRow
BY DEF ReturnRow

\* The same for a request's items.
LEMMA RequestItems ==
  ASSUME NEW x \in Request, NEW its \in Seq(Item)
  PROVE  [x EXCEPT !.items = its] \in Request
BY DEF Request

\* The same for its place in the list.
LEMMA RequestNextItem ==
  ASSUME NEW x \in Request
  PROVE  [x EXCEPT !.k = x.k + 1] \in Request
<1>1. x.k + 1 \in Nat \ {0}
  BY DEF Request
<1>2. ASSUME NEW n \in Nat \ {0} PROVE [x EXCEPT !.k = n] \in Request
  BY DEF Request
<1>3. QED
  BY <1>1, <1>2

\* The same for a quantity it has read.
LEMMA RequestBefore ==
  ASSUME NEW x \in Request, NEW b \in Barcodes, NEW n \in Int
  PROVE  [x EXCEPT !.before = [x.before EXCEPT ![b] = n]] \in Request
BY DEF Request

\* The same for an increment and the step to the next item.
LEMMA RequestAdded ==
  ASSUME NEW x \in Request, NEW b \in Barcodes, NEW n \in Nat
  PROVE  [x EXCEPT !.k = x.k + 1, !.added = [x.added EXCEPT ![b] = x.added[b] + n]] \in Request
<1>1. x.k + 1 \in Nat \ {0}
  BY DEF Request
<1>2. [x.added EXCEPT ![b] = x.added[b] + n] \in [Barcodes -> Nat]
  BY DEF Request
<1>3. ASSUME NEW i \in Nat \ {0}, NEW f \in [Barcodes -> Nat]
      PROVE  [x EXCEPT !.k = i, !.added = f] \in Request
  BY DEF Request
<1>4. QED
  BY <1>1, <1>2, <1>3

\* The types hold at the start.
LEMMA TypeInit == Init => TypeOK /\ Locals
<1> SUFFICES ASSUME Init PROVE TypeOK /\ Locals
  OBVIOUS
<1>1. ret \in [Rows -> ReturnRow]
  <2>1. ItemLists \cup {<<>>} \subseteq Seq(Item)
    <3>1. <<>> \in Seq(Item)
      OBVIOUS
    <3>2. QED
      BY <3>1, ReturnAssumption
  <2>2. {Absent, "REQUESTED"} \subseteq ReturnStatus \cup {Absent}
    BY DEF ReturnStatus
  <2>3. ASSUME NEW r \in Rows PROVE ret[r] \in ReturnRow
    <3>1. ret[r] \in [status : {Absent, "REQUESTED"}, restored : {FALSE},
                      id : PlatformIds \cup {NoId}, items : ItemLists \cup {<<>>}]
      BY DEF Init
    <3>2. QED
      BY <2>1, <2>2, <3>1 DEF ReturnRow
  <2>4. QED
    BY <2>3 DEF Init
<1>2. req \in [Requests -> Request]
  BY NoReqType DEF Init
<1>3. QED
  BY <1>1, <1>2 DEF Init, TypeOK, InTx, Ended, Locals, AtAnItem, DecidesYesOrNo

\* Every step keeps the types.
LEMMA TypeStep == TypeOK /\ Locals /\ [Next]_vars => TypeOK' /\ Locals'
<1> SUFFICES ASSUME TypeOK, Locals, [Next]_vars PROVE TypeOK' /\ Locals'
  OBVIOUS
<1> USE DEF Goto, End, InTx, Ended, told
<1>1. CASE UNCHANGED vars
  BY <1>1 DEF vars, TypeOK, Locals, AtAnItem, DecidesYesOrNo, AtItem
<1>2. CASE CancelOrder
  BY <1>2 DEF CancelOrder, TypeOK, Locals, AtAnItem, DecidesYesOrNo, AtItem
<1>3. ASSUME NEW p \in Requests, NEW its \in ItemLists, StartCreate(p, its)
      PROVE  TypeOK' /\ Locals'
  <2>1. [NoReq(p) EXCEPT !.op = "create", !.items = its, !.mark = (order # "RETURNED")] \in Request
    BY NoReqType, ReturnAssumption DEF Request
  <2>2. QED
    BY <1>3, <2>1, NoReqType DEF StartCreate, TypeOK, Locals, AtAnItem, DecidesYesOrNo, AtItem
<1>4. ASSUME NEW p \in Requests, NEW r \in Rows, NEW s \in {"APPROVED", "REJECTED"},
             StartDecision(p, r, s)
      PROVE  TypeOK' /\ Locals'
  <2>1. [NoReq(p) EXCEPT !.op = "decide", !.row = r, !.to = s, !.id = ret[r].id] \in Request
    BY NoReqType DEF Request, TypeOK, ReturnRow, ReturnStatus
  <2>2. QED
    <3>1. CASE ret[r].status \in DecidedForApprove
      BY <1>4, <3>1, NoReqType DEF StartDecision, TypeOK, Locals, AtAnItem, DecidesYesOrNo, AtItem
    <3>2. CASE ret[r].status \notin DecidedForApprove
      <4> DEFINE x == [NoReq(p) EXCEPT !.op = "decide", !.row = r, !.to = s, !.id = ret[r].id]
      <4>1. req' = [req EXCEPT ![p] = x] /\ x.to = s
        BY <1>4, <3>2, <2>1 DEF StartDecision, Request, NoReq
      <4>2. pc' = [pc EXCEPT ![p] = "decide"]
        BY <1>4, <3>2 DEF StartDecision
      <4>3. UNCHANGED <<ret, stock, booked, order, told>>
        BY <1>4 DEF StartDecision
      <4> HIDE DEF x
      <4>4. TypeOK'
        BY <2>1, <4>1, <4>2, <4>3 DEF x, TypeOK
      <4>5. QED
        BY <4>1, <4>2, <4>4 DEF TypeOK, Locals, AtAnItem, DecidesYesOrNo, AtItem
    <3>3. QED
      BY <3>1, <3>2
<1>5. ASSUME NEW p \in Requests, NEW r \in Rows, NEW s \in Targets, StartUpdate(p, r, s)
      PROVE  TypeOK' /\ Locals'
  <2>1. [NoReq(p) EXCEPT !.op = "update", !.row = r, !.to = s, !.prev = ret[r].status,
                         !.id = ret[r].id] \in Request
    BY NoReqType, ReturnAssumption DEF Request, TypeOK, ReturnRow
  <2>2. QED
    BY <1>5, <2>1 DEF StartUpdate, TypeOK, Locals, AtAnItem, DecidesYesOrNo, AtItem
<1>6. ASSUME NEW p \in Requests, NEW m \in Reports, StartPlatform(p, m)
      PROVE  TypeOK' /\ Locals'
  <2>1. mapPlatformReturnStatus(m.status) \in ReturnStatus
    BY DEF mapPlatformReturnStatus, ReturnStatus
  <2>2. CASE pc' = [pc EXCEPT ![p] = "insert"]
    <3>1. [NoReq(p) EXCEPT !.op = "platform", !.to = mapPlatformReturnStatus(m.status),
                           !.id = m.id, !.items = m.items] \in Request
      BY <2>1, NoReqType, ReturnAssumption DEF Request
    <3>2. pc[p] = "idle" /\ pc' # [pc EXCEPT ![p] = "tx"]
      BY <1>6, <2>2 DEF StartPlatform, TypeOK
    <3>3. QED
      BY <1>6, <2>2, <3>1, <3>2 DEF StartPlatform, TypeOK, Locals, AtAnItem, DecidesYesOrNo, AtItem
  <2>3. ASSUME NEW r \in Matches(m), pc' = [pc EXCEPT ![p] = "tx"],
               req' = [req EXCEPT ![p] = [NoReq(p) EXCEPT !.op = "platform", !.row = r,
                       !.to = mapPlatformReturnStatus(m.status), !.id = m.id,
                       !.prev = ret[r].status, !.items = m.items]]
        PROVE  TypeOK' /\ Locals'
    <3>1. [NoReq(p) EXCEPT !.op = "platform", !.row = r,
                           !.to = mapPlatformReturnStatus(m.status), !.id = m.id,
                           !.prev = ret[r].status, !.items = m.items] \in Request
      <4>1. r \in Rows /\ ret[r].status \in ReturnStatus
        BY <1>6 DEF Matches, Present, TypeOK, ReturnRow
      <4>2. m.id \in PlatformIds \cup {NoId} /\ m.items \in Seq(Item)
        BY <1>6, ReturnAssumption
      <4>3. QED
        BY <2>1, <4>1, <4>2, NoReqType DEF Request
    <3>2. QED
      BY <1>6, <2>3, <3>1 DEF StartPlatform, TypeOK, Locals, AtAnItem, DecidesYesOrNo, AtItem
  <2>4. QED
    BY <1>6, <2>2, <2>3 DEF StartPlatform
<1>7. ASSUME NEW p \in Requests, CreateManual(p) PROVE TypeOK' /\ Locals'
  <2>1. [status |-> "REQUESTED", restored |-> FALSE, id |-> NoId, items |-> req[p].items]
          \in ReturnRow
    BY DEF ReturnRow, ReturnStatus, TypeOK, Request
  <2>2. QED
    BY <1>7, <2>1, NoReqType DEF CreateManual, TypeOK, Locals, AtAnItem, DecidesYesOrNo, AtItem
<1>8. ASSUME NEW p \in Requests, MarkOrderReturned(p) PROVE TypeOK' /\ Locals'
  BY <1>8, NoReqType DEF MarkOrderReturned, TypeOK, Locals, AtAnItem, DecidesYesOrNo, AtItem
<1>9. ASSUME NEW p \in Requests, WriteDecision(p) PROVE TypeOK' /\ Locals'
  <2>1. req[p].to \in {"APPROVED", "REJECTED"}
    BY <1>9 DEF WriteDecision, Locals, DecidesYesOrNo
  <2>2. [ret[req[p].row] EXCEPT !.status = req[p].to] \in ReturnRow
    BY <2>1, ReturnFields DEF ReturnStatus, TypeOK, Request
  <2>3. DecisionOf(p) \in Decision
    BY <2>1 DEF DecisionOf, Decision, TypeOK, Request
  <2>4. QED
    BY <1>9, <2>2, <2>3 DEF WriteDecision, TypeOK, Locals, AtAnItem, DecidesYesOrNo, AtItem
<1>10. ASSUME NEW p \in Requests, PushDecision(p) PROVE TypeOK' /\ Locals'
  <2>1. DecisionOf(p) \in Decision
    BY <1>10 DEF DecisionOf, Decision, PushDecision, Locals, DecidesYesOrNo, TypeOK, Request
  <2>2. QED
    BY <1>10, <2>1 DEF PushDecision, TypeOK, Locals, AtAnItem, DecidesYesOrNo, AtItem
<1>11. ASSUME NEW p \in Requests, TxUpdate(p) PROVE TypeOK' /\ Locals'
  <2>1. ret[req[p].row].items \in Seq(Item)
    BY DEF TypeOK, Request, ReturnRow
  <2>2. req' \in [Requests -> Request]
    <3>1. PICK its \in Seq(Item) : req' = [req EXCEPT ![p] = [req[p] EXCEPT !.items = its]]
      BY <1>11, <2>1 DEF TxUpdate, TypeOK, Request
    <3>2. QED
      BY <3>1, RequestItems DEF TypeOK
  <2>3. QED
    BY <1>11, <2>2 DEF TxUpdate, TypeOK, Locals, AtAnItem, DecidesYesOrNo, AtItem
<1>12. ASSUME NEW p \in Requests, TxInsert(p) PROVE TypeOK' /\ Locals'
  BY <1>12 DEF TxInsert, TypeOK, Locals, AtAnItem, DecidesYesOrNo, AtItem
<1>13. ASSUME NEW p \in Requests, TxInsertRefused(p) PROVE TypeOK' /\ Locals'
  BY <1>13, NoReqType DEF TxInsertRefused, TypeOK, Locals, AtAnItem, DecidesYesOrNo, AtItem
<1>14. ASSUME NEW p \in Requests, ReadFresh(p) PROVE TypeOK' /\ Locals'
  BY <1>14 DEF ReadFresh, TypeOK, Locals, AtAnItem, DecidesYesOrNo, AtItem
<1>15. ASSUME NEW p \in Requests, ReadStock(p) PROVE TypeOK' /\ Locals'
  <2>1. ItemOf(p).barcode \in Barcodes
    BY <1>15, ItemType DEF ReadStock, Item
  <2>2. req' \in [Requests -> Request]
    <3>1. CASE req' = req
      BY <3>1 DEF TypeOK
    <3>2. CASE req' = [req EXCEPT ![p].k = @ + 1]
      BY <3>2, RequestNextItem DEF TypeOK
    <3>3. CASE req' = [req EXCEPT ![p].before[ItemOf(p).barcode] = stock[ItemOf(p).barcode]]
      BY <3>3, <2>1, RequestBefore DEF TypeOK
    <3>4. QED
      BY <1>15, <3>1, <3>2, <3>3 DEF ReadStock
  <2>3. DecidesYesOrNo'
    BY <1>15 DEF ReadStock, TypeOK, Locals, DecidesYesOrNo
  <2>4. AtAnItem'
    <3>1. ASSUME NEW q \in Requests, pc'[q] = "addStock" PROVE AtItem(q)'
      <4>1. CASE q = p
        <5>1. pc[p] = "readStock" /\ AtItem(p) /\ pc' = [pc EXCEPT ![p] = "addStock"]
          BY <1>15, <3>1, <4>1 DEF ReadStock, TypeOK
        <5>2. req'[p].k = req[p].k /\ req'[p].items = req[p].items
          BY <1>15, <5>1, <3>1, <4>1 DEF ReadStock, TypeOK, Request
        <5>3. QED
          BY <4>1, <5>1, <5>2 DEF AtItem
      <4>2. CASE q # p
        BY <1>15, <3>1, <4>2 DEF ReadStock, TypeOK, Locals, AtAnItem, AtItem
      <4>3. QED
        BY <4>1, <4>2
    <3>2. QED
      BY <3>1 DEF AtAnItem
  <2>5. QED
    BY <1>15, <2>2, <2>3, <2>4 DEF ReadStock, TypeOK, Locals
<1>16. ASSUME NEW p \in Requests, AddStock(p) PROVE TypeOK' /\ Locals'
  <2>1. ItemOf(p).barcode \in Barcodes /\ ItemOf(p).quantity \in Nat
    BY <1>16, ItemType DEF AddStock, Item, Locals, AtAnItem
  <2>2. req' \in [Requests -> Request]
    <3>1. req' = [req EXCEPT ![p] = [req[p] EXCEPT !.k = req[p].k + 1, !.added =
                   [req[p].added EXCEPT ![ItemOf(p).barcode] = req[p].added[ItemOf(p).barcode] + ItemOf(p).quantity]]]
      BY <1>16 DEF AddStock, TypeOK
    <3>2. QED
      BY <3>1, <2>1, RequestAdded DEF TypeOK
  <2>3. QED
    BY <1>16, <2>2 DEF AddStock, TypeOK, Locals, AtAnItem, DecidesYesOrNo, AtItem
<1>17. ASSUME NEW p \in Requests, NEW restored \in BOOLEAN PROVE Written(p, restored) \in ReturnRow
  BY DEF Written, ReturnRow, TypeOK, Request
<1>18. ASSUME NEW p \in Requests, CommitRestored(p) PROVE TypeOK' /\ Locals'
  <2>1. Incremented(p) \in [Barcodes -> Int]
    BY DEF Incremented, TypeOK, Request
  <2>2. Append(booked[req[p].row], req[p].items) \in Seq(Seq(Item))
    BY DEF TypeOK, Request
  <2>3. Written(p, TRUE) \in ReturnRow
    BY <1>17
  <2>4. QED
    BY <1>18, <2>1, <2>2, <2>3, NoReqType
       DEF CommitRestored, TypeOK, Locals, AtAnItem, DecidesYesOrNo, AtItem
<1>19. ASSUME NEW p \in Requests, CommitKept(p) PROVE TypeOK' /\ Locals'
  <2>1. ret[req[p].row].restored \in BOOLEAN
    BY DEF TypeOK, ReturnRow, Request
  <2>2. Written(p, ret[req[p].row].restored) \in ReturnRow
    BY <1>17, <2>1
  <2>3. QED
    BY <1>19, <2>2, NoReqType DEF CommitKept, TypeOK, Locals, AtAnItem, DecidesYesOrNo, AtItem
<1>20. ASSUME NEW p \in Requests, DeadlockVictim(p) \/ Crash(p) PROVE TypeOK' /\ Locals'
  <2>1. pc[p] = "push" => DecisionOf(p) \in Decision
    BY DEF DecisionOf, Decision, Locals, DecidesYesOrNo, TypeOK, Request
  <2>2. CASE Crash(p)
    BY <2>1, <2>2, NoReqType DEF Crash, TypeOK, Locals, AtAnItem, DecidesYesOrNo, AtItem
  <2>3. CASE DeadlockVictim(p)
    BY <2>3, NoReqType DEF DeadlockVictim, TypeOK, Locals, AtAnItem, DecidesYesOrNo, AtItem
  <2>4. QED
    BY <1>20, <2>2, <2>3
<1>21. QED
  <2>1. ASSUME NEW p \in Requests, Start(p) PROVE TypeOK' /\ Locals'
    BY <1>3, <1>4, <1>5, <1>6, <2>1 DEF Start
  <2>2. ASSUME NEW p \in Requests, Continue(p) PROVE TypeOK' /\ Locals'
    BY <1>7, <1>8, <1>9, <1>10, <1>11, <1>12, <1>13, <1>14, <1>15, <1>16, <1>18, <1>19, <1>20,
       <2>2 DEF Continue
  <2>3. ASSUME NEW p \in Requests, Crash(p) PROVE TypeOK' /\ Locals'
    BY <1>20, <2>3
  <2>4. QED
    BY <1>1, <1>2, <2>1, <2>2, <2>3 DEF Next, Rest

\* ReturnStock is well typed, whatever the requests, the returns and the products.
THEOREM TypeCorrect == Spec => []TypeOK
<1>1. Init => TypeOK /\ Locals
  BY TypeInit
<1>2. TypeOK /\ Locals /\ [Next]_vars => TypeOK' /\ Locals'
  BY TypeStep
<1>3. QED
  BY <1>1, <1>2, PTL DEF Spec

----------------------------------------------------------------------------
\* The invariant holds at the start.
LEMMA InvInit == Init => IInv
<1> SUFFICES ASSUME Init PROVE IInv
  OBVIOUS
<1>1. \A r \in Rows : ~ret[r].restored
  BY DEF Init
<1>2. \A p \in Requests : pc[p] = "idle" /\ req[p].row = p
  BY DEF Init, NoReq
<1>3. \A r \in Rows : ret[r].status \in {Absent, "REQUESTED"}
  BY DEF Init
<1>4. \A r \in Rows : Len(booked[r]) = 0
  BY DEF Init
<1>5. KeyIsFree
  BY <1>2 DEF Init, KeyIsFree, Absent
<1>6. QED
  BY <1>1, <1>2, <1>3, <1>4, <1>5, TypeInit
     DEF IInv, InTx, RowHeldOnce, RowIsThere, AbsentNotRestored, CarriedOver,
         ReceivedIsRestocked, RestockedOnce, STOCK_RESTORE_STATUSES, Absent

\* The conjuncts of IInv that are not about types.
Beyond == RowHeldOnce /\ KeyIsFree /\ RowIsThere /\ AbsentNotRestored /\ CarriedOver
            /\ ReceivedIsRestocked /\ RestockedOnce

\* A step that only takes one request out of what it was doing keeps the invariant.
LEMMA EndKeeps ==
  ASSUME IInv, NEW p \in Requests, NEW l \in Ended, End(p, l), UNCHANGED <<ret, booked>>
  PROVE  Beyond'
BY DEF IInv, TypeOK, Beyond, End, Goto, Ended, InTx, RowHeldOnce, KeyIsFree, RowIsThere,
       AbsentNotRestored, CarriedOver, ReceivedIsRestocked, RestockedOnce

\* Every step keeps the parts of the invariant beyond the types.
LEMMA InvStep == IInv /\ [Next]_vars => Beyond'
<1> SUFFICES ASSUME IInv, [Next]_vars PROVE Beyond'
  OBVIOUS
<1> USE DEF IInv, Beyond, InTx, Ended, RowHeldOnce, KeyIsFree, RowIsThere, AbsentNotRestored,
            CarriedOver, ReceivedIsRestocked, RestockedOnce
<1>1. CASE UNCHANGED vars
  BY <1>1 DEF vars, told
<1>2. CASE CancelOrder
  BY <1>2 DEF CancelOrder
<1>3. ASSUME NEW p \in Requests, NEW its \in ItemLists, StartCreate(p, its) PROVE Beyond'
  <2>1. CASE order = "CANCELLED"
    BY <1>3, <2>1, EndKeeps DEF StartCreate
  <2>2. CASE order # "CANCELLED"
    <3>1. req'[p].row = p /\ pc' = [pc EXCEPT ![p] = "create"] /\ UNCHANGED <<ret, booked>>
      <4>1. req'[p] = [NoReq(p) EXCEPT !.op = "create", !.items = its, !.mark = (order # "RETURNED")]
        BY <1>3, <2>2 DEF StartCreate, TypeOK
      <4>2. QED
        BY <1>3, <2>2, <4>1 DEF StartCreate, Goto, NoReq
    <3>2. \A q \in Requests \ {p} : req'[q] = req[q]
      BY <1>3, <2>2 DEF StartCreate, TypeOK
    <3>3. pc[p] = "idle"
      BY <1>3 DEF StartCreate
    <3>4. QED
      BY <3>1, <3>2, <3>3 DEF TypeOK
  <2>3. QED
    BY <2>1, <2>2
<1>4. ASSUME NEW p \in Requests, NEW r \in Rows, NEW s \in {"APPROVED", "REJECTED"},
             StartDecision(p, r, s)
      PROVE  Beyond'
  <2>1. CASE ret[r].status \in DecidedForApprove
    BY <1>4, <2>1, EndKeeps DEF StartDecision
  <2>2. CASE ret[r].status \notin DecidedForApprove
    <3>1. req'[p].row = r /\ pc' = [pc EXCEPT ![p] = "decide"] /\ UNCHANGED <<ret, booked>>
      <4>1. req'[p] = [NoReq(p) EXCEPT !.op = "decide", !.row = r, !.to = s, !.id = ret[r].id]
        BY <1>4, <2>2 DEF StartDecision, TypeOK
      <4>2. QED
        BY <1>4, <2>2, <4>1 DEF StartDecision, Goto, NoReq
    <3>2. \A q \in Requests \ {p} : req'[q] = req[q]
      BY <1>4, <2>2 DEF StartDecision, TypeOK
    <3>3. ret[r].status # Absent
      BY <1>4 DEF StartDecision, Present
    <3>4. QED
      BY <3>1, <3>2, <3>3 DEF TypeOK
  <2>3. QED
    BY <2>1, <2>2
<1>5. ASSUME NEW p \in Requests, NEW r \in Rows, NEW s \in Targets, StartUpdate(p, r, s)
      PROVE  Beyond'
  BY <1>5, ReturnAssumption DEF StartUpdate, TypeOK, Goto, NoReq, Present
<1>6. ASSUME NEW p \in Requests, NEW m \in Reports, StartPlatform(p, m) PROVE Beyond'
  <2>1. mapPlatformReturnStatus(m.status) \in ReturnStatus /\ pc[p] = "idle"
    BY <1>6 DEF mapPlatformReturnStatus, ReturnStatus, StartPlatform
  <2>2. UNCHANGED <<ret, booked>> /\ \A q \in Requests \ {p} : req'[q] = req[q]
    BY <1>6 DEF StartPlatform, TypeOK
  <2>3. CASE req'[p].row = p /\ req'[p].to = mapPlatformReturnStatus(m.status)
             /\ req'[p].prev = Absent /\ pc' = [pc EXCEPT ![p] = "insert"]
    BY <2>1, <2>2, <2>3 DEF TypeOK, STOCK_RESTORE_STATUSES, Absent
  <2>4. ASSUME NEW r \in Rows, ret[r].status # Absent, req'[p].row = r,
               req'[p].to = mapPlatformReturnStatus(m.status),
               req'[p].prev = ret[r].status, pc' = [pc EXCEPT ![p] = "tx"]
        PROVE  Beyond'
    BY <2>1, <2>2, <2>4 DEF TypeOK
  <2>5. \/ req'[p].row = p /\ req'[p].to = mapPlatformReturnStatus(m.status)
              /\ req'[p].prev = Absent /\ pc' = [pc EXCEPT ![p] = "insert"]
        \/ \E r \in Rows : ret[r].status # Absent /\ req'[p].row = r
              /\ req'[p].to = mapPlatformReturnStatus(m.status)
              /\ req'[p].prev = ret[r].status /\ pc' = [pc EXCEPT ![p] = "tx"]
    <3> DEFINE t == mapPlatformReturnStatus(m.status)
               new == [NoReq(p) EXCEPT !.op = "platform", !.to = t, !.id = m.id, !.items = m.items]
               old(r) == [NoReq(p) EXCEPT !.op = "platform", !.row = r, !.to = t, !.id = m.id,
                                          !.prev = ret[r].status, !.items = m.items]
    <3>1. new.row = p /\ new.to = t /\ new.prev = Absent
      BY DEF NoReq
    <3>2. \A r \in Rows : old(r).row = r /\ old(r).to = t /\ old(r).prev = ret[r].status
      BY DEF NoReq
    <3>3. \/ req' = [req EXCEPT ![p] = new] /\ pc' = [pc EXCEPT ![p] = "insert"]
          \/ \E r \in Rows : /\ ret[r].status # Absent
                             /\ req' = [req EXCEPT ![p] = old(r)]
                             /\ pc' = [pc EXCEPT ![p] = "tx"]
      BY <1>6 DEF StartPlatform, Goto, Matches, Present
    <3> HIDE DEF new, old, t
    <3>4. \/ req'[p] = new /\ pc' = [pc EXCEPT ![p] = "insert"]
          \/ \E r \in Rows : ret[r].status # Absent /\ req'[p] = old(r) /\ pc' = [pc EXCEPT ![p] = "tx"]
      BY <3>3 DEF TypeOK
    <3>5. QED
      BY <3>1, <3>2, <3>4 DEF t
  <2>6. QED
    BY <2>3, <2>4, <2>5
<1>7. ASSUME NEW p \in Requests, CreateManual(p) PROVE Beyond'
  <2>1. /\ pc[p] = "create" /\ pc'[p] \in {"markOrder", "done"}
        /\ \A q \in Requests \ {p} : pc'[q] = pc[q] /\ req'[q] = req[q]
    BY <1>7 DEF CreateManual, TypeOK, Goto, End
  <2>2. /\ ret'[p].status = "REQUESTED" /\ ret'[p].restored = FALSE /\ booked' = booked
        /\ \A r \in Rows \ {p} : ret'[r] = ret[r]
    BY <1>7 DEF CreateManual, TypeOK, Rows
  <2>3. ret[p].status = Absent /\ ret[p].restored = FALSE
    BY <2>1 DEF TypeOK, ReturnRow, Rows
  <2>4. \A q \in Requests : req[q].row \in Rows
    BY DEF TypeOK, Request
  <2>5. QED
    BY <2>1, <2>2, <2>3, <2>4 DEF Absent, STOCK_RESTORE_STATUSES
<1>8. ASSUME NEW p \in Requests, MarkOrderReturned(p) PROVE Beyond'
  BY <1>8, EndKeeps DEF MarkOrderReturned
<1>9. ASSUME NEW p \in Requests, WriteDecision(p) PROVE Beyond'
  <2> DEFINE r0 == req[p].row
  <2>1. /\ pc[p] = "decide" /\ pc'[p] \in {"push", "done"} /\ req' = req /\ booked' = booked
        /\ \A q \in Requests \ {p} : pc'[q] = pc[q]
    BY <1>9 DEF WriteDecision, TypeOK, Goto
  <2>2. /\ ret'[r0].status \in {"APPROVED", "REJECTED"} /\ ret'[r0].restored = ret[r0].restored
        /\ \A r \in Rows \ {r0} : ret'[r] = ret[r]
    BY <1>9 DEF WriteDecision, TypeOK, Locals, DecidesYesOrNo, ReturnRow, Request
  <2>3. ret[r0].status # Absent /\ \A q \in Requests : req[q].row \in Rows
    BY <2>1 DEF TypeOK, Request
  <2>4. QED
    BY <2>1, <2>2, <2>3 DEF Absent, STOCK_RESTORE_STATUSES, Rows
<1>10. ASSUME NEW p \in Requests, PushDecision(p) PROVE Beyond'
  BY <1>10 DEF PushDecision, TypeOK, Goto
<1>11. ASSUME NEW p \in Requests, TxUpdate(p) PROVE Beyond'
  BY <1>11 DEF TxUpdate, TypeOK, Goto, RowLocked, Request
<1>12. ASSUME NEW p \in Requests, TxInsert(p) PROVE Beyond'
  BY <1>12 DEF TxInsert, TypeOK, Goto
<1>13. ASSUME NEW p \in Requests, TxInsertRefused(p) PROVE Beyond'
  BY <1>13, EndKeeps DEF TxInsertRefused
<1>14. ASSUME NEW p \in Requests, ReadFresh(p) PROVE Beyond'
  BY <1>14 DEF ReadFresh, MustRestore, TypeOK, Goto
<1>15. ASSUME NEW p \in Requests, ReadStock(p) PROVE Beyond'
  <2>1. /\ pc[p] = "readStock" /\ pc'[p] \in {"readStock", "addStock"}
        /\ \A q \in Requests \ {p} : pc'[q] = pc[q]
        /\ UNCHANGED <<ret, booked>>
    BY <1>15 DEF ReadStock, TypeOK, Goto
  <2>2. \A q \in Requests : req'[q].row = req[q].row /\ req'[q].to = req[q].to
                              /\ req'[q].prev = req[q].prev
    <3>1. \/ req' = req
          \/ req' = [req EXCEPT ![p] = [req[p] EXCEPT !.k = req[p].k + 1]]
          \/ \E f : req' = [req EXCEPT ![p] = [req[p] EXCEPT !.before = f]]
      BY <1>15 DEF ReadStock
    <3>2. ASSUME NEW x \in Request
          PROVE  /\ [x EXCEPT !.k = x.k + 1].row = x.row /\ [x EXCEPT !.k = x.k + 1].to = x.to
                 /\ [x EXCEPT !.k = x.k + 1].prev = x.prev
                 /\ \A f : /\ [x EXCEPT !.before = f].row = x.row /\ [x EXCEPT !.before = f].to = x.to
                          /\ [x EXCEPT !.before = f].prev = x.prev
      BY DEF Request
    <3>3. CASE req' = req
      BY <3>3
    <3>4. CASE req' = [req EXCEPT ![p] = [req[p] EXCEPT !.k = req[p].k + 1]]
      BY <3>2, <3>4 DEF TypeOK
    <3>5. ASSUME NEW f, req' = [req EXCEPT ![p] = [req[p] EXCEPT !.before = f]]
          PROVE  \A q \in Requests : /\ req'[q].row = req[q].row /\ req'[q].to = req[q].to
                                      /\ req'[q].prev = req[q].prev
      BY <3>2, <3>5 DEF TypeOK
    <3>6. QED
      BY <3>1, <3>3, <3>4, <3>5
  <2>3. QED
    BY <2>1, <2>2
<1>16. ASSUME NEW p \in Requests, AddStock(p) PROVE Beyond'
  BY <1>16 DEF AddStock, TypeOK, Goto, Request
<1>18. ASSUME NEW p \in Requests, CommitRestored(p) PROVE Beyond'
  <2> DEFINE r0 == req[p].row
  <2>1. /\ pc[p] = "readStock" /\ pc'[p] = "done"
        /\ \A q \in Requests \ {p} : pc'[q] = pc[q] /\ req'[q] = req[q]
    BY <1>18 DEF CommitRestored, TypeOK, Goto, End
  <2>2. r0 \in Rows /\ r0 \in DOMAIN ret /\ r0 \in DOMAIN booked /\ req[p].to \in ReturnStatus
    BY <2>1 DEF TypeOK, Request
  <2>3. /\ ret'[r0].status = req[p].to /\ ret'[r0].restored = TRUE
        /\ booked'[r0] = Append(booked[r0], req[p].items)
        /\ \A r \in Rows \ {r0} : ret'[r] = ret[r] /\ booked'[r] = booked[r]
    BY <1>18, <2>2 DEF CommitRestored, TypeOK, Written
  <2>4. Len(booked[r0]) = 0 /\ Len(booked'[r0]) = 1
    <3>1. ret[r0].restored = FALSE /\ booked[r0] \in Seq(Seq(Item)) /\ req[p].items \in Seq(Item)
      BY <2>1, <2>2 DEF TypeOK, Request, ReturnRow
    <3>2. Len(booked[r0]) = 0
      BY <3>1, <2>2
    <3>3. QED
      BY <3>1, <3>2, <2>3
  <2>5. \A q \in Requests : req[q].row \in Rows
    BY DEF TypeOK, Request
  <2>6. QED
    BY <2>1, <2>2, <2>3, <2>4, <2>5 DEF ReturnStatus, Absent, Rows
<1>19. ASSUME NEW p \in Requests, CommitKept(p) PROVE Beyond'
  <2> DEFINE r0 == req[p].row
  <2>1. /\ pc[p] = "keep" /\ pc'[p] = "done" /\ booked' = booked
        /\ \A q \in Requests \ {p} : pc'[q] = pc[q] /\ req'[q] = req[q]
    BY <1>19 DEF CommitKept, TypeOK, Goto, End
  <2>2. r0 \in Rows /\ r0 \in DOMAIN ret /\ req[p].to \in ReturnStatus
    BY <2>1 DEF TypeOK, Request
  <2>3. /\ ret'[r0].status = req[p].to /\ ret'[r0].restored = ret[r0].restored
        /\ \A r \in Rows \ {r0} : ret'[r] = ret[r]
    BY <1>19, <2>2 DEF CommitKept, TypeOK, Written
  <2>4. \A q \in Requests : req[q].row \in Rows
    BY DEF TypeOK, Request
  <2>5. QED
    BY <2>1, <2>2, <2>3, <2>4 DEF ReturnStatus, Absent, Rows
<1>20. ASSUME NEW p \in Requests, DeadlockVictim(p) \/ Crash(p) PROVE Beyond'
  BY <1>20, EndKeeps DEF DeadlockVictim, Crash
<1>21. QED
  <2> HIDE DEF IInv, Beyond
  <2>1. ASSUME NEW p \in Requests, Start(p) PROVE Beyond'
    BY <1>3, <1>4, <1>5, <1>6, <2>1 DEF Start
  <2>2. ASSUME NEW p \in Requests, Continue(p) PROVE Beyond'
    BY <1>7, <1>8, <1>9, <1>10, <1>11, <1>12, <1>13, <1>14, <1>15, <1>16, <1>18, <1>19, <1>20,
       <2>2 DEF Continue
  <2>3. ASSUME NEW p \in Requests, Crash(p) PROVE Beyond'
    BY <1>20, <2>3
  <2>4. QED
    BY <1>1, <1>2, <2>1, <2>2, <2>3 DEF Next, Rest

\* The inductive invariant holds of every behaviour.
LEMMA Invariant == Spec => []IInv
<1>1. Init => IInv
  BY InvInit
<1>2. IInv /\ [Next]_vars => IInv'
  BY InvStep, TypeStep DEF IInv, Beyond
<1>3. QED
  BY <1>1, <1>2, PTL DEF Spec

\* Goods that have been received are in stock: no interleaving of panel and marketplace
\* updates brings a return to RECEIVED or REFUNDED without its stock, although the previous
\* status is read before the transaction (maybeRestoreReturnStock).
THEOREM ReceivedRestocked == Spec => []ReceivedIsRestocked
BY Invariant, PTL DEF IInv

\* No return's goods are taken into stock twice (the row lock that updateReturnStatus and
\* upsertFromPlatform take before they look at stockRestoredAt).
THEOREM NeverRestockedTwice == Spec => []RestockedOnce
BY Invariant, PTL DEF IInv

\* Each movement is booked by the step that first marks its return as restored, and for the
\* items the return then has.
THEOREM MovementsAreTheItems == Spec => BooksWhatItHolds
<1> DEFINE Step == \A r \in Rows : booked'[r] # booked[r] =>
                     /\ ~ret[r].restored /\ ret'[r].restored
                     /\ booked'[r] = Append(booked[r], ret'[r].items)
<1>1. ASSUME IInv, [Next]_vars PROVE [Step]_vars
  <2>1. CASE booked' = booked
    BY <2>1
  <2>2. ASSUME NEW p \in Requests, CommitRestored(p) PROVE Step
    <3>1. pc[p] = "readStock" /\ req[p].row \in DOMAIN ret
      BY <1>1, <2>2 DEF CommitRestored, IInv, TypeOK, Request
    <3>2. ~ret[req[p].row].restored
      BY <1>1, <3>1 DEF IInv, CarriedOver
    <3>3. ret'[req[p].row].restored /\ ret'[req[p].row].items = req[p].items
      BY <2>2, <3>1 DEF CommitRestored, Written
    <3>4. QED
      BY <1>1, <2>2, <3>2, <3>3 DEF CommitRestored, IInv, TypeOK
  <2>3. ASSUME NEW p \in Requests, Start(p) PROVE booked' = booked
    BY <2>3 DEF Start, StartCreate, StartDecision, StartUpdate, StartPlatform
  <2>4. ASSUME NEW p \in Requests, Continue(p), ~CommitRestored(p) PROVE booked' = booked
    BY <2>4 DEF Continue, CreateManual, TxInsert, MarkOrderReturned, WriteDecision, PushDecision,
                TxUpdate, TxInsertRefused, ReadFresh, ReadStock, AddStock, CommitKept,
                DeadlockVictim
  <2>5. ASSUME NEW p \in Requests, Crash(p) PROVE booked' = booked
    BY <2>5 DEF Crash
  <2>6. QED
    BY <1>1, <2>1, <2>2, <2>3, <2>4, <2>5 DEF Next, CancelOrder, Rest, vars, told
<1>2. QED
  BY <1>1, Invariant, PTL DEF Spec, BooksWhatItHolds

----------------------------------------------------------------------------
(* Jobs for the marketplace. *)

\* What carries a decision from the update to the job: the return stays in the table with the
\* identifier its request has read, and what is about to be queued has been written.
DecisionInv ==
  /\ DecisionsAreTold
  /\ \A d \in decided : Present(d.row)
  /\ \A p \in Requests :
       /\ pc[p] \in {"decide", "push"} => req[p].id = ret[req[p].row].id
       /\ pc[p] = "push" => req[p].id # NoId /\ DecisionOf(p) \in decided

\* A return that is in the table stays there, with its identifier.
LEMMA ReturnsKeepIds ==
  ASSUME IInv, [Next]_vars, NEW r \in Rows, Present(r)
  PROVE  Present(r)' /\ ret'[r].id = ret[r].id
<1>0. TypeOK /\ \A q \in Requests : req[q].row \in Rows
  BY DEF IInv, TypeOK, Request
<1>1. CASE ret' = ret
  BY <1>1 DEF Present
<1>2. ASSUME NEW p \in Requests, CreateManual(p) PROVE Present(r)' /\ ret'[r].id = ret[r].id
  <2>1. r # p
    BY <1>2 DEF CreateManual, IInv, KeyIsFree, Present
  <2>2. QED
    BY <1>0, <1>2, <2>1 DEF CreateManual, TypeOK, Present
<1>3. ASSUME NEW p \in Requests, WriteDecision(p) PROVE Present(r)' /\ ret'[r].id = ret[r].id
  <2>1. req[p].to # Absent
    BY <1>3 DEF WriteDecision, IInv, Locals, DecidesYesOrNo, Absent
  <2>2. QED
    BY <1>0, <1>3, <2>1 DEF WriteDecision, TypeOK, ReturnRow, Present
<1>4. ASSUME NEW p \in Requests, NEW x, pc[p] \in InTx,
             ret' = [ret EXCEPT ![req[p].row] = Written(p, x)]
      PROVE  Present(r)' /\ ret'[r].id = ret[r].id
  <2>1. req[p].to # Absent
    BY <1>4 DEF IInv, CarriedOver, ReturnStatus, Absent
  <2>2. CASE r = req[p].row
    BY <1>0, <1>4, <2>1, <2>2 DEF TypeOK, Written, Present
  <2>3. CASE r # req[p].row
    BY <1>0, <1>4, <2>3 DEF TypeOK, Present
  <2>4. QED
    BY <2>2, <2>3
<1>5. ASSUME NEW p \in Requests, CommitRestored(p) \/ CommitKept(p)
      PROVE  Present(r)' /\ ret'[r].id = ret[r].id
  <2>1. pc[p] \in InTx /\ \E x : ret' = [ret EXCEPT ![req[p].row] = Written(p, x)]
    BY <1>5 DEF CommitRestored, CommitKept, InTx
  <2>2. QED
    BY <1>4, <2>1
<1>6. ASSUME NEW p \in Requests, Start(p) \/ Crash(p) PROVE ret' = ret
  BY <1>6 DEF Start, StartCreate, StartDecision, StartUpdate, StartPlatform, Crash
<1>7. ASSUME NEW p \in Requests, Continue(p), ~CreateManual(p), ~WriteDecision(p), ~CommitRestored(p),
             ~CommitKept(p)
      PROVE  ret' = ret
  BY <1>7 DEF Continue, TxInsert, MarkOrderReturned, PushDecision, TxUpdate, TxInsertRefused,
     ReadFresh, ReadStock, AddStock, DeadlockVictim
<1>8. QED
  BY <1>1, <1>2, <1>3, <1>5, <1>6, <1>7 DEF Next, CancelOrder, Rest, vars

\* What a step of p does to p only, where it is not at its job before or after and decides
\* nothing, keeps the decisions.
LEMMA DecisionLocal ==
  ASSUME IInv, DecisionInv, [Next]_vars, NEW p \in Requests, told' = told,
         pc[p] # "push", pc'[p] # "push", \A q \in Requests \ {p} : pc'[q] = pc[q] /\ req'[q] = req[q],
         pc'[p] = "decide" => req'[p].id = ret'[req'[p].row].id
  PROVE  DecisionInv'
<1>1. \A d \in decided \cup pushes : d.row \in Rows /\ Present(d.row)' /\ ret'[d.row].id = ret[d.row].id
  BY ReturnsKeepIds DEF IInv, TypeOK, DecisionInv, DecisionsAreTold, Decision
<1>2. \A d \in decided : OnItsWay(d) => OnItsWay(d)'
  BY DEF OnItsWay, DecisionOf
<1>3. DecisionsAreTold'
  BY <1>1, <1>2 DEF told, DecisionInv, DecisionsAreTold
<1>4. ASSUME NEW q \in Requests \ {p}, pc'[q] \in {"decide", "push"}
      PROVE  req'[q].id = ret'[req'[q].row].id /\ (pc'[q] = "push" => req'[q].id # NoId /\ DecisionOf(q)' \in decided')
  <2>1. pc[q] = pc'[q] /\ req'[q] = req[q] /\ req[q].row \in Rows
    BY <1>4 DEF IInv, TypeOK, Request
  <2>2. Present(req[q].row)
    BY <1>4, <2>1 DEF IInv, RowIsThere, DecisionInv, DecisionOf, Present
  <2>3. QED
    BY <1>4, <2>1, <2>2, ReturnsKeepIds DEF DecisionInv, DecisionOf, told
<1>5. QED
  BY <1>1, <1>3, <1>4 DEF DecisionInv, told

\* Every step keeps the decisions: one that is written is on its way, one that is queued was
\* written, and a death on the way is remembered.
LEMMA DecisionStep == IInv /\ DecisionInv /\ [Next]_vars => DecisionInv'
<1> SUFFICES ASSUME IInv, DecisionInv, [Next]_vars PROVE DecisionInv'
  OBVIOUS
<1> USE DEF Goto, End
<1>0. TypeOK /\ \A q \in Requests : req[q].row \in Rows
  BY DEF IInv, TypeOK, Request
<1>1. CASE UNCHANGED <<ret, told, pc, req>>
  BY <1>1 DEF told, DecisionInv, DecisionsAreTold, OnItsWay, DecisionOf, Present
<1>2. ASSUME NEW p \in Requests, Start(p) PROVE DecisionInv'
  <2>1. pc[p] = "idle" /\ told' = told /\ ret' = ret
    BY <1>2 DEF Start, StartCreate, StartDecision, StartUpdate, StartPlatform
  <2>2. \E x, l : /\ l \in {"create", "decide", "tx", "insert", "failed"}
                  /\ pc' = [pc EXCEPT ![p] = l] /\ req' = [req EXCEPT ![p] = x]
                  /\ l = "decide" => x.id = ret[x.row].id
    <3>1. ASSUME NEW r \in Rows, NEW s \in {"APPROVED", "REJECTED"}, StartDecision(p, r, s)
          PROVE  \E x, l : /\ l \in {"create", "decide", "tx", "insert", "failed"}
                           /\ pc' = [pc EXCEPT ![p] = l] /\ req' = [req EXCEPT ![p] = x]
                           /\ l = "decide" => x.id = ret[x.row].id
      BY <3>1 DEF StartDecision, NoReq
    <3>2. QED
      BY <1>2, <3>1 DEF Start, StartCreate, StartUpdate, StartPlatform
  <2>3. QED
    BY <1>0, <2>1, <2>2, DecisionLocal DEF TypeOK
<1>3. ASSUME NEW p \in Requests, WriteDecision(p) PROVE DecisionInv'
  <2>1. /\ pc[p] = "decide" /\ decided' = decided \cup {DecisionOf(p)} /\ UNCHANGED <<pushes, untold, req>>
        /\ pc' = [pc EXCEPT ![p] = IF req[p].id = NoId THEN "done" ELSE "push"]
    BY <1>3 DEF WriteDecision
  <2>2. Present(req[p].row) /\ req[p].id = ret[req[p].row].id /\ DecisionOf(p).row = req[p].row
    BY <2>1 DEF IInv, RowIsThere, DecisionInv, Present, DecisionOf
  <2>3. \A d \in decided' : d.row \in Rows /\ Present(d.row)' /\ ret'[d.row].id = ret[d.row].id
    BY <1>0, <2>1, <2>2, ReturnsKeepIds DEF IInv, TypeOK, DecisionInv, Decision
  <2>4. \A d \in decided : OnItsWay(d) => OnItsWay(d)'
    BY <1>0, <2>1 DEF OnItsWay, DecisionOf, TypeOK
  <2>5. ASSUME NEW d \in decided', d \notin decided PROVE ret[d.row].id = NoId \/ OnItsWay(d)'
    BY <1>0, <2>1, <2>2, <2>5 DEF OnItsWay, DecisionOf, TypeOK
  <2>6. DecisionsAreTold'
    BY <2>1, <2>2, <2>3, <2>4, <2>5 DEF DecisionInv, DecisionsAreTold
  <2>7. ASSUME NEW q \in Requests, pc'[q] \in {"decide", "push"}
        PROVE  req'[q].id = ret'[req'[q].row].id /\ (pc'[q] = "push" => req'[q].id # NoId /\ DecisionOf(q)' \in decided')
    <3>1. CASE q = p
      BY <1>0, <2>1, <2>2, <2>3, <2>7, <3>1 DEF TypeOK, DecisionOf
    <3>2. CASE q # p
      <4>1. pc'[q] = pc[q]
        BY <1>0, <2>1, <3>2 DEF TypeOK
      <4>2. Present(req[q].row)
        BY <2>7, <4>1 DEF IInv, RowIsThere, DecisionInv, DecisionOf, Present
      <4>3. QED
        BY <1>0, <2>1, <2>7, <4>1, <4>2, ReturnsKeepIds DEF DecisionInv, DecisionOf
    <3>3. QED
      BY <3>1, <3>2
  <2>8. QED
    BY <2>3, <2>6, <2>7 DEF DecisionInv
<1>4. ASSUME NEW p \in Requests, pc[p] = "push", pc' = [pc EXCEPT ![p] = "done"], req' = req, ret' = ret,
             pushes' = pushes \cup {DecisionOf(p)}, UNCHANGED <<decided, untold>>
      PROVE  DecisionInv'
  <2>1. DecisionOf(p) \in decided /\ ret[DecisionOf(p).row].id # NoId
    BY <1>4 DEF DecisionInv, DecisionOf
  <2>2. \A d \in decided : OnItsWay(d) => d = DecisionOf(p) \/ OnItsWay(d)'
    BY <1>0, <1>4 DEF OnItsWay, DecisionOf, TypeOK
  <2>3. DecisionsAreTold'
    BY <1>4, <2>1, <2>2 DEF DecisionInv, DecisionsAreTold
  <2>4. \A q \in Requests : pc'[q] \in {"decide", "push"} => pc'[q] = pc[q]
    BY <1>0, <1>4 DEF TypeOK
  <2>5. QED
    BY <1>4, <2>3, <2>4 DEF DecisionInv, Present, DecisionOf
<1>5. ASSUME NEW p \in Requests, Crash(p) PROVE DecisionInv'
  <2>1. /\ ret' = ret /\ UNCHANGED <<pushes, decided>>
        /\ untold' = untold \cup (IF pc[p] = "push" THEN {DecisionOf(p)} ELSE {})
        /\ pc'[p] = "failed" /\ \A q \in Requests \ {p} : pc'[q] = pc[q] /\ req'[q] = req[q]
    BY <1>0, <1>5 DEF Crash, TypeOK
  <2>2. \A d \in decided : OnItsWay(d) => d \in untold' \/ OnItsWay(d)'
    BY <2>1 DEF OnItsWay, DecisionOf
  <2>3. DecisionsAreTold'
    BY <2>1, <2>2 DEF DecisionInv, DecisionsAreTold
  <2>4. QED
    BY <2>1, <2>3 DEF DecisionInv, Present, DecisionOf
<1>6. ASSUME NEW p \in Requests, Continue(p), ~WriteDecision(p), ~PushDecision(p) PROVE DecisionInv'
  <2>1. /\ told' = told /\ pc[p] \notin {"decide", "push"}
        /\ \E x, l : /\ l \notin {"decide", "push"}
                     /\ pc' = [pc EXCEPT ![p] = l] /\ req' = [req EXCEPT ![p] = x]
    <3>1. CASE DeadlockVictim(p)
      <4>1. pc[p] = "addStock"
        BY <3>1 DEF DeadlockVictim, WaitsFor
      <4>2. QED
        BY <3>1, <4>1 DEF DeadlockVictim
    <3>2. CASE ReadStock(p) \/ AddStock(p) \/ CreateManual(p)
      BY <1>0, <3>2 DEF ReadStock, AddStock, CreateManual, TypeOK
    <3>3. CASE TxInsert(p) \/ MarkOrderReturned(p) \/ TxInsertRefused(p) \/ ReadFresh(p)
      BY <1>0, <3>3 DEF TxInsert, MarkOrderReturned, TxInsertRefused, ReadFresh, TypeOK
    <3>4. CASE TxUpdate(p) \/ CommitRestored(p) \/ CommitKept(p)
      BY <1>0, <3>4 DEF TxUpdate, CommitRestored, CommitKept, TypeOK
    <3>5. QED
      BY <1>6, <3>1, <3>2, <3>3, <3>4 DEF Continue
  <2>2. QED
    BY <1>0, <2>1, DecisionLocal DEF TypeOK
<1>7. ASSUME NEW p \in Requests, PushDecision(p) PROVE DecisionInv'
  BY <1>4, <1>7 DEF PushDecision
<1>8. QED
  BY <1>1, <1>2, <1>3, <1>5, <1>6, <1>7 DEF Next, CancelOrder, Rest, vars

\* The marketplace is told only what was written, and all that was written to a return it
\* knows, but for what dies between the two statements of approveReturn and rejectReturn.
THEOREM DecisionsTold == Spec => []DecisionsAreTold
<1>1. Init => DecisionInv
  BY DEF Init, DecisionInv, DecisionsAreTold
<1>2. DecisionInv => DecisionsAreTold
  BY DEF DecisionInv
<1>3. QED
  BY <1>1, <1>2, DecisionStep, Invariant, PTL DEF Spec

----------------------------------------------------------------------------
(* The marketplace's identifiers. *)

\* No two returns in the table have the same identifier.
IdIsUnique ==
  \A r, s \in Rows : Present(r) /\ Present(s) /\ ret[r].id = ret[s].id /\ ret[r].id # NoId => r = s

\* The transaction of p has inserted a return of the marketplace's that it has not committed.
Inserting(p) == pc[p] \in InTx /\ ~Present(req[p].row) /\ req[p].id # NoId

\* The unique index has let it: no return in the table, and none that another transaction
\* has inserted, has its identifier.
InsertIsAlone ==
  \A p \in Requests : Inserting(p) =>
    /\ \A s \in Rows : Present(s) => ret[s].id # req[p].id
    /\ \A q \in Requests \ {p} : Inserting(q) => req[q].id # req[p].id

IdInv == IdIsUnique /\ InsertIsAlone

\* A step that puts no return in the table and inserts none keeps the identifiers apart.
LEMMA IdsStay ==
  ASSUME TypeOK, TypeOK', IdInv,
         \A r \in Rows : Present(r)' = Present(r) /\ ret'[r].id = ret[r].id,
         \A q \in Requests : Inserting(q)' => Inserting(q) /\ req'[q].id = req[q].id
  PROVE  IdInv'
<1>1. IdIsUnique'
  BY DEF IdInv, IdIsUnique
<1>2. InsertIsAlone'
  BY DEF IdInv, InsertIsAlone
<1>3. QED
  BY <1>1, <1>2 DEF IdInv

\* A step of p that leaves the table alone, and p outside the transaction or in it as before.
LEMMA IdsLocal ==
  ASSUME TypeOK, TypeOK', IdInv, NEW p \in Requests, ret' = ret,
         \A q \in Requests \ {p} : pc'[q] = pc[q] /\ req'[q] = req[q],
         pc'[p] \notin InTx \/ (pc[p] \in InTx /\ req'[p].row = req[p].row /\ req'[p].id = req[p].id)
  PROVE  IdInv'
<1>1. \A r : Present(r)' = Present(r)
  BY DEF Present
<1>2. ASSUME NEW q \in Requests, Inserting(q)' PROVE Inserting(q) /\ req'[q].id = req[q].id
  <2>1. CASE q = p
    BY <1>1, <1>2, <2>1 DEF Inserting, Present
  <2>2. CASE q # p
    BY <1>1, <1>2, <2>2 DEF Inserting, Present
  <2>3. QED
    BY <2>1, <2>2
<1>3. QED
  BY <1>1, <1>2, IdsStay

\* What a commit leaves of the identifiers: a return that was there keeps its own, a new one
\* brings one that no other return has.
LEMMA CommitKeepsIds ==
  ASSUME IInv, TypeOK', IdInv, NEW p \in Requests, pc[p] \in InTx, pc'[p] = "done",
         NEW restored \in BOOLEAN, ret' = [ret EXCEPT ![req[p].row] = Written(p, restored)],
         \A q \in Requests \ {p} : pc'[q] = pc[q] /\ req'[q] = req[q]
  PROVE  IdInv'
<1> DEFINE r0 == req[p].row
<1>1. r0 \in Rows /\ \A q \in Requests : req[q].row \in Rows
  BY DEF IInv, TypeOK, Request
<1>2. /\ \A r \in Rows \ {r0} : ret'[r] = ret[r]
      /\ ret'[r0].id = IF Present(r0) THEN ret[r0].id ELSE req[p].id
      /\ ret'[r0].status # Absent
  BY <1>1 DEF IInv, TypeOK, Written, CarriedOver, ReturnStatus, Absent, InTx
<1>3. \A r \in Rows : Present(r)' = (Present(r) \/ r = r0)
  BY <1>1, <1>2 DEF Present
<1>4. CASE Present(r0)
  <2>1. ASSUME NEW q \in Requests, Inserting(q)' PROVE Inserting(q) /\ req'[q].id = req[q].id
    <3>1. q # p
      BY <2>1 DEF Inserting, InTx
    <3>2. QED
      BY <1>1, <1>3, <2>1, <3>1 DEF Inserting
  <2>2. \A r \in Rows : Present(r)' = Present(r)
    <3>1. ASSUME NEW r \in Rows PROVE Present(r)' = Present(r)
      <4>1. CASE r = r0
        BY <1>3, <1>4, <4>1 DEF Present
      <4>2. CASE r # r0
        BY <1>2, <4>2 DEF Present
      <4>3. QED
        BY <4>1, <4>2
    <3>2. QED
      BY <3>1
  <2>3. \A r \in Rows : ret'[r].id = ret[r].id
    BY <1>2, <1>4
  <2>4. QED
    BY <2>1, <2>2, <2>3, IdsStay DEF IInv
<1>5. CASE ~Present(r0)
  <2>1. req[p].id # NoId => /\ \A s \in Rows : Present(s) => ret[s].id # req[p].id
                            /\ \A q \in Requests \ {p} : Inserting(q) => req[q].id # req[p].id
    BY <1>5 DEF IdInv, InsertIsAlone, Inserting
  <2>2. IdIsUnique'
    <3> SUFFICES ASSUME NEW r \in Rows, NEW s \in Rows, Present(r)', Present(s)',
                        ret'[r].id = ret'[s].id, ret'[r].id # NoId
                 PROVE  r = s
      BY DEF IdIsUnique
    <3>1. CASE r # r0 /\ s # r0
      BY <1>2, <1>3, <3>1 DEF IdInv, IdIsUnique
    <3>2. ASSUME NEW u \in Rows \ {r0}, Present(u)', ret'[u].id = ret'[r0].id, ret'[r0].id # NoId
          PROVE  FALSE
      <4>1. Present(u) /\ ret'[u].id = ret[u].id
        BY <1>2, <3>2 DEF Present
      <4>2. ret'[r0].id = req[p].id
        BY <1>2, <1>5
      <4>3. QED
        BY <2>1, <3>2, <4>1, <4>2
    <3>3. CASE r = r0 \/ s = r0
      BY <3>2, <3>3
    <3>4. QED
      BY <3>1, <3>3
  <2>3. ASSUME NEW q \in Requests, Inserting(q)' PROVE q # p /\ Inserting(q) /\ req'[q].id = req[q].id
    <3>1. q # p
      BY <2>3 DEF Inserting, InTx
    <3>2. QED
      BY <1>1, <1>3, <2>3, <3>1 DEF Inserting
  <2>4. InsertIsAlone'
    <3> SUFFICES ASSUME NEW q \in Requests, Inserting(q)'
                 PROVE  /\ \A s \in Rows : Present(s)' => ret'[s].id # req'[q].id
                        /\ \A u \in Requests \ {q} : Inserting(u)' => req'[u].id # req'[q].id
      BY DEF InsertIsAlone
    <3>1. /\ \A s \in Rows : Present(s) => ret[s].id # req[q].id
          /\ \A u \in Requests \ {q} : Inserting(u) => req[u].id # req[q].id
      BY <2>3 DEF IdInv, InsertIsAlone
    <3>2. req[p].id # req[q].id
      BY <2>1, <2>3 DEF Inserting
    <3>3. QED
      BY <1>2, <1>3, <1>5, <2>3, <3>1, <3>2
  <2>5. QED
    BY <2>2, <2>4 DEF IdInv
<1>6. QED
  BY <1>4, <1>5

\* Every step keeps the identifiers apart.
LEMMA IdStep == IInv /\ IInv' /\ IdInv /\ [Next]_vars => IdInv'
<1> SUFFICES ASSUME IInv, IInv', IdInv, [Next]_vars PROVE IdInv'
  OBVIOUS
<1> USE DEF Goto, End
<1>0. TypeOK /\ TypeOK'
  BY DEF IInv
<1>1. CASE UNCHANGED vars
  BY <1>1 DEF vars, told, IdInv, IdIsUnique, InsertIsAlone, Inserting, Present
<1>2. CASE CancelOrder
  BY <1>2 DEF CancelOrder, IdInv, IdIsUnique, InsertIsAlone, Inserting, Present
<1>3. ASSUME NEW p \in Requests, Start(p) PROVE IdInv'
  <2>1. /\ ret' = ret /\ (\E x : req' = [req EXCEPT ![p] = x])
        /\ \E l \in {"create", "decide", "tx", "insert", "failed"} : pc' = [pc EXCEPT ![p] = l]
    BY <1>3 DEF Start, StartCreate, StartDecision, StartUpdate, StartPlatform
  <2>2. pc'[p] \notin InTx /\ \A q \in Requests \ {p} : pc'[q] = pc[q] /\ req'[q] = req[q]
    BY <1>0, <2>1 DEF TypeOK, InTx
  <2>3. QED
    BY <1>0, <2>1, <2>2, IdsLocal
<1>4. ASSUME NEW p \in Requests, CreateManual(p) PROVE IdInv'
  <2>1. /\ p \in Rows /\ ret'[p].id = NoId
        /\ \A r \in Rows \ {p} : ret'[r] = ret[r]
        /\ pc[p] = "create" /\ pc'[p] \notin InTx
        /\ \A q \in Requests \ {p} : pc'[q] = pc[q] /\ req'[q] = req[q]
    BY <1>0, <1>4 DEF CreateManual, TypeOK, Rows, InTx
  <2>2. \A r \in Rows \ {p} : Present(r)' = Present(r)
    BY <2>1 DEF Present
  <2>3. \A q \in Requests : req[q].row \in Rows
    BY <1>0 DEF TypeOK, Request
  <2>4. ASSUME NEW q \in Requests, Inserting(q)' PROVE q # p /\ Inserting(q) /\ req'[q].id = req[q].id
    <3>1. q # p /\ req'[q] = req[q] /\ pc[q] \in InTx
      BY <2>1, <2>4 DEF Inserting
    <3>2. CASE req[q].row = p
      BY <2>1, <3>1, <3>2 DEF IInv, KeyIsFree, RowIsThere
    <3>3. CASE req[q].row # p
      BY <2>2, <2>3, <2>4, <3>1, <3>3 DEF Inserting
    <3>4. QED
      BY <3>2, <3>3
  <2>5. IdIsUnique'
    BY <2>1, <2>2 DEF IdInv, IdIsUnique
  <2>6. InsertIsAlone'
    <3> SUFFICES ASSUME NEW q \in Requests, Inserting(q)'
                 PROVE  /\ \A s \in Rows : Present(s)' => ret'[s].id # req'[q].id
                        /\ \A u \in Requests \ {q} : Inserting(u)' => req'[u].id # req'[q].id
      BY DEF InsertIsAlone
    <3>1. /\ \A s \in Rows : Present(s) => ret[s].id # req[q].id
          /\ \A u \in Requests \ {q} : Inserting(u) => req[u].id # req[q].id
      BY <2>4 DEF IdInv, InsertIsAlone
    <3>2. req[q].id # NoId
      BY <2>4 DEF Inserting
    <3>3. QED
      BY <2>1, <2>2, <2>4, <3>1, <3>2
  <2>7. QED
    BY <2>5, <2>6 DEF IdInv
<1>5. ASSUME NEW p \in Requests, WriteDecision(p) PROVE IdInv'
  <2> DEFINE r0 == req[p].row
  <2>1. /\ r0 \in Rows /\ pc[p] = "decide" /\ pc'[p] \notin InTx /\ req' = req
        /\ \A q \in Requests \ {p} : pc'[q] = pc[q]
        /\ ret'[r0].id = ret[r0].id /\ ret'[r0].status = req[p].to
        /\ \A r \in Rows \ {r0} : ret'[r] = ret[r]
    BY <1>0, <1>5 DEF WriteDecision, TypeOK, Request, ReturnRow, InTx
  <2>2. ret[r0].status # Absent /\ req[p].to # Absent
    BY <2>1 DEF IInv, RowIsThere, Locals, DecidesYesOrNo, Absent
  <2>3. \A r \in Rows : Present(r)' = Present(r) /\ ret'[r].id = ret[r].id
    BY <2>1, <2>2 DEF Present
  <2>4. \A q \in Requests : req[q].row \in Rows
    BY <1>0 DEF TypeOK, Request
  <2>5. \A q \in Requests : Inserting(q)' => Inserting(q) /\ req'[q].id = req[q].id
    BY <2>1, <2>3, <2>4 DEF Inserting
  <2>6. QED
    BY <1>0, <2>3, <2>5, IdsStay
<1>6. ASSUME NEW p \in Requests, PushDecision(p) \/ MarkOrderReturned(p) \/ TxInsertRefused(p)
                                   \/ DeadlockVictim(p) \/ Crash(p)
      PROVE  IdInv'
  <2>1. /\ ret' = ret /\ pc'[p] \notin InTx
        /\ \A q \in Requests \ {p} : pc'[q] = pc[q] /\ req'[q] = req[q]
    BY <1>0, <1>6 DEF PushDecision, MarkOrderReturned, TxInsertRefused, DeadlockVictim, Crash, TypeOK, InTx
  <2>2. QED
    BY <1>0, <2>1, IdsLocal
<1>7. ASSUME NEW p \in Requests, TxUpdate(p) PROVE IdInv'
  <2>1. /\ ret' = ret /\ pc[p] = "tx" /\ pc'[p] = "fresh" /\ req'[p].row = req[p].row
        /\ \A q \in Requests \ {p} : pc'[q] = pc[q] /\ req'[q] = req[q]
    BY <1>0, <1>7 DEF TxUpdate, TypeOK, Request
  <2>2. \A r : Present(r)' = Present(r)
    BY <2>1 DEF Present
  <2>3. ~Inserting(p)'
    BY <2>1, <2>2 DEF IInv, RowIsThere, Inserting, Present
  <2>4. \A q \in Requests : Inserting(q)' => Inserting(q) /\ req'[q].id = req[q].id
    BY <2>1, <2>2, <2>3 DEF Inserting, Present
  <2>5. QED
    BY <1>0, <2>1, <2>2, <2>4, IdsStay
<1>8. ASSUME NEW p \in Requests, TxInsert(p) PROVE IdInv'
  <2>1. /\ ret' = ret /\ req' = req /\ pc[p] = "insert" /\ pc'[p] = "fresh"
        /\ \A q \in Requests \ {p} : pc'[q] = pc[q]
    BY <1>0, <1>8 DEF TxInsert, TypeOK
  <2>2. req[p].id # NoId =>
          /\ \A s \in Rows : ~(Present(s) /\ ret[s].id = req[p].id)
          /\ \A q \in Requests : ~(pc[q] \in InTx /\ ~Present(req[q].row) /\ req[q].id = req[p].id)
    BY <1>8 DEF TxInsert
  <2>3. \A q \in Requests \ {p} : Inserting(q)' = Inserting(q)
    BY <2>1 DEF Inserting, Present
  <2>4. Inserting(p)' => req[p].id # NoId
    BY <2>1 DEF Inserting
  <2>5. IdIsUnique'
    BY <2>1 DEF IdInv, IdIsUnique, Present
  <2>6. InsertIsAlone'
    <3> SUFFICES ASSUME NEW q \in Requests, Inserting(q)'
                 PROVE  /\ \A s \in Rows : Present(s)' => ret'[s].id # req'[q].id
                        /\ \A u \in Requests \ {q} : Inserting(u)' => req'[u].id # req'[q].id
      BY DEF InsertIsAlone
    <3>1. CASE q = p
      BY <2>1, <2>2, <2>3, <2>4, <3>1 DEF Inserting, Present
    <3>2. CASE q # p
      <4>1. Inserting(q)
        BY <2>3, <3>2
      <4>2. /\ \A s \in Rows : Present(s) => ret[s].id # req[q].id
            /\ \A u \in Requests \ {q} : Inserting(u) => req[u].id # req[q].id
        BY <4>1 DEF IdInv, InsertIsAlone
      <4>3. Inserting(p)' => req[p].id # req[q].id
        BY <2>2, <2>4, <4>1 DEF Inserting
      <4>4. QED
        BY <2>1, <2>3, <4>2, <4>3 DEF Present
    <3>3. QED
      BY <3>1, <3>2
  <2>7. QED
    BY <2>5, <2>6 DEF IdInv
<1>9. ASSUME NEW p \in Requests, ReadFresh(p) \/ ReadStock(p) \/ AddStock(p) PROVE IdInv'
  <2>1. /\ ret' = ret /\ pc[p] \in InTx
        /\ \A q \in Requests \ {p} : pc'[q] = pc[q] /\ req'[q] = req[q]
    BY <1>0, <1>9 DEF ReadFresh, ReadStock, AddStock, TypeOK, InTx
  <2>2. req'[p].row = req[p].row /\ req'[p].id = req[p].id
    <3>1. req[p] \in Request
      BY <1>0 DEF TypeOK
    <3>2. CASE ReadFresh(p)
      BY <3>2 DEF ReadFresh
    <3>3. CASE ReadStock(p)
      <4>1. \/ req' = req
            \/ req' = [req EXCEPT ![p] = [req[p] EXCEPT !.k = req[p].k + 1]]
            \/ \E f : req' = [req EXCEPT ![p] = [req[p] EXCEPT !.before = f]]
        BY <3>3 DEF ReadStock
      <4>2. ASSUME NEW x \in Request
            PROVE  /\ [x EXCEPT !.k = x.k + 1].row = x.row /\ [x EXCEPT !.k = x.k + 1].id = x.id
                   /\ \A f : [x EXCEPT !.before = f].row = x.row /\ [x EXCEPT !.before = f].id = x.id
        BY DEF Request
      <4>3. CASE req' = req
        BY <4>3
      <4>4. CASE req' = [req EXCEPT ![p] = [req[p] EXCEPT !.k = req[p].k + 1]]
        BY <1>0, <3>1, <4>2, <4>4 DEF TypeOK
      <4>5. ASSUME NEW f, req' = [req EXCEPT ![p] = [req[p] EXCEPT !.before = f]]
            PROVE  req'[p].row = req[p].row /\ req'[p].id = req[p].id
        BY <1>0, <3>1, <4>2, <4>5 DEF TypeOK
      <4>6. QED
        BY <4>1, <4>3, <4>4, <4>5
    <3>4. CASE AddStock(p)
      BY <1>0, <3>1, <3>4 DEF AddStock, TypeOK, Request
    <3>5. QED
      BY <1>9, <3>2, <3>3, <3>4
  <2>3. QED
    BY <1>0, <2>1, <2>2, IdsLocal
<1>10. ASSUME NEW p \in Requests, CommitRestored(p) \/ CommitKept(p) PROVE IdInv'
  <2>1. /\ pc[p] \in InTx /\ pc'[p] = "done"
        /\ \A q \in Requests \ {p} : pc'[q] = pc[q] /\ req'[q] = req[q]
    BY <1>0, <1>10 DEF CommitRestored, CommitKept, TypeOK, InTx
  <2>2. ret[req[p].row].restored \in BOOLEAN
    BY <1>0 DEF TypeOK, Request, ReturnRow
  <2>3. \E restored \in BOOLEAN : ret' = [ret EXCEPT ![req[p].row] = Written(p, restored)]
    BY <1>10, <2>2 DEF CommitRestored, CommitKept
  <2>4. QED
    BY <1>0, <2>1, <2>3, CommitKeepsIds
<1>20. QED
  <2>1. ASSUME NEW p \in Requests, Continue(p) PROVE IdInv'
    BY <1>4, <1>5, <1>6, <1>7, <1>8, <1>9, <1>10, <2>1 DEF Continue
  <2>2. QED
    BY <1>1, <1>2, <1>3, <1>6, <2>1 DEF Next, Rest

\* A marketplace's return is taken into stock through one row only: upsertFromPlatform looks
\* for it and inserts it in two statements, and the unique index keeps the second one out.
THEOREM RestockedThroughOneRow == Spec => []PlatformReturnOnce
<1>1. Init => IdInv
  <2> SUFFICES ASSUME Init PROVE IdInv
    OBVIOUS
  <2>1. \A r \in Rows : Present(r) => r \in Existing
    BY DEF Init, Present, Rows
  <2>2. \A p \in Requests : ~Inserting(p)
    BY DEF Init, Inserting, InTx
  <2>3. QED
    BY <2>1, <2>2 DEF Init, IdInv, IdIsUnique, InsertIsAlone
<1>2. IInv /\ IInv' /\ IdInv /\ [Next]_vars => IdInv'
  BY IdStep
<1>3. IInv /\ IdInv => PlatformReturnOnce
  <2> SUFFICES ASSUME IInv, IdInv PROVE PlatformReturnOnce
    OBVIOUS
  <2>1. ASSUME NEW r \in Rows, booked[r] # <<>> PROVE Present(r)
    <3>1. booked[r] \in Seq(Seq(Item))
      BY DEF IInv, TypeOK
    <3>2. Len(booked[r]) # 0
      BY <2>1, <3>1
    <3>3. QED
      BY <3>2 DEF IInv, RestockedOnce, AbsentNotRestored, Present
  <2>2. QED
    BY <2>1 DEF IdInv, IdIsUnique, PlatformReturnOnce
<1>4. QED
  BY <1>1, <1>2, <1>3, Invariant, PTL DEF Spec

----------------------------------------------------------------------------
(* The ledger: stock and movements.  Sums over the items of a list are taken up to the one *)
(* a transaction has reached.                                                               *)

\* How many of b the first n items hold.
UnitsUpTo(items, b, n) == SumFunctionOnSet(Quantities(items, b), 1..n)

\* The increments of an open transaction are those of the items it has passed.
IncrementsAreSound(p) ==
  /\ pc[p] \in {"tx", "insert", "fresh"} => req[p].k = 1 /\ \A b \in Barcodes : req[p].added[b] = 0
  /\ pc[p] \in {"readStock", "addStock"} =>
       /\ req[p].k \in 1..(Len(req[p].items) + 1)
       /\ \A b \in Barcodes : req[p].added[b] = UnitsUpTo(req[p].items, b, req[p].k - 1)

LedgerInv ==
  /\ \A p \in Requests : IncrementsAreSound(p)
  /\ IsFiniteSet(Restocked)
  /\ StockMatchesMovements

\* Quantities are naturals, one for each item.
LEMMA QuantitiesType ==
  ASSUME NEW items \in Seq(Item), NEW b
  PROVE  \A i \in 1..Len(items) : Quantities(items, b)[i] \in Nat
<1>1. \A i \in 1..Len(items) : items[i] \in Item
  OBVIOUS
<1>2. \A x \in Item : x.quantity \in Nat
  BY DEF Item
<1>3. \A i \in 1..Len(items) : items[i].quantity \in Nat
  BY <1>1, <1>2
<1>4. QED
  BY <1>3 DEF Quantities

\* Nothing is held by no items.
LEMMA UnitsUpToNone == ASSUME NEW items, NEW b PROVE UnitsUpTo(items, b, 0) = 0
<1>1. 1..0 = {}
  OBVIOUS
<1>2. QED
  BY <1>1, SumEmpty DEF UnitsUpTo

\* The next item adds its quantity to the units of its product, and nothing to others.
LEMMA UnitsUpToNext ==
  ASSUME NEW items \in Seq(Item), NEW b, NEW n \in Nat, n + 1 <= Len(items)
  PROVE  UnitsUpTo(items, b, n + 1) = UnitsUpTo(items, b, n)
           + IF items[n + 1].barcode = b THEN items[n + 1].quantity ELSE 0
<1> DEFINE f == Quantities(items, b)
<1>1. IsFiniteSet(1..(n + 1)) /\ (1..(n + 1)) \ {n + 1} = 1..n /\ n + 1 \in 1..(n + 1)
  <2>1. 1 \in Int /\ n + 1 \in Int
    OBVIOUS
  <2>2. IsFiniteSet(1..(n + 1))
    BY <2>1, FS_Interval
  <2>3. (1..(n + 1)) \ {n + 1} = 1..n /\ n + 1 \in 1..(n + 1)
    OBVIOUS
  <2>4. QED
    BY <2>2, <2>3
<1>2. \A i \in 1..(n + 1) : f[i] \in Int
  BY QuantitiesType
<1>3. f[n + 1] = IF items[n + 1].barcode = b THEN items[n + 1].quantity ELSE 0
  BY DEF Quantities
<1>4. SumFunctionOnSet(f, 1..(n + 1)) = f[n + 1] + SumFunctionOnSet(f, 1..n)
  <2> HIDE DEF f
  <2>1. SumFunctionOnSet(f, 1..(n + 1)) = f[n + 1] + SumFunctionOnSet(f, (1..(n + 1)) \ {n + 1})
    BY <1>1, <1>2, SumSplit
  <2>2. QED
    BY <1>1, <2>1
<1>5. SumFunctionOnSet(f, 1..n) \in Nat
  <2>1. 1 \in Int /\ n \in Int /\ 1..n \subseteq 1..Len(items)
    OBVIOUS
  <2>2. IsFiniteSet(1..n)
    BY <2>1, FS_Interval
  <2>3. \A i \in 1..n : f[i] \in Nat
    BY <2>1, QuantitiesType
  <2> HIDE DEF f
  <2>4. QED
    BY <2>2, <2>3, SumNat
<1>6. f[n + 1] \in Int
  BY <1>1, <1>2
<1> HIDE DEF f
<1>7. SumFunctionOnSet(f, 1..(n + 1)) = SumFunctionOnSet(f, 1..n) + f[n + 1]
  BY <1>4, <1>5, <1>6
<1>8. QED
  BY <1>3, <1>7 DEF UnitsUpTo, f

\* All items together hold what the list holds.
LEMMA UnitsUpToAll ==
  ASSUME NEW items \in Seq(Item), NEW b
  PROVE  UnitsUpTo(items, b, Len(items)) = Units(items, b)
BY DEF UnitsUpTo, Units

\* A list holds a natural number of units.
LEMMA UnitsType ==
  ASSUME NEW items \in Seq(Item), NEW b
  PROVE  Units(items, b) \in Nat
<1>1. IsFiniteSet(1..Len(items)) /\ DOMAIN items = 1..Len(items)
  BY FS_Interval
<1>2. QED
  BY <1>1, QuantitiesType, SumNat DEF Units

\* The movement of one list brings in what the list holds.
LEMMA OneMovement ==
  ASSUME NEW r, NEW items \in Seq(Item), booked'[r] = <<items>>, NEW b
  PROVE  UnitsBooked(r, b)' = Units(items, b)
<1> DEFINE f == [i \in DOMAIN booked'[r] |-> Units(booked'[r][i], b)]
<1>1. DOMAIN booked'[r] = {1} /\ f[1] = Units(items, b)
  BY DEF Units
<1>2. Units(items, b) \in Nat
  BY UnitsType
<1>3. SumFunctionOnSet(f, {1}) = f[1]
  <2>0. IsFiniteSet({1}) /\ {1} \ {1} = {}
    BY FS_Singleton
  <2>1. IsFiniteSet({1}) /\ {1} \ {1} = {} /\ \A x \in {1} : f[x] \in Int
    <3> HIDE DEF f
    <3>1. QED
      BY <1>1, <1>2, <2>0
  <2>2. f[1] \in Int
    BY <2>1
  <2> HIDE DEF f
  <2>3. SumFunctionOnSet(f, {1}) = f[1] + SumFunctionOnSet(f, {1} \ {1})
    BY <2>1, SumSplit
  <2>4. SumFunctionOnSet(f, {1} \ {1}) = 0
    BY <2>1, SumEmpty
  <2>5. QED
    BY <2>2, <2>3, <2>4
<1>4. UnitsBooked(r, b)' = SumFunctionOnSet(f, {1})
  BY <1>1 DEF UnitsBooked, Units
<1>5. QED
  BY <1>1, <1>3, <1>4

\* Movements bring in a natural number of units.
LEMMA UnitsBookedType ==
  ASSUME NEW lists \in Seq(Seq(Item)), NEW b
  PROVE  SumFunctionOnSet([i \in DOMAIN lists |-> Units(lists[i], b)], DOMAIN lists) \in Nat
<1> DEFINE f == [i \in DOMAIN lists |-> Units(lists[i], b)]
<1>1. IsFiniteSet(DOMAIN lists)
  <2>1. 1 \in Int /\ Len(lists) \in Int /\ DOMAIN lists = 1..Len(lists)
    OBVIOUS
  <2>2. QED
    BY <2>1, FS_Interval
<1>2. \A i \in DOMAIN lists : f[i] \in Nat
  <2>1. \A i \in DOMAIN lists : lists[i] \in Seq(Item)
    OBVIOUS
  <2>2. QED
    BY <2>1, UnitsType
<1>3. SumFunctionOnSet(f, DOMAIN lists) \in Nat
  <2> HIDE DEF f
  <2>1. QED
    BY <1>1, <1>2, SumNat
<1>4. QED
  BY <1>3

\* A step that books nothing keeps the ledger, where the increments stay sound.
LEMMA LedgerLocal ==
  ASSUME LedgerInv, NEW p \in Requests, booked' = booked, stock' = stock, IncrementsAreSound(p)',
         \A q \in Requests \ {p} : pc'[q] = pc[q] /\ req'[q] = req[q]
  PROVE  LedgerInv'
<1>1. \A q \in Requests \ {p} : IncrementsAreSound(q)'
  BY DEF LedgerInv, IncrementsAreSound
<1>2. Restocked' = Restocked /\ \A r, b : UnitsBooked(r, b)' = UnitsBooked(r, b)
  BY DEF Restocked, UnitsBooked
<1>3. QED
  BY <1>1, <1>2 DEF LedgerInv, StockMatchesMovements

\* The commit of a restock books what it adds to the stock.
LEMMA LedgerCommit ==
  ASSUME IInv, IInv', LedgerInv, NEW p \in Requests, CommitRestored(p)
  PROVE  LedgerInv'
<1> DEFINE r0 == req[p].row
           its == req[p].items
<1>1. /\ pc[p] = "readStock" /\ pc'[p] = "done" /\ ~AtItem(p)
      /\ \A q \in Requests \ {p} : pc'[q] = pc[q] /\ req'[q] = req[q]
      /\ stock' = [b \in Barcodes |-> stock[b] + req[p].added[b]]
      /\ booked' = [booked EXCEPT ![r0] = Append(booked[r0], its)]
  BY DEF IInv, TypeOK, CommitRestored, End, Goto, Incremented
<1>2. r0 \in Rows /\ its \in Seq(Item) /\ booked[r0] \in Seq(Seq(Item)) /\ req[p].added \in [Barcodes -> Nat]
  BY DEF IInv, TypeOK, Request
<1>3. booked[r0] = <<>>
  <2>1. Len(booked[r0]) = 0
    BY <1>1, <1>2 DEF IInv, CarriedOver, RestockedOnce
  <2>2. QED
    BY <1>2, <2>1
<1>4. booked'[r0] = <<its>> /\ \A r \in Rows \ {r0} : booked'[r] = booked[r]
  <2>1. booked'[r0] = Append(booked[r0], its) /\ \A r \in Rows \ {r0} : booked'[r] = booked[r]
    BY <1>1, <1>2 DEF IInv, TypeOK
  <2>2. Append(<<>>, its) = <<its>>
    OBVIOUS
  <2>3. QED
    BY <1>3, <2>1, <2>2
<1>5. Restocked' = Restocked \cup {r0} /\ r0 \notin Restocked
  <2>1. <<its>> # <<>>
    OBVIOUS
  <2>2. QED
    BY <1>2, <1>3, <1>4, <2>1 DEF Restocked
<1>6. IsFiniteSet(Restocked) /\ IsFiniteSet(Restocked') /\ Restocked' \ {r0} = Restocked
  BY <1>5, FS_AddElement DEF LedgerInv
<1>7. \A b \in Barcodes : req[p].added[b] = Units(its, b)
  <2>1. req[p].k = Len(its) + 1
    BY <1>1, <1>2 DEF LedgerInv, IncrementsAreSound, AtItem
  <2>2. \A b \in Barcodes : req[p].added[b] = UnitsUpTo(its, b, req[p].k - 1)
    BY <1>1 DEF LedgerInv, IncrementsAreSound
  <2>3. Len(its) \in Nat
    BY <1>2
  <2>4. req[p].k - 1 = Len(its)
    BY <2>1, <2>3
  <2>5. QED
    BY <1>2, <2>2, <2>4, UnitsUpToAll
<1>8. ASSUME NEW b \in Barcodes
      PROVE  stock'[b] = SumFunctionOnSet([r \in Restocked |-> UnitsBooked(r, b)], Restocked)'
  <2> DEFINE f == [r \in Restocked |-> UnitsBooked(r, b)]
             g == [r \in Restocked' |-> UnitsBooked(r, b)']
  <2>1. \A r \in Restocked : UnitsBooked(r, b)' = UnitsBooked(r, b)
    BY <1>4, <1>5 DEF Restocked, UnitsBooked
  <2>2. g[r0] = Units(its, b)
    <3>1. ASSUME NEW r, r = r0 PROVE UnitsBooked(r, b)' = Units(its, b)
      BY <1>2, <1>4, <3>1, OneMovement
    <3>2. r0 \in Restocked'
      BY <1>5
    <3>3. QED
      BY <3>1, <3>2
  <2>3. \A r \in Restocked' : g[r] \in Int
    <3>1. ASSUME NEW r \in Restocked' PROVE UnitsBooked(r, b)' \in Nat
      <4>1. booked'[r] \in Seq(Seq(Item))
        BY <3>1 DEF IInv, TypeOK, Restocked
      <4>2. QED
        BY <4>1, UnitsBookedType DEF UnitsBooked, Units
    <3>2. QED
      BY <3>1
  <2>4. r0 \in Restocked' /\ g[r0] = Units(its, b) /\ \A r \in Restocked : f[r] = g[r] /\ f[r] \in Int
    <3>1. r0 \in Restocked' /\ \A r \in Restocked : r \in Restocked'
      BY <1>5
    <3>2. \A r \in Restocked : f[r] = g[r]
      BY <2>1, <3>1
    <3> HIDE DEF f, g
    <3>3. QED
      BY <2>2, <2>3, <3>1, <3>2
  <2> HIDE DEF f, g
  <2>5. SumFunctionOnSet(g, Restocked') = g[r0] + SumFunctionOnSet(g, Restocked)
    <3>1. SumFunctionOnSet(g, Restocked') = g[r0] + SumFunctionOnSet(g, Restocked' \ {r0})
      BY <1>6, <2>3, <2>4, SumSplit
    <3>2. QED
      BY <1>6, <3>1
  <2>6. SumFunctionOnSet(f, Restocked) = SumFunctionOnSet(g, Restocked)
    BY <1>6, <2>4, SumSame
  <2>7. SumFunctionOnSet(f, Restocked) \in Int /\ Units(its, b) \in Nat
    BY <1>2, <1>6, <2>4, SumInt, UnitsType
  <2>8. stock[b] = SumFunctionOnSet(f, Restocked)
    BY DEF f, LedgerInv, StockMatchesMovements
  <2>9. stock'[b] = stock[b] + Units(its, b)
    BY <1>1, <1>7
  <2>10. stock'[b] = SumFunctionOnSet(g, Restocked')
    BY <2>4, <2>5, <2>6, <2>7, <2>8, <2>9
  <2>11. QED
    BY <2>10 DEF g
<1>9. \A q \in Requests : IncrementsAreSound(q)'
  BY <1>1 DEF LedgerInv, IncrementsAreSound
<1>10. QED
  BY <1>6, <1>8, <1>9 DEF LedgerInv, StockMatchesMovements

\* Every step keeps the ledger.
LEMMA LedgerStep == IInv /\ IInv' /\ LedgerInv /\ [Next]_vars => LedgerInv'
<1> SUFFICES ASSUME IInv, IInv', LedgerInv, [Next]_vars PROVE LedgerInv'
  OBVIOUS
<1> USE DEF Goto, End
<1>0. TypeOK /\ \A p \in Requests : req[p] \in Request /\ IncrementsAreSound(p)
  BY DEF IInv, TypeOK, LedgerInv
<1>1. CASE UNCHANGED <<stock, booked, pc, req>>
  BY <1>1 DEF LedgerInv, IncrementsAreSound, Restocked, StockMatchesMovements, UnitsBooked
<1>2. ASSUME NEW p \in Requests, Start(p) PROVE LedgerInv'
  <2>1. /\ booked' = booked /\ stock' = stock
        /\ \/ \E l \in {"create", "decide", "failed"} : pc' = [pc EXCEPT ![p] = l]
           \/ /\ \E l \in {"tx", "insert"} : pc' = [pc EXCEPT ![p] = l]
              /\ req'[p].k = 1 /\ req'[p].added = [b \in Barcodes |-> 0]
    <3>1. CASE \E r \in Rows : \E s \in Targets : StartUpdate(p, r, s)
      <4>1. PICK r \in Rows, s \in Targets : StartUpdate(p, r, s)
        BY <3>1
      <4>2. req'[p] = [NoReq(p) EXCEPT !.op = "update", !.row = r, !.to = s, !.prev = ret[r].status,
                                       !.id = ret[r].id]
        BY <1>0, <4>1 DEF StartUpdate, TypeOK
      <4>3. req'[p].k = 1 /\ req'[p].added = [b \in Barcodes |-> 0]
        BY <4>2 DEF NoReq
      <4>4. QED
        BY <4>1, <4>3 DEF StartUpdate
    <3>2. CASE \E m \in Reports : StartPlatform(p, m)
      <4>1. PICK m \in Reports : StartPlatform(p, m)
        BY <3>2
      <4>2. \/ \E r \in Matches(m) :
                  req'[p] = [NoReq(p) EXCEPT !.op = "platform", !.row = r,
                       !.to = mapPlatformReturnStatus(m.status), !.id = m.id,
                       !.prev = ret[r].status, !.items = m.items]
            \/ req'[p] = [NoReq(p) EXCEPT !.op = "platform",
                     !.to = mapPlatformReturnStatus(m.status), !.id = m.id, !.items = m.items]
        BY <1>0, <4>1 DEF StartPlatform, TypeOK
      <4>3. req'[p].k = 1 /\ req'[p].added = [b \in Barcodes |-> 0]
        BY <4>2 DEF NoReq
      <4>4. QED
        BY <4>1, <4>3 DEF StartPlatform
    <3>3. CASE \/ \E its \in ItemLists : StartCreate(p, its)
               \/ \E r \in Rows : \E s \in {"APPROVED", "REJECTED"} : StartDecision(p, r, s)
      BY <3>3 DEF StartCreate, StartDecision
    <3>4. QED
      BY <1>2, <3>1, <3>2, <3>3 DEF Start
  <2>2. \A q \in Requests \ {p} : pc'[q] = pc[q] /\ req'[q] = req[q]
    <3>1. (\E x : req' = [req EXCEPT ![p] = x]) /\ \E l : pc' = [pc EXCEPT ![p] = l]
      BY <1>2 DEF Start, StartCreate, StartDecision, StartUpdate, StartPlatform
    <3>2. QED
      BY <1>0, <3>1 DEF TypeOK
  <2>3. IncrementsAreSound(p)'
    BY <1>0, <2>1 DEF IncrementsAreSound, TypeOK
  <2>4. QED
    BY <2>1, <2>2, <2>3, LedgerLocal
<1>3. ASSUME NEW p \in Requests, CreateManual(p) \/ MarkOrderReturned(p) \/ WriteDecision(p)
                                   \/ PushDecision(p) \/ TxInsertRefused(p) \/ CommitKept(p)
                                   \/ DeadlockVictim(p) \/ Crash(p)
      PROVE  LedgerInv'
  <2>1. /\ booked' = booked /\ stock' = stock
        /\ pc'[p] \notin {"tx", "insert", "fresh", "readStock", "addStock"}
        /\ \A q \in Requests \ {p} : pc'[q] = pc[q] /\ req'[q] = req[q]
    BY <1>0, <1>3 DEF CreateManual, MarkOrderReturned, WriteDecision, PushDecision, TxInsertRefused,
                      CommitKept, DeadlockVictim, Crash, TypeOK
  <2>2. IncrementsAreSound(p)'
    BY <2>1 DEF IncrementsAreSound
  <2>3. QED
    BY <2>1, <2>2, LedgerLocal
<1>4. ASSUME NEW p \in Requests, TxUpdate(p) \/ TxInsert(p) PROVE LedgerInv'
  <2>1. /\ booked' = booked /\ stock' = stock /\ pc[p] \in {"tx", "insert"} /\ pc'[p] = "fresh"
        /\ \A q \in Requests \ {p} : pc'[q] = pc[q] /\ req'[q] = req[q]
        /\ req'[p].k = req[p].k /\ req'[p].added = req[p].added
    BY <1>0, <1>4 DEF TxUpdate, TxInsert, TypeOK, Request
  <2>2. IncrementsAreSound(p)'
    BY <1>0, <2>1 DEF IncrementsAreSound
  <2>3. QED
    BY <2>1, <2>2, LedgerLocal
<1>5. ASSUME NEW p \in Requests, ReadFresh(p) PROVE LedgerInv'
  <2>1. /\ booked' = booked /\ stock' = stock /\ pc[p] = "fresh" /\ pc'[p] \in {"readStock", "keep"}
        /\ \A q \in Requests \ {p} : pc'[q] = pc[q]
        /\ req' = req
    BY <1>0, <1>5 DEF ReadFresh, TypeOK
  <2>2. req[p].k = 1 /\ (\A b \in Barcodes : req[p].added[b] = 0) /\ Len(req[p].items) \in Nat
    BY <1>0, <2>1 DEF IncrementsAreSound, Request
  <2>3. \A b : UnitsUpTo(req[p].items, b, req[p].k - 1) = 0
    BY <2>2, UnitsUpToNone
  <2>4. IncrementsAreSound(p)'
    BY <2>1, <2>2, <2>3 DEF IncrementsAreSound
  <2>5. QED
    BY <2>1, <2>4, LedgerLocal
<1>6. ASSUME NEW p \in Requests, ReadStock(p) PROVE LedgerInv'
  <2> DEFINE its == req[p].items
             k == req[p].k
  <2>0. its \in Seq(Item) /\ k \in Nat \ {0} /\ pc[p] = "readStock" /\ k \in 1..Len(its)
        /\ \A b \in Barcodes : req[p].added[b] = UnitsUpTo(its, b, k - 1)
    BY <1>0, <1>6 DEF ReadStock, Request, AtItem, IncrementsAreSound
  <2>1. /\ booked' = booked /\ stock' = stock
        /\ \A q \in Requests \ {p} : pc'[q] = pc[q] /\ req'[q] = req[q]
    BY <1>0, <1>6 DEF ReadStock, TypeOK
  <2>2. CASE ItemOf(p).quantity = 0
    <3>1. pc'[p] = "readStock" /\ req'[p] = [req[p] EXCEPT !.k = k + 1]
      BY <1>0, <1>6, <2>0, <2>2 DEF ReadStock, TypeOK
    <3>2. req'[p].k = k + 1 /\ req'[p].items = its /\ req'[p].added = req[p].added
      BY <1>0, <3>1 DEF Request
    <3>3. ASSUME NEW b \in Barcodes PROVE req[p].added[b] = UnitsUpTo(its, b, k)
      <4>1. UnitsUpTo(its, b, (k - 1) + 1) = UnitsUpTo(its, b, k - 1)
               + IF its[(k - 1) + 1].barcode = b THEN its[(k - 1) + 1].quantity ELSE 0
        BY <2>0, UnitsUpToNext
      <4>2. (k - 1) + 1 = k /\ its[k].quantity = 0
        BY <2>0, <2>2 DEF ItemOf
      <4>3. req[p].added[b] \in Nat
        BY <1>0 DEF Request
      <4>4. UnitsUpTo(its, b, k) = UnitsUpTo(its, b, k - 1) + 0
        BY <4>1, <4>2
      <4>5. QED
        BY <2>0, <4>3, <4>4
    <3>4. IncrementsAreSound(p)'
      <4>1. k + 1 \in 1..(Len(its) + 1) /\ (k + 1) - 1 = k
        BY <2>0
      <4>2. QED
        BY <3>1, <3>2, <3>3, <4>1 DEF IncrementsAreSound
    <3>5. QED
      BY <2>1, <3>4, LedgerLocal
  <2>3. CASE ItemOf(p).quantity # 0
    <3>1. pc'[p] = "addStock" /\ (req' = req \/ \E f : req' = [req EXCEPT ![p] = [req[p] EXCEPT !.before = f]])
      BY <1>0, <1>6, <2>0, <2>3 DEF ReadStock, TypeOK
    <3>2. req'[p].k = k /\ req'[p].items = its /\ req'[p].added = req[p].added
      <4>1. CASE req' = req
        BY <4>1
      <4>2. ASSUME NEW f, req' = [req EXCEPT ![p] = [req[p] EXCEPT !.before = f]]
            PROVE  req'[p].k = k /\ req'[p].items = its /\ req'[p].added = req[p].added
        <5>1. req'[p] = [req[p] EXCEPT !.before = f]
          BY <1>0, <4>2 DEF TypeOK
        <5>2. QED
          BY <1>0, <5>1 DEF Request
      <4>3. QED
        BY <3>1, <4>1, <4>2
    <3>3. IncrementsAreSound(p)'
      BY <2>0, <3>1, <3>2 DEF IncrementsAreSound
    <3>4. QED
      BY <2>1, <3>3, LedgerLocal
  <2>4. QED
    BY <2>2, <2>3
<1>7. ASSUME NEW p \in Requests, AddStock(p) PROVE LedgerInv'
  <2> DEFINE its == req[p].items
             k == req[p].k
             c == ItemOf(p).barcode
  <2>0. /\ its \in Seq(Item) /\ k \in Nat \ {0} /\ pc[p] = "addStock" /\ k \in 1..Len(its)
        /\ \A b \in Barcodes : req[p].added[b] = UnitsUpTo(its, b, k - 1)
        /\ req[p].added \in [Barcodes -> Nat]
    BY <1>0, <1>7 DEF AddStock, Request, AtItem, IncrementsAreSound, IInv, Locals, AtAnItem
  <2>1. /\ booked' = booked /\ stock' = stock /\ pc'[p] = "readStock"
        /\ \A q \in Requests \ {p} : pc'[q] = pc[q] /\ req'[q] = req[q]
        /\ req'[p].k = k + 1 /\ req'[p].items = its
        /\ req'[p].added = [req[p].added EXCEPT ![c] = req[p].added[c] + ItemOf(p).quantity]
    BY <1>0, <1>7 DEF AddStock, TypeOK, Request
  <2>2. its[k].quantity \in Nat /\ ItemOf(p) = its[k]
    <3>1. ItemOf(p) \in Item
      BY <1>0, <2>0, ItemType DEF IInv, Locals, AtAnItem
    <3>2. QED
      BY <3>1 DEF Item, ItemOf
  <2>3. ASSUME NEW b \in Barcodes PROVE req'[p].added[b] = UnitsUpTo(its, b, k)
    <3>1. UnitsUpTo(its, b, (k - 1) + 1) = UnitsUpTo(its, b, k - 1)
             + IF its[(k - 1) + 1].barcode = b THEN its[(k - 1) + 1].quantity ELSE 0
      <4>1. k - 1 \in Nat /\ (k - 1) + 1 <= Len(its)
        BY <2>0
      <4> HIDE DEF its, k
      <4>2. QED
        BY <2>0, <4>1, UnitsUpToNext
    <3>2. (k - 1) + 1 = k
      BY <2>0
    <3>3. UnitsUpTo(its, b, k) = UnitsUpTo(its, b, k - 1) + IF its[k].barcode = b THEN its[k].quantity ELSE 0
      BY <3>1, <3>2
    <3>4. req'[p].added[b] = IF b = its[k].barcode THEN req[p].added[b] + its[k].quantity ELSE req[p].added[b]
      BY <2>0, <2>1, <2>2
    <3>5. req[p].added[b] = UnitsUpTo(its, b, k - 1) /\ req[p].added[b] \in Nat
      BY <2>0
    <3>6. QED
      BY <2>2, <3>3, <3>4, <3>5
  <2>4. IncrementsAreSound(p)'
    <3>1. k + 1 \in 1..(Len(its) + 1) /\ (k + 1) - 1 = k
      BY <2>0
    <3>2. QED
      BY <2>1, <2>3, <3>1 DEF IncrementsAreSound
  <2>5. QED
    BY <2>1, <2>4, LedgerLocal
<1>20. QED
  <2>1. ASSUME NEW p \in Requests, Continue(p) PROVE LedgerInv'
    BY <1>3, <1>4, <1>5, <1>6, <1>7, <2>1, LedgerCommit DEF Continue
  <2>2. QED
    BY <1>1, <1>2, <1>3, <2>1 DEF Next, Rest, CancelOrder, vars, told

\* The stock is what the movements say: no concurrent restock of the same product is lost,
\* as the quantities are added in the database and not written back.
THEOREM NoRestockLost == Spec => []StockMatchesMovements
<1>1. Init => LedgerInv
  <2> SUFFICES ASSUME Init PROVE LedgerInv
    OBVIOUS
  <2>1. Restocked = {}
    BY DEF Init, Restocked
  <2>2. \A p \in Requests : IncrementsAreSound(p)
    BY DEF Init, IncrementsAreSound
  <2>3. StockMatchesMovements
    BY <2>1, SumEmpty DEF Init, StockMatchesMovements
  <2>4. QED
    BY <2>1, <2>2, <2>3, FS_EmptySet DEF LedgerInv
<1>2. IInv /\ IInv' /\ LedgerInv /\ [Next]_vars => LedgerInv'
  BY LedgerStep
<1>3. LedgerInv => StockMatchesMovements
  BY DEF LedgerInv
<1>4. QED
  BY <1>1, <1>2, <1>3, Invariant, PTL DEF Spec
=============================================================================
