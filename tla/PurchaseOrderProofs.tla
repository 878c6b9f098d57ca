------------------------ MODULE PurchaseOrderProofs ------------------------
(* Proofs about PurchaseOrder, for every set of requests, orders and deliveries. *)
EXTENDS PurchaseOrder, SumTheorems, TLAPS

\* Awaits of receiveItems after the lines have been read.
Counting == InTx \ {"fresh"}

\* What p's open transaction has added to its copy of line l so far.
Counted(p, l) ==
  req[p].add[l] + IF pc[p] \in {"readStock", "writeStock"} /\ l = LineOf(p) THEN QtyOf(p) ELSE 0

\* The status changes: only a cancellation may concern an order sendPO never released.
ChangeIsSound(p) ==
  /\ pc[p] = "mail" => req[p].to = "SENT" /\ req[p].order \in Orders
  /\ pc[p] = "write" => /\ req[p].to \in {"SENT", "CONFIRMED", "CANCELLED"}
                        /\ req[p].to # "CANCELLED" => req[p].order \in released

\* A receipt concerns an order that was released, and lines of that order.
ReceiptIsSound(p) ==
  /\ pc[p] \in InTx =>
       /\ req[p].order \in released
       /\ \A i \in DOMAIN req[p].items : OrderOf[req[p].items[i].line] = req[p].order
       /\ \A l \in Lines : req[p].add[l] > 0 => OrderOf[l] = req[p].order
  /\ pc[p] = "fresh" => req[p].add = Nothing
  /\ pc[p] \in {"readStock", "writeStock"} => AtItem(p)

\* A copy of a line counts what the transaction adds, at most what was ordered, and at most
\* what will have been booked when the transaction commits.
CopyIsSound(p) ==
  pc[p] \in Counting => \A l \in Lines :
    /\ req[p].line[l] >= Counted(p, l)
    /\ req[p].line[l] <= Ordered[l]
    /\ req[p].line[l] <= booked[l] + Counted(p, l)

\* A transaction about to complete an order will have booked all of it.
StatusIsSound(p) ==
  pc[p] = "commit" =>
    /\ req[p].to \in {"RECEIVED", "PARTIALLY_RECEIVED"}
    /\ req[p].to = "RECEIVED" =>
         \A l \in LinesOf(req[p].order) : booked[l] + req[p].add[l] >= Ordered[l]

Sound(p) == ChangeIsSound(p) /\ ReceiptIsSound(p) /\ CopyIsSound(p) /\ StatusIsSound(p)

\* No line counts more than was ordered or than was booked.
LinesAreCovered == \A l \in Lines : received[l] <= Ordered[l] /\ received[l] <= booked[l]

\* An order past DRAFT was released, unless it is cancelled.
StatusWasReleased == \A o \in Orders : po[o] \notin {"DRAFT", "CANCELLED"} => o \in released

IInv ==
  /\ TypeOK
  /\ \A p \in Requests : Sound(p)
  /\ LinesAreCovered
  /\ StatusWasReleased
  /\ GoodsWereOrdered
  /\ ReceivedIsComplete

----------------------------------------------------------------------------
\* The locals a request starts and ends with are well typed.
LEMMA NoReqType == NoReq \in Request
BY DEF NoReq, Request, Nothing

\* A request stands at a receipt for a line, of a positive quantity.
LEMMA ReceiptType ==
  ASSUME TypeOK, NEW p \in Requests, AtItem(p)
  PROVE  LineOf(p) \in Lines /\ QtyOf(p) \in Nat \ {0} /\ BarcodeOf[LineOf(p)] \in Barcodes
<1>1. req[p].items[req[p].k] \in Receipt
  BY DEF TypeOK, AtItem, Request
<1>2. QED
  BY <1>1, PurchaseAssumption DEF Receipt, LineOf, QtyOf, Barcodes, Range

\* The types hold at the start.
LEMMA TypeInit == Init => TypeOK
BY NoReqType DEF Init, TypeOK, POStatus, Nothing

\* Every step keeps the types.
LEMMA TypeStep == TypeOK /\ (\A p \in Requests : Sound(p)) /\ [Next]_vars => TypeOK'
<1> SUFFICES ASSUME TypeOK, \A p \in Requests : Sound(p), [Next]_vars PROVE TypeOK'
  OBVIOUS
<1> USE DEF Goto, End, InTx, Ended
<1>1. CASE UNCHANGED vars
  BY <1>1 DEF vars, TypeOK
<1>2. ASSUME NEW p \in Requests, NEW o \in Orders, StartSend(p, o) \/ StartConfirm(p, o) \/ StartCancel(p, o)
      PROVE  TypeOK'
  <2>1. ASSUME NEW s \in POStatus PROVE [NoReq EXCEPT !.order = o, !.to = s] \in Request
    BY NoReqType DEF Request
  <2>2. req' \in [Requests -> Request]
    BY <1>2, <2>1, NoReqType DEF StartSend, StartConfirm, StartCancel, Change, TypeOK, POStatus
  <2>3. QED
    BY <1>2, <2>2 DEF StartSend, StartConfirm, StartCancel, Change, TypeOK
<1>3. ASSUME NEW p \in Requests, NEW d \in Deliveries, StartReceive(p, d) PROVE TypeOK'
  <2>1. d.order \in Orders /\ d.items \in Seq(Receipt)
    BY PurchaseAssumption
  <2>2. [NoReq EXCEPT !.order = d.order, !.items = d.items] \in Request
    BY <2>1, NoReqType DEF Request
  <2>3. QED
    BY <1>3, <2>2, NoReqType DEF StartReceive, TypeOK
<1>4. ASSUME NEW p \in Requests, SendMail(p) PROVE TypeOK'
  BY <1>4 DEF SendMail, TypeOK, Sound, ChangeIsSound
<1>5. ASSUME NEW p \in Requests, WriteStatus(p) PROVE TypeOK'
  <2>1. req[p].to \in POStatus
    BY <1>5 DEF WriteStatus, Sound, ChangeIsSound, POStatus
  <2>2. QED
    BY <1>5, <2>1, NoReqType DEF WriteStatus, TypeOK
<1>6. ASSUME NEW p \in Requests, ReadFresh(p) PROVE TypeOK'
  <2>1. [req[p] EXCEPT !.line = received] \in Request
    BY DEF TypeOK, Request
  <2>2. QED
    BY <1>6, <2>1 DEF ReadFresh, TypeOK
<1>7. ASSUME NEW p \in Requests, UpdateLine(p) PROVE TypeOK'
  <2>1. LineOf(p) \in Lines /\ QtyOf(p) \in Nat
    BY <1>7, ReceiptType DEF UpdateLine
  <2>2. ASSUME NEW l \in Lines, NEW n \in Nat
        PROVE  [req[p] EXCEPT !.line = [req[p].line EXCEPT ![l] = req[p].line[l] + n]] \in Request
    <3>1. [req[p].line EXCEPT ![l] = req[p].line[l] + n] \in [Lines -> Nat]
      BY DEF TypeOK, Request
    <3>2. req[p] \in Request
      BY DEF TypeOK
    <3>3. QED
      BY <3>1, <3>2 DEF Request
  <2>3. req' \in [Requests -> Request]
    BY <1>7, <2>1, <2>2 DEF UpdateLine, TypeOK
  <2>4. QED
    BY <1>7, <2>3 DEF UpdateLine, TypeOK
<1>8. ASSUME NEW p \in Requests, ReadStock(p) PROVE TypeOK'
  <2>1. AtItem(p)
    BY <1>8 DEF ReadStock, Sound, ReceiptIsSound
  <2> DEFINE b == BarcodeOf[LineOf(p)]
             n == IF b \in LockedStock(p) THEN req[p].held[b] ELSE stock[b]
  <2>2. n \in Nat
    BY <2>1, ReceiptType DEF TypeOK, Request
  <2>3. [req[p] EXCEPT !.before = n] \in Request
    <3>1. req[p] \in Request
      BY DEF TypeOK
    <3>2. ASSUME NEW m \in Nat PROVE [req[p] EXCEPT !.before = m] \in Request
      BY <3>1 DEF Request
    <3>3. QED
      BY <2>2, <3>2
  <2>4. QED
    BY <1>8, <2>3 DEF ReadStock, TypeOK
<1>9. ASSUME NEW p \in Requests, WriteStock(p) PROVE TypeOK'
  <2>1. AtItem(p)
    BY <1>9 DEF WriteStock, Sound, ReceiptIsSound
  <2>2. LineOf(p) \in Lines /\ QtyOf(p) \in Nat /\ BarcodeOf[LineOf(p)] \in Barcodes
    BY <2>1, ReceiptType
  <2>3. req[p] \in Request
    BY DEF TypeOK
  <2>4. req[p].before + QtyOf(p) \in Nat /\ req[p].k + 1 \in Nat \ {0}
        /\ req[p].add[LineOf(p)] + QtyOf(p) \in Nat
    BY <2>2, <2>3 DEF Request
  <2>5. ASSUME NEW x \in Request, NEW l \in Lines, NEW b \in Barcodes, NEW h \in Nat, NEW a \in Nat,
               NEW k \in Nat \ {0}
        PROVE  [x EXCEPT !.held = [x.held EXCEPT ![b] = h], !.add = [x.add EXCEPT ![l] = a],
                         !.k = k] \in Request
    <3>1. [x.held EXCEPT ![b] = h] \in [Barcodes -> Nat] /\ [x.add EXCEPT ![l] = a] \in [Lines -> Nat]
      BY DEF Request
    <3>2. QED
      BY <3>1 DEF Request
  <2>6. req' = [req EXCEPT ![p] = [req[p] EXCEPT
                  !.held = [req[p].held EXCEPT ![BarcodeOf[LineOf(p)]] = req[p].before + QtyOf(p)],
                  !.add = [req[p].add EXCEPT ![LineOf(p)] = req[p].add[LineOf(p)] + QtyOf(p)],
                  !.k = req[p].k + 1]]
    BY <1>9 DEF WriteStock, TypeOK
  <2>7. req' \in [Requests -> Request]
    BY <2>2, <2>3, <2>4, <2>5, <2>6 DEF TypeOK
  <2>8. QED
    BY <1>9, <2>7 DEF WriteStock, TypeOK
<1>10. ASSUME NEW p \in Requests, ReadLines(p) PROVE TypeOK'
  <2>1. ASSUME NEW s \in POStatus PROVE [req[p] EXCEPT !.to = s] \in Request
    BY DEF TypeOK, Request
  <2>2. QED
    BY <1>10, <2>1 DEF ReadLines, TypeOK, POStatus
<1>11. ASSUME NEW p \in Requests, Commit(p) PROVE TypeOK'
  <2>1. req[p] \in Request /\ LockedStock(p) \subseteq Barcodes
    BY DEF TypeOK, LockedStock
  <2>2. req[p].to \in POStatus
    BY <1>11 DEF Commit, Sound, StatusIsSound, POStatus
  <2>3. [NoReq EXCEPT !.todo = LockedStock(p)] \in Request
    BY <2>1, NoReqType DEF Request
  <2>4. received' \in [Lines -> Nat] /\ booked' \in [Lines -> Nat] /\ stock' \in [Barcodes -> Nat]
    BY <1>11, <2>1 DEF Commit, Seen, TypeOK, Request
  <2>5. po' \in [Orders -> POStatus] /\ req' \in [Requests -> Request]
    BY <1>11, <2>2, <2>3 DEF Commit, TypeOK
  <2>6. QED
    BY <1>11, <2>4, <2>5 DEF Commit, TypeOK
<1>12. ASSUME NEW p \in Requests, NEW b \in Barcodes, PushStock(p, b) PROVE TypeOK'
  <2>1. [req[p] EXCEPT !.todo = req[p].todo \ {b}] \in Request
    BY DEF TypeOK, Request
  <2>2. req' \in [Requests -> Request]
    BY <1>12, <2>1, NoReqType DEF PushStock, TypeOK
  <2>3. QED
    BY <1>12, <2>2 DEF PushStock, TypeOK
<1>13. ASSUME NEW p \in Requests, RefuseReceipt(p) \/ DeadlockVictim(p) \/ Crash(p) PROVE TypeOK'
  BY <1>13, NoReqType DEF RefuseReceipt, DeadlockVictim, Crash, TypeOK
<1>20. QED
  BY <1>1, <1>2, <1>3, <1>4, <1>5, <1>6, <1>7, <1>8, <1>9, <1>10, <1>11, <1>12, <1>13
     DEF Next, Start, Continue, Rest

----------------------------------------------------------------------------
\* The part of the invariant beyond the types.
Beyond ==
  /\ \A p \in Requests : Sound(p)
  /\ LinesAreCovered
  /\ StatusWasReleased
  /\ GoodsWereOrdered
  /\ ReceivedIsComplete

\* The invariant holds at the start.
LEMMA InvInit == Init => IInv
<1> SUFFICES ASSUME Init PROVE Beyond
  BY TypeInit DEF IInv, Beyond
<1>1. \A p \in Requests : Sound(p)
  BY DEF Init, Sound, ChangeIsSound, ReceiptIsSound, CopyIsSound, StatusIsSound, InTx, Counting
<1>2. LinesAreCovered /\ GoodsWereOrdered
  BY PurchaseAssumption DEF Init, LinesAreCovered, GoodsWereOrdered, Nothing
<1>3. StatusWasReleased /\ ReceivedIsComplete
  BY DEF Init, StatusWasReleased, ReceivedIsComplete
<1>4. QED
  BY <1>1, <1>2, <1>3 DEF Beyond

\* What is sound about a request stays so while others run: bookings and releases only grow.
LEMMA OthersStaySound ==
  ASSUME TypeOK, TypeOK', NEW p \in Requests, Sound(p), pc'[p] = pc[p], req'[p] = req[p],
         released \subseteq released', \A l \in Lines : booked'[l] >= booked[l]
  PROVE  Sound(p)'
<1>1. ChangeIsSound(p)' /\ ReceiptIsSound(p)'
  BY DEF Sound, ChangeIsSound, ReceiptIsSound, AtItem
<1>2. \A l \in Lines : Counted(p, l)' = Counted(p, l)
  BY DEF Counted, LineOf, QtyOf
<1>3. req[p].line \in [Lines -> Nat] /\ req[p].add \in [Lines -> Nat] /\ booked \in [Lines -> Nat]
        /\ booked' \in [Lines -> Nat]
  BY DEF TypeOK, Request
<1>4. CopyIsSound(p)'
  <2> SUFFICES ASSUME pc[p] \in Counting, NEW l \in Lines
               PROVE  /\ req[p].line[l] >= Counted(p, l)
                      /\ req[p].line[l] <= Ordered[l]
                      /\ req[p].line[l] <= booked'[l] + Counted(p, l)
    BY <1>2 DEF CopyIsSound
  <2>1. Counted(p, l) \in Nat
    <3>1. CASE pc[p] \in {"readStock", "writeStock"}
      <4>1. QtyOf(p) \in Nat
        BY <3>1, ReceiptType DEF Sound, ReceiptIsSound
      <4>2. QED
        BY <1>3, <3>1, <4>1 DEF Counted
    <3>2. CASE pc[p] \notin {"readStock", "writeStock"}
      BY <1>3, <3>2 DEF Counted
    <3>3. QED
      BY <3>1, <3>2
  <2>2. QED
    BY <1>3, <2>1, PurchaseAssumption DEF Sound, CopyIsSound
<1>5. StatusIsSound(p)'
  BY <1>3, PurchaseAssumption DEF Sound, StatusIsSound, LinesOf
<1>6. QED
  BY <1>1, <1>4, <1>5 DEF Sound

\* A request that starts, ends or rests is sound.
LEMMA IdleIsSound ==
  ASSUME NEW p \in Requests, pc'[p] \notin {"mail", "write"} \cup InTx
  PROVE  Sound(p)'
BY DEF Sound, ChangeIsSound, ReceiptIsSound, CopyIsSound, StatusIsSound, Counting, InTx

\* A step of one request that writes no table keeps the invariant when that request stays sound.
LEMMA LocalStep ==
  ASSUME IInv, TypeOK', NEW p \in Requests, Sound(p)',
         \A q \in Requests \ {p} : pc'[q] = pc[q] /\ req'[q] = req[q],
         po' = po, received' = received, booked' = booked, released' = released
  PROVE  Beyond'
<1>1. \A l \in Lines : booked'[l] >= booked[l]
  BY DEF IInv, TypeOK
<1>2. ASSUME NEW q \in Requests PROVE Sound(q)'
  BY <1>1, OthersStaySound DEF IInv
<1>3. QED
  BY <1>2 DEF IInv, Beyond, LinesAreCovered, StatusWasReleased, GoodsWereOrdered, ReceivedIsComplete

\* Every step keeps the invariant beyond the types.
LEMMA InvStep == IInv /\ TypeOK' /\ [Next]_vars => Beyond'
<1> SUFFICES ASSUME IInv, TypeOK', [Next]_vars PROVE Beyond'
  OBVIOUS
<1> USE DEF Goto, End
<1>0. TypeOK /\ \A p \in Requests : Sound(p)
  BY DEF IInv
<1>1. CASE UNCHANGED vars
  BY <1>1 DEF vars, IInv, Beyond, Sound, ChangeIsSound, ReceiptIsSound, CopyIsSound, StatusIsSound,
    AtItem, Counted, LineOf, QtyOf, LinesAreCovered, StatusWasReleased, GoodsWereOrdered, ReceivedIsComplete
<1>2. ASSUME NEW p \in Requests, NEW o \in Orders, StartSend(p, o) \/ StartConfirm(p, o) \/ StartCancel(p, o)
      PROVE  Beyond'
  <2>1. /\ pc'[p] \in {"mail", "write", "failed"} /\ UNCHANGED <<po, received, booked, released>>
        /\ pc'[p] # "failed" => req'[p].order = o /\ req'[p].to \in {"SENT", "CONFIRMED", "CANCELLED"}
        /\ pc'[p] = "mail" => req'[p].to = "SENT"
        /\ pc'[p] = "write" /\ req'[p].to # "CANCELLED" => po[o] = "SENT"
    <3>1. ASSUME NEW s, NEW at, Change(p, o, s, at)
          PROVE  pc'[p] = at /\ req'[p].order = o /\ req'[p].to = s
      BY <1>0, <3>1 DEF Change, TypeOK, NoReq
    <3>2. ASSUME End(p, "failed") PROVE pc'[p] = "failed"
      BY <1>0, <3>2 DEF TypeOK
    <3>3. UNCHANGED <<po, received, booked, released>>
      BY <1>2 DEF StartSend, StartConfirm, StartCancel
    <3>4. CASE StartSend(p, o)
      BY <3>1, <3>2, <3>3, <3>4 DEF StartSend
    <3>5. CASE StartConfirm(p, o)
      BY <3>1, <3>2, <3>3, <3>5 DEF StartConfirm
    <3>6. CASE StartCancel(p, o)
      BY <3>1, <3>2, <3>3, <3>6 DEF StartCancel
    <3>7. QED
      BY <1>2, <3>4, <3>5, <3>6
  <2>2. Sound(p)'
    BY <2>1 DEF Sound, ChangeIsSound, ReceiptIsSound, CopyIsSound, StatusIsSound, InTx, Counting,
                IInv, StatusWasReleased
  <2>3. \A q \in Requests \ {p} : pc'[q] = pc[q] /\ req'[q] = req[q]
    BY <1>0, <1>2 DEF StartSend, StartConfirm, StartCancel, Change, TypeOK
  <2>4. QED
    BY <2>1, <2>2, <2>3, LocalStep
<1>3. ASSUME NEW p \in Requests, NEW d \in Deliveries, StartReceive(p, d) PROVE Beyond'
  <2>1. /\ UNCHANGED <<po, received, booked, released>>
        /\ \A q \in Requests \ {p} : pc'[q] = pc[q] /\ req'[q] = req[q]
    BY <1>0, <1>3 DEF StartReceive, TypeOK
  <2>2. CASE po[d.order] \in RECEIVABLE_STATUSES
    <3>1. d.order \in released
      BY <2>2, PurchaseAssumption DEF IInv, StatusWasReleased, RECEIVABLE_STATUSES
    <3>2. pc'[p] = "fresh" /\ req'[p] = [NoReq EXCEPT !.order = d.order, !.items = d.items]
      BY <1>0, <1>3, <2>2 DEF StartReceive, TypeOK
    <3>3. req'[p].order = d.order /\ req'[p].items = d.items /\ req'[p].add = Nothing
      BY <3>2 DEF NoReq
    <3>4. \A i \in DOMAIN d.items : OrderOf[d.items[i].line] = d.order
      BY PurchaseAssumption DEF LinesOf
    <3>5. Sound(p)'
      BY <2>1, <3>1, <3>2, <3>3, <3>4
         DEF Sound, ChangeIsSound, ReceiptIsSound, CopyIsSound, StatusIsSound, InTx, Counting, Nothing
    <3>6. QED
      BY <2>1, <3>5, LocalStep
  <2>3. CASE po[d.order] \notin RECEIVABLE_STATUSES
    BY <1>0, <1>3, <2>1, <2>3, IdleIsSound, LocalStep DEF StartReceive, TypeOK, InTx
  <2>4. QED
    BY <2>2, <2>3
<1>4. ASSUME NEW p \in Requests, SendMail(p) PROVE Beyond'
  <2>1. /\ pc'[p] = "write" /\ req' = req /\ UNCHANGED <<po, received, booked>>
        /\ released' = released \cup {req[p].order} /\ req[p].to = "SENT"
        /\ \A q \in Requests \ {p} : pc'[q] = pc[q]
    BY <1>0, <1>4 DEF SendMail, TypeOK, Sound, ChangeIsSound
  <2>2. Sound(p)'
    BY <2>1 DEF Sound, ChangeIsSound, ReceiptIsSound, CopyIsSound, StatusIsSound, InTx, Counting
  <2>3. \A l \in Lines : booked'[l] >= booked[l]
    BY <1>0, <2>1 DEF TypeOK
  <2>4. ASSUME NEW q \in Requests PROVE Sound(q)'
    BY <1>0, <2>1, <2>2, <2>3, OthersStaySound
  <2>5. QED
    BY <2>1, <2>4 DEF IInv, Beyond, LinesAreCovered, StatusWasReleased, GoodsWereOrdered, ReceivedIsComplete
<1>5. ASSUME NEW p \in Requests, WriteStatus(p) PROVE Beyond'
  <2>1. /\ pc'[p] = "done" /\ UNCHANGED <<received, booked, released>>
        /\ po' = [po EXCEPT ![req[p].order] = req[p].to]
        /\ \A q \in Requests \ {p} : pc'[q] = pc[q] /\ req'[q] = req[q]
    BY <1>0, <1>5 DEF WriteStatus, TypeOK
  <2>2. req[p].to \in {"SENT", "CONFIRMED", "CANCELLED"} /\ (req[p].to # "CANCELLED" => req[p].order \in released)
    BY <1>0, <1>5 DEF WriteStatus, Sound, ChangeIsSound
  <2>3. StatusWasReleased' /\ ReceivedIsComplete'
    BY <1>0, <2>1, <2>2 DEF IInv, StatusWasReleased, ReceivedIsComplete, TypeOK
  <2>4. \A l \in Lines : booked'[l] >= booked[l]
    BY <1>0, <2>1 DEF TypeOK
  <2>5. ASSUME NEW q \in Requests PROVE Sound(q)'
    BY <1>0, <2>1, <2>4, OthersStaySound, IdleIsSound DEF InTx
  <2>6. QED
    BY <2>1, <2>3, <2>5 DEF IInv, Beyond, LinesAreCovered, GoodsWereOrdered
<1>6. ASSUME NEW p \in Requests, ReadFresh(p) PROVE Beyond'
  <2>1. /\ pc[p] = "fresh" /\ pc'[p] = "line" /\ UNCHANGED <<po, received, booked, released>>
        /\ req'[p] = [req[p] EXCEPT !.line = received]
        /\ \A q \in Requests \ {p} : pc'[q] = pc[q] /\ req'[q] = req[q]
    BY <1>0, <1>6 DEF ReadFresh, TypeOK
  <2>2. /\ req'[p].line = received /\ req'[p].add = Nothing /\ req'[p].order = req[p].order
        /\ req'[p].items = req[p].items
    BY <1>0, <2>1 DEF Sound, ReceiptIsSound, TypeOK, Request
  <2>3. ReceiptIsSound(p)' /\ ChangeIsSound(p)' /\ StatusIsSound(p)'
    BY <1>0, <2>1, <2>2 DEF Sound, ReceiptIsSound, ChangeIsSound, StatusIsSound, InTx, Nothing
  <2>4. CopyIsSound(p)'
    BY <1>0, <2>1, <2>2, PurchaseAssumption
       DEF CopyIsSound, Counted, Nothing, IInv, LinesAreCovered, TypeOK
  <2>5. QED
    BY <2>1, <2>3, <2>4, LocalStep DEF Sound
<1>7. ASSUME NEW p \in Requests, UpdateLine(p) PROVE Beyond'
  <2> DEFINE m == LineOf(p)
  <2>1. m \in Lines /\ QtyOf(p) \in Nat \ {0}
    BY <1>0, <1>7, ReceiptType DEF UpdateLine
  <2>2. /\ pc[p] = "line" /\ pc'[p] = "readStock" /\ UNCHANGED <<po, received, booked, released>>
        /\ req'[p] = [req[p] EXCEPT !.line = [req[p].line EXCEPT ![m] = req[p].line[m] + QtyOf(p)]]
        /\ \A q \in Requests \ {p} : pc'[q] = pc[q] /\ req'[q] = req[q]
        /\ QtyOf(p) <= Ordered[m] - req[p].line[m]
    BY <1>0, <1>7 DEF UpdateLine, TypeOK, remaining
  <2>3. /\ req'[p].line = [req[p].line EXCEPT ![m] = req[p].line[m] + QtyOf(p)]
        /\ req'[p].add = req[p].add /\ req'[p].order = req[p].order
        /\ req'[p].items = req[p].items /\ req'[p].k = req[p].k
    BY <1>0, <2>2 DEF TypeOK, Request
  <2>4. ReceiptIsSound(p)' /\ ChangeIsSound(p)' /\ StatusIsSound(p)'
    BY <1>0, <1>7, <2>2, <2>3
       DEF Sound, ReceiptIsSound, ChangeIsSound, StatusIsSound, InTx, AtItem, UpdateLine
  <2>5. /\ LineOf(p)' = m /\ QtyOf(p)' = QtyOf(p)
        /\ \A l \in Lines : Counted(p, l) = req[p].add[l]
        /\ \A l \in Lines : Counted(p, l)' = req[p].add[l] + IF l = m THEN QtyOf(p) ELSE 0
    <3>1. LineOf(p)' = m /\ QtyOf(p)' = QtyOf(p)
      BY <2>3 DEF LineOf, QtyOf
    <3>2. req[p].add \in [Lines -> Nat]
      BY <1>0 DEF TypeOK, Request
    <3>3. \A l \in Lines : Counted(p, l) = req[p].add[l]
      BY <2>2, <3>2 DEF Counted
    <3>4. \A l \in Lines : Counted(p, l)' = req[p].add[l] + IF l = m THEN QtyOf(p) ELSE 0
      BY <2>2, <2>3, <3>1 DEF Counted
    <3>5. QED
      BY <3>1, <3>3, <3>4
  <2>6. \A l \in Lines : /\ req[p].line[l] >= req[p].add[l]
                          /\ req[p].line[l] <= Ordered[l]
                          /\ req[p].line[l] <= booked[l] + req[p].add[l]
    BY <1>0, <2>2, <2>5 DEF Sound, CopyIsSound, Counting, InTx
  <2>7. /\ req[p].line \in [Lines -> Nat] /\ req[p].add \in [Lines -> Nat]
        /\ booked \in [Lines -> Nat] /\ Ordered \in [Lines -> Nat]
    BY <1>0, PurchaseAssumption DEF TypeOK, Request
  <2>8. CopyIsSound(p)'
    BY <2>1, <2>2, <2>3, <2>5, <2>6, <2>7 DEF CopyIsSound
  <2>9. QED
    BY <2>2, <2>4, <2>8, LocalStep DEF Sound
<1>8. ASSUME NEW p \in Requests, ReadStock(p) PROVE Beyond'
  <2>1. /\ pc[p] = "readStock" /\ pc'[p] = "writeStock" /\ UNCHANGED <<po, received, booked, released>>
        /\ req'[p].line = req[p].line /\ req'[p].add = req[p].add /\ req'[p].order = req[p].order
        /\ req'[p].items = req[p].items /\ req'[p].k = req[p].k
        /\ \A q \in Requests \ {p} : pc'[q] = pc[q] /\ req'[q] = req[q]
    BY <1>0, <1>8 DEF ReadStock, TypeOK, Request
  <2>2. ReceiptIsSound(p)' /\ ChangeIsSound(p)' /\ StatusIsSound(p)'
    BY <1>0, <2>1 DEF Sound, ReceiptIsSound, ChangeIsSound, StatusIsSound, InTx, AtItem
  <2>3. CopyIsSound(p)'
    BY <1>0, <2>1 DEF Sound, CopyIsSound, Counted, LineOf, QtyOf, Counting, InTx
  <2>4. QED
    BY <2>1, <2>2, <2>3, LocalStep DEF Sound
<1>9. ASSUME NEW p \in Requests, WriteStock(p) PROVE Beyond'
  <2> DEFINE m == LineOf(p)
  <2>1. m \in Lines /\ QtyOf(p) \in Nat \ {0} /\ OrderOf[m] = req[p].order
    <3>1. AtItem(p) /\ \A i \in DOMAIN req[p].items : OrderOf[req[p].items[i].line] = req[p].order
      BY <1>0, <1>9 DEF WriteStock, Sound, ReceiptIsSound, InTx
    <3>2. QED
      BY <1>0, <3>1, ReceiptType DEF AtItem, LineOf
  <2>2. /\ pc[p] = "writeStock" /\ pc'[p] = "line" /\ UNCHANGED <<po, received, booked, released>>
        /\ req'[p].line = req[p].line /\ req'[p].order = req[p].order /\ req'[p].items = req[p].items
        /\ req'[p].add = [req[p].add EXCEPT ![m] = req[p].add[m] + QtyOf(p)]
        /\ \A q \in Requests \ {p} : pc'[q] = pc[q] /\ req'[q] = req[q]
    BY <1>0, <1>9 DEF WriteStock, TypeOK, Request
  <2>3. req[p].add \in [Lines -> Nat]
    BY <1>0 DEF TypeOK, Request
  <2>4. ReceiptIsSound(p)' /\ ChangeIsSound(p)' /\ StatusIsSound(p)'
    BY <1>0, <2>1, <2>2, <2>3 DEF Sound, ReceiptIsSound, ChangeIsSound, StatusIsSound, InTx
  <2>5. \A l \in Lines : Counted(p, l)' = Counted(p, l)
    BY <2>1, <2>2, <2>3 DEF Counted
  <2>6. CopyIsSound(p)'
    BY <1>0, <2>2, <2>5 DEF Sound, CopyIsSound, Counting, InTx
  <2>7. QED
    BY <2>2, <2>4, <2>6, LocalStep DEF Sound
<1>10. ASSUME NEW p \in Requests, ReadLines(p) PROVE Beyond'
  <2>1. /\ pc[p] = "line" /\ pc'[p] = "commit" /\ UNCHANGED <<po, received, booked, released>>
        /\ req'[p].line = req[p].line /\ req'[p].add = req[p].add /\ req'[p].order = req[p].order
        /\ req'[p].items = req[p].items /\ req'[p].to \in {"RECEIVED", "PARTIALLY_RECEIVED"}
        /\ req'[p].to = "RECEIVED" => \A l \in LinesOf(req[p].order) : Seen(p)[l] >= Ordered[l]
        /\ \A q \in Requests \ {p} : pc'[q] = pc[q] /\ req'[q] = req[q]
    BY <1>0, <1>10 DEF ReadLines, TypeOK, Request
  <2>2. ReceiptIsSound(p)' /\ ChangeIsSound(p)'
    BY <1>0, <2>1 DEF Sound, ReceiptIsSound, ChangeIsSound, InTx
  <2>3. CopyIsSound(p)'
    BY <1>0, <2>1 DEF Sound, CopyIsSound, Counted, Counting, InTx
  <2>4. /\ req[p].line \in [Lines -> Nat] /\ req[p].add \in [Lines -> Nat]
        /\ booked \in [Lines -> Nat] /\ received \in [Lines -> Nat] /\ Ordered \in [Lines -> Nat]
    BY <1>0, PurchaseAssumption DEF TypeOK, Request
  <2>5. \A l \in Lines : req[p].line[l] <= booked[l] + req[p].add[l] /\ received[l] <= booked[l]
    BY <1>0, <2>1, <2>4 DEF Sound, CopyIsSound, Counted, Counting, InTx, IInv, LinesAreCovered
  <2>6. \A l \in Lines : Seen(p)[l] <= booked[l] + req[p].add[l]
    BY <2>4, <2>5 DEF Seen
  <2>7. \A l \in Lines : Seen(p)[l] \in Nat
    BY <2>4 DEF Seen
  <2>8. StatusIsSound(p)'
    BY <2>1, <2>4, <2>6, <2>7 DEF StatusIsSound, LinesOf
  <2>9. QED
    BY <2>1, <2>2, <2>3, <2>8, LocalStep DEF Sound
<1>11. ASSUME NEW p \in Requests, Commit(p) PROVE Beyond'
  <2>1. /\ pc[p] = "commit" /\ pc'[p] = "push" /\ UNCHANGED released
        /\ po' = [po EXCEPT ![req[p].order] = req[p].to] /\ received' = Seen(p)
        /\ booked' = [l \in Lines |-> booked[l] + req[p].add[l]]
        /\ \A q \in Requests \ {p} : pc'[q] = pc[q] /\ req'[q] = req[q]
    BY <1>0, <1>11 DEF Commit, TypeOK
  <2>2. /\ req[p].line \in [Lines -> Nat] /\ req[p].add \in [Lines -> Nat]
        /\ booked \in [Lines -> Nat] /\ received \in [Lines -> Nat] /\ Ordered \in [Lines -> Nat]
    BY <1>0, PurchaseAssumption DEF TypeOK, Request
  <2>3. \A l \in Lines : booked'[l] = booked[l] + req[p].add[l] /\ booked'[l] >= booked[l]
    BY <2>1, <2>2
  <2>4. ASSUME NEW q \in Requests PROVE Sound(q)'
    BY <1>0, <2>1, <2>3, OthersStaySound, IdleIsSound DEF InTx
  <2>5. LinesAreCovered'
    <3>1. \A l \in Lines : /\ req[p].line[l] <= Ordered[l]
                            /\ req[p].line[l] <= booked[l] + req[p].add[l]
                            /\ received[l] <= Ordered[l] /\ received[l] <= booked[l]
      BY <1>0, <2>1, <2>2 DEF Sound, CopyIsSound, Counted, Counting, InTx, IInv, LinesAreCovered
    <3>2. \A l \in Lines : received'[l] = IF req[p].add[l] > 0 THEN req[p].line[l] ELSE received[l]
      BY <2>1 DEF Seen
    <3>3. QED
      BY <2>2, <2>3, <3>1, <3>2 DEF LinesAreCovered
  <2>6. req[p].order \in released /\ \A l \in Lines : req[p].add[l] > 0 => OrderOf[l] = req[p].order
    BY <1>0, <2>1 DEF Sound, ReceiptIsSound, InTx
  <2>7. StatusWasReleased' /\ GoodsWereOrdered'
    <3>1. StatusWasReleased'
      BY <1>0, <2>1, <2>6 DEF IInv, StatusWasReleased, TypeOK
    <3>2. GoodsWereOrdered'
      BY <1>0, <2>1, <2>2, <2>3, <2>6 DEF IInv, GoodsWereOrdered
    <3>3. QED
      BY <3>1, <3>2
  <2>8. ReceivedIsComplete'
    <3>1. ASSUME NEW o \in Orders, po'[o] = "RECEIVED", NEW l \in LinesOf(o) PROVE booked'[l] >= Ordered[l]
      <4>1. l \in Lines
        BY DEF LinesOf
      <4>2. CASE o = req[p].order
        BY <1>0, <2>1, <2>3, <3>1, <4>1, <4>2 DEF Sound, StatusIsSound, TypeOK
      <4>3. CASE o # req[p].order
        <5>1. po[o] = "RECEIVED"
          BY <1>0, <2>1, <3>1, <4>3 DEF TypeOK
        <5>2. booked[l] >= Ordered[l]
          BY <5>1 DEF IInv, ReceivedIsComplete
        <5>3. QED
          BY <2>2, <2>3, <4>1, <5>2
      <4>4. QED
        BY <4>2, <4>3
    <3>2. QED
      BY <3>1 DEF ReceivedIsComplete, LinesOf
  <2>9. QED
    BY <2>4, <2>5, <2>7, <2>8 DEF Beyond
<1>12. ASSUME NEW p \in Requests, NEW b \in Barcodes, PushStock(p, b) PROVE Beyond'
  <2>1. /\ pc'[p] \in {"push", "done"} /\ UNCHANGED <<po, received, booked, released>>
        /\ \A q \in Requests \ {p} : pc'[q] = pc[q] /\ req'[q] = req[q]
    BY <1>0, <1>12 DEF PushStock, TypeOK
  <2>2. QED
    BY <2>1, IdleIsSound, LocalStep DEF InTx
<1>13. ASSUME NEW p \in Requests, RefuseReceipt(p) \/ DeadlockVictim(p) \/ Crash(p) PROVE Beyond'
  <2>1. /\ pc'[p] = "failed" /\ UNCHANGED <<po, received, booked, released>>
        /\ \A q \in Requests \ {p} : pc'[q] = pc[q] /\ req'[q] = req[q]
    BY <1>0, <1>13 DEF RefuseReceipt, DeadlockVictim, Crash, TypeOK
  <2>2. QED
    BY <2>1, IdleIsSound, LocalStep DEF InTx
<1>20. QED
  BY <1>1, <1>2, <1>3, <1>4, <1>5, <1>6, <1>7, <1>8, <1>9, <1>10, <1>11, <1>12, <1>13
     DEF Next, Start, Continue, Rest

\* The inductive invariant holds of every behaviour.
LEMMA Invariant == Spec => []IInv
<1>1. Init => IInv
  BY InvInit
<1>2. IInv /\ [Next]_vars => IInv'
  BY InvStep, TypeStep DEF IInv, Beyond
<1>3. QED
  BY <1>1, <1>2, PTL DEF Spec

----------------------------------------------------------------------------
\* PurchaseOrder is well typed, whatever the requests, the orders and the deliveries.
THEOREM TypeCorrect == Spec => []TypeOK
BY Invariant, PTL DEF IInv

\* Goods enter the stock only for orders that got past the mail of sendPO (the guards of sendPO,
\* confirmPO and receiveItems, read before the writes they allow).
THEOREM OrderedGoodsOnly == Spec => []GoodsWereOrdered
BY Invariant, PTL DEF IInv

\* An order marked RECEIVED is covered by the movements, line by line (the status receiveItems
\* computes from lines it has read back).
THEOREM CompleteWhenReceived == Spec => []ReceivedIsComplete
BY Invariant, PTL DEF IInv

\* receiveItems implements GoodsLedger: every step of it is a delivery or changes neither the
\* lines nor the movements.
THEOREM ImplementsLedger == Spec => KeepsLedger
<1>1. Init => Ledger!Init
  BY DEF Init, Ledger!Init, Nothing
<1>2. ASSUME IInv, IInv', [Next]_vars PROVE [Ledger!Deliver]_<<received, booked>>
  <2>1. ASSUME NEW p \in Requests, Commit(p) PROVE Ledger!Deliver
    <3>1. /\ req[p].line \in [Lines -> Nat] /\ req[p].add \in [Lines -> Nat]
          /\ booked \in [Lines -> Nat] /\ received \in [Lines -> Nat]
          /\ booked' \in [Lines -> Nat] /\ received' \in [Lines -> Nat]
      BY <1>2 DEF IInv, TypeOK, Request
    <3>2. \A l \in Lines : /\ booked'[l] = booked[l] + req[p].add[l]
                            /\ received'[l] = IF req[p].add[l] > 0 THEN req[p].line[l] ELSE received[l]
      BY <2>1 DEF Commit, Seen
    <3>3. \A l \in Lines : req[p].line[l] >= req[p].add[l]
      BY <1>2, <2>1, <3>1 DEF Commit, IInv, Sound, CopyIsSound, Counted, Counting, InTx
    <3>4. \A l \in Lines : received'[l] <= Ordered[l] /\ received'[l] <= booked'[l]
      BY <1>2 DEF IInv, LinesAreCovered
    <3>5. QED
      BY <3>1, <3>2, <3>3, <3>4 DEF Ledger!Deliver
  <2>2. ASSUME NEW p \in Requests, Start(p) PROVE UNCHANGED <<received, booked>>
    BY <2>2 DEF Start, StartSend, StartConfirm, StartCancel, StartReceive
  <2>3. ASSUME NEW p \in Requests, Continue(p), ~Commit(p) PROVE UNCHANGED <<received, booked>>
    BY <2>3 DEF Continue, SendMail, WriteStatus, ReadFresh, RefuseReceipt, UpdateLine, ReadStock,
                WriteStock, ReadLines, PushStock, DeadlockVictim
  <2>4. ASSUME NEW p \in Requests, Crash(p) PROVE UNCHANGED <<received, booked>>
    BY <2>4 DEF Crash
  <2>5. QED
    BY <1>2, <2>1, <2>2, <2>3, <2>4 DEF Next, Rest, vars
<1>3. QED
  BY <1>1, <1>2, Invariant, PTL DEF Spec, KeepsLedger, Ledger!Spec

----------------------------------------------------------------------------
(* The central stock.  Several lines of a transaction may be of one product, so what it   *)
(* will write is bounded by a sum over its lines.                                          *)

\* The quantity p has read or written for a product is covered by what is booked for it and
\* what the transaction will book.
ClaimIsSound(p) ==
  /\ pc[p] \in InTx => \A b \in LockedStock(p) : req[p].held[b] <= BookedUnits(b) + UnitsOf(req[p].add, b)
  /\ pc[p] = "writeStock" =>
       LET b == BarcodeOf[LineOf(p)]
       IN  req[p].before <= BookedUnits(b) + UnitsOf(req[p].add, b)

StockInv == StockIsExplained /\ \A p \in Requests : ClaimIsSound(p)

\* The terms UnitsOf adds up.
Terms(n, b) == [l \in Lines |-> IF BarcodeOf[l] = b THEN n[l] ELSE 0]

\* Units are counted in naturals.
LEMMA UnitsAreNat ==
  ASSUME NEW n \in [Lines -> Nat], NEW b
  PROVE  UnitsOf(n, b) \in Nat
<1>1. \A l \in Lines : Terms(n, b)[l] \in Nat
  BY DEF Terms
<1>2. SumFunctionOnSet(Terms(n, b), Lines) \in Nat
  BY <1>1, SumNat, PurchaseAssumption
<1>3. QED
  BY <1>2 DEF UnitsOf, Terms

\* What is booked more for the lines is more for the product.
LEMMA UnitsGrow ==
  ASSUME NEW m \in [Lines -> Nat], NEW n \in [Lines -> Nat], NEW b, \A l \in Lines : m[l] <= n[l]
  PROVE  UnitsOf(m, b) <= UnitsOf(n, b)
<1>1. \A l \in Lines : /\ Terms(m, b)[l] \in Int /\ Terms(n, b)[l] \in Int
                        /\ Terms(m, b)[l] <= Terms(n, b)[l]
  BY DEF Terms
<1>2. SumFunctionOnSet(Terms(m, b), Lines) <= SumFunctionOnSet(Terms(n, b), Lines)
  BY <1>1, SumLess, PurchaseAssumption
<1>3. QED
  BY <1>2 DEF UnitsOf, Terms

\* Bookings add up, product by product.
LEMMA UnitsAdd ==
  ASSUME NEW m \in [Lines -> Nat], NEW n \in [Lines -> Nat], NEW b
  PROVE  UnitsOf([l \in Lines |-> m[l] + n[l]], b) = UnitsOf(m, b) + UnitsOf(n, b)
<1> DEFINE s == [l \in Lines |-> m[l] + n[l]]
<1>1. \A l \in Lines : /\ Terms(m, b)[l] \in Int /\ Terms(n, b)[l] \in Int
                        /\ Terms(s, b)[l] = Terms(m, b)[l] + Terms(n, b)[l]
  BY DEF Terms
<1>2. SumFunctionOnSet(Terms(s, b), Lines)
        = SumFunctionOnSet(Terms(m, b), Lines) + SumFunctionOnSet(Terms(n, b), Lines)
  <2> HIDE DEF s
  <2>1. QED
    BY <1>1, SumPlus, PurchaseAssumption
<1>3. QED
  BY <1>2 DEF UnitsOf, Terms

\* A quantity added to one line is added to its product.
LEMMA UnitsOfOneMore ==
  ASSUME NEW n \in [Lines -> Nat], NEW l \in Lines, NEW q \in Nat
  PROVE  UnitsOf([n EXCEPT ![l] = n[l] + q], BarcodeOf[l]) = UnitsOf(n, BarcodeOf[l]) + q
<1> DEFINE b == BarcodeOf[l]
           s == [n EXCEPT ![l] = n[l] + q]
<1>1. /\ \A x \in Lines : Terms(n, b)[x] \in Int /\ Terms(s, b)[x] \in Int
      /\ \A x \in Lines \ {l} : Terms(s, b)[x] = Terms(n, b)[x]
      /\ Terms(s, b)[l] - Terms(n, b)[l] = q
  BY DEF Terms
<1>2. SumFunctionOnSet(Terms(s, b), Lines)
        = SumFunctionOnSet(Terms(n, b), Lines) + (Terms(s, b)[l] - Terms(n, b)[l])
  <2> HIDE DEF s, b
  <2>1. QED
    BY <1>1, SumChange, PurchaseAssumption
<1>3. UnitsOf(s, b) = UnitsOf(n, b) + q
  BY <1>1, <1>2 DEF UnitsOf, Terms
<1>4. QED
  BY <1>3

\* What p's transaction has booked is counted in naturals, like all that is booked.
LEMMA UnitsType ==
  ASSUME TypeOK, NEW b, NEW p \in Requests
  PROVE  BookedUnits(b) \in Nat /\ UnitsOf(req[p].add, b) \in Nat
BY UnitsAreNat DEF TypeOK, Request, BookedUnits

\* The claims of a request stay sound while others run, as bookings only grow.
LEMMA OthersClaim ==
  ASSUME TypeOK, TypeOK', NEW p \in Requests, Sound(p), ClaimIsSound(p),
         pc'[p] = pc[p], req'[p] = req[p], \A b \in Barcodes : BookedUnits(b)' >= BookedUnits(b)
  PROVE  ClaimIsSound(p)'
<1>1. LockedStock(p)' = LockedStock(p) /\ LineOf(p)' = LineOf(p)
  BY DEF LockedStock, LineOf
<1>2. LockedStock(p) \subseteq Barcodes
  BY DEF LockedStock
<1>3. \A b : /\ BookedUnits(b) \in Nat /\ UnitsOf(req[p].add, b) \in Nat
             /\ BookedUnits(b)' \in Nat
  BY UnitsAreNat DEF TypeOK, Request, BookedUnits
<1>4. req[p] \in Request
  BY DEF TypeOK
<1>5. pc[p] \in InTx => \A b \in LockedStock(p) : req[p].held[b] <= BookedUnits(b)' + UnitsOf(req[p].add, b)
  <2> SUFFICES ASSUME pc[p] \in InTx, NEW b \in LockedStock(p)
               PROVE  req[p].held[b] <= BookedUnits(b)' + UnitsOf(req[p].add, b)
    OBVIOUS
  <2>1. req[p].held[b] <= BookedUnits(b) + UnitsOf(req[p].add, b)
    BY DEF ClaimIsSound
  <2>2. req[p].held[b] \in Nat /\ BookedUnits(b)' >= BookedUnits(b)
    BY <1>2, <1>4 DEF Request
  <2>3. QED
    BY <1>3, <2>1, <2>2
<1>6. ASSUME pc[p] = "writeStock"
      PROVE  req[p].before <= BookedUnits(BarcodeOf[LineOf(p)])' + UnitsOf(req[p].add, BarcodeOf[LineOf(p)])
  <2> DEFINE b == BarcodeOf[LineOf(p)]
  <2>1. b \in Barcodes
    BY <1>6, ReceiptType DEF Sound, ReceiptIsSound
  <2>2. req[p].before <= BookedUnits(b) + UnitsOf(req[p].add, b)
    BY <1>6 DEF ClaimIsSound
  <2>3. req[p].before \in Nat
    BY <1>4 DEF Request
  <2>4. ASSUME NEW c \in Barcodes, req[p].before <= BookedUnits(c) + UnitsOf(req[p].add, c)
        PROVE  req[p].before <= BookedUnits(c)' + UnitsOf(req[p].add, c)
    <3>1. BookedUnits(c)' >= BookedUnits(c)
      OBVIOUS
    <3>2. QED
      BY <1>3, <2>3, <2>4, <3>1
  <2>5. QED
    BY <1>1, <2>1, <2>2, <2>4 DEF BookedUnits
<1>7. QED
  BY <1>1, <1>5, <1>6 DEF ClaimIsSound

\* A step of one request that books and announces nothing keeps the stock explained when
\* that request's claim stays sound.
LEMMA LocalClaim ==
  ASSUME IInv, TypeOK', StockInv, NEW p \in Requests, ClaimIsSound(p)',
         \A q \in Requests \ {p} : pc'[q] = pc[q] /\ req'[q] = req[q],
         stock' = stock, booked' = booked, pushes' = pushes
  PROVE  StockInv'
<1>1. \A b : BookedUnits(b)' = BookedUnits(b)
  BY DEF BookedUnits
<1>2. \A b : BookedUnits(b) \in Nat
  BY UnitsAreNat DEF BookedUnits, IInv, TypeOK
<1>3. ASSUME NEW q \in Requests PROVE ClaimIsSound(q)'
  BY <1>1, <1>2, OthersClaim DEF IInv, StockInv
<1>4. StockIsExplained'
  BY <1>1 DEF StockInv, StockIsExplained
<1>5. QED
  BY <1>3, <1>4 DEF StockInv

\* A request outside the transaction claims nothing.
LEMMA NoClaim ==
  ASSUME NEW p \in Requests, pc'[p] \notin InTx
  PROVE  ClaimIsSound(p)'
BY DEF ClaimIsSound, InTx

\* A step inside the transaction that only moves on leaves the claims as they were.
LEMMA SameClaim ==
  ASSUME TypeOK, NEW p \in Requests, ClaimIsSound(p), pc[p] \in InTx, pc'[p] # "writeStock",
         booked' = booked, req'[p].held = req[p].held, req'[p].add = req[p].add
  PROVE  ClaimIsSound(p)'
<1>1. \A b : BookedUnits(b)' = BookedUnits(b)
  BY DEF BookedUnits
<1>2. LockedStock(p)' = LockedStock(p)
  BY DEF LockedStock
<1>3. QED
  BY <1>1, <1>2 DEF ClaimIsSound

\* Nothing is claimed at the start.
LEMMA StockInit == Init => StockInv
<1> SUFFICES ASSUME Init PROVE StockInv
  OBVIOUS
<1>1. \A b : BookedUnits(b) \in Nat
  BY UnitsAreNat DEF Init, BookedUnits, Nothing
<1>2. QED
  BY <1>1 DEF Init, StockInv, StockIsExplained, ClaimIsSound, InTx

\* Every step keeps the stock explained.
LEMMA StockStep == IInv /\ IInv' /\ StockInv /\ [Next]_vars => StockInv'
<1> SUFFICES ASSUME IInv, IInv', StockInv, [Next]_vars PROVE StockInv'
  OBVIOUS
<1> USE DEF Goto, End
<1>0. TypeOK /\ TypeOK' /\ (\A p \in Requests : Sound(p) /\ ClaimIsSound(p)) /\ StockIsExplained
  BY DEF IInv, StockInv
<1>1. CASE UNCHANGED vars
  BY <1>1 DEF vars, StockInv, StockIsExplained, ClaimIsSound, BookedUnits, LockedStock, LineOf
<1>2. ASSUME NEW p \in Requests,
             \/ \E o \in Orders : StartSend(p, o) \/ StartConfirm(p, o) \/ StartCancel(p, o)
             \/ SendMail(p) \/ WriteStatus(p) \/ RefuseReceipt(p) \/ DeadlockVictim(p) \/ Crash(p)
      PROVE  StockInv'
  <2>1. /\ pc'[p] \notin InTx /\ UNCHANGED <<stock, booked, pushes>>
        /\ \A q \in Requests \ {p} : pc'[q] = pc[q] /\ req'[q] = req[q]
    BY <1>0, <1>2 DEF StartSend, StartConfirm, StartCancel, Change, SendMail, WriteStatus,
                      RefuseReceipt, DeadlockVictim, Crash, TypeOK, InTx
  <2>2. QED
    BY <1>0, <2>1, NoClaim, LocalClaim
<1>3. ASSUME NEW p \in Requests, NEW d \in Deliveries, StartReceive(p, d) PROVE StockInv'
  <2>1. /\ UNCHANGED <<stock, booked, pushes>>
        /\ \A q \in Requests \ {p} : pc'[q] = pc[q] /\ req'[q] = req[q]
        /\ \/ pc'[p] = "failed"
           \/ pc'[p] = "fresh" /\ req'[p] = [NoReq EXCEPT !.order = d.order, !.items = d.items]
    BY <1>0, <1>3 DEF StartReceive, TypeOK
  <2>2. ClaimIsSound(p)'
    <3>1. CASE pc'[p] = "failed"
      BY <3>1, NoClaim DEF InTx
    <3>2. CASE pc'[p] = "fresh" /\ req'[p] = [NoReq EXCEPT !.order = d.order, !.items = d.items]
      <4>1. req'[p].add = Nothing
        BY <3>2 DEF NoReq
      <4>2. LockedStock(p)' = {}
        BY <4>1 DEF LockedStock, Nothing
      <4>3. QED
        BY <3>2, <4>2 DEF ClaimIsSound
    <3>3. QED
      BY <2>1, <3>1, <3>2
  <2>3. QED
    BY <1>0, <2>1, <2>2, LocalClaim
<1>4. ASSUME NEW p \in Requests, ReadFresh(p) \/ UpdateLine(p) \/ ReadLines(p) PROVE StockInv'
  <2>1. /\ pc[p] \in InTx /\ pc'[p] # "writeStock" /\ UNCHANGED <<stock, booked, pushes>>
        /\ \A q \in Requests \ {p} : pc'[q] = pc[q] /\ req'[q] = req[q]
    BY <1>0, <1>4 DEF ReadFresh, UpdateLine, ReadLines, TypeOK, InTx
  <2>2. req'[p].held = req[p].held /\ req'[p].add = req[p].add
    <3>1. req[p] \in Request
      BY <1>0 DEF TypeOK
    <3>2. CASE ReadFresh(p)
      BY <1>0, <3>1, <3>2 DEF ReadFresh, TypeOK, Request
    <3>3. CASE UpdateLine(p)
      BY <1>0, <3>1, <3>3 DEF UpdateLine, TypeOK, Request
    <3>4. CASE ReadLines(p)
      BY <1>0, <3>1, <3>4 DEF ReadLines, TypeOK, Request
    <3>5. QED
      BY <1>4, <3>2, <3>3, <3>4
  <2>3. QED
    BY <1>0, <2>1, <2>2, SameClaim, LocalClaim
<1>5. ASSUME NEW p \in Requests, ReadStock(p) PROVE StockInv'
  <2> DEFINE b == BarcodeOf[LineOf(p)]
             n == IF b \in LockedStock(p) THEN req[p].held[b] ELSE stock[b]
  <2>0. b \in Barcodes
    BY <1>0, <1>5, ReceiptType DEF ReadStock, Sound, ReceiptIsSound
  <2>1. /\ pc[p] = "readStock" /\ pc'[p] = "writeStock" /\ UNCHANGED <<stock, booked, pushes>>
        /\ req'[p] = [req[p] EXCEPT !.before = n]
        /\ \A q \in Requests \ {p} : pc'[q] = pc[q] /\ req'[q] = req[q]
    BY <1>0, <1>5 DEF ReadStock, TypeOK
  <2>2. /\ req'[p].held = req[p].held /\ req'[p].add = req[p].add /\ req'[p].items = req[p].items
        /\ req'[p].k = req[p].k /\ req'[p].before = n
    BY <1>0, <2>1 DEF TypeOK, Request
  <2>3. LockedStock(p)' = LockedStock(p) /\ LineOf(p)' = LineOf(p) /\ \A c : BookedUnits(c)' = BookedUnits(c)
    BY <2>1, <2>2 DEF LockedStock, LineOf, BookedUnits
  <2>4. n <= BookedUnits(b) + UnitsOf(req[p].add, b)
    <3>1. CASE b \in LockedStock(p)
      BY <1>0, <2>1, <3>1 DEF ClaimIsSound, InTx
    <3>2. CASE b \notin LockedStock(p)
      <4>1. stock[b] <= BookedUnits(b) /\ stock[b] \in Nat
        BY <1>0, <2>0 DEF StockIsExplained, TypeOK
      <4>2. BookedUnits(b) \in Nat /\ UnitsOf(req[p].add, b) \in Nat
        BY <1>0, UnitsType
      <4>3. QED
        BY <3>2, <4>1, <4>2
    <3>3. QED
      BY <3>1, <3>2
  <2>5. ClaimIsSound(p)'
    <3>1. \A c \in LockedStock(p) : req[p].held[c] <= BookedUnits(c) + UnitsOf(req[p].add, c)
      BY <1>0, <2>1 DEF ClaimIsSound, InTx
    <3> HIDE DEF n
    <3>2. QED
      BY <2>2, <2>3, <2>4, <3>1 DEF ClaimIsSound
  <2>6. QED
    BY <1>0, <2>1, <2>5, LocalClaim
<1>6. ASSUME NEW p \in Requests, WriteStock(p) PROVE StockInv'
  <2> DEFINE m == LineOf(p)
             b == BarcodeOf[m]
             added == [req[p].add EXCEPT ![m] = req[p].add[m] + QtyOf(p)]
  <2>0. m \in Lines /\ QtyOf(p) \in Nat \ {0} /\ b \in Barcodes
    BY <1>0, <1>6, ReceiptType DEF WriteStock, Sound, ReceiptIsSound
  <2>t. req[p] \in Request /\ req[p].add \in [Lines -> Nat] /\ req[p].before \in Nat
    BY <1>0 DEF TypeOK, Request
  <2>1. /\ pc[p] = "writeStock" /\ pc'[p] = "line" /\ UNCHANGED <<stock, booked, pushes>>
        /\ req'[p].held = [req[p].held EXCEPT ![b] = req[p].before + QtyOf(p)]
        /\ req'[p].add = added
        /\ \A q \in Requests \ {p} : pc'[q] = pc[q] /\ req'[q] = req[q]
    BY <1>0, <1>6, <2>t DEF WriteStock, TypeOK, Request
  <2>2. UnitsOf(added, b) = UnitsOf(req[p].add, b) + QtyOf(p)
    BY <2>0, <2>t, UnitsOfOneMore
  <2>3. added \in [Lines -> Nat] /\ \A l \in Lines : req[p].add[l] <= added[l]
    BY <2>0, <2>t
  <2>4. \A c : UnitsOf(req[p].add, c) <= UnitsOf(added, c) /\ UnitsOf(added, c) \in Nat
    <3> HIDE DEF added
    <3>1. QED
      BY <2>3, <2>t, UnitsGrow, UnitsAreNat
  <2>5. \A c : BookedUnits(c)' = BookedUnits(c)
    BY <2>1 DEF BookedUnits
  <2>6. LockedStock(p)' \subseteq LockedStock(p) \cup {b}
    BY <2>0, <2>t, <2>1 DEF LockedStock
  <2>7. req[p].before <= BookedUnits(b) + UnitsOf(req[p].add, b)
    BY <1>0, <2>1 DEF ClaimIsSound
  <2>8. \A c : BookedUnits(c) \in Nat /\ UnitsOf(req[p].add, c) \in Nat
    BY <1>0, UnitsType
  <2>9. ASSUME NEW c \in LockedStock(p)' PROVE req'[p].held[c] <= BookedUnits(c) + UnitsOf(added, c)
    <3> HIDE DEF added
    <3>1. CASE c = b
      <4>1. req'[p].held[c] = req[p].before + QtyOf(p)
        BY <2>0, <2>1, <2>t, <3>1 DEF Request
      <4>2. QED
        BY <2>0, <2>2, <2>7, <2>8, <2>t, <3>1, <4>1
    <3>2. CASE c # b
      <4>1. c \in LockedStock(p) /\ c \in Barcodes
        BY <2>6, <3>2 DEF LockedStock
      <4>2. req'[p].held[c] = req[p].held[c] /\ req[p].held[c] \in Nat
        BY <2>1, <2>t, <3>2, <4>1 DEF Request
      <4>3. req[p].held[c] <= BookedUnits(c) + UnitsOf(req[p].add, c)
        BY <1>0, <2>1, <4>1 DEF ClaimIsSound, InTx
      <4>4. QED
        BY <2>4, <2>8, <4>2, <4>3
    <3>3. QED
      BY <3>1, <3>2
  <2>10. ClaimIsSound(p)'
    BY <2>1, <2>5, <2>9 DEF ClaimIsSound
  <2>11. QED
    BY <1>0, <2>1, <2>10, LocalClaim
<1>7. ASSUME NEW p \in Requests, Commit(p) PROVE StockInv'
  <2>1. /\ pc[p] = "commit" /\ pc'[p] = "push" /\ pushes' = pushes
        /\ booked' = [l \in Lines |-> booked[l] + req[p].add[l]]
        /\ stock' = [b \in Barcodes |-> IF b \in LockedStock(p) THEN req[p].held[b] ELSE stock[b]]
        /\ \A q \in Requests \ {p} : pc'[q] = pc[q] /\ req'[q] = req[q]
    BY <1>0, <1>7 DEF Commit, TypeOK
  <2>2. req[p].add \in [Lines -> Nat] /\ booked \in [Lines -> Nat]
    BY <1>0 DEF TypeOK, Request
  <2>3. \A b : BookedUnits(b)' = BookedUnits(b) + UnitsOf(req[p].add, b)
    BY <2>1, <2>2, UnitsAdd DEF BookedUnits
  <2>4. \A b : BookedUnits(b) \in Nat /\ UnitsOf(req[p].add, b) \in Nat
    BY <1>0, UnitsType
  <2>5. \A b : BookedUnits(b)' >= BookedUnits(b)
    BY <2>3, <2>4
  <2>6. ASSUME NEW q \in Requests PROVE ClaimIsSound(q)'
    <3>1. CASE q = p
      BY <2>1, <3>1, NoClaim DEF InTx
    <3>2. CASE q # p
      BY <1>0, <2>1, <2>5, <3>2, OthersClaim
    <3>3. QED
      BY <3>1, <3>2
  <2>7. \A b \in Barcodes : stock'[b] <= BookedUnits(b)'
    <3> SUFFICES ASSUME NEW b \in Barcodes PROVE stock'[b] <= BookedUnits(b)'
      OBVIOUS
    <3>1. CASE b \in LockedStock(p)
      BY <1>0, <2>1, <2>3, <3>1 DEF ClaimIsSound, InTx
    <3>2. CASE b \notin LockedStock(p)
      <4>1. stock[b] <= BookedUnits(b) /\ stock[b] \in Nat
        BY <1>0 DEF StockIsExplained, TypeOK
      <4>2. QED
        BY <2>1, <2>3, <2>4, <3>2, <4>1
    <3>3. QED
      BY <3>1, <3>2
  <2>8. \A j \in pushes' : j.stock <= BookedUnits(j.barcode)'
    <3> SUFFICES ASSUME NEW j \in pushes PROVE j.stock <= BookedUnits(j.barcode)'
      BY <2>1
    <3>1. j.stock <= BookedUnits(j.barcode) /\ j.stock \in Nat
      BY <1>0 DEF StockIsExplained, TypeOK
    <3>2. QED
      BY <2>3, <2>4, <3>1
  <2>9. StockIsExplained'
    BY <2>7, <2>8 DEF StockIsExplained
  <2>10. QED
    BY <2>6, <2>9 DEF StockInv
<1>8. ASSUME NEW p \in Requests, NEW b \in Barcodes, PushStock(p, b) PROVE StockInv'
  <2>1. /\ pc'[p] \in {"push", "done"} /\ UNCHANGED <<stock, booked>>
        /\ pushes' = pushes \cup {[barcode |-> b, stock |-> stock[b]]}
        /\ \A q \in Requests \ {p} : pc'[q] = pc[q] /\ req'[q] = req[q]
    BY <1>0, <1>8 DEF PushStock, TypeOK
  <2>2. \A c : BookedUnits(c)' = BookedUnits(c)
    BY <2>1 DEF BookedUnits
  <2>3. ASSUME NEW q \in Requests PROVE ClaimIsSound(q)'
    <3>1. CASE q = p
      BY <2>1, <3>1, NoClaim DEF InTx
    <3>2. CASE q # p
      <4>1. \A c : BookedUnits(c) \in Nat
        BY <1>0, UnitsType
      <4>2. \A c \in Barcodes : BookedUnits(c)' >= BookedUnits(c)
        BY <2>2, <4>1
      <4>3. QED
        BY <1>0, <2>1, <3>2, <4>2, OthersClaim
    <3>3. QED
      BY <3>1, <3>2
  <2>4. StockIsExplained'
    BY <1>0, <2>1, <2>2 DEF StockIsExplained
  <2>5. QED
    BY <2>3, <2>4 DEF StockInv
<1>20. QED
  BY <1>1, <1>2, <1>3, <1>4, <1>5, <1>6, <1>7, <1>8 DEF Next, Start, Continue, Rest

\* The central stock, and what is announced of it, never exceed what the movements explain,
\* though applyPurchaseInflow adds to a quantity it read before it had the lock.
THEOREM StockExplained == Spec => []StockIsExplained
<1>1. Init => StockInv
  BY StockInit
<1>2. IInv /\ IInv' /\ StockInv /\ [Next]_vars => StockInv'
  BY StockStep
<1>3. StockInv => StockIsExplained
  BY DEF StockInv
<1>4. QED
  BY <1>1, <1>2, <1>3, Invariant, PTL DEF Spec
=============================================================================
