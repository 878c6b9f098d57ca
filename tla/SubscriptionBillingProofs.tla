--------------------- MODULE SubscriptionBillingProofs ---------------------
(***************************************************************************)
(* The properties of SubscriptionBilling for any number of handlers,       *)
(* payments, periods and charges.                                          *)
(*                                                                         *)
(* None of the three is inductive.  A commission is made in two steps, so  *)
(* the invariant follows the handlers that have a payment in hand.  A card *)
(* is not charged again because the renewal that charged it moves the end  *)
(* of the period, so the invariant follows a charge until then.  And the   *)
(* clock can only run out on a subscription whose status says less than    *)
(* the end of its period, so the invariant relates the two.                *)
(***************************************************************************)
EXTENDS SubscriptionBilling, TLAPS

Handler == [at : Places, p : Payments, via : {"return", "iyzico", "paytr"}, end : Ends]
Subscription == [status : SubStatus, trialEnd : Ends, periodEnd : Ends, endsAt : Ends]
Payment == [status : PaymentStatus, by : {"iyzico", "paytr"}, paid : BOOLEAN, page : BOOLEAN]

Billing == {"activate", "findFee", "addFee"}
HasInHand(x, p) == h[x].at \in Billing /\ h[x].p = p

\* A payment that never was in two hands is in one at most.
OneInHand ==
  \A p \in Payments \ shared : \A x, y \in Handlers : HasInHand(x, p) /\ HasInHand(y, p) => x = y

\* The entry a handler is about to make of such a payment is its first.
FeeIsNew ==
  \A x \in Handlers : h[x].at = "addFee" /\ h[x].p \notin shared => fees[h[x].p] = 0

\* What comes after the activation finds the payment closed.
ActivatedFirst ==
  \A x \in Handlers : h[x].at \in {"findFee", "addFee"} => pay[h[x].p].status \in {"SUCCESS", "FAILED"}

\* A charge whose answer came is being written down, or has paid for the period that runs.
ChargeIsKnown ==
  ~lost =>
    /\ charges <= 1
    /\ \/ charges = 0
       \/ renewal \in {"charged", "recorded"}
       \/ renewal = "idle" /\ sub.periodEnd > now

\* Unless a status was mislaid, a period that still runs is not on trial, and ends no later
\* than the access does.
StatusFollows ==
  ~mislaid =>
    /\ sub.status \in {"TRIAL", "EXPIRED"} => sub.periodEnd <= now
    /\ sub.status \in {"CANCELING", "CANCELLED"} => sub.periodEnd <= sub.endsAt

Commissions == OneInHand /\ FeeIsNew /\ ActivatedFirst /\ CommissionOnce

IInv == TypeOK /\ Commissions /\ ChargeIsKnown /\ StatusFollows

----------------------------------------------------------------------------
(* Types. *)

\* The numbers of periods that occur.
LEMMA EndsAre == /\ Null \in Ends /\ 0 \in Ends /\ MaxNow \in Nat /\ Ends \subseteq Int
                 /\ \A n \in 0..MaxNow : n \in Ends /\ n + 1 \in Ends
  BY BillingAssumption DEF Null, Ends

\* So is one that takes a payment or a date.
LEMMA HandlingType ==
  \A at, p, via, end :
    /\ Handling(at, p, via, end).at = at /\ Handling(at, p, via, end).p = p
    /\ Handling(at, p, via, end).end = end
    /\ at \in Places /\ p \in Payments /\ via \in {"return", "iyzico", "paytr"} /\ end \in Ends
         => Handling(at, p, via, end) \in Handler
  BY DEF Handling, Handler

\* A handler that is idle is of the type.
LEMMA IdleType == Idle \in Handler /\ Idle.at = "idle" /\ None \in Payments
<1>1. None \in Payments
  BY BillingAssumption DEF None
<1>2. QED
  BY <1>1, EndsAre, HandlingType DEF Idle, Places

\* The handlers stay of their type when one is replaced.
LEMMA Replaced ==
  ASSUME NEW f \in [Handlers -> Handler], NEW x \in Handlers, NEW y \in Handler
  PROVE  [f EXCEPT ![x] = y] \in [Handlers -> Handler]
  OBVIOUS

\* Initially.
LEMMA InitInv == Init => IInv
<1> SUFFICES ASSUME Init PROVE IInv
  OBVIOUS
<1>1. TypeOK
  <2>1. /\ sub \in Subscription /\ pay \in [Payments -> Payment]
    BY EndsAre DEF Init, Subscription, Payment, SubStatus, PaymentStatus
  <2>2. h \in [Handlers -> Handler]
    BY IdleType DEF Init
  <2>3. charges \in 0..MaxCharges /\ now \in 0..MaxNow
    BY BillingAssumption DEF Init
  <2>4. QED
    BY <2>1, <2>2, <2>3 DEF Init, TypeOK, Subscription, Payment, Handler
<1>2. \A x \in Handlers : h[x].at = "idle"
  BY IdleType DEF Init
<1>3. Commissions
  BY <1>2 DEF Init, Commissions, OneInHand, HasInHand, Billing, FeeIsNew, ActivatedFirst, CommissionOnce
<1>4. ChargeIsKnown /\ StatusFollows
  BY DEF Init, ChargeIsKnown, StatusFollows
<1>5. QED
  BY <1>1, <1>3, <1>4 DEF IInv

\* A handler that takes a payment or a date.
LEMMA Took ==
  ASSUME TypeOK, NEW x \in Handlers, NEW at \in Places, NEW p \in Payments,
         NEW via \in {"return", "iyzico", "paytr"}, NEW end \in Ends, Take(x, at, p, via, end)
  PROVE  h' \in [Handlers -> Handler]
<1>1. h \in [Handlers -> Handler]
  BY DEF TypeOK, Handler
<1>2. Handling(at, p, via, end) \in Handler
  BY HandlingType
<1>3. QED
  BY <1>1, <1>2, Replaced DEF Take

\* A report that is taken in hand.
LEMMA Begun ==
  ASSUME TypeOK, NEW x \in Handlers, NEW p \in Payments,
         NEW via \in {"return", "iyzico", "paytr"}, Begin(x, p, via)
  PROVE  h' \in [Handlers -> Handler] /\ shared' \subseteq Payments
  BY Took, EndsAre DEF Begin, TypeOK, Places

\* Types are kept by every step.
LEMMA TypeStep ==
  ASSUME TypeOK, Next
  PROVE  TypeOK'
<1>1. ASSUME NEW p \in Payments, OpenCheckout(p) PROVE TypeOK'
  <2>1. PICK by \in {"iyzico", "paytr"}, s \in {"PENDING", "FAILED"} :
          pay' = [pay EXCEPT ![p] = [@ EXCEPT !.status = s, !.by = by, !.page = s = "PENDING"]]
    BY <1>1 DEF OpenCheckout
  <2>2. [pay[p] EXCEPT !.status = s, !.by = by, !.page = s = "PENDING"] \in Payment
    BY DEF TypeOK, Payment, PaymentStatus
  <2>3. pay' \in [Payments -> Payment]
    BY <2>1, <2>2 DEF TypeOK, Payment
  <2>4. QED
    BY <1>1, <2>3 DEF OpenCheckout, TypeOK, provider, money, Payment
<1>2. ASSUME NEW p \in Payments, Pay(p) PROVE TypeOK'
  BY <1>2 DEF Pay, TypeOK, provider, money
<1>3. ASSUME NEW x \in Handlers, NEW p \in Payments, completeIyzicoCheckout(x, p) PROVE TypeOK'
  BY <1>3, Begun DEF completeIyzicoCheckout, TypeOK, provider, Handler
<1>4. ASSUME NEW x \in Handlers, NEW p \in Payments, handleIyzicoWebhook(x, p) PROVE TypeOK'
  BY <1>4, Begun DEF handleIyzicoWebhook, TypeOK, provider, Handler
<1>5. ASSUME NEW x \in Handlers, NEW p \in Payments, handleWebhook(x, p) PROVE TypeOK'
  BY <1>5, Begun DEF handleWebhook, TypeOK, provider, Handler
<1>6. ASSUME NEW x \in Handlers, NEW p \in Payments, reportRefusal(x, p) PROVE TypeOK'
  <2>1. CASE pay' = [pay EXCEPT ![p].status = "FAILED"] /\ UNCHANGED h
    BY <1>6, <2>1 DEF reportRefusal, TypeOK, provider, money, PaymentStatus
  <2>2. CASE Take(x, "fail", p, "return", Null) /\ UNCHANGED pay
    <3>1. h' \in [Handlers -> Handler]
      BY <2>2, Took, EndsAre DEF Places
    <3>2. QED
      BY <1>6, <2>2, <3>1 DEF reportRefusal, TypeOK, provider, money, Handler
  <2>3. QED
    BY <1>6, <2>1, <2>2 DEF reportRefusal
<1>7. ASSUME NEW x \in Handlers, FailPayment(x) PROVE TypeOK'
  BY <1>7, IdleType DEF FailPayment, End, TypeOK, provider, money, PaymentStatus, Handler
<1>8. ASSUME NEW x \in Handlers, Activate(x) PROVE TypeOK'
  <2>1. sub' \in Subscription
    BY <1>8, EndsAre DEF Activate, Activated, TypeOK, Subscription, SubStatus
  <2>2. h' \in [Handlers -> Handler]
    BY <1>8 DEF Activate, Goto, TypeOK, Handler, Places
  <2>3. pay' \in [Payments -> Payment]
    BY <1>8 DEF Activate, TypeOK, Payment, PaymentStatus
  <2>4. card' \in BOOLEAN /\ ref' \in BOOLEAN
    BY <1>8 DEF Activate, TypeOK
  <2>5. QED
    BY <1>8, <2>1, <2>2, <2>3, <2>4 DEF Activate, TypeOK, money, Subscription, Handler, Payment
<1>9. ASSUME NEW x \in Handlers, FindFee(x) PROVE TypeOK'
  <2>1. h' \in [Handlers -> Handler]
    <3>1. CASE End(x)
      BY <3>1, IdleType, Replaced DEF End, TypeOK, Handler
    <3>2. CASE Goto(x, "addFee")
      BY <3>2 DEF Goto, TypeOK, Handler, Places
    <3>3. QED
      BY <1>9, <3>1, <3>2 DEF FindFee
  <2>2. QED
    BY <1>9, <2>1 DEF FindFee, TypeOK, provider, money, Handler
<1>10. ASSUME NEW x \in Handlers, AddFee(x) PROVE TypeOK'
  BY <1>10, IdleType DEF AddFee, End, TypeOK, provider, Handler
<1>11. ASSUME NEW x \in Handlers, cancelSubscription(x) PROVE TypeOK'
  <2>1. h' \in [Handlers -> Handler]
    BY <1>11, Took, IdleType DEF cancelSubscription, TypeOK, Places
  <2>2. QED
    BY <1>11, <2>1 DEF cancelSubscription, TypeOK, provider, money, Handler
<1>12. ASSUME NEW x \in Handlers, TellIyzico(x) PROVE TypeOK'
  BY <1>12 DEF TellIyzico, Goto, TypeOK, provider, money, Places
<1>13. ASSUME NEW x \in Handlers, WriteCancel(x) PROVE TypeOK'
  BY <1>13, IdleType DEF WriteCancel, End, TypeOK, provider, money, Handler, SubStatus
<1>14. ASSUME NEW x \in Handlers, subscriptionCanceled(x) PROVE TypeOK'
  <2>1. h' \in [Handlers -> Handler]
    BY <1>14, Took, IdleType DEF subscriptionCanceled, TypeOK, Places
  <2>2. QED
    BY <1>14, <2>1 DEF subscriptionCanceled, TypeOK, provider, money, Handler
<1>15. ASSUME NEW x \in Handlers, WriteCancelled(x) PROVE TypeOK'
  BY <1>15, IdleType DEF WriteCancelled, End, TypeOK, provider, money, Handler, SubStatus
<1>16. ASSUME NEW x \in Handlers, reactivateSubscription(x) PROVE TypeOK'
  BY <1>16 DEF reactivateSubscription, Goto, TypeOK, provider, money, Places
<1>17. ASSUME NEW x \in Handlers, WriteReactivated(x) PROVE TypeOK'
  BY <1>17, IdleType, EndsAre DEF WriteReactivated, End, TypeOK, provider, money, Handler, SubStatus
<1>18. ASSUME NEW x \in Handlers, extendTrial(x) PROVE TypeOK'
  <2>1. (IF sub.trialEnd > now THEN sub.trialEnd ELSE now) + 1 \in Ends
    BY <1>18, EndsAre, BillingAssumption DEF extendTrial, TypeOK, Ends
  <2>2. h' \in [Handlers -> Handler]
    BY <1>18, <2>1, Took, IdleType DEF extendTrial, Places
  <2>3. QED
    BY <1>18, <2>2 DEF extendTrial, TypeOK, provider, money, Handler
<1>19. ASSUME NEW x \in Handlers, WriteExtended(x) PROVE TypeOK'
  BY <1>19, IdleType DEF WriteExtended, End, TypeOK, provider, money, Handler, SubStatus
<1>20. CASE ListTrial \/ ListRenewal \/ RecordCharge
  BY <1>20 DEF ListTrial, ListRenewal, RecordCharge, TypeOK, provider, money
<1>21. CASE Expire
  BY <1>21 DEF Expire, TypeOK, provider, money, SubStatus
<1>22. CASE Charge
  <2>1. charges' \in 0..MaxCharges
    <3>1. charges \in 0..MaxCharges /\ charges < MaxCharges /\ charges' \in {charges, charges + 1}
      BY <1>22 DEF Charge, TypeOK
    <3>2. QED
      BY <3>1, BillingAssumption
  <2>2. lost' \in BOOLEAN /\ renewal' \in {"idle", "charged"}
    BY <1>22 DEF Charge, TypeOK
  <2>3. QED
    BY <1>22, <2>1, <2>2 DEF Charge, TypeOK, provider
<1>23. CASE Renew
  BY <1>23, EndsAre DEF Renew, Renewed, TypeOK, provider, money, SubStatus
<1>24. CASE Tick
  <2>1. now' \in 0..MaxNow /\ charges' \in 0..MaxCharges
    BY <1>24, BillingAssumption DEF Tick, TypeOK
  <2>2. QED
    BY <1>24, <2>1 DEF Tick, TypeOK, provider
<1>25. CASE Crash
  BY <1>25, IdleType DEF Crash, TypeOK, provider, Handler
<1>26. QED
  BY <1>1, <1>2, <1>3, <1>4, <1>5, <1>6, <1>7, <1>8, <1>9, <1>10, <1>11, <1>12, <1>13, <1>14,
     <1>15, <1>16, <1>17, <1>18, <1>19, <1>20, <1>21, <1>22, <1>23, <1>24, <1>25
     DEF Next, Call, Step

----------------------------------------------------------------------------
(* Commissions. *)

\* Steps that leave payments in hand, their entries and what is closed as they are, except
\* that a handler may put its payment down.
LEMMA Aside ==
  ASSUME TypeOK, Commissions, UNCHANGED <<fees, shared>>,
         \A x \in Handlers : h'[x] = h[x] \/ h'[x].at \notin Billing,
         \A p \in Payments : pay[p].status \in {"SUCCESS", "FAILED"}
                                => pay'[p].status \in {"SUCCESS", "FAILED"}
  PROVE  Commissions'
<1>1. OneInHand'
  BY DEF Commissions, OneInHand, HasInHand
<1>2. FeeIsNew'
  BY DEF Commissions, FeeIsNew, Billing
<1>3. ActivatedFirst'
  <2> SUFFICES ASSUME NEW x \in Handlers, h'[x].at \in {"findFee", "addFee"}
               PROVE  pay'[h'[x].p].status \in {"SUCCESS", "FAILED"}
    BY DEF ActivatedFirst
  <2>1. h'[x] = h[x] /\ h[x].p \in Payments
    BY DEF Billing, TypeOK
  <2>2. QED
    BY <2>1 DEF Commissions, ActivatedFirst
<1>4. CommissionOnce'
  BY DEF Commissions, CommissionOnce
<1>5. QED
  BY <1>1, <1>2, <1>3, <1>4 DEF Commissions

\* A report is taken in hand; if another handler has the payment, it is shared.
LEMMA BeginKeeps ==
  ASSUME TypeOK, Commissions, NEW x \in Handlers, NEW p \in Payments,
         NEW via \in {"return", "iyzico", "paytr"}, Begin(x, p, via), h[x].at = "idle",
         UNCHANGED <<fees, pay>>
  PROVE  Commissions'
<1>1. /\ h'[x].at = "activate" /\ h'[x].p = p
      /\ \A y \in Handlers \ {x} : h'[y] = h[y]
  BY HandlingType DEF Begin, Take, TypeOK
<1>2. shared \subseteq shared' /\ (p \notin shared' => \A y \in Handlers \ {x} : ~HasInHand(y, p))
  BY DEF Begin, InHand, HasInHand, Billing
<1>3. OneInHand'
  <2> SUFFICES ASSUME NEW q \in Payments \ shared', NEW y \in Handlers, NEW z \in Handlers,
                      HasInHand(y, q)', HasInHand(z, q)'
               PROVE  y = z
    BY DEF OneInHand
  <2>1. CASE q = p
    BY <1>1, <1>2, <2>1 DEF HasInHand
  <2>2. CASE q # p
    <3>1. HasInHand(y, q) /\ HasInHand(z, q) /\ q \notin shared
      BY <1>1, <1>2, <2>2 DEF HasInHand
    <3>2. QED
      BY <3>1 DEF Commissions, OneInHand
  <2>3. QED
    BY <2>1, <2>2
<1>4. FeeIsNew'
  BY <1>1, <1>2 DEF Commissions, FeeIsNew
<1>5. ActivatedFirst'
  BY <1>1 DEF Commissions, ActivatedFirst
<1>6. CommissionOnce'
  BY <1>2 DEF Commissions, CommissionOnce
<1>7. QED
  BY <1>3, <1>4, <1>5, <1>6 DEF Commissions

\* The payment succeeds.
LEMMA ActivateKeeps ==
  ASSUME TypeOK, Commissions, NEW x \in Handlers, Activate(x)
  PROVE  Commissions'
<1>1. /\ h[x].at = "activate" /\ h[x].p \in Payments /\ h'[x].at = "findFee" /\ h'[x].p = h[x].p
      /\ \A y \in Handlers \ {x} : h'[y] = h[y]
      /\ UNCHANGED <<fees, shared>>
  BY DEF Activate, Goto, TypeOK, money
<1>2. /\ pay'[h[x].p].status = "SUCCESS"
      /\ \A p \in Payments \ {h[x].p} : pay'[p] = pay[p]
  BY <1>1 DEF Activate, TypeOK
<1>3. OneInHand'
  <2>1. \A y \in Handlers, p \in Payments : HasInHand(y, p)' => HasInHand(y, p)
    BY <1>1 DEF HasInHand, Billing
  <2>2. QED
    BY <1>1, <2>1 DEF Commissions, OneInHand
<1>4. FeeIsNew'
  BY <1>1 DEF Commissions, FeeIsNew
<1>5. ActivatedFirst'
  <2> SUFFICES ASSUME NEW y \in Handlers, h'[y].at \in {"findFee", "addFee"}
               PROVE  pay'[h'[y].p].status \in {"SUCCESS", "FAILED"}
    BY DEF ActivatedFirst
  <2>1. CASE h'[y].p = h[x].p
    BY <1>2, <2>1
  <2>2. CASE h'[y].p # h[x].p
    BY <1>1, <1>2, <2>2 DEF Commissions, ActivatedFirst, TypeOK
  <2>3. QED
    BY <2>1, <2>2
<1>6. CommissionOnce'
  BY <1>1, <1>2 DEF Commissions, CommissionOnce
<1>7. QED
  BY <1>3, <1>4, <1>5, <1>6 DEF Commissions

\* The entries are looked at.
LEMMA FindFeeKeeps ==
  ASSUME TypeOK, Commissions, NEW x \in Handlers, FindFee(x)
  PROVE  Commissions'
<1>0. h[x].at = "findFee" /\ h[x].p \in Payments /\ UNCHANGED <<fees, shared, pay>>
  BY DEF FindFee, TypeOK, money
<1>1. CASE End(x)
  <2>1. \A y \in Handlers : h'[y] = h[y] \/ h'[y].at \notin Billing
    BY <1>1, IdleType DEF End, Billing, TypeOK
  <2>2. QED
    BY <1>0, <2>1, Aside
<1>2. CASE fees[h[x].p] <= 0 /\ Goto(x, "addFee")
  <2>1. /\ h'[x].at = "addFee" /\ h'[x].p = h[x].p
        /\ \A y \in Handlers \ {x} : h'[y] = h[y]
    BY <1>2 DEF Goto, TypeOK
  <2>2. \A y \in Handlers, p \in Payments : HasInHand(y, p)' => HasInHand(y, p)
    BY <1>0, <2>1 DEF HasInHand, Billing
  <2>3. OneInHand'
    BY <1>0, <2>2 DEF Commissions, OneInHand
  <2>4. FeeIsNew'
    <3>1. fees[h[x].p] = 0
      BY <1>0, <1>2 DEF TypeOK
    <3>2. QED
      BY <1>0, <2>1, <3>1 DEF Commissions, FeeIsNew
  <2>5. ActivatedFirst'
    BY <1>0, <2>1 DEF Commissions, ActivatedFirst
  <2>6. CommissionOnce'
    BY <1>0 DEF Commissions, CommissionOnce
  <2>7. QED
    BY <2>3, <2>4, <2>5, <2>6 DEF Commissions
<1>3. fees[h[x].p] \in Nat
  BY <1>0 DEF TypeOK
<1>4. QED
  BY <1>1, <1>2, <1>3 DEF FindFee

\* The entry is made: the first of a payment that is not shared.
LEMMA AddFeeKeeps ==
  ASSUME TypeOK, Commissions, NEW x \in Handlers, AddFee(x)
  PROVE  Commissions'
<1>0. /\ h[x].at = "addFee" /\ h[x].p \in Payments /\ UNCHANGED <<shared, pay>>
      /\ fees' = [fees EXCEPT ![h[x].p] = @ + 1] /\ fees \in [Payments -> Nat]
  BY DEF AddFee, TypeOK
<1>1. h'[x].at = "idle" /\ \A y \in Handlers \ {x} : h'[y] = h[y]
  BY IdleType DEF AddFee, End, TypeOK
<1>2. \A y \in Handlers, p \in Payments : HasInHand(y, p)' => HasInHand(y, p) /\ y # x
  BY <1>1 DEF HasInHand, Billing
<1>3. OneInHand'
  BY <1>0, <1>2 DEF Commissions, OneInHand
<1>4. FeeIsNew'
  <2> SUFFICES ASSUME NEW y \in Handlers, h'[y].at = "addFee", h'[y].p \notin shared'
               PROVE  fees'[h'[y].p] = 0
    BY DEF FeeIsNew
  <2>1. y # x /\ h'[y] = h[y] /\ h[y].p \in Payments \ shared
    BY <1>0, <1>1 DEF TypeOK
  <2>2. fees[h[y].p] = 0
    BY <2>1 DEF Commissions, FeeIsNew
  <2>3. h[y].p # h[x].p
    BY <1>0, <2>1 DEF Commissions, OneInHand, HasInHand, Billing
  <2>4. QED
    BY <1>0, <2>1, <2>2, <2>3
<1>5. ActivatedFirst'
  BY <1>0, <1>1 DEF Commissions, ActivatedFirst
<1>6. CommissionOnce'
  <2> SUFFICES ASSUME NEW p \in Payments, fees'[p] > 0
               PROVE  pay[p].status \in {"SUCCESS", "FAILED"} /\ (p \in shared \/ fees'[p] = 1)
    BY <1>0 DEF CommissionOnce
  <2>1. CASE p = h[x].p
    <3>1. pay[p].status \in {"SUCCESS", "FAILED"}
      BY <1>0, <2>1 DEF Commissions, ActivatedFirst
    <3>2. p \in shared \/ fees[p] = 0
      BY <1>0, <2>1 DEF Commissions, FeeIsNew
    <3>3. QED
      BY <1>0, <2>1, <3>1, <3>2
  <2>2. CASE p # h[x].p
    BY <1>0, <2>2 DEF Commissions, CommissionOnce
  <2>3. QED
    BY <2>1, <2>2
<1>7. QED
  BY <1>3, <1>4, <1>5, <1>6 DEF Commissions

\* Commissions are kept by every step.
LEMMA CommissionStep ==
  ASSUME TypeOK, Commissions, Next
  PROVE  Commissions'
<1>1. ASSUME NEW p \in Payments, OpenCheckout(p) \/ Pay(p) PROVE Commissions'
  <2>1. \A q \in Payments : pay[q].status \in {"SUCCESS", "FAILED"} => pay'[q].status = pay[q].status
    BY <1>1 DEF OpenCheckout, Pay, TypeOK
  <2>2. UNCHANGED <<h, fees, shared>>
    BY <1>1 DEF OpenCheckout, Pay, money
  <2>3. QED
    BY <2>1, <2>2, Aside
<1>2. ASSUME NEW x \in Handlers, NEW p \in Payments,
             completeIyzicoCheckout(x, p) \/ handleIyzicoWebhook(x, p) \/ handleWebhook(x, p)
      PROVE  Commissions'
  <2>1. h[x].at = "idle" /\ UNCHANGED <<fees, pay>>
    BY <1>2 DEF completeIyzicoCheckout, handleIyzicoWebhook, handleWebhook, Free
  <2>2. PICK q \in Payments, via \in {"return", "iyzico", "paytr"} : Begin(x, q, via)
    BY <1>2 DEF completeIyzicoCheckout, handleIyzicoWebhook, handleWebhook
  <2>3. QED
    BY <2>1, <2>2, BeginKeeps
<1>3. ASSUME NEW x \in Handlers, NEW p \in Payments, reportRefusal(x, p) PROVE Commissions'
  <2>1. \A y \in Handlers : h'[y] = h[y] \/ h'[y].at \notin Billing
    BY <1>3, HandlingType DEF reportRefusal, Take, Billing, TypeOK
  <2>2. \A q \in Payments : pay[q].status \in {"SUCCESS", "FAILED"} => pay'[q].status \in {"SUCCESS", "FAILED"}
    BY <1>3 DEF reportRefusal, TypeOK
  <2>3. UNCHANGED <<fees, shared>>
    BY <1>3 DEF reportRefusal, money
  <2>4. QED
    BY <2>1, <2>2, <2>3, Aside
<1>4. ASSUME NEW x \in Handlers, FailPayment(x) PROVE Commissions'
  <2>1. \A y \in Handlers : h'[y] = h[y] \/ h'[y].at \notin Billing
    BY <1>4, IdleType DEF FailPayment, End, Billing, TypeOK
  <2>2. \A q \in Payments : pay[q].status \in {"SUCCESS", "FAILED"} => pay'[q].status \in {"SUCCESS", "FAILED"}
    BY <1>4 DEF FailPayment, TypeOK
  <2>3. UNCHANGED <<fees, shared>>
    BY <1>4 DEF FailPayment, money
  <2>4. QED
    BY <2>1, <2>2, <2>3, Aside
<1>5. ASSUME NEW x \in Handlers,
             \/ cancelSubscription(x) \/ subscriptionCanceled(x) \/ reactivateSubscription(x) \/ extendTrial(x)
             \/ TellIyzico(x)
      PROVE  Commissions'
  <2>1. \A y \in Handlers : h'[y] = h[y] \/ h'[y].at \notin Billing
    BY <1>5, HandlingType
       DEF cancelSubscription, subscriptionCanceled, reactivateSubscription, extendTrial, TellIyzico,
           Take, Goto, Billing, TypeOK
  <2>2. UNCHANGED <<fees, shared, pay>>
    BY <1>5 DEF cancelSubscription, subscriptionCanceled, reactivateSubscription, extendTrial, TellIyzico, money
  <2>3. QED
    BY <2>1, <2>2, Aside
<1>6. ASSUME NEW x \in Handlers, WriteCancel(x) \/ WriteCancelled(x) \/ WriteReactivated(x) \/ WriteExtended(x)
      PROVE  Commissions'
  <2>1. End(x) /\ UNCHANGED <<fees, shared, pay>>
    BY <1>6 DEF WriteCancel, WriteCancelled, WriteReactivated, WriteExtended, money
  <2>2. \A y \in Handlers : h'[y] = h[y] \/ h'[y].at \notin Billing
    BY <2>1, IdleType DEF End, Billing, TypeOK
  <2>3. QED
    BY <2>1, <2>2, Aside
<1>7. CASE ListTrial \/ Expire \/ ListRenewal \/ Charge \/ RecordCharge \/ Renew \/ Tick
  <2>1. UNCHANGED <<h, fees, shared, pay>>
    BY <1>7 DEF ListTrial, Expire, ListRenewal, Charge, RecordCharge, Renew, Tick, money
  <2>2. QED
    BY <2>1, Aside
<1>8. CASE Crash
  <2>1. \A y \in Handlers : h'[y].at \notin Billing
    BY <1>8, IdleType DEF Crash, Billing
  <2>2. UNCHANGED <<fees, shared, pay>>
    BY <1>8 DEF Crash
  <2>3. QED
    BY <2>1, <2>2, Aside
<1>9. QED
  BY <1>1, <1>2, <1>3, <1>4, <1>5, <1>6, <1>7, <1>8, ActivateKeeps, FindFeeKeeps, AddFeeKeeps
     DEF Next, Call, Step

----------------------------------------------------------------------------
(* Charges and access. *)

\* Steps that write neither the subscription nor what is charged.
LEMMA Calm ==
  ASSUME Next
  PROVE  \/ UNCHANGED <<now, sub, charges, lost, renewal, mislaid>>
         \/ /\ UNCHANGED <<now, charges, lost, renewal>>
            /\ \/ Expire
               \/ \E x \in Handlers :
                    Activate(x) \/ WriteCancel(x) \/ WriteCancelled(x) \/ WriteReactivated(x) \/ WriteExtended(x)
         \/ ListRenewal \/ Charge \/ RecordCharge \/ Renew \/ Tick \/ Crash
<1>1. ASSUME NEW p \in Payments, OpenCheckout(p) \/ Pay(p)
      PROVE  UNCHANGED <<now, sub, charges, lost, renewal, mislaid>>
  BY <1>1 DEF OpenCheckout, Pay, money
<1>2. ASSUME NEW x \in Handlers, Call(x)
      PROVE  UNCHANGED <<now, sub, charges, lost, renewal, mislaid>>
  BY <1>2 DEF Call, completeIyzicoCheckout, handleIyzicoWebhook, handleWebhook, reportRefusal, cancelSubscription,
              subscriptionCanceled, reactivateSubscription, extendTrial, money
<1>3. ASSUME NEW x \in Handlers, FailPayment(x) \/ FindFee(x) \/ AddFee(x) \/ TellIyzico(x)
      PROVE  UNCHANGED <<now, sub, charges, lost, renewal, mislaid>>
  BY <1>3 DEF FailPayment, FindFee, AddFee, TellIyzico, money
<1>4. CASE ListTrial
  BY <1>4 DEF ListTrial, money
<1>5. CASE Expire
  BY <1>5 DEF Expire, money
<1>6. ASSUME NEW x \in Handlers,
             Activate(x) \/ WriteCancel(x) \/ WriteCancelled(x) \/ WriteReactivated(x) \/ WriteExtended(x)
      PROVE  UNCHANGED <<now, charges, lost, renewal>>
  BY <1>6 DEF Activate, WriteCancel, WriteCancelled, WriteReactivated, WriteExtended, money
<1>7. QED
  BY <1>1, <1>2, <1>3, <1>4, <1>5, <1>6 DEF Next, Step

\* What is known of a charge is kept by every step.
LEMMA ChargeStep ==
  ASSUME TypeOK, ChargeIsKnown, Next
  PROVE  ChargeIsKnown'
<1>0. /\ now \in Int /\ sub.periodEnd \in Int /\ charges \in Nat /\ lost \in BOOLEAN
      /\ sub \in Subscription
  <2>1. sub \in Subscription /\ now \in 0..MaxNow /\ charges \in 0..MaxCharges /\ lost \in BOOLEAN
    BY DEF TypeOK, Subscription
  <2>2. sub.periodEnd \in Ends
    BY <2>1 DEF Subscription
  <2>3. sub.periodEnd \in Int
    BY <2>2, EndsAre
  <2>4. charges \in Nat /\ now \in Int
    BY <2>1, BillingAssumption
  <2>5. QED
    BY <2>1, <2>3, <2>4
<1>1. CASE UNCHANGED <<now, sub, charges, lost, renewal, mislaid>>
  BY <1>1 DEF ChargeIsKnown
<1>2. ASSUME UNCHANGED <<now, charges, lost, renewal>>, sub'.periodEnd \in {sub.periodEnd, now + 1}
      PROVE  ChargeIsKnown'
  BY <1>0, <1>2 DEF ChargeIsKnown
<1>3. ASSUME NEW x \in Handlers,
             Activate(x) \/ WriteCancel(x) \/ WriteCancelled(x) \/ WriteReactivated(x) \/ WriteExtended(x)
      PROVE  sub'.periodEnd \in {sub.periodEnd, now + 1}
  <2>1. Activate(x) => sub'.periodEnd = now + 1
    BY DEF Activate, Activated
  <2>2. WriteReactivated(x) => sub'.periodEnd = now + 1
    BY <1>0 DEF WriteReactivated, Subscription
  <2>3. WriteCancel(x) \/ WriteCancelled(x) => sub'.periodEnd = sub.periodEnd
    BY <1>0 DEF WriteCancel, WriteCancelled, Subscription
  <2>4. WriteExtended(x) => sub'.periodEnd = sub.periodEnd
    BY <1>0 DEF WriteExtended, Subscription
  <2>5. QED
    BY <1>3, <2>1, <2>2, <2>3, <2>4
<1>4. Expire => sub'.periodEnd = sub.periodEnd
  BY DEF Expire, TypeOK
<1>5. CASE ListRenewal
  BY <1>0, <1>5 DEF ListRenewal, ChargeIsKnown, money
<1>6. CASE Charge
  BY <1>0, <1>6 DEF Charge, ChargeIsKnown
<1>7. CASE RecordCharge
  BY <1>0, <1>7 DEF RecordCharge, ChargeIsKnown, money
<1>8. CASE Renew
  <2>1. sub'.periodEnd = now + 1 /\ now' = now /\ renewal' = "idle" /\ UNCHANGED <<charges, lost>>
    BY <1>8 DEF Renew, Renewed, TypeOK, money
  <2>2. QED
    BY <1>0, <2>1 DEF ChargeIsKnown
<1>9. CASE Tick
  BY <1>9 DEF Tick, ChargeIsKnown
<1>10. CASE Crash
  BY <1>0, <1>10 DEF Crash, ChargeIsKnown
<1>11. QED
  BY <1>1, <1>2, <1>3, <1>4, <1>5, <1>6, <1>7, <1>8, <1>9, <1>10, Calm

\* So is what the status says of the period.
LEMMA StatusStep ==
  ASSUME TypeOK, StatusFollows, Next
  PROVE  StatusFollows'
<1>0. /\ now \in Int /\ sub.periodEnd \in Int /\ sub.endsAt \in Int /\ mislaid \in BOOLEAN
      /\ sub.status \in SubStatus /\ sub \in Subscription
      /\ \A x \in Handlers : h[x].end \in Int
  BY BillingAssumption, EndsAre DEF TypeOK, Subscription
<1>1. CASE UNCHANGED <<now, sub, charges, lost, renewal, mislaid>>
  BY <1>1 DEF StatusFollows
<1>2. ASSUME sub'.status = "ACTIVE" PROVE StatusFollows'
  BY <1>2 DEF StatusFollows
<1>3. ASSUME NEW x \in Handlers, Activate(x) \/ WriteReactivated(x) PROVE sub'.status = "ACTIVE"
  <2>1. Activate(x) => sub'.status = "ACTIVE"
    BY DEF Activate, Activated
  <2>2. WriteReactivated(x) => sub'.status = "ACTIVE"
    BY <1>0 DEF WriteReactivated, Subscription
  <2>3. QED
    BY <1>3, <2>1, <2>2
<1>4. Renew => sub'.status = "ACTIVE"
  BY <1>0 DEF Renew, Renewed, Subscription
<1>5. ASSUME NEW x \in Handlers, WriteCancel(x) \/ WriteCancelled(x) PROVE StatusFollows'
  <2>1. /\ sub'.status \in {"CANCELING", "CANCELLED"} /\ sub'.endsAt = h[x].end /\ sub'.periodEnd = sub.periodEnd
        /\ mislaid' = (mislaid \/ h[x].end < sub.periodEnd)
    BY <1>0, <1>5 DEF WriteCancel, WriteCancelled, Subscription
  <2>2. ~mislaid' => ~(h[x].end < sub.periodEnd)
    BY <2>1
  <2>3. ~mislaid' => sub'.periodEnd <= sub'.endsAt
    BY <1>0, <2>1, <2>2
  <2>4. QED
    BY <2>1, <2>3 DEF StatusFollows
<1>6. ASSUME NEW x \in Handlers, WriteExtended(x) PROVE StatusFollows'
  <2>1. /\ sub'.status = "TRIAL" /\ sub'.periodEnd = sub.periodEnd /\ now' = now
        /\ mislaid' = (mislaid \/ sub.status \notin {"TRIAL", "EXPIRED"})
    BY <1>0, <1>6 DEF WriteExtended, Subscription
  <2>2. QED
    BY <1>0, <2>1 DEF StatusFollows
<1>7. CASE Expire
  <2>1. /\ sub'.status = "EXPIRED" /\ sub'.periodEnd = sub.periodEnd /\ now' = now
        /\ mislaid' = (mislaid \/ sub.status # "TRIAL")
    BY <1>0, <1>7 DEF Expire, Subscription
  <2>2. QED
    BY <1>0, <2>1 DEF StatusFollows
<1>8. CASE ListRenewal \/ Charge \/ RecordCharge \/ Crash
  BY <1>8 DEF ListRenewal, Charge, RecordCharge, Crash, money, StatusFollows
<1>9. CASE Tick
  <2>1. sub' = sub /\ mislaid' = mislaid /\ now' = now + 1
    BY <1>9 DEF Tick
  <2>2. QED
    BY <1>0, <2>1 DEF StatusFollows
<1>10. QED
  BY <1>1, <1>2, <1>3, <1>4, <1>5, <1>6, <1>7, <1>8, <1>9, Calm

----------------------------------------------------------------------------
(* The theorems. *)

\* The invariant holds at all times.
THEOREM Inductive == Spec => []IInv
<1>1. IInv /\ [Next]_vars => IInv'
  <2>1. CASE Next
    BY <2>1, TypeStep, CommissionStep, ChargeStep, StatusStep DEF IInv
  <2>2. CASE UNCHANGED vars
    BY <2>2 DEF vars, provider, money, IInv, TypeOK, Commissions, OneInHand, HasInHand, FeeIsNew, ActivatedFirst,
                CommissionOnce, ChargeIsKnown, StatusFollows
  <2>3. QED
    BY <2>1, <2>2
<1>2. QED
  BY <1>1, InitInv, PTL DEF Spec

\* An organisation whose paid period runs is served, whatever it cancelled and whichever of
\* the reports came first.
THEOREM PaidStaysServed == Spec => []PaidIsServed
<1>1. IInv => PaidIsServed
  <2> SUFFICES ASSUME IInv, now < sub.periodEnd, ~mislaid PROVE Served
    BY DEF IInv, PaidIsServed
  <2>1. /\ now \in Int /\ sub.periodEnd \in Int /\ sub.endsAt \in Int
        /\ sub.status \in {"TRIAL", "ACTIVE", "CANCELING", "CANCELLED", "EXPIRED"}
    BY BillingAssumption, EndsAre DEF IInv, TypeOK, SubStatus
  <2>2. QED
    BY <2>1 DEF IInv, StatusFollows, Served
<1>2. QED
  BY <1>1, Inductive, PTL

\* One commission of a payment, for any number of reports.
THEOREM OneCommission == Spec => []CommissionOnce
<1>1. IInv => CommissionOnce
  BY DEF IInv, Commissions
<1>2. QED
  BY <1>1, Inductive, PTL

\* One charge of the stored card in a period, for any number of runs of the schedule.
THEOREM OneCharge == Spec => []ChargedOncePerPeriod
<1>1. IInv => ChargedOncePerPeriod
  BY BillingAssumption DEF IInv, TypeOK, ChargeIsKnown, ChargedOncePerPeriod
<1>2. QED
  BY <1>1, Inductive, PTL
=============================================================================
