------------------------ MODULE SubscriptionBilling ------------------------
(***************************************************************************)
(* The subscription of an organisation and its payments                    *)
(* (apps/backend/src/subscription/subscription.service.ts,                 *)
(* subscription-renewal.task.ts, trial.service.ts, partner/partner.        *)
(* service.ts recordCommission).                                           *)
(*                                                                         *)
(* A payment is reported by the customer's return from the payment page    *)
(* and by the provider's notifications, each as often as it likes and at   *)
(* the same time; the subscription is also written by the panel's          *)
(* cancellation and reactivation and by two schedules.  Each reads the     *)
(* rows in one statement and writes them by id in another; a partner's     *)
(* commission is recorded after the transaction that activates.            *)
(*                                                                         *)
(* Time is counted in billing periods.  A handler takes seconds, so the    *)
(* clock stands still while one runs; the schedules run many times in a    *)
(* period.                                                                 *)
(***************************************************************************)
EXTENDS Integers

CONSTANTS
  Handlers,   \* requests and notifications that are handled at the same time
  Payments,   \* bound: checkouts, numbered in the order they are opened
  MaxNow,     \* bound: periods the clock runs for
  MaxCharges  \* bound: charges of a stored card in a period

ASSUME BillingAssumption ==
  /\ Payments \subseteq Nat \ {0} /\ Payments # {}
  /\ Handlers \subseteq Nat /\ MaxNow \in Nat /\ MaxCharges \in Nat

SubStatus == {"TRIAL", "ACTIVE", "CANCELING", "CANCELLED", "EXPIRED"}
PaymentStatus == {"NONE", "PENDING", "SUCCESS", "FAILED"}
Null == -1
Ends == -1..(MaxNow + 1)

VARIABLES
  now,        \* the clock
  sub,        \* the Subscription row
  pay,        \* the Payment rows of checkouts, and what their provider knows
  ref,        \* whether IyzicoSubscription.subscriptionRefCode is stored
  card,       \* whether a card is stored (cardTokenEnc, cardUserKeyEnc)
  ended,      \* whether Iyzico has cancelled its subscription
  fees,       \* CommissionLedger rows of a payment
  shared,     \* payments that two handlers had in hand at the same time
  mislaid,    \* whether a status was written over another than the one that was read,
              \* or a cancellation was dated before the end of the period
  charges, lost, \* charges of the stored card in this period, and whether the answer of one,
              \* or the process before it wrote the charge down, was lost
  h, trial, renewal \* the handlers and the runs of the two schedules

money == <<fees, shared, charges, lost>>
provider == <<ref, card, ended>>
vars == <<now, sub, pay, provider, money, mislaid, h, trial, renewal>>

Handling(at, p, via, end) == [at |-> at, p |-> p, via |-> via, end |-> end]
None == CHOOSE p \in Payments : TRUE
Idle == Handling("idle", None, "return", Null)
Places == {"idle", "activate", "fail", "findFee", "addFee", "cancel", "cancelWrite", "cancelled",
           "reactivate", "extend"}

TypeOK ==
  /\ now \in 0..MaxNow
  /\ sub \in [status : SubStatus, trialEnd : Ends, periodEnd : Ends, endsAt : Ends]
  /\ pay \in [Payments -> [status : PaymentStatus, by : {"iyzico", "paytr"},
                           paid : BOOLEAN, page : BOOLEAN]]
  /\ {ref, card, ended, mislaid, lost} \subseteq BOOLEAN
  /\ fees \in [Payments -> Nat] /\ shared \subseteq Payments
  /\ charges \in 0..MaxCharges
  /\ h \in [Handlers -> [at : Places, p : Payments, via : {"return", "iyzico", "paytr"}, end : Ends]]
  /\ trial \in {"idle", "listed"}
  /\ renewal \in {"idle", "listed", "charged", "recorded"}

\* auth.service.ts register: a trial that ends in the first period.
Init ==
  /\ now = 0
  /\ sub = [status |-> "TRIAL", trialEnd |-> 0, periodEnd |-> 0, endsAt |-> Null]
  /\ pay = [p \in Payments |-> [status |-> "NONE", by |-> "iyzico",
                                paid |-> FALSE, page |-> FALSE]]
  /\ ref = FALSE /\ card = FALSE /\ ended = FALSE
  /\ fees = [p \in Payments |-> 0] /\ shared = {}
  /\ mislaid = FALSE
  /\ charges = 0 /\ lost = FALSE
  /\ h = [x \in Handlers |-> Idle] /\ trial = "idle" /\ renewal = "idle"

\* The slots are alike: a request takes the first that is free.
Free(x) == h[x].at = "idle" /\ \A y \in Handlers : y < x => h[y].at # "idle"
Take(x, at, p, via, end) == h' = [h EXCEPT ![x] = Handling(at, p, via, end)]
Goto(x, l) == h' = [h EXCEPT ![x].at = l]
End(x) == h' = [h EXCEPT ![x] = Idle]

----------------------------------------------------------------------------
\* Checkouts.

\* startSubscription, createUpgradeCheckout (Iyzico) and createCheckoutToken (PayTR): the payment
\* is inserted and the provider asked for a page; without one the payment is closed.
OpenCheckout(p) ==
  /\ pay[p].status = "NONE" /\ \A q \in Payments : q < p => pay[q].status # "NONE"
  /\ \E by \in {"iyzico", "paytr"}, s \in {"PENDING", "FAILED"} :
       pay' = [pay EXCEPT ![p] = [@ EXCEPT !.status = s, !.by = by, !.page = s = "PENDING"]]
  /\ UNCHANGED <<now, sub, provider, money, mislaid, h, trial, renewal>>

\* The customer pays on the page.
Pay(p) ==
  /\ pay[p].page /\ ~pay[p].paid
  /\ pay' = [pay EXCEPT ![p].paid = TRUE]
  /\ UNCHANGED <<now, sub, provider, money, mislaid, h, trial, renewal>>

----------------------------------------------------------------------------
\* Reports of a payment.

InHand(x, p) == {y \in Handlers \ {x} : h[y].at \in {"activate", "findFee", "addFee"} /\ h[y].p = p}

\* activateSubscriptionFromIyzicoPayment and handleWebhook leave a payment that has succeeded.
Begin(x, p, via) ==
  /\ pay[p].status # "SUCCESS"
  /\ Take(x, "activate", p, via, Null)
  /\ shared' = IF InHand(x, p) # {} THEN shared \cup {p} ELSE shared

\* The customer comes back from the page and the provider confirms the payment.
completeIyzicoCheckout(x, p) ==
  /\ Free(x) /\ pay[p].by = "iyzico" /\ pay[p].paid /\ pay[p].status = "PENDING"
  /\ Begin(x, p, "return")
  /\ UNCHANGED <<now, sub, pay, provider, fees, charges, lost, mislaid,
                 trial, renewal>>

\* Iyzico reports a payment.  If its order is not found, the organisation's latest open payment
\* is taken for it, once the subscription's reference is known.
Latest(p) == pay[p].status = "PENDING" /\ \A q \in Payments : q > p => pay[q].status # "PENDING"
handleIyzicoWebhook(x, p) ==
  /\ Free(x) /\ pay[p].by = "iyzico" /\ pay[p].paid
  /\ \/ Begin(x, p, "iyzico")
     \/ \E q \in Payments : ref /\ Latest(q) /\ Begin(x, q, "iyzico")
  /\ UNCHANGED <<now, sub, pay, provider, fees, charges, lost, mislaid,
                 trial, renewal>>

\* PayTR reports a payment.
handleWebhook(x, p) ==
  /\ Free(x) /\ pay[p].by = "paytr" /\ pay[p].paid
  /\ Begin(x, p, "paytr")
  /\ UNCHANGED <<now, sub, pay, provider, fees, charges, lost, mislaid,
                 trial, renewal>>

\* An attempt on the page that the bank refused is reported, sooner or later: Iyzico's report
\* closes an open payment in one statement, PayTR's any payment that was not closed when it
\* was read.
reportRefusal(x, p) ==
  /\ Free(x) /\ pay[p].page
  /\ \/ /\ pay[p].by = "iyzico" /\ pay[p].status = "PENDING"
        /\ pay' = [pay EXCEPT ![p].status = "FAILED"] /\ UNCHANGED h
     \/ /\ pay[p].by = "paytr" /\ pay[p].status # "FAILED"
        /\ Take(x, "fail", p, "return", Null) /\ UNCHANGED pay
  /\ UNCHANGED <<now, sub, provider, money, mislaid, trial, renewal>>

FailPayment(x) ==
  /\ h[x].at = "fail"
  /\ pay' = [pay EXCEPT ![h[x].p].status = "FAILED"]
  /\ End(x)
  /\ UNCHANGED <<now, sub, provider, money, mislaid, trial, renewal>>

\* Mutant of Activated: a cancelled subscription stays cancelled.
MutOnlyDates(via) ==
  [sub EXCEPT !.trialEnd = Null, !.periodEnd = now + 1,
     !.status = IF @ \in {"CANCELING", "CANCELLED"} THEN @ ELSE "ACTIVE"]

\* PayTR's activation leaves subscriptionEndsAt as it was.
Activated(via) ==
  [status |-> "ACTIVE", trialEnd |-> Null, periodEnd |-> now + 1,
   endsAt |-> IF via = "paytr" THEN sub.endsAt ELSE Null]

Activate(x) ==
  /\ h[x].at = "activate"
  /\ pay' = [pay EXCEPT ![h[x].p].status = "SUCCESS"]
  /\ sub' = Activated(h[x].via)
  /\ card' = (card \/ h[x].via = "return") /\ ref' = (ref \/ h[x].via = "iyzico")
  /\ mislaid' = FALSE
  /\ Goto(x, "findFee")
  /\ UNCHANGED <<now, ended, money, trial, renewal>>

\* Mutant of FindFee: an entry is made without a look at those there are.
MutFeeAgain(x) ==
  /\ h[x].at = "findFee"
  /\ Goto(x, "addFee")
  /\ UNCHANGED <<now, sub, pay, provider, money, mislaid, trial, renewal>>

\* recordCommission looks for an entry of the payment, then makes one.
FindFee(x) ==
  /\ h[x].at = "findFee"
  /\ IF fees[h[x].p] > 0 THEN End(x) ELSE Goto(x, "addFee")
  /\ UNCHANGED <<now, sub, pay, provider, money, mislaid, trial, renewal>>

AddFee(x) ==
  /\ h[x].at = "addFee"
  /\ fees' = [fees EXCEPT ![h[x].p] = @ + 1]
  /\ End(x)
  /\ UNCHANGED <<now, sub, pay, provider, shared, charges, lost, mislaid,
                 trial, renewal>>

----------------------------------------------------------------------------
\* Cancellation, reactivation and extension.

cancelSubscription(x) ==
  /\ Free(x) /\ sub.status \notin {"CANCELLED", "CANCELING"}
  /\ Take(x, "cancel", None, "return", sub.periodEnd)
  /\ UNCHANGED <<now, sub, pay, provider, money, mislaid, trial, renewal>>

\* Iyzico is told if it has a subscription; an error is only logged.
TellIyzico(x) ==
  /\ h[x].at = "cancel"
  /\ ended' = (ended \/ ref) \/ UNCHANGED ended
  /\ Goto(x, "cancelWrite")
  /\ UNCHANGED <<now, sub, pay, ref, card, money, mislaid, trial, renewal>>

WriteCancel(x) ==
  /\ h[x].at = "cancelWrite"
  /\ sub' = [sub EXCEPT !.status = "CANCELING", !.endsAt = h[x].end]
  /\ mislaid' = (mislaid \/ h[x].end < sub.periodEnd)
  /\ End(x)
  /\ UNCHANGED <<now, pay, provider, money, trial, renewal>>

\* Iyzico reports that its subscription has ended, as often as it likes.
subscriptionCanceled(x) ==
  /\ Free(x) /\ ended
  /\ Take(x, "cancelled", None, "return", IF sub.endsAt # Null THEN sub.endsAt ELSE sub.periodEnd)
  /\ UNCHANGED <<now, sub, pay, provider, money, mislaid, trial, renewal>>

WriteCancelled(x) ==
  /\ h[x].at = "cancelled"
  /\ sub' = [sub EXCEPT !.status = "CANCELLED", !.endsAt = h[x].end]
  /\ mislaid' = (mislaid \/ h[x].end < sub.periodEnd)
  /\ End(x)
  /\ UNCHANGED <<now, pay, provider, money, trial, renewal>>

\* A cancelled subscription is active again for a period.
reactivateSubscription(x) ==
  /\ Free(x) /\ sub.status = "CANCELLED"
  /\ Goto(x, "reactivate")
  /\ UNCHANGED <<now, sub, pay, provider, money, mislaid, trial, renewal>>

WriteReactivated(x) ==
  /\ h[x].at = "reactivate"
  /\ sub' = [sub EXCEPT !.status = "ACTIVE", !.trialEnd = Null, !.periodEnd = now + 1]
  /\ mislaid' = FALSE
  /\ End(x)
  /\ UNCHANGED <<now, pay, provider, money, trial, renewal>>

extendTrial(x) ==
  /\ Free(x) /\ sub.status \in {"TRIAL", "EXPIRED"} /\ sub.trialEnd <= MaxNow
  /\ Take(x, "extend", None, "return", (IF sub.trialEnd > now THEN sub.trialEnd ELSE now) + 1)
  /\ UNCHANGED <<now, sub, pay, provider, money, mislaid, trial, renewal>>

WriteExtended(x) ==
  /\ h[x].at = "extend"
  /\ sub' = [sub EXCEPT !.status = "TRIAL", !.trialEnd = h[x].end]
  /\ mislaid' = (mislaid \/ sub.status \notin {"TRIAL", "EXPIRED"})
  /\ End(x)
  /\ UNCHANGED <<now, pay, provider, money, trial, renewal>>

----------------------------------------------------------------------------
\* The schedules.

TrialIsOver == sub.status = "TRIAL" /\ sub.trialEnd < now

\* processExpiredTrials lists the trials that are over, then writes each by id.
ListTrial ==
  /\ trial = "idle" /\ TrialIsOver
  /\ trial' = "listed"
  /\ UNCHANGED <<now, sub, pay, provider, money, mislaid, h, renewal>>

Expire ==
  /\ trial = "listed"
  /\ sub' = [sub EXCEPT !.status = "EXPIRED"]
  /\ mislaid' = (mislaid \/ sub.status # "TRIAL")
  /\ trial' = "idle"
  /\ UNCHANGED <<now, pay, provider, money, h, renewal>>

\* processIyzicoRenewals lists the active subscriptions that are due and have a card.
ListRenewal ==
  /\ renewal = "idle" /\ sub.status = "ACTIVE" /\ sub.periodEnd <= now /\ card
  /\ renewal' = "listed"
  /\ UNCHANGED <<now, sub, pay, provider, money, mislaid, h, trial>>

\* The card is charged or refused, or the answer is lost.
Charge ==
  /\ renewal = "listed" /\ charges < MaxCharges
  /\ \/ /\ charges' = charges + 1
        /\ \/ renewal' = "charged" /\ UNCHANGED lost
           \/ renewal' = "idle" /\ lost' = TRUE
     \/ renewal' = "idle" /\ UNCHANGED <<charges, lost>>
  /\ UNCHANGED <<now, sub, pay, provider, fees, shared, mislaid, h, trial>>

\* The payment is inserted, then the subscription is written, whatever it has become.
RecordCharge ==
  /\ renewal = "charged"
  /\ renewal' = "recorded"
  /\ UNCHANGED <<now, sub, pay, provider, money, mislaid, h, trial>>

\* Mutant of Renewed: the next billing date stays.
MutStaysDue == [sub EXCEPT !.status = "ACTIVE"]

Renewed == [sub EXCEPT !.status = "ACTIVE", !.periodEnd = now + 1]

Renew ==
  /\ renewal = "recorded"
  /\ sub' = Renewed
  /\ mislaid' = FALSE
  /\ renewal' = "idle"
  /\ UNCHANGED <<now, pay, provider, money, h, trial>>

Quiet == (\A x \in Handlers : h[x] = Idle) /\ trial = "idle" /\ renewal = "idle"
Tick ==
  /\ Quiet /\ now < MaxNow
  /\ now' = now + 1
  /\ charges' = 0 /\ lost' = FALSE
  /\ UNCHANGED <<sub, pay, provider, fees, shared, mislaid, h, trial, renewal>>

\* What the process was doing is lost; the provider and the schedules come again.
Crash ==
  /\ ~Quiet
  /\ h' = [x \in Handlers |-> Idle] /\ trial' = "idle" /\ renewal' = "idle"
  /\ lost' = (lost \/ renewal \in {"charged", "recorded"})
  /\ UNCHANGED <<now, sub, pay, provider, fees, shared, charges, mislaid>>

Call(x) ==
  \/ \E p \in Payments : completeIyzicoCheckout(x, p) \/ handleIyzicoWebhook(x, p)
                           \/ handleWebhook(x, p) \/ reportRefusal(x, p)
  \/ cancelSubscription(x) \/ subscriptionCanceled(x) \/ reactivateSubscription(x)
  \/ extendTrial(x)
Step(x) ==
  \/ FailPayment(x) \/ Activate(x) \/ FindFee(x) \/ AddFee(x) \/ TellIyzico(x) \/ WriteCancel(x)
  \/ WriteCancelled(x) \/ WriteReactivated(x) \/ WriteExtended(x)

Next ==
  \/ \E p \in Payments : OpenCheckout(p) \/ Pay(p)
  \/ \E x \in Handlers : Call(x) \/ Step(x)
  \/ ListTrial \/ Expire
  \/ ListRenewal \/ Charge \/ RecordCharge \/ Renew
  \/ Tick \/ Crash

Spec == Init /\ [][Next]_vars

----------------------------------------------------------------------------
(* Properties *)

Served ==
  \/ sub.status = "ACTIVE"
  \/ sub.status \in {"CANCELING", "CANCELLED"} /\ now <= sub.endsAt
  \/ sub.status = "TRIAL" /\ now <= sub.trialEnd

\* An organisation that has paid for the running period can use its subscription, whatever it
\* cancelled before, and whichever of the reports came first, unless a status was written over
\* a newer one or a cancellation was dated by an older period.  (The types are checked along
\* with it.)
PaidIsServed == TypeOK /\ (now < sub.periodEnd /\ ~mislaid => Served)

\* A partner gets one commission of a payment, and none of one that is still open, however
\* often the payment is reported, unless two reports are handled at the same time.
CommissionOnce ==
  \A p \in Payments : fees[p] > 0 =>
    pay[p].status \in {"SUCCESS", "FAILED"} /\ (p \in shared \/ fees[p] = 1)

\* The stored card is charged once for a period, unless the answer of a charge, or the process
\* before it wrote the charge down, was lost.
ChargedOncePerPeriod == charges > 1 => lost

\* partner.service.ts:870, 'idempotent, paymentId ile' (idempotent, by the payment's id).
CommissionIsIdempotent == \A p \in Payments : fees[p] <= 1

\* SubscriptionTab.tsx:1013, 'İptal sonrası mevcut dönem bitimine kadar erişiminiz devam eder'
\* (after a cancellation your access continues until the end of the current period).
AccessUntilPeriodEnd ==
  sub.status \in {"CANCELING", "CANCELLED"} => sub.endsAt >= sub.periodEnd
=============================================================================
