-------------------------- MODULE WebhookDelivery --------------------------
(***************************************************************************)
(* Deliveries to a customer's webhook endpoint                             *)
(* (apps/backend/src/webhook/outbound-webhook.service.ts with its queue    *)
(* worker webhook-delivery.processor.ts): an event is queued once for the  *)
(* endpoint, Bull retries it, a user sends it again by hand or sends a     *)
(* test, and a circuit breaker switches the endpoint off.                  *)
(*                                                                         *)
(* <<d, 0>> is what first delivers the row d, <<d, n>> its n-th            *)
(* redelivery.  pc is the await each has reached; every statement is       *)
(* committed by itself, none of this code opens a transaction.             *)
(***************************************************************************)
EXTENDS Integers, FiniteSets

CONSTANTS
  Events,          \* deliveries that dispatch queues
  Tests,           \* deliveries of testEndpoint, which runs them in the request
  Attempts,        \* WEBHOOK_DELIVERY_MAX_ATTEMPTS
  Threshold,       \* WEBHOOK_CIRCUIT_BREAKER_THRESHOLD
  Workers,         \* deliveries the processes of the queue work on at a time
  Resent,          \* bound: the rows that users may send again
  MaxRedeliveries, \* bound: how often each of them
  MaxUpsets        \* bound: changes of the endpoint by its owner, failing statements and
                   \* deaths of the process, taken together

ASSUME WebhookDeliveryAssumption ==
  /\ Events \cap Tests = {} /\ Resent \subseteq Events \cup Tests
  /\ {Attempts, Threshold, Workers} \subseteq Nat \ {0}
  /\ {MaxRedeliveries, MaxUpsets} \subseteq Nat

Deliveries == Events \cup Tests
Jobs == (Deliveries \X {0}) \cup (Resent \X (1..MaxRedeliveries))
Row(j) == j[1]
IsTest(j) == Row(j) \in Tests /\ j[2] = 0

VARIABLES
  endpoint,  \* the WebhookEndpoint row
  status,    \* WebhookDelivery.status
  pc,        \* the await each job or call has reached
  made,      \* attempts Bull has counted
  own,       \* what each holds in memory: the endpoint it read, its result
  accepted,  \* how often the receiver has answered a job that it took the delivery
  edits, faults

vars == <<endpoint, status, pc, made, own, accepted, edits, faults>>

DeliveryStatus == {"PENDING", "SUCCESS", "FAILED", "RETRYING"}
InWorker == {"read", "begin", "post", "record", "count", "disable", "rescue"}
InRequest == {"create", "reset", "add"}
Over == {"completed", "failed", "dropped"}
Running == {j \in Jobs : ~IsTest(j) /\ pc[j] \in InWorker}
NoOwn == [usable |-> FALSE, ok |-> FALSE, caught |-> FALSE]

TypeOK ==
  /\ endpoint \in [exists : BOOLEAN, isActive : BOOLEAN, status : {"ACTIVE", "DISABLED"}, failures : Nat]
  /\ status \in [Deliveries -> DeliveryStatus \cup {"none", "gone"}]
  /\ pc \in [Jobs -> {"idle", "waiting"} \cup InRequest \cup InWorker \cup Over]
  /\ made \in [Jobs -> 0..Attempts]
  /\ own \in [Jobs -> [usable : BOOLEAN, ok : BOOLEAN, caught : BOOLEAN]]
  /\ accepted \in [Jobs -> Nat]
  /\ edits \in Nat /\ faults \in Nat /\ edits + faults <= MaxUpsets
  /\ Cardinality(Running) <= Workers

Init ==
  /\ endpoint = [exists |-> TRUE, isActive |-> TRUE, status |-> "ACTIVE", failures |-> 0]
  /\ status = [d \in Deliveries |-> "none"]
  /\ pc = [j \in Jobs |-> "idle"]
  /\ made = [j \in Jobs |-> 0]
  /\ own = [j \in Jobs |-> NoOwn]
  /\ accepted = [j \in Jobs |-> 0]
  /\ edits = 0 /\ faults = 0

Usable == endpoint.isActive /\ endpoint.status # "DISABLED"
Goto(j, l) == pc' = [pc EXCEPT ![j] = l] /\ UNCHANGED made
Write(j, s) == status' = [status EXCEPT ![Row(j)] = s]
RowExists(j) == status[Row(j)] # "gone"
World == <<accepted, edits, faults>>

\* Mutant of FailAttempt: the attempt is not counted.
MutUncounted(j) ==
  /\ own' = [own EXCEPT ![j] = NoOwn]
  /\ Goto(j, IF IsTest(j) THEN "failed" ELSE "waiting")

\* The attempt throws: Bull runs the job again after a while, or fails it for good.
FailAttempt(j) ==
  /\ own' = [own EXCEPT ![j] = NoOwn]
  /\ IF IsTest(j) THEN Goto(j, "failed")
     ELSE /\ made' = [made EXCEPT ![j] = @ + 1]
          /\ pc' = [pc EXCEPT ![j] = IF made'[j] < Attempts THEN "waiting" ELSE "failed"]

\* Mutant of Return: what counts is the row as it is now, which another job may be at.
MutLooksAtRow(j) ==
  IF status[Row(j)] = "SUCCESS"
  THEN Goto(j, "completed") /\ own' = [own EXCEPT ![j] = NoOwn]
  ELSE FailAttempt(j)

\* handleDeliveryJob: an attempt throws unless deliverOnce returned a SUCCESS.
Return(j) ==
  IF own[j].ok
  THEN Goto(j, "completed") /\ own' = [own EXCEPT ![j] = NoOwn]
  ELSE FailAttempt(j)

\* An error inside deliverOnce: its catch records a failure; an error there is passed on.
ThrowInTry(j) ==
  IF own[j].caught THEN FailAttempt(j)
  ELSE Goto(j, "rescue") /\ own' = [own EXCEPT ![j].ok = FALSE, ![j].caught = TRUE]

----------------------------------------------------------------------------
\* Calls that make deliveries.

dispatch(j) ==
  /\ pc[j] = "idle" /\ Row(j) \in Events /\ j[2] = 0
  /\ endpoint.exists /\ endpoint.isActive /\ endpoint.status = "ACTIVE"
  /\ Goto(j, "create")
  /\ UNCHANGED <<endpoint, status, own, World>>

testEndpoint(j) ==
  /\ pc[j] = "idle" /\ IsTest(j) /\ endpoint.exists
  /\ Goto(j, "create")
  /\ own' = [own EXCEPT ![j].usable = Usable]
  /\ UNCHANGED <<endpoint, status, World>>

\* webhookDelivery.create: refused when the endpoint has been deleted.
CreateRow(j) ==
  /\ pc[j] = "create"
  /\ IF endpoint.exists
     THEN Write(j, "PENDING") /\ Goto(j, IF IsTest(j) THEN "begin" ELSE "add")
     ELSE Goto(j, "dropped") /\ UNCHANGED status
  /\ UNCHANGED <<endpoint, own, World>>

\* redeliver reads the row and refuses one that was delivered.
redeliver(j) ==
  /\ pc[j] = "idle" /\ j[2] > 0 /\ pc[<<Row(j), j[2] - 1>>] # "idle"
  /\ endpoint.exists /\ status[Row(j)] \notin {"none", "gone", "SUCCESS"}
  /\ Goto(j, "reset")
  /\ UNCHANGED <<endpoint, status, own, World>>

ResetRow(j) ==
  /\ pc[j] = "reset"
  /\ IF RowExists(j) THEN Write(j, "PENDING") /\ Goto(j, "add")
                     ELSE Goto(j, "dropped") /\ UNCHANGED status
  /\ UNCHANGED <<endpoint, own, World>>

AddJob(j) ==
  /\ pc[j] = "add"
  /\ Goto(j, "waiting")
  /\ UNCHANGED <<endpoint, status, own, World>>

----------------------------------------------------------------------------
\* deliverOnce, in the worker or in the request of a test.

Take(j) ==
  /\ pc[j] = "waiting" /\ Cardinality(Running) < Workers
  /\ Goto(j, "read")
  /\ UNCHANGED <<endpoint, status, own, World>>

ReadEndpoint(j) ==
  /\ pc[j] = "read"
  /\ IF endpoint.exists
     THEN Goto(j, "begin") /\ own' = [own EXCEPT ![j].usable = Usable]
     ELSE FailAttempt(j)
  /\ UNCHANGED <<endpoint, status, World>>

\* Mutant of Begin: a delivery to an endpoint that is off ends without a word in its row.
MutSkipsInactive(j) ==
  /\ pc[j] = "begin"
  /\ IF RowExists(j) /\ own[j].usable THEN Write(j, "RETRYING") /\ Goto(j, "post") /\ UNCHANGED own
     ELSE FailAttempt(j) /\ UNCHANGED status
  /\ UNCHANGED <<endpoint, World>>

\* An endpoint that was off when it was read gets nothing.
Begin(j) ==
  /\ pc[j] = "begin"
  /\ IF ~RowExists(j) THEN FailAttempt(j) /\ UNCHANGED status
     ELSE IF own[j].usable THEN Write(j, "RETRYING") /\ Goto(j, "post") /\ UNCHANGED own
     ELSE Write(j, "FAILED") /\ FailAttempt(j)
  /\ UNCHANGED <<endpoint, World>>

\* fetch: the receiver answers that it takes the delivery, or refuses it, or no answer comes
\* in time, whether it took it or not.
Post(j) ==
  /\ pc[j] = "post"
  /\ \/ /\ accepted' = [accepted EXCEPT ![j] = @ + 1]
        /\ Goto(j, "record") /\ own' = [own EXCEPT ![j].ok = TRUE]
     \/ Goto(j, "record") /\ UNCHANGED <<own, accepted>>
     \/ ThrowInTry(j) /\ UNCHANGED accepted
  /\ UNCHANGED <<endpoint, status, edits, faults>>

Record(j) ==
  /\ pc[j] = "record"
  /\ IF RowExists(j)
     THEN Write(j, IF own[j].ok THEN "SUCCESS" ELSE "FAILED") /\ Goto(j, "count") /\ UNCHANGED own
     ELSE ThrowInTry(j) /\ UNCHANGED status
  /\ UNCHANGED <<endpoint, World>>

\* The catch of deliverOnce.
Rescue(j) ==
  /\ pc[j] = "rescue"
  /\ IF RowExists(j) THEN Write(j, "FAILED") /\ Goto(j, "count") /\ UNCHANGED own
                     ELSE FailAttempt(j) /\ UNCHANGED status
  /\ UNCHANGED <<endpoint, World>>

Trips(n) == n >= Threshold

\* Mutant of recordDeliveryOutcome: a refusal that finds the endpoint on switches it off.
MutTripsAtOnce(j) ==
  /\ pc[j] = "count"
  /\ IF ~endpoint.exists THEN ThrowInTry(j) /\ UNCHANGED endpoint
     ELSE IF own[j].ok THEN endpoint' = [endpoint EXCEPT !.failures = 0] /\ Return(j)
     ELSE /\ endpoint' = [endpoint EXCEPT !.failures = @ + 1]
          /\ IF (Trips(endpoint'.failures) \/ own[j].caught) /\ endpoint.status = "ACTIVE"
             THEN Goto(j, "disable") /\ UNCHANGED own
             ELSE Return(j)
  /\ UNCHANGED <<status, World>>

recordDeliveryOutcome(j) ==
  /\ pc[j] = "count"
  /\ IF ~endpoint.exists THEN ThrowInTry(j) /\ UNCHANGED endpoint
     ELSE IF own[j].ok THEN endpoint' = [endpoint EXCEPT !.failures = 0] /\ Return(j)
     ELSE /\ endpoint' = [endpoint EXCEPT !.failures = @ + 1]
          /\ IF Trips(endpoint'.failures) /\ endpoint.status = "ACTIVE"
             THEN Goto(j, "disable") /\ UNCHANGED own
             ELSE Return(j)
  /\ UNCHANGED <<status, World>>

Disabled == [endpoint EXCEPT !.status = "DISABLED", !.isActive = FALSE]

disableEndpoint(j) ==
  /\ pc[j] = "disable"
  /\ IF endpoint.exists
     THEN endpoint' = Disabled /\ Return(j)
     ELSE ThrowInTry(j) /\ UNCHANGED endpoint
  /\ UNCHANGED <<status, World>>

----------------------------------------------------------------------------
\* What the owner does meanwhile, and faults.

\* updateEndpoint with isActive true, or rotateEndpointSecret.
SwitchOn == endpoint' = [endpoint EXCEPT !.isActive = TRUE, !.status = "ACTIVE", !.failures = 0] /\ UNCHANGED status
SwitchOff == endpoint' = [endpoint EXCEPT !.isActive = FALSE] /\ UNCHANGED status

\* deleteEndpoint: its deliveries go with it.
Delete ==
  /\ endpoint' = [endpoint EXCEPT !.exists = FALSE]
  /\ status' = [d \in Deliveries |-> IF status[d] = "none" THEN "none" ELSE "gone"]

Edit ==
  /\ endpoint.exists /\ edits + faults < MaxUpsets
  /\ edits' = edits + 1
  /\ SwitchOn \/ SwitchOff \/ Delete
  /\ UNCHANGED <<pc, made, own, accepted, faults>>

\* A statement fails, the look for the owner after the switching off included.
StatementFails(j) ==
  /\ edits + faults < MaxUpsets
  /\ faults' = faults + 1
  /\ \/ /\ pc[j] \in InRequest /\ UNCHANGED endpoint
        /\ Goto(j, "dropped") /\ own' = [own EXCEPT ![j] = NoOwn]
     \/ pc[j] \in {"read", "begin", "rescue"} /\ FailAttempt(j) /\ UNCHANGED endpoint
     \/ pc[j] \in {"record", "count", "disable"} /\ ThrowInTry(j) /\ UNCHANGED endpoint
     \/ pc[j] = "disable" /\ endpoint.exists /\ endpoint' = Disabled /\ ThrowInTry(j)
  /\ UNCHANGED <<status, accepted, edits>>

\* The process dies; Bull hands the jobs it was at to the next worker.
Crash ==
  /\ edits + faults < MaxUpsets
  /\ faults' = faults + 1
  /\ pc' = [j \in Jobs |-> IF j \in Running THEN "waiting"
                           ELSE IF pc[j] \in InRequest \cup InWorker THEN "dropped" ELSE pc[j]]
  /\ own' = [j \in Jobs |-> NoOwn]
  /\ UNCHANGED <<endpoint, status, made, accepted, edits>>

Ask(j) == dispatch(j) \/ testEndpoint(j) \/ redeliver(j)
Step(j) ==
  \/ CreateRow(j) \/ ResetRow(j) \/ AddJob(j)
  \/ Take(j) \/ ReadEndpoint(j) \/ Begin(j) \/ Post(j) \/ Record(j) \/ Rescue(j)
  \/ recordDeliveryOutcome(j) \/ disableEndpoint(j)

Next ==
  \/ \E j \in Jobs : Ask(j) \/ Step(j) \/ StatementFails(j)
  \/ Edit
  \/ Crash

Spec == Init /\ [][Next]_vars

\* The process and Bull keep running; callers, owners and faults owe nothing.
FairSpec == Spec /\ \A j \in Jobs : WF_vars(Step(j))

----------------------------------------------------------------------------
(* Properties *)

\* A row that is not delivered and not failed has somebody who is still to deliver it: jobs
\* that meet an endpoint switched off, cross a redelivery or lose an answer leave no row
\* PENDING or RETRYING (a failed statement or a crash between the row and the queue may).
OpenRowsAreQueued ==
  faults = 0 => \A d \in Deliveries : status[d] \in {"PENDING", "RETRYING"} =>
    \E j \in Jobs : Row(j) = d /\ pc[j] \in {"add", "waiting"} \cup InWorker

\* No job posts again once the receiver's answer that it took that job's post has arrived:
\* Bull's retries of a job repeat only what was refused or not answered, unless a statement or
\* the process failed.  This is about each job by itself: a redelivery that crosses the first
\* job's success posts the event once more (SuccessNotResent).  (The types are checked along
\* with it.)
RepeatsAreExplained ==
  TypeOK /\ \A j \in Jobs : accepted[j] <= 1 + faults

\* The endpoint is switched off only on account of a failure that was the threshold's when it
\* was counted, and only the owner switches it on: refinement of EndpointBreaker.
Breaker == INSTANCE EndpointBreaker WITH
  state <- endpoint.status,
  count <- endpoint.failures,
  due <- Cardinality({j \in Jobs : pc[j] = "disable"})
KeepsBreaker == Breaker!Spec

\* Whatever the receiver does, a queued delivery comes to an end.
DeliveriesEnd == \A j \in Jobs : pc[j] = "waiting" ~> pc[j] \in Over

\* outbound-webhook.service.ts:286, 'Başarılı teslimat tekrar gönderilemez': what has been
\* delivered is not sent again.
SuccessNotResent ==
  [][\A d \in Deliveries : status[d] = "SUCCESS" => status'[d] \in {"SUCCESS", "gone"}]_vars
=============================================================================
