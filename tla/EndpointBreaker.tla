-------------------------- MODULE EndpointBreaker --------------------------
(***************************************************************************)
(* What the circuit breaker of a webhook endpoint promises: failures are   *)
(* counted one by one, an endpoint is switched off only by a failure that  *)
(* was the Threshold-th in a row (or a later one) when it was counted, and *)
(* only its owner switches it on again.  WebhookDelivery is shown to       *)
(* implement it.                                                           *)
(***************************************************************************)
EXTENDS Integers

CONSTANT Threshold   \* WEBHOOK_CIRCUIT_BREAKER_THRESHOLD

VARIABLES
  state,   \* "ACTIVE" or "DISABLED"
  count,   \* failures counted since the last success or the last switching on
  due      \* failures that reached the threshold and have not switched it off yet

Init == state = "ACTIVE" /\ count = 0 /\ due = 0

Fail ==
  /\ count' = count + 1
  /\ due' = due + (IF count' >= Threshold /\ state = "ACTIVE" THEN 1 ELSE 0)
  /\ UNCHANGED state

Succeed == count' = 0 /\ UNCHANGED <<state, due>>

Trip == due > 0 /\ due' = due - 1 /\ state' = "DISABLED" /\ UNCHANGED count

SwitchOn == state' = "ACTIVE" /\ count' = 0 /\ UNCHANGED due

\* The process dies or the database fails before the endpoint is switched off.
Forget == due' \in 0..due /\ UNCHANGED <<state, count>>

Next == Fail \/ Succeed \/ Trip \/ SwitchOn \/ Forget

Spec == Init /\ [][Next]_<<state, count, due>>
=============================================================================
