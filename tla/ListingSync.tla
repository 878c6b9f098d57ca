---------------------------- MODULE ListingSync ----------------------------
(***************************************************************************)
(* Pushing stock to the marketplaces: the listing-sync queue, its worker,  *)
(* its retries, and the dead-letter queue with its nightly replay          *)
(* (apps/backend/src/sync/listing-push.service.ts, jobs/listing-sync.      *)
(* processor.ts, jobs/dlq.processor.ts).                                   *)
(*                                                                         *)
(* A push is one change of stock whose new quantities travel in a Bull     *)
(* job.  A push that is dead-lettered and replayed gets a new job: a job   *)
(* is a push and a generation.  Bull itself is modelled from how the code  *)
(* uses it: an attempt that throws is retried until the job's attempts are *)
(* used up, every throw emits 'failed', and the jobs a dead worker leaves  *)
(* active run again.                                                       *)
(***************************************************************************)
EXTENDS Integers, FiniteSets

CONSTANTS
  Pushes,       \* the stock changes
  Listings,     \* the listings of one platform
  Updates,      \* the listings a push is for: those in a batch as it was queued, those of
                \* its barcode else: [Pushes -> SUBSET Listings]
  Quantity,     \* that quantity: [Pushes -> Nat]
  Names,        \* what Bull's job of a push may be called: [Pushes -> SUBSET JobNames]
  Attempts,     \* attempts of LISTING_SYNC_JOB_OPTIONS
  Workers,      \* QUEUE_WORKER_CONCURRENCY.listingSync
  MaxReplays,   \* bound: replays of one push
  OtherQuantities,  \* quantities others than the worker write to Listing.quantity
  MaxFaults     \* bound: deaths of the worker process, changes of settings, and writes of
                \* Listing.quantity by others

\* Bull's name of a job: a batch has its updates with it, a sync-stock job a barcode.
JobNames == {"sync-batch", "sync-stock"}

ASSUME ListingSyncAssumption ==
  /\ Updates \in [Pushes -> (SUBSET Listings) \ {{}}]
  /\ Quantity \in [Pushes -> Nat]
  /\ Names \in [Pushes -> SUBSET JobNames]
  /\ OtherQuantities \subseteq Nat
  /\ IsFiniteSet(Listings)
  /\ {Attempts, Workers} \subseteq Nat \ {0}
  /\ {MaxReplays, MaxFaults} \subseteq Nat

VARIABLES
  job,       \* Bull's record of each job
  work,      \* what the worker holds in memory about an active job
  hook,      \* how far the failed-event handler of a job is
  accepted,  \* the quantities the marketplace has accepted for each listing
  mirror,    \* Listing.quantity, and who has written it
  dlq,       \* waiting jobs of the dead-letter queue: kind, job -> how many
  night,     \* jobs the nightly task still has to move, with what it does next
  alerts,    \* jobs reported as permanently failed
  settings,  \* the connection (pushing, pushStock off, or gone), and the listings whose
             \* product may be pushed (Product.pushStockEnabled)
  faults     \* what counts towards MaxFaults so far

vars == <<job, work, hook, accepted, mirror, dlq, night, alerts, settings, faults>>

Jobs == Pushes \X (0..MaxReplays)
Push(j) == j[1]
Copy(j) == j[2]

\* "waiting" is also Bull's "delayed": a job whose backoff is not over.
JobState == {"none", "waiting", "active", "completed", "failed"}
NoJob == [name |-> "sync-batch", state |-> "none", made |-> 0, max |-> Attempts]
Stages == {"listings", "connection", "policy", "call", "items", "mirror"}
Work == [at : Stages, todo : SUBSET Listings, ok : SUBSET Listings]
Idle == [at |-> "listings", todo |-> {}, ok |-> {}]
DlqKinds == {"store", "replay"}

TypeOK ==
  /\ job \in [Jobs -> [name : JobNames, state : JobState, made : 0..Attempts, max : {1, Attempts}]]
  /\ work \in [Jobs -> Work]
  /\ hook \in [Jobs -> {"none", "handle", "permanent"}]
  /\ accepted \in [Listings -> SUBSET Nat]
  /\ mirror \in [Listings -> [quantity : Nat, by : {"worker", "other"}]]
  /\ dlq \in [DlqKinds \X Jobs -> Nat]
  /\ night \subseteq [entry : DlqKinds \X Jobs, next : {"add", "remove"}]
  /\ alerts \subseteq Jobs
  /\ settings \in [push : {"on", "off", "gone"}, allowed : SUBSET Listings]
  /\ faults \in 0..MaxFaults

Init ==
  /\ job = [j \in Jobs |-> NoJob]
  /\ work = [j \in Jobs |-> Idle]
  /\ hook = [j \in Jobs |-> "none"]
  /\ accepted = [l \in Listings |-> {}]
  /\ mirror = [l \in Listings |-> [quantity |-> 0, by |-> "other"]]
  /\ dlq = [e \in DlqKinds \X Jobs |-> 0]
  /\ night = {}
  /\ alerts = {}
  /\ settings = [push |-> "on", allowed |-> Listings]
  /\ faults = 0

----------------------------------------------------------------------------
\* The ERP sync (sync-batch) and receiveItems (sync-stock) queue a push once the stock is
\* committed (a process that dies in between never does).
EnqueueStockPush(u, name) ==
  /\ name \in Names[u]
  /\ job[<<u, 0>>].state = "none"
  /\ job' = [job EXCEPT ![<<u, 0>>] = [@ EXCEPT !.name = name, !.state = "waiting"]]
  /\ UNCHANGED <<work, hook, accepted, mirror, dlq, night, alerts, settings, faults>>

\* The user turns stock push off, disconnects or connects again.
ChangeConnection(c) ==
  /\ c # settings.push
  /\ faults < MaxFaults
  /\ settings' = [settings EXCEPT !.push = c]
  /\ faults' = faults + 1
  /\ UNCHANGED <<job, work, hook, accepted, mirror, dlq, night, alerts>>

\* The user says which products may be pushed.
ChangePolicy(ls) ==
  /\ ls # settings.allowed
  /\ faults < MaxFaults
  /\ settings' = [settings EXCEPT !.allowed = ls]
  /\ faults' = faults + 1
  /\ UNCHANGED <<job, work, hook, accepted, mirror, dlq, night, alerts>>

\* ListingService.updateStock writes the panel's quantity at once, beside queueing a push of
\* the other queue; upsertFromPlatform and the resolution of a conflict write what the
\* marketplace has reported.
WriteQuantity(l, n) ==
  /\ faults < MaxFaults
  /\ mirror' = [mirror EXCEPT ![l] = [quantity |-> n, by |-> "other"]]
  /\ faults' = faults + 1
  /\ UNCHANGED <<job, work, hook, accepted, dlq, night, alerts, settings>>

----------------------------------------------------------------------------
\* Bull and the worker.

Active == {j \in Jobs : job[j].state = "active"}

\* Mutant of FailAttempt: the attempts are not counted.
MutUncounted(j) ==
  /\ job' = [job EXCEPT ![j].state = IF job[j].made + 1 < job[j].max THEN "waiting" ELSE "failed"]
  /\ hook' = [hook EXCEPT ![j] = "handle"]
  /\ work' = [work EXCEPT ![j] = Idle]

\* An attempt ends in a throw: try again later, or give up; either way 'failed' is
\* emitted, and only the handler of the last attempt does more than write the audit log.
FailAttempt(j) ==
  /\ job' = [job EXCEPT ![j].made = @ + 1,
                        ![j].state = IF job[j].made + 1 < job[j].max THEN "waiting" ELSE "failed"]
  /\ hook' = [hook EXCEPT ![j] = "handle"]
  /\ work' = [work EXCEPT ![j] = Idle]

Complete(j) ==
  /\ job' = [job EXCEPT ![j].state = "completed"]
  /\ UNCHANGED hook

\* A batch has its updates in the job, a sync-stock job has still to find them.
Take(j) ==
  /\ job[j].state = "waiting"
  /\ Cardinality(Active) < Workers
  /\ job' = [job EXCEPT ![j].state = "active"]
  /\ work' = [work EXCEPT ![j] =
       IF job[j].name = "sync-batch" THEN [at |-> "connection", todo |-> Updates[Push(j)], ok |-> {}]
                                    ELSE Idle]
  /\ UNCHANGED <<hook, accepted, mirror, dlq, night, alerts, settings, faults>>

\* The worker goes on with the updates ls; without any it has nothing to do, and is done.
GoOn(j, stage, ls) ==
  IF ls = {} THEN Complete(j) /\ UNCHANGED work
             ELSE /\ work' = [work EXCEPT ![j] = [at |-> stage, todo |-> ls, ok |-> {}]]
                  /\ UNCHANGED <<job, hook>>

\* buildStockPushBatches of sync-stock: the listings that the connection and their product
\* let push; without a connection there is none.
ReadListings(j) ==
  /\ j \in Active /\ work[j].at = "listings"
  /\ GoOn(j, "connection",
          IF settings.push = "on" THEN Updates[Push(j)] \cap settings.allowed ELSE {})
  /\ UNCHANGED <<accepted, mirror, dlq, night, alerts, settings, faults>>

\* processListingSyncBatch: no connection counts every update as failed, a closed
\* push none.
ReadConnection(j) ==
  /\ j \in Active /\ work[j].at = "connection"
  /\ CASE settings.push = "on"   -> GoOn(j, "policy", work[j].todo)
       [] settings.push = "off"  -> Complete(j) /\ UNCHANGED work
       [] settings.push = "gone" -> FailAttempt(j)
  /\ UNCHANGED <<accepted, mirror, dlq, night, alerts, settings, faults>>

\* filterUpdatesByProductPushPolicy.
FilterUpdates(j) ==
  /\ j \in Active /\ work[j].at = "policy"
  /\ GoOn(j, "call", work[j].todo \cap settings.allowed)
  /\ UNCHANGED <<accepted, mirror, dlq, night, alerts, settings, faults>>

Accept(j, ls) == accepted' = [l \in Listings |->
  IF l \in ls THEN accepted[l] \cup {Quantity[Push(j)]} ELSE accepted[l]]

\* adapter.updateStock with the whole chunk: done, or an error after the marketplace
\* has applied all of it or nothing.
CallBatch(j) ==
  /\ j \in Active /\ work[j].at = "call"
  /\ \/ /\ Accept(j, work[j].todo)
        /\ work' = [work EXCEPT ![j] = [at |-> "mirror", todo |-> work[j].todo, ok |-> work[j].todo]]
     \/ \E applied \in BOOLEAN :
          /\ Accept(j, IF applied THEN work[j].todo ELSE {})
          /\ work' = [work EXCEPT ![j].at = "items"]
  /\ UNCHANGED <<job, hook, mirror, dlq, night, alerts, settings, faults>>

\* Mutant of CallItem: an item that failed counts as done.
MutCountsFailed(j, l) ==
  /\ j \in Active /\ work[j].at = "items" /\ l \in work[j].todo
  /\ \E applied \in BOOLEAN :
       /\ Accept(j, IF applied THEN {l} ELSE {})
       /\ LET ok == work[j].ok \cup {l}
              todo == work[j].todo \ {l}
          IN  work' = [work EXCEPT ![j] = IF todo = {}
                         THEN [at |-> "mirror", todo |-> ok, ok |-> ok]
                         ELSE [at |-> "items", todo |-> todo, ok |-> ok]]
  /\ UNCHANGED <<job, hook, mirror, dlq, night, alerts, settings, faults>>

\* The isolation of failing items: one call for each listing of the chunk.
CallItem(j, l) ==
  /\ j \in Active /\ work[j].at = "items" /\ l \in work[j].todo
  /\ \E done \in BOOLEAN, applied \in BOOLEAN :
       /\ done => applied
       /\ Accept(j, IF applied THEN {l} ELSE {})
       /\ LET ok == IF done THEN work[j].ok \cup {l} ELSE work[j].ok
              todo == work[j].todo \ {l}
          IN  work' = [work EXCEPT ![j] = IF todo = {}
                         THEN [at |-> "mirror", todo |-> ok, ok |-> ok]
                         ELSE [at |-> "items", todo |-> todo, ok |-> ok]]
  /\ UNCHANGED <<job, hook, mirror, dlq, night, alerts, settings, faults>>

\* listing.update with the quantity of an outcome that succeeded.
Mirror(j, l) ==
  /\ j \in Active /\ work[j].at = "mirror" /\ l \in work[j].todo
  /\ mirror' = [mirror EXCEPT ![l] = [quantity |-> Quantity[Push(j)], by |-> "worker"]]
  /\ work' = [work EXCEPT ![j].todo = @ \ {l}]
  /\ UNCHANGED <<job, hook, accepted, dlq, night, alerts, settings, faults>>

\* Mutant of Finish: a batch that failed as a whole is done.
MutNeverThrows(j) ==
  /\ j \in Active /\ work[j].at = "mirror" /\ work[j].todo = {}
  /\ Complete(j)
  /\ UNCHANGED <<work, accepted, mirror, dlq, night, alerts, settings, faults>>

\* syncBatch: an error only when nothing at all was processed.
Finish(j) ==
  /\ j \in Active /\ work[j].at = "mirror" /\ work[j].todo = {}
  /\ IF work[j].ok = {} THEN FailAttempt(j) ELSE Complete(j) /\ UNCHANGED work
  /\ UNCHANGED <<accepted, mirror, dlq, night, alerts, settings, faults>>

\* The database or the rate limiter fails under the worker, which passes the error on
\* (errors of the marketplace's calls are caught).
Throw(j) ==
  /\ j \in Active /\ work[j].at \in Stages \ {"call", "items"}
  /\ FailAttempt(j)
  /\ UNCHANGED <<accepted, mirror, dlq, night, alerts, settings, faults>>

----------------------------------------------------------------------------
\* ListingSyncDlqHooks.onFailed.

Exhausted(j) == job[j].made >= job[j].max

dlqReplay(j) == Copy(j) > 0 /\ job[j].name = "sync-batch"

\* MarketplaceJobFailureHandler.handle fails when its audit entry or its mail does; then
\* nothing more is done about the job.
HandlerFails(j) ==
  /\ hook[j] = "handle"
  /\ hook' = [hook EXCEPT ![j] = "none"]
  /\ UNCHANGED <<job, work, accepted, mirror, dlq, night, alerts, settings, faults>>

\* Mutant of moveToDeadLetter: a job that Bull will try again is dead-lettered too.
MutDeadLettersAll(j) ==
  /\ hook[j] = "handle"
  /\ dlq' = [dlq EXCEPT ![<<"store", j>>] = @ + 1]
  /\ hook' = [hook EXCEPT ![j] = IF dlqReplay(j) /\ Exhausted(j) THEN "permanent" ELSE "none"]
  /\ UNCHANGED <<job, work, accepted, mirror, night, alerts, settings, faults>>

moveToDeadLetter(j) ==
  /\ hook[j] = "handle"
  /\ dlq' = IF Exhausted(j) THEN [dlq EXCEPT ![<<"store", j>>] = @ + 1] ELSE dlq
  /\ hook' = [hook EXCEPT ![j] = IF dlqReplay(j) /\ Exhausted(j) THEN "permanent" ELSE "none"]
  /\ UNCHANGED <<job, work, accepted, mirror, night, alerts, settings, faults>>

handlePermanentFailure(j) ==
  /\ hook[j] = "permanent"
  /\ alerts' = alerts \cup {j}
  /\ hook' = [hook EXCEPT ![j] = "none"]
  /\ UNCHANGED <<job, work, accepted, mirror, dlq, night, settings, faults>>

----------------------------------------------------------------------------
\* The dead-letter queue: its worker, and the nightly task.

\* DeadLetterProcessor.store only logs, and the entry is gone from the queue.
StoreDeadLetter(j) ==
  /\ dlq[<<"store", j>>] > 0
  /\ dlq' = [dlq EXCEPT ![<<"store", j>>] = @ - 1]
  /\ UNCHANGED <<job, work, hook, accepted, mirror, night, alerts, settings, faults>>

NextCopy(u) == {j \in {u} \X (1..MaxReplays) :
  job[j].state = "none" /\ \A c \in 1..(Copy(j) - 1) : job[<<u, c>>].state # "none"}

\* replayDeadLetterJob: queue the push again, as a new job with one attempt.
ReplayDeadLetter(j) ==
  /\ dlq[<<"replay", j>>] > 0
  /\ dlq' = [dlq EXCEPT ![<<"replay", j>>] = @ - 1]
  /\ \E again \in NextCopy(Push(j)) :
       job' = [job EXCEPT ![again] = [name |-> job[j].name, state |-> "waiting", made |-> 0, max |-> 1]]
  /\ UNCHANGED <<work, hook, accepted, mirror, night, alerts, settings, faults>>

\* scheduleDeadLetterRetry at 02:00: what waits in the queue now is queued for replay
\* and removed, one job after the other.  (Removing a job its worker is running throws,
\* which ends the task.)
ReadDeadLetters ==
  /\ night = {}
  /\ \E e \in DlqKinds \X Jobs : dlq[e] > 0
  /\ night' = [entry : {e \in DlqKinds \X Jobs : dlq[e] > 0}, next : {"add"}]
  /\ UNCHANGED <<job, work, hook, accepted, mirror, dlq, alerts, settings, faults>>

MoveDeadLetter(n) ==
  /\ n \in night
  /\ \A m \in night : m.next = "remove" => m = n
  /\ LET j == n.entry[2]
     IN  IF n.next = "add"
         THEN /\ dlq' = [dlq EXCEPT ![<<"replay", j>>] = @ + 1]
              /\ night' = (night \ {n}) \cup {[n EXCEPT !.next = "remove"]}
         ELSE IF dlq[n.entry] > 0
              THEN dlq' = [dlq EXCEPT ![n.entry] = @ - 1] /\ night' = night \ {n}
              ELSE night' \in {night \ {n}, {}} /\ UNCHANGED dlq
  /\ UNCHANGED <<job, work, hook, accepted, mirror, alerts, settings, faults>>

----------------------------------------------------------------------------
\* The process dies: what it held in memory is lost, and Bull hands its active jobs
\* to the next worker; Redis and the database keep theirs.
Crash ==
  /\ faults < MaxFaults
  /\ faults' = faults + 1
  /\ job' = [j \in Jobs |-> IF j \in Active THEN [job[j] EXCEPT !.state = "waiting"] ELSE job[j]]
  /\ work' = [j \in Jobs |-> IF j \in Active THEN Idle ELSE work[j]]
  /\ hook' = [j \in Jobs |-> "none"]
  /\ night' = {}
  /\ UNCHANGED <<accepted, mirror, dlq, alerts, settings>>

Worker(j) == Take(j) \/ ReadListings(j) \/ ReadConnection(j) \/ FilterUpdates(j)
               \/ CallBatch(j) \/ Finish(j)
               \/ \E l \in Listings : CallItem(j, l) \/ Mirror(j, l)
OnFailed(j) == HandlerFails(j) \/ moveToDeadLetter(j) \/ handlePermanentFailure(j)
DeadLetterWorker(j) == StoreDeadLetter(j) \/ ReplayDeadLetter(j)
Nightly == ReadDeadLetters \/ \E n \in night : MoveDeadLetter(n)

Next ==
  \/ \E u \in Pushes, name \in JobNames : EnqueueStockPush(u, name)
  \/ \E j \in Jobs : Worker(j) \/ Throw(j) \/ OnFailed(j) \/ DeadLetterWorker(j)
  \/ Nightly
  \/ \E c \in {"on", "off", "gone"} : ChangeConnection(c)
  \/ \E ls \in SUBSET Listings : ChangePolicy(ls)
  \/ \E l \in Listings, n \in OtherQuantities : WriteQuantity(l, n)
  \/ Crash

Spec == Init /\ [][Next]_vars

\* Bull, the event loop and the cron keep running; users and marketplaces owe nothing.
FairSpec ==
  /\ Spec
  /\ \A j \in Jobs : WF_vars(Worker(j)) /\ WF_vars(OnFailed(j)) /\ WF_vars(DeadLetterWorker(j))
  /\ WF_vars(Nightly)

----------------------------------------------------------------------------
(* Properties *)

\* What the worker writes to Listing.quantity the marketplace has accepted, through partial
\* failures, retries and crashes.  (Others write there what nobody has accepted yet:
\* ListingService.updateStock.  The types are checked along with it.)
MirrorWasAccepted ==
  TypeOK /\ \A l \in Listings : mirror[l].by = "worker" => mirror[l].quantity \in accepted[l]

\* A job that counts as done and got as far as calling the marketplace has reached a listing
\* with that attempt: one that reached none is tried again.  Done with nothing delivered are
\* only jobs that called nobody, because stock push was off, no product of theirs may be
\* pushed, or a sync-stock job found no connection or listing.
CompletedDelivered ==
  \A j \in Jobs : job[j].state = "completed" /\ work[j].at \in {"call", "items", "mirror"} =>
    \E l \in work[j].ok : Quantity[Push(j)] \in accepted[l]

\* A push is replayed only after an earlier job of it has failed for good: no replay runs
\* beside the retries of the job it replaces.  And 'Senkronizasyon kalıcı hata' is reported
\* only for a replay that failed.
ReplaysFollowFailure ==
  /\ \A j \in Jobs : Copy(j) > 0 /\ job[j].state # "none" =>
       \E c \in 0..(Copy(j) - 1) : job[<<Push(j), c>>].state = "failed"
  /\ \A j \in alerts : Copy(j) > 0 /\ job[j].state = "failed"

\* Every queued push comes to an end: Bull's retries and stalled jobs do not run forever.
JobsSettle ==
  \A j \in Jobs : job[j].state = "waiting" ~> job[j].state \in {"completed", "failed"}

\* dlq.processor.ts:228, 'Her gece 02:00 — DLQ'daki işleri yeniden dene': what is put in the
\* dead-letter queue is tried again.
DeadLettersAreRetried ==
  \A u \in Pushes : dlq[<<"store", <<u, 0>>>>] > 0 ~> job[<<u, 1>>].state # "none"
=============================================================================
