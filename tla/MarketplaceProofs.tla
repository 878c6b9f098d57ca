------------------------- MODULE MarketplaceProofs -------------------------
(***************************************************************************)
(* Proofs about what stands between Senkronize and the marketplaces: the   *)
(* listings pushed to them (ListingSync), the orders pulled from them      *)
(* (OrderFlow) and the tokens they are called with (ConnectionTokens), for *)
(* every set of jobs, requests and processes and any number of faults.     *)
(* The three specifications share no variable; each part below is about    *)
(* one of them.                                                            *)
(***************************************************************************)
EXTENDS ListingSync, OrderFlow, ConnectionTokens, FiniteSetTheorems, TLAPS

----------------------------------------------------------------------------
(* Listings: the inductive invariant. *)

\* A job that may still run has an attempt left, so that one without has failed for good.
Attempted ==
  \A j \in Jobs :
    /\ job[j].state \in {"waiting", "active", "completed"} => job[j].made < job[j].max
    /\ job[j].state = "none" => job[j].made = 0

\* The places of an attempt that has found something to send.
Calling == {"call", "items", "mirror"}

\* What the worker counts as done the marketplace has accepted, and only that is mirrored; a
\* job is completed before it calls anybody, or with something done.
WorkIsSound ==
  \A j \in Jobs :
    /\ work[j].todo \subseteq Updates[Push(j)] /\ work[j].ok \subseteq Updates[Push(j)]
    /\ \A l \in work[j].ok : Quantity[Push(j)] \in accepted[l]
    /\ work[j].at = "mirror" => work[j].todo \subseteq work[j].ok
    /\ job[j].state = "completed" /\ work[j].at \in Calling => work[j].ok # {}

\* What the worker has mirrored was accepted.
MirrorIsSound == \A l \in Listings : mirror[l].by = "worker" => mirror[l].quantity \in accepted[l]

\* What is in the dead-letter queue, or on its way from it, has failed for good, and so has what
\* is about to be reported.
DeadFailed ==
  /\ \A e \in DlqKinds \X Jobs : dlq[e] > 0 => job[e[2]].state = "failed"
  /\ \A n \in night : job[n.entry[2]].state = "failed"
  /\ \A j \in Jobs : hook[j] = "permanent" => Copy(j) > 0 /\ job[j].state = "failed"

\* The jobs of a push are made one after the other.
InOrder ==
  \A j \in Jobs : job[j].state # "none" =>
    \A c \in 1..(Copy(j) - 1) : job[<<Push(j), c>>].state # "none"

IInv ==
  /\ Attempted /\ WorkIsSound /\ DeadFailed /\ InOrder
  /\ MirrorWasAccepted /\ ReplaysFollowFailure

----------------------------------------------------------------------------
(* Jobs. *)

\* A job is a push and the number of its copy.
LEMMA JobType ==
  /\ \A j \in Jobs : Push(j) \in Pushes /\ Copy(j) \in 0..MaxReplays /\ Copy(j) \in Nat
  /\ \A u \in Pushes : \A c \in 0..MaxReplays :
       <<u, c>> \in Jobs /\ Push(<<u, c>>) = u /\ Copy(<<u, c>>) = c
  /\ \A j \in Jobs : \A c \in 0..Copy(j) : <<Push(j), c>> \in Jobs
BY ListingSyncAssumption DEF Jobs, Push, Copy

\* What a push updates are listings.
LEMMA UpdateType ==
  \A j \in Jobs : Updates[Push(j)] \subseteq Listings /\ Quantity[Push(j)] \in Nat
BY JobType, ListingSyncAssumption

\* Jobs only move on: a failed one stays failed, one that was made is never unmade, and a copy
\* is made of a push that has failed, in its turn.
JobsGrow ==
  /\ \A i \in Jobs : job[i].state = "failed" => job'[i].state = "failed"
  /\ \A i \in Jobs : job[i].state # "none" => job'[i].state # "none"
  /\ \A i \in Jobs : job[i].state = "none" /\ job'[i].state # "none" /\ Copy(i) > 0 =>
       /\ \E c \in 0..(Copy(i) - 1) : job[<<Push(i), c>>].state = "failed"
       /\ \A c \in 1..(Copy(i) - 1) : job[<<Push(i), c>>].state # "none"
  /\ \A i \in alerts' : i \in alerts \/ (Copy(i) > 0 /\ job[i].state = "failed")

\* Then replays follow a failure, in order.
LEMMA Kept ==
  ASSUME IInv, TypeOK', JobsGrow, Attempted', WorkIsSound', DeadFailed',
         MirrorIsSound'
  PROVE  IInv'
<1>0. TypeOK /\ ReplaysFollowFailure /\ InOrder
  BY DEF IInv, MirrorWasAccepted
<1>1. ASSUME NEW j \in Jobs, job'[j].state # "none"
      PROVE  /\ Copy(j) > 0 => \E c \in 0..(Copy(j) - 1) : job'[<<Push(j), c>>].state = "failed"
             /\ \A c \in 1..(Copy(j) - 1) : job'[<<Push(j), c>>].state # "none"
  <2>1. \A c \in 0..(Copy(j) - 1) : <<Push(j), c>> \in Jobs
    BY JobType
  <2>2. \A c \in 1..(Copy(j) - 1) : c \in 0..(Copy(j) - 1)
    BY JobType
  <2>3. \/ Copy(j) = 0
        \/ /\ \E c \in 0..(Copy(j) - 1) : job[<<Push(j), c>>].state = "failed"
           /\ \A c \in 1..(Copy(j) - 1) : job[<<Push(j), c>>].state # "none"
    <3>1. CASE job[j].state # "none"
      BY <1>0, <3>1, JobType DEF ReplaysFollowFailure, InOrder
    <3>2. CASE job[j].state = "none"
      BY <1>1, <3>2, JobType DEF JobsGrow
    <3>3. QED
      BY <3>1, <3>2
  <2>4. CASE Copy(j) = 0
    BY <2>4
  <2>5. CASE Copy(j) # 0
    BY <2>1, <2>2, <2>3, <2>5 DEF JobsGrow
  <2>6. QED
    BY <2>4, <2>5
<1>2. ASSUME NEW j \in alerts' PROVE Copy(j) > 0 /\ job'[j].state = "failed"
  <2>1. j \in Jobs
    BY DEF TypeOK
  <2>2. Copy(j) > 0 /\ job[j].state = "failed"
    BY <1>0, <1>2 DEF JobsGrow, ReplaysFollowFailure
  <2>3. QED
    BY <2>1, <2>2 DEF JobsGrow
<1>3. InOrder'
  BY <1>1 DEF InOrder
<1>4. ReplaysFollowFailure'
  BY <1>1, <1>2 DEF ReplaysFollowFailure
<1>5. QED
  BY <1>3, <1>4 DEF IInv, MirrorWasAccepted, MirrorIsSound

\* So do steps that leave jobs, hooks and the dead-letter queue alone.
LEMMA KeptWork ==
  ASSUME IInv, TypeOK', UNCHANGED <<job, hook, dlq, night, alerts>>, WorkIsSound',
         MirrorIsSound'
  PROVE  IInv'
<1>1. JobsGrow
  BY DEF JobsGrow
<1>2. Attempted' /\ DeadFailed'
  BY DEF IInv, Attempted, DeadFailed
<1>3. QED
  BY <1>1, <1>2, Kept

\* What the worker holds about a job: where it is, what is left and what is done.
LEMMA WorkType ==
  ASSUME NEW a \in Stages, NEW x \in SUBSET Listings, NEW y \in SUBSET Listings
  PROVE  /\ [at |-> a, todo |-> x, ok |-> y] \in Work
         /\ [at |-> a, todo |-> x, ok |-> y].at = a
         /\ [at |-> a, todo |-> x, ok |-> y].todo = x
         /\ [at |-> a, todo |-> x, ok |-> y].ok = y
BY DEF Work

\* The places of an attempt; before a call nothing is done.
LEMMA PlaceType ==
  /\ "listings" \in Stages /\ "connection" \in Stages /\ "policy" \in Stages
  /\ "call" \in Stages /\ "items" \in Stages /\ "mirror" \in Stages
  /\ "connection" # "mirror" /\ "policy" # "mirror" /\ "call" # "mirror" /\ "items" # "mirror"
  /\ "listings" \notin Calling /\ "connection" \notin Calling /\ "policy" \notin Calling
<1>1. /\ "listings" \in Stages /\ "connection" \in Stages /\ "policy" \in Stages
      /\ "call" \in Stages /\ "items" \in Stages /\ "mirror" \in Stages
  BY DEF Stages
<1>2. "connection" # "mirror" /\ "policy" # "mirror" /\ "call" # "mirror" /\ "items" # "mirror"
  OBVIOUS
<1>3. "listings" \notin Calling /\ "connection" \notin Calling /\ "policy" \notin Calling
  BY DEF Calling
<1>4. QED
  BY <1>1, <1>2, <1>3

\* What a job begins with is about its push, and calls nobody.
LEMMA IdleIsSound ==
  ASSUME NEW j \in Jobs
  PROVE  /\ Idle \in Work /\ Idle.todo \subseteq Updates[Push(j)] /\ Idle.ok = {}
         /\ Idle.at # "mirror" /\ Idle.at \notin Calling
<1>1. Idle \in Work /\ Idle.todo = {} /\ Idle.ok = {} /\ Idle.at = "listings"
  BY WorkType, PlaceType DEF Idle
<1>2. QED
  BY <1>1, PlaceType

----------------------------------------------------------------------------
(* Init. *)

\* The invariant holds at the start.
LEMMA InvInit == Init => IInv
<1> SUFFICES ASSUME Init PROVE IInv
  OBVIOUS
<1>1. TypeOK
  <2>1. work \in [Jobs -> Work]
    <3>1. \A j \in Jobs : Idle \in Work
      BY IdleIsSound
    <3>2. QED
      BY <3>1 DEF Init
  <2>2. job \in [Jobs -> [name : JobNames, state : JobState, made : 0..Attempts, max : {1, Attempts}]]
    BY ListingSyncAssumption DEF Init, NoJob, JobState, JobNames
  <2>3. mirror \in [Listings -> [quantity : Nat, by : {"worker", "other"}]]
    BY DEF Init
  <2>4. settings \in [push : {"on", "off", "gone"}, allowed : SUBSET Listings]
    BY DEF Init
  <2>5. QED
    BY <2>1, <2>2, <2>3, <2>4, ListingSyncAssumption DEF Init, TypeOK
<1>2. Attempted
  BY ListingSyncAssumption DEF Init, Attempted, NoJob
<1>3. WorkIsSound
  BY DEF Init, WorkIsSound, NoJob, Idle, Calling
<1>4. DeadFailed
  <2>1. \A e \in DlqKinds \X Jobs : dlq[e] = 0
    BY DEF Init
  <2>2. QED
    BY <2>1 DEF Init, DeadFailed
<1>5. InOrder /\ ReplaysFollowFailure
  BY DEF Init, InOrder, ReplaysFollowFailure, NoJob
<1>6. QED
  BY <1>1, <1>2, <1>3, <1>4, <1>5 DEF IInv, MirrorWasAccepted, Init

----------------------------------------------------------------------------
(* A job moves on. *)

\* The job j has only changed its state to s, and perhaps its name.
Moved(j, s) ==
  /\ job' \in [Jobs -> [name : JobNames, state : JobState, made : 0..Attempts, max : {1, Attempts}]]
  /\ job'[j].state = s /\ job'[j].made = job[j].made /\ job'[j].max = job[j].max
  /\ \A i \in Jobs \ {j} : job'[i] = job[i]

\* An update of the job's record does that.
LEMMA RecordMoves ==
  ASSUME TypeOK, NEW j \in Jobs, NEW s \in JobState, NEW name \in JobNames,
         \/ job' = [job EXCEPT ![j].state = s]
         \/ job' = [job EXCEPT ![j] = [job[j] EXCEPT !.name = name, !.state = s]]
  PROVE  Moved(j, s)
<1>1. /\ job \in [Jobs -> [name : JobNames, state : JobState, made : 0..Attempts, max : {1, Attempts}]]
      /\ job[j] \in [name : JobNames, state : JobState, made : 0..Attempts, max : {1, Attempts}]
  BY DEF TypeOK
<1>2. ASSUME NEW r, r = [job[j] EXCEPT !.state = s] \/ r = [job[j] EXCEPT !.name = name, !.state = s],
             job' = [job EXCEPT ![j] = r]
      PROVE  Moved(j, s)
  <2>1. /\ r \in [name : JobNames, state : JobState, made : 0..Attempts, max : {1, Attempts}]
        /\ r.state = s /\ r.made = job[j].made /\ r.max = job[j].max
    BY <1>1, <1>2
  <2>2. QED
    BY <1>1, <1>2, <2>1 DEF Moved
<1>3. CASE job' = [job EXCEPT ![j].state = s]
  BY <1>1, <1>2, <1>3
<1>4. CASE job' = [job EXCEPT ![j] = [job[j] EXCEPT !.name = name, !.state = s]]
  BY <1>2, <1>4
<1>5. QED
  BY <1>3, <1>4

\* A job is queued, taken, or completed.
LEMMA StateStep ==
  ASSUME IInv, NEW j \in Jobs, NEW s \in {"waiting", "active", "completed"}, Moved(j, s),
         \/ job[j].state = "none" /\ s = "waiting" /\ Copy(j) = 0
         \/ job[j].state = "waiting" /\ s = "active"
         \/ job[j].state = "active" /\ s = "completed" /\ (work[j].at \notin Calling \/ work[j].ok # {}),
         NEW w \in Work, w.todo \subseteq Updates[Push(j)], w.ok = {}, w.at # "mirror",
         work' = work \/ (s # "completed" /\ work' = [work EXCEPT ![j] = w]),
         UNCHANGED <<hook, accepted, mirror, dlq, night, alerts, settings, faults>>
  PROVE  IInv'
<1>0. TypeOK
  BY DEF IInv, MirrorWasAccepted
<1>1. /\ job' \in [Jobs -> [name : JobNames, state : JobState, made : 0..Attempts, max : {1, Attempts}]]
      /\ job'[j].state = s /\ job'[j].made = job[j].made /\ job'[j].max = job[j].max
      /\ \A i \in Jobs \ {j} : job'[i] = job[i]
  BY DEF Moved
<1>2. TypeOK'
  <2>1. work' \in [Jobs -> Work]
    BY <1>0 DEF TypeOK
  <2>2. QED
    BY <1>0, <1>1, <2>1 DEF TypeOK
<1>3. JobsGrow
  BY <1>1 DEF JobsGrow
<1>4. Attempted'
  <2>1. job[j].made < job[j].max
    <3>1. job[j].made \in 0..Attempts /\ job[j].max \in {1, Attempts}
      BY <1>0 DEF TypeOK
    <3>2. QED
      BY <3>1, ListingSyncAssumption DEF IInv, Attempted
  <2>2. QED
    BY <1>1, <2>1 DEF IInv, Attempted
<1>5. WorkIsSound'
  <2>1. ASSUME NEW i \in Jobs
        PROVE  /\ work'[i].todo \subseteq Updates[Push(i)] /\ work'[i].ok \subseteq Updates[Push(i)]
               /\ \A l \in work'[i].ok : Quantity[Push(i)] \in accepted[l]
               /\ work'[i].at = "mirror" => work'[i].todo \subseteq work'[i].ok
               /\ job'[i].state = "completed" /\ work'[i].at \in Calling => work'[i].ok # {}
    <3>1. work'[i] = work[i] \/ (i = j /\ s # "completed" /\ work'[i] = w)
      BY <1>0 DEF TypeOK
    <3>2. CASE work'[i] = work[i]
      BY <1>1, <3>2 DEF IInv, WorkIsSound
    <3>3. CASE i = j /\ s # "completed" /\ work'[i] = w
      BY <1>1, <3>3
    <3>4. QED
      BY <3>1, <3>2, <3>3
  <2>2. QED
    BY <2>1 DEF WorkIsSound
<1>6. DeadFailed'
  <2>1. /\ \A e \in DlqKinds \X Jobs : e[2] \in Jobs
        /\ \A n \in night : n.entry[2] \in Jobs
    BY <1>0 DEF TypeOK
  <2>2. \A i \in Jobs : job[i].state = "failed" => job'[i].state = "failed"
    BY <1>3 DEF JobsGrow
  <2>3. QED
    BY <2>1, <2>2 DEF IInv, DeadFailed
<1>7. MirrorIsSound'
  BY DEF IInv, MirrorWasAccepted, MirrorIsSound
<1>8. QED
  BY <1>2, <1>3, <1>4, <1>5, <1>6, <1>7, Kept

\* What the end of an attempt in a throw does.
LEMMA Fails ==
  ASSUME TypeOK, Attempted, NEW j \in Jobs, job[j].state = "active", FailAttempt(j)
  PROVE  /\ job' \in [Jobs -> [name : JobNames, state : JobState, made : 0..Attempts, max : {1, Attempts}]]
         /\ job'[j].state \in {"waiting", "failed"} /\ job'[j].max = job[j].max
         /\ job'[j].state = "waiting" => job'[j].made < job'[j].max
         /\ work' = [work EXCEPT ![j] = Idle] /\ hook' = [hook EXCEPT ![j] = "handle"]
         /\ \A i \in Jobs \ {j} : job'[i] = job[i]
<1>1. /\ job[j].made \in 0..Attempts /\ job[j].max \in {1, Attempts} /\ job[j].made < job[j].max
      /\ Attempts \in Nat \ {0}
  BY ListingSyncAssumption DEF TypeOK, Attempted
<1>2. job[j].made + 1 \in 0..Attempts
  BY <1>1
<1> DEFINE s == IF job[j].made + 1 < job[j].max THEN "waiting" ELSE "failed"
<1>3. s \in JobState /\ s \in {"waiting", "failed"} /\ (s = "waiting" => job[j].made + 1 < job[j].max)
  BY DEF JobState
<1>4. job' = [job EXCEPT ![j].made = job[j].made + 1, ![j].state = s]
  BY DEF FailAttempt, TypeOK
<1> HIDE DEF s
<1>5. /\ job \in [Jobs -> [name : JobNames, state : JobState, made : 0..Attempts, max : {1, Attempts}]]
      /\ job[j] \in [name : JobNames, state : JobState, made : 0..Attempts, max : {1, Attempts}]
  BY DEF TypeOK
<1>6. job' = [job EXCEPT ![j] = [job[j] EXCEPT !.made = job[j].made + 1, !.state = s]]
  BY <1>5, <1>4
<1> DEFINE r == [job[j] EXCEPT !.made = job[j].made + 1, !.state = s]
<1>7. /\ r \in [name : JobNames, state : JobState, made : 0..Attempts, max : {1, Attempts}]
      /\ r.state = s /\ r.made = job[j].made + 1 /\ r.max = job[j].max
  BY <1>5, <1>2, <1>3
<1> HIDE DEF r
<1>8. /\ job' \in [Jobs -> [name : JobNames, state : JobState, made : 0..Attempts, max : {1, Attempts}]]
      /\ job'[j].state = s /\ job'[j].made = job[j].made + 1 /\ job'[j].max = job[j].max
      /\ \A i \in Jobs \ {j} : job'[i] = job[i]
  BY <1>5, <1>6, <1>7 DEF r
<1>9. QED
  BY <1>1, <1>3, <1>8 DEF FailAttempt

\* An attempt ends in a throw.
LEMMA ThrowStep ==
  ASSUME IInv, NEW j \in Jobs, job[j].state = "active", FailAttempt(j),
         UNCHANGED <<accepted, mirror, dlq, night, alerts, settings, faults>>
  PROVE  IInv'
<1>0. TypeOK /\ Attempted
  BY DEF IInv, MirrorWasAccepted
<1>1. /\ job' \in [Jobs -> [name : JobNames, state : JobState, made : 0..Attempts, max : {1, Attempts}]]
      /\ job'[j].state \in {"waiting", "failed"}
      /\ job'[j].state = "waiting" => job'[j].made < job'[j].max
      /\ work' = [work EXCEPT ![j] = Idle] /\ hook' = [hook EXCEPT ![j] = "handle"]
      /\ \A i \in Jobs \ {j} : job'[i] = job[i]
  BY <1>0, Fails
<1>2. TypeOK'
  BY <1>0, <1>1, IdleIsSound DEF TypeOK
<1>3. JobsGrow
  BY <1>1 DEF JobsGrow
<1>4. Attempted'
  BY <1>0, <1>1 DEF Attempted
<1>5. WorkIsSound'
  <2>1. ASSUME NEW i \in Jobs
        PROVE  /\ work'[i].todo \subseteq Updates[Push(i)] /\ work'[i].ok \subseteq Updates[Push(i)]
               /\ \A l \in work'[i].ok : Quantity[Push(i)] \in accepted[l]
               /\ work'[i].at = "mirror" => work'[i].todo \subseteq work'[i].ok
               /\ job'[i].state = "completed" /\ work'[i].at \in Calling => work'[i].ok # {}
    <3>1. CASE i # j
      <4>1. work'[i] = work[i]
        BY <1>0, <1>1, <3>1 DEF TypeOK
      <4>2. QED
        BY <1>1, <3>1, <4>1 DEF IInv, WorkIsSound
    <3>2. CASE i = j
      <4>1. work'[i] = Idle
        BY <1>0, <1>1, <3>2 DEF TypeOK
      <4>2. QED
        BY <3>2, <4>1, IdleIsSound
    <3>3. QED
      BY <3>1, <3>2
  <2>2. QED
    BY <2>1 DEF WorkIsSound
<1>6. DeadFailed'
  <2>1. \A e \in DlqKinds \X Jobs : e[2] \in Jobs
    OBVIOUS
  <2>2. \A n \in night : n.entry[2] \in Jobs
    BY <1>0, <2>1 DEF TypeOK
  <2>3. hook'[j] = "handle" /\ \A i \in Jobs \ {j} : hook'[i] = hook[i]
    BY <1>0, <1>1 DEF TypeOK
  <2>4. \A i \in Jobs : job[i].state = "failed" => job'[i].state = "failed"
    BY <1>3 DEF JobsGrow
  <2>5. QED
    BY <2>1, <2>2, <2>3, <2>4 DEF IInv, DeadFailed
<1>7. MirrorIsSound'
  BY DEF IInv, MirrorWasAccepted, MirrorIsSound
<1>8. QED
  BY <1>2, <1>3, <1>4, <1>5, <1>6, <1>7, Kept

\* A push is queued.
LEMMA EnqueueStep == ASSUME IInv, NEW u \in Pushes, NEW name \in JobNames, EnqueueStockPush(u, name) PROVE IInv'
<1>1. <<u, 0>> \in Jobs /\ Copy(<<u, 0>>) = 0
  BY JobType, ListingSyncAssumption
<1>2. TypeOK /\ "waiting" \in JobState
  BY DEF IInv, MirrorWasAccepted, JobState
<1>3. job' = [job EXCEPT ![<<u, 0>>] = [job[<<u, 0>>] EXCEPT !.name = name, !.state = "waiting"]]
  BY DEF EnqueueStockPush
<1>4. Moved(<<u, 0>>, "waiting")
  BY <1>1, <1>2, <1>3, RecordMoves
<1>5. QED
  BY <1>1, <1>4, StateStep, IdleIsSound DEF EnqueueStockPush

\* The worker takes a job.
LEMMA TakeStep == ASSUME IInv, NEW j \in Jobs, Take(j) PROVE IInv'
<1> DEFINE w == IF job[j].name = "sync-batch"
                THEN [at |-> "connection", todo |-> Updates[Push(j)], ok |-> {}] ELSE Idle
<1>1. w \in Work /\ w.todo \subseteq Updates[Push(j)] /\ w.ok = {} /\ w.at # "mirror"
  <2>1. CASE job[j].name = "sync-batch"
    BY <2>1, UpdateType, WorkType, PlaceType
  <2>2. CASE job[j].name # "sync-batch"
    BY <2>2, IdleIsSound
  <2>3. QED
    BY <2>1, <2>2
<1>2. job[j].state = "waiting" /\ job' = [job EXCEPT ![j].state = "active"]
      /\ work' = [work EXCEPT ![j] = w] /\ UNCHANGED <<hook, accepted, mirror, dlq, night, alerts, settings, faults>>
  BY DEF Take
<1> HIDE DEF w
<1>3. Moved(j, "active")
  <2>1. TypeOK /\ "active" \in JobState /\ "sync-batch" \in JobNames
    BY DEF IInv, MirrorWasAccepted, JobState, JobNames
  <2>2. QED
    BY <1>2, <2>1, RecordMoves
<1>4. QED
  BY <1>1, <1>2, <1>3, StateStep

\* A job is completed.
LEMMA CompleteStep ==
  ASSUME IInv, NEW j \in Jobs, job[j].state = "active", work[j].at \notin Calling \/ work[j].ok # {},
         Complete(j), UNCHANGED <<work, accepted, mirror, dlq, night, alerts, settings, faults>>
  PROVE  IInv'
<1>1. Moved(j, "completed")
  <2>1. TypeOK /\ "completed" \in JobState /\ "sync-batch" \in JobNames
    BY DEF IInv, MirrorWasAccepted, JobState, JobNames
  <2>2. QED
    BY <2>1, RecordMoves DEF Complete
<1>2. QED
  BY <1>1, StateStep, IdleIsSound DEF Complete

\* It goes on with some of its updates, or is done because it has none.
LEMMA GoOnStep ==
  ASSUME IInv, NEW j \in Jobs, job[j].state = "active", work[j].at \notin Calling,
         NEW place \in Stages, place # "mirror", NEW ls \in SUBSET Updates[Push(j)], GoOn(j, place, ls),
         UNCHANGED <<accepted, mirror, dlq, night, alerts, settings, faults>>
  PROVE  IInv'
<1>0. TypeOK
  BY DEF IInv, MirrorWasAccepted
<1>1. CASE ls = {}
  BY <1>1, CompleteStep DEF GoOn
<1>2. CASE ls # {}
  <2> DEFINE w == [at |-> place, todo |-> ls, ok |-> {}]
  <2>1. work' = [work EXCEPT ![j] = w] /\ UNCHANGED <<job, hook>>
    BY <1>2 DEF GoOn
  <2>2. w.at # "mirror" /\ w.todo = ls /\ w.ok = {} /\ w \in Work
    BY UpdateType, WorkType
  <2> HIDE DEF w
  <2>3. TypeOK'
    BY <1>0, <2>1, <2>2 DEF TypeOK
  <2>4. WorkIsSound'
    BY <1>0, <2>1, <2>2 DEF IInv, WorkIsSound, TypeOK
  <2>5. MirrorIsSound'
    BY DEF IInv, MirrorWasAccepted, MirrorIsSound
  <2>6. QED
    BY <2>1, <2>3, <2>4, <2>5, KeptWork
<1>3. QED
  BY <1>1, <1>2

\* It looks for listings, reads the connection, or asks which products may be pushed.
LEMMA ConnectionStep ==
  ASSUME IInv, NEW j \in Jobs, ReadListings(j) \/ ReadConnection(j) \/ FilterUpdates(j) PROVE IInv'
<1>0. TypeOK /\ work[j].todo \subseteq Updates[Push(j)]
  BY DEF IInv, MirrorWasAccepted, WorkIsSound
<1>1. /\ job[j].state = "active" /\ work[j].at \notin Calling
      /\ UNCHANGED <<accepted, mirror, dlq, night, alerts, settings, faults>>
  BY PlaceType DEF ReadListings, ReadConnection, FilterUpdates, Active
<1>2. CASE ReadListings(j)
  <2> DEFINE ls == IF settings.push = "on" THEN Updates[Push(j)] \cap settings.allowed ELSE {}
  <2>1. ls \in SUBSET Updates[Push(j)] /\ GoOn(j, "connection", ls)
    BY <1>2 DEF ReadListings
  <2> HIDE DEF ls
  <2>2. QED
    BY <1>1, <2>1, GoOnStep, PlaceType
<1>3. CASE FilterUpdates(j)
  <2> DEFINE ls == work[j].todo \cap settings.allowed
  <2>1. ls \in SUBSET Updates[Push(j)] /\ GoOn(j, "call", ls)
    BY <1>0, <1>3 DEF FilterUpdates
  <2> HIDE DEF ls
  <2>2. QED
    BY <1>1, <2>1, GoOnStep, PlaceType
<1>4. CASE ReadConnection(j)
  <2>1. settings.push \in {"on", "off", "gone"}
    BY <1>0 DEF TypeOK
  <2>2. CASE settings.push = "on"
    <3>1. GoOn(j, "policy", work[j].todo) /\ work[j].todo \in SUBSET Updates[Push(j)]
      BY <1>0, <1>4, <2>2 DEF ReadConnection
    <3>2. QED
      BY <1>1, <3>1, GoOnStep, PlaceType
  <2>3. CASE settings.push = "off"
    BY <1>1, <1>4, <2>3, CompleteStep DEF ReadConnection
  <2>4. CASE settings.push = "gone"
    BY <1>1, <1>4, <2>4, ThrowStep DEF ReadConnection
  <2>5. QED
    BY <2>1, <2>2, <2>3, <2>4
<1>5. QED
  BY <1>2, <1>3, <1>4

\* It is done with a job.
LEMMA FinishStep == ASSUME IInv, NEW j \in Jobs, Finish(j) \/ Throw(j) PROVE IInv'
<1>1. job[j].state = "active"
  BY DEF Finish, Throw, Active
<1>2. CASE FailAttempt(j) /\ UNCHANGED <<accepted, mirror, dlq, night, alerts, settings, faults>>
  BY <1>1, <1>2, ThrowStep
<1>3. CASE Finish(j) /\ work[j].ok # {}
  BY <1>1, <1>3, CompleteStep DEF Finish
<1>4. QED
  BY <1>2, <1>3 DEF Finish, Throw

----------------------------------------------------------------------------
(* The worker talks to the marketplace and mirrors what it said. *)

\* What the marketplace has accepted it keeps.
LEMMA Accepts ==
  ASSUME TypeOK, NEW j \in Jobs, NEW ls \in SUBSET Listings, Accept(j, ls)
  PROVE  /\ accepted' \in [Listings -> SUBSET Nat]
         /\ \A l \in Listings : accepted[l] \subseteq accepted'[l]
         /\ \A l \in ls : Quantity[Push(j)] \in accepted'[l]
BY UpdateType DEF Accept, TypeOK

\* A call of the worker: it is still about the listings of the push, and counts as done only
\* what was accepted.
LEMMA CallStep ==
  ASSUME IInv, NEW j \in Jobs, job[j].state = "active",
         NEW w \in Work, work' = [work EXCEPT ![j] = w],
         NEW ls \in SUBSET Listings, Accept(j, ls),
         w.todo \subseteq Updates[Push(j)], w.ok \subseteq Updates[Push(j)],
         w.ok \subseteq work[j].ok \cup ls, w.at = "mirror" => w.todo \subseteq w.ok,
         UNCHANGED <<job, hook, mirror, dlq, night, alerts, settings, faults>>
  PROVE  IInv'
<1>0. TypeOK
  BY DEF IInv, MirrorWasAccepted
<1>1. /\ accepted' \in [Listings -> SUBSET Nat]
      /\ \A l \in Listings : accepted[l] \subseteq accepted'[l]
      /\ \A l \in ls : Quantity[Push(j)] \in accepted'[l]
  BY <1>0, Accepts
<1>2. TypeOK'
  BY <1>0, <1>1 DEF TypeOK
<1>3. WorkIsSound'
  <2>1. ASSUME NEW i \in Jobs
        PROVE  /\ work'[i].todo \subseteq Updates[Push(i)] /\ work'[i].ok \subseteq Updates[Push(i)]
               /\ \A l \in work'[i].ok : Quantity[Push(i)] \in accepted'[l]
               /\ work'[i].at = "mirror" => work'[i].todo \subseteq work'[i].ok
               /\ job'[i].state = "completed" /\ work'[i].at \in Calling => work'[i].ok # {}
    <3>0. \A l \in work[i].ok : l \in Listings /\ Quantity[Push(i)] \in accepted'[l]
      BY <1>1, UpdateType DEF IInv, WorkIsSound
    <3>1. CASE i # j
      <4>1. work'[i] = work[i]
        BY <1>0, <3>1 DEF TypeOK
      <4>2. QED
        BY <3>0, <4>1 DEF IInv, WorkIsSound
    <3>2. CASE i = j
      <4>1. work'[i] = w
        BY <1>0, <3>2 DEF TypeOK
      <4>2. QED
        BY <1>1, <3>0, <3>2, <4>1
    <3>3. QED
      BY <3>1, <3>2
  <2>2. QED
    BY <2>1 DEF WorkIsSound
<1>4. MirrorIsSound'
  BY <1>1 DEF IInv, MirrorWasAccepted, MirrorIsSound
<1>5. QED
  BY <1>2, <1>3, <1>4, KeptWork

\* adapter.updateStock for the whole chunk.
LEMMA BatchStep == ASSUME IInv, NEW j \in Jobs, CallBatch(j) PROVE IInv'
<1> DEFINE us == work[j].todo
<1>0. us \in SUBSET Listings /\ us \subseteq Updates[Push(j)] /\ {} \in SUBSET Listings /\ work[j].ok \in SUBSET Listings
      /\ work[j].ok \subseteq Updates[Push(j)]
  BY UpdateType DEF IInv, WorkIsSound
<1>1. job[j].state = "active" /\ UNCHANGED <<job, hook, mirror, dlq, night, alerts, settings, faults>>
  BY DEF CallBatch, Active
<1> HIDE DEF us
<1>2. CASE Accept(j, us) /\ work' = [work EXCEPT ![j] = [at |-> "mirror", todo |-> us, ok |-> us]]
  <2> DEFINE w == [at |-> "mirror", todo |-> us, ok |-> us]
  <2>1. w \in Work /\ w.todo = us /\ w.ok = us
    BY <1>0, WorkType, PlaceType
  <2> HIDE DEF w
  <2>2. QED
    BY <1>0, <1>1, <1>2, <2>1, CallStep DEF us, w
<1>3. ASSUME NEW applied \in BOOLEAN, Accept(j, IF applied THEN us ELSE {}),
             work' = [work EXCEPT ![j].at = "items"]
      PROVE  IInv'
  <2> DEFINE w == [work[j] EXCEPT !.at = "items"]
             ls == IF applied THEN us ELSE {}
  <2>0. work[j] \in Work
    BY DEF IInv, MirrorWasAccepted, TypeOK
  <2>1. w \in Work /\ w.todo = us /\ w.ok = work[j].ok /\ w.at = "items" /\ ls \in SUBSET Listings
    <3>1. work[j] = [at |-> work[j].at, todo |-> work[j].todo, ok |-> work[j].ok]
      BY <2>0 DEF Work
    <3>2. w = [at |-> "items", todo |-> us, ok |-> work[j].ok]
      BY <3>1 DEF us
    <3> HIDE DEF w
    <3>3. QED
      BY <1>0, <3>2, WorkType, PlaceType
  <2>2. Accept(j, ls) /\ work' = [work EXCEPT ![j] = w]
    BY <1>3
  <2> HIDE DEF w, ls
  <2>3. QED
    BY <1>0, <1>1, <2>1, <2>2, CallStep
<1>4. QED
  BY <1>2, <1>3 DEF CallBatch, us

\* A call for one listing.
LEMMA ItemStep == ASSUME IInv, NEW j \in Jobs, NEW l \in Listings, CallItem(j, l) PROVE IInv'
<1>0. TypeOK
  BY DEF IInv, MirrorWasAccepted
<1>1. /\ job[j].state = "active" /\ l \in work[j].todo
      /\ UNCHANGED <<job, hook, mirror, dlq, night, alerts, settings, faults>>
  BY DEF CallItem, Active
<1>2. PICK done \in BOOLEAN, applied \in BOOLEAN :
        /\ done => applied
        /\ Accept(j, IF applied THEN {l} ELSE {})
        /\ LET ok == IF done THEN work[j].ok \cup {l} ELSE work[j].ok
               todo == work[j].todo \ {l}
           IN  work' = [work EXCEPT ![j] = IF todo = {}
                          THEN [at |-> "mirror", todo |-> ok, ok |-> ok]
                          ELSE [at |-> "items", todo |-> todo, ok |-> ok]]
  BY DEF CallItem
<1> DEFINE ls == IF applied THEN {l} ELSE {}
           ok == IF done THEN work[j].ok \cup {l} ELSE work[j].ok
           todo == work[j].todo \ {l}
           w == IF todo = {} THEN [at |-> "mirror", todo |-> ok, ok |-> ok]
                ELSE [at |-> "items", todo |-> todo, ok |-> ok]
<1>3. Accept(j, ls) /\ work' = [work EXCEPT ![j] = w] /\ ls \in SUBSET Listings
  BY <1>2
<1>4. ok \subseteq work[j].ok \cup ls /\ ok \subseteq Updates[Push(j)] /\ todo \subseteq Updates[Push(j)]
  BY <1>1, <1>2 DEF IInv, WorkIsSound
<1>5. ok \in SUBSET Listings /\ todo \in SUBSET Listings
  BY <1>4, UpdateType
<1> HIDE DEF ok, todo, ls
<1>6. w \in Work /\ w.ok = ok /\ w.todo \in {ok, todo} /\ (w.at = "mirror" => w.todo = ok)
  <2>1. CASE todo = {}
    BY <1>5, <2>1, WorkType, PlaceType
  <2>2. CASE todo # {}
    BY <1>5, <2>2, WorkType, PlaceType
  <2>3. QED
    BY <2>1, <2>2
<1> HIDE DEF w
<1>7. QED
  BY <1>1, <1>3, <1>4, <1>6, CallStep

\* listing.update.
LEMMA MirrorStep == ASSUME IInv, NEW j \in Jobs, NEW l \in Listings, Mirror(j, l) PROVE IInv'
<1>0. TypeOK
  BY DEF IInv, MirrorWasAccepted
<1>1. /\ job[j].state = "active" /\ work[j].at = "mirror" /\ l \in work[j].todo
      /\ mirror' = [mirror EXCEPT ![l] = [quantity |-> Quantity[Push(j)], by |-> "worker"]]
      /\ work' = [work EXCEPT ![j].todo = work[j].todo \ {l}]
      /\ UNCHANGED <<job, hook, accepted, dlq, night, alerts, settings, faults>>
  BY DEF Mirror, Active
<1>2. /\ work' \in [Jobs -> Work] /\ work'[j].todo = work[j].todo \ {l}
      /\ work'[j].ok = work[j].ok /\ work'[j].at = work[j].at
      /\ \A i \in Jobs \ {j} : work'[i] = work[i]
  <2> DEFINE w == [work[j] EXCEPT !.todo = work[j].todo \ {l}]
  <2>1. work[j] \in Work /\ work \in [Jobs -> Work]
    BY <1>0 DEF TypeOK
  <2>2. w \in Work /\ w.todo = work[j].todo \ {l} /\ w.ok = work[j].ok /\ w.at = work[j].at
    BY <2>1 DEF Work
  <2>3. work' = [work EXCEPT ![j] = w]
    BY <1>1
  <2> HIDE DEF w
  <2>4. QED
    BY <2>1, <2>2, <2>3
<1>3. TypeOK'
  BY <1>0, <1>1, <1>2, UpdateType DEF TypeOK
<1>4. WorkIsSound'
  BY <1>1, <1>2 DEF IInv, WorkIsSound
<1>5. Quantity[Push(j)] \in accepted[l]
  BY <1>1 DEF IInv, WorkIsSound
<1>6. MirrorIsSound'
  BY <1>0, <1>1, <1>5 DEF IInv, MirrorWasAccepted, MirrorIsSound, TypeOK
<1>7. QED
  BY <1>1, <1>3, <1>4, <1>6, KeptWork

----------------------------------------------------------------------------
(* The failed event and the dead-letter queue. *)

\* Steps that leave the jobs and the worker alone.
LEMMA KeptDead ==
  ASSUME IInv, TypeOK', DeadFailed', UNCHANGED <<job, work, accepted, mirror>>,
         \A i \in alerts' : i \in alerts \/ (Copy(i) > 0 /\ job[i].state = "failed")
  PROVE  IInv'
<1>1. JobsGrow
  BY DEF JobsGrow
<1>2. Attempted' /\ WorkIsSound' /\ MirrorIsSound'
  BY DEF IInv, Attempted, WorkIsSound, MirrorWasAccepted, MirrorIsSound
<1>3. QED
  BY <1>1, <1>2, Kept

\* A job without an attempt left has failed.
LEMMA ExhaustedFailed ==
  ASSUME TypeOK, Attempted, NEW j \in Jobs, Exhausted(j)
  PROVE  job[j].state = "failed"
<1>1. /\ job[j].state \in JobState /\ job[j].made \in 0..Attempts /\ job[j].max \in {1, Attempts}
      /\ Attempts \in Nat \ {0} /\ job[j].made >= job[j].max
  BY ListingSyncAssumption DEF TypeOK, Exhausted
<1>2. ~(job[j].made < job[j].max) /\ job[j].made # 0
  BY <1>1
<1>3. QED
  BY <1>1, <1>2 DEF Attempted, JobState

\* ListingSyncDlqHooks.onFailed.
LEMMA FailedStep == ASSUME IInv, NEW j \in Jobs, OnFailed(j) PROVE IInv'
<1>0. TypeOK /\ Attempted /\ DeadFailed
  BY DEF IInv, MirrorWasAccepted
<1>1. CASE HandlerFails(j)
  <2>1. TypeOK'
    BY <1>0, <1>1 DEF HandlerFails, TypeOK
  <2>2. DeadFailed'
    BY <1>0, <1>1 DEF HandlerFails, DeadFailed, TypeOK
  <2>3. QED
    BY <1>1, <2>1, <2>2, KeptDead DEF HandlerFails
<1>2. CASE moveToDeadLetter(j)
  <2>1. <<"store", j>> \in DlqKinds \X Jobs /\ dlq[<<"store", j>>] \in Nat
    BY <1>0 DEF TypeOK, DlqKinds
  <2>2. /\ dlq' = IF Exhausted(j) THEN [dlq EXCEPT ![<<"store", j>>] = dlq[<<"store", j>>] + 1] ELSE dlq
        /\ hook' = [hook EXCEPT ![j] = IF dlqReplay(j) /\ Exhausted(j) THEN "permanent" ELSE "none"]
        /\ UNCHANGED <<job, work, accepted, mirror, night, alerts, settings, faults>>
    BY <1>2 DEF moveToDeadLetter
  <2>3. dlq' \in [DlqKinds \X Jobs -> Nat]
    BY <1>0, <2>1, <2>2 DEF TypeOK
  <2>4. TypeOK'
    BY <1>0, <2>2, <2>3 DEF TypeOK
  <2>5. Exhausted(j) => job[j].state = "failed"
    BY <1>0, ExhaustedFailed
  <2>6. \A e \in DlqKinds \X Jobs : dlq'[e] > 0 => job[e[2]].state = "failed"
    <3>1. ASSUME NEW e \in DlqKinds \X Jobs, dlq'[e] > 0 PROVE job[e[2]].state = "failed"
      <4>1. dlq'[e] = dlq[e] \/ (e = <<"store", j>> /\ Exhausted(j))
        BY <1>0, <2>2 DEF TypeOK
      <4>2. QED
        BY <1>0, <2>5, <3>1, <4>1 DEF DeadFailed
    <3>2. QED
      BY <3>1
  <2>7. \A i \in Jobs : hook'[i] = "permanent" => Copy(i) > 0 /\ job[i].state = "failed"
    BY <1>0, <2>2, <2>5 DEF DeadFailed, TypeOK, dlqReplay
  <2>8. DeadFailed'
    BY <1>0, <2>2, <2>6, <2>7 DEF DeadFailed
  <2>9. QED
    BY <2>2, <2>4, <2>8, KeptDead
<1>3. CASE handlePermanentFailure(j)
  <2>1. TypeOK'
    BY <1>0, <1>3 DEF handlePermanentFailure, TypeOK
  <2>2. DeadFailed'
    BY <1>0, <1>3 DEF handlePermanentFailure, DeadFailed, TypeOK
  <2>3. \A i \in alerts' : i \in alerts \/ (Copy(i) > 0 /\ job[i].state = "failed")
    BY <1>0, <1>3 DEF handlePermanentFailure, DeadFailed
  <2>4. QED
    BY <1>3, <2>1, <2>2, <2>3, KeptDead DEF handlePermanentFailure
<1>4. QED
  BY <1>1, <1>2, <1>3 DEF OnFailed

\* DeadLetterProcessor.store.
LEMMA StoreStep == ASSUME IInv, NEW j \in Jobs, StoreDeadLetter(j) PROVE IInv'
<1>0. TypeOK /\ DeadFailed
  BY DEF IInv, MirrorWasAccepted
<1>1. <<"store", j>> \in DlqKinds \X Jobs /\ dlq[<<"store", j>>] \in Nat
  BY <1>0 DEF TypeOK, DlqKinds
<1>2. /\ dlq[<<"store", j>>] > 0 /\ dlq' = [dlq EXCEPT ![<<"store", j>>] = dlq[<<"store", j>>] - 1]
      /\ UNCHANGED <<job, work, hook, accepted, mirror, night, alerts, settings, faults>>
  BY DEF StoreDeadLetter
<1>3. dlq' \in [DlqKinds \X Jobs -> Nat]
  BY <1>0, <1>1, <1>2 DEF TypeOK
<1>4. TypeOK'
  BY <1>0, <1>2, <1>3 DEF TypeOK
<1>5. \A e \in DlqKinds \X Jobs : dlq'[e] > 0 => dlq[e] > 0
  <2>1. dlq \in [DlqKinds \X Jobs -> Nat]
    BY <1>0 DEF TypeOK
  <2>2. QED
    BY <1>2, <2>1
<1>6. DeadFailed'
  BY <1>0, <1>2, <1>5 DEF DeadFailed
<1>7. QED
  BY <1>2, <1>4, <1>6, KeptDead

\* replayDeadLetterJob: the copy comes after the job that failed, since the copies before that
\* one were made.
LEMMA ReplayStep == ASSUME IInv, NEW j \in Jobs, ReplayDeadLetter(j) PROVE IInv'
<1>0. TypeOK /\ DeadFailed /\ InOrder /\ Attempted /\ WorkIsSound
  BY DEF IInv, MirrorWasAccepted
<1>1. <<"replay", j>> \in DlqKinds \X Jobs /\ dlq[<<"replay", j>>] \in Nat
  BY <1>0 DEF TypeOK, DlqKinds
<1>2. /\ dlq[<<"replay", j>>] > 0 /\ dlq' = [dlq EXCEPT ![<<"replay", j>>] = dlq[<<"replay", j>>] - 1]
      /\ UNCHANGED <<work, hook, accepted, mirror, night, alerts, settings, faults>>
  BY DEF ReplayDeadLetter
<1> DEFINE new == [name |-> job[j].name, state |-> "waiting", made |-> 0, max |-> 1]
<1>3. PICK k \in NextCopy(Push(j)) : job' = [job EXCEPT ![k] = new]
  BY DEF ReplayDeadLetter
<1>4. /\ k \in Jobs /\ Push(k) = Push(j) /\ Copy(k) \in 1..MaxReplays /\ job[k].state = "none"
      /\ \A c \in 1..(Copy(k) - 1) : job[<<Push(j), c>>].state # "none"
  BY JobType, ListingSyncAssumption DEF NextCopy, Push, Copy, Jobs
<1>5. job[j].state = "failed"
  <2>1. <<"replay", j>>[2] = j
    OBVIOUS
  <2>2. QED
    BY <1>0, <1>1, <1>2, <2>1 DEF DeadFailed
<1>6. new.state = "waiting" /\ new.made = 0 /\ new.max = 1
      /\ new \in [name : JobNames, state : JobState, made : 0..Attempts, max : {1, Attempts}]
  <2>1. job[j].name \in JobNames
    BY <1>0 DEF TypeOK
  <2>2. QED
    BY <2>1, ListingSyncAssumption DEF JobState
<1> HIDE DEF new
<1>7. dlq' \in [DlqKinds \X Jobs -> Nat] /\ \A e \in DlqKinds \X Jobs : dlq'[e] > 0 => dlq[e] > 0
  <2>1. dlq \in [DlqKinds \X Jobs -> Nat]
    BY <1>0 DEF TypeOK
  <2>2. QED
    BY <1>1, <1>2, <2>1
<1>8. TypeOK'
  BY <1>0, <1>2, <1>3, <1>6, <1>7 DEF TypeOK
<1>9. job'[k] = new /\ \A i \in Jobs \ {k} : job'[i] = job[i]
  BY <1>0, <1>3, <1>4 DEF TypeOK
<1>10. Copy(j) \in 0..(Copy(k) - 1)
  <2>1. Copy(j) \in 0..MaxReplays /\ Copy(k) \in 1..MaxReplays /\ MaxReplays \in Nat
    BY <1>4, JobType, ListingSyncAssumption
  <2>2. CASE Copy(j) = Copy(k)
    BY <1>4, <1>5, <2>2 DEF Push, Copy, Jobs
  <2>3. CASE Copy(j) > Copy(k)
    <3>1. Copy(k) \in 1..(Copy(j) - 1)
      BY <2>1, <2>3
    <3>2. job[<<Push(j), Copy(k)>>].state # "none"
      BY <1>0, <1>5, <3>1 DEF InOrder
    <3>3. <<Push(j), Copy(k)>> = k
      BY <1>4 DEF Push, Copy, Jobs
    <3>4. QED
      BY <1>4, <3>2, <3>3
  <2>4. QED
    BY <2>1, <2>2, <2>3
<1>11. job[<<Push(k), Copy(j)>>].state = "failed"
  <2>1. <<Push(j), Copy(j)>> = j
    BY DEF Push, Copy, Jobs
  <2>2. QED
    BY <1>4, <1>5, <2>1
<1>12. JobsGrow
  BY <1>2, <1>4, <1>6, <1>9, <1>10, <1>11 DEF JobsGrow
<1>13. Attempted'
  BY <1>0, <1>6, <1>9 DEF Attempted
<1>14. WorkIsSound'
  <2>1. \A i \in Jobs : job'[i].state = "completed" => job[i].state = "completed"
    BY <1>6, <1>9
  <2>2. QED
    BY <1>0, <1>2, <2>1 DEF WorkIsSound
<1>15. DeadFailed'
  <2>1. \A i \in Jobs : job[i].state = "failed" => job'[i].state = "failed"
    BY <1>12 DEF JobsGrow
  <2>2. \A n \in night : n.entry[2] \in Jobs
    BY <1>0 DEF TypeOK
  <2>3. QED
    BY <1>0, <1>2, <1>7, <2>1, <2>2 DEF DeadFailed
<1>16. QED
  BY <1>2, <1>8, <1>12, <1>13, <1>14, <1>15, Kept DEF IInv, MirrorWasAccepted, MirrorIsSound

\* scheduleDeadLetterRetry.
LEMMA NightStep == ASSUME IInv, Nightly PROVE IInv'
<1>0. TypeOK /\ DeadFailed
  BY DEF IInv, MirrorWasAccepted
<1>1. CASE ReadDeadLetters
  <2>1. /\ night' = [entry : {e \in DlqKinds \X Jobs : dlq[e] > 0}, next : {"add"}]
        /\ UNCHANGED <<job, work, hook, accepted, mirror, dlq, alerts, settings, faults>>
    BY <1>1 DEF ReadDeadLetters
  <2>2. TypeOK'
    BY <1>0, <2>1 DEF TypeOK
  <2>3. DeadFailed'
    BY <1>0, <2>1 DEF DeadFailed
  <2>4. QED
    BY <2>1, <2>2, <2>3, KeptDead
<1>2. ASSUME NEW n \in night, MoveDeadLetter(n) PROVE IInv'
  <2> DEFINE j == n.entry[2]
             later == [n EXCEPT !.next = "remove"]
  <2>1. /\ n.entry \in DlqKinds \X Jobs /\ j \in Jobs /\ job[j].state = "failed"
        /\ later \in [entry : DlqKinds \X Jobs, next : {"add", "remove"}] /\ later.entry = n.entry
    BY <1>0 DEF TypeOK, DeadFailed
  <2>2. <<"replay", j>> \in DlqKinds \X Jobs /\ <<"replay", j>>[2] = j
    BY <2>1 DEF DlqKinds
  <2> HIDE DEF j, later
  <2>3. /\ UNCHANGED <<job, work, hook, accepted, mirror, alerts, settings, faults>>
        /\ \/ /\ dlq' = [dlq EXCEPT ![<<"replay", j>>] = dlq[<<"replay", j>>] + 1]
              /\ night' = (night \ {n}) \cup {later}
           \/ /\ dlq[n.entry] > 0
              /\ dlq' = [dlq EXCEPT ![n.entry] = dlq[n.entry] - 1]
              /\ night' = night \ {n}
           \/ night' \in {night \ {n}, {}} /\ dlq' = dlq
    BY <1>2 DEF MoveDeadLetter, j, later
  <2>4. dlq' \in [DlqKinds \X Jobs -> Nat] /\ \A e \in DlqKinds \X Jobs : dlq'[e] > 0 => dlq[e] > 0 \/ e[2] = j
    <3>1. dlq \in [DlqKinds \X Jobs -> Nat]
      BY <1>0 DEF TypeOK
    <3>2. CASE dlq' = [dlq EXCEPT ![<<"replay", j>>] = dlq[<<"replay", j>>] + 1]
      BY <2>2, <3>1, <3>2
    <3>3. CASE dlq[n.entry] > 0 /\ dlq' = [dlq EXCEPT ![n.entry] = dlq[n.entry] - 1]
      BY <2>1, <3>1, <3>3
    <3>4. QED
      BY <2>3, <3>1, <3>2, <3>3
  <2>5. night' \subseteq night \cup {later}
    BY <2>3
  <2>6. TypeOK'
    BY <1>0, <2>1, <2>3, <2>4, <2>5 DEF TypeOK
  <2>7. DeadFailed'
    <3>1. \A m \in night' : job[m.entry[2]].state = "failed"
      BY <1>0, <2>1, <2>5 DEF DeadFailed, j
    <3>2. QED
      BY <1>0, <2>1, <2>3, <2>4, <3>1 DEF DeadFailed
  <2>8. QED
    BY <2>3, <2>6, <2>7, KeptDead
<1>3. QED
  BY <1>1, <1>2 DEF Nightly

----------------------------------------------------------------------------
(* The rest. *)

\* The user changes the connection or what may be pushed.
LEMMA ConnStep ==
  ASSUME IInv, \/ \E c \in {"on", "off", "gone"} : ChangeConnection(c)
               \/ \E ls \in SUBSET Listings : ChangePolicy(ls)
  PROVE  IInv'
<1>1. TypeOK'
  BY ListingSyncAssumption DEF IInv, MirrorWasAccepted, TypeOK, ChangeConnection, ChangePolicy
<1>2. DeadFailed'
  BY DEF IInv, DeadFailed, ChangeConnection, ChangePolicy
<1>3. QED
  BY <1>1, <1>2, KeptDead DEF ChangeConnection, ChangePolicy

\* Somebody else writes Listing.quantity.
LEMMA QuantityStep ==
  ASSUME IInv, NEW l \in Listings, NEW n \in OtherQuantities, WriteQuantity(l, n) PROVE IInv'
<1>1. TypeOK'
  BY ListingSyncAssumption DEF IInv, MirrorWasAccepted, TypeOK, WriteQuantity
<1>2. WorkIsSound' /\ MirrorIsSound'
  BY DEF IInv, MirrorWasAccepted, TypeOK, WorkIsSound, MirrorIsSound, WriteQuantity
<1>3. QED
  BY <1>1, <1>2, KeptWork DEF WriteQuantity

\* The process dies.
LEMMA CrashStep == ASSUME IInv, Crash PROVE IInv'
<1>0. TypeOK /\ DeadFailed /\ Attempted /\ WorkIsSound
  BY DEF IInv, MirrorWasAccepted
<1>1. /\ job' = [i \in Jobs |-> IF i \in Active THEN [job[i] EXCEPT !.state = "waiting"] ELSE job[i]]
      /\ work' = [i \in Jobs |-> IF i \in Active THEN Idle ELSE work[i]]
      /\ hook' = [i \in Jobs |-> "none"] /\ night' = {}
      /\ faults < MaxFaults /\ faults' = faults + 1
      /\ UNCHANGED <<accepted, mirror, dlq, alerts, settings>>
  BY DEF Crash
<1>2. ASSUME NEW i \in Jobs
      PROVE  /\ job'[i] \in [name : JobNames, state : JobState, made : 0..Attempts, max : {1, Attempts}]
             /\ job'[i].made = job[i].made /\ job'[i].max = job[i].max
             /\ job'[i].state = job[i].state \/ (job[i].state = "active" /\ job'[i].state = "waiting")
             /\ work'[i] \in Work /\ (work'[i] = work[i] \/ work'[i] = Idle)
  <2>1. job[i] \in [name : JobNames, state : JobState, made : 0..Attempts, max : {1, Attempts}] /\ work[i] \in Work
    BY <1>0 DEF TypeOK
  <2>2. Idle \in Work
    BY IdleIsSound
  <2>3. CASE i \in Active
    BY <1>1, <2>1, <2>2, <2>3 DEF JobState, Active
  <2>4. CASE i \notin Active
    BY <1>1, <2>1, <2>4
  <2>5. QED
    BY <2>3, <2>4
<1>3. TypeOK'
  <2>1. /\ job' \in [Jobs -> [name : JobNames, state : JobState, made : 0..Attempts, max : {1, Attempts}]]
        /\ work' \in [Jobs -> Work]
    BY <1>1, <1>2
  <2>2. faults' \in 0..MaxFaults
    BY <1>0, <1>1, ListingSyncAssumption DEF TypeOK
  <2>3. QED
    BY <1>0, <1>1, <2>1, <2>2 DEF TypeOK
<1>4. JobsGrow
  <2>1. \A i \in Jobs : /\ job[i].state = "failed" => job'[i].state = "failed"
                        /\ job[i].state # "none" <=> job'[i].state # "none"
    BY <1>2
  <2>2. QED
    BY <1>1, <2>1 DEF JobsGrow
<1>5. Attempted'
  BY <1>0, <1>2 DEF Attempted
<1>6. WorkIsSound'
  <2>1. Idle.at \notin Calling /\ Idle.todo = {} /\ Idle.ok = {}
    BY DEF Idle, Calling
  <2>2. QED
    BY <1>0, <1>1, <1>2, <2>1 DEF WorkIsSound
<1>7. DeadFailed'
  <2>1. \A e \in DlqKinds \X Jobs : dlq'[e] > 0 => job'[e[2]].state = "failed"
    BY <1>0, <1>1, <1>4 DEF DeadFailed, JobsGrow
  <2>2. QED
    BY <1>1, <2>1 DEF DeadFailed
<1>8. QED
  BY <1>1, <1>3, <1>4, <1>5, <1>6, <1>7, Kept DEF IInv, MirrorWasAccepted, MirrorIsSound

\* Every step keeps the invariant.
LEMMA InvStep == IInv /\ [Next]_vars => IInv'
<1> SUFFICES ASSUME IInv, [Next]_vars PROVE IInv'
  OBVIOUS
<1>1. CASE UNCHANGED vars
  <2>1. TypeOK' /\ DeadFailed'
    BY <1>1 DEF vars, IInv, MirrorWasAccepted, TypeOK, DeadFailed
  <2>2. QED
    BY <1>1, <2>1, KeptDead DEF vars
<1>2. ASSUME NEW j \in Jobs, Worker(j) PROVE IInv'
  BY <1>2, TakeStep, ConnectionStep, BatchStep, FinishStep, ItemStep, MirrorStep DEF Worker
<1>3. ASSUME NEW j \in Jobs, Throw(j) \/ OnFailed(j) \/ DeadLetterWorker(j) PROVE IInv'
  BY <1>3, FinishStep, FailedStep, StoreStep, ReplayStep DEF DeadLetterWorker
<1>4. QED
  BY <1>1, <1>2, <1>3, EnqueueStep, NightStep, ConnStep, QuantityStep, CrashStep DEF Next

----------------------------------------------------------------------------
(* The theorems. *)

\* The invariant holds in every reachable state.
THEOREM Inductive == Spec => []IInv
<1>1. QED
  BY InvInit, InvStep, PTL DEF Spec

\* What the worker writes to Listing.quantity was accepted: it mirrors an outcome after the call
\* that brought it, and no crash or retry lets it mirror another's.
THEOREM MirrorIsTrue == Spec => []MirrorWasAccepted
<1>1. IInv => MirrorWasAccepted
  BY DEF IInv
<1>2. QED
  BY <1>1, Inductive, PTL

\* A job that called the marketplace and counts as done has reached a listing: it is only done
\* without when it called nobody.
THEOREM DoneWasDelivered == Spec => []CompletedDelivered
<1>1. IInv => CompletedDelivered
  <2> SUFFICES ASSUME IInv, NEW j \in Jobs, job[j].state = "completed", work[j].at \in Calling
               PROVE  \E l \in work[j].ok : Quantity[Push(j)] \in accepted[l]
    BY DEF CompletedDelivered, Calling
  <2>1. PICK l \in work[j].ok : TRUE
    BY DEF IInv, WorkIsSound
  <2>2. QED
    BY <2>1 DEF IInv, WorkIsSound
<1>2. QED
  BY <1>1, Inductive, PTL

\* A replay follows a job of the push that failed for good, however many entries of the
\* dead-letter queue are copied, lost or replayed twice by a nightly task that dies.
THEOREM ReplayedAfterFailure == Spec => []ReplaysFollowFailure
<1>1. IInv => ReplaysFollowFailure
  BY DEF IInv
<1>2. QED
  BY <1>1, Inductive, PTL

----------------------------------------------------------------------------
(* Orders: the inductive invariant. *)

\* A cancellation that the marketplace was told of, or that nobody was to be told of, is
\* written here next.
CancelledThereFirst ==
  \A p \in Requests : pc[p] \in {"finalRead", "finalWrite"} /\ Order(p) \notin byHand =>
    market[Order(p)] = "CANCELLED"

Making == {"createDraft", "bill", "log"}
Checked(p) == req[p].kind = "checked"
Maker(p) == pc[p] \in Making /\ Checked(p)

\* The invoices made by those that looked for one first.
MoreDrafts(o) == drafts[o] - ownDrafts[o]
MoreErp(o) == erp[o] - ownErp[o]

\* As long as the mode stays and users keep to it, whoever looks for invoices first makes them
\* in the organisation's books or in its ERP, never in both.
OneLedger ==
  /\ \A o \in Orders \ mixed : /\ native => MoreErp(o) = 0
                               /\ ~native => MoreDrafts(o) = 0
  /\ \A p \in Requests : Checked(p) /\ Order(p) \notin mixed =>
       /\ pc[p] \in {"queued", "check", "bill", "log"} => ~native
       /\ pc[p] \in {"findDraft", "createDraft"} => native

\* Where there is no doubt about an order, one request at most makes an invoice of it after a
\* look, and it is the first.
OneMaker ==
  /\ \A p, q \in Requests : Maker(p) /\ Maker(q) /\ Order(p) = Order(q) /\ Order(p) \notin doubtful => p = q
  /\ \A p \in Requests : Maker(p) /\ pc[p] = "createDraft" /\ Order(p) \notin doubtful => MoreDrafts(Order(p)) = 0
  /\ \A p \in Requests : Maker(p) /\ pc[p] = "bill" /\ Order(p) \notin doubtful => MoreErp(Order(p)) = 0

\* Such an invoice of the ERP is in the log, or on its way there.
LoggedOrDoubtful ==
  \A o \in Orders \ doubtful :
    MoreErp(o) = 0 \/ o \in logged \/ \E p \in Requests : pc[p] = "log" /\ Checked(p) /\ Order(p) = o

InvoicesAreKept ==
  /\ OneLedger /\ OneMaker /\ LoggedOrDoubtful
  /\ \A o \in Orders : MoreDrafts(o) \in Nat
  /\ \A o \in Orders \ doubtful : MoreDrafts(o) <= 1 /\ MoreErp(o) <= 1

OrderInv == CancelledThereToo /\ CancelledThereFirst /\ InvoicesAreKept

OrderReq == [order : Orders, new : OrderStatus, invoices : BOOLEAN, made : 0..(CancelAttempts - 1),
             kind : Kinds]

\* A request moves alone.
Alone(p) == \A q \in Requests \ {p} : pc'[q] = pc[q] /\ req'[q] = req[q]

\* The request that is none is of the type.
LEMMA NoReqType == NoReq \in OrderReq /\ 0 \in 0..(CancelAttempts - 1)
<1>1. (CHOOSE o \in Orders : TRUE) \in Orders
  BY OrderFlowAssumption
<1>2. 0 \in 0..(CancelAttempts - 1)
  BY OrderFlowAssumption
<1>3. QED
  BY <1>1, <1>2 DEF NoReq, OrderReq, OrderStatus, Kinds

\* A request that goes on.
LEMMA Went ==
  ASSUME OrderTypeOK, NEW p \in Requests, NEW l \in Places, Goto(p, l), UNCHANGED req
  PROVE  /\ pc' \in [Requests -> Places] /\ pc'[p] = l /\ req' \in [Requests -> OrderReq]
         /\ req'[p] = req[p] /\ Alone(p)
  BY DEF OrderTypeOK, Goto, Alone, OrderReq

\* A request that takes an order, a status or another attempt.
LEMMA WentWith ==
  ASSUME OrderTypeOK, NEW p \in Requests, NEW l \in Places, Goto(p, l),
         NEW r \in OrderReq, req' = [req EXCEPT ![p] = r]
  PROVE  /\ pc' \in [Requests -> Places] /\ pc'[p] = l /\ req' \in [Requests -> OrderReq]
         /\ req'[p] = r /\ Alone(p)
  BY DEF OrderTypeOK, Goto, Alone, OrderReq

\* A request that ends.
LEMMA Ended ==
  ASSUME OrderTypeOK, NEW p \in Requests, NEW l \in Places, End(p, l)
  PROVE  /\ pc' \in [Requests -> Places] /\ pc'[p] = l /\ req' \in [Requests -> OrderReq] /\ Alone(p)
  BY WentWith, NoReqType DEF End

\* What the others do stays the same.
LEMMA OthersStay ==
  ASSUME NEW p \in Requests, Alone(p), NEW q \in Requests, q # p
  PROVE  /\ pc'[q] = pc[q] /\ Order(q)' = Order(q) /\ (Checked(q)' <=> Checked(q))
         /\ (Maker(q)' <=> Maker(q))
  BY DEF Alone, Order, Checked, Maker

\* Moves of one request that leave statuses alone keep what is said of cancellations.
LEMMA CancelsCalm ==
  ASSUME OrderInv, OrderTypeOK', NEW p \in Requests, Alone(p), UNCHANGED <<status, market>>,
         byHand \subseteq byHand',
         pc'[p] \in {"finalRead", "finalWrite"} /\ Order(p)' \notin byHand' =>
           market'[Order(p)'] = "CANCELLED"
  PROVE  (CancelledThereToo /\ CancelledThereFirst)'
<1>1. CancelledThereToo'
  BY DEF OrderInv, CancelledThereToo
<1>2. ASSUME NEW q \in Requests, pc'[q] \in {"finalRead", "finalWrite"}, Order(q)' \notin byHand'
      PROVE  market'[Order(q)'] = "CANCELLED"
  <2>1. CASE q = p
    BY <1>2, <2>1
  <2>2. CASE q # p
    BY <1>2, <2>2 DEF OrderInv, CancelledThereFirst, Alone, Order
  <2>3. QED
    BY <2>1, <2>2
<1>3. QED
  BY <1>1, <1>2 DEF CancelledThereFirst

\* Moves of one request keep what is said of invoices when it makes none after a look: those
\* it makes of its own are counted as such.
LEMMA InvoicesCalm ==
  ASSUME OrderInv, NEW p \in Requests, Alone(p), UNCHANGED native,
         mixed \subseteq mixed', doubtful \subseteq doubtful', logged \subseteq logged',
         \A o \in Orders : MoreDrafts(o)' = MoreDrafts(o) /\ MoreErp(o)' = MoreErp(o),
         pc[p] = "log" /\ Checked(p) => Order(p) \in logged',
         ~Maker(p)',
         Checked(p)' /\ Order(p)' \notin mixed' => /\ pc'[p] \in {"queued", "check"} => ~native
                                                   /\ pc'[p] = "findDraft" => native
  PROVE  InvoicesAreKept'
<1>0. OneLedger /\ OneMaker /\ LoggedOrDoubtful /\ \A q \in Requests : Order(q) \in Orders
  BY DEF OrderInv, InvoicesAreKept, CancelledThereToo, OrderTypeOK, Order
<1>1. OneLedger'
  <2>1. ASSUME NEW q \in Requests, Checked(q)', Order(q)' \notin mixed'
        PROVE  /\ pc'[q] \in {"queued", "check", "bill", "log"} => ~native
               /\ pc'[q] \in {"findDraft", "createDraft"} => native
    <3>1. CASE q = p
      BY <2>1, <3>1 DEF Maker, Making
    <3>2. CASE q # p
      BY <1>0, <2>1, <3>2, OthersStay DEF OneLedger
    <3>3. QED
      BY <3>1, <3>2
  <2>2. \A o \in Orders \ mixed' : /\ native => MoreErp(o)' = 0
                                   /\ ~native => MoreDrafts(o)' = 0
    BY <1>0 DEF OneLedger
  <2>3. QED
    BY <2>1, <2>2 DEF OneLedger
<1>2. \A q \in Requests : Maker(q)' => /\ q # p /\ Maker(q) /\ Order(q)' = Order(q) /\ pc'[q] = pc[q]
                                       /\ Order(q) \in Orders
  BY <1>0, OthersStay
<1>3. OneMaker'
  BY <1>0, <1>2 DEF OneMaker
<1>4. LoggedOrDoubtful'
  <2>1. ASSUME NEW o \in Orders \ doubtful', MoreErp(o)' # 0, o \notin logged'
        PROVE  \E q \in Requests : pc'[q] = "log" /\ Checked(q)' /\ Order(q)' = o
    <3>1. PICK q \in Requests : pc[q] = "log" /\ Checked(q) /\ Order(q) = o
      BY <1>0, <2>1 DEF LoggedOrDoubtful
    <3>2. q # p
      BY <2>1, <3>1
    <3>3. QED
      BY <3>1, <3>2, OthersStay
  <2>2. QED
    BY <2>1 DEF LoggedOrDoubtful
<1>5. /\ \A o \in Orders : MoreDrafts(o)' \in Nat
      /\ \A o \in Orders \ doubtful' : MoreDrafts(o)' <= 1 /\ MoreErp(o)' <= 1
  BY DEF OrderInv, InvoicesAreKept
<1>6. QED
  BY <1>1, <1>3, <1>4, <1>5 DEF InvoicesAreKept

\* What is counted stays so when nothing is counted.
LEMMA MoreStay ==
  ASSUME UNCHANGED <<drafts, ownDrafts, erp, ownErp>>
  PROVE  \A o \in Orders : MoreDrafts(o)' = MoreDrafts(o) /\ MoreErp(o)' = MoreErp(o)
  BY DEF MoreDrafts, MoreErp

\* Such moves keep the whole invariant.
LEMMA OrdersCalm ==
  ASSUME OrderInv, NEW p \in Requests, Alone(p),
         pc' \in [Requests -> Places], req' \in [Requests -> OrderReq],
         UNCHANGED World, pc[p] # "log", ~Maker(p)', pc'[p] \notin {"finalRead", "finalWrite"},
         Checked(p)' /\ Order(p)' \notin mixed' => /\ pc'[p] \in {"queued", "check"} => ~native
                                                   /\ pc'[p] = "findDraft" => native
  PROVE  OrderInv'
<1>1. OrderTypeOK'
  BY DEF OrderInv, CancelledThereToo, OrderTypeOK, World, Books, OrderReq
<1>2. (CancelledThereToo /\ CancelledThereFirst)'
  BY <1>1, CancelsCalm DEF World
<1>3. InvoicesAreKept'
  <2>1. UNCHANGED <<native, mixed, doubtful, logged, drafts, ownDrafts, erp, ownErp>>
    BY DEF World, Books
  <2>2. QED
    BY <2>1, MoreStay, InvoicesCalm
<1>4. QED
  BY <1>2, <1>3 DEF OrderInv

\* Places by name.
LEMMA PlacesAre ==
  {"idle", "write", "mode", "findDraft", "createDraft", "queued", "queuedCancel", "done",
   "check", "bill", "log", "tell", "finalRead", "finalWrite"} \subseteq Places
  BY DEF Places, InJob

\* A request that reads the order to write its status.
LEMMA Asked ==
  ASSUME OrderInv, NEW p \in Requests, pc[p] = "idle", NEW o \in Orders, NEW s \in OrderStatus,
         NEW invoices \in BOOLEAN, Ask(p, o, s, invoices), UNCHANGED World
  PROVE  OrderInv'
<1>1. OrderTypeOK
  BY DEF OrderInv, CancelledThereToo
<1> DEFINE r == [order |-> o, new |-> s, made |-> 0, kind |-> "checked",
                 invoices |-> invoices /\ shouldTriggerOrderAutoInvoice(status[o], s)]
<1>2. (invoices /\ shouldTriggerOrderAutoInvoice(status[o], s)) \in BOOLEAN
  BY DEF shouldTriggerOrderAutoInvoice
<1>3. r \in OrderReq
  BY <1>2, NoReqType DEF OrderReq, Kinds
<1>4. req' = [req EXCEPT ![p] = r] /\ Goto(p, "write")
  BY DEF Ask
<1> HIDE DEF r
<1>5. /\ pc' \in [Requests -> Places] /\ pc'[p] = "write" /\ req' \in [Requests -> OrderReq] /\ Alone(p)
  BY <1>1, <1>3, <1>4, WentWith, PlacesAre
<1>6. QED
  BY <1>5, OrdersCalm DEF Making, Maker

\* A request that turns to an order.
LEMMA TurnedTo ==
  ASSUME OrderInv, NEW p \in Requests, NEW o \in Orders, NEW l \in Places, Goto(p, l),
         req' = [req EXCEPT ![p].order = o]
  PROVE  pc' \in [Requests -> Places] /\ pc'[p] = l /\ req' \in [Requests -> OrderReq] /\ Alone(p)
<1>1. OrderTypeOK
  BY DEF OrderInv, CancelledThereToo
<1> DEFINE r == [req[p] EXCEPT !.order = o]
<1>2. r \in OrderReq
  BY <1>1 DEF OrderTypeOK, OrderReq
<1>3. req' = [req EXCEPT ![p] = r]
  BY <1>1 DEF OrderTypeOK
<1> HIDE DEF r
<1>4. QED
  BY <1>1, <1>2, <1>3, WentWith

\* A request that begins to make an invoice of an order.
LEMMA Begun ==
  ASSUME OrderInv, NEW p \in Requests, NEW o \in Orders, NEW kind \in Kinds, NEW l \in Places,
         Begin(p, o, kind, l)
  PROVE  /\ pc[p] = "idle" /\ pc' \in [Requests -> Places] /\ pc'[p] = l
         /\ req' \in [Requests -> OrderReq] /\ req'[p].kind = kind /\ Order(p)' = o /\ Alone(p)
<1>1. OrderTypeOK
  BY DEF OrderInv, CancelledThereToo
<1> DEFINE r == [req[p] EXCEPT !.order = o, !.kind = kind]
<1>2. r \in OrderReq /\ r.kind = kind /\ r.order = o
  BY <1>1 DEF OrderTypeOK, OrderReq
<1>3. req' = [req EXCEPT ![p] = r] /\ Goto(p, l) /\ pc[p] = "idle"
  BY <1>1 DEF Begin, OrderTypeOK
<1> HIDE DEF r
<1>4. QED
  BY <1>1, <1>2, <1>3, WentWith DEF Order

\* The calls that write the status or cancel.
LEMMA AskMarketStep ==
  ASSUME OrderInv, NEW p \in Requests, NEW o \in Orders,
         \/ \E s \in PanelStatuses : updateStatus(p, o, s)
         \/ bulkShip(p, o) \/ upsertFromPlatform(p, o) \/ updateStatusFromPlatform(p, o)
         \/ cancelOrder(p, o)
  PROVE  OrderInv'
<1>1. OrderTypeOK
  BY DEF OrderInv, CancelledThereToo
<1>2. market[o] \in OrderStatus /\ native \in BOOLEAN /\ "SHIPPED" \in OrderStatus
  BY <1>1 DEF OrderTypeOK, OrderStatus
<1>3. ASSUME NEW s \in PanelStatuses, updateStatus(p, o, s) PROVE OrderInv'
  <2>1. s \in OrderStatus
    BY PanelStatusesAssumption
  <2>2. PICK invoices \in BOOLEAN : Ask(p, o, s, invoices)
    BY <1>3 DEF updateStatus
  <2>3. QED
    BY <1>3, <2>1, <2>2, Asked DEF updateStatus
<1>4. CASE bulkShip(p, o)
  <2>1. CASE Goto(p, "done") /\ UNCHANGED req
    BY <1>1, <1>4, <2>1, Went, PlacesAre, OrdersCalm DEF bulkShip, Making, Maker
  <2>2. CASE Ask(p, o, "SHIPPED", FALSE)
    BY <1>2, <1>4, <2>2, Asked DEF bulkShip
  <2>3. QED
    BY <1>4, <2>1, <2>2 DEF bulkShip
<1>5. CASE upsertFromPlatform(p, o)
  BY <1>2, <1>5, Asked DEF upsertFromPlatform
<1>6. CASE updateStatusFromPlatform(p, o)
  BY <1>2, <1>6, Asked DEF updateStatusFromPlatform
<1>8. CASE cancelOrder(p, o)
  <2>1. CASE Goto(p, "done") /\ UNCHANGED req
    BY <1>1, <1>8, <2>1, Went, PlacesAre, OrdersCalm DEF cancelOrder, Making, Maker
  <2>2. CASE Goto(p, "queuedCancel") /\ req' = [req EXCEPT ![p].order = o]
    BY <1>8, <2>2, TurnedTo, PlacesAre, OrdersCalm DEF cancelOrder, Making, Maker
  <2>3. QED
    BY <1>8, <2>1, <2>2 DEF cancelOrder
<1>9. QED
  BY <1>3, <1>4, <1>5, <1>6, <1>8

\* The calls that begin to make an invoice: those of the users that look for none are not
\* among the makers.
LEMMA BeginStep ==
  ASSUME OrderInv, NEW p \in Requests, NEW o \in Orders,
         \/ syncInvoices(p, o) \/ createFromOrder(p, o) \/ createManual(p, o)
         \/ syncOrderToErp(p, o) \/ pushToErp(p, o)
  PROVE  OrderInv'
<1>0. /\ OrderTypeOK
      /\ "checked" \in Kinds /\ "order" \in Kinds /\ "invoice" \in Kinds
      /\ "order" # "checked" /\ "invoice" # "checked"
  BY DEF OrderInv, CancelledThereToo, Kinds
<1>1. CASE syncInvoices(p, o)
  <2>1. Begin(p, o, "checked", "check") /\ ~native /\ UNCHANGED World
    BY <1>1 DEF syncInvoices
  <2>2. QED
    BY <1>0, <2>1, Begun, PlacesAre, OrdersCalm DEF Making, Maker
<1>2. CASE createManual(p, o) \/ syncOrderToErp(p, o) \/ pushToErp(p, o)
  <2>1. PICK kind \in {"order", "invoice"}, l \in {"createDraft", "bill"} :
          Begin(p, o, kind, l) /\ UNCHANGED World
    BY <1>2 DEF createManual, syncOrderToErp, pushToErp
  <2>2. /\ pc[p] = "idle" /\ pc' \in [Requests -> Places] /\ pc'[p] = l
        /\ req' \in [Requests -> OrderReq] /\ req'[p].kind = kind /\ Alone(p)
    BY <1>0, <2>1, Begun, PlacesAre
  <2>3. ~Checked(p)'
    BY <1>0, <2>2 DEF Checked
  <2>4. QED
    BY <2>1, <2>2, <2>3, OrdersCalm DEF Maker
<1>3. CASE createFromOrder(p, o)
  <2>1. /\ pc[p] = "idle" /\ pc' \in [Requests -> Places] /\ pc'[p] = "findDraft"
        /\ req' \in [Requests -> OrderReq] /\ Order(p)' = o /\ Alone(p)
    BY <1>0, <1>3, Begun, PlacesAre DEF createFromOrder
  <2>2. /\ UNCHANGED <<native, status, market, connected, drafts, erp, ownDrafts, ownErp, logged,
                       byHand, doubtful, turns>>
        /\ mixed \subseteq mixed' /\ mixed' \subseteq Orders /\ (o \notin mixed' => native)
    BY <1>0, <1>3 DEF createFromOrder, OrderTypeOK
  <2>3. OrderTypeOK'
    BY <1>0, <2>1, <2>2 DEF OrderTypeOK, OrderReq
  <2>4. InvoicesAreKept'
    BY <2>1, <2>2, MoreStay, InvoicesCalm DEF Maker, Making
  <2>5. (CancelledThereToo /\ CancelledThereFirst)'
    BY <2>1, <2>2, <2>3, CancelsCalm
  <2>6. QED
    BY <2>4, <2>5 DEF OrderInv
<1>4. QED
  BY <1>1, <1>2, <1>3

\* The status is written.
LEMMA WriteStep ==
  ASSUME OrderInv, NEW p \in Requests, WriteStatus(p)
  PROVE  OrderInv'
<1>1. OrderTypeOK
  BY DEF OrderInv, CancelledThereToo
<1>2. PICK l \in {"mode", "done"} : /\ pc' \in [Requests -> Places] /\ pc'[p] = l
                                    /\ req' \in [Requests -> OrderReq] /\ Alone(p)
  <2>1. CASE Goto(p, "mode") /\ UNCHANGED req
    BY <1>1, <2>1, Went, PlacesAre
  <2>2. CASE End(p, "done")
    BY <1>1, <2>2, Ended, PlacesAre
  <2>3. QED
    BY <2>1, <2>2 DEF WriteStatus
<1>3. Order(p) \in Orders /\ req[p].new \in OrderStatus
  BY <1>1 DEF OrderTypeOK, Order
<1>4. status' = [status EXCEPT ![Order(p)] = req[p].new] /\ status' \in [Orders -> OrderStatus]
  BY <1>1, <1>3 DEF OrderTypeOK, WriteStatus
<1>5. byHand \subseteq byHand' /\ byHand' \subseteq Orders
  BY <1>1, <1>3 DEF WriteStatus, OrderTypeOK
<1>13. UNCHANGED <<native, market, connected, drafts, erp, ownDrafts, ownErp, logged, mixed, doubtful, turns>>
  BY DEF WriteStatus, Books
<1>6. OrderTypeOK'
  BY <1>1, <1>2, <1>4, <1>5, <1>13 DEF OrderTypeOK, OrderReq
<1>7. ASSUME NEW o \in Orders \ byHand', status'[o] = "CANCELLED" PROVE market'[o] = "CANCELLED"
  <2>1. CASE o = Order(p)
    <3>1. req[p].new = "CANCELLED"
      BY <1>1, <1>4, <1>7, <2>1 DEF OrderTypeOK
    <3>2. QED
      BY <1>7, <2>1, <3>1 DEF WriteStatus
  <2>2. CASE o # Order(p)
    <3>1. status[o] = "CANCELLED"
      BY <1>1, <1>4, <1>7, <2>2 DEF OrderTypeOK
    <3>2. QED
      BY <1>5, <1>7, <3>1 DEF OrderInv, CancelledThereToo, WriteStatus
  <2>3. QED
    BY <2>1, <2>2
<1>8. CancelledThereToo'
  BY <1>6, <1>7 DEF CancelledThereToo
<1>9. CancelledThereFirst'
  <2>1. ASSUME NEW q \in Requests, pc'[q] \in {"finalRead", "finalWrite"}, Order(q)' \notin byHand'
        PROVE  market'[Order(q)'] = "CANCELLED"
    <3>1. q # p
      BY <1>2, <2>1
    <3>2. QED
      BY <1>5, <2>1, <3>1, <1>2 DEF OrderInv, CancelledThereFirst, Alone, Order, WriteStatus
  <2>2. QED
    BY <2>1 DEF CancelledThereFirst
<1>10. pc[p] = "write"
  BY DEF WriteStatus
<1>11. InvoicesAreKept'
  BY <1>2, <1>10, <1>13, MoreStay, InvoicesCalm DEF Making, Maker
<1>12. QED
  BY <1>8, <1>9, <1>11 DEF OrderInv

\* An invoice is started, or a job taken.
LEMMA StartInvoiceStep ==
  ASSUME OrderInv, NEW p \in Requests, runAutoInvoiceOnFulfillment(p) \/ TakeInvoiceJob(p)
  PROVE  OrderInv'
<1>1. OrderTypeOK
  BY DEF OrderInv, CancelledThereToo
<1>2. CASE End(p, "done") /\ UNCHANGED World /\ pc[p] = "queued"
  BY <1>1, <1>2, Ended, PlacesAre, OrdersCalm DEF Making, Maker
<1>3. ASSUME NEW l \in {"findDraft", "queued", "check"}, Goto(p, l), UNCHANGED <<World, req>>,
             pc[p] \in {"mode", "queued"}, l = "findDraft" => native,
             l \in {"queued", "check"} => ~native
      PROVE  OrderInv'
  <2>1. /\ pc' \in [Requests -> Places] /\ pc'[p] = l /\ req' \in [Requests -> OrderReq] /\ Alone(p)
    BY <1>1, <1>3, Went, PlacesAre
  <2>2. QED
    BY <1>3, <2>1, OrdersCalm DEF Making, Maker
<1>4. QED
  BY <1>2, <1>3 DEF runAutoInvoiceOnFulfillment, TakeInvoiceJob

\* The moves of one request that leave cancellations alone keep what is said of them.
LEMMA CancelsCalmToo ==
  ASSUME OrderInv, OrderTypeOK', NEW p \in Requests, Alone(p), UNCHANGED <<status, market, byHand>>,
         pc'[p] \notin {"finalRead", "finalWrite"}
  PROVE  (CancelledThereToo /\ CancelledThereFirst)'
  BY CancelsCalm

\* A request that starts to make an invoice after a look finds another at it, or is the only
\* one.
LEMMA DoubtSays ==
  ASSUME OrderInv, NEW p \in Requests, Doubt(p), Alone(p), req'[p] = req[p]
  PROVE  /\ doubtful \subseteq doubtful' /\ doubtful' \subseteq Orders
         /\ \A q, r \in Requests : Maker(q)' /\ Maker(r)'
              /\ Order(q)' = Order(r)' /\ Order(q)' \notin doubtful' => q = r
<1>1. OrderTypeOK /\ Order(p) \in Orders
  BY DEF OrderInv, CancelledThereToo, OrderTypeOK, Order
<1>2. doubtful \subseteq doubtful' /\ doubtful' \subseteq Orders
  BY <1>1 DEF Doubt, OrderTypeOK
<1>3. ASSUME NEW q \in Requests, Maker(q)', Order(q)' = Order(p), q # p
      PROVE  Order(p) \in doubtful'
  <2>1. Maker(q) /\ Order(q) = Order(p)
    BY <1>3, OthersStay
  <2>2. q \in Invoicing(p)
    BY <1>3, <2>1 DEF Invoicing, Making, Maker, Checked
  <2>3. QED
    BY <2>2 DEF Doubt
<1>4. ASSUME NEW q \in Requests, NEW r \in Requests, Maker(q)', Maker(r)',
             Order(q)' = Order(r)', Order(q)' \notin doubtful'
      PROVE  q = r
  <2>1. Order(p)' = Order(p)
    BY DEF Order
  <2>2. CASE q = p \/ r = p
    BY <1>3, <1>4, <2>1, <2>2
  <2>3. CASE q # p /\ r # p
    BY <1>2, <1>4, <2>3, OthersStay DEF OrderInv, InvoicesAreKept, OneMaker
  <2>4. QED
    BY <2>2, <2>3
<1>5. QED
  BY <1>2, <1>4

\* One that has looked goes on to make an invoice: it is the first.
LEMMA MakesStep ==
  ASSUME OrderInv, NEW p \in Requests, NEW l \in {"createDraft", "bill"}, Alone(p), Doubt(p),
         pc[p] \in {"findDraft", "check"}, pc'[p] = l, req'[p] = req[p],
         UNCHANGED <<native, drafts, erp, ownDrafts, ownErp, logged, mixed>>,
         Checked(p) /\ Order(p) \notin mixed => (native <=> l = "createDraft"),
         l = "createDraft" => drafts[Order(p)] = 0,
         l = "bill" => Order(p) \notin logged
  PROVE  InvoicesAreKept'
<1>0. /\ OneLedger /\ OneMaker /\ LoggedOrDoubtful /\ \A q \in Requests : Order(q) \in Orders
      /\ Order(p)' = Order(p) /\ (Checked(p)' <=> Checked(p)) /\ pc[p] # "log"
      /\ doubtful \subseteq doubtful' /\ \A o \in Orders : MoreDrafts(o) \in Nat
  BY DoubtSays DEF OrderInv, InvoicesAreKept, CancelledThereToo, OrderTypeOK, Order, Checked
<1>1. \A o \in Orders : MoreDrafts(o)' = MoreDrafts(o) /\ MoreErp(o)' = MoreErp(o)
  BY MoreStay
<1>2. OneLedger'
  <2>1. ASSUME NEW q \in Requests, Checked(q)', Order(q)' \notin mixed'
        PROVE  /\ pc'[q] \in {"queued", "check", "bill", "log"} => ~native
               /\ pc'[q] \in {"findDraft", "createDraft"} => native
    <3>1. CASE q = p
      BY <1>0, <2>1, <3>1
    <3>2. CASE q # p
      BY <1>0, <2>1, <3>2, OthersStay DEF OneLedger
    <3>3. QED
      BY <3>1, <3>2
  <2>2. \A o \in Orders \ mixed' : /\ native => MoreErp(o)' = 0
                                   /\ ~native => MoreDrafts(o)' = 0
    BY <1>0, <1>1 DEF OneLedger
  <2>3. QED
    BY <2>1, <2>2 DEF OneLedger
<1>3. \A q, r \in Requests : Maker(q)' /\ Maker(r)'
        /\ Order(q)' = Order(r)' /\ Order(q)' \notin doubtful' => q = r
  BY DoubtSays
<1>4. LoggedOrDoubtful'
  <2>1. ASSUME NEW o \in Orders \ doubtful', MoreErp(o)' # 0, o \notin logged'
        PROVE  \E q \in Requests : pc'[q] = "log" /\ Checked(q)' /\ Order(q)' = o
    <3>1. PICK q \in Requests : pc[q] = "log" /\ Checked(q) /\ Order(q) = o
      BY <1>0, <1>1, <2>1 DEF LoggedOrDoubtful
    <3>2. q # p
      BY <1>0, <3>1
    <3>3. QED
      BY <3>1, <3>2, OthersStay
  <2>2. QED
    BY <2>1 DEF LoggedOrDoubtful
<1>5. ASSUME Checked(p), l = "createDraft" PROVE MoreDrafts(Order(p)) = 0
  <2>1. ownDrafts[Order(p)] \in Nat
    BY <1>0 DEF OrderInv, CancelledThereToo, OrderTypeOK
  <2>2. QED
    BY <1>0, <1>5, <2>1 DEF MoreDrafts
<1>6. ASSUME Checked(p), l = "bill", Order(p) \notin doubtful' PROVE MoreErp(Order(p)) = 0
  <2>1. ASSUME MoreErp(Order(p)) # 0 PROVE FALSE
    <3>1. PICK q \in Requests : pc'[q] = "log" /\ Checked(q)' /\ Order(q)' = Order(p)
      BY <1>0, <1>1, <1>4, <1>6, <2>1 DEF LoggedOrDoubtful
    <3>2. Maker(q)' /\ Maker(p)'
      BY <1>0, <1>6, <3>1 DEF Maker, Making
    <3>3. QED
      BY <1>0, <1>3, <1>6, <3>1, <3>2
  <2>2. QED
    BY <2>1
<1>7. OneMaker'
  <2>1. ASSUME NEW q \in Requests, Maker(q)', Order(q)' \notin doubtful'
        PROVE  /\ pc'[q] = "createDraft" => MoreDrafts(Order(q))' = 0
               /\ pc'[q] = "bill" => MoreErp(Order(q))' = 0
    <3>0. /\ MoreDrafts(Order(q))' = drafts[Order(q)'] - ownDrafts[Order(q)']
          /\ MoreErp(Order(q))' = erp[Order(q)'] - ownErp[Order(q)']
      BY DEF MoreDrafts, MoreErp
    <3>1. CASE q = p
      BY <1>0, <1>5, <1>6, <2>1, <3>0, <3>1 DEF MoreDrafts, MoreErp, Maker
    <3>2. CASE q # p
      <4>1. Maker(q) /\ Order(q)' = Order(q) /\ pc'[q] = pc[q] /\ Order(q) \notin doubtful
        BY <1>0, <2>1, <3>2, OthersStay
      <4>2. QED
        BY <1>0, <3>0, <4>1 DEF OneMaker, MoreDrafts, MoreErp
    <3>3. QED
      BY <3>1, <3>2
  <2>2. QED
    BY <1>3, <2>1 DEF OneMaker
<1>8. /\ \A o \in Orders : MoreDrafts(o)' \in Nat
      /\ \A o \in Orders \ doubtful' : MoreDrafts(o)' <= 1 /\ MoreErp(o)' <= 1
  BY <1>0, <1>1 DEF OrderInv, InvoicesAreKept
<1>9. QED
  BY <1>2, <1>4, <1>7, <1>8 DEF InvoicesAreKept

\* createFromOrder looks for an invoice, a job looks into the log.
LEMMA LookStep ==
  ASSUME OrderInv, NEW p \in Requests, FindDraft(p) \/ CheckLog(p)
  PROVE  OrderInv'
<1>1. OrderTypeOK /\ Order(p) \in Orders
  BY DEF OrderInv, CancelledThereToo, OrderTypeOK, Order
<1>2. /\ doubtful \subseteq doubtful' /\ doubtful' \subseteq Orders /\ Doubt(p)
      /\ UNCHANGED <<native, status, market, connected, drafts, erp, ownDrafts, ownErp, logged,
                     mixed, byHand, turns>>
      /\ pc[p] \in {"findDraft", "check"}
  BY <1>1 DEF FindDraft, CheckLog, Doubt, OrderTypeOK
<1>3. Checked(p) /\ Order(p) \notin mixed => (native <=> pc[p] = "findDraft")
  BY <1>2 DEF OrderInv, InvoicesAreKept, OneLedger
<1>4. CASE End(p, "done")
  <2>1. /\ pc' \in [Requests -> Places] /\ pc'[p] = "done" /\ req' \in [Requests -> OrderReq] /\ Alone(p)
    BY <1>1, <1>4, Ended, PlacesAre
  <2>2. OrderTypeOK'
    BY <1>1, <1>2, <2>1 DEF OrderTypeOK, OrderReq
  <2>3. InvoicesAreKept'
    BY <1>2, <2>1, MoreStay, InvoicesCalm DEF Making, Maker
  <2>4. QED
    BY <1>2, <2>1, <2>2, <2>3, CancelsCalmToo DEF OrderInv
<1>5. ASSUME NEW l \in {"createDraft", "bill"}, Goto(p, l), UNCHANGED req,
             l = "createDraft" <=> pc[p] = "findDraft",
             l = "createDraft" => drafts[Order(p)] = 0, l = "bill" => Order(p) \notin logged
      PROVE  OrderInv'
  <2>1. /\ pc' \in [Requests -> Places] /\ pc'[p] = l /\ req' \in [Requests -> OrderReq]
        /\ Alone(p) /\ req'[p] = req[p]
    BY <1>1, <1>5, Went, PlacesAre
  <2>2. OrderTypeOK'
    BY <1>1, <1>2, <2>1 DEF OrderTypeOK, OrderReq
  <2>3. InvoicesAreKept'
    BY <1>2, <1>3, <1>5, <2>1, MakesStep
  <2>4. QED
    BY <1>2, <2>1, <2>2, <2>3, CancelsCalmToo DEF OrderInv
<1>6. drafts[Order(p)] \in Nat
  BY <1>1 DEF OrderTypeOK
<1>7. CASE FindDraft(p)
  BY <1>4, <1>5, <1>6, <1>7 DEF FindDraft
<1>8. CASE CheckLog(p)
  BY <1>4, <1>5, <1>8 DEF CheckLog
<1>9. QED
  BY <1>7, <1>8

\* One that has looked makes the invoice of its order, in the books or in the ERP, where it
\* logs it next or the answer is lost.
LEMMA MadeStep ==
  ASSUME OrderInv, NEW p \in Requests, Maker(p), Alone(p), NEW o \in Orders, o = Order(p),
         UNCHANGED <<native, logged, mixed>>, doubtful \subseteq doubtful',
         \A x \in Orders \ {o} : MoreDrafts(x)' = MoreDrafts(x) /\ MoreErp(x)' = MoreErp(x),
         \/ /\ pc[p] = "createDraft" /\ pc'[p] = "done"
            /\ MoreDrafts(o)' = MoreDrafts(o) + 1 /\ MoreErp(o)' = MoreErp(o)
         \/ /\ pc[p] = "bill"
            /\ MoreDrafts(o)' = MoreDrafts(o) /\ MoreErp(o)' = MoreErp(o) + 1
            /\ \/ pc'[p] = "log" /\ req'[p] = req[p]
               \/ pc'[p] = "done" /\ o \in doubtful'
  PROVE  InvoicesAreKept'
<1>0. /\ OneLedger /\ OneMaker /\ LoggedOrDoubtful /\ \A q \in Requests : Order(q) \in Orders
      /\ \A x \in Orders : MoreDrafts(x) \in Nat
      /\ \A x \in Orders \ doubtful : MoreDrafts(x) <= 1 /\ MoreErp(x) <= 1
  BY DEF OrderInv, InvoicesAreKept, CancelledThereToo, OrderTypeOK, Order
<1>1. Maker(p)' => pc'[p] = "log" /\ pc[p] = "bill" /\ Checked(p)' /\ Order(p)' = o
  BY DEF Maker, Making, Checked, Order
<1>2. ASSUME NEW q \in Requests, Maker(q)', q # p
      PROVE  /\ Maker(q) /\ Order(q)' = Order(q) /\ pc'[q] = pc[q] /\ Order(q) \in Orders
             /\ Order(q) \notin doubtful' => Order(q) # o
  <2>1. Maker(q) /\ Order(q)' = Order(q) /\ pc'[q] = pc[q]
    BY <1>2, OthersStay
  <2>2. QED
    BY <1>0, <1>2, <2>1 DEF OneMaker
<1>3. OneLedger'
  <2>1. o \notin mixed => (pc[p] = "bill" => ~native) /\ (pc[p] = "createDraft" => native)
    BY <1>0 DEF OneLedger, Maker
  <2>2. ASSUME NEW q \in Requests, Checked(q)', Order(q)' \notin mixed'
        PROVE  /\ pc'[q] \in {"queued", "check", "bill", "log"} => ~native
               /\ pc'[q] \in {"findDraft", "createDraft"} => native
    <3>1. CASE q = p
      <4>1. pc'[p] = "log" => Order(p)' = o /\ pc[p] = "bill"
        BY DEF Order
      <4>2. pc'[p] \in {"log", "done"}
        OBVIOUS
      <4>3. QED
        BY <2>1, <2>2, <3>1, <4>1, <4>2
    <3>2. CASE q # p
      BY <1>0, <2>2, <3>2, OthersStay DEF OneLedger
    <3>3. QED
      BY <3>1, <3>2
  <2>3. ASSUME NEW x \in Orders \ mixed'
        PROVE  (native => MoreErp(x)' = 0) /\ (~native => MoreDrafts(x)' = 0)
    <3>1. (native => MoreErp(x) = 0) /\ (~native => MoreDrafts(x) = 0)
      BY <1>0 DEF OneLedger
    <3>2. CASE x = o
      BY <2>1, <3>1, <3>2
    <3>3. CASE x # o
      BY <3>1, <3>3
    <3>4. QED
      BY <3>2, <3>3
  <2>4. QED
    BY <2>2, <2>3 DEF OneLedger
<1>4. OneMaker'
  <2>1. ASSUME NEW q \in Requests, NEW r \in Requests, Maker(q)', Maker(r)',
               Order(q)' = Order(r)', Order(q)' \notin doubtful'
        PROVE  q = r
    <3>1. CASE q # p /\ r # p
      BY <1>0, <1>2, <2>1, <3>1 DEF OneMaker
    <3>2. CASE q = p /\ r # p
      BY <1>1, <1>2, <2>1, <3>2
    <3>3. CASE q # p /\ r = p
      BY <1>1, <1>2, <2>1, <3>3
    <3>4. QED
      BY <3>1, <3>2, <3>3
  <2>2. ASSUME NEW q \in Requests, Maker(q)', Order(q)' \notin doubtful'
        PROVE  /\ pc'[q] = "createDraft" => MoreDrafts(Order(q))' = 0
               /\ pc'[q] = "bill" => MoreErp(Order(q))' = 0
    <3>1. CASE q = p
      BY <1>1, <2>2, <3>1
    <3>2. CASE q # p
      <4> DEFINE x == Order(q)
      <4>1. /\ Maker(q) /\ Order(q)' = x /\ pc'[q] = pc[q] /\ x \in Orders \ {o} /\ x \notin doubtful
        BY <1>2, <2>2, <3>2
      <4>2. /\ pc[q] = "createDraft" => MoreDrafts(x) = 0
            /\ pc[q] = "bill" => MoreErp(x) = 0
        BY <1>0, <4>1 DEF OneMaker
      <4>3. /\ MoreDrafts(Order(q))' = drafts'[Order(q)'] - ownDrafts'[Order(q)']
            /\ MoreErp(Order(q))' = erp'[Order(q)'] - ownErp'[Order(q)']
        BY DEF MoreDrafts, MoreErp
      <4>4. \A y \in Orders \ {o} : /\ drafts'[y] - ownDrafts'[y] = MoreDrafts(y)
                                    /\ erp'[y] - ownErp'[y] = MoreErp(y)
        BY DEF MoreDrafts, MoreErp
      <4> HIDE DEF x
      <4>5. QED
        BY <4>1, <4>2, <4>3, <4>4
    <3>3. QED
      BY <3>1, <3>2
  <2>3. QED
    BY <2>1, <2>2 DEF OneMaker
<1>5. LoggedOrDoubtful'
  <2>1. ASSUME NEW x \in Orders \ doubtful', MoreErp(x)' # 0, x \notin logged'
        PROVE  \E q \in Requests : pc'[q] = "log" /\ Checked(q)' /\ Order(q)' = x
    <3>1. CASE x = o /\ pc'[p] = "log"
      <4>1. Checked(p)' /\ Order(p)' = o
        BY <3>1 DEF Maker, Checked, Order
      <4>2. QED
        BY <3>1, <4>1
    <3>2. CASE ~(x = o /\ pc'[p] = "log")
      <4>1. MoreErp(x) # 0
        BY <2>1, <3>2
      <4>2. PICK q \in Requests : pc[q] = "log" /\ Checked(q) /\ Order(q) = x
        BY <1>0, <2>1, <4>1 DEF LoggedOrDoubtful
      <4>3. q # p
        BY <4>2
      <4>4. QED
        BY <4>2, <4>3, OthersStay
    <3>3. QED
      BY <3>1, <3>2
  <2>2. QED
    BY <2>1 DEF LoggedOrDoubtful
<1>6. /\ \A x \in Orders : MoreDrafts(x)' \in Nat
      /\ \A x \in Orders \ doubtful' : MoreDrafts(x)' <= 1 /\ MoreErp(x)' <= 1
  <2>1. o \notin doubtful => /\ pc[p] = "createDraft" => MoreDrafts(o) = 0
                             /\ pc[p] = "bill" => MoreErp(o) = 0
    BY <1>0 DEF OneMaker
  <2>2. MoreDrafts(o) \in Nat
    BY <1>0
  <2>3. MoreDrafts(o)' \in Nat /\ (o \notin doubtful' => MoreDrafts(o)' <= 1 /\ MoreErp(o)' <= 1)
    BY <1>0, <2>1, <2>2
  <2>4. QED
    BY <1>0, <2>3
<1>7. QED
  BY <1>3, <1>4, <1>5, <1>6 DEF InvoicesAreKept

\* One that has not looked counts the invoice as its own.
LEMMA CountedSays ==
  ASSUME OrderTypeOK, NEW p \in Requests, NEW f \in [Orders -> Nat], NEW g \in [Orders -> Nat],
         NEW x \in Orders
  PROVE  IF Checked(p) /\ x = Order(p)
         THEN [f EXCEPT ![Order(p)] = @ + 1][x] - Counted(p, g)[x] = (f[x] - g[x]) + 1
         ELSE [f EXCEPT ![Order(p)] = @ + 1][x] - Counted(p, g)[x] = f[x] - g[x]
<1>1. Order(p) \in Orders
  BY DEF OrderTypeOK, Order
<1>2. CASE Checked(p)
  BY <1>1, <1>2 DEF Counted, Checked
<1>3. CASE ~Checked(p)
  BY <1>1, <1>3 DEF Counted, Checked
<1>4. QED
  BY <1>2, <1>3

\* Both stay numbers.
LEMMA CountedType ==
  ASSUME OrderTypeOK, NEW p \in Requests, NEW f \in [Orders -> Nat]
  PROVE  [f EXCEPT ![Order(p)] = @ + 1] \in [Orders -> Nat] /\ Counted(p, f) \in [Orders -> Nat]
<1>1. Order(p) \in Orders
  BY DEF OrderTypeOK, Order
<1>2. [f EXCEPT ![Order(p)] = @ + 1] \in [Orders -> Nat]
  BY <1>1
<1>3. QED
  BY <1>2 DEF Counted

\* The invoice is written to the books.
LEMMA DraftStep ==
  ASSUME OrderInv, NEW p \in Requests, CreateDraft(p)
  PROVE  OrderInv'
<1>1. OrderTypeOK /\ Order(p) \in Orders /\ pc[p] = "createDraft"
  BY DEF OrderInv, CancelledThereToo, OrderTypeOK, Order, CreateDraft
<1>2. /\ UNCHANGED <<native, status, market, connected, erp, ownErp, logged, mixed, byHand, doubtful, turns>>
      /\ drafts' = [drafts EXCEPT ![Order(p)] = @ + 1] /\ ownDrafts' = Counted(p, ownDrafts)
  BY DEF CreateDraft
<1>3. /\ pc' \in [Requests -> Places] /\ pc'[p] = "done" /\ req' \in [Requests -> OrderReq] /\ Alone(p)
  BY <1>1, Ended, PlacesAre DEF CreateDraft
<1>4. /\ drafts \in [Orders -> Nat] /\ ownDrafts \in [Orders -> Nat]
      /\ drafts' \in [Orders -> Nat] /\ ownDrafts' \in [Orders -> Nat]
  BY <1>1, <1>2, CountedType DEF OrderTypeOK
<1>5. OrderTypeOK'
  BY <1>1, <1>2, <1>3, <1>4 DEF OrderTypeOK, OrderReq
<1> DEFINE o == Order(p)
<1>6. /\ \A x \in Orders \ {o} : MoreDrafts(x)' = MoreDrafts(x)
      /\ ~Checked(p) => MoreDrafts(o) = drafts'[o] - ownDrafts'[o]
      /\ Checked(p) => drafts'[o] - ownDrafts'[o] = MoreDrafts(o) + 1
      /\ \A x \in Orders : MoreErp(x)' = MoreErp(x)
  <2>1. /\ \A x \in Orders \ {o} : drafts'[x] - ownDrafts'[x] = drafts[x] - ownDrafts[x]
        /\ ~Checked(p) => drafts'[o] - ownDrafts'[o] = drafts[o] - ownDrafts[o]
        /\ Checked(p) => drafts'[o] - ownDrafts'[o] = (drafts[o] - ownDrafts[o]) + 1
    <3>1. drafts' = [drafts EXCEPT ![Order(p)] = @ + 1] /\ ownDrafts' = Counted(p, ownDrafts)
      BY <1>2
    <3>2. \A x \in Orders :
            IF Checked(p) /\ x = Order(p)
            THEN [drafts EXCEPT ![Order(p)] = @ + 1][x] - Counted(p, ownDrafts)[x]
                   = (drafts[x] - ownDrafts[x]) + 1
            ELSE [drafts EXCEPT ![Order(p)] = @ + 1][x] - Counted(p, ownDrafts)[x]
                   = drafts[x] - ownDrafts[x]
      BY <1>1, <1>4, CountedSays
    <3>3. QED
      BY <1>1, <3>1, <3>2
  <2>2. \A x \in Orders : MoreErp(x)' = MoreErp(x)
    BY <1>2 DEF MoreErp
  <2>3. \A x \in Orders \ {o} : MoreDrafts(x)' = MoreDrafts(x)
    BY <2>1 DEF MoreDrafts
  <2>4. QED
    BY <2>1, <2>2, <2>3 DEF MoreDrafts
<1>7. InvoicesAreKept'
  <2> SUFFICES ASSUME NEW y \in Orders, y = Order(p) PROVE InvoicesAreKept'
    BY <1>1
  <2>1. MoreDrafts(y)' = drafts'[y] - ownDrafts'[y]
    BY DEF MoreDrafts
  <2>2. CASE Checked(p)
    <3>1. MoreDrafts(y)' = MoreDrafts(y) + 1
      BY <1>6, <2>1, <2>2
    <3>2. Maker(p)
      BY <1>1, <2>2 DEF Maker, Making
    <3>3. QED
      BY <1>1, <1>2, <1>3, <1>6, <3>1, <3>2, MadeStep
  <2>3. CASE ~Checked(p)
    <3>1. \A x \in Orders : MoreDrafts(x)' = MoreDrafts(x)
      BY <1>6, <2>1, <2>3
    <3>2. QED
      BY <1>1, <1>2, <1>3, <1>6, <3>1, InvoicesCalm DEF Maker, Making
  <2>4. QED
    BY <2>2, <2>3
<1>8. QED
  BY <1>2, <1>3, <1>5, <1>7, CancelsCalmToo DEF OrderInv

\* The ERP makes the invoice: it is logged next, or its answer is lost.
LEMMA BilledStep ==
  ASSUME OrderInv, NEW p \in Requests, pc[p] = "bill", NEW l \in {"log", "done"},
         pc' \in [Requests -> Places], pc'[p] = l, req' \in [Requests -> OrderReq], Alone(p),
         erp' = [erp EXCEPT ![Order(p)] = @ + 1], ownErp' = Counted(p, ownErp),
         l = "log" => req'[p] = req[p] /\ UNCHANGED doubtful,
         l = "done" => doubtful' = IF req[p].kind = "checked" THEN doubtful \cup {Order(p)} ELSE doubtful,
         UNCHANGED <<native, status, market, connected, drafts, ownDrafts, logged, mixed, byHand, turns>>
  PROVE  OrderInv'
<1>1. OrderTypeOK /\ Order(p) \in Orders
  BY DEF OrderInv, CancelledThereToo, OrderTypeOK, Order
<1>2. doubtful \subseteq doubtful' /\ doubtful' \subseteq Orders
  BY <1>1 DEF OrderTypeOK
<1>3. l = "done" /\ Checked(p) => Order(p) \in doubtful'
  BY DEF Checked
<1>4. /\ erp \in [Orders -> Nat] /\ ownErp \in [Orders -> Nat]
      /\ erp' \in [Orders -> Nat] /\ ownErp' \in [Orders -> Nat]
  BY <1>1, CountedType DEF OrderTypeOK
<1>5. OrderTypeOK'
  BY <1>1, <1>2, <1>4 DEF OrderTypeOK, OrderReq
<1>6. /\ \A x \in Orders \ {Order(p)} : MoreErp(x)' = MoreErp(x)
      /\ ~Checked(p) => MoreErp(Order(p)) = erp'[Order(p)] - ownErp'[Order(p)]
      /\ Checked(p) => erp'[Order(p)] - ownErp'[Order(p)] = MoreErp(Order(p)) + 1
      /\ \A x \in Orders : MoreDrafts(x)' = MoreDrafts(x)
  <2>1. /\ \A x \in Orders \ {Order(p)} : erp'[x] - ownErp'[x] = erp[x] - ownErp[x]
        /\ ~Checked(p) => erp'[Order(p)] - ownErp'[Order(p)] = erp[Order(p)] - ownErp[Order(p)]
        /\ Checked(p) => erp'[Order(p)] - ownErp'[Order(p)] = (erp[Order(p)] - ownErp[Order(p)]) + 1
    <3>1. \A x \in Orders : IF Checked(p) /\ x = Order(p)
                            THEN erp'[x] - ownErp'[x] = (erp[x] - ownErp[x]) + 1
                            ELSE erp'[x] - ownErp'[x] = erp[x] - ownErp[x]
      BY <1>1, <1>4, CountedSays, Zenon
    <3>2. QED
      BY <1>1, <3>1
  <2>2. \A x \in Orders : MoreDrafts(x)' = MoreDrafts(x)
    BY DEF MoreDrafts
  <2>3. \A x \in Orders \ {Order(p)} : MoreErp(x)' = MoreErp(x)
    BY <2>1 DEF MoreErp
  <2>4. QED
    BY <2>1, <2>2, <2>3 DEF MoreErp
<1>7. InvoicesAreKept'
  <2> SUFFICES ASSUME NEW y \in Orders, y = Order(p) PROVE InvoicesAreKept'
    BY <1>1
  <2>1. MoreErp(y)' = erp'[y] - ownErp'[y]
    BY DEF MoreErp
  <2>2. CASE Checked(p)
    <3>1. MoreErp(y)' = MoreErp(y) + 1
      BY <1>6, <2>1, <2>2
    <3>2. Maker(p)
      BY <2>2 DEF Maker, Making
    <3>3. QED
      BY <1>2, <1>3, <1>6, <2>2, <3>1, <3>2, MadeStep
  <2>3. CASE ~Checked(p)
    <3>1. \A x \in Orders : MoreErp(x)' = MoreErp(x)
      BY <1>6, <2>1, <2>3
    <3>2. ~Maker(p)'
      BY <2>3 DEF Maker, Making, Checked
    <3>3. pc[p] # "log" /\ pc'[p] \notin {"queued", "check", "findDraft"}
      OBVIOUS
    <3>4. QED
      BY <1>2, <1>6, <3>1, <3>2, <3>3, InvoicesCalm
  <2>4. QED
    BY <2>2, <2>3
<1>8. QED
  BY <1>5, <1>7, CancelsCalmToo DEF OrderInv

\* The ERP is asked for the invoice.
LEMMA BillStep ==
  ASSUME OrderInv, NEW p \in Requests, CreateErpInvoice(p)
  PROVE  OrderInv'
<1>1. OrderTypeOK /\ Order(p) \in Orders /\ pc[p] = "bill"
  BY DEF OrderInv, CancelledThereToo, OrderTypeOK, Order, CreateErpInvoice
<1>2. CASE /\ erp' = [erp EXCEPT ![Order(p)] = @ + 1] /\ ownErp' = Counted(p, ownErp)
           /\ Goto(p, "log") /\ UNCHANGED <<req, doubtful>>
  <2>1. /\ pc' \in [Requests -> Places] /\ pc'[p] = "log" /\ req' \in [Requests -> OrderReq]
        /\ Alone(p) /\ req'[p] = req[p]
    BY <1>1, <1>2, Went, PlacesAre
  <2>2. QED
    BY <1>1, <1>2, <2>1, BilledStep DEF CreateErpInvoice
<1>3. CASE /\ erp' = [erp EXCEPT ![Order(p)] = @ + 1] /\ ownErp' = Counted(p, ownErp)
           /\ End(p, "done")
           /\ doubtful' = IF req[p].kind = "checked" THEN doubtful \cup {Order(p)} ELSE doubtful
  <2>1. /\ pc' \in [Requests -> Places] /\ pc'[p] = "done" /\ req' \in [Requests -> OrderReq] /\ Alone(p)
    BY <1>1, <1>3, Ended, PlacesAre
  <2>2. QED
    BY <1>1, <1>3, <2>1, BilledStep DEF CreateErpInvoice
<1>4. CASE End(p, "done") /\ UNCHANGED <<erp, ownErp, doubtful>>
  <2>1. /\ pc' \in [Requests -> Places] /\ pc'[p] = "done" /\ req' \in [Requests -> OrderReq] /\ Alone(p)
    BY <1>1, <1>4, Ended, PlacesAre
  <2>2. UNCHANGED World
    BY <1>4 DEF CreateErpInvoice, World, Books
  <2>3. QED
    BY <1>1, <2>1, <2>2, OrdersCalm DEF Making, Maker
<1>5. QED
  BY <1>2, <1>3, <1>4 DEF CreateErpInvoice

\* The invoice is logged.
LEMMA LogStep ==
  ASSUME OrderInv, NEW p \in Requests, LogInvoice(p)
  PROVE  OrderInv'
<1>1. OrderTypeOK /\ Order(p) \in Orders
  BY DEF OrderInv, CancelledThereToo, OrderTypeOK, Order
<1>2. /\ pc' \in [Requests -> Places] /\ pc'[p] = "done" /\ req' \in [Requests -> OrderReq] /\ Alone(p)
  BY <1>1, Ended, PlacesAre DEF LogInvoice
<1>3. /\ logged \subseteq logged' /\ logged' \subseteq Orders /\ (Checked(p) => Order(p) \in logged')
      /\ UNCHANGED <<native, status, market, connected, drafts, erp, ownDrafts, ownErp, mixed,
                     byHand, doubtful, turns>>
  BY <1>1 DEF LogInvoice, OrderTypeOK, Checked
<1>4. OrderTypeOK'
  BY <1>1, <1>2, <1>3 DEF OrderTypeOK, OrderReq
<1>5. InvoicesAreKept'
  BY <1>2, <1>3, MoreStay, InvoicesCalm DEF Making, Maker
<1>6. QED
  BY <1>2, <1>3, <1>4, <1>5, CancelsCalmToo DEF OrderInv

\* A cancel job that is taken, tried again or given up.
LEMMA CancelFailed ==
  ASSUME OrderInv, NEW p \in Requests, CancelFails(p)
  PROVE  /\ pc' \in [Requests -> Places] /\ pc'[p] \in {"queuedCancel", "done"}
         /\ req' \in [Requests -> OrderReq] /\ Alone(p)
<1>1. OrderTypeOK
  BY DEF OrderInv, CancelledThereToo
<1>2. CASE req[p].made + 1 < CancelAttempts /\ Goto(p, "queuedCancel") /\ req' = [req EXCEPT ![p].made = @ + 1]
  <2> DEFINE r == [req[p] EXCEPT !.made = @ + 1]
  <2>1. r \in OrderReq
    BY <1>1, <1>2, OrderFlowAssumption DEF OrderTypeOK, OrderReq
  <2>2. req' = [req EXCEPT ![p] = r]
    BY <1>1, <1>2 DEF OrderTypeOK
  <2> HIDE DEF r
  <2>3. QED
    BY <1>1, <1>2, <2>1, <2>2, WentWith, PlacesAre
<1>3. CASE End(p, "done")
  BY <1>1, <1>3, Ended, PlacesAre
<1>4. QED
  BY <1>2, <1>3 DEF CancelFails

\* The steps of a cancel job make no invoice.
LEMMA CancelStep ==
  ASSUME OrderInv, NEW p \in Requests,
         TakeCancelJob(p) \/ TellMarket(p) \/ ReadForCancel(p) \/ Finalize(p)
  PROVE  OrderInv'
<1>1. OrderTypeOK /\ Order(p) \in Orders
  BY DEF OrderInv, CancelledThereToo, OrderTypeOK, Order
<1>2. CASE TakeCancelJob(p)
  <2>1. PICK l \in {"tell", "finalRead"} :
          /\ Goto(p, l) /\ UNCHANGED req
          /\ l = "finalRead" => byHand' = byHand \cup {Order(p)}
          /\ byHand \subseteq byHand' /\ byHand' \subseteq Orders
    BY <1>1, <1>2 DEF TakeCancelJob, OrderTypeOK
  <2>2. /\ pc' \in [Requests -> Places] /\ pc'[p] = l /\ req' \in [Requests -> OrderReq]
        /\ req'[p] = req[p] /\ Alone(p)
    BY <1>1, <2>1, Went, PlacesAre
  <2>3. OrderTypeOK'
    BY <1>1, <1>2, <2>1, <2>2 DEF TakeCancelJob, Books, OrderTypeOK, OrderReq
  <2>4. InvoicesAreKept'
    BY <1>2, <2>2, MoreStay, InvoicesCalm DEF TakeCancelJob, Books, Making, Maker
  <2>5. l = "finalRead" => Order(p)' \in byHand'
    BY <2>1, <2>2 DEF Order
  <2>6. (CancelledThereToo /\ CancelledThereFirst)'
    BY <1>2, <2>1, <2>2, <2>3, <2>5, CancelsCalm DEF TakeCancelJob
  <2>7. QED
    BY <2>4, <2>6 DEF OrderInv
<1>3. CASE TellMarket(p)
  <2>1. CASE UNCHANGED market /\ CancelFails(p)
    <3>1. UNCHANGED World
      BY <1>3, <2>1 DEF TellMarket, World
    <3>2. QED
      BY <1>3, <2>1, <3>1, CancelFailed, OrdersCalm DEF TellMarket, Making, Maker
  <2>2. CASE market' = [market EXCEPT ![Order(p)] = "CANCELLED"]
    <3>1. /\ pc' \in [Requests -> Places] /\ pc'[p] \in {"queuedCancel", "done", "finalRead"}
          /\ req' \in [Requests -> OrderReq] /\ Alone(p)
          /\ pc'[p] = "finalRead" => req'[p] = req[p]
      <4>1. CASE Goto(p, "finalRead") /\ UNCHANGED req
        BY <1>1, <4>1, Went, PlacesAre
      <4>2. CASE CancelFails(p)
        BY <4>2, CancelFailed
      <4>3. QED
        BY <1>3, <4>1, <4>2, CancelFailed DEF TellMarket
    <3>2. /\ market' \in [Orders -> OrderStatus] /\ market'[Order(p)] = "CANCELLED"
          /\ \A o \in Orders : market[o] = "CANCELLED" => market'[o] = "CANCELLED"
      BY <1>1, <2>2 DEF OrderTypeOK, OrderStatus
    <3>3. OrderTypeOK'
      BY <1>1, <1>3, <3>1, <3>2 DEF TellMarket, Books, OrderTypeOK, OrderReq
    <3>4. InvoicesAreKept'
      BY <1>3, <3>1, MoreStay, InvoicesCalm DEF TellMarket, Books, Making, Maker
    <3>5. CancelledThereToo'
      BY <1>3, <3>2, <3>3 DEF OrderInv, CancelledThereToo, TellMarket
    <3>6. ASSUME NEW q \in Requests, pc'[q] \in {"finalRead", "finalWrite"}, Order(q)' \notin byHand'
          PROVE  market'[Order(q)'] = "CANCELLED"
      <4>1. CASE q = p
        BY <3>1, <3>2, <3>6, <4>1 DEF Order
      <4>2. CASE q # p
        <5>1. pc'[q] = pc[q] /\ Order(q)' = Order(q) /\ Order(q) \in Orders
          BY <1>1, <3>1, <4>2 DEF Alone, Order, OrderTypeOK
        <5>2. market[Order(q)] = "CANCELLED"
          BY <1>3, <3>6, <5>1 DEF OrderInv, CancelledThereFirst, TellMarket
        <5>3. QED
          BY <3>2, <5>1, <5>2
      <4>3. QED
        BY <4>1, <4>2
    <3>7. QED
      BY <3>4, <3>5, <3>6 DEF OrderInv, CancelledThereFirst
  <2>3. QED
    BY <1>3, <2>1, <2>2 DEF TellMarket
<1>4. CASE ReadForCancel(p)
  <2>1. CASE End(p, "done")
    BY <1>1, <1>4, <2>1, Ended, PlacesAre, OrdersCalm DEF ReadForCancel, Making, Maker
  <2>2. CASE CancelFails(p)
    BY <1>4, <2>2, CancelFailed, OrdersCalm DEF ReadForCancel, Making, Maker
  <2>3. CASE Goto(p, "finalWrite") /\ UNCHANGED req
    <3>1. /\ pc' \in [Requests -> Places] /\ pc'[p] = "finalWrite" /\ req' \in [Requests -> OrderReq]
          /\ req'[p] = req[p] /\ Alone(p)
      BY <1>1, <2>3, Went, PlacesAre
    <3>2. OrderTypeOK'
      BY <1>1, <1>4, <3>1 DEF ReadForCancel, World, Books, OrderTypeOK, OrderReq
    <3>3. InvoicesAreKept'
      BY <1>4, <3>1, MoreStay, InvoicesCalm DEF ReadForCancel, World, Books, Making, Maker
    <3>4. Order(p)' \notin byHand' => market'[Order(p)'] = "CANCELLED"
      BY <1>4, <3>1 DEF ReadForCancel, World, OrderInv, CancelledThereFirst, Order
    <3>5. (CancelledThereToo /\ CancelledThereFirst)'
      BY <1>4, <3>1, <3>2, <3>4, CancelsCalm DEF ReadForCancel, World
    <3>6. QED
      BY <3>3, <3>5 DEF OrderInv
  <2>4. QED
    BY <1>4, <2>1, <2>2, <2>3 DEF ReadForCancel
<1>5. CASE Finalize(p)
  <2>1. /\ pc' \in [Requests -> Places] /\ pc'[p] \in {"queuedCancel", "done"}
        /\ req' \in [Requests -> OrderReq] /\ Alone(p)
    <3>1. CASE End(p, "done")
      BY <1>1, <3>1, Ended, PlacesAre
    <3>2. CASE CancelFails(p)
      BY <3>2, CancelFailed
    <3>3. QED
      BY <1>5, <3>1, <3>2, CancelFailed DEF Finalize
  <2>2. /\ status' \in [Orders -> OrderStatus]
        /\ \A o \in Orders \ {Order(p)} : status'[o] = status[o]
        /\ status'[Order(p)] \in {"CANCELLED", status[Order(p)]}
    BY <1>1, <1>5 DEF Finalize, OrderTypeOK, OrderStatus
  <2>3. OrderTypeOK'
    BY <1>1, <1>5, <2>1, <2>2 DEF Finalize, Books, OrderTypeOK, OrderReq
  <2>4. InvoicesAreKept'
    BY <1>5, <2>1, MoreStay, InvoicesCalm DEF Finalize, Books, Making, Maker
  <2>5. Order(p) \notin byHand => market[Order(p)] = "CANCELLED"
    BY <1>5 DEF OrderInv, CancelledThereFirst, Finalize
  <2>6. CancelledThereToo'
    BY <1>5, <2>2, <2>3, <2>5 DEF OrderInv, CancelledThereToo, Finalize
  <2>7. CancelledThereFirst'
    BY <1>5, <2>1 DEF OrderInv, CancelledThereFirst, Alone, Order, Finalize
  <2>8. QED
    BY <2>4, <2>6, <2>7 DEF OrderInv
<1>6. QED
  BY <1>2, <1>3, <1>4, <1>5
\* What is said of invoices is not about the rest.
LEMMA InvoicesStay ==
  ASSUME OrderInv, UNCHANGED <<native, drafts, erp, ownDrafts, ownErp, logged, mixed, doubtful, pc, req>>
  PROVE  InvoicesAreKept'
<1>1. /\ \A o : MoreDrafts(o)' = MoreDrafts(o) /\ MoreErp(o)' = MoreErp(o)
      /\ \A p : Order(p)' = Order(p) /\ (Checked(p)' <=> Checked(p)) /\ (Maker(p)' <=> Maker(p))
      /\ \A p : MoreDrafts(Order(p))' = MoreDrafts(Order(p)) /\ MoreErp(Order(p))' = MoreErp(Order(p))
  BY DEF MoreDrafts, MoreErp, Order, Checked, Maker
<1>2. OneLedger' /\ OneMaker' /\ LoggedOrDoubtful'
  BY <1>1 DEF OrderInv, InvoicesAreKept, OneLedger, OneMaker, LoggedOrDoubtful
<1>3. QED
  BY <1>1, <1>2 DEF OrderInv, InvoicesAreKept

\* The marketplace moves its order; one that is cancelled there stays cancelled.
LEMMA MarketStep ==
  ASSUME OrderInv, NEW o \in Orders, MarketMoves(o)
  PROVE  OrderInv'
<1>1. OrderTypeOK
  BY DEF OrderInv, CancelledThereToo
<1>2. /\ market' \in [Orders -> OrderStatus]
      /\ \A x \in Orders : market[x] = "CANCELLED" => market'[x] = "CANCELLED"
  <2>1. PICK s \in After(market[o]) : market' = [market EXCEPT ![o] = s]
    BY DEF MarketMoves
  <2>2. s \in OrderStatus /\ market[o] # "CANCELLED"
    BY <2>1 DEF After, OrderStatus
  <2>3. QED
    BY <1>1, <2>1, <2>2 DEF OrderTypeOK
<1>3. OrderTypeOK'
  BY <1>1, <1>2 DEF MarketMoves, Books, OrderTypeOK
<1>4. CancelledThereToo'
  BY <1>2, <1>3 DEF OrderInv, CancelledThereToo, MarketMoves
<1>5. CancelledThereFirst'
  BY <1>1, <1>2 DEF OrderInv, CancelledThereFirst, MarketMoves, Order, OrderTypeOK
<1>6. InvoicesAreKept'
  BY InvoicesStay DEF MarketMoves, Books
<1>7. QED
  BY <1>4, <1>5, <1>6 DEF OrderInv

\* The connection is lost.
LEMMA DisconnectStep ==
  ASSUME OrderInv, Disconnect
  PROVE  OrderInv'
<1>1. OrderTypeOK'
  <2>1. turns + 1 \in 0..MaxTurns
    BY OrderFlowAssumption DEF OrderInv, CancelledThereToo, OrderTypeOK, Disconnect
  <2>2. QED
    BY <2>1 DEF OrderInv, CancelledThereToo, OrderTypeOK, Disconnect, Books
<1>2. (CancelledThereToo /\ CancelledThereFirst)'
  BY <1>1 DEF OrderInv, CancelledThereToo, CancelledThereFirst, Disconnect, Order
<1>3. InvoicesAreKept'
  BY InvoicesStay DEF Disconnect, Books
<1>4. QED
  BY <1>2, <1>3 DEF OrderInv

\* The accounting mode changes: from now on nothing is said of its orders but what holds of
\* each ledger.
LEMMA ModeStep ==
  ASSUME OrderInv, ChangeMode
  PROVE  OrderInv'
<1>1. OrderTypeOK'
  BY OrderFlowAssumption DEF OrderInv, CancelledThereToo, OrderTypeOK, ChangeMode
<1>2. (CancelledThereToo /\ CancelledThereFirst)'
  BY <1>1 DEF OrderInv, CancelledThereToo, CancelledThereFirst, ChangeMode, Order
<1>3. /\ \A o : MoreDrafts(o)' = MoreDrafts(o) /\ MoreErp(o)' = MoreErp(o)
      /\ \A p : Order(p)' = Order(p) /\ (Checked(p)' <=> Checked(p)) /\ (Maker(p)' <=> Maker(p))
      /\ \A p : MoreDrafts(Order(p))' = MoreDrafts(Order(p)) /\ MoreErp(Order(p))' = MoreErp(Order(p))
      /\ UNCHANGED <<pc, logged, doubtful>>
  BY DEF ChangeMode, MoreDrafts, MoreErp, Order, Checked, Maker
<1>4. OneLedger'
  <2>1. mixed' = Orders /\ \A p \in Requests : Order(p)' \in Orders
    BY <1>1 DEF ChangeMode, OrderTypeOK, Order
  <2>2. QED
    BY <2>1 DEF OneLedger
<1>5. OneMaker' /\ LoggedOrDoubtful'
  BY <1>3 DEF OrderInv, InvoicesAreKept, OneMaker, LoggedOrDoubtful
<1>6. InvoicesAreKept'
  BY <1>3, <1>4, <1>5 DEF OrderInv, InvoicesAreKept
<1>7. QED
  BY <1>2, <1>6 DEF OrderInv

\* The process dies.  An invoice that was not logged yet leaves a doubt, and nobody is left at
\* work.
LEMMA OrderCrashStep ==
  ASSUME OrderInv, OrderCrash
  PROVE  OrderInv'
<1>1. OrderTypeOK
  BY DEF OrderInv, CancelledThereToo
<1>2. \A p \in Requests :
        /\ pc'[p] = CASE pc[p] \in {"tell", "finalRead", "finalWrite"} -> "queuedCancel"
                      [] pc[p] \in {"check", "bill", "log"} /\ Checked(p) -> "queued"
                      [] pc[p] \in {"bill", "log"} /\ ~Checked(p) -> "done"
                      [] pc[p] \in {"write", "mode", "findDraft", "createDraft"} -> "done"
                      [] OTHER -> pc[p]
        /\ pc[p] \in Places
  BY <1>1 DEF OrderCrash, OrderTypeOK, Checked
<1>3. \A p \in Requests :
        /\ pc'[p] \in {"idle", "queued", "queuedCancel", "done"} \/ (pc'[p] = "check" /\ ~Checked(p))
        /\ pc'[p] = "queued" => pc[p] \in {"queued", "check", "bill", "log"}
  BY <1>2 DEF Places, InJob
<1>4. pc' \in [Requests -> Places]
  <2>1. pc' = [p \in Requests |-> pc'[p]]
    BY DEF OrderCrash
  <2>2. \A p \in Requests : pc'[p] \in Places
    BY <1>3, PlacesAre
  <2>3. QED
    BY <2>1, <2>2
<1>5. /\ doubtful \subseteq doubtful' /\ doubtful' \subseteq Orders
      /\ \A p \in Requests : pc[p] = "log" /\ Checked(p) => Order(p) \in doubtful'
  BY <1>1 DEF OrderCrash, OrderTypeOK, Order, Checked
<1>6. turns' \in 0..MaxTurns
  BY <1>1, OrderFlowAssumption DEF OrderCrash, OrderTypeOK
<1>7. OrderTypeOK'
  BY <1>1, <1>4, <1>5, <1>6 DEF OrderCrash, OrderTypeOK
<1>8. (CancelledThereToo /\ CancelledThereFirst)'
  BY <1>3, <1>7 DEF OrderInv, CancelledThereToo, CancelledThereFirst, OrderCrash
<1>9. /\ \A o : MoreDrafts(o)' = MoreDrafts(o) /\ MoreErp(o)' = MoreErp(o)
      /\ \A p : Order(p)' = Order(p) /\ (Checked(p)' <=> Checked(p))
      /\ UNCHANGED <<native, mixed, logged>>
  BY DEF OrderCrash, MoreDrafts, MoreErp, Order, Checked
<1>10. OneLedger'
  BY <1>3, <1>9 DEF OrderInv, InvoicesAreKept, OneLedger
<1>11. OneMaker'
  BY <1>3, <1>9 DEF OneMaker, Making, Maker
<1>12. LoggedOrDoubtful'
  BY <1>5, <1>9 DEF OrderInv, InvoicesAreKept, LoggedOrDoubtful
<1>13. InvoicesAreKept'
  BY <1>5, <1>9, <1>10, <1>11, <1>12 DEF OrderInv, InvoicesAreKept
<1>14. QED
  BY <1>8, <1>13 DEF OrderInv

\* The invariant holds at the start.
LEMMA OrderInvInit == OrderInit => OrderInv
<1> SUFFICES ASSUME OrderInit PROVE OrderInv
  OBVIOUS
<1>1. \A p \in Requests : pc[p] = "idle"
  BY DEF OrderInit
<1>2. OrderTypeOK
  <2>1. pc \in [Requests -> Places]
    BY PlacesAre DEF OrderInit
  <2>2. req \in [Requests -> OrderReq]
    BY NoReqType DEF OrderInit
  <2>3. status \in [Orders -> OrderStatus] /\ market \in [Orders -> OrderStatus]
    BY DEF OrderInit, OrderStatus
  <2>4. /\ drafts \in [Orders -> Nat] /\ erp \in [Orders -> Nat]
        /\ ownDrafts \in [Orders -> Nat] /\ ownErp \in [Orders -> Nat]
    BY DEF OrderInit
  <2>5. turns \in 0..MaxTurns
    BY OrderFlowAssumption DEF OrderInit
  <2>6. QED
    BY <2>1, <2>2, <2>3, <2>4, <2>5 DEF OrderTypeOK, OrderReq, OrderInit
<1>3. CancelledThereToo /\ CancelledThereFirst
  BY <1>1, <1>2 DEF CancelledThereToo, CancelledThereFirst, OrderInit
<1>4. \A o \in Orders : MoreDrafts(o) = 0 /\ MoreErp(o) = 0
  BY DEF OrderInit, MoreDrafts, MoreErp
<1>5. OneLedger /\ OneMaker /\ LoggedOrDoubtful
  BY <1>1, <1>4 DEF OneLedger, OneMaker, LoggedOrDoubtful, Making, Maker
<1>6. InvoicesAreKept
  BY <1>4, <1>5 DEF InvoicesAreKept
<1>7. QED
  BY <1>3, <1>6 DEF OrderInv

\* Every step keeps it.
LEMMA OrderInvStep == OrderInv /\ [OrderNext]_orderVars => OrderInv'
<1> SUFFICES ASSUME OrderInv, [OrderNext]_orderVars PROVE OrderInv'
  OBVIOUS
<1>1. CASE UNCHANGED orderVars
  <2>1. (CancelledThereToo /\ CancelledThereFirst)'
    BY <1>1 DEF orderVars, World, Books, OrderInv, CancelledThereToo, CancelledThereFirst, OrderTypeOK, Order
  <2>2. InvoicesAreKept'
    BY <1>1, InvoicesStay DEF orderVars, World, Books
  <2>3. QED
    BY <2>1, <2>2 DEF OrderInv
<1>2. ASSUME NEW p \in Requests, Step(p) PROVE OrderInv'
  BY <1>2, WriteStep, StartInvoiceStep, LookStep, DraftStep, BillStep, LogStep, CancelStep DEF Step
<1>3. ASSUME NEW p \in Requests, NEW o \in Orders, Call(p, o) PROVE OrderInv'
  BY <1>3, AskMarketStep, BeginStep DEF Call
<1>4. QED
  BY <1>1, <1>2, <1>3, MarketStep, DisconnectStep, ModeStep, OrderCrashStep DEF OrderNext

\* The invariant of the orders holds in every reachable state.
THEOREM OrdersInductive == OrderSpec => []OrderInv
<1>1. QED
  BY OrderInvInit, OrderInvStep, PTL DEF OrderSpec

\* An order that nobody set by hand is cancelled here only after the marketplace has cancelled
\* it: what the job writes at its end, after any number of attempts, deaths and lost answers,
\* is the status of an order that it had read as cancelled there or that had no connection.
THEOREM NoneDropped == OrderSpec => []CancelledThereToo
<1>1. OrderInv => CancelledThereToo
  BY DEF OrderInv
<1>2. QED
  BY <1>1, OrdersInductive, PTL

\* Those that look for an invoice first make one at most in the books and one in the ERP, and
\* one in both while the mode stays, however many requests and jobs want one and whatever users
\* make beside them, unless two were looking at the same time or an answer or a log entry was
\* lost.
THEOREM OneInvoice == OrderSpec => []InvoicedOnce
<1>1. OrderInv => InvoicedOnce
  <2> SUFFICES ASSUME OrderInv, NEW o \in Orders \ doubtful
               PROVE  /\ drafts[o] <= 1 + ownDrafts[o] /\ erp[o] <= 1 + ownErp[o]
                      /\ o \notin mixed => drafts[o] + erp[o] <= 1 + ownDrafts[o] + ownErp[o]
    BY DEF InvoicedOnce
  <2>1. /\ drafts[o] \in Nat /\ erp[o] \in Nat /\ ownDrafts[o] \in Nat /\ ownErp[o] \in Nat
        /\ native \in BOOLEAN
    BY DEF OrderInv, CancelledThereToo, OrderTypeOK
  <2>2. /\ drafts[o] - ownDrafts[o] <= 1 /\ erp[o] - ownErp[o] <= 1
        /\ o \notin mixed => drafts[o] - ownDrafts[o] = 0 \/ erp[o] - ownErp[o] = 0
    BY <2>1 DEF OrderInv, InvoicesAreKept, OneLedger, MoreDrafts, MoreErp
  <2>3. QED
    BY <2>1, <2>2
<1>2. QED
  BY <1>1, OrdersInductive, PTL

----------------------------------------------------------------------------
(* Tokens: the inductive invariant. *)

Holding == {"persist", "consent"}

\* A pair on its way to the column is nowhere else, and the marketplace still takes it.
NewPairsAreFresh ==
  \A p \in Procs : at[p] \in Holding =>
    /\ held[p] \in usable /\ held[p] # row.pair /\ held[p] # 0
    /\ \A q \in Procs \ {p} : held[q] # held[p]

\* The marketplace takes the pair of the column, or a refresher brings another.
PairIsUsable ==
  ~astray /\ ~row.deleted => row.pair \in usable \/ \E p \in Refreshers : at[p] = "persist"

Exchanging == {p \in Panels : at[p] = "exchange"}

\* Every pair was given for a consent or for an access token that had run out, so that there
\* are no more of them than Pairs has.
PairsAreCounted ==
  /\ IsFiniteSet(over) /\ Cardinality(over) <= MaxExpiries
  /\ (0..issued) \ usable \subseteq over
  /\ IsFiniteSet(Exchanging) /\ Cardinality(usable) + Cardinality(Exchanging) <= consents + 1
  /\ \A p \in Procs : at[p] = "refresh" => held[p] \in over

TokenInv ==
  /\ TokenTypeOK /\ row.pair \in 0..issued
  /\ NewPairsAreFresh /\ PairIsUsable /\ PairsAreCounted

Spots == {"idle", "refresh", "persist", "use", "exchange", "consent", "edit"}
ConnectionRow == [pair : Pairs, isActive : BOOLEAN, deleted : BOOLEAN]

\* A process moves alone.
Apart(p) == \A q \in Procs \ {p} : at'[q] = at[q] /\ held'[q] = held[q]

\* There is one pair more for each pair the marketplace takes and each that ran out, and one
\* less when a pair is both.
LEMMA CountPairs ==
  ASSUME NEW n \in Nat, NEW U \in SUBSET (0..n), NEW O, IsFiniteSet(O), (0..n) \ U \subseteq O
  PROVE  /\ IsFiniteSet(U) /\ Cardinality(U) \in Nat /\ Cardinality(O) \in Nat
         /\ n + 1 <= Cardinality(U) + Cardinality(O)
         /\ \A x \in U \cap O : n + 2 <= Cardinality(U) + Cardinality(O)
<1>1. IsFiniteSet(0..n) /\ Cardinality(0..n) = n + 1
  BY FS_Interval
<1>2. IsFiniteSet(U) /\ Cardinality(U) \in Nat /\ Cardinality(O) \in Nat
  BY <1>1, FS_Subset, FS_CardinalityType
<1> DEFINE All == 0..n
           Gone == All \ U
<1>3. IsFiniteSet(All) /\ Cardinality(All) = n + 1 /\ U \subseteq All /\ Gone \subseteq O
  BY <1>1
<1> HIDE DEF All
<1>4. All \cap U = U
  BY <1>3
<1>5. Cardinality(Gone) = n + 1 - Cardinality(U)
  <2>1. Cardinality(Gone) = Cardinality(All) - Cardinality(All \cap U)
    BY <1>3, FS_Difference
  <2>2. Cardinality(All \cap U) = Cardinality(U)
    BY <1>4, Zenon
  <2> HIDE DEF Gone
  <2>3. QED
    BY <1>2, <1>3, <2>1, <2>2
<1>6. Cardinality(Gone) <= Cardinality(O) /\ Cardinality(Gone) \in Nat
  BY <1>3, FS_Subset, FS_CardinalityType
<1>7. ASSUME NEW x \in U \cap O PROVE Cardinality(Gone) <= Cardinality(O) - 1
  <2>1. Gone \subseteq O \ {x} /\ IsFiniteSet(O \ {x}) /\ Cardinality(O \ {x}) = Cardinality(O) - 1
    BY <1>3, <1>7, FS_RemoveElement
  <2>2. QED
    BY <2>1, FS_Subset
<1> HIDE DEF Gone
<1>8. n + 1 <= Cardinality(U) + Cardinality(O)
  BY <1>2, <1>5, <1>6
<1>9. \A x \in U \cap O : n + 2 <= Cardinality(U) + Cardinality(O)
  BY <1>2, <1>5, <1>6, <1>7
<1>10. QED
  BY <1>2, <1>8, <1>9

\* A process that goes to a place with a pair.
LEMMA Held ==
  ASSUME TokenTypeOK, NEW p \in Procs, NEW l \in Spots, issued' \in Nat, issued <= issued',
         NEW k \in 0..issued', Hold(p, l, k)
  PROVE  /\ at' \in [Procs -> Spots] /\ at'[p] = l
         /\ held' \in [Procs -> 0..issued'] /\ held'[p] = k /\ Apart(p)
<1>1. held \in [Procs -> 0..issued] /\ at \in [Procs -> Spots] /\ issued \in Nat
  BY ConnectionTokensAssumption DEF TokenTypeOK, Spots, Pairs
<1>2. held \in [Procs -> 0..issued']
  <2>1. \A x \in 0..issued : x \in 0..issued'
    BY <1>1
  <2>2. QED
    BY <1>1, <2>1
<1>3. QED
  BY <1>1, <1>2 DEF Hold, Apart

\* A process that ends.
LEMMA LetsGo ==
  ASSUME TokenTypeOK, NEW p \in Procs, issued' \in Nat, issued <= issued', LetGo(p)
  PROVE  /\ at' \in [Procs -> Spots] /\ at'[p] = "idle"
         /\ held' \in [Procs -> 0..issued'] /\ held'[p] = 0 /\ Apart(p)
<1>1. 0 \in 0..issued' /\ "idle" \in Spots
  BY DEF Spots
<1>2. QED
  BY <1>1, Held DEF LetGo

\* What is counted are numbers, and a pair that was given is one of Pairs.
LEMMA Numbers ==
  ASSUME TokenTypeOK
  PROVE  /\ issued \in Nat /\ consents \in Nat /\ MaxExpiries \in Nat /\ MaxConsents \in Nat
         /\ \A k \in 0..issued : k \in Pairs
  BY ConnectionTokensAssumption DEF TokenTypeOK, Pairs

\* A process that ends, or goes on to use the pair it holds.
LEMMA KeepsOrLetsGo ==
  ASSUME TokenTypeOK, NEW p \in Procs, UNCHANGED issued, LetGo(p) \/ Hold(p, "use", held[p])
  PROVE  /\ at' \in [Procs -> Spots] /\ at'[p] \in {"idle", "use"}
         /\ held' \in [Procs -> 0..issued'] /\ held'[p] \in {0, held[p]} /\ Apart(p)
<1>1. issued' \in Nat /\ issued <= issued' /\ held[p] \in 0..issued' /\ "use" \in Spots
  BY Numbers DEF TokenTypeOK, Spots
<1>2. CASE LetGo(p)
  BY <1>1, <1>2, LetsGo
<1>3. CASE Hold(p, "use", held[p])
  BY <1>1, <1>3, Held
<1>4. QED
  BY <1>2, <1>3

\* What runs out and what is asked for is counted as before when one process moves that does
\* not ask, and no pair is given.
LEMMA CountCalm ==
  ASSUME TokenInv, NEW p \in Procs, Apart(p), UNCHANGED <<issued, usable, over, consents>>,
         at'[p] # "exchange", at'[p] = "refresh" => held'[p] \in over
  PROVE  PairsAreCounted'
<1>1. Exchanging' \subseteq Exchanging
  BY DEF Exchanging, Apart, Procs
<1>2. IsFiniteSet(Exchanging) /\ Cardinality(Exchanging) \in Nat
  BY FS_CardinalityType DEF TokenInv, PairsAreCounted
<1>3. IsFiniteSet(Exchanging') /\ Cardinality(Exchanging') <= Cardinality(Exchanging)
      /\ Cardinality(Exchanging') \in Nat
  BY <1>1, <1>2, FS_Subset, FS_CardinalityType
<1>4. Cardinality(usable) \in Nat /\ consents \in Nat
  <2>1. issued \in Nat
    BY ConnectionTokensAssumption DEF TokenInv, TokenTypeOK, Pairs
  <2>2. QED
    BY <2>1, CountPairs DEF TokenInv, PairsAreCounted, TokenTypeOK
<1>5. Cardinality(usable') + Cardinality(Exchanging') <= consents' + 1
  BY <1>2, <1>3, <1>4 DEF TokenInv, PairsAreCounted
<1>6. \A q \in Procs : at'[q] = "refresh" => held'[q] \in over'
  BY DEF TokenInv, PairsAreCounted, Apart
<1>7. QED
  BY <1>3, <1>5, <1>6 DEF TokenInv, PairsAreCounted

\* New pairs stay fresh when a process moves that brings none, and the column takes no
\* pair but one of a process that then ends.
LEMMA FreshCalm ==
  ASSUME TokenInv, NEW p \in Procs, Apart(p), usable \subseteq usable',
         at'[p] \notin Holding,
         \A q \in Procs \ {p} : at[q] \in Holding => held[q] # held'[p] /\ held[q] # row'.pair
  PROVE  NewPairsAreFresh'
  BY DEF TokenInv, NewPairsAreFresh, Apart, Holding

\* A job or the schedule reads the credentials.
LEMMA ReadStep ==
  ASSUME TokenInv, NEW p \in Refreshers, ReadCredentials(p)
  PROVE  TokenInv'
<1>1. TokenTypeOK /\ p \in Procs /\ row.pair \in over /\ row.pair \in 0..issued
  BY DEF TokenInv, Procs, ReadCredentials, shouldRefreshToken
<1>2. UNCHANGED <<row, issued, usable, over, isActive, astray, consents, upsets>>
  BY DEF ReadCredentials, tokensOut
<1>3. /\ at' \in [Procs -> Spots] /\ at'[p] = "refresh"
      /\ held' \in [Procs -> 0..issued'] /\ held'[p] = row.pair /\ Apart(p)
  BY <1>1, <1>2, Numbers, Held DEF ReadCredentials, Spots
<1>4. TokenTypeOK' /\ row'.pair \in 0..issued'
  BY <1>1, <1>2, <1>3 DEF TokenTypeOK, Spots
<1>5. NewPairsAreFresh'
  BY <1>1, <1>2, <1>3, FreshCalm DEF TokenInv, NewPairsAreFresh, Holding
<1>6. PairIsUsable'
  BY <1>1, <1>2, <1>3 DEF TokenInv, PairIsUsable, Apart, Procs, ReadCredentials, At
<1>7. PairsAreCounted'
  BY <1>1, <1>2, <1>3, CountCalm
<1>8. QED
  BY <1>4, <1>5, <1>6, <1>7 DEF TokenInv

\* A process takes the pair of the column to use it.
LEMMA TakesCredentials ==
  ASSUME TokenInv, NEW p \in Procs, at[p] = "idle", Hold(p, "use", row.pair),
         UNCHANGED <<row, issued, usable, over, isActive, astray, consents, upsets>>
  PROVE  TokenInv'
<1>1. TokenTypeOK /\ row.pair \in 0..issued
  BY DEF TokenInv
<1>2. /\ at' \in [Procs -> Spots] /\ at'[p] = "use"
      /\ held' \in [Procs -> 0..issued'] /\ held'[p] = row.pair /\ Apart(p)
  BY <1>1, Numbers, Held DEF Spots
<1>3. TokenTypeOK' /\ row'.pair \in 0..issued'
  BY <1>1, <1>2 DEF TokenTypeOK, Spots
<1>4. NewPairsAreFresh'
  BY <1>2, FreshCalm DEF TokenInv, NewPairsAreFresh, Holding
<1>5. PairIsUsable'
  BY <1>2 DEF TokenInv, PairIsUsable, Apart, Procs
<1>6. PairsAreCounted'
  BY <1>2, CountCalm
<1>7. QED
  BY <1>3, <1>4, <1>5, <1>6 DEF TokenInv

\* A process ends without a new pair.
LEMMA GivesUp ==
  ASSUME TokenInv, NEW p \in Procs, at[p] # "persist", LetGo(p), upsets' \in 0..MaxLosses,
         UNCHANGED <<row, issued, usable, over, isActive, astray, consents>>
  PROVE  TokenInv'
<1>1. TokenTypeOK /\ p \in Procs
  BY DEF TokenInv, Procs
<1>2. /\ at' \in [Procs -> Spots] /\ at'[p] = "idle"
      /\ held' \in [Procs -> 0..issued'] /\ held'[p] = 0 /\ Apart(p)
  BY <1>1, Numbers, LetsGo
<1>3. TokenTypeOK' /\ row'.pair \in 0..issued'
  BY <1>1, <1>2 DEF TokenInv, TokenTypeOK, Spots
<1>4. NewPairsAreFresh'
  BY <1>1, <1>2, FreshCalm DEF TokenInv, NewPairsAreFresh, Holding
<1>5. PairIsUsable'
  BY <1>1, <1>2 DEF TokenInv, PairIsUsable, Apart, Procs
<1>6. PairsAreCounted'
  BY <1>1, <1>2, CountCalm
<1>7. QED
  BY <1>3, <1>4, <1>5, <1>6 DEF TokenInv

\* The marketplace trades a pair whose access token had run out: there is one more, and it is
\* still one of Pairs.
LEMMA Traded ==
  ASSUME TokenInv, NEW p \in Procs, at[p] \in {"refresh", "use"}, held[p] \in usable \cap over,
         issued' = issued + 1, usable' = (usable \ {held[p]}) \cup {issued + 1},
         UNCHANGED <<over, consents>>, Apart(p), at'[p] \in {"persist", "idle"}
  PROVE  issued' \in Pairs /\ PairsAreCounted'
<1>1. TokenTypeOK /\ p \in Procs /\ held[p] \in over
  BY DEF TokenInv, Procs, PairsAreCounted
<1>2. issued \in Nat /\ usable \in SUBSET (0..issued) /\ over \subseteq 0..issued
  BY <1>1, Numbers DEF TokenTypeOK
<1>3. /\ IsFiniteSet(usable) /\ Cardinality(usable) \in Nat /\ Cardinality(over) \in Nat
      /\ issued + 2 <= Cardinality(usable) + Cardinality(over)
  BY <1>1, <1>2, CountPairs DEF TokenInv, PairsAreCounted
<1>4. Exchanging' = Exchanging
  BY DEF Exchanging, Apart, Procs
<1>5. Cardinality(Exchanging) \in Nat
  BY FS_CardinalityType DEF TokenInv, PairsAreCounted
<1>6. Cardinality(usable') = Cardinality(usable)
  <2>1. IsFiniteSet(usable \ {held[p]}) /\ Cardinality(usable \ {held[p]}) = Cardinality(usable) - 1
    BY <1>3, FS_RemoveElement
  <2>2. issued + 1 \notin usable \ {held[p]}
    BY <1>2
  <2>3. Cardinality((usable \ {held[p]}) \cup {issued + 1}) = Cardinality(usable \ {held[p]}) + 1
    BY <2>1, <2>2, FS_AddElement
  <2>4. QED
    BY <1>3, <2>1, <2>3
<1>7. issued' \in Pairs
  <2>1. Cardinality(usable) <= consents + 1 /\ Cardinality(over) <= MaxExpiries /\ consents <= MaxConsents
    BY <1>1, <1>3, <1>5, Numbers DEF TokenInv, PairsAreCounted, TokenTypeOK
  <2>2. issued + 1 <= MaxConsents + MaxExpiries
    BY <1>1, <1>2, <1>3, <2>1, Numbers
  <2>3. QED
    BY <1>1, <1>2, <2>2, Numbers DEF Pairs
<1>8. (0..issued') \ usable' \subseteq over'
  BY <1>1, <1>2 DEF TokenInv, PairsAreCounted
<1>9. \A q \in Procs : at'[q] = "refresh" => held'[q] \in over'
  BY DEF TokenInv, PairsAreCounted, Apart
<1>10. PairsAreCounted'
  BY <1>4, <1>6, <1>8, <1>9 DEF TokenInv, PairsAreCounted
<1>11. QED
  BY <1>7, <1>10

\* The marketplace is asked for a new pair.
LEMMA RefreshStepInv ==
  ASSUME TokenInv, NEW p \in Refreshers, Refresh(p)
  PROVE  TokenInv'
<1>1. TokenTypeOK /\ p \in Procs /\ at[p] = "refresh" /\ held[p] \in 0..issued
  BY DEF TokenInv, Procs, Refresh, At, TokenTypeOK
<1>2. issued \in Nat /\ usable \subseteq 0..issued /\ over \subseteq 0..issued /\ row.pair \in 0..issued
  BY <1>1, Numbers DEF TokenTypeOK, TokenInv
<1>0. held[p] \in over
  BY <1>1 DEF TokenInv, PairsAreCounted
<1>3. Upset => upsets' \in 0..MaxLosses
  BY <1>1, ConnectionTokensAssumption DEF Upset, TokenTypeOK
<1>4. CASE /\ held[p] \in usable /\ issued' = issued + 1 /\ usable' = (usable \ {held[p]}) \cup {issued + 1}
           /\ Hold(p, "persist", issued + 1) /\ UNCHANGED <<astray, upsets>>
  <2>1. issued' \in Nat /\ issued <= issued' /\ issued + 1 \in 0..issued'
    BY <1>2, <1>4
  <2>2. /\ at' \in [Procs -> Spots] /\ at'[p] = "persist"
        /\ held' \in [Procs -> 0..issued'] /\ held'[p] = issued + 1 /\ Apart(p)
    BY <1>1, <1>4, <2>1, Held DEF Spots
  <2>3. issued' \in Pairs /\ PairsAreCounted'
    BY <1>0, <1>1, <1>4, <2>2, Traded DEF Refresh
  <2>4. usable' \subseteq 0..issued' /\ over' \subseteq 0..issued' /\ row'.pair \in 0..issued'
    <3>1. \A x \in 0..issued : x \in 0..issued'
      BY <1>2, <1>4
    <3>2. issued + 1 \in 0..issued'
      BY <1>2, <1>4
    <3>3. UNCHANGED <<row, over>>
      BY DEF Refresh
    <3>4. QED
      BY <1>2, <1>4, <3>1, <3>2, <3>3
  <2>5. TokenTypeOK'
    BY <1>1, <1>4, <2>2, <2>3, <2>4 DEF TokenTypeOK, Refresh, Spots
  <2>6. NewPairsAreFresh'
    <3>1. \A q \in Procs : held[q] # issued + 1 /\ row.pair # issued + 1
      BY <1>1, <1>2 DEF TokenTypeOK
    <3>2. ASSUME NEW q \in Procs, at'[q] \in Holding
          PROVE  /\ held'[q] \in usable' /\ held'[q] # row'.pair /\ held'[q] # 0
                 /\ \A x \in Procs \ {q} : held'[x] # held'[q]
      <4>1. CASE q = p
        BY <1>1, <1>2, <1>4, <2>2, <3>1, <4>1 DEF Apart, Refresh
      <4>2. CASE q # p
        <5>1. /\ held[q] \in usable /\ held[q] # row.pair /\ held[q] # 0
              /\ \A x \in Procs \ {q} : held[x] # held[q]
          BY <2>2, <3>2, <4>2 DEF Apart, TokenInv, NewPairsAreFresh
        <5>2. held[q] # held[p]
          BY <1>1, <4>2, <5>1
        <5>3. QED
          BY <1>1, <1>4, <2>2, <3>1, <4>2, <5>1, <5>2 DEF Apart, Refresh
      <4>3. QED
        BY <4>1, <4>2
    <3>3. QED
      BY <3>2 DEF NewPairsAreFresh
  <2>7. PairIsUsable'
    BY <2>2 DEF PairIsUsable
  <2>8. QED
    BY <2>3, <2>4, <2>5, <2>6, <2>7 DEF TokenInv
<1>5. CASE /\ held[p] \in usable /\ issued' = issued + 1 /\ usable' = (usable \ {held[p]}) \cup {issued + 1}
           /\ Upset /\ astray' = TRUE /\ LetGo(p)
  <2>1. issued' \in Nat /\ issued <= issued'
    BY <1>2, <1>5
  <2>2. /\ at' \in [Procs -> Spots] /\ at'[p] = "idle"
        /\ held' \in [Procs -> 0..issued'] /\ held'[p] = 0 /\ Apart(p)
    BY <1>1, <1>5, <2>1, LetsGo
  <2>3. issued' \in Pairs /\ PairsAreCounted'
    BY <1>0, <1>1, <1>5, <2>2, Traded DEF Refresh
  <2>4. usable' \subseteq 0..issued' /\ over' \subseteq 0..issued' /\ row'.pair \in 0..issued'
    <3>1. \A x \in 0..issued : x \in 0..issued'
      BY <1>2, <1>5
    <3>2. issued + 1 \in 0..issued'
      BY <1>2, <1>5
    <3>3. UNCHANGED <<row, over>>
      BY DEF Refresh
    <3>4. QED
      BY <1>2, <1>5, <3>1, <3>2, <3>3
  <2>5. TokenTypeOK'
    BY <1>1, <1>3, <1>5, <2>2, <2>3, <2>4 DEF TokenTypeOK, Refresh, Spots
  <2>6. NewPairsAreFresh'
    <3>1. ASSUME NEW q \in Procs, at'[q] \in Holding
          PROVE  /\ held'[q] \in usable' /\ held'[q] # row'.pair /\ held'[q] # 0
                 /\ \A x \in Procs \ {q} : held'[x] # held'[q]
      <4>1. q # p
        BY <2>2, <3>1 DEF Holding
      <4>2. /\ held[q] \in usable /\ held[q] # row.pair /\ held[q] # 0
            /\ \A x \in Procs \ {q} : held[x] # held[q]
        BY <2>2, <3>1, <4>1 DEF Apart, TokenInv, NewPairsAreFresh
      <4>3. QED
        BY <1>1, <1>5, <2>2, <4>1, <4>2 DEF Apart, Refresh
    <3>2. QED
      BY <3>1 DEF NewPairsAreFresh
  <2>7. PairIsUsable'
    BY <1>5 DEF PairIsUsable
  <2>8. QED
    BY <2>3, <2>4, <2>5, <2>6, <2>7 DEF TokenInv
<1>6. CASE held[p] \notin usable /\ LetGo(p) /\ UNCHANGED <<tokensOut, astray, upsets>>
  BY <1>1, <1>6, GivesUp DEF Refresh, tokensOut, TokenTypeOK
<1>7. CASE Upset /\ LetGo(p) /\ UNCHANGED <<tokensOut, astray>>
  BY <1>1, <1>3, <1>7, GivesUp DEF Refresh, tokensOut
<1>8. QED
  BY <1>4, <1>5, <1>6, <1>7 DEF Refresh

\* An adapter trades the pair it was given: if it is the column's, that is noted.
LEMMA TradesStep ==
  ASSUME TokenInv, NEW p \in Procs, getAccessToken(p)
  PROVE  TokenInv'
<1>1. TokenTypeOK /\ at[p] = "use" /\ held[p] \in 0..issued
  BY DEF TokenInv, getAccessToken, At, TokenTypeOK
<1>2. issued \in Nat /\ usable \subseteq 0..issued /\ over \subseteq 0..issued /\ row.pair \in 0..issued
  BY <1>1, Numbers DEF TokenTypeOK, TokenInv
<1>3. LetGo(p) /\ UNCHANGED <<row, over, isActive, consents, upsets>>
  BY DEF getAccessToken
<1>4. CASE /\ held[p] \in over \cap usable /\ issued' = issued + 1
           /\ usable' = (usable \ {held[p]}) \cup {issued + 1}
           /\ astray' = (astray \/ row.pair = held[p])
  <2>1. issued' \in Nat /\ issued <= issued' /\ astray' \in BOOLEAN
    BY <1>1, <1>2, <1>4 DEF TokenTypeOK
  <2>2. /\ at' \in [Procs -> Spots] /\ at'[p] = "idle"
        /\ held' \in [Procs -> 0..issued'] /\ held'[p] = 0 /\ Apart(p)
    BY <1>1, <1>3, <2>1, LetsGo
  <2>3. issued' \in Pairs /\ PairsAreCounted'
    BY <1>1, <1>3, <1>4, <2>2, Traded
  <2>4. usable' \subseteq 0..issued' /\ over' \subseteq 0..issued' /\ row'.pair \in 0..issued'
    <3>1. \A x \in 0..issued : x \in 0..issued'
      BY <1>2, <1>4
    <3>2. issued + 1 \in 0..issued'
      BY <1>2, <1>4
    <3>3. QED
      BY <1>2, <1>3, <1>4, <3>1, <3>2
  <2>5. TokenTypeOK'
    BY <1>1, <1>3, <2>1, <2>2, <2>3, <2>4 DEF TokenTypeOK, Spots
  <2>6. NewPairsAreFresh'
    <3>1. ASSUME NEW q \in Procs, at'[q] \in Holding
          PROVE  /\ held'[q] \in usable' /\ held'[q] # row'.pair /\ held'[q] # 0
                 /\ \A x \in Procs \ {q} : held'[x] # held'[q]
      <4>1. q # p
        BY <2>2, <3>1 DEF Holding
      <4>2. /\ held[q] \in usable /\ held[q] # row.pair /\ held[q] # 0
            /\ \A x \in Procs \ {q} : held[x] # held[q]
        BY <2>2, <3>1, <4>1 DEF Apart, TokenInv, NewPairsAreFresh
      <4>3. QED
        BY <1>1, <1>3, <1>4, <2>2, <4>1, <4>2 DEF Apart
    <3>2. QED
      BY <3>1 DEF NewPairsAreFresh
  <2>7. PairIsUsable'
    <3>1. ASSUME ~astray', ~row'.deleted, row.pair \notin usable'
          PROVE  \E q \in Refreshers : at'[q] = "persist"
      <4>1. ~astray /\ ~row.deleted /\ row.pair \notin usable
        BY <1>1, <1>3, <1>4, <3>1 DEF TokenTypeOK
      <4>2. PICK q \in Refreshers : at[q] = "persist"
        BY <4>1 DEF TokenInv, PairIsUsable
      <4>3. at'[q] = at[q]
        BY <1>1, <2>2, <4>2 DEF Apart, Procs
      <4>4. QED
        BY <4>2, <4>3
    <3>2. QED
      BY <1>3, <3>1 DEF PairIsUsable
  <2>8. QED
    BY <2>3, <2>4, <2>5, <2>6, <2>7 DEF TokenInv
<1>5. CASE UNCHANGED <<tokensOut, astray>>
  BY <1>1, <1>3, <1>5, GivesUp DEF tokensOut, TokenTypeOK
<1>6. QED
  BY <1>4, <1>5 DEF getAccessToken

\* A process that holds a new pair writes it to the column and ends, or uses it.
LEMMA Written ==
  ASSUME TokenInv, NEW p \in Procs, at[p] \in Holding, LetGo(p) \/ Hold(p, "use", held[p]),
         row' \in ConnectionRow, row'.pair = held[p], astray' = FALSE, isActive' \in [Panels -> BOOLEAN],
         UNCHANGED <<issued, usable, over, consents, upsets>>
  PROVE  TokenInv'
<1>1. TokenTypeOK
  BY DEF TokenInv
<1>2. /\ at' \in [Procs -> Spots] /\ at'[p] \in {"idle", "use"}
      /\ held' \in [Procs -> 0..issued'] /\ held'[p] \in {0, held[p]} /\ Apart(p)
  BY <1>1, KeepsOrLetsGo
<1>3. held[p] \in usable /\ held[p] \in 0..issued
      /\ \A q \in Procs \ {p} : held[q] # held[p]
  BY <1>1 DEF TokenInv, NewPairsAreFresh, TokenTypeOK
<1>4. TokenTypeOK' /\ row'.pair \in 0..issued'
  BY <1>1, <1>2, <1>3 DEF TokenTypeOK, Spots, ConnectionRow
<1>5. NewPairsAreFresh'
  BY <1>2, <1>3, FreshCalm DEF TokenInv, NewPairsAreFresh, Holding
<1>6. PairIsUsable'
  BY <1>3 DEF PairIsUsable
<1>7. PairsAreCounted'
  BY <1>2, CountCalm
<1>8. QED
  BY <1>4, <1>5, <1>6, <1>7 DEF TokenInv

\* What was refreshed is stored, unless the connection was removed.
LEMMA PersistStep ==
  ASSUME TokenInv, NEW p \in Refreshers, persistCredentials(p)
  PROVE  TokenInv'
<1>1. TokenTypeOK /\ p \in Procs /\ at[p] = "persist"
  BY DEF TokenInv, Procs, persistCredentials, At
<1>2. /\ UNCHANGED <<issued, usable, over, isActive, consents, upsets>>
      /\ LetGo(p) \/ Hold(p, "use", held[p])
  BY DEF persistCredentials, tokensOut
<1>3. CASE row.deleted
  <2>1. UNCHANGED <<row, astray>>
    BY <1>3 DEF persistCredentials
  <2>2. /\ at' \in [Procs -> Spots] /\ at'[p] \in {"idle", "use"}
        /\ held' \in [Procs -> 0..issued'] /\ held'[p] \in {0, held[p]} /\ Apart(p)
    BY <1>1, <1>2, KeepsOrLetsGo
  <2>3. TokenTypeOK' /\ row'.pair \in 0..issued'
    BY <1>1, <1>2, <2>1, <2>2 DEF TokenInv, TokenTypeOK, Spots
  <2>4. NewPairsAreFresh'
    BY <1>1, <1>2, <2>1, <2>2, FreshCalm DEF TokenInv, NewPairsAreFresh, Holding
  <2>5. PairIsUsable'
    BY <1>3, <2>1 DEF PairIsUsable
  <2>6. PairsAreCounted'
    BY <1>1, <1>2, <2>2, CountCalm
  <2>7. QED
    BY <2>3, <2>4, <2>5, <2>6 DEF TokenInv
<1>4. CASE ~row.deleted
  <2>1. row' = [row EXCEPT !.pair = held[p]] /\ astray' = FALSE
    BY <1>4 DEF persistCredentials
  <2>2. held[p] \in Pairs
    BY <1>1, Numbers DEF TokenTypeOK
  <2>3. row' \in ConnectionRow /\ row'.pair = held[p]
    BY <1>1, <2>1, <2>2 DEF TokenTypeOK, ConnectionRow
  <2>4. QED
    BY <1>1, <1>2, <2>1, <2>3, Written DEF TokenTypeOK, Holding
<1>5. row.deleted \in BOOLEAN
  BY <1>1 DEF TokenTypeOK
<1>6. QED
  BY <1>3, <1>4, <1>5

\* The customer's consent is stored.
LEMMA ConsentStep ==
  ASSUME TokenInv, NEW p \in Panels, WriteConsent(p)
  PROVE  TokenInv'
<1>1. TokenTypeOK /\ p \in Procs /\ at[p] = "consent"
  BY DEF TokenInv, Procs, WriteConsent, At
<1>2. held[p] \in Pairs
  BY <1>1, Numbers DEF TokenTypeOK
<1>3. row' \in ConnectionRow /\ row'.pair = held[p]
  BY <1>1, <1>2 DEF TokenTypeOK, ConnectionRow, WriteConsent
<1>4. QED
  BY <1>1, <1>3, Written DEF TokenTypeOK, Holding, WriteConsent, tokensOut

\* The customer begins to consent: another process asks.
LEMMA AskStep ==
  ASSUME TokenInv, NEW p \in Panels, completeOAuthCallback(p)
  PROVE  TokenInv'
<1>1. TokenTypeOK /\ p \in Procs /\ at[p] = "idle"
  BY DEF TokenInv, Procs, completeOAuthCallback, At
<1>2. UNCHANGED <<row, issued, usable, over, isActive, astray, upsets, held>>
  BY DEF completeOAuthCallback, tokensOut
<1>3. /\ at' \in [Procs -> Spots] /\ at'[p] = "exchange" /\ Apart(p)
  BY <1>1, <1>2 DEF completeOAuthCallback, MoveTo, TokenTypeOK, Spots, Apart
<1>4. consents' = consents + 1 /\ consents' \in 0..MaxConsents
  BY <1>1, ConnectionTokensAssumption DEF completeOAuthCallback, TokenTypeOK
<1>5. TokenTypeOK' /\ row'.pair \in 0..issued'
  BY <1>1, <1>2, <1>3, <1>4 DEF TokenInv, TokenTypeOK, Spots
<1>6. NewPairsAreFresh'
  BY <1>1, <1>2, <1>3 DEF TokenInv, NewPairsAreFresh, Holding, Apart
<1>7. PairIsUsable'
  BY <1>1, <1>2, <1>3 DEF TokenInv, PairIsUsable, Apart, Procs
<1>8. PairsAreCounted'
  <2>1. Exchanging' = Exchanging \cup {p}
    BY <1>1, <1>3 DEF Exchanging, Apart, Procs
  <2>2. IsFiniteSet(Exchanging) /\ p \notin Exchanging
    BY <1>1 DEF TokenInv, PairsAreCounted, Exchanging
  <2>3. IsFiniteSet(Exchanging') /\ Cardinality(Exchanging') = Cardinality(Exchanging) + 1
    BY <2>1, <2>2, FS_AddElement
  <2>4. Cardinality(Exchanging) \in Nat /\ Cardinality(usable) \in Nat
    BY <1>1, <2>2, Numbers, CountPairs, FS_CardinalityType DEF TokenInv, PairsAreCounted, TokenTypeOK
  <2>5. Cardinality(usable') + Cardinality(Exchanging') <= consents' + 1
    BY <1>1, <1>2, <1>4, <2>3, <2>4, Numbers DEF TokenInv, PairsAreCounted
  <2>6. \A q \in Procs : at'[q] = "refresh" => held'[q] \in over'
    BY <1>2, <1>3 DEF TokenInv, PairsAreCounted, Apart
  <2>7. QED
    BY <1>2, <2>3, <2>5, <2>6 DEF TokenInv, PairsAreCounted
<1>9. QED
  BY <1>5, <1>6, <1>7, <1>8 DEF TokenInv

\* The code is exchanged for a pair.
LEMMA ExchangeStep ==
  ASSUME TokenInv, NEW p \in Panels, Exchange(p)
  PROVE  TokenInv'
<1>1. TokenTypeOK /\ p \in Procs /\ at[p] = "exchange"
  BY DEF TokenInv, Procs, Exchange, At
<1>2. issued \in Nat /\ usable \in SUBSET (0..issued) /\ over \subseteq 0..issued /\ row.pair \in 0..issued
  BY <1>1, Numbers DEF TokenTypeOK, TokenInv
<1>3. /\ issued' = issued + 1 /\ usable' = usable \cup {issued + 1}
      /\ UNCHANGED <<row, over, isActive, astray, consents, upsets>>
  BY DEF Exchange
<1>4. issued' \in Nat /\ issued <= issued' /\ issued + 1 \in 0..issued'
  BY <1>2, <1>3
<1>5. /\ at' \in [Procs -> Spots] /\ at'[p] = "consent"
      /\ held' \in [Procs -> 0..issued'] /\ held'[p] = issued + 1 /\ Apart(p)
  BY <1>1, <1>4, Held DEF Spots, Exchange
<1>6. /\ IsFiniteSet(usable) /\ Cardinality(usable) \in Nat /\ Cardinality(over) \in Nat
      /\ issued + 1 <= Cardinality(usable) + Cardinality(over)
  BY <1>2, CountPairs DEF TokenInv, PairsAreCounted
<1>7. /\ Exchanging' = Exchanging \ {p} /\ p \in Exchanging
      /\ IsFiniteSet(Exchanging) /\ Cardinality(Exchanging) \in Nat
  BY <1>1, <1>5, FS_CardinalityType DEF TokenInv, PairsAreCounted, Exchanging, Apart, Procs
<1>8. IsFiniteSet(Exchanging') /\ Cardinality(Exchanging') = Cardinality(Exchanging) - 1
      /\ Cardinality(Exchanging') \in Nat
  BY <1>7, FS_RemoveElement, FS_CardinalityType
<1>9. issued' \in Pairs
  <2>1. Cardinality(usable) <= consents /\ Cardinality(over) <= MaxExpiries /\ consents <= MaxConsents
    BY <1>1, <1>6, <1>7, <1>8, Numbers DEF TokenInv, PairsAreCounted, TokenTypeOK
  <2>2. QED
    BY <1>1, <1>3, <1>4, <1>6, <2>1, Numbers DEF Pairs
<1>10. usable' \subseteq 0..issued' /\ over' \subseteq 0..issued' /\ row'.pair \in 0..issued'
  <2>1. \A x \in 0..issued : x \in 0..issued'
    BY <1>2, <1>3
  <2>2. QED
    BY <1>2, <1>3, <1>4, <2>1
<1>11. TokenTypeOK'
  BY <1>1, <1>3, <1>5, <1>9, <1>10 DEF TokenTypeOK, Spots
<1>12. NewPairsAreFresh'
  <2>1. \A q \in Procs : held[q] # issued + 1 /\ row.pair # issued + 1
    BY <1>1, <1>2 DEF TokenTypeOK
  <2>2. ASSUME NEW q \in Procs, at'[q] \in Holding
        PROVE  /\ held'[q] \in usable' /\ held'[q] # row'.pair /\ held'[q] # 0
               /\ \A x \in Procs \ {q} : held'[x] # held'[q]
    <3>1. CASE q = p
      BY <1>1, <1>2, <1>3, <1>5, <2>1, <3>1 DEF Apart
    <3>2. CASE q # p
      <4>1. /\ held[q] \in usable /\ held[q] # row.pair /\ held[q] # 0
            /\ \A x \in Procs \ {q} : held[x] # held[q]
        BY <1>5, <2>2, <3>2 DEF Apart, TokenInv, NewPairsAreFresh
      <4>2. QED
        BY <1>1, <1>3, <1>5, <2>1, <3>2, <4>1 DEF Apart
    <3>3. QED
      BY <3>1, <3>2
  <2>3. QED
    BY <2>2 DEF NewPairsAreFresh
<1>13. PairIsUsable'
  BY <1>1, <1>3, <1>5 DEF TokenInv, PairIsUsable, Apart, Procs
<1>14. PairsAreCounted'
  <2>1. issued + 1 \notin usable
    BY <1>2
  <2>2. Cardinality(usable') = Cardinality(usable) + 1
    BY <1>3, <1>6, <2>1, FS_AddElement
  <2>3. Cardinality(usable') + Cardinality(Exchanging') <= consents' + 1
    BY <1>1, <1>3, <1>6, <1>7, <1>8, <2>2, Numbers DEF TokenInv, PairsAreCounted
  <2>4. (0..issued') \ usable' \subseteq over'
    BY <1>2, <1>3 DEF TokenInv, PairsAreCounted
  <2>5. \A q \in Procs : at'[q] = "refresh" => held'[q] \in over'
    BY <1>3, <1>5 DEF TokenInv, PairsAreCounted, Apart
  <2>6. QED
    BY <1>3, <1>8, <2>3, <2>4, <2>5 DEF TokenInv, PairsAreCounted
<1>15. QED
  BY <1>10, <1>11, <1>12, <1>13, <1>14 DEF TokenInv

\* An edit reads the column, and writes it back.
LEMMA EditStep ==
  ASSUME TokenInv, NEW p \in Panels, update(p) \/ WriteEdit(p)
  PROVE  TokenInv'
<1>1. TokenTypeOK /\ p \in Procs /\ row.pair \in 0..issued /\ held[p] \in 0..issued
  BY DEF TokenInv, Procs, TokenTypeOK
<1>2. UNCHANGED <<issued, usable, over, consents, upsets>>
  BY DEF update, WriteEdit, tokensOut
<1>3. CASE update(p)
  <2>1. /\ at' \in [Procs -> Spots] /\ at'[p] = "edit"
        /\ held' \in [Procs -> 0..issued'] /\ held'[p] = row.pair /\ Apart(p)
    BY <1>1, <1>2, <1>3, Numbers, Held DEF update, Spots
  <2>2. isActive' \in [Panels -> BOOLEAN] /\ UNCHANGED <<row, astray>>
    BY <1>1, <1>3 DEF update, TokenTypeOK
  <2>3. TokenTypeOK' /\ row'.pair \in 0..issued'
    BY <1>1, <1>2, <2>1, <2>2 DEF TokenTypeOK, Spots
  <2>4. NewPairsAreFresh'
    BY <1>1, <1>2, <2>1, <2>2, FreshCalm DEF TokenInv, NewPairsAreFresh, Holding
  <2>5. PairIsUsable'
    BY <1>1, <1>2, <1>3, <2>1, <2>2 DEF TokenInv, PairIsUsable, Apart, Procs, update, At
  <2>6. PairsAreCounted'
    BY <1>1, <1>2, <2>1, CountCalm
  <2>7. QED
    BY <2>3, <2>4, <2>5, <2>6 DEF TokenInv
<1>4. CASE WriteEdit(p)
  <2>1. /\ at' \in [Procs -> Spots] /\ at'[p] = "idle"
        /\ held' \in [Procs -> 0..issued'] /\ held'[p] = 0 /\ Apart(p)
    BY <1>1, <1>2, <1>4, Numbers, LetsGo DEF WriteEdit
  <2>2. isActive[p] \in BOOLEAN /\ held[p] \in Pairs
    BY <1>1, Numbers DEF TokenTypeOK
  <2>3. /\ row' \in ConnectionRow /\ row'.pair = held[p] /\ row'.deleted = row.deleted
    BY <1>1, <1>4, <2>2 DEF TokenTypeOK, ConnectionRow, WriteEdit
  <2>4. isActive' \in [Panels -> BOOLEAN] /\ astray' \in BOOLEAN
    BY <1>1, <1>4 DEF TokenTypeOK, WriteEdit
  <2>5. TokenTypeOK' /\ row'.pair \in 0..issued'
    BY <1>1, <1>2, <2>1, <2>3, <2>4 DEF TokenTypeOK, Spots, ConnectionRow
  <2>6. NewPairsAreFresh'
    <3>1. \A q \in Procs \ {p} : at[q] \in Holding => held[q] # 0 /\ held[q] # held[p]
      BY <1>1 DEF TokenInv, NewPairsAreFresh
    <3>2. QED
      BY <1>1, <1>2, <2>1, <2>3, <3>1, FreshCalm DEF Holding
  <2>7. PairIsUsable'
    <3>1. astray' = (astray \/ row.pair # held[p])
      BY <1>4 DEF WriteEdit
    <3>2. ASSUME ~astray', ~row'.deleted PROVE row.pair \in usable \/ \E q \in Refreshers : at[q] = "persist"
      BY <2>3, <3>1, <3>2 DEF TokenInv, PairIsUsable
    <3>3. \A q \in Refreshers : at[q] = "persist" => at'[q] = "persist"
      BY <1>4, <2>1 DEF Apart, Procs, WriteEdit, At
    <3>4. ASSUME ~astray' PROVE row'.pair = row.pair
      BY <2>3, <3>1, <3>4
    <3>5. QED
      BY <1>2, <3>2, <3>3, <3>4 DEF PairIsUsable
  <2>8. PairsAreCounted'
    BY <1>1, <1>2, <2>1, CountCalm
  <2>9. QED
    BY <2>5, <2>6, <2>7, <2>8 DEF TokenInv
<1>5. QED
  BY <1>3, <1>4

\* The connection is removed.
LEMMA RemoveStep ==
  ASSUME TokenInv, remove
  PROVE  TokenInv'
<1>1. TokenTypeOK
  BY DEF TokenInv
<1>2. UNCHANGED <<issued, usable, over, at, held, isActive, astray, consents, upsets>>
  BY DEF remove, tokensOut, steps
<1>3. row' \in ConnectionRow /\ row'.pair = row.pair /\ row'.deleted
  BY <1>1 DEF remove, TokenTypeOK, ConnectionRow
<1>4. TokenTypeOK' /\ row'.pair \in 0..issued'
  BY <1>1, <1>2, <1>3 DEF TokenInv, TokenTypeOK, ConnectionRow
<1>5. NewPairsAreFresh' /\ PairIsUsable'
  BY <1>2, <1>3 DEF TokenInv, NewPairsAreFresh, PairIsUsable
<1>6. PairsAreCounted'
  BY <1>2 DEF TokenInv, PairsAreCounted, Exchanging
<1>7. QED
  BY <1>4, <1>5, <1>6 DEF TokenInv

\* An access token runs out.
LEMMA RunOutStep ==
  ASSUME TokenInv, NEW k \in Pairs, RunOut(k)
  PROVE  TokenInv'
<1>1. TokenTypeOK
  BY DEF TokenInv
<1>2. UNCHANGED <<row, issued, usable, at, held, isActive, astray, consents, upsets>>
  BY DEF RunOut, tokensOut, steps
<1>3. over' = over \cup {k} /\ k \in 0..issued /\ k \notin over /\ Cardinality(over) < MaxExpiries
  BY DEF RunOut
<1>4. TokenTypeOK' /\ row'.pair \in 0..issued'
  BY <1>1, <1>2, <1>3 DEF TokenInv, TokenTypeOK
<1>5. NewPairsAreFresh' /\ PairIsUsable'
  BY <1>2 DEF TokenInv, NewPairsAreFresh, PairIsUsable
<1>6. IsFiniteSet(over') /\ Cardinality(over') <= MaxExpiries
  <2>1. IsFiniteSet(over) /\ Cardinality(over) \in Nat
    BY FS_CardinalityType DEF TokenInv, PairsAreCounted
  <2>2. IsFiniteSet(over') /\ Cardinality(over') = Cardinality(over) + 1
    BY <1>3, <2>1, FS_AddElement
  <2>3. QED
    BY <1>1, <1>3, <2>1, <2>2, Numbers
<1>7. Exchanging' = Exchanging
  BY <1>2 DEF Exchanging
<1>8. PairsAreCounted'
  BY <1>2, <1>3, <1>6, <1>7 DEF TokenInv, PairsAreCounted
<1>9. QED
  BY <1>4, <1>5, <1>8 DEF TokenInv

\* The process dies, and what it held is lost.
LEMMA TokenCrashStep ==
  ASSUME TokenInv, TokenCrash
  PROVE  TokenInv'
<1>1. TokenTypeOK
  BY DEF TokenInv
<1>2. UNCHANGED <<row, issued, usable, over, consents>>
  BY DEF TokenCrash, tokensOut
<1>3. \A p \in Procs : at'[p] = "idle"
  BY DEF TokenCrash
<1>4. at' \in [Procs -> Spots]
  BY DEF TokenCrash, Spots
<1>5. held' \in [Procs -> 0..issued']
  <2>1. 0 \in 0..issued'
    BY <1>1, <1>2, Numbers
  <2>2. QED
    BY <2>1 DEF TokenCrash
<1>6. upsets' \in 0..MaxLosses /\ astray' \in BOOLEAN /\ isActive' \in [Panels -> BOOLEAN]
  BY <1>1, ConnectionTokensAssumption DEF TokenCrash, Upset, TokenTypeOK
<1>7. TokenTypeOK' /\ row'.pair \in 0..issued'
  BY <1>1, <1>2, <1>4, <1>5, <1>6 DEF TokenInv, TokenTypeOK, Spots
<1>8. NewPairsAreFresh'
  BY <1>3 DEF NewPairsAreFresh, Holding
<1>9. PairIsUsable'
  BY <1>2 DEF TokenInv, PairIsUsable, TokenCrash, At, Procs
<1>10. PairsAreCounted'
  <2>1. Exchanging' = {}
    BY <1>3 DEF Exchanging, Procs
  <2>2. IsFiniteSet(Exchanging') /\ Cardinality(Exchanging') = 0
    BY <2>1, FS_EmptySet
  <2>3. Cardinality(Exchanging) \in Nat /\ Cardinality(usable) \in Nat
    BY <1>1, Numbers, CountPairs, FS_CardinalityType DEF TokenInv, PairsAreCounted, TokenTypeOK
  <2>4. Cardinality(usable') + Cardinality(Exchanging') <= consents' + 1
    BY <1>1, <1>2, <2>2, <2>3, Numbers DEF TokenInv, PairsAreCounted
  <2>5. QED
    BY <1>2, <1>3, <2>2, <2>4 DEF TokenInv, PairsAreCounted
<1>11. QED
  BY <1>7, <1>8, <1>9, <1>10 DEF TokenInv

\* The invariant holds at the start.
LEMMA TokenInvInit == TokenInit => TokenInv
<1> SUFFICES ASSUME TokenInit PROVE TokenInv
  OBVIOUS
<1>1. 0 \in Pairs /\ 0 \in 0..0 /\ 0 \in 0..MaxConsents /\ 0 \in 0..MaxLosses
  BY ConnectionTokensAssumption DEF Pairs
<1>2. TokenTypeOK /\ row.pair \in 0..issued
  BY <1>1 DEF TokenInit, TokenTypeOK
<1>3. NewPairsAreFresh /\ PairIsUsable
  BY DEF TokenInit, NewPairsAreFresh, Holding, PairIsUsable
<1>4. PairsAreCounted
  <2>1. Exchanging = {}
    BY DEF TokenInit, Exchanging, Procs
  <2>2. IsFiniteSet({}) /\ Cardinality({}) = 0 /\ IsFiniteSet({0}) /\ Cardinality({0}) = 1
    BY FS_EmptySet, FS_Singleton
  <2>3. (0..0) \ {0} = {}
    OBVIOUS
  <2>4. QED
    BY <2>1, <2>2, <2>3, ConnectionTokensAssumption DEF TokenInit, PairsAreCounted
<1>5. QED
  BY <1>2, <1>3, <1>4 DEF TokenInv

\* Every step keeps it.
LEMMA TokenInvStep == TokenInv /\ [TokenNext]_tokenVars => TokenInv'
<1> SUFFICES ASSUME TokenInv, [TokenNext]_tokenVars PROVE TokenInv'
  OBVIOUS
<1>1. CASE UNCHANGED tokenVars
  <2>1. TokenTypeOK' /\ row'.pair \in 0..issued'
    BY <1>1 DEF tokenVars, TokenInv, TokenTypeOK
  <2>2. (NewPairsAreFresh /\ PairIsUsable /\ PairsAreCounted)'
    BY <1>1 DEF tokenVars, TokenInv, NewPairsAreFresh, PairIsUsable, PairsAreCounted, Exchanging
  <2>3. QED
    BY <2>1, <2>2 DEF TokenInv
<1>2. ASSUME NEW p \in Refreshers, ReadCredentials(p) \/ UseCredentials(p) \/ RefreshStep(p)
      PROVE  TokenInv'
  <2>1. CASE UseCredentials(p)
    BY <2>1, TakesCredentials DEF UseCredentials, At, Procs, tokensOut
  <2>2. CASE getAccessToken(p)
    BY <2>2, TradesStep DEF Procs
  <2>3. QED
    BY <1>2, <2>1, <2>2, ReadStep, RefreshStepInv, PersistStep DEF RefreshStep
<1>3. ASSUME NEW p \in Panels,
             \/ completeOAuthCallback(p) \/ Exchange(p) \/ WriteConsent(p) \/ update(p)
             \/ WriteEdit(p) \/ testConnection(p) \/ getAccessToken(p)
      PROVE  TokenInv'
  <2>1. CASE testConnection(p)
    BY <2>1, TakesCredentials DEF testConnection, At, Procs, tokensOut
  <2>2. CASE getAccessToken(p)
    BY <2>2, TradesStep DEF Procs
  <2>3. QED
    BY <1>3, <2>1, <2>2, AskStep, ExchangeStep, ConsentStep, EditStep
<1>4. QED
  BY <1>1, <1>2, <1>3, RemoveStep, RunOutStep, TokenCrashStep DEF TokenNext

\* The invariant of the tokens holds in every reachable state.
THEOREM TokensInductive == TokenSpec => []TokenInv
<1>1. QED
  BY TokenInvInit, TokenInvStep, PTL DEF TokenSpec

\* The column keeps a refresh token the marketplace takes, however many refreshers, consents and
\* edits meet, unless a new pair was lost after the trade, an adapter traded the column's pair
\* itself, or an edit wrote an older pair back.
THEOREM TokenNotLost == TokenSpec => []TokenKept
<1>1. TokenInv => TokenKept
  BY DEF TokenInv, TokenKept, PairIsUsable, At
<1>2. QED
  BY <1>1, TokensInductive, PTL
============================================================================
