----------------------- MODULE WebhookDeliveryProofs -----------------------
(* Proofs about WebhookDelivery, for every set of deliveries and every limit. *)
EXTENDS WebhookDelivery, FiniteSetTheorems, TLAPS

\* However many jobs there may be, only finitely many have been started.
Started == {j \in Jobs : pc[j] # "idle"}
FinitelyMany == IsFiniteSet(Started)

\* A job that is not over may be tried once more.
AttemptsLeft == \A j \in Jobs : pc[j] \notin Over => made[j] < Attempts

\* A result is held only from the answer to the count, an error only from its catch on.
ResultAtHand ==
  \A j \in Jobs :
    /\ own[j].ok => pc[j] \in {"record", "count"}
    /\ own[j].caught => pc[j] \in {"rescue", "count", "disable"}

\* A job that got past create has a row, or had one.
RowIsMade ==
  \A j \in Jobs : pc[j] \notin {"idle", "create", "dropped"} => status[Row(j)] # "none"

\* Rows go with their endpoint, and only with it.
GoneWithEndpoint ==
  \A d \in Deliveries :
    /\ status[d] = "gone" => ~endpoint.exists
    /\ ~endpoint.exists => status[d] \in {"none", "gone"}

\* Whoever opened a row last has not written its outcome yet.
StillToWrite == {"add", "waiting", "read", "begin", "post", "record", "rescue"}
OpenHasWriter ==
  faults = 0 => \A d \in Deliveries : status[d] \in {"PENDING", "RETRYING"} =>
    \E j \in Jobs : Row(j) = d /\ pc[j] \in StillToWrite

\* A job whose answer has arrived is past posting for good: it records the answer, it is
\* over, or its endpoint is deleted and no attempt gets as far as the post again.
Settled(j) ==
  \/ pc[j] \in {"record", "count"} /\ own[j].ok
  \/ pc[j] \in Over
  \/ ~endpoint.exists /\ pc[j] \in {"waiting", "read", "rescue"}
AcceptedIsSettled ==
  \A j \in Jobs : accepted[j] <= faults \/ (accepted[j] = 1 + faults /\ Settled(j))

Sound == TypeOK /\ FinitelyMany /\ AttemptsLeft
IInv ==
  /\ Sound
  /\ ResultAtHand
  /\ RowIsMade
  /\ GoneWithEndpoint
  /\ OpenHasWriter
  /\ AcceptedIsSettled

----------------------------------------------------------------------------
(* What the shared ends of the actions do to the job that takes them. *)

Place == {"idle", "waiting"} \cup InRequest \cup InWorker \cup Over
Own == [usable : BOOLEAN, ok : BOOLEAN, caught : BOOLEAN]
JobTypes ==
  /\ pc \in [Jobs -> Place]
  /\ made \in [Jobs -> 0..Attempts]
  /\ own \in [Jobs -> Own]
Endpoint == [exists : BOOLEAN, isActive : BOOLEAN, status : {"ACTIVE", "DISABLED"}, failures : Nat]
DataTypes ==
  /\ endpoint \in Endpoint
  /\ status \in [Deliveries -> DeliveryStatus \cup {"none", "gone"}]
  /\ accepted \in [Jobs -> Nat]
  /\ edits \in Nat /\ faults \in Nat /\ edits + faults <= MaxUpsets
OthersKeep(j) ==
  \A i \in Jobs \ {j} : pc'[i] = pc[i] /\ own'[i] = own[i] /\ made'[i] = made[i]

\* FailAttempt: the job waits for its next attempt, or has failed for good.
LEMMA AttemptFails ==
  ASSUME TypeOK, AttemptsLeft, NEW j \in Jobs, pc[j] \notin Over, FailAttempt(j)
  PROVE  /\ JobTypes' /\ AttemptsLeft' /\ OthersKeep(j)
         /\ own'[j] = NoOwn
         /\ pc'[j] \in {"waiting", "failed"}
         /\ IsTest(j) => pc'[j] = "failed"
<1> USE WebhookDeliveryAssumption DEF TypeOK, JobTypes, Place, Over, NoOwn, Own, OthersKeep, AttemptsLeft, Goto
<1>1. CASE IsTest(j)
  BY <1>1 DEF FailAttempt
<1>2. CASE ~IsTest(j)
  <2>1. made[j] + 1 \in 0..Attempts
    OBVIOUS
  <2>2. made' = [made EXCEPT ![j] = @ + 1] /\ made' \in [Jobs -> 0..Attempts]
    BY <1>2, <2>1 DEF FailAttempt
  <2>3. QED
    BY <1>2, <2>2 DEF FailAttempt
<1>3. QED
  BY <1>1, <1>2

\* Return: a delivery that was taken is completed, any other attempt has failed.
LEMMA AttemptReturns ==
  ASSUME TypeOK, AttemptsLeft, NEW j \in Jobs, pc[j] \notin Over, Return(j)
  PROVE  /\ JobTypes' /\ AttemptsLeft' /\ OthersKeep(j)
         /\ own'[j] = NoOwn
         /\ pc'[j] \in {"completed", "waiting", "failed"}
         /\ IsTest(j) => pc'[j] \in Over
         /\ own[j].ok => pc'[j] = "completed"
<1>1. CASE own[j].ok
  <2>1. pc' = [pc EXCEPT ![j] = "completed"] /\ made' = made /\ own' = [own EXCEPT ![j] = NoOwn]
    BY <1>1 DEF Return, Goto
  <2>2. JobTypes'
    BY <2>1 DEF TypeOK, JobTypes, Place, Over, NoOwn, Own
  <2>3. QED
    BY <2>1, <2>2 DEF TypeOK, Over, OthersKeep, AttemptsLeft
<1>2. CASE ~own[j].ok
  BY <1>2, AttemptFails DEF Return, Over
<1>3. QED
  BY <1>1, <1>2

\* ThrowInTry: the catch takes over, or the attempt has failed.
LEMMA AttemptThrows ==
  ASSUME TypeOK, AttemptsLeft, NEW j \in Jobs, pc[j] \notin Over, ThrowInTry(j)
  PROVE  /\ JobTypes' /\ AttemptsLeft' /\ OthersKeep(j)
         /\ ~own'[j].ok
         /\ pc'[j] \in {"waiting", "failed", "rescue"}
         /\ IsTest(j) => pc'[j] # "waiting"
         /\ ~own[j].caught => pc'[j] = "rescue"
         /\ own'[j].caught => pc'[j] = "rescue"
<1>1. CASE own[j].caught
  BY <1>1, AttemptFails DEF ThrowInTry, NoOwn
<1>2. CASE ~own[j].caught
  BY <1>2 DEF ThrowInTry, Goto, TypeOK, JobTypes, Own, Place, Over, InWorker, OthersKeep, AttemptsLeft
<1>3. QED
  BY <1>1, <1>2

\* Goto: only the job's own place and memory change.
LEMMA JobGoes ==
  ASSUME TypeOK, AttemptsLeft, NEW j \in Jobs, pc[j] \notin Over, NEW l \in Place, NEW r \in Own,
         Goto(j, l), own' = [own EXCEPT ![j] = r]
  PROVE  JobTypes' /\ AttemptsLeft' /\ OthersKeep(j) /\ pc'[j] = l /\ own'[j] = r
<1> USE DEF Goto
<1>1. JobTypes'
  BY DEF TypeOK, JobTypes, Place, Own
<1>2. pc'[j] = l /\ own'[j] = r /\ OthersKeep(j)
  BY DEF TypeOK, OthersKeep
<1>3. AttemptsLeft'
  BY DEF TypeOK, AttemptsLeft
<1>4. QED
  BY <1>1, <1>2, <1>3

\* The same for a job that remembers what it did.
LEMMA JobGoesOn ==
  ASSUME TypeOK, AttemptsLeft, NEW j \in Jobs, pc[j] \notin Over, NEW l \in Place,
         Goto(j, l), UNCHANGED own
  PROVE  JobTypes' /\ AttemptsLeft' /\ OthersKeep(j) /\ pc'[j] = l /\ own'[j] = own[j]
<1>1. own[j] \in Own /\ own' = [own EXCEPT ![j] = own[j]]
  BY DEF TypeOK, Own
<1>2. QED
  BY <1>1, JobGoes

\* A step of one job that does not start an attempt leaves room in the workers, and
\* finitely many jobs started.
LEMMA RoomIsLeft ==
  ASSUME Sound, NEW j \in Jobs, OthersKeep(j), j \in Running' => j \in Running
  PROVE  FinitelyMany' /\ Cardinality(Running') <= Workers
<1>1. IsFiniteSet(Started \cup {j}) /\ Started' \subseteq Started \cup {j}
  BY FS_AddElement DEF Sound, FinitelyMany, Started, OthersKeep
<1>2. Running' \subseteq Running /\ Running \subseteq Started
  BY DEF Running, Started, InWorker, OthersKeep
<1>3. IsFiniteSet(Started') /\ IsFiniteSet(Running)
  BY <1>1, <1>2, FS_Subset DEF Sound, FinitelyMany
<1>4. Cardinality(Running') <= Cardinality(Running) /\ Cardinality(Running') \in Nat /\ Cardinality(Running) \in Nat
  BY <1>2, <1>3, FS_Subset, FS_CardinalityType
<1>5. QED
  BY <1>3, <1>4, WebhookDeliveryAssumption DEF FinitelyMany, Sound, TypeOK

\* What an action of one job has to show for the types.
LEMMA SoundAfter ==
  ASSUME Sound, NEW j \in Jobs, JobTypes', AttemptsLeft', OthersKeep(j),
         j \in Running' => j \in Running, DataTypes'
  PROVE  Sound'
<1>1. FinitelyMany' /\ Cardinality(Running') <= Workers
  BY RoomIsLeft
<1>2. TypeOK'
  BY <1>1 DEF TypeOK, JobTypes, DataTypes, Place, Own, Endpoint
<1>3. QED
  BY <1>1, <1>2 DEF Sound

\* The types, and what they rest on, are kept by every step.
LEMMA SoundStep == Sound /\ [Next]_vars => Sound'
<1> SUFFICES ASSUME Sound, [Next]_vars PROVE Sound'
  OBVIOUS
<1>0. /\ TypeOK /\ FinitelyMany /\ AttemptsLeft /\ DataTypes /\ JobTypes
      /\ \A j \in Jobs : Row(j) \in Deliveries
      /\ NoOwn \in Own
  BY WebhookDeliveryAssumption
     DEF Sound, TypeOK, DataTypes, JobTypes, Place, Own, Endpoint, Jobs, Row, Deliveries, NoOwn
<1> USE DEF Place, InRequest, InWorker, Over
<1>1. ASSUME NEW j \in Jobs, dispatch(j) PROVE Sound'
  <2>1. DataTypes'
    BY <1>0, <1>1 DEF dispatch, DataTypes, World
  <2>2. JobTypes' /\ AttemptsLeft' /\ OthersKeep(j) /\ pc'[j] = "create"
    BY <1>0, <1>1, JobGoesOn DEF dispatch
  <2>3. QED
    BY <2>1, <2>2, SoundAfter DEF Running
<1>2. ASSUME NEW j \in Jobs, testEndpoint(j) PROVE Sound'
  <2>1. DataTypes'
    BY <1>0, <1>2 DEF testEndpoint, DataTypes, World
  <2>2. JobTypes' /\ AttemptsLeft' /\ OthersKeep(j) /\ pc'[j] = "create"
    <3>1. Usable \in BOOLEAN /\ [own[j] EXCEPT !.usable = Usable] \in Own
      BY <1>0 DEF Usable, DataTypes, Endpoint, JobTypes, Own
    <3>2. own' = [own EXCEPT ![j] = [own[j] EXCEPT !.usable = Usable]]
      BY <1>2 DEF testEndpoint
    <3>3. QED
      BY <1>0, <1>2, <3>1, <3>2, JobGoes DEF testEndpoint
  <2>3. QED
    BY <2>1, <2>2, SoundAfter DEF Running
<1>3. ASSUME NEW j \in Jobs, CreateRow(j) PROVE Sound'
  <2>1. DataTypes'
    BY <1>0, <1>3 DEF CreateRow, DataTypes, Write, World, DeliveryStatus, Endpoint
  <2>2. JobTypes' /\ AttemptsLeft' /\ OthersKeep(j) /\ pc'[j] \in {"begin", "add", "dropped"} /\ (pc'[j] = "begin" => IsTest(j))
    BY <1>0, <1>3, JobGoesOn DEF CreateRow
  <2>3. QED
    BY <2>1, <2>2, SoundAfter, <1>3 DEF Running, CreateRow
<1>4. ASSUME NEW j \in Jobs, redeliver(j) PROVE Sound'
  <2>1. DataTypes'
    BY <1>0, <1>4 DEF redeliver, DataTypes, World
  <2>2. JobTypes' /\ AttemptsLeft' /\ OthersKeep(j) /\ pc'[j] = "reset"
    BY <1>0, <1>4, JobGoesOn DEF redeliver
  <2>3. QED
    BY <2>1, <2>2, SoundAfter, <1>4 DEF Running, redeliver
<1>5. ASSUME NEW j \in Jobs, ResetRow(j) PROVE Sound'
  <2>1. DataTypes'
    BY <1>0, <1>5 DEF ResetRow, DataTypes, Write, World, DeliveryStatus
  <2>2. JobTypes' /\ AttemptsLeft' /\ OthersKeep(j) /\ pc'[j] \in {"add", "dropped"}
    BY <1>0, <1>5, JobGoesOn DEF ResetRow
  <2>3. QED
    BY <2>1, <2>2, SoundAfter, <1>5 DEF Running, ResetRow
<1>6. ASSUME NEW j \in Jobs, AddJob(j) PROVE Sound'
  <2>1. DataTypes'
    BY <1>0, <1>6 DEF AddJob, DataTypes, World
  <2>2. JobTypes' /\ AttemptsLeft' /\ OthersKeep(j) /\ pc'[j] = "waiting"
    BY <1>0, <1>6, JobGoesOn DEF AddJob
  <2>3. QED
    BY <2>1, <2>2, SoundAfter, <1>6 DEF Running, AddJob
<1>7. ASSUME NEW j \in Jobs, Take(j) PROVE Sound'
  <2>1. DataTypes'
    BY <1>0, <1>7 DEF Take, DataTypes, World
  <2>2. JobTypes' /\ AttemptsLeft' /\ OthersKeep(j) /\ pc'[j] = "read"
    BY <1>0, <1>7, JobGoesOn DEF Take
  <2>3. Started' = Started /\ Running' \subseteq Running \cup {j} /\ Running \subseteq Started
    BY <1>7, <2>2 DEF Take, Started, Running, OthersKeep
  <2>4. IsFiniteSet(Running) /\ IsFiniteSet(Running \cup {j}) /\ Cardinality(Running \cup {j}) <= Cardinality(Running) + 1
    BY <1>0, <2>3, FS_Subset, FS_AddElement, FS_CardinalityType DEF FinitelyMany
  <2>5. Cardinality(Running') <= Cardinality(Running \cup {j})
    BY <2>3, <2>4, FS_Subset
  <2>6. Cardinality(Running') <= Workers
    <3>1. Cardinality(Running) \in Nat /\ Cardinality(Running \cup {j}) \in Nat /\ Cardinality(Running') \in Nat
      BY <2>3, <2>4, FS_CardinalityType, FS_Subset
    <3>2. Cardinality(Running) < Workers
      BY <1>7 DEF Take
    <3>3. QED
      BY <3>1, <3>2, <2>4, <2>5, WebhookDeliveryAssumption
  <2>7. TypeOK'
    BY <2>1, <2>2, <2>6 DEF TypeOK, JobTypes, DataTypes, Own, Endpoint
  <2>8. QED
    BY <1>0, <2>2, <2>3, <2>7 DEF Sound, FinitelyMany
<1>8. ASSUME NEW j \in Jobs, ReadEndpoint(j) PROVE Sound'
  <2>1. DataTypes'
    BY <1>0, <1>8 DEF ReadEndpoint, DataTypes, World
  <2>2. JobTypes' /\ AttemptsLeft' /\ OthersKeep(j) /\ pc'[j] \in {"begin", "waiting", "failed"}
    <3>1. CASE endpoint.exists
      <4>1. Usable \in BOOLEAN /\ [own[j] EXCEPT !.usable = Usable] \in Own
        BY <1>0 DEF Usable, DataTypes, Endpoint, JobTypes, Own
      <4>2. own' = [own EXCEPT ![j] = [own[j] EXCEPT !.usable = Usable]]
        BY <1>8, <3>1 DEF ReadEndpoint
      <4>3. QED
        BY <1>0, <1>8, <3>1, <4>1, <4>2, JobGoes DEF ReadEndpoint
    <3>2. CASE ~endpoint.exists
      BY <1>0, <1>8, <3>2, AttemptFails DEF ReadEndpoint
    <3>3. QED
      BY <3>1, <3>2
  <2>3. QED
    BY <2>1, <2>2, SoundAfter, <1>8 DEF Running, ReadEndpoint
<1>9. ASSUME NEW j \in Jobs, Begin(j) PROVE Sound'
  <2>1. DataTypes'
    BY <1>0, <1>9 DEF Begin, DataTypes, Write, World, DeliveryStatus
  <2>2. JobTypes' /\ AttemptsLeft' /\ OthersKeep(j) /\ pc'[j] \in {"post", "waiting", "failed"}
    BY <1>0, <1>9, JobGoesOn, AttemptFails DEF Begin
  <2>3. QED
    BY <2>1, <2>2, SoundAfter, <1>9 DEF Running, Begin
<1>10. ASSUME NEW j \in Jobs, Post(j) PROVE Sound'
  <2>1. DataTypes'
    BY <1>0, <1>10 DEF Post, DataTypes
  <2>2. JobTypes' /\ AttemptsLeft' /\ OthersKeep(j) /\ pc'[j] \in {"record", "rescue", "waiting", "failed"}
    <3>1. CASE own' = [own EXCEPT ![j].ok = TRUE] /\ Goto(j, "record")
      <4>1. [own[j] EXCEPT !.ok = TRUE] \in Own /\ own' = [own EXCEPT ![j] = [own[j] EXCEPT !.ok = TRUE]]
        BY <1>0, <3>1 DEF JobTypes, Own
      <4>2. QED
        BY <1>0, <1>10, <3>1, <4>1, JobGoes DEF Post
    <3>2. CASE own' = own /\ Goto(j, "record")
      BY <1>0, <1>10, <3>2, JobGoesOn DEF Post
    <3>3. CASE ThrowInTry(j)
      BY <1>0, <1>10, <3>3, AttemptThrows DEF Post
    <3>4. QED
      BY <1>10, <3>1, <3>2, <3>3 DEF Post
  <2>3. QED
    BY <2>1, <2>2, SoundAfter, <1>10 DEF Running, Post
<1>11. ASSUME NEW j \in Jobs, Record(j) PROVE Sound'
  <2>1. DataTypes'
    BY <1>0, <1>11 DEF Record, DataTypes, Write, World, DeliveryStatus
  <2>2. JobTypes' /\ AttemptsLeft' /\ OthersKeep(j) /\ pc'[j] \in {"count", "rescue", "waiting", "failed"}
    BY <1>0, <1>11, JobGoesOn, AttemptThrows DEF Record
  <2>3. QED
    BY <2>1, <2>2, SoundAfter, <1>11 DEF Running, Record
<1>12. ASSUME NEW j \in Jobs, Rescue(j) PROVE Sound'
  <2>1. DataTypes'
    BY <1>0, <1>12 DEF Rescue, DataTypes, Write, World, DeliveryStatus
  <2>2. JobTypes' /\ AttemptsLeft' /\ OthersKeep(j) /\ pc'[j] \in {"count", "waiting", "failed"}
    BY <1>0, <1>12, JobGoesOn, AttemptFails DEF Rescue
  <2>3. QED
    BY <2>1, <2>2, SoundAfter, <1>12 DEF Running, Rescue
<1>13. ASSUME NEW j \in Jobs, recordDeliveryOutcome(j) PROVE Sound'
  <2>1. DataTypes'
    BY <1>0, <1>13 DEF recordDeliveryOutcome, DataTypes, Endpoint, World
  <2>2. JobTypes' /\ AttemptsLeft' /\ OthersKeep(j) /\ pc'[j] \in {"disable", "completed", "rescue", "waiting", "failed"}
    <3>1. ThrowInTry(j) \/ Return(j) \/ (Goto(j, "disable") /\ UNCHANGED own)
      BY <1>13 DEF recordDeliveryOutcome
    <3>2. pc[j] \notin Over
      BY <1>13 DEF recordDeliveryOutcome
    <3>3. QED
      BY <1>0, <3>1, <3>2, JobGoesOn, AttemptThrows, AttemptReturns
  <2>3. QED
    BY <2>1, <2>2, SoundAfter, <1>13 DEF Running, recordDeliveryOutcome
<1>14. ASSUME NEW j \in Jobs, disableEndpoint(j) PROVE Sound'
  <2>1. DataTypes'
    BY <1>0, <1>14 DEF disableEndpoint, Disabled, DataTypes, Endpoint, World
  <2>2. JobTypes' /\ AttemptsLeft' /\ OthersKeep(j) /\ pc'[j] \in {"completed", "rescue", "waiting", "failed"}
    <3>1. (ThrowInTry(j) \/ Return(j)) /\ pc[j] \notin Over
      BY <1>14 DEF disableEndpoint
    <3>2. QED
      BY <1>0, <3>1, AttemptThrows, AttemptReturns
  <2>3. QED
    BY <2>1, <2>2, SoundAfter, <1>14 DEF Running, disableEndpoint
<1>15. ASSUME NEW j \in Jobs, StatementFails(j) PROVE Sound'
  <2>1. DataTypes'
    <3>1. endpoint' \in Endpoint
      BY <1>0, <1>15 DEF StatementFails, Disabled, DataTypes, Endpoint
    <3>2. QED
      BY <1>0, <1>15, <3>1, WebhookDeliveryAssumption DEF StatementFails, DataTypes
  <2>2. /\ JobTypes' /\ AttemptsLeft' /\ OthersKeep(j)
        /\ pc'[j] \in {"rescue", "waiting", "failed", "dropped"}
        /\ pc'[j] = "rescue" => pc[j] \in InWorker
    BY <1>0, <1>15, JobGoes, AttemptThrows, AttemptFails DEF StatementFails
  <2>3. QED
    BY <2>1, <2>2, SoundAfter DEF Running
<1>16. ASSUME Edit PROVE Sound'
  <2>1. DataTypes'
    <3>1. endpoint' \in Endpoint
      <4>1. CASE SwitchOn
        BY <1>0, <4>1 DEF SwitchOn, DataTypes, Endpoint
      <4>2. CASE SwitchOff
        BY <1>0, <4>2 DEF SwitchOff, DataTypes, Endpoint
      <4>3. CASE Delete
        BY <1>0, <4>3 DEF Delete, DataTypes, Endpoint
      <4>4. QED
        BY <1>16, <4>1, <4>2, <4>3 DEF Edit
    <3>2. status' \in [Deliveries -> DeliveryStatus \cup {"none", "gone"}]
      BY <1>0, <1>16 DEF Edit, SwitchOn, SwitchOff, Delete, DataTypes
    <3>3. QED
      BY <1>0, <1>16, <3>1, <3>2, WebhookDeliveryAssumption DEF Edit, DataTypes
  <2>2. UNCHANGED <<pc, made, own>>
    BY <1>16 DEF Edit
  <2>3. QED
    BY <1>0, <2>1, <2>2 DEF Sound, TypeOK, DataTypes, Endpoint, FinitelyMany, Started, AttemptsLeft, Running
<1>17. ASSUME Crash PROVE Sound'
  <2>1. DataTypes'
    BY <1>0, <1>17, WebhookDeliveryAssumption DEF Crash, DataTypes
  <2>2. JobTypes' /\ AttemptsLeft'
    BY <1>0, <1>17 DEF Crash, JobTypes, Running, AttemptsLeft
  <2>3. Running' = {} /\ Started' = Started
    BY <1>0, <1>17 DEF Crash, Running, Started, JobTypes
  <2>4. QED
    BY <1>0, <2>1, <2>2, <2>3, FS_EmptySet, WebhookDeliveryAssumption
       DEF Sound, TypeOK, DataTypes, JobTypes, Own, Endpoint, FinitelyMany
<1>18. CASE UNCHANGED vars
  BY <1>0, <1>18 DEF vars, Sound, TypeOK, FinitelyMany, Started, AttemptsLeft, Running
<1>19. QED
  BY <1>1, <1>2, <1>3, <1>4, <1>5, <1>6, <1>7, <1>8, <1>9, <1>10, <1>11, <1>12, <1>13, <1>14,
     <1>15, <1>16, <1>17, <1>18 DEF Next, Ask, Step

\* A row is made once, and goes only with its endpoint.
LEMMA RowsStep ==
  Sound /\ RowIsMade /\ GoneWithEndpoint /\ [Next]_vars => RowIsMade' /\ GoneWithEndpoint'
<1> SUFFICES ASSUME Sound, RowIsMade, GoneWithEndpoint, [Next]_vars
             PROVE  RowIsMade' /\ GoneWithEndpoint'
  OBVIOUS
<1>0. TypeOK /\ AttemptsLeft /\ \A j \in Jobs : Row(j) \in Deliveries
  BY WebhookDeliveryAssumption DEF Sound, Jobs, Row, Deliveries
<1>a. ASSUME NEW j \in Jobs, OthersKeep(j), NEW s \in DeliveryStatus,
             pc[j] \notin {"idle", "dropped"}, pc'[j] # "dropped",
             RowExists(j) \/ (endpoint.exists /\ pc[j] = "create"), pc[j] = "create" => endpoint.exists,
             Write(j, s), endpoint'.exists = endpoint.exists
      PROVE  RowIsMade' /\ GoneWithEndpoint'
  BY <1>0, <1>a DEF TypeOK, OthersKeep, RowExists, Write, RowIsMade, GoneWithEndpoint, DeliveryStatus
<1>b. ASSUME NEW j \in Jobs, OthersKeep(j), UNCHANGED status,
             status[Row(j)] = "none" => pc'[j] \in {"create", "dropped"},
             endpoint'.exists = endpoint.exists
      PROVE  RowIsMade' /\ GoneWithEndpoint'
  BY <1>b DEF OthersKeep, RowIsMade, GoneWithEndpoint
<1> USE DEF Place, InRequest, InWorker, Over
<1>1. ASSUME NEW j \in Jobs, dispatch(j) PROVE RowIsMade' /\ GoneWithEndpoint'
  BY <1>0, <1>1, <1>b, JobGoesOn DEF dispatch
<1>2. ASSUME NEW j \in Jobs, testEndpoint(j) PROVE RowIsMade' /\ GoneWithEndpoint'
  BY <1>0, <1>2, <1>b DEF testEndpoint, Goto, TypeOK, OthersKeep
<1>3. ASSUME NEW j \in Jobs, CreateRow(j) PROVE RowIsMade' /\ GoneWithEndpoint'
  BY <1>0, <1>3, <1>a, <1>b, JobGoesOn DEF CreateRow, DeliveryStatus
<1>4. ASSUME NEW j \in Jobs, redeliver(j) PROVE RowIsMade' /\ GoneWithEndpoint'
  BY <1>0, <1>4, <1>b, JobGoesOn DEF redeliver
<1>5. ASSUME NEW j \in Jobs, ResetRow(j) PROVE RowIsMade' /\ GoneWithEndpoint'
  BY <1>0, <1>5, <1>a, <1>b, JobGoesOn DEF ResetRow, DeliveryStatus
<1>6. ASSUME NEW j \in Jobs, AddJob(j) \/ Take(j) PROVE RowIsMade' /\ GoneWithEndpoint'
  <2>1. OthersKeep(j) /\ UNCHANGED status /\ endpoint' = endpoint
    BY <1>0, <1>6, JobGoesOn DEF AddJob, Take
  <2>2. status[Row(j)] # "none"
    BY <1>6 DEF AddJob, Take, RowIsMade
  <2>3. QED
    BY <2>1, <2>2, <1>b
<1>7. ASSUME NEW j \in Jobs, ReadEndpoint(j) PROVE RowIsMade' /\ GoneWithEndpoint'
  <2>1. OthersKeep(j) /\ UNCHANGED status /\ endpoint' = endpoint
    BY <1>0, <1>7, AttemptFails DEF ReadEndpoint, Goto, TypeOK, OthersKeep
  <2>2. status[Row(j)] # "none"
    BY <1>7 DEF ReadEndpoint, RowIsMade
  <2>3. QED
    BY <2>1, <2>2, <1>b
<1>8. ASSUME NEW j \in Jobs, Begin(j) PROVE RowIsMade' /\ GoneWithEndpoint'
  <2>1. OthersKeep(j) /\ pc'[j] # "dropped" /\ endpoint' = endpoint
    BY <1>0, <1>8, JobGoesOn, AttemptFails DEF Begin
  <2>2. status[Row(j)] # "none" /\ pc[j] = "begin"
    BY <1>8 DEF Begin, RowIsMade
  <2>3. UNCHANGED status \/ (RowExists(j) /\ \E s \in DeliveryStatus : Write(j, s))
    BY <1>8 DEF Begin, DeliveryStatus
  <2>4. QED
    BY <2>1, <2>2, <2>3, <1>a, <1>b
<1>9. ASSUME NEW j \in Jobs, Post(j) PROVE RowIsMade' /\ GoneWithEndpoint'
  <2>1. OthersKeep(j) /\ UNCHANGED status /\ endpoint' = endpoint
    BY <1>0, <1>9, AttemptThrows DEF Post, Goto, TypeOK, OthersKeep
  <2>2. status[Row(j)] # "none"
    BY <1>9 DEF Post, RowIsMade
  <2>3. QED
    BY <2>1, <2>2, <1>b
<1>10. ASSUME NEW j \in Jobs, Record(j) \/ Rescue(j) PROVE RowIsMade' /\ GoneWithEndpoint'
  <2>1. OthersKeep(j) /\ pc'[j] # "dropped" /\ endpoint' = endpoint
    BY <1>0, <1>10, JobGoesOn, AttemptFails, AttemptThrows DEF Record, Rescue
  <2>2. status[Row(j)] # "none" /\ pc[j] \in {"record", "rescue"}
    BY <1>10 DEF Record, Rescue, RowIsMade
  <2>3. UNCHANGED status \/ (RowExists(j) /\ \E s \in DeliveryStatus : Write(j, s))
    BY <1>10 DEF Record, Rescue, DeliveryStatus
  <2>4. QED
    BY <2>1, <2>2, <2>3, <1>a, <1>b
<1>11. ASSUME NEW j \in Jobs, recordDeliveryOutcome(j) \/ disableEndpoint(j)
       PROVE  RowIsMade' /\ GoneWithEndpoint'
  <2>1. (ThrowInTry(j) \/ Return(j) \/ (Goto(j, "disable") /\ UNCHANGED own)) /\ pc[j] \in {"count", "disable"}
    BY <1>11 DEF recordDeliveryOutcome, disableEndpoint
  <2>2. OthersKeep(j)
    BY <1>0, <2>1, JobGoesOn, AttemptThrows, AttemptReturns
  <2>3. UNCHANGED status /\ endpoint'.exists = endpoint.exists
    BY <1>0, <1>11 DEF recordDeliveryOutcome, disableEndpoint, Disabled, TypeOK
  <2>4. status[Row(j)] # "none"
    BY <2>1 DEF RowIsMade
  <2>5. QED
    BY <2>2, <2>3, <2>4, <1>b
<1>12. ASSUME NEW j \in Jobs, StatementFails(j) PROVE RowIsMade' /\ GoneWithEndpoint'
  <2>1. OthersKeep(j) /\ (pc[j] \in InRequest => pc'[j] = "dropped") /\ pc[j] \in InRequest \cup InWorker
    BY <1>0, <1>12, AttemptFails, AttemptThrows DEF StatementFails, Goto, TypeOK, OthersKeep
  <2>2. UNCHANGED status /\ endpoint'.exists = endpoint.exists
    BY <1>0, <1>12 DEF StatementFails, Disabled, TypeOK
  <2>3. status[Row(j)] = "none" => pc'[j] = "dropped"
    BY <2>1 DEF RowIsMade
  <2>4. QED
    BY <2>1, <2>2, <2>3, <1>b
<1>13. ASSUME Edit PROVE RowIsMade' /\ GoneWithEndpoint'
  BY <1>0, <1>13 DEF Edit, SwitchOn, SwitchOff, Delete, TypeOK, RowIsMade, GoneWithEndpoint
<1>14. ASSUME Crash PROVE RowIsMade' /\ GoneWithEndpoint'
  BY <1>0, <1>14 DEF Crash, Running, TypeOK, RowIsMade, GoneWithEndpoint
<1>15. CASE UNCHANGED vars
  BY <1>15 DEF vars, RowIsMade, GoneWithEndpoint
<1>16. QED
  BY <1>1, <1>2, <1>3, <1>4, <1>5, <1>6, <1>7, <1>8, <1>9, <1>10, <1>11, <1>12, <1>13, <1>14,
     <1>15 DEF Next, Ask, Step

\* Results are forgotten with the attempt they belong to.
LEMMA HandStep == Sound /\ ResultAtHand /\ [Next]_vars => ResultAtHand'
<1> SUFFICES ASSUME Sound, ResultAtHand, [Next]_vars PROVE ResultAtHand'
  OBVIOUS
<1>0. TypeOK /\ AttemptsLeft /\ NoOwn \in Own
  BY DEF Sound, NoOwn, Own
<1>a. ASSUME NEW j \in Jobs, OthersKeep(j),
             own'[j].ok => pc'[j] \in {"record", "count"},
             own'[j].caught => pc'[j] \in {"rescue", "count", "disable"}
      PROVE  ResultAtHand'
  BY <1>a DEF OthersKeep, ResultAtHand
<1>b. \A j \in Jobs : /\ pc[j] \notin {"record", "count"} => ~own[j].ok
                      /\ pc[j] \notin {"rescue", "count", "disable"} => ~own[j].caught
  BY DEF ResultAtHand
<1> USE DEF Place, InRequest, InWorker, Over
<1>1. ASSUME NEW j \in Jobs, dispatch(j) \/ redeliver(j) \/ CreateRow(j) \/ ResetRow(j) \/ AddJob(j) \/ Take(j)
      PROVE  ResultAtHand'
  <2>1. OthersKeep(j) /\ own'[j] = own[j]
    BY <1>0, <1>1, JobGoesOn DEF dispatch, redeliver, CreateRow, ResetRow, AddJob, Take
  <2>2. ~own[j].ok /\ ~own[j].caught
    BY <1>1, <1>b DEF dispatch, redeliver, CreateRow, ResetRow, AddJob, Take
  <2>3. QED
    BY <2>1, <2>2, <1>a
<1>2. ASSUME NEW j \in Jobs, testEndpoint(j) \/ ReadEndpoint(j) PROVE ResultAtHand'
  <2>1. ~own[j].ok /\ ~own[j].caught /\ pc[j] \notin Over
    BY <1>2, <1>b DEF testEndpoint, ReadEndpoint
  <2>2. FailAttempt(j) \/ (own' = [own EXCEPT ![j].usable = Usable] /\ \E l \in Place : Goto(j, l))
    BY <1>2 DEF testEndpoint, ReadEndpoint
  <2>3. OthersKeep(j) /\ ~own'[j].ok /\ ~own'[j].caught
    BY <1>0, <2>1, <2>2, AttemptFails DEF Goto, TypeOK, OthersKeep, NoOwn
  <2>4. QED
    BY <2>3, <1>a
<1>3. ASSUME NEW j \in Jobs, Begin(j) PROVE ResultAtHand'
  <2>1. ~own[j].ok /\ ~own[j].caught
    BY <1>3, <1>b DEF Begin
  <2>2. OthersKeep(j) /\ own'[j] \in {own[j], NoOwn}
    BY <1>0, <1>3, JobGoesOn, AttemptFails DEF Begin
  <2>3. QED
    BY <2>1, <2>2, <1>a DEF NoOwn
<1>4. ASSUME NEW j \in Jobs, Post(j) PROVE ResultAtHand'
  <2>1. ~own[j].ok /\ ~own[j].caught /\ pc[j] = "post"
    BY <1>4, <1>b DEF Post
  <2>2. CASE ThrowInTry(j)
    BY <1>0, <2>1, <2>2, <1>a, AttemptThrows
  <2>3. CASE Goto(j, "record") /\ (own' = own \/ own' = [own EXCEPT ![j].ok = TRUE])
    BY <1>0, <2>1, <2>3, <1>a DEF Goto, TypeOK, OthersKeep
  <2>4. QED
    BY <1>4, <2>2, <2>3 DEF Post
<1>5. ASSUME NEW j \in Jobs, Record(j) \/ Rescue(j) PROVE ResultAtHand'
  <2>1. pc[j] \in {"record", "rescue"} /\ pc[j] \notin Over
    BY <1>5 DEF Record, Rescue
  <2>2. ThrowInTry(j) \/ FailAttempt(j) \/ (Goto(j, "count") /\ UNCHANGED own)
    BY <1>5 DEF Record, Rescue
  <2>3. OthersKeep(j) /\ (own'[j].ok => pc'[j] = "count") /\ (own'[j].caught => pc'[j] \in {"rescue", "count"})
    BY <1>0, <2>1, <2>2, AttemptThrows, AttemptFails, JobGoesOn DEF NoOwn
  <2>4. QED
    BY <2>3, <1>a
<1>6. ASSUME NEW j \in Jobs, recordDeliveryOutcome(j) \/ disableEndpoint(j) PROVE ResultAtHand'
  <2>1. pc[j] \in {"count", "disable"} /\ pc[j] \notin Over
    BY <1>6 DEF recordDeliveryOutcome, disableEndpoint
  <2>2. ThrowInTry(j) \/ Return(j) \/ (Goto(j, "disable") /\ UNCHANGED own /\ ~own[j].ok)
    BY <1>6 DEF recordDeliveryOutcome, disableEndpoint
  <2>3. OthersKeep(j) /\ ~own'[j].ok /\ (own'[j].caught => pc'[j] \in {"rescue", "disable"})
    BY <1>0, <2>1, <2>2, AttemptThrows, AttemptReturns, JobGoesOn DEF NoOwn
  <2>4. QED
    BY <2>3, <1>a
<1>7. ASSUME NEW j \in Jobs, StatementFails(j) PROVE ResultAtHand'
  <2>1. OthersKeep(j) /\ ~own'[j].ok /\ (own'[j].caught => pc'[j] = "rescue")
    BY <1>0, <1>7, AttemptFails, AttemptThrows DEF StatementFails, Goto, TypeOK, OthersKeep, NoOwn
  <2>2. QED
    BY <2>1, <1>a
<1>8. ASSUME Crash PROVE ResultAtHand'
  BY <1>8 DEF Crash, ResultAtHand, NoOwn
<1>9. CASE Edit \/ UNCHANGED vars
  BY <1>9 DEF Edit, vars, ResultAtHand
<1>10. QED
  BY <1>1, <1>2, <1>3, <1>4, <1>5, <1>6, <1>7, <1>8, <1>9 DEF Next, Ask, Step

\* A row is opened by a job that will write its outcome, and left by one that has.
LEMMA OpenStep ==
  Sound /\ ResultAtHand /\ RowIsMade /\ GoneWithEndpoint /\ OpenHasWriter /\ [Next]_vars
    => OpenHasWriter'
<1> SUFFICES ASSUME Sound, ResultAtHand, RowIsMade, GoneWithEndpoint, OpenHasWriter, [Next]_vars
             PROVE  OpenHasWriter'
  OBVIOUS
<1>0. TypeOK /\ AttemptsLeft /\ \A j \in Jobs : Row(j) \in Deliveries
  BY WebhookDeliveryAssumption DEF Sound, Jobs, Row, Deliveries
<1>a. ASSUME NEW j \in Jobs, OthersKeep(j), UNCHANGED <<status, faults>>,
             \/ pc[j] \notin StillToWrite
             \/ pc'[j] \in StillToWrite
             \/ status[Row(j)] \notin {"PENDING", "RETRYING"}
      PROVE  OpenHasWriter'
  BY <1>a DEF OthersKeep, OpenHasWriter
<1>b. ASSUME NEW j \in Jobs, OthersKeep(j), UNCHANGED faults, NEW s, Write(j, s),
             s \notin {"PENDING", "RETRYING"} \/ pc'[j] \in StillToWrite
      PROVE  OpenHasWriter'
  BY <1>0, <1>b DEF TypeOK, Write, OthersKeep, OpenHasWriter
<1> USE DEF Place, InRequest, InWorker, Over, StillToWrite
<1>1. ASSUME NEW j \in Jobs, dispatch(j) \/ redeliver(j) \/ AddJob(j) \/ Take(j) PROVE OpenHasWriter'
  <2>1. OthersKeep(j) /\ UNCHANGED <<status, faults>> /\ (pc[j] = "idle" \/ pc'[j] \in StillToWrite)
    BY <1>0, <1>1, JobGoesOn DEF dispatch, redeliver, AddJob, Take, World
  <2>2. QED
    BY <2>1, <1>a
<1>2. ASSUME NEW j \in Jobs, testEndpoint(j) PROVE OpenHasWriter'
  BY <1>0, <1>2, <1>a DEF testEndpoint, Goto, TypeOK, OthersKeep, World
<1>3. ASSUME NEW j \in Jobs, CreateRow(j) \/ ResetRow(j) PROVE OpenHasWriter'
  <2>1. CASE Write(j, "PENDING") /\ \E l \in {"begin", "add"} : Goto(j, l)
    BY <1>0, <1>3, <2>1, <1>b, JobGoesOn DEF CreateRow, ResetRow, World
  <2>2. CASE Goto(j, "dropped") /\ UNCHANGED status
    BY <1>0, <1>3, <2>2, <1>a, JobGoesOn DEF CreateRow, ResetRow, World
  <2>3. QED
    BY <1>3, <2>1, <2>2 DEF CreateRow, ResetRow
<1>4. ASSUME NEW j \in Jobs, ReadEndpoint(j) PROVE OpenHasWriter'
  <2>1. UNCHANGED <<status, faults>> /\ pc[j] = "read" /\ pc[j] \notin Over
    BY <1>4 DEF ReadEndpoint, World
  <2>2. CASE endpoint.exists
    BY <1>0, <1>4, <2>1, <2>2, <1>a DEF ReadEndpoint, Goto, TypeOK, OthersKeep
  <2>3. CASE ~endpoint.exists
    <3>1. OthersKeep(j)
      BY <1>0, <1>4, <2>1, <2>3, AttemptFails DEF ReadEndpoint
    <3>2. status[Row(j)] \notin {"PENDING", "RETRYING"}
      BY <1>0, <2>3 DEF GoneWithEndpoint
    <3>3. QED
      BY <2>1, <3>1, <3>2, <1>a
  <2>4. QED
    BY <2>2, <2>3
<1>5. ASSUME NEW j \in Jobs, Begin(j) PROVE OpenHasWriter'
  <2>1. UNCHANGED faults /\ OthersKeep(j)
    BY <1>0, <1>5, JobGoesOn, AttemptFails DEF Begin, World
  <2>2. CASE ~RowExists(j)
    BY <1>5, <2>1, <2>2, <1>a DEF Begin, RowExists
  <2>3. CASE RowExists(j) /\ own[j].usable
    BY <1>0, <1>5, <2>1, <2>3, <1>b, JobGoesOn DEF Begin
  <2>4. CASE RowExists(j) /\ ~own[j].usable
    BY <1>5, <2>1, <2>4, <1>b DEF Begin
  <2>5. QED
    BY <2>2, <2>3, <2>4
<1>6. ASSUME NEW j \in Jobs, Post(j) PROVE OpenHasWriter'
  <2>1. UNCHANGED <<status, faults>> /\ ~own[j].caught /\ pc[j] \notin Over
    BY <1>6 DEF Post, ResultAtHand
  <2>2. CASE ThrowInTry(j)
    BY <1>0, <2>1, <2>2, <1>a, AttemptThrows
  <2>3. CASE Goto(j, "record") /\ (own' = own \/ own' = [own EXCEPT ![j].ok = TRUE])
    BY <1>0, <2>1, <2>3, <1>a DEF Goto, TypeOK, OthersKeep
  <2>4. QED
    BY <1>6, <2>2, <2>3 DEF Post
<1>7. ASSUME NEW j \in Jobs, Record(j) \/ Rescue(j) PROVE OpenHasWriter'
  <2>1. UNCHANGED faults /\ OthersKeep(j)
    BY <1>0, <1>7, JobGoesOn, AttemptFails, AttemptThrows DEF Record, Rescue, World
  <2>2. CASE ~RowExists(j)
    BY <1>7, <2>1, <2>2, <1>a DEF Record, Rescue, RowExists
  <2>3. CASE RowExists(j)
    <3>1. Write(j, "SUCCESS") \/ Write(j, "FAILED")
      BY <1>7, <2>3 DEF Record, Rescue
    <3>2. QED
      BY <2>1, <3>1, <1>b
  <2>4. QED
    BY <2>2, <2>3
<1>8. ASSUME NEW j \in Jobs, recordDeliveryOutcome(j) \/ disableEndpoint(j) PROVE OpenHasWriter'
  <2>1. (ThrowInTry(j) \/ Return(j) \/ (Goto(j, "disable") /\ UNCHANGED own)) /\ pc[j] \in {"count", "disable"}
    BY <1>8 DEF recordDeliveryOutcome, disableEndpoint
  <2>2. OthersKeep(j)
    BY <1>0, <2>1, JobGoesOn, AttemptThrows, AttemptReturns
  <2>3. UNCHANGED <<status, faults>>
    BY <1>8 DEF recordDeliveryOutcome, disableEndpoint, World
  <2>4. QED
    BY <2>1, <2>2, <2>3, <1>a
<1>9. ASSUME Crash \/ \E j \in Jobs : StatementFails(j) PROVE OpenHasWriter'
  <2>1. faults' = faults + 1 /\ faults \in Nat
    BY <1>0, <1>9 DEF Crash, StatementFails, TypeOK
  <2>2. QED
    BY <2>1 DEF OpenHasWriter
<1>10. ASSUME Edit PROVE OpenHasWriter'
  BY <1>10 DEF Edit, SwitchOn, SwitchOff, Delete, OpenHasWriter
<1>11. CASE UNCHANGED vars
  BY <1>11 DEF vars, OpenHasWriter
<1>12. QED
  BY <1>1, <1>2, <1>3, <1>4, <1>5, <1>6, <1>7, <1>8, <1>9, <1>10, <1>11 DEF Next, Ask, Step

\* A job whose delivery was taken never comes back to the post, unless a fault is to blame.
LEMMA AcceptedStep ==
  Sound /\ ResultAtHand /\ RowIsMade /\ GoneWithEndpoint /\ AcceptedIsSettled /\ [Next]_vars
    => AcceptedIsSettled'
<1> SUFFICES ASSUME Sound, ResultAtHand, RowIsMade, GoneWithEndpoint, AcceptedIsSettled, [Next]_vars
             PROVE  AcceptedIsSettled'
  OBVIOUS
<1>0. TypeOK /\ AttemptsLeft /\ \A j \in Jobs : Row(j) \in Deliveries
  BY WebhookDeliveryAssumption DEF Sound, Jobs, Row, Deliveries
<1>a. ASSUME NEW j \in Jobs, OthersKeep(j), UNCHANGED <<accepted, faults>>,
             endpoint'.exists = endpoint.exists, Settled(j) => Settled(j)'
      PROVE  AcceptedIsSettled'
  BY <1>a DEF OthersKeep, AcceptedIsSettled, Settled
<1>b. \A j \in Jobs : ~endpoint.exists /\ pc[j] \notin {"idle", "create", "dropped"} => ~RowExists(j)
  BY <1>0 DEF RowIsMade, GoneWithEndpoint, RowExists
<1> USE DEF Place, InRequest, InWorker, Over, Settled
<1>1. ASSUME NEW j \in Jobs,
             dispatch(j) \/ redeliver(j) \/ CreateRow(j) \/ ResetRow(j) \/ AddJob(j) \/ Take(j)
      PROVE  AcceptedIsSettled'
  <2>1. /\ OthersKeep(j) /\ UNCHANGED <<accepted, faults, endpoint>>
        /\ pc[j] \in {"idle", "create", "reset", "add"} \/ (pc[j] = "waiting" /\ pc'[j] = "read")
    BY <1>0, <1>1, JobGoesOn DEF dispatch, redeliver, CreateRow, ResetRow, AddJob, Take, World
  <2>2. QED
    BY <2>1, <1>a
<1>2. ASSUME NEW j \in Jobs, testEndpoint(j) PROVE AcceptedIsSettled'
  BY <1>0, <1>2, <1>a DEF testEndpoint, Goto, TypeOK, OthersKeep, World
<1>3. ASSUME NEW j \in Jobs, ReadEndpoint(j) PROVE AcceptedIsSettled'
  <2>1. CASE endpoint.exists
    BY <1>0, <1>3, <2>1, <1>a DEF ReadEndpoint, Goto, TypeOK, OthersKeep, World
  <2>2. CASE ~endpoint.exists
    BY <1>0, <1>3, <2>2, <1>a, AttemptFails DEF ReadEndpoint, World
  <2>3. QED
    BY <2>1, <2>2
<1>4. ASSUME NEW j \in Jobs, Begin(j) PROVE AcceptedIsSettled'
  <2>1. OthersKeep(j) /\ UNCHANGED <<accepted, faults, endpoint>> /\ pc[j] = "begin"
    BY <1>0, <1>4, JobGoesOn, AttemptFails DEF Begin, World
  <2>2. QED
    BY <2>1, <1>a
<1>5. ASSUME NEW j \in Jobs, Post(j) PROVE AcceptedIsSettled'
  <2>1. pc[j] = "post" /\ pc[j] \notin Over /\ UNCHANGED <<endpoint, faults>> /\ ~Settled(j)
    BY <1>5 DEF Post
  <2>2. CASE accepted' = [accepted EXCEPT ![j] = @ + 1]
             /\ Goto(j, "record") /\ own' = [own EXCEPT ![j].ok = TRUE]
    <3>1. pc'[j] = "record" /\ own'[j].ok /\ OthersKeep(j)
      BY <1>0, <2>1, <2>2 DEF Goto, TypeOK, OthersKeep
    <3>2. accepted'[j] = accepted[j] + 1 /\ \A i \in Jobs \ {j} : accepted'[i] = accepted[i]
      BY <1>0, <2>2 DEF TypeOK
    <3>3. accepted[j] <= faults /\ accepted[j] \in Nat /\ faults \in Nat
      BY <1>0, <2>1 DEF AcceptedIsSettled, TypeOK
    <3>4. accepted'[j] <= faults' \/ accepted'[j] = 1 + faults'
      BY <2>1, <3>2, <3>3
    <3>5. QED
      BY <2>1, <3>1, <3>2, <3>4 DEF AcceptedIsSettled, OthersKeep
  <2>3. CASE (ThrowInTry(j) \/ (Goto(j, "record") /\ UNCHANGED own)) /\ UNCHANGED accepted
    <3>1. OthersKeep(j)
      BY <1>0, <2>1, <2>3, AttemptThrows, JobGoesOn
    <3>2. QED
      BY <2>1, <2>3, <3>1, <1>a
  <2>4. QED
    BY <1>5, <2>2, <2>3 DEF Post
<1>6. ASSUME NEW j \in Jobs, Record(j) PROVE AcceptedIsSettled'
  <2>1. UNCHANGED <<accepted, faults, endpoint>> /\ pc[j] = "record" /\ pc[j] \notin Over
    BY <1>6 DEF Record, World
  <2>2. CASE RowExists(j)
    BY <1>0, <1>6, <2>1, <2>2, <1>a, JobGoesOn DEF Record
  <2>3. CASE ~RowExists(j)
    <3>1. ~endpoint.exists
      BY <1>0, <2>3 DEF RowExists, GoneWithEndpoint
    <3>2. QED
      BY <1>0, <1>6, <2>1, <2>3, <3>1, <1>a, AttemptThrows DEF Record
  <2>4. QED
    BY <2>2, <2>3
<1>7. ASSUME NEW j \in Jobs, Rescue(j) PROVE AcceptedIsSettled'
  <2>1. UNCHANGED <<accepted, faults, endpoint>> /\ pc[j] = "rescue" /\ pc[j] \notin Over
    BY <1>7 DEF Rescue, World
  <2>2. CASE RowExists(j)
    <3>1. endpoint.exists
      BY <2>1, <2>2, <1>b
    <3>2. QED
      BY <1>0, <1>7, <2>1, <2>2, <3>1, <1>a, JobGoesOn DEF Rescue
  <2>3. CASE ~RowExists(j)
    BY <1>0, <1>7, <2>1, <2>3, <1>a, AttemptFails DEF Rescue
  <2>4. QED
    BY <2>2, <2>3
<1>8. ASSUME NEW j \in Jobs, recordDeliveryOutcome(j) PROVE AcceptedIsSettled'
  <2>1. UNCHANGED <<accepted, faults>> /\ pc[j] = "count" /\ pc[j] \notin Over /\ endpoint'.exists = endpoint.exists
    BY <1>0, <1>8 DEF recordDeliveryOutcome, World, TypeOK
  <2>2. CASE endpoint.exists /\ own[j].ok
    <3>1. Return(j)
      BY <1>8, <2>2 DEF recordDeliveryOutcome
    <3>2. QED
      BY <1>0, <2>1, <2>2, <3>1, <1>a, AttemptReturns
  <2>3. CASE endpoint.exists /\ ~own[j].ok
    <3>1. Return(j) \/ (Goto(j, "disable") /\ UNCHANGED own)
      BY <1>8, <2>3 DEF recordDeliveryOutcome
    <3>2. OthersKeep(j) /\ ~Settled(j)
      BY <1>0, <2>1, <2>3, <3>1, JobGoesOn, AttemptReturns
    <3>3. QED
      BY <2>1, <3>2, <1>a
  <2>4. CASE ~endpoint.exists
    <3>1. ThrowInTry(j) /\ endpoint' = endpoint
      BY <1>8, <2>4 DEF recordDeliveryOutcome
    <3>2. QED
      BY <1>0, <2>1, <2>4, <3>1, <1>a, AttemptThrows
  <2>5. QED
    BY <2>2, <2>3, <2>4
<1>9. ASSUME NEW j \in Jobs, disableEndpoint(j) PROVE AcceptedIsSettled'
  <2>1. /\ UNCHANGED <<accepted, faults>> /\ pc[j] = "disable" /\ pc[j] \notin Over
        /\ endpoint'.exists = endpoint.exists
    BY <1>0, <1>9 DEF disableEndpoint, Disabled, World, TypeOK
  <2>2. ThrowInTry(j) \/ Return(j)
    BY <1>9 DEF disableEndpoint
  <2>3. OthersKeep(j) /\ ~Settled(j)
    BY <1>0, <2>1, <2>2, AttemptThrows, AttemptReturns
  <2>4. QED
    BY <2>1, <2>3, <1>a
<1>10. ASSUME Crash \/ \E j \in Jobs : StatementFails(j) PROVE AcceptedIsSettled'
  <2>1. faults' = faults + 1 /\ UNCHANGED accepted
    BY <1>10 DEF Crash, StatementFails
  <2>2. \A j \in Jobs : accepted[j] <= 1 + faults
    BY <1>0 DEF AcceptedIsSettled, TypeOK
  <2>3. QED
    BY <1>0, <2>1, <2>2 DEF AcceptedIsSettled, TypeOK
<1>11. ASSUME Edit PROVE AcceptedIsSettled'
  <2>1. UNCHANGED <<pc, own, accepted, faults>> /\ (~endpoint.exists => ~endpoint'.exists)
    BY <1>0, <1>11 DEF Edit, SwitchOn, SwitchOff, Delete, TypeOK
  <2>2. QED
    BY <2>1 DEF AcceptedIsSettled
<1>12. CASE UNCHANGED vars
  BY <1>12 DEF vars, AcceptedIsSettled
<1>13. QED
  BY <1>1, <1>2, <1>3, <1>4, <1>5, <1>6, <1>7, <1>8, <1>9, <1>10, <1>11, <1>12 DEF Next, Ask, Step

\* At the start nothing has been queued, posted or counted.
LEMMA IInvInit == Init => IInv
<1> SUFFICES ASSUME Init PROVE IInv
  OBVIOUS
<1>1. Started = {} /\ Running = {}
  BY DEF Init, Started, Running, InWorker
<1>2. FinitelyMany /\ Cardinality(Running) <= Workers
  BY <1>1, FS_EmptySet, WebhookDeliveryAssumption DEF FinitelyMany
<1>3. TypeOK
  BY <1>2, WebhookDeliveryAssumption DEF Init, TypeOK, NoOwn
<1>4. AttemptsLeft
  BY WebhookDeliveryAssumption DEF Init, AttemptsLeft
<1>5. ResultAtHand /\ RowIsMade /\ GoneWithEndpoint /\ OpenHasWriter /\ AcceptedIsSettled
  BY DEF Init, NoOwn, ResultAtHand, RowIsMade, GoneWithEndpoint, OpenHasWriter, AcceptedIsSettled
<1>6. QED
  BY <1>2, <1>3, <1>4, <1>5 DEF IInv, Sound

\* The inductive invariant holds in every reachable state.
THEOREM Inductive == Spec => []IInv
<1>1. IInv /\ [Next]_vars => IInv'
  BY SoundStep, RowsStep, HandStep, OpenStep, AcceptedStep DEF IInv
<1>2. QED
  BY IInvInit, <1>1, PTL DEF Spec

\* Bull's retries of one job repeat only what the receiver refused or did not answer, faults
\* apart, whatever the limits are and however jobs of one row cross.
THEOREM RepeatsExplained == Spec => []RepeatsAreExplained
<1>1. IInv => RepeatsAreExplained
  BY DEF IInv, Sound, TypeOK, AcceptedIsSettled, RepeatsAreExplained
<1>2. QED
  BY Inductive, <1>1, PTL

\* As long as no statement fails and no process dies, no row stays open with nobody left
\* to deliver it.
THEOREM OpenRowsQueued == Spec => []OpenRowsAreQueued
<1>1. IInv => OpenRowsAreQueued
  BY DEF IInv, OpenHasWriter, StillToWrite, InWorker, OpenRowsAreQueued
<1>2. QED
  BY Inductive, <1>1, PTL

----------------------------------------------------------------------------
(* WebhookDelivery implements EndpointBreaker. *)

Due == {j \in Jobs : pc[j] = "disable"}

\* The failures about to switch the endpoint off are counted by a number.
LEMMA DueIsFinite == ASSUME Sound PROVE IsFiniteSet(Due) /\ Cardinality(Due) \in Nat
<1>1. Due \subseteq Started
  BY DEF Due, Started
<1>2. QED
  BY <1>1, FS_Subset, FS_CardinalityType DEF Sound, FinitelyMany

\* A job that reaches disable is one more of them, one that leaves it one less.
LEMMA DueMoves ==
  ASSUME Sound, NEW j \in Jobs, OthersKeep(j)
  PROVE  /\ pc[j] # "disable" /\ pc'[j] # "disable" => Cardinality(Due)' = Cardinality(Due)
         /\ pc[j] # "disable" /\ pc'[j] = "disable" => Cardinality(Due)' = Cardinality(Due) + 1
         /\ pc[j] = "disable" /\ pc'[j] # "disable" =>
              Cardinality(Due)' = Cardinality(Due) - 1 /\ Cardinality(Due) > 0
<1>1. CASE pc[j] # "disable" /\ pc'[j] # "disable"
  <2>1. Due' = Due
    BY <1>1 DEF Due, OthersKeep
  <2>2. QED
    BY <1>1, <2>1
<1>2. CASE pc[j] # "disable" /\ pc'[j] = "disable"
  <2>1. Due' = Due \cup {j} /\ j \notin Due
    BY <1>2 DEF Due, OthersKeep
  <2>2. QED
    BY <1>2, <2>1, DueIsFinite, FS_AddElement
<1>3. CASE pc[j] = "disable" /\ pc'[j] # "disable"
  <2>1. Due' = Due \ {j} /\ j \in Due
    BY <1>3 DEF Due, OthersKeep
  <2>2. Cardinality(Due)' = Cardinality(Due) - 1 /\ Cardinality(Due) # 0
    BY <2>1, DueIsFinite, FS_RemoveElement, FS_EmptySet
  <2>3. QED
    BY <1>3, <2>2, DueIsFinite
<1>4. QED
  BY <1>1, <1>2, <1>3

\* Every step of a delivery is a step of the breaker, or none.
LEMMA BreakerStep ==
  ASSUME Sound, ResultAtHand, [Next]_vars
  PROVE  [Breaker!Next]_<<endpoint.status, endpoint.failures, Cardinality(Due)>>
<1> DEFINE Stutter == UNCHANGED <<endpoint.status, endpoint.failures, Cardinality(Due)>>
           Goal == Breaker!Next \/ Stutter
<1>0. /\ TypeOK /\ AttemptsLeft /\ endpoint.failures \in Nat
      /\ Cardinality(Due) \in Nat
  BY DueIsFinite DEF Sound, TypeOK
<1>a. ASSUME NEW j \in Jobs, OthersKeep(j), endpoint' = endpoint, pc[j] # "disable", pc'[j] # "disable"
      PROVE  Stutter
  BY <1>a, DueMoves
<1>b. ASSUME NEW j \in Jobs, OthersKeep(j), endpoint' = endpoint, pc[j] = "disable", pc'[j] # "disable"
      PROVE  Breaker!Forget
  BY <1>0, <1>b, DueMoves DEF Breaker!Forget, Due
<1>c. ASSUME NEW j \in Jobs, OthersKeep(j), endpoint' = Disabled, pc[j] = "disable", pc'[j] # "disable"
      PROVE  Breaker!Trip
  <2>1. endpoint'.status = "DISABLED" /\ endpoint'.failures = endpoint.failures
    BY <1>0, <1>c DEF Disabled, TypeOK
  <2>2. Cardinality(Due) > 0 /\ Cardinality(Due)' = Cardinality(Due) - 1
    BY <1>c, DueMoves
  <2>3. QED
    BY <2>1, <2>2 DEF Breaker!Trip, Due
<1>1. ASSUME NEW j \in Jobs,
             \/ dispatch(j) \/ redeliver(j) \/ CreateRow(j) \/ ResetRow(j) \/ AddJob(j) \/ Take(j)
             \/ Begin(j) \/ Record(j) \/ Rescue(j)
      PROVE  Goal
  <2>1. pc[j] # "disable" /\ pc[j] \notin Over /\ endpoint' = endpoint
    BY <1>1 DEF dispatch, redeliver, CreateRow, ResetRow, AddJob, Take, Begin, Record, Rescue, Over
  <2>2. OthersKeep(j) /\ pc'[j] # "disable"
    <3>1. FailAttempt(j) \/ ThrowInTry(j) \/ \E l \in Place \ {"disable"} : Goto(j, l) /\ UNCHANGED own
      BY <1>1 DEF dispatch, redeliver, CreateRow, ResetRow, AddJob, Take, Begin, Record, Rescue,
                  Place, InRequest, InWorker, Over
    <3>2. QED
      BY <1>0, <2>1, <3>1, AttemptFails, AttemptThrows, JobGoesOn
  <2>3. QED
    BY <2>1, <2>2, <1>a
<1>2. ASSUME NEW j \in Jobs, testEndpoint(j) \/ ReadEndpoint(j) \/ Post(j) PROVE Goal
  <2>1. pc[j] # "disable" /\ pc[j] \notin Over /\ endpoint' = endpoint
    BY <1>2 DEF testEndpoint, ReadEndpoint, Post, Over
  <2>2. OthersKeep(j) /\ pc'[j] # "disable"
    BY <1>0, <1>2, <2>1, AttemptFails, AttemptThrows, JobGoesOn
       DEF testEndpoint, ReadEndpoint, Post, Goto, TypeOK, OthersKeep
  <2>3. QED
    BY <2>1, <2>2, <1>a
<1>3. ASSUME NEW j \in Jobs, recordDeliveryOutcome(j) PROVE Goal
  <2>1. pc[j] = "count" /\ pc[j] \notin Over
    BY <1>3 DEF recordDeliveryOutcome, Over
  <2>2. CASE ~endpoint.exists
    <3>1. ThrowInTry(j) /\ endpoint' = endpoint
      BY <1>3, <2>2 DEF recordDeliveryOutcome
    <3>2. QED
      BY <1>0, <2>1, <3>1, <1>a, AttemptThrows
  <2>3. CASE endpoint.exists /\ own[j].ok
    <3>1. Return(j) /\ endpoint' = [endpoint EXCEPT !.failures = 0]
      BY <1>3, <2>3 DEF recordDeliveryOutcome
    <3>2. Cardinality(Due)' = Cardinality(Due)
      BY <1>0, <2>1, <3>1, DueMoves, AttemptReturns
    <3>3. Breaker!Succeed
      BY <1>0, <3>1, <3>2 DEF Breaker!Succeed, Due, TypeOK
    <3>4. QED
      BY <3>3 DEF Breaker!Next
  <2>4. CASE endpoint.exists /\ ~own[j].ok
    <3>1. endpoint' = [endpoint EXCEPT !.failures = @ + 1]
      BY <1>3, <2>4 DEF recordDeliveryOutcome
    <3>2. endpoint'.failures = endpoint.failures + 1 /\ endpoint'.status = endpoint.status
      BY <1>0, <3>1 DEF TypeOK
    <3>3. CASE Trips(endpoint'.failures) /\ endpoint.status = "ACTIVE"
      <4>1. Goto(j, "disable") /\ UNCHANGED own
        BY <1>3, <2>4, <3>3 DEF recordDeliveryOutcome
      <4>2. Cardinality(Due)' = Cardinality(Due) + 1
        BY <1>0, <2>1, <4>1, DueMoves, JobGoesOn DEF Place, InWorker
      <4>3. QED
        BY <3>2, <3>3, <4>2 DEF Breaker!Fail, Breaker!Next, Due, Trips
    <3>4. CASE ~(Trips(endpoint'.failures) /\ endpoint.status = "ACTIVE")
      <4>1. Return(j)
        BY <1>3, <2>4, <3>4 DEF recordDeliveryOutcome
      <4>2. Cardinality(Due)' = Cardinality(Due)
        BY <1>0, <2>1, <4>1, DueMoves, AttemptReturns
      <4>3. QED
        BY <1>0, <3>2, <3>4, <4>2 DEF Breaker!Fail, Breaker!Next, Due, Trips
    <3>5. QED
      BY <3>3, <3>4
  <2>5. QED
    BY <2>2, <2>3, <2>4
<1>4. ASSUME NEW j \in Jobs, disableEndpoint(j) PROVE Goal
  <2>1. pc[j] = "disable" /\ pc[j] \notin Over /\ endpoint' \in {endpoint, Disabled}
    BY <1>4 DEF disableEndpoint, Over
  <2>2. OthersKeep(j) /\ pc'[j] # "disable"
    BY <1>0, <1>4, <2>1, AttemptThrows, AttemptReturns DEF disableEndpoint
  <2>3. QED
    BY <2>1, <2>2, <1>b, <1>c DEF Breaker!Next
<1>5. ASSUME NEW j \in Jobs, StatementFails(j) PROVE Goal
  <2>1. OthersKeep(j) /\ pc'[j] # "disable" /\ pc[j] \notin Over
    BY <1>0, <1>5, AttemptFails, AttemptThrows
       DEF StatementFails, Goto, TypeOK, OthersKeep, InRequest, Over
  <2>2. endpoint' = endpoint \/ (pc[j] = "disable" /\ endpoint' = Disabled)
    BY <1>5 DEF StatementFails
  <2>3. QED
    BY <2>1, <2>2, <1>a, <1>b, <1>c DEF Breaker!Next
<1>6. ASSUME Edit PROVE Goal
  <2>1. Cardinality(Due)' = Cardinality(Due)
    BY <1>6 DEF Edit, Due
  <2>2. CASE SwitchOn
    BY <1>0, <2>1, <2>2 DEF SwitchOn, TypeOK, Breaker!SwitchOn, Breaker!Next, Due
  <2>3. CASE SwitchOff \/ Delete
    BY <1>0, <2>1, <2>3 DEF SwitchOff, Delete, TypeOK
  <2>4. QED
    BY <1>6, <2>2, <2>3 DEF Edit
<1>7. ASSUME Crash PROVE Goal
  <2>1. Due' = {}
    BY <1>0, <1>7 DEF Crash, Due, Running, InWorker, TypeOK
  <2>2. Cardinality(Due)' = 0
    BY <2>1, FS_EmptySet
  <2>3. UNCHANGED endpoint
    BY <1>7 DEF Crash
  <2>4. QED
    BY <1>0, <2>2, <2>3 DEF Breaker!Forget, Breaker!Next, Due
<1>8. CASE UNCHANGED vars
  BY <1>8 DEF vars, Due
<1>9. QED
  BY <1>1, <1>2, <1>3, <1>4, <1>5, <1>6, <1>7, <1>8 DEF Next, Ask, Step

\* However deliveries, their retries, the owner and faults interleave, the endpoint is only
\* ever counted up, reset, switched off on account of a failure that was the threshold's,
\* and switched on by its owner: the delivery code implements EndpointBreaker.
THEOREM ImplementsBreaker == Spec => KeepsBreaker
<1>1. Init => Breaker!Init
  <2>1. ASSUME Init PROVE Due = {}
    BY <2>1 DEF Init, Due
  <2>2. QED
    BY <2>1, FS_EmptySet DEF Init, Breaker!Init, Due
<1>2. IInv /\ [Next]_vars => [Breaker!Next]_<<endpoint.status, endpoint.failures, Cardinality(Due)>>
  BY BreakerStep DEF IInv
<1>3. QED
  BY Inductive, <1>1, <1>2, PTL DEF Spec, KeepsBreaker, Breaker!Spec, Due
=============================================================================
