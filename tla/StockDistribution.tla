------------------------- MODULE StockDistribution -------------------------
(***************************************************************************)
(* Distributing a stock over the marketplaces                              *)
(* (apps/backend/src/stock/stock-distribution.service.ts and the push-     *)
(* stock handler of jobs/marketplace-push.processor.ts), for one product.  *)
(*                                                                         *)
(* A request divides a total over the connected marketplaces, writes the   *)
(* shares to the platforms' stock rows in one transaction, and queues a    *)
(* job for each marketplace.  A job sends its quantity, then writes it to  *)
(* the row again; it is attempted a few times, and several run at once.    *)
(***************************************************************************)
EXTENDS Integers, FiniteSets, Functions

CONSTANTS
  Platforms,  \* marketplaces, numbered in the order the connections are read
  Callers,    \* calls of distributeStock
  Attempts,   \* attempts of a push-stock job
  Totals,     \* bound: totals a request distributes
  Several,    \* bound: these and more platforms, for which the shares are looked at
  Shown,      \* bound: totals and sales they are looked at for
  MaxMishaps  \* bound: connections switched off and deaths of the process, taken together

ASSUME DistributionAssumption ==
  /\ Several \subseteq Nat /\ IsFiniteSet(Several) /\ Platforms \subseteq Several /\ Platforms # {}
  /\ Attempts \in Nat \ {0} /\ Totals \subseteq Nat /\ Shown \subseteq Nat /\ MaxMishaps \in Nat

Strategies == {"EQUAL", "PROPORTIONAL", "PRIORITY"}

----------------------------------------------------------------------------
\* computeDistribution.

SumOf(f) == SumFunctionOnSet(f, DOMAIN f)

\* The platform that comes last: as the connections are read, or the one that sold least.
LastRead(P) == CHOOSE p \in P : \A q \in P : q <= p
LastBySales(sales) ==
  CHOOSE p \in DOMAIN sales : \A q \in DOMAIN sales \ {p} :
    sales[q] > sales[p] \/ (sales[q] = sales[p] /\ q < p)

\* Whole items of totalStock * ratio: the ratio is a binary fraction, so that a product which
\* should be whole may fall just short of it.
Floors(total, v, sum) ==
  LET q == (total * v) \div sum
  IN  IF q > 0 /\ v # sum /\ (total * v) % sum = 0 THEN {q - 1, q} ELSE {q}

\* Every platform gets its floor, the last one what is left.
Divide(total, last, floor) ==
  LET Others == DOMAIN floor \ {last}
  IN  [p \in DOMAIN floor |-> IF p = last THEN total - SumFunctionOnSet(floor, Others) ELSE floor[p]]

\* Without sales the platforms count alike.
Weights(sales) == IF SumOf(sales) > 0 THEN sales ELSE [p \in DOMAIN sales |-> 1]

Equal(total, P) ==
  LET n == Cardinality(P)
  IN  [p \in P |-> total \div n + (IF Cardinality({q \in P : q < p}) < total % n THEN 1 ELSE 0)]

ByWeight(total, last, sales) ==
  LET w == Weights(sales)
      F == {f \in [DOMAIN sales -> 0..total] :
              \A p \in DOMAIN sales : f[p] \in Floors(total, w[p], SumOf(w))}
  IN  {Divide(total, last, f) : f \in F}

\* Mutant of computeDistribution: the last platform gets its floor like the others.
MutNoRemainder(total, sales, strategy) ==
  {[p \in DOMAIN sales |-> (total * Weights(sales)[p]) \div SumOf(Weights(sales))]}

computeDistribution(total, sales, strategy) ==
  CASE strategy = "EQUAL" -> {Equal(total, DOMAIN sales)}
    [] strategy = "PROPORTIONAL" -> ByWeight(total, LastRead(DOMAIN sales), sales)
    [] strategy = "PRIORITY" -> ByWeight(total, LastBySales(sales), sales)

----------------------------------------------------------------------------
VARIABLES
  connected, \* platforms with an active connection
  row,       \* quantity of a platform's StockEntry
  market,    \* quantity the marketplace shows
  call,      \* distributeStock under way: the shares, and the jobs that are still to be queued
  job,       \* push-stock jobs
  latest,    \* total of the latest request that began
  muddled,   \* whether it was disturbed: another request or job was under way, it died, or a
             \* job of it was dropped or failed for good
  mishaps

distributionVars == <<connected, row, market, call, job, latest, muddled, mishaps>>

\* A request and the shares it has divided; a job that is to send a quantity.
Dividing(at, shares, left) == [at |-> at, shares |-> shares, left |-> left]
Sending(at, qty, made) == [at |-> at, qty |-> qty, made |-> made]
NoShares == [p \in {} |-> 0]
Job == [at : {"none", "queued", "credentials", "push", "write", "done"}, qty : Nat, made : 0..(Attempts - 1)]

NoCall == Dividing("idle", NoShares, {})
NoJob == Sending("none", 0, 0)
Under(j) == j.at \in {"queued", "credentials", "push", "write"}

DistributionTypeOK ==
  /\ connected \subseteq Platforms
  /\ row \in [Platforms -> Nat] /\ market \in [Platforms -> Nat]
  /\ \A r \in Callers :
       /\ call[r].at \in {"idle", "store", "queue", "done"}
       /\ call[r].shares \in [DOMAIN call[r].shares -> Nat]
       /\ call[r].left \subseteq DOMAIN call[r].shares /\ DOMAIN call[r].shares \subseteq Platforms
  /\ job \in [Callers \X Platforms -> Job]
  /\ latest \in Nat /\ muddled \in BOOLEAN /\ mishaps \in 0..MaxMishaps

DistributionInit ==
  /\ connected = Platforms
  /\ row = [p \in Platforms |-> 0] /\ market = [p \in Platforms |-> 0]
  /\ call = [r \in Callers |-> NoCall]
  /\ job = [k \in Callers \X Platforms |-> NoJob]
  /\ latest = 0 /\ muddled = FALSE /\ mishaps = 0

Quiet ==
  /\ \A r \in Callers : call[r].at \notin {"store", "queue"}
  /\ \A k \in DOMAIN job : ~Under(job[k])

\* The shares of a total, by any strategy and after any sales.
Divisions ==
  [P \in (SUBSET Platforms) \ {{}} |-> [total \in Totals |->
     UNION {UNION {computeDistribution(total, sales, strategy) : strategy \in Strategies} :
              sales \in [P -> Shown]}]]

distributeStock(r) ==
  /\ call[r].at = "idle" /\ connected # {}
  /\ \E total \in Totals : \E shares \in Divisions[connected][total] :
       /\ call' = [call EXCEPT ![r] = Dividing("store", shares, connected)]
       /\ latest' = total
  /\ muddled' = (~Quiet \/ connected # Platforms)
  /\ UNCHANGED <<connected, row, market, job, mishaps>>

\* pushDistribution writes the rows, then queues the jobs one by one.
StoreShares(r) ==
  /\ call[r].at = "store"
  /\ row' = [p \in Platforms |-> IF p \in DOMAIN call[r].shares THEN call[r].shares[p] ELSE row[p]]
  /\ call' = [call EXCEPT ![r] = Dividing("queue", @.shares, @.left)]
  /\ UNCHANGED <<connected, market, job, latest, muddled, mishaps>>

QueueJob(r, p) ==
  /\ call[r].at = "queue" /\ p \in call[r].left
  /\ job' = [job EXCEPT ![<<r, p>>] = Sending("queued", call[r].shares[p], 0)]
  /\ call' = [call EXCEPT ![r] = IF @.left = {p} THEN Dividing("done", NoShares, {})
                                 ELSE Dividing("queue", @.shares, @.left \ {p})]
  /\ UNCHANGED <<connected, row, market, latest, muddled, mishaps>>

----------------------------------------------------------------------------
\* handlePushStock.

JobGoes(k, l) == job' = [job EXCEPT ![k] = Sending(l, @.qty, @.made)]
Finish(k) == job' = [job EXCEPT ![k] = Sending("done", 0, 0)]

\* The error is thrown on, and Bull runs the job again until its attempts are used up.
JobFails(k) ==
  IF job[k].made + 1 < Attempts
  THEN job' = [job EXCEPT ![k] = Sending("queued", @.qty, @.made + 1)] /\ UNCHANGED muddled
  ELSE Finish(k) /\ muddled' = TRUE

TakeJob(k) ==
  /\ job[k].at = "queued"
  /\ JobGoes(k, "credentials")
  /\ UNCHANGED <<connected, row, market, call, latest, muddled, mishaps>>

\* A platform that is no longer connected is passed over.
ReadCredentials(k) ==
  /\ job[k].at = "credentials"
  /\ IF k[2] \in connected THEN JobGoes(k, "push") /\ UNCHANGED muddled
     ELSE Finish(k) /\ muddled' = TRUE
  /\ UNCHANGED <<connected, row, market, call, latest, mishaps>>

\* Mutant of SentToMarket: the quantity is added to what the marketplace shows.
MutAdds(k) == market[k[2]] + job[k].qty

\* The quantity itself is sent, not its difference to the last.
SentToMarket(k) == job[k].qty

\* adapter.updateStock succeeds or fails, and its answer may be lost.
UpdateMarket(k) ==
  /\ job[k].at = "push"
  /\ \/ /\ market' = [market EXCEPT ![k[2]] = SentToMarket(k)]
        /\ (JobGoes(k, "write") /\ UNCHANGED muddled) \/ JobFails(k)
     \/ JobFails(k) /\ UNCHANGED market
  /\ UNCHANGED <<connected, row, call, latest, mishaps>>

\* The row is written in a transaction, which may fail; so may the notes taken after it.
UpdateRow(k) ==
  /\ job[k].at = "write"
  /\ \/ /\ row' = [row EXCEPT ![k[2]] = job[k].qty]
        /\ (Finish(k) /\ UNCHANGED muddled) \/ JobFails(k)
     \/ JobFails(k) /\ UNCHANGED row
  /\ UNCHANGED <<connected, market, call, latest, mishaps>>

----------------------------------------------------------------------------
Disconnect(p) ==
  /\ p \in connected /\ mishaps < MaxMishaps
  /\ connected' = connected \ {p} /\ mishaps' = mishaps + 1
  /\ UNCHANGED <<row, market, call, job, latest, muddled>>

\* Bull runs the jobs of a process that died again; a request it was serving is lost.
DistributionCrash ==
  /\ mishaps < MaxMishaps /\ ~Quiet
  /\ mishaps' = mishaps + 1
  /\ muddled' = (muddled \/ \E r \in Callers : call[r].at \in {"store", "queue"})
  /\ call' = [r \in Callers |-> IF call[r].at = "idle" THEN NoCall ELSE Dividing("done", NoShares, {})]
  /\ job' = [k \in DOMAIN job |->
               IF Under(job[k]) THEN Sending("queued", job[k].qty, job[k].made) ELSE job[k]]
  /\ UNCHANGED <<connected, row, market, latest>>

JobStep(k) == TakeJob(k) \/ ReadCredentials(k) \/ UpdateMarket(k) \/ UpdateRow(k)

DistributionNext ==
  \/ \E r \in Callers : distributeStock(r) \/ StoreShares(r) \/ \E p \in Platforms : QueueJob(r, p)
  \/ \E k \in Callers \X Platforms : JobStep(k)
  \/ \E p \in Platforms : Disconnect(p)
  \/ DistributionCrash

DistributionSpec == DistributionInit /\ [][DistributionNext]_distributionVars

----------------------------------------------------------------------------
(* Properties *)

DividesFairly ==
  \A P \in (SUBSET Several) \ {{}}, total \in Shown, strategy \in Strategies :
    \A sales \in [P -> Shown] : \A d \in computeDistribution(total, sales, strategy) :
      LET w == Weights(sales) IN
      /\ SumOf(d) = total /\ \A p \in P : d[p] >= 0
      /\ strategy = "EQUAL" => \A p, q \in P : d[p] - d[q] <= 1
      /\ strategy # "EQUAL" =>
           Cardinality({p \in P : d[p] * SumOf(w) > total * w[p]}) <= 1

\* As long as a platform is connected, whichever it is and whatever the strategy, the total,
\* the sales and the rounding, the shares add up to the total, none is negative, equal shares
\* differ by one at most, and no platform but the one that gets the rest has more than its
\* part of the sales.
SharesAreFair == connected # {} => DividesFairly

\* When all is done, the marketplaces together offer what was distributed, no more and no
\* less, and the rows here say what each of them shows, however often a job was repeated
\* after it had changed a marketplace, unless the request was disturbed: otherwise goods are
\* sold that are not there.  (The types are checked along with it.)
MarketsShowTotal ==
  DistributionTypeOK /\ (Quiet /\ ~muddled => SumOf(market) = latest /\ row = market)
=============================================================================
