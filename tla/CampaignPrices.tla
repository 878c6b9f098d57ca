--------------------------- MODULE CampaignPrices ---------------------------
(***************************************************************************)
(* Campaigns and the prices of the listings they cover                     *)
(* (apps/backend/src/campaign/campaign.service.ts, campaign.task.ts): a    *)
(* campaign is switched on, paused, ended, edited and deleted by users,    *)
(* and switched on and ended by a task that runs every five minutes.       *)
(* Switching on lowers the prices and keeps the originals in the row of    *)
(* the campaign; ending it puts them back.                                 *)
(*                                                                         *)
(* A call reads the row of the campaign first and works with what it read; *)
(* the prices of a campaign change in one transaction, its status in a     *)
(* statement after it.                                                     *)
(***************************************************************************)
EXTENDS Integers

CONSTANTS
  Campaigns, Listings,
  Callers,      \* bound: requests of users under way at a time
  Discount,     \* discountType, discountValue and minPrice of each campaign
  OwnerPrices,  \* prices (in kurus) that owners and pricing rules set
  FirstPrice,   \* what each listing is sold at before
  Scopes,       \* sets of listings that a campaign may be edited to cover
  FirstScope,   \* what each covers when it is created
  Start, End,   \* startDate and endDate
  Endless,      \* campaigns without an endDate
  MaxTime,      \* bound: the clock
  MaxCalls,     \* bound: requests of users
  MaxUpsets     \* bound: failing statements, deaths of the process and edits of prices, together

DiscountTypes == {"PERCENTAGE", "FIXED", "PRICE_SET"}

ASSUME CampaignPricesAssumption ==
  /\ Discount \in [Campaigns -> [type : DiscountTypes, value : Nat \ {0}, min : Nat]]
  /\ \A c \in Campaigns : Discount[c].type = "PERCENTAGE" => Discount[c].value <= 100
  /\ OwnerPrices \subseteq Nat /\ FirstPrice \in [Listings -> OwnerPrices]
  /\ Scopes \subseteq SUBSET Listings /\ FirstScope \in [Campaigns -> Scopes]
  /\ Start \in [Campaigns -> Nat] /\ End \in [Campaigns -> Nat]
  /\ Endless \subseteq Campaigns
  /\ \A c \in Campaigns \ Endless : Start[c] < End[c]
  /\ {MaxTime, MaxCalls, MaxUpsets} \subseteq Nat
  /\ "scheduler" \notin Callers /\ "none" \notin Campaigns

VARIABLES
  status,     \* Campaign.status
  deleted,    \* campaigns with a deletedAt
  scope,      \* the listings productIds, categoryIds and platforms select
  originals,  \* Campaign.originalPrices: a price for each listing in its domain
  price,      \* Listing.salePrice
  owner,      \* the price each listing's owner, or a pricing rule, gave it last
  edited,     \* listings to which that price was given while a campaign was at them
  call,       \* what each request, and the task, is at and has read
  now,
  calls, upsets,
  crossed,    \* campaigns that two calls have been at at a time
  shared      \* listings that two campaigns, or two such calls, have been at

vars == <<status, deleted, scope, originals, price, owner, edited, call, now, calls, upsets,
          crossed, shared>>

Processes == Callers \cup {"scheduler"}
CampaignStatus == {"DRAFT", "SCHEDULED", "ACTIVE", "PAUSED", "ENDED"}
Ops == {"activate", "pause", "deactivate", "delete", "update"}
Empty == [x \in {} |-> 0]
Calling(op, at, cur, rows) == [op |-> op, at |-> at, rows |-> rows, cur |-> cur, read |-> Empty]
Idle == Calling("none", "idle", "none", Empty)

ArePrices(f) == DOMAIN f \subseteq Listings /\ \A l \in DOMAIN f : f[l] \in Nat

TypeOK ==
  /\ status \in [Campaigns -> CampaignStatus]
  /\ deleted \subseteq Campaigns
  /\ scope \in [Campaigns -> SUBSET Listings]
  /\ \A c \in Campaigns : ArePrices(originals[c])
  /\ price \in [Listings -> Nat]
  /\ owner \in [Listings -> OwnerPrices] /\ edited \subseteq Listings
  /\ \A p \in Processes :
       /\ call[p].op \in Ops \cup {"none"}
       /\ call[p].at \in {"idle", "next", "prices", "write"}
       /\ call[p].cur \in DOMAIN call[p].rows \cup {"none"}
       /\ DOMAIN call[p].rows \subseteq Campaigns /\ ArePrices(call[p].read)
  /\ now \in 0..MaxTime /\ calls \in 0..MaxCalls /\ upsets \in 0..MaxUpsets
  /\ crossed \subseteq Campaigns /\ shared \subseteq Listings

\* createCampaign: one that starts later is scheduled.
Init ==
  /\ status = [c \in Campaigns |-> IF Start[c] > 0 THEN "SCHEDULED" ELSE "DRAFT"]
  /\ deleted = {}
  /\ scope = FirstScope
  /\ originals = [c \in Campaigns |-> Empty]
  /\ price = FirstPrice
  /\ owner = price /\ edited = {}
  /\ call = [p \in Processes |-> Idle]
  /\ now = 0 /\ calls = 0 /\ upsets = 0
  /\ crossed = {} /\ shared = {}

World == <<owner, edited, now, calls, upsets>>
Rows == <<status, deleted, scope, originals, price>>
Ghosts == <<crossed, shared>>

Larger(a, b) == IF a >= b THEN a ELSE b

\* In kurus, rounded half up; never below minPrice or zero.
calculateDiscountedPrice(p, d) ==
  Larger(0, Larger(d.min, CASE d.type = "PERCENTAGE" -> (p * (100 - d.value) + 50) \div 100
                            [] d.type = "FIXED" -> p - d.value
                            [] d.type = "PRICE_SET" -> d.value))

----------------------------------------------------------------------------
\* Requests of users, and the task.

\* Listings whose prices c has changed or is about to change.
Engaged(c) ==
  DOMAIN originals[c] \cup UNION {DOMAIN call[p].read : p \in {q \in Processes : call[q].cur = c}}

\* p has read the rows of cs and starts on them.
Begin(p, op, at, cur, cs) ==
  /\ call' = [call EXCEPT ![p] =
       Calling(op, at, cur, [c \in cs |-> [scope |-> scope[c], originals |-> originals[c]]])]
  /\ LET met == {c \in cs : \E q \in Processes \ {p} : c \in DOMAIN call[q].rows}
     IN  crossed' = crossed \cup met /\ shared' = shared \cup UNION {Engaged(c) : c \in met}

Allowed(op, s) ==
  CASE op = "activate"   -> s \in {"DRAFT", "SCHEDULED", "PAUSED"}
    [] op = "pause"      -> s = "ACTIVE"
    [] op = "deactivate" -> s \in {"ACTIVE", "PAUSED"}
    [] op \in {"delete", "update"} -> s # "ACTIVE"

\* findCampaignOrThrow and the check of the status.
Request(p, op, c) ==
  /\ p \in Callers /\ call[p].at = "idle" /\ calls < MaxCalls
  /\ c \notin deleted /\ Allowed(op, status[c])
  /\ Begin(p, op, IF op \in {"activate", "deactivate"} THEN "next" ELSE "write", c, {c})
  /\ calls' = calls + 1
  /\ UNCHANGED <<Rows, owner, edited, now, upsets>>

\* checkAndApplyCampaigns: the campaigns whose time has come (a tick without any is left out).
ToActivate == {c \in Campaigns \ deleted : status[c] = "SCHEDULED" /\ Start[c] <= now}
ToEnd == {c \in Campaigns \ (deleted \cup Endless) : status[c] = "ACTIVE" /\ End[c] <= now}

Tick ==
  /\ call["scheduler"].at = "idle"
  /\ ToActivate \cup ToEnd # {}
  /\ Begin("scheduler", "activate", "next", "none", ToActivate)
  /\ UNCHANGED <<Rows, World>>

\* The loop over toActivate is over, toEnd is read.
ReadToEnd ==
  /\ call["scheduler"].at = "next" /\ DOMAIN call["scheduler"].rows = {}
  /\ IF call["scheduler"].op = "activate"
     THEN Begin("scheduler", "deactivate", "next", "none", ToEnd)
     ELSE call' = [call EXCEPT !["scheduler"] = Idle] /\ UNCHANGED Ghosts
  /\ UNCHANGED <<Rows, World>>

\* p is done with c: a request is over, the task takes the next campaign.
Leave(p, c) ==
  call' = [call EXCEPT ![p] = IF p = "scheduler"
    THEN Calling(@.op, "next", "none", [d \in DOMAIN @.rows \ {c} |-> @.rows[d]])
    ELSE Idle]

----------------------------------------------------------------------------
\* Prices.

\* c is the campaign p is at, or may take next.
Turn(p, c) == c \in DOMAIN call[p].rows /\ call[p].cur \in {c, "none"}

\* resolveAffectedListings with the prices of the listings.
ReadListings(p, c) ==
  /\ call[p].at = "next" /\ call[p].op = "activate" /\ Turn(p, c)
  /\ LET ls == call[p].rows[c].scope
     IN  /\ call' = [call EXCEPT ![p].at = "prices", ![p].cur = c, ![p].read = [l \in ls |-> price[l]]]
         /\ shared' = shared \cup IF c \in crossed THEN ls
              ELSE {l \in ls : \E other \in Campaigns \ {c} : l \in Engaged(other)}
  /\ UNCHANGED <<Rows, World, crossed>>

\* Mutant of Snapshots: the prices of now are the originals.
MutSnapshots(old, read) ==
  [l \in DOMAIN old \cup DOMAIN read |-> IF l \in DOMAIN read THEN read[l] ELSE old[l]]

\* An original that is kept already stays.
Snapshots(old, read) ==
  [l \in DOMAIN old \cup DOMAIN read |-> IF l \in DOMAIN old THEN old[l] ELSE read[l]]

\* The transaction of applyCampaignPrices.
applyCampaignPrices(p) ==
  /\ call[p].at = "prices" /\ call[p].op = "activate"
  /\ LET c == call[p].cur
         read == call[p].read
     IN  /\ price' = [l \in Listings |-> IF l \in DOMAIN read
                        THEN calculateDiscountedPrice(read[l], Discount[c]) ELSE price[l]]
         /\ originals' = [originals EXCEPT ![c] = Snapshots(call[p].rows[c].originals, read)]
  /\ call' = [call EXCEPT ![p].at = "write", ![p].read = Empty]
  /\ UNCHANGED <<status, deleted, scope, World, Ghosts>>

\* Mutant of restoreCampaignPrices: only the listings it covers now get their price back.
MutRestoresScope(p, c) ==
  /\ call[p].at = "next" /\ call[p].op = "deactivate" /\ Turn(p, c)
  /\ LET kept == call[p].rows[c].originals
     IN  price' = [l \in Listings |-> IF l \in DOMAIN kept \cap scope[c] THEN kept[l] ELSE price[l]]
  /\ call' = [call EXCEPT ![p].at = "write", ![p].cur = c]
  /\ UNCHANGED <<status, deleted, scope, originals, World, Ghosts>>

\* Mutant of restoreCampaignPrices: a campaign without originals is left as it is.
MutSkipsEmpty(p, c) ==
  /\ call[p].at = "next" /\ call[p].op = "deactivate" /\ Turn(p, c)
  /\ LET kept == call[p].rows[c].originals
     IN  /\ price' = [l \in Listings |-> IF l \in DOMAIN kept THEN kept[l] ELSE price[l]]
         /\ IF DOMAIN kept = {} THEN Leave(p, c)
            ELSE call' = [call EXCEPT ![p].at = "write", ![p].cur = c]
  /\ UNCHANGED <<status, deleted, scope, originals, World, Ghosts>>

\* restoreCampaignPrices with its transaction; a campaign without originals has nothing to
\* restore.  (The push-price jobs that both queue carry no price, and their worker drops them.)
restoreCampaignPrices(p, c) ==
  /\ call[p].at = "next" /\ call[p].op = "deactivate" /\ Turn(p, c)
  /\ LET kept == call[p].rows[c].originals
     IN  price' = [l \in Listings |-> IF l \in DOMAIN kept THEN kept[l] ELSE price[l]]
  /\ call' = [call EXCEPT ![p].at = "write", ![p].cur = c]
  /\ UNCHANGED <<status, deleted, scope, originals, World, Ghosts>>

----------------------------------------------------------------------------
\* The statement a call ends with; the status follows the prices.

At(p, op) == call[p].at = "write" /\ call[p].op = op
Becomes(p, s) == status' = [status EXCEPT ![call[p].cur] = s]

SetActive(p) ==
  /\ At(p, "activate") /\ Becomes(p, "ACTIVE") /\ Leave(p, call[p].cur)
  /\ UNCHANGED <<deleted, scope, originals, price, World, Ghosts>>

pauseCampaign(p) ==
  /\ At(p, "pause") /\ Becomes(p, "PAUSED") /\ Leave(p, call[p].cur)
  /\ UNCHANGED <<deleted, scope, originals, price, World, Ghosts>>

\* What forgets the originals.
SetEnded(p) ==
  /\ At(p, "deactivate") /\ Becomes(p, "ENDED") /\ Leave(p, call[p].cur)
  /\ originals' = [originals EXCEPT ![call[p].cur] = Empty]
  /\ UNCHANGED <<deleted, scope, price, World, Ghosts>>

deleteCampaign(p) ==
  /\ At(p, "delete") /\ deleted' = deleted \cup {call[p].cur} /\ Leave(p, call[p].cur)
  /\ UNCHANGED <<status, scope, originals, price, World, Ghosts>>

updateCampaign(p) ==
  /\ At(p, "update") /\ Leave(p, call[p].cur)
  /\ \E ls \in Scopes : scope' = [scope EXCEPT ![call[p].cur] = ls]
  /\ UNCHANGED <<status, deleted, originals, price, World, Ghosts>>

----------------------------------------------------------------------------
\* Owners, time and faults.

\* ListingService.updatePrice, or a pricing rule.
updatePrice(l) ==
  /\ upsets < MaxUpsets /\ upsets' = upsets + 1
  /\ \E amount \in OwnerPrices :
       price' = [price EXCEPT ![l] = amount] /\ owner' = [owner EXCEPT ![l] = amount]
  /\ edited' = IF \E c \in Campaigns : l \in Engaged(c) THEN edited \cup {l} ELSE edited \ {l}
  /\ UNCHANGED <<status, deleted, scope, originals, call, now, calls, Ghosts>>

TimePasses ==
  /\ now < MaxTime /\ now' = now + 1
  /\ UNCHANGED <<Rows, owner, edited, call, calls, upsets, Ghosts>>

\* A statement, or the queue, fails: a request ends with it, the task goes on with the next
\* campaign, or ends when it is a query of its own.
StatementFails(p) ==
  /\ upsets < MaxUpsets /\ upsets' = upsets + 1
  /\ \/ \E c \in Campaigns : Turn(p, c) /\ Leave(p, c)
     \/ call[p].at = "next" /\ DOMAIN call[p].rows = {} /\ call' = [call EXCEPT ![p] = Idle]
  /\ UNCHANGED <<Rows, owner, edited, now, calls, Ghosts>>

\* The process dies with all it is at.
Crash ==
  /\ upsets < MaxUpsets /\ upsets' = upsets + 1
  /\ call' = [p \in Processes |-> Idle]
  /\ UNCHANGED <<Rows, owner, edited, now, calls, Ghosts>>

Step(p) ==
  \/ \E c \in Campaigns : ReadListings(p, c) \/ restoreCampaignPrices(p, c)
  \/ applyCampaignPrices(p)
  \/ SetActive(p) \/ pauseCampaign(p) \/ SetEnded(p) \/ deleteCampaign(p) \/ updateCampaign(p)

Task == Tick \/ ReadToEnd \/ Step("scheduler")

Next ==
  \/ \E p \in Callers : \E c \in Campaigns, op \in Ops : Request(p, op, c)
  \/ \E p \in Callers : Step(p)
  \/ Task
  \/ \E l \in Listings : updatePrice(l)
  \/ \E p \in Processes : StatementFails(p)
  \/ TimePasses
  \/ Crash

Spec == Init /\ [][Next]_vars

\* Time and the task go on; users and faults owe nothing.
FairSpec == Spec /\ WF_vars(TimePasses) /\ WF_vars(Task)

----------------------------------------------------------------------------
(* Properties *)

\* A price of l that its owner gave it: the last one, or an earlier one where the last was
\* given while a campaign was at the listing (ending the campaign puts the snapshot back over
\* it).
Owned(l, amount) == amount \in OwnerPrices /\ (l \notin edited => amount = owner[l])

\* schema.prisma:2564, 'Aktivasyon öncesi fiyat anlık görüntüleri': what a campaign keeps of a
\* listing is the price its owner gave it last before, however often the campaign is paused,
\* edited, switched on again or has failed half-way; and while it is active it keeps one of
\* every listing it covers.  That is so of a campaign no two calls were at at a time, and of
\* listings no two campaigns, or no two such calls, were at.
OriginalsAreKept ==
  TypeOK /\ \A c \in Campaigns \ crossed :
    /\ status[c] = "ACTIVE" => scope[c] \subseteq DOMAIN originals[c]
    /\ \A l \in DOMAIN originals[c] \ shared : Owned(l, originals[c][l])

\* A listing of which no campaign keeps an original is sold at the price its owner gave it
\* last, or at an earlier one of the owner's if the last was given while a campaign was at it:
\* a campaign that has ended leaves nothing lowered, crashes and failures half-way included.
\* (One that is paused keeps the originals, and so does one that is deleted while it is
\* paused, which nothing ends any more: nothing is said of its listings.)
PricesComeBack ==
  \A l \in Listings \ shared :
    (\A c \in Campaigns : l \notin Engaged(c)) => Owned(l, price[l])

\* campaign.task.ts:12, 'zamanlanmış kampanyaları aktifleştirir, süresi dolanları sonlandırır':
\* a scheduled campaign whose time has come is switched on, an active one that is over is
\* ended, even if it covers nothing or another one fails.
ScheduleIsKept ==
  \A c \in Campaigns :
    /\ c \in ToActivate ~> c \notin ToActivate
    /\ c \in ToEnd ~> c \notin ToEnd

\* The first half of it for every campaign: refuted, see MCCampaignPricesTwice.cfg.
OriginalsAreOriginal ==
  \A c \in Campaigns : \A l \in DOMAIN originals[c] : originals[c][l] \in OwnerPrices
=============================================================================
