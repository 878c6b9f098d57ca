------------------------ MODULE CampaignPricesProofs ------------------------
(* Proofs about CampaignPrices, for every set of campaigns, listings and callers, every discount *)
(* and any number of requests, faults and edits.                                                 *)
EXTENDS CampaignPrices, TLAPS

----------------------------------------------------------------------------
(* Types. *)

Prices == UNION {[D -> Nat] : D \in SUBSET Listings}
Row == [scope : SUBSET Listings, originals : Prices]
RowSets == UNION {[D -> Row] : D \in SUBSET Campaigns}
CallType == [op : Ops \cup {"none"}, at : {"idle", "next", "prices", "write"}, rows : RowSets,
             cur : Campaigns \cup {"none"}, read : Prices]

Types ==
  /\ status \in [Campaigns -> CampaignStatus]
  /\ deleted \subseteq Campaigns
  /\ scope \in [Campaigns -> SUBSET Listings]
  /\ originals \in [Campaigns -> Prices]
  /\ price \in [Listings -> Nat]
  /\ owner \in [Listings -> OwnerPrices] /\ edited \subseteq Listings
  /\ call \in [Processes -> CallType]
  /\ now \in 0..MaxTime /\ calls \in 0..MaxCalls /\ upsets \in 0..MaxUpsets
  /\ crossed \subseteq Campaigns /\ shared \subseteq Listings

----------------------------------------------------------------------------
(* The inductive invariant. *)

\* The campaign a call is at is one it has read, and it holds prices only between the two
\* transactions of switching on.
CallIsSound(x) ==
  /\ x.at = "idle" => DOMAIN x.rows = {}
  /\ x.at \in {"prices", "write"} => x.cur \in DOMAIN x.rows
  /\ x.cur \in DOMAIN x.rows \cup {"none"}
  /\ x.at # "prices" => DOMAIN x.read = {}
  /\ x.at = "prices" => x.op = "activate"

\* Two calls at a campaign cross.
Alone ==
  \A c \in Campaigns \ crossed : \A p, q \in Processes :
    c \in DOMAIN call[p].rows /\ c \in DOMAIN call[q].rows => p = q

\* What a call with the state x has read of campaign c is what c has: its scope sc, originals o
\* and status s.
Current(x, c, sc, o, s) ==
  /\ DOMAIN x.rows[c].originals \subseteq DOMAIN o
  /\ x.cur # c \/ x.at # "write" => x.rows[c].originals = o /\ x.rows[c].scope = sc
  /\ x.cur = c =>
       /\ x.at = "prices" => DOMAIN x.read = sc
       /\ x.at = "write" /\ x.op = "activate" => sc \subseteq DOMAIN o
       /\ x.at = "write" /\ x.op = "update" => s # "ACTIVE"

ReadsCurrent ==
  \A c \in Campaigns \ crossed : \A p \in Processes :
    c \in DOMAIN call[p].rows => Current(call[p], c, scope[c], originals[c], status[c])

ActiveKeeps ==
  \A c \in Campaigns \ crossed : status[c] = "ACTIVE" => scope[c] \subseteq DOMAIN originals[c]

\* c has an original of l, or a call is about to take one.
Engages(c, l) ==
  \/ l \in DOMAIN originals[c]
  \/ \E p \in Processes : call[p].cur = c /\ l \in DOMAIN call[p].read

\* What crossing calls have been at is shared, ...
CrossedShared ==
  \A c \in crossed :
    /\ \A l \in Listings : Engages(c, l) => l \in shared
    /\ \A p \in Processes :
         c \in DOMAIN call[p].rows => DOMAIN call[p].rows[c].originals \subseteq shared

\* ... and so is what two campaigns engage.
OneEach == \A c, d \in Campaigns : \A l \in Listings : Engages(c, l) /\ Engages(d, l) => c = d \/ l \in shared

\* Owned, with the state it is about as parameters.
IsOwners(own, ed, l, amount) == amount \in OwnerPrices /\ (l \notin ed => amount = own[l])

\* Originals, the prices a call has read and will keep, the prices it has put back, and the
\* prices of which there is no original are the owners'.
OriginalsOwned == \A c \in Campaigns : \A l \in DOMAIN originals[c] : l \in shared \/ IsOwners(owner, edited, l, originals[c][l])
ReadOwned ==
  \A p \in Processes : call[p].at = "prices" =>
    \A l \in DOMAIN call[p].read :
      l \in shared \/ l \in DOMAIN originals[call[p].cur] \/ IsOwners(owner, edited, l, call[p].read[l])
Restored ==
  \A p \in Processes : At(p, "deactivate") =>
    \A l \in DOMAIN originals[call[p].cur] : l \in shared \/ IsOwners(owner, edited, l, price[l])
PricesOwned ==
  \A l \in Listings : (\A c \in Campaigns : l \notin DOMAIN originals[c]) => l \in shared \/ IsOwners(owner, edited, l, price[l])

IInv ==
  /\ Types /\ \A p \in Processes : CallIsSound(call[p])
  /\ Alone /\ ReadsCurrent /\ ActiveKeeps
  /\ CrossedShared /\ OneEach
  /\ OriginalsOwned /\ ReadOwned /\ Restored /\ PricesOwned

----------------------------------------------------------------------------
(* Lemmas about data. *)

\* Prices of some listings are prices.
LEMMA ArePricesOf ==
  ASSUME NEW D, D \subseteq Listings, NEW f, f \in [D -> Nat]
  PROVE  f \in Prices
BY DEF Prices

\* What is known of prices.
LEMMA PricesType ==
  ASSUME NEW f \in Prices
  PROVE  DOMAIN f \subseteq Listings /\ (\A l \in DOMAIN f : f[l] \in Nat) /\ f = [l \in DOMAIN f |-> f[l]]
BY DEF Prices

\* Rows of some campaigns are rows.
LEMMA AreRowsOf ==
  ASSUME NEW D, D \subseteq Campaigns, NEW f, f \in [D -> Row]
  PROVE  f \in RowSets
BY DEF RowSets

\* What is known of rows.
LEMMA RowsType ==
  ASSUME NEW f \in RowSets
  PROVE  /\ DOMAIN f \subseteq Campaigns
         /\ \A c \in DOMAIN f : /\ f[c] \in Row /\ f[c].scope \subseteq Listings
                                /\ f[c].originals \in Prices
BY DEF RowSets, Row

\* Nothing is both.
LEMMA EmptyType == Empty \in Prices /\ Empty \in RowSets /\ DOMAIN Empty = {}
<1>1. Empty \in [{} -> Nat] /\ Empty \in [{} -> Row] /\ DOMAIN Empty = {}
  BY DEF Empty
<1>2. QED
  BY <1>1, ArePricesOf, AreRowsOf

\* The fields of a call.
LEMMA CallFields ==
  ASSUME NEW x \in CallType
  PROVE  /\ x.op \in Ops \cup {"none"} /\ x.at \in {"idle", "next", "prices", "write"}
         /\ x.rows \in RowSets /\ x.cur \in Campaigns \cup {"none"} /\ x.read \in Prices
         /\ DOMAIN x.rows \subseteq Campaigns /\ DOMAIN x.read \subseteq Listings
<1>1. /\ x.op \in Ops \cup {"none"} /\ x.at \in {"idle", "next", "prices", "write"}
      /\ x.rows \in RowSets /\ x.cur \in Campaigns \cup {"none"} /\ x.read \in Prices
  BY DEF CallType
<1>2. QED
  BY <1>1, RowsType, PricesType

\* A call that begins.
LEMMA CallingType ==
  \A op, at, cur, rs :
    /\ LET x == Calling(op, at, cur, rs)
       IN  x.op = op /\ x.at = at /\ x.cur = cur /\ x.rows = rs /\ x.read = Empty /\ DOMAIN x.read = {}
    /\ /\ op \in Ops \cup {"none"} /\ at \in {"idle", "next", "write"}
       /\ cur \in Campaigns \cup {"none"} /\ rs \in RowSets
       => Calling(op, at, cur, rs) \in CallType
<1>1. ASSUME NEW op, NEW at, NEW cur, NEW rs
      PROVE  LET x == Calling(op, at, cur, rs)
             IN  x.op = op /\ x.at = at /\ x.cur = cur /\ x.rows = rs /\ x.read = Empty /\ DOMAIN x.read = {}
  BY EmptyType DEF Calling
<1>2. ASSUME NEW op \in Ops \cup {"none"}, NEW at \in {"idle", "next", "write"},
             NEW cur \in Campaigns \cup {"none"}, NEW rs \in RowSets
      PROVE  Calling(op, at, cur, rs) \in CallType
  BY EmptyType DEF Calling, CallType
<1>3. QED
  BY <1>1, <1>2

\* A discounted price is a price.
LEMMA DiscountType ==
  ASSUME NEW n \in Nat, NEW c \in Campaigns
  PROVE  calculateDiscountedPrice(n, Discount[c]) \in Nat
<1> DEFINE d == Discount[c]
           m == CASE d.type = "PERCENTAGE" -> (n * (100 - d.value) + 50) \div 100
                  [] d.type = "FIXED" -> n - d.value
                  [] d.type = "PRICE_SET" -> d.value
<1>1. d.type \in DiscountTypes /\ d.value \in Nat /\ d.min \in Nat
  BY CampaignPricesAssumption
<1> HIDE DEF d
<1>2. n * (100 - d.value) \in Int
  BY <1>1
<1>3. (n * (100 - d.value) + 50) \div 100 \in Int
  <2>1. \A i \in Int : (i + 50) \div 100 \in Int
    OBVIOUS
  <2>2. QED
    BY <1>2, <2>1
<1>4. m \in Int
  <2>1. CASE d.type = "PERCENTAGE"
    BY <1>3, <2>1
  <2>2. CASE d.type = "FIXED"
    BY <1>1, <2>2
  <2>3. CASE d.type = "PRICE_SET"
    BY <1>1, <2>3
  <2>4. QED
    BY <1>1, <2>1, <2>2, <2>3 DEF DiscountTypes
<1>5. calculateDiscountedPrice(n, d) = Larger(0, Larger(d.min, m))
  BY DEF calculateDiscountedPrice
<1> HIDE DEF m
<1>6. Larger(0, Larger(d.min, m)) \in Nat
  BY <1>1, <1>4 DEF Larger
<1>7. QED
  BY <1>5, <1>6 DEF d

\* Engaged, one listing at a time.
LEMMA EngagedIs == ASSUME NEW c, NEW l PROVE l \in Engaged(c) <=> Engages(c, l)
BY DEF Engaged, Engages

----------------------------------------------------------------------------
(* Calls that leave a campaign. *)

\* y is what is left of the call x when it leaves the campaign it is at.
Left(x, y) ==
  /\ CallIsSound(y) /\ y.at \in {"idle", "next"} /\ y.cur = "none" /\ DOMAIN y.read = {}
  /\ \A d \in DOMAIN y.rows : d \in DOMAIN x.rows /\ d # x.cur /\ y.rows[d] = x.rows[d]

\* A call that ends is idle.
LEMMA IdleLeft == Idle \in CallType /\ \A x : Left(x, Idle)
<1>1. Idle \in CallType /\ Idle.at = "idle" /\ Idle.cur = "none" /\ Idle.rows = Empty /\ DOMAIN Idle.read = {}
  BY CallingType, EmptyType DEF Idle
<1>2. DOMAIN Idle.rows = {}
  BY <1>1, EmptyType
<1>3. CallIsSound(Idle)
  BY <1>1, <1>2 DEF CallIsSound
<1>4. QED
  BY <1>1, <1>2, <1>3 DEF Left

\* So does the task when it goes on.
LEMMA LeaveLeft ==
  ASSUME Types, NEW p \in Processes, CallIsSound(call[p]), NEW c \in Campaigns, Turn(p, c), Leave(p, c)
  PROVE  \E y \in CallType : call' = [call EXCEPT ![p] = y] /\ Left(call[p], y)
<1> DEFINE x == call[p]
           rest == [d \in DOMAIN x.rows \ {c} |-> x.rows[d]]
           y == Calling(x.op, "next", "none", rest)
<1>0. x \in CallType /\ c \in DOMAIN x.rows /\ x.cur \in {c, "none"}
  BY DEF Types, Turn
<1>1. CASE p # "scheduler"
  BY <1>1, IdleLeft DEF Leave
<1>2. CASE p = "scheduler"
  <2>1. call' = [call EXCEPT ![p] = y]
    BY <1>2 DEF Leave
  <2>2. x.op \in Ops \cup {"none"} /\ x.rows \in RowSets /\ DOMAIN x.rows \subseteq Campaigns
        /\ \A d \in DOMAIN x.rows : x.rows[d] \in Row
    BY <1>0, CallFields, RowsType
  <2>3. rest \in RowSets
    <3>1. rest \in [DOMAIN x.rows \ {c} -> Row]
      BY <2>2
    <3>2. DOMAIN x.rows \ {c} \subseteq Campaigns
      BY <2>2
    <3> HIDE DEF rest
    <3>3. QED
      BY <3>1, <3>2, AreRowsOf
  <2>4. DOMAIN rest = DOMAIN x.rows \ {c} /\ \A d \in DOMAIN rest : rest[d] = x.rows[d]
    OBVIOUS
  <2> HIDE DEF rest
  <2>5. y \in CallType /\ y.at = "next" /\ y.cur = "none" /\ y.rows = rest /\ DOMAIN y.read = {}
    BY <2>2, <2>3, CallingType
  <2> HIDE DEF x, y
  <2>6. CallIsSound(y)
    BY <2>5 DEF CallIsSound
  <2>7. \A d \in DOMAIN y.rows : d \in DOMAIN x.rows /\ d # x.cur /\ y.rows[d] = x.rows[d]
    <3>1. \A d \in DOMAIN y.rows : d \in DOMAIN x.rows /\ d # c /\ d # "none" /\ y.rows[d] = x.rows[d]
      BY <2>2, <2>4, <2>5, CampaignPricesAssumption
    <3>2. QED
      BY <1>0, <3>1
  <2>8. Left(x, y)
    BY <2>5, <2>6, <2>7 DEF Left
  <2>9. QED
    BY <2>1, <2>5, <2>8 DEF x
<1>3. QED
  BY <1>1, <1>2

\* Calls that leave change at most the row of the campaign that one of them is at.
LEMMA Leaves ==
  ASSUME IInv, Types', NEW p \in Processes, Left(call[p], call'[p]),
         \A q \in Processes : call'[q] = call[q] \/ Left(call[q], call'[q]),
         UNCHANGED <<price, owner, edited, Ghosts>>,
         \A d \in Campaigns : d # call[p].cur =>
           status'[d] = status[d] /\ scope'[d] = scope[d] /\ originals'[d] = originals[d],
         \A d \in Campaigns : \/ originals'[d] = originals[d]
                              \/ DOMAIN originals'[d] = {} /\ At(p, "deactivate") /\ d = call[p].cur,
         \A d \in Campaigns \ crossed :
           d = call[p].cur /\ status'[d] = "ACTIVE" => scope'[d] \subseteq DOMAIN originals'[d]
  PROVE  IInv'
<1>0. /\ Types /\ \A q \in Processes : call[q] \in CallType /\ CallIsSound(call[q])
      /\ crossed' = crossed /\ shared' = shared /\ price' = price
      /\ owner' = owner /\ edited' = edited
  BY DEF IInv, Types, Ghosts
<1>1. \A q \in Processes : CallIsSound(call'[q])
  BY <1>0 DEF Left
<1>2. \A q \in Processes : \A d \in DOMAIN call'[q].rows :
        d \in DOMAIN call[q].rows /\ call'[q].rows[d] = call[q].rows[d]
  BY DEF Left
<1>3. \A q \in Processes : \A l \in DOMAIN call'[q].read : call'[q] = call[q]
  BY DEF Left
<1>4. \A q \in Processes : call'[q].at \in {"prices", "write"} => call'[q] = call[q] /\ q # p
  BY DEF Left
<1>5. \A d \in Campaigns : DOMAIN originals'[d] \subseteq DOMAIN originals[d]
                           /\ \A l \in DOMAIN originals'[d] : originals'[d][l] = originals[d][l]
  OBVIOUS
<1>6. \A c : \A l : c \in Campaigns /\ Engages(c, l)' => Engages(c, l)
  BY <1>3, <1>5 DEF Engages
<1>7. Alone'
  BY <1>0, <1>2 DEF IInv, Alone
<1>8. ReadsCurrent'
  <2> SUFFICES ASSUME NEW c \in Campaigns \ crossed, NEW q \in Processes, c \in DOMAIN call'[q].rows
               PROVE  Current(call'[q], c, scope'[c], originals'[c], status'[c])
    BY <1>0 DEF ReadsCurrent
  <2>1. c \in DOMAIN call[q].rows /\ call'[q].rows[c] = call[q].rows[c]
    BY <1>2
  <2>2. Current(call[q], c, scope[c], originals[c], status[c])
    BY <2>1 DEF IInv, ReadsCurrent
  <2>3. c # call[p].cur
    <3> SUFFICES ASSUME c = call[p].cur PROVE FALSE
      OBVIOUS
    <3>1. c \in DOMAIN call[p].rows
      BY <1>0, CampaignPricesAssumption DEF CallIsSound
    <3>2. q = p
      BY <2>1, <3>1 DEF IInv, Alone
    <3>3. QED
      BY <3>2 DEF Left
  <2>4. status'[c] = status[c] /\ scope'[c] = scope[c] /\ originals'[c] = originals[c]
    BY <2>3
  <2>5. CASE call'[q] = call[q]
    BY <2>2, <2>4, <2>5
  <2>6. CASE Left(call[q], call'[q])
    <3>1. call[q].cur # c /\ call'[q].cur # c /\ call'[q].at # "write"
      BY <2>6, CampaignPricesAssumption DEF Left
    <3>2. call[q].rows[c].originals = originals[c] /\ call[q].rows[c].scope = scope[c]
      BY <2>2, <3>1 DEF Current
    <3>3. QED
      BY <2>1, <2>4, <3>1, <3>2 DEF Current
  <2>7. QED
    BY <2>5, <2>6
<1>9. ActiveKeeps'
  <2> SUFFICES ASSUME NEW c \in Campaigns \ crossed, status'[c] = "ACTIVE"
               PROVE  scope'[c] \subseteq DOMAIN originals'[c]
    BY <1>0 DEF ActiveKeeps
  <2>1. CASE c = call[p].cur
    BY <2>1
  <2>2. CASE c # call[p].cur
    BY <2>2 DEF IInv, ActiveKeeps
  <2>3. QED
    BY <2>1, <2>2
<1>10. CrossedShared'
  <2> SUFFICES ASSUME NEW c \in crossed
               PROVE  /\ \A l \in Listings : Engages(c, l)' => l \in shared
                      /\ \A q \in Processes :
                           c \in DOMAIN call'[q].rows => DOMAIN call'[q].rows[c].originals \subseteq shared
    BY <1>0 DEF CrossedShared
  <2>1. c \in Campaigns
    BY <1>0 DEF Types
  <2>2. \A l \in Listings : Engages(c, l)' => l \in shared
    BY <1>6, <2>1 DEF IInv, CrossedShared
  <2>3. QED
    BY <1>2, <2>2 DEF IInv, CrossedShared
<1>11. OneEach'
  BY <1>0, <1>6 DEF IInv, OneEach
<1>12. OriginalsOwned'
  BY <1>0, <1>5 DEF IInv, OriginalsOwned
<1>13. ReadOwned'
  <2> SUFFICES ASSUME NEW q \in Processes, call'[q].at = "prices", NEW l \in DOMAIN call'[q].read
               PROVE  l \in shared \/ l \in DOMAIN originals'[call'[q].cur] \/ IsOwners(owner, edited, l, call'[q].read[l])
    BY <1>0 DEF ReadOwned
  <2> DEFINE c == call[q].cur
  <2>1. call'[q] = call[q] /\ q # p /\ call[q].at = "prices"
    BY <1>4
  <2>2. l \in shared \/ l \in DOMAIN originals[c] \/ IsOwners(owner, edited, l, call[q].read[l])
    BY <2>1 DEF IInv, ReadOwned
  <2>3. c \in DOMAIN call[q].rows /\ c \in Campaigns /\ l \in Listings
    BY <1>0, <2>1, CallFields DEF CallIsSound
  <2>4. CASE originals'[c] = originals[c]
    BY <2>1, <2>2, <2>4
  <2>5. CASE c = call[p].cur /\ At(p, "deactivate")
    <3>1. c \in DOMAIN call[p].rows
      BY <1>0, <2>5 DEF At, CallIsSound
    <3>2. c \in crossed
      BY <2>1, <2>3, <3>1 DEF IInv, Alone
    <3>3. Engages(c, l)
      BY <2>1 DEF Engages
    <3>4. l \in shared
      BY <2>3, <3>2, <3>3 DEF IInv, CrossedShared
    <3>5. QED
      BY <3>4
  <2>6. QED
    BY <2>3, <2>4, <2>5
<1>14. Restored'
  <2> SUFFICES ASSUME NEW q \in Processes, At(q, "deactivate")', NEW l \in DOMAIN originals'[call'[q].cur]
               PROVE  l \in shared \/ IsOwners(owner, edited, l, price[l])
    BY <1>0 DEF Restored
  <2>1. call'[q] = call[q] /\ At(q, "deactivate")
    BY <1>4 DEF At
  <2>2. call[q].cur \in Campaigns
    BY <1>0, <2>1, CallFields DEF At, CallIsSound
  <2>3. QED
    BY <1>5, <2>1, <2>2 DEF IInv, Restored
<1>15. PricesOwned'
  <2> SUFFICES ASSUME NEW l \in Listings, \A c \in Campaigns : l \notin DOMAIN originals'[c]
               PROVE  l \in shared \/ IsOwners(owner, edited, l, price[l])
    BY <1>0 DEF PricesOwned
  <2>1. CASE \A c \in Campaigns : l \notin DOMAIN originals[c]
    BY <2>1 DEF IInv, PricesOwned
  <2>2. CASE \E c \in Campaigns : l \in DOMAIN originals[c]
    <3>1. PICK c \in Campaigns : l \in DOMAIN originals[c]
      BY <2>2
    <3>2. At(p, "deactivate") /\ c = call[p].cur
      BY <3>1
    <3>3. QED
      BY <3>1, <3>2 DEF IInv, Restored
  <2>3. QED
    BY <2>1, <2>2
<1>16. QED
  BY <1>1, <1>7, <1>8, <1>9, <1>10, <1>11, <1>12, <1>13, <1>14, <1>15 DEF IInv

----------------------------------------------------------------------------
(* A call begins. *)

\* Campaigns that it meets another call at cross from now on, and what they engage is shared.
LEMMA Begins ==
  ASSUME IInv, NEW p \in Processes, DOMAIN call[p].rows = {}, DOMAIN call[p].read = {},
         NEW op \in Ops, NEW at \in {"next", "write"}, NEW cur \in Campaigns \cup {"none"},
         NEW cs \in SUBSET Campaigns, Begin(p, op, at, cur, cs),
         cur \in cs \cup {"none"}, at = "write" => cur \in cs,
         at = "write" => /\ op \notin {"activate", "deactivate"}
                         /\ op = "update" => status[cur] # "ACTIVE",
         UNCHANGED Rows, calls' \in 0..MaxCalls, UNCHANGED <<owner, edited, now, upsets>>
  PROVE  IInv'
<1> DEFINE rs == [c \in cs |-> [scope |-> scope[c], originals |-> originals[c]]]
           y == Calling(op, at, cur, rs)
           met == {c \in cs : \E q \in Processes \ {p} : c \in DOMAIN call[q].rows}
<1>0. /\ Types /\ \A q \in Processes : call[q] \in CallType /\ CallIsSound(call[q])
      /\ status' = status /\ deleted' = deleted /\ scope' = scope /\ originals' = originals /\ price' = price
  BY DEF IInv, Types, Rows
<1>1. /\ call' = [call EXCEPT ![p] = y] /\ crossed' = crossed \cup met
      /\ shared' = shared \cup UNION {Engaged(c) : c \in met}
  BY DEF Begin
<1>2. rs \in RowSets
  <2>1. \A c \in cs : scope[c] \in SUBSET Listings /\ originals[c] \in Prices
    BY <1>0 DEF Types
  <2>2. rs \in [cs -> Row]
    BY <2>1 DEF Row
  <2> HIDE DEF rs
  <2>3. QED
    BY <2>2, AreRowsOf
<1>3. DOMAIN rs = cs /\ \A c \in cs : rs[c].scope = scope[c] /\ rs[c].originals = originals[c]
  OBVIOUS
<1> HIDE DEF rs
<1>4. y \in CallType /\ y.op = op /\ y.at = at /\ y.cur = cur /\ y.rows = rs /\ DOMAIN y.read = {}
  BY <1>2, CallingType
<1> HIDE DEF y
<1>5. CallIsSound(y)
  BY <1>3, <1>4 DEF CallIsSound
<1>6. call'[p] = y /\ \A q \in Processes \ {p} : call'[q] = call[q]
  BY <1>0, <1>1 DEF Types
<1>7. met \subseteq Campaigns /\ crossed \subseteq crossed' /\ shared \subseteq shared'
      /\ \A c \in crossed' \ crossed : c \in met
  BY <1>1
<1>8. \A c \in met : \A l : Engages(c, l) => l \in shared'
  <2>1. \A c \in met : Engaged(c) \subseteq shared'
    BY <1>1
  <2>2. QED
    BY <2>1, EngagedIs
<1>9. \A c \in Campaigns : \A l : Engages(c, l) => l \in Listings
  <2>1. \A c \in Campaigns : DOMAIN originals[c] \subseteq Listings
    BY <1>0, PricesType DEF Types
  <2>2. QED
    BY <1>0, <2>1, CallFields DEF Engages
<1>10. shared' \subseteq Listings
  <2>1. \A c \in met : \A l \in Engaged(c) : l \in Listings
    BY <1>7, <1>9, EngagedIs
  <2>2. QED
    BY <1>0, <1>1, <2>1 DEF Types
<1> HIDE DEF met
<1>11. Types'
  BY <1>0, <1>1, <1>4, <1>7, <1>10 DEF Types
<1>12. \A c, l : Engages(c, l)' <=> Engages(c, l)
  BY <1>0, <1>4, <1>6 DEF Engages
<1>13. \A q \in Processes : CallIsSound(call'[q])
  BY <1>0, <1>5, <1>6
<1>14. Alone'
  <2> SUFFICES ASSUME NEW c \in Campaigns \ crossed', NEW q \in Processes, NEW r \in Processes,
                      c \in DOMAIN call'[q].rows, c \in DOMAIN call'[r].rows
               PROVE  q = r
    BY DEF Alone
  <2>1. c \notin crossed /\ c \notin met
    BY <1>1
  <2>2. CASE q # p /\ r # p
    BY <1>6, <2>1, <2>2 DEF IInv, Alone
  <2>3. CASE q = p /\ r # p
    BY <1>3, <1>4, <1>6, <2>1, <2>3 DEF met
  <2>4. CASE q # p /\ r = p
    BY <1>3, <1>4, <1>6, <2>1, <2>4 DEF met
  <2>5. QED
    BY <2>2, <2>3, <2>4
<1>15. ReadsCurrent'
  <2> SUFFICES ASSUME NEW c \in Campaigns \ crossed', NEW q \in Processes, c \in DOMAIN call'[q].rows
               PROVE  Current(call'[q], c, scope[c], originals[c], status[c])
    BY <1>0 DEF ReadsCurrent
  <2>1. CASE q # p
    BY <1>6, <1>7, <2>1 DEF IInv, ReadsCurrent
  <2>2. CASE q = p
    <3>1. call'[q] = y /\ c \in cs /\ y.rows[c].scope = scope[c] /\ y.rows[c].originals = originals[c]
      BY <1>3, <1>4, <1>6, <2>2
    <3>2. QED
      BY <1>4, <3>1 DEF Current
  <2>3. QED
    BY <2>1, <2>2
<1>16. ActiveKeeps'
  BY <1>0, <1>7 DEF IInv, ActiveKeeps
<1>17. CrossedShared'
  <2> SUFFICES ASSUME NEW c \in crossed'
               PROVE  /\ \A l \in Listings : Engages(c, l)' => l \in shared'
                      /\ \A q \in Processes :
                           c \in DOMAIN call'[q].rows => DOMAIN call'[q].rows[c].originals \subseteq shared'
    BY DEF CrossedShared
  <2>0. c \in Campaigns
    BY <1>11 DEF Types
  <2>1. \A l \in Listings : Engages(c, l) => l \in shared'
    BY <1>7, <1>8 DEF IInv, CrossedShared
  <2>2. DOMAIN originals[c] \subseteq shared'
    <3>1. DOMAIN originals[c] \subseteq Listings
      BY <1>9, <2>0 DEF Engages
    <3>2. QED
      BY <2>1, <3>1 DEF Engages
  <2>3. ASSUME NEW q \in Processes, c \in DOMAIN call'[q].rows
        PROVE  DOMAIN call'[q].rows[c].originals \subseteq shared'
    <3>1. CASE q = p
      BY <1>3, <1>4, <1>6, <2>2, <2>3, <3>1
    <3>2. CASE q # p /\ c \in crossed
      BY <1>6, <1>7, <2>3, <3>2 DEF IInv, CrossedShared
    <3>3. CASE q # p /\ c \notin crossed
      <4>1. DOMAIN call[q].rows[c].originals \subseteq DOMAIN originals[c]
        BY <1>6, <2>0, <2>3, <3>3 DEF IInv, ReadsCurrent, Current
      <4>2. QED
        BY <1>6, <2>2, <3>3, <4>1
    <3>4. QED
      BY <3>1, <3>2, <3>3
  <2>4. QED
    BY <1>12, <2>1, <2>3
<1>18. OneEach'
  BY <1>7, <1>12 DEF IInv, OneEach
<1>19. OriginalsOwned' /\ PricesOwned'
  BY <1>0, <1>7 DEF IInv, OriginalsOwned, PricesOwned
<1>20. ReadOwned'
  BY <1>0, <1>4, <1>6, <1>7 DEF IInv, ReadOwned
<1>21. Restored'
  <2> SUFFICES ASSUME NEW q \in Processes, At(q, "deactivate")', NEW l \in DOMAIN originals[call'[q].cur]
               PROVE  l \in shared' \/ IsOwners(owner, edited, l, price[l])
    BY <1>0 DEF Restored
  <2>1. q # p
    BY <1>4, <1>6 DEF At
  <2>2. call'[q] = call[q] /\ At(q, "deactivate")
    BY <1>6, <2>1 DEF At
  <2>3. QED
    BY <1>7, <2>2 DEF IInv, Restored
<1>22. QED
  BY <1>11, <1>13, <1>14, <1>15, <1>16, <1>17, <1>18, <1>19, <1>20, <1>21 DEF IInv

----------------------------------------------------------------------------
(* A call at prices. *)

\* resolveAffectedListings: the prices it reads are the owners', but for listings that are now shared.
LEMMA Reads == ASSUME IInv, NEW p \in Processes, NEW c \in Campaigns, ReadListings(p, c) PROVE IInv'
<1> DEFINE x == call[p]
           ls == x.rows[c].scope
           read == [l \in ls |-> price[l]]
           y == [x EXCEPT !.at = "prices", !.cur = c, !.read = read]
<1>0. /\ Types /\ \A q \in Processes : call[q] \in CallType /\ CallIsSound(call[q])
  BY DEF IInv, Types
<1>1. /\ x.at = "next" /\ x.op = "activate" /\ c \in DOMAIN x.rows /\ x.cur \in {c, "none"}
      /\ crossed' = crossed
      /\ status' = status /\ deleted' = deleted /\ scope' = scope /\ originals' = originals /\ price' = price
      /\ owner' = owner /\ edited' = edited /\ now' = now /\ calls' = calls /\ upsets' = upsets
      /\ shared' = shared \cup IF c \in crossed THEN ls
                     ELSE {l \in ls : \E other \in Campaigns \ {c} : l \in Engaged(other)}
  BY DEF ReadListings, Turn, Rows, World
<1>2. call' = [call EXCEPT ![p] = y]
  BY <1>0 DEF ReadListings, Types
<1>3. x \in CallType /\ ls \subseteq Listings /\ DOMAIN x.read = {}
  BY <1>0, <1>1, CallFields, RowsType DEF CallIsSound
<1>4. read \in Prices /\ DOMAIN read = ls /\ \A l \in ls : read[l] = price[l]
  <2>1. read \in [ls -> Nat] /\ DOMAIN read = ls /\ \A l \in ls : read[l] = price[l]
    BY <1>0, <1>3 DEF Types
  <2> HIDE DEF read, ls
  <2>2. QED
    BY <1>3, <2>1, ArePricesOf
<1> HIDE DEF read, ls
<1>5. /\ y \in CallType /\ y.at = "prices" /\ y.cur = c /\ y.read = read
      /\ y.rows = x.rows /\ y.op = "activate"
  <2>1. ASSUME NEW z, z = x, NEW r, r = read
        PROVE  /\ y \in CallType /\ y.at = "prices" /\ y.cur = c /\ y.read = r
               /\ y.rows = z.rows /\ y.op = z.op
    <3>1. z \in CallType /\ r \in Prices
      BY <1>3, <1>4, <2>1
    <3>2. y = [z EXCEPT !.at = "prices", !.cur = c, !.read = r]
      BY <2>1
    <3> HIDE DEF y
    <3>3. QED
      BY <3>1, <3>2 DEF CallType
  <2>2. QED
    BY <1>1, <2>1
<1> HIDE DEF y
<1>6. call'[p] = y /\ \A q \in Processes \ {p} : call'[q] = call[q]
  BY <1>0, <1>2 DEF Types
<1>7. shared \subseteq shared' /\ shared' \subseteq Listings
  BY <1>0, <1>1, <1>3 DEF Types
<1>8. Types'
  BY <1>0, <1>1, <1>2, <1>5, <1>7 DEF Types
<1>9. CallIsSound(y)
  BY <1>1, <1>5 DEF CallIsSound
<1>10. \A d, l : Engages(d, l)' <=> Engages(d, l) \/ (d = c /\ l \in ls)
  BY <1>1, <1>3, <1>4, <1>5, <1>6 DEF Engages
<1>11. c \in crossed => ls \subseteq shared'
  BY <1>1
<1>12. \A l \in ls : \A d \in Campaigns \ {c} : Engages(d, l) => l \in shared'
  BY <1>1, EngagedIs
<1>13. \A q \in Processes : CallIsSound(call'[q])
  BY <1>0, <1>6, <1>9
<1>14. Alone'
  BY <1>1, <1>5, <1>6 DEF IInv, Alone
<1>15. ReadsCurrent'
  <2> SUFFICES ASSUME NEW d \in Campaigns \ crossed, NEW q \in Processes, d \in DOMAIN call'[q].rows
               PROVE  Current(call'[q], d, scope[d], originals[d], status[d])
    BY <1>1 DEF ReadsCurrent
  <2>1. CASE q # p
    BY <1>6, <2>1 DEF IInv, ReadsCurrent
  <2>2. CASE q = p
    <3>1. d \in DOMAIN x.rows /\ y.rows[d] = x.rows[d] /\ call'[q] = y
      BY <1>5, <1>6, <2>2
    <3>2. x.rows[d].originals = originals[d] /\ x.rows[d].scope = scope[d]
      BY <1>1, <3>1 DEF IInv, ReadsCurrent, Current
    <3>3. d = c => DOMAIN y.read = scope[d]
      BY <1>4, <1>5, <3>2 DEF ls
    <3>4. QED
      BY <1>5, <3>1, <3>2, <3>3 DEF Current
  <2>3. QED
    BY <2>1, <2>2
<1>16. ActiveKeeps'
  BY <1>1 DEF IInv, ActiveKeeps
<1>17. CrossedShared'
  <2> SUFFICES ASSUME NEW d \in crossed
               PROVE  /\ \A l \in Listings : Engages(d, l)' => l \in shared'
                      /\ \A q \in Processes :
                           d \in DOMAIN call'[q].rows => DOMAIN call'[q].rows[d].originals \subseteq shared'
    BY <1>1 DEF CrossedShared
  <2>1. \A l \in Listings : Engages(d, l)' => l \in shared'
    BY <1>7, <1>10, <1>11 DEF IInv, CrossedShared
  <2>2. ASSUME NEW q \in Processes, d \in DOMAIN call'[q].rows
        PROVE  DOMAIN call'[q].rows[d].originals \subseteq shared'
    <3>1. call'[q].rows = call[q].rows
      BY <1>5, <1>6
    <3>2. QED
      BY <1>7, <2>2, <3>1 DEF IInv, CrossedShared
  <2>3. QED
    BY <2>1, <2>2
<1>18. OneEach'
  BY <1>7, <1>10, <1>12 DEF IInv, OneEach
<1>19. OriginalsOwned' /\ PricesOwned'
  BY <1>1, <1>7 DEF IInv, OriginalsOwned, PricesOwned
<1>20. ReadOwned'
  <2> SUFFICES ASSUME NEW q \in Processes, call'[q].at = "prices", NEW l \in DOMAIN call'[q].read
               PROVE  l \in shared' \/ l \in DOMAIN originals[call'[q].cur] \/ IsOwners(owner, edited, l, call'[q].read[l])
    BY <1>1 DEF ReadOwned
  <2>1. CASE q # p
    BY <1>6, <1>7, <2>1 DEF IInv, ReadOwned
  <2>2. CASE q = p
    <3>1. l \in ls /\ call'[q].read[l] = price[l] /\ call'[q].cur = c
      BY <1>4, <1>5, <1>6, <2>2
    <3>2. CASE \E d \in Campaigns \ {c} : l \in DOMAIN originals[d]
      BY <1>12, <3>1, <3>2 DEF Engages
    <3>3. CASE \A d \in Campaigns : l \notin DOMAIN originals[d]
      BY <1>3, <1>7, <3>1, <3>3 DEF IInv, PricesOwned
    <3>4. QED
      BY <3>1, <3>2, <3>3
  <2>3. QED
    BY <2>1, <2>2
<1>21. Restored'
  <2> SUFFICES ASSUME NEW q \in Processes, At(q, "deactivate")', NEW l \in DOMAIN originals[call'[q].cur]
               PROVE  l \in shared' \/ IsOwners(owner, edited, l, price[l])
    BY <1>1 DEF Restored
  <2>1. call'[q] = call[q] /\ At(q, "deactivate")
    BY <1>5, <1>6 DEF At
  <2>2. QED
    BY <1>7, <2>1 DEF IInv, Restored
<1>22. QED
  BY <1>8, <1>13, <1>14, <1>15, <1>16, <1>17, <1>18, <1>19, <1>20, <1>21 DEF IInv

\* The transaction of applyCampaignPrices: what it keeps anew it has read as an owner's price.
LEMMA Applies == ASSUME IInv, NEW p \in Processes, applyCampaignPrices(p) PROVE IInv'
<1> DEFINE x == call[p]
           c == x.cur
           read == x.read
           kept == x.rows[c].originals
           snap == Snapshots(kept, read)
           y == [x EXCEPT !.at = "write", !.read = Empty]
<1>0. /\ Types /\ \A q \in Processes : call[q] \in CallType /\ CallIsSound(call[q])
  BY DEF IInv, Types
<1>1. /\ x.at = "prices" /\ x.op = "activate"
      /\ price' = [l \in Listings |-> IF l \in DOMAIN read
                     THEN calculateDiscountedPrice(read[l], Discount[c]) ELSE price[l]]
      /\ originals' = [originals EXCEPT ![c] = snap]
      /\ status' = status /\ deleted' = deleted /\ scope' = scope
      /\ owner' = owner /\ edited' = edited /\ now' = now /\ calls' = calls /\ upsets' = upsets /\ crossed' = crossed /\ shared' = shared
  BY DEF applyCampaignPrices, World, Ghosts
<1>2. call' = [call EXCEPT ![p] = y]
  BY <1>0 DEF applyCampaignPrices, Types
<1>3. c \in DOMAIN x.rows /\ c \in Campaigns
  BY <1>0, <1>1, CallFields DEF CallIsSound
<1>4. read \in Prices /\ kept \in Prices /\ DOMAIN read \subseteq Listings /\ DOMAIN kept \subseteq Listings
  <2>1. read \in Prices /\ x.rows \in RowSets
    BY <1>0, CallFields
  <2>2. kept \in Prices
    BY <1>3, <2>1, RowsType
  <2>3. QED
    BY <2>1, <2>2, PricesType
<1>5. /\ snap \in Prices /\ DOMAIN snap = DOMAIN kept \cup DOMAIN read
      /\ \A l \in DOMAIN kept : snap[l] = kept[l]
      /\ \A l \in DOMAIN read : l \in DOMAIN kept \/ snap[l] = read[l]
  <2>1. (\A l \in DOMAIN kept : kept[l] \in Nat) /\ \A l \in DOMAIN read : read[l] \in Nat
    BY <1>4, PricesType
  <2> HIDE DEF kept, read
  <2>2. snap \in [DOMAIN kept \cup DOMAIN read -> Nat]
    BY <2>1 DEF Snapshots
  <2>3. QED
    BY <1>4, <2>2, ArePricesOf DEF Snapshots
<1> HIDE DEF snap
<1>6. /\ y \in CallType /\ y.at = "write" /\ y.cur = c /\ DOMAIN y.read = {}
      /\ y.rows = x.rows /\ y.op = "activate"
  <2>1. ASSUME NEW z, z = x
        PROVE  /\ y \in CallType /\ y.at = "write" /\ y.cur = z.cur /\ y.read = Empty
               /\ y.rows = z.rows /\ y.op = z.op
    <3>1. z \in CallType
      BY <1>0, <2>1
    <3>2. y = [z EXCEPT !.at = "write", !.read = Empty]
      BY <2>1
    <3> HIDE DEF y
    <3>3. QED
      BY <3>1, <3>2, EmptyType DEF CallType
  <2>2. QED
    BY <1>1, <2>1, EmptyType
<1> HIDE DEF y
<1>7. call'[p] = y /\ \A q \in Processes \ {p} : call'[q] = call[q]
  BY <1>0, <1>2 DEF Types
<1>8. originals'[c] = snap /\ \A d \in Campaigns \ {c} : originals'[d] = originals[d]
  BY <1>0, <1>1, <1>3 DEF Types
<1>9. (\A l \in DOMAIN read : Engages(c, l)) /\ c # "none"
  BY <1>3, CampaignPricesAssumption DEF Engages
<1>10. c \notin crossed => kept = originals[c] /\ DOMAIN read = scope[c]
  BY <1>1, <1>3 DEF IInv, ReadsCurrent, Current
<1>11. c \in crossed => DOMAIN kept \subseteq shared /\ DOMAIN read \subseteq shared
                        /\ DOMAIN originals[c] \subseteq shared
  <2> SUFFICES ASSUME c \in crossed
               PROVE  DOMAIN kept \subseteq shared /\ DOMAIN read \subseteq shared /\ DOMAIN originals[c] \subseteq shared
    OBVIOUS
  <2>1. DOMAIN originals[c] \subseteq Listings
    BY <1>0, <1>3, PricesType DEF Types
  <2>2. QED
    BY <1>3, <1>4, <1>9, <2>1 DEF IInv, CrossedShared, Engages
<1>12. \A q \in Processes \ {p} : c \in DOMAIN call[q].rows => c \in crossed
  BY <1>3 DEF IInv, Alone
<1> HIDE DEF kept
<1>13. \A d \in Campaigns : \A l \in Listings : Engages(d, l)' => Engages(d, l) \/ l \in shared
  <2>1. \A d \in Campaigns : \A l \in DOMAIN originals'[d] : Engages(d, l) \/ l \in shared
    <3>1. \A l \in DOMAIN originals'[c] : Engages(c, l) \/ l \in shared
      BY <1>5, <1>8, <1>9, <1>10, <1>11 DEF Engages
    <3>2. QED
      BY <1>8, <3>1 DEF Engages
  <2>2. \A q \in Processes : \A l \in DOMAIN call'[q].read : call'[q] = call[q]
    BY <1>6, <1>7
  <2>3. QED
    BY <2>1, <2>2 DEF Engages
<1>14. Types'
  <2>1. price' \in [Listings -> Nat]
    <3>1. \A l \in DOMAIN read : calculateDiscountedPrice(read[l], Discount[c]) \in Nat
      BY <1>3, <1>4, PricesType, DiscountType
    <3> HIDE DEF read, c
    <3>2. QED
      BY <1>0, <1>1, <3>1 DEF Types
  <2>2. originals' \in [Campaigns -> Prices]
    BY <1>0, <1>1, <1>3, <1>5 DEF Types
  <2>3. QED
    BY <1>0, <1>1, <1>2, <1>6, <2>1, <2>2 DEF Types
<1>15. CallIsSound(y)
  BY <1>3, <1>6 DEF CallIsSound
<1>16. \A q \in Processes : CallIsSound(call'[q])
  BY <1>0, <1>7, <1>15
<1>17. \A q \in Processes : call'[q].rows = call[q].rows
  BY <1>6, <1>7
<1>18. Alone'
  BY <1>1, <1>17 DEF IInv, Alone
<1>19. ReadsCurrent'
  <2> SUFFICES ASSUME NEW d \in Campaigns \ crossed, NEW q \in Processes, d \in DOMAIN call'[q].rows
               PROVE  Current(call'[q], d, scope[d], originals'[d], status[d])
    BY <1>1 DEF ReadsCurrent
  <2>0. d \in DOMAIN call[q].rows /\ Current(call[q], d, scope[d], originals[d], status[d])
    BY <1>17 DEF IInv, ReadsCurrent
  <2>1. CASE q # p /\ d # c
    BY <1>7, <1>8, <2>0, <2>1
  <2>2. CASE q # p /\ d = c
    BY <1>12, <2>0, <2>2
  <2>3. CASE q = p /\ d # c
    <3>1. x.rows[d].originals = originals[d] /\ x.rows[d].scope = scope[d]
      BY <2>0, <2>3 DEF Current
    <3>2. QED
      BY <1>6, <1>7, <1>8, <2>3, <3>1 DEF Current
  <2>4. CASE q = p /\ d = c
    <3>1. DOMAIN y.rows[c].originals \subseteq DOMAIN snap /\ scope[c] \subseteq DOMAIN snap
      BY <1>5, <1>6, <1>10, <2>4 DEF kept
    <3>2. QED
      BY <1>6, <1>7, <1>8, <2>4, <3>1 DEF Current
  <2>5. QED
    BY <2>1, <2>2, <2>3, <2>4
<1>20. ActiveKeeps'
  BY <1>1, <1>5, <1>8, <1>10 DEF IInv, ActiveKeeps
<1>21. CrossedShared'
  BY <1>0, <1>1, <1>13, <1>17 DEF IInv, CrossedShared, Types
<1>22. OneEach'
  BY <1>1, <1>13 DEF IInv, OneEach
<1>23. OriginalsOwned'
  <2> SUFFICES ASSUME NEW d \in Campaigns, NEW l \in DOMAIN originals'[d]
               PROVE  l \in shared \/ IsOwners(owner, edited, l, originals'[d][l])
    BY <1>1 DEF OriginalsOwned
  <2>1. CASE d # c
    BY <1>8, <2>1 DEF IInv, OriginalsOwned
  <2>2. CASE d = c /\ c \in crossed
    BY <1>5, <1>8, <1>11, <2>2
  <2>3. CASE d = c /\ c \notin crossed /\ l \in DOMAIN kept
    BY <1>3, <1>5, <1>8, <1>10, <2>3 DEF IInv, OriginalsOwned
  <2>4. CASE d = c /\ c \notin crossed /\ l \notin DOMAIN kept
    <3>1. l \in DOMAIN read /\ originals'[d][l] = read[l] /\ l \notin DOMAIN originals[c]
      BY <1>5, <1>8, <1>10, <2>4
    <3>2. QED
      BY <1>1, <3>1 DEF IInv, ReadOwned
  <2>5. QED
    BY <2>1, <2>2, <2>3, <2>4
<1>24. ReadOwned'
  <2> SUFFICES ASSUME NEW q \in Processes, call'[q].at = "prices", NEW l \in DOMAIN call'[q].read
               PROVE  l \in shared \/ l \in DOMAIN originals'[call'[q].cur] \/ IsOwners(owner, edited, l, call'[q].read[l])
    BY <1>1 DEF ReadOwned
  <2>1. q # p /\ call'[q] = call[q]
    BY <1>6, <1>7
  <2>2. call[q].cur \in DOMAIN call[q].rows /\ call[q].cur \in Campaigns /\ l \in Listings
    BY <1>0, <2>1, CallFields DEF CallIsSound
  <2>3. CASE call[q].cur = c
    <3>1. c \in crossed /\ Engages(c, l)
      BY <1>12, <2>1, <2>2, <2>3 DEF Engages
    <3>2. QED
      BY <2>2, <3>1 DEF IInv, CrossedShared
  <2>4. CASE call[q].cur # c
    BY <1>8, <2>1, <2>2, <2>4 DEF IInv, ReadOwned
  <2>5. QED
    BY <2>3, <2>4
<1>25. Restored'
  <2> SUFFICES ASSUME NEW q \in Processes, At(q, "deactivate")', NEW l \in DOMAIN originals'[call'[q].cur]
               PROVE  l \in shared \/ IsOwners(owner, edited, l, price'[l])
    BY <1>1 DEF Restored
  <2> DEFINE d == call[q].cur
  <2>1. q # p /\ call'[q] = call[q] /\ At(q, "deactivate")
    BY <1>6, <1>7 DEF At
  <2>2. d \in DOMAIN call[q].rows /\ d \in Campaigns
    BY <1>0, <2>1, CallFields DEF At, CallIsSound
  <2>3. CASE d = c
    BY <1>5, <1>8, <1>11, <1>12, <2>1, <2>2, <2>3
  <2>4. CASE d # c
    <3>1. l \in DOMAIN originals[d] /\ l \in Listings
      BY <1>0, <1>8, <2>1, <2>2, <2>4, PricesType DEF Types
    <3>2. CASE l \in DOMAIN read
      BY <1>3, <1>9, <2>2, <2>4, <3>1, <3>2 DEF IInv, OneEach, Engages
    <3>3. CASE l \notin DOMAIN read
      BY <1>1, <2>1, <3>1, <3>3 DEF IInv, Restored
    <3>4. QED
      BY <3>2, <3>3
  <2>5. QED
    BY <2>3, <2>4
<1>26. PricesOwned'
  <2> SUFFICES ASSUME NEW l \in Listings, \A d \in Campaigns : l \notin DOMAIN originals'[d]
               PROVE  l \in shared \/ IsOwners(owner, edited, l, price'[l])
    BY <1>1 DEF PricesOwned
  <2>1. l \notin DOMAIN kept /\ l \notin DOMAIN read /\ \A d \in Campaigns \ {c} : l \notin DOMAIN originals[d]
    BY <1>3, <1>5, <1>8
  <2>2. price'[l] = price[l]
    BY <1>1, <2>1
  <2>3. CASE l \in DOMAIN originals[c]
    BY <1>10, <1>11, <2>1, <2>3
  <2>4. CASE l \notin DOMAIN originals[c]
    BY <2>1, <2>2, <2>4 DEF IInv, PricesOwned
  <2>5. QED
    BY <2>3, <2>4
<1>27. QED
  BY <1>14, <1>16, <1>18, <1>19, <1>20, <1>21, <1>22, <1>23, <1>24, <1>25, <1>26 DEF IInv

\* The transaction of restoreCampaignPrices puts the owners' prices back.
LEMMA Restores == ASSUME IInv, NEW p \in Processes, NEW c \in Campaigns, restoreCampaignPrices(p, c) PROVE IInv'
<1> DEFINE x == call[p]
           kept == x.rows[c].originals
           y == [x EXCEPT !.at = "write", !.cur = c]
<1>0. /\ Types /\ \A q \in Processes : call[q] \in CallType /\ CallIsSound(call[q])
  BY DEF IInv, Types
<1>1. /\ x.at = "next" /\ x.op = "deactivate" /\ c \in DOMAIN x.rows /\ x.cur \in {c, "none"}
      /\ price' = [l \in Listings |-> IF l \in DOMAIN kept THEN kept[l] ELSE price[l]]
      /\ status' = status /\ deleted' = deleted /\ scope' = scope /\ originals' = originals
      /\ owner' = owner /\ edited' = edited /\ now' = now /\ calls' = calls /\ upsets' = upsets /\ crossed' = crossed /\ shared' = shared
  BY DEF restoreCampaignPrices, Turn, World, Ghosts
<1>2. call' = [call EXCEPT ![p] = y]
  BY <1>0 DEF restoreCampaignPrices, Types
<1>3. kept \in Prices /\ DOMAIN x.read = {} /\ \A l \in DOMAIN kept : kept[l] \in Nat
  <2>1. x.rows \in RowSets
    BY <1>0, CallFields
  <2>2. kept \in Prices
    BY <1>1, <2>1, RowsType
  <2>3. QED
    BY <1>0, <1>1, <2>2, PricesType DEF CallIsSound
<1>4. /\ y \in CallType /\ y.at = "write" /\ y.cur = c /\ DOMAIN y.read = {}
      /\ y.rows = x.rows /\ y.op = "deactivate"
  <2>1. ASSUME NEW z, z = x
        PROVE  /\ y \in CallType /\ y.at = "write" /\ y.cur = c /\ y.read = z.read
               /\ y.rows = z.rows /\ y.op = z.op
    <3>1. z \in CallType
      BY <1>0, <2>1
    <3>2. y = [z EXCEPT !.at = "write", !.cur = c]
      BY <2>1
    <3> HIDE DEF y
    <3>3. QED
      BY <3>1, <3>2 DEF CallType
  <2>2. QED
    BY <1>1, <1>3, <2>1
<1> HIDE DEF y
<1>5. call'[p] = y /\ \A q \in Processes \ {p} : call'[q] = call[q]
  BY <1>0, <1>2 DEF Types
<1>6. c \notin crossed => kept = originals[c]
  BY <1>1 DEF IInv, ReadsCurrent, Current
<1>7. c \in crossed => DOMAIN kept \subseteq shared /\ DOMAIN originals[c] \subseteq shared
  <2>1. DOMAIN originals[c] \subseteq Listings
    BY <1>0, PricesType DEF Types
  <2>2. QED
    BY <1>1, <2>1 DEF IInv, CrossedShared, Engages
<1>8. \A q \in Processes \ {p} : c \in DOMAIN call[q].rows => c \in crossed
  BY <1>1 DEF IInv, Alone
<1> HIDE DEF kept
<1>9. \A d, l : Engages(d, l)' <=> Engages(d, l)
  BY <1>1, <1>3, <1>4, <1>5 DEF Engages
<1>10. Types'
  BY <1>0, <1>1, <1>2, <1>3, <1>4 DEF Types
<1>11. CallIsSound(y)
  BY <1>1, <1>4 DEF CallIsSound
<1>12. \A q \in Processes : CallIsSound(call'[q]) /\ call'[q].rows = call[q].rows
  BY <1>0, <1>4, <1>5, <1>11
<1>13. Alone'
  BY <1>1, <1>12 DEF IInv, Alone
<1>14. ReadsCurrent'
  <2> SUFFICES ASSUME NEW d \in Campaigns \ crossed, NEW q \in Processes, d \in DOMAIN call'[q].rows
               PROVE  Current(call'[q], d, scope[d], originals[d], status[d])
    BY <1>1 DEF ReadsCurrent
  <2>1. CASE q # p
    BY <1>5, <2>1 DEF IInv, ReadsCurrent
  <2>2. CASE q = p
    <3>1. /\ x.rows[d].originals = originals[d] /\ x.rows[d].scope = scope[d]
          /\ call'[q] = y /\ y.rows[d] = x.rows[d]
      BY <1>1, <1>4, <1>5, <2>2 DEF IInv, ReadsCurrent, Current
    <3>2. QED
      BY <1>4, <3>1 DEF Current
  <2>3. QED
    BY <2>1, <2>2
<1>15. ActiveKeeps'
  BY <1>1 DEF IInv, ActiveKeeps
<1>16. CrossedShared'
  BY <1>1, <1>9, <1>12 DEF IInv, CrossedShared
<1>17. OneEach'
  BY <1>1, <1>9 DEF IInv, OneEach
<1>18. OriginalsOwned'
  BY <1>1 DEF IInv, OriginalsOwned
<1>19. ReadOwned'
  BY <1>1, <1>4, <1>5 DEF IInv, ReadOwned
<1>20. Restored'
  <2> SUFFICES ASSUME NEW q \in Processes, At(q, "deactivate")', NEW l \in DOMAIN originals[call'[q].cur]
               PROVE  l \in shared \/ IsOwners(owner, edited, l, price'[l])
    BY <1>1 DEF Restored
  <2> DEFINE d == call'[q].cur
  <2>1. CASE q = p
    <3>1. d = c /\ l \in DOMAIN originals[c] /\ l \in Listings
      BY <1>0, <1>4, <1>5, <2>1, PricesType DEF Types
    <3>2. CASE c \in crossed
      BY <1>7, <3>1, <3>2
    <3>3. CASE c \notin crossed
      <4>1. price'[l] = originals[c][l]
        BY <1>1, <1>6, <3>1, <3>3
      <4>2. QED
        BY <3>1, <4>1 DEF IInv, OriginalsOwned
    <3>4. QED
      BY <3>2, <3>3
  <2>2. CASE q # p
    <3>1. call'[q] = call[q] /\ At(q, "deactivate")
      BY <1>5, <2>2 DEF At
    <3>2. d \in DOMAIN call[q].rows /\ d \in Campaigns
      BY <1>0, <3>1, CallFields DEF At, CallIsSound
    <3>3. l \in DOMAIN originals[d] /\ l \in Listings
      BY <1>0, <3>2, PricesType DEF Types
    <3>4. CASE l \notin DOMAIN kept
      BY <1>1, <3>1, <3>3, <3>4 DEF IInv, Restored
    <3>5. CASE l \in DOMAIN kept /\ c \in crossed
      BY <1>7, <3>5
    <3>6. CASE l \in DOMAIN kept /\ c \notin crossed
      <4>1. d # c
        BY <1>8, <2>2, <3>2, <3>6
      <4>2. Engages(d, l) /\ Engages(c, l)
        BY <1>6, <3>3, <3>6 DEF Engages
      <4>3. QED
        BY <3>2, <3>3, <4>1, <4>2 DEF IInv, OneEach
    <3>7. QED
      BY <3>4, <3>5, <3>6
  <2>3. QED
    BY <2>1, <2>2
<1>21. PricesOwned'
  <2> SUFFICES ASSUME NEW l \in Listings, \A d \in Campaigns : l \notin DOMAIN originals[d]
               PROVE  l \in shared \/ IsOwners(owner, edited, l, price'[l])
    BY <1>1 DEF PricesOwned
  <2>1. CASE l \in DOMAIN kept
    BY <1>6, <1>7, <2>1
  <2>2. CASE l \notin DOMAIN kept
    BY <1>1, <2>2 DEF IInv, PricesOwned
  <2>3. QED
    BY <2>1, <2>2
<1>22. QED
  BY <1>10, <1>12, <1>13, <1>14, <1>15, <1>16, <1>17, <1>18, <1>19, <1>20, <1>21 DEF IInv

----------------------------------------------------------------------------
(* The other steps. *)

\* A user's request, or a tick of the task.
LEMMA BeginSteps ==
  ASSUME IInv,
         \/ \E p \in Callers : \E c \in Campaigns, op \in Ops : Request(p, op, c)
         \/ Tick \/ ReadToEnd
  PROVE  IInv'
<1>0. /\ Types /\ \A q \in Processes : call[q] \in CallType /\ CallIsSound(call[q])
      /\ "scheduler" \in Processes /\ calls \in 0..MaxCalls
  BY DEF IInv, Types, Processes
<1>1. ASSUME NEW p \in Callers, NEW c \in Campaigns, NEW op \in Ops, Request(p, op, c) PROVE IInv'
  <2>1. /\ call[p].at = "idle" /\ Allowed(op, status[c]) /\ calls < MaxCalls /\ calls' = calls + 1
        /\ Begin(p, op, IF op \in {"activate", "deactivate"} THEN "next" ELSE "write", c, {c})
        /\ UNCHANGED Rows /\ UNCHANGED <<owner, edited, now, upsets>>
    BY <1>1 DEF Request
  <2>2. calls' \in 0..MaxCalls
    BY <1>0, <2>1, CampaignPricesAssumption
  <2>3. p \in Processes /\ DOMAIN call[p].rows = {} /\ DOMAIN call[p].read = {}
    BY <1>0, <2>1 DEF CallIsSound, Processes
  <2>4. ASSUME NEW cs, cs = {c} PROVE IInv'
    <3>1. c \in Campaigns \cup {"none"} /\ cs \in SUBSET Campaigns /\ c \in cs /\ c \in cs \cup {"none"}
      BY <2>4
    <3>2. CASE op \in {"activate", "deactivate"}
      <4>1. Begin(p, op, "next", c, cs) /\ UNCHANGED Rows /\ UNCHANGED <<owner, edited, now, upsets>>
        BY <2>1, <2>4, <3>2
      <4>2. QED
        BY <2>2, <2>3, <3>1, <4>1, Begins
    <3>3. CASE op \notin {"activate", "deactivate"}
      <4>1. Begin(p, op, "write", c, cs) /\ UNCHANGED Rows /\ UNCHANGED <<owner, edited, now, upsets>>
        BY <2>1, <2>4, <3>3
      <4>2. op = "update" => status[c] # "ACTIVE"
        BY <2>1 DEF Allowed
      <4>3. QED
        BY <2>2, <2>3, <3>1, <3>3, <4>1, <4>2, Begins
    <3>4. QED
      BY <3>2, <3>3
  <2>5. QED
    BY <2>4
<1>2. ASSUME NEW op \in {"activate", "deactivate"}, NEW cs \in SUBSET Campaigns,
             Begin("scheduler", op, "next", "none", cs), call["scheduler"].at \in {"idle", "next"},
             DOMAIN call["scheduler"].rows = {}, UNCHANGED <<Rows, World>>
      PROVE  IInv'
  <2>1. calls' \in 0..MaxCalls /\ UNCHANGED <<owner, edited, now, upsets>> /\ UNCHANGED Rows
    BY <1>0, <1>2 DEF World
  <2>2. DOMAIN call["scheduler"].read = {}
    BY <1>0, <1>2 DEF CallIsSound
  <2>3. op \in Ops
    BY DEF Ops
  <2>4. QED
    BY <1>0, <1>2, <2>1, <2>2, <2>3, Begins
<1>3. CASE Tick
  BY <1>0, <1>2, <1>3 DEF Tick, CallIsSound, ToActivate
<1>4. CASE ReadToEnd /\ call["scheduler"].op = "activate"
  BY <1>2, <1>4 DEF ReadToEnd, ToEnd
<1>5. CASE ReadToEnd /\ call["scheduler"].op # "activate"
  <2>1. /\ call' = [call EXCEPT !["scheduler"] = Idle] /\ crossed' = crossed /\ shared' = shared
        /\ status' = status /\ deleted' = deleted /\ scope' = scope /\ originals' = originals /\ price' = price
        /\ owner' = owner /\ edited' = edited /\ now' = now /\ calls' = calls /\ upsets' = upsets
    BY <1>5 DEF ReadToEnd, Ghosts, Rows, World
  <2>2. Types'
    BY <1>0, <2>1, IdleLeft DEF Types
  <2>3. Left(call["scheduler"], call'["scheduler"]) /\ \A q \in Processes : call'[q] = call[q] \/ Left(call[q], call'[q])
    BY <1>0, <2>1, IdleLeft DEF Types
  <2>4. \A d \in Campaigns \ crossed :
          d = call["scheduler"].cur /\ status'[d] = "ACTIVE" => scope'[d] \subseteq DOMAIN originals'[d]
    BY <2>1 DEF IInv, ActiveKeeps
  <2>5. QED
    BY <1>0, <2>1, <2>2, <2>3, <2>4, Leaves DEF Ghosts
<1>6. QED
  BY <1>1, <1>3, <1>4, <1>5

\* What calls leave a campaign with.
LEMMA LeaveSteps ==
  ASSUME IInv, NEW p \in Processes,
         SetActive(p) \/ pauseCampaign(p) \/ SetEnded(p) \/ deleteCampaign(p) \/ updateCampaign(p)
  PROVE  IInv'
<1> DEFINE c == call[p].cur
<1>0. /\ Types /\ \A q \in Processes : call[q] \in CallType /\ CallIsSound(call[q])
  BY DEF IInv, Types
<1>1. /\ call[p].at = "write" /\ Leave(p, c) /\ price' = price /\ crossed' = crossed /\ shared' = shared
      /\ owner' = owner /\ edited' = edited /\ now' = now /\ calls' = calls /\ upsets' = upsets
  BY DEF SetActive, pauseCampaign, SetEnded, deleteCampaign, updateCampaign, At, World, Ghosts
<1>2. c \in DOMAIN call[p].rows /\ c \in Campaigns
  BY <1>0, <1>1, CallFields DEF CallIsSound
<1>3. PICK y \in CallType : call' = [call EXCEPT ![p] = y] /\ Left(call[p], y)
  BY <1>0, <1>1, <1>2, LeaveLeft DEF Turn
<1>4. Left(call[p], call'[p]) /\ \A q \in Processes : call'[q] = call[q] \/ Left(call[q], call'[q])
  BY <1>0, <1>3 DEF Types
<1>5. c \notin crossed => Current(call[p], c, scope[c], originals[c], status[c])
  BY <1>2 DEF IInv, ReadsCurrent
<1>6. /\ status' \in [Campaigns -> CampaignStatus] /\ deleted' \subseteq Campaigns
      /\ scope' \in [Campaigns -> SUBSET Listings] /\ originals' \in [Campaigns -> Prices]
      /\ \A d \in Campaigns : d # c =>
           status'[d] = status[d] /\ scope'[d] = scope[d] /\ originals'[d] = originals[d]
      /\ \A d \in Campaigns : \/ originals'[d] = originals[d]
                              \/ DOMAIN originals'[d] = {} /\ At(p, "deactivate") /\ d = c
      /\ c \notin crossed /\ status'[c] = "ACTIVE" => scope'[c] \subseteq DOMAIN originals'[c]
  <2>1. CASE SetActive(p)
    <3>1. /\ status' = [status EXCEPT ![c] = "ACTIVE"] /\ scope' = scope /\ originals' = originals
          /\ deleted' = deleted /\ call[p].op = "activate"
      BY <2>1 DEF SetActive, Becomes, At
    <3>2. c \notin crossed => scope[c] \subseteq DOMAIN originals[c]
      BY <1>1, <1>5, <3>1 DEF Current
    <3>3. QED
      BY <1>0, <1>2, <3>1, <3>2 DEF Types, CampaignStatus
  <2>2. CASE pauseCampaign(p)
    <3>1. /\ status' = [status EXCEPT ![c] = "PAUSED"] /\ scope' = scope /\ originals' = originals
          /\ deleted' = deleted
      BY <2>2 DEF pauseCampaign, Becomes
    <3>2. QED
      BY <1>0, <1>2, <3>1 DEF Types, CampaignStatus
  <2>3. CASE SetEnded(p)
    <3>1. /\ status' = [status EXCEPT ![c] = "ENDED"] /\ scope' = scope
          /\ originals' = [originals EXCEPT ![c] = Empty] /\ deleted' = deleted /\ At(p, "deactivate")
      BY <2>3 DEF SetEnded, Becomes
    <3>2. QED
      BY <1>0, <1>2, <3>1, EmptyType DEF Types, CampaignStatus
  <2>4. CASE deleteCampaign(p)
    <3>1. status' = status /\ scope' = scope /\ originals' = originals /\ deleted' = deleted \cup {c}
      BY <2>4 DEF deleteCampaign
    <3>2. QED
      BY <1>0, <1>2, <3>1 DEF Types, IInv, ActiveKeeps
  <2>5. CASE updateCampaign(p)
    <3>1. PICK ls \in Scopes : scope' = [scope EXCEPT ![c] = ls]
      BY <2>5 DEF updateCampaign
    <3>2. status' = status /\ originals' = originals /\ deleted' = deleted /\ call[p].op = "update"
      BY <2>5 DEF updateCampaign, At
    <3>3. ls \subseteq Listings
      BY CampaignPricesAssumption
    <3>4. c \notin crossed => status[c] # "ACTIVE"
      BY <1>1, <1>5, <3>2 DEF Current
    <3>5. QED
      BY <1>0, <1>2, <3>1, <3>2, <3>3, <3>4 DEF Types
  <2>6. QED
    BY <2>1, <2>2, <2>3, <2>4, <2>5
<1>7. Types'
  BY <1>0, <1>1, <1>3, <1>6 DEF Types
<1>8. QED
  BY <1>1, <1>4, <1>6, <1>7, Leaves DEF Ghosts

\* A failing statement, or the death of the process.
LEMMA FaultSteps ==
  ASSUME IInv, Crash \/ \E p \in Processes : StatementFails(p)
  PROVE  IInv'
<1>0. /\ Types /\ \A q \in Processes : call[q] \in CallType /\ CallIsSound(call[q])
      /\ "scheduler" \in Processes
  BY DEF IInv, Types, Processes
<1>1. /\ upsets < MaxUpsets /\ upsets' = upsets + 1 /\ price' = price /\ crossed' = crossed /\ shared' = shared
      /\ status' = status /\ deleted' = deleted /\ scope' = scope /\ originals' = originals
      /\ owner' = owner /\ edited' = edited /\ now' = now /\ calls' = calls
  BY DEF Crash, StatementFails, Rows, Ghosts
<1>2. upsets' \in 0..MaxUpsets
  BY <1>0, <1>1, CampaignPricesAssumption DEF Types
<1>3. \A p \in Processes : \A d \in Campaigns \ crossed :
        d = call[p].cur /\ status'[d] = "ACTIVE" => scope'[d] \subseteq DOMAIN originals'[d]
  BY <1>1 DEF IInv, ActiveKeeps
<1>4. ASSUME NEW p \in Processes, call' \in [Processes -> CallType], Left(call[p], call'[p]),
             \A q \in Processes : call'[q] = call[q] \/ Left(call[q], call'[q])
      PROVE  IInv'
  <2>1. Types'
    BY <1>0, <1>1, <1>2, <1>4 DEF Types
  <2>2. QED
    BY <1>1, <1>3, <1>4, <2>1, Leaves DEF Ghosts
<1>5. CASE Crash
  BY <1>0, <1>4, <1>5, IdleLeft DEF Crash
<1>6. ASSUME NEW p \in Processes, StatementFails(p) PROVE IInv'
  <2>1. \E y \in CallType : call' = [call EXCEPT ![p] = y] /\ Left(call[p], y)
    <3>1. ASSUME NEW c \in Campaigns, Turn(p, c), Leave(p, c)
          PROVE  \E y \in CallType : call' = [call EXCEPT ![p] = y] /\ Left(call[p], y)
      BY <1>0, <3>1, LeaveLeft
    <3>2. QED
      BY <1>6, <3>1, IdleLeft DEF StatementFails
  <2>2. QED
    BY <1>0, <1>4, <2>1 DEF Types
<1>7. QED
  BY <1>5, <1>6

\* Time passes.
LEMMA TimeStep == ASSUME IInv, TimePasses PROVE IInv'
<1>1. /\ call' = call /\ crossed' = crossed /\ shared' = shared /\ price' = price
      /\ status' = status /\ deleted' = deleted /\ scope' = scope /\ originals' = originals
      /\ owner' = owner /\ edited' = edited /\ calls' = calls /\ upsets' = upsets
  BY DEF TimePasses, Rows, Ghosts
<1>2. \A d, l : Engages(d, l)' <=> Engages(d, l)
  BY <1>1 DEF Engages
<1>3. Types'
  BY <1>1, CampaignPricesAssumption DEF IInv, Types, TimePasses
<1>4. Alone' /\ ReadsCurrent' /\ ActiveKeeps'
  BY <1>1 DEF IInv, Alone, ReadsCurrent, ActiveKeeps
<1>5. OriginalsOwned' /\ ReadOwned' /\ Restored' /\ PricesOwned'
  BY <1>1 DEF IInv, OriginalsOwned, ReadOwned, Restored, PricesOwned, At
<1>6. CrossedShared' /\ OneEach'
  BY <1>1, <1>2 DEF IInv, CrossedShared, OneEach
<1>7. QED
  BY <1>1, <1>3, <1>4, <1>5, <1>6 DEF IInv

\* An owner sets a price: where a campaign is at the listing, what it keeps is from now on only
\* one of the owner's prices.
LEMMA OwnerStep == ASSUME IInv, NEW m \in Listings, updatePrice(m) PROVE IInv'
<1>0. Types /\ \A q \in Processes : call[q] \in CallType /\ CallIsSound(call[q])
  BY DEF IInv, Types
<1>1. /\ call' = call /\ crossed' = crossed /\ shared' = shared
      /\ status' = status /\ deleted' = deleted /\ scope' = scope /\ originals' = originals
      /\ now' = now /\ calls' = calls
  BY DEF updatePrice, Ghosts
<1>2. PICK amount \in OwnerPrices :
        price' = [price EXCEPT ![m] = amount] /\ owner' = [owner EXCEPT ![m] = amount]
  BY DEF updatePrice
<1>3. /\ edited' \subseteq Listings
      /\ \A l \in Listings \ {m} : l \in edited' <=> l \in edited
      /\ \A c \in Campaigns : m \in Engaged(c) => m \in edited'
  BY <1>0 DEF updatePrice, Types
<1>4. Types'
  <2>1. upsets' \in 0..MaxUpsets
    BY <1>0, CampaignPricesAssumption DEF updatePrice, Types
  <2>2. price' \in [Listings -> Nat] /\ owner' \in [Listings -> OwnerPrices]
    BY <1>0, <1>2, CampaignPricesAssumption DEF Types
  <2>3. QED
    BY <1>0, <1>1, <1>3, <2>1, <2>2 DEF Types
<1>5. /\ price'[m] = amount /\ owner'[m] = amount
      /\ \A l \in Listings \ {m} : price'[l] = price[l] /\ owner'[l] = owner[l]
  BY <1>0, <1>2 DEF Types
<1>6. \A l \in Listings : \A x : IsOwners(owner, edited, l, x) /\ (l = m => m \in edited')
        => IsOwners(owner', edited', l, x)
  BY <1>3, <1>5 DEF IsOwners
<1>7. \A x \in OwnerPrices : x = amount \/ m \in edited' => IsOwners(owner', edited', m, x)
  BY <1>5 DEF IsOwners
<1>8. \A d, l : Engages(d, l)' <=> Engages(d, l)
  BY <1>1 DEF Engages
<1>9. \A c \in Campaigns : Engages(c, m) => m \in edited'
  BY <1>3, EngagedIs
<1>10. Alone' /\ ReadsCurrent' /\ ActiveKeeps' /\ CrossedShared' /\ OneEach'
  BY <1>1, <1>8 DEF IInv, Alone, ReadsCurrent, ActiveKeeps, CrossedShared, OneEach
<1>11. OriginalsOwned'
  <2> SUFFICES ASSUME NEW c \in Campaigns, NEW l \in DOMAIN originals[c], l \notin shared
               PROVE  IsOwners(owner', edited', l, originals[c][l])
    BY <1>1 DEF OriginalsOwned
  <2>1. l \in Listings /\ Engages(c, l)
    BY <1>0, PricesType DEF Types, Engages
  <2>2. IsOwners(owner, edited, l, originals[c][l])
    BY DEF IInv, OriginalsOwned
  <2>3. QED
    BY <1>6, <1>9, <2>1, <2>2
<1>12. ReadOwned'
  <2> SUFFICES ASSUME NEW q \in Processes, call[q].at = "prices", NEW l \in DOMAIN call[q].read,
                      l \notin shared, l \notin DOMAIN originals[call[q].cur]
               PROVE  IsOwners(owner', edited', l, call[q].read[l])
    BY <1>1 DEF ReadOwned
  <2>1. call[q].cur \in Campaigns /\ l \in Listings
    BY <1>0, CallFields DEF CallIsSound
  <2>2. Engages(call[q].cur, l)
    BY DEF Engages
  <2>3. IsOwners(owner, edited, l, call[q].read[l])
    BY DEF IInv, ReadOwned
  <2>4. QED
    BY <1>6, <1>9, <2>1, <2>2, <2>3
<1>13. Restored'
  <2> SUFFICES ASSUME NEW q \in Processes, At(q, "deactivate"), NEW l \in DOMAIN originals[call[q].cur],
                      l \notin shared
               PROVE  IsOwners(owner', edited', l, price'[l])
    BY <1>1 DEF Restored, At
  <2>1. call[q].cur \in Campaigns
    BY <1>0, CallFields DEF At, CallIsSound
  <2>2. l \in Listings
    BY <1>0, <2>1, PricesType DEF Types
  <2>3. CASE l = m
    BY <1>5, <1>7, <2>3
  <2>4. CASE l # m
    BY <1>5, <1>6, <2>2, <2>4 DEF IInv, Restored
  <2>5. QED
    BY <2>3, <2>4
<1>14. PricesOwned'
  <2> SUFFICES ASSUME NEW l \in Listings, \A c \in Campaigns : l \notin DOMAIN originals[c], l \notin shared
               PROVE  IsOwners(owner', edited', l, price'[l])
    BY <1>1 DEF PricesOwned
  <2>1. CASE l = m
    BY <1>5, <1>7, <2>1
  <2>2. CASE l # m
    BY <1>5, <1>6, <2>2 DEF IInv, PricesOwned
  <2>3. QED
    BY <2>1, <2>2
<1>15. QED
  BY <1>0, <1>1, <1>4, <1>10, <1>11, <1>12, <1>13, <1>14 DEF IInv

\* The invariant holds at the start.
LEMMA InvInit == Init => IInv
<1> SUFFICES ASSUME Init PROVE IInv
  OBVIOUS
<1>1. Idle \in CallType /\ CallIsSound(Idle) /\ DOMAIN Idle.rows = {} /\ DOMAIN Idle.read = {}
      /\ Idle.at = "idle"
  <2>1. Idle \in CallType /\ CallIsSound(Idle) /\ DOMAIN Idle.read = {}
    BY IdleLeft DEF Left
  <2>2. Idle.at = "idle" /\ Idle.rows = Empty
    BY CallingType DEF Idle
  <2>3. QED
    BY <2>1, <2>2, EmptyType
<1>2. Types
  <2>1. price \in [Listings -> Nat]
    BY CampaignPricesAssumption DEF Init
  <2>2. originals \in [Campaigns -> Prices] /\ call \in [Processes -> CallType]
    BY <1>1, EmptyType DEF Init
  <2>3. scope \in [Campaigns -> SUBSET Listings]
    BY CampaignPricesAssumption DEF Init
  <2>4. status \in [Campaigns -> CampaignStatus] /\ \A c \in Campaigns : status[c] # "ACTIVE"
    BY DEF Init, CampaignStatus
  <2>5. QED
    BY <2>1, <2>2, <2>3, <2>4, CampaignPricesAssumption DEF Init, Types
<1>3. \A q \in Processes : call[q] = Idle
  BY DEF Init
<1>4. \A c \in Campaigns : DOMAIN originals[c] = {} /\ status[c] # "ACTIVE"
  BY EmptyType DEF Init
<1>5. \A c \in Campaigns : \A l : ~Engages(c, l)
  BY <1>1, <1>3, <1>4 DEF Engages
<1>6. Alone /\ ReadsCurrent /\ ActiveKeeps
  BY <1>1, <1>3, <1>4 DEF Alone, ReadsCurrent, ActiveKeeps
<1>7. CrossedShared /\ OneEach
  BY <1>5 DEF CrossedShared, OneEach, Init
<1>8. OriginalsOwned /\ ReadOwned /\ Restored
  BY <1>1, <1>3, <1>4 DEF OriginalsOwned, ReadOwned, Restored, At
<1>9. PricesOwned
  <2>1. \A l \in Listings : price[l] \in OwnerPrices
    BY CampaignPricesAssumption DEF Init
  <2>2. owner = price
    BY DEF Init
  <2>3. QED
    BY <2>1, <2>2 DEF PricesOwned, IsOwners
<1>10. QED
  BY <1>1, <1>2, <1>3, <1>6, <1>7, <1>8, <1>9 DEF IInv

\* A step that changes nothing.
LEMMA NoStep == ASSUME IInv, UNCHANGED vars PROVE IInv'
<1>1. /\ call' = call /\ crossed' = crossed /\ shared' = shared /\ price' = price
      /\ status' = status /\ deleted' = deleted /\ scope' = scope /\ originals' = originals
      /\ owner' = owner /\ edited' = edited /\ now' = now /\ calls' = calls /\ upsets' = upsets
  BY DEF vars
<1>2. \A d, l : Engages(d, l)' <=> Engages(d, l)
  BY <1>1 DEF Engages
<1>3. Types' /\ Alone' /\ ReadsCurrent' /\ ActiveKeeps'
  BY <1>1 DEF IInv, Types, Alone, ReadsCurrent, ActiveKeeps
<1>4. OriginalsOwned' /\ ReadOwned' /\ Restored' /\ PricesOwned'
  BY <1>1 DEF IInv, OriginalsOwned, ReadOwned, Restored, PricesOwned, At
<1>5. CrossedShared' /\ OneEach'
  BY <1>1, <1>2 DEF IInv, CrossedShared, OneEach
<1>6. QED
  BY <1>1, <1>3, <1>4, <1>5 DEF IInv

\* Every step keeps the invariant.
LEMMA InvStep == IInv /\ [Next]_vars => IInv'
<1> SUFFICES ASSUME IInv, [Next]_vars PROVE IInv'
  OBVIOUS
<1>1. ASSUME NEW p \in Processes, Step(p) PROVE IInv'
  BY <1>1, Reads, Restores, Applies, LeaveSteps DEF Step
<1>2. "scheduler" \in Processes /\ Callers \subseteq Processes
  BY DEF Processes
<1>3. CASE UNCHANGED vars
  BY <1>3, NoStep
<1>4. CASE Next
  BY <1>1, <1>2, <1>4, BeginSteps, FaultSteps, TimeStep, OwnerStep DEF Next, Task
<1>5. QED
  BY <1>3, <1>4

----------------------------------------------------------------------------
(* The theorems. *)

\* The invariant holds in every reachable state.
THEOREM Inductive == Spec => []IInv
<1>1. QED
  BY InvInit, InvStep, PTL DEF Spec

\* The invariant has the types in it.
LEMMA TypesGiven == IInv => TypeOK
<1> SUFFICES ASSUME IInv PROVE TypeOK
  OBVIOUS
<1>0. Types /\ \A p \in Processes : CallIsSound(call[p]) /\ call[p] \in CallType
  BY DEF IInv, Types
<1>1. \A f \in Prices : ArePrices(f)
  BY PricesType DEF ArePrices
<1>2. \A c \in Campaigns : ArePrices(originals[c])
  BY <1>0, <1>1 DEF Types
<1>3. ASSUME NEW p \in Processes
      PROVE  /\ call[p].op \in Ops \cup {"none"}
             /\ call[p].at \in {"idle", "next", "prices", "write"}
             /\ call[p].cur \in DOMAIN call[p].rows \cup {"none"}
             /\ DOMAIN call[p].rows \subseteq Campaigns /\ ArePrices(call[p].read)
  BY <1>0, <1>1, CallFields DEF CallIsSound
<1>4. QED
  BY <1>0, <1>2, <1>3 DEF Types, TypeOK

\* What a campaign keeps of a listing is the price its owner gave it last before, and an active one keeps a price of
\* all it covers, whatever is paused, edited, switched on again or fails half-way, as long as
\* no two calls are at it at a time.
THEOREM OriginalsKept == Spec => []OriginalsAreKept
<1>1. IInv => OriginalsAreKept
  BY TypesGiven DEF IInv, OriginalsAreKept, ActiveKeeps, OriginalsOwned, IsOwners, Owned
<1>2. QED
  BY <1>1, Inductive, PTL

\* A listing of which no campaign keeps an original, and that none is at, has the price its
\* owner gave it last, or an earlier one where the last was given while a campaign was at it.
THEOREM NothingLeftDiscounted == Spec => []PricesComeBack
<1>1. IInv => PricesComeBack
  <2> SUFFICES ASSUME IInv, NEW l \in Listings \ shared, \A c \in Campaigns : l \notin Engaged(c)
               PROVE  Owned(l, price[l])
    BY DEF PricesComeBack
  <2>1. \A c \in Campaigns : l \notin DOMAIN originals[c]
    BY EngagedIs DEF Engages
  <2>2. QED
    BY <2>1 DEF IInv, PricesOwned, IsOwners, Owned
<1>2. QED
  BY <1>1, Inductive, PTL
=============================================================================
