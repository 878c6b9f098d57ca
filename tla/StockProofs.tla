---------------------------- MODULE StockProofs ----------------------------
(***************************************************************************)
(* Proofs about the stock: the counts and transfers in the warehouses      *)
(* (CentralStock), the merging of what the ERPs report (ErpStockMerge) and *)
(* the sharing out of a total over the marketplaces (StockDistribution),   *)
(* for every set of warehouses, products, sources and platforms and any    *)
(* number of faults.  The three specifications share no variable; each     *)
(* part below is about one of them.                                        *)
(***************************************************************************)
EXTENDS CentralStock, ErpStockMerge, StockDistribution, SumTheorems, TLAPS

----------------------------------------------------------------------------
(* Types.  TypeOK speaks of the fields of the requests' locals; that these are records, and *)
(* the rows functions, is added here.                                                        *)

Row == [place : Places, qty : Int]
Rows == UNION {[D -> Row] : D \in SUBSET RowIds}
Locals == [transfer : Transfers \cup {None}, count : Counts \cup {None}, stages : Seq(Stage),
           k : Nat \ {0}, row : RowIds, before : Int, wrote : Rows, sent : [Places -> Int]]

Types ==
  /\ rows \in Rows
  /\ ledger \in [Places -> Int]
  /\ moved \in [Transfers -> Nat]
  /\ transfer \in [Transfers -> TransferStatus]
  /\ count \in [Counts -> CountStatus]
  /\ pc \in [Requests -> {"idle", "cancel", "read", "write"} \cup Ended]
  /\ req \in [Requests -> Locals]

\* Every take is followed by a put of as many units of the same product, no put stands alone,
\* and a comparison is followed by the adjustment it may skip.
InPairs(st) ==
  \A i \in DOMAIN st :
    /\ st[i].kind = "take" => /\ i + 1 \in DOMAIN st /\ st[i + 1].kind \in {"put", "add"}
                              /\ st[i + 1].qty = st[i].qty
                              /\ ProductOf[st[i + 1].place] = ProductOf[st[i].place]
    /\ st[i].kind \in {"put", "add"} => i - 1 \in DOMAIN st /\ st[i - 1].kind = "take"
    /\ st[i].kind = "compare" => i + 1 \in DOMAIN st /\ st[i + 1].kind = "set"

\* A request about to write has read a row that is not below zero, and enough of it.
WriteIsSound(x) ==
  /\ x.k \in DOMAIN x.stages /\ x.stages[x.k].kind # "compare" /\ x.before >= 0
  /\ x.stages[x.k].kind = "take" => x.before >= x.stages[x.k].qty

\* No row is below zero.
NonNegative(f) == \A r \in DOMAIN f : f[r].qty >= 0

\* What a request with locals x has taken of the product of y, and has still to put.
Owed(x, y) ==
  IF x.k - 1 \in DOMAIN x.stages
  THEN LET s == x.stages[x.k - 1]
       IN  IF s.kind = "take" /\ ProductOf[s.place] = ProductOf[y] THEN s.qty ELSE 0
  ELSE 0

\* What holds of a request with locals x at the await l.
Sound(x, l) ==
  /\ InPairs(x.stages)
  /\ l = "write" => WriteIsSound(x)
  /\ NonNegative(x.wrote)
  /\ \A y \in Places : BalanceOf(x.sent, y) = 0 - Owed(x, y)

IInv ==
  /\ Types
  /\ \A p \in Requests : Sound(req[p], pc[p])
  /\ NonNegative(rows)
  /\ TransfersBalance
  /\ ClosedWithItsGoods

----------------------------------------------------------------------------
(* Rows. *)

\* A row more, or a row written over, are rows.
LEMMA RowsPlus ==
  ASSUME NEW f \in Rows, NEW r \in RowIds, NEW x \in Row
  PROVE  [q \in DOMAIN f \cup {r} |-> IF q = r THEN x ELSE f[q]] \in Rows
<1>1. PICK D \in SUBSET RowIds : f \in [D -> Row]
  BY DEF Rows
<1>2. [q \in DOMAIN f \cup {r} |-> IF q = r THEN x ELSE f[q]] \in [D \cup {r} -> Row]
  BY <1>1
<1>3. D \cup {r} \in SUBSET RowIds
  OBVIOUS
<1>4. QED
  BY <1>2, <1>3 DEF Rows

\* Rows laid over others are rows.
LEMMA RowsOver ==
  ASSUME NEW f \in Rows, NEW g \in Rows
  PROVE  [r \in DOMAIN f \cup DOMAIN g |-> IF r \in DOMAIN f THEN f[r] ELSE g[r]] \in Rows
<1>1. PICK D \in SUBSET RowIds : f \in [D -> Row]
  BY DEF Rows
<1>2. PICK E \in SUBSET RowIds : g \in [E -> Row]
  BY DEF Rows
<1>3. [r \in DOMAIN f \cup DOMAIN g |-> IF r \in DOMAIN f THEN f[r] ELSE g[r]] \in [D \cup E -> Row]
  BY <1>1, <1>2
<1>4. D \cup E \in SUBSET RowIds
  OBVIOUS
<1>5. QED
  BY <1>3, <1>4 DEF Rows

\* What is known of rows.
LEMMA RowsType ==
  ASSUME NEW f \in Rows
  PROVE  AreRows(f) /\ DOMAIN f \subseteq RowIds /\ \A r \in DOMAIN f : f[r] \in Row
BY DEF Rows, AreRows, Row

\* No rows are rows: a transaction starts with none of its own.
LEMMA NoRows == <<>> \in Rows
<1>1. <<>> \in [{} -> Row]
  OBVIOUS
<1>2. QED
  BY <1>1 DEF Rows

----------------------------------------------------------------------------
(* Stages. *)

\* A take and a put of the same goods are a pair of stages.
LEMMA PairType ==
  ASSUME NEW m \in Move, NEW put \in {"put", "add"}
  PROVE  /\ TakeAndPut(m, put) \in Seq(Stage) /\ InPairs(TakeAndPut(m, put))
         /\ Len(TakeAndPut(m, put)) = 2
         /\ TakeAndPut(m, put)[1] = At("take", m.from, m.qty)
         /\ TakeAndPut(m, put)[2] = At(put, m.to, m.qty)
<1>1. m.from \in Places /\ m.to \in Places /\ m.qty \in Nat /\ ProductOf[m.from] = ProductOf[m.to]
  BY DEF Move
<1>2. At("take", m.from, m.qty) \in Stage /\ At(put, m.to, m.qty) \in Stage
  BY <1>1 DEF At, Stage, Kinds
<1>3. /\ TakeAndPut(m, put) \in Seq(Stage) /\ Len(TakeAndPut(m, put)) = 2
      /\ DOMAIN TakeAndPut(m, put) = 1..2
      /\ TakeAndPut(m, put)[1] = At("take", m.from, m.qty)
      /\ TakeAndPut(m, put)[2] = At(put, m.to, m.qty)
  BY <1>2 DEF TakeAndPut
<1>4. InPairs(TakeAndPut(m, put))
  <2> DEFINE st == TakeAndPut(m, put)
  <2>1. /\ st[1].kind = "take" /\ st[1].qty = m.qty /\ st[1].place = m.from
        /\ st[2].kind = put /\ st[2].qty = m.qty /\ st[2].place = m.to
    BY <1>3 DEF At
  <2>2. DOMAIN st = 1..2
    BY <1>3
  <2> HIDE DEF st
  <2>3. \A i \in DOMAIN st : i = 1 \/ i = 2
    BY <2>2
  <2>4. 1 + 1 = 2 /\ 2 - 1 = 1 /\ 1 \in DOMAIN st /\ 2 \in DOMAIN st
    BY <2>2
  <2>5. InPairs(st)
    BY <1>1, <2>1, <2>3, <2>4 DEF InPairs
  <2>6. QED
    BY <2>5 DEF st
<1>5. QED
  BY <1>3, <1>4

\* Halves: where the two stages of an item stand.
LEMMA Halves ==
  ASSUME NEW n \in Nat, NEW i \in 1..(2 * n)
  PROVE  /\ (i + 1) \div 2 \in 1..n
         /\ \/ i % 2 = 1 /\ i + 1 \in 1..(2 * n) /\ ((i + 1) + 1) \div 2 = (i + 1) \div 2 /\ (i + 1) % 2 = 0
            \/ i % 2 = 0 /\ i - 1 \in 1..(2 * n) /\ ((i - 1) + 1) \div 2 = (i + 1) \div 2 /\ (i - 1) % 2 = 1
OBVIOUS

\* The stages of a transfer are pairs.
LEMMA TransferStages ==
  ASSUME NEW items \in Seq(Move)
  PROVE  StagesOf(items) \in Seq(Stage) /\ InPairs(StagesOf(items))
<1> DEFINE n == Len(items)
           st == StagesOf(items)
<1>1. n \in Nat /\ DOMAIN st = 1..(2 * n)
  BY DEF StagesOf
<1>2. ASSUME NEW i \in 1..(2 * n)
      PROVE  LET m == items[(i + 1) \div 2]
             IN  /\ m \in Move
                 /\ i % 2 = 1 => st[i] = At("take", m.from, m.qty)
                 /\ i % 2 = 0 => st[i] = At("put", m.to, m.qty)
  <2> DEFINE m == items[(i + 1) \div 2]
  <2>1. m \in Move
    BY <1>1, Halves
  <2>2. st[i] = TakeAndPut(m, "put")[2 - (i % 2)]
    BY DEF StagesOf
  <2>3. i % 2 = 1 => 2 - (i % 2) = 1
    OBVIOUS
  <2>4. i % 2 = 0 => 2 - (i % 2) = 2
    OBVIOUS
  <2> HIDE DEF m, st
  <2>5. TakeAndPut(m, "put")[1] = At("take", m.from, m.qty) /\ TakeAndPut(m, "put")[2] = At("put", m.to, m.qty)
    BY <2>1, PairType
  <2>6. QED
    BY <2>1, <2>2, <2>3, <2>4, <2>5 DEF m
<1>3. ASSUME NEW i \in 1..(2 * n)
      PROVE  /\ st[i] \in Stage
             /\ st[i].kind = "take" => /\ i + 1 \in 1..(2 * n) /\ st[i + 1].kind = "put"
                                       /\ st[i + 1].qty = st[i].qty
                                       /\ ProductOf[st[i + 1].place] = ProductOf[st[i].place]
             /\ st[i].kind = "put" => i - 1 \in 1..(2 * n) /\ st[i - 1].kind = "take"
             /\ st[i].kind \in {"take", "put"}
  <2> DEFINE m == items[(i + 1) \div 2]
  <2>1. m \in Move /\ m.from \in Places /\ m.to \in Places /\ m.qty \in Nat
        /\ ProductOf[m.from] = ProductOf[m.to]
    BY <1>2 DEF Move
  <2> HIDE DEF st
  <2>2. CASE i % 2 = 1
    <3>1. i + 1 \in 1..(2 * n) /\ items[((i + 1) + 1) \div 2] = m /\ (i + 1) % 2 = 0
      BY <1>1, <2>2, Halves
    <3>2. st[i] = At("take", m.from, m.qty) /\ st[i + 1] = At("put", m.to, m.qty)
      BY <1>2, <2>2, <3>1
    <3> HIDE DEF m
    <3>3. QED
      BY <2>1, <3>1, <3>2 DEF At, Stage, Kinds
  <2>3. CASE i % 2 = 0
    <3>1. i - 1 \in 1..(2 * n) /\ items[((i - 1) + 1) \div 2] = m /\ (i - 1) % 2 = 1
      BY <1>1, <2>3, Halves
    <3>2. st[i] = At("put", m.to, m.qty) /\ st[i - 1] = At("take", m.from, m.qty)
      BY <1>2, <2>3, <3>1
    <3> HIDE DEF m
    <3>3. QED
      BY <2>1, <3>1, <3>2 DEF At, Stage, Kinds
  <2>4. QED
    BY <1>1, <2>2, <2>3, Halves
<1>4. st \in Seq(Stage)
  <2>1. 2 * n \in Nat /\ \A i \in 1..(2 * n) : st[i] \in Stage
    BY <1>1, <1>3
  <2>2. st = [i \in 1..(2 * n) |-> st[i]]
    BY DEF StagesOf
  <2> HIDE DEF st, n
  <2>3. st \in [1..(2 * n) -> Stage]
    BY <2>1, <2>2
  <2>4. QED
    BY <2>1, <2>3
<1> HIDE DEF st
<1>5. InPairs(st)
  BY <1>1, <1>3 DEF InPairs
<1>6. QED
  BY <1>4, <1>5 DEF st

\* So are those of a count.
LEMMA CountStages ==
  ASSUME NEW items \in Seq(Setting)
  PROVE  StagesOfCount(items) \in Seq(Stage) /\ InPairs(StagesOfCount(items))
<1> DEFINE n == Len(items)
           st == StagesOfCount(items)
<1>1. n \in Nat /\ DOMAIN st = 1..(2 * n)
  BY DEF StagesOfCount
<1>2. ASSUME NEW i \in 1..(2 * n)
      PROVE  /\ st[i] \in Stage
             /\ i % 2 = 1 => st[i].kind = "compare"
             /\ i % 2 = 0 => st[i].kind = "set"
  <2> DEFINE c == items[(i + 1) \div 2]
  <2>1. c \in Setting
    BY <1>1, Halves
  <2>2. st[i] = At(IF i % 2 = 1 THEN "compare" ELSE "set", c.place, c.qty)
    BY DEF StagesOfCount
  <2> HIDE DEF c, st
  <2>3. c.place \in Places /\ c.qty \in Nat
    BY <2>1 DEF Setting
  <2>4. QED
    BY <2>2, <2>3 DEF At, Stage, Kinds
<1>3. st \in Seq(Stage)
  <2>1. st \in [1..(2 * n) -> Stage] /\ 2 * n \in Nat
    BY <1>1, <1>2 DEF StagesOfCount
  <2> HIDE DEF st, n
  <2>2. QED
    BY <2>1
<1> HIDE DEF st
<1>4. InPairs(st)
  <2>1. ASSUME NEW i \in 1..(2 * n)
        PROVE  /\ st[i].kind \in {"compare", "set"}
               /\ st[i].kind = "compare" => i + 1 \in 1..(2 * n) /\ st[i + 1].kind = "set"
    BY <1>1, <1>2, Halves
  <2>2. QED
    BY <1>1, <2>1 DEF InPairs
<1>5. QED
  BY <1>3, <1>4 DEF st

\* So is the one of a correction, and there are none before the transaction.
LEMMA OtherStages ==
  /\ \A s \in Setting : /\ <<At("set", s.place, s.qty)>> \in Seq(Stage)
                        /\ InPairs(<<At("set", s.place, s.qty)>>)
  /\ <<>> \in Seq(Stage) /\ InPairs(<<>>)
<1>1. ASSUME NEW s \in Setting
      PROVE  <<At("set", s.place, s.qty)>> \in Seq(Stage) /\ InPairs(<<At("set", s.place, s.qty)>>)
  <2>1. At("set", s.place, s.qty) \in Stage
    BY DEF At, Stage, Kinds, Setting
  <2>2. InPairs(<<At("set", s.place, s.qty)>>)
    BY DEF InPairs, At
  <2>3. QED
    BY <2>1, <2>2
<1>2. InPairs(<<>>)
  BY DEF InPairs
<1>3. QED
  BY <1>1, <1>2

\* What is assumed of the constants makes the rows at the start rows.
LEMMA RowsAtStart == Initial \in Rows /\ NonNegative(Initial)
<1>1. Initial \in [DOMAIN Initial -> Row] /\ DOMAIN Initial \in SUBSET RowIds
  BY CentralStockAssumption DEF AreRows, Row
<1>2. QED
  BY <1>1, CentralStockAssumption DEF Rows, NonNegative

----------------------------------------------------------------------------
(* Balances. *)

\* The terms of a balance.
Terms(n, x) == [l \in Places |-> IF ProductOf[l] = ProductOf[x] THEN n[l] ELSE 0]

\* Balances are integers.
LEMMA BalanceType ==
  ASSUME NEW n \in [Places -> Int], NEW x
  PROVE  BalanceOf(n, x) \in Int
<1>1. \A l \in Places : Terms(n, x)[l] \in Int
  BY DEF Terms
<1>2. SumFunctionOnSet(Terms(n, x), Places) \in Int
  BY <1>1, SumInt, CentralStockAssumption
<1>3. QED
  BY <1>2 DEF BalanceOf, Terms

\* Nothing balances.
LEMMA BalanceOfZero == ASSUME NEW x PROVE BalanceOf(Zero, x) = 0
<1>1. \A l \in Places : Terms(Zero, x)[l] = 0
  BY DEF Terms, Zero
<1>2. SumFunctionOnSet(Terms(Zero, x), Places) = 0
  BY <1>1, SumZero, CentralStockAssumption
<1>3. QED
  BY <1>2 DEF BalanceOf, Terms

\* Balances add up.
LEMMA BalanceAdds ==
  ASSUME NEW m \in [Places -> Int], NEW n \in [Places -> Int], NEW x
  PROVE  BalanceOf([l \in Places |-> m[l] + n[l]], x) = BalanceOf(m, x) + BalanceOf(n, x)
<1> DEFINE s == [l \in Places |-> m[l] + n[l]]
<1>1. \A l \in Places : /\ Terms(m, x)[l] \in Int /\ Terms(n, x)[l] \in Int
                         /\ Terms(s, x)[l] = Terms(m, x)[l] + Terms(n, x)[l]
  BY DEF Terms
<1>2. SumFunctionOnSet(Terms(s, x), Places)
        = SumFunctionOnSet(Terms(m, x), Places) + SumFunctionOnSet(Terms(n, x), Places)
  <2> HIDE DEF s
  <2>1. QED
    BY <1>1, SumPlus, CentralStockAssumption
<1>3. QED
  BY <1>2 DEF BalanceOf, Terms

\* A movement at one place changes the balance of its product by as much, and no other.
LEMMA BalanceMoves ==
  ASSUME NEW n \in [Places -> Int], NEW l \in Places, NEW q \in Int, NEW x
  PROVE  BalanceOf([n EXCEPT ![l] = n[l] + q], x)
           = BalanceOf(n, x) + IF ProductOf[l] = ProductOf[x] THEN q ELSE 0
<1> DEFINE s == [n EXCEPT ![l] = n[l] + q]
           d == IF ProductOf[l] = ProductOf[x] THEN q ELSE 0
<1>1. /\ \A y \in Places : Terms(n, x)[y] \in Int /\ Terms(s, x)[y] \in Int
      /\ \A y \in Places \ {l} : Terms(s, x)[y] = Terms(n, x)[y]
      /\ Terms(s, x)[l] - Terms(n, x)[l] = d
  BY DEF Terms
<1>2. SumFunctionOnSet(Terms(s, x), Places)
        = SumFunctionOnSet(Terms(n, x), Places) + (Terms(s, x)[l] - Terms(n, x)[l])
  <2> HIDE DEF s, d
  <2>1. QED
    BY <1>1, SumChange, CentralStockAssumption
<1>3. BalanceOf(s, x) = BalanceOf(n, x) + d
  BY <1>1, <1>2 DEF BalanceOf, Terms
<1>4. QED
  BY <1>3

----------------------------------------------------------------------------
(* Requests. *)

\* A stage has a place and a quantity.
LEMMA StageType ==
  ASSUME Types, NEW p \in Requests, AtStage(p)
  PROVE  /\ StageOf(p) \in Stage /\ StageOf(p).kind \in Kinds /\ PlaceOf(p) \in Places
         /\ StageOf(p).place = PlaceOf(p) /\ StageOf(p).qty \in Nat
<1>1. req[p].stages \in Seq(Stage) /\ req[p].k \in DOMAIN req[p].stages
  BY DEF Types, Locals, AtStage
<1>2. StageOf(p) \in Stage
  BY <1>1 DEF StageOf
<1>3. QED
  BY <1>2 DEF Stage, PlaceOf

\* What a transaction sees are rows, and none below zero where neither its own nor the
\* committed ones are.
LEMMA Viewed ==
  ASSUME Types, NEW p \in Requests
  PROVE  View(p) \in Rows /\ (NonNegative(rows) /\ NonNegative(req[p].wrote) => NonNegative(View(p)))
<1>1. req[p].wrote \in Rows /\ rows \in Rows
  BY DEF Types, Locals
<1>2. View(p) \in Rows
  BY <1>1, RowsOver DEF View
<1>3. QED
  BY <1>2 DEF View, NonNegative

\* findFirst finds a row, or one that can be created.
LEMMA FoundType ==
  ASSUME Types, NEW p \in Requests, NEW r \in Found(p)
  PROVE  /\ r \in RowIds /\ Sees(p, r) \in Int
         /\ NonNegative(rows) /\ NonNegative(req[p].wrote) => Sees(p, r) >= 0
<1>1. View(p) \in Rows
  BY Viewed
<1>2. DOMAIN View(p) \subseteq RowIds /\ \A q \in DOMAIN View(p) : View(p)[q].qty \in Int
  <2>1. DOMAIN View(p) \subseteq RowIds /\ \A q \in DOMAIN View(p) : View(p)[q] \in Row
    BY <1>1, RowsType
  <2>2. \A x \in Row : x.qty \in Int
    BY DEF Row
  <2>3. QED
    BY <2>1, <2>2
<1>3. r \in RowIds
  <2>1. r \in DOMAIN View(p) \/ r = <<p, req[p].k>>
    BY DEF Found
  <2>2. <<p, req[p].k>> \in RowIds
    BY DEF Types, Locals, RowIds
  <2>3. QED
    BY <1>2, <2>1, <2>2
<1>4. Sees(p, r) \in Int
  BY <1>2 DEF Sees
<1>5. NonNegative(rows) /\ NonNegative(req[p].wrote) => Sees(p, r) >= 0
  BY Viewed DEF Sees, NonNegative
<1>6. QED
  BY <1>3, <1>4, <1>5

\* The locals of a request that has written nothing yet.
Fresh(x) == x \in Locals /\ InPairs(x.stages) /\ x.k = 1 /\ x.wrote = <<>> /\ x.sent = Zero

\* What the calls start and end with is of this kind.
LEMMA FreshOnes ==
  /\ Fresh(NoReq)
  /\ \A t \in Transfers : /\ Fresh(Called(t, None, <<>>))
                          /\ Fresh(Called(t, None, StagesOf(ItemsOf[t])))
  /\ \A c \in Counts : /\ Fresh(Called(None, c, <<>>))
                       /\ Fresh(Called(None, c, StagesOfCount(CountedIn[c])))
  /\ \A m \in Direct : Fresh(Called(None, None, TakeAndPut(m, "add")))
  /\ \A s \in NewStock : Fresh(Called(None, None, <<At("set", s.place, s.qty)>>))
<1>1. ASSUME NEW t \in Transfers \cup {None}, NEW c \in Counts \cup {None}, NEW st \in Seq(Stage), InPairs(st)
      PROVE  Fresh(Called(t, c, st))
  <2>1. <<None, 0>> \in RowIds
    BY DEF RowIds
  <2>2. Zero \in [Places -> Int]
    BY DEF Zero
  <2>3. QED
    BY <1>1, <2>1, <2>2, NoRows DEF Fresh, Locals, Called
<1>2. <<>> \in Seq(Stage) /\ InPairs(<<>>)
  BY OtherStages
<1>3. Fresh(NoReq)
  BY <1>1, <1>2 DEF NoReq
<1>4. ASSUME NEW t \in Transfers
      PROVE  Fresh(Called(t, None, <<>>)) /\ Fresh(Called(t, None, StagesOf(ItemsOf[t])))
  <2>1. ItemsOf[t] \in Seq(Move)
    BY CentralStockAssumption
  <2>2. StagesOf(ItemsOf[t]) \in Seq(Stage) /\ InPairs(StagesOf(ItemsOf[t]))
    BY <2>1, TransferStages
  <2>3. QED
    BY <1>1, <1>2, <2>2
<1>5. ASSUME NEW c \in Counts
      PROVE  Fresh(Called(None, c, <<>>)) /\ Fresh(Called(None, c, StagesOfCount(CountedIn[c])))
  <2>1. CountedIn[c] \in Seq(Setting)
    BY CentralStockAssumption
  <2>2. StagesOfCount(CountedIn[c]) \in Seq(Stage) /\ InPairs(StagesOfCount(CountedIn[c]))
    BY <2>1, CountStages
  <2>3. QED
    BY <1>1, <1>2, <2>2
<1>6. ASSUME NEW m \in Direct PROVE Fresh(Called(None, None, TakeAndPut(m, "add")))
  <2>1. m \in Move
    BY CentralStockAssumption
  <2>2. TakeAndPut(m, "add") \in Seq(Stage) /\ InPairs(TakeAndPut(m, "add"))
    BY <2>1, PairType
  <2>3. QED
    BY <1>1, <2>2
<1>7. ASSUME NEW s \in NewStock PROVE Fresh(Called(None, None, <<At("set", s.place, s.qty)>>))
  <2>1. s \in Setting
    BY CentralStockAssumption
  <2>2. <<At("set", s.place, s.qty)>> \in Seq(Stage) /\ InPairs(<<At("set", s.place, s.qty)>>)
    BY <2>1, OtherStages
  <2>3. QED
    BY <1>1, <2>2
<1>8. QED
  BY <1>3, <1>4, <1>5, <1>6, <1>7

\* They are sound outside a write.
LEMMA FreshIsSound ==
  ASSUME NEW x, Fresh(x), NEW l, l # "write"
  PROVE  Sound(x, l)
<1>1. \A y : BalanceOf(x.sent, y) = 0
  BY BalanceOfZero DEF Fresh
<1>2. \A y : Owed(x, y) = 0
  <2>1. x.k - 1 \notin DOMAIN x.stages
    BY DEF Fresh, Locals
  <2>2. QED
    BY <2>1 DEF Owed
<1>3. NonNegative(x.wrote)
  <2>1. DOMAIN x.wrote = {}
    BY DEF Fresh
  <2>2. QED
    BY <2>1 DEF NonNegative
<1>4. \A y \in Places : BalanceOf(x.sent, y) = 0 - Owed(x, y)
  BY <1>1, <1>2
<1>5. QED
  BY <1>3, <1>4 DEF Sound, Fresh

----------------------------------------------------------------------------
\* A step of one request that leaves the tables alone keeps the invariant when that request
\* stays sound.
LEMMA LocalStep ==
  ASSUME IInv, NEW p \in Requests, NEW x \in Locals, NEW l \in {"idle", "cancel", "read", "write"} \cup Ended,
         pc' = [pc EXCEPT ![p] = l], req' = [req EXCEPT ![p] = x], Sound(x, l), UNCHANGED Tables
  PROVE  IInv'
<1>1. Types'
  BY DEF IInv, Types, Tables
<1>2. \A q \in Requests : Sound(req'[q], pc'[q])
  BY DEF IInv, Types
<1>3. /\ NonNegative(rows') /\ ClosedWithItsGoods'
      /\ \A y \in Places : BalanceOf(ledger', y) = 0
  BY DEF IInv, Tables, NonNegative, ClosedWithItsGoods, TransfersBalance
<1>4. QED
  BY <1>1, <1>2, <1>3 DEF IInv, TransfersBalance

\* So does one that begins or ends a request.
LEMMA FreshStep ==
  ASSUME IInv, NEW p \in Requests, NEW x, Fresh(x), NEW l \in {"cancel", "read"} \cup Ended,
         pc' = [pc EXCEPT ![p] = l], req' = [req EXCEPT ![p] = x], UNCHANGED Tables
  PROVE  IInv'
<1>1. x \in Locals /\ Sound(x, l)
  BY FreshIsSound DEF Fresh, Ended
<1>2. QED
  BY <1>1, LocalStep

\* The invariant holds at the start.
LEMMA InvInit == Init => IInv
<1> SUFFICES ASSUME Init PROVE IInv
  OBVIOUS
<1>1. Fresh(NoReq) /\ NoReq \in Locals /\ Sound(NoReq, "idle")
  <2>1. Fresh(NoReq)
    BY FreshOnes
  <2>2. NoReq \in Locals
    BY <2>1 DEF Fresh
  <2>3. QED
    BY <2>1, <2>2, FreshIsSound
<1>2. Types
  BY <1>1, RowsAtStart DEF Init, Types, Zero, TransferStatus, CountStatus
<1>3. TransfersBalance
  BY BalanceOfZero DEF Init, TransfersBalance
<1>4. ClosedWithItsGoods
  BY DEF Init, ClosedWithItsGoods
<1>5. NonNegative(rows)
  BY RowsAtStart DEF Init
<1>6. QED
  BY <1>1, <1>2, <1>3, <1>4, <1>5 DEF Init, IInv

\* A call that is made, or refused at once.
LEMMA StartStep ==
  ASSUME IInv, NEW p \in Requests, Start(p)
  PROVE  IInv'
<1> USE DEF Goto, End, Ended
<1>1. ASSUME NEW t \in Transfers, StartConfirm(p, t) \/ StartCancel(p, t) PROVE IInv'
  <2>1. CASE StartConfirm(p, t) /\ transfer[t] \in OpenTransfer
    BY <2>1, FreshOnes, FreshStep DEF StartConfirm
  <2>2. CASE StartCancel(p, t) /\ transfer[t] \in OpenTransfer
    BY <2>2, FreshOnes, FreshStep DEF StartCancel
  <2>3. CASE transfer[t] \notin OpenTransfer
    <3>1. End(p, "failed") /\ UNCHANGED Tables
      BY <1>1, <2>3 DEF StartConfirm, StartCancel
    <3>2. QED
      BY <3>1, FreshOnes, FreshStep
  <2>4. QED
    BY <1>1, <2>1, <2>2, <2>3
<1>2. ASSUME NEW c \in Counts, StartApply(p, c) \/ StartCancelCount(p, c) PROVE IInv'
  <2>1. CASE StartApply(p, c) /\ count[c] = "IN_PROGRESS"
    BY <2>1, FreshOnes, FreshStep DEF StartApply
  <2>2. CASE StartCancelCount(p, c) /\ count[c] = "IN_PROGRESS"
    BY <2>2, FreshOnes, FreshStep DEF StartCancelCount
  <2>3. CASE count[c] # "IN_PROGRESS"
    <3>1. End(p, "failed") /\ UNCHANGED Tables
      BY <1>2, <2>3 DEF StartApply, StartCancelCount
    <3>2. QED
      BY <3>1, FreshOnes, FreshStep
  <2>4. QED
    BY <1>2, <2>1, <2>2, <2>3
<1>3. ASSUME NEW m \in Direct, StartDirect(p, m) PROVE IInv'
  BY <1>3, FreshOnes, FreshStep DEF StartDirect
<1>4. ASSUME NEW s \in NewStock, StartNewStock(p, s) PROVE IInv'
  BY <1>4, FreshOnes, FreshStep DEF StartNewStock
<1>5. QED
  BY <1>1, <1>2, <1>3, <1>4 DEF Start

\* A request that fails.
LEMMA FailStep ==
  ASSUME IInv, NEW p \in Requests, RefuseTake(p) \/ DeadlockVictim(p) \/ Crash(p)
  PROVE  IInv'
<1>1. End(p, "failed") /\ UNCHANGED Tables
  BY DEF RefuseTake, DeadlockVictim, Crash
<1>2. QED
  BY <1>1, FreshOnes, FreshStep DEF End, Goto, Ended

\* A transfer or a count is cancelled.
LEMMA CancelStep ==
  ASSUME IInv, NEW p \in Requests, WriteCancelled(p)
  PROVE  IInv'
<1>0. Types
  BY DEF IInv
<1>1. /\ pc' = [pc EXCEPT ![p] = "done"] /\ req' = [req EXCEPT ![p] = NoReq]
      /\ transfer' = [t \in Transfers |-> IF t = req[p].transfer THEN "CANCELLED" ELSE transfer[t]]
      /\ count' = [c \in Counts |-> IF c = req[p].count THEN "CANCELLED" ELSE count[c]]
      /\ rows' = rows /\ ledger' = ledger /\ moved' = moved
  BY DEF WriteCancelled, End, Goto
<1>2. NoReq \in Locals /\ Sound(NoReq, "done")
  <2>1. Fresh(NoReq)
    BY FreshOnes
  <2>2. NoReq \in Locals
    BY <2>1 DEF Fresh
  <2>3. QED
    BY <2>1, <2>2, FreshIsSound
<1>3. Types'
  BY <1>0, <1>1, <1>2 DEF Types, TransferStatus, CountStatus, Ended
<1>4. \A q \in Requests : Sound(req'[q], pc'[q])
  BY <1>0, <1>1, <1>2 DEF IInv, Types
<1>5. ClosedWithItsGoods'
  BY <1>1 DEF IInv, ClosedWithItsGoods, OpenTransfer
<1>6. NonNegative(rows') /\ \A y \in Places : BalanceOf(ledger', y) = 0
  BY <1>1 DEF IInv, TransfersBalance
<1>7. QED
  BY <1>3, <1>4, <1>5, <1>6 DEF IInv, TransfersBalance

\* findFirst.
LEMMA ReadStep ==
  ASSUME IInv, NEW p \in Requests, ReadRow(p)
  PROVE  IInv'
<1>0. Types /\ req[p] \in Locals /\ Sound(req[p], pc[p]) /\ NonNegative(rows)
  BY DEF IInv, Types
<1>1. /\ pc[p] = "read" /\ AtStage(p) /\ StageOf(p).kind # "compare"
      /\ pc' = [pc EXCEPT ![p] = "write"] /\ UNCHANGED Tables
  BY DEF ReadRow, Goto
<1>2. PICK r \in Found(p) : ~Short(p, r) /\ req' = [req EXCEPT ![p].row = r, ![p].before = Sees(p, r)]
  BY DEF ReadRow
<1>3. r \in RowIds /\ Sees(p, r) \in Int /\ Sees(p, r) >= 0
  BY <1>0, FoundType DEF Sound
<1>4. StageOf(p).qty \in Nat
  BY <1>0, <1>1, StageType
<1>5. StageOf(p).kind = "take" => Sees(p, r) >= StageOf(p).qty
  BY <1>2, <1>3, <1>4 DEF Short
<1> DEFINE x == [req[p] EXCEPT !.row = r, !.before = Sees(p, r)]
<1>6. /\ x \in Locals /\ x.stages = req[p].stages /\ x.k = req[p].k /\ x.wrote = req[p].wrote
      /\ x.sent = req[p].sent /\ x.before = Sees(p, r)
  BY <1>0, <1>3 DEF Locals
<1>7. req' = [req EXCEPT ![p] = x]
  BY <1>0, <1>2 DEF Types
<1> HIDE DEF x
<1>8. WriteIsSound(x)
  BY <1>1, <1>3, <1>5, <1>6 DEF WriteIsSound, AtStage, StageOf
<1>9. \A y : Owed(x, y) = Owed(req[p], y)
  BY <1>6 DEF Owed
<1>10. Sound(x, "write")
  BY <1>0, <1>6, <1>8, <1>9 DEF Sound
<1>11. QED
  BY <1>1, <1>6, <1>7, <1>10, LocalStep

\* The comparison of a count.
LEMMA CompareStep ==
  ASSUME IInv, NEW p \in Requests, Compare(p)
  PROVE  IInv'
<1>0. Types /\ req[p] \in Locals /\ Sound(req[p], pc[p])
  BY DEF IInv, Types
<1>1. /\ pc[p] = "read" /\ AtStage(p) /\ StageOf(p).kind = "compare" /\ pc' = pc
      /\ UNCHANGED Tables
  BY DEF Compare, Tables
<1>2. PICK d \in {1, 2} : req' = [req EXCEPT ![p].k = @ + d]
  BY DEF Compare
<1> DEFINE k == req[p].k
           st == req[p].stages
           x == [req[p] EXCEPT !.k = k + d]
<1>3. k \in Nat /\ k > 0 /\ st \in Seq(Stage) /\ InPairs(st) /\ k \in DOMAIN st /\ st[k].kind = "compare"
  BY <1>0, <1>1 DEF Locals, Sound, AtStage, StageOf
<1>4. /\ x \in Locals /\ x.stages = st /\ x.k = k + d /\ x.wrote = req[p].wrote /\ x.sent = req[p].sent
  BY <1>0, <1>3 DEF Locals
<1>5. req' = [req EXCEPT ![p] = x]
  BY <1>0, <1>2 DEF Types
<1>6. pc' = [pc EXCEPT ![p] = "read"]
  BY <1>0, <1>1 DEF Types
<1> HIDE DEF x, k, st
<1>7. k + 1 \in DOMAIN st /\ st[k + 1].kind = "set"
  BY <1>3 DEF InPairs
\* The comparison and the adjustment are no takes; the stage before them owes nothing.
<1>8. \A y : Owed(x, y) = 0
  <2>1. x.k - 1 = k \/ x.k - 1 = k + 1
    BY <1>3, <1>4
  <2>2. x.stages[x.k - 1].kind # "take"
    BY <1>3, <1>4, <1>7, <2>1
  <2>3. QED
    BY <2>2 DEF Owed
<1>9. \A y : Owed(req[p], y) = 0
  <2>1. k - 1 \in DOMAIN st => st[k - 1].kind # "take"
    <3>1. k - 1 + 1 = k
      BY <1>3
    <3>2. QED
      BY <1>3, <3>1 DEF InPairs
  <2>2. QED
    BY <2>1 DEF Owed, k, st
<1>10. Sound(x, "read")
  BY <1>0, <1>3, <1>4, <1>8, <1>9 DEF Sound
<1>11. QED
  BY <1>1, <1>4, <1>5, <1>6, <1>10, LocalStep

\* A row is written.
LEMMA WriteStep ==
  ASSUME IInv, NEW p \in Requests, WriteRow(p)
  PROVE  IInv'
<1> DEFINE k == req[p].k
           st == req[p].stages
           s == StageOf(p)
           new == [place |-> PlaceOf(p), qty |-> NewQty(p)]
           wrote == [r \in DOMAIN req[p].wrote \cup {req[p].row} |->
                       IF r = req[p].row THEN new ELSE req[p].wrote[r]]
           sent == [req[p].sent EXCEPT ![PlaceOf(p)] = @ + Sent(s)]
           x == [req[p] EXCEPT !.wrote = wrote, !.sent = sent, !.k = k + 1]
<1>0. Types /\ req[p] \in Locals /\ Sound(req[p], pc[p]) /\ NonNegative(rows)
  BY DEF IInv, Types
<1>1. pc[p] = "write" /\ pc' = [pc EXCEPT ![p] = "read"] /\ UNCHANGED Tables
  BY DEF WriteRow, Goto
<1>2. req' = [req EXCEPT ![p] = x]
  BY <1>0 DEF WriteRow, Types
<1>3. WriteIsSound(req[p]) /\ InPairs(st) /\ NonNegative(req[p].wrote)
      /\ \A y \in Places : BalanceOf(req[p].sent, y) = 0 - Owed(req[p], y)
  BY <1>0, <1>1 DEF Sound
<1>4. AtStage(p) /\ k \in Nat /\ k > 0 /\ st \in Seq(Stage) /\ k \in DOMAIN st /\ s = st[k]
      /\ s.kind # "compare" /\ req[p].before >= 0 /\ (s.kind = "take" => req[p].before >= s.qty)
  BY <1>0, <1>3 DEF WriteIsSound, AtStage, StageOf, Locals
<1>5. s \in Stage /\ s.kind \in Kinds /\ PlaceOf(p) \in Places /\ s.place = PlaceOf(p) /\ s.qty \in Nat
  BY <1>0, <1>4, StageType
<1>6. /\ req[p].wrote \in Rows /\ req[p].row \in RowIds /\ req[p].before \in Int
      /\ req[p].sent \in [Places -> Int]
  BY <1>0 DEF Locals
<1>7. Sees(p, req[p].row) \in Int /\ Sees(p, req[p].row) >= 0
  <2>1. View(p) \in Rows /\ NonNegative(View(p))
    BY <1>0, <1>3, Viewed
  <2>2. \A r \in DOMAIN View(p) : View(p)[r] \in Row
    BY <2>1, RowsType
  <2>3. \A r \in DOMAIN View(p) : View(p)[r].qty \in Int /\ View(p)[r].qty >= 0
    BY <2>1, <2>2 DEF NonNegative, Row
  <2>4. QED
    BY <2>3 DEF Sees
<1> HIDE DEF s, k, st
<1>8. NewQty(p) \in Int /\ NewQty(p) >= 0
  <2>1. s.kind \in {"take", "put", "add", "set"}
    BY <1>4, <1>5 DEF Kinds
  <2>2. NewQty(p) = CASE s.kind = "take" -> req[p].before - s.qty
                      [] s.kind = "put"  -> req[p].before + s.qty
                      [] s.kind = "add"  -> Sees(p, req[p].row) + s.qty
                      [] s.kind = "set"  -> s.qty
    BY DEF NewQty, s
  <2>3. CASE s.kind = "take"
    BY <1>4, <1>5, <1>6, <2>2, <2>3
  <2>4. CASE s.kind = "put"
    BY <1>4, <1>5, <1>6, <2>2, <2>4
  <2>5. CASE s.kind = "add"
    BY <1>5, <1>7, <2>2, <2>5
  <2>6. CASE s.kind = "set"
    BY <1>5, <2>2, <2>6
  <2>7. QED
    BY <2>1, <2>3, <2>4, <2>5, <2>6
<1>9. new \in Row /\ new.qty >= 0
  BY <1>5, <1>8 DEF Row
<1> HIDE DEF new
<1>10. wrote \in Rows
  BY <1>6, <1>9, RowsPlus
<1>11. NonNegative(wrote)
  BY <1>3, <1>9 DEF NonNegative
<1>12. Sent(s) \in Int
  BY <1>5 DEF Sent
<1>13. sent \in [Places -> Int] /\ sent = [req[p].sent EXCEPT ![PlaceOf(p)] = req[p].sent[PlaceOf(p)] + Sent(s)]
  BY <1>5, <1>6, <1>12
<1> HIDE DEF wrote, sent
<1>14. x \in Locals /\ x.stages = st /\ x.k = k + 1 /\ x.wrote = wrote /\ x.sent = sent
  <2>1. k + 1 \in Nat \ {0}
    BY <1>4
  <2>2. req[p] \in Locals /\ wrote \in Rows /\ sent \in [Places -> Int]
    BY <1>0, <1>10, <1>13
  <2>3. x = [req[p] EXCEPT !.wrote = wrote, !.sent = sent, !.k = k + 1]
    OBVIOUS
  <2> HIDE DEF x
  <2>4. x \in Locals /\ x.stages = req[p].stages /\ x.k = k + 1 /\ x.wrote = wrote /\ x.sent = sent
    <3>1. ASSUME NEW r, r = req[p], NEW n, n = k + 1, NEW w, w = wrote, NEW u, u = sent
          PROVE  x \in Locals /\ x.stages = r.stages /\ x.k = n /\ x.wrote = w /\ x.sent = u
      <4>1. x = [r EXCEPT !.wrote = w, !.sent = u, !.k = n]
        BY <2>3, <3>1
      <4>2. r \in Locals /\ w \in Rows /\ u \in [Places -> Int] /\ n \in Nat \ {0}
        BY <2>1, <2>2, <3>1
      <4>3. QED
        BY <4>1, <4>2 DEF Locals
    <3>2. QED
      BY <3>1
  <2>5. QED
    BY <2>4 DEF st
<1> HIDE DEF x
<1>15. ASSUME NEW y \in Places PROVE BalanceOf(sent, y) = 0 - Owed(x, y)
  <2> DEFINE mine == ProductOf[PlaceOf(p)] = ProductOf[y]
  <2>1. BalanceOf(sent, y) = BalanceOf(req[p].sent, y) + IF mine THEN Sent(s) ELSE 0
    BY <1>5, <1>6, <1>12, <1>13, BalanceMoves
  <2>2. BalanceOf(req[p].sent, y) = 0 - Owed(req[p], y)
    BY <1>3
  <2>3. x.k - 1 = k /\ k - 1 + 1 = k
    BY <1>4, <1>14
  <2>4. Owed(x, y) = IF s.kind = "take" /\ mine THEN s.qty ELSE 0
    BY <1>4, <1>5, <1>14, <2>3 DEF Owed
  <2>5. CASE s.kind \in {"put", "add"}
    <3>1. k - 1 \in DOMAIN st /\ st[k - 1].kind = "take"
      BY <1>3, <1>4, <2>5 DEF InPairs
    <3>2. /\ st[(k - 1) + 1].qty = st[k - 1].qty
          /\ ProductOf[st[(k - 1) + 1].place] = ProductOf[st[k - 1].place]
      BY <1>3, <3>1 DEF InPairs
    <3>6. st[k - 1].qty = s.qty /\ ProductOf[st[k - 1].place] = ProductOf[PlaceOf(p)]
      BY <1>4, <1>5, <2>3, <3>2
    <3>3. Owed(req[p], y) = IF mine THEN s.qty ELSE 0
      BY <3>1, <3>6 DEF Owed, k, st
    <3>4. Sent(s) = s.qty /\ Owed(x, y) = 0
      BY <2>4, <2>5 DEF Sent
    <3>5. CASE mine
      <4>1. BalanceOf(sent, y) = BalanceOf(req[p].sent, y) + s.qty /\ BalanceOf(req[p].sent, y) = 0 - s.qty
        BY <2>1, <2>2, <3>3, <3>4, <3>5
      <4>2. QED
        BY <1>5, <3>4, <4>1
    <3>7. CASE ~mine
      <4>1. BalanceOf(req[p].sent, y) = 0
        BY <2>2, <3>3, <3>7
      <4>2. BalanceOf(sent, y) = 0
        BY <2>1, <3>7, <4>1
      <4>3. QED
        BY <3>4, <4>2
    <3>8. QED
      BY <3>5, <3>7
  <2>6. CASE s.kind \notin {"put", "add"}
    <3>1. k - 1 \in DOMAIN st => st[k - 1].kind # "take"
      BY <1>3, <1>4, <2>3, <2>6 DEF InPairs
    <3>2. Owed(req[p], y) = 0
      BY <3>1 DEF Owed, k, st
    <3>3. Sent(s) = IF s.kind = "take" THEN -s.qty ELSE 0
      BY <2>6 DEF Sent
    <3>4. QED
      BY <1>5, <2>1, <2>2, <2>4, <3>2, <3>3
  <2>7. QED
    BY <2>5, <2>6
<1>16. Sound(x, "read")
  BY <1>3, <1>11, <1>14, <1>15 DEF Sound
<1>17. QED
  BY <1>1, <1>2, <1>14, <1>16, LocalStep

\* A transaction commits.
LEMMA CommitStep ==
  ASSUME IInv, NEW p \in Requests, Commit(p)
  PROVE  IInv'
<1>0. Types /\ req[p] \in Locals /\ Sound(req[p], pc[p]) /\ NonNegative(rows)
  BY DEF IInv, Types
<1>1. /\ ~AtStage(p) /\ rows' = View(p)
      /\ ledger' = [l \in Places |-> ledger[l] + req[p].sent[l]]
      /\ moved' = [t \in Transfers |-> IF t = req[p].transfer THEN moved[t] + 1 ELSE moved[t]]
      /\ transfer' = [t \in Transfers |-> IF t = req[p].transfer THEN "COMPLETED" ELSE transfer[t]]
      /\ count' = [c \in Counts |-> IF c = req[p].count THEN "COMPLETED" ELSE count[c]]
      /\ pc' = [pc EXCEPT ![p] = "done"] /\ req' = [req EXCEPT ![p] = NoReq]
  BY DEF Commit, End, Goto
<1>2. NoReq \in Locals /\ Sound(NoReq, "done")
  <2>1. Fresh(NoReq)
    BY FreshOnes
  <2>2. NoReq \in Locals
    BY <2>1 DEF Fresh
  <2>3. QED
    BY <2>1, <2>2, FreshIsSound
<1>3. View(p) \in Rows /\ NonNegative(View(p))
  BY <1>0, Viewed DEF Sound
<1>4. req[p].sent \in [Places -> Int] /\ ledger \in [Places -> Int]
  BY <1>0 DEF Types, Locals
<1>5. Types'
  <2>1. rows' \in Rows /\ req' \in [Requests -> Locals]
    BY <1>0, <1>1, <1>2, <1>3 DEF Types
  <2>2. ledger' \in [Places -> Int] /\ moved' \in [Transfers -> Nat]
    BY <1>0, <1>1, <1>4 DEF Types
  <2>3. QED
    BY <1>0, <1>1, <2>1, <2>2 DEF Types, TransferStatus, CountStatus, Ended
<1>6. \A q \in Requests : Sound(req'[q], pc'[q])
  BY <1>0, <1>1, <1>2 DEF IInv, Types
\* The last stage is not a take: a put follows every take.
<1>7. \A y : Owed(req[p], y) = 0
  <2>1. /\ req[p].k \notin DOMAIN req[p].stages /\ InPairs(req[p].stages) /\ req[p].k \in Nat
    BY <1>0, <1>1 DEF AtStage, Sound, Locals
  <2>2. req[p].k - 1 + 1 = req[p].k
    BY <2>1
  <2>3. req[p].k - 1 \in DOMAIN req[p].stages => req[p].stages[req[p].k - 1].kind # "take"
    BY <2>1, <2>2 DEF InPairs
  <2>4. QED
    BY <2>3 DEF Owed
<1>8. ASSUME NEW y \in Places PROVE BalanceOf(ledger', y) = 0
  <2>1. BalanceOf(ledger', y) = BalanceOf(ledger, y) + BalanceOf(req[p].sent, y)
    BY <1>1, <1>4, BalanceAdds
  <2>2. BalanceOf(ledger, y) = 0 /\ BalanceOf(req[p].sent, y) = 0 - Owed(req[p], y)
    BY <1>0 DEF IInv, TransfersBalance, Sound
  <2>3. QED
    BY <1>7, <2>1, <2>2
<1>9. ClosedWithItsGoods'
  <2>1. \A t \in Transfers : moved[t] \in Nat
    BY <1>0 DEF Types
  <2>2. QED
    BY <1>1, <2>1 DEF IInv, ClosedWithItsGoods, OpenTransfer
<1>10. QED
  BY <1>1, <1>3, <1>5, <1>6, <1>8, <1>9 DEF IInv, TransfersBalance

\* A step that changes nothing.
LEMMA NoStep == IInv /\ UNCHANGED vars => IInv'
<1> SUFFICES ASSUME IInv, UNCHANGED vars PROVE IInv'
  OBVIOUS
<1>1. Types' /\ (\A p \in Requests : Sound(req'[p], pc'[p])) /\ NonNegative(rows')
  BY DEF vars, Types, IInv
<1>2. ClosedWithItsGoods' /\ TransfersBalance'
  BY DEF vars, IInv, ClosedWithItsGoods, TransfersBalance
<1>3. QED
  BY <1>1, <1>2 DEF IInv

\* Every step keeps the invariant.
LEMMA InvStep == IInv /\ [Next]_vars => IInv'
<1>1. IInv /\ Rest => IInv'
  BY NoStep DEF Rest
<1>2. ASSUME IInv, NEW p \in Requests, Continue(p) PROVE IInv'
  BY <1>2, CancelStep, ReadStep, CompareStep, FailStep, WriteStep, CommitStep DEF Continue
<1>3. ASSUME IInv, NEW p \in Requests, Start(p) \/ Crash(p) PROVE IInv'
  BY <1>3, StartStep, FailStep
<1>4. QED
  BY <1>1, <1>2, <1>3, NoStep DEF Next

----------------------------------------------------------------------------
(* The theorems. *)

\* The invariant holds in every reachable state.
THEOREM Inductive == Spec => []IInv
<1>1. QED
  BY InvInit, InvStep, PTL DEF Spec

\* No central row goes below zero, for any set of requests: what a request has read is not below
\* zero and enough for what it takes, and it writes what it read less what it takes, however
\* stale that is by then.
THEOREM NoneBelowZero == Spec => []NeverNegative
<1>1. IInv => NeverNegative
  <2> SUFFICES ASSUME IInv PROVE NeverNegative
    OBVIOUS
  <2>1. Types /\ NonNegative(rows)
    BY DEF IInv
  <2>2. AreRows(rows)
    BY <2>1, RowsType DEF Types
  <2>3. DOMAIN req = Requests /\ \A p \in Requests : IsRequest(req[p])
    <3>1. ASSUME NEW p \in Requests PROVE IsRequest(req[p])
      <4>1. req[p] \in Locals
        BY <2>1 DEF Types
      <4>2. req[p].wrote \in Rows
        BY <4>1 DEF Locals
      <4>3. AreRows(req[p].wrote)
        BY <4>2, RowsType
      <4>4. QED
        BY <4>1, <4>3 DEF Locals, IsRequest
    <3>2. QED
      BY <2>1, <3>1 DEF Types
  <2>4. QED
    BY <2>1, <2>2, <2>3 DEF NeverNegative, TypeOK, Types, NonNegative
<1>2. QED
  BY <1>1, Inductive, PTL

\* The movements of transfers cancel out in every product: a request that commits has put all
\* it has taken, one that does not leaves nothing.
THEOREM NoHalfTransfer == Spec => []TransfersBalance
<1>1. IInv => TransfersBalance
  BY DEF IInv
<1>2. QED
  BY <1>1, Inductive, PTL

\* A transfer is completed by the transaction that moves its goods, and by no other.
THEOREM CompletedMoved == Spec => []ClosedWithItsGoods
<1>1. IInv => ClosedWithItsGoods
  BY DEF IInv
<1>2. QED
  BY <1>1, Inductive, PTL

----------------------------------------------------------------------------
(* The merge of the ERP stock: the inductive invariant.  Its parts are stated of a job and *)
(* its import, and of the tables, so that each step is looked at once for the job that     *)
(* moves and once for what it wrote.                                                       *)

Busy == {"prior", "product"} \cup InTx
Summed == {"findCentral", "writeCentral", "commit"}

\* The product of an import's current item, and the value its connection is to have of it.
Thing(r) == r.feed[r.k].product
Own(r) == IF r.removing THEN Absent ELSE r.feed[r.k].qty

\* The those of a product in the central stock c, and its total in the ERP stock e.
RowsIn(c, i) == {x \in DOMAIN c : c[x].product = i}
TotalIn(e, i) == SumFunctionOnSet([s \in Sources |-> Counted(e[s][i])], Sources)
SumWith(e, t, r) ==
  SumFunctionOnSet([s \in Sources |-> Counted(IF s = t THEN Own(r) ELSE e[s][Thing(r)])], Sources)

Values == Nat \cup {Absent}

\* Some connection had the quantity of x.
Known(x, v) == \E s \in Sources : x.qty \in v[s][x.product]

\* A central quantity, and the sum a job has taken, are made of values the those have had.
Explained(x, v) ==
  \E then \in [Sources -> Values] :
    /\ \A s \in Sources : then[s] \in v[s][x.product]
    /\ x.qty = SumFunctionOnSet([s \in Sources |-> Counted(then[s])], Sources)
SumExplained(t, r, v) ==
  \E then \in [Sources -> Values] :
    /\ then[t] = Own(r) /\ \A s \in Sources \ {t} : then[s] \in v[s][Thing(r)]
    /\ r.sum = SumFunctionOnSet([s \in Sources |-> Counted(then[s])], Sources)

\* The central row a job has found is still the one there is, and where it found none there
\* is none.
RowFound(a, r, those) ==
  /\ a = "writeCentral" => IF r.row = NoRow THEN those = {} /\ ~r.removing ELSE r.row \in those
  /\ a = "commit" => IF r.row = NoRow THEN those = {} /\ r.removing
                     ELSE r.row \in those \/ (those = {} /\ ~r.removing)

JobSound(p, a, r, e, c, v, R) ==
  /\ r \in Import /\ r.k <= Len(r.feed) + 1 /\ (a \in Busy => r.k <= Len(r.feed))
  /\ r.row # NoRow => a \in {"writeCentral", "commit"} /\ r.row \in Jobs \X {Thing(r)}
  /\ \A x \in r.pushes : Known(x, v)
  /\ a \in Summed => SumExplained(SourceOf[p], r, v)
  /\ a \in Summed /\ Thing(r) \notin R =>
       r.sum = SumWith(e, SourceOf[p], r) /\ RowFound(a, r, RowsIn(c, Thing(r)))

\* Of a product without a race at most one job is past its sum.
OneMerges(a, im, R) ==
  \A p, q \in Jobs : a[p] \in Summed /\ a[q] \in Summed /\ Thing(im[p]) = Thing(im[q])
                     /\ Thing(im[p]) \notin R => p = q

\* A product without a race has the total in its one central row, or neither.
CentralIs(those, c, total) == IF those = {} THEN total = 0 ELSE \E x \in those : those = {x} /\ c[x].qty = total

TablesSound(e, c, v, R) ==
  /\ e \in [Sources -> [Products -> Values]]
  /\ v \in [Sources -> [Products -> SUBSET Values]]
  /\ \A x \in DOMAIN c : c[x] \in Push /\ x \in Jobs \X {c[x].product} /\ Explained(c[x], v)
  /\ \A s \in Sources, i \in Products : e[s][i] \in v[s][i]
  /\ \A i \in Products \ R : CentralIs(RowsIn(c, i), c, TotalIn(e, i))

MergeInv ==
  /\ active \subseteq Sources /\ raced \subseteq Products /\ faults \in 0..MaxUpsets
  /\ at \in [Jobs -> {"idle", "queue", "reconcile", "done"} \cup Busy]
  /\ import \in [Jobs -> Import]
  /\ announced \subseteq Push /\ \A x \in announced : Known(x, ever)
  /\ TablesSound(erp, central, ever, raced)
  /\ \A p \in Jobs : JobSound(p, at[p], import[p], erp, central, ever, raced)
  /\ OneMerges(at, import, raced)

----------------------------------------------------------------------------
(* Imports. *)

\* What an import is made of, and its current item.
LEMMA ImportIs ==
  ASSUME NEW r \in Import
  PROVE  /\ r.feed \in Seq(Push) /\ r.k \in Nat \ {0} /\ r.removing \in BOOLEAN /\ r.before \in Nat
         /\ r.sum \in Nat /\ r.row \in CentralIds /\ r.pushes \subseteq Push
         /\ Len(r.feed) \in Nat
         /\ r.k <= Len(r.feed) =>
              /\ r.feed[r.k] \in Push /\ Thing(r) \in Products /\ r.feed[r.k].qty \in Nat
              /\ Own(r) \in Values /\ (~r.removing => Own(r) = r.feed[r.k].qty)
<1>1. /\ r.feed \in Seq(Push) /\ r.k \in Nat \ {0} /\ r.removing \in BOOLEAN /\ r.before \in Nat
      /\ r.sum \in Nat /\ r.row \in CentralIds /\ r.pushes \subseteq Push
  BY DEF Import
<1>2. Len(r.feed) \in Nat
  BY <1>1
<1>3. ASSUME r.k <= Len(r.feed) PROVE r.feed[r.k] \in Push
  BY <1>1, <1>2, <1>3
<1>4. ASSUME r.feed[r.k] \in Push
      PROVE  /\ Thing(r) \in Products /\ r.feed[r.k].qty \in Nat
             /\ Own(r) \in Values /\ (~r.removing => Own(r) = r.feed[r.k].qty)
  BY <1>1, <1>4 DEF Push, Thing, Own, Values
<1>5. QED
  BY <1>1, <1>2, <1>3, <1>4

\* A job that turns to an item.
LEMMA WorkingIs ==
  ASSUME NEW feed \in Seq(Push), NEW k \in 1..(Len(feed) + 1), NEW b \in BOOLEAN, NEW x \in SUBSET Push
  PROVE  LET r == Working(feed, k, b, x)
         IN  /\ r \in Import /\ r.feed = feed /\ r.k = k /\ r.row = NoRow /\ r.pushes = x
             /\ r.k <= Len(r.feed) + 1
<1>1. Len(feed) \in Nat /\ k \in Nat \ {0} /\ NoRow \in CentralIds
  BY DEF CentralIds
<1>2. QED
  BY <1>1 DEF Working, Import

\* A field of an import alone is set.
LEMMA SetField ==
  ASSUME NEW r \in Import
  PROVE  /\ \A n \in Nat : LET w == [r EXCEPT !.before = n] IN
              w \in Import /\ w.feed = r.feed /\ w.k = r.k /\ w.row = r.row /\ w.pushes = r.pushes
         /\ \A b \in BOOLEAN : LET w == [r EXCEPT !.found = b] IN
              w \in Import /\ w.feed = r.feed /\ w.k = r.k /\ w.row = r.row /\ w.pushes = r.pushes
         /\ \A n \in Nat : LET w == [r EXCEPT !.sum = n] IN
              /\ w \in Import /\ w.feed = r.feed /\ w.k = r.k /\ w.row = r.row /\ w.pushes = r.pushes
              /\ w.removing = r.removing /\ w.sum = n
         /\ \A x \in CentralIds : LET w == [r EXCEPT !.row = x] IN
              /\ w \in Import /\ w.feed = r.feed /\ w.k = r.k /\ w.row = x /\ w.pushes = r.pushes
              /\ w.removing = r.removing /\ w.sum = r.sum
         /\ LET w == [r EXCEPT !.pushes = {}] IN
              w \in Import /\ w.feed = r.feed /\ w.k = r.k /\ w.row = r.row /\ w.pushes = {}
BY DEF Import

\* Only the job p moves.
Moves(p) ==
  /\ at' = [at EXCEPT ![p] = at'[p]] /\ import' = [import EXCEPT ![p] = import'[p]]
  /\ at'[p] \in {"idle", "queue", "reconcile", "done"} \cup Busy

\* A job that is past no sum is sound as its import is.
LEMMA Unsummed ==
  ASSUME NEW p, NEW a, a \notin Summed, NEW r \in Import, r.k <= Len(r.feed) + 1, r.row = NoRow,
         a \in Busy => r.k <= Len(r.feed), NEW e, NEW c, NEW v, \A x \in r.pushes : Known(x, v), NEW R
  PROVE  JobSound(p, a, r, e, c, v, R)
BY DEF JobSound

\* A step of one job that leaves the tables as they are keeps the invariant when the job
\* stays sound and does not turn up among those past their sum.
LEMMA JobMoves ==
  ASSUME MergeInv, NEW p \in Jobs, Moves(p), UNCHANGED <<active, erp, central, ever, raced>>,
         JobSound(p, at'[p], import'[p], erp, central, ever, raced),
         at'[p] \in Summed => at[p] \in Summed /\ Thing(import'[p]) = Thing(import[p]),
         faults' \in 0..MaxUpsets, announced' \subseteq Push, \A x \in announced' : Known(x, ever)
  PROVE  MergeInv'
<1>1. \A q \in Jobs \ {p} : at'[q] = at[q] /\ import'[q] = import[q]
  BY DEF MergeInv, Moves
<1>2. /\ at' \in [Jobs -> {"idle", "queue", "reconcile", "done"} \cup Busy]
      /\ import' \in [Jobs -> Import]
  <2>1. import'[p] \in Import
    BY DEF JobSound
  <2>2. at'[p] \in {"idle", "queue", "reconcile", "done"} \cup Busy
    BY DEF Moves
  <2>3. at \in [Jobs -> {"idle", "queue", "reconcile", "done"} \cup Busy] /\ import \in [Jobs -> Import]
    BY DEF MergeInv
  <2>4. at' = [at EXCEPT ![p] = at'[p]] /\ import' = [import EXCEPT ![p] = import'[p]]
    BY DEF Moves
  <2> DEFINE a == at'[p]
             r == import'[p]
  <2>5. a \in {"idle", "queue", "reconcile", "done"} \cup Busy /\ r \in Import
    BY <2>1, <2>2
  <2>6. at' = [at EXCEPT ![p] = a] /\ import' = [import EXCEPT ![p] = r]
    BY <2>4
  <2> HIDE DEF a, r
  <2>7. QED
    BY <2>3, <2>5, <2>6 DEF Busy, InTx
<1>3. \A q \in Jobs : JobSound(q, at'[q], import'[q], erp', central', ever', raced')
  <2>1. ASSUME NEW q \in Jobs \ {p} PROVE JobSound(q, at'[q], import'[q], erp, central, ever, raced)
    BY <1>1 DEF MergeInv
  <2>2. QED
    BY <2>1
<1>4. OneMerges(at', import', raced')
  <2>1. \A q \in Jobs : at'[q] \in Summed => at[q] \in Summed /\ Thing(import'[q]) = Thing(import[q])
    BY <1>1
  <2>2. OneMerges(at, import, raced)
    BY DEF MergeInv
  <2>3. QED
    BY <2>1, <2>2 DEF OneMerges
<1>5. QED
  BY <1>2, <1>3, <1>4 DEF MergeInv

\* What a job is known to be.
LEMMA JobIs ==
  ASSUME MergeInv, NEW p \in Jobs
  PROVE  /\ import[p] \in Import /\ import[p].k <= Len(import[p].feed) + 1
         /\ at[p] \in Busy => import[p].k <= Len(import[p].feed)
         /\ at[p] \notin {"writeCentral", "commit"} => import[p].row = NoRow
         /\ \A x \in import[p].pushes : Known(x, ever)
         /\ JobSound(p, at[p], import[p], erp, central, ever, raced)
BY DEF MergeInv, JobSound

----------------------------------------------------------------------------
(* Steps that leave the tables as they are. *)

\* What a job comes to that takes no sum with it.
Rests(p, pushes) ==
  /\ Moves(p) /\ at'[p] \notin Summed /\ import'[p] \in Import
  /\ import'[p].k <= Len(import'[p].feed) + 1 /\ (at'[p] \in Busy => import'[p].k <= Len(import'[p].feed))
  /\ import'[p].row = NoRow /\ import'[p].pushes = pushes

\* A job and its import are replaced.
LEMMA Turns ==
  ASSUME MergeInv, NEW p \in Jobs, NEW l \in ({"idle", "queue", "reconcile", "done"} \cup Busy) \ Summed,
         NEW r \in Import, r.k <= Len(r.feed) + 1, l \in Busy => r.k <= Len(r.feed), r.row = NoRow,
         MoveJob(p, l), import' = [import EXCEPT ![p] = r]
  PROVE  Rests(p, r.pushes)
<1>1. at'[p] = l /\ import'[p] = r
  BY DEF MergeInv, MoveJob
<1>2. Moves(p)
  BY <1>1 DEF Moves, MoveJob
<1>3. QED
  BY <1>1, <1>2 DEF Rests

\* Such a step keeps the invariant when the tables stay.
LEMMA RestingStep ==
  ASSUME MergeInv, NEW p \in Jobs, NEW pushes, Rests(p, pushes), \A x \in pushes : Known(x, ever),
         UNCHANGED <<active, erp, central, announced, ever, raced>>, faults' \in 0..MaxUpsets
  PROVE  MergeInv'
<1>1. JobSound(p, at'[p], import'[p], erp, central, ever, raced)
  <2> DEFINE a == at'[p]
             r == import'[p]
  <2>1. /\ a \notin Summed /\ r \in Import /\ r.k <= Len(r.feed) + 1 /\ r.row = NoRow
        /\ a \in Busy => r.k <= Len(r.feed)
        /\ \A x \in r.pushes : Known(x, ever)
    BY DEF Rests
  <2> HIDE DEF a, r
  <2>2. JobSound(p, a, r, erp, central, ever, raced)
    BY <2>1, Unsummed
  <2>3. QED
    BY <2>2 DEF a, r
<1>2. Moves(p) /\ at'[p] \notin Summed
  BY DEF Rests
<1>3. announced' \subseteq Push /\ \A x \in announced' : Known(x, ever)
  BY DEF MergeInv
<1>4. QED
  BY <1>1, <1>2, <1>3, JobMoves

\* A job that begins again or is done has no import.
LEMMA NoImportIs ==
  /\ NoImport \in Import /\ NoImport.k <= Len(NoImport.feed) + 1
  /\ NoImport.row = NoRow /\ NoImport.pushes = {}
<1>1. <<>> \in Seq(Push) /\ 1 \in 1..(Len(<<>>) + 1) /\ {} \in SUBSET Push
  OBVIOUS
<1> DEFINE w == Working(<<>>, 1, FALSE, {})
<1>2. w \in Import /\ w.row = NoRow /\ w.pushes = {} /\ w.k <= Len(w.feed) + 1
  BY <1>1 DEF Working, Import, CentralIds
<1>3. QED
  BY <1>2 DEF NoImport

\* A job that gives up rests: it keeps nothing of its import.
LEMMA GiveUpRests == ASSUME MergeInv, NEW p \in Jobs, GiveUp(p) PROVE Rests(p, {})
<1>1. "done" \in ({"idle", "queue", "reconcile", "done"} \cup Busy) \ Summed /\ "done" \notin Busy
  BY DEF Busy, Summed, InTx
<1>2. QED
  BY <1>1, Turns, NoImportIs DEF GiveUp

\* From item to item.
LEMMA FollowRests ==
  ASSUME MergeInv, NEW p \in Jobs, at[p] \in Busy, NEW pushes \in SUBSET Push, Follow(p, pushes)
  PROVE  Rests(p, pushes)
<1> DEFINE r == import[p]
           l == IF r.k < Len(r.feed) THEN (IF r.removing THEN "write" ELSE "prior")
                ELSE IF r.removing THEN "done" ELSE "queue"
           w == Working(r.feed, r.k + 1, r.removing, pushes)
<1>1. r \in Import /\ r.k <= Len(r.feed)
  BY JobIs
<1>2. r.feed \in Seq(Push) /\ r.k \in Nat \ {0} /\ r.removing \in BOOLEAN /\ Len(r.feed) \in Nat
  BY <1>1, ImportIs
<1>3. /\ l \in ({"idle", "queue", "reconcile", "done"} \cup Busy) \ Summed
      /\ l \in Busy => r.k < Len(r.feed)
  BY DEF Busy, Summed, InTx
<1>4. MoveJob(p, l) /\ import' = [import EXCEPT ![p] = w]
  BY DEF Follow
<1> HIDE DEF r
<1>5. r.k + 1 \in 1..(Len(r.feed) + 1)
  BY <1>1, <1>2
<1>6. w \in Import /\ w.feed = r.feed /\ w.k = r.k + 1 /\ w.row = NoRow /\ w.pushes = pushes
  BY <1>2, <1>5, WorkingIs
<1> HIDE DEF w, l
<1>7. w.k <= Len(w.feed) + 1 /\ (l \in Busy => w.k <= Len(w.feed))
  BY <1>1, <1>2, <1>3, <1>6
<1>8. QED
  BY <1>3, <1>4, <1>6, <1>7, Turns

\* A rolled back item leaves nothing either: the job turns to the next one with what it had.
LEMMA FailsRests ==
  ASSUME MergeInv, NEW p \in Jobs, at[p] \in Busy, ItemFails(p)
  PROVE  \E pushes : Rests(p, pushes) /\ \A x \in pushes : Known(x, ever)
<1>1. CASE GiveUp(p)
  BY <1>1, GiveUpRests
<1>2. CASE Follow(p, import[p].pushes)
  BY <1>2, FollowRests, JobIs, ImportIs
<1>3. QED
  BY <1>1, <1>2 DEF ItemFails

\* An import begins at its first item.
LEMMA StartJobStep == ASSUME MergeInv, ErpStockMergeAssumption, NEW p \in Jobs, StartJob(p) PROVE MergeInv'
<1>1. UNCHANGED <<active, erp, central, announced, ever, raced>> /\ faults' \in 0..MaxUpsets
  BY DEF StartJob, World, MergeInv
<1>2. at[p] = "idle"
  BY DEF StartJob
<1>3. CASE active = {}
  <2> DEFINE r == import[p]
  <2>1. "done" \in ({"idle", "queue", "reconcile", "done"} \cup Busy) \ Summed /\ "done" \notin Busy
    BY DEF Busy, Summed, InTx
  <2>2. MoveJob(p, "done") /\ import' = [import EXCEPT ![p] = r]
    BY <1>3 DEF StartJob, MergeInv
  <2>3. r \in Import /\ r.k <= Len(r.feed) + 1 /\ r.row = NoRow /\ \A x \in r.pushes : Known(x, ever)
    BY <1>2, JobIs
  <2> HIDE DEF r
  <2>4. Rests(p, r.pushes)
    BY <2>1, <2>2, <2>3, Turns
  <2>5. QED
    BY <1>1, <2>3, <2>4, RestingStep
<1>4. CASE active # {}
  <2>1. PICK feed \in Feeds[p] :
          /\ import' = [import EXCEPT ![p] = Working(feed, 1, FALSE, {})]
          /\ MoveJob(p, IF feed = <<>> THEN "queue" ELSE "prior")
    BY <1>4 DEF StartJob
  <2> DEFINE w == Working(feed, 1, FALSE, {})
             l == IF feed = <<>> THEN "queue" ELSE "prior"
  <2>2. feed \in Seq(Push) /\ Len(feed) \in Nat
    <3>1. Feeds[p] \subseteq Seq(Push)
      BY DEF ErpStockMergeAssumption, Push
    <3>2. QED
      BY <2>1, <3>1
  <2>3. w \in Import /\ w.feed = feed /\ w.k = 1 /\ w.row = NoRow /\ w.pushes = {}
    <3>1. 1 \in 1..(Len(feed) + 1) /\ FALSE \in BOOLEAN /\ {} \in SUBSET Push
      BY <2>2
    <3>2. QED
      BY <2>2, <3>1 DEF Working, Import, CentralIds
  <2>4. l \in ({"idle", "queue", "reconcile", "done"} \cup Busy) \ Summed
    BY DEF Busy, Summed, InTx
  <2>5. l \in Busy => feed # <<>>
    BY DEF Busy, Summed, InTx
  <2>6. MoveJob(p, l) /\ import' = [import EXCEPT ![p] = w]
    BY <2>1
  <2> HIDE DEF w, l
  <2>7. w.k <= Len(w.feed) + 1 /\ (l \in Busy => w.k <= Len(w.feed))
    BY <2>2, <2>3, <2>5
  <2>8. Rests(p, {})
    BY <2>3, <2>4, <2>6, <2>7, Turns
  <2>9. QED
    BY <1>1, <2>8, RestingStep
<1>5. QED
  BY <1>3, <1>4

\* A job that goes on with the same item, and as yet no sum.
LEMMA SameItem ==
  ASSUME MergeInv, NEW p \in Jobs, at[p] \in Busy \ Summed, NEW l \in Busy \ Summed,
         NEW r \in Import, r.feed = import[p].feed, r.k = import[p].k, r.row = import[p].row,
         r.pushes = import[p].pushes, MoveJob(p, l), import' = [import EXCEPT ![p] = r],
         UNCHANGED World
  PROVE  MergeInv'
<1>1. /\ r.k <= Len(r.feed) /\ r.k <= Len(r.feed) + 1 /\ r.row = NoRow
      /\ \A x \in r.pushes : Known(x, ever)
  BY JobIs DEF Busy, Summed, InTx
<1>2. Rests(p, r.pushes)
  BY <1>1, Turns
<1>3. UNCHANGED <<active, erp, central, announced, ever, raced>> /\ faults' \in 0..MaxUpsets
  BY DEF World, MergeInv
<1>4. QED
  BY <1>1, <1>2, <1>3, RestingStep

\* The value before the import is read outside the transaction.
LEMMA ReadPriorStep == ASSUME MergeInv, NEW p \in Jobs, ReadPrior(p) PROVE MergeInv'
<1> DEFINE l == IF p \in FullSyncs THEN "product" ELSE "find"
<1>1. at[p] \in Busy \ Summed /\ l \in Busy \ Summed /\ MoveJob(p, l) /\ UNCHANGED World
  BY DEF ReadPrior, Busy, Summed, InTx
<1>2. import \in [Jobs -> Import] /\ import[p] \in Import
  BY DEF MergeInv
<1>3. \E r \in Import : /\ r.feed = import[p].feed /\ r.k = import[p].k /\ r.row = import[p].row
                        /\ r.pushes = import[p].pushes /\ import' = [import EXCEPT ![p] = r]
  <2>1. CASE UNCHANGED import
    BY <1>2, <2>1
  <2>2. ASSUME NEW x \in CentralRows(Item(p).product), import' = [import EXCEPT ![p].before = central[x].qty]
        PROVE  \E r \in Import : /\ r.feed = import[p].feed /\ r.k = import[p].k /\ r.row = import[p].row
                                 /\ r.pushes = import[p].pushes /\ import' = [import EXCEPT ![p] = r]
    <3> DEFINE r == [import[p] EXCEPT !.before = central[x].qty]
    <3>1. central[x] \in Push
      BY DEF MergeInv, TablesSound, CentralRows
    <3>2. central[x].qty \in Nat
      BY <3>1 DEF Push
    <3>3. /\ r \in Import /\ r.feed = import[p].feed /\ r.k = import[p].k /\ r.row = import[p].row
          /\ r.pushes = import[p].pushes
      BY <1>2, <3>2, SetField
    <3>4. import' = [import EXCEPT ![p] = r]
      BY <2>2
    <3>5. QED
      BY <3>3, <3>4
  <2>3. QED
    BY <2>1, <2>2 DEF ReadPrior
<1> HIDE DEF l
<1>4. QED
  BY <1>1, <1>3, SameItem

\* A full import locks the product.
LEMMA LockProductStep == ASSUME MergeInv, NEW p \in Jobs, LockProduct(p) PROVE MergeInv'
<1>1. at[p] \in Busy \ Summed /\ "find" \in Busy \ Summed /\ MoveJob(p, "find") /\ UNCHANGED World
  BY DEF LockProduct, Busy, Summed, InTx
<1> DEFINE r == import[p]
<1>2. r \in Import /\ import' = [import EXCEPT ![p] = r]
  BY DEF MergeInv, LockProduct
<1>3. r.feed = import[p].feed /\ r.k = import[p].k /\ r.row = import[p].row /\ r.pushes = import[p].pushes
  OBVIOUS
<1> HIDE DEF r
<1>4. QED
  BY <1>1, <1>2, <1>3, SameItem

\* The connection's own row is looked up.
LEMMA FindErpStep == ASSUME MergeInv, NEW p \in Jobs, FindErp(p) PROVE MergeInv'
<1>1. at[p] \in Busy \ Summed /\ "write" \in Busy \ Summed /\ MoveJob(p, "write") /\ UNCHANGED World
  BY DEF FindErp, Busy, Summed, InTx
<1> DEFINE b == erp[Source(p)][Item(p).product] # Absent
           r == [import[p] EXCEPT !.found = b]
<1>2. import[p] \in Import /\ b \in BOOLEAN
  BY DEF MergeInv
<1>3. import' = [import EXCEPT ![p] = r]
  BY DEF FindErp
<1> HIDE DEF b
<1>4. /\ r \in Import /\ r.feed = import[p].feed /\ r.k = import[p].k /\ r.row = import[p].row
      /\ r.pushes = import[p].pushes
  BY <1>2, SetField
<1> HIDE DEF r
<1>5. QED
  BY <1>1, <1>3, <1>4, SameItem

\* The connection's own row is written, in the transaction.
LEMMA WriteErpStep == ASSUME MergeInv, NEW p \in Jobs, WriteErp(p) PROVE MergeInv'
<1>1. at[p] \in Busy \ Summed /\ "sum" \in Busy \ Summed /\ UNCHANGED World
  BY DEF WriteErp, Busy, Summed, InTx
<1>2. CASE MoveJob(p, "sum") /\ UNCHANGED import
  <2> DEFINE r == import[p]
  <2>1. r \in Import /\ import' = [import EXCEPT ![p] = r]
    BY <1>2 DEF MergeInv
  <2>2. r.feed = import[p].feed /\ r.k = import[p].k /\ r.row = import[p].row /\ r.pushes = import[p].pushes
    OBVIOUS
  <2> HIDE DEF r
  <2>3. QED
    BY <1>1, <1>2, <2>1, <2>2, SameItem
<1>3. CASE ItemFails(p)
  <2>1. UNCHANGED <<active, erp, central, announced, ever, raced>> /\ faults' \in 0..MaxUpsets
    BY <1>1 DEF World, MergeInv
  <2>2. QED
    BY <1>1, <1>3, <2>1, FailsRests, RestingStep
<1>4. QED
  BY <1>2, <1>3 DEF WriteErp

\* The stale products in some order.
LEMMA OrderIs ==
  ASSUME NEW is, IsFiniteSet(is)
  PROVE  Order(is) \in [1..Cardinality(is) -> is] /\ Cardinality(is) \in Nat
<1>1. Cardinality(is) \in Nat /\ ExistsBijection(1..Cardinality(is), is)
  BY FS_CardinalityType
<1>2. PICK f : f \in Surjection(1..Cardinality(is), is)
  BY <1>1 DEF ExistsBijection, Bijection
<1>3. f \in [1..Cardinality(is) -> is] /\ Range(f) = is
  BY <1>2 DEF Range, Surjection
<1>4. QED
  BY <1>1, <1>3 DEF Order

\* The rows the feed did not have become the items to remove.
LEMMA ReconcileStep == ASSUME MergeInv, ErpStockMergeAssumption, NEW p \in Jobs, Reconcile(p) PROVE MergeInv'
<1>1. UNCHANGED <<active, erp, central, announced, ever, raced>> /\ faults' \in 0..MaxUpsets
  BY DEF Reconcile, World, MergeInv
<1> DEFINE stale == {i \in Products : erp[Source(p)][i] # Absent} \ {import[p].feed[n].product : n \in 1..Len(import[p].feed)}
           feed == [n \in 1..Cardinality(stale) |-> [product |-> Order(stale)[n], qty |-> 0]]
           r == Working(feed, 1, TRUE, {})
<1>2. \/ GiveUp(p)
      \/ stale # {} /\ import' = [import EXCEPT ![p] = r] /\ MoveJob(p, "write")
  BY DEF Reconcile
<1>3. CASE GiveUp(p)
  BY <1>1, <1>3, GiveUpRests, RestingStep
<1>4. CASE stale # {} /\ import' = [import EXCEPT ![p] = r] /\ MoveJob(p, "write")
  <2>1. stale \subseteq Products /\ IsFiniteSet(stale)
    BY FS_Subset DEF ErpStockMergeAssumption
  <2> HIDE DEF stale
  <2>2. Order(stale) \in [1..Cardinality(stale) -> stale] /\ Cardinality(stale) \in Nat
    BY <2>1, OrderIs
  <2>3. feed \in Seq(Push) /\ Len(feed) = Cardinality(stale)
    <3>1. \A n \in 1..Cardinality(stale) : [product |-> Order(stale)[n], qty |-> 0] \in Push
      BY <2>1, <2>2 DEF Push
    <3>2. QED
      BY <2>2, <3>1
  <2>4. Cardinality(stale) # 0
    BY <1>4, <2>1, FS_EmptySet
  <2> HIDE DEF feed
  <2>5. /\ r \in Import /\ r.k <= Len(r.feed) /\ r.k <= Len(r.feed) + 1 /\ r.row = NoRow
        /\ r.pushes = {}
    BY <2>2, <2>3, <2>4 DEF Working, Import, CentralIds
  <2>6. "write" \in ({"idle", "queue", "reconcile", "done"} \cup Busy) \ Summed
    BY DEF Busy, Summed, InTx
  <2> HIDE DEF r
  <2>7. Rests(p, {})
    BY <1>4, <2>5, <2>6, Turns
  <2>8. QED
    BY <1>1, <2>7, RestingStep
<1>5. QED
  BY <1>2, <1>3, <1>4

\* What is announced was committed by the import before.
LEMMA QueuePushesStep == ASSUME MergeInv, NEW p \in Jobs, QueuePushes(p) PROVE MergeInv'
<1> DEFINE l == IF p \in FullSyncs THEN "reconcile" ELSE "done"
           r == [import[p] EXCEPT !.pushes = {}]
<1>1. /\ at[p] = "queue" /\ MoveJob(p, l) /\ import' = [import EXCEPT ![p] = r]
      /\ announced' = announced \cup import[p].pushes
      /\ UNCHANGED <<active, erp, central, ever, raced, faults>>
  BY DEF QueuePushes
<1>2. /\ l \in ({"idle", "queue", "reconcile", "done"} \cup Busy) \ Summed /\ l \notin Busy
  BY DEF Busy, Summed, InTx
<1>3. import[p] \in Import /\ import[p].row = NoRow /\ import[p].k <= Len(import[p].feed) + 1
  BY <1>1, JobIs
<1>4. r \in Import /\ r.feed = import[p].feed /\ r.k = import[p].k /\ r.row = NoRow /\ r.pushes = {}
  BY <1>3, SetField
<1>5. announced' \subseteq Push /\ \A x \in announced' : Known(x, ever)
  BY <1>1, <1>3, JobIs, ImportIs DEF MergeInv
<1> HIDE DEF l, r
<1>6. Rests(p, {})
  BY <1>1, <1>2, <1>3, <1>4, Turns
<1>7. JobSound(p, at'[p], import'[p], erp, central, ever, raced)
  <2> DEFINE a == at'[p]
             w == import'[p]
  <2>1. /\ a \notin Summed /\ w \in Import /\ w.k <= Len(w.feed) + 1 /\ w.row = NoRow
        /\ a \in Busy => w.k <= Len(w.feed)
        /\ \A x \in w.pushes : Known(x, ever)
    BY <1>6 DEF Rests
  <2> HIDE DEF a, w
  <2>2. JobSound(p, a, w, erp, central, ever, raced)
    BY <2>1, Unsummed
  <2>3. QED
    BY <2>2 DEF a, w
<1>8. Moves(p) /\ at'[p] \notin Summed /\ faults' \in 0..MaxUpsets
  BY <1>1, <1>6 DEF Rests, MergeInv
<1>9. QED
  BY <1>1, <1>5, <1>7, <1>8, JobMoves

\* A transaction that fails leaves nothing.
LEMMA TxFailsStep == ASSUME MergeInv, ErpStockMergeAssumption, NEW p \in Jobs, TxFails(p) PROVE MergeInv'
<1>1. at[p] \in Busy /\ ItemFails(p) /\ UNCHANGED <<active, erp, central, announced, ever, raced>>
  BY DEF TxFails, Busy
<1>2. faults' \in 0..MaxUpsets
  <2>1. Cardinality(Sources \ active) \in Nat
    BY FS_Subset, FS_CardinalityType DEF ErpStockMergeAssumption
  <2>2. faults' = faults + 1 /\ faults + Cardinality(Sources \ active) < MaxUpsets /\ faults \in 0..MaxUpsets
    BY DEF TxFails, MayUpset, MergeInv
  <2>3. QED
    BY <2>1, <2>2 DEF ErpStockMergeAssumption
<1>3. QED
  BY <1>1, <1>2, FailsRests, RestingStep

\* A removed connection leaves all rows as they are.
LEMMA RemoveConnectionStep ==
  ASSUME MergeInv, NEW s \in Sources, RemoveConnection(s) PROVE MergeInv'
<1>1. active' \subseteq Sources /\ UNCHANGED <<erp, central, announced, ever, raced, at, import, faults>>
  BY DEF RemoveConnection, MergeInv
<1>2. QED
  BY <1>1 DEF MergeInv

\* A process that dies leaves what is committed; its jobs begin again.
LEMMA MergeCrashStep == ASSUME MergeInv, ErpStockMergeAssumption, MergeCrash PROVE MergeInv'
<1>1. faults' \in 0..MaxUpsets
  <2>1. Cardinality(Sources \ active) \in Nat
    BY FS_Subset, FS_CardinalityType DEF ErpStockMergeAssumption
  <2>2. faults' = faults + 1 /\ faults + Cardinality(Sources \ active) < MaxUpsets /\ faults \in 0..MaxUpsets
    BY DEF MergeCrash, MayUpset, MergeInv
  <2>3. QED
    BY <2>1, <2>2 DEF ErpStockMergeAssumption
<1>2. /\ at' = [p \in Jobs |-> IF at[p] = "done" THEN "done" ELSE "idle"]
      /\ import' = [p \in Jobs |-> NoImport]
      /\ UNCHANGED <<active, erp, central, announced, ever, raced>>
  BY DEF MergeCrash
<1>3. /\ at' \in [Jobs -> {"idle", "queue", "reconcile", "done"} \cup Busy] /\ import' \in [Jobs -> Import]
      /\ \A p \in Jobs : at'[p] \notin Summed /\ at'[p] \notin Busy /\ import'[p] = NoImport
  BY <1>2, NoImportIs DEF Busy, Summed, InTx
<1>4. ASSUME NEW p \in Jobs PROVE JobSound(p, at'[p], import'[p], erp, central, ever, raced)
  <2>1. JobSound(p, at'[p], NoImport, erp, central, ever, raced)
    <3> DEFINE a == at'[p]
    <3>1. a \notin Summed /\ a \notin Busy
      BY <1>3
    <3> HIDE DEF a
    <3>2. JobSound(p, a, NoImport, erp, central, ever, raced)
      BY <3>1, NoImportIs, Unsummed
    <3>3. QED
      BY <3>2 DEF a
  <2>2. QED
    BY <1>3, <2>1
<1>5. OneMerges(at', import', raced')
  BY <1>3 DEF OneMerges
<1>6. QED
  BY <1>1, <1>2, <1>3, <1>4, <1>5 DEF MergeInv

----------------------------------------------------------------------------
(* From the sum to the end of the transaction. *)

\* The central row an import has found or is to create does not bear on its sum.
LEMMA SameSum ==
  ASSUME NEW r, NEW w, w.feed = r.feed, w.k = r.k, w.removing = r.removing, w.sum = r.sum
  PROVE  /\ Thing(w) = Thing(r) /\ Own(w) = Own(r)
         /\ \A t, v : SumExplained(t, r, v) => SumExplained(t, w, v)
         /\ \A e, t : SumWith(e, t, w) = SumWith(e, t, r)
<1>1. Thing(w) = Thing(r) /\ Own(w) = Own(r)
  BY DEF Thing, Own
<1>2. ASSUME NEW t, NEW v, SumExplained(t, r, v) PROVE SumExplained(t, w, v)
  BY <1>1, <1>2 DEF SumExplained
<1>3. ASSUME NEW e, NEW t PROVE SumWith(e, t, w) = SumWith(e, t, r)
  BY <1>1 DEF SumWith
<1>4. QED
  BY <1>1, <1>2, <1>3

\* A job that has summed and goes on to another statement of its transaction keeps the invariant.
LEMMA SumHeld ==
  ASSUME MergeInv, NEW p \in Jobs, at[p] \in Summed, NEW l \in Summed, NEW w \in Import,
         w.feed = import[p].feed, w.k = import[p].k, w.removing = import[p].removing,
         w.sum = import[p].sum, w.pushes = import[p].pushes,
         w.row # NoRow => l \in {"writeCentral", "commit"} /\ w.row \in Jobs \X {Thing(w)},
         Thing(w) \notin raced => RowFound(l, w, RowsIn(central, Thing(w))),
         MoveJob(p, l), import' = [import EXCEPT ![p] = w], UNCHANGED World
  PROVE  MergeInv'
<1>1. at'[p] = l /\ import'[p] = w /\ Moves(p)
  <2>1. at'[p] = l /\ import'[p] = w
    BY DEF MergeInv, MoveJob
  <2>2. QED
    BY <2>1 DEF Moves, MoveJob, Summed, Busy, InTx
<1>2. /\ Thing(w) = Thing(import[p])
      /\ SumExplained(SourceOf[p], import[p], ever) => SumExplained(SourceOf[p], w, ever)
      /\ SumWith(erp, SourceOf[p], w) = SumWith(erp, SourceOf[p], import[p])
  BY SameSum
<1>3. /\ w.k <= Len(w.feed) /\ w.k <= Len(w.feed) + 1 /\ \A x \in w.pushes : Known(x, ever)
      /\ SumExplained(SourceOf[p], import[p], ever)
      /\ Thing(w) \notin raced => import[p].sum = SumWith(erp, SourceOf[p], import[p])
  <2>1. at[p] \in Busy
    BY DEF Summed, Busy, InTx
  <2>2. JobSound(p, at[p], import[p], erp, central, ever, raced)
    BY JobIs
  <2>3. /\ SumExplained(SourceOf[p], import[p], ever)
        /\ Thing(w) \notin raced => import[p].sum = SumWith(erp, SourceOf[p], import[p])
    BY <1>2, <2>2 DEF JobSound
  <2>4. QED
    BY <2>1, <2>3, JobIs
<1>4. JobSound(p, l, w, erp, central, ever, raced)
  BY <1>2, <1>3 DEF JobSound
<1>5. JobSound(p, at'[p], import'[p], erp, central, ever, raced)
  BY <1>1, <1>4
<1>6. /\ UNCHANGED <<active, erp, central, announced, ever, raced>> /\ faults' \in 0..MaxUpsets
      /\ announced' \subseteq Push /\ \A x \in announced' : Known(x, ever)
  BY DEF World, MergeInv
<1>7. at'[p] \in Summed => at[p] \in Summed /\ Thing(import'[p]) = Thing(import[p])
  BY <1>1, <1>2
<1>8. QED
  BY <1>1, <1>5, <1>6, <1>7, JobMoves

\* The central row found is one of the product.
LEMMA FindCentralStep == ASSUME MergeInv, NEW p \in Jobs, FindCentral(p) PROVE MergeInv'
<1> DEFINE r == import[p]
           those == RowsIn(central, Thing(r))
<1>1. /\ at[p] = "findCentral" /\ UNCHANGED World
      /\ \/ those = {} /\ MoveJob(p, IF r.removing THEN "commit" ELSE "writeCentral") /\ UNCHANGED import
         \/ \E x \in those : import' = [import EXCEPT ![p].row = x] /\ MoveJob(p, "writeCentral")
  BY DEF FindCentral, CentralRows, RowsIn, Thing, Item
<1>2. r \in Import /\ r.row = NoRow
  BY <1>1, JobIs
<1>3. at[p] \in Summed
  BY <1>1 DEF Summed
<1>4. CASE those = {} /\ MoveJob(p, IF r.removing THEN "commit" ELSE "writeCentral") /\ UNCHANGED import
  <2> DEFINE l == IF r.removing THEN "commit" ELSE "writeCentral"
  <2>1. l \in Summed /\ RowFound(l, r, those)
    BY <1>2, <1>4 DEF Summed, RowFound
  <2>2. MoveJob(p, l) /\ import' = [import EXCEPT ![p] = r]
    BY <1>4 DEF MergeInv
  <2> HIDE DEF l
  <2>3. QED
    BY <1>1, <1>2, <1>3, <2>1, <2>2, SumHeld
<1>5. ASSUME NEW x \in those, import' = [import EXCEPT ![p].row = x], MoveJob(p, "writeCentral")
      PROVE  MergeInv'
  <2> DEFINE w == [r EXCEPT !.row = x]
  <2>1. x \in Jobs \X {Thing(r)} /\ Thing(r) \in Products
    <3>1. x \in DOMAIN central /\ central[x].product = Thing(r)
      BY DEF RowsIn
    <3>2. x \in Jobs \X {central[x].product} /\ central[x] \in Push
      BY <3>1 DEF MergeInv, TablesSound
    <3>3. QED
      BY <3>1, <3>2 DEF Push
  <2>2. x \in CentralIds
    BY <2>1 DEF CentralIds
  <2>3. /\ w \in Import /\ w.feed = r.feed /\ w.k = r.k /\ w.row = x /\ w.pushes = r.pushes
        /\ w.removing = r.removing /\ w.sum = r.sum
    BY <1>2, <2>2, SetField
  <2>4. Thing(w) = Thing(r)
    BY <2>3, SameSum
  <2>5. import' = [import EXCEPT ![p] = w]
    BY <1>5
  <2>6. x # NoRow
    BY <2>1 DEF NoRow
  <2> HIDE DEF w
  <2>7. "writeCentral" \in Summed /\ RowFound("writeCentral", w, those)
    BY <2>3, <2>6 DEF Summed, RowFound
  <2>8. w.row # NoRow => "writeCentral" \in {"writeCentral", "commit"} /\ w.row \in Jobs \X {Thing(w)}
    BY <2>1, <2>3, <2>4
  <2>9. Thing(w) \notin raced => RowFound("writeCentral", w, RowsIn(central, Thing(w)))
    BY <2>4, <2>7
  <2> HIDE DEF r
  <2>10. QED
    BY <1>1, <1>3, <1>5, <2>3, <2>5, <2>7, <2>8, <2>9, SumHeld DEF r
<1>6. QED
  BY <1>1, <1>4, <1>5

\* The central row is written in the transaction, or one is to be created.
LEMMA WriteCentralStep == ASSUME MergeInv, NEW p \in Jobs, WriteCentral(p) PROVE MergeInv'
<1> DEFINE r == import[p]
           those == RowsIn(central, Thing(r))
<1>1. at[p] = "writeCentral" /\ UNCHANGED World
  BY DEF WriteCentral
<1>2. /\ r \in Import
      /\ r.row # NoRow => r.row \in Jobs \X {Thing(r)}
      /\ Thing(r) \notin raced => RowFound("writeCentral", r, those)
      /\ r.k <= Len(r.feed)
  BY <1>1, JobIs DEF JobSound, Summed, Busy, InTx
<1>3. at[p] \in Summed /\ "commit" \in Summed
  BY <1>1 DEF Summed
<1>4. CASE r.row = NoRow /\ MoveJob(p, "commit") /\ import' = [import EXCEPT ![p].row = <<p, Item(p).product>>]
  <2> DEFINE x == <<p, Thing(r)>>
             w == [r EXCEPT !.row = x]
  <2>1. r \in Import /\ Thing(r) \in Products
    BY <1>2, ImportIs
  <2>2. x \in CentralIds /\ x \in Jobs \X {Thing(r)} /\ x # NoRow
    BY <2>1 DEF CentralIds, NoRow
  <2>3. import' = [import EXCEPT ![p] = w]
    BY <1>4 DEF Item, Thing
  <2> HIDE DEF x
  <2>4. /\ w \in Import /\ w.feed = r.feed /\ w.k = r.k /\ w.row = x /\ w.pushes = r.pushes
        /\ w.removing = r.removing /\ w.sum = r.sum
    BY <2>1, <2>2, SetField
  <2>5. Thing(w) = Thing(r)
    BY <2>4, SameSum
  <2> HIDE DEF w
  <2>6. Thing(w) \notin raced => RowFound("commit", w, RowsIn(central, Thing(w)))
    <3>1. ASSUME Thing(r) \notin raced PROVE those = {} /\ ~r.removing
      BY <1>2, <1>4, <3>1 DEF RowFound
    <3>2. QED
      BY <2>2, <2>4, <2>5, <3>1 DEF RowFound
  <2>7. w.row # NoRow => "commit" \in {"writeCentral", "commit"} /\ w.row \in Jobs \X {Thing(w)}
    BY <2>2, <2>4, <2>5
  <2> HIDE DEF r
  <2>8. QED
    BY <1>1, <1>3, <1>4, <2>3, <2>4, <2>6, <2>7, SumHeld DEF r
<1>5. CASE r.row # NoRow /\ r.row \in DOMAIN central /\ MoveJob(p, "commit") /\ UNCHANGED import
  <2>1. import' = [import EXCEPT ![p] = r]
    BY <1>5 DEF MergeInv
  <2>2. Thing(r) \notin raced => RowFound("commit", r, those)
    BY <1>2, <1>5 DEF RowFound
  <2>3. r.row # NoRow => "commit" \in {"writeCentral", "commit"} /\ r.row \in Jobs \X {Thing(r)}
    BY <1>2
  <2>4. QED
    BY <1>1, <1>2, <1>3, <1>5, <2>1, <2>2, <2>3, SumHeld
<1>6. CASE ItemFails(p)
  <2>1. UNCHANGED <<active, erp, central, announced, ever, raced>> /\ faults' \in 0..MaxUpsets
    BY <1>1 DEF World, MergeInv
  <2>2. at[p] \in Busy
    BY <1>1 DEF Busy, InTx
  <2>3. QED
    BY <1>6, <2>1, <2>2, FailsRests, RestingStep
<1>7. QED
  BY <1>4, <1>5, <1>6 DEF WriteCentral

\* What a row counts for is a natural number.
LEMMA CountedNat == \A x \in Values : Counted(x) \in Nat
BY DEF Counted, Values, Absent

\* The sum of the transaction: the other connections' committed those and its own write.
LEMMA MergedIs ==
  ASSUME ErpStockMergeAssumption, NEW p
  PROVE  MergedQty(p, Item(p).product) = SumWith(erp, SourceOf[p], import[p])
<1> DEFINE f == [s \in Sources |-> Counted(Seen(p, s, Item(p).product))]
           g == [s \in Sources |-> Counted(IF s = SourceOf[p] THEN Own(import[p]) ELSE erp[s][Thing(import[p])])]
<1>1. \A s \in Sources : f[s] = g[s]
  BY DEF Seen, Source, Own, Thing, Item
<1>2. IsFiniteSet(Sources)
  BY DEF ErpStockMergeAssumption
<1> HIDE DEF f, g
<1>3. SumFunctionOnSet(f, Sources) = SumFunctionOnSet(g, Sources)
  BY <1>1, <1>2, SumSame
<1>4. QED
  BY <1>3 DEF f, g, MergedQty, SumWith

\* ... is a natural number, made of values the those have.
LEMMA SumWithIs ==
  ASSUME ErpStockMergeAssumption, NEW e \in [Sources -> [Products -> Values]],
         NEW v, \A s \in Sources, i \in Products : e[s][i] \in v[s][i],
         NEW t \in Sources, NEW r \in Import, r.k <= Len(r.feed)
  PROVE  /\ SumWith(e, t, r) \in Nat
         /\ r.sum = SumWith(e, t, r) => SumExplained(t, r, v)
<1> DEFINE then == [s \in Sources |-> IF s = t THEN Own(r) ELSE e[s][Thing(r)]]
           f == [s \in Sources |-> Counted(then[s])]
           g == [s \in Sources |-> Counted(IF s = t THEN Own(r) ELSE e[s][Thing(r)])]
<1>1. Own(r) \in Values /\ Thing(r) \in Products
  BY ImportIs
<1>2. then \in [Sources -> Values] /\ then[t] = Own(r) /\ \A s \in Sources \ {t} : then[s] \in v[s][Thing(r)]
  BY <1>1
<1>3. \A s \in Sources : f[s] = g[s]
  OBVIOUS
<1> HIDE DEF then
<1>4. \A s \in Sources : f[s] \in Nat
  BY <1>2, CountedNat
<1>5. IsFiniteSet(Sources)
  BY DEF ErpStockMergeAssumption
<1> HIDE DEF f, g
<1>6. SumFunctionOnSet(f, Sources) = SumFunctionOnSet(g, Sources) /\ SumFunctionOnSet(f, Sources) \in Nat
  BY <1>3, <1>4, <1>5, SumSame, SumNat
<1>7. SumWith(e, t, r) = SumFunctionOnSet(g, Sources)
  BY DEF g, SumWith
<1>8. r.sum = SumWith(e, t, r) => SumExplained(t, r, v)
  BY <1>2, <1>6, <1>7 DEF SumExplained, f
<1>9. QED
  BY <1>6, <1>7, <1>8

\* The sum is taken: the product is marked as raced if another transaction has written it.
LEMMA SumStep == ASSUME MergeInv, ErpStockMergeAssumption, NEW p \in Jobs, Sum(p) PROVE MergeInv'
<1> DEFINE r == import[p]
           n == MergedQty(p, Item(p).product)
           w == [r EXCEPT !.sum = n]
<1>1. /\ at[p] = "sum" /\ import' = [import EXCEPT ![p] = w] /\ MoveJob(p, "findCentral")
      /\ raced' = IF Merging(Thing(r)) # {p} THEN raced \cup {Thing(r)} ELSE raced
      /\ UNCHANGED <<active, erp, central, announced, ever, faults>>
  BY DEF Sum, Stored, Thing, Item
<1>2. /\ r \in Import /\ r.row = NoRow /\ r.k <= Len(r.feed)
      /\ \A x \in r.pushes : Known(x, ever)
  BY <1>1, JobIs DEF Busy, InTx
<1>3. /\ Thing(r) \in Products /\ raced' \subseteq Products /\ raced \subseteq raced'
  BY <1>1, <1>2, ImportIs DEF MergeInv
<1>4. n = SumWith(erp, SourceOf[p], r) /\ n \in Nat
  <2>1. /\ erp \in [Sources -> [Products -> Values]] /\ SourceOf[p] \in Sources
        /\ \A s \in Sources, i \in Products : erp[s][i] \in ever[s][i]
    BY DEF MergeInv, TablesSound, ErpStockMergeAssumption
  <2> HIDE DEF r
  <2>2. SumWith(erp, SourceOf[p], r) \in Nat
    BY <1>2, <2>1, SumWithIs
  <2>3. QED
    BY <2>2, MergedIs DEF r
<1> HIDE DEF n
<1>5. /\ w \in Import /\ w.feed = r.feed /\ w.k = r.k /\ w.row = r.row /\ w.pushes = r.pushes
      /\ w.removing = r.removing /\ w.sum = n
  BY <1>2, <1>4, SetField
<1>6. Thing(w) = Thing(r) /\ w.sum = SumWith(erp, SourceOf[p], w) /\ w.k <= Len(w.feed)
  <2>1. Thing(w) = Thing(r) /\ Own(w) = Own(r)
    BY <1>5 DEF Thing, Own
  <2>2. SumWith(erp, SourceOf[p], w) = SumWith(erp, SourceOf[p], r)
    BY <2>1 DEF SumWith
  <2>3. QED
    BY <1>2, <1>4, <1>5, <2>1, <2>2
<1> HIDE DEF w
<1>7. at'[p] = "findCentral" /\ import'[p] = w /\ \A q \in Jobs \ {p} : at'[q] = at[q] /\ import'[q] = import[q]
  BY <1>1 DEF MergeInv, MoveJob
<1>8. at' \in [Jobs -> {"idle", "queue", "reconcile", "done"} \cup Busy] /\ import' \in [Jobs -> Import]
  BY <1>1, <1>5 DEF MergeInv, MoveJob, Busy, InTx
<1>9. JobSound(p, "findCentral", w, erp, central, ever, raced')
  <2>1. SumExplained(SourceOf[p], w, ever)
    <3>1. /\ erp \in [Sources -> [Products -> Values]] /\ SourceOf[p] \in Sources
          /\ \A s \in Sources, i \in Products : erp[s][i] \in ever[s][i]
      BY DEF MergeInv, TablesSound, ErpStockMergeAssumption
    <3>2. QED
      BY <1>5, <1>6, <3>1, SumWithIs
  <2>2. RowFound("findCentral", w, RowsIn(central, Thing(w)))
    BY DEF RowFound
  <2>3. w.k <= Len(w.feed) + 1 /\ w.row = NoRow /\ \A x \in w.pushes : Known(x, ever)
    BY <1>2, <1>5, <1>6, ImportIs
  <2>4. QED
    BY <1>5, <1>6, <2>1, <2>2, <2>3 DEF JobSound
<1>10. \A q \in Jobs : JobSound(q, at'[q], import'[q], erp', central', ever', raced')
  <2>1. ASSUME NEW q \in Jobs \ {p} PROVE JobSound(q, at'[q], import'[q], erp, central, ever, raced')
    <3>1. JobSound(q, at[q], import[q], erp, central, ever, raced)
      BY DEF MergeInv
    <3>2. JobSound(q, at[q], import[q], erp, central, ever, raced')
      BY <1>3, <3>1 DEF JobSound
    <3>3. QED
      BY <1>7, <3>2
  <2>2. QED
    BY <1>1, <1>7, <1>9, <2>1
<1>11. OneMerges(at', import', raced')
  <2>1. ASSUME NEW q \in Jobs \ {p}, at[q] \in Summed, Thing(import[q]) = Thing(r), Thing(r) \notin raced'
        PROVE  FALSE
    <3>1. q \in Merging(Thing(r))
      BY <2>1 DEF Merging, Summed, Item, Thing
    <3>2. QED
      BY <1>1, <2>1, <3>1
  <2>2. \A q, o \in Jobs \ {p} : at[q] \in Summed /\ at[o] \in Summed /\ Thing(import[q]) = Thing(import[o])
                                 /\ Thing(import[q]) \notin raced' => q = o
    BY <1>3 DEF MergeInv, OneMerges
  <2>3. QED
    BY <1>6, <1>7, <2>1, <2>2 DEF OneMerges
<1>12. TablesSound(erp', central', ever', raced')
  <2>1. TablesSound(erp, central, ever, raced)
    BY DEF MergeInv
  <2>2. TablesSound(erp, central, ever, raced')
    BY <1>3, <2>1 DEF TablesSound
  <2>3. QED
    BY <1>1, <2>2
<1>13. QED
  BY <1>1, <1>3, <1>8, <1>10, <1>11, <1>12 DEF MergeInv

\* What a committed transaction makes of the central stock.
Written(c, d, r) ==
  IF r.row = NoRow THEN d = c
  ELSE IF r.removing /\ r.sum = 0
       THEN DOMAIN d = DOMAIN c \ {r.row} /\ \A x \in DOMAIN d : d[x] = c[x]
       ELSE /\ DOMAIN d = DOMAIN c \cup {r.row}
            /\ \A x \in DOMAIN d : d[x] = IF x = r.row THEN [product |-> Thing(r), qty |-> r.sum] ELSE c[x]

\* With more values that those have had, what was explained is.
LEMMA ExplainedStill ==
  ASSUME NEW v, NEW u, \A s \in Sources, i \in Products : v[s][i] \subseteq u[s][i]
  PROVE  /\ \A x \in Push : (Known(x, v) => Known(x, u)) /\ (Explained(x, v) => Explained(x, u))
         /\ \A t, r : Thing(r) \in Products /\ SumExplained(t, r, v) => SumExplained(t, r, u)
<1>1. \A x \in Push : x.product \in Products
  BY DEF Push
<1>2. ASSUME NEW x \in Push, Known(x, v) PROVE Known(x, u)
  BY <1>1, <1>2 DEF Known
<1>3. ASSUME NEW x \in Push, Explained(x, v) PROVE Explained(x, u)
  BY <1>1, <1>3 DEF Explained
<1>4. ASSUME NEW t, NEW r, Thing(r) \in Products, SumExplained(t, r, v) PROVE SumExplained(t, r, u)
  BY <1>4 DEF SumExplained
<1>5. QED
  BY <1>2, <1>3, <1>4

\* A sum that was explained explains the row it is written to, once the connection's own
\* value is one its row has had.
LEMMA SumExplains ==
  ASSUME NEW t \in Sources, NEW r \in Import, r.k <= Len(r.feed), NEW v, SumExplained(t, r, v),
         Own(r) \in v[t][Thing(r)]
  PROVE  LET x == [product |-> Thing(r), qty |-> r.sum] IN x \in Push /\ Explained(x, v)
BY ImportIs DEF Explained, SumExplained, Push

\* The total is what the job's sum is, once the row of its connection is written.
LEMMA TotalIsSum ==
  ASSUME ErpStockMergeAssumption, NEW e \in [Sources -> [Products -> Values]],
         NEW t \in Sources, NEW r \in Import, r.k <= Len(r.feed),
         NEW d, d = [e EXCEPT ![t][Thing(r)] = Own(r)]
  PROVE  TotalIn(d, Thing(r)) = SumWith(e, t, r)
<1> DEFINE f == [s \in Sources |-> Counted(d[s][Thing(r)])]
           g == [s \in Sources |-> Counted(IF s = t THEN Own(r) ELSE e[s][Thing(r)])]
<1>1. Thing(r) \in Products /\ IsFiniteSet(Sources)
  BY ImportIs DEF ErpStockMergeAssumption
<1>2. \A s \in Sources : f[s] = g[s]
  BY <1>1
<1> HIDE DEF f, g
<1>3. SumFunctionOnSet(f, Sources) = SumFunctionOnSet(g, Sources)
  BY <1>1, <1>2, SumSame
<1>4. QED
  BY <1>3 DEF f, g, TotalIn, SumWith

\* Without the connection's own row the sum is no more than the total.
LEMMA SumOfRest ==
  ASSUME ErpStockMergeAssumption, NEW e \in [Sources -> [Products -> Values]],
         NEW t \in Sources, NEW r \in Import, r.k <= Len(r.feed), r.removing, TotalIn(e, Thing(r)) = 0
  PROVE  SumWith(e, t, r) = 0
<1> DEFINE f == [s \in Sources |-> Counted(e[s][Thing(r)])]
           g == [s \in Sources |-> Counted(IF s = t THEN Own(r) ELSE e[s][Thing(r)])]
<1>1. Thing(r) \in Products /\ IsFiniteSet(Sources) /\ Own(r) = Absent
  BY ImportIs DEF ErpStockMergeAssumption, Own
<1>2. Counted(Absent) = 0
  BY DEF Counted
<1>3. \A s \in Sources : f[s] \in Nat
  BY <1>1, CountedNat
<1>4. \A s \in Sources : g[s] = IF s = t THEN 0 ELSE f[s]
  BY <1>1, <1>2
<1> HIDE DEF f, g
<1>5. \A s \in Sources : g[s] \in Nat /\ g[s] \in Int /\ f[s] \in Int /\ g[s] <= f[s]
  BY <1>3, <1>4
<1>6. SumFunctionOnSet(g, Sources) <= SumFunctionOnSet(f, Sources)
  BY <1>1, <1>5, SumLess
<1>7. SumFunctionOnSet(g, Sources) \in Nat
  BY <1>1, <1>5, SumNat
<1>8. SumFunctionOnSet(f, Sources) = 0 /\ SumWith(e, t, r) = SumFunctionOnSet(g, Sources)
  BY DEF f, g, TotalIn, SumWith
<1>9. QED
  BY <1>6, <1>7, <1>8

\* Of a product without a race, the written row is the one there is and holds the total.
LEMMA WrittenRow ==
  ASSUME ErpStockMergeAssumption, NEW e \in [Sources -> [Products -> Values]],
         NEW t \in Sources, NEW r \in Import, r.k <= Len(r.feed), NEW c, NEW d,
         CentralIs(RowsIn(c, Thing(r)), c, TotalIn(e, Thing(r))),
         r.sum = SumWith(e, t, r), RowFound("commit", r, RowsIn(c, Thing(r))), Written(c, d, r)
  PROVE  CentralIs(RowsIn(d, Thing(r)), d, r.sum)
<1>1. r.removing \in BOOLEAN /\ r.sum \in Nat
  BY ImportIs
<1>2. CASE r.row = NoRow
  <2>1. RowsIn(c, Thing(r)) = {} /\ r.removing /\ d = c
    BY <1>2 DEF RowFound, Written
  <2>2. r.sum = 0
    BY <2>1, SumOfRest DEF CentralIs
  <2>3. QED
    BY <2>1, <2>2 DEF CentralIs
<1>3. CASE r.row # NoRow /\ r.removing /\ r.sum = 0
  <2>1. RowsIn(c, Thing(r)) = {r.row}
    BY <1>3 DEF RowFound, CentralIs
  <2>2. DOMAIN d = DOMAIN c \ {r.row} /\ \A x \in DOMAIN d : d[x] = c[x]
    BY <1>3 DEF Written
  <2>3. RowsIn(d, Thing(r)) = {}
    BY <2>1, <2>2 DEF RowsIn
  <2>4. QED
    BY <1>3, <2>3 DEF CentralIs
<1>4. CASE r.row # NoRow /\ ~(r.removing /\ r.sum = 0)
  <2>1. RowsIn(c, Thing(r)) \subseteq {r.row}
    BY <1>4 DEF RowFound, CentralIs
  <2>2. /\ DOMAIN d = DOMAIN c \cup {r.row}
        /\ \A x \in DOMAIN d : d[x] = IF x = r.row THEN [product |-> Thing(r), qty |-> r.sum] ELSE c[x]
    BY <1>4 DEF Written
  <2>3. RowsIn(d, Thing(r)) = {r.row} /\ d[r.row].qty = r.sum
    BY <2>1, <2>2 DEF RowsIn
  <2>4. QED
    BY <2>3 DEF CentralIs
<1>5. QED
  BY <1>2, <1>3, <1>4

\* A commit of import r of connection t: sound tables e, c and v become f, d and u.
Committed(e, c, v, R, t, r, f, d, u) ==
  /\ TablesSound(e, c, v, R) /\ t \in Sources /\ r \in Import /\ r.k <= Len(r.feed)
  /\ SumExplained(t, r, v)
  /\ r.row # NoRow => r.row \in Jobs \X {Thing(r)}
  /\ Thing(r) \notin R => r.sum = SumWith(e, t, r) /\ RowFound("commit", r, RowsIn(c, Thing(r)))
  /\ f = [e EXCEPT ![t][Thing(r)] = Own(r)]
  /\ Written(c, d, r)
  /\ u = [v EXCEPT ![t][Thing(r)] = v[t][Thing(r)] \cup {Own(r)}]

\* The other products' those and totals stay.
LEMMA OthersStay ==
  ASSUME IsFiniteSet(Sources), NEW e, NEW c, NEW v, NEW R, NEW t, NEW r, NEW f, NEW d, NEW u,
         Committed(e, c, v, R, t, r, f, d, u), NEW i, i \in Products, i # Thing(r)
  PROVE  /\ RowsIn(d, i) = RowsIn(c, i)
         /\ \A x \in RowsIn(c, i) : d[x] = c[x]
         /\ \A s \in Sources : f[s][i] = e[s][i]
         /\ TotalIn(f, i) = TotalIn(e, i)
<1>0. /\ e \in [Sources -> [Products -> Values]] /\ t \in Sources /\ Thing(r) \in Products
      /\ \A x \in DOMAIN c : x \in Jobs \X {c[x].product}
      /\ r.row # NoRow => r.row \in Jobs \X {Thing(r)}
      /\ Written(c, d, r)
      /\ f = [e EXCEPT ![t][Thing(r)] = Own(r)]
  BY ImportIs DEF Committed, TablesSound
<1>1. RowsIn(d, i) = RowsIn(c, i) /\ \A x \in RowsIn(c, i) : d[x] = c[x]
  <2>1. \A x \in RowsIn(c, i) : x # r.row
    <3> SUFFICES ASSUME NEW x \in RowsIn(c, i), x = r.row PROVE FALSE
      OBVIOUS
    <3>1. x \in Jobs \X {i}
      BY <1>0 DEF RowsIn
    <3>2. x # NoRow
      BY <3>1 DEF NoRow
    <3>3. x \in Jobs \X {Thing(r)}
      BY <1>0, <3>2
    <3>4. QED
      BY <3>1, <3>3
  <2>2. CASE r.row = NoRow
    BY <1>0, <2>2 DEF Written
  <2>3. CASE r.row # NoRow /\ r.removing /\ r.sum = 0
    <3>1. DOMAIN d = DOMAIN c \ {r.row} /\ \A x \in DOMAIN d : d[x] = c[x]
      BY <1>0, <2>3 DEF Written
    <3>2. QED
      BY <2>1, <3>1 DEF RowsIn
  <2>4. CASE r.row # NoRow /\ ~(r.removing /\ r.sum = 0)
    <3>1. /\ DOMAIN d = DOMAIN c \cup {r.row}
          /\ \A x \in DOMAIN d : d[x] = IF x = r.row THEN [product |-> Thing(r), qty |-> r.sum] ELSE c[x]
      BY <1>0, <2>4 DEF Written
    <3>2. r.row \in DOMAIN d => d[r.row].product = Thing(r)
      BY <3>1
    <3>3. QED
      BY <2>1, <3>1, <3>2 DEF RowsIn
  <2>5. QED
    BY <2>2, <2>3, <2>4
<1>2. \A s \in Sources : f[s][i] = e[s][i]
  BY <1>0
<1>3. TotalIn(f, i) = TotalIn(e, i)
  <2> DEFINE g == [s \in Sources |-> Counted(f[s][i])]
             h == [s \in Sources |-> Counted(e[s][i])]
  <2>1. \A s \in Sources : g[s] = h[s]
    BY <1>2
  <2> HIDE DEF g, h
  <2>2. SumFunctionOnSet(g, Sources) = SumFunctionOnSet(h, Sources)
    BY <2>1, SumSame
  <2>3. QED
    BY <2>2 DEF g, h, TotalIn
<1>4. QED
  BY <1>1, <1>2, <1>3

\* The tables after a commit.
LEMMA CommittedTables ==
  ASSUME ErpStockMergeAssumption, NEW e, NEW c, NEW v, NEW R, NEW t, NEW r, NEW f, NEW d, NEW u,
         Committed(e, c, v, R, t, r, f, d, u)
  PROVE  /\ TablesSound(f, d, u, R)
         /\ \A s \in Sources, i \in Products : v[s][i] \subseteq u[s][i]
         /\ Own(r) \in u[t][Thing(r)]
<1>0. /\ TablesSound(e, c, v, R) /\ t \in Sources /\ r \in Import /\ r.k <= Len(r.feed)
      /\ SumExplained(t, r, v)
      /\ Thing(r) \notin R => r.sum = SumWith(e, t, r) /\ RowFound("commit", r, RowsIn(c, Thing(r)))
      /\ f = [e EXCEPT ![t][Thing(r)] = Own(r)]
      /\ Written(c, d, r)
      /\ u = [v EXCEPT ![t][Thing(r)] = v[t][Thing(r)] \cup {Own(r)}]
      /\ r.row # NoRow => r.row \in Jobs \X {Thing(r)}
  BY DEF Committed
<1>1. Thing(r) \in Products /\ Own(r) \in Values /\ r.sum \in Nat
  BY <1>0, ImportIs
<1>2. /\ e \in [Sources -> [Products -> Values]] /\ v \in [Sources -> [Products -> SUBSET Values]]
      /\ \A x \in DOMAIN c : c[x] \in Push /\ x \in Jobs \X {c[x].product} /\ Explained(c[x], v)
      /\ \A s \in Sources, i \in Products : e[s][i] \in v[s][i]
      /\ \A i \in Products \ R : CentralIs(RowsIn(c, i), c, TotalIn(e, i))
  BY <1>0 DEF TablesSound
<1>3. /\ f \in [Sources -> [Products -> Values]]
      /\ \A s \in Sources, i \in Products : f[s][i] = IF s = t /\ i = Thing(r) THEN Own(r) ELSE e[s][i]
  BY <1>0, <1>1, <1>2
<1>4. /\ u \in [Sources -> [Products -> SUBSET Values]]
      /\ \A s \in Sources, i \in Products :
           u[s][i] = IF s = t /\ i = Thing(r) THEN v[s][i] \cup {Own(r)} ELSE v[s][i]
  BY <1>0, <1>1, <1>2
<1>5. \A s \in Sources, i \in Products : v[s][i] \subseteq u[s][i]
  BY <1>4
<1>6. Own(r) \in u[t][Thing(r)]
  BY <1>0, <1>1, <1>4
<1>7. \A s \in Sources, i \in Products : f[s][i] \in u[s][i]
  BY <1>2, <1>3, <1>4
<1> DEFINE new == [product |-> Thing(r), qty |-> r.sum]
<1>8. new \in Push /\ new.product = Thing(r) /\ Explained(new, u)
  <2>1. SumExplained(t, r, u)
    BY <1>0, <1>1, <1>5, ExplainedStill
  <2>2. QED
    BY <1>0, <1>6, <2>1, SumExplains
<1>9. ASSUME NEW x \in DOMAIN d
      PROVE  d[x] \in Push /\ x \in Jobs \X {d[x].product} /\ Explained(d[x], u)
  <2>1. \/ x \in DOMAIN c /\ d[x] = c[x]
        \/ r.row # NoRow /\ x = r.row /\ d[x] = new
    BY <1>0, <1>9 DEF Written
  <2>2. CASE x \in DOMAIN c /\ d[x] = c[x]
    BY <1>2, <1>5, <2>2, ExplainedStill
  <2>3. CASE r.row # NoRow /\ x = r.row /\ d[x] = new
    <3> HIDE DEF new
    <3>1. QED
      BY <1>0, <1>8, <2>3
  <2>4. QED
    BY <2>1, <2>2, <2>3
<1>10. ASSUME NEW i \in Products \ R PROVE CentralIs(RowsIn(d, i), d, TotalIn(f, i))
  <2>1. CentralIs(RowsIn(c, i), c, TotalIn(e, i))
    BY <1>2
  <2>2. CASE i = Thing(r)
    <3>1. TotalIn(f, i) = SumWith(e, t, r)
      BY <1>0, <1>2, <2>2, TotalIsSum
    <3>2. r.sum = SumWith(e, t, r) /\ RowFound("commit", r, RowsIn(c, Thing(r)))
      BY <1>0, <2>2
    <3>3. CentralIs(RowsIn(d, Thing(r)), d, r.sum)
      BY <1>0, <1>2, <2>1, <2>2, <3>2, WrittenRow
    <3>4. QED
      BY <2>2, <3>1, <3>2, <3>3
  <2>3. CASE i # Thing(r)
    <3>0. i \in Products /\ i # Thing(r) /\ IsFiniteSet(Sources)
      BY <2>3 DEF ErpStockMergeAssumption
    <3>1. /\ RowsIn(d, i) = RowsIn(c, i)
          /\ \A x \in RowsIn(c, i) : d[x] = c[x]
          /\ TotalIn(f, i) = TotalIn(e, i)
      BY <3>0, OthersStay
    <3>2. QED
      BY <2>1, <3>1 DEF CentralIs
  <2>4. QED
    BY <2>2, <2>3
<1>11. QED
  BY <1>3, <1>4, <1>5, <1>6, <1>7, <1>9, <1>10 DEF TablesSound

\* The rows reach the tables: the sum is still the total of a product that is not raced.
LEMMA CommitMergeStep == ASSUME MergeInv, ErpStockMergeAssumption, NEW p \in Jobs, CommitMerge(p) PROVE MergeInv'
<1> DEFINE r == import[p]
           t == SourceOf[p]
           i == Thing(r)
<1>1. at[p] = "commit" /\ t \in Sources
  BY DEF CommitMerge, ErpStockMergeAssumption
<1>2. /\ r \in Import /\ r.k <= Len(r.feed) /\ \A x \in r.pushes : Known(x, ever)
      /\ at[p] \in Busy /\ at[p] \in Summed
  BY <1>1, JobIs DEF Busy, Summed, InTx
<1>3. /\ SumExplained(t, r, ever)
      /\ r.row # NoRow => r.row \in Jobs \X {i}
      /\ i \notin raced => r.sum = SumWith(erp, t, r) /\ RowFound("commit", r, RowsIn(central, i))
  <2>1. JobSound(p, "commit", r, erp, central, ever, raced)
    BY <1>1, JobIs
  <2> HIDE DEF r
  <2>2. QED
    BY <2>1 DEF JobSound, Summed
<1>4. i \in Products /\ Own(r) \in Values /\ r.feed[r.k] \in Push /\ (~r.removing => Own(r) = r.feed[r.k].qty)
  BY <1>2, ImportIs
<1>5. erp' = [erp EXCEPT ![t][i] = Own(r)]
  BY DEF CommitMerge, Own, Thing, Source, Item
<1>6. ever' = [ever EXCEPT ![t][i] = ever[t][i] \cup {Own(r)}]
  <2>1. ever \in [Sources -> [Products -> SUBSET Values]]
    BY DEF MergeInv, TablesSound
  <2>2. ever' = [ever EXCEPT ![t][i] = @ \cup {Own(r)}]
    BY DEF CommitMerge, Own, Thing, Source, Item
  <2>3. QED
    BY <1>1, <1>4, <2>1, <2>2
<1>7. Written(central, central', r)
  <2>1. central' = IF r.row = NoRow THEN central
                   ELSE IF r.removing /\ r.sum = 0 THEN Restrict(central, DOMAIN central \ {r.row})
                   ELSE Put(r.row, [product |-> i, qty |-> r.sum])
    BY DEF CommitMerge, Thing, Item
  <2>2. QED
    BY <2>1 DEF Written, Restrict, Put
<1>8. /\ Follow(p, AfterImport(p)) /\ UNCHANGED <<active, announced, raced, faults>>
  BY DEF CommitMerge
<1>9. TablesSound(erp, central, ever, raced)
  BY DEF MergeInv
<1>0. Committed(erp, central, ever, raced, t, r, erp', central', ever')
  <2> HIDE DEF r, t
  <2>1. QED
    BY <1>1, <1>2, <1>3, <1>5, <1>6, <1>7, <1>9 DEF Committed
<1>10. /\ TablesSound(erp', central', ever', raced')
       /\ \A s \in Sources, j \in Products : ever[s][j] \subseteq ever'[s][j]
       /\ Own(r) \in ever'[t][i]
  <2> HIDE DEF r, t
  <2>1. /\ TablesSound(erp', central', ever', raced)
        /\ \A s \in Sources, j \in Products : ever[s][j] \subseteq ever'[s][j]
        /\ Own(r) \in ever'[t][i]
    BY <1>0, CommittedTables
  <2>2. QED
    BY <1>8, <2>1
<1>11. /\ \A x \in Push : (Known(x, ever) => Known(x, ever')) /\ (Explained(x, ever) => Explained(x, ever'))
       /\ \A s, w : Thing(w) \in Products /\ SumExplained(s, w, ever) => SumExplained(s, w, ever')
  BY <1>10, ExplainedStill
<1>12. AfterImport(p) \subseteq Push /\ \A x \in AfterImport(p) : Known(x, ever')
  <2>1. \/ AfterImport(p) \subseteq r.pushes
        \/ ~r.removing /\ AfterImport(p) \subseteq r.pushes \cup {r.feed[r.k]}
    BY DEF AfterImport, Item
  <2>2. r.pushes \subseteq Push /\ \A x \in r.pushes : Known(x, ever')
    BY <1>2, <1>11, ImportIs
  <2>3. ~r.removing => Known(r.feed[r.k], ever')
    BY <1>1, <1>4, <1>10 DEF Known, Thing
  <2>4. QED
    BY <1>4, <2>1, <2>2, <2>3
<1>13. Rests(p, AfterImport(p))
  BY <1>2, <1>8, <1>12, FollowRests
<1>14. JobSound(p, at'[p], import'[p], erp', central', ever', raced')
  <2> DEFINE a == at'[p]
             w == import'[p]
  <2>1. /\ a \notin Summed /\ w \in Import /\ w.k <= Len(w.feed) + 1 /\ w.row = NoRow
        /\ a \in Busy => w.k <= Len(w.feed)
        /\ \A x \in w.pushes : Known(x, ever')
    BY <1>12, <1>13 DEF Rests
  <2> HIDE DEF a, w
  <2>2. JobSound(p, a, w, erp', central', ever', raced')
    BY <2>1, Unsummed
  <2>3. QED
    BY <2>2 DEF a, w
<1>15. \A q \in Jobs \ {p} : at'[q] = at[q] /\ import'[q] = import[q]
  BY <1>13 DEF Rests, Moves, MergeInv
<1>16. ASSUME NEW q \in Jobs \ {p} PROVE JobSound(q, at[q], import[q], erp', central', ever', raced)
  <2> DEFINE w == import[q]
             a == at[q]
  <2>1. /\ JobSound(q, a, w, erp, central, ever, raced)
        /\ w \in Import /\ (a \in Busy => w.k <= Len(w.feed)) /\ (a \in Summed => a \in Busy)
    BY JobIs DEF Summed, Busy, InTx
  <2>2. a \in Summed /\ Thing(w) \notin raced => Thing(w) # i
    BY <1>2 DEF MergeInv, OneMerges
  <2>3. a \in Summed => Thing(w) \in Products
    BY <2>1, ImportIs
  <2>4. w.pushes \subseteq Push
    BY <2>1, ImportIs
  <2> HIDE DEF a, w
  <2>5. ASSUME a \in Summed, Thing(w) \notin raced
        PROVE  w.sum = SumWith(erp', SourceOf[q], w) /\ RowFound(a, w, RowsIn(central', Thing(w)))
    <3>1. w.sum = SumWith(erp, SourceOf[q], w) /\ RowFound(a, w, RowsIn(central, Thing(w)))
      BY <2>1, <2>5 DEF JobSound
    <3>2. /\ RowsIn(central', Thing(w)) = RowsIn(central, Thing(w))
          /\ \A s \in Sources : erp'[s][Thing(w)] = erp[s][Thing(w)]
      <4>1. Thing(w) \in Products /\ Thing(w) # Thing(r) /\ IsFiniteSet(Sources)
        BY <2>2, <2>3, <2>5 DEF ErpStockMergeAssumption
      <4> HIDE DEF r, t
      <4>2. QED
        BY <1>0, <4>1, OthersStay
    <3>3. SumWith(erp', SourceOf[q], w) = SumWith(erp, SourceOf[q], w)
      <4> DEFINE g == [s \in Sources |-> Counted(IF s = SourceOf[q] THEN Own(w) ELSE erp'[s][Thing(w)])]
                 h == [s \in Sources |-> Counted(IF s = SourceOf[q] THEN Own(w) ELSE erp[s][Thing(w)])]
      <4>1. \A s \in Sources : g[s] = h[s]
        BY <3>2
      <4>2. IsFiniteSet(Sources)
        BY DEF ErpStockMergeAssumption
      <4> HIDE DEF g, h
      <4>3. SumFunctionOnSet(g, Sources) = SumFunctionOnSet(h, Sources)
        BY <4>1, <4>2, SumSame
      <4>4. QED
        BY <4>3 DEF g, h, SumWith
    <3>4. QED
      BY <3>1, <3>2, <3>3
  <2>6. a \in Summed => SumExplained(SourceOf[q], w, ever')
    BY <1>11, <2>1, <2>3 DEF JobSound
  <2>7. \A x \in w.pushes : Known(x, ever')
    BY <1>11, <2>1, <2>4 DEF JobSound
  <2>8. JobSound(q, a, w, erp', central', ever', raced)
    BY <2>1, <2>5, <2>6, <2>7 DEF JobSound
  <2>9. QED
    BY <2>8 DEF a, w
<1>17. \A q \in Jobs : JobSound(q, at'[q], import'[q], erp', central', ever', raced')
  BY <1>8, <1>14, <1>15, <1>16
<1>18. OneMerges(at', import', raced')
  <2>1. \A q \in Jobs : at'[q] \in Summed => q # p /\ at'[q] = at[q] /\ import'[q] = import[q]
    BY <1>13, <1>15 DEF Rests
  <2>2. QED
    BY <1>8, <2>1 DEF MergeInv, OneMerges
<1>19. /\ at' \in [Jobs -> {"idle", "queue", "reconcile", "done"} \cup Busy] /\ import' \in [Jobs -> Import]
  <2>1. /\ at' \in [Jobs -> {"idle", "queue", "reconcile", "done"} \cup Busy \cup {at'[p]}]
        /\ import' \in [Jobs -> Import \cup {import'[p]}]
    <3> DEFINE a == at'[p]
               w == import'[p]
    <3>1. at' = [at EXCEPT ![p] = a] /\ import' = [import EXCEPT ![p] = w]
      BY <1>13 DEF Rests, Moves
    <3> HIDE DEF a, w
    <3>2. /\ at' \in [Jobs -> {"idle", "queue", "reconcile", "done"} \cup Busy \cup {a}]
          /\ import' \in [Jobs -> Import \cup {w}]
      BY <3>1 DEF MergeInv, Busy, InTx
    <3>3. QED
      BY <3>2 DEF a, w
  <2>2. at'[p] \in {"idle", "queue", "reconcile", "done"} \cup Busy /\ import'[p] \in Import
    BY <1>13 DEF Rests, Moves
  <2>3. /\ {"idle", "queue", "reconcile", "done"} \cup Busy \cup {at'[p]} = {"idle", "queue", "reconcile", "done"} \cup Busy
        /\ Import \cup {import'[p]} = Import
    BY <2>2
  <2>4. QED
    BY <2>1, <2>3
<1>20. announced' \subseteq Push /\ \A x \in announced' : Known(x, ever')
  BY <1>8, <1>11 DEF MergeInv
<1>21. QED
  BY <1>8, <1>10, <1>17, <1>18, <1>19, <1>20 DEF MergeInv

----------------------------------------------------------------------------
(* The properties. *)

\* The invariant holds at the start: no rows, and nothing to sum.
LEMMA MergeInvInit == ASSUME ErpStockMergeAssumption, MergeInit PROVE MergeInv
<1>1. /\ active = Sources /\ erp = [s \in Sources |-> [i \in Products |-> Absent]] /\ central = <<>>
      /\ announced = {} /\ ever = [s \in Sources |-> [i \in Products |-> {Absent}]] /\ raced = {}
      /\ at = [p \in Jobs |-> "idle"] /\ import = [p \in Jobs |-> NoImport] /\ faults = 0
  BY DEF MergeInit
<1>2. DOMAIN central = {}
  BY <1>1
<1>3. TablesSound(erp, central, ever, raced)
  <2>1. /\ erp \in [Sources -> [Products -> Values]] /\ ever \in [Sources -> [Products -> SUBSET Values]]
        /\ \A s \in Sources, i \in Products : erp[s][i] \in ever[s][i]
    BY <1>1 DEF Values
  <2>2. ASSUME NEW i \in Products PROVE CentralIs(RowsIn(central, i), central, TotalIn(erp, i))
    <3> DEFINE f == [s \in Sources |-> Counted(erp[s][i])]
    <3>1. \A s \in Sources : f[s] = 0
      BY <1>1 DEF Counted
    <3>2. IsFiniteSet(Sources)
      BY DEF ErpStockMergeAssumption
    <3> HIDE DEF f
    <3>3. SumFunctionOnSet(f, Sources) = 0
      BY <3>1, <3>2, SumZero
    <3>4. RowsIn(central, i) = {}
      BY <1>2 DEF RowsIn
    <3>5. QED
      BY <3>3, <3>4 DEF f, TotalIn, CentralIs
  <2>3. QED
    BY <1>2, <2>1, <2>2 DEF TablesSound
<1>4. /\ at \in [Jobs -> {"idle", "queue", "reconcile", "done"} \cup Busy] /\ import \in [Jobs -> Import]
      /\ \A p \in Jobs : at[p] \notin Summed /\ at[p] \notin Busy /\ import[p] = NoImport
  BY <1>1, NoImportIs DEF Busy, Summed, InTx
<1>5. ASSUME NEW p \in Jobs PROVE JobSound(p, at[p], import[p], erp, central, ever, raced)
  <2> DEFINE a == at[p]
  <2>1. a \notin Summed /\ a \notin Busy
    BY <1>4
  <2> HIDE DEF a
  <2>2. JobSound(p, a, NoImport, erp, central, ever, raced)
    BY <2>1, NoImportIs, Unsummed
  <2>3. QED
    BY <1>4, <2>2 DEF a
<1>6. OneMerges(at, import, raced)
  BY <1>4 DEF OneMerges
<1>7. faults \in 0..MaxUpsets /\ active \subseteq Sources /\ announced = {} /\ raced \subseteq Products
  BY <1>1 DEF ErpStockMergeAssumption
<1>8. QED
  BY <1>3, <1>4, <1>5, <1>6, <1>7 DEF MergeInv

\* Every step keeps the invariant.
LEMMA MergeInvStep ==
  ASSUME ErpStockMergeAssumption, MergeInv, [MergeNext]_mergeVars PROVE MergeInv'
<1>1. ASSUME NEW p \in Jobs, Step(p) PROVE MergeInv'
  BY <1>1, StartJobStep, ReadPriorStep, LockProductStep, FindErpStep, WriteErpStep, SumStep, FindCentralStep,
     WriteCentralStep, CommitMergeStep, QueuePushesStep, ReconcileStep DEF Step
<1>2. ASSUME NEW p \in Jobs, TxFails(p) PROVE MergeInv'
  BY <1>2, TxFailsStep
<1>3. ASSUME NEW s \in Sources, RemoveConnection(s) PROVE MergeInv'
  BY <1>3, RemoveConnectionStep
<1>4. CASE MergeCrash
  BY <1>4, MergeCrashStep
<1>5. CASE UNCHANGED mergeVars
  BY <1>5 DEF MergeInv, mergeVars
<1>6. QED
  BY <1>1, <1>2, <1>3, <1>4, <1>5 DEF MergeNext

\* The invariant is one.
THEOREM MergesInductive == MergeSpec => []MergeInv
<1>1. MergeInit => MergeInv
  BY MergeInvInit, ErpStockMergeAssumption
<1>2. MergeInv /\ [MergeNext]_mergeVars => MergeInv'
  BY MergeInvStep, ErpStockMergeAssumption
<1>3. QED
  BY <1>1, <1>2, PTL DEF MergeSpec

\* The types follow from the invariant.
LEMMA MergeTyped == ASSUME MergeInv PROVE MergeTypeOK
<1>1. /\ active \subseteq Sources /\ announced \subseteq Push /\ raced \subseteq Products /\ faults \in 0..MaxUpsets
      /\ import \in [Jobs -> Import]
  BY DEF MergeInv
<1>2. at \in [Jobs -> {"idle", "prior", "product", "queue", "reconcile", "done"} \cup InTx]
  BY DEF MergeInv, Busy, InTx
<1>3. \A p \in Jobs : import[p].k <= Len(import[p].feed) + 1
  BY JobIs
<1>4. /\ erp \in [Sources -> [Products -> Nat \cup {Absent}]]
      /\ ever \in [Sources -> [Products -> SUBSET (Nat \cup {Absent})]]
  BY DEF MergeInv, TablesSound, Values
<1>5. ASSUME NEW r \in DOMAIN central PROVE r \in CentralIds /\ central[r] \in Push
  BY DEF MergeInv, TablesSound, CentralIds, Push
<1>6. QED
  BY <1>1, <1>2, <1>3, <1>4, <1>5 DEF MergeTypeOK

\* A product's one row, or none, adds up to the total.
LEMMA RowsAddUp ==
  ASSUME ErpStockMergeAssumption, MergeInv, NEW i \in Products \ raced
  PROVE  /\ Cardinality(CentralRows(i)) <= 1
         /\ SumFunctionOnSet([r \in CentralRows(i) |-> central[r].qty], CentralRows(i)) = Total(i)
<1> DEFINE those == RowsIn(central, i)
           f == [r \in those |-> central[r].qty]
<1>1. CentralRows(i) = those /\ Total(i) = TotalIn(erp, i) /\ CentralIs(those, central, TotalIn(erp, i))
  BY DEF MergeInv, TablesSound, CentralRows, RowsIn, Total, TotalIn
<1>2. \A r \in those : f[r] = central[r].qty /\ f[r] \in Int
  BY DEF RowsIn, MergeInv, TablesSound, Push
<1> HIDE DEF f, those
<1>3. CASE those = {}
  <2>1. SumFunctionOnSet(f, those) = 0 /\ Cardinality(those) = 0
    BY <1>3, SumEmpty, FS_EmptySet
  <2>2. QED
    BY <1>1, <1>3, <2>1 DEF CentralIs, f
<1>4. ASSUME NEW x \in those, those = {x}, central[x].qty = TotalIn(erp, i)
      PROVE  Cardinality(those) <= 1 /\ SumFunctionOnSet(f, those) = TotalIn(erp, i)
  <2>1. IsFiniteSet(those) /\ Cardinality(those) = 1
    BY <1>4, FS_Singleton
  <2>2. SumFunctionOnSet(f, those) = f[x] + SumFunctionOnSet(f, those \ {x})
    BY <1>2, <2>1, SumSplit
  <2>3. SumFunctionOnSet(f, those \ {x}) = 0
    <3>1. those \ {x} = {}
      BY <1>4
    <3>2. QED
      BY <3>1, SumEmpty
  <2>4. QED
    BY <1>2, <1>4, <2>1, <2>2, <2>3
<1>5. QED
  BY <1>1, <1>3, <1>4 DEF CentralIs, f

\* Whatever sources and products, feeds, jobs and faults there are: a product no sum of which
\* missed another transaction's write has at most one central row, and it holds what all ERP
\* sources have together.
THEOREM CentralIsSum == MergeSpec => []SumUnlessRaced
<1>1. MergeInv => SumUnlessRaced
  BY MergeTyped, RowsAddUp, ErpStockMergeAssumption DEF SumUnlessRaced
<1>2. QED
  BY <1>1, MergesInductive, PTL

\* Raced or not, what is written to the central stock is a sum of quantities that the
\* connections' those have had, one of each.
THEOREM CentralWasReal == MergeSpec => []CentralIsExplained
<1>1. ASSUME MergeInv, NEW r \in DOMAIN central
      PROVE  \E then \in [Sources -> UNION {ever[s][central[r].product] : s \in Sources}] :
               /\ \A s \in Sources : then[s] \in ever[s][central[r].product]
               /\ central[r].qty = SumFunctionOnSet([s \in Sources |-> Counted(then[s])], Sources)
  <2>1. Explained(central[r], ever)
    BY <1>1 DEF MergeInv, TablesSound
  <2>2. PICK then \in [Sources -> Values] :
          /\ \A s \in Sources : then[s] \in ever[s][central[r].product]
          /\ central[r].qty = SumFunctionOnSet([s \in Sources |-> Counted(then[s])], Sources)
    BY <2>1 DEF Explained
  <2>3. then \in [Sources -> UNION {ever[s][central[r].product] : s \in Sources}]
    BY <2>2
  <2>4. QED
    BY <2>2, <2>3
<1>2. MergeInv => CentralIsExplained
  BY <1>1 DEF CentralIsExplained
<1>3. QED
  BY <1>2, MergesInductive, PTL

\* No quantity is queued for the marketplaces before a connection's row has had it.
THEOREM PushesAreCommitted == MergeSpec => []PushesWereImported
<1>1. MergeInv => PushesWereImported
  BY DEF MergeInv, PushesWereImported, Known
<1>2. QED
  BY <1>1, MergesInductive, PTL

----------------------------------------------------------------------------
(* Distribution: how a total is divided. *)

\* A quotient is the most that fits.
LEMMA QuotientIs ==
  ASSUME NEW a \in Nat, NEW b \in Nat \ {0}, NEW q, q = a \div b, NEW r, r = a % b
  PROVE  q \in Nat /\ r \in Nat /\ r < b /\ a = b * q + r
<1>1. q \in Nat /\ r \in Nat /\ r < b
  OBVIOUS
<1> DEFINE m == b * q
<1>2. a - r = m
  BY Z3T(20)
<1>3. m \in Int
  BY <1>1
<1> HIDE DEF m
<1>4. a = m + r
  BY <1>1, <1>2, <1>3
<1>5. QED
  BY <1>1, <1>4 DEF m

\* Division is monotonic: a multiple of one number that is no more than a multiple of
\* another shows which of the two is the smaller.
LEMMA Cancels ==
  ASSUME NEW a \in Int, NEW b \in Int, NEW c \in Nat \ {0}, c * a <= c * b
  PROVE  a <= b
<1> SUFFICES ASSUME a >= b + 1 PROVE FALSE
  OBVIOUS
<1>1. c * a >= c * (b + 1)
  BY SMT
<1>2. c * (b + 1) = c * b + c
  BY SMT
<1>3. QED
  BY <1>1, <1>2

\* A floor is no more than the exact part.
LEMMA FloorIs ==
  ASSUME NEW total \in Nat, NEW v \in Nat, NEW sum \in Nat \ {0}, NEW q \in Floors(total, v, sum)
  PROVE  q \in Nat /\ sum * q <= total * v
<1> DEFINE a == total * v
           n == a \div sum
<1>1. a \in Nat
  BY SMT
<1>2. q = n \/ (q = n - 1 /\ n > 0)
  BY DEF Floors
<1> HIDE DEF a
<1>3. n \in Nat /\ sum * n <= a
  BY <1>1, Z3T(20)
<1> HIDE DEF n
<1>4. q \in Nat /\ q <= n
  BY <1>2, <1>3
<1>5. sum * q <= sum * n
  BY <1>3, <1>4
<1>6. QED
  BY <1>1, <1>3, <1>4, <1>5 DEF a

\* In a finite set some element comes after all others, in any order.
Orders(B, S) ==
  /\ \A p, q, r \in S : <<p, q>> \in B /\ <<q, r>> \in B => <<p, r>> \in B
  /\ \A p, q \in S : p = q \/ <<p, q>> \in B \/ <<q, p>> \in B
IsLast(p, B, S) == p \in S /\ \A q \in S \ {p} : <<q, p>> \in B
\* A finite set that is not empty has a last element.
LEMMA LastExists ==
  ASSUME NEW S, IsFiniteSet(S), S # {}, NEW B, Orders(B, S)
  PROVE  \E p : IsLast(p, B, S)
<1> DEFINE G == {s \in SUBSET S : s = {} \/ \E p \in s : \A q \in s \ {p} : <<q, p>> \in B}
<1>1. {} \in G
  OBVIOUS
<1>2. ASSUME NEW s \in SUBSET S, s # {}, \A x \in s : s \ {x} \in G PROVE s \in G
  <2>1. PICK x \in s : TRUE
    BY <1>2
  <2>2. s \ {x} = {} \/ \E p \in s \ {x} : \A q \in (s \ {x}) \ {p} : <<q, p>> \in B
    BY <1>2, <2>1
  <2>3. CASE s \ {x} = {}
    BY <2>1, <2>3
  <2>4. ASSUME NEW p \in s \ {x}, \A q \in (s \ {x}) \ {p} : <<q, p>> \in B PROVE s \in G
    <3>1. CASE <<x, p>> \in B
      BY <2>4, <3>1
    <3>2. CASE <<p, x>> \in B
      <4>1. \A q \in s \ {x} : <<q, x>> \in B
        BY <2>1, <2>4, <3>2 DEF Orders
      <4>2. QED
        BY <2>1, <4>1
    <3>3. QED
      BY <2>1, <2>4, <3>1, <3>2 DEF Orders
  <2>5. QED
    BY <2>2, <2>3, <2>4
<1> HIDE DEF G
<1>3. SUBSET S \subseteq G
  BY <1>1, <1>2, SubsetInduction
<1>4. QED
  BY <1>3 DEF G, IsLast

\* The last platform is one of them.
LEMMA LastReadIs == ASSUME NEW P \in SUBSET Nat, IsFiniteSet(P), P # {} PROVE LastRead(P) \in P
<1> DEFINE B == {x \in P \X P : x[1] < x[2]}
<1>1. \A p, q \in P : <<p, q>> \in B <=> p < q
  OBVIOUS
<1> HIDE DEF B
<1>2. /\ \A p, q, r \in P : <<p, q>> \in B /\ <<q, r>> \in B => <<p, r>> \in B
      /\ \A p, q \in P : p = q \/ <<p, q>> \in B \/ <<q, p>> \in B
  BY <1>1
<1>3. PICK p : IsLast(p, B, P)
  <2>1. Orders(B, P)
    BY <1>2 DEF Orders
  <2>2. QED
    BY <2>1, LastExists, Zenon
<1>4. p \in P /\ \A q \in P : q <= p
  <2>1. p \in P /\ \A q \in P \ {p} : q < p
    BY <1>1, <1>3 DEF IsLast
  <2>2. QED
    BY <2>1
<1>5. QED
  BY <1>4 DEF LastRead

\* The platform that sold least is one of them.
LEMMA LastBySalesIs ==
  ASSUME NEW P \in SUBSET Nat, IsFiniteSet(P), P # {}, NEW sales \in [P -> Nat]
  PROVE  LastBySales(sales) \in P
<1> DEFINE B == {x \in P \X P : sales[x[1]] > sales[x[2]] \/ (sales[x[1]] = sales[x[2]] /\ x[1] < x[2])}
<1>1. \A p, q \in P : <<p, q>> \in B <=> sales[p] > sales[q] \/ (sales[p] = sales[q] /\ p < q)
  OBVIOUS
<1> HIDE DEF B
<1>2. \A p \in P : sales[p] \in Nat /\ p \in Nat
  OBVIOUS
<1>3. \A p, q, r \in P : <<p, q>> \in B /\ <<q, r>> \in B => <<p, r>> \in B
  BY <1>1, <1>2
<1>4. ASSUME NEW p \in P, NEW q \in P PROVE p = q \/ <<p, q>> \in B \/ <<q, p>> \in B
  <2>1. sales[p] \in Nat /\ sales[q] \in Nat /\ p \in Nat /\ q \in Nat
    BY <1>2
  <2>2. \/ p = q
        \/ sales[p] > sales[q] \/ (sales[p] = sales[q] /\ p < q)
        \/ sales[q] > sales[p] \/ (sales[q] = sales[p] /\ q < p)
    BY <2>1
  <2>3. QED
    BY <1>1, <2>2
<1>5. PICK p : IsLast(p, B, P)
  <2>1. Orders(B, P)
    BY <1>3, <1>4 DEF Orders
  <2>2. QED
    BY <2>1, LastExists, Zenon
<1>6. p \in P /\ \A q \in P \ {p} : sales[q] > sales[p] \/ (sales[q] = sales[p] /\ q < p)
  BY <1>1, <1>5 DEF IsLast
<1>7. QED
  BY <1>6 DEF LastBySales

\* The weights are naturals, not all zero.
LEMMA WeightsAre ==
  ASSUME NEW P, IsFiniteSet(P), P # {}, NEW sales \in [P -> Nat]
  PROVE  Weights(sales) \in [P -> Nat] /\ SumOf(Weights(sales)) \in Nat \ {0}
<1>1. SumOf(sales) \in Nat
  BY SumNat DEF SumOf
<1>2. CASE SumOf(sales) > 0
  BY <1>1, <1>2 DEF Weights
<1>3. CASE ~(SumOf(sales) > 0)
  <2> DEFINE w == [p \in P |-> 1]
  <2>1. Weights(sales) = w /\ w \in [P -> Nat] /\ DOMAIN w = P /\ \A p \in P : w[p] = 1
    BY <1>3 DEF Weights
  <2> HIDE DEF w
  <2>2. SumFunctionOnSet(w, P) = 1 * Cardinality(P)
    BY <2>1, SumConst
  <2>3. Cardinality(P) \in Nat \ {0}
    BY FS_CardinalityType, FS_EmptySet
  <2>4. QED
    BY <2>1, <2>2, <2>3 DEF SumOf
<1>4. QED
  BY <1>2, <1>3

\* Shares by weight: nobody but one has more than its part.
ByParts(P, total, w, W, d) ==
  /\ d \in [P -> Nat] /\ SumOf(d) = total
  /\ Cardinality({p \in P : d[p] * W > total * w[p]}) <= 1

\* Whoever comes last gets what the floors of the others leave, which is not less than nothing.
LEMMA DivideIs ==
  ASSUME NEW P, IsFiniteSet(P), NEW last \in P, NEW total \in Nat, NEW w \in [P -> Nat],
         NEW W \in Nat \ {0}, W = SumFunctionOnSet(w, P),
         NEW f \in [P -> Nat], \A p \in P : f[p] \in Floors(total, w[p], W),
         NEW d, d = Divide(total, last, f)
  PROVE  ByParts(P, total, w, W, d)
<1> DEFINE Others == P \ {last}
           rest == SumFunctionOnSet(f, Others)
           left == SumFunctionOnSet(w, Others)
           g == [p \in Others |-> W * f[p]]
           h == [p \in Others |-> total * w[p]]
<1>1. \A p \in P : f[p] \in Nat /\ w[p] \in Nat /\ W * f[p] <= total * w[p]
  BY FloorIs
<1>2. IsFiniteSet(Others) /\ Others \subseteq P
  BY FS_Subset
<1>3. d = [p \in P |-> IF p = last THEN total - rest ELSE f[p]]
  BY DEF Divide
<1>4. \A p \in Others : g[p] = W * f[p] /\ h[p] = total * w[p]
  OBVIOUS
<1> HIDE DEF Others, g, h
<1>5. rest \in Nat /\ left \in Nat
  BY <1>1, <1>2, SumNat
<1>6. rest <= total
  <2>1. SumFunctionOnSet(g, Others) = W * rest
    BY <1>1, <1>2, <1>4, SumTimes
  <2>2. SumFunctionOnSet(h, Others) = total * left
    BY <1>1, <1>2, <1>4, SumTimes
  <2>3. \A p \in Others : g[p] \in Int /\ h[p] \in Int /\ g[p] <= h[p]
    BY <1>1, <1>2, <1>4
  <2>4. SumFunctionOnSet(g, Others) <= SumFunctionOnSet(h, Others)
    BY <1>2, <2>3, SumLess
  <2>5. W = w[last] + left
    BY <1>1, SumSplit DEF Others
  <2> HIDE DEF rest, left
  <2>6. left <= W
    BY <1>1, <1>5, <2>5
  <2> DEFINE a == W * rest
             b == total * left
             c == W * total
  <2>7. b <= total * W /\ total * W = c
    BY <1>5, <2>6
  <2>8. a <= b /\ a \in Int /\ b \in Int /\ c \in Int
    BY <1>5, <2>1, <2>2, <2>4
  <2>9. a <= c
    <3> HIDE DEF a, b, c
    <3>1. b <= c
      BY <2>7
    <3>2. QED
      BY <2>8, <3>1
  <2>10. QED
    BY <1>5, <2>9, Cancels
<1>7. d \in [P -> Nat] /\ d[last] = total - rest /\ \A p \in Others : d[p] = f[p]
  BY <1>2, <1>3, <1>5, <1>6 DEF Others
<1>8. SumOf(d) = total
  <2>1. DOMAIN d = P /\ \A p \in P : d[p] \in Int
    BY <1>7
  <2>2. SumFunctionOnSet(d, P) = d[last] + SumFunctionOnSet(d, Others)
    BY <2>1, SumSplit DEF Others
  <2>3. SumFunctionOnSet(d, Others) = rest
    BY <1>2, <1>7, SumSame
  <2> HIDE DEF rest
  <2>4. QED
    BY <1>5, <1>7, <2>1, <2>2, <2>3 DEF SumOf
<1>9. Cardinality({p \in P : d[p] * W > total * w[p]}) <= 1
  <2> DEFINE More == {p \in P : d[p] * W > total * w[p]}
  <2>1. More \subseteq {last}
    <3> SUFFICES ASSUME NEW p \in Others, d[p] * W > total * w[p] PROVE FALSE
      BY DEF Others
    <3>1. d[p] = f[p] /\ f[p] \in Nat /\ W * f[p] <= total * w[p]
      BY <1>1, <1>2, <1>7
    <3>2. d[p] * W = W * f[p]
      BY <3>1
    <3>3. total * w[p] \in Int /\ W * f[p] \in Int
      BY <1>1, <1>2, <3>1
    <3>4. QED
      BY <3>1, <3>2, <3>3
  <2> HIDE DEF More
  <2>2. IsFiniteSet({last}) /\ Cardinality({last}) = 1
    BY FS_Singleton
  <2>3. Cardinality(More) <= 1
    BY <2>1, <2>2, FS_Subset
  <2>4. QED
    BY <2>3 DEF More
<1>10. QED
  BY <1>7, <1>8, <1>9, Zenon DEF ByParts

\* The platforms' ranks are the numbers from 0 on.
LEMMA Ranks ==
  ASSUME NEW P \in SUBSET Nat, IsFiniteSet(P), NEW m \in Nat, m <= Cardinality(P)
  PROVE  Cardinality({p \in P : Cardinality({q \in P : q < p}) < m}) = m
<1> DEFINE rank == [p \in P |-> Cardinality({q \in P : q < p})]
           n == Cardinality(P)
<1>0. \A p \in P : p \in Nat
  OBVIOUS
<1>1. n \in Nat
  BY FS_CardinalityType
<1>2. \A p \in P : IsFiniteSet({q \in P : q < p}) /\ Cardinality({q \in P : q < p}) \in Nat
  BY FS_Subset, FS_CardinalityType
<1>3. ASSUME NEW p \in P, NEW S \in SUBSET P, p \notin S PROVE Cardinality(S) < n
  <2>1. S \subseteq P \ {p} /\ IsFiniteSet(P \ {p}) /\ Cardinality(P \ {p}) = n - 1
    BY <1>3, FS_RemoveElement
  <2>2. Cardinality(S) <= Cardinality(P \ {p}) /\ Cardinality(S) \in Nat
    BY <2>1, FS_Subset, FS_CardinalityType
  <2> HIDE DEF n
  <2>3. QED
    BY <1>1, <2>1, <2>2
<1>4. rank \in [P -> 0..(n - 1)]
  <2>1. ASSUME NEW p \in P PROVE Cardinality({q \in P : q < p}) \in 0..(n - 1)
    <3>1. p \notin {q \in P : q < p} /\ {q \in P : q < p} \in SUBSET P
      OBVIOUS
    <3>2. Cardinality({q \in P : q < p}) < n
      BY <1>3, <3>1
    <3> HIDE DEF n
    <3>3. QED
      BY <1>1, <1>2, <3>2
  <2>2. QED
    BY <2>1
<1>5. ASSUME NEW p \in P, NEW o \in P, p < o PROVE rank[p] < rank[o]
  <2> DEFINE A == {q \in P : q < p}
             B == {q \in P : q < o}
  <2> HIDE DEF rank, n
  <2>1. A \subseteq B \ {p} /\ p \in B
    <3>1. p \in Nat /\ o \in Nat /\ p < o /\ ~(p < p)
      BY <1>0, <1>5
    <3>2. \A q \in P : q < p => q < o
      BY <1>0, <3>1
    <3>3. QED
      BY <3>1, <3>2
  <2> USE DEF rank
  <2>2. IsFiniteSet(B) /\ IsFiniteSet(A) /\ rank[p] = Cardinality(A) /\ rank[o] = Cardinality(B)
    BY <1>2
  <2> HIDE DEF A, B
  <2>3. IsFiniteSet(B \ {p}) /\ Cardinality(B \ {p}) = Cardinality(B) - 1
    BY <2>1, <2>2, FS_RemoveElement
  <2>4. Cardinality(A) <= Cardinality(B \ {p}) /\ Cardinality(A) \in Nat /\ Cardinality(B) \in Nat
    BY <2>1, <2>2, <2>3, FS_Subset, FS_CardinalityType
  <2>5. QED
    BY <2>2, <2>3, <2>4
<1>6. ASSUME NEW p \in P, NEW o \in P, rank[p] = rank[o], p # o PROVE FALSE
  <2>1. rank[p] \in Nat /\ rank[o] \in Nat
    BY <1>2
  <2>2. CASE p < o
    <3>1. rank[p] < rank[o]
      BY <1>5, <2>2
    <3> HIDE DEF rank
    <3>2. QED
      BY <1>6, <2>1, <3>1
  <2>3. CASE o < p
    <3>1. rank[o] < rank[p]
      BY <1>5, <2>3
    <3> HIDE DEF rank
    <3>2. QED
      BY <1>6, <2>1, <3>1
  <2>4. p \in Nat /\ o \in Nat
    OBVIOUS
  <2>5. QED
    BY <1>6, <2>2, <2>3, <2>4
<1> HIDE DEF rank, n
<1>7. rank \in Surjection(P, 0..(n - 1))
  <2>1. rank \in Injection(P, 0..(n - 1))
    BY <1>4, <1>6 DEF Injection, IsInjective
  <2>2. IsFiniteSet(0..(n - 1)) /\ Cardinality(0..(n - 1)) = n
    BY <1>1, FS_Interval
  <2>3. QED
    BY <2>1, <2>2, FS_Injection DEF n
<1> DEFINE T == {p \in P : rank[p] < m}
<1>8. Cardinality(T) = m
  <2> DEFINE r == [p \in T |-> rank[p]]
  <2>1. m \in Nat /\ m <= n
    BY DEF n
  <2>2. r \in [T -> 0..(m - 1)]
    <3>1. \A p \in T : p \in P /\ rank[p] \in 0..(n - 1) /\ rank[p] < m
      BY <1>4
    <3>2. \A p \in T : rank[p] \in 0..(m - 1)
      BY <1>1, <2>1, <3>1
    <3> HIDE DEF T
    <3>3. QED
      BY <3>2
  <2>3. r \in Injection(T, 0..(m - 1))
    BY <1>6, <2>2 DEF Injection, IsInjective
  <2>4. r \in Surjection(T, 0..(m - 1))
    <3>1. ASSUME NEW i \in 0..(m - 1) PROVE \E p \in T : r[p] = i
      <4>1. i \in 0..(n - 1) /\ i < m
        BY <1>1, <2>1
      <4>2. PICK p \in P : rank[p] = i
        BY <1>7, <4>1 DEF Surjection
      <4>3. QED
        BY <4>1, <4>2
    <3>2. QED
      BY <2>2, <3>1 DEF Surjection
  <2>5. IsFiniteSet(0..(m - 1)) /\ Cardinality(0..(m - 1)) = m
    <3>1. 0 \in Int /\ m - 1 \in Int /\ (0 > m - 1 => m = 0) /\ (m - 1) - 0 + 1 = m
      BY <2>1
    <3>2. IsFiniteSet(0..(m - 1)) /\ Cardinality(0..(m - 1)) = IF 0 > m - 1 THEN 0 ELSE (m - 1) - 0 + 1
      BY <3>1, FS_Interval
    <3>3. QED
      BY <3>1, <3>2
  <2> HIDE DEF r, T
  <2>6. QED
    BY <2>3, <2>4, <2>5, FS_Injection
<1>9. T = {p \in P : Cardinality({q \in P : q < p}) < m}
  BY DEF rank
<1>10. QED
  BY <1>8, <1>9

\* Equal shares add up, and differ by one at most: as many platforms as the division leaves
\* items over get one more.
LEMMA EqualIs ==
  \A P, d : \A total \in Nat :
    P \subseteq Nat /\ IsFiniteSet(P) /\ P # {} /\ d = Equal(total, P) =>
      d \in [P -> Nat] /\ SumOf(d) = total /\ \A p, q \in P : d[p] - d[q] <= 1
<1>1. SUFFICES ASSUME NEW P, NEW d, NEW total \in Nat, NEW n, NEW each, NEW over,
                      P \subseteq Nat, IsFiniteSet(P), P # {}, d = Equal(total, P),
                      n = Cardinality(P), each = total \div n, over = total % n
               PROVE  d \in [P -> Nat] /\ SumOf(d) = total /\ \A p, q \in P : d[p] - d[q] <= 1
  OBVIOUS
<1>2. n \in Nat \ {0}
  BY <1>1, FS_CardinalityType, FS_EmptySet
<1>3. each \in Nat /\ over \in Nat /\ over < n /\ total = n * each + over
  <2>1. each = total \div n /\ over = total % n
    BY <1>1
  <2>2. QED
    BY <1>2, <2>1, QuotientIs
<1> DEFINE T == {p \in P : Cardinality({q \in P : q < p}) < over}
           f == [p \in P |-> each]
           g == [p \in P |-> IF p \in T THEN 1 ELSE 0]
<1>4. Cardinality(T) = over
  <2>1. over <= n
    BY <1>2, <1>3
  <2>2. QED
    BY <1>1, <1>3, <2>1, Ranks
<1>5. d = [p \in P |-> each + g[p]]
  BY <1>1 DEF Equal
<1> HIDE DEF T
<1>6. /\ \A p \in P : f[p] = each
      /\ \A p \in P : g[p] \in {0, 1} /\ (p \in T => g[p] = 1) /\ (p \notin T => g[p] = 0)
      /\ T \subseteq P
  BY DEF T
<1> HIDE DEF f, g
<1>7. d \in [P -> Nat] /\ \A p \in P : d[p] = each + g[p]
  BY <1>3, <1>5, <1>6
<1>8. SumOf(d) = total
  <2>0. IsFiniteSet(P)
    BY <1>1
  <2>1. SumFunctionOnSet(f, P) = each * n
    <3>1. each \in Int /\ \A p \in P : f[p] = each
      BY <1>3, <1>6
    <3>2. SumFunctionOnSet(f, P) = each * Cardinality(P)
      BY <2>0, <3>1, SumConst
    <3>3. QED
      BY <1>1, <3>2
  <2>2. SumFunctionOnSet(g, P) = over
    <3>1. T \in SUBSET P /\ (\A p \in T : g[p] = 1) /\ \A p \in P \ T : g[p] = 0
      BY <1>6
    <3>2. SumFunctionOnSet(g, P) = Cardinality(T)
      BY <2>0, <3>1, SumCount
    <3>3. QED
      BY <1>4, <3>2
  <2>3. \A p \in P : f[p] \in Int /\ g[p] \in Int /\ d[p] = f[p] + g[p]
    BY <1>3, <1>6, <1>7
  <2>4. SumFunctionOnSet(d, P) = SumFunctionOnSet(f, P) + SumFunctionOnSet(g, P)
    BY <2>0, <2>3, SumPlus
  <2>5. each * n = n * each
    BY <1>2, <1>3
  <2>6. QED
    BY <1>3, <1>7, <2>1, <2>2, <2>4, <2>5 DEF SumOf
<1>9. QED
  BY <1>3, <1>6, <1>7, <1>8

\* By their weights: whoever comes last.
LEMMA ByWeightIs ==
  ASSUME NEW P, IsFiniteSet(P), NEW last \in P, NEW total \in Nat, NEW sales \in [P -> Nat],
         NEW d \in ByWeight(total, last, sales)
  PROVE  ByParts(P, total, Weights(sales), SumOf(Weights(sales)), d)
<1> DEFINE w == Weights(sales)
<1>1. w \in [P -> Nat] /\ SumOf(w) \in Nat \ {0}
  BY WeightsAre
<1>2. DOMAIN sales = P /\ DOMAIN w = P
  BY <1>1
<1>3. PICK f \in [P -> 0..total] :
        d = Divide(total, last, f) /\ \A p \in P : f[p] \in Floors(total, w[p], SumOf(w))
  BY <1>2 DEF ByWeight
<1> HIDE DEF w
<1>4. SumOf(w) = SumFunctionOnSet(w, P)
  BY <1>2 DEF SumOf
<1>5. f \in [P -> Nat]
  OBVIOUS
<1>6. ByParts(P, total, w, SumOf(w), d)
  BY <1>1, <1>3, <1>4, <1>5, DivideIs
<1>7. QED
  BY <1>6 DEF w

\* What computeDistribution promises of the shares d of a total over the platforms P.
Fair(P, total, sales, strategy, d) ==
  /\ d \in [P -> Nat] /\ SumOf(d) = total
  /\ strategy = "EQUAL" => \A p, q \in P : d[p] - d[q] <= 1
  /\ strategy # "EQUAL" =>
       Cardinality({p \in P : d[p] * SumOf(Weights(sales)) > total * Weights(sales)[p]}) <= 1

\* It keeps the promise for all platforms, totals and sales there can be.
LEMMA SharesAre ==
  ASSUME NEW P, P \subseteq Nat, IsFiniteSet(P), P # {}, NEW total \in Nat, NEW sales \in [P -> Nat],
         NEW strategy \in Strategies, NEW d \in computeDistribution(total, sales, strategy)
  PROVE  Fair(P, total, sales, strategy, d)
<1>1. DOMAIN sales = P /\ P \in SUBSET Nat
  OBVIOUS
<1>2. CASE strategy = "EQUAL"
  <2>1. d = Equal(total, P)
    BY <1>1, <1>2 DEF computeDistribution
  <2>2. d \in [P -> Nat] /\ SumOf(d) = total /\ \A p, q \in P : d[p] - d[q] <= 1
    BY <2>1, EqualIs
  <2>3. QED
    BY <1>2, <2>2, Zenon DEF Fair
<1>3. CASE strategy # "EQUAL"
  <2>1. d \in ByWeight(total, LastRead(P), sales) \/ d \in ByWeight(total, LastBySales(sales), sales)
    BY <1>1, <1>3 DEF computeDistribution, Strategies
  <2>2. LastRead(P) \in P /\ LastBySales(sales) \in P
    BY <1>1, LastReadIs, LastBySalesIs
  <2>3. PICK last \in P : d \in ByWeight(total, last, sales)
    BY <2>1, <2>2, Zenon
  <2>4. ByParts(P, total, Weights(sales), SumOf(Weights(sales)), d)
    BY <2>3, ByWeightIs
  <2>5. QED
    BY <1>3, <2>4, Zenon DEF Fair, ByParts
<1>4. QED
  BY <1>2, <1>3

\* Every division is fair, with no bound on the platforms, the totals and the sales: the
\* shares add up, none is negative, and only the platform that gets the rest has more than
\* its part.
THEOREM DivisionIsFair == DividesFairly
<1>1. SUFFICES ASSUME NEW P \in (SUBSET Several) \ {{}}, NEW total \in Shown, NEW strategy \in Strategies,
                      NEW sales \in [P -> Shown], NEW d \in computeDistribution(total, sales, strategy)
               PROVE  /\ SumOf(d) = total /\ \A p \in P : d[p] >= 0
                      /\ strategy = "EQUAL" => \A p, q \in P : d[p] - d[q] <= 1
                      /\ strategy # "EQUAL" =>
                           Cardinality({p \in P : d[p] * SumOf(Weights(sales)) > total * Weights(sales)[p]}) <= 1
  BY DEF DividesFairly
<1>2. P \subseteq Nat /\ IsFiniteSet(P) /\ P # {} /\ total \in Nat /\ sales \in [P -> Nat]
  <2>1. Several \subseteq Nat /\ IsFiniteSet(Several) /\ Shown \subseteq Nat
    BY DistributionAssumption DEF DistributionAssumption
  <2>2. P \in SUBSET Several /\ P # {}
    OBVIOUS
  <2>3. IsFiniteSet(P)
    BY <2>1, <2>2, FS_Subset
  <2>4. P \subseteq Nat /\ total \in Nat /\ sales \in [P -> Nat]
    BY <1>1, <2>1, <2>2
  <2>5. QED
    BY <2>2, <2>3, <2>4
<1>3. Fair(P, total, sales, strategy, d)
  BY <1>1, <1>2, SharesAre, Zenon
<1>4. \A p \in P : d[p] >= 0
  BY <1>3 DEF Fair
<1>5. QED
  BY <1>3, <1>4, Zenon DEF Fair

\* SharesAreFair is an invariant: it holds of the division in every state.
THEOREM FairShares == DistributionSpec => []SharesAreFair
<1>1. SharesAreFair
  BY DivisionIsFair DEF SharesAreFair
<1>2. QED
  BY <1>1, PTL

(* Distribution: what the marketplaces show. *)

\* Requests under way are of the right shape.
CallRecord == [at : {"idle", "store", "queue", "done"},
               shares : UNION {[P -> Nat] : P \in SUBSET Platforms}, left : SUBSET Platforms]
CallsSound ==
  /\ call \in [Callers -> CallRecord]
  /\ \A r \in Callers : call[r].left \subseteq DOMAIN call[r].shares
AmountsSound ==
  /\ connected \subseteq Platforms
  /\ row \in [Platforms -> Nat] /\ market \in [Platforms -> Nat]
  /\ latest \in Nat /\ muddled \in BOOLEAN /\ mishaps \in 0..MaxMishaps
JobsSound == job \in [Callers \X Platforms -> Job]
DistributionSound == CallsSound /\ AmountsSound /\ JobsSound

\* Nothing is under way, and the marketplaces show what was distributed.
Settled == Quiet /\ row = market /\ SumOf(market) = latest

\* Request r alone is under way, with the shares s of all platforms: of a platform whose job
\* is queued the row holds the share already, and the marketplace shows it once the job has
\* come to writing the row.
Calling(c) == c.at \in {"store", "queue"}
Placed(c, j, shown, p, share) ==
  IF Under(j) THEN p \notin c.left /\ j.qty = share /\ (j.at = "write" => shown = share)
  ELSE (c.at = "queue" /\ p \in c.left) \/ shown = share
OthersRest(r) ==
  \A q \in Callers \ {r} : ~Calling(call[q]) /\ \A p \in Platforms : ~Under(job[<<q, p>>])
NotStored(r) ==
  call[r].at = "store" => call[r].left = Platforms /\ \A p \in Platforms : ~Under(job[<<r, p>>])
RowsAreShares(r, s) ==
  call[r].at # "store" =>
    row = s /\ \A p \in Platforms : Placed(call[r], job[<<r, p>>], market[p], p, s[p])
Alone(r, s) ==
  /\ s \in [Platforms -> Nat] /\ SumOf(s) = latest
  /\ OthersRest(r) /\ (Calling(call[r]) => call[r].shares = s)
  /\ NotStored(r) /\ RowsAreShares(r, s)
Orderly == muddled \/ Settled \/ \E r \in Callers : \E s \in [Platforms -> Nat] : Alone(r, s)
DistributionInv == DistributionSound /\ Orderly

\* What is divided are naturals that add up to the total.
LEMMA DivisionsAre ==
  ASSUME NEW P, P \subseteq Platforms, P # {}, NEW total \in Totals, NEW shares \in Divisions[P][total]
  PROVE  total \in Nat /\ shares \in [P -> Nat] /\ SumOf(shares) = total
<1>1. Several \subseteq Nat /\ IsFiniteSet(Several) /\ Platforms \subseteq Several
      /\ Shown \subseteq Nat /\ Totals \subseteq Nat
  BY DistributionAssumption DEF DistributionAssumption
<1>2. P \in SUBSET Several
  BY <1>1
<1>3. P \subseteq Nat /\ IsFiniteSet(P) /\ total \in Nat
  BY <1>1, <1>2, FS_Subset
<1>4. P \in (SUBSET Platforms) \ {{}}
  OBVIOUS
<1>5. Divisions[P][total] = UNION {UNION {computeDistribution(total, sales, strategy) : strategy \in Strategies} :
                                     sales \in [P -> Shown]}
  BY <1>4, Zenon DEF Divisions
<1>6. PICK sales \in [P -> Shown], strategy \in Strategies :
        shares \in computeDistribution(total, sales, strategy)
  BY <1>5
<1>7. sales \in [P -> Nat]
  BY <1>1
<1>8. Fair(P, total, sales, strategy, shares)
  BY <1>3, <1>6, <1>7, SharesAre, Zenon
<1>9. QED
  BY <1>3, <1>8 DEF Fair

\* The functions of the initial state.
LEMMA DistributionStart == DistributionInit => DistributionInv
<1> SUFFICES ASSUME DistributionInit PROVE DistributionInv
  OBVIOUS
<1> USE DEF DistributionInit
<1>1. CallsSound
  <2>1. NoShares \in UNION {[P -> Nat] : P \in SUBSET Platforms} /\ DOMAIN NoShares = {}
    <3>1. NoShares \in [{} -> Nat] /\ {} \in SUBSET Platforms
      BY DEF NoShares
    <3>2. QED
      BY <3>1
  <2> HIDE DEF NoShares
  <2>2. QED
    BY <2>1 DEF CallsSound, CallRecord, NoCall, Dividing
<1>2. AmountsSound
  <2>1. /\ connected = Platforms /\ row = [p \in Platforms |-> 0] /\ market = [p \in Platforms |-> 0]
        /\ latest = 0 /\ muddled = FALSE /\ mishaps = 0
    BY Zenon
  <2>2. muddled \in BOOLEAN
    BY <2>1, Zenon
  <2>3. MaxMishaps \in Nat
    BY DistributionAssumption DEF DistributionAssumption
  <2> HIDE DEF DistributionInit
  <2>4. row \in [Platforms -> Nat] /\ market \in [Platforms -> Nat]
    BY <2>1
  <2>5. QED
    BY <2>1, <2>2, <2>3, <2>4 DEF AmountsSound
<1>3. JobsSound
  BY DistributionAssumption DEF JobsSound, Job, NoJob, Sending, DistributionAssumption
<1>4. Settled
  <2>1. Quiet
    BY DEF Quiet, NoCall, NoJob, Dividing, Sending, Under
  <2>2. IsFiniteSet(Platforms)
    BY DistributionAssumption, FS_Subset DEF DistributionAssumption
  <2>3. DOMAIN market = Platforms /\ \A p \in Platforms : market[p] = 0
    OBVIOUS
  <2>4. SumFunctionOnSet(market, Platforms) = 0
    BY <2>2, <2>3, SumZero
  <2>5. QED
    BY <2>1, <2>3, <2>4 DEF Settled, SumOf
<1>5. QED
  BY <1>1, <1>2, <1>3, <1>4 DEF DistributionInv, DistributionSound, Orderly

\* A job is replaced by another, and no other job changes.
Replaces(k, j) == j \in Job /\ job' = [job EXCEPT ![k] = j]
\* The job that is replaced is of its type, the others stay as they are.
LEMMA MovedJob ==
  ASSUME JobsSound, NEW k \in Callers \X Platforms, NEW j, Replaces(k, j)
  PROVE  JobsSound' /\ job'[k] = j /\ \A o \in Callers \X Platforms : o # k => job'[o] = job[o]
BY DEF JobsSound, Replaces

\* A job that takes its quantity further does no harm to the request that is alone: what it
\* writes to the row is there, and what it shows is the share.
LEMMA JobAdvances ==
  ASSUME DistributionSound, NEW r \in Callers, NEW s, Alone(r, s), NEW q \in Callers, NEW p \in Platforms,
         Under(job[<<q, p>>]), NEW j, Replaces(<<q, p>>, j), call' = call, latest' = latest,
         row' = row \/ row' = [row EXCEPT ![p] = job[<<q, p>>].qty],
         market' = market \/ market' = [market EXCEPT ![p] = job[<<q, p>>].qty],
         Under(j) => j.qty = job[<<q, p>>].qty /\ (j.at = "write" => market'[p] = job[<<q, p>>].qty),
         ~Under(j) => job[<<q, p>>].at = "write" /\ market' = market
  PROVE  Alone(r, s)'
<1>1. q = r /\ call[r].at # "store"
  BY DEF Alone, OthersRest, NotStored
<1>2. /\ row = s /\ s \in [Platforms -> Nat]
      /\ \A x \in Platforms : Placed(call[r], job[<<r, x>>], market[x], x, s[x])
  BY <1>1 DEF Alone, RowsAreShares
<1>3. job[<<r, p>>].qty = s[p] /\ p \notin call[r].left
      /\ (job[<<r, p>>].at = "write" => market[p] = s[p])
  BY <1>1, <1>2 DEF Placed
<1>4. row' = row
  <2>1. [row EXCEPT ![p] = job[<<q, p>>].qty] = row
    BY <1>1, <1>2, <1>3
  <2>2. QED
    BY <2>1
<1>5. job'[<<r, p>>] = j /\ \A o \in Callers \X Platforms : o # <<r, p>> => job'[o] = job[o]
  BY <1>1, MovedJob DEF DistributionSound
<1>6. \A x \in Platforms : x # p => market'[x] = market[x]
  BY DEF DistributionSound, AmountsSound
<1>7. \A x \in Platforms : Placed(call[r], job'[<<r, x>>], market'[x], x, s[x])
  <2>1. Placed(call[r], job'[<<r, p>>], market'[p], p, s[p])
    BY <1>1, <1>3, <1>5 DEF Placed
  <2>2. ASSUME NEW x \in Platforms, x # p PROVE Placed(call[r], job'[<<r, x>>], market'[x], x, s[x])
    <3>1. job'[<<r, x>>] = job[<<r, x>>] /\ market'[x] = market[x]
      BY <1>5, <1>6, <2>2
    <3>2. QED
      BY <1>2, <3>1, Zenon
  <2>3. QED
    BY <2>1, <2>2
<1>8. OthersRest(r)'
  <2>1. ASSUME NEW o \in Callers \ {r} PROVE ~Calling(call'[o]) /\ \A x \in Platforms : ~Under(job'[<<o, x>>])
    <3>1. ~Calling(call[o]) /\ \A x \in Platforms : ~Under(job[<<o, x>>])
      BY DEF Alone, OthersRest
    <3>2. \A x \in Platforms : job'[<<o, x>>] = job[<<o, x>>]
      BY <1>5
    <3>3. QED
      BY <3>1, <3>2
  <2>2. QED
    BY <2>1 DEF OthersRest
<1>9. RowsAreShares(r, s)'
  BY <1>2, <1>4, <1>7, Zenon DEF RowsAreShares
<1>10. NotStored(r)'
  BY <1>1 DEF NotStored
<1>11. SumOf(s) = latest' /\ (Calling(call'[r]) => call'[r].shares = s)
  BY DEF Alone
<1>12. QED
  BY <1>2, <1>8, <1>9, <1>10, <1>11, Zenon DEF Alone

\* Where nothing is under way no job can be.
LEMMA SettledRests ==
  ASSUME JobsSound, Settled, NEW k \in Callers \X Platforms
  PROVE  ~Under(job[k]) /\ \A r \in Callers : ~Calling(call[r])
BY DEF Settled, Quiet, JobsSound, Calling

\* What each step of a job does to the job, and to the row and what the marketplace shows.
Advance(k, j) ==
  /\ Under(job[k]) /\ Replaces(k, j)
  /\ UNCHANGED <<connected, call, latest, mishaps>> /\ muddled' \in {muddled, TRUE}
  /\ row' = row \/ row' = [row EXCEPT ![k[2]] = job[k].qty]
  /\ market' = market \/ market' = [market EXCEPT ![k[2]] = job[k].qty]
Orderliness(k, j) ==
  \/ muddled' = TRUE
  \/ /\ Under(j) => j.qty = job[k].qty /\ (j.at = "write" => market'[k[2]] = job[k].qty)
     /\ ~Under(j) => job[k].at = "write" /\ market' = market

\* A job that is attempted again or given up.
LEMMA JobFailed ==
  ASSUME DistributionSound, NEW k \in Callers \X Platforms, Under(job[k]), JobFails(k)
  PROVE  /\ muddled' \in {muddled, TRUE}
         /\ \E j : /\ Replaces(k, j)
                   /\ muddled' = TRUE \/ (Under(j) /\ j.qty = job[k].qty /\ j.at = "queued")
<1>1. job[k] \in Job /\ Attempts \in Nat \ {0}
  BY DistributionAssumption DEF DistributionSound, JobsSound, DistributionAssumption
<1>2. job[k].qty \in Nat /\ job[k].made \in 0..(Attempts - 1)
  BY <1>1 DEF Job
<1>3. CASE job[k].made + 1 < Attempts
  <2> DEFINE j == Sending("queued", job[k].qty, job[k].made + 1)
  <2>1. job[k].made + 1 \in 0..(Attempts - 1)
    BY <1>1, <1>2, <1>3
  <2>2. j \in Job
    BY <1>2, <2>1 DEF Job, Sending
  <2>3. job' = [job EXCEPT ![k] = j] /\ muddled' = muddled
    BY <1>3 DEF JobFails, DistributionSound, JobsSound
  <2>4. Under(j) /\ j.qty = job[k].qty /\ j.at = "queued"
    BY DEF Under, Sending
  <2>5. QED
    BY <2>2, <2>3, <2>4, Zenon DEF Replaces
<1>4. CASE ~(job[k].made + 1 < Attempts)
  <2> DEFINE j == Sending("done", 0, 0)
  <2>1. j \in Job
    BY <1>1 DEF Job, Sending
  <2>2. job' = [job EXCEPT ![k] = j] /\ muddled' = TRUE
    BY <1>4, Zenon DEF JobFails, Finish
  <2>3. QED
    BY <2>1, <2>2, Zenon DEF Replaces
<1>5. QED
  BY <1>3, <1>4

\* A job that goes on.
LEMMA JobWent ==
  ASSUME DistributionSound, NEW k \in Callers \X Platforms, NEW l \in {"credentials", "push", "write"}, JobGoes(k, l)
  PROVE  \E j : Replaces(k, j) /\ Under(j) /\ j.qty = job[k].qty /\ j.at = l
<1> DEFINE j == Sending(l, job[k].qty, job[k].made)
<1>1. job[k] \in Job
  BY DEF DistributionSound, JobsSound
<1>2. j \in Job /\ Under(j) /\ j.qty = job[k].qty /\ j.at = l
  BY <1>1 DEF Job, Sending, Under
<1>3. job' = [job EXCEPT ![k] = j]
  BY DEF JobGoes, DistributionSound, JobsSound
<1>4. QED
  BY <1>2, <1>3, Zenon DEF Replaces

\* A job that ends.
LEMMA JobEnded ==
  ASSUME NEW k \in Callers \X Platforms, Finish(k)
  PROVE  \E j : Replaces(k, j) /\ ~Under(j)
<1> DEFINE j == Sending("done", 0, 0)
<1>1. j \in Job /\ ~Under(j)
  BY DistributionAssumption DEF Job, Sending, Under, DistributionAssumption
<1>2. QED
  BY <1>1, Zenon DEF Replaces, Finish

\* Each step of a job is of this kind.
LEMMA JobStepIs ==
  ASSUME DistributionSound, NEW k \in Callers \X Platforms, JobStep(k)
  PROVE  \E j : Advance(k, j) /\ Orderliness(k, j)
<1>1. CASE TakeJob(k)
  <2>1. PICK j : Replaces(k, j) /\ Under(j) /\ j.qty = job[k].qty /\ j.at = "credentials"
    BY <1>1, JobWent DEF TakeJob
  <2>2. QED
    BY <1>1, <2>1 DEF TakeJob, Advance, Orderliness, Under
<1>2. CASE ReadCredentials(k)
  <2>1. CASE k[2] \in connected
    <3>1. PICK j : Replaces(k, j) /\ Under(j) /\ j.qty = job[k].qty /\ j.at = "push"
      BY <1>2, <2>1, JobWent DEF ReadCredentials
    <3>2. QED
      BY <1>2, <2>1, <3>1 DEF ReadCredentials, Advance, Orderliness, Under
  <2>2. CASE k[2] \notin connected
    <3>1. PICK j : Replaces(k, j)
      BY <1>2, <2>2, JobEnded DEF ReadCredentials
    <3>2. QED
      BY <1>2, <2>2, <3>1 DEF ReadCredentials, Advance, Orderliness, Under
  <2>3. QED
    BY <2>1, <2>2
<1>3. CASE UpdateMarket(k)
  <2>1. Under(job[k]) /\ UNCHANGED <<connected, call, latest, mishaps>> /\ row' = row
    BY <1>3 DEF UpdateMarket, Under
  <2>2. CASE market' = [market EXCEPT ![k[2]] = job[k].qty] /\ JobGoes(k, "write") /\ muddled' = muddled
    <3>1. PICK j : Replaces(k, j) /\ Under(j) /\ j.qty = job[k].qty /\ j.at = "write"
      BY <2>2, JobWent
    <3>2. market'[k[2]] = job[k].qty
      BY <2>2 DEF DistributionSound, AmountsSound
    <3>3. QED
      BY <2>1, <2>2, <3>1, <3>2, Zenon DEF Advance, Orderliness
  <2>3. CASE market' \in {market, [market EXCEPT ![k[2]] = job[k].qty]} /\ JobFails(k)
    <3>1. PICK j : /\ Replaces(k, j) /\ muddled' \in {muddled, TRUE}
                   /\ muddled' = TRUE \/ (Under(j) /\ j.qty = job[k].qty /\ j.at = "queued")
      BY <2>1, <2>3, JobFailed
    <3>2. QED
      BY <2>1, <2>3, <3>1 DEF Advance, Orderliness
  <2>4. QED
    BY <1>3, <2>2, <2>3 DEF UpdateMarket, SentToMarket
<1>4. CASE UpdateRow(k)
  <2>1. Under(job[k]) /\ job[k].at = "write" /\ UNCHANGED <<connected, call, latest, mishaps>> /\ market' = market
    BY <1>4 DEF UpdateRow, Under
  <2>2. CASE row' = [row EXCEPT ![k[2]] = job[k].qty] /\ Finish(k) /\ muddled' = muddled
    <3>1. PICK j : Replaces(k, j) /\ ~Under(j)
      BY <2>2, JobEnded
    <3>2. QED
      BY <2>1, <2>2, <3>1, Zenon DEF Advance, Orderliness
  <2>3. CASE row' \in {row, [row EXCEPT ![k[2]] = job[k].qty]} /\ JobFails(k)
    <3>1. PICK j : /\ Replaces(k, j) /\ muddled' \in {muddled, TRUE}
                   /\ muddled' = TRUE \/ (Under(j) /\ j.qty = job[k].qty /\ j.at = "queued")
      BY <2>1, <2>3, JobFailed
    <3>2. QED
      BY <2>1, <2>3, <3>1 DEF Advance, Orderliness
  <2>4. QED
    BY <1>4, <2>2, <2>3 DEF UpdateRow
<1>5. QED
  BY <1>1, <1>2, <1>3, <1>4 DEF JobStep

\* A job's step keeps the invariant.
LEMMA JobKeeps ==
  ASSUME DistributionInv, NEW k \in Callers \X Platforms, JobStep(k)
  PROVE  DistributionInv'
<1>1. PICK j : Advance(k, j) /\ Orderliness(k, j)
  BY JobStepIs DEF DistributionInv
<1>2. PICK q \in Callers, p \in Platforms : k = <<q, p>> /\ k[2] = p
  OBVIOUS
<1>3. DistributionSound /\ Orderly
  BY DEF DistributionInv
<1>4. DistributionSound'
  <2>1. CallsSound'
    BY <1>1, <1>3 DEF Advance, DistributionSound, CallsSound
  <2>2. JobsSound'
    BY <1>1, <1>3, MovedJob DEF Advance, DistributionSound
  <2>3. job[k].qty \in Nat
    BY <1>3 DEF DistributionSound, JobsSound, Job
  <2>4. row' \in [Platforms -> Nat] /\ market' \in [Platforms -> Nat]
    BY <1>1, <1>2, <1>3, <2>3 DEF Advance, DistributionSound, AmountsSound
  <2>5. muddled' \in BOOLEAN
    BY <1>1, <1>3, Zenon DEF Advance, DistributionSound, AmountsSound
  <2>6. AmountsSound'
    BY <1>1, <1>3, <2>4, <2>5, Zenon DEF Advance, DistributionSound, AmountsSound
  <2>7. QED
    BY <2>1, <2>2, <2>6 DEF DistributionSound
<1>5. Orderly'
  <2>1. CASE muddled' = TRUE
    BY <2>1, Zenon DEF Orderly
  <2>2. CASE ~(muddled' = TRUE)
    <3>1. /\ Under(job[<<q, p>>]) /\ Replaces(<<q, p>>, j) /\ call' = call /\ latest' = latest
          /\ row' = row \/ row' = [row EXCEPT ![p] = job[<<q, p>>].qty]
          /\ market' = market \/ market' = [market EXCEPT ![p] = job[<<q, p>>].qty]
          /\ Under(j) => j.qty = job[<<q, p>>].qty /\ (j.at = "write" => market'[p] = job[<<q, p>>].qty)
          /\ ~Under(j) => job[<<q, p>>].at = "write" /\ market' = market
      BY <1>1, <1>2, <2>2, Zenon DEF Advance, Orderliness
    <3>2. ~muddled
      <4>1. muddled' = muddled /\ muddled \in BOOLEAN
        BY <1>1, <1>3, <2>2, Zenon DEF Advance, DistributionSound, AmountsSound
      <4>2. QED
        BY <2>2, <4>1, Zenon
    <3>3. ~Settled
      BY <1>1, <1>3, SettledRests, Zenon DEF Advance, DistributionSound
    <3>4. PICK r \in Callers, s \in [Platforms -> Nat] : Alone(r, s)
      BY <1>3, <3>2, <3>3, Zenon DEF Orderly
    <3>5. Alone(r, s)'
      BY <1>3, <3>1, <3>4, JobAdvances
    <3>6. QED
      BY <3>5, Zenon DEF Orderly
  <2>3. QED
    BY <2>1, <2>2
<1>6. QED
  BY <1>4, <1>5 DEF DistributionInv

\* A request replaces its record by another.
CallTurns(r, c) == c \in CallRecord /\ c.left \subseteq DOMAIN c.shares /\ call' = [call EXCEPT ![r] = c]
\* The request that is replaced is of its type, the others stay as they are.
LEMMA TurnedCall ==
  ASSUME CallsSound, NEW r \in Callers, NEW c, CallTurns(r, c)
  PROVE  CallsSound' /\ call'[r] = c /\ \A q \in Callers \ {r} : call'[q] = call[q]
BY DEF CallsSound, CallTurns

\* A request with shares of some platforms, and jobs of these left, is of its type.
LEMMA RecordIs ==
  ASSUME NEW step \in {"store", "queue"}, NEW P \in SUBSET Platforms, NEW shares \in [P -> Nat], NEW left \in SUBSET P
  PROVE  /\ Dividing(step, shares, left) \in CallRecord
         /\ Dividing(step, shares, left).left \subseteq DOMAIN Dividing(step, shares, left).shares
<1>1. shares \in UNION {[Q -> Nat] : Q \in SUBSET Platforms} /\ DOMAIN shares = P
  OBVIOUS
<1>2. left \in SUBSET Platforms
  OBVIOUS
<1>3. QED
  BY <1>1, <1>2 DEF Dividing, CallRecord

\* The shares of a request are naturals for some platforms.
LEMMA SharesHaveDomain ==
  ASSUME CallsSound, NEW r \in Callers
  PROVE  \E P \in SUBSET Platforms : call[r].shares \in [P -> Nat]
<1>1. call[r] \in CallRecord
  BY DEF CallsSound
<1>2. call[r].shares \in UNION {[P -> Nat] : P \in SUBSET Platforms}
  <2> DEFINE U == UNION {[P -> Nat] : P \in SUBSET Platforms}
  <2>1. call[r] \in [at : {"idle", "store", "queue", "done"}, shares : U, left : SUBSET Platforms]
    BY <1>1, Zenon DEF CallRecord
  <2> HIDE DEF U
  <2>2. call[r].shares \in U
    BY <2>1
  <2>3. QED
    BY <2>2, Zenon DEF U
<1>3. QED
  BY <1>2

\* So are a request that is over and one that has not begun.
LEMMA OverIs == Dividing("done", NoShares, {}) \in CallRecord /\ NoCall \in CallRecord
<1>1. NoShares \in UNION {[P -> Nat] : P \in SUBSET Platforms}
  <2>1. NoShares \in [{} -> Nat] /\ {} \in SUBSET Platforms
    BY DEF NoShares
  <2>2. QED
    BY <2>1
<1>2. QED
  BY <1>1 DEF CallRecord, NoCall, Dividing

\* A request begins: it is disturbed, or nothing is under way and all platforms are connected.
LEMMA RequestBegins ==
  ASSUME DistributionInv, NEW r \in Callers, distributeStock(r)
  PROVE  DistributionInv'
<1>1. DistributionSound
  BY DEF DistributionInv
<1>2. /\ call[r].at = "idle" /\ connected # {}
      /\ UNCHANGED <<connected, row, market, job, mishaps>>
      /\ muddled' = (~Quiet \/ connected # Platforms)
  BY DEF distributeStock
<1>0. PICK total \in Totals : \E shares \in Divisions[connected][total] :
        call' = [call EXCEPT ![r] = Dividing("store", shares, connected)] /\ latest' = total
  BY DEF distributeStock
<1>3. PICK shares \in Divisions[connected][total] :
        call' = [call EXCEPT ![r] = Dividing("store", shares, connected)] /\ latest' = total
  BY <1>0
<1>4. connected \subseteq Platforms
  BY <1>1 DEF DistributionSound, AmountsSound
<1>5. total \in Nat /\ shares \in [connected -> Nat] /\ SumOf(shares) = total
  BY <1>2, <1>3, <1>4, DivisionsAre
<1> DEFINE c == Dividing("store", shares, connected)
<1>6. CallTurns(r, c)
  BY <1>3, <1>4, <1>5, RecordIs DEF CallTurns
<1>7. c.at = "store" /\ c.shares = shares /\ c.left = connected
  BY DEF Dividing
<1> HIDE DEF c
<1>8. CallsSound' /\ call'[r] = c /\ \A q \in Callers \ {r} : call'[q] = call[q]
  BY <1>1, <1>6, TurnedCall DEF DistributionSound
<1>9. DistributionSound'
  <2>1. JobsSound'
    BY <1>1, <1>2 DEF DistributionSound, JobsSound
  <2>2. muddled' \in BOOLEAN
    BY <1>2, Zenon
  <2>3. latest' \in Nat
    BY <1>3, <1>5
  <2>4. AmountsSound'
    BY <1>1, <1>2, <2>2, <2>3, Zenon DEF DistributionSound, AmountsSound
  <2>5. QED
    BY <1>8, <2>1, <2>4 DEF DistributionSound
<1>10. Orderly'
  <2>1. CASE ~Quiet \/ connected # Platforms
    <3>1. muddled'
      BY <1>2, <2>1, Zenon
    <3>2. QED
      BY <3>1, Zenon DEF Orderly
  <2>2. CASE Quiet /\ connected = Platforms
    <3>1. \A k \in Callers \X Platforms : ~Under(job'[k])
      BY <1>1, <1>2, <2>2 DEF Quiet, DistributionSound, JobsSound
    <3>2. \A q \in Callers \ {r} : ~Calling(call'[q])
      BY <1>8, <2>2 DEF Quiet, Calling
    <3>3. OthersRest(r)'
      BY <3>1, <3>2 DEF OthersRest
    <3>4. NotStored(r)' /\ RowsAreShares(r, shares)'
      BY <1>7, <1>8, <2>2, <3>1 DEF NotStored, RowsAreShares
    <3>5. shares \in [Platforms -> Nat] /\ SumOf(shares) = latest' /\ call'[r].shares = shares
      BY <1>3, <1>5, <1>7, <1>8, <2>2
    <3>6. Alone(r, shares)'
      BY <3>3, <3>4, <3>5, Zenon DEF Alone
    <3>7. QED
      BY <3>5, <3>6, Zenon DEF Orderly
  <2>3. QED
    BY <2>1, <2>2
<1>11. QED
  BY <1>9, <1>10 DEF DistributionInv

\* Whoever is busy is the one that is alone.
LEMMA BusyIsAlone ==
  ASSUME DistributionInv, ~muddled, NEW r \in Callers, Calling(call[r])
  PROVE  \E s \in [Platforms -> Nat] : Alone(r, s)
<1>1. ~Settled
  BY DEF Settled, Quiet, Calling
<1>2. PICK q \in Callers, s \in [Platforms -> Nat] : Alone(q, s)
  BY <1>1, Zenon DEF DistributionInv, Orderly
<1>3. q = r
  BY <1>2 DEF Alone, OthersRest
<1>4. QED
  BY <1>2, <1>3, Zenon

\* The rows are written.
LEMMA RowsStored ==
  ASSUME DistributionInv, NEW r \in Callers, StoreShares(r)
  PROVE  DistributionInv'
<1>1. DistributionSound
  BY DEF DistributionInv
<1>2. /\ call[r].at = "store" /\ UNCHANGED <<connected, market, job, latest, muddled, mishaps>>
      /\ row' = [p \in Platforms |-> IF p \in DOMAIN call[r].shares THEN call[r].shares[p] ELSE row[p]]
  BY DEF StoreShares
<1> DEFINE c == Dividing("queue", call[r].shares, call[r].left)
<1>3. PICK P \in SUBSET Platforms : call[r].shares \in [P -> Nat]
  BY <1>1, SharesHaveDomain DEF DistributionSound
<1>4. call[r].left \in SUBSET P
  BY <1>1, <1>3 DEF DistributionSound, CallsSound
<1>5. CallTurns(r, c)
  <2>1. call' = [call EXCEPT ![r] = c]
    BY <1>1 DEF StoreShares, DistributionSound, CallsSound
  <2>2. QED
    BY <1>3, <1>4, <2>1, RecordIs DEF CallTurns
<1>6. c.at = "queue" /\ c.shares = call[r].shares /\ c.left = call[r].left
  BY DEF Dividing
<1> HIDE DEF c
<1>7. CallsSound' /\ call'[r] = c /\ \A q \in Callers \ {r} : call'[q] = call[q]
  BY <1>1, <1>5, TurnedCall DEF DistributionSound
<1>8. DistributionSound'
  <2>1. row' \in [Platforms -> Nat]
    BY <1>1, <1>2, <1>3 DEF DistributionSound, AmountsSound
  <2>2. AmountsSound' /\ JobsSound'
    BY <1>1, <1>2, <2>1, Zenon DEF DistributionSound, AmountsSound, JobsSound
  <2>3. QED
    BY <1>7, <2>2 DEF DistributionSound
<1>9. Orderly'
  <2>1. CASE muddled
    BY <1>2, <2>1, Zenon DEF Orderly
  <2>2. CASE ~muddled
    <3>1. PICK s \in [Platforms -> Nat] : Alone(r, s)
      BY <1>2, <2>2, BusyIsAlone DEF Calling
    <3>2. call[r].shares = s /\ call[r].left = Platforms /\ \A p \in Platforms : ~Under(job[<<r, p>>])
      BY <1>2, <3>1 DEF Alone, NotStored, Calling
    <3>3. row' = s
      BY <1>2, <3>2
    <3>4. \A p \in Platforms : Placed(call'[r], job'[<<r, p>>], market'[p], p, s[p])
      BY <1>2, <1>6, <1>7, <3>2 DEF Placed
    <3>5. OthersRest(r)'
      BY <1>2, <1>7, <3>1 DEF Alone, OthersRest
    <3>6. NotStored(r)' /\ RowsAreShares(r, s)'
      BY <1>6, <1>7, <3>3, <3>4 DEF NotStored, RowsAreShares
    <3>7. SumOf(s) = latest' /\ call'[r].shares = s
      BY <1>2, <1>6, <1>7, <3>1, <3>2 DEF Alone
    <3>8. Alone(r, s)'
      BY <3>5, <3>6, <3>7, Zenon DEF Alone
    <3>9. QED
      BY <3>8, Zenon DEF Orderly
  <2>3. QED
    BY <2>1, <2>2
<1>10. QED
  BY <1>8, <1>9 DEF DistributionInv

\* A job is queued.
LEMMA JobQueued ==
  ASSUME DistributionInv, NEW r \in Callers, NEW p \in Platforms, QueueJob(r, p)
  PROVE  DistributionInv'
<1>1. DistributionSound
  BY DEF DistributionInv
<1>2. /\ call[r].at = "queue" /\ p \in call[r].left
      /\ UNCHANGED <<connected, row, market, latest, muddled, mishaps>>
  BY DEF QueueJob
<1>3. PICK P \in SUBSET Platforms : call[r].shares \in [P -> Nat]
  BY <1>1, SharesHaveDomain DEF DistributionSound
<1>4. call[r].left \in SUBSET P /\ call[r].shares[p] \in Nat
  BY <1>1, <1>2, <1>3 DEF DistributionSound, CallsSound
<1> DEFINE c == IF call[r].left = {p} THEN Dividing("done", NoShares, {})
                ELSE Dividing("queue", call[r].shares, call[r].left \ {p})
           j == Sending("queued", call[r].shares[p], 0)
<1>5. CallTurns(r, c)
  <2>1. call' = [call EXCEPT ![r] = c]
    BY <1>1 DEF QueueJob, DistributionSound, CallsSound
  <2>2. c \in CallRecord /\ c.left \subseteq DOMAIN c.shares
    <3>1. CASE call[r].left = {p}
      BY <3>1, OverIs DEF Dividing
    <3>2. CASE call[r].left # {p}
      <4>1. call[r].left \ {p} \in SUBSET P
        BY <1>4
      <4>2. /\ Dividing("queue", call[r].shares, call[r].left \ {p}) \in CallRecord
            /\ Dividing("queue", call[r].shares, call[r].left \ {p}).left
                 \subseteq DOMAIN Dividing("queue", call[r].shares, call[r].left \ {p}).shares
        BY <1>3, <4>1, RecordIs
      <4>3. QED
        BY <3>2, <4>2, Zenon
    <3>3. QED
      BY <3>1, <3>2
  <2>3. QED
    BY <2>1, <2>2 DEF CallTurns
<1>6. /\ c.left = call[r].left \ {p}
      /\ c.at # "store" /\ (c.at = "queue" => c.shares = call[r].shares)
      /\ \A q \in Platforms : (call[r].at = "queue" /\ q \in call[r].left) /\ q # p
                                => c.at = "queue" /\ q \in c.left
  <2>1. CASE call[r].left = {p}
    BY <2>1 DEF Dividing
  <2>2. CASE call[r].left # {p}
    BY <2>2 DEF Dividing
  <2>3. QED
    BY <2>1, <2>2
<1> HIDE DEF c
<1>7. CallsSound' /\ call'[r] = c /\ \A q \in Callers \ {r} : call'[q] = call[q]
  BY <1>1, <1>5, TurnedCall DEF DistributionSound
<1>8. Replaces(<<r, p>>, j) /\ Under(j) /\ j.at = "queued" /\ j.qty = call[r].shares[p]
  <2>1. j \in Job
    BY <1>4, DistributionAssumption DEF Job, Sending, DistributionAssumption
  <2>2. job' = [job EXCEPT ![<<r, p>>] = j]
    BY Zenon DEF QueueJob
  <2>3. QED
    BY <2>1, <2>2 DEF Replaces, Under, Sending
<1> HIDE DEF j
<1>9. JobsSound' /\ job'[<<r, p>>] = j /\ \A o \in Callers \X Platforms : o # <<r, p>> => job'[o] = job[o]
  BY <1>1, <1>8, MovedJob DEF DistributionSound
<1>10. DistributionSound'
  <2>1. AmountsSound'
    BY <1>1, <1>2, Zenon DEF DistributionSound, AmountsSound
  <2>2. QED
    BY <1>7, <1>9, <2>1 DEF DistributionSound
<1>11. Orderly'
  <2>1. CASE muddled
    BY <1>2, <2>1, Zenon DEF Orderly
  <2>2. CASE ~muddled
    <3>1. PICK s \in [Platforms -> Nat] : Alone(r, s)
      BY <1>2, <2>2, BusyIsAlone DEF Calling
    <3>2. /\ call[r].shares = s /\ row = s
          /\ \A q \in Platforms : Placed(call[r], job[<<r, q>>], market[q], q, s[q])
      BY <1>2, <3>1 DEF Alone, RowsAreShares, Calling
    <3>3. Placed(c, j, market[p], p, s[p])
      BY <1>6, <1>8, <3>2 DEF Placed
    <3>4. ASSUME NEW q \in Platforms, q # p PROVE Placed(c, job'[<<r, q>>], market[q], q, s[q])
      <4>1. job'[<<r, q>>] = job[<<r, q>>]
        BY <1>9, <3>4
      <4>2. Placed(call[r], job[<<r, q>>], market[q], q, s[q])
        BY <3>2
      <4>3. QED
        BY <1>6, <3>4, <4>1, <4>2 DEF Placed
    <3>5. OthersRest(r)'
      <4>1. ASSUME NEW o \in Callers \ {r} PROVE ~Calling(call'[o]) /\ \A x \in Platforms : ~Under(job'[<<o, x>>])
        <5>1. ~Calling(call[o]) /\ \A x \in Platforms : ~Under(job[<<o, x>>])
          BY <3>1 DEF Alone, OthersRest
        <5>2. call'[o] = call[o] /\ \A x \in Platforms : job'[<<o, x>>] = job[<<o, x>>]
          BY <1>7, <1>9
        <5>3. QED
          BY <5>1, <5>2
      <4>2. QED
        BY <4>1 DEF OthersRest
    <3>6. \A q \in Platforms : Placed(call'[r], job'[<<r, q>>], market'[q], q, s[q])
      BY <1>2, <1>7, <1>9, <3>3, <3>4
    <3>7. NotStored(r)' /\ RowsAreShares(r, s)'
      BY <1>2, <1>6, <1>7, <3>2, <3>6 DEF NotStored, RowsAreShares
    <3>8. SumOf(s) = latest' /\ (Calling(call'[r]) => call'[r].shares = s)
      BY <1>2, <1>6, <1>7, <3>1, <3>2 DEF Alone, Calling
    <3>9. Alone(r, s)'
      BY <3>5, <3>7, <3>8, Zenon DEF Alone
    <3>10. QED
      BY <3>9, Zenon DEF Orderly
  <2>3. QED
    BY <2>1, <2>2
<1>12. QED
  BY <1>10, <1>11 DEF DistributionInv

\* A connection is switched off.
LEMMA Disconnected ==
  ASSUME DistributionInv, NEW p \in Platforms, Disconnect(p)
  PROVE  DistributionInv'
<1>1. /\ connected' = connected \ {p} /\ mishaps' = mishaps + 1 /\ mishaps < MaxMishaps
      /\ UNCHANGED <<row, market, call, job, latest, muddled>>
  BY DEF Disconnect
<1>2. DistributionSound'
  <2>1. CallsSound' /\ JobsSound'
    BY <1>1 DEF DistributionInv, DistributionSound, CallsSound, JobsSound
  <2>2. connected' \subseteq Platforms /\ mishaps' \in 0..MaxMishaps
    BY <1>1, DistributionAssumption DEF DistributionInv, DistributionSound, AmountsSound, DistributionAssumption
  <2>3. AmountsSound'
    BY <1>1, <2>2, Zenon DEF DistributionInv, DistributionSound, AmountsSound
  <2>4. QED
    BY <2>1, <2>3 DEF DistributionSound
<1>3. Settled = Settled' /\ \A r, s : Alone(r, s) = Alone(r, s)'
  BY <1>1 DEF Settled, Quiet, Alone, OthersRest, NotStored, RowsAreShares
<1>4. Orderly'
  BY <1>1, <1>3, Zenon DEF DistributionInv, Orderly
<1>5. QED
  BY <1>2, <1>4 DEF DistributionInv

\* The process dies: a request that was being served is lost, and disturbed by it; a job is
\* queued again as it was.
LEMMA ProcessDies ==
  ASSUME DistributionInv, DistributionCrash
  PROVE  DistributionInv'
<1> DEFINE over == Dividing("done", NoShares, {})
           again(k) == IF Under(job[k]) THEN Sending("queued", job[k].qty, job[k].made) ELSE job[k]
<1>1. DistributionSound
  BY DEF DistributionInv
<1>2. /\ UNCHANGED <<connected, row, market, latest>> /\ mishaps' = mishaps + 1 /\ mishaps < MaxMishaps /\ ~Quiet
      /\ muddled' = (muddled \/ \E r \in Callers : call[r].at \in {"store", "queue"})
  BY DEF DistributionCrash
<1>3. call' = [r \in Callers |-> IF call[r].at = "idle" THEN NoCall ELSE over]
  BY DEF DistributionCrash
<1>4. job' = [k \in Callers \X Platforms |-> again(k)]
  BY <1>1, Zenon DEF DistributionCrash, DistributionSound, JobsSound
<1>5. ASSUME NEW k \in Callers \X Platforms
      PROVE  /\ again(k) \in Job /\ again(k).qty = job[k].qty /\ (Under(again(k)) <=> Under(job[k]))
             /\ again(k).at # "write"
  <2>1. job[k] \in Job
    BY <1>1 DEF DistributionSound, JobsSound
  <2>2. CASE Under(job[k])
    BY <2>1, <2>2 DEF Job, Sending, Under
  <2>3. CASE ~Under(job[k])
    BY <2>1, <2>3 DEF Under
  <2>4. QED
    BY <2>2, <2>3
<1> HIDE DEF again
<1>6. \A k \in Callers \X Platforms : job'[k] = again(k)
  BY <1>4
<1>7. /\ NoCall \in CallRecord /\ NoCall.at = "idle" /\ NoCall.left = {}
      /\ over \in CallRecord /\ over.at = "done" /\ over.left = {}
  BY OverIs DEF NoCall, Dividing
<1> HIDE DEF over
<1>8. ASSUME NEW r \in Callers
      PROVE  call'[r] \in CallRecord /\ call'[r].left = {} /\ ~Calling(call'[r]) /\ call'[r].at # "store"
  BY <1>3, <1>7 DEF Calling
<1>9. DistributionSound'
  <2>1. JobsSound'
    BY <1>4, <1>5 DEF JobsSound
  <2>2. CallsSound'
    <3>1. call' \in [Callers -> CallRecord]
      BY <1>3, <1>7
    <3>2. QED
      BY <1>8, <3>1 DEF CallsSound
  <2>3. mishaps' \in 0..MaxMishaps
    BY <1>1, <1>2, DistributionAssumption DEF DistributionSound, AmountsSound, DistributionAssumption
  <2>4. muddled' \in BOOLEAN
    BY <1>2, Zenon
  <2>5. AmountsSound'
    BY <1>1, <1>2, <2>3, <2>4, Zenon DEF DistributionSound, AmountsSound
  <2>6. QED
    BY <2>1, <2>2, <2>5 DEF DistributionSound
<1>10. Orderly'
  <2>1. CASE muddled'
    BY <2>1, Zenon DEF Orderly
  <2>2. CASE ~muddled'
    <3>1. ~muddled /\ \A r \in Callers : ~Calling(call[r])
      BY <1>2, <2>2, Zenon DEF Calling
    <3>2. ~Settled
      BY <1>2 DEF Settled
    <3>3. PICK r \in Callers, s \in [Platforms -> Nat] : Alone(r, s)
      BY <3>1, <3>2, Zenon DEF DistributionInv, Orderly
    <3>4. /\ row = s /\ \A p \in Platforms : Placed(call[r], job[<<r, p>>], market[p], p, s[p])
      BY <3>1, <3>3 DEF Alone, RowsAreShares, Calling
    <3>5. ASSUME NEW p \in Platforms PROVE Placed(call'[r], job'[<<r, p>>], market'[p], p, s[p])
      <4>1. Placed(call[r], job[<<r, p>>], market[p], p, s[p]) /\ call[r].at # "queue"
        BY <3>1, <3>4 DEF Calling
      <4>2. /\ job'[<<r, p>>].qty = job[<<r, p>>].qty /\ job'[<<r, p>>].at # "write"
            /\ Under(job'[<<r, p>>]) <=> Under(job[<<r, p>>])
        BY <1>5, <1>6
      <4>3. QED
        BY <1>2, <1>8, <4>1, <4>2 DEF Placed
    <3>6. OthersRest(r)'
      <4>1. ASSUME NEW o \in Callers \ {r}, NEW x \in Platforms PROVE ~Under(job'[<<o, x>>])
        <5>1. ~Under(job[<<o, x>>])
          BY <3>3 DEF Alone, OthersRest
        <5>2. QED
          BY <1>5, <1>6, <5>1
      <4>2. QED
        BY <1>8, <4>1 DEF OthersRest
    <3>7. NotStored(r)' /\ RowsAreShares(r, s)'
      BY <1>2, <1>8, <3>4, <3>5 DEF NotStored, RowsAreShares
    <3>8. SumOf(s) = latest' /\ ~Calling(call'[r])
      BY <1>2, <1>8, <3>3 DEF Alone
    <3>9. Alone(r, s)'
      BY <3>6, <3>7, <3>8, Zenon DEF Alone
    <3>10. QED
      BY <3>9, Zenon DEF Orderly
  <2>3. QED
    BY <2>1, <2>2
<1>11. QED
  BY <1>9, <1>10 DEF DistributionInv

\* DistributionInv is inductive: the request that has begun last, unless it is disturbed, is
\* alone, its shares are in the rows, and each marketplace shows its share or has a job that
\* will send it.
THEOREM DistributionInductive == DistributionSpec => []DistributionInv
<1>1. ASSUME DistributionInv, [DistributionNext]_distributionVars PROVE DistributionInv'
  <2>1. ASSUME NEW r \in Callers, distributeStock(r) PROVE DistributionInv'
    BY <1>1, <2>1, RequestBegins
  <2>2. ASSUME NEW r \in Callers, StoreShares(r) PROVE DistributionInv'
    BY <1>1, <2>2, RowsStored
  <2>3. ASSUME NEW r \in Callers, NEW p \in Platforms, QueueJob(r, p) PROVE DistributionInv'
    BY <1>1, <2>3, JobQueued
  <2>4. ASSUME NEW k \in Callers \X Platforms, JobStep(k) PROVE DistributionInv'
    BY <1>1, <2>4, JobKeeps
  <2>5. ASSUME NEW p \in Platforms, Disconnect(p) PROVE DistributionInv'
    BY <1>1, <2>5, Disconnected
  <2>6. CASE DistributionCrash
    BY <1>1, <2>6, ProcessDies
  <2>7. CASE UNCHANGED distributionVars
    <3>1. DistributionSound'
      BY <1>1, <2>7 DEF distributionVars, DistributionInv, DistributionSound, CallsSound, AmountsSound, JobsSound
    <3>2. Settled = Settled' /\ \A r, s : Alone(r, s) = Alone(r, s)'
      BY <2>7 DEF distributionVars, Settled, Quiet, Alone, OthersRest, NotStored, RowsAreShares
    <3>3. muddled' = muddled
      BY <2>7 DEF distributionVars
    <3>4. Orderly'
      BY <1>1, <3>2, <3>3, Zenon DEF DistributionInv, Orderly
    <3>5. QED
      BY <3>1, <3>4 DEF DistributionInv
  <2>8. QED
    BY <1>1, <2>1, <2>2, <2>3, <2>4, <2>5, <2>6, <2>7 DEF DistributionNext
<1>2. QED
  BY <1>1, DistributionStart, PTL DEF DistributionSpec

\* MarketsShowTotal: once an undisturbed request is done, the marketplaces together offer what
\* it distributed, and the rows say what each of them shows.
THEOREM TotalIsShown == DistributionSpec => []MarketsShowTotal
<1>1. ASSUME DistributionInv PROVE MarketsShowTotal
  <2>1. DistributionTypeOK
    <3>1. ASSUME NEW r \in Callers
          PROVE  /\ call[r].at \in {"idle", "store", "queue", "done"}
                 /\ call[r].shares \in [DOMAIN call[r].shares -> Nat]
                 /\ call[r].left \subseteq DOMAIN call[r].shares /\ DOMAIN call[r].shares \subseteq Platforms
      <4>1. PICK P \in SUBSET Platforms : call[r].shares \in [P -> Nat]
        BY <1>1, SharesHaveDomain DEF DistributionInv, DistributionSound
      <4>2. call[r] \in CallRecord /\ call[r].left \subseteq DOMAIN call[r].shares
        BY <1>1 DEF DistributionInv, DistributionSound, CallsSound
      <4>3. call[r].at \in {"idle", "store", "queue", "done"}
        BY <4>2 DEF CallRecord
      <4>4. QED
        BY <4>1, <4>2, <4>3
    <3>2. QED
      BY <1>1, <3>1 DEF DistributionInv, DistributionSound, AmountsSound, JobsSound, DistributionTypeOK
  <2>2. ASSUME Quiet, ~muddled PROVE SumOf(market) = latest /\ row = market
    <3>1. CASE Settled
      BY <3>1 DEF Settled
    <3>2. CASE ~Settled
      <4>1. PICK r \in Callers, s \in [Platforms -> Nat] : Alone(r, s)
        BY <1>1, <2>2, <3>2, Zenon DEF DistributionInv, Orderly
      <4>2. call[r].at \notin {"store", "queue"} /\ \A p \in Platforms : ~Under(job[<<r, p>>])
        <5>1. \A k \in Callers \X Platforms : ~Under(job[k])
          BY <1>1, <2>2 DEF Quiet, DistributionInv, DistributionSound, JobsSound
        <5>2. QED
          BY <2>2, <5>1 DEF Quiet
      <4>3. row = s /\ SumOf(s) = latest /\ \A p \in Platforms : market[p] = s[p]
        BY <4>1, <4>2 DEF Alone, RowsAreShares, Placed
      <4>4. market = s
        BY <1>1, <4>3 DEF DistributionInv, DistributionSound, AmountsSound
      <4>5. QED
        BY <4>3, <4>4
    <3>3. QED
      BY <3>1, <3>2
  <2>3. QED
    BY <2>1, <2>2 DEF MarketsShowTotal
<1>2. QED
  BY <1>1, DistributionInductive, PTL
============================================================================
