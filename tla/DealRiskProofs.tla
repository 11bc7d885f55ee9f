--------------------------- MODULE DealRiskProofs ---------------------------
(***************************************************************************)
(* Proofs about DealRisk, for every price, cost and discount.              *)
(***************************************************************************)
EXTENDS DealRisk, TLAPS

-----------------------------------------------------------------------------
(* The rounded margin falls as the cost grows.                             *)

LEMMA DivMonotone ==
  ASSUME NEW a \in Int, NEW b \in Int, NEW p \in Nat \ {0}, a <= b
  PROVE  a \div p <= b \div p
<1> DEFINE q == a \div p
           r == b \div p
<1>1. q \in Int /\ a = p * q + (a % p) /\ a % p \in 0..(p - 1)
  BY Z3
<1>2. r \in Int /\ b = p * r + (b % p) /\ b % p \in 0..(p - 1)
  BY Z3
<1> HIDE DEF q, r
<1>3. ASSUME r + 1 <= q PROVE FALSE
  <2>1. p * (r + 1) <= p * q
    <3>1. p * (q - (r + 1)) >= 0
      <4> DEFINE d == q - (r + 1)
      <4>1. d \in Nat
        BY <1>1, <1>2, <1>3
      <4> HIDE DEF d
      <4>2. p * d >= 0
        BY <4>1
      <4> QED
        BY <4>2 DEF d
    <3>2. p * (q - (r + 1)) = p * q - p * (r + 1)
      BY <1>1, <1>2
    <3>3. p * q \in Int /\ p * (r + 1) \in Int
      BY <1>1, <1>2
    <3> QED
      BY <3>1, <3>2, <3>3
  <2>2. p * (r + 1) = p * r + p
    BY <1>1, <1>2
  <2>3. p * r \in Int /\ p * q \in Int
    BY <1>1, <1>2
  <2> QED
    BY <1>1, <1>2, <2>1, <2>2, <2>3
<1> QED
  BY <1>1, <1>2, <1>3 DEF q, r

LEMMA DivType ==
  ASSUME NEW a \in Int, NEW p \in Nat \ {0}
  PROVE  a \div p \in Int /\ (a >= 0 => a \div p >= 0)
<1>1. a \div p \in Int
  OBVIOUS
<1>2. 0 \div p = 0
  BY Z3
<1>3. a >= 0 => 0 \div p <= a \div p
  BY DivMonotone
<1> QED
  BY <1>1, <1>2, <1>3

LEMMA RoundedMonotone ==
  ASSUME NEW a \in Int, NEW b \in Int, NEW p \in Nat \ {0}, a <= b
  PROVE  Rounded(a, p) \in Int /\ Rounded(a, p) <= Rounded(b, p)
<1> DEFINE w == 2 * p
<1>1. w \in Nat \ {0}
  OBVIOUS
<1> HIDE DEF w
<1>2. /\ (2 * a + p) \div w \in Int /\ (p - 2 * a) \div w \in Int
      /\ (2 * b + p) \div w \in Int /\ (p - 2 * b) \div w \in Int
  BY <1>1, DivType
<1>3. CASE a >= 0
  BY <1>1, <1>2, <1>3, DivMonotone DEF Rounded, w
<1>4. CASE a < 0 /\ b < 0
  <2>1. (p - 2 * b) \div w <= (p - 2 * a) \div w
    BY <1>1, DivMonotone
  <2> QED
    BY <1>2, <1>4, <2>1 DEF Rounded, w
<1>5. CASE a < 0 /\ b >= 0
  <2>1. (p - 2 * a) \div w >= 0 /\ (2 * b + p) \div w >= 0
    BY <1>1, <1>5, DivType
  <2> QED
    BY <1>2, <1>5, <2>1 DEF Rounded, w
<1> QED
  BY <1>3, <1>4, <1>5

\* MarginCalculator: a greater cost never gives a greater margin.
LEMMA MarginFalls ==
  ASSUME NEW price \in Nat \ {0}, NEW c \in Int, NEW d \in Int, c <= d
  PROVE  Margin(price, d) \in Int /\ Margin(price, d) <= Margin(price, c)
<1>1. (price - d) * 10000 \in Int /\ (price - c) * 10000 \in Int
  OBVIOUS
<1>2. (price - d) * 10000 <= (price - c) * 10000
  OBVIOUS
<1> QED
  BY <1>1, <1>2, RoundedMonotone DEF Margin

\* DealRiskCalculator: a smaller margin and a greater discount never give a
\* smaller risk.
LEMMA RiskRises ==
  ASSUME NEW amount \in Int, NEW m \in Int, NEW n \in Int, NEW d \in Int, NEW e \in Int,
         n <= m, d <= e
  PROVE  Rank(RiskOf(amount, m, d)) <= Rank(RiskOf(amount, n, e))
<1> DEFINE s == Score(amount, m, d)
           t == Score(amount, n, e)
<1>1. s \in Int /\ t \in Int /\ s <= t
  BY DEF Score, Point
<1> HIDE DEF s, t
<1>2. Rank("LOW") = 0 /\ Rank("MEDIUM") = 1 /\ Rank("HIGH") = 2
  BY DEF Rank
<1>3. /\ Rank(RiskOf(amount, m, d)) = IF s >= 4 THEN 2 ELSE IF s >= 2 THEN 1 ELSE 0
      /\ Rank(RiskOf(amount, n, e)) = IF t >= 4 THEN 2 ELSE IF t >= 2 THEN 1 ELSE 0
  BY <1>2 DEF RiskOf, s, t
<1> QED
  BY <1>1, <1>3

-----------------------------------------------------------------------------
(* The inductive invariant.                                                *)

\* A row is what the calculators say of its numbers.
Computed(r) ==
  /\ r.margin = (IF r.amount > 0 THEN Margin(r.amount, r.cost) ELSE 0)
  /\ r.risk = RiskOf(r.amount, r.margin, r.discount)

\* The handler is registered last and unregistered first.
Installed ==
  /\ handler => module /\ table /\ admin = "idle"
  /\ admin = "installing" => module
  /\ admin = "created" => module /\ table

Inv == TypeOK /\ Installed /\ \A i \in DOMAIN audit : Computed(audit[i])

LEMMA MarginType ==
  ASSUME NEW price \in Int, price > 0, NEW cost \in Int
  PROVE  Margin(price, cost) \in Int
BY MarginFalls

LEMMA CarriedType ==
  ASSUME TypeOK, NEW u \in DOMAIN updates, NEW field \in Field
  PROVE  Carried(u, field) \in Int
<1> DEFINE d == updates[u].deal
<1>1. updates[u] \in Update
  BY DEF TypeOK
<1>2. d \in Deal
  BY <1>1 DEF Update
<1> HIDE DEF d
<1>3. d.price \in Int /\ d.cost \in Int /\ d.discount \in Int
  <2>1. d.price \in Price /\ d.cost \in Cost /\ d.discount \in Discount
    BY <1>2 DEF Deal
  <2>2. Discount \subseteq Int
    BY DiscountAssumption
  <2> QED
    BY <2>1, <2>2, MoneyAssumption, Zenon
<1>4. d["price"] = d.price /\ d["cost"] = d.cost /\ d["discount"] = d.discount
  OBVIOUS
<1>5. d[field] \in Int
  BY <1>3, <1>4 DEF Field
<1> QED
  BY <1>5 DEF Carried, d

\* The row of an update is a row, and is computed.
LEMMA RowType ==
  ASSUME TypeOK, NEW u \in DOMAIN updates
  PROVE  RowOf(u) \in Row /\ Computed(RowOf(u))
<1> DEFINE price == Carried(u, "price")
           cost == Carried(u, "cost")
           discount == Carried(u, "discount")
           margin == IF price > 0 THEN Margin(price, cost) ELSE 0
           risk == RiskOf(price, margin, discount)
<1>1. price \in Int /\ cost \in Int /\ discount \in Int
  BY CarriedType DEF Field
<1>2. u \in 1..MaxUpdates
  BY BoundAssumption DEF TypeOK
<1>3. margin \in Int
  BY <1>1, MarginType
<1>4. risk \in Risk
  BY DEF RiskOf, Risk
<1>5. RowOf(u) = [update |-> u, amount |-> price, cost |-> cost, margin |-> margin,
                  discount |-> discount, risk |-> risk]
  BY DEF RowOf
<1> HIDE DEF price, cost, discount, risk
<1>6. RowOf(u) \in Row
  <2> HIDE DEF margin
  <2> QED
    BY <1>1, <1>2, <1>3, <1>4, <1>5 DEF Row
<1>7. Computed(RowOf(u))
  BY <1>5 DEF Computed, risk
<1> QED
  BY <1>6, <1>7

LEMMA InitInv == Init => Inv
<1> SUFFICES ASSUME Init PROVE Inv
  OBVIOUS
<1>1. /\ <<>> \in Seq(Update) /\ <<>> \in Seq(Row) /\ Len(<<>>) = 0
      /\ \A i \in DOMAIN <<>> : FALSE
  OBVIOUS
<1>2. deal \in Deal
  BY OpeningAssumption DEF Init, Deal
<1>3. updates \in Seq(Update) /\ Len(updates) <= MaxUpdates /\ audit \in Seq(Row)
  <2>1. updates = <<>> /\ audit = <<>> /\ 0 <= MaxUpdates
    BY BoundAssumption DEF Init
  <2> QED
    BY <1>1, <2>1
<1>4. TypeOK
  <2>1. table \in BOOLEAN /\ module \in BOOLEAN /\ handler \in BOOLEAN
    BY DEF Init
  <2>2. installs \in 0..MaxInstalls
    BY BoundAssumption DEF Init
  <2> QED
    BY <1>2, <1>3, <2>1, <2>2 DEF Init, TypeOK
<1>5. Installed
  BY DEF Init, Installed
<1>6. \A i \in DOMAIN audit : Computed(audit[i])
  BY <1>1 DEF Init
<1> QED
  BY <1>4, <1>5, <1>6 DEF Inv

LEMMA UpdateDealInv ==
  ASSUME Inv, NEW new \in Deal, NEW carried \in SUBSET Field, UpdateDeal(new, carried)
  PROVE  Inv'
<1> DEFINE u == [deal |-> new, carried |-> carried,
                 state |-> IF handler THEN "dispatched" ELSE "unheard"]
<1>1. u \in Update
  BY DEF Update
<1>2. updates' = Append(updates, u)
  BY DEF UpdateDeal
<1> HIDE DEF u
<1>3. updates' \in Seq(Update) /\ Len(updates') <= MaxUpdates
  BY <1>1, <1>2, BoundAssumption DEF UpdateDeal, Inv, TypeOK
<1> QED
  BY <1>3 DEF UpdateDeal, Inv, TypeOK, Installed, setup, Computed

LEMMA onAfterUpdateInv ==
  ASSUME Inv, NEW u \in 1..MaxUpdates, onAfterUpdate(u)
  PROVE  Inv'
<1>1. u \in DOMAIN updates
  BY DEF onAfterUpdate, add
<1>2. updates' \in Seq(Update) /\ Len(updates') = Len(updates)
  <2>1. ASSUME NEW s \in {"skipped", "failed", "unsaved", "audited"},
               updates' = [updates EXCEPT ![u].state = s]
        PROVE  updates' \in Seq(Update) /\ Len(updates') = Len(updates)
    <3>0. updates[u] \in Update
      BY <1>1 DEF Inv, TypeOK
    <3>1. [updates[u] EXCEPT !.state = s] \in Update
      BY <3>0 DEF Update
    <3>2. updates' = [updates EXCEPT ![u] = [updates[u] EXCEPT !.state = s]]
      BY <2>1
    <3> QED
      BY <1>1, <3>1, <3>2 DEF Inv, TypeOK
  <2> QED
    BY <2>1 DEF onAfterUpdate, add
<1>3. audit' \in Seq(Row) /\ \A i \in DOMAIN audit' : Computed(audit'[i])
  <2>1. CASE audit' = audit
    BY <2>1 DEF Inv, TypeOK
  <2>2. CASE audit' = Append(audit, RowOf(u))
    <3>1. RowOf(u) \in Row /\ Computed(RowOf(u))
      BY <1>1, RowType DEF Inv
    <3>2. audit' \in Seq(Row) /\ Len(audit') = Len(audit) + 1
      BY <2>2, <3>1 DEF Inv, TypeOK
    <3>3. ASSUME NEW i \in DOMAIN audit' PROVE Computed(audit'[i])
      <4>1. CASE i = Len(audit) + 1
        BY <2>2, <3>1, <4>1 DEF Inv, TypeOK
      <4>2. CASE i # Len(audit) + 1
        <5>1. i \in DOMAIN audit /\ audit'[i] = audit[i]
          BY <2>2, <3>2, <4>2 DEF Inv, TypeOK
        <5> QED
          BY <5>1 DEF Inv
      <4> QED
        BY <4>1, <4>2
    <3> QED
      BY <3>2, <3>3
  <2> QED
    BY <2>1, <2>2 DEF onAfterUpdate, add
<1>4. (\A i \in DOMAIN audit : Computed(audit[i]))'
  BY <1>3 DEF Computed
<1> QED
  BY <1>2, <1>3, <1>4 DEF onAfterUpdate, add, setup, Inv, TypeOK, Installed

\* The steps of the administrator.
LEMMA SetupInv ==
  ASSUME Inv,
         DoInstall \/ installDatabase \/ registerEventHandler \/ DoUninstall
           \/ uninstallDatabase \/ unRegisterModule \/ Interrupted
  PROVE  Inv'
<1>1. deal' = deal /\ updates' = updates
  BY DEF DoInstall, installDatabase, registerEventHandler, DoUninstall, uninstallDatabase,
         unRegisterModule, Interrupted, portal
<1>2. audit' \in {audit, <<>>}
  BY DEF DoInstall, installDatabase, registerEventHandler, DoUninstall, uninstallDatabase,
         unRegisterModule, Interrupted
<1>3. audit' \in Seq(Row) /\ (\A i \in DOMAIN audit : Computed(audit[i]))'
  <2>1. CASE audit' = audit
    BY <2>1 DEF Inv, TypeOK, Computed
  <2>2. CASE audit' = <<>>
    <3>1. <<>> \in Seq(Row) /\ \A i \in DOMAIN <<>> : FALSE
      OBVIOUS
    <3> QED
      BY <2>2, <3>1
  <2> QED
    BY <1>2, <2>1, <2>2
<1>4. /\ table' \in BOOLEAN /\ module' \in BOOLEAN /\ handler' \in BOOLEAN
      /\ admin' \in {"idle", "installing", "created", "removing", "dropped"}
      /\ installs' \in 0..MaxInstalls
  <2>1. CASE DoInstall
    BY <2>1, BoundAssumption DEF DoInstall, Inv, TypeOK
  <2>2. CASE installDatabase
    BY <2>2 DEF installDatabase, Inv, TypeOK
  <2>3. CASE registerEventHandler
    BY <2>3 DEF registerEventHandler, Inv, TypeOK
  <2>4. CASE DoUninstall
    BY <2>4 DEF DoUninstall, Inv, TypeOK
  <2>5. CASE uninstallDatabase
    BY <2>5 DEF uninstallDatabase, Inv, TypeOK
  <2>6. CASE unRegisterModule
    BY <2>6 DEF unRegisterModule, Inv, TypeOK
  <2>7. CASE Interrupted
    BY <2>7 DEF Interrupted, Inv, TypeOK
  <2> QED
    BY <2>1, <2>2, <2>3, <2>4, <2>5, <2>6, <2>7
<1>5. Installed'
  BY DEF DoInstall, installDatabase, registerEventHandler, DoUninstall, uninstallDatabase,
         unRegisterModule, Interrupted, Inv, TypeOK, Installed
<1> QED
  BY <1>1, <1>3, <1>4, <1>5 DEF Inv, TypeOK

LEMMA StepInv == Inv /\ [Next]_vars => Inv'
<1> SUFFICES ASSUME Inv, [Next]_vars PROVE Inv'
  OBVIOUS
<1>1. CASE UNCHANGED vars
  BY <1>1 DEF vars, Inv, TypeOK, Installed, Computed
<1>2. CASE Next
  BY <1>2, UpdateDealInv, onAfterUpdateInv, SetupInv DEF Next
<1> QED
  BY <1>1, <1>2

LEMMA Invariant == Spec => []Inv
BY InitInv, StepInv, PTL DEF Spec

-----------------------------------------------------------------------------
\* The variables keep their types.
THEOREM TypeCorrect == Spec => []TypeOK
<1>1. Inv => TypeOK
  BY DEF Inv
<1> QED
  BY <1>1, Invariant, PTL

\* For every price and threshold-crossing cost: of two rows with the same
\* amount, the worse deal never has the smaller risk.
THEOREM NoStepDown == Spec => []WorseNeverSafer
<1>1. Inv => WorseNeverSafer
  <2> SUFFICES ASSUME Inv, NEW i \in DOMAIN audit, NEW j \in DOMAIN audit,
                      audit[i].amount = audit[j].amount,
                      audit[i].cost <= audit[j].cost,
                      audit[i].discount <= audit[j].discount
               PROVE  Rank(audit[i].risk) <= Rank(audit[j].risk)
    BY DEF WorseNeverSafer
  <2>1. audit[i] \in Row /\ audit[j] \in Row /\ Computed(audit[i]) /\ Computed(audit[j])
    BY DEF Inv, TypeOK
  <2> DEFINE amount == audit[i].amount
             m == audit[i].margin
             n == audit[j].margin
  <2>2. /\ amount \in Int /\ m \in Int /\ n \in Int
        /\ audit[i].cost \in Int /\ audit[j].cost \in Int
        /\ audit[i].discount \in Int /\ audit[j].discount \in Int
    BY <2>1 DEF Row
  <2>3. n <= m
    <3>1. CASE amount > 0
      <4>1. m = Margin(amount, audit[i].cost) /\ n = Margin(amount, audit[j].cost)
        BY <2>1, <3>1 DEF Computed
      <4>2. amount \in Nat \ {0}
        BY <2>2, <3>1
      <4> QED
        BY <2>2, <4>1, <4>2, MarginFalls
    <3>2. CASE ~(amount > 0)
      <4>1. m = 0 /\ n = 0
        BY <2>1, <3>2 DEF Computed
      <4> QED
        BY <4>1
    <3> QED
      BY <3>1, <3>2
  <2>4. /\ audit[i].risk = RiskOf(amount, m, audit[i].discount)
        /\ audit[j].risk = RiskOf(amount, n, audit[j].discount)
    BY <2>1 DEF Computed
  <2> HIDE DEF amount, m, n
  <2> QED
    BY <2>2, <2>3, <2>4, RiskRises
<1> QED
  BY <1>1, Invariant, PTL

\* Without a price the risk is never said to be low.
LEMMA NoPriceNotLow ==
  ASSUME Inv, NEW i \in DOMAIN audit, audit[i].amount <= 0
  PROVE  Rank(audit[i].risk) > Rank("LOW")
<1>1. audit[i] \in Row /\ Computed(audit[i])
  BY DEF Inv, TypeOK
<1>2. audit[i].amount \in Int /\ audit[i].discount \in Int
  BY <1>1 DEF Row
<1>3. audit[i].margin = 0
  BY <1>1, <1>2 DEF Computed
<1>4. audit[i].risk = RiskOf(audit[i].amount, 0, audit[i].discount)
  BY <1>1, <1>3 DEF Computed
<1>5. Score(audit[i].amount, 0, audit[i].discount) >= 2
  BY <1>2, MoneyAssumption DEF Score, Point
<1>6. audit[i].risk \in {"MEDIUM", "HIGH"}
  BY <1>4, <1>5 DEF RiskOf
<1> QED
  BY <1>6 DEF Rank

\* A handler that runs while it is registered finds its module and its table,
\* for any number of installations, each interrupted anywhere.
THEOREM HandlerFindsTable == Spec => HeardFindsItsTable
<1> DEFINE Step == \A u \in DOMAIN updates :
             updates[u].state = "dispatched" /\ handler =>
               /\ updates'[u].state # "skipped"
               /\ updates'[u].state = "unsaved" => table
<1>1. ASSUME Inv, [Next]_vars PROVE Step
  <2> SUFFICES ASSUME NEW u \in DOMAIN updates, updates[u].state = "dispatched", handler
               PROVE  updates'[u].state # "skipped"
    BY <1>1 DEF Inv, Installed
  <2>1. updates \in Seq(Update) /\ updates[u] \in Update /\ module
    BY <1>1 DEF Inv, TypeOK, Installed
  <2>2. CASE updates' = updates
    BY <2>2
  <2>3. ASSUME NEW new \in Deal, NEW carried \in SUBSET Field, UpdateDeal(new, carried)
        PROVE  updates'[u].state # "skipped"
    <3> DEFINE x == [deal |-> new, carried |-> carried,
                     state |-> IF handler THEN "dispatched" ELSE "unheard"]
    <3>1. x \in Update /\ updates' = Append(updates, x)
      BY <2>3 DEF Update, UpdateDeal
    <3> HIDE DEF x
    <3> QED
      BY <2>1, <3>1
  <2>4. ASSUME NEW v \in 1..MaxUpdates, onAfterUpdate(v) PROVE updates'[u].state # "skipped"
    <3>1. PICK s \in {"failed", "unsaved", "audited"} : updates' = [updates EXCEPT ![v].state = s]
      BY <2>1, <2>4 DEF onAfterUpdate
    <3> QED
      BY <2>1, <3>1 DEF Update
  <2> QED
    BY <1>1, <2>2, <2>3, <2>4
       DEF Next, vars, DoInstall, installDatabase, registerEventHandler, DoUninstall,
           uninstallDatabase, unRegisterModule, Interrupted, portal
<1> QED
  BY <1>1, Invariant, PTL DEF Spec, HeardFindsItsTable

-----------------------------------------------------------------------------
(* Rows and the updates they are of.                                       *)

\* Row r has the numbers that its update, one of the sequence us, carried.
Sent(us, u, field) == IF field \in us[u].carried THEN us[u].deal[field] ELSE 0

Fits(us, r) ==
  /\ r.update \in DOMAIN us
  /\ r.amount = Sent(us, r.update, "price")
  /\ r.cost = Sent(us, r.update, "cost")
  /\ r.discount = Sent(us, r.update, "discount")

RowsFit == \A i \in DOMAIN audit : Fits(updates, audit[i])

\* What an update set is never changed.
LEMMA UpdatesStay ==
  ASSUME Inv, [Next]_vars, NEW u \in DOMAIN updates
  PROVE  /\ u \in DOMAIN updates'
         /\ updates'[u].deal = updates[u].deal /\ updates'[u].carried = updates[u].carried
<1>1. updates \in Seq(Update) /\ updates[u] \in Update
  BY DEF Inv, TypeOK
<1>2. CASE updates' = updates
  BY <1>2
<1>3. ASSUME NEW new \in Deal, NEW carried \in SUBSET Field, UpdateDeal(new, carried)
      PROVE  u \in DOMAIN updates' /\ updates'[u] = updates[u]
  <2> DEFINE x == [deal |-> new, carried |-> carried,
                   state |-> IF handler THEN "dispatched" ELSE "unheard"]
  <2>1. x \in Update
    BY DEF Update
  <2>2. updates' = Append(updates, x)
    BY <1>3 DEF UpdateDeal
  <2> HIDE DEF x
  <2> QED
    BY <1>1, <2>1, <2>2
<1>4. ASSUME NEW v \in 1..MaxUpdates, NEW s \in {"skipped", "failed", "unsaved", "audited"},
             v \in DOMAIN updates, updates' = [updates EXCEPT ![v].state = s]
      PROVE  /\ u \in DOMAIN updates'
             /\ updates'[u].deal = updates[u].deal /\ updates'[u].carried = updates[u].carried
  BY <1>1, <1>4 DEF Update
<1>5. ASSUME NEW v \in 1..MaxUpdates, onAfterUpdate(v)
      PROVE  /\ u \in DOMAIN updates'
             /\ updates'[u].deal = updates[u].deal /\ updates'[u].carried = updates[u].carried
  BY <1>4, <1>5 DEF onAfterUpdate
<1> QED
  BY <1>2, <1>3, <1>5
     DEF Next, vars, DoInstall, installDatabase, registerEventHandler, DoUninstall,
         uninstallDatabase, unRegisterModule, Interrupted, portal

LEMMA RowsFitKept == Inv /\ RowsFit /\ [Next]_vars => RowsFit'
<1> SUFFICES ASSUME Inv, RowsFit, [Next]_vars PROVE RowsFit'
  OBVIOUS
<1>1. ASSUME NEW r, Fits(updates, r) PROVE Fits(updates', r)
  <2>1. r.update \in DOMAIN updates
    BY <1>1 DEF Fits
  <2>2. /\ r.update \in DOMAIN updates'
        /\ updates'[r.update].deal = updates[r.update].deal
        /\ updates'[r.update].carried = updates[r.update].carried
    BY <2>1, UpdatesStay
  <2> QED
    BY <1>1, <2>2 DEF Fits, Sent
<1>2. \A i \in DOMAIN audit : Fits(updates', audit[i])
  BY <1>1 DEF RowsFit
<1>3. CASE audit' = audit
  BY <1>2, <1>3 DEF RowsFit
<1>4. CASE audit' = <<>>
  <2>1. \A i \in DOMAIN <<>> : FALSE
    OBVIOUS
  <2> QED
    BY <1>4, <2>1 DEF RowsFit
<1>5. ASSUME NEW u \in 1..MaxUpdates, onAfterUpdate(u), audit' = Append(audit, RowOf(u))
      PROVE  RowsFit'
  <2>1. u \in DOMAIN updates
    BY <1>5 DEF onAfterUpdate
  <2>2. RowOf(u) \in Row /\ audit \in Seq(Row)
    BY <2>1, RowType DEF Inv, TypeOK
  <2>3. Fits(updates, RowOf(u))
    BY <2>1 DEF Fits, Sent, RowOf, Carried
  <2>4. Fits(updates', RowOf(u))
    BY <1>1, <2>3
  <2>5. ASSUME NEW i \in DOMAIN audit' PROVE Fits(updates', audit'[i])
    <3>1. CASE i = Len(audit) + 1
      <4>1. audit'[i] = RowOf(u)
        BY <1>5, <2>2, <3>1
      <4> QED
        BY <2>4, <4>1
    <3>2. CASE i # Len(audit) + 1
      <4>1. i \in DOMAIN audit /\ audit'[i] = audit[i]
        BY <1>5, <2>2, <3>2
      <4> QED
        BY <1>2, <4>1
    <3> QED
      BY <3>1, <3>2
  <2> QED
    BY <2>5 DEF RowsFit
<1> QED
  BY <1>3, <1>4, <1>5
     DEF Next, vars, UpdateDeal, onAfterUpdate, add, DoInstall, installDatabase,
         registerEventHandler, DoUninstall, uninstallDatabase, unRegisterModule, Interrupted

LEMMA RowsFitAlways == Spec => []RowsFit
<1>1. Init => RowsFit
  <2>1. \A i \in DOMAIN <<>> : FALSE
    OBVIOUS
  <2> QED
    BY <2>1 DEF Init, RowsFit
<1> QED
  BY <1>1, RowsFitKept, Invariant, PTL DEF Spec

-----------------------------------------------------------------------------
(* The rounding and the thresholds.                                        *)

\* A quotient below n, and its dividend.
LEMMA DivBelow ==
  ASSUME NEW a \in Int, NEW w \in Nat \ {0}, NEW n \in Int
  PROVE  /\ a < n * w => a \div w < n
         /\ a >= n * w => a \div w >= n
<1>1. (n * w) \div w = n
  BY Z3
<1>2. a \div w \in Int /\ n * w \in Int
  BY DivType
<1>3. a >= n * w => a \div w >= n
  BY <1>1, DivMonotone
<1>4. ASSUME a < n * w PROVE a \div w < n
  <2>1. a = w * (a \div w) + (a % w) /\ a % w \in 0..(w - 1)
    BY Z3
  <2> DEFINE q == a \div w
  <2>2. w * q <= a /\ q \in Int
    BY <1>2, <2>1
  <2> HIDE DEF q
  <2>3. ASSUME q >= n PROVE FALSE
    <3> DEFINE d == q - n
    <3>1. d \in Nat
      BY <2>2, <2>3
    <3> HIDE DEF d
    <3>2. w * d >= 0
      BY <3>1
    <3>3. w * d = w * q - n * w
      BY <2>2 DEF d
    <3> QED
      BY <1>2, <1>4, <2>2, <3>2, <3>3
  <2> QED
    BY <2>2, <2>3 DEF q
<1> QED
  BY <1>3, <1>4

\* What is rounded to less than k is less than k - 1/2, above zero.
LEMMA RoundedBelow ==
  ASSUME NEW a \in Int, NEW p \in Nat \ {0}, NEW k \in Nat \ {0}
  PROVE  Rounded(a, p) < k <=> 2 * a + p < k * (2 * p)
<1> DEFINE w == 2 * p
<1>1. w \in Nat \ {0} /\ k * w \in Int /\ 2 * a + p \in Int /\ k * w >= w
  OBVIOUS
<1>2. CASE a >= 0
  BY <1>1, <1>2, DivBelow DEF Rounded
<1>3. CASE a < 0
  <2>1. (p - 2 * a) \div w >= 0 /\ (p - 2 * a) \div w \in Int
    BY <1>1, <1>3, DivType
  <2>2. Rounded(a, p) < k
    BY <1>3, <2>1 DEF Rounded
  <2>3. 2 * a + p < k * w
    BY <1>1, <1>3
  <2> QED
    BY <2>2, <2>3
<1> QED
  BY <1>2, <1>3

\* Unless it is Borderline, the rounded margin is on the side of the exact one.
LEMMA MarginSides ==
  ASSUME NEW d, d.price \in Nat \ {0}, d.cost \in Int, ~Borderline(d)
  PROVE  /\ Margin(d.price, d.cost) < 1000 <=> Below(d, 10)
         /\ Margin(d.price, d.cost) <= 1500 <=> AtMost(d, 15)
<1> DEFINE p == d.price
           c == d.cost
           a == (p - c) * 10000
<1>1. p \in Nat \ {0} /\ c \in Int
  OBVIOUS
<1>2. /\ ~((p - c) * 100 - 10 * p < 0 /\ 200 * ((p - c) * 100 - 10 * p) >= -p)
      /\ ~((p - c) * 100 - 15 * p > 0 /\ 200 * ((p - c) * 100 - 15 * p) < p)
  BY DEF Borderline
<1>3. Below(d, 10) <=> (p - c) * 100 < 10 * p
  BY DEF Below
<1>4. AtMost(d, 15) <=> (p - c) * 100 <= 15 * p
  BY DEF AtMost
<1>5. Margin(d.price, d.cost) = Rounded(a, p)
  BY DEF Margin
<1> HIDE DEF p, c
<1>6. a \in Int
  BY <1>1
<1> HIDE DEF a
<1>7. Rounded(a, p) < 1000 <=> 2 * a + p < 1000 * (2 * p)
  BY <1>1, <1>6, RoundedBelow
<1>8. Rounded(a, p) < 1501 <=> 2 * a + p < 1501 * (2 * p)
  BY <1>1, <1>6, RoundedBelow
<1>9. Rounded(a, p) \in Int
  BY <1>1, <1>6, RoundedMonotone
<1>10. Rounded(a, p) < 1000 <=> (p - c) * 100 < 10 * p
  BY <1>1, <1>2, <1>7 DEF a
<1>11. Rounded(a, p) <= 1500 <=> (p - c) * 100 <= 15 * p
  BY <1>1, <1>2, <1>8, <1>9 DEF a
<1> QED
  BY <1>3, <1>4, <1>5, <1>10, <1>11

\* Unless the margin is Borderline, the calculators give the exact risk.
LEMMA RiskExact ==
  ASSUME NEW d \in Deal, d.price > 0, ~Borderline(d)
  PROVE  RiskOf(d.price, Margin(d.price, d.cost), d.discount) = ExactRisk(d)
<1>1. d.price \in Nat \ {0} /\ d.cost \in Int /\ d.discount \in Int
  <2>1. d.price \in Price /\ d.cost \in Cost /\ d.discount \in Discount
    BY DEF Deal
  <2>2. Discount \subseteq Int
    BY DiscountAssumption
  <2>3. d.price \in Int /\ d.cost \in Int /\ d.discount \in Int
    BY <2>1, <2>2, MoneyAssumption, Zenon
  <2> QED
    BY <2>3
<1> DEFINE m == Margin(d.price, d.cost)
           warnings == Point(d.price >= Million) + Point(Below(d, 10)) + Point(AtMost(d, 15))
                         + Point(d.discount >= 7) + Point(d.discount >= 15)
<1>2. m \in Int
  BY <1>1, MarginType
<1>3. (m < 1000 <=> Below(d, 10)) /\ (m <= 1500 <=> AtMost(d, 15))
  BY <1>1, MarginSides
<1> HIDE DEF m
<1>4. Score(d.price, m, d.discount) = warnings
  <2>1. Point(Below(d, 10)) = Point(m < 1000) /\ Point(AtMost(d, 15)) = Point(m <= 1500)
    BY <1>3 DEF Point
  <2>2. Point(m < 1000) + Point(m <= 1500) = IF m < 1000 THEN 2 ELSE Point(m <= 1500)
    BY <1>2 DEF Point
  <2>3. Point(d.discount >= 7) + Point(d.discount >= 15)
          = IF d.discount >= 15 THEN 2 ELSE Point(d.discount >= 7)
    BY <1>1 DEF Point
  <2>4. Point(d.price >= Million) \in Int /\ Point(m < 1000) \in Int /\ Point(m <= 1500) \in Int
        /\ Point(d.discount >= 7) \in Int /\ Point(d.discount >= 15) \in Int
    BY DEF Point
  <2> QED
    BY <2>1, <2>2, <2>3, <2>4 DEF Score
<1>5. warnings \in Int
  BY DEF Point
<1>6. ExactRisk(d) = CASE warnings >= 4 -> "HIGH" [] warnings <= 1 -> "LOW" [] OTHER -> "MEDIUM"
  BY DEF ExactRisk
<1> HIDE DEF warnings
<1>7. RiskOf(d.price, m, d.discount)
        = IF warnings >= 4 THEN "HIGH" ELSE IF warnings >= 2 THEN "MEDIUM" ELSE "LOW"
  BY <1>4 DEF RiskOf
<1> QED
  BY <1>5, <1>6, <1>7 DEF m

\* What an update left out is read as 0, which never makes the risk greater.
LEMMA OmissionUnderstates ==
  ASSUME NEW d \in Deal, d.price > 0, ~Borderline(d),
         NEW cost \in {d.cost, 0}, NEW discount \in {d.discount, 0}
  PROVE  Rank(RiskOf(d.price, Margin(d.price, cost), discount)) <= Rank(ExactRisk(d))
<1>1. /\ d.price \in Nat \ {0} /\ d.cost \in Int /\ d.discount \in Nat
  <2>1. d.price \in Price /\ d.cost \in Cost /\ d.discount \in Discount
    BY DEF Deal
  <2>2. d.price \in Int /\ d.cost \in Int /\ d.discount \in Nat
    BY <2>1, MoneyAssumption, DiscountAssumption, Zenon
  <2> QED
    BY <2>2
<1> DEFINE m == Margin(d.price, d.cost)
           n == Margin(d.price, cost)
<1>2. m \in Int /\ n \in Int
  BY <1>1, MarginType
<1>3. n >= m \/ (n >= 10000 /\ m >= 10000)
  <2>1. CASE cost >= d.cost /\ cost # d.cost
    <3>1. cost = 0 /\ d.cost < 0
      BY <1>1, <2>1
    <3>2. (d.price - 0) * 10000 \in Int /\ (d.price - 0) * 10000 >= 0
      BY <1>1
    <3>3. ~(Rounded((d.price - 0) * 10000, d.price) < 10000)
      BY <1>1, <3>2, RoundedBelow
    <3>4. n >= 10000
      BY <1>2, <3>1, <3>3 DEF Margin
    <3>5. n <= m
      BY <1>1, <3>1, MarginFalls
    <3> QED
      BY <1>2, <3>4, <3>5
  <2>2. CASE cost <= d.cost
    BY <1>1, <2>2, MarginFalls
  <2> QED
    BY <1>1, <2>1, <2>2
<1> HIDE DEF m, n
<1>4. Rank(RiskOf(d.price, n, discount)) <= Rank(RiskOf(d.price, m, d.discount))
  <2>1. CASE n >= m
    BY <1>1, <1>2, <2>1, RiskRises
  <2>2. CASE n >= 10000 /\ m >= 10000
    <3>1. Score(d.price, n, discount) = Score(d.price, m, discount)
      BY <1>1, <1>2, <2>2 DEF Score, Point
    <3>2. RiskOf(d.price, n, discount) = RiskOf(d.price, m, discount)
      BY <3>1 DEF RiskOf
    <3> QED
      BY <1>1, <1>2, <3>2, RiskRises
  <2> QED
    BY <1>3, <2>1, <2>2
<1> QED
  BY <1>4, RiskExact DEF m, n

\* For every deal: unless its margin is Borderline, a row of a whole update states the
\* risk of the deal, one of an update with a price never a greater one, and one
\* without a price never a low one.
THEOREM RiskStated == Spec => []RiskOfTheDeal
<1> DEFINE Priced(i) == LET u == updates[audit[i].update]
                        IN  "price" \in u.carried /\ u.deal.price > 0
<1>1. ASSUME Inv, RowsFit, NEW i \in DOMAIN audit, Priced(i),
             ~Borderline(updates[audit[i].update].deal)
      PROVE  LET u == updates[audit[i].update]
                 stated == Rank(audit[i].risk)
             IN  \/ u.carried = Field /\ stated = Rank(ExactRisk(u.deal))
                 \/ u.carried # Field /\ stated <= Rank(ExactRisk(u.deal))
  <2> DEFINE u == audit[i].update
             d == updates[u].deal
  <2>1. u \in DOMAIN updates /\ Fits(updates, audit[i]) /\ Computed(audit[i])
    BY <1>1 DEF RowsFit, Fits, Inv
  <2>2. updates[u] \in Update
    BY <1>1, <2>1 DEF Inv, TypeOK
  <2>3. d \in Deal /\ updates[u].carried \in SUBSET Field
    BY <2>2 DEF Update
  <2>4. /\ audit[i].amount = d.price
        /\ audit[i].cost = IF "cost" \in updates[u].carried THEN d.cost ELSE 0
        /\ audit[i].discount = IF "discount" \in updates[u].carried THEN d.discount ELSE 0
    BY <1>1, <2>1 DEF Fits, Sent
  <2>5. audit[i].risk = RiskOf(d.price, Margin(d.price, audit[i].cost), audit[i].discount)
    BY <1>1, <2>1, <2>4 DEF Computed
  <2>6. CASE updates[u].carried = Field
    <3>1. audit[i].cost = d.cost /\ audit[i].discount = d.discount
      BY <2>4, <2>6 DEF Field
    <3> QED
      BY <1>1, <2>3, <2>5, <2>6, <3>1, RiskExact
  <2>7. CASE updates[u].carried # Field
    <3>1. audit[i].cost \in {d.cost, 0} /\ audit[i].discount \in {d.discount, 0}
      BY <2>4
    <3> HIDE DEF d
    <3>2. Rank(audit[i].risk) <= Rank(ExactRisk(d))
      BY <1>1, <2>3, <2>5, <3>1, OmissionUnderstates DEF d
    <3> QED
      BY <2>7, <3>2 DEF d
  <2> QED
    BY <2>6, <2>7
<1>2. ASSUME Inv, RowsFit, NEW i \in DOMAIN audit, ~Priced(i)
      PROVE  Rank(audit[i].risk) > Rank("LOW")
  <2>1. /\ audit[i].update \in DOMAIN updates /\ Fits(updates, audit[i])
        /\ updates[audit[i].update] \in Update
    BY <1>2 DEF RowsFit, Fits, Inv, TypeOK
  <2>2. updates[audit[i].update].deal.price \in Int
    BY <2>1, MoneyAssumption DEF Update, Deal
  <2>3. audit[i].amount <= 0
    BY <1>2, <2>1, <2>2 DEF Fits, Sent
  <2> QED
    BY <1>2, <2>3, NoPriceNotLow
<1>3. Inv /\ RowsFit => RiskOfTheDeal
  BY <1>1, <1>2 DEF RiskOfTheDeal
<1> QED
  BY <1>3, Invariant, RowsFitAlways, PTL
=============================================================================
