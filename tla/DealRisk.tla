------------------------------ MODULE DealRisk ------------------------------
(***************************************************************************)
(* The Bitrix24 module cargoflow.core: after every update of a deal it     *)
(* computes the deal's risk and appends it to an audit table.              *)
(*                                                                         *)
(* Updates are requests of their own, so the handlers of two updates of a  *)
(* deal may run in either order, and the module may be removed meanwhile.  *)
(* Deals do not interact: this is one deal.  Money is counted in units, a  *)
(* margin in hundredths of a per cent.                                     *)
(***************************************************************************)
EXTENDS Integers, Sequences

CONSTANTS Price, Cost, Discount,  \* what the fields of the deal may hold
          Opening,                \* the deal may be any of these at first
          Million,                \* 1 000 000 roubles in units
          MaxUpdates,             \* bound on the updates
          MaxInstalls             \* bound on the (re)installations

ASSUME MoneyAssumption == Price \subseteq Int /\ Cost \subseteq Int /\ Million \in Int
ASSUME DiscountAssumption == Discount \subseteq Nat
ASSUME OpeningAssumption == Opening \subseteq [price: Price, cost: Cost, discount: Discount]
ASSUME BoundAssumption == MaxUpdates \in Nat /\ MaxInstalls \in Nat

VARIABLES
  deal,      \* the fields of the deal in the portal
  updates,   \* every update: the deal it left, the fields it carried, its handler
  audit,     \* the rows of cargoflow_integration_audit, oldest first
  table,     \* whether that table exists
  module,    \* whether the module is registered
  handler,   \* whether onAfterUpdate is registered for OnAfterCrmDealUpdate
  admin,     \* where the installer is
  installs   \* how many installations have begun

portal == <<deal, updates>>
setup == <<module, handler, admin, installs>>
vars == <<deal, updates, audit, table, module, handler, admin, installs>>

Field == {"price", "cost", "discount"}
Deal == [price: Price, cost: Cost, discount: Discount]
Risk == {"LOW", "MEDIUM", "HIGH"}
Update == [deal: Deal, carried: SUBSET Field,
           state: {"unheard", "dispatched", "audited", "failed", "unsaved", "skipped"}]
Row == [update: 1..MaxUpdates, amount: Int, cost: Int, margin: Int, discount: Int, risk: Risk]

-----------------------------------------------------------------------------
(* The calculators.                                                        *)

\* PHP's round: the nearest integer to a / b, and half away from zero (b > 0).
Rounded(a, b) == IF a >= 0 THEN (2 * a + b) \div (2 * b) ELSE -((b - 2 * a) \div (2 * b))

\* MarginCalculator, for a price above zero and a cost that is not negative.
Margin(price, cost) == Rounded((price - cost) * 10000, price)

Point(condition) == IF condition THEN 1 ELSE 0

\* Mutant: the points of the two discounts are swapped.
MutantScore(amount, margin, discount) ==
  Point(amount >= Million)
    + (IF margin < 1000 THEN 2 ELSE Point(margin <= 1500))
    + (IF discount >= 15 THEN 1 ELSE 2 * Point(discount >= 7))

\* Mutant: a margin of exactly 10 % counts as one below.
MutantScoreAtTen(amount, margin, discount) ==
  Point(amount >= Million)
    + (IF margin <= 1000 THEN 2 ELSE Point(margin <= 1500))
    + (IF discount >= 15 THEN 2 ELSE Point(discount >= 7))

Score(amount, margin, discount) ==
  Point(amount >= Million)
    + (IF margin < 1000 THEN 2 ELSE Point(margin <= 1500))
    + (IF discount >= 15 THEN 2 ELSE Point(discount >= 7))

\* Mutant: the highest class is none of the three.
MutantRiskOf(amount, margin, discount) ==
  LET score == Score(amount, margin, discount)
  IN IF score >= 4 THEN "CRITICAL" ELSE IF score >= 2 THEN "MEDIUM" ELSE "LOW"

\* DealRiskCalculator.
RiskOf(amount, margin, discount) ==
  LET score == Score(amount, margin, discount)
  IN IF score >= 4 THEN "HIGH" ELSE IF score >= 2 THEN "MEDIUM" ELSE "LOW"

-----------------------------------------------------------------------------
Init ==
  /\ deal \in Opening
  /\ updates = <<>> /\ audit = <<>>
  /\ table = FALSE /\ module = FALSE /\ handler = FALSE
  /\ admin = "idle" /\ installs = 0

\* An update of the deal; the event carries what the update set.
UpdateDeal(new, carried) ==
  /\ Len(updates) < MaxUpdates
  /\ \A field \in Field \ carried : new[field] = deal[field]
  /\ deal' = new
  /\ updates' = Append(updates,
       [deal |-> new, carried |-> carried,
        state |-> IF handler THEN "dispatched" ELSE "unheard"])
  /\ UNCHANGED <<audit, table, setup>>

\* The fields of the event: one it does not carry is read as 0.
Carried(u, field) == IF field \in updates[u].carried THEN updates[u].deal[field] ELSE 0

RowOf(u) ==
  LET price == Carried(u, "price")
      margin == IF price > 0 THEN Margin(price, Carried(u, "cost")) ELSE 0
  IN [update |-> u, amount |-> price, cost |-> Carried(u, "cost"), margin |-> margin,
      discount |-> Carried(u, "discount"),
      risk |-> RiskOf(price, margin, Carried(u, "discount"))]

\* A negative cost makes the calculator throw, unless there is no price either.
Throws(u) == Carried(u, "price") > 0 /\ Carried(u, "cost") < 0

\* IntegrationAuditRepository: inserts the row, or throws if it cannot be
\* inserted, as always without its table, and whenever the database fails.
add(u) == table /\ audit' = Append(audit, RowOf(u))

\* onAfterUpdate, in the request of the update.  What it throws, be it the
\* calculator's ("failed") or the database's ("unsaved"), is logged, the row is
\* lost and the update stands.
onAfterUpdate(u) ==
  /\ u \in DOMAIN updates /\ updates[u].state = "dispatched"
  /\ \/ /\ ~module
        /\ updates' = [updates EXCEPT ![u].state = "skipped"]
        /\ UNCHANGED audit
     \/ /\ module /\ Throws(u)
        /\ updates' = [updates EXCEPT ![u].state = "failed"]
        /\ UNCHANGED audit
     \/ /\ module /\ ~Throws(u)
        /\ updates' = [updates EXCEPT ![u].state = "unsaved"]
        /\ UNCHANGED audit
     \/ /\ module /\ ~Throws(u) /\ add(u)
        /\ updates' = [updates EXCEPT ![u].state = "audited"]
  /\ UNCHANGED <<deal, table, setup>>

-----------------------------------------------------------------------------
(* The installer, whose steps are not in a transaction.                    *)

\* DoInstall registers the module first.
DoInstall ==
  /\ admin = "idle" /\ ~module /\ installs < MaxInstalls
  /\ installs' = installs + 1
  /\ module' = TRUE /\ admin' = "installing"
  /\ UNCHANGED <<portal, audit, table, handler>>

\* The table of an earlier installation is kept as it is.
installDatabase ==
  /\ admin = "installing"
  /\ table' = TRUE /\ admin' = "created"
  /\ UNCHANGED <<portal, audit, module, handler, installs>>

registerEventHandler ==
  /\ admin = "created"
  /\ handler' = TRUE /\ admin' = "idle"
  /\ UNCHANGED <<portal, audit, table, module, installs>>

\* Mutant: the module goes, and its handler stays registered.
MutantDoUninstallKeepsHandler ==
  /\ admin = "idle" /\ module
  /\ admin' = "removing"
  /\ UNCHANGED <<portal, audit, table, module, handler, installs>>

\* DoUninstall unregisters the handler first.
DoUninstall ==
  /\ admin = "idle" /\ module
  /\ handler' = FALSE /\ admin' = "removing"
  /\ UNCHANGED <<portal, audit, table, module, installs>>

\* The administrator chooses whether to keep the data.
uninstallDatabase ==
  /\ admin = "removing"
  /\ \/ UNCHANGED <<audit, table>>
     \/ table' = FALSE /\ audit' = <<>>
  /\ admin' = "dropped"
  /\ UNCHANGED <<portal, module, handler, installs>>

unRegisterModule ==
  /\ admin = "dropped"
  /\ module' = FALSE /\ admin' = "idle"
  /\ UNCHANGED <<portal, audit, table, handler, installs>>

\* The request of the administrator ends between two steps.
Interrupted ==
  /\ admin # "idle"
  /\ admin' = "idle"
  /\ UNCHANGED <<portal, audit, table, module, handler, installs>>

Next ==
  \/ \E new \in Deal, carried \in SUBSET Field : UpdateDeal(new, carried)
  \/ \E u \in 1..MaxUpdates : onAfterUpdate(u)
  \/ DoInstall \/ installDatabase \/ registerEventHandler
  \/ DoUninstall \/ uninstallDatabase \/ unRegisterModule
  \/ Interrupted

Spec == Init /\ [][Next]_vars

-----------------------------------------------------------------------------
TypeOK ==
  /\ deal \in Deal
  /\ updates \in Seq(Update) /\ Len(updates) <= MaxUpdates
  /\ audit \in Seq(Row)
  /\ table \in BOOLEAN /\ module \in BOOLEAN /\ handler \in BOOLEAN
  /\ admin \in {"idle", "installing", "created", "removing", "dropped"}
  /\ installs \in 0..MaxInstalls

Rank(risk) == CASE risk = "LOW" -> 0 [] risk = "MEDIUM" -> 1 [] risk = "HIGH" -> 2

\* The margin of d is below, or at most, this many per cent, exactly.
Below(d, percent) == (d.price - d.cost) * 100 < percent * d.price
AtMost(d, percent) == (d.price - d.cost) * 100 <= percent * d.price

\* The risk by the thresholds of the documentation, without rounding: a large
\* amount, a margin below 10 and one of at most 15 %, a discount from 7 and one
\* from 15 % are a warning each.
ExactRisk(d) ==
  LET warnings == Point(d.price >= Million) + Point(Below(d, 10)) + Point(AtMost(d, 15))
                    + Point(d.discount >= 7) + Point(d.discount >= 15)
  IN CASE warnings >= 4 -> "HIGH" [] warnings <= 1 -> "LOW" [] OTHER -> "MEDIUM"

\* The margin of d is less than 10 %, or more than 15 %, by so little that it
\* is rounded to the threshold.
Borderline(d) ==
  LET gap(percent) == (d.price - d.cost) * 100 - percent * d.price
  IN \/ gap(10) < 0 /\ 200 * gap(10) >= -d.price
     \/ gap(15) > 0 /\ 200 * gap(15) < d.price

\* MarginCalculator rounds before DealRiskCalculator compares, and the handler
\* reads the fields an update left out as 0 (DealEventHandler.php:28-33).
\* Neither can do more than this: rounding matters only for a margin that it
\* moves onto a threshold, and for none that is exactly there; any other row of
\* an update that carried everything states the deal's risk; one of an update
\* that carried the price, but not the cost or the discount, may state too small
\* a risk and never too great a one; and one without a price, which counts as
\* no margin, never says that the risk is low.
RiskOfTheDeal ==
  \A i \in DOMAIN audit :
    LET u == updates[audit[i].update]
        stated == Rank(audit[i].risk)
    IN IF "price" \in u.carried /\ u.deal.price > 0
       THEN \/ Borderline(u.deal)
            \/ u.carried = Field /\ stated = Rank(ExactRisk(u.deal))
            \/ u.carried # Field /\ stated <= Rank(ExactRisk(u.deal))
       ELSE stated > Rank("LOW")

\* Of two rows with the same amount, the one with the greater cost and discount
\* never states the smaller risk: neither the rounding nor the two staircases of
\* thresholds has a step down.
WorseNeverSafer ==
  \A i, j \in DOMAIN audit :
    /\ audit[i].amount = audit[j].amount
    /\ audit[i].cost <= audit[j].cost
    /\ audit[i].discount <= audit[j].discount
    => Rank(audit[i].risk) <= Rank(audit[j].risk)

\* A handler that runs while it is registered finds its module and its table:
\* whatever the installer was doing when it was interrupted or begun again, it
\* leaves no handler that skips the updates it hears, or that can save nothing.
\* With the table there, an INSERT that fails for another reason still loses
\* its row.
HeardFindsItsTable ==
  [][\A u \in DOMAIN updates :
       updates[u].state = "dispatched" /\ handler =>
         /\ updates'[u].state # "skipped"
         /\ updates'[u].state = "unsaved" => table]_vars
=============================================================================
