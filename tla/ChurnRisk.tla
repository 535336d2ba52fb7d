------------------------------- MODULE ChurnRisk -------------------------------
(***************************************************************************)
(* The two churn scores of a customer: the copilot's                       *)
(* (services/churn_prediction.py) and that of GET /customers/{id}/churn-   *)
(* risk (services/churn_prediction_service.py), over the same rows.        *)
(*                                                                         *)
(* Both are computed at each request.  A row has an age in whole days, up  *)
(* to MaxAge, past every window; a deal that is moved here is new, or as   *)
(* old as the customer (bounds).  Scores are in hundredths.  Payments and  *)
(* feedback are not tracked: their factors are 0.  No service stores a     *)
(* prediction, so none is found.                                           *)
(***************************************************************************)
EXTENDS Integers, FiniteSets, FiniteSetsExt

CONSTANTS
    ActivityIds, DealIds, CaseIds,  \* rows to come: activities, opportunities, tickets
    ActivityTypes,
    Amounts,                        \* amounts of opportunities
    Gaps,                           \* days that pass at once
    MaxAge

ASSUME ChurnAssumption ==
    /\ IsFiniteSet(ActivityIds) /\ IsFiniteSet(DealIds) /\ IsFiniteSet(CaseIds)
    /\ Amounts \subseteq Nat
    /\ Gaps \subseteq Nat
    /\ MaxAge \in Nat /\ MaxAge > 100

VARIABLES
    logged,     \* activities of the customer
    deals,      \* its opportunities
    cases,      \* its tickets
    since       \* days since the customer was created

churnVars == <<logged, deals, cases, since>>

NoActivity == [type |-> "none", age |-> 0]
NoDeal == [won |-> FALSE, amount |-> 0, age |-> -1]

Logged(ages) == {a \in ActivityIds : logged[a] # NoActivity /\ logged[a].age \in ages}
DealsAged(ages) == {d \in DealIds : deals[d].age \in ages}
Burden == {c \in CaseIds : cases[c] = "open"}

Month == 0..30
MonthBefore == 31..60
Least2(m, n) == IF m < n THEN m ELSE n
Most2(m, n) == IF m < n THEN n ELSE m

-----------------------------------------------------------------------------
(* services/churn_prediction.py                                            *)

DaysSilent ==
    IF Logged(0..MaxAge) = {} THEN since ELSE Min({logged[a].age : a \in Logged(0..MaxAge)})

Revenue(ages) == MapThenSumSet(LAMBDA d : deals[d].amount, DealsAged(ages))

(* the weighted sum of four factors, over a common denominator, rounded    *)
ChurnScore ==
    LET recent == Cardinality(Logged(Month))
        prior == Cardinality(Logged(MonthBefore))
        earned == Revenue(Month)
        before == Revenue(MonthBefore)
        P == Most2(prior, 1)
        Q == Most2(before, 1)
        silent == Least2(DaysSilent, 90)
        (* twice P times the decrease in activity, Q times that in revenue *)
        quieter == IF prior > 0 THEN 2 * Most2(0, prior - recent) ELSE IF recent = 0 THEN 1 ELSE 0
        poorer == IF before > 0 THEN Most2(0, before - earned) ELSE 0
        support == Least2(10 * Cardinality(Burden), 100)
        whole == 180 * P * Q
        sum == 2000 * silent * 2 * P * Q
                 + 1800 * quieter * 90 * Q
                 + 2200 * poorer * 180 * P
                 + 15 * support * whole
    IN (2 * sum + whole) \div (2 * whole)

-----------------------------------------------------------------------------
(* services/churn_prediction_service.py                                    *)

LoginHealth == Least2(10 * Cardinality(Logged(Month)), 100)

PurchaseHealth ==
    LET ages == {deals[d].age : d \in {d \in DealsAged(0..MaxAge) : deals[d].won}}
    IN Most2(0, 100 - IF ages = {} THEN 90 ELSE Min(ages))

(* a mutated form of SupportHealth: tickets count in favour                *)
SupportHealthInverted == Least2(20 * Cardinality(Burden), 100)

SupportHealth == Most2(0, 100 - Least2(20 * Cardinality(Burden), 100))

EngagementHealth == Least2(20 * Cardinality({logged[a].type : a \in Logged(Month)}), 100)

Health == 25 * (LoginHealth + PurchaseHealth + SupportHealth + EngagementHealth)
Risk == 10000 - Health

(* the metrics as POST /churn-predict-batch reads them, one query each for  *)
(* all the customers: one that is in none of its groups has none of it     *)
BatchMetrics ==
    LET recent == Logged(Month)
        won == {deals[d].age : d \in {x \in DealsAged(0..MaxAge) : deals[x].won}}
    IN [logins |-> Cardinality(recent),
        types |-> Cardinality({logged[a].type : a \in recent}),
        purchase |-> IF won = {} THEN 90 ELSE Min(won),
        tickets |-> Cardinality(Burden)]

BatchRisk ==
    LET m == BatchMetrics IN
    10000 - 25 * ( Least2(10 * m.logins, 100) + Most2(0, 100 - m.purchase)
                 + Most2(0, 100 - Least2(20 * m.tickets, 100)) + Least2(20 * m.types, 100))

Tier(score) == IF score >= 7000 THEN 2 ELSE IF score >= 4000 THEN 1 ELSE 0

-----------------------------------------------------------------------------

LogActivity(a, type) ==
    /\ logged[a] = NoActivity
    /\ logged' = [logged EXCEPT ![a] = [type |-> type, age |-> 0]]
    /\ UNCHANGED <<deals, cases, since>>

RetypeActivity(a, type) ==
    /\ logged[a] # NoActivity
    /\ logged' = [logged EXCEPT ![a].type = type]
    /\ UNCHANGED <<deals, cases, since>>

DeleteActivity(a) ==
    /\ logged[a] # NoActivity
    /\ logged' = [logged EXCEPT ![a] = NoActivity]
    /\ UNCHANGED <<deals, cases, since>>

(* created, or moved here from another customer                            *)
AddDeal(d, amount, won, age) ==
    /\ deals[d] = NoDeal
    /\ deals' = [deals EXCEPT ![d] = [won |-> won, amount |-> amount, age |-> age]]
    /\ UNCHANGED <<logged, cases, since>>

UpdateDeal(d, amount, won) ==
    /\ deals[d] # NoDeal
    /\ deals' = [deals EXCEPT ![d].amount = amount, ![d].won = won]
    /\ UNCHANGED <<logged, cases, since>>

(* an update of its customer                                               *)
MoveDeal(d) ==
    /\ deals[d] # NoDeal
    /\ deals' = [deals EXCEPT ![d] = NoDeal]
    /\ UNCHANGED <<logged, cases, since>>

(* a ticket is open or pending, or neither                                 *)
ChangeCase(c, status) ==
    /\ cases' = [cases EXCEPT ![c] = status]
    /\ UNCHANGED <<logged, deals, since>>

Aged(age, gap) == Least2(age + gap, MaxAge)

DaysPass(gap) ==
    /\ logged' = [a \in ActivityIds |->
          IF logged[a] = NoActivity THEN NoActivity ELSE [logged[a] EXCEPT !.age = Aged(@, gap)]]
    /\ deals' = [d \in DealIds |->
          IF deals[d] = NoDeal THEN NoDeal ELSE [deals[d] EXCEPT !.age = Aged(@, gap)]]
    /\ since' = Aged(since, gap)
    /\ UNCHANGED cases

ChurnInit ==
    /\ logged = [a \in ActivityIds |-> NoActivity]
    /\ deals = [d \in DealIds |-> NoDeal]
    /\ cases = [c \in CaseIds |-> "none"]
    /\ since = 0

ChurnNext ==
    \/ \E a \in ActivityIds :
          \/ \E type \in ActivityTypes : LogActivity(a, type) \/ RetypeActivity(a, type)
          \/ DeleteActivity(a)
    \/ \E d \in DealIds :
          \/ \E amount \in Amounts, won \in BOOLEAN :
                UpdateDeal(d, amount, won) \/ \E age \in {0, since} : AddDeal(d, amount, won, age)
          \/ MoveDeal(d)
    \/ \E c \in CaseIds, status \in {"open", "settled"} : ChangeCase(c, status)
    \/ \E gap \in Gaps : DaysPass(gap)

ChurnSpec == ChurnInit /\ [][ChurnNext]_churnVars

-----------------------------------------------------------------------------

ChurnTypeOK ==
    /\ logged \in [ActivityIds -> {NoActivity} \cup [type : ActivityTypes, age : 0..MaxAge]]
    /\ deals \in [DealIds -> {NoDeal} \cup [won : BOOLEAN, amount : Amounts, age : 0..MaxAge]]
    /\ cases \in [CaseIds -> {"none", "open", "settled"}]
    /\ since \in 0..MaxAge
    /\ {ChurnScore, Risk} \subseteq 0..10000

(* More activities, new or won deals, fewer open tickets, and nothing else *)
(* has changed.  The deals that are won are at most 90 days old: an older  *)
(* one counts as a purchase at its creation, and for less than none.       *)
BetterBusiness ==
    /\ \A a \in ActivityIds : logged[a] = NoActivity \/ logged'[a] = logged[a]
    /\ \A d \in DealIds :
          \/ deals'[d] = deals[d]
          \/ deals[d] = NoDeal /\ deals'[d].age = 0
          \/ deals[d].age <= 90 /\ deals'[d] = [deals[d] EXCEPT !.won = TRUE]
    /\ Burden' \subseteq Burden
    /\ since' = since

(* Neither score, nor its level, goes up for better business, though each  *)
(* is put together from four factors, some of them inverted, with windows  *)
(* and defaults of their own (churn_prediction.py:163,                     *)
(* churn_prediction_service.py:127, 212); and a customer has the same risk *)
(* alone or in a batch (:328).                                             *)
BetterBusinessLessRisk ==
    [][churnVars' # churnVars /\ BetterBusiness =>
          /\ ChurnScore' <= ChurnScore /\ Tier(ChurnScore') <= Tier(ChurnScore)
          /\ Risk' <= Risk /\ Tier(Risk') <= Tier(Risk)
          /\ BatchRisk' = Risk']_churnVars
=============================================================================
