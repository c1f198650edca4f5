------------------------------- MODULE Analytics -------------------------------
(***************************************************************************)
(* The analytics engine, internals/analytics: Meta's figures of an object  *)
(* go in; a score, a health status, a fatigue level, outliers, trends and  *)
(* the progress towards a goal come out.  Money is in whole units and      *)
(* ratios are compared by cross-multiplication: where the code computes in *)
(* floating point a value may fall an ulp to the other side of a boundary. *)
(* Reasons, notes and summaries are wording and are left out.              *)
(***************************************************************************)
EXTENDS Integers, SequencesExt, Functions

\* int() of a float64 that is no number: Go leaves it to the processor.  amd64
\* gives the least integer, for which one stands that no score outweighs; arm64 0.
CONSTANT IntOfNaN

ASSUME AnalyticsAssumption ==
    IntOfNaN \in Int /\ (IntOfNaN = 0 \/ IntOfNaN < -200)

NoTarget == -1  \* a nil pointer of a goal; 0 is a target

Goals == [cpl : Nat \cup {NoTarget}, cpa : Nat \cup {NoTarget},
          roas : Nat \cup {NoTarget}, conversions : Nat \cup {NoTarget}]

NoGoal == [cpl |-> NoTarget, cpa |-> NoTarget, roas |-> NoTarget,
           conversions |-> NoTarget]

Figures == [spend : Nat, impressions : Nat, reach : Nat, clicks : Nat,
            leads : Nat, purchases : Nat, conversions : Nat, value : Nat]

NoFigures == [spend |-> 0, impressions |-> 0, reach |-> 0, clicks |-> 0,
              leads |-> 0, purchases |-> 0, conversions |-> 0, value |-> 0]

\* The types of the "actions" Meta counts.  One event may be reported under
\* several of them, and every one that says "lead" or "purchase" counts.
LeadTypes == {"lead", "onsite_conversion.lead_grouped"}
PurchaseTypes == {"purchase", "omni_purchase"}

Counts == Seq([type : STRING, value : Nat])

\* A row of Meta's insights.
InsightRows == [spend : Nat, impressions : Nat, reach : Nat, clicks : Nat,
                actions : Counts, values : Counts]

Counted(actions, types) ==
    SumFunctionOnSet([i \in DOMAIN actions |-> actions[i].value],
                     {i \in DOMAIN actions : actions[i].type \in types})

\* Purchases are the conversions when there are any, leads otherwise.
\* The ratios Meta sends along (ctr, frequency, purchase_roas) are taken to agree
\* with the figures they are ratios of: value / spend stands for the ROAS.
NormalizeInsight(row) ==
    LET leads == Counted(row.actions, LeadTypes)
        purchases == Counted(row.actions, PurchaseTypes)
    IN  [spend |-> row.spend, impressions |-> row.impressions, reach |-> row.reach,
         clicks |-> row.clicks, leads |-> leads, purchases |-> purchases,
         conversions |-> IF purchases = 0 THEN leads ELSE purchases,
         value |-> Counted(row.values, PurchaseTypes)]

\* The ratios follow from the components, also those of a total.
SumFigures(rows) ==
    [f \in DOMAIN NoFigures |-> SumFunction([i \in DOMAIN rows |-> rows[i][f]])]
-----------------------------------------------------------------------------
Clamp(x, lo, hi) == IF x < lo THEN lo ELSE IF x > hi THEN hi ELSE x

\* int() of n/d cuts off towards zero; math.Round rounds half away from it.
Trunc(n, d) == IF n >= 0 THEN n \div d ELSE -((-n) \div d)
Round(n, d) == IF n >= 0 THEN (2 * n + d) \div (2 * d) ELSE -((d - 2 * n) \div (2 * d))

\* int(clamp(n/d * k, -k, k)); dividing by a target of zero is an infinity, and no
\* number where nothing was spent either: the clamp lets that through.
Points(k, n, d) ==
    CASE d # 0 -> Clamp(Trunc(k * n, d), -k, k)
      [] d = 0 /\ n > 0 -> k
      [] d = 0 /\ n < 0 -> -k
      [] OTHER -> IntOfNaN

DefaultROAS == 2

\* Mutant: a cheaper click costs points.
CPCPointsUpsideDown(m) ==
    IF m.clicks > 0 THEN Points(10, m.spend - m.clicks, m.clicks) ELSE 0

CTRPoints(m) ==
    IF m.impressions > 0 /\ m.clicks > 0
    THEN Points(15, 100 * m.clicks - m.impressions, m.impressions) ELSE 0
CPCPoints(m) ==
    IF m.clicks > 0 THEN Points(10, m.clicks - m.spend, m.clicks) ELSE 0
CVRPoints(m) ==
    IF m.clicks > 0 /\ m.conversions > 0
    THEN Points(10, 50 * m.conversions - m.clicks, m.clicks) ELSE 0
CPLPoints(m, goal) ==
    IF goal.cpl # NoTarget /\ m.leads > 0
    THEN Points(20, goal.cpl * m.leads - m.spend, goal.cpl * m.leads) ELSE 0
ROASPoints(m, goal) ==
    LET target == IF goal.roas = NoTarget THEN DefaultROAS ELSE goal.roas IN
    IF m.spend > 0 /\ m.value > 0
    THEN Points(20, m.value - target * m.spend, target * m.spend) ELSE 0
NothingToShow(m) == IF m.spend > 0 /\ m.conversions = 0 THEN -10 ELSE 0

ScorePerformance(m, goal) ==
    Clamp(50 + CTRPoints(m) + CPCPoints(m) + CVRPoints(m) + CPLPoints(m, goal)
             + ROASPoints(m, goal) + NothingToShow(m), 0, 100)

HealthStatuses == {"PAUSED", "NOT_DELIVERING", "HEALTHY", "WATCH", "CRITICAL"}

AssessHealth(m, status, score) ==
    CASE status \in {"PAUSED", "ARCHIVED", "DELETED"} -> "PAUSED"
      [] status \notin {"PAUSED", "ARCHIVED", "DELETED"} /\ m.impressions = 0
           -> "NOT_DELIVERING"
      [] OTHER -> IF score >= 70 THEN "HEALTHY"
                  ELSE IF score >= 45 THEN "WATCH" ELSE "CRITICAL"
-----------------------------------------------------------------------------
(* Daily series: sequences of days in the order of their dates, to which   *)
(* the code sorts them first.  A day gives a natural number per series.    *)

Days == [spend : Nat, ctr : Nat, cpc : Nat, cpa : Nat, frequency : Nat]

Total(days, series) == SumFunction([i \in DOMAIN days |-> days[i][series]])

\* The relative change of the average, in tenths of a percent; 0 from nothing.
ChangePct(old, new, series) ==
    LET a == Total(old, series) * Len(new)
        b == Total(new, series) * Len(old)
    IN  IF a = 0 THEN 0 ELSE Round(1000 * (b - a), a)

FatigueLevels == {"insufficient_data", "none", "mild", "moderate", "high"}

\* The last 7 days against up to 7 before them.
AssessFatigue(days, m) ==
    LET n == Len(days)
        last == SubSeq(days, n - 6, n)
        prev == SubSeq(days, Max({1, n - 13}), n - 7)
        ctr == ChangePct(prev, last, "ctr")
        frequency == ChangePct(prev, last, "frequency")
        score == (Clamp(-ctr, 0, 600) + Clamp(frequency, 0, 400)
                    + (IF m.reach > 0 /\ 2 * m.impressions >= 7 * m.reach
                       THEN 100 ELSE 0)) \div 10
    IN  CASE n < 8 -> "insufficient_data"
          [] n >= 8 /\ score >= 60 -> "high"
          [] n >= 8 /\ score \in 35..59 -> "moderate"
          [] n >= 8 /\ score \in 15..34 -> "mild"
          [] OTHER -> "none"

AnomalyMetrics == {"spend", "ctr", "cpc", "cpa"}

\* Mutant: one standard deviation is enough.
OneSigma(days, series, i) ==
    LET seen == {j \in DOMAIN days : days[j][series] # 0}
        n == Cardinality(seen)
        sum == SumFunctionOnSet([j \in seen |-> days[j][series]], seen)
        squares == SumFunctionOnSet([j \in seen |-> days[j][series] * days[j][series]], seen)
        d == n * days[i][series] - sum
    IN  /\ i \in seen /\ n >= 5
        /\ n * squares # sum * sum
        /\ d * d >= n * squares - sum * sum

\* At least two standard deviations from the mean of the days that have a value.
Outlier(days, series, i) ==
    LET seen == {j \in DOMAIN days : days[j][series] # 0}
        n == Cardinality(seen)
        sum == SumFunctionOnSet([j \in seen |-> days[j][series]], seen)
        squares == SumFunctionOnSet([j \in seen |-> days[j][series] * days[j][series]], seen)
        d == n * days[i][series] - sum
    IN  /\ i \in seen /\ n >= 5
        /\ n * squares # sum * sum
        /\ d * d >= 4 * (n * squares - sum * sum)

DetectAnomalies(days) ==
    {a \in AnomalyMetrics \X DOMAIN days : Len(days) >= 5 /\ Outlier(days, a[1], a[2])}

-----------------------------------------------------------------------------
(* Progress towards a goal. *)

\* The targets there is something to compare with.
Factors(m, goal) ==
    {f \in {"conversions", "cpl", "cpa", "roas"} :
       /\ goal[f] > 0
       /\ f = "cpl" => m.leads > 0
       /\ f = "cpa" => m.conversions > 0
       /\ f = "roas" => m.spend > 0}

\* Behind 60 % of the pace, more than 25 % too dear, below 80 % of the return;
\* each after rounding.
Missed(f, m, goal, days) ==
    CASE f = "conversions" ->
           Round(1000 * m.conversions, goal[f]) < 20 * Clamp(days, 0, 30)
      [] f = "cpl" -> Round(1000 * (m.spend - goal[f] * m.leads), goal[f] * m.leads) > 250
      [] f = "cpa" ->
           Round(1000 * (m.spend - goal[f] * m.conversions), goal[f] * m.conversions) > 250
      [] f = "roas" -> Round(100 * m.value, goal[f] * m.spend) < 80

AssessGoalProgress(m, goal, days) ==
    LET factors == Factors(m, goal)
        penalty == Cardinality({f \in factors : Missed(f, m, goal, days)})
    IN  IF factors = {} THEN "insufficient_data"
        ELSE IF penalty >= 2 \/ (penalty = 1 /\ Cardinality(factors) = 1) THEN "off_track"
        ELSE IF penalty = 1 THEN "at_risk" ELSE "on_track"
===============================================================================
