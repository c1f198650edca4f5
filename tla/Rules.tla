--------------------------------- MODULE Rules ---------------------------------
(***************************************************************************)
(* The decision engine, internals/optimization/rules.go and optimizer.go:  *)
(* an analysed object goes in, the strongest recommendation comes out.     *)
(* Confidences are in hundredths, the precision clamp01 rounds them to.    *)
(***************************************************************************)
EXTENDS Analytics

\* An object type picks the verb.
ObjectTypes == {"CAMPAIGN", "ADSET", "AD"}

PauseActionFor(type) ==
    CASE type = "ADSET" -> "PAUSE_ADSET"
      [] type = "AD" -> "PAUSE_AD"
      [] OTHER -> "PAUSE_CAMPAIGN"

RuleIDs == {"not_delivering", "cpa_above_target", "cpl_above_target",
            "roas_below_target", "zero_result_spend", "creative_fatigue",
            "high_performer_underpaced", "healthy_keep", "monitor"}

minSpendForPause == 100

\* Mutant: rounded only.
Unclamped(n, d) == Round(n, d)

\* clamp01 of n/d hundredths; none of the rules gives less than nothing.
Confidence(n, d) == Clamp(Round(n, d), 0, 99)

Decision(in, rule, action, pct, confidence) ==
    [object |-> in.object, type |-> in.type, rule |-> rule, action |-> action,
     pct |-> pct, confidence |-> confidence]

\* A rule gives one decision or none.
If(condition, decision) == IF condition THEN <<decision>> ELSE <<>>

notDeliveringRule(in) ==
    If(in.health = "NOT_DELIVERING",
       Decision(in, "not_delivering", PauseActionFor(in.type), 0,
                IF in.days >= 7 THEN 90 ELSE 75))

\* A cost of spend per result against its target: r = spend / (target * results),
\* and 0 when the target is.
CostRule(in, rule, target, results) ==
    LET n == IF target > 0 THEN in.figures.spend ELSE 0
        d == IF target > 0 THEN target * results ELSE 1
        applies == target # NoTarget /\ results > 0
        pause == n >= 2 * d /\ in.figures.spend > minSpendForPause
    IN  If(applies /\ pause,
           Decision(in, rule, PauseActionFor(in.type), 0, Confidence(70 * d + 5 * n, d)))
        \o
        If(applies /\ ~pause /\ 4 * n >= 5 * d,
           Decision(in, rule, "DECREASE_BUDGET", IF 5 * n >= 8 * d THEN -30 ELSE -20,
                    Confidence(35 * d + 60 * n, 2 * d)))

cpaAboveTargetRule(in) ==
    CostRule(in, "cpa_above_target", in.goal.cpa, in.figures.conversions)
cplAboveTargetRule(in) ==
    CostRule(in, "cpl_above_target", in.goal.cpl, in.figures.leads)

\* r = value / (target * spend).
roasBelowTargetRule(in) ==
    LET target == in.goal.roas
        n == IF target > 0 THEN in.figures.value ELSE 0
        d == IF target > 0 THEN target * in.figures.spend ELSE 1
        applies == target # NoTarget /\ in.figures.spend > 0 /\ in.figures.value > 0
        pause == 2 * n < d /\ in.figures.spend > minSpendForPause
    IN  If(applies /\ pause,
           Decision(in, "roas_below_target", PauseActionFor(in.type), 0,
                    Confidence(88 * d - 20 * n, d)))
        \o
        If(applies /\ ~pause /\ 100 * n < 85 * d,
           Decision(in, "roas_below_target", "DECREASE_BUDGET", -20,
                    Confidence(94 * d - 40 * n, d)))

\* Mutant: twice the cut the executor grants.
cutDeeper(in) ==
    If(in.figures.spend >= minSpendForPause /\ in.figures.conversions = 0,
       Decision(in, "zero_result_spend", "DECREASE_BUDGET", -60, 80))

zeroResultSpendRule(in) ==
    If(/\ in.figures.spend >= minSpendForPause
       /\ in.figures.conversions = 0
       /\ in.days >= 7,
       Decision(in, "zero_result_spend", "DECREASE_BUDGET", -30,
                Confidence(60000 + 20 * Clamp(in.figures.spend, 0, 1000), 1000)))

fatigueRefreshRule(in) ==
    If(in.figures.impressions >= 5000 /\ in.fatigue \in {"moderate", "high"},
       Decision(in, "creative_fatigue", "REFRESH_CREATIVE", 0,
                IF in.fatigue = "high" THEN 80 ELSE 60))

\* eff = n / d, the share of the set's results over the share of its spend;
\* nothing paces the object where no budgets are attached.
highPerformerScaleRule(in) ==
    LET m == in.figures
        n == m.conversions * in.totals.spend
        d == m.spend * in.totals.conversions
    IN  If(/\ m.conversions > 0 /\ in.score >= 70
           /\ in.totals.spend > 0 /\ m.spend > 0
           /\ 10 * n >= 13 * d,
           Decision(in, "high_performer_underpaced", "INCREASE_BUDGET", 20,
                    Confidence(60 * d + 3 * Clamp(10 * n - 13 * d, 0, 7 * d), d)))

\* Mutant: as confident as the weakest rule that acts.
keepAsConfident(in) ==
    If(in.score >= 60 /\ in.health = "HEALTHY",
       Decision(in, "healthy_keep", "NO_ACTION", 0, 60))

keepHealthyRule(in) ==
    If(in.score >= 60 /\ in.health = "HEALTHY",
       Decision(in, "healthy_keep", "NO_ACTION", 0, 45))

\* The decisions the rules give, in the order of the rules.
Fired(in) ==
    notDeliveringRule(in) \o cpaAboveTargetRule(in) \o cplAboveTargetRule(in)
      \o roasBelowTargetRule(in) \o zeroResultSpendRule(in) \o fatigueRefreshRule(in)
      \o highPerformerScaleRule(in) \o keepHealthyRule(in)

\* The first of the most confident ones.
Strongest(ds) ==
    ds[CHOOSE i \in DOMAIN ds :
         /\ \A j \in DOMAIN ds : ds[j].confidence <= ds[i].confidence
         /\ \A j \in 1..(i - 1) : ds[j].confidence < ds[i].confidence]

Optimize(in) ==
    IF Fired(in) = <<>> THEN Decision(in, "monitor", "NO_ACTION", 0, 30)
    ELSE Strongest(Fired(in))

actionUrgency(action) ==
    CASE action \in {"PAUSE_CAMPAIGN", "PAUSE_ADSET", "PAUSE_AD"} -> 0
      [] action = "DECREASE_BUDGET" -> 1
      [] action = "REFRESH_CREATIVE" -> 2
      [] action = "INCREASE_BUDGET" -> 3
      [] OTHER -> 9

\* Most urgent first, then most confident.
Ahead(d, e) ==
    \/ actionUrgency(d.action) < actionUrgency(e.action)
    \/ /\ actionUrgency(d.action) = actionUrgency(e.action)
       /\ d.confidence > e.confidence

\* The elements of a finite set in a total order of it.
Enumerate(I, order) ==
    [k \in 1..Cardinality(I) |->
       CHOOSE i \in I : Cardinality({j \in I : <<j, i>> \in order}) = k]

\* The elements of s at the indices I.
Subsequence(s, I) ==
    LET index == Enumerate(I, {p \in I \X I : p[1] <= p[2]})
    IN  [k \in DOMAIN index |-> s[index[k]]]

StableSort(s, before(_, _)) ==
    LET I == DOMAIN s
        precedes(j, i) == before(s[j], s[i]) \/ (j <= i /\ ~before(s[i], s[j]))
        index == Enumerate(I, {p \in I \X I : precedes(p[1], p[2])})
    IN  [k \in I |-> s[index[k]]]

\* Mutant: recommended in the order of the report.
Unsorted(ins) == [i \in DOMAIN ins |-> Optimize(ins[i])]

OptimizeReport(ins) == StableSort([i \in DOMAIN ins |-> Optimize(ins[i])], Ahead)
===============================================================================
