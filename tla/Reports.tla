-------------------------------- MODULE Reports --------------------------------
(***************************************************************************)
(* The reports on what the actions achieved: OptimizationPerformance and   *)
(* spendTotals of internals/core/outcomes.go, GetOptimizationEffectiveness *)
(* of internals/core/effectiveness.go.  They read one state of the tables  *)
(* and change nothing, so they are operators.  Money is in minor units and *)
(* percentages in hundredths, the precision of roundMoney; sums of         *)
(* quotients are exact fractions <<n, d>> until they are rounded.  What is *)
(* counted by the time of creation (proposed, executed, failed) is left    *)
(* out.                                                                    *)
(***************************************************************************)
EXTENDS Outcomes, Functions

Plus(p, q) == <<p[1] * q[2] + q[1] * p[2], p[2] * q[2]>>

\* The sum of the fractions f[o].
Total(f) == FoldFunction(Plus, <<0, 1>>, f)

\* math.Round of n / d hundredths, halves away from zero.
RoundMoney(p) ==
    LET n == 2 * p[1] IN
    IF n >= 0 THEN (n + p[2]) \div (2 * p[2]) ELSE -((p[2] - n) \div (2 * p[2]))

With(S, verdict) == Cardinality({o \in S : o.verdict = verdict})
-----------------------------------------------------------------------------
(* OptimizationPerformance. *)

\* A rate is in tenths of a percent and cut off.
Bucket(S) ==
    LET won == With(S, "SUCCESS")
        lost == With(S, "FAILURE")
    IN  [total |-> Cardinality(S), success |-> won, failure |-> lost,
         neutral |-> With(S, "NEUTRAL"), noData |-> With(S, "INSUFFICIENT_DATA"),
         rate |-> IF won + lost = 0 THEN 0 ELSE (1000 * won) \div (won + lost)]

OfVerb(action) == {o \in Attributed : Verb[o.row] = action}

\* Spend per day before the action and in the window after it.
DailyBefore(o) == <<before[o.row].spend, Days[o.row]>>
DailyAfter(o) == <<o.after.spend, o.window>>
Saved(o) == Plus(DailyBefore(o), <<-o.after.spend, o.window>>)

SpendTotals ==
    LET S == {o \in Attributed : before[o.row].spend > 0} IN
    [before |-> RoundMoney(Total([o \in S |-> DailyBefore(o)])),
     after |-> RoundMoney(Total([o \in S |-> DailyAfter(o)])),
     saving |-> RoundMoney(Total([o \in S |-> Saved(o)]))]

Performance ==
    [overall |-> Bucket(Attributed),
     byAction |-> [a \in {Verb[o.row] : o \in Attributed} |-> Bucket(OfVerb(a))],
     spend |-> SpendTotals]
-----------------------------------------------------------------------------
(* GetOptimizationEffectiveness, over the last `days`. *)

\* executed_at is compared with a date.
AttributedSince(days) == {o \in Attributed : executedAt[o.row] >= 2 * (Day(now) - days)}

\* A ROAS of Meta's own (purchase_roas) is left out.
HasROAS(m) == m.spend > 0 /\ m.value > 0

\* A whole unit of money, and all of something.
Unit == 100
Full == 10000

\* The spend before, and one unit at least.
Weight(o) ==
    LET spend == before[o.row].spend IN IF spend < Unit THEN Unit ELSE spend

\* The change of CPA (spend / conversions) and of ROAS (value / spend), each
\* times its weight.
CPAShift(o) ==
    LET b == before[o.row] IN
    <<Full * Weight(o) * (o.after.spend * b.conversions - b.spend * o.after.conversions),
      b.spend * o.after.conversions>>
ROASShift(o) ==
    LET b == before[o.row] IN
    <<Full * Weight(o) * (o.after.value * b.spend - b.value * o.after.spend),
      b.value * o.after.spend>>

\* The weighted mean of the changes, or None without any.
Mean(shift) ==
    LET total == Total(shift)
        weight == SumFunction([o \in DOMAIN shift |-> Weight(o)])
    IN  IF DOMAIN shift = {} THEN None ELSE RoundMoney(<<total[1], total[2] * weight>>)

CPAImprovement(S) ==
    Mean([o \in {o \in S : HasCPA(before[o.row]) /\ HasCPA(o.after)} |-> CPAShift(o)])
ROASImprovement(S) ==
    Mean([o \in {o \in S : HasROAS(before[o.row]) /\ HasROAS(o.after)} |-> ROASShift(o)])

\* Cuts and pauses that spend less per day than before and did not fail, from
\* the execution on, at most the days of the report.
WasteReduction(S, days) ==
    LET cuts == {o \in S : /\ Verb[o.row] \in Pauses \cup {"DECREASE_BUDGET"}
                           /\ o.verdict # "FAILURE" /\ Saved(o)[1] > 0}
        since(o) == (now - executedAt[o.row]) \div 2
        accrued(o) == <<Saved(o)[1] * ((IF since(o) > days THEN days ELSE since(o)) + 1),
                        Saved(o)[2]>>
    IN  RoundMoney(Total([o \in cuts |-> accrued(o)]))

SuccessRate(S) ==
    LET won == With(S, "SUCCESS")
        judged == won + With(S, "FAILURE")
    IN  IF judged = 0 THEN 0 ELSE RoundMoney(<<Full * won, judged>>)

\* -50 to 50 percent become 0 to 100.
Subscore(p) == IF p < -5000 THEN 0 ELSE IF p > 5000 THEN Full ELSE p + 5000

\* The rate weighs half, and each of the others a quarter if there is one.
Score(rate, cpa, roas) ==
    LET dimensions == {d \in {<<"cpa", cpa>>, <<"roas", roas>>} : d[2] # None} IN
    RoundMoney(<<2 * rate + SumFunction([d \in dimensions |-> Subscore(d[2])]),
                 2 + Cardinality(dimensions)>>)

Effectiveness(days) ==
    LET S == AttributedSince(days) IN
    [evaluated |-> Cardinality(S), successful |-> With(S, "SUCCESS"),
     failure |-> With(S, "FAILURE"), neutral |-> With(S, "NEUTRAL"),
     noData |-> With(S, "INSUFFICIENT_DATA"), rate |-> SuccessRate(S),
     cpa |-> CPAImprovement(S), roas |-> ROASImprovement(S),
     conversions |-> SumFunction([o \in S |-> o.after.conversions - before[o.row].conversions]),
     waste |-> WasteReduction(S, days),
     score |-> IF S = {} THEN None
               ELSE Score(SuccessRate(S), CPAImprovement(S), ROASImprovement(S))]
-----------------------------------------------------------------------------
(* Properties. *)

\* Over all days both reports count the same verdicts, by action and in all.
ReportsAgree ==
    LET p == Performance
        e == Effectiveness(Day(MaxTime))
    IN  /\ p.overall.total = e.evaluated
        /\ p.overall.success = e.successful /\ p.overall.failure = e.failure
        /\ e.evaluated = SumFunction([a \in DOMAIN p.byAction |-> p.byAction[a].total])
        /\ e.score # None => e.score \in 0..Full

\* A report never loses what it has counted: an evaluated action stays
\* evaluated, whatever is executed, overwritten or captured later.
CountsOnlyGrow ==
    [][\A o \in Attributed : Cardinality(OfVerb(Verb[o.row])') >= Cardinality(OfVerb(Verb[o.row]))]_vars

\* Both.
ReportsHold == []ReportsAgree /\ CountsOnlyGrow
===============================================================================
