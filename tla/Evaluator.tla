------------------------------- MODULE Evaluator -------------------------------
(***************************************************************************)
(* The verdict on an executed action, internals/optimization/evaluator.go: *)
(* figures from before the action and from a window after it go in.  Spend *)
(* is in minor units; ratios are compared by cross-multiplication.  The    *)
(* reasons are wording and are left out.                                   *)
(***************************************************************************)
EXTENDS Integers

\* value is what the conversions are worth, of which ROAS is made.
Metrics == [spend : Nat, impressions : Nat, clicks : Nat, conversions : Nat, value : Nat]
Nothing == [spend |-> 0, impressions |-> 0, clicks |-> 0, conversions |-> 0, value |-> 0]

Verdicts == {"SUCCESS", "FAILURE", "NEUTRAL", "INSUFFICIENT_DATA"}

NoTarget == 0  \* no goal, no target CPA, or one that is not positive

Pauses == {"PAUSE_CAMPAIGN", "PAUSE_ADSET", "PAUSE_AD"}

\* CPA and CTR are zero when undefined, which the code reads as "no value".
HasCPA(m) == m.spend > 0 /\ m.conversions > 0
HasCTR(m) == m.clicks > 0 /\ m.impressions > 0

\* int(v*100 + 0.5) of v = 100n/d: cut off towards zero, also below it.
PctHundredths(n, d) ==
    LET x == 20000 * n + d IN
    IF x >= 0 THEN x \div (2 * d) ELSE -((-x) \div (2 * d))

\* A CPA that became undefined is a fall by everything.
CPAChange(b, a) ==
    IF HasCPA(a)
    THEN PctHundredths(a.spend * b.conversions - b.spend * a.conversions,
                       b.spend * a.conversions)
    ELSE -10000

CTRChange(b, a) ==
    IF HasCTR(a)
    THEN PctHundredths(a.clicks * b.impressions - b.clicks * a.impressions,
                       b.clicks * a.impressions)
    ELSE -10000

Raised(b, a, target) ==
    LET conversionsUp == b.conversions = 0 \/ a.conversions > b.conversions
        cpaWithinTarget == target # NoTarget /\ HasCPA(a)
                             => 10 * a.spend <= 11 * target * a.conversions
    IN  IF conversionsUp /\ cpaWithinTarget THEN "SUCCESS" ELSE "FAILURE"

Cut(b, a) ==
    LET cpaImproved ==
          /\ HasCPA(b) /\ HasCPA(a)
          /\ 100 * a.spend * b.conversions < 95 * b.spend * a.conversions
        resultsHeld ==
          /\ b.conversions > 0
          /\ 10 * a.conversions >= 9 * b.conversions
          /\ a.spend < b.spend
        wasteCut == b.conversions = 0 /\ a.spend < b.spend
    IN  IF cpaImproved \/ resultsHeld \/ wasteCut THEN "SUCCESS" ELSE "FAILURE"

Refreshed(b, a) ==
    IF /\ HasCTR(b) /\ CTRChange(b, a) > 500
       /\ HasCPA(b) /\ CPAChange(b, a) < -500
    THEN "SUCCESS" ELSE "NEUTRAL"

EvaluateAction(action, b, a, target) ==
    IF a.impressions = 0 /\ a.spend = 0
    THEN IF action \in Pauses THEN "SUCCESS" ELSE "INSUFFICIENT_DATA"
    ELSE CASE action = "INCREASE_BUDGET" -> Raised(b, a, target)
           [] action = "DECREASE_BUDGET" -> Cut(b, a)
           [] action \in Pauses ->
                IF 4 * a.spend <= b.spend THEN "SUCCESS" ELSE "FAILURE"
           [] action = "RESUME_CAMPAIGN" ->
                IF a.impressions > 0 THEN "SUCCESS" ELSE "FAILURE"
           [] action = "REFRESH_CREATIVE" -> Refreshed(b, a)
           [] OTHER -> "NEUTRAL"
===============================================================================
