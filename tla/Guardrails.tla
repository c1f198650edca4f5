------------------------------ MODULE Guardrails ------------------------------
(***************************************************************************)
(* The executor's hard safety limits, internals/core/guardrails.go: a      *)
(* validation context goes in, a verdict and the budget percentage to      *)
(* apply come out.  Percentages are whole numbers, as every rule of the    *)
(* engine and IdempotencyKeyFor's %+.0f write them; budgets are Meta's     *)
(* minor units.  The reasons of a refusal are wording and are left out.    *)
(***************************************************************************)
EXTENDS Integers

CONSTANTS
    MaxIncreasePct,         \* cap on one raise
    MaxDecreasePct,         \* cap on one cut
    MinConversionsForScale, \* fewer conversions are never scaled up
    MinDataDays,            \* shorter windows are insufficient data
    Cooldown                \* ticks between two executions on one object

ASSUME PolicyAssumption ==
    /\ MaxIncreasePct \in Nat \ {0}
    /\ MaxDecreasePct \in 1..99
    /\ MinConversionsForScale \in Nat
    /\ MinDataDays \in Nat
    /\ Cooldown \in Nat

NoPct == 0   \* a nil percentage: refused exactly where 0 is
Never == -1  \* a nil time

PauseActions == {"PAUSE_CAMPAIGN", "PAUSE_ADSET", "PAUSE_AD"}
BudgetActions == {"INCREASE_BUDGET", "DECREASE_BUDGET"}
ValidAction == PauseActions \cup BudgetActions
                 \cup {"RESUME_CAMPAIGN", "REFRESH_CREATIVE", "NO_ACTION"}

\* "UNKNOWN" stands for every status Validate does not name ("" included).
MetaStatuses == {"ACTIVE", "PAUSED", "ARCHIVED", "UNKNOWN"}
DatePresets == {"today", "yesterday", "last_7d", "last_14d", "last_30d"}

presetDaysInt(preset) ==
    CASE preset \in {"today", "yesterday"} -> 1
      [] preset = "last_7d" -> 7
      [] preset = "last_14d" -> 14
      [] OTHER -> 30

Observed(vc) ==
    vc.action = "REFRESH_CREATIVE" \/ vc.daysInWindow >= MinDataDays

CooledDown(vc) ==
    vc.lastExecutedAt = Never \/ vc.now - vc.lastExecutedAt >= Cooldown

\* The switch on the action: what each verb demands of the live object.
Permitted(vc) ==
    \/ /\ vc.action \in PauseActions
       /\ vc.currentStatus \notin {"PAUSED", "ARCHIVED"}
    \/ /\ vc.action = "RESUME_CAMPAIGN"
       /\ vc.currentStatus = "PAUSED"
    \/ /\ vc.action = "INCREASE_BUDGET"
       /\ vc.currentStatus # "PAUSED"
       /\ vc.conversions >= MinConversionsForScale
       /\ vc.requestedPct > 0
    \/ /\ vc.action = "DECREASE_BUDGET"
       /\ vc.currentStatus # "PAUSED"
       /\ vc.requestedPct < 0

Validate(vc) ==
    /\ vc.action \in ValidAction
    /\ Observed(vc)
    /\ CooledDown(vc)
    /\ Permitted(vc)

\* Mutant: only cuts are capped.
UncappedRaise(action, p) ==
    IF action = "INCREASE_BUDGET" \/ -p <= MaxDecreasePct THEN p ELSE -MaxDecreasePct

\* The percentage Validate returns when it accepts: clamped, never scaled.
ClampedPct(action, p) ==
    IF action = "INCREASE_BUDGET"
    THEN IF p > MaxIncreasePct THEN MaxIncreasePct ELSE p
    ELSE IF -p > MaxDecreasePct THEN -MaxDecreasePct ELSE p

\* math.Round of current * (1 + pct/100): half away from zero, which for the
\* non-negative products of a clamped percentage is half up.
ApplyBudgetPct(current, pct) ==
    IF current <= 0 THEN 0 ELSE (current * (100 + pct) + 50) \div 100
===============================================================================
