------------------------------ MODULE MCOutcomes ------------------------------
(* Small instances of Outcomes and Reports. *)
EXTENDS Reports

\* An object that goes on as before, and one that falls silent after a day.
Busy == [spend |-> 8, impressions |-> 10, clicks |-> 2, conversions |-> 1, value |-> 2]
Times(n, m) == [f \in DOMAIN m |-> n * m[f]]

MCRows == {"pause", "raise"}
MCVerb == [r \in Rows |-> IF r = "pause" THEN "PAUSE_CAMPAIGN" ELSE "INCREASE_BUDGET"]
MCDays == [r \in Rows |-> 7]
MCBefore == [r \in Rows |-> IF r = "pause" THEN Times(7, Busy)
                            ELSE [Times(7, Busy) EXCEPT !.conversions = 2, !.value = 4]]

\* A pause is not judged by a goal.
MCTargets == [r \in Rows |-> IF r = "pause" THEN {NoTarget} ELSE {NoTarget, 4}]

\* The third account lies west of UTC, by twelve hours at most.
MCHistories == {"unchanged", "fading", "western"}
MCLag == [h \in Histories |-> IF h = "western" THEN 2 ELSE 0]
ActiveDays(h, D) ==
    IF h = "fading" THEN D \cap {0, 1} ELSE D
MCInsights(h, r, D) == Times(Cardinality(ActiveDays(h, D)), Busy)

MCNoFaults == {{}}
MCFaultWorlds ==
    {{"goal_edit"}, {"processes", "goal_edit"}, {"crash", "no_metrics"},
     {"meta_error"}, {"db_error"}, {"overlap"}}
===============================================================================
