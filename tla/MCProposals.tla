------------------------------ MODULE MCProposals ------------------------------
(* Small instances of Proposals. *)
EXTENDS Proposals

CONSTANTS c1, c2, s1, g1, g2

MCIntOfNaN == -1000  \* as on amd64
MCListing == <<c1, c2, s1>>
MCTypeOf == (c1 :> "CAMPAIGN") @@ (c2 :> "CAMPAIGN") @@ (s1 :> "ADSET")
MCUserOf == [g \in Generators |-> "u"]

Count(type, n) == IF n = 0 THEN <<>> ELSE <<[type |-> type, value |-> n]>>

Row(spend, impressions, clicks, leads, purchases, value) ==
    [spend |-> spend, impressions |-> impressions, reach |-> impressions \div 4,
     clicks |-> clicks, actions |-> Count("lead", leads) \o Count("purchase", purchases),
     values |-> Count("purchase", value)]

Report(row, days) == [status |-> "ACTIVE", row |-> row, days |-> days]

\* Daily series: spend and CTR are v, the other two stay empty.
Day(v, frequency) == [spend |-> v, ctr |-> v, cpc |-> 0, cpa |-> 0, frequency |-> frequency]
Tired == [i \in 1..14 |-> IF i <= 7 THEN Day(100, 200) ELSE Day(50, 300)]
Tiring == [i \in 1..9 |-> IF i <= 2 THEN Day(100, 200) ELSE Day(80, 240)]

Silent == Row(0, 0, 0, 0, 0, 0)
Dear == Row(240, 6000, 90, 0, 2, 150)
Good == Row(100, 6000, 120, 0, 10, 600)
Barren == Row(300, 6000, 90, 0, 0, 0)

Goal(cpl, cpa, roas, conversions) ==
    [cpl |-> cpl, cpa |-> cpa, roas |-> roas, conversions |-> conversions]
MCGoals == {NoGoal, Goal(20, 15, NoTarget, NoTarget), Goal(NoTarget, 20, 3, 10),
            Goal(0, NoTarget, NoTarget, NoTarget)}

World(reports, generators, runs, goals, presets, levels, faults) ==
    [reports |-> reports, generators |-> generators, runs |-> runs, goals |-> goals,
     presets |-> presets, levels |-> levels, faults |-> faults]

Beside(ofC, ofD) == {(c1 :> r) @@ (c2 :> Report(ofD, <<>>)) @@ (s1 :> Report(Dear, <<>>)) :
                       r \in ofC}

\* Every kind of object beside an ordinary one, one request after the other.
Kinds(impressions) ==
    {Row(spend, i, clicks, leads, purchases, value) :
       spend \in {0, 60, 100, 240, 300}, i \in impressions, clicks \in {0, 90},
       leads \in {0, 2}, purchases \in {0, 3}, value \in {0, 150, 900}}
Kind == World(Beside({Report(row, days) : row \in Kinds({0, 6000}), days \in {<<>>, Tired}},
                     Good), {g1}, 1, MCGoals, {"last_7d", "today"},
              {"CAMPAIGN"}, {})

\* Anything Meta may report next, watched by nobody.
Figured == World(Beside({Report(row, <<>>) : row \in Kinds({6000})}, Good),
                 {}, 0, MCGoals, {"last_7d"}, {}, {"drift"})
Wild == UNION {{[i \in 1..n |-> Day(IF i \in high THEN 30 ELSE 1, 100)] :
                  high \in {h \in SUBSET (1..n) : Cardinality(h) <= 3}} : n \in {5, 8}}
Plotted == World(Beside({Report(Good, days) : days \in Wild}, Good),
                 {}, 0, {NoGoal}, {"last_7d"}, {}, {"drift"})

\* Requests that fail and repeat, or overlap, while figures move and people decide.
Restless(generators, runs, faults) ==
    World(Beside({Report(Dear, Tired), Report(Silent, Tiring)}, Barren), generators, runs,
          {Goal(NoTarget, 60, NoTarget, NoTarget)}, {"last_30d"}, {"CAMPAIGN", "ADSET"},
          faults \cup {"decisions", "db_error"})

MCWorlds == {Kind, Figured, Plotted,
             Restless({g1}, 2, {"drift", "meta_error"}), Restless({g1, g2}, 1, {"overlap"})}
===============================================================================
