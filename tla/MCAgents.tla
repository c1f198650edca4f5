------------------------------- MODULE MCAgents -------------------------------
(* Small instances of AgentRuns. *)
EXTENDS AgentRuns, TLC

CONSTANTS ann, bob, a1, b1

\* A number that is refused and one that is not.
MCValues == {-1, 20}

MCUserOf == (a1 :> ann) @@ (b1 :> bob)

Goal(user, status) ==
    [user |-> user, status |-> status, columns |-> [k \in Columns |-> None]]
MCGoals == <<Goal(ann, "ACTIVE"), Goal(bob, "ACTIVE")>>

\* Nothing in the program keeps a session from being linked to a foreign goal.
MCSessions == <<[user |-> ann, goal |-> 2]>>

World(who, requests, deeds, kinds) ==
    [runs |-> who, requests |-> requests, moves |-> deeds, faults |-> kinds]

\* One run after the other; two at a time; one among people at work.
MCWorlds ==
    {World({a1, b1}, 2, 0, {}),
     World({a1, b1}, 1, 0, {"overlap", "provider"}),
     World({a1}, 1, 3, {}),
     World({a1}, 1, 2, {"crash", "db"})}

MCOverlap == {World({a1, b1}, 1, 0, {"overlap"})}
===============================================================================
