------------------------------ MODULE MCExecutor ------------------------------
(* Small instances of Executor. *)
EXTENDS Executor, TLC

\* Rows to pick from.  1 and 2 carry the same key, 3 pulls the same object the
\* other way and asks for more than the cap, 4 was stored without a key, 8
\* passes Validate and is not executable.
Campaign(state, b) == [status |-> state, budget |-> b]
On(object, action, pct) ==
    [user |-> "u", object |-> object, action |-> action, pct |-> pct,
     preset |-> "last_7d", keyed |-> TRUE]

Catalogue ==
    <<On("c", "DECREASE_BUDGET", -20),
      On("c", "DECREASE_BUDGET", -20),
      On("c", "INCREASE_BUDGET", 40),
      [On("c", "PAUSE_CAMPAIGN", 0) EXCEPT !.keyed = FALSE],
      On("c", "RESUME_CAMPAIGN", 0),
      On("c", "DECREASE_BUDGET", -50),
      On("d", "PAUSE_CAMPAIGN", 0),
      On("c", "PAUSE_ADSET", 0)>>

MCRow == [p \in Proposals |-> Catalogue[p]]

WorkerSymmetry == Permutations(Workers)

MCLive == [o \in Objects |-> Campaign("ACTIVE", 100)]
MCExternal == {Campaign("PAUSED", 100)}

MCNoFaults == {{}}
MCDoubleClicks == {{"overlap"}}

\* One kind of failure at a time, and the combinations that share a cause; with
\* other readers around, the two rows that pull one object either way.
MCFaultWorlds ==
    {{"overlap", "external"}, {"crash", "no_metrics"}, {"ambiguous"},
     {"db_error"}, {"crash", "ambiguous"}, {"overlap", "processes"},
     {"ambiguous", "processes"}, {"readers"}}
MCDecided ==
    [w \in Worlds |-> CASE w \in {{}, {"overlap"}} -> Proposals
                       [] w = {"overlap", "processes"} -> {1}
                       [] w = {"readers"} -> {1, 3}
                       [] OTHER -> {1, 2}]
===============================================================================
