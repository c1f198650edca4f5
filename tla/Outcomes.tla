------------------------------- MODULE Outcomes -------------------------------
(***************************************************************************)
(* The outcome collector, internals/core/outcomes.go: days after an action *)
(* was executed its object is looked at again, once per window, judged     *)
(* against the figures from before, and the proposal gets a running        *)
(* verdict.  Every server process runs a collector.  One action is one     *)
(* database or Meta round-trip of a pass, so collectors interleave with    *)
(* each other, with executions and with edits of the goals.                *)
(***************************************************************************)
EXTENDS Evaluator, FiniteSets

CONSTANTS
    None,                \* no value
    Rows,                \* rows of optimization_actions, approved
    Verb, Before, Days,  \* of each: its action, its figures before, their days
    Collectors,          \* server processes
    Windows,             \* outcomeWindows, worked off in ascending order
    Histories,           \* what may become of the objects afterwards
    Insights(_, _, _),   \* Meta's figures in a history, of a row, over a set of days
    Lag,                 \* of each: how much later than at UTC the account's day ends
    Targets,             \* target CPAs the goal of each row may have
    LastExecution,       \* bound on the time of executions
    MaxTime,             \* bound on the clock
    Worlds               \* the sets of faults a behaviour may be exposed to

\* Half days: an even time is a midnight, an odd one any later time of the day.
Time == 0..MaxTime
Day(t) == t \div 2
Dates == 0..Day(MaxTime)

NoVerdict == "none"
Never == -1

\* "processes"  several server processes share the database
\* "crash"      a process dies and restarts
\* "meta_error" Meta does not answer a collector
\* "db_error"   a statement fails
\* "no_metrics" the figures before could not be captured
\* "overlap"    a second request for the row overwrites its outcome
\* "goal_edit"  the goals are edited meanwhile
FaultKinds == {"processes", "crash", "meta_error", "db_error", "no_metrics",
               "overlap", "goal_edit"}

ASSUME OutcomesAssumption ==
    /\ None \notin Metrics
    /\ None \notin [id : Rows, executedAt : Time, before : Metrics]
    /\ Before \in [Rows -> Metrics]
    /\ Days \in [Rows -> Nat \ {0}]
    /\ Collectors # {}
    /\ Windows \subseteq Nat \ {0}
    /\ \A h \in Histories, r \in Rows, D \in SUBSET Dates : Insights(h, r, D) \in Metrics
    /\ Lag \in [Histories -> 0..2]  \* half days; 0 east of UTC too, where it ends before
    /\ MaxTime \in Nat
    /\ LastExecution \in Time
    /\ Worlds \subseteq SUBSET FaultKinds

VARIABLES
    status, executedAt, before,  \* columns the executor writes
    target,        \* the target CPA of the goal each row belongs to
    outcomes,      \* rows of optimization_outcomes
    outcomeStatus, \* column outcome_status
    pc, pass,      \* each collector's position and local variables
    now, history, faults

executed == <<status, executedAt, before>>
clock == <<now, history, faults>>
vars == <<executed, target, outcomes, outcomeStatus, pc, pass, clock>>

Snapshots == [id : Rows, executedAt : Time, before : Metrics]
Stored == [id : Nat, row : Rows, window : Windows, since : Time, after : Metrics,
           verdict : Verdicts]

Positions == {"asleep", "query", "fetch", "insert", "update"}

\* today   the date the pass works with
\* left    windows to do, the first being worked on
\* due     its rows to do, the one being worked on no longer among them
Passes == [today : Dates, left : SUBSET Windows, due : SUBSET Snapshots,
           current : Snapshots \cup {None}, after : Metrics,
           verdict : Verdicts \cup {NoVerdict}]

Blank == [today |-> 0, left |-> {}, due |-> {}, current |-> None,
          after |-> Nothing, verdict |-> NoVerdict]

TargetChoices ==
    {t \in [Rows -> UNION {Targets[r] : r \in Rows}] : \A r \in Rows : t[r] \in Targets[r]}

Home == CHOOSE c \in Collectors : TRUE
Fault(kind) == kind \in faults
Only(kinds) == faults \subseteq kinds

\* One process collects, without losing its steps; and nothing fails.
Undisturbed == Only({"no_metrics", "overlap", "goal_edit", "meta_error"})
Calm == Only({"no_metrics", "overlap", "goal_edit"})

Init ==
    /\ status = [r \in Rows |-> "APPROVED"]
    /\ executedAt = [r \in Rows |-> Never]
    /\ before = [r \in Rows |-> None]
    /\ target \in TargetChoices
    /\ outcomes = {}
    /\ outcomeStatus = [r \in Rows |-> NoVerdict]
    /\ pc = [c \in Collectors |-> "asleep"]
    /\ pass = [c \in Collectors |-> Blank]
    /\ now = 0
    /\ history \in Histories
    /\ faults \in Worlds
-----------------------------------------------------------------------------
(* The executor and the people around the collector. *)

\* A run ends in EXECUTED or FAILED; both set executed_at, and the figures
\* before are captured ahead of the Meta call, so a FAILED row may have them.
Execute(r, ending) ==
    /\ status[r] = "APPROVED"
    /\ now <= LastExecution
    /\ status' = [status EXCEPT ![r] = ending]
    /\ executedAt' = [executedAt EXCEPT ![r] = now]
    /\ \/ before' = [before EXCEPT ![r] = Before[r]]
       \/ Fault("no_metrics") /\ UNCHANGED before
    /\ UNCHANGED <<target, outcomes, outcomeStatus, pc, pass, clock>>

\* Mutant: a row that was executed long ago is taken again.
OverwriteLater(r) ==
    /\ Fault("overlap")
    /\ status[r] = "EXECUTED"
    /\ status' = [status EXCEPT ![r] = "FAILED"]
    /\ UNCHANGED <<executedAt, before, target, outcomes, outcomeStatus, pc, pass, clock>>

\* The second of two requests for one row, refused by the cooldown.
Overwrite(r) ==
    /\ Fault("overlap")
    /\ status[r] = "EXECUTED" /\ executedAt[r] = now
    /\ status' = [status EXCEPT ![r] = "FAILED"]
    /\ UNCHANGED <<executedAt, before, target, outcomes, outcomeStatus, pc, pass, clock>>

EditGoal(r) ==
    /\ Fault("goal_edit")
    /\ \E t \in Targets[r] : target' = [target EXCEPT ![r] = t]
    /\ UNCHANGED <<executed, outcomes, outcomeStatus, pc, pass, clock>>

\* A pass takes less than a day.
Tick ==
    /\ now < MaxTime
    /\ \A c \in Collectors : pc[c] # "asleep" => pass[c].today = Day(now)
    /\ now' = now + 1
    /\ UNCHANGED <<executed, target, outcomes, outcomeStatus, pc, pass, history, faults>>
-----------------------------------------------------------------------------
(* A pass. *)

\* The ticker fires.
StartPass(c) ==
    /\ pc[c] = "asleep"
    /\ c = Home \/ Fault("processes")
    /\ Windows # {}
    /\ pass' = [pass EXCEPT ![c] =
                  [today |-> Day(now), left |-> Windows, due |-> {}, current |-> None,
                   after |-> Nothing, verdict |-> NoVerdict]]
    /\ pc' = [pc EXCEPT ![c] = "query"]
    /\ UNCHANGED <<executed, target, outcomes, outcomeStatus, clock>>

\* Mutant: the windows are worked off from the longest.
WorkingLongest(c, w) == w \in pass[c].left /\ \A v \in pass[c].left : w >= v

\* The window a pass is at.
Working(c, w) == w \in pass[c].left /\ \A v \in pass[c].left : w <= v

\* Go on with the rows `due` of window w, or with the windows after it.
GoOn(c, w, due) ==
    LET left == IF due = {} THEN pass[c].left \ {w} ELSE pass[c].left
    IN  /\ pc' = [pc EXCEPT ![c] = IF due # {} THEN "fetch"
                                   ELSE IF left # {} THEN "query" ELSE "asleep"]
        /\ pass' = [pass EXCEPT ![c] =
                      [today |-> @.today, left |-> left, due |-> due,
                       current |-> None, after |-> Nothing,
                       verdict |-> NoVerdict]]

Captured(r, w) == \E o \in outcomes : o.row = r /\ o.window = w

\* Mutant: the day after the window is not waited for.
MatureEarly(r, w, today) == 2 * today - executedAt[r] >= 2 * w

\* julianday(today) - julianday(executed_at) >= window + 1.
Mature(r, w, today) == 2 * today - executedAt[r] >= 2 * (w + 1)

\* Mutant: FAILED rows are taken as well.
DueFailed(w, today) ==
    {r \in Rows : /\ executedAt[r] # Never
                  /\ before[r] # None
                  /\ Mature(r, w, today)
                  /\ ~Captured(r, w)}

\* Mutant: NOT EXISTS does not look at the window.
DueOnce(w, today) ==
    {r \in Rows : /\ status[r] = "EXECUTED"
                  /\ before[r] # None
                  /\ Mature(r, w, today)
                  /\ \A v \in Windows : ~Captured(r, v)}

Due(w, today) ==
    {r \in Rows : /\ status[r] = "EXECUTED"
                  /\ before[r] # None
                  /\ Mature(r, w, today)
                  /\ ~Captured(r, w)}

DueQuery(c, w) ==
    /\ pc[c] = "query" /\ Working(c, w)
    /\ GoOn(c, w, {[id |-> r, executedAt |-> executedAt[r], before |-> before[r]] :
                     r \in Due(w, pass[c].today)})
    /\ UNCHANGED <<executed, target, outcomes, outcomeStatus, clock>>

DueQueryFails(c, w) ==
    /\ pc[c] = "query" /\ Working(c, w)
    /\ Fault("db_error")
    /\ GoOn(c, w, {})
    /\ UNCHANGED <<executed, target, outcomes, outcomeStatus, clock>>

\* since..until of captureWindow, days of UTC which Meta takes for days of the
\* account; one that is not over there is not in the figures.
Span(t, w) == Day(t) + 1 .. Day(t) + w
Known(t, w) == {d \in Span(t, w) : 2 * (d + 1) + Lag[history] <= now}

\* A goal that cannot be read is no goal.
GoalRead(r) == {target[r]} \cup (IF Fault("db_error") THEN {NoTarget} ELSE {})

\* FetchMetricsRange, then the goal is read and the verdict found.
Fetch(c, w, d) ==
    LET after == Insights(history, d.id, Known(d.executedAt, w)) IN
    /\ pc[c] = "fetch" /\ Working(c, w)
    /\ d \in pass[c].due
    /\ \E goal \in GoalRead(d.id) :
         pass' = [pass EXCEPT ![c] =
                    [today |-> @.today, left |-> @.left, due |-> @.due \ {d},
                     current |-> d, after |-> after,
                     verdict |-> EvaluateAction(Verb[d.id], d.before, after, goal)]]
    /\ pc' = [pc EXCEPT ![c] = "insert"]
    /\ UNCHANGED <<executed, target, outcomes, outcomeStatus, clock>>

FetchFails(c, w, d) ==
    /\ pc[c] = "fetch" /\ Working(c, w)
    /\ d \in pass[c].due
    /\ Fault("meta_error")
    /\ GoOn(c, w, pass[c].due \ {d})
    /\ UNCHANGED <<executed, target, outcomes, outcomeStatus, clock>>

Outcome(c, w) ==
    [id |-> Cardinality(outcomes), row |-> pass[c].current.id, window |-> w,
     since |-> pass[c].current.executedAt, after |-> pass[c].after,
     verdict |-> pass[c].verdict]

\* Mutant: no unique index, nothing to ignore.
InsertAgain(c, w) ==
    /\ pc[c] = "insert" /\ Working(c, w)
    /\ outcomes' = outcomes \cup {Outcome(c, w)}
    /\ pc' = [pc EXCEPT ![c] = "update"]
    /\ UNCHANGED <<executed, target, outcomeStatus, pass, clock>>

\* Mutant: an ignored insert updates the verdict all the same.
InsertUnnoticed(c, w) ==
    /\ pc[c] = "insert" /\ Working(c, w)
    /\ outcomes' = IF Captured(pass[c].current.id, w) THEN outcomes
                    ELSE outcomes \cup {Outcome(c, w)}
    /\ pc' = [pc EXCEPT ![c] = "update"]
    /\ UNCHANGED <<executed, target, outcomeStatus, pass, clock>>

\* INSERT OR IGNORE against the unique index on (action_id, window_days).
Insert(c, w) ==
    /\ pc[c] = "insert" /\ Working(c, w)
    /\ \/ /\ ~Captured(pass[c].current.id, w)
          /\ outcomes' = outcomes \cup {Outcome(c, w)}
          /\ pc' = [pc EXCEPT ![c] = "update"]
          /\ UNCHANGED pass
       \/ /\ Captured(pass[c].current.id, w)
          /\ GoOn(c, w, pass[c].due)
          /\ UNCHANGED outcomes
    /\ UNCHANGED <<executed, target, outcomeStatus, clock>>

InsertFails(c, w) ==
    /\ pc[c] = "insert" /\ Working(c, w)
    /\ Fault("db_error")
    /\ GoOn(c, w, pass[c].due)
    /\ UNCHANGED <<executed, target, outcomes, outcomeStatus, clock>>

\* Mutant: a word that is no verdict.
UpdatePartial(c, w) ==
    /\ pc[c] = "update" /\ Working(c, w)
    /\ outcomeStatus' = [outcomeStatus EXCEPT ![pass[c].current.id] = "PARTIAL"]
    /\ GoOn(c, w, pass[c].due)
    /\ UNCHANGED <<executed, target, outcomes, clock>>

\* The running verdict; the error of the UPDATE is not looked at.
UpdateStatus(c, w) ==
    /\ pc[c] = "update" /\ Working(c, w)
    /\ \/ outcomeStatus' = [outcomeStatus EXCEPT ![pass[c].current.id] = pass[c].verdict]
       \/ Fault("db_error") /\ UNCHANGED outcomeStatus
    /\ GoOn(c, w, pass[c].due)
    /\ UNCHANGED <<executed, target, outcomes, clock>>

\* A process dies in the middle of a pass.
Crash(c) ==
    /\ Fault("crash")
    /\ pc[c] # "asleep"
    /\ pc' = [pc EXCEPT ![c] = "asleep"]
    /\ pass' = [pass EXCEPT ![c] = Blank]
    /\ UNCHANGED <<executed, target, outcomes, outcomeStatus, clock>>
-----------------------------------------------------------------------------
Step(c, w) ==
    \/ DueQuery(c, w) \/ DueQueryFails(c, w)
    \/ \E d \in pass[c].due : Fetch(c, w, d) \/ FetchFails(c, w, d)
    \/ Insert(c, w) \/ InsertFails(c, w)
    \/ UpdateStatus(c, w)

Next ==
    \/ \E r \in Rows, ending \in {"EXECUTED", "FAILED"} : Execute(r, ending)
    \/ \E r \in Rows : Overwrite(r) \/ EditGoal(r)
    \/ Tick
    \/ \E c \in Collectors :
         \/ StartPass(c) \/ Crash(c)
         \/ \E w \in Windows : Step(c, w)

Spec == Init /\ [][Next]_vars

\* Time passes, passes end, and the ticker of the first process keeps firing;
\* what may fail there does not fail for ever, for any window or row.
Fairness ==
    /\ WF_vars(Tick)
    /\ WF_vars(StartPass(Home))
    /\ \A c \in Collectors, w \in Windows : WF_vars(Step(c, w))
    /\ \A w \in Windows :
         /\ SF_vars(DueQuery(Home, w))
         /\ \A r \in Rows :
              /\ SF_vars(\E d \in pass[Home].due : d.id = r /\ Fetch(Home, w, d))
              /\ SF_vars(pass[Home].current # None
                           /\ pass[Home].current.id = r /\ Insert(Home, w))

FairSpec == Spec /\ Fairness
-----------------------------------------------------------------------------
(* Properties. *)

\* Every variable has its type.
TypeOK ==
    /\ status \in [Rows -> {"APPROVED", "EXECUTED", "FAILED"}]
    /\ executedAt \in [Rows -> Time \cup {Never}]
    /\ before \in [Rows -> Metrics \cup {None}]
    /\ target \in TargetChoices
    /\ outcomes \subseteq Stored
    /\ outcomeStatus \in [Rows -> Verdicts \cup {NoVerdict}]
    /\ pc \in [Collectors -> Positions]
    /\ pass \in [Collectors -> Passes]
    /\ now \in Time
    /\ history \in Histories
    /\ faults \in Worlds

\* What performance, spend totals and effectiveness add up: the outcomes of
\* EXECUTED rows that have no longer window.
Attributed ==
    {o \in outcomes : /\ status[o.row] = "EXECUTED"
                      /\ \A x \in outcomes : x.row = o.row => x.window <= o.window}

\* The reports count every executed action at most once, also when several
\* processes collect: "already captured by a concurrent pass".
CountedOnce == \A o, x \in Attributed : o.row = x.row => o = x

\* The last day of a window is over when it is due: an execution at midnight sharp
\* waits a day less than all others, too little where the account lags behind UTC.
DueWhenOver(t) == t % 2 # 0 \/ Lag[history] = 0

\* A window is judged when it is over: the stored figures are those of all its
\* days, counted "from the day AFTER execution", wherever the account is.
WholeWindows ==
    \A o \in outcomes :
      DueWhenOver(o.since) => o.after = Insights(history, o.row, Span(o.since, o.window))

\* "Outcomes only evaluate EXECUTED rows": FAILED ones have an execution time
\* and may have figures from before, and never get a verdict.
OnlyExecutedJudged == \A o \in outcomes : status[o.row] = "EXECUTED"

\* The verdict a proposal shows is that of one of its stored outcomes, also
\* when two collectors judge one window by different goals and one of them
\* comes too late.
VerdictBacked ==
    \A r \in Rows :
      outcomeStatus[r] # NoVerdict =>
        \E o \in outcomes : o.row = r /\ o.verdict = outcomeStatus[r]

\* Of each row what was stored last.
Latest == {o \in outcomes : \A x \in outcomes : x.row = o.row => x.id <= o.id}

Shows(o) ==
    \/ outcomeStatus[o.row] = o.verdict
    \/ \E c \in Collectors :
         pc[c] = "update" /\ pass[c].current.id = o.row /\ pass[c].verdict = o.verdict

\* "the proposal's running verdict" is the one found last, as long as one process
\* collects and the database answers, and then also the one the reports count,
\* that of the longest window, unless a failed fetch had a window made up for.
RunningVerdict ==
    /\ Undisturbed => \A o \in Latest : Shows(o)
    /\ Calm => \A o \in Attributed : Shows(o)

\* Every executed action with figures from before gets all its windows, unless
\* a second request overwrites it.
EveryWindowCaptured ==
    \A r \in Rows, w \in Windows :
      status[r] = "EXECUTED" /\ before[r] # None
        ~> Captured(r, w) \/ status[r] = "FAILED"

\* Spend per day before the action and in a window after it, as spendTotals
\* compares them: "Raw sums would compare a ~30d pre-window against a <=7d
\* post-window".  A pause called a success brought the rate down to a quarter.
PauseMeansQuiet ==
    \A o \in outcomes :
      Verb[o.row] \in Pauses /\ o.verdict = "SUCCESS" =>
        4 * o.after.spend * Days[o.row] <= Before[o.row].spend * o.window

-----------------------------------------------------------------------------
(* What makes the properties inductive. *)

\* An executed row was executed by now, and a row looked at is one read.
ReadInv ==
    /\ \A r \in Rows : status[r] = "EXECUTED" => executedAt[r] \in 0..now
    /\ \A c \in Collectors : pc[c] \in {"insert", "update"} =>
                               /\ pass[c].current \in Snapshots
                               /\ pass[c].verdict \in Verdicts

\* The rows a pass still works with, as it read them.
Held(c) ==
    pass[c].due \cup (IF pc[c] \in {"insert", "update"} THEN {pass[c].current} ELSE {})

\* They are executed and old enough that nobody touches them any more, and due
\* for the window being worked on.
DueInv ==
    \A c \in Collectors :
      /\ pass[c].today <= Day(now)
      /\ \A d \in Held(c) : /\ status[d.id] = "EXECUTED"
                             /\ executedAt[d.id] = d.executedAt
                             /\ d.executedAt < now
      /\ \A w \in Windows, d \in pass[c].due :
           Working(c, w) => 2 * pass[c].today - d.executedAt >= 2 * (w + 1)

\* What a pass is about to store is the figures of the whole window, and what
\* it is about to show is stored.
FindingInv ==
    \A c \in Collectors :
      /\ pc[c] \in {"insert", "update"} =>
           \A w \in Windows :
             Working(c, w) /\ DueWhenOver(pass[c].current.executedAt) =>
               pass[c].after = Insights(history, pass[c].current.id,
                                        Span(pass[c].current.executedAt, w))
      /\ pc[c] = "update" =>
           \E o \in outcomes : o.row = pass[c].current.id /\ o.verdict = pass[c].verdict

\* The unique index, and rows nobody touches any more.
StoredInv ==
    /\ \A o, x \in outcomes : o.row = x.row /\ o.window = x.window => o = x
    /\ \A o \in outcomes : executedAt[o.row] < now
    /\ OnlyExecutedJudged
    /\ WholeWindows
    /\ VerdictBacked

\* Rows that are judged have figures from before, those the pass has read.
FiguresInv ==
    /\ \A c \in Collectors : \A d \in Held(c) : before[d.id] = d.before
    /\ \A o \in outcomes : before[o.row] # None

\* The rows a pass has still to judge by the window it works on.
Unjudged(c) ==
    {d.id : d \in pass[c].due}
      \cup (IF pc[c] = "insert" THEN {pass[c].current.id} ELSE {})

\* A calm pass leaves no row behind: what it does not hold is captured, by this
\* window and by all shorter ones.
PassInv ==
    pc[Home] # "asleep" =>
      /\ \A v \in Windows \ pass[Home].left : Due(v, pass[Home].today) = {}
      /\ \A w \in Windows : Working(Home, w) =>
           /\ pc[Home] # "query" => Due(w, pass[Home].today) \subseteq Unjudged(Home)
           /\ \A r \in Unjudged(Home), v \in Windows : v < w => Captured(r, v)

\* So outcomes of a row are stored from the shortest window to the longest, and
\* the last one stored is the one that counts.
OrderInv ==
    Calm =>
      /\ \A c \in Collectors \ {Home} : pc[c] = "asleep"
      /\ PassInv
      /\ \A o \in outcomes, v \in Windows : v < o.window => Captured(o.row, v)
      /\ pc[Home] = "update" =>
           \A o \in Attributed :
             o.row = pass[Home].current.id => o.verdict = pass[Home].verdict
      /\ \A o \in Attributed : Shows(o)

\* The same of what was stored last, in whatever order of windows.
LatestInv ==
    Undisturbed =>
      /\ \A c \in Collectors \ {Home} : pc[c] = "asleep"
      /\ \A o \in outcomes : o.id < Cardinality(outcomes)
      /\ pc[Home] = "update" =>
           \A o \in Latest : o.row = pass[Home].current.id => o.verdict = pass[Home].verdict
      /\ \A o \in Latest : Shows(o)
===============================================================================
