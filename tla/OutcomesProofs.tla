----------------------------- MODULE OutcomesProofs -----------------------------
(* Proofs about the collector, for any rows, windows, histories and faults. *)
EXTENDS Reports, SumTheorems, TLAPS

\* Every outcome is one of the four verdicts, whatever the figures.
LEMMA VerdictTyped ==
    ASSUME NEW action, NEW b, NEW a, NEW goal
    PROVE  EvaluateAction(action, b, a, goal) \in Verdicts
  BY DEF EvaluateAction, Verdicts, Raised, Cut, Refreshed, Pauses

\* Only one window is worked on at a time.
LEMMA OneWindow ==
    ASSUME TypeOK, NEW c \in Collectors, NEW v \in Windows, NEW w \in Windows,
           Working(c, v), Working(c, w)
    PROVE  v = w
  BY OutcomesAssumption DEF Working, OutcomesAssumption

\* What GoOn leaves behind.
LEMMA GoOnFacts ==
    ASSUME TypeOK, NEW c \in Collectors, NEW w \in Windows, NEW due \in SUBSET Snapshots,
           GoOn(c, w, due)
    PROVE  /\ pc' \in [Collectors -> Positions]
           /\ pass' \in [Collectors -> Passes]
           /\ pc'[c] \notin {"insert", "update"}
           /\ pass'[c].due = due
           /\ pass'[c].today = pass[c].today
           /\ due # {} => pass'[c].left = pass[c].left
           /\ \A e \in Collectors \ {c} : pc'[e] = pc[e] /\ pass'[e] = pass[e]
  <1> DEFINE left == IF due = {} THEN pass[c].left \ {w} ELSE pass[c].left
             place == IF due # {} THEN "fetch" ELSE IF left # {} THEN "query" ELSE "asleep"
             after == [today |-> pass[c].today, left |-> left, due |-> due,
                       current |-> None, after |-> Nothing, verdict |-> NoVerdict]
  <1>1. pc' = [pc EXCEPT ![c] = place] /\ pass' = [pass EXCEPT ![c] = after]
    BY DEF GoOn
  <1>2. pass[c] \in Passes
    BY DEF TypeOK
  <1>3. Nothing \in Metrics
    BY DEF Nothing, Metrics
  <1>4. after \in Passes
    BY <1>2, <1>3 DEF Passes
  <1>5. place \in Positions /\ place \notin {"insert", "update"}
    BY DEF Positions
  <1>6. after.due = due /\ after.today = pass[c].today /\ after.left = left
    OBVIOUS
  <1>7. due # {} => left = pass[c].left
    OBVIOUS
  <1> HIDE DEF left, place, after
  <1> QED BY <1>1, <1>4, <1>5, <1>6, <1>7 DEF TypeOK

\* The set of outcomes stays finite, so that its size can be an id.
FiniteInv == TypeOK /\ ReadInv /\ IsFiniteSet(outcomes)

LEMMA InitTyped == Init => FiniteInv
  <1> SUFFICES ASSUME Init PROVE FiniteInv
    OBVIOUS
  <1>1. Blank \in Passes
    BY OutcomesAssumption DEF Blank, Passes, Nothing, Metrics, Dates, Day, NoVerdict, OutcomesAssumption
  <1>2. 0 \in Time
    BY OutcomesAssumption DEF Time, OutcomesAssumption
  <1>3. IsFiniteSet(outcomes)
    BY FS_EmptySet DEF Init
  <1> QED BY <1>1, <1>2, <1>3 DEF Init, TypeOK, FiniteInv, Positions, Stored, ReadInv

LEMMA KnownTyped ==
    ASSUME TypeOK, NEW r \in Rows, NEW t \in Time, NEW w \in Windows
    PROVE  Insights(history, r, Known(t, w)) \in Metrics
  <1>1. Known(t, w) \in SUBSET Dates
    <2> SUFFICES ASSUME NEW d \in Known(t, w) PROVE d \in Dates
      OBVIOUS
    <2>1. d \in Int /\ d >= 1 /\ d < Day(now)
      <3>1. now \in Nat /\ t \in Nat /\ w \in Nat /\ Lag[history] \in 0..2
        BY OutcomesAssumption DEF TypeOK, Time, OutcomesAssumption
      <3>2. d \in Day(t) + 1 .. Day(t) + w /\ 2 * (d + 1) + Lag[history] <= now
        BY DEF Known, Span
      <3> QED
        BY <3>1, <3>2 DEF Day
    <2>2. Day(now) <= Day(MaxTime) /\ Day(now) \in Int /\ Day(MaxTime) \in Int
      BY OutcomesAssumption DEF TypeOK, Time, Day, OutcomesAssumption
    <2> QED BY <2>1, <2>2 DEF Dates
  <1> QED BY <1>1, OutcomesAssumption DEF TypeOK, OutcomesAssumption

\* The query reads whole rows: what is due has been executed.
LEMMA DueTyped ==
    ASSUME TypeOK, ReadInv, NEW w \in Windows, NEW t \in Dates
    PROVE  {[id |-> r, executedAt |-> executedAt[r], before |-> before[r]] :
              r \in Due(w, t)} \in SUBSET Snapshots
  <1> SUFFICES ASSUME NEW r \in Rows, status[r] = "EXECUTED", before[r] # None
               PROVE  [id |-> r, executedAt |-> executedAt[r], before |-> before[r]]
                        \in Snapshots
    BY DEF Due
  <1>1. executedAt[r] \in 0..now
    BY DEF ReadInv
  <1>2. executedAt[r] \in Time
    BY <1>1, OutcomesAssumption DEF TypeOK, Time, OutcomesAssumption
  <1>3. before[r] \in Metrics
    BY DEF TypeOK
  <1> QED BY <1>2, <1>3 DEF Snapshots

LEMMA StepTyped == FiniteInv /\ [Next]_vars => (TypeOK /\ IsFiniteSet(outcomes))'
  <1> DEFINE Goal == (TypeOK /\ IsFiniteSet(outcomes))'
  <1> SUFFICES ASSUME FiniteInv, [Next]_vars PROVE Goal
    OBVIOUS
  <1> USE DEF FiniteInv
  <1>1. TypeOK /\ IsFiniteSet(outcomes) /\ ReadInv
    OBVIOUS
  <1>2. ASSUME NEW r \in Rows, NEW ending \in {"EXECUTED", "FAILED"}, Execute(r, ending)
        PROVE  Goal
    <2>1. before' \in [Rows -> Metrics \cup {None}]
      BY <1>1, <1>2, OutcomesAssumption DEF Execute, TypeOK, OutcomesAssumption
    <2> QED BY <2>1, <1>1, <1>2 DEF Execute, TypeOK, clock
  <1>3. ASSUME NEW r \in Rows, Overwrite(r) PROVE Goal
    BY <1>1, <1>3 DEF Overwrite, TypeOK, clock
  <1>4. ASSUME NEW r \in Rows, EditGoal(r) PROVE Goal
    BY <1>1, <1>4 DEF EditGoal, TypeOK, clock, executed, TargetChoices
  <1>5. CASE Tick
    <2>1. now' \in Time
      BY <1>1, <1>5, OutcomesAssumption DEF Tick, TypeOK, Time, OutcomesAssumption
    <2> QED BY <2>1, <1>1, <1>5 DEF Tick, TypeOK, executed
  <1>6. ASSUME NEW c \in Collectors, StartPass(c) PROVE Goal
    <2>1. Day(now) \in Dates
      BY <1>1, OutcomesAssumption DEF TypeOK, Time, Dates, Day, OutcomesAssumption
    <2>2. [today |-> Day(now), left |-> Windows, due |-> {}, current |-> None,
           after |-> Nothing, verdict |-> NoVerdict] \in Passes
      BY <2>1 DEF Passes, Nothing, Metrics
    <2>3. pass' \in [Collectors -> Passes]
      BY <1>1, <1>6, <2>2 DEF StartPass, TypeOK
    <2> QED BY <2>3, <1>1, <1>6 DEF StartPass, TypeOK, Positions, executed, clock
  <1>7. ASSUME NEW c \in Collectors, Crash(c) PROVE Goal
    <2>1. Blank \in Passes
      BY OutcomesAssumption DEF Blank, Passes, Nothing, Metrics, Dates, Day, NoVerdict, OutcomesAssumption
    <2> QED BY <2>1, <1>1, <1>7 DEF Crash, TypeOK, Positions, executed, clock
  <1>8. ASSUME NEW c \in Collectors, NEW w \in Windows, Step(c, w) PROVE Goal
    <2>1. pass[c] \in Passes /\ pass[c].due \in SUBSET Snapshots
      BY <1>1 DEF TypeOK, Passes
    <2>2. ASSUME NEW due \in SUBSET Snapshots, GoOn(c, w, due)
          PROVE  pc' \in [Collectors -> Positions] /\ pass' \in [Collectors -> Passes]
      BY <2>2, <1>1, GoOnFacts
    <2>3. CASE DueQuery(c, w)
      <3> DEFINE due == {[id |-> r, executedAt |-> executedAt[r], before |-> before[r]] :
                           r \in Due(w, pass[c].today)}
      <3>1. due \in SUBSET Snapshots
        BY <1>1, <2>1, DueTyped DEF Passes
      <3>2. GoOn(c, w, due)
        BY <2>3 DEF DueQuery
      <3> QED BY <3>1, <3>2, <2>2, <2>3, <1>1 DEF DueQuery, TypeOK, executed, clock
    <2>4. CASE DueQueryFails(c, w)
      <3>1. GoOn(c, w, {})
        BY <2>4 DEF DueQueryFails
      <3> QED BY <3>1, <2>2, <2>4, <1>1 DEF DueQueryFails, TypeOK, executed, clock
    <2>5. ASSUME NEW d \in pass[c].due, Fetch(c, w, d) PROVE Goal
      <3>1. d \in Snapshots
        BY <2>1
      <3>2. Insights(history, d.id, Known(d.executedAt, w)) \in Metrics
        BY <3>1, <1>1, KnownTyped DEF Snapshots
      <3>3. PICK goal : pass' = [pass EXCEPT ![c] =
                    [today |-> @.today, left |-> @.left, due |-> @.due \ {d},
                     current |-> d, after |-> Insights(history, d.id, Known(d.executedAt, w)),
                     verdict |-> EvaluateAction(Verb[d.id], d.before,
                                   Insights(history, d.id, Known(d.executedAt, w)), goal)]]
        BY <2>5 DEF Fetch
      <3>4. EvaluateAction(Verb[d.id], d.before,
                           Insights(history, d.id, Known(d.executedAt, w)), goal) \in Verdicts
        BY VerdictTyped
      <3>5. pass' \in [Collectors -> Passes]
        BY <3>1, <3>2, <3>3, <3>4, <2>1, <1>1 DEF TypeOK, Passes
      <3> QED BY <3>5, <2>5, <1>1 DEF Fetch, TypeOK, Positions, executed, clock
    <2>6. ASSUME NEW d \in pass[c].due, FetchFails(c, w, d) PROVE Goal
      <3>1. GoOn(c, w, pass[c].due \ {d}) /\ pass[c].due \ {d} \in SUBSET Snapshots
        BY <2>1, <2>6 DEF FetchFails
      <3> QED BY <3>1, <2>2, <2>6, <1>1 DEF FetchFails, TypeOK, executed, clock
    <2>7. CASE Insert(c, w)
      <3>1. CASE ~Captured(pass[c].current.id, w) /\ outcomes' = outcomes \cup {Outcome(c, w)}
                 /\ pc' = [pc EXCEPT ![c] = "update"] /\ UNCHANGED pass
        <4>1. pass[c].current \in Snapshots /\ pass[c].verdict \in Verdicts
          BY <2>7, <1>1 DEF Insert, ReadInv
        <4>2. Cardinality(outcomes) \in Nat
          BY <1>1, FS_CardinalityType
        <4>3. Outcome(c, w) \in Stored
          BY <4>1, <4>2, <2>1 DEF Outcome, Stored, Snapshots, Passes
        <4>4. IsFiniteSet(outcomes')
          BY <1>1, <3>1, FS_AddElement
        <4> QED BY <4>3, <4>4, <3>1, <2>7, <1>1 DEF Insert, TypeOK, Positions, executed, clock
      <3>2. CASE GoOn(c, w, pass[c].due) /\ UNCHANGED outcomes
        BY <3>2, <2>1, <2>2, <2>7, <1>1 DEF Insert, TypeOK, executed, clock
      <3> QED BY <3>1, <3>2, <2>7 DEF Insert
    <2>8. CASE InsertFails(c, w)
      <3>1. GoOn(c, w, pass[c].due)
        BY <2>8 DEF InsertFails
      <3> QED BY <3>1, <2>1, <2>2, <2>8, <1>1 DEF InsertFails, TypeOK, executed, clock
    <2>9. CASE UpdateStatus(c, w)
      <3>1. GoOn(c, w, pass[c].due)
        BY <2>9 DEF UpdateStatus
      <3>2. pass[c].current.id \in Rows /\ pass[c].verdict \in Verdicts
        BY <2>9, <1>1 DEF UpdateStatus, ReadInv, Snapshots
      <3>3. outcomeStatus' \in [Rows -> Verdicts \cup {NoVerdict}]
        BY <3>2, <2>9, <1>1 DEF UpdateStatus, TypeOK
      <3> QED BY <3>1, <3>3, <2>1, <2>2, <2>9, <1>1 DEF UpdateStatus, TypeOK, executed, clock
    <2> QED BY <1>8, <2>3, <2>4, <2>5, <2>6, <2>7, <2>8, <2>9 DEF Step
  <1>9. CASE UNCHANGED vars
    BY <1>1, <1>9 DEF vars, executed, clock, TypeOK
  <1> HIDE DEF Goal, FiniteInv
  <1> QED BY <1>2, <1>3, <1>4, <1>5, <1>6, <1>7, <1>8, <1>9 DEF Next
\* Only a step of its own moves a collector.
LEMMA Movers ==
    ASSUME TypeOK, [Next]_vars, NEW c \in Collectors
    PROVE  \/ pc'[c] = pc[c] /\ pass'[c] = pass[c]
           \/ StartPass(c)
           \/ Crash(c)
           \/ \E w \in Windows : Step(c, w)
  <1> DEFINE Goal == \/ pc'[c] = pc[c] /\ pass'[c] = pass[c]
                     \/ StartPass(c) \/ Crash(c) \/ \E w \in Windows : Step(c, w)
  <1> SUFFICES Goal
    OBVIOUS
  <1>1. ASSUME UNCHANGED <<pc, pass>> PROVE Goal
    BY <1>1
  <1>2. ASSUME NEW e \in Collectors, StartPass(e) \/ Crash(e) PROVE Goal
    BY <1>2 DEF StartPass, Crash, TypeOK
  <1>3. ASSUME NEW e \in Collectors, NEW w \in Windows, Step(e, w) PROVE Goal
    <2>1. CASE e = c
      BY <1>3, <2>1
    <2>2. CASE e # c
      <3>1. pc'[c] = pc[c] /\ pass'[c] = pass[c]
        BY <1>3, <2>2 DEF Step, DueQuery, DueQueryFails, Fetch, FetchFails, Insert,
                          InsertFails, UpdateStatus, GoOn, TypeOK
      <3> QED BY <3>1
    <2> QED BY <2>1, <2>2
  <1>4. ASSUME \/ \E r \in Rows, ending \in {"EXECUTED", "FAILED"} : Execute(r, ending)
               \/ \E r \in Rows : Overwrite(r) \/ EditGoal(r)
               \/ Tick
               \/ UNCHANGED vars
        PROVE  UNCHANGED <<pc, pass>>
    BY <1>4 DEF Execute, Overwrite, EditGoal, Tick, vars
  <1> HIDE DEF Goal
  <1> QED BY <1>1, <1>2, <1>3, <1>4 DEF Next

\* A step of a pass is one of three kinds.
LEMMA Kinds ==
    ASSUME FiniteInv, NEW c \in Collectors, NEW w \in Windows, Step(c, w)
    PROVE  \/ \E due \in SUBSET Snapshots :
                /\ GoOn(c, w, due)
                /\ \/ due \subseteq pass[c].due
                   \/ pc[c] = "query"
                      /\ due = {[id |-> r, executedAt |-> executedAt[r],
                                 before |-> before[r]] : r \in Due(w, pass[c].today)}
           \/ \E d \in pass[c].due : Fetch(c, w, d)
           \/ /\ pc[c] = "insert"
              /\ pc' = [pc EXCEPT ![c] = "update"]
              /\ pass' = pass
              /\ outcomes' = outcomes \cup {Outcome(c, w)}
  <1> DEFINE fresh == {[id |-> r, executedAt |-> executedAt[r],
                        before |-> before[r]] : r \in Due(w, pass[c].today)}
  <1>1. pass[c].due \in SUBSET Snapshots
    BY DEF FiniteInv, TypeOK, Passes
  <1>2. fresh \in SUBSET Snapshots
    BY DueTyped DEF FiniteInv, TypeOK, Passes
  <1>3. CASE DueQuery(c, w)
    <2>1. pc[c] = "query" /\ GoOn(c, w, fresh)
      BY <1>3 DEF DueQuery
    <2> QED BY <2>1, <1>2
  <1>4. CASE DueQueryFails(c, w)
    <2>1. GoOn(c, w, {})
      BY <1>4 DEF DueQueryFails
    <2> QED BY <2>1
  <1>5. ASSUME NEW d \in pass[c].due, FetchFails(c, w, d)
        PROVE  GoOn(c, w, pass[c].due \ {d})
    BY <1>5 DEF FetchFails
  <1>6. CASE Insert(c, w)
    <2>1. \/ GoOn(c, w, pass[c].due)
          \/ /\ pc[c] = "insert" /\ pc' = [pc EXCEPT ![c] = "update"] /\ pass' = pass
             /\ outcomes' = outcomes \cup {Outcome(c, w)}
      BY <1>6 DEF Insert
    <2> QED BY <2>1, <1>1
  <1>7. CASE InsertFails(c, w) \/ UpdateStatus(c, w)
    <2>1. GoOn(c, w, pass[c].due)
      BY <1>7 DEF InsertFails, UpdateStatus
    <2> QED BY <2>1, <1>1
  <1>8. ASSUME NEW d \in pass[c].due, FetchFails(c, w, d)
        PROVE  \E due \in SUBSET Snapshots : GoOn(c, w, due) /\ due \subseteq pass[c].due
    BY <1>5, <1>8, <1>1
  <1> HIDE DEF fresh
  <1> QED BY <1>3, <1>4, <1>6, <1>7, <1>8 DEF Step

\* What no step disturbs: the history, outcomes once stored, time, and rows
\* executed before now.
LEMMA Stable ==
    ASSUME FiniteInv, [Next]_vars
    PROVE  /\ history' = history
           /\ outcomes \subseteq outcomes'
           /\ now <= now'
           /\ \A r \in Rows : status[r] = "EXECUTED" /\ executedAt[r] < now =>
                /\ status'[r] = "EXECUTED"
                /\ executedAt'[r] = executedAt[r]
                /\ executedAt'[r] < now'
  <1> DEFINE Kept == /\ history' = history
                     /\ outcomes \subseteq outcomes'
                     /\ now <= now'
                     /\ \A r \in Rows : status[r] = "EXECUTED" /\ executedAt[r] < now =>
                          /\ status'[r] = "EXECUTED"
                          /\ executedAt'[r] = executedAt[r]
                          /\ executedAt'[r] < now'
  <1> SUFFICES Kept
    OBVIOUS
  <1>0. now \in Int /\ \A r \in Rows : executedAt[r] \in Int
    BY OutcomesAssumption DEF FiniteInv, TypeOK, Time, Never, OutcomesAssumption
  <1>1. ASSUME UNCHANGED <<status, executedAt, now, history>>, outcomes \subseteq outcomes'
        PROVE  Kept
    BY <1>0, <1>1
  <1>2. ASSUME NEW r \in Rows, NEW ending \in {"EXECUTED", "FAILED"}, Execute(r, ending)
        PROVE  Kept
    BY <1>2, <1>0 DEF Execute, clock, FiniteInv, TypeOK
  <1>3. ASSUME NEW r \in Rows, Overwrite(r) PROVE Kept
    BY <1>3, <1>0 DEF Overwrite, clock, FiniteInv, TypeOK
  <1>4. CASE Tick
    BY <1>4, <1>0 DEF Tick, executed
  <1>5. ASSUME NEW r \in Rows, EditGoal(r) PROVE Kept
    BY <1>5, <1>1 DEF EditGoal, clock, executed
  <1>6. ASSUME NEW c \in Collectors, StartPass(c) \/ Crash(c) PROVE Kept
    BY <1>6, <1>1 DEF StartPass, Crash, clock, executed
  <1>7. ASSUME NEW c \in Collectors, NEW w \in Windows, Step(c, w) PROVE Kept
    <2>1. UNCHANGED <<status, executedAt, now, history>> /\ outcomes \subseteq outcomes'
      BY <1>7 DEF Step, DueQuery, DueQueryFails, Fetch, FetchFails, Insert, InsertFails,
                  UpdateStatus, clock, executed
    <2> QED BY <2>1, <1>1
  <1>8. CASE UNCHANGED vars
    BY <1>8, <1>1 DEF vars, clock, executed
  <1> HIDE DEF Kept
  <1> QED BY <1>2, <1>3, <1>4, <1>5, <1>6, <1>7, <1>8 DEF Next

LEMMA StepRead == FiniteInv /\ [Next]_vars => ReadInv'
  <1> DEFINE ByNow == \A r \in Rows : status[r] = "EXECUTED" => executedAt[r] \in 0..now
             Looked(c) == pc[c] \in {"insert", "update"} =>
                            /\ pass[c].current \in Snapshots
                            /\ pass[c].verdict \in Verdicts
  <1> SUFFICES ASSUME FiniteInv, [Next]_vars
               PROVE  ByNow' /\ \A c \in Collectors : Looked(c)'
    BY DEF ReadInv
  <1>0. TypeOK /\ ReadInv /\ now \in Nat
    BY OutcomesAssumption DEF FiniteInv, TypeOK, Time, OutcomesAssumption
  <1>1. ByNow'
    <2>1. ASSUME UNCHANGED <<status, executedAt, now>> PROVE ByNow'
      BY <1>0, <2>1 DEF ReadInv
    <2>2. ASSUME NEW r \in Rows, NEW ending \in {"EXECUTED", "FAILED"}, Execute(r, ending)
          PROVE  ByNow'
      BY <2>2, <1>0 DEF Execute, clock, ReadInv, TypeOK
    <2>3. ASSUME NEW r \in Rows, Overwrite(r) PROVE ByNow'
      BY <2>3, <1>0 DEF Overwrite, clock, ReadInv, TypeOK
    <2>4. CASE Tick
      BY <2>4, <1>0 DEF Tick, executed, ReadInv
    <2>5. ASSUME NEW r \in Rows, EditGoal(r) PROVE ByNow'
      BY <2>5, <2>1 DEF EditGoal, clock, executed
    <2>6. ASSUME NEW c \in Collectors, StartPass(c) \/ Crash(c) PROVE ByNow'
      BY <2>6, <2>1 DEF StartPass, Crash, clock, executed
    <2>7. ASSUME NEW c \in Collectors, NEW w \in Windows, Step(c, w) PROVE ByNow'
      BY <2>7, <2>1 DEF Step, DueQuery, DueQueryFails, Fetch, FetchFails, Insert,
                        InsertFails, UpdateStatus, clock, executed
    <2>8. CASE UNCHANGED vars
      BY <2>8, <2>1 DEF vars, clock, executed
    <2> HIDE DEF ByNow
    <2> QED BY <2>2, <2>3, <2>4, <2>5, <2>6, <2>7, <2>8 DEF Next
  <1>2. ASSUME NEW c \in Collectors PROVE Looked(c)'
    <2>1. CASE pc'[c] = pc[c] /\ pass'[c] = pass[c]
      BY <2>1, <1>0 DEF ReadInv
    <2>2. CASE StartPass(c) \/ Crash(c)
      BY <2>2, <1>0 DEF StartPass, Crash, TypeOK
    <2>3. ASSUME NEW w \in Windows, Step(c, w) PROVE Looked(c)'
      <3>1. ASSUME NEW due \in SUBSET Snapshots, GoOn(c, w, due) PROVE Looked(c)'
        BY <3>1, <1>0, GoOnFacts
      <3>2. ASSUME NEW d \in pass[c].due, Fetch(c, w, d) PROVE Looked(c)'
        <4>1. d \in Snapshots
          BY <1>0 DEF TypeOK, Passes
        <4>2. PICK goal : pass'[c] =
                    [today |-> pass[c].today, left |-> pass[c].left,
                     due |-> pass[c].due \ {d}, current |-> d,
                     after |-> Insights(history, d.id, Known(d.executedAt, w)),
                     verdict |-> EvaluateAction(Verb[d.id], d.before,
                                   Insights(history, d.id, Known(d.executedAt, w)), goal)]
          BY <3>2, <1>0 DEF Fetch, TypeOK
        <4> QED BY <4>1, <4>2, VerdictTyped
      <3>3. CASE pc[c] = "insert" /\ pass' = pass
        BY <3>3, <1>0 DEF ReadInv
      <3> HIDE DEF Looked
      <3> QED BY <2>3, <3>1, <3>2, <3>3, Kinds
    <2> HIDE DEF Looked
    <2> QED BY <2>1, <2>2, <2>3, <1>0, Movers
  <1> QED BY <1>1, <1>2

\* What DueInv says of one collector.
Dated(c) == pass[c].today <= Day(now)
Executed(c) == \A d \in Held(c) : /\ status[d.id] = "EXECUTED"
                                  /\ executedAt[d.id] = d.executedAt
                                  /\ d.executedAt < now
Ripe(c) == \A w \in Windows, d \in pass[c].due :
             Working(c, w) => 2 * pass[c].today - d.executedAt >= 2 * (w + 1)

\* Rows held stay executed: nobody touches a row executed before now.
LEMMA StillExecuted ==
    ASSUME FiniteInv, DueInv, [Next]_vars, NEW c \in Collectors,
           NEW d \in Snapshots, d \in Held(c)
    PROVE  /\ status'[d.id] = "EXECUTED"
           /\ executedAt'[d.id] = d.executedAt
           /\ d.executedAt < now'
  <1>1. status[d.id] = "EXECUTED" /\ executedAt[d.id] = d.executedAt /\ d.executedAt < now
    BY DEF DueInv
  <1> QED BY <1>1, Stable DEF Snapshots

LEMMA StepDue == FiniteInv /\ DueInv /\ [Next]_vars => DueInv'
  <1> SUFFICES ASSUME FiniteInv, DueInv, [Next]_vars, NEW c \in Collectors
               PROVE  Dated(c)' /\ Executed(c)' /\ Ripe(c)'
    BY DEF DueInv, Dated, Executed, Ripe
  <1>1. TypeOK /\ ReadInv
    BY DEF FiniteInv
  <1>2. now \in Nat /\ now' \in Nat /\ now <= now'
    BY <1>1, Stable, StepTyped, OutcomesAssumption DEF TypeOK, Time, OutcomesAssumption
  <1>3. Day(now) <= Day(now)' /\ Day(now) \in Int /\ Day(now)' \in Nat
    <2>1. \A m, n \in Nat : m <= n => m \div 2 <= n \div 2 /\ m \div 2 \in Int /\ n \div 2 \in Nat
      OBVIOUS
    <2> QED BY <2>1, <1>2 DEF Day
  <1>4. /\ Dated(c) /\ Executed(c) /\ Ripe(c)
        /\ pass[c] \in Passes /\ pass[c].due \in SUBSET Snapshots
        /\ pass[c].today \in Int
    BY <1>1, OutcomesAssumption
       DEF DueInv, Dated, Executed, Ripe, TypeOK, Passes, Dates, Day, OutcomesAssumption
  <1>5. Held(c) \in SUBSET Snapshots
    BY <1>1, <1>4 DEF Held, ReadInv
  <1>6. \A d \in Held(c) : /\ status'[d.id] = "EXECUTED"
                           /\ executedAt'[d.id] = d.executedAt
                           /\ d.executedAt < now'
    BY <1>5, StillExecuted
  <1>7. CASE pc'[c] = pc[c] /\ pass'[c] = pass[c]
    <2>1. Held(c)' = Held(c)
      BY <1>7 DEF Held
    <2>2. Executed(c)'
      BY <2>1, <1>6 DEF Executed
    <2>3. Dated(c)'
      BY <1>7, <1>3, <1>4 DEF Dated
    <2>4. Ripe(c)'
      BY <1>7, <1>4 DEF Ripe, Working
    <2> QED BY <2>2, <2>3, <2>4
  <1>8. CASE StartPass(c)
    <2>1. /\ pass'[c].due = {} /\ pass'[c].today = Day(now) /\ pc'[c] = "query"
          /\ now' = now
      BY <1>8, <1>1 DEF StartPass, TypeOK, clock
    <2>2. Executed(c)' /\ Ripe(c)'
      BY <2>1 DEF Executed, Held, Ripe
    <2> QED BY <2>1, <2>2, <1>3 DEF Dated
  <1>9. CASE Crash(c)
    <2>1. pass'[c].due = {} /\ pass'[c].today = 0 /\ pc'[c] = "asleep"
      BY <1>9, <1>1 DEF Crash, TypeOK, Blank
    <2>2. Executed(c)' /\ Ripe(c)'
      BY <2>1 DEF Executed, Held, Ripe
    <2> QED BY <2>1, <2>2, <1>3 DEF Dated
  <1>10. ASSUME NEW w \in Windows, Step(c, w) PROVE Dated(c)' /\ Executed(c)' /\ Ripe(c)'
    <2>1. w \in Nat /\ Working(c, w)
      BY <1>10, OutcomesAssumption
         DEF Step, DueQuery, DueQueryFails, Fetch, FetchFails, Insert, InsertFails,
             UpdateStatus, OutcomesAssumption
    <2>2. ASSUME NEW due \in SUBSET Snapshots, GoOn(c, w, due),
                 \A d \in due : /\ status'[d.id] = "EXECUTED"
                                /\ executedAt'[d.id] = d.executedAt
                                /\ d.executedAt < now'
                                /\ 2 * pass[c].today - d.executedAt >= 2 * (w + 1)
          PROVE  Dated(c)' /\ Executed(c)' /\ Ripe(c)'
      <3>1. /\ pc'[c] \notin {"insert", "update"} /\ pass'[c].due = due
            /\ pass'[c].today = pass[c].today
            /\ due # {} => pass'[c].left = pass[c].left
        BY <2>2, <1>1, GoOnFacts
      <3>2. Executed(c)'
        BY <3>1, <2>2 DEF Executed, Held
      <3>3. Dated(c)'
        BY <3>1, <1>3, <1>4 DEF Dated
      <3>4. ASSUME NEW v \in Windows, NEW d \in due, Working(c, v)'
            PROVE  2 * pass'[c].today - d.executedAt >= 2 * (v + 1)
        <4>1. Working(c, v)
          BY <3>1, <3>4 DEF Working
        <4>2. v = w
          BY <4>1, <2>1, <1>1, OneWindow
        <4> QED BY <4>2, <3>1, <2>2
      <3>5. Ripe(c)'
        BY <3>1, <3>4 DEF Ripe
      <3> QED BY <3>2, <3>3, <3>5
    <2>3. ASSUME NEW due \in SUBSET Snapshots, GoOn(c, w, due), due \subseteq pass[c].due
          PROVE  Dated(c)' /\ Executed(c)' /\ Ripe(c)'
      <3>1. due \subseteq Held(c)
        BY <2>3 DEF Held
      <3>2. \A d \in due : 2 * pass[c].today - d.executedAt >= 2 * (w + 1)
        BY <2>3, <2>1, <1>4 DEF Ripe
      <3> QED BY <3>1, <3>2, <1>6, <2>2, <2>3
    <2>4. ASSUME NEW due \in SUBSET Snapshots, GoOn(c, w, due),
                 due = {[id |-> r, executedAt |-> executedAt[r], before |-> before[r]] :
                          r \in Due(w, pass[c].today)}
          PROVE  Dated(c)' /\ Executed(c)' /\ Ripe(c)'
      <3>1. ASSUME NEW r \in Due(w, pass[c].today)
            PROVE  /\ status'[r] = "EXECUTED" /\ executedAt'[r] = executedAt[r]
                   /\ executedAt[r] < now'
                   /\ 2 * pass[c].today - executedAt[r] >= 2 * (w + 1)
        <4>1. r \in Rows /\ status[r] = "EXECUTED" /\ Mature(r, w, pass[c].today)
          BY DEF Due
        <4>2. executedAt[r] \in Int /\ executedAt[r] < now
          BY <4>1, <1>1, <1>2, <1>4, <2>1 DEF Mature, Dated, Day, ReadInv
        <4> QED BY <4>1, <4>2, Stable DEF Mature
      <3>2. \A d \in due : /\ status'[d.id] = "EXECUTED"
                           /\ executedAt'[d.id] = d.executedAt
                           /\ d.executedAt < now'
                           /\ 2 * pass[c].today - d.executedAt >= 2 * (w + 1)
        BY <3>1, <2>4
      <3> QED BY <3>2, <2>2, <2>4
    <2>5. ASSUME NEW d \in pass[c].due, Fetch(c, w, d)
          PROVE  Dated(c)' /\ Executed(c)' /\ Ripe(c)'
      <3>1. /\ pass'[c].due = pass[c].due \ {d} /\ pass'[c].current = d
            /\ pass'[c].today = pass[c].today /\ pass'[c].left = pass[c].left
        BY <2>5, <1>1 DEF Fetch, TypeOK
      <3>2. Held(c)' \subseteq Held(c)
        BY <3>1 DEF Held
      <3>3. Executed(c)'
        BY <3>2, <1>6 DEF Executed
      <3> QED BY <3>1, <3>3, <1>3, <1>4 DEF Dated, Ripe, Working
    <2>6. CASE pc[c] = "insert" /\ pc' = [pc EXCEPT ![c] = "update"] /\ pass' = pass
      <3>1. Held(c)' = Held(c)
        BY <2>6, <1>1 DEF Held, TypeOK
      <3>2. Executed(c)'
        BY <3>1, <1>6 DEF Executed
      <3> QED BY <2>6, <3>2, <1>3, <1>4 DEF Dated, Ripe, Working
    <2> QED BY <1>10, <2>3, <2>4, <2>5, <2>6, Kinds
  <1> QED BY <1>7, <1>8, <1>9, <1>10, <1>1, Movers

\* What FindingInv says of one collector.
Whole(c) == pc[c] \in {"insert", "update"} =>
              \A w \in Windows :
                Working(c, w) /\ DueWhenOver(pass[c].current.executedAt) =>
                  pass[c].after = Insights(history, pass[c].current.id,
                                           Span(pass[c].current.executedAt, w))
Shown(c) == pc[c] = "update" =>
              \E o \in outcomes : /\ o.row = pass[c].current.id
                                  /\ o.verdict = pass[c].verdict

\* When a window is due its days are over: Meta knows all of them, of an account
\* that lags behind too unless the execution was at midnight.
LEMMA WindowOver ==
    ASSUME TypeOK, NEW t \in Time, NEW w \in Nat, NEW today \in Int, DueWhenOver(t),
           today <= Day(now), 2 * today - t >= 2 * (w + 1)
    PROVE  Known(t, w) = Span(t, w)
  <1>1. t \in Nat /\ now \in Nat /\ Lag[history] \in 0..2
    BY OutcomesAssumption DEF TypeOK, Time, OutcomesAssumption
  <1>2. 2 * (Day(t) + w + 1) + Lag[history] <= now /\ Day(t) \in Int
    <2>1. CASE Lag[history] = 0
      BY <1>1, <2>1 DEF Day
    <2>2. CASE t % 2 # 0
      <3>1. t = 2 * (t \div 2) + 1
        BY <1>1, <2>2
      <3> QED
        BY <1>1, <3>1 DEF Day
    <2> QED
      BY <2>1, <2>2 DEF DueWhenOver
  <1>3. \A d \in Span(t, w) : 2 * (d + 1) + Lag[history] <= now
    BY <1>1, <1>2 DEF Span
  <1> QED BY <1>3 DEF Known

LEMMA StepFinding == FiniteInv /\ DueInv /\ FindingInv /\ [Next]_vars => FindingInv'
  <1> SUFFICES ASSUME FiniteInv, DueInv, FindingInv, [Next]_vars, NEW c \in Collectors
               PROVE  Whole(c)' /\ Shown(c)'
    BY DEF FindingInv, Whole, Shown
  <1>1. TypeOK /\ ReadInv
    BY DEF FiniteInv
  <1>2. history' = history /\ outcomes \subseteq outcomes'
    BY Stable
  <1>3. Whole(c) /\ Shown(c)
    BY DEF FindingInv, Whole, Shown
  <1>4. CASE pc'[c] = pc[c] /\ pass'[c] = pass[c]
    <2>1. Whole(c)'
      BY <1>2, <1>3, <1>4 DEF Whole, Working, DueWhenOver
    <2>2. Shown(c)'
      BY <1>2, <1>3, <1>4 DEF Shown
    <2> QED BY <2>1, <2>2
  <1>5. ASSUME pc'[c] \notin {"insert", "update"} PROVE Whole(c)' /\ Shown(c)'
    BY <1>5 DEF Whole, Shown
  <1>6. CASE StartPass(c) \/ Crash(c)
    <2>1. pc'[c] \notin {"insert", "update"}
      BY <1>6, <1>1 DEF StartPass, Crash, TypeOK
    <2> QED BY <2>1, <1>5
  <1>7. ASSUME NEW w \in Windows, Step(c, w) PROVE Whole(c)' /\ Shown(c)'
    <2>1. w \in Nat /\ Working(c, w)
      BY <1>7, OutcomesAssumption
         DEF Step, DueQuery, DueQueryFails, Fetch, FetchFails, Insert, InsertFails,
             UpdateStatus, OutcomesAssumption
    <2>2. ASSUME NEW due \in SUBSET Snapshots, GoOn(c, w, due)
          PROVE  Whole(c)' /\ Shown(c)'
      BY <2>2, <1>1, <1>5, GoOnFacts
    <2>3. ASSUME NEW d \in pass[c].due, Fetch(c, w, d) PROVE Whole(c)' /\ Shown(c)'
      <3>1. /\ pass'[c].current = d /\ pass'[c].left = pass[c].left
            /\ pass'[c].after = Insights(history, d.id, Known(d.executedAt, w))
            /\ pc'[c] = "insert"
        BY <2>3, <1>1 DEF Fetch, TypeOK
      <3>2. d.executedAt \in Time /\ pass[c].today \in Int /\ d \in Snapshots
        BY <1>1, OutcomesAssumption
           DEF TypeOK, Passes, Snapshots, Dates, Day, Time, OutcomesAssumption
      <3>3. pass[c].today <= Day(now) /\ 2 * pass[c].today - d.executedAt >= 2 * (w + 1)
        BY <2>1 DEF DueInv
      <3>4. DueWhenOver(d.executedAt) => Known(d.executedAt, w) = Span(d.executedAt, w)
        BY <3>2, <3>3, <2>1, <1>1, WindowOver
      <3>5. DueWhenOver(d.executedAt)'
              => pass'[c].after = Insights(history', d.id, Span(d.executedAt, w))
        BY <3>1, <3>4, <1>2 DEF DueWhenOver
      <3>6. ASSUME NEW v \in Windows, Working(c, v)' PROVE v = w
        <4>1. Working(c, v)
          BY <3>6, <3>1 DEF Working
        <4> QED BY <4>1, <2>1, <1>1, OneWindow
      <3>7. Whole(c)'
        BY <3>1, <3>5, <3>6 DEF Whole, DueWhenOver
      <3>8. Shown(c)'
        BY <3>1 DEF Shown
      <3> QED BY <3>7, <3>8
    <2>4. CASE /\ pc[c] = "insert" /\ pc' = [pc EXCEPT ![c] = "update"] /\ pass' = pass
               /\ outcomes' = outcomes \cup {Outcome(c, w)}
      <3>1. Outcome(c, w).row = pass[c].current.id /\ Outcome(c, w).verdict = pass[c].verdict
        BY DEF Outcome
      <3>2. Shown(c)'
        BY <2>4, <3>1 DEF Shown
      <3>3. Whole(c)'
        BY <2>4, <1>2, <1>3 DEF Whole, Working, DueWhenOver
      <3> QED BY <3>2, <3>3
    <2> QED BY <1>7, <2>2, <2>3, <2>4, Kinds
  <1> QED BY <1>4, <1>6, <1>7, <1>1, Movers

\* Outcomes and verdicts change in two places only.
LEMMA Writers ==
    ASSUME [Next]_vars
    PROVE  \/ UNCHANGED <<outcomes, outcomeStatus>>
           \/ \E c \in Collectors, w \in Windows :
                /\ pc[c] = "insert" /\ Working(c, w)
                /\ ~Captured(pass[c].current.id, w)
                /\ outcomes' = outcomes \cup {Outcome(c, w)}
                /\ outcomeStatus' = outcomeStatus
           \/ \E c \in Collectors :
                /\ pc[c] = "update"
                /\ outcomeStatus' = [outcomeStatus EXCEPT ![pass[c].current.id] = pass[c].verdict]
                /\ outcomes' = outcomes
  <1> DEFINE Added == \E c \in Collectors, w \in Windows :
                        /\ pc[c] = "insert" /\ Working(c, w)
                        /\ ~Captured(pass[c].current.id, w)
                        /\ outcomes' = outcomes \cup {Outcome(c, w)}
                        /\ outcomeStatus' = outcomeStatus
             Judged == \E c \in Collectors :
                         /\ pc[c] = "update"
                         /\ outcomeStatus' = [outcomeStatus EXCEPT ![pass[c].current.id] =
                                                pass[c].verdict]
                         /\ outcomes' = outcomes
             Neither == UNCHANGED <<outcomes, outcomeStatus>>
  <1> SUFFICES Neither \/ Added \/ Judged
    OBVIOUS
  <1>1. ASSUME NEW c \in Collectors, NEW w \in Windows, Insert(c, w) PROVE Neither \/ Added
    BY <1>1 DEF Insert
  <1>2. ASSUME NEW c \in Collectors, NEW w \in Windows, UpdateStatus(c, w)
        PROVE  Neither \/ Judged
    BY <1>2 DEF UpdateStatus
  <1>3. ASSUME NEW c \in Collectors, NEW w \in Windows,
               \/ DueQuery(c, w) \/ DueQueryFails(c, w) \/ InsertFails(c, w)
               \/ \E d \in pass[c].due : Fetch(c, w, d) \/ FetchFails(c, w, d)
        PROVE  Neither
    BY <1>3 DEF DueQuery, DueQueryFails, InsertFails, Fetch, FetchFails
  <1>4. CASE \/ \E r \in Rows, ending \in {"EXECUTED", "FAILED"} : Execute(r, ending)
             \/ \E r \in Rows : Overwrite(r) \/ EditGoal(r)
             \/ Tick
             \/ \E c \in Collectors : StartPass(c) \/ Crash(c)
             \/ UNCHANGED vars
    BY <1>4 DEF Execute, Overwrite, EditGoal, Tick, StartPass, Crash, vars
  <1> HIDE DEF Added, Judged, Neither
  <1> QED BY <1>1, <1>2, <1>3, <1>4 DEF Next, Step

LEMMA StepStored ==
    FiniteInv /\ DueInv /\ FindingInv /\ StoredInv /\ [Next]_vars => StoredInv'
  <1> DEFINE Unique == \A o, x \in outcomes : o.row = x.row /\ o.window = x.window => o = x
             Past == \A o \in outcomes : executedAt[o.row] < now
  <1> SUFFICES ASSUME FiniteInv, DueInv, FindingInv, StoredInv, [Next]_vars
               PROVE  Unique' /\ Past' /\ OnlyExecutedJudged' /\ WholeWindows' /\ VerdictBacked'
    BY DEF StoredInv
  <1>1. TypeOK /\ ReadInv /\ history' = history
    BY Stable DEF FiniteInv
  <1>2. Unique /\ Past /\ OnlyExecutedJudged /\ WholeWindows /\ VerdictBacked
    BY DEF StoredInv
  <1>3. ASSUME NEW o \in outcomes PROVE status'[o.row] = "EXECUTED" /\ executedAt'[o.row] < now'
    <2>1. o.row \in Rows
      BY <1>1 DEF TypeOK, Stored
    <2> QED BY <2>1, <1>2, Stable DEF OnlyExecutedJudged
  <1>4. CASE UNCHANGED <<outcomes, outcomeStatus>>
    <2>1. Unique' /\ VerdictBacked'
      BY <1>2, <1>4 DEF VerdictBacked
    <2>2. Past' /\ OnlyExecutedJudged'
      BY <1>3, <1>4 DEF OnlyExecutedJudged
    <2>3. WholeWindows'
      BY <1>1, <1>2, <1>4 DEF WholeWindows, DueWhenOver
    <2> QED BY <2>1, <2>2, <2>3
  <1>5. ASSUME NEW c \in Collectors, NEW w \in Windows,
               pc[c] = "insert", Working(c, w), ~Captured(pass[c].current.id, w),
               outcomes' = outcomes \cup {Outcome(c, w)}, outcomeStatus' = outcomeStatus
        PROVE  Unique' /\ Past' /\ OnlyExecutedJudged' /\ WholeWindows' /\ VerdictBacked'
    <2> DEFINE new == Outcome(c, w)
               d == pass[c].current
    <2>1. /\ new.row = d.id /\ new.window = w /\ new.since = d.executedAt
          /\ new.after = pass[c].after
      BY DEF Outcome
    <2>2. d \in Snapshots /\ d \in Held(c)
      BY <1>5, <1>1 DEF ReadInv, Held
    <2>3. d.id \in Rows /\ status'[d.id] = "EXECUTED" /\ executedAt'[d.id] < now'
      <3>1. status'[d.id] = "EXECUTED" /\ executedAt'[d.id] = d.executedAt /\ d.executedAt < now'
        BY <2>2, StillExecuted
      <3> QED BY <3>1, <2>2 DEF Snapshots
    <2>4. DueWhenOver(new.since)
            => new.after = Insights(history, new.row, Span(new.since, new.window))
      BY <1>5, <2>1 DEF FindingInv
    <2>5. \A x \in outcomes : ~(x.row = new.row /\ x.window = new.window)
      BY <1>5, <2>1 DEF Captured
    <2> HIDE DEF new
    <2>6. outcomes' = outcomes \cup {new}
      BY <1>5 DEF new
    <2>7. Unique'
      BY <2>5, <2>6, <1>2
    <2>8. Past' /\ OnlyExecutedJudged'
      BY <2>1, <2>3, <2>6, <1>3 DEF OnlyExecutedJudged
    <2>9. WholeWindows'
      BY <2>4, <2>6, <1>1, <1>2 DEF WholeWindows, DueWhenOver
    <2>10. VerdictBacked'
      BY <2>6, <1>2, <1>5 DEF VerdictBacked
    <2> QED BY <2>7, <2>8, <2>9, <2>10
  <1>6. ASSUME NEW c \in Collectors, pc[c] = "update", outcomes' = outcomes,
               outcomeStatus' = [outcomeStatus EXCEPT ![pass[c].current.id] = pass[c].verdict]
        PROVE  Unique' /\ Past' /\ OnlyExecutedJudged' /\ WholeWindows' /\ VerdictBacked'
    <2>1. \E o \in outcomes : o.row = pass[c].current.id /\ o.verdict = pass[c].verdict
      BY <1>6 DEF FindingInv
    <2>2. VerdictBacked'
      BY <2>1, <1>1, <1>2, <1>6 DEF VerdictBacked, TypeOK
    <2>3. Unique' /\ Past' /\ OnlyExecutedJudged'
      BY <1>2, <1>3, <1>6 DEF OnlyExecutedJudged
    <2>4. WholeWindows'
      BY <1>1, <1>2, <1>6 DEF WholeWindows, DueWhenOver
    <2> QED BY <2>2, <2>3, <2>4
  <1> QED BY <1>4, <1>5, <1>6, Writers

CollectorInv == FiniteInv /\ DueInv /\ FindingInv /\ StoredInv

LEMMA InitInv == Init => CollectorInv
  <1> SUFFICES ASSUME Init PROVE DueInv /\ FindingInv /\ StoredInv
    BY InitTyped DEF CollectorInv
  <1>1. \A c \in Collectors : pc[c] = "asleep" /\ pass[c].due = {} /\ pass[c].today = 0
    BY DEF Init, Blank
  <1>2. DueInv
    BY <1>1 DEF DueInv, Held, Init, Day
  <1>3. FindingInv
    BY <1>1 DEF FindingInv
  <1>4. StoredInv
    BY DEF StoredInv, OnlyExecutedJudged, WholeWindows, VerdictBacked, Init
  <1> QED BY <1>2, <1>3, <1>4

LEMMA StepInv == CollectorInv /\ [Next]_vars => CollectorInv'
  <1> SUFFICES ASSUME CollectorInv, [Next]_vars PROVE CollectorInv'
    OBVIOUS
  <1>1. FiniteInv'
    BY StepTyped, StepRead DEF CollectorInv, FiniteInv
  <1>2. DueInv' /\ FindingInv' /\ StoredInv'
    BY StepDue, StepFinding, StepStored DEF CollectorInv
  <1> QED BY <1>1, <1>2 DEF CollectorInv

LEMMA Invariant == Spec => []CollectorInv
  BY InitInv, StepInv, PTL DEF Spec
-----------------------------------------------------------------------------
(* The running verdict of one process that nothing disturbs. *)

Lone == \A c \in Collectors \ {Home} : pc[c] = "asleep"
Closed == \A o \in outcomes, v \in Windows : v < o.window => Captured(o.row, v)
Last == pc[Home] = "update" =>
          \A o \in Attributed :
            o.row = pass[Home].current.id => o.verdict = pass[Home].verdict
Told == \A o \in Attributed :
          \/ outcomeStatus[o.row] = o.verdict
          \/ \E c \in Collectors :
               /\ pc[c] = "update" /\ pass[c].current.id = o.row
               /\ pass[c].verdict = o.verdict
CalmInv == Lone /\ PassInv /\ Closed /\ Last /\ Told

LEMMA OrderIsCalm == OrderInv <=> (Calm => CalmInv)
  BY DEF OrderInv, CalmInv, Lone, Closed, Last, Told, Shows

LEMMA HomeCollects == Home \in Collectors
  BY OutcomesAssumption DEF Home, OutcomesAssumption

\* Nothing becomes due for a day that is over: what is executed now is too young.
LEMMA NoNewDue ==
    ASSUME CollectorInv, [Next]_vars, NEW v \in Windows,
           NEW today \in Int, today <= Day(now)
    PROVE  Due(v, today)' \subseteq Due(v, today)
  <1> DEFINE Goal == Due(v, today)' \subseteq Due(v, today)
  <1> SUFFICES Goal
    OBVIOUS
  <1>0. /\ TypeOK /\ now \in Nat /\ v \in Nat \ {0}
        /\ outcomes \subseteq outcomes'
    BY Stable, OutcomesAssumption
       DEF CollectorInv, FiniteInv, TypeOK, Time, OutcomesAssumption
  <1>1. ASSUME UNCHANGED <<status, executedAt, before>> PROVE Goal
    BY <1>0, <1>1 DEF Due, Mature, Captured
  <1>2. ASSUME NEW r \in Rows, NEW ending \in {"EXECUTED", "FAILED"}, Execute(r, ending)
        PROVE  Goal
    <2>1. executedAt' = [executedAt EXCEPT ![r] = now] /\ r \notin Due(v, today)
      BY <1>2 DEF Execute, Due
    <2>2. executedAt'[r] = now
      BY <2>1, <1>0 DEF TypeOK
    <2>3. ~(2 * today - now >= 2 * (v + 1))
      BY <1>0 DEF Day
    <2>4. r \notin Due(v, today)'
      BY <2>2, <2>3 DEF Due, Mature
    <2>5. \A q \in Rows \ {r} : /\ status'[q] = status[q] /\ before'[q] = before[q]
                                /\ executedAt'[q] = executedAt[q]
      BY <1>2, <1>0 DEF Execute, TypeOK
    <2> QED BY <2>4, <2>5, <1>0 DEF Due, Mature, Captured
  <1>3. ASSUME NEW r \in Rows, Overwrite(r) PROVE Goal
    <2>1. /\ status' = [status EXCEPT ![r] = "FAILED"]
          /\ executedAt' = executedAt /\ before' = before
      BY <1>3 DEF Overwrite
    <2>2. \A q \in Rows : status'[q] = "EXECUTED" => status[q] = "EXECUTED"
      BY <2>1, <1>0 DEF TypeOK
    <2> QED BY <2>1, <2>2, <1>0 DEF Due, Mature, Captured
  <1>4. ASSUME \/ Tick \/ UNCHANGED vars
               \/ \E r \in Rows : EditGoal(r)
               \/ \E c \in Collectors : StartPass(c) \/ Crash(c)
        PROVE  Goal
    <2>1. UNCHANGED <<status, executedAt, before>>
      BY <1>4 DEF Tick, vars, executed, EditGoal, StartPass, Crash
    <2> QED BY <2>1, <1>1
  <1>5. ASSUME NEW c \in Collectors, NEW w \in Windows, Step(c, w) PROVE Goal
    <2>1. UNCHANGED <<status, executedAt, before>>
      BY <1>5 DEF executed, Step, DueQuery, DueQueryFails, Fetch, FetchFails, Insert,
                  InsertFails, UpdateStatus
    <2> QED BY <2>1, <1>1
  <1>6. \/ \E r \in Rows, ending \in {"EXECUTED", "FAILED"} : Execute(r, ending)
        \/ \E r \in Rows : Overwrite(r) \/ EditGoal(r)
        \/ Tick \/ UNCHANGED vars
        \/ \E c \in Collectors : StartPass(c) \/ Crash(c) \/ \E w \in Windows : Step(c, w)
    BY DEF Next
  <1> HIDE DEF Goal
  <1> QED BY <1>2, <1>3, <1>4, <1>5, <1>6

\* The reports count what they have counted, until something longer is stored.
LEMMA StillAttributed ==
    ASSUME CollectorInv, [Next]_vars, outcomes' = outcomes
    PROVE  Attributed' = Attributed
  <1>1. CollectorInv'
    BY StepInv
  <1> QED BY <1>1 DEF CollectorInv, StoredInv, OnlyExecutedJudged, Attributed

\* The steps there are when one process collects and nothing fails.
LEMMA CalmSteps ==
    ASSUME CollectorInv, Calm, Lone, [Next]_vars
    PROVE  \/ UNCHANGED <<pc, pass, outcomes, outcomeStatus>>
           \/ StartPass(Home)
           \/ \E w \in Windows :
                /\ Working(Home, w)
                /\ \/ DueQuery(Home, w)
                   \/ \E d \in pass[Home].due : Fetch(Home, w, d)
                   \/ Insert(Home, w)
                   \/ /\ pc[Home] = "update"
                      /\ outcomeStatus' = [outcomeStatus EXCEPT ![pass[Home].current.id] =
                                             pass[Home].verdict]
                      /\ GoOn(Home, w, pass[Home].due)
                      /\ outcomes' = outcomes
  <1> DEFINE Pass(w) == /\ Working(Home, w)
                        /\ \/ DueQuery(Home, w)
                           \/ \E d \in pass[Home].due : Fetch(Home, w, d)
                           \/ Insert(Home, w)
                           \/ /\ pc[Home] = "update"
                              /\ outcomeStatus' = [outcomeStatus EXCEPT ![pass[Home].current.id] =
                                                     pass[Home].verdict]
                              /\ GoOn(Home, w, pass[Home].due)
                              /\ outcomes' = outcomes
             Goal == \/ UNCHANGED <<pc, pass, outcomes, outcomeStatus>>
                     \/ StartPass(Home)
                     \/ \E w \in Windows : Pass(w)
  <1> SUFFICES Goal
    OBVIOUS
  <1>1. /\ ~Fault("processes") /\ ~Fault("crash")
        /\ ~Fault("meta_error") /\ ~Fault("db_error")
    BY DEF Calm, Only, Fault
  <1>2. ASSUME NEW c \in Collectors, NEW w \in Windows, Step(c, w) PROVE Goal
    <2>0. pc[c] # "asleep"
      BY <1>2 DEF Step, DueQuery, DueQueryFails, Fetch, FetchFails, Insert,
                  InsertFails, UpdateStatus
    <2>1. c = Home
      BY <2>0 DEF Lone
    <2>2. ~DueQueryFails(c, w) /\ ~InsertFails(c, w)
          /\ \A d \in pass[c].due : ~FetchFails(c, w, d)
      BY <1>1 DEF DueQueryFails, InsertFails, FetchFails
    <2>3. UpdateStatus(c, w) =>
            /\ pc[c] = "update"
            /\ outcomeStatus' = [outcomeStatus EXCEPT ![pass[c].current.id] = pass[c].verdict]
            /\ GoOn(c, w, pass[c].due)
            /\ outcomes' = outcomes
      BY <1>1 DEF UpdateStatus
    <2>4. Working(c, w)
      BY <1>2 DEF Step, DueQuery, DueQueryFails, Fetch, FetchFails, Insert,
                  InsertFails, UpdateStatus
    <2>5. Pass(w)
      BY <1>2, <2>1, <2>2, <2>3, <2>4 DEF Step
    <2> QED BY <2>5
  <1>3. ASSUME NEW c \in Collectors, StartPass(c) \/ Crash(c) PROVE Goal
    BY <1>1, <1>3 DEF StartPass, Crash
  <1>4. CASE \/ \E r \in Rows, ending \in {"EXECUTED", "FAILED"} : Execute(r, ending)
             \/ \E r \in Rows : Overwrite(r) \/ EditGoal(r)
             \/ Tick
             \/ UNCHANGED vars
    BY <1>4 DEF Execute, Overwrite, EditGoal, Tick, vars
  <1> HIDE DEF Goal
  <1> QED BY <1>2, <1>3, <1>4 DEF Next

\* The last outcome of a row is shown whenever no verdict is on its way.
LEMMA ShownAtRest ==
    ASSUME Lone, Told, NEW o \in Attributed,
           pc[Home] = "update" => pass[Home].current.id # o.row
    PROVE  outcomeStatus[o.row] = o.verdict
  BY DEF Lone, Told

\* Going on with the rows left over leaves no row behind.
LEMMA PassGoesOn ==
    ASSUME TypeOK, Lone, NEW w \in Windows, NEW due \in SUBSET Snapshots,
           NEW today, today = pass[Home].today,
           Working(Home, w), GoOn(Home, w, due), PassInv, pc[Home] # "asleep",
           \A v \in Windows : Due(v, today)' \subseteq Due(v, today),
           Due(w, today)' \subseteq {d.id : d \in due},
           \A d \in due, v \in Windows : v < w => Captured(d.id, v)'
    PROVE  Lone' /\ PassInv'
  <1> DEFINE P == pass[Home]
             left == IF due = {} THEN P.left \ {w} ELSE P.left
  <1>1. /\ pc'[Home] \notin {"insert", "update"}
        /\ pass'[Home].due = due /\ pass'[Home].today = today
        /\ \A e \in Collectors \ {Home} : pc'[e] = pc[e]
    BY HomeCollects, GoOnFacts
  <1>2. /\ pass'[Home].left = left
        /\ pc'[Home] = IF due # {} THEN "fetch" ELSE IF left # {} THEN "query" ELSE "asleep"
    BY HomeCollects DEF GoOn, TypeOK
  <1>3. Lone'
    BY <1>1 DEF Lone
  <1>4. Unjudged(Home)' = {d.id : d \in due}
    BY <1>1 DEF Unjudged
  <1>5. \A v \in Windows \ P.left : Due(v, today) = {}
    BY DEF PassInv
  <1>6. \A v \in Windows \ left : Due(v, today)' = {}
    <2>1. due = {} => Due(w, today)' = {}
      OBVIOUS
    <2> QED BY <2>1, <1>5
  <1>7. \A v \in Windows \ pass'[Home].left : Due(v, pass[Home].today)' = {}
    BY <1>1, <1>2, <1>6
  <1>8. ASSUME NEW x \in Windows, Working(Home, x)'
        PROVE  /\ pc'[Home] # "query" => Due(x, pass[Home].today)' \subseteq Unjudged(Home)'
               /\ \A r \in Unjudged(Home)', v \in Windows : v < x => Captured(r, v)'
    <2>1. CASE due = {}
      <3>1. pc'[Home] = "query" \/ x \notin pass'[Home].left
        BY <1>2, <2>1
      <3> QED BY <3>1, <2>1, <1>4, <1>8 DEF Working
    <2>2. CASE due # {}
      <3>1. Working(Home, x)
        BY <1>2, <1>8, <2>2 DEF Working
      <3>2. x = w
        BY <3>1, HomeCollects, OneWindow
      <3>3. Due(x, pass[Home].today)' = Due(w, today)'
        BY <3>2, <1>1
      <3> QED BY <3>2, <3>3, <1>4
    <2> QED BY <2>1, <2>2
  <1>9. PassInv'
    BY <1>7, <1>8 DEF PassInv
  <1> QED BY <1>3, <1>9

\* One process and no failures: the verdicts come in the order of the windows.
LEMMA CalmStep ==
    ASSUME CollectorInv, Calm, CalmInv, [Next]_vars
    PROVE  CalmInv'
  <1> DEFINE P == pass[Home]
  <1> PICK today : today = pass[Home].today
    OBVIOUS
  <1>1. /\ TypeOK /\ FiniteInv /\ CollectorInv' /\ Home \in Collectors
        /\ P \in Passes /\ today \in Int /\ today <= Day(now)
        /\ P.due \in SUBSET Snapshots
    BY HomeCollects, StepInv, OutcomesAssumption
       DEF CollectorInv, FiniteInv, TypeOK, DueInv, Passes, Dates, Day, OutcomesAssumption
  <1>2. Lone /\ PassInv /\ Closed /\ Last /\ Told
    BY DEF CalmInv
  <1>3. \A r, v : Captured(r, v) => Captured(r, v)'
    BY <1>1, Stable DEF Captured
  <1>4. \A v \in Windows : Due(v, today)' \subseteq Due(v, today)
    BY <1>1, NoNewDue
  <1>5. Windows \subseteq Int
    BY OutcomesAssumption DEF OutcomesAssumption
  <1>6. ASSUME outcomes' = outcomes PROVE Closed' /\ Attributed' = Attributed
    BY <1>6, <1>2, StillAttributed DEF Closed, Captured
  <1>7. ASSUME outcomes' = outcomes, outcomeStatus' = outcomeStatus,
               pc[Home] # "update", pc'[Home] # "update"
        PROVE  Last' /\ Told'
    <2>1. \A o \in Attributed : outcomeStatus[o.row] = o.verdict
      BY <1>7, <1>2, ShownAtRest
    <2> QED BY <2>1, <1>6, <1>7 DEF Last, Told
  <1>8. CASE UNCHANGED <<pc, pass, outcomes, outcomeStatus>>
    <2>1. Lone' /\ Closed' /\ Last' /\ Told'
      BY <1>2, <1>6, <1>8 DEF Lone, Last, Told
    <2>2. Unjudged(Home)' = Unjudged(Home)
      BY <1>8 DEF Unjudged
    <2>3. \A v \in Windows : Due(v, pass[Home].today)' \subseteq Due(v, pass[Home].today)
      BY <1>4, <1>8 DEF Due, Mature
    <2>4. \A w \in Windows : Working(Home, w)' => Working(Home, w)
      BY <1>8 DEF Working
    <2>5. PassInv'
      BY <1>2, <1>3, <1>8, <2>2, <2>3, <2>4 DEF PassInv
    <2> QED BY <2>1, <2>5 DEF CalmInv
  <1>9. CASE StartPass(Home)
    <2>1. /\ pc[Home] = "asleep" /\ pc'[Home] = "query"
          /\ \A c \in Collectors \ {Home} : pc'[c] = pc[c]
          /\ pass'[Home].left = Windows /\ pass'[Home].due = {}
          /\ outcomes' = outcomes /\ outcomeStatus' = outcomeStatus
      BY <1>9, <1>1 DEF StartPass, TypeOK
    <2>2. Lone' /\ Closed' /\ Last' /\ Told'
      BY <2>1, <1>2, <1>6, <1>7 DEF Lone
    <2>3. Unjudged(Home)' = {}
      BY <2>1 DEF Unjudged
    <2>4. PassInv'
      BY <2>1, <2>3 DEF PassInv
    <2> QED BY <2>2, <2>4 DEF CalmInv
  <1>10. ASSUME NEW w \in Windows, Working(Home, w), DueQuery(Home, w) PROVE CalmInv'
    <2> DEFINE due == {[id |-> r, executedAt |-> executedAt[r], before |-> before[r]] :
                         r \in Due(w, today)}
    <2>1. /\ pc[Home] = "query" /\ GoOn(Home, w, due)
          /\ outcomes' = outcomes /\ outcomeStatus' = outcomeStatus
      BY <1>10 DEF DueQuery
    <2>2. due \in SUBSET Snapshots
      BY <1>1, DueTyped DEF FiniteInv, TypeOK, Passes
    <2>3. {d.id : d \in due} = Due(w, today)
      <3>1. \A r : [id |-> r, executedAt |-> executedAt[r], before |-> before[r]].id = r
        OBVIOUS
      <3> QED BY <3>1
    <2>4. ASSUME NEW r \in Due(w, today), NEW v \in Windows, v < w PROVE Captured(r, v)
      <3>1. Due(v, today) = {}
        <4>1. v \notin P.left
          BY <1>5, <1>10, <2>4 DEF Working
        <4> QED BY <4>1, <1>2, <2>1 DEF PassInv
      <3>2. r \in Rows /\ executedAt[r] \in Int
        BY <1>1, OutcomesAssumption
           DEF Due, TypeOK, Time, Never, OutcomesAssumption
      <3>3. Mature(r, v, today)
        BY <3>2, <1>1, <1>5, <2>4 DEF Due, Mature
      <3> QED BY <3>1, <3>2, <3>3 DEF Due
    <2>5. \A d \in due, v \in Windows : v < w => Captured(d.id, v)'
      BY <2>3, <2>4, <1>3
    <2>6. Due(w, today)' \subseteq {d.id : d \in due}
      BY <2>3, <1>4
    <2>7. pc'[Home] # "update"
      BY <2>1, <2>2, <1>1, GoOnFacts
    <2> HIDE DEF due
    <2>8. Lone' /\ PassInv'
      BY <1>1, <1>2, <1>4, <1>10, <2>1, <2>2, <2>5, <2>6, PassGoesOn
    <2> QED BY <2>1, <2>7, <2>8, <1>6, <1>7 DEF CalmInv
  <1>11. ASSUME NEW w \in Windows, Working(Home, w), NEW d \in P.due, Fetch(Home, w, d)
         PROVE  CalmInv'
    <2>1. /\ pc[Home] = "fetch" /\ pc'[Home] = "insert"
          /\ \A c \in Collectors \ {Home} : pc'[c] = pc[c]
          /\ pass'[Home].left = P.left /\ pass'[Home].today = today
          /\ pass'[Home].due = P.due \ {d} /\ pass'[Home].current = d
          /\ outcomes' = outcomes /\ outcomeStatus' = outcomeStatus
      BY <1>11, <1>1 DEF Fetch, TypeOK
    <2>2. Lone' /\ Closed' /\ Last' /\ Told'
      BY <2>1, <1>2, <1>6, <1>7 DEF Lone
    <2>3. Unjudged(Home)' = Unjudged(Home)
      BY <2>1 DEF Unjudged
    <2>4. \A v \in Windows : Due(v, pass[Home].today)' \subseteq Due(v, today)
      BY <1>4, <2>1 DEF Due, Mature
    <2>5. \A v \in Windows : Working(Home, v)' => Working(Home, v)
      BY <2>1 DEF Working
    <2>6. PassInv'
      BY <1>2, <1>3, <2>1, <2>3, <2>4, <2>5 DEF PassInv
    <2> QED BY <2>2, <2>6 DEF CalmInv
  <1>12. ASSUME NEW w \in Windows, Working(Home, w), pc[Home] = "insert",
                ~Captured(P.current.id, w),
                outcomes' = outcomes \cup {Outcome(Home, w)},
                pc' = [pc EXCEPT ![Home] = "update"], UNCHANGED <<pass, outcomeStatus>>
         PROVE  CalmInv'
    <2> DEFINE new == Outcome(Home, w)
               row == P.current.id
    <2>1. /\ new.row = row /\ new.window = w /\ new.verdict = P.verdict
      BY DEF Outcome
    <2>2. /\ pc'[Home] = "update" /\ \A c \in Collectors \ {Home} : pc'[c] = pc[c]
      BY <1>12, <1>1 DEF TypeOK
    <2>3. row \in Unjudged(Home)
      BY <1>12 DEF Unjudged
    <2>4. \A v \in Windows : v < w => Captured(row, v)
      BY <2>3, <1>2, <1>12 DEF PassInv
    <2> HIDE DEF new
    <2>5. outcomes' = outcomes \cup {new}
      BY <1>12 DEF new
    <2>6. Captured(row, w)'
      BY <2>1, <2>5, <1>12 DEF Captured
    <2>7. Closed'
      BY <2>1, <2>4, <2>5, <1>2, <1>3 DEF Closed
    <2>8. Lone'
      BY <2>2, <1>2 DEF Lone
    <2>9. PassInv'
      <3>1. Unjudged(Home)' = {d.id : d \in P.due}
        BY <2>2, <1>12 DEF Unjudged
      <3>2. Unjudged(Home)' \subseteq Unjudged(Home)
            /\ Unjudged(Home) \subseteq Unjudged(Home)' \cup {row}
        BY <3>1, <1>12 DEF Unjudged
      <3>3. row \notin Due(w, pass[Home].today)'
        BY <2>6, <1>12 DEF Due
      <3>4. \A v \in Windows : Due(v, pass[Home].today)' \subseteq Due(v, today)
        BY <1>4, <1>12 DEF Due, Mature
      <3>5. ASSUME NEW v \in Windows, Working(Home, v)' PROVE v = w
        <4>1. Working(Home, v)
          BY <3>5, <1>12 DEF Working
        <4> QED BY <4>1, <1>1, <1>12, OneWindow
      <3>6. Due(w, today) \subseteq Unjudged(Home)
        BY <1>2, <1>12 DEF PassInv
      <3>7. Due(w, pass[Home].today)' \subseteq Unjudged(Home)'
        BY <3>2, <3>3, <3>4, <3>6
      <3>8. \A r \in Unjudged(Home)', v \in Windows : v < w => Captured(r, v)'
        BY <3>2, <1>2, <1>3, <1>12 DEF PassInv
      <3>9. \A v \in Windows \ pass'[Home].left : Due(v, pass[Home].today)' = {}
        BY <3>4, <1>2, <1>12 DEF PassInv
      <3> QED BY <3>5, <3>7, <3>8, <3>9 DEF PassInv
    <2>10. \A o \in Attributed' : o.row = row => o = new
      <3> SUFFICES ASSUME NEW o \in Attributed', o.row = row, o # new PROVE FALSE
        OBVIOUS
      <3>1. o \in outcomes /\ w <= o.window
        BY <2>1, <2>5 DEF Attributed
      <3>2. o.window # w
        BY <3>1, <1>12 DEF Captured
      <3>3. o.window \in Int
        BY <3>1, <1>1, <1>5 DEF TypeOK, Stored
      <3>4. Captured(row, w)
        BY <3>1, <3>2, <3>3, <1>2, <1>5 DEF Closed
      <3> QED BY <3>4, <1>12
    <2>11. Last'
      BY <2>10, <2>1, <1>12 DEF Last
    <2>12. Told'
      <3> SUFFICES ASSUME NEW o \in Attributed', o.row # row
                   PROVE  outcomeStatus'[o.row] = o.verdict
        BY <2>1, <2>2, <2>10, <1>1, <1>12 DEF Told
      <3>1. o \in outcomes /\ o.row \in Rows
        BY <2>1, <2>5, <1>1 DEF Attributed, TypeOK, Stored
      <3>2. o \in Attributed
        BY <3>1, <2>5, <1>1 DEF Attributed, CollectorInv, StoredInv, OnlyExecutedJudged
      <3> QED BY <3>2, <1>2, <1>12, ShownAtRest
    <2> QED BY <2>7, <2>8, <2>9, <2>11, <2>12 DEF CalmInv
  <1>13. ASSUME NEW w \in Windows, Working(Home, w), GoOn(Home, w, P.due),
                outcomes' = outcomes,
                \/ pc[Home] = "insert" /\ Captured(P.current.id, w)
                \/ pc[Home] = "update"
         PROVE  Lone' /\ PassInv' /\ Closed' /\ pc'[Home] # "update"
    <2>1. {d.id : d \in P.due} \subseteq Unjudged(Home)
      BY DEF Unjudged
    <2>2. Due(w, today) \subseteq Unjudged(Home)
      BY <1>2, <1>13 DEF PassInv
    <2>3. pc[Home] = "insert" => P.current.id \notin Due(w, today)
      BY <1>13 DEF Due
    <2>4. Due(w, today)' \subseteq {d.id : d \in P.due}
      BY <2>2, <2>3, <1>4 DEF Unjudged
    <2>5. \A d \in P.due, v \in Windows : v < w => Captured(d.id, v)'
      BY <2>1, <1>2, <1>3, <1>13 DEF PassInv
    <2>6. Lone' /\ PassInv'
      BY <1>1, <1>2, <1>4, <1>13, <2>4, <2>5, PassGoesOn
    <2>7. pc'[Home] # "update"
      BY <1>1, <1>13, GoOnFacts
    <2> QED BY <2>6, <2>7, <1>6, <1>13
  <1>14. ASSUME NEW w \in Windows, Working(Home, w), pc[Home] = "insert",
                Captured(P.current.id, w), GoOn(Home, w, P.due),
                UNCHANGED <<outcomes, outcomeStatus>>
         PROVE  CalmInv'
    BY <1>7, <1>13, <1>14 DEF CalmInv
  <1>15. ASSUME NEW w \in Windows, Working(Home, w), pc[Home] = "update",
                outcomeStatus' = [outcomeStatus EXCEPT ![P.current.id] = P.verdict],
                GoOn(Home, w, P.due), outcomes' = outcomes
         PROVE  CalmInv'
    <2>1. Lone' /\ PassInv' /\ Closed' /\ pc'[Home] # "update"
      BY <1>13, <1>15
    <2>2. Last'
      BY <2>1 DEF Last
    <2>3. ASSUME NEW o \in Attributed PROVE outcomeStatus'[o.row] = o.verdict
      <3>1. o.row \in Rows
        BY <1>1 DEF Attributed, TypeOK, Stored
      <3>2. CASE o.row = P.current.id
        BY <3>1, <3>2, <1>1, <1>2, <1>15 DEF Last, TypeOK
      <3>3. CASE o.row # P.current.id
        <4>1. outcomeStatus[o.row] = o.verdict
          BY <3>3, <1>2, ShownAtRest
        <4> QED BY <4>1, <3>1, <3>3, <1>1, <1>15 DEF TypeOK
      <3> QED BY <3>2, <3>3
    <2>4. Told'
      BY <2>3, <1>6, <1>15 DEF Told
    <2> QED BY <2>1, <2>2, <2>4 DEF CalmInv
  <1>16. ASSUME NEW w \in Windows, Working(Home, w), Insert(Home, w) PROVE CalmInv'
    BY <1>12, <1>14, <1>16 DEF Insert
  <1> QED BY <1>2, <1>8, <1>9, <1>10, <1>11, <1>15, <1>16, CalmSteps

\* The faults of a behaviour are chosen once.
LEMMA FaultsStay == [Next]_vars => faults' = faults
  <1>1. ASSUME NEW c \in Collectors, NEW w \in Windows, Step(c, w) PROVE faults' = faults
    BY <1>1 DEF Step, DueQuery, DueQueryFails, Fetch, FetchFails, Insert, InsertFails,
                UpdateStatus, clock
  <1>2. ASSUME \/ \E r \in Rows, ending \in {"EXECUTED", "FAILED"} : Execute(r, ending)
               \/ \E r \in Rows : Overwrite(r) \/ EditGoal(r)
               \/ Tick \/ UNCHANGED vars
               \/ \E c \in Collectors : StartPass(c) \/ Crash(c)
        PROVE  faults' = faults
    BY <1>2 DEF Execute, Overwrite, EditGoal, Tick, StartPass, Crash, vars, clock
  <1> QED BY <1>1, <1>2 DEF Next

LEMMA OrderInit == Init => OrderInv
  <1> SUFFICES ASSUME Init PROVE CalmInv
    BY OrderIsCalm
  <1>1. /\ \A c \in Collectors : pc[c] = "asleep"
        /\ outcomes = {} /\ Attributed = {}
    BY DEF Init, Attributed
  <1> QED BY <1>1, HomeCollects DEF CalmInv, Lone, PassInv, Closed, Last, Told

LEMMA OrderStep == CollectorInv /\ OrderInv /\ [Next]_vars => OrderInv'
  <1> SUFFICES ASSUME CollectorInv, OrderInv, [Next]_vars, Calm' PROVE OrderInv'
    BY OrderIsCalm DEF OrderInv
  <1>1. Calm
    BY FaultsStay DEF Calm, Only
  <1>2. CalmInv'
    BY <1>1, OrderIsCalm, CalmStep
  <1> QED BY <1>2, OrderIsCalm DEF CalmInv, OrderInv, Lone, Closed, Last, Told, Shows

-----------------------------------------------------------------------------
(* What was stored last, also when Meta does not answer. *)

LateLast == pc[Home] = "update" =>
              \A o \in Latest :
                o.row = pass[Home].current.id => o.verdict = pass[Home].verdict
LateInv == /\ Lone /\ LateLast
           /\ \A o \in outcomes : o.id < Cardinality(outcomes)
           /\ \A o \in Latest : Shows(o)

LEMMA LatestIsLate == LatestInv <=> (Undisturbed => LateInv)
  BY DEF LatestInv, LateInv, Lone, LateLast

\* The steps there are when one process collects and the database answers.
LEMMA UndisturbedSteps ==
    ASSUME CollectorInv, Undisturbed, Lone, [Next]_vars
    PROVE  /\ Lone'
           /\ \/ UNCHANGED <<pc, pass, outcomes, outcomeStatus>>
              \/ /\ pc[Home] # "update" /\ pc'[Home] # "update"
                 /\ UNCHANGED <<outcomes, outcomeStatus>>
              \/ \E w \in Windows :
                   /\ pc[Home] = "insert" /\ pc'[Home] = "update" /\ pass' = pass
                   /\ outcomes' = outcomes \cup {Outcome(Home, w)}
                   /\ outcomeStatus' = outcomeStatus
              \/ /\ pc[Home] = "update" /\ pc'[Home] # "update" /\ outcomes' = outcomes
                 /\ outcomeStatus' = [outcomeStatus EXCEPT ![pass[Home].current.id] =
                                        pass[Home].verdict]
  <1> DEFINE Still == UNCHANGED <<pc, pass, outcomes, outcomeStatus>>
             Quiet == /\ pc[Home] # "update" /\ pc'[Home] # "update"
                      /\ UNCHANGED <<outcomes, outcomeStatus>>
             Stores == \E w \in Windows :
                         /\ pc[Home] = "insert" /\ pc'[Home] = "update" /\ pass' = pass
                         /\ outcomes' = outcomes \cup {Outcome(Home, w)}
                         /\ outcomeStatus' = outcomeStatus
             Tells == /\ pc[Home] = "update" /\ pc'[Home] # "update" /\ outcomes' = outcomes
                      /\ outcomeStatus' = [outcomeStatus EXCEPT ![pass[Home].current.id] =
                                             pass[Home].verdict]
             Goal == Lone' /\ (Still \/ Quiet \/ Stores \/ Tells)
  <1> SUFFICES Goal
    OBVIOUS
  <1>0. /\ TypeOK /\ Home \in Collectors /\ pc \in [Collectors -> Positions]
        /\ pass[Home].due \in SUBSET Snapshots
    BY HomeCollects DEF CollectorInv, FiniteInv, TypeOK, Passes
  <1>1. ~Fault("processes") /\ ~Fault("crash") /\ ~Fault("db_error")
    BY DEF Undisturbed, Only, Fault
  <1>2. ASSUME NEW c \in Collectors, NEW w \in Windows, Step(c, w) PROVE Goal
    <2>1. c = Home
      <3>1. pc[c] # "asleep"
        BY <1>2 DEF Step, DueQuery, DueQueryFails, Fetch, FetchFails, Insert,
                    InsertFails, UpdateStatus
      <3> QED BY <3>1 DEF Lone
    <2>2. ASSUME NEW due \in SUBSET Snapshots, GoOn(Home, w, due)
          PROVE  Lone' /\ pc'[Home] # "update"
      BY <2>2, <1>0, GoOnFacts DEF Lone
    <2>3. ASSUME DueQuery(Home, w) PROVE Goal
      <3> DEFINE due == {[id |-> r, executedAt |-> executedAt[r], before |-> before[r]] :
                           r \in Due(w, pass[Home].today)}
      <3>1. due \in SUBSET Snapshots
        BY <1>0, DueTyped DEF CollectorInv, FiniteInv, TypeOK, Passes
      <3>2. /\ pc[Home] = "query" /\ GoOn(Home, w, due)
            /\ UNCHANGED <<outcomes, outcomeStatus>>
        BY <2>3 DEF DueQuery
      <3> HIDE DEF due
      <3> QED BY <3>1, <3>2, <2>2
    <2>4. ASSUME NEW d \in pass[Home].due, Fetch(Home, w, d) PROVE Goal
      BY <2>4, <1>0 DEF Fetch, Lone
    <2>5. ASSUME NEW d \in pass[Home].due, FetchFails(Home, w, d) PROVE Goal
      <3>1. pass[Home].due \ {d} \in SUBSET Snapshots
        BY <1>0
      <3>2. /\ pc[Home] = "fetch" /\ GoOn(Home, w, pass[Home].due \ {d})
            /\ UNCHANGED <<outcomes, outcomeStatus>>
        BY <2>5 DEF FetchFails
      <3> QED BY <3>1, <3>2, <2>2
    <2>6. ASSUME Insert(Home, w) PROVE Goal
      <3>1. pc[Home] = "insert" /\ outcomeStatus' = outcomeStatus
        BY <2>6 DEF Insert
      <3>2. CASE /\ outcomes' = outcomes \cup {Outcome(Home, w)}
                 /\ pc' = [pc EXCEPT ![Home] = "update"] /\ pass' = pass
        BY <3>1, <3>2, <1>0 DEF Lone
      <3>3. CASE GoOn(Home, w, pass[Home].due) /\ outcomes' = outcomes
        BY <3>1, <3>3, <1>0, <2>2
      <3> QED BY <3>2, <3>3, <2>6 DEF Insert
    <2>7. ASSUME UpdateStatus(Home, w) PROVE Goal
      <3>1. /\ pc[Home] = "update" /\ GoOn(Home, w, pass[Home].due) /\ outcomes' = outcomes
            /\ outcomeStatus' = [outcomeStatus EXCEPT ![pass[Home].current.id] =
                                   pass[Home].verdict]
        BY <2>7, <1>1 DEF UpdateStatus
      <3> QED BY <3>1, <1>0, <2>2
    <2>8. ~DueQueryFails(Home, w) /\ ~InsertFails(Home, w)
      BY <1>1 DEF DueQueryFails, InsertFails
    <2> HIDE DEF Goal
    <2> QED BY <1>2, <2>1, <2>3, <2>4, <2>5, <2>6, <2>7, <2>8 DEF Step
  <1>3. ASSUME NEW c \in Collectors, StartPass(c) \/ Crash(c) PROVE Goal
    <2>1. c = Home /\ StartPass(Home)
      BY <1>1, <1>3 DEF StartPass, Crash
    <2> QED BY <2>1, <1>0 DEF StartPass, Lone
  <1>4. CASE \/ \E r \in Rows, ending \in {"EXECUTED", "FAILED"} : Execute(r, ending)
             \/ \E r \in Rows : Overwrite(r) \/ EditGoal(r)
             \/ Tick
             \/ UNCHANGED vars
    <2>1. Still
      BY <1>4 DEF Execute, Overwrite, EditGoal, Tick, vars
    <2> QED BY <2>1 DEF Lone
  <1> HIDE DEF Goal
  <1> QED BY <1>2, <1>3, <1>4 DEF Next

LEMMA LateStep ==
    ASSUME CollectorInv, Undisturbed, LateInv, [Next]_vars
    PROVE  LateInv'
  <1> DEFINE Ids == \A o \in outcomes : o.id < Cardinality(outcomes)
             LateTold == \A o \in Latest : Shows(o)
  <1>1. /\ TypeOK /\ IsFiniteSet(outcomes) /\ Home \in Collectors
        /\ \A o \in outcomes : o.row \in Rows /\ o.id \in Nat
        /\ outcomeStatus \in [Rows -> Verdicts \cup {NoVerdict}]
    BY HomeCollects DEF CollectorInv, FiniteInv, TypeOK, Stored
  <1>2. Lone /\ LateLast /\ Ids /\ LateTold
    BY DEF LateInv
  <1>3. Lone'
    BY <1>2, UndisturbedSteps
  <1>4. ASSUME NEW o \in Latest, pc[Home] = "update" => pass[Home].current.id # o.row
        PROVE  outcomeStatus[o.row] = o.verdict
    BY <1>2, <1>4 DEF Lone, Shows
  <1>5. ASSUME outcomes' = outcomes PROVE Ids' /\ Latest' = Latest
    BY <1>2, <1>5 DEF Latest
  <1>6. CASE UNCHANGED <<pc, pass, outcomes, outcomeStatus>>
    <2>1. LateLast' /\ LateTold'
      BY <1>2, <1>5, <1>6 DEF LateLast, Shows
    <2> QED BY <2>1, <1>3, <1>5, <1>6 DEF LateInv
  <1>7. CASE /\ pc[Home] # "update" /\ pc'[Home] # "update"
             /\ UNCHANGED <<outcomes, outcomeStatus>>
    <2>1. LateTold'
      BY <1>4, <1>5, <1>7 DEF Shows
    <2> QED BY <2>1, <1>3, <1>5, <1>7 DEF LateInv, LateLast
  <1>8. ASSUME NEW w \in Windows, pc[Home] = "insert", pc'[Home] = "update", pass' = pass,
               outcomes' = outcomes \cup {Outcome(Home, w)}, outcomeStatus' = outcomeStatus
        PROVE  LateInv'
    <2> DEFINE new == Outcome(Home, w)
               row == pass[Home].current.id
               n == Cardinality(outcomes)
    <2>1. new.row = row /\ new.verdict = pass[Home].verdict /\ new.id = n
      BY DEF Outcome
    <2>2. n \in Nat /\ \A o \in outcomes : o.id < n
      BY <1>1, <1>2, FS_CardinalityType
    <2>3. new \notin outcomes
      BY <2>1, <2>2
    <2> HIDE DEF new
    <2>4. outcomes' = outcomes \cup {new}
      BY <1>8 DEF new
    <2>5. Cardinality(outcomes') = n + 1
      BY <2>3, <2>4, <1>1, FS_AddElement
    <2> HIDE DEF n
    <2>6. Ids'
      BY <2>1, <2>2, <2>4, <2>5, <1>1
    <2>7. ASSUME NEW o \in Latest', o # new PROVE o \in Latest /\ o.row # row
      <3>1. o \in outcomes /\ (\A x \in outcomes : x.row = o.row => x.id <= o.id)
        BY <2>4, <2>7 DEF Latest
      <3>2. new.row = o.row => new.id <= o.id
        BY <2>4, <2>7 DEF Latest
      <3>3. o.row # row
        BY <3>1, <3>2, <2>1, <2>2, <1>1
      <3> QED BY <3>1, <3>3 DEF Latest
    <2>8. LateLast'
      BY <2>1, <2>7, <1>8 DEF LateLast
    <2>9. ASSUME NEW o \in Latest' PROVE Shows(o)'
      <3>1. CASE o = new
        BY <3>1, <2>1, <1>1, <1>8 DEF Shows
      <3>2. CASE o # new
        BY <3>2, <2>7, <1>4, <1>8 DEF Shows
      <3> QED BY <3>1, <3>2
    <2> QED BY <2>6, <2>8, <2>9, <1>3 DEF LateInv
  <1>9. CASE /\ pc[Home] = "update" /\ pc'[Home] # "update" /\ outcomes' = outcomes
             /\ outcomeStatus' = [outcomeStatus EXCEPT ![pass[Home].current.id] =
                                    pass[Home].verdict]
    <2>1. ASSUME NEW o \in Latest PROVE outcomeStatus'[o.row] = o.verdict
      <3>1. o.row \in Rows
        BY <1>1 DEF Latest
      <3>2. CASE o.row = pass[Home].current.id
        BY <3>1, <3>2, <1>1, <1>2, <1>9 DEF LateLast
      <3>3. CASE o.row # pass[Home].current.id
        <4>1. outcomeStatus[o.row] = o.verdict
          BY <3>3, <1>4
        <4> QED BY <4>1, <3>1, <3>3, <1>1, <1>9
      <3> QED BY <3>2, <3>3
    <2>2. LateTold'
      BY <2>1, <1>5, <1>9 DEF Shows
    <2> QED BY <2>2, <1>3, <1>5, <1>9 DEF LateInv, LateLast
  <1> QED BY <1>2, <1>6, <1>7, <1>8, <1>9, UndisturbedSteps

LEMMA LatestInit == Init => LatestInv
  <1> SUFFICES ASSUME Init PROVE LateInv
    BY LatestIsLate
  <1>1. (\A c \in Collectors : pc[c] = "asleep") /\ outcomes = {} /\ Latest = {}
    BY DEF Init, Latest
  <1> QED BY <1>1, HomeCollects DEF LateInv, Lone, LateLast

LEMMA LatestStep == CollectorInv /\ LatestInv /\ [Next]_vars => LatestInv'
  <1> SUFFICES ASSUME CollectorInv, LatestInv, [Next]_vars, Undisturbed' PROVE LateInv'
    BY DEF LatestInv, LateInv, Lone, LateLast
  <1>1. Undisturbed
    BY FaultsStay DEF Undisturbed, Only
  <1> QED BY <1>1, LatestIsLate, LateStep

-----------------------------------------------------------------------------
(* The figures the reports compare are there. *)

\* Figures from before are captured when a row is executed, and never again.
LEMMA BeforeKept ==
    ASSUME TypeOK, [Next]_vars, NEW r \in Rows, status[r] = "EXECUTED"
    PROVE  before'[r] = before[r]
  <1>1. ASSUME NEW s \in Rows, NEW ending \in {"EXECUTED", "FAILED"}, Execute(s, ending)
        PROVE  before'[r] = before[r]
    BY <1>1 DEF Execute, TypeOK
  <1>2. CASE UNCHANGED before
    BY <1>2
  <1>3. ASSUME \/ \E s \in Rows : Overwrite(s) \/ EditGoal(s)
               \/ Tick \/ UNCHANGED vars
               \/ \E c \in Collectors : StartPass(c) \/ Crash(c)
        PROVE  UNCHANGED before
    BY <1>3 DEF Overwrite, EditGoal, Tick, StartPass, Crash, vars, executed
  <1>4. ASSUME NEW c \in Collectors, NEW w \in Windows, Step(c, w)
        PROVE  UNCHANGED before
    BY <1>4 DEF Step, DueQuery, DueQueryFails, Fetch, FetchFails, Insert, InsertFails,
                UpdateStatus, executed
  <1> QED
    BY <1>1, <1>2, <1>3, <1>4 DEF Next

\* A pass only ever takes up rows it has just read.
LEMMA TakenUp ==
    ASSUME FiniteInv, [Next]_vars, NEW c \in Collectors, NEW d \in Held(c)'
    PROVE  \/ d \in Held(c)
           \/ /\ d.id \in Rows /\ status[d.id] = "EXECUTED"
              /\ before[d.id] = d.before
  <1> DEFINE Fresh == /\ d.id \in Rows /\ status[d.id] = "EXECUTED"
                      /\ before[d.id] = d.before
  <1> SUFFICES d \in Held(c) \/ Fresh
    OBVIOUS
  <1>1. TypeOK
    BY DEF FiniteInv
  <1>2. CASE pc'[c] = pc[c] /\ pass'[c] = pass[c]
    BY <1>2 DEF Held
  <1>3. CASE StartPass(c) \/ Crash(c)
    <2>1. pass'[c].due = {} /\ pc'[c] \notin {"insert", "update"}
      BY <1>1, <1>3 DEF StartPass, Crash, TypeOK, Blank
    <2> QED
      BY <2>1 DEF Held
  <1>4. ASSUME NEW w \in Windows, Step(c, w) PROVE d \in Held(c) \/ Fresh
    <2>1. ASSUME NEW due \in SUBSET Snapshots, GoOn(c, w, due) PROVE d \in due
      <3>1. pc'[c] \notin {"insert", "update"} /\ pass'[c].due = due
        BY <1>1, <2>1, GoOnFacts
      <3> QED
        BY <3>1 DEF Held
    <2>2. ASSUME NEW due \in SUBSET Snapshots, GoOn(c, w, due), due \subseteq pass[c].due
          PROVE  d \in Held(c)
      BY <2>1, <2>2 DEF Held
    <2>3. ASSUME NEW due \in SUBSET Snapshots, GoOn(c, w, due),
                 due = {[id |-> r, executedAt |-> executedAt[r], before |-> before[r]] :
                          r \in Due(w, pass[c].today)}
          PROVE  Fresh
      <3>1. PICK r \in Due(w, pass[c].today) :
              d = [id |-> r, executedAt |-> executedAt[r], before |-> before[r]]
        BY <2>1, <2>3
      <3> QED
        BY <3>1 DEF Due
    <2>4. ASSUME NEW e \in pass[c].due, Fetch(c, w, e) PROVE d \in Held(c)
      <3>1. pass'[c].due = pass[c].due \ {e} /\ pass'[c].current = e
        BY <2>4, <1>1 DEF Fetch, TypeOK
      <3> QED
        BY <3>1 DEF Held
    <2>5. CASE pc[c] = "insert" /\ pc' = [pc EXCEPT ![c] = "update"] /\ pass' = pass
      BY <2>5, <1>1 DEF Held, TypeOK
    <2> HIDE DEF Fresh
    <2> QED
      BY <1>4, <2>2, <2>3, <2>4, <2>5, Kinds
  <1> HIDE DEF Fresh
  <1> QED
    BY <1>1, <1>2, <1>3, <1>4, Movers

LEMMA FiguresStep == CollectorInv /\ FiguresInv /\ [Next]_vars => FiguresInv'
  <1> SUFFICES ASSUME CollectorInv, FiguresInv, [Next]_vars
               PROVE  /\ \A c \in Collectors : \A d \in Held(c)' : before'[d.id] = d.before
                      /\ \A o \in outcomes' : before'[o.row] # None
    BY DEF FiguresInv
  <1>1. FiniteInv /\ TypeOK /\ DueInv /\ ReadInv /\ OnlyExecutedJudged
    BY DEF CollectorInv, FiniteInv, StoredInv
  <1>2. ASSUME NEW c \in Collectors, NEW d \in Held(c)
        PROVE  d.id \in Rows /\ d.before # None /\ before'[d.id] = d.before
    <2>1. d \in Snapshots
      BY <1>1 DEF Held, ReadInv, TypeOK, Passes
    <2>2. d.id \in Rows /\ d.before \in Metrics
      BY <2>1 DEF Snapshots
    <2>3. status[d.id] = "EXECUTED" /\ before[d.id] = d.before
      BY <1>1 DEF DueInv, FiguresInv
    <2> QED
      BY <2>2, <2>3, <1>1, BeforeKept, OutcomesAssumption DEF OutcomesAssumption
  <1>3. ASSUME NEW c \in Collectors, NEW d \in Held(c)' PROVE before'[d.id] = d.before
    <2>1. CASE d \in Held(c)
      BY <1>2, <2>1
    <2>2. CASE d.id \in Rows /\ status[d.id] = "EXECUTED" /\ before[d.id] = d.before
      BY <1>1, <2>2, BeforeKept
    <2> QED
      BY <1>1, <2>1, <2>2, TakenUp
  <1>4. ASSUME NEW o \in outcomes PROVE before'[o.row] # None
    <2>1. o.row \in Rows /\ status[o.row] = "EXECUTED" /\ before[o.row] # None
      BY <1>1 DEF TypeOK, Stored, OnlyExecutedJudged, FiguresInv
    <2> QED
      BY <1>1, <2>1, BeforeKept
  <1>5. ASSUME NEW c \in Collectors, NEW w \in Windows, pc[c] = "insert"
        PROVE  before'[Outcome(c, w).row] # None
    <2>1. pass[c].current \in Held(c)
      BY <1>5 DEF Held
    <2> QED
      BY <1>2, <2>1 DEF Outcome
  <1>6. ASSUME NEW o \in outcomes' PROVE before'[o.row] # None
    BY <1>4, <1>5, Writers
  <1> QED
    BY <1>3, <1>6

LEMMA Figures == Spec => []FiguresInv
  <1>1. Init => FiguresInv
    BY DEF Init, FiguresInv, Held, Blank
  <1> QED
    BY <1>1, FiguresStep, Invariant, PTL DEF Spec

-----------------------------------------------------------------------------
(* Sums of fractions, as the reports take them. *)

Fractions == Int \X (Nat \ {0})

\* What the totals over the subsets of S satisfy.
Totals(f, S, g) ==
    g = [s \in SUBSET S |->
           IF s = {} THEN <<0, 1>> ELSE Plus(f[Picked(s)], g[s \ {Picked(s)}])]

TotalsOver(f, S) == CHOOSE g : Totals(f, S, g)

LEMMA TotalIsLast ==
    ASSUME NEW f
    PROVE  Total(f) = TotalsOver(f, DOMAIN f)[DOMAIN f]
  BY DEF Total, FoldFunction, FoldFunctionOnSet, MapThenFoldSet, TotalsOver, Totals, Picked

\* They are the same wherever they are taken.
LEMMA TotalsAgree ==
    ASSUME NEW f, NEW S, NEW U \in SUBSET S, IsFiniteSet(U),
           NEW g, NEW h, Totals(f, S, g), Totals(f, U, h)
    PROVE  \A u \in SUBSET U : g[u] = h[u]
  <1> DEFINE Good == {u \in SUBSET U : g[u] = h[u]}
  <1>1. ASSUME NEW T \in SUBSET U, \A V \in SUBSET T : V # T => V \in Good
        PROVE  T \in Good
    <2>1. g[T] = IF T = {} THEN <<0, 1>> ELSE Plus(f[Picked(T)], g[T \ {Picked(T)}])
      BY DEF Totals
    <2>2. h[T] = IF T = {} THEN <<0, 1>> ELSE Plus(f[Picked(T)], h[T \ {Picked(T)}])
      BY DEF Totals
    <2>3. T # {} => g[T \ {Picked(T)}] = h[T \ {Picked(T)}]
      BY <1>1, PickedIn
    <2> QED
      BY <2>1, <2>2, <2>3
  <1> HIDE DEF Good
  <1>2. \A T \in SUBSET U : T \in Good
    BY <1>1, SubsetInduction
  <1> QED
    BY <1>2 DEF Good

\* They exist over finite sets.
LEMMA TotalsExist ==
    ASSUME NEW f, NEW S, IsFiniteSet(S)
    PROVE  \A T \in SUBSET S : Totals(f, T, TotalsOver(f, T))
  <1> DEFINE Good == {T \in SUBSET S : Totals(f, T, TotalsOver(f, T))}
  <1>1. ASSUME NEW T \in SUBSET S, \A U \in SUBSET T : U # T => U \in Good
        PROVE  T \in Good
    <2> DEFINE of(s) == TotalsOver(f, s)[s]
               G == [s \in SUBSET T |->
                       IF s # T THEN of(s)
                       ELSE IF T = {} THEN <<0, 1>> ELSE Plus(f[Picked(T)], of(T \ {Picked(T)}))]
    <2>1. ASSUME NEW s \in SUBSET T
          PROVE  G[s] = IF s = {} THEN <<0, 1>> ELSE Plus(f[Picked(s)], G[s \ {Picked(s)}])
      <3>1. CASE s = T
        <4>1. T # {} => T \ {Picked(T)} # T
          BY PickedIn
        <4> QED
          BY <3>1, <4>1
      <3>2. CASE s # T /\ s = {}
        <4>1. Totals(f, s, TotalsOver(f, s))
          BY <1>1, <3>2
        <4>2. of(s) = <<0, 1>>
          BY <4>1, <3>2 DEF Totals
        <4> QED
          BY <3>2, <4>2
      <3>3. CASE s # T /\ s # {}
        <4> DEFINE rest == s \ {Picked(s)}
        <4>1. rest \in SUBSET s /\ rest # T /\ s \in SUBSET S /\ rest \in SUBSET T
          BY <3>3, PickedIn
        <4>2. Totals(f, s, TotalsOver(f, s)) /\ Totals(f, rest, TotalsOver(f, rest))
          BY <1>1, <3>3, <4>1
        <4>3. of(s) = Plus(f[Picked(s)], TotalsOver(f, s)[rest])
          BY <4>2, <3>3 DEF Totals
        <4>4. IsFiniteSet(rest)
          BY <4>1, FS_Subset
        <4>5. TotalsOver(f, s)[rest] = of(rest)
          <5>1. rest \in SUBSET rest
            OBVIOUS
          <5> HIDE DEF rest
          <5> QED
            BY <4>1, <4>2, <4>4, <5>1, TotalsAgree
        <4> QED
          BY <3>3, <4>1, <4>3, <4>5
      <3> QED
        BY <3>1, <3>2, <3>3
    <2>2. Totals(f, T, G)
      <3>1. G = [s \in SUBSET T |-> G[s]]
        OBVIOUS
      <3> HIDE DEF G
      <3> QED
        BY <2>1, <3>1 DEF Totals
    <2> HIDE DEF G
    <2>3. Totals(f, T, TotalsOver(f, T))
      BY <2>2 DEF TotalsOver
    <2> QED
      BY <2>3
  <1> HIDE DEF Good
  <1>2. \A T \in SUBSET S : T \in Good
    BY <1>1, SubsetInduction
  <1> QED
    BY <1>2 DEF Good

\* The sum of two fractions is one.
LEMMA PlusTyped ==
    ASSUME NEW p \in Fractions, NEW q \in Fractions
    PROVE  Plus(p, q) \in Fractions
  <1>1. p[1] \in Int /\ q[1] \in Int /\ p[2] \in Nat \ {0} /\ q[2] \in Nat \ {0}
    BY DEF Fractions
  <1>2. p[1] * q[2] + q[1] * p[2] \in Int
    BY <1>1
  <1>3. p[2] * q[2] \in Nat \ {0}
    BY <1>1
  <1> QED
    BY <1>2, <1>3 DEF Plus, Fractions

\* So is the sum of any finite number of them.
LEMMA TotalTyped ==
    ASSUME NEW f, IsFiniteSet(DOMAIN f), \A x \in DOMAIN f : f[x] \in Fractions
    PROVE  Total(f) \in Fractions
  <1> DEFINE S == DOMAIN f
             g == TotalsOver(f, S)
             Good == {T \in SUBSET S : g[T] \in Fractions}
  <1>1. Totals(f, S, g)
    BY TotalsExist
  <1> HIDE DEF g
  <1>2. <<0, 1>> \in Fractions
    BY DEF Fractions
  <1>3. ASSUME NEW T \in SUBSET S, \A U \in SUBSET T : U # T => U \in Good
        PROVE  T \in Good
    <2>1. g[T] = IF T = {} THEN <<0, 1>> ELSE Plus(f[Picked(T)], g[T \ {Picked(T)}])
      BY <1>1 DEF Totals
    <2>2. CASE T # {}
      <3>1. Picked(T) \in T /\ T \ {Picked(T)} \in Good
        BY <1>3, <2>2, PickedIn
      <3> QED
        BY <2>1, <2>2, <3>1, PlusTyped
    <2> QED
      BY <1>2, <2>1, <2>2
  <1> HIDE DEF Good
  <1>4. \A T \in SUBSET S : T \in Good
    BY <1>3, SubsetInduction
  <1> QED
    BY <1>4, TotalIsLast DEF Good, g

LEMMA RoundMoneyTyped ==
    ASSUME NEW p \in Fractions
    PROVE  RoundMoney(p) \in Int
  <1>1. p[1] \in Int /\ p[2] \in Nat \ {0}
    BY DEF Fractions
  <1> DEFINE n == 2 * p[1]
             d == p[2]
  <1>2. n \in Int /\ d \in Nat /\ 2 * d > 0
    BY <1>1
  <1> HIDE DEF n, d
  <1>3. (n + d) \div (2 * d) \in Int /\ -((d - n) \div (2 * d)) \in Int
    BY <1>2
  <1> QED
    BY <1>3 DEF RoundMoney, n, d

\* A share of at most a hundred percent stays one when it is rounded.
LEMMA RoundMoneyBounded ==
    ASSUME NEW p \in Fractions, p[1] \in Nat, p[1] <= Full * p[2]
    PROVE  RoundMoney(p) \in 0..Full
  <1> DEFINE n == 2 * p[1]
             d == p[2]
             q == (n + d) \div (2 * d)
             r == (n + d) % (2 * d)
  <1>1. n \in Nat /\ d \in Nat \ {0} /\ 2 * d \in Nat \ {0} /\ n <= 20000 * d
    BY DEF Fractions, Full
  <1>2. RoundMoney(p) = q
    BY <1>1 DEF RoundMoney
  <1> HIDE DEF n, d
  <1>3. n + d = (2 * d) * q + r /\ r \in 0..(2 * d - 1) /\ q \in Int
    BY <1>1
  <1> HIDE DEF q, r
  <1>4. ~(q < 0)
    <2> SUFFICES ASSUME q < 0 PROVE FALSE
      OBVIOUS
    <2>1. (q + 1) * d <= 0
      <3>1. -(q + 1) \in Nat /\ (-(q + 1)) * d \in Nat
        BY <1>1, <1>3, ProductNat
      <3>2. (q + 1) * d = -((-(q + 1)) * d)
        BY <1>1, <1>3
      <3> QED
        BY <3>1, <3>2
    <2>2. (2 * d) * q = 2 * ((q + 1) * d) - 2 * d
      BY <1>1, <1>3
    <2> QED
      BY <1>1, <1>3, <2>1, <2>2
  <1>5. q <= 10000
    <2>1. (2 * d) * q <= 20001 * d
      BY <1>1, <1>3
    <2> SUFFICES ASSUME q >= 10001 PROVE FALSE
      BY <1>3
    <2>2. q - 10001 \in Nat /\ (q - 10001) * d \in Nat
      BY <1>1, <1>3, ProductNat
    <2>3. (2 * d) * q = 2 * ((q - 10001) * d) + 20002 * d
      BY <1>1, <1>3
    <2> QED
      BY <1>1, <2>1, <2>2, <2>3
  <1> QED
    BY <1>2, <1>3, <1>4, <1>5 DEF Full

-----------------------------------------------------------------------------
(* The reports. *)

LEMMA WithTyped ==
    ASSUME NEW S, IsFiniteSet(S), NEW v
    PROVE  With(S, v) \in Nat
  BY FS_Subset, FS_CardinalityType DEF With

LEMMA SuccessRateTyped ==
    ASSUME NEW S, IsFiniteSet(S)
    PROVE  SuccessRate(S) \in 0..Full
  <1> DEFINE won == With(S, "SUCCESS")
             judged == won + With(S, "FAILURE")
             p == <<Full * won, judged>>
  <1>1. won \in Nat /\ judged \in Nat /\ won <= judged
    BY WithTyped
  <1>2. SuccessRate(S) = IF judged = 0 THEN 0 ELSE RoundMoney(p)
    BY DEF SuccessRate
  <1>3. p[1] = Full * won /\ p[2] = judged
    OBVIOUS
  <1> HIDE DEF won, judged
  <1>4. judged # 0 => p \in Fractions /\ p[1] \in Nat /\ p[1] <= Full * p[2]
    BY <1>1, <1>3 DEF Fractions, Full
  <1> HIDE DEF p
  <1>5. 0 \in 0..Full
    BY DEF Full
  <1> QED
    BY <1>2, <1>4, <1>5, RoundMoneyBounded

LEMMA TwoAtMost ==
    ASSUME NEW x, NEW y
    PROVE  IsFiniteSet({x, y}) /\ Cardinality({x, y}) <= 2
  <1>1. IsFiniteSet({x}) /\ Cardinality({x}) = 1
    BY FS_Singleton, Zenon
  <1>2. {x, y} = {x} \cup {y}
    OBVIOUS
  <1> QED
    BY <1>1, <1>2, FS_AddElement

\* The weights of the score add up to one, with and without the other figures.
LEMMA ScoreBounded ==
    ASSUME NEW rate \in 0..Full, NEW cpa \in Int \cup {None}, NEW roas \in Int \cup {None}
    PROVE  Score(rate, cpa, roas) \in 0..Full
  <1> DEFINE both == {<<"cpa", cpa>>, <<"roas", roas>>}
             S == {z \in both : z[2] # None}
             f == [z \in S |-> Subscore(z[2])]
             k == Cardinality(S)
             sum == SumFunction(f)
             p == <<2 * rate + sum, 2 + k>>
  <1>1. IsFiniteSet(both) /\ Cardinality(both) <= 2
    BY TwoAtMost
  <1>2. IsFiniteSet(S) /\ k \in Nat /\ k <= 2
    <2>1. IsFiniteSet(S) /\ k <= Cardinality(both)
      BY <1>1, FS_Subset
    <2>2. k \in Nat /\ Cardinality(both) \in Nat
      BY <1>1, <2>1, FS_CardinalityType
    <2> QED
      BY <1>1, <2>1, <2>2
  <1>3. ASSUME NEW e \in S PROVE f[e] \in 0..Full
    <2> DEFINE x == e[2]
    <2>1. x \in Int /\ f[e] = Subscore(x)
      OBVIOUS
    <2> HIDE DEF S, f, x
    <2>2. Subscore(x) \in 0..Full
      BY <2>1 DEF Subscore, Full
    <2> QED
      BY <2>1, <2>2
  <1>4. sum = SumFunctionOnSet(f, S)
    BY DEF SumFunction
  <1>5. Score(rate, cpa, roas) = RoundMoney(p)
    BY DEF Score
  <1> HIDE DEF S, f
  <1>6. sum \in 0..(k * Full)
    <2>1. Full \in Nat
      BY DEF Full
    <2>2. SumFunctionOnSet(f, S) \in 0..(Cardinality(S) * Full)
      BY <1>2, <1>3, <2>1, SumAtMost
    <2> QED
      BY <1>4, <2>2
  <1> HIDE DEF k, sum
  <1>7. p \in Fractions /\ p[1] \in Nat /\ p[1] <= Full * p[2]
    <2>1. p[1] = 2 * rate + sum /\ p[2] = 2 + k
      OBVIOUS
    <2>2. k = 0 \/ k = 1 \/ k = 2
      BY <1>2
    <2>3. 2 * rate + sum \in Nat /\ 2 + k \in Nat \ {0}
      BY <1>2, <1>6
    <2>4. 2 * rate + sum <= Full * (2 + k)
      BY <1>6, <2>2 DEF Full
    <2>5. p \in Fractions
      BY <2>3 DEF Fractions
    <2> QED
      BY <2>1, <2>3, <2>4, <2>5
  <1> HIDE DEF p
  <1> QED
    BY <1>5, <1>7, RoundMoneyBounded

\* What is counted: outcomes of executed rows that have figures on both sides.
LEMMA CountedTyped ==
    ASSUME CollectorInv, FiguresInv
    PROVE  /\ IsFiniteSet(Attributed)
           /\ \A o \in Attributed :
                /\ o \in outcomes /\ o.row \in Rows /\ o.after \in Metrics
                /\ before[o.row] \in Metrics
                /\ executedAt[o.row] \in Nat
  <1>1. TypeOK /\ IsFiniteSet(outcomes) /\ ReadInv
    BY DEF CollectorInv, FiniteInv
  <1>2. IsFiniteSet(Attributed)
    BY <1>1, FS_Subset DEF Attributed
  <1>3. ASSUME NEW o \in Attributed
        PROVE  /\ o \in outcomes /\ o.row \in Rows /\ o.after \in Metrics
               /\ before[o.row] \in Metrics /\ executedAt[o.row] \in Nat
    <2>1. o \in outcomes /\ status[o.row] = "EXECUTED"
      BY DEF Attributed
    <2>2. o.row \in Rows /\ o.after \in Metrics
      BY <1>1, <2>1 DEF TypeOK, Stored
    <2>3. before[o.row] \in Metrics
      BY <1>1, <2>1, <2>2 DEF TypeOK, FiguresInv
    <2>4. executedAt[o.row] \in 0..now /\ now \in Nat
      BY <1>1, <2>1, <2>2, OutcomesAssumption DEF ReadInv, TypeOK, Time, OutcomesAssumption
    <2> QED
      BY <2>1, <2>2, <2>3, <2>4
  <1> QED
    BY <1>2, <1>3

\* A change weighs at least one unit of money.
LEMMA WeightTyped ==
    ASSUME NEW o, before[o.row].spend \in Nat
    PROVE  Weight(o) \in Nat \ {0}
  BY DEF Weight, Unit

\* The mean of changes is a number: neither a count nor a weight can be zero where
\* there is a ratio to compare.
LEMMA MeanTyped ==
    ASSUME NEW shift, IsFiniteSet(DOMAIN shift),
           \A o \in DOMAIN shift : shift[o] \in Fractions /\ before[o.row].spend \in Nat
    PROVE  Mean(shift) \in Int \cup {None}
  <1> DEFINE S == DOMAIN shift
             weights == [o \in S |-> Weight(o)]
             total == Total(shift)
             weight == SumFunction(weights)
             p == <<total[1], total[2] * weight>>
  <1>1. Mean(shift) = IF S = {} THEN None ELSE RoundMoney(p)
    BY DEF Mean
  <1>2. total \in Fractions
    BY TotalTyped
  <1>3. \A o \in S : weights[o] \in Nat /\ weights[o] > 0
    BY WeightTyped
  <1>4. weight = SumFunctionOnSet(weights, S)
    BY DEF SumFunction
  <1> HIDE DEF S, weights, total
  <1>5. weight \in Nat /\ \A o \in S : weights[o] <= weight
    BY <1>3, <1>4, SumNat DEF S
  <1> HIDE DEF weight
  <1>6. S # {} => weight \in Nat \ {0}
    BY <1>3, <1>5
  <1>7. S # {} => p \in Fractions
    <2>1. total[1] \in Int /\ total[2] \in Nat \ {0}
      BY <1>2 DEF Fractions
    <2>2. S # {} => total[2] * weight \in Nat \ {0}
      BY <1>6, <2>1
    <2> QED
      BY <2>1, <2>2 DEF Fractions
  <1> HIDE DEF p
  <1> QED
    BY <1>1, <1>7, RoundMoneyTyped

\* The changes of the ratios over what is counted are such numbers.
LEMMA ImprovementsTyped ==
    ASSUME CollectorInv, FiguresInv
    PROVE  /\ CPAImprovement(Attributed) \in Int \cup {None}
           /\ ROASImprovement(Attributed) \in Int \cup {None}
  <1> DEFINE C == {o \in Attributed : HasCPA(before[o.row]) /\ HasCPA(o.after)}
             R == {o \in Attributed : HasROAS(before[o.row]) /\ HasROAS(o.after)}
             cpa == [o \in C |-> CPAShift(o)]
             roas == [o \in R |-> ROASShift(o)]
  <1>1. IsFiniteSet(C) /\ IsFiniteSet(R)
    BY CountedTyped, FS_Subset
  <1>2. ASSUME NEW o \in Attributed
        PROVE  LET b == before[o.row] IN
               /\ {b.spend, b.conversions, b.value} \subseteq Nat
               /\ {o.after.spend, o.after.conversions, o.after.value} \subseteq Nat
    BY CountedTyped DEF Metrics
  <1>3. ASSUME NEW o \in C PROVE CPAShift(o) \in Fractions /\ before[o.row].spend \in Nat
    <2> DEFINE b == before[o.row]
               a == o.after
    <2>1. {b.spend, b.conversions, a.spend, a.conversions} \subseteq Nat \ {0}
      BY <1>2 DEF HasCPA
    <2> DEFINE x == a.spend * b.conversions - b.spend * a.conversions
    <2>2. Full * Weight(o) \in Int
      BY <2>1, WeightTyped DEF Full
    <2> HIDE DEF a, b
    <2>3. x \in Int /\ b.spend * a.conversions \in Nat \ {0}
      BY <2>1
    <2>4. CPAShift(o) = <<Full * Weight(o) * x, b.spend * a.conversions>>
      BY DEF CPAShift, a, b
    <2> HIDE DEF x
    <2>5. Full * Weight(o) * x \in Int
      BY <2>2, <2>3
    <2> QED
      BY <2>1, <2>3, <2>4, <2>5 DEF Fractions, b
  <1>4. ASSUME NEW o \in R PROVE ROASShift(o) \in Fractions /\ before[o.row].spend \in Nat
    <2> DEFINE b == before[o.row]
               a == o.after
    <2>1. {b.spend, b.value, a.spend, a.value} \subseteq Nat \ {0}
      BY <1>2 DEF HasROAS
    <2> DEFINE x == a.value * b.spend - b.value * a.spend
    <2>2. Full * Weight(o) \in Int
      BY <2>1, WeightTyped DEF Full
    <2> HIDE DEF a, b
    <2>3. x \in Int /\ b.value * a.spend \in Nat \ {0}
      BY <2>1
    <2>4. ROASShift(o) = <<Full * Weight(o) * x, b.value * a.spend>>
      BY DEF ROASShift, a, b
    <2> HIDE DEF x
    <2>5. Full * Weight(o) * x \in Int
      BY <2>2, <2>3
    <2> QED
      BY <2>1, <2>3, <2>4, <2>5 DEF Fractions, b
  <1>5. Mean(cpa) \in Int \cup {None}
    <2>1. DOMAIN cpa = C /\ \A o \in C : cpa[o] = CPAShift(o)
      OBVIOUS
    <2> HIDE DEF cpa, C
    <2> QED
      BY <1>1, <1>3, <2>1, MeanTyped
  <1>6. Mean(roas) \in Int \cup {None}
    <2>1. DOMAIN roas = R /\ \A o \in R : roas[o] = ROASShift(o)
      OBVIOUS
    <2> HIDE DEF roas, R
    <2> QED
      BY <1>1, <1>4, <2>1, MeanTyped
  <1> QED
    BY <1>5, <1>6 DEF CPAImprovement, ROASImprovement

\* Counted by action and added up, it is as much as counted in all.
LEMMA PerAction ==
    ASSUME IsFiniteSet(Attributed)
    PROVE  LET byAction == Performance.byAction IN
           SumFunction([a \in DOMAIN byAction |-> byAction[a].total]) = Cardinality(Attributed)
  <1> DEFINE verb == [o \in Attributed |-> Verb[o.row]]
             V == {Verb[o.row] : o \in Attributed}
             total == [a \in V |-> Cardinality(OfVerb(a))]
  <1>1. IsFiniteSet(V)
    <2>1. verb \in Surjection(Attributed, V)
      BY DEF Surjection
    <2> QED
      BY <2>1, FS_Surjection
  <1>2. DOMAIN Performance.byAction = V
    BY DEF Performance
  <1>3. \A a \in V : Performance.byAction[a].total = Cardinality(OfVerb(a))
    BY DEF Performance, Bucket
  <1>4. [a \in DOMAIN Performance.byAction |-> Performance.byAction[a].total] = total
    BY <1>2, <1>3
  <1>5. SumFunction(total) = SumFunctionOnSet(total, V)
    BY DEF SumFunction
  <1> DEFINE of == [a \in V |-> OfVerb(a)]
  <1>6. \A a \in V : of[a] \in SUBSET Attributed /\ total[a] = Cardinality(of[a])
    BY DEF OfVerb
  <1>7. \A o \in Attributed : \E a \in V : o \in of[a]
    BY DEF OfVerb
  <1>8. \A a \in V, b \in V : a # b => of[a] \cap of[b] = {}
    BY DEF OfVerb
  <1> HIDE DEF V, of, total
  <1>9. SumFunctionOnSet(total, V) = Cardinality(Attributed)
    BY <1>1, <1>6, <1>7, <1>8, SumOfParts
  <1> QED
    BY <1>4, <1>5, <1>9

\* A report over all days leaves nothing out.
LEMMA AllDays ==
    ASSUME CollectorInv, FiguresInv
    PROVE  AttributedSince(Day(MaxTime)) = Attributed
  <1>1. now \in Nat /\ MaxTime \in Nat /\ now <= MaxTime
    BY OutcomesAssumption DEF OutcomesAssumption, CollectorInv, FiniteInv, TypeOK, Time
  <1>2. 2 * (Day(now) - Day(MaxTime)) <= 0
    BY <1>1 DEF Day
  <1>3. Day(now) \in Int /\ Day(MaxTime) \in Int
    BY <1>1 DEF Day
  <1>4. \A o \in Attributed : executedAt[o.row] \in Nat
    BY CountedTyped
  <1>5. \A o \in Attributed : executedAt[o.row] >= 2 * (Day(now) - Day(MaxTime))
    BY <1>2, <1>3, <1>4
  <1> QED
    BY <1>5 DEF AttributedSince

LEMMA Agreed == CollectorInv /\ FiguresInv => ReportsAgree
  <1> SUFFICES ASSUME CollectorInv, FiguresInv PROVE ReportsAgree
    OBVIOUS
  <1> DEFINE p == Performance
             e == Effectiveness(Day(MaxTime))
             rate == SuccessRate(Attributed)
             cpa == CPAImprovement(Attributed)
             roas == ROASImprovement(Attributed)
  <1>1. IsFiniteSet(Attributed)
    BY CountedTyped
  <1>2. AttributedSince(Day(MaxTime)) = Attributed
    BY AllDays
  <1>3. /\ p.overall.total = Cardinality(Attributed)
        /\ p.overall.success = With(Attributed, "SUCCESS")
        /\ p.overall.failure = With(Attributed, "FAILURE")
    BY DEF Performance, Bucket
  <1>4. /\ e.evaluated = Cardinality(Attributed)
        /\ e.successful = With(Attributed, "SUCCESS")
        /\ e.failure = With(Attributed, "FAILURE")
        /\ e.score = IF Attributed = {} THEN None ELSE Score(rate, cpa, roas)
    BY <1>2 DEF Effectiveness
  <1>5. Score(rate, cpa, roas) \in 0..Full
    BY <1>1, SuccessRateTyped, ImprovementsTyped, ScoreBounded
  <1>6. SumFunction([a \in DOMAIN p.byAction |-> p.byAction[a].total]) = Cardinality(Attributed)
    BY <1>1, PerAction
  <1>7. e.score # None => e.score \in 0..Full
    BY <1>4, <1>5
  <1>8. /\ p.overall.total = e.evaluated
        /\ p.overall.success = e.successful /\ p.overall.failure = e.failure
        /\ e.evaluated = SumFunction([a \in DOMAIN p.byAction |-> p.byAction[a].total])
    <2> HIDE DEF p, e
    <2> QED
      BY <1>3, <1>4, <1>6
  <1> QED
    BY ONLY <1>7, <1>8 DEF ReportsAgree

\* Every row that has an outcome is counted, by the outcome of its longest window.
LEMMA LongestCounted ==
    ASSUME CollectorInv, NEW o \in outcomes
    PROVE  \E x \in Attributed : x.row = o.row
  <1> DEFINE S == {x \in outcomes : x.row = o.row}
             f == [x \in S |-> x.window]
  <1>1. IsFiniteSet(S) /\ o \in S
    BY FS_Subset DEF CollectorInv, FiniteInv
  <1>2. \A x \in S : f[x] \in Int
    <2> SUFFICES ASSUME NEW x \in S PROVE x.window \in Nat
      OBVIOUS
    <2> QED
      BY OutcomesAssumption
         DEF CollectorInv, FiniteInv, TypeOK, Stored, OutcomesAssumption
  <1>3. \E u \in S : \A v \in S : f[v] <= f[u]
    <2> HIDE DEF S, f
    <2> QED
      BY <1>1, <1>2, GreatestOf
  <1>4. PICK u \in S : \A v \in S : v.window <= u.window
    BY <1>3
  <1>5. status[u.row] = "EXECUTED"
    BY DEF CollectorInv, StoredInv, OnlyExecutedJudged
  <1>6. u \in Attributed
    BY <1>4, <1>5 DEF Attributed
  <1> QED
    BY <1>6

\* The same of all of them.
Covered == \A o \in outcomes : \E x \in Attributed : x.row = o.row

LEMMA AllCovered == CollectorInv => Covered
  BY LongestCounted DEF Covered

LEMMA CountedOncePerRow == CollectorInv => CountedOnce
  <1> SUFFICES ASSUME CollectorInv, NEW o \in Attributed, NEW x \in Attributed,
                      o.row = x.row
               PROVE  o = x
    BY DEF CountedOnce
  <1>1. o \in outcomes /\ x \in outcomes /\ o.window <= x.window /\ x.window <= o.window
    BY DEF Attributed
  <1>2. o.window \in Nat /\ x.window \in Nat
    BY <1>1, OutcomesAssumption
       DEF CollectorInv, FiniteInv, TypeOK, Stored, OutcomesAssumption
  <1>3. o.window = x.window
    BY <1>1, <1>2
  <1> QED BY <1>1, <1>3 DEF CollectorInv, StoredInv

\* What is counted of an action is counted after a step too, if perhaps by the
\* outcome of a longer window.
LEMMA CountsKept ==
    ASSUME CollectorInv, [Next]_vars, NEW a
    PROVE  Cardinality(OfVerb(a)') >= Cardinality(OfVerb(a))
  <1> DEFINE S == OfVerb(a)
             T == OfVerb(a)'
             heir == [o \in S |-> CHOOSE x \in T : x.row = o.row]
  <1>1. CollectorInv'
    BY StepInv
  <1>2. outcomes \subseteq outcomes'
    BY Stable DEF CollectorInv
  <1>3. \A o \in outcomes' : \E x \in Attributed' : x.row = o.row
    <2>1. Covered'
      BY <1>1, AllCovered, PTL
    <2> QED
      BY <2>1 DEF Covered
  <1>4. ASSUME NEW o \in S PROVE \E x \in T : x.row = o.row
    <2>1. o \in outcomes' /\ Verb[o.row] = a
      BY <1>2 DEF OfVerb, Attributed
    <2>2. PICK x \in Attributed' : x.row = o.row
      BY <1>3, <2>1
    <2>3. x \in T
      BY <2>1, <2>2 DEF OfVerb
    <2> QED
      BY <2>2, <2>3
  <1>5. IsFiniteSet(T)
    <2>1. IsFiniteSet(outcomes')
      BY <1>1 DEF CollectorInv, FiniteInv
    <2>2. T \subseteq outcomes'
      BY DEF OfVerb, Attributed
    <2> QED
      BY <2>1, <2>2, FS_Subset
  <1>6. \A o \in S, x \in S : o.row = x.row => o = x
    BY CountedOncePerRow DEF CountedOnce, OfVerb
  <1> HIDE DEF S, T
  <1>7. \A o \in S : heir[o] \in T /\ heir[o].row = o.row
    BY <1>4
  <1>8. heir \in Injection(S, T)
    <2>1. heir \in [S -> T]
      BY <1>7
    <2>2. \A o \in S, x \in S : heir[o] = heir[x] => o = x
      BY <1>6, <1>7
    <2> HIDE DEF heir
    <2> QED
      BY <2>1, <2>2 DEF Injection, IsInjective
  <1>9. IsFiniteSet(S) /\ Cardinality(S) <= Cardinality(T)
    BY <1>5, <1>8, FS_Injection
  <1>10. Cardinality(S) \in Nat /\ Cardinality(T) \in Nat
    BY <1>5, <1>9, FS_CardinalityType
  <1> QED
    BY <1>9, <1>10 DEF S, T

-----------------------------------------------------------------------------
\* The state of collectors and of the tables is well-formed.
THEOREM OutcomesTypeCorrect == Spec => []TypeOK
  <1>1. CollectorInv => TypeOK
    BY DEF CollectorInv, FiniteInv
  <1> QED BY <1>1, Invariant, PTL

\* However many processes collect, and whatever fails, the reports count an
\* executed action once: the unique index leaves one outcome per window, and
\* reports take the longest.
THEOREM ReportsCountOnce == Spec => []CountedOnce
  BY CountedOncePerRow, Invariant, PTL

\* Nothing is judged by a window that is not over, for any windows: a pass asks
\* for the day after the last one to have begun.
THEOREM WindowsJudgedWhole == Spec => []WholeWindows
  <1>1. CollectorInv => WholeWindows
    BY DEF CollectorInv, StoredInv
  <1> QED BY <1>1, Invariant, PTL

\* No FAILED action has an outcome, although a row can turn from EXECUTED to
\* FAILED: that happens within the moment of its execution, before any window.
THEOREM JudgedWereExecuted == Spec => []OnlyExecutedJudged
  <1>1. CollectorInv => OnlyExecutedJudged
    BY DEF CollectorInv, StoredInv
  <1> QED BY <1>1, Invariant, PTL

\* A proposal shows no verdict that is not among its stored outcomes.
THEOREM VerdictsBacked == Spec => []VerdictBacked
  <1>1. CollectorInv => VerdictBacked
    BY DEF CollectorInv, StoredInv
  <1> QED BY <1>1, Invariant, PTL

\* The verdict a proposal shows is the one found last, as long as one process
\* collects and the database answers; and where Meta answers too it is the one the
\* reports count, that of the longest window judged so far, however rows mature,
\* are overwritten and goals are edited meanwhile.
THEOREM RunningVerdictIsLast == Spec => []RunningVerdict
  <1>1. OrderInv /\ LatestInv => RunningVerdict
    BY DEF OrderInv, LatestInv, RunningVerdict
  <1>2. Spec => []OrderInv
    BY OrderInit, OrderStep, Invariant, PTL DEF Spec
  <1>3. Spec => []LatestInv
    BY LatestInit, LatestStep, Invariant, PTL DEF Spec
  <1> QED BY <1>1, <1>2, <1>3, PTL

\* Over all days the two reports count the same verdicts, in all and by action,
\* and the score is a percentage, whatever the figures; and no step, not even
\* an overwritten row or a longer window, takes away what an action has counted.
THEOREM ReportsCountAlike == Spec => ReportsHold
  <1>1. Spec => []ReportsAgree
    BY Agreed, Invariant, Figures, PTL
  <1>2. CollectorInv /\ [Next]_vars
          => [\A o \in Attributed :
                Cardinality(OfVerb(Verb[o.row])') >= Cardinality(OfVerb(Verb[o.row]))]_vars
    BY CountsKept
  <1>3. Spec => CountsOnlyGrow
    BY <1>2, Invariant, PTL DEF Spec, CountsOnlyGrow
  <1> QED
    BY <1>1, <1>3, PTL DEF ReportsHold
================================================================================
