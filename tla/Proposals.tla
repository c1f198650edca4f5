------------------------------- MODULE Proposals -------------------------------
(***************************************************************************)
(* Generation of proposals, internals/core/optimization.go: a request      *)
(* fetches the figures of every object of an account one by one, lets the  *)
(* decision engine recommend and stores what it recommends as PENDING      *)
(* rows, skipping what is pending already; a person approves or rejects.   *)
(* One action is one Meta or database round-trip of a request, so          *)
(* generations interleave with each other, with decisions and with what    *)
(* happens at Meta.  Execution is Executor's matter: for a generation only *)
(* PENDING rows count.  REST requests resolve the session, the account and *)
(* the goal in resolveAnalyticsCtx; a request refused there changes        *)
(* nothing and is left out.                                                *)
(***************************************************************************)
EXTENDS Rules, Guardrails

CONSTANTS
    Listing,      \* the objects of the account in Meta's order
    TypeOf,       \* of each: "CAMPAIGN" or "ADSET"
    Generators,   \* requests that may be in flight
    UserOf,       \* of each: its user
    Worlds        \* the surroundings a behaviour may have

Objects == {Listing[i] : i \in DOMAIN Listing}

\* What Meta reports of an object.
Reports == [status : STRING, row : InsightRows, days : Seq(Days)]

\* reports  what Meta may report, of each object
\* goals, presets, levels  what requests may name; NoGoal for those without a goal
\* generators  who sends requests, each of them at most runs (a bound)
\* faults   "overlap" of requests, "decisions" of people, "drift" of the figures,
\*          "meta_error", "db_error"
ASSUME ProposalsAssumption ==
    /\ Listing \in Seq(Objects)
    /\ TypeOf \in [Objects -> {"CAMPAIGN", "ADSET"}]
    /\ \A w \in Worlds :
      /\ w.reports \subseteq [Objects -> Reports]
      /\ w.goals \subseteq Goals
      /\ w.presets \subseteq DatePresets
      /\ w.runs \in Nat
      /\ w.levels \subseteq {"CAMPAIGN", "ADSET"}
      /\ w.faults \subseteq {"overlap", "decisions", "drift", "meta_error", "db_error"}

VARIABLES
    world,   \* the surroundings of the server in this behaviour
    report,  \* what Meta reports of each object now
    rows,    \* the table optimization_actions
    pc, gen, \* position and local variables of each request
    reply    \* what each request was answered last

vars == <<world, report, rows, pc, gen, reply>>

Statuses == {"PENDING", "APPROVED", "REJECTED"}
Replies == {"none", "stored", "bad_gateway", "error"}
Absent == "absent"               \* no daily series, so no fatigue

Fault(kind) == kind \in world.faults

Positions == {"idle", "list", "metrics", "daily", "plan", "select", "insert"}

\* run       how many requests of this generator there have been
\* left      objects to analyse: as listed, the first one being worked on
\* analyses  of those analysed
\* plan      recommendations to store, the first one being worked on
Idle == [run |-> 0, level |-> "CAMPAIGN", goal |-> NoGoal, preset |-> "last_30d",
         left |-> <<>>, figures |-> NoFigures, analyses |-> <<>>, plan |-> <<>>]

Init ==
    /\ world \in Worlds
    /\ report \in world.reports
    /\ rows = {}
    /\ pc = [g \in Generators |-> "idle"]
    /\ gen = [g \in Generators |-> Idle]
    /\ reply = [g \in Generators |-> "none"]
-----------------------------------------------------------------------------
(* Analysing the account. *)

GenerateOptimizationActions(g) ==
    /\ g \in world.generators
    /\ pc[g] = "idle" /\ gen[g].run < world.runs
    /\ Fault("overlap") \/ \A h \in Generators : pc[h] = "idle"
    /\ pc' = [pc EXCEPT ![g] = "list"]
    /\ reply' = [reply EXCEPT ![g] = "none"]
    /\ \E level \in world.levels, goal \in world.goals, preset \in world.presets :
         gen' = [gen EXCEPT ![g] = [Idle EXCEPT !.run = gen[g].run + 1, !.level = level,
                                                !.goal = goal, !.preset = preset]]
    /\ UNCHANGED <<world, report, rows>>

NextObject(left) == IF left = <<>> THEN "plan" ELSE "metrics"

ListObjects(g) ==
    LET listed == Subsequence(Listing, {i \in DOMAIN Listing :
                                          TypeOf[Listing[i]] = gen[g].level})
        left == [i \in DOMAIN listed |->
                   [object |-> listed[i], status |-> report[listed[i]].status]]
    IN  /\ pc[g] = "list"
        /\ pc' = [pc EXCEPT ![g] = NextObject(left)]
        /\ gen' = [gen EXCEPT ![g].left = left]
        /\ UNCHANGED <<world, report, rows, reply>>

FetchMetrics(g) ==
    /\ pc[g] = "metrics"
    /\ pc' = [pc EXCEPT ![g] = "daily"]
    /\ gen' = [gen EXCEPT ![g].figures =
                 NormalizeInsight(report[gen[g].left[1].object].row)]
    /\ UNCHANGED <<world, report, rows, reply>>

Analysis(listed, figures, goal, fatigue) ==
    LET score == ScorePerformance(figures, goal) IN
    [object |-> listed.object, type |-> TypeOf[listed.object], figures |-> figures,
     score |-> score, health |-> AssessHealth(figures, listed.status, score),
     fatigue |-> fatigue]

\* The error of the daily series is dropped, and so is a series without days.
FetchDaily(g) ==
    LET listed == gen[g].left[1]
        days == report[listed.object].days
    IN  /\ pc[g] = "daily"
        /\ \E fatigue \in (IF Fault("meta_error") THEN {Absent} ELSE {})
                            \cup {IF days = <<>> THEN Absent
                                  ELSE AssessFatigue(days, gen[g].figures)} :
             gen' = [gen EXCEPT ![g].left = Tail(@), ![g].figures = NoFigures,
                                ![g].analyses = Append(@, Analysis(listed, gen[g].figures,
                                                                   gen[g].goal, fatigue))]
        /\ pc' = [pc EXCEPT ![g] = NextObject(Tail(gen[g].left))]
        /\ UNCHANGED <<world, report, rows, reply>>

\* The list and the figures of every object are needed.
MetaFails(g) ==
    /\ Fault("meta_error")
    /\ pc[g] \in {"list", "metrics"}
    /\ pc' = [pc EXCEPT ![g] = "idle"]
    /\ reply' = [reply EXCEPT ![g] = "bad_gateway"]
    /\ UNCHANGED <<world, report, rows, gen>>

MoreSpend(a, b) == a.figures.spend > b.figures.spend

\* The orders sort.Slice may bring the analyses into: of those that spent the same
\* any one may come first.
BySpend(analyses) ==
    LET I == DOMAIN analyses IN
    {sorted \in {[i \in I |-> analyses[p[i]]] : p \in Bijection(I, I)} :
       \A i, j \in I : i < j => ~MoreSpend(sorted[j], sorted[i])}

\* What the rules look at: the sorted objects, with the totals of the set and the
\* length of the window the preset stands for.
InputsOf(request, sorted) ==
    [i \in DOMAIN sorted |->
       LET a == sorted[i] IN
       [object |-> a.object, type |-> a.type, figures |-> a.figures, score |-> a.score,
        health |-> a.health, fatigue |-> a.fatigue, goal |-> request.goal,
        totals |-> SumFigures([j \in DOMAIN sorted |-> sorted[j].figures]),
        days |-> presetDaysInt(request.preset)]]

Acts(decision) == decision.action # "NO_ACTION"

\* NO_ACTION is answered and not stored.
Plan(g) ==
    /\ pc[g] = "plan"
    /\ pc' = [pc EXCEPT ![g] = "select"]
    /\ \E sorted \in BySpend(gen[g].analyses) :
         LET decisions == OptimizeReport(InputsOf(gen[g], sorted))
             acting == {i \in DOMAIN decisions : Acts(decisions[i])}
         IN  gen' = [gen EXCEPT ![g].plan = Subsequence(decisions, acting),
                                ![g].analyses = <<>>]
    /\ UNCHANGED <<world, report, rows, reply>>
-----------------------------------------------------------------------------
(* Storing the recommendations, one by one and in no transaction. *)

Twin(r, user, d) ==
    r.user = user /\ r.object = d.object /\ r.action = d.action /\ r.status = "PENDING"

\* Mutant: nobody looks for what is pending.
SelectNothing(g) ==
    /\ pc[g] = "select" /\ gen[g].plan # <<>>
    /\ pc' = [pc EXCEPT ![g] = "insert"]
    /\ UNCHANGED <<world, report, rows, gen, reply>>

SelectExisting(g) ==
    LET twins == {r \in rows : Twin(r, UserOf[g], gen[g].plan[1])} IN
    /\ pc[g] = "select" /\ gen[g].plan # <<>>
    /\ \/ /\ twins # {}
          /\ gen' = [gen EXCEPT ![g].plan = Tail(@)]
          /\ UNCHANGED pc
       \/ /\ twins = {}
          /\ pc' = [pc EXCEPT ![g] = "insert"]
          /\ UNCHANGED gen
    /\ UNCHANGED <<world, report, rows, reply>>

\* by and run say which request stored the row; the table does not have them.
Proposal(g, d) ==
    [id |-> Cardinality(rows) + 1, user |-> UserOf[g], object |-> d.object,
     type |-> d.type, action |-> d.action, pct |-> d.pct, rule |-> d.rule,
     confidence |-> d.confidence, preset |-> gen[g].preset, status |-> "PENDING",
     by |-> g, run |-> gen[g].run]

InsertProposal(g) ==
    /\ pc[g] = "insert"
    /\ rows' = rows \cup {Proposal(g, gen[g].plan[1])}
    /\ gen' = [gen EXCEPT ![g].plan = Tail(@)]
    /\ pc' = [pc EXCEPT ![g] = "select"]
    /\ UNCHANGED <<world, report, reply>>

\* The rows stored so far stay, though the answer is an error without counts.
DatabaseFails(g) ==
    /\ Fault("db_error")
    /\ pc[g] \in {"select", "insert"} /\ gen[g].plan # <<>>
    /\ pc' = [pc EXCEPT ![g] = "idle"]
    /\ reply' = [reply EXCEPT ![g] = "error"]
    /\ UNCHANGED <<world, report, rows, gen>>

Answer(g) ==
    /\ pc[g] = "select" /\ gen[g].plan = <<>>
    /\ pc' = [pc EXCEPT ![g] = "idle"]
    /\ reply' = [reply EXCEPT ![g] = "stored"]
    /\ UNCHANGED <<world, report, rows, gen>>
-----------------------------------------------------------------------------
(* People and Meta. *)

decideOptimizationAction(r, decision) ==
    /\ Fault("decisions")
    /\ r.status = "PENDING"
    /\ rows' = (rows \ {r}) \cup {[r EXCEPT !.status = decision]}
    /\ UNCHANGED <<world, report, pc, gen, reply>>

Drift ==
    /\ Fault("drift")
    /\ report' \in world.reports
    /\ UNCHANGED <<world, rows, pc, gen, reply>>

Generate(g) ==
    \/ GenerateOptimizationActions(g)
    \/ ListObjects(g) \/ FetchMetrics(g) \/ FetchDaily(g) \/ MetaFails(g)
    \/ Plan(g) \/ SelectExisting(g) \/ InsertProposal(g) \/ DatabaseFails(g)
    \/ Answer(g)

Next ==
    \/ \E g \in Generators : Generate(g)
    \/ \E r \in rows, decision \in {"APPROVED", "REJECTED"} :
         decideOptimizationAction(r, decision)
    \/ Drift

Spec == Init /\ [][Next]_vars
-----------------------------------------------------------------------------
(* Properties. *)

Analyses == [object : Objects, type : ObjectTypes, figures : Figures, score : 0..100,
             health : HealthStatuses, fatigue : FatigueLevels \cup {Absent}]

Decisions == [object : Objects, type : ObjectTypes, rule : RuleIDs,
              action : ValidAction \ {"NO_ACTION"}, pct : {-30, -20, 0, 20},
              confidence : 0..99]

Requests == [run : Nat, level : {"CAMPAIGN", "ADSET"}, goal : Goals, preset : DatePresets,
             left : Seq([object : Objects, status : STRING]), figures : Figures,
             analyses : Seq(Analyses), plan : Seq(Decisions)]

Rows == [id : 1..Cardinality(rows), user : {UserOf[g] : g \in Generators}, object : Objects,
         type : ObjectTypes, action : ValidAction \ {"NO_ACTION"}, pct : {-30, -20, 0, 20},
         rule : RuleIDs, confidence : 0..99, preset : DatePresets, status : Statuses,
         by : Generators, run : Nat]

\* Every stored and every planned recommendation is one of the vocabulary, with
\* a confidence and a percentage the rules can give.
TypeOK ==
    /\ world \in Worlds
    /\ report \in [Objects -> Reports]
    /\ rows \subseteq Rows /\ IsFiniteSet(rows)
    /\ pc \in [Generators -> Positions]
    /\ gen \in [Generators -> Requests]
    /\ reply \in [Generators -> Replies]
    /\ \A g \in Generators :
         /\ pc[g] \in {"metrics", "daily"} => gen[g].left # <<>>
         /\ pc[g] = "insert" => gen[g].plan # <<>>

SameProposal(r, s) ==
    /\ r.user = s.user /\ r.object = s.object /\ r.action = s.action
    /\ r.status = "PENDING" /\ s.status = "PENDING"

\* Identical proposals are pending once, however failures and decisions fall:
\* only two requests of which one looked before the other stored can do it, and
\* then each of them once.
NoRepeat ==
    \A r, s \in rows : SameProposal(r, s) /\ r # s => Fault("overlap") /\ r.by # s.by

\* Whatever a request has stored so far is at least as urgent as what it has
\* still to store: one that fails halfway leaves out the least urgent ones.
UrgentFirst ==
    \A g \in Generators : pc[g] \in {"select", "insert"} =>
      \A r \in rows, i \in DOMAIN gen[g].plan :
        r.by = g /\ r.run = gen[g].run
          => actionUrgency(r.action) <= actionUrgency(gen[g].plan[i].action)

\* "any actionable rule must outrank keep": an object is left alone only when no
\* rule wants it changed.
ActionOutranksKeep ==
    \A g \in Generators : pc[g] = "plan" =>
      \A sorted \in BySpend(gen[g].analyses) : \A i \in DOMAIN sorted :
        LET in == InputsOf(gen[g], sorted)[i] IN
        ~Acts(Optimize(in)) => \A j \in DOMAIN Fired(in) : ~Acts(Fired(in)[j])

\* What a person approves is what the executor does: no stored percentage is
\* clamped or refused for its sign, and a pause names the type of its object.
ApprovedAsWritten ==
    \A r \in rows :
      /\ r.action \in BudgetActions
           => /\ ClampedPct(r.action, r.pct) = r.pct
              /\ r.pct # 0 /\ (r.action = "INCREASE_BUDGET" <=> r.pct > 0)
      /\ r.action \in PauseActions => r.action = PauseActionFor(r.type)

Verdict(status) ==
    CASE status = "off_track" -> 0 [] status = "at_risk" -> 1 [] OTHER -> 2

\* Paying less for the same results never lowers the score of an object, nor
\* what is said of its goal, as long as something is paid: results that cost
\* nothing have no return to score, and against a target of zero no ratio.
CheaperIsNoWorse ==
    [][\A o \in Objects, goal \in world.goals, preset \in world.presets :
         LET m == NormalizeInsight(report[o].row)
             n == NormalizeInsight(report'[o].row)
             days == presetDaysInt(preset)
         IN  report'[o] # report[o] /\ n.spend \in 1..m.spend
                 /\ n = [m EXCEPT !.spend = n.spend]
               => /\ ScorePerformance(n, goal) >= ScorePerformance(m, goal)
                  /\ Verdict(AssessGoalProgress(n, goal, days))
                       >= Verdict(AssessGoalProgress(m, goal, days))]_report

\* No series calls more than a quarter of its days outliers, however wild they
\* are (Chebyshev's inequality).
OutliersAreFew ==
    [][\A o \in {p \in Objects : report'[p].days # report[p].days} :
         LET days == report'[o].days
             found == DetectAnomalies(days)
         IN  \A series \in AnomalyMetrics :
               4 * Cardinality({a \in found : a[1] = series}) <= Len(days)]_report
===============================================================================
