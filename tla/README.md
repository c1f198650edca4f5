# Verification of CBK, the Marketing OS

CBK advises on Meta advertising campaigns and, once a human has approved an
advice, carries it out. Money moves when it is wrong: a budget changed twice, a
change nobody approved, an outcome credited to the wrong decision, a proposal
stored for the wrong user. This directory holds TLA+ modules translated from its
Go source, TLC configurations that check them on small instances, and TLAPS
proofs of the properties that matter most.

    tlc -workers 2 -config ExecutorClean.cfg MCExecutor.tla   # a run
    tlapm ExecutorProofs.tla                                  # a proof

`PROJECT.json` lists the runs, the mutated definition each property catches, the
source lines each definition stands for, the hazards and the findings.

## 1. The system

Paths are below `src/`. "Hard" names the behaviour tests hardly reach.

| Part | State | Operations | Hard | Correct means |
|---|---|---|---|---|
| **Executor**, `internals/core/executor.go` | `optimization_actions` rows, `execLocks`, Meta objects | execute (replay, cooldown, live read, before-metrics, guardrails, Meta write, record) | concurrent requests, crash or lost answer between Meta and the row, ignored SQL errors, two processes | only approved rows act; one change per row and per replay key; a cooldown between changes of an object; percentages are caps; success is never claimed falsely |
| **Guardrails**, `internals/core/guardrails.go` | none | validate, clamp, apply a percentage | boundaries, rounding, nil | as above |
| **Proposals**, `internals/core/optimization.go` | rows `PENDING` | generate, approve, reject | check-then-insert dedupe without a transaction; failure halfway | nothing is pending twice; what is stored is what the rules said |
| **Rules**, `internals/optimization/` | none | nine rules over an analysed object, the strongest wins | rules that fire together | a proposal never loses to "keep", and is executable as written |
| **Analytics**, `internals/analytics/` | none | normalise, score, health, fatigue, anomalies, goal progress | division by zero, missing data, rounding | monotone where a user would expect it |
| **Meta client**, `internals/metaclient/client.go` | cache, flights, slots, per-token gate | GET, POST, DELETE with retries | stale cache, waiting goroutines, timeouts, breaker | no write is repeated; reads are fresh after a write; slots never leak; a throttled token is left alone, and comes back |
| **Outcome collector**, `internals/core/outcomes.go` | `optimization_outcomes`, `outcome_status` | a pass every 30 min over windows 1, 3, 7 | crash between INSERT and UPDATE; windows out of order; two processes | each window once, only when complete; the running verdict is that of the latest window |
| **Evaluator**, `internals/optimization/evaluator.go` | none | verdict from before, after, goal | windows of different length | each verdict follows the stated criterion |
| **Reports**, `outcomes.go`, `effectiveness.go` | reads only | performance, spend totals, effectiveness | rows that leave `EXECUTED` | both count the same actions, once, and lose none |
| **Agent runs**, `internals/core/agent.go`, `internals/agent/runtime.go` | sessions, messages, package variables of `internals/tools` | prepare, loop of model and tools, finish | overlapping runs share the package variables; goals and sessions change meanwhile | a run acts for its own user and goal, and ends |
| **Sessions and history**, `internals/core/agent_history.go` | sessions, messages | create, relink, delete | foreign keys are off on the server's connections | messages stay in sessions of their user |
| **Goals**, `internals/core/goals.go` | `marketing_goals` | create, edit, status, delete | an edit reads and writes in two statements | an edit never undoes a pause |
| **Tools**, `internals/tools` | registry, hooks | dispatch, Meta CRUD, analytics, optimisation | hooks are shared | as for agent runs |
| **AI providers, accounts, auth, plumbing, commands, migrations** | users, accounts, schema | conversion, OAuth, JWT, routes, start-up | little | - |

How they interact. All handlers and the collector share one SQLite database
(WAL, `busy_timeout`) without transactions, so an interleaving point lies between
any two statements. All calls to Meta go through the one `metaclient.Client` of
the process: its cache is what the executor's "live" read may be answered from,
its retries decide whether a change can reach Meta twice. Proposals come from the
rules over analytics, on request or from an agent run through a package
variable; a human decides; the executor validates with the guardrails and writes;
the collector reads the row's `executed_at` and `before_metrics` days later, and
the reports read what the collector stored.

## 2. Modules

| Module | Models | Composed of |
|---|---|---|
| `Guardrails` | the policy, as operators | |
| `Executor` | decisions and execute requests | `Guardrails` |
| `SpendSafety` | what the account owner is promised | implemented by `Executor` |
| `MetaReads`, `MetaGate` | the Meta client, seen from its two sides | |
| `Evaluator`, `Outcomes` | verdicts; the collector | `Outcomes` uses `Evaluator` |
| `Reports` | the two reports | on the state of `Outcomes` |
| `Analytics`, `Rules` | figures; the decision engine | `Rules` uses `Analytics` |
| `Proposals` | generation and decision | `Rules`, `Guardrails` |
| `Goals`, `AgentRuns` | goals; agent runs, sessions, messages | `AgentRuns` uses `Goals` |
| `MC*` | instances for TLC | |
| `*Proofs` | theorems | on the module they are named after; `OutcomesProofs` also on `Reports` |
| `SumTheorems` | facts about sums over finite sets, for the proofs | |

The order was: what moves money (executor, client), what judges it (collector,
evaluator, reports), what proposes it (rules, proposals, agent runs). Parameters
are CONSTANTS with named assumptions, an action is one round-trip to the database,
to Meta or to the model, and no module declares a `RECURSIVE` operator.

Most models let a behaviour pick a *world* at the start: the set of faults it may
meet and who acts in it. That keeps runs small and lets a property name the
faults it survives.

## 3. What is modelled

### Guardrails, SpendSafety and Executor

`Guardrails` has the policy of `guardrails.go` as constants and `Validate`,
`ClampedPct` and `ApplyBudgetPct` as operators on a context record. `SpendSafety`
is what the user is promised: a row is decided once, an approved row is carried
out or refused once and in one step, not if a twin (same replay key) was carried
out, and not within the cooldown of another change of its scope.

| `Executor` | Code |
|---|---|
| `Decide` | `decideOptimizationAction`, one UPDATE guarded by `status = 'PENDING'` |
| `Receive` | row read and status test, before the mutex |
| `lockObjectExec`, `Finish` | the per-user, per-object mutex and its deferred unlock |
| `ReplayStored`, `StartRun` | replay query; start of the run, conversions of the window |
| `ReadCooldown` | `MAX(executed_at)`, whose error is dropped |
| `fetchLiveState`, `LiveUnreadable` | the read through the client's cache, and validation |
| `captureBeforeMetrics` | best-effort snapshot |
| `WriteApplied`, `WriteAmbiguous`, `WriteRefused` | the three ends of a POST |
| `RecordExecuted`, `RecordFailed` | the UPDATEs, with the partial unique index of migration 9 |
| `ReadElsewhere`, `StoreRead` | the GETs of other requests of the process, which fill the same cache |
| `Crash`, `ExternalChange`, `CacheExpire`, `Tick` | the environment |

`status`, `executedAt`, `captured` are columns; `held` is `execLocks`, `pc` and
`req` a handler's position and locals; `live` is Meta's side, `cache` the client's
entry for the object, `reading` what another request's GET (`get_campaign` of an
agent, say) was answered and has yet to store there: a write may flush the cache
in between (finding 2). While such a GET is out, a live read that misses the cache
follows it and fails (`Follows`). `applied` and `lastWrite` are history variables.
Faults: `overlap` (two requests for one row), `crash`, `ambiguous` (Meta applies the
POST, the answer is lost), `db_error`, `no_metrics`, `processes`, `external` (changes
in Ads Manager), `readers` (those other GETs). A tick is a large part of the cooldown,
so no request straddles two, nor does an answer between its GET and its expiry.

### MetaReads and MetaGate

The client is modelled twice because the concerns share only the attempt: for
`MetaReads` an attempt may always fail unsent, which is all the gate can do to it;
`MetaGate` knows nothing of what is read or written.

`MetaReads`: `RequestGet` (`cacheGet`), `joinInflight`, `Fetch`, `cachePut`,
`finishInflight` for reads, `RequestWrite`, `WriteOK`, `WriteLost`, `flushCache`
for writes, `Unanswered`, `Throttled`, `Refused` for failed attempts. Data is a
version of the object; `acked` remembers the last version a write confirmed,
`floor` what a read must not fall behind, `overtaken` whether a flush passed the
read while it was under way. That the cache key carries no token is left out.

`MetaGate`: `TakeSlot`, `WaitForSlot`, `SlotTimeout` for `slots`; `CircuitOpen`,
`UsageBlock`, `Pass` for `gate`; `trackUsage`, `registerThrottle`,
`registerSuccess`, `NoAnswer` for what an answer teaches; `request`,
`AttemptEnds`, `sleepBackoff` for the retry loop. Time is counted down: a delay is
what is left of it, so there is no clock to bound. `leaked` counts the calls that
reach Meta while their token is shut. The counters of `StatusSnapshot` are left out.

### Evaluator, Outcomes and Reports

`Evaluator` is `EvaluateAction` on metrics records: ratios are compared by
cross-multiplication, percentages only where they decide a verdict. Two oddities
of the code are kept: a CPA that becomes undefined counts as a fall by 100 %, and
the verdict on `REFRESH_CREATIVE` is there although the executor never executes one.

| `Outcomes` | Code |
|---|---|
| `StartPass` | the ticker of `StartOutcomeCollector`; `today` is fixed for the pass |
| `DueQuery`, `DueQueryFails`, `GoOn` | the loops of `CaptureDueOutcomes` over windows and rows |
| `Fetch`, `FetchFails` | `captureWindow`: insights of the window, goal, verdict |
| `Insert`, `InsertFails` | INSERT OR IGNORE; an ignored insert ends the window |
| `UpdateStatus` | the running verdict; the error of its UPDATE is not looked at |
| `Crash` | the process dies; nothing of a pass survives it |
| `Execute`, `Overwrite`, `EditGoal` | what the executor and users do around it |

A time is a number of half days: an even one is a midnight, an odd one any later
time of the day, which is all `julianday(today) - julianday(executed_at)` tells
apart. Meta knows the days of the account that are over. The account counts days in
its own time zone, the collector in UTC: west of UTC a day ends later (`Lag`). What
became of the object after the action is a *history*, picked at the start, and so is
the lag of its account. All processes share one clock.

`Reports` are both reports as operators on these tables: they read one state and
change nothing. Sums of quotients stay exact fractions until the code rounds. A mean
of changes weighs each by what was spent before, by one unit of money at least.

### Analytics, Rules and Proposals

`Analytics` are the figures: `NormalizeInsight` with its precedence of action
types, sums, `ScorePerformance`, `AssessHealth`, `AssessFatigue`,
`DetectAnomalies`, `AssessGoalProgress`. `Rules` are the nine rules, the choice of
the strongest and the order of a report. Ratios stay pairs of integers; confidences
are in hundredths, which is what `clamp01` rounds to. Leads that cost nothing against
a target CPL of 0 are 0/0: the NaN passes the clamp, and what `int` makes of it is left
to the compiler, hence the constant `IntOfNaN` (the lowest integer on amd64, 0 on arm64).

`Proposals` is one generation request: `ListObjects`, `FetchMetrics` and
`FetchDaily` per object, `Plan` (sort, decide, drop `NO_ACTION`), then for each
recommendation `SelectExisting` and `InsertProposal`, with `MetaFails` and
`DatabaseFails`. The listing is sorted by `sort.Slice`, which is not stable, so objects
of equal spend come in any order (`BySpend`). `decideOptimizationAction` and `Drift` (Meta reports something
else) happen at any moment in between.

### Goals and AgentRuns

`Goals`: create, edit in two round-trips (`BeginUpdate`, `UpdateGoal`: the second
writes every column of what the first read), status, delete. `AgentRuns`:

| `AgentRuns` | Code |
|---|---|
| `StartRun` ... `InsertPrompt` | `prepareAgentRun`: session, linked or named goal, link, prompt |
| `SetSnapshot`, `SetPersister` | `tools.ToolsGoalSnapshot` and `tools.OptimizationPersister`, the package variables |
| `Chat`, `CallTool` | `Runtime.Run`: the model is asked, its calls are executed |
| `BeginOptimize`, `OptimizeCampaign` | `optimize_campaign`: reads one variable, later calls the other |
| `FinishRun` | `finishAgentRun` |
| `People`, `Crash` | goals and sessions edited meanwhile; the process dies |

Rows remember in `asker` and `toward` which run asked for them, besides the columns
`user` and `goal` they were stored under.

### Not modelled

- *Tool registry and Meta CRUD tools* (`internals/tools/tools.go`, `campaigns.go`):
  a fixed table of declarations and one request builder per tool, without state. A
  call reaches Meta through the client, whose retries are modelled.
- *AI providers*: stateless conversion of one request and one answer; `AgentRuns`
  has the provider answer anything, or fail.
- *Meta connection and accounts, authentication, routes, commands, migrations*:
  redirects, cookies, one upsert per account, a schema created once. The
  constraints the handlers rely on are in the models that use them.
- *Reads*: handlers that only list, JSON shapes, logging, streaming.
- Left out of modelled parts: comparison of objects, trend directions, budget
  efficiency and the layout of an analytics report, which only inform; counts of
  a report by time of creation and its daily series; the plan and the history
  sent to the model, which live no longer than a run; titles, texts and dates.

## 4. The runs

| Run | Question | Answer |
|---|---|---|
| `executor_clean` | one process, no failures: is the promise kept? | Yes: a replay key acts once, changes are a cooldown apart, budgets stay within the caps, every request is answered, and `Executor` implements `SpendSafety`. |
| `executor_faults` | what survives crashes, double clicks, lost answers, SQL errors, a second process, other readers? | Mutual exclusion, approval, honest success; no other row of a key reaches Meta once its execution is on record, unless there are two processes; a bound on how often one row is applied; the caps, also when others fill the cache; outcomes stay settled unless requests overlap. |
| `executor_clicks` | does the cooldown survive three clicks on one row? | **No** (finding 1). |
| `proposals` | what do generations store, and are the rules coherent? | Nothing pending twice except by overlapping requests, then once each; the urgent first; no rule loses to "keep"; percentages are executed as written; cheaper is never worse; few outliers. |
| `reads` | is the cache, with singleflight and retries, right? | One flight per key, no orphaned follower, one change per request, and reads fresh unless a flush overtook them. |
| `reads_stale` | do reads never see stale data? | **No** (finding 2). |
| `gate` | do slots and the breaker hold, and do requests return? | No slot is lost; fewer calls than there are slots slip through after a token shuts; every request returns. |
| `gate_latch` | does the block at 90 % usage lift? | **No** (finding 3). |
| `outcomes` | are actions judged once, on whole windows, and in the end? Do the reports add up? | Yes, also by two processes, with crashes, failing steps and edited goals. (Whole windows except after an execution at midnight in an account west of UTC.) As long as one process collects and neither it nor a statement fails, the running verdict is the one stored last, and if no fetch fails either that of the longest window. |
| `outcomes_pause` | does a successful pause mean the object went quiet? | **No** (finding 4). |
| `agents` | do runs stay with their user and goal, and end? | Yes: only runs that overlap mix up users, and through the package variables only. Pauses survive edits. A run ends unless the provider leaves a call of it unanswered for ever. |
| `agents_hooks` | are the package variables safe, as their comments say? | **No** (finding 5). |

### Bounds, and why they are enough

- *Executor.* `executor_clean` and `executor_faults` have two workers, so every
  pair of steps of two requests meets. A third click on one row does matter, and
  `executor_clicks` has three; how the damage grows with the clicks is
  `AppliedBounded`, proved for every number of workers. Rows 1 and 2 share a
  replay key, row 3 pulls the same object the other way and asks for more than
  the cap. `Cooldown = 2` and `MaxTime = 2` allow a change inside the window and
  one exactly at its end. `MaxApplied = 2` lets a change reach Meta a second time,
  which is what has to be seen. `Decided` says which rows people decide about in each
  world: all three where nothing fails, the two of one key where something does, one
  where clicks on it overlap in two processes, and with other readers the two that
  pull the object either way, since a stale budget shows where the second change
  would go too far.
- *MetaReads.* Three callers on one key: a leader, a follower and a writer, or two
  leaders in turn and a writer. `MaxVersion = 2` allows two writes,
  `MaxRetries = 1` one repetition, which is where a double change would show.
- *MetaGate.* Three callers for two slots and one token: one in the queue while two
  race. Usage 0 (no header), 90 and 100, falling by `Decay = 10` where the code
  lowers it by 2, so that the lines at 70 and 90 are crossed in few steps.
  `throttles` stops at `MaxShift + 1`, above which the code no longer looks at it.
- *Outcomes.* One row, as no query relates two; windows 1 and 3 stand for 1, 3 and
  7: what matters is a shorter and a longer one, captured in either order.
  Execution at midnight and later in the day, and a clock (`MaxTime = 11`) that
  leaves the longest window a day to be retried. Two processes: a third could only
  lose the same race for the unique index. The object goes on as before or falls
  silent, the goal's target is absent or missed, so that windows and collectors
  disagree; in the third history it goes on in an account west of UTC. A pass takes
  less than a day.
- *Proposals.* Three worlds without interleaving enumerate inputs: several hundred
  kinds of objects beside an ordinary one (each threshold of the rules is passed on
  both sides), among them one of leads for free and a target CPL of 0, pairs of
  figures Meta may report one after the other, and all daily series of five and eight
  days with up to three high ones. Two worlds interleave: one generator twice with
  drifting figures and Meta errors, and two overlapping ones, both with people
  deciding and failing statements.
- *AgentRuns.* Two users with one request slot each, two iterations of one tool call.
  The worlds: two requests each one after the other; overlapping with provider
  failures; one run among three, or with crashes and failing statements two,
  deeds of people. A session is linked to somebody else's goal at the start, as
  nothing in the program prevents it.

### Fairness

- *Executor:* weak fairness for each handler, as every round-trip ends (the HTTP
  client has a timeout, SQLite a busy timeout), and strong fairness for
  `lockObjectExec`, as Go's mutex hands over to a waiter that starves. None for
  people, crashes or the clock.
- *Gate:* weak fairness for attempts (sleeps end, requests time out), for time, and
  for callers that keep coming. The last favours the system: even so the usage
  block does not lift.
- *Outcomes:* time passes, passes end, the ticker of the first process keeps firing
  (weak); for each window its query, and for each row its fetch and insert there,
  succeed sometimes if tried again and again (strong). Passes that never succeed
  capture nothing in the code either. Crashes are not limited.
- *AgentRuns:* weak fairness for each run's own steps: the database and Meta answer,
  if only with an error. None for `Chat`: the providers are asked through an
  `http.Client` without timeout and without a context (`gemini.go:130`,
  `openrouter.go:334`), so a call may never return. None for people or new requests.

## 5. What is proved

For every value of the constants, from the named assumptions only (and, where a
theorem says so, for behaviours exposed to the faults it names). Every property
of a passing run that is not liveness is the statement of a theorem.

**ExecutorProofs.** `TypeOK` is inductive; it needs that clamping and rounding keep
a budget natural. `MutexInv` adds to `ObjectExclusion` that a handler in its
critical section holds the lock: a crash removes the locks of a process and its
handlers together. `GateInv` strengthens `OnlyApprovedApplied` by "a row with a
request in flight is no longer pending or rejected": decisions only leave
`PENDING`, nothing returns to it, so the status test before the mutex is enough for
approval, though not for more. `SuccessInv` carries `applied > 0` from the write to
the record, and from the record to the replays that answer from it.
`HeedInv` gives `ReplayHeeded`: past the lookup of its key a request of a single
process finds no execution of it, because a row of that key is of the same user and
object, so that whoever would record one needs the mutex this request holds.

**ExecutorPromiseProofs**, about one process whose statements succeed. `QuietInv`
is what a request in flight knows: what it read under the mutex (the replay key,
the times in its scope) stays true until it writes. It rests on `Cooldown >= 2`:
in the model no request lasts as long as the cooldown, so a row executed while a
request waits for the mutex is seen as too recent. On top of it:
- `ClicksBounded` counts. The workers share a budget of one more than there are of
  them; every request in flight on a row may still take one from it, an application
  takes two, and only a row that is `FAILED` lets the next one start. Hence at most
  (n + 1) / 2 applications by n overlapping clicks, which TLC confirms is reached
  by three, and one if answers are lost but clicks do not overlap.
- `OutcomesSettle`: without overlap a row in flight is `APPROVED` and nobody else's,
  across crashes, failures and processes.
- `KeyAppliedOnce`, `CooldownKept` and `ImplementsSafety` (`KeepsPromise`), for
  behaviours that are `Clean`, without overlap and failures: `CleanInv` says that
  every change is recorded or about to be, no earlier than it was made. Then
  `WriteApplied` is `CarryOut`, `RecordFailed` is `Refuse`, `RecordExecuted` and all
  the rest stutter.

- `BudgetWithinCaps` (`CapsHold`): `CurrentInv` says of a request past its live
  read that what it read is what Meta has, and that what the guardrails permitted on
  it they permit still (`Informed`). That nobody else writes the object meanwhile needs
  the mutex, which is per user, hence that all rows of an object have one user. Of an
  answer in the cache, or on its way there, it says that it is what Meta has *or* that
  a change on record is not older than it (`Trusted`): other requests fill the cache
  too, and may do so after the flush of a write they were overtaken by. A budget is
  then computed from a stale answer only within the cooldown of that change, where the
  guardrails refuse it; this rests on `Cooldown >= 2`, as a cached answer lives for
  minutes and the cooldown for hours. Where the record is not to be relied on, the
  stale answer gets through: with other readers *and* overlapping clicks (`FAILED` over
  `EXECUTED`) or failing statements the caps do not hold, which TLC confirms if
  `Undisturbed` is widened, so the theorem excludes those two combinations. Without
  other readers it covers overlap, crashes and failing statements. An absolute budget is
  clamped as a percentage of what was read, and rounding stays on the right side of
  the cap.

**MetaReadsProofs.** `FlightInv` (the table of flights names exactly the leaders)
gives `SingleFlight` and `NeverOrphaned`. `ChangeInv` (a request that may still be
sent has changed nothing, or its object is gone) gives `ChangedAsTold`: a DELETE is
repeated, but an object is deleted once. `FreshInv` ties the cache, the leaders and
the answers to `acked`, and gives `FreshUnlessOvertaken`.

**MetaGateProofs.** `CapInv` (filled slots are the holders', never more than
`MaxConcurrent`) gives `SlotsAccounted`. `LeakInv` bounds the leaked calls of a
token *plus* those past its gate by the slots, and by one less once the token shut,
since whoever shut it holds a slot or held one; it gives `LeakBounded`. `TypeOK`
bounds the cooldown, whose length doubles with the throttles: `PowerOfTwo` has 2^n
a natural number as the size of a power set. It assumes that Meta reports finitely
many usages (`GateAssumption`): the header holds percentages.

**OutcomesProofs.** `DueInv` is the heart: a row a pass still works with was executed
before now, hence nobody touches it any more (`Execute` needs an approved row,
`Overwrite` the moment of execution), and it is due for the window being worked on.
`WindowOver` gets from it that Meta knows every day of the window, if the row was not
executed at midnight or the account's day ends no later than the collector's
(`DueWhenOver`), and so `FindingInv`: what a pass is about to store is the figures of the whole window, and
what it is about to show is stored. `StoredInv` adds the unique index, and gives
`WholeWindows`, `OnlyExecutedJudged`, `VerdictBacked` and `CountedOnce`.

`RunningVerdict` has two parts. `LatestInv` gives the first: the one process inserts
under an id larger than all there are and then shows what it inserted, whatever
fetches fail in between, so what is shown is the row's outcome with the largest id.
The second needs the order of that process's work. `OrderInv` says of `Calm`
behaviours, in which fetches succeed, that only the first process collects, and of its pass (`PassInv`) that
nothing is due any more for the windows it has left behind, that what is due for the
one it works on is still to be judged, and that rows still to be judged have all
shorter windows. So outcomes of a row are stored from the shortest window to the
longest, and the last one is both what is shown and what is counted. No row becomes
due during a pass, since the pass goes by the date it began with (`NoNewDue`).

`ReportsHold` rests on `FiguresInv`: what a pass holds as the figures before is the
column, which nothing overwrites once the row is `EXECUTED`, so what is counted has
figures on both sides. Then the means are numbers, because a ratio is compared only
where neither its denominators nor the spend that weighs it are zero
(`ImprovementsTyped`), and the score is a percentage because its weights add up to
one with and without the other figures (`ScoreBounded`). Counted by action and added
up it is what is counted in all (`PerAction`, by `SumOfParts`). That counts only grow
is an injection: every outcome counted before a step has, after it, a counted
outcome of its row (`LongestCounted`), and two have different ones (`CountedOnce`).

**ProposalsProofs.** `RepeatInv`: requests that may not overlap take turns, and
between its look for a twin and its INSERT a request is overtaken by others only.
It gives `NoRepeat` for every number of requests, objects and rules.

The decision engine is proved about rule by rule: what each of the nine may
recommend is `Sound`, acts with more confidence than the rule that keeps the object,
and has one of three percentages. `Optimize` returns the strongest of what fires
(`GreatestOf`), hence `ActionOutranksKeep`, for any account, figures and goal.
`TypeInv` adds to `TypeOK` that an id names one row: ids count the rows, which are
never deleted. `AdviceInv` carries soundness from the plan to the rows, and keeps
plan and rows in order of urgency; `RunsInv` keeps the rows of an earlier request of a
generator apart from those of the current one. Together they give `UrgentFirst`.
`ProposedWithinPolicy` (`ApprovedAsWritten`) has hypotheses: `MaxIncreasePct` is at
least 20 and `MaxDecreasePct` at least 30, which are the values shipped
(`guardrails.go:36-37`); with a lower limit the executor clamps what was approved.

`CheaperIsNoWorse` is monotonicity, through truncation and rounding: of a quotient in
its terms (`QuotientMonotone`), of the score and of the progress towards a goal. It is
about objects that spend: what cost nothing has no cost per result to compare, and a
lead for free is scored by `IntOfNaN` where the target is 0.
`OutliersAreFew` is Chebyshev's inequality for the population deviation: days more
than two deviations off their mean are at most a quarter of them, for a series of
any length. `ProposalsAssumption` says what reports, goals and windows are made of;
figures are natural numbers.

**SumTheorems.** The library's induction theorems take an operator, which the
provers cannot instantiate. Here induction over a finite set is stated for a *set*
of good subsets (`SubsetInduction`, `SetInduction`), from the well-foundedness of
strict inclusion. With it: a finite set has a greatest element; `SumFunctionOnSet`,
which takes out elements in an order nobody knows, may be taken apart at any of
them (`SumSplit`); sums are monotone, bounded by their terms, and those of the
parts of a set add up to it (`SumOfParts`); Chebyshev's inequality for integers.

**AgentRunsProofs.** `TypeOK` needs `PlacesInv`, which says where a run has a session
and a goal. `ForeignInv` gives `NothingForeign`: past its session a run works in one
of its user's or in one deleted since (`SessionsOwn`); whosever closure is installed,
its goal is its user's (`PersisterOwn`); and a run alone in flight finds the package
variables as it has set them (`AloneInv`). `EditsNeverReopen` is `StatusKept`.

**Only model-checked.** Liveness (`Answered`, `Returned`, `EveryWindowCaptured`,
`RunsEnd`), which is out of the prover's reach: it needs `ENABLED` of the steps that
are fair. That the runs marked as violations violate what they check. And that the
bounds are sharp: TLC finds the (n + 1) / 2 applications that `ClicksBounded` allows.

## 6. Findings

1. **Three clicks on one row defeat the cooldown** (`executor.go:65`). The status is
   read before the mutex and never again. The second request is refused by the
   cooldown the first created and overwrites `EXECUTED` with `FAILED`; the cooldown
   and replay queries see only `EXECUTED` rows, so the third changes the object
   again at once. With another approved row for the object two clicks are enough.
2. **A GET answered before a write may be cached after its flush**
   (`client.go:239`) and serve stale data for a whole TTL.
3. **Usage at the hard line latches** (`client.go:388`): only an answer lowers it,
   and no request of the token gets one until the process restarts.
4. **A pause is judged by totals of unequal length** (`evaluator.go:157`): the spend
   of 1, 3 or 7 days after is compared with a quarter of the spend of up to 30 days
   before, so a campaign that spends as ever is a `SUCCESS`.
5. **Overlapping agent runs store proposals for each other's users**
   (`agent.go:340`): a run calls the closure the last prepared run has left in
   `tools.OptimizationPersister`.

### Seen while reading and not checked by a run

- *Executor and client:* "decide on reality, not cache" (`executor.go:232`), but the
  live read may be a cached answer (`364`), which other requests store too; with
  overlapping clicks or failing statements a written budget may then exceed the caps.
  Also a follower of a successful read gets status 0 (`client.go:202`, `796-798`), which
  its caller reports as a Meta error. Nothing takes a token out of the bucket, so it
  never paces (`client.go:405-416`); Retry-After counts only when it is shorter than the
  computed cooldown (`450-457`); a pacing sleep holds a slot (`288`); answers overwrite
  `blockedUntil` in the order they arrive (`460`).
- *Collector and reports:* an execution at midnight makes a window due before the last
  day of an account west of UTC is over (`outcomes.go:168`). The running verdict goes
  back to a shorter window when that one is captured late, and stays behind after a
  crash between the INSERT and the UPDATE (`outcomes.go:218`). The effectiveness
  subscore adds the CPA change, so a CPA that rose raises the score, while a comment of
  `effectiveness.go` calls a negative change the improvement; with neutral verdicts
  only, a success rate of 0 weighs half.
- *Rules and analytics:* leads for free against a target CPL of 0 score the least where
  `int(NaN)` is the lowest integer (`intelligence.go:77-81`). `DaysInWindow` is the
  length of the preset, so the test of enough data (`rules.go:206`, `guardrails.go:65`)
  looks at what was asked for, not at what there is. A target ROAS of 0 is legal and
  taken as a target. Rules do not look at `PAUSED`. Raising a budget (up to .81) may
  outrank pausing for a dear result (.80). Raising needs a conversion, the guardrails
  five. A purchase reported under several action types counts once for each of them
  (`metrics.go:99`). Figures of the objects of one report are fetched at different
  moments.
- *Agents and goals:* a provider that never answers hangs its run (`gemini.go:130`,
  `openrouter.go:334`: no timeout, no context). An edit of a goal overwrites the columns
  of another edit in flight, against "PATCH semantics: only provided fields change"
  (`goals.go:371`), and no edit can unset a target. Foreign keys are off on the server's
  connections, so deleting a goal leaves sessions linked to it, and deleting a session
  leaves its messages. A session inserted before its goal is refused stays.
