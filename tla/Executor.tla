------------------------------- MODULE Executor -------------------------------
(***************************************************************************)
(* The proposal table and the executor, internals/core/executor.go: human  *)
(* decisions, concurrent execute requests, the Meta objects they change,   *)
(* the read cache between them, and the failures they meet.                *)
(*                                                                         *)
(* A request runs on a handler goroutine (Workers) of a server process     *)
(* (Servers).  One action is one database or Meta round-trip of           *)
(* ExecuteOptimizationAction and of runOptimizationAction inside it, so    *)
(* requests interleave exactly where the code can be descheduled.          *)
(***************************************************************************)
EXTENDS Guardrails, FiniteSets

CONSTANTS
    Users, Objects, Servers, Workers,
    Proposals,      \* ids of the rows of optimization_actions
    Row,            \* the columns of a row no handler updates
    InitialLive,    \* Meta's side of each object at the start
    ExternalStates, \* what people do to an object in Ads Manager
    Worlds,         \* the sets of faults a behaviour may be exposed to
    Decided,        \* per world: bound on the rows people decide about
    MaxTime,        \* bound on the clock
    MaxApplied      \* bound on applications of one row's change

Actions == ValidAction \ {"NO_ACTION"}  \* NO_ACTION is never stored
MetaStates == [status : MetaStatuses, budget : Nat]
RowType == [user : Users, object : Objects, action : Actions,
            pct : Int, preset : DatePresets, keyed : BOOLEAN]

\* "overlap"    two requests for the same row in flight (a double click)
\* "crash"      a server process dies and restarts
\* "ambiguous"  Meta applies a write whose answer is lost or is a 5xx
\* "db_error"   a statement fails (SQLite answers "database is locked")
\* "no_metrics" the insights of the object cannot be fetched
\* "processes"  several server processes share the database
\* "external"   people change the objects in Ads Manager meanwhile
\* "readers"    other requests of a process GET the objects as well
FaultKinds == {"overlap", "crash", "ambiguous", "db_error", "no_metrics",
               "processes", "external", "readers"}

ASSUME ExecutorAssumption ==
    /\ Proposals # {}
    /\ IsFiniteSet(Workers)
    /\ Cooldown >= 2  \* no request or cached answer lasts as long
    /\ Row \in [Proposals -> RowType]
    /\ Servers # {}
    /\ InitialLive \in [Objects -> MetaStates]
    /\ ExternalStates \subseteq MetaStates
    /\ Worlds \subseteq SUBSET FaultKinds
    /\ Decided \in [Worlds -> SUBSET Proposals]
    /\ MaxTime \in Nat
    /\ MaxApplied \in Nat

VARIABLES
    status,     \* column status
    executedAt, \* column executed_at
    captured,   \* column before_metrics is filled
    live,       \* the objects as Meta has them
    cache,      \* per server: metaclient's cached answer to GetCampaign
    reading,    \* per server: what another request's GET was answered, until
                \* it is stored in the cache
    held,       \* execLocks: the <<server, user, object>> mutexes held
    pc, req,    \* each worker's position and local variables
    reply,      \* the last answer each worker gave
    applied,    \* history: how often a row's change reached Meta
    lastWrite,  \* history: when a scope was last changed by the executor
    now,
    faults      \* the kinds of fault this behaviour may meet

rows == <<status, executedAt, captured>>
gets == <<cache, reading>>
clock == <<now, faults>>
vars == <<rows, live, gets, held, pc, req, reply, applied, lastWrite, clock>>

Statuses == {"PENDING", "APPROVED", "REJECTED", "EXECUTED", "FAILED"}
Time == 0..MaxTime
Unread == [status |-> "none", budget |-> 0]
ReadStates == MetaStates \cup {Unread}
NoEntry == [state |-> Unread, since |-> Never]
Entries == [state : MetaStates, since : Time] \cup {NoEntry}  \* of the cache
Scopes == Users \X Objects
Replies == {"none", "executed", "replayed", "failed", "error"}

\* Positions of a worker: waiting for the mutex, then inside it.
Critical == {"replay", "cooldown", "live", "capture", "write",
             "recordExecuted", "recordFailed"}
Positions == {"idle", "lock"} \cup Critical

\* A request's locals; `seen` is what fetchLiveState returned.
Requests == [id : Proposals, server : Servers, arrived : Time, started : Time,
             conversions : {0, MinConversionsForScale},
             lastExecutedAt : Time \cup {Never}, seen : ReadStates]

Home == CHOOSE s \in Servers : TRUE
Fresh(p, s, t) ==
    [id |-> p, server |-> s, arrived |-> t, started |-> 0, conversions |-> 0,
     lastExecutedAt |-> Never, seen |-> Unread]

ScopeOf(p) == <<Row[p].user, Row[p].object>>
LockOf(w) == <<req[w].server, ScopeOf(req[w].id)>>
InFlight(w) == pc[w] # "idle"

\* object | action | target | date preset; one user's keys never meet another's
IdempotencyKeyFor(p) ==
    <<Row[p].object, Row[p].action, Row[p].pct, Row[p].preset>>

\* Rows stored before the key column existed have none and match nothing.
SameKey(p, q) ==
    /\ Row[p].keyed /\ Row[q].keyed
    /\ Row[p].user = Row[q].user
    /\ IdempotencyKeyFor(p) = IdempotencyKeyFor(q)

ExecutedTwin(p) ==
    \E q \in Proposals \ {p} : SameKey(p, q) /\ status[q] = "EXECUTED"

ExecutedTimes(scope) ==
    {executedAt[q] : q \in {r \in Proposals :
                              ScopeOf(r) = scope /\ status[r] = "EXECUTED"}}

Fault(kind) == kind \in faults
Only(kinds) == faults \subseteq kinds  \* no other kind of fault

Init ==
    /\ status = [p \in Proposals |-> "PENDING"]
    /\ executedAt = [p \in Proposals |-> Never]
    /\ captured = [p \in Proposals |-> FALSE]
    /\ live = InitialLive
    /\ cache = [s \in Servers |-> [o \in Objects |-> NoEntry]]
    /\ reading = [s \in Servers |-> [o \in Objects |-> NoEntry]]
    /\ held = {}
    /\ pc = [w \in Workers |-> "idle"]
    /\ req = [w \in Workers |-> Fresh(CHOOSE p \in Proposals : TRUE, Home, 0)]
    /\ reply = [w \in Workers |-> "none"]
    /\ applied = [p \in Proposals |-> 0]
    /\ lastWrite = [s \in Scopes |-> Never]
    /\ now = 0
    /\ faults \in Worlds
-----------------------------------------------------------------------------
(* The human side: approve or reject a pending row, one guarded UPDATE. *)

\* Mutant: the UPDATE forgets AND status = 'PENDING'.
DecideUnguarded(p, verdict) ==
    /\ p \in Decided[faults]
    /\ status' = [status EXCEPT ![p] = verdict]
    /\ UNCHANGED <<executedAt, captured, live, gets, held, pc, req, reply,
                   applied, lastWrite, clock>>

Decide(p, verdict) ==
    /\ p \in Decided[faults]
    /\ status[p] = "PENDING"
    /\ status' = [status EXCEPT ![p] = verdict]
    /\ UNCHANGED <<executedAt, captured, live, gets, held, pc, req, reply,
                   applied, lastWrite, clock>>

-----------------------------------------------------------------------------
(* The handler.  The row is read and its status tested before the mutex. *)

\* Mutant: a failed row may be executed again.
ReceiveFailed(w, p, s) ==
    /\ pc[w] = "idle"
    /\ s = Home
    /\ status[p] \in {"APPROVED", "FAILED"}
    /\ \A v \in Workers : InFlight(v) => req[v].id # p
    /\ pc' = [pc EXCEPT ![w] = "lock"]
    /\ req' = [req EXCEPT ![w] = Fresh(p, s, now)]
    /\ reply' = [reply EXCEPT ![w] = "none"]
    /\ UNCHANGED <<rows, live, gets, held, applied, lastWrite, clock>>

Receive(w, p, s) ==
    /\ pc[w] = "idle"
    /\ s = Home \/ Fault("processes")
    /\ status[p] = "APPROVED"
    /\ \/ Fault("overlap")
       \/ \A v \in Workers : InFlight(v) => req[v].id # p
    /\ pc' = [pc EXCEPT ![w] = "lock"]
    /\ req' = [req EXCEPT ![w] = Fresh(p, s, now)]
    /\ reply' = [reply EXCEPT ![w] = "none"]
    /\ UNCHANGED <<rows, live, gets, held, applied, lastWrite, clock>>

\* Mutant: no mutual exclusion.
LockNothing(w) ==
    /\ pc[w] = "lock"
    /\ held' = held \cup {LockOf(w)}
    /\ pc' = [pc EXCEPT ![w] = "replay"]
    /\ UNCHANGED <<rows, live, gets, req, reply, applied, lastWrite, clock>>

lockObjectExec(w) ==
    /\ pc[w] = "lock"
    /\ LockOf(w) \notin held
    /\ held' = held \cup {LockOf(w)}
    /\ pc' = [pc EXCEPT ![w] = "replay"]
    /\ UNCHANGED <<rows, live, gets, req, reply, applied, lastWrite, clock>>

\* Mutant: the unlock is not deferred, a failure skips it.
FinishLocked(w, answer) ==
    /\ held' = IF answer = "failed" THEN held ELSE held \ {LockOf(w)}
    /\ pc' = [pc EXCEPT ![w] = "idle"]
    /\ reply' = [reply EXCEPT ![w] = answer]
    /\ req' = [req EXCEPT ![w] = Fresh(req[w].id, Home, 0)]

\* The handler returns: answer, deferred unlock, local variables gone.
Finish(w, answer) ==
    /\ held' = held \ {LockOf(w)}
    /\ pc' = [pc EXCEPT ![w] = "idle"]
    /\ reply' = [reply EXCEPT ![w] = answer]
    /\ req' = [req EXCEPT ![w] = Fresh(req[w].id, Home, 0)]

\* An executed row with this row's key answers for it; this row stays APPROVED.
ReplayStored(w) ==
    /\ pc[w] = "replay"
    /\ \/ ExecutedTwin(req[w].id) /\ Finish(w, "replayed")
       \/ Row[req[w].id].keyed /\ Fault("db_error") /\ Finish(w, "error")
    /\ UNCHANGED <<rows, live, gets, applied, lastWrite, clock>>

\* Mutant: the stored result of the key is not looked for.
StartUnchecked(w) ==
    /\ pc[w] = "replay"
    /\ req' = [req EXCEPT ![w].started = now, ![w].conversions = MinConversionsForScale]
    /\ pc' = [pc EXCEPT ![w] = "cooldown"]
    /\ UNCHANGED <<rows, live, gets, held, reply, applied, lastWrite, clock>>

\* runOptimizationAction starts: the clock is read, then the conversions of
\* the window are fetched; when the fetch fails they count as none.
StartRun(w) ==
    /\ pc[w] = "replay"
    /\ ~ExecutedTwin(req[w].id)
    /\ \E n \in {0, MinConversionsForScale} :
         req' = [req EXCEPT ![w].started = now, ![w].conversions = n]
    /\ pc' = [pc EXCEPT ![w] = "cooldown"]
    /\ UNCHANGED <<rows, live, gets, held, reply, applied, lastWrite, clock>>

\* Mutant: the query leaves out the row itself (... AND id <> ?).
ReadOthersCooldown(w) ==
    /\ pc[w] = "cooldown"
    /\ LET times == {executedAt[q] : q \in {r \in Proposals \ {req[w].id} :
                         /\ ScopeOf(r) = ScopeOf(req[w].id)
                         /\ status[r] = "EXECUTED"}} IN
       \E t \in times \cup {Never} :
         /\ \A u \in times : u <= t
         /\ req' = [req EXCEPT ![w].lastExecutedAt = t]
    /\ pc' = [pc EXCEPT ![w] = "live"]
    /\ UNCHANGED <<rows, live, gets, held, reply, applied, lastWrite, clock>>

\* MAX(executed_at) over the scope; the error of the query is not looked at,
\* a failed read is a read that found nothing.
ReadCooldown(w) ==
    /\ pc[w] = "cooldown"
    /\ LET times == ExecutedTimes(ScopeOf(req[w].id)) IN
       \E t \in times \cup {Never} :
         /\ \/ \A u \in times : u <= t
            \/ Fault("db_error") /\ t = Never
         /\ req' = [req EXCEPT ![w].lastExecutedAt = t]
    /\ pc' = [pc EXCEPT ![w] = "live"]
    /\ UNCHANGED <<rows, live, gets, held, reply, applied, lastWrite, clock>>

ContextOf(w, state) ==
    [action |-> Row[req[w].id].action,
     currentStatus |-> state.status,
     conversions |-> req[w].conversions,
     daysInWindow |-> presetDaysInt(Row[req[w].id].preset),
     requestedPct |-> Row[req[w].id].pct,
     lastExecutedAt |-> req[w].lastExecutedAt,
     now |-> req[w].started]

\* What the cached GET answers: an unexpired entry, else Meta's state.
Answer(w) ==
    LET o == Row[req[w].id].object
        entry == cache[req[w].server][o]
    IN  IF entry # NoEntry THEN entry ELSE [state |-> live[o], since |-> now]

\* While another GET of the object is out, one that misses the cache follows
\* it, and a follower is told status 0, which is an error.
Follows(w) ==
    LET s == req[w].server
        o == Row[req[w].id].object
    IN  cache[s][o] = NoEntry /\ reading[s][o] # NoEntry

\* fetchLiveState, then the guardrails on what it returned.
fetchLiveState(w) ==
    /\ pc[w] = "live" /\ ~Follows(w)
    /\ req' = [req EXCEPT ![w].seen = Answer(w).state]
    /\ cache' = [cache EXCEPT ![req[w].server][Row[req[w].id].object] = Answer(w)]
    /\ pc' = [pc EXCEPT ![w] = IF Validate(ContextOf(w, Answer(w).state))
                               THEN "capture" ELSE "recordFailed"]
    /\ UNCHANGED <<rows, live, reading, held, reply, applied, lastWrite, clock>>

\* The read fails: breaker open, network, Meta error, singleflight follower.
LiveUnreadable(w) ==
    /\ pc[w] = "live"
    /\ pc' = [pc EXCEPT ![w] = "recordFailed"]
    /\ UNCHANGED <<rows, live, gets, held, req, reply, applied, lastWrite, clock>>

\* Best effort: a failed fetch or UPDATE leaves the column as it was.
captureBeforeMetrics(w) ==
    /\ pc[w] = "capture"
    /\ \/ captured' = [captured EXCEPT ![req[w].id] = TRUE]
       \/ (Fault("no_metrics") \/ Fault("db_error")) /\ UNCHANGED captured
    /\ pc' = [pc EXCEPT ![w] = "write"]
    /\ UNCHANGED <<status, executedAt, live, gets, held, req, reply, applied,
                   lastWrite, clock>>

\* The state the Meta call of this request asks for.
Target(w) ==
    LET p == req[w].id
        o == Row[p].object
    IN  CASE Row[p].action = "PAUSE_CAMPAIGN" ->
               [live[o] EXCEPT !.status = "PAUSED"]
          [] Row[p].action = "RESUME_CAMPAIGN" ->
               [live[o] EXCEPT !.status = "ACTIVE"]
          [] OTHER ->
               [live[o] EXCEPT !.budget =
                  ApplyBudgetPct(req[w].seen.budget,
                                 ClampedPct(Row[p].action, Row[p].pct))]

\* Ad set and ad pauses pass Validate but have no case in the switch; a budget
\* change needs a daily budget that does not round to zero.
Dispatchable(w) ==
    \/ Row[req[w].id].action \in {"PAUSE_CAMPAIGN", "RESUME_CAMPAIGN"}
    \/ /\ Row[req[w].id].action \in BudgetActions
       /\ req[w].seen.budget > 0
       /\ Target(w).budget > 0

Apply(w) ==
    LET p == req[w].id IN
    /\ applied[p] < MaxApplied
    /\ live' = [live EXCEPT ![Row[p].object] = Target(w)]
    /\ applied' = [applied EXCEPT ![p] = @ + 1]
    /\ lastWrite' = [lastWrite EXCEPT ![ScopeOf(p)] = now]

\* POST answered 200: the client drops every cached GET.
WriteApplied(w) ==
    /\ pc[w] = "write" /\ Dispatchable(w)
    /\ Apply(w)
    /\ cache' = [cache EXCEPT ![req[w].server] = [o \in Objects |-> NoEntry]]
    /\ pc' = [pc EXCEPT ![w] = "recordExecuted"]
    /\ UNCHANGED <<rows, reading, held, req, reply, clock>>

\* POST applied by Meta, answer lost: not retried, not flushed, a failure.
WriteAmbiguous(w) ==
    /\ pc[w] = "write" /\ Dispatchable(w)
    /\ Fault("ambiguous")
    /\ Apply(w)
    /\ pc' = [pc EXCEPT ![w] = "recordFailed"]
    /\ UNCHANGED <<rows, gets, held, req, reply, clock>>

\* Mutant: the error of the call is swallowed.
RefusalSwallowed(w) ==
    /\ pc[w] = "write"
    /\ pc' = [pc EXCEPT ![w] = "recordExecuted"]
    /\ UNCHANGED <<rows, live, gets, held, req, reply, applied, lastWrite, clock>>

\* Refused before the POST (not executable, no budget, gate) or by Meta.
WriteRefused(w) ==
    /\ pc[w] = "write"
    /\ pc' = [pc EXCEPT ![w] = "recordFailed"]
    /\ UNCHANGED <<rows, live, gets, held, req, reply, applied, lastWrite, clock>>

\* Mutant: executed_at is not written.
RecordUntimed(w) ==
    LET p == req[w].id IN
    /\ pc[w] = "recordExecuted"
    /\ status' = [status EXCEPT ![p] = "EXECUTED"]
    /\ Finish(w, "executed")
    /\ UNCHANGED <<executedAt, captured, live, gets, applied, lastWrite, clock>>

\* UPDATE ... SET status = 'EXECUTED' WHERE id = ?; the partial unique index
\* on (user_id, idempotency_key) refuses a second EXECUTED row per key.
RecordExecuted(w) ==
    LET p == req[w].id IN
    /\ pc[w] = "recordExecuted"
    /\ \/ /\ ~ExecutedTwin(p)
          /\ status' = [status EXCEPT ![p] = "EXECUTED"]
          /\ executedAt' = [executedAt EXCEPT ![p] = now]
          /\ Finish(w, "executed")
       \/ /\ ExecutedTwin(p)
          /\ UNCHANGED <<status, executedAt>>
          /\ Finish(w, "replayed")
       \/ /\ Fault("db_error")
          /\ UNCHANGED <<status, executedAt>>
          /\ Finish(w, "failed")
    /\ UNCHANGED <<captured, live, gets, applied, lastWrite, clock>>

\* Mutant: a status the table does not know.
RecordRefused(w) ==
    LET p == req[w].id IN
    /\ pc[w] = "recordFailed"
    /\ status' = [status EXCEPT ![p] = "REFUSED"]
    /\ executedAt' = [executedAt EXCEPT ![p] = now]
    /\ Finish(w, "failed")
    /\ UNCHANGED <<captured, live, gets, applied, lastWrite, clock>>

\* UPDATE ... SET status = 'FAILED' WHERE id = ?, its error ignored.
RecordFailed(w) ==
    LET p == req[w].id IN
    /\ pc[w] = "recordFailed"
    /\ \/ /\ status' = [status EXCEPT ![p] = "FAILED"]
          /\ executedAt' = [executedAt EXCEPT ![p] = now]
       \/ /\ Fault("db_error")
          /\ UNCHANGED <<status, executedAt>>
    /\ Finish(w, "failed")
    /\ UNCHANGED <<captured, live, gets, applied, lastWrite, clock>>

-----------------------------------------------------------------------------
(* The environment. *)

\* A process dies: its handlers, mutexes, reads and cache go; rows and Meta remain.
Crash(s) ==
    LET Dies(w) == req[w].server = s /\ InFlight(w) IN
    /\ Fault("crash")
    /\ \E w \in Workers : Dies(w)
    /\ pc' = [w \in Workers |-> IF Dies(w) THEN "idle" ELSE pc[w]]
    /\ req' = [w \in Workers |-> IF Dies(w) THEN Fresh(req[w].id, Home, 0)
                                           ELSE req[w]]
    /\ held' = {l \in held : l[1] # s}
    /\ cache' = [cache EXCEPT ![s] = [o \in Objects |-> NoEntry]]
    /\ reading' = [reading EXCEPT ![s] = [o \in Objects |-> NoEntry]]
    /\ UNCHANGED <<rows, live, reply, applied, lastWrite, clock>>

\* Somebody changes the object in Ads Manager.
ExternalChange(o) ==
    /\ Fault("external")
    /\ \E m \in ExternalStates : live' = [live EXCEPT ![o] = m]
    /\ UNCHANGED <<rows, gets, held, pc, req, reply, applied, lastWrite, clock>>

\* Another request of the process, get_campaign of an agent's say, reads the
\* object: the cache has no answer, nobody is asking, Meta is asked ...
ReadElsewhere(s, o) ==
    /\ Fault("readers")
    /\ s = Home \/ Fault("processes")
    /\ cache[s][o] = NoEntry /\ reading[s][o] = NoEntry
    /\ reading' = [reading EXCEPT ![s][o] = [state |-> live[o], since |-> now]]
    /\ UNCHANGED <<rows, live, cache, held, pc, req, reply, applied, lastWrite, clock>>

\* ... and its answer is stored, also when a write has flushed the cache since.
StoreRead(s, o) ==
    /\ reading[s][o] # NoEntry
    /\ cache' = [cache EXCEPT ![s][o] = reading[s][o]]
    /\ reading' = [reading EXCEPT ![s][o] = NoEntry]
    /\ UNCHANGED <<rows, live, held, pc, req, reply, applied, lastWrite, clock>>

\* The entry outlives CacheTTL (or another write of the process flushes it).
CacheExpire(s, o) ==
    /\ cache[s][o] # NoEntry
    /\ cache' = [cache EXCEPT ![s][o] = NoEntry]
    /\ UNCHANGED <<rows, live, reading, held, pc, req, reply, applied, lastWrite, clock>>

\* A tick is a large part of the cooldown, hours: no request straddles two of
\* them, and no answer of Meta does between its GET and the end of CacheTTL.
Tick ==
    /\ now < MaxTime
    /\ \A w \in Workers : InFlight(w) => req[w].arrived = now
    /\ \A s \in Servers, o \in Objects :
         {cache[s][o].since, reading[s][o].since} \subseteq {now, Never}
    /\ now' = now + 1
    /\ UNCHANGED <<rows, live, gets, held, pc, req, reply, applied, lastWrite,
                   faults>>

Handler(w) ==
    \/ lockObjectExec(w)
    \/ ReplayStored(w) \/ StartRun(w)
    \/ ReadCooldown(w)
    \/ fetchLiveState(w) \/ LiveUnreadable(w)
    \/ captureBeforeMetrics(w)
    \/ WriteApplied(w) \/ WriteAmbiguous(w) \/ WriteRefused(w)
    \/ RecordExecuted(w) \/ RecordFailed(w)

Next ==
    \/ \E p \in Proposals, verdict \in {"APPROVED", "REJECTED"} :
         Decide(p, verdict)
    \/ \E w \in Workers, p \in Proposals, s \in Servers : Receive(w, p, s)
    \/ \E w \in Workers : Handler(w)
    \/ \E s \in Servers : Crash(s)
    \/ \E o \in Objects : ExternalChange(o)
    \/ \E s \in Servers, o \in Objects :
         ReadElsewhere(s, o) \/ StoreRead(s, o) \/ CacheExpire(s, o)
    \/ Tick

Spec == Init /\ [][Next]_vars

\* Every round-trip returns (the client has a timeout), and Go's mutex hands
\* over to a waiter that has been starved.  Nobody is obliged to decide,
\* click, crash or let time pass.
Fairness ==
    \A w \in Workers : /\ WF_vars(Handler(w))
                       /\ SF_vars(lockObjectExec(w))

FairSpec == Spec /\ Fairness
-----------------------------------------------------------------------------
(* Properties. *)

\* Every variable has its type.
TypeOK ==
    /\ status \in [Proposals -> Statuses]
    /\ executedAt \in [Proposals -> Time \cup {Never}]
    /\ captured \in [Proposals -> BOOLEAN]
    /\ live \in [Objects -> MetaStates]
    /\ cache \in [Servers -> [Objects -> Entries]]
    /\ reading \in [Servers -> [Objects -> Entries]]
    /\ held \subseteq Servers \X Scopes
    /\ pc \in [Workers -> Positions]
    /\ req \in [Workers -> Requests]
    /\ reply \in [Workers -> Replies]
    /\ applied \in [Proposals -> 0..MaxApplied]
    /\ lastWrite \in [Scopes -> Time \cup {Never}]
    /\ now \in Time
    /\ faults \in Worlds

\* "Serialize the whole read-check-mutate-record sequence per object": inside
\* one process no two requests for the same user and object are ever both
\* between taking the mutex and answering, whatever crashes or fails.
ObjectExclusion ==
    \A v, w \in Workers :
      v # w /\ pc[v] \in Critical /\ pc[w] \in Critical => LockOf(v) # LockOf(w)

\* The approval gate: a change reaches Meta only for a row a human approved;
\* reading the status outside the mutex cannot let a pending or a rejected
\* row through.
OnlyApprovedApplied ==
    \A p \in Proposals : applied[p] > 0 => status[p] \notin {"PENDING", "REJECTED"}

\* "if this exact proposal already executed successfully, return its stored
\* outcome instead of touching Meta": once the execution of a key is on record
\* no other row with that key reaches Meta, not even one whose request looked
\* the key up before the record was made; with clicks that overlap, crashes, lost
\* answers and failing statements, as long as one process serves the requests.
ReplayHeeded ==
    [][~Fault("processes") =>
         \A p \in Proposals : applied'[p] # applied[p] => ~ExecutedTwin(p)]_vars

\* "executed: true" is never said of a change that did not reach Meta: this
\* row's own, or for a replay that of a row with the same key.
HonestSuccess ==
    \A w \in Workers :
      reply[w] \in {"executed", "replayed"} =>
        \E q \in Proposals : /\ (q = req[w].id \/ SameKey(q, req[w].id))
                              /\ applied[q] > 0

\* One row's change reaches Meta once, also when the answer is lost and when
\* another process executes a row with the same key meanwhile.  Of the clicks on
\* one row that are in flight together every other one may apply it again: after
\* an execution the next click is refused by the cooldown and records FAILED, and
\* for the one after that nothing was executed.  A crash, or clicks and lost
\* answers together, may do worse.
AppliedBounded ==
    /\ Only({"ambiguous", "processes", "no_metrics", "external", "readers"})
         => \A p \in Proposals : applied[p] <= 1
    /\ Only({"overlap", "no_metrics", "external", "readers"})
         => \A p \in Proposals : 2 * applied[p] <= Cardinality(Workers) + 1

\* Two rows with one key change Meta once between them.
SameKeyAppliedOnce ==
    \A p, q \in Proposals :
      p # q /\ SameKey(p, q) => applied[p] = 0 \/ applied[q] = 0

\* "never modify the same object twice inside the window": the times of the
\* changes themselves, not of the rows that record them.
WriteCooldown ==
    [][\A p \in Proposals :
         applied'[p] # applied[p] /\ lastWrite[ScopeOf(p)] # Never
           => now - lastWrite[ScopeOf(p)] >= Cooldown]_vars

\* What was rejected, executed or failed stays so, unless two requests for one
\* row overlap: the UPDATEs that record an outcome do not look at the old one.
Settled ==
    [][\A p \in Proposals :
         ~Fault("overlap") /\ status[p] \in {"REJECTED", "EXECUTED", "FAILED"}
           => status'[p] = status[p]]_vars

\* Nobody changes an object behind the back of the process that changes it, and
\* it hears of its own changes; mutexes are per user, so each object needs one.
\* An answer another request got before a change may be stored after it: there
\* the change must be on record and stay there, for the cooldown to outlive it.
Undisturbed ==
    /\ Only({"overlap", "crash", "db_error", "no_metrics", "readers"})
    /\ Fault("readers") => ~Fault("overlap") /\ ~Fault("db_error")
    /\ \A p, q \in Proposals :
         Row[p].object = Row[q].object => Row[p].user = Row[q].user

\* A written budget stays within the caps around the budget Meta really has,
\* although it is computed from a read that may come from the cache, which other
\* requests fill as well.
CapsHold ==
    [][Undisturbed =>
         \A o \in Objects :
           LET b == live[o].budget IN
           /\ live'[o].budget <= ApplyBudgetPct(b, MaxIncreasePct)
           /\ live'[o].budget >= ApplyBudgetPct(b, -MaxDecreasePct)]_live

\* Meta has taken the change and the handler has yet to record it.
Recording(p) == \E w \in Workers : pc[w] = "recordExecuted" /\ req[w].id = p

\* The executor as its users see it: a row counts as executed from the moment
\* Meta has taken the change, also while the handler has yet to record it.
Promise == INSTANCE SpendSafety WITH
    Rows <- Proposals,
    Scope <- [p \in Proposals |-> ScopeOf(p)],
    Twins <- {t \in Proposals \X Proposals :
                t[1] # t[2] /\ SameKey(t[1], t[2])},
    Window <- Cooldown,
    state <- [p \in Proposals |->
                IF Recording(p) THEN "EXECUTED" ELSE status[p]],
    lastChange <- lastWrite,
    clock <- now

\* Without overlapping requests for one row and without failures, one process
\* carries out approved rows as atomically as SpendSafety does.
KeepsPromise == Promise!Spec

\* Every accepted request is answered, also when it queues for the mutex.
Answered == \A w \in Workers : InFlight(w) ~> ~InFlight(w)

-----------------------------------------------------------------------------
(* What makes the properties inductive. *)

\* What was read is what Meta has, and what it permitted it permits still.
Informed(w) ==
    /\ req[w].seen = live[Row[req[w].id].object]
    /\ Permitted(ContextOf(w, req[w].seen))

\* A change of the object is being recorded, or was at or after t.
ChangedSince(o, t) ==
    \E p \in Proposals :
      /\ Row[p].object = o
      /\ Recording(p) \/ (status[p] = "EXECUTED" /\ executedAt[p] >= t)

\* An answer of Meta, stored or on its way into the cache, is not older than
\* a tick, and what it says is so, unless a change on record has overtaken it.
Trusted(o, entry) ==
    entry # NoEntry =>
      /\ entry.since <= now /\ now <= entry.since + 1
      /\ entry.state = live[o] \/ (Fault("readers") /\ ChangedSince(o, entry.since))

\* While nobody else changes the objects, the cache and the requests about to
\* write know them as Meta has them.
CurrentInv ==
    Undisturbed =>
      /\ \A w \in Workers : req[w].server = Home
      /\ \A o \in Objects : Trusted(o, cache[Home][o]) /\ Trusted(o, reading[Home][o])
      /\ Fault("readers") \/ \A o \in Objects : reading[Home][o] = NoEntry
      /\ \A w \in Workers : pc[w] \in {"capture", "write"} => Informed(w)

\* A handler inside the mutex holds it, and nobody else is inside it.
MutexInv ==
    /\ \A w \in Workers : pc[w] \in Critical => LockOf(w) \in held
    /\ ObjectExclusion

\* A row with a request in flight has left the human's hands for good, and so
\* has a row whose change reached Meta.
GateInv ==
    /\ \A w \in Workers :
         InFlight(w) => status[req[w].id] \notin {"PENDING", "REJECTED"}
    /\ OnlyApprovedApplied

\* Past the lookup of its key, a request of the one process there is knows of no
\* execution: the mutex keeps every row of the key out.
HeedInv ==
    ~Fault("processes") =>
      \A w \in Workers :
        InFlight(w) =>
          /\ req[w].server = Home
          /\ pc[w] \in Critical \ {"replay"} => ~ExecutedTwin(req[w].id)

\* Success is only recorded, and was only ever recorded, after Meta took the
\* change.
SuccessInv ==
    /\ \A w \in Workers : pc[w] = "recordExecuted" => applied[req[w].id] > 0
    /\ \A p \in Proposals : status[p] = "EXECUTED" => applied[p] > 0
    /\ \A w \in Workers : reply[w] # "none" => pc[w] = "idle"
    /\ HonestSuccess
===============================================================================
