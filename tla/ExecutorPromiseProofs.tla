------------------------- MODULE ExecutorPromiseProofs -------------------------
(***************************************************************************)
(* Proofs about what one server process promises while nothing crashes and *)
(* no statement fails: how often a row is applied, the cooldown, the       *)
(* replay key, and that Executor implements SpendSafety.                   *)
(***************************************************************************)
EXTENDS ExecutorProofs, FiniteSetTheorems

USE ExecutorAssumption, PolicyAssumption DEF Never, NoPct

Quiet == Only({"overlap", "crash", "ambiguous", "no_metrics", "external", "readers"})

\* What a request in flight knows, while one process keeps its mutexes and
\* every statement succeeds.
QuietRequest(w) ==
    LET p == req[w].id IN
    /\ req[w].server = Home
    /\ req[w].arrived <= now /\ now <= req[w].arrived + 1
    /\ status[p] \in {"APPROVED", "EXECUTED", "FAILED"}
    /\ status[p] = "EXECUTED" => executedAt[p] >= req[w].arrived
    /\ pc[w] \in Critical \ {"replay"} =>
         /\ req[w].started \in req[w].arrived..now
         /\ ~ExecutedTwin(p)
    /\ pc[w] = "live" => \A t \in ExecutedTimes(ScopeOf(p)) : t <= req[w].lastExecutedAt
    /\ pc[w] \in {"capture", "write"} =>
         \A t \in ExecutedTimes(ScopeOf(p)) : now - t >= Cooldown
    /\ pc[w] = "recordExecuted" => status[p] # "EXECUTED"

QuietInv ==
    /\ \A w \in Workers : InFlight(w) => QuietRequest(w)
    /\ \A p \in Proposals : status[p] = "EXECUTED" => executedAt[p] \in 0..now

\* In one process the mutex keeps two handlers off one scope.
LEMMA OneInScope ==
    ASSUME TypeOK, ObjectExclusion, QuietInv, NEW v \in Workers, NEW w \in Workers, v # w,
           pc[v] \in Critical, pc[w] \in Critical
    PROVE  ScopeOf(req[v].id) # ScopeOf(req[w].id)
  BY DEF ObjectExclusion, QuietInv, QuietRequest, LockOf, InFlight, Critical

\* A handler does not disturb what another one knows.
LEMMA OthersUndisturbed ==
    ASSUME TypeOK, ObjectExclusion, QuietInv,
           NEW v \in Workers, Handler(v), NEW w \in Workers, w # v, InFlight(w)
    PROVE  QuietRequest(w)'
  <1> PICK p \in Proposals, q \in Proposals : p = req[w].id /\ q = req[v].id
    BY RequestTyped
  <1>1. pc'[w] = pc[w] /\ req'[w] = req[w] /\ now' = now /\ pc[v] # "idle"
    <2>1. pc[v] # "idle"
      BY HandlerMoves DEF lockObjectExec, Critical
    <2> QED
      BY <2>1, HandlerMoves, HandlerTimes
  <1>2. QuietRequest(w) /\ QuietRequest(v)
    BY <1>1 DEF QuietInv, InFlight
  <1>3. CASE UNCHANGED <<status, executedAt>>
    BY <1>1, <1>2, <1>3 DEF QuietRequest, ExecutedTwin, ExecutedTimes
  <1>4. CASE /\ pc[v] \in {"recordExecuted", "recordFailed"}
             /\ status'[q] \in {"EXECUTED", "FAILED"} /\ executedAt'[q] = now
             /\ \A r \in Proposals \ {q} :
                  status'[r] = status[r] /\ executedAt'[r] = executedAt[r]
    <2>1. /\ status'[p] \in {"APPROVED", "EXECUTED", "FAILED"}
          /\ status'[p] = "EXECUTED" => executedAt'[p] >= req[w].arrived
      BY <1>2, <1>4 DEF QuietRequest
    <2>2. CASE pc[w] \notin Critical
      BY <1>1, <1>2, <2>1, <2>2 DEF QuietRequest, Critical
    <2>3. CASE pc[w] \in Critical
      <3>1. ScopeOf(q) # ScopeOf(p)
        BY <1>4, <2>3, OneInScope DEF Critical
      <3>2. /\ ExecutedTwin(p)' => ExecutedTwin(p)
            /\ ExecutedTimes(ScopeOf(p))' \subseteq ExecutedTimes(ScopeOf(p))
        BY <1>4, <3>1, OtherRow
      <3>3. status'[p] = status[p] /\ ScopeOf(p)' = ScopeOf(p)
        BY <1>4, <3>1 DEF ScopeOf
      <3>4. req'[w].id = p /\ req[w].id = p
        BY <1>1
      <3> QED
        BY <1>1, <1>2, <2>1, <3>2, <3>3, <3>4 DEF QuietRequest
    <2> QED
      BY <2>2, <2>3
  <1> QED
    BY <1>3, <1>4, HandlerTimes

\* What a handler knows after a step of its own.
LEMMA OwnStepQuiet ==
    ASSUME TypeOK, Quiet, QuietInv, NEW w \in Workers, Handler(w), InFlight(w)'
    PROVE  QuietRequest(w)'
  <1> USE DEF rows, gets, clock, QuietRequest, Critical
  <1> PICK p \in Proposals : p = req[w].id
    BY RequestTyped
  <1>1. InFlight(w) /\ QuietRequest(w)
    BY HandlerMoves DEF InFlight, lockObjectExec, QuietInv
  <1>2. /\ req'[w].id = p /\ req'[w].server = req[w].server
        /\ pc'[w] # "idle" /\ now' = now
        /\ ScopeOf(p)' = ScopeOf(p)
    BY HandlerMoves, HandlerTimes DEF InFlight, ScopeOf
  <1>3. UNCHANGED <<status, executedAt>>
    BY <1>2, HandlerTimes
  <1>4. ExecutedTwin(p)' = ExecutedTwin(p) /\ ExecutedTimes(ScopeOf(p))' = ExecutedTimes(ScopeOf(p))
    BY <1>2, <1>3 DEF ExecutedTwin, ExecutedTimes, SameKey, IdempotencyKeyFor, ScopeOf
  <1>5. CASE lockObjectExec(w)
    BY <1>1, <1>2, <1>3, <1>5 DEF lockObjectExec, TypeOK
  <1>6. CASE StartRun(w)
    <2>1. /\ req'[w].started = now /\ req'[w].arrived = req[w].arrived
          /\ pc'[w] = "cooldown" /\ ~ExecutedTwin(p)
      BY <1>6 DEF StartRun, TypeOK, Requests
    <2> QED
      BY <1>1, <1>2, <1>3, <1>4, <2>1, RequestTyped
  <1>7. CASE ReadCooldown(w)
    <2>1. PICK t \in ExecutedTimes(ScopeOf(p)) \cup {Never} :
             /\ \A u \in ExecutedTimes(ScopeOf(p)) : u <= t
             /\ req' = [req EXCEPT ![w].lastExecutedAt = t]
      BY <1>7 DEF ReadCooldown, Quiet, Only, Fault
    <2>2. /\ req'[w].lastExecutedAt = t /\ req'[w].arrived = req[w].arrived
          /\ req'[w].started = req[w].started
      BY <2>1 DEF TypeOK, Requests
    <2>3. pc[w] = "cooldown" /\ pc'[w] = "live"
      BY <1>7 DEF ReadCooldown, TypeOK
    <2> QED
      BY <1>1, <1>2, <1>3, <1>4, <2>1, <2>2, <2>3
  <1>8. CASE fetchLiveState(w)
    <2>1. /\ req'[w].arrived = req[w].arrived /\ req'[w].started = req[w].started
          /\ pc[w] = "live"
      BY <1>8 DEF fetchLiveState, TypeOK, Requests
    <2>2. CASE Validate(ContextOf(w, Answer(w).state))
      <3>1. req[w].lastExecutedAt = -1 \/ req[w].started - req[w].lastExecutedAt >= Cooldown
        BY <2>2 DEF Validate, CooledDown, ContextOf
      <3>2. ASSUME NEW t \in ExecutedTimes(ScopeOf(p))
            PROVE  now - t >= Cooldown
        <4>1. t \in 0..now /\ t <= req[w].lastExecutedAt
          BY <1>1, <2>1 DEF QuietInv, ExecutedTimes
        <4> QED
          BY <1>1, <2>1, <3>1, <4>1, RequestTyped
      <3>3. pc'[w] = "capture"
        BY <1>8, <2>2 DEF fetchLiveState, TypeOK
      <3> QED
        BY <1>1, <1>2, <1>3, <1>4, <2>1, <3>2, <3>3
    <2>3. CASE ~Validate(ContextOf(w, Answer(w).state))
      <3>1. pc'[w] = "recordFailed"
        BY <1>8, <2>3 DEF fetchLiveState, TypeOK
      <3> QED
        BY <1>1, <1>2, <1>3, <1>4, <2>1, <3>1
    <2> QED
      BY <2>2, <2>3
  <1>9. CASE captureBeforeMetrics(w)
    <2>1. req' = req /\ pc[w] = "capture" /\ pc'[w] = "write"
      BY <1>9 DEF captureBeforeMetrics, TypeOK
    <2> QED
      BY <1>1, <1>2, <1>3, <1>4, <2>1
  <1>10. CASE WriteApplied(w)
    <2>1. req' = req /\ pc[w] = "write" /\ pc'[w] = "recordExecuted"
      BY <1>10 DEF WriteApplied, TypeOK
    <2>2. status[p] # "EXECUTED"
      <3>1. status[p] = "EXECUTED" => executedAt[p] \in ExecutedTimes(ScopeOf(p))
        BY DEF ExecutedTimes
      <3>2. status[p] = "EXECUTED" => now - executedAt[p] >= 2
        BY <1>1, <2>1, <3>1, RequestTyped DEF QuietInv
      <3> QED
        BY <1>1, <3>2, RequestTyped DEF QuietInv
    <2> QED
      BY <1>1, <1>2, <1>3, <1>4, <2>1, <2>2
  <1>11. CASE LiveUnreadable(w) \/ WriteAmbiguous(w) \/ WriteRefused(w)
    <2>1. req' = req /\ pc[w] \in {"live", "write"} /\ pc'[w] = "recordFailed"
      BY <1>11 DEF LiveUnreadable, WriteAmbiguous, WriteRefused, TypeOK
    <2> QED
      BY <1>1, <1>2, <1>3, <1>4, <2>1
  <1>12. CASE ReplayStored(w) \/ RecordExecuted(w) \/ RecordFailed(w)
    BY <1>2, <1>12 DEF ReplayStored, RecordExecuted, RecordFailed, Finish, TypeOK
  <1> QED
    BY <1>5, <1>6, <1>7, <1>8, <1>9, <1>10, <1>11, <1>12 DEF Handler

LEMMA QuietStep ==
    TypeOK /\ ObjectExclusion /\ Quiet /\ QuietInv /\ [Next]_vars => QuietInv'
  <1> SUFFICES ASSUME TypeOK, ObjectExclusion, Quiet, QuietInv, [Next]_vars
               PROVE  QuietInv'
    OBVIOUS
  <1> USE DEF rows, gets, clock
  <1>1. ASSUME NEW v \in Workers, Handler(v)
        PROVE  QuietInv'
    <2>1. ASSUME NEW w \in Workers, InFlight(w)' PROVE QuietRequest(w)'
      <3>1. CASE w = v
        BY <1>1, <2>1, <3>1, OwnStepQuiet
      <3>2. CASE w # v
        <4>1. InFlight(w)
          BY <1>1, <2>1, <3>2, HandlerMoves DEF InFlight
        <4> QED
          BY <1>1, <3>2, <4>1, OthersUndisturbed
      <3> QED
        BY <3>1, <3>2
    <2>2. \A p \in Proposals : status'[p] = "EXECUTED" => executedAt'[p] \in 0..now'
      BY <1>1, HandlerTimes, RequestTyped DEF QuietInv
    <2> QED
      BY <2>1, <2>2 DEF QuietInv
  <1>2. ASSUME NEW w \in Workers, NEW p \in Proposals, NEW s \in Servers, Receive(w, p, s)
        PROVE  QuietInv'
    <2>1. /\ pc' = [pc EXCEPT ![w] = "lock"] /\ req' = [req EXCEPT ![w] = Fresh(p, s, now)]
          /\ s = Home /\ status[p] = "APPROVED" /\ UNCHANGED <<status, executedAt, now>>
      BY <1>2 DEF Receive, Quiet, Only, Fault
    <2>2. QuietRequest(w)'
      BY <2>1 DEF QuietRequest, Fresh, TypeOK, Critical, Time
    <2>3. ASSUME NEW v \in Workers \ {w}, InFlight(v)' PROVE QuietRequest(v)'
      <3>1. pc'[v] = pc[v] /\ req'[v] = req[v] /\ QuietRequest(v)
        BY <2>1, <2>3 DEF TypeOK, InFlight, QuietInv
      <3> QED
        BY <2>1, <3>1 DEF QuietRequest, ExecutedTwin, ExecutedTimes
    <2> QED
      BY <2>1, <2>2, <2>3 DEF QuietInv
  <1>3. ASSUME NEW p \in Proposals, NEW verdict \in {"APPROVED", "REJECTED"}, Decide(p, verdict)
        PROVE  QuietInv'
    <2>1. /\ status[p] = "PENDING" /\ status'[p] # "EXECUTED"
          /\ \A r \in Proposals \ {p} : status'[r] = status[r]
          /\ UNCHANGED <<executedAt, pc, req, now>>
      BY <1>3 DEF Decide, TypeOK
    <2>2. ASSUME NEW w \in Workers, InFlight(w)' PROVE QuietRequest(w)'
      <3> PICK q \in Proposals : q = req[w].id
        BY RequestTyped
      <3>1. QuietRequest(w) /\ status'[q] = status[q]
        BY <2>1, <2>2 DEF QuietInv, InFlight, QuietRequest
      <3>2. /\ ExecutedTwin(q)' => ExecutedTwin(q)
            /\ ExecutedTimes(ScopeOf(q))' \subseteq ExecutedTimes(ScopeOf(q))
        BY <2>1, OtherRow
      <3>3. ScopeOf(q)' = ScopeOf(q) /\ req'[w].id = q
        BY <2>1 DEF ScopeOf
      <3> QED
        BY <2>1, <3>1, <3>2, <3>3 DEF QuietRequest
    <2> QED
      BY <2>1, <2>2 DEF QuietInv
  <1>4. CASE Tick
    <2>1. /\ now' = now + 1 /\ UNCHANGED <<status, executedAt, pc, req>>
          /\ \A w \in Workers : InFlight(w) => req[w].arrived = now
      BY <1>4 DEF Tick
    <2>2. ASSUME NEW w \in Workers, InFlight(w)' PROVE QuietRequest(w)'
      <3>1. QuietRequest(w) /\ req[w].arrived = now /\ now \in Nat
        BY <2>1, <2>2, RequestTyped DEF QuietInv, InFlight
      <3>2. ASSUME NEW t \in ExecutedTimes(ScopeOf(req[w].id))
            PROVE  t \in 0..now
        BY RequestTyped DEF QuietInv, ExecutedTimes
      <3>3. /\ ExecutedTwin(req[w].id)' = ExecutedTwin(req[w].id)
            /\ ExecutedTimes(ScopeOf(req[w].id))' = ExecutedTimes(ScopeOf(req[w].id))
        BY <2>1 DEF ExecutedTwin, ExecutedTimes, SameKey, IdempotencyKeyFor, ScopeOf
      <3>4. /\ req[w].started \in req[w].arrived..now =>
                 req[w].started \in req[w].arrived..now'
            /\ now' <= req[w].arrived + 1 /\ req[w].arrived <= now'
        BY <2>1, <3>1, RequestTyped
      <3>5. ASSUME NEW t \in ExecutedTimes(ScopeOf(req[w].id)), now - t >= Cooldown
            PROVE  now' - t >= Cooldown
        BY <2>1, <3>1, <3>2, <3>5
      <3> QED
        BY <2>1, <3>1, <3>3, <3>4, <3>5 DEF QuietRequest
    <2>3. \A p \in Proposals : status'[p] = "EXECUTED" => executedAt'[p] \in 0..now'
      BY <2>1 DEF QuietInv, TypeOK, Time
    <2> QED
      BY <2>2, <2>3 DEF QuietInv
  <1>5. ASSUME NEW s \in Servers, Crash(s)
        PROVE  QuietInv'
    <2>1. /\ UNCHANGED <<status, executedAt, now>>
          /\ \A w \in Workers : InFlight(w)' => pc'[w] = pc[w] /\ req'[w] = req[w]
      BY <1>5, CrashMoves DEF Crash, InFlight
    <2>2. \A p \in Proposals : ExecutedTwin(p)' = ExecutedTwin(p)
      BY <2>1 DEF ExecutedTwin, SameKey, IdempotencyKeyFor
    <2>3. ASSUME NEW w \in Workers, InFlight(w)' PROVE QuietRequest(w)'
      <3>1. QuietRequest(w) /\ pc'[w] = pc[w] /\ req'[w] = req[w]
        BY <2>1, <2>3 DEF QuietInv, InFlight
      <3> QED
        BY <2>1, <3>1 DEF QuietRequest, ExecutedTwin, ExecutedTimes
    <2> QED
      BY <2>1, <2>3 DEF QuietInv
  <1>6. CASE UNCHANGED <<status, executedAt, pc, req, now>>
    BY <1>6 DEF QuietInv, QuietRequest, InFlight, ExecutedTwin, ExecutedTimes
  <1> QED
    BY <1>1, <1>2, <1>3, <1>4, <1>5, <1>6 DEF Next, ExternalChange, ReadElsewhere, StoreRead, CacheExpire, vars

LEMMA QuietInit == Init => QuietInv
  BY DEF Init, QuietInv, InFlight

-----------------------------------------------------------------------------
(* How often clicks on one row can apply it. *)

Clicks == Only({"overlap", "no_metrics", "external", "readers"})

On(p) == {w \in Workers : InFlight(w) /\ req[w].id = p}

\* A row's change and the requests that may still repeat it share a budget of
\* one more than the workers; it is spent from FAILED, where the next request
\* finds no executed row, and every request that leaves gives back one.
Budgeted(p) ==
    LET n == Cardinality(Workers)
        spent == 2 * applied[p] + Cardinality(On(p)) IN
    \/ applied[p] = 0 /\ ~Recording(p)
    \/ applied[p] = 1 /\ Recording(p)
    \/ status[p] = "FAILED" /\ Recording(p) /\ spent <= n + 2
    \/ status[p] = "EXECUTED" /\ spent <= n + 1
    \/ status[p] = "FAILED" /\ spent <= n

ClicksInv == \A p \in Proposals : Budgeted(p)

LEMMA OnFinite ==
    ASSUME NEW p \in Proposals
    PROVE  /\ IsFiniteSet(On(p)) /\ Cardinality(On(p)) \in Nat
           /\ Cardinality(Workers) \in Nat
           /\ Cardinality(On(p)) <= Cardinality(Workers)
           /\ \A w \in Workers : w \in On(p) => Cardinality(On(p)) >= 1
  <1>1. On(p) \in SUBSET Workers
    BY DEF On
  <1>2. /\ IsFiniteSet(On(p)) /\ Cardinality(On(p)) \in Nat /\ Cardinality(Workers) \in Nat
        /\ Cardinality(On(p)) <= Cardinality(Workers)
    BY <1>1, FS_Subset, FS_CardinalityType
  <1>3. Cardinality(On(p)) = 0 <=> On(p) = {}
    BY <1>2, FS_EmptySet
  <1> QED
    BY <1>2, <1>3

\* Who leaves is counted no more, and nobody else comes or goes.
LEMMA HandlerOn ==
    ASSUME TypeOK, NEW w \in Workers, Handler(w), NEW p \in Proposals
    PROVE  /\ Cardinality(On(p))' <= Cardinality(On(p))
           /\ Cardinality(On(p))' \in Nat
           /\ p = req[w].id /\ pc'[w] = "idle" =>
                Cardinality(On(p))' = Cardinality(On(p)) - 1
  <1>1. /\ \A v \in Workers \ {w} : pc'[v] = pc[v]
        /\ \A v \in Workers : req'[v].id = req[v].id
        /\ pc[w] # "idle"
    BY HandlerMoves DEF lockObjectExec, Critical
  <1>2. CASE p = req[w].id /\ pc'[w] = "idle"
    <2>1. On(p)' = On(p) \ {w} /\ w \in On(p)
      BY <1>1, <1>2 DEF On, InFlight
    <2>2. Cardinality(On(p) \ {w}) = Cardinality(On(p)) - 1
      BY <2>1, FS_RemoveElement, OnFinite
    <2>3. Cardinality(On(p)) \in Nat /\ Cardinality(On(p)) >= 1
      BY <2>1, OnFinite
    <2>4. Cardinality(On(p))' = Cardinality(On(p)) - 1
      BY <2>1, <2>2
    <2> HIDE DEF On
    <2> QED
      BY <2>3, <2>4
  <1>3. CASE ~(p = req[w].id /\ pc'[w] = "idle")
    <2>1. On(p)' = On(p)
      BY <1>1, <1>3 DEF On, InFlight
    <2> QED
      BY <1>3, <2>1, OnFinite
  <1> QED
    BY <1>2, <1>3

\* Of a handler's steps, three bear on the count.
LEMMA HandlerCounts ==
    ASSUME TypeOK, Quiet, QuietInv, NEW w \in Workers, Handler(w)
    PROVE  \/ WriteApplied(w) \/ WriteAmbiguous(w)
           \/ /\ RecordExecuted(w) /\ pc[w] = "recordExecuted" /\ pc'[w] = "idle"
              /\ status' = [status EXCEPT ![req[w].id] = "EXECUTED"]
              /\ applied' = applied
           \/ /\ RecordFailed(w) /\ pc[w] = "recordFailed" /\ pc'[w] = "idle"
              /\ status' = [status EXCEPT ![req[w].id] = "FAILED"]
              /\ applied' = applied
           \/ /\ UNCHANGED <<status, applied>>
              /\ pc[w] # "recordExecuted" /\ pc'[w] # "recordExecuted"
              /\ pc[w] # "recordFailed"
              /\ pc[w] # "idle"
              /\ pc'[w] = "idle" => pc[w] = "replay"
  <1> USE DEF rows, gets, clock
  <1>1. CASE RecordExecuted(w)
    <2>1. ~ExecutedTwin(req[w].id)
      BY <1>1 DEF RecordExecuted, QuietInv, QuietRequest, InFlight, Critical
    <2> QED
      BY <1>1, <2>1 DEF RecordExecuted, Finish, Quiet, Only, Fault, TypeOK
  <1>2. CASE RecordFailed(w)
    BY <1>2 DEF RecordFailed, Finish, Quiet, Only, Fault, TypeOK
  <1>3. CASE \/ lockObjectExec(w) \/ ReplayStored(w) \/ StartRun(w)
             \/ ReadCooldown(w) \/ fetchLiveState(w) \/ LiveUnreadable(w)
             \/ captureBeforeMetrics(w) \/ WriteRefused(w)
    BY <1>3 DEF lockObjectExec, ReplayStored, StartRun, ReadCooldown, fetchLiveState,
       LiveUnreadable, captureBeforeMetrics, WriteRefused, Finish, TypeOK
  <1> QED
    BY <1>1, <1>2, <1>3 DEF Handler

\* Only one request records for a row at a time.
LEMMA OneRecorder ==
    ASSUME TypeOK, ObjectExclusion, QuietInv, NEW w \in Workers, pc[w] \in Critical
    PROVE  pc[w] # "recordExecuted" => ~Recording(req[w].id)
  BY OneInScope DEF Recording, Critical

LEMMA ClicksHandler ==
    ASSUME TypeOK, ObjectExclusion, Clicks, QuietInv, ClicksInv,
           NEW w \in Workers, Handler(w), NEW p \in Proposals
    PROVE  Budgeted(p)'
  <1> USE DEF rows, gets, clock
  <1> DEFINE n == Cardinality(Workers)
             k == Cardinality(On(p))
             k1 == Cardinality(On(p))'
  <1>0. /\ applied[p] \in Nat /\ n \in Nat /\ k \in Nat /\ k1 \in Nat /\ k1 <= k
        /\ k <= n /\ Budgeted(p)
    BY OnFinite, HandlerOn DEF TypeOK, ClicksInv
  <1>1. /\ \A v \in Workers \ {w} : pc'[v] = pc[v]
        /\ \A v \in Workers : req'[v].id = req[v].id
    BY HandlerMoves
  <1>2. CASE p # req[w].id
    <2>1. Recording(p)' = Recording(p)
      BY <1>1, <1>2 DEF Recording
    <2>2. applied'[p] = applied[p] /\ status'[p] = status[p]
      BY <1>2, HandlerCounts DEF Clicks, Quiet, Only, WriteApplied, WriteAmbiguous, Apply, TypeOK
    <2> HIDE DEF Recording
    <2> QED
      BY <1>0, <2>1, <2>2 DEF Budgeted
  <1>3. CASE p = req[w].id
    <2> HIDE DEF n, k, k1
    <2>1. CASE WriteApplied(w)
      <3>1. /\ pc[w] = "write" /\ pc'[w] = "recordExecuted"
            /\ applied'[p] = applied[p] + 1 /\ status'[p] = status[p]
        BY <1>3, <2>1 DEF WriteApplied, Apply, TypeOK
      <3>2. ~Recording(p)
        BY <1>3, <3>1, OneRecorder DEF Critical
      <3>3. Recording(p)'
        BY <1>1, <1>3, <3>1 DEF Recording
      <3>4. status[p] # "EXECUTED"
        <4>1. Quiet /\ InFlight(w)'
          BY <3>1 DEF Clicks, Quiet, Only, InFlight
        <4>2. QuietRequest(w)' /\ req'[w].id = p
          BY <1>1, <1>3, <4>1, OwnStepQuiet
        <4> QED
          BY <3>1, <4>2 DEF QuietRequest
      <3>5. applied[p] = 0 \/ (status[p] = "FAILED" /\ 2 * applied[p] + k <= n)
        BY <1>0, <3>2, <3>4 DEF Budgeted, n, k
      <3>6. applied'[p] = 1 \/ (status'[p] = "FAILED" /\ 2 * applied'[p] + k1 <= n + 2)
        BY <1>0, <3>1, <3>5
      <3> HIDE DEF Recording
      <3> QED
        BY <3>3, <3>6 DEF Budgeted, n, k, k1
    <2>2. CASE /\ pc[w] = "recordExecuted" /\ pc'[w] = "idle"
               /\ status' = [status EXCEPT ![req[w].id] = "EXECUTED"]
               /\ applied' = applied
      <3>1. status'[p] = "EXECUTED" /\ applied'[p] = applied[p] /\ k1 = k - 1
        BY <1>3, <2>2, HandlerOn DEF TypeOK, k, k1
      <3>2. Recording(p) /\ status[p] # "EXECUTED"
        BY <1>3, <2>2 DEF Recording, QuietInv, QuietRequest, InFlight
      <3> QED
        BY <1>0, <3>1, <3>2 DEF Budgeted, n, k, k1
    <2>3. CASE /\ pc[w] = "recordFailed" /\ pc'[w] = "idle"
               /\ status' = [status EXCEPT ![req[w].id] = "FAILED"]
               /\ applied' = applied
      <3>1. status'[p] = "FAILED" /\ applied'[p] = applied[p] /\ k1 = k - 1
        BY <1>3, <2>3, HandlerOn DEF TypeOK, k, k1
      <3>2. ~Recording(p)
        BY <1>3, <2>3, OneRecorder DEF Critical
      <3>3. ~Recording(p)'
        BY <1>1, <1>3, <2>3, <3>2 DEF Recording
      <3> QED
        BY <1>0, <3>1, <3>2, <3>3 DEF Budgeted, n, k, k1
    <2>4. CASE /\ UNCHANGED <<status, applied>>
               /\ pc[w] # "recordExecuted" /\ pc'[w] # "recordExecuted"
      <3>1. Recording(p)' = Recording(p)
        BY <1>1, <2>4 DEF Recording
      <3> QED
        BY <1>0, <2>4, <3>1 DEF Budgeted, n, k, k1
    <2>5. ~WriteAmbiguous(w) /\ Quiet
      BY DEF WriteAmbiguous, Clicks, Quiet, Only, Fault
    <2> QED
      BY <2>1, <2>2, <2>3, <2>4, <2>5, HandlerCounts
  <1> QED
    BY <1>2, <1>3

LEMMA ClicksStep ==
    TypeOK /\ ObjectExclusion /\ Clicks /\ QuietInv /\ ClicksInv /\ [Next]_vars => ClicksInv'
  <1> SUFFICES ASSUME TypeOK, ObjectExclusion, Clicks, QuietInv, ClicksInv, [Next]_vars
               PROVE  ClicksInv'
    OBVIOUS
  <1> USE DEF rows, gets, clock
  <1>1. ASSUME NEW v \in Workers, Handler(v) PROVE ClicksInv'
    BY <1>1, ClicksHandler DEF ClicksInv
  <1>2. ASSUME NEW w \in Workers, NEW p \in Proposals, NEW s \in Servers, Receive(w, p, s)
        PROVE  ClicksInv'
    <2>1. /\ pc[w] = "idle" /\ status[p] = "APPROVED"
          /\ pc' = [pc EXCEPT ![w] = "lock"] /\ req' = [req EXCEPT ![w] = Fresh(p, s, now)]
          /\ UNCHANGED <<status, applied>>
      BY <1>2 DEF Receive
    <2>2. req'[w].id = p /\ pc'[w] = "lock" /\ \A v \in Workers \ {w} : pc'[v] = pc[v] /\ req'[v] = req[v]
      BY <2>1 DEF TypeOK, Fresh
    <2>3. ASSUME NEW q \in Proposals PROVE Budgeted(q)'
      <3>1. Recording(q)' = Recording(q)
        BY <2>1, <2>2 DEF Recording
      <3>2. CASE q = p
        <4>1. (applied[q] = 0 /\ ~Recording(q)) \/ (applied[q] = 1 /\ Recording(q))
          BY <2>1, <3>2 DEF ClicksInv, Budgeted
        <4> HIDE DEF Recording, On
        <4> QED
          BY <2>1, <3>1, <4>1 DEF Budgeted
      <3>3. CASE q # p
        <4>1. On(q)' = On(q)
          BY <2>1, <2>2, <3>3 DEF On, InFlight
        <4> HIDE DEF Recording, On
        <4> QED
          BY <2>1, <3>1, <4>1 DEF Budgeted, ClicksInv
      <3> QED
        BY <3>2, <3>3
    <2> QED
      BY <2>3 DEF ClicksInv
  <1>3. ASSUME NEW p \in Proposals, NEW verdict \in {"APPROVED", "REJECTED"}, Decide(p, verdict)
        PROVE  ClicksInv'
    <2>1. /\ status[p] = "PENDING"
          /\ \A q \in Proposals \ {p} : status'[q] = status[q]
          /\ UNCHANGED <<pc, req, applied>>
      BY <1>3 DEF Decide, TypeOK
    <2>2. ~Recording(p)
      BY <2>1 DEF Recording, QuietInv, QuietRequest, InFlight
    <2>3. ASSUME NEW q \in Proposals PROVE Budgeted(q)'
      <3>1. Recording(q)' = Recording(q) /\ On(q)' = On(q)
        BY <2>1 DEF Recording, On, InFlight
      <3> HIDE DEF Recording, On
      <3> QED
        BY <2>1, <2>2, <3>1 DEF Budgeted, ClicksInv
    <2> QED
      BY <2>3 DEF ClicksInv
  <1>4. ASSUME NEW s \in Servers, Crash(s) PROVE ClicksInv'
    BY <1>4 DEF Crash, Clicks, Only, Fault
  <1>5. CASE UNCHANGED <<status, applied, pc, req>>
    <2>1. ASSUME NEW q \in Proposals PROVE Budgeted(q)'
      <3>1. Recording(q)' = Recording(q) /\ On(q)' = On(q)
        BY <1>5 DEF Recording, On, InFlight
      <3> HIDE DEF Recording, On
      <3> QED
        BY <1>5, <3>1 DEF Budgeted, ClicksInv
    <2> QED
      BY <2>1 DEF ClicksInv
  <1> QED
    BY <1>1, <1>2, <1>3, <1>4, <1>5 DEF Next, Tick, ExternalChange, ReadElsewhere, StoreRead, CacheExpire, vars

\* What the count says of the clicks.
LEMMA ClicksBound ==
    ASSUME TypeOK, ClicksInv, NEW p \in Proposals
    PROVE  2 * applied[p] <= Cardinality(Workers) + 1
  <1>1. /\ Budgeted(p) /\ applied[p] \in Nat
        /\ Cardinality(On(p)) \in Nat /\ Cardinality(Workers) \in Nat
    BY OnFinite DEF TypeOK, ClicksInv
  <1>2. Recording(p) => Cardinality(On(p)) >= 1 /\ Cardinality(Workers) >= 1
    <2>1. Recording(p) => \E w \in Workers : w \in On(p)
      BY DEF Recording, On, InFlight
    <2> QED
      BY <1>1, <2>1, OnFinite
  <1> HIDE DEF Recording, On
  <1> QED
    BY <1>1, <1>2 DEF Budgeted

-----------------------------------------------------------------------------
(* Without overlapping clicks, lost answers do not repeat a change. *)

Lossy == Only({"ambiguous", "processes", "no_metrics", "external", "readers"})

\* Only one request per row is in flight; until it writes nothing was, unless an
\* execution of the key is on record and the request will find it; and what was
\* written leaves APPROVED with that request's answer, or has such a twin.
LossyInv ==
    /\ \A v, w \in Workers :
         v # w /\ InFlight(v) /\ InFlight(w) => req[v].id # req[w].id
    /\ \A w \in Workers : InFlight(w) =>
         /\ status[req[w].id] = "APPROVED"
         /\ \/ applied[req[w].id] = 0
            \/ pc[w] \in {"recordExecuted", "recordFailed"}
            \/ pc[w] \in {"lock", "replay"} /\ ExecutedTwin(req[w].id)
    /\ \A p \in Proposals :
         /\ applied[p] <= 1
         /\ status[p] \in {"PENDING", "APPROVED"} /\ applied[p] # 0 =>
              ExecutedTwin(p) \/ \E w \in Workers : InFlight(w) /\ req[w].id = p

\* Nothing turns an executed row back as long as the rows that change are not.
LEMMA TwinStays ==
    ASSUME NEW p \in Proposals, NEW q \in Proposals, status[q] # "EXECUTED",
           \A r \in Proposals \ {q} : status'[r] = status[r], ExecutedTwin(p)
    PROVE  ExecutedTwin(p)'
  BY DEF ExecutedTwin, SameKey, IdempotencyKeyFor

\* What a handler's step means for the row it is about.
LEMMA LossyHandlerCases ==
    ASSUME TypeOK, Lossy, LossyInv, NEW w \in Workers, Handler(w),
           NEW q \in Proposals, q = req[w].id
    PROVE  /\ \A p \in Proposals \ {q} : status'[p] = status[p] /\ applied'[p] = applied[p]
           /\ \/ /\ pc[w] = "write" /\ pc'[w] \in {"recordExecuted", "recordFailed"}
                 /\ applied'[q] = applied[q] + 1 /\ status' = status
              \/ /\ pc'[w] = "idle" /\ applied' = applied
                 /\ status'[q] \in {"EXECUTED", "FAILED"}
              \/ /\ pc'[w] = "idle" /\ UNCHANGED <<status, applied>>
                 /\ ExecutedTwin(q)
              \/ /\ UNCHANGED <<status, applied>> /\ pc'[w] # "idle"
                 /\ pc'[w] = "replay" => pc[w] = "lock"
                 /\ pc'[w] # "replay" => pc[w] # "lock"
                 /\ pc[w] = "replay" => ~ExecutedTwin(q)
                 /\ pc'[w] # "lock"
                 /\ pc[w] \notin {"recordExecuted", "recordFailed"}
  <1> USE DEF rows, gets, clock
  <1>1. \A p \in Proposals \ {q} : status'[p] = status[p] /\ applied'[p] = applied[p]
    BY HandlerRecords
  <1>2. CASE WriteApplied(w) \/ WriteAmbiguous(w)
    BY <1>1, <1>2 DEF WriteApplied, WriteAmbiguous, Apply, TypeOK
  <1>3. CASE RecordExecuted(w)
    BY <1>1, <1>3 DEF RecordExecuted, Finish, Lossy, Only, Fault, TypeOK
  <1>4. CASE RecordFailed(w)
    BY <1>1, <1>4 DEF RecordFailed, Finish, Lossy, Only, Fault, TypeOK
  <1>5. CASE ReplayStored(w)
    BY <1>1, <1>5 DEF ReplayStored, Finish, Lossy, Only, Fault, TypeOK
  <1>6. CASE \/ lockObjectExec(w) \/ StartRun(w) \/ ReadCooldown(w) \/ fetchLiveState(w)
             \/ LiveUnreadable(w) \/ captureBeforeMetrics(w) \/ WriteRefused(w)
    BY <1>1, <1>6 DEF lockObjectExec, StartRun, ReadCooldown, fetchLiveState,
       LiveUnreadable, captureBeforeMetrics, WriteRefused, TypeOK
  <1> QED
    BY <1>2, <1>3, <1>4, <1>5, <1>6 DEF Handler

LEMMA LossyHandler ==
    ASSUME TypeOK, Lossy, LossyInv, NEW w \in Workers, Handler(w)
    PROVE  LossyInv'
  <1> PICK q \in Proposals : q = req[w].id
    BY RequestTyped
  <1>1. /\ \A v \in Workers \ {w} : pc'[v] = pc[v]
        /\ \A v \in Workers : req'[v].id = req[v].id /\ req[v].id \in Proposals
        /\ InFlight(w)
    BY HandlerMoves, RequestTyped DEF lockObjectExec, Critical, InFlight
  <1>2. /\ status[q] = "APPROVED" /\ applied[q] \in Nat /\ applied[q] <= 1
        /\ \A v \in Workers \ {w} : InFlight(v) => req[v].id # q
    BY <1>1 DEF LossyInv, TypeOK
  <1>3. \A p \in Proposals \ {q} : status'[p] = status[p] /\ applied'[p] = applied[p]
    BY LossyHandlerCases
  <1>4. \A p \in Proposals : ExecutedTwin(p) => ExecutedTwin(p)'
    BY <1>2, <1>3, TwinStays
  <1>5. \A v, u \in Workers :
           v # u /\ InFlight(v)' /\ InFlight(u)' => req'[v].id # req'[u].id
    BY <1>1 DEF LossyInv, InFlight
  <1>6. \A v \in Workers \ {w} : InFlight(v)' =>
          /\ status'[req'[v].id] = "APPROVED"
          /\ \/ applied'[req'[v].id] = 0
             \/ pc'[v] \in {"recordExecuted", "recordFailed"}
             \/ pc'[v] \in {"lock", "replay"} /\ ExecutedTwin(req[v].id)'
    BY <1>1, <1>2, <1>3, <1>4 DEF LossyInv, InFlight
  <1>7. /\ applied'[q] <= 1
        /\ InFlight(w)' =>
             /\ status'[q] = "APPROVED"
             /\ \/ applied'[q] = 0
                \/ pc'[w] \in {"recordExecuted", "recordFailed"}
                \/ pc'[w] \in {"lock", "replay"} /\ ExecutedTwin(q)'
        /\ \/ InFlight(w)' \/ ExecutedTwin(q)'
           \/ status'[q] \notin {"PENDING", "APPROVED"}
    <2>1. CASE /\ pc[w] = "write" /\ pc'[w] \in {"recordExecuted", "recordFailed"}
               /\ applied'[q] = applied[q] + 1 /\ status' = status
      <3>1. applied[q] = 0
        BY <1>1, <2>1 DEF LossyInv
      <3> QED
        BY <1>2, <2>1, <3>1 DEF InFlight
    <2>2. CASE /\ pc'[w] = "idle" /\ applied' = applied
               /\ status'[q] \in {"EXECUTED", "FAILED"}
      BY <1>2, <2>2 DEF InFlight
    <2>3. CASE pc'[w] = "idle" /\ UNCHANGED <<status, applied>> /\ ExecutedTwin(q)
      BY <1>2, <1>4, <2>3 DEF InFlight
    <2>4. CASE /\ UNCHANGED <<status, applied>> /\ pc'[w] # "idle"
               /\ pc'[w] = "replay" => pc[w] = "lock"
               /\ pc'[w] # "replay" => pc[w] # "lock"
               /\ pc[w] = "replay" => ~ExecutedTwin(q)
               /\ pc'[w] # "lock"
               /\ pc[w] \notin {"recordExecuted", "recordFailed"}
      <3>1. applied[q] = 0 \/ (pc[w] \in {"lock", "replay"} /\ ExecutedTwin(q))
        BY <1>1, <2>4 DEF LossyInv
      <3>2. applied'[q] = 0 \/ (pc'[w] = "replay" /\ ExecutedTwin(q)')
        BY <1>4, <2>4, <3>1
      <3> QED
        BY <1>2, <2>4, <3>2 DEF InFlight
    <2> QED
      BY <2>1, <2>2, <2>3, <2>4, LossyHandlerCases
  <1>8. \A p \in Proposals :
          /\ applied'[p] <= 1
          /\ status'[p] \in {"PENDING", "APPROVED"} /\ applied'[p] # 0 =>
               ExecutedTwin(p)' \/ \E v \in Workers : InFlight(v)' /\ req'[v].id = p
    <2> SUFFICES ASSUME NEW p \in Proposals
                 PROVE  /\ applied'[p] <= 1
                        /\ status'[p] \in {"PENDING", "APPROVED"} /\ applied'[p] # 0 =>
                             \/ ExecutedTwin(p)'
                             \/ \E v \in Workers : InFlight(v)' /\ req'[v].id = p
      OBVIOUS
    <2>1. CASE p = q
      BY <1>1, <1>7, <2>1
    <2>2. CASE p # q
      <3>1. /\ applied[p] <= 1
            /\ status[p] \in {"PENDING", "APPROVED"} /\ applied[p] # 0 =>
                 ExecutedTwin(p) \/ \E v \in Workers \ {w} : InFlight(v) /\ req[v].id = p
        BY <2>2 DEF LossyInv
      <3>2. \A v \in Workers \ {w} : InFlight(v) => InFlight(v)' /\ req'[v].id = req[v].id
        BY <1>1 DEF InFlight
      <3> QED
        BY <1>3, <1>4, <2>2, <3>1, <3>2
    <2> QED
      BY <2>1, <2>2
  <1>9. \A v \in Workers : InFlight(v)' =>
          /\ status'[req'[v].id] = "APPROVED"
          /\ \/ applied'[req'[v].id] = 0
             \/ pc'[v] \in {"recordExecuted", "recordFailed"}
             \/ pc'[v] \in {"lock", "replay"} /\ ExecutedTwin(req[v].id)'
    BY <1>1, <1>6, <1>7
  <1> QED
    BY <1>5, <1>8, <1>9 DEF LossyInv

LEMMA LossyStep == TypeOK /\ Lossy /\ LossyInv /\ [Next]_vars => LossyInv'
  <1> SUFFICES ASSUME TypeOK, Lossy, LossyInv, [Next]_vars
               PROVE  LossyInv'
    OBVIOUS
  <1> USE DEF rows, gets, clock
  <1>1. ASSUME NEW w \in Workers, Handler(w) PROVE LossyInv'
    BY <1>1, LossyHandler
  <1>2. ASSUME NEW w \in Workers, NEW p \in Proposals, NEW s \in Servers, Receive(w, p, s)
        PROVE  LossyInv'
    <2>1. /\ pc[w] = "idle" /\ status[p] = "APPROVED"
          /\ \A v \in Workers : InFlight(v) => req[v].id # p
          /\ pc' = [pc EXCEPT ![w] = "lock"] /\ req' = [req EXCEPT ![w] = Fresh(p, s, now)]
          /\ UNCHANGED <<status, applied>>
      BY <1>2 DEF Receive, Lossy, Only, Fault
    <2>2. /\ req'[w].id = p /\ pc'[w] = "lock"
          /\ \A v \in Workers \ {w} : pc'[v] = pc[v] /\ req'[v] = req[v]
      BY <2>1 DEF TypeOK, Fresh
    <2>3. \A q \in Proposals : ExecutedTwin(q)' = ExecutedTwin(q)
      BY <2>1 DEF ExecutedTwin, SameKey, IdempotencyKeyFor
    <2>4. applied[p] = 0 \/ ExecutedTwin(p)
      BY <2>1 DEF LossyInv
    <2>5. \A v, u \in Workers :
             v # u /\ InFlight(v)' /\ InFlight(u)' => req'[v].id # req'[u].id
      BY <2>1, <2>2 DEF LossyInv, InFlight
    <2>6. ASSUME NEW v \in Workers, InFlight(v)'
          PROVE  /\ status'[req'[v].id] = "APPROVED"
                 /\ \/ applied'[req'[v].id] = 0
                    \/ pc'[v] \in {"recordExecuted", "recordFailed"}
                    \/ pc'[v] \in {"lock", "replay"} /\ ExecutedTwin(req'[v].id)
      <3>1. CASE v = w
        BY <2>1, <2>2, <2>4, <3>1
      <3>2. CASE v # w
        BY <2>1, <2>2, <2>6, <3>2 DEF LossyInv, InFlight
      <3> QED
        BY <3>1, <3>2
    <2>7. \A q \in Proposals :
            /\ applied'[q] <= 1
            /\ status'[q] \in {"PENDING", "APPROVED"} /\ applied'[q] # 0 =>
                 ExecutedTwin(q) \/ \E v \in Workers : InFlight(v)' /\ req'[v].id = q
      BY <2>1, <2>2 DEF LossyInv, InFlight
    <2> QED
      BY <2>1, <2>5, <2>6, <2>7 DEF LossyInv, ExecutedTwin, SameKey, IdempotencyKeyFor
  <1>3. ASSUME NEW p \in Proposals, NEW verdict \in {"APPROVED", "REJECTED"}, Decide(p, verdict)
        PROVE  LossyInv'
    <2>1. /\ status[p] = "PENDING"
          /\ \A q \in Proposals \ {p} : status'[q] = status[q]
          /\ UNCHANGED <<pc, req, applied>>
      BY <1>3 DEF Decide, TypeOK
    <2>2. \A w \in Workers : InFlight(w) => req[w].id # p
      BY <2>1 DEF LossyInv
    <2>3. \A q \in Proposals : ExecutedTwin(q) => ExecutedTwin(q)'
      BY <2>1, TwinStays
    <2> QED
      BY <2>1, <2>2, <2>3, RequestTyped DEF LossyInv, InFlight
  <1>4. ASSUME NEW s \in Servers, Crash(s) PROVE LossyInv'
    BY <1>4 DEF Crash, Lossy, Only, Fault
  <1>5. CASE UNCHANGED <<status, applied, pc, req>>
    <2>1. \A q \in Proposals : ExecutedTwin(q)' = ExecutedTwin(q)
      BY <1>5 DEF ExecutedTwin, SameKey, IdempotencyKeyFor
    <2> QED
      BY <1>5, <2>1, RequestTyped DEF LossyInv, InFlight
  <1> QED
    BY <1>1, <1>2, <1>3, <1>4, <1>5
    DEF Next, Tick, ExternalChange, ReadElsewhere, StoreRead, CacheExpire, vars

\* One row's change reaches Meta once, also when answers are lost and several
\* processes execute rows with one key; and of n clicks in flight together at most (n + 1) / 2 apply it.
THEOREM ClicksBounded == Spec => []AppliedBounded
  <1> DEFINE Inv == /\ Quiet => QuietInv
                    /\ Clicks => ClicksInv
                    /\ Lossy => LossyInv
  <1>1. Init => Inv
    <2>1. Init => ClicksInv
      BY DEF Init, ClicksInv, Budgeted, Recording
    <2>2. Init => LossyInv
      BY DEF Init, LossyInv, InFlight
    <2> QED
      BY <2>1, <2>2, QuietInit
  <1>2. TypeOK /\ ObjectExclusion /\ Inv /\ [Next]_vars => Inv'
    <2>2. Clicks => Quiet
      BY DEF Clicks, Quiet, Only
    <2>3. TypeOK /\ [Next]_vars => Quiet' = Quiet /\ Clicks' = Clicks /\ Lossy' = Lossy
      BY FaultsStay DEF Clicks, Lossy, Quiet, Only
    <2> QED
      BY <2>2, <2>3, QuietStep, ClicksStep, LossyStep
  <1>3. TypeOK /\ Inv => AppliedBounded
    BY ClicksBound DEF AppliedBounded, Clicks, Lossy, LossyInv
  <1> QED
    BY <1>1, <1>2, <1>3, TypeCorrect, Exclusion, PTL DEF Spec

-----------------------------------------------------------------------------
(* Whatever crashes, fails or is lost, without overlapping clicks. *)

\* A row in flight is still APPROVED and nobody else's.
SettledInv == ~Fault("overlap") =>
    /\ \A v, w \in Workers :
         v # w /\ InFlight(v) /\ InFlight(w) => req[v].id # req[w].id
    /\ \A w \in Workers : InFlight(w) => status[req[w].id] = "APPROVED"

\* Only the request in flight for it settles a row, and only once.
LEMMA SettledStep ==
    TypeOK /\ SettledInv /\ [Next]_vars =>
      /\ SettledInv'
      /\ \A p \in Proposals :
           ~Fault("overlap") /\ status[p] \in {"REJECTED", "EXECUTED", "FAILED"}
             => status'[p] = status[p]
  <1> USE DEF rows, gets, clock
  <1>2. ASSUME TypeOK, SettledInv, NEW w \in Workers, Handler(w)
        PROVE  /\ SettledInv'
               /\ \A p \in Proposals :
                    ~Fault("overlap") /\ status[p] \in {"REJECTED", "EXECUTED", "FAILED"}
                      => status'[p] = status[p]
    <2> PICK q \in Proposals : q = req[w].id
      BY <1>2, RequestTyped
    <2>1. /\ \A v \in Workers \ {w} : pc'[v] = pc[v]
          /\ \A v \in Workers : req'[v].id = req[v].id
          /\ InFlight(w) /\ faults' = faults
      BY <1>2, HandlerMoves, HandlerTimes DEF lockObjectExec, Critical, InFlight
    <2>2. CASE UNCHANGED status
      BY <1>2, <2>1, <2>2 DEF SettledInv, InFlight, Fault
    <2>3. CASE /\ \A r \in Proposals \ {q} : status'[r] = status[r]
               /\ pc'[w] = "idle"
      BY <1>2, <2>1, <2>3, RequestTyped DEF SettledInv, InFlight, Fault
    <2> QED
      BY <1>2, <2>2, <2>3, HandlerTimes
  <1>3. ASSUME TypeOK, SettledInv, NEW s \in Servers, Crash(s)
        PROVE  SettledInv' /\ UNCHANGED status
    <2>1. /\ UNCHANGED <<status, faults>>
          /\ \A v \in Workers : req'[v].id = req[v].id /\ (InFlight(v)' => InFlight(v))
      BY <1>3 DEF Crash, InFlight, Fresh
    <2> QED
      BY <1>3, <2>1 DEF SettledInv, Fault
  <1>4. ASSUME TypeOK, SettledInv, NEW w \in Workers, NEW p \in Proposals,
               NEW s \in Servers, Receive(w, p, s)
        PROVE  SettledInv' /\ UNCHANGED status
    <2>1. /\ pc[w] = "idle" /\ status[p] = "APPROVED" /\ UNCHANGED <<status, faults>>
          /\ Fault("overlap") \/ \A v \in Workers : InFlight(v) => req[v].id # p
          /\ pc' = [pc EXCEPT ![w] = "lock"] /\ req' = [req EXCEPT ![w] = Fresh(p, s, now)]
      BY <1>4 DEF Receive
    <2>2. /\ req'[w].id = p
          /\ \A v \in Workers \ {w} : pc'[v] = pc[v] /\ req'[v] = req[v]
      BY <1>4, <2>1 DEF TypeOK, Fresh
    <2>3. ASSUME ~Fault("overlap")
          PROVE  /\ \A v, u \in Workers :
                      v # u /\ InFlight(v)' /\ InFlight(u)' => req'[v].id # req'[u].id
                 /\ \A v \in Workers : InFlight(v)' => status'[req'[v].id] = "APPROVED"
      <3>1. /\ \A v \in Workers : InFlight(v) => req[v].id # p
            /\ \A v, u \in Workers :
                 v # u /\ InFlight(v) /\ InFlight(u) => req[v].id # req[u].id
            /\ \A v \in Workers : InFlight(v) => status[req[v].id] = "APPROVED"
        BY <1>4, <2>1, <2>3 DEF SettledInv
      <3>2. \A v \in Workers \ {w} : InFlight(v)' => InFlight(v)
        BY <2>2 DEF InFlight
      <3> QED
        BY <2>1, <2>2, <3>1, <3>2
    <2>4. Fault("overlap")' = Fault("overlap")
      BY <2>1 DEF Fault
    <2> QED
      BY <2>1, <2>3, <2>4 DEF SettledInv
  <1>5. ASSUME TypeOK, SettledInv, NEW p \in Proposals,
               NEW verdict \in {"APPROVED", "REJECTED"}, Decide(p, verdict)
        PROVE  /\ SettledInv'
               /\ status[p] = "PENDING" /\ \A q \in Proposals \ {p} : status'[q] = status[q]
    <2>1. /\ status[p] = "PENDING" /\ UNCHANGED <<pc, req, faults>>
          /\ \A q \in Proposals \ {p} : status'[q] = status[q]
      BY <1>5 DEF Decide, TypeOK
    <2> QED
      BY <1>5, <2>1, RequestTyped DEF SettledInv, InFlight, Fault
  <1>6. SettledInv /\ UNCHANGED <<status, pc, req, faults>> => SettledInv' /\ UNCHANGED status
    BY DEF SettledInv, InFlight, Fault
  <1> QED
    BY <1>2, <1>3, <1>4, <1>5, <1>6
    DEF Next, Tick, ExternalChange, ReadElsewhere, StoreRead, CacheExpire, vars

\* What was rejected, executed or failed stays so, also across crashes, failing
\* statements and several processes, as long as no two requests for one row
\* are in flight together.
THEOREM OutcomesSettle == Spec => Settled
  <1>1. Init => SettledInv
    BY DEF Init, SettledInv, InFlight
  <1>2. Spec => [][\A p \in Proposals :
            ~Fault("overlap") /\ status[p] \in {"REJECTED", "EXECUTED", "FAILED"}
              => status'[p] = status[p]]_vars
    BY <1>1, SettledStep, TypeCorrect, PTL DEF Spec
  <1> QED
    BY <1>2 DEF Settled

-----------------------------------------------------------------------------
(* Without overlapping clicks and without failures: SpendSafety. *)

Clean == Only({"no_metrics", "external", "readers"})

\* What was changed is recorded or about to be, and no earlier than the change.
CleanInv ==
    /\ \A p \in Proposals : applied[p] > 0 => status[p] = "EXECUTED" \/ Recording(p)
    /\ \A s \in Scopes : lastWrite[s] # Never =>
         /\ lastWrite[s] <= now
         /\ \E p \in Proposals :
              /\ ScopeOf(p) = s
              /\ \/ Recording(p)
                 \/ status[p] = "EXECUTED" /\ executedAt[p] >= lastWrite[s]

CleanWrite(w) ==
    /\ pc[w] = "write" /\ pc'[w] = "recordExecuted"
    /\ applied' = [applied EXCEPT ![req[w].id] = @ + 1]
    /\ lastWrite' = [lastWrite EXCEPT ![ScopeOf(req[w].id)] = now]
    /\ UNCHANGED <<status, executedAt>>

CleanRecord(w, at, verdict) ==
    /\ pc[w] = at /\ pc'[w] = "idle"
    /\ status' = [status EXCEPT ![req[w].id] = verdict]
    /\ executedAt' = [executedAt EXCEPT ![req[w].id] = now]
    /\ UNCHANGED <<applied, lastWrite>>

CleanStutter(w) ==
    /\ UNCHANGED <<status, executedAt, applied, lastWrite>>
    /\ pc[w] # "recordExecuted" /\ pc'[w] # "recordExecuted"

LEMMA CleanIsQuiet == Clean => Quiet /\ Clicks /\ Lossy
  BY DEF Clean, Quiet, Clicks, Lossy, Only

\* The steps of a handler as SpendSafety tells them apart.
LEMMA HandlerClean ==
    ASSUME TypeOK, Clean, QuietInv, NEW w \in Workers, Handler(w),
           NEW q \in Proposals, q = req[w].id
    PROVE  /\ now' = now
           /\ \A p \in Proposals \ {q} : Recording(p)' = Recording(p)
           /\ pc'[w] = "recordExecuted" => Recording(q)'
           /\ \/ CleanWrite(w)
              \/ CleanRecord(w, "recordExecuted", "EXECUTED")
              \/ CleanRecord(w, "recordFailed", "FAILED")
              \/ CleanStutter(w) /\ Recording(q)' = Recording(q)
  <1> USE DEF rows, gets, clock
  <1>1. /\ \A v \in Workers \ {w} : pc'[v] = pc[v]
        /\ \A v \in Workers : req'[v].id = req[v].id
    BY HandlerMoves
  <1>2. /\ now' = now
        /\ \A p \in Proposals \ {q} : Recording(p)' = Recording(p)
        /\ pc'[w] = "recordExecuted" => Recording(q)'
    BY <1>1, HandlerTimes DEF Recording
  <1>3. CASE RecordExecuted(w)
    <2>1. ~ExecutedTwin(q)
      BY <1>3 DEF RecordExecuted, QuietInv, QuietRequest, InFlight, Critical
    <2>2. CleanRecord(w, "recordExecuted", "EXECUTED")
      BY <1>3, <2>1 DEF RecordExecuted, Finish, Clean, Only, Fault, TypeOK, CleanRecord
    <2> QED
      BY <1>2, <2>2
  <1>4. CASE RecordFailed(w)
    <2>1. CleanRecord(w, "recordFailed", "FAILED")
      BY <1>4 DEF RecordFailed, Finish, Clean, Only, Fault, TypeOK, CleanRecord
    <2> QED
      BY <1>2, <2>1
  <1>5. CASE WriteApplied(w)
    <2>1. CleanWrite(w)
      BY <1>5 DEF WriteApplied, Apply, CleanWrite, TypeOK
    <2> QED
      BY <1>2, <2>1
  <1>6. CASE \/ lockObjectExec(w) \/ ReplayStored(w) \/ StartRun(w)
             \/ ReadCooldown(w) \/ fetchLiveState(w) \/ LiveUnreadable(w)
             \/ captureBeforeMetrics(w) \/ WriteRefused(w)
    <2>1. CleanStutter(w)
      BY <1>6 DEF lockObjectExec, ReplayStored, StartRun, ReadCooldown, fetchLiveState,
         LiveUnreadable, captureBeforeMetrics, WriteRefused, Finish, TypeOK, CleanStutter
    <2>2. Recording(q)' = Recording(q)
      BY <1>1, <2>1 DEF Recording, CleanStutter
    <2> QED
      BY <1>2, <2>1, <2>2
  <1>7. ~WriteAmbiguous(w)
    BY DEF WriteAmbiguous, Clean, Only, Fault
  <1> QED
    BY <1>3, <1>4, <1>5, <1>6, <1>7 DEF Handler

\* A request that is about to write finds nothing executed for its key and
\* nothing changed in its scope within the cooldown.
LEMMA WriteIsDue ==
    ASSUME TypeOK, ObjectExclusion, Clean, QuietInv, LossyInv, CleanInv,
           NEW w \in Workers, pc[w] = "write"
    PROVE  LET q == req[w].id
               s == ScopeOf(q) IN
           /\ q \in Proposals /\ s \in Scopes
           /\ status[q] = "APPROVED"
           /\ \A p \in Proposals : ScopeOf(p) = s => ~Recording(p)
           /\ ~ExecutedTwin(q)
           /\ \A p \in Proposals : p # q /\ SameKey(p, q) => applied[p] = 0
           /\ lastWrite[s] = Never \/ now - lastWrite[s] >= Cooldown
  <1> DEFINE q == req[w].id
             s == ScopeOf(q)
  <1>1. q \in Proposals /\ s \in Scopes /\ now \in Nat
    BY RequestTyped
  <1>2. status[q] = "APPROVED"
    BY DEF LossyInv, InFlight
  <1>3. \A p \in Proposals : ScopeOf(p) = s => ~Recording(p)
    BY OneInScope DEF Recording, Critical
  <1>4. /\ ~ExecutedTwin(q)
        /\ \A t \in ExecutedTimes(s) : now - t >= Cooldown
    BY DEF QuietInv, QuietRequest, InFlight, Critical
  <1>5. \A p \in Proposals : p # q /\ SameKey(p, q) => applied[p] = 0
    <2> SUFFICES ASSUME NEW p \in Proposals, p # q, SameKey(p, q)
                 PROVE  applied[p] = 0
      OBVIOUS
    <2>1. status[p] # "EXECUTED" /\ ~Recording(p)
      BY <1>1, <1>3, <1>4, TwinsShareScope DEF ExecutedTwin, SameKey
    <2> QED
      BY <2>1 DEF CleanInv, TypeOK
  <1>6. lastWrite[s] = Never \/ now - lastWrite[s] >= Cooldown
    <2> SUFFICES ASSUME lastWrite[s] # Never
                 PROVE  now - lastWrite[s] >= Cooldown
      OBVIOUS
    <2>1. PICK p \in Proposals : /\ ScopeOf(p) = s
                                 /\ status[p] = "EXECUTED" /\ executedAt[p] >= lastWrite[s]
      BY <1>1, <1>3 DEF CleanInv
    <2>2. executedAt[p] \in ExecutedTimes(s) /\ executedAt[p] \in 0..now
      BY <2>1 DEF ExecutedTimes, QuietInv
    <2>3. now - executedAt[p] >= Cooldown
      BY <1>4, <2>2
    <2>4. lastWrite[s] \in Nat
      BY <1>1 DEF TypeOK, Time
    <2> QED
      BY <1>1, <2>1, <2>2, <2>3, <2>4
  <1> QED
    BY <1>1, <1>2, <1>3, <1>4, <1>5, <1>6

LEMMA CleanHandler ==
    ASSUME TypeOK, ObjectExclusion, Clean, QuietInv, LossyInv, CleanInv,
           NEW w \in Workers, Handler(w)
    PROVE  CleanInv'
  <1> PICK q \in Proposals : q = req[w].id
    BY RequestTyped
  <1>0. /\ q \in Proposals /\ ScopeOf(q) \in Scopes /\ now \in Nat
        /\ \A p \in Proposals : ScopeOf(p)' = ScopeOf(p)
        /\ \A p \in Proposals : applied[p] \in Nat
        /\ \A x \in Scopes : lastWrite[x] \in Nat \cup {-1}
    BY RequestTyped DEF ScopeOf, TypeOK, Time
  <1>1. now' = now /\ \A p \in Proposals \ {q} : Recording(p)' = Recording(p)
    BY HandlerClean
  <1>2. CASE CleanWrite(w)
    <2>1. Recording(q)'
      BY <1>2, HandlerClean DEF CleanWrite
    <2>2. \A p \in Proposals : Recording(p) => Recording(p)'
      BY <1>1, <2>1
    <2>3. \A p \in Proposals : applied'[p] > 0 => status'[p] = "EXECUTED" \/ Recording(p)'
      BY <1>0, <1>2, <2>1, <2>2 DEF CleanInv, CleanWrite, TypeOK
    <2>4. ASSUME NEW s \in Scopes, lastWrite'[s] # Never
          PROVE  /\ lastWrite'[s] <= now'
                 /\ \E p \in Proposals :
                      /\ ScopeOf(p)' = s
                      /\ \/ Recording(p)'
                         \/ status'[p] = "EXECUTED" /\ executedAt'[p] >= lastWrite'[s]
      <3>1. CASE s = ScopeOf(q)
        BY <1>0, <1>1, <1>2, <2>1, <3>1 DEF CleanWrite, TypeOK
      <3>2. CASE s # ScopeOf(q)
        <4>1. lastWrite'[s] = lastWrite[s] /\ UNCHANGED <<status, executedAt>>
          BY <1>2, <3>2 DEF CleanWrite, TypeOK
        <4> HIDE DEF Recording, ScopeOf
        <4> QED
          BY <1>0, <1>1, <2>2, <2>4, <4>1 DEF CleanInv
      <3> QED
        BY <3>1, <3>2
    <2> QED
      BY <2>3, <2>4 DEF CleanInv
  <1>3. CASE CleanRecord(w, "recordExecuted", "EXECUTED")
    <2>1. /\ status'[q] = "EXECUTED" /\ executedAt'[q] = now
          /\ \A p \in Proposals \ {q} : status'[p] = status[p] /\ executedAt'[p] = executedAt[p]
          /\ UNCHANGED <<applied, lastWrite>>
      BY <1>0, <1>3 DEF CleanRecord, TypeOK
    <2> QED
      BY <1>0, <1>1, <2>1 DEF CleanInv
  <1>4. CASE CleanRecord(w, "recordFailed", "FAILED")
    <2>1. /\ pc[w] = "recordFailed"
          /\ \A p \in Proposals \ {q} : status'[p] = status[p] /\ executedAt'[p] = executedAt[p]
          /\ UNCHANGED <<applied, lastWrite>>
      BY <1>4 DEF CleanRecord, TypeOK
    <2>2. status[q] = "APPROVED"
      BY <2>1 DEF LossyInv, InFlight
    <2>3. ~Recording(q)
      BY <2>1, OneRecorder DEF Critical
    <2> QED
      BY <1>0, <1>1, <2>1, <2>2, <2>3 DEF CleanInv
  <1>5. CASE CleanStutter(w) /\ Recording(q)' = Recording(q)
    <2>1. \A p \in Proposals : Recording(p)' = Recording(p)
      BY <1>1, <1>5
    <2> HIDE DEF Recording
    <2> QED
      BY <1>0, <1>1, <1>5, <2>1 DEF CleanInv, CleanStutter
  <1> QED
    BY <1>2, <1>3, <1>4, <1>5, HandlerClean

LEMMA CleanStep ==
    TypeOK /\ ObjectExclusion /\ Clean /\ QuietInv /\ LossyInv /\ CleanInv /\ [Next]_vars
      => CleanInv'
  <1> SUFFICES ASSUME TypeOK, ObjectExclusion, Clean, QuietInv, LossyInv, CleanInv, [Next]_vars
               PROVE  CleanInv'
    OBVIOUS
  <1> USE DEF rows, gets, clock
  <1>0. /\ \A p \in Proposals : ScopeOf(p)' = ScopeOf(p)
        /\ now \in Nat /\ \A x \in Scopes : lastWrite[x] \in Nat \cup {-1}
    BY DEF ScopeOf, TypeOK, Time
  <1>1. ASSUME NEW w \in Workers, Handler(w) PROVE CleanInv'
    BY <1>1, CleanHandler
  <1>2. ASSUME NEW w \in Workers, NEW p \in Proposals, NEW s \in Servers, Receive(w, p, s)
        PROVE  CleanInv'
    <2>1. /\ pc[w] = "idle" /\ pc' = [pc EXCEPT ![w] = "lock"]
          /\ req' = [req EXCEPT ![w] = Fresh(p, s, now)]
          /\ UNCHANGED <<status, executedAt, applied, lastWrite, now>>
      BY <1>2 DEF Receive
    <2>2. \A q \in Proposals : Recording(q)' = Recording(q)
      BY <2>1 DEF Recording, TypeOK
    <2> HIDE DEF Recording
    <2> QED
      BY <1>0, <2>1, <2>2 DEF CleanInv
  <1>3. ASSUME NEW p \in Proposals, NEW verdict \in {"APPROVED", "REJECTED"}, Decide(p, verdict)
        PROVE  CleanInv'
    <2>1. /\ status[p] = "PENDING"
          /\ \A q \in Proposals \ {p} : status'[q] = status[q]
          /\ UNCHANGED <<pc, req, executedAt, applied, lastWrite, now>>
      BY <1>3 DEF Decide, TypeOK
    <2>2. \A q \in Proposals : Recording(q)' = Recording(q)
      BY <2>1 DEF Recording
    <2> HIDE DEF Recording
    <2> QED
      BY <1>0, <2>1, <2>2 DEF CleanInv
  <1>4. ASSUME NEW s \in Servers, Crash(s) PROVE CleanInv'
    BY <1>4 DEF Crash, Clean, Only, Fault
  <1>5. CASE UNCHANGED <<status, executedAt, applied, lastWrite, pc, req>> /\ now' \in {now, now + 1}
    <2>1. \A q \in Proposals : Recording(q)' = Recording(q)
      BY <1>5 DEF Recording
    <2> HIDE DEF Recording
    <2> QED
      BY <1>0, <1>5, <2>1 DEF CleanInv
  <1> QED
    BY <1>1, <1>2, <1>3, <1>4, <1>5 DEF Next, Tick, ExternalChange, ReadElsewhere, StoreRead, CacheExpire, vars

\* Everything a behaviour without overlap and failures keeps.
CleanState == Clean /\ QuietInv /\ LossyInv /\ CleanInv

LEMMA CleanStates == Spec /\ Clean => [](TypeOK /\ ObjectExclusion /\ CleanState)
  <1>1. Init /\ Clean => CleanState
    BY QuietInit DEF Init, LossyInv, CleanInv, CleanState, InFlight
  <1>2. TypeOK /\ ObjectExclusion /\ CleanState /\ [Next]_vars => CleanState'
    <2> SUFFICES ASSUME TypeOK, ObjectExclusion, CleanState, [Next]_vars
                 PROVE  CleanState'
      OBVIOUS
    <2>1. Clean' /\ Clean /\ Quiet /\ Lossy
      BY FaultsStay, CleanIsQuiet DEF CleanState, Clean, Only
    <2> QED
      BY <2>1, QuietStep, LossyStep, CleanStep DEF CleanState
  <1> QED
    BY <1>1, <1>2, TypeCorrect, Exclusion, PTL DEF Spec

\* Rows with one key change Meta once between them: the replay lookup and the
\* mutex do what the unique index would be too late for.
THEOREM KeyAppliedOnce == Spec /\ Clean => []SameKeyAppliedOnce
  <1>1. Init => SameKeyAppliedOnce
    BY DEF Init, SameKeyAppliedOnce
  <1>2. TypeOK /\ ObjectExclusion /\ CleanState /\ SameKeyAppliedOnce /\ [Next]_vars
          => SameKeyAppliedOnce'
    <2> SUFFICES ASSUME TypeOK, ObjectExclusion, CleanState, SameKeyAppliedOnce, [Next]_vars
                 PROVE  SameKeyAppliedOnce'
      OBVIOUS
    <2>1. CASE UNCHANGED applied
      BY <2>1 DEF SameKeyAppliedOnce, SameKey, IdempotencyKeyFor
    <2>2. ASSUME NEW w \in Workers, Handler(w)
          PROVE  SameKeyAppliedOnce'
      <3> PICK q \in Proposals : q = req[w].id
        BY RequestTyped
      <3>1. CASE CleanWrite(w)
        <4>1. /\ \A p \in Proposals \ {q} : applied'[p] = applied[p]
              /\ \A p \in Proposals : p # q /\ SameKey(p, q) => applied[p] = 0
          BY <3>1, WriteIsDue DEF CleanWrite, CleanState, TypeOK
        <4>2. \A p, t \in Proposals : SameKey(p, t)' => SameKey(p, t) /\ SameKey(t, p)
          BY DEF SameKey, IdempotencyKeyFor
        <4> QED
          BY <4>1, <4>2 DEF SameKeyAppliedOnce
      <3>2. CASE UNCHANGED applied
        BY <2>1, <3>2
      <3> QED
        BY <2>2, <3>1, <3>2, HandlerClean DEF CleanState, CleanRecord, CleanStutter
    <2> QED
      BY <2>1, <2>2 DEF Next, Decide, Receive, Crash, ExternalChange, ReadElsewhere, StoreRead, CacheExpire, Tick, vars
  <1> QED
    BY <1>1, <1>2, CleanStates, PTL DEF Spec

\* The cooldown holds between the changes themselves: what a request reads under
\* the mutex is still true when it writes.
THEOREM CooldownKept == Spec /\ Clean => WriteCooldown
  <1>1. TypeOK /\ ObjectExclusion /\ CleanState /\ [Next]_vars =>
          \A p \in Proposals :
            applied'[p] # applied[p] /\ lastWrite[ScopeOf(p)] # Never
              => now - lastWrite[ScopeOf(p)] >= Cooldown
    <2> SUFFICES ASSUME TypeOK, ObjectExclusion, CleanState, [Next]_vars,
                        NEW p \in Proposals, applied'[p] # applied[p],
                        lastWrite[ScopeOf(p)] # Never
                 PROVE  now - lastWrite[ScopeOf(p)] >= Cooldown
      OBVIOUS
    <2>1. PICK w \in Workers : Handler(w)
      BY DEF Next, Decide, Receive, Crash, ExternalChange, ReadElsewhere, StoreRead, CacheExpire, Tick, vars
    <2>2. CleanWrite(w)
      BY <2>1, HandlerClean, RequestTyped DEF CleanState, CleanRecord, CleanStutter
    <2>3. pc[w] = "write" /\ req[w].id = p
      BY <2>2, RequestTyped DEF CleanWrite, TypeOK
    <2> QED
      BY <2>3, WriteIsDue DEF CleanState
  <1>2. Spec /\ Clean => [][\A p \in Proposals :
            applied'[p] # applied[p] /\ lastWrite[ScopeOf(p)] # Never
              => now - lastWrite[ScopeOf(p)] >= Cooldown]_vars
    BY <1>1, CleanStates, PTL DEF Spec
  <1> QED
    BY <1>2 DEF WriteCooldown

\* Executor implements SpendSafety: a row decided once, carried out or refused
\* once and in one step, never inside the cooldown of its scope nor for a key
\* that was carried out.
THEOREM ImplementsSafety == Spec /\ Clean => KeepsPromise
  <1> DEFINE shown == [p \in Proposals |->
                         IF Recording(p) THEN "EXECUTED" ELSE status[p]]
  <1>0. shown = [p \in Proposals |-> IF Recording(p) THEN "EXECUTED" ELSE status[p]]
    OBVIOUS
  <1>9. /\ shown = [p \in Proposals |-> shown[p]]
        /\ shown' = [p \in Proposals |-> shown'[p]]
    OBVIOUS
  <1>1. Init => Promise!Init
    <2> SUFFICES ASSUME Init PROVE Promise!Init
      OBVIOUS
    <2>1. shown = [p \in Proposals |-> "PENDING"]
      BY DEF Init, Recording
    <2> QED
      BY <2>1 DEF Init, Promise!Init, Promise!Untouched
  <1>2. TypeOK /\ ObjectExclusion /\ CleanState /\ [Next]_vars
          => [Promise!Next]_(Promise!safetyVars)
    <2> SUFFICES ASSUME TypeOK, ObjectExclusion, CleanState, [Next]_vars
                 PROVE  Promise!Next \/ UNCHANGED <<shown, lastWrite, now>>
      BY DEF Promise!safetyVars
    <2> USE DEF rows, gets, clock
    <2>0. status \in [Proposals -> Statuses] /\ lastWrite \in [Scopes -> Time \cup {Never}]
      BY DEF TypeOK
    <2>1. ASSUME NEW w \in Workers, Handler(w)
          PROVE  Promise!Next \/ UNCHANGED <<shown, lastWrite, now>>
      <3> PICK q \in Proposals : q = req[w].id
        BY RequestTyped
      <3>1. now' = now /\ \A p \in Proposals \ {q} : Recording(p)' = Recording(p)
        BY <2>1, HandlerClean DEF CleanState
      <3>2. CASE CleanWrite(w)
        <4>1. /\ Recording(q)' /\ ~Recording(q) /\ status[q] = "APPROVED"
              /\ \A p \in Proposals : ScopeOf(p) = ScopeOf(q) => ~Recording(p)
              /\ ~ExecutedTwin(q)
              /\ lastWrite[ScopeOf(q)] = Never \/ now - lastWrite[ScopeOf(q)] >= Cooldown
          BY <2>1, <3>2, WriteIsDue, HandlerClean DEF CleanState, CleanWrite
        <4>2. shown' = [shown EXCEPT ![q] = "EXECUTED"] /\ shown[q] = "APPROVED"
          <5>1. shown'[q] = "EXECUTED" /\ shown[q] = "APPROVED"
            BY <1>0, <3>1, <3>2, <4>1 DEF CleanWrite, Recording
          <5>2. \A p \in Proposals \ {q} : shown'[p] = shown[p]
            BY <1>0, <3>1, <3>2, <4>1 DEF CleanWrite, Recording
          <5> HIDE DEF shown
          <5> QED
            BY <1>9, <5>1, <5>2
        <4>3. \A t \in Proposals : t # q /\ SameKey(q, t) => shown[t] # "EXECUTED"
          BY <1>0, <4>1, TwinsShareScope DEF ExecutedTwin
        <4>4. lastWrite' = [lastWrite EXCEPT ![ScopeOf(q)] = now]
          BY <3>2 DEF CleanWrite
        <4>5. Promise!CarryOut(q)
          BY <3>1, <4>1, <4>2, <4>3, <4>4 DEF Promise!CarryOut, Promise!Untouched
        <4> QED
          BY <4>5 DEF Promise!Next
      <3>3. CASE CleanRecord(w, "recordExecuted", "EXECUTED")
        <4>1. Recording(q)
          BY <3>3 DEF Recording, CleanRecord
        <4>2. \A p \in Proposals : shown'[p] = shown[p]
          BY <1>0, <2>0, <3>1, <3>3, <4>1 DEF CleanRecord, Recording
        <4> QED
          BY <3>1, <3>3, <4>2 DEF CleanRecord
      <3>4. CASE CleanRecord(w, "recordFailed", "FAILED")
        <4>1. pc[w] = "recordFailed" /\ status[q] = "APPROVED" /\ ~Recording(q)
          BY <3>4, OneRecorder DEF CleanState, CleanRecord, LossyInv, InFlight, Critical
        <4>2. ~Recording(q)'
          BY <2>1, <3>4, <4>1, HandlerMoves DEF CleanRecord, Recording
        <4>3. shown' = [shown EXCEPT ![q] = "FAILED"] /\ shown[q] = "APPROVED"
          <5>1. shown'[q] = "FAILED" /\ shown[q] = "APPROVED"
            BY <1>0, <2>0, <3>1, <3>4, <4>1, <4>2 DEF CleanRecord, Recording
          <5>2. \A p \in Proposals \ {q} : shown'[p] = shown[p]
            BY <1>0, <2>0, <3>1, <3>4, <4>1, <4>2 DEF CleanRecord, Recording
          <5> HIDE DEF shown
          <5> QED
            BY <1>9, <5>1, <5>2
        <4>4. Promise!Refuse(q)
          BY <3>1, <3>4, <4>3 DEF Promise!Refuse, CleanRecord
        <4> QED
          BY <4>4 DEF Promise!Next
      <3>5. CASE CleanStutter(w) /\ Recording(q)' = Recording(q)
        <4>1. \A p \in Proposals : shown'[p] = shown[p]
          BY <1>0, <3>1, <3>5 DEF CleanStutter, Recording
        <4> QED
          BY <3>1, <3>5, <4>1 DEF CleanStutter
      <3> QED
        BY <2>1, <3>2, <3>3, <3>4, <3>5, HandlerClean DEF CleanState
    <2>2. ASSUME NEW w \in Workers, NEW p \in Proposals, NEW s \in Servers, Receive(w, p, s)
          PROVE  UNCHANGED <<shown, lastWrite, now>>
      <3>1. /\ pc[w] = "idle" /\ pc' = [pc EXCEPT ![w] = "lock"]
            /\ req' = [req EXCEPT ![w] = Fresh(p, s, now)]
            /\ UNCHANGED <<status, lastWrite, now>>
        BY <2>2 DEF Receive
      <3>2. \A q \in Proposals : shown'[q] = shown[q]
        BY <3>1 DEF TypeOK, Recording
      <3> QED
        BY <3>1, <3>2
    <2>3. ASSUME NEW p \in Proposals, NEW verdict \in {"APPROVED", "REJECTED"}, Decide(p, verdict)
          PROVE  Promise!Next
      <3>1. ~Recording(p)
        BY <2>3 DEF Decide, Recording, CleanState, QuietInv, QuietRequest, InFlight
      <3>2. \A q \in Proposals : Recording(q)' = Recording(q)
        BY <2>3 DEF Decide, Recording
      <3>3. shown[p] = "PENDING" /\ shown' = [shown EXCEPT ![p] = verdict]
        <4>1. status[p] = "PENDING" /\ status' = [status EXCEPT ![p] = verdict]
          BY <2>3 DEF Decide
        <4>2. shown[p] = "PENDING"
          BY <1>0, <3>1, <4>1
        <4>3. /\ shown'[p] = verdict
              /\ \A q \in Proposals \ {p} : shown'[q] = shown[q]
          BY <1>0, <2>0, <3>1, <3>2, <4>1 DEF Recording
        <4> HIDE DEF shown
        <4> QED
          BY <1>9, <4>2, <4>3
      <3>4. Promise!Decide(p, verdict)
        BY <2>3, <3>3 DEF Decide, Promise!Decide
      <3> QED
        BY <3>4 DEF Promise!Next
    <2>4. CASE Tick
      <3>1. Promise!Pass
        BY <2>4 DEF Tick, Promise!Pass, Recording
      <3> QED
        BY <3>1 DEF Promise!Next
    <2>5. ASSUME NEW s \in Servers, Crash(s)
          PROVE  FALSE
      BY <2>5 DEF Crash, CleanState, Clean, Only, Fault
    <2>6. CASE UNCHANGED <<status, pc, req, lastWrite, now>>
      BY <2>6 DEF Recording
    <2> QED
      BY <2>1, <2>2, <2>3, <2>4, <2>5, <2>6 DEF Next, ExternalChange, ReadElsewhere, StoreRead, CacheExpire, vars
  <1> QED
    BY <1>1, <1>2, CleanStates, PTL DEF Spec, KeepsPromise, Promise!Spec
-----------------------------------------------------------------------------

\* A larger percentage makes no smaller budget.
LEMMA PercentMonotone ==
    ASSUME NEW b \in Nat, NEW x \in Int, NEW y \in Int, x <= y
    PROVE  ApplyBudgetPct(b, x) <= ApplyBudgetPct(b, y)
  <1>1. PICK d \in Nat : y = x + d
    <2>1. y - x \in Nat /\ y = x + (y - x)
      OBVIOUS
    <2> QED
      BY <2>1
  <1>2. b * (100 + y) = b * (100 + x) + b * d
    BY <1>1
  <1>3. b * d \in Nat /\ b * (100 + x) \in Int
    OBVIOUS
  <1> DEFINE l == b * (100 + x) + 50
             u == b * (100 + y) + 50
  <1>4. l \in Int /\ u \in Int /\ l <= u
    BY <1>2, <1>3
  <1> HIDE DEF l, u
  <1>5. l \div 100 <= u \div 100
    BY <1>4
  <1> QED
    BY <1>5 DEF ApplyBudgetPct, l, u

\* What is not changed is within the caps, and so is what a clamped percentage
\* of the live budget makes of it.
LEMMA WithinCaps ==
    ASSUME NEW b \in Nat, NEW pct \in Int, -MaxDecreasePct <= pct, pct <= MaxIncreasePct
    PROVE  /\ ApplyBudgetPct(b, pct) <= ApplyBudgetPct(b, MaxIncreasePct)
           /\ ApplyBudgetPct(b, pct) >= ApplyBudgetPct(b, -MaxDecreasePct)
           /\ ApplyBudgetPct(b, 0) = b
  <1>1. ApplyBudgetPct(b, 0) = b
    <2>1. (b * (100 + 0) + 50) \div 100 = b
      OBVIOUS
    <2> QED
      BY <2>1 DEF ApplyBudgetPct
  <1>2. -MaxDecreasePct \in Int /\ MaxIncreasePct \in Int
    OBVIOUS
  <1> QED
    BY <1>1, <1>2, PercentMonotone

\* The percentage of a permitted change is clamped on both sides: a raise is
\* positive and a cut is negative.
LEMMA ClampedWithin ==
    ASSUME NEW vc, Permitted(vc), vc.action \in BudgetActions, vc.requestedPct \in Int
    PROVE  LET pct == ClampedPct(vc.action, vc.requestedPct) IN
           pct \in Int /\ -MaxDecreasePct <= pct /\ pct <= MaxIncreasePct
  BY DEF Permitted, BudgetActions, PauseActions, ClampedPct

LEMMA CurrentInit == Init => CurrentInv
  BY HomeType DEF Init, CurrentInv, Trusted, Fresh

\* With other readers around, every change is recorded and stays on record.
LEMMA ReadersQuiet == Undisturbed /\ Fault("readers") => Quiet /\ ~Fault("overlap")
  BY DEF Undisturbed, Quiet, Only, Fault

\* What the steps below start from.
CurrentState ==
    TypeOK /\ ObjectExclusion /\ (Quiet => QuietInv) /\ SettledInv /\ CurrentInv

\* Trust in every entry, and in who is informed, is all there is to show.
LEMMA CurrentByParts ==
    ASSUME \A w \in Workers : req'[w].server = Home,
           \A o \in Objects : \A e \in {cache'[Home][o], reading'[Home][o]} : Trusted(o, e)',
           Fault("readers")' \/ \A o \in Objects : reading'[Home][o] = NoEntry,
           \A w \in Workers : pc'[w] \in {"capture", "write"} => Informed(w)'
    PROVE  CurrentInv'
  BY DEF CurrentInv, Trusted, ChangedSince

LEMMA EntryFacts ==
    ASSUME CurrentState, Undisturbed, NEW o \in Objects,
           NEW e \in {cache[Home][o], reading[Home][o]}
    PROVE  /\ Trusted(o, e) /\ e \in Entries
           /\ e # NoEntry => e.since \in Nat /\ now \in Nat /\ e.since <= now
  <1>1. Trusted(o, e) /\ e \in Entries
    BY HomeType DEF CurrentState, CurrentInv, TypeOK
  <1>2. e # NoEntry => e.since \in Nat /\ now \in Nat
    BY <1>1 DEF Entries, CurrentState, TypeOK, Time
  <1> QED
    BY <1>1, <1>2 DEF Trusted

\* Who is informed stays so while his object and his locals are left alone.
LEMMA StaysInformed ==
    ASSUME NEW w, Informed(w), req'[w] = req[w],
           live'[Row[req[w].id].object] = live[Row[req[w].id].object]
    PROVE  Informed(w)'
  BY DEF Informed, ContextOf, Permitted

\* With one mutex per object, no two requests between reading an object and
\* recording what became of it are about the same object.
LEMMA OneOnObject ==
    ASSUME CurrentState, Undisturbed,
           NEW v \in Workers, NEW w \in Workers, v # w,
           pc[v] \in Critical, pc[w] \in Critical
    PROVE  Row[req[v].id].object # Row[req[w].id].object
  <1>1. req[v].id \in Proposals /\ req[w].id \in Proposals
    BY RequestTyped DEF CurrentState
  <1> QED
    BY <1>1 DEF ObjectExclusion, CurrentInv, CurrentState, Undisturbed, LockOf, ScopeOf

\* The cooldown outlives the answers others got: what passes the guardrails is
\* what Meta has.  A change that overtook the answer is on record for the object,
\* and it is too young to be followed by another.
LEMMA ReadIsCurrent ==
    ASSUME CurrentState, Undisturbed, NEW v \in Workers, fetchLiveState(v),
           pc'[v] = "capture"
    PROVE  Answer(v).state = live[Row[req[v].id].object]
  <1> DEFINE q == req[v].id
             o == Row[q].object
             e == cache[Home][o]
  <1>1. /\ q \in Proposals /\ o \in Objects /\ req[v].server = Home /\ pc[v] = "live"
        /\ req[v].started \in Nat /\ req[v].lastExecutedAt \in Nat \cup {-1} /\ now \in Nat
    BY RequestTyped, AnswerType DEF CurrentState, CurrentInv, fetchLiveState
  <1>2. CooledDown(ContextOf(v, Answer(v).state))
    BY <1>1 DEF fetchLiveState, Validate, CurrentState, TypeOK
  <1>3. CASE e = NoEntry
    BY <1>1, <1>3 DEF Answer
  <1>4. CASE e # NoEntry
    <2>1. Answer(v) = e /\ Trusted(o, e) /\ e.since \in Nat
      BY <1>1, <1>4, EntryFacts DEF Answer
    <2> HIDE DEF e
    <2> SUFFICES ASSUME Fault("readers"), ChangedSince(o, e.since)
                 PROVE  FALSE
      BY <1>1, <1>4, <2>1 DEF Trusted
    <2>2. PICK p \in Proposals :
            /\ Row[p].object = o
            /\ Recording(p) \/ (status[p] = "EXECUTED" /\ executedAt[p] >= e.since)
      BY DEF ChangedSince
    <2>3. ~Recording(p)
      BY <1>1, <2>2, OneOnObject DEF Recording, Critical
    <2>4. ScopeOf(p) = ScopeOf(q)
      BY <1>1, <2>2 DEF ScopeOf, Undisturbed
    <2>5. executedAt[p] \in ExecutedTimes(ScopeOf(q))
      BY <2>2, <2>3, <2>4 DEF ExecutedTimes
    <2>6. executedAt[p] \in 0..now /\ executedAt[p] <= req[v].lastExecutedAt
          /\ req[v].started <= now
      BY <1>1, <2>2, <2>3, <2>5, ReadersQuiet
      DEF CurrentState, QuietInv, QuietRequest, InFlight, Critical
    <2>7. now <= e.since + 1
      BY <1>4, <2>1 DEF Trusted
    <2>8. req[v].lastExecutedAt = -1 \/ req[v].started - req[v].lastExecutedAt >= Cooldown
      BY <1>2 DEF CooledDown, ContextOf
    <2> QED
      BY <1>1, <2>1, <2>2, <2>3, <2>6, <2>7, <2>8
  <1> QED
    BY <1>3, <1>4

\* A change that is being recorded, or is on record, is not forgotten.
LEMMA ChangedStays ==
    ASSUME CurrentState, Undisturbed, Fault("readers"), NEW v \in Workers, Handler(v),
           NEW o \in Objects, NEW t \in Nat, t <= now, ChangedSince(o, t)
    PROVE  ChangedSince(o, t)'
  <1> USE DEF rows, gets, clock
  <1> PICK p \in Proposals :
        /\ Row[p].object = o
        /\ Recording(p) \/ (status[p] = "EXECUTED" /\ executedAt[p] >= t)
    BY DEF ChangedSince
  <1> SUFFICES Recording(p)' \/ (status'[p] = "EXECUTED" /\ executedAt'[p] >= t)
    BY DEF ChangedSince
  <1>0. TypeOK /\ Quiet /\ QuietInv /\ ~Fault("overlap") /\ SettledInv
    BY ReadersQuiet DEF CurrentState
  <1>1. CASE Recording(p)
    <2> PICK w \in Workers : pc[w] = "recordExecuted" /\ req[w].id = p
      BY <1>1 DEF Recording
    <2>1. CASE w # v
      BY <1>0, <2>1, HandlerMoves DEF Recording
    <2>2. CASE w = v
      <3>1. RecordExecuted(v)
        BY <2>2 DEF Handler, lockObjectExec, ReplayStored, StartRun, ReadCooldown,
           fetchLiveState, LiveUnreadable, captureBeforeMetrics, WriteApplied,
           WriteAmbiguous, WriteRefused, RecordFailed
      <3>2. ~ExecutedTwin(p)
        BY <1>0, <2>2 DEF QuietInv, QuietRequest, InFlight, Critical
      <3>3. ~Fault("db_error")
        BY <1>0 DEF Quiet, Only, Fault
      <3> QED
        BY <1>0, <2>2, <3>1, <3>2, <3>3 DEF RecordExecuted, TypeOK
    <2> QED
      BY <2>1, <2>2
  <1>2. CASE status[p] = "EXECUTED" /\ executedAt[p] >= t
    <2>1. pc[v] # "idle" /\ req[v].id \in Proposals
      BY <1>0, HandlerMoves, RequestTyped DEF lockObjectExec, Critical
    <2>2. p # req[v].id
      BY <1>0, <1>2, <2>1 DEF SettledInv, InFlight
    <2> QED
      BY <1>0, <1>2, <2>2, HandlerTimes
  <1> QED
    BY <1>1, <1>2

\* So trust in an entry outlasts whatever leaves its object alone.
LEMMA StaysTrusted ==
    ASSUME CurrentState, Undisturbed, NEW v \in Workers, Handler(v), NEW o \in Objects,
           NEW e \in {cache[Home][o], reading[Home][o]}, live'[o] = live[o]
    PROVE  Trusted(o, e)'
  <1>1. /\ Trusted(o, e) /\ now' = now /\ faults' = faults
        /\ e # NoEntry => e.since \in Nat /\ now \in Nat /\ e.since <= now
    BY EntryFacts, HandlerTimes DEF CurrentState
  <1>2. CASE e = NoEntry
    BY <1>2 DEF Trusted, NoEntry
  <1>3. CASE e # NoEntry
    <2>1. Fault("readers") /\ ChangedSince(o, e.since) => ChangedSince(o, e.since)'
      BY <1>1, <1>3, ChangedStays
    <2> QED
      BY <1>1, <1>3, <2>1 DEF Trusted, Fault
  <1> QED
    BY <1>2, <1>3

\* A handler writes where it has read, and leaves no answer behind that neither
\* is Meta's nor was overtaken by a change on record.
LEMMA HandlerCurrent ==
    ASSUME CurrentState, Undisturbed, NEW v \in Workers, Handler(v)
    PROVE  CurrentInv'
  <1> USE DEF rows, gets, clock, Critical
  <1> DEFINE o == Row[req[v].id].object
  <1>t. TypeOK /\ CurrentInv
    BY DEF CurrentState
  <1>0. /\ req[v].id \in Proposals /\ o \in Objects /\ Home \in Servers
        /\ \A w \in Workers : req[w].server = Home /\ req[w].id \in Proposals
        /\ Fault("readers") \/ \A b \in Objects : reading[Home][b] = NoEntry
        /\ faults' = faults /\ now' = now /\ now \in Nat
    BY <1>t, RequestTyped, AnswerType, HandlerTimes, HomeType DEF CurrentInv
  <1>1. \A w \in Workers : req'[w].server = Home
    <2>1. ASSUME NEW answer, Finish(v, answer)
          PROVE  req'[v].server = Home
      BY <1>t, <2>1 DEF Finish, TypeOK, Fresh
    <2>2. req'[v].server = Home
      BY <1>0, <1>t, <2>1, HandlerMoves DEF lockObjectExec
    <2> QED
      BY <1>0, <1>t, <2>2, HandlerMoves
  <1>2. CASE fetchLiveState(v)
    <2>1. /\ req'[v].seen = Answer(v).state /\ req'[v].id = req[v].id /\ live' = live
          /\ req'[v].conversions = req[v].conversions
          /\ req'[v].lastExecutedAt = req[v].lastExecutedAt
          /\ req'[v].started = req[v].started
          /\ reading' = reading
          /\ cache'[Home] = [cache[Home] EXCEPT ![o] = Answer(v)]
      BY <1>0, <1>2, <1>t DEF fetchLiveState, TypeOK, Requests
    <2>2. ASSUME NEW b \in Objects, NEW e \in {cache'[Home][b], reading'[Home][b]}
          PROVE  Trusted(b, e)'
      <3>1. CASE e \in {cache[Home][b], reading[Home][b]}
        BY <2>1, <3>1, StaysTrusted
      <3>2. CASE e \notin {cache[Home][b], reading[Home][b]}
        <4>1. b = o /\ e = Answer(v)
          BY <1>0, <1>t, <2>1, <2>2, <3>2 DEF TypeOK
        <4>2. e = [state |-> live[o], since |-> now]
          BY <1>0, <3>2, <4>1 DEF Answer
        <4> HIDE DEF o
        <4> QED
          BY <1>0, <2>1, <4>1, <4>2 DEF Trusted
      <3> QED
        BY <3>1, <3>2
    <2>3. pc'[v] \in {"capture", "write"} => Informed(v)'
      <3> SUFFICES ASSUME pc'[v] \in {"capture", "write"} PROVE Informed(v)'
        OBVIOUS
      <3>1. pc'[v] = "capture" /\ Validate(ContextOf(v, Answer(v).state))
        BY <1>2, <1>t DEF fetchLiveState, TypeOK
      <3>2. Answer(v).state = live[o] /\ Permitted(ContextOf(v, Answer(v).state))
        BY <1>2, <3>1, ReadIsCurrent DEF Validate
      <3> QED
        BY <2>1, <3>2 DEF Informed, Permitted, ContextOf
    <2>4. ASSUME NEW w \in Workers, w # v, pc'[w] \in {"capture", "write"}
          PROVE  Informed(w)'
      BY <1>t, <2>1, <2>4, HandlerMoves, StaysInformed DEF CurrentInv
    <2>5. Fault("readers")' \/ \A b \in Objects : reading'[Home][b] = NoEntry
      BY <1>0, <2>1 DEF Fault
    <2> QED
      BY <1>1, <2>2, <2>3, <2>4, <2>5, CurrentByParts
  <1>3. CASE WriteApplied(v)
    <2>1. /\ pc[v] = "write" /\ req' = req /\ pc'[v] = "recordExecuted"
          /\ \A b \in Objects : cache'[Home][b] = NoEntry /\ reading' = reading
          /\ \A b \in Objects \ {o} : live'[b] = live[b]
      BY <1>0, <1>3, <1>t DEF WriteApplied, Apply, TypeOK
    <2>2. ASSUME NEW w \in Workers, pc'[w] \in {"capture", "write"}
          PROVE  Informed(w)'
      <3>1. w # v /\ pc[w] = pc'[w]
        BY <1>t, <2>1, <2>2, HandlerMoves
      <3>2. Row[req[w].id].object # o /\ Row[req[w].id].object \in Objects
        BY <1>t, <2>1, <2>2, <3>1, OneOnObject, AnswerType
      <3> QED
        BY <1>t, <2>1, <2>2, <3>1, <3>2, StaysInformed DEF CurrentInv
    <2>3. ASSUME NEW b \in Objects, NEW e \in {cache'[Home][b], reading'[Home][b]}
          PROVE  Trusted(b, e)'
      <3>1. CASE e = NoEntry
        BY <3>1 DEF Trusted, NoEntry
      <3>2. CASE e # NoEntry /\ b # o
        BY <2>1, <2>3, <3>2, StaysTrusted
      <3>3. CASE e # NoEntry /\ b = o
        <4> PICK p \in Proposals : p = req[v].id
          BY <1>0
        <4>1. Recording(p)'
          BY <2>1 DEF Recording
        <4>2. Trusted(b, e) /\ e = reading[Home][b] /\ Fault("readers")
          BY <1>0, <2>1, <2>3, <3>3, EntryFacts
        <4>3. Row[p].object = b
          BY <3>3
        <4> HIDE DEF o
        <4> QED
          BY <1>0, <3>3, <4>1, <4>2, <4>3 DEF Trusted, ChangedSince, Fault
      <3> QED
        BY <3>1, <3>2, <3>3
    <2>4. Fault("readers")' \/ \A b \in Objects : reading'[Home][b] = NoEntry
      BY <1>0, <2>1 DEF Fault
    <2> QED
      BY <1>1, <2>2, <2>3, <2>4, CurrentByParts
  <1>4. CASE UNCHANGED <<gets, live>> /\ (pc'[v] \in {"capture", "write"} =>
                 req'[v] = req[v] /\ pc[v] \in {"capture", "write"})
    <2>1. ASSUME NEW w \in Workers, pc'[w] \in {"capture", "write"}
          PROVE  Informed(w)'
      <3>1. req'[w] = req[w] /\ pc[w] \in {"capture", "write"}
        BY <1>4, <1>t, <2>1, HandlerMoves
      <3> QED
        BY <1>4, <1>t, <3>1, StaysInformed DEF CurrentInv
    <2>2. ASSUME NEW b \in Objects, NEW e \in {cache'[Home][b], reading'[Home][b]}
          PROVE  Trusted(b, e)'
      BY <1>4, <2>2, StaysTrusted
    <2>3. Fault("readers")' \/ \A b \in Objects : reading'[Home][b] = NoEntry
      BY <1>0, <1>4 DEF Fault
    <2> QED
      BY <1>1, <2>1, <2>2, <2>3, CurrentByParts
  <1>5. CASE lockObjectExec(v) \/ StartRun(v) \/ ReadCooldown(v)
    BY <1>4, <1>5, <1>t DEF lockObjectExec, StartRun, ReadCooldown, TypeOK
  <1>6. CASE LiveUnreadable(v) \/ captureBeforeMetrics(v) \/ WriteRefused(v)
    BY <1>4, <1>6, <1>t DEF LiveUnreadable, captureBeforeMetrics, WriteRefused, TypeOK
  <1>7. CASE ReplayStored(v) \/ RecordExecuted(v) \/ RecordFailed(v)
    BY <1>4, <1>7, <1>t DEF ReplayStored, RecordExecuted, RecordFailed, Finish, TypeOK
  <1>8. ~WriteAmbiguous(v)
    BY DEF WriteAmbiguous, Undisturbed, Only, Fault
  <1> QED
    BY <1>2, <1>3, <1>5, <1>6, <1>7, <1>8 DEF Handler

\* Nobody but a handler changes what the requests know or what is on record.
LEMMA OtherCurrent ==
    ASSUME CurrentState, Undisturbed, faults' = faults, UNCHANGED live,
           \A w \in Workers : req'[w].server = Home,
           \A w \in Workers : pc'[w] \in {"capture", "write"} => pc'[w] = pc[w] /\ req'[w] = req[w],
           Fault("readers") \/ \A o \in Objects : reading'[Home][o] = NoEntry,
           \A o \in Objects : \A e \in {cache'[Home][o], reading'[Home][o]} :
             e # NoEntry =>
               /\ e.since <= now' /\ now' <= e.since + 1
               /\ \/ e.state = live[o]
                  \/ /\ e \in {cache[Home][o], reading[Home][o]}
                     /\ ChangedSince(o, e.since) => ChangedSince(o, e.since)'
    PROVE  CurrentInv'
  <1>1. \A w \in Workers : pc'[w] \in {"capture", "write"} => Informed(w)'
    BY StaysInformed DEF CurrentState, CurrentInv
  <1>2. ASSUME NEW o \in Objects, NEW e \in {cache'[Home][o], reading'[Home][o]}
        PROVE  Trusted(o, e)'
    <2>1. CASE e = NoEntry
      BY <2>1 DEF Trusted, NoEntry
    <2>2. CASE e # NoEntry
      <3>1. e \in {cache[Home][o], reading[Home][o]} => Trusted(o, e)
        BY EntryFacts
      <3> QED
        BY <1>2, <2>2, <3>1 DEF Trusted, Fault
    <2> QED
      BY <2>1, <2>2
  <1>3. Fault("readers")' \/ \A o \in Objects : reading'[Home][o] = NoEntry
    BY DEF Fault
  <1> QED
    BY <1>1, <1>2, <1>3, CurrentByParts

LEMMA CurrentStep == CurrentState /\ [Next]_vars => CurrentInv'
  <1> SUFFICES ASSUME CurrentState, [Next]_vars, Undisturbed'
               PROVE  CurrentInv'
    BY DEF CurrentInv
  <1> USE DEF rows, gets, clock
  <1>t. TypeOK /\ CurrentInv
    BY DEF CurrentState
  <1>0. Undisturbed /\ faults' = faults
    BY <1>t, FaultsStay DEF Undisturbed, Only, Fault
  <1>e. /\ \A w \in Workers : req[w].server = Home
        /\ Fault("readers") \/ \A o \in Objects : reading[Home][o] = NoEntry
        /\ \A o \in Objects : \A e \in {cache[Home][o], reading[Home][o]} :
             e # NoEntry => e.since \in Nat /\ e.since <= now /\ now <= e.since + 1
    BY <1>0, <1>t, EntryFacts DEF CurrentInv, Trusted
  <1>1. ASSUME NEW w \in Workers, NEW p \in Proposals, NEW s \in Servers, Receive(w, p, s)
        PROVE  CurrentInv'
    <2>1. /\ s = Home /\ pc[w] = "idle" /\ pc' = [pc EXCEPT ![w] = "lock"]
          /\ req' = [req EXCEPT ![w] = Fresh(p, s, now)]
          /\ UNCHANGED <<rows, live, gets, now>>
      BY <1>0, <1>1 DEF Receive, Undisturbed, Only, Fault
    <2>2. \A v \in Workers : req'[v].server = Home
      BY <1>e, <1>t, <2>1 DEF TypeOK, Fresh
    <2>3. \A v \in Workers :
            pc'[v] \in {"capture", "write"} => pc'[v] = pc[v] /\ req'[v] = req[v]
      BY <1>t, <2>1 DEF TypeOK
    <2>4. \A b \in Objects : \A t : ChangedSince(b, t) => ChangedSince(b, t)'
      <3>1. \A q \in Proposals : Recording(q)' = Recording(q)
        BY <1>t, <2>1 DEF Recording, TypeOK
      <3> QED
        BY <2>1, <3>1 DEF ChangedSince
    <2> QED
      BY <1>0, <1>e, <2>1, <2>2, <2>3, <2>4, OtherCurrent
  <1>2. ASSUME NEW s \in Servers, Crash(s)
        PROVE  CurrentInv'
    <2>1. s = Home
      BY <1>2, <1>e DEF Crash
    <2>2. /\ \A b \in Objects : cache'[Home][b] = NoEntry /\ reading'[Home][b] = NoEntry
          /\ live' = live
      BY <1>2, <1>t, <2>1, HomeType DEF Crash, TypeOK
    <2>3. \A v \in Workers : req'[v].server = Home
      BY <1>2, <1>e DEF Crash, Fresh
    <2>4. \A v \in Workers :
            pc'[v] \in {"capture", "write"} => pc'[v] = pc[v] /\ req'[v] = req[v]
      BY <1>2, <1>t, CrashMoves
    <2> QED
      BY <1>0, <2>2, <2>3, <2>4, OtherCurrent
  <1>3. ASSUME NEW s \in Servers, NEW o \in Objects,
               ReadElsewhere(s, o) \/ StoreRead(s, o) \/ CacheExpire(s, o)
        PROVE  CurrentInv'
    <2>1. UNCHANGED <<rows, live, pc, req, now>>
      BY <1>3 DEF ReadElsewhere, StoreRead, CacheExpire
    <2>2. \A b \in Objects : \A t : ChangedSince(b, t) => ChangedSince(b, t)'
      BY <2>1 DEF ChangedSince, Recording
    <2>3. ASSUME NEW b \in Objects, NEW e \in {cache'[Home][b], reading'[Home][b]}
          PROVE  e \in {cache[Home][b], reading[Home][b], NoEntry,
                        [state |-> live[b], since |-> now]}
      <3>1. CASE ReadElsewhere(s, o)
        BY <1>t, <2>3, <3>1, HomeType DEF ReadElsewhere, TypeOK
      <3>2. CASE StoreRead(s, o)
        BY <1>t, <2>3, <3>2, HomeType DEF StoreRead, TypeOK
      <3>3. CASE CacheExpire(s, o)
        BY <1>t, <2>3, <3>3, HomeType DEF CacheExpire, TypeOK
      <3> QED
        BY <1>3, <3>1, <3>2, <3>3
    <2>4. Fault("readers") \/ \A b \in Objects : reading'[Home][b] = NoEntry
      BY <1>3, <1>e, <1>t, HomeType DEF ReadElsewhere, StoreRead, CacheExpire, TypeOK
    <2>5. now \in Nat
      BY <1>t DEF TypeOK, Time
    <2>6. ASSUME NEW b \in Objects, NEW e \in {cache'[Home][b], reading'[Home][b]}, e # NoEntry
          PROVE  /\ e.since <= now' /\ now' <= e.since + 1
                 /\ \/ e.state = live[b]
                    \/ /\ e \in {cache[Home][b], reading[Home][b]}
                       /\ ChangedSince(b, e.since) => ChangedSince(b, e.since)'
      <3>1. CASE e \in {cache[Home][b], reading[Home][b]}
        BY <1>e, <2>1, <2>2, <2>6, <3>1
      <3>2. CASE e = [state |-> live[b], since |-> now]
        BY <2>1, <2>5, <3>2
      <3> QED
        BY <2>3, <2>6, <3>1, <3>2
    <2> QED
      BY <1>0, <1>e, <2>1, <2>4, <2>6, OtherCurrent
  <1>4. ASSUME NEW o \in Objects, ExternalChange(o)
        PROVE  FALSE
    BY <1>0, <1>4 DEF ExternalChange, Undisturbed, Only, Fault
  <1>5. ASSUME NEW p \in Proposals, NEW verdict \in {"APPROVED", "REJECTED"}, Decide(p, verdict)
        PROVE  CurrentInv'
    <2>1. /\ status[p] = "PENDING" /\ UNCHANGED <<executedAt, live, gets, pc, req, now>>
          /\ \A q \in Proposals \ {p} : status'[q] = status[q]
      BY <1>5, <1>t DEF Decide, TypeOK
    <2>2. \A b \in Objects : \A t : ChangedSince(b, t) => ChangedSince(b, t)'
      BY <2>1 DEF ChangedSince, Recording
    <2> QED
      BY <1>0, <1>e, <2>1, <2>2, OtherCurrent
  <1>6. CASE Tick
    <2>1. /\ now' = now + 1 /\ UNCHANGED <<rows, live, gets, pc, req>>
          /\ \A s \in Servers, o \in Objects :
               {cache[s][o].since, reading[s][o].since} \subseteq {now, -1}
      BY <1>6 DEF Tick
    <2>2. now \in Nat
      BY <1>t DEF TypeOK, Time
    <2>3. \A b \in Objects : \A t : ChangedSince(b, t) => ChangedSince(b, t)'
      BY <2>1 DEF ChangedSince, Recording
    <2>4. \A o \in Objects : \A e \in {cache[Home][o], reading[Home][o]} :
             e # NoEntry => e.since = now
      BY <1>e, <2>1, HomeType
    <2> QED
      BY <1>0, <1>e, <2>1, <2>2, <2>3, <2>4, OtherCurrent
  <1>7. CASE UNCHANGED vars
    <2>1. \A b \in Objects : \A t : ChangedSince(b, t) => ChangedSince(b, t)'
      BY <1>7 DEF ChangedSince, Recording, vars
    <2> QED
      BY <1>0, <1>7, <1>e, <2>1, OtherCurrent DEF vars
  <1>8. ASSUME NEW v \in Workers, Handler(v)
        PROVE  CurrentInv'
    BY <1>0, <1>8, HandlerCurrent
  <1> QED
    BY <1>1, <1>2, <1>3, <1>4, <1>5, <1>6, <1>7, <1>8 DEF Next

\* What a dispatched change asks for is within the caps of what Meta has.
LEMMA TargetWithinCaps ==
    ASSUME TypeOK, Undisturbed, CurrentInv, NEW w \in Workers, pc[w] = "write", Dispatchable(w)
    PROVE  LET b == live[Row[req[w].id].object].budget IN
           /\ Target(w).budget <= ApplyBudgetPct(b, MaxIncreasePct)
           /\ Target(w).budget >= ApplyBudgetPct(b, -MaxDecreasePct)
  <1> DEFINE p == req[w].id
             o == Row[p].object
             m == live[o]
             pct == ClampedPct(Row[p].action, Row[p].pct)
  <1>1. p \in Proposals /\ o \in Objects /\ m \in MetaStates /\ Row[p].pct \in Int
    BY RequestTyped, AnswerType DEF TypeOK, RowType
  <1>2. m.budget \in Nat
    BY <1>1 DEF MetaStates
  <1>3. CASE Row[p].action \in {"PAUSE_CAMPAIGN", "RESUME_CAMPAIGN"}
    <2>1. Target(w).budget = m.budget
      BY <1>1, <1>3 DEF Target, MetaStates
    <2> QED
      BY <1>2, <2>1, WithinCaps
  <1>4. CASE Row[p].action \in BudgetActions
    <2>1. req[w].seen = m /\ Permitted(ContextOf(w, m))
      BY DEF CurrentInv, Informed
    <2>2. pct \in Int /\ -MaxDecreasePct <= pct /\ pct <= MaxIncreasePct
      BY <1>1, <1>4, <2>1, ClampedWithin DEF ContextOf
    <2>3. Target(w).budget = ApplyBudgetPct(m.budget, pct)
      <3>1. Target(w) = [m EXCEPT !.budget = ApplyBudgetPct(m.budget, pct)]
        BY <1>4, <2>1 DEF Target, BudgetActions
      <3> HIDE DEF pct
      <3> QED
        BY <1>1, <3>1 DEF MetaStates
    <2> HIDE DEF pct
    <2> QED
      BY <1>2, <2>2, <2>3, WithinCaps
  <1> QED
    BY <1>3, <1>4 DEF Dispatchable

\* A budget the executor writes is within the caps of the budget Meta has at that
\* moment: the mutex keeps every other request off the object since it was read,
\* the flush after a write keeps its old state out of the cache, and what another
\* request had read before and stores after it is refused by the cooldown.
THEOREM BudgetWithinCaps == Spec => CapsHold
  <1>1. CurrentState /\ [Next]_vars =>
          (Undisturbed =>
             \A o \in Objects :
               LET b == live[o].budget IN
               /\ live'[o].budget <= ApplyBudgetPct(b, MaxIncreasePct)
               /\ live'[o].budget >= ApplyBudgetPct(b, -MaxDecreasePct))
    <2> SUFFICES ASSUME TypeOK, CurrentInv, [Next]_vars, Undisturbed, NEW o \in Objects
                 PROVE  LET b == live[o].budget IN
                        /\ live'[o].budget <= ApplyBudgetPct(b, MaxIncreasePct)
                        /\ live'[o].budget >= ApplyBudgetPct(b, -MaxDecreasePct)
      BY DEF CurrentState
    <2>1. live[o].budget \in Nat
      BY DEF TypeOK, MetaStates
    <2>2. CASE live'[o] = live[o]
      BY <2>1, <2>2, WithinCaps
    <2>3. ASSUME NEW w \in Workers, WriteApplied(w)
          PROVE  LET b == live[o].budget IN
                 /\ live'[o].budget <= ApplyBudgetPct(b, MaxIncreasePct)
                 /\ live'[o].budget >= ApplyBudgetPct(b, -MaxDecreasePct)
      <3>1. live'[o] = live[o] \/ (o = Row[req[w].id].object /\ live'[o] = Target(w))
        BY <2>3 DEF WriteApplied, Apply, TypeOK
      <3> QED
        BY <2>2, <2>3, <3>1, TargetWithinCaps DEF WriteApplied
    <2>4. ASSUME NEW w \in Workers, Handler(w), ~WriteApplied(w)
          PROVE  live' = live
      <3>1. ~WriteAmbiguous(w)
        BY DEF WriteAmbiguous, Undisturbed, Only, Fault
      <3> QED
        BY <2>4, <3>1 DEF Handler, lockObjectExec, ReplayStored, StartRun, ReadCooldown,
           fetchLiveState, LiveUnreadable, captureBeforeMetrics, WriteRefused,
           RecordExecuted, RecordFailed
    <2>5. ASSUME NEW b \in Objects, ExternalChange(b)
          PROVE  FALSE
      BY <2>5 DEF ExternalChange, Undisturbed, Only, Fault
    <2> QED
      BY <2>2, <2>3, <2>4, <2>5
      DEF Next, Decide, Receive, Crash, ReadElsewhere, StoreRead, CacheExpire, Tick, vars
  <1>2. TypeOK /\ [Next]_vars => Quiet' = Quiet
    BY FaultsStay DEF Quiet, Only
  <1>3. Init => SettledInv
    BY DEF Init, SettledInv, InFlight
  <1>4. Spec => []CurrentState
    <2>1. CurrentState /\ [Next]_vars => (Quiet => QuietInv)' /\ SettledInv' /\ CurrentInv'
      BY <1>2, QuietStep, SettledStep, CurrentStep DEF CurrentState
    <2>2. TypeOK /\ ObjectExclusion /\ (Quiet => QuietInv) /\ SettledInv /\ CurrentInv
            <=> CurrentState
      BY DEF CurrentState
    <2> QED
      BY <1>3, <2>1, <2>2, QuietInit, CurrentInit, TypeCorrect, Exclusion, PTL DEF Spec
  <1>5. Spec => [][Undisturbed =>
             \A o \in Objects :
               LET b == live[o].budget IN
               /\ live'[o].budget <= ApplyBudgetPct(b, MaxIncreasePct)
               /\ live'[o].budget >= ApplyBudgetPct(b, -MaxDecreasePct)]_live
    BY <1>1, <1>4, PTL DEF Spec
  <1> QED
    BY <1>5 DEF CapsHold
===============================================================================
