---------------------------- MODULE ExecutorProofs ----------------------------
(***************************************************************************)
(* Proofs about Executor, for every set of rows, workers, processes and    *)
(* objects, every policy, and every set of faults.                         *)
(***************************************************************************)
EXTENDS Executor, TLAPS

USE ExecutorAssumption, PolicyAssumption DEF Never, NoPct

\* A cleared set of locals is a set of locals.
LEMMA FreshType ==
  ASSUME NEW p \in Proposals, NEW s \in Servers, NEW t \in Time
  PROVE  Fresh(p, s, t) \in Requests
BY DEF Fresh, Requests, Time, ReadStates

\* Requests normally reach one process of the deployment.
LEMMA HomeType == Home \in Servers
BY DEF Home

\* The locals a handler fills in as it goes keep their types.
LEMMA RequestUpdate ==
  ASSUME TypeOK, NEW w \in Workers
  PROVE  /\ \A t \in Time, n \in {0, MinConversionsForScale} :
              [req[w] EXCEPT !.started = t, !.conversions = n] \in Requests
         /\ \A t \in Time \cup {Never} :
              [req[w] EXCEPT !.lastExecutedAt = t] \in Requests
         /\ \A m \in ReadStates : [req[w] EXCEPT !.seen = m] \in Requests
<1> DEFINE r == req[w]
<1>1. r \in Requests
  BY DEF TypeOK
<1> HIDE DEF r
<1>2. \A t \in Time, n \in {0, MinConversionsForScale} :
        [r EXCEPT !.started = t, !.conversions = n] \in Requests
  <2> SUFFICES ASSUME NEW t \in Time, NEW n \in {0, MinConversionsForScale}
               PROVE  [r EXCEPT !.started = t, !.conversions = n] \in Requests
    OBVIOUS
  <2>1. [r EXCEPT !.started = t] \in Requests
    BY <1>1 DEF Requests
  <2>2. QED
    BY <1>1, <2>1 DEF Requests
<1>3. \A t \in Time \cup {Never} : [r EXCEPT !.lastExecutedAt = t] \in Requests
  BY <1>1 DEF Requests
<1>4. \A m \in ReadStates : [r EXCEPT !.seen = m] \in Requests
  BY <1>1 DEF Requests
<1>5. QED
  BY <1>2, <1>3, <1>4 DEF r

\* Answering, the common end of every request, keeps the types it touches.
LEMMA FinishType ==
  ASSUME TypeOK, NEW w \in Workers, NEW answer \in Replies, Finish(w, answer)
  PROVE  /\ held' \subseteq Servers \X Scopes
         /\ pc' \in [Workers -> Positions]
         /\ reply' \in [Workers -> Replies]
         /\ req' \in [Workers -> Requests]
<1>1. req[w].id \in Proposals /\ 0 \in Time
  BY DEF TypeOK, Requests, Time
<1>2. Fresh(req[w].id, Home, 0) \in Requests
  BY <1>1, FreshType, HomeType
<1>3. QED
  BY <1>2 DEF TypeOK, Finish, Positions

\* What the live read answers is a cached entry or Meta's state.
LEMMA AnswerType ==
  ASSUME TypeOK, NEW w \in Workers
  PROVE  /\ Answer(w) \in Entries /\ Answer(w).state \in ReadStates
         /\ req[w].server \in Servers /\ Row[req[w].id].object \in Objects
<1>1. req[w].id \in Proposals /\ req[w].server \in Servers
  BY DEF TypeOK, Requests
<1>2. Row[req[w].id].object \in Objects
  BY <1>1 DEF RowType
<1>3. [state |-> live[Row[req[w].id].object], since |-> now] \in Entries
  BY <1>2 DEF TypeOK, Entries
<1>4. Answer(w) \in Entries
  BY <1>1, <1>2, <1>3 DEF TypeOK, Answer
<1>5. QED
  BY <1>1, <1>2, <1>4 DEF Entries, NoEntry, ReadStates

\* A change that can be dispatched leaves the object in a state Meta can have.
LEMMA ApplyType ==
  ASSUME TypeOK, NEW w \in Workers, Dispatchable(w), Apply(w)
  PROVE  /\ live' \in [Objects -> MetaStates]
         /\ applied' \in [Proposals -> 0..MaxApplied]
         /\ lastWrite' \in [Scopes -> Time \cup {Never}]
<1> DEFINE p == req[w].id
           o == Row[p].object
<1>1. p \in Proposals /\ o \in Objects
  BY DEF TypeOK, Requests, RowType
<1>2. live[o] \in MetaStates /\ now \in Time
  BY <1>1 DEF TypeOK
<1>3. Target(w) \in MetaStates
  <2>1. CASE Row[p].action = "PAUSE_CAMPAIGN"
    BY <2>1, <1>2 DEF Target, MetaStates, MetaStatuses
  <2>2. CASE Row[p].action = "RESUME_CAMPAIGN"
    BY <2>2, <1>2 DEF Target, MetaStates, MetaStatuses
  <2>3. CASE Row[p].action \notin {"PAUSE_CAMPAIGN", "RESUME_CAMPAIGN"}
    <3> DEFINE b == ApplyBudgetPct(req[w].seen.budget,
                                   ClampedPct(Row[p].action, Row[p].pct))
    <3>1. Target(w) = [live[o] EXCEPT !.budget = b]
      BY <2>3 DEF Target
    <3>2. Target(w).budget = b
      BY <3>1, <1>2 DEF MetaStates
    <3>3. b > 0
      BY <2>3, <3>2 DEF Dispatchable
    <3>4. req[w].seen.budget \in Nat /\ Row[p].pct \in Int
      BY <1>1 DEF TypeOK, Requests, ReadStates, MetaStates, Unread, RowType
    <3>5. ClampedPct(Row[p].action, Row[p].pct) \in Int
      BY <3>4 DEF ClampedPct
    <3>6. b \in Int
      BY <3>4, <3>5 DEF ApplyBudgetPct
    <3>7. b \in Nat
      BY <3>3, <3>6
    <3> HIDE DEF b
    <3>8. QED
      BY <3>1, <3>7, <1>2 DEF MetaStates
  <2>4. QED
    BY <2>1, <2>2, <2>3
<1>4. ScopeOf(p) \in Scopes
  BY <1>1 DEF ScopeOf, Scopes, RowType
<1>5. applied[p] \in 0..MaxApplied
  BY <1>1 DEF TypeOK
<1>6. QED
  BY <1>1, <1>2, <1>3, <1>4, <1>5 DEF TypeOK, Apply

\* Type correctness is inductive: one step per action.
LEMMA TypeStep == TypeOK /\ [Next]_vars => TypeOK'
<1> SUFFICES ASSUME TypeOK, [Next]_vars
             PROVE  TypeOK'
  OBVIOUS
<1> USE DEF rows, gets, clock
<1>1. ASSUME NEW p \in Proposals, NEW verdict \in {"APPROVED", "REJECTED"},
             Decide(p, verdict)
      PROVE  TypeOK'
  BY <1>1 DEF Decide, TypeOK, Statuses
<1>2. ASSUME NEW w \in Workers, NEW p \in Proposals, NEW s \in Servers,
             Receive(w, p, s)
      PROVE  TypeOK'
  <2>1. Fresh(p, s, now) \in Requests
    BY FreshType DEF TypeOK
  <2>2. QED
    BY <1>2, <2>1 DEF Receive, TypeOK, Positions, Replies
<1>3. ASSUME NEW w \in Workers, Handler(w)
      PROVE  TypeOK'
  <2>0. req[w].id \in Proposals /\ req[w].server \in Servers
    BY DEF TypeOK, Requests
  <2>1. CASE lockObjectExec(w)
    <3>1. LockOf(w) \in Servers \X Scopes
      BY <2>0 DEF LockOf, ScopeOf, Scopes, RowType
    <3>2. QED
      BY <2>1, <3>1 DEF lockObjectExec, TypeOK, Positions, Critical
  <2>2. CASE ReplayStored(w)
    <3>1. \E answer \in Replies : Finish(w, answer)
      BY <2>2 DEF ReplayStored, Replies
    <3>2. /\ held' \subseteq Servers \X Scopes
          /\ pc' \in [Workers -> Positions]
          /\ reply' \in [Workers -> Replies]
          /\ req' \in [Workers -> Requests]
      BY <3>1, FinishType
    <3>3. QED
      BY <2>2, <3>2 DEF ReplayStored, TypeOK
  <2>3. CASE StartRun(w)
    <3>1. PICK n \in {0, MinConversionsForScale} :
            req' = [req EXCEPT ![w].started = now, ![w].conversions = n]
      BY <2>3 DEF StartRun
    <3>2. [req[w] EXCEPT !.started = now, !.conversions = n] \in Requests
      BY RequestUpdate DEF TypeOK
    <3>3. req' \in [Workers -> Requests]
      BY <3>1, <3>2 DEF TypeOK
    <3>4. QED
      BY <2>3, <3>3 DEF StartRun, TypeOK, Positions, Critical
  <2>4. CASE ReadCooldown(w)
    <3>1. ExecutedTimes(ScopeOf(req[w].id)) \subseteq Time \cup {Never}
      BY DEF ExecutedTimes, TypeOK
    <3>2. PICK t \in Time \cup {Never} :
            req' = [req EXCEPT ![w].lastExecutedAt = t]
      BY <2>4, <3>1 DEF ReadCooldown
    <3>3. [req[w] EXCEPT !.lastExecutedAt = t] \in Requests
      BY RequestUpdate
    <3>4. req' \in [Workers -> Requests]
      BY <3>2, <3>3 DEF TypeOK
    <3>5. QED
      BY <2>4, <3>4 DEF ReadCooldown, TypeOK, Positions, Critical
  <2>5. CASE fetchLiveState(w)
    <3>1. Answer(w) \in Entries /\ Answer(w).state \in ReadStates
      BY AnswerType
    <3>2. [req[w] EXCEPT !.seen = Answer(w).state] \in Requests
      BY <3>1, RequestUpdate
    <3>3. req' \in [Workers -> Requests]
      BY <2>5, <3>2 DEF fetchLiveState, TypeOK
    <3>4. cache' \in [Servers -> [Objects -> Entries]]
      BY <2>0, <2>5, <3>1 DEF fetchLiveState, TypeOK
    <3>5. QED
      BY <2>5, <3>3, <3>4 DEF fetchLiveState, TypeOK, Positions, Critical
  <2>6. CASE LiveUnreadable(w)
    BY <2>6 DEF LiveUnreadable, TypeOK, Positions, Critical
  <2>7. CASE captureBeforeMetrics(w)
    BY <2>0, <2>7 DEF captureBeforeMetrics, TypeOK, Positions, Critical
  <2>8. CASE WriteApplied(w)
    <3>1. [o \in Objects |-> NoEntry] \in [Objects -> Entries]
      BY DEF Entries
    <3>2. cache' \in [Servers -> [Objects -> Entries]]
      BY <2>8, <3>1 DEF WriteApplied, TypeOK
    <3>3. QED
      BY <2>8, <3>2, ApplyType DEF WriteApplied, TypeOK, Positions, Critical
  <2>9. CASE WriteAmbiguous(w)
    BY <2>9, ApplyType DEF WriteAmbiguous, TypeOK, Positions, Critical
  <2>10. CASE WriteRefused(w)
    BY <2>10 DEF WriteRefused, TypeOK, Positions, Critical
  <2>11. CASE RecordExecuted(w)
    <3>1. \E answer \in Replies : Finish(w, answer)
      BY <2>11 DEF RecordExecuted, Replies
    <3>2. /\ status' \in [Proposals -> Statuses]
          /\ executedAt' \in [Proposals -> Time \cup {Never}]
      <4>1. \/ UNCHANGED <<status, executedAt>>
            \/ /\ status' = [status EXCEPT ![req[w].id] = "EXECUTED"]
               /\ executedAt' = [executedAt EXCEPT ![req[w].id] = now]
        BY <2>11 DEF RecordExecuted
      <4>2. /\ status \in [Proposals -> Statuses] /\ "EXECUTED" \in Statuses
            /\ executedAt \in [Proposals -> Time \cup {Never}] /\ now \in Time
        BY DEF TypeOK, Statuses
      <4>3. QED
        BY <4>1, <4>2
    <3>3. QED
      BY <2>11, <3>1, <3>2, FinishType DEF RecordExecuted, TypeOK
  <2>12. CASE RecordFailed(w)
    <3>1. "failed" \in Replies
      BY DEF Replies
    <3>2. /\ status' \in [Proposals -> Statuses]
          /\ executedAt' \in [Proposals -> Time \cup {Never}]
      BY <2>0, <2>12 DEF RecordFailed, TypeOK, Statuses
    <3>3. QED
      BY <2>12, <3>1, <3>2, FinishType DEF RecordFailed, TypeOK
  <2>13. QED
    BY <1>3, <2>1, <2>2, <2>3, <2>4, <2>5, <2>6, <2>7, <2>8, <2>9, <2>10,
       <2>11, <2>12 DEF Handler
<1>4. ASSUME NEW s \in Servers, Crash(s)
      PROVE  TypeOK'
  <2>1. \A w \in Workers : Fresh(req[w].id, Home, 0) \in Requests
    <3>1. \A w \in Workers : req[w].id \in Proposals
      BY DEF TypeOK, Requests
    <3>2. 0 \in Time
      BY DEF Time
    <3>3. QED
      BY <3>1, <3>2, FreshType, HomeType
  <2>2. req' \in [Workers -> Requests]
    BY <1>4, <2>1 DEF Crash, TypeOK
  <2>3. /\ cache' \in [Servers -> [Objects -> Entries]]
        /\ reading' \in [Servers -> [Objects -> Entries]]
    BY <1>4 DEF Crash, TypeOK, Entries
  <2>4. pc' \in [Workers -> Positions] /\ reply' \in [Workers -> Replies]
    BY <1>4 DEF Crash, TypeOK, Positions, Replies
  <2>5. QED
    BY <1>4, <2>2, <2>3, <2>4 DEF Crash, TypeOK
<1>5. ASSUME NEW o \in Objects, ExternalChange(o)
      PROVE  TypeOK'
  BY <1>5 DEF ExternalChange, TypeOK
<1>6. ASSUME NEW s \in Servers, NEW o \in Objects,
             ReadElsewhere(s, o) \/ StoreRead(s, o) \/ CacheExpire(s, o)
      PROVE  TypeOK'
  <2>1. [state |-> live[o], since |-> now] \in Entries /\ NoEntry \in Entries
    BY DEF TypeOK, Entries
  <2>2. CASE ReadElsewhere(s, o)
    BY <2>1, <2>2 DEF ReadElsewhere, TypeOK
  <2>3. CASE StoreRead(s, o)
    BY <2>1, <2>3 DEF StoreRead, TypeOK
  <2>4. CASE CacheExpire(s, o)
    BY <2>1, <2>4 DEF CacheExpire, TypeOK
  <2>5. QED
    BY <1>6, <2>2, <2>3, <2>4
<1>7. CASE Tick
  BY <1>7 DEF Tick, TypeOK, Time
<1>8. CASE UNCHANGED vars
  BY <1>8 DEF vars, TypeOK
<1>9. QED
  BY <1>1, <1>2, <1>3, <1>4, <1>5, <1>6, <1>7, <1>8 DEF Next

\* The type invariant holds of every state the executor reaches.
THEOREM TypeCorrect == Spec => []TypeOK
<1>1. Init => TypeOK
  <2> SUFFICES ASSUME Init PROVE TypeOK
    OBVIOUS
  <2>1. 0 \in Time
    BY DEF Time
  <2>2. Fresh(CHOOSE p \in Proposals : TRUE, Home, 0) \in Requests
    BY <2>1, FreshType, HomeType
  <2>3. QED
    BY <2>1, <2>2 DEF Init, TypeOK, Statuses, Entries, Positions, Replies
<1>2. QED
  BY <1>1, TypeStep, PTL DEF Spec
-----------------------------------------------------------------------------

\* Every step of a handler enters the mutex, works inside it without touching
\* the mutexes, or leaves it by answering; other handlers do not move.
LEMMA HandlerMoves ==
  ASSUME TypeOK, NEW w \in Workers, Handler(w)
  PROVE  /\ \A v \in Workers \ {w} : /\ pc'[v] = pc[v]
                                     /\ req'[v] = req[v]
                                     /\ reply'[v] = reply[v]
         /\ \A v \in Workers : req'[v].id = req[v].id
         /\ pc'[w] # "idle" => req'[w].server = req[w].server
         /\ \/ lockObjectExec(w)
            \/ /\ pc[w] \in Critical /\ pc'[w] \in Critical
               /\ held' = held /\ reply' = reply
            \/ pc[w] \in Critical /\ \E answer \in Replies : Finish(w, answer)
<1> USE DEF Critical, rows
<1>0. req \in [Workers -> Requests]
  BY DEF TypeOK
<1>1. ASSUME NEW answer \in Replies, Finish(w, answer)
      PROVE  /\ \A v \in Workers \ {w} : /\ pc'[v] = pc[v]
                                         /\ req'[v] = req[v]
                                         /\ reply'[v] = reply[v]
             /\ \A v \in Workers : req'[v].id = req[v].id
             /\ pc'[w] = "idle"
  BY <1>1 DEF Finish, TypeOK, Fresh
<1>2. CASE lockObjectExec(w)
  BY <1>2 DEF lockObjectExec, TypeOK
<1>3. CASE ReplayStored(w)
  <2>1. pc[w] \in Critical /\ \E answer \in Replies : Finish(w, answer)
    BY <1>3 DEF ReplayStored, Replies
  <2>2. QED
    BY <2>1, <1>1
<1>4. CASE StartRun(w)
  <2>1. PICK n \in {0, MinConversionsForScale} :
          req' = [req EXCEPT ![w].started = now, ![w].conversions = n]
    BY <1>4 DEF StartRun
  <2>2. \A v \in Workers : /\ req'[v].id = req[v].id
                            /\ req'[v].server = req[v].server
    BY <2>1, <1>0 DEF Requests
  <2>3. QED
    BY <1>4, <2>1, <2>2, <1>0 DEF StartRun, TypeOK
<1>5. CASE ReadCooldown(w)
  <2>1. PICK t : req' = [req EXCEPT ![w].lastExecutedAt = t]
    BY <1>5 DEF ReadCooldown
  <2>2. \A v \in Workers : /\ req'[v].id = req[v].id
                            /\ req'[v].server = req[v].server
    BY <2>1, <1>0 DEF Requests
  <2>3. QED
    BY <1>5, <2>1, <2>2, <1>0 DEF ReadCooldown, TypeOK
<1>6. CASE fetchLiveState(w)
  <2>1. req' = [req EXCEPT ![w].seen = Answer(w).state]
    BY <1>6 DEF fetchLiveState
  <2>2. \A v \in Workers : /\ req'[v].id = req[v].id
                            /\ req'[v].server = req[v].server
    BY <2>1, <1>0 DEF Requests
  <2>3. QED
    BY <1>6, <2>1, <2>2, <1>0 DEF fetchLiveState, TypeOK
<1>7. CASE LiveUnreadable(w)
  BY <1>7 DEF LiveUnreadable, TypeOK
<1>8. CASE captureBeforeMetrics(w)
  BY <1>8 DEF captureBeforeMetrics, TypeOK
<1>9. CASE WriteApplied(w)
  BY <1>9 DEF WriteApplied, TypeOK
<1>10. CASE WriteAmbiguous(w)
  BY <1>10 DEF WriteAmbiguous, TypeOK
<1>11. CASE WriteRefused(w)
  BY <1>11 DEF WriteRefused, TypeOK
<1>12. CASE RecordExecuted(w)
  <2>1. pc[w] \in Critical /\ \E answer \in Replies : Finish(w, answer)
    BY <1>12 DEF RecordExecuted, Replies
  <2>2. QED
    BY <2>1, <1>1
<1>13. CASE RecordFailed(w)
  <2>1. pc[w] \in Critical /\ \E answer \in Replies : Finish(w, answer)
    BY <1>13 DEF RecordFailed, Replies
  <2>2. QED
    BY <2>1, <1>1
<1>14. QED
  BY <1>2, <1>3, <1>4, <1>5, <1>6, <1>7, <1>8, <1>9, <1>10, <1>11, <1>12,
     <1>13 DEF Handler

\* A crash empties the process of its handlers and takes nothing from others.
LEMMA CrashMoves ==
  ASSUME TypeOK, NEW s \in Servers, Crash(s)
  PROVE  /\ \A v \in Workers : /\ req'[v].id = req[v].id
                               /\ reply'[v] = reply[v]
                               /\ pc'[v] \in {pc[v], "idle"}
         /\ \A v \in Workers :
              pc'[v] # "idle" => req'[v] = req[v] /\ req[v].server # s
BY DEF Crash, InFlight, TypeOK, Fresh

\* The mutexes do exclude: inside one process no two handlers work on the same
\* user's object at once, whatever fails.
THEOREM Exclusion == Spec => []ObjectExclusion
<1>1. Init => MutexInv
  BY DEF Init, MutexInv, ObjectExclusion, Critical
<1>2. TypeOK /\ MutexInv /\ [Next]_vars => MutexInv'
  <2> SUFFICES ASSUME TypeOK, MutexInv, [Next]_vars
               PROVE  MutexInv'
    OBVIOUS
  <2> USE DEF MutexInv, ObjectExclusion, LockOf, rows, clock
  <2>1. ASSUME NEW p \in Proposals, NEW verdict \in {"APPROVED", "REJECTED"},
               Decide(p, verdict)
        PROVE  MutexInv'
    BY <2>1 DEF Decide
  <2>2. ASSUME NEW w \in Workers, NEW p \in Proposals, NEW s \in Servers,
             Receive(w, p, s)
        PROVE  MutexInv'
    BY <2>2 DEF Receive, TypeOK, Critical
  <2>3. ASSUME NEW w \in Workers, Handler(w)
        PROVE  MutexInv'
    <3>1. \A v \in Workers : pc'[v] \in Critical => LockOf(v)' = LockOf(v)
      BY <2>3, HandlerMoves DEF ScopeOf, Critical
    <3>2. CASE lockObjectExec(w)
      BY <2>3, <3>1, <3>2, HandlerMoves DEF lockObjectExec, TypeOK
    <3>3. CASE /\ pc[w] \in Critical /\ pc'[w] \in Critical
               /\ held' = held
      BY <2>3, <3>1, <3>3, HandlerMoves
    <3>4. CASE pc[w] \in Critical /\ \E answer \in Replies : Finish(w, answer)
      <4>1. pc'[w] = "idle" /\ held' = held \ {LockOf(w)}
        BY <3>4 DEF Finish, TypeOK
      <4>2. QED
        BY <2>3, <3>1, <3>4, <4>1, HandlerMoves DEF Critical
    <3>5. QED
      BY <2>3, <3>2, <3>3, <3>4, HandlerMoves
  <2>4. ASSUME NEW s \in Servers, Crash(s)
        PROVE  MutexInv'
    <3>1. \A v \in Workers : pc'[v] \in Critical => /\ LockOf(v)' = LockOf(v)
                                                  /\ LockOf(v)[1] # s
                                                  /\ pc[v] \in Critical
      BY <2>4, CrashMoves DEF ScopeOf, Critical
    <3>2. held' = {l \in held : l[1] # s}
      BY <2>4 DEF Crash
    <3>3. QED
      BY <2>4, <3>1, <3>2, CrashMoves DEF Critical
  <2>5. ASSUME NEW o \in Objects, ExternalChange(o)
        PROVE  MutexInv'
    BY <2>5 DEF ExternalChange
  <2>6. ASSUME NEW s \in Servers, NEW o \in Objects,
               ReadElsewhere(s, o) \/ StoreRead(s, o) \/ CacheExpire(s, o)
        PROVE  MutexInv'
    BY <2>6 DEF ReadElsewhere, StoreRead, CacheExpire
  <2>7. CASE Tick
    BY <2>7 DEF Tick
  <2>8. CASE UNCHANGED vars
    BY <2>8 DEF vars
  <2>9. QED
    BY <2>1, <2>2, <2>3, <2>4, <2>5, <2>6, <2>7, <2>8 DEF Next
<1>3. MutexInv => ObjectExclusion
  BY DEF MutexInv
<1>4. QED
  BY <1>1, <1>2, <1>3, TypeCorrect, PTL DEF Spec
-----------------------------------------------------------------------------

\* What a handler's step may do to the columns and to the history of changes.
LEMMA HandlerRecords ==
  ASSUME TypeOK, NEW w \in Workers, Handler(w)
  PROVE  /\ \A p \in Proposals \ {req[w].id} : /\ status'[p] = status[p]
                                              /\ applied'[p] = applied[p]
         /\ \/ status' = status
            \/ pc[w] = "recordExecuted" /\ status'[req[w].id] = "EXECUTED"
            \/ pc[w] = "recordFailed" /\ status'[req[w].id] = "FAILED"
         /\ \/ applied' = applied
            \/ /\ pc[w] = "write" /\ status' = status
               /\ applied'[req[w].id] = applied[req[w].id] + 1
<1> USE DEF rows, gets, clock
<1>1. req[w].id \in Proposals
  BY DEF TypeOK, Requests
<1>2. CASE WriteApplied(w) \/ WriteAmbiguous(w)
  BY <1>1, <1>2 DEF WriteApplied, WriteAmbiguous, Apply, TypeOK
<1>3. CASE RecordExecuted(w)
  BY <1>1, <1>3 DEF RecordExecuted, TypeOK
<1>4. CASE RecordFailed(w)
  BY <1>1, <1>4 DEF RecordFailed, TypeOK
<1>5. CASE \/ lockObjectExec(w) \/ ReplayStored(w) \/ StartRun(w)
           \/ ReadCooldown(w) \/ fetchLiveState(w) \/ LiveUnreadable(w)
           \/ captureBeforeMetrics(w) \/ WriteRefused(w)
  BY <1>5 DEF lockObjectExec, ReplayStored, StartRun, ReadCooldown,
    fetchLiveState, LiveUnreadable, captureBeforeMetrics, WriteRefused
<1>6. QED
  BY <1>2, <1>3, <1>4, <1>5 DEF Handler

\* The approval gate: only a row a human approved is ever carried to Meta,
\* although the status is read before the mutex and never again.
THEOREM ApprovalGate == Spec => []OnlyApprovedApplied
<1>1. Init => GateInv
  BY DEF Init, GateInv, InFlight, OnlyApprovedApplied
<1>2. TypeOK /\ GateInv /\ [Next]_vars => GateInv'
  <2> SUFFICES ASSUME TypeOK, GateInv, [Next]_vars
               PROVE  GateInv'
    OBVIOUS
  <2> USE DEF GateInv, InFlight, OnlyApprovedApplied, rows, clock
  <2>0. \A w \in Workers : req[w].id \in Proposals
    BY DEF TypeOK, Requests
  <2>1. ASSUME NEW p \in Proposals, NEW verdict \in {"APPROVED", "REJECTED"},
               Decide(p, verdict)
        PROVE  GateInv'
    <3>1. \A q \in Proposals : status[q] # "PENDING" => status'[q] = status[q]
      BY <2>1 DEF Decide, TypeOK
    <3>2. status[p] = "PENDING"
      BY <2>1 DEF Decide
    <3>3. applied[p] = 0
      BY <3>2 DEF TypeOK
    <3>4. QED
      BY <2>0, <2>1, <3>1, <3>2, <3>3 DEF Decide, TypeOK
  <2>2. ASSUME NEW w \in Workers, NEW p \in Proposals, NEW s \in Servers,
             Receive(w, p, s)
        PROVE  GateInv'
    BY <2>2 DEF Receive, TypeOK, Fresh
  <2>3. ASSUME NEW w \in Workers, Handler(w)
        PROVE  GateInv'
    <3>1. pc[w] # "idle"
      BY <2>3, HandlerMoves DEF lockObjectExec, Critical
    <3>2. \A q \in Proposals :
            \/ status'[q] = status[q]
            \/ status'[q] \notin {"PENDING", "REJECTED"}
      BY <2>3, HandlerRecords
    <3>3. \A q \in Proposals : applied'[q] = applied[q] \/ q = req[w].id
      BY <2>3, HandlerRecords
    <3>4. \A v \in Workers : req'[v].id = req[v].id
      BY <2>3, HandlerMoves
    <3>8. \A v \in Workers : pc'[v] # "idle" => pc[v] # "idle"
      BY <2>3, <3>1, HandlerMoves
    <3>5. \A v \in Workers : pc'[v] # "idle"
             => status'[req'[v].id] \notin {"PENDING", "REJECTED"}
      <4> SUFFICES ASSUME NEW v \in Workers, pc'[v] # "idle"
                   PROVE  status'[req'[v].id] \notin {"PENDING", "REJECTED"}
        OBVIOUS
      <4>1. req'[v].id = req[v].id /\ pc[v] # "idle"
        BY <3>4, <3>8
      <4>2. status[req[v].id] \notin {"PENDING", "REJECTED"}
        BY <4>1
      <4>3. QED
        BY <2>0, <3>2, <4>1, <4>2
    <3>6. \A q \in Proposals : applied'[q] > 0
             => status'[q] \notin {"PENDING", "REJECTED"}
      BY <2>0, <3>1, <3>2, <3>3
    <3>7. QED
      BY <3>5, <3>6
  <2>4. ASSUME NEW s \in Servers, Crash(s)
        PROVE  GateInv'
    BY <2>4, CrashMoves DEF Crash
  <2>5. ASSUME NEW o \in Objects, ExternalChange(o)
        PROVE  GateInv'
    BY <2>5 DEF ExternalChange
  <2>6. ASSUME NEW s \in Servers, NEW o \in Objects,
               ReadElsewhere(s, o) \/ StoreRead(s, o) \/ CacheExpire(s, o)
        PROVE  GateInv'
    BY <2>6 DEF ReadElsewhere, StoreRead, CacheExpire
  <2>7. CASE Tick
    BY <2>7 DEF Tick
  <2>8. CASE UNCHANGED vars
    BY <2>8 DEF vars
  <2>9. QED
    BY <2>1, <2>2, <2>3, <2>4, <2>5, <2>6, <2>7, <2>8 DEF Next
<1>3. GateInv => OnlyApprovedApplied
  BY DEF GateInv
<1>4. QED
  BY <1>1, <1>2, <1>3, TypeCorrect, PTL DEF Spec

\* "executed: true" is only ever said of a change Meta took: this row's, or for
\* a replay that of a row with the same key.
THEOREM SuccessIsHonest == Spec => []HonestSuccess
<1>1. Init => SuccessInv
  BY DEF Init, SuccessInv, HonestSuccess
<1>2. TypeOK /\ SuccessInv /\ [Next]_vars => SuccessInv'
  <2> SUFFICES ASSUME TypeOK, SuccessInv, [Next]_vars
               PROVE  SuccessInv'
    OBVIOUS
  <2> USE DEF SuccessInv, HonestSuccess, rows, clock
  <2>0. /\ \A w \in Workers : req[w].id \in Proposals
        /\ \A p \in Proposals : applied[p] \in Nat
    BY DEF TypeOK, Requests
  <2>1. ASSUME NEW p \in Proposals, NEW verdict \in {"APPROVED", "REJECTED"},
               Decide(p, verdict)
        PROVE  SuccessInv'
    BY <2>0, <2>1 DEF Decide, TypeOK
  <2>2. ASSUME NEW w \in Workers, NEW p \in Proposals, NEW s \in Servers,
             Receive(w, p, s)
        PROVE  SuccessInv'
    BY <2>0, <2>2 DEF Receive, TypeOK, Fresh
  <2>3. ASSUME NEW w \in Workers, Handler(w)
        PROVE  SuccessInv'
    <3>1. \A v \in Workers : req'[v].id = req[v].id
      BY <2>3, HandlerMoves
    <3>2. \A v \in Workers \ {w} : pc'[v] = pc[v] /\ reply'[v] = reply[v]
      BY <2>3, HandlerMoves
    <3>3. \A p \in Proposals : applied[p] > 0 => applied'[p] > 0
      BY <2>0, <2>3, HandlerRecords
    <3>4. pc'[w] = "recordExecuted" => applied'[req[w].id] > 0
      <4>1. CASE WriteApplied(w)
        BY <2>0, <4>1 DEF WriteApplied, Apply, TypeOK
      <4>2. CASE ~WriteApplied(w)
        BY <2>3, <4>2 DEF Handler, lockObjectExec, ReplayStored, StartRun,
          ReadCooldown, fetchLiveState, LiveUnreadable, captureBeforeMetrics,
          WriteAmbiguous, WriteRefused, RecordExecuted, RecordFailed, Finish,
          TypeOK
      <4>3. QED
        BY <4>1, <4>2
    <3>5. \A p \in Proposals : status'[p] = "EXECUTED" => applied'[p] > 0
      BY <2>0, <2>3, <3>3, HandlerRecords
    <3>6. reply'[w] # "none" => pc'[w] = "idle"
      BY <2>3, HandlerMoves DEF lockObjectExec, Finish, Critical, TypeOK
    <3>7. reply'[w] \in {"executed", "replayed"}
            => \E q \in Proposals :
                 /\ q = req[w].id \/ SameKey(q, req[w].id)
                 /\ applied'[q] > 0
      <4> SUFFICES ASSUME reply'[w] \in {"executed", "replayed"}
                   PROVE  \E q \in Proposals :
                            /\ q = req[w].id \/ SameKey(q, req[w].id)
                            /\ applied'[q] > 0
        OBVIOUS
      <4>1. CASE ReplayStored(w)
        <5>1. ExecutedTwin(req[w].id)
          BY <4>1 DEF ReplayStored, Finish, TypeOK
        <5>2. QED
          BY <3>3, <5>1 DEF ExecutedTwin, SameKey
      <4>2. CASE RecordExecuted(w)
        BY <2>0, <3>3, <4>2 DEF RecordExecuted
      <4>3. CASE RecordFailed(w)
        BY <4>3 DEF RecordFailed, Finish, TypeOK
      <4>4. CASE reply' = reply
        BY <2>3, <4>4, HandlerMoves DEF lockObjectExec, Finish, Critical
      <4>5. QED
        BY <2>3, <4>1, <4>2, <4>3, <4>4 DEF Handler, lockObjectExec, StartRun,
          ReadCooldown, fetchLiveState, LiveUnreadable, captureBeforeMetrics,
          WriteApplied, WriteAmbiguous, WriteRefused
    <3>8. \A v \in Workers : reply'[v] \in {"executed", "replayed"}
            => \E q \in Proposals :
                 /\ q = req'[v].id \/ SameKey(q, req'[v].id)
                 /\ applied'[q] > 0
      BY <3>1, <3>2, <3>3, <3>7
    <3>9. \A v \in Workers : pc'[v] = "recordExecuted" => applied'[req'[v].id] > 0
      BY <2>0, <3>1, <3>2, <3>3, <3>4
    <3>10. \A v \in Workers : reply'[v] # "none" => pc'[v] = "idle"
      BY <3>2, <3>6
    <3>11. QED
      BY <3>5, <3>8, <3>9, <3>10 DEF SameKey, IdempotencyKeyFor
  <2>4. ASSUME NEW s \in Servers, Crash(s)
        PROVE  SuccessInv'
    <3>1. status' = status /\ applied' = applied
      BY <2>4 DEF Crash
    <3>2. QED
      BY <2>4, <3>1, CrashMoves DEF SameKey, IdempotencyKeyFor
  <2>5. ASSUME NEW o \in Objects, ExternalChange(o)
        PROVE  SuccessInv'
    BY <2>5 DEF ExternalChange
  <2>6. ASSUME NEW s \in Servers, NEW o \in Objects,
               ReadElsewhere(s, o) \/ StoreRead(s, o) \/ CacheExpire(s, o)
        PROVE  SuccessInv'
    BY <2>6 DEF ReadElsewhere, StoreRead, CacheExpire
  <2>7. CASE Tick
    BY <2>7 DEF Tick
  <2>8. CASE UNCHANGED vars
    BY <2>8 DEF vars
  <2>9. QED
    BY <2>1, <2>2, <2>3, <2>4, <2>5, <2>6, <2>7, <2>8 DEF Next
<1>3. SuccessInv => HonestSuccess
  BY DEF SuccessInv
<1>4. QED
  BY <1>1, <1>2, <1>3, TypeCorrect, PTL DEF Spec
-----------------------------------------------------------------------------

\* Everything about types a step may need.
LEMMA RequestTyped ==
    ASSUME TypeOK, NEW w \in Workers
    PROVE  /\ req[w] \in Requests /\ req[w].id \in Proposals
           /\ req[w].arrived \in Nat /\ req[w].started \in Nat
           /\ req[w].lastExecutedAt \in Nat \cup {-1} /\ now \in Nat
           /\ ScopeOf(req[w].id) \in Scopes
  <1>1. req[w] \in Requests /\ now \in Nat
    BY DEF TypeOK, Time
  <1>2. /\ req[w].id \in Proposals /\ req[w].arrived \in Nat /\ req[w].started \in Nat
        /\ req[w].lastExecutedAt \in Nat \cup {-1}
    BY <1>1 DEF Requests, Time
  <1>3. ScopeOf(req[w].id) \in Scopes
    BY <1>2 DEF RowType, ScopeOf, Scopes
  <1> QED
    BY <1>1, <1>2, <1>3

\* Rows with one key have one scope.
LEMMA TwinsShareScope ==
    ASSUME NEW p \in Proposals, NEW q \in Proposals, SameKey(p, q)
    PROVE  ScopeOf(p) = ScopeOf(q)
  BY DEF SameKey, IdempotencyKeyFor, ScopeOf

\* A row outside the scope of p, or one that is not executed, is neither a twin
\* of p nor does its time count for p.
LEMMA OtherRow ==
    ASSUME NEW p \in Proposals, NEW q \in Proposals,
           \A r \in Proposals \ {q} : status'[r] = status[r] /\ executedAt'[r] = executedAt[r],
           ScopeOf(q) # ScopeOf(p) \/ status'[q] # "EXECUTED"
    PROVE  /\ ExecutedTwin(p)' => ExecutedTwin(p)
           /\ ExecutedTimes(ScopeOf(p))' \subseteq ExecutedTimes(ScopeOf(p))
  <1>1. ScopeOf(p)' = ScopeOf(p) /\ \A r \in Proposals : ScopeOf(r)' = ScopeOf(r)
    BY DEF ScopeOf
  <1>2. ExecutedTwin(p)' => ExecutedTwin(p)
    BY TwinsShareScope DEF ExecutedTwin, SameKey, IdempotencyKeyFor
  <1>3. ExecutedTimes(ScopeOf(p))' \subseteq ExecutedTimes(ScopeOf(p))
    BY <1>1 DEF ExecutedTimes
  <1> QED
    BY <1>2, <1>3

\* The columns change in the two recordings only, and then of one row only.
LEMMA HandlerTimes ==
    ASSUME TypeOK, NEW w \in Workers, Handler(w)
    PROVE  /\ now' = now /\ faults' = faults
           /\ \/ UNCHANGED <<status, executedAt>>
              \/ /\ pc[w] \in {"recordExecuted", "recordFailed"}
                 /\ status'[req[w].id] \in {"EXECUTED", "FAILED"}
                 /\ executedAt'[req[w].id] = now
                 /\ \A r \in Proposals \ {req[w].id} :
                      status'[r] = status[r] /\ executedAt'[r] = executedAt[r]
                 /\ pc'[w] = "idle"
  <1> USE DEF rows, gets, clock
  <1>1. req[w].id \in Proposals
    BY RequestTyped
  <1>2. CASE RecordExecuted(w) \/ RecordFailed(w)
    BY <1>1, <1>2 DEF RecordExecuted, RecordFailed, Finish, TypeOK
  <1>3. CASE \/ lockObjectExec(w) \/ ReplayStored(w) \/ StartRun(w)
             \/ ReadCooldown(w) \/ fetchLiveState(w) \/ LiveUnreadable(w)
             \/ captureBeforeMetrics(w) \/ WriteRefused(w)
             \/ WriteApplied(w) \/ WriteAmbiguous(w)
    BY <1>3 DEF lockObjectExec, ReplayStored, StartRun, ReadCooldown, fetchLiveState,
       LiveUnreadable, captureBeforeMetrics, WriteRefused, WriteApplied, WriteAmbiguous
  <1> QED
    BY <1>2, <1>3 DEF Handler

\* A behaviour keeps to its kinds of fault.
LEMMA FaultsStay == TypeOK /\ [Next]_vars => faults' = faults
  BY HandlerTimes
  DEF Next, Decide, Receive, Crash, ExternalChange, ReadElsewhere, StoreRead, CacheExpire, Tick,
      vars, clock
-----------------------------------------------------------------------------
(* The replay key, in one process: whatever crashes, fails or overlaps. *)

\* The rows of a key share a mutex, so nobody records an execution of the key
\* while a request is past looking it up.
LEMMA HeedHandler ==
    ASSUME TypeOK, ObjectExclusion, HeedInv, ~Fault("processes"), NEW v \in Workers, Handler(v)
    PROVE  HeedInv'
  <1> USE DEF rows, gets, clock
  <1>0. \A w \in Workers : InFlight(w) =>
          /\ req[w].server = Home
          /\ pc[w] \in Critical \ {"replay"} => ~ExecutedTwin(req[w].id)
    BY DEF HeedInv
  <1>1. /\ \A w \in Workers \ {v} : pc'[w] = pc[w] /\ req'[w] = req[w]
        /\ \A w \in Workers : req'[w].id = req[w].id /\ req[w].id \in Proposals
        /\ pc'[v] # "idle" => req'[v].server = req[v].server
        /\ pc[v] # "idle"
    BY HandlerMoves, RequestTyped DEF lockObjectExec, Critical
  <1>2. \A w \in Workers : InFlight(w)' => req'[w].server = Home
    BY <1>0, <1>1 DEF InFlight
  <1>3. ASSUME NEW w \in Workers, InFlight(w)', pc'[w] \in Critical \ {"replay"}
        PROVE  ~ExecutedTwin(req[w].id)'
    <2> PICK p \in Proposals, q \in Proposals : p = req[w].id /\ q = req[v].id
      BY <1>1
    <2>1. ~ExecutedTwin(p)
      <3>1. CASE w # v
        BY <1>0, <1>1, <1>3, <3>1 DEF InFlight
      <3>2. CASE w = v /\ pc[v] \in Critical \ {"replay"}
        BY <1>0, <1>1, <3>2 DEF InFlight
      <3>3. CASE w = v /\ pc[v] \notin Critical \ {"replay"}
        <4>1. lockObjectExec(v) \/ ReplayStored(v) \/ StartRun(v)
          BY <3>3 DEF Handler, ReadCooldown, fetchLiveState, LiveUnreadable,
             captureBeforeMetrics, WriteApplied, WriteAmbiguous, WriteRefused,
             RecordExecuted, RecordFailed, Critical
        <4>2. ~lockObjectExec(v)
          BY <1>3, <3>3 DEF lockObjectExec, TypeOK
        <4>3. ~ReplayStored(v)
          BY <1>3, <3>3 DEF ReplayStored, Finish, TypeOK, Critical
        <4> QED
          BY <3>3, <4>1, <4>2, <4>3 DEF StartRun
      <3> QED
        BY <3>1, <3>2, <3>3
    <2>2. CASE UNCHANGED <<status, executedAt>>
      BY <1>1, <2>1, <2>2 DEF ExecutedTwin, SameKey, IdempotencyKeyFor
    <2>3. CASE /\ pc[v] \in {"recordExecuted", "recordFailed"} /\ pc'[v] = "idle"
               /\ \A r \in Proposals \ {q} :
                    status'[r] = status[r] /\ executedAt'[r] = executedAt[r]
      <3>1. w # v
        BY <1>3, <2>3 DEF InFlight
      <3>2. /\ pc[w] \in Critical /\ pc[v] \in Critical
            /\ req[w].server = Home /\ req[v].server = Home
        BY <1>0, <1>1, <1>3, <2>3, <3>1 DEF InFlight, Critical
      <3>3. ScopeOf(q) # ScopeOf(p)
        BY <3>1, <3>2 DEF ObjectExclusion, LockOf
      <3>4. ExecutedTwin(p)' => ExecutedTwin(p)
        BY <2>3, <3>3, OtherRow
      <3> QED
        BY <1>1, <2>1, <3>4
    <2> QED
      BY <2>2, <2>3, HandlerTimes
  <1> QED
    BY <1>2, <1>3 DEF HeedInv

LEMMA HeedStep ==
    TypeOK /\ ObjectExclusion /\ HeedInv /\ [Next]_vars => HeedInv'
  <1> SUFFICES ASSUME TypeOK, ObjectExclusion, HeedInv, [Next]_vars, ~Fault("processes")
               PROVE  HeedInv'
    BY FaultsStay DEF HeedInv, Fault
  <1> USE DEF rows, gets, clock
  <1>0. \A w \in Workers : InFlight(w) =>
          /\ req[w].server = Home
          /\ pc[w] \in Critical \ {"replay"} => ~ExecutedTwin(req[w].id)
    BY DEF HeedInv
  <1>1. ASSUME NEW w \in Workers, Handler(w)
        PROVE  HeedInv'
    BY <1>1, HeedHandler
  <1>2. ASSUME NEW w \in Workers, NEW p \in Proposals, NEW s \in Servers, Receive(w, p, s)
        PROVE  HeedInv'
    <2>1. /\ s = Home /\ status' = status
          /\ pc' = [pc EXCEPT ![w] = "lock"] /\ req' = [req EXCEPT ![w] = Fresh(p, s, now)]
      BY <1>2 DEF Receive
    <2>2. /\ pc'[w] = "lock" /\ req'[w].server = Home
          /\ \A v \in Workers \ {w} : pc'[v] = pc[v] /\ req'[v] = req[v]
      BY <2>1 DEF TypeOK, Fresh
    <2>3. \A q \in Proposals : ExecutedTwin(q)' = ExecutedTwin(q)
      BY <2>1 DEF ExecutedTwin, SameKey, IdempotencyKeyFor
    <2> QED
      BY <1>0, <2>2, <2>3, RequestTyped DEF HeedInv, InFlight, Critical
  <1>3. ASSUME NEW p \in Proposals, NEW verdict \in {"APPROVED", "REJECTED"}, Decide(p, verdict)
        PROVE  HeedInv'
    <2>1. /\ status'[p] # "EXECUTED" /\ UNCHANGED <<executedAt, pc, req>>
          /\ \A q \in Proposals \ {p} : status'[q] = status[q]
      BY <1>3 DEF Decide, TypeOK
    <2>2. \A q \in Proposals : ExecutedTwin(q)' => ExecutedTwin(q)
      BY <2>1, OtherRow
    <2> QED
      BY <1>0, <2>1, <2>2, RequestTyped DEF HeedInv, InFlight
  <1>4. ASSUME NEW s \in Servers, Crash(s)
        PROVE  HeedInv'
    <2>1. /\ UNCHANGED status
          /\ \A w \in Workers : InFlight(w)' => pc'[w] = pc[w] /\ req'[w] = req[w]
      BY <1>4, CrashMoves DEF Crash, InFlight
    <2>2. \A q \in Proposals : ExecutedTwin(q)' = ExecutedTwin(q)
      BY <2>1 DEF ExecutedTwin, SameKey, IdempotencyKeyFor
    <2> QED
      BY <1>0, <2>1, <2>2, RequestTyped DEF HeedInv, InFlight
  <1>5. CASE UNCHANGED <<status, pc, req>>
    <2>1. \A q \in Proposals : ExecutedTwin(q)' = ExecutedTwin(q)
      BY <1>5 DEF ExecutedTwin, SameKey, IdempotencyKeyFor
    <2> QED
      BY <1>0, <1>5, <2>1, RequestTyped DEF HeedInv, InFlight
  <1> QED
    BY <1>1, <1>2, <1>3, <1>4, <1>5
    DEF Next, ExternalChange, ReadElsewhere, StoreRead, CacheExpire, Tick, vars

\* In one process no row reaches Meta once an execution of its key is on record,
\* whatever crashes, fails, is lost or overlaps: the mutex makes the lookup of
\* the key hold until the write.
THEOREM KeyHeeded == Spec => ReplayHeeded
  <1> USE DEF rows, gets, clock
  <1>1. Init => HeedInv
    BY DEF Init, HeedInv, InFlight
  <1>2. TypeOK /\ HeedInv /\ [Next]_vars =>
          (~Fault("processes") =>
             \A p \in Proposals : applied'[p] # applied[p] => ~ExecutedTwin(p))
    <2> SUFFICES ASSUME TypeOK, HeedInv, [Next]_vars, ~Fault("processes"),
                        NEW p \in Proposals, applied'[p] # applied[p]
                 PROVE  ~ExecutedTwin(p)
      OBVIOUS
    <2>1. PICK w \in Workers : Handler(w)
      BY DEF Next, Decide, Receive, Crash, ExternalChange, ReadElsewhere, StoreRead,
         CacheExpire, Tick, vars
    <2>2. pc[w] = "write" /\ p = req[w].id
      BY <2>1, HandlerRecords
    <2> QED
      BY <2>2 DEF HeedInv, InFlight, Critical
  <1>3. Spec => [][~Fault("processes") =>
             \A p \in Proposals : applied'[p] # applied[p] => ~ExecutedTwin(p)]_vars
    BY <1>1, <1>2, HeedStep, TypeCorrect, Exclusion, PTL DEF Spec
  <1> QED
    BY <1>3 DEF ReplayHeeded
===============================================================================
