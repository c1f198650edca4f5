---------------------------- MODULE AgentRunsProofs ----------------------------
(***************************************************************************)
(* Proofs about AgentRuns and Goals: types, and that nobody's data get     *)
(* into a run or a row of somebody else, for any users, runs and goals.    *)
(***************************************************************************)
EXTENDS AgentRuns, SequenceTheorems, TLAPS

\* The values locals start from.
LEMMA FreshTyped ==
    ASSUME NEW n \in Nat, NEW s \in Nat, NEW w \in Nat
    PROVE  Fresh(n, s, w) \in Local /\ NoLoop \in Loops
  BY DEF Fresh, Local, NoLoop, Loops

\* A handler that returns.
LEMMA ReturnTyped ==
    ASSUME TypeOK, NEW r \in Runs, Return(r)
    PROVE  /\ pc' \in [Runs -> Positions]
           /\ run' \in [Runs -> Local]
           /\ loop' \in [Runs -> Loops]
  <1>1. Fresh(run[r].request, 0, 0) \in Local /\ NoLoop \in Loops
    BY FreshTyped DEF TypeOK, Local
  <1> QED
    BY <1>1 DEF Return, Goto, TypeOK, Positions

\* Positions say a little about the locals.
PlacesInv ==
    \A r \in Runs : /\ pc[r] \in {"tool", "store"} => loop[r].calls > 0
                    /\ pc[r] = "link" => run[r].goal # None

TypedInv == TypeOK /\ PlacesInv

\* A table with one row replaced.
LEMMA ReplaceRow ==
    ASSUME NEW S, NEW q \in Seq(S), NEW i, NEW e \in S
    PROVE  /\ [q EXCEPT ![i] = e] \in Seq(S)
           /\ DOMAIN [q EXCEPT ![i] = e] = DOMAIN q
  <1>1. CASE i \in 1..Len(q)
    BY <1>1, ExceptSeq
  <1>2. CASE i \notin DOMAIN q
    <2>1. [q EXCEPT ![i] = e] = q
      BY <1>2
    <2> QED
      BY <2>1
  <1> QED
    BY <1>1, <1>2, LenProperties

LEMMA SessionTyped ==
    ASSUME TypeOK, NEW s \in DOMAIN sessions, sessions[s] # None
    PROVE  sessions[s] \in SessionRows
  BY DEF TypeOK

LEMMA TablesHaveLengths == TypeOK => Len(sessions) \in Nat /\ Len(goals) \in Nat
  BY DEF TypeOK, GoalsTypeOK

LEMMA UsersOfRuns == \A r \in Runs : UserOf[r] \in Users
  BY AgentRunsAssumption DEF AgentRunsAssumption

LEMMA InitTyped == Init => TypedInv
  <1> SUFFICES ASSUME Init PROVE TypedInv
    OBVIOUS
  <1>1. goals \in Seq(GoalRows \cup {None}) /\ sessions \in Seq(SessionRows \cup {None})
    <2>1. InitialGoals \in Seq(GoalRows) /\ InitialSessions \in Seq(SessionRows)
      BY AgentRunsAssumption DEF AgentRunsAssumption
    <2> QED
      BY <2>1 DEF Init, GoalsInit
  <1>2. Fresh(0, 0, 0) \in Local /\ NoLoop \in Loops
    BY FreshTyped
  <1>3. run \in [Runs -> Local] /\ loop \in [Runs -> Loops]
    BY <1>2 DEF Init
  <1>4. moves \in 0..world.moves
    BY AgentRunsAssumption DEF Init, AgentRunsAssumption
  <1> QED
    BY <1>1, <1>3, <1>4 DEF Init, GoalsInit, TypeOK, GoalsTypeOK, Positions, TypedInv, PlacesInv

-----------------------------------------------------------------------------
\* Each step of a run keeps the types.

LEMMA StepTyped ==
    ASSUME TypedInv, NEW r \in Runs, StartRun(r) \/ Step(r)
    PROVE  TypeOK'
  <1> USE UsersOfRuns, TablesHaveLengths DEF TypedInv, TypeOK, GoalsTypeOK, tables, hooks, Goto, Positions
  <1>1. CASE StartRun(r)
    <2> PICK session \in 0..Len(sessions), wanted \in 0..Len(goals) :
              run' = [run EXCEPT ![r] = Fresh(run[r].request + 1, session, wanted)]
      BY <1>1 DEF StartRun
    <2>1. run[r].request + 1 \in Nat /\ session \in Nat /\ wanted \in Nat
      BY DEF Local
    <2>2. Fresh(run[r].request + 1, session, wanted) \in Local
      BY <2>1, FreshTyped
    <2>3. run' \in [Runs -> Local]
      BY <2>2
    <2> QED
      BY <1>1, <2>3 DEF StartRun
  <1>2. CASE UseSession(r)
    BY <1>2 DEF UseSession, ToGoal
  <1>3. CASE NoSession(r)
    BY <1>3, ReturnTyped DEF NoSession
  <1>4. CASE InsertSession(r)
    <2>1. [user |-> UserOf[r], goal |-> 0] \in SessionRows
      BY DEF SessionRows
    <2>2. sessions' \in Seq(SessionRows \cup {None})
      BY <1>4, <2>1 DEF InsertSession
    <2>3. Len(sessions) + 1 \in Nat
      OBVIOUS
    <2>4. run' = [run EXCEPT ![r].session = Len(sessions) + 1]
      BY <1>4 DEF InsertSession
    <2>5. run' \in [Runs -> Local]
      BY <2>3, <2>4 DEF Local
    <2> QED
      BY <1>4, <2>2, <2>5 DEF InsertSession, ToGoal
  <1>5. CASE InsertSessionFails(r)
    BY <1>5, ReturnTyped DEF InsertSessionFails
  <1>6. CASE ReadLink(r)
    <2>1. PICK wanted \in Nat : run' = [run EXCEPT ![r].wanted = wanted]
      BY <1>6, SessionTyped DEF ReadLink, SessionRows
    <2>2. run' \in [Runs -> Local]
      BY <2>1 DEF Local
    <2> QED
      BY <1>6, <2>2 DEF ReadLink
  <1>7. CASE ResolveGoal(r)
    <2>1. [id |-> run[r].wanted, user |-> goals[run[r].wanted].user] \in GoalRefs
      BY <1>7 DEF ResolveGoal, Drives, Owned, GoalRefs, Local
    <2>2. run' \in [Runs -> Local]
      BY <1>7, <2>1 DEF ResolveGoal, Local
    <2> QED
      BY <1>7, <2>2 DEF ResolveGoal
  <1>8. CASE GoalUnfit(r)
    BY <1>8, ReturnTyped DEF GoalUnfit
  <1>9. CASE LinkSession(r)
    <2> DEFINE s == run[r].session
               row == [user |-> sessions[s].user, goal |-> run[r].goal.id]
    <2>1. sessions' \in Seq(SessionRows \cup {None})
      <3>1. CASE sessions' = sessions
        BY <3>1
      <3>2. CASE s \notin DOMAIN sessions
        <4>1. [sessions EXCEPT ![s] = row] = sessions
          BY <3>2
        <4> QED
          BY <1>9, <4>1 DEF LinkSession
      <3>3. CASE s \in DOMAIN sessions /\ sessions[s] # None /\ sessions' # sessions
        <4>1. run[r].goal \in GoalRefs
          BY <1>9 DEF LinkSession, PlacesInv, Local
        <4>2. row \in SessionRows
          BY <3>3, <4>1, SessionTyped DEF SessionRows, GoalRefs
        <4>3. sessions' = [sessions EXCEPT ![s] = row]
          BY <1>9, <3>3 DEF LinkSession
        <4> HIDE DEF row, s
        <4> QED
          BY <4>2, <4>3, ReplaceRow
      <3> QED
        BY <1>9, <3>1, <3>2, <3>3 DEF LinkSession
    <2> QED
      BY <1>9, <2>1 DEF LinkSession
  <1>10. CASE InsertPrompt(r)
    <2>1. messages' \subseteq Messages
      BY <1>10 DEF InsertPrompt, MessageOf, Messages, Local
    <2> QED
      BY <1>10, <2>1, ReturnTyped DEF InsertPrompt
  <1>11. CASE InsertPromptFails(r)
    BY <1>11, ReturnTyped DEF InsertPromptFails
  <1>12. CASE SetSnapshot(r)
    BY <1>12 DEF SetSnapshot, Local
  <1>13. CASE SetPersister(r)
    BY <1>13 DEF SetPersister, Local
  <1>14. CASE Chat(r)
    <2>1. loop' \in [Runs -> Loops]
      BY <1>14, AgentRunsAssumption DEF Chat, Loops, AgentRunsAssumption
    <2> QED
      BY <1>14, <2>1 DEF Chat
  <1>15. CASE ChatFails(r)
    BY <1>15, ReturnTyped DEF ChatFails
  <1>16. CASE CallTool(r)
    <2>1. loop' \in [Runs -> Loops]
      BY <1>16 DEF CallTool, Loops, PlacesInv
    <2> QED
      BY <1>16, <2>1 DEF CallTool, NextCall
  <1>17. CASE BeginOptimize(r)
    <2>1. loop' \in [Runs -> Loops]
      BY <1>17 DEF BeginOptimize, Loops
    <2> QED
      BY <1>17, <2>1 DEF BeginOptimize
  <1>18. CASE OptimizeCampaign(r)
    <2>1. loop' \in [Runs -> Loops]
      BY <1>18 DEF OptimizeCampaign, Loops, PlacesInv
    <2>2. rows' \subseteq ProposalRows
      <3>1. CASE persister # None /\ rows' = rows \cup {Stored(r)}
        <4>1. Stored(r) \in ProposalRows
          BY <3>1 DEF Stored, ProposalRows, Loops, Local
        <4> QED
          BY <3>1, <4>1
      <3> QED
        BY <1>18, <3>1 DEF OptimizeCampaign
    <2> QED
      BY <1>18, <2>1, <2>2 DEF OptimizeCampaign, NextCall
  <1>19. CASE FinishRun(r)
    <2>1. messages' \subseteq Messages
      BY <1>19 DEF FinishRun, MessageOf, Messages, Local
    <2> QED
      BY <1>19, <2>1, ReturnTyped DEF FinishRun
  <1> QED
    BY <1>1, <1>2, <1>3, <1>4, <1>5, <1>6, <1>7, <1>8, <1>9, <1>10, <1>11, <1>12, <1>13,
       <1>14, <1>15, <1>16, <1>17, <1>18, <1>19 DEF Step, OwnStep, ProviderReturns

LEMMA StepPlaced ==
    ASSUME TypedInv, NEW r \in Runs, StartRun(r) \/ Step(r)
    PROVE  PlacesInv'
  <1> USE DEF TypedInv, TypeOK, PlacesInv, Goto, NoLoop, Loops
  <1>1. CASE Return(r)
    BY <1>1 DEF Return
  <1>2. CASE StartRun(r)
    BY <1>2 DEF StartRun
  <1>3. CASE UseSession(r) \/ InsertSession(r) \/ ReadLink(r) \/ LinkSession(r)
    BY <1>3 DEF UseSession, InsertSession, ReadLink, LinkSession, ToGoal, Local
  <1>4. CASE ResolveGoal(r)
    <2>1. [id |-> run[r].wanted, user |-> goals[run[r].wanted].user] # None
      BY <1>4, GoalsAssumption DEF ResolveGoal, Drives, Owned, Exists, GoalRefs, GoalsAssumption, GoalsTypeOK, Local, GoalRows
    <2> QED
      BY <1>4, <2>1 DEF ResolveGoal, Local
  <1>5. CASE InsertPrompt(r) \/ SetSnapshot(r) \/ SetPersister(r) \/ GoalUnfit(r)
    BY <1>1, <1>5 DEF InsertPrompt, SetSnapshot, SetPersister, GoalUnfit
  <1>6. CASE Chat(r)
    BY <1>6, AgentRunsAssumption DEF Chat, AgentRunsAssumption
  <1>7. CASE CallTool(r) \/ BeginOptimize(r) \/ OptimizeCampaign(r)
    BY <1>7 DEF CallTool, BeginOptimize, OptimizeCampaign, NextCall
  <1>8. CASE NoSession(r) \/ InsertSessionFails(r) \/ InsertPromptFails(r) \/ ChatFails(r) \/ FinishRun(r)
    BY <1>1, <1>8 DEF NoSession, InsertSessionFails, InsertPromptFails, ChatFails, FinishRun
  <1> QED
    BY <1>2, <1>3, <1>4, <1>5, <1>6, <1>7, <1>8 DEF Step, OwnStep, ProviderReturns

-----------------------------------------------------------------------------
\* People and crashes keep the types.

LEMMA GoalsTyped == TypeOK /\ GoalNext => GoalsTypeOK'
  <1> SUFFICES ASSUME TypeOK, GoalNext PROVE GoalsTypeOK'
    OBVIOUS
  <1> USE DEF TypeOK, GoalsTypeOK
  <1> DEFINE S == GoalRows \cup {None}
  <1>1. ASSUME NEW u \in Users, CreateGoal(u)
        PROVE  GoalsTypeOK'
    <2> PICK request \in GoalRequests :
              /\ ValidNumbers(request)
              /\ goals' = Append(goals, [user |-> u, status |-> "ACTIVE", columns |-> request])
      BY <1>1 DEF CreateGoal
    <2>1. request \in [Columns -> Nat \cup {None}]
      BY GoalsAssumption DEF GoalRequests, ValidNumbers, GoalsAssumption
    <2>2. [user |-> u, status |-> "ACTIVE", columns |-> request] \in GoalRows
      BY <2>1 DEF GoalRows, GoalStatuses
    <2> QED
      BY <1>1, <2>2 DEF CreateGoal
  <1>2. ASSUME NEW e \in Editors, NEW u \in Users, NEW g \in DOMAIN goals, BeginUpdate(e, u, g)
        PROVE  GoalsTypeOK'
    BY <1>2 DEF BeginUpdate, Owned, Exists
  <1>3. ASSUME NEW e \in Editors, UpdateGoal(e)
        PROVE  GoalsTypeOK'
    <2> DEFINE id == edit[e].id
    <2> PICK request \in GoalRequests :
           LET columns == [k \in Columns |-> IF request[k] # None THEN request[k]
                                             ELSE edit[e].row.columns[k]]
           IN  goals' = IF ValidNumbers(columns) /\ Exists(id)
                        THEN [goals EXCEPT ![id] = [user |-> goals[id].user,
                                                    status |-> goals[id].status,
                                                    columns |-> columns]]
                        ELSE goals
      BY <1>3 DEF UpdateGoal
    <2> DEFINE columns == [k \in Columns |-> IF request[k] # None THEN request[k]
                                             ELSE edit[e].row.columns[k]]
               row == [user |-> goals[id].user, status |-> goals[id].status,
                       columns |-> columns]
    <2>1. edit' \in [Editors -> [id : Nat, row : GoalRows] \cup {None}]
      BY <1>3 DEF UpdateGoal
    <2>2. CASE ValidNumbers(columns) /\ Exists(id)
      <3>1. goals[id] \in GoalRows /\ edit[e].row \in GoalRows
        <4>1. goals[id] \in GoalRows
          BY <2>2 DEF Exists
        <4>2. edit[e] \in [id : Nat, row : GoalRows]
          BY <1>3 DEF UpdateGoal
        <4> QED
          BY <4>1, <4>2
      <3>2. columns \in [Columns -> Nat \cup {None}]
        <4> SUFFICES ASSUME NEW k \in Columns PROVE columns[k] \in Nat \cup {None}
          OBVIOUS
        <4>1. columns[k] \in Int \cup {None}
          BY <3>1, GoalsAssumption DEF GoalRows, GoalRequests, GoalsAssumption
        <4> QED
          BY <2>2, <4>1 DEF ValidNumbers
      <3>3. row \in GoalRows
        BY <3>1, <3>2 DEF GoalRows
      <3>4. goals' = [goals EXCEPT ![id] = row]
        BY <2>2
      <3> HIDE DEF row, columns, id
      <3>5. [goals EXCEPT ![id] = row] \in Seq(S)
        BY <3>3, ReplaceRow
      <3> QED
        BY <2>1, <3>4, <3>5
    <2>3. CASE ~(ValidNumbers(columns) /\ Exists(id))
      BY <2>1, <2>3
    <2> QED
      BY <2>2, <2>3
  <1>4. ASSUME NEW u \in Users, NEW g \in DOMAIN goals, DeleteGoal(u, g)
        PROVE  GoalsTypeOK'
    <2>1. goals' = [goals EXCEPT ![g] = None] /\ None \in S
      BY <1>4 DEF DeleteGoal
    <2> QED
      BY <1>4, <2>1, ReplaceRow DEF DeleteGoal
  <1>5. ASSUME NEW u \in Users, NEW g \in DOMAIN goals, NEW status \in GoalStatuses,
               SetGoalStatus(u, g, status)
        PROVE  GoalsTypeOK'
    <2> DEFINE row == [user |-> goals[g].user, status |-> status, columns |-> goals[g].columns]
    <2>1. row \in GoalRows
      BY <1>5 DEF SetGoalStatus, Owned, Exists, GoalRows
    <2>2. goals' = [goals EXCEPT ![g] = row]
      BY <1>5 DEF SetGoalStatus
    <2> HIDE DEF row
    <2> QED
      BY <1>5, <2>1, <2>2, ReplaceRow DEF SetGoalStatus
  <1> QED
    BY <1>1, <1>2, <1>3, <1>4, <1>5 DEF GoalNext

LEMMA SessionsTyped == TypeOK /\ SessionNext => sessions' \in Seq(SessionRows \cup {None})
  <1> SUFFICES ASSUME TypeOK, SessionNext PROVE sessions' \in Seq(SessionRows \cup {None})
    OBVIOUS
  <1> USE DEF TypeOK
  <1>1. ASSUME NEW u \in Users, CreateSession(u)
        PROVE  sessions' \in Seq(SessionRows \cup {None})
    BY <1>1 DEF CreateSession, SessionRows
  <1>2. ASSUME NEW u \in Users, NEW s \in DOMAIN sessions, RelinkSession(u, s)
        PROVE  sessions' \in Seq(SessionRows \cup {None})
    <2> PICK g \in 0..Len(goals) : sessions' = [sessions EXCEPT ![s] = [user |-> u, goal |-> g]]
      BY <1>2 DEF RelinkSession
    <2>1. [user |-> u, goal |-> g] \in SessionRows
      BY TablesHaveLengths DEF SessionRows
    <2> QED
      BY <2>1, ReplaceRow
  <1>3. ASSUME NEW u \in Users, NEW s \in DOMAIN sessions, DeleteSession(u, s)
        PROVE  sessions' \in Seq(SessionRows \cup {None})
    BY <1>3, ReplaceRow DEF DeleteSession
  <1> QED
    BY <1>1, <1>2, <1>3 DEF SessionNext

LEMMA PeopleTyped == TypedInv /\ People => TypedInv'
  <1> SUFFICES ASSUME TypedInv, People PROVE TypedInv'
    OBVIOUS
  <1> USE DEF TypedInv, TypeOK
  <1>1. moves' \in 0..world'.moves
    BY AgentRunsAssumption DEF People, AgentRunsAssumption
  <1>2. GoalsTypeOK' /\ sessions' \in Seq(SessionRows \cup {None})
    <2>1. CASE GoalNext /\ UNCHANGED sessions
      BY <2>1, GoalsTyped
    <2>2. CASE SessionNext /\ UNCHANGED goalVars
      BY <2>2, SessionsTyped DEF goalVars, GoalsTypeOK
    <2> QED
      BY <2>1, <2>2 DEF People
  <1> QED
    BY <1>1, <1>2 DEF People, hooks, PlacesInv

LEMMA CrashTyped == TypedInv /\ Crash => TypedInv'
  <1> SUFFICES ASSUME TypedInv, Crash PROVE TypedInv'
    OBVIOUS
  <1> USE DEF TypedInv, TypeOK
  <1>1. \A r \in Runs : Fresh(run[r].request, 0, 0) \in Local /\ NoLoop \in Loops
    BY FreshTyped DEF Local
  <1>2. run' \in [Runs -> Local] /\ loop' \in [Runs -> Loops]
    BY <1>1 DEF Crash
  <1> QED
    BY <1>2 DEF Crash, GoalsTypeOK, Positions, PlacesInv

LEMMA NextTyped == TypedInv /\ [Next]_vars => TypedInv'
  <1> SUFFICES ASSUME TypedInv, [Next]_vars PROVE TypedInv'
    OBVIOUS
  <1>1. ASSUME NEW r \in Runs, StartRun(r) \/ Step(r)
        PROVE  TypedInv'
    BY <1>1, StepTyped, StepPlaced DEF TypedInv
  <1>2. CASE UNCHANGED vars
    BY <1>2 DEF TypedInv, TypeOK, GoalsTypeOK, PlacesInv, vars, tables, hooks
  <1> QED
    BY <1>1, <1>2, PeopleTyped, CrashTyped DEF Next

\* Types are kept by every step of runs, people and crashes; stored numbers
\* are not negative and ids are those of rows that once were inserted.
THEOREM AgentsTypeCorrect == Spec => []TypeOK
  <1>1. TypedInv => TypeOK
    BY DEF TypedInv
  <1> QED
    BY <1>1, InitTyped, NextTyped, PTL DEF Spec

-----------------------------------------------------------------------------
\* Editing a goal leaves its status alone.

LEMMA EditsKeepStatus ==
    ASSUME TypedInv, [Next]_vars, NEW g \in DOMAIN goals,
           edit' # edit, goals[g] # None, goals'[g] # None
    PROVE  goals'[g].status = goals[g].status
  <1> USE DEF TypedInv, TypeOK, GoalsTypeOK
  <1>1. CASE goals' = goals
    BY <1>1
  <1>2. ASSUME NEW e \in Editors, UpdateGoal(e)
        PROVE  goals'[g].status = goals[g].status
    <2> DEFINE id == edit[e].id
    <2> PICK request \in GoalRequests :
           LET columns == [k \in Columns |-> IF request[k] # None THEN request[k]
                                             ELSE edit[e].row.columns[k]]
           IN  goals' = IF ValidNumbers(columns) /\ Exists(id)
                        THEN [goals EXCEPT ![id] = [user |-> goals[id].user,
                                                    status |-> goals[id].status,
                                                    columns |-> columns]]
                        ELSE goals
      BY <1>2 DEF UpdateGoal
    <2> DEFINE columns == [k \in Columns |-> IF request[k] # None THEN request[k]
                                             ELSE edit[e].row.columns[k]]
               row == [user |-> goals[id].user, status |-> goals[id].status,
                       columns |-> columns]
    <2>1. CASE goals' = [goals EXCEPT ![id] = row]
      <3>1. row.status = goals[id].status
        OBVIOUS
      <3> HIDE DEF row, id
      <3> QED
        BY <2>1, <3>1
    <2> QED
      BY <1>1, <2>1
  <1>3. ASSUME GoalNext
        PROVE  goals' = goals \/ \E e \in Editors : UpdateGoal(e)
    BY <1>3 DEF GoalNext, CreateGoal, BeginUpdate, DeleteGoal, SetGoalStatus
  <1>4. ASSUME NEW r \in Runs, StartRun(r) \/ Step(r)
        PROVE  goals' = goals
    BY <1>4 DEF StartRun, Step, OwnStep, ProviderReturns, UseSession, NoSession, InsertSession, InsertSessionFails,
       ReadLink, ResolveGoal, GoalUnfit, LinkSession, InsertPrompt, InsertPromptFails,
       SetSnapshot, SetPersister, Chat, ChatFails, CallTool, BeginOptimize,
       OptimizeCampaign, FinishRun, tables
  <1>5. CASE People
    BY <1>1, <1>2, <1>3, <1>5 DEF People, goalVars
  <1> QED
    BY <1>1, <1>4, <1>5 DEF Next, Crash, vars, tables

\* UpdateGoal writes what it read in an earlier round-trip, but never a status:
\* a goal paused in between stays paused.
THEOREM EditsNeverReopen == Spec => StatusKept
  <1>1. TypedInv /\ [Next]_vars =>
          [\A g \in DOMAIN goals :
             edit' # edit /\ goals[g] # None /\ goals'[g] # None =>
               goals'[g].status = goals[g].status]_goalVars
    BY EditsKeepStatus
  <1> QED
    BY <1>1, InitTyped, NextTyped, PTL DEF Spec, StatusKept

-----------------------------------------------------------------------------
\* Nobody's data get into a run or a row of somebody else.

ForeignTyped == TypedInv /\ ForeignInv

\* A session stays where it is, its owner's or nobody's.
SessionsStay ==
    \A s \in DOMAIN sessions :
      /\ s \in DOMAIN sessions'
      /\ sessions'[s] # None => sessions[s] # None /\ sessions'[s].user = sessions[s].user

LEMMA RunsKeepSessions ==
    ASSUME TypedInv, NEW r \in Runs, StartRun(r) \/ Step(r)
    PROVE  SessionsStay
  <1> USE DEF SessionsStay, TypedInv, TypeOK, tables
  <1>1. CASE sessions' = sessions
    BY <1>1
  <1>2. CASE InsertSession(r)
    BY <1>2 DEF InsertSession
  <1>3. CASE LinkSession(r)
    <2> DEFINE k == run[r].session
               row == [user |-> sessions[k].user, goal |-> run[r].goal.id]
    <2>1. CASE sessions[k] # None /\ sessions' = [sessions EXCEPT ![k] = row]
      <3>1. row.user = sessions[k].user
        OBVIOUS
      <3> HIDE DEF row, k
      <3> QED
        BY <2>1, <3>1
    <2> QED
      BY <1>1, <1>3, <2>1 DEF LinkSession
  <1> QED
    BY <1>1, <1>2, <1>3 DEF StartRun, Step, OwnStep, ProviderReturns, UseSession, NoSession, InsertSessionFails,
       ReadLink, ResolveGoal, GoalUnfit, InsertPrompt, InsertPromptFails, SetSnapshot,
       SetPersister, Chat, ChatFails, CallTool, BeginOptimize, OptimizeCampaign, FinishRun

LEMMA PeopleKeepSessions == TypedInv /\ People => SessionsStay
  <1> SUFFICES ASSUME TypedInv, People PROVE SessionsStay
    OBVIOUS
  <1> USE DEF SessionsStay, TypedInv, TypeOK
  <1>1. CASE sessions' = sessions
    BY <1>1
  <1>2. ASSUME NEW u \in Users, CreateSession(u)
        PROVE  SessionsStay
    BY <1>2 DEF CreateSession
  <1>3. ASSUME NEW u \in Users, NEW s \in DOMAIN sessions, RelinkSession(u, s)
        PROVE  SessionsStay
    <2> PICK g \in 0..Len(goals) : sessions' = [sessions EXCEPT ![s] = [user |-> u, goal |-> g]]
      BY <1>3 DEF RelinkSession
    <2>1. [user |-> u, goal |-> g].user = sessions[s].user
      BY <1>3 DEF RelinkSession, OwnedSession
    <2> QED
      BY <1>3, <2>1 DEF RelinkSession, OwnedSession
  <1>4. ASSUME NEW u \in Users, NEW s \in DOMAIN sessions, DeleteSession(u, s)
        PROVE  SessionsStay
    BY <1>4 DEF DeleteSession
  <1> QED
    BY <1>1, <1>2, <1>3, <1>4 DEF People, SessionNext

LEMMA InitForeign == Init => ForeignInv
  BY DEF Init, ForeignInv, NothingForeign, GoalsOwn, MessagesOwn, RowsOwn, StoredForAsker,
     JudgedByGoal, SessionsOwn, PersisterOwn, AloneInv, Looping, Fresh, NoLoop

\* The goal of a run, and the session it works in, are its user's.
LEMMA StepGoals ==
    ASSUME ForeignTyped, NEW r \in Runs, StartRun(r) \/ Step(r)
    PROVE  GoalsOwn'
  <1> USE DEF ForeignTyped, ForeignInv, NothingForeign, GoalsOwn, TypedInv, TypeOK, Local
  <1>1. CASE Return(r)
    BY <1>1 DEF Return, Fresh
  <1>2. CASE UNCHANGED run
    BY <1>2
  <1>3. CASE StartRun(r)
    BY <1>3 DEF StartRun, Fresh
  <1>4. CASE InsertSession(r) \/ ReadLink(r)
    BY <1>4 DEF InsertSession, ReadLink
  <1>5. CASE ResolveGoal(r)
    <2>1. goals[run[r].wanted].user = UserOf[r]
      BY <1>5 DEF ResolveGoal, Drives, Owned
    <2> QED
      BY <1>5, <2>1 DEF ResolveGoal
  <1> QED
    BY <1>1, <1>2, <1>3, <1>4, <1>5 DEF Step, OwnStep, ProviderReturns, UseSession, NoSession, InsertSessionFails,
       GoalUnfit, LinkSession, InsertPrompt, InsertPromptFails, SetSnapshot, SetPersister,
       Chat, ChatFails, CallTool, BeginOptimize, OptimizeCampaign, FinishRun

LEMMA StepSessions ==
    ASSUME ForeignTyped, NEW r \in Runs, StartRun(r) \/ Step(r)
    PROVE  SessionsOwn'
  <1> DEFINE Past(x) == pc[x] \notin {"idle", "session"}
             Own(x) == /\ run[x].session \in DOMAIN sessions
                       /\ sessions[run[x].session] # None =>
                            sessions[run[x].session].user = UserOf[x]
  <1> SUFFICES ASSUME NEW x \in Runs, Past(x)' PROVE Own(x)'
    BY DEF SessionsOwn
  <1> USE DEF ForeignTyped, TypedInv, TypeOK, Local, Goto
  <1>1. SessionsStay
    BY RunsKeepSessions
  <1>2. CASE Past(x) /\ run'[x].session = run[x].session
    BY <1>1, <1>2 DEF SessionsStay, SessionsOwn, ForeignInv
  <1>3. CASE Return(r)
    BY <1>2, <1>3 DEF Return
  <1>4. CASE StartRun(r)
    BY <1>2, <1>4 DEF StartRun
  <1>5. CASE UseSession(r)
    <2>1. CASE x = r
      BY <1>5, <2>1 DEF UseSession, OwnedSession, tables
    <2> QED
      BY <1>2, <1>5, <2>1 DEF UseSession
  <1>6. CASE InsertSession(r)
    <2>1. CASE x = r
      <3>1. run'[r].session = Len(sessions) + 1
        BY <1>6 DEF InsertSession
      <3>2. /\ Len(sessions) + 1 \in DOMAIN sessions'
            /\ sessions'[Len(sessions) + 1].user = UserOf[r]
        BY <1>6 DEF InsertSession
      <3> QED
        BY <2>1, <3>1, <3>2
    <2> QED
      BY <1>2, <1>6, <2>1 DEF InsertSession
  <1>7. CASE Past(r) /\ UNCHANGED run /\ \A y \in Runs \ {r} : pc'[y] = pc[y]
    BY <1>2, <1>7
  <1>8. CASE ReadLink(r)
    <2>1. PICK wanted : run' = [run EXCEPT ![r].wanted = wanted]
      BY <1>8 DEF ReadLink
    <2>2. run'[x].session = run[x].session
      BY <2>1
    <2>3. Past(x)
      BY <1>8 DEF ReadLink
    <2> QED
      BY <1>2, <2>2, <2>3
  <1>9. CASE ResolveGoal(r)
    <2>1. run'[x].session = run[x].session
      BY <1>9 DEF ResolveGoal
    <2>2. Past(x)
      BY <1>9 DEF ResolveGoal
    <2> QED
      BY <1>2, <2>1, <2>2
  <1> QED
    BY <1>3, <1>4, <1>5, <1>6, <1>7, <1>8, <1>9 DEF Step, OwnStep, ProviderReturns, NoSession, InsertSessionFails,
       GoalUnfit, LinkSession, InsertPrompt, InsertPromptFails, SetSnapshot, SetPersister,
       Chat, ChatFails, CallTool, BeginOptimize, OptimizeCampaign, FinishRun

LEMMA StepMessages ==
    ASSUME ForeignTyped, NEW r \in Runs, StartRun(r) \/ Step(r)
    PROVE  MessagesOwn'
  <1> USE DEF ForeignTyped, ForeignInv, NothingForeign, MessagesOwn, tables
  <1>1. SessionsStay
    BY RunsKeepSessions DEF ForeignTyped
  <1>2. CASE messages' = messages
    BY <1>1, <1>2 DEF SessionsStay
  <1>3. CASE InsertPrompt(r) \/ FinishRun(r)
    <2>1. pc[r] \notin {"idle", "session"} /\ sessions' = sessions
          /\ \A m \in messages' : m \in messages
                                  \/ (m.session = run[r].session /\ m.by = r)
      BY <1>3 DEF InsertPrompt, FinishRun, MessageOf
    <2>2. run[r].session \in DOMAIN sessions
          /\ (sessions[run[r].session] # None => sessions[run[r].session].user = UserOf[r])
      BY <2>1 DEF SessionsOwn
    <2> QED
      BY <2>1, <2>2
  <1> QED
    BY <1>2, <1>3 DEF StartRun, Step, OwnStep, ProviderReturns, UseSession, NoSession, InsertSession,
       InsertSessionFails, ReadLink, ResolveGoal, GoalUnfit, LinkSession, InsertPromptFails,
       SetSnapshot, SetPersister, Chat, ChatFails, CallTool, BeginOptimize, OptimizeCampaign

\* The closure belongs to one user, whose goal it carries to the rows it stores.
LEMMA StepRows ==
    ASSUME ForeignTyped, NEW r \in Runs, StartRun(r) \/ Step(r)
    PROVE  RowsOwn' /\ PersisterOwn'
  <1> USE DEF ForeignTyped, ForeignInv, NothingForeign, RowsOwn, PersisterOwn, tables, hooks
  <1>1. CASE rows' = rows /\ persister' = persister
    BY <1>1
  <1>2. CASE SetPersister(r)
    BY <1>2 DEF SetPersister, GoalsOwn
  <1>3. CASE OptimizeCampaign(r)
    BY <1>3 DEF OptimizeCampaign, Stored
  <1> QED
    BY <1>1, <1>2, <1>3 DEF StartRun, Step, OwnStep, ProviderReturns, UseSession, NoSession, InsertSession,
       InsertSessionFails, ReadLink, ResolveGoal, GoalUnfit, LinkSession, InsertPrompt,
       InsertPromptFails, SetSnapshot, Chat, ChatFails, CallTool, BeginOptimize, FinishRun

\* While one run is in flight at a time, it finds the package variables as it
\* has set them.
OneInFlight == \A r, x \in Runs : pc[r] # "idle" /\ pc[x] # "idle" => r = x

AsSet(r) ==
    /\ pc[r] \in Looping \cup {"persister"} => snapshot = run[r].goal
    /\ pc[r] \in Looping => persister = [user |-> UserOf[r], goal |-> run[r].goal]
    /\ pc[r] \notin Looping => loop[r].judged = {}
    /\ pc[r] = "store" => loop[r].judging = run[r].goal
    /\ loop[r].judged \subseteq {run[r].goal}

\* The steps of one run disturb no other.
LEMMA StepIsLocal ==
    ASSUME TypedInv, NEW r \in Runs, StartRun(r) \/ Step(r)
    PROVE  /\ world' = world
           /\ \A x \in Runs \ {r} : pc'[x] = pc[x] /\ run'[x] = run[x] /\ loop'[x] = loop[x]
           /\ pc[r] = "idle" => StartRun(r)
  <1> USE DEF TypedInv, TypeOK, Goto, Return
  <1>1. CASE StartRun(r)
    BY <1>1 DEF StartRun
  <1>2. CASE UseSession(r) \/ NoSession(r) \/ InsertSession(r) \/ InsertSessionFails(r)
    BY <1>2 DEF UseSession, NoSession, InsertSession, InsertSessionFails
  <1>3. CASE ReadLink(r) \/ ResolveGoal(r) \/ GoalUnfit(r) \/ LinkSession(r)
    BY <1>3 DEF ReadLink, ResolveGoal, GoalUnfit, LinkSession
  <1>4. CASE InsertPrompt(r) \/ InsertPromptFails(r) \/ SetSnapshot(r) \/ SetPersister(r)
    BY <1>4 DEF InsertPrompt, InsertPromptFails, SetSnapshot, SetPersister
  <1>5. CASE Chat(r) \/ ChatFails(r) \/ CallTool(r) \/ BeginOptimize(r)
    BY <1>5 DEF Chat, ChatFails, CallTool, BeginOptimize
  <1>6. CASE OptimizeCampaign(r) \/ FinishRun(r)
    BY <1>6 DEF OptimizeCampaign, FinishRun
  <1> QED
    BY <1>1, <1>2, <1>3, <1>4, <1>5, <1>6 DEF Step, OwnStep, ProviderReturns

LEMMA StepAsSet ==
    ASSUME TypedInv, NEW r \in Runs, AsSet(r), StartRun(r) \/ Step(r)
    PROVE  AsSet(r)'
  <1> USE DEF TypedInv, TypeOK, AsSet, Looping, Goto, Positions, hooks
  <1>1. CASE Return(r) /\ UNCHANGED hooks
    BY <1>1 DEF Return, NoLoop
  <1>2. CASE pc'[r] \notin Looping \cup {"persister"} /\ pc[r] \notin Looping
             /\ UNCHANGED <<hooks, loop>>
    BY <1>2
  <1>3. CASE SetSnapshot(r)
    BY <1>3 DEF SetSnapshot
  <1>4. CASE SetPersister(r)
    BY <1>4 DEF SetPersister
  <1>5. CASE Chat(r)
    <2>1. PICK calls \in 0..MaxCalls :
             loop' = [loop EXCEPT ![r] = [iteration |-> loop[r].iteration + 1, calls |-> calls,
                                          judging |-> None, judged |-> loop[r].judged]]
      BY <1>5 DEF Chat
    <2>2. loop'[r].judged = loop[r].judged
      BY <2>1
    <2> QED
      BY <1>5, <2>2 DEF Chat
  <1>6. CASE CallTool(r)
    <2>1. loop'[r].judged \subseteq loop[r].judged \cup {snapshot}
      BY <1>6 DEF CallTool
    <2> QED
      BY <1>6, <2>1 DEF CallTool, NextCall
  <1>7. CASE BeginOptimize(r)
    <2>1. loop'[r].judged = loop[r].judged \cup {snapshot} /\ loop'[r].judging = snapshot
      BY <1>7 DEF BeginOptimize
    <2> QED
      BY <1>7, <2>1 DEF BeginOptimize
  <1>8. CASE OptimizeCampaign(r)
    <2>1. loop'[r].judged = loop[r].judged
      BY <1>8 DEF OptimizeCampaign
    <2> QED
      BY <1>8, <2>1 DEF OptimizeCampaign, NextCall
  <1>9. CASE StartRun(r) \/ UseSession(r) \/ InsertSession(r) \/ ReadLink(r)
             \/ ResolveGoal(r) \/ LinkSession(r)
    BY <1>2, <1>9 DEF StartRun, UseSession, InsertSession, ReadLink, ResolveGoal,
       LinkSession, ToGoal
  <1>10. CASE GoalUnfit(r) \/ InsertPrompt(r)
    BY <1>1, <1>2, <1>10 DEF GoalUnfit, InsertPrompt
  <1>11. CASE NoSession(r) \/ InsertSessionFails(r) \/ InsertPromptFails(r) \/ ChatFails(r)
              \/ FinishRun(r)
    BY <1>1, <1>11 DEF NoSession, InsertSessionFails, InsertPromptFails, ChatFails, FinishRun
  <1> QED
    BY <1>3, <1>4, <1>5, <1>6, <1>7, <1>8, <1>9, <1>10, <1>11 DEF Step, OwnStep, ProviderReturns

LEMMA StepAlone ==
    ASSUME ForeignTyped, NEW r \in Runs, StartRun(r) \/ Step(r)
    PROVE  /\ AloneInv'
           /\ ~Fault("overlap")' => (StoredForAsker /\ JudgedByGoal)'
  <1> SUFFICES ASSUME ~Fault("overlap")'
               PROVE  AloneInv' /\ StoredForAsker' /\ JudgedByGoal'
    BY DEF AloneInv
  <1>1. /\ world' = world
        /\ \A x \in Runs \ {r} : pc'[x] = pc[x] /\ run'[x] = run[x] /\ loop'[x] = loop[x]
        /\ pc[r] = "idle" => StartRun(r)
    BY StepIsLocal DEF ForeignTyped
  <1>2. ~Fault("overlap")
    BY <1>1 DEF Fault
  <1>3. OneInFlight /\ StoredForAsker /\ JudgedByGoal /\ \A x \in Runs : AsSet(x)
    BY <1>2 DEF ForeignTyped, ForeignInv, NothingForeign, AloneInv, OneInFlight, AsSet, JudgedByGoal
  <1>4. \A x \in Runs \ {r} : pc[x] = "idle"
    <2>1. CASE pc[r] = "idle"
      BY <1>1, <1>2, <2>1 DEF StartRun
    <2> QED
      BY <1>3, <2>1 DEF OneInFlight
  <1>5. OneInFlight'
    BY <1>1, <1>4 DEF OneInFlight
  <1>6. \A x \in Runs : AsSet(x)'
    <2>1. AsSet(r)'
      BY <1>3, StepAsSet DEF ForeignTyped
    <2>2. ASSUME NEW x \in Runs \ {r} PROVE AsSet(x)'
      BY <1>1, <1>3, <1>4 DEF AsSet, Looping
    <2> QED
      BY <2>1, <2>2
  <1>7. \A x \in rows' : x.user = x.asker /\ x.goal = x.toward /\ x.judge = x.toward
    <2>1. CASE rows' = rows
      BY <1>3, <2>1 DEF StoredForAsker, JudgedByGoal
    <2>2. CASE OptimizeCampaign(r)
      <3>1. /\ Stored(r).user = Stored(r).asker
            /\ Stored(r).goal = Stored(r).toward
            /\ Stored(r).judge = Stored(r).toward
        BY <1>3, <2>2 DEF Stored, OptimizeCampaign, AsSet, Looping
      <3> QED
        BY <1>3, <2>2, <3>1 DEF OptimizeCampaign, StoredForAsker, JudgedByGoal
    <2> QED
      BY <2>1, <2>2 DEF StartRun, Step, OwnStep, ProviderReturns, UseSession, NoSession, InsertSession,
         InsertSessionFails, ReadLink, ResolveGoal, GoalUnfit, LinkSession, InsertPrompt,
         InsertPromptFails, SetSnapshot, SetPersister, Chat, ChatFails, CallTool,
         BeginOptimize, FinishRun, tables
  <1> QED
    BY <1>5, <1>6, <1>7 DEF AloneInv, OneInFlight, AsSet, StoredForAsker, JudgedByGoal

LEMMA PeopleForeign == ForeignTyped /\ People => ForeignInv'
  <1> SUFFICES ASSUME ForeignTyped, People PROVE ForeignInv'
    OBVIOUS
  <1>1. SessionsStay
    BY PeopleKeepSessions DEF ForeignTyped
  <1>2. UNCHANGED <<world, messages, rows, snapshot, persister, pc, run, loop>>
    BY DEF People, hooks
  <1>3. MessagesOwn' /\ SessionsOwn'
    BY <1>1, <1>2 DEF ForeignTyped, ForeignInv, NothingForeign, MessagesOwn, SessionsOwn,
       SessionsStay
  <1>4. GoalsOwn' /\ RowsOwn' /\ PersisterOwn'
    BY <1>2 DEF ForeignTyped, ForeignInv, NothingForeign, GoalsOwn, RowsOwn, PersisterOwn
  <1>5. AloneInv' /\ (~Fault("overlap") => StoredForAsker /\ JudgedByGoal)'
    BY <1>2 DEF ForeignTyped, ForeignInv, NothingForeign, AloneInv, StoredForAsker,
       JudgedByGoal, Fault
  <1> QED
    BY <1>3, <1>4, <1>5 DEF ForeignInv, NothingForeign

LEMMA CrashForeign == ForeignTyped /\ Crash => ForeignInv'
  <1> SUFFICES ASSUME ForeignTyped, Crash PROVE ForeignInv'
    OBVIOUS
  <1> USE DEF Crash, ForeignTyped, ForeignInv, NothingForeign, Fresh, NoLoop
  <1>1. MessagesOwn' /\ SessionsOwn' /\ RowsOwn'
    BY DEF MessagesOwn, SessionsOwn, RowsOwn
  <1>2. GoalsOwn' /\ PersisterOwn'
    BY DEF GoalsOwn, PersisterOwn
  <1>3. AloneInv' /\ (~Fault("overlap") => StoredForAsker /\ JudgedByGoal)'
    BY DEF AloneInv, StoredForAsker, JudgedByGoal, Fault, Looping
  <1> QED
    BY <1>1, <1>2, <1>3

LEMMA NextForeign == ForeignTyped /\ [Next]_vars => ForeignTyped'
  <1> SUFFICES ASSUME ForeignTyped, [Next]_vars PROVE ForeignTyped'
    OBVIOUS
  <1>1. TypedInv'
    BY NextTyped DEF ForeignTyped
  <1>2. ASSUME NEW r \in Runs, StartRun(r) \/ Step(r)
        PROVE  ForeignInv'
    BY <1>2, StepGoals, StepSessions, StepMessages, StepRows, StepAlone
       DEF ForeignInv, NothingForeign
  <1>3. CASE UNCHANGED vars
    <2> USE DEF ForeignTyped, ForeignInv, NothingForeign
    <2>1. UNCHANGED <<world, sessions, messages, rows, persister, snapshot, pc, run, loop>>
      BY <1>3 DEF vars, tables, hooks
    <2>2. GoalsOwn' /\ RowsOwn' /\ PersisterOwn'
      BY <2>1 DEF GoalsOwn, RowsOwn, PersisterOwn
    <2>3. MessagesOwn' /\ SessionsOwn'
      BY <2>1 DEF MessagesOwn, SessionsOwn
    <2>4. AloneInv' /\ (~Fault("overlap") => StoredForAsker /\ JudgedByGoal)'
      BY <2>1 DEF AloneInv, StoredForAsker, JudgedByGoal, Fault
    <2> QED
      BY <1>1, <2>2, <2>3, <2>4
  <1> QED
    BY <1>1, <1>2, <1>3, PeopleForeign, CrashForeign DEF Next, ForeignTyped

\* However runs interleave with each other, with people and with crashes, a run
\* works toward its user's goal and in its user's session, and a stored proposal
\* names a goal of the user it is stored for; while one run is in flight at a
\* time its proposals are its user's and judged by its goal.
THEOREM NothingForeignGetsIn == Spec => []NothingForeign
  <1>1. Init => ForeignTyped
    BY InitTyped, InitForeign DEF ForeignTyped
  <1>2. ForeignTyped => NothingForeign
    BY DEF ForeignTyped, ForeignInv
  <1> QED
    BY <1>1, <1>2, NextForeign, PTL DEF Spec
===============================================================================
