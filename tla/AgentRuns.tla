------------------------------- MODULE AgentRuns -------------------------------
(***************************************************************************)
(* Agent runs, internals/core/agent.go and internals/agent/runtime.go: a   *)
(* request resolves its chat session and its goal, hands them to the tools *)
(* in package variables of internals/tools, lets the model call tools for  *)
(* a number of iterations and stores the answer in the session.  One       *)
(* action is one round-trip to the database, to the model or to Meta, or   *)
(* one access to a package variable, so the runs of several users          *)
(* interleave with each other and with what people do to goals and         *)
(* sessions.  What optimize_campaign stores is Proposals' matter: here a   *)
(* stored row is whose it is and what judged it.                           *)
(***************************************************************************)
EXTENDS Goals

CONSTANTS
    Runs,           \* agent requests that may be in flight
    UserOf,         \* of each: its authenticated user
    MaxIterations,  \* Runtime.MaxIterations
    MaxCalls,       \* bound on the tool calls of one answer of the model
    MaxSessions,    \* bound on the sessions
    InitialGoals, InitialSessions,
    Worlds          \* the surroundings a behaviour may have

\* A chat session and the goal it is linked to, which is 0 for none.
SessionRows == [user : Users, goal : Nat]

\* "overlap" of runs, "crash" of the process, "provider" and "db" fail.
AgentFaults == {"overlap", "crash", "provider", "db"}

ASSUME AgentRunsAssumption ==
    /\ UserOf \in [Runs -> Users]
    /\ MaxIterations \in Nat \ {0}
    /\ MaxCalls \in Nat \ {0}
    /\ MaxSessions \in Nat
    /\ None \notin SessionRows
    /\ InitialGoals \in Seq(GoalRows)
    /\ InitialSessions \in Seq(SessionRows)
    /\ Worlds \subseteq [runs : SUBSET Runs, requests : Nat, moves : Nat,
                   faults : SUBSET AgentFaults]

VARIABLES
    world,     \* who sends requests, how many each of them, how often people act
               \* besides, and what may fail
    moves,     \* how much people have done
    sessions,  \* the table agent_sessions by id; None where one was deleted
    messages,  \* the table agent_messages
    rows,      \* proposals stored by runs
    snapshot,  \* tools.ToolsGoalSnapshot
    persister, \* what the closure tools.OptimizationPersister has captured
    pc, run,   \* position and local variables of each request
    loop       \* those of its Runtime.Run

tables == <<goals, edit, sessions, messages, rows>>
hooks == <<snapshot, persister>>
vars == <<world, moves, tables, hooks, pc, run, loop>>

Fault(kind) == kind \in world.faults

Positions == {"idle", "session", "link", "linked", "goal", "message", "snapshot",
              "persister", "chat", "tool", "store", "finish"}

\* session, goal  what the run works in and toward
\* wanted         id of the goal to resolve, 0 for none
\* explicit       the request names it
Local == [request : Nat, session : Nat, wanted : Nat, explicit : BOOLEAN,
          goal : GoalRefs \cup {None}]

Fresh(request, session, wanted) ==
    [request |-> request, session |-> session, wanted |-> wanted,
     explicit |-> wanted # 0, goal |-> None]

\* iteration      how often the model was asked
\* calls          tool calls left to execute
\* judging        what optimize_campaign took from ToolsGoalSnapshot
\* judged         the goals that judged the run's analyses
Loops == [iteration : Nat, calls : Nat, judging : GoalRefs \cup {None},
          judged : SUBSET (GoalRefs \cup {None})]

NoLoop == [iteration |-> 0, calls |-> 0, judging |-> None, judged |-> {}]

Messages == [session : Nat, role : {"user", "assistant"}, by : Runs, request : Nat]

\* user and goal are columns; asker and toward say which run asked for the row,
\* judge which goal chose it.
ProposalRows == [user : Users, goal : GoalRefs \cup {None}, judge : GoalRefs \cup {None},
                 asker : Users, toward : GoalRefs \cup {None}]

Init ==
    /\ world \in Worlds
    /\ moves = 0
    /\ GoalsInit(InitialGoals)
    /\ sessions = InitialSessions
    /\ messages = {}
    /\ rows = {}
    /\ snapshot = None
    /\ persister = None
    /\ pc = [r \in Runs |-> "idle"]
    /\ run = [r \in Runs |-> Fresh(0, 0, 0)]
    /\ loop = [r \in Runs |-> NoLoop]

Goto(r, position) == pc' = [pc EXCEPT ![r] = position]

\* The handler returns; the locals are forgotten.
Return(r) ==
    /\ Goto(r, "idle")
    /\ run' = [run EXCEPT ![r] = Fresh(run[r].request, 0, 0)]
    /\ loop' = [loop EXCEPT ![r] = NoLoop]
-----------------------------------------------------------------------------
(* prepareAgentRun.  Requests without a prompt, a provider or a connected  *)
(* account are refused before anything happens and are left out.           *)

StartRun(r) ==
    /\ r \in world.runs
    /\ pc[r] = "idle" /\ run[r].request < world.requests
    /\ Fault("overlap") \/ \A x \in Runs : pc[x] = "idle"
    /\ \E session \in 0..Len(sessions), wanted \in 0..Len(goals) :
         run' = [run EXCEPT ![r] = Fresh(run[r].request + 1, session, wanted)]
    /\ Goto(r, "session")
    /\ UNCHANGED <<world, moves, tables, hooks, loop>>

OwnedSession(u, s) == s \in DOMAIN sessions /\ sessions[s] # None /\ sessions[s].user = u

ToGoal(r) == IF run[r].explicit THEN "goal" ELSE "linked"

UseSession(r) ==
    /\ pc[r] = "session" /\ run[r].session # 0
    /\ OwnedSession(UserOf[r], run[r].session)
    /\ Goto(r, ToGoal(r))
    /\ UNCHANGED <<world, moves, tables, hooks, run, loop>>

NoSession(r) ==
    /\ pc[r] = "session" /\ run[r].session # 0
    /\ Fault("db") \/ ~OwnedSession(UserOf[r], run[r].session)
    /\ Return(r)
    /\ UNCHANGED <<world, moves, tables, hooks>>

InsertSession(r) ==
    /\ pc[r] = "session" /\ run[r].session = 0
    /\ Len(sessions) < MaxSessions
    /\ sessions' = Append(sessions, [user |-> UserOf[r], goal |-> 0])
    /\ run' = [run EXCEPT ![r].session = Len(sessions) + 1]
    /\ Goto(r, ToGoal(r))
    /\ UNCHANGED <<world, moves, goals, edit, messages, rows, hooks, loop>>

InsertSessionFails(r) ==
    /\ pc[r] = "session" /\ run[r].session = 0
    /\ Fault("db") \/ Len(sessions) = MaxSessions
    /\ Return(r)
    /\ UNCHANGED <<world, moves, tables, hooks>>

\* Without a goal_id the goal the session is linked to, if the SELECT finds it.
ReadLink(r) ==
    /\ pc[r] = "linked"
    /\ LET s == run[r].session
           link == IF s \in DOMAIN sessions /\ sessions[s] # None THEN sessions[s].goal ELSE 0
       IN  \E wanted \in {link} \cup (IF Fault("db") THEN {0} ELSE {}) :
             /\ run' = [run EXCEPT ![r].wanted = wanted]
             /\ Goto(r, IF wanted = 0 THEN "message" ELSE "goal")
    /\ UNCHANGED <<world, moves, tables, hooks, loop>>

Drives(u, g) == Owned(u, g) /\ goals[g].status = "ACTIVE"

\* The goal as this run knows it from now on, whatever becomes of the row.
ResolveGoal(r) ==
    /\ pc[r] = "goal"
    /\ Drives(UserOf[r], run[r].wanted)
    /\ run' = [run EXCEPT ![r].goal = [id |-> run[r].wanted,
                                       user |-> goals[run[r].wanted].user]]
    /\ Goto(r, IF run[r].explicit THEN "link" ELSE "message")
    /\ UNCHANGED <<world, moves, tables, hooks, loop>>

\* A named goal is refused, with the session inserted before; a linked one is
\* done without.
GoalUnfit(r) ==
    /\ pc[r] = "goal"
    /\ Fault("db") \/ ~Drives(UserOf[r], run[r].wanted)
    /\ IF run[r].explicit THEN Return(r)
       ELSE Goto(r, "message") /\ UNCHANGED <<run, loop>>
    /\ UNCHANGED <<world, moves, tables, hooks>>

\* The error of the UPDATE is dropped, and so is its finding no session.
LinkSession(r) ==
    /\ pc[r] = "link"
    /\ LET s == run[r].session IN
       \/ /\ sessions[s] # None
          /\ sessions' = [sessions EXCEPT ![s] = [user |-> sessions[s].user,
                                                  goal |-> run[r].goal.id]]
       \/ /\ sessions[s] = None \/ Fault("db")
          /\ UNCHANGED sessions
    /\ Goto(r, "message")
    /\ UNCHANGED <<world, moves, goals, edit, messages, rows, hooks, run, loop>>

MessageOf(r, role) ==
    [session |-> run[r].session, role |-> role, by |-> r, request |-> run[r].request]

\* Whether the provider is one the program knows is looked at after the INSERT.
InsertPrompt(r) ==
    /\ pc[r] = "message"
    /\ messages' = messages \cup {MessageOf(r, "user")}
    /\ \/ Goto(r, "snapshot") /\ UNCHANGED <<run, loop>>
       \/ Fault("provider") /\ Return(r)
    /\ UNCHANGED <<world, moves, goals, edit, sessions, rows, hooks>>

InsertPromptFails(r) ==
    /\ pc[r] = "message"
    /\ Fault("db")
    /\ Return(r)
    /\ UNCHANGED <<world, moves, tables, hooks>>

\* Mutant: a run without a goal leaves the variable alone.
SetSnapshotIfAny(r) ==
    /\ pc[r] = "snapshot"
    /\ snapshot' = IF run[r].goal # None THEN run[r].goal ELSE snapshot
    /\ Goto(r, "persister")
    /\ UNCHANGED <<world, moves, tables, persister, run, loop>>

SetSnapshot(r) ==
    /\ pc[r] = "snapshot"
    /\ snapshot' = run[r].goal
    /\ Goto(r, "persister")
    /\ UNCHANGED <<world, moves, tables, persister, run, loop>>

SetPersister(r) ==
    /\ pc[r] = "persister"
    /\ persister' = [user |-> UserOf[r], goal |-> run[r].goal]
    /\ Goto(r, "chat")
    /\ UNCHANGED <<world, moves, tables, snapshot, run, loop>>
-----------------------------------------------------------------------------
(* Runtime.Run: the model is asked, its calls are executed one by one.  A  *)
(* tool that fails gives an observation; update_plan changes nothing that  *)
(* outlives the run.                                                       *)

\* Mutant: the iterations are not counted.
ChatUncounted(r) ==
    /\ pc[r] = "chat"
    /\ \E calls \in 0..MaxCalls :
         /\ loop' = [loop EXCEPT ![r] = [iteration |-> @.iteration, calls |-> calls,
                                         judging |-> None, judged |-> @.judged]]
         /\ Goto(r, IF calls = 0 THEN "finish" ELSE "tool")
    /\ UNCHANGED <<world, moves, tables, hooks, run>>

Chat(r) ==
    /\ pc[r] = "chat"
    /\ \E calls \in 0..MaxCalls :
         /\ loop' = [loop EXCEPT ![r] = [iteration |-> @.iteration + 1, calls |-> calls,
                                         judging |-> None, judged |-> @.judged]]
         /\ Goto(r, IF calls = 0 THEN "finish" ELSE "tool")
    /\ UNCHANGED <<world, moves, tables, hooks, run>>

\* An error, or an answer without content: the user is told, nothing is stored.
ChatFails(r) ==
    /\ pc[r] = "chat"
    /\ Fault("provider")
    /\ Return(r)
    /\ UNCHANGED <<world, moves, tables, hooks>>

\* After a call: the next one, the next iteration, or the last one is over.
NextCall(r) ==
    IF loop[r].calls > 1 THEN "tool"
    ELSE IF loop[r].iteration < MaxIterations THEN "chat" ELSE "finish"

\* get_analytics, get_recommendations and optimize_campaign with dry_run judge
\* by the variable; any other tool leaves it alone.
CallTool(r) ==
    /\ pc[r] = "tool"
    /\ \E judged \in {loop[r].judged, loop[r].judged \cup {snapshot}} :
         loop' = [loop EXCEPT ![r] = [iteration |-> @.iteration, calls |-> @.calls - 1,
                                      judging |-> None, judged |-> judged]]
    /\ Goto(r, NextCall(r))
    /\ UNCHANGED <<world, moves, tables, hooks, run>>

\* optimize_campaign to store proposals reads the variable first ...
BeginOptimize(r) ==
    /\ pc[r] = "tool"
    /\ loop' = [loop EXCEPT ![r] = [iteration |-> @.iteration, calls |-> @.calls,
                                    judging |-> snapshot,
                                    judged |-> @.judged \cup {snapshot}]]
    /\ Goto(r, "store")
    /\ UNCHANGED <<world, moves, tables, hooks, run>>

\* ... and calls the closure when its report is built.  The closure is given the
\* goal to judge by and knows the user and the goal to write down.
Stored(r) ==
    [user |-> persister.user, goal |-> persister.goal, judge |-> loop[r].judging,
     asker |-> UserOf[r], toward |-> run[r].goal]

OptimizeCampaign(r) ==
    /\ pc[r] = "store"
    /\ \/ persister # None /\ rows' = rows \cup {Stored(r)}
       \/ UNCHANGED rows         \* nothing new to propose, or an error
    /\ loop' = [loop EXCEPT ![r] = [iteration |-> @.iteration, calls |-> @.calls - 1,
                                    judging |-> None, judged |-> @.judged]]
    /\ Goto(r, NextCall(r))
    /\ UNCHANGED <<world, moves, goals, edit, sessions, messages, hooks, run>>

\* finishAgentRun; the session is touched and the answer sent also when the
\* INSERT failed.
FinishRun(r) ==
    /\ pc[r] = "finish"
    /\ \/ messages' = messages \cup {MessageOf(r, "assistant")}
       \/ Fault("db") /\ UNCHANGED messages
    /\ Return(r)
    /\ UNCHANGED <<world, moves, goals, edit, sessions, rows, hooks>>
-----------------------------------------------------------------------------
(* People beside the runs, and the process. *)

CreateSession(u) ==
    /\ Len(sessions) < MaxSessions
    /\ sessions' = Append(sessions, [user |-> u, goal |-> 0])

\* UpdateAgentSession links whatever id it is given.
RelinkSession(u, s) ==
    /\ OwnedSession(u, s)
    /\ \E g \in 0..Len(goals) : sessions' = [sessions EXCEPT ![s] = [user |-> u, goal |-> g]]

\* The foreign keys are off on the server's connections: messages stay, and so
\* does the link to a goal that is deleted.
DeleteSession(u, s) ==
    /\ OwnedSession(u, s)
    /\ sessions' = [sessions EXCEPT ![s] = None]

SessionNext ==
    \E u \in Users :
      \/ CreateSession(u)
      \/ \E s \in DOMAIN sessions : RelinkSession(u, s) \/ DeleteSession(u, s)

People ==
    /\ moves < world.moves
    /\ moves' = moves + 1
    /\ \/ GoalNext /\ UNCHANGED sessions
       \/ SessionNext /\ UNCHANGED goalVars
    /\ UNCHANGED <<world, messages, rows, hooks, pc, run, loop>>

Crash ==
    /\ Fault("crash")
    /\ \E r \in Runs : pc[r] # "idle"
    /\ pc' = [r \in Runs |-> "idle"]
    /\ run' = [r \in Runs |-> Fresh(run[r].request, 0, 0)]
    /\ loop' = [r \in Runs |-> NoLoop]
    /\ edit' = [e \in Editors |-> None]
    /\ snapshot' = None
    /\ persister' = None
    /\ UNCHANGED <<world, moves, goals, sessions, messages, rows>>
-----------------------------------------------------------------------------
OwnStep(r) ==
    \/ UseSession(r) \/ NoSession(r) \/ InsertSession(r) \/ InsertSessionFails(r)
    \/ ReadLink(r) \/ ResolveGoal(r) \/ GoalUnfit(r) \/ LinkSession(r)
    \/ InsertPrompt(r) \/ InsertPromptFails(r) \/ SetSnapshot(r) \/ SetPersister(r)
    \/ CallTool(r) \/ BeginOptimize(r) \/ OptimizeCampaign(r) \/ FinishRun(r)

\* The call of the provider returns, with an answer or an error.
ProviderReturns(r) == Chat(r) \/ ChatFails(r)

Step(r) == OwnStep(r) \/ ProviderReturns(r)

Next ==
    \/ \E r \in Runs : StartRun(r) \/ Step(r)
    \/ People
    \/ Crash

Spec == Init /\ [][Next]_vars

\* The goroutine of a request goes on: the database and Meta answer, if only with
\* an error.  The provider need not: its HTTP client has no timeout, and the
\* request no deadline.
Fairness == \A r \in Runs : WF_vars(OwnStep(r))

FairSpec == Spec /\ Fairness
-----------------------------------------------------------------------------
(* Properties. *)

\* Every variable has its type; stored numbers are not negative.
TypeOK ==
    /\ world \in Worlds
    /\ moves \in 0..world.moves
    /\ GoalsTypeOK
    /\ sessions \in Seq(SessionRows \cup {None})
    /\ messages \subseteq Messages
    /\ rows \subseteq ProposalRows
    /\ snapshot \in GoalRefs \cup {None}
    /\ persister \in [user : Users, goal : GoalRefs \cup {None}] \cup {None}
    /\ pc \in [Runs -> Positions]
    /\ run \in [Runs -> Local]
    /\ loop \in [Runs -> Loops]

\* A run works toward a goal of its own user, although a session may be linked
\* to any goal and the link be changed before the goal is read.
GoalsOwn == \A r \in Runs : run[r].goal # None => run[r].goal.user = UserOf[r]

\* What runs write into a session, its owner's requests asked for.
MessagesOwn ==
    \A m \in messages :
      m.session \in DOMAIN sessions
        /\ (sessions[m.session] # None => sessions[m.session].user = UserOf[m.by])

\* A stored proposal names a goal of the user it is stored for, also when runs
\* overlap and one calls what the other has left in OptimizationPersister.
RowsOwn == \A x \in rows : x.goal # None => x.goal.user = x.user

\* "The agent runtime executes synchronously per request, which keeps this
\* global safe today": a run stores proposals for its own user.
StoredForAsker == \A x \in rows : x.user = x.asker

\* A run and its proposals are judged by its goal, or by none if it has none.
JudgedByGoal ==
    /\ \A x \in rows : x.goal = x.toward /\ x.judge = x.toward
    /\ \A r \in Runs : loop[r].judged \subseteq {run[r].goal}

\* Nobody's data get into a run or a row of somebody else.  While one run is in
\* flight at a time the package variables are as good as its own.
NothingForeign ==
    /\ GoalsOwn
    /\ MessagesOwn
    /\ RowsOwn
    /\ ~Fault("overlap") => StoredForAsker /\ JudgedByGoal

\* A run that was begun ends, or hangs for ever in one call the provider never
\* answers: a model that answers, whatever it asks for, is asked at most
\* MaxIterations times, and nothing else keeps a run from its end.
RunsEnd ==
    \A r \in Runs : pc[r] # "idle" ~> (pc[r] = "idle" \/ [](pc[r] = "chat"))
-----------------------------------------------------------------------------
(* What makes NothingForeign inductive. *)

\* Past its session a run works in one of its user's, or in one deleted since.
SessionsOwn ==
    \A r \in Runs :
      pc[r] \notin {"idle", "session"} =>
        /\ run[r].session \in DOMAIN sessions
        /\ sessions[run[r].session] # None => sessions[run[r].session].user = UserOf[r]

\* Whosever the closure is, its goal is its user's.
PersisterOwn ==
    persister # None /\ persister.goal # None => persister.goal.user = persister.user

Looping == {"chat", "tool", "store", "finish"}

\* One run in flight finds the variables as it has set them.
AloneInv ==
    ~Fault("overlap") =>
      /\ \A r, x \in Runs : pc[r] # "idle" /\ pc[x] # "idle" => r = x
      /\ \A r \in Runs :
           /\ pc[r] \in Looping \cup {"persister"} => snapshot = run[r].goal
           /\ pc[r] \in Looping => persister = [user |-> UserOf[r], goal |-> run[r].goal]
           /\ pc[r] \notin Looping => loop[r].judged = {}
           /\ pc[r] = "store" => loop[r].judging = run[r].goal

ForeignInv == NothingForeign /\ SessionsOwn /\ PersisterOwn /\ AloneInv
===============================================================================
