--------------------------------- MODULE Goals ---------------------------------
(***************************************************************************)
(* Marketing goals, internals/core/goals.go: the targets a user sets; they *)
(* judge analyses and drive agent runs.  A goal is edited in two           *)
(* round-trips, so edits interleave with each other and with everything    *)
(* else that is done to the goal.  The texts and dates of a goal are left  *)
(* out: they are columns like the numbers, without a check.                *)
(***************************************************************************)
EXTENDS Integers, Sequences

CONSTANTS
    None,       \* no value: NULL, nothing, nobody
    Users,
    Editors,    \* requests that may be editing a goal
    Columns,    \* numeric columns of marketing_goals
    Values,     \* numbers a request may give them, negative ones among them
    MaxGoals    \* bound on the goals

GoalStatuses == {"ACTIVE", "PAUSED", "COMPLETED"}

GoalRows == [user : Users, status : GoalStatuses, columns : [Columns -> Nat \cup {None}]]

\* A goal and its owner, as a handler has read them.
GoalRefs == [id : Nat, user : Users]

\* What the body of a request provides.
GoalRequests == [Columns -> Values \cup {None}]

ASSUME GoalsAssumption ==
    /\ Values \subseteq Int
    /\ None \notin Int
    /\ None \notin GoalRows
    /\ None \notin [id : Nat, row : GoalRows]
    /\ None \notin GoalRefs
    /\ MaxGoals \in Nat

VARIABLES
    goals,  \* the table marketing_goals by id; None where one was deleted
    edit    \* of each editing request: the goal it has read

goalVars == <<goals, edit>>

GoalsInit(initial) ==
    /\ goals = initial
    /\ edit = [e \in Editors |-> None]
-----------------------------------------------------------------------------
\* Mutant: any number will do.
AnyNumbers(columns) == TRUE

\* validateGoalNumbers: only negative numbers are refused.
ValidNumbers(columns) == \A k \in Columns : columns[k] # None => columns[k] >= 0

\* The row behind an id, if there is one.
Exists(g) == g \in DOMAIN goals /\ goals[g] # None

\* Mutant: whoever knows the id owns the goal.
OwnedByAnyone(u, g) == Exists(g)

\* getOwnedGoal, and WHERE id = ? AND user_id = ?.
Owned(u, g) == Exists(g) /\ goals[g].user = u

CreateGoal(u) ==
    /\ Len(goals) < MaxGoals
    /\ \E request \in GoalRequests :
         /\ ValidNumbers(request)
         /\ goals' = Append(goals, [user |-> u, status |-> "ACTIVE", columns |-> request])
    /\ UNCHANGED edit

\* UpdateGoal reads the goal ...
BeginUpdate(e, u, g) ==
    /\ edit[e] = None
    /\ Owned(u, g)
    /\ edit' = [edit EXCEPT ![e] = [id |-> g, row |-> goals[g]]]
    /\ UNCHANGED goals

\* Mutant: every column is written back, the status among them.
UpdateWholeRow(e) ==
    /\ edit[e] # None
    /\ LET id == edit[e].id IN
       \E request \in GoalRequests :
         LET columns == [k \in Columns |-> IF request[k] # None THEN request[k]
                                           ELSE edit[e].row.columns[k]]
         IN  goals' = IF ValidNumbers(columns) /\ Exists(id)
                      THEN [goals EXCEPT ![id] = [edit[e].row EXCEPT !.columns = columns]]
                      ELSE goals
    /\ edit' = [edit EXCEPT ![e] = None]

\* ... and writes every column of what it read, the provided ones changed, with
\* the status left out.  The statement looks at the id only.
UpdateGoal(e) ==
    /\ edit[e] # None
    /\ LET id == edit[e].id IN
       \E request \in GoalRequests :
         LET columns == [k \in Columns |-> IF request[k] # None THEN request[k]
                                           ELSE edit[e].row.columns[k]]
         IN  goals' = IF ValidNumbers(columns) /\ Exists(id)
                      THEN [goals EXCEPT ![id] = [user |-> goals[id].user,
                                                  status |-> goals[id].status,
                                                  columns |-> columns]]
                      ELSE goals
    /\ edit' = [edit EXCEPT ![e] = None]

DeleteGoal(u, g) ==
    /\ Owned(u, g)
    /\ goals' = [goals EXCEPT ![g] = None]
    /\ UNCHANGED edit

\* PauseGoal, ActivateGoal and CompleteGoal, from any status.
SetGoalStatus(u, g, status) ==
    /\ Owned(u, g)
    /\ goals' = [goals EXCEPT ![g] = [user |-> goals[g].user, status |-> status,
                                      columns |-> goals[g].columns]]
    /\ UNCHANGED edit

GoalNext ==
    \/ \E u \in Users :
         \/ CreateGoal(u)
         \/ \E g \in DOMAIN goals :
              \/ \E e \in Editors : BeginUpdate(e, u, g)
              \/ DeleteGoal(u, g)
              \/ \E status \in GoalStatuses : SetGoalStatus(u, g, status)
    \/ \E e \in Editors : UpdateGoal(e)
-----------------------------------------------------------------------------
GoalsTypeOK ==
    /\ goals \in Seq(GoalRows \cup {None})
    /\ edit \in [Editors -> [id : Nat, row : GoalRows] \cup {None}]

\* Editing a goal never undoes what was done to its status meanwhile: a goal
\* paused while an edit of it is in flight stays paused.
StatusKept ==
    [][\A g \in DOMAIN goals :
         edit' # edit /\ goals[g] # None /\ goals'[g] # None =>
           goals'[g].status = goals[g].status]_goalVars
===============================================================================
