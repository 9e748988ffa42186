----------------------------- MODULE MCProgress -----------------------------
(* What the scheduler, the messages of a turn, plans and the queue of a     *)
(* team bring to an end, as a disjoint sum like that of MCComponents:       *)
(* `focus' says which component a behaviour is of.  No fair action of a     *)
(* component is enabled in its initial states, so the fairness of a         *)
(* component at rest says nothing.                                          *)
EXTENDS MCSubagentScheduler, TurnSteer, PlanWatch, TeamDeliver

CONSTANTS i1, i2    \* items of a plan

VARIABLE focus

\* A background task finishes, at any moment of a turn.
EventTalk == {{"event", "late"}}

\* Two independent items, or one that needs the other; what may happen to them.
Needs == {{}, {<<i2, i1>>}}
PlanCases == {{"amend"}, {"cancel", "confirm", "limit"}, {"error", "restart", "revive"}}

\* What may happen to the members of a team.
TeamCases ==
    {[may |-> {"remove"}, sent |-> 4], [may |-> {"stop"}, sent |-> 3],
     [may |-> {"ask"}, sent |-> 3], [may |-> {"user"}, sent |-> 2]}

ProgressInit ==
    /\ focus \in {"sub", "steer", "plan", "team"} /\ Init /\ SqInit
    /\ PwInit
    /\ focus # "plan" =>
         pwMay = (CHOOSE may \in PwCases : TRUE) /\ pwNeeds = (CHOOSE needs \in PwDepends : TRUE)
    /\ TdInit /\ (focus # "team" =>
                     [may |-> tdMay, sent |-> tdSent] = CHOOSE case \in TdCases : TRUE)

SubagentSteps == focus = "sub" /\ Next /\ UNCHANGED <<focus, sqVars, pwVars, tdVars>>
SteerSteps == focus = "steer" /\ SqNext /\ UNCHANGED <<focus, vars, pwVars, tdVars>>
PlanSteps == focus = "plan" /\ PwNext /\ UNCHANGED <<focus, vars, sqVars, tdVars>>
TeamSteps == focus = "team" /\ TdNext /\ UNCHANGED <<focus, vars, sqVars, pwVars>>

ProgressNext == SubagentSteps \/ SteerSteps \/ PlanSteps \/ TeamSteps

ProgressSpec ==
    /\ ProgressInit /\ [][ProgressNext]_<<focus, vars, sqVars, pwVars, tdVars>>
    /\ WF_vars(System) /\ SqFairness
=============================================================================
