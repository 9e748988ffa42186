---------------------------- MODULE MCComponents ----------------------------
(* The components that share no state with each other, checked as one       *)
(* disjoint sum: `focus' says which component a behaviour is of, it takes   *)
(* the steps of that component's own next-state relation, and the others    *)
(* rest in one of their initial states.  The behaviours with focus = x are  *)
(* those of x's specification.                                              *)
EXTENDS CheckpointLog, TaskRegistry, TaskSchedule, TurnSteer, WorkflowRun, WorkerBus,
        HookChain, GoalDriver

CONSTANTS
    Foci,   \* the components to look at
    \* checkpoint ids, messages, writers
    c0, c1, c2, a, b, w1, w2,
    m1, m2  \* mods

\* A session that starts from a v1 document with one checkpoint.
Document == <<CpLine(c0, CpNone, <<a>>)>>
\* One may be appended to the other, the other only put in its place.
Histories == {<<a>>, <<a, b>>}

\* What may happen to the messages of a session.
Talks == {{"event", "ask", "late"}, {"stop", "ask", "recall", "late"}, {"stop", "recall"},
          {"transient"}, {"error", "late"}}
AskedTalk == {{"ask"}}
RetriedTalk == {{"transient"}}

\* The graphs: none of two steps asks, the first one does, a gate follows.
Shapes == {{}, {1}, {3}}
StraightOnly == {{}}

\* What may happen to the subscribers of a worker.
BusCases == {{"digest"}, {"crash", "retry"}, {"retry"}}
CrashOnly == {{"crash"}}

\* Hooks of two mods, and of one.  Runners that die and an engine that fails;
\* hooks that exceed their time; a session.end that exceeds its cap; a tool call
\* that is rewritten as it may not be.
Owners == {<<m1, m2>>, <<m1, m1>>}
TwoOwners == {<<m1, m2>>}
HookCases == {{"die", "core"}, {"slow"}, {"cap"}, {"core", "rewrite"}}
SlowOnly == {{"slow"}}

\* What may happen to a goal: requests, the stop button, questions, another
\* agent in the session, a restart.
GoalCases == {{"pause", "resume"}, {"stop", "resume", "park"}, {"switch", "restart"},
              {"clear", "restart"}}

VARIABLE focus

Rest(component) == focus # component

Init ==
    /\ focus \in Foci
    /\ CpInit /\ (Rest("checkpoint") => cpLegacy = <<>>)
    /\ TkInit
    /\ TsInit /\ (Rest("schedule") => tsKind = CHOOSE kind \in TsKinds : TRUE)
    /\ SqInit /\ (Rest("steer") => sqMay = CHOOSE may \in SqCases : TRUE)
    /\ WfInit
    /\ Rest("workflow") =>
         wfShape = (CHOOSE shape \in WfShapes : TRUE) /\ wfRush = FALSE /\ wfPoll = "off"
    /\ WbInit /\ (Rest("bus") => wbMay = CHOOSE may \in WbCases : TRUE)
    /\ HcInit
    /\ Rest("chain") =>
         hcOwner = (CHOOSE owner \in HcOwners : TRUE) /\ hcMay = (CHOOSE may \in HcCases : TRUE)
    \* the agents are interchangeable: any one to begin with
    /\ GdInit /\ gdAgent = CHOOSE agent \in GdAgents : TRUE
    /\ Rest("goal") => gdMay = CHOOSE may \in GdCases : TRUE

CheckpointSteps ==
    focus = "checkpoint" /\ CpNext
    /\ UNCHANGED <<focus, tkVars, tsVars, sqVars, wfVars, wbVars, hcVars, gdVars>>
RegistrySteps ==
    focus = "registry" /\ TkNext
    /\ UNCHANGED <<focus, cpVars, tsVars, sqVars, wfVars, wbVars, hcVars, gdVars>>
ScheduleSteps ==
    focus = "schedule" /\ TsNext
    /\ UNCHANGED <<focus, cpVars, tkVars, sqVars, wfVars, wbVars, hcVars, gdVars>>
SteerSteps ==
    focus = "steer" /\ SqNext
    /\ UNCHANGED <<focus, cpVars, tkVars, tsVars, wfVars, wbVars, hcVars, gdVars>>
WorkflowSteps ==
    focus = "workflow" /\ WfNext
    /\ UNCHANGED <<focus, cpVars, tkVars, tsVars, sqVars, wbVars, hcVars, gdVars>>
BusSteps ==
    focus = "bus" /\ WbNext
    /\ UNCHANGED <<focus, cpVars, tkVars, tsVars, sqVars, wfVars, hcVars, gdVars>>
ChainSteps ==
    focus = "chain" /\ HcNextStep
    /\ UNCHANGED <<focus, cpVars, tkVars, tsVars, sqVars, wfVars, wbVars, gdVars>>

GoalSteps ==
    focus = "goal" /\ GdNext
    /\ UNCHANGED <<focus, cpVars, tkVars, tsVars, sqVars, wfVars, wbVars, hcVars>>

Next ==
    \/ CheckpointSteps \/ RegistrySteps \/ ScheduleSteps
    \/ SteerSteps \/ WorkflowSteps \/ BusSteps \/ ChainSteps
    \/ GoalSteps

AllVars == <<focus, cpVars, tkVars, tsVars, sqVars, wfVars, wbVars, hcVars, gdVars>>

Spec == Init /\ [][Next]_AllVars
=============================================================================
