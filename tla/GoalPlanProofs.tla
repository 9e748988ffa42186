--------------------------- MODULE GoalPlanProofs ---------------------------
(***************************************************************************)
(* GdOneDriver and GdPursued for every number of drivers, agents and goals *)
(* and every mix of requests, stops, questions and restarts.               *)
(*                                                                         *)
(* The argument: the registry holds no driver that has ended or is on its  *)
(* way out by a cancellation, and every other live driver is cancelled.    *)
(* So an arming that finds the registry empty adds the only driver, one    *)
(* that finds it full meets a live one, and a driver leaves an active goal *)
(* behind only if it is of another goal or already leaving.                *)
(*                                                                         *)
(* PwOneChild and PwEndsTold for every list of items, every number of      *)
(* children and every mix of amendments, cancels, failures and restarts.   *)
(*                                                                         *)
(* The argument for PwOneChild: what the watcher still means to launch is  *)
(* an item in a life that no child has been launched for, at most once in  *)
(* its list, and not running; nor is the item whose child is being made.   *)
(* An item that is pending in its present life has no child but that one;  *)
(* and, unless the user revives children, a child at work is the one       *)
(* recorded at an item that says running, which no amendment touches.      *)
(***************************************************************************)
EXTENDS GoalDriver, PlanWatch, TLAPS

(* The goal driver.                                                        *)

GdStatuses == {"none", "active", "paused", "blocked", "complete"}

GdTyped ==
    /\ gdGoal \in [id: Nat, status: GdStatuses, agent: GdAgents \cup {GdNone}]
    /\ gdAgent \in GdAgents
    /\ gdReg \in GdTasks \cup {GdNone}
    /\ gdAt \in [GdTasks -> GdPlaces] /\ gdFor \in [GdTasks -> Nat] /\ gdCut \subseteq GdTasks

\* who is registered lives and is not cancelled; who is cancelled lives
GdRegistered ==
    /\ gdReg # GdNone => GdAlive(gdReg) /\ gdReg \notin gdCut
    /\ \A d \in gdCut : GdAlive(d)

GdBase == GdTyped /\ GdOneDriver /\ GdRegistered

\* an active goal is pursued, or will be armed by a turn or a request
GdDriven ==
    GdActive /\ gdLoaded /\ gdTalk # "turn" /\ "arm" \notin gdReq /\ ~gdSlip =>
        \E d \in GdTasks : GdPursues(d)

GdInductive == GdBase /\ GdDriven

\* The invariant of the driver holds at the beginning.
LEMMA GdInitInductive == GdInit => GdInductive
BY GdDistinct DEF GdInit, GdInductive, GdBase, GdTyped, GdOneDriver, GdRegistered, GdDriven, GdAlive,
   GdPlaces, GdActive, GdStatuses

\* What a step of a driver does to the drivers and the goal.
LEMMA DriverEffect ==
    ASSUME GdBase, NEW d \in GdTasks, GdDriverStep(d)
    PROVE  /\ gdGoal' \in [id: Nat, status: GdStatuses, agent: GdAgents \cup {GdNone}]
           /\ (gdGoal'.id = gdGoal.id /\ (GdActive' => GdActive)) \/ GdPursues(d)'
           /\ UNCHANGED <<gdAgent, gdLoaded, gdReq, gdTalk>> /\ (~gdSlip' => ~gdSlip)
           /\ \/ GdExit(d)
              \/ /\ \E to \in GdPlaces \ {"none"} : GdMove(d, to)
                 /\ \E id \in Nat : gdFor' = [gdFor EXCEPT ![d] = id]
                 /\ UNCHANGED <<gdReg, gdCut>>
           /\ GdPursues(d) /\ GdActive' /\ ~gdSlip' => GdPursues(d)'
<1> USE DEF GdBase, GdTyped, GdPlaces, GdStatuses, GdActive, GdKeep
<1> DEFINE Effect ==
      /\ gdGoal' \in [id: Nat, status: GdStatuses, agent: GdAgents \cup {GdNone}]
      /\ (gdGoal'.id = gdGoal.id /\ (GdActive' => GdActive)) \/ GdPursues(d)'
      /\ UNCHANGED <<gdAgent, gdLoaded, gdReq, gdTalk>> /\ (~gdSlip' => ~gdSlip)
      /\ \/ GdExit(d)
         \/ /\ \E to \in GdPlaces \ {"none"} : GdMove(d, to)
            /\ \E id \in Nat : gdFor' = [gdFor EXCEPT ![d] = id]
            /\ UNCHANGED <<gdReg, gdCut>>
      /\ GdPursues(d) /\ GdActive' /\ ~gdSlip' => GdPursues(d)'
<1>0. gdFor = [gdFor EXCEPT ![d] = gdFor[d]] /\ gdFor[d] \in Nat
      /\ gdAt = [gdAt EXCEPT ![d] = gdAt[d]] /\ gdAt[d] \in GdPlaces
  OBVIOUS
\* a lap's first look
<1>1. ASSUME GdLook(d), UNCHANGED gdTalk, GdKeep PROVE Effect
  <2>1. CASE ~GdActive
    BY <1>1, <2>1 DEF GdLook, GdExit
  <2>2. CASE GdActive /\ gdGoal.agent \notin {GdNone, gdAgent}
    BY <1>0, <1>1, <2>2 DEF GdLook, GdMove
  <2>3. CASE GdActive /\ gdGoal.agent \in {GdNone, gdAgent}
    BY <1>0, <1>1, <2>3 DEF GdLook, GdMove, GdPursues, GdAlive, GdOutgoing
  <2> QED BY <2>1, <2>2, <2>3
<1>2. CASE GdTop(d) BY <1>1, <1>2 DEF GdTop, gdTurns
<1>3. CASE GdWait(d)
  BY <1>0, <1>3 DEF GdWait, GdMoves, GdStill, GdExit, GdMove, GdPursues, GdAlive, GdOutgoing, gdTurns
<1>4. CASE GdGrace(d)
  BY <1>0, <1>4 DEF GdGrace, GdMoves, GdStill, GdExit, GdMove, GdPursues, GdAlive, GdOutgoing, gdTurns
<1>5. CASE GdGo(d)
  <2>1. CASE GdInterrupted /\ GdLook(d) /\ UNCHANGED gdTurns
    BY <1>1, <1>5, <2>1 DEF GdGo, gdTurns
  <2>2. CASE ~GdInterrupted /\ ~GdStill(d) /\ GdExit(d)
    BY <1>0, <1>5, <2>2
    DEF GdGo, GdMoves, GdStill, GdExit, GdMove, GdPursues, GdAlive, GdOutgoing, gdTurns
  <2>3. CASE ~GdInterrupted /\ GdStill(d) /\ GdMove(d, "turn")
    BY <1>0, <1>5, <2>3
    DEF GdGo, GdMoves, GdStill, GdExit, GdMove, GdPursues, GdAlive, GdOutgoing, gdTurns
  <2> QED BY <1>5, <2>1, <2>2, <2>3 DEF GdGo
<1>6. CASE GdVerdict(d)
  <2>1. gdGoal' \in [id: Nat, status: GdStatuses, agent: GdAgents \cup {GdNone}]
    BY <1>6 DEF GdVerdict, GdToolWrites
  <2>2. GdPursues(d)'
    BY <1>6 DEF GdVerdict, GdMoves, gdDrivers, GdPursues, GdAlive, GdOutgoing
  <2> QED BY <1>0, <1>6, <2>1, <2>2 DEF GdVerdict, GdMoves, GdMove, gdDrivers, gdTurns
<1>7. CASE GdAsk(d)
  BY <1>0, <1>7 DEF GdAsk, GdMoves, GdMove, GdPursues, GdAlive, GdOutgoing
<1>8. CASE GdEnd(d)
  <2>1. CASE GdMove(d, "top") /\ UNCHANGED <<gdGoal, gdReg, gdFor, gdCut, gdSlip>>
    BY <1>0, <1>8, <2>1 DEF GdEnd, GdMoves, GdMove, GdPursues, GdAlive, GdOutgoing
  <2>2. CASE gdGoal.status # "none" /\ gdGoal.id = gdFor[d]
             /\ gdGoal' = [gdGoal EXCEPT !.status = "blocked"]
             /\ GdMove(d, "leave") /\ UNCHANGED <<gdReg, gdFor, gdCut, gdSlip>>
    BY <1>0, <1>8, <2>2 DEF GdEnd, GdMove
  <2>3. CASE gdAt[d] = "turn" /\ ~(gdGoal.status # "none" /\ gdGoal.id = gdFor[d])
             /\ GdExit(d) /\ gdSlip' = (gdSlip \/ GdActive) /\ UNCHANGED gdGoal
    BY <1>0, <1>8, <2>3 DEF GdEnd, GdPursues, GdOutgoing
  <2> QED BY <1>8, <2>1, <2>2, <2>3 DEF GdEnd
<1>9. CASE GdLeave(d)
  BY <1>0, <1>9 DEF GdLeave, GdMoves, GdExit, GdPursues, GdOutgoing, gdTurns
<1>10. CASE GdCancelled(d)
  BY <1>0, <1>10 DEF GdCancelled, GdExit, GdPursues
<1> QED BY <1>2, <1>3, <1>4, <1>5, <1>6, <1>7, <1>8, <1>9, <1>10 DEF GdDriverStep

\* A driver's step keeps it.
LEMMA DriverKeeps ==
    ASSUME GdInductive, NEW d \in GdTasks, GdDriverStep(d)
    PROVE  GdInductive'
<1>1. GdBase BY DEF GdInductive
<1>2. CASE GdExit(d)
  <2>1. GdTyped'
    BY <1>1, <1>2, DriverEffect DEF GdBase, GdTyped, GdExit, GdMove, GdPlaces
  <2>2. GdOneDriver' /\ GdRegistered'
    BY <1>1, <1>2
    DEF GdBase, GdTyped, GdExit, GdMove, GdOneDriver, GdRegistered, GdAlive
  <2>3. GdDriven'
    <3> SUFFICES ASSUME GdActive', gdLoaded', (gdTalk # "turn")', ("arm" \notin gdReq)', ~gdSlip'
                 PROVE  \E e \in GdTasks : GdPursues(e)'
      BY DEF GdDriven
    <3> SUFFICES ASSUME ~GdPursues(d)' PROVE \E e \in GdTasks : GdPursues(e)'
      OBVIOUS
    <3>1. PICK e \in GdTasks : GdPursues(e) BY <1>1, DriverEffect DEF GdInductive, GdDriven
    <3>2. e = d => GdPursues(e)' BY <1>1, <3>1, DriverEffect
    <3>3. e # d => GdPursues(e)'
      BY <1>1, <1>2, <3>1, DriverEffect
      DEF GdBase, GdTyped, GdExit, GdMove, GdPursues, GdAlive, GdOutgoing
    <3> QED BY <3>2, <3>3
  <2> QED BY <2>1, <2>2, <2>3 DEF GdInductive, GdBase
<1>3. ASSUME NEW to \in GdPlaces \ {"none"}, GdMove(d, to),
             NEW id \in Nat, gdFor' = [gdFor EXCEPT ![d] = id],
             UNCHANGED <<gdReg, gdCut>>, GdAlive(d)
      PROVE  GdInductive'
  <2>1. GdTyped'
    BY <1>1, <1>3, DriverEffect DEF GdBase, GdTyped, GdMove, GdPlaces
  <2>2. GdOneDriver' /\ GdRegistered'
    BY <1>1, <1>3
    DEF GdBase, GdTyped, GdMove, GdOneDriver, GdRegistered, GdAlive
  <2>3. GdDriven'
    <3> SUFFICES ASSUME GdActive', gdLoaded', (gdTalk # "turn")', ("arm" \notin gdReq)', ~gdSlip'
                 PROVE  \E e \in GdTasks : GdPursues(e)'
      BY DEF GdDriven
    <3> SUFFICES ASSUME ~GdPursues(d)' PROVE \E e \in GdTasks : GdPursues(e)'
      OBVIOUS
    <3>1. PICK e \in GdTasks : GdPursues(e) BY <1>1, DriverEffect DEF GdInductive, GdDriven
    <3>2. e = d => GdPursues(e)' BY <1>1, <3>1, DriverEffect
    <3>3. e # d => GdPursues(e)'
      BY <1>1, <1>3, <3>1, DriverEffect
      DEF GdBase, GdTyped, GdMove, GdPursues, GdAlive, GdOutgoing
    <3> QED BY <3>2, <3>3
  <2> QED BY <2>1, <2>2, <2>3 DEF GdInductive, GdBase
<1>4. GdAlive(d)
  BY <1>1 DEF GdDriverStep, GdTop, GdWait, GdGrace, GdGo, GdVerdict, GdAsk, GdEnd, GdLeave, GdCancelled,
              GdMoves, GdAlive, GdBase, GdRegistered
<1> QED BY <1>1, <1>2, <1>3, <1>4, DriverEffect

\* The stop of the registered driver keeps the part about drivers.
LEMMA StopKeeps ==
    ASSUME GdBase, GdStopDriver, UNCHANGED gdAgent,
           gdGoal' \in [id: Nat, status: GdStatuses, agent: GdAgents \cup {GdNone}]
    PROVE  GdBase'
BY GdDistinct DEF GdBase, GdTyped, GdStopDriver, GdOneDriver, GdRegistered, GdAlive

\* Arming leaves an active goal of a loaded session pursued, or notes a slip.
LEMMA ArmKeeps ==
    ASSUME GdBase, GdArm(TRUE), UNCHANGED gdGoal, gdAgent' \in GdAgents
    PROVE  GdBase' /\ (GdActive' /\ ~gdSlip' => \E d \in GdTasks : GdPursues(d)')
<1>1. CASE ~GdActive
  BY <1>1, GdDistinct
  DEF GdArm, GdBase, GdTyped, GdStopDriver, GdOneDriver, GdRegistered, GdAlive, GdActive
<1>2. CASE GdActive /\ gdReg # GdNone
  <2>1. UNCHANGED <<gdReg, gdAt, gdFor, gdCut>> /\ gdSlip' = (gdSlip \/ GdOutgoing(gdReg))
    BY <1>2 DEF GdArm, gdDrivers
  <2>2. GdBase' BY <2>1 DEF GdBase, GdTyped, GdOneDriver, GdRegistered, GdAlive
  <2>3. gdReg \in GdTasks /\ GdAlive(gdReg) /\ gdReg \notin gdCut
    BY <1>2 DEF GdBase, GdTyped, GdRegistered
  <2>4. ~gdSlip' => \E d \in GdTasks : GdPursues(d)'
    <3> SUFFICES ASSUME ~gdSlip' PROVE \E d \in GdTasks : GdPursues(d)' OBVIOUS
    <3>1. gdReg' = gdReg BY <2>1
    <3> QED BY <2>1, <2>3 DEF GdPursues, GdAlive, GdOutgoing
  <2> QED BY <2>2, <2>4
<1>3. CASE GdActive /\ gdReg = GdNone
  <2>1. PICK d \in GdTasks : ~GdAlive(d) /\ GdMove(d, "new") /\ gdReg' = d
    BY <1>3 DEF GdArm
  <2>2. UNCHANGED <<gdFor, gdCut>> BY <1>3 DEF GdArm
  <2>3. GdBase'
    <3>1. GdTyped' BY <2>1, <2>2 DEF GdBase, GdTyped, GdMove, GdPlaces
    <3>2. d \notin gdCut /\ gdAt'[d] = "new" /\ \A e \in GdTasks \ {d} : gdAt'[e] = gdAt[e]
      BY <2>1 DEF GdBase, GdTyped, GdRegistered, GdMove
    <3>3. GdOneDriver'
      BY <1>3, <2>1, <2>2, <3>2, GdDistinct DEF GdBase, GdOneDriver, GdAlive
    <3>4. GdRegistered'
      BY <2>1, <2>2, <3>2 DEF GdBase, GdTyped, GdRegistered, GdAlive
    <3> QED BY <3>1, <3>3, <3>4 DEF GdBase
  <2>4. GdPursues(d)'
    BY <2>1, <2>2 DEF GdBase, GdTyped, GdRegistered, GdMove, GdPursues, GdAlive, GdOutgoing
  <2> QED BY <2>3, <2>4
<1> QED BY <1>1, <1>2, <1>3

\* Steps that leave the drivers alone, and neither wake the goal nor change it
\* for another without a turn or a request that will arm.
LEMMA GdQuietKeeps ==
    ASSUME GdInductive, UNCHANGED gdDrivers, gdAgent' \in GdAgents,
           gdGoal' \in [id: Nat, status: GdStatuses, agent: GdAgents \cup {GdNone}],
           \/ (gdTalk = "turn")' \/ ("arm" \in gdReq)' \/ gdSlip'
           \/ /\ gdGoal'.id = gdGoal.id /\ (GdActive' => GdActive)
              /\ gdTalk # "turn" /\ "arm" \notin gdReq
              /\ UNCHANGED <<gdLoaded, gdSlip>>
    PROVE  GdInductive'
<1>1. UNCHANGED <<gdReg, gdAt, gdFor, gdCut>> BY DEF gdDrivers
<1>2. GdBase' BY <1>1 DEF GdInductive, GdBase, GdTyped, GdOneDriver, GdRegistered, GdAlive
<1>3. GdDriven' BY <1>1 DEF GdInductive, GdDriven, GdPursues, GdAlive, GdOutgoing
<1> QED BY <1>2, <1>3 DEF GdInductive

\* The user's turns, connections, stops and a restart keep the invariant.
LEMMA TalkKeeps ==
    ASSUME GdInductive,
           GdInvoke \/ GdAnswer \/ GdTalkGo \/ GdTool \/ GdTalkEnd \/ GdTalkFail \/ GdConnect
           \/ GdStop \/ GdRestart
    PROVE  GdInductive'
<1> USE DEF GdTalkOnly, gdTurns
<1>0. GdBase /\ gdAgent \in GdAgents
      /\ gdGoal \in [id: Nat, status: GdStatuses, agent: GdAgents \cup {GdNone}]
  BY DEF GdInductive, GdBase, GdTyped
<1>1. CASE GdInvoke BY <1>0, <1>1, GdQuietKeeps DEF GdInvoke, GdActive
<1>2. CASE GdAnswer BY <1>0, <1>2, GdQuietKeeps DEF GdAnswer, GdActive
<1>3. CASE GdTalkGo BY <1>0, <1>3, GdQuietKeeps DEF GdTalkGo
<1>4. CASE GdTool
  <2>1. gdGoal' \in [id: Nat, status: GdStatuses, agent: GdAgents \cup {GdNone}]
    BY <1>0, <1>4 DEF GdTool, GdToolWrites, GdStatuses
  <2> QED BY <1>0, <1>4, <2>1, GdQuietKeeps DEF GdTool
<1>5. CASE GdTalkEnd BY <1>0, <1>5, ArmKeeps DEF GdTalkEnd, GdInductive, GdDriven
<1>9. CASE GdTalkFail
  <2>1. UNCHANGED <<gdReg, gdAt, gdFor, gdCut, gdGoal, gdAgent, gdLoaded, gdReq>>
    BY <1>9 DEF GdTalkFail, gdDrivers
  <2>2. GdBase' BY <1>0, <2>1 DEF GdBase, GdTyped, GdOneDriver, GdRegistered, GdAlive
  <2>3. GdDriven'
    <3> SUFFICES ASSUME GdActive', ~gdSlip' PROVE \E d \in GdTasks : GdPursues(d)'
      BY DEF GdDriven
    <3>1. gdReg # GdNone /\ ~GdOutgoing(gdReg) BY <1>9, <2>1 DEF GdTalkFail, GdActive
    <3>2. gdReg \in GdTasks /\ GdAlive(gdReg) /\ gdReg \notin gdCut
      BY <1>0, <3>1 DEF GdBase, GdTyped, GdRegistered
    <3> QED BY <2>1, <3>1, <3>2 DEF GdPursues, GdAlive, GdOutgoing
  <2> QED BY <2>2, <2>3 DEF GdInductive
<1>6. CASE GdConnect BY <1>0, <1>6, ArmKeeps DEF GdConnect, GdInductive, GdDriven
<1>7. CASE GdStop
  <2>1. gdGoal' \in [id: Nat, status: GdStatuses, agent: GdAgents \cup {GdNone}]
        /\ gdGoal'.id = gdGoal.id /\ ~GdActive'
    BY <1>0, <1>7 DEF GdStop, GdStatuses, GdActive
  <2>2. GdBase'
    BY <1>0, <1>7, <2>1 DEF GdStop, gdDrivers, GdBase, GdTyped, GdOneDriver, GdRegistered, GdAlive
  <2> QED BY <2>1, <2>2 DEF GdInductive, GdDriven
<1>8. CASE GdRestart
  BY <1>0, <1>8
  DEF GdRestart, GdInductive, GdDriven, GdBase, GdTyped, GdOneDriver, GdRegistered, GdAlive, GdPlaces
<1> QED BY <1>1, <1>2, <1>3, <1>4, <1>5, <1>6, <1>7, <1>8, <1>9

\* Requests about the goal keep it.
LEMMA RequestKeeps ==
    ASSUME GdInductive, GdPause \/ GdResume \/ GdSet \/ GdClear \/ GdHalt \/ GdRearm
    PROVE  GdInductive'
<1> USE DEF GdRequestOnly, gdTurns
<1>0. GdBase /\ gdAgent \in GdAgents
      /\ gdGoal \in [id: Nat, status: GdStatuses, agent: GdAgents \cup {GdNone}]
  BY DEF GdInductive, GdBase, GdTyped
<1>1. CASE GdPause
  <2>1. gdGoal' \in [id: Nat, status: GdStatuses, agent: GdAgents \cup {GdNone}] /\ ~GdActive'
    BY <1>0, <1>1 DEF GdPause, GdPut, GdStatuses, GdActive
  <2>2. GdBase'
    BY <1>0, <1>1, <2>1
    DEF GdPause, GdPut, gdDrivers, GdBase, GdTyped, GdOneDriver, GdRegistered, GdAlive
  <2> QED BY <2>1, <2>2 DEF GdInductive, GdDriven
<1>2. CASE GdResume
  <2>1. gdGoal' \in [id: Nat, status: GdStatuses, agent: GdAgents \cup {GdNone}]
    BY <1>0, <1>2 DEF GdResume, GdPut, GdStatuses
  <2> QED BY <1>0, <1>2, <2>1, GdQuietKeeps DEF GdResume, GdPut
<1>3. CASE GdSet
  <2>1. gdGoal' \in [id: Nat, status: GdStatuses, agent: GdAgents \cup {GdNone}]
    BY <1>0, <1>3 DEF GdSet, GdStatuses
  <2> QED BY <1>0, <1>3, <2>1, GdQuietKeeps DEF GdSet
<1>4. CASE GdClear
  <2>1. gdGoal' \in [id: Nat, status: GdStatuses, agent: GdAgents \cup {GdNone}] /\ ~GdActive'
    BY <1>0, <1>4 DEF GdClear, GdStatuses, GdActive
  <2>2. GdBase' BY <1>0, <1>4, <2>1, StopKeeps DEF GdClear
  <2> QED BY <2>1, <2>2 DEF GdInductive, GdDriven
<1>5. CASE GdHalt BY <1>0, <1>5, StopKeeps DEF GdHalt, GdInductive, GdDriven, GdActive
<1>6. CASE GdRearm
  <2>1. CASE gdLoaded BY <1>0, <1>6, <2>1, ArmKeeps DEF GdRearm, GdArm, GdInductive, GdDriven
  <2>2. CASE ~gdLoaded
    BY <1>0, <1>6, <2>2
    DEF GdRearm, GdArm, gdDrivers, GdInductive, GdDriven, GdBase, GdTyped, GdOneDriver, GdRegistered,
        GdAlive
  <2> QED BY <2>1, <2>2
<1> QED BY <1>1, <1>2, <1>3, <1>4, <1>5, <1>6

\* The invariant of the driver holds in every reachable state.
LEMMA Inductive == GdSpec => []GdInductive
<1>1. GdInit => GdInductive BY GdInitInductive
<1>2. GdInductive /\ [GdNext]_gdVars => GdInductive'
  <2> SUFFICES ASSUME GdInductive, [GdNext]_gdVars PROVE GdInductive' OBVIOUS
  <2>1. CASE \E d \in GdTasks : GdDriverStep(d)
    <3>1. PICK d \in GdTasks : GdDriverStep(d) BY <2>1
    <3> QED BY <3>1, DriverKeeps
  <2>2. CASE GdInvoke \/ GdAnswer \/ GdTalkGo \/ GdTool \/ GdTalkEnd \/ GdTalkFail
               \/ GdConnect \/ GdStop \/ GdRestart
    BY <2>2, TalkKeeps
  <2>3. CASE GdPause \/ GdResume \/ GdSet \/ GdClear \/ GdHalt \/ GdRearm BY <2>3, RequestKeeps
  <2>4. CASE UNCHANGED gdVars
    BY <2>4 DEF gdVars, gdDrivers, gdTurns, GdInductive, GdDriven, GdBase, GdTyped, GdOneDriver,
                GdRegistered, GdAlive, GdActive, GdPursues, GdOutgoing
  <2> QED BY <2>1, <2>2, <2>3, <2>4 DEF GdNext
<1> QED BY <1>1, <1>2, PTL DEF GdSpec

\* A session is pursued by one driver at a time (sessions.py,
\* _start_goal_driver, _stop_goal_driver and the driver's finally).
THEOREM OneDriver == GdSpec => []GdOneDriver
<1>1. GdInductive => GdOneDriver BY DEF GdInductive, GdBase
<1> QED BY <1>1, Inductive, PTL

\* An active goal at rest has a driver that will get to it, outside the
\* slips (sessions.py, every caller of _start_goal_driver).
THEOREM Pursued == GdSpec => []GdPursued
<1>1. GdInductive => GdPursued BY DEF GdInductive, GdDriven, GdPursued
<1> QED BY <1>1, Inductive, PTL
-----------------------------------------------------------------------------
(* The plan watcher.                                                       *)

PwKidStates == {"none", "making", "live", "stray", "stopping"} \cup PwTerminal
PwItemStates == {"pending", "running", "gone"} \cup PwTerminal

PwTyped ==
    /\ pwItem \in [PwItems -> PwItemStates] /\ pwLife \in [PwItems -> Nat]
    /\ pwChild \in [PwItems -> PwKids \cup {PwNone}]
    /\ pwKid \in [PwKids -> [state: PwKidStates, item: PwItems \cup {PwNone}, life: Nat]]
    /\ pwTodo \subseteq PwItems \X Nat /\ pwMaking \in PwKids \cup {PwNone}

\* the child being made, and no other, is in the making; its item does not run;
\* a child that is not there is nobody's
PwMade ==
    /\ \A k \in PwKids : pwKid[k].state = "none" => pwKid[k].item = PwNone
    /\ pwMaking # PwNone => pwKid[pwMaking].item \in PwItems /\ pwItem[pwKid[pwMaking].item] # "running"
    /\ \A k \in PwKids : pwKid[k].state = "making" <=> pwMaking = k

\* what the pass means to launch was pending and has had no child in that life
PwMeant ==
    \A t \in pwTodo :
        /\ t[2] <= pwLife[t[1]] /\ pwItem[t[1]] # "running"
        /\ \A u \in pwTodo : t[1] = u[1] => t = u
        /\ \A k \in PwKids : pwKid[k].item = t[1] => pwKid[k].life # t[2]
        /\ pwMaking # PwNone => pwKid[pwMaking].item # t[1]

\* no child is of a life to come, and a pending item has none in its present one
PwPast ==
    \A k \in PwKids : pwKid[k].item # PwNone =>
        /\ pwKid[k].life <= pwLife[pwKid[k].item]
        /\ pwItem[pwKid[k].item] = "pending" /\ pwKid[k].life = pwLife[pwKid[k].item] => pwMaking = k

\* a child at work is the recorded one of a running item
PwRecorded ==
    "revive" \notin pwMay =>
        \A k \in PwKids : pwKid[k].state \in {"live", "stopping"} =>
            /\ pwKid[k].item \in PwItems
            /\ pwItem[pwKid[k].item] = "running" /\ pwChild[pwKid[k].item] = k

\* one life of an item has one child
PwLivesApart ==
    \A k, l \in PwKids :
        k # l /\ pwKid[k].item # PwNone /\ pwKid[k].item = pwKid[l].item =>
            pwKid[k].life # pwKid[l].life

PwInductive ==
    PwTyped /\ PwMade /\ PwMeant /\ PwPast /\ PwRecorded /\ PwLivesApart

pwOne == <<pwMay, pwItem, pwChild, pwLife, pwKid, pwTodo, pwMaking>>

\* The invariant of the watcher holds at the beginning.
LEMMA PwInitInductive == PwInit => PwInductive
<1> SUFFICES ASSUME PwInit PROVE PwInductive OBVIOUS
<1> USE PwDistinct DEF PwInit, PwIdle
<1>1. PwTyped BY DEF PwTyped, PwKidStates, PwItemStates
<1>2. PwMade /\ PwMeant /\ PwPast /\ PwRecorded /\ PwLivesApart
  BY DEF PwMade, PwMeant, PwPast, PwRecorded, PwLivesApart
<1> QED BY <1>1, <1>2 DEF PwInductive

\* Steps that leave items, children and the pass's list alone.
LEMMA PwQuietKeeps ==
    ASSUME PwInductive, UNCHANGED pwOne
    PROVE  PwInductive'
BY DEF pwOne, PwInductive, PwTyped, PwMade, PwMeant, PwPast, PwRecorded, PwLivesApart

\* The settling of a pass keeps it.
LEMMA SettleKeeps ==
    ASSUME PwInductive, PwSettle, pwMaking = PwNone
    PROVE  PwInductive'
<1> DEFINE item == [i \in PwItems |-> IF i \in PwEnded THEN pwKid[pwChild[i]].state ELSE pwItem[i]]
<1>1. /\ pwItem' = item /\ UNCHANGED <<pwMay, pwChild, pwLife, pwKid, pwMaking>>
      /\ pwTodo' \subseteq {<<i, pwLife[i]>> : i \in PwReady(item)}
  BY DEF PwSettle
<1>2. /\ \A i \in PwEnded : i \in PwItems /\ pwItem[i] = "running" /\ item[i] \in PwTerminal
      /\ \A i \in PwItems \ PwEnded : item[i] = pwItem[i]
  BY DEF PwEnded
<1>3. \A i \in PwReady(item) : i \in PwItems /\ pwItem[i] = "pending" /\ item[i] = "pending"
  BY <1>2 DEF PwReady, PwTerminal
<1>4. PwTyped'
  <2>1. item \in [PwItems -> PwItemStates] BY <1>2 DEF PwInductive, PwTyped, PwItemStates
  <2>2. pwTodo' \subseteq PwItems \X Nat BY <1>1, <1>3 DEF PwInductive, PwTyped
  <2> HIDE DEF item
  <2> QED BY <1>1, <2>1, <2>2 DEF PwInductive, PwTyped
<1> HIDE DEF item
<1>5. PwMade' BY <1>1 DEF PwInductive, PwMade
<1>6. PwMeant'
  <2> SUFFICES ASSUME NEW t \in pwTodo'
               PROVE  /\ t[2] <= pwLife[t[1]] /\ item[t[1]] # "running"
                      /\ \A u \in pwTodo' : t[1] = u[1] => t = u
                      /\ \A k \in PwKids : pwKid[k].item = t[1] => pwKid[k].life # t[2]
    BY <1>1 DEF PwMeant
  <2>1. PICK i \in PwReady(item) : t = <<i, pwLife[i]>> BY <1>1
  <2>2. i \in PwItems /\ pwItem[i] = "pending" /\ item[i] = "pending" BY <1>3
  <2>3. \A u \in pwTodo' : t[1] = u[1] => t = u BY <1>1, <2>1
  <2>4. \A k \in PwKids : pwKid[k].item = i => pwKid[k].life # pwLife[i]
    BY <2>2, PwDistinct DEF PwInductive, PwPast
  <2>5. pwLife[i] \in Nat BY <2>2 DEF PwInductive, PwTyped
  <2> QED BY <2>1, <2>2, <2>3, <2>4, <2>5
<1>7. PwPast'
  BY <1>1, <1>2 DEF PwInductive, PwTyped, PwPast, PwTerminal
<1>8. PwRecorded'
  BY <1>1, <1>2 DEF PwInductive, PwTyped, PwRecorded, PwEnded, PwTerminal
<1>9. PwLivesApart' BY <1>1 DEF PwInductive, PwLivesApart
<1> QED BY <1>4, <1>5, <1>6, <1>7, <1>8, <1>9 DEF PwInductive

\* A launch that is meant keeps it, whatever happened since it was.
LEMMA LaunchKeeps ==
    ASSUME PwInductive, NEW k \in PwKids, PwLaunch(k)
    PROVE  PwInductive'
<1>1. PICK t \in pwTodo :
        /\ pwTodo' = pwTodo \ {t}
        /\ pwKid' = [pwKid EXCEPT ![k] = [state |-> "making", item |-> t[1], life |-> t[2]]]
  BY DEF PwLaunch
<1>2. pwMaking = PwNone /\ pwMaking' = k /\ pwKid[k] = PwIdle
      /\ UNCHANGED <<pwMay, pwItem, pwChild, pwLife>>
  BY DEF PwLaunch, PwLaunchOnly
<1>3. t[1] \in PwItems /\ t[2] \in Nat BY <1>1 DEF PwInductive, PwTyped
<1>4. /\ pwKid'[k] = [state |-> "making", item |-> t[1], life |-> t[2]]
      /\ \A l \in PwKids \ {k} : pwKid'[l] = pwKid[l]
  BY <1>1 DEF PwInductive, PwTyped
<1>5. PwTyped' BY <1>1, <1>2, <1>3 DEF PwInductive, PwTyped, PwKidStates
<1>6. PwMade'
  BY <1>1, <1>2, <1>3, <1>4, PwDistinct DEF PwInductive, PwMade, PwMeant
<1>7. PwMeant'
  <2>1. ASSUME NEW u \in pwTodo' PROVE u \in pwTodo /\ u[1] # t[1]
    BY <1>1, <2>1 DEF PwInductive, PwMeant
  <2> QED BY <1>2, <1>4, <2>1 DEF PwInductive, PwMeant
<1>8. PwPast' BY <1>1, <1>2, <1>3, <1>4, PwDistinct DEF PwInductive, PwPast, PwMeant
<1>9. PwRecorded' BY <1>2, <1>4 DEF PwInductive, PwRecorded
<1>10. PwLivesApart'
  <2>1. \A l \in PwKids \ {k} : pwKid[l].item = t[1] => pwKid[l].life # t[2]
    BY <1>1 DEF PwInductive, PwMeant
  <2> QED BY <1>4, <2>1 DEF PwInductive, PwLivesApart
<1> QED BY <1>5, <1>6, <1>7, <1>8, <1>9, <1>10 DEF PwInductive

\* The record of a launched child keeps it.
LEMMA LaunchedKeeps ==
    ASSUME PwInductive, NEW k \in PwKids, PwLaunched(k)
    PROVE  PwInductive'
<1> DEFINE i == pwKid[k].item
<1>1. /\ pwMaking = k /\ pwMaking' = PwNone /\ UNCHANGED <<pwMay, pwLife, pwTodo>>
      /\ i \in PwItems /\ pwItem[i] # "running" /\ pwKid[k].state = "making"
  BY PwDistinct DEF PwLaunched, PwLaunchOnly, PwInductive, PwMade
<1>2. PICK state \in {"live", "stray"} : PwPut(k, state)
  BY DEF PwLaunched
<1>3. /\ pwKid'[k].state = state /\ pwKid'[k].item = i /\ pwKid'[k].life = pwKid[k].life
      /\ \A l \in PwKids \ {k} : pwKid'[l] = pwKid[l]
  BY <1>2 DEF PwPut, PwInductive, PwTyped
<1>4. \/ /\ pwItem[i] = "pending" /\ pwItem' = [pwItem EXCEPT ![i] = "running"]
         /\ pwChild' = [pwChild EXCEPT ![i] = k]
      \/ /\ pwItem[i] # "pending" /\ UNCHANGED <<pwItem, pwChild>> /\ pwKid'[k].state = "stray"
  BY <1>1 DEF PwLaunched, PwPut, PwInductive, PwTyped
<1>5. PwTyped' BY <1>1, <1>2, <1>4 DEF PwInductive, PwTyped, PwPut, PwKidStates, PwItemStates
<1>6. \A j \in PwItems \ {i} : pwItem'[j] = pwItem[j] /\ pwChild'[j] = pwChild[j]
  BY <1>4 DEF PwInductive, PwTyped
<1>7. PwMade' BY <1>1, <1>2, <1>3, PwDistinct DEF PwInductive, PwMade
<1>8. PwMeant'
  <2>1. \A t \in pwTodo : t[1] \in PwItems \ {i}
    BY <1>1, PwDistinct DEF PwInductive, PwMeant, PwTyped
  <2> QED BY <1>1, <1>3, <1>6, <2>1, PwDistinct DEF PwInductive, PwMeant
<1>9. PwPast'
  <2>1. pwItem'[i] # "pending" BY <1>4, <1>1 DEF PwInductive, PwTyped
  <2>2. \A l \in PwKids : pwKid'[l].item = pwKid[l].item /\ pwKid'[l].life = pwKid[l].life BY <1>3
  <2>3. \A l \in PwKids \ {k} : pwMaking # l BY <1>1
  <2> QED BY <1>1, <1>6, <2>1, <2>2, <2>3 DEF PwInductive, PwPast, PwTyped
<1>10. PwRecorded'
  <2> SUFFICES ASSUME "revive" \notin pwMay, NEW l \in PwKids, pwKid'[l].state \in {"live", "stopping"}
               PROVE  /\ pwKid'[l].item \in PwItems
                      /\ pwItem'[pwKid'[l].item] = "running" /\ pwChild'[pwKid'[l].item] = l
    BY <1>1 DEF PwRecorded
  <2>1. CASE l = k BY <1>1, <1>3, <1>4, <2>1 DEF PwInductive, PwTyped
  <2>2. CASE l # k
    BY <1>1, <1>3, <1>6, <2>2 DEF PwInductive, PwRecorded
  <2> QED BY <2>1, <2>2
<1>11. PwLivesApart'
  <2>1. \A l \in PwKids : pwKid'[l].item = pwKid[l].item /\ pwKid'[l].life = pwKid[l].life BY <1>3
  <2> QED BY <2>1 DEF PwInductive, PwLivesApart
<1> QED BY <1>5, <1>7, <1>8, <1>9, <1>10, <1>11 DEF PwInductive

\* A launch that brings no child, for the limit or an error.
LEMMA RefusedKeeps ==
    ASSUME PwInductive, NEW k \in PwKids, PwLimit(k) \/ PwFailed(k)
    PROVE  PwInductive'
<1> DEFINE i == pwKid[k].item
<1>1. /\ pwMaking = k /\ pwMaking' = PwNone /\ UNCHANGED <<pwMay, pwLife, pwChild>>
      /\ pwTodo' \subseteq pwTodo /\ pwKid' = [pwKid EXCEPT ![k] = PwIdle]
  BY DEF PwLimit, PwFailed, PwLaunchOnly
<1>2. i \in PwItems /\ pwItem[i] # "running" BY <1>1, PwDistinct DEF PwInductive, PwMade
<1>3. pwItem' = pwItem \/ pwItem' = [pwItem EXCEPT ![i] = "failed"]
  BY DEF PwLimit, PwFailed
<1>4. pwKid'[k] = PwIdle /\ \A l \in PwKids \ {k} : pwKid'[l] = pwKid[l]
  BY <1>1 DEF PwInductive, PwTyped
<1>5. PwTyped'
  BY <1>1, <1>3 DEF PwInductive, PwTyped, PwIdle, PwKidStates, PwItemStates, PwTerminal
<1>6. \A j \in PwItems : pwItem'[j] \in {pwItem[j], "failed"} /\ (j # i => pwItem'[j] = pwItem[j])
  BY <1>3 DEF PwInductive, PwTyped
<1>7. PwMade' BY <1>1, <1>4, PwDistinct DEF PwInductive, PwMade, PwIdle
<1>8. PwMeant'
  BY <1>1, <1>4, <1>6, PwDistinct DEF PwInductive, PwMeant, PwTyped, PwIdle
<1>9. PwPast' BY <1>1, <1>4, <1>6 DEF PwInductive, PwPast, PwTyped, PwIdle
<1>10. PwRecorded'
  <2> SUFFICES ASSUME "revive" \notin pwMay, NEW l \in PwKids, pwKid'[l].state \in {"live", "stopping"}
               PROVE  /\ pwKid'[l].item \in PwItems
                      /\ pwItem'[pwKid'[l].item] = "running" /\ pwChild'[pwKid'[l].item] = l
    BY <1>1 DEF PwRecorded
  <2>1. l # k BY <1>4 DEF PwIdle
  <2> QED BY <1>1, <1>2, <1>4, <1>6, <2>1 DEF PwInductive, PwRecorded
<1>11. PwLivesApart' BY <1>4 DEF PwInductive, PwLivesApart, PwIdle
<1> QED BY <1>5, <1>7, <1>8, <1>9, <1>10, <1>11 DEF PwInductive

\* Children that end, are signalled, or are revived by the user.
LEMMA KidsKeep ==
    ASSUME PwInductive, UNCHANGED <<pwMay, pwItem, pwChild, pwLife, pwTodo, pwMaking>>,
           pwKid' \in [PwKids -> [state: PwKidStates, item: PwItems \cup {PwNone}, life: Nat]],
           \A k \in PwKids : /\ pwKid'[k].item = pwKid[k].item /\ pwKid'[k].life = pwKid[k].life
                             /\ (pwKid'[k].state = "making") <=> (pwKid[k].state = "making")
                             /\ (pwKid'[k].state = "none") <=> (pwKid[k].state = "none")
                             /\ "revive" \notin pwMay /\ pwKid'[k].state \in {"live", "stopping"} =>
                                  pwKid[k].state \in {"live", "stopping"}
    PROVE  PwInductive'
BY DEF PwInductive, PwTyped, PwMade, PwMeant, PwPast, PwRecorded, PwLivesApart

\* The end of a pass, and of a child, keep it.
LEMMA EndKeeps ==
    ASSUME PwInductive, PwPassEnd \/ (\E k \in PwKids : PwEnds(k) \/ PwRevive(k))
    PROVE  PwInductive'
<1>1. CASE PwPassEnd
  <2>1. pwKid' \in [PwKids -> [state: PwKidStates, item: PwItems \cup {PwNone}, life: Nat]]
    BY <1>1 DEF PwPassEnd, PwInductive, PwTyped, PwKidStates
  <2>2. \A k \in PwKids :
          pwKid'[k] = pwKid[k]
          \/ (pwKid[k].state = "live" /\ pwKid'[k] = [pwKid[k] EXCEPT !.state = "stopping"])
    BY <1>1 DEF PwPassEnd
  <2>3. \A k \in PwKids : /\ pwKid'[k].item = pwKid[k].item /\ pwKid'[k].life = pwKid[k].life
                          /\ (pwKid'[k].state = "making") <=> (pwKid[k].state = "making")
                          /\ (pwKid'[k].state = "none") <=> (pwKid[k].state = "none")
                          /\ pwKid'[k].state \in {"live", "stopping"} =>
                               pwKid[k].state \in {"live", "stopping"}
    <3> SUFFICES ASSUME NEW k \in PwKids, pwKid[k].state = "live",
                        pwKid'[k] = [pwKid[k] EXCEPT !.state = "stopping"]
                 PROVE  /\ pwKid'[k].item = pwKid[k].item /\ pwKid'[k].life = pwKid[k].life
                        /\ pwKid'[k].state = "stopping"
      BY <2>2
    <3>1. pwKid[k] \in [state: PwKidStates, item: PwItems \cup {PwNone}, life: Nat]
      BY DEF PwInductive, PwTyped
    <3> QED BY <3>1
  <2>4. UNCHANGED <<pwMay, pwItem, pwChild, pwLife, pwTodo, pwMaking>>
    BY <1>1 DEF PwPassEnd, pwStore
  <2> QED BY <2>1, <2>3, <2>4, KidsKeep
<1>2. ASSUME NEW k \in PwKids, PwEnds(k) \/ PwRevive(k) PROVE PwInductive'
  <2>1. PICK state \in PwTerminal \cup {"live"} :
          PwPut(k, state) /\ (state = "live" => "revive" \in pwMay)
    BY <1>2 DEF PwEnds, PwRevive, PwTerminal
  <2>2. pwKid[k].state \notin {"making", "none"} BY <1>2 DEF PwEnds, PwRevive
  <2>3. pwKid' \in [PwKids -> [state: PwKidStates, item: PwItems \cup {PwNone}, life: Nat]]
    BY <2>1 DEF PwPut, PwInductive, PwTyped, PwKidStates
  <2>4. /\ pwKid'[k].state = state /\ pwKid'[k].item = pwKid[k].item /\ pwKid'[k].life = pwKid[k].life
        /\ \A l \in PwKids \ {k} : pwKid'[l] = pwKid[l]
    BY <2>1 DEF PwPut, PwInductive, PwTyped
  <2>5. UNCHANGED <<pwMay, pwItem, pwChild, pwLife, pwTodo, pwMaking>>
    BY <1>2 DEF PwEnds, PwRevive, pwStore, pwPass
  <2> QED BY <2>1, <2>2, <2>3, <2>4, <2>5, KidsKeep DEF PwTerminal
<1> QED BY <1>1, <1>2

\* An amendment: one item that does not run is taken away, or begins a new life.
LEMMA AmendKeeps ==
    ASSUME PwInductive, NEW i \in PwItems, PwRemove(i) \/ PwRenew(i)
    PROVE  PwInductive'
<1>1. /\ UNCHANGED <<pwMay, pwKid, pwTodo, pwMaking>> /\ pwItem[i] # "running"
      /\ pwChild' = [pwChild EXCEPT ![i] = PwNone]
  BY DEF PwRemove, PwRenew, PwAmends, PwRequestOnly
<1>2. \/ pwItem' = [pwItem EXCEPT ![i] = "gone"] /\ pwLife' = pwLife
      \/ pwItem' = [pwItem EXCEPT ![i] = "pending"] /\ pwLife' = [pwLife EXCEPT ![i] = @ + 1]
  BY DEF PwRemove, PwRenew
<1>3. /\ pwItem'[i] # "running" /\ pwLife'[i] >= pwLife[i]
      /\ pwItem'[i] = "pending" => pwLife'[i] > pwLife[i]
      /\ \A j \in PwItems \ {i} : pwItem'[j] = pwItem[j] /\ pwLife'[j] = pwLife[j]
                                  /\ pwChild'[j] = pwChild[j]
  BY <1>1, <1>2 DEF PwInductive, PwTyped
<1>4. PwTyped' BY <1>1, <1>2 DEF PwInductive, PwTyped, PwItemStates
<1>5. PwMade' BY <1>1, <1>3 DEF PwInductive, PwMade
<1>6. PwMeant'
  <2>1. \A t \in pwTodo : t[1] \in PwItems /\ t[2] \in Nat BY DEF PwInductive, PwTyped
  <2>2. \A j \in PwItems : pwLife[j] \in Nat /\ pwLife'[j] \in Nat /\ pwLife[j] <= pwLife'[j]
    BY <1>3, <1>4 DEF PwInductive, PwTyped
  <2>3. \A t \in pwTodo : t[2] <= pwLife'[t[1]] /\ pwItem'[t[1]] # "running"
    BY <1>3, <2>1, <2>2 DEF PwInductive, PwMeant
  <2> QED BY <1>1, <2>3 DEF PwInductive, PwMeant
<1>7. PwPast'
  BY <1>1, <1>3, <1>4 DEF PwInductive, PwPast, PwTyped
<1>8. PwRecorded' BY <1>1, <1>3 DEF PwInductive, PwRecorded
<1>9. PwLivesApart' BY <1>1 DEF PwInductive, PwLivesApart
<1> QED BY <1>4, <1>5, <1>6, <1>7, <1>8, <1>9 DEF PwInductive

\* A cancel keeps it.
LEMMA CancelKeeps ==
    ASSUME PwInductive, PwCancel
    PROVE  PwInductive'
<1>1. pwItem' = PwDropped /\ UNCHANGED <<pwMay, pwKid, pwTodo, pwMaking, pwChild, pwLife>>
  BY DEF PwCancel, PwRequestOnly
<1>2. /\ PwDropped \in [PwItems -> PwItemStates]
      /\ \A i \in PwItems : /\ PwDropped[i] = "running" <=> pwItem[i] = "running"
                            /\ PwDropped[i] # "pending"
  BY DEF PwDropped, PwInductive, PwTyped, PwItemStates, PwTerminal
<1>3. PwTyped' BY <1>1, <1>2 DEF PwInductive, PwTyped
<1>4. PwMade' BY <1>1, <1>2 DEF PwInductive, PwMade
<1>5. PwMeant' BY <1>1, <1>2 DEF PwInductive, PwMeant, PwTyped
<1>6. PwPast' BY <1>1, <1>2 DEF PwInductive, PwPast, PwTyped
<1>7. PwRecorded' BY <1>1, <1>2 DEF PwInductive, PwRecorded
<1>8. PwLivesApart' BY <1>1 DEF PwInductive, PwLivesApart
<1> QED BY <1>3, <1>4, <1>5, <1>6, <1>7, <1>8 DEF PwInductive

\* A restart keeps it.
LEMMA RestartKeeps ==
    ASSUME PwInductive, PwRestart
    PROVE  PwInductive'
<1>1. /\ UNCHANGED <<pwMay, pwChild, pwLife>> /\ pwTodo' = {} /\ pwMaking' = PwNone
      /\ pwItem' \in {pwItem, PwDropped}
  BY DEF PwRestart
<1>2. pwKid' = [k \in PwKids |->
                  IF k = pwMaking THEN [state |-> "stopped", item |-> PwNone, life |-> 0]
                  ELSE IF pwKid[k].state \in {"live", "stray", "stopping"}
                  THEN [pwKid[k] EXCEPT !.state = "stopped"] ELSE pwKid[k]]
  BY DEF PwRestart
<1>3. \A k \in PwKids :
        /\ pwKid'[k].state \notin {"making", "live", "stopping"}
        /\ pwKid'[k].state = "none" => pwKid'[k].item = PwNone
        /\ pwKid'[k].item # PwNone =>
             k # pwMaking /\ pwKid'[k].item = pwKid[k].item /\ pwKid'[k].life = pwKid[k].life
  BY <1>2 DEF PwInductive, PwTyped, PwMade
<1>4. /\ PwDropped \in [PwItems -> PwItemStates]
      /\ \A i \in PwItems : PwDropped[i] # "pending"
  BY DEF PwDropped, PwInductive, PwTyped, PwItemStates, PwTerminal
<1>5. pwKid' \in [PwKids -> [state: PwKidStates, item: PwItems \cup {PwNone}, life: Nat]]
  BY <1>2 DEF PwInductive, PwTyped, PwKidStates, PwTerminal
<1>6. PwTyped' BY <1>1, <1>4, <1>5 DEF PwInductive, PwTyped
<1>7. PwMade' BY <1>1, <1>3, PwDistinct DEF PwInductive, PwMade
<1>8. PwMeant' BY <1>1 DEF PwMeant
<1>9. PwPast' BY <1>1, <1>3, <1>4, <1>5 DEF PwInductive, PwPast, PwTyped
<1>10. PwRecorded' BY <1>3 DEF PwRecorded
<1>11. PwLivesApart' BY <1>3 DEF PwInductive, PwLivesApart
<1> QED BY <1>6, <1>7, <1>8, <1>9, <1>10, <1>11 DEF PwInductive

\* Nothing is being made while the watcher is not in a pass.
PwResting == pwMaking # PwNone => pwWatch = "launch"

\* A child is made only while the watcher launches.
LEMMA RestingKept == PwResting /\ [PwNext]_pwVars => PwResting'
BY DEF PwResting, PwNext, PwWake, PwIdlePass, PwSettle, PwPassEnd, PwFlush, PwLaunch, PwLaunched,
       PwLimit, PwFailed, PwEnds, PwRevive, PwTurn, PwConfirm, PwCancel, PwRestart, PwRemove, PwRenew,
       PwAmends, PwNotify, PwRequestOnly, PwLaunchOnly, pwStore, pwPass, pwVars

\* Every step keeps the invariant of the watcher.
LEMMA NextKeeps ==
    ASSUME PwInductive, PwResting, [PwNext]_pwVars
    PROVE  PwInductive'
<1>1. CASE PwWake \/ PwIdlePass \/ PwFlush \/ PwTurn \/ PwConfirm \/ UNCHANGED pwVars
  <2>1. UNCHANGED pwOne
    BY <1>1 DEF PwWake, PwIdlePass, PwFlush, PwTurn, PwConfirm, PwRequestOnly, pwStore, pwPass, pwVars,
                pwOne
  <2> QED BY <2>1, PwQuietKeeps
<1>2. CASE PwSettle BY <1>2, SettleKeeps DEF PwSettle, PwResting
<1>3. ASSUME NEW k \in PwKids, PwLaunch(k) \/ PwLaunched(k) \/ PwLimit(k) \/ PwFailed(k)
      PROVE  PwInductive'
  BY <1>3, LaunchKeeps, LaunchedKeeps, RefusedKeeps
<1>4. CASE PwPassEnd \/ (\E k \in PwKids : PwEnds(k) \/ PwRevive(k)) BY <1>4, EndKeeps
<1>5. CASE PwCancel \/ PwRestart BY <1>5, CancelKeeps, RestartKeeps
<1>6. CASE \E i \in PwItems : PwRemove(i) \/ PwRenew(i) BY <1>6, AmendKeeps
<1> QED BY <1>1, <1>2, <1>3, <1>4, <1>5, <1>6 DEF PwNext

\* The invariant is as strong as the property.
LEMMA OneFromInductive == PwInductive => PwOneChild
<1> SUFFICES ASSUME PwInductive, NEW k \in PwKids, NEW l \in PwKids, k # l,
                    pwKid[k].item # PwNone, pwKid[k].item = pwKid[l].item
             PROVE  /\ pwKid[k].life # pwKid[l].life
                    /\ "revive" \notin pwMay =>
                         {pwKid[k].state, pwKid[l].state} \cap (PwTerminal \cup {"stray"}) # {}
  BY DEF PwOneChild
<1>1. pwKid[k].life # pwKid[l].life BY DEF PwInductive, PwLivesApart
<1>2. ASSUME "revive" \notin pwMay,
             pwKid[k].state \notin PwTerminal \cup {"stray"},
             pwKid[l].state \notin PwTerminal \cup {"stray"}
      PROVE  FALSE
  <2>1. pwKid[k].state \in {"none", "making", "live", "stopping"}
        /\ pwKid[l].state \in {"none", "making", "live", "stopping"}
    BY <1>2 DEF PwInductive, PwTyped, PwKidStates
  <2> QED BY <1>2, <2>1, PwDistinct DEF PwInductive, PwMade, PwRecorded
<1> QED BY <1>1, <1>2

\* Two children of one item are never at work together
\* (watcher.py, _reconcile and _launch_item; store.py, mark_running and amend).
THEOREM OneChild == PwSpec => []PwOneChild
<1>1. PwInit => PwInductive /\ PwResting BY PwInitInductive DEF PwInit, PwResting
<1>2. PwInductive /\ PwResting /\ [PwNext]_pwVars => PwInductive' /\ PwResting'
  BY NextKeeps, RestingKept
<1>3. PwInductive => PwOneChild BY OneFromInductive
<1> QED BY <1>1, <1>2, <1>3, PTL DEF PwSpec

\* The end of a child that was written into the list is on its way into the
\* conversation (watcher.py, _note and _schedule_flush).
THEOREM EndsTold == PwSpec => []PwEndsTold
<1>1. PwInit => PwEndsTold BY DEF PwInit, PwEndsTold
<1>2. PwEndsTold /\ [PwNext]_pwVars => PwEndsTold'
  <2> SUFFICES ASSUME PwEndsTold, [PwNext]_pwVars PROVE PwEndsTold' OBVIOUS
  <2>1. CASE PwSettle BY <2>1 DEF PwSettle, PwEndsTold
  <2>2. ASSUME NEW k \in PwKids,
               PwLaunch(k) \/ PwLaunched(k) \/ PwLimit(k) \/ PwFailed(k) \/ PwEnds(k) \/ PwRevive(k)
        PROVE  PwEndsTold'
    BY <2>2 DEF PwLaunch, PwLaunched, PwLimit, PwFailed, PwEnds, PwRevive, PwLaunchOnly, PwEndsTold,
                pwPass, pwBuffer
  <2>3. CASE PwWake \/ PwIdlePass \/ PwPassEnd \/ PwFlush \/ PwRestart \/ UNCHANGED pwVars
    BY <2>3 DEF PwWake, PwIdlePass, PwPassEnd, PwFlush, PwRestart, PwEndsTold, pwPass, pwBuffer, pwVars
  <2>4. CASE PwTurn \/ PwConfirm \/ PwCancel
    BY <2>4 DEF PwTurn, PwConfirm, PwCancel, PwNotify, PwRequestOnly, PwEndsTold, pwBuffer
  <2>5. CASE \E i \in PwItems : PwRemove(i) \/ PwRenew(i)
    BY <2>5 DEF PwRemove, PwRenew, PwAmends, PwNotify, PwRequestOnly, PwEndsTold, pwBuffer
  <2> QED BY <2>1, <2>2, <2>3, <2>4, <2>5 DEF PwNext
<1> QED BY <1>1, <1>2, PTL DEF PwSpec
=============================================================================
