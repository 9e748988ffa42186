------------------------- MODULE OrchestrationProofs -------------------------
(***************************************************************************)
(* The three components in which sessions work for one another: the        *)
(* workflow run, the worker bus and the teams.                             *)
(*                                                                         *)
(* The workflow run, for every graph and every number of drivers, requests *)
(* and restarts.  NeverSilent, decisions taken twice included: a run that  *)
(* says running has a live driver nobody has cancelled.  A cancellation    *)
(* takes the status with it, a driver that starts writes its own status,   *)
(* and the last thing an uncancelled driver does is to mark failed a run   *)
(* it finds running.                                                       *)
(*                                                                         *)
(* OneDriver, EndedIsDead and Decidable, where a request meets no driver   *)
(* that starts or ends: then there is one live driver, it is the one       *)
(* _WF_RUN_TASKS names, while it streams the run is neither paused nor     *)
(* ended, and a run that reads as done before its gate has a driver that   *)
(* is about to park.                                                       *)
(*                                                                         *)
(* The bus and the teams: no accepted subscription to a worker is answered *)
(* twice and none is lost while the process lives, and what a team member  *)
(* has queued is delivered, for every set of subscribers, members and      *)
(* texts and every bound.                                                  *)
(*                                                                         *)
(* The bus.  Where nobody follows the target's progress the hook of a      *)
(* settled turn writes nothing, and the meta holds one-shot subscriptions  *)
(* only.  Each accepted watch is then in exactly one place: in the meta,   *)
(* among the notices in memory, or read.  A crash takes away what is in    *)
(* memory, so that only one direction of the count is left.                *)
(*                                                                         *)
(* The teams.  Only the registered list has entries: it is unregistered    *)
(* when it is found empty, and while a drain holds a list that was dropped *)
(* no new one is made ("rush" leaves that out).  While something is queued *)
(* a coroutine is on its way to the drain that takes it.                   *)
(***************************************************************************)
EXTENDS Integers, WorkflowRun, WorkerBus, TeamDeliver, FiniteSetTheorems,
        FunctionTheorems, SequenceTheorems, TLAPS

----------------------------------------------------------------------------
(* The workflow run.                                                       *)

WfPcs == {"off", "first", "resume", "continue", "at", "in", "again", "parking", "tail", "over",
          "gone"}

WfTyped == wfPc \in [WfDrivers -> WfPcs] /\ wfStatus \in WfRow \cup {"gone"}

\* its task has not ended and was not cancelled
WfActive(d) == WfLive(d) /\ d \notin wfCut

WfInductive ==
    WfTyped /\ (wfStatus = "running" => \E d \in WfDrivers : WfActive(d))

\* The invariant holds at the beginning.
LEMMA InitInductive == WfInit => WfInductive
<1> SUFFICES ASSUME WfInit PROVE WfInductive OBVIOUS
<1>1. 1 \in WfDrivers BY WfNumbers DEF WfDrivers
<1>2. WfTyped BY DEF WfInit, WfTyped, WfPcs, WfRow
<1>3. WfActive(1) BY <1>1 DEF WfInit, WfActive, WfLive
<1> QED BY <1>1, <1>2, <1>3 DEF WfInductive

\* A driver that moves on, and stays alive, keeps a running run driven.
LEMMA MoveKeeps ==
    ASSUME WfInductive, NEW d \in WfDrivers, NEW pc \in WfPcs \ {"off", "gone"},
           WfMove(d, pc), UNCHANGED wfCut, wfStatus' \in WfRow \cup {"gone"},
           wfStatus' = wfStatus \/ wfStatus' # "running" \/ d \notin wfCut
    PROVE  WfInductive'
<1>1. WfTyped' BY DEF WfInductive, WfTyped, WfMove
<1>2. ASSUME wfStatus' = "running" PROVE \E e \in WfDrivers : WfActive(e)'
  <2>1. CASE d \notin wfCut
    <3>1. WfActive(d)' BY <2>1 DEF WfActive, WfLive, WfMove, WfInductive, WfTyped
    <3> QED BY <3>1
  <2>2. CASE wfStatus' = wfStatus /\ d \in wfCut
    <3>1. PICK e \in WfDrivers : WfActive(e) BY <1>2, <2>2 DEF WfInductive
    <3>2. e # d BY <2>2, <3>1 DEF WfActive
    <3>3. WfActive(e)' BY <3>1, <3>2 DEF WfActive, WfLive, WfMove, WfInductive, WfTyped
    <3> QED BY <3>3
  <2> QED BY <1>2, <2>1, <2>2
<1> QED BY <1>1, <1>2 DEF WfInductive

\* A driver that starts, steps, parks, ends or pushes its last events.
LEMMA StepKeeps ==
    ASSUME WfInductive, NEW d \in WfDrivers,
           WfDriverStep(d), ~WfReap(d)
    PROVE  WfInductive'
<1> USE DEF WfSet, WfRow, WfTerminal, WfPausable, WfPcs, WfDrives
<1>0. wfStatus \in WfRow \cup {"gone"} BY DEF WfInductive, WfTyped
<1>1. CASE WfFirst(d)
  <2>1. CASE wfStatus \in WfTerminal
    BY <1>0, <1>1, <2>1, MoveKeeps DEF WfFirst
  <2>2. CASE wfStatus \notin WfTerminal
    BY <1>0, <1>1, <2>2, MoveKeeps DEF WfFirst, WfStarts
  <2> QED BY <2>1, <2>2
<1>2. CASE WfResumed(d)
  <2>1. CASE wfAsk = "human" BY <1>0, <1>2, <2>1, MoveKeeps DEF WfResumed, WfStarts
  <2>2. CASE wfAsk # "human" BY <1>0, <1>2, <2>2, MoveKeeps DEF WfResumed, WfStarts
  <2> QED BY <2>1, <2>2
<1>3. CASE WfContinued(d) BY <1>0, <1>3, MoveKeeps DEF WfContinued, WfStarts
<1>4. CASE WfEnter(d)
  <2>1. CASE d \in wfFlagged BY <1>0, <1>4, <2>1, MoveKeeps DEF WfEnter
  <2>2. CASE d \notin wfFlagged BY <1>0, <1>4, <2>2, MoveKeeps DEF WfEnter
  <2> QED BY <2>1, <2>2
<1>5. CASE WfAskUser(d) BY <1>0, <1>5, MoveKeeps DEF WfAskUser
<1>6. CASE WfExit(d) BY <1>0, <1>6, MoveKeeps DEF WfExit
<1>7. CASE WfPaused(d) BY <1>0, <1>7, MoveKeeps DEF WfPaused, WfEnds
<1>8. CASE WfDone(d) BY <1>0, <1>8, MoveKeeps DEF WfDone, WfEnds
<1>9. CASE WfFailed(d) BY <1>0, <1>9, MoveKeeps DEF WfFailed, WfEnds
<1>10. CASE WfBreaks(d) BY <1>0, <1>10, MoveKeeps DEF WfBreaks, WfEnds
<1>11. CASE WfOver(d) BY <1>0, <1>11, MoveKeeps DEF WfOver
<1> QED BY <1>1, <1>2, <1>3, <1>4, <1>5, <1>6, <1>7, <1>8, <1>9, <1>10, <1>11 DEF WfDriverStep

\* The done callback: an uncancelled driver leaves no running run behind, a
\* cancelled one was not the driver of a running run.
LEMMA ReapKeeps ==
    ASSUME WfInductive, NEW d \in WfDrivers, WfReap(d)
    PROVE  WfInductive'
<1>1. WfTyped'
  BY DEF WfInductive, WfTyped, WfReap, WfMove, WfSet, WfPcs, WfRow, WfTerminal
<1>2. ASSUME wfStatus' = "running" PROVE \E e \in WfDrivers : WfActive(e)'
  <2>1. d \in wfCut /\ wfStatus = "running" BY <1>2 DEF WfReap, WfSet
  <2>2. PICK e \in WfDrivers : WfActive(e) BY <2>1 DEF WfInductive
  <2>3. e # d BY <2>1, <2>2 DEF WfActive
  <2>4. WfActive(e)' BY <2>2, <2>3 DEF WfActive, WfLive, WfReap, WfMove, WfInductive, WfTyped
  <2> QED BY <2>4
<1> QED BY <1>1, <1>2 DEF WfInductive

\* A new driver disturbs no other.
LEMMA SpawnKeeps ==
    ASSUME WfInductive, NEW d \in WfDrivers, NEW as \in WfPcs \ {"off", "gone"},
           WfSpawn(d, as), UNCHANGED wfStatus
    PROVE  WfInductive'
BY MoveKeeps DEF WfSpawn, WfInductive, WfTyped

\* Requests, the poll and a restart keep it.
LEMMA RequestKeeps ==
    ASSUME WfInductive,
           WfResume \/ WfPause \/ WfCancel \/ WfDelete \/ WfPollTick \/ WfRestart \/ WfResumeTarget
    PROVE  WfInductive'
<1> USE DEF WfPcs
<1>1. CASE WfResume BY <1>1, SpawnKeeps DEF WfResume
<1>2. CASE WfPause \/ WfPollTick
  BY <1>2 DEF WfPause, WfPollTick, wfDriver, WfInductive, WfTyped, WfActive, WfLive
<1>3. CASE WfCancel
  BY <1>3 DEF WfCancel, WfSet, WfRow, WfTerminal, WfInductive, WfTyped
<1>4. CASE WfDelete
  BY <1>4 DEF WfDelete, WfRow, WfTerminal, WfInductive, WfTyped
<1>5. CASE WfRestart
  BY <1>5 DEF WfRestart, WfSet, WfOrphaned, WfRow, WfTerminal, WfInductive, WfTyped
<1>6. CASE WfResumeTarget
  <2>1. CASE wfStatus = "gone"
    BY <1>6, <2>1 DEF WfResumeTarget, wfDriver, WfInductive, WfTyped, WfActive, WfLive
  <2>2. CASE wfStatus # "gone" BY <1>6, <2>2, SpawnKeeps DEF WfResumeTarget
  <2> QED BY <2>1, <2>2
<1> QED BY <1>1, <1>2, <1>3, <1>4, <1>5, <1>6

\* Every step keeps it.
LEMMA StepInductive == WfInductive /\ [WfNext]_wfVars => WfInductive'
<1> SUFFICES ASSUME WfInductive, [WfNext]_wfVars PROVE WfInductive' OBVIOUS
<1>1. CASE \E d \in WfDrivers : WfDriverStep(d)
  <2>1. PICK d \in WfDrivers : WfDriverStep(d) BY <1>1
  <2> QED BY <2>1, StepKeeps, ReapKeeps
<1>2. CASE WfResume \/ WfPause \/ WfCancel \/ WfDelete \/ WfPollTick \/ WfRestart
             \/ WfResumeTarget
  BY <1>2, RequestKeeps
<1>3. CASE UNCHANGED wfVars
  BY <1>3 DEF wfVars, wfDriver, WfInductive, WfTyped, WfActive, WfLive
<1> QED BY <1>1, <1>2, <1>3 DEF WfNext

\* A run that says running has a task that will end it
\* (workflows_runs.py, _spawn_run_task and _reconcile_orphan_runs).
THEOREM NeverSilent == WfSpec => []WfNeverSilent
<1>1. WfInductive => WfNeverSilent BY DEF WfInductive, WfNeverSilent, WfActive
<1> QED BY <1>1, InitInductive, StepInductive, PTL DEF WfSpec
-----------------------------------------------------------------------------
(* The drivers of a run where requests keep out of their starts and ends.  *)

WfSingle == \A d, e \in WfDrivers : WfLive(d) /\ WfLive(e) => d = e
WfHeld == \A d \in WfDrivers : WfLive(d) /\ wfStatus # "gone" => wfTask = d
WfServes == \A d \in WfDrivers : WfStreams(d) => wfStatus \in {"running", "done", "gone"}
WfFresh == \A d \in WfDrivers : wfPc[d] = "first" => wfStatus = "running" /\ wfAsk = "no"
WfClear ==
    \A d \in WfDrivers : wfPc[d] \in {"at", "in", "again"} /\ d \notin wfCut => wfAsk = "no"
\* the last step is done and the gate behind it is about to park the run
WfGate ==
    wfBooted = 0 /\ wfAsk # "no" /\ wfStatus = "done" =>
        \E d \in WfDrivers : wfPc[d] = "parking" /\ d \notin wfCut

WfOrderly == WfSingle /\ WfHeld /\ WfServes /\ WfFresh /\ WfClear /\ WfGate
WfOrdered == wfBooted \in Nat /\ (~wfRush => WfOrderly)

\* The order of the drivers holds at the beginning.
LEMMA InitOrdered == WfInit => WfOrdered
<1> SUFFICES ASSUME WfInit PROVE WfOrdered OBVIOUS
<1>1. ASSUME NEW d \in WfDrivers PROVE (WfLive(d) => d = 1) /\ wfPc[d] \in {"first", "off"}
  BY DEF WfInit, WfLive
<1>2. wfTask = 1 /\ wfStatus = "running" /\ wfAsk = "no" /\ wfBooted = 0 BY DEF WfInit
<1> QED
  BY <1>1, <1>2
  DEF WfOrdered, WfOrderly, WfSingle, WfHeld, WfServes, WfStreams, WfFresh, WfClear, WfGate

\* The live driver moves: the others are at rest, so what the run says has to
\* fit this one only.
LEMMA MoveOrdered ==
    ASSUME WfTyped, WfOrdered, ~wfRush, NEW d \in WfDrivers, NEW pc, WfLive(d), WfMove(d, pc),
           UNCHANGED <<wfCut, wfBooted, wfRush>>,
           pc # "first",
           pc # "gone" /\ wfStatus' # "gone" => wfTask' = d,
           pc \in {"at", "in", "again", "parking"} /\ d \notin wfCut =>
               wfStatus' \in {"running", "done", "gone"},
           pc \in {"at", "in", "again"} /\ d \notin wfCut => wfAsk' = "no",
           wfBooted = 0 /\ wfAsk' # "no" /\ wfStatus' = "done" => pc = "parking" /\ d \notin wfCut
    PROVE  WfOrdered'
<1>1. wfPc' = [wfPc EXCEPT ![d] = pc] /\ wfPc \in [WfDrivers -> WfPcs]
  BY DEF WfMove, WfTyped
<1>2. wfPc'[d] = pc BY <1>1
<1>3. ASSUME NEW e \in WfDrivers, e # d PROVE wfPc'[e] \in {"off", "gone"}
  <2>1. ~WfLive(e) BY <1>3 DEF WfOrdered, WfOrderly, WfSingle
  <2> QED BY <1>1, <1>3, <2>1 DEF WfLive
<1>4. ASSUME NEW e \in WfDrivers, WfLive(e)' PROVE e = d
  BY <1>3, <1>4 DEF WfLive
<1>5. ASSUME NEW e \in WfDrivers, WfStreams(e)' PROVE e = d
  BY <1>3, <1>5 DEF WfStreams
<1>6. WfSingle' /\ WfHeld' BY <1>2, <1>4 DEF WfSingle, WfHeld, WfLive
<1>7. WfServes' BY <1>2, <1>5 DEF WfServes, WfStreams
<1>8. WfFresh' /\ WfClear' BY <1>2, <1>3 DEF WfFresh, WfClear
<1>9. WfGate' BY <1>2 DEF WfGate
<1> QED BY <1>6, <1>7, <1>8, <1>9 DEF WfOrdered, WfOrderly

\* What the one live driver is about.
LEMMA DriverKnows ==
    ASSUME WfTyped, WfOrdered, ~wfRush, NEW d \in WfDrivers, WfLive(d)
    PROVE  /\ wfStatus # "gone" => wfTask = d
           /\ WfStreams(d) => wfStatus \in {"running", "done", "gone"}
           /\ wfPc[d] = "first" => wfStatus = "running" /\ wfAsk = "no"
           /\ wfPc[d] \in {"at", "in", "again"} /\ d \notin wfCut => wfAsk = "no"
           /\ wfBooted = 0 /\ wfAsk # "no" /\ wfStatus = "done" =>
                  wfPc[d] = "parking" /\ d \notin wfCut
<1>1. WfHeld /\ WfServes /\ WfFresh /\ WfClear BY DEF WfOrdered, WfOrderly
<1>2. ASSUME wfBooted = 0, wfAsk # "no", wfStatus = "done"
      PROVE  wfPc[d] = "parking" /\ d \notin wfCut
  <2>1. PICK e \in WfDrivers : wfPc[e] = "parking" /\ e \notin wfCut
    BY <1>2 DEF WfOrdered, WfOrderly, WfGate
  <2>2. e = d BY <2>1 DEF WfLive, WfOrdered, WfOrderly, WfSingle
  <2> QED BY <2>1, <2>2
<1> QED BY <1>1, <1>2 DEF WfHeld, WfServes, WfFresh, WfClear

\* A driver's step keeps it, when requests keep out of its ends.
LEMMA StepOrdered ==
    ASSUME WfTyped, WfOrdered, ~wfRush, NEW d \in WfDrivers, WfDriverStep(d)
    PROVE  WfOrdered'
<1> USE DEF WfSet, WfRow, WfTerminal, WfDrives, WfDriverOnly
<1>0. wfStatus \in WfRow \cup {"gone"} BY DEF WfTyped
<1>1. CASE WfFirst(d)
  <2>1. WfLive(d) BY <1>1 DEF WfFirst, WfLive
  <2>2. wfStatus = "running" /\ wfAsk = "no" BY <1>1, <2>1, DriverKnows DEF WfFirst
  <2>3. WfMove(d, "at") /\ UNCHANGED <<wfCut, wfTask, wfStatus, wfAsk, wfBooted, wfRush>>
    BY <1>1, <2>2 DEF WfFirst, WfStarts
  <2> QED BY <2>1, <2>2, <2>3, MoveOrdered, DriverKnows
<1>2. CASE WfResumed(d) \/ WfContinued(d)
  <2>1. WfLive(d) BY <1>2 DEF WfResumed, WfContinued, WfLive
  <2>2. PICK pc \in {"again", "in", "at"} : WfMove(d, pc)
    BY <1>2 DEF WfResumed, WfContinued, WfStarts
  <2>3. /\ UNCHANGED <<wfCut, wfTask, wfBooted, wfRush>> /\ wfAsk' = "no"
        /\ wfStatus' = IF wfStatus = "gone" THEN "gone" ELSE "running"
    BY <1>0, <1>2 DEF WfResumed, WfContinued, WfStarts
  <2> QED BY <2>1, <2>2, <2>3, MoveOrdered, DriverKnows
<1>3. CASE WfEnter(d) \/ WfAskUser(d)
  <2>1. WfLive(d) /\ WfStreams(d) BY <1>3 DEF WfEnter, WfAskUser, WfLive, WfStreams
  <2>2. /\ UNCHANGED <<wfCut, wfTask, wfStatus, wfBooted, wfRush>> /\ d \notin wfCut
        /\ \/ WfMove(d, "parking")
           \/ WfMove(d, "in") /\ wfAsk' = wfAsk /\ wfPc[d] = "at"
    BY <1>3 DEF WfEnter, WfAskUser
  <2>3. CASE WfMove(d, "parking") BY <2>1, <2>2, <2>3, MoveOrdered, DriverKnows
  <2>4. CASE WfMove(d, "in") /\ wfAsk' = wfAsk /\ wfPc[d] = "at"
    BY <2>1, <2>2, <2>4, MoveOrdered, DriverKnows
  <2> QED BY <2>2, <2>3, <2>4
<1>4. CASE WfExit(d)
  <2>1. WfLive(d) /\ WfStreams(d) BY <1>4 DEF WfExit, WfLive, WfStreams
  <2>2. /\ WfMove(d, "at") /\ UNCHANGED <<wfCut, wfTask, wfAsk, wfBooted, wfRush>>
        /\ wfStatus' = wfStatus \/ wfStatus' = "done"
        /\ wfPc[d] \in {"in", "again"} /\ d \notin wfCut
        /\ wfStatus' = "gone" <=> wfStatus = "gone"
    BY <1>4 DEF WfExit
  <2> QED BY <2>1, <2>2, MoveOrdered, DriverKnows
<1>5. CASE WfPaused(d)
  <2>1. WfLive(d) /\ WfStreams(d) BY <1>5 DEF WfPaused, WfLive, WfStreams
  <2>2. /\ WfMove(d, "tail") /\ UNCHANGED <<wfCut, wfTask, wfBooted, wfRush>>
        /\ wfStatus' = IF wfStatus \in WfPausable THEN "paused" ELSE wfStatus
    BY <1>5 DEF WfPaused, WfEnds
  <2>3. wfStatus' # "done" /\ (wfStatus' = "gone" <=> wfStatus = "gone")
    BY <2>2 DEF WfPausable
  <2> QED BY <2>1, <2>2, <2>3, MoveOrdered, DriverKnows
<1>6. CASE WfDone(d) \/ WfFailed(d) \/ WfBreaks(d)
  <2>1. WfLive(d) BY <1>6 DEF WfDone, WfFailed, WfBreaks, WfLive
  <2>2. /\ WfMove(d, "tail") /\ UNCHANGED <<wfCut, wfTask, wfAsk, wfBooted, wfRush>>
        /\ wfStatus' = "gone" <=> wfStatus = "gone"
        /\ wfStatus' = "failed" \/ wfStatus' = wfStatus \/ wfPc[d] \in {"at", "in", "again"}
        /\ wfPc[d] # "parking" /\ d \notin wfCut
    BY <1>0, <1>6 DEF WfDone, WfFailed, WfBreaks, WfEnds
  <2> QED BY <2>1, <2>2, MoveOrdered, DriverKnows
<1>7. CASE WfOver(d)
  <2>1. /\ WfLive(d) /\ WfMove(d, "over") /\ (wfPc[d] = "tail" \/ d \in wfCut)
        /\ UNCHANGED <<wfCut, wfTask, wfAsk, wfStatus, wfBooted, wfRush>>
    BY <1>7 DEF WfOver
  <2> QED BY <2>1, MoveOrdered, DriverKnows
<1>8. CASE WfReap(d)
  <2>1. /\ WfLive(d) /\ WfMove(d, "gone") /\ wfPc[d] = "over"
        /\ UNCHANGED <<wfCut, wfAsk, wfBooted, wfRush>>
        /\ wfStatus' = wfStatus \/ wfStatus' = "failed"
    BY <1>8 DEF WfReap, WfLive
  <2> QED BY <2>1, MoveOrdered, DriverKnows
<1> QED BY <1>1, <1>2, <1>3, <1>4, <1>5, <1>6, <1>7, <1>8 DEF WfDriverStep

\* A driver is started where none lives.
LEMMA SpawnOrdered ==
    ASSUME WfTyped, WfOrdered, ~wfRush, WfQuiet, NEW d \in WfDrivers,
           NEW as \in {"resume", "continue"}, WfSpawn(d, as),
           UNCHANGED <<wfStatus, wfAsk, wfBooted, wfRush>>
    PROVE  WfOrdered'
<1>1. /\ wfPc' = [wfPc EXCEPT ![d] = as] /\ wfPc \in [WfDrivers -> WfPcs]
      /\ wfTask' = d /\ wfCut' = wfCut
  BY DEF WfSpawn, WfMove, WfTyped
<1>2. ASSUME NEW e \in WfDrivers PROVE wfPc'[e] = IF e = d THEN as ELSE wfPc[e]
  BY <1>1
<1>3. ASSUME NEW e \in WfDrivers PROVE wfPc[e] \in {"off", "gone"}
  BY DEF WfQuiet, WfLive
<1>4. ~(wfBooted = 0 /\ wfAsk # "no" /\ wfStatus = "done")
  BY <1>3 DEF WfOrdered, WfOrderly, WfGate
<1> QED
  BY <1>1, <1>2, <1>3, <1>4
  DEF WfOrdered, WfOrderly, WfSingle, WfHeld, WfLive, WfServes, WfStreams, WfFresh, WfClear, WfGate

\* A request that stops what streams.
LEMMA CancelOrdered ==
    ASSUME WfTyped, WfOrdered, ~wfRush, WfCancel \/ WfDelete
    PROVE  WfOrdered'
<1>1. /\ UNCHANGED <<wfPc, wfBooted, wfRush>> /\ wfCut \subseteq wfCut'
  BY DEF WfCancel, WfDelete, WfCancelTask
<1>2. ASSUME NEW d \in WfDrivers, WfLive(d) PROVE WfStreams(d)
  <2>1. PICK e \in WfDrivers : WfStreams(e)
    BY <1>2 DEF WfCancel, WfDelete, WfAsked, WfQuiet
  <2>2. e = d BY <1>2, <2>1 DEF WfStreams, WfLive, WfOrdered, WfOrderly, WfSingle
  <2> QED BY <2>1, <2>2
<1>3. WfSingle' BY <1>1 DEF WfSingle, WfLive, WfOrdered, WfOrderly
<1>4. WfFresh' BY <1>1, <1>2 DEF WfFresh, WfLive, WfStreams
<1>5. CASE WfCancel
  <2>1. wfStatus' = IF wfStatus = "gone" THEN "gone" ELSE "cancelled"
    BY <1>5 DEF WfCancel, WfSet, WfTyped, WfRow, WfTerminal
  <2>2. UNCHANGED <<wfTask, wfAsk>> BY <1>5 DEF WfCancel
  <2>3. ASSUME NEW d \in WfDrivers, WfStreams(d)' PROVE wfStatus = "gone"
    <3>1. WfLive(d) BY <1>1, <2>3 DEF WfStreams, WfLive
    <3>2. wfStatus # "gone" => wfTask = d
      BY <3>1 DEF WfOrdered, WfOrderly, WfHeld
    <3>3. d # 0 BY DEF WfDrivers
    <3> QED BY <1>5, <2>3, <3>1, <3>2, <3>3 DEF WfCancel, WfCancelTask, WfStreams
  <2>4. WfHeld' BY <1>1, <2>1, <2>2 DEF WfHeld, WfLive, WfOrdered, WfOrderly
  <2>5. WfServes' BY <2>1, <2>3 DEF WfServes
  <2>6. WfClear' /\ WfGate' BY <1>1, <2>1, <2>2 DEF WfClear, WfGate, WfOrdered, WfOrderly
  <2> QED BY <1>1, <1>3, <1>4, <2>4, <2>5, <2>6 DEF WfOrdered, WfOrderly
<1>6. CASE WfDelete
  <2>1. wfStatus' = "gone" /\ wfAsk' = "no" BY <1>6 DEF WfDelete
  <2> QED
    BY <1>1, <1>3, <1>4, <2>1 DEF WfOrdered, WfOrderly, WfHeld, WfServes, WfClear, WfGate
<1> QED BY <1>5, <1>6

\* So do requests, the poll and a restart.
LEMMA RequestOrdered ==
    ASSUME WfTyped, WfOrdered, ~wfRush,
           WfResume \/ WfPause \/ WfCancel \/ WfDelete \/ WfPollTick \/ WfRestart \/ WfResumeTarget
    PROVE  WfOrdered'
<1>1. CASE WfResume
  <2>1. WfQuiet
    BY <1>1 DEF WfResume, WfResumable, WfAsked, WfOrdered, WfOrderly, WfServes
  <2> QED BY <1>1, <2>1, SpawnOrdered DEF WfResume
<1>2. CASE WfPause \/ WfPollTick
  BY <1>2
  DEF WfPause, WfPollTick, wfDriver, WfOrdered, WfOrderly, WfSingle, WfHeld, WfLive, WfServes,
      WfStreams, WfFresh, WfClear, WfGate
<1>3. CASE WfCancel \/ WfDelete BY <1>3, CancelOrdered
<1>4. CASE WfRestart
  <2>1. ASSUME NEW d \in WfDrivers PROVE wfPc'[d] \in {"off", "gone"}
    BY <1>4 DEF WfRestart
  <2>2. wfBooted' \in Nat /\ wfBooted' # 0 BY <1>4 DEF WfRestart, WfOrdered
  <2> QED
    BY <2>1, <2>2
    DEF WfOrdered, WfOrderly, WfSingle, WfHeld, WfLive, WfServes, WfStreams, WfFresh, WfClear,
        WfGate
<1>5. CASE WfResumeTarget
  <2>1. CASE wfStatus = "gone"
    BY <1>5, <2>1
    DEF WfResumeTarget, wfDriver, WfOrdered, WfOrderly, WfSingle, WfHeld, WfLive, WfServes,
        WfStreams, WfFresh, WfClear, WfGate
  <2>2. CASE wfStatus # "gone" BY <1>5, <2>2, SpawnOrdered DEF WfResumeTarget
  <2> QED BY <2>1, <2>2
<1> QED BY <1>1, <1>2, <1>3, <1>4, <1>5

\* The order holds in every reachable state.
LEMMA AlwaysOrdered == WfSpec => [](WfTyped /\ WfOrdered)
<1>1. WfInit => WfInductive /\ WfOrdered BY InitInductive, InitOrdered
<1>2. WfInductive /\ WfOrdered /\ [WfNext]_wfVars => WfOrdered'
  <2> SUFFICES ASSUME WfInductive, WfOrdered, [WfNext]_wfVars PROVE WfOrdered' OBVIOUS
  <2>0. WfTyped BY DEF WfInductive
  <2>1. CASE wfRush
    <3>1. wfRush' = wfRush
      BY DEF WfNext, WfDriverStep, WfDriverOnly, WfFirst, WfResumed, WfContinued, WfEnter,
             WfAskUser, WfExit, WfPaused, WfDone, WfFailed, WfBreaks, WfEnds, WfOver, WfReap,
             WfResume, WfPause, WfCancel, WfDelete, WfPollTick, WfRestart, WfResumeTarget, wfVars
    <3>2. wfBooted' = wfBooted \/ wfBooted' = wfBooted + 1
      BY DEF WfNext, WfDriverStep, WfDriverOnly, WfFirst, WfResumed, WfContinued, WfEnter,
             WfAskUser, WfExit, WfPaused, WfDone, WfFailed, WfBreaks, WfEnds, WfOver, WfReap,
             WfResume, WfPause, WfCancel, WfDelete, WfPollTick, WfRestart, WfResumeTarget, wfVars
    <3> QED BY <2>1, <3>1, <3>2 DEF WfOrdered
  <2>2. CASE ~wfRush /\ \E d \in WfDrivers : WfDriverStep(d) BY <2>0, <2>2, StepOrdered
  <2>3. CASE ~wfRush /\ (WfResume \/ WfPause \/ WfCancel \/ WfDelete \/ WfPollTick \/ WfRestart
                         \/ WfResumeTarget)
    BY <2>0, <2>3, RequestOrdered
  <2>4. CASE UNCHANGED wfVars
    BY <2>4
    DEF wfVars, wfDriver, WfOrdered, WfOrderly, WfSingle, WfHeld, WfLive, WfServes, WfStreams,
        WfFresh, WfClear, WfGate
  <2> QED BY <2>1, <2>2, <2>3, <2>4 DEF WfNext
<1>3. WfInductive => WfTyped BY DEF WfInductive
<1> QED BY <1>1, <1>2, <1>3, StepInductive, PTL DEF WfSpec

\* Where no request meets a driver that starts or ends, the graph is executed
\* by one driver at a time (workflows_runs.py, _spawn_run_task).
THEOREM OneDriver == WfSpec => []WfOneDriver
<1>1. WfOrdered => WfOneDriver
  BY DEF WfOrdered, WfOrderly, WfSingle, WfOneDriver, WfStreams, WfLive
<1> QED BY <1>1, AlwaysOrdered, PTL

\* A run that failed, was cancelled or was interrupted executes no step
\* (workflows.py, cancel_workflow_run_endpoint; workflows_runs.py).
THEOREM EndedIsDead == WfSpec => []WfEndedIsDead
<1>1. WfOrdered => WfEndedIsDead
  BY DEF WfOrdered, WfOrderly, WfServes, WfEndedIsDead, WfTerminal
<1> QED BY <1>1, AlwaysOrdered, PTL

\* A run that waits for a decision behind its last step does not read as done
\* (store.py, update_step; workflows_runs.py, the "paused" event).
THEOREM Decidable == WfSpec => []WfDecidable
<1>1. WfOrdered => WfDecidable
  <2> SUFFICES ASSUME WfOrdered, ~wfRush, wfBooted = 0, wfAsk # "no", WfQuiet
               PROVE  wfStatus # "done"
    BY DEF WfDecidable
  <2>1. \A d \in WfDrivers : wfPc[d] # "parking" BY DEF WfQuiet, WfLive
  <2> QED BY <2>1 DEF WfOrdered, WfOrderly, WfGate
<1> QED BY <1>1, AlwaysOrdered, PTL

----------------------------------------------------------------------------
(* The worker bus.                                                         *)

WbEntries == [who : WbSubscribers, want : {"terminal", "digest"}]

WbTyped ==
    /\ wbMeta \subseteq WbEntries /\ wbRead \subseteq WbEntries
    /\ wbHook \in BOOLEAN
    /\ wbCarry \in [WbSubscribers -> Nat]
    /\ wbAsked \in [WbSubscribers -> Nat]
    /\ wbTold \in [WbSubscribers -> Nat]

\* nobody follows the target's progress
WbQuiet ==
    "digest" \notin wbMay =>
        ~wbHook /\ \A e \in wbMeta : e.want = "terminal"

\* the watches of s that were accepted, by where they are
WbPlaces(s) == wbTold[s] + wbCarry[s] + (IF s \in WbWaiting(wbMeta) THEN 1 ELSE 0)

WbCounted ==
    "digest" \notin wbMay => \A s \in WbSubscribers :
        /\ WbPlaces(s) <= wbAsked[s]
        /\ "crash" \notin wbMay => WbPlaces(s) >= wbAsked[s]

WbInductive == WbTyped /\ WbQuiet /\ WbCounted
-----------------------------------------------------------------------------
\* A subscriber waits for the end if the meta holds its entry.
LEMMA WbWaitingIs ==
    ASSUME NEW s, NEW subs, subs \subseteq WbEntries
    PROVE  s \in WbWaiting(subs) <=> WbEntry(s, "terminal") \in subs
  <1>1. ASSUME s \in WbWaiting(subs) PROVE WbEntry(s, "terminal") \in subs
    <2>1. PICK e \in subs : e.want = "terminal" /\ e.who = s
      BY <1>1 DEF WbWaiting, WbOf
    <2>2. e = [who |-> e.who, want |-> e.want]
      BY DEF WbEntries
    <2> QED BY <2>1, <2>2 DEF WbEntry
  <1>2. ASSUME WbEntry(s, "terminal") \in subs PROVE s \in WbWaiting(subs)
    BY <1>2 DEF WbWaiting, WbOf, WbEntry
  <1> QED BY <1>1, <1>2

\* Initially nothing was asked for and nobody is told.
LEMMA WbInitInductive == WbInit => WbInductive
  <1> SUFFICES ASSUME WbInit PROVE WbInductive
    OBVIOUS
  <1>1. WbTyped /\ WbQuiet
    BY DEF WbInit, WbTyped, WbQuiet
  <1>2. ASSUME NEW s \in WbSubscribers PROVE WbPlaces(s) = 0 /\ wbAsked[s] = 0
    <2>1. s \notin WbWaiting(wbMeta)
      BY DEF WbInit, WbWaiting, WbOf
    <2> QED BY <2>1 DEF WbInit, WbPlaces
  <1>3. WbCounted
    BY <1>2 DEF WbCounted
  <1> QED BY <1>1, <1>3 DEF WbInductive

\* A watch adds one entry, or one answer: the count of its subscriber grows
\* with what was accepted, unless it is the renewal of an entry.
LEMMA WbWatchKeeps ==
    ASSUME WbInductive, NEW s \in WbSubscribers, WbWatch(s)
    PROVE  WbInductive'
  <1>1. WbTyped'
    BY DEF WbInductive, WbTyped, WbWatch, WbEntry, WbEntries
  <1>2. WbQuiet'
    BY DEF WbInductive, WbQuiet, WbWatch, WbEntry
  <1>3. ASSUME "digest" \notin wbMay', NEW t \in WbSubscribers
        PROVE  /\ WbPlaces(t)' <= wbAsked'[t]
               /\ "crash" \notin wbMay' => WbPlaces(t)' >= wbAsked'[t]
    <2>1. /\ WbPlaces(t) <= wbAsked[t]
          /\ "crash" \notin wbMay => WbPlaces(t) >= wbAsked[t]
          /\ wbMay' = wbMay /\ wbCarry' = wbCarry
      BY <1>3 DEF WbInductive, WbCounted, WbWatch
    <2>2. /\ wbCarry[t] \in Nat /\ wbAsked[t] \in Nat /\ wbTold[t] \in Nat
          /\ wbAsked[s] \in Nat /\ wbTold[s] \in Nat
          /\ wbAsked \in [WbSubscribers -> Nat] /\ wbTold \in [WbSubscribers -> Nat]
      BY DEF WbInductive, WbTyped
    <2>3. CASE wbEnded
      BY <2>1, <2>2, <2>3 DEF WbWatch, WbPlaces
    <2>4. CASE ~wbEnded
      <3>1. t \in WbWaiting(wbMeta') <=> t = s \/ t \in WbWaiting(wbMeta)
        <4>1. wbMeta \subseteq WbEntries /\ wbMeta' \subseteq WbEntries
          BY <1>1 DEF WbInductive, WbTyped
        <4>2. WbEntry(t, "terminal") \in wbMeta' <=> t = s \/ WbEntry(t, "terminal") \in wbMeta
          BY <2>4 DEF WbWatch, WbEntry
        <4> QED BY <4>1, <4>2, WbWaitingIs
      <3>2. s \in WbWaiting(wbMeta) <=> WbEntry(s, "terminal") \in wbMeta
        BY WbWaitingIs DEF WbInductive, WbTyped
      <3>3. /\ wbTold' = wbTold
            /\ wbAsked' = IF WbEntry(s, "terminal") \in wbMeta THEN wbAsked
                          ELSE [wbAsked EXCEPT ![s] = @ + 1]
        BY <2>4 DEF WbWatch
      <3>4. CASE t = s
        BY <2>1, <2>2, <3>1, <3>2, <3>3, <3>4 DEF WbPlaces
      <3>5. CASE t # s
        BY <2>1, <2>2, <3>1, <3>3, <3>5 DEF WbPlaces
      <3> QED BY <3>4, <3>5
    <2> QED BY <2>3, <2>4
  <1> QED BY <1>1, <1>2, <1>3 DEF WbInductive, WbCounted

\* The digest subscription and its hook are beside the point: they need
\* "digest", which WbQuiet and WbCounted exclude.
LEMMA WbDigestKeeps ==
    ASSUME WbInductive,
           (\E s \in WbSubscribers : WbWatchDigest(s)) \/ WbHookRead \/ WbHookWrite
    PROVE  WbInductive'
  <1>1. /\ wbMay' = wbMay /\ wbCarry' = wbCarry /\ wbAsked' = wbAsked /\ wbTold' = wbTold
    BY DEF WbWatchDigest, WbHookRead, WbHookWrite, wbHistory
  <1>2. "digest" \in wbMay
    BY DEF WbWatchDigest, WbHookRead, WbHookWrite, WbInductive, WbQuiet, WbOf
  <1>3. wbMeta' \subseteq WbEntries /\ wbRead' \subseteq WbEntries /\ wbHook' \in BOOLEAN
    <2>1. CASE \E s \in WbSubscribers : WbWatchDigest(s)
      BY <2>1 DEF WbWatchDigest, WbInductive, WbTyped, WbEntry, WbEntries
    <2>2. CASE WbHookRead \/ WbHookWrite
      BY <2>2 DEF WbHookRead, WbHookWrite, WbInductive, WbTyped
    <2> QED BY <2>1, <2>2
  <1> QED BY <1>1, <1>2, <1>3 DEF WbInductive, WbTyped, WbQuiet, WbCounted

\* The target ends, or comes back: the subscriptions stay.
LEMMA WbEndKeeps ==
    ASSUME WbInductive, WbEnd \/ WbRevive \/ UNCHANGED wbVars
    PROVE  WbInductive'
  <1>1. /\ wbMay' = wbMay /\ wbMeta' = wbMeta /\ wbHook' = wbHook /\ wbRead' = wbRead
        /\ wbCarry' = wbCarry /\ wbAsked' = wbAsked /\ wbTold' = wbTold
    BY DEF WbEnd, WbRevive, wbVars, wbHistory
  <1> QED BY <1>1 DEF WbInductive, WbTyped, WbQuiet, WbCounted, WbPlaces, WbWaiting, WbOf

\* Every one-shot entry becomes a notice.
LEMMA WbNotifyKeeps ==
    ASSUME WbInductive, WbNotify
    PROVE  WbInductive'
  <1>1. /\ wbMay' = wbMay /\ wbHook' = wbHook /\ wbRead' = wbRead
        /\ wbAsked' = wbAsked /\ wbTold' = wbTold
        /\ wbMeta' = WbOf(wbMeta, "digest")
        /\ wbCarry' = [s \in WbSubscribers |->
                          wbCarry[s] + IF s \in WbWaiting(wbMeta) THEN 1 ELSE 0]
    BY DEF WbNotify, WbKept, WbFire, wbHistory
  <1>2. WbTyped'
    BY <1>1 DEF WbInductive, WbTyped, WbOf
  <1>3. "digest" \notin wbMay => wbMeta' = {}
    BY <1>1 DEF WbInductive, WbQuiet, WbOf
  <1>4. WbQuiet'
    BY <1>1, <1>3 DEF WbInductive, WbQuiet
  <1>5. ASSUME "digest" \notin wbMay, NEW s \in WbSubscribers
        PROVE  WbPlaces(s)' = WbPlaces(s)
    <2>1. s \notin WbWaiting(wbMeta')
      BY <1>3, <1>5 DEF WbWaiting, WbOf
    <2>2. wbTold[s] \in Nat /\ wbCarry[s] \in Nat
      BY DEF WbInductive, WbTyped
    <2> QED BY <1>1, <2>1, <2>2 DEF WbPlaces
  <1>6. WbCounted'
    BY <1>1, <1>5 DEF WbInductive, WbCounted
  <1> QED BY <1>2, <1>4, <1>6 DEF WbInductive

\* A notice is read.
LEMMA WbDeliverKeeps ==
    ASSUME WbInductive, NEW s \in WbSubscribers, WbDeliver(s)
    PROVE  WbInductive'
  <1>1. /\ wbMay' = wbMay /\ wbHook' = wbHook /\ wbRead' = wbRead
        /\ wbAsked' = wbAsked /\ wbMeta' = wbMeta
        /\ wbCarry[s] > 0 /\ wbCarry' = [wbCarry EXCEPT ![s] = @ - 1]
        /\ wbTold' = [wbTold EXCEPT ![s] = @ + 1]
    BY DEF WbDeliver
  <1>2. /\ wbCarry \in [WbSubscribers -> Nat] /\ wbTold \in [WbSubscribers -> Nat]
    BY DEF WbInductive, WbTyped
  <1>3. WbTyped' /\ WbQuiet'
    BY <1>1, <1>2 DEF WbInductive, WbTyped, WbQuiet
  <1>4. ASSUME NEW t \in WbSubscribers PROVE WbPlaces(t)' = WbPlaces(t)
    <2>1. wbTold'[t] + wbCarry'[t] = wbTold[t] + wbCarry[t]
      BY <1>1, <1>2
    <2>2. WbWaiting(wbMeta') = WbWaiting(wbMeta)
      BY <1>1
    <2> QED BY <2>1, <2>2 DEF WbPlaces
  <1>5. WbCounted'
    BY <1>1, <1>4 DEF WbInductive, WbCounted
  <1> QED BY <1>3, <1>5 DEF WbInductive

\* A crash loses what is in memory: the count can only fall.
LEMMA WbRestartKeeps ==
    ASSUME WbInductive, WbRestart
    PROVE  WbInductive'
  <1>1. /\ wbMay' = wbMay /\ wbHook' = FALSE /\ wbRead' = {}
        /\ wbAsked' = wbAsked /\ wbMeta' = wbMeta
        /\ wbCarry' = [s \in WbSubscribers |-> 0] /\ wbTold' = wbTold /\ "crash" \in wbMay
    BY DEF WbRestart, wbHistory
  <1>2. WbTyped' /\ WbQuiet'
    BY <1>1 DEF WbInductive, WbTyped, WbQuiet
  <1>3. ASSUME NEW t \in WbSubscribers PROVE WbPlaces(t)' <= WbPlaces(t)
    <2>1. wbTold[t] \in Nat /\ wbCarry[t] \in Nat /\ wbTold'[t] = wbTold[t] /\ wbCarry'[t] = 0
      BY <1>1 DEF WbInductive, WbTyped
    <2>2. WbWaiting(wbMeta') = WbWaiting(wbMeta)
      BY <1>1
    <2> QED BY <2>1, <2>2 DEF WbPlaces
  <1>4. ASSUME NEW t \in WbSubscribers
        PROVE  WbPlaces(t) \in Nat /\ WbPlaces(t)' \in Nat /\ wbAsked[t] \in Nat
    BY <1>2 DEF WbInductive, WbTyped, WbPlaces
  <1>5. WbCounted'
    <2> SUFFICES ASSUME "digest" \notin wbMay, NEW t \in WbSubscribers
                 PROVE  WbPlaces(t)' <= wbAsked[t]
      BY <1>1 DEF WbCounted
    <2>1. WbPlaces(t) <= wbAsked[t]
      BY DEF WbInductive, WbCounted
    <2> QED BY <2>1, <1>3, <1>4
  <1> QED BY <1>2, <1>5 DEF WbInductive

\* Every step keeps the invariant.
LEMMA WbStepInductive == WbInductive /\ [WbNext]_wbVars => WbInductive'
  <1> SUFFICES ASSUME WbInductive, [WbNext]_wbVars PROVE WbInductive'
    OBVIOUS
  <1>1. CASE \E s \in WbSubscribers : WbWatch(s)
    BY <1>1, WbWatchKeeps
  <1>2. CASE (\E s \in WbSubscribers : WbWatchDigest(s)) \/ WbHookRead \/ WbHookWrite
    BY <1>2, WbDigestKeeps
  <1>3. CASE WbEnd \/ WbRevive \/ UNCHANGED wbVars
    BY <1>3, WbEndKeeps
  <1>4. CASE WbNotify
    BY <1>4, WbNotifyKeeps
  <1>5. CASE \E s \in WbSubscribers : WbDeliver(s)
    BY <1>5, WbDeliverKeeps
  <1>6. CASE WbRestart
    BY <1>6, WbRestartKeeps
  <1> QED BY <1>1, <1>2, <1>3, <1>4, <1>5, <1>6 DEF WbNext

\* The counting of the watches holds in every reachable state.
LEMMA WbAlwaysInductive == WbSpec => []WbInductive
  BY WbInitInductive, WbStepInductive, PTL DEF WbSpec

\* However often the target ends, is revived and the process restarts, a
\* subscriber is told at most once per accepted watch (watch.py, notify_settled
\* and reconcile_subscriptions).
THEOREM ToldOnce == WbSpec => []WbToldOnce
  <1>1. WbInductive => WbToldOnce
    <2> SUFFICES ASSUME WbInductive, "digest" \notin wbMay, NEW s \in WbSubscribers
                 PROVE  wbTold[s] <= wbAsked[s]
      BY DEF WbToldOnce
    <2>1. wbTold[s] \in Nat /\ wbCarry[s] \in Nat /\ wbAsked[s] \in Nat
      BY DEF WbInductive, WbTyped
    <2>2. wbTold[s] + wbCarry[s] + (IF s \in WbWaiting(wbMeta) THEN 1 ELSE 0) <= wbAsked[s]
      BY DEF WbInductive, WbCounted, WbPlaces
    <2> QED BY <2>1, <2>2
  <1> QED BY <1>1, WbAlwaysInductive, PTL

\* No accepted watch is dropped by an end, a revival or another subscriber's
\* watch (watch.py, watch_worker and notify_settled).
THEOREM WatchKept == WbSpec => []WbWatchKept
  <1>1. WbInductive => WbWatchKept
    BY DEF WbInductive, WbCounted, WbPlaces, WbWatchKept
  <1> QED BY <1>1, WbAlwaysInductive, PTL

-----------------------------------------------------------------------------
TdWords == {"unsent", "queue", "task", "stash", "thread", "lost"}
TdPlaces == {"none", "new", "lock", "turn", "watch", "reply", "await", "end"}

\* A coroutine holds a list while it awaits the start of a turn; a delivery
\* that is queued has no coroutine yet.
TdTyped ==
    /\ tdDest \in [TdTexts -> TdMembers \cup {TdNone}]
    /\ tdWord \in [TdTexts -> TdWords] /\ tdJob \in [TdTexts -> TdPlaces]
    /\ tdHas \in [TdTexts -> TdLists \cup {0}] /\ tdList \in TdLists \cup {0}
    /\ tdQueue \in [TdLists -> Seq(TdTexts)]
    /\ tdUser \in [TdMembers -> {"no", "lock", "turn"}]
    /\ \A t \in TdTexts : tdHas[t] # 0 <=> tdJob[t] = "await"
    /\ \A t \in TdTexts : tdWord[t] \in {"unsent", "queue"} => tdJob[t] = "none"

\* Only the registered list has entries, and a drain that holds another one
\* keeps every new list out.  What is queued is in it, once.
TdLined ==
    /\ \A l \in TdLists : l # tdList => tdQueue[l] = <<>>
    /\ \A c \in TdTexts : tdHas[c] \notin {0, tdList} => tdList = 0
    /\ \A l \in TdLists : \A k \in 1..Len(tdQueue[l]) :
        /\ tdWord[tdQueue[l][k]] = "queue"
        /\ \A j \in 1..Len(tdQueue[l]) : tdQueue[l][j] = tdQueue[l][k] => j = k
    /\ \A t \in TdTexts : tdWord[t] = "queue" =>
        \E l \in TdLists : \E k \in 1..Len(tdQueue[l]) : tdQueue[l][k] = t

\* Without turns of the user a member is at work for a delivery, and while
\* something is queued somebody is on the way to a drain.
TdHome ==
    tdMay \cap {"user", "ask"} = {} =>
        /\ tdUser = [m \in TdMembers |-> "no"] /\ tdPark = {}
        /\ \A m \in tdRun : \E t \in TdTexts : tdDest[t] = m /\ tdJob[t] \in {"lock", "turn"}
        /\ (\E t \in TdTexts : tdWord[t] = "queue") => \E c \in TdTexts : TdDrainer(c)

TdInv == "rush" \notin tdMay => TdTyped /\ TdLined /\ TdHome
-----------------------------------------------------------------------------
\* The numbers up to the least of a set are those below all of it, and it.
LEMMA UpToLeast ==
    ASSUME NEW n \in Nat, NEW O \in SUBSET (1..n)
    PROVE  \E p \in 0..n :
            /\ {k \in 1..n : \A j \in O : k < j} \cup {k \in O : \A j \in O : k <= j} = 1..p
            /\ O = {} => p = n
<1>1. PICK P : P = {k \in 1..n : \A j \in O : k < j}
  OBVIOUS
<1>2. P \in SUBSET (1..n)
  BY <1>1
<1>3. IsFiniteSet(1..n) /\ Cardinality(1..n) = n
  BY FS_Interval
<1>4. IsFiniteSet(P) /\ Cardinality(P) \in Nat /\ Cardinality(P) <= n
  BY <1>2, <1>3, FS_Subset, FS_CardinalityType
<1>5. PICK c \in Nat : c = Cardinality(P)
  BY <1>4
<1>6. \A k \in P : k <= c
  <2>1. \A k \in P : 1..k \in SUBSET P
    BY <1>1
  <2>2. \A k \in P : k \in Int /\ k >= 1
    BY <1>2
  <2>3. \A k \in P : Cardinality(1..k) = k
    BY <2>2, FS_Interval
  <2> QED BY <1>4, <1>5, <2>1, <2>2, <2>3, FS_Subset
<1>7. P = 1..c
  <2>1. P \in SUBSET (1..c)
    BY <1>2, <1>6
  <2>2. IsFiniteSet(1..c) /\ Cardinality(1..c) = c
    BY <1>5, FS_Interval
  <2> QED BY <1>5, <2>1, <2>2, FS_Subset
<1>8. CASE O = {}
  <2>1. P = 1..n
    BY <1>1, <1>8
  <2>2. {k \in O : \A j \in O : k <= j} = {}
    BY <1>8
  <2> QED BY <1>1, <2>1, <2>2
<1>9. CASE O # {}
  <2>1. PICK o \in O : TRUE
    BY <1>9
  <2>2. \A j \in O : j > c
    <3>1. CASE c = 0
      BY <3>1
    <3>2. CASE c # 0
      <4>1. c \in P
        BY <1>7, <3>2
      <4> QED BY <1>1, <4>1
    <3> QED BY <3>1, <3>2
  <2>3. c + 1 \in 1..n
    BY <2>1, <2>2
  <2>4. c + 1 \notin P
    BY <1>7
  <2>5. PICK i \in O : ~(c + 1 < i)
    BY <1>1, <2>3, <2>4
  <2>6. c + 1 \in O
    <3>1. i = c + 1
      BY <2>2, <2>5
    <3> QED BY <2>5, <3>1
  <2>7. \A k \in O : (\A j \in O : k <= j) <=> k = c + 1
    BY <2>2, <2>6
  <2>8. {k \in O : \A j \in O : k <= j} = {c + 1}
    BY <2>6, <2>7
  <2>9. P \cup {c + 1} = 1..(c + 1)
    BY <1>7
  <2> QED BY <1>1, <1>9, <2>3, <2>8, <2>9
<1> QED BY <1>8, <1>9

\* As many entries are taken as places of the list are passed.
LEMMA PrefixCounts ==
    ASSUME NEW S, NEW s \in Seq(S), NEW p \in 0..Len(s),
           \A j \in 1..Len(s), k \in 1..Len(s) : s[j] = s[k] => j = k
    PROVE  Cardinality({s[k] : k \in 1..p}) = p
<1> DEFINE T == {s[k] : k \in 1..p}
           f == [k \in 1..p |-> s[k]]
<1>1. IsFiniteSet(1..p) /\ Cardinality(1..p) = p
  BY FS_Interval
<1>2. f \in Bijection(1..p, T)
  <2>1. f \in Injection(1..p, T)
    BY DEF Injection, IsInjective
  <2>2. f \in Surjection(1..p, T)
    BY DEF Surjection
  <2> QED BY <2>1, <2>2 DEF Bijection
<1>3. ExistsBijection(1..p, T)
  BY <1>2 DEF ExistsBijection
<1> HIDE DEF T
<1>4. Cardinality(T) = p
  BY <1>1, <1>3, FS_Bijection
<1> QED BY <1>4 DEF T

\* A pass of the drain takes entries from the front; one that opens no turn
\* takes them all.
LEMMA TakesFront ==
    ASSUME TdTyped, TdLined, NEW l \in TdLists
    PROVE  \E p \in 0..Len(tdQueue[l]) :
            /\ TdTaken(tdQueue[l]) = {tdQueue[l][k] : k \in 1..p}
            /\ Cardinality(TdTaken(tdQueue[l])) = p
            /\ TdOpens(tdQueue[l]) = {} => p = Len(tdQueue[l])
<1> DEFINE q == tdQueue[l]
           O == TdOpens(q)
<1>1. q \in Seq(TdTexts) /\ Len(q) \in Nat /\ DOMAIN q = 1..Len(q)
  BY DEF TdTyped
<1>2. O \in SUBSET (1..Len(q))
  BY <1>1 DEF TdOpens
<1>3. TdPasses(q) = {k \in 1..Len(q) : \A j \in O : k < j}
  BY <1>1 DEF TdPasses
<1>4. TdOpened(q) = {k \in O : \A j \in O : k <= j}
  BY DEF TdOpened
<1>5. \A j \in 1..Len(q), k \in 1..Len(q) : q[j] = q[k] => j = k
  BY DEF TdLined
<1> HIDE DEF q, O
<1>6. PICK p \in 0..Len(q) :
        /\ {k \in 1..Len(q) : \A j \in O : k < j} \cup {k \in O : \A j \in O : k <= j} = 1..p
        /\ O = {} => p = Len(q)
  BY <1>1, <1>2, UpToLeast
<1>7. TdTaken(q) = {q[k] : k \in 1..p}
  BY <1>3, <1>4, <1>6 DEF TdTaken
<1>8. Cardinality({q[k] : k \in 1..p}) = p
  BY <1>1, <1>5, PrefixCounts
<1> QED BY <1>6, <1>7, <1>8 DEF q, O
-----------------------------------------------------------------------------
\* What a pass of c over list l leaves when it takes the first p entries, and
\* awaits the start of a turn or not.
TdLeft(c, l, p, awaits, rest, taken) ==
    /\ taken = {tdQueue[l][k] : k \in 1..p}
    /\ Len(rest) = Len(tdQueue[l]) - p
    /\ \A i \in 1..Len(rest) : rest[i] = tdQueue[l][p + i]
    /\ ~awaits /\ TdRoom => p = Len(tdQueue[l])
    /\ tdQueue' = [tdQueue EXCEPT ![l] = rest]
    /\ tdWord' = [t \in TdTexts |-> IF t \in taken THEN TdFate(tdDest[t]) ELSE tdWord[t]]
    /\ tdJob' = [t \in TdTexts |->
                   IF t = c THEN (IF awaits THEN "await" ELSE "end")
                   ELSE IF t \in taken THEN TdJobOf(TdFate(tdDest[t])) ELSE tdJob[t]]
    /\ tdHas' = [tdHas EXCEPT ![c] = IF awaits THEN l ELSE 0]
    /\ tdList' = IF awaits THEN tdList ELSE IF rest = <<>> THEN 0 ELSE tdList

\* What the loop of a drain may leave, by the number of entries it takes out.
LEMMA LoopLeaves ==
    ASSUME TdTyped, TdLined, NEW c \in TdTexts, NEW l \in TdLists, TdLoop(c, l)
    PROVE  \E p \in 0..Len(tdQueue[l]), awaits \in BOOLEAN,
              rest \in Seq(TdTexts), taken \in SUBSET TdTexts :
                TdLeft(c, l, p, awaits, rest, taken)
<1>1. PICK q : q = tdQueue[l]
  OBVIOUS
<1>2. q \in Seq(TdTexts) /\ Len(q) \in Nat
  BY <1>1 DEF TdTyped
<1>3. PICK p \in 0..Len(q) :
        /\ TdTaken(q) = {q[k] : k \in 1..p}
        /\ Cardinality(TdTaken(q)) = p
        /\ TdOpens(q) = {} => p = Len(q)
  BY <1>1, TakesFront
<1>4. PICK n \in 0..Len(q) : n = IF TdRoom THEN p ELSE 0
  BY <1>2, <1>3
<1>5. PICK taken : taken = IF TdRoom THEN TdTaken(q) ELSE {}
  OBVIOUS
<1>6. Cardinality(taken) = n
  BY <1>3, <1>4, <1>5, FS_EmptySet
<1>7. taken = {q[k] : k \in 1..n}
  BY <1>3, <1>4, <1>5
<1>8. taken \in SUBSET TdTexts
  BY <1>2, <1>4, <1>7
<1>9. PICK awaits \in BOOLEAN : awaits = (TdRoom /\ TdOpens(q) # {})
  OBVIOUS
<1>10. PICK rest : rest = SubSeq(q, n + 1, Len(q))
  OBVIOUS
<1>11. /\ rest \in Seq(TdTexts) /\ Len(rest) = Len(q) - n
       /\ \A i \in 1..Len(rest) : rest[i] = q[n + i]
  <2>1. n + 1 \in Int /\ Len(q) \in Int /\ \A i \in (n + 1)..Len(q) : q[i] \in TdTexts
    BY <1>2, <1>4
  <2>2. /\ rest \in Seq(TdTexts)
        /\ Len(rest) = IF n + 1 <= Len(q) THEN Len(q) - (n + 1) + 1 ELSE 0
        /\ \A i \in 1..(Len(q) - (n + 1) + 1) : rest[i] = q[n + 1 + i - 1]
    BY <1>10, <2>1, SubSeqProperties
  <2>3. Len(rest) = Len(q) - n
    <3>1. CASE n = Len(q)
      BY <1>2, <2>2, <3>1
    <3>2. CASE n # Len(q)
      <4>1. n + 1 <= Len(q)
        BY <1>2, <1>4, <3>2
      <4>2. Len(rest) = Len(q) - (n + 1) + 1
        BY <2>2, <4>1
      <4> QED BY <1>2, <1>4, <4>2
    <3> QED BY <3>1, <3>2
  <2>4. ASSUME NEW i \in 1..Len(rest) PROVE rest[i] = q[n + i]
    <3>1. i \in 1..(Len(q) - (n + 1) + 1) /\ n + 1 + i - 1 = n + i
      BY <1>2, <1>4, <2>3
    <3> QED BY <2>2, <3>1
  <2> QED BY <2>2, <2>3, <2>4
<1>4a. ~awaits /\ TdRoom => n = Len(q)
  BY <1>3, <1>4, <1>9
<1>13. /\ tdQueue' = [tdQueue EXCEPT ![l] = rest]
       /\ tdWord' = [t \in TdTexts |-> IF t \in taken THEN TdFate(tdDest[t]) ELSE tdWord[t]]
       /\ tdJob' = [t \in TdTexts |->
                      IF t = c THEN (IF awaits THEN "await" ELSE "end")
                      ELSE IF t \in taken THEN TdJobOf(TdFate(tdDest[t])) ELSE tdJob[t]]
       /\ tdHas' = [tdHas EXCEPT ![c] = IF awaits THEN l ELSE 0]
       /\ tdList' = IF awaits THEN tdList ELSE IF rest = <<>> THEN 0 ELSE tdList
  BY <1>1, <1>5, <1>6, <1>9, <1>10 DEF TdLoop, TdUnregister
<1>14. TdLeft(c, l, n, awaits, rest, taken)
  BY <1>1, <1>7, <1>11, <1>4a, <1>13 DEF TdLeft
<1>15. n \in 0..Len(tdQueue[l])
  BY <1>1
<1> QED BY <1>8, <1>11, <1>14, <1>15

\* What becomes of an entry that reaches its member, and the coroutine it gets.
LEMMA FateType ==
    \A m : /\ TdFate(m) \in {"lost", "stash", "task"}
           /\ TdJobOf(TdFate(m)) \in {"none", "watch", "new"}
           /\ TdFate(m) = "task" => TdJobOf(TdFate(m)) = "new"
<1> QED BY DEF TdFate, TdJobOf

\* A pass of a drain, on the registered list or on one that was dropped.
LEMMA LoopKeeps ==
    ASSUME TdTyped, TdLined, TdHome, "rush" \notin tdMay,
           NEW c \in TdTexts, NEW l \in TdLists, TdLoop(c, l),
           \/ tdJob[c] = "reply" /\ l = tdList
           \/ tdJob[c] = "await" /\ l = tdHas[c]
    PROVE  TdTyped' /\ TdLined' /\ TdHome'
<1>1. PICK p \in 0..Len(tdQueue[l]), awaits \in BOOLEAN,
           rest \in Seq(TdTexts), taken \in SUBSET TdTexts :
             TdLeft(c, l, p, awaits, rest, taken)
  BY LoopLeaves
<1>2. /\ taken = {tdQueue[l][k] : k \in 1..p}
      /\ Len(rest) = Len(tdQueue[l]) - p
      /\ \A i \in 1..Len(rest) : rest[i] = tdQueue[l][p + i]
      /\ ~awaits /\ TdRoom => p = Len(tdQueue[l])
      /\ tdQueue' = [tdQueue EXCEPT ![l] = rest]
      /\ tdWord' = [t \in TdTexts |-> IF t \in taken THEN TdFate(tdDest[t]) ELSE tdWord[t]]
      /\ tdJob' = [t \in TdTexts |->
                     IF t = c THEN (IF awaits THEN "await" ELSE "end")
                     ELSE IF t \in taken THEN TdJobOf(TdFate(tdDest[t])) ELSE tdJob[t]]
      /\ tdHas' = [tdHas EXCEPT ![c] = IF awaits THEN l ELSE 0]
      /\ tdList' = IF awaits THEN tdList ELSE IF rest = <<>> THEN 0 ELSE tdList
  BY <1>1 DEF TdLeft
<1>3. UNCHANGED <<tdMay, tdSent, tdDest, tdRun, tdUser, tdPark, tdGone>>
  BY DEF TdLoop, tdCase, tdTurns
<1>4. tdQueue[l] \in Seq(TdTexts) /\ Len(tdQueue[l]) \in Nat /\ l # 0
  BY DEF TdTyped, TdLists, TdTexts
<1>4a. \A i \in 1..Len(rest) : p + i \in 1..Len(tdQueue[l]) /\ rest[i] = tdQueue[l][p + i]
  <2>1. \A i \in 1..Len(rest) : rest[i] = tdQueue[l][p + i]
    BY <1>2
  <2>2. Len(rest) = Len(tdQueue[l]) - p
    BY <1>2
  <2>3. \A i \in 1..Len(rest) : p + i \in 1..Len(tdQueue[l])
    BY <1>4, <2>2
  <2> QED BY <2>1, <2>3
<1>5. \A t \in taken : tdWord[t] = "queue" /\ tdJob[t] = "none"
  <2>1. \A k \in 1..Len(tdQueue[l]) : tdWord[tdQueue[l][k]] = "queue"
    BY DEF TdLined
  <2>2. \A t \in taken : \E k \in 1..Len(tdQueue[l]) : t = tdQueue[l][k]
    BY <1>2, <1>4
  <2> QED BY <2>1, <2>2 DEF TdTyped
<1>6. c \notin taken
  BY <1>5
<1>7. \A t \in TdTexts : tdJob[t] = "await" => tdHas[t] # 0
  BY DEF TdTyped
<1>8. l = tdList \/ (tdList = 0 /\ tdQueue[l] = <<>>)
  BY <1>4 DEF TdLined
<1>9. TdTyped'
  <2>1. \A t \in TdTexts : tdWord'[t] \in TdWords /\ tdJob'[t] \in TdPlaces
    BY <1>2, FateType DEF TdTyped, TdWords, TdPlaces
  <2>2. tdWord' \in [TdTexts -> TdWords] /\ tdJob' \in [TdTexts -> TdPlaces]
    <3>1. /\ tdWord' = [t \in TdTexts |-> tdWord'[t]]
          /\ tdJob' = [t \in TdTexts |-> tdJob'[t]]
      BY <1>2
    <3> QED BY <2>1, <3>1
  <2>3. /\ tdHas' \in [TdTexts -> TdLists \cup {0}] /\ tdList' \in TdLists \cup {0}
        /\ tdQueue' \in [TdLists -> Seq(TdTexts)]
    BY <1>2 DEF TdTyped
  <2>4. \A t \in TdTexts : tdHas'[t] # 0 <=> tdJob'[t] = "await"
    <3>1. tdHas'[c] # 0 <=> tdJob'[c] = "await"
      BY <1>2, <1>4 DEF TdTyped
    <3>2. \A t \in TdTexts : t # c => tdHas'[t] = tdHas[t]
      BY <1>2 DEF TdTyped
    <3>3. \A t \in TdTexts : t # c => (tdJob'[t] = "await" <=> tdJob[t] = "await")
      BY <1>2, <1>5, FateType
    <3> QED BY <3>1, <3>2, <3>3 DEF TdTyped
  <2>5. \A t \in TdTexts : tdWord'[t] \in {"unsent", "queue"} => tdJob'[t] = "none"
    <3>1. \A t \in TdTexts : tdWord'[t] \in {"unsent", "queue"} =>
                                t \notin taken /\ tdWord[t] = tdWord'[t]
      BY <1>2, FateType
    <3>2. tdWord[c] \notin {"unsent", "queue"}
      BY DEF TdTyped
    <3> QED BY <1>2, <3>1, <3>2 DEF TdTyped
  <2> QED BY <1>3, <2>2, <2>3, <2>4, <2>5 DEF TdTyped
<1>10. TdLined'
  <2>1. \A i \in TdLists : i # tdList' => tdQueue'[i] = <<>>
    <3>1. tdQueue'[l] = rest /\ \A i \in TdLists : i # l => tdQueue'[i] = tdQueue[i]
      BY <1>2 DEF TdTyped
    <3>2. tdList # l => rest = <<>>
      <4>1. tdList # l => Len(rest) = 0
        BY <1>2, <1>8
      <4> QED BY <1>2, <4>1, EmptySeq
    <3>3. \A i \in TdLists : i # tdList => tdQueue[i] = <<>>
      BY DEF TdLined
    <3>4. tdList' = tdList \/ (tdList' = 0 /\ rest = <<>>)
      BY <1>2
    <3>5. ASSUME NEW i \in TdLists, i # tdList' PROVE tdQueue'[i] = <<>>
      <4>1. CASE i = l
        BY <3>1, <3>2, <3>4, <3>5, <4>1
      <4>2. CASE i # l
        BY <1>8, <3>1, <3>3, <3>4, <3>5, <4>2
      <4> QED BY <4>1, <4>2
    <3> QED BY <3>5
  <2>2. \A t \in TdTexts : tdHas'[t] \notin {0, tdList'} => tdList' = 0
    <3>1. \A t \in TdTexts : tdHas[t] \notin {0, tdList} => tdList = 0
      BY DEF TdLined
    <3>2. tdList' = tdList \/ tdList' = 0
      BY <1>2
    <3>3. \A t \in TdTexts : tdHas'[t] = tdHas[t] \/ tdHas'[t] \in {0, l}
      BY <1>2 DEF TdTyped
    <3> QED BY <1>8, <3>1, <3>2, <3>3
  <2>3. \A i \in TdLists : \A k \in 1..Len(tdQueue'[i]) :
          /\ tdWord'[tdQueue'[i][k]] = "queue"
          /\ \A j \in 1..Len(tdQueue'[i]) : tdQueue'[i][j] = tdQueue'[i][k] => j = k
    <3>1. tdQueue'[l] = rest /\ \A i \in TdLists : i # l => tdQueue'[i] = tdQueue[i]
      BY <1>2 DEF TdTyped
    <3>2. ASSUME NEW k \in 1..Len(rest)
          PROVE  /\ tdWord'[rest[k]] = "queue"
                 /\ \A j \in 1..Len(rest) : rest[j] = rest[k] => j = k
      <4>1. p + k \in 1..Len(tdQueue[l]) /\ rest[k] = tdQueue[l][p + k]
        BY <1>4a
      <4>2. \A i \in 1..Len(tdQueue[l]) : \A j \in 1..Len(tdQueue[l]) :
              tdQueue[l][j] = tdQueue[l][i] => j = i
        BY DEF TdLined
      <4>3. rest[k] \notin taken /\ rest[k] \in TdTexts
        <5>1. \A t \in taken : \E i \in 1..p : t = tdQueue[l][i]
          BY <1>2
        <5>2. \A i \in 1..p : i \in 1..Len(tdQueue[l]) /\ i # p + k
          BY <1>4
        <5> QED BY <4>1, <4>2, <5>1, <5>2
      <4>4. tdWord[rest[k]] = "queue"
        BY <4>1 DEF TdLined
      <4>5. tdWord'[rest[k]] = "queue"
        BY <1>2, <4>3, <4>4
      <4>6. ASSUME NEW j \in 1..Len(rest), rest[j] = rest[k] PROVE j = k
        <5>1. p + j \in 1..Len(tdQueue[l]) /\ rest[j] = tdQueue[l][p + j]
          BY <1>4a
        <5>2. p + j = p + k
          BY <4>1, <4>2, <4>6, <5>1
        <5> QED BY <1>4, <5>2
      <4> QED BY <4>5, <4>6
    <3>3. \A i \in TdLists : i # l => tdQueue[i] = <<>> \/ tdQueue[l] = <<>>
      BY <1>8 DEF TdLined
    <3>4. ASSUME NEW i \in TdLists, i # l, NEW k \in 1..Len(tdQueue[i])
          PROVE  /\ tdWord'[tdQueue[i][k]] = "queue"
                 /\ \A j \in 1..Len(tdQueue[i]) : tdQueue[i][j] = tdQueue[i][k] => j = k
      <4>1. tdQueue[i] # <<>>
        BY <3>4
      <4>2. tdQueue[l] = <<>>
        BY <3>3, <3>4, <4>1
      <4>3. taken = {}
        BY <1>2, <4>2
      <4>4. tdQueue[i][k] \in TdTexts
        BY DEF TdTyped
      <4> QED BY <1>2, <4>3, <4>4 DEF TdLined
    <3>5. ASSUME NEW i \in TdLists, NEW k \in 1..Len(tdQueue'[i])
          PROVE  /\ tdWord'[tdQueue'[i][k]] = "queue"
                 /\ \A j \in 1..Len(tdQueue'[i]) : tdQueue'[i][j] = tdQueue'[i][k] => j = k
      <4>1. CASE i = l
        BY <3>1, <3>2, <4>1
      <4>2. CASE i # l
        BY <3>1, <3>4, <4>2
      <4> QED BY <4>1, <4>2
    <3> QED BY <3>5
  <2>4. ASSUME NEW t \in TdTexts, tdWord'[t] = "queue"
        PROVE  \E i \in TdLists : \E k \in 1..Len(tdQueue'[i]) : tdQueue'[i][k] = t
    <3>1. t \notin taken /\ tdWord[t] = "queue"
      BY <1>2, <2>4, FateType
    <3>2. PICK i \in TdLists, k \in Nat : k \in 1..Len(tdQueue[i]) /\ tdQueue[i][k] = t
      BY <3>1 DEF TdLined
    <3>3. CASE i # l
      BY <1>2, <3>2, <3>3 DEF TdTyped
    <3>4. CASE i = l
      <4>1. k > p
        BY <1>2, <1>4, <3>1, <3>2, <3>4
      <4>2. k - p \in 1..Len(rest) /\ rest[k - p] = t
        BY <1>2, <1>4, <3>2, <3>4, <4>1
      <4>3. tdQueue'[l] = rest
        BY <1>2 DEF TdTyped
      <4> QED BY <4>2, <4>3
    <3> QED BY <3>3, <3>4
  <2> QED BY <2>1, <2>2, <2>3, <2>4 DEF TdLined
<1>11. TdHome'
  <2> SUFFICES ASSUME tdMay \cap {"user", "ask"} = {} PROVE TdHome'
    BY <1>3 DEF TdHome
  <2>1. /\ tdUser = [m \in TdMembers |-> "no"] /\ tdPark = {}
        /\ \A m \in tdRun : \E t \in TdTexts : tdDest[t] = m /\ tdJob[t] \in {"lock", "turn"}
    BY DEF TdHome
  <2>2. \A t \in TdTexts : tdJob[t] \in {"lock", "turn"} => tdJob'[t] = tdJob[t]
    BY <1>2, <1>5
  <2>3. \A m \in tdRun : \E t \in TdTexts : tdDest[t] = m /\ tdJob'[t] \in {"lock", "turn"}
    BY <2>1, <2>2
  <2>4. ASSUME NEW t \in TdTexts, tdWord'[t] = "queue"
        PROVE  \E d \in TdTexts : tdJob'[d] \in {"new", "lock", "turn", "reply", "await"}
    <3>1. CASE awaits
      BY <1>2, <3>1
    <3>2. CASE ~TdRoom
      <4>1. \E m \in TdMembers : TdLive(m)
        <5>1. Cardinality({m \in TdMembers \ tdGone : TdLive(m)}) # 0
          BY <3>2, TdNumbers DEF TdRoom, TdRunning
        <5> QED BY <5>1, FS_EmptySet
      <4>2. \E m \in TdMembers : m \in tdRun
        BY <2>1, <4>1 DEF TdLive
      <4> QED BY <2>3, <4>2
    <3>3. CASE ~awaits /\ TdRoom
      <4>1. Len(rest) = 0
        BY <1>2, <1>4, <3>3
      <4>2. rest = <<>>
        BY <4>1, EmptySeq
      <4>3. \A i \in TdLists : i # tdList' => tdQueue'[i] = <<>>
        BY <1>10 DEF TdLined
      <4>4. tdList' = 0
        BY <1>2, <3>3, <4>2
      <4>5. \A i \in TdLists : tdQueue'[i] = <<>>
        BY <4>3, <4>4 DEF TdLists, TdTexts
      <4>6. \E i \in TdLists : \E k \in 1..Len(tdQueue'[i]) : tdQueue'[i][k] = t
        BY <1>10, <2>4 DEF TdLined
      <4> QED BY <4>5, <4>6
    <3> QED BY <3>1, <3>2, <3>3
  <2> QED BY <1>3, <2>1, <2>3, <2>4 DEF TdHome, TdDrainer
<1> QED BY <1>9, <1>10, <1>11
-----------------------------------------------------------------------------
\* A step that leaves the queues alone, and the coroutines of what is queued.
LEMMA QueuesAside ==
    ASSUME TdTyped, TdLined, UNCHANGED <<tdQueues, tdDest>>,
           tdWord' \in [TdTexts -> TdWords], tdJob' \in [TdTexts -> TdPlaces],
           tdUser' \in [TdMembers -> {"no", "lock", "turn"}],
           \A t \in TdTexts :
            /\ tdWord'[t] = "queue" <=> tdWord[t] = "queue"
            /\ tdWord'[t] = "unsent" => tdWord[t] = "unsent"
            /\ tdJob[t] = "none" => tdJob'[t] = "none"
            /\ tdJob'[t] = "await" <=> tdJob[t] = "await"
    PROVE  TdTyped' /\ TdLined'
<1>1. tdHas' = tdHas /\ tdList' = tdList /\ tdQueue' = tdQueue /\ tdDest' = tdDest
  BY DEF tdQueues
<1>2. TdTyped'
  BY <1>1 DEF TdTyped
<1>3. \A l \in TdLists : \A k \in 1..Len(tdQueue[l]) : tdWord'[tdQueue[l][k]] = "queue"
  <2>1. \A l \in TdLists : \A k \in 1..Len(tdQueue[l]) : tdQueue[l][k] \in TdTexts
    BY DEF TdTyped
  <2>2. \A l \in TdLists : \A k \in 1..Len(tdQueue[l]) : tdWord[tdQueue[l][k]] = "queue"
    BY DEF TdLined
  <2> QED BY <2>1, <2>2
<1>4. TdLined'
  BY <1>1, <1>3 DEF TdLined
<1> QED BY <1>2, <1>4

\* Nobody on the way to a drain leaves the way.
LEMMA HomeStays ==
    ASSUME TdHome, tdMay' = tdMay, tdDest' = tdDest,
           tdMay \cap {"user", "ask"} = {} => UNCHANGED <<tdUser, tdPark>>,
           tdMay \cap {"user", "ask"} = {} =>
            \A m \in tdRun' : \E t \in TdTexts : tdDest[t] = m /\ tdJob'[t] \in {"lock", "turn"},
           \A t \in TdTexts :
            /\ tdWord'[t] = "queue" => tdWord[t] = "queue"
            /\ TdDrainer(t) => tdJob'[t] \in {"new", "lock", "turn", "reply", "await"}
    PROVE  TdHome'
<1> QED BY DEF TdHome, TdDrainer

\* The steps of the turns and of the watch.
LEMMA WatchKeeps ==
    ASSUME TdTyped, TdLined, TdHome, NEW t \in TdTexts, TdWatch(t)
    PROVE  TdTyped' /\ TdLined' /\ TdHome'
<1>1. UNCHANGED <<tdMay, tdDest, tdWord, tdQueues, tdRun, tdUser, tdPark>>
  BY DEF TdWatch, tdCase, tdTurns
<1>2. PICK x \in {"reply", "end"} : tdJob' = [tdJob EXCEPT ![t] = x]
  BY DEF TdWatch
<1>3. tdJob[t] = "watch"
  BY DEF TdWatch
<1>4. tdJob' \in [TdTexts -> TdPlaces] /\ tdJob'[t] = x
      /\ \A u \in TdTexts : u # t => tdJob'[u] = tdJob[u]
  BY <1>2 DEF TdTyped, TdPlaces
<1>5. tdWord[t] # "queue"
  BY <1>3 DEF TdTyped
<1>6. TdTyped' /\ TdLined'
  <2>1. tdWord' \in [TdTexts -> TdWords] /\ tdUser' \in [TdMembers -> {"no", "lock", "turn"}]
    BY <1>1 DEF TdTyped
  <2> QED BY <1>1, <1>3, <1>4, <1>5, <2>1, QueuesAside
<1>7. TdHome'
  <2>1. \A u \in TdTexts : tdJob[u] \in {"new", "lock", "turn", "reply", "await"}
                             => tdJob'[u] = tdJob[u]
    BY <1>3, <1>4
  <2> QED BY <1>1, <2>1, HomeStays DEF TdHome, TdDrainer
<1> QED BY <1>6, <1>7

\* The steps of a delivery's own coroutine up to its turn keep the invariant.
LEMMA RegisterKeeps ==
    ASSUME TdTyped, TdLined, TdHome, NEW t \in TdTexts,
           TdRegister(t) \/ TdNeverRuns(t) \/ TdStream(t)
    PROVE  TdTyped' /\ TdLined' /\ TdHome'
<1>1. UNCHANGED <<tdMay, tdDest, tdQueues, tdUser, tdPark>>
  BY DEF TdRegister, TdNeverRuns, TdStream, TdTurnOnly, tdCase, tdTurns
<1>2. PICK x \in {"lock", "reply", "turn"} :
        /\ tdJob' = [tdJob EXCEPT ![t] = x]
        /\ tdRun' = IF x = "reply" THEN tdRun ELSE tdRun \cup {tdDest[t]}
        /\ tdJob[t] = "new" \/ (tdJob[t] = "lock" /\ x = "turn")
  BY DEF TdRegister, TdNeverRuns, TdStream, tdTurns
<1>3. PICK y \in {"lost", "thread", tdWord[t]} : tdWord' = [tdWord EXCEPT ![t] = y]
  <2>1. tdWord' = tdWord => tdWord' = [tdWord EXCEPT ![t] = tdWord[t]]
    BY DEF TdTyped
  <2> QED BY <2>1 DEF TdRegister, TdNeverRuns, TdStream
<1>4. tdWord[t] # "queue" /\ tdWord[t] \in TdWords
  BY <1>2 DEF TdTyped
<1>5. /\ tdJob' \in [TdTexts -> TdPlaces] /\ tdJob'[t] = x
      /\ \A u \in TdTexts : u # t => tdJob'[u] = tdJob[u]
  BY <1>2 DEF TdTyped, TdPlaces
<1>6. /\ tdWord' \in [TdTexts -> TdWords] /\ tdWord'[t] = y /\ y # "queue"
      /\ \A u \in TdTexts : u # t => tdWord'[u] = tdWord[u]
  BY <1>3, <1>4 DEF TdTyped, TdWords
<1>7. TdTyped' /\ TdLined'
  <2>1. tdUser' \in [TdMembers -> {"no", "lock", "turn"}]
    BY <1>1 DEF TdTyped
  <2>2. \A u \in TdTexts :
            /\ tdWord'[u] = "queue" <=> tdWord[u] = "queue"
            /\ tdWord'[u] = "unsent" => tdWord[u] = "unsent"
            /\ tdJob[u] = "none" => tdJob'[u] = "none"
            /\ tdJob'[u] = "await" <=> tdJob[u] = "await"
    BY <1>2, <1>4, <1>5, <1>6
  <2> QED BY <1>1, <1>5, <1>6, <2>1, <2>2, QueuesAside
<1>8. TdHome'
  <2>1. ASSUME tdMay \cap {"user", "ask"} = {}, NEW m \in tdRun'
        PROVE  \E u \in TdTexts : tdDest[u] = m /\ tdJob'[u] \in {"lock", "turn"}
    <3>1. CASE m = tdDest[t] /\ x # "reply"
      BY <1>5, <3>1
    <3>2. CASE ~(m = tdDest[t] /\ x # "reply")
      <4>1. m \in tdRun
        BY <1>2, <3>2
      <4>2. PICK u \in TdTexts : tdDest[u] = m /\ tdJob[u] \in {"lock", "turn"}
        BY <2>1, <4>1 DEF TdHome
      <4>3. u # t
        BY <1>2, <3>2, <4>2
      <4> QED BY <1>5, <4>2, <4>3
    <3> QED BY <3>1, <3>2
  <2>2. \A u \in TdTexts :
            /\ tdWord'[u] = "queue" => tdWord[u] = "queue"
            /\ TdDrainer(u) => tdJob'[u] \in {"new", "lock", "turn", "reply", "await"}
    BY <1>2, <1>5, <1>6 DEF TdDrainer
  <2> QED BY <1>1, <2>1, <2>2, HomeStays
<1> QED BY <1>7, <1>8

\* A superstep that drains the stash keeps the invariant.
LEMMA AbsorbKeeps ==
    ASSUME TdTyped, TdLined, TdHome, NEW m \in TdMembers, TdAbsorb(m)
    PROVE  TdTyped' /\ TdLined' /\ TdHome'
<1>1. UNCHANGED <<tdMay, tdDest, tdQueues, tdJob, tdRun, tdUser, tdPark>>
  BY DEF TdAbsorb, TdTurnOnly, tdCase, tdTurns
<1>2. \A t \in TdTexts : t \in TdStashed(m) => tdWord[t] = "stash"
  BY DEF TdStashed
<1>3. tdWord' = [t \in TdTexts |-> IF t \in TdStashed(m) THEN "thread" ELSE tdWord[t]]
  BY DEF TdAbsorb
<1>4. \A t \in TdTexts : tdWord'[t] \in TdWords /\ (tdWord'[t] = "queue" <=> tdWord[t] = "queue")
  BY <1>2, <1>3 DEF TdTyped, TdWords
<1>5. /\ tdWord' \in [TdTexts -> TdWords]
      /\ \A t \in TdTexts : tdWord'[t] = "unsent" => tdWord[t] = "unsent"
  BY <1>3, <1>4
<1>6. TdTyped' /\ TdLined'
  <2>1. /\ tdJob' \in [TdTexts -> TdPlaces]
        /\ tdUser' \in [TdMembers -> {"no", "lock", "turn"}]
    BY <1>1 DEF TdTyped
  <2> QED BY <1>1, <1>4, <1>5, <2>1, QueuesAside
<1>7. TdHome'
  BY <1>1, <1>4, HomeStays DEF TdHome, TdDrainer
<1> QED BY <1>6, <1>7

\* A segment's end, and a question, keep the invariant.
LEMMA EndKeeps ==
    ASSUME TdTyped, TdLined, TdHome, NEW m \in TdMembers, TdTurnEnd(m) \/ TdAsk(m)
    PROVE  TdTyped' /\ TdLined' /\ TdHome'
<1>1. UNCHANGED <<tdMay, tdDest, tdQueues>> /\ TdReleases(m)
  BY DEF TdTurnEnd, TdAsk, TdTurnOnly, tdCase
<1>2. tdJob' = [t \in TdTexts |->
                  IF tdDest[t] = m /\ tdJob[t] = "turn" THEN "reply" ELSE tdJob[t]]
  BY <1>1 DEF TdReleases
<1>3. tdJob' \in [TdTexts -> TdPlaces]
  BY <1>2 DEF TdTyped, TdPlaces
<1>4. \A t \in TdTexts : tdJob'[t] = tdJob[t] \/ (tdJob[t] = "turn" /\ tdJob'[t] = "reply")
  BY <1>2
<1>5. /\ tdWord' \in [TdTexts -> TdWords]
      /\ \A t \in TdTexts : tdWord'[t] = "queue" <=> tdWord[t] = "queue"
      /\ \A t \in TdTexts : tdWord'[t] = "unsent" => tdWord[t] = "unsent"
  <2>1. CASE tdWord' = tdWord
    BY <2>1 DEF TdTyped
  <2>2. CASE tdWord' = [t \in TdTexts |-> IF t \in TdStashed(m) THEN "lost" ELSE tdWord[t]]
    <3>1. \A t \in TdTexts : t \in TdStashed(m) => tdWord[t] = "stash"
      BY DEF TdStashed
    <3>2. \A t \in TdTexts : tdWord'[t] \in TdWords /\ (tdWord'[t] = "queue" <=> tdWord[t] = "queue")
      BY <2>2, <3>1 DEF TdTyped, TdWords
    <3> QED BY <2>2, <3>2
  <2> QED BY <2>1, <2>2 DEF TdTurnEnd, TdAsk
<1>6. tdUser' \in [TdMembers -> {"no", "lock", "turn"}]
  BY <1>1 DEF TdReleases, TdTyped
<1>7. TdTyped' /\ TdLined'
  <2>1. \A t \in TdTexts :
            /\ tdWord'[t] = "queue" <=> tdWord[t] = "queue"
            /\ tdWord'[t] = "unsent" => tdWord[t] = "unsent"
            /\ tdJob[t] = "none" => tdJob'[t] = "none"
            /\ tdJob'[t] = "await" <=> tdJob[t] = "await"
    BY <1>4, <1>5
  <2> QED BY <1>1, <1>3, <1>5, <1>6, <2>1, QueuesAside
<1>8. TdHome'
  <2>1. ASSUME tdMay \cap {"user", "ask"} = {}
        PROVE  /\ UNCHANGED <<tdUser, tdPark>>
               /\ \A n \in tdRun' :
                    \E t \in TdTexts : tdDest[t] = n /\ tdJob'[t] \in {"lock", "turn"}
    <3>1. TdTurnEnd(m)
      BY <2>1 DEF TdAsk
    <3>2. tdUser[m] = "no" /\ tdPark = {}
      BY <2>1 DEF TdHome
    <3>3. UNCHANGED <<tdUser, tdPark>>
      BY <1>1, <3>1, <3>2 DEF TdReleases, TdTurnEnd
    <3>4. ASSUME NEW n \in tdRun'
          PROVE  \E t \in TdTexts : tdDest[t] = n /\ tdJob'[t] \in {"lock", "turn"}
      <4>1. n \in tdRun /\ n # m
        BY <3>1 DEF TdTurnEnd
      <4>2. PICK t \in TdTexts : tdDest[t] = n /\ tdJob[t] \in {"lock", "turn"}
        BY <2>1, <4>1 DEF TdHome
      <4> QED BY <1>2, <4>1, <4>2
    <3> QED BY <3>3, <3>4
  <2>2. \A u \in TdTexts :
            /\ tdWord'[u] = "queue" => tdWord[u] = "queue"
            /\ TdDrainer(u) => tdJob'[u] \in {"new", "lock", "turn", "reply", "await"}
    BY <1>4, <1>5 DEF TdDrainer
  <2> QED BY <1>1, <2>1, <2>2, HomeStays
<1> QED BY <1>7, <1>8

\* What the user does in a member's session, and a removal, keep the invariant.
LEMMA UserKeeps ==
    ASSUME TdTyped, TdLined, TdHome, NEW m \in TdMembers,
           TdUserActs(m) \/ TdUserGo(m) \/ TdRemove(m)
    PROVE  TdTyped' /\ TdLined' /\ TdHome'
<1>1. UNCHANGED <<tdMay, tdDest, tdQueues, tdWord, tdJob>>
  BY DEF TdUserActs, TdUserGo, TdRemove, TdTurnOnly, tdCase
<1>2. tdUser' \in [TdMembers -> {"no", "lock", "turn"}]
  BY DEF TdUserActs, TdUserGo, TdRemove, TdTyped, tdTurns
<1>3. TdTyped' /\ TdLined'
  <2>1. tdWord' \in [TdTexts -> TdWords] /\ tdJob' \in [TdTexts -> TdPlaces]
    BY <1>1 DEF TdTyped
  <2> QED BY <1>1, <1>2, <2>1, QueuesAside
<1>4. TdHome'
  <2>1. tdMay \cap {"user", "ask"} = {} => TdRemove(m)
    BY DEF TdHome, TdUserActs, TdUserGo
  <2>2. tdMay \cap {"user", "ask"} = {} => UNCHANGED <<tdUser, tdPark, tdRun>>
    BY <2>1 DEF TdRemove, tdTurns
  <2> QED BY <1>1, <2>2, HomeStays DEF TdHome, TdDrainer
<1> QED BY <1>3, <1>4

\* A delivery comes, and is settled at once or queued.
LEMMA DeliverKeeps ==
    ASSUME TdTyped, TdLined, TdHome, NEW t \in TdTexts, NEW m \in TdMembers, TdDeliver(t, m)
    PROVE  TdTyped' /\ TdLined' /\ TdHome'
<1>1. /\ UNCHANGED <<tdMay, tdHas, tdList, tdQueue, tdRun, tdUser, tdPark>>
      /\ tdDest' = [tdDest EXCEPT ![t] = m] /\ tdWord[t] = "unsent"
  BY DEF TdDeliver, TdSends, tdCase, tdTurns
<1>2. PICK y \in {"lost", "stash", "task"} : y = TdFate(m)
  BY FateType
<1>3. PICK x \in {"none", "watch", "new"} : x = TdJobOf(y)
  BY <1>2, FateType
<1>4. tdWord' = [tdWord EXCEPT ![t] = y] /\ tdJob' = [tdJob EXCEPT ![t] = x]
  BY <1>2, <1>3 DEF TdDeliver
<1>5. tdJob[t] = "none"
  BY <1>1 DEF TdTyped
<1>6. /\ tdWord' \in [TdTexts -> TdWords] /\ tdJob' \in [TdTexts -> TdPlaces]
      /\ tdDest' \in [TdTexts -> TdMembers \cup {TdNone}]
      /\ tdWord'[t] = y /\ tdJob'[t] = x
      /\ \A u \in TdTexts : u # t =>
            tdWord'[u] = tdWord[u] /\ tdJob'[u] = tdJob[u] /\ tdDest'[u] = tdDest[u]
  BY <1>1, <1>4 DEF TdTyped, TdWords, TdPlaces
<1>7. TdTyped'
  BY <1>1, <1>5, <1>6 DEF TdTyped
<1>8. TdLined'
  <2>1. \A l \in TdLists : \A k \in 1..Len(tdQueue[l]) :
          tdQueue[l][k] \in TdTexts /\ tdWord[tdQueue[l][k]] = "queue"
    BY DEF TdTyped, TdLined
  <2>2. \A l \in TdLists : \A k \in 1..Len(tdQueue[l]) : tdWord'[tdQueue[l][k]] = "queue"
    BY <1>1, <1>6, <2>1
  <2>3. \A u \in TdTexts : tdWord'[u] = "queue" => tdWord[u] = "queue"
    BY <1>6
  <2> QED BY <1>1, <2>2, <2>3 DEF TdLined
<1>9. TdHome'
  <2>1. ASSUME tdMay \cap {"user", "ask"} = {}, NEW n \in tdRun
        PROVE  \E u \in TdTexts : tdDest'[u] = n /\ tdJob'[u] \in {"lock", "turn"}
    <3>1. PICK u \in TdTexts : tdDest[u] = n /\ tdJob[u] \in {"lock", "turn"}
      BY <2>1 DEF TdHome
    <3> QED BY <1>5, <1>6, <3>1
  <2>2. \A u \in TdTexts :
            /\ tdWord'[u] = "queue" => tdWord[u] = "queue"
            /\ TdDrainer(u) => tdJob'[u] \in {"new", "lock", "turn", "reply", "await"}
    BY <1>5, <1>6 DEF TdDrainer
  <2> QED BY <1>1, <2>1, <2>2 DEF TdHome, TdDrainer
<1> QED BY <1>7, <1>8, <1>9

\* A delivery into the queue keeps the invariant, unless it may come in a rush.
LEMMA EnqueueKeeps ==
    ASSUME TdTyped, TdLined, TdHome, "rush" \notin tdMay,
           NEW t \in TdTexts, NEW m \in TdMembers, TdEnqueue(t, m)
    PROVE  TdTyped' /\ TdLined' /\ TdHome'
<1>1. /\ UNCHANGED <<tdMay, tdHas, tdJob, tdRun, tdUser, tdPark>>
      /\ tdDest' = [tdDest EXCEPT ![t] = m] /\ tdWord[t] = "unsent"
      /\ tdWord' = [tdWord EXCEPT ![t] = "queue"] /\ ~TdRoom
      /\ \A c \in TdTexts : tdJob[c] = "await" => tdHas[c] = tdList
  BY DEF TdEnqueue, TdSends, tdCase, tdTurns
<1>2. PICK l \in TdLists :
        /\ tdList # 0 => l = tdList
        /\ tdList = 0 => \A c \in TdTexts : tdHas[c] # l
        /\ tdList' = l /\ tdQueue' = [tdQueue EXCEPT ![l] = Append(tdQueue[l], t)]
  BY DEF TdEnqueue
<1>3. tdJob[t] = "none"
  BY <1>1 DEF TdTyped
<1>4. PICK q \in Seq(TdTexts) : q = tdQueue[l]
  BY DEF TdTyped
<1>5. PICK r \in Seq(TdTexts) : r = Append(q, t)
  BY AppendProperties
<1>6. /\ Len(r) = Len(q) + 1 /\ \A i \in 1..Len(q) : r[i] = q[i]
      /\ r[Len(q) + 1] = t /\ Len(q) \in Nat
  BY <1>5, AppendProperties, LenProperties
<1>7. tdQueue' = [tdQueue EXCEPT ![l] = r]
  BY <1>2, <1>4, <1>5
<1>8. /\ tdQueue' \in [TdLists -> Seq(TdTexts)] /\ tdQueue'[l] = r
      /\ \A i \in TdLists : i # l => tdQueue'[i] = tdQueue[i]
  BY <1>7 DEF TdTyped
<1>9. /\ tdWord' \in [TdTexts -> TdWords] /\ tdWord'[t] = "queue"
      /\ tdDest' \in [TdTexts -> TdMembers \cup {TdNone}]
      /\ \A u \in TdTexts : u # t => tdWord'[u] = tdWord[u] /\ tdDest'[u] = tdDest[u]
  BY <1>1 DEF TdTyped, TdWords
<1>10. TdTyped'
  BY <1>1, <1>2, <1>3, <1>8, <1>9 DEF TdTyped
<1>11. tdList \in TdLists \cup {0} /\ 0 \notin TdLists
  BY DEF TdTyped, TdLists, TdTexts
<1>4a. \A i \in TdLists : i # l => tdQueue[i] = <<>>
  BY <1>2, <1>11 DEF TdLined
<1>13. TdLined'
  <2>1. \A i \in TdLists : i # tdList' => tdQueue'[i] = <<>>
    BY <1>2, <1>8, <1>4a
  <2>2. \A c \in TdTexts : tdHas'[c] \notin {0, tdList'} => tdList' = 0
    <3>1. \A c \in TdTexts : tdHas[c] # 0 => tdHas[c] = tdList
      BY <1>1 DEF TdTyped
    <3> QED BY <1>1, <1>2, <3>1
  <2>3. \A k \in 1..Len(q) :
          /\ q[k] \in TdTexts /\ tdWord[q[k]] = "queue"
          /\ \A j \in 1..Len(q) : q[j] = q[k] => j = k
    BY <1>4 DEF TdLined
  <2>4. \A k \in 1..Len(q) : q[k] # t /\ tdWord'[q[k]] = "queue"
    BY <1>1, <1>9, <2>3
  <2>5. \A k \in 1..Len(r) : (k \in 1..Len(q) /\ r[k] = q[k]) \/ (k = Len(q) + 1 /\ r[k] = t)
    BY <1>6
  <2>6. \A k \in 1..Len(r) :
          /\ tdWord'[r[k]] = "queue"
          /\ \A j \in 1..Len(r) : r[j] = r[k] => j = k
    BY <1>9, <2>3, <2>4, <2>5
  <2>7. \A i \in TdLists : i # l => Len(tdQueue'[i]) = 0
    BY <1>8, <1>4a
  <2>8. \A i \in TdLists : \A k \in 1..Len(tdQueue'[i]) :
          /\ tdWord'[tdQueue'[i][k]] = "queue"
          /\ \A j \in 1..Len(tdQueue'[i]) : tdQueue'[i][j] = tdQueue'[i][k] => j = k
    BY <1>8, <2>6, <2>7
  <2>9. ASSUME NEW u \in TdTexts, tdWord'[u] = "queue"
        PROVE  \E i \in TdLists : \E k \in 1..Len(tdQueue'[i]) : tdQueue'[i][k] = u
    <3>1. CASE u = t
      <4>1. Len(q) + 1 \in 1..Len(r)
        BY <1>6
      <4> QED BY <1>6, <1>8, <3>1, <4>1
    <3>2. CASE u # t
      <4>1. tdWord[u] = "queue"
        BY <1>9, <2>9, <3>2
      <4>2. PICK i \in TdLists, k \in Nat : k \in 1..Len(tdQueue[i]) /\ tdQueue[i][k] = u
        BY <4>1 DEF TdLined
      <4>3. i = l
        BY <1>4a, <4>2
      <4>4. k \in 1..Len(r) /\ r[k] = u
        BY <1>4, <1>6, <4>2, <4>3
      <4> QED BY <1>8, <4>4
    <3> QED BY <3>1, <3>2
  <2> QED BY <2>1, <2>2, <2>8, <2>9 DEF TdLined
<1>14. TdHome'
  <2> SUFFICES ASSUME tdMay \cap {"user", "ask"} = {} PROVE TdHome'
    BY <1>1 DEF TdHome
  <2>1. ASSUME NEW n \in tdRun
        PROVE  \E u \in TdTexts : tdDest'[u] = n /\ tdJob'[u] \in {"lock", "turn"}
    <3>1. PICK u \in TdTexts : tdDest[u] = n /\ tdJob[u] \in {"lock", "turn"}
      BY <2>1 DEF TdHome
    <3> QED BY <1>1, <1>3, <1>9, <3>1
  <2>2. PICK n \in TdMembers : TdLive(n)
    <3>1. Cardinality({n \in TdMembers \ tdGone : TdLive(n)}) # 0
      BY <1>1, TdNumbers DEF TdRoom, TdRunning
    <3> QED BY <3>1, FS_EmptySet
  <2>3. n \in tdRun
    BY <2>2 DEF TdLive, TdHome
  <2> QED BY <1>1, <2>1, <2>3 DEF TdHome, TdDrainer
<1> QED BY <1>10, <1>13, <1>14
-----------------------------------------------------------------------------
\* The invariant holds at the beginning ...
LEMMA TdInitInv == TdInit => TdInv
<1> SUFFICES ASSUME TdInit PROVE TdInv
  OBVIOUS
<1>1. <<>> \in Seq(TdTexts) /\ Len(<<>>) = 0
  BY EmptySeq
<1>2. TdTyped
  BY <1>1 DEF TdInit, TdTyped, TdWords, TdPlaces
<1>3. TdLined
  BY <1>1 DEF TdInit, TdLined, TdLists
<1>4. TdHome
  BY DEF TdInit, TdHome
<1> QED BY <1>2, <1>3, <1>4 DEF TdInv

\* ... and every step keeps it.
LEMMA TdNextInv == TdInv /\ [TdNext]_tdVars => TdInv'
<1> SUFFICES ASSUME TdInv, [TdNext]_tdVars PROVE TdInv'
  OBVIOUS
<1>1. tdMay' = tdMay
  BY DEF TdNext, tdVars, tdCase, TdDeliver, TdEnqueue, TdSends, TdDrain, TdDrainOn, TdLoop,
         TdWatch, TdRegister, TdNeverRuns, TdStream, TdAbsorb, TdTurnEnd, TdAsk, TdUserActs,
         TdUserGo, TdRemove, TdTurnOnly
<1> SUFFICES ASSUME "rush" \notin tdMay, TdTyped, TdLined, TdHome
             PROVE  TdTyped' /\ TdLined' /\ TdHome'
  BY <1>1 DEF TdInv
<1>2. ASSUME NEW t \in TdTexts, NEW m \in TdMembers, TdDeliver(t, m) \/ TdEnqueue(t, m)
      PROVE  TdTyped' /\ TdLined' /\ TdHome'
  BY <1>2, DeliverKeeps, EnqueueKeeps
<1>3. ASSUME NEW t \in TdTexts, TdDrain(t) PROVE TdTyped' /\ TdLined' /\ TdHome'
  <2>1. tdJob[t] = "reply"
    BY <1>3 DEF TdDrain
  <2>2. CASE tdList # 0 /\ tdQueue[tdList] # <<>>
    <3>1. TdLoop(t, tdList) /\ tdList \in TdLists
      BY <1>3, <2>2 DEF TdDrain, TdTyped
    <3> QED BY <2>1, <3>1, LoopKeeps
  <2>3. CASE ~(tdList # 0 /\ tdQueue[tdList] # <<>>)
    <3>1. /\ tdJob' = [tdJob EXCEPT ![t] = "end"]
          /\ UNCHANGED <<tdMay, tdDest, tdWord, tdQueues, tdRun, tdUser, tdPark>>
      BY <1>3, <2>3 DEF TdDrain, tdCase, tdTurns
    <3>2. /\ tdJob' \in [TdTexts -> TdPlaces] /\ tdJob'[t] = "end"
          /\ \A u \in TdTexts : u # t => tdJob'[u] = tdJob[u]
      BY <3>1 DEF TdTyped, TdPlaces
    <3>3. TdTyped' /\ TdLined'
      <4>1. /\ tdWord' \in [TdTexts -> TdWords]
            /\ tdUser' \in [TdMembers -> {"no", "lock", "turn"}]
        BY <3>1 DEF TdTyped
      <4> QED BY <2>1, <3>1, <3>2, <4>1, QueuesAside
    <3>4. \A l \in TdLists : tdQueue[l] = <<>>
      BY <2>3 DEF TdLined, TdLists, TdTexts
    <3>5. \A l \in TdLists : Len(tdQueue[l]) = 0
      BY <3>4
    <3>6. \A u \in TdTexts : tdWord'[u] # "queue"
      BY <3>1, <3>5 DEF TdLined
    <3>7. TdHome'
      <4>1. \A u \in TdTexts : tdJob[u] \in {"lock", "turn"} => tdJob'[u] = tdJob[u]
        BY <2>1, <3>2
      <4> QED BY <3>1, <3>6, <4>1 DEF TdHome
    <3> QED BY <3>3, <3>7
  <2> QED BY <2>2, <2>3
<1>4. ASSUME NEW t \in TdTexts, TdDrainOn(t) PROVE TdTyped' /\ TdLined' /\ TdHome'
  <2>1. tdJob[t] = "await" /\ TdLoop(t, tdHas[t])
    BY <1>4 DEF TdDrainOn
  <2>2. tdHas[t] \in TdLists
    BY <2>1 DEF TdTyped
  <2> QED BY <2>1, <2>2, LoopKeeps
<1>5. ASSUME NEW t \in TdTexts, TdWatch(t) \/ TdRegister(t) \/ TdNeverRuns(t) \/ TdStream(t)
      PROVE  TdTyped' /\ TdLined' /\ TdHome'
  BY <1>5, WatchKeeps, RegisterKeeps
<1>6. ASSUME NEW m \in TdMembers,
             \/ TdAbsorb(m) \/ TdTurnEnd(m) \/ TdAsk(m)
             \/ TdUserActs(m) \/ TdUserGo(m) \/ TdRemove(m)
      PROVE  TdTyped' /\ TdLined' /\ TdHome'
  BY <1>6, AbsorbKeeps, EndKeeps, UserKeeps
<1>7. CASE UNCHANGED tdVars
  <2>1. UNCHANGED <<tdMay, tdDest, tdWord, tdJob, tdHas, tdList, tdQueue, tdRun, tdUser, tdPark>>
    BY <1>7 DEF tdVars, tdCase, tdQueues, tdTurns
  <2> QED BY <2>1 DEF TdTyped, TdLined, TdHome, TdDrainer
<1> QED BY <1>2, <1>3, <1>4, <1>5, <1>6, <1>7 DEF TdNext

\* What deliver has accepted into the queue of a team stays in a list that is
\* looked into, and without turns of the user somebody is on the way to look.
THEOREM Served == TdSpec => []TdServed
<1>1. TdInv => TdServed
  <2> SUFFICES ASSUME TdInv, "rush" \notin tdMay, NEW t \in TdTexts, tdWord[t] = "queue"
               PROVE  /\ TdReached(t)
                      /\ tdMay \cap {"user", "ask"} = {} => \E c \in TdTexts : TdDrainer(c)
    BY DEF TdServed
  <2>1. TdTyped /\ TdLined /\ TdHome
    BY DEF TdInv
  <2>2. PICK l \in TdLists, k \in Nat : k \in 1..Len(tdQueue[l]) /\ tdQueue[l][k] = t
    BY <2>1 DEF TdLined
  <2>3. l = tdList /\ l # 0
    BY <2>1, <2>2 DEF TdLined, TdLists, TdTexts
  <2>4. k \in DOMAIN tdQueue[l]
    BY <2>1, <2>2 DEF TdTyped
  <2>5. TdReached(t)
    BY <2>2, <2>3, <2>4 DEF TdReached
  <2>6. tdMay \cap {"user", "ask"} = {} => \E c \in TdTexts : TdDrainer(c)
    BY <2>1 DEF TdHome
  <2> QED BY <2>5, <2>6
<1> QED BY <1>1, TdInitInv, TdNextInv, PTL DEF TdSpec
=============================================================================
