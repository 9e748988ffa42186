---------------------------- MODULE WorkflowRun ----------------------------
(***************************************************************************)
(* One workflow run: the status on disk, the background tasks that drive   *)
(* its graph, and the requests that reach it (api/workflows.py,            *)
(* api/workflows_runs.py, workflows/engine.py, workflows/store.py, and the *)
(* workflow target of scheduler.py).                                       *)
(*                                                                         *)
(* A driver streams the graph node by node, a node may suspend for a       *)
(* decision, and a decision starts the next driver on the same checkpoint. *)
(* The registry of drivers holds one task; a done callback removes it and  *)
(* marks failed a run that its task left running.  The status is also      *)
(* recomputed from the steps, which makes a run done before a gate that    *)
(* follows its last step has been asked.                                   *)
(*                                                                         *)
(* The graph is a line of steps, one of which may ask, perhaps with a gate *)
(* at its end.  What a cancelled driver's superstep still writes, retries  *)
(* as a new run, soft failures and the binding to a chat are left out.     *)
(***************************************************************************)
EXTENDS Naturals

CONSTANTS
    WfSteps,    \* rows of the step table: nodes 1..WfSteps
    WfShapes,   \* the nodes that ask, one set per graph; WfSteps + 1 is a gate
    WfMax,      \* drivers a run may have (a bound)
    WfAsksLeft, \* requests of the user (a bound)
    WfBoots     \* restarts of the process (a bound)

ASSUME WfNumbers == WfSteps \in Nat \ {0} /\ WfMax \in Nat \ {0} /\ WfAsksLeft \in Nat /\ WfBoots \in Nat

VARIABLES
    wfShape,    \* the nodes that ask
    wfRush,     \* a request may meet a driver that starts or ends, and the
                \* scheduler's resume any driver
    wfStatus,   \* the run on disk; "gone" once deleted
    wfAt,       \* nodes the checkpoint has committed
    wfAsk,      \* what the checkpoint waits for: "no", "human", "manual"
    wfPc,       \* where each driver is
    wfPos,      \* nodes a driver has passed
    wfCut,      \* drivers that were cancelled
    wfTask,     \* _WF_RUN_TASKS, 0 for none
    wfControl,  \* _RUN_CONTROLS, 0 for none
    wfFlagged,  \* drivers asked to pause
    wfPoll,     \* the scheduled run that waits: off, poll, resume, ok, error
    wfLeft,
    wfBooted

wfDriver == <<wfPc, wfPos, wfCut, wfTask, wfControl, wfFlagged>>
wfVars == <<wfShape, wfRush, wfStatus, wfAt, wfAsk, wfDriver, wfPoll, wfLeft, wfBooted>>

WfDrivers == 1..WfMax
WfTerminal == {"done", "failed", "cancelled", "interrupted"}
WfLast == IF WfSteps + 1 \in wfShape THEN WfSteps + 1 ELSE WfSteps

\* its task has not ended
WfLive(d) == wfPc[d] \notin {"off", "gone"}
\* its graph is being executed
WfStreams(d) == wfPc[d] \in {"at", "in", "again", "parking"} /\ d \notin wfCut
WfQuiet == \A d \in WfDrivers : ~WfLive(d)

\* _set_run_status with only_from; a deleted run has no row to write
WfSet(status, from) == wfStatus' = IF wfStatus \in from THEN status ELSE wfStatus
WfRow == WfTerminal \cup {"running", "paused"}
WfMove(d, pc) == wfPc' = [wfPc EXCEPT ![d] = pc]

\* _spawn_run_task
WfSpawn(d, as) ==
    /\ wfPc[d] = "off" /\ \A e \in 1..(d - 1) : wfPc[e] # "off"
    /\ WfMove(d, as) /\ wfTask' = d
    /\ UNCHANGED <<wfPos, wfCut, wfControl, wfFlagged>>

\* the run is created by a request, or by the scheduler, which then polls it
WfInit ==
    /\ wfShape \in WfShapes /\ wfRush \in BOOLEAN
    /\ wfStatus = "running" /\ wfAt = 0 /\ wfAsk = "no"
    /\ wfPc = [d \in WfDrivers |-> IF d = 1 THEN "first" ELSE "off"]
    /\ wfPos = [d \in WfDrivers |-> 0]
    /\ wfCut = {} /\ wfTask = 1 /\ wfControl = 0 /\ wfFlagged = {}
    /\ wfPoll \in {"off", "poll"}
    /\ wfLeft = WfAsksLeft /\ wfBooted = 0
-----------------------------------------------------------------------------
(* The driver.                                                             *)

WfDrives(d, pc) == wfPc[d] = pc /\ d \notin wfCut
WfDriverOnly == UNCHANGED <<wfShape, wfRush, wfPoll, wfLeft, wfBooted>>

WfStarts(d, pc) ==
    /\ WfMove(d, pc) /\ wfControl' = d
    /\ wfPos' = [wfPos EXCEPT ![d] = wfAt]
    /\ UNCHANGED <<wfCut, wfTask, wfFlagged>>

\* _run_workflow_bg_inner refuses a terminal run
WfFirst(d) ==
    /\ WfDrives(d, "first")
    /\ IF wfStatus \in WfTerminal
       THEN WfMove(d, "over") /\ UNCHANGED <<wfPos, wfCut, wfTask, wfControl, wfFlagged>>
       ELSE WfStarts(d, "at")
    /\ UNCHANGED <<wfStatus, wfAt, wfAsk>> /\ WfDriverOnly

\* _resume_workflow_bg: a decided node finishes, a paused one runs again
WfResumed(d) ==
    /\ WfDrives(d, "resume")
    /\ WfSet("running", WfRow)
    /\ WfStarts(d, IF wfAsk = "human" THEN "again" ELSE "in")
    /\ wfAsk' = "no" /\ UNCHANGED wfAt /\ WfDriverOnly

\* _continue_run_bg, on the checkpoint as it is
WfContinued(d) ==
    /\ WfDrives(d, "continue")
    /\ WfSet("running", WfRow)
    /\ WfStarts(d, "at")
    /\ wfAsk' = "no" /\ UNCHANGED wfAt /\ WfDriverOnly

\* check_pause, at the entry of a node
WfEnter(d) ==
    /\ WfDrives(d, "at") /\ wfPos[d] < WfLast
    /\ IF d \in wfFlagged
       THEN WfMove(d, "parking") /\ wfAsk' = "manual" /\ wfFlagged' = wfFlagged \ {d}
       ELSE WfMove(d, "in") /\ UNCHANGED <<wfAsk, wfFlagged>>
    /\ UNCHANGED <<wfStatus, wfAt, wfPos, wfCut, wfTask, wfControl>> /\ WfDriverOnly

WfAskUser(d) ==
    /\ WfDrives(d, "in") /\ wfPos[d] + 1 \in wfShape
    /\ WfMove(d, "parking") /\ wfAsk' = "human"
    /\ UNCHANGED <<wfStatus, wfAt, wfPos, wfCut, wfTask, wfControl, wfFlagged>> /\ WfDriverOnly

\* a node ends: update_step recomputes a running run from its steps
WfExit(d) ==
    /\ \/ WfDrives(d, "in") /\ wfPos[d] + 1 \notin wfShape
       \/ WfDrives(d, "again")
    /\ LET at == wfPos[d] + 1 IN
         /\ wfPos' = [wfPos EXCEPT ![d] = at] /\ wfAt' = at
         /\ IF at = WfSteps THEN WfSet("done", {"running"}) ELSE UNCHANGED wfStatus
    /\ WfMove(d, "at")
    /\ UNCHANGED <<wfAsk, wfCut, wfTask, wfControl, wfFlagged>> /\ WfDriverOnly

\* the end of the generator: _run_control forgets its own entry only
WfEnds(d) ==
    /\ WfMove(d, "tail")
    /\ wfControl' = IF wfControl = d THEN 0 ELSE wfControl
    /\ wfFlagged' = wfFlagged \ {d}
    /\ UNCHANGED <<wfAt, wfAsk, wfPos, wfCut, wfTask>> /\ WfDriverOnly

\* the statuses the engine's "paused" may replace
\* mutant: a run that reads as done stays so
WfPausableRunning == {"running", "paused"}
WfPausable == {"running", "paused", "done"}
WfPaused(d) ==
    WfDrives(d, "parking") /\ WfSet("paused", WfPausable) /\ WfEnds(d)

WfDone(d) ==
    /\ WfDrives(d, "at") /\ wfPos[d] = WfLast
    /\ WfSet("done", {"running", "paused"}) /\ WfEnds(d)

WfFailed(d) ==
    /\ \E pc \in {"in", "again"} : WfDrives(d, pc)
    /\ WfSet("failed", {"running", "paused"}) /\ WfEnds(d)

\* the model or the tools cannot be built: _mark_run_failed, whatever the
\* status is
WfBreaks(d) ==
    /\ \E pc \in {"first", "resume", "continue"} : WfDrives(d, pc)
    /\ wfPc[d] = "first" => wfStatus \notin WfTerminal
    /\ WfSet("failed", WfRow) /\ WfEnds(d)

\* the last pushes of a driver, or its cancellation
WfOver(d) ==
    /\ WfLive(d) /\ wfPc[d] # "over" /\ (wfPc[d] = "tail" \/ d \in wfCut)
    /\ WfMove(d, "over")
    /\ wfControl' = IF wfControl = d THEN 0 ELSE wfControl
    /\ wfFlagged' = wfFlagged \ {d}
    /\ UNCHANGED <<wfStatus, wfAt, wfAsk, wfPos, wfCut, wfTask>> /\ WfDriverOnly

\* _on_done: whatever task is registered by now goes, and a run that is
\* still running is marked failed
WfReap(d) ==
    /\ wfPc[d] = "over" /\ WfMove(d, "gone") /\ wfTask' = 0
    /\ IF d \in wfCut THEN UNCHANGED wfStatus ELSE WfSet("failed", {"running"})
    /\ UNCHANGED <<wfAt, wfAsk, wfPos, wfCut, wfControl, wfFlagged>> /\ WfDriverOnly
-----------------------------------------------------------------------------
(* Requests.                                                               *)

WfAsked ==
    /\ wfLeft > 0 /\ wfLeft' = wfLeft - 1
    /\ wfRush \/ WfQuiet \/ \E d \in WfDrivers : WfStreams(d)
WfCancelTask ==
    wfCut' = IF wfTask # 0 /\ WfLive(wfTask) THEN wfCut \cup {wfTask} ELSE wfCut

\* resume_workflow_run_endpoint; decide is a resume
\* mutant: whatever the run's status is
WfResumableAlways == wfStatus # "gone"
WfResumable == wfStatus = "paused"
WfResume ==
    /\ WfAsked /\ WfResumable
    /\ \E d \in WfDrivers : WfSpawn(d, "resume")
    /\ UNCHANGED <<wfShape, wfRush, wfStatus, wfAt, wfAsk, wfPoll, wfBooted>>

WfPause ==
    /\ WfAsked /\ wfStatus = "running" /\ wfControl # 0
    /\ wfFlagged' = wfFlagged \cup {wfControl}
    /\ UNCHANGED <<wfShape, wfRush, wfStatus, wfAt, wfAsk, wfPc, wfPos, wfCut, wfTask, wfControl,
                   wfPoll, wfBooted>>

\* cancel_workflow_run_endpoint: whatever the status is
WfCancel ==
    /\ WfAsked /\ WfCancelTask /\ WfSet("cancelled", WfRow)
    /\ UNCHANGED <<wfShape, wfRush, wfAt, wfAsk, wfPc, wfPos, wfTask, wfControl, wfFlagged,
                   wfPoll, wfBooted>>

\* delete_workflow_run_endpoint
WfDelete ==
    /\ WfAsked /\ wfStatus # "gone" /\ wfStatus' = "gone"
    /\ IF wfStatus \in {"running", "paused"} THEN WfCancelTask ELSE UNCHANGED wfCut
    /\ wfTask' = 0 /\ wfAt' = 0 /\ wfAsk' = "no"
    /\ UNCHANGED <<wfShape, wfRush, wfPc, wfPos, wfControl, wfFlagged, wfPoll, wfBooted>>

\* _run_workflow_target, one poll
WfPollTick ==
    /\ wfPoll = "poll" /\ wfStatus \in WfTerminal \cup {"gone"}
    /\ wfPoll' = IF wfStatus = "done" THEN "ok" ELSE "error"
    /\ UNCHANGED <<wfShape, wfRush, wfStatus, wfAt, wfAsk, wfDriver, wfLeft, wfBooted>>

\* the statuses _reconcile_orphan_runs marks interrupted
\* mutant: the paused ones only
WfOrphanedPaused == {"paused"}
WfOrphaned == {"running"}

\* the process dies; _reconcile_orphan_runs before the scheduler starts, which
\* resumes the row that polls if it carries its workflow_run_id, or gives it up
WfRestart ==
    /\ wfBooted < WfBoots /\ wfBooted' = wfBooted + 1
    /\ wfPc' = [d \in WfDrivers |-> IF wfPc[d] = "off" THEN "off" ELSE "gone"]
    /\ wfCut' = {} /\ wfTask' = 0 /\ wfControl' = 0 /\ wfFlagged' = {}
    /\ WfSet("interrupted", WfOrphaned)
    /\ IF wfPoll = "poll" THEN wfPoll' \in {"resume", "off"} ELSE UNCHANGED wfPoll
    /\ UNCHANGED <<wfShape, wfRush, wfAt, wfAsk, wfPos, wfLeft>>

\* _resume_workflow_target: the first poll comes before the driver's first step
WfResumeTarget ==
    /\ wfPoll = "resume" /\ (wfRush \/ WfQuiet)
    /\ IF wfStatus = "gone"
       THEN wfPoll' = "error" /\ UNCHANGED wfDriver
       ELSE /\ \E d \in WfDrivers : WfSpawn(d, "continue")
            /\ wfPoll' = CASE wfStatus = "done" -> "ok"
                           [] wfStatus \in WfTerminal \ {"done"} -> "error"
                           [] OTHER -> "poll"
    /\ UNCHANGED <<wfShape, wfRush, wfStatus, wfAt, wfAsk, wfLeft, wfBooted>>
-----------------------------------------------------------------------------
WfDriverStep(d) ==
    \/ WfFirst(d) \/ WfResumed(d) \/ WfContinued(d) \/ WfEnter(d) \/ WfAskUser(d) \/ WfExit(d)
    \/ WfPaused(d) \/ WfDone(d) \/ WfFailed(d) \/ WfBreaks(d) \/ WfOver(d) \/ WfReap(d)

WfNext ==
    \/ \E d \in WfDrivers : WfDriverStep(d)
    \/ WfResume \/ WfPause \/ WfCancel \/ WfDelete
    \/ WfPollTick \/ WfRestart \/ WfResumeTarget

WfSpec == WfInit /\ [][WfNext]_wfVars
-----------------------------------------------------------------------------
\* A run that says running has a task that will end it: whatever breaks, is
\* decided twice or is cancelled (workflows_runs.py, _spawn_run_task).
WfNeverSilent == wfStatus = "running" => \E d \in WfDrivers : WfLive(d)

\* A run that failed, was cancelled or was interrupted executes no step, if
\* no request meets a driver that starts or ends.
WfEndedIsDead ==
    ~wfRush /\ wfStatus \in WfTerminal \ {"done"} => \A d \in WfDrivers : ~WfStreams(d)

\* The graph is executed by one driver at a time.
WfOneDriver == ~wfRush => \A d, e \in WfDrivers : WfStreams(d) /\ WfStreams(e) => d = e

\* A run whose checkpoint waits for a decision does not read as done, though
\* its steps are: the gate behind the last step stays decidable, unless the
\* process dies between the step and the gate.
WfDecidable ==
    ~wfRush /\ wfBooted = 0 /\ wfAsk # "no" /\ WfQuiet => wfStatus # "done"

\* A scheduled run is not recorded as failed when its workflow run is done.
WfVerdict == wfPoll = "error" => wfStatus # "done"
=============================================================================
