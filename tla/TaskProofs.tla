----------------------------- MODULE TaskProofs -----------------------------
(***************************************************************************)
(* Shell tasks: that the end of a task is reported once, and that no       *)
(* ordinary process is forgotten while it lives, for every set of tasks    *)
(* and every number of restarts.                                           *)
(*                                                                         *)
(* A report is final because a process that has ended stays ended: a task  *)
(* that was settled, or is being settled, has exited and its record is not *)
(* running, so neither a second pass of the reaper nor an adoption takes   *)
(* it up again.  An ordinary process is never forgotten because only       *)
(* detached tasks are ever adopted (in memory, in the index and in the     *)
(* copy of it that a removal holds), so that the registry's own task       *)
(* always has the handle a SIGKILL needs, because a runtime that goes      *)
(* loses every ordinary process that lives, and because a group loses its  *)
(* watchdog to the SIGTERM only that the group gets as well.               *)
(*                                                                         *)
(* Scheduled tasks: that a point of the plan is executed once, for every   *)
(* plan, step, grace and catch-up window, though a crash between the row   *)
(* of a run and the move of next_run_at gives its point a second row. A    *)
(* row counts when its run has begun, or will if the process lives.        *)
(* next_run_at (unless the tick is about to move it), the point a tick has *)
(* read and the points it holds to catch up with or to move to are later   *)
(* than every point counted. A run begins when the tick is done writing,   *)
(* so that the plan has moved past it by then; a row whose run a crash     *)
(* kept from beginning is not taken up again, and counts no more. The      *)
(* user's changes only plan points after now, and no executed point is.    *)
(*                                                                         *)
(* The plan forgets no point because a tick notes all that it passes       *)
(* before it moves next_run_at: what lies behind next_run_at, or behind    *)
(* the point the tick is about to move it to, has its row or is still to   *)
(* be noted.                                                               *)
(***************************************************************************)
EXTENDS Integers, TaskRegistry, TaskSchedule, SequenceTheorems, TLAPS

(* Shell tasks.                                                            *)

\* a function on the tasks, whatever its values
TkByTask(f) == f = [t \in TkTasks |-> f[t]]

TkTyped ==
    /\ TkByTask(tkProc) /\ TkByTask(tkRec) /\ TkByTask(tkIndex)
    /\ tkCopy # TkNone => TkByTask(tkCopy.index)
    /\ tkFinal \in TkTasks \cup {TkNone}
    /\ tkNotices \in [TkTasks -> Nat]

\* an index in which only detached tasks are marked as adoptable
TkAdoptsDetached(index) == \A t \in TkTasks : index[t].adoptable => t \in TkDetached

TkAdoption ==
    /\ tkAdopted \subseteq TkDetached
    /\ TkAdoptsDetached(tkIndex)
    /\ tkCopy # TkNone => TkAdoptsDetached(tkCopy.index)

\* a runtime that is gone knows nothing
TkDown == ~tkUp => tkMem = {} /\ tkKill = {} /\ tkSnap = {}

\* the ends of t that were reported or are about to be
TkEnds(t) == tkNotices[t] + IF tkFinal = t THEN 1 ELSE 0

TkSettled ==
    \A t \in TkTasks :
        /\ TkEnds(t) <= 1
        /\ TkEnds(t) > 0 => tkProc[t] = "exited" /\ tkRec[t] # "running"

TkInductive == TkTyped /\ TkAdoption /\ TkDown /\ TkSettled /\ TkNoOrphan
-----------------------------------------------------------------------------
\* The invariant of the registry holds at the beginning.
LEMMA TkInitInductive == TkInit => TkInductive
  <1> SUFFICES ASSUME TkInit PROVE TkInductive
    OBVIOUS
  <1>1. TkTyped
    BY DEF TkInit, TkTyped, TkByTask, TkAbsent, TkEntry
  <1>2. TkAdoption
    BY DEF TkInit, TkAdoption, TkAdoptsDetached, TkAbsent, TkEntry
  <1>3. TkDown /\ TkNoOrphan
    BY DEF TkInit, TkDown, TkNoOrphan
  <1>4. TkSettled
    BY TkNoneAssumption DEF TkInit, TkSettled, TkEnds
  <1> QED BY <1>1, <1>2, <1>3, <1>4 DEF TkInductive

\* A process exits: what is settled stays so, and it is alive no longer.
LEMMA TkExitKeeps ==
    ASSUME TkInductive, NEW t \in TkTasks, TkEnd(t) \/ TkDie(t)
    PROVE  TkInductive'
  <1>1. /\ tkProc' = [tkProc EXCEPT ![t] = "exited"]
        /\ UNCHANGED <<tkTermed, tkWatch>>
        /\ UNCHANGED <<tkUp, tkKill, tkLost, tkMem, tkRec, tkAdopted, tkIndex, tkSnap, tkFinal,
                       tkCopy, tkNotices>>
    BY DEF TkEnd, TkDie, TkExited
  <1>2. TkTyped' /\ TkAdoption' /\ TkDown'
    BY <1>1 DEF TkInductive, TkTyped, TkByTask, TkAdoption, TkAdoptsDetached, TkDown
  <1>3. TkSettled'
    BY <1>1 DEF TkInductive, TkTyped, TkByTask, TkSettled, TkEnds
  <1>4. TkNoOrphan'
    BY <1>1 DEF TkInductive, TkTyped, TkByTask, TkNoOrphan, TkRunning
  <1> QED BY <1>2, <1>3, <1>4 DEF TkInductive

\* A watchdog that has lost its runtime sends its group a SIGTERM.
LEMMA TkWatchdogKeeps ==
    ASSUME TkInductive, NEW t \in TkTasks, TkWatchdog(t)
    PROVE  TkInductive'
  <1>1. /\ tkTermed \cup tkWatch \subseteq tkTermed' \cup tkWatch'
        /\ UNCHANGED <<tkUp, tkProc, tkKill, tkLost, tkMem, tkRec, tkAdopted, tkIndex, tkSnap,
                       tkFinal, tkCopy, tkNotices>>
    BY DEF TkWatchdog
  <1>2. TkTyped' /\ TkAdoption' /\ TkDown'
    BY <1>1 DEF TkInductive, TkTyped, TkByTask, TkAdoption, TkAdoptsDetached, TkDown
  <1>3. TkSettled' /\ TkNoOrphan'
    BY <1>1 DEF TkInductive, TkSettled, TkEnds, TkNoOrphan, TkRunning
  <1> QED BY <1>2, <1>3 DEF TkInductive

\* A task is spawned: it had no process, so nothing was reported of it.
LEMMA TkSpawnKeeps ==
    ASSUME TkInductive, NEW t \in TkTasks, TkSpawn(t)
    PROVE  TkInductive'
  <1>1. /\ tkUp /\ tkProc[t] = "none"
        /\ tkProc' = [tkProc EXCEPT ![t] = "alive"]
        /\ tkMem' = tkMem \cup {t} /\ tkRec' = [tkRec EXCEPT ![t] = "running"]
        /\ tkIndex' = [tkIndex EXCEPT ![t] = TkEntry("running", FALSE)]
        /\ tkTermed' = tkTermed /\ tkWatch \subseteq tkWatch'
        /\ (t \notin TkDetached => t \in tkWatch')
        /\ UNCHANGED <<tkUp, tkKill, tkLost, tkAdopted, tkSnap, tkFinal, tkCopy, tkNotices>>
    BY DEF TkSpawn, tkLoop
  <1>2. TkTyped'
    BY <1>1 DEF TkInductive, TkTyped, TkByTask, TkEntry
  <1>3. TkAdoption'
    BY <1>1 DEF TkInductive, TkTyped, TkByTask, TkAdoption, TkAdoptsDetached, TkEntry
  <1>4. TkDown'
    BY <1>1 DEF TkDown
  <1>5. TkSettled'
    BY <1>1 DEF TkInductive, TkTyped, TkByTask, TkSettled, TkEnds
  <1>6. TkNoOrphan'
    BY <1>1 DEF TkInductive, TkTyped, TkByTask, TkNoOrphan, TkRunning
  <1> QED BY <1>2, <1>3, <1>4, <1>5, <1>6 DEF TkInductive

\* An ordinary task of the registry is its own child: the signal that stops it
\* is followed by a SIGKILL.
LEMMA TkSignalled ==
    ASSUME TkInductive, NEW t \in TkTasks \ TkDetached, TkSignalStop(t)
    PROVE  t \in tkKill'
  BY DEF TkInductive, TkAdoption, TkSignalStop

\* A stop keeps it, whoever asks for it.
LEMMA TkStopKeeps ==
    ASSUME TkInductive, NEW t \in TkTasks, TkStopTask(t)
    PROVE  TkInductive'
  <1>1. /\ tkUp /\ tkKill \subseteq tkKill'
        /\ tkTermed \cup tkWatch \subseteq tkTermed' \cup tkWatch'
        /\ UNCHANGED <<tkUp, tkProc, tkLost, tkMem, tkRec, tkAdopted, tkIndex, tkSnap, tkFinal,
                       tkCopy, tkNotices>>
    BY DEF TkStopTask, TkSignalStop, tkLoop
  <1>2. TkTyped' /\ TkAdoption' /\ TkDown'
    BY <1>1 DEF TkInductive, TkTyped, TkByTask, TkAdoption, TkAdoptsDetached, TkDown
  <1>3. TkSettled' /\ TkNoOrphan'
    BY <1>1 DEF TkInductive, TkSettled, TkEnds, TkNoOrphan, TkRunning
  <1> QED BY <1>2, <1>3 DEF TkInductive

\* A removal forgets a task it has stopped, or one that does not run.
LEMMA TkRemoveKeeps ==
    ASSUME TkInductive, NEW t \in TkTasks, TkRemove(t)
    PROVE  TkInductive'
  <1>1. /\ tkTermed \cup tkWatch \subseteq tkTermed' \cup tkWatch'
        /\ tkUp /\ tkKill \subseteq tkKill' /\ tkMem' = tkMem \ {t}
        /\ tkCopy' = [task |-> t, index |-> tkIndex]
        /\ UNCHANGED <<tkUp, tkProc, tkLost, tkRec, tkAdopted, tkIndex, tkSnap, tkFinal,
                       tkNotices>>
    BY DEF TkRemove, TkSignalStop, TkNoSignal, tkLoop
  <1>2. TkTyped' /\ TkAdoption' /\ TkDown'
    BY <1>1 DEF TkInductive, TkTyped, TkByTask, TkAdoption, TkAdoptsDetached, TkDown
  <1>3. TkSettled'
    BY <1>1 DEF TkInductive, TkSettled, TkEnds
  <1>4. t \in TkRunning /\ t \notin TkDetached => t \in tkKill'
    BY TkSignalled DEF TkRemove, TkToKill
  <1>5. TkNoOrphan'
    <2> SUFFICES ASSUME NEW u \in TkTasks \ TkDetached, tkProc[u] = "alive"
                 PROVE  /\ u \in TkRunning' \/ u \in tkKill' \/ u \in tkLost
                        /\ u \in tkTermed' \/ u \in tkWatch'
      BY <1>1 DEF TkNoOrphan
    <2>1. /\ u \in TkRunning \/ u \in tkKill \/ u \in tkLost
          /\ u \in tkTermed \/ u \in tkWatch
      BY DEF TkInductive, TkNoOrphan
    <2>2. u \in TkRunning => u = t \/ u \in TkRunning'
      BY <1>1 DEF TkRunning
    <2> QED BY <1>1, <1>4, <2>1, <2>2
  <1> QED BY <1>2, <1>3, <1>5 DEF TkInductive

\* The index a removal writes is an old one; no process depends on it.
LEMMA TkRemovedKeeps ==
    ASSUME TkInductive, TkRemoved
    PROVE  TkInductive'
  <1>1. /\ tkCopy # TkNone /\ tkCopy' = TkNone
        /\ tkIndex' = [tkCopy.index EXCEPT ![tkCopy.task] = TkAbsent]
        /\ UNCHANGED <<tkTermed, tkWatch>>
        /\ UNCHANGED <<tkUp, tkProc, tkKill, tkLost, tkMem, tkRec, tkAdopted, tkSnap, tkFinal,
                       tkNotices>>
    BY DEF TkRemoved, tkLoop
  <1>2. TkTyped' /\ TkAdoption'
    BY <1>1 DEF TkInductive, TkTyped, TkByTask, TkAdoption, TkAdoptsDetached, TkAbsent, TkEntry
  <1>3. TkDown' /\ TkSettled' /\ TkNoOrphan'
    BY <1>1 DEF TkInductive, TkDown, TkSettled, TkEnds, TkNoOrphan, TkRunning
  <1> QED BY <1>2, <1>3 DEF TkInductive

\* The reaper's reading of the list keeps it.
LEMMA TkReapBeginKeeps ==
    ASSUME TkInductive, TkReapBegin \/ UNCHANGED tkVars
    PROVE  TkInductive'
  <1>1. /\ tkSnap' = tkSnap \/ tkUp
        /\ UNCHANGED <<tkTermed, tkWatch>>
        /\ UNCHANGED <<tkUp, tkProc, tkKill, tkLost, tkMem, tkRec, tkAdopted, tkIndex, tkFinal,
                       tkCopy, tkNotices>>
    BY DEF TkReapBegin, tkVars, tkOs, tkLoop
  <1>2. TkTyped' /\ TkAdoption' /\ TkDown'
    BY <1>1 DEF TkInductive, TkTyped, TkByTask, TkAdoption, TkAdoptsDetached, TkDown
  <1>3. TkSettled' /\ TkNoOrphan'
    BY <1>1 DEF TkInductive, TkSettled, TkEnds, TkNoOrphan, TkRunning
  <1> QED BY <1>2, <1>3 DEF TkInductive

\* The reaper looks at a task that has ended and is not settled: it settles it.
\* Of any other it may only send a signal.
LEMMA TkReapKeeps ==
    ASSUME TkInductive, NEW t \in TkTasks, TkReap(t)
    PROVE  TkInductive'
  <1>1. /\ tkTermed \cup tkWatch \subseteq tkTermed' \cup tkWatch'
        /\ t \in tkSnap /\ tkFinal = TkNone /\ tkSnap' \subseteq tkSnap /\ tkKill \subseteq tkKill'
        /\ UNCHANGED <<tkUp, tkProc, tkLost, tkMem, tkAdopted, tkIndex, tkCopy, tkNotices>>
    BY DEF TkReap, TkNoSignal, TkSignalStop
  <1>2. tkUp
    BY <1>1 DEF TkInductive, TkDown
  <1>3. CASE TkEnded(t)
    <2>1. tkFinal' = t /\ tkRec' = [tkRec EXCEPT ![t] = TkOutcome(t)]
      BY <1>3 DEF TkReap
    <2>2. TkOutcome(t) # "running"
      BY DEF TkOutcome
    <2>3. TkTyped' /\ TkAdoption' /\ TkDown'
      BY <1>1, <1>2, <2>1
      DEF TkInductive, TkTyped, TkByTask, TkAdoption, TkAdoptsDetached, TkDown
    <2>4. TkSettled'
      <3> SUFFICES ASSUME NEW u \in TkTasks
                   PROVE  /\ TkEnds(u)' <= 1
                          /\ TkEnds(u)' > 0 => tkProc[u] = "exited" /\ tkRec'[u] # "running"
        BY <1>1 DEF TkSettled
      <3>1. /\ TkEnds(u) <= 1
            /\ TkEnds(u) > 0 => tkProc[u] = "exited" /\ tkRec[u] # "running"
            /\ tkNotices[u] \in Nat
        BY DEF TkInductive, TkSettled, TkTyped
      <3>2. TkEnds(u) = tkNotices[u]
        BY <1>1, <3>1, TkNoneAssumption DEF TkEnds
      <3>3. TkEnds(u)' = tkNotices[u] + IF u = t THEN 1 ELSE 0
        BY <1>1, <2>1 DEF TkEnds
      <3>4. tkRec'[u] = IF u = t THEN TkOutcome(t) ELSE tkRec[u]
        <4>1. TkByTask(tkRec)
          BY DEF TkInductive, TkTyped
        <4> QED BY <2>1, <4>1 DEF TkByTask
      <3>5. CASE u = t
        BY <1>3, <2>2, <3>1, <3>2, <3>3, <3>4, <3>5 DEF TkEnded
      <3>6. CASE u # t
        BY <3>1, <3>2, <3>3, <3>4, <3>6
      <3> QED BY <3>5, <3>6
    <2>5. TkNoOrphan'
      BY <1>1, <1>3, <2>1 DEF TkEnded, TkInductive, TkTyped, TkByTask, TkNoOrphan, TkRunning
    <2> QED BY <2>3, <2>4, <2>5 DEF TkInductive
  <1>4. CASE ~TkEnded(t)
    <2>1. UNCHANGED <<tkRec, tkFinal>>
      BY <1>4 DEF TkReap
    <2>2. TkTyped' /\ TkAdoption' /\ TkDown'
      BY <1>1, <1>2, <2>1
      DEF TkInductive, TkTyped, TkByTask, TkAdoption, TkAdoptsDetached, TkDown
    <2>3. TkSettled' /\ TkNoOrphan'
      BY <1>1, <2>1 DEF TkInductive, TkSettled, TkEnds, TkNoOrphan, TkRunning
    <2> QED BY <2>2, <2>3 DEF TkInductive
  <1> QED BY <1>3, <1>4

\* The task the reaper is settling is reported: what was about to be reported
\* has been.
LEMMA TkFinalizeKeeps ==
    ASSUME TkInductive, TkFinalize
    PROVE  TkInductive'
  <1>1. /\ tkFinal \in TkTasks /\ tkFinal' = TkNone
        /\ tkIndex' = [tkIndex EXCEPT ![tkFinal] = TkEntry(tkRec[tkFinal], tkFinal \in tkAdopted)]
        /\ tkNotices' = [tkNotices EXCEPT ![tkFinal] = @ + 1]
        /\ UNCHANGED <<tkTermed, tkWatch>>
        /\ UNCHANGED <<tkUp, tkProc, tkKill, tkLost, tkMem, tkRec, tkAdopted, tkSnap, tkCopy>>
    BY DEF TkFinalize, TkInductive, TkTyped, tkOs
  <1>2. TkTyped'
    <2>1. TkByTask(tkIndex')
      BY <1>1 DEF TkInductive, TkTyped, TkByTask
    <2>2. tkNotices' \in [TkTasks -> Nat]
      BY <1>1 DEF TkInductive, TkTyped
    <2> QED BY <1>1, <2>1, <2>2 DEF TkInductive, TkTyped, TkByTask
  <1>3. TkAdoption' /\ TkDown'
    <2>1. ASSUME NEW u \in TkTasks, tkIndex'[u].adoptable PROVE u \in TkDetached
      <3>1. tkIndex'[u].adoptable =
                IF u = tkFinal THEN tkFinal \in tkAdopted ELSE tkIndex[u].adoptable
        BY <1>1 DEF TkInductive, TkTyped, TkByTask, TkEntry
      <3> QED BY <2>1, <3>1 DEF TkInductive, TkAdoption, TkAdoptsDetached
    <2> QED BY <1>1, <2>1 DEF TkInductive, TkAdoption, TkAdoptsDetached, TkDown
  <1>4. ASSUME NEW u \in TkTasks PROVE TkEnds(u)' = TkEnds(u)
    <2>1. tkNotices \in [TkTasks -> Nat]
      BY DEF TkInductive, TkTyped
    <2> QED BY <1>1, <2>1, TkNoneAssumption DEF TkEnds
  <1>5. TkSettled' /\ TkNoOrphan'
    BY <1>1, <1>4 DEF TkInductive, TkSettled, TkNoOrphan, TkRunning
  <1> QED BY <1>2, <1>3, <1>5 DEF TkInductive

\* The runtime goes: every ordinary process that lives has lost it, and keeps
\* its watchdog or was told to end.
LEMMA TkGoneKeeps ==
    ASSUME TkInductive, TkCrash \/ TkQuit
    PROVE  TkInductive'
  <1>1. /\ ~tkUp' /\ tkMem' = {} /\ tkSnap' = {} /\ tkFinal' = TkNone /\ tkCopy' = TkNone
        /\ tkKill' = {} /\ tkAdopted' = {} /\ tkRec' = [t \in TkTasks |-> "none"]
        /\ UNCHANGED <<tkIndex, tkNotices>>
    BY DEF TkCrash, TkQuit, TkForget
  <1>2. TkByTask(tkProc')
    BY DEF TkCrash, TkQuit, TkInductive, TkTyped, TkByTask
  <1>3. ASSUME NEW t \in TkTasks, tkProc[t] = "exited" PROVE tkProc'[t] = "exited"
    BY <1>3 DEF TkCrash, TkQuit
  <1>4. TkTyped' /\ TkAdoption' /\ TkDown'
    BY <1>1, <1>2 DEF TkInductive, TkTyped, TkByTask, TkAdoption, TkAdoptsDetached, TkDown
  <1>5. TkSettled'
    <2> SUFFICES ASSUME NEW t \in TkTasks
                 PROVE  /\ TkEnds(t)' <= 1
                        /\ TkEnds(t)' > 0 => tkProc'[t] = "exited"
      BY <1>1 DEF TkSettled
    <2>1. /\ tkNotices[t] \in Nat /\ TkEnds(t) <= 1
          /\ TkEnds(t) > 0 => tkProc[t] = "exited"
      BY DEF TkInductive, TkTyped, TkSettled
    <2>2. TkEnds(t)' = tkNotices[t] /\ tkNotices[t] <= TkEnds(t)
      BY <1>1, <2>1, TkNoneAssumption DEF TkEnds
    <2> QED BY <1>3, <2>1, <2>2 DEF TkEnds
  <1>6. ASSUME NEW t \in TkTasks \ TkDetached, tkProc'[t] = "alive"
        PROVE  t \in tkLost' /\ (t \in tkTermed' \/ t \in tkWatch')
    <2>1. t \in tkLost' /\ tkProc[t] = "alive"
      BY <1>6 DEF TkCrash, TkQuit
    <2>2. t \in tkTermed \/ t \in tkWatch
      BY <2>1 DEF TkInductive, TkNoOrphan
    <2> QED BY <2>1, <2>2 DEF TkCrash, TkQuit
  <1>7. TkNoOrphan'
    BY <1>6 DEF TkNoOrphan
  <1> QED BY <1>4, <1>5, <1>7 DEF TkInductive

\* The runtime starts: it adopts detached tasks whose process lives.
LEMMA TkAdopts ==
    ASSUME TkInductive, NEW t \in TkTasks
    PROVE  /\ TkAdopt(t).adoptable => t \in TkDetached
           /\ TkAdopt(t).status = "running" => t \in TkDetached /\ tkProc[t] = "alive"
  <1>1. tkIndex[t].adoptable => t \in TkDetached
    BY DEF TkInductive, TkAdoption, TkAdoptsDetached
  <1>2. TkMigrated(t).status # "running" /\ (TkMigrated(t).adoptable => t \in TkDetached)
    BY <1>1 DEF TkMigrated, TkEntry
  <1> QED BY <1>2 DEF TkAdopt, TkEntry

\* The start of a runtime, with its adoptions, keeps it.
LEMMA TkStartKeeps ==
    ASSUME TkInductive, TkStart
    PROVE  TkInductive'
  <1>1. /\ ~tkUp /\ tkUp'
        /\ tkIndex' = [t \in TkTasks |-> TkAdopt(t)]
        /\ tkAdopted' = {t \in TkTasks : TkAdopt(t).status = "running"}
        /\ tkRec' = [t \in TkTasks |-> IF TkAdopt(t).status = "running" THEN "running" ELSE "none"]
        /\ UNCHANGED <<tkProc, tkTermed, tkWatch, tkLost, tkKill, tkFinal, tkCopy, tkNotices>>
    BY DEF TkStart, tkOs, tkLoop
  <1>2. TkTyped' /\ TkDown'
    BY <1>1 DEF TkInductive, TkTyped, TkByTask, TkDown
  <1>3. TkAdoption'
    BY <1>1, TkAdopts DEF TkInductive, TkAdoption, TkAdoptsDetached
  <1>4. TkSettled'
    <2> SUFFICES ASSUME NEW t \in TkTasks, TkEnds(t) > 0
                 PROVE  tkRec'[t] # "running"
      BY <1>1 DEF TkSettled, TkEnds, TkInductive
    <2>1. tkProc[t] = "exited"
      BY DEF TkInductive, TkSettled
    <2>2. TkAdopt(t).status # "running"
      BY <2>1, TkAdopts
    <2> QED BY <1>1, <2>2
  <1>5. TkNoOrphan'
    <2> SUFFICES ASSUME NEW t \in TkTasks \ TkDetached, tkProc[t] = "alive"
                 PROVE  t \in tkLost /\ (t \in tkTermed \/ t \in tkWatch)
      BY <1>1 DEF TkNoOrphan
    <2>1. tkMem = {} /\ tkKill = {}
      BY <1>1 DEF TkInductive, TkDown
    <2> QED BY <2>1 DEF TkInductive, TkNoOrphan, TkRunning
  <1> QED BY <1>2, <1>3, <1>4, <1>5 DEF TkInductive

\* Every step keeps the invariant.
LEMMA TkStepInductive == TkInductive /\ [TkNext]_tkVars => TkInductive'
  <1> SUFFICES ASSUME TkInductive, [TkNext]_tkVars PROVE TkInductive'
    OBVIOUS
  <1>1. CASE \E t \in TkTasks : TkEnd(t) \/ TkDie(t)
    BY <1>1, TkExitKeeps
  <1>2. CASE \E t \in TkTasks : TkSpawn(t)
    BY <1>2, TkSpawnKeeps
  <1>3. CASE \E t \in TkTasks : TkStopTask(t)
    BY <1>3, TkStopKeeps
  <1>4. CASE \E t \in TkTasks : TkRemove(t)
    BY <1>4, TkRemoveKeeps
  <1>5. CASE \E t \in TkTasks : TkReap(t)
    BY <1>5, TkReapKeeps
  <1>6. CASE TkRemoved
    BY <1>6, TkRemovedKeeps
  <1>7. CASE TkReapBegin \/ UNCHANGED tkVars
    BY <1>7, TkReapBeginKeeps
  <1>8. CASE TkFinalize
    BY <1>8, TkFinalizeKeeps
  <1>9. CASE TkCrash \/ TkQuit
    BY <1>9, TkGoneKeeps
  <1>10. CASE TkStart
    BY <1>10, TkStartKeeps
  <1>11. CASE \E t \in TkTasks : TkWatchdog(t)
    BY <1>11, TkWatchdogKeeps
  <1> QED BY <1>1, <1>2, <1>3, <1>4, <1>5, <1>6, <1>7, <1>8, <1>9, <1>10, <1>11 DEF TkNext

\* The invariant of the registry holds in every reachable state.
LEMMA TkAlwaysInductive == TkSpec => []TkInductive
  BY TkInitInductive, TkStepInductive, PTL DEF TkSpec

\* The reaper, stops, removals and adoptions report the end of a task at most
\* once (registry.py, _finalize and _adopt_detached).
THEOREM NoticeOnce == TkSpec => []TkNoticeOnce
  <1>1. TkInductive => TkNoticeOnce
    <2> SUFFICES ASSUME TkInductive, NEW t \in TkTasks PROVE tkNotices[t] <= 1
      BY DEF TkNoticeOnce
    <2>1. tkNotices[t] \in Nat /\ TkEnds(t) <= 1
      BY DEF TkInductive, TkTyped, TkSettled
    <2> QED BY <2>1 DEF TkEnds
  <1> QED BY <1>1, TkAlwaysInductive, PTL

\* An ordinary process that lives is a running task of the registry, is about to
\* be killed, or has lost its runtime; and it was told to end, or has a watchdog
\* that tells it when the runtime goes (registry.py, remove and stop_all).
THEOREM NoOrphan == TkSpec => []TkNoOrphan
  <1>1. TkInductive => TkNoOrphan
    BY DEF TkInductive
  <1> QED BY <1>1, TkAlwaysInductive, PTL
-----------------------------------------------------------------------------
(* Scheduled tasks.                                                        *)

TsRowSet == [point : Nat, trigger : {"schedule", "catch_up", "manual"},
             status : {"running", "ended"}, started : Nat, begun : BOOLEAN]

TsPointTick == [stage : {"read", "due"}, now : Nat, next : Nat]
TsNoteTick == [stage : {"note"}, left : SUBSET Nat, next : Nat, catch : SUBSET Nat]
TsCatchTick == [stage : {"catch"}, next : Nat]
TsTickSet == [stage : {"idle"}] \cup TsPointTick \cup TsNoteTick \cup TsCatchTick

\* The planned rows whose run has begun, or will if the process lives: a row a
\* crash left behind before its run began counts no more.
TsCounts(i) == TsPlanned(i) /\ (tsRuns[i].begun \/ i = tsLive)

\* No such row, or none that has begun, has a point at or after p.
TsBehind(p) == \A i \in DOMAIN tsRuns : TsCounts(i) => tsRuns[i].point < p
TsDoneBefore(p) == \A i \in DOMAIN tsRuns : TsExecuted(i) => tsRuns[i].point < p

TsTyped ==
    /\ tsKind \in TsKinds
    /\ tsNow \in Nat /\ tsNext \in Nat /\ tsLive \in Nat
    /\ tsRuns \in Seq(TsRowSet)
    /\ tsTick \in TsTickSet

\* What the tick is at lies behind nothing it counts.
TsTickSane ==
    /\ tsTick.stage \in {"read", "due"} =>
        /\ tsTick.now <= tsNow
        /\ tsTick.next # TsNever => TsBehind(tsTick.next)
        /\ tsTick.stage = "due" => tsTick.next # TsNever /\ tsTick.next <= tsTick.now
    /\ tsTick.stage = "note" =>
        /\ tsTick.next # TsNever => TsBehind(tsTick.next)
        /\ \A p \in tsTick.catch :
            /\ p <= tsNow /\ TsBehind(p)
            /\ tsTick.next # TsNever => p < tsTick.next
    /\ tsTick.stage = "catch" =>
        /\ tsTick.next <= tsNow /\ TsBehind(tsTick.next)
        /\ tsNext # TsNever => tsTick.next < tsNext

TsPast == \A i \in DOMAIN tsRuns : TsPlanned(i) => tsRuns[i].point <= tsNow

\* While the tick has its notes to write next_run_at may still be the point of
\* the run that is about to begin.
TsAhead ==
    tsNext # TsNever =>
        TsDoneBefore(tsNext) /\ (tsTick.stage # "note" => TsBehind(tsNext))

TsCountedOnce ==
    \A i, j \in DOMAIN tsRuns :
        TsCounts(i) /\ TsCounts(j) /\ tsRuns[i].point = tsRuns[j].point => i = j

\* Executed points are past, the planned point and the point being looked at
\* are later than all of them.
TsInductive == TsTyped /\ TsTickSane /\ TsPast /\ TsAhead /\ TsCountedOnce

\* What the tick holds at each stage.
LEMMA TickShapes ==
    ASSUME TsTyped
    PROVE  /\ tsTick.stage \in {"idle", "read", "due", "note", "catch"}
           /\ tsTick.stage \in {"read", "due"} => tsTick \in TsPointTick
           /\ tsTick.stage = "note" => tsTick \in TsNoteTick
           /\ tsTick.stage = "catch" => tsTick \in TsCatchTick
<1>1. \/ tsTick \in [stage : {"idle"}] \/ tsTick \in TsPointTick
      \/ tsTick \in TsNoteTick \/ tsTick \in TsCatchTick
  BY DEF TsTyped, TsTickSet
<1>2. CASE tsTick \in [stage : {"idle"}] BY <1>2
<1>3. CASE tsTick \in TsPointTick BY <1>3 DEF TsPointTick
<1>4. CASE tsTick \in TsNoteTick BY <1>4 DEF TsNoteTick
<1>5. CASE tsTick \in TsCatchTick BY <1>5 DEF TsCatchTick
<1> QED BY <1>1, <1>2, <1>3, <1>4, <1>5

\* A plan that starts anew starts after now.
LEMMA ComputeAfter ==
    ASSUME tsNow \in Nat, TsCompute(tsNow) # TsNever, tsKind \in TsKinds
    PROVE  TsCompute(tsNow) \in Nat /\ TsCompute(tsNow) > tsNow
<1>1. TsStep \in Nat \ {0} /\ tsKind \in {"interval", "calendar", "once"} BY TsNumbers
<1>2. CASE tsKind = "interval" BY <1>1, <1>2 DEF TsCompute
<1>3. CASE tsKind = "calendar"
  <2>1. tsNow % TsStep \in 0..TsStep - 1 BY <1>1
  <2> QED BY <1>1, <1>3, <2>1 DEF TsCompute
<1>4. CASE tsKind = "once" BY <1>1, <1>4 DEF TsCompute, TsNever
<1> QED BY <1>1, <1>2, <1>3, <1>4

\* The next point of a plan is a later one.
LEMMA StepAfter ==
    ASSUME NEW p \in Nat
    PROVE  TsStepPoint(p) \in Nat /\ (TsStepPoint(p) # TsNever => TsStepPoint(p) > p)
BY TsNumbers DEF TsStepPoint, TsNever

\* Missed points lie between the plan and now.
LEMMA MissedRange ==
    ASSUME tsNow \in Nat, NEW p \in Nat, NEW q \in TsMissedFrom(p)
    PROVE  q \in Nat /\ p <= q /\ q <= tsNow
<1>1. TsGrace \in Nat BY TsNumbers
<1>2. q \in p..tsNow - TsGrace - 1 BY DEF TsMissedFrom
<1> QED BY <1>1, <1>2

\* The plan moves to a point that is not before the one it starts from, and
\* after every missed one.
LEMMA TargetAhead ==
    ASSUME tsNow \in Nat, NEW p \in Nat, NEW z \in TsTargets(p)
    PROVE  /\ z \in Nat
           /\ z # TsNever => z >= p /\ p # TsNever
           /\ z # TsNever => \A q \in TsMissedFrom(p) : z > q
<1>1. CASE TsMissedFrom(p) = {} /\ z = p BY <1>1
<1>2. ASSUME NEW last \in TsLatest(TsMissedFrom(p)), z = TsStepPoint(last)
      PROVE  /\ z \in Nat
             /\ z # TsNever => z >= p /\ p # TsNever
             /\ z # TsNever => \A q \in TsMissedFrom(p) : z > q
  <2>1. last \in Nat /\ p <= last /\ \A q \in TsMissedFrom(p) : q \in Nat /\ q <= last
    BY MissedRange DEF TsLatest
  <2>2. z \in Nat /\ (z # TsNever => z > last) BY <1>2, <2>1, StepAfter
  <2>3. last \in TsMissedFrom(p) => p # TsNever BY DEF TsMissedFrom
  <2> QED BY <2>1, <2>2, <2>3 DEF TsLatest
<1> QED BY <1>1, <1>2 DEF TsTargets

\* What is behind a point is behind every later one.
LEMMA BehindLater ==
    ASSUME TsTyped, NEW p \in Nat, NEW x \in Nat, TsBehind(p), p <= x
    PROVE  TsBehind(x)
<1> SUFFICES ASSUME NEW i \in DOMAIN tsRuns, TsCounts(i) PROVE tsRuns[i].point < x
  BY DEF TsBehind
<1>1. tsRuns[i].point < p BY DEF TsBehind
<1>2. tsRuns[i] \in TsRowSet BY DEF TsTyped
<1>3. tsRuns[i].point \in Nat BY <1>2 DEF TsRowSet
<1> QED BY <1>1, <1>3

\* What is past is behind every point to come.
LEMMA PastBehind ==
    ASSUME TsTyped, TsPast, NEW x \in Nat, x > tsNow
    PROVE  TsBehind(x)
<1> SUFFICES ASSUME NEW i \in DOMAIN tsRuns, TsCounts(i) PROVE tsRuns[i].point < x
  BY DEF TsBehind
<1>1. tsRuns[i].point <= tsNow BY DEF TsPast, TsCounts
<1>2. tsRuns[i] \in TsRowSet /\ tsNow \in Nat BY DEF TsTyped
<1>3. tsRuns[i].point \in Nat BY <1>2 DEF TsRowSet
<1> QED BY <1>1, <1>2, <1>3

\* A row added for point p keeps the counted points apart and in the past.
LEMMA RunAdded ==
    ASSUME TsTyped, TsPast, TsCountedOnce, tsNow' = tsNow,
           NEW p \in Nat, NEW trigger \in {"schedule", "catch_up", "manual"},
           TsStartRun(p, trigger),
           p <= tsNow, trigger # "manual" => TsBehind(p)
    PROVE  /\ tsRuns' \in Seq(TsRowSet) /\ tsLive' \in Nat
           /\ TsPast' /\ TsCountedOnce'
           /\ \A x \in Nat : TsBehind(x) /\ (trigger # "manual" => p < x) => TsBehind(x)'
           /\ \A x \in Nat : TsDoneBefore(x) => TsDoneBefore(x)'
<1>0. PICK n \in Nat : n = Len(tsRuns) BY DEF TsTyped
<1>1. TsRow(p, trigger) \in TsRowSet BY DEF TsRow, TsRowSet, TsTyped
<1>2. /\ tsRuns' = Append(tsRuns, TsRow(p, trigger))
      /\ tsRuns \in Seq(TsRowSet)
      /\ tsLive = 0 /\ tsLive' = n + 1
  BY <1>0 DEF TsStartRun, TsTyped
<1>3. /\ DOMAIN tsRuns = 1..n /\ DOMAIN tsRuns' = 1..n + 1
      /\ \A i \in 1..n : tsRuns'[i] = tsRuns[i]
      /\ tsRuns'[n + 1] = TsRow(p, trigger)
      /\ tsRuns' \in Seq(TsRowSet)
  BY <1>0, <1>1, <1>2
<1>4. \A i \in 1..n : tsRuns[i] \in TsRowSet BY <1>2, <1>3
<1>5. tsRuns'[n + 1].point = p /\ tsRuns'[n + 1].trigger = trigger /\ ~tsRuns'[n + 1].begun
  BY <1>3 DEF TsRow
<1>6. \A i \in 1..n : tsRuns[i].point \in Nat BY <1>4 DEF TsRowSet
<1>7. \A i \in DOMAIN tsRuns' : i \in 1..n \/ i = n + 1 BY <1>3
<1>8. tsNow \in Nat BY DEF TsTyped
<1>9. TsPast' BY <1>3, <1>5, <1>7, <1>8 DEF TsPast, TsPlanned
<1>a. ASSUME NEW k \in 1..n, TsCounts(k)' PROVE TsCounts(k)
  BY <1>2, <1>3, <1>a DEF TsCounts, TsPlanned
<1>10. TsCountedOnce'
  <2> SUFFICES ASSUME NEW i \in DOMAIN tsRuns', NEW j \in DOMAIN tsRuns',
                      TsCounts(i)', TsCounts(j)', tsRuns'[i].point = tsRuns'[j].point
               PROVE  i = j
    BY DEF TsCountedOnce
  <2>1. CASE i \in 1..n /\ j \in 1..n BY <1>3, <1>a, <2>1 DEF TsCountedOnce
  <2>2. CASE i = n + 1 /\ j = n + 1 BY <2>2
  <2>3. ASSUME NEW k \in 1..n, TsCounts(k)', TsCounts(n + 1)' PROVE tsRuns'[k].point # p
    <3>1. TsBehind(p) BY <1>5, <2>3 DEF TsCounts, TsPlanned
    <3>2. tsRuns[k].point < p BY <1>3, <1>a, <2>3, <3>1 DEF TsBehind
    <3> QED BY <1>3, <1>6, <3>2
  <2>4. CASE i \in 1..n /\ j = n + 1 BY <1>5, <2>3, <2>4
  <2>5. CASE i = n + 1 /\ j \in 1..n BY <1>5, <2>3, <2>5
  <2> QED BY <1>7, <2>1, <2>2, <2>4, <2>5
<1>11. ASSUME NEW x \in Nat, TsBehind(x), trigger # "manual" => p < x PROVE TsBehind(x)'
  <2> SUFFICES ASSUME NEW i \in DOMAIN tsRuns', TsCounts(i)' PROVE tsRuns'[i].point < x
    BY DEF TsBehind
  <2>1. CASE i \in 1..n BY <1>3, <1>a, <1>11, <2>1 DEF TsBehind
  <2>2. CASE i = n + 1 BY <1>5, <1>11, <2>2 DEF TsCounts, TsPlanned
  <2> QED BY <1>7, <2>1, <2>2
<1>12. ASSUME NEW x \in Nat, TsDoneBefore(x) PROVE TsDoneBefore(x)'
  BY <1>3, <1>5, <1>7, <1>12 DEF TsDoneBefore, TsExecuted, TsPlanned
<1> QED BY <1>2, <1>3, <1>9, <1>10, <1>11, <1>12

\* The invariant of the schedule holds at the beginning.
LEMMA InitInductive == TsInit => TsInductive
<1> SUFFICES ASSUME TsInit PROVE TsInductive OBVIOUS
<1>1. tsRuns \in Seq(TsRowSet) /\ DOMAIN tsRuns = 1..0 BY DEF TsInit
<1>2. TsTyped BY <1>1, TsNumbers DEF TsInit, TsTyped, TsTickSet, TsIdle
<1>3. TsTickSane BY DEF TsInit, TsIdle, TsTickSane
<1>4. TsPast /\ TsAhead /\ TsCountedOnce
  BY <1>1 DEF TsPast, TsAhead, TsCountedOnce, TsBehind, TsDoneBefore
<1> QED BY <1>2, <1>3, <1>4 DEF TsInductive

\* Nothing but time may change for the counted points to stay behind.
LEMMA SameRuns ==
    ASSUME TsInductive, tsRuns' = tsRuns, tsLive' \in {tsLive, 0}, tsNow' \in Nat, tsNow <= tsNow'
    PROVE  /\ TsPast' /\ TsCountedOnce'
           /\ \A x : TsBehind(x) => TsBehind(x)'
           /\ \A x : TsDoneBefore(x) => TsDoneBefore(x)'
           /\ tsLive' = 0 => \A x : TsDoneBefore(x) => TsBehind(x)'
<1>1. ASSUME NEW i \in DOMAIN tsRuns PROVE tsRuns[i].point \in Nat /\ i # 0
  <2>1. tsRuns[i] \in TsRowSet /\ i # 0 BY DEF TsInductive, TsTyped
  <2> QED BY <2>1 DEF TsRowSet
<1>2. TsPast' BY <1>1 DEF TsInductive, TsTyped, TsPast, TsPlanned
<1>3. ASSUME NEW i \in DOMAIN tsRuns, TsCounts(i)'
      PROVE  TsCounts(i) /\ (tsLive' = 0 => TsExecuted(i))
  BY <1>1, <1>3 DEF TsCounts, TsPlanned, TsExecuted
<1>4. TsCountedOnce' BY <1>3 DEF TsInductive, TsCountedOnce
<1>5. ASSUME NEW x, TsBehind(x) PROVE TsBehind(x)' BY <1>3, <1>5 DEF TsBehind
<1>6. ASSUME NEW x, TsDoneBefore(x) PROVE TsDoneBefore(x)'
  BY <1>6 DEF TsDoneBefore, TsExecuted, TsPlanned
<1>7. ASSUME NEW x, TsDoneBefore(x), tsLive' = 0 PROVE TsBehind(x)'
  BY <1>3, <1>7 DEF TsBehind, TsDoneBefore
<1> QED BY <1>2, <1>4, <1>5, <1>6, <1>7

\* Closing rows, or the begin of the run in progress, moves no point.
LEMMA RowsMarked ==
    ASSUME TsInductive, tsNow' = tsNow,
           DOMAIN tsRuns' = DOMAIN tsRuns,
           \A i \in DOMAIN tsRuns :
             /\ tsRuns'[i].point = tsRuns[i].point /\ tsRuns'[i].trigger = tsRuns[i].trigger
             /\ tsRuns'[i].begun => tsRuns[i].begun \/ i = tsLive
             /\ i = tsLive' => i = tsLive \/ tsRuns[i].begun
    PROVE  /\ TsPast' /\ TsCountedOnce'
           /\ \A x : TsBehind(x) => TsBehind(x)'
<1>1. TsPast' BY DEF TsInductive, TsPast, TsPlanned
<1>2. ASSUME NEW i \in DOMAIN tsRuns, TsCounts(i)' PROVE TsCounts(i)
  BY <1>2 DEF TsCounts, TsPlanned
<1>3. TsCountedOnce' BY <1>2 DEF TsInductive, TsCountedOnce
<1>4. ASSUME NEW x, TsBehind(x) PROVE TsBehind(x)' BY <1>2, <1>4 DEF TsBehind
<1> QED BY <1>1, <1>3, <1>4

\* Rows that are closed keep all but their status.
LEMMA CloseRow ==
    ASSUME TsTyped, NEW S,
           tsRuns' = [i \in DOMAIN tsRuns |->
                        IF i \in S THEN [tsRuns[i] EXCEPT !.status = "ended"] ELSE tsRuns[i]]
    PROVE  /\ DOMAIN tsRuns' = DOMAIN tsRuns /\ tsRuns' \in Seq(TsRowSet)
           /\ \A i \in DOMAIN tsRuns :
                /\ tsRuns'[i].point = tsRuns[i].point /\ tsRuns'[i].trigger = tsRuns[i].trigger
                /\ tsRuns'[i].begun = tsRuns[i].begun
<1>0. PICK n \in Nat : n = Len(tsRuns) BY DEF TsTyped
<1>1. DOMAIN tsRuns = 1..n /\ \A i \in 1..n : tsRuns[i] \in TsRowSet BY <1>0 DEF TsTyped
<1>2. ASSUME NEW i \in 1..n PROVE tsRuns'[i] \in TsRowSet
  <2>1. tsRuns[i] \in TsRowSet BY <1>1
  <2>2. [tsRuns[i] EXCEPT !.status = "ended"] \in TsRowSet BY <2>1 DEF TsRowSet
  <2> QED BY <1>1, <2>1, <2>2
<1>3. tsRuns' \in [1..n -> TsRowSet] BY <1>1, <1>2
<1>4. tsRuns' \in Seq(TsRowSet) BY <1>3, SeqDef
<1>5. ASSUME NEW i \in DOMAIN tsRuns
      PROVE  /\ tsRuns'[i].point = tsRuns[i].point /\ tsRuns'[i].trigger = tsRuns[i].trigger
             /\ tsRuns'[i].begun = tsRuns[i].begun
  BY <1>1 DEF TsRowSet
<1> QED BY <1>1, <1>4, <1>5

\* A run that begins keeps all of its row but that.
LEMMA BeginRow ==
    ASSUME TsTyped, NEW k \in Nat, tsRuns' = [tsRuns EXCEPT ![k].begun = TRUE]
    PROVE  /\ DOMAIN tsRuns' = DOMAIN tsRuns /\ tsRuns' \in Seq(TsRowSet)
           /\ \A i \in DOMAIN tsRuns :
                /\ tsRuns'[i].point = tsRuns[i].point /\ tsRuns'[i].trigger = tsRuns[i].trigger
                /\ tsRuns'[i].status = tsRuns[i].status /\ tsRuns'[i].started = tsRuns[i].started
                /\ tsRuns'[i].begun => tsRuns[i].begun \/ i = k
<1>0. PICK n \in Nat : n = Len(tsRuns) BY DEF TsTyped
<1>1. DOMAIN tsRuns = 1..n /\ \A i \in 1..n : tsRuns[i] \in TsRowSet BY <1>0 DEF TsTyped
<1>2. ASSUME NEW i \in 1..n
      PROVE  tsRuns'[i] = IF i = k THEN [tsRuns[i] EXCEPT !.begun = TRUE] ELSE tsRuns[i]
  BY <1>1
<1>3. ASSUME NEW i \in 1..n
      PROVE  [tsRuns[i] EXCEPT !.begun = TRUE] \in TsRowSet
  <2>1. tsRuns[i] \in TsRowSet BY <1>1
  <2> QED BY <2>1 DEF TsRowSet
<1>4. \A i \in 1..n : tsRuns'[i] \in TsRowSet BY <1>1, <1>2, <1>3
<1>5. DOMAIN tsRuns' = 1..n BY <1>1
<1>6. tsRuns' = [i \in 1..n |-> tsRuns'[i]] BY <1>1
<1>7. tsRuns' \in [1..n -> TsRowSet] BY <1>4, <1>6
<1>8. tsRuns' \in Seq(TsRowSet) BY <1>7, SeqDef
<1>9. ASSUME NEW i \in 1..n
      PROVE  /\ tsRuns'[i].point = tsRuns[i].point /\ tsRuns'[i].trigger = tsRuns[i].trigger
             /\ tsRuns'[i].status = tsRuns[i].status /\ tsRuns'[i].started = tsRuns[i].started
             /\ tsRuns'[i].begun => tsRuns[i].begun \/ i = k
  <2>1. tsRuns[i] \in TsRowSet BY <1>1
  <2> QED BY <1>2, <2>1 DEF TsRowSet
<1> QED BY <1>1, <1>5, <1>8, <1>9

\* To close one row is to close those of a set.
LEMMA CloseOne ==
    ASSUME TsTyped, NEW k, tsRuns' = [tsRuns EXCEPT ![k].status = "ended"]
    PROVE  tsRuns' = [i \in DOMAIN tsRuns |->
                        IF i \in {k} THEN [tsRuns[i] EXCEPT !.status = "ended"] ELSE tsRuns[i]]
OBVIOUS

\* The parts of the invariant that are left when next_run_at stays.
LEMMA Kept ==
    ASSUME TsInductive, TsTyped', TsPast', TsCountedOnce',
           \A x \in Nat : TsBehind(x) => TsBehind(x)',
           tsNow <= tsNow', tsNow' \in Nat, tsNext' = tsNext,
           \/ tsTick' = tsTick /\ \A x \in Nat : TsDoneBefore(x) => TsDoneBefore(x)'
           \/ tsTick' \in {tsTick, TsIdle} /\ tsTick.stage # "note"
           \/ tsTick' = TsIdle /\ \A x \in Nat : TsDoneBefore(x) => TsBehind(x)'
    PROVE  TsInductive'
<1>1. PICK y \in Nat : y = tsNext BY DEF TsInductive, TsTyped
<1>2. TsAhead'
  <2> SUFFICES ASSUME y # TsNever
               PROVE  TsDoneBefore(y)' /\ (tsTick'.stage # "note" => TsBehind(y)')
    BY <1>1 DEF TsAhead, TsDoneBefore, TsBehind
  <2>1. TsDoneBefore(y) /\ (tsTick.stage # "note" => TsBehind(y))
    BY <1>1 DEF TsInductive, TsAhead
  <2>2. TsBehind(y)' => TsDoneBefore(y)'
    BY DEF TsBehind, TsDoneBefore, TsCounts, TsExecuted
  <2> QED BY <2>1, <2>2
<1>3. TsTickSane'
  <2>1. CASE tsTick' = TsIdle BY <2>1 DEF TsTickSane, TsIdle
  <2>2. CASE tsTick' = tsTick
    <3>1. tsNow \in Nat /\ TsTyped BY DEF TsInductive, TsTyped
    <3>2. CASE tsTick.stage \in {"read", "due"}
      <4>1. tsTick \in TsPointTick BY <3>1, <3>2, TickShapes
      <4>2. PICK x \in Nat, now \in Nat : x = tsTick.next /\ now = tsTick.now
        BY <4>1 DEF TsPointTick
      <4>3. now <= tsNow /\ (x # TsNever => TsBehind(x))
        BY <3>2, <4>2 DEF TsInductive, TsTickSane
      <4>4. now <= tsNow' /\ (x # TsNever => TsBehind(x)') BY <3>1, <4>3
      <4>5. TsBehind(x)' => TsBehind(tsTick.next)' BY <2>2, <4>2 DEF TsBehind
      <4> QED BY <2>2, <3>2, <4>2, <4>4, <4>5 DEF TsInductive, TsTickSane
    <3>3. CASE tsTick.stage = "note"
      <4>1. tsTick \in TsNoteTick BY <3>1, <3>3, TickShapes
      <4>2. PICK x \in Nat : x = tsTick.next BY <4>1 DEF TsNoteTick
      <4>3. x # TsNever => TsBehind(x)' BY <3>3, <4>2 DEF TsInductive, TsTickSane
      <4>4. ASSUME NEW p \in tsTick.catch
            PROVE  p <= tsNow' /\ TsBehind(p)' /\ (x # TsNever => p < x)
        <5>1. p \in Nat BY <4>1 DEF TsNoteTick
        <5>2. p <= tsNow /\ TsBehind(p) /\ (x # TsNever => p < x)
          BY <3>3, <4>2 DEF TsInductive, TsTickSane
        <5> QED BY <3>1, <5>1, <5>2
      <4>5. TsBehind(x)' => TsBehind(tsTick.next)' BY <2>2, <4>2 DEF TsBehind
      <4> QED BY <2>2, <3>3, <4>2, <4>3, <4>4, <4>5 DEF TsTickSane
    <3>4. CASE tsTick.stage = "catch"
      <4>1. tsTick \in TsCatchTick BY <3>1, <3>4, TickShapes
      <4>2. PICK x \in Nat : x = tsTick.next BY <4>1 DEF TsCatchTick
      <4>3. x <= tsNow /\ TsBehind(x) /\ (tsNext # TsNever => x < tsNext)
        BY <3>4, <4>2 DEF TsInductive, TsTickSane
      <4>4. x <= tsNow' /\ TsBehind(x)' BY <3>1, <4>3
      <4>5. TsBehind(x)' => TsBehind(tsTick.next)' BY <2>2, <4>2 DEF TsBehind
      <4> QED BY <2>2, <3>4, <4>2, <4>3, <4>4, <4>5 DEF TsTickSane
    <3>5. CASE tsTick.stage = "idle" BY <2>2, <3>5 DEF TsTickSane
    <3> QED BY <3>1, <3>2, <3>3, <3>4, <3>5, TickShapes
  <2> QED BY <2>1, <2>2
<1> QED BY <1>2, <1>3 DEF TsInductive

\* A plan that starts anew is ahead of what was executed.
LEMMA Replanned ==
    ASSUME TsInductive, tsRuns' = tsRuns, tsNow' = tsNow, tsTick' \in {tsTick, TsIdle},
           tsTick.stage \notin {"note", "catch"},
           tsLive' = tsLive, tsNext' \in {tsNext, TsNever, TsCompute(tsNow)},
           tsKind' = tsKind
    PROVE  TsInductive'
<1>1. TsTyped /\ tsNow \in Nat /\ tsKind \in TsKinds BY DEF TsInductive, TsTyped
<1>2. /\ TsPast' /\ TsCountedOnce'
      /\ \A x : TsBehind(x) => TsBehind(x)'
  BY <1>1, SameRuns
<1>3. tsNext' # TsNever => tsNext' = tsNext \/ (tsNext' \in Nat /\ tsNext' > tsNow)
  BY <1>1, ComputeAfter
<1>4. tsNext' \in Nat BY <1>3 DEF TsInductive, TsTyped, TsNever
<1>5. tsTick' \in TsTickSet BY DEF TsInductive, TsTyped, TsTickSet, TsIdle
<1>6. TsTyped' BY <1>4, <1>5 DEF TsInductive, TsTyped
<1>7. PICK y \in Nat : y = tsNext' BY <1>4
<1>8. y # TsNever => TsBehind(y)
  BY <1>1, <1>3, <1>7, PastBehind DEF TsInductive, TsAhead
<1>9. TsAhead'
  <2>1. y # TsNever => TsBehind(y)' BY <1>2, <1>8
  <2>2. TsBehind(y)' => TsBehind(tsNext)' /\ TsDoneBefore(tsNext)'
    BY <1>7 DEF TsBehind, TsDoneBefore, TsCounts, TsExecuted
  <2> QED BY <1>7, <2>1, <2>2 DEF TsAhead
<1>10. TsTickSane'
  <2>1. CASE tsTick' = TsIdle BY <2>1 DEF TsTickSane, TsIdle
  <2>2. CASE tsTick' = tsTick /\ tsTick.stage \in {"read", "due"}
    <3>1. TsBehind(tsTick.next) => TsBehind(tsTick.next)'
      BY <2>2 DEF TsBehind, TsCounts, TsPlanned
    <3> QED BY <2>2, <3>1 DEF TsInductive, TsTickSane
  <2>3. CASE tsTick' = tsTick /\ tsTick.stage = "idle" BY <2>3 DEF TsTickSane
  <2> QED BY <1>1, <2>1, <2>2, <2>3, TickShapes
<1> QED BY <1>2, <1>6, <1>9, <1>10 DEF TsInductive

\* The notes to write, and where the plan moves afterwards: both lie ahead of
\* what counts by then.
LEMMA MoveFromKeeps ==
    ASSUME TsInductive, tsNow' = tsNow, tsNext' = tsNext, tsKind' = tsKind,
           tsRuns' \in Seq(TsRowSet), tsLive' \in Nat, TsPast', TsCountedOnce',
           \A x \in Nat : TsDoneBefore(x) => TsDoneBefore(x)',
           NEW p \in Nat, NEW catch \in SUBSET TsMissedFrom(p), TsMoveFrom(p, catch),
           p # TsNever => \A x \in Nat : x >= p => TsBehind(x)'
    PROVE  TsInductive'
<1>1. tsNow \in Nat BY DEF TsInductive, TsTyped
<1>2. PICK z \in TsTargets(p) :
        tsTick' = [stage |-> "note", left |-> TsMissedFrom(p), next |-> z, catch |-> catch]
  BY DEF TsMoveFrom
<1>3. /\ z \in Nat
      /\ z # TsNever => z >= p /\ p # TsNever
      /\ z # TsNever => \A q \in TsMissedFrom(p) : z > q
  BY <1>1, TargetAhead
<1>4. /\ TsMissedFrom(p) \subseteq Nat
      /\ \A q \in TsMissedFrom(p) : p <= q /\ q <= tsNow /\ p # TsNever
  BY <1>1, MissedRange DEF TsMissedFrom
<1>5. tsTick' \in TsNoteTick BY <1>2, <1>3, <1>4 DEF TsNoteTick
<1>6. TsTyped' BY <1>5 DEF TsInductive, TsTyped, TsTickSet
<1>7. z # TsNever => TsBehind(z)' BY <1>3
<1>8. ASSUME NEW q \in catch PROVE q <= tsNow /\ TsBehind(q)' /\ (z # TsNever => q < z)
  BY <1>3, <1>4
<1>9. TsTickSane'
  <2>1. /\ tsTick'.stage = "note" /\ tsTick'.next = z /\ tsTick'.catch = catch
    BY <1>2
  <2>2. TsBehind(z)' => TsBehind(tsTick.next)' BY <2>1 DEF TsBehind
  <2> QED BY <1>7, <1>8, <2>1, <2>2 DEF TsTickSane
<1>10. TsAhead'
  <2>1. PICK y \in Nat : y = tsNext BY DEF TsInductive, TsTyped
  <2>2. y # TsNever => TsDoneBefore(y)' BY <2>1 DEF TsInductive, TsAhead
  <2>3. TsDoneBefore(y)' => TsDoneBefore(tsNext)' BY <2>1 DEF TsDoneBefore
  <2>4. tsTick'.stage = "note" BY <1>2
  <2> QED BY <2>1, <2>2, <2>3, <2>4 DEF TsAhead
<1> QED BY <1>6, <1>9, <1>10 DEF TsInductive

\* A point that is triggered, or skipped, keeps the invariant.
LEMMA TickTriggerKeeps == TsInductive /\ TsTickTrigger => TsInductive'
<1> SUFFICES ASSUME TsInductive, TsTickTrigger PROVE TsInductive' OBVIOUS
<1>0. TsTyped BY DEF TsInductive
<1>1. /\ tsTick.stage = "due" /\ tsNow' = tsNow /\ tsKind' = tsKind /\ tsNext' = tsNext
  BY DEF TsTickTrigger
<1>2. tsTick \in TsPointTick BY <1>0, <1>1, TickShapes
<1>3. PICK p \in Nat : p = tsTick.next BY <1>2 DEF TsPointTick
<1>4. /\ tsNow \in Nat /\ p # TsNever /\ p <= tsNow /\ TsBehind(p)
  <2>1. tsTick.now \in Nat BY <1>2 DEF TsPointTick
  <2> QED BY <1>1, <1>3, <2>1 DEF TsInductive, TsTyped, TsTickSane
<1>5. CASE TsSkip(p) /\ tsTick' = TsIdle
  BY <1>1, <1>5, Replanned DEF TsSkip
<1>6. CASE TsStartRun(p, "schedule") /\ TsMoveFrom(TsStepPoint(p), {})
  <2>1. /\ tsRuns' \in Seq(TsRowSet) /\ tsLive' \in Nat
        /\ TsPast' /\ TsCountedOnce'
        /\ \A x \in Nat : TsBehind(x) /\ p < x => TsBehind(x)'
        /\ \A x \in Nat : TsDoneBefore(x) => TsDoneBefore(x)'
    BY <1>1, <1>4, <1>6, RunAdded DEF TsInductive
  <2>2. PICK y \in Nat : y = TsStepPoint(p) /\ (y # TsNever => y > p) BY StepAfter
  <2>3. ASSUME y # TsNever, NEW x \in Nat, x >= y PROVE TsBehind(x)'
    <3>1. p < x /\ p <= x BY <2>2, <2>3
    <3>2. TsBehind(x) BY <1>0, <1>4, <3>1, BehindLater
    <3> QED BY <2>1, <3>1, <3>2
  <2>4. TsMoveFrom(y, {}) BY <1>6, <2>2
  <2> QED BY <1>1, <2>1, <2>3, <2>4, MoveFromKeeps
<1> QED BY <1>3, <1>5, <1>6 DEF TsTickTrigger

\* A point found too late keeps it.
LEMMA TickLateKeeps == TsInductive /\ TsTickLate => TsInductive'
<1> SUFFICES ASSUME TsInductive, TsTickLate PROVE TsInductive' OBVIOUS
<1>0. TsTyped /\ tsNow \in Nat BY DEF TsInductive, TsTyped
<1>1. /\ tsTick.stage = "read" /\ tsTick.next # TsNever
      /\ tsNow' = tsNow /\ tsKind' = tsKind /\ tsNext' = tsNext /\ tsRuns' = tsRuns
      /\ tsLive' = tsLive
      /\ TsMoveFrom(tsTick.next, TsCatchUp(TsMissedFrom(tsTick.next)))
  BY DEF TsTickLate, TsReading
<1>2. tsTick \in TsPointTick BY <1>0, <1>1, TickShapes
<1>3. PICK p \in Nat : p = tsTick.next BY <1>2 DEF TsPointTick
<1>4. TsBehind(p) BY <1>1, <1>3 DEF TsInductive, TsTickSane
<1>5. TsPast' /\ TsCountedOnce' /\ (\A x : TsBehind(x) => TsBehind(x)')
      /\ (\A x : TsDoneBefore(x) => TsDoneBefore(x)')
  BY <1>0, <1>1, SameRuns
<1>6. ASSUME NEW x \in Nat, x >= p PROVE TsBehind(x)'
  <2>1. TsBehind(x) BY <1>0, <1>4, <1>6, BehindLater
  <2> QED BY <1>5, <2>1
<1>7. PICK catch \in SUBSET TsMissedFrom(p) : catch = TsCatchUp(TsMissedFrom(p))
  BY DEF TsCatchUp, TsLatest
<1>8. TsMoveFrom(p, catch) BY <1>1, <1>3, <1>7
<1>9. tsRuns' \in Seq(TsRowSet) /\ tsLive' \in Nat BY <1>0, <1>1 DEF TsTyped
<1> QED BY <1>1, <1>5, <1>6, <1>8, <1>9, MoveFromKeeps

\* A note keeps it.
LEMMA TickNoteKeeps == TsInductive /\ TsTickNote => TsInductive'
<1> SUFFICES ASSUME TsInductive, TsTickNote PROVE TsInductive' OBVIOUS
<1>0. TsTyped /\ tsNow \in Nat BY DEF TsInductive, TsTyped
<1>1. /\ tsTick.stage = "note"
      /\ tsNow' = tsNow /\ tsKind' = tsKind /\ tsNext' = tsNext /\ tsRuns' = tsRuns
      /\ tsLive' = tsLive
      /\ \E p : tsTick' = [tsTick EXCEPT !.left = @ \ {p}]
  BY DEF TsTickNote
<1>2. tsTick \in TsNoteTick BY <1>0, <1>1, TickShapes
<1>3. /\ tsTick' \in TsNoteTick
      /\ tsTick'.stage = "note" /\ tsTick'.next = tsTick.next /\ tsTick'.catch = tsTick.catch
  BY <1>1, <1>2 DEF TsNoteTick
<1>4. TsPast' /\ TsCountedOnce' /\ (\A x : TsBehind(x) => TsBehind(x)')
      /\ (\A x : TsDoneBefore(x) => TsDoneBefore(x)')
  BY <1>0, <1>1, SameRuns
<1>5. TsTyped' BY <1>0, <1>1, <1>3 DEF TsTyped, TsTickSet
<1>6. TsTickSane'
  <2>1. TsBehind(tsTick.next) => TsBehind(tsTick.next)'
    BY <1>1, <1>3 DEF TsBehind, TsCounts, TsPlanned
  <2>2. ASSUME NEW p \in tsTick.catch
        PROVE  p <= tsNow /\ TsBehind(p)' /\ (tsTick.next # TsNever => p < tsTick.next)
    BY <1>1, <1>4 DEF TsInductive, TsTickSane
  <2> QED BY <1>1, <1>3, <2>1, <2>2 DEF TsInductive, TsTickSane
<1>7. TsAhead'
  BY <1>1, <1>3 DEF TsInductive, TsAhead, TsDoneBefore, TsExecuted, TsPlanned
<1> QED BY <1>4, <1>5, <1>6, <1>7 DEF TsInductive

\* The plan moves behind what was noted.
LEMMA TickMoveKeeps == TsInductive /\ TsTickMove => TsInductive'
<1> SUFFICES ASSUME TsInductive, TsTickMove PROVE TsInductive' OBVIOUS
<1>0. TsTyped /\ tsNow \in Nat BY DEF TsInductive, TsTyped
<1>1. /\ tsTick.stage = "note" /\ tsNext' = tsTick.next
      /\ tsNow' = tsNow /\ tsKind' = tsKind /\ tsRuns' = tsRuns /\ tsLive' = tsLive
      /\ \/ tsTick' = TsIdle
         \/ \E p \in tsTick.catch : tsTick' = [stage |-> "catch", next |-> p]
  BY DEF TsTickMove
<1>2. tsTick \in TsNoteTick BY <1>0, <1>1, TickShapes
<1>3. PICK z \in Nat : z = tsTick.next BY <1>2 DEF TsNoteTick
<1>4. TsPast' /\ TsCountedOnce' /\ (\A x : TsBehind(x) => TsBehind(x)') BY <1>0, <1>1, SameRuns
<1>5. TsAhead'
  <2>1. z # TsNever => TsBehind(z)' BY <1>1, <1>3, <1>4 DEF TsInductive, TsTickSane
  <2>2. TsBehind(z)' => TsBehind(tsNext)' /\ TsDoneBefore(tsNext)'
    BY <1>1, <1>3 DEF TsBehind, TsDoneBefore, TsCounts, TsExecuted
  <2> QED BY <1>1, <1>3, <2>1, <2>2 DEF TsAhead
<1>6. CASE tsTick' = TsIdle
  <2>1. TsTyped' BY <1>0, <1>1, <1>3, <1>6 DEF TsTyped, TsTickSet, TsIdle
  <2>2. TsTickSane' BY <1>6 DEF TsTickSane, TsIdle
  <2> QED BY <1>4, <1>5, <2>1, <2>2 DEF TsInductive
<1>7. ASSUME NEW p \in tsTick.catch, tsTick' = [stage |-> "catch", next |-> p]
      PROVE  TsInductive'
  <2>1. p \in Nat BY <1>2 DEF TsNoteTick
  <2>2. tsTick' \in TsCatchTick /\ tsTick'.stage = "catch" /\ tsTick'.next = p
    BY <1>7, <2>1 DEF TsCatchTick
  <2>3. TsTyped' BY <1>0, <1>1, <1>3, <2>2 DEF TsTyped, TsTickSet
  <2>4. p <= tsNow /\ TsBehind(p)' /\ (z # TsNever => p < z)
    BY <1>1, <1>3, <1>4, <1>7 DEF TsInductive, TsTickSane
  <2>5. TsBehind(p)' => TsBehind(tsTick.next)' BY <2>2 DEF TsBehind
  <2>6. TsTickSane' BY <1>1, <1>3, <2>2, <2>4, <2>5 DEF TsTickSane
  <2> QED BY <1>4, <1>5, <2>3, <2>6 DEF TsInductive
<1> QED BY <1>1, <1>6, <1>7

\* The point that is caught up with keeps it.
LEMMA TickCatchKeeps == TsInductive /\ TsTickCatch => TsInductive'
<1> SUFFICES ASSUME TsInductive, TsTickCatch PROVE TsInductive' OBVIOUS
<1>0. TsTyped /\ tsNow \in Nat BY DEF TsInductive, TsTyped
<1>1. /\ tsTick.stage = "catch" /\ tsTick' = TsIdle
      /\ tsNow' = tsNow /\ tsKind' = tsKind /\ tsNext' = tsNext
  BY DEF TsTickCatch
<1>2. tsTick \in TsCatchTick BY <1>0, <1>1, TickShapes
<1>3. PICK p \in Nat : p = tsTick.next BY <1>2 DEF TsCatchTick
<1>4. p <= tsNow /\ TsBehind(p) /\ (tsNext # TsNever => p < tsNext /\ TsBehind(tsNext))
  BY <1>1, <1>3 DEF TsInductive, TsTickSane, TsAhead
<1>5. CASE TsSkip(p)
  <2>1. tsRuns' = tsRuns /\ tsLive' = tsLive BY <1>5 DEF TsSkip
  <2>2. TsPast' /\ TsCountedOnce' /\ (\A x : TsBehind(x) => TsBehind(x)')
    BY <1>0, <1>1, <2>1, SameRuns
  <2>3. TsTyped' BY <1>0, <1>1, <2>1 DEF TsTyped, TsTickSet, TsIdle
  <2> QED BY <1>0, <1>1, <2>2, <2>3, Kept
<1>6. CASE TsStartRun(p, "catch_up")
  <2>1. /\ tsRuns' \in Seq(TsRowSet) /\ tsLive' \in Nat
        /\ TsPast' /\ TsCountedOnce'
        /\ \A x \in Nat : TsBehind(x) /\ p < x => TsBehind(x)'
    BY <1>0, <1>1, <1>4, <1>6, RunAdded DEF TsInductive
  <2>2. PICK y \in Nat : y = tsNext BY <1>0 DEF TsTyped
  <2>3. y # TsNever => TsBehind(y)' BY <1>4, <2>1, <2>2
  <2>4. TsBehind(y)' => TsBehind(tsNext)' /\ TsDoneBefore(tsNext)'
    BY <1>1, <2>2 DEF TsBehind, TsDoneBefore, TsCounts, TsExecuted
  <2>5. TsAhead' BY <1>1, <2>2, <2>3, <2>4 DEF TsAhead
  <2>6. TsTyped' BY <1>0, <1>1, <2>1 DEF TsTyped, TsTickSet, TsIdle
  <2>7. TsTickSane' BY <1>1 DEF TsTickSane, TsIdle
  <2> QED BY <2>1, <2>5, <2>6, <2>7 DEF TsInductive
<1> QED BY <1>3, <1>5, <1>6 DEF TsTickCatch

\* The tick's reading of the task keeps it.
LEMMA TickReadKeeps == TsInductive /\ TsTickRead => TsInductive'
<1> SUFFICES ASSUME TsInductive, TsTickRead PROVE TsInductive' OBVIOUS
<1>1. /\ tsTick = TsIdle /\ tsTick' = [stage |-> "read", now |-> tsNow, next |-> tsNext]
      /\ tsNow' = tsNow /\ tsRuns' = tsRuns /\ tsNext' = tsNext /\ tsLive' = tsLive
      /\ tsKind' = tsKind
  BY DEF TsTickRead
<1>2. TsTyped /\ tsNow \in Nat /\ tsNext \in Nat BY DEF TsInductive, TsTyped
<1>3. TsPast' /\ TsCountedOnce' /\ \A x : TsBehind(x) => TsBehind(x)' BY <1>1, <1>2, SameRuns
<1>4. tsTick' \in TsPointTick BY <1>1, <1>2 DEF TsPointTick
<1>5. TsTyped' BY <1>1, <1>2, <1>4 DEF TsTyped, TsTickSet
<1>6. tsNext # TsNever => TsBehind(tsNext) BY <1>1 DEF TsInductive, TsAhead, TsIdle
<1>7. PICK y \in Nat : y = tsNext BY <1>2
<1>8. y # TsNever => TsBehind(y)' BY <1>3, <1>6, <1>7
<1>9. TsBehind(y)' => TsBehind(tsNext)' /\ TsDoneBefore(tsNext)' /\ TsBehind(tsTick.next)'
  BY <1>1, <1>7 DEF TsBehind, TsDoneBefore, TsCounts, TsExecuted
<1>10. TsAhead' BY <1>1, <1>7, <1>8, <1>9 DEF TsAhead
<1>11. TsTickSane' BY <1>1, <1>2, <1>7, <1>8, <1>9 DEF TsTickSane
<1> QED BY <1>3, <1>5, <1>10, <1>11 DEF TsInductive

\* The decision to trigger a point keeps it.
LEMMA TickDueKeeps == TsInductive /\ TsTickDue => TsInductive'
<1> SUFFICES ASSUME TsInductive, TsTickDue PROVE TsInductive' OBVIOUS
<1>0. TsTyped /\ tsNow \in Nat BY DEF TsInductive, TsTyped
<1>1. /\ tsTick.stage = "read" /\ tsTick.next # TsNever /\ tsTick.next <= tsTick.now
      /\ tsTick' = [tsTick EXCEPT !.stage = "due"]
      /\ tsNow' = tsNow /\ tsRuns' = tsRuns /\ tsNext' = tsNext /\ tsLive' = tsLive
      /\ tsKind' = tsKind
  BY DEF TsTickDue, TsReading
<1>2. tsTick \in TsPointTick BY <1>0, <1>1, TickShapes
<1>3. /\ tsTick' \in TsPointTick
      /\ tsTick'.next = tsTick.next /\ tsTick'.now = tsTick.now /\ tsTick'.stage = "due"
  BY <1>1, <1>2 DEF TsPointTick
<1>4. TsPast' /\ TsCountedOnce' /\ \A x : TsBehind(x) => TsBehind(x)' BY <1>0, <1>1, SameRuns
<1>5. TsTyped' BY <1>0, <1>1, <1>3 DEF TsTyped, TsTickSet
<1>6. TsBehind(tsTick.next) /\ tsTick.now <= tsNow BY <1>1 DEF TsInductive, TsTickSane
<1>7. TsTickSane'
  BY <1>1, <1>3, <1>6 DEF TsTickSane, TsBehind, TsCounts, TsPlanned
<1>8. TsAhead'
  BY <1>1, <1>3 DEF TsInductive, TsAhead, TsBehind, TsDoneBefore, TsCounts, TsExecuted, TsPlanned
<1> QED BY <1>4, <1>5, <1>7, <1>8 DEF TsInductive

\* A run that begins counted already.
LEMMA BeginKeeps == TsInductive /\ TsBegin => TsInductive'
<1> SUFFICES ASSUME TsInductive, TsBegin PROVE TsInductive' OBVIOUS
<1>0. TsTyped /\ tsNow \in Nat /\ tsLive \in Nat BY DEF TsInductive, TsTyped
<1>1. /\ tsRuns' = [tsRuns EXCEPT ![tsLive].begun = TRUE] /\ tsTick.stage # "note"
      /\ tsNow' = tsNow /\ tsNext' = tsNext /\ tsLive' = tsLive /\ tsKind' = tsKind
      /\ tsTick' = tsTick
  BY DEF TsBegin, TsLoopFree
<1>2. /\ DOMAIN tsRuns' = DOMAIN tsRuns /\ tsRuns' \in Seq(TsRowSet)
      /\ \A i \in DOMAIN tsRuns :
           /\ tsRuns'[i].point = tsRuns[i].point /\ tsRuns'[i].trigger = tsRuns[i].trigger
           /\ tsRuns'[i].begun => tsRuns[i].begun \/ i = tsLive
  BY <1>0, <1>1, BeginRow
<1>3. TsPast' /\ TsCountedOnce' /\ \A x : TsBehind(x) => TsBehind(x)'
  BY <1>1, <1>2, RowsMarked
<1>4. TsTyped' BY <1>0, <1>1, <1>2 DEF TsTyped
<1> QED BY <1>0, <1>1, <1>3, <1>4, Kept

\* Runs on demand, runs that end, the clock, and a process that ends.
LEMMA OthersKeep ==
    TsInductive /\ (TsFinish \/ TsRunNow \/ TsPass \/ TsDown \/ TsStart) => TsInductive'
<1> SUFFICES ASSUME TsInductive PROVE TsFinish \/ TsRunNow \/ TsPass \/ TsDown \/ TsStart
                                      => TsInductive'
  OBVIOUS
<1>1. TsTyped /\ tsNow \in Nat /\ tsLive \in Nat /\ 0 \in Nat /\ TsIdle \in TsTickSet
  BY DEF TsInductive, TsTyped, TsTickSet, TsIdle
<1>a. \A i \in DOMAIN tsRuns : i # 0 BY <1>1 DEF TsTyped
<1> DEFINE Closed(S) == tsRuns' = [i \in DOMAIN tsRuns |->
                            IF i \in S THEN [tsRuns[i] EXCEPT !.status = "ended"] ELSE tsRuns[i]]
<1>2. ASSUME NEW S, Closed(S), tsNow' = tsNow, tsNext' = tsNext, tsKind' = tsKind,
             tsLive' \in Nat, \A i \in DOMAIN tsRuns : i = tsLive' => tsRuns[i].begun,
             tsTick' \in {tsTick, TsIdle}
      PROVE  TsInductive'
  <2>1. /\ DOMAIN tsRuns' = DOMAIN tsRuns /\ tsRuns' \in Seq(TsRowSet)
        /\ \A i \in DOMAIN tsRuns :
              /\ tsRuns'[i].point = tsRuns[i].point /\ tsRuns'[i].trigger = tsRuns[i].trigger
              /\ tsRuns'[i].begun = tsRuns[i].begun
    BY <1>1, <1>2, CloseRow
  <2>2. TsPast' /\ TsCountedOnce' /\ \A x : TsBehind(x) => TsBehind(x)'
    BY <1>2, <2>1, RowsMarked
  <2>3. \A i \in DOMAIN tsRuns : TsCounts(i)' => TsExecuted(i)
    BY <1>2, <2>1 DEF TsCounts, TsExecuted, TsPlanned
  <2>4. \A x \in Nat : TsDoneBefore(x) => TsBehind(x)'
    BY <2>1, <2>3 DEF TsDoneBefore, TsBehind
  <2>5. \A x \in Nat : TsDoneBefore(x) => TsDoneBefore(x)'
    BY <2>1 DEF TsDoneBefore, TsExecuted, TsPlanned
  <2>6. TsTyped' BY <1>1, <1>2, <2>1 DEF TsTyped
  <2> QED BY <1>1, <1>2, <2>2, <2>4, <2>5, <2>6, Kept
<1>3. ASSUME tsRuns' = tsRuns, tsNow' \in Nat, tsNow <= tsNow', tsNext' = tsNext,
             tsKind' = tsKind,
             \/ tsLive' = tsLive /\ tsTick' = tsTick
             \/ tsLive' = 0 /\ tsTick' = TsIdle
      PROVE  TsInductive'
  <2>1. /\ TsPast' /\ TsCountedOnce' /\ \A x : TsBehind(x) => TsBehind(x)'
        /\ \A x : TsDoneBefore(x) => TsDoneBefore(x)'
        /\ tsLive' = 0 => \A x : TsDoneBefore(x) => TsBehind(x)'
    BY <1>3, SameRuns
  <2>2. TsTyped' BY <1>1, <1>3 DEF TsTyped
  <2> QED BY <1>3, <2>1, <2>2, Kept
<1>4. CASE TsFinish
  <2>1. /\ tsRuns' = [tsRuns EXCEPT ![tsLive].status = "ended"] /\ tsLive' = 0
        /\ tsNow' = tsNow /\ tsNext' = tsNext /\ tsKind' = tsKind /\ tsTick' = tsTick
    BY <1>4 DEF TsFinish
  <2>2. Closed({tsLive}) BY <1>1, <2>1, CloseOne
  <2> QED BY <1>1, <1>a, <1>2, <2>1, <2>2
<1>5. CASE TsRunNow
  <2>1. tsNow' = tsNow /\ tsNext' = tsNext /\ tsKind' = tsKind /\ tsTick' = tsTick
    BY <1>5 DEF TsRunNow
  <2>2. CASE UNCHANGED <<tsRuns, tsLive>> BY <1>1, <1>3, <2>1, <2>2
  <2>3. CASE TsStartRun(tsNow, "manual")
    <3>1. /\ tsRuns' \in Seq(TsRowSet) /\ tsLive' \in Nat
          /\ TsPast' /\ TsCountedOnce'
          /\ \A x \in Nat : TsBehind(x) => TsBehind(x)'
          /\ \A x \in Nat : TsDoneBefore(x) => TsDoneBefore(x)'
      BY <1>1, <2>1, <2>3, RunAdded DEF TsInductive
    <3>2. TsTyped' BY <1>1, <2>1, <3>1 DEF TsTyped
    <3> QED BY <1>1, <2>1, <3>1, <3>2, Kept
  <2> QED BY <1>5, <2>2, <2>3 DEF TsRunNow
<1>6. CASE TsPass BY <1>1, <1>3, <1>6 DEF TsPass
<1>7. CASE TsDown
  <2>1. /\ tsNow' = tsNow /\ tsNext' = tsNext /\ tsKind' = tsKind
        /\ tsTick' = TsIdle /\ tsLive' = 0
    BY <1>7 DEF TsDown
  <2>2. CASE UNCHANGED tsRuns BY <1>1, <1>3, <2>1, <2>2
  <2>3. CASE tsRuns' = [tsRuns EXCEPT ![tsLive].status = "ended"]
    <3>1. Closed({tsLive}) BY <1>1, <2>3, CloseOne
    <3> QED BY <1>1, <1>a, <1>2, <2>1, <3>1
  <2> QED BY <1>7, <2>2, <2>3 DEF TsDown
<1>8. CASE TsStart
  <2>0. PICK anchored \in SUBSET {i \in TsOrphans : TsAnchorable(i)} :
            LET resumable == {i \in anchored : TsResumable(tsRuns[i])}
                resumed == {i \in resumable : \A j \in resumable : i <= j}
            IN  /\ tsRuns' = [i \in DOMAIN tsRuns |->
                        IF i \in TsOrphans \ resumed
                        THEN [tsRuns[i] EXCEPT !.status = "ended"] ELSE tsRuns[i]]
                /\ tsLive' = IF resumed = {} THEN 0 ELSE CHOOSE i \in resumed : TRUE
    BY <1>8 DEF TsStart
  <2> DEFINE resumable == {i \in anchored : TsResumable(tsRuns[i])}
             resumed == {i \in resumable : \A j \in resumable : i <= j}
  <2>1. /\ tsNow' = tsNow /\ tsNext' = tsNext /\ tsKind' = tsKind /\ tsTick' = tsTick
        /\ tsRuns' = [i \in DOMAIN tsRuns |->
                        IF i \in TsOrphans \ resumed
                        THEN [tsRuns[i] EXCEPT !.status = "ended"] ELSE tsRuns[i]]
        /\ tsLive' = IF resumed = {} THEN 0 ELSE CHOOSE i \in resumed : TRUE
    BY <1>8, <2>0 DEF TsStart
  <2>2. \A i \in resumed : i \in DOMAIN tsRuns /\ i \in Nat /\ tsRuns[i].begun
    <3>1. \A i \in DOMAIN tsRuns : i \in Nat BY <1>1 DEF TsTyped
    <3> QED BY <3>1 DEF TsOrphans, TsAnchorable
  <2> HIDE DEF resumed
  <2>3. tsLive' \in resumed \/ tsLive' = 0
    <3>1. resumed # {} => (CHOOSE i \in resumed : TRUE) \in resumed OBVIOUS
    <3> QED BY <2>1, <3>1
  <2>4. tsLive' \in Nat /\ \A i \in DOMAIN tsRuns : i = tsLive' => tsRuns[i].begun
    BY <1>a, <2>2, <2>3
  <2> QED BY <1>2, <2>1, <2>4
<1> QED BY <1>4, <1>5, <1>6, <1>7, <1>8

\* Every step keeps the invariant of the schedule.
LEMMA TsStepInductive == TsInductive /\ [TsNext]_tsVars => TsInductive'
<1> SUFFICES ASSUME TsInductive, [TsNext]_tsVars PROVE TsInductive' OBVIOUS
<1>1. CASE TsTickRead BY <1>1, TickReadKeeps
<1>2. CASE TsTickEnsure BY <1>2, Replanned DEF TsTickEnsure, TsReading
<1>3. CASE TsTickEarly BY <1>3, Replanned DEF TsTickEarly, TsReading
<1>4. CASE TsTickDue BY <1>4, TickDueKeeps
<1>5. CASE TsTickTrigger BY <1>5, TickTriggerKeeps
<1>6. CASE TsTickLate BY <1>6, TickLateKeeps
<1>7. CASE TsFinish \/ TsRunNow \/ TsPass \/ TsDown \/ TsStart BY <1>7, OthersKeep
<1>8. CASE TsPatch BY <1>8, Replanned DEF TsPatch, TsLoopFree
<1>9. CASE UNCHANGED tsVars
  <2>1. tsNow \in Nat /\ TsTyped BY DEF TsInductive, TsTyped
  <2>2. TsPast' /\ TsCountedOnce' /\ (\A x : TsBehind(x) => TsBehind(x)')
        /\ (\A x : TsDoneBefore(x) => TsDoneBefore(x)')
    BY <1>9, <2>1, SameRuns DEF tsVars
  <2>3. TsTyped' BY <1>9, <2>1 DEF tsVars, TsTyped
  <2> QED BY <1>9, <2>1, <2>2, <2>3, Kept DEF tsVars
<1>10. CASE TsTickNote BY <1>10, TickNoteKeeps
<1>11. CASE TsTickMove BY <1>11, TickMoveKeeps
<1>12. CASE TsTickCatch BY <1>12, TickCatchKeeps
<1>13. CASE TsBegin BY <1>13, BeginKeeps
<1> QED BY <1>1, <1>2, <1>3, <1>4, <1>5, <1>6, <1>7, <1>8, <1>9, <1>10, <1>11, <1>12, <1>13
    DEF TsNext

\* A point of the plan is executed at most once: scheduler.py's _advance_next
\* and _consume_missed move next_run_at past what they run before the run can
\* begin, nothing moves it back, and a row whose run a crash has kept from
\* beginning is never taken up.
THEOREM OncePerPoint == TsSpec => []TsOncePerPoint
<1>1. TsInductive => TsOncePerPoint
  BY DEF TsInductive, TsCountedOnce, TsCounts, TsOncePerPoint, TsExecuted
<1> QED BY InitInductive, TsStepInductive, <1>1, PTL DEF TsSpec
-----------------------------------------------------------------------------
(* The plan moves past no point silently.  What next_run_at has moved past *)
(* since the user's last change is recorded; so is what the point a tick   *)
(* is about to act on has behind it.                                       *)

\* Remainders by their multiples.
LEMMA Multiples ==
    ASSUME NEW s \in Nat \ {0}, NEW a \in Nat
    PROVE  a % s = 0 <=> \E k \in Nat : a = k * s
<1>1. a = s * (a \div s) + (a % s) /\ a \div s \in Nat /\ a % s \in 0..s - 1 OBVIOUS
<1>2. ASSUME NEW k \in Nat, a = k * s PROVE a % s = 0
  <2>1. PICK q \in Nat : q = a \div s BY <1>1
  <2>2. s * (k - q) = a % s BY <1>1, <1>2, <2>1
  <2>3. k - q \in Int BY <2>1
  <2>4. \A x \in Int : (x >= 1 => s * x >= s) /\ (x <= -1 => s * x <= -s) OBVIOUS
  <2>5. k - q = 0 BY <1>1, <2>2, <2>3, <2>4
  <2> QED BY <2>2, <2>5
<1>3. ASSUME a % s = 0 PROVE \E k \in Nat : a = k * s
  <2>1. PICK k \in Nat : k = a \div s BY <1>1
  <2>2. a = k * s BY <1>1, <1>3, <2>1
  <2> QED BY <2>2
<1>4. ASSUME \E k \in Nat : a = k * s PROVE a % s = 0
  <2>1. PICK k \in Nat : a = k * s BY <1>4
  <2> QED BY <1>2, <2>1
<1> QED BY <1>3, <1>4

\* Multiples of the step add up, and two of them are a step apart.
LEMMA Steps ==
    ASSUME NEW s \in Nat \ {0}, NEW a \in Nat, NEW b \in Nat, a % s = 0, b % s = 0
    PROVE  /\ (a + b) % s = 0
           /\ a >= b => (a - b) % s = 0
           /\ a > b => a >= b + s
<1>1. PICK k \in Nat : a = k * s BY Multiples
<1>2. PICK q \in Nat : b = q * s BY Multiples
<1>3. a + b = (k + q) * s BY <1>1, <1>2
<1>4. (a + b) % s = 0
  <2>1. k + q \in Nat /\ a + b \in Nat OBVIOUS
  <2> QED BY <1>3, <2>1, Multiples
<1>5. a - b = (k - q) * s BY <1>1, <1>2
<1>6. \A x \in Int : (x >= 1 => x * s >= s) /\ (x <= -1 => x * s <= -s) OBVIOUS
<1>7. k - q \in Int OBVIOUS
<1>8. a >= b => k - q \in Nat BY <1>5, <1>6, <1>7
<1>9. ASSUME a >= b PROVE (a - b) % s = 0
  <2>1. a - b \in Nat /\ k - q \in Nat BY <1>8, <1>9
  <2> QED BY <1>5, <2>1, Multiples
<1>10. ASSUME a > b PROVE a >= b + s
  <2>1. k - q >= 1
    <3>1. k - q # 0 BY <1>5, <1>10
    <3> QED BY <1>8, <1>10, <3>1
  <2> QED BY <1>5, <1>6, <1>7, <2>1
<1> QED BY <1>4, <1>9, <1>10

\* The points of the plan before x, since the last change, have a row or are
\* among those to note still.
TsTold(x, left) ==
    tsFirst # TsNever =>
        \A p \in tsFirst..x - 1 : (x - p) % TsStep = 0 => p \in left \/ TsAccounted(p)

\* So it is for next_run_at, for the point a tick acts on, and for the one it
\* is about to move next_run_at to.
TsComplete ==
    tsKind # "once" =>
        /\ tsNext # TsNever => TsTold(tsNext, {})
        /\ tsTick.stage \in {"read", "due"}
             /\ tsTick.next # TsNever /\ tsTick.next <= tsTick.now
             => TsTold(tsTick.next, {})
        /\ tsTick.stage = "note" /\ tsTick.next # TsNever
             => TsTold(tsTick.next, tsTick.left)

\* With its type: the invariant next to TsInductive.
TsRecorded == tsFirst \in Nat /\ TsComplete

\* A row or a note stays.
LEMMA RowsStay ==
    ASSUME TsTyped, tsNotes \subseteq tsNotes', DOMAIN tsRuns \subseteq DOMAIN tsRuns',
           \A i \in DOMAIN tsRuns :
             tsRuns'[i].point = tsRuns[i].point /\ tsRuns'[i].trigger = tsRuns[i].trigger,
           NEW p, TsAccounted(p)
    PROVE  TsAccounted(p)'
BY DEF TsAccounted, TsPlanned

\* The plan moves on from a point: what lies between is missed.
LEMMA MovedTold ==
    ASSUME tsNow \in Nat, tsKind # "once", NEW y \in Nat \ {0}, NEW z \in TsTargets(y),
           NEW f \in Nat, NEW Done, TsMissedFrom(y) \subseteq Done,
           \A p \in f..y - 1 : (y - p) % TsStep = 0 => p \in Done
    PROVE  \A p \in f..z - 1 : (z - p) % TsStep = 0 => p \in Done
<1>a. z \in Nat BY TargetAhead
<1> SUFFICES ASSUME NEW p \in f..z - 1, (z - p) % TsStep = 0 PROVE p \in Done
  OBVIOUS
<1>0. /\ TsStep \in Nat \ {0} /\ TsGrace \in Nat /\ tsNow \in Nat /\ p \in Nat
      /\ p >= f /\ p < z
  <2>1. p \in Nat /\ p >= f /\ p < z BY <1>a
  <2> QED BY <2>1, TsNumbers
<1>1. CASE z = y BY <1>1
<1>2. ASSUME NEW last \in TsLatest(TsMissedFrom(y)), z = TsStepPoint(last)
      PROVE  p \in Done
  <2>1. /\ last \in TsMissedFrom(y) /\ last \in Nat /\ y <= last
        /\ last <= tsNow - TsGrace - 1 /\ (last - y) % TsStep = 0
        /\ tsNow > y + TsGrace
    <3>1. last \in TsMissedFrom(y) BY DEF TsLatest
    <3>2. last \in Nat /\ y <= last BY <1>0, <3>1, MissedRange
    <3>3. tsNow > y + TsGrace /\ last \in y..tsNow - TsGrace - 1 /\ (last - y) % TsStep = 0
      BY <1>0, <3>1 DEF TsMissedFrom
    <3> QED BY <1>0, <3>1, <3>2, <3>3
  <2>2. z = last + TsStep BY <1>2 DEF TsStepPoint
  <2>3. PICK a \in Nat : a = last - y /\ a % TsStep = 0 BY <2>1
  <2>4. PICK b \in Nat : b = last + TsStep - p /\ b % TsStep = 0 /\ b > 0
    <3>1. PICK b \in Nat : b = z - p BY <1>0, <1>a
    <3>2. b % TsStep = 0 BY <3>1
    <3>3. b = last + TsStep - p /\ b > 0 BY <1>0, <1>a, <2>1, <2>2, <3>1
    <3> QED BY <3>2, <3>3
  <2>5. TsStep % TsStep = 0 /\ 0 % TsStep = 0
    <3>1. TsStep = 1 * TsStep /\ 0 = 0 * TsStep BY <1>0
    <3> QED BY <1>0, <3>1, Multiples
  <2>6. b >= TsStep
    <3>1. b >= 0 + TsStep BY <1>0, <2>4, <2>5, Steps
    <3> QED BY <1>0, <3>1
  <2>7. CASE p < y
    <3>1. PICK c \in Nat : c = a + TsStep /\ c % TsStep = 0 BY <1>0, <2>3, <2>5, Steps
    <3>2. b - c = y - p /\ b >= c BY <1>0, <2>1, <2>3, <2>4, <2>7, <3>1
    <3>3. (b - c) % TsStep = 0 BY <1>0, <2>4, <3>1, <3>2, Steps
    <3>4. p \in f..y - 1 BY <1>0, <2>7
    <3> QED BY <3>2, <3>3, <3>4
  <2>8. CASE p >= y
    <3>1. p <= last BY <1>0, <2>1, <2>4, <2>6
    <3>2. PICK c \in Nat : c = a + TsStep /\ c % TsStep = 0 BY <1>0, <2>3, <2>5, Steps
    <3>3. c - b = p - y /\ c >= b BY <1>0, <2>1, <2>3, <2>4, <2>8, <3>2
    <3>4. (p - y) % TsStep = 0
      <4>1. (c - b) % TsStep = 0 BY <1>0, <2>4, <3>2, <3>3, Steps
      <4> QED BY <3>3, <4>1
    <3>5. p \in y..tsNow - TsGrace - 1 BY <1>0, <2>1, <2>8, <3>1
    <3>6. y # TsNever /\ ~(tsNow <= y + TsGrace) BY <1>0, <2>1 DEF TsNever
    <3>7. p \in TsMissedFrom(y) BY <3>4, <3>5, <3>6 DEF TsMissedFrom
    <3> QED BY <3>7
  <2> QED BY <1>0, <2>7, <2>8
<1> QED BY <1>1, <1>2 DEF TsTargets

\* A point that is done itself is moved past.
LEMMA StepTold ==
    ASSUME NEW x \in Nat, NEW y \in Nat, y = x + TsStep, NEW f \in Nat, NEW Done, x \in Done,
           \A p \in f..x - 1 : (x - p) % TsStep = 0 => p \in Done
    PROVE  \A p \in f..y - 1 : (y - p) % TsStep = 0 => p \in Done
<1> SUFFICES ASSUME NEW p \in f..y - 1, (y - p) % TsStep = 0 PROVE p \in Done
  OBVIOUS
<1>0. TsStep \in Nat \ {0} /\ p \in Nat /\ p >= f /\ p < x + TsStep BY TsNumbers
<1>1. PICK b \in Nat : b = x + TsStep - p /\ b % TsStep = 0 /\ b > 0
  <2>1. PICK b \in Nat : b = y - p BY <1>0
  <2>2. b % TsStep = 0 BY <2>1
  <2>3. b = x + TsStep - p /\ b > 0 BY <1>0, <2>1
  <2> QED BY <2>2, <2>3
<1>2. TsStep % TsStep = 0 /\ 0 % TsStep = 0
  <2>1. TsStep = 1 * TsStep /\ 0 = 0 * TsStep BY <1>0
  <2> QED BY <1>0, <2>1, Multiples
<1>3. b >= TsStep
  <2>1. b >= 0 + TsStep BY <1>0, <1>1, <1>2, Steps
  <2> QED BY <1>0, <2>1
<1>4. p <= x BY <1>0, <1>1, <1>3
<1>5. CASE p = x BY <1>5
<1>6. CASE p # x
  <2>1. p \in f..x - 1 BY <1>0, <1>4, <1>6
  <2>2. (b - TsStep) % TsStep = 0 BY <1>0, <1>1, <1>2, <1>3, Steps
  <2>3. b - TsStep = x - p BY <1>0, <1>1
  <2> QED BY <2>1, <2>2, <2>3
<1> QED BY <1>5, <1>6

\* No row is lost: what is accounted for stays so.
LEMMA StillTold ==
    ASSUME \A p : TsAccounted(p) => TsAccounted(p)', tsFirst' = tsFirst,
           NEW x, NEW left, TsTold(x, left)
    PROVE  TsTold(x, left)'
BY DEF TsTold

\* A step that loses no row and leaves the plan and what the tick holds alone
LEMMA RecordStays ==
    ASSUME TsInductive, TsRecorded, \A p : TsAccounted(p) => TsAccounted(p)',
           tsFirst' = tsFirst, tsNext' = tsNext, tsKind' = tsKind,
           \/ tsTick'.stage \in {"idle", "catch"}
           \/ tsTick' = tsTick
           \/ /\ tsTick.stage \in {"read", "due"} /\ tsTick'.stage \in {"read", "due"}
              /\ tsTick'.next = tsTick.next /\ tsTick'.now = tsTick.now
    PROVE  TsRecorded'
<1>1. tsFirst' \in Nat BY DEF TsRecorded
<1>2. ASSUME tsKind # "once", tsNext # TsNever PROVE TsTold(tsNext, {})'
  <2>1. PICK x : x = tsNext OBVIOUS
  <2>2. TsTold(x, {}) BY <1>2, <2>1 DEF TsRecorded, TsComplete
  <2>3. TsTold(x, {})' BY <2>2, StillTold
  <2> QED BY <2>1, <2>3 DEF TsTold
<1>3. ASSUME tsKind # "once", tsTick'.stage \in {"read", "due"}, tsTick'.next # TsNever,
             tsTick'.next <= tsTick'.now
      PROVE  TsTold(tsTick.next, {})'
  <2>1. PICK x : x = tsTick.next OBVIOUS
  <2>2. tsTick'.next = tsTick.next /\ tsTick'.now = tsTick.now
        /\ tsTick.stage \in {"read", "due"}
    BY <1>3
  <2>3. TsTold(x, {}) BY <1>3, <2>1, <2>2 DEF TsRecorded, TsComplete
  <2>4. TsTold(x, {})' BY <2>3, StillTold
  <2> QED BY <2>1, <2>2, <2>4 DEF TsTold
<1>4. ASSUME tsKind # "once", tsTick'.stage = "note", tsTick'.next # TsNever
      PROVE  TsTold(tsTick.next, tsTick.left)'
  <2>1. tsTick' = tsTick BY <1>4
  <2>2. PICK x, left : x = tsTick.next /\ left = tsTick.left OBVIOUS
  <2>3. TsTold(x, left) BY <1>4, <2>1, <2>2 DEF TsRecorded, TsComplete
  <2>4. TsTold(x, left)' BY <2>3, StillTold
  <2> QED BY <2>1, <2>2, <2>4 DEF TsTold
<1> QED BY <1>1, <1>2, <1>3, <1>4 DEF TsRecorded, TsComplete

\* A run that is started adds a row, and its point is accounted for.
LEMMA StartRecorded ==
    ASSUME TsTyped, NEW x \in Nat, NEW trigger \in {"schedule", "catch_up", "manual"},
           TsStartRun(x, trigger), tsNotes \subseteq tsNotes'
    PROVE  /\ \A p : TsAccounted(p) => TsAccounted(p)'
           /\ trigger # "manual" => TsAccounted(x)'
<1>1. PICK n \in Nat : n = Len(tsRuns) BY DEF TsTyped
<1>2. TsRow(x, trigger) \in TsRowSet BY DEF TsRow, TsRowSet, TsTyped
<1>3. tsRuns' = Append(tsRuns, TsRow(x, trigger)) /\ tsRuns \in Seq(TsRowSet)
  BY DEF TsStartRun, TsTyped
<1>4. /\ DOMAIN tsRuns = 1..n /\ DOMAIN tsRuns' = 1..n + 1
      /\ \A i \in 1..n : tsRuns'[i] = tsRuns[i]
      /\ tsRuns'[n + 1] = TsRow(x, trigger)
  BY <1>1, <1>2, <1>3
<1>5. DOMAIN tsRuns \subseteq DOMAIN tsRuns' /\ n + 1 \in DOMAIN tsRuns' BY <1>4
<1>6. \A p : TsAccounted(p) => TsAccounted(p)' BY <1>4, <1>5, RowsStay
<1>7. tsRuns'[n + 1].point = x /\ tsRuns'[n + 1].trigger = trigger BY <1>4 DEF TsRow
<1>8. trigger # "manual" => TsAccounted(x)' BY <1>5, <1>7 DEF TsAccounted, TsPlanned
<1> QED BY <1>6, <1>8
\* A plan that starts anew has nothing behind it.
LEMMA AnewRecorded ==
    ASSUME TsInductive, TsRecorded, tsNow' = tsNow, tsKind' = tsKind,
           tsTick' \in {tsTick, TsIdle}, tsTick.stage \notin {"note", "catch"},
           tsNext' \in {TsNever, TsCompute(tsNow)}, tsFirst' = tsNext'
    PROVE  TsRecorded'
<1>1. tsNow \in Nat /\ tsKind \in TsKinds /\ TsTyped BY DEF TsInductive, TsTyped
<1>2. PICK f : f = tsFirst' OBVIOUS
<1>3. f \in Nat /\ (f # TsNever => f > tsNow)
  BY <1>1, <1>2, ComputeAfter DEF TsNever
<1>4. ASSUME NEW x \in Nat, f # TsNever => x <= f PROVE TsTold(x, {})'
  <2>1. \A p \in f..x - 1 : f = TsNever BY <1>3, <1>4
  <2> QED BY <1>2, <2>1 DEF TsTold
<1>5. TsTold(f, {})' BY <1>3, <1>4
<1>6. TsTold(tsNext, {})' BY <1>2, <1>5 DEF TsTold
<1>7. tsTick'.stage # "note" BY DEF TsIdle
<1>8. ASSUME tsTick'.stage \in {"read", "due"}, tsTick'.next <= tsTick'.now
      PROVE  TsTold(tsTick.next, {})'
  <2>1. tsTick' = tsTick BY <1>8 DEF TsIdle
  <2>2. tsTick \in TsPointTick BY <1>1, <1>8, <2>1, TickShapes
  <2>3. PICK x \in Nat : x = tsTick.next BY <2>2 DEF TsPointTick
  <2>4. tsTick.now <= tsNow /\ tsTick.now \in Nat
    BY <1>8, <2>1, <2>2 DEF TsInductive, TsTickSane, TsPointTick
  <2>5. x <= tsNow BY <1>1, <1>8, <2>1, <2>3, <2>4
  <2>6. TsTold(x, {})' BY <1>1, <1>3, <1>4, <2>5
  <2> QED BY <2>1, <2>3, <2>6 DEF TsTold
<1> QED BY <1>2, <1>3, <1>6, <1>7, <1>8 DEF TsRecorded, TsComplete

\* The tick's reading of the task leaves no point without a row.
LEMMA TickReadRecorded ==
    ASSUME TsInductive, TsRecorded, TsTickRead
    PROVE  TsRecorded'
<1>1. /\ tsTick' = [stage |-> "read", now |-> tsNow, next |-> tsNext]
      /\ tsRuns' = tsRuns /\ tsNext' = tsNext /\ tsNotes' = tsNotes /\ tsFirst' = tsFirst
      /\ tsKind' = tsKind
  BY DEF TsTickRead
<1>2. \A p : TsAccounted(p) => TsAccounted(p)' BY <1>1 DEF TsAccounted, TsPlanned
<1>3. ASSUME tsKind # "once", tsNext # TsNever PROVE TsTold(tsNext, {})'
  <2>1. PICK x : x = tsNext OBVIOUS
  <2>2. TsTold(x, {}) BY <1>3, <2>1 DEF TsRecorded, TsComplete
  <2>3. TsTold(x, {})' BY <1>1, <1>2, <2>2, StillTold
  <2> QED BY <1>1, <2>1, <2>3 DEF TsTold
<1>4. tsTick'.next = tsNext' /\ tsTick'.stage = "read" BY <1>1
<1>5. TsTold(tsTick.next, {})' <=> TsTold(tsNext, {})' BY <1>4 DEF TsTold
<1> QED BY <1>1, <1>3, <1>4, <1>5 DEF TsRecorded, TsComplete

\* Before the plan moves from a point, what is missed from there is to be noted.
LEMMA MoveFromRecorded ==
    ASSUME TsInductive, TsRecorded, \A p : TsAccounted(p) => TsAccounted(p)',
           tsFirst' = tsFirst, tsNext' = tsNext, tsKind' = tsKind,
           NEW y \in Nat, NEW catch, TsMoveFrom(y, catch),
           tsKind # "once" => y # TsNever /\ TsTold(y, {})'
    PROVE  TsRecorded'
<1>1. tsNow \in Nat BY DEF TsInductive, TsTyped
<1>2. PICK z \in TsTargets(y) :
        tsTick' = [stage |-> "note", left |-> TsMissedFrom(y), next |-> z, catch |-> catch]
  BY DEF TsMoveFrom
<1>3. tsFirst \in Nat BY DEF TsRecorded
<1>4. ASSUME tsKind # "once", tsNext # TsNever PROVE TsTold(tsNext, {})'
  <2>1. PICK x : x = tsNext OBVIOUS
  <2>2. TsTold(x, {}) BY <1>4, <2>1 DEF TsRecorded, TsComplete
  <2>3. TsTold(x, {})' BY <2>2, StillTold
  <2> QED BY <2>1, <2>3 DEF TsTold
<1>5. ASSUME tsKind # "once" PROVE TsTold(tsTick.next, tsTick.left)'
  <2>1. y \in Nat \ {0} /\ TsTold(y, {})' BY <1>5 DEF TsNever
  <2>2. PICK left : left = TsMissedFrom(y) OBVIOUS
  <2>3. PICK Done : Done = left \cup {p \in Nat : TsAccounted(p)'} OBVIOUS
  <2>4. ASSUME tsFirst # TsNever PROVE \A p \in tsFirst..z - 1 : (z - p) % TsStep = 0 => p \in Done
    <3>1. \A p \in tsFirst..y - 1 : (y - p) % TsStep = 0 => TsAccounted(p)'
      BY <2>1, <2>4 DEF TsTold
    <3>2. \A p \in tsFirst..y - 1 : (y - p) % TsStep = 0 => p \in Done
      BY <1>3, <2>3, <3>1
    <3> QED BY <1>1, <1>3, <1>5, <2>1, <2>2, <2>3, <3>2, MovedTold
  <2>5. TsTold(z, left)' BY <2>3, <2>4 DEF TsTold
  <2>6. tsTick'.next = z /\ tsTick'.left = left BY <1>2, <2>2
  <2> QED BY <2>5, <2>6 DEF TsTold
<1>6. tsTick'.stage = "note" BY <1>2
<1> QED BY <1>3, <1>4, <1>5, <1>6 DEF TsRecorded, TsComplete

\* A point that is triggered has its row, one that is skipped its notice.
LEMMA TickTriggerRecorded ==
    ASSUME TsInductive, TsRecorded, TsTickTrigger
    PROVE  TsRecorded'
<1>1. /\ tsTick.stage = "due" /\ tsNow' = tsNow /\ tsKind' = tsKind
      /\ tsNext' = tsNext /\ tsFirst' = tsFirst /\ tsFirst \in Nat
  BY DEF TsTickTrigger, TsRecorded
<1>6. TsTyped BY DEF TsInductive
<1>2. tsTick \in TsPointTick BY <1>1, <1>6, TickShapes
<1>3. PICK x \in Nat : x = tsTick.next BY <1>2 DEF TsPointTick
<1>4. x # TsNever /\ tsTick.next <= tsTick.now BY <1>1, <1>3 DEF TsInductive, TsTickSane
<1>5. tsKind # "once" => TsTold(x, {}) BY <1>1, <1>3, <1>4 DEF TsRecorded, TsComplete
<1>8. CASE TsSkip(x) /\ tsTick' = TsIdle
  <2>1. tsRuns' = tsRuns /\ tsNotes \subseteq tsNotes' /\ tsTick'.stage = "idle"
    BY <1>8 DEF TsSkip, TsIdle
  <2>2. \A p : TsAccounted(p) => TsAccounted(p)' BY <1>6, <2>1, RowsStay
  <2> QED BY <1>1, <2>1, <2>2, RecordStays
<1>9. CASE TsStartRun(x, "schedule") /\ UNCHANGED tsNotes /\ TsMoveFrom(TsStepPoint(x), {})
  <2>1. /\ \A p : TsAccounted(p) => TsAccounted(p)'
        /\ TsAccounted(x)'
    BY <1>6, <1>9, StartRecorded
  <2>2. PICK y \in Nat : y = TsStepPoint(x) BY StepAfter
  <2>3. ASSUME tsKind # "once" PROVE y # TsNever /\ TsTold(y, {})'
    <3>1. y = x + TsStep /\ y # TsNever BY <2>2, <2>3, TsNumbers DEF TsStepPoint, TsNever
    <3>2. TsTold(x, {})' BY <1>1, <1>5, <2>1, <2>3, StillTold
    <3>3. PICK Done : Done = {p \in Nat : TsAccounted(p)'} OBVIOUS
    <3>4. ASSUME tsFirst # TsNever
          PROVE  \A p \in tsFirst..y - 1 : (y - p) % TsStep = 0 => p \in Done
      <4>1. \A p \in tsFirst..x - 1 : (x - p) % TsStep = 0 => p \in Done
        BY <1>1, <3>2, <3>3, <3>4 DEF TsTold
      <4>2. x \in Done BY <2>1, <3>3
      <4> QED BY <1>1, <3>1, <4>1, <4>2, StepTold
    <3>5. TsTold(y, {})' BY <1>1, <3>3, <3>4 DEF TsTold
    <3> QED BY <3>1, <3>5
  <2>4. TsMoveFrom(y, {}) BY <1>9, <2>2
  <2> QED BY <1>1, <2>1, <2>3, <2>4, MoveFromRecorded
<1> QED BY <1>3, <1>8, <1>9 DEF TsTickTrigger

\* A point found too late is behind nothing that has no row.
LEMMA TickLateRecorded ==
    ASSUME TsInductive, TsRecorded, TsTickLate
    PROVE  TsRecorded'
<1>1. /\ tsTick.stage = "read" /\ tsKind' = tsKind /\ tsNext' = tsNext
      /\ tsFirst' = tsFirst /\ tsFirst \in Nat /\ tsTick.next # TsNever
      /\ tsTick.now > tsTick.next + TsGrace
      /\ tsRuns' = tsRuns /\ tsNotes' = tsNotes
  BY DEF TsTickLate, TsReading, TsRecorded
<1>6. TsTyped BY DEF TsInductive
<1>2. tsTick \in TsPointTick BY <1>1, <1>6, TickShapes
<1>3. PICK y \in Nat : y = tsTick.next BY <1>2 DEF TsPointTick
<1>4. tsTick.next <= tsTick.now BY <1>1, <1>2, TsNumbers DEF TsPointTick
<1>5. tsKind # "once" => TsTold(y, {}) BY <1>1, <1>3, <1>4 DEF TsRecorded, TsComplete
<1>7. \A p : TsAccounted(p) => TsAccounted(p)' BY <1>1, <1>6, RowsStay
<1>8. tsKind # "once" => y # TsNever /\ TsTold(y, {})' BY <1>1, <1>3, <1>5, <1>7, StillTold
<1>9. PICK catch : catch = TsCatchUp(TsMissedFrom(y)) OBVIOUS
<1>10. TsMoveFrom(y, catch) BY <1>3, <1>9 DEF TsTickLate
<1> QED BY <1>1, <1>7, <1>8, <1>10, MoveFromRecorded

\* A point that is noted is accounted for.
LEMMA TickNoteRecorded ==
    ASSUME TsInductive, TsRecorded, TsTickNote
    PROVE  TsRecorded'
<1>0. TsTyped BY DEF TsInductive
<1>1. PICK p \in tsTick.left : \E status :
        /\ tsNotes' = tsNotes \cup {TsNote(p, status)}
        /\ tsTick' = [tsTick EXCEPT !.left = @ \ {p}]
  BY DEF TsTickNote
<1>2. /\ tsTick.stage = "note" /\ tsKind' = tsKind /\ tsNext' = tsNext
      /\ tsFirst' = tsFirst /\ tsFirst \in Nat /\ tsRuns' = tsRuns
  BY DEF TsTickNote, TsRecorded
<1>3. tsTick \in TsNoteTick BY <1>0, <1>2, TickShapes
<1>4. PICK x, left : x = tsTick.next /\ left = tsTick.left OBVIOUS
<1>5. tsTick'.next = x /\ tsTick'.left = left \ {p} /\ tsTick'.stage = "note"
  BY <1>1, <1>2, <1>3, <1>4 DEF TsNoteTick
<1>6. \A q : TsAccounted(q) => TsAccounted(q)' BY <1>0, <1>1, <1>2, RowsStay
<1>7. TsAccounted(p)'
  <2>1. PICK status : tsNotes' = tsNotes \cup {TsNote(p, status)} BY <1>1
  <2>2. TsNote(p, status) \in tsNotes' /\ TsNote(p, status).point = p BY <2>1 DEF TsNote
  <2> QED BY <2>2 DEF TsAccounted
<1>8. ASSUME tsKind # "once", x # TsNever PROVE TsTold(tsTick.next, tsTick.left)'
  <2>1. TsTold(x, left) BY <1>2, <1>4, <1>8 DEF TsRecorded, TsComplete
  <2>2. TsTold(x, left \ {p})' BY <1>2, <1>6, <1>7, <2>1 DEF TsTold
  <2> QED BY <1>5, <2>2 DEF TsTold
<1>9. ASSUME tsKind # "once", tsNext # TsNever PROVE TsTold(tsNext, {})'
  <2>1. PICK n : n = tsNext OBVIOUS
  <2>2. TsTold(n, {}) BY <1>9, <2>1 DEF TsRecorded, TsComplete
  <2>3. TsTold(n, {})' BY <1>2, <1>6, <2>2, StillTold
  <2> QED BY <1>2, <2>1, <2>3 DEF TsTold
<1> QED BY <1>2, <1>5, <1>8, <1>9 DEF TsRecorded, TsComplete

\* The plan moves when all is noted.
LEMMA TickMoveRecorded ==
    ASSUME TsInductive, TsRecorded, TsTickMove
    PROVE  TsRecorded'
<1>0. TsTyped BY DEF TsInductive
<1>1. /\ tsTick.stage = "note" /\ tsTick.left = {} /\ tsKind' = tsKind
      /\ tsNext' = tsTick.next /\ tsFirst' = tsFirst /\ tsFirst \in Nat
      /\ tsRuns' = tsRuns /\ tsNotes' = tsNotes /\ tsTick'.stage \in {"idle", "catch"}
  BY DEF TsTickMove, TsRecorded, TsIdle
<1>2. \A p : TsAccounted(p) => TsAccounted(p)' BY <1>0, <1>1, RowsStay
<1>3. PICK z : z = tsTick.next OBVIOUS
<1>4. ASSUME tsKind # "once", z # TsNever PROVE TsTold(tsNext, {})'
  <2>1. TsTold(z, {}) BY <1>1, <1>3, <1>4 DEF TsRecorded, TsComplete, TsTold
  <2>2. TsTold(z, {})' BY <1>1, <1>2, <2>1, StillTold
  <2> QED BY <1>1, <1>3, <2>2 DEF TsTold
<1> QED BY <1>1, <1>3, <1>4 DEF TsRecorded, TsComplete

\* The run that catches up adds its row, or a note.
LEMMA TickCatchRecorded ==
    ASSUME TsInductive, TsRecorded, TsTickCatch
    PROVE  TsRecorded'
<1>0. TsTyped BY DEF TsInductive
<1>1. /\ tsTick.stage = "catch" /\ tsTick'.stage = "idle" /\ tsKind' = tsKind
      /\ tsNext' = tsNext /\ tsFirst' = tsFirst /\ tsNotes \subseteq tsNotes'
  BY DEF TsTickCatch, TsIdle, TsSkip
<1>2. tsTick \in TsCatchTick BY <1>0, <1>1, TickShapes
<1>3. PICK x \in Nat : x = tsTick.next BY <1>2 DEF TsCatchTick
<1>4. CASE TsSkip(x)
  <2>1. \A p : TsAccounted(p) => TsAccounted(p)' BY <1>0, <1>1, <1>4, RowsStay DEF TsSkip
  <2> QED BY <1>1, <2>1, RecordStays
<1>5. CASE TsStartRun(x, "catch_up")
  <2>1. \A p : TsAccounted(p) => TsAccounted(p)' BY <1>0, <1>1, <1>5, StartRecorded
  <2> QED BY <1>1, <2>1, RecordStays
<1> QED BY <1>3, <1>4, <1>5 DEF TsTickCatch

\* Runs on demand, runs that begin or end, the clock, and a process that ends or
\* starts lose no row.
LEMMA OthersRecorded ==
    ASSUME TsInductive, TsRecorded,
           TsBegin \/ TsFinish \/ TsRunNow \/ TsPass \/ TsDown \/ TsStart
    PROVE  TsRecorded'
<1>1. TsTyped /\ tsNow \in Nat BY DEF TsInductive, TsTyped
<1>2. /\ tsFirst' = tsFirst /\ tsNext' = tsNext /\ tsKind' = tsKind /\ tsNotes' = tsNotes
      /\ tsTick' = tsTick \/ tsTick'.stage = "idle"
  BY DEF TsBegin, TsFinish, TsRunNow, TsPass, TsDown, TsStart, TsIdle
<1> DEFINE Closed(S) == tsRuns' = [i \in DOMAIN tsRuns |->
                            IF i \in S THEN [tsRuns[i] EXCEPT !.status = "ended"] ELSE tsRuns[i]]
<1>3. ASSUME NEW S, Closed(S) PROVE TsRecorded'
  <2>1. /\ DOMAIN tsRuns' = DOMAIN tsRuns
        /\ \A i \in DOMAIN tsRuns :
              tsRuns'[i].point = tsRuns[i].point /\ tsRuns'[i].trigger = tsRuns[i].trigger
    BY <1>1, <1>3, CloseRow
  <2>2. \A p : TsAccounted(p) => TsAccounted(p)' BY <1>1, <1>2, <2>1, RowsStay
  <2> QED BY <1>2, <2>2, RecordStays
<1>4. ASSUME tsRuns' = tsRuns PROVE TsRecorded'
  <2>1. \A p : TsAccounted(p) => TsAccounted(p)' BY <1>1, <1>2, <1>4, RowsStay
  <2> QED BY <1>2, <2>1, RecordStays
<1>5. CASE TsFinish
  <2>1. Closed({tsLive}) BY <1>1, <1>5, CloseOne DEF TsFinish
  <2> QED BY <1>3, <2>1
<1>6. CASE TsRunNow
  <2>1. CASE TsStartRun(tsNow, "manual")
    <3>1. PICK x \in Nat : x = tsNow BY <1>1
    <3>2. TsStartRun(x, "manual") /\ tsNotes \subseteq tsNotes' BY <1>2, <2>1, <3>1
    <3>3. \A p : TsAccounted(p) => TsAccounted(p)' BY <1>1, <3>2, StartRecorded
    <3> QED BY <1>2, <3>3, RecordStays
  <2> QED BY <1>4, <1>6, <2>1 DEF TsRunNow
<1>7. CASE TsPass BY <1>4, <1>7 DEF TsPass
<1>8. CASE TsDown
  <2>1. CASE tsRuns' = [tsRuns EXCEPT ![tsLive].status = "ended"]
    <3>1. Closed({tsLive}) BY <1>1, <2>1, CloseOne
    <3> QED BY <1>3, <3>1
  <2> QED BY <1>4, <1>8, <2>1 DEF TsDown
<1>9. CASE TsStart
  <2>1. PICK S : Closed(S) BY <1>9 DEF TsStart
  <2> QED BY <1>3, <2>1
<1>10. CASE TsBegin
  <2>1. tsLive \in Nat /\ tsRuns' = [tsRuns EXCEPT ![tsLive].begun = TRUE]
    BY <1>1, <1>10 DEF TsBegin, TsTyped
  <2>2. /\ DOMAIN tsRuns' = DOMAIN tsRuns
        /\ \A i \in DOMAIN tsRuns :
              tsRuns'[i].point = tsRuns[i].point /\ tsRuns'[i].trigger = tsRuns[i].trigger
    BY <1>1, <2>1, BeginRow
  <2>3. \A p : TsAccounted(p) => TsAccounted(p)' BY <1>1, <1>2, <2>2, RowsStay
  <2> QED BY <1>2, <2>3, RecordStays
<1> QED BY <1>5, <1>6, <1>7, <1>8, <1>9, <1>10
\* Every step keeps each point of the plan accounted for.
LEMMA TsStepRecorded ==
    TsInductive /\ TsRecorded /\ [TsNext]_tsVars => TsRecorded'
<1> SUFFICES ASSUME TsInductive, TsRecorded, [TsNext]_tsVars PROVE TsRecorded' OBVIOUS
<1>0. TsTyped BY DEF TsInductive
<1>1. CASE TsTickRead BY <1>1, TickReadRecorded
<1>2. CASE TsTickEnsure
  <2>1. /\ tsNow' = tsNow /\ tsKind' = tsKind /\ tsTick' = TsIdle
        /\ tsRuns' = tsRuns /\ tsNotes' = tsNotes
        /\ \/ tsNext' = tsNext /\ tsFirst' = tsFirst
           \/ tsNext' = TsCompute(tsNow) /\ tsFirst' = tsNext'
    BY <1>2 DEF TsTickEnsure
  <2>2. CASE tsNext' = tsNext /\ tsFirst' = tsFirst
    <3>1. \A p : TsAccounted(p) => TsAccounted(p)' BY <1>0, <2>1, RowsStay
    <3>2. tsTick'.stage = "idle" BY <2>1 DEF TsIdle
    <3> QED BY <2>1, <2>2, <3>1, <3>2, RecordStays
  <2>3. CASE tsNext' = TsCompute(tsNow) /\ tsFirst' = tsNext'
    <3>1. tsTick.stage = "read" BY <1>2 DEF TsTickEnsure, TsReading
    <3> QED BY <2>1, <2>3, <3>1, AnewRecorded
  <2> QED BY <2>1, <2>2, <2>3
<1>3. CASE TsTickEarly
  <2>1. \A p : TsAccounted(p) => TsAccounted(p)' BY <1>0, <1>3, RowsStay DEF TsTickEarly
  <2>2. tsTick'.stage = "idle" BY <1>3 DEF TsTickEarly, TsIdle
  <2> QED BY <1>3, <2>1, <2>2, RecordStays DEF TsTickEarly
<1>4. CASE TsTickDue
  <2>1. \A p : TsAccounted(p) => TsAccounted(p)' BY <1>0, <1>4, RowsStay DEF TsTickDue
  <2>2. tsTick.stage = "read" /\ tsTick' = [tsTick EXCEPT !.stage = "due"]
    BY <1>4 DEF TsTickDue, TsReading
  <2>3. tsTick \in TsPointTick BY <1>0, <2>2, TickShapes
  <2>4. tsTick'.stage = "due" /\ tsTick'.next = tsTick.next /\ tsTick'.now = tsTick.now
    BY <2>2, <2>3 DEF TsPointTick
  <2> QED BY <1>4, <2>1, <2>2, <2>4, RecordStays DEF TsTickDue
<1>5. CASE TsTickTrigger BY <1>5, TickTriggerRecorded
<1>6. CASE TsTickLate BY <1>6, TickLateRecorded
<1>7. CASE TsBegin \/ TsFinish \/ TsRunNow \/ TsPass \/ TsDown \/ TsStart 
  BY <1>7, OthersRecorded
<1>8. CASE TsPatch BY <1>8, AnewRecorded DEF TsPatch, TsLoopFree
<1>9. CASE UNCHANGED tsVars
  <2>1. \A p : TsAccounted(p) => TsAccounted(p)' BY <1>0, <1>9, RowsStay DEF tsVars
  <2> QED BY <1>9, <2>1, RecordStays DEF tsVars
<1>10. CASE TsTickNote BY <1>10, TickNoteRecorded
<1>11. CASE TsTickMove BY <1>11, TickMoveRecorded
<1>12. CASE TsTickCatch BY <1>12, TickCatchRecorded
<1> QED BY <1>1, <1>2, <1>3, <1>4, <1>5, <1>6, <1>7, <1>8, <1>9, <1>10, <1>11, <1>12 DEF TsNext

\* Nothing is to be accounted for at the beginning.
LEMMA InitRecorded == TsInit => TsRecorded
<1> SUFFICES ASSUME TsInit PROVE TsRecorded OBVIOUS
<1>1. tsNext = TsStep /\ tsFirst = TsStep /\ tsTick.stage = "idle" /\ TsStep \in Nat \ {0}
  BY TsNumbers DEF TsInit, TsIdle
<1>2. PICK s \in Nat : s = TsStep BY <1>1
<1>3. \A p \in s..s - 1 : FALSE BY <1>2
<1>4. TsTold(tsNext, {}) BY <1>1, <1>2, <1>3 DEF TsTold
<1> QED BY <1>1, <1>4 DEF TsRecorded, TsComplete

\* next_run_at moves past no point without a row that says what became of it:
\* trigger_task and _consume_missed of scheduler.py record what they run, catch
\* up with, skip or miss, through overlaps, restarts and late ticks.
THEOREM NoneForgotten == TsSpec => []TsNoneForgotten
<1>1. TsRecorded => TsNoneForgotten
  BY DEF TsRecorded, TsComplete, TsTold, TsNoneForgotten
<1> QED BY InitInductive, TsStepInductive, InitRecorded, TsStepRecorded, <1>1, PTL DEF TsSpec
-----------------------------------------------------------------------------
(* No row is left running.  The rows that a starting runtime takes up or   *)
(* closes are those of today and of the day before; time only makes rows   *)
(* older, and while the process lives a row is opened when no run is in    *)
(* progress, as the row of the run that then is.                           *)

\* The day of an instant is not after the day of the next one.
LEMMA DayPasses ==
    ASSUME NEW d \in Nat \ {0}, NEW a \in Nat
    PROVE  a \div d \in Nat /\ (a + 1) \div d \in Nat /\ a \div d <= (a + 1) \div d
<1>1. a = d * (a \div d) + (a % d) /\ a \div d \in Nat /\ a % d \in 0..d - 1 OBVIOUS
<1>2. a + 1 = d * ((a + 1) \div d) + ((a + 1) % d) /\ (a + 1) \div d \in Nat
      /\ (a + 1) % d \in 0..d - 1
  <2>1. PICK b \in Nat : b = a + 1 OBVIOUS
  <2>2. b = d * (b \div d) + (b % d) /\ b \div d \in Nat /\ b % d \in 0..d - 1 OBVIOUS
  <2> QED BY <2>1, <2>2
<1>3. PICK p \in Nat, q \in Nat : p = a \div d /\ q = (a + 1) \div d BY <1>1, <1>2
<1>4. \A x \in Int : x >= 1 => d * x >= d OBVIOUS
<1>5. ASSUME p > q PROVE FALSE
  <2>1. p - q \in Int /\ p - q >= 1 BY <1>5
  <2>2. d * (p - q) >= d BY <1>4, <2>1
  <2>3. d * (p - q) = d * p - d * q OBVIOUS
  <2>4. d * p <= a BY <1>1, <1>3
  <2>5. a + 1 < d * q + d BY <1>2, <1>3
  <2> QED BY <2>2, <2>3, <2>4, <2>5
<1> QED BY <1>3, <1>5

TsRecent(run) == tsNow \div TsDay <= run.started \div TsDay + 1

\* A step that opens no row, and leaves the run in progress alone.
LEMMA RowsRest ==
    ASSUME TsTyped, TsNoStuckRow, tsNow' = tsNow, tsRuns' = tsRuns, tsLive' = tsLive,
           tsUp' = tsUp
    PROVE  TsNoStuckRow'
BY DEF TsNoStuckRow

\* A row opens where no run is in progress.
LEMMA RowOpened ==
    ASSUME TsTyped, TsNoStuckRow, tsNow' = tsNow, tsUp' = tsUp, NEW x \in Nat,
           NEW trigger \in {"schedule", "catch_up", "manual"}, TsStartRun(x, trigger)
    PROVE  TsNoStuckRow'
<1>1. PICK n \in Nat : n = Len(tsRuns) BY DEF TsTyped
<1>2. TsRow(x, trigger) \in TsRowSet BY DEF TsRow, TsRowSet, TsTyped
<1>3. /\ tsRuns' = Append(tsRuns, TsRow(x, trigger)) /\ tsRuns \in Seq(TsRowSet)
      /\ tsLive = 0 /\ tsLive' = n + 1
  BY <1>1 DEF TsStartRun, TsTyped
<1>4. /\ DOMAIN tsRuns = 1..n /\ DOMAIN tsRuns' = 1..n + 1
      /\ \A i \in 1..n : tsRuns'[i] = tsRuns[i]
  BY <1>1, <1>2, <1>3
<1> SUFFICES ASSUME tsUp', NEW i \in DOMAIN tsRuns', tsRuns'[i].status = "running",
                    TsRecent(tsRuns[i])'
             PROVE  tsLive' = i
  BY DEF TsNoStuckRow, TsRecent
<1>5. i \in 1..n => tsLive = i BY <1>4 DEF TsNoStuckRow, TsRecent
<1> QED BY <1>3, <1>4, <1>5

\* Rows are closed.
LEMMA RowsClose ==
    ASSUME TsTyped, NEW S, tsNow' = tsNow, tsUp',
           tsRuns' = [i \in DOMAIN tsRuns |->
                        IF i \in S THEN [tsRuns[i] EXCEPT !.status = "ended"] ELSE tsRuns[i]],
           \A i \in DOMAIN tsRuns :
             tsRuns[i].status = "running" /\ TsRecent(tsRuns[i]) /\ i \notin S => tsLive' = i
    PROVE  TsNoStuckRow'
<1> SUFFICES ASSUME NEW i \in DOMAIN tsRuns', tsRuns'[i].status = "running",
                    TsRecent(tsRuns[i])'
             PROVE  tsLive' = i
  BY DEF TsNoStuckRow, TsRecent
<1>1. i \in DOMAIN tsRuns /\ tsRuns[i] \in TsRowSet BY DEF TsTyped
<1>2. [tsRuns[i] EXCEPT !.status = "ended"].status = "ended" BY <1>1 DEF TsRowSet
<1>3. i \notin S BY <1>1, <1>2
<1> QED BY <1>1, <1>3 DEF TsRecent

\* A start leaves no row of the two days it looks at open.
LEMMA StartTakesUp ==
    ASSUME TsTyped, TsStart
    PROVE  TsNoStuckRow'
<1>1. PICK anchored \in SUBSET {i \in TsOrphans : TsAnchorable(i)} :
            LET resumable == {i \in anchored : TsResumable(tsRuns[i])}
                resumed == {i \in resumable : \A j \in resumable : i <= j}
            IN  /\ tsRuns' = [i \in DOMAIN tsRuns |->
                        IF i \in TsOrphans \ resumed
                        THEN [tsRuns[i] EXCEPT !.status = "ended"] ELSE tsRuns[i]]
                /\ tsLive' = IF resumed = {} THEN 0 ELSE CHOOSE i \in resumed : TRUE
  BY DEF TsStart
<1>2. PICK resumable : resumable = {i \in anchored : TsResumable(tsRuns[i])} OBVIOUS
<1>3. PICK resumed : resumed = {i \in resumable : \A j \in resumable : i <= j} OBVIOUS
<1>4. /\ tsRuns' = [i \in DOMAIN tsRuns |->
                IF i \in TsOrphans \ resumed
                THEN [tsRuns[i] EXCEPT !.status = "ended"] ELSE tsRuns[i]]
      /\ tsLive' = IF resumed = {} THEN 0 ELSE CHOOSE i \in resumed : TRUE
  BY <1>1, <1>2, <1>3
<1>5. \A i, j \in resumed : i = j
  <2>1. \A i \in DOMAIN tsRuns : i \in Nat BY DEF TsTyped
  <2>2. resumed \subseteq Nat BY <1>2, <1>3, <2>1 DEF TsOrphans
  <2> QED BY <1>3, <2>2
<1>6. \A i \in resumed : tsLive' = i
  <2>1. \A i \in resumed : (CHOOSE k \in resumed : TRUE) \in resumed OBVIOUS
  <2> QED BY <1>4, <1>5, <2>1
<1>7. ASSUME NEW i \in DOMAIN tsRuns, tsRuns[i].status = "running", TsRecent(tsRuns[i]),
             i \notin TsOrphans \ resumed
      PROVE  tsLive' = i
  <2>1. i \in TsOrphans BY <1>7 DEF TsOrphans, TsScanned, TsRecent
  <2> QED BY <1>6, <1>7, <2>1
<1>8. tsNow' = tsNow /\ tsUp' BY DEF TsStart
<1> QED BY <1>4, <1>7, <1>8, RowsClose

\* No step leaves such a row open.
LEMMA TsStepClosed ==
    TsInductive /\ TsNoStuckRow /\ [TsNext]_tsVars => TsNoStuckRow'
<1> SUFFICES ASSUME TsInductive, TsNoStuckRow, [TsNext]_tsVars PROVE TsNoStuckRow' OBVIOUS
<1>0. TsTyped /\ tsNow \in Nat BY DEF TsInductive, TsTyped
<1>1. CASE TsTickRead \/ TsTickEnsure \/ TsTickEarly \/ TsTickDue \/ TsPatch
  BY <1>0, <1>1, RowsRest DEF TsTickRead, TsTickEnsure, TsTickEarly, TsTickDue, TsPatch
<1>2. CASE TsTickLate \/ TsTickNote \/ TsTickMove
  BY <1>0, <1>2, RowsRest DEF TsTickLate, TsTickNote, TsTickMove
<1>3. CASE TsTickTrigger \/ TsTickCatch
  <2>1. tsNow' = tsNow /\ tsUp' = tsUp /\ tsTick.stage \in {"due", "catch"}
    BY <1>3 DEF TsTickTrigger, TsTickCatch
  <2>2. tsTick.next \in Nat BY <1>0, <2>1, TickShapes DEF TsPointTick, TsCatchTick
  <2>3. CASE TsSkip(tsTick.next) BY <1>0, <2>1, <2>3, RowsRest DEF TsSkip
  <2>4. ASSUME NEW trigger \in {"schedule", "catch_up"}, TsStartRun(tsTick.next, trigger)
        PROVE  TsNoStuckRow'
    <3>1. PICK x \in Nat : x = tsTick.next BY <2>2
    <3>2. TsStartRun(x, trigger) BY <2>4, <3>1
    <3> QED BY <1>0, <2>1, <3>2, RowOpened
  <2> QED BY <1>3, <2>3, <2>4 DEF TsTickTrigger, TsTickCatch
<1>4. CASE TsFinish
  <2>1. /\ tsRuns' = [tsRuns EXCEPT ![tsLive].status = "ended"]
        /\ tsNow' = tsNow /\ tsUp /\ tsUp'
    BY <1>4 DEF TsFinish
  <2>2. tsRuns' = [i \in DOMAIN tsRuns |->
                     IF i \in {tsLive} THEN [tsRuns[i] EXCEPT !.status = "ended"] ELSE tsRuns[i]]
    BY <1>0, <2>1, CloseOne
  <2>3. \A i \in DOMAIN tsRuns :
          tsRuns[i].status = "running" /\ TsRecent(tsRuns[i]) => i \in {tsLive}
    BY <2>1 DEF TsNoStuckRow, TsRecent
  <2> QED BY <1>0, <2>1, <2>2, <2>3, RowsClose
<1>5. CASE TsRunNow
  <2>1. tsNow' = tsNow /\ tsUp' = tsUp BY <1>5 DEF TsRunNow
  <2>2. CASE UNCHANGED <<tsRuns, tsLive>> BY <1>0, <2>1, <2>2, RowsRest
  <2>3. CASE TsStartRun(tsNow, "manual")
    <3>1. PICK x \in Nat : x = tsNow BY <1>0
    <3>2. TsStartRun(x, "manual") BY <2>3, <3>1
    <3> QED BY <1>0, <2>1, <3>2, RowOpened
  <2> QED BY <1>5, <2>2, <2>3 DEF TsRunNow
<1>6. CASE TsPass
  <2>1. tsNow' = tsNow + 1 /\ tsUp' = tsUp /\ tsRuns' = tsRuns /\ tsLive' = tsLive
    BY <1>6 DEF TsPass
  <2>2. PICK p \in Nat, q \in Nat : p = tsNow \div TsDay /\ q = tsNow' \div TsDay /\ p <= q
    BY <1>0, <2>1, DayPasses, TsNumbers
  <2>3. ASSUME NEW i \in DOMAIN tsRuns, q <= tsRuns[i].started \div TsDay + 1
        PROVE  p <= tsRuns[i].started \div TsDay + 1
    <3>1. tsRuns[i] \in TsRowSet BY <1>0 DEF TsTyped
    <3>2. tsRuns[i].started \in Nat BY <3>1 DEF TsRowSet
    <3>3. tsRuns[i].started \div TsDay \in Nat BY <3>2, DayPasses, TsNumbers
    <3> QED BY <2>2, <2>3, <3>3
  <2> QED BY <2>1, <2>2, <2>3 DEF TsNoStuckRow
<1>7. CASE TsDown BY <1>7 DEF TsDown, TsNoStuckRow
<1>8. CASE TsStart BY <1>0, <1>8, StartTakesUp
<1>9. CASE UNCHANGED tsVars BY <1>0, <1>9, RowsRest DEF tsVars
<1>10. CASE TsBegin
  <2>1. /\ tsLive \in Nat /\ tsRuns' = [tsRuns EXCEPT ![tsLive].begun = TRUE]
        /\ tsNow' = tsNow /\ tsUp' = tsUp /\ tsLive' = tsLive
    BY <1>0, <1>10 DEF TsBegin, TsTyped
  <2>2. /\ DOMAIN tsRuns' = DOMAIN tsRuns
        /\ \A i \in DOMAIN tsRuns : /\ tsRuns'[i].status = tsRuns[i].status
                                    /\ tsRuns'[i].started = tsRuns[i].started
    BY <1>0, <2>1, BeginRow
  <2> QED BY <2>1, <2>2 DEF TsNoStuckRow
<1> QED BY <1>1, <1>2, <1>3, <1>4, <1>5, <1>6, <1>7, <1>8, <1>9, <1>10 DEF TsNext

\* While the process lives a recent row says running only for the run that is
\* in progress: _finish_run closes the row of its run, reconcile_interrupted
\* takes up or closes those that a crash has left.
THEOREM NoStuckRow == TsSpec => []TsNoStuckRow
<1>1. TsInit => TsNoStuckRow BY DEF TsInit, TsNoStuckRow
<1> QED BY InitInductive, TsStepInductive, TsStepClosed, <1>1, PTL DEF TsSpec
=============================================================================
