---------------------------- MODULE TaskRegistry ----------------------------
(***************************************************************************)
(* Background shell tasks (tasks/registry.py, tasks/store.py): bg_run      *)
(* starts a process group, the reaper finds out that it ended, settles the *)
(* record and reports to the session that started it, index.json is what a *)
(* restarted runtime knows.                                                *)
(*                                                                         *)
(* spawn, stop and remove are called from tool threads and the REST API,   *)
(* the reaper runs on the event loop: it works through a list it took      *)
(* earlier, and remove rewrites the index from a copy it read without the  *)
(* lock.  An ordinary task's shell starts a watchdog, which sends SIGTERM  *)
(* to the group when the runtime is gone.  It is in that group itself: any *)
(* SIGTERM to the group ends it too, its own before its SIGKILL.  A        *)
(* detached task has no watchdog and leaves its exit code in a file.       *)
(* A command that ignores SIGTERM is one that TkDie does not take.         *)
(*                                                                         *)
(* The process of a task is the shell that leads its group; what it leaves *)
(* behind in the group when it ends is left out, and so are output, watch  *)
(* patterns and the texts.  A pid is not reused between two starts of the  *)
(* runtime.                                                                *)
(***************************************************************************)
EXTENDS Naturals, FiniteSets

CONSTANTS
    TkTasks,        \* the tasks that may be spawned
    TkDetached,     \* those run with detached=true
    TkTimed,        \* those whose timeout may pass
    TkNone,
    TkCap,          \* max_concurrent
    TkBoots         \* restarts of the runtime (the bound)

ASSUME TkSets == TkDetached \subseteq TkTasks /\ TkTimed \subseteq TkTasks
ASSUME TkNoneAssumption == TkNone \notin TkTasks

VARIABLES
    tkUp,       \* the runtime is running
    tkBoot,     \* starts so far
    tkProc,     \* the process group: none, alive, exited
    tkFile,     \* tasks whose wrapper wrote its exit_code file
    tkTermed,   \* process groups that were sent SIGTERM
    tkKill,     \* Task objects whose escalation thread waits to send SIGKILL
    tkWatch,    \* groups with a watchdog in them
    tkLost,     \* ordinary groups whose runtime is gone
    tkMem,      \* _tasks
    tkRec,      \* status of the Task object's record
    tkStop,     \* pending_stop
    tkAdopted,  \* Task objects without a Popen
    tkIndex,    \* index.json: status and adoptable
    tkSnap,     \* tasks of the reaper's list it still has to look at
    tkFinal,    \* the task the reaper is finalizing
    tkCopy,     \* the removal that has read the index and not written it
    tkNotices,  \* history: terminal events of a task
    tkAsked     \* history: tasks somebody stopped or removed, or timed out

tkOs == <<tkProc, tkFile, tkTermed, tkWatch, tkLost>>
tkLoop == <<tkSnap, tkFinal>>
tkVars == <<tkUp, tkBoot, tkProc, tkFile, tkTermed, tkWatch, tkLost, tkKill, tkMem, tkRec,
            tkStop, tkAdopted, tkIndex, tkSnap, tkFinal, tkCopy, tkNotices, tkAsked>>

TkEntry(status, adoptable) == [status |-> status, adoptable |-> adoptable]
TkAbsent == TkEntry("absent", FALSE)

TkInit ==
    /\ tkUp = TRUE /\ tkBoot = 1
    /\ tkProc = [t \in TkTasks |-> "none"]
    /\ tkFile = {} /\ tkTermed = {} /\ tkWatch = {} /\ tkLost = {} /\ tkKill = {}
    /\ tkMem = {} /\ tkRec = [t \in TkTasks |-> "none"]
    /\ tkStop = [t \in TkTasks |-> "no"]
    /\ tkAdopted = {} /\ tkIndex = [t \in TkTasks |-> TkAbsent]
    /\ tkSnap = {} /\ tkFinal = TkNone /\ tkCopy = TkNone
    /\ tkNotices = [t \in TkTasks |-> 0] /\ tkAsked = {}

TkRunning == {t \in tkMem : tkRec[t] = "running"}
-----------------------------------------------------------------------------
(* The operating system.                                                   *)

TkExited(t) == tkProc' = [tkProc EXCEPT ![t] = "exited"]

\* The command ends by itself; the wrapper of a detached one records its code.
TkEnd(t) ==
    /\ tkProc[t] = "alive" /\ TkExited(t)
    /\ tkFile' = IF t \in TkDetached THEN tkFile \cup {t} ELSE tkFile
    /\ UNCHANGED <<tkUp, tkBoot, tkTermed, tkWatch, tkLost, tkKill, tkMem, tkRec, tkStop,
                   tkAdopted, tkIndex, tkSnap, tkFinal, tkCopy, tkNotices, tkAsked>>

\* It dies of SIGTERM, or of the registry's SIGKILL two seconds later.
TkDie(t) ==
    /\ tkProc[t] = "alive" /\ TkExited(t)
    /\ t \in tkTermed \/ t \in tkKill
    /\ UNCHANGED <<tkUp, tkBoot, tkFile, tkTermed, tkWatch, tkLost, tkKill, tkMem, tkRec, tkStop,
                   tkAdopted, tkIndex, tkSnap, tkFinal, tkCopy, tkNotices, tkAsked>>

\* The watchdog finds the runtime gone; its SIGTERM ends itself with the group.
TkWatchdog(t) ==
    /\ tkProc[t] = "alive" /\ t \in tkWatch /\ t \in tkLost
    /\ tkTermed' = tkTermed \cup {t} /\ tkWatch' = tkWatch \ {t}
    /\ UNCHANGED <<tkUp, tkBoot, tkProc, tkFile, tkLost, tkKill, tkMem, tkRec, tkStop, tkAdopted,
                   tkIndex, tkSnap, tkFinal, tkCopy, tkNotices, tkAsked>>
-----------------------------------------------------------------------------
(* The registry.                                                           *)

TkSpawn(t) ==
    /\ tkUp /\ tkProc[t] = "none"
    /\ Cardinality(TkRunning) < TkCap
    /\ tkProc' = [tkProc EXCEPT ![t] = "alive"]
    /\ tkMem' = tkMem \cup {t}
    /\ tkRec' = [tkRec EXCEPT ![t] = "running"]
    /\ tkIndex' = [tkIndex EXCEPT ![t] = TkEntry("running", FALSE)]
    /\ tkWatch' = IF t \in TkDetached THEN tkWatch ELSE tkWatch \cup {t}
    /\ UNCHANGED <<tkUp, tkBoot, tkFile, tkTermed, tkLost, tkKill, tkStop, tkAdopted,
                   tkLoop, tkCopy, tkNotices, tkAsked>>

\* _signal_stop: SIGTERM to the group, with its watchdog, and a thread that
\* sends SIGKILL if the Task has a Popen.
TkSignalStop(t) ==
    /\ tkTermed' = tkTermed \cup {t} /\ tkWatch' = tkWatch \ {t}
    /\ tkKill' = IF t \in tkAdopted THEN tkKill ELSE tkKill \cup {t}
    /\ tkAsked' = tkAsked \cup {t}

TkNoSignal == UNCHANGED <<tkTermed, tkWatch, tkKill, tkAsked>>

\* stop
TkStopTask(t) ==
    /\ tkUp /\ t \in TkRunning
    /\ tkStop' = [tkStop EXCEPT ![t] = "user"]
    /\ TkSignalStop(t)
    /\ UNCHANGED <<tkUp, tkBoot, tkProc, tkFile, tkLost, tkMem, tkRec, tkAdopted, tkIndex,
                   tkLoop, tkCopy, tkNotices>>

\* mutant: the process of a removed task is left alone
TkToKillNone(t) == FALSE

\* a removed task that still runs is stopped first
TkToKill(t) == t \in TkRunning

\* remove, up to the read of the index
TkRemove(t) ==
    /\ tkUp /\ tkCopy = TkNone
    /\ t \in tkMem \/ tkIndex[t] # TkAbsent
    /\ tkMem' = tkMem \ {t}
    /\ IF TkToKill(t)
       THEN tkStop' = [tkStop EXCEPT ![t] = "user"] /\ TkSignalStop(t)
       ELSE TkNoSignal /\ UNCHANGED tkStop
    /\ tkCopy' = [task |-> t, index |-> tkIndex]
    /\ UNCHANGED <<tkUp, tkBoot, tkProc, tkFile, tkLost, tkRec, tkAdopted, tkIndex, tkLoop,
                   tkNotices>>

\* the rest of remove: the task's directory, with the exit_code file, goes too
TkRemoved ==
    /\ tkCopy # TkNone
    /\ tkIndex' = [tkCopy.index EXCEPT ![tkCopy.task] = TkAbsent]
    /\ tkFile' = tkFile \ {tkCopy.task}
    /\ tkCopy' = TkNone
    /\ UNCHANGED <<tkUp, tkBoot, tkProc, tkTermed, tkWatch, tkLost, tkKill, tkMem, tkRec, tkStop,
                   tkAdopted, tkLoop, tkNotices, tkAsked>>
-----------------------------------------------------------------------------
(* The reaper.                                                             *)

TkReapBegin ==
    /\ tkUp /\ tkSnap = {} /\ tkFinal = TkNone /\ tkMem # {}
    /\ tkSnap' = tkMem
    /\ UNCHANGED <<tkUp, tkBoot, tkOs, tkKill, tkMem, tkRec, tkStop, tkAdopted, tkIndex,
                   tkFinal, tkCopy, tkNotices, tkAsked>>

TkOutcome(t) ==
    CASE tkStop[t] = "user" -> "stopped"
      [] tkStop[t] = "timeout" -> "timeout"
      [] OTHER -> "finished"

\* mutant: a task that is settled is settled again
TkEndedAgain(t) == tkProc[t] = "exited"

\* the poll says it ended, and it is not settled yet
TkEnded(t) == tkRec[t] = "running" /\ tkProc[t] = "exited"

\* _reap_once for one task of the list: the timeout sends one signal, then
\* the process is polled; an ended one is settled in memory.
TkReap(t) ==
    /\ t \in tkSnap /\ tkFinal = TkNone
    /\ tkSnap' = tkSnap \ {t}
    /\ IF TkEnded(t)
       THEN /\ tkRec' = [tkRec EXCEPT ![t] = TkOutcome(t)]
            /\ tkFinal' = t
            /\ TkNoSignal /\ UNCHANGED tkStop
       ELSE /\ UNCHANGED <<tkRec, tkFinal>>
            /\ \/ TkNoSignal /\ UNCHANGED tkStop
               \/ /\ tkRec[t] = "running" /\ t \in TkTimed /\ tkStop[t] = "no"
                  /\ tkStop' = [tkStop EXCEPT ![t] = "timeout"]
                  /\ TkSignalStop(t)
    /\ UNCHANGED <<tkUp, tkBoot, tkProc, tkFile, tkLost, tkMem, tkAdopted, tkIndex, tkCopy,
                   tkNotices>>

\* the rest of _finalize: the index under the lock, then the event
TkFinalize ==
    /\ tkFinal # TkNone
    /\ tkIndex' = [tkIndex EXCEPT ![tkFinal] = TkEntry(tkRec[tkFinal], tkFinal \in tkAdopted)]
    /\ tkNotices' = [tkNotices EXCEPT ![tkFinal] = @ + 1]
    /\ tkFinal' = TkNone
    /\ UNCHANGED <<tkUp, tkBoot, tkOs, tkKill, tkMem, tkRec, tkStop, tkAdopted, tkSnap, tkCopy,
                   tkAsked>>
-----------------------------------------------------------------------------
(* The end of the runtime, and its start.                                  *)

TkForget ==
    /\ tkUp' = FALSE
    /\ tkMem' = {} /\ tkSnap' = {} /\ tkFinal' = TkNone /\ tkCopy' = TkNone
    /\ tkKill' = {} /\ tkAdopted' = {}
    /\ tkRec' = [t \in TkTasks |-> "none"] /\ tkStop' = [t \in TkTasks |-> "no"]
    /\ UNCHANGED <<tkBoot, tkFile, tkIndex, tkNotices, tkAsked>>

\* kill -9, a crash of the machine's session, ...; the threads that wait to send
\* SIGKILL go with the runtime
TkCrash ==
    /\ tkUp /\ TkForget
    /\ tkLost' = tkLost \cup {t \in TkTasks \ TkDetached : tkProc[t] = "alive"}
    /\ UNCHANGED <<tkProc, tkTermed, tkWatch>>

\* stop_all: SIGTERM to all, and SIGKILL to those of this runtime's children
\* that have not gone in time.
TkQuit ==
    /\ tkUp /\ TkForget
    /\ tkTermed' = tkTermed \cup tkMem /\ tkWatch' = tkWatch \ tkMem
    /\ tkProc' = [t \in TkTasks |->
                    IF tkProc[t] = "alive" /\ t \in tkMem \ tkAdopted THEN "exited" ELSE tkProc[t]]
    /\ tkLost' = tkLost \cup {t \in TkTasks \ TkDetached : tkProc'[t] = "alive"}

\* startup_migrate: what was running is interrupted, a detached task adoptable.
TkMigrated(t) ==
    IF tkIndex[t].status = "running"
    THEN TkEntry("interrupted", t \in TkDetached) ELSE tkIndex[t]

\* _adopt_detached: by the exit_code file, else by the pid.
TkAdopt(t) ==
    LET rec == TkMigrated(t) IN
    IF ~rec.adoptable THEN rec
    ELSE IF t \in tkFile THEN TkEntry("finished", FALSE)
    ELSE IF tkProc[t] = "alive" THEN TkEntry("running", TRUE)
    ELSE TkEntry(rec.status, FALSE)

TkStart ==
    /\ ~tkUp /\ tkBoot < TkBoots
    /\ tkUp' = TRUE /\ tkBoot' = tkBoot + 1
    /\ tkIndex' = [t \in TkTasks |-> TkAdopt(t)]
    /\ tkMem' = {t \in TkTasks : TkAdopt(t).status = "running"}
    /\ tkAdopted' = {t \in TkTasks : TkAdopt(t).status = "running"}
    /\ tkRec' = [t \in TkTasks |-> IF TkAdopt(t).status = "running" THEN "running" ELSE "none"]
    /\ UNCHANGED <<tkOs, tkKill, tkStop, tkLoop, tkCopy, tkNotices, tkAsked>>

TkNext ==
    \/ \E t \in TkTasks :
        \/ TkEnd(t) \/ TkDie(t) \/ TkWatchdog(t)
        \/ TkSpawn(t) \/ TkStopTask(t) \/ TkRemove(t) \/ TkReap(t)
    \/ TkRemoved \/ TkReapBegin \/ TkFinalize \/ TkCrash \/ TkQuit \/ TkStart

TkSpec == TkInit /\ [][TkNext]_tkVars
-----------------------------------------------------------------------------
\* A task's end is reported at most once, whatever stops, removals, lists of
\* the reaper and restarts come together.
TkNoticeOnce == \A t \in TkTasks : tkNotices[t] <= 1

\* No ordinary process outlives the registry's knowledge of it: while it lives
\* it is a running task of this runtime, or the registry is about to kill it, or
\* the runtime is gone; and somebody has told it to end, or its watchdog will
\* when the runtime goes.  One that ignores the SIGTERM and has lost its runtime
\* is left to itself: no SIGKILL follows, whatever the wrapper's text asks for.
TkNoOrphan ==
    \A t \in TkTasks \ TkDetached : tkProc[t] = "alive" =>
        /\ t \in TkRunning \/ t \in tkKill \/ t \in tkLost
        /\ t \in tkTermed \/ t \in tkWatch
=============================================================================
