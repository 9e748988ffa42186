---------------------------- MODULE TaskSchedule ----------------------------
(***************************************************************************)
(* Scheduled tasks (scheduler.py, schedule_store.py, api/schedule.py), for *)
(* one task: tasks share nothing but the loop that ticks them.             *)
(*                                                                         *)
(* A tick compares the clock with next_run_at.  A point reached in time is *)
(* run, one reached too late is only recorded, except that the latest is   *)
(* caught up with if it is recent.  next_run_at moves on to the next point *)
(* of the plan.  A restarted runtime takes up the runs it finds running.   *)
(*                                                                         *)
(* Time is counted in units of GRACE_S.  The plan is a grid: an interval   *)
(* keeps the phase of the point before it, a calendar plan (daily, weekly) *)
(* has its points at multiples of TsStep, a one-time plan has one.  Time   *)
(* zones, what a run does and the summaries are left out.  One process     *)
(* holds the lease.                                                        *)
(*                                                                         *)
(* A tick's writes to the disk are steps of their own (the row of a run,   *)
(* each note, next_run_at), and the process may die between any two: the   *)
(* next one then finds what was written and the old point.  Nothing else   *)
(* runs in between, for the tick does not yield while it writes.           *)
(***************************************************************************)
EXTENDS Naturals, Sequences, FiniteSets

CONSTANTS
    TsKinds,        \* the plans to look at: "interval", "calendar", "once"
    TsStep,         \* the distance of two points
    TsGrace,        \* a tick this late still runs the point
    TsWindow,       \* catch_up_window_minutes
    TsDay,          \* the length of a day
    TsHorizon,      \* the last instant (the bound)
    TsAsks,         \* what the user does: runs on demand, changes (the bound)
    TsMaxRuns       \* executions (the bound)

ASSUME TsNumbers ==
    /\ TsKinds \subseteq {"interval", "calendar", "once"}
    /\ TsStep \in Nat \ {0} /\ TsGrace \in Nat /\ TsWindow \in Nat
    /\ TsDay \in Nat \ {0} /\ TsHorizon \in Nat /\ TsMaxRuns \in Nat /\ TsAsks \in Nat

VARIABLES
    tsKind,     \* the task's plan
    tsNow,      \* the clock
    tsUp,       \* the runtime is running
    tsOn,       \* enabled
    tsNext,     \* next_run_at
    tsTick,     \* how far the tick has come with the task it has read
    tsRuns,     \* the rows of executions: the last line of each run_id
    tsNotes,    \* the other rows of the plan: missed, caught_up, skipped_overlap
    tsLive,     \* _RUNNING: the run in progress, 0 if there is none
    tsLeft,     \* what the user may still do
    tsFirst     \* history: the first point planned since the user's last change

tsVars == <<tsKind, tsNow, tsUp, tsOn, tsNext, tsTick, tsRuns, tsNotes, tsLive, tsLeft,
            tsFirst>>

TsNever == 0        \* next_run_at is None; points are positive
TsIdle == [stage |-> "idle"]

\* compute_next without a point to start from: strictly after now
TsCompute(now) ==
    CASE tsKind = "interval" -> now + TsStep
      [] tsKind = "calendar" -> now + (TsStep - (now % TsStep))
      [] tsKind = "once" -> IF now < TsStep THEN TsStep ELSE TsNever

\* _step_point
TsStepPoint(point) == IF tsKind = "once" THEN TsNever ELSE point + TsStep

\* the points from one on that the clock has passed by more than GRACE
TsMissedFrom(point) ==
    IF point = TsNever \/ tsNow <= point + TsGrace THEN {}
    ELSE {p \in point..tsNow - TsGrace - 1 :
            IF tsKind = "once" THEN p = point ELSE (p - point) % TsStep = 0}

TsLatest(points) == {p \in points : \A q \in points : q <= p}

\* mutant: the plan starts anew from now
TsTargetsNow(point) == {TsCompute(tsNow)}

\* The first point from one on that is not missed.
TsTargets(point) ==
    IF TsMissedFrom(point) = {} THEN {point}
    ELSE {TsStepPoint(last) : last \in TsLatest(TsMissedFrom(point))}

TsRow(point, trigger) ==
    [point |-> point, trigger |-> trigger, status |-> "running", started |-> tsNow,
     begun |-> FALSE]   \* its coroutine has started
TsNote(point, status) == [point |-> point, status |-> status]

TsInit ==
    /\ tsKind \in TsKinds
    /\ tsNow = 0 /\ tsUp = TRUE /\ tsOn = TRUE
    /\ tsNext = TsStep /\ tsFirst = TsStep
    /\ tsTick = TsIdle /\ tsRuns = <<>> /\ tsNotes = {} /\ tsLive = 0
    /\ tsLeft = TsAsks
-----------------------------------------------------------------------------
(* trigger_task                                                            *)

\* A run is in progress: the point is noted, and stays next_run_at.
TsSkip(point) ==
    /\ tsLive # 0
    /\ tsNotes' = tsNotes \cup {TsNote(point, "skipped_overlap")}
    /\ UNCHANGED <<tsRuns, tsLive>>

\* The row is written; the coroutine is created when the tick is done writing.
TsStartRun(point, trigger) ==
    /\ tsLive = 0 /\ Len(tsRuns) < TsMaxRuns
    /\ tsRuns' = Append(tsRuns, TsRow(point, trigger))
    /\ tsLive' = Len(tsRuns) + 1

\* The points from one on that are missed are to be noted, then the plan moves
\* behind them, then one of them is caught up with.
TsMoveFrom(point, catch) ==
    \E target \in TsTargets(point) :
        tsTick' = [stage |-> "note", left |-> TsMissedFrom(point), next |-> target,
                   catch |-> catch]
-----------------------------------------------------------------------------
(* The loop.                                                               *)

\* _tick loads the configuration; the tasks before this one may yield.
TsTickRead ==
    /\ tsUp /\ tsTick = TsIdle /\ tsOn
    /\ tsTick' = [stage |-> "read", now |-> tsNow, next |-> tsNext]
    /\ UNCHANGED <<tsKind, tsNow, tsUp, tsOn, tsNext, tsRuns, tsNotes, tsLive, tsLeft,
                   tsFirst>>

TsReading == tsTick.stage = "read"

\* ensure_next_run: a task without a point gets one, if there is one.
TsTickEnsure ==
    /\ TsReading /\ tsTick.next = TsNever
    /\ LET next == TsCompute(tsNow) IN
        /\ tsNext' = IF next = TsNever THEN tsNext ELSE next
        /\ tsFirst' = IF next = TsNever THEN tsFirst ELSE next
    /\ tsTick' = TsIdle
    /\ UNCHANGED <<tsKind, tsNow, tsUp, tsOn, tsRuns, tsNotes, tsLive, tsLeft>>

TsTickEarly ==
    /\ TsReading /\ tsTick.next # TsNever /\ tsTick.now < tsTick.next
    /\ tsTick' = TsIdle
    /\ UNCHANGED <<tsKind, tsNow, tsUp, tsOn, tsNext, tsRuns, tsNotes, tsLive, tsLeft,
                   tsFirst>>

\* A point reached in time is triggered after a sleep(0).
TsTickDue ==
    /\ TsReading /\ tsTick.next # TsNever
    /\ tsTick.next <= tsTick.now /\ tsTick.now <= tsTick.next + TsGrace
    /\ tsTick' = [tsTick EXCEPT !.stage = "due"]
    /\ UNCHANGED <<tsKind, tsNow, tsUp, tsOn, tsNext, tsRuns, tsNotes, tsLive, tsLeft,
                   tsFirst>>

\* A run that starts leaves its point: _advance_next.
TsTickTrigger ==
    /\ tsTick.stage = "due"
    /\ \/ TsSkip(tsTick.next) /\ tsTick' = TsIdle
       \/ /\ TsStartRun(tsTick.next, "schedule") /\ UNCHANGED tsNotes
          /\ TsMoveFrom(TsStepPoint(tsTick.next), {})
    /\ UNCHANGED <<tsKind, tsNow, tsUp, tsOn, tsNext, tsLeft, tsFirst>>

\* _consume_missed: the latest missed point, if it is recent, is run now.
TsCatchUp(missed) == {p \in TsLatest(missed) : tsNow <= p + TsWindow}

TsTickLate ==
    /\ TsReading /\ tsTick.next # TsNever /\ tsTick.now > tsTick.next + TsGrace
    /\ TsMoveFrom(tsTick.next, TsCatchUp(TsMissedFrom(tsTick.next)))
    /\ UNCHANGED <<tsKind, tsNow, tsUp, tsOn, tsNext, tsRuns, tsNotes, tsLive, tsLeft,
                   tsFirst>>

\* _record_missed, the oldest point first
TsTickNote ==
    /\ tsTick.stage = "note"
    /\ \E p \in tsTick.left :
        /\ \A q \in tsTick.left : p <= q
        /\ tsNotes' = tsNotes \cup
                {TsNote(p, IF p \in tsTick.catch THEN "caught_up" ELSE "missed")}
        /\ tsTick' = [tsTick EXCEPT !.left = @ \ {p}]
    /\ UNCHANGED <<tsKind, tsNow, tsUp, tsOn, tsNext, tsRuns, tsLive, tsLeft, tsFirst>>

\* All are noted, next_run_at is written; a one-time plan is over.
TsTickMove ==
    /\ tsTick.stage = "note" /\ tsTick.left = {}
    /\ tsNext' = tsTick.next
    /\ tsOn' = IF tsKind = "once" THEN FALSE ELSE tsOn
    /\ \/ tsTick.catch = {} /\ tsTick' = TsIdle
       \/ \E p \in tsTick.catch : tsTick' = [stage |-> "catch", next |-> p]
    /\ UNCHANGED <<tsKind, tsNow, tsUp, tsRuns, tsNotes, tsLive, tsLeft, tsFirst>>

\* The run that catches up is triggered last.
TsTickCatch ==
    /\ tsTick.stage = "catch"
    /\ \/ TsSkip(tsTick.next)
       \/ TsStartRun(tsTick.next, "catch_up") /\ UNCHANGED tsNotes
    /\ tsTick' = TsIdle
    /\ UNCHANGED <<tsKind, tsNow, tsUp, tsOn, tsNext, tsLeft, tsFirst>>
-----------------------------------------------------------------------------
(* Runs, the user, the clock, the process.                                 *)

\* The tick writes without yielding.
TsLoopFree == tsTick.stage \in {"idle", "read", "due"}

\* The run in progress has its coroutine.
TsExecuting == tsLive # 0 /\ tsRuns[tsLive].begun

\* _execute_run starts: from now on the point is being executed.
TsBegin ==
    /\ tsUp /\ TsLoopFree /\ tsLive # 0 /\ ~tsRuns[tsLive].begun
    /\ tsRuns' = [tsRuns EXCEPT ![tsLive].begun = TRUE]
    /\ UNCHANGED <<tsKind, tsNow, tsUp, tsOn, tsNext, tsTick, tsNotes, tsLive, tsLeft, tsFirst>>

\* _finish_run; the same for a run that was taken up again
TsFinish ==
    /\ tsUp /\ TsLoopFree /\ TsExecuting
    /\ tsRuns' = [tsRuns EXCEPT ![tsLive].status = "ended"]
    /\ tsLive' = 0
    /\ UNCHANGED <<tsKind, tsNow, tsUp, tsOn, tsNext, tsTick, tsNotes, tsLeft, tsFirst>>

TsAsking == tsLeft > 0 /\ tsLeft' = tsLeft - 1

\* run_task_now
TsRunNow ==
    /\ tsUp /\ TsLoopFree /\ TsAsking
    /\ \/ tsLive # 0 /\ UNCHANGED <<tsRuns, tsLive>>
       \/ TsStartRun(tsNow, "manual")
    /\ UNCHANGED <<tsKind, tsNow, tsUp, tsOn, tsNext, tsTick, tsNotes, tsFirst>>

\* patch_task: with a schedule or enabled the plan starts anew from now; the
\* caller may also clear next_run_at.
TsPatch ==
    /\ tsUp /\ TsLoopFree /\ TsAsking
    /\ \/ tsOn' \in BOOLEAN /\ tsNext' = IF tsOn' THEN TsCompute(tsNow) ELSE TsNever
       \/ UNCHANGED tsOn /\ tsNext' = TsNever
    /\ tsFirst' = tsNext'
    /\ UNCHANGED <<tsKind, tsNow, tsUp, tsTick, tsRuns, tsNotes, tsLive>>

TsPass ==
    /\ tsNow < TsHorizon /\ tsNow' = tsNow + 1
    /\ UNCHANGED <<tsKind, tsUp, tsOn, tsNext, tsTick, tsRuns, tsNotes, tsLive, tsLeft,
                   tsFirst>>

\* A crash may come at any time and leaves the row of the run running; stop
\* cancels the run, which records that if it has started.
TsDown ==
    /\ tsUp /\ tsUp' = FALSE
    /\ tsTick' = TsIdle /\ tsLive' = 0
    /\ \/ UNCHANGED tsRuns
       \/ TsLoopFree /\ TsExecuting /\ tsRuns' = [tsRuns EXCEPT ![tsLive].status = "ended"]
    /\ UNCHANGED <<tsKind, tsNow, tsOn, tsNext, tsNotes, tsLeft, tsFirst>>

\* mutant: only the rows of today
TsScannedToday(run) == tsNow \div TsDay = run.started \div TsDay

\* reconcile_interrupted reads the rows of today and of the day before.
TsScanned(run) == tsNow \div TsDay <= run.started \div TsDay + 1
TsResumable(run) == tsOn /\ tsNow <= run.started + TsDay

TsOrphans == {i \in DOMAIN tsRuns : tsRuns[i].status = "running" /\ TsScanned(tsRuns[i])}

\* mutant: a row whose run never started is taken up like any other
TsAnchorableAny(i) == TRUE

\* A run gets its session, which a row needs to be taken up, after it has begun.
TsAnchorable(i) == tsRuns[i].begun

\* One run of a task is taken up again, the others are recorded as interrupted;
\* so is a run that had not got its session yet.
TsStart ==
    /\ ~tsUp /\ tsUp' = TRUE
    /\ \E anchored \in SUBSET {i \in TsOrphans : TsAnchorable(i)} :
       LET resumable == {i \in anchored : TsResumable(tsRuns[i])}
           resumed == {i \in resumable : \A j \in resumable : i <= j}
       IN
        /\ tsRuns' = [i \in DOMAIN tsRuns |->
                        IF i \in TsOrphans \ resumed
                        THEN [tsRuns[i] EXCEPT !.status = "ended"] ELSE tsRuns[i]]
        /\ tsLive' = IF resumed = {} THEN 0 ELSE CHOOSE i \in resumed : TRUE
    /\ UNCHANGED <<tsKind, tsNow, tsOn, tsNext, tsTick, tsNotes, tsLeft, tsFirst>>

TsNext ==
    \/ TsTickRead \/ TsTickEnsure \/ TsTickEarly \/ TsTickDue \/ TsTickTrigger \/ TsTickLate
    \/ TsTickNote \/ TsTickMove \/ TsTickCatch
    \/ TsBegin \/ TsFinish \/ TsRunNow \/ TsPatch \/ TsPass \/ TsDown \/ TsStart

TsSpec == TsInit /\ [][TsNext]_tsVars
-----------------------------------------------------------------------------
TsPlanned(i) == tsRuns[i].trigger # "manual"

TsExecuted(i) == TsPlanned(i) /\ tsRuns[i].begun

\* A point of the plan is executed at most once, whether on time or caught up
\* with, whatever ticks, runs that overlap and restarts come in between.  The
\* row is written before next_run_at moves: a crash in between leaves a row that
\* says running and the old point, which is triggered or caught up with again
\* and gets a second row.  What holds is that the first row's run never starts,
\* neither then nor when the restarted process takes up the rows it finds.
TsOncePerPoint ==
    \A i, j \in DOMAIN tsRuns :
        TsExecuted(i) /\ TsExecuted(j) /\ tsRuns[i].point = tsRuns[j].point => i = j

TsAccounted(point) ==
    \/ \E i \in DOMAIN tsRuns : TsPlanned(i) /\ tsRuns[i].point = point
    \/ \E note \in tsNotes : note.point = point

\* The plan moves past no point without a row that says what became of it.
TsNoneForgotten ==
    tsKind # "once" /\ tsNext # TsNever /\ tsFirst # TsNever =>
        \A p \in tsFirst..tsNext - 1 : (tsNext - p) % TsStep = 0 => TsAccounted(p)

\* A row of today or of the day before that says running is a run in progress
\* in this process: overlap is judged by that, and nobody else will ever close
\* the row.  A row older than that stays open if the runtime was down so long.
TsNoStuckRow ==
    tsUp => \A i \in DOMAIN tsRuns :
        /\ tsRuns[i].status = "running"
        /\ tsNow \div TsDay <= tsRuns[i].started \div TsDay + 1
        => tsLive = i
=============================================================================
