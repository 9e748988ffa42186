# Formal models of the Ginno runtime

TLA+ models, TLC configurations and TLAPS proofs about Ginno, a local-first AI
agent: a Python runtime (`packages/runtime`), a Rust broker for extensions
(`crates/mod-broker`), a desktop shell (`apps/desktop`) and a web client
(`apps/web`). State is JSON and JSONL files below `~/.ginno` plus the registries
of one asyncio process. Paths below are relative to the repository; `R/` stands for
`packages/runtime/src/ginno_runtime/`.

The core is the **subagent scheduler**: it decides when a tree of delegated agents is
finished, carries their results upwards, and has to survive stops, retries,
questions and restarts in any order. Around it stand ten components, each a
module of its own: the checkpoint log, shell tasks, the schedule, steering, workflow
runs, the worker bus, the broker's hook chain, goals, plans and teams.

## 1. Inventory

| component | state it keeps | operations | what is hard | what makes it correct |
|---|---|---|---|---|
| completion gate, `R/subagent_scheduler/gate.py` | meta status, `_FINALIZING` | settle a turn, mark waiting, finalize, revive | the terminal check is separated from the write by a model call; two broadcasts inside a finalize | one report per life; terminal is final; done only with the children's results |
| turn runner and injection, `runner.py` | `_PENDING_INJECTIONS`, flush timers, `_INJECTION_WAKING` | run a brief, wrap up, inject, queue, flush, wake, re-evaluate a parent | choice steer / queue / wake made on registries that change at the next await | no report lost; a waiting parent is woken |
| spawn, `spawn.py`, `brief.py`, `fork.py` | child meta, its stop event | create, arm, launch | a stop of the parent cuts it between awaits | no child without a coroutine that settles it |
| stop cascade, `stop.py` | none of its own | signal, heal a parked descendant, settle an idle one; delete, wait | decisions per descendant, awaits in between | nothing alive below a stopped session |
| reconciliation, `reconcile.py` | none of its own | settle orphans at start, redeliver stashed reports at a segment's end | the stash is cleared, its senders are gone | as for the runner, across restarts |
| turn life cycle, `R/api/stream/` | `_RUNNING_TURNS`, `_TURN_TASKS`, `_TURN_STOP`, `_PENDING_RESUME` (in `server_shared.py`) | invoke, resume, retry, stop, stream, heal | a stop event's owner, a park's owner, a nested automatic retry | a live turn can be stopped; a question can be answered; no stale stop |
| session meta, `R/session_meta.py` | index file | patch, backfill, tree walk | read-modify-write from worker threads | no lost patch |
| graph and checkpointer, `R/graph.py`, `R/checkpointer.py` | append log per session | put, repair, fork, rewind, migrate | torn tail, two writers | committed checkpoints survive, whole |
| steering and rescue, `R/tasks/inject.py`, `R/channels/base.py` | stash, in-flight entries, watchers | enqueue, drain, restore, rescue | a turn that ends between enqueue and drain | every message is delivered once |
| scheduled tasks, `R/scheduler.py` | task file, day files of runs | tick, catch up, run, reconcile | crash between run row and next point; stale snapshot | each point at most once, no run running for ever |
| shell tasks, `R/tasks/registry.py` | index, metas, processes | start, adopt, reap, stop, remove | unlocked index writes, adoption, pid reuse | a removed task stays removed, a stopped one ends |
| worker bus, `R/worker_bus/` | subscriber lists in metas | watch, settle, deliver | subscription dropped before delivery | a subscriber is told, once |
| teams, `R/teams/` | members, queues, replies | deliver, steer, queue, drain, reply | a queue only the end of a turn looks into; check before register; a later turn's reply | what was accepted is delivered |
| goals, `R/api/sessions.py`, `R/goals/` | goal file, driver task | set, arm, continue, pause, resume, clear | goal or turn changes at each await | one driver, and an active goal has it |
| plans, `R/plans/` | plan file, watcher task, note buffer | reconcile, launch, amend, confirm, cancel, flush | a pass launches from a list taken earlier | an item's life runs at most once, its end is told |
| workflows, `R/workflows/`, `R/api/workflows*.py` | run row, step rows, driver registry | run, pause, decide, resume, cancel, delete | resumption beside cancellation; a status recomputed from the steps | one driver; a running run has one; an ended run does nothing |
| mod broker and runner, `crates/mod-broker`, `packages/mod-runner` | active hooks, cells of the runs beneath, budgets | select, next, answer, fail, catch, exit, timer | answer against timeout against exit, two pipes | what is beneath a hook runs once; a hook never fails the event |
| todo sync, channels, browser, MCP, desktop, web, last words, permission | files, sockets, processes | | mostly I/O | |

How they meet: a session's turn runs `_stream_graph` under the session's lock.
A tool call of it spawns children, whose own turns the runner starts in the
background. Each segment's end calls `on_turn_settled` (the gate), which marks
the subagent waiting, finalizes it, or runs one wrap-up turn. A finalize reports
to the parent: into the stash of a running turn, or over a queue and a flush into
a wake turn. Stops arrive over the socket, set the turn's event, walk the tree,
and end in the gate again. All of it shares the registries of
`server_shared.py` and is interleaved at every suspending `await`.

`PROJECT.json` lists the hazards with their lines and the properties that watch them.

## 2. Modules

| module | what it is |
|---|---|
| `SubagentScheduler` | the scheduler with the turn life cycle it hooks into |
| `SubagentLifecycle` | what a parent and the client may rely on: a subagent lives, ends once, reports at most once per life, comes back only by a retry |
| `CheckpointLog` | `checkpointer.py`: the lines of one session's log, commits in flight, a torn tail |
| `CheckpointHistory` | what a reader of checkpoints is promised: a list that grows at the end and is cut by a rewind |
| `TaskRegistry` | `tasks/registry.py`, `tasks/store.py`: processes, task objects, the index, the reaper, the watchdog |
| `TaskSchedule` | `scheduler.py`, `schedule_store.py`: the clock, the plan, ticks, run rows, catch-up |
| `TurnSteer` | messages for a running turn: window, socket, stash, in-flight list, two turns, rescue and wake |
| `WorkflowRun` | one run: status, checkpoint, drivers, gates, requests, the scheduler's poll |
| `WorkerBus` | subscriptions to one worker session and the notices of its end |
| `HookChain` | one event through the hooks of the mods: the broker's `chain.rs` and the runners' `hook-runtime.ts` |
| `GoalDriver` | the goal of a session, its drivers, the user's turns and requests |
| `PlanWatch` | a task list, its watcher, the children it launches, the notes it owes |
| `TeamDeliver` | deliveries to the members of a team: the gate, the queue and its drains, the members' turns |
| `…Proofs` | the theorems about a module (eight of them, section 4) |
| `MCSubagentScheduler` | delegation trees and scripts of outside events |
| `MCComponents`, `MCProgress` | the other components as two disjoint sums; the second adds the scheduler and states fairness |

In every module **one action is one stretch of one coroutine (thread, request,
process) between two points where another may run**: a suspending `await`, a lock, a
pipe, a crash. Variables carry their code name in the comment beside them.
Component modules use a prefix (`cp`, `tk`, `ts`, `sq`, `wf`, `wb`, `hc`, `gd`, `pw`, `td`),
so that they can be extended together.

### 2.1 SubagentScheduler

**One action is one stretch of one coroutine between two suspending awaits.**
`tasks` holds the coroutines in flight; `pc` names the await each is suspended at
(the list is in the module's header). The other variables are the registries and
files of the code:

| variable | code |
|---|---|
| `status`, `wrapped` | `meta.subagent.status`, `recursion_wrapped` |
| `running`, `parked`, `armed` | `_RUNNING_TURNS`, `_PENDING_RESUME`, `_TURN_STOP` (absent, clear or set) |
| `listed` of a task | `_TURN_TASKS` for socket turns, `_INJECTION_WAKING` for wakes |
| `lk` of a task | the session's `_turn_lock` |
| `evt`, `sev` of a task | the event objects the gate and the stream captured: `"reg"` while they are the registry's object, an own value after it was popped |
| `stash`, `pending`, `timer` | `_STEER_STASH`, `_PENDING_INJECTIONS`, `_INJECTION_FLUSH_TASKS` |
| `asking` | the checkpoint holds an interrupt |
| `emitted`, `life`, `absorbed`, `cut` | history: reports injected, revivals, reports read, children whose creation was cut off |
| `left` | outside events still to come |

Actions by file: `SpawnCreate/SpawnArm/SpawnLaunch` (`spawn.py`), `BriefStart`,
`FinInject`, `Flush*`, `TimerFire`, `Wake*`, `Unmark` and the tail of `FinStopped`
(`runner.py`), `Settle`, `WaitPush`, `Fin*`, `StopIfWaiting` (`gate.py`),
`StartTurn`, `AutoRetry`, `Interrupt`, `Stream*`, `SegEnd`, `ParkEnd`
(`engine.py`), `Invoke`, `Stop`, `Retry`, `RetryGo` (`ws.py`), `Answer`
(`resume.py`), `Cascade*` (`stop.py`), `Heal*` (`heal.py`), `Restart`
(`reconcile.py`, with every registry of the process lost), `Absorb` (`graph.py`).

### Abstractions

- Texts, titles, usage and frames are left out. A report is `<<child, n>>`.
- A turn lock goes to any waiter, and any ready coroutine may run next. asyncio's
  first-come order is one of these schedules, so what holds here holds there.
- A continuation after a finalize that the latch skipped is a step of its own.
- The check a wake makes before it takes the lock is merged with its start.
- Two identical records of the same coroutine (two cascades over one tree, two
  gates of one session with the same captured event) are one.
- A child is spawned by the tool call of a turn; spawns by a command, a plan or a
  mod run the same code without a turn that can be cut and are left out. So are
  deletion (`finalize_for_delete`), `wait_for_subagents`, the retry of a
  session that is not `failed`, a cut by the stall watchdog, and the continuation of
  a stream for a steered user message (it has `AutoRetry`'s shape).
- The hook of the worker bus in the gate is taken not to suspend, which it does
  only for watched sessions.

### 2.2 The other components

`CheckpointLog`. `cpLog` is the log file, `cpLegacy` the v1 document, `cpTorn` a last
line without its end of line. `CpPutRead`, `CpWritesReady`, `CpTruncateRead` and
`CpMigrate` compute what a commit appends from the file as it is now; `CpCommit`
appends it (after `CpRepaired` has treated the torn tail) possibly later, when
another writer has been there; `CpTear` and `CpCrash` leave part of a line.
Reading is `CpFold`, the fold of `_read_log`; `CpCloned` is the fork. The refinement
`CpPromised == INSTANCE CheckpointHistory` maps the view a reader reconstructs.
Header line, metadata, channels other than messages, serialisation are left out. A
compaction rewrites a history into another, which a put of any history covers.

`TaskRegistry`. `tkProc`, `tkFile`, `tkTermed` (sent SIGTERM), `tkWatch` (has a watchdog)
and `tkLost` (its runtime is gone) are the operating system; `tkKill` are the threads
about to send SIGKILL; `tkMem`, `tkRec`, `tkStop`, `tkAdopted` are `_tasks` and its
objects, `tkIndex` is `index.json`, `tkSnap` and `tkFinal` the loop of the reaper,
`tkCopy` the index a removal has read without the lock. Actions: `TkSpawn`,
`TkStopTask`, `TkRemove` and `TkRemoved` (its unlocked write), `TkReapBegin`, `TkReap`,
`TkFinalize`, `TkQuit`, `TkCrash`, `TkStart` with adoption, `TkEnd`, `TkDie`,
`TkWatchdog`. A SIGTERM to the group, whoever sends it, ends the watchdog too, for it is
a member of that group.

`TaskSchedule`. `tsNext` is `next_run_at`, `tsTick` how far a tick has come with the
task it has read, `tsRuns` and `tsNotes` the rows of the day files, `tsLive`
`_RUNNING`. `TsTickRead`, `TsTickEnsure`, `TsTickEarly`, `TsTickDue` and `TsTickLate`
are the decisions of `_tick_inner`. Its writes are one step each, and the process may die
between any two of them: the row of a run (`TsTickTrigger`, or `TsTickCatch` for a point
caught up with), a note for every missed point (`TsTickNote`), `next_run_at`
(`TsTickMove`). A row is not an execution: the coroutine begins in a later step
(`TsBegin`, the field `begun`), once the tick has written all and yields, and only then
does the row get the session by which a restart can take it up again. `TsRunNow` and
`TsPatch` are the requests, `TsFinish` and `TsDown` end a run or the process, `TsStart`
reconciles the rows of the last two days. Time is in units of `GRACE_S`.

`TurnSteer`. The window's side (`sqDraft`, `sqQueue`, `sqTaken`, `sqView`: `SqType`,
`SqRecallKey`, `SqStopKey`, `SqAnswerKey`, `SqHear`), two ordered sockets (`sqUp`,
`sqDown`), and the server's: `sqStash`, `sqInflight`, `sqAnswered`, `sqRunning`,
`sqEvt`, `sqStop`. `SqInvoke`, `SqSteer`, `SqAnswer`, `SqRecall` and `SqStopFrame` are
`ws.py`; `SqBegin`, `SqDrain`, `SqCommit`, `SqAsk`, `SqFail`, `SqStopped` and
`SqFinish` a turn; `SqEvent`, `SqWatchTick` and `SqFlushAll` are `tasks/inject.py`,
whose wake turn streams without the turn lock.

`WorkflowRun`. `wfPc` places every driver: about to start (`first`, `resume`,
`continue`), before a node, in it, parking at a gate, at its tail, over, or gone once the
done callback `WfReap` has run. `wfTask` and `wfControl` are the two registries.
Requests: `WfResume`, `WfPause`, `WfCancel`, `WfDelete`; the scheduler:
`WfPollTick`, `WfResumeTarget`; the end-of-task guard and `WfRestart`. `wfRush` says
whether requests may meet a driver that starts or ends.

`WorkerBus`. `wbMeta` is the list in the target's meta, `wbRead` the copy the hook of
a settled turn holds across its await, `wbDue` and `wbCarry` a notice before and after
it leaves the list. The pipeline behind it is the scheduler's and is one step here.

`HookChain`. Per hook: the broker's place in `run_hook` (`hcPc`), its cell of the run
beneath (`hcCell`), its verdict (`hcWhy`), and the runner's context (`hcCtx`,
`hcNext`); per mod two ordered pipes and the hub's `Active` entry. `HcReadNext`,
`HcReadReply`, `HcReadDead`, `HcExpire` and `HcCapped` (the budget all hooks of a
`session.end` share) feed the answer loop, which also refuses a `next` that rewrites
its tool call as it may not; `HcBroke` to
`HcSettle` are `wait_settled` in its two halves, `HcBelow` the run in place of a failed
hook; the `HcRunnerStep` actions are the runner's, with its catch handler.

`GoalDriver`. `gdGoal` is the file, `gdReg` `_GOAL_DRIVERS`, `gdAt` the await each driver
is at, `gdCut` those with a cancellation on its way. `GdTop`, `GdWait`, `GdGrace`,
`GdGo`, `GdVerdict`, `GdAsk`, `GdEnd`, `GdLeave` are the loop; `GdInvoke` to
`GdTalkFail` the user's turn; `GdPause`, `GdResume`, `GdSet`, `GdClear` write the
goal and put an effect into `gdReq`, which `GdHalt` and `GdRearm` carry out after the
await in between.

`PlanWatch`. `pwWatch` is the watcher's place, `pwTodo` the items it has read and still
means to launch, `pwMaking` the child `create_subagent` is making, `pwNotes` the buffer
and `pwTimer` its flush. `pwLife` counts how often an item was added or reset, which
is what "launched twice" is measured against. Actions: `PwSettle`, `PwLaunch`,
`PwLaunched`, `PwLimit`, `PwFailed`, `PwPassEnd`, `PwFlush`, and the calls from outside:
`PwConfirm`, `PwCancel`, `PwRemove`, `PwRenew`, `PwTurn`, `PwRestart`.

`TeamDeliver`. `tdWord` and `tdDest` say where each delivery is and for whom, `tdJob` where its
coroutine is, `tdList` which list object `_QUEUES` holds, `tdHas` which one a drain
works on and `tdQueue` their entries. `TdDeliver` and `TdEnqueue` are `deliver`, `TdRegister`,
`TdNeverRuns` and `TdStream` `_run_member_turn` up to the turn, `TdDrain` and `TdDrainOn`
`_drain_queue` from one turn it opens to the next, `TdWatch` the wait for another's turn;
`TdTurnEnd` and `TdAsk` end a segment, `TdUserActs` and `TdUserGo` are the user in a
member's own session. One session per member; what the reply says, the roster's status
and the removal of a member at work are left out.

The state of each is its own in the code. Where two meet, at the turn lock, the stash
or a session's meta, each module models the side its questions are about.
`MCComponents` checks them as a **disjoint sum**: `focus` is chosen once, the steps of
that component's own `Next` are taken, and the others rest in one initial state. The
behaviours with `focus = x` are exactly those of the specification of `x`, so every
property is checked as if its module were alone. `MCProgress` does the same with
the scheduler, steering, plans and teams, and states the fairness of the first two.

## 3. Runs

| run | instance | checks | states |
|---|---|---|---|
| `chains` | Main, A, B in a chain; either both ask, A runs out of steps and is stopped, or the user talks to A and stops it, B's model call fails once, a restart | `TypeOK`, `NoStopLeft`, `NoneStranded`, `ParkAnswerable`, `FollowsLifecycle` | 539,450 |
| `reports` | A with children B and C; B is stopped, C fails and is retried | `ReportOnce`, `ReportsHeld`, `StopReachesTurn`, `TerminalFinal` | 479,332 |
| `progress` | chain, B is stopped; one task event against two messages, fair; plans and teams | `EveryoneSettles`, `ReportsArrive`, `SqEventsArrive`, `PwOneChild`, `PwEndsTold`, `TdServed` | 329,178 |
| `components` | the other eight components | 25 properties, below | 1,748,583 |

No run has a deadlock check: a tree that has finished or waits for its user, a window
nobody types in, a run that is over stand still.

### 3.1 Bounds

*Scheduler.* Each outside event of a script happens at most once, at any moment it
can. Every subagent is spawned at most once; `Cap = 5` is never reached. The trees
are the smallest in which the cases happen: a chain has a parent that is a child as
well (waiting, waking, cascades through a level), the fan has siblings (queue,
coalescing, timer).

*Components* (`components.cfg`; plans and teams in `progress.cfg`), with the states of each and why they are enough:

| component | bounds | states |
|---|---|---|
| checkpoint log | two writers, three ids, `CpBound` 3 lines beside a document of one, two histories of which one extends the other: a delta, its base, and a rewind or a repair between their computation and their append | 86,557 |
| shell tasks | an ordinary and a detached task, two restarts: a snapshot, a removal and a stop of one task overlap; adoption happens twice | 24,503 |
| schedule | step 2, grace 1, window 3, day 4, up to instant 6, two runs, one request, all three plans: a point on time, late, missed with the next one due, caught up with, overlapping, across a day, and a tick torn between any two writes with its point met again by the next process | 450,941 |
| steering | two messages and one event, three frames on each way; five mixes of stop, recall, question, failing call, event and late message | 58,156 |
| workflow | two steps, no question or one at the first step or a gate at the end; three drivers, two requests, one restart | 50,450 |
| worker bus | two subscribers, a list of two, two watches each, two settled turns or retries | 4,152 |
| hook chain | two hooks of two mods or of one, with runners that die and an engine that fails, with hooks that exceed their time, with a chain that exceeds its cap, or with refused rewrites | 827,748 |
| goal | two drivers alive at a time, two goals, two agents; four mixes of pause, resume, stop, park, switch, clear, restart. The agent a session begins with is fixed: agents are interchangeable | 246,076 |
| plan | two items, independent or one after the other; three children; one renewal per item; three mixes of amendment, cancel, confirmation, limit, error, restart, revival | 223,631 |
| team | two members, room for one; four deliveries with removals, three with stops or questions, two with the user's own turns: a list with two entries behind a turn, a drain that awaits while another drains the same list. Deliveries are numbered as they come, which loses nothing | 96,005 |

### 3.2 What each property excludes

- `ReportOnce`, `TerminalFinal`, `FollowsLifecycle`: gates, wakes, heals and
  cascades that were under way when a subagent ended report again or move it back.
- `ReportsHeld`, `ReportsArrive`: a report that was steered into a turn after its last
  superstep, or queued beside a flush, disappears.
- `NoneStranded`, `EveryoneSettles`: a parent waits for children that are gone.
- `StopReachesTurn`, `NoStopLeft`: a streaming turn that the stop button cannot
  find, or an event left behind that kills the next turn.
- `ParkAnswerable`: a question in the checkpoint with no one registered to take the
  answer.
- `CpAnchored`: a delta whose base another writer has truncated, or a repair has cut.
  `CpExact`: a checkpoint rebuilt into other messages, or a fold that stores other
  lines than those no later truncate cuts off, which forks, heads and repairs rely on.
  `CpForkSame`: a fork starts from less than its source. `CpKeepsPromise`:
  refinement of `CheckpointHistory`; a crash takes a committed checkpoint away.
- `TkNoticeOnce`: an end told twice by a stale snapshot, a removal that puts an entry
  back, an adoption. `TkNoOrphan`: a process the registry has forgotten while its runtime
  lives, or one that nobody has told to end and no watchdog will.
- `TsOncePerPoint`: a point executed twice, by a tick and a catch-up, an overlap, or a
  crash between the running row and `next_run_at`. That crash does leave the point a
  second row; what the property excludes is that the first one is executed as well, then
  or when the restart takes up the rows it finds. `TsNoneForgotten`: the plan moves past
  a point without a row. `TsNoStuckRow`: a row of the last two days left running after a
  crash.
- `SqAckSurvives`: a message the window was told is absorbed, and has forgotten, is
  nowhere. `SqWordsKept`: a message the user sent is neither in the window nor
  anywhere behind it. `SqOnceUnasked`: the stash and the window deliver the same
  message. `SqEventsArrive`: a task's end that nobody drains and nobody rescues.
- `WfNeverSilent`: a run that says running with nobody to end it. `WfOneDriver`,
  `WfEndedIsDead`: two drivers on one checkpoint, steps of a cancelled run.
  `WfDecidable`: a gate behind the last step that cannot be decided because the run
  reads as done.
- `WbToldOnce`, `WbWatchKept`: a watch answered twice, or lost in the list's rewriting.
- `HcRunsOnce`, `HcSettlesLast`: what is beneath a hook runs again in place of a failed
  hook, or outlives the event. `HcOnlyCoreFails`: a mod fails the event.
  `HcNextAnswered`: a hook waits for its `next` for ever. `HcAnswerNeverWaits`: an
  answer loses the wake-up of `wait_settled`.
- `GdOneDriver`: two drivers pursue one session. `GdPursued`: an active goal nobody
  works on.
- `PwOneChild`: an item launched again while its child works, or twice in one life.
  `PwEndsTold`: the end of a child written into the list and never told.
- `TdServed`: a delivery that was answered as delivered lies in a list nobody looks
  into, or in one nobody will look into any more.

Every property is accompanied by a mutant in `PROJECT.json`: a plausible slip in a
definition (no latch, a repair that cuts twice, a reap that finalizes a settled task, a
driver that empties another's registry entry) that TLC then finds.

### 3.3 Where the code and its documentation disagree

Eight runs expect a violation; each is a small script. `PROJECT.json` quotes the lines.

| run | what happens |
|---|---|
| `premature_done` | the child's meta says done one await before its result is injected (`gate.py:249` and `:301`); the parent's turn ends in between and the parent is done without the result |
| `stranded_ancestor` | with three layers, a stop of the middle one leaves the top one waiting for nobody: only the direct parent is re-evaluated (`gate.py:276`) |
| `zombie_child` | a stop cancels `create_subagent` after the child's meta is written and before its turn is launched: it stays running for ever under a stopped parent |
| `lost_question` | a question asked inside an automatic retry loses its park to the outer segment's `finally` (`engine.py:1502`) |
| `steer_twice` | a message steered before a question is sent again before the answer; the socket takes the copy for the answer (`ws.py:943`) and the first one is drained later: the words are in the thread twice |
| `early_verdict` | a scheduled workflow run resumed after a restart is polled before its driver has set it running (`scheduler.py:831`), recorded as failed, and finishes. It takes a row with its `workflow_run_id`, as `test_scheduler.py:615` has one; the first execution of a row sets that in memory only (`scheduler.py:740`), so today a crashed one is recorded as interrupted, against `scheduled-tasks-design.md:300`, and only a row resumed before, or written otherwise, comes this far |
| `watch_lost` | a worker running at a crash is marked stopped after the subscriptions were reconciled (`server.py:121` and `:301`): its subscribers are never told |
| `beneath_twice` | a `next` sent as its hook's budget expires starts the run beneath in the catch phase, and it starts once more when there is no catch handler (`chain.rs:530`) |

The passing runs are bounded by these, and by the following, which were met while
modelling and have no run of their own.

Scheduler and turns:

- A report may wake a session whose parked question is being stopped, in the broadcast
  between the lock's release and `on_turn_stopped` (`heal.py:177`, `:199`), which then
  pops the wake turn's event. Hence `StopReachesTurn` is checked without a stop of a
  parked question, and `ParkAnswerable` without a failing call of the same session.
- `NoneStranded` and `NoStopLeft` except children cut off at creation (`cut`).
  `NoneStranded` and `EveryoneSettles` are not checked with a retry: one whose turn
  ends before the old finalizer has left the latch has its own gate skipped
  (`gate.py:145`), and the revived subagent stays running.
- `ReportsHeld` is checked, and proved, for scripts that stop and retry only leaves. It
  fails when A is messaged and stopped while a report arrives and a later waiter gets
  the turn lock first, which asyncio does not produce: the refused wake drops what it
  carries. A failed parent that is revived has lost what came while it was failed.
- When a model call fails after the drain, the automatic retry starts without the
  acknowledged words (`engine.py:1363`; `server_shared.py:430` and
  `docs/steering-design.md:311` say otherwise). `SqAckSurvives` leaves that case out.
- Two slips of steering need a third message, which the runs do not have; the proofs
  came upon them. Beside a wake turn, the commit of one turn clears what is in flight
  for both (`engine.py:796`, `server_shared.py:451`), so a stop of the other one
  heals nothing and an acknowledged message is nowhere. A message for a turn
  that has just ended is refused without being named (`ws.py`, "No turn is currently
  running"); the window answers by sending the oldest entry of its queue as a turn
  (`handle.ts:1560`), and the turn that begins meanwhile may already hold that one:
  it is in the thread twice. `SqAckSurvives` excludes stops beside events, `SqOnceUnasked`
  the option `"late"`. Without these antecedents and with three members of `SqUser`
  TLC shows both.
- When a wake turn ends, the question the socket's turn parked at leaves
  `_PENDING_RESUME` with it (`engine.py:1514`), and an answer then finds nothing. That
  steering also looks for such a question in the checkpoint, and the resumption of the
  old question beside a new turn, are left out.
- One rescue watcher per session waits for one entry (`inject.py:146`); a second entry
  steered while it lives waits for the next turn. `channels/base.py:307` drains what
  another channel left. Stopping drops messages that are queued
  (`docs/steering-design.md:237`).

Files and tasks:

- A crash that leaves a whole line without its end of line (`CpTears` with `"bare"`):
  readers take it as committed, and the next commit cuts it off
  (`checkpointer.py:355`). The runs and the theorem use `"partial"`.
- The escalation of a stop passes over an adopted task (`registry.py:549`), so that a
  detached one which ignores SIGTERM lives on. So does an ordinary one that has lost its
  runtime: the wrapper's text asks for SIGTERM and then SIGKILL (`registry.py:46`-`:57`),
  but its watchdog belongs to the group it signals and does not outlive its own SIGTERM.
  `_escalate` asks for the leader only: what the leader leaves behind in its
  group is not modelled.
- A crash between a run's row and `next_run_at` (`scheduler.py:421`, `:427`) gives a point
  two rows, the first of which ends as interrupted; one between the notes of missed points
  repeats notes; one behind a note `caught_up` leaves it without its run (the note and
  `next_run_at` are written before the run is triggered).
- A task disabled between the tick's read and its trigger runs once more; a process
  that stays down for two days leaves a row running (`TsNoStuckRow` asks for the rows
  the start looks at, `scheduler.py:352`); a resumption by the schedule
  revives a run its user cancelled; two processes may hold the lease around its renewal
  (`scheduler.py:1187`).

Workflows, bus, mods:

- Two decisions in a row start two drivers (`workflows.py:561`); the end callback
  removes whoever is registered and can fail a resumed run
  (`workflows_runs.py:637`); a cancelled driver's superstep goes on inside
  (`workflows/engine.py:199`). `WfOneDriver`, `WfEndedIsDead` and `WfDecidable` are
  stated without `wfRush`.
- The hook of a settled turn writes back a list read before its await
  (`watch.py:211`-`:240`): with a digest subscription it restores or drops a watch. The two
  `Wb` invariants are stated without one, `WbWatchKept` without a crash as well.
- `wait_settled` looks at the cell and then listens (`chain.rs:142`): a failure or a
  death can lose the wake-up (`HcNoDeafWaiter` states it, no run checks it). Two hooks
  of one mod under one invocation overwrite each other in the runner
  (`hook-runtime.ts:227`). A call written after the drain waits for `CALL_TIMEOUT`
  (`runner.rs:162`), a restart whose handshake fails is not retried (`:566`), and
  `Budget.resume` may go below zero (`budget.rs:76`).

Goals and plans:

- A goal replaced while a driver of the old one waits, and a pause that acts after a
  resume, leave an active goal undriven until the next turn or connection: the
  slips `GdPursued` names. A paused goal's driver may be cancelled inside its turn
  (`GdNeverTorn`, against `docs/goal-design.md:134`; `ws.py:1172`). `goal_update`
  and the crash path pass no `expected_goal_id` (`goal_tools.py:80`,
  `sessions.py:474`), so they may mark the next goal. Setting `paused` works on a
  complete goal. A turn that ends in a model error returns normally, so it re-arms. The
  `break` at `sessions.py:425` skips the grace period.
- A cancel while the watcher sleeps makes it leave without stopping a child
  (`PwCancelReaches`; `watcher.py:71`, `plans/store.py:262`). A child launched for an
  item dropped meanwhile is a stray; a failed launch is told only with a later change;
  an amendment that removes the last unfinished item never completes the plan; notes
  are lost on a restart.

Teams (`R/teams/deliver.py`):

- The queue is looked into only when the turn of a delivery ends. The user's own turn in a
  member's session, and a turn that goes on after an answered question, fill a place and
  end without a drain, against `deliver.py:58` (what is queued is released when a
  turn ends): what was queued meanwhile waits for the next delivery. `TdServed` asks for
  somebody who will look only without such turns.
- A drain keeps the list it found while it awaits the start of a turn, and at the end drops
  whatever is registered (`:102`). When the turn it opened is over before it looks (one
  stopped in its spawn window never is live, so the drain waits five seconds), a second
  drain may take the last entry of the list, the first drop it, a delivery register a new
  one, and the second drop that: the delivery is answered as delivered and is in no
  list. `TdServed` leaves it out; drop its antecedent, add `[may |-> {"rush"}, sent |-> 4]`
  to `TeamCases`, and TLC shows it.
- The gate counts the running members before a new turn registers, so two deliveries in a
  row both pass it (`:401`).
- An entry drained into a member who has a question open is refused, and is lost, as
  its receipt went out long ago.
- A delivery steered after the last superstep of a turn is dropped at the turn's end although
  its receipt said delivered: the entry has no `origin` that
  `steer_keep_channel` would keep, and no client sends it again.
- A turn that parks at a question lets its coroutine post a reply at once; the text after
  the answer is never posted. Replies write the main session's checkpoint without its
  turn lock (`:226`).

### 3.4 Fairness

`FairSpec` adds `WF_vars(System)`: the event loop runs ready coroutines, timers
fire, and a stream ends, which the stall watchdog of `chunked_stream` enforces.
Nothing is assumed of the user, the models' mistakes or the operating system
(`Outside`), so a tree may also spawn nothing. Weak fairness of the whole of `System`
is enough because its behaviours between outside events are finite.

`SqFairness` asks weak fairness of each actor by itself: the window reads its socket
(`SqHear`), the server reads frames (`SqFrames`) and begins a turn that has the lock
(`SqBegin`), each turn steps (`SqTurnStep`), and the two timers of `tasks/inject.py`
fire. These are separate tasks of one loop, each of which runs when it is ready; keys,
questions and failures have no fairness.

## 4. Proofs

Every theorem holds for all values of the constants that satisfy the module's named
assumptions, which TLC evaluates in every run of the module.

| module | theorems |
|---|---|
| `SubagentSchedulerProofs` | `Inductive`, `TypeCorrect`, `ReportsOnce`, `TerminalStays`, `Refines`; under conditions on the scripts `ReportsStayHeld`, `QuestionsStayAnswerable`, `NoStopStaysLeft`, `StopsReachTurns` |
| `NobodyStrandedProofs` | scheduler, under a condition on tree and scripts: `NobodyStranded` |
| `CheckpointLogProofs` | when no crash leaves a bare line: `AlwaysAnchored`, `AlwaysExact`, `AlwaysForkSame`, and `KeepsPromise`, the refinement of `CheckpointHistory` |
| `TaskProofs` | shell tasks: `NoticeOnce`, `NoOrphan`; schedule: `OncePerPoint`, `NoneForgotten`, `NoStuckRow` |
| `DeliveryProofs` | steering: `AckSurvives`, `WordsKept`, `OnceUnasked` |
| `OrchestrationProofs` | workflow run: `NeverSilent`, `OneDriver`, `EndedIsDead`, `Decidable`; worker bus: `ToldOnce`, `WatchKept`; teams: `Served` |
| `HookChainProofs` | `HcOnlyTheCoreFails`, `HcRunsOnceHolds`, `HcSettlesLastHolds`, `HcNextIsAnswered`, `HcAnswerIsPrompt` |
| `GoalPlanProofs` | goals: `OneDriver`, `Pursued`; plans: `OneChild`, `EndsTold` |

**Subagent scheduler** (any tree of at most three layers of subagents, any cap and
script; `TreeAssumption`, `CapAssumption`, `ScriptAssumption`).
`ReportOnce` is not inductive: whether a finalizer may still report depends on
which other finalizers of its session are in flight. `IInv` says what the latch
`_FINALIZING` achieves:

- a session has at most one coroutine between the latch and its report
  (`Latched`, last conjunct);
- one that is still preparing the report finds the session alive: nobody else can
  end it meanwhile, because every other end goes through the same latch;
- one that has written `done` or `failed` and is about to report has a life left to
  report for: `emitted < life + Over(status)`. A retry during the broadcast keeps
  this true, as it adds a life when it takes the terminal status away;
- in general `emitted <= life + Over(status)` (`Counted`), and the root is the only
  session with status `"main"` (`RootMain`).

Every action is brought under one of a few lemmas: it leaves the statuses, the counts
and the finalizers alone; it writes one legal status; it latches one finalizer on
a live session; or it lets one go. `Refines` and `TerminalStays` read the step
itself off those cases (`Create`, `Wait`, `Wake`, `Finish`, `Report`, `Revive`,
`Restart`, or a stutter).

`ReportsStayHeld` has an invariant of its own, `RInv`, relative to `IInv`. A report is
lost only with a coroutine that drops what it carries, or with a stash that is cleared
when the parent's turn cannot be found. So `Carried` says that a parent's coroutine
carries reports only in a wake that has not begun its turn, `Unset` that no wake is
refused by a stop event, and `Rooted` that whatever flushes, parks or reports belongs
to sessions that exist. The hypothesis `Undisturbed` is a condition on the
scripts: no `stop` and no `retry` of a session that has children. Without it the
property is false (section 3.3); the run `reports` satisfies it, with a stop and a
retry among the children.

The other four rest on `Locks`, which needs no condition: whoever is inside its turn
holds the turn lock of its session, no two coroutines hold the same one, and a cascade
never does. Every action is described once by what it does to the coroutines
(`Evolves(X, N, D)`: those of X give way to those of N, the stop events of D are
popped), and each invariant is kept by every step of such a shape.

`QuestionsStayAnswerable` (`Askable`): a turn that streams has no question open, and
whoever asks is parked or has somebody waiting for the turn lock to answer or heal it.
Two things lose a question in the code (section 3.3), a failed model call whose nested
segment asks again, and a restart. `Answerable` keeps them away from a session that
may ask, as both scripts of `chains` do.

`NoStopStaysLeft` (`Clean`): who has an event has a coroutine that will drop it
(`Dropped`), who is registered as busy has a turn, a question or a refused wake
(`Marked`), a coroutine that carries an event is one of the kinds that can (`Placed`),
and at most one stop is on its way to a session and meets no parked turn there
(`Sweeps`), so one that was seen is the last (`Once`). `StopsApart` asks of a script
that no two stops lie on one path of the tree and that nobody asks below a stopped
session. The script of `chains` with a stop, a failing call and a restart satisfies it;
in the other one B asks below A, for which the property is only model-checked.
The condition is not idle: on a chain of three, with a question of B and a stop of A,
TLC finds a wake of B that asks while the final report of B's first turn is being
prepared. The cascade sets the event, the finalizer then makes B done, the heal finds
nobody to finalize, and the event stays set.

`StopsReachTurns` (`Reach`): the turn lock keeps every other turn from popping the event
of the one that streams or from taking it out of the busy registry. Two kinds of
coroutine pop one while another turn may stream: a first turn that a stop kills before it
begins (`runner.py:44`), and the heal of a parked question. `StopsMeetTurns` excludes
the second, as no session that a stop may reach asks; and it excludes a user's message
to a subagent that a stop may reach. The invariant then shows of such a subagent, until
its first turn begins (`Fresh`), that nobody else has a turn, a child or a report there
(`Untouched`), so the event that the killed turn pops is its own. Without the condition
the property is false: the user may talk to a child while it is being spawned, and then
both turns share one event. The script of `reports` satisfies it.

`NobodyStranded` (`Tended`): a subagent that has not ended is safe (`Safe`), that is,
it is parked, or a coroutine of its own is at a turn, a gate, a finalizer or a heal
(`Minds`), or it waits and has a live descendant, or what will wake it is on its way: a
report in memory with a timer or a flush, or the finalizer of a child that has written
its status and has the report or the broadcast before it (`Woken`). The step to worry
about is the one that ends the last child of a waiting parent, and with it takes the
descendant away. The finalizer's pc is then `"push"`, which is `Woken` until the report is
in memory, and a stopped child wakes the parent from there itself. A report that goes
to the stash instead found the parent busy; `Clean` turns that into a turn or a
finalizer at work (`BusyMinded`). `Ending` says of a finalizer about to report that the status it finds
is the one it wrote, and `Lasting` that no step takes a terminal status back.
`Uneventful` has three conditions. `Shallow`, at most two layers of subagents: with
three, a stop of the middle one ends the branch below it, and the top one waits for
nobody (the run `stranded_ancestor`). `StopsApart`, which `Clean` needs: a wake would
otherwise be refused by an event that an earlier turn has left. No retry, for the
revived turn's gate may find the old finalizer in the latch and return (section 3.3);
TLC finds a chain of two on which the property fails with one. The script of `chains`
with a stop, a failing call and a restart satisfies all three; the other one, where B
asks below the stopped A, is model-checked.

**Checkpoint log** (any writers, ids, histories, limits and document that satisfy
`CpDocumentAssumption` and `CpHistoriesAssumption`: a document lists each id once and
after its parent, a history is a sequence of messages). All four theorems have the
hypothesis `"bare" \notin CpTears`: a last line of which only the end of line is missing
is read until the next commit cuts it off, with whatever was computed from it meanwhile
(section 3.3).
A commit was computed before it took the lock, so `CpAnchored` needs that what it relies
on is still there when it is appended: a delta in flight has its base among the live
ones, and a truncate is in flight alone, as it is called on a fresh clone before the
clone's run is streamed (`Inv`). `Stored` says of the entries that the fold makes of the
lines what `CpExact` says of the rebuilt messages: an entry a reader sees, or one a
commit in flight will write, is rebuilt into what its id was put with. `CpFold` and
`CpRebuilt` are recursive functions, so that needs induction over the lines. The
induction theorems of the library, which take an operator, cannot be instantiated; but the least
element of a non-empty set of natural numbers can be taken: existence and uniqueness of
the functions, what one more line does to a fold, and that a fold over a prefix gives a
prefix are all shown from the least counterexample. `KeepsPromise` then maps each step to
a put, a truncate or a stutter of `CheckpointHistory`.

**Shell tasks** (`TkInductive`). A settled task has exited and its record is not
running, so neither a stale list of the reaper nor an adoption takes it up again. Only
detached tasks are ever adoptable, in memory, in the index and in the copy a removal
holds, so an ordinary task keeps the handle its SIGKILL needs; a runtime that is gone
knows nothing and has left its groups behind (`tkLost`). A group has its watchdog until
somebody sends it SIGTERM, the watchdog included, so at every moment it has the one or
has got the other; nothing is claimed of a group that ignores the signal.

**Schedule** (`TsInductive`). A row counts (`TsCounts`) when its run has begun, or will if
the process lives. `next_run_at`, unless the tick is about to move it, the point a tick
has read and the points it holds to catch up with or to move to are later than every
point that counts (`TsBehind`); an edit plans after now, and none lies there. A run
begins only after the tick has written all, so the plan has moved past it by then; a
row whose run a crash kept from beginning counts no more, as a restart takes up only rows
that have begun. `NoneForgotten` adds the other side (`TsComplete`):
every point before `next_run_at`, before the point a tick is about to act on, and before
the one it is about to move to, except those it has still to note, has a
row or a notice, which catch-up establishes for the window it walks through.
`NoStuckRow`: at a start every row of the two days it looks at is closed, later one
is opened only as the live one, and the clock only takes rows out of that range.

**Steering.** What every step keeps is `SqBase`: types, which frames and places an
option allows, and that a turn which is off holds nothing. `AckSurvives`: what
is acknowledged is in the thread or in the hands of a turn, and what the socket's turn
holds is in flight, where a stop finds it (`SqAcks`). `WordsKept` follows each message
from place to place (`SqWords`). `OnceUnasked` (`SqSingle`) needs most. There is one turn
at a time: the frame that asks for it, the turn at work, or the event of its end
(`SqToken`). On a wire no two frames about one message stand in the wrong order
(`SqUpOrder`, `SqDownOrder`), and what a turn has absorbed is told before its end
(`SqToldInTime`). So a message that is or will be in the thread is in the window's
queue only while the news of it are on the way (`SqFresh`), and the window reads these
before it sends anything again. What a removal does to the queue is stated in the
model by its result (`SqForget`: the same messages in the same order without the
absorbed ones).

**Workflow run.** `NeverSilent` (`WfInductive`): a running run has a live driver nobody
has cancelled, as a cancellation takes the status with it and the last act of a driver
is to fail a run it finds running. The other three (`WfOrdered`) hold where requests keep
out of the starts and ends of drivers: there is one live driver, it is the registered
task, while it streams the run is neither paused nor ended, and a run that reads as
done before its gate has a driver about to park.

**Worker bus** (`WbInductive`). Without a digest, each accepted watch is in exactly one
place: the meta, memory, or read. A crash takes from memory, so only the upper
bound of the count survives it.

**Teams** (`TdInv`). Only the registered list has entries, each once; a drain that holds
another list keeps new ones out, which is what `"rush"` gives up (`TdLined`).
Without turns of the user a member is at work for a delivery, so who finds the places
taken finds somebody on the way to a drain (`TdHome`).

**Hook chain.** `HcOnlyTheCoreFails` needs that an error, wherever it is kept, came from
the engine (`HcBlamed`). The others hold where no hook exceeds its time and no chain its cap, and rest
on the nesting of the runs (`HcNested`): what has started is a prefix of the hooks, and
only the deepest that has not returned can start the next. A runner can ask for that
while it holds a token, which is the event frame, the hook before its call of
`next`, or the `next` frame; there is at most one (`HcOneToken`), and meanwhile the
`Active` entry of its mod names its hook. A hook's answer is written after its
`next` and a death after everything, so the order in the pipes (`HcOutOrder`) ends
the token before the broker takes the answer.

**Goal driver** (`GdInductive`). Who is registered lives and is not cancelled, every
other live driver is cancelled; an active goal is pursued, or will be armed by the end
of a turn or by a request.

**Plan watcher.** What a pass means to launch is in a life no child was launched for
(`PwMeant`); no child is of a life to come and a pending item has none in its
present one (`PwPast`); unless children are revived by hand, a child at work is the one
recorded at an item that runs, which no amendment touches (`PwRecorded`).

Only model-checked: the liveness properties (`EveryoneSettles`, `ReportsArrive`,
`SqEventsArrive`), which are out of the prover's reach. Where a theorem has a condition
on the scripts, a run whose scripts go beyond it says more than the theorem.

## 5. What is not modelled

- *Agent teams*: several sessions of one member, the write of a reply into the main
  session, `wait_for_team`, the roster's storage and status, the removal of a member at work.
- *Subagents*: spawns by a command or a mod, deletion, `wait_for_subagents`, a cut by the
  stall watchdog, the step-budget continuation.
- *Steering*: attachments, the merging of similar messages, reconnection, channel
  messages.
- *Scheduler*: the lease between two processes, time zones, what a run does.
- *Workflows*: the compiler, loops and branches, the result cache, budgets, retries as a
  new run.
- *Mods*: their own calls, timers, surfaces, the loading and restart of runners, fires
  without an answer, the Python bridge.
- *Goals*: the command, deletion of the session, accounting.
- *Plans*: delegated items, several lists of one session, the split proposal.
- *Session meta*: index file, titles, lazy backfill (a hazard without a property).
- *World state*: the sections of the prompt are rebuilt for every turn; the baseline
  file only serves to notice what has changed.
- *Todo sync, chat channels, browser companion, MCP, last words, permission, hooks,
  commands, desktop, web client*: I/O, rendering, or sequential lookups and text, without
  the interleavings and failures a model checker is for. What they do to shared state
  appears in the models as the frames, questions and requests they send.

The models cover the control of the components above, which is a small part of
the repository by lines: most of its code is endpoints, formatting, text and rendering.

## 6. Running

    tlc -workers 2 -config components.cfg MCComponents.tla
    tlc -workers 2 -config reports.cfg MCSubagentScheduler.tla
    tlapm SubagentSchedulerProofs.tla
