---------------------- MODULE SubagentSchedulerProofs ----------------------
(***************************************************************************)
(* Proofs about SubagentScheduler, for every tree of sessions, every cap   *)
(* and every script of outside events.  The inductive invariant IInv is    *)
(* the type invariant strengthened by what the _FINALIZING latch of        *)
(* gate.py guarantees: a session has at most one finalizer in flight, one  *)
(* that is still preparing its report finds the session alive, and one     *)
(* that is about to report has not been counted yet.                       *)
(*                                                                         *)
(* Four more invariants are proved relative to it: Locks (whoever is       *)
(* inside its turn holds the turn lock of its session, and nobody else),   *)
(* Askable (a question has somebody who will answer or heal it), Clean     *)
(* (a stop event has a coroutine that will drop it) and Reach (a turn that *)
(* streams is registered, with the event it waits on).                     *)
(***************************************************************************)
EXTENDS SubagentScheduler, TLAPS

Statuses == {"main", "none"} \cup Live \cup Terminal
FinPC == {"report", "push"}
BackPC == {"end", "seg", "tail", "walk", "unmark"}

\* the lives of a session that ended with something to report, beyond `life'
Over(x) == IF x \in {"done", "failed"} THEN 1 ELSE 0

\* no finalizer of s among T
NoFin(T, s) == \A t \in T : t.s = s => t.pc \notin FinPC

\* what the latch guarantees of the coroutines T, the statuses st, the
\* reports em and the revivals li
Latched(T, st, em, li) == \A t \in T : t.pc \in FinPC =>
    /\ t.s \in Subagent
    /\ t.pc = "report" => st[t.s] \in Live
    /\ t.pc = "push" /\ t.res \in {"done", "failed"} =>
         em[t.s] < li[t.s] + Over(st[t.s])
    /\ \A u \in T : u.pc \in FinPC /\ u.s = t.s => u = t

Counted(st, em, li) == \A c \in Subagent : em[c] <= li[c] + Over(st[c])

RootMain(st) == st[Root] = "main" /\ \A c \in Subagent : st[c] # "main"

\* the inductive invariant
IInv ==
    /\ TypeOK
    /\ Latched(tasks, status, emitted, life)
    /\ Counted(status, emitted, life)
    /\ RootMain(status)

----------------------------------------------------------------------------
(* The helpers keep the types.                                             *)

\* A new coroutine record is a task that starts where it was told to.
LEMMA NewTaskType ==
    ASSUME NEW kind \in Kind, NEW s \in Session, NEW pc \in PC
    PROVE  /\ NewTask(kind, s, pc) \in Task
           /\ NewTask(kind, s, pc).pc = pc
BY DEF NewTask, Task, Event

\* A wake turn (_wake_parent_turn) is a task that has not run yet.
LEMMA WakeTaskType ==
    ASSUME NEW s \in Session, NEW toks \in SUBSET Token, NEW b \in BOOLEAN
    PROVE  /\ WakeTask(s, toks, b) \in Task
           /\ WakeTask(s, toks, b).pc = "start"
BY DEF WakeTask, NewTask, Task, Event, Kind, PC

\* Every reconciled injection becomes a wake turn of the same session.
LEMMA RedeliveriesType ==
    ASSUME TypeOK, NEW s \in Session
    PROVE  /\ Redeliveries(s) \subseteq Task
           /\ \A u \in Redeliveries(s) : u.pc \notin FinPC
<1>1. ASSUME NEW e \in stash[s]
      PROVE  /\ WakeTask(s, e, FALSE) \in Task
             /\ WakeTask(s, e, FALSE).pc \notin FinPC
  <2>1. e \in SUBSET Token
    BY DEF TypeOK
  <2> QED
    BY <2>1, WakeTaskType DEF FinPC
<1> QED
  BY <1>1 DEF Redeliveries

\* Popping _TURN_STOP leaves every coroutine where it is.
LEMMA DetachType ==
    ASSUME TypeOK, NEW T \in SUBSET Task, NEW s \in Session
    PROVE  /\ Detach(T, s) \in SUBSET Task
           /\ \A u \in Detach(T, s) : \E t \in T :
                /\ u.s = t.s /\ u.pc = t.pc /\ u.res = t.res
<1>1. ASSUME NEW t \in T
      PROVE  LET u == [t EXCEPT !.evt = Freeze(@, s), !.sev = Freeze(@, s)]
             IN  u \in Task /\ u.s = t.s /\ u.pc = t.pc /\ u.res = t.res
  <2>1. armed[s] \in Event
    BY DEF TypeOK, Event
  <2> QED
    BY <2>1 DEF Task, Freeze, Event
<1> QED
  BY <1>1 DEF Detach

\* So does overwriting the entry in _TURN_TASKS.
LEMMA UnlistType ==
    ASSUME NEW T \in SUBSET Task, NEW s \in Session
    PROVE  Unlist(T, s) \in SUBSET Task
BY DEF Unlist, Task

\* _finalize_subagent hands on a task, or returns to its caller.
LEMMA FinTaskType ==
    ASSUME NEW t \in Task, NEW res \in Terminal, NEW ret \in BackPC
    PROVE  /\ FinTask(t, res, ret) \in SUBSET Task
           /\ Return(t, ret) \in SUBSET Task
           /\ \A u \in Return(t, ret) : u.pc \notin FinPC
<1> DEFINE back == [t EXCEPT !.pc = ret, !.res = "none", !.ret = "end"]
           go == [t EXCEPT !.pc = IF res = "done" THEN "report" ELSE "push",
                           !.res = res, !.ret = ret]
<1>1. ret # "end" => back \in Task /\ back.pc = ret
  BY DEF Task, BackPC, PC
<1>2. go \in Task
  BY DEF Task, BackPC, PC, Terminal
<1>3. ret # "end" => ret \notin FinPC
  BY DEF BackPC, FinPC
<1>4. Return(t, ret) = IF ret = "end" THEN {} ELSE {back}
  BY DEF Return
<1>5. FinTask(t, res, ret) = IF Finalizing(t.s) THEN Return(t, ret) ELSE {go}
  BY DEF FinTask
<1> HIDE DEF back, go
<1> QED
  BY <1>1, <1>2, <1>3, <1>4, <1>5

\* The terminal patch writes a status.
LEMMA FinStatusType ==
    ASSUME TypeOK, NEW s \in Session, NEW res \in Terminal
    PROVE  FinStatus(s, res) \in [Session -> Statuses]
BY DEF FinStatus, TypeOK, Statuses

----------------------------------------------------------------------------
(* The helpers keep the latch.                                             *)

\* Fewer coroutines are latched when more are.
LEMMA LatchedSubset ==
    ASSUME NEW T, NEW S \in SUBSET T, NEW st, NEW em, NEW li,
           Latched(T, st, em, li)
    PROVE  Latched(S, st, em, li)
BY DEF Latched

\* Coroutines that are not finalizing may join.
LEMMA LatchedQuiet ==
    ASSUME NEW T, NEW N, NEW st, NEW em, NEW li,
           Latched(T, st, em, li), \A u \in N : u.pc \notin FinPC
    PROVE  Latched(T \cup N, st, em, li)
BY DEF Latched

\* Popping _TURN_STOP does not touch the latch.
LEMMA LatchedDetach ==
    ASSUME TypeOK, NEW T \in SUBSET Task, NEW s \in Session,
           NEW st, NEW em, NEW li, Latched(T, st, em, li)
    PROVE  Latched(Detach(T, s), st, em, li)
<1> DEFINE d(t) == IF t.s = s THEN [t EXCEPT !.evt = Freeze(@, s),
                                             !.sev = Freeze(@, s)] ELSE t
<1>1. \A t \in T : d(t).s = t.s /\ d(t).pc = t.pc /\ d(t).res = t.res
  BY DEF Task
<1>2. Detach(T, s) = {d(t) : t \in T}
  BY DEF Detach
<1> HIDE DEF d
<1> QED
  BY <1>1, <1>2 DEF Latched

\* Nor does overwriting the entry in _TURN_TASKS.
LEMMA LatchedUnlist ==
    ASSUME NEW T \in SUBSET Task, NEW s \in Session,
           NEW st, NEW em, NEW li, Latched(T, st, em, li)
    PROVE  Latched(Unlist(T, s), st, em, li)
<1> DEFINE d(t) == IF t.s = s /\ t.kind \in WsKind
                   THEN [t EXCEPT !.listed = FALSE] ELSE t
<1>1. \A t \in T : d(t).s = t.s /\ d(t).pc = t.pc /\ d(t).res = t.res
  BY DEF Task
<1>2. Unlist(T, s) = {d(t) : t \in T}
  BY DEF Unlist
<1> HIDE DEF d
<1> QED
  BY <1>1, <1>2 DEF Latched

\* A status that stays alive, or is written first, disturbs no finalizer.
LEMMA LatchedShift ==
    ASSUME NEW st \in [Session -> Statuses], NEW s \in Subagent,
           NEW x \in Live, st[s] \in {"none"} \cup Live,
           NEW T, NEW em, NEW li,
           Latched(T, st, em, li), Counted(st, em, li), RootMain(st)
    PROVE  /\ Latched(T, [st EXCEPT ![s] = x], em, li)
           /\ Counted([st EXCEPT ![s] = x], em, li)
           /\ RootMain([st EXCEPT ![s] = x])
<1> DEFINE st2 == [st EXCEPT ![s] = x]
<1>1. \A c \in Subagent : Over(st2[c]) = Over(st[c])
  BY TreeAssumption DEF Over, Live, Subagent
<1>2. \A c \in Subagent : st[c] \in Live => st2[c] \in Live
  BY TreeAssumption DEF Live, Subagent
<1>3. RootMain(st2)
  BY TreeAssumption DEF RootMain, Live, Subagent
<1> HIDE DEF st2
<1>4. Latched(T, st2, em, li)
  BY <1>1, <1>2 DEF Latched
<1>5. Counted(st2, em, li)
  BY <1>1 DEF Counted
<1> QED
  BY <1>3, <1>4, <1>5 DEF st2

\* A live session that nobody is finalizing may be finalized by u: the patch
\* is written at once, except that "done" waits for the report.
LEMMA LatchedFinalize ==
    ASSUME IInv, NEW T \in SUBSET Task, NEW s \in Subagent,
           status[s] \in Live, NEW res \in Terminal,
           NEW u \in Task, u.s = s, u.res = res,
           u.pc = (IF res = "done" THEN "report" ELSE "push"),
           Latched(T, status, emitted, life), NoFin(T, s),
           NEW st, st = IF res = "done" THEN status
                        ELSE [status EXCEPT ![s] = res]
    PROVE  /\ Latched(T \cup {u}, st, emitted, life)
           /\ Counted(st, emitted, life)
           /\ RootMain(st)
<1>1. /\ status \in [Session -> Statuses] /\ s \in Session
      /\ emitted \in [Session -> Nat] /\ life \in [Session -> Nat]
      /\ Counted(status, emitted, life) /\ RootMain(status)
  BY DEF IInv, TypeOK, Statuses, Subagent
<1>2. \A c \in Session : c # s => st[c] = status[c]
  BY <1>1
<1>3. st[s] = IF res = "done" THEN status[s] ELSE res
  BY <1>1
<1>4. emitted[s] <= life[s] /\ emitted[s] \in Nat /\ life[s] \in Nat
  BY <1>1 DEF Counted, Over, Live
<1>5. Counted(st, emitted, life)
  BY <1>1, <1>2, <1>3, <1>4 DEF Counted, Over, Subagent
<1>6. RootMain(st)
  BY <1>1, <1>2, <1>3, TreeAssumption DEF RootMain, Subagent, Terminal
<1>7. \A t \in T : t.pc \in FinPC => t.s # s
  BY DEF NoFin
<1>8. u.pc = "report" => st[s] \in Live
  BY <1>3
<1>9. u.pc = "push" /\ u.res \in {"done", "failed"} =>
        emitted[s] < life[s] + Over(st[s])
  BY <1>3, <1>4 DEF Over
<1>10. Latched(T \cup {u}, st, emitted, life)
  BY <1>2, <1>7, <1>8, <1>9 DEF Latched, Subagent
<1> QED
  BY <1>5, <1>6, <1>10

----------------------------------------------------------------------------
(* What every step of the scheduler has to show.                           *)

\* the types of everything but the coroutines, the statuses and `wrapped'
Rest ==
    /\ running \in [Session -> {"none", "own", "ws"}]
    /\ parked \in [Session -> BOOLEAN]
    /\ asking \in [Session -> BOOLEAN]
    /\ armed \in [Session -> {"none", "clear", "set"}]
    /\ stash \in [Session -> SUBSET SUBSET Token]
    /\ pending \in [Session -> SUBSET Token]
    /\ timer \subseteq Session
    /\ absorbed \in [Session -> SUBSET Token]
    /\ emitted \in [Session -> Nat]
    /\ life \in [Session -> Nat]
    /\ cut \subseteq Session
    /\ \E script \in Scripts : left \subseteq script

\* a step of the lifecycle, or a stutter
LifecycleStep == Lifecycle!Next \/ UNCHANGED <<status, emitted, life>>

\* the coroutines and statuses after a step
Kept ==
    /\ tasks' \in SUBSET Task
    /\ status' \in [Session -> Statuses]
    /\ wrapped' \in [Session -> BOOLEAN]
    /\ Latched(tasks', status', emitted', life')
    /\ Counted(status', emitted', life')
    /\ RootMain(status')
    /\ LifecycleStep

\* IInv gives the types of its parts.
LEMMA Types ==
    ASSUME IInv
    PROVE  /\ TypeOK /\ Rest
           /\ tasks \in SUBSET Task
           /\ status \in [Session -> Statuses]
           /\ wrapped \in [Session -> BOOLEAN]
           /\ Subagent \in SUBSET Session
BY DEF IInv, TypeOK, Rest, Statuses, Subagent

\* A step that keeps both halves keeps the invariant.
LEMMA Assemble ==
    ASSUME Kept, Rest'
    PROVE  IInv' /\ LifecycleStep
BY DEF Kept, Rest, IInv, TypeOK, Statuses

\* A step that writes no meta and no report only has to keep the latch.
LEMMA Still ==
    ASSUME IInv, UNCHANGED <<status, wrapped, emitted, life>>,
           tasks' \in SUBSET Task, Latched(tasks', status, emitted, life)
    PROVE  Kept
BY Types DEF Kept, IInv, LifecycleStep

\* A coroutine t goes on as, or starts, coroutines that are not finalizing.
LEMMA Quiet ==
    ASSUME IInv, NEW t, NEW N \in SUBSET Task,
           \A u \in N : u.pc \notin FinPC
    PROVE  /\ (tasks \ {t}) \cup N \in SUBSET Task
           /\ Latched((tasks \ {t}) \cup N, status, emitted, life)
<1>1. Latched(tasks \ {t}, status, emitted, life)
  BY LatchedSubset DEF IInv
<1> QED
  BY <1>1, LatchedQuiet, Types

\* A coroutine that only moves on, to an await that is not a finalizer's.
LEMMA GoesOn ==
    ASSUME IInv, NEW t, NEW u \in Task, u.pc \notin FinPC,
           tasks' = (tasks \ {t}) \cup {u},
           UNCHANGED <<status, wrapped, emitted, life>>
    PROVE  Kept
<1>1. {u} \in SUBSET Task /\ \A x \in {u} : x.pc \notin FinPC
  OBVIOUS
<1> QED
  BY <1>1, Quiet, Still

\* A status moved from running to waiting, back, or from nothing to running
\* is a step of the lifecycle.
LEMMA Moves ==
    ASSUME IInv, NEW s \in Subagent, UNCHANGED <<emitted, life>>,
           \/ status[s] = "none" /\ status' = [status EXCEPT ![s] = "running"]
           \/ status[s] \in Live /\ status' = [status EXCEPT ![s] = "waiting"]
           \/ status[s] = "waiting" /\ status' = [status EXCEPT ![s] = "running"]
    PROVE  LifecycleStep
<1> USE DEF LifecycleStep, Lifecycle!Next, Lifecycle!Move, Lifecycle!Create,
            Lifecycle!Wait, Lifecycle!Wake, Lifecycle!Subagent, Subagent
<1>1. CASE status[s] = "none" /\ status' = [status EXCEPT ![s] = "running"]
  BY <1>1
<1>2. CASE status[s] \in Live /\ status' = [status EXCEPT ![s] = "waiting"]
  <2>1. CASE status[s] = "running"
    BY <1>2, <2>1
  <2>2. CASE status[s] = "waiting"
    BY <1>2, <2>2, Types
  <2> QED
    BY <1>2, <2>1, <2>2 DEF Live
<1>3. CASE status[s] = "waiting" /\ status' = [status EXCEPT ![s] = "running"]
  BY <1>3
<1> QED
  BY <1>1, <1>2, <1>3

\* A live session that is given a terminal status finishes.
LEMMA Finishes ==
    ASSUME NEW s \in Subagent, NEW res \in Terminal, status[s] \in Live,
           UNCHANGED <<emitted, life>>,
           status' = status \/ status' = [status EXCEPT ![s] = res]
    PROVE  LifecycleStep
BY DEF LifecycleStep, Lifecycle!Next, Lifecycle!Move, Lifecycle!Finish,
       Lifecycle!Subagent, Lifecycle!Live, Live, Terminal, Subagent

\* _finalize_subagent on a live session: the latch decides.
LEMMA Finalize ==
    ASSUME IInv, NEW T \in SUBSET Task, NEW t \in Task, t.s \in Subagent,
           status[t.s] \in Live, NEW res \in Terminal, NEW ret \in BackPC,
           Latched(T, status, emitted, life), NoFin(tasks, t.s) => NoFin(T, t.s),
           tasks' = T \cup FinTask(t, res, ret),
           status' = FinStatus(t.s, res),
           UNCHANGED <<wrapped, emitted, life>>
    PROVE  Kept
<1> DEFINE go == [t EXCEPT !.pc = IF res = "done" THEN "report" ELSE "push",
                           !.res = res, !.ret = ret]
<1>1. tasks' \in SUBSET Task
  BY FinTaskType
<1>2. status' \in [Session -> Statuses]
  BY FinStatusType, Types
<1>3. status' = status \/ status' = [status EXCEPT ![t.s] = res]
  BY DEF FinStatus
<1>4. LifecycleStep
  BY <1>3, Finishes
<1>5. CASE Finalizing(t.s)
  <2>1. /\ status' = status
        /\ tasks' = T \cup Return(t, ret)
    BY <1>5 DEF FinStatus, FinTask
  <2>2. \A u \in Return(t, ret) : u.pc \notin FinPC
    BY FinTaskType
  <2>3. Latched(T \cup Return(t, ret), status, emitted, life)
    BY <2>2, LatchedQuiet
  <2> QED
    BY <1>1, <2>1, <2>3, Still
<1>6. CASE ~Finalizing(t.s)
  <2>1. tasks' = T \cup {go}
    BY <1>6 DEF FinTask
  <2>2. /\ go \in Task /\ go.s = t.s /\ go.res = res
        /\ go.pc = (IF res = "done" THEN "report" ELSE "push")
    <3>1. (IF res = "done" THEN "report" ELSE "push") \in PC
      BY DEF PC
    <3>2. res \in {"none"} \cup Terminal
      BY DEF Terminal
    <3> QED
      BY <3>1, <3>2 DEF Task, BackPC
  <2>3. status' = IF res = "done" THEN status ELSE [status EXCEPT ![t.s] = res]
    BY <1>6 DEF FinStatus
  <2>4. NoFin(T, t.s)
    BY <1>6 DEF Finalizing, NoFin, FinPC
  <2> HIDE DEF go
  <2>5. /\ Latched(tasks', status', emitted, life)
        /\ Counted(status', emitted, life)
        /\ RootMain(status')
    BY <2>1, <2>2, <2>3, <2>4, LatchedFinalize
  <2> QED
    BY <1>1, <1>2, <1>4, <2>5, Types DEF Kept
<1> QED
  BY <1>5, <1>6

\* on_turn_settled, whatever its verdict, writes at most one legal status.
LEMMA GateKeeps ==
    ASSUME IInv, NEW T \in SUBSET Task, NEW t \in Task,
           Latched(T, status, emitted, life), NoFin(tasks, t.s) => NoFin(T, t.s),
           NEW g \in {"drop", "wrap", "stopped", "failed", "wait", "done"},
           g # "drop" => Stoppable(t.s),
           Gate(t, T, g), UNCHANGED <<emitted, life>>
    PROVE  Kept
<1>1. wrapped' \in [Session -> BOOLEAN]
  BY Types DEF Gate
<1>2. g # "drop" => t.s \in Subagent /\ status[t.s] \in Live
  BY DEF Stoppable, Subagent, Task
<1>3. CASE g = "drop"
  <2>1. tasks' = T /\ UNCHANGED <<status, wrapped>>
    BY <1>3 DEF Gate
  <2> QED
    BY <2>1, Still
<1>4. CASE g = "wrap"
  <2> DEFINE u == [NewTask("wrap", t.s, "start") EXCEPT !.evt = "clear"]
  <2>1. u \in Task /\ u.pc = "start"
    BY DEF NewTask, Task, Kind, PC, Event
  <2>2. tasks' = T \cup {u} /\ UNCHANGED status
    BY <1>4 DEF Gate
  <2> HIDE DEF u
  <2>3. Latched(T \cup {u}, status, emitted, life)
    <3>1. \A v \in {u} : v.pc \notin FinPC
      BY <2>1 DEF FinPC
    <3> QED
      BY <3>1, LatchedQuiet
  <2> QED
    BY <1>1, <2>1, <2>2, <2>3, Types DEF Kept, IInv, LifecycleStep
<1>5. CASE g = "wait"
  <2> DEFINE u == [t EXCEPT !.pc = "wpush"]
  <2>1. u \in Task /\ u.pc = "wpush"
    BY DEF Task, PC
  <2>2. /\ tasks' = T \cup (IF status[t.s] = "waiting" THEN {} ELSE {u})
        /\ status' = [status EXCEPT ![t.s] = "waiting"]
        /\ UNCHANGED wrapped
    BY <1>5 DEF Gate
  <2> HIDE DEF u
  <2>3. /\ Latched(T, status', emitted, life)
        /\ Counted(status', emitted, life)
        /\ RootMain(status')
    BY <1>2, <1>5, <2>2, LatchedShift, Types DEF IInv, Live
  <2>4. Latched(tasks', status', emitted, life) /\ tasks' \in SUBSET Task
    <3>1. \A v \in {u} : v.pc \notin FinPC
      BY <2>1 DEF FinPC
    <3>2. Latched(T \cup {u}, status', emitted, life)
      BY <2>3, <3>1, LatchedQuiet
    <3> QED
      BY <2>1, <2>2, <2>3, <3>2
  <2>5. status' \in [Session -> Statuses]
    BY <2>2, Types DEF Statuses, Live
  <2>6. LifecycleStep
    BY <1>2, <1>5, <2>2, Moves
  <2> QED
    BY <1>1, <2>3, <2>4, <2>5, <2>6 DEF Kept
<1>6. CASE g \in {"stopped", "failed"}
  <2>1. /\ tasks' = T \cup FinTask(t, g, "end") /\ status' = FinStatus(t.s, g)
        /\ UNCHANGED wrapped
    BY <1>6 DEF Gate
  <2> QED
    BY <1>2, <1>6, <2>1, Finalize DEF Terminal, BackPC
<1>7. CASE g = "done"
  <2>1. /\ tasks' = T \cup FinTask(t, g, "end") /\ status' = FinStatus(t.s, g)
        /\ UNCHANGED wrapped
    BY <1>7 DEF Gate, FinStatus
  <2> QED
    BY <1>2, <1>7, <2>1, Finalize DEF Terminal, BackPC
<1> QED
  BY <1>3, <1>4, <1>5, <1>6, <1>7

\* The verdict is one of the gate's branches and spares a dead session.
LEMMA VerdictType ==
    ASSUME NEW s, NEW out, NEW stop
    PROVE  /\ Verdict(s, out, stop) \in
                {"drop", "wrap", "stopped", "failed", "wait", "done"}
           /\ Verdict(s, out, stop) # "drop" => Stoppable(s)
BY DEF Verdict

\* The completion gate after a segment, in its own task or in this one.
LEMMA AfterSegmentKeeps ==
    ASSUME IInv, NEW T \in SUBSET Task, NEW t \in Task,
           Latched(T, status, emitted, life), NoFin(tasks, t.s) => NoFin(T, t.s),
           NEW out \in {"ok", "error", "recursion"},
           AfterSegment(t, T, out), UNCHANGED <<emitted, life>>
    PROVE  Kept
<1> DEFINE u == [t EXCEPT !.evt = Freeze(@, t.s), !.sev = "none", !.out = out]
           v == [u EXCEPT !.lk = (t.kind = "wake")]
           n == [NewTask("settle", t.s, "start") EXCEPT !.evt = u.evt, !.out = out]
           g == IF WsLive(T, t.s) THEN "drop" ELSE Verdict(t.s, out, u.evt = "set")
<1>1. u \in Task /\ u.s = t.s
  <2>1. Freeze(t.evt, t.s) \in Event
    BY Types DEF Freeze, Task, Event, Rest
  <2> QED
    BY <2>1 DEF Task, Event
<1>2. v \in Task /\ v.s = t.s
  <2>1. (t.kind = "wake") \in BOOLEAN
    OBVIOUS
  <2> QED
    BY <1>1, <2>1 DEF Task
<1>3. n \in Task /\ n.pc = "start"
  <2>1. u.evt \in Event /\ t.s \in Session
    BY <1>1 DEF Task
  <2> HIDE DEF u
  <2>2. NewTask("settle", t.s, "start") \in Task
        /\ NewTask("settle", t.s, "start").pc = "start"
    BY <2>1, NewTaskType DEF Kind, PC
  <2> QED
    BY <2>1, <2>2 DEF Task
<1>4. \/ /\ tasks' = T \cup {n} /\ UNCHANGED <<status, wrapped>>
      \/ Gate(v, T, g)
  <2>1. CASE t.kind \in WsKind
    BY <2>1, Zenon DEF AfterSegment
  <2>2. CASE t.kind \notin WsKind
    BY <2>2, Zenon DEF AfterSegment
  <2> QED
    BY <2>1, <2>2
<1> HIDE DEF u, v, n
<1>5. CASE tasks' = T \cup {n} /\ UNCHANGED <<status, wrapped>>
  <2>1. \A x \in {n} : x.pc \notin FinPC
    BY <1>3 DEF FinPC
  <2>2. Latched(T \cup {n}, status, emitted, life)
    BY <2>1, LatchedQuiet
  <2> QED
    BY <1>3, <1>5, <2>2, Still
<1>6. CASE Gate(v, T, g)
  <2>1. /\ g \in {"drop", "wrap", "stopped", "failed", "wait", "done"}
        /\ g # "drop" => Stoppable(v.s)
    BY <1>2, VerdictType
  <2> HIDE DEF g
  <2> QED
    BY <1>2, <1>6, <2>1, GateKeeps
<1> QED
  BY <1>4, <1>5, <1>6

----------------------------------------------------------------------------
(* Spawning a child.                                                       *)

\* create_subagent gives a session its first status, and no finalizer.
LEMMA SpawnCreateKeeps ==
    ASSUME IInv, NEW c \in Subagent, SpawnCreate(c)
    PROVE  Kept /\ Rest'
<1>1. Rest'
  BY Types DEF Rest, SpawnCreate, registries, queues, history
<1> DEFINE n == NewTask("brief", c, "create")
<1>2. c \in Session /\ n \in Task /\ n.pc \notin FinPC
  BY NewTaskType DEF Subagent, Kind, PC, FinPC
<1>3. /\ tasks' = tasks \cup {n}
      /\ status[c] = "none" /\ status' = [status EXCEPT ![c] = "running"]
      /\ UNCHANGED <<wrapped, emitted, life>>
  BY DEF SpawnCreate, history
<1> HIDE DEF n
<1>4. /\ Latched(tasks, status', emitted, life)
      /\ Counted(status', emitted, life)
      /\ RootMain(status')
  BY <1>3, LatchedShift, Types DEF IInv, Live
<1>5. \A u \in {n} : u.pc \notin FinPC
  BY <1>2
<1>6. Latched(tasks', status', emitted, life)
  BY <1>3, <1>4, <1>5, LatchedQuiet
<1>7. LifecycleStep
  BY <1>3, Moves
<1>8. tasks' \in SUBSET Task /\ status' \in [Session -> Statuses]
  BY <1>2, <1>3, Types DEF Statuses, Live
<1> QED
  BY <1>1, <1>3, <1>4, <1>6, <1>7, <1>8, Types DEF Kept

\* Pre-arming the stop event of a new child (create_subagent) touches no meta.
LEMMA SpawnArmKeeps ==
    ASSUME IInv, NEW t \in tasks, SpawnArm(t)
    PROVE  Kept /\ Rest'
<1>1. Rest'
  BY Types DEF Rest, SpawnArm, Arm, queues, history
<1> DEFINE u == [t EXCEPT !.pc = "armed", !.evt = "reg"]
<1>2. u \in Task /\ u.pc \notin FinPC
  BY Types DEF Task, PC, Event, FinPC
<1>3. tasks' = (tasks \ {t}) \cup {u} /\ UNCHANGED <<status, wrapped, emitted, life>>
  BY DEF SpawnArm, history
<1> HIDE DEF u
<1> QED
  BY <1>1, <1>2, <1>3, GoesOn

\* Launching the brief turn (spawn_bg in create_subagent) touches no meta.
LEMMA SpawnLaunchKeeps ==
    ASSUME IInv, NEW t \in tasks, SpawnLaunch(t)
    PROVE  Kept /\ Rest'
<1>1. Rest'
  BY Types DEF Rest, SpawnLaunch, registries, queues, history
<1> DEFINE u == [t EXCEPT !.pc = "start"]
<1>2. u \in Task /\ u.pc \notin FinPC
  BY Types DEF Task, PC, FinPC
<1>3. tasks' = (tasks \ {t}) \cup {u} /\ UNCHANGED <<status, wrapped, emitted, life>>
  BY DEF SpawnLaunch, history
<1> HIDE DEF u
<1> QED
  BY <1>1, <1>2, <1>3, GoesOn

\* What is left of the coroutines when t takes its session's event down.
LEMMA DetachedRest ==
    ASSUME IInv, NEW t \in tasks
    PROVE  /\ Detach(tasks \ {t}, t.s) \in SUBSET Task
           /\ Latched(Detach(tasks \ {t}, t.s), status, emitted, life)
           /\ NoFin(tasks, t.s) => NoFin(Detach(tasks \ {t}, t.s), t.s)
<1>1. tasks \ {t} \in SUBSET Task /\ t.s \in Session /\ TypeOK
  BY Types DEF Task
<1>2. Latched(tasks \ {t}, status, emitted, life)
  BY LatchedSubset DEF IInv
<1>3. /\ Detach(tasks \ {t}, t.s) \in SUBSET Task
      /\ \A u \in Detach(tasks \ {t}, t.s) : \E x \in tasks \ {t} :
           u.s = x.s /\ u.pc = x.pc /\ u.res = x.res
  BY <1>1, DetachType
<1>4. Latched(Detach(tasks \ {t}, t.s), status, emitted, life)
  BY <1>1, <1>2, LatchedDetach
<1> QED
  BY <1>3, <1>4 DEF NoFin

\* A live session's stop is finalized by the coroutine v of the session.
LEMMA StoppedHere ==
    ASSUME IInv, NEW T \in SUBSET Task, NEW v \in Task, NEW ret \in BackPC,
           Latched(T, status, emitted, life), NoFin(tasks, v.s) => NoFin(T, v.s),
           tasks' = T \cup IF Stoppable(v.s) THEN FinTask(v, "stopped", ret)
                           ELSE Return(v, ret),
           status' = IF Stoppable(v.s) THEN FinStatus(v.s, "stopped") ELSE status,
           UNCHANGED <<wrapped, emitted, life>>
    PROVE  Kept
<1>1. CASE Stoppable(v.s)
  <2>1. v.s \in Subagent /\ status[v.s] \in Live
    BY <1>1 DEF Stoppable, Subagent, Task
  <2>2. "stopped" \in Terminal
    BY DEF Terminal
  <2>3. /\ tasks' = T \cup FinTask(v, "stopped", ret)
        /\ status' = FinStatus(v.s, "stopped")
    BY <1>1
  <2> QED
    BY <2>1, <2>2, <2>3, Finalize
<1>2. CASE ~Stoppable(v.s)
  <2>1. /\ Return(v, ret) \in SUBSET Task
        /\ \A u \in Return(v, ret) : u.pc \notin FinPC
    BY FinTaskType DEF Terminal
  <2>2. Latched(T \cup Return(v, ret), status, emitted, life)
    BY <2>1, LatchedQuiet
  <2> QED
    BY <1>2, <2>1, <2>2, Still
<1> QED
  BY <1>1, <1>2

\* A brief turn killed in the spawn window (_run_managed_turn) finalizes once.
LEMMA BriefStartKeeps ==
    ASSUME IInv, NEW t \in tasks, BriefStart(t)
    PROVE  Kept /\ Rest'
<1>1. Rest'
  BY Types DEF Rest, BriefStart, Disarm, queues, history
<1>2. t \in Task
  BY Types
<1>3. CASE IsSet(t, t.evt)
  <2>1. Return(t, "end") = {}
    BY DEF Return
  <2>2. /\ tasks' = Detach(tasks \ {t}, t.s) \cup
                      IF Stoppable(t.s) THEN FinTask(t, "stopped", "end")
                      ELSE Return(t, "end")
        /\ status' = IF Stoppable(t.s) THEN FinStatus(t.s, "stopped") ELSE status
        /\ UNCHANGED <<wrapped, emitted, life>>
    BY <1>3, <2>1 DEF BriefStart, history
  <2> QED
    BY <1>1, <1>2, <2>2, DetachedRest, StoppedHere DEF BackPC
<1>4. CASE ~IsSet(t, t.evt)
  <2> DEFINE u == [t EXCEPT !.pc = "queued"]
  <2>1. u \in Task /\ u.pc \notin FinPC
    BY Types DEF Task, PC, FinPC
  <2>2. /\ tasks' = (tasks \ {t}) \cup {u}
        /\ UNCHANGED <<status, wrapped, emitted, life>>
    BY <1>4 DEF BriefStart, history
  <2> HIDE DEF u
  <2> QED
    BY <1>1, <2>1, <2>2, GoesOn
<1> QED
  BY <1>3, <1>4

----------------------------------------------------------------------------
(* A turn segment.                                                         *)

\* A turn that takes the turn lock and registers (_stream_graph) touches no meta.
LEMMA StartTurnKeeps ==
    ASSUME IInv, NEW t \in tasks, StartTurn(t)
    PROVE  Kept /\ Rest'
<1>1. Rest'
  <2>1. Owner(t) \in {"own", "ws"}
    BY DEF Owner
  <2> QED
    BY <2>1, Types DEF Rest, StartTurn, Arm, queues, history
<1> DEFINE u == [t EXCEPT !.pc = "stream", !.lk = TRUE, !.sev = "reg"]
<1>2. u \in Task /\ u.pc \notin FinPC
  BY Types DEF Task, PC, Event, FinPC
<1>3. tasks' = (tasks \ {t}) \cup {u} /\ UNCHANGED <<status, wrapped, emitted, life>>
  BY DEF StartTurn, history
<1> HIDE DEF u
<1> QED
  BY <1>1, <1>2, <1>3, GoesOn

\* Draining the stash in a superstep (steer_drain) touches no meta.
LEMMA AbsorbKeeps ==
    ASSUME IInv, NEW t \in tasks, Absorb(t)
    PROVE  Kept /\ Rest'
<1>1. UNION stash[t.s] \in SUBSET Token
  BY Types DEF Rest, Task
<1>2. Rest'
  BY <1>1, Types DEF Rest, Absorb, EmptyStash, registries
<1>3. UNCHANGED <<status, wrapped, tasks, emitted, life>>
  BY DEF Absorb
<1> QED
  BY <1>2, <1>3, Still, Types DEF IInv

\* The automatic retry of a failed model call touches no meta.
LEMMA AutoRetryKeeps ==
    ASSUME IInv, NEW t \in tasks, AutoRetry(t)
    PROVE  Kept /\ Rest'
<1>1. Rest'
  BY Types DEF Rest, AutoRetry, Take, registries, queues, history
<1> DEFINE u == [t EXCEPT !.nested = TRUE]
<1>2. u \in Task /\ u.pc \notin FinPC
  BY Types DEF Task, FinPC, AutoRetry
<1>3. tasks' = (tasks \ {t}) \cup {u} /\ UNCHANGED <<status, wrapped, emitted, life>>
  BY DEF AutoRetry, history
<1> HIDE DEF u
<1> QED
  BY <1>1, <1>2, <1>3, GoesOn

\* Parking at an interrupt (_PENDING_RESUME) touches no meta.
LEMMA InterruptKeeps ==
    ASSUME IInv, NEW t \in tasks, Interrupt(t)
    PROVE  Kept /\ Rest'
<1>1. Rest'
  BY Types DEF Rest, Interrupt, Take, registries, queues, history
<1> DEFINE u == [t EXCEPT !.pc = "drain"]
<1>2. u \in Task /\ u.pc \notin FinPC
  BY Types DEF Task, PC, FinPC
<1>3. tasks' = (tasks \ {t}) \cup {u} /\ UNCHANGED <<status, wrapped, emitted, life>>
  BY DEF Interrupt, history
<1> HIDE DEF u
<1> QED
  BY <1>1, <1>2, <1>3, GoesOn

\* What is left when t takes the event down and the stash is redelivered.
LEMMA RedeliveredRest ==
    ASSUME IInv, NEW t \in tasks,
           NEW T, T = Detach(tasks \ {t}, t.s) \cup Redeliveries(t.s)
    PROVE  /\ T \in SUBSET Task
           /\ Latched(T, status, emitted, life)
           /\ NoFin(tasks, t.s) => NoFin(T, t.s)
<1>1. /\ Redeliveries(t.s) \subseteq Task
      /\ \A u \in Redeliveries(t.s) : u.pc \notin FinPC
  BY RedeliveriesType, Types DEF Task
<1>2. Latched(T, status, emitted, life)
  BY <1>1, DetachedRest, LatchedQuiet
<1> QED
  BY <1>1, <1>2, DetachedRest DEF NoFin

\* The end of a segment, with the stash reconciled, leaves the rest to the gate.
LEMMA StreamEndKeeps ==
    ASSUME IInv, NEW t \in tasks, NEW out \in {"ok", "error", "recursion"},
           StreamEnd(t, out)
    PROVE  Kept /\ Rest'
<1>1. Rest'
  BY Types DEF Rest, StreamEnd, Take, Disarm, EmptyStash, history
<1> DEFINE T == Detach(tasks \ {t}, t.s) \cup Redeliveries(t.s)
<1>2. AfterSegment(t, T, out) /\ UNCHANGED <<emitted, life>> /\ t \in Task
  BY Types DEF StreamEnd, history
<1>3. /\ T \in SUBSET Task
      /\ Latched(T, status, emitted, life)
      /\ NoFin(tasks, t.s) => NoFin(T, t.s)
  BY RedeliveredRest
<1> HIDE DEF T
<1> QED
  BY <1>1, <1>2, <1>3, AfterSegmentKeeps

\* A stopped segment (on_turn_stopped) finalizes at most once, whichever of
\* its half-created children are cut off.
LEMMA StreamStopKeeps ==
    ASSUME IInv, NEW t \in tasks, StreamStop(t)
    PROVE  Kept /\ Rest'
<1>1. PICK C \in SUBSET Spawning(t.s) :
        LET u == [t EXCEPT !.evt = Freeze(@, t.s), !.sev = "none"] IN
        /\ tasks' = Detach(tasks \ ({t} \cup C), t.s) \cup
             IF Stoppable(t.s) THEN FinTask(u, "stopped", "seg")
             ELSE Return(u, "seg")
        /\ cut' = cut \cup {c.s : c \in C}
  BY Zenon DEF StreamStop
<1>2. /\ status' = IF Stoppable(t.s) THEN FinStatus(t.s, "stopped") ELSE status
      /\ UNCHANGED <<wrapped, emitted, life>>
  BY DEF StreamStop
<1>3. C \in SUBSET tasks /\ TypeOK /\ t \in Task /\ t.s \in Session
  BY Types DEF Spawning, Task
<1>4. Rest'
  <2>1. \A c \in C : c.s \in Session
    BY <1>3, Types DEF Task
  <2>2. cut' \subseteq Session
    BY <1>1, <2>1, Types DEF Rest
  <2> QED
    BY <2>2, Types DEF Rest, StreamStop, Disarm, queues
<1> DEFINE u == [t EXCEPT !.evt = Freeze(@, t.s), !.sev = "none"]
           T == Detach(tasks \ ({t} \cup C), t.s)
<1>5. u \in Task /\ u.s = t.s
  <2>1. Freeze(t.evt, t.s) \in Event
    BY <1>3, Types DEF Freeze, Task, Event, Rest
  <2> QED
    BY <1>3, <2>1 DEF Task, Event
<1>6. /\ T \in SUBSET Task
      /\ Latched(T, status, emitted, life)
      /\ NoFin(tasks, t.s) => NoFin(T, t.s)
  <2> DEFINE S == tasks \ ({t} \cup C)
  <2>1. S \in SUBSET Task
    BY Types
  <2>2. Latched(S, status, emitted, life)
    BY LatchedSubset DEF IInv
  <2>3. S \subseteq tasks
    OBVIOUS
  <2> HIDE DEF S
  <2>4. /\ Detach(S, t.s) \in SUBSET Task
        /\ \A x \in Detach(S, t.s) : \E y \in S :
             x.s = y.s /\ x.pc = y.pc /\ x.res = y.res
    BY <1>3, <2>1, DetachType
  <2>5. Latched(Detach(S, t.s), status, emitted, life)
    BY <1>3, <2>1, <2>2, LatchedDetach
  <2>6. NoFin(tasks, t.s) => NoFin(Detach(S, t.s), t.s)
    BY <2>3, <2>4 DEF NoFin
  <2> QED
    BY <2>4, <2>5, <2>6 DEF S
<1>7. tasks' = T \cup IF Stoppable(u.s) THEN FinTask(u, "stopped", "seg")
                      ELSE Return(u, "seg")
  BY <1>1, <1>5
<1> HIDE DEF T, u
<1> QED
  BY <1>2, <1>4, <1>5, <1>6, <1>7, StoppedHere DEF BackPC

\* The tail of a stopped segment runs the gate, which spares a finished session.
LEMMA SegEndKeeps ==
    ASSUME IInv, NEW t \in tasks, SegEnd(t)
    PROVE  Kept /\ Rest'
<1>1. Rest' /\ UNCHANGED <<emitted, life>> /\ t \in Task
  BY Types DEF Rest, SegEnd, Disarm, EmptyStash, history
<1> DEFINE T == Detach(tasks \ {t}, t.s) \cup Redeliveries(t.s)
<1>2. \/ tasks' = T /\ UNCHANGED <<status, wrapped>>
      \/ AfterSegment(t, T, "ok")
  BY Zenon DEF SegEnd
<1>3. /\ T \in SUBSET Task
      /\ Latched(T, status, emitted, life)
      /\ NoFin(tasks, t.s) => NoFin(T, t.s)
  BY RedeliveredRest
<1> HIDE DEF T
<1> QED
  BY <1>1, <1>2, <1>3, AfterSegmentKeeps, Still

\* The end of a parked segment leaves a later gate to whoever answers.
LEMMA ParkEndKeeps ==
    ASSUME IInv, NEW t \in tasks, ParkEnd(t)
    PROVE  Kept /\ Rest'
<1> DEFINE T == Detach(tasks \ {t}, t.s)
           R == Detach(tasks \ {t}, t.s) \cup Redeliveries(t.s)
<1>1. \/ tasks' = T /\ UNCHANGED <<status, wrapped, stash>>
      \/ AfterSegment(t, T, "ok") /\ UNCHANGED stash
      \/ AfterSegment(t, R, "ok") /\ EmptyStash(t.s)
  BY Zenon DEF ParkEnd
<1>2. UNCHANGED <<emitted, life>> /\ t \in Task
  BY Types DEF ParkEnd, history
<1>3. Rest'
  BY <1>1, Types DEF Rest, ParkEnd, Disarm, EmptyStash, history
<1>4. /\ T \in SUBSET Task /\ R \in SUBSET Task
      /\ Latched(T, status, emitted, life) /\ Latched(R, status, emitted, life)
      /\ NoFin(tasks, t.s) => NoFin(T, t.s) /\ NoFin(R, t.s)
  BY DetachedRest, RedeliveredRest
<1> HIDE DEF T, R
<1> QED
  BY <1>1, <1>2, <1>3, <1>4, AfterSegmentKeeps, Still

\* The gate of a socket turn (on_turn_settled) writes at most one legal status.
LEMMA SettleKeeps ==
    ASSUME IInv, NEW t \in tasks, Settle(t)
    PROVE  Kept /\ Rest'
<1> DEFINE R == Detach(tasks \ {t}, t.s) \cup Redeliveries(t.s)
           g == Verdict(t.s, t.out, t.evt = "set")
<1>1. \/ tasks' = tasks \ {t} /\ UNCHANGED <<status, wrapped, armed, stash>>
      \/ Gate(t, R, g) /\ Disarm(t.s) /\ EmptyStash(t.s)
      \/ /\ tasks' = (tasks \ {t}) \cup Redeliveries(t.s)
         /\ EmptyStash(t.s) /\ UNCHANGED <<status, wrapped, armed>>
  BY Zenon DEF Settle
<1>2. UNCHANGED <<emitted, life>> /\ t \in Task
  BY Types DEF Settle, history
<1>3. Rest'
  BY <1>1, Types DEF Rest, Settle, Disarm, EmptyStash, history
<1>4. CASE tasks' = tasks \ {t} /\ UNCHANGED <<status, wrapped>>
  <2>1. tasks' \in SUBSET Task /\ Latched(tasks', status, emitted, life)
    BY <1>4, LatchedSubset, Types DEF IInv
  <2> QED
    BY <1>2, <1>3, <1>4, <2>1, Still
<1>5. CASE Gate(t, R, g)
  <2>1. /\ R \in SUBSET Task
        /\ Latched(R, status, emitted, life)
        /\ NoFin(tasks, t.s) => NoFin(R, t.s)
    BY RedeliveredRest
  <2>2. /\ g \in {"drop", "wrap", "stopped", "failed", "wait", "done"}
        /\ g # "drop" => Stoppable(t.s)
    BY VerdictType
  <2> HIDE DEF R, g
  <2> QED
    BY <1>2, <1>3, <1>5, <2>1, <2>2, GateKeeps
<1>6. CASE tasks' = (tasks \ {t}) \cup Redeliveries(t.s) /\ UNCHANGED <<status, wrapped>>
  <2>1. /\ Redeliveries(t.s) \in SUBSET Task
        /\ \A u \in Redeliveries(t.s) : u.pc \notin FinPC
    BY RedeliveriesType, Types DEF Task
  <2>2. tasks' \in SUBSET Task /\ Latched(tasks', status, emitted, life)
    BY <1>6, <2>1, Quiet
  <2> QED
    BY <1>2, <1>3, <1>6, <2>2, Still
<1> QED
  BY <1>1, <1>4, <1>5, <1>6

\* A coroutine that ends.
LEMMA Ends ==
    ASSUME IInv, NEW t, tasks' = tasks \ {t},
           UNCHANGED <<status, wrapped, emitted, life>>
    PROVE  Kept
<1>1. tasks' \in SUBSET Task /\ Latched(tasks', status, emitted, life)
  BY LatchedSubset, Types DEF IInv
<1> QED
  BY <1>1, Still

\* The return of _mark_waiting's broadcast touches nothing.
LEMMA WaitPushKeeps ==
    ASSUME IInv, NEW t \in tasks, WaitPush(t)
    PROVE  Kept /\ Rest'
<1>1. Rest' /\ UNCHANGED <<status, wrapped, emitted, life>> /\ tasks' = tasks \ {t}
  BY Types DEF Rest, WaitPush, registries, queues, history
<1> QED
  BY <1>1, Ends

----------------------------------------------------------------------------
(* Finalizing and reporting.                                               *)

\* The finalizer whose report is ready finds its session alive and patches it.
LEMMA FinReportKeeps ==
    ASSUME IInv, NEW t \in tasks, FinReport(t)
    PROVE  Kept /\ Rest'
<1>1. Rest'
  BY Types DEF Rest, FinReport, registries, queues, history
<1> DEFINE u == [t EXCEPT !.pc = "push"]
<1>2. u \in Task /\ u.pc = "push" /\ u.s = t.s /\ u.res = t.res
  BY Types DEF Task, PC
<1>3. /\ tasks' = (tasks \ {t}) \cup {u}
      /\ status' = [status EXCEPT ![t.s] = "done"]
      /\ UNCHANGED <<wrapped, emitted, life>>
      /\ t.pc = "report"
  BY DEF FinReport, history
<1> HIDE DEF u
<1>4. /\ t.s \in Subagent /\ t.s \in Session /\ status[t.s] \in Live
      /\ \A x \in tasks : x.pc \in FinPC /\ x.s = t.s => x = t
  BY <1>3, Types DEF IInv, Latched, FinPC
<1>5. /\ status'[t.s] = "done"
      /\ \A c \in Session : c # t.s => status'[c] = status[c]
  BY <1>3, <1>4, Types
<1>6. /\ emitted[t.s] <= life[t.s]
      /\ emitted[t.s] \in Nat /\ life[t.s] \in Nat
  BY <1>4, Types DEF IInv, Counted, Over, Live, Rest
<1>7. Counted(status', emitted, life)
  BY <1>5, <1>6 DEF IInv, Counted, Over, Subagent
<1>8. RootMain(status')
  BY <1>4, <1>5, TreeAssumption DEF IInv, RootMain, Subagent
<1>9. Latched(tasks', status', emitted, life)
  <2>1. Latched(tasks, status, emitted, life)
    BY DEF IInv
  <2>2. emitted[t.s] < life[t.s] + Over(status'[t.s])
    BY <1>5, <1>6 DEF Over
  <2>3. \A x \in tasks \ {t} : x.pc \in FinPC => x.s # t.s
    BY <1>4
  <2>4. \A x \in tasks \ {t} : x.pc \in FinPC =>
          x.s \in Subagent /\ status'[x.s] = status[x.s]
    BY <1>5, <2>1, <2>3 DEF Latched, Subagent
  <2> QED
    BY <1>2, <1>3, <1>4, <2>1, <2>2, <2>3, <2>4 DEF Latched, FinPC
<1>10. LifecycleStep
  BY <1>3, <1>4, Finishes DEF Terminal
<1>11. tasks' \in SUBSET Task /\ status' \in [Session -> Statuses]
  BY <1>2, <1>3, Types DEF Statuses, Terminal
<1> QED
  BY <1>1, <1>3, <1>7, <1>8, <1>9, <1>10, <1>11, Types DEF Kept

\* The parent of a finalizing session is a session.
LEMMA FinParent ==
    ASSUME IInv, NEW t \in tasks, t.pc \in FinPC
    PROVE  /\ t \in Task /\ t.s \in Subagent /\ t.s \in Session
           /\ Parent[t.s] \in Session
           /\ t.ret \in BackPC
BY Types, TreeAssumption DEF IInv, Latched, Task, BackPC

\* A stopped child wakes a waiting parent (_reevaluate_waiting_parent) and
\* injects no report.
LEMMA FinStoppedKeeps ==
    ASSUME IInv, NEW t \in tasks, FinStopped(t)
    PROVE  Kept /\ Rest'
<1> DEFINE p == Parent[t.s]
           w == WakeTask(p, pending[p] \cup {<<t.s, 0>>}, FALSE)
<1>1. /\ t \in Task /\ t.s \in Session /\ p \in Session /\ t.ret \in BackPC
  BY FinParent DEF FinStopped, FinPC
<1>2. Rest'
  BY <1>1, Types DEF Rest, FinStopped, registries, history
<1>3. w \in Task /\ w.pc = "start"
  <2>1. pending[p] \cup {<<t.s, 0>>} \in SUBSET Token
    BY <1>1, Types DEF Rest, Token
  <2> QED
    BY <1>1, <2>1, WakeTaskType
<1>4. /\ Return(t, t.ret) \in SUBSET Task
      /\ \A u \in Return(t, t.ret) : u.pc \notin FinPC
  BY <1>1, FinTaskType DEF Terminal
<1>5. \/ tasks' = (tasks \ {t}) \cup Return(t, t.ret)
      \/ tasks' = (tasks \ {t}) \cup (Return(t, t.ret) \cup {w})
  BY DEF FinStopped
<1>6. UNCHANGED <<status, wrapped, emitted, life>>
  BY DEF FinStopped, history
<1> HIDE DEF w
<1>7. /\ Return(t, t.ret) \cup {w} \in SUBSET Task
      /\ \A u \in Return(t, t.ret) \cup {w} : u.pc \notin FinPC
  BY <1>3, <1>4 DEF FinPC
<1> QED
  BY <1>2, <1>4, <1>5, <1>6, <1>7, Quiet, Still

\* _inject_result counts a report that was due, and the finalizer is gone.
LEMMA FinInjectKeeps ==
    ASSUME IInv, NEW t \in tasks, FinInject(t)
    PROVE  Kept /\ Rest'
<1> DEFINE p == Parent[t.s]
           tok == <<t.s, emitted[t.s] + 1>>
           f == NewTask("flush", p, "start")
<1>1. /\ t.pc = "push" /\ t.res \in {"done", "failed"} /\ t \in Task
      /\ t.s \in Subagent /\ t.s \in Session /\ p \in Session
      /\ t.ret \in BackPC
  BY FinParent DEF FinInject, FinPC
<1>2. /\ emitted[t.s] \in Nat /\ life[t.s] \in Nat
      /\ emitted \in [Session -> Nat]
      /\ emitted[t.s] < life[t.s] + Over(status[t.s])
      /\ \A x \in tasks : x.pc \in FinPC /\ x.s = t.s => x = t
  BY <1>1, Types DEF IInv, Latched, FinPC, Rest
<1>3. tok \in Token
  BY <1>1, <1>2 DEF Token
<1>4. f \in Task /\ f.pc = "start"
  BY <1>1, NewTaskType DEF Kind, PC
<1>5. /\ Return(t, t.ret) \in SUBSET Task
      /\ \A u \in Return(t, t.ret) : u.pc \notin FinPC
  BY <1>1, FinTaskType DEF Terminal
<1>6. /\ UNCHANGED <<status, wrapped, life, registries, asking, absorbed, cut, left>>
      /\ emitted' = emitted \/ emitted' = [emitted EXCEPT ![t.s] = @ + 1]
  BY DEF FinInject
<1>7. \/ tasks' = (tasks \ {t}) \cup Return(t, t.ret)
      \/ tasks' = (tasks \ {t}) \cup Return(t, t.ret) \cup {f}
  BY DEF FinInject
<1>8. Rest'
  <2>1. stash' \in [Session -> SUBSET SUBSET Token]
    BY <1>1, <1>3, Types DEF Rest, FinInject, queues
  <2>2. pending' \in [Session -> SUBSET Token]
    BY <1>1, <1>3, Types DEF Rest, FinInject, queues
  <2>3. timer' \subseteq Session
    BY <1>1, Types DEF Rest, FinInject, queues
  <2>4. emitted' \in [Session -> Nat]
    BY <1>2, <1>6
  <2> QED
    BY <1>6, <2>1, <2>2, <2>3, <2>4, Types DEF Rest, registries
<1> HIDE DEF f
<1>9. /\ tasks' \in SUBSET Task
      /\ \A u \in tasks' : u \in tasks \ {t} \/ u.pc \notin FinPC
  BY <1>4, <1>5, <1>7, Types DEF FinPC
<1>10. \A c \in Subagent : c # t.s => emitted'[c] = emitted[c]
  BY <1>2, <1>6 DEF Subagent
<1>11. emitted'[t.s] <= emitted[t.s] + 1 /\ emitted'[t.s] \in Nat
  BY <1>1, <1>2, <1>6
<1>12. Over(status[t.s]) \in Nat
  BY DEF Over
<1>13. Latched(tasks', status', emitted', life')
  <2>1. Latched(tasks, status, emitted, life)
    BY DEF IInv
  <2>2. \A x \in tasks \ {t} : x.pc \in FinPC => x.s # t.s
    BY <1>2
  <2> QED
    BY <1>6, <1>9, <1>10, <2>1, <2>2 DEF Latched
<1>14. Counted(status', emitted', life')
  BY <1>2, <1>6, <1>10, <1>11, <1>12 DEF IInv, Counted
<1>15. LifecycleStep
  <2>1. CASE emitted' = emitted
    BY <1>6, <2>1 DEF LifecycleStep
  <2>2. CASE emitted' = [emitted EXCEPT ![t.s] = @ + 1]
    <3>1. emitted[t.s] < Lifecycle!Reportable(t.s)
      BY <1>2 DEF Lifecycle!Reportable, Lifecycle!Reporting, Over
    <3>2. Lifecycle!Report(t.s)
      BY <1>6, <2>2, <3>1 DEF Lifecycle!Report
    <3> QED
      BY <1>1, <3>2 DEF LifecycleStep, Lifecycle!Next, Lifecycle!Subagent, Subagent
  <2> QED
    BY <1>6, <2>1, <2>2
<1> QED
  BY <1>6, <1>8, <1>9, <1>13, <1>14, <1>15, Types DEF Kept, IInv

\* _flush_injections starts at most one wake turn.
LEMMA FlushKeeps ==
    ASSUME IInv, NEW t, NEW p \in Session,
           NEW T, T = tasks \ {t}, NEW ticking \in SUBSET Session,
           Flush(p, T, ticking),
           UNCHANGED <<status, wrapped, registries, asking, history, left>>
    PROVE  Kept /\ Rest'
<1> DEFINE w == WakeTask(p, pending[p], TRUE)
<1>1. w \in Task /\ w.pc = "start"
  BY WakeTaskType, Types DEF Rest
<1>2. tasks' = T \/ tasks' = T \cup {w}
  BY DEF Flush
<1>3. Rest'
  <2>1. \A k \in pending[p] : {k} \in SUBSET Token
    BY Types DEF Rest
  <2>2. {{k} : k \in pending[p]} \in SUBSET SUBSET Token
    BY <2>1
  <2>3. stash' = stash \/ stash' = [stash EXCEPT ![p] = @ \cup {{k} : k \in pending[p]}]
    BY DEF Flush
  <2>4. stash' \in [Session -> SUBSET SUBSET Token]
    BY <2>2, <2>3, Types DEF Rest
  <2>5. timer' \subseteq Session /\ pending' \in [Session -> SUBSET Token]
    BY Types DEF Rest, Flush
  <2> QED
    BY <2>4, <2>5, Types DEF Rest, registries, history
<1>4. UNCHANGED <<status, wrapped, emitted, life>>
  BY DEF history
<1> HIDE DEF w
<1>5. CASE tasks' = T
  BY <1>3, <1>4, <1>5, Ends
<1>6. CASE tasks' = T \cup {w}
  <2>1. w.pc \notin FinPC
    BY <1>1 DEF FinPC
  <2> QED
    BY <1>1, <1>3, <1>4, <1>6, <2>1, GoesOn
<1> QED
  BY <1>2, <1>5, <1>6

\* The immediate flush of _queue_injection.
LEMMA FlushRunKeeps ==
    ASSUME IInv, NEW t \in tasks, FlushRun(t)
    PROVE  Kept /\ Rest'
<1>1. /\ t.s \in Session /\ timer \in SUBSET Session
      /\ Flush(t.s, tasks \ {t}, timer)
      /\ UNCHANGED <<status, wrapped, registries, asking, history, left>>
  BY Types DEF FlushRun, Task, Rest
<1> QED
  BY <1>1, FlushKeeps

\* The delayed flush of _injection_flush_timer.
LEMMA TimerFireKeeps ==
    ASSUME IInv, NEW p \in Session, TimerFire(p)
    PROVE  Kept /\ Rest'
<1> DEFINE none == CHOOSE x : x \notin tasks
<1>1. none \notin tasks /\ tasks = tasks \ {none}
  BY NoSetContainsEverything
<1>2. /\ timer \ {p} \in SUBSET Session
      /\ Flush(p, tasks, timer \ {p})
      /\ UNCHANGED <<status, wrapped, registries, asking, history, left>>
  BY Types DEF TimerFire, Rest
<1> HIDE DEF none
<1> QED
  BY <1>1, <1>2, FlushKeeps

----------------------------------------------------------------------------
(* The wake turn.                                                          *)

\* A wake refused before the turn lock touches nothing.
LEMMA WakeRefusedKeeps ==
    ASSUME IInv, NEW t \in tasks, WakeRefused(t)
    PROVE  Kept /\ Rest'
<1>1. Rest' /\ UNCHANGED <<status, wrapped, emitted, life>> /\ tasks' = tasks \ {t}
  BY Types DEF Rest, WakeRefused, registries, queues, history
<1> QED
  BY <1>1, Ends

\* The turn that a wake begins is a streaming coroutine.
LEMMA WakeStreamType ==
    ASSUME NEW t \in Task, NEW T, WakeStream(t, T)
    PROVE  \E u \in Task : u.pc = "stream" /\ tasks' = T \cup {u}
<1> DEFINE u == [t EXCEPT !.pc = "stream", !.lk = TRUE, !.evt = "reg",
                          !.sev = "reg", !.toks = {}]
<1>1. u \in Task /\ u.pc = "stream"
  BY DEF Task, PC, Event
<1>2. tasks' = T \cup {u}
  BY DEF WakeStream
<1> HIDE DEF u
<1> QED
  BY <1>1, <1>2

\* A wake turn under the lock moves a meta only from waiting to running.
LEMMA WakeEnterKeeps ==
    ASSUME IInv, NEW t \in tasks, WakeEnter(t)
    PROVE  Kept /\ Rest'
<1>1. /\ t \in Task /\ t.s \in Session /\ t.toks \in SUBSET Token
      /\ UNCHANGED <<wrapped, emitted, life>>
  BY Types DEF Task, WakeEnter
<1>2. Rest'
  <2>1. stash' = stash \/ stash' = [stash EXCEPT ![t.s] = @ \cup {t.toks}]
    BY DEF WakeEnter
  <2>2. absorbed' = absorbed \/ absorbed' = [absorbed EXCEPT ![t.s] = @ \cup t.toks]
    BY DEF WakeEnter, WakeStream
  <2>3. stash' \in [Session -> SUBSET SUBSET Token]
    BY <1>1, <2>1, Types DEF Rest
  <2>4. absorbed' \in [Session -> SUBSET Token]
    BY <1>1, <2>2, Types DEF Rest
  <2>5. armed' \in [Session -> {"none", "clear", "set"}]
    BY Types DEF Rest, WakeEnter, WakeStream, Arm, Disarm
  <2>6. asking' \in [Session -> BOOLEAN] /\ running' \in [Session -> {"none", "own", "ws"}]
    BY Types DEF Rest, WakeEnter, WakeStream
  <2> QED
    BY <2>3, <2>4, <2>5, <2>6, Types DEF Rest, WakeEnter
<1> DEFINE f == [t EXCEPT !.pc = "flip", !.lk = TRUE]
<1>3. \/ tasks' = tasks \ {t} /\ UNCHANGED status
      \/ tasks' = Detach(tasks \ {t}, t.s) /\ UNCHANGED status
      \/ WakeStream(t, tasks \ {t}) /\ UNCHANGED status
      \/ /\ tasks' = (tasks \ {t}) \cup {f}
         /\ status[t.s] = "waiting" /\ status' = [status EXCEPT ![t.s] = "running"]
  BY Zenon DEF WakeEnter
<1>4. f \in Task /\ f.pc = "flip"
  BY <1>1 DEF Task, PC
<1> HIDE DEF f
<1>5. CASE tasks' = tasks \ {t} /\ UNCHANGED status
  BY <1>1, <1>2, <1>5, Ends
<1>6. CASE tasks' = Detach(tasks \ {t}, t.s) /\ UNCHANGED status
  BY <1>1, <1>2, <1>6, DetachedRest, Still
<1>7. CASE WakeStream(t, tasks \ {t}) /\ UNCHANGED status
  <2>1. PICK u \in Task : u.pc = "stream" /\ tasks' = (tasks \ {t}) \cup {u}
    BY <1>1, <1>7, WakeStreamType
  <2>2. u.pc \notin FinPC
    BY <2>1 DEF FinPC
  <2> QED
    BY <1>1, <1>2, <1>7, <2>1, <2>2, GoesOn
<1>8. CASE /\ tasks' = (tasks \ {t}) \cup {f}
           /\ status[t.s] = "waiting"
           /\ status' = [status EXCEPT ![t.s] = "running"]
  <2>1. t.s \in Subagent
    BY <1>1, <1>8 DEF IInv, RootMain, Subagent
  <2>2. {f} \in SUBSET Task /\ \A u \in {f} : u.pc \notin FinPC
    BY <1>4 DEF FinPC
  <2>3. tasks' \in SUBSET Task /\ Latched(tasks', status, emitted, life)
    BY <1>8, <2>2, Quiet
  <2>4. /\ Latched(tasks', status', emitted, life)
        /\ Counted(status', emitted, life)
        /\ RootMain(status')
    BY <1>8, <2>1, <2>3, LatchedShift, Types DEF IInv, Live
  <2>5. LifecycleStep
    BY <1>1, <1>8, <2>1, Moves
  <2>6. status' \in [Session -> Statuses]
    BY <1>8, Types DEF Statuses, Live
  <2> QED
    BY <1>1, <1>2, <2>3, <2>4, <2>5, <2>6, Types DEF Kept
<1> QED
  BY <1>3, <1>5, <1>6, <1>7, <1>8

\* A wake that finds a stop after its flip finalizes at most once.
LEMMA WakeFlippedKeeps ==
    ASSUME IInv, NEW t \in tasks, WakeFlipped(t)
    PROVE  Kept /\ Rest'
<1>1. /\ t \in Task /\ t.s \in Session /\ t.toks \in SUBSET Token
      /\ UNCHANGED <<wrapped, emitted, life>>
  BY Types DEF Task, WakeFlipped
<1>2. Rest'
  <2>1. absorbed' = absorbed \/ absorbed' = [absorbed EXCEPT ![t.s] = @ \cup t.toks]
    BY DEF WakeFlipped, WakeStream
  <2>2. absorbed' \in [Session -> SUBSET Token]
    BY <1>1, <2>1, Types DEF Rest
  <2>3. armed' \in [Session -> {"none", "clear", "set"}]
    BY Types DEF Rest, WakeFlipped, WakeStream, Arm, Disarm
  <2>4. asking' \in [Session -> BOOLEAN] /\ running' \in [Session -> {"none", "own", "ws"}]
    BY Types DEF Rest, WakeFlipped, WakeStream
  <2> QED
    BY <2>2, <2>3, <2>4, Types DEF Rest, WakeFlipped, queues
<1>3. CASE armed[t.s] = "set"
  <2>1. /\ tasks' = Detach(tasks \ {t}, t.s) \cup
                      IF Stoppable(t.s) THEN FinTask(t, "stopped", "unmark")
                      ELSE Return(t, "unmark")
        /\ status' = IF Stoppable(t.s) THEN FinStatus(t.s, "stopped") ELSE status
    BY <1>3 DEF WakeFlipped
  <2> QED
    BY <1>1, <1>2, <2>1, DetachedRest, StoppedHere DEF BackPC
<1>4. CASE armed[t.s] # "set"
  <2>1. WakeStream(t, tasks \ {t}) /\ UNCHANGED status
    BY <1>4 DEF WakeFlipped
  <2>2. PICK u \in Task : u.pc = "stream" /\ tasks' = (tasks \ {t}) \cup {u}
    BY <1>1, <2>1, WakeStreamType
  <2>3. u.pc \notin FinPC
    BY <2>2 DEF FinPC
  <2> QED
    BY <1>1, <1>2, <2>1, <2>2, <2>3, GoesOn
<1> QED
  BY <1>3, <1>4

\* A refused wake that drops its busy marker touches no meta.
LEMMA UnmarkKeeps ==
    ASSUME IInv, NEW t \in tasks, Unmark(t)
    PROVE  Kept /\ Rest'
<1>1. Rest' /\ UNCHANGED <<status, wrapped, emitted, life>> /\ tasks' = tasks \ {t}
  BY Types DEF Rest, Unmark, queues, history
<1> QED
  BY <1>1, Ends

----------------------------------------------------------------------------
(* The user.                                                               *)

\* A socket turn takes the place of the one in _TURN_TASKS.
LEMMA Listed ==
    ASSUME IInv, NEW S \in SUBSET tasks, NEW s \in Session,
           NEW n \in Task, n.pc = "queued",
           tasks' = Unlist(S, s) \cup {n},
           UNCHANGED <<status, wrapped, emitted, life>>
    PROVE  Kept
<1>1. S \in SUBSET Task /\ Latched(S, status, emitted, life)
  BY LatchedSubset, Types DEF IInv
<1>2. Unlist(S, s) \in SUBSET Task /\ Latched(Unlist(S, s), status, emitted, life)
  BY <1>1, UnlistType, LatchedUnlist
<1>3. \A u \in {n} : u.pc \notin FinPC
  BY DEF FinPC
<1>4. Latched(tasks', status, emitted, life)
  BY <1>2, <1>3, LatchedQuiet
<1> QED
  BY <1>2, <1>4, Still

\* The record of a socket turn that waits for the turn lock.
LEMMA SocketTask ==
    ASSUME NEW kind \in WsKind, NEW s \in Session
    PROVE  LET n == [NewTask(kind, s, "queued") EXCEPT !.evt = "reg", !.listed = TRUE]
           IN  n \in Task /\ n.pc = "queued"
<1>1. /\ NewTask(kind, s, "queued") \in Task
      /\ NewTask(kind, s, "queued").pc = "queued"
  BY NewTaskType DEF Kind, PC
<1> QED
  BY <1>1 DEF Task, Event

\* A user message (the invoke handler of ws.py) touches no meta.
LEMMA InvokeKeeps ==
    ASSUME IInv, NEW s \in Session, Invoke(s)
    PROVE  Kept /\ Rest'
<1> DEFINE n == [NewTask("invoke", s, "queued") EXCEPT !.evt = "reg", !.listed = TRUE]
<1>1. Rest'
  BY Types DEF Rest, Invoke, Arm, Take, queues, history
<1>2. n \in Task /\ n.pc = "queued"
  BY SocketTask DEF WsKind
<1>3. tasks' = Unlist(tasks, s) \cup {n} /\ UNCHANGED <<status, wrapped, emitted, life>>
  BY DEF Invoke, history
<1> HIDE DEF n
<1> QED
  BY <1>1, <1>2, <1>3, Listed

\* The answer to a question (resume_pending_interrupt) touches no meta.
LEMMA AnswerKeeps ==
    ASSUME IInv, NEW s \in Session, Answer(s)
    PROVE  Kept /\ Rest'
<1> DEFINE n == [NewTask("resume", s, "queued") EXCEPT !.evt = "reg", !.listed = TRUE]
<1>1. Rest'
  BY Types DEF Rest, Answer, Arm, queues, history
<1>2. n \in Task /\ n.pc = "queued"
  BY SocketTask DEF WsKind
<1>3. tasks' = Unlist(tasks, s) \cup {n} /\ UNCHANGED <<status, wrapped, emitted, life>>
  BY DEF Answer, history
<1> HIDE DEF n
<1> QED
  BY <1>1, <1>2, <1>3, Listed

\* The stop button only starts the coroutines that stop.
LEMMA StopKeeps ==
    ASSUME IInv, NEW s \in Session, Stop(s)
    PROVE  Kept /\ Rest'
<1> DEFINE N == {NewTask("cascade", s, "start"), NewTask("stopif", s, "start"),
                 NewTask("heal", s, "heal")}
<1>1. Rest' /\ UNCHANGED <<status, wrapped, emitted, life>>
  BY Types DEF Rest, Stop, Take, queues, history
<1>2. N \in SUBSET Task /\ \A u \in N : u.pc \notin FinPC
  BY NewTaskType DEF Kind, PC, FinPC
<1>3. tasks \subseteq tasks' /\ tasks' \subseteq tasks \cup N
  BY DEF Stop
<1> HIDE DEF N
<1>4. Latched(tasks \cup N, status, emitted, life)
  BY <1>2, LatchedQuiet DEF IInv
<1>5. tasks' \in SUBSET Task /\ Latched(tasks', status, emitted, life)
  BY <1>2, <1>3, <1>4, LatchedSubset, Types
<1> QED
  BY <1>1, <1>5, Still

\* A retry (revive_failed_for_retry) begins a new life of a failed subagent.
LEMMA RetryKeeps ==
    ASSUME IInv, NEW s \in Session, Retry(s)
    PROVE  Kept /\ Rest'
<1> DEFINE n == NewTask("retry", s, "rpush")
<1>1. n \in Task /\ n.pc = "rpush"
  BY NewTaskType DEF Kind, WsKind, PC
<1>2. /\ status[s] = "failed" /\ status' = [status EXCEPT ![s] = "running"]
      /\ life' = [life EXCEPT ![s] = @ + 1]
      /\ tasks' = tasks \cup {n}
      /\ UNCHANGED <<wrapped, emitted>>
  BY DEF Retry
<1>3. s \in Subagent
  BY <1>2 DEF IInv, RootMain, Subagent
<1>4. Rest'
  BY Types DEF Rest, Retry, Take, registries, queues
<1> HIDE DEF n
<1>5. /\ status'[s] = "running" /\ life'[s] = life[s] + 1
      /\ life[s] \in Nat /\ emitted[s] \in Nat
      /\ \A c \in Subagent : c # s => status'[c] = status[c] /\ life'[c] = life[c]
  BY <1>2, Types DEF Rest, Subagent
<1>6. /\ Over(status[s]) = 1 /\ Over(status'[s]) = 0
  BY <1>2, <1>5 DEF Over
<1>7. Latched(tasks, status', emitted', life')
  <2>1. Latched(tasks, status, emitted, life)
    BY DEF IInv
  <2>2. \A c \in Subagent : status[c] \in Live => status'[c] \in Live
    BY <1>5 DEF Live
  <2>3. \A c \in Subagent : life'[c] + Over(status'[c]) = life[c] + Over(status[c])
    BY <1>5, <1>6
  <2> QED
    BY <1>2, <2>1, <2>2, <2>3 DEF Latched
<1>8. Counted(status', emitted', life')
  BY <1>2, <1>5, <1>6 DEF IInv, Counted
<1>9. RootMain(status')
  BY <1>2, <1>3, <1>5, TreeAssumption DEF IInv, RootMain, Subagent
<1>10. Latched(tasks', status', emitted', life')
  <2>1. \A u \in {n} : u.pc \notin FinPC
    BY <1>1 DEF FinPC
  <2> QED
    BY <1>2, <1>7, <2>1, LatchedQuiet
<1>11. LifecycleStep
  <2>1. Lifecycle!Revive(s)
    BY <1>2 DEF Lifecycle!Revive
  <2> QED
    BY <1>3, <2>1 DEF LifecycleStep, Lifecycle!Next, Lifecycle!Subagent, Subagent
<1>12. tasks' \in SUBSET Task /\ status' \in [Session -> Statuses]
  BY <1>1, <1>2, Types DEF Statuses, Live
<1> QED
  BY <1>2, <1>4, <1>8, <1>9, <1>10, <1>11, <1>12, Types DEF Kept

\* The revived turn that registers after the broadcast touches no meta.
LEMMA RetryGoKeeps ==
    ASSUME IInv, NEW t \in tasks, RetryGo(t)
    PROVE  Kept /\ Rest'
<1> DEFINE u == [t EXCEPT !.pc = "queued", !.evt = "reg", !.listed = TRUE]
<1>1. Rest'
  BY Types DEF Rest, RetryGo, Arm, queues, history
<1>2. u \in Task /\ u.pc = "queued" /\ t.s \in Session
  BY Types DEF Task, PC, Event
<1>3. /\ tasks' = Unlist(tasks \ {t}, t.s) \cup {u}
      /\ UNCHANGED <<status, wrapped, emitted, life>>
  BY DEF RetryGo, history
<1> HIDE DEF u
<1> QED
  BY <1>1, <1>2, <1>3, Listed

----------------------------------------------------------------------------
(* Stopping.                                                               *)

\* on_stop_if_waiting finalizes a waiting session at most once.
LEMMA StopIfWaitingKeeps ==
    ASSUME IInv, NEW t \in tasks, StopIfWaiting(t)
    PROVE  Kept /\ Rest'
<1> DEFINE v == [t EXCEPT !.lk = TRUE]
<1>1. Rest' /\ UNCHANGED <<wrapped, emitted, life>>
  BY Types DEF Rest, StopIfWaiting, registries, queues, history
<1>2. v \in Task /\ v.s = t.s /\ t.s \in Session
  BY Types DEF Task
<1>3. \/ tasks' = tasks \ {t} /\ UNCHANGED status
      \/ /\ status[t.s] = "waiting" /\ status' = FinStatus(t.s, "stopped")
         /\ tasks' = (tasks \ {t}) \cup FinTask(v, "stopped", "end")
  BY Zenon DEF StopIfWaiting
<1> HIDE DEF v
<1>4. CASE tasks' = tasks \ {t} /\ UNCHANGED status
  BY <1>1, <1>4, Ends
<1>5. CASE /\ status[t.s] = "waiting" /\ status' = FinStatus(t.s, "stopped")
           /\ tasks' = (tasks \ {t}) \cup FinTask(v, "stopped", "end")
  <2>1. Stoppable(v.s)
    BY <1>2, <1>5 DEF IInv, RootMain, Stoppable, Live
  <2>2. /\ tasks \ {t} \in SUBSET Task
        /\ Latched(tasks \ {t}, status, emitted, life)
        /\ NoFin(tasks, v.s) => NoFin(tasks \ {t}, v.s)
    BY LatchedSubset, Types DEF IInv, NoFin
  <2>3. /\ tasks' = (tasks \ {t}) \cup
                      IF Stoppable(v.s) THEN FinTask(v, "stopped", "end")
                      ELSE Return(v, "end")
        /\ status' = IF Stoppable(v.s) THEN FinStatus(v.s, "stopped") ELSE status
    BY <1>2, <1>5, <2>1
  <2> QED
    BY <1>1, <1>2, <2>2, <2>3, StoppedHere DEF BackPC
<1> QED
  BY <1>3, <1>4, <1>5

\* A cascade visits sessions and sets events.
LEMMA Visits ==
    ASSUME IInv, NEW t \in tasks, NEW S, Signal(S)
    PROVE  /\ ToVisit(t) \in SUBSET Session
           /\ AwaitsAt(t) \subseteq ToVisit(t)
           /\ armed' \in [Session -> {"none", "clear", "set"}]
<1>1. t.todo \in SUBSET Session
  BY Types DEF Task
<1>2. Below(t.s) \in SUBSET Session
  BY Types DEF Below
<1>3. armed' \in [Session -> {"none", "clear", "set"}]
  BY Types DEF Signal, Rest
<1> QED
  BY <1>1, <1>2, <1>3 DEF ToVisit, AwaitsAt

\* The last stretch of stop_subagent_tree only sets events.
LEMMA CascadeEndKeeps ==
    ASSUME IInv, NEW t \in tasks, CascadeEnd(t)
    PROVE  Kept /\ Rest'
<1>1. armed' \in [Session -> {"none", "clear", "set"}]
  BY Visits DEF CascadeEnd
<1>2. Rest' /\ UNCHANGED <<status, wrapped, emitted, life>> /\ tasks' = tasks \ {t}
  BY <1>1, Types DEF Rest, CascadeEnd, queues, history
<1> QED
  BY <1>2, Ends

\* A cascade that meets a parked descendant goes on to heal it.
LEMMA CascadeParkedKeeps ==
    ASSUME IInv, NEW t \in tasks, CascadeParked(t)
    PROVE  Kept /\ Rest'
<1>1. PICK x \in AwaitsAt(t), S \in SUBSET (ToVisit(t) \ AwaitsAt(t)) :
        /\ Signal(S \cup {x})
        /\ parked' = [parked EXCEPT ![x] = FALSE]
        /\ running' = [running EXCEPT ![x] = "none"]
        /\ tasks' = (tasks \ {t}) \cup
             {[t EXCEPT !.s = x, !.pc = "heal", !.todo = ToVisit(t) \ (S \cup {x})]}
  BY Zenon DEF CascadeParked
<1>2. /\ ToVisit(t) \in SUBSET Session /\ x \in Session
      /\ armed' \in [Session -> {"none", "clear", "set"}]
  BY <1>1, Visits
<1>3. Rest' /\ UNCHANGED <<status, wrapped, emitted, life>>
  BY <1>1, <1>2, Types DEF Rest, CascadeParked, queues, history
<1> DEFINE D == ToVisit(t) \ (S \cup {x})
           u == [t EXCEPT !.s = x, !.pc = "heal", !.todo = D]
<1>4. D \in SUBSET Session
  BY <1>2
<1>5. u \in Task /\ u.pc = "heal"
  <2>1. "heal" \in PC /\ t \in Task
    BY Types DEF PC
  <2> HIDE DEF D
  <2> QED
    BY <1>2, <1>4, <2>1 DEF Task
<1>6. tasks' = (tasks \ {t}) \cup {u}
  BY <1>1
<1>7. u.pc \notin FinPC
  BY <1>5 DEF FinPC
<1> HIDE DEF u
<1> QED
  BY <1>3, <1>5, <1>6, <1>7, GoesOn

\* A cascade that meets a live session with no turn finalizes it at most once.
LEMMA CascadeIdleKeeps ==
    ASSUME IInv, NEW t \in tasks, CascadeIdle(t)
    PROVE  Kept /\ Rest'
<1>1. PICK x \in AwaitsAt(t), S \in SUBSET (ToVisit(t) \ AwaitsAt(t)) :
        /\ ~parked[x]
        /\ Signal(S)
        /\ status' = FinStatus(x, "stopped")
        /\ tasks' = (tasks \ {t}) \cup
             FinTask([t EXCEPT !.s = x, !.todo = ToVisit(t) \ (S \cup {x})],
                     "stopped", "walk")
  BY Zenon DEF CascadeIdle
<1>2. /\ ToVisit(t) \in SUBSET Session /\ x \in Session
      /\ armed' \in [Session -> {"none", "clear", "set"}]
  BY <1>1, Visits
<1>3. Rest' /\ UNCHANGED <<wrapped, emitted, life>>
  BY <1>1, <1>2, Types DEF Rest, CascadeIdle, queues, history
<1>4. Stoppable(x)
  BY <1>1, <1>2 DEF AwaitsAt, Idle, Stoppable, IInv, RootMain, Live
<1> DEFINE D == ToVisit(t) \ (S \cup {x})
           v == [t EXCEPT !.s = x, !.todo = D]
<1>5. D \in SUBSET Session
  BY <1>2
<1>6. v \in Task /\ v.s = x
  <2> HIDE DEF D
  <2> QED
    BY <1>2, <1>5, Types DEF Task
<1>7. tasks' = (tasks \ {t}) \cup FinTask(v, "stopped", "walk")
  BY <1>1
<1> HIDE DEF v
<1>8. /\ tasks \ {t} \in SUBSET Task
      /\ Latched(tasks \ {t}, status, emitted, life)
      /\ NoFin(tasks, v.s) => NoFin(tasks \ {t}, v.s)
  BY LatchedSubset, Types DEF IInv, NoFin
<1>9. /\ tasks' = (tasks \ {t}) \cup
                    IF Stoppable(v.s) THEN FinTask(v, "stopped", "walk")
                    ELSE Return(v, "walk")
      /\ status' = IF Stoppable(v.s) THEN FinStatus(v.s, "stopped") ELSE status
  BY <1>1, <1>4, <1>6, <1>7
<1> QED
  BY <1>3, <1>6, <1>8, <1>9, StoppedHere DEF BackPC

\* Healing the checkpoint (_heal_interrupted_turn) touches no meta.
LEMMA HealLockedKeeps ==
    ASSUME IInv, NEW t \in tasks, HealLocked(t)
    PROVE  Kept /\ Rest'
<1> DEFINE u == [t EXCEPT !.pc = "bcast"]
<1>1. Rest' /\ UNCHANGED <<status, wrapped, emitted, life>>
  BY Types DEF Rest, HealLocked, registries, queues, history
<1>2. u \in Task /\ u.pc \notin FinPC
  BY Types DEF Task, PC, FinPC
<1>3. tasks' = (tasks \ {t}) \cup {u}
  BY DEF HealLocked
<1> HIDE DEF u
<1> QED
  BY <1>1, <1>2, <1>3, GoesOn

\* _stop_parked_turn finalizes the session it healed at most once.
LEMMA HealStopKeeps ==
    ASSUME IInv, NEW t \in tasks, HealStop(t)
    PROVE  Kept /\ Rest'
<1>1. Rest' /\ UNCHANGED <<wrapped, emitted, life>> /\ t \in Task
  BY Types DEF Rest, HealStop, Disarm, queues, history
<1>2. CASE Stoppable(t.s)
  <2>1. /\ tasks' = Detach(tasks \ {t}, t.s) \cup
                      IF Stoppable(t.s) THEN FinTask(t, "stopped", "tail")
                      ELSE Return(t, "tail")
        /\ status' = IF Stoppable(t.s) THEN FinStatus(t.s, "stopped") ELSE status
    BY <1>2 DEF HealStop
  <2> QED
    BY <1>1, <2>1, DetachedRest, StoppedHere DEF BackPC
<1>3. CASE ~Stoppable(t.s)
  <2>1. /\ Return(t, "tail") \in SUBSET Task
        /\ \A u \in Return(t, "tail") : u.pc \notin FinPC
    BY <1>1, FinTaskType DEF Terminal, BackPC
  <2>2. tasks' = (tasks \ {t}) \cup Return(t, "tail") /\ UNCHANGED status
    BY <1>3 DEF HealStop
  <2> QED
    BY <1>1, <2>1, <2>2, Quiet, Still
<1> QED
  BY <1>2, <1>3

\* The rest of _stop_parked_turn redelivers the stash.
LEMMA HealTailKeeps ==
    ASSUME IInv, NEW t \in tasks, HealTail(t)
    PROVE  Kept /\ Rest'
<1> DEFINE u == [t EXCEPT !.pc = "walk"]
           N == Redeliveries(t.s) \cup IF t.kind = "cascade" THEN {u} ELSE {}
<1>1. Rest' /\ UNCHANGED <<status, wrapped, emitted, life>>
  BY Types DEF Rest, HealTail, EmptyStash, registries, history
<1>2. u \in Task /\ u.pc \notin FinPC /\ t.s \in Session
  BY Types DEF Task, PC, FinPC
<1>3. tasks' = (tasks \ {t}) \cup N
  BY DEF HealTail
<1> HIDE DEF u
<1>4. N \in SUBSET Task /\ \A x \in N : x.pc \notin FinPC
  BY <1>2, RedeliveriesType, Types
<1> HIDE DEF N
<1>5. tasks' \in SUBSET Task /\ Latched(tasks', status, emitted, life)
  BY <1>3, <1>4, Quiet
<1> QED
  BY <1>1, <1>5, Still

\* A new process stops what the old one left alive (reconcile_orphan_subagents).
LEMMA RestartKeeps ==
    ASSUME IInv, Restart
    PROVE  Kept /\ Rest'
<1>1. Rest' /\ UNCHANGED wrapped
  BY Types DEF Rest, Restart, Take
<1>2. /\ tasks' = {}
      /\ status' = [s \in Session |-> IF status[s] \in Live THEN "stopped"
                                      ELSE status[s]]
      /\ emitted' = [s \in Session |-> 0]
      /\ life' = [s \in Session |-> 0]
  BY DEF Restart
<1>3. tasks' \in SUBSET Task /\ status' \in [Session -> Statuses]
  BY <1>2, Types DEF Statuses, Terminal
<1>4. Latched(tasks', status', emitted', life')
  BY <1>2 DEF Latched
<1>5. Counted(status', emitted', life')
  BY <1>2 DEF Counted, Over, Subagent
<1>6. RootMain(status')
  BY <1>2, TreeAssumption DEF IInv, RootMain, Subagent, Live
<1>7. Lifecycle!Restart
  BY <1>2 DEF Lifecycle!Restart, Lifecycle!Live, Live
<1> QED
  BY <1>1, <1>3, <1>4, <1>5, <1>6, <1>7, Types DEF Kept, LifecycleStep, Lifecycle!Next

----------------------------------------------------------------------------
(* The theorems.                                                           *)

\* IInv holds when the process starts.
LEMMA Initially ==
    ASSUME Init
    PROVE  IInv /\ Lifecycle!Init
<1>1. TypeOK
  BY TreeAssumption DEF Init, TypeOK, Task
<1>2. Latched(tasks, status, emitted, life)
  BY DEF Init, Latched
<1>3. Counted(status, emitted, life)
  BY DEF Init, Counted, Over, Subagent
<1>4. RootMain(status)
  BY TreeAssumption DEF Init, RootMain, Subagent
<1>5. Lifecycle!Init
  BY DEF Init, Lifecycle!Init
<1> QED
  BY <1>1, <1>2, <1>3, <1>4, <1>5 DEF IInv

\* What the event loop does keeps IInv and follows the lifecycle.
LEMMA SystemKeeps ==
    ASSUME IInv, System
    PROVE  Kept /\ Rest'
<1>1. CASE \E t \in tasks : SpawnArm(t) \/ SpawnLaunch(t) \/ RetryGo(t)
  BY <1>1, SpawnArmKeeps, SpawnLaunchKeeps, RetryGoKeeps
<1>2. CASE \E t \in tasks : TurnStep(t)
  BY <1>2, BriefStartKeeps, StartTurnKeeps, AbsorbKeeps, StreamEndKeeps,
     StreamStopKeeps, SegEndKeeps, ParkEndKeeps, SettleKeeps, WaitPushKeeps
  DEF TurnStep
<1>3. CASE \E t \in tasks : ReportStep(t)
  BY <1>3, FinReportKeeps, FinStoppedKeeps, FinInjectKeeps, FlushRunKeeps,
     WakeRefusedKeeps, WakeEnterKeeps, WakeFlippedKeeps, UnmarkKeeps
  DEF ReportStep
<1>4. CASE \E t \in tasks : StopStep(t)
  BY <1>4, StopIfWaitingKeeps, CascadeEndKeeps, CascadeParkedKeeps,
     CascadeIdleKeeps, HealLockedKeeps, HealStopKeeps, HealTailKeeps
  DEF StopStep
<1>5. CASE \E p \in Session : TimerFire(p)
  BY <1>5, TimerFireKeeps
<1> QED
  BY <1>1, <1>2, <1>3, <1>4, <1>5 DEF System

\* So does what happens from outside.
LEMMA OutsideKeeps ==
    ASSUME IInv, Outside
    PROVE  Kept /\ Rest'
<1>1. CASE \E c \in Subagent : SpawnCreate(c)
  BY <1>1, SpawnCreateKeeps
<1>2. CASE \E t \in tasks : \/ AutoRetry(t) \/ Interrupt(t)
                            \/ StreamEnd(t, "error") \/ StreamEnd(t, "recursion")
  BY <1>2, AutoRetryKeeps, InterruptKeeps, StreamEndKeeps
<1>3. CASE \E s \in Session : Invoke(s) \/ Answer(s) \/ Stop(s) \/ Retry(s)
  BY <1>3, InvokeKeeps, AnswerKeeps, StopKeeps, RetryKeeps
<1>4. CASE Restart
  BY <1>4, RestartKeeps
<1> QED
  BY <1>1, <1>2, <1>3, <1>4 DEF Outside

\* Every step keeps IInv and follows the lifecycle.
LEMMA StepKeeps ==
    ASSUME IInv, [Next]_vars
    PROVE  IInv' /\ LifecycleStep
<1>1. CASE Next
  BY <1>1, SystemKeeps, OutsideKeeps, Assemble DEF Next
<1>2. CASE UNCHANGED vars
  BY <1>2 DEF vars, IInv, TypeOK, Latched, Counted, RootMain, LifecycleStep
<1> QED
  BY <1>1, <1>2

\* The inductive invariant: the latch admits one finalizer per session.
THEOREM Inductive == Spec => []IInv
<1>1. Init => IInv
  BY Initially
<1>2. IInv /\ [Next]_vars => IInv'
  BY StepKeeps
<1> QED
  BY <1>1, <1>2, PTL DEF Spec

\* Every variable keeps its type, whatever the tree, the cap and the script.
THEOREM TypeCorrect == Spec => []TypeOK
<1>1. IInv => TypeOK
  BY DEF IInv
<1> QED
  BY <1>1, Inductive, PTL

\* However many gates, wakes, stops and retries race, a subagent reports at
\* most once per life (_FINALIZING, subagent-design.md 5.6).
THEOREM ReportsOnce == Spec => []ReportOnce
<1>1. IInv => ReportOnce
  <2> SUFFICES ASSUME IInv, NEW c \in Subagent
               PROVE  emitted[c] <= life[c] + 1
    BY DEF ReportOnce
  <2>1. emitted[c] \in Nat /\ life[c] \in Nat /\ Over(status[c]) \in {0, 1}
    BY Types DEF Rest, Over
  <2>2. emitted[c] <= life[c] + Over(status[c])
    BY DEF IInv, Counted
  <2> QED
    BY <2>1, <2>2
<1> QED
  BY <1>1, Inductive, PTL

\* The scheduler implements SubagentLifecycle: no coroutine moves a meta or
\* injects a report in any other way, even when it acts on a stale read.
THEOREM Refines == Spec => FollowsLifecycle
<1>1. Init => Lifecycle!Init
  BY Initially
<1>2. IInv /\ [Next]_vars => [Lifecycle!Next]_(Lifecycle!vars)
  BY StepKeeps DEF LifecycleStep, Lifecycle!vars
<1> QED
  BY <1>1, <1>2, Inductive, PTL DEF Spec, FollowsLifecycle, Lifecycle!Spec

\* A step of the lifecycle forgets no session, and a terminal status is left
\* only for a new life.
LEMMA TerminalStep ==
    ASSUME IInv, LifecycleStep, NEW s \in Session
    PROVE  /\ status[s] # "none" => status'[s] # "none"
           /\ s \in Subagent /\ status[s] \in Terminal =>
                \/ status'[s] = status[s]
                \/ (status[s] = "failed" /\ status'[s] = "running"
                      /\ life'[s] = life[s] + 1)
<1> USE DEF Subagent, Live, Terminal
<1>1. s \in Session /\ status \in [Session -> Statuses] /\ life \in [Session -> Nat]
  BY Types DEF Rest
<1>2. CASE UNCHANGED <<status, emitted, life>>
  BY <1>2
<1>3. CASE Lifecycle!Restart
  BY <1>1, <1>3 DEF Lifecycle!Restart, Lifecycle!Live
<1>4. ASSUME NEW r \in Subagent, Lifecycle!Revive(r)
      PROVE  \/ status'[s] = status[s]
             \/ (status[s] = "failed" /\ status'[s] = "running"
                   /\ life'[s] = life[s] + 1)
  BY <1>1, <1>4 DEF Lifecycle!Revive
<1>5. ASSUME NEW r \in Subagent,
             \/ Lifecycle!Create(r) \/ Lifecycle!Wait(r) \/ Lifecycle!Wake(r)
             \/ Lifecycle!Report(r)
             \/ \E res \in {"done", "failed", "stopped"} : Lifecycle!Finish(r, res)
      PROVE  /\ status[s] # "none" => status'[s] # "none"
             /\ status[s] \in Terminal => status'[s] = status[s]
  BY <1>1, <1>5 DEF Lifecycle!Create, Lifecycle!Wait, Lifecycle!Wake,
     Lifecycle!Report, Lifecycle!Finish, Lifecycle!Move, Lifecycle!Live
<1> QED
  BY <1>2, <1>3, <1>4, <1>5 DEF LifecycleStep, Lifecycle!Next, Lifecycle!Subagent

\* A finished session stays finished: only a user's retry of a failure, which
\* begins a new life, moves a terminal status.
THEOREM TerminalStays == Spec => TerminalFinal
<1> DEFINE Final == \A s \in Subagent : status[s] \in Terminal =>
      status'[s] = status[s]
        \/ (status[s] = "failed" /\ status'[s] = "running" /\ life'[s] = life[s] + 1)
<1>1. IInv /\ [Next]_vars => [Final]_vars
  <2> SUFFICES ASSUME IInv, LifecycleStep, NEW s \in Subagent, status[s] \in Terminal
               PROVE  status'[s] = status[s]
                        \/ (status[s] = "failed" /\ status'[s] = "running"
                              /\ life'[s] = life[s] + 1)
    BY StepKeeps
  <2> QED
    BY Types, TerminalStep
<1> QED
  BY <1>1, Inductive, PTL DEF Spec, TerminalFinal

----------------------------------------------------------------------------
(* Where a report is.                                                      *)

Parents == {Parent[c] : c \in Subagent}

\* The user stops and revives only sessions without children: a stop of a
\* parent, or its end and revival, may drop what its children reported.
Undisturbed == \A script \in Scripts : \A p \in Parents :
    <<"stop", p>> \notin script /\ <<"retry", p>> \notin script

\* A coroutine belongs to a session that was created.  One of a parent
\* carries reports only in a wake that has not begun its turn, and a cascade
\* has nobody below it to visit.
Fits(t, st) ==
    /\ st[t.s] # "none"
    /\ t.s \in Parents /\ t.toks # {} =>
         t.kind = "wake" /\ t.pc \in {"start", "flip"}
    /\ t.kind = "cascade" => t.s \notin Parents /\ t.todo = {}

Carried == \A t \in tasks : Fits(t, status)

\* no stop event of a parent is set
Unset == \A p \in Parents : armed[p] # "set"

Rooted ==
    /\ \A p \in timer : status[p] # "none"
    /\ \A s \in Session : parked[s] => status[s] # "none"
    /\ \A c \in Subagent : status[c] # "none" => status[Parent[c]] # "none"

\* the inductive invariant about reports
RInv == Carried /\ Unset /\ Rooted /\ ReportsHeld

\* Held, by its members
Where(p, e) ==
    \/ \E i \in stash[p] : e \in i
    \/ e \in pending[p]
    \/ e \in absorbed[p]
    \/ \E u \in tasks : u.s = p /\ e \in u.toks

\* a step loses nothing a parent can still use
Passed == \A p \in Parents : \A e :
    Where(p, e) => status'[p] \in Terminal \/ Where(p, e)'

\* nobody is forgotten, and only a revival leaves a terminal status
Stays ==
    /\ \A s \in Session : status[s] # "none" => status'[s] # "none"
    /\ \A s \in Subagent : status[s] \in Terminal =>
         status'[s] = status[s] \/ life'[s] = life[s] + 1

Passes == Carried' /\ Unset' /\ Rooted' /\ Passed /\ UNCHANGED <<emitted, life>>

\* Held is where its members are, before a step and after it.
LEMMA HeldWhere ==
    ASSUME NEW p, NEW e
    PROVE  (e \in Held(p) <=> Where(p, e)) /\ (e \in Held(p)' <=> Where(p, e)')
BY DEF Held, Where

\* Every session above another has a child.
LEMMA AboveParents ==
    ASSUME NEW c \in Subagent
    PROVE  Above(c) \subseteq Parents
<1>1. Parent \in [Subagent -> Session] /\ \A s \in Session : s = Root \/ s \in Subagent
  BY TreeAssumption DEF Subagent
<1>2. Parent[c] \in Session /\ Parent[c] \in Parents
  BY <1>1 DEF Parents
<1>3. CASE Parent[c] = Root
  BY <1>2, <1>3 DEF Above
<1>4. CASE Parent[c] # Root
  <2>1. Parent[c] \in Subagent
    BY <1>1, <1>2, <1>4
  <2>2. Parent[Parent[c]] \in Session /\ Parent[Parent[c]] \in Parents
    BY <1>1, <2>1 DEF Parents
  <2>3. Parent[Parent[c]] # Root => Parent[Parent[Parent[c]]] \in Parents
    BY <1>1, <2>2 DEF Parents
  <2> QED
    BY <1>2, <1>4, <2>2, <2>3 DEF Above
<1> QED
  BY <1>3, <1>4

\* A parent is a session.
LEMMA ParentsType == Parents \subseteq Session
BY TreeAssumption DEF Parents

----------------------------------------------------------------------------
(* What goes on from where.                                                *)

Same(u, v) ==
    /\ u.s = v.s /\ u.toks = v.toks
    /\ u.kind = v.kind /\ u.pc = v.pc /\ u.todo = v.todo

\* T is S, coroutine for coroutine, as far as reports are concerned
Follows(T, S) ==
    /\ \A v \in T : \E u \in S : Same(u, v)
    /\ \A u \in S : \E v \in T : Same(u, v)

\* a coroutine v that t goes on as, or leaves behind for its session
Born(v, t) ==
    /\ v.s = t.s /\ v.toks \subseteq t.toks
    /\ v.kind = "cascade" => t.kind = "cascade" /\ v.todo = t.todo

\* t carries no report to a parent
Bare(t) == t.s \in Parents => t.toks = {}

\* no other session's status is written
Only(s) == \A x \in Session : x # s => status'[x] = status[x]

\* What stays as it is goes on.
LEMMA FollowsItself ==
    ASSUME NEW S
    PROVE  Follows(S, S)
BY DEF Follows, Same

\* Popping _TURN_STOP moves no report.
LEMMA DetachFollows ==
    ASSUME NEW S \in SUBSET Task, NEW s
    PROVE  Follows(Detach(S, s), S)
<1> DEFINE d(t) == IF t.s = s THEN [t EXCEPT !.evt = Freeze(@, s),
                                             !.sev = Freeze(@, s)] ELSE t
<1>1. \A t \in S : Same(t, d(t))
  BY DEF Task, Same
<1>2. Detach(S, s) = {d(t) : t \in S}
  BY DEF Detach
<1> HIDE DEF d
<1> QED
  BY <1>1, <1>2 DEF Follows

\* Nor does overwriting the entry in _TURN_TASKS.
LEMMA UnlistFollows ==
    ASSUME NEW S \in SUBSET Task, NEW s
    PROVE  Follows(Unlist(S, s), S)
<1> DEFINE d(t) == IF t.s = s /\ t.kind \in WsKind
                   THEN [t EXCEPT !.listed = FALSE] ELSE t
<1>1. \A t \in S : Same(t, d(t))
  BY DEF Task, Same
<1>2. Unlist(S, s) = {d(t) : t \in S}
  BY DEF Unlist
<1> HIDE DEF d
<1> QED
  BY <1>1, <1>2 DEF Follows

\* Only a wake that has not begun its turn carries reports to a parent.
LEMMA BareTask ==
    ASSUME NEW t, Fits(t, status),
           t.kind # "wake" \/ t.pc \notin {"start", "flip"} \/ t.s \notin Parents
    PROVE  Bare(t)
BY DEF Fits, Bare

\* _finalize_subagent leaves behind what its caller was.
LEMMA FinBorn ==
    ASSUME NEW t \in Task, NEW res, NEW ret
    PROVE  /\ \A v \in FinTask(t, res, ret) : Born(v, t)
           /\ \A v \in Return(t, ret) : Born(v, t)
<1>1. \A v \in Return(t, ret) : Born(v, t)
  BY DEF Return, Born, Task
<1>2. \A v \in FinTask(t, res, ret) : Born(v, t)
  BY <1>1 DEF FinTask, Born, Task
<1> QED
  BY <1>1, <1>2

\* It writes the status of its session.
LEMMA FinOnly ==
    ASSUME IInv, NEW s \in Session, NEW res,
           status' = status \/ status' = FinStatus(s, res)
    PROVE  Only(s)
BY Types DEF FinStatus, Only

\* So does the completion gate.
LEMMA GateBorn ==
    ASSUME IInv, NEW t \in Task, NEW T, NEW g, Gate(t, T, g)
    PROVE  /\ \E N : tasks' = T \cup N /\ \A v \in N : Born(v, t)
           /\ Only(t.s)
<1> DEFINE N == IF g = "drop" THEN {}
         ELSE IF g = "wrap"
              THEN {[NewTask("wrap", t.s, "start") EXCEPT !.evt = "clear"]}
         ELSE IF g = "wait"
              THEN IF status[t.s] = "waiting" THEN {}
                   ELSE {[t EXCEPT !.pc = "wpush"]}
         ELSE FinTask(t, g, "end")
<1>1. tasks' = T \cup N
  BY Zenon DEF Gate
<1>2. Born([NewTask("wrap", t.s, "start") EXCEPT !.evt = "clear"], t)
  BY DEF NewTask, Born
<1>3. Born([t EXCEPT !.pc = "wpush"], t)
  BY DEF Born, Task
<1>4. \A v \in FinTask(t, g, "end") : Born(v, t)
  BY FinBorn
<1>5. \A v \in N : Born(v, t)
  BY <1>2, <1>3, <1>4
<1>6. Only(t.s)
  BY Types DEF Gate, FinStatus, Only, Task
<1> HIDE DEF N
<1> QED
  BY <1>1, <1>5, <1>6

\* And what follows a segment.
LEMMA AfterSegmentBorn ==
    ASSUME IInv, NEW t \in Task, NEW T, NEW out \in {"ok", "error", "recursion"},
           AfterSegment(t, T, out)
    PROVE  /\ \E N : tasks' = T \cup N /\ \A v \in N : Born(v, t)
           /\ Only(t.s)
<1> DEFINE u == [t EXCEPT !.evt = Freeze(@, t.s), !.sev = "none", !.out = out]
           v == [u EXCEPT !.lk = (t.kind = "wake")]
           n == [NewTask("settle", t.s, "start") EXCEPT !.evt = u.evt, !.out = out]
           g == IF WsLive(T, t.s) THEN "drop" ELSE Verdict(t.s, out, u.evt = "set")
<1>1. Born(n, t)
  BY DEF NewTask, Born
<1>2. u \in Task /\ Born(u, t)
  <2>1. Freeze(t.evt, t.s) \in Event
    BY Types DEF Freeze, Task, Event, Rest
  <2> QED
    BY <2>1 DEF Task, Event, Born
<1>3. v \in Task /\ Born(v, u)
  <2>1. (t.kind = "wake") \in BOOLEAN
    OBVIOUS
  <2> QED
    BY <1>2, <2>1 DEF Task, Born
<1>4. \/ tasks' = T \cup {n} /\ status' = status
      \/ Gate(v, T, g)
  <2>1. CASE t.kind \in WsKind
    BY <2>1, Zenon DEF AfterSegment
  <2>2. CASE t.kind \notin WsKind
    BY <2>2, Zenon DEF AfterSegment
  <2> QED
    BY <2>1, <2>2
<1> HIDE DEF u, v, n, g
<1>5. CASE tasks' = T \cup {n} /\ status' = status
  <2>1. PICK N : N = {n}
    OBVIOUS
  <2>2. tasks' = T \cup N /\ \A x \in N : Born(x, t)
    BY <1>1, <1>5, <2>1
  <2> QED
    BY <1>5, <2>2 DEF Only
<1>6. CASE Gate(v, T, g)
  <2>1. PICK N : tasks' = T \cup N /\ \A x \in N : Born(x, v)
    BY <1>3, <1>6, GateBorn
  <2>2. \A x \in N : Born(x, t)
    BY <1>2, <1>3, <2>1 DEF Born
  <2>3. Only(t.s)
    BY <1>2, <1>3, <1>6, GateBorn DEF Born
  <2> QED
    BY <2>1, <2>2, <2>3
<1> QED
  BY <1>4, <1>5, <1>6

----------------------------------------------------------------------------
(* Steps that lose nothing.                                                *)

\* A coroutine that fits goes on fitting.
LEMMA FitsStill ==
    ASSUME IInv, RInv, Stays, NEW T, NEW S \in SUBSET tasks, Follows(T, S)
    PROVE  \A v \in T : Fits(v, status')
<1> SUFFICES ASSUME NEW v \in T PROVE Fits(v, status')
  OBVIOUS
<1>1. PICK u \in S : Same(u, v)
  BY DEF Follows
<1>2. Fits(u, status) /\ u.s \in Session
  BY Types DEF RInv, Carried, Task
<1> QED
  BY <1>1, <1>2 DEF Same, Fits, Stays

\* What a coroutine that carries nothing leaves behind fits.
LEMMA BornFits ==
    ASSUME IInv, RInv, Stays, NEW t \in tasks, Bare(t), NEW N,
           \A v \in N : Born(v, t)
    PROVE  \A v \in N : Fits(v, status')
<1>1. Fits(t, status) /\ t.s \in Session
  BY Types DEF RInv, Carried, Task
<1> QED
  BY <1>1 DEF Born, Bare, Fits, Stays

\* The stash of a session that is reconciled goes into its wakes.
LEMMA RedeliveriesPass ==
    ASSUME NEW s
    PROVE  /\ \A v \in Redeliveries(s) : v.s = s /\ v.kind = "wake" /\ v.pc = "start"
           /\ \A i \in stash[s] : \E v \in Redeliveries(s) : v.s = s /\ v.toks = i
<1>1. \A i : LET w == WakeTask(s, i, FALSE)
             IN  w.s = s /\ w.kind = "wake" /\ w.pc = "start" /\ w.toks = i
  BY DEF WakeTask, NewTask
<1> QED
  BY <1>1 DEF Redeliveries

\* A coroutine that carries nothing goes on, and the stash of its session may
\* be reconciled.
LEMMA GoesBare ==
    ASSUME IInv, RInv, Stays, NEW t \in tasks,
           NEW X \in SUBSET tasks, t \in X, \A x \in X : Bare(x),
           NEW T, Follows(T, tasks \ X),
           NEW R, \/ R = {} /\ stash' = stash
                  \/ R = Redeliveries(t.s) /\ stash' = [stash EXCEPT ![t.s] = {}],
           NEW N, \A v \in N : Born(v, t),
           tasks' = T \cup R \cup N, UNCHANGED <<pending, absorbed>>
    PROVE  Carried' /\ Passed
<1>1. Carried'
  <2>1. \A v \in T : Fits(v, status')
    BY FitsStill
  <2>2. \A v \in N : Fits(v, status')
    BY BornFits
  <2>3. \A v \in R : Fits(v, status')
    <3>1. status'[t.s] # "none"
      BY Types DEF RInv, Carried, Fits, Stays, Task
    <3> QED
      BY <3>1, RedeliveriesPass DEF Fits
  <2> QED
    BY <2>1, <2>2, <2>3 DEF Carried
<1>2. ASSUME NEW p \in Parents, NEW e, Where(p, e)
      PROVE  Where(p, e)'
  <2>1. CASE \E i \in stash[p] : e \in i
    <3>1. CASE p = t.s /\ R = Redeliveries(t.s)
      BY <2>1, <3>1, RedeliveriesPass DEF Where
    <3>2. CASE p # t.s \/ stash' = stash
      <4>1. stash'[p] = stash[p]
        BY <3>2, ParentsType, Types DEF Rest
      <4> QED
        BY <2>1, <4>1 DEF Where
    <3> QED
      BY <3>1, <3>2
  <2>2. CASE e \in pending[p] \/ e \in absorbed[p]
    BY <2>2 DEF Where
  <2>3. CASE \E u \in tasks : u.s = p /\ e \in u.toks
    <3>1. PICK u \in tasks : u.s = p /\ e \in u.toks
      BY <2>3
    <3>2. u \notin X
      BY <3>1 DEF Bare
    <3>3. PICK v \in T : Same(u, v)
      BY <3>2 DEF Follows
    <3> QED
      BY <3>1, <3>3 DEF Same, Where
  <2> QED
    BY <1>2, <2>1, <2>2, <2>3 DEF Where
<1> QED
  BY <1>1, <1>2 DEF Passed

\* Nothing but t changes, which carries nothing.
LEMMA MovesBare ==
    ASSUME IInv, RInv, Stays, NEW t \in tasks, Bare(t),
           NEW N, \A v \in N : Born(v, t),
           \/ tasks' = (tasks \ {t}) \cup N
           \/ \E s : tasks' = Detach(tasks \ {t}, s) \cup N,
           UNCHANGED <<stash, pending, absorbed>>
    PROVE  Carried' /\ Passed
<1>1. tasks \ {t} \in SUBSET Task /\ {t} \in SUBSET tasks /\ \A x \in {t} : Bare(x)
  BY Types
<1>2. PICK T : Follows(T, tasks \ {t}) /\ tasks' = T \cup N
  BY <1>1, FollowsItself, DetachFollows
<1>3. PICK R : R = {}
  OBVIOUS
<1>4. tasks' = T \cup R \cup N
  BY <1>2, <1>3
<1> QED
  BY <1>1, <1>2, <1>3, <1>4, GoesBare

\* What a created session does to the registries does not unsettle them.
LEMMA RootedStill ==
    ASSUME IInv, RInv, Stays, NEW x \in Session, status[x] # "none", Only(x),
           \A s \in timer' : s \in timer \/ (s \in Session /\ status[s] # "none"),
           \A s \in Session : parked'[s] => parked[s] \/ status[s] # "none"
    PROVE  Rooted'
<1>1. timer \subseteq Session /\ Subagent \subseteq Session
      /\ \A c \in Subagent : Parent[c] \in Session
  BY Types, TreeAssumption DEF Rest
<1>2. \A p \in timer' : status'[p] # "none"
  BY <1>1 DEF RInv, Rooted, Stays
<1>3. \A s \in Session : parked'[s] => status'[s] # "none"
  BY DEF RInv, Rooted, Stays
<1>4. \A c \in Subagent : status'[c] # "none" => status'[Parent[c]] # "none"
  BY <1>1 DEF RInv, Rooted, Stays, Only
<1> QED
  BY <1>2, <1>3, <1>4 DEF Rooted

\* What the invariants say of a coroutine in flight.
LEMMA TaskHere ==
    ASSUME IInv, RInv, NEW t \in tasks
    PROVE  /\ t \in Task /\ t.s \in Session /\ status[t.s] # "none"
           /\ Fits(t, status)
           /\ t.kind # "wake" \/ t.pc \notin {"start", "flip"} => Bare(t)
BY Types, BareTask DEF RInv, Carried, Fits, Task

\* Arming and disarming sets no event.
LEMMA UnsetStill ==
    ASSUME IInv, RInv, NEW s, armed' = armed \/ Arm(s) \/ Disarm(s)
    PROVE  Unset'
BY Types, ParentsType DEF RInv, Unset, Arm, Disarm, Rest

\* A step of t alone, which carries nothing, and of its session's registries.
LEMMA Ordinary ==
    ASSUME IInv, RInv, Stays, NEW t \in tasks, Bare(t),
           NEW N, \A v \in N : Born(v, t),
           \/ tasks' = (tasks \ {t}) \cup N
           \/ \E s : tasks' = Detach(tasks \ {t}, s) \cup N,
           UNCHANGED <<stash, pending, timer, absorbed, emitted, life>>,
           armed' = armed \/ Arm(t.s) \/ Disarm(t.s), Only(t.s),
           \A s \in Session : parked'[s] => parked[s] \/ s = t.s
    PROVE  Passes
<1>1. Carried' /\ Passed
  BY MovesBare
<1>2. Unset'
  BY UnsetStill
<1>3. \A s \in timer' : s \in timer
  OBVIOUS
<1>4. Rooted'
  BY <1>3, TaskHere, RootedStill
<1> QED
  BY <1>1, <1>2, <1>4 DEF Passes

\* A coroutine that carries nothing and goes on as u.
LEMMA OrdinaryOne ==
    ASSUME IInv, RInv, Stays, NEW t \in tasks, Bare(t),
           NEW u, Born(u, t), tasks' = (tasks \ {t}) \cup {u},
           UNCHANGED <<stash, pending, timer, absorbed, emitted, life>>,
           armed' = armed \/ Arm(t.s) \/ Disarm(t.s), Only(t.s),
           \A s \in Session : parked'[s] => parked[s] \/ s = t.s
    PROVE  Passes
<1>1. PICK N : N = {u}
  OBVIOUS
<1>2. tasks' = (tasks \ {t}) \cup N /\ \A v \in N : Born(v, t)
  BY <1>1
<1> QED
  BY <1>2, Ordinary

\* A coroutine that carries nothing and ends.
LEMMA OrdinaryEnd ==
    ASSUME IInv, RInv, Stays, NEW t \in tasks, Bare(t), tasks' = tasks \ {t},
           UNCHANGED <<stash, pending, timer, absorbed, emitted, life>>,
           armed' = armed \/ Arm(t.s) \/ Disarm(t.s), Only(t.s),
           \A s \in Session : parked'[s] => parked[s] \/ s = t.s
    PROVE  Passes
<1>1. PICK N : N = {}
  OBVIOUS
<1>2. tasks' = (tasks \ {t}) \cup N /\ \A v \in N : Born(v, t)
  BY <1>1
<1> QED
  BY <1>2, Ordinary

----------------------------------------------------------------------------
(* The steps of a spawn and of a turn lose nothing.                        *)

\* create_subagent's second stretch carries nothing.
LEMMA SpawnArmPasses ==
    ASSUME IInv, RInv, Stays, NEW t \in tasks, SpawnArm(t)
    PROVE  Passes
<1>1. Bare(t) /\ Born([t EXCEPT !.pc = "armed", !.evt = "reg"], t)
  BY TaskHere DEF SpawnArm, Born, Task
<1> QED
  BY <1>1, OrdinaryOne DEF SpawnArm, queues, history, Only

\* Nor does its last one.
LEMMA SpawnLaunchPasses ==
    ASSUME IInv, RInv, Stays, NEW t \in tasks, SpawnLaunch(t)
    PROVE  Passes
<1>1. Bare(t) /\ Born([t EXCEPT !.pc = "start"], t)
  BY TaskHere DEF SpawnLaunch, Born, Task
<1> QED
  BY <1>1, OrdinaryOne DEF SpawnLaunch, registries, queues, history, Only

\* A brief turn that starts, or is killed, was given no report.
LEMMA BriefStartPasses ==
    ASSUME IInv, RInv, Stays, NEW t \in tasks, BriefStart(t)
    PROVE  Passes
<1>1. Bare(t) /\ t \in Task /\ t.s \in Session
  BY TaskHere DEF BriefStart
<1>2. CASE IsSet(t, t.evt)
  <2>1. PICK N : N = IF Stoppable(t.s) THEN FinTask(t, "stopped", "end") ELSE {}
    OBVIOUS
  <2>2. \A v \in N : Born(v, t)
    BY <1>1, <2>1, FinBorn
  <2>3. tasks' = Detach(tasks \ {t}, t.s) \cup N
    BY <1>2, <2>1 DEF BriefStart
  <2>4. Only(t.s)
    BY <1>1, <1>2, FinOnly DEF BriefStart
  <2> QED
    BY <1>1, <1>2, <2>2, <2>3, <2>4, Ordinary DEF BriefStart, queues, history
<1>3. CASE ~IsSet(t, t.evt)
  <2>1. Born([t EXCEPT !.pc = "queued"], t)
    BY <1>1 DEF Born, Task
  <2> QED
    BY <1>1, <1>3, <2>1, OrdinaryOne DEF BriefStart, queues, history, Only
<1> QED
  BY <1>2, <1>3

\* A turn that takes the lock keeps the stash.
LEMMA StartTurnPasses ==
    ASSUME IInv, RInv, Stays, NEW t \in tasks, StartTurn(t)
    PROVE  Passes
<1>1. Bare(t) /\ Born([t EXCEPT !.pc = "stream", !.lk = TRUE, !.sev = "reg"], t)
  BY TaskHere DEF StartTurn, Born, Task
<1> QED
  BY <1>1, OrdinaryOne DEF StartTurn, queues, history, Only

\* What a superstep drains from the stash it reads.
LEMMA AbsorbPasses ==
    ASSUME IInv, RInv, Stays, NEW t \in tasks, Absorb(t)
    PROVE  Passes
<1>1. tasks' = tasks /\ t.s \in Session /\ status' = status
  BY TaskHere DEF Absorb
<1>2. Carried'
  BY <1>1 DEF RInv, Carried, Fits
<1>3. ASSUME NEW p \in Parents, NEW e, Where(p, e)
      PROVE  Where(p, e)'
  <2>1. CASE p = t.s
    <3>1. absorbed'[p] = absorbed[p] \cup UNION stash[p]
      BY <1>1, <2>1, Types DEF Absorb, Rest
    <3> QED
      BY <1>1, <1>3, <3>1 DEF Where, Absorb
  <2>2. CASE p # t.s
    <3>1. stash'[p] = stash[p] /\ absorbed'[p] = absorbed[p]
      BY <2>2, ParentsType, Types DEF Absorb, EmptyStash, Rest
    <3> QED
      BY <1>1, <1>3, <3>1 DEF Where, Absorb
  <2> QED
    BY <2>1, <2>2
<1>4. Unset' /\ Rooted'
  BY DEF Absorb, registries, RInv, Unset, Rooted
<1> QED
  BY <1>2, <1>3, <1>4 DEF Passes, Passed, Absorb

\* The automatic retry of a model call keeps what the turn has.
LEMMA AutoRetryPasses ==
    ASSUME IInv, RInv, Stays, NEW t \in tasks, AutoRetry(t)
    PROVE  Passes
<1>1. Bare(t) /\ Born([t EXCEPT !.nested = TRUE], t)
  BY TaskHere DEF AutoRetry, Born, Task
<1> QED
  BY <1>1, OrdinaryOne DEF AutoRetry, registries, queues, history, Only

\* So does parking.
LEMMA InterruptPasses ==
    ASSUME IInv, RInv, Stays, NEW t \in tasks, Interrupt(t)
    PROVE  Passes
<1>1. Bare(t) /\ t.s \in Session /\ Born([t EXCEPT !.pc = "drain"], t)
  BY TaskHere DEF Interrupt, Born, Task
<1>2. \A s \in Session : parked'[s] => parked[s] \/ s = t.s
  BY Types DEF Interrupt, Rest
<1> QED
  BY <1>1, <1>2, OrdinaryOne DEF Interrupt, queues, history, Only

\* The end of _mark_waiting drops nothing.
LEMMA WaitPushPasses ==
    ASSUME IInv, RInv, Stays, NEW t \in tasks, WaitPush(t)
    PROVE  Passes
<1>1. Bare(t)
  BY TaskHere DEF WaitPush
<1> QED
  BY <1>1, OrdinaryEnd DEF WaitPush, registries, queues, history, Only

\* A step of t, which carries nothing, that reconciles its session's stash.
LEMMA Reconciled ==
    ASSUME IInv, RInv, Stays, NEW t \in tasks, Bare(t),
           NEW N, \A v \in N : Born(v, t),
           \/ tasks' = ((tasks \ {t}) \cup Redeliveries(t.s)) \cup N
           \/ tasks' = (Detach(tasks \ {t}, t.s) \cup Redeliveries(t.s)) \cup N,
           EmptyStash(t.s),
           UNCHANGED <<pending, timer, absorbed, emitted, life>>,
           armed' = armed \/ Disarm(t.s), Only(t.s),
           \A s \in Session : parked'[s] => parked[s]
    PROVE  Passes
<1>1. tasks \ {t} \in SUBSET Task /\ {t} \in SUBSET tasks /\ \A x \in {t} : Bare(x)
  BY Types
<1>2. PICK R : R = Redeliveries(t.s)
  OBVIOUS
<1>3. PICK T : Follows(T, tasks \ {t}) /\ tasks' = T \cup R \cup N
  BY <1>1, <1>2, FollowsItself, DetachFollows
<1>4. Carried' /\ Passed
  BY <1>1, <1>2, <1>3, GoesBare DEF EmptyStash
<1>5. Unset'
  BY UnsetStill
<1>6. \A s \in timer' : s \in timer
  OBVIOUS
<1>7. Rooted'
  BY <1>6, TaskHere, RootedStill
<1> QED
  BY <1>4, <1>5, <1>7 DEF Passes

\* A segment that ends gives what is in the stash to wakes.
LEMMA StreamEndPasses ==
    ASSUME IInv, RInv, Stays, NEW t \in tasks,
           NEW out \in {"ok", "error", "recursion"}, StreamEnd(t, out)
    PROVE  Passes
<1>1. Bare(t) /\ t \in Task /\ t.s \in Session
  BY TaskHere DEF StreamEnd, Streaming
<1> DEFINE T == Detach(tasks \ {t}, t.s) \cup Redeliveries(t.s)
<1>2. AfterSegment(t, T, out)
  BY DEF StreamEnd
<1>3. PICK N : tasks' = T \cup N /\ \A v \in N : Born(v, t)
  BY <1>1, <1>2, AfterSegmentBorn
<1>4. Only(t.s)
  BY <1>1, <1>2, AfterSegmentBorn
<1>5. \A s \in Session : parked'[s] => parked[s]
  BY <1>1, Types DEF StreamEnd, Rest
<1> QED
  BY <1>1, <1>3, <1>4, <1>5, Reconciled DEF StreamEnd, history

\* A stopped segment leaves the stash to its tail, and the children it cuts
\* off had nothing to report.
LEMMA StreamStopPasses ==
    ASSUME IInv, RInv, Stays, NEW t \in tasks, StreamStop(t)
    PROVE  Passes
<1>1. Bare(t) /\ t \in Task /\ t.s \in Session /\ status[t.s] # "none"
  BY TaskHere DEF StreamStop, Streaming
<1>2. PICK u : u = [t EXCEPT !.evt = Freeze(@, t.s), !.sev = "none"]
  OBVIOUS
<1>3. PICK N : N = IF Stoppable(t.s) THEN FinTask(u, "stopped", "seg")
                   ELSE Return(u, "seg")
  OBVIOUS
<1>4. PICK C \in SUBSET Spawning(t.s) :
        tasks' = Detach(tasks \ ({t} \cup C), t.s) \cup N
  BY <1>2, <1>3, Zenon DEF StreamStop
<1>5. \A v \in N : Born(v, t)
  <2>1. u \in Task /\ Born(u, t)
    <3>1. Freeze(t.evt, t.s) \in Event
      BY <1>1, Types DEF Freeze, Task, Event, Rest
    <3> QED
      BY <1>1, <1>2, <3>1 DEF Task, Event, Born
  <2>2. \A v \in N : Born(v, u)
    BY <1>3, <2>1, FinBorn
  <2> QED
    BY <2>1, <2>2 DEF Born
<1>6. PICK X \in SUBSET tasks : X = {t} \cup C
  BY DEF Spawning
<1>7. \A x \in X : Bare(x)
  <2>1. \A x \in C : x \in tasks /\ x.pc \in {"create", "armed"}
    BY DEF Spawning
  <2>2. \A x \in C : Bare(x)
    BY <2>1, TaskHere
  <2> QED
    BY <1>1, <1>6, <2>2
<1>8. PICK T : T = Detach(tasks \ X, t.s)
  OBVIOUS
<1>9. Follows(T, tasks \ X)
  <2>1. tasks \ X \in SUBSET Task
    BY Types
  <2> QED
    BY <1>8, <2>1, DetachFollows
<1>10. PICK R : R = {}
  OBVIOUS
<1>11. tasks' = T \cup R \cup N
  BY <1>4, <1>6, <1>8, <1>10
<1>12. Carried' /\ Passed
  BY <1>5, <1>6, <1>7, <1>9, <1>10, <1>11, GoesBare DEF StreamStop, queues
<1>13. Only(t.s)
  BY <1>1, FinOnly DEF StreamStop
<1>14. Unset' /\ UNCHANGED <<emitted, life, timer>>
  BY UnsetStill DEF StreamStop, queues
<1>15. (\A s \in Session : parked'[s] => parked[s]) /\ \A s \in timer' : s \in timer
  BY <1>1, <1>14, Types DEF StreamStop, Rest
<1>16. Rooted'
  BY <1>1, <1>13, <1>15, RootedStill
<1> QED
  BY <1>12, <1>14, <1>16 DEF Passes

\* The tail of a stopped segment reconciles the stash.
LEMMA SegEndPasses ==
    ASSUME IInv, RInv, Stays, NEW t \in tasks, SegEnd(t)
    PROVE  Passes
<1>1. Bare(t) /\ t \in Task /\ t.s \in Session
  BY TaskHere DEF SegEnd
<1> DEFINE T == Detach(tasks \ {t}, t.s) \cup Redeliveries(t.s)
<1>2. \/ tasks' = T /\ UNCHANGED <<status, wrapped>>
      \/ AfterSegment(t, T, "ok")
  BY Zenon DEF SegEnd
<1> HIDE DEF T
<1>3. PICK N : tasks' = T \cup N /\ \A v \in N : Born(v, t)
  <2>1. CASE tasks' = T
    <3>1. PICK N : N = {}
      OBVIOUS
    <3>2. tasks' = T \cup N /\ \A v \in N : Born(v, t)
      BY <2>1, <3>1
    <3> QED
      BY <3>2
  <2>2. CASE AfterSegment(t, T, "ok")
    BY <1>1, <2>2, AfterSegmentBorn
  <2> QED
    BY <1>2, <2>1, <2>2
<1>4. Only(t.s)
  BY <1>1, <1>2, AfterSegmentBorn DEF Only
<1> QED
  BY <1>1, <1>3, <1>4, Reconciled DEF SegEnd, history, T

\* A parked segment that ends keeps the stash, or reconciles it.
LEMMA ParkEndPasses ==
    ASSUME IInv, RInv, Stays, NEW t \in tasks, ParkEnd(t)
    PROVE  Passes
<1>1. Bare(t) /\ t \in Task /\ t.s \in Session
  BY TaskHere DEF ParkEnd
<1> DEFINE T == Detach(tasks \ {t}, t.s)
           R == Detach(tasks \ {t}, t.s) \cup Redeliveries(t.s)
<1>2. \/ tasks' = T /\ UNCHANGED <<status, wrapped, stash>>
      \/ AfterSegment(t, T, "ok") /\ UNCHANGED stash
      \/ AfterSegment(t, R, "ok") /\ EmptyStash(t.s)
  BY Zenon DEF ParkEnd
<1>3. /\ UNCHANGED <<pending, timer, absorbed, emitted, life, parked>>
      /\ Disarm(t.s)
  BY DEF ParkEnd, history
<1> HIDE DEF T, R
<1>4. CASE tasks' = T /\ UNCHANGED <<status, wrapped, stash>>
  <2>1. PICK N : N = {}
    OBVIOUS
  <2>2. tasks' = T \cup N /\ (\A v \in N : Born(v, t)) /\ Only(t.s)
    BY <1>4, <2>1 DEF Only
  <2> QED
    BY <1>1, <1>3, <1>4, <2>2, Ordinary DEF T
<1>5. CASE AfterSegment(t, T, "ok") /\ UNCHANGED stash
  <2>1. (\E N : tasks' = T \cup N /\ \A v \in N : Born(v, t)) /\ Only(t.s)
    BY <1>1, <1>5, AfterSegmentBorn
  <2> QED
    BY <1>1, <1>3, <1>5, <2>1, Ordinary DEF T
<1>6. CASE AfterSegment(t, R, "ok") /\ EmptyStash(t.s)
  <2>1. (\E N : tasks' = R \cup N /\ \A v \in N : Born(v, t)) /\ Only(t.s)
    BY <1>1, <1>6, AfterSegmentBorn
  <2> QED
    BY <1>1, <1>3, <1>6, <2>1, Reconciled DEF R
<1> QED
  BY <1>2, <1>4, <1>5, <1>6

\* The gate of a socket turn reconciles the stash, or leaves it to the turn
\* that keeps the session busy.
LEMMA SettlePasses ==
    ASSUME IInv, RInv, Stays, NEW t \in tasks, Settle(t)
    PROVE  Passes
<1>1. Bare(t) /\ t \in Task /\ t.s \in Session
  BY TaskHere DEF Settle
<1> DEFINE R == Detach(tasks \ {t}, t.s) \cup Redeliveries(t.s)
           g == Verdict(t.s, t.out, t.evt = "set")
<1>2. \/ tasks' = tasks \ {t} /\ UNCHANGED <<status, wrapped, armed, stash>>
      \/ Gate(t, R, g) /\ Disarm(t.s) /\ EmptyStash(t.s)
      \/ /\ tasks' = (tasks \ {t}) \cup Redeliveries(t.s)
         /\ EmptyStash(t.s) /\ UNCHANGED <<status, wrapped, armed>>
  BY Zenon DEF Settle
<1>3. UNCHANGED <<pending, timer, absorbed, emitted, life, parked>>
  BY DEF Settle, history
<1> HIDE DEF R, g
<1>4. CASE tasks' = tasks \ {t} /\ UNCHANGED <<status, wrapped, armed, stash>>
  BY <1>1, <1>3, <1>4, OrdinaryEnd DEF Only
<1>5. CASE Gate(t, R, g) /\ Disarm(t.s) /\ EmptyStash(t.s)
  <2>1. (\E N : tasks' = R \cup N /\ \A v \in N : Born(v, t)) /\ Only(t.s)
    BY <1>1, <1>5, GateBorn
  <2> QED
    BY <1>1, <1>3, <1>5, <2>1, Reconciled DEF R
<1>6. CASE /\ tasks' = (tasks \ {t}) \cup Redeliveries(t.s)
           /\ EmptyStash(t.s) /\ UNCHANGED <<status, wrapped, armed>>
  <2>1. PICK N : N = {}
    OBVIOUS
  <2>2. /\ tasks' = ((tasks \ {t}) \cup Redeliveries(t.s)) \cup N
        /\ \A v \in N : Born(v, t)
    BY <1>6, <2>1
  <2> QED
    BY <1>1, <1>3, <1>6, <2>2, Reconciled DEF Only
<1> QED
  BY <1>2, <1>4, <1>5, <1>6

----------------------------------------------------------------------------
(* Nor do the steps of a report and of a wake.                             *)

\* The finalizer that patches its meta moves no report.
LEMMA FinReportPasses ==
    ASSUME IInv, RInv, Stays, NEW t \in tasks, FinReport(t)
    PROVE  Passes
<1>1. Bare(t) /\ t.s \in Session /\ Born([t EXCEPT !.pc = "push"], t)
  BY TaskHere DEF FinReport, Born, Task
<1>2. Only(t.s)
  BY Types DEF FinReport, Only
<1> QED
  BY <1>1, <1>2, OrdinaryOne DEF FinReport, registries, queues, history

\* What was queued for a waiting parent rides the wake of its stopped child.
LEMMA FinStoppedPasses ==
    ASSUME IInv, RInv, Stays, NEW t \in tasks, FinStopped(t)
    PROVE  Passes
<1>1. Bare(t) /\ t.pc \in FinPC /\ t \in Task
  BY TaskHere DEF FinStopped, FinPC
<1>2. PICK p \in Session : p = Parent[t.s]
  BY <1>1, FinParent
<1>3. t.s \in Subagent /\ status[t.s] # "none" /\ status[p] # "none"
  BY <1>1, <1>2, FinParent, TaskHere DEF RInv, Rooted
<1>4. UNCHANGED <<status, armed, parked, stash, absorbed, emitted, life>>
  BY DEF FinStopped, registries, history
<1>5. PICK N : N = Return(t, t.ret)
  OBVIOUS
<1>6. \A v \in N : Born(v, t)
  BY <1>1, <1>5, FinBorn
<1>7. CASE tasks' = (tasks \ {t}) \cup N /\ UNCHANGED <<pending, timer>>
  BY <1>1, <1>4, <1>6, <1>7, Ordinary DEF Only
<1>8. ASSUME NEW w, w = WakeTask(p, pending[p] \cup {<<t.s, 0>>}, FALSE),
             tasks' = (tasks \ {t}) \cup N \cup {w},
             pending' = [pending EXCEPT ![p] = {}],
             timer' = IF pending[p] = {} THEN timer ELSE timer \ {p}
      PROVE  Passes
  <2>1. /\ w.s = p /\ w.kind = "wake" /\ w.pc = "start"
        /\ pending[p] \subseteq w.toks
    BY <1>8 DEF WakeTask, NewTask
  <2>2. Carried'
    <3>1. \A v \in tasks \ {t} : Fits(v, status')
      BY <1>4 DEF RInv, Carried, Fits
    <3>2. \A v \in N : Fits(v, status')
      BY <1>1, <1>6, BornFits
    <3>3. Fits(w, status')
      BY <1>3, <1>4, <2>1 DEF Fits
    <3> QED
      BY <1>8, <3>1, <3>2, <3>3 DEF Carried
  <2>3. ASSUME NEW q \in Parents, NEW e, Where(q, e)
        PROVE  Where(q, e)'
    <3>1. CASE e \in pending[q]
      <4>1. CASE q = p
        BY <1>8, <2>1, <3>1, <4>1 DEF Where
      <4>2. CASE q # p
        <5>1. pending'[q] = pending[q]
          BY <1>8, <4>2, ParentsType, Types DEF Rest
        <5> QED
          BY <3>1, <5>1 DEF Where
      <4> QED
        BY <4>1, <4>2
    <3>2. CASE \E u \in tasks : u.s = q /\ e \in u.toks
      <4>1. PICK u \in tasks : u.s = q /\ e \in u.toks
        BY <3>2
      <4>2. u # t
        BY <1>1, <4>1 DEF Bare
      <4> QED
        BY <1>8, <4>1, <4>2 DEF Where
    <3>3. CASE (\E i \in stash[q] : e \in i) \/ e \in absorbed[q]
      BY <1>4, <3>3 DEF Where
    <3> QED
      BY <2>3, <3>1, <3>2, <3>3 DEF Where
  <2>4. Unset'
    BY <1>4 DEF RInv, Unset
  <2>5. Rooted'
    BY <1>4, <1>8 DEF RInv, Rooted
  <2> QED
    BY <1>4, <2>2, <2>3, <2>4, <2>5 DEF Passes, Passed
<1>9. PICK w : w = WakeTask(p, pending[p] \cup {<<t.s, 0>>}, FALSE)
  OBVIOUS
<1>10. \/ tasks' = (tasks \ {t}) \cup N /\ UNCHANGED <<pending, timer>>
       \/ /\ tasks' = (tasks \ {t}) \cup N \cup {w}
          /\ pending' = [pending EXCEPT ![p] = {}]
          /\ timer' = IF pending[p] = {} THEN timer ELSE timer \ {p}
  BY <1>2, <1>5, <1>9 DEF FinStopped
<1> QED
  BY <1>7, <1>8, <1>9, <1>10

\* A coroutine that carries nothing ends and leaves N behind, while reports
\* are added to the queues.
LEMMA QueuesGrow ==
    ASSUME IInv, RInv, Stays, NEW t, t \in tasks => Bare(t), NEW N,
           tasks \ {t} \subseteq tasks',
           \A q \in Parents : /\ stash[q] \subseteq stash'[q]
                              /\ pending[q] \subseteq pending'[q]
                              /\ absorbed[q] \subseteq absorbed'[q]
    PROVE  Passed
<1> SUFFICES ASSUME NEW q \in Parents, NEW e, Where(q, e)
             PROVE  Where(q, e)'
  BY DEF Passed
<1>1. CASE (\E i \in stash[q] : e \in i) \/ e \in pending[q] \/ e \in absorbed[q]
  BY <1>1 DEF Where
<1>2. CASE \E u \in tasks : u.s = q /\ e \in u.toks
  <2>1. PICK u \in tasks : u.s = q /\ e \in u.toks
    BY <1>2
  <2>2. u # t
    BY <2>1 DEF Bare
  <2> QED
    BY <2>1, <2>2 DEF Where
<1> QED
  BY <1>1, <1>2 DEF Where

\* What was held and not lost is held, and what a session reports now has to
\* be held as well.
LEMMA ReportsStill ==
    ASSUME IInv, RInv, Stays, Passed, life' = life,
           \A c \in Subagent : \/ emitted'[c] = emitted[c]
                               \/ /\ emitted'[c] = emitted[c] + 1
                                  /\ \A e : e = <<c, emitted'[c]>> =>
                                       Where(Parent[c], e)'
    PROVE  ReportsHeld'
<1> SUFFICES ASSUME NEW c \in Subagent, NEW n \in 1 .. emitted'[c],
                    status'[Parent[c]] \notin Terminal,
                    NEW e, e = <<c, n>>
             PROVE  Where(Parent[c], e)'
  BY HeldWhere DEF ReportsHeld
<1>1. /\ Parent[c] \in Parents /\ Parent[c] \in Session
      /\ emitted[c] \in Nat /\ c \in Session
  BY TreeAssumption, Types DEF Parents, Rest
<1>2. status[Parent[c]] \notin Terminal
  <2>1. CASE Parent[c] = Root
    BY <2>1 DEF IInv, RootMain, Terminal
  <2>2. CASE Parent[c] # Root
    <3>1. Parent[c] \in Subagent /\ life[Parent[c]] \in Nat
      BY <1>1, <2>2, Types DEF Subagent, Rest
    <3>2. life'[Parent[c]] # life[Parent[c]] + 1
      BY <3>1
    <3> QED
      BY <3>1, <3>2 DEF Stays
  <2> QED
    BY <2>1, <2>2
<1>3. CASE n \in 1 .. emitted[c]
  <2>1. Where(Parent[c], e)
    BY <1>2, <1>3, HeldWhere DEF RInv, ReportsHeld
  <2> QED
    BY <1>1, <2>1 DEF Passed
<1>4. CASE n \notin 1 .. emitted[c]
  <2>1. \/ emitted'[c] = emitted[c]
        \/ /\ emitted'[c] = emitted[c] + 1
           /\ e = <<c, emitted'[c]>> => Where(Parent[c], e)'
    OBVIOUS
  <2>2. emitted'[c] = emitted[c] + 1 => n = emitted'[c]
    BY <1>1, <1>4
  <2>3. emitted'[c] # emitted[c]
    BY <1>4
  <2> QED
    BY <2>1, <2>2, <2>3
<1> QED
  BY <1>3, <1>4

\* A step that loses nothing keeps the invariant.
LEMMA PassesHold ==
    ASSUME IInv, RInv, Stays, Passes
    PROVE  RInv'
<1>1. ReportsHeld'
  BY ReportsStill DEF Passes
<1> QED
  BY <1>1 DEF Passes, RInv

\* A report that is injected is stashed or queued at once.
LEMMA FinInjectHolds ==
    ASSUME IInv, RInv, Stays, NEW t \in tasks, FinInject(t)
    PROVE  RInv'
<1>1. Bare(t) /\ t.pc \in FinPC /\ t \in Task
  BY TaskHere DEF FinInject, FinPC
<1>2. PICK p \in Session : p = Parent[t.s]
  BY <1>1, FinParent
<1>3. /\ t.s \in Subagent /\ t.s \in Session /\ status[p] # "none"
      /\ p \in Parents
  BY <1>1, <1>2, FinParent, TaskHere DEF RInv, Rooted, Parents
<1>4. UNCHANGED <<status, armed, parked, absorbed, life>>
  BY DEF FinInject, registries
<1>5. PICK N : N = Return(t, t.ret)
  OBVIOUS
<1>6. \A v \in N : Born(v, t)
  BY <1>1, <1>5, FinBorn
<1>7. PICK f : f = NewTask("flush", p, "start")
  OBVIOUS
<1>8. \/ tasks' = (tasks \ {t}) \cup N
      \/ tasks' = (tasks \ {t}) \cup N \cup {f}
  BY <1>2, <1>5, <1>7 DEF FinInject
<1>9. PICK k : k = <<t.s, emitted[t.s] + 1>>
  OBVIOUS
<1>10. \/ UNCHANGED <<stash, pending, emitted>>
       \/ /\ emitted' = [emitted EXCEPT ![t.s] = @ + 1]
          /\ \/ stash' = [stash EXCEPT ![p] = @ \cup {{k}}] /\ pending' = pending
             \/ pending' = [pending EXCEPT ![p] = @ \cup {k}] /\ stash' = stash
  BY <1>2, <1>9 DEF FinInject, queues
<1>11. \A s \in timer' : s \in timer \/ s = p
  BY <1>2 DEF FinInject, queues
<1>12. Carried'
  <2>1. \A v \in tasks \ {t} : Fits(v, status')
    BY <1>4 DEF RInv, Carried, Fits
  <2>2. \A v \in N : Fits(v, status')
    BY <1>1, <1>6, BornFits
  <2>3. Fits(f, status')
    BY <1>3, <1>4, <1>7 DEF Fits, NewTask
  <2> QED
    BY <1>8, <2>1, <2>2, <2>3 DEF Carried
<1>13. Unset'
  BY <1>4 DEF RInv, Unset
<1>14. Rooted'
  BY <1>3, <1>4, <1>11 DEF RInv, Rooted
<1>15. Passed
  <2>1. \A q \in Parents : stash[q] \subseteq stash'[q] /\ pending[q] \subseteq pending'[q]
    BY <1>10, ParentsType, Types DEF Rest
  <2>2. tasks \ {t} \subseteq tasks'
    BY <1>8
  <2> QED
    BY <1>1, <1>4, <2>1, <2>2, QueuesGrow
<1>16. \A c \in Subagent : \/ emitted'[c] = emitted[c]
                           \/ /\ emitted'[c] = emitted[c] + 1
                              /\ \A e : e = <<c, emitted'[c]>> =>
                                   Where(Parent[c], e)'
  <2>1. CASE emitted' = emitted
    BY <2>1
  <2>2. CASE /\ emitted' = [emitted EXCEPT ![t.s] = @ + 1]
             /\ \/ stash' = [stash EXCEPT ![p] = @ \cup {{k}}]
                \/ pending' = [pending EXCEPT ![p] = @ \cup {k}]
    <3>1. emitted'[t.s] = emitted[t.s] + 1 /\ k = <<t.s, emitted'[t.s]>>
      BY <1>3, <1>9, <2>2, Types DEF Rest
    <3>2. (\E i \in stash'[p] : k \in i) \/ k \in pending'[p]
      <4>1. CASE stash' = [stash EXCEPT ![p] = @ \cup {{k}}]
        <5>1. {k} \in stash'[p] /\ k \in {k}
          BY <4>1, Types DEF Rest
        <5> QED
          BY <5>1
      <4>2. CASE pending' = [pending EXCEPT ![p] = @ \cup {k}]
        BY <4>2, Types DEF Rest
      <4> QED
        BY <2>2, <4>1, <4>2
    <3>3. \A c \in Subagent : c # t.s => emitted'[c] = emitted[c]
      BY <2>2, Types DEF Rest
    <3>4. Where(p, k)'
      BY <3>2 DEF Where
    <3>5. \A e : e = <<t.s, emitted'[t.s]>> => Where(Parent[t.s], e)'
      BY <1>2, <3>1, <3>4
    <3> QED
      BY <3>1, <3>3, <3>5
  <2> QED
    BY <1>10, <2>1, <2>2
<1>17. ReportsHeld'
  BY <1>4, <1>15, <1>16, ReportsStill
<1> QED
  BY <1>12, <1>13, <1>14, <1>17 DEF RInv

\* _flush_injections keeps the queue, stashes it, or gives it to a wake.
LEMMA FlushPasses ==
    ASSUME IInv, RInv, Stays, NEW t, t \in tasks => Bare(t),
           NEW p \in Session, status[p] # "none",
           NEW T, T = tasks \ {t}, NEW ticking \in SUBSET timer,
           Flush(p, T, ticking),
           UNCHANGED <<status, wrapped, registries, asking, history, left>>
    PROVE  Passes
<1>1. UNCHANGED <<status, armed, parked, absorbed, emitted, life>>
  BY DEF registries, history
<1>2. \A s \in timer' : s \in timer \/ s = p
  BY DEF Flush
<1>3. PICK w : w = WakeTask(p, pending[p], TRUE)
  OBVIOUS
<1>4. w.s = p /\ w.kind = "wake" /\ w.pc = "start" /\ w.toks = pending[p]
  BY <1>3 DEF WakeTask, NewTask
<1>5. tasks' = T \/ tasks' = T \cup {w}
  BY <1>3 DEF Flush
<1>6. Carried'
  <2>1. \A v \in T : Fits(v, status')
    BY <1>1 DEF RInv, Carried, Fits
  <2>2. Fits(w, status')
    BY <1>1, <1>4 DEF Fits
  <2> QED
    BY <1>5, <2>1, <2>2 DEF Carried
<1>7. Unset' /\ Rooted'
  BY <1>1, <1>2 DEF RInv, Unset, Rooted
<1>8. ASSUME NEW q \in Parents, NEW e, Where(q, e), status'[q] \notin Terminal
      PROVE  Where(q, e)'
  <2>1. CASE \E i \in stash[q] : e \in i
    <3>1. PICK K : K = {{k} : k \in pending[p]}
      OBVIOUS
    <3>2. stash' = stash \/ stash' = [stash EXCEPT ![p] = @ \cup K]
      BY <3>1 DEF Flush
    <3>3. stash[q] \subseteq stash'[q]
      BY <3>2, ParentsType, Types DEF Rest
    <3> QED
      BY <2>1, <3>3 DEF Where
  <2>2. CASE e \in absorbed[q]
    BY <1>1, <2>2 DEF Where
  <2>3. CASE \E u \in tasks : u.s = q /\ e \in u.toks
    <3>1. PICK u \in tasks : u.s = q /\ e \in u.toks
      BY <2>3
    <3>2. u # t
      BY <3>1 DEF Bare
    <3> QED
      BY <1>5, <3>1, <3>2 DEF Where
  <2>4. CASE e \in pending[q]
    <3>1. CASE pending'[q] = pending[q]
      BY <2>4, <3>1 DEF Where
    <3>2. CASE pending'[q] # pending[q]
      <4>1. q = p /\ ~Waking(p)
        BY <3>2, ParentsType, Types DEF Flush, Rest
      <4>2. status[p] \notin Terminal /\ pending[p] # {}
        BY <1>1, <1>8, <2>4, <4>1
      <4>3. CASE Busy(p)
        <5>1. stash' = [stash EXCEPT ![p] = @ \cup {{k} : k \in pending[p]}]
          BY <4>1, <4>2, <4>3 DEF Flush
        <5>2. {e} \in stash'[p] /\ e \in {e}
          BY <2>4, <4>1, <5>1, Types DEF Rest
        <5> QED
          BY <4>1, <5>2 DEF Where
      <4>4. CASE ~Busy(p)
        <5>1. tasks' = T \cup {w}
          BY <1>3, <4>1, <4>2, <4>4 DEF Flush
        <5> QED
          BY <1>4, <2>4, <4>1, <5>1 DEF Where
      <4> QED
        BY <4>3, <4>4
    <3> QED
      BY <3>1, <3>2
  <2> QED
    BY <1>8, <2>1, <2>2, <2>3, <2>4 DEF Where
<1> QED
  BY <1>1, <1>6, <1>7, <1>8 DEF Passes, Passed

\* The immediate flush of _queue_injection.
LEMMA FlushRunPasses ==
    ASSUME IInv, RInv, Stays, NEW t \in tasks, FlushRun(t)
    PROVE  Passes
<1>1. Bare(t) /\ t.s \in Session /\ status[t.s] # "none"
  BY TaskHere DEF FlushRun
<1> QED
  BY <1>1, FlushPasses DEF FlushRun

\* The delayed flush of _injection_flush_timer.
LEMMA TimerFirePasses ==
    ASSUME IInv, RInv, Stays, NEW p \in Session, TimerFire(p)
    PROVE  Passes
<1>1. PICK none : none \notin tasks
  BY NoSetContainsEverything
<1>2. tasks = tasks \ {none} /\ status[p] # "none" /\ timer \ {p} \in SUBSET timer
  BY <1>1 DEF TimerFire, RInv, Rooted
<1> QED
  BY <1>1, <1>2, FlushPasses DEF TimerFire

\* A wake that is refused before the lock was for a finished session.
LEMMA WakeRefusedPasses ==
    ASSUME IInv, RInv, Stays, NEW t \in tasks, WakeRefused(t)
    PROVE  Passes
<1>1. UNCHANGED <<status, stash, pending, timer, absorbed, emitted, life, armed, parked>>
  BY DEF WakeRefused, registries, queues, history
<1>2. tasks' = tasks \ {t} /\ status[t.s] \in Terminal
  BY DEF WakeRefused
<1>3. Carried' /\ Unset' /\ Rooted'
  BY <1>1, <1>2 DEF RInv, Carried, Unset, Rooted, Fits
<1>4. ASSUME NEW p \in Parents, NEW e, Where(p, e), status'[p] \notin Terminal
      PROVE  Where(p, e)'
  BY <1>1, <1>2, <1>4 DEF Where
<1> QED
  BY <1>1, <1>3, <1>4 DEF Passes, Passed

\* A wake that begins its turn reads what it carries.
LEMMA WakeStreamPasses ==
    ASSUME IInv, RInv, Stays, NEW t \in tasks, WakeStream(t, tasks \ {t}),
           UNCHANGED <<stash, pending, timer, emitted, life, parked>>, Only(t.s)
    PROVE  Passes
<1>1. t \in Task /\ t.s \in Session /\ status[t.s] # "none" /\ Fits(t, status)
  BY TaskHere
<1>2. PICK u : u = [t EXCEPT !.pc = "stream", !.lk = TRUE,
                             !.evt = "reg", !.sev = "reg", !.toks = {}]
  OBVIOUS
<1>3. u.s = t.s /\ u.toks = {} /\ u.kind = t.kind /\ u.todo = t.todo
  BY <1>1, <1>2 DEF Task
<1>4. /\ tasks' = (tasks \ {t}) \cup {u}
      /\ absorbed' = [absorbed EXCEPT ![t.s] = @ \cup t.toks]
  BY <1>2 DEF WakeStream
<1>5. Carried'
  <2>1. \A v \in tasks : Fits(v, status')
    BY FitsStill, FollowsItself
  <2>2. Fits(u, status')
    BY <1>3, <2>1 DEF Fits
  <2> QED
    BY <1>4, <2>1, <2>2 DEF Carried
<1>6. ASSUME NEW p \in Parents, NEW e, Where(p, e)
      PROVE  Where(p, e)'
  <2>1. absorbed[p] \subseteq absorbed'[p] /\ t.toks \subseteq absorbed'[t.s]
    BY <1>1, <1>4, ParentsType, Types DEF Rest
  <2>2. CASE \E x \in tasks : x.s = p /\ e \in x.toks
    <3>1. PICK x \in tasks : x.s = p /\ e \in x.toks
      BY <2>2
    <3>2. CASE x = t
      BY <2>1, <3>1, <3>2 DEF Where
    <3>3. CASE x # t
      BY <1>4, <3>1, <3>3 DEF Where
    <3> QED
      BY <3>2, <3>3
  <2>3. CASE (\E i \in stash[p] : e \in i) \/ e \in pending[p] \/ e \in absorbed[p]
    BY <2>1, <2>3 DEF Where
  <2> QED
    BY <1>6, <2>2, <2>3 DEF Where
<1>7. Unset'
  BY UnsetStill DEF WakeStream
<1>8. (\A s \in timer' : s \in timer) /\ \A s \in Session : parked'[s] => parked[s]
  OBVIOUS
<1>9. Rooted'
  BY <1>1, <1>8, RootedStill
<1> QED
  BY <1>5, <1>6, <1>7, <1>9 DEF Passes, Passed

\* A wake under the lock: refused to a finished session, stashed to a busy
\* one, on its way to its turn, or reading what it carries.
LEMMA WakeEnterPasses ==
    ASSUME IInv, RInv, Stays, NEW t \in tasks, WakeEnter(t)
    PROVE  Passes
<1>1. t \in Task /\ t.s \in Session /\ status[t.s] # "none" /\ Fits(t, status)
  BY TaskHere
<1>2. UNCHANGED <<parked, pending, timer, emitted, life>>
  BY DEF WakeEnter
<1>3. CASE t.s # Root /\ status[t.s] \notin Live
  <2>1. tasks' = tasks \ {t} /\ UNCHANGED <<status, armed, stash, absorbed>>
    BY <1>3 DEF WakeEnter
  <2>2. status[t.s] \in Terminal
    BY <1>1, <1>3, Types DEF IInv, RootMain, Statuses, Subagent
  <2>3. Carried' /\ Unset' /\ Rooted'
    BY <1>2, <2>1 DEF RInv, Carried, Unset, Rooted, Fits
  <2>4. ASSUME NEW p \in Parents, NEW e, Where(p, e), status'[p] \notin Terminal
        PROVE  Where(p, e)'
    BY <1>2, <2>1, <2>2, <2>4 DEF Where
  <2> QED
    BY <1>2, <2>3, <2>4 DEF Passes, Passed
<1>4. CASE ~(t.s # Root /\ status[t.s] \notin Live) /\ armed[t.s] = "set"
  <2>1. Bare(t)
    BY <1>4 DEF RInv, Unset, Bare
  <2>2. /\ tasks' = Detach(tasks \ {t}, t.s)
        /\ Disarm(t.s) /\ UNCHANGED <<status, stash, absorbed>>
    BY <1>4 DEF WakeEnter
  <2>3. PICK N : N = {}
    OBVIOUS
  <2>4. tasks' = Detach(tasks \ {t}, t.s) \cup N /\ \A v \in N : Born(v, t)
    BY <2>2, <2>3
  <2> QED
    BY <1>2, <2>1, <2>2, <2>4, Ordinary DEF Only
<1>5. CASE /\ ~(t.s # Root /\ status[t.s] \notin Live) /\ armed[t.s] # "set"
           /\ Busy(t.s) \/ parked[t.s]
  <2>1. /\ tasks' = tasks \ {t} /\ UNCHANGED <<status, armed, absorbed>>
        /\ stash' = [stash EXCEPT ![t.s] = @ \cup {t.toks}]
    BY <1>5 DEF WakeEnter
  <2>2. Carried' /\ Unset' /\ Rooted'
    BY <1>2, <2>1 DEF RInv, Carried, Unset, Rooted, Fits
  <2>3. ASSUME NEW p \in Parents, NEW e, Where(p, e)
        PROVE  Where(p, e)'
    <3>1. stash[p] \subseteq stash'[p] /\ t.toks \in stash'[t.s]
      BY <1>1, <2>1, ParentsType, Types DEF Rest
    <3>2. CASE \E x \in tasks : x.s = p /\ e \in x.toks
      <4>1. PICK x \in tasks : x.s = p /\ e \in x.toks
        BY <3>2
      <4>2. CASE x = t
        BY <3>1, <4>1, <4>2 DEF Where
      <4>3. CASE x # t
        BY <2>1, <4>1, <4>3 DEF Where
      <4> QED
        BY <4>2, <4>3
    <3>3. CASE (\E i \in stash[p] : e \in i) \/ e \in pending[p] \/ e \in absorbed[p]
      BY <1>2, <2>1, <3>1, <3>3 DEF Where
    <3> QED
      BY <2>3, <3>2, <3>3 DEF Where
  <2> QED
    BY <1>2, <2>2, <2>3 DEF Passes, Passed
<1>6. CASE /\ ~(t.s # Root /\ status[t.s] \notin Live) /\ armed[t.s] # "set"
           /\ ~(Busy(t.s) \/ parked[t.s])
  <2>1. CASE status[t.s] = "waiting"
    <3>1. PICK u : u = [t EXCEPT !.pc = "flip", !.lk = TRUE]
      OBVIOUS
    <3>2. /\ tasks' = (tasks \ {t}) \cup {u}
          /\ status' = [status EXCEPT ![t.s] = "running"]
          /\ UNCHANGED <<armed, stash, absorbed>>
      BY <1>6, <2>1, <3>1 DEF WakeEnter
    <3>3. /\ u.s = t.s /\ u.toks = t.toks /\ u.kind = "wake" /\ u.pc = "flip"
          /\ u.todo = t.todo
      BY <1>1, <3>1 DEF Task, WakeEnter
    <3>4. Carried'
      <4>1. \A v \in tasks : Fits(v, status')
        BY FitsStill, FollowsItself
      <4>2. Fits(u, status')
        BY <3>3, <4>1 DEF Fits
      <4> QED
        BY <3>2, <4>1, <4>2 DEF Carried
    <3>5. ASSUME NEW p \in Parents, NEW e, Where(p, e)
          PROVE  Where(p, e)'
      BY <1>2, <3>2, <3>3, <3>5 DEF Where
    <3>6. Unset'
      BY <3>2 DEF RInv, Unset
    <3>7. Only(t.s) /\ (\A s \in timer' : s \in timer)
          /\ \A s \in Session : parked'[s] => parked[s]
      BY <1>2, <3>2, Types DEF Only
    <3>8. Rooted'
      BY <1>1, <3>7, RootedStill
    <3> QED
      BY <1>2, <3>4, <3>5, <3>6, <3>8 DEF Passes, Passed
  <2>2. CASE status[t.s] # "waiting"
    <3>1. WakeStream(t, tasks \ {t}) /\ UNCHANGED <<status, stash>>
      BY <1>6, <2>2 DEF WakeEnter
    <3> QED
      BY <1>2, <3>1, WakeStreamPasses DEF Only
  <2> QED
    BY <2>1, <2>2
<1> QED
  BY <1>3, <1>4, <1>5, <1>6

\* A wake that has flipped its session reads, as nobody stops a parent.
LEMMA WakeFlippedPasses ==
    ASSUME IInv, RInv, Stays, NEW t \in tasks, WakeFlipped(t)
    PROVE  Passes
<1>1. t \in Task /\ t.s \in Session
  BY TaskHere
<1>2. UNCHANGED <<stash, pending, timer, parked, emitted, life>>
  BY DEF WakeFlipped, queues
<1>3. CASE armed[t.s] = "set"
  <2>1. Bare(t)
    BY <1>3 DEF RInv, Unset, Bare
  <2>2. PICK N : N = IF Stoppable(t.s) THEN FinTask(t, "stopped", "unmark")
                     ELSE Return(t, "unmark")
    OBVIOUS
  <2>3. tasks' = Detach(tasks \ {t}, t.s) \cup N
    BY <1>3, <2>2, Zenon DEF WakeFlipped
  <2>4. Disarm(t.s) /\ absorbed' = absorbed /\ Only(t.s)
    BY <1>1, <1>3, FinOnly DEF WakeFlipped
  <2>5. \A v \in N : Born(v, t)
    BY <1>1, <2>2, FinBorn
  <2> QED
    BY <1>2, <2>1, <2>3, <2>4, <2>5, Ordinary
<1>4. CASE armed[t.s] # "set"
  BY <1>2, <1>4, WakeStreamPasses DEF WakeFlipped, Only
<1> QED
  BY <1>3, <1>4

\* A refused wake that drops its busy marker carries nothing.
LEMMA UnmarkPasses ==
    ASSUME IInv, RInv, Stays, NEW t \in tasks, Unmark(t)
    PROVE  Passes
<1>1. Bare(t)
  BY TaskHere DEF Unmark
<1> QED
  BY <1>1, OrdinaryEnd DEF Unmark, queues, history, Only

----------------------------------------------------------------------------
(* Nor do the steps of the user.                                           *)

\* Coroutines that fit join those in flight, and no queue changes.
LEMMA Joins ==
    ASSUME IInv, RInv, Stays, NEW S \in SUBSET tasks,
           \A t \in tasks \ S : Bare(t),
           NEW T, Follows(T, S), NEW N, \A v \in N : Fits(v, status'),
           tasks' = T \cup N, UNCHANGED <<stash, pending, absorbed>>
    PROVE  Carried' /\ Passed
<1>1. Carried'
  BY FitsStill DEF Carried
<1>2. ASSUME NEW p \in Parents, NEW e, Where(p, e)
      PROVE  Where(p, e)'
  <2>1. CASE \E u \in tasks : u.s = p /\ e \in u.toks
    <3>1. PICK u \in tasks : u.s = p /\ e \in u.toks
      BY <2>1
    <3>2. u \in S
      BY <3>1 DEF Bare
    <3>3. PICK v \in T : Same(u, v)
      BY <3>2 DEF Follows
    <3> QED
      BY <3>1, <3>3 DEF Same, Where
  <2>2. CASE (\E i \in stash[p] : e \in i) \/ e \in pending[p] \/ e \in absorbed[p]
    BY <2>2 DEF Where
  <2> QED
    BY <1>2, <2>1, <2>2 DEF Where
<1> QED
  BY <1>1, <1>2 DEF Passed

\* A coroutine that is created carries nothing.
LEMMA NewFits ==
    ASSUME NEW kind, NEW s, NEW pc, NEW st, st[s] # "none",
           kind = "cascade" => s \notin Parents
    PROVE  Fits(NewTask(kind, s, pc), st)
BY DEF NewTask, Fits

\* A child that is created starts with nothing, under a parent that exists.
LEMMA SpawnCreatePasses ==
    ASSUME IInv, RInv, Stays, NEW c \in Subagent, SpawnCreate(c)
    PROVE  Passes
<1>1. UNCHANGED <<stash, pending, timer, absorbed, emitted, life, armed, parked>>
  BY DEF SpawnCreate, registries, queues, history
<1>2. PICK u : u = NewTask("brief", c, "create")
  OBVIOUS
<1>3. tasks' = tasks \cup {u} /\ status' = [status EXCEPT ![c] = "running"]
  BY <1>2 DEF SpawnCreate
<1>4. c \in Session /\ status'[c] # "none"
  BY <1>3, Types DEF Subagent
<1>5. Carried' /\ Passed
  <2>1. PICK N : N = {u}
    OBVIOUS
  <2>2. Fits(u, status')
    BY <1>2, <1>4, NewFits
  <2>3. tasks' = tasks \cup N /\ \A v \in N : Fits(v, status')
    BY <1>3, <2>1, <2>2
  <2>4. \A t \in tasks \ tasks : Bare(t)
    OBVIOUS
  <2> QED
    BY <1>1, <2>3, <2>4, FollowsItself, Joins
<1>6. Unset'
  BY <1>1 DEF RInv, Unset
<1>7. Rooted'
  <2>1. status[Parent[c]] # "none"
    BY TaskHere DEF SpawnCreate
  <2>2. \A d \in Subagent : Parent[d] \in Session
    BY TreeAssumption
  <2>3. \A d \in Subagent : status'[d] # "none" => d = c \/ status[d] # "none"
    BY <1>3, Types
  <2>4. \A d \in Subagent : status'[d] # "none" => status'[Parent[d]] # "none"
    BY <2>1, <2>2, <2>3 DEF RInv, Rooted, Stays
  <2>5. timer \subseteq Session
    BY Types DEF Rest
  <2> QED
    BY <1>1, <2>4, <2>5 DEF RInv, Rooted, Stays
<1> QED
  BY <1>1, <1>5, <1>6, <1>7 DEF Passes

\* A socket turn takes the place of the one in _TURN_TASKS.
LEMMA ListedPasses ==
    ASSUME IInv, RInv, Stays, NEW s \in Session, status[s] # "none", NEW kind \in WsKind,
           tasks' = Unlist(tasks, s) \cup
             {[NewTask(kind, s, "queued") EXCEPT !.evt = "reg", !.listed = TRUE]},
           UNCHANGED <<status, stash, pending, timer, absorbed, emitted, life>>,
           Arm(s), \A x \in Session : parked'[x] => parked[x]
    PROVE  Passes
<1>1. PICK u : u = [NewTask(kind, s, "queued") EXCEPT !.evt = "reg", !.listed = TRUE]
  OBVIOUS
<1>2. Fits(u, status')
  BY <1>1 DEF NewTask, Fits, WsKind
<1>3. PICK N : N = {u}
  OBVIOUS
<1>4. tasks' = Unlist(tasks, s) \cup N /\ \A v \in N : Fits(v, status')
  BY <1>1, <1>2, <1>3
<1>5. Follows(Unlist(tasks, s), tasks) /\ \A t \in tasks \ tasks : Bare(t)
  BY Types, UnlistFollows
<1>6. Carried' /\ Passed
  BY <1>4, <1>5, Joins
<1>7. Unset'
  BY UnsetStill
<1>8. Rooted'
  BY DEF RInv, Rooted
<1> QED
  BY <1>6, <1>7, <1>8 DEF Passes

\* A user message takes no report away.
LEMMA InvokePasses ==
    ASSUME IInv, RInv, Stays, NEW s \in Session, Invoke(s)
    PROVE  Passes
BY ListedPasses DEF Invoke, WsKind, queues, history

\* Nor does an answer.
LEMMA AnswerPasses ==
    ASSUME IInv, RInv, Stays, NEW s \in Session, Answer(s)
    PROVE  Passes
<1>1. status[s] # "none"
  BY DEF Answer, RInv, Rooted
<1>2. \A x \in Session : parked'[x] => parked[x]
  BY Types DEF Answer, Rest
<1> QED
  BY <1>1, <1>2, ListedPasses DEF Answer, WsKind, queues, history

\* The user leaves the parents alone.
LEMMA LeftAlone ==
    ASSUME Undisturbed, IInv, NEW s, NEW act \in {"stop", "retry"}, Take(act, s)
    PROVE  s \notin Parents
<1>1. PICK script \in Scripts : left \subseteq script
  BY DEF IInv, TypeOK
<1> QED
  BY <1>1 DEF Take, Undisturbed

\* A stop of a session without children leaves its parents' events alone.
LEMMA StopPasses ==
    ASSUME Undisturbed, IInv, RInv, Stays, NEW s \in Session, Stop(s)
    PROVE  Passes
<1>1. s \notin Parents /\ status[s] # "none"
  BY LeftAlone DEF Stop
<1>2. UNCHANGED <<status, stash, pending, timer, absorbed, emitted, life>>
  BY DEF Stop, queues, history
<1>3. PICK B : B = IF s = Root THEN {}
                   ELSE {NewTask("cascade", s, "start"), NewTask("stopif", s, "start")}
  OBVIOUS
<1>4. PICK N : N = IF parked[s] THEN B \cup {NewTask("heal", s, "heal")} ELSE B
  OBVIOUS
<1>5. tasks' = tasks \cup N
  BY <1>3, <1>4 DEF Stop
<1>6. \A v \in N : Fits(v, status')
  <2>1. /\ Fits(NewTask("cascade", s, "start"), status')
        /\ Fits(NewTask("stopif", s, "start"), status')
        /\ Fits(NewTask("heal", s, "heal"), status')
    BY <1>1, <1>2, NewFits
  <2> QED
    BY <1>3, <1>4, <2>1
<1>7. Carried' /\ Passed
  <2>1. \A t \in tasks \ tasks : Bare(t)
    OBVIOUS
  <2> QED
    BY <1>2, <1>5, <1>6, <2>1, FollowsItself, Joins
<1>8. Unset'
  BY <1>1, ParentsType, Types DEF Stop, RInv, Unset, Rest
<1>9. \A x \in Session : parked'[x] => parked[x]
  BY Types DEF Stop, Rest
<1>10. Rooted'
  BY <1>2, <1>9 DEF RInv, Rooted
<1> QED
  BY <1>2, <1>7, <1>8, <1>10 DEF Passes

\* A revived session has no children to report to it.
LEMMA RetryHolds ==
    ASSUME Undisturbed, IInv, RInv, Stays, NEW s \in Session, Retry(s)
    PROVE  RInv'
<1>1. s \notin Parents /\ status[s] = "failed"
  BY LeftAlone DEF Retry
<1>2. UNCHANGED <<stash, pending, timer, absorbed, emitted, armed, parked>>
  BY DEF Retry, registries, queues
<1>3. PICK u : u = NewTask("retry", s, "rpush")
  OBVIOUS
<1>4. tasks' = tasks \cup {u} /\ status' = [status EXCEPT ![s] = "running"]
  BY <1>3 DEF Retry
<1>5. Fits(u, status')
  <2>1. status'[s] # "none"
    BY <1>1 DEF Stays
  <2> QED
    BY <1>3, <2>1, NewFits
<1>6. Carried' /\ Passed
  <2>1. PICK N : N = {u}
    OBVIOUS
  <2>2. tasks' = tasks \cup N /\ \A v \in N : Fits(v, status')
    BY <1>4, <1>5, <2>1
  <2>3. \A t \in tasks \ tasks : Bare(t)
    OBVIOUS
  <2> QED
    BY <1>2, <2>2, <2>3, FollowsItself, Joins
<1>7. Unset'
  BY <1>2 DEF RInv, Unset
<1>8. Rooted'
  <2>1. Only(s) /\ status[s] # "none"
    BY <1>1, <1>4, Types DEF Only
  <2>2. \A x \in timer' : x \in timer
    BY <1>2
  <2> QED
    BY <1>2, <2>1, <2>2, RootedStill
<1>9. ReportsHeld'
  <2> SUFFICES ASSUME NEW c \in Subagent, NEW n \in 1 .. emitted'[c],
                      status'[Parent[c]] \notin Terminal, NEW e, e = <<c, n>>
               PROVE  Where(Parent[c], e)'
    BY HeldWhere DEF ReportsHeld
  <2>1. Parent[c] \in Parents /\ Parent[c] \in Session
    BY TreeAssumption DEF Parents
  <2>2. status'[Parent[c]] = status[Parent[c]]
    BY <1>1, <1>4, <2>1, Types
  <2>3. Where(Parent[c], e)
    BY <1>2, <2>2, HeldWhere DEF RInv, ReportsHeld
  <2> QED
    BY <1>6, <2>1, <2>3 DEF Passed
<1> QED
  BY <1>6, <1>7, <1>8, <1>9 DEF RInv

\* The retry's turn takes its place in the registry.
LEMMA RetryGoPasses ==
    ASSUME IInv, RInv, Stays, NEW t \in tasks, RetryGo(t)
    PROVE  Passes
<1>1. Bare(t) /\ t \in Task /\ t.s \in Session /\ Fits(t, status)
  BY TaskHere DEF RetryGo
<1>2. PICK N : N = {[t EXCEPT !.pc = "queued", !.evt = "reg", !.listed = TRUE]}
  OBVIOUS
<1>3. \A v \in N : Born(v, t)
  BY <1>1, <1>2 DEF Born, Task
<1>4. \A v \in N : Fits(v, status')
  BY <1>1, <1>3, BornFits
<1>5. PICK S \in SUBSET tasks : S = tasks \ {t}
  OBVIOUS
<1>6. Follows(Unlist(S, t.s), S) /\ \A x \in tasks \ S : Bare(x)
  BY <1>1, <1>5, Types, UnlistFollows
<1>7. tasks' = Unlist(S, t.s) \cup N
  BY <1>2, <1>5 DEF RetryGo
<1>8. Carried' /\ Passed
  BY <1>4, <1>6, <1>7, Joins DEF RetryGo, queues, history
<1>9. Unset'
  BY UnsetStill DEF RetryGo
<1>10. Rooted'
  BY DEF RetryGo, queues, RInv, Rooted
<1> QED
  BY <1>8, <1>9, <1>10 DEF Passes, RetryGo, history

----------------------------------------------------------------------------
(* Nor do the steps of a stop, and of a restart.                           *)

\* A stop of a session that waits moves no report.
LEMMA StopIfWaitingPasses ==
    ASSUME IInv, RInv, Stays, NEW t \in tasks, StopIfWaiting(t)
    PROVE  Passes
<1>1. Bare(t) /\ t \in Task /\ t.s \in Session
  BY TaskHere DEF StopIfWaiting
<1>2. UNCHANGED <<armed, parked, stash, pending, timer, absorbed, emitted, life>>
  BY DEF StopIfWaiting, registries, queues, history
<1>3. CASE Busy(t.s) \/ status[t.s] # "waiting"
  BY <1>1, <1>2, <1>3, OrdinaryEnd DEF StopIfWaiting, Only
<1>4. CASE ~(Busy(t.s) \/ status[t.s] # "waiting")
  <2>1. PICK u : u = [t EXCEPT !.lk = TRUE]
    OBVIOUS
  <2>2. u \in Task /\ Born(u, t)
    BY <1>1, <2>1 DEF Task, Born
  <2>3. PICK N : N = FinTask(u, "stopped", "end")
    OBVIOUS
  <2>4. \A v \in N : Born(v, u)
    BY <2>2, <2>3, FinBorn
  <2>5. \A v \in N : Born(v, t)
    BY <2>2, <2>4 DEF Born
  <2>6. tasks' = (tasks \ {t}) \cup N
    BY <1>4, <2>1, <2>3 DEF StopIfWaiting
  <2>7. Only(t.s)
    BY <1>1, <1>4, FinOnly DEF StopIfWaiting
  <2> QED
    BY <1>1, <1>2, <2>5, <2>6, <2>7, Ordinary
<1> QED
  BY <1>3, <1>4

\* A cascade of a session without children has nobody to visit.
LEMMA NoVisits ==
    ASSUME IInv, RInv, NEW t \in tasks, AtCascade(t)
    PROVE  ToVisit(t) = {} /\ AwaitsAt(t) = {} /\ Bare(t)
<1>1. t.s \notin Parents /\ t.todo = {} /\ Bare(t)
  BY TaskHere DEF AtCascade, Fits
<1>2. Below(t.s) = {}
  BY <1>1, AboveParents DEF Below
<1> QED
  BY <1>1, <1>2 DEF ToVisit, AwaitsAt

\* So it sets no event.
LEMMA CascadeEndPasses ==
    ASSUME IInv, RInv, Stays, NEW t \in tasks, CascadeEnd(t)
    PROVE  Passes
<1>1. ToVisit(t) = {} /\ Bare(t)
  BY NoVisits DEF CascadeEnd
<1>2. armed' = armed
  BY <1>1, Types DEF CascadeEnd, Signal, Rest
<1> QED
  BY <1>1, <1>2, OrdinaryEnd DEF CascadeEnd, queues, history, Only

\* And it heals and finalizes nobody.
LEMMA CascadeMeetsNobody ==
    ASSUME IInv, RInv, NEW t \in tasks
    PROVE  ~CascadeParked(t) /\ ~CascadeIdle(t)
BY NoVisits DEF CascadeParked, CascadeIdle

\* Healing a parked turn moves no report.
LEMMA HealLockedPasses ==
    ASSUME IInv, RInv, Stays, NEW t \in tasks, HealLocked(t)
    PROVE  Passes
<1>1. Bare(t) /\ Born([t EXCEPT !.pc = "bcast"], t)
  BY TaskHere DEF HealLocked, Born, Task
<1> QED
  BY <1>1, OrdinaryOne DEF HealLocked, registries, queues, history, Only

\* Nor does finalizing it.
LEMMA HealStopPasses ==
    ASSUME IInv, RInv, Stays, NEW t \in tasks, HealStop(t)
    PROVE  Passes
<1>1. Bare(t) /\ t \in Task /\ t.s \in Session
  BY TaskHere DEF HealStop
<1>2. PICK N : N = IF Stoppable(t.s) THEN FinTask(t, "stopped", "tail")
                   ELSE Return(t, "tail")
  OBVIOUS
<1>3. \A v \in N : Born(v, t)
  BY <1>1, <1>2, FinBorn
<1>4. \/ tasks' = Detach(tasks \ {t}, t.s) \cup N
      \/ tasks' = (tasks \ {t}) \cup N
  BY <1>2 DEF HealStop
<1>5. Only(t.s)
  BY <1>1, FinOnly DEF HealStop
<1> QED
  BY <1>1, <1>3, <1>4, <1>5, Ordinary DEF HealStop, queues, history

\* Its tail gives what is in the stash to wakes.
LEMMA HealTailPasses ==
    ASSUME IInv, RInv, Stays, NEW t \in tasks, HealTail(t)
    PROVE  Passes
<1>1. Bare(t) /\ t \in Task /\ t.s \in Session
  BY TaskHere DEF HealTail
<1>2. PICK N : N = IF t.kind = "cascade" THEN {[t EXCEPT !.pc = "walk"]} ELSE {}
  OBVIOUS
<1>3. \A v \in N : Born(v, t)
  BY <1>1, <1>2 DEF Born, Task
<1>4. tasks' = ((tasks \ {t}) \cup Redeliveries(t.s)) \cup N
  BY <1>2 DEF HealTail
<1> QED
  BY <1>1, <1>3, <1>4, Reconciled DEF HealTail, registries, history, Only

\* After a restart nothing has been reported.
LEMMA RestartHolds ==
    ASSUME IInv, RInv, Stays, Restart
    PROVE  RInv'
<1>1. Carried'
  BY DEF Restart, Carried
<1>2. Unset'
  BY ParentsType DEF Restart, Unset
<1>3. Rooted'
  <2>1. \A s \in Session : (status'[s] # "none" <=> status[s] # "none")
    BY DEF Restart, Live
  <2>2. \A c \in Subagent : c \in Session /\ Parent[c] \in Session
    BY TreeAssumption DEF Subagent
  <2>3. \A s \in Session : ~parked'[s]
    BY DEF Restart
  <2> QED
    BY <2>1, <2>2, <2>3 DEF Restart, RInv, Rooted
<1>4. ReportsHeld'
  <2>1. \A c \in Subagent : emitted'[c] = 0
    BY DEF Restart, Subagent
  <2>2. \A c \in Subagent : 1 .. emitted'[c] = {}
    BY <2>1
  <2> QED
    BY <2>2 DEF ReportsHeld
<1> QED
  BY <1>1, <1>2, <1>3, <1>4 DEF RInv

----------------------------------------------------------------------------
(* The steps together.                                                     *)

\* Initially nothing has been reported.
LEMMA InitiallyHeld ==
    ASSUME Init
    PROVE  RInv
<1>1. \A c \in Subagent : emitted[c] = 0 /\ status[c] = "none"
  BY DEF Init, Subagent
<1>2. \A c \in Subagent : 1 .. emitted[c] = {}
  BY <1>1
<1>3. ReportsHeld
  BY <1>2 DEF ReportsHeld
<1>4. Carried /\ Rooted
  BY <1>1 DEF Init, Carried, Rooted
<1>5. Unset
  BY ParentsType DEF Init, Unset
<1> QED
  BY <1>3, <1>4, <1>5 DEF RInv

\* Every step of the event loop keeps the reports.
LEMMA SystemHolds ==
    ASSUME IInv, RInv, Stays, System
    PROVE  RInv'
<1>1. CASE \E t \in tasks : SpawnArm(t) \/ SpawnLaunch(t) \/ RetryGo(t)
  BY <1>1, SpawnArmPasses, SpawnLaunchPasses, RetryGoPasses, PassesHold
<1>2. CASE \E t \in tasks : TurnStep(t)
  BY <1>2, BriefStartPasses, StartTurnPasses, AbsorbPasses, StreamEndPasses,
     StreamStopPasses, SegEndPasses, ParkEndPasses, SettlePasses, WaitPushPasses,
     PassesHold
  DEF TurnStep
<1>3. CASE \E t \in tasks : ReportStep(t)
  BY <1>3, FinReportPasses, FinStoppedPasses, FinInjectHolds, FlushRunPasses,
     WakeRefusedPasses, WakeEnterPasses, WakeFlippedPasses, UnmarkPasses, PassesHold
  DEF ReportStep
<1>4. CASE \E t \in tasks : StopStep(t)
  BY <1>4, StopIfWaitingPasses, CascadeEndPasses, CascadeMeetsNobody,
     HealLockedPasses, HealStopPasses, HealTailPasses, PassesHold
  DEF StopStep
<1>5. CASE \E p \in Session : TimerFire(p)
  BY <1>5, TimerFirePasses, PassesHold
<1> QED
  BY <1>1, <1>2, <1>3, <1>4, <1>5 DEF System

\* So does what happens from outside, while parents are left alone.
LEMMA OutsideHolds ==
    ASSUME Undisturbed, IInv, RInv, Stays, Outside
    PROVE  RInv'
<1>1. CASE \E c \in Subagent : SpawnCreate(c)
  BY <1>1, SpawnCreatePasses, PassesHold
<1>2. CASE \E t \in tasks : \/ AutoRetry(t) \/ Interrupt(t)
                            \/ StreamEnd(t, "error") \/ StreamEnd(t, "recursion")
  BY <1>2, AutoRetryPasses, InterruptPasses, StreamEndPasses, PassesHold
<1>3. CASE \E s \in Session : Invoke(s) \/ Answer(s) \/ Stop(s) \/ Retry(s)
  BY <1>3, InvokePasses, AnswerPasses, StopPasses, RetryHolds, PassesHold
<1>4. CASE Restart
  BY <1>4, RestartHolds
<1> QED
  BY <1>1, <1>2, <1>3, <1>4 DEF Outside

\* No report is lost, for every tree, cap and script in which the user stops
\* and revives only sessions without children: whatever turns, questions,
\* errors, wakes, flushes, stops of leaves and restarts come together, a
\* report that a child has injected is stashed, queued, on its way or read
\* while its parent can use it (inject.py, reconcile.py).
THEOREM ReportsStayHeld == Undisturbed => (Spec => []ReportsHeld)
<1> SUFFICES ASSUME Undisturbed PROVE Spec => []ReportsHeld
  OBVIOUS
<1>1. Init => RInv
  BY InitiallyHeld
<1>2. IInv /\ RInv /\ [Next]_vars => RInv'
  <2> SUFFICES ASSUME IInv, RInv, [Next]_vars PROVE RInv'
    OBVIOUS
  <2>1. LifecycleStep
    BY StepKeeps
  <2>2. Stays
    BY <2>1, TerminalStep DEF Stays, Subagent
  <2>3. CASE Next
    BY <2>2, <2>3, SystemHolds, OutsideHolds DEF Next
  <2>4. CASE UNCHANGED vars
    <3>1. UNCHANGED <<status, tasks, parked, armed, stash, pending, timer,
                      absorbed, emitted>>
      BY <2>4 DEF vars
    <3>2. Carried' /\ Unset' /\ Rooted'
      BY <3>1 DEF RInv, Carried, Unset, Rooted, Fits
    <3>3. ReportsHeld'
      BY <3>1 DEF RInv, ReportsHeld, Held
    <3> QED
      BY <3>2, <3>3 DEF RInv
  <2> QED
    BY <2>3, <2>4
<1>3. RInv => ReportsHeld
  BY DEF RInv
<1> QED
  BY <1>1, <1>2, <1>3, Inductive, PTL DEF Spec

----------------------------------------------------------------------------
(* One turn of a session at a time.                                        *)

\* v is the coroutine u, but for its stop events and its entry in a registry
Twin(u, v) ==
    /\ u.s = v.s /\ u.kind = v.kind /\ u.pc = v.pc /\ u.lk = v.lk
    /\ u.nested = v.nested /\ u.ret = v.ret /\ u.res = v.res
    /\ u.toks = v.toks /\ u.todo = v.todo /\ (v.listed => u.listed)

\* v holds the events u held, which a pop of the event of s froze
Holds(u, v, D) ==
    /\ v.evt = IF u.s \in D THEN Freeze(u.evt, u.s) ELSE u.evt
    /\ v.sev = IF u.s \in D THEN Freeze(u.sev, u.s) ELSE u.sev

\* A step: the coroutines of X give way to those of N, the others go on, and
\* the events of the sessions of D are popped.
Evolves(X, N, D) == \E f :
    /\ tasks' = {f[u] : u \in tasks \ X} \cup N
    /\ \A u \in tasks \ X : Twin(u, f[u]) /\ Holds(u, f[u], D)

\* t is at an await inside its turn
Holding(t) ==
    \/ t.pc \in {"flip", "stream", "drain", "seg", "unmark"}
    \/ t.pc \in FinPC /\ t.ret \in {"seg", "unmark"}

\* t is not at a turn, and asks for none
Aloof(t) == ~t.lk /\ ~t.nested /\ t.pc \notin {"queued", "rpush"}

\* what is inside its turn holds the turn lock, and nobody else does
Locks ==
    /\ \A t \in tasks : Holding(t) => t.lk
    /\ \A t \in tasks : t.kind = "cascade" => Aloof(t)
    /\ \A t, u \in tasks : t.lk /\ u.lk /\ t.s = u.s => t = u

\* a coroutine of N in place of t respects the lock
Orderly(t, N) ==
    /\ \A v \in N : Holding(v) => v.lk
    /\ \A v \in N : v.kind = "cascade" => Aloof(v)
    /\ \A v \in N : v.lk => v.s = t.s /\ (t.lk \/ ~Locked(t.s))
    /\ \A v, w \in N : v.lk /\ w.lk => v = w

\* Nothing is popped, nothing is rewritten.
LEMMA EvolvesPlain ==
    ASSUME NEW X, NEW N, tasks' = (tasks \ X) \cup N
    PROVE  Evolves(X, N, {})
<1>1. PICK f : f = [u \in tasks \ X |-> u]
  OBVIOUS
<1>2. tasks' = {f[u] : u \in tasks \ X} \cup N
  BY <1>1
<1>3. \A u \in tasks \ X : Twin(u, f[u]) /\ Holds(u, f[u], {})
  BY <1>1 DEF Twin, Holds
<1> QED
  BY <1>2, <1>3 DEF Evolves

\* The event of s is popped.
LEMMA EvolvesDetach ==
    ASSUME IInv, NEW X, NEW N, NEW s,
           tasks' = Detach(tasks \ X, s) \cup N
    PROVE  Evolves(X, N, {s})
<1>1. PICK f : f = [u \in tasks \ X |->
                     IF u.s = s THEN [u EXCEPT !.evt = Freeze(@, s),
                                               !.sev = Freeze(@, s)] ELSE u]
  OBVIOUS
<1>2. tasks' = {f[u] : u \in tasks \ X} \cup N
  BY <1>1 DEF Detach
<1>3. ASSUME NEW u \in tasks \ X
      PROVE  Twin(u, f[u]) /\ Holds(u, f[u], {s})
  <2>1. u \in Task /\ f[u] = IF u.s = s THEN [u EXCEPT !.evt = Freeze(@, s),
                                               !.sev = Freeze(@, s)] ELSE u
    BY <1>1, Types
  <2> QED
    BY <2>1 DEF Task, Twin, Holds
<1> QED
  BY <1>2, <1>3 DEF Evolves

\* An entry of _TURN_TASKS is overwritten.
LEMMA EvolvesUnlist ==
    ASSUME IInv, NEW X, NEW N, NEW s,
           tasks' = Unlist(tasks \ X, s) \cup N
    PROVE  Evolves(X, N, {})
<1>1. PICK f : f = [u \in tasks \ X |->
                     IF u.s = s /\ u.kind \in WsKind
                     THEN [u EXCEPT !.listed = FALSE] ELSE u]
  OBVIOUS
<1>2. tasks' = {f[u] : u \in tasks \ X} \cup N
  BY <1>1 DEF Unlist
<1>3. ASSUME NEW u \in tasks \ X
      PROVE  Twin(u, f[u]) /\ Holds(u, f[u], {})
  <2>1. u \in Task /\ f[u] = IF u.s = s /\ u.kind \in WsKind
                             THEN [u EXCEPT !.listed = FALSE] ELSE u
    BY <1>1, Types
  <2> QED
    BY <2>1 DEF Task, Twin, Holds
<1> QED
  BY <1>2, <1>3 DEF Evolves

\* A step whose new coroutines are orderly keeps the locks.
LEMMA LocksKept ==
    ASSUME IInv, Locks, NEW t, NEW X, NEW N, NEW D,
           t \in X \/ ~t.lk, Evolves(X, N, D), t \in tasks \/ \A v \in N : ~v.lk,
           Orderly(t, N)
    PROVE  Locks'
<1>1. PICK f : /\ tasks' = {f[u] : u \in tasks \ X} \cup N
               /\ \A u \in tasks \ X : Twin(u, f[u]) /\ Holds(u, f[u], D)
  BY DEF Evolves
<1>2. ASSUME NEW v \in tasks'
      PROVE  (Holding(v) => v.lk) /\ (v.kind = "cascade" => Aloof(v))
  <2>1. CASE v \in N
    BY <2>1 DEF Orderly
  <2>2. CASE v \notin N
    <3>1. PICK u \in tasks \ X : v = f[u]
      BY <1>1, <1>2, <2>2
    <3> QED
      BY <1>1, <3>1 DEF Locks, Twin, Holding, Aloof
  <2> QED
    BY <2>1, <2>2
<1>3. ASSUME NEW v \in tasks', NEW w \in tasks', v.lk, w.lk, v.s = w.s
      PROVE  v = w
  <2>1. CASE v \in N /\ w \in N
    BY <1>3, <2>1 DEF Orderly
  <2>2. ASSUME NEW u \in tasks \ X, NEW n \in N, n.lk, f[u].lk, n.s = f[u].s
        PROVE  FALSE
    <3>1. u.lk /\ u.s = n.s
      BY <1>1, <2>2 DEF Twin
    <3>2. t.lk \/ ~Locked(t.s)
      BY <2>2 DEF Orderly
    <3>3. n.s = t.s /\ t \in tasks
      BY <2>2 DEF Orderly
    <3>4. CASE t.lk
      BY <3>1, <3>3, <3>4 DEF Locks
    <3>5. CASE ~Locked(t.s)
      BY <3>1, <3>3, <3>5 DEF Locked
    <3> QED
      BY <3>2, <3>4, <3>5
  <2>3. CASE v \in N /\ w \notin N
    BY <1>1, <1>3, <2>2, <2>3
  <2>4. CASE v \notin N /\ w \in N
    BY <1>1, <1>3, <2>2, <2>4
  <2>5. CASE v \notin N /\ w \notin N
    <3>1. PICK x \in tasks \ X, y \in tasks \ X : v = f[x] /\ w = f[y]
      BY <1>1, <2>5
    <3>2. x.lk /\ y.lk /\ x.s = y.s
      BY <1>1, <1>3, <3>1 DEF Twin
    <3> QED
      BY <3>1, <3>2 DEF Locks
  <2> QED
    BY <2>1, <2>3, <2>4, <2>5
<1> QED
  BY <1>2, <1>3 DEF Locks

----------------------------------------------------------------------------
(* What the pieces of the handlers leave behind.                           *)

\* v is a coroutine of a session that has just been spawned
Spawned(v, kinds) ==
    /\ v.kind \in kinds /\ v.pc = "start" /\ ~v.lk /\ ~v.nested
    /\ v.ret = "end" /\ v.todo = {}

\* v is what t goes on as, with its lock or without
Onward(v, t) ==
    /\ v.s = t.s /\ v.kind = t.kind /\ v.nested = t.nested
    /\ v.listed = t.listed /\ v.todo = t.todo /\ (v.lk => t.lk)

\* v finalizes the session of t, or goes back to where that was asked
Finalizer(v, t, ret) ==
    /\ Onward(v, t) /\ v.lk = t.lk
    /\ \/ v.pc \in FinPC /\ v.ret = ret
       \/ v.pc = ret /\ ret # "end" /\ v.ret = "end"

\* what _finalize_subagent leaves of t: at most one coroutine, and one if it
\* is to return
Finalizers(V, t, ret) ==
    /\ \A v, w \in V : v = w
    /\ \A v \in V : v \in Task /\ Finalizer(v, t, ret)
    /\ ret # "end" => V # {}

\* what a completion gate leaves of t
Gated(v, t) ==
    \/ /\ Spawned(v, {"settle", "wrap"}) /\ v.s = t.s /\ ~v.listed
       /\ v.kind = "wrap" => v.evt = "clear"
    \/ /\ Onward(v, t) /\ t.kind \notin WsKind
       /\ v.pc = "wpush" \/ (v.pc \in FinPC /\ v.ret = "end")

Leaves(V, t) ==
    /\ \A v, w \in V : v = w
    /\ \A v \in V : v \in Task /\ Gated(v, t)

\* A new task is spawned.
LEMMA NewSpawned ==
    ASSUME NEW kind, NEW s
    PROVE  /\ Spawned(NewTask(kind, s, "start"), {kind})
           /\ NewTask(kind, s, "start").s = s
           /\ ~NewTask(kind, s, "start").listed
BY DEF NewTask, Spawned

\* So is every wake of a reconciled stash.
LEMMA WakesSpawned ==
    ASSUME NEW s
    PROVE  /\ \A toks, b : /\ Spawned(WakeTask(s, toks, b), {"wake"})
                           /\ WakeTask(s, toks, b).s = s
                           /\ WakeTask(s, toks, b).toks = toks
           /\ \A v \in Redeliveries(s) : Spawned(v, {"wake"}) /\ v.s = s
<1>1. ASSUME NEW toks, NEW b
      PROVE  /\ Spawned(WakeTask(s, toks, b), {"wake"})
             /\ WakeTask(s, toks, b).s = s
             /\ WakeTask(s, toks, b).toks = toks
  BY DEF WakeTask, NewTask, Spawned
<1>2. ASSUME NEW v \in Redeliveries(s)
      PROVE  Spawned(v, {"wake"}) /\ v.s = s
  <2>1. PICK e \in stash[s] : v = WakeTask(s, e, FALSE)
    BY <1>2 DEF Redeliveries
  <2> QED
    BY <1>1, <2>1
<1> QED
  BY <1>1, <1>2

\* _finalize_subagent hands on one coroutine, or returns to its caller.
LEMMA FinLeaves ==
    ASSUME NEW t \in Task, NEW res \in Terminal, NEW ret \in BackPC
    PROVE  /\ Finalizers(FinTask(t, res, ret), t, ret)
           /\ Finalizers(Return(t, ret), t, ret)
<1>1. Finalizers(Return(t, ret), t, ret)
  <2>1. ret = "end" => Return(t, ret) = {}
    BY DEF Return
  <2>2. ASSUME ret # "end", NEW u, u = [t EXCEPT !.pc = ret, !.res = "none", !.ret = "end"]
        PROVE  u \in Task /\ Finalizer(u, t, ret)
    BY <2>2 DEF Task, Finalizer, Onward, BackPC, PC
  <2>3. ret # "end" => Return(t, ret) =
          {[t EXCEPT !.pc = ret, !.res = "none", !.ret = "end"]}
    BY DEF Return
  <2> QED
    BY <2>1, <2>2, <2>3 DEF Finalizers
<1>2. CASE Finalizing(t.s)
  BY <1>1, <1>2 DEF FinTask
<1>3. CASE ~Finalizing(t.s)
  <2>1. PICK u : u = [t EXCEPT !.pc = IF res = "done" THEN "report" ELSE "push",
                               !.res = res, !.ret = ret]
    OBVIOUS
  <2>2. FinTask(t, res, ret) = {u}
    BY <1>3, <2>1 DEF FinTask
  <2>3. PICK pc \in FinPC : u = [t EXCEPT !.pc = pc, !.res = res, !.ret = ret]
    BY <2>1 DEF FinPC
  <2>4. u \in Task /\ Finalizer(u, t, ret)
    BY <2>3 DEF Task, Finalizer, Onward, BackPC, PC, FinPC, Terminal
  <2> QED
    BY <1>1, <2>2, <2>4 DEF Finalizers
<1> QED
  BY <1>1, <1>2, <1>3

Verdicts == {"drop", "wrap", "wait", "stopped", "failed", "done"}

\* The completion gate leaves at most one coroutine.
LEMMA GateLeaves ==
    ASSUME IInv, NEW t \in Task, t.kind \notin WsKind, NEW T, NEW g \in Verdicts,
           Gate(t, T, g)
    PROVE  \E V : tasks' = T \cup V /\ Leaves(V, t)
<1>1. CASE g = "drop"
  <2>1. PICK V : V = {}
    OBVIOUS
  <2>2. tasks' = T \cup V /\ Leaves(V, t)
    BY <1>1, <2>1 DEF Gate, Leaves
  <2> QED
    BY <2>2
<1>2. CASE g = "wrap"
  <2>1. PICK n : n = [NewTask("wrap", t.s, "start") EXCEPT !.evt = "clear"]
    OBVIOUS
  <2>2. PICK V : V = {n}
    OBVIOUS
  <2>3. tasks' = T \cup V
    BY <1>2, <2>1, <2>2 DEF Gate
  <2>4. n \in Task /\ Gated(n, t)
    BY <2>1 DEF NewTask, Gated, Spawned, Task, Kind, PC, Event
  <2> QED
    BY <2>2, <2>3, <2>4 DEF Leaves
<1>3. CASE g = "wait"
  <2>1. PICK u : u = [t EXCEPT !.pc = "wpush"]
    OBVIOUS
  <2>2. PICK V : V = IF status[t.s] = "waiting" THEN {} ELSE {u}
    OBVIOUS
  <2>3. tasks' = T \cup V
    BY <1>3, <2>1, <2>2, Zenon DEF Gate
  <2>4. u \in Task /\ Gated(u, t)
    BY <2>1 DEF Gated, Onward, Task, PC
  <2> QED
    BY <2>2, <2>3, <2>4 DEF Leaves
<1>4. CASE g \in {"stopped", "failed", "done"}
  <2>1. PICK V : V = FinTask(t, g, "end")
    OBVIOUS
  <2>2. tasks' = T \cup V
    BY <1>4, <2>1, Zenon DEF Gate
  <2>3. Finalizers(V, t, "end")
    BY <1>4, <2>1, FinLeaves DEF Terminal, BackPC
  <2>4. Leaves(V, t)
    BY <2>3 DEF Finalizers, Finalizer, Leaves, Gated
  <2> QED
    BY <2>2, <2>4
<1> QED
  BY <1>1, <1>2, <1>3, <1>4 DEF Verdicts

\* Every verdict is one of the six.
LEMMA VerdictOne ==
    ASSUME NEW s, NEW out, NEW stop
    PROVE  Verdict(s, out, stop) \in Verdicts
BY DEF Verdict, Verdicts

\* A segment that ended leaves its gate, or what the gate leaves.
LEMMA SegmentLeaves ==
    ASSUME IInv, NEW t \in Task, t.lk, NEW T,
           NEW out \in {"ok", "error", "recursion"}, AfterSegment(t, T, out)
    PROVE  \E V : tasks' = T \cup V /\ Leaves(V, t)
<1>1. Freeze(t.evt, t.s) \in Event
  BY Types DEF Freeze, Task, Event, Rest
<1>2. CASE t.kind \in WsKind
  <2>1. PICK n : n = [NewTask("settle", t.s, "start") EXCEPT
                       !.evt = Freeze(t.evt, t.s), !.out = out]
    OBVIOUS
  <2>2. PICK V : V = {n}
    OBVIOUS
  <2>3. [t EXCEPT !.evt = Freeze(@, t.s), !.sev = "none", !.out = out].evt
          = Freeze(t.evt, t.s)
    BY DEF Task
  <2>4. tasks' = T \cup V
    BY <1>2, <2>1, <2>2, <2>3 DEF AfterSegment
  <2>5. n \in Task /\ Gated(n, t)
    BY <1>1, <2>1 DEF NewTask, Gated, Spawned, Task, Kind, PC, Event
  <2> QED
    BY <2>2, <2>4, <2>5 DEF Leaves
<1>3. CASE t.kind \notin WsKind
  <2>1. PICK u : u = [t EXCEPT !.evt = Freeze(@, t.s), !.sev = "none", !.out = out]
    OBVIOUS
  <2>2. PICK v : v = [u EXCEPT !.lk = (t.kind = "wake")]
    OBVIOUS
  <2>3. PICK g : g = IF WsLive(T, t.s) THEN "drop"
                     ELSE Verdict(t.s, out, u.evt = "set")
    OBVIOUS
  <2>4. Gate(v, T, g)
    BY <1>3, <2>1, <2>2, <2>3, Zenon DEF AfterSegment
  <2>5. g \in Verdicts
    BY <2>3, VerdictOne DEF Verdicts
  <2>6. u \in Task
    BY <1>1, <2>1 DEF Task, Event
  <2>7. (t.kind = "wake") \in BOOLEAN
    OBVIOUS
  <2>8. v \in Task
    BY <2>2, <2>6, <2>7 DEF Task
  <2>9. Onward(v, t) /\ v.kind = t.kind
    BY <2>1, <2>2 DEF Onward, Task
  <2>10. PICK V : tasks' = T \cup V /\ Leaves(V, v)
    BY <1>3, <2>4, <2>5, <2>8, <2>9, GateLeaves
  <2>11. Leaves(V, t)
    BY <2>9, <2>10 DEF Leaves, Gated, Onward
  <2> QED
    BY <2>10, <2>11
<1> QED
  BY <1>2, <1>3

----------------------------------------------------------------------------
(* What the steps of a spawn and of a turn do to the coroutines.           *)

\* u is t, at another await
Goes(u, t, pc) ==
    /\ u \in Task /\ u.pc = pc /\ u.s = t.s /\ u.kind = t.kind
    /\ u.ret = t.ret /\ u.todo = t.todo

\* u has the lock, the registry entry and the retries of t
Likewise(u, t) == u.lk = t.lk /\ u.listed = t.listed /\ u.nested = t.nested

\* only u takes the place of t
Alone(u, t, D) == Evolves({t}, {u}, D)

\* Replacing t by u pops nothing.
LEMMA AlonePlain ==
    ASSUME NEW t, NEW u, tasks' = (tasks \ {t}) \cup {u}
    PROVE  Alone(u, t, {})
<1>1. PICK N : N = {u}
  OBVIOUS
<1>2. PICK X : X = {t}
  OBVIOUS
<1> QED
  BY <1>1, <1>2, EvolvesPlain DEF Alone

\* A brief turn that is armed goes on.
LEMMA SpawnArmShape ==
    ASSUME IInv, NEW t \in tasks, SpawnArm(t)
    PROVE  \E u : /\ Alone(u, t, {}) /\ Goes(u, t, "armed") /\ Likewise(u, t)
                  /\ u.evt = "reg" /\ u.sev = t.sev
<1>1. PICK u : u = [t EXCEPT !.pc = "armed", !.evt = "reg"]
  OBVIOUS
<1>2. Goes(u, t, "armed") /\ Likewise(u, t) /\ u.evt = "reg" /\ u.sev = t.sev
  BY <1>1, Types DEF Goes, Likewise, Task, PC, Event
<1>3. tasks' = (tasks \ {t}) \cup {u}
  BY <1>1 DEF SpawnArm
<1> QED
  BY <1>2, <1>3, AlonePlain

\* Its runner is launched and waits for its first step.
LEMMA SpawnLaunchShape ==
    ASSUME IInv, NEW t \in tasks, SpawnLaunch(t)
    PROVE  \E u : /\ Alone(u, t, {}) /\ Goes(u, t, "start") /\ Likewise(u, t)
                  /\ u.evt = t.evt /\ u.sev = t.sev
<1>1. PICK u : u = [t EXCEPT !.pc = "start"]
  OBVIOUS
<1>2. Goes(u, t, "start") /\ Likewise(u, t) /\ u.evt = t.evt /\ u.sev = t.sev
  BY <1>1, Types DEF Goes, Likewise, Task, PC
<1>3. tasks' = (tasks \ {t}) \cup {u}
  BY <1>1 DEF SpawnLaunch
<1> QED
  BY <1>2, <1>3, AlonePlain

\* A brief turn is killed at its start, or queues for the turn lock.
LEMMA BriefStartShape ==
    ASSUME IInv, NEW t \in tasks, BriefStart(t)
    PROVE  \/ /\ IsSet(t, t.evt) /\ Disarm(t.s) /\ UNCHANGED running
              /\ \E V : Evolves({t}, V, {t.s}) /\ Finalizers(V, t, "end")
           \/ /\ ~IsSet(t, t.evt) /\ UNCHANGED armed
              /\ running' = [running EXCEPT ![t.s] = "own"]
              /\ \E u : Alone(u, t, {}) /\ Goes(u, t, "queued") /\ Likewise(u, t)
<1>1. t \in Task
  BY Types
<1>2. CASE IsSet(t, t.evt)
  <2>1. PICK V : V = IF Stoppable(t.s) THEN FinTask(t, "stopped", "end") ELSE {}
    OBVIOUS
  <2>2. PICK X : X = {t}
    OBVIOUS
  <2>3. tasks' = Detach(tasks \ X, t.s) \cup V
    BY <1>2, <2>1, <2>2, Zenon DEF BriefStart
  <2>4. Finalizers(V, t, "end")
    BY <1>1, <2>1, FinLeaves DEF Terminal, BackPC, Finalizers
  <2>5. Evolves(X, V, {t.s})
    BY <2>3, EvolvesDetach
  <2> QED
    BY <1>2, <2>2, <2>4, <2>5 DEF BriefStart
<1>3. CASE ~IsSet(t, t.evt)
  <2>1. PICK u : u = [t EXCEPT !.pc = "queued"]
    OBVIOUS
  <2>2. Goes(u, t, "queued") /\ Likewise(u, t)
    BY <1>1, <2>1 DEF Goes, Likewise, Task, PC
  <2>3. tasks' = (tasks \ {t}) \cup {u} /\ UNCHANGED armed
        /\ running' = [running EXCEPT ![t.s] = "own"]
    BY <1>3, <2>1 DEF BriefStart
  <2> QED
    BY <1>3, <2>2, <2>3, AlonePlain
<1> QED
  BY <1>2, <1>3

\* A socket turn registers its stop event and streams.
LEMMA StartTurnShape ==
    ASSUME IInv, NEW t \in tasks, StartTurn(t)
    PROVE  \E u : /\ Alone(u, t, {}) /\ Goes(u, t, "stream") /\ u.lk
                  /\ u.listed = t.listed /\ u.nested = t.nested
                  /\ u.sev = "reg" /\ u.evt = t.evt
<1>1. PICK u : u = [t EXCEPT !.pc = "stream", !.lk = TRUE, !.sev = "reg"]
  OBVIOUS
<1>2. /\ Goes(u, t, "stream") /\ u.lk /\ u.listed = t.listed
      /\ u.nested = t.nested /\ u.sev = "reg" /\ u.evt = t.evt
  BY <1>1, Types DEF Goes, Task, PC, Event
<1>3. tasks' = (tasks \ {t}) \cup {u}
  BY <1>1 DEF StartTurn
<1> QED
  BY <1>2, <1>3, AlonePlain

\* A brief turn that failed in transit streams once more.
LEMMA AutoRetryShape ==
    ASSUME IInv, NEW t \in tasks, AutoRetry(t)
    PROVE  \E u : /\ Alone(u, t, {}) /\ Goes(u, t, "stream") /\ u.nested
                  /\ u.lk = t.lk /\ u.listed = t.listed
                  /\ u.sev = t.sev /\ u.evt = t.evt
<1>1. PICK u : u = [t EXCEPT !.nested = TRUE]
  OBVIOUS
<1>2. /\ Goes(u, t, "stream") /\ u.nested /\ u.lk = t.lk
      /\ u.listed = t.listed /\ u.sev = t.sev /\ u.evt = t.evt
  BY <1>1, Types DEF AutoRetry, Goes, Task, PC
<1>3. tasks' = (tasks \ {t}) \cup {u}
  BY <1>1 DEF AutoRetry
<1> QED
  BY <1>2, <1>3, AlonePlain

\* A segment that asks goes on to its finally.
LEMMA InterruptShape ==
    ASSUME IInv, NEW t \in tasks, Interrupt(t)
    PROVE  \E u : Alone(u, t, {}) /\ Goes(u, t, "drain") /\ Likewise(u, t)
<1>1. PICK u : u = [t EXCEPT !.pc = "drain"]
  OBVIOUS
<1>2. Goes(u, t, "drain") /\ Likewise(u, t)
  BY <1>1, Types DEF Goes, Likewise, Task, PC
<1>3. tasks' = (tasks \ {t}) \cup {u}
  BY <1>1 DEF Interrupt
<1> QED
  BY <1>2, <1>3, AlonePlain

\* A coroutine ends and leaves nothing.
LEMMA EndsShape ==
    ASSUME NEW t, tasks' = tasks \ {t}
    PROVE  Evolves({t}, {}, {})
<1>1. PICK N : N = {}
  OBVIOUS
<1>2. PICK X : X = {t}
  OBVIOUS
<1>3. tasks' = (tasks \ X) \cup N
  BY <1>1, <1>2
<1> QED
  BY <1>1, <1>2, <1>3, EvolvesPlain

\* No coroutine moves.
LEMMA StillShape ==
    ASSUME tasks' = tasks
    PROVE  Evolves({}, {}, {})
<1>1. PICK N : N = {}
  OBVIOUS
<1>2. tasks' = (tasks \ N) \cup N
  BY <1>1
<1> QED
  BY <1>1, <1>2, EvolvesPlain

\* The stash may be reconciled into wakes.
Reconciles(R, s) == R = {} \/ R = Redeliveries(s)

\* The end of a segment: a pop, wakes for the stash, the gate.
SegmentOver(t, D) == \E R, V :
    Evolves({t}, R \cup V, D) /\ Reconciles(R, t.s) /\ Leaves(V, t)

\* What leaves T behind is a step.
LEMMA OverDetached ==
    ASSUME IInv, NEW t \in tasks, NEW R, NEW V, Reconciles(R, t.s), Leaves(V, t),
           NEW D, \/ D = {t.s} /\ tasks' = Detach(tasks \ {t}, t.s) \cup R \cup V
                  \/ D = {} /\ tasks' = (tasks \ {t}) \cup R \cup V
    PROVE  SegmentOver(t, D)
<1>1. PICK N : N = R \cup V
  OBVIOUS
<1>2. PICK X : X = {t}
  OBVIOUS
<1>3. \/ D = {t.s} /\ tasks' = Detach(tasks \ X, t.s) \cup N
      \/ D = {} /\ tasks' = (tasks \ X) \cup N
  BY <1>1, <1>2
<1>4. Evolves(X, N, D)
  BY <1>3, EvolvesDetach, EvolvesPlain
<1> QED
  BY <1>1, <1>2, <1>4 DEF SegmentOver

\* A segment that is over leaves its gate.
LEMMA OverGated ==
    ASSUME IInv, NEW t \in tasks, t.lk, NEW R, Reconciles(R, t.s),
           NEW out \in {"ok", "error", "recursion"},
           AfterSegment(t, Detach(tasks \ {t}, t.s) \cup R, out)
    PROVE  SegmentOver(t, {t.s})
<1>1. t \in Task
  BY Types
<1>2. PICK T : T = Detach(tasks \ {t}, t.s) \cup R
  OBVIOUS
<1>3. AfterSegment(t, T, out)
  BY <1>2
<1>4. PICK V : tasks' = T \cup V /\ Leaves(V, t)
  BY <1>1, <1>3, SegmentLeaves
<1>5. PICK D : D = {t.s}
  OBVIOUS
<1>6. SegmentOver(t, D)
  BY <1>2, <1>4, <1>5, OverDetached
<1> QED
  BY <1>5, <1>6

\* A segment that answered or failed goes on to its finally, or
\* leaves its gate.
LEMMA StreamEndShape ==
    ASSUME IInv, NEW t \in tasks, t.lk, NEW out \in {"ok", "error", "recursion"},
           StreamEnd(t, out)
    PROVE  SegmentOver(t, {t.s})
<1>1. PICK R : R = Redeliveries(t.s)
  OBVIOUS
<1>2. AfterSegment(t, Detach(tasks \ {t}, t.s) \cup R, out)
  BY <1>1 DEF StreamEnd
<1>3. Reconciles(R, t.s)
  BY <1>1 DEF Reconciles
<1> QED
  BY <1>2, <1>3, OverGated

\* A gate that is not asked leaves nothing.
LEMMA OverSilent ==
    ASSUME IInv, NEW t \in tasks, NEW R, Reconciles(R, t.s), NEW D,
           \/ D = {t.s} /\ tasks' = Detach(tasks \ {t}, t.s) \cup R
           \/ D = {} /\ tasks' = (tasks \ {t}) \cup R
    PROVE  SegmentOver(t, D)
<1>1. PICK V : V = {}
  OBVIOUS
<1>2. Leaves(V, t)
  BY <1>1 DEF Leaves
<1>3. \/ D = {t.s} /\ tasks' = Detach(tasks \ {t}, t.s) \cup R \cup V
      \/ D = {} /\ tasks' = (tasks \ {t}) \cup R \cup V
  BY <1>1
<1> QED
  BY <1>2, <1>3, OverDetached

\* The finally of a segment pops its event and hands on what its
\* gate leaves.
LEMMA SegEndShape ==
    ASSUME IInv, NEW t \in tasks, t.lk, SegEnd(t)
    PROVE  SegmentOver(t, {t.s})
<1>1. PICK R : R = Redeliveries(t.s)
  OBVIOUS
<1>2. Reconciles(R, t.s)
  BY <1>1 DEF Reconciles
<1>3. \/ tasks' = Detach(tasks \ {t}, t.s) \cup R
      \/ AfterSegment(t, Detach(tasks \ {t}, t.s) \cup R, "ok")
  BY <1>1, Zenon DEF SegEnd
<1>4. CASE tasks' = Detach(tasks \ {t}, t.s) \cup R
  <2>1. PICK D : D = {t.s}
    OBVIOUS
  <2>2. SegmentOver(t, D)
    BY <1>2, <1>4, <2>1, OverSilent
  <2> QED
    BY <2>1, <2>2
<1> QED
  BY <1>2, <1>3, <1>4, OverGated

\* So does the finally of one that asked, whose stash is
\* reconciled.
LEMMA ParkEndShape ==
    ASSUME IInv, NEW t \in tasks, t.lk, ParkEnd(t)
    PROVE  SegmentOver(t, {t.s})
<1>1. PICK none : none = {}
  OBVIOUS
<1>2. PICK R : R = Redeliveries(t.s)
  OBVIOUS
<1>3. Reconciles(none, t.s) /\ Reconciles(R, t.s)
  BY <1>1, <1>2 DEF Reconciles
<1>4. \/ tasks' = Detach(tasks \ {t}, t.s)
      \/ AfterSegment(t, Detach(tasks \ {t}, t.s), "ok")
      \/ AfterSegment(t, Detach(tasks \ {t}, t.s) \cup R, "ok")
  BY <1>2, Zenon DEF ParkEnd
<1>5. Detach(tasks \ {t}, t.s) \cup none = Detach(tasks \ {t}, t.s)
  BY <1>1
<1>6. CASE tasks' = Detach(tasks \ {t}, t.s)
  <2>1. PICK D : D = {t.s}
    OBVIOUS
  <2>2. SegmentOver(t, D)
    BY <1>3, <1>5, <1>6, <2>1, OverSilent
  <2> QED
    BY <2>1, <2>2
<1>7. CASE AfterSegment(t, Detach(tasks \ {t}, t.s), "ok")
  BY <1>3, <1>5, <1>7, OverGated
<1>8. CASE AfterSegment(t, Detach(tasks \ {t}, t.s) \cup R, "ok")
  BY <1>3, <1>8, OverGated
<1> QED
  BY <1>4, <1>6, <1>7, <1>8

\* The gate of a socket turn; it pops an event only of an idle session.
LEMMA SettleShape ==
    ASSUME IInv, NEW t \in tasks, Settle(t)
    PROVE  \/ UNCHANGED armed /\ SegmentOver(t, {})
           \/ Disarm(t.s) /\ ~Busy(t.s) /\ ~parked[t.s] /\ SegmentOver(t, {t.s})
<1>1. t \in Task /\ t.kind \notin WsKind
  BY Types DEF Settle, WsKind
<1>2. PICK none : none = {}
  OBVIOUS
<1>3. PICK R : R = Redeliveries(t.s)
  OBVIOUS
<1>4. PICK one : one = {t.s}
  OBVIOUS
<1>5. Reconciles(none, t.s) /\ Reconciles(R, t.s)
  BY <1>2, <1>3 DEF Reconciles
<1>6. CASE parked[t.s] \/ Busy(t.s)
  <2>1. tasks' = (tasks \ {t}) \cup none /\ UNCHANGED armed
    BY <1>2, <1>6 DEF Settle
  <2> QED
    BY <1>2, <1>5, <2>1, OverSilent
<1>7. CASE ~(parked[t.s] \/ Busy(t.s)) /\ ~Stoppable(t.s)
  <2>1. tasks' = (tasks \ {t}) \cup R /\ UNCHANGED armed
    BY <1>3, <1>7 DEF Settle
  <2> QED
    BY <1>2, <1>5, <2>1, OverSilent
<1>8. CASE ~(parked[t.s] \/ Busy(t.s)) /\ Stoppable(t.s)
  <2>1. PICK T : T = Detach(tasks \ {t}, t.s) \cup R
    OBVIOUS
  <2>2. PICK g : g = Verdict(t.s, t.out, t.evt = "set")
    OBVIOUS
  <2>3. Gate(t, T, g) /\ Disarm(t.s)
    BY <1>3, <1>8, <2>1, <2>2 DEF Settle
  <2>4. g \in Verdicts
    BY <2>2, VerdictOne
  <2>5. PICK V : tasks' = T \cup V /\ Leaves(V, t)
    BY <1>1, <2>3, <2>4, GateLeaves
  <2>6. SegmentOver(t, one)
    BY <1>4, <1>5, <2>1, <2>5, OverDetached
  <2> QED
    BY <1>4, <1>8, <2>3, <2>6
<1> QED
  BY <1>6, <1>7, <1>8

\* A stopped segment goes on to its finally or to the finalizer; the children
\* C its tools were creating are cut off.
LEMMA StreamStopShape ==
    ASSUME IInv, NEW t \in tasks, StreamStop(t)
    PROVE  \E C \in SUBSET Spawning(t.s) : \E V :
             /\ Evolves({t} \cup C, V, {t.s}) /\ Finalizers(V, t, "seg")
             /\ cut' = cut \cup {c.s : c \in C}
<1>1. t \in Task /\ Freeze(t.evt, t.s) \in Event
  BY Types DEF Freeze, Task, Event, Rest
<1>2. PICK u : u = [t EXCEPT !.evt = Freeze(@, t.s), !.sev = "none"]
  OBVIOUS
<1>3. PICK V : V = IF Stoppable(t.s) THEN FinTask(u, "stopped", "seg")
                   ELSE Return(u, "seg")
  OBVIOUS
<1>4. u \in Task /\ u.s = t.s /\ u.lk = t.lk /\ Onward(u, t)
  BY <1>1, <1>2 DEF Task, Event, Onward
<1>5. Finalizers(V, u, "seg")
  BY <1>3, <1>4, FinLeaves DEF Terminal, BackPC
<1>6. Finalizers(V, t, "seg")
  BY <1>4, <1>5 DEF Finalizers, Finalizer, Onward
<1>7. PICK C \in SUBSET Spawning(t.s) :
        /\ tasks' = Detach(tasks \ ({t} \cup C), t.s) \cup V
        /\ cut' = cut \cup {c.s : c \in C}
  BY <1>2, <1>3, Zenon DEF StreamStop
<1>8. PICK X : X = {t} \cup C
  OBVIOUS
<1>9. Evolves(X, V, {t.s})
  BY <1>7, <1>8, EvolvesDetach
<1> QED
  BY <1>6, <1>7, <1>8, <1>9

----------------------------------------------------------------------------
(* What the steps of reporting do to the coroutines.                       *)

\* A finalizer goes on to push its report.
LEMMA FinReportShape ==
    ASSUME IInv, NEW t \in tasks, FinReport(t)
    PROVE  \E u : Alone(u, t, {}) /\ Goes(u, t, "push") /\ Likewise(u, t)
<1>1. PICK u : u = [t EXCEPT !.pc = "push"]
  OBVIOUS
<1>2. Goes(u, t, "push") /\ Likewise(u, t)
  BY <1>1, Types DEF Goes, Likewise, Task, PC
<1>3. tasks' = (tasks \ {t}) \cup {u}
  BY <1>1 DEF FinReport
<1> QED
  BY <1>2, <1>3, AlonePlain

\* what is spawned for p on the way, to wake it
Calls(W, p) ==
    /\ \A v, w \in W : v = w
    /\ \A v \in W : Spawned(v, {"wake", "flush"}) /\ v.s = p

\* A finalizer reports to the parent, and returns.
ReportShape(t, W) == \E V :
    Evolves({t}, V \cup W, {}) /\ Finalizers(V, t, t.ret) /\ Calls(W, Parent[t.s])

\* What a finalizer leaves, W called on the way, is a step.
LEMMA Reported ==
    ASSUME IInv, NEW t \in tasks, NEW W, Calls(W, Parent[t.s]),
           tasks' = (tasks \ {t}) \cup Return(t, t.ret) \cup W
    PROVE  ReportShape(t, W)
<1>1. t \in Task /\ t.ret \in BackPC
  BY Types DEF Task, BackPC
<1>2. PICK V : V = Return(t, t.ret)
  OBVIOUS
<1>3. Finalizers(V, t, t.ret)
  BY <1>1, <1>2, FinLeaves DEF Terminal
<1>4. PICK N : N = V \cup W
  OBVIOUS
<1>5. PICK X : X = {t}
  OBVIOUS
<1>6. tasks' = (tasks \ X) \cup N
  BY <1>2, <1>4, <1>5
<1>7. Evolves(X, N, {})
  BY <1>6, EvolvesPlain
<1> QED
  BY <1>3, <1>4, <1>5, <1>7 DEF ReportShape

\* A finalizer that reports a stop hands on what finalizers leave.
LEMMA FinStoppedShape ==
    ASSUME IInv, NEW t \in tasks, FinStopped(t)
    PROVE  \E W : ReportShape(t, W)
                  /\ (W # {} => status[Parent[t.s]] = "waiting")
<1> PICK p : p = Parent[t.s]
  OBVIOUS
<1>1. CASE tasks' = (tasks \ {t}) \cup Return(t, t.ret)
  <2>1. PICK W : W = {}
    OBVIOUS
  <2>2. Calls(W, p) /\ tasks' = (tasks \ {t}) \cup Return(t, t.ret) \cup W
    BY <1>1, <2>1 DEF Calls
  <2> QED
    BY <2>1, <2>2, Reported
<1>2. CASE tasks' # (tasks \ {t}) \cup Return(t, t.ret)
  <2> PICK toks : toks = pending[p] \cup {<<t.s, 0>>}
    OBVIOUS
  <2>1. PICK w : w = WakeTask(p, toks, FALSE)
    OBVIOUS
  <2>2. PICK W : W = {w}
    OBVIOUS
  <2>3. /\ tasks' = (tasks \ {t}) \cup Return(t, t.ret) \cup W
        /\ status[p] = "waiting"
    BY <1>2, <2>1, <2>2 DEF FinStopped
  <2>4. Spawned(w, {"wake"}) /\ w.s = p
    BY <2>1 DEF WakeTask, NewTask, Spawned
  <2>5. Calls(W, p)
    BY <2>2, <2>4 DEF Calls, Spawned
  <2> QED
    BY <2>3, <2>5, Reported
<1> QED
  BY <1>1, <1>2

\* So does one whose report is pushed, with the wake or the flush
\* it calls.
LEMMA FinInjectShape ==
    ASSUME IInv, NEW t \in tasks, FinInject(t)
    PROVE  \E W : ReportShape(t, W)
<1> DEFINE p == Parent[t.s]
<1>1. PICK none : none = {}
  OBVIOUS
<1>2. PICK n : n = NewTask("flush", p, "start")
  OBVIOUS
<1>3. PICK W : W = {n}
  OBVIOUS
<1>4. \/ tasks' = (tasks \ {t}) \cup Return(t, t.ret) \cup none
      \/ tasks' = (tasks \ {t}) \cup Return(t, t.ret) \cup W
  BY <1>1, <1>2, <1>3 DEF FinInject
<1>5. Calls(none, p)
  BY <1>1 DEF Calls
<1>6. Spawned(n, {"flush"}) /\ n.s = p
  BY <1>2, NewSpawned
<1>7. Calls(W, p)
  BY <1>3, <1>6 DEF Calls, Spawned
<1> QED
  BY <1>4, <1>5, <1>7, Reported

\* A flush spawns at most one wake, if reports are pending.
LEMMA FlushShape ==
    ASSUME IInv, NEW X, NEW p, NEW ticking, Flush(p, tasks \ X, ticking)
    PROVE  \E W : /\ Evolves(X, W, {}) /\ Calls(W, p)
                  /\ W # {} => pending[p] # {}
<1>1. CASE tasks' = tasks \ X
  <2>1. PICK W : W = {}
    OBVIOUS
  <2>2. Calls(W, p) /\ tasks' = (tasks \ X) \cup W
    BY <1>1, <2>1 DEF Calls
  <2> QED
    BY <2>1, <2>2, EvolvesPlain
<1>2. CASE tasks' # tasks \ X
  <2>1. PICK w : w = WakeTask(p, pending[p], TRUE)
    OBVIOUS
  <2>2. PICK W : W = {w}
    OBVIOUS
  <2>3. tasks' = (tasks \ X) \cup W /\ pending[p] # {}
    BY <1>2, <2>1, <2>2, Zenon DEF Flush
  <2>4. Spawned(w, {"wake"}) /\ w.s = p
    BY <2>1, WakesSpawned
  <2>5. Calls(W, p)
    BY <2>2, <2>4 DEF Calls, Spawned
  <2> QED
    BY <2>3, <2>5, EvolvesPlain
<1> QED
  BY <1>1, <1>2

\* A flush task spawns at most one wake and ends.
LEMMA FlushRunShape ==
    ASSUME IInv, NEW t \in tasks, FlushRun(t)
    PROVE  \E W : /\ Evolves({t}, W, {}) /\ Calls(W, t.s)
                  /\ W # {} => pending[t.s] # {}
<1>1. PICK X : X = {t}
  OBVIOUS
<1>2. Flush(t.s, tasks \ X, timer)
  BY <1>1 DEF FlushRun
<1> QED
  BY <1>1, <1>2, FlushShape

\* So does the timer, at its deadline.
LEMMA TimerFireShape ==
    ASSUME IInv, NEW p, TimerFire(p)
    PROVE  \E W : /\ Evolves({}, W, {}) /\ Calls(W, p)
                  /\ W # {} => pending[p] # {}
<1>1. PICK X : X = {}
  OBVIOUS
<1>2. PICK ticking : ticking = timer \ {p}
  OBVIOUS
<1>3. tasks \ X = tasks
  BY <1>1
<1>4. Flush(p, tasks \ X, ticking)
  BY <1>2, <1>3 DEF TimerFire
<1> QED
  BY <1>1, <1>4, FlushShape

\* A wake streams.
LEMMA WakeStreamShape ==
    ASSUME IInv, NEW t \in tasks, WakeStream(t, tasks \ {t})
    PROVE  /\ Arm(t.s) /\ asking' = [asking EXCEPT ![t.s] = FALSE]
           /\ \E u : /\ Alone(u, t, {}) /\ Goes(u, t, "stream") /\ u.lk
                     /\ u.listed = t.listed /\ u.nested = t.nested
                     /\ u.evt = "reg" /\ u.sev = "reg"
<1>1. PICK u : u = [t EXCEPT !.pc = "stream", !.lk = TRUE,
                             !.evt = "reg", !.sev = "reg", !.toks = {}]
  OBVIOUS
<1>2. /\ Goes(u, t, "stream") /\ u.lk /\ u.listed = t.listed
      /\ u.nested = t.nested /\ u.evt = "reg" /\ u.sev = "reg"
  <2>1. t \in Task /\ {} \in SUBSET Token /\ "stream" \in PC /\ "reg" \in Event
    BY Types DEF PC, Event
  <2>2. u \in Task
    BY <1>1, <2>1 DEF Task
  <2>3. /\ u.pc = "stream" /\ u.s = t.s /\ u.kind = t.kind /\ u.ret = t.ret
        /\ u.todo = t.todo /\ u.lk /\ u.listed = t.listed
        /\ u.nested = t.nested /\ u.evt = "reg" /\ u.sev = "reg"
    BY <1>1, <2>1 DEF Task
  <2> QED
    BY <2>2, <2>3 DEF Goes
<1>3. tasks' = (tasks \ {t}) \cup {u}
  BY <1>1 DEF WakeStream
<1>4. Arm(t.s) /\ asking' = [asking EXCEPT ![t.s] = FALSE]
  BY DEF WakeStream
<1> QED
  BY <1>2, <1>3, <1>4, AlonePlain

\* A wake that gets the lock is refused, goes on to broadcast its flip, or
\* streams.
LEMMA WakeEnterShape ==
    ASSUME IInv, NEW t \in tasks, WakeEnter(t)
    PROVE  /\ ~Locked(t.s)
           /\ \/ /\ Evolves({t}, {}, {}) /\ UNCHANGED <<running, armed, asking>>
              \/ Evolves({t}, {}, {t.s}) /\ Disarm(t.s) /\ UNCHANGED <<running, asking>>
              \/ /\ status[t.s] = "waiting"
                 /\ running' = [running EXCEPT ![t.s] = "own"]
                 /\ UNCHANGED <<armed, asking>>
                 /\ \E u : /\ Alone(u, t, {}) /\ Goes(u, t, "flip") /\ u.lk
                           /\ u.listed = t.listed /\ u.nested = t.nested
              \/ /\ running' = [running EXCEPT ![t.s] = "own"]
                 /\ Arm(t.s) /\ asking' = [asking EXCEPT ![t.s] = FALSE]
                 /\ \E u : /\ Alone(u, t, {}) /\ Goes(u, t, "stream") /\ u.lk
                           /\ u.listed = t.listed /\ u.nested = t.nested
                           /\ u.evt = "reg" /\ u.sev = "reg"
<1> DEFINE dead == t.s # Root /\ status[t.s] \notin Live
<1>1. ~Locked(t.s)
  BY DEF WakeEnter
<1>2. CASE dead
  <2>1. tasks' = tasks \ {t} /\ UNCHANGED <<running, armed, asking>>
    BY <1>2, Zenon DEF WakeEnter
  <2> QED
    BY <1>1, <2>1, EndsShape
<1>3. CASE ~dead /\ armed[t.s] = "set"
  <2>1. tasks' = Detach(tasks \ {t}, t.s) /\ Disarm(t.s) /\ UNCHANGED <<running, asking>>
    BY <1>3, Zenon DEF WakeEnter
  <2>2. PICK X : X = {t}
    OBVIOUS
  <2>3. PICK N : N = {}
    OBVIOUS
  <2>4. tasks' = Detach(tasks \ X, t.s) \cup N
    BY <2>1, <2>2, <2>3
  <2> QED
    BY <1>1, <2>1, <2>2, <2>3, <2>4, EvolvesDetach
<1>4. CASE ~dead /\ armed[t.s] # "set" /\ (Busy(t.s) \/ parked[t.s])
  <2>1. tasks' = tasks \ {t} /\ UNCHANGED <<running, armed, asking>>
    BY <1>4, Zenon DEF WakeEnter
  <2> QED
    BY <1>1, <2>1, EndsShape
<1>5. CASE ~dead /\ armed[t.s] # "set" /\ ~(Busy(t.s) \/ parked[t.s])
           /\ status[t.s] = "waiting"
  <2>1. PICK u : u = [t EXCEPT !.pc = "flip", !.lk = TRUE]
    OBVIOUS
  <2>2. /\ tasks' = (tasks \ {t}) \cup {u}
        /\ running' = [running EXCEPT ![t.s] = "own"]
        /\ UNCHANGED <<armed, asking>>
    BY <1>5, <2>1, Zenon DEF WakeEnter
  <2>3. Goes(u, t, "flip") /\ u.lk /\ u.listed = t.listed /\ u.nested = t.nested
    BY <2>1, Types DEF Goes, Task, PC
  <2> QED
    BY <1>1, <1>5, <2>2, <2>3, AlonePlain
<1>6. CASE ~dead /\ armed[t.s] # "set" /\ ~(Busy(t.s) \/ parked[t.s])
           /\ status[t.s] # "waiting"
  <2>1. WakeStream(t, tasks \ {t}) /\ running' = [running EXCEPT ![t.s] = "own"]
    BY <1>6, Zenon DEF WakeEnter
  <2> QED
    BY <1>1, <2>1, WakeStreamShape
<1> QED
  BY <1>2, <1>3, <1>4, <1>5, <1>6

\* After the broadcast it is stopped, or streams.
LEMMA WakeFlippedShape ==
    ASSUME IInv, NEW t \in tasks, WakeFlipped(t)
    PROVE  \/ /\ armed[t.s] = "set" /\ Disarm(t.s) /\ UNCHANGED <<running, asking>>
              /\ \E V : Evolves({t}, V, {t.s}) /\ Finalizers(V, t, "unmark")
           \/ /\ running' = [running EXCEPT ![t.s] = "own"]
              /\ Arm(t.s) /\ asking' = [asking EXCEPT ![t.s] = FALSE]
              /\ \E u : /\ Alone(u, t, {}) /\ Goes(u, t, "stream") /\ u.lk
                        /\ u.listed = t.listed /\ u.nested = t.nested
                        /\ u.evt = "reg" /\ u.sev = "reg"
<1>1. t \in Task
  BY Types
<1>2. CASE armed[t.s] = "set"
  <2>1. PICK V : V = IF Stoppable(t.s) THEN FinTask(t, "stopped", "unmark")
                     ELSE Return(t, "unmark")
    OBVIOUS
  <2>2. PICK X : X = {t}
    OBVIOUS
  <2>3. /\ tasks' = Detach(tasks \ X, t.s) \cup V
        /\ Disarm(t.s) /\ UNCHANGED <<running, asking>>
    BY <1>2, <2>1, <2>2, Zenon DEF WakeFlipped
  <2>4. Finalizers(V, t, "unmark")
    BY <1>1, <2>1, FinLeaves DEF Terminal, BackPC
  <2>5. Evolves(X, V, {t.s})
    BY <2>3, EvolvesDetach
  <2> QED
    BY <1>2, <2>2, <2>3, <2>4, <2>5
<1>3. CASE armed[t.s] # "set"
  <2>1. WakeStream(t, tasks \ {t}) /\ running' = [running EXCEPT ![t.s] = "own"]
    BY <1>3, Zenon DEF WakeFlipped
  <2> QED
    BY <2>1, WakeStreamShape
<1> QED
  BY <1>2, <1>3

----------------------------------------------------------------------------
(* What the user's steps and the steps of a stop do to the coroutines.     *)

\* a turn the socket has registered and queued
Socket(n, s) ==
    /\ n \in Task /\ n.s = s /\ n.pc = "queued" /\ n.kind \in WsKind
    /\ ~n.lk /\ ~n.nested /\ n.ret = "end" /\ n.todo = {}

\* A user's message brings one socket turn.
LEMMA InvokeShape ==
    ASSUME IInv, NEW s \in Session, Invoke(s)
    PROVE  \E n : Evolves({}, {n}, {}) /\ Socket(n, s)
<1>1. PICK n : n = [NewTask("invoke", s, "queued") EXCEPT !.evt = "reg", !.listed = TRUE]
  OBVIOUS
<1>2. Socket(n, s)
  BY <1>1 DEF NewTask, Socket, Task, Kind, WsKind, PC, Event
<1>3. PICK X : X = {}
  OBVIOUS
<1>4. PICK N : N = {n}
  OBVIOUS
<1>5. tasks' = Unlist(tasks \ X, s) \cup N
  BY <1>1, <1>3, <1>4 DEF Invoke
<1> QED
  BY <1>2, <1>3, <1>4, <1>5, EvolvesUnlist

\* So does the answer of a parked question.
LEMMA AnswerShape ==
    ASSUME IInv, NEW s \in Session, Answer(s)
    PROVE  \E n : Evolves({}, {n}, {}) /\ Socket(n, s)
<1>1. PICK n : n = [NewTask("resume", s, "queued") EXCEPT !.evt = "reg", !.listed = TRUE]
  OBVIOUS
<1>2. Socket(n, s)
  BY <1>1 DEF NewTask, Socket, Task, Kind, WsKind, PC, Event
<1>3. PICK X : X = {}
  OBVIOUS
<1>4. PICK N : N = {n}
  OBVIOUS
<1>5. tasks' = Unlist(tasks \ X, s) \cup N
  BY <1>1, <1>3, <1>4 DEF Answer
<1> QED
  BY <1>2, <1>3, <1>4, <1>5, EvolvesUnlist

\* a parked turn that is being healed
Healing(h, s) ==
    /\ h.s = s /\ h.kind = "heal" /\ h.pc = "heal"
    /\ ~h.lk /\ ~h.nested /\ h.ret = "end" /\ h.todo = {}

\* what a stop of s spawns
Stopping(B, s) ==
    /\ \A v \in B : Spawned(v, {"cascade", "stopif"}) /\ v.s = s /\ s # Root
    /\ \A v, w \in B : v.kind = w.kind => v = w

\* The stop button spawns a cascade below s, and heals a parked turn.
LEMMA StopShape ==
    ASSUME IInv, NEW s \in Session, Stop(s)
    PROVE  \E B : /\ Stopping(B, s)
                  /\ \/ /\ parked[s] /\ \E h : Evolves({}, B \cup {h}, {}) /\ Healing(h, s)
                        /\ parked' = [parked EXCEPT ![s] = FALSE]
                        /\ running' = [running EXCEPT ![s] = "none"]
                        /\ UNCHANGED armed
                     \/ /\ ~parked[s] /\ Evolves({}, B, {})
                        /\ armed' = IF Busy(s) THEN [armed EXCEPT ![s] = "set"] ELSE armed
                        /\ UNCHANGED <<parked, running>>
<1>1. PICK c : c = NewTask("cascade", s, "start")
  OBVIOUS
<1>2. PICK i : i = NewTask("stopif", s, "start")
  OBVIOUS
<1>3. PICK B : B = IF s = Root THEN {} ELSE {c, i}
  OBVIOUS
<1>4. Spawned(c, {"cascade"}) /\ c.s = s /\ Spawned(i, {"stopif"}) /\ i.s = s
  BY <1>1, <1>2, NewSpawned
<1>5. Stopping(B, s)
  BY <1>3, <1>4 DEF Stopping, Spawned
<1>6. PICK X : X = {}
  OBVIOUS
<1>7. CASE parked[s]
  <2>1. PICK h : h = NewTask("heal", s, "heal")
    OBVIOUS
  <2>2. Healing(h, s)
    BY <2>1 DEF NewTask, Healing
  <2>3. PICK N : N = B \cup {h}
    OBVIOUS
  <2>4. /\ tasks' = tasks \cup B \cup {h}
        /\ parked' = [parked EXCEPT ![s] = FALSE]
        /\ running' = [running EXCEPT ![s] = "none"]
        /\ UNCHANGED armed
    BY <1>1, <1>2, <1>3, <1>7, <2>1, Zenon DEF Stop
  <2>5. tasks' = (tasks \ X) \cup N
    BY <1>6, <2>3, <2>4
  <2>6. Evolves({}, B \cup {h}, {})
    BY <1>6, <2>3, <2>5, EvolvesPlain
  <2> QED
    BY <1>5, <1>7, <2>2, <2>4, <2>6
<1>8. CASE ~parked[s]
  <2>1. /\ tasks' = tasks \cup B
        /\ armed' = IF Busy(s) THEN [armed EXCEPT ![s] = "set"] ELSE armed
        /\ UNCHANGED <<parked, running>>
    BY <1>1, <1>2, <1>3, <1>8, Zenon DEF Stop
  <2>2. tasks' = (tasks \ X) \cup B
    BY <1>6, <2>1
  <2>3. Evolves({}, B, {})
    BY <1>6, <2>2, EvolvesPlain
  <2> QED
    BY <1>5, <1>8, <2>1, <2>3
<1> QED
  BY <1>7, <1>8

\* A retry is called, and does not have the lock yet.
LEMMA RetryShape ==
    ASSUME IInv, NEW s \in Session, Retry(s)
    PROVE  \E n : /\ Evolves({}, {n}, {}) /\ n.s = s /\ n.kind = "retry"
                  /\ n.pc = "rpush" /\ ~n.lk /\ ~n.nested /\ ~n.listed
                  /\ n.ret = "end" /\ n.todo = {}
<1>1. PICK n : n = NewTask("retry", s, "rpush")
  OBVIOUS
<1>2. PICK X : X = {}
  OBVIOUS
<1>3. PICK N : N = {n}
  OBVIOUS
<1>4. tasks' = (tasks \ X) \cup N
  BY <1>1, <1>2, <1>3 DEF Retry
<1>5. Evolves(X, N, {})
  BY <1>4, EvolvesPlain
<1>6. /\ n.s = s /\ n.kind = "retry" /\ n.pc = "rpush" /\ ~n.lk /\ ~n.nested
      /\ ~n.listed /\ n.ret = "end" /\ n.todo = {}
  BY <1>1 DEF NewTask
<1> QED
  BY <1>2, <1>3, <1>5, <1>6

\* Once it found its child terminal it queues for the turn lock.
LEMMA RetryGoShape ==
    ASSUME IInv, NEW t \in tasks, RetryGo(t)
    PROVE  \E u : /\ Alone(u, t, {}) /\ Goes(u, t, "queued")
                  /\ u.lk = t.lk /\ u.nested = t.nested
<1>1. PICK u : u = [t EXCEPT !.pc = "queued", !.evt = "reg", !.listed = TRUE]
  OBVIOUS
<1>2. Goes(u, t, "queued") /\ u.lk = t.lk /\ u.nested = t.nested
  BY <1>1, Types DEF Goes, Task, PC, Event
<1>3. PICK X : X = {t}
  OBVIOUS
<1>4. PICK N : N = {u}
  OBVIOUS
<1>5. tasks' = Unlist(tasks \ X, t.s) \cup N
  BY <1>1, <1>3, <1>4 DEF RetryGo
<1>6. Evolves(X, N, {})
  BY <1>5, EvolvesUnlist
<1> QED
  BY <1>2, <1>3, <1>4, <1>6 DEF Alone

\* on_stop_if_waiting ends, or finalizes under the lock it took.
LEMMA StopIfWaitingShape ==
    ASSUME IInv, NEW t \in tasks, StopIfWaiting(t)
    PROVE  /\ ~Locked(t.s)
           /\ \E u, V : /\ Evolves({t}, V, {}) /\ Finalizers(V, u, "end")
                        /\ u.s = t.s /\ u.kind = "stopif" /\ u.todo = t.todo
                        /\ u.nested = t.nested
<1>1. t \in Task /\ ~Locked(t.s) /\ t.kind = "stopif"
  BY Types DEF StopIfWaiting
<1>2. PICK u : u = [t EXCEPT !.lk = TRUE]
  OBVIOUS
<1>3. u \in Task /\ u.s = t.s /\ u.kind = "stopif" /\ u.todo = t.todo
      /\ u.nested = t.nested
  BY <1>1, <1>2 DEF Task
<1>4. PICK V : V = IF Busy(t.s) \/ status[t.s] # "waiting" THEN {}
                   ELSE FinTask(u, "stopped", "end")
  OBVIOUS
<1>5. Finalizers(V, u, "end")
  <2>1. Finalizers(FinTask(u, "stopped", "end"), u, "end")
    BY <1>3, FinLeaves DEF Terminal, BackPC
  <2> QED
    BY <1>4, <2>1 DEF Finalizers
<1>6. PICK X : X = {t}
  OBVIOUS
<1>7. tasks' = (tasks \ X) \cup V
  BY <1>2, <1>4, <1>6, Zenon DEF StopIfWaiting
<1>8. Evolves(X, V, {})
  BY <1>7, EvolvesPlain
<1> QED
  BY <1>1, <1>3, <1>5, <1>6, <1>8

\* A cascade with nothing left to visit ends.
LEMMA CascadeEndShape ==
    ASSUME IInv, NEW t \in tasks, CascadeEnd(t)
    PROVE  Evolves({t}, {}, {})
BY EndsShape DEF CascadeEnd

\* A cascade unparks a session below and goes there to heal it.
LEMMA CascadeParkedShape ==
    ASSUME IInv, NEW t \in tasks, CascadeParked(t)
    PROVE  /\ AtCascade(t)
           /\ \E x \in ToVisit(t), S \in SUBSET ToVisit(t) : \E u :
                /\ parked[x] /\ Signal(S \cup {x})
                /\ parked' = [parked EXCEPT ![x] = FALSE]
                /\ running' = [running EXCEPT ![x] = "none"]
                /\ Alone(u, t, {}) /\ u.s = x /\ u.pc = "heal" /\ u.kind = "cascade"
                /\ u.lk = t.lk /\ u.nested = t.nested /\ u.ret = t.ret
                /\ u.todo \subseteq ToVisit(t)
<1>1. t \in Task /\ AtCascade(t) /\ t.kind = "cascade"
  BY Types DEF CascadeParked, AtCascade
<1>2. PICK x \in AwaitsAt(t), S \in SUBSET (ToVisit(t) \ AwaitsAt(t)) :
         /\ parked[x]
         /\ Signal(S \cup {x})
         /\ parked' = [parked EXCEPT ![x] = FALSE]
         /\ running' = [running EXCEPT ![x] = "none"]
         /\ tasks' = (tasks \ {t}) \cup
              {[t EXCEPT !.s = x, !.pc = "heal",
                         !.todo = ToVisit(t) \ (S \cup {x})]}
  BY DEF CascadeParked
<1>3. PICK todo : todo = ToVisit(t) \ (S \cup {x})
  OBVIOUS
<1>4. PICK u : u = [t EXCEPT !.s = x, !.pc = "heal", !.todo = todo]
  OBVIOUS
<1>5. /\ u.s = x /\ u.pc = "heal" /\ u.kind = "cascade"
      /\ u.lk = t.lk /\ u.nested = t.nested /\ u.ret = t.ret
      /\ u.todo = todo
  BY <1>1, <1>4 DEF Task
<1>6. tasks' = (tasks \ {t}) \cup {u}
  BY <1>2, <1>3, <1>4
<1>7. x \in ToVisit(t) /\ S \in SUBSET ToVisit(t) /\ todo \subseteq ToVisit(t)
  BY <1>2, <1>3 DEF AwaitsAt
<1>8. Alone(u, t, {})
  BY <1>6, AlonePlain
<1> QED
  BY <1>1, <1>2, <1>5, <1>7, <1>8

\* It finalizes a session with no turn.
LEMMA CascadeIdleShape ==
    ASSUME IInv, NEW t \in tasks, CascadeIdle(t)
    PROVE  /\ AtCascade(t)
           /\ \E x \in ToVisit(t), S \in SUBSET (ToVisit(t) \ AwaitsAt(t)) : \E u, V :
                /\ Idle(x) /\ Signal(S) /\ status' = FinStatus(x, "stopped")
                /\ Evolves({t}, V, {}) /\ Finalizers(V, u, "walk")
                /\ u.s = x /\ u.kind = "cascade" /\ u.lk = t.lk /\ u.nested = t.nested
                /\ u.todo = ToVisit(t) \ (S \cup {x})
<1>1. t \in Task /\ AtCascade(t) /\ t.kind = "cascade"
  BY Types DEF CascadeIdle, AtCascade
<1>2. PICK x \in AwaitsAt(t), S \in SUBSET (ToVisit(t) \ AwaitsAt(t)) :
         /\ ~parked[x]
         /\ Signal(S)
         /\ status' = FinStatus(x, "stopped")
         /\ tasks' = (tasks \ {t}) \cup
              FinTask([t EXCEPT !.s = x, !.todo = ToVisit(t) \ (S \cup {x})],
                      "stopped", "walk")
  BY DEF CascadeIdle
<1>3. PICK todo : todo = ToVisit(t) \ (S \cup {x})
  OBVIOUS
<1>4. PICK u : u = [t EXCEPT !.s = x, !.todo = todo]
  OBVIOUS
<1>5. ToVisit(t) \subseteq Session
  BY <1>1, Types DEF ToVisit, Below, Task
<1>6. x \in Session /\ x \in ToVisit(t) /\ todo \in SUBSET Session /\ Idle(x)
  BY <1>2, <1>3, <1>5 DEF AwaitsAt
<1>7. u \in Task /\ u.s = x /\ u.kind = "cascade" /\ u.lk = t.lk
      /\ u.nested = t.nested /\ u.todo = todo
  BY <1>1, <1>4, <1>6 DEF Task
<1>8. PICK V : V = FinTask(u, "stopped", "walk")
  OBVIOUS
<1>9. Finalizers(V, u, "walk")
  BY <1>7, <1>8, FinLeaves DEF Terminal, BackPC
<1>10. PICK X : X = {t}
  OBVIOUS
<1>11. tasks' = (tasks \ X) \cup V
  BY <1>2, <1>3, <1>4, <1>8, <1>10
<1>12. Evolves(X, V, {})
  BY <1>11, EvolvesPlain
<1> QED
  BY <1>1, <1>2, <1>3, <1>6, <1>7, <1>9, <1>10, <1>12

\* The healing of a parked question gets the lock.
LEMMA HealLockedShape ==
    ASSUME IInv, NEW t \in tasks, HealLocked(t)
    PROVE  \E u : Alone(u, t, {}) /\ Goes(u, t, "bcast") /\ Likewise(u, t)
<1>1. PICK u : u = [t EXCEPT !.pc = "bcast"]
  OBVIOUS
<1>2. Goes(u, t, "bcast") /\ Likewise(u, t)
  BY <1>1, Types DEF Goes, Likewise, Task, PC
<1>3. tasks' = (tasks \ {t}) \cup {u}
  BY <1>1 DEF HealLocked
<1> QED
  BY <1>2, <1>3, AlonePlain

\* It hands on what a finalizer leaves.
LEMMA HealStopShape ==
    ASSUME IInv, NEW t \in tasks, HealStop(t)
    PROVE  \E V : /\ Finalizers(V, t, "tail")
                  /\ \/ Stoppable(t.s) /\ Disarm(t.s) /\ Evolves({t}, V, {t.s})
                     \/ UNCHANGED armed /\ Evolves({t}, V, {})
<1>1. t \in Task
  BY Types
<1>2. PICK X : X = {t}
  OBVIOUS
<1>3. PICK V : V = IF Stoppable(t.s) THEN FinTask(t, "stopped", "tail")
                   ELSE Return(t, "tail")
  OBVIOUS
<1>4. Finalizers(V, t, "tail")
  BY <1>1, <1>3, FinLeaves DEF Terminal, BackPC
<1>5. CASE Stoppable(t.s)
  <2>1. tasks' = Detach(tasks \ X, t.s) \cup V /\ Disarm(t.s)
    BY <1>2, <1>3, <1>5, Zenon DEF HealStop
  <2> QED
    BY <1>2, <1>4, <1>5, <2>1, EvolvesDetach
<1>6. CASE ~Stoppable(t.s)
  <2>1. tasks' = (tasks \ X) \cup V /\ UNCHANGED armed
    BY <1>2, <1>3, <1>6, Zenon DEF HealStop
  <2> QED
    BY <1>2, <1>4, <2>1, EvolvesPlain
<1> QED
  BY <1>5, <1>6

\* what is left of a heal: nothing, or the cascade it was part of
Walks(V, t) ==
    /\ \A v, w \in V : v = w
    /\ \A v \in V : t.kind = "cascade" /\ Goes(v, t, "walk") /\ Likewise(v, t)

\* Back in its cascade it gives the lock back and walks on.
LEMMA HealTailShape ==
    ASSUME IInv, NEW t \in tasks, HealTail(t)
    PROVE  \E R, V : /\ Evolves({t}, R \cup V, {}) /\ Reconciles(R, t.s)
                     /\ Walks(V, t)
<1>1. PICK u : u = [t EXCEPT !.pc = "walk"]
  OBVIOUS
<1>2. Goes(u, t, "walk") /\ Likewise(u, t)
  BY <1>1, Types DEF Goes, Likewise, Task, PC
<1>3. PICK R : R = Redeliveries(t.s)
  OBVIOUS
<1>4. PICK V : V = IF t.kind = "cascade" THEN {u} ELSE {}
  OBVIOUS
<1>5. PICK X : X = {t}
  OBVIOUS
<1>6. PICK N : N = R \cup V
  OBVIOUS
<1>7. tasks' = (tasks \ X) \cup N
  BY <1>1, <1>3, <1>4, <1>5, <1>6 DEF HealTail
<1>8. Evolves(X, N, {})
  BY <1>7, EvolvesPlain
<1>9. Walks(V, t)
  BY <1>2, <1>4 DEF Walks
<1>10. Reconciles(R, t.s)
  BY <1>3 DEF Reconciles
<1>11. Evolves({t}, R \cup V, {})
  BY <1>5, <1>6, <1>8
<1> QED
  BY <1>9, <1>10, <1>11

\* A spawn tool brings one brief turn, for a child of its session.
LEMMA SpawnCreateShape ==
    ASSUME IInv, NEW c \in Subagent, SpawnCreate(c)
    PROVE  \E n : /\ Evolves({}, {n}, {}) /\ n.s = c /\ n.kind = "brief"
                  /\ n.pc = "create" /\ ~n.lk /\ ~n.nested /\ ~n.listed
                  /\ n.ret = "end" /\ n.todo = {}
<1>1. PICK n : n = NewTask("brief", c, "create")
  OBVIOUS
<1>2. PICK X : X = {}
  OBVIOUS
<1>3. PICK N : N = {n}
  OBVIOUS
<1>4. tasks' = (tasks \ X) \cup N
  BY <1>1, <1>2, <1>3 DEF SpawnCreate
<1>5. Evolves(X, N, {})
  BY <1>4, EvolvesPlain
<1>6. /\ n.s = c /\ n.kind = "brief" /\ n.pc = "create" /\ ~n.lk /\ ~n.nested
      /\ ~n.listed /\ n.ret = "end" /\ n.todo = {}
  BY <1>1 DEF NewTask
<1> QED
  BY <1>2, <1>3, <1>5, <1>6

----------------------------------------------------------------------------
(* No step breaks the locks.                                               *)

\* What a gate leaves, and the wakes beside it, respect the lock.
LEMMA OrderlyOver ==
    ASSUME Locks, NEW t \in tasks, NEW R, NEW V,
           Reconciles(R, t.s), Leaves(V, t)
    PROVE  Orderly(t, R \cup V)
<1> USE DEF FinPC, Aloof
<1>1. \A v \in R : ~v.lk /\ ~Holding(v) /\ v.kind # "cascade"
  BY WakesSpawned DEF Reconciles, Spawned, Holding, FinPC
<1>2. ASSUME NEW v \in V
      PROVE  /\ ~Holding(v) /\ (v.kind = "cascade" => Aloof(v))
             /\ v.lk => v.s = t.s /\ t.lk
  <2>1. Gated(v, t)
    BY DEF Leaves
  <2>2. CASE Spawned(v, {"settle", "wrap"})
    BY <2>2 DEF Spawned, Holding, FinPC
  <2>3. CASE /\ Onward(v, t)
             /\ v.pc = "wpush" \/ (v.pc \in FinPC /\ v.ret = "end")
    BY <2>3 DEF Onward, Holding, FinPC, Locks
  <2> QED
    BY <2>1, <2>2, <2>3 DEF Gated
<1> QED
  BY <1>1, <1>2 DEF Orderly, Leaves

\* What a finalizer leaves, and what it spawned, respect the lock.
LEMMA OrderlyFin ==
    ASSUME NEW t, NEW V, NEW W, NEW ret, Finalizers(V, t, ret),
           t.lk \/ ret \in {"end", "tail", "walk"},
           ret \notin {"queued", "rpush"},
           t.kind = "cascade" => Aloof(t),
           \A w \in W : Spawned(w, {"wake", "flush"})
    PROVE  Orderly(t, V \cup W)
<1> USE DEF FinPC, Aloof
<1>1. \A w \in W : ~w.lk /\ ~Holding(w) /\ w.kind # "cascade"
  BY DEF Spawned, Holding, FinPC
<1>2. ASSUME NEW v \in V
      PROVE  /\ Holding(v) => v.lk
             /\ v.kind = "cascade" => Aloof(v)
             /\ v.lk => v.s = t.s /\ t.lk
  <2>1. Finalizer(v, t, ret)
    BY DEF Finalizers
  <2> QED
    BY <2>1 DEF Finalizer, Onward, Holding, FinPC
<1> QED
  BY <1>1, <1>2 DEF Orderly, Finalizers

\* So does a single coroutine.
LEMMA OrderlyOne ==
    ASSUME NEW t, NEW u, Holding(u) => u.lk,
           u.kind = "cascade" => Aloof(u),
           u.lk => u.s = t.s /\ (t.lk \/ ~Locked(t.s))
    PROVE  Orderly(t, {u})
BY DEF Orderly

\* A coroutine that goes on as u keeps the locks.
LEMMA LocksAlone ==
    ASSUME IInv, Locks, NEW t \in tasks, NEW u, NEW D, Alone(u, t, D),
           Holding(u) => u.lk, u.kind = "cascade" => Aloof(u),
           u.lk => u.s = t.s /\ (t.lk \/ ~Locked(t.s))
    PROVE  Locks'
<1>1. PICK X : X = {t}
  OBVIOUS
<1>2. PICK N : N = {u}
  OBVIOUS
<1>3. Orderly(t, N) /\ Evolves(X, N, D) /\ t \in X
  BY <1>1, <1>2, OrderlyOne DEF Alone
<1> QED
  BY <1>3, LocksKept

\* A step of t that is orderly keeps the locks.
LEMMA LocksStep ==
    ASSUME IInv, Locks, NEW t \in tasks, NEW N, NEW D,
           Evolves({t}, N, D), Orderly(t, N)
    PROVE  Locks'
<1>1. PICK X : X = {t}
  OBVIOUS
<1>2. Evolves(X, N, D) /\ t \in X
  BY <1>1
<1> QED
  BY <1>2, LocksKept

\* Coroutines that join without the lock keep the locks.
LEMMA LocksJoin ==
    ASSUME IInv, Locks, NEW N, Evolves({}, N, {}),
           \A v \in N : ~Holding(v) /\ ~v.lk /\ (v.kind = "cascade" => Aloof(v))
    PROVE  Locks'
<1>1. PICK X : X = {}
  OBVIOUS
<1>2. PICK t : t = [NewTask("wake", Root, "start") EXCEPT !.lk = FALSE]
  OBVIOUS
<1>3. ~t.lk /\ Orderly(t, N) /\ Evolves(X, N, {})
  BY <1>1, <1>2 DEF NewTask, Orderly
<1> QED
  BY <1>3, LocksKept

\* The end of a segment keeps the locks.
LEMMA LocksOver ==
    ASSUME IInv, Locks, NEW t \in tasks, NEW D, SegmentOver(t, D)
    PROVE  Locks'
<1>1. PICK R, V : Evolves({t}, R \cup V, D) /\ Reconciles(R, t.s) /\ Leaves(V, t)
  BY DEF SegmentOver
<1>2. PICK N : N = R \cup V
  OBVIOUS
<1>3. Orderly(t, N)
  BY <1>1, <1>2, OrderlyOver
<1> QED
  BY <1>1, <1>2, <1>3, LocksStep

\* So does what a finalizer leaves.
LEMMA LocksFin ==
    ASSUME IInv, Locks, NEW t \in tasks, NEW V, NEW ret, NEW D,
           Evolves({t}, V, D), Finalizers(V, t, ret),
           t.lk \/ ret \in {"end", "tail", "walk"},
           ret \notin {"queued", "rpush"}
    PROVE  Locks'
<1>1. PICK W : W = {}
  OBVIOUS
<1>2. t.kind = "cascade" => Aloof(t)
  BY DEF Locks
<1>3. Orderly(t, V \cup W) /\ V \cup W = V
  BY <1>1, <1>2, OrderlyFin
<1> QED
  BY <1>3, LocksStep

\* And a report, with the wake it called.
LEMMA LocksReport ==
    ASSUME IInv, Locks, NEW t \in tasks, t.pc \in FinPC, NEW W, ReportShape(t, W)
    PROVE  Locks'
<1>1. PICK V : /\ Evolves({t}, V \cup W, {}) /\ Finalizers(V, t, t.ret)
               /\ Calls(W, Parent[t.s])
  BY DEF ReportShape
<1>2. /\ t.lk \/ t.ret \in {"end", "tail", "walk"}
      /\ t.ret \notin {"queued", "rpush"}
  BY Types DEF Locks, Holding, Task
<1>3. t.kind = "cascade" => Aloof(t)
  BY DEF Locks
<1>4. \A w \in W : Spawned(w, {"wake", "flush"})
  BY <1>1 DEF Calls
<1>5. PICK N : N = V \cup W
  OBVIOUS
<1>6. PICK ret : ret = t.ret
  OBVIOUS
<1>7. /\ Finalizers(V, t, ret) /\ (t.lk \/ ret \in {"end", "tail", "walk"})
      /\ ret \notin {"queued", "rpush"}
  BY <1>1, <1>2, <1>6
<1>8. Orderly(t, N)
  BY <1>3, <1>4, <1>5, <1>7, OrderlyFin
<1> QED
  BY <1>1, <1>5, <1>8, LocksStep

\* The steps of a turn keep the locks.
LEMMA TurnLocks ==
    ASSUME IInv, Locks, NEW t \in tasks,
           \/ SpawnArm(t) \/ SpawnLaunch(t) \/ RetryGo(t) \/ TurnStep(t)
           \/ AutoRetry(t) \/ Interrupt(t)
           \/ \E out \in {"ok", "error", "recursion"} : StreamEnd(t, out)
    PROVE  Locks'
<1> USE DEF FinPC, Aloof
<1>1. t \in Task /\ (t.kind = "cascade" => Aloof(t))
      /\ (Holding(t) => t.lk)
  BY Types DEF Locks
<1>2. CASE SpawnArm(t)
  BY <1>1, <1>2, SpawnArmShape, LocksAlone DEF Goes, Likewise, Holding
<1>3. CASE SpawnLaunch(t)
  BY <1>1, <1>3, SpawnLaunchShape, LocksAlone DEF Goes, Likewise, Holding
<1>4. CASE RetryGo(t)
  BY <1>1, <1>4, RetryGoShape, LocksAlone DEF Goes, Holding, RetryGo
<1>5. CASE BriefStart(t)
  <2>1. CASE \E V : Evolves({t}, V, {t.s}) /\ Finalizers(V, t, "end")
    BY <2>1, LocksFin
  <2>2. CASE \E u : Alone(u, t, {}) /\ Goes(u, t, "queued") /\ Likewise(u, t)
    BY <1>1, <1>5, <2>2, LocksAlone DEF Goes, Likewise, Holding, BriefStart
  <2> QED
    BY <1>5, <2>1, <2>2, BriefStartShape
<1>6. CASE StartTurn(t)
  <2>1. t.kind # "cascade" /\ ~Locked(t.s)
    BY <1>6 DEF StartTurn, Locks
  <2> QED
    BY <1>1, <1>6, <2>1, StartTurnShape, LocksAlone DEF Goes, Holding
<1>7. CASE Absorb(t)
  BY <1>7 DEF Absorb, Locks
<1>8. CASE AutoRetry(t)
  <2>1. t.kind # "cascade" /\ t.lk
    BY <1>1, <1>8 DEF AutoRetry, Holding
  <2> QED
    BY <1>1, <1>8, <2>1, AutoRetryShape, LocksAlone DEF Goes, Holding
<1>9. CASE Interrupt(t)
  <2>1. t.lk
    BY <1>1, <1>9 DEF Interrupt, Holding
  <2> QED
    BY <1>1, <1>9, <2>1, InterruptShape, LocksAlone DEF Goes, Likewise, Holding
<1>10. CASE \E out \in {"ok", "error", "recursion"} : StreamEnd(t, out)
  <2>1. t.lk
    BY <1>1, <1>10 DEF StreamEnd, Streaming, Holding
  <2> QED
    BY <1>10, <2>1, StreamEndShape, LocksOver
<1>11. CASE StreamStop(t)
  <2>1. t.lk /\ t.kind # "cascade"
    BY <1>1, <1>11 DEF StreamStop, Streaming, Holding
  <2>2. PICK C, V :
             /\ C \in SUBSET Spawning(t.s)
             /\ Evolves({t} \cup C, V, {t.s}) /\ Finalizers(V, t, "seg")
    BY <1>11, StreamStopShape
  <2>3. PICK X : X = {t} \cup C
    OBVIOUS
  <2>4. PICK W : W = {}
    OBVIOUS
  <2>5. Orderly(t, V \cup W) /\ V \cup W = V
    BY <2>1, <2>2, <2>4, OrderlyFin
  <2>6. t \in X /\ Evolves(X, V, {t.s})
    BY <2>2, <2>3
  <2> QED
    BY <2>5, <2>6, LocksKept
<1>12. CASE SegEnd(t)
  <2>1. t.lk
    BY <1>1, <1>12 DEF SegEnd, Holding
  <2> QED
    BY <1>12, <2>1, SegEndShape, LocksOver
<1>13. CASE ParkEnd(t)
  <2>1. t.lk
    BY <1>1, <1>13 DEF ParkEnd, Holding
  <2> QED
    BY <1>13, <2>1, ParkEndShape, LocksOver
<1>14. CASE Settle(t)
  BY <1>14, SettleShape, LocksOver
<1>15. CASE WaitPush(t)
  <2>1. PICK N : N = {}
    OBVIOUS
  <2>2. Evolves({t}, N, {}) /\ Orderly(t, N)
    BY <1>15, <2>1, EndsShape DEF WaitPush, Orderly
  <2> QED
    BY <2>2, LocksStep
<1> QED
  BY <1>2, <1>3, <1>4, <1>5, <1>6, <1>7, <1>8, <1>9, <1>10, <1>11, <1>12,
     <1>13, <1>14, <1>15 DEF TurnStep

\* What only ends keeps the locks.
LEMMA LocksEnd ==
    ASSUME IInv, Locks, NEW t \in tasks, NEW D, Evolves({t}, {}, D)
    PROVE  Locks'
<1>1. PICK N : N = {}
  OBVIOUS
<1>2. Evolves({t}, N, D) /\ Orderly(t, N)
  BY <1>1 DEF Orderly
<1> QED
  BY <1>2, LocksStep

\* The steps of a report keep the locks.
LEMMA ReportLocks ==
    ASSUME IInv, Locks, NEW t \in tasks, ReportStep(t)
    PROVE  Locks'
<1> USE DEF FinPC, Aloof
<1>1. t \in Task /\ (t.kind = "cascade" => Aloof(t))
      /\ (Holding(t) => t.lk)
  BY Types DEF Locks
<1>2. CASE FinReport(t)
  <2>1. PICK u : Alone(u, t, {}) /\ Goes(u, t, "push") /\ Likewise(u, t)
    BY <1>2, FinReportShape
  <2>2. t.pc = "report"
    BY <1>2 DEF FinReport
  <2>3. Holding(u) => Holding(t)
    BY <2>1, <2>2 DEF Goes, Holding
  <2> QED
    BY <1>1, <2>1, <2>3, LocksAlone DEF Goes, Likewise
<1>3. CASE FinStopped(t)
  <2>1. t.pc \in FinPC
    BY <1>3 DEF FinStopped
  <2> QED
    BY <1>3, <2>1, FinStoppedShape, LocksReport
<1>4. CASE FinInject(t)
  <2>1. t.pc \in FinPC
    BY <1>4 DEF FinInject
  <2> QED
    BY <1>4, <2>1, FinInjectShape, LocksReport
<1>5. CASE FlushRun(t)
  <2>1. PICK W : Evolves({t}, W, {}) /\ Calls(W, t.s)
    BY <1>5, FlushRunShape
  <2>2. Orderly(t, W)
    BY <2>1 DEF Calls, Spawned, Orderly, Holding
  <2> QED
    BY <2>1, <2>2, LocksStep
<1>6. CASE WakeRefused(t)
  BY <1>6, EndsShape, LocksEnd DEF WakeRefused
<1>7. CASE WakeEnter(t)
  <2>1. ~Locked(t.s) /\ t.kind # "cascade"
    BY <1>7 DEF WakeEnter
  <2>2. CASE \E D : Evolves({t}, {}, D)
    BY <2>2, LocksEnd
  <2>3. CASE \E u : /\ Alone(u, t, {}) /\ u.lk
                    /\ Goes(u, t, "flip") \/ Goes(u, t, "stream")
    BY <2>1, <2>3, LocksAlone DEF Goes
  <2> QED
    BY <1>7, <2>2, <2>3, WakeEnterShape
<1>8. CASE WakeFlipped(t)
  <2>1. t.lk /\ t.kind # "cascade"
    BY <1>1, <1>8 DEF WakeFlipped, Holding
  <2>2. CASE \E V : Evolves({t}, V, {t.s}) /\ Finalizers(V, t, "unmark")
    BY <2>1, <2>2, LocksFin
  <2>3. CASE \E u : Alone(u, t, {}) /\ u.lk /\ Goes(u, t, "stream")
    BY <2>1, <2>3, LocksAlone DEF Goes
  <2> QED
    BY <1>8, <2>2, <2>3, WakeFlippedShape
<1>9. CASE Unmark(t)
  BY <1>9, EndsShape, LocksEnd DEF Unmark
<1> QED
  BY <1>2, <1>3, <1>4, <1>5, <1>6, <1>7, <1>8, <1>9 DEF ReportStep

\* The steps of a stop keep the locks.
LEMMA StopLocks ==
    ASSUME IInv, Locks, NEW t \in tasks, StopStep(t)
    PROVE  Locks'
<1> USE DEF FinPC, Aloof
<1>1. t \in Task /\ (t.kind = "cascade" => Aloof(t))
      /\ (Holding(t) => t.lk)
  BY Types DEF Locks
<1>2. CASE StopIfWaiting(t)
  <2>1. PICK u, V : /\ Evolves({t}, V, {}) /\ Finalizers(V, u, "end")
                    /\ u.s = t.s /\ u.kind = "stopif" /\ ~Locked(t.s)
    BY <1>2, StopIfWaitingShape
  <2>2. \A v \in V : ~Holding(v) /\ v.kind # "cascade" /\ v.s = t.s
    BY <2>1 DEF Finalizers, Finalizer, Onward, Holding
  <2>3. Orderly(t, V)
    BY <2>1, <2>2 DEF Orderly, Finalizers
  <2> QED
    BY <2>1, <2>3, LocksStep
<1>3. CASE CascadeEnd(t)
  BY <1>3, CascadeEndShape, LocksEnd
<1>4. CASE CascadeParked(t)
  <2>1. PICK u : /\ Alone(u, t, {}) /\ u.pc = "heal" /\ u.kind = "cascade"
                 /\ u.lk = t.lk /\ u.nested = t.nested /\ t.kind = "cascade"
    BY <1>4, CascadeParkedShape DEF AtCascade
  <2> QED
    BY <1>1, <2>1, LocksAlone DEF Holding
<1>5. CASE CascadeIdle(t)
  <2>1. PICK u, V : /\ Evolves({t}, V, {}) /\ Finalizers(V, u, "walk")
                    /\ u.kind = "cascade" /\ u.lk = t.lk /\ u.nested = t.nested
                    /\ t.kind = "cascade"
    BY <1>5, CascadeIdleShape DEF AtCascade
  <2>2. \A v \in V : ~Holding(v) /\ Aloof(v)
    BY <1>1, <2>1 DEF Finalizers, Finalizer, Onward, Holding
  <2>3. Orderly(t, V)
    BY <2>1, <2>2 DEF Orderly, Finalizers
  <2> QED
    BY <2>1, <2>3, LocksStep
<1>6. CASE HealLocked(t)
  BY <1>1, <1>6, HealLockedShape, LocksAlone DEF Goes, Likewise, Holding
<1>7. CASE HealStop(t)
  BY <1>7, HealStopShape, LocksFin
<1>8. CASE HealTail(t)
  <2>1. PICK R, V : /\ Evolves({t}, R \cup V, {}) /\ Reconciles(R, t.s)
                    /\ Walks(V, t)
    BY <1>8, HealTailShape
  <2>2. \A v \in V : ~Holding(v) /\ Aloof(v)
    BY <1>1, <2>1 DEF Walks, Goes, Likewise, Holding
  <2>3. \A v \in R : ~Holding(v) /\ Aloof(v)
    BY <2>1, WakesSpawned DEF Reconciles, Spawned, Holding
  <2>4. PICK N : N = R \cup V
    OBVIOUS
  <2>5. Orderly(t, N)
    BY <2>2, <2>3, <2>4 DEF Orderly
  <2> QED
    BY <2>1, <2>4, <2>5, LocksStep
<1> QED
  BY <1>2, <1>3, <1>4, <1>5, <1>6, <1>7, <1>8 DEF StopStep

\* The steps of the user and of the spawns keep the locks.
LEMMA UserLocks ==
    ASSUME IInv, Locks,
           \/ \E c \in Subagent : SpawnCreate(c)
           \/ \E s \in Session : Invoke(s) \/ Answer(s) \/ Stop(s) \/ Retry(s)
           \/ \E s \in Session : TimerFire(s)
           \/ Restart
    PROVE  Locks'
<1> USE DEF FinPC, Aloof
<1>1. ASSUME NEW n, Evolves({}, {n}, {}), ~Holding(n), ~n.lk,
             n.kind = "cascade" => Aloof(n)
      PROVE  Locks'
  <2>1. PICK N : N = {n}
    OBVIOUS
  <2> QED
    BY <1>1, <2>1, LocksJoin
<1>2. CASE \E c \in Subagent : SpawnCreate(c)
  <2>1. PICK n : /\ Evolves({}, {n}, {}) /\ n.kind = "brief" /\ n.pc = "create"
                 /\ ~n.lk
    BY <1>2, SpawnCreateShape
  <2> QED
    BY <1>1, <2>1 DEF Holding
<1>3. CASE \E s \in Session : Invoke(s) \/ Answer(s)
  <2>1. PICK s, n : s \in Session /\ Evolves({}, {n}, {}) /\ Socket(n, s)
    BY <1>3, InvokeShape, AnswerShape
  <2> QED
    BY <1>1, <2>1 DEF Socket, Holding, WsKind
<1>4. CASE \E s \in Session : Retry(s)
  BY <1>1, <1>4, RetryShape DEF Holding
<1>5. CASE \E s \in Session : TimerFire(s)
  <2>1. PICK s, W : s \in Session /\ Evolves({}, W, {}) /\ Calls(W, s)
    BY <1>5, TimerFireShape
  <2>2. \A v \in W : ~Holding(v) /\ ~v.lk /\ v.kind # "cascade"
    BY <2>1 DEF Calls, Spawned, Holding
  <2> QED
    BY <2>1, <2>2, LocksJoin
<1>6. CASE \E s \in Session : Stop(s)
  <2>1. PICK s \in Session : Stop(s)
    BY <1>6
  <2>2. PICK B : /\ Stopping(B, s)
                 /\ \/ \E h : Evolves({}, B \cup {h}, {}) /\ Healing(h, s)
                    \/ Evolves({}, B, {})
    BY <2>1, StopShape
  <2>3. \A v \in B : ~Holding(v) /\ ~v.lk /\ Aloof(v)
    BY <2>2 DEF Stopping, Spawned, Holding
  <2>4. CASE Evolves({}, B, {})
    BY <2>3, <2>4, LocksJoin
  <2>5. CASE \E h : Evolves({}, B \cup {h}, {}) /\ Healing(h, s)
    <3>1. PICK h : Evolves({}, B \cup {h}, {}) /\ Healing(h, s)
      BY <2>5
    <3>2. PICK N : N = B \cup {h}
      OBVIOUS
    <3>3. \A v \in N : ~Holding(v) /\ ~v.lk /\ Aloof(v)
      BY <2>3, <3>1, <3>2 DEF Healing, Holding
    <3> QED
      BY <3>1, <3>2, <3>3, LocksJoin
  <2> QED
    BY <2>2, <2>4, <2>5
<1>7. CASE Restart
  BY <1>7 DEF Restart, Locks
<1> QED
  BY <1>2, <1>3, <1>4, <1>5, <1>6, <1>7

\* Whatever happens, at most one coroutine holds the turn lock of a session.
LEMMA LocksNext ==
    ASSUME IInv, Locks, [Next]_vars
    PROVE  Locks'
<1>1. CASE UNCHANGED vars
  BY <1>1 DEF vars, Locks
<1>2. CASE System
  BY <1>2, TurnLocks, ReportLocks, StopLocks, UserLocks DEF System
<1>3. CASE Outside
  BY <1>3, TurnLocks, UserLocks DEF Outside
<1> QED
  BY <1>1, <1>2, <1>3 DEF Next

----------------------------------------------------------------------------
(* Questions can be answered (ParkAnswerable).                             *)

\* A session that asks meets no transient failure, and the process does not
\* die once it may have asked: both lose the question (section 3.3 of the
\* README).
Answerable == \A script \in Scripts : \A s \in Session :
    <<"interrupt", s>> \in script =>
        <<"transient", s>> \notin script /\ <<"restart", Root>> \notin script

\* A turn that streams has no question open, a nested segment never asks,
\* and whoever asks is parked or about to be answered or healed.
Askable ==
    /\ \A t \in tasks : t.pc = "stream" => ~asking[t.s]
    /\ \A t \in tasks : t.nested => t.pc # "drain" /\ <<"interrupt", t.s>> \notin left
    /\ \A s \in Session : asking[s] =>
         parked[s] \/ \E t \in tasks : t.s = s /\ t.pc \in {"queued", "heal"}
    /\ \A s \in Session : asking[s] => <<"restart", Root>> \notin left

\* what the coroutines of N, in place of t, have to do with questions
Mild(N, t) == \A v \in N :
    v.pc \notin {"stream", "drain"} /\ (v.nested => t.nested /\ v.s = t.s)

\* A step that opens no question, and gives up no coroutine or entry by
\* which one is answered, keeps Askable.
LEMMA AskableKept ==
    ASSUME IInv, Askable, NEW X, NEW N, NEW D, Evolves(X, N, D),
           left' \subseteq left,
           \A s \in Session : asking'[s] => asking[s],
           \A s \in Session : asking'[s] /\ parked[s] =>
               parked'[s] \/ \E v \in N : v.s = s /\ v.pc \in {"queued", "heal"},
           \A u \in X : u \in tasks /\ u.pc \in {"queued", "heal"} => ~asking'[u.s],
           \A v \in N : v.pc = "stream" => ~asking'[v.s],
           \A v \in N : v.nested => v.pc # "drain" /\ <<"interrupt", v.s>> \notin left
    PROVE  Askable'
<1>1. PICK f : /\ tasks' = {f[u] : u \in tasks \ X} \cup N
               /\ \A u \in tasks \ X : Twin(u, f[u]) /\ Holds(u, f[u], D)
  BY DEF Evolves
<1>2. \A u \in tasks : u.s \in Session
  BY Types DEF Task
<1>3. ASSUME NEW v \in tasks'
      PROVE  /\ v.pc = "stream" => ~asking'[v.s]
             /\ v.nested => v.pc # "drain" /\ <<"interrupt", v.s>> \notin left'
  <2>1. CASE v \in N
    BY <2>1
  <2>2. CASE v \notin N
    <3>1. PICK u \in tasks \ X : v = f[u]
      BY <1>1, <1>3, <2>2
    <3>2. u.s = v.s /\ u.pc = v.pc /\ u.nested = v.nested
      BY <1>1, <3>1 DEF Twin
    <3> QED
      BY <1>2, <3>1, <3>2 DEF Askable
  <2> QED
    BY <2>1, <2>2
<1>4. ASSUME NEW s \in Session, asking'[s]
      PROVE  parked'[s] \/ \E v \in tasks' : v.s = s /\ v.pc \in {"queued", "heal"}
  <2>1. CASE parked[s]
    BY <1>1, <1>4, <2>1
  <2>2. CASE ~parked[s]
    <3>1. PICK u \in tasks : u.s = s /\ u.pc \in {"queued", "heal"}
      BY <1>4, <2>2 DEF Askable
    <3>2. u \in tasks \ X
      BY <1>4, <3>1
    <3>3. f[u] \in tasks' /\ f[u].s = s /\ f[u].pc \in {"queued", "heal"}
      BY <1>1, <3>1, <3>2 DEF Twin
    <3> QED
      BY <3>3
  <2> QED
    BY <2>1, <2>2
<1> QED
  BY <1>3, <1>4 DEF Askable

\* In particular one that leaves questions alone.
LEMMA AskableCalm ==
    ASSUME IInv, Askable, NEW t \in tasks, NEW N, NEW D, Evolves({t}, N, D),
           UNCHANGED <<parked, asking>>, left' \subseteq left,
           t.pc \notin {"queued", "heal"}, Mild(N, t)
    PROVE  Askable'
<1>1. PICK X : X = {t}
  OBVIOUS
<1>2. \A v \in N : v.pc # "stream"
                   /\ (v.nested => v.pc # "drain" /\ <<"interrupt", v.s>> \notin left)
  BY DEF Mild, Askable
<1>3. Evolves(X, N, D) /\ \A u \in X : u.pc \notin {"queued", "heal"}
  BY <1>1
<1> QED
  BY <1>2, <1>3, AskableKept

\* And one in which coroutines only join.
LEMMA AskableJoin ==
    ASSUME IInv, Askable, NEW N, Evolves({}, N, {}), left' \subseteq left,
           UNCHANGED asking,
           \A s \in Session : asking[s] /\ parked[s] =>
               parked'[s] \/ \E v \in N : v.s = s /\ v.pc \in {"queued", "heal"},
           \A v \in N : v.pc # "stream" /\ ~v.nested
    PROVE  Askable'
<1>1. PICK X : X = {}
  OBVIOUS
<1>2. PICK D : D = {}
  OBVIOUS
<1>3. Evolves(X, N, D) /\ X = {}
  BY <1>1, <1>2
<1> QED
  BY <1>3, AskableKept

\* What a gate and the wakes beside it, or a finalizer and what it spawned,
\* have to do with questions.
LEMMA MildOver ==
    ASSUME NEW t, NEW R, NEW V, Reconciles(R, t.s), Leaves(V, t)
    PROVE  Mild(R \cup V, t)
<1>1. \A v \in R : v.pc = "start" /\ ~v.nested
  BY WakesSpawned DEF Reconciles, Spawned
<1>2. \A v \in V : v.pc \notin {"stream", "drain"} /\ (v.nested => t.nested /\ v.s = t.s)
  BY DEF Leaves, Gated, Spawned, Onward, FinPC
<1> QED
  BY <1>1, <1>2 DEF Mild

\* Neither does a finalizer with what it spawned.
LEMMA MildFin ==
    ASSUME NEW t, NEW V, NEW W, NEW ret, Finalizers(V, t, ret),
           ret \notin {"stream", "drain"},
           \A v \in W : Spawned(v, {"wake", "flush"})
    PROVE  Mild(V \cup W, t)
BY DEF Finalizers, Finalizer, Onward, FinPC, Spawned, Mild

\* The end of a segment that leaves the registries of questions alone.
LEMMA AskableOver ==
    ASSUME IInv, Askable, NEW t \in tasks, NEW D, SegmentOver(t, D),
           UNCHANGED <<parked, asking>>, left' \subseteq left,
           t.pc \notin {"queued", "heal"}
    PROVE  Askable'
<1>1. PICK R, V : Evolves({t}, R \cup V, D) /\ Reconciles(R, t.s) /\ Leaves(V, t)
  BY DEF SegmentOver
<1>2. PICK N : N = R \cup V
  OBVIOUS
<1>3. Mild(N, t)
  BY <1>1, <1>2, MildOver
<1> QED
  BY <1>1, <1>2, <1>3, AskableCalm

\* What a finalizer leaves alone likewise.
LEMMA AskableFin ==
    ASSUME IInv, Askable, NEW t \in tasks, NEW V, NEW ret, NEW D,
           Evolves({t}, V, D), Finalizers(V, t, ret),
           ret \notin {"stream", "drain"},
           UNCHANGED <<parked, asking>>, left' \subseteq left,
           t.pc \notin {"queued", "heal"}
    PROVE  Askable'
<1>1. PICK W : W = {}
  OBVIOUS
<1>2. Mild(V \cup W, t) /\ V \cup W = V
  BY <1>1, MildFin
<1> QED
  BY <1>2, AskableCalm

\* A report, with the wake it called, keeps questions answerable.
LEMMA AskableReport ==
    ASSUME IInv, Askable, NEW t \in tasks, t.pc \in FinPC, NEW W, ReportShape(t, W),
           UNCHANGED <<parked, asking>>, left' \subseteq left
    PROVE  Askable'
<1>1. PICK V : /\ Evolves({t}, V \cup W, {}) /\ Finalizers(V, t, t.ret)
               /\ Calls(W, Parent[t.s])
  BY DEF ReportShape
<1>2. PICK N : N = V \cup W
  OBVIOUS
<1>3. PICK ret : ret = t.ret
  OBVIOUS
<1>4. ret \notin {"stream", "drain"} /\ t.pc \notin {"queued", "heal"}
  BY <1>3, Types DEF Task, FinPC
<1>5. Mild(N, t)
  BY <1>1, <1>2, <1>3, <1>4, MildFin DEF Calls
<1> QED
  BY <1>1, <1>2, <1>4, <1>5, AskableCalm

\* A coroutine that goes on as u, and asks nothing.
LEMMA AskableAlone ==
    ASSUME IInv, Askable, NEW t \in tasks, NEW u, NEW D, Alone(u, t, D),
           u.s = t.s, left' \subseteq left, UNCHANGED parked,
           \A s \in Session : asking'[s] => asking[s],
           t.pc \in {"queued", "heal"} \/ u.pc = "stream" => ~asking'[t.s],
           u.nested => u.pc # "drain" /\ <<"interrupt", u.s>> \notin left
    PROVE  Askable'
<1>1. PICK X : X = {t}
  OBVIOUS
<1>2. PICK N : N = {u}
  OBVIOUS
<1>3. Evolves(X, N, D)
  BY <1>1, <1>2 DEF Alone
<1>4. /\ \A v \in X : v \in tasks /\ v.pc \in {"queued", "heal"} => ~asking'[v.s]
      /\ \A v \in N : v.pc = "stream" => ~asking'[v.s]
      /\ \A v \in N : v.nested => v.pc # "drain" /\ <<"interrupt", v.s>> \notin left
  BY <1>1, <1>2
<1> QED
  BY <1>3, <1>4, AskableKept

\* The steps of a spawn and of a turn keep questions answerable.
LEMMA TurnAskable ==
    ASSUME IInv, Locks, Askable, Answerable, NEW t \in tasks,
           \/ SpawnArm(t) \/ SpawnLaunch(t) \/ RetryGo(t) \/ TurnStep(t)
           \/ AutoRetry(t) \/ Interrupt(t)
           \/ \E out \in {"ok", "error", "recursion"} : StreamEnd(t, out)
    PROVE  Askable'
<1> USE DEF FinPC, registries, queues, history
<1>1. /\ t \in Task /\ t.s \in Session
      /\ t.nested => t.pc # "drain" /\ <<"interrupt", t.s>> \notin left
      /\ asking \in [Session -> BOOLEAN] /\ parked \in [Session -> BOOLEAN]
  BY Types DEF Askable, Task, TypeOK
<1>2. CASE SpawnArm(t)
  <2>1. PICK u : Alone(u, t, {}) /\ Goes(u, t, "armed") /\ Likewise(u, t)
    BY <1>2, SpawnArmShape
  <2> QED
    BY <1>1, <1>2, <2>1, AskableAlone DEF Goes, Likewise, SpawnArm
<1>3. CASE SpawnLaunch(t)
  <2>1. PICK u : Alone(u, t, {}) /\ Goes(u, t, "start") /\ Likewise(u, t)
    BY <1>3, SpawnLaunchShape
  <2> QED
    BY <1>1, <1>3, <2>1, AskableAlone DEF Goes, Likewise, SpawnLaunch
<1>4. CASE RetryGo(t)
  <2>1. PICK u : Alone(u, t, {}) /\ Goes(u, t, "queued") /\ u.nested = t.nested
    BY <1>4, RetryGoShape
  <2> QED
    BY <1>1, <1>4, <2>1, AskableAlone DEF Goes, RetryGo
<1>5. CASE BriefStart(t)
  <2>1. t.pc = "start" /\ UNCHANGED <<parked, asking, left>>
    BY <1>5 DEF BriefStart
  <2>2. CASE \E V : Evolves({t}, V, {t.s}) /\ Finalizers(V, t, "end")
    BY <2>1, <2>2, AskableFin
  <2>3. CASE \E u : Alone(u, t, {}) /\ Goes(u, t, "queued") /\ Likewise(u, t)
    <3>1. PICK u : Alone(u, t, {}) /\ Goes(u, t, "queued") /\ Likewise(u, t)
      BY <2>3
    <3> QED
      BY <1>1, <2>1, <3>1, AskableAlone DEF Goes, Likewise
  <2> QED
    BY <1>5, <2>2, <2>3, BriefStartShape
<1>6. CASE StartTurn(t)
  <2>1. PICK u : Alone(u, t, {}) /\ Goes(u, t, "stream") /\ u.nested = t.nested
    BY <1>6, StartTurnShape
  <2>2. /\ asking' = [asking EXCEPT ![t.s] = FALSE]
        /\ UNCHANGED <<parked, left>>
    BY <1>6 DEF StartTurn
  <2>3. ~asking'[t.s] /\ \A s \in Session : asking'[s] => asking[s]
    BY <1>1, <2>2
  <2> QED
    BY <1>1, <2>1, <2>2, <2>3, AskableAlone DEF Goes
<1>7. CASE Absorb(t)
  BY <1>7 DEF Absorb, Askable
<1>8. CASE AutoRetry(t)
  <2>1. PICK u : Alone(u, t, {}) /\ Goes(u, t, "stream")
    BY <1>8, AutoRetryShape
  <2>2. /\ <<"transient", t.s>> \in left /\ left' \subseteq left
        /\ UNCHANGED <<parked, asking>> /\ t.pc = "stream"
    BY <1>8 DEF AutoRetry, Take
  <2>3. <<"interrupt", t.s>> \notin left
    BY <1>1, <2>2, Types DEF Answerable, TypeOK
  <2>4. ~asking'[t.s]
    BY <2>2 DEF Askable
  <2> QED
    BY <2>1, <2>2, <2>3, <2>4, AskableAlone DEF Goes
<1>9. CASE Interrupt(t)
  <2>1. PICK u : Alone(u, t, {}) /\ Goes(u, t, "drain") /\ Likewise(u, t)
    BY <1>9, InterruptShape
  <2>2. /\ <<"interrupt", t.s>> \in left /\ left' \subseteq left /\ t.pc = "stream"
        /\ parked' = [parked EXCEPT ![t.s] = TRUE]
        /\ asking' = [asking EXCEPT ![t.s] = TRUE]
    BY <1>9 DEF Interrupt, Take
  <2>3. t.lk /\ ~t.nested
    BY <1>1, <2>2 DEF Locks, Holding
  <2>4. PICK f : /\ tasks' = {f[v] : v \in tasks \ {t}} \cup {u}
                 /\ \A v \in tasks \ {t} : Twin(v, f[v]) /\ Holds(v, f[v], {})
    BY <2>1 DEF Alone, Evolves
  <2>5. ASSUME NEW w \in tasks'
        PROVE  /\ w.pc = "stream" => ~asking'[w.s]
               /\ w.nested => w.pc # "drain" /\ <<"interrupt", w.s>> \notin left'
    <3>1. CASE w = u
      BY <2>1, <2>3, <3>1 DEF Goes, Likewise
    <3>2. CASE w # u
      <4>1. PICK v \in tasks \ {t} : w = f[v]
        BY <2>4, <2>5, <3>2
      <4>2. /\ v.s = w.s /\ v.pc = w.pc /\ v.nested = w.nested /\ v.lk = w.lk
            /\ v.s \in Session
        BY <2>4, <4>1, Types DEF Twin, Task
      <4>3. w.pc = "stream" => v.s # t.s /\ ~asking[v.s]
        BY <2>3, <4>1, <4>2 DEF Locks, Holding, Askable
      <4>4. w.pc = "stream" => ~asking'[w.s]
        BY <1>1, <2>2, <4>2, <4>3
      <4>5. w.nested => w.pc # "drain" /\ <<"interrupt", w.s>> \notin left'
        BY <2>2, <4>1, <4>2 DEF Askable
      <4> QED
        BY <4>4, <4>5
    <3> QED
      BY <3>1, <3>2
  <2>6. ASSUME NEW s \in Session, asking'[s]
        PROVE  /\ parked'[s] \/ \E v \in tasks' : v.s = s /\ v.pc \in {"queued", "heal"}
               /\ <<"restart", Root>> \notin left'
    <3>1. <<"restart", Root>> \notin left'
      BY <1>1, <2>2, Types DEF Answerable, TypeOK
    <3>2. CASE s = t.s
      BY <1>1, <2>2, <3>1, <3>2
    <3>3. CASE s # t.s /\ parked[s]
      BY <1>1, <2>2, <3>1, <3>3
    <3>4. CASE s # t.s /\ ~parked[s]
      <4>1. asking[s]
        BY <1>1, <2>2, <2>6, <3>4
      <4>2. PICK v \in tasks : v.s = s /\ v.pc \in {"queued", "heal"}
        BY <3>4, <4>1 DEF Askable
      <4>3. v \in tasks \ {t}
        BY <3>4, <4>2
      <4>4. f[v] \in tasks' /\ f[v].s = s /\ f[v].pc \in {"queued", "heal"}
        BY <2>4, <4>2, <4>3 DEF Twin
      <4> QED
        BY <3>1, <4>4
    <3> QED
      BY <3>2, <3>3, <3>4
  <2> QED
    BY <2>5, <2>6 DEF Askable
<1>10. CASE \E out \in {"ok", "error", "recursion"} : StreamEnd(t, out)
  <2>1. PICK out \in {"ok", "error", "recursion"} : StreamEnd(t, out)
    BY <1>10
  <2>2. /\ parked' = [parked EXCEPT ![t.s] = FALSE] /\ UNCHANGED asking
        /\ t.pc = "stream" /\ left' \subseteq left
    BY <1>1, <2>1 DEF StreamEnd, Streaming, Take
  <2>3. t.lk
    BY <2>2 DEF Locks, Holding
  <2>4. PICK R, V : Evolves({t}, R \cup V, {t.s}) /\ Reconciles(R, t.s) /\ Leaves(V, t)
    BY <2>1, <2>3, StreamEndShape DEF SegmentOver
  <2>5. PICK N : N = R \cup V
    OBVIOUS
  <2>6. PICK X : X = {t}
    OBVIOUS
  <2>7. Mild(N, t)
    BY <2>4, <2>5, MildOver
  <2>8. Evolves(X, N, {t.s})
    BY <2>4, <2>5, <2>6
  <2>9. ~asking[t.s]
    BY <2>2 DEF Askable
  <2>10. \A s \in Session : asking'[s] /\ parked[s] => parked'[s]
    BY <1>1, <2>2, <2>9
  <2>11. \A v \in N : v.pc # "stream"
                      /\ (v.nested => v.pc # "drain" /\ <<"interrupt", v.s>> \notin left)
    BY <1>1, <2>7 DEF Mild
  <2>12. \A u \in X : u.pc \notin {"queued", "heal"}
    BY <2>2, <2>6
  <2> QED
    BY <2>2, <2>8, <2>10, <2>11, <2>12, AskableKept
<1>11. CASE StreamStop(t)
  <2>1. /\ parked' = [parked EXCEPT ![t.s] = FALSE]
        /\ asking' = [asking EXCEPT ![t.s] = FALSE]
        /\ t.pc = "stream" /\ UNCHANGED left
    BY <1>1, <1>11 DEF StreamStop, Streaming
  <2>2. PICK C, V :
             /\ C \in SUBSET Spawning(t.s)
             /\ Evolves({t} \cup C, V, {t.s}) /\ Finalizers(V, t, "seg")
    BY <1>11, StreamStopShape
  <2>3. PICK X : X = {t} \cup C
    OBVIOUS
  <2>4. PICK W : W = {}
    OBVIOUS
  <2>5. Mild(V \cup W, t) /\ V \cup W = V
    BY <2>2, <2>4, MildFin
  <2>6. \A v \in V : v.pc # "stream"
                     /\ (v.nested => v.pc # "drain" /\ <<"interrupt", v.s>> \notin left)
    BY <1>1, <2>5 DEF Mild
  <2>7. \A u \in X : u.pc \notin {"queued", "heal"}
    BY <2>1, <2>2, <2>3 DEF Spawning
  <2>8. /\ \A s \in Session : asking'[s] => asking[s]
        /\ \A s \in Session : asking'[s] /\ parked[s] => parked'[s]
    BY <1>1, <2>1
  <2>9. Evolves(X, V, {t.s})
    BY <2>2, <2>3
  <2> QED
    BY <2>1, <2>6, <2>7, <2>8, <2>9, AskableKept
<1>12. CASE SegEnd(t)
  <2>1. t.lk /\ t.pc = "seg" /\ UNCHANGED <<parked, asking, left>>
    BY <1>12 DEF SegEnd, Locks, Holding
  <2> QED
    BY <1>12, <2>1, SegEndShape, AskableOver
<1>13. CASE ParkEnd(t)
  <2>1. t.lk /\ t.pc = "drain" /\ UNCHANGED <<parked, asking, left>>
    BY <1>13 DEF ParkEnd, Locks, Holding
  <2> QED
    BY <1>13, <2>1, ParkEndShape, AskableOver
<1>14. CASE Settle(t)
  <2>1. t.pc = "start" /\ UNCHANGED <<parked, asking, left>>
    BY <1>14 DEF Settle
  <2> QED
    BY <1>14, <2>1, SettleShape, AskableOver
<1>15. CASE WaitPush(t)
  <2>1. PICK N : N = {}
    OBVIOUS
  <2>2. /\ Evolves({t}, N, {}) /\ Mild(N, t) /\ t.pc = "wpush"
        /\ UNCHANGED <<parked, asking, left>>
    BY <1>15, <2>1, EndsShape DEF WaitPush, Mild
  <2> QED
    BY <2>2, AskableCalm
<1> QED
  BY <1>2, <1>3, <1>4, <1>5, <1>6, <1>7, <1>8, <1>9, <1>10, <1>11, <1>12,
     <1>13, <1>14, <1>15 DEF TurnStep

\* So does what only ends.
LEMMA AskableEnd ==
    ASSUME IInv, Askable, NEW t \in tasks, NEW D, Evolves({t}, {}, D),
           UNCHANGED <<parked, asking>>, left' \subseteq left,
           t.pc \notin {"queued", "heal"}
    PROVE  Askable'
<1>1. PICK N : N = {}
  OBVIOUS
<1>2. Evolves({t}, N, D) /\ Mild(N, t)
  BY <1>1 DEF Mild
<1> QED
  BY <1>2, AskableCalm

\* A wake that streams keeps questions answerable.
LEMMA WakeAskable ==
    ASSUME IInv, Askable, NEW t \in tasks, NEW u, Alone(u, t, {}),
           Goes(u, t, "stream"), u.nested = t.nested, UNCHANGED <<parked, left>>,
           asking' = [asking EXCEPT ![t.s] = FALSE]
    PROVE  Askable'
<1>1. /\ t.nested => <<"interrupt", t.s>> \notin left
      /\ t.s \in Session /\ asking \in [Session -> BOOLEAN]
  BY Types DEF Askable, Task, TypeOK
<1>2. ~asking'[t.s] /\ \A s \in Session : asking'[s] => asking[s]
  BY <1>1
<1> QED
  BY <1>1, <1>2, AskableAlone DEF Goes

\* The steps of a report keep questions answerable.
LEMMA ReportAskable ==
    ASSUME IInv, Locks, Askable, NEW t \in tasks, ReportStep(t)
    PROVE  Askable'
<1> USE DEF FinPC, registries, queues, history
<1>1. /\ t \in Task /\ t.s \in Session
      /\ t.nested => t.pc # "drain" /\ <<"interrupt", t.s>> \notin left
  BY Types DEF Askable, Task
<1>2. CASE FinReport(t)
  <2>1. PICK u : Alone(u, t, {}) /\ Goes(u, t, "push") /\ Likewise(u, t)
    BY <1>2, FinReportShape
  <2>2. UNCHANGED <<parked, asking, left>> /\ t.pc = "report"
    BY <1>2 DEF FinReport
  <2> QED
    BY <1>1, <2>1, <2>2, AskableAlone DEF Goes, Likewise
<1>3. CASE FinStopped(t)
  <2>1. UNCHANGED <<parked, asking, left>> /\ t.pc \in FinPC
    BY <1>3 DEF FinStopped
  <2> QED
    BY <1>3, <2>1, FinStoppedShape, AskableReport
<1>4. CASE FinInject(t)
  <2>1. UNCHANGED <<parked, asking, left>> /\ t.pc \in FinPC
    BY <1>4 DEF FinInject
  <2> QED
    BY <1>4, <2>1, FinInjectShape, AskableReport
<1>5. CASE FlushRun(t)
  <2>1. PICK W : Evolves({t}, W, {}) /\ Calls(W, t.s)
    BY <1>5, FlushRunShape
  <2>2. Mild(W, t)
    BY <2>1 DEF Calls, Spawned, Mild
  <2>3. UNCHANGED <<parked, asking, left>> /\ t.pc = "start"
    BY <1>5 DEF FlushRun
  <2> QED
    BY <2>1, <2>2, <2>3, AskableCalm
<1>6. CASE WakeRefused(t)
  <2>1. UNCHANGED <<parked, asking, left>> /\ t.pc = "start"
    BY <1>6 DEF WakeRefused
  <2> QED
    BY <1>6, <2>1, EndsShape, AskableEnd DEF WakeRefused
<1>7. CASE WakeEnter(t)
  <2>1. UNCHANGED <<parked, left>> /\ t.pc = "start"
    BY <1>7 DEF WakeEnter
  <2>2. CASE \E D : Evolves({t}, {}, D) /\ UNCHANGED asking
    BY <2>1, <2>2, AskableEnd
  <2>3. CASE UNCHANGED asking /\ \E u : /\ Alone(u, t, {}) /\ Goes(u, t, "flip")
                                        /\ u.nested = t.nested
    <3>1. PICK u : /\ Alone(u, t, {}) /\ Goes(u, t, "flip") /\ u.nested = t.nested
      BY <2>3
    <3> QED
      BY <1>1, <2>1, <2>3, <3>1, AskableAlone DEF Goes
  <2>4. CASE /\ asking' = [asking EXCEPT ![t.s] = FALSE]
             /\ \E u : /\ Alone(u, t, {}) /\ Goes(u, t, "stream")
                       /\ u.nested = t.nested
    BY <2>1, <2>4, WakeAskable
  <2> QED
    BY <1>7, <2>2, <2>3, <2>4, WakeEnterShape
<1>8. CASE WakeFlipped(t)
  <2>1. UNCHANGED <<parked, left>> /\ t.pc = "flip"
    BY <1>8 DEF WakeFlipped
  <2>2. CASE UNCHANGED asking
             /\ \E V : Evolves({t}, V, {t.s}) /\ Finalizers(V, t, "unmark")
    BY <2>1, <2>2, AskableFin
  <2>3. CASE /\ asking' = [asking EXCEPT ![t.s] = FALSE]
             /\ \E u : /\ Alone(u, t, {}) /\ Goes(u, t, "stream")
                       /\ u.nested = t.nested
    BY <2>1, <2>3, WakeAskable
  <2> QED
    BY <1>8, <2>2, <2>3, WakeFlippedShape
<1>9. CASE Unmark(t)
  <2>1. UNCHANGED <<parked, asking, left>> /\ t.pc = "unmark"
    BY <1>9 DEF Unmark
  <2> QED
    BY <1>9, <2>1, EndsShape, AskableEnd DEF Unmark
<1> QED
  BY <1>2, <1>3, <1>4, <1>5, <1>6, <1>7, <1>8, <1>9 DEF ReportStep

\* The steps of a stop keep questions answerable.
LEMMA StopAskable ==
    ASSUME IInv, Locks, Askable, NEW t \in tasks, StopStep(t)
    PROVE  Askable'
<1> USE DEF FinPC, registries, queues, history
<1>1. /\ t \in Task /\ t.s \in Session
      /\ t.nested => t.pc # "drain" /\ <<"interrupt", t.s>> \notin left
      /\ t.kind = "cascade" => ~t.nested
  BY Types DEF Askable, Task, Locks, Aloof
<1>2. asking \in [Session -> BOOLEAN] /\ parked \in [Session -> BOOLEAN]
  BY Types DEF TypeOK
<1>3. CASE StopIfWaiting(t)
  <2>1. PICK u, V : /\ Evolves({t}, V, {}) /\ Finalizers(V, u, "end")
                    /\ u.s = t.s /\ u.nested = t.nested
    BY <1>3, StopIfWaitingShape
  <2>2. PICK W : W = {}
    OBVIOUS
  <2>3. Mild(V \cup W, u) /\ V \cup W = V
    BY <2>1, <2>2, MildFin
  <2>4. Mild(V, t)
    BY <2>1, <2>3 DEF Mild
  <2>5. UNCHANGED <<parked, asking, left>> /\ t.pc = "start"
    BY <1>3 DEF StopIfWaiting
  <2> QED
    BY <2>1, <2>4, <2>5, AskableCalm
<1>4. CASE CascadeEnd(t)
  <2>1. UNCHANGED <<parked, asking, left>> /\ t.pc \in {"start", "walk"}
    BY <1>4 DEF CascadeEnd, AtCascade
  <2> QED
    BY <1>4, <2>1, CascadeEndShape, AskableEnd
<1>5. CASE CascadeParked(t)
  <2>1. PICK x, S, u :
                    /\ x \in ToVisit(t) /\ S \in SUBSET ToVisit(t)
                    /\ parked' = [parked EXCEPT ![x] = FALSE]
                    /\ Alone(u, t, {}) /\ u.s = x /\ u.pc = "heal"
                    /\ u.nested = t.nested
    BY <1>5, CascadeParkedShape
  <2>2. UNCHANGED <<asking, left>> /\ t.pc \in {"start", "walk"} /\ ~t.nested
    BY <1>1, <1>5 DEF CascadeParked, AtCascade
  <2>3. PICK X : X = {t}
    OBVIOUS
  <2>4. PICK N : N = {u}
    OBVIOUS
  <2>5. Evolves(X, N, {})
    BY <2>1, <2>3, <2>4 DEF Alone
  <2>6. \A s \in Session : parked[s] =>
            parked'[s] \/ \E v \in N : v.s = s /\ v.pc \in {"queued", "heal"}
    BY <1>2, <2>1, <2>4
  <2>7. /\ \A v \in X : v.pc \notin {"queued", "heal"}
        /\ \A v \in N : v.pc # "stream" /\ ~v.nested
    BY <2>1, <2>2, <2>3, <2>4
  <2> QED
    BY <2>2, <2>5, <2>6, <2>7, AskableKept
<1>6. CASE CascadeIdle(t)
  <2>1. PICK u, V : /\ Evolves({t}, V, {}) /\ Finalizers(V, u, "walk")
                    /\ u.nested = t.nested
    BY <1>6, CascadeIdleShape
  <2>2. PICK W : W = {}
    OBVIOUS
  <2>3. Mild(V \cup W, u) /\ V \cup W = V
    BY <2>1, <2>2, MildFin
  <2>4. UNCHANGED <<parked, asking, left>> /\ t.pc \in {"start", "walk"} /\ ~t.nested
    BY <1>1, <1>6 DEF CascadeIdle, AtCascade
  <2>5. Mild(V, t)
    BY <2>1, <2>3, <2>4 DEF Mild
  <2> QED
    BY <2>1, <2>4, <2>5, AskableCalm
<1>7. CASE HealLocked(t)
  <2>1. PICK u : Alone(u, t, {}) /\ Goes(u, t, "bcast") /\ Likewise(u, t)
    BY <1>7, HealLockedShape
  <2>2. /\ asking' = [asking EXCEPT ![t.s] = FALSE]
        /\ UNCHANGED <<parked, left>>
    BY <1>7 DEF HealLocked
  <2>3. ~asking'[t.s] /\ \A s \in Session : asking'[s] => asking[s]
    BY <1>1, <1>2, <2>2
  <2> QED
    BY <1>1, <2>1, <2>2, <2>3, AskableAlone DEF Goes, Likewise
<1>8. CASE HealStop(t)
  <2>1. UNCHANGED <<parked, asking, left>> /\ t.pc = "bcast"
    BY <1>8 DEF HealStop
  <2> QED
    BY <1>8, <2>1, HealStopShape, AskableFin
<1>9. CASE HealTail(t)
  <2>1. PICK R, V : /\ Evolves({t}, R \cup V, {}) /\ Reconciles(R, t.s)
                    /\ Walks(V, t)
    BY <1>9, HealTailShape
  <2>2. \A v \in R : v.pc = "start" /\ ~v.nested
    BY <2>1, WakesSpawned DEF Reconciles, Spawned
  <2>3. \A v \in V : v.pc = "walk" /\ v.nested = t.nested /\ v.s = t.s
    BY <2>1 DEF Walks, Goes, Likewise
  <2>4. PICK N : N = R \cup V
    OBVIOUS
  <2>5. Mild(N, t)
    BY <2>2, <2>3, <2>4 DEF Mild
  <2>6. UNCHANGED <<parked, asking, left>> /\ t.pc = "tail"
    BY <1>9 DEF HealTail
  <2> QED
    BY <2>1, <2>4, <2>5, <2>6, AskableCalm
<1> QED
  BY <1>3, <1>4, <1>5, <1>6, <1>7, <1>8, <1>9 DEF StopStep

\* The user's steps and the spawns keep questions answerable.
LEMMA UserAskable ==
    ASSUME IInv, Askable, Answerable,
           \/ \E c \in Subagent : SpawnCreate(c)
           \/ \E s \in Session : Invoke(s) \/ Answer(s) \/ Stop(s) \/ Retry(s)
           \/ \E s \in Session : TimerFire(s)
           \/ Restart
    PROVE  Askable'
<1> USE DEF registries, queues, history
<1>1. asking \in [Session -> BOOLEAN] /\ parked \in [Session -> BOOLEAN]
  BY Types DEF TypeOK
<1>2. ASSUME NEW n, Evolves({}, {n}, {}), n.pc # "stream", ~n.nested,
             UNCHANGED <<parked, asking>>, left' \subseteq left
      PROVE  Askable'
  <2>1. PICK N : N = {n}
    OBVIOUS
  <2>2. Evolves({}, N, {}) /\ \A v \in N : v.pc # "stream" /\ ~v.nested
    BY <1>2, <2>1
  <2> QED
    BY <1>2, <2>2, AskableJoin
<1>3. CASE \E c \in Subagent : SpawnCreate(c)
  <2>1. PICK c \in Subagent : SpawnCreate(c)
    BY <1>3
  <2>2. PICK n : Evolves({}, {n}, {}) /\ n.pc = "create" /\ ~n.nested
    BY <2>1, SpawnCreateShape
  <2>3. UNCHANGED <<parked, asking, left>>
    BY <2>1 DEF SpawnCreate
  <2> QED
    BY <1>2, <2>2, <2>3
<1>4. CASE \E s \in Session : Invoke(s)
  <2>1. PICK s \in Session : Invoke(s)
    BY <1>4
  <2>2. PICK n : Evolves({}, {n}, {}) /\ Socket(n, s)
    BY <2>1, InvokeShape
  <2>3. UNCHANGED <<parked, asking>> /\ left' \subseteq left
    BY <2>1 DEF Invoke, Take
  <2> QED
    BY <1>2, <2>2, <2>3 DEF Socket
<1>5. CASE \E s \in Session : Answer(s)
  <2>1. PICK s \in Session : Answer(s)
    BY <1>5
  <2>2. PICK n : Evolves({}, {n}, {}) /\ Socket(n, s)
    BY <2>1, AnswerShape
  <2>3. PICK N : N = {n}
    OBVIOUS
  <2>4. parked' = [parked EXCEPT ![s] = FALSE] /\ UNCHANGED <<asking, left>>
    BY <2>1 DEF Answer
  <2>5. \A x \in Session : parked[x] =>
            parked'[x] \/ \E v \in N : v.s = x /\ v.pc \in {"queued", "heal"}
    BY <1>1, <2>2, <2>3, <2>4 DEF Socket
  <2>6. Evolves({}, N, {}) /\ \A v \in N : v.pc # "stream" /\ ~v.nested
    BY <2>2, <2>3 DEF Socket
  <2> QED
    BY <2>4, <2>5, <2>6, AskableJoin
<1>6. CASE \E s \in Session : Retry(s)
  <2>1. PICK s \in Session : Retry(s)
    BY <1>6
  <2>2. PICK n : Evolves({}, {n}, {}) /\ n.pc = "rpush" /\ ~n.nested
    BY <2>1, RetryShape
  <2>3. UNCHANGED <<parked, asking>> /\ left' \subseteq left
    BY <2>1 DEF Retry, Take
  <2> QED
    BY <1>2, <2>2, <2>3
<1>7. CASE \E s \in Session : TimerFire(s)
  <2>1. PICK s \in Session : TimerFire(s)
    BY <1>7
  <2>2. PICK W : Evolves({}, W, {}) /\ Calls(W, s)
    BY <2>1, TimerFireShape
  <2>3. UNCHANGED <<parked, asking, left>>
    BY <2>1 DEF TimerFire
  <2>4. \A v \in W : v.pc # "stream" /\ ~v.nested
    BY <2>2 DEF Calls, Spawned
  <2> QED
    BY <2>2, <2>3, <2>4, AskableJoin
<1>8. CASE \E s \in Session : Stop(s)
  <2>1. PICK s \in Session : Stop(s)
    BY <1>8
  <2>2. UNCHANGED asking /\ left' \subseteq left
    BY <2>1 DEF Stop, Take
  <2>3. PICK B : /\ Stopping(B, s)
                 /\ \/ /\ parked' = [parked EXCEPT ![s] = FALSE]
                       /\ \E h : Evolves({}, B \cup {h}, {}) /\ Healing(h, s)
                    \/ UNCHANGED parked /\ Evolves({}, B, {})
    BY <2>1, StopShape
  <2>4. \A v \in B : v.pc # "stream" /\ ~v.nested
    BY <2>3 DEF Stopping, Spawned
  <2>5. CASE UNCHANGED parked /\ Evolves({}, B, {})
    BY <2>2, <2>4, <2>5, AskableJoin
  <2>6. CASE /\ parked' = [parked EXCEPT ![s] = FALSE]
             /\ \E h : Evolves({}, B \cup {h}, {}) /\ Healing(h, s)
    <3>1. PICK h : Evolves({}, B \cup {h}, {}) /\ Healing(h, s)
      BY <2>6
    <3>2. PICK N : N = B \cup {h}
      OBVIOUS
    <3>3. \A x \in Session : parked[x] =>
              parked'[x] \/ \E v \in N : v.s = x /\ v.pc \in {"queued", "heal"}
      BY <1>1, <2>6, <3>1, <3>2 DEF Healing
    <3>4. \A v \in N : v.pc # "stream" /\ ~v.nested
      BY <2>4, <3>1, <3>2 DEF Healing
    <3> QED
      BY <2>2, <3>1, <3>2, <3>3, <3>4, AskableJoin
  <2> QED
    BY <2>3, <2>5, <2>6
<1>9. CASE Restart
  <2>1. /\ <<"restart", Root>> \in left /\ tasks' = {} /\ UNCHANGED asking
    BY <1>9 DEF Restart, Take
  <2>2. \A s \in Session : ~asking'[s]
    BY <2>1 DEF Askable
  <2> QED
    BY <2>1, <2>2 DEF Askable
<1> QED
  BY <1>3, <1>4, <1>5, <1>6, <1>7, <1>8, <1>9

\* Questions stay answerable whatever happens.
LEMMA AskableNext ==
    ASSUME IInv, Locks, Askable, Answerable, [Next]_vars
    PROVE  Askable'
<1>1. CASE UNCHANGED vars
  BY <1>1 DEF vars, Askable
<1>2. CASE System
  BY <1>2, TurnAskable, ReportAskable, StopAskable, UserAskable DEF System
<1>3. CASE Outside
  BY <1>3, TurnAskable, UserAskable DEF Outside
<1> QED
  BY <1>1, <1>2, <1>3 DEF Next

\* A question that the checkpoint holds can be answered: its session is
\* parked, or a turn or a heal that will consume the interrupt is under way
\* (resume_pending_interrupt, _stop_parked_turn), where what loses a
\* question does not befall a session that may ask.
THEOREM QuestionsStayAnswerable == Answerable => (Spec => []ParkAnswerable)
<1>1. Init => Locks /\ Askable
  BY DEF Init, Locks, Askable
<1>2. Askable => ParkAnswerable
  BY DEF Askable, ParkAnswerable
<1>3. ASSUME Answerable, IInv, Locks, Askable, [Next]_vars
      PROVE  (Locks /\ Askable)'
  BY <1>3, LocksNext, AskableNext
<1> SUFFICES ASSUME Answerable
             PROVE  Spec => []ParkAnswerable
  OBVIOUS
<1> QED
  BY <1>1, <1>2, <1>3, Inductive, PTL DEF Spec

----------------------------------------------------------------------------
(* No stop event is left behind (NoStopLeft).                              *)

\* the sessions whose stop reaches s
Way(s) == IF s = Root THEN {Root} ELSE {s} \cup (Above(s) \ {Root})

\* Nobody stops two sessions one below the other, and who is below a stopped
\* session asks no question: a parked turn would be healed by the cascade.
StopsApart == \A script \in Scripts : \A s \in Session :
    /\ \A p, q \in Way(s) :
         <<"stop", p>> \in script /\ <<"stop", q>> \in script => p = q
    /\ \A p \in Way(s) \ {s} : <<"stop", p>> \in script => <<"interrupt", s>> \notin script

\* what t will do next drops the stop event of its session
Carries(t) ==
    \/ t.pc \in {"queued", "flip", "stream", "drain", "seg"}
    \/ t.kind = "brief" /\ t.pc \in {"armed", "start"}
    \/ t.pc \in FinPC /\ t.ret = "seg"

\* t is a turn the busy registry counts, or a refused wake that it counts
Marks(t) == t.pc \in {"queued", "flip", "stream"}
Unmarks(t) == t.pc = "unmark" \/ (t.pc \in FinPC /\ t.ret = "unmark")

\* cascade t has x still to visit
Pending(t, x) == t.kind = "cascade"
    /\ (x \in t.todo \/ (t.pc = "start" /\ t.s \in Above(x)))

\* No stop will reach s any more.
Spent(s) ==
    /\ \A p \in Way(s) : <<"stop", p>> \notin left
    /\ s # Root => \A t \in tasks : ~Pending(t, s)

WsPlace(t) ==
    \/ t.pc \in {"queued", "stream", "drain", "seg"}
    \/ t.pc = "rpush" /\ ~t.listed
    \/ t.pc \in FinPC /\ t.ret = "seg"
Fitting(t) ==
    /\ t.todo \subseteq Subagent
    /\ t.kind \in WsKind => WsPlace(t)
    /\ t.pc \in {"create", "armed"} => t.kind = "brief"
Placed == \A t \in tasks : Fitting(t)

\* One stop at most is on its way to a session, and that one meets no
\* parked turn there.
Sweeps == \A x \in Subagent :
    /\ \A t, u \in tasks : Pending(t, x) /\ Pending(u, x) => t = u
    /\ \A t \in tasks : Pending(t, x) =>
         /\ \A p \in Way(x) : <<"stop", p>> \notin left
         /\ <<"interrupt", x>> \notin left /\ ~parked[x]
    /\ parked[x] => \A p \in Way(x) \ {x} : <<"stop", p>> \notin left

\* A stop event that is set, or was read by a wake that is refused, is the
\* last one.
Once ==
    /\ \A t \in tasks : Unmarks(t) => Spent(t.s)
    /\ \A s \in Session : armed[s] = "set" => Spent(s)

\* Who has an event has a coroutine that will drop it.
Dropped == \A s \in Session :
    armed[s] # "none" => s \in cut \/ \E t \in tasks : t.s = s /\ Carries(t)

\* Who is registered as busy has a turn, a question or a refused wake.
Marked == \A s \in Session :
    /\ running[s] = "own" =>
         parked[s] \/ \E t \in tasks : t.s = s /\ (Marks(t) \/ Unmarks(t))
    /\ running[s] = "ws" =>
         parked[s] \/ \E t \in tasks : t.s = s /\ t.kind \in WsKind /\ Marks(t)

Clean == Placed /\ Sweeps /\ Once /\ Dropped /\ Marked

\* s may ask a question, which no stop from above would meet.
MayPark(s) ==
    /\ <<"interrupt", s>> \in left
    /\ \A p \in Way(s) \ {s} : <<"stop", p>> \notin left

\* The coroutines of N take over what those of X had still to visit.
Heirs(N, X) ==
    /\ \A v \in N : Fitting(v)
    /\ \A v \in N : \A x \in Subagent :
         Pending(v, x) => \E u \in X : u \in tasks /\ Pending(u, x)
    /\ \A v, w \in N : \A x \in Subagent : Pending(v, x) /\ Pending(w, x) => v = w

\* Of a step's coroutines each is new or was there before.
LEMMA Evolved ==
    ASSUME NEW X, NEW N, NEW D, Evolves(X, N, D)
    PROVE  /\ \A v \in N : v \in tasks'
           /\ \A v \in tasks' : v \in N \/ \E u \in tasks \ X : Twin(u, v)
           /\ \A u \in tasks \ X : \E v \in tasks' : Twin(u, v)
BY DEF Evolves

\* What t was about to do, the coroutine it still is will do.
LEMMA TwinSame ==
    ASSUME NEW u, NEW v, Twin(u, v)
    PROVE  /\ u.s = v.s /\ u.kind = v.kind
           /\ Carries(v) = Carries(u) /\ Marks(v) = Marks(u)
           /\ Unmarks(v) = Unmarks(u)
           /\ \A x : Pending(v, x) = Pending(u, x)
           /\ v.todo = u.todo /\ (Fitting(u) => Fitting(v))
BY DEF Twin, Carries, Marks, Unmarks, Pending, WsPlace, Fitting

\* At most one stop that reaches a session is left, none if it may ask.
LEMMA StopsLeft ==
    ASSUME IInv, StopsApart, NEW s \in Session
    PROVE  /\ \A p, q \in Way(s) :
                <<"stop", p>> \in left /\ <<"stop", q>> \in left => p = q
           /\ \A p \in Way(s) \ {s} :
                <<"stop", p>> \in left => <<"interrupt", s>> \notin left
<1>1. PICK script \in Scripts : left \subseteq script
  BY Types DEF TypeOK
<1> QED
  BY <1>1 DEF StopsApart

\* Where nothing new is to be visited and nobody parks whom a stop could
\* meet, a stop reaches who it reached before.
LEMMA SweepsKept ==
    ASSUME IInv, Placed, Sweeps, NEW X, NEW N, NEW D, Evolves(X, N, D), Heirs(N, X),
           left' \subseteq left,
           \A s \in Session : parked'[s] => parked[s] \/ MayPark(s)
    PROVE  /\ Placed' /\ Sweeps'
           /\ \A s \in Session : Spent(s) => Spent(s)'
<1>1. PICK f : /\ tasks' = {f[u] : u \in tasks \ X} \cup N
               /\ \A u \in tasks \ X : Twin(u, f[u]) /\ Holds(u, f[u], D)
  BY DEF Evolves
<1>2. Placed'
  <2>1. ASSUME NEW v \in tasks'
        PROVE  Fitting(v)
    <3>1. CASE v \in N
      BY <3>1 DEF Heirs
    <3>2. CASE v \notin N
      <4>1. PICK u \in tasks \ X : v = f[u]
        BY <1>1, <2>1, <3>2
      <4>2. Fitting(u) => Fitting(v)
        BY <1>1, <4>1, TwinSame
      <4> QED
        BY <4>1, <4>2 DEF Placed
    <3> QED
      BY <3>1, <3>2
  <2> QED
    BY <2>1 DEF Placed
<1>3. ASSUME NEW x \in Subagent, NEW v \in tasks', Pending(v, x)
      PROVE  \E u \in tasks : /\ Pending(u, x)
                              /\ (v = f[u] /\ u \notin X) \/ (u \in X /\ v \in N)
  <2>1. CASE v \in N
    BY <1>3, <2>1 DEF Heirs
  <2>2. CASE v \notin N
    <3>1. PICK u \in tasks \ X : v = f[u]
      BY <1>1, <1>3, <2>2
    <3>2. Pending(u, x)
      BY <1>1, <1>3, <3>1, TwinSame
    <3> QED
      BY <3>1, <3>2
  <2> QED
    BY <2>1, <2>2
<1>4. ASSUME NEW x \in Subagent, NEW v \in tasks', NEW w \in tasks',
             Pending(v, x), Pending(w, x)
      PROVE  v = w
  <2>1. PICK u \in tasks : /\ Pending(u, x)
                           /\ (v = f[u] /\ u \notin X) \/ (u \in X /\ v \in N)
    BY <1>3, <1>4
  <2>2. PICK y \in tasks : /\ Pending(y, x)
                           /\ (w = f[y] /\ y \notin X) \/ (y \in X /\ w \in N)
    BY <1>3, <1>4
  <2>3. u = y
    BY <2>1, <2>2 DEF Sweeps
  <2>4. v \in N /\ w \in N => v = w
    BY <1>4 DEF Heirs
  <2> QED
    BY <2>1, <2>2, <2>3, <2>4
<1>5. ASSUME NEW x \in Subagent, NEW v \in tasks', Pending(v, x)
      PROVE  /\ \A p \in Way(x) : <<"stop", p>> \notin left'
             /\ <<"interrupt", x>> \notin left' /\ ~parked'[x]
  <2>1. PICK u \in tasks : Pending(u, x)
    BY <1>3, <1>5
  <2>2. x \in Session
    BY DEF Subagent
  <2> QED
    BY <2>1, <2>2 DEF Sweeps, MayPark
<1>6. ASSUME NEW x \in Subagent, parked'[x]
      PROVE  \A p \in Way(x) \ {x} : <<"stop", p>> \notin left'
  <2>1. x \in Session
    BY DEF Subagent
  <2> QED
    BY <1>6, <2>1 DEF Sweeps, MayPark
<1>7. Sweeps'
  BY <1>4, <1>5, <1>6 DEF Sweeps
<1>8. ASSUME NEW s \in Session, Spent(s)
      PROVE  Spent(s)'
  <2>1. \A p \in Way(s) : <<"stop", p>> \notin left'
    BY <1>8 DEF Spent
  <2>2. ASSUME s # Root, NEW v \in tasks', Pending(v, s)
        PROVE  FALSE
    <3>1. s \in Subagent
      BY <2>2 DEF Subagent
    <3>2. PICK u \in tasks : Pending(u, s)
      BY <1>3, <2>2, <3>1
    <3> QED
      BY <1>8, <2>2, <3>2 DEF Spent
  <2> QED
    BY <2>1, <2>2 DEF Spent
<1> QED
  BY <1>2, <1>7, <1>8

\* The stop events stay accounted for.
LEMMA DroppedKept ==
    ASSUME IInv, Dropped, NEW X, NEW N, NEW D, Evolves(X, N, D),
           cut \subseteq cut',
           \A s \in Session : armed'[s] # "none" =>
               \/ armed[s] # "none" \/ s \in cut'
               \/ \E v \in N : v.s = s /\ Carries(v)
               \/ \E u \in tasks \ X : u.s = s /\ Carries(u),
           \A u \in X : u \in tasks /\ Carries(u) =>
               \/ armed'[u.s] = "none" \/ u.s \in cut'
               \/ \E v \in N : v.s = u.s /\ Carries(v)
    PROVE  Dropped'
<1>1. ASSUME NEW s \in Session, armed'[s] # "none", s \notin cut'
      PROVE  \E v \in tasks' : v.s = s /\ Carries(v)
  <2>1. ASSUME NEW v \in N, v.s = s, Carries(v)
        PROVE  \E w \in tasks' : w.s = s /\ Carries(w)
    BY <2>1, Evolved
  <2>2. ASSUME NEW u \in tasks, u.s = s, Carries(u)
        PROVE  \E w \in tasks' : w.s = s /\ Carries(w)
    <3>1. CASE u \in X
      BY <1>1, <2>1, <2>2, <3>1
    <3>2. CASE u \notin X
      <4>1. PICK v \in tasks' : Twin(u, v)
        BY <3>2, Evolved
      <4> QED
        BY <2>2, <4>1, TwinSame
    <3> QED
      BY <3>1, <3>2
  <2>3. CASE armed[s] # "none"
    <3>1. PICK u \in tasks : u.s = s /\ Carries(u)
      BY <1>1, <2>3 DEF Dropped
    <3> QED
      BY <2>2, <3>1
  <2>4. CASE armed[s] = "none"
    BY <1>1, <2>1, <2>2, <2>4
  <2> QED
    BY <2>3, <2>4
<1> QED
  BY <1>1 DEF Dropped

\* So do the entries of the busy registry.
LEMMA MarkedKept ==
    ASSUME IInv, Marked, NEW X, NEW N, NEW D, Evolves(X, N, D),
           \A s \in Session : running'[s] = "own" =>
               \/ parked'[s]
               \/ \E v \in N : v.s = s /\ (Marks(v) \/ Unmarks(v))
               \/ /\ running[s] = "own" /\ ~parked[s]
                  /\ \A u \in X : u.s = s => ~Marks(u) /\ ~Unmarks(u),
           \A s \in Session : running'[s] = "ws" =>
               \/ parked'[s]
               \/ \E v \in N : v.s = s /\ v.kind \in WsKind /\ Marks(v)
               \/ /\ running[s] = "ws" /\ ~parked[s]
                  /\ \A u \in X : u.s = s /\ u.kind \in WsKind => ~Marks(u)
    PROVE  Marked'
<1>1. ASSUME NEW s \in Session, running'[s] = "own", ~parked'[s]
      PROVE  \E v \in tasks' : v.s = s /\ (Marks(v) \/ Unmarks(v))
  <2>1. CASE \E v \in N : v.s = s /\ (Marks(v) \/ Unmarks(v))
    BY <2>1, Evolved
  <2>2. CASE /\ running[s] = "own" /\ ~parked[s]
             /\ \A u \in X : u.s = s => ~Marks(u) /\ ~Unmarks(u)
    <3>1. PICK u \in tasks : u.s = s /\ (Marks(u) \/ Unmarks(u))
      BY <2>2 DEF Marked
    <3>2. PICK v \in tasks' : Twin(u, v)
      BY <2>2, <3>1, Evolved
    <3> QED
      BY <3>1, <3>2, TwinSame
  <2> QED
    BY <1>1, <2>1, <2>2
<1>2. ASSUME NEW s \in Session, running'[s] = "ws", ~parked'[s]
      PROVE  \E v \in tasks' : v.s = s /\ v.kind \in WsKind /\ Marks(v)
  <2>1. CASE \E v \in N : v.s = s /\ v.kind \in WsKind /\ Marks(v)
    BY <2>1, Evolved
  <2>2. CASE /\ running[s] = "ws" /\ ~parked[s]
             /\ \A u \in X : u.s = s /\ u.kind \in WsKind => ~Marks(u)
    <3>1. PICK u \in tasks : u.s = s /\ u.kind \in WsKind /\ Marks(u)
      BY <2>2 DEF Marked
    <3>2. PICK v \in tasks' : Twin(u, v)
      BY <2>2, <3>1, Evolved
    <3> QED
      BY <3>1, <3>2, TwinSame
  <2> QED
    BY <1>2, <2>1, <2>2
<1> QED
  BY <1>1, <1>2 DEF Marked

\* And no stop comes after one that was seen.
LEMMA OnceKept ==
    ASSUME IInv, Once, NEW X, NEW N, NEW D, Evolves(X, N, D),
           \A s \in Session : Spent(s) => Spent(s)',
           \A v \in N : Unmarks(v) => Spent(v.s)',
           \A s \in Session : armed'[s] = "set" => armed[s] = "set" \/ Spent(s)'
    PROVE  Once'
<1>1. ASSUME NEW v \in tasks', Unmarks(v)
      PROVE  Spent(v.s)'
  <2>1. CASE v \in N
    BY <1>1, <2>1
  <2>2. CASE v \notin N
    <3>1. PICK u \in tasks \ X : Twin(u, v)
      BY <2>2, Evolved
    <3>2. Unmarks(u) /\ u.s = v.s
      BY <1>1, <3>1, TwinSame
    <3>3. Spent(u.s) /\ u.s \in Session
      BY <3>1, <3>2, Types DEF Once, Task
    <3>4. PICK s \in Session : s = u.s
      BY <3>3
    <3>5. Spent(s)' /\ v.s = s
      BY <3>2, <3>3, <3>4
    <3> QED
      BY <3>5
  <2> QED
    BY <2>1, <2>2
<1>2. ASSUME NEW s \in Session, armed'[s] = "set"
      PROVE  Spent(s)'
  BY <1>2 DEF Once
<1> QED
  BY <1>1, <1>2 DEF Once

\* A gate and the wakes beside it visit nothing that t had not to visit.
LEMMA HeirsOver ==
    ASSUME Placed, NEW t \in tasks, NEW R, NEW V, Reconciles(R, t.s), Leaves(V, t)
    PROVE  Heirs(R \cup V, {t})
<1>1. \A v \in R : v.kind = "wake" /\ v.todo = {}
  BY WakesSpawned DEF Reconciles, Spawned
<1>2. ASSUME NEW v \in V
      PROVE  /\ Fitting(v)
             /\ \A x \in Subagent : Pending(v, x) => Pending(t, x)
  <2>1. Gated(v, t)
    BY DEF Leaves
  <2>2. CASE Spawned(v, {"settle", "wrap"})
    BY <2>2 DEF Spawned, WsKind, Pending, Fitting
  <2>3. CASE /\ Onward(v, t) /\ t.kind \notin WsKind
             /\ v.pc = "wpush" \/ (v.pc \in FinPC /\ v.ret = "end")
    BY <2>3 DEF Onward, Pending, Placed, FinPC, Fitting
  <2> QED
    BY <2>1, <2>2, <2>3 DEF Gated
<1>3. \A v \in R : Fitting(v) /\ \A x : ~Pending(v, x)
  <2>1. \A v \in R : v.pc = "start"
    BY WakesSpawned DEF Reconciles, Spawned
  <2> QED
    BY <1>1, <2>1 DEF WsKind, Pending, Fitting
<1>4. \A v, w \in V : v = w
  BY DEF Leaves
<1> QED
  BY <1>1, <1>2, <1>3, <1>4 DEF Heirs

\* Neither do a finalizer and what it spawned.
LEMMA HeirsFin ==
    ASSUME Placed, NEW t \in tasks, NEW V, NEW W, NEW ret, Finalizers(V, t, ret),
           ret \in BackPC, t.kind \in WsKind => ret = "seg",
           \A v \in W : Spawned(v, {"wake", "flush"})
    PROVE  Heirs(V \cup W, {t})
<1>1. \A v \in W : Fitting(v) /\ \A x : ~Pending(v, x)
  BY DEF Spawned, WsKind, Pending, Fitting
<1>2. ASSUME NEW v \in V
      PROVE  /\ Fitting(v)
             /\ \A x \in Subagent : Pending(v, x) => Pending(t, x)
  <2>1. Finalizer(v, t, ret)
    BY DEF Finalizers
  <2>2. /\ v.todo = t.todo /\ v.kind = t.kind
        /\ v.pc \notin {"start", "create", "armed"}
        /\ (v.pc \in FinPC /\ v.ret = ret) \/ v.pc = ret
    BY <2>1 DEF Finalizer, Onward, FinPC, BackPC
  <2> QED
    BY <2>2 DEF Pending, Placed, WsPlace, Fitting
<1>3. \A v, w \in V : v = w
  BY DEF Finalizers
<1> QED
  BY <1>1, <1>2, <1>3 DEF Heirs

\* Nor does the coroutine itself, at another await.
LEMMA HeirsAlone ==
    ASSUME Placed, NEW t \in tasks, NEW u, NEW pc, Goes(u, t, pc),
           pc = "start" => t.kind # "cascade",
           u.kind \in WsKind => WsPlace(u),
           pc \in {"create", "armed"} => t.kind = "brief"
    PROVE  Heirs({u}, {t})
<1>1. Fitting(u) /\ \A x \in Subagent : Pending(u, x) => Pending(t, x)
  BY DEF Goes, Placed, Pending, Fitting
<1> QED
  BY <1>1 DEF Heirs

\* What joins and is no cascade has nothing to visit.
LEMMA HeirsJoin ==
    ASSUME NEW N, NEW X, \A v \in N : /\ v.todo = {} /\ v.kind # "cascade"
                                      /\ v.kind \in WsKind => WsPlace(v)
                                      /\ v.pc \in {"create", "armed"} => v.kind = "brief"
    PROVE  Heirs(N, X)
BY DEF Heirs, Pending, Fitting

\* A step that keeps each part keeps them all.
LEMMA CleanStep ==
    ASSUME IInv, Clean, NEW X, NEW N, NEW D, Evolves(X, N, D), Heirs(N, X),
           left' \subseteq left,
           \A s \in Session : parked'[s] => parked[s] \/ MayPark(s),
           cut \subseteq cut',
           \A v \in N : Unmarks(v) => v.s \in Session /\ Spent(v.s),
           \A s \in Session : armed'[s] = "set" => armed[s] = "set" \/ Spent(s)',
           \A s \in Session : armed'[s] # "none" =>
               \/ armed[s] # "none" \/ s \in cut'
               \/ \E v \in N : v.s = s /\ Carries(v)
               \/ \E u \in tasks \ X : u.s = s /\ Carries(u),
           \A u \in X : u \in tasks /\ Carries(u) =>
               \/ armed'[u.s] = "none" \/ u.s \in cut'
               \/ \E v \in N : v.s = u.s /\ Carries(v),
           \A s \in Session : running'[s] = "own" =>
               \/ parked'[s]
               \/ \E v \in N : v.s = s /\ (Marks(v) \/ Unmarks(v))
               \/ /\ running[s] = "own" /\ ~parked[s]
                  /\ \A u \in X : u.s = s => ~Marks(u) /\ ~Unmarks(u),
           \A s \in Session : running'[s] = "ws" =>
               \/ parked'[s]
               \/ \E v \in N : v.s = s /\ v.kind \in WsKind /\ Marks(v)
               \/ /\ running[s] = "ws" /\ ~parked[s]
                  /\ \A u \in X : u.s = s /\ u.kind \in WsKind => ~Marks(u)
    PROVE  Clean'
<1>1. /\ Placed' /\ Sweeps'
      /\ \A s \in Session : Spent(s) => Spent(s)'
  BY SweepsKept DEF Clean
<1>2. Dropped'
  BY DroppedKept DEF Clean
<1>3. Marked'
  BY MarkedKept DEF Clean
<1>4. ASSUME NEW v \in N, Unmarks(v)
      PROVE  Spent(v.s)'
  <2>1. PICK s \in Session : s = v.s /\ Spent(s)
    BY <1>4
  <2>2. Spent(s)'
    BY <1>1, <2>1
  <2> QED
    BY <2>1, <2>2
<1>5. Once'
  BY <1>1, <1>4, OnceKept DEF Clean
<1> QED
  BY <1>1, <1>2, <1>3, <1>5 DEF Clean

\* In particular one that leaves the registries alone, but for a pop.
LEMMA CleanCalm ==
    ASSUME IInv, Clean, NEW t \in tasks, NEW N, NEW D, Evolves({t}, N, D),
           Heirs(N, {t}), left' \subseteq left, UNCHANGED <<parked, running, cut>>,
           \A s \in Session : armed'[s] \in {armed[s], "none"},
           Carries(t) => armed'[t.s] = "none" \/ \E v \in N : v.s = t.s /\ Carries(v),
           Marks(t) \/ Unmarks(t) =>
               \E v \in N : v.s = t.s /\ (Marks(v) \/ Unmarks(v)),
           t.kind \in WsKind /\ Marks(t) =>
               \E v \in N : v.s = t.s /\ v.kind \in WsKind /\ Marks(v),
           \A v \in N : Unmarks(v) => v.s = t.s /\ (Unmarks(t) \/ armed[t.s] = "set")
    PROVE  Clean'
<1>1. PICK X : X = {t}
  OBVIOUS
<1>2. Evolves(X, N, D) /\ Heirs(N, X)
  BY <1>1
<1>3. t.s \in Session
  BY Types DEF Task
<1>4. \A v \in N : Unmarks(v) => v.s \in Session /\ Spent(v.s)
  BY <1>3 DEF Clean, Once
<1>5. \A s \in Session : /\ armed'[s] = "set" => armed[s] = "set"
                         /\ armed'[s] # "none" => armed[s] # "none"
  OBVIOUS
<1>6. \A u \in X : Carries(u) =>
          armed'[u.s] = "none" \/ \E v \in N : v.s = u.s /\ Carries(v)
  BY <1>1
<1>7. \A s \in Session : running'[s] = "own" =>
               \/ parked'[s]
               \/ \E v \in N : v.s = s /\ (Marks(v) \/ Unmarks(v))
               \/ /\ running[s] = "own" /\ ~parked[s]
                  /\ \A u \in X : u.s = s => ~Marks(u) /\ ~Unmarks(u)
  BY <1>1
<1>8. \A s \in Session : running'[s] = "ws" =>
               \/ parked'[s]
               \/ \E v \in N : v.s = s /\ v.kind \in WsKind /\ Marks(v)
               \/ /\ running[s] = "ws" /\ ~parked[s]
                  /\ \A u \in X : u.s = s /\ u.kind \in WsKind => ~Marks(u)
  BY <1>1
<1> QED
  BY <1>2, <1>4, <1>5, <1>6, <1>7, <1>8, CleanStep

\* What the pop of one event leaves.
LEMMA Popped ==
    ASSUME IInv, NEW t \in tasks, Disarm(t.s) \/ UNCHANGED armed
    PROVE  /\ \A s \in Session : armed'[s] \in {armed[s], "none"}
           /\ Disarm(t.s) => armed'[t.s] = "none"
BY Types DEF Disarm, TypeOK, Task

\* The end of a segment that leaves the busy registry alone.
LEMMA CleanOver ==
    ASSUME IInv, Clean, NEW t \in tasks, NEW D, SegmentOver(t, D),
           left' \subseteq left, UNCHANGED <<parked, running, cut>>,
           Disarm(t.s) \/ (UNCHANGED armed /\ ~Carries(t)),
           ~Marks(t), ~Unmarks(t)
    PROVE  Clean'
<1>1. PICK R, V : Evolves({t}, R \cup V, D) /\ Reconciles(R, t.s) /\ Leaves(V, t)
  BY DEF SegmentOver
<1>2. PICK N : N = R \cup V
  OBVIOUS
<1>3. Heirs(N, {t})
  BY <1>1, <1>2, HeirsOver DEF Clean
<1>4. \A v \in N : ~Unmarks(v)
  <2>1. \A v \in R : v.pc = "start"
    BY <1>1, WakesSpawned DEF Reconciles, Spawned
  <2>2. \A v \in V : v.pc \in {"start", "wpush"} \/ (v.pc \in FinPC /\ v.ret = "end")
    BY <1>1 DEF Leaves, Gated, Spawned
  <2> QED
    BY <1>2, <2>1, <2>2 DEF Unmarks, FinPC
<1> QED
  BY <1>1, <1>2, <1>3, <1>4, Popped, CleanCalm

\* The finalizer that t leaves, W called on the way.
LEMMA CleanFin ==
    ASSUME IInv, Clean, NEW t \in tasks, NEW V, NEW W, NEW ret, NEW D,
           Evolves({t}, V \cup W, D), Finalizers(V, t, ret),
           \A v \in W : Spawned(v, {"wake", "flush"}),
           ret \in BackPC, t.kind \in WsKind => ret = "seg",
           left' \subseteq left, UNCHANGED <<parked, running, cut>>,
           Disarm(t.s) \/ (UNCHANGED armed /\ (Carries(t) => ret = "seg")),
           Marks(t) \/ Unmarks(t) => ret = "unmark",
           ret = "unmark" => Unmarks(t) \/ armed[t.s] = "set",
           t.kind \in WsKind => ~Marks(t)
    PROVE  Clean'
<1>1. PICK N : N = V \cup W
  OBVIOUS
<1>3. Heirs(N, {t})
  BY <1>1, HeirsFin DEF Clean
<1>4. \A v \in W : ~Unmarks(v)
  BY DEF Spawned, Unmarks, FinPC
<1>5. \A v \in V : v.s = t.s /\ (Unmarks(v) => ret = "unmark")
  BY DEF Finalizers, Finalizer, Onward, Unmarks, FinPC, BackPC
<1>6. \A v \in V : /\ ret = "unmark" => Unmarks(v)
                   /\ ret = "seg" => Carries(v)
  BY DEF Finalizers, Finalizer, Onward, Unmarks, Carries, FinPC
<1>7. ret # "end" => \E v \in N : v \in V
  BY <1>1 DEF Finalizers
<1>8. /\ ret = "seg" => \E v \in N : v.s = t.s /\ Carries(v)
      /\ ret = "unmark" => \E v \in N : v.s = t.s /\ Unmarks(v)
  BY <1>5, <1>6, <1>7
<1>9. \A v \in N : Unmarks(v) => v.s = t.s /\ (Unmarks(t) \/ armed[t.s] = "set")
  BY <1>1, <1>4, <1>5
<1>10. /\ \A s \in Session : armed'[s] \in {armed[s], "none"}
       /\ Carries(t) => armed'[t.s] = "none" \/ \E v \in N : v.s = t.s /\ Carries(v)
  BY <1>8, Popped
<1> QED
  BY <1>1, <1>3, <1>8, <1>9, <1>10, CleanCalm

\* A coroutine that goes on as u, and leaves the registries alone.
LEMMA CleanAlone ==
    ASSUME IInv, Clean, NEW t \in tasks, NEW u, NEW pc, NEW D, Alone(u, t, D),
           Goes(u, t, pc), pc = "start" => t.kind # "cascade",
           u.kind \in WsKind => WsPlace(u),
           pc \in {"create", "armed"} => t.kind = "brief",
           left' \subseteq left, UNCHANGED <<parked, running, cut, armed>>,
           Carries(t) => Carries(u), Marks(t) => Marks(u),
           Unmarks(t) => Unmarks(u), Unmarks(u) => Unmarks(t)
    PROVE  Clean'
<1>1. PICK N : N = {u}
  OBVIOUS
<1>3. Evolves({t}, N, D)
  BY <1>1 DEF Alone
<1>4. Heirs(N, {t})
  BY <1>1, HeirsAlone DEF Clean
<1>5. u.s = t.s /\ u.kind = t.kind /\ u \in N /\ \A v \in N : v = u
  BY <1>1 DEF Goes
<1>6. \A s \in Session : armed'[s] \in {armed[s], "none"}
  OBVIOUS
<1>7. /\ Carries(t) => \E v \in N : v.s = t.s /\ Carries(v)
      /\ Marks(t) \/ Unmarks(t) => \E v \in N : v.s = t.s /\ (Marks(v) \/ Unmarks(v))
      /\ t.kind \in WsKind /\ Marks(t) =>
             \E v \in N : v.s = t.s /\ v.kind \in WsKind /\ Marks(v)
      /\ \A v \in N : Unmarks(v) => v.s = t.s /\ Unmarks(t)
  BY <1>5
<1> QED
  BY <1>3, <1>4, <1>6, <1>7, CleanCalm

----------------------------------------------------------------------------
(* Each step keeps the account of the stop events.                         *)

\* A step that touches nothing of it.
LEMMA CleanStill ==
    ASSUME Clean, UNCHANGED <<tasks, running, parked, armed, left, cut>>
    PROVE  Clean'
BY DEF Clean, Placed, Sweeps, Once, Dropped, Marked, Spent

\* What is known of a coroutine.
LEMMA CleanTask ==
    ASSUME IInv, Clean, NEW t \in tasks
    PROVE  /\ t \in Task /\ t.s \in Session /\ Fitting(t)
           /\ t.kind \in WsKind => WsPlace(t)
           /\ t.pc \in {"create", "armed"} => t.kind = "brief"
<1>1. t \in Task /\ Fitting(t)
  BY Types DEF Clean, Placed
<1> QED
  BY <1>1 DEF Task, Fitting

\* The steps that end a coroutine and leave the registries alone.
LEMMA CleanEnd ==
    ASSUME IInv, Clean, NEW t \in tasks, NEW D, Evolves({t}, {}, D),
           left' \subseteq left, UNCHANGED <<parked, running, cut>>,
           Disarm(t.s) \/ UNCHANGED armed,
           ~Carries(t), ~Marks(t), ~Unmarks(t)
    PROVE  Clean'
<1>1. PICK N : N = {}
  OBVIOUS
<1>2. Evolves({t}, N, D) /\ Heirs(N, {t})
  BY <1>1 DEF Heirs
<1>3. \A s \in Session : armed'[s] \in {armed[s], "none"}
  BY Popped
<1>4. \A v \in N : Unmarks(v) => v.s = t.s /\ (Unmarks(t) \/ armed[t.s] = "set")
  BY <1>1
<1> QED
  BY <1>2, <1>3, <1>4, CleanCalm

\* The steps of a turn that leave its registries alone, but for the event.
LEMMA TurnCalm ==
    ASSUME IInv, Clean, NEW t \in tasks,
           \/ SpawnLaunch(t) \/ Absorb(t) \/ AutoRetry(t) \/ SegEnd(t)
           \/ Settle(t) \/ WaitPush(t) \/ (BriefStart(t) /\ IsSet(t, t.evt)),
           Locks
    PROVE  Clean'
<1>1. t \in Task /\ t.s \in Session /\ (t.kind \in WsKind => WsPlace(t))
      /\ (t.pc \in {"create", "armed"} => t.kind = "brief")
  BY CleanTask
<1>2. CASE SpawnLaunch(t)
  <2>1. PICK u : Alone(u, t, {}) /\ Goes(u, t, "start")
    BY <1>2, SpawnLaunchShape
  <2>2. t.pc = "armed" /\ t.kind = "brief" /\ u.kind = "brief" /\ u.pc = "start"
    BY <1>1, <1>2, <2>1 DEF SpawnLaunch, Goes
  <2>3. Carries(u) /\ ~Marks(t) /\ ~Unmarks(t) /\ ~Unmarks(u)
    BY <2>2 DEF Carries, Marks, Unmarks, FinPC
  <2>4. u.kind \notin WsKind /\ t.kind # "cascade"
    BY <2>2 DEF WsKind
  <2>5. left' \subseteq left /\ UNCHANGED <<parked, running, cut, armed>>
    BY <1>2 DEF SpawnLaunch, registries, history
  <2> QED
    BY <2>1, <2>2, <2>3, <2>4, <2>5, CleanAlone
<1>3. CASE Absorb(t)
  BY <1>3, CleanStill DEF Absorb, registries
<1>4. CASE AutoRetry(t)
  <2>1. PICK u : Alone(u, t, {}) /\ Goes(u, t, "stream")
    BY <1>4, AutoRetryShape
  <2>2. t.pc = "stream" /\ u.pc = "stream"
    BY <1>4, <2>1 DEF AutoRetry, Goes
  <2>3. Carries(u) /\ Marks(u) /\ ~Unmarks(t) /\ ~Unmarks(u) /\ WsPlace(u)
    BY <2>2 DEF Carries, Marks, Unmarks, FinPC, WsPlace
  <2>4. left' \subseteq left /\ UNCHANGED <<parked, running, cut, armed>>
    BY <1>4 DEF AutoRetry, registries, history, Take
  <2> QED
    BY <2>1, <2>3, <2>4, CleanAlone
<1>5. CASE SegEnd(t)
  <2>1. t.pc = "seg" /\ t.lk
    BY <1>5 DEF SegEnd, Locks, Holding
  <2>2. ~Marks(t) /\ ~Unmarks(t)
    BY <2>1 DEF Marks, Unmarks, FinPC
  <2>3. left' \subseteq left /\ UNCHANGED <<parked, running, cut>> /\ Disarm(t.s)
    BY <1>5 DEF SegEnd, history
  <2>4. PICK D : SegmentOver(t, D)
    BY <1>5, <2>1, SegEndShape
  <2> QED
    BY <2>2, <2>3, <2>4, CleanOver
<1>6. CASE Settle(t)
  <2>1. t.pc = "start" /\ t.kind = "settle"
    BY <1>6 DEF Settle
  <2>2. ~Marks(t) /\ ~Unmarks(t) /\ ~Carries(t)
    BY <2>1 DEF Marks, Unmarks, FinPC, Carries
  <2>3. left' \subseteq left /\ UNCHANGED <<parked, running, cut>>
    BY <1>6 DEF Settle, history
  <2>4. PICK D : SegmentOver(t, D) /\ (Disarm(t.s) \/ UNCHANGED armed)
    BY <1>6, SettleShape
  <2> QED
    BY <2>2, <2>3, <2>4, CleanOver
<1>7. CASE WaitPush(t)
  <2>1. t.pc = "wpush"
    BY <1>7 DEF WaitPush
  <2>2. ~Marks(t) /\ ~Unmarks(t) /\ ~Carries(t)
    BY <2>1 DEF Marks, Unmarks, FinPC, Carries
  <2>3. left' \subseteq left /\ UNCHANGED <<parked, running, cut, armed>>
    BY <1>7 DEF WaitPush, registries, history
  <2>4. PICK D : Evolves({t}, {}, D)
    BY <1>7, EndsShape DEF WaitPush
  <2> QED
    BY <2>2, <2>3, <2>4, CleanEnd
<1>8. CASE BriefStart(t) /\ IsSet(t, t.evt)
  <2>1. t.pc = "start" /\ t.kind \in {"brief", "wrap"}
    BY <1>8 DEF BriefStart
  <2>2. ~Marks(t) /\ ~Unmarks(t) /\ t.kind \notin WsKind
    BY <2>1 DEF Marks, Unmarks, FinPC, WsKind
  <2>3. left' \subseteq left /\ UNCHANGED <<parked, running, cut>> /\ Disarm(t.s)
    BY <1>8 DEF BriefStart, history
  <2>4. PICK V, D : Evolves({t}, V, D) /\ Finalizers(V, t, "end")
    BY <1>8, BriefStartShape
  <2>5. PICK W : W = {}
    OBVIOUS
  <2>6. V \cup W = V /\ \A v \in W : Spawned(v, {"wake", "flush"})
    BY <2>5
  <2>7. Evolves({t}, V \cup W, D)
    BY <2>4, <2>6
  <2>8. "end" \in BackPC /\ "end" # "unmark"
    BY DEF BackPC
  <2> QED
    BY <2>2, <2>3, <2>4, <2>6, <2>7, <2>8, CleanFin
<1> QED
  BY <1>2, <1>3, <1>4, <1>5, <1>6, <1>7, <1>8

\* A finalizer that returns to where it was asked from.
LEMMA CleanReturn ==
    ASSUME IInv, Clean, NEW t \in tasks, NEW V, NEW ret, NEW D,
           Evolves({t}, V, D), Finalizers(V, t, ret),
           ret \in BackPC, t.kind \in WsKind => ret = "seg",
           left' \subseteq left, UNCHANGED <<parked, running, cut>>,
           Disarm(t.s) \/ (UNCHANGED armed /\ (Carries(t) => ret = "seg")),
           Marks(t) \/ Unmarks(t) => ret = "unmark",
           ret = "unmark" => Unmarks(t) \/ armed[t.s] = "set",
           t.kind \in WsKind => ~Marks(t)
    PROVE  Clean'
<1>1. PICK W : W = {}
  OBVIOUS
<1>2. V \cup W = V /\ \A v \in W : Spawned(v, {"wake", "flush"})
  BY <1>1
<1>3. Evolves({t}, V \cup W, D)
  BY <1>2
<1> QED
  BY <1>2, <1>3, CleanFin

\* So does one that reports to the parent on the way.
LEMMA CleanReport ==
    ASSUME IInv, Clean, NEW t \in tasks, t.pc \in FinPC, NEW W, ReportShape(t, W),
           left' \subseteq left, UNCHANGED <<parked, running, cut, armed>>
    PROVE  Clean'
<1>1. PICK V, D : /\ Evolves({t}, V \cup W, D) /\ Finalizers(V, t, t.ret)
                  /\ Calls(W, Parent[t.s])
  BY DEF ReportShape
<1>2. t \in Task /\ (t.kind \in WsKind => WsPlace(t))
  BY CleanTask
<1>3. PICK ret \in BackPC : ret = t.ret
  BY <1>2 DEF Task, BackPC
<1>4. t.kind \in WsKind => ret = "seg"
  BY <1>2, <1>3 DEF WsPlace, FinPC
<1>5. ~Marks(t) /\ (Unmarks(t) => ret = "unmark") /\ (ret = "unmark" => Unmarks(t))
  BY <1>3 DEF Marks, Unmarks, FinPC
<1>6. Carries(t) => ret = "seg"
  BY <1>3 DEF Carries, FinPC
<1>7. \A v \in W : Spawned(v, {"wake", "flush"})
  BY <1>1 DEF Calls
<1>8. Finalizers(V, t, ret) /\ UNCHANGED <<parked, running, cut>> /\ UNCHANGED armed
  BY <1>1, <1>3
<1> QED
  BY <1>1, <1>4, <1>5, <1>6, <1>7, <1>8, CleanFin

\* The steps of a report and of a wake that leave the busy registry alone.
LEMMA ReportCalm ==
    ASSUME IInv, Clean, NEW t \in tasks,
           \/ FinReport(t) \/ FinStopped(t) \/ FinInject(t) \/ FlushRun(t)
           \/ WakeRefused(t)
    PROVE  Clean'
<1>1. t \in Task /\ t.s \in Session /\ (t.kind \in WsKind => WsPlace(t))
  BY CleanTask
<1>2. CASE FinReport(t)
  <2>1. PICK u : Alone(u, t, {}) /\ Goes(u, t, "push")
    BY <1>2, FinReportShape
  <2>2. t.pc = "report" /\ u.pc = "push" /\ u.kind = t.kind /\ u.ret = t.ret
    BY <1>2, <2>1 DEF FinReport, Goes
  <2>3. /\ ~Marks(t) /\ (Carries(t) => Carries(u))
        /\ (Unmarks(t) => Unmarks(u)) /\ (Unmarks(u) => Unmarks(t))
        /\ (u.kind \in WsKind => WsPlace(u))
    BY <1>1, <2>2 DEF Carries, Marks, Unmarks, FinPC, WsPlace
  <2>4. left' \subseteq left /\ UNCHANGED <<parked, running, cut, armed>>
    BY <1>2 DEF FinReport, registries, history
  <2> QED
    BY <2>1, <2>3, <2>4, CleanAlone
<1>3. CASE FinStopped(t)
  <2>1. t.pc \in FinPC
    BY <1>3 DEF FinStopped, FinPC
  <2>2. left' \subseteq left /\ UNCHANGED <<parked, running, cut, armed>>
    BY <1>3 DEF FinStopped, registries, history
  <2> QED
    BY <1>3, <2>1, <2>2, FinStoppedShape, CleanReport
<1>4. CASE FinInject(t)
  <2>1. t.pc \in FinPC
    BY <1>4 DEF FinInject, FinPC
  <2>2. left' \subseteq left /\ UNCHANGED <<parked, running, cut, armed>>
    BY <1>4 DEF FinInject, registries
  <2> QED
    BY <1>4, <2>1, <2>2, FinInjectShape, CleanReport
<1>5. CASE FlushRun(t)
  <2>1. t.pc = "start" /\ t.kind = "flush"
    BY <1>5 DEF FlushRun
  <2>2. ~Marks(t) /\ ~Unmarks(t) /\ ~Carries(t) /\ t.kind \notin WsKind
    BY <2>1 DEF Marks, Unmarks, FinPC, Carries, WsKind
  <2>3. left' \subseteq left /\ UNCHANGED <<parked, running, cut, armed>>
    BY <1>5 DEF FlushRun, registries, history
  <2>4. PICK W, D : Evolves({t}, W, D) /\ Calls(W, t.s)
    BY <1>5, FlushRunShape
  <2>5. PICK X : X = {t}
    OBVIOUS
  <2>6. \A v \in W : /\ v.todo = {} /\ v.kind # "cascade" /\ v.kind \notin WsKind
                     /\ v.pc = "start" /\ ~Unmarks(v)
    BY <2>4 DEF Calls, Spawned, WsKind, Unmarks, FinPC
  <2>7. Heirs(W, X)
    BY <2>6, HeirsJoin
  <2>8. Heirs(W, {t})
    BY <2>5, <2>7
  <2>9. \A s \in Session : armed'[s] \in {armed[s], "none"}
    BY <2>3
  <2> QED
    BY <2>2, <2>3, <2>4, <2>6, <2>8, <2>9, CleanCalm
<1>6. CASE WakeRefused(t)
  <2>1. t.pc = "start" /\ t.kind = "wake"
    BY <1>6 DEF WakeRefused
  <2>2. ~Marks(t) /\ ~Unmarks(t) /\ ~Carries(t)
    BY <2>1 DEF Marks, Unmarks, FinPC, Carries
  <2>3. left' \subseteq left /\ UNCHANGED <<parked, running, cut, armed>>
    BY <1>6 DEF WakeRefused, registries, history
  <2>4. PICK D : Evolves({t}, {}, D)
    BY <1>6, EndsShape DEF WakeRefused
  <2> QED
    BY <2>2, <2>3, <2>4, CleanEnd
<1> QED
  BY <1>2, <1>3, <1>4, <1>5, <1>6

\* The steps of a stop that do the same.
LEMMA StopCalm ==
    ASSUME IInv, Clean, Locks, NEW t \in tasks,
           StopIfWaiting(t) \/ HealLocked(t) \/ HealStop(t) \/ HealTail(t)
    PROVE  Clean'
<1>1. t \in Task /\ t.s \in Session /\ (t.kind \in WsKind => WsPlace(t))
      /\ Fitting(t)
  BY CleanTask
<1>2. CASE StopIfWaiting(t)
  <2>1. PICK u, V, D : /\ Evolves({t}, V, D) /\ Finalizers(V, u, "end")
                       /\ u.s = t.s /\ u.kind = "stopif" /\ u.todo = t.todo
    BY <1>2, StopIfWaitingShape
  <2>2. t.pc = "start" /\ t.kind = "stopif"
    BY <1>2 DEF StopIfWaiting
  <2>3. ~Marks(t) /\ ~Unmarks(t) /\ ~Carries(t) /\ t.kind \notin WsKind
    BY <2>2 DEF Marks, Unmarks, FinPC, Carries, WsKind
  <2>4. \A v \in V : /\ v.todo = t.todo /\ v.kind = "stopif"
                     /\ v.pc \in FinPC /\ v.ret = "end"
    BY <2>1 DEF Finalizers, Finalizer, Onward
  <2>5. \A v \in V : Fitting(v) /\ ~Unmarks(v) /\ \A x : ~Pending(v, x)
    BY <1>1, <2>4 DEF Fitting, Unmarks, Pending, FinPC, WsKind
  <2>6. Heirs(V, {t})
    BY <2>5 DEF Heirs
  <2>7. left' \subseteq left /\ UNCHANGED <<parked, running, cut, armed>>
    BY <1>2 DEF StopIfWaiting, registries, history
  <2>8. \A s \in Session : armed'[s] \in {armed[s], "none"}
    BY <2>7
  <2> QED
    BY <2>1, <2>3, <2>5, <2>6, <2>7, <2>8, CleanCalm
<1>3. CASE HealLocked(t)
  <2>1. PICK u, D : Alone(u, t, D) /\ Goes(u, t, "bcast")
    BY <1>3, HealLockedShape
  <2>2. t.pc = "heal" /\ u.pc = "bcast" /\ u.kind = t.kind
    BY <1>3, <2>1 DEF HealLocked, Goes
  <2>3. /\ ~Marks(t) /\ ~Carries(t) /\ ~Unmarks(u) /\ ~Unmarks(t)
        /\ u.kind \notin WsKind
    BY <1>1, <2>2 DEF Carries, Marks, Unmarks, FinPC, WsPlace
  <2>4. left' \subseteq left /\ UNCHANGED <<parked, running, cut, armed>>
    BY <1>3 DEF HealLocked, registries, history
  <2> QED
    BY <2>1, <2>3, <2>4, CleanAlone
<1>4. CASE HealStop(t)
  <2>1. PICK V, D : /\ Finalizers(V, t, "tail") /\ Evolves({t}, V, D)
                    /\ Disarm(t.s) \/ UNCHANGED armed
    BY <1>4, HealStopShape
  <2>2. t.pc = "bcast"
    BY <1>4 DEF HealStop
  <2>3. ~Marks(t) /\ ~Carries(t) /\ ~Unmarks(t) /\ t.kind \notin WsKind
    BY <1>1, <2>2 DEF Carries, Marks, Unmarks, FinPC, WsPlace
  <2>4. left' \subseteq left /\ UNCHANGED <<parked, running, cut>>
    BY <1>4 DEF HealStop, history
  <2>5. "tail" \in BackPC
    BY DEF BackPC
  <2> QED
    BY <2>1, <2>3, <2>4, <2>5, CleanReturn
<1>5. CASE HealTail(t)
  <2>1. PICK R, V, D : /\ Evolves({t}, R \cup V, D) /\ Reconciles(R, t.s)
                       /\ Walks(V, t)
    BY <1>5, HealTailShape
  <2>2. t.pc = "tail"
    BY <1>5 DEF HealTail
  <2>3. ~Marks(t) /\ ~Carries(t) /\ ~Unmarks(t) /\ t.kind \notin WsKind
    BY <1>1, <2>2 DEF Carries, Marks, Unmarks, FinPC, WsPlace
  <2>4. left' \subseteq left /\ UNCHANGED <<parked, running, cut, armed>>
    BY <1>5 DEF HealTail, registries, history
  <2>5. \A v \in R : /\ v.todo = {} /\ v.kind = "wake" /\ v.pc = "start"
    BY <2>1, WakesSpawned DEF Reconciles, Spawned
  <2>6. \A v \in R : Fitting(v) /\ ~Unmarks(v) /\ \A x : ~Pending(v, x)
    BY <2>5 DEF Fitting, Unmarks, Pending, FinPC, WsKind
  <2>7. \A v \in V : /\ v.todo = t.todo /\ v.kind = t.kind /\ v.pc = "walk"
    BY <2>1 DEF Walks, Goes
  <2>8. \A v \in V : /\ Fitting(v) /\ ~Unmarks(v)
                     /\ \A x \in Subagent : Pending(v, x) => Pending(t, x)
    BY <1>1, <2>3, <2>7 DEF Fitting, Unmarks, Pending, FinPC
  <2>9. \A v, w \in V : v = w
    BY <2>1 DEF Walks
  <2>10. PICK N : N = R \cup V
    OBVIOUS
  <2>11. Heirs(N, {t})
    BY <2>6, <2>8, <2>9, <2>10 DEF Heirs
  <2>12. \A s \in Session : armed'[s] \in {armed[s], "none"}
    BY <2>4
  <2>13. (\A v \in N : ~Unmarks(v)) /\ Evolves({t}, N, D)
    BY <2>1, <2>6, <2>8, <2>10
  <2> QED
    BY <2>3, <2>4, <2>11, <2>12, <2>13, CleanCalm
<1> QED
  BY <1>2, <1>3, <1>4, <1>5

\* A coroutine that goes on as u, at an await that counts as busy.
LEMMA CleanTurn ==
    ASSUME IInv, Clean, NEW t \in tasks, NEW u, NEW pc, NEW D, Alone(u, t, D),
           Goes(u, t, pc), pc \in {"queued", "flip", "stream"},
           t.kind \in WsKind => pc # "flip",
           left' \subseteq left, UNCHANGED <<parked, cut>>,
           Arm(t.s) \/ UNCHANGED armed,
           \A s \in Session : s # t.s => running'[s] = running[s],
           running'[t.s] = "ws" => t.kind \in WsKind \/ running[t.s] = "ws"
    PROVE  Clean'
<1>1. PICK N : N = {u}
  OBVIOUS
<1>2. PICK X : X = {t}
  OBVIOUS
<1>3. t.s \in Session /\ t \in Task
  BY CleanTask
<1>4. u.s = t.s /\ u.kind = t.kind /\ u.pc = pc
  BY DEF Goes
<1>5. Marks(u) /\ Carries(u) /\ ~Unmarks(u) /\ (u.kind \in WsKind => WsPlace(u))
  BY <1>4 DEF Marks, Carries, Unmarks, FinPC, WsPlace
<1>6. Evolves(X, N, D)
  BY <1>1, <1>2 DEF Alone
<1>7. Heirs({u}, {t})
  BY <1>4, <1>5, HeirsAlone DEF Clean
<1>8. Heirs(N, X)
  BY <1>1, <1>2, <1>7
<1>9. \A s \in Session : armed'[s] # armed[s] => s = t.s /\ armed'[s] = "clear"
  BY Types DEF Arm, TypeOK
<1>10. /\ \A s \in Session : armed'[s] = "set" => armed[s] = "set" \/ Spent(s)'
       /\ \A s \in Session : armed'[s] # "none" =>
               \/ armed[s] # "none" \/ s \in cut'
               \/ \E v \in N : v.s = s /\ Carries(v)
               \/ \E w \in tasks \ X : w.s = s /\ Carries(w)
  BY <1>1, <1>4, <1>5, <1>9
<1>11. \A w \in X : w \in tasks /\ Carries(w) =>
               \/ armed'[w.s] = "none" \/ w.s \in cut'
               \/ \E v \in N : v.s = w.s /\ Carries(v)
  BY <1>1, <1>2, <1>4, <1>5
<1>12. \A s \in Session : running'[s] = "own" =>
               \/ parked'[s]
               \/ \E v \in N : v.s = s /\ (Marks(v) \/ Unmarks(v))
               \/ /\ running[s] = "own" /\ ~parked[s]
                  /\ \A w \in X : w.s = s => ~Marks(w) /\ ~Unmarks(w)
  BY <1>1, <1>2, <1>4, <1>5
<1>13. ASSUME NEW s \in Session, running'[s] = "ws"
       PROVE  \/ parked'[s]
              \/ \E v \in N : v.s = s /\ v.kind \in WsKind /\ Marks(v)
              \/ /\ running[s] = "ws" /\ ~parked[s]
                 /\ \A w \in X : w.s = s /\ w.kind \in WsKind => ~Marks(w)
  <2>1. CASE s = t.s /\ t.kind \in WsKind
    BY <1>1, <1>4, <1>5, <2>1
  <2>2. CASE s = t.s /\ t.kind \notin WsKind
    BY <1>2, <1>13, <2>2
  <2>3. CASE s # t.s
    BY <1>2, <1>13, <2>3
  <2> QED
    BY <2>1, <2>2, <2>3
<1>14. \A v \in N : Unmarks(v) => v.s \in Session /\ Spent(v.s)
  BY <1>1, <1>5
<1> QED
  BY <1>6, <1>8, <1>10, <1>11, <1>12, <1>13, <1>14, CleanStep

\* The steps by which a turn is registered as busy.
LEMMA TurnEnters ==
    ASSUME IInv, Clean, NEW t \in tasks,
           \/ StartTurn(t) \/ RetryGo(t) \/ (BriefStart(t) /\ ~IsSet(t, t.evt))
    PROVE  Clean'
<1>1. t \in Task /\ t.s \in Session /\ (t.kind \in WsKind => WsPlace(t))
  BY CleanTask
<1>2. CASE StartTurn(t)
  <2>1. PICK u, D : Alone(u, t, D) /\ Goes(u, t, "stream")
    BY <1>2, StartTurnShape
  <2>2. left' \subseteq left /\ UNCHANGED <<parked, cut>> /\ Arm(t.s)
    BY <1>2 DEF StartTurn, history
  <2>3. running' = [running EXCEPT ![t.s] = Owner(t)]
    BY <1>2 DEF StartTurn
  <2>4. \A s \in Session : s # t.s => running'[s] = running[s]
    BY <2>3, Types DEF TypeOK
  <2>5. running'[t.s] = "ws" => t.kind \in WsKind
    BY <1>1, <2>3, Types DEF TypeOK, Owner
  <2>6. "stream" # "flip" /\ "stream" \in {"queued", "flip", "stream"}
    OBVIOUS
  <2> QED
    BY <2>1, <2>2, <2>4, <2>5, <2>6, CleanTurn
<1>3. CASE RetryGo(t)
  <2>1. PICK u, D : Alone(u, t, D) /\ Goes(u, t, "queued")
    BY <1>3, RetryGoShape
  <2>2. left' \subseteq left /\ UNCHANGED <<parked, cut, running>> /\ Arm(t.s)
    BY <1>3 DEF RetryGo, history
  <2>3. "queued" # "flip" /\ "queued" \in {"queued", "flip", "stream"}
    OBVIOUS
  <2> QED
    BY <2>1, <2>2, <2>3, CleanTurn
<1>4. CASE BriefStart(t) /\ ~IsSet(t, t.evt)
  <2>1. PICK u, D : Alone(u, t, D) /\ Goes(u, t, "queued")
    BY <1>4, BriefStartShape
  <2>2. left' \subseteq left /\ UNCHANGED <<parked, cut, armed>>
    BY <1>4 DEF BriefStart, history
  <2>3. running' = [running EXCEPT ![t.s] = "own"]
    BY <1>4 DEF BriefStart
  <2>4. \A s \in Session : s # t.s => running'[s] = running[s]
    BY <2>3, Types DEF TypeOK
  <2>5. running'[t.s] # "ws"
    BY <1>1, <2>3, Types DEF TypeOK
  <2>6. "queued" # "flip" /\ "queued" \in {"queued", "flip", "stream"}
    OBVIOUS
  <2> QED
    BY <2>1, <2>2, <2>4, <2>5, <2>6, CleanTurn
<1> QED
  BY <1>2, <1>3, <1>4

\* The steps of a wake, refused or not.
LEMMA WakeClean ==
    ASSUME IInv, Clean, NEW t \in tasks, WakeEnter(t) \/ WakeFlipped(t)
    PROVE  Clean'
<1>1. t \in Task /\ t.s \in Session /\ (t.kind \in WsKind => WsPlace(t))
  BY CleanTask
<1>2. left' \subseteq left /\ UNCHANGED <<parked, cut>>
  BY DEF WakeEnter, WakeFlipped
<1>3. ASSUME NEW u, NEW pc \in {"flip", "stream"}, Alone(u, t, {}), Goes(u, t, pc),
             running' = [running EXCEPT ![t.s] = "own"], Arm(t.s) \/ UNCHANGED armed,
             t.kind \notin WsKind
      PROVE  Clean'
  <2>1. PICK D : Alone(u, t, D)
    BY <1>3
  <2>2. \A s \in Session : s # t.s => running'[s] = running[s]
    BY <1>3, Types DEF TypeOK
  <2>3. running'[t.s] # "ws"
    BY <1>1, <1>3, Types DEF TypeOK
  <2>4. pc \in {"queued", "flip", "stream"}
    OBVIOUS
  <2> QED
    BY <1>2, <1>3, <2>1, <2>2, <2>3, <2>4, CleanTurn
<1>4. CASE WakeEnter(t)
  <2>1. t.pc = "start" /\ t.kind = "wake"
    BY <1>4 DEF WakeEnter
  <2>2. ~Marks(t) /\ ~Unmarks(t) /\ ~Carries(t) /\ t.kind \notin WsKind
    BY <2>1 DEF Marks, Unmarks, FinPC, Carries, WsKind
  <2>3. CASE \E D : Evolves({t}, {}, D) /\ UNCHANGED running
                    /\ (Disarm(t.s) \/ UNCHANGED armed)
    <3>1. PICK D : Evolves({t}, {}, D) /\ UNCHANGED running
                   /\ (Disarm(t.s) \/ UNCHANGED armed)
      BY <2>3
    <3> QED
      BY <1>2, <2>2, <3>1, CleanEnd
  <2>4. CASE \E u, pc : /\ pc \in {"flip", "stream"} /\ Alone(u, t, {})
                        /\ Goes(u, t, pc)
                        /\ running' = [running EXCEPT ![t.s] = "own"]
                        /\ (Arm(t.s) \/ UNCHANGED armed)
    BY <1>3, <2>2, <2>4
  <2> QED
    BY <1>4, <2>3, <2>4, WakeEnterShape
<1>5. CASE WakeFlipped(t)
  <2>1. t.pc = "flip"
    BY <1>5 DEF WakeFlipped
  <2>2. t.kind \notin WsKind
    BY <1>1, <2>1 DEF WsPlace, FinPC
  <2>3. CASE /\ armed[t.s] = "set" /\ Disarm(t.s) /\ UNCHANGED running
             /\ \E V : Evolves({t}, V, {t.s}) /\ Finalizers(V, t, "unmark")
    <3>1. PICK V, D : Evolves({t}, V, D) /\ Finalizers(V, t, "unmark")
      BY <2>3
    <3>2. "unmark" \in BackPC
      BY DEF BackPC
    <3> QED
      BY <1>2, <2>2, <2>3, <3>1, <3>2, CleanReturn
  <2>4. CASE /\ running' = [running EXCEPT ![t.s] = "own"] /\ Arm(t.s)
             /\ \E u : Alone(u, t, {}) /\ Goes(u, t, "stream")
    BY <1>3, <2>2, <2>4
  <2> QED
    BY <1>5, <2>3, <2>4, WakeFlippedShape
<1> QED
  BY <1>4, <1>5

\* What a step asks of the busy registry, where only the entry of s goes.
LEMMA RunningGone ==
    ASSUME NEW s \in Session, IInv,
           \/ running' = [running EXCEPT ![s] = "none"] \/ UNCHANGED running
    PROVE  \A r \in Session : running'[r] # "none" => running'[r] = running[r]
BY Types DEF TypeOK

\* The refused wake drops its marker.
LEMMA UnmarkClean ==
    ASSUME IInv, Clean, NEW t \in tasks, Unmark(t)
    PROVE  Clean'
<1>1. t \in Task /\ t.s \in Session /\ (t.kind \in WsKind => WsPlace(t))
  BY CleanTask
<1>2. t.pc = "unmark" /\ left' \subseteq left /\ UNCHANGED <<parked, cut, armed>>
  BY DEF Unmark, history
<1>3. ~Carries(t) /\ ~Marks(t)
  BY <1>2 DEF Carries, Marks, FinPC
<1>4. PICK N : N = {}
  OBVIOUS
<1>5. PICK X : X = {t}
  OBVIOUS
<1>6. PICK D : Evolves(X, N, D)
  BY <1>4, <1>5, EndsShape DEF Unmark
<1>7. Heirs(N, X) /\ \A v \in N : Unmarks(v) => v.s \in Session /\ Spent(v.s)
  BY <1>4 DEF Heirs
<1>8. running' = IF running[t.s] = "own" THEN [running EXCEPT ![t.s] = "none"]
                  ELSE running
  BY DEF Unmark
<1>9. /\ \A s \in Session : running'[s] = "own" => running[s] = "own" /\ s # t.s
      /\ \A s \in Session : running'[s] = "ws" => running[s] = "ws"
  BY <1>1, <1>8, Types DEF TypeOK
<1>10. \A s \in Session : parked'[s] = parked[s] /\ armed'[s] = armed[s]
  BY <1>2
<1>11. \A s \in Session : running'[s] = "own" =>
               \/ parked'[s]
               \/ \E v \in N : v.s = s /\ (Marks(v) \/ Unmarks(v))
               \/ /\ running[s] = "own" /\ ~parked[s]
                  /\ \A u \in X : u.s = s => ~Marks(u) /\ ~Unmarks(u)
  BY <1>5, <1>9, <1>10
<1>12. \A s \in Session : running'[s] = "ws" =>
               \/ parked'[s]
               \/ \E v \in N : v.s = s /\ v.kind \in WsKind /\ Marks(v)
               \/ /\ running[s] = "ws" /\ ~parked[s]
                  /\ \A u \in X : u.s = s /\ u.kind \in WsKind => ~Marks(u)
  BY <1>3, <1>5, <1>9, <1>10
<1>13. \A u \in X : ~Carries(u)
  BY <1>3, <1>5
<1> QED
  BY <1>2, <1>6, <1>7, <1>10, <1>11, <1>12, <1>13, CleanStep

\* A child that is being created gets its event.
LEMMA SpawnArmClean ==
    ASSUME IInv, Clean, NEW t \in tasks, SpawnArm(t)
    PROVE  Clean'
<1>1. t \in Task /\ t.s \in Session /\ (t.pc \in {"create", "armed"} => t.kind = "brief")
  BY CleanTask
<1>2. /\ t.pc = "create" /\ left' \subseteq left /\ Arm(t.s)
      /\ UNCHANGED <<parked, cut, running>>
  BY DEF SpawnArm, history
<1>3. ~Carries(t) /\ ~Marks(t) /\ ~Unmarks(t) /\ t.kind = "brief"
  BY <1>1, <1>2 DEF Carries, Marks, Unmarks, FinPC
<1>4. PICK u, D : Alone(u, t, D) /\ Goes(u, t, "armed")
  BY SpawnArmShape
<1>5. u.s = t.s /\ u.kind = "brief" /\ u.pc = "armed"
  BY <1>3, <1>4 DEF Goes
<1>6. Carries(u) /\ ~Unmarks(u) /\ u.kind \notin WsKind
  BY <1>5 DEF Carries, Unmarks, FinPC, WsKind
<1>7. PICK N : N = {u}
  OBVIOUS
<1>8. PICK X : X = {t}
  OBVIOUS
<1>9. Heirs({u}, {t})
  BY <1>3, <1>4, <1>6, HeirsAlone DEF Clean
<1>10. Heirs(N, X) /\ Evolves(X, N, D)
  BY <1>4, <1>7, <1>8, <1>9 DEF Alone
<1>11. \A v \in N : Unmarks(v) => v.s \in Session /\ Spent(v.s)
  BY <1>6, <1>7
<1>12. \A s \in Session : armed'[s] # armed[s] => s = t.s /\ armed'[s] = "clear"
  BY <1>2, Types DEF Arm, TypeOK
<1>13. /\ \A s \in Session : armed'[s] = "set" => armed[s] = "set" \/ Spent(s)'
       /\ \A s \in Session : armed'[s] # "none" =>
               \/ armed[s] # "none" \/ s \in cut'
               \/ \E v \in N : v.s = s /\ Carries(v)
               \/ \E w \in tasks \ X : w.s = s /\ Carries(w)
  BY <1>5, <1>6, <1>7, <1>12
<1>14. \A w \in X : ~Carries(w) /\ ~Marks(w) /\ ~Unmarks(w)
  BY <1>3, <1>8
<1> QED
  BY <1>2, <1>10, <1>11, <1>13, <1>14, CleanStep

\* The end of a segment takes the session off the registries.
LEMMA StreamEndClean ==
    ASSUME IInv, Clean, Locks, NEW t \in tasks,
           NEW out \in {"ok", "error", "recursion"}, StreamEnd(t, out)
    PROVE  Clean'
<1>1. t \in Task /\ t.s \in Session
  BY CleanTask
<1>2. /\ t.pc \in {"stream", "drain"} /\ left' \subseteq left /\ Disarm(t.s)
      /\ UNCHANGED cut /\ running' = [running EXCEPT ![t.s] = "none"]
      /\ parked' = [parked EXCEPT ![t.s] = FALSE]
  BY DEF StreamEnd, Streaming, history, Take
<1>3. t.lk
  BY <1>2 DEF Locks, Holding
<1>4. PICK R, V, D : Evolves({t}, R \cup V, D) /\ Reconciles(R, t.s) /\ Leaves(V, t)
  BY <1>3, StreamEndShape DEF SegmentOver
<1>5. PICK N : N = R \cup V
  OBVIOUS
<1>6. PICK X : X = {t}
  OBVIOUS
<1>7. Heirs(R \cup V, {t})
  BY <1>4, HeirsOver DEF Clean
<1>8. Heirs(N, X) /\ Evolves(X, N, D)
  BY <1>4, <1>5, <1>6, <1>7
<1>9. \A v \in N : ~Unmarks(v)
  <2>1. \A v \in R : v.pc = "start"
    BY <1>4, WakesSpawned DEF Reconciles, Spawned
  <2>2. \A v \in V : v.pc \in {"start", "wpush"} \/ (v.pc \in FinPC /\ v.ret = "end")
    BY <1>4 DEF Leaves, Gated, Spawned
  <2> QED
    BY <1>5, <2>1, <2>2 DEF Unmarks, FinPC
<1>10. /\ \A s \in Session : armed'[s] \in {armed[s], "none"}
       /\ armed'[t.s] = "none"
  BY <1>2, Popped
<1>11. /\ \A s \in Session : armed'[s] = "set" => armed[s] = "set"
       /\ \A s \in Session : armed'[s] # "none" => armed[s] # "none"
       /\ \A u \in X : armed'[u.s] = "none"
  BY <1>6, <1>10
<1>12. \A s \in Session : s # t.s => running'[s] = running[s] /\ parked'[s] = parked[s]
  BY <1>2, Types DEF TypeOK
<1>13. running'[t.s] = "none" /\ parked'[t.s] = FALSE
  BY <1>1, <1>2, Types DEF TypeOK
<1>14. \A s \in Session : parked'[s] => parked[s]
  BY <1>12, <1>13
<1>15. /\ \A s \in Session : running'[s] = "own" =>
            parked'[s] \/ (running[s] = "own" /\ ~parked[s] /\ \A u \in X : u.s # s)
       /\ \A s \in Session : running'[s] = "ws" =>
            parked'[s] \/ (running[s] = "ws" /\ ~parked[s] /\ \A u \in X : u.s # s)
  BY <1>6, <1>12, <1>13
<1> QED
  BY <1>2, <1>8, <1>9, <1>11, <1>14, <1>15, CleanStep

\* So does its stop, which cuts children off.
LEMMA StreamStopClean ==
    ASSUME IInv, Clean, NEW t \in tasks, StreamStop(t)
    PROVE  Clean'
<1>1. t \in Task /\ t.s \in Session /\ (t.kind \in WsKind => WsPlace(t))
  BY CleanTask
<1>2. /\ t.pc \in {"stream", "drain"} /\ left' \subseteq left /\ Disarm(t.s)
      /\ running' = [running EXCEPT ![t.s] = "none"]
      /\ parked' = [parked EXCEPT ![t.s] = FALSE]
  BY DEF StreamStop, Streaming
<1>3. PICK C, V, D :
             /\ C \in SUBSET Spawning(t.s)
             /\ Evolves({t} \cup C, V, D) /\ Finalizers(V, t, "seg")
             /\ cut' = cut \cup {c.s : c \in C}
  BY StreamStopShape
<1>4. PICK X : X = {t} \cup C
  OBVIOUS
<1>5. PICK W : W = {}
  OBVIOUS
<1>6. (\A v \in W : Spawned(v, {"wake", "flush"})) /\ V \cup W = V
  BY <1>5
<1>7. "seg" \in BackPC
  BY DEF BackPC
<1>8. Heirs(V \cup W, {t})
  BY <1>3, <1>6, <1>7, HeirsFin DEF Clean
<1>9. Heirs(V, X) /\ Evolves(X, V, D)
  BY <1>3, <1>4, <1>6, <1>8 DEF Heirs
<1>10. \A v \in V : ~Unmarks(v)
  BY <1>3 DEF Finalizers, Finalizer, Unmarks, FinPC
<1>11. /\ \A s \in Session : armed'[s] \in {armed[s], "none"}
       /\ armed'[t.s] = "none"
  BY <1>2, Popped
<1>12. /\ \A s \in Session : armed'[s] = "set" => armed[s] = "set"
       /\ \A s \in Session : armed'[s] # "none" => armed[s] # "none"
  BY <1>11
<1>13. \A c \in C : c.pc \in {"create", "armed"} /\ c.s \in cut'
  BY <1>3 DEF Spawning
<1>14. \A u \in X : armed'[u.s] = "none" \/ u.s \in cut'
  BY <1>4, <1>11, <1>13
<1>15. \A u \in X : u = t \/ (~Marks(u) /\ ~Unmarks(u))
  BY <1>4, <1>13 DEF Marks, Unmarks, FinPC
<1>16. \A s \in Session : s # t.s => running'[s] = running[s] /\ parked'[s] = parked[s]
  BY <1>2, Types DEF TypeOK
<1>17. running'[t.s] = "none" /\ parked'[t.s] = FALSE
  BY <1>1, <1>2, Types DEF TypeOK
<1>18. (\A s \in Session : parked'[s] => parked[s]) /\ cut \subseteq cut'
  BY <1>3, <1>16, <1>17
<1>19. /\ \A s \in Session : running'[s] = "own" =>
            \/ parked'[s]
            \/ /\ running[s] = "own" /\ ~parked[s]
               /\ \A u \in X : u.s = s => ~Marks(u) /\ ~Unmarks(u)
       /\ \A s \in Session : running'[s] = "ws" =>
            \/ parked'[s]
            \/ /\ running[s] = "ws" /\ ~parked[s]
               /\ \A u \in X : u.s = s /\ u.kind \in WsKind => ~Marks(u)
  BY <1>15, <1>16, <1>17
<1> QED
  BY <1>2, <1>9, <1>10, <1>12, <1>14, <1>18, <1>19, CleanStep

\* A parked segment that drained may leave the busy registry.
LEMMA ParkEndClean ==
    ASSUME IInv, Clean, Locks, NEW t \in tasks, ParkEnd(t)
    PROVE  Clean'
<1>1. t \in Task /\ t.s \in Session
  BY CleanTask
<1>2. /\ t.pc = "drain" /\ left' \subseteq left /\ Disarm(t.s)
      /\ UNCHANGED <<parked, cut>>
  BY DEF ParkEnd, history
<1>3. t.lk
  BY <1>2 DEF Locks, Holding
<1>4. PICK R, V, D : Evolves({t}, R \cup V, D) /\ Reconciles(R, t.s) /\ Leaves(V, t)
  BY <1>3, ParkEndShape DEF SegmentOver
<1>5. PICK N : N = R \cup V
  OBVIOUS
<1>6. PICK X : X = {t}
  OBVIOUS
<1>7. Heirs(R \cup V, {t})
  BY <1>4, HeirsOver DEF Clean
<1>8. Heirs(N, X) /\ Evolves(X, N, D)
  BY <1>4, <1>5, <1>6, <1>7
<1>9. \A v \in N : ~Unmarks(v)
  <2>1. \A v \in R : v.pc = "start"
    BY <1>4, WakesSpawned DEF Reconciles, Spawned
  <2>2. \A v \in V : v.pc \in {"start", "wpush"} \/ (v.pc \in FinPC /\ v.ret = "end")
    BY <1>4 DEF Leaves, Gated, Spawned
  <2> QED
    BY <1>5, <2>1, <2>2 DEF Unmarks, FinPC
<1>10. /\ \A s \in Session : armed'[s] \in {armed[s], "none"}
       /\ armed'[t.s] = "none"
  BY <1>2, Popped
<1>11. /\ \A s \in Session : armed'[s] = "set" => armed[s] = "set"
       /\ \A s \in Session : armed'[s] # "none" => armed[s] # "none"
       /\ \A u \in X : armed'[u.s] = "none"
  BY <1>6, <1>10
<1>12. running' = [running EXCEPT ![t.s] = "none"] \/ UNCHANGED running
  BY DEF ParkEnd
<1>13. \A s \in Session : running'[s] # "none" => running'[s] = running[s]
  BY <1>1, <1>12, RunningGone
<1>14. \A u \in X : ~Marks(u) /\ ~Unmarks(u)
  BY <1>2, <1>6 DEF Marks, Unmarks, FinPC
<1>15. \A s \in Session : parked'[s] = parked[s]
  BY <1>2
<1>16. /\ \A s \in Session : running'[s] = "own" => running[s] = "own"
       /\ \A s \in Session : running'[s] = "ws" => running[s] = "ws"
  BY <1>13
<1> QED
  BY <1>2, <1>8, <1>9, <1>11, <1>14, <1>15, <1>16, CleanStep

\* Coroutines that join, each with nothing to visit, may register as busy.
LEMMA CleanJoin ==
    ASSUME IInv, Clean, NEW N, NEW D, Evolves({}, N, D),
           \A v \in N : v.todo = {} /\ v.kind # "cascade" /\ Fitting(v) /\ ~Unmarks(v),
           left' \subseteq left, UNCHANGED cut,
           \A s \in Session : parked'[s] => parked[s],
           \A s \in Session : armed'[s] # armed[s] =>
               armed'[s] = "clear" /\ \E v \in N : v.s = s /\ Carries(v),
           \A s \in Session :
               \/ running'[s] = running[s] /\ parked'[s] = parked[s]
               \/ \E v \in N : v.s = s /\ v.kind \in WsKind /\ Marks(v)
    PROVE  Clean'
<1>1. PICK X : X = {}
  OBVIOUS
<1>2. Evolves(X, N, D) /\ \A u \in X : FALSE
  BY <1>1
<1>3. Heirs(N, X)
  BY DEF Heirs, Pending
<1>4. \A s \in Session : armed'[s] = "set" => armed[s] = "set"
  OBVIOUS
<1>5. \A s \in Session : armed'[s] # "none" =>
               armed[s] # "none" \/ \E v \in N : v.s = s /\ Carries(v)
  OBVIOUS
<1>6. /\ \A s \in Session : running'[s] = "own" =>
            \/ parked'[s]
            \/ \E v \in N : v.s = s /\ (Marks(v) \/ Unmarks(v))
            \/ running[s] = "own" /\ ~parked[s]
      /\ \A s \in Session : running'[s] = "ws" =>
            \/ parked'[s]
            \/ \E v \in N : v.s = s /\ v.kind \in WsKind /\ Marks(v)
            \/ running[s] = "ws" /\ ~parked[s]
  OBVIOUS
<1> QED
  BY <1>2, <1>3, <1>4, <1>5, <1>6, CleanStep

\* The user's messages and retries, the spawns and the timers.
LEMMA UserCalm ==
    ASSUME IInv, Clean,
           \/ \E c \in Subagent : SpawnCreate(c)
           \/ \E s \in Session : Invoke(s) \/ Answer(s) \/ Retry(s) \/ TimerFire(s)
    PROVE  Clean'
<1>1. CASE \E c \in Subagent : SpawnCreate(c)
  <2>1. PICK c \in Subagent : SpawnCreate(c)
    BY <1>1
  <2>2. PICK n, D : /\ Evolves({}, {n}, D) /\ n.kind = "brief"
                    /\ n.pc = "create" /\ n.todo = {}
    BY <2>1, SpawnCreateShape
  <2>3. PICK N : N = {n}
    OBVIOUS
  <2>4. \A v \in N : v.todo = {} /\ v.kind # "cascade" /\ Fitting(v) /\ ~Unmarks(v)
    BY <2>2, <2>3 DEF Fitting, Unmarks, FinPC, WsKind
  <2>5. left' \subseteq left /\ UNCHANGED <<parked, running, cut, armed>>
    BY <2>1 DEF SpawnCreate, registries, history
  <2> QED
    BY <2>2, <2>3, <2>4, <2>5, CleanJoin
<1>2. ASSUME NEW s \in Session, NEW n, Evolves({}, {n}, {}), Socket(n, s),
             left' \subseteq left, UNCHANGED cut, Arm(s),
             \A r \in Session : parked'[r] => parked[r],
             \A r \in Session : r # s => running'[r] = running[r] /\ parked'[r] = parked[r]
      PROVE  Clean'
  <2>1. PICK N : N = {n}
    OBVIOUS
  <2>2. PICK D : D = {}
    OBVIOUS
  <2>3. Evolves({}, N, D)
    BY <1>2, <2>1, <2>2
  <2>4. \A v \in N : v.todo = {} /\ v.kind # "cascade" /\ Fitting(v) /\ ~Unmarks(v)
    BY <1>2, <2>1 DEF Socket, Fitting, Unmarks, FinPC, WsKind, WsPlace
  <2>5. n \in N /\ n.s = s /\ n.kind \in WsKind /\ Marks(n) /\ Carries(n)
    BY <1>2, <2>1 DEF Socket, Marks, Carries
  <2>6. \A r \in Session : armed'[r] # armed[r] => r = s /\ armed'[r] = "clear"
    BY <1>2, Types DEF Arm, TypeOK
  <2>7. \A r \in Session : armed'[r] # armed[r] =>
            armed'[r] = "clear" /\ \E v \in N : v.s = r /\ Carries(v)
    BY <2>5, <2>6
  <2>8. \A r \in Session :
            \/ running'[r] = running[r] /\ parked'[r] = parked[r]
            \/ \E v \in N : v.s = r /\ v.kind \in WsKind /\ Marks(v)
    BY <1>2, <2>5
  <2> QED
    BY <1>2, <2>3, <2>4, <2>7, <2>8, CleanJoin
<1>3. CASE \E s \in Session : Invoke(s)
  <2>1. PICK s \in Session : Invoke(s)
    BY <1>3
  <2>2. PICK n : Evolves({}, {n}, {}) /\ Socket(n, s)
    BY <2>1, InvokeShape
  <2>3. /\ left' \subseteq left /\ UNCHANGED <<cut, parked>> /\ Arm(s)
        /\ running' = [running EXCEPT ![s] = "ws"]
    BY <2>1 DEF Invoke, history, Take
  <2>4. \A r \in Session : r # s => running'[r] = running[r]
    BY <2>3, Types DEF TypeOK
  <2> QED
    BY <1>2, <2>2, <2>3, <2>4
<1>4. CASE \E s \in Session : Answer(s)
  <2>1. PICK s \in Session : Answer(s)
    BY <1>4
  <2>2. PICK n : Evolves({}, {n}, {}) /\ Socket(n, s)
    BY <2>1, AnswerShape
  <2>3. /\ left' \subseteq left /\ UNCHANGED <<cut, running>> /\ Arm(s)
        /\ parked' = [parked EXCEPT ![s] = FALSE]
    BY <2>1 DEF Answer, history
  <2>4. \A r \in Session : r # s => parked'[r] = parked[r]
    BY <2>3, Types DEF TypeOK
  <2>5. \A r \in Session : parked'[r] => parked[r]
    BY <2>3, Types DEF TypeOK
  <2> QED
    BY <1>2, <2>2, <2>3, <2>4, <2>5
<1>5. CASE \E s \in Session : Retry(s)
  <2>1. PICK s \in Session : Retry(s)
    BY <1>5
  <2>2. PICK n, D : /\ Evolves({}, {n}, D) /\ n.kind = "retry"
                    /\ n.pc = "rpush" /\ n.todo = {} /\ ~n.listed
    BY <2>1, RetryShape
  <2>3. PICK N : N = {n}
    OBVIOUS
  <2>4. \A v \in N : v.todo = {} /\ v.kind # "cascade" /\ Fitting(v) /\ ~Unmarks(v)
    BY <2>2, <2>3 DEF Fitting, Unmarks, FinPC, WsKind, WsPlace
  <2>5. left' \subseteq left /\ UNCHANGED <<parked, running, cut, armed>>
    BY <2>1 DEF Retry, registries, Take
  <2> QED
    BY <2>2, <2>3, <2>4, <2>5, CleanJoin
<1>6. CASE \E s \in Session : TimerFire(s)
  <2>1. PICK s \in Session : TimerFire(s)
    BY <1>6
  <2>2. PICK N, D : Evolves({}, N, D) /\ Calls(N, s)
    BY <2>1, TimerFireShape
  <2>3. \A v \in N : v.todo = {} /\ v.kind # "cascade" /\ Fitting(v) /\ ~Unmarks(v)
    BY <2>2 DEF Calls, Spawned, Fitting, Unmarks, FinPC, WsKind, WsPlace
  <2>4. left' \subseteq left /\ UNCHANGED <<parked, running, cut, armed>>
    BY <2>1 DEF TimerFire, registries, history
  <2> QED
    BY <2>2, <2>3, <2>4, CleanJoin
<1> QED
  BY <1>1, <1>3, <1>4, <1>5, <1>6

\* What a cascade may signal it has still to visit, and meets no question.
LEMMA Visited ==
    ASSUME IInv, Clean, NEW t \in tasks, AtCascade(t), NEW x \in ToVisit(t)
    PROVE  x \in Subagent /\ Pending(t, x) /\ ~parked[x]
<1>1. t.todo \subseteq Subagent
  BY CleanTask DEF Fitting
<1>2. x \in Subagent /\ Pending(t, x)
  BY <1>1 DEF AtCascade, ToVisit, Below, Pending
<1> QED
  BY <1>2 DEF Clean, Sweeps

\* Whoever is busy, and neither parked nor refused, will drop its event.
LEMMA BusyCarries ==
    ASSUME IInv, Clean, NEW x \in Session, Busy(x), ~parked[x],
           \A u \in tasks : u.s = x => ~Unmarks(u)
    PROVE  \E u \in tasks : u.s = x /\ Carries(u)
<1>1. CASE running[x] # "none"
  <2>1. running[x] \in {"own", "ws"}
    BY <1>1, Types DEF TypeOK
  <2>2. PICK u \in tasks : u.s = x /\ Marks(u)
    BY <2>1 DEF Clean, Marked
  <2> QED
    BY <2>2 DEF Marks, Carries
<1>2. CASE WsLive(tasks, x)
  <2>1. PICK u \in tasks : u.kind \in WsKind /\ u.listed /\ u.s = x
    BY <1>2 DEF WsLive
  <2>2. WsPlace(u)
    BY <2>1, CleanTask
  <2> QED
    BY <2>1, <2>2 DEF WsPlace, Carries
<1> QED
  BY <1>1, <1>2 DEF Busy

\* The events a cascade sets are last ones, and will be dropped.
LEMMA SignalSafe ==
    ASSUME IInv, Clean, NEW t \in tasks, AtCascade(t), NEW N, NEW D,
           Evolves({t}, N, D), left' \subseteq left,
           NEW S \in SUBSET (ToVisit(t) \ AwaitsAt(t)), Signal(S),
           \A v \in N : \A y \in S : ~Pending(v, y)
    PROVE  /\ \A s \in Session : armed'[s] = "set" => armed[s] = "set" \/ Spent(s)'
           /\ \A s \in Session : armed'[s] # "none" =>
                \/ armed[s] # "none"
                \/ \E u \in tasks \ {t} : u.s = s /\ Carries(u)
<1>1. ASSUME NEW y \in S
      PROVE  Spent(y)'
  <2>1. y \in Subagent /\ Pending(t, y)
    BY Visited
  <2>2. \A p \in Way(y) : <<"stop", p>> \notin left'
    BY <2>1 DEF Clean, Sweeps
  <2>3. ASSUME NEW v \in tasks', Pending(v, y)
        PROVE  FALSE
    <3>1. v \notin N
      BY <2>3
    <3>2. PICK u \in tasks \ {t} : Twin(u, v)
      BY <3>1, Evolved
    <3>3. Pending(u, y)
      BY <2>3, <3>2, TwinSame
    <3> QED
      BY <2>1, <3>2, <3>3 DEF Clean, Sweeps
  <2> QED
    BY <2>2, <2>3 DEF Spent
<1>2. ASSUME NEW y \in S, armed[y] = "none", status[y] \in Live
      PROVE  \E u \in tasks \ {t} : u.s = y /\ Carries(u)
  <2>1. y \in Subagent /\ Pending(t, y) /\ ~parked[y]
    BY Visited
  <2>2. Busy(y) /\ y \in Session
    BY <1>2, <2>1 DEF AwaitsAt, Idle, Subagent
  <2>3. ASSUME NEW u \in tasks, u.s = y
        PROVE  ~Unmarks(u)
    <3>1. Unmarks(u) => Spent(y)
      BY <2>3 DEF Clean, Once
    <3> QED
      BY <2>1, <3>1 DEF Spent, Subagent
  <2>4. PICK u \in tasks : u.s = y /\ Carries(u)
    BY <2>1, <2>2, <2>3, BusyCarries
  <2>5. ~Carries(t)
    BY DEF AtCascade, Carries, FinPC
  <2> QED
    BY <2>4, <2>5
<1>3. armed' = [s \in Session |->
        IF s \in S /\ (armed[s] # "none" \/ status[s] \in Live) THEN "set" ELSE armed[s]]
  BY DEF Signal
<1> QED
  BY <1>1, <1>2, <1>3

\* The steps of a cascade.
LEMMA CascadeClean ==
    ASSUME IInv, Clean, NEW t \in tasks,
           CascadeEnd(t) \/ CascadeParked(t) \/ CascadeIdle(t)
    PROVE  Clean'
<1>1. AtCascade(t)
  BY DEF CascadeEnd, CascadeParked, CascadeIdle
<1>2. ~Carries(t) /\ ~Marks(t) /\ ~Unmarks(t)
  BY <1>1 DEF AtCascade, Carries, Marks, Unmarks, FinPC
<1>3. ASSUME NEW N, NEW D, Evolves({t}, N, D), Heirs(N, {t}),
             NEW S \in SUBSET (ToVisit(t) \ AwaitsAt(t)), Signal(S),
             \A v \in N : ~Unmarks(v) /\ \A y \in S : ~Pending(v, y),
             left' \subseteq left, UNCHANGED <<parked, running, cut>>
      PROVE  Clean'
  <2>1. PICK X : X = {t}
    OBVIOUS
  <2>2. Evolves(X, N, D) /\ Heirs(N, X)
    BY <1>3, <2>1
  <2>3. /\ \A s \in Session : armed'[s] = "set" => armed[s] = "set" \/ Spent(s)'
        /\ \A s \in Session : armed'[s] # "none" =>
                \/ armed[s] # "none"
                \/ \E u \in tasks \ {t} : u.s = s /\ Carries(u)
    BY <1>1, <1>3, SignalSafe
  <2>4. \A s \in Session : armed'[s] # "none" =>
            \/ armed[s] # "none" \/ \E u \in tasks \ X : u.s = s /\ Carries(u)
    BY <2>1, <2>3
  <2>5. \A u \in X : ~Carries(u) /\ ~Marks(u) /\ ~Unmarks(u)
    BY <1>2, <2>1
  <2> QED
    BY <1>3, <2>2, <2>3, <2>4, <2>5, CleanStep
<1>4. CASE CascadeEnd(t)
  <2>1. PICK N : N = {}
    OBVIOUS
  <2>2. PICK D : Evolves({t}, N, D)
    BY <1>4, <2>1, CascadeEndShape
  <2>3. Heirs(N, {t})
    BY <2>1 DEF Heirs
  <2>4. PICK S : S = ToVisit(t)
    OBVIOUS
  <2>5. S \in SUBSET (ToVisit(t) \ AwaitsAt(t)) /\ Signal(S)
    BY <1>4, <2>4 DEF CascadeEnd
  <2>6. left' \subseteq left /\ UNCHANGED <<parked, running, cut>>
    BY <1>4 DEF CascadeEnd, history
  <2> QED
    BY <1>3, <2>1, <2>2, <2>3, <2>5, <2>6
<1>5. CASE CascadeParked(t)
  <2>1. PICK x \in ToVisit(t) : parked[x]
    BY <1>5, CascadeParkedShape
  <2> QED
    BY <1>1, <2>1, Visited
<1>6. CASE CascadeIdle(t)
  <2>1. PICK x, S, u, V, D :
             /\ x \in ToVisit(t) /\ S \in SUBSET (ToVisit(t) \ AwaitsAt(t))
             /\ Signal(S) /\ Evolves({t}, V, D) /\ Finalizers(V, u, "walk")
             /\ u.s = x /\ u.kind = "cascade" /\ u.todo = ToVisit(t) \ (S \cup {x})
    BY <1>6, CascadeIdleShape
  <2>2. \A v \in V : /\ v.kind = "cascade" /\ v.todo = u.todo
                     /\ v.pc \in FinPC \cup {"walk"}
                     /\ v.pc \in FinPC => v.ret = "walk"
    BY <2>1 DEF Finalizers, Finalizer, Onward, FinPC
  <2>3. \A v \in V : /\ \A y : Pending(v, y) => y \in ToVisit(t) /\ y \notin S
                     /\ ~Unmarks(v)
    BY <2>1, <2>2 DEF Pending, Unmarks, FinPC
  <2>4. \A v \in V : Fitting(v)
    <3>1. ToVisit(t) \subseteq Subagent
      BY <1>1, Visited
    <3> QED
      BY <2>1, <2>2, <3>1 DEF Fitting, FinPC, WsKind
  <2>5. \A v, w \in V : v = w
    BY <2>1 DEF Finalizers
  <2>6. \A y \in ToVisit(t) : Pending(t, y)
    BY <1>1, Visited
  <2>7. Heirs(V, {t})
    BY <2>3, <2>4, <2>5, <2>6 DEF Heirs
  <2>8. left' \subseteq left /\ UNCHANGED <<parked, running, cut>>
    BY <1>6 DEF CascadeIdle, history
  <2> QED
    BY <1>3, <2>1, <2>3, <2>7, <2>8
<1> QED
  BY <1>4, <1>5, <1>6

\* A turn that asks parks where no stop from above will meet it.
LEMMA InterruptClean ==
    ASSUME IInv, Clean, StopsApart, NEW t \in tasks, Interrupt(t)
    PROVE  Clean'
<1>1. t \in Task /\ t.s \in Session
  BY CleanTask
<1>2. /\ t.pc = "stream" /\ <<"interrupt", t.s>> \in left /\ left' \subseteq left
      /\ parked' = [parked EXCEPT ![t.s] = TRUE] /\ UNCHANGED <<running, armed, cut>>
  BY DEF Interrupt, Take, history
<1>3. PICK u, D : Alone(u, t, D) /\ Goes(u, t, "drain")
  BY InterruptShape
<1>4. u.s = t.s /\ u.pc = "drain"
  BY <1>3 DEF Goes
<1>5. Carries(u) /\ ~Unmarks(u) /\ WsPlace(u)
  BY <1>4 DEF Carries, Unmarks, FinPC, WsPlace
<1>6. PICK N : N = {u}
  OBVIOUS
<1>7. PICK X : X = {t}
  OBVIOUS
<1>8. Heirs({u}, {t})
  BY <1>3, <1>5, HeirsAlone DEF Clean
<1>9. Heirs(N, X) /\ Evolves(X, N, D)
  BY <1>3, <1>6, <1>7, <1>8 DEF Alone
<1>10. MayPark(t.s)
  BY <1>1, <1>2, StopsLeft DEF MayPark
<1>11. /\ \A s \in Session : s # t.s => parked'[s] = parked[s]
       /\ parked'[t.s]
  BY <1>1, <1>2, Types DEF TypeOK
<1>12. \A s \in Session : parked'[s] => parked[s] \/ MayPark(s)
  BY <1>10, <1>11
<1>13. /\ \A v \in N : ~Unmarks(v)
       /\ \A w \in X : \E v \in N : v.s = w.s /\ Carries(v)
  BY <1>4, <1>5, <1>6, <1>7
<1>14. \A s \in Session : armed'[s] = armed[s] /\ running'[s] = running[s]
  BY <1>2
<1>15. \A w \in X : w.s = t.s
  BY <1>7
<1> QED
  BY <1>2, <1>9, <1>11, <1>12, <1>13, <1>14, <1>15, CleanStep

\* A stop that is pressed is the last one that reaches who is below.
LEMMA StopReaches ==
    ASSUME IInv, Clean, StopsApart, NEW s \in Session, <<"stop", s>> \in left,
           left' = left \ {<<"stop", s>>},
           NEW x \in Session, s \in Way(x)
    PROVE  /\ \A p \in Way(x) : <<"stop", p>> \notin left'
           /\ x # s => <<"interrupt", x>> \notin left /\ ~parked[x]
           /\ x # Root => \A t \in tasks : ~Pending(t, x)
           /\ ~Spent(x)
<1>1. \A p \in Way(x) : <<"stop", p>> \notin left'
  BY StopsLeft
<1>2. ~Spent(x)
  BY DEF Spent
<1>3. ASSUME x # Root
      PROVE  \A t \in tasks : ~Pending(t, x)
  BY <1>3 DEF Clean, Sweeps, Subagent
<1>4. ASSUME x # s
      PROVE  <<"interrupt", x>> \notin left /\ ~parked[x]
  <2>1. x \in Subagent
    BY <1>4 DEF Way, Subagent
  <2> QED
    BY <1>4, <2>1, StopsLeft DEF Clean, Sweeps
<1> QED
  BY <1>1, <1>2, <1>3, <1>4

\* Who is below s is reached by a stop of s.
LEMMA BelowWay ==
    ASSUME NEW s \in Subagent, NEW x \in Subagent, s \in Above(x)
    PROVE  s \in Way(x) /\ x # s
BY TreeAssumption DEF Way, Subagent

\* A stop spawns a cascade that is alone, and sets an event that is a last one.
LEMMA StopClean ==
    ASSUME IInv, Clean, StopsApart, NEW s \in Session, Stop(s)
    PROVE  Clean'
<1>1. /\ <<"stop", s>> \in left /\ left' = left \ {<<"stop", s>>} /\ UNCHANGED cut
  BY DEF Stop, Take, history
<1>2. s \in Way(s)
  BY DEF Way
<1>3. PICK X : X = {}
  OBVIOUS
<1>4. PICK B, N : /\ Stopping(B, s)
                  /\ \/ /\ parked[s] /\ \E h : N = B \cup {h} /\ Healing(h, s)
                        /\ parked' = [parked EXCEPT ![s] = FALSE]
                        /\ running' = [running EXCEPT ![s] = "none"]
                        /\ UNCHANGED armed
                     \/ /\ ~parked[s] /\ N = B
                        /\ armed' = IF Busy(s) THEN [armed EXCEPT ![s] = "set"] ELSE armed
                        /\ UNCHANGED <<parked, running>>
                  /\ Evolves({}, N, {})
  BY StopShape
<1>5. PICK D : Evolves(X, N, D)
  BY <1>3, <1>4
<1>6. \A v \in N : /\ v.todo = {} /\ v.s = s
                   /\ v.kind \in {"cascade", "stopif", "heal"}
                   /\ v.pc \in {"start", "heal"}
                   /\ v.kind = "cascade" => v \in B /\ v.pc = "start" /\ s \in Subagent
  BY <1>4 DEF Stopping, Spawned, Healing, Subagent
<1>7. \A v \in N : Fitting(v) /\ ~Unmarks(v)
  BY <1>6 DEF Fitting, Unmarks, FinPC, WsKind
<1>8. \A v, w \in N : v.kind = "cascade" /\ w.kind = "cascade" => v = w
  BY <1>4, <1>6 DEF Stopping
<1>9. ASSUME NEW v \in N, NEW x \in Subagent, Pending(v, x)
      PROVE  v.kind = "cascade" /\ s \in Way(x) /\ x # s /\ x \in Session
  <2>1. v.kind = "cascade" /\ s \in Above(x) /\ s \in Subagent
    BY <1>6, <1>9 DEF Pending
  <2> QED
    BY <2>1, BelowWay DEF Subagent
<1>10. ASSUME NEW v \in tasks', v \notin N
       PROVE  \E u \in tasks : Twin(u, v)
  BY <1>3, <1>5, <1>10, Evolved
<1>11. Placed'
  <2>1. ASSUME NEW v \in tasks'
        PROVE  Fitting(v)
    <3>1. CASE v \in N
      BY <1>7, <3>1
    <3>2. CASE v \notin N
      BY <1>10, <3>2, TwinSame DEF Clean, Placed
    <3> QED
      BY <3>1, <3>2
  <2> QED
    BY <2>1 DEF Placed
<1>12. ASSUME NEW x \in Subagent, NEW v \in tasks', Pending(v, x)
       PROVE  v \in N \/ \E u \in tasks : Twin(u, v) /\ Pending(u, x)
  BY <1>10, <1>12, TwinSame
<1>13. PICK f : /\ tasks' = {f[u] : u \in tasks \ X} \cup N
                /\ \A u \in tasks \ X : Twin(u, f[u])
  BY <1>5 DEF Evolves
<1>14. ASSUME NEW x \in Subagent, NEW v \in tasks', NEW w \in tasks',
              Pending(v, x), Pending(w, x)
       PROVE  v = w
  <2>1. CASE v \in N /\ w \in N
    BY <1>8, <1>9, <1>14, <2>1
  <2>2. ASSUME NEW n \in N, Pending(n, x), NEW u \in tasks, Pending(u, x)
        PROVE  FALSE
    <3>1. s \in Way(x) /\ x # s /\ x \in Session /\ x # Root
      BY <1>9, <2>2 DEF Subagent
    <3> QED
      BY <1>1, <2>2, <3>1, StopReaches
  <2>3. CASE v \notin N /\ w \notin N
    <3>1. PICK a \in tasks \ X, b \in tasks \ X : v = f[a] /\ w = f[b]
      BY <1>13, <2>3
    <3>2. Pending(a, x) /\ Pending(b, x)
      BY <1>13, <1>14, <3>1, TwinSame
    <3>3. a = b
      BY <3>1, <3>2 DEF Clean, Sweeps
    <3> QED
      BY <3>1, <3>3
  <2> QED
    BY <1>12, <1>14, <2>1, <2>2, <2>3
<1>15. \A r \in Session : parked'[r] => parked[r]
  BY <1>4, Types DEF TypeOK
<1>16. ASSUME NEW x \in Subagent, NEW v \in tasks', Pending(v, x)
       PROVE  /\ \A p \in Way(x) : <<"stop", p>> \notin left'
              /\ <<"interrupt", x>> \notin left' /\ ~parked'[x]
  <2>1. x \in Session
    BY DEF Subagent
  <2>2. CASE v \in N
    <3>1. s \in Way(x) /\ x # s
      BY <1>9, <1>16, <2>2
    <3> QED
      BY <1>1, <1>15, <2>1, <3>1, StopReaches
  <2>3. CASE \E u \in tasks : Pending(u, x)
    BY <1>1, <1>15, <2>1, <2>3 DEF Clean, Sweeps
  <2> QED
    BY <1>12, <1>16, <2>2, <2>3
<1>17. ASSUME NEW x \in Subagent, parked'[x]
       PROVE  \A p \in Way(x) \ {x} : <<"stop", p>> \notin left'
  <2>1. x \in Session
    BY DEF Subagent
  <2> QED
    BY <1>1, <1>15, <1>17, <2>1 DEF Clean, Sweeps
<1>18. Sweeps'
  BY <1>14, <1>16, <1>17 DEF Sweeps
<1>19. ASSUME NEW x \in Session, Spent(x)
       PROVE  Spent(x)'
  <2>1. \A p \in Way(x) : <<"stop", p>> \notin left'
    BY <1>1, <1>19 DEF Spent
  <2>2. ASSUME x # Root, NEW v \in tasks', Pending(v, x)
        PROVE  FALSE
    <3>1. x \in Subagent
      BY <2>2 DEF Subagent
    <3>2. CASE v \in N
      BY <1>1, <1>9, <1>19, <2>2, <3>1, <3>2, StopReaches
    <3>3. CASE \E u \in tasks : Pending(u, x)
      BY <1>19, <2>2, <3>3 DEF Spent
    <3> QED
      BY <1>12, <2>2, <3>1, <3>2, <3>3
  <2> QED
    BY <2>1, <2>2 DEF Spent
<1>20. Spent(s)'
  <2>1. \A p \in Way(s) : <<"stop", p>> \notin left'
    BY <1>1, <1>2, StopReaches
  <2>2. ASSUME s # Root, NEW v \in tasks', Pending(v, s)
        PROVE  FALSE
    <3>1. s \in Subagent
      BY <2>2 DEF Subagent
    <3>2. CASE v \in N
      BY <1>9, <2>2, <3>1, <3>2
    <3>3. CASE \E u \in tasks : Pending(u, s)
      BY <1>1, <1>2, <2>2, <3>3, StopReaches
    <3> QED
      BY <1>12, <2>2, <3>1, <3>2, <3>3
  <2> QED
    BY <2>1, <2>2 DEF Spent
<1>21. \A r \in Session : armed'[r] = armed[r] \/ (r = s /\ armed'[r] = "set" /\ Busy(s)
                                                  /\ ~parked[s])
  BY <1>4, Types DEF TypeOK
<1>22. Once'
  <2>1. \A r \in Session : armed'[r] = "set" => armed[r] = "set" \/ Spent(r)'
    BY <1>20, <1>21
  <2>2. \A v \in N : Unmarks(v) => Spent(v.s)'
    BY <1>7
  <2> QED
    BY <1>5, <1>19, <2>1, <2>2, OnceKept DEF Clean
<1>23. Busy(s) /\ ~parked[s] => \E u \in tasks : u.s = s /\ Carries(u)
  <2>1. \A u \in tasks : Unmarks(u) => Spent(u.s)
    BY DEF Clean, Once
  <2>2. ~Spent(s)
    BY <1>1, <1>2, StopReaches
  <2>3. \A u \in tasks : u.s = s => ~Unmarks(u)
    BY <2>1, <2>2
  <2> QED
    BY <2>3, BusyCarries
<1>24. Dropped'
  <2>1. \A r \in Session : armed'[r] # "none" =>
               \/ armed[r] # "none"
               \/ \E u \in tasks \ X : u.s = r /\ Carries(u)
    BY <1>3, <1>21, <1>23
  <2>2. \A u \in X : FALSE
    BY <1>3
  <2> QED
    BY <1>1, <1>5, <2>1, <2>2, DroppedKept DEF Clean
<1>25. Marked'
  <2>1. \A r \in Session : \/ running'[r] = "none"
                           \/ running'[r] = running[r] /\ parked'[r] = parked[r]
    BY <1>4, Types DEF TypeOK
  <2>2. \A u \in X : FALSE
    BY <1>3
  <2>3. /\ \A r \in Session : running'[r] = "own" =>
             parked'[r] \/ (running[r] = "own" /\ ~parked[r])
        /\ \A r \in Session : running'[r] = "ws" =>
             parked'[r] \/ (running[r] = "ws" /\ ~parked[r])
    BY <2>1
  <2> QED
    BY <1>5, <2>2, <2>3, MarkedKept DEF Clean
<1> QED
  BY <1>11, <1>18, <1>22, <1>24, <1>25 DEF Clean

\* A process that starts again has nothing to account for.
LEMMA RestartClean ==
    ASSUME IInv, Clean, Restart
    PROVE  Clean'
<1>1. /\ tasks' = {} /\ \A s \in Session : running'[s] = "none" /\ armed'[s] = "none"
      /\ \A s \in Session : ~parked'[s]
  BY DEF Restart
<1>2. \A s \in Subagent : s \in Session
  BY DEF Subagent
<1> QED
  BY <1>1, <1>2 DEF Clean, Placed, Sweeps, Once, Dropped, Marked

\* The account is kept whatever happens.
LEMMA CleanNext ==
    ASSUME IInv, Locks, Clean, StopsApart, [Next]_vars
    PROVE  Clean'
<1>1. CASE UNCHANGED vars
  BY <1>1, CleanStill DEF vars, registries, history
<1>2. CASE \E t \in tasks : \/ SpawnArm(t) \/ SpawnLaunch(t) \/ RetryGo(t)
                            \/ TurnStep(t) \/ AutoRetry(t) \/ Interrupt(t)
                            \/ StreamEnd(t, "error") \/ StreamEnd(t, "recursion")
  <2>1. ASSUME NEW t \in tasks, BriefStart(t)
        PROVE  Clean'
    BY <2>1, TurnCalm, TurnEnters
  <2> QED
    BY <1>2, <2>1, SpawnArmClean, TurnCalm, TurnEnters, StreamEndClean,
       StreamStopClean, ParkEndClean, InterruptClean DEF TurnStep
<1>3. CASE \E t \in tasks : ReportStep(t) \/ StopStep(t)
  BY <1>3, ReportCalm, WakeClean, UnmarkClean, StopCalm, CascadeClean
     DEF ReportStep, StopStep
<1>4. CASE \/ \E c \in Subagent : SpawnCreate(c)
           \/ \E s \in Session : Invoke(s) \/ Answer(s) \/ Stop(s) \/ Retry(s)
           \/ \E s \in Session : TimerFire(s)
           \/ Restart
  BY <1>4, UserCalm, StopClean, RestartClean
<1> QED
  BY <1>1, <1>2, <1>3, <1>4 DEF Next, System, Outside

\* A stop event is never left set for an idle session, where it would kill
\* the next turn (server_shared.py, _TURN_STOP), unless a stop of the parent
\* cut the creation of that session off: where no two stops meet on one
\* path of the tree, and none meets a question from above.
THEOREM NoStopStaysLeft == StopsApart => (Spec => []NoStopLeft)
<1>1. Init => Locks /\ Clean
  <2>1. ASSUME Init
        PROVE  /\ tasks = {} /\ \A s \in Session : running[s] = "none" /\ armed[s] = "none"
               /\ \A s \in Session : ~parked[s]
    BY <2>1 DEF Init
  <2>2. \A s \in Subagent : s \in Session
    BY DEF Subagent
  <2> QED
    BY <2>1, <2>2 DEF Locks, Clean, Placed, Sweeps, Once, Dropped, Marked
<1>2. Clean => NoStopLeft
  BY DEF Clean, Dropped, NoStopLeft, Settled
<1>3. ASSUME StopsApart, IInv, Locks, Clean, [Next]_vars
      PROVE  (Locks /\ Clean)'
  BY <1>3, LocksNext, CleanNext
<1> SUFFICES ASSUME StopsApart
             PROVE  Spec => []NoStopLeft
  OBVIOUS
<1> QED
  BY <1>1, <1>2, <1>3, Inductive, PTL DEF Spec

----------------------------------------------------------------------------
(* The stop button reaches a turn (StopReachesTurn).                       *)

\* a stop of s, or of a subagent above it, may come
Reached(s) == \E script \in Scripts : \E p \in Way(s) : <<"stop", p>> \in script

\* A session that a stop may reach asks no question, whose turn the stop
\* would heal, and the user does not talk to such a subagent: the message
\* would share the stop event of a first turn that has not begun.
StopsMeetTurns == \A script \in Scripts : \A s \in Session : Reached(s) =>
    /\ <<"interrupt", s>> \notin script
    /\ s # Root => <<"invoke", s>> \notin script

\* a first turn that has not begun
Early(t) == t.kind = "brief" /\ t.pc \in {"create", "armed", "start"}

\* a stop, which takes no turn
Bystander(t) == t.kind = "cascade" \/ (t.kind = "stopif" /\ t.pc = "start")

\* s is not created, or a stop may still meet its first turn before it begins
Fresh(s) ==
    \/ status[s] = "none"
    \/ Reached(s) /\ \E t \in tasks : t.s = s /\ Early(t)

\* nobody has a turn at s but its brief, which is yet to begin
Untouched(s) ==
    /\ status[s] \in {"none", "running", "stopped", "done"}
    /\ stash[s] = {} /\ pending[s] = {}
    /\ \A c \in Subagent : Parent[c] = s => status[c] = "none"
    /\ \A t \in tasks : t.s = s => Bystander(t) \/ Early(t)
    /\ \A t, u \in tasks : t.s = s /\ u.s = s /\ Early(t) /\ Early(u) => t = u

\* a coroutine of a session that exists, which heals no parked turn and stops
\* only who may be stopped
Tame(t) ==
    /\ t.pc \notin {"heal", "bcast", "tail"}
    /\ t.pc \in FinPC => t.ret # "tail"
    /\ t.pc \in {"create", "armed"} => t.kind = "brief"
    /\ t.pc = "wpush" => t.kind # "cascade"
    /\ t.kind = "brief" => t.s \in Subagent
    /\ Early(t) /\ t.evt = "set" => Reached(t.s)
    /\ t.kind = "wrap" /\ t.pc = "start" => t.evt = "clear"
    /\ t.todo \subseteq Subagent
    /\ \A x \in Subagent : Pending(t, x) => Reached(x)

\* the stop button reaches the turn t
Alive(t) == running[t.s] # "none" /\ armed[t.s] # "none" /\ t.sev = "reg"

Reach ==
    /\ \A t \in tasks : Tame(t) /\ status[t.s] # "none"
    /\ \A s \in Session : armed[s] = "set" => Reached(s)
    /\ \A s \in Session : parked[s] => ~Reached(s) /\ status[s] # "none"
    /\ \A s \in Session : Fresh(s) => Untouched(s)
    /\ \A t \in tasks : t.pc = "stream" => Alive(t)

\* no brief that a stop may still meet is left at s once X is gone
Begun(s, X) == \A u \in tasks \ X : u.s = s /\ Early(u) => ~Reached(s)

\* v takes a place that somebody of X had at its session, or a free one
Seated(v, X) ==
    \/ Bystander(v)
    \/ Begun(v.s, X)
    \/ Early(v) /\ \E u \in X : u \in tasks /\ u.s = v.s /\ Early(u)

\* the sessions that are not touched stay so
Sheltered ==
    /\ \A s \in Session : status'[s] = "none" => status[s] = "none"
    /\ \A s \in Session : status[s] = "none" => status'[s] = "none"
    /\ \A s \in Session : Fresh(s) =>
         /\ status'[s] \in {status[s], "stopped", "done"}
         /\ stash'[s] = {} /\ pending'[s] = {}

\* What is known of a session is known of one whose brief has yet to begin.
LEMMA UntouchedKept ==
    ASSUME IInv, Reach, NEW X, NEW N, NEW D, Evolves(X, N, D), Sheltered,
           \A v \in N : status[v.s] # "none" /\ Seated(v, X),
           \A v \in N : Early(v) => \E u \in X : u \in tasks /\ u.s = v.s /\ Early(u),
           \A v, w \in N : Early(v) => v = w,
           NEW s \in Session, Fresh(s)'
    PROVE  Untouched(s)'
<1>1. PICK f : /\ tasks' = {f[u] : u \in tasks \ X} \cup N
               /\ \A u \in tasks \ X : Twin(u, f[u]) /\ Holds(u, f[u], D)
  BY DEF Evolves
<1>2. \A v \in tasks' : v \in N \/ \E u \in tasks \ X :
          /\ v = f[u] /\ u.s = v.s
          /\ Early(u) => Early(v)
          /\ Early(v) => Early(u)
          /\ Bystander(u) => Bystander(v)
  BY <1>1 DEF Twin, Early, Bystander
<1>3. Fresh(s)
  <2>1. CASE status'[s] = "none"
    BY <2>1 DEF Sheltered, Fresh
  <2>2. CASE Reached(s) /\ \E v \in tasks' : v.s = s /\ Early(v)
    <3>1. PICK v \in tasks' : v.s = s /\ Early(v)
      BY <2>2
    <3>2. \E u \in tasks : u.s = s /\ Early(u)
      BY <1>2, <3>1
    <3> QED
      BY <2>2, <3>2 DEF Fresh
  <2> QED
    BY <2>1, <2>2 DEF Fresh
<1>4. Untouched(s)
  BY <1>3 DEF Reach
<1>5. /\ status'[s] \in {"none", "running", "stopped", "done"}
      /\ stash'[s] = {} /\ pending'[s] = {}
  BY <1>3, <1>4 DEF Sheltered, Untouched
<1>6. \A c \in Subagent : Parent[c] = s => status'[c] = "none"
  BY <1>4 DEF Sheltered, Untouched, Subagent
<1>7. ASSUME NEW v \in N, v.s = s
      PROVE  Bystander(v) \/ Early(v)
  <2>1. CASE Begun(s, X) /\ ~Early(v)
    <3>1. status'[s] # "none"
      BY <1>7 DEF Sheltered
    <3>2. PICK w \in tasks' : Reached(s) /\ w.s = s /\ Early(w)
      BY <3>1 DEF Fresh
    <3>3. CASE w \in N
      BY <1>7, <2>1, <3>2, <3>3
    <3>4. CASE w \notin N
      BY <1>2, <2>1, <3>2, <3>4 DEF Begun
    <3> QED
      BY <3>3, <3>4
  <2> QED
    BY <1>7, <2>1 DEF Seated
<1>8. \A v \in tasks' : v.s = s => Bystander(v) \/ Early(v)
  BY <1>2, <1>4, <1>7 DEF Untouched
<1>9. ASSUME NEW v \in tasks', NEW w \in tasks', v.s = s, w.s = s, Early(v), Early(w)
      PROVE  v = w
  <2>1. ASSUME NEW x \in N, x.s = s, Early(x), NEW y \in tasks \ X, y.s = s, Early(y)
        PROVE  FALSE
    <3>1. PICK u \in X : u \in tasks /\ u.s = s /\ Early(u)
      BY <2>1
    <3> QED
      BY <1>4, <2>1, <3>1 DEF Untouched
  <2>2. CASE v \in N /\ w \in N
    BY <1>9, <2>2
  <2>3. CASE v \in N /\ w \notin N
    BY <1>2, <1>9, <2>1, <2>3
  <2>4. CASE v \notin N /\ w \in N
    BY <1>2, <1>9, <2>1, <2>4
  <2>5. CASE v \notin N /\ w \notin N
    BY <1>2, <1>4, <1>9, <2>5 DEF Untouched
  <2> QED
    BY <2>2, <2>3, <2>4, <2>5
<1> QED
  BY <1>5, <1>6, <1>8, <1>9 DEF Untouched

\* A coroutine that goes on stays tame.
LEMMA TameTwin ==
    ASSUME Reach, NEW u \in tasks, u.s \in Session, NEW v, NEW D,
           Twin(u, v), Holds(u, v, D)
    PROVE  Tame(v)
<1>1. Tame(u) /\ (armed[u.s] = "set" => Reached(u.s))
  BY DEF Reach
<1>2. v.evt = "set" => u.evt = "set" \/ armed[u.s] = "set"
  BY DEF Holds, Freeze
<1>3. u.evt = "clear" => v.evt = "clear"
  BY DEF Holds, Freeze
<1>4. Early(v) => Early(u)
  BY DEF Twin, Early
<1>5. \A x : Pending(v, x) => Pending(u, x)
  BY DEF Twin, Pending
<1>6. /\ v.pc = u.pc /\ v.ret = u.ret /\ v.kind = u.kind /\ v.s = u.s
      /\ v.todo = u.todo
  BY DEF Twin
<1>7. Early(v) /\ v.evt = "set" => Reached(v.s)
  BY <1>1, <1>2, <1>4, <1>6 DEF Tame
<1>8. \A x \in Subagent : Pending(v, x) => Reached(x)
  BY <1>1, <1>5 DEF Tame
<1> QED
  BY <1>1, <1>3, <1>6, <1>7, <1>8 DEF Tame

\* A step whose new coroutines are tame, and that leaves streaming turns
\* their registry entries, keeps it all.
LEMMA ReachKept ==
    ASSUME IInv, Reach, NEW X, NEW N, NEW D, Evolves(X, N, D), Sheltered,
           \A v \in N : Tame(v) /\ status[v.s] # "none" /\ v.s \in Session /\ Seated(v, X),
           \A v \in N : Early(v) => \E u \in X : u \in tasks /\ u.s = v.s /\ Early(u),
           \A v, w \in N : Early(v) => v = w,
           \A s \in Session : armed'[s] = "set" => armed[s] = "set" \/ Reached(s),
           \A s \in Session : parked'[s] =>
               parked[s] \/ (~Reached(s) /\ status[s] # "none"),
           \A v \in N : v.pc = "stream" =>
               running'[v.s] # "none" /\ armed'[v.s] # "none" /\ v.sev = "reg",
           \A u \in tasks \ X : u.pc = "stream" =>
               u.s \notin D /\ running'[u.s] # "none" /\ armed'[u.s] # "none"
    PROVE  Reach'
<1>1. PICK f : /\ tasks' = {f[u] : u \in tasks \ X} \cup N
               /\ \A u \in tasks \ X : Twin(u, f[u]) /\ Holds(u, f[u], D)
  BY DEF Evolves
<1>2. \A u \in tasks : u.s \in Session
  BY Types DEF Task
<1>3. \A v \in tasks' : Tame(v) /\ status'[v.s] # "none"
  <2>1. ASSUME NEW u \in tasks \ X
        PROVE  Tame(f[u]) /\ f[u].s = u.s /\ status[u.s] # "none"
    <3>1. u.s \in Session /\ Twin(u, f[u]) /\ Holds(u, f[u], D)
      BY <1>1, <1>2
    <3> QED
      BY <3>1, TameTwin DEF Twin, Reach
  <2> QED
    BY <1>1, <1>2, <2>1 DEF Sheltered
<1>4. \A s \in Session : armed'[s] = "set" => Reached(s)
  BY DEF Reach
<1>5. \A s \in Session : parked'[s] => ~Reached(s) /\ status'[s] # "none"
  BY DEF Reach, Sheltered
<1>6. \A s \in Session : Fresh(s)' => Untouched(s)'
  BY UntouchedKept
<1>7. ASSUME NEW v \in tasks', v.pc = "stream"
      PROVE  Alive(v)'
  <2>1. CASE v \in N
    BY <1>7, <2>1 DEF Alive
  <2>2. CASE v \notin N
    <3>1. PICK u \in tasks \ X : v = f[u]
      BY <1>1, <2>2
    <3>2. u.pc = "stream" /\ u.s = v.s /\ Holds(u, v, D)
      BY <1>1, <1>7, <3>1 DEF Twin
    <3>3. Alive(u) /\ u.s \notin D
      BY <3>2 DEF Reach
    <3>4. v.sev = "reg"
      BY <3>2, <3>3 DEF Alive, Holds
    <3> QED
      BY <3>2, <3>4 DEF Alive
  <2> QED
    BY <2>1, <2>2
<1>8. \A s \in Session : Reached(s)' = Reached(s)
  BY DEF Reached
<1> QED
  BY <1>3, <1>4, <1>5, <1>6, <1>7 DEF Reach

----------------------------------------------------------------------------
(* A step of one coroutine, at its own session.                            *)

\* only what is kept of s changes
Apart(s) == \A x \in Session : x # s =>
    /\ status'[x] = status[x] /\ stash'[x] = stash[x] /\ pending'[x] = pending[x]
    /\ running'[x] = running[x] /\ parked'[x] = parked[x] /\ armed'[x] = armed[x]

\* another turn that streams at the session of t stays registered
Spared(t, D) == \A u \in tasks : u # t /\ u.pc = "stream" /\ u.s = t.s =>
    u.s \notin D /\ running'[u.s] # "none" /\ armed'[u.s] # "none"

\* Who is neither a stop nor a brief yet to begin has no fresh session.
LEMMA NotFresh ==
    ASSUME IInv, Reach, NEW t \in tasks
    PROVE  /\ t \in Task /\ t.s \in Session /\ status[t.s] # "none" /\ Tame(t)
           /\ ~Bystander(t) /\ ~Early(t) => ~Fresh(t.s)
<1>1. t \in Task /\ t.s \in Session
  BY Types DEF Task
<1> QED
  BY <1>1 DEF Reach, Untouched

\* Under the turn lock there is no other turn.
LEMMA SparedHeld ==
    ASSUME Locks, NEW t \in tasks, NEW D, t.lk \/ ~Locked(t.s)
    PROVE  Spared(t, D)
BY DEF Locks, Holding, Locked, Spared

\* Without it nothing is popped and nothing is unregistered.
LEMMA SparedMild ==
    ASSUME Reach, NEW t \in tasks, NEW D, t.s \notin D,
           running'[t.s] = "none" => running[t.s] = "none",
           armed'[t.s] = "none" => armed[t.s] = "none"
    PROVE  Spared(t, D)
BY DEF Reach, Alive, Spared

\* Or no turn is registered.
LEMMA SparedIdle ==
    ASSUME Reach, NEW t \in tasks, NEW D, running[t.s] = "none"
    PROVE  Spared(t, D)
BY DEF Reach, Alive, Spared

\* A step of a turn, and of others X that it ends, at its own session.
LEMMA ReachOwn ==
    ASSUME IInv, Stays, Reach, NEW t \in tasks, NEW X, t \in X, NEW N, NEW D,
           Evolves(X, N, D), \A s \in D : s = t.s,
           ~Bystander(t), ~Early(t), Apart(t.s), Spared(t, D),
           \A v \in N : Tame(v) /\ v.s = t.s /\ ~Early(v),
           armed'[t.s] = "set" => armed[t.s] = "set",
           parked'[t.s] => parked[t.s] \/ ~Reached(t.s),
           \A v \in N : v.pc = "stream" =>
               running'[t.s] # "none" /\ armed'[t.s] # "none" /\ v.sev = "reg"
    PROVE  Reach'
<1>1. /\ t.s \in Session /\ status[t.s] # "none" /\ ~Fresh(t.s)
  BY NotFresh
<1>2. \A s \in Session : s # t.s =>
        /\ status'[s] = status[s] /\ stash'[s] = stash[s] /\ pending'[s] = pending[s]
        /\ running'[s] = running[s] /\ parked'[s] = parked[s] /\ armed'[s] = armed[s]
  BY DEF Apart
<1>3. Sheltered
  BY <1>1, <1>2 DEF Sheltered, Stays, Reach, Untouched
<1>4. Begun(t.s, X)
  BY <1>1 DEF Begun, Fresh
<1>5. \A v \in N : Tame(v) /\ status[v.s] # "none" /\ v.s \in Session /\ Seated(v, X)
  BY <1>1, <1>4 DEF Seated
<1>6. /\ \A s \in Session : armed'[s] = "set" => armed[s] = "set" \/ Reached(s)
      /\ \A s \in Session : parked'[s] =>
           parked[s] \/ (~Reached(s) /\ status[s] # "none")
  BY <1>1, <1>2
<1>7. ASSUME NEW u \in tasks \ X, u.pc = "stream"
      PROVE  u.s \notin D /\ running'[u.s] # "none" /\ armed'[u.s] # "none"
  <2>1. Alive(u) /\ u.s \in Session
    BY <1>7, NotFresh DEF Reach
  <2>2. CASE u.s = t.s
    BY <1>7, <2>2 DEF Spared
  <2>3. CASE u.s # t.s
    BY <1>2, <2>1, <2>3 DEF Alive
  <2> QED
    BY <2>2, <2>3
<1> QED
  BY <1>3, <1>5, <1>6, <1>7, ReachKept

\* At another await of a turn it is still tame.
LEMMA TameGoes ==
    ASSUME NEW t, Tame(t), NEW u, NEW pc, Goes(u, t, pc),
           pc \notin {"heal", "bcast", "tail", "create", "armed", "start", "wpush"},
           pc \in FinPC => t.ret # "tail"
    PROVE  Tame(u) /\ u.s = t.s /\ ~Early(u) /\ u.pc = pc
<1>1. \A x : Pending(u, x) => Pending(t, x)
  BY DEF Goes, Pending
<1> QED
  BY <1>1 DEF Goes, Tame, Early

\* So are a finalizer and who it goes back to.
LEMMA TameFin ==
    ASSUME NEW t, Tame(t), NEW V, NEW ret, Finalizers(V, t, ret),
           ret \in BackPC, ret # "tail"
    PROVE  \A v \in V : /\ Tame(v) /\ v.s = t.s /\ v.kind = t.kind
                        /\ ~Early(v) /\ v.pc # "stream"
<1>1. ASSUME NEW v \in V
      PROVE  /\ Tame(v) /\ v.s = t.s /\ v.kind = t.kind
             /\ ~Early(v) /\ v.pc # "stream"
  <2>1. /\ v.s = t.s /\ v.kind = t.kind /\ v.todo = t.todo
        /\ \/ v.pc \in FinPC /\ v.ret = ret
           \/ v.pc = ret /\ v.pc # "end"
    BY DEF Finalizers, Finalizer, Onward
  <2>2. v.pc \notin {"stream", "heal", "bcast", "tail", "create", "armed", "start",
                 "wpush"}
    BY <2>1 DEF FinPC, BackPC
  <2>3. \A x : Pending(v, x) => Pending(t, x)
    BY <2>1, <2>2 DEF Pending
  <2> QED
    BY <2>1, <2>2, <2>3 DEF Tame, Early, FinPC, BackPC
<1> QED
  BY <1>1

\* What is called from nowhere is tame, unless it is a stop or a brief.
LEMMA TameNew ==
    ASSUME NEW v, v.kind \notin {"cascade", "brief"}, v.todo = {},
           v.pc \in {"start", "queued", "rpush"},
           v.kind = "wrap" => v.evt = "clear"
    PROVE  Tame(v) /\ ~Early(v) /\ v.pc # "stream"
BY DEF Tame, Early, Pending, FinPC

\* And the end of a segment, with the wakes of its stash.
LEMMA TameOver ==
    ASSUME NEW t, Tame(t), t.kind # "cascade", NEW R, NEW V, Reconciles(R, t.s), Leaves(V, t)
    PROVE  \A v \in R \cup V : Tame(v) /\ v.s = t.s /\ ~Early(v) /\ v.pc # "stream"
<1>1. ASSUME NEW v \in R
      PROVE  Tame(v) /\ v.s = t.s /\ ~Early(v) /\ v.pc # "stream"
  <2>1. Spawned(v, {"wake"}) /\ v.s = t.s
    BY WakesSpawned DEF Reconciles
  <2> QED
    BY <2>1, TameNew DEF Spawned
<1>2. ASSUME NEW v \in V
      PROVE  Tame(v) /\ v.s = t.s /\ ~Early(v) /\ v.pc # "stream"
  <2>1. Gated(v, t)
    BY DEF Leaves
  <2>2. CASE /\ Spawned(v, {"settle", "wrap"}) /\ v.s = t.s
             /\ v.kind = "wrap" => v.evt = "clear"
    BY <2>2, TameNew DEF Spawned
  <2>3. CASE Onward(v, t) /\ (v.pc = "wpush" \/ (v.pc \in FinPC /\ v.ret = "end"))
    <3>1. \A x : Pending(v, x) => Pending(t, x)
      BY <2>3 DEF Onward, Pending, FinPC
    <3> QED
      BY <2>3, <3>1 DEF Onward, Tame, Early, FinPC
  <2> QED
    BY <2>1, <2>2, <2>3 DEF Gated
<1> QED
  BY <1>1, <1>2

\* Of what a step writes at s, the other sessions see nothing.
LEMMA ApartFrame ==
    ASSUME IInv, NEW s \in Session, Only(s),
           \/ UNCHANGED stash
           \/ EmptyStash(s)
           \/ \E x : stash' = [stash EXCEPT ![s] = x],
           UNCHANGED pending \/ \E x : pending' = [pending EXCEPT ![s] = x],
           UNCHANGED running \/ \E x : running' = [running EXCEPT ![s] = x],
           UNCHANGED parked \/ \E x : parked' = [parked EXCEPT ![s] = x],
           UNCHANGED armed \/ Arm(s) \/ Disarm(s)
    PROVE  Apart(s) /\ (armed'[s] = "set" => armed[s] = "set")
<1>1. /\ \A x \in Session : x # s => stash'[x] = stash[x]
      /\ \A x \in Session : x # s => pending'[x] = pending[x]
      /\ \A x \in Session : x # s => running'[x] = running[x]
      /\ \A x \in Session : x # s => parked'[x] = parked[x]
  BY Types DEF EmptyStash, TypeOK
<1>2. /\ \A x \in Session : x # s => armed'[x] = armed[x]
      /\ armed'[s] = "set" => armed[s] = "set"
  BY Types DEF Arm, Disarm, TypeOK
<1> QED
  BY <1>1, <1>2 DEF Apart, Only

\* A coroutine that goes on as u.
LEMMA ReachAlone ==
    ASSUME IInv, Stays, Reach, NEW t \in tasks, NEW u, NEW D, NEW pc, Alone(u, t, D),
           Goes(u, t, pc),
           pc \notin {"heal", "bcast", "tail", "create", "armed", "start", "wpush"},
           pc \in FinPC => t.ret # "tail",
           \A s \in D : s = t.s,
           ~Bystander(t), ~Early(t), Apart(t.s), Spared(t, D),
           armed'[t.s] = "set" => armed[t.s] = "set",
           parked'[t.s] => parked[t.s] \/ ~Reached(t.s),
           pc = "stream" =>
               running'[t.s] # "none" /\ armed'[t.s] # "none" /\ u.sev = "reg"
    PROVE  Reach'
<1>1. PICK N : N = {u}
  OBVIOUS
<1>2. PICK X : X = {t}
  OBVIOUS
<1>3. Evolves(X, N, D) /\ t \in X
  BY <1>1, <1>2 DEF Alone
<1>4. Tame(u) /\ u.s = t.s /\ ~Early(u) /\ u.pc = pc
  BY NotFresh, TameGoes
<1>5. /\ \A v \in N : Tame(v) /\ v.s = t.s /\ ~Early(v)
      /\ \A v \in N : v.pc = "stream" =>
               running'[t.s] # "none" /\ armed'[t.s] # "none" /\ v.sev = "reg"
  BY <1>1, <1>4
<1> QED
  BY <1>3, <1>5, ReachOwn

\* A segment that is over.
LEMMA ReachOver ==
    ASSUME IInv, Stays, Reach, NEW t \in tasks, NEW D, SegmentOver(t, D),
           \A s \in D : s = t.s,
           ~Bystander(t), ~Early(t), Apart(t.s), Spared(t, D),
           armed'[t.s] = "set" => armed[t.s] = "set",
           parked'[t.s] => parked[t.s]
    PROVE  Reach'
<1>1. PICK R, V : Evolves({t}, R \cup V, D) /\ Reconciles(R, t.s) /\ Leaves(V, t)
  BY DEF SegmentOver
<1>2. PICK N : N = R \cup V
  OBVIOUS
<1>3. PICK X : X = {t}
  OBVIOUS
<1>4. Tame(t) /\ t.kind # "cascade"
  BY NotFresh DEF Bystander
<1>5. \A v \in N : Tame(v) /\ v.s = t.s /\ ~Early(v) /\ v.pc # "stream"
  BY <1>1, <1>2, <1>4, TameOver
<1>6. Evolves(X, N, D) /\ t \in X
  BY <1>1, <1>2, <1>3
<1> QED
  BY <1>5, <1>6, ReachOwn

\* A coroutine that ends.
LEMMA ReachEnd ==
    ASSUME IInv, Stays, Reach, NEW t \in tasks, NEW D, Evolves({t}, {}, D),
           \A s \in D : s = t.s,
           ~Bystander(t), ~Early(t), Apart(t.s), Spared(t, D),
           armed'[t.s] = "set" => armed[t.s] = "set",
           parked'[t.s] => parked[t.s]
    PROVE  Reach'
<1>1. PICK N : N = {}
  OBVIOUS
<1>2. PICK X : X = {t}
  OBVIOUS
<1>3. Evolves(X, N, D) /\ t \in X /\ \A v \in N : FALSE
  BY <1>1, <1>2
<1> QED
  BY <1>3, ReachOwn

\* A step that leaves the coroutines and their registries alone.
LEMMA ReachStill ==
    ASSUME IInv, Reach, UNCHANGED <<tasks, running, parked, armed>>, Sheltered
    PROVE  Reach'
<1>1. PICK N : N = {}
  OBVIOUS
<1>2. Evolves(N, N, N) /\ \A v \in N : FALSE
  BY <1>1, StillShape
<1>3. \A u \in tasks \ N : u.pc = "stream" =>
         u.s \notin N /\ running'[u.s] # "none" /\ armed'[u.s] # "none"
  BY <1>2 DEF Reach, Alive
<1> QED
  BY <1>2, <1>3, ReachKept

----------------------------------------------------------------------------
(* The steps of a turn.                                                    *)

\* Whoever is in its turn is no stop, and not yet to begin.
LEMMA InTurn ==
    ASSUME Locks, NEW t \in tasks,
           Holding(t) \/ t.pc \in {"queued", "rpush"}, t.pc \notin FinPC
    PROVE  ~Bystander(t) /\ ~Early(t)
BY DEF Locks, Holding, Aloof, Bystander, Early

\* A segment that ends writes only to its session.
LEMMA OverOnly ==
    ASSUME IInv, NEW t \in tasks,
           \/ \E out \in {"ok", "error", "recursion"} : StreamEnd(t, out)
           \/ SegEnd(t) \/ ParkEnd(t) \/ Settle(t)
    PROVE  Only(t.s)
<1>1. t \in Task /\ "ok" \in {"ok", "error", "recursion"}
  BY Types
<1>2. UNCHANGED status => Only(t.s)
  BY DEF Only
<1>3. ASSUME NEW out \in {"ok", "error", "recursion"}, NEW T, AfterSegment(t, T, out)
      PROVE  Only(t.s)
  BY <1>1, <1>3, AfterSegmentBorn
<1>4. CASE \E out \in {"ok", "error", "recursion"} : StreamEnd(t, out)
  <2>1. PICK out \in {"ok", "error", "recursion"} : StreamEnd(t, out)
    BY <1>4
  <2> QED
    BY <1>3, <2>1 DEF StreamEnd
<1>5. CASE SegEnd(t)
  <2>1. UNCHANGED status \/ \E T : AfterSegment(t, T, "ok")
    BY <1>5, Zenon DEF SegEnd
  <2> QED
    BY <1>1, <1>2, <1>3, <2>1
<1>6. CASE ParkEnd(t)
  <2>1. UNCHANGED status \/ \E T : AfterSegment(t, T, "ok")
    BY <1>6, Zenon DEF ParkEnd
  <2> QED
    BY <1>1, <1>2, <1>3, <2>1
<1>7. CASE Settle(t)
  <2>1. UNCHANGED status \/ \E T, g : Gate(t, T, g)
    BY <1>7, Zenon DEF Settle
  <2> QED
    BY <1>1, <1>2, <2>1, GateBorn
<1> QED
  BY <1>4, <1>5, <1>6, <1>7

\* A segment that ends, and what follows it.
LEMMA EndReach ==
    ASSUME IInv, Stays, Locks, Reach, NEW t \in tasks,
           \/ \E out \in {"ok", "error", "recursion"} : StreamEnd(t, out)
           \/ SegEnd(t) \/ ParkEnd(t) \/ Settle(t)
    PROVE  Reach'
<1>1. t.s \in Session /\ Only(t.s)
  BY NotFresh, OverOnly
<1>2. UNCHANGED pending /\ (UNCHANGED stash \/ EmptyStash(t.s))
      /\ (UNCHANGED parked \/ \E x : parked' = [parked EXCEPT ![t.s] = x])
      /\ (UNCHANGED armed \/ Disarm(t.s))
  BY Zenon DEF StreamEnd, SegEnd, ParkEnd, Settle
<1>3. UNCHANGED running \/ \E x : running' = [running EXCEPT ![t.s] = x]
  BY Zenon DEF StreamEnd, SegEnd, ParkEnd, Settle
<1>4. Apart(t.s) /\ (armed'[t.s] = "set" => armed[t.s] = "set")
  BY <1>1, <1>2, <1>3, ApartFrame
<1>5. parked'[t.s] => parked[t.s]
  BY <1>1, Types DEF StreamEnd, SegEnd, ParkEnd, Settle, TypeOK
<1>6. CASE ~Settle(t)
  <2>1. t.pc \in {"stream", "drain", "seg"}
    BY <1>6 DEF StreamEnd, Streaming, SegEnd, ParkEnd
  <2>2. t.lk /\ ~Bystander(t) /\ ~Early(t)
    BY <2>1, InTurn DEF Holding, FinPC, Locks
  <2>3. SegmentOver(t, {t.s})
    BY <1>6, <2>2, StreamEndShape, SegEndShape, ParkEndShape
  <2>4. PICK D : D = {t.s}
    OBVIOUS
  <2>5. Spared(t, D) /\ SegmentOver(t, D) /\ \A s \in D : s = t.s
    BY <2>2, <2>3, <2>4, SparedHeld
  <2> QED
    BY <1>4, <1>5, <2>2, <2>5, ReachOver
<1>7. CASE Settle(t)
  <2>1. ~Bystander(t) /\ ~Early(t)
    BY <1>7 DEF Settle, Bystander, Early
  <2>2. PICK D : /\ SegmentOver(t, D) /\ \A s \in D : s = t.s
                 /\ Spared(t, D)
    <3>1. CASE UNCHANGED armed /\ SegmentOver(t, {})
      <4>1. PICK D : D = {}
        OBVIOUS
      <4>2. UNCHANGED running
        BY <1>7 DEF Settle
      <4>3. Spared(t, D)
        BY <3>1, <4>1, <4>2, SparedMild
      <4> QED
        BY <3>1, <4>1, <4>3
    <3>2. CASE ~Busy(t.s) /\ SegmentOver(t, {t.s})
      <4>1. PICK D : D = {t.s}
        OBVIOUS
      <4>2. Spared(t, D)
        BY <3>2, SparedIdle DEF Busy
      <4> QED
        BY <3>2, <4>1, <4>2
    <3> QED
      BY <1>7, <3>1, <3>2, SettleShape
  <2> QED
    BY <1>4, <1>5, <2>1, <2>2, ReachOver
<1> QED
  BY <1>6, <1>7

\* A turn begins, reads its stash, tries again, asks.
LEMMA TurnReach ==
    ASSUME IInv, Stays, Locks, Reach, StopsMeetTurns, NEW t \in tasks,
           \/ StartTurn(t) \/ Absorb(t) \/ AutoRetry(t) \/ Interrupt(t)
           \/ WaitPush(t) \/ RetryGo(t)
    PROVE  Reach'
<1>1. t.s \in Session /\ t \in Task /\ Tame(t) /\ Only(t.s)
  <2>1. UNCHANGED status
    BY DEF StartTurn, Absorb, AutoRetry, Interrupt, WaitPush, RetryGo
  <2> QED
    BY <2>1, NotFresh DEF Only
<1>2. PICK D : D = {}
  OBVIOUS
<1>3. \A s \in D : s = t.s
  BY <1>2
<1>4. UNCHANGED pending /\ (UNCHANGED stash \/ EmptyStash(t.s))
      /\ (UNCHANGED parked \/ \E x : parked' = [parked EXCEPT ![t.s] = x])
      /\ (UNCHANGED running \/ \E x : running' = [running EXCEPT ![t.s] = x])
      /\ (UNCHANGED armed \/ Arm(t.s))
  BY Zenon DEF StartTurn, Absorb, AutoRetry, Interrupt, WaitPush, RetryGo,
               registries, queues
<1>5. Apart(t.s) /\ (armed'[t.s] = "set" => armed[t.s] = "set")
  BY <1>1, <1>4, ApartFrame
<1>6. CASE StartTurn(t)
  <2>1. PICK u : Alone(u, t, D) /\ Goes(u, t, "stream") /\ u.sev = "reg"
    BY <1>2, <1>6, StartTurnShape
  <2>2. t.pc = "queued" /\ ~Locked(t.s) /\ UNCHANGED parked
    BY <1>6 DEF StartTurn
  <2>3. running'[t.s] # "none" /\ armed'[t.s] # "none"
    BY <1>1, <1>6, Types DEF StartTurn, Owner, Arm, TypeOK
  <2>4. ~Bystander(t) /\ ~Early(t) /\ Spared(t, D)
    BY <2>2, InTurn, SparedHeld DEF FinPC
  <2> QED
    BY <1>3, <1>5, <2>1, <2>2, <2>3, <2>4, ReachAlone DEF FinPC
<1>7. CASE Absorb(t)
  <2>1. /\ t.pc = "stream" /\ UNCHANGED <<tasks, running, parked, armed, pending, status>>
        /\ EmptyStash(t.s)
    BY <1>7 DEF Absorb, registries
  <2>2. ~Fresh(t.s)
    BY <2>1, InTurn, NotFresh DEF Holding, FinPC
  <2>3. Sheltered
    BY <1>5, <2>1, <2>2 DEF Sheltered, Apart, Reach, Untouched
  <2> QED
    BY <2>1, <2>3, ReachStill
<1>8. CASE AutoRetry(t)
  <2>1. PICK u : Alone(u, t, D) /\ Goes(u, t, "stream") /\ u.sev = t.sev
    BY <1>2, <1>8, AutoRetryShape
  <2>2. t.pc = "stream" /\ UNCHANGED <<parked, running, armed>> /\ t.lk
    BY <1>8 DEF AutoRetry, registries, Locks, Holding
  <2>3. Alive(t)
    BY <2>2 DEF Reach
  <2>4. ~Bystander(t) /\ ~Early(t) /\ Spared(t, D)
    BY <2>2, InTurn, SparedHeld DEF Holding, FinPC
  <2> QED
    BY <1>3, <1>5, <2>1, <2>2, <2>3, <2>4, ReachAlone DEF FinPC, Alive
<1>9. CASE Interrupt(t)
  <2>1. PICK u : Alone(u, t, D) /\ Goes(u, t, "drain")
    BY <1>2, <1>9, InterruptShape
  <2>2. t.pc = "stream" /\ t.lk /\ <<"interrupt", t.s>> \in left
    BY <1>9 DEF Interrupt, Take, Locks, Holding
  <2>3. ~Reached(t.s)
    <3>1. PICK script \in Scripts : left \subseteq script
      BY Types DEF TypeOK
    <3> QED
      BY <1>1, <2>2, <3>1 DEF StopsMeetTurns
  <2>4. ~Bystander(t) /\ ~Early(t) /\ Spared(t, D)
    BY <2>2, InTurn, SparedHeld DEF Holding, FinPC
  <2> QED
    BY <1>3, <1>5, <2>1, <2>3, <2>4, ReachAlone DEF FinPC
<1>10. CASE WaitPush(t)
  <2>1. t.pc = "wpush" /\ Evolves({t}, {}, {}) /\ UNCHANGED <<parked, running, armed>>
    BY <1>10, EndsShape DEF WaitPush, registries
  <2>2. ~Bystander(t) /\ ~Early(t)
    BY <1>1, <2>1 DEF Tame, Bystander, Early
  <2>3. Spared(t, D) /\ Evolves({t}, {}, D)
    BY <1>2, <2>1, SparedMild
  <2> QED
    BY <1>3, <1>5, <2>1, <2>2, <2>3, ReachEnd
<1>11. CASE RetryGo(t)
  <2>1. PICK u : Alone(u, t, D) /\ Goes(u, t, "queued")
    BY <1>2, <1>11, RetryGoShape
  <2>2. t.pc = "rpush" /\ UNCHANGED <<parked, running>> /\ Arm(t.s)
    BY <1>11 DEF RetryGo
  <2>3. armed'[t.s] # "none"
    BY <1>1, <2>2, Types DEF Arm, TypeOK
  <2>4. Spared(t, D)
    BY <1>2, <2>2, <2>3, SparedMild
  <2>5. ~Bystander(t) /\ ~Early(t)
    BY <2>2, InTurn DEF FinPC
  <2> QED
    BY <1>3, <1>5, <2>1, <2>2, <2>4, <2>5, ReachAlone DEF FinPC
<1> QED
  BY <1>6, <1>7, <1>8, <1>9, <1>10, <1>11

\* A stopped segment, and the spawns it cuts off.
LEMMA CutReach ==
    ASSUME IInv, Stays, Locks, Reach, NEW t \in tasks, StreamStop(t)
    PROVE  Reach'
<1>1. t.s \in Session /\ Tame(t)
  BY NotFresh
<1>2. t.pc \in {"stream", "drain"}
  BY DEF StreamStop, Streaming
<1>3. t.lk /\ ~Bystander(t) /\ ~Early(t)
  BY <1>2, InTurn DEF Holding, FinPC, Locks
<1>4. PICK C, V :
        /\ C \in SUBSET Spawning(t.s)
        /\ Evolves({t} \cup C, V, {t.s}) /\ Finalizers(V, t, "seg")
  BY StreamStopShape
<1>5. PICK X : X = {t} \cup C
  OBVIOUS
<1>6. PICK D : D = {t.s}
  OBVIOUS
<1>7. Evolves(X, V, D) /\ t \in X /\ \A s \in D : s = t.s
  BY <1>4, <1>5, <1>6
<1>8. \A v \in V : Tame(v) /\ v.s = t.s /\ ~Early(v) /\ v.pc # "stream"
  BY <1>1, <1>4, TameFin DEF BackPC
<1>9. /\ UNCHANGED <<stash, pending>> /\ Disarm(t.s)
      /\ \E x : running' = [running EXCEPT ![t.s] = x]
      /\ parked' = [parked EXCEPT ![t.s] = FALSE]
  BY DEF StreamStop, queues
<1>10. Only(t.s)
  <2>1. status' = status \/ status' = FinStatus(t.s, "stopped")
    BY DEF StreamStop
  <2> QED
    BY <1>1, <2>1, FinOnly
<1>11. Apart(t.s) /\ (armed'[t.s] = "set" => armed[t.s] = "set")
  BY <1>1, <1>9, <1>10, ApartFrame
<1>12. parked'[t.s] => parked[t.s]
  BY <1>1, <1>9, Types DEF TypeOK
<1>13. Spared(t, D)
  BY <1>3, SparedHeld
<1> QED
  BY <1>3, <1>7, <1>8, <1>11, <1>12, <1>13, ReachOwn

----------------------------------------------------------------------------
(* The steps of a report and of a wake.                                    *)

\* A report goes to a parent, which has a child and is not fresh.
LEMMA ReachReport ==
    ASSUME IInv, Stays, Reach, NEW t \in tasks, t.pc \in FinPC, NEW V, NEW W,
           Evolves({t}, V \cup W, {}),
           \A v \in V : /\ Tame(v) /\ v.s = t.s /\ v.kind = t.kind
                        /\ ~Early(v) /\ v.pc # "stream",
           \A v \in W : /\ Tame(v) /\ v.s = Parent[t.s]
                        /\ ~Early(v) /\ v.pc # "stream",
           UNCHANGED <<running, parked, armed>>,
           Only(t.s), status'[t.s] \in {status[t.s], "done"},
           \A s \in Session : s # Parent[t.s] =>
               stash'[s] = stash[s] /\ pending'[s] = pending[s]
    PROVE  Reach'
<1> PICK p : p = Parent[t.s]
  OBVIOUS
<1>1. /\ t.s \in Session /\ status[t.s] # "none"
      /\ ~Bystander(t) => ~Fresh(t.s)
  BY NotFresh DEF Early, FinPC
<1>2. t.s \in Subagent /\ p \in Session
  BY TreeAssumption DEF IInv, Latched
<1>3. ~Fresh(p) /\ status[p] # "none"
  BY <1>1, <1>2 DEF Reach, Untouched, Fresh
<1>4. PICK N : N = V \cup W
  OBVIOUS
<1>5. PICK X : X = {t}
  OBVIOUS
<1>6. PICK D : D = {}
  OBVIOUS
<1>7. Evolves(X, N, D)
  BY <1>4, <1>5, <1>6
<1>8. Sheltered
  BY <1>1, <1>3 DEF Sheltered, Stays, Only, Reach, Untouched
<1>9. \A v \in V : Seated(v, X)
  <2>1. CASE Bystander(t)
    BY <2>1 DEF Bystander, FinPC, Seated
  <2>2. CASE ~Bystander(t)
    BY <1>1, <2>2 DEF Fresh, Begun, Seated
  <2> QED
    BY <2>1, <2>2
<1>10. \A v \in W : Seated(v, X)
  BY <1>3 DEF Fresh, Begun, Seated
<1>11. \A v \in N : /\ Tame(v) /\ status[v.s] # "none" /\ v.s \in Session
                    /\ Seated(v, X) /\ ~Early(v) /\ v.pc # "stream"
  BY <1>1, <1>2, <1>3, <1>4, <1>9, <1>10
<1>12. \A u \in tasks \ X : u.pc = "stream" =>
         u.s \notin D /\ running'[u.s] # "none" /\ armed'[u.s] # "none"
  BY <1>6 DEF Reach, Alive
<1> QED
  BY <1>7, <1>8, <1>11, <1>12, ReachKept

\* What is called for a parent is tame.
LEMMA TameCalls ==
    ASSUME NEW W, NEW p, Calls(W, p)
    PROVE  \A v \in W : Tame(v) /\ v.s = p /\ ~Early(v) /\ v.pc # "stream"
BY TameNew DEF Calls, Spawned

\* A flush writes only to its session, and nothing if nothing is pending.
LEMMA FlushFrame ==
    ASSUME IInv, NEW p \in Session, NEW T, NEW ticking, Flush(p, T, ticking)
    PROVE  /\ \A s \in Session : s # p => stash'[s] = stash[s] /\ pending'[s] = pending[s]
           /\ pending[p] = {} => stash'[p] = stash[p] /\ pending'[p] = {}
BY Types DEF Flush, TypeOK

\* The steps of a report.
LEMMA ReportReach ==
    ASSUME IInv, Stays, Reach, NEW t \in tasks,
           FinReport(t) \/ FinStopped(t) \/ FinInject(t) \/ FlushRun(t)
    PROVE  Reach'
<1>1. t.s \in Session /\ t \in Task /\ Tame(t)
  BY NotFresh
<1>2. CASE FinReport(t)
  <2>1. PICK u : Alone(u, t, {}) /\ Goes(u, t, "push")
    BY <1>2, FinReportShape
  <2>2. t.pc \in FinPC /\ UNCHANGED <<running, parked, armed, stash, pending>>
        /\ status' = [status EXCEPT ![t.s] = "done"]
    BY <1>2 DEF FinReport, FinPC, registries, queues
  <2>3. Tame(u) /\ u.s = t.s /\ u.kind = t.kind /\ ~Early(u) /\ u.pc # "stream"
    BY <1>1, <2>1, <2>2, TameGoes DEF Tame, Goes
  <2>4. PICK V : V = {u}
    OBVIOUS
  <2>5. PICK W : W = {}
    OBVIOUS
  <2>6. Evolves({t}, V \cup W, {})
    <3>1. V \cup W = {u}
      BY <2>4, <2>5
    <3> QED
      BY <2>1, <3>1 DEF Alone
  <2>7. Only(t.s) /\ status'[t.s] \in {status[t.s], "done"}
    BY <1>1, <2>2, Types DEF Only, TypeOK
  <2>8. \A v \in V : /\ Tame(v) /\ v.s = t.s /\ v.kind = t.kind
                     /\ ~Early(v) /\ v.pc # "stream"
    BY <2>3, <2>4
  <2>9. \A v \in W : /\ Tame(v) /\ v.s = Parent[t.s]
                     /\ ~Early(v) /\ v.pc # "stream"
    BY <2>5
  <2> QED
    BY <2>2, <2>6, <2>7, <2>8, <2>9, ReachReport
<1>3. CASE FinStopped(t) \/ FinInject(t)
  <2>1. PICK W : ReportShape(t, W)
    BY <1>3, FinStoppedShape, FinInjectShape
  <2>2. PICK V : Evolves({t}, V \cup W, {}) /\ Finalizers(V, t, t.ret)
                 /\ Calls(W, Parent[t.s])
    BY <2>1 DEF ReportShape
  <2>3. t.pc \in FinPC /\ UNCHANGED <<running, parked, armed, status>>
    BY <1>3 DEF FinStopped, FinInject, FinPC, registries
  <2>4. t.ret \in BackPC /\ t.ret # "tail"
    BY <1>1, <2>3 DEF Task, Tame, BackPC
  <2>5. \A v \in V : /\ Tame(v) /\ v.s = t.s /\ v.kind = t.kind
                     /\ ~Early(v) /\ v.pc # "stream"
    BY <1>1, <2>2, <2>4, TameFin
  <2>6. \A v \in W : /\ Tame(v) /\ v.s = Parent[t.s]
                     /\ ~Early(v) /\ v.pc # "stream"
    BY <2>2, TameCalls
  <2>7. \A s \in Session : s # Parent[t.s] =>
             stash'[s] = stash[s] /\ pending'[s] = pending[s]
    BY <1>3, Types DEF FinStopped, FinInject, queues, TypeOK
  <2>8. Only(t.s) /\ status'[t.s] \in {status[t.s], "done"}
    BY <2>3 DEF Only
  <2> QED
    BY <2>2, <2>3, <2>5, <2>6, <2>7, <2>8, ReachReport
<1>4. CASE FlushRun(t)
  <2>1. PICK W : Evolves({t}, W, {}) /\ Calls(W, t.s)
    BY <1>4, FlushRunShape
  <2>2. /\ t.kind = "flush" /\ UNCHANGED <<running, parked, armed, status>>
        /\ Flush(t.s, tasks \ {t}, timer)
    BY <1>4 DEF FlushRun, registries
  <2>3. PICK X : X = {t}
    OBVIOUS
  <2>4. PICK D : D = {}
    OBVIOUS
  <2>5. Evolves(X, W, D) /\ t \in X /\ \A s \in D : s = t.s
    BY <2>1, <2>3, <2>4
  <2>6. \A v \in W : Tame(v) /\ v.s = t.s /\ ~Early(v) /\ v.pc # "stream"
    BY <2>1, TameCalls
  <2>7. Apart(t.s)
    BY <1>1, <2>2, FlushFrame DEF Apart
  <2>8. Spared(t, D)
    BY <2>2, <2>4, SparedMild
  <2>9. ~Bystander(t) /\ ~Early(t)
    BY <2>2 DEF Bystander, Early
  <2> QED
    BY <2>2, <2>5, <2>6, <2>7, <2>8, <2>9, ReachOwn
<1> QED
  BY <1>2, <1>3, <1>4

\* The steps of a wake turn.
LEMMA WakeReach ==
    ASSUME IInv, Stays, Locks, Reach, NEW t \in tasks,
           WakeRefused(t) \/ WakeEnter(t) \/ WakeFlipped(t) \/ Unmark(t)
    PROVE  Reach'
<1>1. t.s \in Session /\ t \in Task /\ Tame(t)
  BY NotFresh
<1>2. ~Bystander(t) /\ ~Early(t)
  <2>1. CASE t.kind = "wake"
    BY <2>1 DEF Bystander, Early
  <2>2. CASE t.pc \in {"flip", "unmark"}
    BY <2>2, InTurn DEF Holding, FinPC
  <2> QED
    BY <2>1, <2>2 DEF WakeRefused, WakeEnter, WakeFlipped, Unmark
<1>3. Only(t.s)
  <2>1. UNCHANGED status => Only(t.s)
    BY DEF Only
  <2>2. CASE WakeEnter(t)
    BY <1>1, <2>2, Types DEF WakeEnter, Only, TypeOK
  <2>3. CASE WakeFlipped(t)
    <3>1. status' = status \/ status' = FinStatus(t.s, "stopped")
      BY <2>3 DEF WakeFlipped
    <3> QED
      BY <1>1, <3>1, FinOnly
  <2> QED
    BY <2>1, <2>2, <2>3 DEF WakeRefused, Unmark
<1>4. /\ UNCHANGED pending /\ UNCHANGED parked
      /\ UNCHANGED stash \/ \E x : stash' = [stash EXCEPT ![t.s] = x]
      /\ UNCHANGED running \/ \E x : running' = [running EXCEPT ![t.s] = x]
      /\ UNCHANGED armed \/ Arm(t.s) \/ Disarm(t.s)
  BY Zenon DEF WakeRefused, WakeEnter, WakeFlipped, Unmark, WakeStream,
               registries, queues
<1>5. Apart(t.s) /\ (armed'[t.s] = "set" => armed[t.s] = "set")
      /\ (parked'[t.s] => parked[t.s])
  BY <1>1, <1>3, <1>4, ApartFrame
<1>6. ASSUME NEW D, Evolves({t}, {}, D), \A s \in D : s = t.s, Spared(t, D)
      PROVE  Reach'
  BY <1>2, <1>5, <1>6, ReachEnd
<1>7. ASSUME NEW u, NEW D, NEW pc, Alone(u, t, D), Goes(u, t, pc),
             pc \in {"flip", "stream"}, \A s \in D : s = t.s, Spared(t, D),
             pc = "stream" =>
               running'[t.s] # "none" /\ armed'[t.s] # "none" /\ u.sev = "reg"
      PROVE  Reach'
  <2>1. pc \notin {"heal", "bcast", "tail", "create", "armed", "start", "wpush"}
        /\ pc \notin FinPC
    BY <1>7 DEF FinPC
  <2> QED
    BY <1>2, <1>5, <1>7, <2>1, ReachAlone
<1>8. PICK D0 : D0 = {}
  OBVIOUS
<1>9. PICK D1 : D1 = {t.s}
  OBVIOUS
<1>10. (\A s \in D0 : s = t.s) /\ (\A s \in D1 : s = t.s)
  BY <1>8, <1>9
<1>11. CASE WakeRefused(t)
  <2>1. Evolves({t}, {}, D0) /\ UNCHANGED <<running, armed>>
    BY <1>8, <1>11, EndsShape DEF WakeRefused, registries
  <2>2. Spared(t, D0)
    BY <1>8, <2>1, SparedMild
  <2> QED
    BY <1>6, <1>10, <2>1, <2>2
<1>12. ASSUME Arm(t.s), running' = [running EXCEPT ![t.s] = "own"]
       PROVE  running'[t.s] # "none" /\ armed'[t.s] # "none"
  BY <1>1, <1>12, Types DEF Arm, TypeOK
<1>13. CASE WakeEnter(t)
  <2>1. ~Locked(t.s)
    BY <1>13, WakeEnterShape
  <2>2. Spared(t, D0) /\ Spared(t, D1)
    BY <2>1, SparedHeld
  <2>3. CASE Evolves({t}, {}, {})
    BY <1>6, <1>8, <1>10, <2>2, <2>3
  <2>4. CASE Evolves({t}, {}, {t.s})
    BY <1>6, <1>9, <1>10, <2>2, <2>4
  <2>5. CASE \E u : Alone(u, t, {}) /\ Goes(u, t, "flip")
    <3>1. PICK u : Alone(u, t, D0) /\ Goes(u, t, "flip")
      BY <1>8, <2>5
    <3> QED
      BY <1>7, <1>10, <2>2, <3>1
  <2>6. CASE /\ running' = [running EXCEPT ![t.s] = "own"] /\ Arm(t.s)
             /\ \E u : /\ Alone(u, t, {}) /\ Goes(u, t, "stream")
                       /\ u.sev = "reg"
    <3>1. PICK u : Alone(u, t, D0) /\ Goes(u, t, "stream") /\ u.sev = "reg"
      BY <1>8, <2>6
    <3> QED
      BY <1>7, <1>10, <1>12, <2>2, <2>6, <3>1
  <2> QED
    BY <1>13, <2>3, <2>4, <2>5, <2>6, WakeEnterShape
<1>14. CASE WakeFlipped(t)
  <2>1. t.pc = "flip" /\ t.lk
    BY <1>14 DEF WakeFlipped, Locks, Holding
  <2>2. Spared(t, D0) /\ Spared(t, D1)
    BY <2>1, SparedHeld
  <2>3. CASE \E V : Evolves({t}, V, {t.s}) /\ Finalizers(V, t, "unmark")
    <3>1. PICK V : Evolves({t}, V, {t.s}) /\ Finalizers(V, t, "unmark")
      BY <2>3
    <3>2. \A v \in V : Tame(v) /\ v.s = t.s /\ ~Early(v) /\ v.pc # "stream"
      BY <1>1, <3>1, TameFin DEF BackPC
    <3>3. PICK X : X = {t}
      OBVIOUS
    <3>4. Evolves(X, V, D1) /\ t \in X
      BY <1>9, <3>1, <3>3
    <3> QED
      BY <1>2, <1>5, <1>10, <2>2, <3>2, <3>4, ReachOwn
  <2>4. CASE /\ running' = [running EXCEPT ![t.s] = "own"] /\ Arm(t.s)
             /\ \E u : /\ Alone(u, t, {}) /\ Goes(u, t, "stream")
                       /\ u.sev = "reg"
    <3>1. PICK u : Alone(u, t, D0) /\ Goes(u, t, "stream") /\ u.sev = "reg"
      BY <1>8, <2>4
    <3> QED
      BY <1>7, <1>10, <1>12, <2>2, <2>4, <3>1
  <2> QED
    BY <1>14, <2>3, <2>4, WakeFlippedShape
<1>15. CASE Unmark(t)
  <2>1. Evolves({t}, {}, D0) /\ t.lk
    BY <1>8, <1>15, EndsShape DEF Unmark, Locks, Holding
  <2>2. Spared(t, D0)
    BY <2>1, SparedHeld
  <2> QED
    BY <1>6, <1>10, <2>1, <2>2
<1> QED
  BY <1>11, <1>13, <1>14, <1>15

\* Coroutines that join sessions which are not fresh, and register them.
LEMMA ReachJoin ==
    ASSUME IInv, Stays, Reach, NEW N, NEW D, Evolves({}, N, D), \A s \in D : FALSE,
           Sheltered,
           \A v \in N : /\ Tame(v) /\ v.s \in Session /\ status[v.s] # "none"
                        /\ ~Early(v) /\ v.pc # "stream"
                        /\ Bystander(v) \/ ~Fresh(v.s),
           \A s \in Session : armed'[s] = "set" => armed[s] = "set" \/ Reached(s),
           \A s \in Session : parked'[s] => parked[s],
           \A s \in Session : running'[s] = "none" => running[s] = "none",
           \A s \in Session : armed'[s] = "none" => armed[s] = "none"
    PROVE  Reach'
<1>1. PICK X : X = {}
  OBVIOUS
<1>2. Evolves(X, N, D)
  BY <1>1
<1>3. \A v \in N : Seated(v, X)
  BY DEF Fresh, Begun, Seated
<1>4. \A u \in tasks \ X : u.pc = "stream" =>
         u.s \notin D /\ running'[u.s] # "none" /\ armed'[u.s] # "none"
  BY NotFresh DEF Reach, Alive
<1> QED
  BY <1>2, <1>3, <1>4, ReachKept

\* The user talks to a session, answers it or retries it, and a timer fires.
LEMMA UserReach ==
    ASSUME IInv, Stays, Reach, StopsMeetTurns, NEW s \in Session,
           Invoke(s) \/ Answer(s) \/ Retry(s) \/ TimerFire(s)
    PROVE  Reach'
<1>1. PICK D : D = {}
  OBVIOUS
<1>2. \A x \in D : FALSE
  BY <1>1
<1>3. PICK script \in Scripts : left \subseteq script
  BY Types DEF TypeOK
<1>4. ASSUME NEW n, Evolves({}, {n}, {}), Tame(n), n.s = s, status[s] # "none",
             ~Early(n), n.pc # "stream", ~Fresh(s), Sheltered,
             \A x \in Session : armed'[x] = "set" => armed[x] = "set" \/ Reached(x),
             \A x \in Session : parked'[x] => parked[x],
             \A x \in Session : running'[x] = "none" => running[x] = "none",
             \A x \in Session : armed'[x] = "none" => armed[x] = "none"
      PROVE  Reach'
  <2>1. PICK N : N = {n}
    OBVIOUS
  <2>2. Evolves({}, N, D)
    BY <1>1, <1>4, <2>1
  <2>3. \A v \in N : /\ Tame(v) /\ v.s \in Session /\ status[v.s] # "none"
                     /\ ~Early(v) /\ v.pc # "stream"
                     /\ Bystander(v) \/ ~Fresh(v.s)
    BY <1>4, <2>1
  <2> QED
    BY <1>2, <1>4, <2>2, <2>3, ReachJoin
<1>5. UNCHANGED <<status, stash, pending>> => Sheltered
  BY DEF Sheltered, Reach, Untouched
<1>6. Arm(s) => /\ \A x \in Session : armed'[x] = "set" => armed[x] = "set"
                /\ \A x \in Session : armed'[x] = "none" => armed[x] = "none"
  BY Types DEF Arm, TypeOK
<1>7. \A n : Socket(n, s) => Tame(n) /\ n.s = s /\ ~Early(n) /\ n.pc # "stream"
  BY TameNew DEF Socket, WsKind
<1>8. CASE Invoke(s)
  <2>1. PICK n : Evolves({}, {n}, {}) /\ Socket(n, s)
    BY <1>8, InvokeShape
  <2>2. /\ status[s] # "none" /\ <<"invoke", s>> \in left /\ Arm(s)
        /\ UNCHANGED <<status, parked, stash, pending>>
        /\ running' = [running EXCEPT ![s] = "ws"]
    BY <1>8 DEF Invoke, Take, queues
  <2>3. ~Fresh(s)
    <3>1. s # Root => ~Reached(s)
      BY <1>3, <2>2 DEF StopsMeetTurns
    <3>2. s = Root => ~\E t \in tasks : t.s = s /\ Early(t)
      BY NotFresh DEF Tame, Early, Subagent
    <3> QED
      BY <2>2, <3>1, <3>2 DEF Fresh
  <2>4. \A x \in Session : running'[x] = "none" => running[x] = "none"
    BY <2>2, Types DEF TypeOK
  <2> QED
    BY <1>4, <1>5, <1>6, <1>7, <2>1, <2>2, <2>3, <2>4
<1>9. CASE Answer(s)
  <2>1. PICK n : Evolves({}, {n}, {}) /\ Socket(n, s)
    BY <1>9, AnswerShape
  <2>2. /\ parked[s] /\ Arm(s) /\ UNCHANGED <<status, running, stash, pending>>
        /\ parked' = [parked EXCEPT ![s] = FALSE]
    BY <1>9 DEF Answer, queues
  <2>3. ~Fresh(s) /\ status[s] # "none"
    BY <2>2 DEF Reach, Fresh
  <2>4. \A x \in Session : parked'[x] => parked[x]
    BY <2>2, Types DEF TypeOK
  <2> QED
    BY <1>4, <1>5, <1>6, <1>7, <2>1, <2>2, <2>3, <2>4
<1>10. CASE Retry(s)
  <2>1. PICK n : /\ Evolves({}, {n}, {}) /\ n.s = s /\ n.kind = "retry"
                 /\ n.pc = "rpush" /\ n.todo = {}
    BY <1>10, RetryShape
  <2>2. /\ status[s] = "failed" /\ status' = [status EXCEPT ![s] = "running"]
        /\ UNCHANGED <<running, parked, armed, stash, pending>>
    BY <1>10 DEF Retry, registries, queues
  <2>3. ~Fresh(s)
    BY <2>2 DEF Reach, Untouched
  <2>4. \A x \in Session : x # s => status'[x] = status[x]
    BY <2>2, Types DEF TypeOK
  <2>5. Sheltered
    BY <2>2, <2>3, <2>4 DEF Sheltered, Stays, Reach, Untouched
  <2>6. Tame(n) /\ ~Early(n) /\ n.pc # "stream"
    BY <2>1, TameNew
  <2> QED
    BY <1>4, <2>1, <2>2, <2>3, <2>5, <2>6
<1>11. CASE TimerFire(s)
  <2>1. PICK W : Evolves({}, W, {}) /\ Calls(W, s) /\ (W # {} => pending[s] # {})
    BY <1>11, TimerFireShape
  <2>2. UNCHANGED <<status, running, parked, armed>> /\ Flush(s, tasks, timer \ {s})
    BY <1>11 DEF TimerFire, registries
  <2>3. /\ \A x \in Session : x # s => stash'[x] = stash[x] /\ pending'[x] = pending[x]
        /\ pending[s] = {} => stash'[s] = stash[s] /\ pending'[s] = {}
    BY <2>2, FlushFrame
  <2>4. Sheltered
    BY <2>2, <2>3 DEF Sheltered, Reach, Untouched
  <2>5. ASSUME NEW v \in W
        PROVE  /\ Tame(v) /\ v.s \in Session /\ status[v.s] # "none"
               /\ ~Early(v) /\ v.pc # "stream"
               /\ Bystander(v) \/ ~Fresh(v.s)
    <3>1. Tame(v) /\ v.s = s /\ ~Early(v) /\ v.pc # "stream"
      BY <2>1, TameCalls
    <3>2. ~Fresh(s)
      BY <2>1 DEF Reach, Untouched
    <3> QED
      BY <3>1, <3>2 DEF Fresh
  <2>6. Evolves({}, W, D)
    BY <1>1, <2>1
  <2> QED
    BY <1>2, <2>2, <2>4, <2>5, <2>6, ReachJoin
<1> QED
  BY <1>8, <1>9, <1>10, <1>11

----------------------------------------------------------------------------
(* The steps of a spawn.                                                   *)

\* What is not written stays sheltered.
LEMMA ShelteredSame ==
    ASSUME IInv, Reach, UNCHANGED <<status, stash, pending>>
    PROVE  Sheltered
BY DEF Sheltered, Reach, Untouched

\* A brief on its way to its first turn keeps its place.
LEMMA EarlyReach ==
    ASSUME IInv, Reach, NEW t \in tasks, Early(t), NEW u, Alone(u, t, {}),
           Early(u), Tame(u), u.s = t.s,
           UNCHANGED <<status, stash, pending, parked, running>>,
           Arm(t.s) \/ UNCHANGED armed
    PROVE  Reach'
<1>1. t.s \in Session /\ status[t.s] # "none"
  BY NotFresh
<1>2. PICK X : X = {t}
  OBVIOUS
<1>3. PICK N : N = {u}
  OBVIOUS
<1>4. PICK D : D = {}
  OBVIOUS
<1>5. Evolves(X, N, D)
  BY <1>2, <1>3, <1>4 DEF Alone
<1>6. Sheltered
  BY ShelteredSame
<1>7. \A v \in N : Tame(v) /\ status[v.s] # "none" /\ v.s \in Session /\ Seated(v, X)
  BY <1>1, <1>2, <1>3 DEF Seated
<1>8. \A v \in N : Early(v) => \E w \in X : w \in tasks /\ w.s = v.s /\ Early(w)
  BY <1>2, <1>3
<1>9. /\ \A s \in Session : armed'[s] = "set" => armed[s] = "set"
      /\ \A s \in Session : armed[s] # "none" => armed'[s] # "none"
  BY Types DEF Arm, TypeOK
<1>10. \A v \in N : v.pc # "stream"
  BY <1>3 DEF Early
<1>11. \A w \in tasks \ X : w.pc = "stream" =>
           w.s \notin D /\ running'[w.s] # "none" /\ armed'[w.s] # "none"
  BY <1>4, <1>9, NotFresh DEF Reach, Alive
<1>12. /\ \A s \in Session : armed'[s] = "set" => armed[s] = "set" \/ Reached(s)
       /\ \A s \in Session : parked'[s] =>
            parked[s] \/ (~Reached(s) /\ status[s] # "none")
       /\ \A v, w \in N : Early(v) => v = w
  BY <1>3, <1>9
<1> QED
  BY <1>5, <1>6, <1>7, <1>8, <1>10, <1>11, <1>12, ReachKept

\* A spawned child is armed and launched.
LEMMA LaunchReach ==
    ASSUME IInv, Reach, NEW t \in tasks, SpawnArm(t) \/ SpawnLaunch(t)
    PROVE  Reach'
<1>1. Tame(t) /\ t.pc \in {"create", "armed"}
  BY NotFresh DEF SpawnArm, SpawnLaunch
<1>2. Early(t)
  BY <1>1 DEF Tame, Early
<1>3. UNCHANGED <<status, stash, pending, parked, running>>
      /\ (Arm(t.s) \/ UNCHANGED armed)
  BY DEF SpawnArm, SpawnLaunch, registries, queues
<1>4. ASSUME NEW u, NEW pc, pc \in {"armed", "start"}, Goes(u, t, pc),
             u.evt \in {"reg", t.evt}
      PROVE  Early(u) /\ Tame(u) /\ u.s = t.s
  <2>1. u.pc = pc /\ u.s = t.s /\ u.kind = "brief" /\ u.todo = t.todo
    BY <1>2, <1>4 DEF Goes, Early
  <2>2. \A x : ~Pending(u, x)
    BY <2>1 DEF Pending
  <2>3. u.evt = "set" => Reached(u.s)
    BY <1>1, <1>2, <1>4, <2>1 DEF Tame
  <2> QED
    BY <1>1, <1>2, <1>4, <2>1, <2>2, <2>3 DEF Tame, Early, FinPC
<1>5. CASE SpawnArm(t)
  <2>1. PICK u : Alone(u, t, {}) /\ Goes(u, t, "armed") /\ u.evt = "reg"
    BY <1>5, SpawnArmShape
  <2> QED
    BY <1>2, <1>3, <1>4, <2>1, EarlyReach
<1>6. CASE SpawnLaunch(t)
  <2>1. PICK u : Alone(u, t, {}) /\ Goes(u, t, "start") /\ u.evt = t.evt
    BY <1>6, SpawnLaunchShape
  <2> QED
    BY <1>2, <1>3, <1>4, <2>1, EarlyReach
<1> QED
  BY <1>5, <1>6

\* A child is created: nobody is at it yet, and its parent is in a turn.
LEMMA CreateReach ==
    ASSUME IInv, Locks, Reach, NEW c \in Subagent, SpawnCreate(c)
    PROVE  Reach'
<1>1. PICK n : Evolves({}, {n}, {}) /\ n.s = c /\ n.kind = "brief"
               /\ n.pc = "create" /\ n.ret = "end" /\ n.todo = {}
  BY SpawnCreateShape
<1>2. tasks' = tasks \cup {NewTask("brief", c, "create")}
      /\ status[c] = "none" /\ status' = [status EXCEPT ![c] = "running"]
      /\ UNCHANGED <<running, parked, armed, stash, pending>>
  BY DEF SpawnCreate, registries, queues
<1>3. PICK b : b = NewTask("brief", c, "create")
  OBVIOUS
<1>4. /\ tasks' = tasks \cup {b} /\ b.s = c /\ b.kind = "brief" /\ b.pc = "create"
      /\ b.ret = "end" /\ b.todo = {} /\ b.evt = "none"
  BY <1>2, <1>3 DEF NewTask
<1>5. c \in Session /\ Parent[c] \in Session /\ Parent[c] # c
  BY TreeAssumption DEF Subagent, Above
<1>6. /\ status'[c] = "running"
      /\ \A x \in Session : x # c => status'[x] = status[x]
  BY <1>2, <1>5, Types DEF TypeOK
<1>7. Tame(b) /\ Early(b)
  BY <1>4 DEF Tame, Early, Pending, FinPC
<1>8. ~Fresh(Parent[c])
  <2>1. PICK t \in tasks : t.s = Parent[c] /\ t.pc = "stream"
    BY DEF SpawnCreate
  <2>2. ~Bystander(t) /\ ~Early(t)
    BY <2>1, InTurn DEF Holding, FinPC
  <2> QED
    BY <2>1, <2>2, NotFresh
<1>9. \A t \in tasks : t.s # c
  BY <1>2 DEF Reach
<1>10. ASSUME NEW s \in Session, Fresh(s)'
       PROVE  Untouched(s)'
  <2>1. CASE s = c
    <3>1. Untouched(c)
      BY <1>2, <1>5 DEF Reach, Fresh
    <3>2. \A x \in Subagent : Parent[x] = c => status'[x] = "none"
      BY <1>5, <1>6, <3>1 DEF Untouched, Subagent
    <3>3. \A t \in tasks' : t.s = c => t = b
      BY <1>4, <1>9
    <3> QED
      BY <1>2, <1>6, <1>7, <2>1, <3>1, <3>2, <3>3 DEF Untouched
  <2>2. CASE s # c
    <3>1. Fresh(s)
      BY <1>4, <1>6, <1>10, <2>2 DEF Fresh, Reached
    <3>2. Untouched(s) /\ s # Parent[c]
      BY <1>8, <3>1 DEF Reach
    <3>3. \A x \in Subagent : Parent[x] = s => status'[x] = "none"
      BY <1>6, <3>2 DEF Untouched, Subagent
    <3>4. \A t \in tasks' : t.s = s => t \in tasks
      BY <1>4, <2>2
    <3> QED
      BY <1>2, <1>6, <2>2, <3>2, <3>3, <3>4 DEF Untouched
  <2> QED
    BY <2>1, <2>2
<1>11. \A t \in tasks' : Tame(t) /\ status'[t.s] # "none"
  <2>1. \A t \in tasks : Tame(t) /\ t.s \in Session /\ status'[t.s] # "none"
    BY <1>6, <1>9, NotFresh
  <2> QED
    BY <1>4, <1>6, <1>7, <2>1
<1>12. \A t \in tasks' : t.pc = "stream" => Alive(t)'
  BY <1>2, <1>4 DEF Reach, Alive
<1>13. /\ \A s \in Session : armed'[s] = "set" => Reached(s)
       /\ \A s \in Session : parked'[s] => ~Reached(s) /\ status'[s] # "none"
  BY <1>2, <1>6 DEF Reach
<1>14. \A s \in Session : Reached(s)' = Reached(s)
  BY DEF Reached
<1> QED
  BY <1>10, <1>11, <1>12, <1>13, <1>14 DEF Reach

\* A first turn that a stop may meet leaves nobody behind who is yet to begin.
LEMMA BegunOnce ==
    ASSUME IInv, Reach, NEW t \in tasks, ~Bystander(t), NEW X, t \in X
    PROVE  Begun(t.s, X)
<1>1. t.s \in Session /\ (~Early(t) => ~Fresh(t.s))
  BY NotFresh
<1>2. ASSUME NEW u \in tasks \ X, u.s = t.s, Early(u), Reached(t.s)
      PROVE  FALSE
  <2>1. Fresh(t.s)
    BY <1>2 DEF Fresh
  <2>2. Early(t) /\ Untouched(t.s)
    BY <1>1, <2>1 DEF Reach
  <2> QED
    BY <1>2, <2>2 DEF Untouched
<1> QED
  BY <1>2 DEF Begun

\* A brief turn is killed at its start, or queues for the turn lock.
LEMMA BriefReach ==
    ASSUME IInv, Locks, Reach, NEW t \in tasks, BriefStart(t)
    PROVE  Reach'
<1>1. /\ t.s \in Session /\ status[t.s] # "none" /\ Tame(t)
      /\ t.kind \in {"brief", "wrap"} /\ t.pc = "start"
      /\ UNCHANGED <<parked, stash, pending>>
  BY NotFresh DEF BriefStart, queues
<1>2. ~Bystander(t)
  BY <1>1 DEF Bystander
<1>3. PICK X : X = {t}
  OBVIOUS
<1>4. Begun(t.s, X)
  BY <1>2, <1>3, BegunOnce
<1>5. CASE IsSet(t, t.evt)
  <2>1. PICK V : Evolves({t}, V, {t.s}) /\ Finalizers(V, t, "end")
    BY <1>5, BriefStartShape
  <2>2. PICK D : D = {t.s}
    OBVIOUS
  <2>3. Evolves(X, V, D)
    BY <1>3, <2>1, <2>2
  <2>4. Early(t) /\ Reached(t.s)
    BY <1>1, <1>5 DEF IsSet, Tame, Early, Reach
  <2>5. Untouched(t.s) /\ Fresh(t.s)
    BY <1>1, <2>4 DEF Fresh, Reach
  <2>6. \A v \in V : /\ Tame(v) /\ v.s = t.s /\ ~Early(v) /\ v.pc # "stream"
    BY <1>1, <2>1, TameFin DEF BackPC
  <2>7. UNCHANGED running /\ Disarm(t.s)
        /\ (status' = status \/ status' = [status EXCEPT ![t.s] = "stopped"])
    BY <1>5 DEF BriefStart, FinStatus
  <2>8. /\ \A s \in Session : s # t.s => status'[s] = status[s]
        /\ status'[t.s] \in {status[t.s], "stopped"}
    BY <1>1, <2>7, Types DEF TypeOK
  <2>9. Sheltered
    BY <1>1, <2>8 DEF Sheltered, Reach, Untouched
  <2>10. /\ \A s \in Session : armed'[s] = "set" => armed[s] = "set"
         /\ \A s \in Session : s # t.s => armed'[s] = armed[s]
    BY <1>1, <2>7, Types DEF Disarm, TypeOK
  <2>11. ASSUME NEW u \in tasks \ X, u.pc = "stream"
         PROVE  u.s \notin D /\ running'[u.s] # "none" /\ armed'[u.s] # "none"
    <3>1. Alive(u) /\ u.s \in Session /\ ~Bystander(u) /\ ~Early(u)
      BY <2>11, NotFresh, InTurn DEF Reach, Holding, FinPC
    <3>2. u.s # t.s
      BY <2>5, <3>1 DEF Untouched
    <3> QED
      BY <2>2, <2>7, <2>10, <3>1, <3>2 DEF Alive
  <2>12. \A v \in V : Tame(v) /\ status[v.s] # "none" /\ v.s \in Session /\ Seated(v, X)
    BY <1>1, <1>4, <2>6 DEF Seated
  <2>13. /\ \A s \in Session : armed'[s] = "set" => armed[s] = "set" \/ Reached(s)
         /\ \A s \in Session : parked'[s] =>
              parked[s] \/ (~Reached(s) /\ status[s] # "none")
    BY <1>1, <2>10
  <2> QED
    BY <2>3, <2>6, <2>9, <2>11, <2>12, <2>13, ReachKept
<1>6. CASE ~IsSet(t, t.evt)
  <2>1. PICK u : Alone(u, t, {}) /\ Goes(u, t, "queued")
    BY <1>6, BriefStartShape
  <2>2. PICK N : N = {u}
    OBVIOUS
  <2>3. PICK D : D = {}
    OBVIOUS
  <2>4. Evolves(X, N, D)
    BY <1>3, <2>1, <2>2, <2>3 DEF Alone
  <2>5. Tame(u) /\ u.s = t.s /\ ~Early(u) /\ u.pc = "queued"
    BY <1>1, <2>1, TameGoes DEF FinPC
  <2>6. UNCHANGED <<status, armed>> /\ running' = [running EXCEPT ![t.s] = "own"]
    BY <1>6 DEF BriefStart
  <2>7. Sheltered
    BY <1>1, <2>6, ShelteredSame
  <2>8. \A s \in Session : running[s] # "none" => running'[s] # "none"
    BY <2>6, Types DEF TypeOK
  <2>9. \A w \in tasks \ X : w.pc = "stream" =>
            w.s \notin D /\ running'[w.s] # "none" /\ armed'[w.s] # "none"
    BY <2>3, <2>6, <2>8, NotFresh DEF Reach, Alive
  <2>10. \A v \in N : Tame(v) /\ status[v.s] # "none" /\ v.s \in Session /\ Seated(v, X)
    BY <1>1, <1>4, <2>2, <2>5 DEF Seated
  <2>11. /\ \A v \in N : ~Early(v) /\ v.pc # "stream"
         /\ \A s \in Session : armed'[s] = "set" => armed[s] = "set" \/ Reached(s)
         /\ \A s \in Session : parked'[s] =>
              parked[s] \/ (~Reached(s) /\ status[s] # "none")
    BY <1>1, <2>2, <2>5, <2>6
  <2> QED
    BY <2>4, <2>7, <2>9, <2>10, <2>11, ReachKept
<1> QED
  BY <1>5, <1>6

----------------------------------------------------------------------------
(* The steps of a stop.                                                    *)

\* The stop button reaches its session.
LEMMA StopReach ==
    ASSUME IInv, Stays, Reach, NEW s \in Session, Stop(s)
    PROVE  Reach'
<1>1. /\ <<"stop", s>> \in left /\ status[s] # "none"
      /\ UNCHANGED <<status, stash, pending>>
  BY DEF Stop, Take, queues
<1>2. Reached(s)
  <2>1. PICK script \in Scripts : left \subseteq script
    BY Types DEF TypeOK
  <2> QED
    BY <1>1, <2>1 DEF Reached, Way
<1>3. ~parked[s]
  BY <1>2 DEF Reach
<1>4. PICK B : /\ Stopping(B, s) /\ Evolves({}, B, {})
               /\ armed' = IF Busy(s) THEN [armed EXCEPT ![s] = "set"] ELSE armed
               /\ UNCHANGED <<parked, running>>
  BY <1>3, StopShape
<1>5. ASSUME NEW v \in B
      PROVE  /\ Tame(v) /\ v.s \in Session /\ status[v.s] # "none"
             /\ ~Early(v) /\ v.pc # "stream" /\ Bystander(v)
  <2>1. Spawned(v, {"cascade", "stopif"}) /\ v.s = s /\ s # Root
    BY <1>4 DEF Stopping
  <2>2. \A x \in Subagent : Pending(v, x) => Reached(x)
    <3>1. PICK script \in Scripts : <<"stop", s>> \in script
      BY <1>1, Types DEF TypeOK
    <3> QED
      BY <2>1, <3>1 DEF Spawned, Pending, Reached, Way, Subagent
  <2> QED
    BY <1>1, <2>1, <2>2 DEF Spawned, Tame, Early, Bystander, FinPC
<1>6. PICK D : D = {}
  OBVIOUS
<1>7. Evolves({}, B, D) /\ \A x \in D : FALSE
  BY <1>4, <1>6
<1>8. Sheltered
  BY <1>1, ShelteredSame
<1>9. /\ \A x \in Session : armed'[x] = "set" => armed[x] = "set" \/ Reached(x)
      /\ \A x \in Session : armed'[x] = "none" => armed[x] = "none"
  BY <1>2, <1>4, Types DEF TypeOK
<1> QED
  BY <1>4, <1>5, <1>7, <1>8, <1>9, ReachJoin

\* A step of a stop that pops nothing and goes on as those of V, at sessions
\* that are not fresh or as a stop.
LEMMA ReachWalk ==
    ASSUME IInv, Reach, NEW t \in tasks, NEW V, Evolves({t}, V, {}), Sheltered,
           \A v \in V : /\ Tame(v) /\ v.s \in Session /\ status[v.s] # "none"
                        /\ ~Early(v) /\ v.pc # "stream"
                        /\ Bystander(v) \/ ~Fresh(v.s),
           UNCHANGED <<running, parked>>,
           \A s \in Session : armed'[s] = "set" => armed[s] = "set" \/ Reached(s),
           \A s \in Session : armed'[s] = "none" => armed[s] = "none"
    PROVE  Reach'
<1>1. PICK X : X = {t}
  OBVIOUS
<1>2. PICK D : D = {}
  OBVIOUS
<1>3. Evolves(X, V, D)
  BY <1>1, <1>2
<1>4. \A v \in V : Seated(v, X)
  BY DEF Fresh, Begun, Seated
<1>5. \A u \in tasks \ X : u.pc = "stream" =>
         u.s \notin D /\ running'[u.s] # "none" /\ armed'[u.s] # "none"
  BY <1>2, NotFresh DEF Reach, Alive
<1> QED
  BY <1>3, <1>4, <1>5, ReachKept

\* A stop that found its session waiting finalizes it.
LEMMA StopIfReach ==
    ASSUME IInv, Reach, NEW t \in tasks, StopIfWaiting(t)
    PROVE  Reach'
<1>1. /\ t.s \in Session /\ status[t.s] # "none" /\ Tame(t)
      /\ UNCHANGED <<running, parked, armed, stash, pending>>
  BY NotFresh DEF StopIfWaiting, registries, queues
<1>2. CASE Busy(t.s) \/ status[t.s] # "waiting"
  <2>1. tasks' = tasks \ {t} /\ UNCHANGED status
    BY <1>2 DEF StopIfWaiting
  <2>2. PICK V : V = {}
    OBVIOUS
  <2>3. Evolves({t}, V, {}) /\ \A v \in V : FALSE
    BY <2>1, <2>2, EndsShape
  <2>4. Sheltered
    BY <1>1, <2>1, ShelteredSame
  <2> QED
    BY <1>1, <2>3, <2>4, ReachWalk
<1>3. CASE ~Busy(t.s) /\ status[t.s] = "waiting"
  <2>1. ~Fresh(t.s)
    BY <1>1, <1>3 DEF Reach, Untouched
  <2>2. PICK u, V : /\ Evolves({t}, V, {}) /\ Finalizers(V, u, "end")
                    /\ u.s = t.s /\ u.kind = "stopif" /\ u.todo = t.todo
    BY StopIfWaitingShape
  <2>3. ASSUME NEW v \in V
        PROVE  /\ Tame(v) /\ v.s = t.s /\ ~Early(v) /\ v.pc # "stream"
    <3>1. /\ v.s = t.s /\ v.kind = "stopif" /\ v.todo = t.todo
          /\ v.pc \in FinPC /\ v.ret = "end"
      BY <2>2 DEF Finalizers, Finalizer, Onward
    <3> QED
      BY <1>1, <3>1 DEF Tame, Early, Pending, FinPC
  <2>4. /\ \A s \in Session : s # t.s => status'[s] = status[s]
        /\ status'[t.s] \in {status[t.s], "stopped"}
    <3>1. status' = FinStatus(t.s, "stopped")
      BY <1>3 DEF StopIfWaiting
    <3> QED
      BY <1>1, <3>1, Types DEF FinStatus, TypeOK
  <2>5. Sheltered
    BY <1>1, <2>1, <2>4 DEF Sheltered, Reach, Untouched
  <2> QED
    BY <1>1, <2>1, <2>2, <2>3, <2>5, ReachWalk
<1> QED
  BY <1>2, <1>3

\* A cascade visits only sessions that a stop reaches.
LEMMA VisitReached ==
    ASSUME IInv, Reach, NEW t \in tasks, AtCascade(t), NEW x \in ToVisit(t)
    PROVE  x \in Subagent /\ x \in Session /\ Reached(x)
<1>1. Tame(t) /\ t.kind = "cascade"
  BY NotFresh DEF AtCascade
<1>2. x \in Subagent /\ Pending(t, x)
  BY <1>1 DEF Tame, ToVisit, Below, Pending
<1> QED
  BY <1>1, <1>2 DEF Tame, Subagent

\* The stop events a cascade sets are of such sessions.
LEMMA SignalReached ==
    ASSUME IInv, Reach, NEW S, \A x \in S : Reached(x), Signal(S)
    PROVE  /\ \A s \in Session : armed'[s] = "set" => armed[s] = "set" \/ Reached(s)
           /\ \A s \in Session : armed'[s] = "none" => armed[s] = "none"
BY DEF Signal

\* A cascade ends, or finalizes a session with no turn.
LEMMA CascadeReach ==
    ASSUME IInv, Reach, NEW t \in tasks, CascadeEnd(t) \/ CascadeIdle(t)
    PROVE  Reach'
<1>1. UNCHANGED <<running, parked, stash, pending>>
  BY DEF CascadeEnd, CascadeIdle, queues
<1>2. CASE CascadeEnd(t)
  <2>1. PICK V : V = {}
    OBVIOUS
  <2>2. Evolves({t}, V, {}) /\ \A v \in V : FALSE
    BY <1>2, <2>1, CascadeEndShape
  <2>3. AtCascade(t) /\ Signal(ToVisit(t)) /\ UNCHANGED status
    BY <1>2 DEF CascadeEnd
  <2>4. \A x \in ToVisit(t) : Reached(x)
    BY <2>3, VisitReached
  <2>5. PICK S : S = ToVisit(t)
    OBVIOUS
  <2>6. Sheltered
    BY <1>1, <2>3, ShelteredSame
  <2> QED
    BY <1>1, <2>2, <2>3, <2>4, <2>5, <2>6, SignalReached, ReachWalk
<1>3. CASE CascadeIdle(t)
  <2>1. PICK x \in ToVisit(t), S \in SUBSET (ToVisit(t) \ AwaitsAt(t)) : \E u, V :
           /\ Idle(x) /\ Signal(S) /\ status' = FinStatus(x, "stopped")
           /\ Evolves({t}, V, {}) /\ Finalizers(V, u, "walk")
           /\ u.s = x /\ u.kind = "cascade"
           /\ u.todo = ToVisit(t) \ (S \cup {x})
    BY <1>3, CascadeIdleShape
  <2>2. PICK u, V :
           /\ Evolves({t}, V, {}) /\ Finalizers(V, u, "walk")
           /\ u.s = x /\ u.kind = "cascade"
           /\ u.todo = ToVisit(t) \ (S \cup {x})
    BY <2>1
  <2>3. AtCascade(t)
    BY <1>3 DEF CascadeIdle
  <2>4. \A y \in ToVisit(t) : y \in Subagent /\ y \in Session /\ Reached(y)
    BY <2>3, VisitReached
  <2>5. x \in Session /\ status[x] \in Live
    BY <2>1, <2>4 DEF Idle
  <2>6. ASSUME NEW v \in V
        PROVE  /\ Tame(v) /\ v.s \in Session /\ status[v.s] # "none"
               /\ ~Early(v) /\ v.pc # "stream" /\ Bystander(v)
    <3>1. /\ v.s = x /\ v.kind = "cascade" /\ v.todo \subseteq ToVisit(t)
          /\ \/ v.pc \in FinPC /\ v.ret = "walk"
             \/ v.pc = "walk" /\ v.ret = "end"
      BY <2>2 DEF Finalizers, Finalizer, Onward
    <3>2. \A y : Pending(v, y) => y \in ToVisit(t)
      BY <3>1 DEF Pending, FinPC
    <3> QED
      BY <2>4, <2>5, <3>1, <3>2 DEF Tame, Early, Bystander, FinPC, Live
  <2>7. /\ \A s \in Session : s # x => status'[s] = status[s]
        /\ status'[x] \in {status[x], "stopped"}
    BY <2>1, <2>5, Types DEF FinStatus, TypeOK
  <2>8. Sheltered
    BY <1>1, <2>5, <2>7 DEF Sheltered, Reach, Untouched, Live
  <2>9. Signal(S) /\ \A y \in S : Reached(y)
    BY <2>1, <2>4
  <2> QED
    BY <1>1, <2>2, <2>6, <2>8, <2>9, SignalReached, ReachWalk
<1> QED
  BY <1>2, <1>3

\* No parked turn is healed.
LEMMA NobodyHealed ==
    ASSUME IInv, Reach, NEW t \in tasks
    PROVE  ~CascadeParked(t) /\ ~HealLocked(t) /\ ~HealStop(t) /\ ~HealTail(t)
<1>1. Tame(t)
  BY NotFresh
<1>2. ASSUME CascadeParked(t)
      PROVE  FALSE
  <2>1. AtCascade(t) /\ \E x \in ToVisit(t) : parked[x]
    BY <1>2, CascadeParkedShape
  <2>2. PICK x \in ToVisit(t) : parked[x]
    BY <2>1
  <2>3. x \in Session /\ Reached(x)
    BY <2>1, VisitReached
  <2> QED
    BY <2>2, <2>3 DEF Reach
<1> QED
  BY <1>1, <1>2 DEF Tame, HealLocked, HealStop, HealTail

\* After a restart nothing runs.
LEMMA RestartReach ==
    ASSUME IInv, Reach, Restart
    PROVE  Reach'
<1>1. /\ tasks' = {}
      /\ \A s \in Session : ~parked'[s] /\ armed'[s] = "none"
      /\ \A s \in Session : stash'[s] = {} /\ pending'[s] = {}
      /\ \A s \in Session : status'[s] = IF status[s] \in Live THEN "stopped"
                                         ELSE status[s]
  BY DEF Restart
<1>2. ASSUME NEW s \in Session, Fresh(s)'
      PROVE  Untouched(s)'
  <2>1. status'[s] = "none"
    BY <1>1, <1>2 DEF Fresh
  <2>2. Untouched(s)
    BY <1>1, <2>1 DEF Reach, Fresh
  <2>3. \A c \in Subagent : Parent[c] = s => status'[c] = "none"
    BY <1>1, <2>2 DEF Untouched, Subagent, Live
  <2> QED
    BY <1>1, <2>1, <2>3 DEF Untouched
<1> QED
  BY <1>1, <1>2 DEF Reach

\* The stop button reaches turns whatever happens.
LEMMA ReachNext ==
    ASSUME StopsMeetTurns, IInv, Locks, Stays, Reach, Next
    PROVE  Reach'
<1>1. CASE \E t \in tasks : TurnStep(t)
  BY <1>1, BriefReach, TurnReach, EndReach, CutReach DEF TurnStep
<1>2. CASE \E t \in tasks : ReportStep(t)
  BY <1>2, ReportReach, WakeReach DEF ReportStep
<1>3. CASE \E t \in tasks : StopStep(t)
  BY <1>3, StopIfReach, CascadeReach, NobodyHealed DEF StopStep
<1>4. CASE \E t \in tasks : SpawnArm(t) \/ SpawnLaunch(t) \/ RetryGo(t)
  BY <1>4, LaunchReach, TurnReach
<1>5. CASE \E t \in tasks : \/ AutoRetry(t) \/ Interrupt(t)
                            \/ StreamEnd(t, "error") \/ StreamEnd(t, "recursion")
  BY <1>5, TurnReach, EndReach
<1>6. CASE \E c \in Subagent : SpawnCreate(c)
  BY <1>6, CreateReach
<1>7. CASE \E s \in Session : Invoke(s) \/ Answer(s) \/ Stop(s) \/ Retry(s)
                              \/ TimerFire(s)
  BY <1>7, UserReach, StopReach
<1>8. CASE Restart
  BY <1>8, RestartReach
<1> QED
  BY <1>1, <1>2, <1>3, <1>4, <1>5, <1>6, <1>7, <1>8 DEF Next, System, Outside

\* The stop button reaches every streaming turn: it is in a busy registry
\* and waits on the very event the registry holds (turns.py, runner.py),
\* where a session that may be stopped asks no question and gets no message
\* from the user besides.
THEOREM StopsReachTurns == StopsMeetTurns => (Spec => []StopReachesTurn)
<1>1. Init => Locks /\ Reach
  <2> SUFFICES ASSUME Init PROVE Locks /\ Reach
    OBVIOUS
  <2>1. /\ tasks = {} /\ \A s \in Session : ~parked[s] /\ armed[s] = "none"
        /\ \A s \in Session : stash[s] = {} /\ pending[s] = {}
        /\ \A s \in Session : status[s] = IF s = Root THEN "main" ELSE "none"
    BY DEF Init
  <2>2. \A s \in Session : Fresh(s) => Untouched(s)
    BY <2>1 DEF Fresh, Untouched, Subagent
  <2> QED
    BY <2>1, <2>2 DEF Locks, Reach
<1>2. IInv /\ Reach => StopReachesTurn
  BY DEF Reach, Alive, StopReachesTurn, Busy
<1>3. ASSUME StopsMeetTurns, IInv, Locks, Reach, [Next]_vars
      PROVE  (Locks /\ Reach)'
  <2>1. Locks'
    BY <1>3, LocksNext
  <2>2. LifecycleStep
    BY <1>3, StepKeeps
  <2>3. Stays
    BY <1>3, <2>2, TerminalStep DEF Stays, Subagent
  <2>4. CASE UNCHANGED vars
    <3>1. UNCHANGED <<status, tasks, running, parked, armed, stash, pending>>
      BY <2>4 DEF vars
    <3>2. \A s \in Session : Fresh(s)' => Untouched(s)'
      BY <1>3, <3>1 DEF Reach, Fresh, Untouched, Reached
    <3> QED
      BY <1>3, <2>1, <3>1, <3>2 DEF Reach, Alive, Reached
  <2> QED
    BY <1>3, <2>1, <2>3, <2>4, ReachNext
<1> SUFFICES ASSUME StopsMeetTurns
             PROVE  Spec => []StopReachesTurn
  OBVIOUS
<1> QED
  BY <1>1, <1>2, <1>3, Inductive, PTL DEF Spec
=============================================================================
