------------------------- MODULE SubagentScheduler -------------------------
(***************************************************************************)
(* The subagent scheduler of the Ginno runtime                             *)
(* (packages/runtime/src/ginno_runtime/subagent_scheduler, with the turn   *)
(* life cycle of api/stream it hooks into).                                *)
(*                                                                         *)
(* The runtime is one asyncio process.  A task runs without interruption   *)
(* from one suspending await to the next, so one action here is one such   *)
(* stretch of one coroutine; `tasks' is the set of coroutines in flight    *)
(* and `pc' names the await a coroutine is suspended at:                   *)
(*                                                                         *)
(*   create, armed   create_subagent after the meta upsert / the pre-arm   *)
(*   start           spawned, has not run yet (or waits for the turn lock) *)
(*   queued          waits for the turn lock, already registered           *)
(*   flip            wake turn: broadcasting waiting -> running            *)
(*   stream, drain   _stream_graph running / parked and draining           *)
(*   seg             _stream_graph's finally, after on_turn_stopped        *)
(*   report, push    _finalize_subagent: final report / status broadcast   *)
(*   wpush, rpush    _mark_waiting / revive_failed_for_retry broadcasting  *)
(*   heal, bcast, tail   _stop_parked_turn: turn lock / broadcast / rest   *)
(*   walk            stop_subagent_tree between two sessions               *)
(*   unmark          a refused wake dropping its provisional busy marker   *)
(*                                                                         *)
(* A report is the token <<child, n>>, the n-th result or failure child    *)
(* injected; <<child, 0>> is the wrap-up message its stop produced.        *)
(* Model output, texts, titles and usage are left out.  A turn lock is     *)
(* granted to any waiter (asyncio's FIFO order is one of those orders),    *)
(* and a continuation after a finalize that the latch skipped is a step    *)
(* of its own: both only add schedules.                                    *)
(***************************************************************************)
EXTENDS Naturals, FiniteSets

CONSTANTS
    Session,    \* the sessions of one conversation tree
    Root,       \* its main conversation
    Parent,     \* parent_session_id of every subagent
    Cap,        \* max_concurrent()
    Scripts     \* the outside events that may happen, once each: one set per
                \* case, of which a behaviour has one (the bound)

Subagent == Session \ {Root}

Act == {"invoke", "stop", "retry", "interrupt", "transient", "error",
        "recursion", "restart"}

\* The sessions above c.  SUBAGENT_MAX_DEPTH = 2 allows three layers of
\* subagents (depths 0, 1, 2) under the main conversation.
Above(c) ==
    LET p == Parent[c] IN
    {p} \cup IF p = Root THEN {} ELSE
        LET q == Parent[p] IN {q} \cup IF q = Root THEN {} ELSE {Parent[q]}

ASSUME TreeAssumption ==
    /\ Root \in Session
    /\ Parent \in [Subagent -> Session]
    /\ \A c \in Subagent : Root \in Above(c) /\ c \notin Above(c)
ASSUME CapAssumption == Cap \in Nat \ {0}
ASSUME ScriptAssumption == \A script \in Scripts : script \subseteq Act \X Session

VARIABLES
    status,     \* meta.subagent.status; "main" for the main conversation
    wrapped,    \* meta.subagent.recursion_wrapped
    tasks,      \* the coroutines in flight
    running,    \* _RUNNING_TURNS: none, or who registered the turn
    parked,     \* _PENDING_RESUME
    asking,     \* the checkpoint holds an unanswered interrupt
    armed,      \* _TURN_STOP: no event, an event, an event that is set
    stash,      \* _STEER_STASH: subagent injections awaiting a superstep
    pending,    \* _PENDING_INJECTIONS
    timer,      \* _INJECTION_FLUSH_TASKS
    absorbed,   \* history: the tokens a session's turns have read
    emitted,    \* history: how many reports a subagent has injected
    life,       \* history: how often a failed subagent was revived
    cut,        \* history: children whose creation a stop of the parent cut off
    left        \* the outside events still to come

registries == <<running, parked, armed>>
queues == <<stash, pending, timer>>
history == <<absorbed, emitted, life, cut>>
vars == <<status, wrapped, tasks, running, parked, asking, armed, stash,
          pending, timer, absorbed, emitted, life, cut, left>>

Live == {"running", "waiting"}
Terminal == {"done", "failed", "stopped"}
Token == Session \X Nat

WsKind == {"invoke", "resume", "retry"}
Kind == {"brief", "wrap", "wake", "settle", "stopif", "heal", "cascade",
         "flush"} \cup WsKind
PC == {"create", "armed", "start", "queued", "flip", "stream", "drain", "seg",
       "report", "push", "wpush", "rpush", "heal", "bcast", "tail", "walk",
       "unmark"}
Event == {"none", "reg", "clear", "set"}

\* evt is the stop event the completion gate will read, sev the one
\* _stream_graph waits on: "reg" while it is the object in _TURN_STOP, its
\* own value once the registry dropped it.  `listed' is the entry in
\* _TURN_TASKS (socket turns) or _INJECTION_WAKING (wakes), `ret' where a
\* finalize returns to, `todo' what a cascade still has to visit.
Task == [kind : Kind, s : Session, pc : PC, evt : Event, sev : Event,
         lk : BOOLEAN, listed : BOOLEAN, nested : BOOLEAN,
         out : {"ok", "error", "recursion"},
         res : {"none"} \cup Terminal,
         ret : {"end", "seg", "tail", "walk", "unmark"},
         toks : SUBSET Token, todo : SUBSET Session]

TypeOK ==
    /\ status \in [Session -> {"main", "none"} \cup Live \cup Terminal]
    /\ wrapped \in [Session -> BOOLEAN]
    /\ tasks \subseteq Task
    /\ running \in [Session -> {"none", "own", "ws"}]
    /\ parked \in [Session -> BOOLEAN]
    /\ asking \in [Session -> BOOLEAN]
    /\ armed \in [Session -> {"none", "clear", "set"}]
    /\ stash \in [Session -> SUBSET SUBSET Token]
    /\ pending \in [Session -> SUBSET Token]
    /\ timer \subseteq Session
    /\ absorbed \in [Session -> SUBSET Token]
    /\ emitted \in [Session -> Nat]
    /\ life \in [Session -> Nat]
    /\ cut \subseteq Session
    /\ \E script \in Scripts : left \subseteq script

Init ==
    /\ status = [s \in Session |-> IF s = Root THEN "main" ELSE "none"]
    /\ wrapped = [s \in Session |-> FALSE]
    /\ tasks = {}
    /\ running = [s \in Session |-> "none"]
    /\ parked = [s \in Session |-> FALSE]
    /\ asking = [s \in Session |-> FALSE]
    /\ armed = [s \in Session |-> "none"]
    /\ stash = [s \in Session |-> {}]
    /\ pending = [s \in Session |-> {}]
    /\ timer = {}
    /\ absorbed = [s \in Session |-> {}]
    /\ emitted = [s \in Session |-> 0]
    /\ life = [s \in Session |-> 0]
    /\ cut = {}
    /\ left \in Scripts

----------------------------------------------------------------------------
(* What the handlers read.                                                 *)

\* _session_meta_descendants: every created session below s
Below(s) == {c \in Subagent : status[c] # "none" /\ s \in Above(c)}

LiveBelow(s) == {c \in Below(s) : status[c] \in Live}

\* a live entry of _TURN_TASKS
WsLive(T, s) == \E t \in T : t.kind \in WsKind /\ t.listed /\ t.s = s

\* mutant: a settled socket turn still counts
BusyLong(s) == running[s] # "none" \/ \E t \in tasks :
    t.kind \in WsKind \cup {"settle"} /\ t.s = s
Busy(s) == running[s] # "none" \/ WsLive(tasks, s)

Locked(s) == \E t \in tasks : t.s = s /\ t.lk

\* mutant: no latch
FinalizingNever(s) == FALSE
\* _FINALIZING
Finalizing(s) == \E t \in tasks : t.s = s /\ t.pc \in {"report", "push"}

\* _INJECTION_WAKING
Waking(s) == \E t \in tasks : t.kind = "wake" /\ t.listed /\ t.s = s

\* _MANAGED_TURNS
Managed(s) == \E t \in tasks :
    t.kind \in {"brief", "wrap"} /\ t.s = s /\ (t.pc = "queued" \/ t.lk)

\* the tool calls of a streaming turn that are creating a child of s
Spawning(s) == {t \in tasks : t.pc \in {"create", "armed"} /\ Parent[t.s] = s}

IsSet(t, e) == e = "set" \/ (e = "reg" /\ armed[t.s] = "set")
StopSeen(t) == IsSet(t, t.sev)

Streaming(t) == t.pc = "stream" \/ (t.pc = "drain" /\ t.nested)

----------------------------------------------------------------------------
(* Pieces of the handlers.                                                 *)

NewTask(kind, s, pc) ==
    [kind |-> kind, s |-> s, pc |-> pc, evt |-> "none", sev |-> "none",
     lk |-> FALSE, listed |-> FALSE, nested |-> FALSE, out |-> "ok",
     res |-> "none", ret |-> "end", toks |-> {}, todo |-> {}]

WakeTask(s, toks, listed) ==
    [NewTask("wake", s, "start") EXCEPT !.toks = toks, !.listed = listed]

\* _TURN_STOP.pop(s): whoever holds the event object keeps its value
Freeze(e, s) == IF e = "reg" THEN armed[s] ELSE e
Detach(T, s) ==
    {IF t.s = s THEN [t EXCEPT !.evt = Freeze(@, s), !.sev = Freeze(@, s)]
     ELSE t : t \in T}
Disarm(s) == armed' = [armed EXCEPT ![s] = "none"]

\* _TURN_STOP.setdefault(s, Event())
Arm(s) == armed' = [armed EXCEPT ![s] = IF @ = "none" THEN "clear" ELSE @]

\* _TURN_TASKS[s] = task: the entry of an earlier task is overwritten
Unlist(T, s) ==
    {IF t.s = s /\ t.kind \in WsKind THEN [t EXCEPT !.listed = FALSE] ELSE t :
     t \in T}

\* mutant: the stash is dropped without redelivery
RedeliveriesNone(s) == {}
\* reconcile_stash_injections: one wake for every unabsorbed injection
Redeliveries(s) == {WakeTask(s, e, FALSE) : e \in stash[s]}
EmptyStash(s) == stash' = [stash EXCEPT ![s] = {}]

\* mutant: the patch is written past the latch
FinStatusUnlatched(s, res) ==
    IF res = "done" THEN status ELSE [status EXCEPT ![s] = res]
\* _finalize_subagent up to its first await: the latch, then the terminal
\* patch ("done" first suspends for the final report)
FinStatus(s, res) ==
    IF Finalizing(s) \/ res = "done" THEN status
    ELSE [status EXCEPT ![s] = res]
Return(t, ret) ==
    IF ret = "end" THEN {} ELSE {[t EXCEPT !.pc = ret, !.res = "none", !.ret = "end"]}
FinTask(t, res, ret) ==
    IF Finalizing(t.s) THEN Return(t, ret)
    ELSE {[t EXCEPT !.pc = IF res = "done" THEN "report" ELSE "push",
                    !.res = res, !.ret = ret]}

\* mutant: no terminal guard
StoppableAlways(s) == s # Root
\* on_turn_stopped applies to a live subagent only
Stoppable(s) == s # Root /\ status[s] \in Live

\* The verdict of on_turn_settled for a session with nothing in flight.
Verdict(s, out, stop) ==
    IF ~Stoppable(s) THEN "drop"
    ELSE IF stop THEN "stopped"
    ELSE IF out = "recursion" /\ ~wrapped[s] THEN "wrap"
    ELSE IF out # "ok" THEN "failed"
    ELSE IF LiveBelow(s) # {} THEN "wait"
    ELSE "done"

\* on_turn_settled acting on its verdict; T is what runs beside the gate.
Gate(t, T, g) ==
    /\ wrapped' = IF g = "wrap" THEN [wrapped EXCEPT ![t.s] = TRUE] ELSE wrapped
    /\ status' = IF g \in {"stopped", "failed"} THEN FinStatus(t.s, g)
                 ELSE IF g = "wait" THEN [status EXCEPT ![t.s] = "waiting"]
                 ELSE status
    /\ tasks' = T \cup
         IF g = "drop" THEN {}
         ELSE IF g = "wrap"
              THEN {[NewTask("wrap", t.s, "start") EXCEPT !.evt = "clear"]}
         ELSE IF g = "wait"
              THEN IF status[t.s] = "waiting" THEN {}
                   ELSE {[t EXCEPT !.pc = "wpush"]}
         ELSE FinTask(t, g, "end")

Take(act, s) == <<act, s>> \in left /\ left' = left \ {<<act, s>>}

----------------------------------------------------------------------------
(* Spawning a child (create_subagent, run by the parent's turn as a tool). *)

\* the cap check under _SPAWN_LOCK and create_session's meta upsert
SpawnCreate(c) ==
    /\ status[c] = "none"
    /\ \E t \in tasks : t.s = Parent[c] /\ t.pc = "stream"
    /\ \A t \in tasks : t.pc # "create"
    /\ Cardinality({s \in Subagent : status[s] = "running"}) < Cap
    /\ status' = [status EXCEPT ![c] = "running"]
    /\ tasks' = tasks \cup {NewTask("brief", c, "create")}
    /\ UNCHANGED <<wrapped, registries, asking, queues, history, left>>

\* create_session returned: pre-arm the stop event, broadcast the spawn
SpawnArm(t) ==
    /\ t.pc = "create"
    /\ Arm(t.s)
    /\ tasks' = (tasks \ {t}) \cup {[t EXCEPT !.pc = "armed", !.evt = "reg"]}
    /\ UNCHANGED <<status, wrapped, running, parked, asking, queues, history,
                   left>>

\* spawn_bg(_run_managed_turn(...))
SpawnLaunch(t) ==
    /\ t.pc = "armed"
    /\ tasks' = (tasks \ {t}) \cup {[t EXCEPT !.pc = "start"]}
    /\ UNCHANGED <<status, wrapped, registries, asking, queues, history, left>>

\* _run_managed_turn up to the turn lock: killed in the spawn window, or
\* registered as running
BriefStart(t) ==
    /\ t.kind \in {"brief", "wrap"} /\ t.pc = "start"
    /\ IF IsSet(t, t.evt)
       THEN /\ Disarm(t.s)
            /\ status' = IF Stoppable(t.s) THEN FinStatus(t.s, "stopped")
                         ELSE status
            /\ tasks' = Detach(tasks \ {t}, t.s) \cup
                 IF Stoppable(t.s) THEN FinTask(t, "stopped", "end") ELSE {}
            /\ UNCHANGED running
       ELSE /\ running' = [running EXCEPT ![t.s] = "own"]
            /\ tasks' = (tasks \ {t}) \cup {[t EXCEPT !.pc = "queued"]}
            /\ UNCHANGED <<status, armed>>
    /\ UNCHANGED <<wrapped, parked, asking, queues, history, left>>

----------------------------------------------------------------------------
(* A turn segment (_stream_graph under the turn lock).                     *)

\* mutant: the registry holds the kind of the turn
OwnerKind(t) == t.kind

Owner(t) == IF t.kind \in WsKind THEN "ws" ELSE "own"

StartTurn(t) ==
    /\ t.pc = "queued" /\ ~Locked(t.s)
    /\ running' = [running EXCEPT ![t.s] = Owner(t)]
    /\ Arm(t.s)
    /\ asking' = [asking EXCEPT ![t.s] = FALSE]
    /\ tasks' = (tasks \ {t}) \cup
                  {[t EXCEPT !.pc = "stream", !.lk = TRUE, !.sev = "reg"]}
    /\ UNCHANGED <<status, wrapped, parked, queues, history, left>>

\* an agent superstep drains the stash
Absorb(t) ==
    /\ t.pc = "stream" /\ stash[t.s] # {}
    /\ absorbed' = [absorbed EXCEPT ![t.s] = @ \cup UNION stash[t.s]]
    /\ EmptyStash(t.s)
    /\ UNCHANGED <<status, wrapped, tasks, registries, asking, pending, timer,
                   emitted, life, cut, left>>

\* a transient failure: the handler runs a nested _stream_graph on the
\* checkpoint, whose end is followed by the outer one's own finally
AutoRetry(t) ==
    /\ t.pc = "stream" /\ ~t.nested /\ ~StopSeen(t) /\ Spawning(t.s) = {}
    /\ Take("transient", t.s)
    /\ tasks' = (tasks \ {t}) \cup {[t EXCEPT !.nested = TRUE]}
    /\ UNCHANGED <<status, wrapped, registries, asking, queues, history>>

\* mutant: the park is not registered
InterruptUnparked(t) ==
    /\ t.pc = "stream" /\ ~StopSeen(t) /\ Spawning(t.s) = {}
    /\ Take("interrupt", t.s)
    /\ asking' = [asking EXCEPT ![t.s] = TRUE]
    /\ tasks' = (tasks \ {t}) \cup {[t EXCEPT !.pc = "drain"]}
    /\ UNCHANGED <<status, wrapped, registries, queues, history>>

\* permission / version / ask_user interrupt
Interrupt(t) ==
    /\ t.pc = "stream" /\ ~StopSeen(t) /\ Spawning(t.s) = {}
    /\ Take("interrupt", t.s)
    /\ parked' = [parked EXCEPT ![t.s] = TRUE]
    /\ asking' = [asking EXCEPT ![t.s] = TRUE]
    /\ tasks' = (tasks \ {t}) \cup {[t EXCEPT !.pc = "drain"]}
    /\ UNCHANGED <<status, wrapped, running, armed, queues, history>>

\* What follows a segment: the scheduler's turns run the completion gate
\* themselves, a socket turn spawns it as a task of its own.
AfterSegment(t, T, out) ==
    LET u == [t EXCEPT !.evt = Freeze(@, t.s), !.sev = "none", !.out = out] IN
    IF t.kind \in WsKind
    THEN /\ tasks' = T \cup
              {[NewTask("settle", t.s, "start") EXCEPT !.evt = u.evt, !.out = out]}
         /\ UNCHANGED <<status, wrapped>>
    ELSE LET v == [u EXCEPT !.lk = (t.kind = "wake")]
         IN  Gate(v, T, IF WsLive(T, t.s) THEN "drop"
                        ELSE Verdict(t.s, out, u.evt = "set"))

\* the segment ended by itself: answered, failed, or out of steps
StreamEnd(t, out) ==
    /\ Streaming(t) /\ ~StopSeen(t) /\ Spawning(t.s) = {}
    /\ IF out = "ok" THEN UNCHANGED left ELSE Take(out, t.s)
    /\ Disarm(t.s)
    /\ running' = [running EXCEPT ![t.s] = "none"]
    /\ parked' = [parked EXCEPT ![t.s] = FALSE]
    /\ EmptyStash(t.s)
    /\ AfterSegment(t, Detach(tasks \ {t}, t.s) \cup Redeliveries(t.s), out)
    /\ UNCHANGED <<asking, pending, timer, history>>

\* The user stopped the segment: the children its tools are creating are cut
\* off where they stand (or, detached, carry on), and on_turn_stopped
\* finalizes before the stash is reconciled.
StreamStop(t) ==
    /\ Streaming(t) /\ StopSeen(t)
    /\ Disarm(t.s)
    /\ running' = [running EXCEPT ![t.s] = "none"]
    /\ parked' = [parked EXCEPT ![t.s] = FALSE]
    /\ asking' = [asking EXCEPT ![t.s] = FALSE]
    /\ status' = IF Stoppable(t.s) THEN FinStatus(t.s, "stopped") ELSE status
    /\ \E C \in SUBSET Spawning(t.s) :
         LET u == [t EXCEPT !.evt = Freeze(@, t.s), !.sev = "none"] IN
         /\ tasks' = Detach(tasks \ ({t} \cup C), t.s) \cup
              IF Stoppable(t.s) THEN FinTask(u, "stopped", "seg")
              ELSE Return(u, "seg")
         /\ cut' = cut \cup {c.s : c \in C}
    /\ UNCHANGED <<wrapped, queues, absorbed, emitted, life, left>>

\* the rest of a stopped segment's finally
SegEnd(t) ==
    /\ t.pc = "seg"
    /\ Disarm(t.s)
    /\ EmptyStash(t.s)
    /\ LET T == Detach(tasks \ {t}, t.s) \cup Redeliveries(t.s) IN
       IF t.kind \notin WsKind /\ (parked[t.s] \/ running[t.s] # "none")
       THEN tasks' = T /\ UNCHANGED <<status, wrapped>>
       ELSE AfterSegment(t, T, "ok")
    /\ UNCHANGED <<running, parked, asking, pending, timer, history, left>>

\* The parked segment finished draining.  The turn stays registered unless
\* the park was already answered or stopped.
ParkEnd(t) ==
    /\ t.pc = "drain" /\ ~t.nested
    /\ Disarm(t.s)
    /\ running' = IF ~parked[t.s] /\ running[t.s] = Owner(t)
                     /\ t.kind \notin {"resume", "retry"}
                  THEN [running EXCEPT ![t.s] = "none"] ELSE running
    /\ LET T == Detach(tasks \ {t}, t.s) IN
       IF (parked[t.s] /\ t.kind # "invoke")
            \/ (t.kind \notin WsKind /\ running'[t.s] # "none")
       THEN tasks' = T /\ UNCHANGED <<status, wrapped, stash>>
       ELSE IF t.kind \in WsKind \/ WsLive(T, t.s)
       THEN AfterSegment(t, T, "ok") /\ UNCHANGED stash
       ELSE EmptyStash(t.s) /\ AfterSegment(t, T \cup Redeliveries(t.s), "ok")
    /\ UNCHANGED <<parked, asking, pending, timer, history, left>>

\* the completion gate of a socket turn
Settle(t) ==
    /\ t.kind = "settle" /\ t.pc = "start"
    /\ IF parked[t.s] \/ Busy(t.s)
       THEN /\ tasks' = tasks \ {t}
            /\ UNCHANGED <<status, wrapped, armed, stash>>
       ELSE /\ EmptyStash(t.s)
            /\ IF Stoppable(t.s)
               THEN /\ Disarm(t.s)
                    /\ Gate(t, Detach(tasks \ {t}, t.s) \cup Redeliveries(t.s),
                            Verdict(t.s, t.out, t.evt = "set"))
               ELSE /\ tasks' = (tasks \ {t}) \cup Redeliveries(t.s)
                    /\ UNCHANGED <<status, wrapped, armed>>
    /\ UNCHANGED <<running, parked, asking, pending, timer, history, left>>

\* _mark_waiting's broadcast returned
WaitPush(t) ==
    /\ t.pc = "wpush"
    /\ tasks' = tasks \ {t}
    /\ UNCHANGED <<status, wrapped, registries, asking, queues, history, left>>

----------------------------------------------------------------------------
(* Finalizing (_finalize_subagent) and reporting to the parent.            *)

\* the final report is read and compressed: patch the meta
FinReport(t) ==
    /\ t.pc = "report"
    /\ status' = [status EXCEPT ![t.s] = "done"]
    /\ tasks' = (tasks \ {t}) \cup {[t EXCEPT !.pc = "push"]}
    /\ UNCHANGED <<wrapped, registries, asking, queues, history, left>>

\* mutant: a stopped child wakes nobody
FinStoppedSilent(t) ==
    /\ t.pc = "push" /\ t.res = "stopped"
    /\ tasks' = (tasks \ {t}) \cup Return(t, t.ret)
    /\ UNCHANGED <<status, wrapped, registries, asking, queues, history, left>>

\* a stopped child injects nothing, but a waiting parent with no live
\* descendant left is woken to wrap up (_reevaluate_waiting_parent)
FinStopped(t) ==
    LET p == Parent[t.s] IN
    /\ t.pc = "push" /\ t.res = "stopped"
    /\ IF status[p] = "waiting" /\ LiveBelow(p) = {}
          /\ \E c \in Below(p) : status[c] \notin {"done", "failed"}
       THEN /\ tasks' = (tasks \ {t}) \cup Return(t, t.ret) \cup
                          {WakeTask(p, pending[p] \cup {<<t.s, 0>>}, FALSE)}
            /\ pending' = [pending EXCEPT ![p] = {}]
            /\ timer' = IF pending[p] = {} THEN timer ELSE timer \ {p}
       ELSE /\ tasks' = (tasks \ {t}) \cup Return(t, t.ret)
            /\ UNCHANGED <<pending, timer>>
    /\ UNCHANGED <<status, wrapped, registries, asking, stash, history, left>>

\* a result or a failure goes to the parent (_inject_result): dropped when
\* the parent is terminal, stashed when it is busy, else queued for a wake
FinInject(t) ==
    LET p   == Parent[t.s]
        tok == <<t.s, emitted[t.s] + 1>>
        T   == (tasks \ {t}) \cup Return(t, t.ret)
    IN
    /\ t.pc = "push" /\ t.res \in {"done", "failed"}
    /\ IF status[p] \in Terminal
       THEN tasks' = T /\ UNCHANGED <<queues, emitted>>
       ELSE /\ emitted' = [emitted EXCEPT ![t.s] = @ + 1]
            /\ IF Busy(p)
               THEN /\ stash' = [stash EXCEPT ![p] = @ \cup {{tok}}]
                    /\ tasks' = T
                    /\ UNCHANGED <<pending, timer>>
               ELSE /\ pending' = [pending EXCEPT ![p] = @ \cup {tok}]
                    /\ UNCHANGED stash
                    /\ IF p \in timer
                       THEN tasks' = T /\ UNCHANGED timer
                       ELSE IF Waking(p) \/ LiveBelow(p) # {}
                       THEN tasks' = T /\ timer' = timer \cup {p}
                       ELSE /\ tasks' = T \cup {NewTask("flush", p, "start")}
                            /\ UNCHANGED timer
    /\ UNCHANGED <<status, wrapped, registries, asking, absorbed, life, cut, left>>

\* _flush_injections(p), T beside it and `ticking' the timers that remain
Flush(p, T, ticking) ==
    IF Waking(p)
    THEN /\ timer' = ticking \cup {p}
         /\ tasks' = T
         /\ UNCHANGED <<pending, stash>>
    ELSE /\ timer' = ticking
         /\ pending' = [pending EXCEPT ![p] = {}]
         /\ IF pending[p] = {} \/ status[p] \in Terminal
            THEN tasks' = T /\ UNCHANGED stash
            ELSE IF Busy(p)
            THEN /\ stash' = [stash EXCEPT ![p] = @ \cup {{k} : k \in pending[p]}]
                 /\ tasks' = T
            ELSE tasks' = T \cup {WakeTask(p, pending[p], TRUE)} /\ UNCHANGED stash

FlushRun(t) ==
    /\ t.kind = "flush" /\ t.pc = "start"
    /\ Flush(t.s, tasks \ {t}, timer)
    /\ UNCHANGED <<status, wrapped, registries, asking, history, left>>

\* _injection_flush_timer
TimerFire(p) ==
    /\ p \in timer
    /\ Flush(p, tasks, timer \ {p})
    /\ UNCHANGED <<status, wrapped, registries, asking, history, left>>

----------------------------------------------------------------------------
(* The wake turn (_wake_parent_turn).                                      *)

\* the check before the turn lock
WakeRefused(t) ==
    /\ t.kind = "wake" /\ t.pc = "start"
    /\ status[t.s] \in Terminal
    /\ tasks' = tasks \ {t}
    /\ UNCHANGED <<status, wrapped, registries, asking, queues, history, left>>

\* mutant: a wake turn is not armed
WakeStreamUnarmed(t, T) ==
    /\ tasks' = T \cup {[t EXCEPT !.pc = "stream", !.lk = TRUE,
                                  !.evt = "reg", !.sev = "reg", !.toks = {}]}
    /\ absorbed' = [absorbed EXCEPT ![t.s] = @ \cup t.toks]
    /\ asking' = [asking EXCEPT ![t.s] = FALSE]
    /\ UNCHANGED armed

\* _run_managed_turn_locked begins streaming: the injected message is read
WakeStream(t, T) ==
    /\ Arm(t.s)
    /\ tasks' = T \cup {[t EXCEPT !.pc = "stream", !.lk = TRUE,
                                  !.evt = "reg", !.sev = "reg", !.toks = {}]}
    /\ absorbed' = [absorbed EXCEPT ![t.s] = @ \cup t.toks]
    /\ asking' = [asking EXCEPT ![t.s] = FALSE]

\* under the lock: refuse a dead or just stopped session, stash to a busy
\* one, else take the provisional busy marker and flip waiting -> running
WakeEnter(t) ==
    /\ t.kind = "wake" /\ t.pc = "start" /\ ~Locked(t.s)
    /\ IF t.s # Root /\ status[t.s] \notin Live
       THEN /\ tasks' = tasks \ {t}
            /\ UNCHANGED <<status, running, armed, stash, asking, absorbed>>
       ELSE IF armed[t.s] = "set"
       THEN /\ Disarm(t.s)
            /\ tasks' = Detach(tasks \ {t}, t.s)
            /\ UNCHANGED <<status, running, stash, asking, absorbed>>
       ELSE IF Busy(t.s) \/ parked[t.s]
       THEN /\ stash' = [stash EXCEPT ![t.s] = @ \cup {t.toks}]
            /\ tasks' = tasks \ {t}
            /\ UNCHANGED <<status, running, armed, asking, absorbed>>
       ELSE /\ running' = [running EXCEPT ![t.s] = "own"]
            /\ UNCHANGED stash
            /\ IF status[t.s] = "waiting"
               THEN /\ status' = [status EXCEPT ![t.s] = "running"]
                    /\ tasks' = (tasks \ {t}) \cup
                                  {[t EXCEPT !.pc = "flip", !.lk = TRUE]}
                    /\ UNCHANGED <<armed, asking, absorbed>>
               ELSE WakeStream(t, tasks \ {t}) /\ UNCHANGED status
    /\ UNCHANGED <<wrapped, parked, pending, timer, emitted, life, cut, left>>

\* the flip was broadcast: a stop that landed meanwhile refuses the turn
WakeFlipped(t) ==
    /\ t.pc = "flip"
    /\ IF armed[t.s] = "set"
       THEN /\ Disarm(t.s)
            /\ status' = IF Stoppable(t.s) THEN FinStatus(t.s, "stopped")
                         ELSE status
            /\ tasks' = Detach(tasks \ {t}, t.s) \cup
                 IF Stoppable(t.s) THEN FinTask(t, "stopped", "unmark")
                 ELSE Return(t, "unmark")
            /\ UNCHANGED <<running, asking, absorbed>>
       ELSE /\ running' = [running EXCEPT ![t.s] = "own"]
            /\ WakeStream(t, tasks \ {t})
            /\ UNCHANGED status
    /\ UNCHANGED <<wrapped, parked, queues, emitted, life, cut, left>>

Unmark(t) ==
    /\ t.pc = "unmark"
    /\ running' = IF running[t.s] = "own" THEN [running EXCEPT ![t.s] = "none"]
                  ELSE running
    /\ tasks' = tasks \ {t}
    /\ UNCHANGED <<status, wrapped, parked, asking, armed, queues, history, left>>

----------------------------------------------------------------------------
(* The user, through the session socket (api/stream/ws.py).                *)

Invoke(s) ==
    /\ status[s] # "none"
    /\ ~WsLive(tasks, s) /\ ~Managed(s)
    /\ Take("invoke", s)
    /\ Arm(s)
    /\ running' = [running EXCEPT ![s] = "ws"]
    /\ tasks' = Unlist(tasks, s) \cup
         {[NewTask("invoke", s, "queued") EXCEPT !.evt = "reg", !.listed = TRUE]}
    /\ UNCHANGED <<status, wrapped, parked, asking, queues, history>>

\* resume_pending_interrupt: the answer of a permission or question card
Answer(s) ==
    /\ parked[s]
    /\ parked' = [parked EXCEPT ![s] = FALSE]
    /\ Arm(s)
    /\ tasks' = Unlist(tasks, s) \cup
         {[NewTask("resume", s, "queued") EXCEPT !.evt = "reg", !.listed = TRUE]}
    /\ UNCHANGED <<status, wrapped, running, asking, queues, history, left>>

\* the stop button: cascade below a subagent, heal a parked turn, or set the
\* event of a live one
Stop(s) ==
    /\ status[s] # "none"
    /\ Take("stop", s)
    /\ LET below == IF s = Root THEN {}
                    ELSE {NewTask("cascade", s, "start"),
                          NewTask("stopif", s, "start")}
       IN IF parked[s]
          THEN /\ parked' = [parked EXCEPT ![s] = FALSE]
               /\ running' = [running EXCEPT ![s] = "none"]
               /\ tasks' = tasks \cup below \cup {NewTask("heal", s, "heal")}
               /\ UNCHANGED armed
          ELSE /\ armed' = IF Busy(s) THEN [armed EXCEPT ![s] = "set"] ELSE armed
               /\ tasks' = tasks \cup below
               /\ UNCHANGED <<parked, running>>
    /\ UNCHANGED <<status, wrapped, asking, queues, history>>

\* retry_from_checkpoint on the error card of a failed subagent
Retry(s) ==
    /\ status[s] = "failed" /\ ~WsLive(tasks, s)
    /\ Take("retry", s)
    /\ status' = [status EXCEPT ![s] = "running"]
    /\ life' = [life EXCEPT ![s] = @ + 1]
    /\ tasks' = tasks \cup {NewTask("retry", s, "rpush")}
    /\ UNCHANGED <<wrapped, registries, asking, queues, absorbed, emitted, cut>>

RetryGo(t) ==
    /\ t.pc = "rpush"
    /\ Arm(t.s)
    /\ tasks' = Unlist(tasks \ {t}, t.s) \cup
         {[t EXCEPT !.pc = "queued", !.evt = "reg", !.listed = TRUE]}
    /\ UNCHANGED <<status, wrapped, running, parked, asking, queues, history,
                   left>>

----------------------------------------------------------------------------
(* Stopping (stop_subagent_tree, on_stop_if_waiting, _stop_parked_turn).   *)

\* on_stop_if_waiting, under the turn lock
StopIfWaiting(t) ==
    /\ t.kind = "stopif" /\ t.pc = "start" /\ ~Locked(t.s)
    /\ IF Busy(t.s) \/ status[t.s] # "waiting"
       THEN tasks' = tasks \ {t} /\ UNCHANGED status
       ELSE /\ status' = FinStatus(t.s, "stopped")
            /\ tasks' = (tasks \ {t}) \cup
                          FinTask([t EXCEPT !.lk = TRUE], "stopped", "end")
    /\ UNCHANGED <<wrapped, registries, asking, queues, history, left>>

\* the sessions a cascade still has to visit, those among them it will await
\* at, and the stop events it sets without suspending
ToVisit(t) == IF t.pc = "start" THEN Below(t.s) ELSE t.todo
Idle(x) == status[x] \in Live /\ armed[x] = "none" /\ ~Busy(x)
AwaitsAt(t) == {x \in ToVisit(t) : parked[x] \/ Idle(x)}
Signal(S) == armed' = [s \in Session |->
    IF s \in S /\ (armed[s] # "none" \/ status[s] \in Live)
    THEN "set" ELSE armed[s]]
AtCascade(t) == t.kind = "cascade" /\ t.pc \in {"start", "walk"}

CascadeEnd(t) ==
    /\ AtCascade(t) /\ AwaitsAt(t) = {}
    /\ Signal(ToVisit(t))
    /\ tasks' = tasks \ {t}
    /\ UNCHANGED <<status, wrapped, running, parked, asking, queues, history,
                   left>>

\* a parked descendant: unpark, then heal and finalize it here
CascadeParked(t) ==
    /\ AtCascade(t)
    /\ \E x \in AwaitsAt(t), S \in SUBSET (ToVisit(t) \ AwaitsAt(t)) :
         /\ parked[x]
         /\ Signal(S \cup {x})
         /\ parked' = [parked EXCEPT ![x] = FALSE]
         /\ running' = [running EXCEPT ![x] = "none"]
         /\ tasks' = (tasks \ {t}) \cup
              {[t EXCEPT !.s = x, !.pc = "heal",
                         !.todo = ToVisit(t) \ (S \cup {x})]}
    /\ UNCHANGED <<status, wrapped, asking, queues, history, left>>

\* a descendant with no turn: finalize it directly
CascadeIdle(t) ==
    /\ AtCascade(t)
    /\ \E x \in AwaitsAt(t), S \in SUBSET (ToVisit(t) \ AwaitsAt(t)) :
         /\ ~parked[x]
         /\ Signal(S)
         /\ status' = FinStatus(x, "stopped")
         /\ tasks' = (tasks \ {t}) \cup
              FinTask([t EXCEPT !.s = x, !.todo = ToVisit(t) \ (S \cup {x})],
                      "stopped", "walk")
    /\ UNCHANGED <<wrapped, running, parked, asking, queues, history, left>>

\* _stop_parked_turn heals the checkpoint under the turn lock
HealLocked(t) ==
    /\ t.pc = "heal" /\ ~Locked(t.s)
    /\ asking' = [asking EXCEPT ![t.s] = FALSE]
    /\ tasks' = (tasks \ {t}) \cup {[t EXCEPT !.pc = "bcast"]}
    /\ UNCHANGED <<status, wrapped, registries, queues, history, left>>

\* turn.stopped was broadcast: on_turn_stopped
HealStop(t) ==
    /\ t.pc = "bcast"
    /\ IF Stoppable(t.s)
       THEN /\ Disarm(t.s)
            /\ status' = FinStatus(t.s, "stopped")
            /\ tasks' = Detach(tasks \ {t}, t.s) \cup FinTask(t, "stopped", "tail")
       ELSE /\ tasks' = (tasks \ {t}) \cup Return(t, "tail")
            /\ UNCHANGED <<status, armed>>
    /\ UNCHANGED <<wrapped, running, parked, asking, queues, history, left>>

\* then the stash is reconciled and a cascade goes on to the next session
HealTail(t) ==
    /\ t.pc = "tail"
    /\ EmptyStash(t.s)
    /\ tasks' = (tasks \ {t}) \cup Redeliveries(t.s) \cup
         IF t.kind = "cascade" THEN {[t EXCEPT !.pc = "walk"]} ELSE {}
    /\ UNCHANGED <<status, wrapped, registries, asking, pending, timer, history,
                   left>>

----------------------------------------------------------------------------
(* The process dies and starts again (reconcile_orphan_subagents).         *)

Restart ==
    /\ Take("restart", Root)
    /\ status' = [s \in Session |-> IF status[s] \in Live THEN "stopped"
                                    ELSE status[s]]
    /\ tasks' = {}
    /\ running' = [s \in Session |-> "none"]
    /\ parked' = [s \in Session |-> FALSE]
    /\ armed' = [s \in Session |-> "none"]
    /\ stash' = [s \in Session |-> {}]
    /\ pending' = [s \in Session |-> {}]
    /\ timer' = {}
    /\ absorbed' = [s \in Session |-> {}]
    /\ emitted' = [s \in Session |-> 0]
    /\ life' = [s \in Session |-> 0]
    /\ cut' = {}
    /\ UNCHANGED <<wrapped, asking>>

----------------------------------------------------------------------------

TurnStep(t) ==
    \/ BriefStart(t) \/ StartTurn(t) \/ Absorb(t)
    \/ StreamEnd(t, "ok") \/ StreamStop(t) \/ SegEnd(t) \/ ParkEnd(t)
    \/ Settle(t) \/ WaitPush(t)

ReportStep(t) ==
    \/ FinReport(t) \/ FinStopped(t) \/ FinInject(t) \/ FlushRun(t)
    \/ WakeRefused(t) \/ WakeEnter(t) \/ WakeFlipped(t) \/ Unmark(t)

StopStep(t) ==
    \/ StopIfWaiting(t) \/ CascadeEnd(t) \/ CascadeParked(t) \/ CascadeIdle(t)
    \/ HealLocked(t) \/ HealStop(t) \/ HealTail(t)

\* what the event loop runs without anybody's help
System ==
    \/ \E t \in tasks : \/ SpawnArm(t) \/ SpawnLaunch(t) \/ RetryGo(t)
                        \/ TurnStep(t) \/ ReportStep(t) \/ StopStep(t)
    \/ \E p \in Session : TimerFire(p)

\* the model, the provider, the user and the operating system
Outside ==
    \/ \E c \in Subagent : SpawnCreate(c)
    \/ \E t \in tasks : \/ AutoRetry(t) \/ Interrupt(t)
                        \/ StreamEnd(t, "error") \/ StreamEnd(t, "recursion")
    \/ \E s \in Session : Invoke(s) \/ Answer(s) \/ Stop(s) \/ Retry(s)
    \/ Restart

Next == System \/ Outside

Spec == Init /\ [][Next]_vars

\* The event loop keeps running ready tasks, a model stream ends (the stall
\* watchdog of chunked_stream sees to it), and nothing is asked of the user.
FairSpec == Spec /\ WF_vars(System)

----------------------------------------------------------------------------
(* What the scheduler promises.                                            *)

Settled == tasks = {} /\ timer = {}

\* One report per life (subagent-design.md 5.6): however many gates, wakes
\* and stops race, a subagent injects at most one result or failure, and one
\* more for every revival of a failed one.  _FINALIZING exists for this.
ReportOnce == \A c \in Subagent : emitted[c] <= life[c] + 1

\* where a report to p can be
Held(p) == (UNION stash[p]) \cup pending[p] \cup absorbed[p] \cup
             UNION {t.toks : t \in {u \in tasks : u.s = p}}

\* An injected report is never dropped while its parent can still use it: it
\* is stashed, queued, riding a wake turn, or read.  The steer stash is
\* cleared after every segment and has no sender to repeat it, so this is
\* what the reconciliation (reconcile.py) has to guarantee.
ReportsHeld == \A c \in Subagent : \A n \in 1 .. emitted[c] :
    status[Parent[c]] \in Terminal \/ <<c, n>> \in Held(Parent[c])

\* Nobody waits for ever: once no coroutine is left, a subagent that is not
\* finished is parked at a question, or waits for a descendant that is.
\* (Children that a stop cut off in the middle of create_subagent are the
\* exception the run zombie_child shows.)
NoneStranded == Settled => \A s \in Subagent : status[s] \in Live =>
    \/ parked[s]
    \/ s \in cut
    \/ status[s] = "waiting" /\ LiveBelow(s) # {}

\* A question the checkpoint holds can be answered: the session is still
\* parked, or a turn or a heal that will consume the interrupt is under way.
ParkAnswerable == \A s \in Session : asking[s] =>
    \/ parked[s]
    \/ \E t \in tasks : t.s = s /\ (t.pc \in {"queued", "heal"} \/ t.kind = "wake")

\* A stop event is never left set for an idle session, where it would kill
\* the next turn (server_shared.py, _TURN_STOP).
NoStopLeft == Settled => \A s \in Session : armed[s] = "set" => s \in cut

\* The stop button reaches a streaming turn: the turn is in a busy registry
\* and waits on the very event the registry holds.
StopReachesTurn == \A t \in tasks : t.pc = "stream" =>
    Busy(t.s) /\ armed[t.s] # "none" /\ t.sev = "reg"

\* A terminal status is final, except that a retry revives a failed subagent:
\* no late wake, gate, heal or cascade ever moves a finished session.
TerminalFinal == [][\A s \in Subagent : status[s] \in Terminal =>
    status'[s] = status[s]
      \/ (status[s] = "failed" /\ status'[s] = "running" /\ life'[s] = life[s] + 1)
  ]_vars

\* Completion (subagent-design.md 5.6): a subagent that becomes done has read
\* the report of every finished child, so its own report can contain them.
DoneHasReports == [][\A s \in Subagent :
    status[s] \in Live /\ status'[s] = "done" =>
      \A c \in Subagent : Parent[c] = s /\ status[c] \in {"done", "failed"} =>
        emitted[c] > 0 /\ <<c, emitted[c]>> \in absorbed[s]]_vars

\* A waiting subagent with no live descendant left is woken (5.6, at any
\* depth), also when nothing was cut off.
AncestorsWoken == Settled /\ cut = {} => \A s \in Subagent :
    status[s] = "waiting" => LiveBelow(s) # {}

\* The stop cascade leaves no meta running or waiting under a stopped
\* ancestor (stop.py, stop_subagent_tree).
NoneLiveUnderStopped == Settled =>
    \A s \in Subagent : status[s] = "stopped" => LiveBelow(s) = {}

\* Everything ends: unless it was parked and never answered, every subagent
\* that runs or waits reaches a terminal status.
EveryoneSettles == \A s \in Subagent :
    status[s] \in Live ~> (status[s] \in Terminal \/ s \in cut)

\* Every report is read by its parent, or the parent was finished without it.
ReportsArrive == \A c \in Subagent :
    emitted[c] = 1 ~> (<<c, 1>> \in absorbed[Parent[c]]
                         \/ status[Parent[c]] \in Terminal)

\* The meta and the reports follow SubagentLifecycle.
Lifecycle == INSTANCE SubagentLifecycle WITH reports <- emitted
FollowsLifecycle == Lifecycle!Spec

=============================================================================
