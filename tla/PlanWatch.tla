----------------------------- MODULE PlanWatch -----------------------------
(***************************************************************************)
(* A task list and its watcher (plans/watcher.py, plans/store.py, and the  *)
(* calls of tools/plan_tools.py, api/plans.py and server.py).              *)
(*                                                                         *)
(* The watcher is one background task per session.  A pass writes back the *)
(* ends of the children, then launches the items that are ready, one await *)
(* per launch, from a list it took before the first of them; the list may  *)
(* be amended or cancelled meanwhile.  What it has written it notes in a   *)
(* buffer, which a timer injects into the conversation.                    *)
(*                                                                         *)
(* One plan of one session, whose items subagents carry out; a delegation  *)
(* is launched without an await and is left out.  The plan object is the   *)
(* one in the store's cache, so what a request changes the watcher sees.   *)
(* Times are left out: the watcher may wake, and the timer fire, whenever. *)
(***************************************************************************)
EXTENDS Naturals

CONSTANTS
    PwItems,    \* item ids
    PwKids,     \* children that may exist, numbered as they are made (a bound)
    PwNone,     \* no child, no item
    PwDepends,  \* the dependencies a plan may have: sets of <<item, item it needs>>
    PwLives,    \* times an item is added or reset (a bound)
    PwCases     \* what may happen: sets of "amend", "cancel", "confirm", "revive",
                \* "limit", "error", "restart"

ASSUME PwDistinct == PwNone \notin PwItems \cup PwKids
ASSUME PwNumbers == PwLives \in Nat /\ PwKids \subseteq Nat

VARIABLES
    pwMay,
    pwPlan,     \* the plan's status
    pwItem,     \* the items' statuses; "gone" where there is no such item
    pwNeeds,    \* depends_on
    pwChild,    \* child_session_id
    pwLife,     \* which life of its item this is, counting additions and resets
    pwKid,      \* the children: state, the item and the life they were launched for
    pwWatch,    \* the watcher: "none", "rest", "due", "launch"
    pwTodo,     \* items it still means to launch, as it read them
    pwMaking,   \* the child create_subagent is making
    pwChanged,  \* the pass has written something
    pwNotes,    \* _PENDING_FLUSH: <<"settled" | "failed", item, child>>
    pwTimer     \* a flush is scheduled

pwStore == <<pwPlan, pwItem, pwNeeds, pwChild, pwLife>>
pwPass == <<pwWatch, pwTodo, pwMaking, pwChanged>>
pwBuffer == <<pwNotes, pwTimer>>
pwVars == <<pwMay, pwStore, pwKid, pwPass, pwBuffer>>

PwTerminal == {"done", "failed", "stopped"}
PwOpen == {"active", "pending_confirm"}
PwIdle == [state |-> "none", item |-> PwNone, life |-> 0]
PwPut(k, state) == pwKid' = [pwKid EXCEPT ![k].state = state]

\* a plan whose items, those there are, have all ended
PwAllEnded(item) == \A i \in PwItems : item[i] \in PwTerminal \cup {"gone"}
\* _mutate's verdict
PwJudged(item) == IF pwPlan = "active" /\ PwAllEnded(item) THEN "completed" ELSE pwPlan

\* ready_items
PwReady(item) ==
    {i \in PwItems : item[i] = "pending" /\ \A n \in PwItems : <<i, n>> \in pwNeeds => item[n] = "done"}

\* notify_change, ensure_watcher
PwNotify == pwWatch' = IF pwWatch = "none" THEN "due" ELSE pwWatch

PwInit ==
    /\ pwMay \in PwCases /\ pwNeeds \in PwDepends
    /\ pwPlan \in IF "confirm" \in pwMay THEN {"pending_confirm"} ELSE {"active"}
    /\ pwItem = [i \in PwItems |-> "pending"] /\ pwChild = [i \in PwItems |-> PwNone]
    /\ pwLife = [i \in PwItems |-> 0] /\ pwKid = [k \in PwKids |-> PwIdle]
    /\ pwWatch = "due" /\ pwTodo = {} /\ pwMaking = PwNone /\ pwChanged = FALSE
    /\ pwNotes = {} /\ pwTimer = FALSE
-----------------------------------------------------------------------------
(* The watcher.                                                            *)

PwWake ==
    /\ pwWatch = "rest" /\ pwWatch' = "due"
    /\ UNCHANGED <<pwMay, pwStore, pwKid, pwTodo, pwMaking, pwChanged, pwBuffer>>

\* nothing to watch, or a plan that waits for the user
PwIdlePass ==
    /\ pwWatch = "due" /\ pwPlan # "active"
    /\ pwWatch' = IF pwPlan \in PwOpen THEN "rest" ELSE "none"
    /\ UNCHANGED <<pwMay, pwStore, pwKid, pwTodo, pwMaking, pwChanged, pwBuffer>>

\* the running items whose child has ended
PwEnded == {i \in PwItems : pwItem[i] = "running" /\ pwKid[pwChild[i]].state \in PwTerminal}

\* _reconcile up to the first launch
PwSettle ==
    LET item == [i \in PwItems |-> IF i \in PwEnded THEN pwKid[pwChild[i]].state ELSE pwItem[i]]
    IN  /\ pwWatch = "due" /\ pwPlan = "active"
        /\ pwItem' = item
        /\ pwPlan' = IF PwEnded = {} THEN pwPlan ELSE PwJudged(item)
        /\ pwNotes' = pwNotes \cup {<<"settled", i, pwChild[i]>> : i \in PwEnded}
        /\ pwChanged' = (PwEnded # {})
        /\ pwTodo' = IF pwPlan' = "active" THEN {<<i, pwLife[i]>> : i \in PwReady(item)} ELSE {}
        /\ pwWatch' = "launch"
        /\ UNCHANGED <<pwMay, pwNeeds, pwChild, pwLife, pwKid, pwMaking, pwTimer>>

PwLaunchOnly == UNCHANGED <<pwMay, pwNeeds, pwLife, pwTimer>>

\* _launch_item calls create_subagent for an item as the pass has read it
PwLaunch(k) ==
    /\ pwWatch = "launch" /\ pwMaking = PwNone
    /\ pwKid[k] = PwIdle /\ \A l \in PwKids : l < k => pwKid[l] # PwIdle
    /\ \E t \in pwTodo :
         /\ pwTodo' = pwTodo \ {t}
         /\ pwKid' = [pwKid EXCEPT ![k] = [state |-> "making", item |-> t[1], life |-> t[2]]]
    /\ pwMaking' = k
    /\ UNCHANGED <<pwPlan, pwItem, pwChild, pwWatch, pwChanged, pwNotes>> /\ PwLaunchOnly

\* it returns a child, which mark_running records where the item is
\* pending; it is a stray where the item was removed or dropped meanwhile
PwLaunched(k) ==
    LET i == pwKid[k].item
    IN  /\ pwMaking = k /\ pwMaking' = PwNone
        /\ IF pwItem[i] = "pending"
           THEN /\ PwPut(k, "live") /\ pwItem' = [pwItem EXCEPT ![i] = "running"]
                /\ pwChild' = [pwChild EXCEPT ![i] = k] /\ pwChanged' = TRUE
           ELSE PwPut(k, "stray") /\ UNCHANGED <<pwItem, pwChild, pwChanged>>
        /\ UNCHANGED <<pwPlan, pwWatch, pwTodo, pwNotes>> /\ PwLaunchOnly

\* it returns that there are too many: enough for this pass
PwLimit(k) ==
    /\ "limit" \in pwMay /\ pwMaking = k /\ pwMaking' = PwNone
    /\ pwKid' = [pwKid EXCEPT ![k] = PwIdle] /\ pwTodo' = {}
    /\ UNCHANGED <<pwPlan, pwItem, pwChild, pwWatch, pwChanged, pwNotes>> /\ PwLaunchOnly

\* it returns an error: fail_item asks for no status, and the pass counts nothing
PwFailed(k) ==
    LET i == pwKid[k].item
        item == [pwItem EXCEPT ![i] = "failed"]
    IN  /\ "error" \in pwMay /\ pwMaking = k /\ pwMaking' = PwNone
        /\ pwKid' = [pwKid EXCEPT ![k] = PwIdle]
        /\ IF pwItem[i] = "gone"
           THEN UNCHANGED <<pwPlan, pwItem, pwNotes>>
           ELSE /\ pwItem' = item /\ pwPlan' = PwJudged(item)
                /\ pwNotes' = pwNotes \cup {<<"failed", i, PwNone>>}
        /\ UNCHANGED <<pwChild, pwWatch, pwTodo, pwChanged>> /\ PwLaunchOnly

\* mutant: what completes the plan is not flushed
PwPassEndSilent ==
    /\ pwWatch = "launch" /\ pwMaking = PwNone /\ pwTodo = {}
    /\ pwTimer' = (pwTimer \/ (pwChanged /\ pwPlan = "active"))
    /\ pwChanged' = FALSE /\ pwWatch' = "rest"
    /\ UNCHANGED <<pwMay, pwStore, pwKid, pwTodo, pwMaking, pwNotes>>

\* the rest of the pass: a plan cancelled in its course has its children
\* stopped, and what was written is flushed
PwPassEnd ==
    /\ pwWatch = "launch" /\ pwMaking = PwNone /\ pwTodo = {}
    /\ pwKid' = [k \in PwKids |->
                   IF /\ pwPlan = "cancelled" /\ pwKid[k].state = "live"
                      /\ \E i \in PwItems : pwItem[i] = "running" /\ pwChild[i] = k
                   THEN [pwKid[k] EXCEPT !.state = "stopping"] ELSE pwKid[k]]
    /\ pwTimer' = (pwTimer \/ pwChanged)
    /\ pwChanged' = FALSE /\ pwWatch' = "rest"
    /\ UNCHANGED <<pwMay, pwStore, pwTodo, pwMaking, pwNotes>>

\* _do_flush hands the notes to the injection
PwFlush ==
    /\ pwTimer /\ pwTimer' = FALSE /\ pwNotes' = {}
    /\ UNCHANGED <<pwMay, pwStore, pwKid, pwPass>>
-----------------------------------------------------------------------------
(* The children, the requests and the process.                             *)

PwEnds(k) ==
    /\ pwKid[k].state \in {"live", "stray", "stopping"}
    /\ \E state \in PwTerminal : PwPut(k, state)
    /\ UNCHANGED <<pwMay, pwStore, pwPass, pwBuffer>>

\* the user retries a child that failed
PwRevive(k) ==
    /\ "revive" \in pwMay /\ pwKid[k].state = "failed" /\ PwPut(k, "live")
    /\ UNCHANGED <<pwMay, pwStore, pwPass, pwBuffer>>

PwRequestOnly == UNCHANGED <<pwMay, pwKid, pwTodo, pwMaking, pwChanged, pwBuffer>>

\* every turn of the conversation makes sure of the watcher
PwTurn ==
    /\ pwWatch = "none" /\ PwNotify
    /\ UNCHANGED pwStore /\ PwRequestOnly

PwConfirm ==
    /\ pwPlan = "pending_confirm" /\ pwPlan' = "active" /\ PwNotify
    /\ UNCHANGED <<pwItem, pwNeeds, pwChild, pwLife>> /\ PwRequestOnly

\* items that have not started are stopped
PwDropped == [i \in PwItems |-> IF pwItem[i] = "pending" THEN "stopped" ELSE pwItem[i]]

PwCancel ==
    /\ "cancel" \in pwMay /\ pwPlan \in PwOpen
    /\ pwPlan' = "cancelled" /\ pwItem' = PwDropped /\ PwNotify
    /\ UNCHANGED <<pwNeeds, pwChild, pwLife>> /\ PwRequestOnly

PwAmends == "amend" \in pwMay /\ pwPlan \in PwOpen /\ PwNotify /\ UNCHANGED pwPlan /\ PwRequestOnly

PwRemove(i) ==
    /\ PwAmends /\ pwItem[i] \notin {"running", "gone"}
    /\ pwItem' = [pwItem EXCEPT ![i] = "gone"]
    /\ pwChild' = [pwChild EXCEPT ![i] = PwNone]
    /\ pwNeeds' = {d \in pwNeeds : d[2] # i}
    /\ UNCHANGED pwLife

\* mutant: a running item is reset too
PwRenewAny(i) ==
    /\ PwAmends /\ pwLife[i] < PwLives
    /\ pwItem' = [pwItem EXCEPT ![i] = "pending"]
    /\ pwChild' = [pwChild EXCEPT ![i] = PwNone]
    /\ pwLife' = [pwLife EXCEPT ![i] = @ + 1]
    /\ UNCHANGED pwNeeds

\* a new item may take the id of a removed one; a reset keeps the item
PwRenew(i) ==
    /\ PwAmends /\ pwItem[i] # "running" /\ pwLife[i] < PwLives
    /\ pwItem' = [pwItem EXCEPT ![i] = "pending"]
    /\ pwChild' = [pwChild EXCEPT ![i] = PwNone]
    /\ pwNeeds' = IF pwItem[i] = "gone" THEN {d \in pwNeeds : d[1] # i} ELSE pwNeeds
    /\ pwLife' = [pwLife EXCEPT ![i] = @ + 1]

\* the process dies and starts: children are stopped, one that was being made is
\* nobody's, the buffer is lost; an active plan is watched again or, by the
\* user's setting, cancelled
PwRestart ==
    /\ "restart" \in pwMay
    /\ pwKid' = [k \in PwKids |->
                   IF k = pwMaking THEN [state |-> "stopped", item |-> PwNone, life |-> 0]
                   ELSE IF pwKid[k].state \in {"live", "stray", "stopping"}
                   THEN [pwKid[k] EXCEPT !.state = "stopped"] ELSE pwKid[k]]
    /\ pwTodo' = {} /\ pwMaking' = PwNone /\ pwChanged' = FALSE
    /\ pwNotes' = {} /\ pwTimer' = FALSE
    /\ \/ /\ pwWatch' = IF pwPlan = "active" THEN "due" ELSE "none"
          /\ UNCHANGED <<pwPlan, pwItem>>
       \/ /\ pwPlan = "active" /\ pwPlan' = "cancelled" /\ pwItem' = PwDropped
          /\ pwWatch' = "none"
    /\ UNCHANGED <<pwMay, pwNeeds, pwChild, pwLife>>

PwNext ==
    \/ PwWake \/ PwIdlePass \/ PwSettle \/ PwPassEnd \/ PwFlush
    \/ \E k \in PwKids : PwLaunch(k) \/ PwLaunched(k) \/ PwLimit(k) \/ PwFailed(k) \/ PwEnds(k)
                         \/ PwRevive(k)
    \/ PwTurn \/ PwConfirm \/ PwCancel \/ PwRestart
    \/ \E i \in PwItems : PwRemove(i) \/ PwRenew(i)

PwSpec == PwInit /\ [][PwNext]_pwVars
-----------------------------------------------------------------------------
\* Two children of one item are never at work together, and one life of an
\* item has one child: it is launched again only after it was reset, and reset
\* only after its child has ended.  Outside stand strays, children the user
\* revives by hand, and a launch the process died in.
PwOneChild ==
    \A k, l \in PwKids :
        k # l /\ pwKid[k].item # PwNone /\ pwKid[k].item = pwKid[l].item =>
            /\ pwKid[k].life # pwKid[l].life
            /\ "revive" \notin pwMay =>
                 {pwKid[k].state, pwKid[l].state} \cap (PwTerminal \cup {"stray"}) # {}

\* The end of a child that was written into the list is on its way into the
\* conversation: a flush is scheduled, or the pass that will schedule it runs.
PwEndsTold ==
    (\E n \in pwNotes : n[1] = "settled") => pwTimer \/ (pwChanged /\ pwWatch = "launch")

\* A cancelled list leaves no child of a running item unsignalled once the
\* watcher has left (tools/plan_tools.py, plans/store.py).  It does not hold: a
\* cancel while the watcher sleeps makes it leave without a pass.
PwCancelReaches ==
    pwPlan = "cancelled" /\ pwWatch = "none" =>
        \A i \in PwItems : pwItem[i] = "running" => pwKid[pwChild[i]].state # "live"
=============================================================================
