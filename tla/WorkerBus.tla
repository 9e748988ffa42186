----------------------------- MODULE WorkerBus -----------------------------
(***************************************************************************)
(* Subscriptions to one worker session (worker_bus/watch.py), with the     *)
(* places that call them: the finalizer and the settle hook of             *)
(* subagent_scheduler/gate.py and the start-up of server.py.               *)
(*                                                                         *)
(* Subscribers are kept in the target's meta.  A terminal subscription is  *)
(* taken out when its notice is sent, and from then on the notice is only  *)
(* in memory until a turn of the subscriber reads it.  The hook of a       *)
(* settled turn reads the same list, waits for the last answer of the      *)
(* session, and writes the list back.                                      *)
(*                                                                         *)
(* The target is a subagent, no subscriber is an ancestor of it, and the   *)
(* pipeline that carries a notice is that of SubagentScheduler.            *)
(***************************************************************************)
EXTENDS Naturals, FiniteSets

CONSTANTS
    WbSubscribers,
    WbCap,      \* SUBSCRIBER_CAP
    WbCases,    \* what may happen, one set per case: "digest", "crash", "retry"
    WbWatches,  \* times a subscriber watches (a bound)
    WbTurns     \* turns of the target that settle (a bound)

ASSUME WbNumbers == WbCap \in Nat /\ WbWatches \in Nat /\ WbTurns \in Nat

VARIABLES
    wbMay,
    wbEnded,    \* the target's status is terminal
    wbMeta,     \* the subscribers in its meta
    wbDue,      \* notify_settled was spawned and has not run
    wbHook,     \* the hook waits for the last answer
    wbRead,     \* the subscribers it has read
    wbCarry,    \* notices in memory, per subscriber
    wbAsked,    \* history: watches accepted, per subscriber
    wbTold,     \* history: notices read, per subscriber
    wbLeft,     \* turns that may still settle
    wbCrashed

wbHistory == <<wbAsked, wbTold>>
wbVars == <<wbMay, wbEnded, wbMeta, wbDue, wbHook, wbRead, wbCarry, wbHistory, wbLeft, wbCrashed>>

WbEntry(s, want) == [who |-> s, want |-> want]
WbOf(subs, want) == {s \in subs : s.want = want}
WbWaiting(subs) == {s.who : s \in WbOf(subs, "terminal")}

WbInit ==
    /\ wbMay \in WbCases
    /\ wbEnded = FALSE /\ wbMeta = {} /\ wbDue = FALSE
    /\ wbHook = FALSE /\ wbRead = {} /\ wbCarry = [s \in WbSubscribers |-> 0]
    /\ wbAsked = [s \in WbSubscribers |-> 0] /\ wbTold = [s \in WbSubscribers |-> 0]
    /\ wbLeft = WbTurns /\ wbCrashed = FALSE

\* watch_worker: a target that has ended answers at once
WbWatch(s) ==
    /\ wbAsked[s] < WbWatches
    /\ IF wbEnded
       THEN /\ wbAsked' = [wbAsked EXCEPT ![s] = @ + 1]
            /\ wbTold' = [wbTold EXCEPT ![s] = @ + 1]
            /\ UNCHANGED wbMeta
       ELSE LET kept == wbMeta \ {WbEntry(s, "terminal")} IN
            /\ Cardinality(kept) + 1 <= WbCap
            /\ wbMeta' = kept \cup {WbEntry(s, "terminal")}
            /\ wbAsked' = IF WbEntry(s, "terminal") \in wbMeta THEN wbAsked
                          ELSE [wbAsked EXCEPT ![s] = @ + 1]
            /\ UNCHANGED wbTold
    /\ UNCHANGED <<wbMay, wbEnded, wbDue, wbHook, wbRead, wbCarry, wbLeft, wbCrashed>>

WbWatchDigest(s) ==
    /\ "digest" \in wbMay /\ Cardinality(wbMeta \ {WbEntry(s, "digest")}) + 1 <= WbCap
    /\ wbMeta' = wbMeta \cup {WbEntry(s, "digest")}
    /\ UNCHANGED <<wbMay, wbEnded, wbDue, wbHook, wbRead, wbCarry, wbHistory, wbLeft, wbCrashed>>

\* on_turn_settled_hook up to its await, and the write after it
WbHookRead ==
    /\ ~wbHook /\ wbLeft > 0 /\ WbOf(wbMeta, "digest") # {}
    /\ wbHook' = TRUE /\ wbRead' = wbMeta /\ wbLeft' = wbLeft - 1
    /\ UNCHANGED <<wbMay, wbEnded, wbMeta, wbDue, wbCarry, wbHistory, wbCrashed>>
WbHookWrite ==
    /\ wbHook /\ wbHook' = FALSE /\ wbMeta' \in {wbRead, wbMeta} /\ wbRead' = {}
    /\ UNCHANGED <<wbMay, wbEnded, wbDue, wbCarry, wbHistory, wbLeft, wbCrashed>>

\* _finalize_subagent_locked, up to the end of its awaits
WbEnd ==
    /\ ~wbEnded /\ wbEnded' = TRUE /\ wbDue' = TRUE
    /\ UNCHANGED <<wbMay, wbMeta, wbHook, wbRead, wbCarry, wbHistory, wbLeft, wbCrashed>>

\* revive_failed_for_retry
WbRevive ==
    /\ "retry" \in wbMay /\ wbEnded /\ wbLeft > 0 /\ wbEnded' = FALSE /\ wbLeft' = wbLeft - 1
    /\ UNCHANGED <<wbMay, wbMeta, wbDue, wbHook, wbRead, wbCarry, wbHistory, wbCrashed>>

\* notify_settled: the subscriptions go, then the notices are handed over
\* mutants: the subscriptions stay, or a single notice goes out
WbKeptAll == wbMeta
WbFireOne == IF WbWaiting(wbMeta) = {} THEN {}
             ELSE {CHOOSE s \in WbWaiting(wbMeta) : TRUE}
WbKept == WbOf(wbMeta, "digest")
WbFire == WbWaiting(wbMeta)
WbNotify ==
    /\ wbDue /\ wbDue' = FALSE
    /\ wbMeta' = WbKept
    /\ wbCarry' = [s \in WbSubscribers |->
                     wbCarry[s] + IF s \in WbFire THEN 1 ELSE 0]
    /\ UNCHANGED <<wbMay, wbEnded, wbHook, wbRead, wbHistory, wbLeft, wbCrashed>>

\* a turn of the subscriber reads the notice
WbDeliver(s) ==
    /\ wbCarry[s] > 0 /\ wbCarry' = [wbCarry EXCEPT ![s] = @ - 1]
    /\ wbTold' = [wbTold EXCEPT ![s] = @ + 1]
    /\ UNCHANGED <<wbMay, wbEnded, wbMeta, wbDue, wbHook, wbRead, wbAsked, wbLeft, wbCrashed>>

\* the process dies and starts: reconcile_subscriptions looks for targets that
\* have ended, then reconcile_orphan_subagents ends the others
WbRestart ==
    /\ "crash" \in wbMay /\ ~wbCrashed /\ wbCrashed' = TRUE
    /\ wbCarry' = [s \in WbSubscribers |-> 0] /\ wbHook' = FALSE /\ wbRead' = {}
    /\ wbDue' = (wbEnded /\ wbMeta # {})
    /\ wbEnded' = TRUE
    /\ UNCHANGED <<wbMay, wbMeta, wbHistory, wbLeft>>

WbNext ==
    \/ \E s \in WbSubscribers : WbWatch(s) \/ WbWatchDigest(s) \/ WbDeliver(s)
    \/ WbHookRead \/ WbHookWrite \/ WbEnd \/ WbRevive \/ WbNotify \/ WbRestart

WbSpec == WbInit /\ [][WbNext]_wbVars
-----------------------------------------------------------------------------
\* A subscriber is told at most once for a watch, however often the target
\* ends and the process starts, as long as nobody follows its progress.
WbToldOnce ==
    "digest" \notin wbMay => \A s \in WbSubscribers : wbTold[s] <= wbAsked[s]

\* A watch that was accepted is in the meta, on its way, or answered, as long
\* as nobody follows the target's progress and no notice is lost with the
\* process.
WbWatchKept ==
    wbMay \cap {"digest", "crash"} = {} =>
        \A s \in WbSubscribers :
            wbTold[s] + wbCarry[s] + (IF s \in WbWaiting(wbMeta) THEN 1 ELSE 0) >= wbAsked[s]

\* Once the target has ended and its notices are out, nobody waits for it.
WbNobodyWaits == wbEnded /\ ~wbDue => WbWaiting(wbMeta) = {}
=============================================================================
