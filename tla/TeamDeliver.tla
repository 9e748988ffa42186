---------------------------- MODULE TeamDeliver ----------------------------
(***************************************************************************)
(* Deliveries to the members of an agent team (teams/deliver.py), with the *)
(* turns they run in (subagent_scheduler/runner.py, api/stream/engine.py). *)
(*                                                                         *)
(* A delivery is steered into the turn a member is in, or opens a turn of  *)
(* its own, or waits in the team's queue while as many members are at work *)
(* as may be.  Its coroutine posts the member's reply when the turn is     *)
(* over and then drains the queue: it delivers entry after entry, and      *)
(* waits for each turn it opens to begin.  The queue is a list object in a *)
(* registry; a drain works on the object it has found there.               *)
(*                                                                         *)
(* One session per member.  Texts, the roster's status fields, the reply's *)
(* write into the main conversation and the deletion of a member at work   *)
(* are left out.                                                           *)
(***************************************************************************)
EXTENDS Naturals, Sequences, FiniteSets

CONSTANTS
    TdMembers,
    TdNone,
    TdSent,     \* how many deliveries there are at most
    TdMax,      \* MAX_CONCURRENT_RUNNING
    TdCases     \* [may, sent]: what may happen, of "user", "ask", "stop", "remove"
                \* and "rush", and how many deliveries there are then

ASSUME TdNumbers == TdSent \in Nat \ {0} /\ TdMax \in Nat \ {0}
ASSUME TdDistinct == TdNone \notin TdMembers

VARIABLES
    tdMay,      \* "rush": deliveries may come while a drain holds a dropped list
    tdSent,
    tdDest,     \* the member a delivery is for
    tdWord,     \* where its text is: unsent, queue, task, stash, thread, lost
    tdJob,      \* where its coroutine is: none, new, lock, turn, watch, reply,
                \* await, end
    tdHas,      \* the list its drain works on, 0 for none
    tdList,     \* _QUEUES[team]: the list that is registered, 0 for none
    tdQueue,    \* the entries of each list
    tdRun,      \* the members in _RUNNING_TURNS
    tdUser,     \* the user's turn in a member's own session: no, lock, turn
    tdPark,     \* _PENDING_RESUME
    tdGone      \* members that were removed

tdCase == <<tdMay, tdSent>>
tdQueues == <<tdHas, tdList, tdQueue>>
tdTurns == <<tdRun, tdUser, tdPark>>
tdVars == <<tdCase, tdDest, tdWord, tdJob, tdQueues, tdTurns, tdGone>>

TdTexts == 1..TdSent
TdLists == TdTexts

\* _is_live
TdLive(m) == m \in tdRun \/ tdUser[m] # "no"
\* _running_members
TdRunning == Cardinality({m \in TdMembers \ tdGone : TdLive(m)})
TdRoom == TdRunning < TdMax
\* nobody holds the turn lock
TdFree(m) ==
    tdUser[m] # "turn" /\ \A t \in TdTexts : tdDest[t] = m => tdJob[t] # "turn"
TdStashed(m) == {t \in TdTexts : tdWord[t] = "stash" /\ tdDest[t] = m}

TdInit ==
    /\ \E case \in TdCases : tdMay = case.may /\ tdSent = case.sent
    /\ tdDest = [t \in TdTexts |-> TdNone]
    /\ tdWord = [t \in TdTexts |-> "unsent"] /\ tdJob = [t \in TdTexts |-> "none"]
    /\ tdHas = [t \in TdTexts |-> 0] /\ tdList = 0 /\ tdQueue = [l \in TdLists |-> <<>>]
    /\ tdRun = {}
    /\ tdUser = [m \in TdMembers |-> "no"] /\ tdPark = {} /\ tdGone = {}
-----------------------------------------------------------------------------
(* deliver and _drain_queue.                                               *)

\* where a delivery goes that does not have to queue
TdFate(m) ==
    IF m \in tdGone \cup tdPark THEN "lost"
    ELSE IF TdLive(m) THEN "stash" ELSE "task"
TdJobOf(word) ==
    CASE word = "stash" -> "watch" [] word = "task" -> "new" [] OTHER -> "none"

\* deliveries are numbered as they come
TdSends(t, m) ==
    /\ t <= tdSent /\ m \notin tdGone
    /\ tdWord[t] = "unsent" /\ \A u \in 1..(t - 1) : tdWord[u] # "unsent"
    /\ "rush" \in tdMay \/ \A c \in TdTexts : tdJob[c] = "await" => tdHas[c] = tdList
    /\ tdDest' = [tdDest EXCEPT ![t] = m]
    /\ UNCHANGED <<tdCase, tdHas, tdTurns, tdGone>>

TdDeliver(t, m) ==
    /\ TdSends(t, m)
    /\ TdFate(m) = "task" => TdRoom
    /\ tdWord' = [tdWord EXCEPT ![t] = TdFate(m)]
    /\ tdJob' = [tdJob EXCEPT ![t] = TdJobOf(TdFate(m))]
    /\ UNCHANGED <<tdList, tdQueue>>

\* the gate: an idle member, and no room; the registered list, or a new one
TdEnqueue(t, m) ==
    /\ TdSends(t, m) /\ TdFate(m) = "task" /\ ~TdRoom
    /\ \E l \in TdLists :
        /\ IF tdList # 0 THEN l = tdList
           ELSE /\ tdQueue[l] = <<>> /\ \A c \in TdTexts : tdHas[c] # l
                /\ \A k \in TdLists : k < l => \E c \in TdTexts : tdHas[c] = k
        /\ tdList' = l /\ tdQueue' = [tdQueue EXCEPT ![l] = Append(@, t)]
    /\ tdWord' = [tdWord EXCEPT ![t] = "queue"]
    /\ UNCHANGED tdJob

\* the entries a drain passes before it opens a turn, and the one it opens
TdOpens(entries) == {k \in DOMAIN entries : TdFate(tdDest[entries[k]]) = "task"}
TdPasses(entries) == {k \in DOMAIN entries : \A j \in TdOpens(entries) : k < j}
TdOpened(entries) == {k \in TdOpens(entries) : \A j \in TdOpens(entries) : k <= j}
TdTaken(entries) == {entries[k] : k \in TdPasses(entries) \cup TdOpened(entries)}

\* mutant: whoever leaves drops the list, empty or not
TdUnregisterAlways(entries) == 0
\* if not queue: _QUEUES.pop
TdUnregister(entries) == IF entries = <<>> THEN 0 ELSE tdList

\* the loop, on list l
TdLoop(c, l) ==
    LET entries == tdQueue[l]
        taken == IF TdRoom THEN TdTaken(entries) ELSE {}
        rest == SubSeq(entries, Cardinality(taken) + 1, Len(entries))
        awaits == TdRoom /\ TdOpens(entries) # {}
    IN  /\ tdQueue' = [tdQueue EXCEPT ![l] = rest]
        /\ tdWord' = [t \in TdTexts |-> IF t \in taken THEN TdFate(tdDest[t]) ELSE tdWord[t]]
        /\ tdJob' = [t \in TdTexts |->
                       IF t = c THEN (IF awaits THEN "await" ELSE "end")
                       ELSE IF t \in taken THEN TdJobOf(TdFate(tdDest[t])) ELSE tdJob[t]]
        /\ tdHas' = [tdHas EXCEPT ![c] = IF awaits THEN l ELSE 0]
        /\ tdList' = IF awaits THEN tdList ELSE TdUnregister(rest)
        /\ UNCHANGED <<tdCase, tdDest, tdTurns, tdGone>>

\* the reply is posted, the status broadcast: the drain begins
TdDrain(c) ==
    /\ tdJob[c] = "reply"
    /\ IF tdList # 0 /\ tdQueue[tdList] # <<>>
       THEN TdLoop(c, tdList)
       ELSE /\ tdJob' = [tdJob EXCEPT ![c] = "end"]
            /\ UNCHANGED <<tdCase, tdDest, tdWord, tdQueues, tdTurns, tdGone>>

\* _await_turn_start has seen the turn, or its five seconds are over
TdDrainOn(c) == tdJob[c] = "await" /\ TdLoop(c, tdHas[c])

\* _reply_after_current_turn: the turn is over, or half an hour is
TdWatch(t) ==
    /\ tdJob[t] = "watch"
    /\ \/ ~TdLive(tdDest[t]) /\ tdJob' = [tdJob EXCEPT ![t] = "reply"]
       \/ TdLive(tdDest[t]) /\ tdJob' = [tdJob EXCEPT ![t] = "end"]
    /\ UNCHANGED <<tdCase, tdDest, tdWord, tdQueues, tdTurns, tdGone>>
-----------------------------------------------------------------------------
(* The turns.                                                              *)

TdTurnOnly == UNCHANGED <<tdCase, tdDest, tdQueues, tdGone>>

\* _run_member_turn up to the lock, and under it
TdRegister(t) ==
    /\ tdJob[t] = "new" /\ tdJob' = [tdJob EXCEPT ![t] = "lock"]
    /\ tdRun' = tdRun \cup {tdDest[t]}
    /\ UNCHANGED <<tdWord, tdUser, tdPark>> /\ TdTurnOnly
\* stopped before it began: it never runs, and the coroutine goes on to the reply
TdNeverRuns(t) ==
    /\ "stop" \in tdMay /\ tdJob[t] = "new" /\ tdJob' = [tdJob EXCEPT ![t] = "reply"]
    /\ tdWord' = [tdWord EXCEPT ![t] = "lost"] /\ UNCHANGED tdTurns /\ TdTurnOnly
TdStream(t) ==
    /\ tdJob[t] = "lock" /\ TdFree(tdDest[t])
    /\ tdJob' = [tdJob EXCEPT ![t] = "turn"] /\ tdWord' = [tdWord EXCEPT ![t] = "thread"]
    /\ tdRun' = tdRun \cup {tdDest[t]}
    /\ UNCHANGED <<tdUser, tdPark>> /\ TdTurnOnly

\* an agent superstep drains the stash
TdAbsorb(m) ==
    /\ ~TdFree(m) /\ TdStashed(m) # {}
    /\ tdWord' = [t \in TdTexts |-> IF t \in TdStashed(m) THEN "thread" ELSE tdWord[t]]
    /\ UNCHANGED <<tdJob, tdTurns>> /\ TdTurnOnly

\* the lock is free, the coroutine goes on to the reply
TdReleases(m) ==
    /\ ~TdFree(m)
    /\ tdUser' = IF tdUser[m] = "turn" THEN [tdUser EXCEPT ![m] = "no"] ELSE tdUser
    /\ tdJob' = [t \in TdTexts |->
                   IF tdDest[t] = m /\ tdJob[t] = "turn" THEN "reply" ELSE tdJob[t]]

\* the end of _stream_graph unregisters whatever is registered and drops
\* what nobody has absorbed
TdTurnEnd(m) ==
    /\ TdReleases(m)
    /\ tdRun' = tdRun \ {m} /\ tdPark' = tdPark \ {m}
    /\ tdWord' = [t \in TdTexts |-> IF t \in TdStashed(m) THEN "lost" ELSE tdWord[t]]
    /\ TdTurnOnly

\* a question keeps the registration and the stash
TdAsk(m) ==
    /\ "ask" \in tdMay /\ TdReleases(m) /\ tdPark' = tdPark \cup {m}
    /\ UNCHANGED <<tdWord, tdRun>> /\ TdTurnOnly

\* the user answers, or talks to an idle member
TdUserActs(m) ==
    /\ tdUser[m] = "no"
    /\ \/ m \in tdPark /\ tdPark' = tdPark \ {m}
       \/ "user" \in tdMay /\ ~TdLive(m) /\ m \notin tdPark \cup tdGone /\ UNCHANGED tdPark
    /\ tdUser' = [tdUser EXCEPT ![m] = "lock"]
    /\ UNCHANGED <<tdWord, tdJob, tdRun>> /\ TdTurnOnly
TdUserGo(m) ==
    /\ tdUser[m] = "lock" /\ TdFree(m) /\ tdUser' = [tdUser EXCEPT ![m] = "turn"]
    /\ tdRun' = tdRun \cup {m}
    /\ UNCHANGED <<tdWord, tdJob, tdPark>> /\ TdTurnOnly

\* a member at rest is removed; its queued deliveries stay in the queue
TdRemove(m) ==
    /\ "remove" \in tdMay /\ m \notin tdGone /\ ~TdLive(m) /\ TdFree(m)
    /\ \A t \in TdTexts : tdDest[t] = m => tdJob[t] \in {"none", "end"}
    /\ tdGone' = tdGone \cup {m}
    /\ UNCHANGED <<tdCase, tdDest, tdWord, tdJob, tdQueues, tdTurns>>

TdNext ==
    \/ \E t \in TdTexts, m \in TdMembers : TdDeliver(t, m) \/ TdEnqueue(t, m)
    \/ \E t \in TdTexts :
        TdDrain(t) \/ TdDrainOn(t) \/ TdWatch(t)
        \/ TdRegister(t) \/ TdNeverRuns(t) \/ TdStream(t)
    \/ \E m \in TdMembers :
        TdAbsorb(m) \/ TdTurnEnd(m) \/ TdAsk(m) \/ TdUserActs(m) \/ TdUserGo(m) \/ TdRemove(m)

TdSpec == TdInit /\ [][TdNext]_tdVars
-----------------------------------------------------------------------------
\* lists that somebody will look into: the registered one, and those of a drain
TdReached(t) ==
    \E l \in {tdList} \cup {tdHas[c] : c \in TdTexts} :
        l # 0 /\ \E k \in DOMAIN tdQueue[l] : tdQueue[l][k] = t
TdDrainer(c) == tdJob[c] \in {"new", "lock", "turn", "reply", "await"}

\* A delivery that was accepted into the queue is still in a list that is
\* looked into, and somebody is under way who will look: the turn that filled
\* the last place ends with a drain (docs/agent-team-design.md 5.6).  The turns
\* that the user opens or resumes in a member's own session end without one.
\* A delivery that comes while a drain holds a dropped list can be lost: that
\* is the case "rush".
TdServed ==
    "rush" \notin tdMay => \A t \in TdTexts : tdWord[t] = "queue" =>
        /\ TdReached(t)
        /\ tdMay \cap {"user", "ask"} = {} => \E c \in TdTexts : TdDrainer(c)
=============================================================================
