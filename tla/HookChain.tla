----------------------------- MODULE HookChain -----------------------------
(***************************************************************************)
(* One event through the middleware chain of the mods: the broker          *)
(* (crates/mod-broker, chain.rs and the reader of runner.rs) and the mods' *)
(* runner processes (packages/mod-runner, hook-runtime.ts).                *)
(*                                                                         *)
(* Every hook runs in the process of its mod.  It may call `next', which   *)
(* runs what is beneath it, once, in a task of its own, and it answers or  *)
(* throws; its failure, its time limit and the death of its runner skip    *)
(* it.  A failed hook's handler may answer in its place.                   *)
(*                                                                         *)
(* Frames travel in order on two pipes per runner.  Between the end of     *)
(* one answer loop and the start of the next nobody reads a hook's         *)
(* channel.  Values, `$' calls and the restart of a runner are left out,   *)
(* and a second run of the same hooks is counted, not followed.            *)
(***************************************************************************)
EXTENDS Naturals, Sequences

CONSTANTS
    HcHooks,    \* hooks the event selects, 1..HcHooks in load order
    HcMods,     \* the mods
    HcOwners,   \* which mod owns which hook, one function per case
    HcCases     \* what may happen, one set per case: "slow" (a hook exceeds
                \* its time), "cap" (session.end exceeds that of its chain),
                \* "die" (a runner dies), "core" (the engine fails), "rewrite"
                \* (a next changes its tool call as it may not)

HcCore == HcHooks + 1
HcHook == 1..HcHooks

ASSUME HcNumbers == HcHooks \in Nat \ {0} /\ HcOwners \subseteq [HcHook -> HcMods]

VARIABLES
    hcOwner, hcMay,
    hcPc,       \* run_hook: off, loop, broke, await, deaf, listen, catch, below, ret
    hcWhy,      \* the verdict of its answer loop
    hcCell,     \* BeneathCell: off, run, back, then the result
    hcTold,     \* hooks whose cell has called notify_waiters
    hcPend,     \* hooks whose next a cell has to answer
    hcActive,   \* the hub's Active entry of each mod, 0 for none
    hcRuns,     \* history: times each hook and the core was started
    hcRes,      \* what a hook's run, and the core, has returned
    hcIn, hcOut,\* the pipes of each runner
    hcAlive,    \* runners that live
    hcCtx,      \* a hook in its runner: none, busy, finishing, failed, catching, settled
    hcNext,     \* its call of next: no, pending, then the result
    hcFor       \* whose catch-call its handler answers

hcBroker == <<hcPc, hcWhy, hcCell, hcTold, hcPend, hcActive, hcRuns, hcRes>>
hcRunner == <<hcAlive, hcCtx, hcNext, hcFor>>
hcVars == <<hcOwner, hcMay, hcBroker, hcIn, hcOut, hcRunner>>

HcSent(in, m, frames) == [in EXCEPT ![m] = IF m \in hcAlive THEN @ \o frames ELSE @]
HcTo(m, frames) == hcIn' = HcSent(hcIn, m, frames)
HcFrom(m, frame) == hcOut' = [hcOut EXCEPT ![m] = Append(@, frame)]
HcPcTo(h, pc) == hcPc' = [hcPc EXCEPT ![h] = pc]
HcCached(h) == hcCell[h] \in {"ok", "err"}

\* run_from and run_core
HcRunFrom(k) ==
    /\ hcRuns' = [hcRuns EXCEPT ![k] = IF @ = 0 THEN 1 ELSE 2]
    /\ IF k = HcCore /\ hcRes[k] = "none"
       THEN \E r \in IF "core" \in hcMay THEN {"ok", "err"} ELSE {"ok"} :
              hcRes' = [hcRes EXCEPT ![k] = r]
       ELSE UNCHANGED hcRes
HcStarts(k) == k \in HcHook /\ hcRuns[k] = 0

HcInit ==
    /\ hcOwner \in HcOwners /\ hcMay \in HcCases
    /\ hcPc = [h \in HcHook |-> IF h = 1 THEN "loop" ELSE "off"]
    /\ hcWhy = [h \in HcHook |-> "none"] /\ hcCell = [h \in HcHook |-> "off"]
    /\ hcTold = {} /\ hcPend = {}
    /\ hcActive = [m \in HcMods |-> IF m = hcOwner[1] THEN 1 ELSE 0]
    /\ hcRuns = [k \in 1..HcCore |-> IF k = 1 THEN 1 ELSE 0]
    /\ hcRes = [k \in 1..HcCore |-> "none"]
    /\ hcIn = [m \in HcMods |-> IF m = hcOwner[1] THEN <<[kind |-> "event", of |-> 1]>> ELSE <<>>]
    /\ hcOut = [m \in HcMods |-> <<>>]
    /\ hcAlive = HcMods /\ hcCtx = [h \in HcHook |-> "none"]
    /\ hcNext = [h \in HcHook |-> "no"] /\ hcFor = [h \in HcHook |-> h]
-----------------------------------------------------------------------------
(* The broker.                                                             *)

HcBrokerOnly == UNCHANGED <<hcOwner, hcMay, hcRunner>>
HcLoops(h) == hcPc[h] \in {"loop", "catch"}

\* the end of run_hook
HcReturn(h, pc, act) ==
    /\ hcPc' = [pc EXCEPT ![h] = "ret"]
    /\ hcActive' = [act EXCEPT ![hcOwner[h]] = 0]

\* run k begins: its Active entry, and its event frame
HcBegin(k, pc, in) ==
    IF HcStarts(k)
    THEN /\ hcPc' = [pc EXCEPT ![k] = "loop"]
         /\ hcActive' = [hcActive EXCEPT ![hcOwner[k]] = k]
         /\ hcIn' = HcSent(in, hcOwner[k], <<[kind |-> "event", of |-> k]>>)
    ELSE hcPc' = pc /\ hcIn' = in /\ UNCHANGED hcActive

\* mutant: the hooks beneath run again in place of a failed hook
HcUnrunAlways(h) == TRUE
\* no result from beneath stands
HcUnrun(h) == ~HcCached(h)

\* a verdict: the hook's goes through wait_settled, the handler's ends the run
HcVerdict(h, why, in) ==
    /\ hcWhy' = [hcWhy EXCEPT ![h] = why]
    /\ UNCHANGED <<hcCell, hcTold, hcPend>>
    /\ IF hcPc[h] = "loop"
       THEN HcPcTo(h, "broke") /\ hcIn' = in /\ UNCHANGED <<hcActive, hcRuns, hcRes>>
       ELSE IF why # "answered" /\ HcUnrun(h)
       THEN HcRunFrom(h + 1) /\ HcBegin(h + 1, [hcPc EXCEPT ![h] = "below"], in)
       ELSE /\ HcReturn(h, hcPc, hcActive) /\ hcIn' = in
            /\ hcRes' = [hcRes EXCEPT ![h] = IF why = "answered" THEN "ok" ELSE hcCell[h]]
            /\ UNCHANGED hcRuns

HcTake(m) == m \in HcMods /\ hcOut[m] # <<>> /\ hcOut' = [hcOut EXCEPT ![m] = Tail(@)]

\* mutant: a next that starts the run beneath is not kept for an answer
HcJoinedNone(h, g) == hcPend
\* frame ids a cell answers when it settles
HcJoined(h, g) == hcPend \cup {<<h, g>>}

\* a next that would start the run beneath is refused for what it changes
HcRefuses(h) == "rewrite" \in hcMay /\ hcCell[h] = "off"
HcRefused(m, g) == HcTo(m, <<[kind |-> "result", of |-> g, res |-> "err"]>>)

\* a next frame: to whatever the mod's Active entry names
HcReadNext(m) ==
    /\ HcTake(m) /\ Head(hcOut[m]).kind = "next"
    /\ LET g == Head(hcOut[m]).of
           h == hcActive[m] IN
         IF h = 0 \/ (h # 0 /\ ~HcLoops(h))
         THEN UNCHANGED <<hcBroker, hcIn>>
         ELSE IF HcCached(h)
         THEN /\ HcTo(m, <<[kind |-> "result", of |-> g, res |-> hcCell[h]]>>)
              /\ UNCHANGED hcBroker
         ELSE \/ HcRefuses(h) /\ HcRefused(m, g) /\ UNCHANGED hcBroker
              \/ /\ hcPend' = HcJoined(h, g)
                 /\ IF hcCell[h] = "off"
                    THEN /\ hcCell' = [hcCell EXCEPT ![h] = "run"]
                         /\ HcRunFrom(h + 1) /\ HcBegin(h + 1, hcPc, hcIn)
                    ELSE UNCHANGED <<hcCell, hcPc, hcActive, hcRuns, hcRes, hcIn>>
                 /\ UNCHANGED <<hcWhy, hcTold>>
    /\ HcBrokerOnly

\* classify_reply and validate_event_answer: an answer may have no valid shape
HcClassified(res) == IF res = "answered" THEN {"answered", "refused"} ELSE {res}

\* a reply, for the loop that waits for it
HcReadReply(m) ==
    /\ HcTake(m) /\ Head(hcOut[m]).kind \in {"answer", "caught"}
    /\ LET h == Head(hcOut[m]).of IN
         IF hcPc[h] = (IF Head(hcOut[m]).kind = "answer" THEN "loop" ELSE "catch")
         THEN \E why \in HcClassified(Head(hcOut[m]).res) : HcVerdict(h, why, hcIn)
         ELSE UNCHANGED <<hcBroker, hcIn>>
    /\ HcBrokerOnly

\* on_runner_exit: RunnerDead for the Active entry
HcReadDead(m) ==
    /\ HcTake(m) /\ Head(hcOut[m]).kind = "dead"
    /\ LET h == hcActive[m] IN
         IF h # 0 /\ HcLoops(h) THEN HcVerdict(h, "dead", hcIn) ELSE UNCHANGED <<hcBroker, hcIn>>
    /\ HcBrokerOnly

\* nothing is on its way from the runner that could end the loop
HcHung(h) ==
    LET m == hcOwner[h] IN
    /\ hcIn[m] = <<>> /\ hcOut[m] = <<>>
    /\ hcPc[h] = "loop" => hcCtx[h] \in {"none", "settled"}
    /\ hcPc[h] = "catch" => \A g \in HcHook : hcOwner[g] = m => hcCtx[g] # "catching"

\* the budget expires, which is paused while a run beneath is under way
HcExpire(h) ==
    /\ HcLoops(h) /\ hcCell[h] # "run" /\ ("slow" \in hcMay \/ HcHung(h))
    /\ HcVerdict(h, "timeout", HcSent(hcIn, hcOwner[h], <<[kind |-> "timeout", of |-> h]>>))
    /\ UNCHANGED hcOut /\ HcBrokerOnly

\* the cap of session.end, which is not paused and tells the runner nothing
HcCapped(h) ==
    /\ "cap" \in hcMay /\ HcLoops(h) /\ HcVerdict(h, "timeout", hcIn)
    /\ UNCHANGED hcOut /\ HcBrokerOnly

\* mutant: a hook that throws fails the event
HcRidesAny(h) == hcWhy[h] \in {"core", "throw"}
\* a failure beneath that the hook let through
HcRides(h) == hcWhy[h] = "core" /\ hcCell[h] = "err"

\* after wait_settled: the answer, the failure beneath, or the .catch phase
HcConclude(h) ==
    IF hcWhy[h] = "answered" \/ HcRides(h)
    THEN /\ HcReturn(h, hcPc, hcActive)
         /\ hcRes' = [hcRes EXCEPT ![h] = IF hcWhy[h] = "answered" THEN "ok" ELSE "err"]
         /\ UNCHANGED hcIn
    ELSE /\ HcPcTo(h, "catch") /\ hcActive' = [hcActive EXCEPT ![hcOwner[h]] = h]
         /\ HcTo(hcOwner[h], <<[kind |-> "catch", of |-> h]>>)
         /\ UNCHANGED hcRes

\* mutant: the event settles without waiting for what runs beneath
HcWaitsNever(h) == FALSE
HcWaits(h) == hcCell[h] # "off"

HcBroke(h) ==
    /\ hcPc[h] = "broke"
    /\ IF HcWaits(h) THEN HcPcTo(h, "await") /\ UNCHANGED <<hcActive, hcRes, hcIn>>
       ELSE HcConclude(h)
    /\ UNCHANGED <<hcWhy, hcCell, hcTold, hcPend, hcRuns, hcOut>> /\ HcBrokerOnly

\* wait_settled looks at the cell, and listens from a moment later on
HcAwait(h) ==
    /\ hcPc[h] = "await"
    /\ IF HcCached(h) THEN HcConclude(h)
       ELSE HcPcTo(h, "deaf") /\ UNCHANGED <<hcActive, hcRes, hcIn>>
    /\ UNCHANGED <<hcWhy, hcCell, hcTold, hcPend, hcRuns, hcOut>> /\ HcBrokerOnly
HcListen(h) ==
    /\ hcPc[h] = "deaf" /\ HcPcTo(h, "listen")
    /\ UNCHANGED <<hcWhy, hcCell, hcTold, hcPend, hcActive, hcRuns, hcRes, hcIn, hcOut>>
    /\ HcBrokerOnly

\* the task beneath: the budget resumes, the cell settles, its waiters wake
HcBack(h) ==
    /\ hcCell[h] = "run" /\ hcRes[h + 1] # "none"
    /\ hcCell' = [hcCell EXCEPT ![h] = "back"]
    /\ UNCHANGED <<hcPc, hcWhy, hcTold, hcPend, hcActive, hcRuns, hcRes, hcIn, hcOut>>
    /\ HcBrokerOnly
HcSettle(h) ==
    /\ hcCell[h] = "back" /\ hcCell' = [hcCell EXCEPT ![h] = hcRes[h + 1]]
    /\ hcPend' = {p \in hcPend : p[1] # h}
    /\ HcTo(hcOwner[h], IF <<h, h>> \in hcPend
                        THEN <<[kind |-> "result", of |-> h, res |-> hcRes[h + 1]]>> ELSE <<>>)
    /\ UNCHANGED <<hcPc, hcWhy, hcTold, hcActive, hcRuns, hcRes, hcOut>> /\ HcBrokerOnly
HcNotify(h) ==
    /\ HcCached(h) /\ h \notin hcTold /\ hcTold' = hcTold \cup {h}
    /\ hcPc' = [hcPc EXCEPT ![h] = IF @ = "listen" THEN "await" ELSE @]
    /\ UNCHANGED <<hcWhy, hcCell, hcPend, hcActive, hcRuns, hcRes, hcIn, hcOut>> /\ HcBrokerOnly

\* the hooks beneath, run in place of this one
HcBelow(h) ==
    /\ hcPc[h] = "below" /\ hcRes[h + 1] # "none"
    /\ HcReturn(h, hcPc, hcActive) /\ hcRes' = [hcRes EXCEPT ![h] = hcRes[h + 1]]
    /\ UNCHANGED <<hcWhy, hcCell, hcTold, hcPend, hcRuns, hcIn, hcOut>> /\ HcBrokerOnly
-----------------------------------------------------------------------------
(* The runners.  A runner knows a hook by the event's invocation only.     *)

HcRunnerOnly == UNCHANGED <<hcOwner, hcMay, hcBroker, hcAlive>>
HcHeld(m) == {g \in HcHook : hcOwner[g] = m /\ hcCtx[g] # "none"}
HcGet(m, kind) ==
    /\ hcIn[m] # <<>> /\ Head(hcIn[m]).kind = kind /\ hcIn' = [hcIn EXCEPT ![m] = Tail(@)]
HcCtxTo(h, ctx) == hcCtx' = [hcCtx EXCEPT ![h] = ctx]
HcReply(kind, h, res) == HcFrom(hcOwner[h], [kind |-> kind, of |-> h, res |-> res])

\* handleEvent: a second hook under the same invocation is dropped
HcEvent(m) ==
    /\ HcGet(m, "event")
    /\ IF HcHeld(m) = {} THEN HcCtxTo(Head(hcIn[m]).of, "busy") ELSE UNCHANGED hcCtx
    /\ UNCHANGED <<hcOut, hcNext, hcFor>> /\ HcRunnerOnly

\* the hook calls next
HcCallNext(h) ==
    /\ hcCtx[h] = "busy" /\ hcNext[h] = "no" /\ hcNext' = [hcNext EXCEPT ![h] = "pending"]
    /\ HcFrom(hcOwner[h], [kind |-> "next", of |-> h])
    /\ UNCHANGED <<hcIn, hcCtx, hcFor>> /\ HcRunnerOnly

\* settleSuccess: the answer waits for what runs beneath
\* mutant: it does not
HcHoldsNever(h) == FALSE
HcHolds(h) == hcNext[h] = "pending"
HcAnswer(h) ==
    /\ hcCtx[h] = "busy"
    /\ IF HcHolds(h) THEN HcCtxTo(h, "finishing") /\ UNCHANGED hcOut
       ELSE HcCtxTo(h, "settled") /\ HcReply("answer", h, "answered")
    /\ UNCHANGED <<hcIn, hcNext, hcFor>> /\ HcRunnerOnly

HcResult(m) ==
    /\ HcGet(m, "result")
    /\ LET h == Head(hcIn[m]).of IN
         /\ hcNext' = [hcNext EXCEPT ![h] = Head(hcIn[m]).res]
         /\ IF hcCtx[h] = "finishing"
            THEN HcCtxTo(h, "settled") /\ HcReply("answer", h, "answered")
            ELSE UNCHANGED <<hcCtx, hcOut>>
    /\ UNCHANGED hcFor /\ HcRunnerOnly

\* settleThrown: the failure beneath may ride through
HcThrow(h) ==
    /\ hcCtx[h] = "busy" /\ HcCtxTo(h, "failed")
    /\ \E res \in IF hcNext[h] = "err" THEN {"core", "throw"} ELSE {"throw"} :
         HcReply("answer", h, res)
    /\ UNCHANGED <<hcIn, hcNext, hcFor>> /\ HcRunnerOnly

\* abandonHook, of whatever hook the invocation names
HcAbandon(m) ==
    /\ HcGet(m, "timeout")
    /\ LET held == {g \in HcHeld(m) : hcCtx[g] # "settled"} IN
         IF held = {} THEN UNCHANGED <<hcCtx, hcOut>>
         ELSE \E g \in held : HcCtxTo(g, "none") /\ HcReply("answer", g, "throw")
    /\ UNCHANGED <<hcNext, hcFor>> /\ HcRunnerOnly

\* handleCatchCall, for whatever hook failed under the invocation; next in a
\* handler reaches nothing that has not run
HcCatchCall(m) ==
    /\ HcGet(m, "catch")
    /\ LET h == Head(hcIn[m]).of
           failed == {g \in HcHeld(m) : hcCtx[g] = "failed"} IN
         \/ failed = {} /\ HcReply("caught", h, "nocatch") /\ UNCHANGED <<hcCtx, hcFor>>
         \/ \E g \in failed : HcCtxTo(g, "none") /\ HcReply("caught", h, "nocatch") /\ UNCHANGED hcFor
         \/ \E g \in failed :
              /\ hcNext[g] # "err" /\ HcCtxTo(g, "catching")
              /\ hcFor' = [hcFor EXCEPT ![g] = h] /\ UNCHANGED hcOut
    /\ UNCHANGED hcNext /\ HcRunnerOnly
HcCaught(g) ==
    /\ hcCtx[g] = "catching" /\ HcCtxTo(g, "none") /\ hcFor' = [hcFor EXCEPT ![g] = g]
    /\ \E res \in {"answered", "throw"} : HcReply("caught", hcFor[g], res)
    /\ UNCHANGED <<hcIn, hcNext>> /\ HcRunnerOnly

\* the grace period for a .catch is over
HcSweep(h) ==
    /\ "slow" \in hcMay /\ hcCtx[h] = "failed" /\ HcCtxTo(h, "none")
    /\ UNCHANGED <<hcIn, hcOut, hcNext, hcFor>> /\ HcRunnerOnly

HcDie(m) ==
    /\ "die" \in hcMay /\ m \in hcAlive /\ hcAlive' = hcAlive \ {m}
    /\ hcIn' = [hcIn EXCEPT ![m] = <<>>] /\ HcFrom(m, [kind |-> "dead"])
    /\ hcCtx' = [h \in HcHook |-> IF hcOwner[h] = m THEN "none" ELSE hcCtx[h]]
    /\ UNCHANGED <<hcOwner, hcMay, hcBroker, hcNext, hcFor>>
-----------------------------------------------------------------------------
HcBrokerStep ==
    \/ \E m \in HcMods : HcReadNext(m) \/ HcReadReply(m) \/ HcReadDead(m)
    \/ \E h \in HcHook : HcExpire(h) \/ HcCapped(h) \/ HcBroke(h) \/ HcAwait(h)
                         \/ HcListen(h) \/ HcBack(h) \/ HcSettle(h) \/ HcNotify(h) \/ HcBelow(h)
HcRunnerStep ==
    \/ \E m \in HcMods : HcEvent(m) \/ HcResult(m) \/ HcAbandon(m) \/ HcCatchCall(m) \/ HcDie(m)
    \/ \E h \in HcHook : HcCallNext(h) \/ HcAnswer(h) \/ HcThrow(h) \/ HcCaught(h) \/ HcSweep(h)

HcNextStep == HcBrokerStep \/ HcRunnerStep

HcSpec == HcInit /\ [][HcNextStep]_hcVars
-----------------------------------------------------------------------------
\* every hook answers within its time, and the chain within its own
HcTimely == {"slow", "cap"} \cap hcMay = {}

\* Nothing beneath a hook runs twice (chain.rs, finish_failure), as long as
\* every hook answers within its time.
HcNothingTwice == \A k \in 1..HcCore : hcRuns[k] <= 1
HcRunsOnce == HcTimely => HcNothingTwice

\* The event settles only when everything that was started beneath has ended.
HcSettlesLast ==
    HcTimely =>
        \A h \in HcHook : hcPc[h] = "ret" => hcCell[h] \notin {"run", "back"}

\* A hook's failure, limit or death never fails the event; only the engine does.
HcOnlyCoreFails == hcRes[1] = "err" => hcRes[HcCore] = "err"

\* No living hook is left waiting for the next it called.
HcNextAnswered ==
    HcTimely /\ hcRes[1] # "none" =>
        \A h \in HcHook :
            hcOwner[h] \in hcAlive /\ hcIn[hcOwner[h]] = <<>> /\ hcOut[hcOwner[h]] = <<>>
            /\ hcPc[h] = "ret" => hcNext[h] # "pending"

\* A hook that answers is never caught between the look at the cell and the
\* listening (wait_settled); only a failure can lose that wake-up.
HcAnswerNeverWaits ==
    HcTimely =>
        \A h \in HcHook : hcPc[h] \in {"deaf", "listen"} => hcWhy[h] \notin {"answered", "refused"}

\* Who listens for a cell has not missed its notification.
HcNoDeafWaiter == \A h \in HcHook : hcPc[h] = "listen" => h \notin hcTold
=============================================================================
