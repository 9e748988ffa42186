----------------------------- MODULE TurnSteer -----------------------------
(***************************************************************************)
(* Messages for a turn that is already running (server_shared.py, ws.py,   *)
(* engine.py, heal.py, tasks/inject.py, and the web client's queue in      *)
(* steerQueue.ts): one session, one window.                                *)
(*                                                                         *)
(* A user's message waits in the window's queue and in the session's       *)
(* stash; an agent superstep drains the stash and acknowledges, the        *)
(* window then forgets the message, and the in-flight list remembers it    *)
(* until the superstep commits.  The end of a turn drops what nobody       *)
(* absorbed, the window sends it again as a turn.  The event of a          *)
(* background task takes the same stash when the session is busy, a merge  *)
(* window and a wake turn when it is not.  A wake turn streams without the *)
(* turn lock, so two turns may stream at once.                             *)
(*                                                                         *)
(* Questions are those of ask_user; attachments, the merging of similar    *)
(* messages, commands and reconnects of the socket are left out, and one   *)
(* wake turn runs at a time.                                               *)
(***************************************************************************)
EXTENDS Naturals, Sequences, FiniteSets

CONSTANTS
    SqUser,     \* messages the user may type
    SqEvents,   \* events of background tasks
    SqNone,
    SqCases,    \* what may happen in a run, one set per case: see sqMay
    SqWire      \* frames a direction of the socket holds (a bound)

ASSUME SqSets == SqUser \cap SqEvents = {} /\ SqNone \notin SqUser \cup SqEvents

VARIABLES
    sqMay,      \* of "stop", "recall", "ask", "transient", "error", "event", and
                \* "late": a message for the turn may come when the turn has ended
    sqDraft,    \* messages in the composer
    sqQueue,    \* the window's queue, oldest first
    sqTaken,    \* recalled, waiting for the server's answer
    sqView,     \* what the window thinks of the session: idle, busy, parked
    sqUp,       \* frames to the server
    sqDown,     \* events to the window
    sqStash,    \* _STEER_STASH
    sqInflight, \* _STEER_INFLIGHT
    sqAt,       \* where each turn is: of the socket's job, of a wake
    sqGot,      \* what the current superstep of a turn has drained
    sqCarry,    \* the message the socket's turn was started with
    sqRunning,  \* _RUNNING_TURNS
    sqEvt,      \* turns that listen to the registered stop event
    sqStop,     \* turns whose stop event is set
    sqAnswered, \* _ANSWERED_STEERS
    sqPending,  \* _PENDING
    sqFlush,    \* a merge window is open
    sqWatch,    \* the entry the rescue watcher waits for
    sqCame,     \* history: events that have happened
    sqAcked,    \* history: messages the window was told are absorbed
    sqThread,   \* messages in the thread
    sqTwice     \* history: messages that were put there a second time

sqWindow == <<sqDraft, sqQueue, sqTaken, sqView>>
sqTurn == <<sqAt, sqGot, sqCarry, sqRunning, sqEvt, sqStop>>
sqInject == <<sqPending, sqFlush, sqWatch, sqCame>>
sqHistory == <<sqAcked, sqThread, sqTwice>>
sqVars == <<sqMay, sqWindow, sqUp, sqDown, sqStash, sqInflight, sqTurn, sqAnswered, sqInject,
            sqHistory>>

SqTurns == {"ws", "wake"}
SqFrame(kind, who) == [kind |-> kind, who |-> who]
SqRange(s) == {s[i] : i \in 1..Len(s)}

SqInit ==
    /\ sqMay \in SqCases
    /\ sqDraft = SqUser /\ sqQueue = <<>> /\ sqTaken = {} /\ sqView = "idle"
    /\ sqUp = <<>> /\ sqDown = <<>>
    /\ sqStash = {} /\ sqInflight = {}
    /\ sqAt = [k \in SqTurns |-> "off"] /\ sqGot = [k \in SqTurns |-> {}]
    /\ sqCarry = SqNone /\ sqRunning = SqNone /\ sqEvt = {} /\ sqStop = {}
    /\ sqAnswered = {}
    /\ sqPending = {} /\ sqFlush = FALSE /\ sqWatch = SqNone /\ sqCame = {}
    /\ sqAcked = {} /\ sqThread = {} /\ sqTwice = {}

\* the socket's job is in _TURN_TASKS
SqTask == sqAt["ws"] \notin {"off", "parked"}
\* _session_live
SqLive == sqRunning # SqNone \/ SqTask

SqGoes(k, at) == sqAt' = [sqAt EXCEPT ![k] = at]
SqTell(events) == Len(sqDown \o events) <= SqWire /\ sqDown' = sqDown \o events
SqSend(frames) == Len(sqUp \o frames) <= SqWire /\ sqUp' = sqUp \o frames
SqWrite(ms) == sqThread' = sqThread \cup ms /\ sqTwice' = sqTwice \cup (sqThread \cap ms)
-----------------------------------------------------------------------------
(* The window.                                                             *)

\* the composer: a message of its own, or one for the running turn
SqType(m) ==
    /\ m \in sqDraft /\ sqView # "parked"
    /\ sqDraft' = sqDraft \ {m}
    /\ IF sqView = "idle"
       THEN /\ SqSend(<<SqFrame("invoke", {m})>>)
            /\ sqView' = "busy" /\ UNCHANGED sqQueue
       ELSE /\ SqSend(<<SqFrame("steer", {m})>>)
            /\ sqQueue' = Append(sqQueue, m) /\ UNCHANGED sqView
    /\ UNCHANGED <<sqMay, sqTaken, sqDown, sqStash, sqInflight, sqTurn, sqAnswered, sqInject,
                   sqHistory>>

\* recallSteers
SqTakeBack ==
    /\ sqQueue' = <<>>
    /\ sqTaken' = sqTaken \cup SqRange(sqQueue)
    /\ IF sqQueue = <<>> THEN UNCHANGED sqUp
       ELSE SqSend(<<SqFrame("recall", SqRange(sqQueue))>>)

SqRecallKey ==
    /\ "recall" \in sqMay /\ sqQueue # <<>>
    /\ SqTakeBack
    /\ UNCHANGED <<sqMay, sqDraft, sqView, sqDown, sqStash, sqInflight, sqTurn, sqAnswered,
                   sqInject, sqHistory>>

SqStopKey ==
    /\ "stop" \in sqMay /\ sqView # "idle"
    /\ SqSend(<<SqFrame("stop", {})>>)
    /\ UNCHANGED <<sqMay, sqWindow, sqDown, sqStash, sqInflight, sqTurn, sqAnswered, sqInject,
                   sqHistory>>

\* answerQuestion: the queue is sent once more, then the answer
SqAnswerKey ==
    /\ sqView = "parked" /\ sqView' = "busy"
    /\ SqSend([i \in 1..Len(sqQueue) |-> SqFrame("steer", {sqQueue[i]})]
              \o <<SqFrame("answer", {})>>)
    /\ UNCHANGED <<sqMay, sqDraft, sqQueue, sqTaken, sqDown, sqStash, sqInflight, sqTurn,
                   sqAnswered, sqInject, sqHistory>>

\* mutant: an acknowledgement empties the queue
SqForgetAll(ms) == sqQueue' = <<>>

\* the queue loses ms and keeps its order: f names the places that stay
SqForget(ms) ==
    \E n \in 0..Len(sqQueue) : \E f \in [1..n -> 1..Len(sqQueue)] :
        /\ \A i, j \in 1..n : i < j => f[i] < f[j]
        /\ {f[i] : i \in 1..n} = {i \in 1..Len(sqQueue) : sqQueue[i] \notin ms}
        /\ sqQueue' = [i \in 1..n |-> sqQueue[f[i]]]

\* the window's handler of each event; the end of a turn promotes the oldest
\* message of the queue (flushSteerQueue), a stopped one takes all back
SqHear ==
    /\ sqDown # <<>> /\ sqDown' = Tail(sqDown)
    /\ LET e == Head(sqDown) IN
       \/ /\ e.kind = "start" /\ sqView' = "busy"
          /\ UNCHANGED <<sqDraft, sqQueue, sqTaken, sqUp>>
       \/ /\ e.kind = "ask" /\ sqView' = "parked"
          /\ UNCHANGED <<sqDraft, sqQueue, sqTaken, sqUp>>
       \/ /\ e.kind = "absorbed" /\ SqForget(e.who)
          /\ UNCHANGED <<sqDraft, sqTaken, sqView, sqUp>>
       \/ /\ e.kind = "answered" /\ SqForget(e.who)
          /\ sqView' = "busy" /\ UNCHANGED <<sqDraft, sqTaken, sqUp>>
       \/ /\ e.kind = "refused" /\ sqDraft' = sqDraft \cup e.who
          /\ UNCHANGED <<sqQueue, sqTaken, sqView, sqUp>>
       \/ /\ e.kind = "recalled"
          /\ sqDraft' = sqDraft \cup (sqTaken \cap e.who) /\ sqTaken' = sqTaken \ e.who
          /\ UNCHANGED <<sqQueue, sqView, sqUp>>
       \/ /\ e.kind = "stopped" /\ sqView' = "idle"
          /\ SqTakeBack /\ UNCHANGED sqDraft
       \/ /\ e.kind \in {"end", "error"} /\ UNCHANGED <<sqDraft, sqTaken>>
          /\ IF sqQueue = <<>>
             THEN sqView' = "idle" /\ UNCHANGED <<sqQueue, sqUp>>
             ELSE /\ SqSend(<<SqFrame("invoke", {Head(sqQueue)})>>)
                  /\ sqQueue' = Tail(sqQueue) /\ sqView' = "busy"
    /\ UNCHANGED <<sqMay, sqStash, sqInflight, sqTurn, sqAnswered, sqInject, sqHistory>>
-----------------------------------------------------------------------------
(* The socket's loop.                                                      *)

SqTakes(kind) == sqUp # <<>> /\ Head(sqUp).kind = kind /\ sqUp' = Tail(sqUp)

\* a running job refuses the turn and the window shows the message as unsent;
\* a wake turn does not, nor does a parked question, which the new turn drops
SqInvoke ==
    /\ SqTakes("invoke")
    /\ IF SqTask
       THEN /\ SqTell(<<SqFrame("refused", Head(sqUp).who)>>)
            /\ UNCHANGED sqTurn
       ELSE /\ SqGoes("ws", "ready") /\ sqRunning' = "ws" /\ sqEvt' = sqEvt \cup {"ws"}
            /\ sqCarry' = CHOOSE m \in Head(sqUp).who : TRUE
            /\ UNCHANGED <<sqDown, sqGot, sqStop>>
    /\ UNCHANGED <<sqMay, sqWindow, sqStash, sqInflight, sqAnswered, sqInject, sqHistory>>

\* the steer branch: an answered message is acknowledged again, a session at
\* rest refuses, a parked question takes the message as its answer
SqSteer ==
    /\ SqTakes("steer")
    /\ LET ms == Head(sqUp).who IN
       \/ /\ ms \subseteq sqAnswered
          /\ SqTell(<<SqFrame("answered", ms)>>)
          /\ UNCHANGED <<sqStash, sqTurn, sqAnswered, sqThread, sqTwice>>
       \/ /\ ~(ms \subseteq sqAnswered) /\ ~SqLive /\ "late" \in sqMay
          /\ SqTell(<<SqFrame("error", {})>>)
          /\ UNCHANGED <<sqStash, sqTurn, sqAnswered, sqThread, sqTwice>>
       \/ /\ ~(ms \subseteq sqAnswered) /\ SqLive /\ sqAt["ws"] = "parked"
          /\ sqAnswered' = sqAnswered \cup ms
          /\ SqTell(<<SqFrame("answered", ms)>>)
          /\ SqWrite(ms) /\ SqGoes("ws", "tools") /\ sqEvt' = sqEvt \cup {"ws"}
          /\ UNCHANGED <<sqStash, sqGot, sqCarry, sqRunning, sqStop>>
       \/ /\ ~(ms \subseteq sqAnswered) /\ SqLive /\ sqAt["ws"] # "parked"
          /\ sqStash' = sqStash \cup ms
          /\ UNCHANGED <<sqDown, sqTurn, sqAnswered, sqThread, sqTwice>>
    /\ UNCHANGED <<sqMay, sqWindow, sqInflight, sqInject, sqAcked>>

\* resume_pending_interrupt: only a parked question takes an answer
SqAnswer ==
    /\ SqTakes("answer")
    /\ IF sqAt["ws"] = "parked"
       THEN SqGoes("ws", "tools") /\ sqEvt' = sqEvt \cup {"ws"}
       ELSE UNCHANGED <<sqAt, sqEvt>>
    /\ UNCHANGED <<sqMay, sqWindow, sqDown, sqStash, sqInflight, sqGot, sqCarry, sqRunning, sqStop,
                   sqAnswered, sqInject, sqHistory>>

\* steer_recall
SqRecall ==
    /\ SqTakes("recall")
    /\ LET removed == sqStash \cap Head(sqUp).who IN
       /\ sqStash' = sqStash \ removed
       /\ IF removed = {} THEN UNCHANGED sqDown ELSE SqTell(<<SqFrame("recalled", removed)>>)
    /\ UNCHANGED <<sqMay, sqWindow, sqInflight, sqTurn, sqAnswered, sqInject, sqHistory>>

\* mutants: the end of a segment leaves all, or nothing
SqKeepAll == sqStash
SqKeepNone == {}

\* what the end of a segment leaves in the stash (steer_keep_channel)
SqKeep == sqStash \cap SqEvents

\* the stop branch, and _stop_parked_turn
SqStopFrame ==
    /\ SqTakes("stop")
    /\ \/ /\ sqAt["ws"] = "parked"
          /\ SqGoes("ws", "off") /\ sqRunning' = SqNone
          /\ SqWrite(sqInflight) /\ sqInflight' = {} /\ sqStash' = SqKeep
          /\ SqTell(<<SqFrame("stopped", {})>>)
          /\ UNCHANGED <<sqEvt, sqStop>>
       \/ /\ sqAt["ws"] # "parked"
          /\ sqStop' = IF SqLive THEN sqStop \cup sqEvt ELSE sqStop
          /\ UNCHANGED <<sqAt, sqRunning, sqInflight, sqStash, sqDown, sqEvt, sqThread, sqTwice>>
    /\ UNCHANGED <<sqMay, sqWindow, sqGot, sqCarry, sqAnswered, sqInject, sqAcked>>
-----------------------------------------------------------------------------
(* A turn, of the socket or of a wake.                                     *)

\* the preamble, then _run_stream under the lock
SqBegin ==
    /\ sqAt["ws"] = "ready" /\ SqGoes("ws", "run")
    /\ SqWrite({sqCarry}) /\ sqCarry' = SqNone
    /\ SqTell(<<SqFrame("start", {})>>)
    /\ UNCHANGED <<sqMay, sqWindow, sqUp, sqStash, sqInflight, sqGot, sqRunning, sqEvt, sqStop,
                   sqAnswered, sqInject, sqAcked>>

\* agent_node: drain, mark in flight, acknowledge
SqDrain(k) ==
    /\ sqAt[k] \in {"run", "tools"} /\ k \notin sqStop
    /\ SqGoes(k, "call")
    /\ sqStash' = {} /\ sqGot' = [sqGot EXCEPT ![k] = sqStash]
    /\ sqInflight' = sqInflight \cup sqStash
    /\ IF sqStash = {} THEN UNCHANGED <<sqDown, sqAcked>>
       ELSE /\ SqTell(<<SqFrame("absorbed", sqStash)>>)
            /\ sqAcked' = sqAcked \cup sqStash
    /\ UNCHANGED <<sqMay, sqWindow, sqUp, sqCarry, sqRunning, sqEvt, sqStop, sqAnswered, sqInject,
                   sqThread, sqTwice>>

\* the superstep commits: tool calls follow, or the turn has its answer
SqCommit(k) ==
    /\ sqAt[k] = "call" /\ k \notin sqStop
    /\ SqWrite(sqGot[k]) /\ sqGot' = [sqGot EXCEPT ![k] = {}]
    /\ sqInflight' = IF sqGot[k] = {} THEN sqInflight ELSE {}
    /\ \/ SqGoes(k, "tools") /\ UNCHANGED sqDown
       \/ SqGoes(k, "ended") /\ SqTell(<<SqFrame("end", {})>>)
    /\ UNCHANGED <<sqMay, sqWindow, sqUp, sqStash, sqCarry, sqRunning, sqEvt, sqStop, sqAnswered,
                   sqInject, sqAcked>>

\* a tool asks: the segment ends parked, what it drained goes back
SqAsk ==
    /\ "ask" \in sqMay /\ sqAt["ws"] = "tools" /\ "ws" \notin sqStop
    /\ SqGoes("ws", "parked") /\ sqEvt' = {}
    /\ sqStash' = sqStash \cup sqInflight /\ sqInflight' = {}
    /\ SqTell(<<SqFrame("ask", {})>>)
    /\ UNCHANGED <<sqMay, sqWindow, sqUp, sqGot, sqCarry, sqRunning, sqStop, sqAnswered, sqInject,
                   sqHistory>>

\* the model call fails: automatic retry from the checkpoint, or the turn ends
SqFail(k) ==
    /\ sqAt[k] = "call" /\ k \notin sqStop
    /\ sqGot' = [sqGot EXCEPT ![k] = {}]
    /\ \/ "transient" \in sqMay /\ SqGoes(k, "run") /\ UNCHANGED sqDown
       \/ "error" \in sqMay /\ SqGoes(k, "ended") /\ SqTell(<<SqFrame("error", {})>>)
    /\ UNCHANGED <<sqMay, sqWindow, sqUp, sqStash, sqInflight, sqCarry, sqRunning, sqEvt, sqStop,
                   sqAnswered, sqInject, sqHistory>>

\* mutant: the heal forgets what is in flight
SqStoppedUnhealed(k) ==
    /\ k \in sqStop /\ sqAt[k] \in {"run", "call", "tools"}
    /\ SqGoes(k, "ended") /\ sqGot' = [sqGot EXCEPT ![k] = {}]
    /\ UNCHANGED <<sqThread, sqTwice>> /\ sqInflight' = {}
    /\ SqTell(<<SqFrame("stopped", {})>>)
    /\ UNCHANGED <<sqMay, sqWindow, sqUp, sqStash, sqCarry, sqRunning, sqEvt, sqStop, sqAnswered,
                   sqInject, sqAcked>>

\* TurnStopped: the heal commits what is in flight
SqStopped(k) ==
    /\ k \in sqStop /\ sqAt[k] \in {"run", "call", "tools"}
    /\ SqGoes(k, "ended") /\ sqGot' = [sqGot EXCEPT ![k] = {}]
    /\ SqWrite(sqInflight) /\ sqInflight' = {}
    /\ SqTell(<<SqFrame("stopped", {})>>)
    /\ UNCHANGED <<sqMay, sqWindow, sqUp, sqStash, sqCarry, sqRunning, sqEvt, sqStop, sqAnswered,
                   sqInject, sqAcked>>

\* the finally of _stream_graph, and of the job: the registrations of the
\* session go, whichever turn they belong to, and so does the mark of a question
\* the other turn is parked at
SqFinish(k) ==
    /\ sqAt[k] = "ended"
    /\ sqAt' = [j \in SqTurns |-> IF j = k \/ sqAt[j] = "parked" THEN "off" ELSE sqAt[j]]
    /\ sqRunning' = SqNone /\ sqEvt' = {} /\ sqStop' = sqStop \ {k}
    /\ sqStash' = SqKeep /\ sqInflight' = {}
    /\ UNCHANGED <<sqMay, sqWindow, sqUp, sqDown, sqGot, sqCarry, sqAnswered, sqInject, sqHistory>>
-----------------------------------------------------------------------------
(* Events of background tasks.                                             *)

\* _steer_inject: one watcher per session
SqSteerIn(es) ==
    /\ sqStash' = sqStash \cup es
    /\ sqWatch' \in IF sqWatch # SqNone \/ es = {} THEN {sqWatch} ELSE es

\* on_task_event
SqEvent(e) ==
    /\ "event" \in sqMay /\ e \in SqEvents \ sqCame /\ sqCame' = sqCame \cup {e}
    /\ IF SqLive THEN SqSteerIn({e}) /\ UNCHANGED <<sqPending, sqFlush>>
       ELSE /\ sqPending' = sqPending \cup {e} /\ sqFlush' = TRUE
            /\ UNCHANGED <<sqStash, sqWatch>>
    /\ UNCHANGED <<sqMay, sqWindow, sqUp, sqDown, sqInflight, sqTurn, sqAnswered, sqHistory>>

\* _rescue_steer, one tick
SqWatchTick ==
    /\ sqWatch # SqNone /\ sqWatch' = SqNone
    /\ \/ sqWatch \notin sqStash /\ UNCHANGED <<sqStash, sqPending, sqFlush>>
       \/ /\ sqWatch \in sqStash /\ ~SqLive
          /\ sqStash' = sqStash \ {sqWatch}
          /\ sqPending' = sqPending \cup {sqWatch} /\ sqFlush' = TRUE
    /\ UNCHANGED <<sqMay, sqWindow, sqUp, sqDown, sqInflight, sqTurn, sqAnswered, sqCame, sqHistory>>

\* _flush_after: into the turn that runs by now, or a wake turn without the lock
SqFlushAll ==
    /\ sqFlush /\ sqFlush' = FALSE /\ sqPending' = {}
    /\ IF SqLive
       THEN SqSteerIn(sqPending) /\ UNCHANGED <<sqDown, sqTurn, sqThread, sqTwice>>
       ELSE /\ sqAt["wake"] = "off"
            /\ SqGoes("wake", "run") /\ sqRunning' = "wake" /\ sqEvt' = sqEvt \cup {"wake"}
            /\ SqWrite(sqPending) /\ SqTell(<<SqFrame("start", {})>>)
            /\ UNCHANGED <<sqStash, sqWatch, sqGot, sqCarry, sqStop>>
    /\ UNCHANGED <<sqMay, sqWindow, sqUp, sqInflight, sqAnswered, sqCame, sqAcked>>
-----------------------------------------------------------------------------
SqUserStep ==
    \/ \E m \in SqUser : SqType(m)
    \/ SqRecallKey \/ SqStopKey \/ SqAnswerKey

SqFrames == SqInvoke \/ SqSteer \/ SqAnswer \/ SqRecall \/ SqStopFrame

SqTurnStep(k) == SqDrain(k) \/ SqCommit(k) \/ SqStopped(k) \/ SqFinish(k)

SqNext ==
    \/ SqUserStep \/ SqHear \/ SqFrames \/ SqBegin \/ SqAsk
    \/ \E k \in SqTurns : SqTurnStep(k) \/ SqFail(k)
    \/ \E e \in SqEvents : SqEvent(e)
    \/ SqWatchTick \/ SqFlushAll

SqSpec == SqInit /\ [][SqNext]_sqVars

\* the event loop runs every task that is ready, and a socket delivers
SqFairness ==
    /\ WF_sqVars(SqHear) /\ WF_sqVars(SqFrames) /\ WF_sqVars(SqBegin)
    /\ \A k \in SqTurns : WF_sqVars(SqTurnStep(k))
    /\ WF_sqVars(SqWatchTick) /\ WF_sqVars(SqFlushAll)

SqFairSpec == SqSpec /\ SqFairness
-----------------------------------------------------------------------------
SqWired(kinds, wire) == UNION {wire[i].who : i \in {j \in 1..Len(wire) : wire[j].kind \in kinds}}

\* A message the window was told is absorbed, and has forgotten, is in the
\* thread or on its way there: in flight, in the stash, in a superstep.
SqServed == sqThread \cup sqInflight \cup sqStash \cup UNION {sqGot[k] : k \in SqTurns}

SqAckKept == sqAcked \subseteq SqServed

\* The same as long as no model call fails, and no stop meets a wake turn beside
\* the user's: parked questions, stops and a second turn lose no acknowledged
\* message.  Beside a wake turn the commit of one turn clears what is in flight
\* for both, so that a stop of the other one heals nothing.
SqAckSurvives ==
    sqMay \cap {"transient", "error"} = {} /\ ~({"stop", "event"} \subseteq sqMay) => SqAckKept

\* What the user wrote, and does not take back, is somewhere: with the user,
\* in the window, on the wire, with the server.
SqWordsKept ==
    sqMay \cap {"stop", "recall", "transient", "error"} = {} =>
        SqUser \subseteq sqDraft \cup SqRange(sqQueue) \cup SqServed \cup {sqCarry}
            \cup SqWired({"invoke"}, sqUp) \cup SqWired({"refused"}, sqDown)

\* No message is put into the thread twice: the stash and the window's queue
\* hold the same message, and it is given to the thread from one of them.
SqOnce == sqTwice = {}

\* The same where no question is parked, no wake turn runs and no message comes
\* late: the answer to that one does not say whom it refuses, and the window
\* sends the oldest message of its queue, which the next turn may hold already.
SqOnceUnasked == sqMay \cap {"ask", "event", "late"} = {} => SqOnce

\* Every event of a task reaches the thread of its session.
SqEventsArrive == \A e \in SqEvents : e \in sqCame ~> e \in sqThread
=============================================================================
