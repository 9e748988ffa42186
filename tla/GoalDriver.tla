---------------------------- MODULE GoalDriver ----------------------------
(***************************************************************************)
(* The goal of one session and the tasks that pursue it (api/sessions.py,  *)
(* goals/store.py, the goal tools, and the places of api/stream/ that arm  *)
(* a driver or pause the goal).                                            *)
(*                                                                         *)
(* A driver waits until the session is idle, leaves the user a moment, and *)
(* runs one turn under the session's lock, in its own coroutine: whoever   *)
(* cancels the driver cancels the turn.  The registry holds one driver; it *)
(* is armed after every turn of the user, when a socket opens, and by the  *)
(* requests that set or resume a goal.                                     *)
(*                                                                         *)
(* One action is what a coroutine does between two awaits.  Texts, time    *)
(* and the accounting of a turn are left out; the commands /goal pause,    *)
(* resume and clear do in one step what the requests here do in two.  What *)
(* the heal of a stopped question writes belongs to the turn's life cycle. *)
(***************************************************************************)
EXTENDS Naturals

CONSTANTS
    GdTasks,    \* driver tasks that can be alive at the same time
    GdAgents,   \* agents a session can have
    GdNone,     \* no driver, no goal, nobody
    GdUser,     \* a turn of the user
    GdGoals,    \* goals set in a session's life (a bound)
    GdCases     \* what may happen: sets of "pause", "resume", "clear", "stop",
                \* "switch", "park", "restart"

ASSUME GdDistinct == GdNone \notin GdTasks /\ GdUser \notin GdTasks \cup {GdNone}
ASSUME GdNumbers == GdGoals \in Nat /\ GdAgents # {} /\ GdNone \notin GdAgents

VARIABLES
    gdMay,      \* the case
    gdGoal,     \* the goal on disk: which one, its status and its agent
    gdAgent,    \* the agent of the session
    gdLoaded,   \* the session is in _SESSIONS
    gdReg,      \* _GOAL_DRIVERS
    gdAt,       \* where each task is
    gdFor,      \* the goal_id it has read
    gdCut,      \* tasks with a cancellation on its way
    gdRunning,  \* _RUNNING_TURNS: GdNone, GdUser or the driver whose turn it is
    gdPark,     \* _PENDING_RESUME
    gdLock,     \* who holds the turn lock
    gdTalk,     \* the user's turn: "no", "queued", "turn"
    gdReq,      \* requests that have written the goal and still have to act
    gdSlip      \* history: a slip of GdPursued

gdDrivers == <<gdReg, gdAt, gdFor, gdCut>>
gdTurns == <<gdRunning, gdPark, gdLock, gdTalk>>
gdVars == <<gdMay, gdGoal, gdAgent, gdLoaded, gdDrivers, gdTurns, gdReq, gdSlip>>

GdPlaces == {"none", "new", "top", "wait", "grace", "lock", "turn", "drain", "leave"}
GdAlive(d) == gdAt[d] # "none"
GdActive == gdGoal.status = "active"
GdOpen == gdGoal.status \notin {"none", "complete"}
\* _goal_interrupted
GdInterrupted == gdRunning # GdNone \/ gdPark
\* the goal a driver has read is still the one to pursue
GdStill(d) == GdActive /\ gdGoal.id = gdFor[d]
GdMoves(d, from) == gdAt[d] = from /\ d \notin gdCut
GdMove(d, to) == gdAt' = [gdAt EXCEPT ![d] = to]

\* mutant: a driver that ends empties the registry, whoever is in it
GdExitAny(d) ==
    /\ GdMove(d, "none") /\ gdCut' = gdCut \ {d} /\ gdFor' = [gdFor EXCEPT ![d] = 0]
    /\ gdReg' = GdNone

\* the driver's finally: it leaves the registry only if it is in it
GdExit(d) ==
    /\ GdMove(d, "none") /\ gdCut' = gdCut \ {d} /\ gdFor' = [gdFor EXCEPT ![d] = 0]
    /\ gdReg' = IF gdReg = d THEN GdNone ELSE gdReg

\* mutant: the cancelled driver stays in the registry until it ends
GdStopDriverKept ==
    /\ gdCut' = IF gdReg = GdNone THEN gdCut ELSE gdCut \cup {gdReg}
    /\ UNCHANGED <<gdAt, gdFor, gdReg>>

\* _stop_goal_driver
GdStopDriver ==
    /\ gdCut' = IF gdReg = GdNone THEN gdCut ELSE gdCut \cup {gdReg}
    /\ gdReg' = GdNone
    /\ UNCHANGED <<gdAt, gdFor>>

\* a driver that will not get to the present goal: after a turn it looks again
GdOutgoing(d) ==
    gdAt[d] = "leave" \/ (gdAt[d] \in {"wait", "grace", "lock"} /\ gdFor[d] # gdGoal.id)

\* goal_create and goal_update, in anybody's turn
GdToolWrites ==
    \/ /\ ~GdOpen /\ gdGoal.id < GdGoals
       /\ gdGoal' = [id |-> gdGoal.id + 1, status |-> "active", agent |-> GdNone]
    \/ /\ gdGoal.status # "none"
       /\ \E status \in {"complete", "blocked"} : gdGoal' = [gdGoal EXCEPT !.status = status]

\* _start_goal_driver
GdArm(loaded) ==
    IF ~loaded
    THEN UNCHANGED <<gdDrivers, gdSlip>>
    ELSE IF ~GdActive
    THEN GdStopDriver /\ UNCHANGED gdSlip
    ELSE IF gdReg # GdNone
    THEN gdSlip' = (gdSlip \/ GdOutgoing(gdReg)) /\ UNCHANGED gdDrivers
    ELSE /\ \E d \in GdTasks :
              /\ ~GdAlive(d) /\ GdMove(d, "new") /\ gdReg' = d
         /\ gdSlip' = FALSE /\ UNCHANGED <<gdFor, gdCut>>

GdInit ==
    /\ gdMay \in GdCases
    /\ gdGoal = [id |-> 0, status |-> "none", agent |-> GdNone]
    /\ gdAgent \in GdAgents /\ gdLoaded = TRUE
    /\ gdReg = GdNone /\ gdAt = [d \in GdTasks |-> "none"]
    /\ gdFor = [d \in GdTasks |-> 0] /\ gdCut = {}
    /\ gdRunning = GdNone /\ gdPark = FALSE /\ gdLock = GdNone /\ gdTalk = "no"
    /\ gdReq = {} /\ gdSlip = FALSE
-----------------------------------------------------------------------------
(* The driver.                                                             *)

GdKeep == UNCHANGED <<gdMay, gdAgent, gdLoaded, gdReq, gdSlip>>

\* the head of the loop: leave, pause a goal of another agent, or take it up
GdLook(d) ==
    \/ ~GdActive /\ GdExit(d) /\ UNCHANGED gdGoal
    \/ /\ GdActive /\ gdGoal.agent \notin {GdNone, gdAgent}
       /\ gdGoal' = [gdGoal EXCEPT !.status = "paused"]
       /\ GdMove(d, "leave") /\ UNCHANGED <<gdReg, gdFor, gdCut>>
    \/ /\ GdActive /\ gdGoal.agent \in {GdNone, gdAgent}
       /\ gdFor' = [gdFor EXCEPT ![d] = gdGoal.id]
       /\ GdMove(d, IF GdInterrupted THEN "wait" ELSE "grace")
       /\ UNCHANGED <<gdGoal, gdReg, gdCut>>

GdTop(d) ==
    /\ GdMoves(d, "new") \/ GdMoves(d, "top")
    /\ GdLook(d) /\ UNCHANGED gdTurns /\ GdKeep

\* a lap of the idle wait
GdWait(d) ==
    /\ GdMoves(d, "wait")
    /\ \/ ~GdStill(d) /\ GdExit(d)
       \/ GdStill(d) /\ ~GdInterrupted /\ GdMove(d, "grace") /\ UNCHANGED <<gdReg, gdFor, gdCut>>
    /\ UNCHANGED <<gdGoal, gdTurns>> /\ GdKeep

\* the grace period is over, or a turn of the user ends it
GdGrace(d) ==
    /\ GdMoves(d, "grace")
    /\ \/ ~GdStill(d) /\ GdExit(d)
       \/ GdStill(d) /\ GdMove(d, "lock") /\ UNCHANGED <<gdReg, gdFor, gdCut>>
    /\ UNCHANGED <<gdGoal, gdTurns>> /\ GdKeep

\* the last looks, under the lock
GdGo(d) ==
    /\ GdMoves(d, "lock") /\ gdLock = GdNone
    /\ \/ GdInterrupted /\ GdLook(d) /\ UNCHANGED gdTurns
       \/ /\ ~GdInterrupted /\ ~GdStill(d) /\ GdExit(d)
          /\ UNCHANGED <<gdGoal, gdTurns>>
       \/ /\ ~GdInterrupted /\ GdStill(d) /\ GdMove(d, "turn")
          /\ gdRunning' = d /\ gdLock' = d
          /\ UNCHANGED <<gdGoal, gdReg, gdFor, gdCut, gdPark, gdTalk>>
    /\ GdKeep

\* a tool of the turn writes the goal, whichever it is by now; it runs in a
\* thread, where the listener finds no loop
GdVerdict(d) ==
    /\ GdMoves(d, "turn") /\ GdToolWrites
    /\ UNCHANGED <<gdDrivers, gdTurns>> /\ GdKeep

\* the turn stops at a permission card and drains its stream
GdAsk(d) ==
    /\ "park" \in gdMay /\ GdMoves(d, "turn") /\ GdMove(d, "drain")
    /\ gdPark' = TRUE /\ gdRunning' = d
    /\ UNCHANGED <<gdGoal, gdReg, gdFor, gdCut, gdLock, gdTalk>> /\ GdKeep

\* the end of the turn, of _run_goal_turn and of the loop's lap
GdEnd(d) ==
    /\ GdMoves(d, "turn") \/ GdMoves(d, "drain")
    /\ gdLock' = GdNone /\ gdRunning' = IF gdPark THEN gdRunning ELSE GdNone
    /\ \/ GdMove(d, "top") /\ UNCHANGED <<gdGoal, gdReg, gdFor, gdCut, gdSlip>>
       \/ /\ gdAt[d] = "turn"
          /\ IF gdGoal.status # "none" /\ gdGoal.id = gdFor[d]
             THEN /\ gdGoal' = [gdGoal EXCEPT !.status = "blocked"]
                  /\ GdMove(d, "leave") /\ UNCHANGED <<gdReg, gdFor, gdCut, gdSlip>>
             ELSE GdExit(d) /\ gdSlip' = (gdSlip \/ GdActive) /\ UNCHANGED gdGoal
    /\ UNCHANGED <<gdMay, gdAgent, gdLoaded, gdReq, gdPark, gdTalk>>

GdLeave(d) ==
    /\ GdMoves(d, "leave") /\ GdExit(d)
    /\ UNCHANGED <<gdGoal, gdTurns>> /\ GdKeep

\* the cancellation arrives at the await the driver is in; in a turn it tears it
GdCancelled(d) ==
    /\ d \in gdCut /\ GdExit(d)
    /\ IF gdAt[d] \in {"turn", "drain"}
       THEN gdLock' = GdNone /\ gdRunning' = IF gdPark THEN gdRunning ELSE GdNone
       ELSE UNCHANGED <<gdLock, gdRunning>>
    /\ UNCHANGED <<gdGoal, gdPark, gdTalk>> /\ GdKeep
-----------------------------------------------------------------------------
(* The user's turns and the socket.                                        *)

GdTalkOnly == UNCHANGED <<gdMay, gdLoaded, gdReq>>

\* an invoke is accepted, perhaps for another agent
GdInvoke ==
    /\ gdLoaded /\ gdTalk = "no" /\ ~gdPark
    /\ gdTalk' = "queued" /\ gdRunning' = GdUser
    /\ \E agent \in GdAgents :
         /\ agent # gdAgent => "switch" \in gdMay
         /\ gdAgent' = agent
    /\ UNCHANGED <<gdGoal, gdDrivers, gdPark, gdLock, gdSlip>> /\ GdTalkOnly

\* the answer of a question: submit_resume
GdAnswer ==
    /\ gdLoaded /\ gdPark /\ gdTalk = "no"
    /\ gdPark' = FALSE /\ gdTalk' = "queued"
    /\ UNCHANGED <<gdGoal, gdAgent, gdDrivers, gdRunning, gdLock, gdSlip>> /\ GdTalkOnly

GdTalkGo ==
    /\ gdTalk = "queued" /\ gdLock = GdNone
    /\ gdTalk' = "turn" /\ gdLock' = GdUser /\ gdRunning' = GdUser
    /\ UNCHANGED <<gdGoal, gdAgent, gdDrivers, gdPark, gdSlip>> /\ GdTalkOnly

\* the goal tools in a turn of the user
GdTool ==
    /\ gdTalk = "turn" /\ GdToolWrites
    /\ UNCHANGED <<gdAgent, gdDrivers, gdTurns, gdSlip>> /\ GdTalkOnly

\* the turn ends or stops at a question; the driver is armed either way
GdTalkEnd ==
    /\ gdTalk = "turn"
    /\ gdTalk' = "no" /\ gdLock' = GdNone
    /\ \/ gdRunning' = GdNone /\ UNCHANGED gdPark
       \/ "park" \in gdMay /\ gdPark' = TRUE /\ UNCHANGED gdRunning
    /\ GdArm(TRUE)
    /\ UNCHANGED <<gdGoal, gdAgent>> /\ GdTalkOnly

\* the turn breaks and arms nothing
GdTalkFail ==
    /\ gdTalk = "turn" /\ gdTalk' = "no" /\ gdLock' = GdNone /\ gdRunning' = GdNone
    /\ gdSlip' = (gdSlip \/ (GdActive /\ (gdReg = GdNone \/ GdOutgoing(gdReg))))
    /\ UNCHANGED <<gdGoal, gdAgent, gdDrivers, gdPark>> /\ GdTalkOnly

\* a window opens: the session is loaded, an open question registered again
GdConnect ==
    /\ gdLoaded' = TRUE
    /\ gdRunning' = IF ~gdLoaded /\ gdPark THEN GdUser ELSE gdRunning
    /\ GdArm(TRUE)
    /\ UNCHANGED <<gdMay, gdGoal, gdAgent, gdPark, gdLock, gdTalk, gdReq>>

\* the stop button pauses the goal, lets go of a question, and leaves the
\* driver alone; a turn it signals ends like any other
GdStop ==
    /\ gdLoaded /\ "stop" \in gdMay
    /\ gdGoal' = IF GdActive THEN [gdGoal EXCEPT !.status = "paused"] ELSE gdGoal
    /\ gdPark' = FALSE /\ gdRunning' = IF gdPark THEN GdNone ELSE gdRunning
    /\ UNCHANGED <<gdAgent, gdDrivers, gdLock, gdTalk, gdSlip>> /\ GdTalkOnly

\* the process dies; a question stays in the checkpoint
GdRestart ==
    /\ gdLoaded /\ "restart" \in gdMay
    /\ gdLoaded' = FALSE /\ gdReg' = GdNone /\ gdCut' = {}
    /\ gdAt' = [d \in GdTasks |-> "none"] /\ gdFor' = [d \in GdTasks |-> 0]
    /\ gdRunning' = GdNone /\ gdLock' = GdNone /\ gdTalk' = "no" /\ gdReq' = {}
    /\ gdSlip' = FALSE
    /\ UNCHANGED <<gdMay, gdGoal, gdAgent, gdPark>>
-----------------------------------------------------------------------------
(* The requests.  Between the write of the goal and the rest, an event is  *)
(* sent to the session's windows.                                          *)

GdRequestOnly == UNCHANGED <<gdMay, gdAgent, gdLoaded, gdTurns>>

\* PUT status: paused or active
GdPut(act, status, rest) ==
    /\ act \in gdMay /\ gdGoal.status # "none"
    /\ gdGoal' = [gdGoal EXCEPT !.status = status]
    /\ gdReq' = gdReq \cup {rest}
    /\ UNCHANGED <<gdDrivers, gdSlip>> /\ GdRequestOnly

GdPause == GdPut("pause", "paused", "halt")
GdResume == gdGoal.status # "complete" /\ GdPut("resume", "active", "arm")

\* PUT objective, confirmed where a goal is open
GdSet ==
    /\ gdGoal.id < GdGoals
    /\ gdGoal' = [id |-> gdGoal.id + 1, status |-> "active", agent |-> gdAgent]
    /\ gdReq' = gdReq \cup {"arm"}
    /\ UNCHANGED <<gdDrivers, gdSlip>> /\ GdRequestOnly

GdClear ==
    /\ "clear" \in gdMay /\ gdGoal.status # "none"
    /\ gdGoal' = [gdGoal EXCEPT !.status = "none"]
    /\ GdStopDriver
    /\ UNCHANGED <<gdReq, gdSlip>> /\ GdRequestOnly

GdHalt ==
    /\ "halt" \in gdReq /\ gdReq' = gdReq \ {"halt"}
    /\ GdStopDriver /\ gdSlip' = (gdSlip \/ GdActive)
    /\ UNCHANGED gdGoal /\ GdRequestOnly

GdRearm ==
    /\ "arm" \in gdReq /\ gdReq' = gdReq \ {"arm"}
    /\ GdArm(gdLoaded)
    /\ UNCHANGED gdGoal /\ GdRequestOnly

GdDriverStep(d) ==
    GdTop(d) \/ GdWait(d) \/ GdGrace(d) \/ GdGo(d) \/ GdVerdict(d) \/ GdAsk(d) \/ GdEnd(d)
    \/ GdLeave(d) \/ GdCancelled(d)

GdNext ==
    \/ \E d \in GdTasks : GdDriverStep(d)
    \/ GdInvoke \/ GdAnswer \/ GdTalkGo \/ GdTool \/ GdTalkEnd \/ GdTalkFail \/ GdConnect
    \/ GdStop \/ GdRestart
    \/ GdPause \/ GdResume \/ GdSet \/ GdClear \/ GdHalt \/ GdRearm

GdSpec == GdInit /\ [][GdNext]_gdVars
-----------------------------------------------------------------------------
\* A session is pursued by one driver at a time: the one in the registry is the
\* only one that nobody has cancelled.
GdOneDriver == \A d \in GdTasks : GdAlive(d) /\ d \notin gdCut => gdReg = d

\* It will get to the present goal.
GdPursues(d) == GdAlive(d) /\ d \notin gdCut /\ ~GdOutgoing(d)

\* An active goal has a driver that will get to it whenever no turn of the user
\* and no request is under way, except after a slip: an arming met a driver of
\* another goal or one on its way out, a pause acted after a resume, the turn
\* that set the goal broke, or one that pursued another did.
GdPursued ==
    GdActive /\ gdLoaded /\ gdTalk = "no" /\ gdReq = {} /\ ~gdSlip =>
        \E d \in GdTasks : GdPursues(d)

\* Pausing, completing or clearing a goal lets the turn under way finish
\* (docs/goal-design.md).  It does not hold: a paused goal's driver is cancelled
\* inside its turn when a window opens or a turn of the user ends.
GdNeverTorn == \A d \in gdCut : gdAt[d] # "turn"
=============================================================================
