------------------------- MODULE SubagentLifecycle -------------------------
(***************************************************************************)
(* What a subagent's session meta and its parent may rely on, whatever     *)
(* turns, wakes, stops and retries the scheduler interleaves: a subagent   *)
(* lives (running, or waiting for its children), ends once, reports at     *)
(* most once per life and only a life that ended done or failed, and       *)
(* comes back only when the user retries a failure.                        *)
(***************************************************************************)
EXTENDS Naturals

CONSTANTS Session, Root

VARIABLES status, reports, life

vars == <<status, reports, life>>

Subagent == Session \ {Root}
Live == {"running", "waiting"}
Reporting == {"done", "failed"}

Init ==
    /\ status = [s \in Session |-> IF s = Root THEN "main" ELSE "none"]
    /\ reports = [s \in Session |-> 0]
    /\ life = [s \in Session |-> 0]

Move(s, from, to) ==
    /\ status[s] \in from
    /\ status' = [status EXCEPT ![s] = to]
    /\ UNCHANGED <<reports, life>>

Create(s) == Move(s, {"none"}, "running")
Wait(s) == Move(s, {"running"}, "waiting")
Wake(s) == Move(s, {"waiting"}, "running")
Finish(s, res) == Move(s, Live, res)

\* the lives of s that ended with something to report
Reportable(s) == life[s] + IF status[s] \in Reporting THEN 1 ELSE 0

Report(s) ==
    /\ reports[s] < Reportable(s)
    /\ reports' = [reports EXCEPT ![s] = @ + 1]
    /\ UNCHANGED <<status, life>>

Revive(s) ==
    /\ status[s] = "failed"
    /\ status' = [status EXCEPT ![s] = "running"]
    /\ life' = [life EXCEPT ![s] = @ + 1]
    /\ UNCHANGED reports

\* a new process settles what the old one left alive and counts afresh
Restart ==
    /\ status' = [s \in Session |-> IF status[s] \in Live THEN "stopped"
                                    ELSE status[s]]
    /\ reports' = [s \in Session |-> 0]
    /\ life' = [s \in Session |-> 0]

Next ==
    \/ \E s \in Subagent :
         \/ Create(s) \/ Wait(s) \/ Wake(s) \/ Report(s) \/ Revive(s)
         \/ \E res \in {"done", "failed", "stopped"} : Finish(s, res)
    \/ Restart

Spec == Init /\ [][Next]_vars
=============================================================================
