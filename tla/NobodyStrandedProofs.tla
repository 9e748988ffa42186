-------------------------- MODULE NobodyStrandedProofs ------------------------
(***************************************************************************)
(* Nobody is stranded (NoneStranded): proofs about SubagentScheduler that  *)
(* continue SubagentSchedulerProofs, whose IInv, Locks and Clean they use. *)
(* The invariant is Tended: whoever has not ended is parked, or a          *)
(* coroutine of its own will take care of it, or it waits and has a live   *)
(* descendant, or a report or the end of a child is about to wake it.      *)
(***************************************************************************)
EXTENDS SubagentSchedulerProofs

\* There are at most two layers of subagents, no two stops lie on one path,
\* nobody asks below a stopped session, and no failed subagent is revived
\* (section 4 of the README says what each is for).
Shallow == \A c \in Subagent : Parent[c] = Root \/ Parent[Parent[c]] = Root
Uneventful == Shallow /\ StopsApart /\ \A script \in Scripts : \A s \in Session :
    <<"retry", s>> \notin script

\* what t will do next takes care of its session: it runs a turn, its gate,
\* a finalizer or a heal there
Minds(t) ==
    \/ t.kind \in {"brief", "wrap"} /\ t.pc \in {"create", "armed", "start"}
    \/ t.kind \in {"wake", "settle"} /\ t.pc = "start"
    \/ t.pc \in {"queued", "flip", "stream", "drain", "seg", "rpush", "report",
                 "heal", "bcast"}
Minded(s) == \E t \in tasks : t.s = s /\ Minds(t)

\* a report, or the end of a child, is about to wake p
Flushing(t) == t.kind = "flush" /\ t.pc = "start"
Woken(p) ==
    \/ pending[p] # {} /\ (p \in timer \/ \E t \in tasks : t.s = p /\ Flushing(t))
    \/ \E t \in tasks : t.pc = "push" /\ Parent[t.s] = p

Safe(s) ==
    \/ parked[s] \/ s \in cut \/ Minded(s)
    \/ status[s] = "waiting" /\ (LiveBelow(s) # {} \/ Woken(s))

\* the finalizer of s was there, or is at work
Gone(s) == s = Root \/ status[s] \in Terminal
             \/ \E t \in tasks : t.s = s /\ t.pc = "report"

\* a finalizer has written its status, a wake that flips has found one
Ending(t) ==
    /\ t.pc = "push" => t.res \in Terminal /\ status[t.s] = t.res
    /\ t.pc = "report" => t.res = "done"
    /\ Unmarks(t) => Gone(t.s)
    /\ t.pc = "flip" => status[t.s] # "none"

Tended ==
    /\ \A t \in tasks : Ending(t)
    /\ \A s \in Subagent : status[s] \in Live => Safe(s)

\* nobody is forgotten or revived
Lasting ==
    /\ \A s \in Session : status[s] # "none" => status'[s] # "none"
    /\ \A s \in Subagent : status[s] \in Terminal => status'[s] = status[s]

\* of a new coroutine the same, when its finalizer may be an old one
Leaving(v) ==
    /\ v.pc = "push" => v.res \in Terminal /\ status'[v.s] = v.res
    /\ v.pc = "report" => v.res = "done"
    /\ Unmarks(v) => \/ v.s = Root \/ status'[v.s] \in Terminal
                     \/ \E u \in tasks : u.s = v.s /\ u.pc = "report"
    /\ v.pc = "flip" => status'[v.s] # "none"

\* What is below a subagent are its children.
LEMMA BelowShallow ==
    ASSUME Shallow, NEW s \in Subagent, NEW c \in Subagent
    PROVE  s \in Above(c) <=> Parent[c] = s
BY DEF Shallow, Above, Subagent

\* Outside of S nothing changes, and nobody of X took care.
Afar(X, S) ==
    /\ \A s \in Subagent : s \notin S =>
         /\ status'[s] = status[s] /\ pending'[s] = pending[s]
         /\ parked[s] => parked'[s]
         /\ s \in timer => s \in timer'
    /\ \A u \in X : u \in tasks =>
         /\ Minds(u) \/ Flushing(u) => u.s \in S
         /\ u.pc = "push" => Parent[u.s] \in S
         /\ u.pc = "report" => status'[u.s] \in Terminal

\* A coroutine that goes on takes care as before.
LEMMA TwinMinds ==
    ASSUME NEW u, NEW v, Twin(u, v)
    PROVE  /\ v.s = u.s /\ v.pc = u.pc /\ v.res = u.res
           /\ Minds(u) => Minds(v)
           /\ Flushing(u) => Flushing(v)
           /\ Unmarks(v) => Unmarks(u)
BY DEF Twin, Minds, Flushing, Unmarks

\* Who is far from a step stays safe, unless its last child ends unreported.
LEMMA AfarSafe ==
    ASSUME IInv, Shallow, NEW X, NEW N, NEW D, NEW S, Evolves(X, N, D),
           Afar(X, S), cut \subseteq cut',
           \A c \in Subagent : c \in S /\ status[c] \in Live /\ Parent[c] \notin S =>
               status'[c] \in Live \/ \E v \in N : v.s = c /\ v.pc = "push",
           NEW s \in Subagent, s \notin S, Safe(s)
    PROVE  Safe(s)'
<1>1. /\ \A v \in N : v \in tasks'
      /\ \A u \in tasks \ X : \E v \in tasks' : Twin(u, v)
  BY Evolved
<1>2. /\ status'[s] = status[s] /\ pending'[s] = pending[s]
      /\ parked[s] => parked'[s]
      /\ s \in timer => s \in timer'
  BY DEF Afar
<1>3. CASE parked[s] \/ s \in cut
  BY <1>2, <1>3 DEF Safe
<1>4. CASE Minded(s)
  <2>1. PICK u \in tasks : u.s = s /\ Minds(u)
    BY <1>4 DEF Minded
  <2>2. u \notin X
    BY <2>1 DEF Afar
  <2>3. PICK v \in tasks' : Twin(u, v)
    BY <1>1, <2>1, <2>2
  <2>4. v.s = s /\ Minds(v)
    BY <2>1, <2>3, TwinMinds
  <2> QED
    BY <2>3, <2>4 DEF Safe, Minded
<1>5. CASE status[s] = "waiting" /\ LiveBelow(s) # {}
  <2>1. PICK c \in Subagent : s \in Above(c) /\ status[c] \in Live
    BY <1>5 DEF LiveBelow, Below
  <2>2. Parent[c] = s
    BY <2>1, BelowShallow
  <2>3. CASE status'[c] \in Live
    <3>1. c \in LiveBelow(s)'
      BY <2>1, <2>3 DEF LiveBelow, Below, Live
    <3> QED
      BY <1>2, <1>5, <3>1 DEF Safe
  <2>4. CASE status'[c] \notin Live
    <3>1. c \in S
      BY <2>1, <2>4 DEF Afar
    <3>2. PICK v \in N : v.s = c /\ v.pc = "push"
      BY <2>1, <2>2, <2>4, <3>1
    <3>3. Woken(s)'
      BY <1>1, <2>2, <3>2 DEF Woken
    <3> QED
      BY <1>2, <1>5, <3>3 DEF Safe
  <2> QED
    BY <2>3, <2>4
<1>6. CASE status[s] = "waiting" /\ Woken(s)
  <2>1. Woken(s)'
    <3>1. CASE pending[s] # {} /\ s \in timer
      BY <1>2, <3>1 DEF Woken
    <3>2. CASE pending[s] # {} /\ \E t \in tasks : t.s = s /\ Flushing(t)
      <4>1. PICK u \in tasks : u.s = s /\ Flushing(u)
        BY <3>2
      <4>2. u \notin X
        BY <4>1 DEF Afar
      <4>3. PICK v \in tasks' : Twin(u, v)
        BY <1>1, <4>1, <4>2
      <4>4. v.s = s /\ Flushing(v)
        BY <4>1, <4>3, TwinMinds
      <4> QED
        BY <1>2, <3>2, <4>3, <4>4 DEF Woken
    <3>3. CASE \E t \in tasks : t.pc = "push" /\ Parent[t.s] = s
      <4>1. PICK u \in tasks : u.pc = "push" /\ Parent[u.s] = s
        BY <3>3
      <4>2. u \notin X
        BY <4>1 DEF Afar
      <4>3. PICK v \in tasks' : Twin(u, v)
        BY <1>1, <4>1, <4>2
      <4>4. v.s = u.s /\ v.pc = "push"
        BY <4>1, <4>3, TwinMinds
      <4> QED
        BY <4>1, <4>3, <4>4 DEF Woken
    <3> QED
      BY <1>6, <3>1, <3>2, <3>3 DEF Woken
  <2> QED
    BY <1>2, <1>6, <2>1 DEF Safe
<1> QED
  BY <1>3, <1>4, <1>5, <1>6 DEF Safe

\* A step keeps Tended if all is well where it acts, and what it leaves is
\* on its way.
LEMMA TendedKept ==
    ASSUME IInv, Shallow, Lasting, Tended, NEW X, NEW N, NEW D, NEW S,
           Evolves(X, N, D), Afar(X, S), cut \subseteq cut',
           \A c \in Subagent : c \in S /\ status[c] \in Live /\ Parent[c] \notin S =>
               status'[c] \in Live \/ \E v \in N : v.s = c /\ v.pc = "push",
           \A s \in Subagent : s \in S /\ status'[s] \in Live => Safe(s)',
           \A v \in N : Leaving(v)
    PROVE  Tended'
<1>1. /\ \A v \in tasks' : v \in N \/ \E u \in tasks \ X : Twin(u, v)
      /\ \A u \in tasks \ X : \E v \in tasks' : Twin(u, v)
  BY Evolved
<1>2. ASSUME NEW s \in Subagent, status'[s] \in Live
      PROVE  Safe(s)'
  <2>1. CASE s \in S
    BY <1>2, <2>1
  <2>2. CASE s \notin S
    <3>1. status[s] \in Live
      BY <1>2, <2>2 DEF Afar
    <3>2. Safe(s)
      BY <3>1 DEF Tended
    <3> QED
      BY <2>2, <3>2, AfarSafe
  <2> QED
    BY <2>1, <2>2
<1>3. \A u \in tasks : u.s \in Session /\ (u.pc \in FinPC => u.s \in Subagent)
  BY Types, FinParent DEF Task
<1>4. ASSUME NEW u \in tasks, u.pc = "report"
      PROVE  status'[u.s] \in Terminal \/ \E v \in tasks' : v.s = u.s /\ v.pc = "report"
  <2>1. CASE u \in X
    BY <1>4, <2>1 DEF Afar
  <2>2. CASE u \notin X
    <3>1. PICK v \in tasks' : Twin(u, v)
      BY <1>1, <2>2
    <3> QED
      BY <1>4, <3>1 DEF Twin
  <2> QED
    BY <2>1, <2>2
<1>5. ASSUME NEW v \in tasks'
      PROVE  Ending(v)'
  <2>1. CASE v \in N
    <3>1. Leaving(v)
      BY <2>1
    <3>2. Unmarks(v) => Gone(v.s)'
      BY <1>4, <3>1 DEF Leaving, Gone
    <3> QED
      BY <3>1, <3>2 DEF Leaving, Ending, Unmarks
  <2>2. CASE v \notin N
    <3>1. PICK u \in tasks \ X : Twin(u, v)
      BY <1>1, <2>2
    <3>2. /\ v.s = u.s /\ v.pc = u.pc /\ v.res = u.res
          /\ Unmarks(v) => Unmarks(u)
      BY <3>1, TwinMinds
    <3>3. Ending(u) /\ u.s \in Session /\ (u.pc \in FinPC => u.s \in Subagent)
      BY <1>3, <3>1 DEF Tended
    <3>4. v.pc = "push" => v.res \in Terminal /\ status'[v.s] = v.res
      BY <3>2, <3>3 DEF Ending, Lasting, FinPC
    <3>5. Gone(u.s) => Gone(u.s)'
      BY <1>4, <3>3 DEF Gone, Lasting, Subagent
    <3>6. v.pc = "flip" => status'[v.s] # "none"
      BY <3>2, <3>3 DEF Ending, Lasting
    <3> QED
      BY <3>2, <3>3, <3>4, <3>5, <3>6 DEF Ending, Unmarks
  <2> QED
    BY <2>1, <2>2
<1> QED
  BY <1>2, <1>5 DEF Tended

----------------------------------------------------------------------------
(* What a finalizer or a gate leaves of a session.                         *)

\* V takes care of s in place of X, leaves that to others, has s wait for a
\* child or the user, or has finalized it.
Closed(X, V, s) ==
    /\ \A v \in V : v.s = s /\ Leaving(v)
    /\ status'[s] \in Live =>
         \/ \E v \in V : Minds(v)
         \/ \E u \in tasks \ X : u.s = s /\ Minds(u)
         \/ status'[s] = "waiting" /\ (LiveBelow(s) # {})'
         \/ parked'[s]
    /\ status[s] \in Live /\ status'[s] \notin Live => \E v \in V : v.pc = "push"

\* Who asks for a finalizer gets one, or finds one at work.
LEMMA FinClosed ==
    ASSUME IInv, Tended, NEW t \in Task, t.s \in Session, Stoppable(t.s),
           NEW X, \A u \in X : u.pc \notin FinPC,
           NEW res \in Terminal, NEW ret \in BackPC, ret = "unmark" => res # "done",
           status' = FinStatus(t.s, res)
    PROVE  Closed(X, FinTask(t, res, ret), t.s)
<1>1. status[t.s] \in Live
  BY DEF Stoppable
<1>2. CASE Finalizing(t.s)
  <2>1. PICK u \in tasks : u.s = t.s /\ u.pc \in FinPC
    BY <1>2 DEF Finalizing, FinPC
  <2>2. u.pc = "report" /\ u \notin X
    BY <1>1, <2>1 DEF Tended, Ending, Live, Terminal, FinPC
  <2>3. u \in tasks \ X /\ Minds(u)
    BY <2>2 DEF Minds
  <2>4. status' = status
    BY <1>2 DEF FinStatus
  <2>5. ASSUME NEW v \in Return(t, ret)
        PROVE  v.s = t.s /\ Leaving(v)
    <3>1. v = [t EXCEPT !.pc = ret, !.res = "none", !.ret = "end"] /\ ret # "end"
      BY <2>5 DEF Return
    <3>2. v.s = t.s /\ v.pc = ret /\ v.ret = "end"
      BY <3>1 DEF Task
    <3> QED
      BY <2>1, <2>2, <3>1, <3>2 DEF Leaving, BackPC, Unmarks, FinPC
  <2>6. FinTask(t, res, ret) = Return(t, ret)
    BY <1>2 DEF FinTask
  <2> QED
    BY <1>1, <2>1, <2>3, <2>4, <2>5, <2>6 DEF Closed
<1>3. CASE ~Finalizing(t.s)
  <2>1. PICK u : u = [t EXCEPT !.pc = IF res = "done" THEN "report" ELSE "push",
                               !.res = res, !.ret = ret]
    OBVIOUS
  <2>2. FinTask(t, res, ret) = {u}
    BY <1>3, <2>1 DEF FinTask
  <2>3. u.s = t.s /\ u.res = res /\ u.ret = ret
        /\ u.pc = IF res = "done" THEN "report" ELSE "push"
    BY <2>1 DEF Task
  <2>4. CASE res = "done"
    <3>1. status' = status
      BY <1>3, <2>4 DEF FinStatus
    <3>2. Leaving(u) /\ Minds(u)
      BY <2>3, <2>4 DEF Leaving, Minds, Unmarks
    <3> QED
      BY <1>1, <2>2, <2>3, <3>1, <3>2 DEF Closed
  <2>5. CASE res # "done"
    <3>1. status' = [status EXCEPT ![t.s] = res]
      BY <1>3, <2>5 DEF FinStatus
    <3>2. status'[t.s] = res /\ res \notin Live
      BY <3>1, Types DEF TypeOK, Live, Terminal
    <3>3. Leaving(u) /\ u.pc = "push"
      BY <2>3, <2>5, <3>2 DEF Leaving, Unmarks
    <3> QED
      BY <1>1, <2>2, <2>3, <3>2, <3>3 DEF Closed
  <2> QED
    BY <2>4, <2>5
<1> QED
  BY <1>2, <1>3

\* A session that is not to be finalized is not alive, and if a coroutine of
\* it goes on, it is gone.
LEMMA DeadClosed ==
    ASSUME IInv, NEW s \in Session, ~Stoppable(s), UNCHANGED status, NEW X, NEW V,
           \A v \in V : v.s = s /\ Leaving(v)
    PROVE  Closed(X, V, s)
<1>1. status[s] \notin Live
  BY DEF Stoppable, IInv, RootMain, Live
<1> QED
  BY <1>1 DEF Closed

\* A gate that is not asked leaves the session to others.
LEMMA DropClosed ==
    ASSUME NEW s, UNCHANGED status, NEW X, NEW V, V = {},
           \/ parked'[s]
           \/ status[s] \in Live => \E u \in tasks \ X : u.s = s /\ Minds(u)
    PROVE  Closed(X, V, s)
BY DEF Closed

\* The completion gate takes care of its session.
LEMMA GateClosed ==
    ASSUME IInv, Tended, NEW t \in Task, t.s \in Session,
           NEW X, \A u \in X : u.pc \notin FinPC, NEW T, NEW out, NEW stop,
           Gate(t, T, Verdict(t.s, out, stop)), t.pc \notin FinPC
    PROVE  \E V : tasks' = T \cup V /\ Closed(X, V, t.s)
<1>1. PICK g : g = Verdict(t.s, out, stop)
  OBVIOUS
<1>2. g \in Verdicts /\ Gate(t, T, g)
  BY <1>1, VerdictOne
<1>3. g # "drop" => Stoppable(t.s)
  BY <1>1 DEF Verdict
<1>4. CASE g = "drop"
  <2>1. PICK V : V = {}
    OBVIOUS
  <2>2. tasks' = T \cup V /\ UNCHANGED status
    BY <1>2, <1>4, <2>1 DEF Gate
  <2>3. ~Stoppable(t.s)
    BY <1>1, <1>4 DEF Verdict
  <2> QED
    BY <2>1, <2>2, <2>3, DeadClosed
<1>5. CASE g = "wrap"
  <2>1. PICK n : n = [NewTask("wrap", t.s, "start") EXCEPT !.evt = "clear"]
    OBVIOUS
  <2>2. PICK V : V = {n}
    OBVIOUS
  <2>3. tasks' = T \cup V /\ UNCHANGED status
    BY <1>2, <1>5, <2>1, <2>2 DEF Gate
  <2>4. n.s = t.s /\ n.kind = "wrap" /\ n.pc = "start"
    BY <2>1 DEF NewTask
  <2>5. Leaving(n) /\ Minds(n)
    BY <2>4 DEF Leaving, Unmarks, FinPC, Minds
  <2> QED
    BY <2>2, <2>3, <2>4, <2>5 DEF Closed
<1>6. CASE g = "wait"
  <2>1. PICK u : u = [t EXCEPT !.pc = "wpush"]
    OBVIOUS
  <2>2. PICK V : V = IF status[t.s] = "waiting" THEN {} ELSE {u}
    OBVIOUS
  <2>3. tasks' = T \cup V
    BY <1>2, <1>6, <2>1, <2>2, Zenon DEF Gate
  <2>4. u.s = t.s /\ Leaving(u)
    BY <2>1 DEF Task, Leaving, Unmarks, FinPC
  <2>5. status' = [status EXCEPT ![t.s] = "waiting"]
    BY <1>2, <1>6 DEF Gate
  <2>6. /\ status'[t.s] = "waiting"
        /\ \A x \in Session : x # t.s => status'[x] = status[x]
    BY <2>5, Types DEF TypeOK
  <2>7. PICK c \in Subagent : t.s \in Above(c) /\ status[c] \in Live
    BY <1>1, <1>6 DEF Verdict, LiveBelow, Below
  <2>8. c # t.s /\ c \in Session
    BY <2>7, TreeAssumption DEF Subagent
  <2>9. status'[c] \in Live
    BY <2>6, <2>7, <2>8
  <2>10. (LiveBelow(t.s) # {})'
    BY <2>7, <2>9 DEF LiveBelow, Below, Live
  <2>11. status[t.s] \in Live
    BY <1>3, <1>6 DEF Stoppable
  <2> QED
    BY <2>2, <2>3, <2>4, <2>6, <2>10, <2>11 DEF Closed, Live
<1>7. CASE g \in {"stopped", "failed", "done"}
  <2>1. PICK V : V = FinTask(t, g, "end")
    OBVIOUS
  <2>2. tasks' = T \cup V
    BY <1>2, <1>7, <2>1, Zenon DEF Gate
  <2>3. status' = FinStatus(t.s, g)
    BY <1>2, <1>7 DEF Gate, FinStatus
  <2>4. Stoppable(t.s) /\ g \in Terminal /\ "end" \in BackPC
    BY <1>3, <1>7 DEF Terminal, BackPC
  <2>5. Closed(X, FinTask(t, g, "end"), t.s)
    BY <2>3, <2>4, FinClosed
  <2> QED
    BY <2>1, <2>2, <2>5
<1> QED
  BY <1>2, <1>4, <1>5, <1>6, <1>7 DEF Verdicts

\* A socket turn in the registry takes care of its session.
LEMMA ListedMinds ==
    ASSUME IInv, Clean, Tended, NEW u \in tasks, u.kind \in WsKind, u.listed,
           status[u.s] \in Live
    PROVE  Minds(u)
<1>1. WsPlace(u)
  BY DEF Clean, Placed, Fitting
<1> QED
  BY <1>1 DEF WsPlace, Minds, Tended, Ending, FinPC, Live, Terminal

\* After a segment its session is taken care of.
LEMMA AfterClosed ==
    ASSUME IInv, Clean, Tended, NEW t \in tasks, NEW X,
           \A u \in X : u.pc \notin FinPC, NEW T,
           NEW out \in {"ok", "error", "recursion"}, AfterSegment(t, T, out),
           WsLive(T, t.s) => \E u \in tasks \ X :
               u.s = t.s /\ u.kind \in WsKind /\ u.listed,
           t.pc \notin FinPC
    PROVE  \E V : tasks' = T \cup V /\ Closed(X, V, t.s)
<1>1. Freeze(t.evt, t.s) \in Event /\ t \in Task /\ t.s \in Session
  BY Types DEF Freeze, Task, Event, Rest
<1>2. CASE t.kind \in WsKind
  <2>1. PICK e : e = [t EXCEPT !.evt = Freeze(@, t.s), !.sev = "none", !.out = out].evt
    OBVIOUS
  <2>2. PICK n : n = [NewTask("settle", t.s, "start") EXCEPT !.evt = e, !.out = out]
    OBVIOUS
  <2>3. PICK V : V = {n}
    OBVIOUS
  <2>4. tasks' = T \cup V /\ UNCHANGED status
    BY <1>2, <2>1, <2>2, <2>3 DEF AfterSegment
  <2>5. n.s = t.s /\ n.kind = "settle" /\ n.pc = "start"
    BY <2>2 DEF NewTask
  <2>6. Leaving(n) /\ Minds(n)
    BY <2>5 DEF Leaving, Unmarks, FinPC, Minds
  <2> QED
    BY <2>3, <2>4, <2>5, <2>6 DEF Closed
<1>3. CASE t.kind \notin WsKind
  <2>1. PICK u : u = [t EXCEPT !.evt = Freeze(@, t.s), !.sev = "none", !.out = out]
    OBVIOUS
  <2>2. PICK v : v = [u EXCEPT !.lk = (t.kind = "wake")]
    OBVIOUS
  <2>3. PICK g : g = IF WsLive(T, t.s) THEN "drop"
                     ELSE Verdict(t.s, out, u.evt = "set")
    OBVIOUS
  <2>4. Gate(v, T, g)
    BY <1>3, <2>1, <2>2, <2>3, Zenon DEF AfterSegment
  <2>5. u \in Task /\ u.s = t.s /\ u.pc = t.pc
    BY <1>1, <2>1 DEF Task, Event
  <2>6. (t.kind = "wake") \in BOOLEAN
    OBVIOUS
  <2>7. v \in Task /\ v.s = t.s /\ v.pc = t.pc
    BY <2>2, <2>5, <2>6 DEF Task
  <2>8. CASE WsLive(T, t.s)
    <3>1. PICK V : V = {}
      OBVIOUS
    <3>2. g = "drop"
      BY <2>3, <2>8
    <3>3. tasks' = T \cup V /\ UNCHANGED status
      BY <2>4, <3>1, <3>2 DEF Gate
    <3>4. PICK w \in tasks \ X : w.s = t.s /\ w.kind \in WsKind /\ w.listed
      BY <2>8
    <3>5. status[t.s] \in Live => Minds(w)
      BY <3>4, ListedMinds
    <3>6. Closed(X, V, t.s)
      BY <3>1, <3>3, <3>4, <3>5, DropClosed
    <3> QED
      BY <3>3, <3>6
  <2>9. CASE ~WsLive(T, t.s)
    <3>1. PICK stop : stop = (u.evt = "set")
      OBVIOUS
    <3>2. Gate(v, T, Verdict(v.s, out, stop))
      BY <2>3, <2>4, <2>7, <2>9, <3>1
    <3> QED
      BY <1>1, <2>7, <3>2, GateClosed
  <2> QED
    BY <2>8, <2>9
<1> QED
  BY <1>2, <1>3

----------------------------------------------------------------------------
(* The steps that touch one session at a time.                             *)

\* Only s is touched, or who was cut off below it.
Touches(S, s) ==
    /\ s \in S /\ \A x \in S : x # s => x \in cut' /\ (x \in Subagent => Parent[x] \in S)
    /\ \A x \in Session : x \notin S /\ parked[x] => parked'[x]

\* Whose work V takes over, with wakes beside it, leaves all in order.
LEMMA TendedClosed ==
    ASSUME IInv, Shallow, Lasting, Tended, NEW X, NEW R, NEW V, NEW D,
           Evolves(X, R \cup V, D), NEW s \in Session, NEW S, Touches(S, s),
           Closed(X, V, s), \A v \in R : Leaving(v),
           \A u \in X : u \in tasks =>
               (Minds(u) => u.s \in S) /\ ~Flushing(u) /\ u.pc \notin FinPC,
           Only(s), UNCHANGED <<pending, timer>>, cut \subseteq cut'
    PROVE  Tended'
<1>1. PICK N : N = R \cup V
  OBVIOUS
<1>2. Evolves(X, N, D)
  BY <1>1
<1>3. /\ \A v \in N : v \in tasks'
      /\ \A u \in tasks \ X : \E v \in tasks' : Twin(u, v)
  BY <1>2, Evolved
<1>4. Afar(X, S)
  BY DEF Afar, Touches, Only, Subagent, FinPC
<1>5. ASSUME NEW x \in Subagent, x \in S, status'[x] \in Live
      PROVE  Safe(x)'
  <2>1. CASE x # s
    BY <1>5, <2>1 DEF Touches, Safe
  <2>2. CASE x = s
    <3>1. CASE \E v \in V : Minds(v)
      BY <1>1, <1>3, <2>2, <3>1 DEF Closed, Safe, Minded
    <3>2. CASE \E u \in tasks \ X : u.s = s /\ Minds(u)
      <4>1. PICK u \in tasks \ X : u.s = s /\ Minds(u)
        BY <3>2
      <4>2. PICK v \in tasks' : Twin(u, v)
        BY <1>3, <4>1
      <4>3. v.s = s /\ Minds(v)
        BY <4>1, <4>2, TwinMinds
      <4> QED
        BY <2>2, <4>2, <4>3 DEF Safe, Minded
    <3>3. CASE status'[s] = "waiting" /\ (LiveBelow(s) # {})'
      BY <2>2, <3>3 DEF Safe
    <3>4. CASE parked'[s]
      BY <2>2, <3>4 DEF Safe
    <3> QED
      BY <1>5, <2>2, <3>1, <3>2, <3>3, <3>4 DEF Closed
  <2> QED
    BY <2>1, <2>2
<1>6. ASSUME NEW c \in Subagent, c \in S, status[c] \in Live, Parent[c] \notin S
      PROVE  status'[c] \in Live \/ \E v \in N : v.s = c /\ v.pc = "push"
  <2>1. c = s
    BY <1>6 DEF Touches
  <2> QED
    BY <1>1, <1>6, <2>1 DEF Closed
<1>7. \A v \in N : Leaving(v)
  BY <1>1 DEF Closed
<1> QED
  BY <1>2, <1>4, <1>5, <1>6, <1>7, TendedKept

\* The same for one coroutine.
LEMMA TendedOne ==
    ASSUME IInv, Shallow, Lasting, Tended, NEW X, NEW R, NEW V, NEW D,
           Evolves(X, R \cup V, D), NEW s \in Session,
           Closed(X, V, s), \A v \in R : Leaving(v),
           \A u \in X : u \in tasks =>
               (Minds(u) => u.s = s) /\ ~Flushing(u) /\ u.pc \notin FinPC,
           Only(s), \A x \in Session : x # s /\ parked[x] => parked'[x],
           UNCHANGED <<pending, timer>>, cut \subseteq cut'
    PROVE  Tended'
<1>1. PICK S : S = {s}
  OBVIOUS
<1>2. Touches(S, s)
  BY <1>1 DEF Touches
<1>3. \A u \in X : u \in tasks =>
          (Minds(u) => u.s \in S) /\ ~Flushing(u) /\ u.pc \notin FinPC
  BY <1>1
<1> QED
  BY <1>2, <1>3, TendedClosed

\* The turn t goes on as u.
LEMMA TendedOn ==
    ASSUME IInv, Shallow, Lasting, Tended, NEW t \in tasks, NEW u, NEW D,
           Alone(u, t, D), u.s = t.s, Minds(u), Leaving(u),
           t.pc \notin FinPC, ~Flushing(t), Only(t.s),
           status[t.s] \in Live => status'[t.s] \in Live,
           \A x \in Session : x # t.s /\ parked[x] => parked'[x],
           UNCHANGED <<pending, timer>>, cut \subseteq cut'
    PROVE  Tended'
<1>1. PICK X : X = {t}
  OBVIOUS
<1>2. PICK R : R = {}
  OBVIOUS
<1>3. PICK V : V = {u}
  OBVIOUS
<1>4. {u} = R \cup V
  BY <1>2, <1>3
<1>5. Evolves(X, R \cup V, D)
  BY <1>1, <1>4 DEF Alone
<1>6. Closed(X, V, t.s)
  BY <1>3 DEF Closed
<1>7. t.s \in Session
  BY Types DEF Task
<1>8. /\ \A v \in R : Leaving(v)
      /\ \A w \in X : w \in tasks =>
           (Minds(w) => w.s = t.s) /\ ~Flushing(w) /\ w.pc \notin FinPC
  BY <1>1, <1>2
<1> QED
  BY <1>5, <1>6, <1>7, <1>8, TendedOne

\* A step that nobody's care depends on.
LEMMA TendedEnds ==
    ASSUME IInv, Shallow, Lasting, Tended, NEW X, NEW N, NEW D, Evolves(X, N, D),
           \A u \in X : u \in tasks => ~Minds(u) /\ ~Flushing(u) /\ u.pc \notin FinPC,
           \A v \in N : Leaving(v),
           UNCHANGED status, \A x \in Session : parked[x] => parked'[x],
           UNCHANGED <<pending, timer>>, cut \subseteq cut'
    PROVE  Tended'
<1>1. PICK S : S = {}
  OBVIOUS
<1>2. Afar(X, S)
  BY <1>1 DEF Afar, Subagent, FinPC
<1> QED
  BY <1>1, <1>2, TendedKept

\* A coroutine that neither finalizes nor refuses a wake is in order.
LEMMA LeavingNew ==
    ASSUME NEW v, v.pc \notin FinPC \cup {"unmark", "flip"}
    PROVE  Leaving(v)
BY DEF Leaving, Unmarks, FinPC

\* So are the wakes of a reconciled stash.
LEMMA LeavingWakes ==
    ASSUME NEW s, NEW R, Reconciles(R, s)
    PROVE  \A v \in R : Leaving(v)
BY WakesSpawned, LeavingNew DEF Reconciles, Spawned, FinPC

\* Whoever is busy has somebody at work.
LEMMA BusyMinded ==
    ASSUME IInv, Clean, Tended, NEW s \in Session, Busy(s), ~parked[s],
           status[s] \in Live
    PROVE  \E u \in tasks : /\ u.s = s /\ Minds(u) /\ u.pc # "start"
                            /\ \/ u.pc \in {"queued", "flip", "stream", "report"}
                               \/ running[s] = "none" /\ u.kind \in WsKind /\ u.listed
<1>0. s # Root
  BY DEF IInv, RootMain, Live
<1>1. CASE running[s] # "none"
  <2>1. running[s] \in {"own", "ws"}
    BY <1>1, Types DEF TypeOK
  <2>2. PICK u \in tasks : u.s = s /\ (Marks(u) \/ Unmarks(u))
    BY <2>1 DEF Clean, Marked
  <2>3. CASE Marks(u)
    BY <2>2, <2>3 DEF Marks, Minds
  <2>4. CASE Unmarks(u)
    <3>1. Gone(s)
      BY <2>2, <2>4 DEF Tended, Ending
    <3>2. PICK w \in tasks : w.s = s /\ w.pc = "report"
      BY <1>0, <3>1 DEF Gone, Live, Terminal
    <3> QED
      BY <3>2 DEF Minds
  <2> QED
    BY <2>2, <2>3, <2>4
<1>2. CASE running[s] = "none" /\ WsLive(tasks, s)
  <2>1. PICK u \in tasks : u.kind \in WsKind /\ u.listed /\ u.s = s
    BY <1>2 DEF WsLive
  <2>2. Minds(u)
    BY <2>1, ListedMinds
  <2>3. u.pc # "start"
    BY <2>1 DEF Clean, Placed, Fitting, WsPlace, FinPC
  <2> QED
    BY <1>2, <2>1, <2>2, <2>3
<1> QED
  BY <1>1, <1>2 DEF Busy

----------------------------------------------------------------------------
(* Each step of a turn takes care.                                         *)

\* What a step of a coroutine may count on.
LEMMA TendedTask ==
    ASSUME IInv, Clean, Tended, NEW t \in tasks
    PROVE  /\ t \in Task /\ t.s \in Session /\ Fitting(t) /\ Ending(t)
           /\ status[t.s] \in Live => t.s \in Subagent
BY CleanTask DEF Tended, IInv, RootMain, Live, Subagent

\* A turn begins, reads its stash, tries again, asks.
LEMMA TurnTended ==
    ASSUME IInv, Clean, Tended, Shallow, Lasting, NEW t \in tasks,
           \/ SpawnArm(t) \/ SpawnLaunch(t) \/ StartTurn(t) \/ Absorb(t)
           \/ AutoRetry(t) \/ Interrupt(t) \/ WaitPush(t) \/ RetryGo(t)
    PROVE  Tended'
<1>1. t \in Task /\ t.s \in Session /\ Fitting(t)
  BY TendedTask
<1>2. UNCHANGED <<status, pending, timer, cut>>
  BY DEF SpawnArm, SpawnLaunch, StartTurn, Absorb, AutoRetry, Interrupt, WaitPush,
         RetryGo, queues, history
<1>3. \A x \in Session : x # t.s /\ parked[x] => parked'[x]
  <2>1. UNCHANGED parked \/ parked' = [parked EXCEPT ![t.s] = TRUE]
    BY DEF SpawnArm, SpawnLaunch, StartTurn, Absorb, AutoRetry, Interrupt, WaitPush,
           RetryGo, registries
  <2> QED
    BY <2>1, Types DEF TypeOK
<1>4. ASSUME NEW u, NEW pc, Alone(u, t, {}), Goes(u, t, pc),
             \/ pc \in {"queued", "stream", "drain"}
             \/ pc \in {"armed", "start"} /\ t.pc \in {"create", "armed"},
             t.pc \in {"create", "armed", "queued", "stream", "rpush"}
      PROVE  Tended'
  <2>1. u.s = t.s /\ u.pc = pc /\ u.kind = t.kind
    BY <1>4 DEF Goes
  <2>2. Minds(u)
    BY <1>1, <1>4, <2>1 DEF Minds, Fitting
  <2>3. Leaving(u)
    BY <1>4, <2>1, LeavingNew DEF FinPC
  <2>4. t.pc \notin FinPC /\ ~Flushing(t)
    BY <1>4 DEF FinPC, Flushing
  <2> QED
    BY <1>2, <1>3, <1>4, <2>1, <2>2, <2>3, <2>4, TendedOn DEF Only
<1>5. CASE \/ SpawnArm(t) \/ SpawnLaunch(t) \/ StartTurn(t) \/ AutoRetry(t)
           \/ Interrupt(t) \/ RetryGo(t)
  <2>1. t.pc \in {"create", "armed", "queued", "stream", "rpush"}
    BY <1>5 DEF SpawnArm, SpawnLaunch, StartTurn, AutoRetry, Interrupt, RetryGo
  <2>2. CASE SpawnArm(t)
    BY <1>4, <2>1, <2>2, SpawnArmShape DEF SpawnArm
  <2>3. CASE SpawnLaunch(t)
    BY <1>4, <2>1, <2>3, SpawnLaunchShape DEF SpawnLaunch
  <2>4. CASE StartTurn(t)
    BY <1>4, <2>1, <2>4, StartTurnShape
  <2>5. CASE AutoRetry(t)
    BY <1>4, <2>1, <2>5, AutoRetryShape
  <2>6. CASE Interrupt(t)
    BY <1>4, <2>1, <2>6, InterruptShape
  <2>7. CASE RetryGo(t)
    BY <1>4, <2>1, <2>7, RetryGoShape
  <2> QED
    BY <1>5, <2>2, <2>3, <2>4, <2>5, <2>6, <2>7
<1>6. CASE Absorb(t)
  <2>1. PICK X : X = {}
    OBVIOUS
  <2>2. PICK N : N = {}
    OBVIOUS
  <2>3. UNCHANGED <<tasks, parked>>
    BY <1>6 DEF Absorb, registries
  <2>4. Evolves(X, N, {})
    BY <2>1, <2>2, <2>3, StillShape
  <2> QED
    BY <1>2, <2>1, <2>2, <2>3, <2>4, TendedEnds
<1>7. CASE WaitPush(t)
  <2>1. PICK X : X = {t}
    OBVIOUS
  <2>2. PICK N : N = {}
    OBVIOUS
  <2>3. t.pc = "wpush" /\ tasks' = tasks \ {t} /\ UNCHANGED parked
    BY <1>7 DEF WaitPush, registries
  <2>4. Evolves(X, N, {})
    BY <2>1, <2>2, <2>3, EndsShape
  <2>5. ~Minds(t) /\ ~Flushing(t) /\ t.pc \notin FinPC
    BY <2>3 DEF Minds, Flushing, FinPC
  <2> QED
    BY <1>2, <2>1, <2>2, <2>3, <2>4, <2>5, TendedEnds
<1> QED
  BY <1>5, <1>6, <1>7

\* Who asks for a finalizer closes the session, or returns from a dead one.
Asks(u, V, ret) ==
    \/ /\ Stoppable(u.s) /\ status' = FinStatus(u.s, "stopped")
       /\ V = FinTask(u, "stopped", ret)
    \/ /\ ~Stoppable(u.s) /\ UNCHANGED status /\ V = Return(u, ret)
       /\ ret = "unmark" => status[u.s] # "none"

\* A stop that asks for a finalizer closes the session.
LEMMA AskedClosed ==
    ASSUME IInv, Tended, NEW u \in Task, u.s \in Session,
           NEW X, \A w \in X : w.pc \notin FinPC,
           NEW V, NEW ret \in BackPC, Asks(u, V, ret)
    PROVE  Closed(X, V, u.s) /\ Only(u.s)
<1>1. CASE Stoppable(u.s)
  <2>1. "stopped" \in Terminal /\ "stopped" # "done"
    BY DEF Terminal
  <2>2. status' = FinStatus(u.s, "stopped") /\ V = FinTask(u, "stopped", ret)
    BY <1>1 DEF Asks
  <2>3. Closed(X, FinTask(u, "stopped", ret), u.s)
    BY <1>1, <2>1, <2>2, FinClosed
  <2> QED
    BY <2>2, <2>3, FinOnly
<1>2. CASE ~Stoppable(u.s)
  <2>1. /\ UNCHANGED status /\ V = Return(u, ret)
        /\ ret = "unmark" => status[u.s] # "none"
    BY <1>2 DEF Asks
  <2>2. ASSUME NEW v \in V
        PROVE  v.s = u.s /\ Leaving(v)
    <3>1. ret # "end" /\ v = [u EXCEPT !.pc = ret, !.res = "none", !.ret = "end"]
      BY <2>1, <2>2 DEF Return
    <3>2. v.s = u.s /\ v.pc = ret /\ v.ret = "end"
      BY <3>1 DEF Task
    <3>3. ret = "unmark" => u.s = Root \/ status'[u.s] \in Terminal
      <4>1. status[u.s] \in Statuses
        BY Types
      <4> QED
        BY <1>2, <2>1, <4>1 DEF Stoppable, Statuses, IInv, RootMain, Subagent
    <3> QED
      BY <3>1, <3>2, <3>3 DEF Leaving, BackPC, Unmarks, FinPC
  <2>3. Closed(X, V, u.s)
    BY <1>2, <2>1, <2>2, DeadClosed
  <2> QED
    BY <2>1, <2>3 DEF Only
<1> QED
  BY <1>1, <1>2

\* A coroutine that asks for a finalizer leaves all in order.
LEMMA TendedFin ==
    ASSUME IInv, Tended, Shallow, Lasting, NEW t \in tasks, t.pc \notin FinPC,
           ~Flushing(t), NEW u \in Task, u.s \in Session, Minds(t) => t.s = u.s,
           NEW V, NEW ret \in BackPC, NEW D, Evolves({t}, V, D), Asks(u, V, ret),
           \A x \in Session : x # u.s /\ parked[x] => parked'[x],
           UNCHANGED <<pending, timer, cut>>
    PROVE  Tended'
<1>1. PICK X : X = {t}
  OBVIOUS
<1>2. PICK R : R = {}
  OBVIOUS
<1>3. Evolves(X, R \cup V, D)
  <2>1. R \cup V = V
    BY <1>2
  <2> QED
    BY <1>1, <2>1
<1>4. \A w \in X : w.pc \notin FinPC
  BY <1>1
<1>5. Closed(X, V, u.s) /\ Only(u.s)
  BY <1>4, AskedClosed
<1>6. /\ \A v \in R : Leaving(v)
      /\ \A w \in X : w \in tasks =>
           (Minds(w) => w.s = u.s) /\ ~Flushing(w) /\ w.pc \notin FinPC
  BY <1>1, <1>2
<1> QED
  BY <1>3, <1>5, <1>6, TendedOne

\* A turn is killed before it begins, or registers.
LEMMA BriefTended ==
    ASSUME IInv, Clean, Tended, Shallow, Lasting, NEW t \in tasks, BriefStart(t)
    PROVE  Tended'
<1>1. /\ t \in Task /\ t.s \in Session /\ t.pc = "start" /\ ~Flushing(t)
      /\ UNCHANGED <<parked, pending, timer, cut>>
  BY TendedTask DEF BriefStart, Flushing, queues, history
<1>2. CASE IsSet(t, t.evt)
  <2>1. PICK V : V = IF Stoppable(t.s) THEN FinTask(t, "stopped", "end") ELSE {}
    OBVIOUS
  <2>2. /\ tasks' = Detach(tasks \ {t}, t.s) \cup V
        /\ status' = IF Stoppable(t.s) THEN FinStatus(t.s, "stopped") ELSE status
    BY <1>2, <2>1, Zenon DEF BriefStart
  <2>3. Evolves({t}, V, {t.s})
    BY <2>2, EvolvesDetach
  <2>4. Return(t, "end") = {} /\ "end" \in BackPC
    BY DEF Return, BackPC
  <2>5. Asks(t, V, "end")
    BY <2>1, <2>2, <2>4 DEF Asks
  <2> QED
    BY <1>1, <2>3, <2>4, <2>5, TendedFin DEF FinPC
<1>3. CASE ~IsSet(t, t.evt)
  <2>1. PICK u : Alone(u, t, {}) /\ Goes(u, t, "queued")
    BY <1>3, BriefStartShape
  <2>2. u.s = t.s /\ u.pc = "queued"
    BY <2>1 DEF Goes
  <2>3. Minds(u) /\ Leaving(u)
    BY <2>2, LeavingNew DEF Minds, FinPC
  <2>4. UNCHANGED status
    BY <1>3 DEF BriefStart
  <2> QED
    BY <1>1, <2>1, <2>2, <2>3, <2>4, TendedOn DEF FinPC, Only
<1> QED
  BY <1>2, <1>3

----------------------------------------------------------------------------
(* The end of a segment takes care.                                        *)

\* The stash becomes wakes, the rest V is what the gate leaves.
LEMMA TendedOver ==
    ASSUME IInv, Tended, Shallow, Lasting, NEW t \in tasks, t.s \in Session,
           t.pc \notin FinPC, ~Flushing(t),
           NEW X, X = {t}, NEW R, Reconciles(R, t.s), NEW V, NEW D,
           Evolves(X, R \cup V, D), Closed(X, V, t.s), Only(t.s),
           \A x \in Session : x # t.s /\ parked[x] => parked'[x],
           UNCHANGED <<pending, timer, cut>>
    PROVE  Tended'
<1>1. /\ \A v \in R : Leaving(v)
      /\ \A w \in X : w \in tasks =>
           (Minds(w) => w.s = t.s) /\ ~Flushing(w) /\ w.pc \notin FinPC
  BY LeavingWakes
<1> QED
  BY <1>1, TendedOne

\* A socket turn that is listed beside a pop was listed before.
LEMMA ListedBefore ==
    ASSUME IInv, NEW t \in tasks, NEW s, NEW R, Reconciles(R, s),
           NEW T, \/ T = Detach(tasks \ {t}, s) \cup R
                  \/ T = (tasks \ {t}) \cup R,
           WsLive(T, s)
    PROVE  \E u \in tasks \ {t} : u.s = s /\ u.kind \in WsKind /\ u.listed
<1>1. PICK v \in T : v.kind \in WsKind /\ v.listed /\ v.s = s
  BY DEF WsLive
<1>2. v \notin R
  BY <1>1, WakesSpawned DEF Reconciles, Spawned, WsKind
<1>3. CASE v \in Detach(tasks \ {t}, s)
  <2>1. PICK u \in tasks \ {t} :
          v = IF u.s = s THEN [u EXCEPT !.evt = Freeze(@, s), !.sev = Freeze(@, s)]
              ELSE u
    BY <1>3 DEF Detach
  <2>2. u \in Task
    BY Types
  <2>3. u.s = v.s /\ u.kind = v.kind /\ u.listed = v.listed
    BY <2>1, <2>2 DEF Task
  <2> QED
    BY <1>1, <2>3
<1>4. CASE v \in tasks \ {t}
  BY <1>1, <1>4
<1> QED
  BY <1>1, <1>2, <1>3, <1>4

\* A segment, and what follows it.
LEMMA TendedSegment ==
    ASSUME IInv, Clean, Tended, Shallow, Lasting, NEW t \in tasks,
           t.pc \notin FinPC, ~Flushing(t), NEW R, Reconciles(R, t.s),
           NEW T, T = Detach(tasks \ {t}, t.s) \cup R,
           NEW out \in {"ok", "error", "recursion"}, AfterSegment(t, T, out),
           Only(t.s), \A x \in Session : x # t.s /\ parked[x] => parked'[x],
           UNCHANGED <<pending, timer, cut>>
    PROVE  Tended'
<1>1. PICK X : X = {t}
  OBVIOUS
<1>2. /\ \A u \in X : u.pc \notin FinPC
      /\ WsLive(T, t.s) => \E u \in tasks \ X : u.s = t.s /\ u.kind \in WsKind /\ u.listed
  BY <1>1, ListedBefore
<1>3. PICK V : tasks' = T \cup V /\ Closed(X, V, t.s)
  BY <1>2, AfterClosed
<1>4. tasks' = Detach(tasks \ X, t.s) \cup (R \cup V)
  BY <1>1, <1>3
<1>5. PICK N : N = R \cup V
  OBVIOUS
<1>6. Evolves(X, N, {t.s})
  BY <1>4, <1>5, EvolvesDetach
<1>7. t.s \in Session
  BY TendedTask
<1> QED
  BY <1>1, <1>3, <1>5, <1>6, <1>7, TendedOver

\* The gate is not asked, but somebody else is there.
LEMMA TendedSilent ==
    ASSUME IInv, Tended, Shallow, Lasting, NEW t \in tasks, t.s \in Session,
           t.pc \notin FinPC, ~Flushing(t), NEW R, Reconciles(R, t.s), NEW D,
           \/ D = {t.s} /\ tasks' = Detach(tasks \ {t}, t.s) \cup R
           \/ D = {} /\ tasks' = (tasks \ {t}) \cup R,
           UNCHANGED <<status, parked>>,
           \/ parked[t.s]
           \/ status[t.s] \notin Live
           \/ \E u \in tasks : u.s = t.s /\ Minds(u) /\ u # t,
           UNCHANGED <<pending, timer, cut>>
    PROVE  Tended'
<1>1. PICK X : X = {t}
  OBVIOUS
<1>2. PICK V : V = {}
  OBVIOUS
<1>3. PICK N : N = R \cup V
  OBVIOUS
<1>4. \/ D = {t.s} /\ tasks' = Detach(tasks \ X, t.s) \cup N
      \/ D = {} /\ tasks' = (tasks \ X) \cup N
  <2>1. N = R
    BY <1>2, <1>3
  <2> QED
    BY <1>1, <2>1
<1>5. Evolves(X, N, D)
  BY <1>4, EvolvesDetach, EvolvesPlain
<1>6. \/ parked'[t.s]
      \/ status[t.s] \in Live => \E u \in tasks \ X : u.s = t.s /\ Minds(u)
  BY <1>1
<1>7. Closed(X, V, t.s)
  BY <1>2, <1>6, DropClosed
<1> QED
  BY <1>1, <1>3, <1>5, <1>7, TendedOver DEF Only

\* A segment ends by itself.
LEMMA StreamEndTended ==
    ASSUME IInv, Clean, Tended, Shallow, Lasting, NEW t \in tasks,
           NEW out \in {"ok", "error", "recursion"}, StreamEnd(t, out)
    PROVE  Tended'
<1>1. t.pc \in {"stream", "drain"} /\ t.s \in Session /\ t \in Task
  BY TendedTask DEF StreamEnd, Streaming
<1>2. PICK R : R = Redeliveries(t.s)
  OBVIOUS
<1>3. PICK T : T = Detach(tasks \ {t}, t.s) \cup R
  OBVIOUS
<1>4. AfterSegment(t, T, out) /\ UNCHANGED <<pending, timer, cut>>
      /\ parked' = [parked EXCEPT ![t.s] = FALSE]
  BY <1>2, <1>3 DEF StreamEnd, history
<1>5. \A x \in Session : x # t.s /\ parked[x] => parked'[x]
  BY <1>4, Types DEF TypeOK
<1>6. Only(t.s)
  BY OverOnly
<1>7. t.pc \notin FinPC /\ ~Flushing(t) /\ Reconciles(R, t.s)
  BY <1>1, <1>2 DEF FinPC, Flushing, Reconciles
<1> QED
  BY <1>3, <1>4, <1>5, <1>6, <1>7, TendedSegment

\* The rest of a stopped segment, and a parked one.
LEMMA RestTended ==
    ASSUME IInv, Clean, Tended, Shallow, Lasting, NEW t \in tasks,
           SegEnd(t) \/ ParkEnd(t)
    PROVE  Tended'
<1>1. t.pc \in {"seg", "drain"} /\ t.s \in Session /\ t \in Task
  BY TendedTask DEF SegEnd, ParkEnd
<1>2. UNCHANGED <<parked, pending, timer, cut>> /\ Only(t.s)
  BY OverOnly DEF SegEnd, ParkEnd, history
<1>3. t.pc \notin FinPC /\ ~Flushing(t)
  BY <1>1 DEF FinPC, Flushing
<1>4. ASSUME NEW R, Reconciles(R, t.s), UNCHANGED status,
             tasks' = Detach(tasks \ {t}, t.s) \cup R,
             parked[t.s] \/ (t.kind \notin WsKind /\ running[t.s] # "none")
      PROVE  Tended'
  <2>1. \/ parked[t.s]
        \/ status[t.s] \notin Live
        \/ \E u \in tasks : u.s = t.s /\ Minds(u) /\ u # t
    <3> SUFFICES ASSUME ~parked[t.s], status[t.s] \in Live
                 PROVE  \E u \in tasks : u.s = t.s /\ Minds(u) /\ u # t
      OBVIOUS
    <3>1. PICK u \in tasks : /\ u.s = t.s /\ Minds(u)
                             /\ u.pc \in {"queued", "flip", "stream", "report"}
      BY <1>1, <1>4, BusyMinded DEF Busy
    <3> QED
      BY <1>1, <3>1
  <2>2. PICK D : D = {t.s}
    OBVIOUS
  <2> QED
    BY <1>1, <1>2, <1>3, <1>4, <2>1, <2>2, TendedSilent
<1>5. ASSUME NEW R, Reconciles(R, t.s),
             AfterSegment(t, Detach(tasks \ {t}, t.s) \cup R, "ok")
      PROVE  Tended'
  <2>1. PICK T : T = Detach(tasks \ {t}, t.s) \cup R
    OBVIOUS
  <2>2. "ok" \in {"ok", "error", "recursion"} /\ AfterSegment(t, T, "ok")
    BY <1>5, <2>1
  <2> QED
    BY <1>2, <1>3, <1>5, <2>1, <2>2, TendedSegment
<1>6. PICK R : R = Redeliveries(t.s)
  OBVIOUS
<1>7. PICK E : E = {}
  OBVIOUS
<1>8. Reconciles(R, t.s) /\ Reconciles(E, t.s)
  BY <1>6, <1>7 DEF Reconciles
<1>9. Detach(tasks \ {t}, t.s) \cup E = Detach(tasks \ {t}, t.s)
  BY <1>7
<1>10. CASE SegEnd(t)
  <2>1. \/ /\ t.kind \notin WsKind /\ (parked[t.s] \/ running[t.s] # "none")
           /\ tasks' = Detach(tasks \ {t}, t.s) \cup R /\ UNCHANGED status
        \/ AfterSegment(t, Detach(tasks \ {t}, t.s) \cup R, "ok")
    BY <1>6, <1>10, Zenon DEF SegEnd
  <2> QED
    BY <1>4, <1>5, <1>8, <2>1
<1>11. CASE ParkEnd(t)
  <2>1. \/ /\ (parked[t.s] /\ t.kind # "invoke")
                \/ (t.kind \notin WsKind /\ running'[t.s] # "none")
           /\ tasks' = Detach(tasks \ {t}, t.s) /\ UNCHANGED status
        \/ AfterSegment(t, Detach(tasks \ {t}, t.s), "ok")
        \/ AfterSegment(t, Detach(tasks \ {t}, t.s) \cup R, "ok")
    BY <1>6, <1>11, Zenon DEF ParkEnd
  <2>2. running'[t.s] # "none" => running[t.s] # "none"
    BY <1>1, <1>11, Types DEF ParkEnd, TypeOK
  <2> QED
    BY <1>4, <1>5, <1>8, <1>9, <2>1, <2>2
<1> QED
  BY <1>10, <1>11

----------------------------------------------------------------------------
(* A socket turn's gate, a stopped segment, the wakes.                     *)

\* The gate of a socket turn.
LEMMA SettleTended ==
    ASSUME IInv, Clean, Tended, Shallow, Lasting, NEW t \in tasks, Settle(t)
    PROVE  Tended'
<1>1. /\ t.pc = "start" /\ t.kind = "settle" /\ t.s \in Session /\ t \in Task
      /\ UNCHANGED <<parked, pending, timer, cut>> /\ Only(t.s)
  BY TendedTask, OverOnly DEF Settle, history
<1>2. t.pc \notin FinPC /\ ~Flushing(t) /\ t.kind \notin WsKind
  BY <1>1 DEF FinPC, Flushing, WsKind
<1>3. PICK R : R = Redeliveries(t.s)
  OBVIOUS
<1>4. PICK E : E = {}
  OBVIOUS
<1>5. Reconciles(R, t.s) /\ Reconciles(E, t.s) /\ (tasks \ {t}) \cup E = tasks \ {t}
  BY <1>3, <1>4 DEF Reconciles
<1>6. CASE parked[t.s] \/ Busy(t.s)
  <2>1. tasks' = (tasks \ {t}) \cup E /\ UNCHANGED status
    BY <1>5, <1>6 DEF Settle
  <2>2. \/ parked[t.s]
        \/ status[t.s] \notin Live
        \/ \E u \in tasks : u.s = t.s /\ Minds(u) /\ u # t
    <3> SUFFICES ASSUME ~parked[t.s], status[t.s] \in Live
                 PROVE  \E u \in tasks : u.s = t.s /\ Minds(u) /\ u # t
      OBVIOUS
    <3>1. PICK u \in tasks : u.s = t.s /\ Minds(u) /\ u.pc # "start"
      BY <1>1, <1>6, BusyMinded
    <3> QED
      BY <1>1, <3>1
  <2>3. PICK D : D = {}
    OBVIOUS
  <2> QED
    BY <1>1, <1>2, <1>5, <2>1, <2>2, <2>3, TendedSilent
<1>7. CASE ~(parked[t.s] \/ Busy(t.s)) /\ ~Stoppable(t.s)
  <2>1. tasks' = (tasks \ {t}) \cup R /\ UNCHANGED status
    BY <1>3, <1>7 DEF Settle
  <2>2. status[t.s] \notin Live
    BY <1>1, <1>7 DEF Stoppable, IInv, RootMain, Live
  <2>3. PICK D : D = {}
    OBVIOUS
  <2> QED
    BY <1>1, <1>2, <1>5, <2>1, <2>2, <2>3, TendedSilent
<1>8. CASE ~(parked[t.s] \/ Busy(t.s)) /\ Stoppable(t.s)
  <2>1. PICK T : T = Detach(tasks \ {t}, t.s) \cup R
    OBVIOUS
  <2>2. PICK stop : stop = (t.evt = "set")
    OBVIOUS
  <2>3. Gate(t, T, Verdict(t.s, t.out, stop))
    BY <1>3, <1>8, <2>1, <2>2 DEF Settle
  <2>4. PICK X : X = {t}
    OBVIOUS
  <2>5. \A u \in X : u.pc \notin FinPC
    BY <1>2, <2>4
  <2>6. PICK V : tasks' = T \cup V /\ Closed(X, V, t.s)
    BY <1>1, <1>2, <2>3, <2>5, GateClosed
  <2>7. PICK N : N = R \cup V
    OBVIOUS
  <2>8. tasks' = Detach(tasks \ X, t.s) \cup N
    BY <2>1, <2>4, <2>6, <2>7
  <2>9. Evolves(X, N, {t.s})
    BY <2>8, EvolvesDetach
  <2> QED
    BY <1>1, <1>2, <1>5, <2>4, <2>6, <2>7, <2>9, TendedOver
<1> QED
  BY <1>6, <1>7, <1>8

\* A stopped segment, with the children it was creating.
LEMMA StreamStopTended ==
    ASSUME IInv, Clean, Tended, Shallow, Lasting, NEW t \in tasks, StreamStop(t)
    PROVE  Tended'
<1>1. /\ t.pc \in {"stream", "drain"} /\ t.s \in Session /\ t \in Task
      /\ UNCHANGED <<pending, timer>> /\ parked' = [parked EXCEPT ![t.s] = FALSE]
  BY TendedTask DEF StreamStop, Streaming, queues
<1>2. PICK C \in SUBSET Spawning(t.s) : \E u :
        /\ u = [t EXCEPT !.evt = Freeze(@, t.s), !.sev = "none"]
        /\ tasks' = Detach(tasks \ ({t} \cup C), t.s) \cup
             IF Stoppable(t.s) THEN FinTask(u, "stopped", "seg") ELSE Return(u, "seg")
        /\ cut' = cut \cup {c.s : c \in C}
  BY Zenon DEF StreamStop
<1>3. PICK u : /\ u = [t EXCEPT !.evt = Freeze(@, t.s), !.sev = "none"]
               /\ tasks' = Detach(tasks \ ({t} \cup C), t.s) \cup
                    IF Stoppable(t.s) THEN FinTask(u, "stopped", "seg")
                    ELSE Return(u, "seg")
  BY <1>2
<1>4. u \in Task /\ u.s = t.s
  <2>1. Freeze(t.evt, t.s) \in Event
    BY <1>1, Types DEF Freeze, Task, Event, Rest
  <2> QED
    BY <1>1, <1>3, <2>1 DEF Task, Event
<1>5. PICK X : X = {t} \cup C
  OBVIOUS
<1>6. PICK V : V = IF Stoppable(t.s) THEN FinTask(u, "stopped", "seg")
                   ELSE Return(u, "seg")
  OBVIOUS
<1>7. PICK R : R = {}
  OBVIOUS
<1>8. tasks' = Detach(tasks \ X, t.s) \cup (R \cup V)
  BY <1>3, <1>5, <1>6, <1>7, Zenon
<1>9. Evolves(X, R \cup V, {t.s})
  BY <1>8, EvolvesDetach
<1>10. \A c \in C : c \in tasks /\ c.pc \in {"create", "armed"} /\ Parent[c.s] = t.s
  BY <1>2 DEF Spawning
<1>11. \A w \in X : w.pc \notin FinPC
  BY <1>1, <1>5, <1>10 DEF FinPC
<1>12. status' = IF Stoppable(t.s) THEN FinStatus(t.s, "stopped") ELSE status
  BY DEF StreamStop
<1>13. Asks(u, V, "seg") /\ "seg" \in BackPC
  BY <1>4, <1>6, <1>12 DEF Asks, BackPC
<1>14. Closed(X, V, t.s) /\ Only(t.s)
  BY <1>1, <1>4, <1>11, <1>13, AskedClosed
<1>15. PICK S : S = {t.s} \cup {c.s : c \in C}
  OBVIOUS
<1>16. Touches(S, t.s)
  <2>1. \A x \in Session : x \notin S /\ parked[x] => parked'[x]
    BY <1>1, <1>15, Types DEF TypeOK
  <2>2. ASSUME NEW x \in S, x # t.s
        PROVE  x \in cut' /\ (x \in Subagent => Parent[x] \in S)
    <3>1. PICK c \in C : x = c.s
      BY <1>15, <2>2
    <3> QED
      BY <1>2, <1>10, <1>15, <3>1
  <2>3. t.s \in S
    BY <1>15
  <2> QED
    BY <2>1, <2>2, <2>3 DEF Touches
<1>17. /\ \A v \in R : Leaving(v)
       /\ \A w \in X : w \in tasks =>
            (Minds(w) => w.s \in S) /\ ~Flushing(w) /\ w.pc \notin FinPC
  BY <1>1, <1>5, <1>7, <1>10, <1>11, <1>15 DEF Flushing
<1>18. cut \subseteq cut'
  BY <1>2
<1> QED
  BY <1>1, <1>9, <1>14, <1>16, <1>17, <1>18, TendedClosed

\* A wake turn streams.
LEMMA WakeStreamTended ==
    ASSUME IInv, Clean, Tended, Shallow, Lasting, NEW t \in tasks,
           t.pc = "flip" \/ (t.pc = "start" /\ t.kind = "wake"),
           WakeStream(t, tasks \ {t}),
           UNCHANGED <<status, parked, pending, timer, cut>>
    PROVE  Tended'
<1>1. PICK u : Alone(u, t, {}) /\ Goes(u, t, "stream")
  BY WakeStreamShape
<1>2. u.s = t.s /\ u.pc = "stream"
  BY <1>1 DEF Goes
<1>3. Minds(u) /\ Leaving(u)
  BY <1>2, LeavingNew DEF Minds, FinPC
<1>4. t.pc \notin FinPC /\ ~Flushing(t)
  BY DEF FinPC, Flushing
<1> QED
  BY <1>1, <1>2, <1>3, <1>4, TendedOn DEF Only

\* A wake is refused, stashed, or begins.
LEMMA WakeEnterTended ==
    ASSUME IInv, Clean, Tended, Shallow, Lasting, NEW t \in tasks, WakeEnter(t)
    PROVE  Tended'
<1>1. /\ t.pc = "start" /\ t.kind = "wake" /\ t.s \in Session /\ t \in Task
      /\ UNCHANGED <<parked, pending, timer, cut>>
  BY TendedTask DEF WakeEnter
<1>2. t.pc \notin FinPC /\ ~Flushing(t) /\ ~Carries(t) /\ t.kind \notin WsKind
  BY <1>1 DEF FinPC, Flushing, Carries, WsKind
<1>3. PICK E : E = {}
  OBVIOUS
<1>4. /\ Reconciles(E, t.s) /\ (tasks \ {t}) \cup E = tasks \ {t}
      /\ Detach(tasks \ {t}, t.s) \cup E = Detach(tasks \ {t}, t.s)
  BY <1>3 DEF Reconciles
<1>5. PICK D0 : D0 = {}
  OBVIOUS
<1>6. PICK D1 : D1 = {t.s}
  OBVIOUS
<1>7. CASE t.s # Root /\ status[t.s] \notin Live
  <2>1. tasks' = (tasks \ {t}) \cup E /\ UNCHANGED status
    BY <1>4, <1>7 DEF WakeEnter
  <2> QED
    BY <1>1, <1>2, <1>4, <1>5, <1>7, <2>1, TendedSilent
<1>8. CASE ~(t.s # Root /\ status[t.s] \notin Live) /\ armed[t.s] = "set"
  <2>1. tasks' = Detach(tasks \ {t}, t.s) \cup E /\ UNCHANGED status
    BY <1>4, <1>8 DEF WakeEnter
  <2>2. t.s \in cut \/ \E u \in tasks : u.s = t.s /\ Carries(u)
    BY <1>1, <1>8 DEF Clean, Dropped
  <2>3. CASE \E u \in tasks : u.s = t.s /\ Carries(u)
    <3>1. PICK u \in tasks : u.s = t.s /\ Carries(u)
      BY <2>3
    <3>2. Minds(u) \/ status[t.s] \notin Live
      BY <3>1, TendedTask DEF Carries, Minds, Ending, Live, Terminal, FinPC
    <3> QED
      BY <1>1, <1>2, <1>4, <1>6, <2>1, <3>1, <3>2, TendedSilent
  <2>4. CASE t.s \in cut
    <3>1. PICK X : X = {t}
      OBVIOUS
    <3>2. tasks' = Detach(tasks \ X, t.s) \cup E
      BY <2>1, <3>1
    <3>3. Evolves(X, E, D1)
      BY <1>6, <3>2, EvolvesDetach
    <3>4. PICK S : S = {t.s}
      OBVIOUS
    <3>5. Afar(X, S)
      BY <1>1, <1>2, <2>1, <3>1, <3>4 DEF Afar, Subagent, FinPC
    <3>6. \A s \in Subagent : s \in S /\ status'[s] \in Live => Safe(s)'
      BY <1>1, <2>4, <3>4 DEF Safe
    <3> QED
      BY <1>1, <1>3, <2>1, <3>3, <3>5, <3>6, TendedKept
  <2> QED
    BY <2>2, <2>3, <2>4
<1>9. CASE /\ ~(t.s # Root /\ status[t.s] \notin Live) /\ armed[t.s] # "set"
           /\ Busy(t.s) \/ parked[t.s]
  <2>1. tasks' = (tasks \ {t}) \cup E /\ UNCHANGED status
    BY <1>4, <1>9 DEF WakeEnter
  <2>2. \/ parked[t.s]
        \/ status[t.s] \notin Live
        \/ \E u \in tasks : u.s = t.s /\ Minds(u) /\ u # t
    <3> SUFFICES ASSUME ~parked[t.s], status[t.s] \in Live
                 PROVE  \E u \in tasks : u.s = t.s /\ Minds(u) /\ u # t
      OBVIOUS
    <3>1. PICK u \in tasks : u.s = t.s /\ Minds(u) /\ u.pc # "start"
      BY <1>1, <1>9, BusyMinded
    <3> QED
      BY <1>1, <3>1
  <2> QED
    BY <1>1, <1>2, <1>4, <1>5, <2>1, <2>2, TendedSilent
<1>10. CASE /\ ~(t.s # Root /\ status[t.s] \notin Live) /\ armed[t.s] # "set"
            /\ ~(Busy(t.s) \/ parked[t.s])
  <2>1. CASE status[t.s] = "waiting"
    <3>1. PICK u : u = [t EXCEPT !.pc = "flip", !.lk = TRUE]
      OBVIOUS
    <3>2. tasks' = (tasks \ {t}) \cup {u}
      BY <1>7, <1>8, <1>9, <1>10, <2>1, <3>1, Zenon DEF WakeEnter
    <3>3. status' = [status EXCEPT ![t.s] = "running"]
      BY <1>10, <2>1 DEF WakeEnter
    <3>4. status'[t.s] = "running" /\ Only(t.s)
      BY <1>1, <3>3, Types DEF TypeOK, Only
    <3>5. u.s = t.s /\ u.pc = "flip"
      BY <1>1, <3>1 DEF Task
    <3>6. Minds(u) /\ Leaving(u)
      BY <3>4, <3>5 DEF Minds, Leaving, Unmarks, FinPC
    <3>7. Alone(u, t, {})
      BY <3>2, AlonePlain
    <3> QED
      BY <1>1, <1>2, <3>4, <3>5, <3>6, <3>7, TendedOn DEF Live
  <2>2. CASE status[t.s] # "waiting"
    <3>1. WakeStream(t, tasks \ {t}) /\ UNCHANGED status
      BY <1>10, <2>2, Zenon DEF WakeEnter
    <3> QED
      BY <1>1, <3>1, WakeStreamTended
  <2> QED
    BY <2>1, <2>2
<1> QED
  BY <1>7, <1>8, <1>9, <1>10

\* The flip was broadcast.
LEMMA WakeFlippedTended ==
    ASSUME IInv, Clean, Tended, Shallow, Lasting, NEW t \in tasks, WakeFlipped(t)
    PROVE  Tended'
<1>1. /\ t.pc = "flip" /\ t.s \in Session /\ t \in Task /\ Ending(t)
      /\ UNCHANGED <<parked, pending, timer, cut>>
  BY TendedTask DEF WakeFlipped, queues
<1>2. CASE armed[t.s] = "set"
  <2>1. PICK V : V = IF Stoppable(t.s) THEN FinTask(t, "stopped", "unmark")
                     ELSE Return(t, "unmark")
    OBVIOUS
  <2>2. /\ tasks' = Detach(tasks \ {t}, t.s) \cup V
        /\ status' = IF Stoppable(t.s) THEN FinStatus(t.s, "stopped") ELSE status
    BY <1>2, <2>1, Zenon DEF WakeFlipped
  <2>3. Evolves({t}, V, {t.s})
    BY <2>2, EvolvesDetach
  <2>4. Asks(t, V, "unmark") /\ "unmark" \in BackPC
    BY <1>1, <2>1, <2>2 DEF Asks, Ending, BackPC
  <2>5. t.pc \notin FinPC /\ ~Flushing(t)
    BY <1>1 DEF FinPC, Flushing
  <2> QED
    BY <1>1, <2>3, <2>4, <2>5, TendedFin
<1>3. CASE armed[t.s] # "set"
  <2>1. WakeStream(t, tasks \ {t}) /\ UNCHANGED status
    BY <1>3, Zenon DEF WakeFlipped
  <2> QED
    BY <1>1, <2>1, WakeStreamTended
<1> QED
  BY <1>2, <1>3

\* A wake is refused before its turn, or gives its marker back.
LEMMA RefusedTended ==
    ASSUME IInv, Tended, Clean, Shallow, Lasting, NEW t \in tasks,
           WakeRefused(t) \/ Unmark(t)
    PROVE  Tended'
<1>1. /\ tasks' = tasks \ {t} /\ UNCHANGED <<status, parked, pending, timer, cut>>
      /\ t.s \in Session
  BY TendedTask DEF WakeRefused, Unmark, registries, queues, history
<1>2. CASE WakeRefused(t)
  <2>1. t.kind = "wake" /\ t.pc = "start" /\ status[t.s] \notin Live
    BY <1>2 DEF WakeRefused, Live, Terminal
  <2>2. t.pc \notin FinPC /\ ~Flushing(t)
    BY <2>1 DEF FinPC, Flushing
  <2>3. PICK E : E = {}
    OBVIOUS
  <2>4. Reconciles(E, t.s) /\ tasks' = (tasks \ {t}) \cup E
    BY <1>1, <2>3 DEF Reconciles
  <2> QED
    BY <1>1, <2>1, <2>2, <2>3, <2>4, TendedSilent
<1>3. CASE Unmark(t)
  <2>1. t.pc = "unmark"
    BY <1>3 DEF Unmark
  <2>2. PICK X : X = {t}
    OBVIOUS
  <2>3. PICK N : N = {}
    OBVIOUS
  <2>4. Evolves(X, N, {})
    BY <1>1, <2>2, <2>3, EndsShape
  <2>5. ~Minds(t) /\ ~Flushing(t) /\ t.pc \notin FinPC
    BY <2>1 DEF Minds, Flushing, FinPC
  <2> QED
    BY <1>1, <2>2, <2>3, <2>4, <2>5, TendedEnds
<1> QED
  BY <1>2, <1>3

----------------------------------------------------------------------------
(* The report of a finished child.                                         *)

\* Who is looked after by a coroutine, the user or a child still is.
LEMMA SafeKept ==
    ASSUME NEW X, NEW N, NEW D, Evolves(X, N, D), UNCHANGED <<status, parked, cut>>,
           NEW s, \A u \in X : u \in tasks => ~Minds(u),
           \/ parked[s] \/ s \in cut \/ Minded(s)
           \/ status[s] = "waiting" /\ LiveBelow(s) # {}
    PROVE  Safe(s)'
<1>1. CASE parked[s] \/ s \in cut
  BY <1>1 DEF Safe
<1>2. CASE Minded(s)
  <2>1. PICK u \in tasks : u.s = s /\ Minds(u)
    BY <1>2 DEF Minded
  <2>2. PICK v \in tasks' : Twin(u, v)
    BY <2>1, Evolved
  <2>3. v.s = s /\ Minds(v)
    BY <2>1, <2>2, TwinMinds
  <2> QED
    BY <2>2, <2>3 DEF Safe, Minded
<1>3. CASE status[s] = "waiting" /\ LiveBelow(s) # {}
  <2>1. LiveBelow(s)' = LiveBelow(s)
    BY DEF LiveBelow, Below
  <2> QED
    BY <1>3, <2>1 DEF Safe
<1> QED
  BY <1>1, <1>2, <1>3

\* What happens to t and what it calls on the way to p leaves all in order.
LEMMA TendedCalls ==
    ASSUME IInv, Tended, Shallow, Lasting, NEW X, NEW N, NEW D, Evolves(X, N, D),
           NEW p, \A u \in X : u \in tasks =>
               /\ ~Minds(u) /\ (Flushing(u) => u.s = p)
               /\ u.pc = "push" => Parent[u.s] = p /\ status[u.s] \notin Live,
           UNCHANGED <<status, parked, cut>>,
           \A s \in Session : s # p => pending'[s] = pending[s]
                                /\ (s \in timer => s \in timer'),
           \A v \in N : Leaving(v),
           p \in Subagent /\ status[p] \in Live => Safe(p)'
    PROVE  Tended'
<1>1. PICK S : S = {p}
  OBVIOUS
<1>2. Afar(X, S)
  BY <1>1 DEF Afar, Subagent, Minds
<1> QED
  BY <1>1, <1>2, TendedKept

\* A return from a finalizer that has written its status.
LEMMA LeavingReturn ==
    ASSUME NEW t \in Task, NEW ret \in BackPC, status'[t.s] \in Terminal
    PROVE  \A v \in Return(t, ret) : Leaving(v)
<1>1. ASSUME NEW v \in Return(t, ret)
      PROVE  Leaving(v)
  <2>1. ret # "end" /\ v = [t EXCEPT !.pc = ret, !.res = "none", !.ret = "end"]
    BY <1>1 DEF Return
  <2>2. v.s = t.s /\ v.pc = ret /\ v.ret = "end"
    BY <2>1 DEF Task
  <2> QED
    BY <2>1, <2>2 DEF Leaving, BackPC, Unmarks, FinPC
<1> QED
  BY <1>1

\* The final report was read.
LEMMA FinReportTended ==
    ASSUME IInv, Clean, Tended, Shallow, Lasting, NEW t \in tasks, FinReport(t)
    PROVE  Tended'
<1>1. /\ t \in Task /\ t.s \in Session /\ Ending(t) /\ t.pc = "report"
      /\ UNCHANGED <<parked, pending, timer, cut>>
      /\ status' = [status EXCEPT ![t.s] = "done"]
  BY TendedTask DEF FinReport, registries, queues, history
<1>2. PICK u : u = [t EXCEPT !.pc = "push"]
  OBVIOUS
<1>3. Alone(u, t, {})
  BY <1>2, AlonePlain DEF FinReport
<1>4. u.s = t.s /\ u.pc = "push" /\ u.res = "done" /\ u.ret = t.ret
  BY <1>1, <1>2 DEF Task, Ending
<1>5. status'[t.s] = "done" /\ \A s \in Session : s # t.s => status'[s] = status[s]
  BY <1>1, Types DEF TypeOK
<1>6. Leaving(u)
  BY <1>4, <1>5 DEF Leaving, Terminal
<1>7. PICK X : X = {t}
  OBVIOUS
<1>8. PICK N : N = {u}
  OBVIOUS
<1>9. PICK S : S = {t.s}
  OBVIOUS
<1>10. Evolves(X, N, {})
  BY <1>3, <1>7, <1>8 DEF Alone
<1>11. Afar(X, S)
  BY <1>1, <1>5, <1>7, <1>9 DEF Afar, Subagent, Flushing, Terminal
<1> QED
  BY <1>1, <1>4, <1>5, <1>6, <1>7, <1>8, <1>9, <1>10, <1>11, TendedKept DEF Live

\* A stopped child wakes its parent if that one waits for nobody else.
LEMMA FinStoppedTended ==
    ASSUME IInv, Clean, Tended, Shallow, Lasting, NEW t \in tasks, FinStopped(t)
    PROVE  Tended'
<1>1. /\ t \in Task /\ t.s \in Session /\ Ending(t) /\ t.pc = "push"
      /\ t.res = "stopped" /\ UNCHANGED <<status, parked, cut>>
  BY TendedTask DEF FinStopped, registries, history
<1>2. PICK p : p = Parent[t.s]
  OBVIOUS
<1>3. t.s \in Subagent /\ p \in Session /\ p \in Above(t.s)
  BY <1>1, <1>2, FinParent, TreeAssumption DEF FinPC, Above, Subagent
<1>4. status[t.s] = "stopped"
  BY <1>1 DEF Ending
<1>5. PICK w : w = WakeTask(p, pending[p] \cup {<<t.s, 0>>}, FALSE)
  OBVIOUS
<1>6. PICK W : /\ tasks' = (tasks \ {t}) \cup Return(t, t.ret) \cup W
               /\ W = {} \/ W = {w}
               /\ status[p] = "waiting" /\ LiveBelow(p) = {}
                    /\ (\E c \in Below(p) : status[c] \notin {"done", "failed"}) => W = {w}
               /\ \/ UNCHANGED <<pending, timer>>
                  \/ /\ pending' = [pending EXCEPT ![p] = {}]
                     /\ timer' = timer \/ timer' = timer \ {p}
  <2>1. CASE status[p] = "waiting" /\ LiveBelow(p) = {}
               /\ \E c \in Below(p) : status[c] \notin {"done", "failed"}
    <3>1. PICK W : W = {w}
      OBVIOUS
    <3>2. tasks' = (tasks \ {t}) \cup Return(t, t.ret) \cup W
      BY <1>2, <1>5, <2>1, <3>1 DEF FinStopped
    <3>3. /\ pending' = [pending EXCEPT ![p] = {}]
          /\ timer' = timer \/ timer' = timer \ {p}
      BY <1>2, <2>1 DEF FinStopped
    <3> QED
      BY <3>1, <3>2, <3>3
  <2>2. CASE ~(status[p] = "waiting" /\ LiveBelow(p) = {}
               /\ \E c \in Below(p) : status[c] \notin {"done", "failed"})
    <3>1. PICK W : W = {}
      OBVIOUS
    <3>2. tasks' = (tasks \ {t}) \cup Return(t, t.ret) /\ UNCHANGED <<pending, timer>>
      BY <1>2, <2>2 DEF FinStopped
    <3> QED
      BY <2>2, <3>1, <3>2
  <2> QED
    BY <2>1, <2>2
<1>7. PICK X : X = {t}
  OBVIOUS
<1>8. PICK N : N = Return(t, t.ret) \cup W
  OBVIOUS
<1>9. tasks' = (tasks \ X) \cup N
  BY <1>6, <1>7, <1>8
<1>10. Evolves(X, N, {})
  BY <1>9, EvolvesPlain
<1>11. w.s = p /\ w.pc = "start" /\ w.kind = "wake"
  BY <1>5 DEF WakeTask, NewTask
<1>12. \A v \in N : Leaving(v)
  <2>1. t.ret \in BackPC /\ status'[t.s] \in Terminal
    BY <1>1, <1>4 DEF Task, BackPC, Terminal
  <2>2. \A v \in Return(t, t.ret) : Leaving(v)
    BY <1>1, <2>1, LeavingReturn
  <2>3. Leaving(w)
    BY <1>11, LeavingNew DEF FinPC
  <2> QED
    BY <1>6, <1>8, <2>2, <2>3
<1>13. ~Minds(t) /\ ~Flushing(t)
  BY <1>1 DEF Minds, Flushing
<1>14. ASSUME p \in Subagent, status[p] \in Live
       PROVE  Safe(p)'
  <2>1. Safe(p)
    BY <1>14 DEF Tended
  <2>2. CASE status[p] = "waiting" /\ LiveBelow(p) = {}
    <3>1. t.s \in Below(p) /\ status[t.s] \notin {"done", "failed"}
      BY <1>3, <1>4 DEF Below
    <3>2. w \in tasks' /\ Minds(w)
      BY <1>6, <1>8, <1>9, <1>11, <2>2, <3>1 DEF Minds
    <3> QED
      BY <1>11, <3>2 DEF Safe, Minded
  <2>3. CASE ~(status[p] = "waiting" /\ LiveBelow(p) = {})
    <3>1. \/ parked[p] \/ p \in cut \/ Minded(p)
          \/ status[p] = "waiting" /\ LiveBelow(p) # {}
      BY <2>1, <2>3 DEF Safe
    <3> QED
      BY <1>1, <1>7, <1>10, <1>13, <3>1, SafeKept
  <2> QED
    BY <2>2, <2>3
<1>15. \A s \in Session : s # p => pending'[s] = pending[s]
                            /\ (s \in timer => s \in timer')
  BY <1>3, <1>6, Types DEF TypeOK
<1>16. status[t.s] \notin Live
  BY <1>4 DEF Live
<1> QED
  BY <1>1, <1>2, <1>7, <1>10, <1>12, <1>13, <1>14, <1>15, <1>16, TendedCalls

\* A report finds somebody at work, or will wake the parent.
LEMMA FinInjectTended ==
    ASSUME IInv, Clean, Tended, Shallow, Lasting, NEW t \in tasks, FinInject(t)
    PROVE  Tended'
<1>1. /\ t \in Task /\ t.s \in Session /\ Ending(t) /\ t.pc = "push"
      /\ t.res \in {"done", "failed"} /\ UNCHANGED <<status, parked, cut>>
  BY TendedTask DEF FinInject, registries
<1>2. PICK p : p = Parent[t.s]
  OBVIOUS
<1>3. t.s \in Subagent /\ p \in Session
  BY <1>1, <1>2, FinParent, TreeAssumption DEF FinPC, Subagent
<1>4. status[t.s] \in Terminal /\ status[t.s] \notin Live
  BY <1>1 DEF Ending, Live, Terminal
<1>5. PICK n : n = NewTask("flush", p, "start")
  OBVIOUS
<1>6. PICK e : e = <<t.s, emitted[t.s] + 1>>
  OBVIOUS
<1>7. PICK W : /\ tasks' = (tasks \ {t}) \cup Return(t, t.ret) \cup W
               /\ W = {} \/ W = {n}
               /\ \/ UNCHANGED <<pending, timer>> /\ (status[p] \in Terminal \/ Busy(p))
                  \/ /\ pending' = [pending EXCEPT ![p] = @ \cup {e}]
                     /\ timer' = timer \/ timer' = timer \cup {p}
                     /\ p \in timer' \/ W = {n}
  <2>1. CASE status[p] \in Terminal \/ Busy(p)
    <3>1. PICK W : W = {}
      OBVIOUS
    <3>2. tasks' = (tasks \ {t}) \cup Return(t, t.ret) /\ UNCHANGED <<pending, timer>>
      BY <1>2, <2>1 DEF FinInject, queues
    <3> QED
      BY <2>1, <3>1, <3>2
  <2>2. CASE ~(status[p] \in Terminal \/ Busy(p))
    <3>1. pending' = [pending EXCEPT ![p] = @ \cup {e}]
      BY <1>2, <1>6, <2>2 DEF FinInject
    <3>2. CASE p \in timer \/ Waking(p) \/ LiveBelow(p) # {}
      <4>1. PICK W : W = {}
        OBVIOUS
      <4>2. tasks' = (tasks \ {t}) \cup Return(t, t.ret) /\ timer' = timer \cup {p}
        BY <1>2, <2>2, <3>2 DEF FinInject
      <4> QED
        BY <3>1, <4>1, <4>2
    <3>3. CASE ~(p \in timer \/ Waking(p) \/ LiveBelow(p) # {})
      <4>1. PICK W : W = {n}
        OBVIOUS
      <4>2. /\ tasks' = (tasks \ {t}) \cup Return(t, t.ret) \cup W
            /\ UNCHANGED timer
        BY <1>2, <1>5, <2>2, <3>3, <4>1 DEF FinInject
      <4> QED
        BY <3>1, <4>1, <4>2
    <3> QED
      BY <3>2, <3>3
  <2> QED
    BY <2>1, <2>2
<1>8. PICK X : X = {t}
  OBVIOUS
<1>9. PICK N : N = Return(t, t.ret) \cup W
  OBVIOUS
<1>10. tasks' = (tasks \ X) \cup N
  BY <1>7, <1>8, <1>9
<1>11. Evolves(X, N, {})
  BY <1>10, EvolvesPlain
<1>12. n.s = p /\ n.pc = "start" /\ n.kind = "flush"
  BY <1>5 DEF NewTask
<1>13. \A v \in N : Leaving(v)
  <2>1. t.ret \in BackPC /\ status'[t.s] \in Terminal
    BY <1>1, <1>4 DEF Task, BackPC
  <2>2. \A v \in Return(t, t.ret) : Leaving(v)
    BY <1>1, <2>1, LeavingReturn
  <2>3. Leaving(n)
    BY <1>12, LeavingNew DEF FinPC
  <2> QED
    BY <1>7, <1>9, <2>2, <2>3
<1>14. ~Minds(t) /\ ~Flushing(t)
  BY <1>1 DEF Minds, Flushing
<1>15. ASSUME p \in Subagent, status[p] \in Live
       PROVE  Safe(p)'
  <2>1. Safe(p) /\ status[p] \notin Terminal
    BY <1>15 DEF Tended, Live, Terminal
  <2>2. CASE \/ parked[p] \/ p \in cut \/ Minded(p)
             \/ status[p] = "waiting" /\ LiveBelow(p) # {}
    BY <1>1, <1>8, <1>11, <1>14, <2>2, SafeKept
  <2>3. CASE ~(\/ parked[p] \/ p \in cut \/ Minded(p)
               \/ status[p] = "waiting" /\ LiveBelow(p) # {})
    <3>1. ~Busy(p)
      BY <1>3, <1>15, <2>3, BusyMinded DEF Minded
    <3>2. /\ pending' = [pending EXCEPT ![p] = @ \cup {e}]
          /\ p \in timer' \/ W = {n}
      BY <1>7, <2>1, <3>1
    <3>3. pending'[p] # {}
      BY <1>3, <3>2, Types DEF TypeOK
    <3>4. W = {n} => n \in tasks' /\ Flushing(n)
      BY <1>9, <1>10, <1>12 DEF Flushing
    <3>5. Woken(p)'
      BY <1>12, <3>2, <3>3, <3>4 DEF Woken
    <3>6. status[p] = "waiting"
      BY <2>1, <2>3 DEF Safe
    <3> QED
      BY <1>1, <3>5, <3>6 DEF Safe
  <2> QED
    BY <2>2, <2>3
<1>16. \A s \in Session : s # p => pending'[s] = pending[s]
                            /\ (s \in timer => s \in timer')
  BY <1>3, <1>7, Types DEF TypeOK
<1> QED
  BY <1>1, <1>2, <1>4, <1>8, <1>11, <1>13, <1>14, <1>15, <1>16, TendedCalls

----------------------------------------------------------------------------
(* The flush of the reports that are queued.                               *)

\* A flush wakes p, stashes to who is at work there, or tries again later.
LEMMA FlushTended ==
    ASSUME IInv, Clean, Tended, Shallow, Lasting, NEW p \in Session, NEW X,
           \A u \in X : Flushing(u) /\ u.s = p, NEW ticking,
           ticking \subseteq timer, \A s \in timer : s # p => s \in ticking,
           p \in timer \/ X # {}, Flush(p, tasks \ X, ticking),
           UNCHANGED <<status, parked, cut>>
    PROVE  Tended'
<1>1. PICK w : w = WakeTask(p, pending[p], TRUE)
  OBVIOUS
<1>2. w.s = p /\ w.pc = "start" /\ w.kind = "wake"
  BY <1>1 DEF WakeTask, NewTask
<1>3. PICK N : /\ tasks' = (tasks \ X) \cup N
               /\ N = {} \/ N = {w}
               /\ timer' = ticking \/ timer' = ticking \cup {p}
               /\ \/ p \in timer' /\ UNCHANGED pending
                  \/ /\ pending' = [pending EXCEPT ![p] = {}]
                     /\ \/ pending[p] = {} \/ status[p] \in Terminal
                        \/ Busy(p) \/ N = {w}
  <2>1. CASE Waking(p)
    <3>1. PICK N : N = {}
      OBVIOUS
    <3>2. tasks' = (tasks \ X) \cup N /\ timer' = ticking \cup {p} /\ UNCHANGED pending
      BY <2>1, <3>1 DEF Flush
    <3> QED
      BY <3>1, <3>2
  <2>2. CASE ~Waking(p)
    <3>1. timer' = ticking /\ pending' = [pending EXCEPT ![p] = {}]
      BY <2>2 DEF Flush
    <3>2. CASE pending[p] = {} \/ status[p] \in Terminal \/ Busy(p)
      <4>1. PICK N : N = {}
        OBVIOUS
      <4>2. tasks' = (tasks \ X) \cup N
        BY <2>2, <3>2, <4>1 DEF Flush
      <4> QED
        BY <3>1, <3>2, <4>1, <4>2
    <3>3. CASE ~(pending[p] = {} \/ status[p] \in Terminal \/ Busy(p))
      <4>1. PICK N : N = {w}
        OBVIOUS
      <4>2. tasks' = (tasks \ X) \cup N
        BY <1>1, <2>2, <3>3, <4>1 DEF Flush
      <4> QED
        BY <3>1, <4>1, <4>2
    <3> QED
      BY <3>2, <3>3
  <2> QED
    BY <2>1, <2>2
<1>4. Evolves(X, N, {})
  BY <1>3, EvolvesPlain
<1>5. \A u \in X : ~Minds(u) /\ u.pc = "start"
  BY DEF Flushing, Minds
<1>6. \A v \in N : Leaving(v)
  BY <1>2, <1>3, LeavingNew DEF FinPC
<1>7. \A s \in Session : s # p => pending'[s] = pending[s]
                           /\ (s \in timer => s \in timer')
  BY <1>3, Types DEF TypeOK
<1>8. ASSUME p \in Subagent, status[p] \in Live
      PROVE  Safe(p)'
  <2>1. Safe(p) /\ status[p] \notin Terminal
    BY <1>8 DEF Tended, Live, Terminal
  <2>2. CASE \/ parked[p] \/ p \in cut \/ Minded(p)
             \/ status[p] = "waiting" /\ LiveBelow(p) # {}
    BY <1>4, <1>5, <2>2, SafeKept
  <2>3. CASE ~(\/ parked[p] \/ p \in cut \/ Minded(p)
               \/ status[p] = "waiting" /\ LiveBelow(p) # {})
    <3>1. ~Busy(p)
      BY <1>8, <2>3, BusyMinded DEF Minded
    <3>2. status[p] = "waiting" /\ Woken(p)
      BY <2>1, <2>3 DEF Safe
    <3>3. CASE N = {w}
      <4>1. w \in tasks' /\ Minds(w)
        BY <1>2, <1>3, <3>3 DEF Minds
      <4> QED
        BY <1>2, <4>1 DEF Safe, Minded
    <3>4. CASE \E t \in tasks : t.pc = "push" /\ Parent[t.s] = p
      <4>1. PICK u \in tasks : u.pc = "push" /\ Parent[u.s] = p
        BY <3>4
      <4>2. PICK v \in tasks' : Twin(u, v)
        BY <1>4, <1>5, <4>1, Evolved
      <4>3. v.s = u.s /\ v.pc = "push"
        BY <4>1, <4>2, TwinMinds
      <4>4. Woken(p)'
        BY <4>1, <4>2, <4>3 DEF Woken
      <4> QED
        BY <3>2, <4>4 DEF Safe
    <3>5. CASE pending[p] # {} /\ N # {w}
      <4>1. p \in timer' /\ UNCHANGED pending
        BY <1>3, <2>1, <3>1, <3>5
      <4>2. Woken(p)'
        BY <3>5, <4>1 DEF Woken
      <4> QED
        BY <3>2, <4>2 DEF Safe
    <3> QED
      BY <3>2, <3>3, <3>4, <3>5 DEF Woken
  <2> QED
    BY <2>2, <2>3
<1> QED
  BY <1>4, <1>5, <1>6, <1>7, <1>8, TendedCalls

\* The flush of a report, and that of the timer.
LEMMA FlushesTended ==
    ASSUME IInv, Clean, Tended, Shallow, Lasting,
           \/ \E t \in tasks : FlushRun(t)
           \/ \E p \in Session : TimerFire(p)
    PROVE  Tended'
<1>1. ASSUME NEW t \in tasks, FlushRun(t)
      PROVE  Tended'
  <2>1. /\ Flushing(t) /\ t.s \in Session /\ Flush(t.s, tasks \ {t}, timer)
        /\ UNCHANGED <<status, parked, cut>>
    BY <1>1, TendedTask DEF FlushRun, Flushing, registries, history
  <2>2. PICK X : X = {t}
    OBVIOUS
  <2> QED
    BY <2>1, <2>2, FlushTended
<1>2. ASSUME NEW p \in Session, TimerFire(p)
      PROVE  Tended'
  <2>1. PICK X : X = {}
    OBVIOUS
  <2>2. tasks \ X = tasks
    BY <2>1
  <2>3. PICK ticking : ticking = timer \ {p}
    OBVIOUS
  <2>4. /\ p \in timer /\ Flush(p, tasks \ X, ticking)
        /\ UNCHANGED <<status, parked, cut>>
    BY <1>2, <2>2, <2>3 DEF TimerFire, registries, history
  <2> QED
    BY <2>1, <2>3, <2>4, FlushTended
<1> QED
  BY <1>1, <1>2

----------------------------------------------------------------------------
(* The steps of a stop.                                                    *)

\* A coroutine that looked after nobody gives way.
LEMMA TendedEnd ==
    ASSUME IInv, Shallow, Lasting, Tended, NEW t \in tasks, NEW N, NEW D,
           Evolves({t}, N, D), ~Minds(t), ~Flushing(t), t.pc \notin FinPC,
           \A v \in N : Leaving(v),
           UNCHANGED <<status, parked, pending, timer, cut>>
    PROVE  Tended'
<1>1. PICK X : X = {t}
  OBVIOUS
<1> QED
  BY <1>1, TendedEnds

\* The stop of a session that waits.
LEMMA StopIfTended ==
    ASSUME IInv, Clean, Tended, Shallow, Lasting, NEW t \in tasks, StopIfWaiting(t)
    PROVE  Tended'
<1>1. /\ t \in Task /\ t.s \in Session /\ t.pc = "start" /\ t.kind = "stopif"
      /\ UNCHANGED <<parked, pending, timer, cut>>
  BY TendedTask DEF StopIfWaiting, registries, queues, history
<1>2. ~Minds(t) /\ ~Flushing(t) /\ t.pc \notin FinPC
  BY <1>1 DEF Minds, Flushing, FinPC
<1>3. CASE Busy(t.s) \/ status[t.s] # "waiting"
  <2>1. PICK N : N = {}
    OBVIOUS
  <2>2. tasks' = tasks \ {t} /\ UNCHANGED status
    BY <1>3 DEF StopIfWaiting
  <2>3. Evolves({t}, N, {})
    BY <2>1, <2>2, EndsShape
  <2> QED
    BY <1>1, <1>2, <2>1, <2>2, <2>3, TendedEnd
<1>4. CASE ~(Busy(t.s) \/ status[t.s] # "waiting")
  <2>1. PICK u : u = [t EXCEPT !.lk = TRUE]
    OBVIOUS
  <2>2. u \in Task /\ u.s = t.s
    BY <1>1, <2>1 DEF Task
  <2>3. PICK V : V = FinTask(u, "stopped", "end")
    OBVIOUS
  <2>4. status' = FinStatus(t.s, "stopped") /\ tasks' = (tasks \ {t}) \cup V
    BY <1>4, <2>1, <2>3 DEF StopIfWaiting
  <2>5. Evolves({t}, V, {})
    BY <2>4, EvolvesPlain
  <2>6. Stoppable(u.s)
    BY <1>4, <2>2 DEF Stoppable, IInv, RootMain, Live
  <2>7. Asks(u, V, "end") /\ "end" \in BackPC
    BY <2>2, <2>3, <2>4, <2>6 DEF Asks, BackPC
  <2> QED
    BY <1>1, <1>2, <2>2, <2>5, <2>7, TendedFin
<1> QED
  BY <1>3, <1>4

\* The cascade: signal, heal a parked session, finalize an idle one.
LEMMA CascadeTended ==
    ASSUME IInv, Clean, Tended, Shallow, Lasting, NEW t \in tasks,
           CascadeEnd(t) \/ CascadeParked(t) \/ CascadeIdle(t)
    PROVE  Tended'
<1>1. /\ t \in Task /\ t.s \in Session /\ AtCascade(t)
      /\ UNCHANGED <<pending, timer, cut>>
  BY TendedTask DEF CascadeEnd, CascadeParked, CascadeIdle, queues, history
<1>2. ~Minds(t) /\ ~Flushing(t) /\ t.pc \notin FinPC
  BY <1>1 DEF AtCascade, Minds, Flushing, FinPC
<1>3. CASE CascadeEnd(t)
  <2>1. PICK N : N = {}
    OBVIOUS
  <2>2. tasks' = tasks \ {t} /\ UNCHANGED <<status, parked>>
    BY <1>3 DEF CascadeEnd
  <2>3. Evolves({t}, N, {})
    BY <2>1, <2>2, EndsShape
  <2> QED
    BY <1>1, <1>2, <2>1, <2>2, <2>3, TendedEnd
<1>4. CASE CascadeParked(t)
  <2>1. PICK x \in ToVisit(t) : \E u :
          /\ parked' = [parked EXCEPT ![x] = FALSE]
          /\ Alone(u, t, {}) /\ u.s = x /\ u.pc = "heal"
    BY <1>4, CascadeParkedShape
  <2>2. PICK u : Alone(u, t, {}) /\ u.s = x /\ u.pc = "heal"
    BY <2>1
  <2>3. x \in Session
    BY <1>1, Types DEF ToVisit, Below, Task
  <2>4. PICK X : X = {t}
    OBVIOUS
  <2>5. PICK R : R = {}
    OBVIOUS
  <2>6. PICK V : V = {u}
    OBVIOUS
  <2>7. {u} = R \cup V
    BY <2>5, <2>6
  <2>8. Evolves(X, R \cup V, {})
    BY <2>2, <2>4, <2>7 DEF Alone
  <2>9. UNCHANGED status
    BY <1>4 DEF CascadeParked
  <2>10. Minds(u) /\ Leaving(u)
    BY <2>2, LeavingNew DEF Minds, FinPC
  <2>11. Closed(X, V, x)
    BY <2>2, <2>6, <2>9, <2>10 DEF Closed
  <2>12. \A s \in Session : s # x /\ parked[s] => parked'[s]
    BY <2>1, Types DEF TypeOK
  <2>13. /\ \A v \in R : Leaving(v)
         /\ \A w \in X : w \in tasks =>
              (Minds(w) => w.s = x) /\ ~Flushing(w) /\ w.pc \notin FinPC
    BY <1>2, <2>4, <2>5
  <2> QED
    BY <1>1, <2>3, <2>8, <2>9, <2>11, <2>12, <2>13, TendedOne DEF Only
<1>5. CASE CascadeIdle(t)
  <2>1. PICK x \in AwaitsAt(t), S \in SUBSET (ToVisit(t) \ AwaitsAt(t)) :
         /\ ~parked[x]
         /\ status' = FinStatus(x, "stopped")
         /\ tasks' = (tasks \ {t}) \cup
              FinTask([t EXCEPT !.s = x, !.todo = ToVisit(t) \ (S \cup {x})],
                      "stopped", "walk")
    BY <1>5 DEF CascadeIdle
  <2>2. PICK todo : todo = ToVisit(t) \ (S \cup {x})
    OBVIOUS
  <2>3. PICK u : u = [t EXCEPT !.s = x, !.todo = todo]
    OBVIOUS
  <2>4. ToVisit(t) \subseteq Session
    BY <1>1, Types DEF ToVisit, Below, Task
  <2>5. x \in Session /\ todo \in SUBSET Session /\ Idle(x)
    BY <2>1, <2>2, <2>4 DEF AwaitsAt
  <2>6. u \in Task /\ u.s = x
    BY <1>1, <2>3, <2>5 DEF Task
  <2>7. PICK V : V = FinTask(u, "stopped", "walk")
    OBVIOUS
  <2>8. tasks' = (tasks \ {t}) \cup V
    BY <2>1, <2>2, <2>3, <2>7
  <2>9. Evolves({t}, V, {})
    BY <2>8, EvolvesPlain
  <2>10. Stoppable(u.s)
    BY <2>5, <2>6 DEF Idle, Stoppable, IInv, RootMain, Live
  <2>11. Asks(u, V, "walk") /\ "walk" \in BackPC
    BY <2>1, <2>6, <2>7, <2>10 DEF Asks, BackPC
  <2>12. UNCHANGED parked
    BY <1>5 DEF CascadeIdle
  <2> QED
    BY <1>1, <1>2, <2>5, <2>6, <2>9, <2>11, <2>12, TendedFin
<1> QED
  BY <1>3, <1>4, <1>5

\* The stop of a parked turn.
LEMMA HealTended ==
    ASSUME IInv, Clean, Tended, Shallow, Lasting, NEW t \in tasks,
           HealLocked(t) \/ HealStop(t) \/ HealTail(t)
    PROVE  Tended'
<1>1. /\ t \in Task /\ t.s \in Session /\ t.pc \in {"heal", "bcast", "tail"}
      /\ UNCHANGED <<parked, pending, timer, cut>>
  BY TendedTask DEF HealLocked, HealStop, HealTail, registries, queues, history
<1>2. ~Flushing(t) /\ t.pc \notin FinPC
  BY <1>1 DEF Flushing, FinPC
<1>3. CASE HealLocked(t)
  <2>1. PICK u : Alone(u, t, {}) /\ Goes(u, t, "bcast")
    BY <1>3, HealLockedShape
  <2>2. u.s = t.s /\ u.pc = "bcast"
    BY <2>1 DEF Goes
  <2>3. Minds(u) /\ Leaving(u)
    BY <2>2, LeavingNew DEF Minds, FinPC
  <2>4. UNCHANGED status
    BY <1>3 DEF HealLocked
  <2> QED
    BY <1>1, <1>2, <2>1, <2>2, <2>3, <2>4, TendedOn DEF Only
<1>4. CASE HealStop(t)
  <2>1. CASE Stoppable(t.s)
    <3>1. PICK V : V = FinTask(t, "stopped", "tail")
      OBVIOUS
    <3>2. /\ tasks' = Detach(tasks \ {t}, t.s) \cup V
          /\ status' = FinStatus(t.s, "stopped")
      BY <1>4, <2>1, <3>1 DEF HealStop
    <3>3. Evolves({t}, V, {t.s})
      BY <3>2, EvolvesDetach
    <3>4. Asks(t, V, "tail") /\ "tail" \in BackPC
      BY <2>1, <3>1, <3>2 DEF Asks, BackPC
    <3> QED
      BY <1>1, <1>2, <3>3, <3>4, TendedFin
  <2>2. CASE ~Stoppable(t.s)
    <3>1. PICK V : V = Return(t, "tail")
      OBVIOUS
    <3>2. tasks' = (tasks \ {t}) \cup V /\ UNCHANGED status
      BY <1>4, <2>2, <3>1 DEF HealStop
    <3>3. Evolves({t}, V, {})
      BY <3>2, EvolvesPlain
    <3>4. Asks(t, V, "tail") /\ "tail" \in BackPC
      BY <2>2, <3>1, <3>2 DEF Asks, BackPC
    <3> QED
      BY <1>1, <1>2, <3>3, <3>4, TendedFin
  <2> QED
    BY <2>1, <2>2
<1>5. CASE HealTail(t)
  <2>1. PICK R, V : /\ Evolves({t}, R \cup V, {}) /\ Reconciles(R, t.s)
                    /\ Walks(V, t)
    BY <1>5, HealTailShape
  <2>2. PICK N : N = R \cup V
    OBVIOUS
  <2>3. \A v \in V : Leaving(v)
    BY <2>1, LeavingNew DEF Walks, Goes, FinPC
  <2>4. \A v \in N : Leaving(v)
    BY <2>1, <2>2, <2>3, LeavingWakes
  <2>5. t.pc = "tail" /\ UNCHANGED status
    BY <1>5 DEF HealTail
  <2>6. ~Minds(t)
    BY <2>5 DEF Minds
  <2> QED
    BY <1>1, <1>2, <2>1, <2>2, <2>4, <2>5, <2>6, TendedEnd
<1> QED
  BY <1>3, <1>4, <1>5

----------------------------------------------------------------------------
(* The user, the model, the operating system.                              *)

\* A new coroutine looks after s.
LEMMA TendedJoin ==
    ASSUME IInv, Shallow, Lasting, Tended, NEW B, NEW n, NEW s \in Session,
           Evolves({}, B \cup {n}, {}), n.s = s, Minds(n), Leaving(n),
           \A v \in B : Leaving(v),
           \A x \in Session : x # s /\ parked[x] => parked'[x],
           UNCHANGED <<status, pending, timer, cut>>
    PROVE  Tended'
<1>1. PICK X : X = {}
  OBVIOUS
<1>2. PICK V : V = {n}
  OBVIOUS
<1>3. B \cup V = B \cup {n}
  BY <1>2
<1>4. PICK D : D = {}
  OBVIOUS
<1>5. Evolves(X, B \cup V, D)
  BY <1>1, <1>3, <1>4
<1>6. Closed(X, V, s) /\ Only(s)
  BY <1>2 DEF Closed, Only
<1>7. \A u \in X : u \in tasks =>
          (Minds(u) => u.s = s) /\ ~Flushing(u) /\ u.pc \notin FinPC
  BY <1>1
<1> QED
  BY <1>5, <1>6, <1>7, TendedOne

\* The user writes, answers, stops.
LEMMA UserTended ==
    ASSUME IInv, Clean, Tended, Shallow, Lasting, NEW s \in Session,
           Invoke(s) \/ Answer(s) \/ Stop(s)
    PROVE  Tended'
<1>1. UNCHANGED <<status, pending, timer, cut>>
  BY DEF Invoke, Answer, Stop, queues, history
<1>2. PICK E : E = {}
  OBVIOUS
<1>3. CASE Invoke(s)
  <2>1. PICK n : Evolves({}, {n}, {}) /\ Socket(n, s)
    BY <1>3, InvokeShape
  <2>2. n.s = s /\ n.pc = "queued"
    BY <2>1 DEF Socket
  <2>3. Minds(n) /\ Leaving(n) /\ UNCHANGED parked
    BY <1>3, <2>2, LeavingNew DEF Minds, FinPC, Invoke
  <2>4. {n} = E \cup {n}
    BY <1>2
  <2>5. Evolves({}, E \cup {n}, {})
    BY <2>1, <2>4
  <2> QED
    BY <1>1, <1>2, <2>2, <2>3, <2>5, TendedJoin
<1>4. CASE Answer(s)
  <2>1. PICK n : Evolves({}, {n}, {}) /\ Socket(n, s)
    BY <1>4, AnswerShape
  <2>2. n.s = s /\ n.pc = "queued"
    BY <2>1 DEF Socket
  <2>3. Minds(n) /\ Leaving(n)
    BY <2>2, LeavingNew DEF Minds, FinPC
  <2>4. {n} = E \cup {n}
    BY <1>2
  <2>5. Evolves({}, E \cup {n}, {})
    BY <2>1, <2>4
  <2>6. \A x \in Session : x # s /\ parked[x] => parked'[x]
    BY <1>4, Types DEF Answer, TypeOK
  <2> QED
    BY <1>1, <1>2, <2>2, <2>3, <2>5, <2>6, TendedJoin
<1>5. CASE Stop(s)
  <2>1. PICK B : /\ Stopping(B, s)
                 /\ \/ /\ \E h : Evolves({}, B \cup {h}, {}) /\ Healing(h, s)
                       /\ parked' = [parked EXCEPT ![s] = FALSE]
                    \/ Evolves({}, B, {}) /\ UNCHANGED parked
    BY <1>5, StopShape
  <2>2. \A v \in B : Leaving(v)
    BY <2>1, LeavingNew DEF Stopping, Spawned, FinPC
  <2>3. CASE Evolves({}, B, {}) /\ UNCHANGED parked
    BY <1>1, <1>2, <2>2, <2>3, TendedEnds
  <2>4. CASE /\ \E h : Evolves({}, B \cup {h}, {}) /\ Healing(h, s)
             /\ parked' = [parked EXCEPT ![s] = FALSE]
    <3>1. PICK h : Evolves({}, B \cup {h}, {}) /\ Healing(h, s)
      BY <2>4
    <3>2. h.s = s /\ h.pc = "heal"
      BY <3>1 DEF Healing
    <3>3. Minds(h) /\ Leaving(h)
      BY <3>2, LeavingNew DEF Minds, FinPC
    <3>4. \A x \in Session : x # s /\ parked[x] => parked'[x]
      BY <2>4, Types DEF TypeOK
    <3> QED
      BY <1>1, <2>2, <3>1, <3>2, <3>3, <3>4, TendedJoin
  <2> QED
    BY <2>1, <2>3, <2>4
<1> QED
  BY <1>3, <1>4, <1>5

\* A new child has its brief.
LEMMA CreateTended ==
    ASSUME IInv, Clean, Tended, Shallow, Lasting, NEW c \in Subagent, SpawnCreate(c)
    PROVE  Tended'
<1>1. PICK n : /\ Evolves({}, {n}, {}) /\ n.s = c /\ n.kind = "brief"
               /\ n.pc = "create"
  BY SpawnCreateShape
<1>2. Minds(n) /\ Leaving(n)
  BY <1>1, LeavingNew DEF Minds, FinPC
<1>3. /\ UNCHANGED <<parked, pending, timer, cut>> /\ status[c] = "none"
      /\ status' = [status EXCEPT ![c] = "running"]
  BY DEF SpawnCreate, registries, queues, history
<1>4. \A s \in Session : s # c => status'[s] = status[s]
  BY <1>3, Types DEF TypeOK
<1>5. PICK X : X = {}
  OBVIOUS
<1>6. PICK N : N = {n}
  OBVIOUS
<1>7. PICK S : S = {c}
  OBVIOUS
<1>8. Evolves(X, N, {})
  BY <1>1, <1>5, <1>6
<1>9. Afar(X, S)
  BY <1>3, <1>4, <1>5, <1>7 DEF Afar, Subagent
<1>10. n \in tasks'
  BY <1>6, <1>8, Evolved
<1>11. \A s \in Subagent : s \in S /\ status'[s] \in Live => Safe(s)'
  BY <1>1, <1>2, <1>7, <1>10 DEF Safe, Minded
<1>12. \A x \in Subagent : x \in S /\ status[x] \in Live /\ Parent[x] \notin S =>
          status'[x] \in Live \/ \E v \in N : v.s = x /\ v.pc = "push"
  BY <1>3, <1>7 DEF Live
<1> QED
  BY <1>2, <1>3, <1>6, <1>8, <1>9, <1>11, <1>12, TendedKept

\* After a restart nobody runs or waits.
LEMMA RestartTended ==
    ASSUME IInv, Restart
    PROVE  Tended'
<1>1. tasks' = {} /\ \A s \in Session : status'[s] \notin Live
  BY Types DEF Restart, TypeOK, Live
<1> QED
  BY <1>1 DEF Tended, Subagent, Live

----------------------------------------------------------------------------
(* Nobody is stranded, whatever happens.                                   *)

\* Only a retry begins a new life.
LEMMA LifeStays ==
    ASSUME \A s \in Session : ~Retry(s), [Next]_vars
    PROVE  UNCHANGED life \/ Restart
<1>1. CASE UNCHANGED vars
  BY <1>1 DEF vars
<1>2. CASE \E t \in tasks : SpawnArm(t) \/ SpawnLaunch(t) \/ RetryGo(t)
  BY <1>2, Zenon DEF SpawnArm, SpawnLaunch, RetryGo, history
<1>3. CASE \E t \in tasks : \/ TurnStep(t) \/ AutoRetry(t) \/ Interrupt(t)
                            \/ StreamEnd(t, "error") \/ StreamEnd(t, "recursion")
  BY <1>3, Zenon DEF TurnStep, BriefStart, StartTurn, Absorb, StreamEnd, StreamStop,
     SegEnd, ParkEnd, Settle, WaitPush, AutoRetry, Interrupt, history
<1>4. CASE \E t \in tasks : ReportStep(t)
  BY <1>4, Zenon DEF ReportStep, FinReport, FinStopped, FinInject, FlushRun,
     WakeRefused, WakeEnter, WakeFlipped, Unmark, history
<1>5. CASE \E t \in tasks : StopStep(t)
  BY <1>5, Zenon DEF StopStep, StopIfWaiting, CascadeEnd, CascadeParked, CascadeIdle,
     HealLocked, HealStop, HealTail, history
<1>6. CASE \E c \in Subagent : SpawnCreate(c)
  BY <1>6, Zenon DEF SpawnCreate, history
<1>7. CASE \E s \in Session : Invoke(s) \/ Answer(s) \/ Stop(s) \/ TimerFire(s)
  BY <1>7, Zenon DEF Invoke, Answer, Stop, TimerFire, history
<1> QED
  BY <1>1, <1>2, <1>3, <1>4, <1>5, <1>6, <1>7 DEF Next, System, Outside

\* So nobody is forgotten, and nobody is revived.
LEMMA LastingNext ==
    ASSUME IInv, Uneventful, [Next]_vars
    PROVE  Lasting
<1>1. \A s \in Session : ~Retry(s)
  BY Types DEF Rest, Uneventful, Retry, Take
<1>2. LifecycleStep
  BY StepKeeps
<1>3. CASE Restart
  <2>1. \A s \in Session : status'[s] = IF status[s] \in Live THEN "stopped"
                                        ELSE status[s]
    BY <1>3 DEF Restart
  <2> QED
    BY <2>1 DEF Lasting, Subagent, Live, Terminal
<1>4. CASE UNCHANGED life
  <2>1. \A s \in Session : life[s] \in Nat
    BY Types DEF Rest
  <2>2. \A s \in Session : life'[s] # life[s] + 1
    BY <1>4, <2>1
  <2> QED
    BY <1>2, <2>2, TerminalStep DEF Lasting, Subagent
<1> QED
  BY <1>1, <1>3, <1>4, LifeStays

\* Every step leaves all in order.
LEMMA TendedNext ==
    ASSUME IInv, Clean, Tended, Uneventful, [Next]_vars
    PROVE  Tended'
<1>1. Lasting /\ Shallow
  BY LastingNext DEF Uneventful
<1>2. CASE UNCHANGED vars
  <2>1. UNCHANGED <<status, tasks, parked, pending, timer, cut>>
    BY <1>2 DEF vars
  <2>2. PICK E : E = {}
    OBVIOUS
  <2>3. Evolves(E, E, {})
    BY <2>1, <2>2, StillShape
  <2> QED
    BY <1>1, <2>1, <2>2, <2>3, TendedEnds
<1>3. CASE \E t \in tasks : \/ SpawnArm(t) \/ SpawnLaunch(t) \/ RetryGo(t)
                            \/ AutoRetry(t) \/ Interrupt(t)
  BY <1>1, <1>3, TurnTended
<1>4. CASE \E t \in tasks : \/ TurnStep(t) \/ StreamEnd(t, "error")
                            \/ StreamEnd(t, "recursion")
  BY <1>1, <1>4, BriefTended, TurnTended, StreamEndTended, StreamStopTended,
     RestTended, SettleTended DEF TurnStep
<1>5. CASE \E t \in tasks : ReportStep(t)
  BY <1>1, <1>5, FinReportTended, FinStoppedTended, FinInjectTended, FlushesTended,
     RefusedTended, WakeEnterTended, WakeFlippedTended DEF ReportStep
<1>6. CASE \E t \in tasks : StopStep(t)
  BY <1>1, <1>6, StopIfTended, CascadeTended, HealTended DEF StopStep
<1>7. CASE \E p \in Session : TimerFire(p)
  BY <1>1, <1>7, FlushesTended
<1>8. CASE \E c \in Subagent : SpawnCreate(c)
  BY <1>1, <1>8, CreateTended
<1>9. CASE \E s \in Session : Invoke(s) \/ Answer(s) \/ Stop(s)
  BY <1>1, <1>9, UserTended
<1>10. CASE Restart
  BY <1>10, RestartTended
<1>11. \A s \in Session : ~Retry(s)
  BY Types DEF Rest, Uneventful, Retry, Take
<1> QED
  BY <1>2, <1>3, <1>4, <1>5, <1>6, <1>7, <1>8, <1>9, <1>10, <1>11
     DEF Next, System, Outside

\* Once nothing runs any more, a subagent that is not finished is parked at
\* a question or waits for a child that is (gate.py, runner.py, stop.py),
\* unless a stop of the parent cut its creation off: in a tree of two layers
\* of subagents, where no two stops lie on one path, nobody asks below a
\* stopped session and no failed subagent is revived.
THEOREM NobodyStranded == Uneventful => (Spec => []NoneStranded)
<1>1. Init => Locks /\ Clean /\ Tended
  <2> SUFFICES ASSUME Init PROVE Locks /\ Clean /\ Tended
    OBVIOUS
  <2>1. /\ tasks = {} /\ \A s \in Session : running[s] = "none" /\ armed[s] = "none"
        /\ \A s \in Session : ~parked[s]
        /\ \A s \in Subagent : s \in Session /\ status[s] = "none"
    BY DEF Init, Subagent
  <2>2. Tended
    BY <2>1 DEF Tended, Live
  <2> QED
    BY <2>1, <2>2 DEF Locks, Clean, Placed, Sweeps, Once, Dropped, Marked
<1>2. Tended => NoneStranded
  <2> SUFFICES ASSUME Tended, tasks = {}, timer = {}, NEW s \in Subagent, Safe(s)
               PROVE  \/ parked[s] \/ s \in cut
                      \/ status[s] = "waiting" /\ LiveBelow(s) # {}
    BY DEF NoneStranded, Settled, Tended
  <2> QED
    BY DEF Safe, Minded, Woken
<1>3. ASSUME Uneventful, IInv, Locks, Clean, Tended, [Next]_vars
      PROVE  (Locks /\ Clean /\ Tended)'
  BY <1>3, LocksNext, CleanNext, TendedNext DEF Uneventful
<1> SUFFICES ASSUME Uneventful
             PROVE  Spec => []NoneStranded
  OBVIOUS
<1> QED
  BY <1>1, <1>2, <1>3, Inductive, PTL DEF Spec

=============================================================================
