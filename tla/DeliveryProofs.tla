--------------------------- MODULE DeliveryProofs ---------------------------
(***************************************************************************)
(* What becomes of a message for a turn that is already running, for every *)
(* number of messages, events and frames: no acknowledged message is lost  *)
(* while no model call fails and no stop meets a wake turn, no word of the *)
(* user is lost while nothing is stopped, taken back or failing, and where *)
(* no question is parked, no wake turn runs and no message comes late, no  *)
(* message is put into the thread twice.                                   *)
(*                                                                         *)
(* The argument for the last: a session has one turn at a time, which is   *)
(* an invoke frame, a turn at work or the event of its end.  The frames    *)
(* and the events come in order, so a message that waits in the window's   *)
(* queue when that event is heard was not absorbed, and a steer frame that *)
(* a turn finds is of a message it does not hold.                          *)
(***************************************************************************)
EXTENDS Integers, TurnSteer, TLAPS

SqMsgs == SqUser \cup SqEvents
SqPlaces == {"off", "ready", "run", "call", "tools", "ended", "parked"}
SqUpFrames == [kind : {"invoke", "steer", "recall", "stop", "answer"}, who : SUBSET SqUser]
SqDownFrames ==
    [kind : {"start", "ask", "absorbed", "answered", "refused", "recalled", "stopped", "end",
             "error"}, who : SUBSET SqMsgs]

\* the frames a session can hold: some kinds come only where they may
SqUpGood(may) ==
    {f \in SqUpFrames :
        /\ f.kind \in {"invoke", "steer"} => \E m \in SqUser : f.who = {m}
        /\ f.kind = "stop" => "stop" \in may
        /\ f.kind = "recall" => may \cap {"stop", "recall"} # {}
        /\ f.kind = "answer" => "ask" \in may}
SqDownGood(may) ==
    {e \in SqDownFrames :
        /\ e.kind = "stopped" => "stop" \in may
        /\ e.kind \in {"ask", "answered"} => "ask" \in may}

SqTyped ==
    /\ sqDraft \subseteq SqMsgs /\ sqQueue \in Seq(SqUser) /\ sqTaken \subseteq SqUser
    /\ sqUp \in Seq(SqUpGood(sqMay)) /\ sqDown \in Seq(SqDownGood(sqMay))
    /\ sqStash \subseteq SqMsgs /\ sqInflight \subseteq SqMsgs /\ sqPending \subseteq SqEvents
    /\ sqWatch \in SqEvents \cup {SqNone}
    /\ sqAt \in [SqTurns -> SqPlaces] /\ sqGot \in [SqTurns -> SUBSET SqMsgs]
    /\ sqCarry \in SqUser \cup {SqNone}

\* A turn has drained messages in its hands only during the model call, and the
\* message it was started with only before it begins.
SqSteady ==
    /\ \A k \in SqTurns : sqAt[k] # "call" => sqGot[k] = {}
    /\ sqAt["ws"] # "ready" => sqCarry = SqNone
    /\ sqAnswered \subseteq sqThread

\* What does not happen in a session where it may not happen.
SqQuiet ==
    /\ "stop" \notin sqMay => sqStop = {}
    /\ "event" \notin sqMay =>
        sqAt["wake"] = "off" /\ sqPending = {} /\ ~sqFlush /\ sqWatch = SqNone
    /\ "ask" \notin sqMay => sqAt["ws"] # "parked" /\ sqView # "parked" /\ sqAnswered = {}

SqBase == SqTyped /\ SqSteady /\ SqQuiet
-----------------------------------------------------------------------------
(* Frames and events under way.                                            *)

\* Two sequences joined, by their entries.
LEMMA Joined ==
    ASSUME NEW S, NEW s \in Seq(S), NEW t \in Seq(S)
    PROVE  /\ s \o t \in Seq(S) /\ Len(s \o t) = Len(s) + Len(t)
           /\ Len(s) \in Nat /\ Len(t) \in Nat
           /\ \A i \in 1..Len(s) : (s \o t)[i] = s[i]
           /\ \A i \in 1..Len(t) : (s \o t)[i + Len(s)] = t[i]
           /\ SqRange(s \o t) = SqRange(s) \cup SqRange(t)
<1>1. s \o t \in Seq(S) /\ Len(s \o t) = Len(s) + Len(t) OBVIOUS
<1>2. Len(s) \in Nat /\ Len(t) \in Nat OBVIOUS
<1>3. \A i \in 1..Len(s) : (s \o t)[i] = s[i] BY <1>2
<1>4. ASSUME NEW i \in 1..Len(t) PROVE (s \o t)[i + Len(s)] = t[i]
  <2> PICK j \in Int : j = i + Len(s) BY <1>2
  <2>1. j \in (Len(s) + 1)..(Len(s) + Len(t)) /\ i = j - Len(s) BY <1>2
  <2>2. (s \o t)[j] = t[j - Len(s)] BY <2>1, <1>2
  <2> QED BY <2>1, <2>2
<1> DEFINE u == s \o t
<1>5. Len(u) = Len(s) + Len(t) BY <1>1
<1>6. /\ \A i \in 1..Len(s) : u[i] = s[i]
      /\ \A i \in 1..Len(t) : u[i + Len(s)] = t[i]
  BY <1>3, <1>4
<1> HIDE DEF u
<1>7. ASSUME NEW i \in 1..Len(u) PROVE u[i] \in SqRange(s) \cup SqRange(t)
  <2>1. CASE i \in 1..Len(s) BY <2>1, <1>6 DEF SqRange
  <2>2. CASE i \notin 1..Len(s)
    <3> PICK p \in Nat : p = Len(s) BY <1>2
    <3> PICK q \in Nat : q = Len(u) BY <1>2, <1>5
    <3> PICK h \in 1..q : h = i OBVIOUS
    <3>a. h - p \in Int OBVIOUS
    <3> PICK j \in Int : j = h - p BY <3>a
    <3>1. j \in 1..Len(t) /\ i = j + Len(s) BY <2>2, <1>2, <1>5
    <3> QED BY <3>1, <1>6 DEF SqRange
  <2> QED BY <2>1, <2>2
<1>8. ASSUME NEW i \in 1..Len(s) PROVE s[i] \in SqRange(u)
  BY <1>2, <1>5, <1>6 DEF SqRange
<1>9. ASSUME NEW i \in 1..Len(t) PROVE t[i] \in SqRange(u)
  <2>1. i + Len(s) \in 1..Len(u) BY <1>2, <1>5
  <2> QED BY <2>1, <1>6 DEF SqRange
<1>10. SqRange(u) \subseteq SqRange(s) \cup SqRange(t) BY <1>7 DEF SqRange
<1>11. SqRange(s) \subseteq SqRange(u) /\ SqRange(t) \subseteq SqRange(u)
  BY <1>8, <1>9 DEF SqRange
<1>12. SqRange(u) = SqRange(s) \cup SqRange(t) BY <1>10, <1>11
<1> QED BY <1>1, <1>2, <1>3, <1>4, <1>12 DEF u

\* A sequence with an entry added at its end.
LEMMA Added ==
    ASSUME NEW S, NEW s \in Seq(S), NEW f \in S
    PROVE  /\ s \o <<f>> \in Seq(S) /\ Len(s) \in Nat /\ Len(s \o <<f>>) = Len(s) + 1
           /\ \A i \in 1..Len(s) : (s \o <<f>>)[i] = s[i]
           /\ (s \o <<f>>)[Len(s) + 1] = f
           /\ SqRange(s \o <<f>>) = SqRange(s) \cup {f}
<1>0. <<f>> \in Seq(S) OBVIOUS
<1> PICK t \in Seq(S) : t = <<f>> BY <1>0
<1>1. Len(t) = 1 /\ t[1] = f OBVIOUS
<1>2. SqRange(t) = {f} BY <1>1 DEF SqRange
<1>3. /\ s \o t \in Seq(S) /\ Len(s \o t) = Len(s) + Len(t) /\ Len(s) \in Nat
      /\ \A i \in 1..Len(s) : (s \o t)[i] = s[i]
      /\ \A i \in 1..Len(t) : (s \o t)[i + Len(s)] = t[i]
      /\ SqRange(s \o t) = SqRange(s) \cup SqRange(t)
  <2>1. \A a, b \in Seq(S) :
          /\ a \o b \in Seq(S) /\ Len(a \o b) = Len(a) + Len(b) /\ Len(a) \in Nat
          /\ \A i \in 1..Len(a) : (a \o b)[i] = a[i]
          /\ \A i \in 1..Len(b) : (a \o b)[i + Len(a)] = b[i]
          /\ SqRange(a \o b) = SqRange(a) \cup SqRange(b)
    BY Joined
  <2> QED BY <2>1
<1>4. (s \o t)[1 + Len(s)] = f BY <1>1, <1>3
<1>5. 1 + Len(s) = Len(s) + 1 BY <1>3
<1> QED BY <1>1, <1>2, <1>3, <1>4, <1>5

\* A sequence without its head.
LEMMA Taken ==
    ASSUME NEW S, NEW s \in Seq(S), s # <<>>
    PROVE  /\ Tail(s) \in Seq(S) /\ Len(s) \in Nat /\ Len(Tail(s)) = Len(s) - 1
           /\ \A i \in 1..Len(s) - 1 : Tail(s)[i] = s[i + 1]
           /\ 1 \in 1..Len(s) /\ Head(s) = s[1] /\ Head(s) \in S
           /\ SqRange(s) = {Head(s)} \cup SqRange(Tail(s))
<1> DEFINE t == Tail(s)
<1>1. /\ t \in Seq(S) /\ Len(s) \in Nat \ {0} /\ Len(t) = Len(s) - 1
      /\ \A i \in 1..Len(t) : t[i] = s[i + 1]
      /\ Head(s) = s[1] /\ 1 \in 1..Len(s) /\ Head(s) \in S
  OBVIOUS
<1>2. \A i \in 1..Len(s) : i = 1 \/ (i - 1 \in 1..Len(t) /\ s[i] = t[i - 1]) BY <1>1
<1>3. \A i \in 1..Len(t) : i + 1 \in 1..Len(s) BY <1>1
<1> HIDE DEF t
<1>4. SqRange(s) = {Head(s)} \cup SqRange(t) BY <1>1, <1>2, <1>3 DEF SqRange
<1> QED BY <1>1, <1>4 DEF t

\* an event is told, a frame is sent, a frame is taken, an event is heard
LEMMA ToldOne ==
    ASSUME SqTyped, NEW f \in SqDownGood(sqMay), SqTell(<<f>>)
    PROVE  /\ sqDown' \in Seq(SqDownGood(sqMay)) /\ SqRange(sqDown') = SqRange(sqDown) \cup {f}
           /\ Len(sqDown) \in Nat /\ Len(sqDown') = Len(sqDown) + 1
           /\ \A i \in 1..Len(sqDown) : sqDown'[i] = sqDown[i]
           /\ sqDown'[Len(sqDown) + 1] = f
BY Added DEF SqTyped, SqTell

\* The wire to the server with a frame sent.
LEMMA SentOne ==
    ASSUME SqTyped, NEW f \in SqUpGood(sqMay), SqSend(<<f>>)
    PROVE  /\ sqUp' \in Seq(SqUpGood(sqMay)) /\ SqRange(sqUp') = SqRange(sqUp) \cup {f}
           /\ Len(sqUp) \in Nat /\ Len(sqUp') = Len(sqUp) + 1
           /\ \A i \in 1..Len(sqUp) : sqUp'[i] = sqUp[i]
           /\ sqUp'[Len(sqUp) + 1] = f
BY Added DEF SqTyped, SqSend

\* The wire to the server with a frame taken.
LEMMA TookOne ==
    ASSUME SqTyped, NEW kind, SqTakes(kind)
    PROVE  /\ sqUp' \in Seq(SqUpGood(sqMay))
           /\ SqRange(sqUp) = {Head(sqUp)} \cup SqRange(sqUp')
           /\ Head(sqUp) \in SqUpGood(sqMay) /\ Head(sqUp).kind = kind
           /\ Head(sqUp) = sqUp[1] /\ 1 \in 1..Len(sqUp)
           /\ Len(sqUp) \in Nat /\ Len(sqUp') = Len(sqUp) - 1
           /\ \A i \in 1..Len(sqUp) - 1 : sqUp'[i] = sqUp[i + 1]
BY Taken DEF SqTyped, SqTakes

\* The wire to the window with an event taken.
LEMMA HeardOne ==
    ASSUME SqTyped, sqDown # <<>>, sqDown' = Tail(sqDown)
    PROVE  /\ sqDown' \in Seq(SqDownGood(sqMay))
           /\ SqRange(sqDown) = {Head(sqDown)} \cup SqRange(sqDown')
           /\ Head(sqDown) \in SqDownGood(sqMay)
           /\ Head(sqDown) = sqDown[1] /\ 1 \in 1..Len(sqDown)
           /\ Len(sqDown) \in Nat /\ Len(sqDown') = Len(sqDown) - 1
           /\ \A i \in 1..Len(sqDown) - 1 : sqDown'[i] = sqDown[i + 1]
BY Taken DEF SqTyped

\* The frames that are sent are frames the options allow.
LEMMA GoodFrames ==
    /\ \A may : \A m \in SqUser :
        SqFrame("invoke", {m}) \in SqUpGood(may) /\ SqFrame("steer", {m}) \in SqUpGood(may)
    /\ \A may : \A who \in SUBSET SqUser :
        may \cap {"stop", "recall"} # {} => SqFrame("recall", who) \in SqUpGood(may)
    /\ \A may : "stop" \in may => SqFrame("stop", {}) \in SqUpGood(may)
    /\ \A may : "ask" \in may => SqFrame("answer", {}) \in SqUpGood(may)
BY DEF SqFrame, SqUpGood, SqUpFrames

\* So are the events.
LEMMA GoodEvents ==
    /\ \A may : \A who \in SUBSET SqMsgs :
        /\ SqFrame("start", who) \in SqDownGood(may)
        /\ SqFrame("absorbed", who) \in SqDownGood(may)
        /\ SqFrame("refused", who) \in SqDownGood(may)
        /\ SqFrame("recalled", who) \in SqDownGood(may)
        /\ SqFrame("end", who) \in SqDownGood(may)
        /\ SqFrame("error", who) \in SqDownGood(may)
        /\ "stop" \in may => SqFrame("stopped", who) \in SqDownGood(may)
        /\ "ask" \in may =>
            SqFrame("ask", who) \in SqDownGood(may) /\ SqFrame("answered", who) \in SqDownGood(may)
BY DEF SqFrame, SqDownGood, SqDownFrames

\* an acknowledged message leaves the queue, the others stay
LEMMA Forgotten ==
    ASSUME sqQueue \in Seq(SqUser), NEW ms, SqForget(ms)
    PROVE  /\ sqQueue' \in Seq(SqUser)
           /\ SqRange(sqQueue') = SqRange(sqQueue) \ ms
           /\ (\A i, j \in 1..Len(sqQueue) : sqQueue[i] = sqQueue[j] => i = j) =>
                \A i, j \in 1..Len(sqQueue') : sqQueue'[i] = sqQueue'[j] => i = j
<1> PICK l \in Nat : l = Len(sqQueue) OBVIOUS
<1>0. PICK n \in 0..l : \E f \in [1..n -> 1..l] :
        /\ \A i, j \in 1..n : i < j => f[i] < f[j]
        /\ {f[i] : i \in 1..n} = {i \in 1..l : sqQueue[i] \notin ms}
        /\ sqQueue' = [i \in 1..n |-> sqQueue[f[i]]]
  BY DEF SqForget
<1>1. PICK f \in [1..n -> 1..l] :
        /\ \A i, j \in 1..n : i < j => f[i] < f[j]
        /\ {f[i] : i \in 1..n} = {i \in 1..l : sqQueue[i] \notin ms}
        /\ sqQueue' = [i \in 1..n |-> sqQueue[f[i]]]
  BY <1>0
<1>2. \A i \in 1..l : sqQueue[i] \in SqUser OBVIOUS
<1>3. \A i \in 1..n : f[i] \in 1..l OBVIOUS
<1>4. sqQueue' \in Seq(SqUser) /\ Len(sqQueue') = n
  <2> PICK q : q = sqQueue' OBVIOUS
  <2>1. q = [i \in 1..n |-> sqQueue[f[i]]] BY <1>1
  <2>2. \A i \in 1..n : sqQueue[f[i]] \in SqUser BY <1>2, <1>3
  <2>3. n \in Nat OBVIOUS
  <2>4. q \in [1..n -> SqUser] BY <2>1, <2>2
  <2>5. q \in Seq(SqUser) /\ Len(q) = n BY <2>1, <2>2, <2>3
  <2> QED BY <2>5
<1>5. \A i \in 1..n : sqQueue'[i] = sqQueue[f[i]] BY <1>1
<1>6. \A i \in 1..n : f[i] \in {h \in 1..l : sqQueue[h] \notin ms} BY <1>1
<1>7. \A h \in 1..l : sqQueue[h] \notin ms => \E i \in 1..n : f[i] = h
  <2> SUFFICES ASSUME NEW h \in 1..l, sqQueue[h] \notin ms PROVE \E i \in 1..n : f[i] = h
    OBVIOUS
  <2>1. h \in {g \in 1..l : sqQueue[g] \notin ms} OBVIOUS
  <2> QED BY <2>1, <1>1
<1>8. \A i, j \in 1..n : f[i] = f[j] => i = j BY <1>1, <1>3
<1>9. SqRange(sqQueue') = SqRange(sqQueue) \ ms
  <2>1. SqRange(sqQueue') \subseteq SqRange(sqQueue) \ ms BY <1>4, <1>5, <1>6 DEF SqRange
  <2>2. SqRange(sqQueue) \ ms \subseteq SqRange(sqQueue') BY <1>4, <1>5, <1>7 DEF SqRange
  <2> QED BY <2>1, <2>2
<1>10. (\A i, j \in 1..l : sqQueue[i] = sqQueue[j] => i = j) =>
        \A i, j \in 1..n : sqQueue'[i] = sqQueue'[j] => i = j
  BY <1>3, <1>5, <1>8
<1> QED BY <1>4, <1>9, <1>10
-----------------------------------------------------------------------------
(* Every session.                                                          *)

\* What every step keeps holds at the beginning ...
LEMMA SqBaseInit == SqInit => SqBase
BY SqSets DEF SqInit, SqBase, SqTyped, SqSteady, SqQuiet, SqMsgs, SqPlaces, SqTurns

\* the queue goes back to the composer, and is asked for
LEMMA TookBack ==
    ASSUME SqTyped, SqTakeBack, sqMay \cap {"stop", "recall"} # {}
    PROVE  /\ sqQueue' = <<>> /\ sqQueue' \in Seq(SqUser)
           /\ sqTaken' = sqTaken \cup SqRange(sqQueue) /\ SqRange(sqQueue) \subseteq SqUser
           /\ sqUp' \in Seq(SqUpGood(sqMay))
<1>1. SqRange(sqQueue) \subseteq SqUser BY DEF SqTyped, SqRange
<1>2. SqFrame("recall", SqRange(sqQueue)) \in SqUpGood(sqMay) BY <1>1, GoodFrames
<1>3. sqUp' \in Seq(SqUpGood(sqMay))
  <2>1. CASE sqQueue = <<>> BY <2>1 DEF SqTakeBack, SqTyped
  <2>2. CASE sqQueue # <<>> BY <2>2, <1>2, SentOne DEF SqTakeBack
  <2> QED BY <2>1, <2>2
<1> QED BY <1>1, <1>3 DEF SqTakeBack

\* the queue is sent once more, then the answer
LEMMA SentAgain ==
    ASSUME SqTyped, "ask" \in sqMay,
           SqSend([i \in 1..Len(sqQueue) |-> SqFrame("steer", {sqQueue[i]})]
                  \o <<SqFrame("answer", {})>>)
    PROVE  sqUp' \in Seq(SqUpGood(sqMay)) /\ SqRange(sqUp) \subseteq SqRange(sqUp')
<1>0. \A S : \A s, t \in Seq(S) : SqRange(s) \subseteq SqRange(s \o t)
  <2>1. \A S : \A s, t \in Seq(S) : SqRange(s \o t) = SqRange(s) \cup SqRange(t) BY Joined
  <2> QED BY <2>1
<1> PICK n \in Nat : n = Len(sqQueue) BY DEF SqTyped
<1> PICK G : G = SqUpGood(sqMay) OBVIOUS
<1> PICK a : a = SqFrame("answer", {}) OBVIOUS
<1> PICK q : q = [i \in 1..n |-> SqFrame("steer", {sqQueue[i]})] OBVIOUS
<1>1. \A i \in 1..n : SqFrame("steer", {sqQueue[i]}) \in G
  <2>1. \A i \in 1..n : sqQueue[i] \in SqUser BY DEF SqTyped
  <2> QED BY <2>1, GoodFrames
<1>2. q \in Seq(G) BY <1>1
<1>3. a \in G BY GoodFrames
<1>4. q \o <<a>> \in Seq(G) BY <1>2, <1>3
<1>5. sqUp' = sqUp \o (q \o <<a>>) BY DEF SqSend
<1>6. sqUp \in Seq(G) BY DEF SqTyped
<1>7. sqUp \o (q \o <<a>>) \in Seq(G) BY <1>4, <1>6
<1>8. SqRange(sqUp) \subseteq SqRange(sqUp')
  <2> PICK t : t = q \o <<a>> OBVIOUS
  <2>1. t \in Seq(G) /\ sqUp' = sqUp \o t BY <1>4, <1>5
  <2>2. \A s \in Seq(G) : SqRange(s) \subseteq SqRange(s \o t)
    <3>1. \A u \in Seq(G) : \A s \in Seq(G) : SqRange(s) \subseteq SqRange(s \o u) BY <1>0
    <3> QED BY <2>1, <3>1, Zenon
  <2> QED BY <2>1, <2>2, <1>6
<1> QED BY <1>5, <1>7, <1>8

\* ... and is kept.
LEMMA SqBaseKept == SqBase /\ [SqNext]_sqVars => SqBase'
<1> SUFFICES ASSUME SqBase, [SqNext]_sqVars PROVE SqBase'
  OBVIOUS
<1>t. SqTyped BY DEF SqBase
<1> USE SqSets DEF SqTurns, SqMsgs, SqPlaces
<1>1. ASSUME NEW m \in SqUser, SqType(m) PROVE SqBase'
  <2>1. /\ sqUp' \in Seq(SqUpGood(sqMay)) /\ sqQueue' \in Seq(SqUser)
        /\ sqView' = sqView \/ sqView' = "busy"
    <3>1. CASE sqView = "idle" BY <1>t, <1>1, <3>1, GoodFrames, SentOne DEF SqType, SqTyped
    <3>2. CASE sqView # "idle"
      <4>1. /\ SqSend(<<SqFrame("steer", {m})>>) /\ sqQueue' = Append(sqQueue, m)
            /\ UNCHANGED sqView
        BY <1>1, <3>2 DEF SqType
      <4>2. sqUp' \in Seq(SqUpGood(sqMay)) BY <1>t, <4>1, GoodFrames, SentOne
      <4>3. sqQueue \in Seq(SqUser) BY <1>t DEF SqTyped
      <4>4. sqQueue' \in Seq(SqUser) BY <4>1, <4>3
      <4> QED BY <4>1, <4>2, <4>4
    <3> QED BY <3>1, <3>2
  <2> QED BY <1>1, <2>1 DEF SqType, SqBase, SqTyped, SqSteady, SqQuiet, sqTurn, sqInject, sqHistory
<1>2. CASE SqRecallKey
  <2>1. /\ sqUp' \in Seq(SqUpGood(sqMay)) /\ sqQueue' \in Seq(SqUser)
        /\ sqTaken' \subseteq SqUser
    BY <1>t, <1>2, TookBack DEF SqRecallKey, SqTyped
  <2> QED BY <1>2, <2>1
       DEF SqRecallKey, SqBase, SqTyped, SqSteady, SqQuiet, sqTurn, sqInject, sqHistory
<1>3. CASE SqStopKey
  <2>1. sqUp' \in Seq(SqUpGood(sqMay)) BY <1>t, <1>3, GoodFrames, SentOne DEF SqStopKey
  <2> QED BY <1>3, <2>1
       DEF SqStopKey, SqBase, SqTyped, SqSteady, SqQuiet, sqTurn, sqInject, sqHistory, sqWindow
<1>4. CASE SqAnswerKey
  <2>1. "ask" \in sqMay BY <1>4 DEF SqAnswerKey, SqBase, SqQuiet
  <2>2. sqUp' \in Seq(SqUpGood(sqMay)) BY <1>t, <1>4, <2>1, SentAgain DEF SqAnswerKey
  <2> QED BY <1>4, <2>1, <2>2
       DEF SqAnswerKey, SqBase, SqTyped, SqSteady, SqQuiet, sqTurn, sqInject, sqHistory
<1>5. CASE SqHear
  <2> PICK e : e = Head(sqDown) OBVIOUS
  <2>1. sqDown' \in Seq(SqDownGood(sqMay)) /\ e \in SqDownGood(sqMay)
    BY <1>t, <1>5, HeardOne DEF SqHear
  <2>2. /\ e.who \subseteq SqMsgs
        /\ e.kind = "stopped" => "stop" \in sqMay
        /\ e.kind \in {"ask", "answered"} => "ask" \in sqMay
    BY <2>1 DEF SqDownGood, SqDownFrames
  <2>3. /\ sqDraft' \subseteq SqMsgs /\ sqTaken' \subseteq SqUser
        /\ sqQueue' \in Seq(SqUser) /\ sqUp' \in Seq(SqUpGood(sqMay))
        /\ "ask" \notin sqMay => sqView' # "parked"
    <3>1. CASE e.kind \in {"start", "ask"} BY <1>t, <1>5, <2>2, <3>1 DEF SqHear, SqTyped, SqBase, SqQuiet
    <3>2. CASE e.kind \in {"absorbed", "answered"}
      BY <1>t, <1>5, <2>2, <3>2, Forgotten DEF SqHear, SqTyped, SqBase, SqQuiet
    <3>3. CASE e.kind \in {"refused", "recalled"}
      BY <1>t, <1>5, <2>2, <3>3 DEF SqHear, SqTyped, SqBase, SqQuiet
    <3>4. CASE e.kind = "stopped"
      <4>1. SqTakeBack /\ sqView' = "idle" /\ UNCHANGED sqDraft BY <1>5, <3>4 DEF SqHear
      <4> QED BY <1>t, <2>2, <3>4, <4>1, TookBack DEF SqTyped
    <3>5. CASE e.kind \in {"end", "error"}
      <4>1. /\ UNCHANGED <<sqDraft, sqTaken>>
            /\ IF sqQueue = <<>>
               THEN sqView' = "idle" /\ UNCHANGED <<sqQueue, sqUp>>
               ELSE /\ SqSend(<<SqFrame("invoke", {Head(sqQueue)})>>)
                    /\ sqQueue' = Tail(sqQueue) /\ sqView' = "busy"
        BY <1>5, <3>5 DEF SqHear
      <4>2. CASE sqQueue = <<>> BY <1>t, <4>1, <4>2 DEF SqTyped
      <4>3. CASE sqQueue # <<>>
        <5>1. sqQueue \in Seq(SqUser) BY <1>t DEF SqTyped
        <5>2. Head(sqQueue) \in SqUser /\ sqQueue' \in Seq(SqUser) BY <4>1, <4>3, <5>1
        <5> QED BY <1>t, <4>1, <4>3, <5>2, GoodFrames, SentOne DEF SqTyped
      <4> QED BY <4>2, <4>3
    <3> QED BY <1>5, <3>1, <3>2, <3>3, <3>4, <3>5 DEF SqHear
  <2> QED BY <1>5, <2>1, <2>3
       DEF SqHear, SqBase, SqTyped, SqSteady, SqQuiet, sqTurn, sqInject, sqHistory
<1>6. CASE SqInvoke
  <2>1. /\ sqUp' \in Seq(SqUpGood(sqMay)) /\ Head(sqUp) \in SqUpGood(sqMay)
        /\ Head(sqUp).kind = "invoke"
    BY <1>t, <1>6, TookOne DEF SqInvoke
  <2>2. PICK m \in SqUser : Head(sqUp).who = {m} BY <2>1 DEF SqUpGood
  <2>3. CASE SqTask
    <3>1. sqDown' \in Seq(SqDownGood(sqMay)) /\ UNCHANGED sqTurn
      BY <1>t, <1>6, <2>2, <2>3, GoodEvents, ToldOne DEF SqInvoke
    <3> QED BY <1>6, <2>1, <3>1
         DEF SqInvoke, SqBase, SqTyped, SqSteady, SqQuiet, sqTurn, sqInject, sqHistory, sqWindow
  <2>4. CASE ~SqTask
    <3>1. /\ sqAt' = [sqAt EXCEPT !["ws"] = "ready"] /\ sqCarry' \in SqUser
          /\ UNCHANGED <<sqDown, sqGot, sqStop>>
      BY <1>6, <2>2, <2>4 DEF SqInvoke, SqGoes
    <3> QED BY <1>6, <2>1, <2>4, <3>1
         DEF SqInvoke, SqTask, SqBase, SqTyped, SqSteady, SqQuiet, sqInject, sqHistory, sqWindow
  <2> QED BY <2>3, <2>4
<1>7. CASE SqSteer
  <2>1. /\ sqUp' \in Seq(SqUpGood(sqMay)) /\ Head(sqUp) \in SqUpGood(sqMay)
        /\ Head(sqUp).kind = "steer"
    BY <1>t, <1>7, TookOne DEF SqSteer
  <2>2. PICK m \in SqUser : Head(sqUp).who = {m} BY <2>1 DEF SqUpGood
  <2>u. /\ UNCHANGED <<sqMay, sqWindow, sqInflight, sqInject, sqAcked>>
        /\ UNCHANGED <<sqGot, sqCarry, sqStop>>
        /\ sqAt' = sqAt \/ (sqAt["ws"] = "parked" /\ SqGoes("ws", "tools"))
        /\ sqStash' = sqStash \/ sqStash' = sqStash \cup {m}
        /\ \/ UNCHANGED <<sqAnswered, sqThread>>
           \/ /\ sqAt["ws"] = "parked" /\ sqAnswered' = sqAnswered \cup {m}
              /\ sqThread' = sqThread \cup {m}
    BY <1>7, <2>2 DEF SqSteer, SqWrite, sqTurn
  <2>3. sqDown' \in Seq(SqDownGood(sqMay))
    <3>1. CASE {m} \subseteq sqAnswered
      <4>1. SqTell(<<SqFrame("answered", {m})>>) BY <1>7, <2>2, <3>1 DEF SqSteer
      <4>2. "ask" \in sqMay BY <3>1 DEF SqBase, SqQuiet
      <4> QED BY <1>t, <4>1, <4>2, GoodEvents, ToldOne
    <3>2. CASE ~({m} \subseteq sqAnswered) /\ ~SqLive
      <4>1. SqTell(<<SqFrame("error", {})>>) BY <1>7, <2>2, <3>2 DEF SqSteer
      <4> QED BY <1>t, <4>1, GoodEvents, ToldOne
    <3>3. CASE ~({m} \subseteq sqAnswered) /\ SqLive /\ sqAt["ws"] = "parked"
      <4>1. SqTell(<<SqFrame("answered", {m})>>) BY <1>7, <2>2, <3>3 DEF SqSteer
      <4>2. "ask" \in sqMay BY <3>3 DEF SqBase, SqQuiet
      <4> QED BY <1>t, <4>1, <4>2, GoodEvents, ToldOne
    <3>4. CASE ~({m} \subseteq sqAnswered) /\ SqLive /\ sqAt["ws"] # "parked"
      BY <1>t, <1>7, <2>2, <3>4 DEF SqSteer, SqTyped
    <3> QED BY <3>1, <3>2, <3>3, <3>4
  <2> QED BY <2>1, <2>u, <2>3
       DEF SqGoes, SqBase, SqTyped, SqSteady, SqQuiet, sqInject, sqWindow
<1>8. CASE SqAnswer
  <2>1. sqUp' \in Seq(SqUpGood(sqMay)) BY <1>t, <1>8, TookOne DEF SqAnswer
  <2> QED BY <1>8, <2>1
       DEF SqAnswer, SqGoes, SqBase, SqTyped, SqSteady, SqQuiet, sqInject, sqHistory, sqWindow
<1>9. CASE SqRecall
  <2>1. sqUp' \in Seq(SqUpGood(sqMay)) BY <1>t, <1>9, TookOne DEF SqRecall
  <2> PICK gone : gone = sqStash \cap Head(sqUp).who OBVIOUS
  <2>2. gone \subseteq SqMsgs /\ sqStash' = sqStash \ gone
    BY <1>t, <1>9 DEF SqTyped, SqRecall
  <2>3. sqDown' \in Seq(SqDownGood(sqMay))
    <3>1. CASE gone = {} BY <1>t, <1>9, <3>1 DEF SqTyped, SqRecall
    <3>2. CASE gone # {}
      <4>1. SqTell(<<SqFrame("recalled", gone)>>) BY <1>9, <3>2 DEF SqRecall
      <4> QED BY <1>t, <2>2, <4>1, GoodEvents, ToldOne
    <3> QED BY <3>1, <3>2
  <2> QED BY <1>9, <2>1, <2>2, <2>3
       DEF SqRecall, SqBase, SqTyped, SqSteady, SqQuiet, sqTurn, sqInject, sqHistory, sqWindow
<1>10. CASE SqStopFrame
  <2>1. /\ sqUp' \in Seq(SqUpGood(sqMay)) /\ Head(sqUp) \in SqUpGood(sqMay)
        /\ Head(sqUp).kind = "stop"
    BY <1>t, <1>10, TookOne DEF SqStopFrame
  <2>2. "stop" \in sqMay BY <2>1 DEF SqUpGood
  <2>3. sqDown' \in Seq(SqDownGood(sqMay))
    <3>1. CASE SqTell(<<SqFrame("stopped", {})>>) BY <1>t, <2>2, <3>1, GoodEvents, ToldOne
    <3>2. CASE UNCHANGED sqDown BY <1>t, <3>2 DEF SqTyped
    <3> QED BY <1>10, <3>1, <3>2 DEF SqStopFrame
  <2> QED BY <1>10, <2>1, <2>2, <2>3
       DEF SqStopFrame, SqKeep, SqWrite, SqGoes, SqBase, SqTyped, SqSteady, SqQuiet, sqInject,
           sqWindow
<1>11. CASE SqBegin
  <2>1. sqDown' \in Seq(SqDownGood(sqMay)) BY <1>t, <1>11, GoodEvents, ToldOne DEF SqBegin
  <2> QED BY <1>11, <2>1
       DEF SqBegin, SqWrite, SqGoes, SqBase, SqTyped, SqSteady, SqQuiet, sqInject, sqWindow
<1>12. CASE SqAsk
  <2>1. sqDown' \in Seq(SqDownGood(sqMay)) BY <1>t, <1>12, GoodEvents, ToldOne DEF SqAsk
  <2> QED BY <1>12, <2>1
       DEF SqAsk, SqGoes, SqBase, SqTyped, SqSteady, SqQuiet, sqInject, sqWindow, sqHistory
<1>13. ASSUME NEW k \in SqTurns, SqDrain(k) PROVE SqBase'
  <2>1. sqDown' \in Seq(SqDownGood(sqMay))
    <3>1. CASE sqStash = {} BY <1>t, <1>13, <3>1 DEF SqTyped, SqDrain
    <3>2. CASE sqStash # {}
      <4>1. SqTell(<<SqFrame("absorbed", sqStash)>>) BY <1>13, <3>2 DEF SqDrain
      <4>2. sqStash \subseteq SqMsgs BY <1>t DEF SqTyped
      <4> QED BY <1>t, <4>1, <4>2, GoodEvents, ToldOne
    <3> QED BY <3>1, <3>2
  <2> QED BY <1>13, <2>1
       DEF SqDrain, SqGoes, SqBase, SqTyped, SqSteady, SqQuiet, sqInject, sqWindow
<1>14. ASSUME NEW k \in SqTurns, SqCommit(k) PROVE SqBase'
  <2>1. sqDown' \in Seq(SqDownGood(sqMay))
    <3>1. CASE SqTell(<<SqFrame("end", {})>>) BY <1>t, <3>1, GoodEvents, ToldOne
    <3>2. CASE UNCHANGED sqDown BY <1>t, <3>2 DEF SqTyped
    <3> QED BY <1>14, <3>1, <3>2 DEF SqCommit
  <2> QED BY <1>14, <2>1
       DEF SqCommit, SqWrite, SqGoes, SqBase, SqTyped, SqSteady, SqQuiet, sqInject, sqWindow
<1>15. ASSUME NEW k \in SqTurns, SqFail(k) PROVE SqBase'
  <2>1. sqDown' \in Seq(SqDownGood(sqMay))
    <3>1. CASE SqTell(<<SqFrame("error", {})>>) BY <1>t, <3>1, GoodEvents, ToldOne
    <3>2. CASE UNCHANGED sqDown BY <1>t, <3>2 DEF SqTyped
    <3> QED BY <1>15, <3>1, <3>2 DEF SqFail
  <2> QED BY <1>15, <2>1
       DEF SqFail, SqGoes, SqBase, SqTyped, SqSteady, SqQuiet, sqInject, sqWindow, sqHistory
<1>16. ASSUME NEW k \in SqTurns, SqStopped(k) PROVE SqBase'
  <2>0. "stop" \in sqMay BY <1>16 DEF SqStopped, SqBase, SqQuiet
  <2>1. sqDown' \in Seq(SqDownGood(sqMay)) BY <1>t, <1>16, <2>0, GoodEvents, ToldOne DEF SqStopped
  <2> QED BY <1>16, <2>0, <2>1
       DEF SqStopped, SqWrite, SqGoes, SqBase, SqTyped, SqSteady, SqQuiet, sqInject, sqWindow
<1>17. ASSUME NEW k \in SqTurns, SqFinish(k) PROVE SqBase'
  BY <1>17 DEF SqFinish, SqKeep, SqGoes, SqBase, SqTyped, SqSteady, SqQuiet, sqInject, sqWindow,
       sqHistory
<1>18. ASSUME NEW e \in SqEvents, SqEvent(e) PROVE SqBase'
  BY <1>18 DEF SqEvent, SqSteerIn, SqBase, SqTyped, SqSteady, SqQuiet, sqTurn, sqWindow, sqHistory
<1>19. CASE SqWatchTick
  BY <1>19 DEF SqWatchTick, SqBase, SqTyped, SqSteady, SqQuiet, sqTurn, sqWindow, sqHistory
<1>20. CASE SqFlushAll
  <2>0. "event" \in sqMay BY <1>20 DEF SqFlushAll, SqBase, SqQuiet
  <2>1. sqDown' \in Seq(SqDownGood(sqMay))
    <3>1. CASE SqTell(<<SqFrame("start", {})>>) BY <1>t, <3>1, GoodEvents, ToldOne
    <3>2. CASE UNCHANGED sqDown BY <1>t, <3>2 DEF SqTyped
    <3> QED BY <1>20, <3>1, <3>2 DEF SqFlushAll
  <2>2. sqStash' \subseteq SqMsgs /\ sqWatch' \in SqEvents \cup {SqNone}
    BY <1>20, <1>t DEF SqFlushAll, SqSteerIn, SqTyped
  <2>3. /\ UNCHANGED <<sqGot, sqCarry, sqStop, sqAnswered>> /\ sqThread \subseteq sqThread'
        /\ sqAt' = sqAt \/ (sqAt["wake"] = "off" /\ SqGoes("wake", "run"))
    BY <1>20 DEF SqFlushAll, SqWrite, sqTurn
  <2> QED BY <1>20, <2>0, <2>1, <2>2, <2>3
       DEF SqFlushAll, SqGoes, SqBase, SqTyped, SqSteady, SqQuiet, sqWindow
<1>21. CASE UNCHANGED sqVars
  BY <1>21 DEF sqVars, SqBase, SqTyped, SqSteady, SqQuiet, sqTurn, sqWindow, sqHistory, sqInject
<1> QED BY <1>1, <1>2, <1>3, <1>4, <1>5, <1>6, <1>7, <1>8, <1>9, <1>10, <1>11, <1>12, <1>13,
         <1>14, <1>15, <1>16, <1>17, <1>18, <1>19, <1>20, <1>21
     DEF SqNext, SqUserStep, SqFrames, SqTurnStep
-----------------------------------------------------------------------------
(* No acknowledged message is lost.                                        *)

\* in the thread, or in the hands of a turn
SqRead == sqThread \cup sqGot["ws"] \cup sqGot["wake"]

SqAcks ==
    sqMay \cap {"transient", "error"} = {} /\ ~({"stop", "event"} \subseteq sqMay) =>
        /\ sqAcked \subseteq SqRead
        /\ "event" \notin sqMay => sqGot["ws"] \subseteq sqInflight \cup sqThread

\* Every step keeps what is acknowledged in the thread or in a turn's hands.
LEMMA SqAcksKept == SqBase /\ SqAcks /\ [SqNext]_sqVars => SqAcks'
<1> SUFFICES ASSUME SqBase, SqAcks, [SqNext]_sqVars,
                    sqMay' \cap {"transient", "error"} = {}, ~({"stop", "event"} \subseteq sqMay')
             PROVE  /\ sqAcked' \subseteq SqRead'
                    /\ "event" \notin sqMay' => sqGot["ws"]' \subseteq sqInflight' \cup sqThread'
  BY DEF SqAcks
<1>m. sqMay' = sqMay
  BY DEF SqNext, SqUserStep, SqFrames, SqTurnStep, SqType, SqRecallKey, SqStopKey, SqAnswerKey,
         SqHear, SqInvoke, SqSteer, SqAnswer, SqRecall, SqStopFrame, SqBegin, SqAsk, SqDrain,
         SqCommit, SqFail, SqStopped, SqFinish, SqEvent, SqWatchTick, SqFlushAll, sqVars
<1>g. sqGot \in [SqTurns -> SUBSET SqMsgs] /\ sqAt \in [SqTurns -> SqPlaces]
  BY DEF SqBase, SqTyped
<1>s. /\ \A k \in SqTurns : sqAt[k] # "call" => sqGot[k] = {}
      /\ "event" \notin sqMay => sqAt["wake"] = "off"
      /\ "stop" \notin sqMay => sqStop = {}
  BY DEF SqBase, SqSteady, SqQuiet
<1>h. /\ sqAcked \subseteq SqRead
      /\ "event" \notin sqMay => sqGot["ws"] \subseteq sqInflight \cup sqThread
  BY <1>m DEF SqAcks
<1> USE DEF SqTurns
\* the thread grows, and nothing else that counts changes
<1>0. ASSUME UNCHANGED <<sqGot, sqInflight, sqAcked>>, sqThread \subseteq sqThread'
      PROVE  /\ sqAcked' \subseteq SqRead'
             /\ "event" \notin sqMay' => sqGot["ws"]' \subseteq sqInflight' \cup sqThread'
  BY <1>0, <1>h, <1>m DEF SqRead
<1>1. CASE SqUserStep \/ SqHear \/ SqInvoke \/ SqSteer \/ SqAnswer \/ SqRecall \/ SqBegin
           \/ SqWatchTick \/ SqFlushAll \/ UNCHANGED sqVars
  <2>1. UNCHANGED <<sqGot, sqInflight, sqAcked>> /\ sqThread \subseteq sqThread'
    BY <1>1 DEF SqUserStep, SqType, SqRecallKey, SqStopKey, SqAnswerKey, SqHear, SqInvoke, SqSteer,
                SqAnswer, SqRecall, SqBegin, SqWatchTick, SqFlushAll, SqWrite, sqTurn, sqHistory,
                sqVars
  <2> QED BY <2>1, <1>0
<1>2. ASSUME NEW e \in SqEvents, SqEvent(e) PROVE UNCHANGED <<sqGot, sqInflight, sqAcked, sqThread>>
  BY <1>2 DEF SqEvent, sqTurn, sqHistory
<1>3. CASE SqStopFrame
  <2>1. CASE sqAt["ws"] = "parked"
    BY <1>3, <2>1, <1>h, <1>m, <1>s DEF SqStopFrame, SqWrite, SqRead
  <2>2. CASE sqAt["ws"] # "parked"
    BY <1>3, <2>2, <1>0 DEF SqStopFrame, sqTurn
  <2> QED BY <2>1, <2>2
<1>4. CASE SqAsk
  BY <1>4, <1>h, <1>m, <1>s DEF SqAsk, sqHistory, SqRead
<1>5. ASSUME NEW k \in SqTurns, SqDrain(k)
      PROVE  /\ sqAcked' \subseteq SqRead'
             /\ "event" \notin sqMay' => sqGot["ws"]' \subseteq sqInflight' \cup sqThread'
  <2>1. sqGot[k] = {} BY <1>5, <1>s DEF SqDrain
  <2>2. sqAcked' \subseteq sqAcked \cup sqStash /\ sqThread' = sqThread BY <1>5 DEF SqDrain
  <2>3. sqInflight' = sqInflight \cup sqStash BY <1>5 DEF SqDrain
  <2>4. sqGot'[k] = sqStash /\ \A j \in SqTurns \ {k} : sqGot'[j] = sqGot[j]
    BY <1>5, <1>g DEF SqDrain
  <2>5. SqRead' = SqRead \cup sqStash BY <2>1, <2>2, <2>4 DEF SqRead
  <2>6. sqAcked' \subseteq SqRead' BY <2>2, <2>5, <1>h
  <2>7. sqGot["ws"]' \subseteq sqGot["ws"] \cup sqStash BY <2>4
  <2> QED BY <2>2, <2>3, <2>6, <2>7, <1>h, <1>m
<1>6. ASSUME NEW k \in SqTurns, SqCommit(k)
      PROVE  /\ sqAcked' \subseteq SqRead'
             /\ "event" \notin sqMay' => sqGot["ws"]' \subseteq sqInflight' \cup sqThread'
  <2>1. sqThread' = sqThread \cup sqGot[k] /\ UNCHANGED <<sqAcked>> BY <1>6 DEF SqCommit, SqWrite
  <2>2. sqGot'[k] = {} /\ \A j \in SqTurns \ {k} : sqGot'[j] = sqGot[j]
    BY <1>6, <1>g DEF SqCommit
  <2>3. SqRead' = SqRead BY <2>1, <2>2 DEF SqRead
  <2>4. "event" \notin sqMay => k = "ws" BY <1>6, <1>s DEF SqCommit
  <2> QED BY <2>1, <2>2, <2>3, <2>4, <1>h, <1>m
<1>7. ASSUME NEW k \in SqTurns, SqFail(k) PROVE FALSE
  BY <1>7, <1>m DEF SqFail
<1>8. ASSUME NEW k \in SqTurns, SqStopped(k)
      PROVE  /\ sqAcked' \subseteq SqRead'
             /\ "event" \notin sqMay' => sqGot["ws"]' \subseteq sqInflight' \cup sqThread'
  <2>1. "event" \notin sqMay /\ k = "ws" BY <1>8, <1>s, <1>m DEF SqStopped
  <2>2. sqThread' = sqThread \cup sqInflight /\ UNCHANGED sqAcked BY <1>8 DEF SqStopped, SqWrite
  <2>3. sqGot'["ws"] = {} /\ sqGot'["wake"] = sqGot["wake"] BY <1>8, <2>1, <1>g DEF SqStopped
  <2> QED BY <2>1, <2>2, <2>3, <1>h DEF SqRead
<1>9. ASSUME NEW k \in SqTurns, SqFinish(k)
      PROVE  /\ sqAcked' \subseteq SqRead'
             /\ "event" \notin sqMay' => sqGot["ws"]' \subseteq sqInflight' \cup sqThread'
  <2>1. UNCHANGED <<sqGot, sqAcked, sqThread>> BY <1>9 DEF SqFinish, sqHistory
  <2>2. sqAt[k] = "ended" BY <1>9 DEF SqFinish
  <2>3. "event" \notin sqMay => sqGot["ws"] = {} BY <2>2, <1>s
  <2> QED BY <2>1, <2>3, <1>h, <1>m DEF SqRead
<1> QED BY <1>0, <1>1, <1>2, <1>3, <1>4, <1>5, <1>6, <1>7, <1>8, <1>9
        DEF SqNext, SqFrames, SqTurnStep

\* A message the window was told is absorbed stays in the thread or on its way
\* there, through parked questions, stops and a second turn (steer_mark_inflight
\* and the heal), as long as no model call fails and no stop meets a wake turn.
THEOREM AckSurvives == SqSpec => []SqAckSurvives
<1> DEFINE Inv == SqBase /\ SqAcks
<1>1. SqInit => Inv
  <2>1. SqInit => SqAcks BY DEF SqInit, SqAcks, SqRead, SqTurns
  <2> QED BY <2>1, SqBaseInit
<1>2. Inv /\ [SqNext]_sqVars => Inv' BY SqBaseKept, SqAcksKept
<1>3. Inv => SqAckSurvives
  BY DEF SqAcks, SqRead, SqAckSurvives, SqAckKept, SqServed, SqTurns
<1> QED BY <1>1, <1>2, <1>3, PTL DEF SqSpec
-----------------------------------------------------------------------------
(* Whom the frames and the events of a kind are about.                     *)

SqOf(kind, fs) == UNION {f.who : f \in {g \in fs : g.kind = kind}}
SqSent(kind) == SqOf(kind, SqRange(sqUp))
SqTold(kind) == SqOf(kind, SqRange(sqDown))

\* Whom the frames of a kind name, with one frame more.
LEMMA OfMore ==
    \A kind, fs, f : SqOf(kind, fs \cup {f}) =
        SqOf(kind, fs) \cup (IF f.kind = kind THEN f.who ELSE {})
<1> SUFFICES ASSUME NEW kind, NEW fs, NEW f
             PROVE  SqOf(kind, fs \cup {f}) =
                        SqOf(kind, fs) \cup (IF f.kind = kind THEN f.who ELSE {})
  OBVIOUS
<1>1. CASE f.kind = kind
  <2>1. {g \in fs \cup {f} : g.kind = kind} = {g \in fs : g.kind = kind} \cup {f} BY <1>1
  <2> QED BY <1>1, <2>1 DEF SqOf
<1>2. CASE f.kind # kind
  <2>1. {g \in fs \cup {f} : g.kind = kind} = {g \in fs : g.kind = kind} BY <1>2
  <2> QED BY <1>2, <2>1 DEF SqOf
<1> QED BY <1>1, <1>2

\* Whom the frames to the server name when one is sent,
LEMMA SentOf ==
    ASSUME SqTyped, NEW f \in SqUpGood(sqMay), SqSend(<<f>>)
    PROVE  \A c : SqSent(c)' = SqSent(c) \cup (IF f.kind = c THEN f.who ELSE {})
<1>1. SqRange(sqUp') = SqRange(sqUp) \cup {f} BY SentOne
<1> QED BY <1>1, OfMore DEF SqSent

\* whom the events name when one is told,
LEMMA ToldOf ==
    ASSUME SqTyped, NEW f \in SqDownGood(sqMay), SqTell(<<f>>)
    PROVE  \A c : SqTold(c)' = SqTold(c) \cup (IF f.kind = c THEN f.who ELSE {})
<1>1. SqRange(sqDown') = SqRange(sqDown) \cup {f} BY ToldOne
<1> QED BY <1>1, OfMore DEF SqTold

\* whom the frames name when the server takes one,
LEMMA TookOf ==
    ASSUME SqTyped, NEW kind, SqTakes(kind)
    PROVE  \A c : SqSent(c) = SqSent(c)' \cup (IF kind = c THEN Head(sqUp).who ELSE {})
<1>1. SqRange(sqUp) = SqRange(sqUp') \cup {Head(sqUp)} /\ Head(sqUp).kind = kind BY TookOne
<1> QED BY <1>1, OfMore DEF SqSent

\* and whom the events name when the window takes one.
LEMMA HeardOf ==
    ASSUME SqTyped, sqDown # <<>>, sqDown' = Tail(sqDown)
    PROVE  \A c : SqTold(c) =
                    SqTold(c)' \cup (IF Head(sqDown).kind = c THEN Head(sqDown).who ELSE {})
<1> PICK h : h = Head(sqDown) OBVIOUS
<1> PICK rest : rest = SqRange(sqDown') OBVIOUS
<1>1. SqRange(sqDown) = rest \cup {h} BY HeardOne
<1>2. \A c : SqOf(c, rest \cup {h}) = SqOf(c, rest) \cup (IF h.kind = c THEN h.who ELSE {})
  BY OfMore
<1>3. \A c : SqTold(c)' = SqOf(c, rest) BY DEF SqTold
<1>4. \A c : SqTold(c) = SqOf(c, rest \cup {h}) BY <1>1 DEF SqTold
<1> QED BY <1>2, <1>3, <1>4
-----------------------------------------------------------------------------
(* No word of the user is lost.                                            *)

SqWords ==
    sqMay \cap {"stop", "recall", "transient", "error"} = {} =>
        /\ SqTold("absorbed") \cup SqTold("answered") \subseteq SqRead
        /\ SqUser \subseteq sqDraft \cup SqRange(sqQueue) \cup SqRead \cup {sqCarry}
                            \cup SqSent("invoke") \cup SqTold("refused")

\* what a turn has read stays read where no model call fails and nothing stops
LEMMA ReadStays ==
    ASSUME SqBase, [SqNext]_sqVars, sqMay \cap {"stop", "transient", "error"} = {}
    PROVE  SqRead \subseteq SqRead'
<1>g. sqGot \in [SqTurns -> SUBSET SqMsgs] /\ sqStop = {}
      /\ \A k \in SqTurns : sqAt[k] # "call" => sqGot[k] = {}
  BY DEF SqBase, SqTyped, SqSteady, SqQuiet
<1> USE DEF SqTurns
<1>1. ASSUME NEW k \in SqTurns, SqDrain(k) PROVE SqRead \subseteq SqRead'
  <2>1. sqGot[k] = {} /\ sqThread' = sqThread BY <1>1, <1>g DEF SqDrain
  <2>2. \A j \in SqTurns \ {k} : sqGot'[j] = sqGot[j] BY <1>1, <1>g DEF SqDrain
  <2> QED BY <2>1, <2>2 DEF SqRead
<1>2. ASSUME NEW k \in SqTurns, SqCommit(k) PROVE SqRead \subseteq SqRead'
  <2>1. sqThread' = sqThread \cup sqGot[k] BY <1>2 DEF SqCommit, SqWrite
  <2>2. \A j \in SqTurns \ {k} : sqGot'[j] = sqGot[j] BY <1>2, <1>g DEF SqCommit
  <2> QED BY <2>1, <2>2 DEF SqRead
<1>3. ASSUME NEW k \in SqTurns, SqFail(k) \/ SqStopped(k) PROVE FALSE
  BY <1>3, <1>g DEF SqFail, SqStopped
<1>4. ASSUME UNCHANGED sqGot, sqThread \subseteq sqThread' PROVE SqRead \subseteq SqRead'
  BY <1>4 DEF SqRead
<1>5. CASE SqUserStep \/ SqHear \/ SqFrames \/ SqBegin \/ SqAsk \/ SqWatchTick \/ SqFlushAll
           \/ UNCHANGED sqVars
  <2>1. UNCHANGED sqGot /\ sqThread \subseteq sqThread'
    BY <1>5 DEF SqUserStep, SqType, SqRecallKey, SqStopKey, SqAnswerKey, SqHear, SqFrames, SqInvoke,
                SqSteer, SqAnswer, SqRecall, SqStopFrame, SqBegin, SqAsk, SqWatchTick, SqFlushAll,
                SqWrite, sqTurn, sqHistory, sqVars
  <2> QED BY <2>1, <1>4
<1>6. ASSUME NEW k \in SqTurns, SqFinish(k) PROVE SqRead \subseteq SqRead'
  BY <1>6, <1>4 DEF SqFinish, sqHistory
<1>7. ASSUME NEW e \in SqEvents, SqEvent(e) PROVE SqRead \subseteq SqRead'
  BY <1>7, <1>4 DEF SqEvent, sqTurn, sqHistory
<1> QED BY <1>1, <1>2, <1>3, <1>5, <1>6, <1>7 DEF SqNext, SqTurnStep

\* Every step keeps each message somewhere.
LEMMA SqWordsStay == SqBase /\ SqWords /\ [SqNext]_sqVars => SqWords'
<1> SUFFICES ASSUME SqBase, SqWords, [SqNext]_sqVars,
                    sqMay' \cap {"stop", "recall", "transient", "error"} = {}
             PROVE  SqWords'
  BY DEF SqWords
<1>m. sqMay' = sqMay
  BY DEF SqNext, SqUserStep, SqFrames, SqTurnStep, SqType, SqRecallKey, SqStopKey, SqAnswerKey,
         SqHear, SqInvoke, SqSteer, SqAnswer, SqRecall, SqStopFrame, SqBegin, SqAsk, SqDrain,
         SqCommit, SqFail, SqStopped, SqFinish, SqEvent, SqWatchTick, SqFlushAll, sqVars
<1>t. SqTyped /\ sqQueue \in Seq(SqUser) BY DEF SqBase, SqTyped
<1>r. SqRead \subseteq SqRead' BY <1>m, ReadStays
<1>h. /\ SqTold("absorbed") \cup SqTold("answered") \subseteq SqRead
      /\ SqUser \subseteq sqDraft \cup SqRange(sqQueue) \cup SqRead \cup {sqCarry}
                          \cup SqSent("invoke") \cup SqTold("refused")
  BY <1>m DEF SqWords
<1>u. /\ UNCHANGED sqUp => \A c : SqSent(c)' = SqSent(c)
      /\ UNCHANGED sqDown => \A c : SqTold(c)' = SqTold(c)
      /\ UNCHANGED sqQueue => SqRange(sqQueue)' = SqRange(sqQueue)
  BY DEF SqSent, SqTold
<1>f. /\ \A who : SqFrame("x", who).who = who
      /\ \A c, who : SqFrame(c, who).kind = c /\ SqFrame(c, who).who = who
  BY DEF SqFrame
<1>1. ASSUME NEW m \in SqUser, SqType(m) PROVE SqWords'
  <2>1. UNCHANGED <<sqDown, sqCarry>> /\ sqDraft' = sqDraft \ {m} BY <1>1 DEF SqType, sqTurn
  <2>2. CASE sqView = "idle"
    <3>1. SqSend(<<SqFrame("invoke", {m})>>) /\ UNCHANGED sqQueue BY <1>1, <2>2 DEF SqType
    <3>2. SqSent("invoke")' = SqSent("invoke") \cup {m} BY <1>t, <1>f, <3>1, GoodFrames, SentOf
    <3> QED BY <2>1, <3>1, <3>2, <1>h, <1>r, <1>u DEF SqWords
  <2>3. CASE sqView # "idle"
    <3>1. SqSend(<<SqFrame("steer", {m})>>) /\ sqQueue' = Append(sqQueue, m)
      BY <1>1, <2>3 DEF SqType
    <3>2. SqSent("invoke")' = SqSent("invoke")
      <4> PICK f \in SqUpGood(sqMay) : f = SqFrame("steer", {m}) BY GoodFrames
      <4>1. f.kind = "steer" BY <1>f
      <4>2. \A c : SqSent(c)' = SqSent(c) \cup (IF f.kind = c THEN f.who ELSE {})
        BY <1>t, <3>1, SentOf
      <4> QED BY <4>1, <4>2
    <3>3. SqRange(sqQueue)' = SqRange(sqQueue) \cup {m}
      <4>1. sqQueue' = sqQueue \o <<m>> BY <3>1, <1>t
      <4>2. \A s \in Seq(SqUser) : SqRange(s \o <<m>>) = SqRange(s) \cup {m} BY Added
      <4> QED BY <4>1, <4>2, <1>t
    <3> QED BY <2>1, <3>2, <3>3, <1>h, <1>r, <1>u DEF SqWords
  <2> QED BY <2>2, <2>3
<1>2. CASE SqRecallKey \/ SqStopKey BY <1>2, <1>m DEF SqRecallKey, SqStopKey
<1>3. CASE SqAnswerKey
  <2>1. SqSent("invoke") \subseteq SqSent("invoke")'
    <3>1. "ask" \in sqMay BY <1>3 DEF SqAnswerKey, SqBase, SqQuiet
    <3>2. SqRange(sqUp) \subseteq SqRange(sqUp') BY <3>1, <1>t, <1>3, SentAgain DEF SqAnswerKey
    <3> QED BY <3>2 DEF SqSent, SqOf
  <2>2. UNCHANGED <<sqDraft, sqQueue, sqDown, sqCarry>> BY <1>3 DEF SqAnswerKey, sqTurn
  <2> QED BY <2>1, <2>2, <1>h, <1>r, <1>u DEF SqWords
<1>4. CASE SqHear
  <2> PICK e : e = Head(sqDown) OBVIOUS
  <2>1. /\ \A c : SqTold(c) = SqTold(c)' \cup (IF e.kind = c THEN e.who ELSE {})
        /\ e \in SqDownGood(sqMay)
    BY <1>t, <1>4, HeardOf, HeardOne DEF SqHear
  <2>2. e.kind # "stopped" BY <2>1, <1>m DEF SqDownGood
  <2>3. UNCHANGED sqCarry BY <1>4 DEF SqHear, sqTurn
  <2>4. SqTold("absorbed")' \cup SqTold("answered")' \subseteq SqRead' BY <2>1, <1>h, <1>r
  <2>5. CASE e.kind \in {"start", "ask"}
    <3>1. UNCHANGED <<sqDraft, sqQueue, sqUp>> BY <1>4, <2>5 DEF SqHear
    <3>2. SqTold("refused")' = SqTold("refused") BY <2>1, <2>5
    <3> QED BY <2>3, <2>4, <3>1, <3>2, <1>h, <1>r, <1>u DEF SqWords
  <2>6. CASE e.kind \in {"absorbed", "answered"}
    <3>1. UNCHANGED <<sqDraft, sqUp>> /\ SqForget(e.who) BY <1>4, <2>6 DEF SqHear
    <3>2. SqTold("refused")' = SqTold("refused") BY <2>1, <2>6
    <3>3. SqRange(sqQueue)' = SqRange(sqQueue) \ e.who BY <1>t, <3>1, Forgotten
    <3>4. e.who \subseteq SqRead
      <4>1. CASE e.kind = "absorbed" BY <4>1, <2>1, <1>h
      <4>2. CASE e.kind = "answered" BY <4>2, <2>1, <1>h
      <4> QED BY <2>6, <4>1, <4>2
    <3> QED BY <2>3, <2>4, <3>1, <3>2, <3>3, <3>4, <1>h, <1>r, <1>u DEF SqWords
  <2>7. CASE e.kind \in {"refused", "recalled"}
    <3>1. UNCHANGED <<sqQueue, sqUp>> /\ sqDraft \subseteq sqDraft' BY <1>4, <2>7 DEF SqHear
    <3>2. SqTold("refused") \subseteq SqTold("refused")' \cup sqDraft'
      <4>1. CASE e.kind = "refused" BY <4>1, <2>1, <1>4 DEF SqHear
      <4>2. CASE e.kind = "recalled" BY <4>2, <2>1
      <4> QED BY <2>7, <4>1, <4>2
    <3> QED BY <2>3, <2>4, <3>1, <3>2, <1>h, <1>r, <1>u DEF SqWords
  <2>8. CASE e.kind \in {"end", "error"}
    <3>1. /\ UNCHANGED sqDraft
          /\ IF sqQueue = <<>> THEN UNCHANGED <<sqQueue, sqUp>>
             ELSE SqSend(<<SqFrame("invoke", {Head(sqQueue)})>>) /\ sqQueue' = Tail(sqQueue)
      BY <1>4, <2>8 DEF SqHear
    <3>2. SqTold("refused")' = SqTold("refused") BY <2>1, <2>8
    <3>3. CASE sqQueue = <<>> BY <2>3, <2>4, <3>1, <3>2, <3>3, <1>h, <1>r, <1>u DEF SqWords
    <3>4. CASE sqQueue # <<>>
      <4> PICK m : m = Head(sqQueue) OBVIOUS
      <4>1. m \in SqUser /\ SqRange(sqQueue) = {m} \cup SqRange(sqQueue)'
        BY <1>t, <3>1, <3>4, Taken
      <4>2. SqSent("invoke")' = SqSent("invoke") \cup {m}
        BY <1>t, <1>f, <3>1, <3>4, <4>1, GoodFrames, SentOf
      <4> QED BY <2>3, <2>4, <3>1, <3>2, <4>1, <4>2, <1>h, <1>r, <1>u DEF SqWords
    <3> QED BY <3>3, <3>4
  <2> QED BY <1>4, <2>2, <2>5, <2>6, <2>7, <2>8 DEF SqHear
<1>5. CASE SqInvoke
  <2> PICK f : f = Head(sqUp) OBVIOUS
  <2>1. /\ \A c : SqSent(c) = SqSent(c)' \cup (IF "invoke" = c THEN f.who ELSE {})
        /\ f \in SqUpGood(sqMay) /\ f.kind = "invoke"
    BY <1>t, <1>5, TookOf, TookOne DEF SqInvoke
  <2>2. PICK m \in SqUser : f.who = {m} BY <2>1 DEF SqUpGood
  <2>3. SqSent("invoke") = SqSent("invoke")' \cup {m} BY <2>1, <2>2
  <2>4. UNCHANGED <<sqDraft, sqQueue>> BY <1>5 DEF SqInvoke, sqWindow
  <2>5. CASE SqTask
    <3> PICK e \in SqDownGood(sqMay) : e = SqFrame("refused", {m}) BY GoodEvents DEF SqMsgs
    <3>1. SqTell(<<e>>) /\ UNCHANGED sqCarry BY <1>5, <2>2, <2>5 DEF SqInvoke, sqTurn
    <3>2. \A c : SqTold(c)' = SqTold(c) \cup (IF e.kind = c THEN e.who ELSE {})
      BY <1>t, <3>1, ToldOf
    <3>3. e.kind = "refused" /\ e.who = {m} BY <1>f
    <3>4. /\ SqTold("refused")' = SqTold("refused") \cup {m}
          /\ SqTold("absorbed")' = SqTold("absorbed") /\ SqTold("answered")' = SqTold("answered")
      BY <3>2, <3>3
    <3> QED BY <2>3, <2>4, <3>1, <3>4, <1>h, <1>r, <1>u DEF SqWords
  <2>6. CASE ~SqTask
    <3>1. sqCarry' = m /\ UNCHANGED sqDown BY <1>5, <2>2, <2>6 DEF SqInvoke
    <3>2. sqCarry = SqNone BY <2>6 DEF SqBase, SqSteady, SqTask
    <3>3. SqNone \notin SqUser BY SqSets
    <3> QED BY <2>3, <2>4, <3>1, <3>2, <3>3, <1>h, <1>r, <1>u DEF SqWords
  <2> QED BY <2>5, <2>6
\* what neither the window nor the words of an invoke frame are touched by
<1>6. ASSUME UNCHANGED <<sqDraft, sqQueue>>, sqCarry' = sqCarry \/ sqCarry \in SqRead',
             SqSent("invoke")' = SqSent("invoke"),
             \/ UNCHANGED sqDown
             \/ \E e \in SqDownGood(sqMay) :
                  /\ SqTell(<<e>>)
                  /\ e.kind \in {"absorbed", "answered"} => e.who \subseteq SqRead'
      PROVE  SqWords'
  <2>1. CASE UNCHANGED sqDown BY <1>6, <2>1, <1>h, <1>r, <1>u DEF SqWords
  <2>2. CASE \E e \in SqDownGood(sqMay) :
                /\ SqTell(<<e>>)
                /\ e.kind \in {"absorbed", "answered"} => e.who \subseteq SqRead'
    <3> PICK e \in SqDownGood(sqMay) :
              /\ SqTell(<<e>>)
              /\ e.kind \in {"absorbed", "answered"} => e.who \subseteq SqRead'
      BY <2>2
    <3>1. \A c : SqTold(c)' = SqTold(c) \cup (IF e.kind = c THEN e.who ELSE {}) BY <1>t, ToldOf
    <3>2. SqTold("refused") \subseteq SqTold("refused")' BY <3>1
    <3>3. SqTold("absorbed")' \cup SqTold("answered")' \subseteq SqRead' BY <3>1, <1>h, <1>r
    <3> QED BY <1>6, <3>2, <3>3, <1>h, <1>r, <1>u DEF SqWords
  <2> QED BY <1>6, <2>1, <2>2
<1>7. CASE SqSteer
  <2> PICK f : f = Head(sqUp) OBVIOUS
  <2>1. /\ \A c : SqSent(c) = SqSent(c)' \cup (IF "steer" = c THEN f.who ELSE {})
        /\ f \in SqUpGood(sqMay) /\ f.kind = "steer"
    BY <1>t, <1>7, TookOf, TookOne DEF SqSteer
  <2>2. PICK m \in SqUser : f.who = {m} BY <2>1 DEF SqUpGood
  <2>3. SqSent("invoke")' = SqSent("invoke") BY <2>1
  <2>4. UNCHANGED <<sqDraft, sqQueue, sqCarry>> BY <1>7 DEF SqSteer, sqWindow, sqTurn
  <2>5. CASE {m} \subseteq sqAnswered
    <3>1. "ask" \in sqMay /\ {m} \subseteq SqRead'
      BY <2>5, <1>r DEF SqBase, SqQuiet, SqSteady, SqRead
    <3>2. SqFrame("answered", {m}) \in SqDownGood(sqMay) BY <3>1, GoodEvents DEF SqMsgs
    <3>3. SqTell(<<SqFrame("answered", {m})>>) BY <1>7, <2>2, <2>5 DEF SqSteer
    <3>4. SqFrame("answered", {m}).who \subseteq SqRead' BY <1>f, <3>1
    <3> QED BY <1>6, <2>3, <2>4, <3>2, <3>3, <3>4
  <2>6. CASE ~({m} \subseteq sqAnswered) /\ ~SqLive
    <3>1. SqFrame("error", {}) \in SqDownGood(sqMay) BY GoodEvents
    <3>2. SqTell(<<SqFrame("error", {})>>) BY <1>7, <2>2, <2>6 DEF SqSteer
    <3>3. SqFrame("error", {}).kind = "error" BY <1>f
    <3> QED BY <1>6, <2>3, <2>4, <3>1, <3>2, <3>3
  <2>7. CASE ~({m} \subseteq sqAnswered) /\ SqLive /\ sqAt["ws"] = "parked"
    <3>1. "ask" \in sqMay BY <2>7 DEF SqBase, SqQuiet
    <3>2. SqTell(<<SqFrame("answered", {m})>>) /\ SqWrite({m}) BY <1>7, <2>2, <2>7 DEF SqSteer
    <3>3. {m} \subseteq SqRead' BY <3>2 DEF SqRead, SqWrite
    <3>4. SqFrame("answered", {m}) \in SqDownGood(sqMay) BY <3>1, GoodEvents DEF SqMsgs
    <3> QED BY <1>6, <1>f, <2>3, <2>4, <3>2, <3>3, <3>4
  <2>8. CASE ~({m} \subseteq sqAnswered) /\ SqLive /\ sqAt["ws"] # "parked"
    <3>1. UNCHANGED sqDown BY <1>7, <2>2, <2>8 DEF SqSteer
    <3> QED BY <1>6, <2>3, <2>4, <3>1
  <2> QED BY <2>5, <2>6, <2>7, <2>8
<1>8. CASE SqAnswer
  <2>1. \A c : SqSent(c) = SqSent(c)' \cup (IF "answer" = c THEN Head(sqUp).who ELSE {})
    BY <1>t, <1>8, TookOf DEF SqAnswer
  <2>2. SqSent("invoke")' = SqSent("invoke") BY <2>1
  <2>3. UNCHANGED <<sqDraft, sqQueue, sqCarry, sqDown>> BY <1>8 DEF SqAnswer, sqWindow
  <2> QED BY <1>6, <2>2, <2>3
<1>9. CASE SqRecall \/ SqStopFrame
  <2>1. PICK kind \in {"recall", "stop"} : SqTakes(kind) BY <1>9 DEF SqRecall, SqStopFrame
  <2>2. Head(sqUp) \in SqUpGood(sqMay) /\ Head(sqUp).kind = kind BY <1>t, <2>1, TookOne
  <2> QED BY <2>1, <2>2, <1>m DEF SqUpGood
<1>10. CASE SqBegin
  <2>1. /\ UNCHANGED <<sqDraft, sqQueue, sqUp>> /\ sqCarry \in SqRead'
        /\ SqTell(<<SqFrame("start", {})>>)
    BY <1>10 DEF SqBegin, SqWrite, SqRead, sqWindow
  <2>2. SqFrame("start", {}) \in SqDownGood(sqMay) /\ SqFrame("start", {}).kind = "start"
    BY GoodEvents, <1>f
  <2> QED BY <1>6, <1>u, <2>1, <2>2
<1>11. CASE SqAsk
  <2>1. UNCHANGED <<sqDraft, sqQueue, sqUp, sqCarry>> /\ SqTell(<<SqFrame("ask", {})>>)
    BY <1>11 DEF SqAsk, sqWindow
  <2>2. SqFrame("ask", {}) \in SqDownGood(sqMay) /\ SqFrame("ask", {}).kind = "ask"
    BY GoodEvents, <1>11, <1>f DEF SqAsk
  <2> QED BY <1>6, <1>u, <2>1, <2>2
<1>12. ASSUME NEW k \in SqTurns, SqDrain(k) PROVE SqWords'
  <2>1. UNCHANGED <<sqDraft, sqQueue, sqUp, sqCarry>> BY <1>12 DEF SqDrain, sqWindow
  <2>2. CASE sqStash = {} BY <1>6, <1>u, <1>12, <2>1, <2>2 DEF SqDrain
  <2>3. CASE sqStash # {}
    <3>1. SqTell(<<SqFrame("absorbed", sqStash)>>) BY <1>12, <2>3 DEF SqDrain
    <3>2. SqFrame("absorbed", sqStash) \in SqDownGood(sqMay) BY GoodEvents, <1>t DEF SqTyped
    <3>3. sqGot'[k] = sqStash BY <1>12, <1>t DEF SqDrain, SqTyped
    <3>4. sqStash \subseteq SqRead' BY <3>3 DEF SqRead, SqTurns
    <3> QED BY <1>6, <1>f, <1>u, <2>1, <3>1, <3>2, <3>4
  <2> QED BY <2>2, <2>3
<1>13. ASSUME NEW k \in SqTurns, SqCommit(k) PROVE SqWords'
  <2>1. UNCHANGED <<sqDraft, sqQueue, sqUp, sqCarry>> BY <1>13 DEF SqCommit, sqWindow
  <2>2. UNCHANGED sqDown \/ SqTell(<<SqFrame("end", {})>>) BY <1>13 DEF SqCommit
  <2>3. SqFrame("end", {}) \in SqDownGood(sqMay) /\ SqFrame("end", {}).kind = "end"
    BY GoodEvents, <1>f
  <2> QED BY <1>6, <1>u, <2>1, <2>2, <2>3
<1>14. ASSUME NEW k \in SqTurns, SqFail(k) \/ SqStopped(k) PROVE SqWords'
  BY <1>14, <1>m DEF SqFail, SqStopped, SqBase, SqQuiet
<1>15. ASSUME NEW k \in SqTurns, SqFinish(k) PROVE SqWords'
  <2>1. UNCHANGED <<sqDraft, sqQueue, sqUp, sqCarry, sqDown>> BY <1>15 DEF SqFinish, sqWindow
  <2> QED BY <1>6, <1>u, <2>1
<1>16. ASSUME NEW e \in SqEvents, SqEvent(e) PROVE SqWords'
  <2>1. UNCHANGED <<sqDraft, sqQueue, sqUp, sqCarry, sqDown>> BY <1>16 DEF SqEvent, sqWindow, sqTurn
  <2> QED BY <1>6, <1>u, <2>1
<1>17. CASE SqWatchTick \/ UNCHANGED sqVars
  <2>1. UNCHANGED <<sqDraft, sqQueue, sqUp, sqCarry, sqDown>>
    BY <1>17 DEF SqWatchTick, sqWindow, sqTurn, sqVars
  <2> QED BY <1>6, <1>u, <2>1
<1>18. CASE SqFlushAll
  <2>1. /\ UNCHANGED <<sqDraft, sqQueue, sqUp, sqCarry>>
        /\ UNCHANGED sqDown \/ SqTell(<<SqFrame("start", {})>>)
    BY <1>18 DEF SqFlushAll, sqWindow, sqTurn
  <2>2. SqFrame("start", {}) \in SqDownGood(sqMay) /\ SqFrame("start", {}).kind = "start"
    BY GoodEvents, <1>f
  <2> QED BY <1>6, <1>u, <2>1, <2>2
<1> QED
  BY <1>1, <1>2, <1>3, <1>4, <1>5, <1>7, <1>8, <1>9, <1>10, <1>11, <1>12, <1>13, <1>14, <1>15,
     <1>16, <1>17, <1>18 DEF SqNext, SqUserStep, SqFrames, SqTurnStep

\* What the user wrote and did not take back is with the user, in the window, on
\* the wire or with the server (the queue of steer.ts, the stash, the refusals of
\* ws.py), as long as nothing is stopped, taken back or fails.
THEOREM WordsKept == SqSpec => []SqWordsKept
<1> DEFINE Inv == SqBase /\ SqWords
<1>1. SqInit => Inv
  <2>1. SqInit => SqWords
    <3> SUFFICES ASSUME SqInit PROVE SqWords OBVIOUS
    <3>1. SqRange(sqUp) = {} /\ SqRange(sqDown) = {} BY DEF SqInit, SqRange
    <3>2. \A c : SqSent(c) = {} /\ SqTold(c) = {} BY <3>1 DEF SqSent, SqTold, SqOf
    <3>3. sqDraft = SqUser BY DEF SqInit
    <3> QED BY <3>2, <3>3 DEF SqWords
  <2> QED BY <2>1, SqBaseInit
<1>2. Inv /\ [SqNext]_sqVars => Inv' BY SqBaseKept, SqWordsStay
<1>3. Inv => SqWordsKept
  <2> SUFFICES ASSUME Inv PROVE SqWordsKept OBVIOUS
  <2>1. \A c : SqWired({c}, sqUp) = SqSent(c) /\ SqWired({c}, sqDown) = SqTold(c)
    BY DEF SqWired, SqSent, SqTold, SqOf, SqRange
  <2>2. SqRead \subseteq SqServed BY DEF SqRead, SqServed, SqTurns
  <2> QED BY <2>1, <2>2 DEF SqWords, SqWordsKept
<1> QED BY <1>1, <1>2, <1>3, PTL DEF SqSpec
-----------------------------------------------------------------------------
(* No message is put into the thread twice.                                *)

SqEnds == {"end", "error", "stopped"}
SqWorks == sqAt["ws"] \in {"ready", "run", "call", "tools"}
SqInvoking == \E f \in SqRange(sqUp) : f.kind = "invoke"
SqOver == \E e \in SqRange(sqDown) : e.kind \in SqEnds \cup {"refused"}

\* One turn at a time: its frame, itself at work, or the event of its end.
SqToken ==
    /\ ~(SqInvoking /\ SqWorks) /\ ~(SqInvoking /\ SqOver) /\ ~(SqWorks /\ SqOver)
    /\ sqView = "idle" => ~SqInvoking /\ ~SqWorks /\ ~SqOver

\* what a frame, or an event, may be sent behind
SqUpAfter(f, g) ==
    /\ ~(f.kind = "invoke" /\ g.kind = "invoke")
    /\ f.kind \in {"invoke", "recall", "steer"} /\ g.kind = "steer" => f.who \cap g.who = {}
    /\ f.kind = "recall" /\ g.kind = "recall" => f.who \cap g.who = {}
SqDownAfter(e, g) ==
    /\ ~(e.kind \in SqEnds \cup {"refused"} /\ g.kind \in SqEnds \cup {"refused"})
    /\ e.kind = "recalled" /\ g.kind = "recalled" => e.who \cap g.who = {}

SqUpOrder == \A i, j \in 1..Len(sqUp) : i < j => SqUpAfter(sqUp[i], sqUp[j])
SqDownOrder == \A i, j \in 1..Len(sqDown) : i < j => SqDownAfter(sqDown[i], sqDown[j])

\* what a turn absorbed is told before its end
SqToldInTime ==
    \A i \in 1..Len(sqDown) : sqDown[i].kind = "absorbed" =>
        SqWorks \/ \E j \in 1..Len(sqDown) : i < j /\ sqDown[j].kind \in SqEnds

\* Where a message can be: the composer, the queue and what is taken back have
\* none in common, and what is on the wire fits the place it comes from.
SqApart ==
    /\ \A i, j \in 1..Len(sqQueue) : sqQueue[i] = sqQueue[j] => i = j
    /\ sqDraft \cap (SqRange(sqQueue) \cup sqTaken \cup SqSent("invoke") \cup SqSent("steer")
                     \cup SqTold("refused")) = {}
    /\ SqRange(sqQueue) \cap (sqTaken \cup SqSent("invoke") \cup SqTold("refused")) = {}
    /\ sqTaken \cap (SqSent("invoke") \cup SqTold("refused")) = {}
    /\ SqSent("recall") \cup SqTold("recalled") \subseteq sqTaken
    /\ SqTold("recalled") \cap (SqSent("recall") \cup SqSent("steer") \cup sqStash) = {}
    /\ SqTold("refused") \cap SqSent("steer") = {}

\* What is in the thread, or will be, is nowhere else, but for a queue that is
\* about to hear of it.
SqWritten == sqThread \cup sqInflight \cup ({sqCarry} \ {SqNone})
SqFresh ==
    /\ SqWritten \cap (sqDraft \cup sqStash \cup SqSent("invoke") \cup SqSent("steer")
                       \cup SqTold("refused") \cup SqTold("recalled")) = {}
    /\ SqRange(sqQueue) \cap SqWritten \subseteq SqTold("absorbed")
    /\ SqWorks => sqStash \cap (SqSent("steer") \cup sqDraft) = {}

\* The turn: what it has drained is in flight, and not in the thread.
SqHands ==
    /\ sqInflight \cap (sqThread \cup {sqCarry}) = {} /\ sqCarry \notin sqThread
    /\ SqNone \notin sqThread \cup sqInflight /\ (sqAt["ws"] = "ready" => sqCarry # SqNone)
    /\ sqGot["ws"] \subseteq sqInflight /\ sqStash \subseteq SqUser
    /\ sqAt["ws"] \in {"off", "ready"} => sqInflight = {}
    /\ sqAt["ws"] = "off" => sqStash = {} /\ sqRunning = SqNone

SqSingle ==
    sqMay \cap {"ask", "event", "late"} = {} =>
        /\ SqToken /\ SqUpOrder /\ SqDownOrder /\ SqToldInTime
        /\ SqApart /\ SqFresh /\ SqHands /\ SqOnce

\* A frame sent behind those it may be sent behind keeps their order.
LEMMA UpSent ==
    ASSUME SqTyped, SqUpOrder, NEW f \in SqUpGood(sqMay), SqSend(<<f>>),
           \A g \in SqRange(sqUp) : SqUpAfter(g, f)
    PROVE  /\ SqUpOrder'
           /\ SqInvoking' <=> SqInvoking \/ f.kind = "invoke"
<1> PICK n \in Nat : n = Len(sqUp) BY SentOne
<1>1. /\ SqRange(sqUp') = SqRange(sqUp) \cup {f} /\ Len(sqUp') = n + 1
      /\ \A i \in 1..n : sqUp'[i] = sqUp[i]
      /\ sqUp'[n + 1] = f
  BY SentOne
<1>2. ASSUME NEW i \in 1..Len(sqUp'), NEW j \in 1..Len(sqUp'), i < j
      PROVE  SqUpAfter(sqUp'[i], sqUp'[j])
  <2>0. i \in 1..n + 1 /\ j \in 1..n + 1 BY <1>1
  <2>1. i \in 1..n /\ sqUp'[i] = sqUp[i] BY <2>0, <1>1, <1>2
  <2>2. CASE j \in 1..n
    <3>1. SqUpAfter(sqUp[i], sqUp[j]) BY <2>1, <2>2, <1>2 DEF SqUpOrder
    <3> QED BY <2>1, <2>2, <3>1, <1>1
  <2>3. CASE j = n + 1
    <3>1. sqUp[i] \in SqRange(sqUp) BY <2>1 DEF SqRange
    <3>2. sqUp'[j] = f BY <2>3, <1>1
    <3> QED BY <2>1, <3>1, <3>2
  <2> QED BY <2>0, <2>2, <2>3
<1>3. SqUpOrder' BY <1>2 DEF SqUpOrder
<1>4. SqInvoking' <=> SqInvoking \/ f.kind = "invoke"
  <2>1. SqInvoking' <=> \E g \in SqRange(sqUp) \cup {f} : g.kind = "invoke"
    BY <1>1 DEF SqInvoking
  <2> QED BY <2>1 DEF SqInvoking
<1> QED BY <1>3, <1>4

\* The rest of the frames are in order, and the head was before them.
LEMMA UpTook ==
    ASSUME SqTyped, SqUpOrder, NEW kind, SqTakes(kind)
    PROVE  /\ SqUpOrder'
           /\ \A g \in SqRange(sqUp') : SqUpAfter(Head(sqUp), g)
           /\ SqInvoking' => SqInvoking
           /\ kind = "invoke" => SqInvoking /\ ~SqInvoking'
<1> PICK n \in Nat : n = Len(sqUp) BY TookOne
<1> PICK f : f = Head(sqUp) OBVIOUS
<1>1. /\ SqRange(sqUp) = {f} \cup SqRange(sqUp') /\ f.kind = kind
      /\ f = sqUp[1] /\ 1 \in 1..n /\ Len(sqUp') = n - 1
      /\ \A i \in 1..n - 1 : sqUp'[i] = sqUp[i + 1]
  BY TookOne
<1>2. ASSUME NEW i \in 1..Len(sqUp'), NEW j \in 1..Len(sqUp'), i < j
      PROVE  SqUpAfter(sqUp'[i], sqUp'[j])
  <2>1. i \in 1..n - 1 /\ j \in 1..n - 1 BY <1>1
  <2>2. i + 1 \in 1..Len(sqUp) /\ j + 1 \in 1..Len(sqUp) /\ i + 1 < j + 1 BY <2>1, <1>2
  <2>3. SqUpAfter(sqUp[i + 1], sqUp[j + 1]) BY <2>2 DEF SqUpOrder
  <2> QED BY <2>1, <2>3, <1>1
<1>3. SqUpOrder' BY <1>2 DEF SqUpOrder
<1>4. \A g \in SqRange(sqUp') : SqUpAfter(f, g)
  <2> SUFFICES ASSUME NEW i \in 1..n - 1 PROVE SqUpAfter(f, sqUp'[i])
    BY <1>1 DEF SqRange
  <2>1. 1 \in 1..Len(sqUp) /\ i + 1 \in 1..Len(sqUp) /\ 1 < i + 1 BY <1>1
  <2>2. SqUpAfter(sqUp[1], sqUp[i + 1]) BY <2>1 DEF SqUpOrder
  <2> QED BY <2>2, <1>1
<1>5. SqInvoking' => SqInvoking BY <1>1 DEF SqInvoking
<1>6. kind = "invoke" => SqInvoking /\ ~SqInvoking' BY <1>1, <1>4 DEF SqInvoking, SqUpAfter
<1> QED BY <1>3, <1>4, <1>5, <1>6

\* An event told behind those it may be told behind keeps their order.
LEMMA DownTold ==
    ASSUME SqTyped, SqDownOrder, NEW e \in SqDownGood(sqMay), SqTell(<<e>>),
           \A g \in SqRange(sqDown) : SqDownAfter(g, e), SqToldInTime,
           SqWorks' \/ (e.kind # "absorbed" /\ (SqWorks => e.kind \in SqEnds))
    PROVE  /\ SqDownOrder' /\ SqToldInTime'
           /\ SqOver' <=> SqOver \/ e.kind \in SqEnds \cup {"refused"}
<1> PICK n \in Nat : n = Len(sqDown) BY ToldOne
<1>1. /\ SqRange(sqDown') = SqRange(sqDown) \cup {e} /\ Len(sqDown') = n + 1
      /\ \A i \in 1..n : sqDown'[i] = sqDown[i]
      /\ sqDown'[n + 1] = e
  BY ToldOne
<1>2. ASSUME NEW i \in 1..Len(sqDown'), NEW j \in 1..Len(sqDown'), i < j
      PROVE  SqDownAfter(sqDown'[i], sqDown'[j])
  <2>0. i \in 1..n + 1 /\ j \in 1..n + 1 BY <1>1
  <2>1. i \in 1..n /\ sqDown'[i] = sqDown[i] BY <2>0, <1>1, <1>2
  <2>2. CASE j \in 1..n
    <3>1. SqDownAfter(sqDown[i], sqDown[j]) BY <2>1, <2>2, <1>2 DEF SqDownOrder
    <3> QED BY <2>1, <2>2, <3>1, <1>1
  <2>3. CASE j = n + 1
    <3>1. sqDown[i] \in SqRange(sqDown) BY <2>1 DEF SqRange
    <3>2. sqDown'[j] = e BY <2>3, <1>1
    <3> QED BY <2>1, <3>1, <3>2
  <2> QED BY <2>0, <2>2, <2>3
<1>3. SqDownOrder' BY <1>2 DEF SqDownOrder
<1>4. SqOver' <=> SqOver \/ e.kind \in SqEnds \cup {"refused"}
  <2>1. SqOver' <=> \E g \in SqRange(sqDown) \cup {e} : g.kind \in SqEnds \cup {"refused"}
    BY <1>1 DEF SqOver
  <2> QED BY <2>1 DEF SqOver
<1>5. SqToldInTime'
  <2>1. CASE SqWorks' BY <2>1 DEF SqToldInTime
  <2>2. CASE ~SqWorks'
    <3>1. e.kind # "absorbed" /\ (SqWorks => e.kind \in SqEnds) BY <2>2
    <3> SUFFICES ASSUME NEW i \in 1..Len(sqDown'), sqDown'[i].kind = "absorbed"
                 PROVE  \E j \in 1..Len(sqDown') : i < j /\ sqDown'[j].kind \in SqEnds
      BY DEF SqToldInTime
    <3>2. i \in 1..n + 1 BY <1>1
    <3>3. i \in 1..n /\ sqDown[i].kind = "absorbed" BY <3>1, <3>2, <1>1
    <3>4. CASE e.kind \in SqEnds
      <4>1. n + 1 \in 1..Len(sqDown') /\ i < n + 1 BY <3>3, <1>1
      <4> QED BY <4>1, <3>4, <1>1
    <3>5. CASE e.kind \notin SqEnds
      <4>1. PICK j \in 1..n : i < j /\ sqDown[j].kind \in SqEnds
        BY <3>1, <3>3, <3>5 DEF SqToldInTime
      <4>2. j \in 1..Len(sqDown') /\ sqDown'[j] = sqDown[j] BY <1>1
      <4> QED BY <4>1, <4>2
    <3> QED BY <3>4, <3>5
  <2> QED BY <2>1, <2>2
<1> QED BY <1>3, <1>4, <1>5

\* The rest of the events are in order, and the head was before them.
LEMMA DownHeard ==
    ASSUME SqTyped, SqDownOrder, SqToldInTime, sqDown # <<>>, sqDown' = Tail(sqDown),
           UNCHANGED sqAt
    PROVE  /\ SqDownOrder' /\ SqToldInTime'
           /\ \A g \in SqRange(sqDown') : SqDownAfter(Head(sqDown), g)
           /\ SqOver' => SqOver
           /\ Head(sqDown).kind \in SqEnds \cup {"refused"} => SqOver /\ ~SqOver'
           /\ Head(sqDown).kind \in SqEnds => SqWorks \/ SqTold("absorbed")' = {}
<1> PICK n \in Nat : n = Len(sqDown) BY HeardOne
<1> PICK e : e = Head(sqDown) OBVIOUS
<1>1. /\ SqRange(sqDown) = {e} \cup SqRange(sqDown')
      /\ e = sqDown[1] /\ 1 \in 1..n /\ Len(sqDown') = n - 1
      /\ \A i \in 1..n - 1 : sqDown'[i] = sqDown[i + 1]
  BY HeardOne
<1>2. ASSUME NEW i \in 1..Len(sqDown'), NEW j \in 1..Len(sqDown'), i < j
      PROVE  SqDownAfter(sqDown'[i], sqDown'[j])
  <2>1. i \in 1..n - 1 /\ j \in 1..n - 1 BY <1>1
  <2>2. i + 1 \in 1..Len(sqDown) /\ j + 1 \in 1..Len(sqDown) /\ i + 1 < j + 1 BY <2>1, <1>2
  <2>3. SqDownAfter(sqDown[i + 1], sqDown[j + 1]) BY <2>2 DEF SqDownOrder
  <2> QED BY <2>1, <2>3, <1>1
<1>3. SqDownOrder' BY <1>2 DEF SqDownOrder
<1>4. \A g \in SqRange(sqDown') : SqDownAfter(e, g)
  <2> SUFFICES ASSUME NEW i \in 1..n - 1 PROVE SqDownAfter(e, sqDown'[i])
    BY <1>1 DEF SqRange
  <2>1. 1 \in 1..Len(sqDown) /\ i + 1 \in 1..Len(sqDown) /\ 1 < i + 1 BY <1>1
  <2>2. SqDownAfter(sqDown[1], sqDown[i + 1]) BY <2>1 DEF SqDownOrder
  <2> QED BY <2>2, <1>1
<1>5. SqOver' => SqOver BY <1>1 DEF SqOver
<1>6. e.kind \in SqEnds \cup {"refused"} => SqOver /\ ~SqOver'
  BY <1>1, <1>4 DEF SqOver, SqDownAfter
<1>7. ASSUME NEW i \in 1..n - 1, sqDown'[i].kind = "absorbed"
      PROVE  SqWorks \/ \E j \in 1..n - 1 : i < j /\ sqDown'[j].kind \in SqEnds
  <2> PICK h \in 1..n : h = i + 1 OBVIOUS
  <2>1. h \in 1..Len(sqDown) /\ sqDown[h].kind = "absorbed" BY <1>1, <1>7
  <2>2. CASE SqWorks BY <2>2
  <2>3. CASE ~SqWorks
    <3>1. PICK g \in 1..n : h < g /\ sqDown[g].kind \in SqEnds BY <2>1, <2>3 DEF SqToldInTime
    <3>2. g - 1 \in 1..n - 1 /\ i < g - 1 /\ (g - 1) + 1 = g BY <3>1
    <3> PICK j \in 1..n - 1 : j = g - 1 BY <3>2
    <3>3. i < j /\ j + 1 = g BY <3>2
    <3>4. sqDown'[j] = sqDown[g] BY <1>1, <3>3
    <3> QED BY <3>1, <3>3, <3>4
  <2> QED BY <2>2, <2>3
<1>8. SqToldInTime'
  <2>1. SqWorks' <=> SqWorks BY DEF SqWorks
  <2> QED BY <1>1, <1>7, <2>1 DEF SqToldInTime
<1>9. ASSUME e.kind \in SqEnds, ~SqWorks PROVE SqTold("absorbed")' = {}
  <2>1. ASSUME NEW i \in 1..n - 1, sqDown'[i].kind = "absorbed" PROVE FALSE
    <3>1. PICK j \in 1..n - 1 : sqDown'[j].kind \in SqEnds BY <1>7, <1>9, <2>1
    <3>2. sqDown'[j] \in SqRange(sqDown') BY <1>1 DEF SqRange
    <3>3. SqDownAfter(e, sqDown'[j]) BY <3>2, <1>4
    <3> QED BY <3>1, <3>3, <1>9 DEF SqDownAfter
  <2>2. \A g \in SqRange(sqDown') : g.kind # "absorbed" BY <2>1, <1>1 DEF SqRange
  <2> QED BY <2>2 DEF SqTold, SqOf
<1> QED BY <1>3, <1>4, <1>5, <1>6, <1>8, <1>9

\* A frame's messages are among those the frames of its kind name.
LEMMA OneOf ==
    /\ \A g \in SqRange(sqUp) : g.who \subseteq SqSent(g.kind)
    /\ \A g \in SqRange(sqDown) : g.who \subseteq SqTold(g.kind)
BY DEF SqSent, SqTold, SqOf

\* What is said of a wire stays while the wire does.
LEMMA WireRests ==
    ASSUME SqUpOrder, SqDownOrder, SqToldInTime
    PROVE  /\ UNCHANGED sqUp =>
                SqUpOrder' /\ (SqInvoking' <=> SqInvoking) /\ \A c : SqSent(c)' = SqSent(c)
           /\ UNCHANGED sqDown /\ (SqWorks => SqWorks') =>
                /\ SqDownOrder' /\ SqToldInTime' /\ (SqOver' <=> SqOver)
                /\ \A c : SqTold(c)' = SqTold(c)
<1>1. ASSUME UNCHANGED sqUp
      PROVE  SqUpOrder' /\ (SqInvoking' <=> SqInvoking) /\ \A c : SqSent(c)' = SqSent(c)
  BY <1>1 DEF SqUpOrder, SqInvoking, SqSent
<1>2. ASSUME UNCHANGED sqDown, SqWorks => SqWorks'
      PROVE  /\ SqDownOrder' /\ SqToldInTime' /\ (SqOver' <=> SqOver)
             /\ \A c : SqTold(c)' = SqTold(c)
  <2>1. SqDownOrder' /\ (SqOver' <=> SqOver) /\ \A c : SqTold(c)' = SqTold(c)
    BY <1>2 DEF SqDownOrder, SqOver, SqTold
  <2>2. SqToldInTime' BY <1>2 DEF SqToldInTime
  <2> QED BY <2>1, <2>2
<1> QED BY <1>1, <1>2

\* what an action finds in a session of the third kind
SqAlone ==
    /\ SqTyped /\ SqToken /\ SqUpOrder /\ SqDownOrder /\ SqToldInTime
    /\ SqApart /\ SqFresh /\ SqHands /\ SqOnce
    /\ sqAt["ws"] # "parked" /\ sqAt["wake"] = "off" /\ sqView # "parked" /\ sqAnswered = {}
    /\ \A k \in SqTurns : sqAt[k] # "call" => sqGot[k] = {}
    /\ sqAt["ws"] # "ready" => sqCarry = SqNone

SqStill ==
    /\ SqToken /\ SqUpOrder /\ SqDownOrder /\ SqToldInTime /\ SqApart /\ SqFresh /\ SqHands /\ SqOnce

\* A message typed, for the turn or as a turn, keeps the invariant.
LEMMA TypeStill == ASSUME SqAlone, NEW m \in SqUser, SqType(m) PROVE SqStill'
<1>1. /\ m \in sqDraft /\ sqDraft' = sqDraft \ {m}
      /\ UNCHANGED <<sqTaken, sqDown, sqStash, sqInflight, sqAt, sqGot, sqCarry, sqRunning, sqThread,
                     sqTwice>>
  BY DEF SqType, sqTurn, sqHistory
<1>2. SqWorks' <=> SqWorks BY <1>1 DEF SqWorks
<1>3. SqDownOrder' /\ SqToldInTime' /\ (SqOver' <=> SqOver) /\ \A c : SqTold(c)' = SqTold(c)
  BY <1>1, <1>2, WireRests DEF SqAlone
<1>4. SqHands' /\ SqOnce' /\ SqWritten' = SqWritten
  BY <1>1 DEF SqAlone, SqHands, SqOnce, SqWritten
<1>5. CASE sqView = "idle"
  <2> PICK f \in SqUpGood(sqMay) : f = SqFrame("invoke", {m}) BY GoodFrames
  <2>1. f.kind = "invoke" /\ f.who = {m} BY DEF SqFrame
  <2>2. SqSend(<<f>>) /\ UNCHANGED sqQueue /\ sqView' = "busy" BY <1>5 DEF SqType
  <2>3. ~SqInvoking /\ ~SqWorks /\ ~SqOver BY <1>5 DEF SqAlone, SqToken
  <2>4. \A g \in SqRange(sqUp) : SqUpAfter(g, f) BY <2>1, <2>3 DEF SqUpAfter, SqInvoking
  <2>5. SqUpOrder' BY <2>2, <2>4, UpSent DEF SqAlone
  <2>6. \A c : SqSent(c)' = SqSent(c) \cup (IF f.kind = c THEN f.who ELSE {})
    BY <2>2, SentOf DEF SqAlone
  <2>7. /\ SqSent("invoke")' = SqSent("invoke") \cup {m}
        /\ SqSent("steer")' = SqSent("steer") /\ SqSent("recall")' = SqSent("recall")
    BY <2>1, <2>6
  <2>8. SqToken' BY <1>2, <1>3, <2>2, <2>3 DEF SqToken
  <2>9. SqApart' BY <1>1, <1>3, <2>2, <2>7 DEF SqAlone, SqApart
  <2>10. SqFresh' BY <1>1, <1>2, <1>3, <1>4, <2>2, <2>7 DEF SqAlone, SqFresh
  <2> QED BY <1>3, <1>4, <2>5, <2>8, <2>9, <2>10 DEF SqStill
<1>6. CASE sqView # "idle"
  <2> PICK f \in SqUpGood(sqMay) : f = SqFrame("steer", {m}) BY GoodFrames
  <2>1. f.kind = "steer" /\ f.who = {m} BY DEF SqFrame
  <2>2. SqSend(<<f>>) /\ sqQueue' = Append(sqQueue, m) /\ sqView' = sqView BY <1>6 DEF SqType
  <2>3. m \notin SqSent("invoke") \cup SqSent("recall") \cup SqSent("steer")
    BY <1>1 DEF SqAlone, SqApart
  <2>4. \A g \in SqRange(sqUp) : SqUpAfter(g, f) BY <2>1, <2>3, OneOf DEF SqUpAfter
  <2>5. SqUpOrder' /\ (SqInvoking' <=> SqInvoking) BY <2>1, <2>2, <2>4, UpSent DEF SqAlone
  <2>6. \A c : SqSent(c)' = SqSent(c) \cup (IF f.kind = c THEN f.who ELSE {})
    BY <2>2, SentOf DEF SqAlone
  <2>7. /\ SqSent("steer")' = SqSent("steer") \cup {m}
        /\ SqSent("invoke")' = SqSent("invoke") /\ SqSent("recall")' = SqSent("recall")
    BY <2>1, <2>6
  <2>8. SqToken' BY <1>2, <1>3, <2>2, <2>5, <1>6 DEF SqAlone, SqToken
  <2>9. /\ SqRange(sqQueue)' = SqRange(sqQueue) \cup {m}
        /\ \A i, j \in 1..Len(sqQueue') : sqQueue'[i] = sqQueue'[j] => i = j
    <3> PICK n \in Nat : n = Len(sqQueue) BY DEF SqAlone, SqTyped
    <3>1. sqQueue \in Seq(SqUser) /\ sqQueue' = sqQueue \o <<m>> BY <2>2 DEF SqAlone, SqTyped
    <3>2. /\ SqRange(sqQueue') = SqRange(sqQueue) \cup {m} /\ Len(sqQueue') = n + 1
          /\ \A i \in 1..n : sqQueue'[i] = sqQueue[i]
          /\ sqQueue'[n + 1] = m
      <4>1. \A s \in Seq(SqUser) :
              /\ Len(s \o <<m>>) = Len(s) + 1 /\ \A i \in 1..Len(s) : (s \o <<m>>)[i] = s[i]
              /\ (s \o <<m>>)[Len(s) + 1] = m /\ SqRange(s \o <<m>>) = SqRange(s) \cup {m}
        BY Added
      <4> QED BY <3>1, <4>1
    <3>3. \A i \in 1..n : sqQueue[i] # m BY <1>1 DEF SqAlone, SqApart, SqRange
    <3>4. \A i, j \in 1..n : sqQueue[i] = sqQueue[j] => i = j BY DEF SqAlone, SqApart
    <3>5. \A i, j \in 1..n + 1 : sqQueue'[i] = sqQueue'[j] => i = j BY <3>2, <3>3, <3>4
    <3> QED BY <3>2, <3>5
  <2>10. m \notin SqTold("recalled") \cup SqTold("refused") BY <1>1 DEF SqAlone, SqApart
  <2>11. SqApart' BY <1>1, <1>3, <2>7, <2>9, <2>10 DEF SqAlone, SqApart
  <2>12. SqFresh'
    <3>1. m \notin SqWritten BY <1>1 DEF SqAlone, SqFresh
    <3>2. SqWorks => m \notin sqStash BY <1>1 DEF SqAlone, SqFresh
    <3> QED BY <1>1, <1>2, <1>3, <1>4, <2>7, <2>9, <3>1, <3>2 DEF SqAlone, SqFresh
  <2> QED BY <1>3, <1>4, <2>5, <2>8, <2>11, <2>12 DEF SqStill
<1> QED BY <1>5, <1>6

\* the composer, the queue and what is taken back, when the queue goes back
LEMMA BackStill ==
    ASSUME SqAlone, SqTakeBack, sqMay \cap {"stop", "recall"} # {},
           UNCHANGED <<sqDraft, sqStash, sqInflight, sqAt, sqCarry, sqThread>>,
           \A c \in {"refused", "recalled"} : SqTold(c)' = SqTold(c)
    PROVE  SqUpOrder' /\ (SqInvoking' <=> SqInvoking) /\ SqApart' /\ SqFresh'
<1> PICK Q : Q = SqRange(sqQueue) OBVIOUS
<1>1. sqQueue' = <<>> /\ sqTaken' = sqTaken \cup Q /\ Q \subseteq SqUser
  BY TookBack DEF SqAlone
<1>2. SqRange(sqQueue)' = {} /\ Len(sqQueue') = 0 BY <1>1 DEF SqRange
<1>3. /\ SqUpOrder' /\ (SqInvoking' <=> SqInvoking)
      /\ SqSent("recall")' \subseteq SqSent("recall") \cup Q
      /\ SqSent("invoke")' = SqSent("invoke") /\ SqSent("steer")' = SqSent("steer")
  <2>1. CASE sqQueue = <<>>
    <3>1. UNCHANGED sqUp BY <2>1 DEF SqTakeBack
    <3> QED BY <3>1, WireRests DEF SqAlone
  <2>2. CASE sqQueue # <<>>
    <3> PICK f \in SqUpGood(sqMay) : f = SqFrame("recall", Q) BY <1>1, GoodFrames
    <3>1. f.kind = "recall" /\ f.who = Q BY DEF SqFrame
    <3>2. SqSend(<<f>>) BY <2>2 DEF SqTakeBack
    <3>3. SqSent("recall") \cap Q = {} BY DEF SqAlone, SqApart
    <3>4. \A g \in SqRange(sqUp) : SqUpAfter(g, f) BY <3>1, <3>3, OneOf DEF SqUpAfter
    <3>5. SqUpOrder' /\ (SqInvoking' <=> SqInvoking) BY <3>1, <3>2, <3>4, UpSent DEF SqAlone
    <3>6. \A c : SqSent(c)' = SqSent(c) \cup (IF f.kind = c THEN f.who ELSE {})
      BY <3>2, SentOf DEF SqAlone
    <3> QED BY <3>1, <3>5, <3>6
  <2> QED BY <2>1, <2>2
<1>4. SqApart' BY <1>1, <1>2, <1>3 DEF SqAlone, SqApart
<1>5. SqFresh'
  <2>1. (SqWorks' <=> SqWorks) /\ SqWritten' = SqWritten BY DEF SqWorks, SqWritten
  <2> QED BY <1>2, <1>3, <2>1 DEF SqAlone, SqFresh
<1> QED BY <1>3, <1>4, <1>5

\* The recall key keeps it.
LEMMA RecallKeyStill == ASSUME SqAlone, SqRecallKey PROVE SqStill'
<1>1. /\ SqTakeBack /\ sqMay \cap {"stop", "recall"} # {}
      /\ UNCHANGED <<sqDraft, sqView, sqDown, sqStash, sqInflight, sqAt, sqGot, sqCarry, sqRunning,
                     sqThread, sqTwice>>
  BY DEF SqRecallKey, sqTurn, sqHistory
<1>2. SqWorks' <=> SqWorks BY <1>1 DEF SqWorks
<1>3. SqDownOrder' /\ SqToldInTime' /\ (SqOver' <=> SqOver) /\ \A c : SqTold(c)' = SqTold(c)
  BY <1>1, <1>2, WireRests DEF SqAlone
<1>4. SqUpOrder' /\ (SqInvoking' <=> SqInvoking) /\ SqApart' /\ SqFresh' BY <1>1, <1>3, BackStill
<1>5. SqToken' BY <1>1, <1>2, <1>3, <1>4 DEF SqAlone, SqToken
<1>6. SqHands' /\ SqOnce' BY <1>1 DEF SqAlone, SqHands, SqOnce
<1> QED BY <1>3, <1>4, <1>5, <1>6 DEF SqStill

\* The stop key keeps it.
LEMMA StopKeyStill == ASSUME SqAlone, SqStopKey PROVE SqStill'
<1> PICK f \in SqUpGood(sqMay) : f = SqFrame("stop", {}) BY GoodFrames DEF SqStopKey
<1>1. f.kind = "stop" /\ f.who = {} BY DEF SqFrame
<1>2. /\ SqSend(<<f>>)
      /\ UNCHANGED <<sqDraft, sqQueue, sqTaken, sqView, sqDown, sqStash, sqInflight, sqAt, sqGot,
                     sqCarry, sqRunning, sqThread, sqTwice>>
  BY DEF SqStopKey, sqWindow, sqTurn, sqHistory
<1>3. \A g \in SqRange(sqUp) : SqUpAfter(g, f) BY <1>1 DEF SqUpAfter
<1>4. SqUpOrder' /\ (SqInvoking' <=> SqInvoking) BY <1>1, <1>2, <1>3, UpSent DEF SqAlone
<1>5. \A c : SqSent(c)' = SqSent(c)
  <2>1. \A c : SqSent(c)' = SqSent(c) \cup (IF f.kind = c THEN f.who ELSE {})
    BY <1>2, SentOf DEF SqAlone
  <2> QED BY <1>1, <2>1
<1>6. (SqWorks' <=> SqWorks) /\ SqWritten' = SqWritten BY <1>2 DEF SqWorks, SqWritten
<1>7. SqDownOrder' /\ SqToldInTime' /\ (SqOver' <=> SqOver) /\ \A c : SqTold(c)' = SqTold(c)
  BY <1>2, <1>6, WireRests DEF SqAlone
<1>8. SqToken' BY <1>2, <1>4, <1>6, <1>7 DEF SqAlone, SqToken
<1>9. SqRange(sqQueue)' = SqRange(sqQueue) BY <1>2
<1>10. SqApart' BY <1>2, <1>5, <1>7, <1>9 DEF SqAlone, SqApart
<1>11. SqFresh' BY <1>2, <1>5, <1>6, <1>7, <1>9 DEF SqAlone, SqFresh
<1>12. SqHands' /\ SqOnce' BY <1>2 DEF SqAlone, SqHands, SqOnce
<1> QED BY <1>4, <1>7, <1>8, <1>10, <1>11, <1>12 DEF SqStill

\* The window's handler keeps it: one case per event.
LEMMA HearStill == ASSUME SqAlone, SqHear PROVE SqStill'
<1> PICK e : e = Head(sqDown) OBVIOUS
<1>1. /\ sqDown # <<>> /\ sqDown' = Tail(sqDown)
      /\ UNCHANGED <<sqStash, sqInflight, sqAt, sqGot, sqCarry, sqRunning, sqThread, sqTwice>>
  BY DEF SqHear, sqTurn, sqHistory
<1>2. e \in SqDownGood(sqMay) /\ e \in SqDownFrames /\ (e.kind = "stopped" => "stop" \in sqMay)
  BY <1>1, HeardOne DEF SqAlone, SqDownGood
<1>3. \A c : SqTold(c) = SqTold(c)' \cup (IF e.kind = c THEN e.who ELSE {})
  BY <1>1, HeardOf DEF SqAlone
<1>4. /\ SqDownOrder' /\ SqToldInTime' /\ (SqOver' => SqOver)
      /\ \A g \in SqRange(sqDown') : SqDownAfter(e, g)
      /\ e.kind \in SqEnds \cup {"refused"} => SqOver /\ ~SqOver'
      /\ e.kind \in SqEnds => SqWorks \/ SqTold("absorbed")' = {}
  BY <1>1, DownHeard DEF SqAlone
<1>5. (SqWorks' <=> SqWorks) /\ SqWritten' = SqWritten BY <1>1 DEF SqWorks, SqWritten
<1>6. SqHands' /\ SqOnce' BY <1>1 DEF SqAlone, SqHands, SqOnce
<1>7. CASE e.kind \in {"start", "ask"}
  <2>1. sqView' # "idle" /\ UNCHANGED <<sqDraft, sqQueue, sqTaken, sqUp>> BY <1>7 DEF SqHear
  <2>2. SqUpOrder' /\ (SqInvoking' <=> SqInvoking) /\ \A c : SqSent(c)' = SqSent(c)
    BY <2>1, WireRests DEF SqAlone
  <2>3. \A c \in {"absorbed", "refused", "recalled"} : SqTold(c)' = SqTold(c) BY <1>3, <1>7
  <2>4. SqRange(sqQueue)' = SqRange(sqQueue) BY <2>1
  <2>5. SqToken' BY <1>4, <1>5, <2>1, <2>2 DEF SqAlone, SqToken
  <2>6. SqApart' BY <1>1, <2>1, <2>2, <2>3, <2>4 DEF SqAlone, SqApart
  <2>7. SqFresh' BY <1>1, <1>5, <2>1, <2>2, <2>3, <2>4 DEF SqAlone, SqFresh
  <2> QED BY <1>4, <1>6, <2>2, <2>5, <2>6, <2>7 DEF SqStill
<1>8. CASE e.kind \in {"absorbed", "answered"}
  <2>1. /\ UNCHANGED <<sqDraft, sqTaken, sqUp>> /\ SqForget(e.who)
        /\ sqView' = sqView \/ sqView' = "busy"
    BY <1>8 DEF SqHear
  <2>2. SqUpOrder' /\ (SqInvoking' <=> SqInvoking) /\ \A c : SqSent(c)' = SqSent(c)
    BY <2>1, WireRests DEF SqAlone
  <2>3. \A c \in {"refused", "recalled"} : SqTold(c)' = SqTold(c) BY <1>3, <1>8
  <2>4. SqTold("absorbed") \subseteq SqTold("absorbed")' \cup e.who BY <1>3
  <2>5. /\ SqRange(sqQueue)' = SqRange(sqQueue) \ e.who
        /\ \A i, j \in 1..Len(sqQueue') : sqQueue'[i] = sqQueue'[j] => i = j
    BY <2>1, Forgotten DEF SqAlone, SqTyped, SqApart
  <2>6. SqToken' BY <1>4, <1>5, <2>1, <2>2 DEF SqAlone, SqToken
  <2>7. SqApart' BY <1>1, <2>1, <2>2, <2>3, <2>5 DEF SqAlone, SqApart
  <2>8. SqFresh' BY <1>1, <1>5, <2>1, <2>2, <2>3, <2>4, <2>5 DEF SqAlone, SqFresh
  <2> QED BY <1>4, <1>6, <2>2, <2>6, <2>7, <2>8 DEF SqStill
<1>9. CASE e.kind = "refused"
  <2>1. UNCHANGED <<sqQueue, sqTaken, sqView, sqUp>> /\ sqDraft' = sqDraft \cup e.who
    BY <1>9 DEF SqHear
  <2>2. SqUpOrder' /\ (SqInvoking' <=> SqInvoking) /\ \A c : SqSent(c)' = SqSent(c)
    BY <2>1, WireRests DEF SqAlone
  <2>3. \A c \in {"absorbed", "recalled"} : SqTold(c)' = SqTold(c) BY <1>3, <1>9
  <2>4. e.who \subseteq SqTold("refused") /\ SqTold("refused")' \subseteq SqTold("refused")
    BY <1>3, <1>9
  <2>5. SqTold("refused")' = {}
    <3>1. \A g \in SqRange(sqDown') : g.kind # "refused" BY <1>4, <1>9 DEF SqDownAfter
    <3> QED BY <3>1 DEF SqTold, SqOf
  <2>6. SqRange(sqQueue)' = SqRange(sqQueue) BY <2>1
  <2>7. ~SqWorks BY <1>4, <1>9 DEF SqAlone, SqToken
  <2>8. SqToken' BY <1>4, <1>5, <2>1, <2>2 DEF SqAlone, SqToken
  <2>9. SqApart'
    <3>1. /\ sqDraft \cap (SqRange(sqQueue) \cup sqTaken \cup SqSent("invoke") \cup SqSent("steer")
                           \cup SqTold("refused")) = {}
          /\ SqRange(sqQueue) \cap (sqTaken \cup SqSent("invoke") \cup SqTold("refused")) = {}
          /\ sqTaken \cap (SqSent("invoke") \cup SqTold("refused")) = {}
          /\ SqSent("recall") \cup SqTold("recalled") \subseteq sqTaken
          /\ SqTold("recalled") \cap (SqSent("recall") \cup SqSent("steer") \cup sqStash) = {}
          /\ SqTold("refused") \cap SqSent("steer") = {}
          /\ \A i, j \in 1..Len(sqQueue) : sqQueue[i] = sqQueue[j] => i = j
      BY DEF SqAlone, SqApart
    <3>2. e.who \cap SqSent("invoke") = {}
      <4>1. ~SqInvoking BY <1>4, <1>9 DEF SqAlone, SqToken
      <4>2. SqSent("invoke") = {} BY <4>1 DEF SqInvoking, SqSent, SqOf
      <4> QED BY <4>2
    <3>3. sqDraft' \cap (SqRange(sqQueue) \cup sqTaken \cup SqSent("invoke") \cup SqSent("steer")) = {}
      BY <2>1, <2>4, <3>1, <3>2
    <3> QED BY <1>1, <2>1, <2>2, <2>3, <2>5, <2>6, <3>1, <3>3 DEF SqApart
  <2>10. SqFresh' BY <1>1, <1>5, <2>1, <2>2, <2>3, <2>4, <2>6, <2>7 DEF SqAlone, SqFresh
  <2> QED BY <1>4, <1>6, <2>2, <2>8, <2>9, <2>10 DEF SqStill
<1>10. CASE e.kind = "recalled"
  <2>1. /\ UNCHANGED <<sqQueue, sqView, sqUp>>
        /\ sqDraft' = sqDraft \cup (sqTaken \cap e.who) /\ sqTaken' = sqTaken \ e.who
    BY <1>10 DEF SqHear
  <2>2. SqUpOrder' /\ (SqInvoking' <=> SqInvoking) /\ \A c : SqSent(c)' = SqSent(c)
    BY <2>1, WireRests DEF SqAlone
  <2>3. \A c \in {"absorbed", "refused"} : SqTold(c)' = SqTold(c) BY <1>3, <1>10
  <2>4. e.who \subseteq SqTold("recalled") /\ SqTold("recalled")' \subseteq SqTold("recalled")
    BY <1>3, <1>10
  <2>5. SqTold("recalled")' \cap e.who = {}
    <3>1. \A g \in SqRange(sqDown') : g.kind = "recalled" => g.who \cap e.who = {}
      BY <1>4, <1>10 DEF SqDownAfter
    <3> QED BY <3>1 DEF SqTold, SqOf
  <2>6. SqRange(sqQueue)' = SqRange(sqQueue) BY <2>1
  <2>7. SqToken' BY <1>4, <1>5, <2>1, <2>2 DEF SqAlone, SqToken
  <2>8. SqApart'
    <3>1. /\ sqDraft \cap (SqRange(sqQueue) \cup sqTaken \cup SqSent("invoke") \cup SqSent("steer")
                           \cup SqTold("refused")) = {}
          /\ SqRange(sqQueue) \cap (sqTaken \cup SqSent("invoke") \cup SqTold("refused")) = {}
          /\ sqTaken \cap (SqSent("invoke") \cup SqTold("refused")) = {}
          /\ SqSent("recall") \cup SqTold("recalled") \subseteq sqTaken
          /\ SqTold("recalled") \cap (SqSent("recall") \cup SqSent("steer") \cup sqStash) = {}
          /\ SqTold("refused") \cap SqSent("steer") = {}
          /\ \A i, j \in 1..Len(sqQueue) : sqQueue[i] = sqQueue[j] => i = j
      BY DEF SqAlone, SqApart
    <3>2. /\ sqDraft' \cap (SqRange(sqQueue) \cup SqSent("invoke") \cup SqSent("steer")
                            \cup SqTold("refused")) = {}
          /\ sqDraft' \cap sqTaken' = {}
      BY <2>1, <2>4, <3>1
    <3>3. SqSent("recall") \cup SqTold("recalled")' \subseteq sqTaken' BY <2>1, <2>4, <2>5, <3>1
    <3>4. SqTold("recalled")' \cap (SqSent("recall") \cup SqSent("steer") \cup sqStash) = {}
      BY <2>4, <3>1
    <3>5. sqTaken' \subseteq sqTaken BY <2>1
    <3> QED BY <1>1, <2>1, <2>2, <2>3, <2>6, <3>1, <3>2, <3>3, <3>4, <3>5 DEF SqApart
  <2>9. SqFresh' BY <1>1, <1>5, <2>1, <2>2, <2>3, <2>4, <2>6, <2>8 DEF SqAlone, SqApart, SqFresh
  <2> QED BY <1>4, <1>6, <2>2, <2>7, <2>8, <2>9 DEF SqStill
<1>11. CASE e.kind = "stopped"
  <2>1. SqTakeBack /\ sqView' = "idle" /\ UNCHANGED sqDraft BY <1>11 DEF SqHear
  <2>2. \A c \in {"refused", "recalled"} : SqTold(c)' = SqTold(c) BY <1>3, <1>11
  <2>3. SqUpOrder' /\ (SqInvoking' <=> SqInvoking) /\ SqApart' /\ SqFresh'
    BY <1>1, <1>2, <1>11, <2>1, <2>2, BackStill
  <2>4. SqOver /\ ~SqOver' BY <1>4, <1>11 DEF SqEnds
  <2>5. SqToken' BY <1>5, <2>3, <2>4 DEF SqAlone, SqToken
  <2> QED BY <1>4, <1>6, <2>3, <2>5 DEF SqStill
<1>12. CASE e.kind \in {"end", "error"}
  <2>1. /\ UNCHANGED <<sqDraft, sqTaken>>
        /\ IF sqQueue = <<>> THEN sqView' = "idle" /\ UNCHANGED <<sqQueue, sqUp>>
           ELSE /\ SqSend(<<SqFrame("invoke", {Head(sqQueue)})>>)
                /\ sqQueue' = Tail(sqQueue) /\ sqView' = "busy"
    BY <1>12 DEF SqHear
  <2>2. \A c \in {"absorbed", "refused", "recalled"} : SqTold(c)' = SqTold(c) BY <1>3, <1>12
  <2>3. SqOver /\ ~SqOver' /\ ~SqWorks /\ ~SqInvoking
    BY <1>4, <1>12 DEF SqEnds, SqAlone, SqToken
  <2>4. SqTold("absorbed")' = {} BY <1>4, <1>12, <2>3 DEF SqEnds
  <2>5. SqRange(sqQueue) \cap SqWritten = {} BY <2>2, <2>4 DEF SqAlone, SqFresh
  <2>6. CASE sqQueue = <<>>
    <3>1. sqView' = "idle" /\ UNCHANGED <<sqDraft, sqTaken, sqQueue, sqUp>> BY <2>1, <2>6
    <3>2. SqUpOrder' /\ (SqInvoking' <=> SqInvoking) /\ \A c : SqSent(c)' = SqSent(c)
      BY <3>1, WireRests DEF SqAlone
    <3>3. SqRange(sqQueue)' = SqRange(sqQueue) BY <3>1
    <3>4. SqToken' BY <1>5, <2>3, <3>2 DEF SqToken
    <3>5. SqApart' BY <1>1, <2>2, <3>1, <3>2, <3>3 DEF SqAlone, SqApart
    <3>6. SqFresh' BY <1>1, <1>5, <2>2, <3>1, <3>2, <3>3 DEF SqAlone, SqFresh
    <3> QED BY <1>4, <1>6, <3>2, <3>4, <3>5, <3>6 DEF SqStill
  <2>7. CASE sqQueue # <<>>
    <3> PICK m : m = Head(sqQueue) OBVIOUS
    <3>1. /\ m \in SqUser /\ SqRange(sqQueue) = {m} \cup SqRange(sqQueue)'
          /\ m \notin SqRange(sqQueue)'
          /\ \A i, j \in 1..Len(sqQueue') : sqQueue'[i] = sqQueue'[j] => i = j
      <4> PICK n \in Nat : n = Len(sqQueue) BY DEF SqAlone, SqTyped
      <4>1. /\ SqRange(sqQueue) = {m} \cup SqRange(sqQueue') /\ m \in SqUser
            /\ m = sqQueue[1] /\ 1 \in 1..n /\ Len(sqQueue') = n - 1
            /\ \A i \in 1..n - 1 : sqQueue'[i] = sqQueue[i + 1]
        <5>1. \A s \in Seq(SqUser) : s # <<>> =>
                /\ Len(Tail(s)) = Len(s) - 1 /\ \A i \in 1..Len(s) - 1 : Tail(s)[i] = s[i + 1]
                /\ 1 \in 1..Len(s) /\ Head(s) = s[1] /\ Head(s) \in SqUser
                /\ SqRange(s) = {Head(s)} \cup SqRange(Tail(s))
          BY Taken
        <5>2. sqQueue \in Seq(SqUser) /\ sqQueue' = Tail(sqQueue)
          BY <2>1, <2>7 DEF SqAlone, SqTyped
        <5> QED BY <5>1, <5>2, <2>7
      <4>2. \A i, j \in 1..n : sqQueue[i] = sqQueue[j] => i = j BY DEF SqAlone, SqApart
      <4>3. \A i \in 1..n - 1 : i + 1 \in 1..n /\ i + 1 # 1 BY <4>1
      <4>4. \A i \in 1..n - 1 : sqQueue'[i] # m BY <4>1, <4>2, <4>3
      <4>5. \A i, j \in 1..n - 1 : sqQueue'[i] = sqQueue'[j] => i + 1 = j + 1
        BY <4>1, <4>2, <4>3
      <4>6. \A i, j \in 1..n - 1 : sqQueue'[i] = sqQueue'[j] => i = j BY <4>5
      <4> QED BY <4>1, <4>4, <4>6 DEF SqRange
    <3> PICK f \in SqUpGood(sqMay) : f = SqFrame("invoke", {m}) BY <3>1, GoodFrames
    <3>2. f.kind = "invoke" /\ f.who = {m} BY DEF SqFrame
    <3>3. SqSend(<<f>>) /\ sqView' = "busy" BY <2>1, <2>7
    <3>4. \A g \in SqRange(sqUp) : SqUpAfter(g, f) BY <2>3, <3>2 DEF SqUpAfter, SqInvoking
    <3>5. SqUpOrder' BY <3>3, <3>4, UpSent DEF SqAlone
    <3>6. \A c : SqSent(c)' = SqSent(c) \cup (IF f.kind = c THEN f.who ELSE {})
      BY <3>3, SentOf DEF SqAlone
    <3>7. /\ SqSent("invoke")' = SqSent("invoke") \cup {m}
          /\ SqSent("steer")' = SqSent("steer") /\ SqSent("recall")' = SqSent("recall")
      BY <3>2, <3>6
    <3>8. SqToken' BY <1>5, <2>3, <3>3 DEF SqToken
    <3>9. SqApart' BY <1>1, <2>1, <2>2, <3>1, <3>7 DEF SqAlone, SqApart
    <3>10. SqFresh' BY <1>1, <1>5, <2>1, <2>2, <2>5, <3>1, <3>7 DEF SqAlone, SqFresh
    <3> QED BY <1>4, <1>6, <3>5, <3>8, <3>9, <3>10 DEF SqStill
  <2> QED BY <2>6, <2>7
<1> QED BY <1>2, <1>7, <1>8, <1>9, <1>10, <1>11, <1>12 DEF SqDownFrames

\* A message that asks for a turn keeps the invariant when it is read.
LEMMA InvokeStill == ASSUME SqAlone, SqInvoke PROVE SqStill'
<1> PICK f : f = Head(sqUp) OBVIOUS
<1>1. /\ SqTakes("invoke")
      /\ UNCHANGED <<sqDraft, sqQueue, sqTaken, sqView, sqStash, sqInflight, sqGot, sqThread, sqTwice>>
  BY DEF SqInvoke, sqWindow, sqTurn, sqHistory
<1>2. /\ f \in SqUpGood(sqMay) /\ f.kind = "invoke"
      /\ \A c : SqSent(c) = SqSent(c)' \cup (IF "invoke" = c THEN f.who ELSE {})
  BY <1>1, TookOne, TookOf DEF SqAlone
<1>3. PICK m \in SqUser : f.who = {m} BY <1>2 DEF SqUpGood
<1>4. /\ SqUpOrder' /\ SqInvoking /\ ~SqInvoking'
      /\ \A g \in SqRange(sqUp') : SqUpAfter(f, g)
  BY <1>1, UpTook DEF SqAlone
<1>5. /\ SqSent("steer")' = SqSent("steer") /\ SqSent("recall")' = SqSent("recall")
      /\ m \in SqSent("invoke") /\ SqSent("invoke")' \subseteq SqSent("invoke")
  BY <1>2, <1>3
<1>6. SqSent("invoke")' = {} BY <1>4 DEF SqInvoking, SqSent, SqOf
<1>7. m \notin SqSent("steer")
  <2>1. \A g \in SqRange(sqUp') : g.kind = "steer" => m \notin g.who
    BY <1>2, <1>3, <1>4 DEF SqUpAfter
  <2>2. m \notin SqSent("steer")' BY <2>1 DEF SqSent, SqOf
  <2> QED BY <2>2, <1>5
<1>8. /\ ~SqWorks /\ ~SqOver /\ sqView # "idle" BY <1>4 DEF SqAlone, SqToken
<1>9. m \notin sqDraft \cup SqRange(sqQueue) \cup sqTaken \cup SqWritten
  BY <1>5 DEF SqAlone, SqApart, SqFresh
<1>10. SqRange(sqQueue)' = SqRange(sqQueue) BY <1>1
<1>11. CASE SqTask
  <2> PICK e \in SqDownGood(sqMay) : e = SqFrame("refused", {m}) BY GoodEvents DEF SqMsgs
  <2>1. e.kind = "refused" /\ e.who = {m} BY DEF SqFrame
  <2>2. SqTell(<<e>>) /\ UNCHANGED <<sqAt, sqCarry, sqRunning>>
    BY <1>3, <1>11 DEF SqInvoke, sqTurn
  <2>3. (SqWorks' <=> SqWorks) /\ SqWritten' = SqWritten BY <1>1, <2>2 DEF SqWorks, SqWritten
  <2>4. \A g \in SqRange(sqDown) : SqDownAfter(g, e) BY <1>8, <2>1 DEF SqOver, SqDownAfter
  <2>5. SqDownOrder' /\ SqToldInTime'
    <3>1. SqDownOrder /\ SqToldInTime /\ SqTyped /\ e.kind # "absorbed" BY <2>1 DEF SqAlone
    <3> QED BY <3>1, <1>8, <2>2, <2>4, DownTold
  <2>6. \A c : SqTold(c)' = SqTold(c) \cup (IF e.kind = c THEN e.who ELSE {})
    BY <2>2, ToldOf DEF SqAlone
  <2>7. /\ SqTold("refused")' = SqTold("refused") \cup {m}
        /\ SqTold("absorbed")' = SqTold("absorbed") /\ SqTold("recalled")' = SqTold("recalled")
    BY <2>1, <2>6
  <2>8. SqToken' BY <1>1, <1>4, <1>8, <2>3 DEF SqToken
  <2>9. SqApart' BY <1>1, <1>5, <1>6, <1>7, <1>9, <1>10, <2>7 DEF SqAlone, SqApart
  <2>10. SqFresh' BY <1>1, <1>5, <1>6, <1>8, <1>9, <1>10, <2>3, <2>7 DEF SqAlone, SqFresh
  <2>11. SqHands' /\ SqOnce' BY <1>1, <2>2 DEF SqAlone, SqHands, SqOnce
  <2> QED BY <1>4, <2>5, <2>8, <2>9, <2>10, <2>11 DEF SqStill
<1>12. CASE ~SqTask
  <2>1. /\ sqAt' = [sqAt EXCEPT !["ws"] = "ready"] /\ sqCarry' = m /\ UNCHANGED sqDown
    BY <1>3, <1>12 DEF SqInvoke, SqGoes
  <2>2. sqAt'["ws"] = "ready" BY <2>1 DEF SqAlone, SqTyped, SqTurns
  <2>3. SqWorks' BY <2>2 DEF SqWorks
  <2>4. SqDownOrder' /\ SqToldInTime' /\ (SqOver' <=> SqOver) /\ \A c : SqTold(c)' = SqTold(c)
    BY <2>1, <2>3, WireRests DEF SqAlone
  <2>5. sqCarry = SqNone /\ sqInflight = {} /\ sqStash = {} /\ sqGot["ws"] = {}
    BY <1>12 DEF SqAlone, SqHands, SqTask, SqTurns
  <2>6. SqWritten' = SqWritten \cup {m} /\ m \notin sqThread
    BY <1>1, <1>9, <2>1, <2>5, SqSets DEF SqWritten
  <2>7. m \notin SqTold("refused") \cup SqTold("recalled") BY <1>5, <1>8, <1>9
    DEF SqAlone, SqApart, SqOver, SqTold, SqOf
  <2>8. SqToken' BY <1>1, <1>4, <1>8, <2>3, <2>4 DEF SqToken
  <2>9. SqApart' BY <1>1, <1>5, <1>6, <1>10, <2>4 DEF SqAlone, SqApart
  <2>10. SqFresh' BY <1>1, <1>5, <1>6, <1>7, <1>9, <1>10, <2>4, <2>5, <2>6, <2>7 DEF SqAlone, SqFresh
  <2>11. m # SqNone BY SqSets
  <2>12. SqHands' /\ SqOnce' BY <1>1, <2>1, <2>2, <2>5, <2>6, <2>11 DEF SqAlone, SqHands, SqOnce
  <2> QED BY <1>4, <2>4, <2>8, <2>9, <2>10, <2>12 DEF SqStill
<1> QED BY <1>11, <1>12

\* So does one for the running turn, unless it may come late.
LEMMA SteerStill == ASSUME SqAlone, SqSteer, "late" \notin sqMay PROVE SqStill'
<1> PICK f : f = Head(sqUp) OBVIOUS
<1>1. /\ SqTakes("steer")
      /\ UNCHANGED <<sqDraft, sqQueue, sqTaken, sqView, sqInflight>>
  BY DEF SqSteer, sqWindow
<1>2. /\ f \in SqUpGood(sqMay) /\ f.kind = "steer"
      /\ \A c : SqSent(c) = SqSent(c)' \cup (IF "steer" = c THEN f.who ELSE {})
  BY <1>1, TookOne, TookOf DEF SqAlone
<1>3. PICK m \in SqUser : f.who = {m} BY <1>2 DEF SqUpGood
<1>4. /\ SqUpOrder' /\ (SqInvoking' => SqInvoking)
      /\ \A g \in SqRange(sqUp') : SqUpAfter(f, g)
  BY <1>1, UpTook DEF SqAlone
<1>5. /\ SqSent("invoke")' = SqSent("invoke") /\ SqSent("recall")' = SqSent("recall")
      /\ m \in SqSent("steer") /\ SqSent("steer")' \subseteq SqSent("steer")
  BY <1>2, <1>3
<1>6. m \notin SqSent("steer")'
  <2>1. \A g \in SqRange(sqUp') : g.kind = "steer" => m \notin g.who
    BY <1>2, <1>3, <1>4 DEF SqUpAfter
  <2> QED BY <2>1 DEF SqSent, SqOf
<1>7. /\ SqLive /\ sqStash' = sqStash \cup {m}
      /\ UNCHANGED <<sqDown, sqAt, sqGot, sqCarry, sqRunning, sqThread, sqTwice>>
  <2>1. ~({m} \subseteq sqAnswered) /\ sqAt["ws"] # "parked" BY DEF SqAlone
  <2> QED BY <1>3, <2>1 DEF SqSteer, sqTurn
<1>8. (SqWorks' <=> SqWorks) /\ SqWritten' = SqWritten BY <1>1, <1>7 DEF SqWorks, SqWritten
<1>9. SqDownOrder' /\ SqToldInTime' /\ (SqOver' <=> SqOver) /\ \A c : SqTold(c)' = SqTold(c)
  BY <1>7, <1>8, WireRests DEF SqAlone
<1>10. SqRange(sqQueue)' = SqRange(sqQueue) BY <1>1
<1>11. m \notin sqDraft \cup SqTold("recalled") \cup SqTold("refused") \cup SqWritten
  BY <1>5 DEF SqAlone, SqApart, SqFresh
<1>12. SqToken' BY <1>1, <1>4, <1>8, <1>9 DEF SqAlone, SqToken
<1>13. SqApart' BY <1>1, <1>5, <1>7, <1>9, <1>10, <1>11 DEF SqAlone, SqApart
<1>14. SqFresh' BY <1>1, <1>5, <1>6, <1>7, <1>8, <1>9, <1>10, <1>11 DEF SqAlone, SqFresh
<1>15. SqHands'
  <2>1. sqAt["ws"] # "off" BY <1>7 DEF SqLive, SqTask, SqAlone, SqHands
  <2> QED BY <1>1, <1>7, <2>1 DEF SqAlone, SqHands
<1>16. SqOnce' BY <1>7 DEF SqAlone, SqOnce
<1> QED BY <1>4, <1>9, <1>12, <1>13, <1>14, <1>15, <1>16 DEF SqStill

\* So does a recall.
LEMMA RecallStill == ASSUME SqAlone, SqRecall PROVE SqStill'
<1> PICK f : f = Head(sqUp) OBVIOUS
<1> PICK gone : gone = sqStash \cap f.who OBVIOUS
<1>1. /\ SqTakes("recall") /\ sqStash' = sqStash \ gone
      /\ UNCHANGED <<sqDraft, sqQueue, sqTaken, sqView, sqInflight, sqAt, sqGot, sqCarry, sqRunning,
                     sqThread, sqTwice>>
      /\ IF gone = {} THEN UNCHANGED sqDown ELSE SqTell(<<SqFrame("recalled", gone)>>)
  BY DEF SqRecall, sqWindow, sqTurn, sqHistory
<1>2. /\ f \in SqUpGood(sqMay) /\ f.kind = "recall"
      /\ \A c : SqSent(c) = SqSent(c)' \cup (IF "recall" = c THEN f.who ELSE {})
  BY <1>1, TookOne, TookOf DEF SqAlone
<1>3. /\ SqUpOrder' /\ (SqInvoking' => SqInvoking)
      /\ \A g \in SqRange(sqUp') : SqUpAfter(f, g)
  BY <1>1, UpTook DEF SqAlone
<1>4. /\ SqSent("invoke")' = SqSent("invoke") /\ SqSent("steer")' = SqSent("steer")
      /\ f.who \subseteq SqSent("recall") /\ SqSent("recall")' \subseteq SqSent("recall")
  BY <1>2
<1>5. f.who \cap (SqSent("steer") \cup SqSent("recall")') = {}
  <2>1. \A g \in SqRange(sqUp') : g.kind \in {"steer", "recall"} => f.who \cap g.who = {}
    BY <1>2, <1>3 DEF SqUpAfter
  <2>2. f.who \cap (SqSent("steer")' \cup SqSent("recall")') = {} BY <2>1 DEF SqSent, SqOf
  <2> QED BY <2>2, <1>4
<1>6. (SqWorks' <=> SqWorks) /\ SqWritten' = SqWritten BY <1>1 DEF SqWorks, SqWritten
<1>7. /\ SqDownOrder' /\ SqToldInTime' /\ (SqOver' <=> SqOver)
      /\ SqTold("recalled")' \subseteq SqTold("recalled") \cup gone
      /\ \A c \in {"absorbed", "refused"} : SqTold(c)' = SqTold(c)
  <2>1. CASE gone = {}
    <3>1. UNCHANGED sqDown BY <1>1, <2>1
    <3> QED BY <3>1, <1>6, WireRests DEF SqAlone
  <2>2. CASE gone # {}
    <3>1. gone \subseteq SqMsgs BY DEF SqAlone, SqTyped
    <3> PICK e \in SqDownGood(sqMay) : e = SqFrame("recalled", gone) BY <3>1, GoodEvents
    <3>2. e.kind = "recalled" /\ e.who = gone BY DEF SqFrame
    <3>3. SqTell(<<e>>) BY <1>1, <2>2
    <3>4. gone \cap SqTold("recalled") = {} BY DEF SqAlone, SqApart
    <3>5. \A g \in SqRange(sqDown) : SqDownAfter(g, e)
      BY <3>2, <3>4, OneOf DEF SqDownAfter, SqEnds
    <3>6. SqDownOrder' /\ SqToldInTime' /\ (SqOver' <=> SqOver)
      <4>1. /\ SqDownOrder /\ SqToldInTime /\ SqTyped
            /\ e.kind # "absorbed" /\ e.kind \notin SqEnds \cup {"refused"}
        BY <3>2 DEF SqAlone, SqEnds
      <4>2. CASE SqWorks BY <4>1, <4>2, <1>6, <3>3, <3>5, DownTold
      <4>3. CASE ~SqWorks BY <4>1, <4>3, <3>3, <3>5, DownTold
      <4> QED BY <4>2, <4>3
    <3>7. \A c : SqTold(c)' = SqTold(c) \cup (IF e.kind = c THEN e.who ELSE {})
      BY <3>3, ToldOf DEF SqAlone
    <3>8. SqTold("recalled")' \subseteq SqTold("recalled") \cup gone BY <3>2, <3>7
    <3>9. \A c \in {"absorbed", "refused"} : SqTold(c)' = SqTold(c) BY <3>2, <3>7
    <3> QED BY <3>6, <3>8, <3>9
  <2> QED BY <2>1, <2>2
<1>8. SqRange(sqQueue)' = SqRange(sqQueue) BY <1>1
<1>9. SqToken' BY <1>1, <1>3, <1>6, <1>7 DEF SqAlone, SqToken
<1>10. SqApart'
  <2>1. /\ SqSent("recall") \cup SqTold("recalled") \subseteq sqTaken
        /\ SqTold("recalled") \cap (SqSent("recall") \cup SqSent("steer") \cup sqStash) = {}
    BY DEF SqAlone, SqApart
  <2>2. SqTold("recalled")' \cap (SqSent("recall")' \cup SqSent("steer") \cup sqStash') = {}
    BY <2>1, <1>1, <1>4, <1>5, <1>7
  <2>3. SqSent("recall")' \cup SqTold("recalled")' \subseteq sqTaken BY <2>1, <1>4, <1>7
  <2> QED BY <1>1, <1>4, <1>7, <1>8, <2>2, <2>3 DEF SqAlone, SqApart
<1>11. SqFresh'
  <2>1. SqWritten \cap gone = {} BY DEF SqAlone, SqFresh
  <2> QED BY <1>1, <1>4, <1>6, <1>7, <1>8, <2>1 DEF SqAlone, SqFresh
<1>12. SqHands' /\ SqOnce' BY <1>1 DEF SqAlone, SqHands, SqOnce
<1> QED BY <1>3, <1>7, <1>9, <1>10, <1>11, <1>12 DEF SqStill

\* So does a stop.
LEMMA StopStill == ASSUME SqAlone, SqStopFrame PROVE SqStill'
<1>1. /\ SqTakes("stop")
      /\ UNCHANGED <<sqDraft, sqQueue, sqTaken, sqView, sqDown, sqStash, sqInflight, sqAt, sqGot,
                     sqCarry, sqRunning, sqThread, sqTwice>>
  BY DEF SqAlone, SqStopFrame, sqWindow
<1>2. SqUpOrder' /\ (SqInvoking' => SqInvoking) BY <1>1, UpTook DEF SqAlone
<1>3. \A c \in {"invoke", "steer", "recall"} : SqSent(c)' = SqSent(c)
  <2>1. \A c : SqSent(c) = SqSent(c)' \cup (IF "stop" = c THEN Head(sqUp).who ELSE {})
    BY <1>1, TookOf DEF SqAlone
  <2> QED BY <2>1
<1>4. (SqWorks' <=> SqWorks) /\ SqWritten' = SqWritten BY <1>1 DEF SqWorks, SqWritten
<1>5. SqDownOrder' /\ SqToldInTime' /\ (SqOver' <=> SqOver) /\ \A c : SqTold(c)' = SqTold(c)
  BY <1>1, <1>4, WireRests DEF SqAlone
<1>6. SqRange(sqQueue)' = SqRange(sqQueue) BY <1>1
<1>7. SqToken' BY <1>1, <1>2, <1>4, <1>5 DEF SqAlone, SqToken
<1>8. SqApart' BY <1>1, <1>3, <1>5, <1>6 DEF SqAlone, SqApart
<1>9. SqFresh' BY <1>1, <1>3, <1>4, <1>5, <1>6 DEF SqAlone, SqFresh
<1>10. SqHands' /\ SqOnce' BY <1>1 DEF SqAlone, SqHands, SqOnce
<1> QED BY <1>2, <1>5, <1>7, <1>8, <1>9, <1>10 DEF SqStill

\* the turn takes a step and tells the window of it, or does not: the wire
LEMMA TurnTells ==
    ASSUME SqAlone, SqWorks, UNCHANGED <<sqUp, sqView>>, NEW e \in SqDownGood(sqMay), SqTell(<<e>>),
           \/ SqWorks' /\ e.kind \in {"start", "absorbed"}
           \/ ~SqWorks' /\ e.kind \in SqEnds
    PROVE  /\ SqToken' /\ SqUpOrder' /\ SqDownOrder' /\ SqToldInTime'
           /\ \A c : SqSent(c)' = SqSent(c)
           /\ \A c : SqTold(c)' = SqTold(c) \cup (IF e.kind = c THEN e.who ELSE {})
<1>1. SqUpOrder' /\ (SqInvoking' <=> SqInvoking) /\ \A c : SqSent(c)' = SqSent(c)
  BY WireRests DEF SqAlone
<1>2. ~SqInvoking /\ ~SqOver /\ sqView # "idle" BY DEF SqAlone, SqToken
<1>3. \A g \in SqRange(sqDown) : g.kind \notin SqEnds \cup {"refused"} BY <1>2 DEF SqOver
<1>4. \A g \in SqRange(sqDown) : SqDownAfter(g, e) BY <1>3 DEF SqDownAfter, SqEnds
<1>5. /\ SqDownOrder' /\ SqToldInTime'
      /\ SqOver' <=> SqOver \/ e.kind \in SqEnds \cup {"refused"}
  <2>1. SqTyped /\ SqDownOrder /\ SqToldInTime BY DEF SqAlone
  <2>2. CASE SqWorks' BY <1>4, <2>1, <2>2, DownTold
  <2>3. CASE ~SqWorks' /\ e.kind \in SqEnds
    <3>1. e.kind # "absorbed" BY <2>3 DEF SqEnds
    <3> QED BY <1>4, <2>1, <2>3, <3>1, DownTold
  <2> QED BY <2>2, <2>3
<1>6. \A c : SqTold(c)' = SqTold(c) \cup (IF e.kind = c THEN e.who ELSE {})
  BY ToldOf DEF SqAlone
<1>7. SqToken' BY <1>1, <1>2, <1>5 DEF SqToken, SqEnds
<1> QED BY <1>1, <1>5, <1>6, <1>7

\* A step of the turn that says nothing leaves the wires and the token.
LEMMA TurnQuiet ==
    ASSUME SqAlone, SqWorks' <=> SqWorks, UNCHANGED <<sqUp, sqView, sqDown>>
    PROVE  /\ SqToken' /\ SqUpOrder' /\ SqDownOrder' /\ SqToldInTime'
           /\ \A c : SqSent(c)' = SqSent(c)
           /\ \A c : SqTold(c)' = SqTold(c)
<1>1. SqUpOrder' /\ (SqInvoking' <=> SqInvoking) /\ \A c : SqSent(c)' = SqSent(c)
  BY WireRests DEF SqAlone
<1>2. SqDownOrder' /\ SqToldInTime' /\ (SqOver' <=> SqOver) /\ \A c : SqTold(c)' = SqTold(c)
  BY WireRests DEF SqAlone
<1>3. SqToken' BY <1>1, <1>2 DEF SqAlone, SqToken
<1> QED BY <1>1, <1>2, <1>3

\* what is written stays apart when nothing new is, and the stash does not grow
LEMMA LessStill ==
    ASSUME SqAlone, UNCHANGED <<sqDraft, sqQueue, sqTaken>>, sqStash' \subseteq sqStash,
           SqWritten' \subseteq SqWritten \cup {SqNone}, SqWorks' => SqWorks,
           \A c : SqSent(c)' = SqSent(c),
           \A c \in {"absorbed", "refused", "recalled"} : SqTold(c)' = SqTold(c)
    PROVE  SqApart' /\ SqFresh'
<1>1. SqRange(sqQueue)' = SqRange(sqQueue) OBVIOUS
<1>2. SqApart' BY <1>1 DEF SqAlone, SqApart
<1>3. SqNone \notin SqMsgs BY SqSets DEF SqMsgs
<1>4. sqDraft \subseteq SqMsgs /\ sqStash \subseteq SqMsgs /\ SqRange(sqQueue) \subseteq SqMsgs
  BY DEF SqAlone, SqTyped, SqRange, SqMsgs
<1>5. /\ SqSent("invoke") \cup SqSent("steer") \subseteq SqMsgs
      /\ SqTold("refused") \cup SqTold("recalled") \subseteq SqMsgs
  <2>1. \A g \in SqRange(sqUp) : g.who \subseteq SqMsgs
    BY DEF SqAlone, SqTyped, SqRange, SqUpGood, SqUpFrames, SqMsgs
  <2>2. \A g \in SqRange(sqDown) : g.who \subseteq SqMsgs
    BY DEF SqAlone, SqTyped, SqRange, SqDownGood, SqDownFrames
  <2> QED BY <2>1, <2>2 DEF SqSent, SqTold, SqOf
<1>6. SqFresh' BY <1>1, <1>3, <1>4, <1>5 DEF SqAlone, SqFresh
<1> QED BY <1>2, <1>6

\* The begin of a turn keeps the invariant.
LEMMA BeginStill == ASSUME SqAlone, SqBegin PROVE SqStill'
<1>1. /\ sqAt["ws"] = "ready" /\ sqAt' = [sqAt EXCEPT !["ws"] = "run"]
      /\ SqWrite({sqCarry}) /\ sqCarry' = SqNone /\ SqTell(<<SqFrame("start", {})>>)
      /\ UNCHANGED <<sqDraft, sqQueue, sqTaken, sqView, sqUp, sqStash, sqInflight, sqGot, sqRunning>>
  BY DEF SqBegin, SqGoes, sqWindow
<1>2. SqWorks /\ SqWorks' /\ sqAt'["ws"] = "run"
  BY <1>1 DEF SqWorks, SqAlone, SqTyped, SqTurns
<1> PICK e \in SqDownGood(sqMay) : e = SqFrame("start", {}) BY GoodEvents
<1>3. e.kind = "start" /\ e.who = {} BY DEF SqFrame
<1>4. /\ SqToken' /\ SqUpOrder' /\ SqDownOrder' /\ SqToldInTime'
      /\ \A c : SqSent(c)' = SqSent(c)
      /\ \A c : SqTold(c)' = SqTold(c)
  <2>1. /\ SqToken' /\ SqUpOrder' /\ SqDownOrder' /\ SqToldInTime'
        /\ \A c : SqSent(c)' = SqSent(c)
        /\ \A c : SqTold(c)' = SqTold(c) \cup (IF e.kind = c THEN e.who ELSE {})
    BY <1>1, <1>2, <1>3, TurnTells
  <2> QED BY <2>1, <1>3
<1>5. sqThread' = sqThread \cup {sqCarry} /\ sqCarry \notin sqThread
      /\ sqTwice' = sqTwice \cup (sqThread \cap {sqCarry})
  BY <1>1 DEF SqWrite, SqAlone, SqHands
<1>6. SqWritten' \subseteq SqWritten \cup {SqNone} BY <1>1, <1>5 DEF SqWritten
<1>7. SqApart' /\ SqFresh' BY <1>1, <1>2, <1>4, <1>6, LessStill
<1>8. SqHands'
  <2>1. sqInflight = {} /\ sqGot["ws"] = {} BY <1>1 DEF SqAlone, SqHands, SqTurns
  <2>2. SqNone \notin sqThread'
    <3>1. SqNone \notin sqThread /\ sqCarry # SqNone BY <1>1 DEF SqAlone, SqHands
    <3> QED BY <1>5, <3>1
  <2> QED BY <1>1, <1>2, <2>1, <2>2 DEF SqAlone, SqHands
<1>9. SqOnce' BY <1>5 DEF SqAlone, SqOnce
<1> QED BY <1>4, <1>7, <1>8, <1>9 DEF SqStill

\* A superstep that drains the stash keeps it.
LEMMA DrainStill == ASSUME SqAlone, SqDrain("ws") PROVE SqStill'
<1>1. /\ sqAt["ws"] \in {"run", "tools"} /\ sqAt' = [sqAt EXCEPT !["ws"] = "call"]
      /\ sqStash' = {} /\ sqGot' = [sqGot EXCEPT !["ws"] = sqStash]
      /\ sqInflight' = sqInflight \cup sqStash
      /\ IF sqStash = {} THEN UNCHANGED sqDown ELSE SqTell(<<SqFrame("absorbed", sqStash)>>)
      /\ UNCHANGED <<sqDraft, sqQueue, sqTaken, sqView, sqUp, sqCarry, sqRunning, sqThread, sqTwice>>
  BY DEF SqDrain, SqGoes, sqWindow
<1>2. SqWorks /\ SqWorks' /\ sqAt'["ws"] = "call" /\ sqGot'["ws"] = sqStash
  BY <1>1 DEF SqWorks, SqAlone, SqTyped, SqTurns
<1>3. /\ SqToken' /\ SqUpOrder' /\ SqDownOrder' /\ SqToldInTime'
      /\ \A c : SqSent(c)' = SqSent(c)
      /\ \A c \in {"refused", "recalled"} : SqTold(c)' = SqTold(c)
      /\ SqTold("absorbed")' = SqTold("absorbed") \cup sqStash
  <2>1. CASE sqStash = {}
    <3>1. UNCHANGED <<sqUp, sqView, sqDown>> BY <1>1, <2>1
    <3>2. /\ SqToken' /\ SqUpOrder' /\ SqDownOrder' /\ SqToldInTime'
          /\ \A c : SqSent(c)' = SqSent(c)
          /\ \A c : SqTold(c)' = SqTold(c)
      BY <1>2, <3>1, TurnQuiet
    <3> QED BY <2>1, <3>2
  <2>2. CASE sqStash # {}
    <3>1. sqStash \subseteq SqMsgs BY DEF SqAlone, SqTyped
    <3> PICK e \in SqDownGood(sqMay) : e = SqFrame("absorbed", sqStash) BY <3>1, GoodEvents
    <3>2. e.kind = "absorbed" /\ e.who = sqStash BY DEF SqFrame
    <3>3. SqTell(<<e>>) BY <1>1, <2>2
    <3>4. /\ SqToken' /\ SqUpOrder' /\ SqDownOrder' /\ SqToldInTime'
          /\ \A c : SqSent(c)' = SqSent(c)
          /\ \A c : SqTold(c)' = SqTold(c) \cup (IF e.kind = c THEN e.who ELSE {})
      BY <1>1, <1>2, <3>2, <3>3, TurnTells
    <3> QED BY <3>2, <3>4
  <2> QED BY <2>1, <2>2
<1>4. sqCarry = SqNone BY <1>1 DEF SqAlone
<1>5. SqWritten' = SqWritten \cup sqStash BY <1>1, <1>4 DEF SqWritten
<1>6. SqRange(sqQueue)' = SqRange(sqQueue) BY <1>1
<1>7. SqApart' BY <1>1, <1>3, <1>6 DEF SqAlone, SqApart
<1>8. SqFresh'
  <2>1. ~SqInvoking /\ ~SqOver BY <1>2 DEF SqAlone, SqToken
  <2>2. SqSent("invoke") = {} /\ SqTold("refused") = {}
    BY <2>1 DEF SqInvoking, SqOver, SqSent, SqTold, SqOf
  <2>3. sqStash \cap (sqDraft \cup SqSent("steer") \cup SqTold("recalled")) = {}
    BY <1>2 DEF SqAlone, SqFresh, SqApart
  <2>4. SqWritten \cap (sqDraft \cup SqSent("steer") \cup SqTold("recalled")) = {}
    BY DEF SqAlone, SqFresh
  <2>5. SqRange(sqQueue) \cap SqWritten' \subseteq SqTold("absorbed")'
    BY <1>3, <1>5 DEF SqAlone, SqFresh
  <2> QED BY <1>1, <1>3, <1>5, <1>6, <2>2, <2>3, <2>4, <2>5 DEF SqFresh
<1>9. SqHands'
  <2>1. sqStash \cap sqThread = {} /\ sqStash \subseteq SqUser
    BY DEF SqAlone, SqFresh, SqHands, SqWritten
  <2>2. SqNone \notin sqStash BY <2>1, SqSets
  <2> QED BY <1>1, <1>2, <1>4, <2>1, <2>2 DEF SqAlone, SqHands
<1>10. SqOnce' BY <1>1 DEF SqAlone, SqOnce
<1> QED BY <1>3, <1>7, <1>8, <1>9, <1>10 DEF SqStill

\* a turn at work goes on, or ends and tells the window so
LEMMA OnOrEnds ==
    ASSUME SqAlone, SqWorks, UNCHANGED <<sqDraft, sqQueue, sqTaken, sqView, sqUp, sqStash>>,
           SqWritten' \subseteq SqWritten,
           \/ SqWorks' /\ UNCHANGED sqDown
           \/ ~SqWorks' /\ \E kind \in SqEnds :
                 ("stop" \in sqMay \/ kind # "stopped") /\ SqTell(<<SqFrame(kind, {})>>)
    PROVE  /\ SqToken' /\ SqUpOrder' /\ SqDownOrder' /\ SqToldInTime'
           /\ SqApart' /\ SqFresh'
<1>1. /\ SqToken' /\ SqUpOrder' /\ SqDownOrder' /\ SqToldInTime'
      /\ \A c : SqSent(c)' = SqSent(c)
      /\ \A c : SqTold(c)' = SqTold(c)
  <2>1. CASE SqWorks' /\ UNCHANGED sqDown BY <2>1, TurnQuiet
  <2>2. CASE ~SqWorks' /\ \E kind \in SqEnds :
                ("stop" \in sqMay \/ kind # "stopped") /\ SqTell(<<SqFrame(kind, {})>>)
    <3>1. PICK kind \in SqEnds :
            ("stop" \in sqMay \/ kind # "stopped") /\ SqTell(<<SqFrame(kind, {})>>)
      BY <2>2
    <3>2. SqFrame(kind, {}) \in SqDownGood(sqMay) BY <3>1, GoodEvents DEF SqEnds
    <3> PICK e \in SqDownGood(sqMay) : e = SqFrame(kind, {}) BY <3>2
    <3>3. e.kind = kind /\ e.who = {} BY DEF SqFrame
    <3>4. /\ SqToken' /\ SqUpOrder' /\ SqDownOrder' /\ SqToldInTime'
          /\ \A c : SqSent(c)' = SqSent(c)
          /\ \A c : SqTold(c)' = SqTold(c) \cup (IF e.kind = c THEN e.who ELSE {})
      BY <2>2, <3>1, <3>3, TurnTells
    <3> QED BY <3>3, <3>4
  <2> QED BY <2>1, <2>2
<1>2. SqApart' /\ SqFresh' BY <1>1, LessStill
<1> QED BY <1>1, <1>2

\* The commit of a superstep keeps it.
LEMMA CommitStill == ASSUME SqAlone, SqCommit("ws") PROVE SqStill'
<1>1. /\ sqAt["ws"] = "call" /\ SqWrite(sqGot["ws"]) /\ sqGot' = [sqGot EXCEPT !["ws"] = {}]
      /\ sqInflight' \subseteq sqInflight
      /\ sqGot["ws"] # {} => sqInflight' = {}
      /\ \/ sqAt' = [sqAt EXCEPT !["ws"] = "tools"] /\ UNCHANGED sqDown
         \/ sqAt' = [sqAt EXCEPT !["ws"] = "ended"] /\ SqTell(<<SqFrame("end", {})>>)
      /\ UNCHANGED <<sqDraft, sqQueue, sqTaken, sqView, sqUp, sqStash, sqCarry, sqRunning>>
  BY DEF SqCommit, SqGoes, sqWindow
<1>2. SqWorks /\ sqGot'["ws"] = {} /\ sqAt'["ws"] \in {"tools", "ended"}
  BY <1>1 DEF SqWorks, SqAlone, SqTyped, SqTurns
<1>3. /\ sqGot["ws"] \subseteq sqInflight /\ sqInflight \cap sqThread = {} /\ sqCarry = SqNone
      /\ SqNone \notin sqThread \cup sqInflight
  BY <1>1 DEF SqAlone, SqHands
<1>4. sqThread' = sqThread \cup sqGot["ws"] /\ sqTwice' = sqTwice
  BY <1>1, <1>3 DEF SqWrite
<1>5. SqWritten' \subseteq SqWritten BY <1>1, <1>3, <1>4 DEF SqWritten
<1>6. \/ SqWorks' /\ UNCHANGED sqDown
      \/ ~SqWorks' /\ SqTell(<<SqFrame("end", {})>>)
  BY <1>1 DEF SqWorks, SqAlone, SqTyped, SqTurns
<1>7. /\ SqToken' /\ SqUpOrder' /\ SqDownOrder' /\ SqToldInTime' /\ SqApart' /\ SqFresh'
  BY <1>1, <1>2, <1>5, <1>6, OnOrEnds DEF SqEnds
<1>8. SqHands' BY <1>1, <1>2, <1>3, <1>4 DEF SqAlone, SqHands
<1>9. SqOnce' BY <1>4 DEF SqAlone, SqOnce
<1> QED BY <1>7, <1>8, <1>9 DEF SqStill

\* A failing model call keeps it.
LEMMA FailStill == ASSUME SqAlone, SqFail("ws") PROVE SqStill'
<1>1. /\ sqAt["ws"] = "call" /\ sqGot' = [sqGot EXCEPT !["ws"] = {}]
      /\ \/ sqAt' = [sqAt EXCEPT !["ws"] = "run"] /\ UNCHANGED sqDown
         \/ sqAt' = [sqAt EXCEPT !["ws"] = "ended"] /\ SqTell(<<SqFrame("error", {})>>)
      /\ UNCHANGED <<sqDraft, sqQueue, sqTaken, sqView, sqUp, sqStash, sqInflight, sqCarry, sqRunning,
                     sqThread, sqTwice>>
  BY DEF SqFail, SqGoes, sqWindow, sqHistory
<1>2. SqWorks /\ sqGot'["ws"] = {} /\ sqAt'["ws"] \in {"run", "ended"}
  BY <1>1 DEF SqWorks, SqAlone, SqTyped, SqTurns
<1>3. SqWritten' \subseteq SqWritten BY <1>1 DEF SqWritten
<1>4. \/ SqWorks' /\ UNCHANGED sqDown
      \/ ~SqWorks' /\ SqTell(<<SqFrame("error", {})>>)
  BY <1>1 DEF SqWorks, SqAlone, SqTyped, SqTurns
<1>5. /\ SqToken' /\ SqUpOrder' /\ SqDownOrder' /\ SqToldInTime' /\ SqApart' /\ SqFresh'
  BY <1>1, <1>2, <1>3, <1>4, OnOrEnds DEF SqEnds
<1>6. SqHands' /\ SqOnce' BY <1>1, <1>2 DEF SqAlone, SqHands, SqOnce
<1> QED BY <1>5, <1>6 DEF SqStill

\* A turn that is stopped keeps it.
LEMMA StoppedStill == ASSUME SqAlone, SqStopped("ws"), "stop" \in sqMay PROVE SqStill'
<1>1. /\ sqAt["ws"] \in {"run", "call", "tools"} /\ sqGot' = [sqGot EXCEPT !["ws"] = {}]
      /\ SqWrite(sqInflight) /\ sqInflight' = {}
      /\ sqAt' = [sqAt EXCEPT !["ws"] = "ended"] /\ SqTell(<<SqFrame("stopped", {})>>)
      /\ UNCHANGED <<sqDraft, sqQueue, sqTaken, sqView, sqUp, sqStash, sqCarry, sqRunning>>
  BY DEF SqStopped, SqGoes, sqWindow
<1>2. SqWorks /\ ~SqWorks' /\ sqGot'["ws"] = {} /\ sqAt'["ws"] = "ended"
  BY <1>1 DEF SqWorks, SqAlone, SqTyped, SqTurns
<1>3. sqThread' = sqThread \cup sqInflight /\ sqTwice' = sqTwice
  BY <1>1 DEF SqWrite, SqAlone, SqHands
<1>4. SqWritten' \subseteq SqWritten BY <1>1, <1>3 DEF SqWritten
<1>5. /\ SqToken' /\ SqUpOrder' /\ SqDownOrder' /\ SqToldInTime' /\ SqApart' /\ SqFresh'
  BY <1>1, <1>2, <1>4, OnOrEnds DEF SqEnds
<1>6. SqHands' /\ SqOnce' BY <1>1, <1>2, <1>3 DEF SqAlone, SqHands, SqOnce
<1> QED BY <1>5, <1>6 DEF SqStill

\* The end of a turn keeps it.
LEMMA FinishStill == ASSUME SqAlone, SqFinish("ws") PROVE SqStill'
<1>1. /\ sqAt["ws"] = "ended" /\ sqAt'["ws"] = "off" /\ sqRunning' = SqNone
      /\ sqStash' = sqStash \cap SqEvents /\ sqInflight' = {}
      /\ UNCHANGED <<sqDraft, sqQueue, sqTaken, sqView, sqUp, sqDown, sqGot, sqCarry, sqThread, sqTwice>>
  BY DEF SqFinish, SqKeep, SqTurns, sqWindow, sqHistory
<1>2. ~SqWorks /\ ~SqWorks' /\ sqGot["ws"] = {} /\ sqAt'["ws"] = "off"
  BY <1>1 DEF SqWorks, SqAlone, SqTyped, SqTurns
<1>3. sqStash' = {} BY <1>1, SqSets DEF SqAlone, SqHands
<1>4. SqWritten' \subseteq SqWritten BY <1>1 DEF SqWritten
<1>5. /\ SqToken' /\ SqUpOrder' /\ SqDownOrder' /\ SqToldInTime'
      /\ \A c : SqSent(c)' = SqSent(c)
      /\ \A c : SqTold(c)' = SqTold(c)
  BY <1>1, <1>2, TurnQuiet
<1>6. SqApart' /\ SqFresh' BY <1>1, <1>2, <1>4, <1>5, LessStill
<1>7. SqHands' /\ SqOnce' BY <1>1, <1>2, <1>3 DEF SqAlone, SqHands, SqOnce
<1> QED BY <1>5, <1>6, <1>7 DEF SqStill

\* Every step keeps the invariant about one turn and one copy.
LEMMA SqSingleStays == SqBase /\ SqSingle /\ [SqNext]_sqVars => SqSingle'
<1> SUFFICES ASSUME SqBase, SqSingle, [SqNext]_sqVars, sqMay' \cap {"ask", "event", "late"} = {}
             PROVE  SqStill'
  BY DEF SqSingle, SqStill
<1>1. sqMay' = sqMay
  BY DEF SqNext, SqUserStep, SqFrames, SqTurnStep, SqType, SqRecallKey, SqStopKey, SqAnswerKey,
         SqHear, SqInvoke, SqSteer, SqAnswer, SqRecall, SqStopFrame, SqBegin, SqAsk, SqDrain,
         SqCommit, SqFail, SqStopped, SqFinish, SqEvent, SqWatchTick, SqFlushAll, sqVars
<1>2. SqAlone BY <1>1 DEF SqAlone, SqSingle, SqBase, SqSteady, SqQuiet
<1>3. "late" \notin sqMay BY <1>1
<1>4. ASSUME NEW m \in SqUser, SqType(m) PROVE SqStill' BY <1>2, <1>4, TypeStill
<1>5. CASE SqRecallKey \/ SqStopKey \/ SqHear BY <1>2, <1>5, RecallKeyStill, StopKeyStill, HearStill
<1>6. CASE SqInvoke \/ SqSteer \/ SqRecall \/ SqStopFrame \/ SqBegin
  BY <1>2, <1>3, <1>6, InvokeStill, SteerStill, RecallStill, StopStill, BeginStill
<1>7. ASSUME SqAnswerKey \/ SqAnswer \/ SqAsk \/ SqWatchTick \/ SqFlushAll PROVE FALSE
  <2>1. ~SqAnswerKey BY <1>2 DEF SqAnswerKey, SqAlone
  <2>2. ~SqAnswer
    <3>1. SqAnswer => Head(sqUp).kind = "answer" /\ Head(sqUp) \in SqUpGood(sqMay)
      <4>1. SqAnswer => SqTakes("answer") BY DEF SqAnswer
      <4> QED BY <1>2, <4>1, TookOne DEF SqAlone
    <3> QED BY <3>1, <1>1 DEF SqUpGood
  <2>3. ~SqAsk BY <1>1 DEF SqAsk
  <2>4. ~SqWatchTick /\ ~SqFlushAll BY <1>1 DEF SqWatchTick, SqFlushAll, SqBase, SqQuiet
  <2> QED BY <1>7, <2>1, <2>2, <2>3, <2>4
<1>8. ASSUME NEW e \in SqEvents, SqEvent(e) PROVE FALSE BY <1>1, <1>8 DEF SqEvent
<1>9. ASSUME NEW k \in SqTurns, SqTurnStep(k) \/ SqFail(k) PROVE SqStill'
  <2>1. k = "ws"
    BY <1>2, <1>9 DEF SqTurnStep, SqFail, SqDrain, SqCommit, SqStopped, SqFinish, SqTurns, SqAlone
  <2>2. CASE SqStopped("ws")
    <3>1. "stop" \in sqMay BY <2>2 DEF SqStopped, SqBase, SqQuiet
    <3> QED BY <1>2, <2>2, <3>1, StoppedStill
  <2>3. CASE ~SqStopped("ws")
    BY <1>2, <1>9, <2>1, <2>3, DrainStill, CommitStill, FailStill, FinishStill DEF SqTurnStep
  <2> QED BY <2>2, <2>3
<1>10. CASE UNCHANGED sqVars
  <2>1. /\ UNCHANGED <<sqDraft, sqQueue, sqTaken, sqView, sqUp, sqDown, sqStash, sqInflight, sqAt,
                       sqGot, sqCarry, sqRunning, sqThread, sqTwice>>
    BY <1>10 DEF sqVars, sqWindow, sqTurn, sqHistory
  <2>2. (SqWorks' <=> SqWorks) /\ SqWritten' = SqWritten BY <2>1 DEF SqWorks, SqWritten
  <2>3. /\ SqToken' /\ SqUpOrder' /\ SqDownOrder' /\ SqToldInTime'
        /\ \A c : SqSent(c)' = SqSent(c)
        /\ \A c : SqTold(c)' = SqTold(c)
    BY <1>2, <2>1, <2>2, TurnQuiet
  <2>4. SqApart' /\ SqFresh' BY <1>2, <2>1, <2>2, <2>3, LessStill
  <2>5. SqHands' /\ SqOnce' BY <1>2, <2>1 DEF SqAlone, SqHands, SqOnce
  <2> QED BY <2>3, <2>4, <2>5 DEF SqStill
<1> QED BY <1>4, <1>5, <1>6, <1>7, <1>8, <1>9, <1>10 DEF SqNext, SqUserStep, SqFrames

\* Where no question is parked, no wake turn runs and no message comes late, no
\* message is put into the thread twice: the stash and the window's queue hold
\* the same one (ws.py's steer branch, steer.ts), and one of them lets it go.
THEOREM OnceUnasked == SqSpec => []SqOnceUnasked
<1> DEFINE Inv == SqBase /\ SqSingle
<1>1. SqInit => Inv
  <2> SUFFICES ASSUME SqInit PROVE SqStill BY SqBaseInit DEF SqSingle, SqStill
  <2>1. /\ sqDraft = SqUser /\ sqQueue = <<>> /\ sqTaken = {} /\ sqUp = <<>> /\ sqDown = <<>>
        /\ sqStash = {} /\ sqInflight = {} /\ sqAt["ws"] = "off" /\ sqGot["ws"] = {}
        /\ sqCarry = SqNone /\ sqRunning = SqNone /\ sqThread = {} /\ sqTwice = {}
    BY DEF SqInit, SqTurns
  <2>2. SqRange(sqQueue) = {} /\ SqRange(sqUp) = {} /\ SqRange(sqDown) = {} BY <2>1 DEF SqRange
  <2>3. \A c : SqSent(c) = {} /\ SqTold(c) = {} BY <2>2 DEF SqSent, SqTold, SqOf
  <2>4. ~SqInvoking /\ ~SqOver /\ ~SqWorks /\ SqWritten = {}
    BY <2>1, <2>2 DEF SqInvoking, SqOver, SqWorks, SqWritten
  <2>5. SqToken BY <2>4 DEF SqToken
  <2>6. SqUpOrder /\ SqDownOrder /\ SqToldInTime BY <2>1 DEF SqUpOrder, SqDownOrder, SqToldInTime
  <2>7. SqApart BY <2>1, <2>2, <2>3 DEF SqApart
  <2>8. SqFresh BY <2>1, <2>2, <2>3, <2>4 DEF SqFresh
  <2>9. SqHands /\ SqOnce BY <2>1 DEF SqHands, SqOnce
  <2> QED BY <2>5, <2>6, <2>7, <2>8, <2>9 DEF SqStill
<1>2. Inv /\ [SqNext]_sqVars => Inv' BY SqBaseKept, SqSingleStays
<1>3. Inv => SqOnceUnasked BY DEF SqSingle, SqOnceUnasked
<1> QED BY <1>1, <1>2, <1>3, PTL DEF SqSpec
=============================================================================
