-------------------------- MODULE HookChainProofs --------------------------
(***************************************************************************)
(* That a hook's failure never fails the event, and that where every hook  *)
(* answers within its time, and session.end within its cap, nothing runs   *)
(* twice, the event settles last, no next is left unanswered and no answer *)
(* is caught between the look at a cell and the listening, for every       *)
(* number of hooks and mods.                                               *)
(*                                                                         *)
(* The runs are nested: what has started is a prefix of the hooks, and     *)
(* only the last of them that has not returned can still start the one     *)
(* beneath.  A runner can ask for that as long as it holds a token: the    *)
(* event frame of the hook, the hook itself before its call of next, or    *)
(* the next frame.  There is one token at most, and while there is one the *)
(* hub's Active entry of the mod names its hook.  The order of the frames  *)
(* in a pipe is what makes a token end with the hook's answer.             *)
(***************************************************************************)
EXTENDS HookChain, TLAPS

HcResults == {"ok", "err"}
HcPcs == {"off", "loop", "broke", "await", "deaf", "listen", "catch", "below", "ret"}
HcWhys == {"none", "answered", "refused", "throw", "core", "nocatch", "dead", "timeout"}
HcToBroker ==
    [kind : {"next"}, of : HcHook] \cup [kind : {"dead"}]
    \cup [kind : {"answer", "caught"}, of : HcHook,
          res : {"answered", "throw", "core", "nocatch"}]
HcToRunner ==
    [kind : {"event", "timeout", "catch"}, of : HcHook]
    \cup [kind : {"result"}, of : HcHook, res : HcResults]

HcTyped ==
    /\ hcOwner \in [HcHook -> HcMods]
    /\ hcPc \in [HcHook -> HcPcs]
    /\ hcWhy \in [HcHook -> HcWhys]
    /\ hcCell \in [HcHook -> {"off", "run", "back"} \cup HcResults]
    /\ hcTold \subseteq HcHook /\ hcPend \subseteq HcHook \X HcHook
    /\ hcActive \in [HcMods -> HcHook \cup {0}]
    /\ hcRuns \in [1..HcCore -> 0..2]
    /\ hcRes \in [1..HcCore -> HcResults \cup {"none"}]
    /\ hcIn \in [HcMods -> Seq(HcToRunner)] /\ hcOut \in [HcMods -> Seq(HcToBroker)]
    /\ hcAlive \subseteq HcMods
    /\ hcCtx \in [HcHook -> {"none", "busy", "finishing", "failed", "catching", "settled"}]
    /\ hcNext \in [HcHook -> {"no", "pending"} \cup HcResults]
    /\ hcFor \in [HcHook -> HcHook]

\* a failure is the engine's wherever it is kept; a run that is back returned
HcBlamed ==
    /\ \A k \in 1..HcCore : hcRes[k] = "err" => hcRes[HcCore] = "err"
    /\ \A h \in HcHook : hcCell[h] = "err" => hcRes[HcCore] = "err"
    /\ \A h \in HcHook : hcCell[h] = "back" => hcRes[h + 1] # "none"

\* the frames of hook g in a pipe
HcHas(s, kind, g) == \E i \in 1..Len(s) : s[i].kind = kind /\ s[i].of = g
HcOnce(s, kind, g) ==
    \A i, j \in 1..Len(s) :
        /\ s[i].kind = kind /\ s[i].of = g
        /\ s[j].kind = kind /\ s[j].of = g
        => i = j
HcNextFirst(s, g) ==
    \A i, j \in 1..Len(s) :
        /\ s[i].kind = "answer" /\ s[i].of = g
        /\ s[j].kind = "next" /\ s[j].of = g
        => j < i
HcHasAnswer(s, g) ==
    \E i \in 1..Len(s) : s[i].kind = "answer" /\ s[i].of = g /\ s[i].res = "answered"
HcHasDead(s) == \E i \in 1..Len(s) : s[i].kind = "dead"
HcDeadLast(s) == \A i \in 1..Len(s) : s[i].kind = "dead" => i = Len(s)
-----------------------------------------------------------------------------
(* What a frame that is sent, and one that is read, changes of these.      *)

\* What a frame added to a pipe changes.
LEMMA HcAppended ==
    ASSUME NEW F, NEW s \in Seq(F), NEW e \in F
    PROVE  /\ Append(s, e) \in Seq(F)
           /\ \A kind, g : HcHas(Append(s, e), kind, g)
                             <=> HcHas(s, kind, g) \/ (e.kind = kind /\ e.of = g)
           /\ \A g : HcHasAnswer(Append(s, e), g)
                       <=> HcHasAnswer(s, g)
                           \/ (e.kind = "answer" /\ e.of = g /\ e.res = "answered")
           /\ HcHasDead(Append(s, e)) <=> HcHasDead(s) \/ e.kind = "dead"
  <1> DEFINE t == Append(s, e)
  <1>1. /\ t \in Seq(F) /\ Len(t) = Len(s) + 1 /\ Len(s) \in Nat
        /\ \A i \in 1..Len(s) : t[i] = s[i]
        /\ t[Len(s) + 1] = e
    OBVIOUS
  <1>2. 1..Len(t) = (1..Len(s)) \cup {Len(s) + 1}
    BY <1>1
  <1> HIDE DEF t
  <1>3. ASSUME NEW kind, NEW g
        PROVE HcHas(t, kind, g) <=> HcHas(s, kind, g) \/ (e.kind = kind /\ e.of = g)
    BY <1>1, <1>2 DEF HcHas
  <1>4. ASSUME NEW g
        PROVE HcHasAnswer(t, g) <=> HcHasAnswer(s, g)
                  \/ (e.kind = "answer" /\ e.of = g /\ e.res = "answered")
    BY <1>1, <1>2 DEF HcHasAnswer
  <1>5. HcHasDead(t) <=> HcHasDead(s) \/ e.kind = "dead"
    BY <1>1, <1>2 DEF HcHasDead
  <1> QED BY <1>1, <1>3, <1>4, <1>5 DEF t

\* What it leaves alone: no second frame of a kind, no next after an answer,
\* nothing after the death.
LEMMA HcAppendedOrder ==
    ASSUME NEW F, NEW s \in Seq(F), NEW e \in F
    PROVE  /\ \A kind, g : HcOnce(s, kind, g) /\ ~(HcHas(s, kind, g) /\ e.kind = kind /\ e.of = g)
                             => HcOnce(Append(s, e), kind, g)
           /\ \A g : HcNextFirst(s, g) /\ ~(HcHas(s, "answer", g) /\ e.kind = "next" /\ e.of = g)
                       => HcNextFirst(Append(s, e), g)
           /\ ~HcHasDead(s) => HcDeadLast(Append(s, e))
  <1> DEFINE t == Append(s, e)
  <1>1. /\ Len(t) = Len(s) + 1 /\ Len(s) \in Nat
        /\ \A i \in 1..Len(s) : t[i] = s[i]
        /\ t[Len(s) + 1] = e
    OBVIOUS
  <1>2. 1..Len(t) = (1..Len(s)) \cup {Len(s) + 1}
    BY <1>1
  <1> HIDE DEF t
  <1>3. ASSUME NEW kind, NEW g,
               HcOnce(s, kind, g), ~(HcHas(s, kind, g) /\ e.kind = kind /\ e.of = g)
        PROVE HcOnce(t, kind, g)
    BY <1>1, <1>2, <1>3 DEF HcOnce, HcHas
  <1>4. ASSUME NEW g, HcNextFirst(s, g), ~(HcHas(s, "answer", g) /\ e.kind = "next" /\ e.of = g)
        PROVE HcNextFirst(t, g)
    BY <1>1, <1>2, <1>4 DEF HcNextFirst, HcHas
  <1>5. ASSUME ~HcHasDead(s) PROVE HcDeadLast(t)
    BY <1>1, <1>2, <1>5 DEF HcHasDead, HcDeadLast
  <1> QED BY <1>3, <1>4, <1>5 DEF t

\* What a frame taken from a pipe changes.
LEMMA HcTaken ==
    ASSUME NEW F, NEW s \in Seq(F), s # <<>>
    PROVE  /\ Tail(s) \in Seq(F) /\ Head(s) \in F
           /\ \A kind, g : HcHas(s, kind, g)
                <=> HcHas(Tail(s), kind, g) \/ (Head(s).kind = kind /\ Head(s).of = g)
           /\ \A g : HcHasAnswer(s, g)
                <=> HcHasAnswer(Tail(s), g)
                    \/ (Head(s).kind = "answer" /\ Head(s).of = g /\ Head(s).res = "answered")
           /\ HcHasDead(s) <=> HcHasDead(Tail(s)) \/ Head(s).kind = "dead"
  <1> DEFINE t == Tail(s)
  <1>1. /\ t \in Seq(F) /\ Len(s) \in Nat \ {0} /\ Len(t) = Len(s) - 1 /\ Len(t) \in Nat
        /\ \A i \in 1..Len(t) : t[i] = s[i + 1]
        /\ s[1] = Head(s) /\ Head(s) \in F
    OBVIOUS
  <1>2. \A i \in 1..Len(s) : i = 1 \/ (i - 1 \in 1..Len(t) /\ s[i] = t[i - 1])
    BY <1>1
  <1>3. 1 \in 1..Len(s) /\ \A i \in 1..Len(t) : i + 1 \in 1..Len(s)
    BY <1>1
  <1> HIDE DEF t
  <1>4. ASSUME NEW kind, NEW g
        PROVE HcHas(s, kind, g) <=> HcHas(t, kind, g) \/ (Head(s).kind = kind /\ Head(s).of = g)
    BY <1>1, <1>2, <1>3 DEF HcHas
  <1>5. ASSUME NEW g
        PROVE HcHasAnswer(s, g) <=> HcHasAnswer(t, g)
                \/ (Head(s).kind = "answer" /\ Head(s).of = g /\ Head(s).res = "answered")
    BY <1>1, <1>2, <1>3 DEF HcHasAnswer
  <1>6. HcHasDead(s) <=> HcHasDead(t) \/ Head(s).kind = "dead"
    BY <1>1, <1>2, <1>3 DEF HcHasDead
  <1> QED BY <1>1, <1>4, <1>5, <1>6 DEF t

\* What it leaves alone.  A frame there was once is gone, behind an answer is
\* no next, and the death is the last frame.
LEMMA HcTakenOrder ==
    ASSUME NEW F, NEW s \in Seq(F), s # <<>>
    PROVE  /\ \A kind, g : HcOnce(s, kind, g)
                => /\ HcOnce(Tail(s), kind, g)
                   /\ Head(s).kind = kind /\ Head(s).of = g => ~HcHas(Tail(s), kind, g)
           /\ \A g : HcNextFirst(s, g)
                => /\ HcNextFirst(Tail(s), g)
                   /\ Head(s).kind = "answer" /\ Head(s).of = g => ~HcHas(Tail(s), "next", g)
           /\ HcDeadLast(s)
                => /\ HcDeadLast(Tail(s))
                   /\ Head(s).kind = "dead" => Tail(s) = <<>>
  <1> DEFINE t == Tail(s)
  <1>1. /\ Len(s) \in Nat \ {0} /\ Len(t) = Len(s) - 1 /\ Len(t) \in Nat
        /\ \A i \in 1..Len(t) : t[i] = s[i + 1]
        /\ s[1] = Head(s)
    OBVIOUS
  <1>2. 1 \in 1..Len(s) /\ \A i \in 1..Len(t) : i + 1 \in 1..Len(s) /\ i + 1 # 1
    BY <1>1
  <1> HIDE DEF t
  <1>3. ASSUME NEW kind, NEW g, HcOnce(s, kind, g)
        PROVE HcOnce(t, kind, g) /\ (Head(s).kind = kind /\ Head(s).of = g => ~HcHas(t, kind, g))
    <2>1. HcOnce(t, kind, g)
      <3> SUFFICES ASSUME NEW i \in 1..Len(t), NEW j \in 1..Len(t),
                          t[i].kind = kind, t[i].of = g, t[j].kind = kind, t[j].of = g
                   PROVE i = j
        BY DEF HcOnce
      <3>1. i + 1 = j + 1
        BY <1>1, <1>2, <1>3 DEF HcOnce
      <3> QED BY <3>1, <1>1
    <2>2. ASSUME Head(s).kind = kind, Head(s).of = g PROVE ~HcHas(t, kind, g)
      BY <1>1, <1>2, <1>3, <2>2 DEF HcOnce, HcHas
    <2> QED BY <2>1, <2>2
  <1>4. ASSUME NEW g, HcNextFirst(s, g)
        PROVE /\ HcNextFirst(t, g)
              /\ Head(s).kind = "answer" /\ Head(s).of = g => ~HcHas(t, "next", g)
    <2>1. HcNextFirst(t, g)
      <3> SUFFICES ASSUME NEW i \in 1..Len(t), NEW j \in 1..Len(t),
                          t[i].kind = "answer", t[i].of = g, t[j].kind = "next", t[j].of = g
                   PROVE j < i
        BY DEF HcNextFirst
      <3>1. j + 1 < i + 1
        BY <1>1, <1>2, <1>4 DEF HcNextFirst
      <3> QED BY <3>1, <1>1
    <2>2. ASSUME Head(s).kind = "answer", Head(s).of = g, HcHas(t, "next", g) PROVE FALSE
      <3>1. PICK j \in 1..Len(t) : t[j].kind = "next" /\ t[j].of = g
        BY <2>2 DEF HcHas
      <3>2. s[1].kind = "answer" /\ s[1].of = g /\ s[j + 1].kind = "next" /\ s[j + 1].of = g
        BY <1>1, <2>2, <3>1
      <3>3. j + 1 < 1
        BY <1>2, <1>4, <3>2 DEF HcNextFirst
      <3> QED BY <3>3, <1>1
    <2> QED BY <2>1, <2>2
  <1>5. ASSUME HcDeadLast(s) PROVE HcDeadLast(t) /\ (Head(s).kind = "dead" => t = <<>>)
    <2>1. t \in Seq(F)
      BY DEF t
    <2>2. Head(s).kind = "dead" => Len(t) = 0
      BY <1>1, <1>2, <1>5 DEF HcDeadLast
    <2>3. HcDeadLast(t)
      BY <1>1, <1>2, <1>5 DEF HcDeadLast
    <2> QED BY <2>1, <2>2, <2>3
  <1> QED BY <1>3, <1>4, <1>5 DEF t
-----------------------------------------------------------------------------
(* Types.                                                                  *)

\* The hooks and the core, counted.
LEMMA HcNumbered ==
    /\ HcHooks \in Nat \ {0} /\ HcCore \in Nat /\ HcCore \notin HcHook
    /\ 1 \in HcHook /\ 0 \notin HcHook
    /\ HcHook \subseteq 1..HcCore /\ HcCore \in 1..HcCore
    /\ 1..HcCore = HcHook \cup {HcCore}
    /\ \A h \in HcHook : h + 1 \in 1..HcCore /\ h \in Nat
  BY HcNumbers DEF HcHook, HcCore

\* The fields of a frame.
LEMMA HcFrameFields ==
    /\ \A f \in HcToBroker :
         /\ f.kind \in {"next", "dead", "answer", "caught"}
         /\ f.kind # "dead" => f.of \in HcHook
         /\ f.kind \in {"answer", "caught"} => f.res \in {"answered", "throw", "core", "nocatch"}
    /\ \A f \in HcToRunner :
         /\ f.of \in HcHook
         /\ f.kind \in {"event", "timeout", "catch", "result"}
         /\ f.kind = "result" => f.res \in HcResults
  BY DEF HcToBroker, HcToRunner

\* What a frame sent to a mod's runner changes: nothing if the runner is dead.
LEMMA HcSentOne ==
    ASSUME NEW in \in [HcMods -> Seq(HcToRunner)], NEW m \in HcMods, NEW e \in HcToRunner
    PROVE  /\ HcSent(in, m, <<e>>) \in [HcMods -> Seq(HcToRunner)]
           /\ \A x \in HcMods :
                HcSent(in, m, <<e>>)[x] = IF x = m /\ m \in hcAlive THEN Append(in[x], e) ELSE in[x]
           /\ HcSent(in, m, <<>>) = in
  <1>1. in[m] \in Seq(HcToRunner)
    OBVIOUS
  <1>2. in[m] \o <<e>> = Append(in[m], e) /\ Append(in[m], e) \in Seq(HcToRunner)
        /\ in[m] \o <<>> = in[m]
    BY <1>1
  <1>3. HcSent(in, m, <<e>>) = [in EXCEPT ![m] = IF m \in hcAlive THEN Append(in[m], e) ELSE in[m]]
    BY <1>2 DEF HcSent
  <1>4. HcSent(in, m, <<>>) = in
    BY <1>2 DEF HcSent
  <1> QED BY <1>2, <1>3, <1>4

\* The same for each kind of frame, as facts about the frames in the pipes.
LEMMA HcSentHas ==
    ASSUME NEW in \in [HcMods -> Seq(HcToRunner)], NEW m \in HcMods, NEW e \in HcToRunner,
           NEW x \in HcMods
    PROVE  /\ \A kind, g : HcHas(HcSent(in, m, <<e>>)[x], kind, g)
                <=> \/ HcHas(in[x], kind, g)
                    \/ x = m /\ m \in hcAlive /\ e.kind = kind /\ e.of = g
           /\ \A kind, g : HcOnce(in[x], kind, g)
                           /\ ~(x = m /\ HcHas(in[x], kind, g) /\ e.kind = kind /\ e.of = g)
                             => HcOnce(HcSent(in, m, <<e>>)[x], kind, g)
  <1>1. in[x] \in Seq(HcToRunner)
    OBVIOUS
  <1>2. CASE x = m /\ m \in hcAlive
    <2>1. HcSent(in, m, <<e>>)[x] = Append(in[x], e)
      BY <1>2, HcSentOne
    <2>2. \A kind, g : HcHas(Append(in[x], e), kind, g)
                         <=> HcHas(in[x], kind, g) \/ (e.kind = kind /\ e.of = g)
      BY <1>1, HcAppended
    <2>3. \A kind, g : HcOnce(in[x], kind, g)
                         /\ ~(HcHas(in[x], kind, g) /\ e.kind = kind /\ e.of = g)
                           => HcOnce(Append(in[x], e), kind, g)
      BY <1>1, HcAppendedOrder
    <2> QED BY <1>2, <2>1, <2>2, <2>3
  <1>3. CASE ~(x = m /\ m \in hcAlive)
    <2>1. HcSent(in, m, <<e>>)[x] = in[x]
      BY <1>3, HcSentOne
    <2> QED BY <1>3, <2>1
  <1> QED BY <1>2, <1>3

\* Initially the event frame of the first hook is on its way.
LEMMA HcInitTyped == HcInit => HcTyped /\ HcBlamed
  <1> SUFFICES ASSUME HcInit PROVE HcTyped /\ HcBlamed
    OBVIOUS
  <1>1. hcOwner \in [HcHook -> HcMods]
    BY HcNumbers DEF HcInit
  <1>2. [kind |-> "event", of |-> 1] \in HcToRunner
    BY HcNumbered DEF HcToRunner
  <1>3. hcIn \in [HcMods -> Seq(HcToRunner)] /\ hcOut \in [HcMods -> Seq(HcToBroker)]
    BY <1>2 DEF HcInit
  <1>4. HcTyped
    BY <1>1, <1>3, HcNumbered DEF HcInit, HcTyped, HcResults, HcPcs, HcWhys
  <1>5. HcBlamed
    BY HcNumbered DEF HcInit, HcBlamed
  <1> QED BY <1>4, <1>5

\* A run that starts is counted, and the core returns.
LEMMA HcRunFromTyped ==
    ASSUME HcTyped, HcBlamed, NEW k \in 1..HcCore, HcRunFrom(k)
    PROVE  /\ hcRuns' \in [1..HcCore -> 0..2]
           /\ hcRes' \in [1..HcCore -> HcResults \cup {"none"}]
           /\ \A j \in 1..HcCore : hcRes'[j] = "err" => hcRes'[HcCore] = "err"
           /\ hcRes[HcCore] = "err" => hcRes'[HcCore] = "err"
           /\ \A j \in 1..HcCore : hcRes[j] # "none" => hcRes'[j] # "none"
  <1>1. hcRuns' \in [1..HcCore -> 0..2]
    BY DEF HcRunFrom, HcTyped
  <1>2. CASE k = HcCore /\ hcRes[k] = "none"
    <2>1. PICK r \in HcResults : hcRes' = [hcRes EXCEPT ![k] = r]
      BY <1>2 DEF HcRunFrom, HcResults
    <2> QED BY <1>1, <1>2, <2>1, HcNumbered DEF HcTyped, HcBlamed
  <1>3. CASE ~(k = HcCore /\ hcRes[k] = "none")
    <2>1. hcRes' = hcRes
      BY <1>3 DEF HcRunFrom
    <2> QED BY <1>1, <2>1 DEF HcTyped, HcBlamed
  <1> QED BY <1>2, <1>3

\* A run that begins gets an Active entry and its event frame.
LEMMA HcBeginTyped ==
    ASSUME HcTyped, NEW k \in 1..HcCore, NEW pc, NEW in, HcBegin(k, pc, in),
           pc \in [HcHook -> HcPcs],
           in \in [HcMods -> Seq(HcToRunner)]
    PROVE  /\ hcPc' \in [HcHook -> HcPcs]
           /\ hcActive' \in [HcMods -> HcHook \cup {0}]
           /\ hcIn' \in [HcMods -> Seq(HcToRunner)]
  <1>1. CASE HcStarts(k)
    <2>1. k \in HcHook /\ hcOwner[k] \in HcMods
      BY <1>1 DEF HcStarts, HcTyped
    <2>2. [kind |-> "event", of |-> k] \in HcToRunner
      BY <2>1 DEF HcToRunner
    <2>3. hcIn' \in [HcMods -> Seq(HcToRunner)]
      BY <1>1, <2>1, <2>2, HcSentOne DEF HcBegin
    <2> QED BY <1>1, <2>1, <2>3 DEF HcBegin, HcTyped, HcPcs
  <1>2. CASE ~HcStarts(k)
    BY <1>2 DEF HcBegin, HcTyped
  <1> QED BY <1>1, <1>2

HcSound == HcTyped /\ HcBlamed

\* A verdict breaks a loop, runs what is beneath, or ends the run.
LEMMA HcVerdictSound ==
    ASSUME HcSound, NEW h \in HcHook, NEW why \in HcWhys, NEW in, HcVerdict(h, why, in),
           in \in [HcMods -> Seq(HcToRunner)],
           hcOwner' = hcOwner, hcAlive' = hcAlive, hcCtx' = hcCtx, hcNext' = hcNext,
           hcFor' = hcFor, hcOut' \in [HcMods -> Seq(HcToBroker)]
    PROVE  HcSound'
  <1> USE DEF HcSound
  <1>0. hcWhy' \in [HcHook -> HcWhys] /\ hcCell' = hcCell /\ hcTold' = hcTold /\ hcPend' = hcPend
    BY DEF HcVerdict, HcTyped
  <1>1. CASE hcPc[h] = "loop"
    <2>1. /\ hcPc' = [hcPc EXCEPT ![h] = "broke"] /\ hcIn' = in
          /\ hcActive' = hcActive /\ hcRuns' = hcRuns /\ hcRes' = hcRes
      BY <1>1 DEF HcVerdict, HcPcTo
    <2> QED BY <1>0, <2>1 DEF HcTyped, HcBlamed, HcPcs
  <1>2. CASE hcPc[h] # "loop" /\ why # "answered" /\ HcUnrun(h)
    <2>1. HcRunFrom(h + 1) /\ HcBegin(h + 1, [hcPc EXCEPT ![h] = "below"], in)
      BY <1>2 DEF HcVerdict
    <2>2. h + 1 \in 1..HcCore
      BY HcNumbered
    <2>3. [hcPc EXCEPT ![h] = "below"] \in [HcHook -> HcPcs]
      BY DEF HcTyped, HcPcs
    <2>4. /\ hcPc' \in [HcHook -> HcPcs] /\ hcActive' \in [HcMods -> HcHook \cup {0}]
          /\ hcIn' \in [HcMods -> Seq(HcToRunner)]
      BY <2>1, <2>2, <2>3, HcBeginTyped
    <2>5. /\ hcRuns' \in [1..HcCore -> 0..2]
          /\ hcRes' \in [1..HcCore -> HcResults \cup {"none"}]
          /\ \A j \in 1..HcCore : hcRes'[j] = "err" => hcRes'[HcCore] = "err"
          /\ hcRes[HcCore] = "err" => hcRes'[HcCore] = "err"
          /\ \A j \in 1..HcCore : hcRes[j] # "none" => hcRes'[j] # "none"
      BY <2>1, <2>2, HcRunFromTyped
    <2> QED BY <1>0, <2>4, <2>5, HcNumbered DEF HcTyped, HcBlamed
  <1>3. CASE hcPc[h] # "loop" /\ ~(why # "answered" /\ HcUnrun(h))
    <2>1. /\ hcPc' = [hcPc EXCEPT ![h] = "ret"]
          /\ hcActive' = [hcActive EXCEPT ![hcOwner[h]] = 0]
          /\ hcIn' = in /\ hcRuns' = hcRuns
          /\ hcRes' = [hcRes EXCEPT ![h] = IF why = "answered" THEN "ok" ELSE hcCell[h]]
      BY <1>3 DEF HcVerdict, HcReturn
    <2>2. why # "answered" => hcCell[h] \in HcResults
      BY <1>3 DEF HcUnrun, HcCached, HcResults
    <2>3. h \in 1..HcCore /\ h # HcCore
      BY HcNumbered
    <2>4. hcRes' \in [1..HcCore -> HcResults \cup {"none"}]
      BY <2>1, <2>2, <2>3 DEF HcTyped, HcResults
    <2>5. HcBlamed'
      BY <1>0, <2>1, <2>2, <2>3, HcNumbered DEF HcTyped, HcBlamed, HcResults
    <2> QED BY <1>0, <2>1, <2>4, <2>5 DEF HcTyped, HcPcs
  <1> QED BY <1>1, <1>2, <1>3

\* Reading a frame leaves the pipe a pipe.
LEMMA HcTakeTyped ==
    ASSUME HcTyped, NEW m, HcTake(m)
    PROVE  /\ m \in HcMods /\ hcOut[m] \in Seq(HcToBroker) /\ hcOut[m] # <<>>
           /\ hcOut' \in [HcMods -> Seq(HcToBroker)]
           /\ Head(hcOut[m]) \in HcToBroker
           /\ \A x \in HcMods : hcOut'[x] = IF x = m THEN Tail(hcOut[m]) ELSE hcOut[x]
  <1>1. m \in HcMods /\ hcOut[m] \in Seq(HcToBroker) /\ hcOut[m] # <<>>
    BY DEF HcTake, HcTyped
  <1>2. Tail(hcOut[m]) \in Seq(HcToBroker) /\ Head(hcOut[m]) \in HcToBroker
    BY <1>1
  <1> QED BY <1>1, <1>2 DEF HcTake, HcTyped

\* A next frame gets the cached result, or joins the run beneath.
LEMMA HcReadNextSound ==
    ASSUME HcSound, NEW m \in HcMods, HcReadNext(m)
    PROVE  HcSound'
  <1> USE DEF HcSound
  <1> DEFINE g == Head(hcOut[m]).of
             h == hcActive[m]
  <1>0. /\ HcTake(m) /\ g \in HcHook /\ hcOut' \in [HcMods -> Seq(HcToBroker)]
        /\ hcOwner' = hcOwner /\ hcAlive' = hcAlive /\ hcCtx' = hcCtx /\ hcNext' = hcNext
        /\ hcFor' = hcFor
    <2>1. HcTake(m) /\ Head(hcOut[m]).kind = "next" /\ HcBrokerOnly
      BY DEF HcReadNext
    <2>2. Head(hcOut[m]) \in HcToBroker /\ hcOut' \in [HcMods -> Seq(HcToBroker)]
      BY <2>1, HcTakeTyped
    <2> QED BY <2>1, <2>2, HcFrameFields DEF HcBrokerOnly, hcRunner
  <1>1. CASE h = 0 \/ (h # 0 /\ ~HcLoops(h))
    <2>1. UNCHANGED <<hcBroker, hcIn>>
      BY <1>1 DEF HcReadNext
    <2> QED BY <1>0, <2>1 DEF HcTyped, HcBlamed, hcBroker
  <1>2. CASE h # 0 /\ HcLoops(h)
    <2>0. h \in HcHook /\ h + 1 \in 1..HcCore
      BY <1>2, HcNumbered DEF HcTyped
    <2>1. CASE HcCached(h)
      <3>1. /\ UNCHANGED hcBroker
            /\ hcIn' = HcSent(hcIn, m, <<[kind |-> "result", of |-> g, res |-> hcCell[h]]>>)
        BY <1>2, <2>1 DEF HcReadNext, HcTo
      <3>2. [kind |-> "result", of |-> g, res |-> hcCell[h]] \in HcToRunner
        BY <1>0, <2>1 DEF HcToRunner, HcCached, HcResults
      <3>3. hcIn' \in [HcMods -> Seq(HcToRunner)]
        BY <3>1, <3>2, HcSentOne DEF HcTyped
      <3> QED BY <1>0, <3>1, <3>3 DEF HcTyped, HcBlamed, hcBroker
    <2>4. CASE HcRefused(m, g) /\ UNCHANGED hcBroker
      <3>1. [kind |-> "result", of |-> g, res |-> "err"] \in HcToRunner
        BY <1>0 DEF HcToRunner, HcResults
      <3>2. hcIn' \in [HcMods -> Seq(HcToRunner)]
        BY <2>4, <3>1, HcSentOne DEF HcTyped, HcRefused, HcTo
      <3> QED BY <1>0, <2>4, <3>2 DEF HcTyped, HcBlamed, hcBroker
    <2>2. CASE ~HcCached(h) /\ hcCell[h] = "off" /\ ~(HcRefused(m, g) /\ UNCHANGED hcBroker)
      <3>1. /\ hcPend' = hcPend \cup {<<h, g>>} /\ hcCell' = [hcCell EXCEPT ![h] = "run"]
            /\ HcRunFrom(h + 1) /\ HcBegin(h + 1, hcPc, hcIn)
            /\ hcWhy' = hcWhy /\ hcTold' = hcTold
        BY <1>2, <2>2 DEF HcReadNext, HcJoined
      <3>2. /\ hcPc' \in [HcHook -> HcPcs] /\ hcActive' \in [HcMods -> HcHook \cup {0}]
            /\ hcIn' \in [HcMods -> Seq(HcToRunner)]
        BY <2>0, <3>1, HcBeginTyped DEF HcTyped
      <3>3. /\ hcRuns' \in [1..HcCore -> 0..2]
            /\ hcRes' \in [1..HcCore -> HcResults \cup {"none"}]
            /\ \A j \in 1..HcCore : hcRes'[j] = "err" => hcRes'[HcCore] = "err"
            /\ hcRes[HcCore] = "err" => hcRes'[HcCore] = "err"
            /\ \A j \in 1..HcCore : hcRes[j] # "none" => hcRes'[j] # "none"
        BY <2>0, <3>1, HcRunFromTyped
      <3>4. hcPend' \subseteq HcHook \X HcHook
        BY <1>0, <2>0, <3>1 DEF HcTyped
      <3>5. hcCell' \in [HcHook -> {"off", "run", "back"} \cup HcResults]
        BY <2>0, <3>1 DEF HcTyped
      <3>6. \A x \in HcHook : hcCell'[x] = "err" => hcCell[x] = "err"
        BY <2>0, <3>1 DEF HcTyped
      <3>7. \A x \in HcHook : hcCell'[x] = "back" => hcCell[x] = "back" /\ x + 1 \in 1..HcCore
        BY <2>0, <3>1, HcNumbered DEF HcTyped
      <3>8. HcTyped'
        BY <1>0, <3>1, <3>2, <3>3, <3>4, <3>5 DEF HcTyped
      <3>9. HcBlamed'
        BY <3>3, <3>6, <3>7 DEF HcBlamed
      <3> QED BY <3>8, <3>9
    <2>3. CASE ~HcCached(h) /\ hcCell[h] # "off"
      <3>1. /\ hcPend' = hcPend \cup {<<h, g>>} /\ hcWhy' = hcWhy /\ hcTold' = hcTold
            /\ UNCHANGED <<hcCell, hcPc, hcActive, hcRuns, hcRes, hcIn>>
        BY <1>2, <2>3 DEF HcReadNext, HcJoined, HcRefuses
      <3>2. HcTyped'
        BY <1>0, <2>0, <3>1 DEF HcTyped
      <3>3. HcBlamed'
        BY <3>1 DEF HcBlamed
      <3> QED BY <3>2, <3>3
    <2> QED BY <2>1, <2>2, <2>3, <2>4
  <1> QED BY <1>1, <1>2

\* A reply is for the loop that waits for it; what has no valid shape is a
\* failure.
LEMMA HcReadReplySound ==
    ASSUME HcSound, NEW m \in HcMods, HcReadReply(m)
    PROVE  HcSound'
  <1> USE DEF HcSound
  <1> DEFINE f == Head(hcOut[m])
  <1>0. /\ f.of \in HcHook /\ f.res \in {"answered", "throw", "core", "nocatch"}
        /\ hcOut' \in [HcMods -> Seq(HcToBroker)]
        /\ hcOwner' = hcOwner /\ hcAlive' = hcAlive /\ hcCtx' = hcCtx /\ hcNext' = hcNext
        /\ hcFor' = hcFor
    <2>1. HcTake(m) /\ f.kind \in {"answer", "caught"} /\ HcBrokerOnly
      BY DEF HcReadReply
    <2>2. f \in HcToBroker /\ hcOut' \in [HcMods -> Seq(HcToBroker)]
      BY <2>1, HcTakeTyped
    <2> QED BY <2>1, <2>2, HcFrameFields DEF HcBrokerOnly, hcRunner
  <1>1. CASE UNCHANGED <<hcBroker, hcIn>>
    BY <1>0, <1>1 DEF HcTyped, HcBlamed, hcBroker
  <1>2. CASE \E why \in HcClassified(f.res) : HcVerdict(f.of, why, hcIn)
    <2>1. PICK why \in HcClassified(f.res) : HcVerdict(f.of, why, hcIn)
      BY <1>2
    <2>2. why \in HcWhys
      BY <1>0 DEF HcClassified, HcWhys
    <2>3. hcIn \in [HcMods -> Seq(HcToRunner)]
      BY DEF HcTyped
    <2> QED BY <1>0, <2>1, <2>2, <2>3, HcVerdictSound
  <1> QED BY <1>1, <1>2 DEF HcReadReply

\* The death of a runner is a verdict on the hook its Active entry names.
LEMMA HcReadDeadSound ==
    ASSUME HcSound, NEW m \in HcMods, HcReadDead(m)
    PROVE  HcSound'
  <1> USE DEF HcSound
  <1>0. /\ hcOut' \in [HcMods -> Seq(HcToBroker)]
        /\ hcOwner' = hcOwner /\ hcAlive' = hcAlive /\ hcCtx' = hcCtx /\ hcNext' = hcNext
        /\ hcFor' = hcFor
    BY HcTakeTyped DEF HcReadDead, HcBrokerOnly, hcRunner
  <1>1. CASE UNCHANGED <<hcBroker, hcIn>>
    BY <1>0, <1>1 DEF HcTyped, HcBlamed, hcBroker
  <1>2. CASE hcActive[m] # 0 /\ HcVerdict(hcActive[m], "dead", hcIn)
    <2>1. hcActive[m] \in HcHook /\ hcIn \in [HcMods -> Seq(HcToRunner)] /\ "dead" \in HcWhys
      BY <1>2 DEF HcTyped, HcWhys
    <2> QED BY <1>0, <1>2, <2>1, HcVerdictSound
  <1> QED BY <1>1, <1>2 DEF HcReadDead

\* The budget of a loop expires.
LEMMA HcExpireSound ==
    ASSUME HcSound, NEW h \in HcHook, HcExpire(h)
    PROVE  HcSound'
  <1> USE DEF HcSound
  <1> DEFINE in == HcSent(hcIn, hcOwner[h], <<[kind |-> "timeout", of |-> h]>>)
  <1>1. hcOwner[h] \in HcMods /\ [kind |-> "timeout", of |-> h] \in HcToRunner
    BY DEF HcTyped, HcToRunner
  <1>2. in \in [HcMods -> Seq(HcToRunner)]
    BY <1>1, HcSentOne DEF HcTyped
  <1>3. HcVerdict(h, "timeout", in) /\ "timeout" \in HcWhys
    BY DEF HcExpire, HcWhys
  <1>4. /\ hcOut' \in [HcMods -> Seq(HcToBroker)]
        /\ hcOwner' = hcOwner /\ hcAlive' = hcAlive /\ hcCtx' = hcCtx /\ hcNext' = hcNext
        /\ hcFor' = hcFor
    BY DEF HcExpire, HcBrokerOnly, hcRunner, HcTyped
  <1> QED BY <1>2, <1>3, <1>4, HcVerdictSound

\* The cap of the chain is reached.
LEMMA HcCappedSound ==
    ASSUME HcSound, NEW h \in HcHook, HcCapped(h)
    PROVE  HcSound'
  <1> USE DEF HcSound
  <1>1. HcVerdict(h, "timeout", hcIn) /\ "timeout" \in HcWhys
    BY DEF HcCapped, HcWhys
  <1>2. /\ hcIn \in [HcMods -> Seq(HcToRunner)] /\ hcOut' \in [HcMods -> Seq(HcToBroker)]
        /\ hcOwner' = hcOwner /\ hcAlive' = hcAlive /\ hcCtx' = hcCtx /\ hcNext' = hcNext
        /\ hcFor' = hcFor
    BY DEF HcCapped, HcBrokerOnly, hcRunner, HcTyped
  <1> QED BY <1>1, <1>2, HcVerdictSound

\* After the loop: the run returns, or the handler is asked.
LEMMA HcConcludeSound ==
    ASSUME HcSound, NEW h \in HcHook, HcConclude(h),
           UNCHANGED <<hcWhy, hcCell, hcTold, hcPend, hcRuns, hcOut>>, HcBrokerOnly
    PROVE  HcSound'
  <1> USE DEF HcSound
  <1>0. /\ hcWhy' = hcWhy /\ hcCell' = hcCell /\ hcTold' = hcTold /\ hcPend' = hcPend
        /\ hcRuns' = hcRuns /\ hcOut' = hcOut
        /\ hcOwner' = hcOwner /\ hcAlive' = hcAlive /\ hcCtx' = hcCtx /\ hcNext' = hcNext
        /\ hcFor' = hcFor
        /\ h \in 1..HcCore /\ h # HcCore /\ hcOwner[h] \in HcMods
    BY HcNumbered DEF HcBrokerOnly, hcRunner, HcTyped
  <1>1. CASE hcWhy[h] = "answered" \/ HcRides(h)
    <2>1. /\ hcPc' = [hcPc EXCEPT ![h] = "ret"] /\ hcIn' = hcIn
          /\ hcActive' = [hcActive EXCEPT ![hcOwner[h]] = 0]
          /\ hcRes' = [hcRes EXCEPT ![h] = IF hcWhy[h] = "answered" THEN "ok" ELSE "err"]
      BY <1>1 DEF HcConclude, HcReturn
    <2>2. hcWhy[h] # "answered" => hcCell[h] = "err"
      BY <1>1 DEF HcRides
    <2>3. HcTyped'
      BY <1>0, <2>1 DEF HcTyped, HcResults, HcPcs
    <2>4. HcBlamed'
      BY <1>0, <2>1, <2>2, HcNumbered DEF HcTyped, HcBlamed
    <2> QED BY <2>3, <2>4
  <1>2. CASE ~(hcWhy[h] = "answered" \/ HcRides(h))
    <2>1. /\ hcPc' = [hcPc EXCEPT ![h] = "catch"] /\ hcRes' = hcRes
          /\ hcActive' = [hcActive EXCEPT ![hcOwner[h]] = h]
          /\ hcIn' = HcSent(hcIn, hcOwner[h], <<[kind |-> "catch", of |-> h]>>)
      BY <1>2 DEF HcConclude, HcPcTo, HcTo
    <2>2. [kind |-> "catch", of |-> h] \in HcToRunner
      BY DEF HcToRunner
    <2>3. hcIn' \in [HcMods -> Seq(HcToRunner)]
      BY <1>0, <2>1, <2>2, HcSentOne DEF HcTyped
    <2>4. HcTyped'
      BY <1>0, <2>1, <2>3 DEF HcTyped, HcPcs
    <2> QED BY <1>0, <2>1, <2>4 DEF HcBlamed
  <1> QED BY <1>1, <1>2

\* The steps between a verdict and its conclusion, and the run beneath.
LEMMA HcWaitSound ==
    ASSUME HcSound, NEW h \in HcHook,
           HcBroke(h) \/ HcAwait(h) \/ HcListen(h) \/ HcBack(h) \/ HcNotify(h) \/ HcBelow(h)
    PROVE  HcSound'
  <1> USE DEF HcSound
  <1>0. /\ h \in 1..HcCore /\ h # HcCore /\ h + 1 \in 1..HcCore
        /\ hcOwner' = hcOwner /\ hcAlive' = hcAlive /\ hcCtx' = hcCtx /\ hcNext' = hcNext
        /\ hcFor' = hcFor /\ hcOut' = hcOut /\ hcPend' = hcPend /\ hcRuns' = hcRuns
        /\ hcWhy' = hcWhy
    BY HcNumbered
       DEF HcBroke, HcAwait, HcListen, HcBack, HcNotify, HcBelow, HcBrokerOnly, hcRunner
  <1>1. CASE HcConclude(h) /\ (HcBroke(h) \/ HcAwait(h))
    BY <1>1, HcConcludeSound DEF HcBroke, HcAwait
  <1>2. CASE (~HcConclude(h) /\ (HcBroke(h) \/ HcAwait(h))) \/ HcListen(h)
    <2>1. PICK pc \in HcPcs : hcPc' = [hcPc EXCEPT ![h] = pc]
      BY <1>2 DEF HcBroke, HcAwait, HcListen, HcPcTo, HcPcs
    <2>2. /\ hcCell' = hcCell /\ hcTold' = hcTold /\ hcActive' = hcActive
          /\ hcRes' = hcRes /\ hcIn' = hcIn
      BY <1>2 DEF HcBroke, HcAwait, HcListen
    <2> QED BY <1>0, <2>1, <2>2 DEF HcTyped, HcBlamed
  <1>3. CASE HcBack(h)
    BY <1>0, <1>3 DEF HcBack, HcTyped, HcBlamed
  <1>4. CASE HcNotify(h)
    <2>1. hcTold' \subseteq HcHook /\ hcPc' \in [HcHook -> HcPcs]
      BY <1>4 DEF HcNotify, HcTyped, HcPcs
    <2>2. /\ hcCell' = hcCell /\ hcActive' = hcActive /\ hcRes' = hcRes /\ hcIn' = hcIn
      BY <1>4 DEF HcNotify
    <2> QED BY <1>0, <2>1, <2>2 DEF HcTyped, HcBlamed
  <1>5. CASE HcBelow(h)
    <2>1. /\ hcPc' = [hcPc EXCEPT ![h] = "ret"] /\ hcRes[h + 1] # "none"
          /\ hcActive' = [hcActive EXCEPT ![hcOwner[h]] = 0]
          /\ hcRes' = [hcRes EXCEPT ![h] = hcRes[h + 1]]
          /\ hcCell' = hcCell /\ hcTold' = hcTold /\ hcIn' = hcIn
      BY <1>5 DEF HcBelow, HcReturn
    <2>2. HcTyped'
      BY <1>0, <2>1 DEF HcTyped, HcPcs
    <2>3. HcBlamed'
      BY <1>0, <2>1, HcNumbered DEF HcTyped, HcBlamed
    <2> QED BY <2>2, <2>3
  <1> QED BY <1>1, <1>2, <1>3, <1>4, <1>5

\* The cell settles with the result beneath.
LEMMA HcSettleSound ==
    ASSUME HcSound, NEW h \in HcHook, HcSettle(h)
    PROVE  HcSound'
  <1> USE DEF HcSound
  <1>0. h + 1 \in 1..HcCore /\ hcOwner[h] \in HcMods
    BY HcNumbered DEF HcTyped
  <1>1. hcRes[h + 1] \in HcResults
    BY <1>0 DEF HcTyped, HcBlamed, HcSettle
  <1>2. [kind |-> "result", of |-> h, res |-> hcRes[h + 1]] \in HcToRunner
    BY <1>1 DEF HcToRunner
  <1>3. hcIn' \in [HcMods -> Seq(HcToRunner)]
    <2>1. \/ hcIn' = HcSent(hcIn, hcOwner[h],
                            <<[kind |-> "result", of |-> h, res |-> hcRes[h + 1]]>>)
          \/ hcIn' = HcSent(hcIn, hcOwner[h], <<>>)
      BY DEF HcSettle, HcTo
    <2>2. hcIn \in [HcMods -> Seq(HcToRunner)]
      BY DEF HcTyped
    <2>3. HcSent(hcIn, hcOwner[h], <<[kind |-> "result", of |-> h, res |-> hcRes[h + 1]]>>)
            \in [HcMods -> Seq(HcToRunner)]
      BY <1>0, <1>2, <2>2, HcSentOne
    <2>4. HcSent(hcIn, hcOwner[h], <<>>) = hcIn
      BY <1>0, <1>2, <2>2, HcSentOne
    <2> QED BY <2>1, <2>2, <2>3, <2>4
  <1>4. /\ hcCell' = [hcCell EXCEPT ![h] = hcRes[h + 1]]
        /\ hcPend' = {p \in hcPend : p[1] # h}
        /\ UNCHANGED <<hcPc, hcWhy, hcTold, hcActive, hcRuns, hcRes, hcOut>>
        /\ UNCHANGED <<hcOwner, hcAlive, hcCtx, hcNext, hcFor>>
    BY DEF HcSettle, HcBrokerOnly, hcRunner
  <1>5. HcTyped'
    BY <1>1, <1>3, <1>4 DEF HcTyped
  <1>6. HcBlamed'
    BY <1>0, <1>4 DEF HcTyped, HcBlamed
  <1> QED BY <1>5, <1>6

\* A runner's frame goes to its pipe, and none of the broker's state changes.
LEMMA HcRunnerSound ==
    ASSUME HcSound, HcRunnerStep
    PROVE  HcSound'
  <1> USE DEF HcSound
  <1> DEFINE Ctxs == {"none", "busy", "finishing", "failed", "catching", "settled"}
  <1>0. /\ UNCHANGED <<hcOwner, hcPc, hcWhy, hcCell, hcTold, hcPend, hcActive, hcRuns, hcRes>>
    BY DEF HcRunnerStep, HcEvent, HcResult, HcAbandon, HcCatchCall, HcDie, HcCallNext,
           HcAnswer, HcThrow, HcCaught, HcSweep, HcRunnerOnly, hcBroker
  <1>1. HcBlamed'
    BY <1>0 DEF HcBlamed
  <1>2. ASSUME hcIn' \in [HcMods -> Seq(HcToRunner)], hcOut' \in [HcMods -> Seq(HcToBroker)],
               hcAlive' \subseteq HcMods, hcCtx' \in [HcHook -> Ctxs],
               hcNext' \in [HcHook -> {"no", "pending"} \cup HcResults],
               hcFor' \in [HcHook -> HcHook]
        PROVE  HcSound'
    BY <1>0, <1>1, <1>2 DEF HcTyped
  <1>3. ASSUME NEW m \in HcMods, NEW f \in HcToBroker, HcFrom(m, f)
        PROVE  hcOut' \in [HcMods -> Seq(HcToBroker)]
    <2>1. Append(hcOut[m], f) \in Seq(HcToBroker)
      BY DEF HcTyped
    <2> QED BY <1>3, <2>1 DEF HcFrom, HcTyped
  <1>4. ASSUME NEW kind \in {"answer", "caught"}, NEW h \in HcHook,
               NEW res \in {"answered", "throw", "core", "nocatch"}, HcReply(kind, h, res)
        PROVE  hcOut' \in [HcMods -> Seq(HcToBroker)]
    <2>1. [kind |-> kind, of |-> h, res |-> res] \in HcToBroker /\ hcOwner[h] \in HcMods
      BY DEF HcToBroker, HcTyped
    <2> QED BY <1>3, <1>4, <2>1 DEF HcReply
  <1>5. ASSUME NEW m \in HcMods, NEW kind, HcGet(m, kind)
        PROVE  /\ hcIn' \in [HcMods -> Seq(HcToRunner)]
               /\ Head(hcIn[m]) \in HcToRunner /\ Head(hcIn[m]).kind = kind
               /\ Head(hcIn[m]).of \in HcHook
    <2>1. hcIn[m] \in Seq(HcToRunner) /\ hcIn[m] # <<>>
      BY <1>5 DEF HcGet, HcTyped
    <2>2. Tail(hcIn[m]) \in Seq(HcToRunner) /\ Head(hcIn[m]) \in HcToRunner
      BY <2>1
    <2> QED BY <1>5, <2>2, HcFrameFields DEF HcGet, HcTyped
  <1>6. ASSUME NEW m \in HcMods, HcEvent(m) PROVE HcSound'
    <2>1. hcIn' \in [HcMods -> Seq(HcToRunner)] /\ Head(hcIn[m]).of \in HcHook
      BY <1>5, <1>6 DEF HcEvent
    <2>2. UNCHANGED <<hcOut, hcNext, hcFor, hcAlive>>
      BY <1>6 DEF HcEvent, HcRunnerOnly
    <2>3. hcCtx' \in [HcHook -> Ctxs]
      BY <1>6, <2>1 DEF HcEvent, HcCtxTo, HcTyped
    <2> QED BY <1>2, <2>1, <2>2, <2>3 DEF HcTyped
  <1>7. ASSUME NEW m \in HcMods, HcResult(m) PROVE HcSound'
    <2> DEFINE h == Head(hcIn[m]).of
    <2>1. /\ hcIn' \in [HcMods -> Seq(HcToRunner)] /\ h \in HcHook
          /\ Head(hcIn[m]) \in HcToRunner /\ Head(hcIn[m]).kind = "result"
      BY <1>5, <1>7 DEF HcResult
    <2>2. Head(hcIn[m]).res \in HcResults
      BY <2>1, HcFrameFields
    <2>3. hcNext' \in [HcHook -> {"no", "pending"} \cup HcResults]
      BY <1>7, <2>1, <2>2 DEF HcResult, HcTyped
    <2>4. UNCHANGED <<hcFor, hcAlive>>
      BY <1>7 DEF HcResult, HcRunnerOnly
    <2>5. CASE HcCtxTo(h, "settled") /\ HcReply("answer", h, "answered")
      <3>1. hcOut' \in [HcMods -> Seq(HcToBroker)]
        BY <1>4, <2>1, <2>5
      <3>2. hcCtx' \in [HcHook -> Ctxs]
        BY <2>1, <2>5 DEF HcCtxTo, HcTyped
      <3> QED BY <1>2, <2>1, <2>3, <2>4, <3>1, <3>2 DEF HcTyped
    <2>6. CASE UNCHANGED <<hcCtx, hcOut>>
      BY <1>2, <2>1, <2>3, <2>4, <2>6 DEF HcTyped
    <2> QED BY <1>7, <2>5, <2>6 DEF HcResult
  <1>8. ASSUME NEW m \in HcMods, HcAbandon(m) PROVE HcSound'
    <2>1. hcIn' \in [HcMods -> Seq(HcToRunner)]
      BY <1>5, <1>8 DEF HcAbandon
    <2>2. UNCHANGED <<hcNext, hcFor, hcAlive>>
      BY <1>8 DEF HcAbandon, HcRunnerOnly
    <2>3. CASE UNCHANGED <<hcCtx, hcOut>>
      BY <1>2, <2>1, <2>2, <2>3 DEF HcTyped
    <2>4. CASE \E g \in HcHeld(m) : HcCtxTo(g, "none") /\ HcReply("answer", g, "throw")
      <3>1. PICK g \in HcHook : HcCtxTo(g, "none") /\ HcReply("answer", g, "throw")
        BY <2>4 DEF HcHeld
      <3>2. hcOut' \in [HcMods -> Seq(HcToBroker)]
        BY <1>4, <3>1
      <3>3. hcCtx' \in [HcHook -> Ctxs]
        BY <3>1 DEF HcCtxTo, HcTyped
      <3> QED BY <1>2, <2>1, <2>2, <3>2, <3>3 DEF HcTyped
    <2> QED BY <1>8, <2>3, <2>4 DEF HcAbandon
  <1>9. ASSUME NEW m \in HcMods, HcCatchCall(m) PROVE HcSound'
    <2> DEFINE h == Head(hcIn[m]).of
    <2>1. hcIn' \in [HcMods -> Seq(HcToRunner)] /\ h \in HcHook
      BY <1>5, <1>9 DEF HcCatchCall
    <2>2. UNCHANGED <<hcNext, hcAlive>>
      BY <1>9 DEF HcCatchCall, HcRunnerOnly
    <2>3. CASE HcReply("caught", h, "nocatch") /\ UNCHANGED <<hcCtx, hcFor>>
      <3>1. hcOut' \in [HcMods -> Seq(HcToBroker)]
        BY <1>4, <2>1, <2>3
      <3> QED BY <1>2, <2>1, <2>2, <2>3, <3>1 DEF HcTyped
    <2>4. CASE \E g \in HcHook : HcCtxTo(g, "none") /\ HcReply("caught", h, "nocatch")
                                 /\ UNCHANGED hcFor
      <3>1. PICK g \in HcHook : HcCtxTo(g, "none") /\ HcReply("caught", h, "nocatch")
                                /\ UNCHANGED hcFor
        BY <2>4
      <3>2. hcOut' \in [HcMods -> Seq(HcToBroker)]
        BY <1>4, <2>1, <3>1
      <3>3. hcCtx' \in [HcHook -> Ctxs]
        BY <3>1 DEF HcCtxTo, HcTyped
      <3> QED BY <1>2, <2>1, <2>2, <3>1, <3>2, <3>3 DEF HcTyped
    <2>5. CASE \E g \in HcHook : HcCtxTo(g, "catching") /\ hcFor' = [hcFor EXCEPT ![g] = h]
                                 /\ UNCHANGED hcOut
      <3>1. PICK g \in HcHook : HcCtxTo(g, "catching") /\ hcFor' = [hcFor EXCEPT ![g] = h]
                                /\ UNCHANGED hcOut
        BY <2>5
      <3>2. hcCtx' \in [HcHook -> Ctxs] /\ hcFor' \in [HcHook -> HcHook]
        BY <2>1, <3>1 DEF HcCtxTo, HcTyped
      <3> QED BY <1>2, <2>1, <2>2, <3>1, <3>2 DEF HcTyped
    <2> QED BY <1>9, <2>3, <2>4, <2>5 DEF HcCatchCall, HcHeld
  <1>10. ASSUME NEW m \in HcMods, HcDie(m) PROVE HcSound'
    <2>1. [kind |-> "dead"] \in HcToBroker /\ HcFrom(m, [kind |-> "dead"])
      BY <1>10 DEF HcToBroker, HcDie
    <2>2. hcOut' \in [HcMods -> Seq(HcToBroker)]
      BY <1>3, <2>1
    <2>3. hcIn' \in [HcMods -> Seq(HcToRunner)]
      BY <1>10 DEF HcDie, HcTyped
    <2>4. hcAlive' \subseteq HcMods /\ hcCtx' \in [HcHook -> Ctxs]
      BY <1>10 DEF HcDie, HcTyped
    <2>5. UNCHANGED <<hcNext, hcFor>>
      BY <1>10 DEF HcDie
    <2> QED BY <1>2, <2>2, <2>3, <2>4, <2>5 DEF HcTyped
  <1>11. ASSUME NEW h \in HcHook, HcCallNext(h) PROVE HcSound'
    <2>1. [kind |-> "next", of |-> h] \in HcToBroker /\ hcOwner[h] \in HcMods
      BY DEF HcToBroker, HcTyped
    <2>2. hcOut' \in [HcMods -> Seq(HcToBroker)]
      BY <1>3, <1>11, <2>1 DEF HcCallNext
    <2>3. hcNext' \in [HcHook -> {"no", "pending"} \cup HcResults]
      BY <1>11 DEF HcCallNext, HcTyped
    <2>4. UNCHANGED <<hcIn, hcCtx, hcFor, hcAlive>>
      BY <1>11 DEF HcCallNext, HcRunnerOnly
    <2> QED BY <1>2, <2>2, <2>3, <2>4 DEF HcTyped
  <1>12. ASSUME NEW h \in HcHook, HcAnswer(h) \/ HcThrow(h) \/ HcCaught(h) \/ HcSweep(h)
         PROVE HcSound'
    <2>1. UNCHANGED <<hcIn, hcNext, hcAlive>>
      BY <1>12 DEF HcAnswer, HcThrow, HcCaught, HcSweep, HcRunnerOnly
    <2>2. hcCtx' \in [HcHook -> Ctxs]
      BY <1>12 DEF HcAnswer, HcThrow, HcCaught, HcSweep, HcCtxTo, HcTyped
    <2>3. hcFor' \in [HcHook -> HcHook]
      BY <1>12 DEF HcAnswer, HcThrow, HcCaught, HcSweep, HcTyped
    <2>4. \/ UNCHANGED hcOut
          \/ \E kind \in {"answer", "caught"}, g \in HcHook,
                res \in {"answered", "throw", "core", "nocatch"} : HcReply(kind, g, res)
      <3>1. CASE HcAnswer(h)
        BY <3>1 DEF HcAnswer
      <3>2. CASE HcThrow(h)
        BY <3>2 DEF HcThrow
      <3>3. CASE HcCaught(h)
        BY <3>3 DEF HcCaught, HcTyped
      <3>4. CASE HcSweep(h)
        BY <3>4 DEF HcSweep
      <3> QED BY <1>12, <3>1, <3>2, <3>3, <3>4
    <2>5. hcOut' \in [HcMods -> Seq(HcToBroker)]
      BY <1>4, <2>4 DEF HcTyped
    <2> QED BY <1>2, <2>1, <2>2, <2>3, <2>5 DEF HcTyped
  <1> QED BY <1>6, <1>7, <1>8, <1>9, <1>10, <1>11, <1>12 DEF HcRunnerStep

\* Types, and whose a failure is, hold in every state.
THEOREM HcIsSound == HcSpec => []HcSound
  <1>1. HcInit => HcSound
    BY HcInitTyped DEF HcSound
  <1>2. HcSound /\ [HcNextStep]_hcVars => HcSound'
    <2> SUFFICES ASSUME HcSound, [HcNextStep]_hcVars PROVE HcSound'
      OBVIOUS
    <2>1. CASE HcBrokerStep
      <3>1. ASSUME NEW m \in HcMods, HcReadNext(m) \/ HcReadReply(m) \/ HcReadDead(m)
            PROVE HcSound'
        BY <3>1, HcReadNextSound, HcReadReplySound, HcReadDeadSound
      <3>2. ASSUME NEW h \in HcHook, HcExpire(h) \/ HcCapped(h) PROVE HcSound'
        BY <3>2, HcExpireSound, HcCappedSound
      <3>3. ASSUME NEW h \in HcHook, HcBroke(h) \/ HcAwait(h) \/ HcListen(h) \/ HcBack(h)
                                     \/ HcNotify(h) \/ HcBelow(h)
            PROVE HcSound'
        BY <3>3, HcWaitSound
      <3>4. ASSUME NEW h \in HcHook, HcSettle(h) PROVE HcSound'
        BY <3>4, HcSettleSound
      <3> QED BY <2>1, <3>1, <3>2, <3>3, <3>4 DEF HcBrokerStep
    <2>2. CASE HcRunnerStep
      BY <2>2, HcRunnerSound
    <2>3. CASE UNCHANGED hcVars
      BY <2>3 DEF hcVars, hcBroker, hcRunner, HcSound, HcTyped, HcBlamed
    <2> QED BY <2>1, <2>2, <2>3 DEF HcNextStep
  <1> QED BY <1>1, <1>2, PTL DEF HcSpec

\* A hook's failure, limit or death never fails the event, however many hooks
\* there are and however slow they may be.
THEOREM HcOnlyTheCoreFails == HcSpec => []HcOnlyCoreFails
  <1>1. HcSound => HcOnlyCoreFails
    BY HcNumbered DEF HcSound, HcBlamed, HcOnlyCoreFails
  <1> QED BY <1>1, HcIsSound, PTL
-----------------------------------------------------------------------------
(* The pipes: each frame is in the pipe of its hook's mod, a dead runner   *)
(* neither gets nor sends anything, and its death is the last of its       *)
(* frames.                                                                 *)

HcGoodIn(in) ==
    \A m \in HcMods :
        /\ m \notin hcAlive => in[m] = <<>>
        /\ \A kind, g : HcHas(in[m], kind, g) => hcOwner[g] = m
HcGoodOut ==
    \A m \in HcMods :
        /\ HcHasDead(hcOut[m]) => m \notin hcAlive
        /\ HcDeadLast(hcOut[m])
        /\ \A g : HcHas(hcOut[m], "next", g) \/ HcHas(hcOut[m], "answer", g) => hcOwner[g] = m
HcGoodMods ==
    \A g \in HcHook :
        /\ hcOwner[g] \notin hcAlive => hcCtx[g] = "none"
        /\ hcOwner[hcFor[g]] = hcOwner[g]
HcCarried == HcGoodIn(hcIn) /\ HcGoodOut /\ HcGoodMods

\* A frame sent to the mod of its hook is well sent.
LEMMA HcSentGood ==
    ASSUME HcTyped, NEW in \in [HcMods -> Seq(HcToRunner)], HcGoodIn(in),
           NEW e \in HcToRunner
    PROVE  HcGoodIn(HcSent(in, hcOwner[e.of], <<e>>))
  <1>1. hcOwner[e.of] \in HcMods
    BY HcFrameFields DEF HcTyped
  <1> DEFINE t == HcSent(in, hcOwner[e.of], <<e>>)
  <1> SUFFICES ASSUME NEW x \in HcMods
               PROVE  /\ x \notin hcAlive => t[x] = <<>>
                      /\ \A kind, g : HcHas(t[x], kind, g) => hcOwner[g] = x
    BY DEF HcGoodIn
  <1>2. x \notin hcAlive => t[x] = <<>>
    BY <1>1, HcSentOne DEF HcGoodIn
  <1>3. ASSUME NEW kind, NEW g, HcHas(t[x], kind, g)
        PROVE  hcOwner[g] = x
    <2>1. \A m \in HcMods : HcHas(HcSent(in, m, <<e>>)[x], kind, g)
            => HcHas(in[x], kind, g) \/ (x = m /\ e.of = g)
      BY HcSentHas
    <2> QED BY <1>1, <1>3, <2>1 DEF HcGoodIn
  <1> QED BY <1>2, <1>3

\* The event frame of a run that begins is well sent.
LEMMA HcBeginGood ==
    ASSUME HcTyped, NEW k \in 1..HcCore, NEW pc, NEW in, HcBegin(k, pc, in),
           in \in [HcMods -> Seq(HcToRunner)], HcGoodIn(in)
    PROVE  HcGoodIn(hcIn')
  <1>1. CASE HcStarts(k)
    <2>1. [kind |-> "event", of |-> k] \in HcToRunner
      BY <1>1 DEF HcToRunner, HcStarts
    <2>2. hcIn' = HcSent(in, hcOwner[k], <<[kind |-> "event", of |-> k]>>)
      BY <1>1 DEF HcBegin
    <2> QED BY <2>1, <2>2, HcSentGood
  <1>2. CASE ~HcStarts(k)
    BY <1>2 DEF HcBegin
  <1> QED BY <1>1, <1>2

\* So are the frames of a verdict.
LEMMA HcVerdictGood ==
    ASSUME HcTyped, NEW h \in HcHook, NEW why, NEW in, HcVerdict(h, why, in),
           in \in [HcMods -> Seq(HcToRunner)], HcGoodIn(in)
    PROVE  HcGoodIn(hcIn')
  <1>1. CASE hcPc[h] # "loop" /\ why # "answered" /\ HcUnrun(h)
    BY <1>1, HcBeginGood, HcNumbered DEF HcVerdict
  <1>2. CASE ~(hcPc[h] # "loop" /\ why # "answered" /\ HcUnrun(h))
    BY <1>2 DEF HcVerdict, HcPcTo
  <1> QED BY <1>1, <1>2

\* The frames the broker sends are well sent.
LEMMA HcBrokerGoodIn ==
    ASSUME HcTyped, HcBlamed, HcCarried, HcBrokerStep
    PROVE  HcGoodIn(hcIn')
  <1>0. hcIn \in [HcMods -> Seq(HcToRunner)] /\ HcGoodIn(hcIn)
    BY DEF HcTyped, HcCarried
  <1>1. ASSUME NEW m \in HcMods, HcReadNext(m) PROVE HcGoodIn(hcIn')
    <2> DEFINE g == Head(hcOut[m]).of
               h == hcActive[m]
    <2>1. CASE hcIn' = hcIn
      BY <1>0, <2>1
    <2>2. CASE h # 0 /\ HcBegin(h + 1, hcPc, hcIn)
      BY <1>0, <2>2, HcBeginGood, HcNumbered DEF HcTyped
    <2>3. CASE \E res \in HcResults : HcTo(m, <<[kind |-> "result", of |-> g, res |-> res]>>)
      <3> PICK res \in HcResults : HcTo(m, <<[kind |-> "result", of |-> g, res |-> res]>>)
        BY <2>3
      <3>1. g \in HcHook /\ hcOwner[g] = m
        <4>1. HcTake(m) /\ Head(hcOut[m]).kind = "next"
          BY <1>1 DEF HcReadNext
        <4>2. Head(hcOut[m]) \in HcToBroker /\ hcOut[m] \in Seq(HcToBroker) /\ hcOut[m] # <<>>
          BY <4>1, HcTakeTyped
        <4>3. HcHas(hcOut[m], "next", g)
          BY <4>1, <4>2, HcTaken
        <4> QED BY <4>1, <4>2, <4>3, HcFrameFields DEF HcCarried, HcGoodOut
      <3>2. [kind |-> "result", of |-> g, res |-> res] \in HcToRunner
        BY <3>1 DEF HcToRunner
      <3> QED BY <1>0, <3>1, <3>2, HcSentGood DEF HcTo
    <2> QED BY <1>1, <2>1, <2>2, <2>3 DEF HcReadNext, HcRefused, HcCached, HcResults
  <1>2. ASSUME NEW m \in HcMods, HcReadReply(m) PROVE HcGoodIn(hcIn')
    <2>1. Head(hcOut[m]) \in HcToBroker /\ Head(hcOut[m]).kind \in {"answer", "caught"}
      BY <1>2, HcTakeTyped DEF HcReadReply
    <2>2. Head(hcOut[m]).of \in HcHook
      BY <2>1, HcFrameFields
    <2> QED BY <1>0, <1>2, <2>2, HcVerdictGood DEF HcReadReply
  <1>3. ASSUME NEW m \in HcMods, HcReadDead(m) PROVE HcGoodIn(hcIn')
    <2>1. hcActive[m] # 0 => hcActive[m] \in HcHook
      BY DEF HcTyped
    <2> QED BY <1>0, <1>3, <2>1, HcVerdictGood DEF HcReadDead
  <1>4. ASSUME NEW h \in HcHook, HcExpire(h) PROVE HcGoodIn(hcIn')
    <2> DEFINE e == [kind |-> "timeout", of |-> h]
               in == HcSent(hcIn, hcOwner[h], <<e>>)
    <2>1. e \in HcToRunner /\ e.of = h /\ hcOwner[h] \in HcMods
      BY DEF HcToRunner, HcTyped
    <2>2. in \in [HcMods -> Seq(HcToRunner)] /\ HcGoodIn(in)
      BY <1>0, <2>1, HcSentOne, HcSentGood
    <2>3. HcVerdict(h, "timeout", in)
      BY <1>4 DEF HcExpire
    <2> HIDE DEF in
    <2> QED BY <2>2, <2>3, HcVerdictGood
  <1>9. ASSUME NEW h \in HcHook, HcCapped(h) PROVE HcGoodIn(hcIn')
    BY <1>0, <1>9, HcVerdictGood DEF HcCapped
  <1>5. ASSUME NEW h \in HcHook, HcBroke(h) \/ HcAwait(h) PROVE HcGoodIn(hcIn')
    <2>1. [kind |-> "catch", of |-> h] \in HcToRunner
      BY DEF HcToRunner
    <2>2. HcGoodIn(HcSent(hcIn, hcOwner[h], <<[kind |-> "catch", of |-> h]>>))
      BY <1>0, <2>1, HcSentGood
    <2> QED BY <1>0, <1>5, <2>2 DEF HcBroke, HcAwait, HcConclude, HcTo
  <1>6. ASSUME NEW h \in HcHook, HcSettle(h) PROVE HcGoodIn(hcIn')
    <2> DEFINE e == [kind |-> "result", of |-> h, res |-> hcRes[h + 1]]
    <2>1. e \in HcToRunner /\ hcOwner[h] \in HcMods
      BY <1>6, HcNumbered DEF HcSettle, HcToRunner, HcTyped, HcBlamed
    <2>2. HcGoodIn(HcSent(hcIn, hcOwner[h], <<e>>))
      BY <1>0, <2>1, HcSentGood
    <2>3. HcSent(hcIn, hcOwner[h], <<>>) = hcIn
      BY <1>0, <2>1, HcSentOne
    <2>4. hcIn' = HcSent(hcIn, hcOwner[h], <<e>>) \/ hcIn' = HcSent(hcIn, hcOwner[h], <<>>)
      BY <1>6 DEF HcSettle, HcTo
    <2> QED BY <1>0, <2>2, <2>3, <2>4
  <1>7. ASSUME NEW h \in HcHook, HcListen(h) \/ HcBack(h) \/ HcNotify(h) \/ HcBelow(h)
        PROVE HcGoodIn(hcIn')
    BY <1>0, <1>7 DEF HcListen, HcBack, HcNotify, HcBelow
  <1> QED BY <1>1, <1>2, <1>3, <1>4, <1>5, <1>6, <1>7, <1>9 DEF HcBrokerStep

\* The broker only takes frames from the pipes to it.
LEMMA HcBrokerGood ==
    ASSUME HcTyped, HcBlamed, HcCarried, HcBrokerStep
    PROVE  HcCarried'
  <1>0. HcBrokerOnly
    BY DEF HcBrokerStep, HcReadNext, HcReadReply, HcReadDead, HcExpire, HcCapped, HcBroke,
           HcAwait, HcListen, HcBack, HcSettle, HcNotify, HcBelow
  <1>1. hcOwner' = hcOwner /\ hcAlive' = hcAlive /\ hcCtx' = hcCtx /\ hcFor' = hcFor
    BY <1>0 DEF HcBrokerOnly, hcRunner
  <1>2. HcGoodIn(hcIn)' /\ HcGoodMods'
    BY <1>1, HcBrokerGoodIn DEF HcGoodIn, HcGoodMods, HcCarried
  <1>3. HcGoodOut'
    <2>1. hcOut' = hcOut \/ \E m \in HcMods : HcTake(m)
      BY DEF HcBrokerStep, HcReadNext, HcReadReply, HcReadDead, HcExpire, HcCapped, HcBroke,
             HcAwait, HcListen, HcBack, HcSettle, HcNotify, HcBelow
    <2>2. CASE hcOut' = hcOut
      BY <1>1, <2>2 DEF HcGoodOut, HcCarried
    <2>3. ASSUME NEW m \in HcMods, HcTake(m) PROVE HcGoodOut'
      <3>1. /\ hcOut[m] \in Seq(HcToBroker) /\ hcOut[m] # <<>>
            /\ \A x \in HcMods : hcOut'[x] = IF x = m THEN Tail(hcOut[m]) ELSE hcOut[x]
        BY <2>3, HcTakeTyped
      <3>2. /\ HcHasDead(Tail(hcOut[m])) => HcHasDead(hcOut[m])
            /\ \A g, kind : HcHas(Tail(hcOut[m]), kind, g) => HcHas(hcOut[m], kind, g)
        BY <3>1, HcTaken
      <3>3. HcDeadLast(hcOut[m]) => HcDeadLast(Tail(hcOut[m]))
        BY <3>1, HcTakenOrder
      <3> QED BY <1>1, <3>1, <3>2, <3>3 DEF HcGoodOut, HcCarried
    <2> QED BY <2>1, <2>2, <2>3
  <1> QED BY <1>2, <1>3 DEF HcCarried

\* A frame from a living runner's hook goes to the pipe of its mod.
LEMMA HcFromGood ==
    ASSUME HcTyped, HcGoodOut, NEW m \in hcAlive, NEW f \in HcToBroker, HcFrom(m, f),
           f.kind # "dead", hcAlive' = hcAlive, hcOwner' = hcOwner,
           f.kind \in {"next", "answer"} => hcOwner[f.of] = m
    PROVE  HcGoodOut'
  <1>1. m \in HcMods /\ hcOut[m] \in Seq(HcToBroker)
    BY DEF HcTyped
  <1>2. \A x \in HcMods : hcOut'[x] = IF x = m THEN Append(hcOut[m], f) ELSE hcOut[x]
    BY DEF HcFrom, HcTyped
  <1>3. /\ \A g, kind : HcHas(Append(hcOut[m], f), kind, g)
                          <=> HcHas(hcOut[m], kind, g) \/ (f.kind = kind /\ f.of = g)
        /\ HcHasDead(Append(hcOut[m], f)) <=> HcHasDead(hcOut[m])
    BY <1>1, HcAppended
  <1>4. ~HcHasDead(hcOut[m])
    BY <1>1 DEF HcGoodOut
  <1>5. HcDeadLast(Append(hcOut[m], f))
    BY <1>1, <1>4, HcAppendedOrder
  <1> QED BY <1>2, <1>3, <1>4, <1>5 DEF HcGoodOut

\* The runners keep the pipes so.
LEMMA HcRunnerGood ==
    ASSUME HcTyped, HcCarried, HcRunnerStep
    PROVE  HcCarried'
  <1>0. HcGoodIn(hcIn) /\ HcGoodOut /\ HcGoodMods
    BY DEF HcCarried
  <1>1. ASSUME NEW m \in HcMods, NEW kind, HcGet(m, kind), hcAlive' = hcAlive, hcOwner' = hcOwner
        PROVE  /\ HcGoodIn(hcIn)' /\ m \in hcAlive
               /\ Head(hcIn[m]).of \in HcHook /\ hcOwner[Head(hcIn[m]).of] = m
    <2>1. hcIn[m] \in Seq(HcToRunner) /\ hcIn[m] # <<>>
      BY <1>1 DEF HcGet, HcTyped
    <2>2. \A x \in HcMods : hcIn'[x] = IF x = m THEN Tail(hcIn[m]) ELSE hcIn[x]
      BY <1>1 DEF HcGet, HcTyped
    <2>3. Head(hcIn[m]) \in HcToRunner
      BY <2>1
    <2>4. \A k, g : HcHas(hcIn[m], k, g)
            <=> HcHas(Tail(hcIn[m]), k, g) \/ (Head(hcIn[m]).kind = k /\ Head(hcIn[m]).of = g)
      BY <2>1, HcTaken
    <2>5. m \in hcAlive
      BY <1>0, <2>1 DEF HcGoodIn
    <2>6. HcGoodIn(hcIn)'
      BY <1>0, <1>1, <2>2, <2>4, <2>5 DEF HcGoodIn
    <2>7. HcHas(hcIn[m], Head(hcIn[m]).kind, Head(hcIn[m]).of)
      BY <2>4
    <2>8. hcOwner[Head(hcIn[m]).of] = m
      BY <1>0, <2>7 DEF HcGoodIn
    <2> QED BY <2>3, <2>5, <2>6, <2>8, HcFrameFields
  <1>2. ASSUME NEW kind \in {"answer", "caught"}, NEW h \in HcHook,
               NEW res \in {"answered", "throw", "core", "nocatch"}, HcReply(kind, h, res),
               hcOwner[h] \in hcAlive, hcAlive' = hcAlive, hcOwner' = hcOwner
        PROVE  HcGoodOut'
    <2>1. [kind |-> kind, of |-> h, res |-> res] \in HcToBroker
      BY DEF HcToBroker
    <2> QED BY <1>0, <1>2, <2>1, HcFromGood DEF HcReply
  <1>3. ASSUME NEW m \in HcMods, HcEvent(m) PROVE HcCarried'
    <2>1. UNCHANGED <<hcOut, hcFor, hcAlive, hcOwner>>
      BY <1>3 DEF HcEvent, HcRunnerOnly
    <2>2. /\ HcGoodIn(hcIn)' /\ m \in hcAlive
          /\ Head(hcIn[m]).of \in HcHook /\ hcOwner[Head(hcIn[m]).of] = m
      BY <1>1, <1>3, <2>1 DEF HcEvent
    <2>3. hcCtx' = [hcCtx EXCEPT ![Head(hcIn[m]).of] = "busy"] \/ hcCtx' = hcCtx
      BY <1>3 DEF HcEvent, HcCtxTo
    <2>4. HcGoodMods'
      BY <1>0, <2>1, <2>2, <2>3 DEF HcGoodMods, HcTyped
    <2>5. HcGoodOut'
      BY <1>0, <2>1 DEF HcGoodOut
    <2> QED BY <2>2, <2>4, <2>5 DEF HcCarried
  <1>4. ASSUME NEW m \in HcMods, HcResult(m) PROVE HcCarried'
    <2> DEFINE h == Head(hcIn[m]).of
    <2>1. UNCHANGED <<hcFor, hcAlive, hcOwner>>
      BY <1>4 DEF HcResult, HcRunnerOnly
    <2>2. HcGoodIn(hcIn)' /\ m \in hcAlive /\ h \in HcHook /\ hcOwner[h] = m
      BY <1>1, <1>4, <2>1 DEF HcResult
    <2>3. CASE HcCtxTo(h, "settled") /\ HcReply("answer", h, "answered")
      <3>1. HcGoodOut'
        BY <1>2, <2>1, <2>2, <2>3
      <3>2. HcGoodMods'
        BY <1>0, <2>1, <2>2, <2>3 DEF HcGoodMods, HcTyped, HcCtxTo
      <3> QED BY <2>2, <3>1, <3>2 DEF HcCarried
    <2>4. CASE UNCHANGED <<hcCtx, hcOut>>
      BY <1>0, <2>1, <2>2, <2>4 DEF HcCarried, HcGoodOut, HcGoodMods
    <2> QED BY <1>4, <2>3, <2>4 DEF HcResult
  <1>5. ASSUME NEW m \in HcMods, HcAbandon(m) PROVE HcCarried'
    <2>1. UNCHANGED <<hcFor, hcAlive, hcOwner>>
      BY <1>5 DEF HcAbandon, HcRunnerOnly
    <2>2. HcGoodIn(hcIn)' /\ m \in hcAlive
      BY <1>1, <1>5, <2>1 DEF HcAbandon
    <2>3. CASE UNCHANGED <<hcCtx, hcOut>>
      BY <1>0, <2>1, <2>2, <2>3 DEF HcCarried, HcGoodOut, HcGoodMods
    <2>4. CASE \E g \in HcHeld(m) : HcCtxTo(g, "none") /\ HcReply("answer", g, "throw")
      <3>1. PICK g \in HcHook : hcOwner[g] = m /\ HcCtxTo(g, "none") /\ HcReply("answer", g, "throw")
        BY <2>4 DEF HcHeld
      <3>2. HcGoodOut'
        BY <1>2, <2>1, <2>2, <3>1
      <3>3. HcGoodMods'
        BY <1>0, <2>1, <3>1 DEF HcGoodMods, HcTyped, HcCtxTo
      <3> QED BY <2>2, <3>2, <3>3 DEF HcCarried
    <2> QED BY <1>5, <2>3, <2>4 DEF HcAbandon
  <1>6. ASSUME NEW m \in HcMods, HcCatchCall(m) PROVE HcCarried'
    <2> DEFINE h == Head(hcIn[m]).of
    <2>1. UNCHANGED <<hcAlive, hcOwner>>
      BY <1>6 DEF HcCatchCall, HcRunnerOnly
    <2>2. HcGoodIn(hcIn)' /\ m \in hcAlive /\ h \in HcHook /\ hcOwner[h] = m
      BY <1>1, <1>6, <2>1 DEF HcCatchCall
    <2>3. HcGoodOut'
      <3>1. CASE HcReply("caught", h, "nocatch")
        BY <1>2, <2>1, <2>2, <3>1
      <3>2. CASE UNCHANGED hcOut
        BY <1>0, <2>1, <3>2 DEF HcGoodOut
      <3> QED BY <1>6, <3>1, <3>2 DEF HcCatchCall
    <2>4. HcGoodMods'
      <3>1. CASE UNCHANGED <<hcCtx, hcFor>>
        BY <1>0, <2>1, <3>1 DEF HcGoodMods
      <3>2. ASSUME NEW g \in HcHeld(m), NEW ctx, HcCtxTo(g, ctx),
                   hcFor' = hcFor \/ hcFor' = [hcFor EXCEPT ![g] = h]
            PROVE  HcGoodMods'
        <4>1. g \in HcHook /\ hcOwner[g] = m
          BY DEF HcHeld
        <4> QED BY <1>0, <2>1, <2>2, <3>2, <4>1 DEF HcGoodMods, HcTyped, HcCtxTo
      <3> QED BY <1>6, <3>1, <3>2 DEF HcCatchCall
    <2> QED BY <2>2, <2>3, <2>4 DEF HcCarried
  <1>7. ASSUME NEW m \in HcMods, HcDie(m) PROVE HcCarried'
    <2>1. /\ m \in hcAlive /\ hcAlive' = hcAlive \ {m} /\ UNCHANGED <<hcOwner, hcFor>>
          /\ \A x \in HcMods : hcIn'[x] = IF x = m THEN <<>> ELSE hcIn[x]
          /\ \A x \in HcMods :
               hcOut'[x] = IF x = m THEN Append(hcOut[m], [kind |-> "dead"]) ELSE hcOut[x]
          /\ \A h \in HcHook : hcCtx'[h] = IF hcOwner[h] = m THEN "none" ELSE hcCtx[h]
      BY <1>7 DEF HcDie, HcFrom, HcTyped
    <2>2. HcGoodIn(hcIn)'
      BY <1>0, <2>1 DEF HcGoodIn, HcHas
    <2>3. HcGoodMods'
      BY <1>0, <2>1 DEF HcGoodMods, HcTyped
    <2>4. HcGoodOut'
      <3> DEFINE e == [kind |-> "dead"]
      <3>1. hcOut[m] \in Seq(HcToBroker) /\ e \in HcToBroker /\ ~HcHasDead(hcOut[m])
        BY <1>0, <2>1 DEF HcTyped, HcToBroker, HcGoodOut
      <3>2. HcDeadLast(Append(hcOut[m], e))
        BY <3>1, HcAppendedOrder
      <3>3. \A g : \A kind \in {"next", "answer"} :
                     HcHas(Append(hcOut[m], e), kind, g) => HcHas(hcOut[m], kind, g)
        BY <3>1, HcAppended
      <3>4. \A g : HcHas(Append(hcOut[m], e), "next", g) \/ HcHas(Append(hcOut[m], e), "answer", g)
                     => HcHas(hcOut[m], "next", g) \/ HcHas(hcOut[m], "answer", g)
        BY <3>3
      <3> QED BY <1>0, <2>1, <3>2, <3>4 DEF HcGoodOut
    <2> QED BY <2>2, <2>3, <2>4 DEF HcCarried
  <1>8. ASSUME NEW h \in HcHook, HcCallNext(h) PROVE HcCarried'
    <2>1. UNCHANGED <<hcIn, hcCtx, hcFor, hcAlive, hcOwner>>
      BY <1>8 DEF HcCallNext, HcRunnerOnly
    <2>2. [kind |-> "next", of |-> h] \in HcToBroker /\ hcOwner[h] \in hcAlive
      BY <1>0, <1>8 DEF HcToBroker, HcGoodMods, HcCallNext
    <2>3. HcGoodOut'
      BY <1>0, <1>8, <2>1, <2>2, HcFromGood DEF HcCallNext
    <2> QED BY <1>0, <2>1, <2>3 DEF HcCarried, HcGoodIn, HcGoodMods
  <1>9. ASSUME NEW h \in HcHook, HcAnswer(h) \/ HcThrow(h) \/ HcCaught(h) \/ HcSweep(h)
        PROVE HcCarried'
    <2>1. UNCHANGED <<hcIn, hcAlive, hcOwner>>
      BY <1>9 DEF HcAnswer, HcThrow, HcCaught, HcSweep, HcRunnerOnly
    <2>2. hcCtx[h] # "none" /\ hcOwner[h] \in hcAlive
      BY <1>0, <1>9 DEF HcAnswer, HcThrow, HcCaught, HcSweep, HcGoodMods
    <2>3. HcGoodOut'
      <3>1. CASE HcAnswer(h)
        BY <1>0, <1>2, <2>1, <2>2, <3>1 DEF HcAnswer, HcGoodOut
      <3>2. CASE HcThrow(h)
        BY <1>2, <2>1, <2>2, <3>2 DEF HcThrow
      <3>3. CASE HcCaught(h)
        <4>1. hcFor[h] \in HcHook /\ hcOwner[hcFor[h]] \in hcAlive
          BY <1>0, <2>2 DEF HcGoodMods, HcTyped
        <4> QED BY <1>2, <2>1, <3>3, <4>1 DEF HcCaught
      <3>4. CASE HcSweep(h)
        BY <1>0, <2>1, <3>4 DEF HcSweep, HcGoodOut
      <3> QED BY <1>9, <3>1, <3>2, <3>3, <3>4
    <2>4. HcGoodMods'
      <3>1. hcFor' = hcFor \/ hcFor' = [hcFor EXCEPT ![h] = h]
        BY <1>9 DEF HcAnswer, HcThrow, HcCaught, HcSweep
      <3>2. \E ctx : hcCtx' = [hcCtx EXCEPT ![h] = ctx]
        BY <1>9 DEF HcAnswer, HcThrow, HcCaught, HcSweep, HcCtxTo
      <3> QED BY <1>0, <2>1, <2>2, <3>1, <3>2 DEF HcGoodMods, HcTyped
    <2> QED BY <1>0, <2>1, <2>3, <2>4 DEF HcCarried, HcGoodIn
  <1> QED BY <1>3, <1>4, <1>5, <1>6, <1>7, <1>8, <1>9 DEF HcRunnerStep
-----------------------------------------------------------------------------
(* The runs, where every hook answers within its time: they are nested.    *)

\* all beneath h that has started has returned
HcDone(h) == \A k \in HcHook : k > h => hcPc[k] \in {"off", "ret"}

HcNested ==
    /\ HcNothingTwice
    /\ \A k \in HcHook : hcPc[k] = "off" <=> hcRuns[k] = 0
    /\ \A j, k \in 1..HcCore : j <= k /\ hcRuns[k] # 0 => hcRuns[j] # 0
    /\ \A h \in HcHook :
         /\ hcCell[h] = "off" /\ hcPc[h] \notin {"below", "ret"} => hcRuns[h + 1] = 0
         /\ hcPc[h] = "ret" \/ hcCell[h] \in {"back", "ok", "err"} => HcDone(h)
         /\ hcPc[h] \in {"off", "below"} => hcCell[h] = "off"
         /\ hcPc[h] \in {"await", "deaf", "listen"} => hcCell[h] # "off"
         /\ hcPc[h] \in {"catch", "ret"} => hcCell[h] \in {"off", "ok", "err"}
         /\ hcRes[h] # "none" => hcPc[h] = "ret"

\* Nothing is under way beneath a hook that has started nothing, whose cell
\* has a result, or whose run beneath has returned.
LEMMA HcDeepest ==
    ASSUME HcTyped, HcNested, NEW h \in HcHook,
           \/ hcCell[h] = "off" /\ hcPc[h] \notin {"below", "ret"}
           \/ hcCell[h] \in {"back", "ok", "err"}
           \/ hcRes[h + 1] # "none"
    PROVE  HcDone(h)
  <1>1. CASE hcCell[h] = "off" /\ hcPc[h] \notin {"below", "ret"}
    <2>1. hcRuns[h + 1] = 0
      BY <1>1 DEF HcNested
    <2>2. ASSUME NEW k \in HcHook, k > h PROVE hcRuns[k] = 0
      <3>1. h + 1 <= k /\ h + 1 \in 1..HcCore /\ k \in 1..HcCore
        BY <2>2, HcNumbered
      <3> QED BY <2>1, <3>1 DEF HcNested
    <2> QED BY <2>2 DEF HcNested, HcDone
  <1>2. CASE hcCell[h] \in {"back", "ok", "err"}
    BY <1>2 DEF HcNested
  <1>3. CASE hcRes[h + 1] # "none"
    <2>1. CASE h + 1 \in HcHook
      <3>1. hcPc[h + 1] = "ret" /\ HcDone(h + 1)
        BY <1>3, <2>1 DEF HcNested
      <3>2. \A k \in HcHook : k > h => k = h + 1 \/ k > h + 1
        BY HcNumbered
      <3> QED BY <3>1, <3>2 DEF HcDone
    <2>2. CASE h + 1 \notin HcHook
      <3>1. \A k \in HcHook : ~(k > h)
        BY <2>2, HcNumbers DEF HcHook
      <3> QED BY <3>1 DEF HcDone
    <2> QED BY <2>1, <2>2
  <1> QED BY <1>1, <1>2, <1>3

\* There is one hook at most that is under way and has nothing under way
\* beneath it.
LEMMA HcOnlyOne ==
    ASSUME HcTyped, HcNested, NEW h \in HcHook, hcPc[h] \notin {"off", "ret"}, HcDone(h),
           NEW g \in HcHook, hcPc[g] = "loop", hcCell[g] = "off"
    PROVE  g = h
  <1>1. ~(g > h)
    BY DEF HcDone
  <1>2. ~(g < h)
    <2> SUFFICES ASSUME g < h PROVE FALSE
      OBVIOUS
    <2>1. hcRuns[h] # 0 /\ hcRuns[g + 1] = 0
      BY DEF HcNested
    <2>2. g + 1 <= h /\ g + 1 \in 1..HcCore /\ h \in 1..HcCore
      BY HcNumbered
    <2> QED BY <2>1, <2>2 DEF HcNested
  <1> QED BY <1>1, <1>2, HcNumbered

\* A run that starts beneath h.
LEMMA HcStartNested ==
    ASSUME HcTyped, HcNested, NEW h \in HcHook, hcPc[h] \in {"loop", "catch"},
           hcCell[h] = "off", NEW pc, NEW in, HcRunFrom(h + 1), HcBegin(h + 1, pc, in),
           \/ pc = hcPc /\ hcPc[h] = "loop" /\ hcCell' = [hcCell EXCEPT ![h] = "run"]
           \/ pc = [hcPc EXCEPT ![h] = "below"] /\ hcCell' = hcCell
    PROVE  /\ HcNested'
           /\ HcStarts(h + 1) <=> h + 1 \in HcHook
           /\ h + 1 \in HcHook =>
                hcPc[h + 1] = "off" /\ hcCell[h + 1] = "off" /\ hcPc' = [pc EXCEPT ![h + 1] = "loop"]
           /\ h + 1 \notin HcHook => hcPc' = pc
  <1>1. hcRuns[h + 1] = 0 /\ h + 1 \in 1..HcCore /\ h \in 1..HcCore /\ h # h + 1
    BY HcNumbered DEF HcNested
  <1>2. HcDone(h)
    BY HcDeepest
  <1>3. HcStarts(h + 1) <=> h + 1 \in HcHook
    BY <1>1 DEF HcStarts
  <1>4. hcRuns' = [hcRuns EXCEPT ![h + 1] = 1]
    BY <1>1 DEF HcRunFrom
  <1>5. \A k \in HcHook : hcRes'[k] = hcRes[k]
    <2>1. CASE h + 1 = HcCore /\ hcRes[h + 1] = "none"
      <3>1. PICK r : hcRes' = [hcRes EXCEPT ![h + 1] = r]
        BY <2>1 DEF HcRunFrom
      <3> QED BY <1>1, <2>1, <3>1, HcNumbered DEF HcTyped
    <2>2. CASE ~(h + 1 = HcCore /\ hcRes[h + 1] = "none")
      BY <2>2 DEF HcRunFrom
    <2> QED BY <2>1, <2>2
  <1>6. h + 1 \in HcHook =>
          hcPc[h + 1] = "off" /\ hcCell[h + 1] = "off" /\ hcPc' = [pc EXCEPT ![h + 1] = "loop"]
    BY <1>1, <1>3 DEF HcBegin, HcNested
  <1>7. h + 1 \notin HcHook => hcPc' = pc
    BY <1>3 DEF HcBegin
  <1>8. \A k \in HcHook : hcPc'[k] = IF k = h + 1 THEN "loop" ELSE pc[k]
    BY <1>6, <1>7 DEF HcTyped
  <1>9. /\ \A k \in HcHook : k # h => pc[k] = hcPc[k] /\ hcCell'[k] = hcCell[k]
        /\ \/ pc[h] = "loop" /\ hcCell'[h] = "run"
           \/ pc[h] = "below" /\ hcCell'[h] = "off"
    BY DEF HcTyped
  <1>10. HcNothingTwice'
    BY <1>1, <1>4 DEF HcNested, HcNothingTwice, HcTyped
  <1>11. \A k \in HcHook : hcPc'[k] = "off" <=> hcRuns'[k] = 0
    <2> SUFFICES ASSUME NEW k \in HcHook PROVE hcPc'[k] = "off" <=> hcRuns'[k] = 0
      OBVIOUS
    <2>1. hcRuns'[k] = IF k = h + 1 THEN 1 ELSE hcRuns[k]
      BY <1>1, <1>4, HcNumbered DEF HcTyped
    <2>2. hcPc[k] = "off" <=> hcRuns[k] = 0
      BY DEF HcNested
    <2>3. hcRuns[h] # 0
      BY DEF HcNested
    <2> QED BY <1>1, <1>8, <1>9, <2>1, <2>2, <2>3
  <1>12. \A j, k \in 1..HcCore : j <= k /\ hcRuns'[k] # 0 => hcRuns'[j] # 0
    <2>1. hcRuns[h] # 0
      BY DEF HcNested
    <2>2. \A j \in 1..HcCore : j <= h + 1 => j <= h \/ j = h + 1
      BY HcNumbered
    <2> QED BY <1>1, <1>4, <2>1, <2>2 DEF HcNested, HcTyped
  <1>13. ASSUME NEW k \in HcHook
         PROVE  /\ hcCell'[k] = "off" /\ hcPc'[k] \notin {"below", "ret"} => hcRuns'[k + 1] = 0
                /\ hcPc'[k] \in {"off", "below"} => hcCell'[k] = "off"
                /\ hcPc'[k] \in {"await", "deaf", "listen"} => hcCell'[k] # "off"
                /\ hcPc'[k] \in {"catch", "ret"} => hcCell'[k] \in {"off", "ok", "err"}
                /\ hcRes'[k] # "none" => hcPc'[k] = "ret"
    <2>1. CASE k = h
      BY <1>1, <1>5, <1>8, <1>9, <2>1 DEF HcNested
    <2>2. CASE k = h + 1
      <3>1. k + 1 \in 1..HcCore /\ k + 1 # h + 1 /\ k # h /\ h + 1 <= k + 1
        BY <2>2, HcNumbered
      <3>2. hcRuns'[k + 1] = 0
        BY <1>1, <1>4, <3>1 DEF HcNested, HcTyped
      <3> QED BY <1>5, <1>6, <1>8, <1>9, <2>2, <3>1, <3>2 DEF HcNested
    <2>3. CASE k # h /\ k # h + 1
      <3>1. k + 1 # h + 1 /\ k + 1 \in 1..HcCore
        BY <2>3, HcNumbered
      <3>2. hcRuns'[k + 1] = hcRuns[k + 1]
        BY <1>1, <1>4, <3>1 DEF HcTyped
      <3> QED BY <1>5, <1>8, <1>9, <2>3, <3>2 DEF HcNested
    <2> QED BY <2>1, <2>2, <2>3
  <1>14. ASSUME NEW k \in HcHook, hcPc'[k] = "ret" \/ hcCell'[k] \in {"back", "ok", "err"}
         PROVE  HcDone(k)'
    <2>1. k # h
      BY <1>1, <1>8, <1>9, <1>14
    <2>2. k # h + 1
      BY <1>1, <1>6, <1>8, <1>9, <1>14
    <2>3. HcDone(k)
      BY <1>8, <1>9, <1>14, <2>1, <2>2 DEF HcNested
    <2>4. k > h
      BY <2>1, <2>3, HcNumbered DEF HcDone
    <2>5. \A j \in HcHook : j > k => j # h /\ j # h + 1
      BY <2>2, <2>4, HcNumbered
    <2> QED BY <1>8, <1>9, <2>3, <2>5 DEF HcDone
  <1>15. HcNested'
    BY <1>10, <1>11, <1>12, <1>13, <1>14 DEF HcNested
  <1> QED BY <1>3, <1>6, <1>7, <1>15

\* A run that returns with all beneath done.
LEMMA HcReturnNested ==
    ASSUME HcTyped, HcNested, NEW h \in HcHook, hcPc[h] # "off", HcDone(h),
           hcCell[h] \in {"off", "ok", "err"},
           HcReturn(h, hcPc, hcActive), NEW r, hcRes' = [hcRes EXCEPT ![h] = r],
           hcCell' = hcCell, hcRuns' = hcRuns
    PROVE  HcNested'
  <1>1. hcPc' = [hcPc EXCEPT ![h] = "ret"]
    BY DEF HcReturn
  <1>2. \A k \in HcHook : hcPc'[k] = IF k = h THEN "ret" ELSE hcPc[k]
    BY <1>1 DEF HcTyped
  <1>3. \A k \in HcHook : k # h => hcRes'[k] = hcRes[k]
    BY HcNumbered DEF HcTyped
  <1>4. \A k \in HcHook : HcDone(k) => HcDone(k)'
    BY <1>2 DEF HcDone
  <1>5. ASSUME NEW k \in HcHook
        PROVE  /\ hcCell'[k] = "off" /\ hcPc'[k] \notin {"below", "ret"} => hcRuns'[k + 1] = 0
               /\ hcPc'[k] \in {"off", "below"} => hcCell'[k] = "off"
               /\ hcPc'[k] \in {"await", "deaf", "listen"} => hcCell'[k] # "off"
               /\ hcPc'[k] \in {"catch", "ret"} => hcCell'[k] \in {"off", "ok", "err"}
               /\ hcRes'[k] # "none" => hcPc'[k] = "ret"
    <2>1. CASE k = h
      BY <1>2, <2>1
    <2>2. CASE k # h
      BY <1>2, <1>3, <2>2 DEF HcNested
    <2> QED BY <2>1, <2>2
  <1>6. ASSUME NEW k \in HcHook, hcPc'[k] = "ret" \/ hcCell'[k] \in {"back", "ok", "err"}
        PROVE  HcDone(k)'
    BY <1>2, <1>4, <1>6 DEF HcNested
  <1>7. \A k \in HcHook : hcPc'[k] = "off" <=> hcRuns'[k] = 0
    BY <1>2 DEF HcNested
  <1> QED BY <1>5, <1>6, <1>7 DEF HcNested, HcNothingTwice

\* A run that moves on, within what its cell allows.
LEMMA HcMoveNested ==
    ASSUME HcTyped, HcNested, NEW h \in HcHook,
           hcPc[h] \in {"loop", "broke", "await", "deaf", "listen"},
           NEW pc \in {"broke", "await", "deaf", "listen", "catch"},
           hcPc' = [hcPc EXCEPT ![h] = pc],
           pc \in {"await", "deaf", "listen"} => hcCell[h] # "off",
           pc = "catch" => hcCell[h] \in {"off", "ok", "err"},
           hcCell' = hcCell, hcRuns' = hcRuns, hcRes' = hcRes
    PROVE  HcNested'
  <1>1. \A k \in HcHook : hcPc'[k] = IF k = h THEN pc ELSE hcPc[k]
    BY DEF HcTyped
  <1>2. ASSUME NEW k \in HcHook, HcDone(k), hcPc[k] = "ret" \/ hcCell[k] \in {"back", "ok", "err"}
        PROVE  HcDone(k)'
    BY <1>1, <1>2 DEF HcDone
  <1>3. ASSUME NEW k \in HcHook
        PROVE  /\ hcPc'[k] = "off" <=> hcRuns'[k] = 0
               /\ hcCell'[k] = "off" /\ hcPc'[k] \notin {"below", "ret"} => hcRuns'[k + 1] = 0
               /\ hcPc'[k] \in {"off", "below"} => hcCell'[k] = "off"
               /\ hcPc'[k] \in {"await", "deaf", "listen"} => hcCell'[k] # "off"
               /\ hcPc'[k] \in {"catch", "ret"} => hcCell'[k] \in {"off", "ok", "err"}
               /\ hcRes'[k] # "none" => hcPc'[k] = "ret"
    BY <1>1 DEF HcNested
  <1>4. ASSUME NEW k \in HcHook, hcPc'[k] = "ret" \/ hcCell'[k] \in {"back", "ok", "err"}
        PROVE  HcDone(k)'
    BY <1>1, <1>2, <1>4 DEF HcNested
  <1> QED BY <1>3, <1>4 DEF HcNested, HcNothingTwice

\* A cell that gets the result beneath.
LEMMA HcCellNested ==
    ASSUME HcTyped, HcNested, NEW h \in HcHook, hcCell[h] # "off", HcDone(h),
           NEW cell \in {"back", "ok", "err"}, hcCell' = [hcCell EXCEPT ![h] = cell],
           cell = "back" => hcCell[h] = "run",
           hcPc' = hcPc, hcRuns' = hcRuns, hcRes' = hcRes
    PROVE  HcNested'
  <1>1. \A k \in HcHook : hcCell'[k] = IF k = h THEN cell ELSE hcCell[k]
    BY DEF HcTyped
  <1>2. \A k \in HcHook : HcDone(k)' <=> HcDone(k)
    BY DEF HcDone
  <1> QED BY <1>1, <1>2 DEF HcNested, HcNothingTwice
-----------------------------------------------------------------------------
(* The frames, where every hook answers within its time.                   *)

HcIn(g, kind) == HcHas(hcIn[hcOwner[g]], kind, g)
HcOut(g, kind) == HcHas(hcOut[hcOwner[g]], kind, g)
HcAnswered(g) == HcHasAnswer(hcOut[hcOwner[g]], g)
HcInOrder(g) == HcOnce(hcIn[hcOwner[g]], "event", g)
HcOutOrder(g) ==
    HcOnce(hcOut[hcOwner[g]], "next", g) /\ HcNextFirst(hcOut[hcOwner[g]], g)

\* what can still start the run beneath g
HcToken(g) == HcIn(g, "event") \/ (hcCtx[g] = "busy" /\ hcNext[g] = "no") \/ HcOut(g, "next")

\* the token is of the hook its mod is asked for, and there is one at most
HcOneToken(g) ==
    /\ HcInOrder(g) /\ HcOutOrder(g)
    /\ HcToken(g) => hcPc[g] = "loop" /\ hcCell[g] = "off" /\ hcActive[hcOwner[g]] = g
    /\ HcIn(g, "event") \/ hcPc[g] = "off" =>
         hcNext[g] = "no" /\ hcCtx[g] = "none" /\ ~HcOut(g, "answer")
    /\ HcOut(g, "next") => hcNext[g] = "pending"
    /\ HcOut(g, "answer") => hcCtx[g] # "busy"
    /\ \A m \in HcMods : hcActive[m] = g => hcOwner[g] = m

\* what was beneath g has its result, or was never started
HcAtRest(g) == hcCell[g] = "off" \/ HcCached(g)

\* a next is on its way, joined to the run beneath, or answered
HcKept(g) ==
    /\ HcIn(g, "result") => HcAtRest(g) /\ ~HcToken(g) /\ hcPc[g] # "off"
    /\ hcNext[g] = "no" => hcCell[g] = "off"
    /\ hcNext[g] \in HcResults => HcAtRest(g)
    /\ hcNext[g] = "pending" /\ hcOwner[g] \in hcAlive =>
         HcOut(g, "next") \/ <<g, g>> \in hcPend \/ HcIn(g, "result")
    /\ <<g, g>> \in hcPend => hcCell[g] \in {"run", "back"}

\* an answer has nothing to wait for
HcPrompt(g) ==
    /\ HcAnswered(g) => hcNext[g] # "pending"
    /\ hcPc[g] \in {"broke", "await"} /\ hcWhy[g] \in {"answered", "refused"} =>
         hcNext[g] # "pending"
    /\ hcPc[g] \in {"deaf", "listen"} => hcWhy[g] \notin {"answered", "refused"}

HcFlow(g) == HcOneToken(g) /\ HcKept(g) /\ HcPrompt(g)
HcFlows == HcNested /\ \A g \in HcHook : HcFlow(g)

\* Where a broker's step reads no next frame of g and sends it no event.
HcQuiet(g) ==
    /\ hcOwner' = hcOwner /\ hcAlive' = hcAlive /\ hcCtx' = hcCtx /\ hcNext' = hcNext
    /\ HcIn(g, "event")' <=> HcIn(g, "event")
    /\ HcIn(g, "result")' <=> HcIn(g, "result")
    /\ HcOut(g, "next")' <=> HcOut(g, "next")
    /\ HcOut(g, "answer")' => HcOut(g, "answer")
    /\ HcAnswered(g)' => HcAnswered(g)
    /\ HcInOrder(g)' /\ HcOutOrder(g)'
-----------------------------------------------------------------------------
\* A run that returns takes the mod's Active entry with it: no other hook has
\* a token then.
LEMMA HcReturnFlow ==
    ASSUME HcTyped, HcNested, NEW h \in HcHook, hcPc[h] \notin {"off", "ret", "loop"}, HcDone(h),
           \A x \in HcHook : HcFlow(x), NEW g \in HcHook, HcQuiet(g),
           HcReturn(h, hcPc, hcActive), hcCell' = hcCell, hcPend' = hcPend,
           \A x \in HcHook : x # h => hcWhy'[x] = hcWhy[x]
    PROVE  HcFlow(g)'
  <1>1. ~HcToken(g)
    BY HcOnlyOne DEF HcFlow, HcOneToken
  <1>2. hcPc'[g] = IF g = h THEN "ret" ELSE hcPc[g]
    BY DEF HcReturn, HcTyped
  <1>3. ~HcToken(g)'
    BY <1>1 DEF HcToken, HcQuiet
  <1>4. HcFlow(g)
    OBVIOUS
  <1>5. \A m \in HcMods : hcActive'[m] = g => hcActive[m] = g
    BY HcNumbered DEF HcReturn, HcTyped
  <1>6. HcOneToken(g)'
    BY <1>2, <1>3, <1>4, <1>5 DEF HcFlow, HcOneToken, HcQuiet, HcToken
  <1>7. HcKept(g)'
    BY <1>2, <1>3, <1>4 DEF HcFlow, HcKept, HcQuiet, HcAtRest, HcCached
  <1>8. HcPrompt(g)'
    BY <1>2, <1>4 DEF HcFlow, HcPrompt, HcQuiet
  <1> QED BY <1>6, <1>7, <1>8 DEF HcFlow

\* A run that moves on, its cell as it was.
LEMMA HcMoveFlow ==
    ASSUME HcTyped, NEW h \in HcHook, NEW pc \in HcPcs \ {"off"},
           hcPc' = [hcPc EXCEPT ![h] = pc], hcPc[h] # "off",
           HcToken(h)' => pc = "loop" /\ hcPc[h] = "loop",
           NEW g \in HcHook, HcFlow(g), HcQuiet(g),
           hcCell' = hcCell, hcPend' = hcPend,
           hcActive' = hcActive \/ hcActive' = [hcActive EXCEPT ![hcOwner[h]] = h],
           HcToken(g) => hcActive'[hcOwner[g]] = hcActive[hcOwner[g]],
           \A x \in HcHook : x # h => hcWhy'[x] = hcWhy[x],
           pc \in {"broke", "await"} /\ hcWhy'[h] \in {"answered", "refused"}
             => hcNext[h] # "pending",
           pc \in {"deaf", "listen"} => hcWhy'[h] \notin {"answered", "refused"}
    PROVE  HcFlow(g)'
  <1>1. hcPc'[g] = IF g = h THEN pc ELSE hcPc[g]
    BY DEF HcTyped
  <1>2. HcToken(g)' => HcToken(g)
    BY DEF HcToken, HcQuiet
  <1>3. HcToken(g)' => hcPc'[g] = "loop" /\ hcCell'[g] = "off" /\ (hcActive[hcOwner[g]] = g)'
    BY <1>1, <1>2 DEF HcFlow, HcOneToken, HcQuiet
  <1>4. \A m \in HcMods : hcActive'[m] = g => hcActive[m] = g \/ (g = h /\ hcOwner[h] = m)
    BY DEF HcTyped
  <1>5. HcOneToken(g)'
    BY <1>1, <1>3, <1>4 DEF HcFlow, HcOneToken, HcQuiet
  <1>6. HcKept(g)'
    BY DEF HcFlow, HcKept, HcQuiet, HcAtRest, HcToken, HcCached
  <1>7. HcPrompt(g)'
    BY <1>1 DEF HcFlow, HcPrompt, HcQuiet
  <1> QED BY <1>5, <1>6, <1>7 DEF HcFlow

\* A run that starts beneath h takes over: h has no token left, and the one
\* that starts has its event frame.
LEMMA HcStartFlow ==
    ASSUME HcTyped, HcNested, \A x \in HcHook : HcFlow(x),
           NEW h \in HcHook, hcPc[h] \in {"loop", "catch"}, hcCell[h] = "off",
           NEW pc, NEW in \in [HcMods -> Seq(HcToRunner)],
           HcRunFrom(h + 1), HcBegin(h + 1, pc, in),
           \/ /\ pc = hcPc /\ hcPc[h] = "loop" /\ hcCell' = [hcCell EXCEPT ![h] = "run"]
              /\ hcPend' = hcPend \cup {<<h, h>>} /\ hcNext[h] = "pending" /\ HcOut(h, "next")
           \/ /\ pc = [hcPc EXCEPT ![h] = "below"] /\ hcPc[h] = "catch"
              /\ hcCell' = hcCell /\ hcPend' = hcPend,
           hcOwner' = hcOwner, hcAlive' = hcAlive, hcCtx' = hcCtx, hcNext' = hcNext,
           \A x \in HcHook : x # h => hcWhy'[x] = hcWhy[x],
           NEW g \in HcHook,
           HcHas(in[hcOwner[g]], "event", g) <=> HcIn(g, "event"),
           HcHas(in[hcOwner[g]], "result", g) <=> HcIn(g, "result"),
           HcOnce(in[hcOwner[g]], "event", g),
           HcOut(g, "next")' <=> HcOut(g, "next") /\ g # h,
           HcOut(g, "answer")' => HcOut(g, "answer"),
           HcAnswered(g)' => HcAnswered(g), HcOutOrder(g)'
    PROVE  HcFlow(g)'
  <1> DEFINE k == h + 1
  <1>1. HcDone(h)
    BY HcDeepest
  <1>2. HcToken(g) => g = h
    BY <1>1, HcOnlyOne DEF HcFlow, HcOneToken
  <1>3. HcFlow(g) /\ HcFlow(h) /\ h # k
    BY HcNumbered
  <1>4. /\ HcStarts(k) <=> k \in HcHook
        /\ k \in HcHook => hcPc[k] = "off" /\ hcCell[k] = "off" /\ hcPc' = [pc EXCEPT ![k] = "loop"]
        /\ k \notin HcHook => hcPc' = pc
    BY HcStartNested
  <1>5. /\ hcPc'[g] = IF g = k THEN "loop" ELSE pc[g]
        /\ pc[g] = IF g = h /\ hcPc[h] = "catch" THEN "below" ELSE hcPc[g]
    BY <1>4 DEF HcTyped
  <1>6. /\ g # h => hcCell'[g] = hcCell[g] /\ (<<g, g>> \in hcPend' <=> <<g, g>> \in hcPend)
        /\ g = k => g \in HcHook
    BY DEF HcTyped
  <1>7. g = k => ~HcIn(g, "event")
    BY <1>2, <1>3 DEF HcToken
  <1>8. /\ HcIn(g, "event")' => HcIn(g, "event") \/ g = k
        /\ HcIn(g, "result")' <=> HcIn(g, "result")
        /\ HcInOrder(g)'
        /\ g = k => hcActive'[hcOwner[g]] = g
        /\ \A m \in HcMods : hcActive'[m] = g => hcOwner[g] = m
    <2>0. hcOwner[g] \in HcMods
      BY DEF HcTyped
    <2>1. CASE k \in HcHook
      <3>0. [kind |-> "event", of |-> k] \in HcToRunner
        BY <2>1 DEF HcToRunner
      <3>1. PICK e \in HcToRunner :
              e = [kind |-> "event", of |-> k] /\ e.kind = "event" /\ e.of = k
        BY <3>0
      <3>2. /\ hcIn' = HcSent(in, hcOwner[k], <<e>>) /\ hcOwner[k] \in HcMods
            /\ hcActive' = [hcActive EXCEPT ![hcOwner[k]] = k]
        BY <1>4, <2>1, <3>1 DEF HcBegin, HcTyped
      <3>3. /\ \A kind : HcHas(hcIn'[hcOwner[g]], kind, g)
                 <=> \/ HcHas(in[hcOwner[g]], kind, g)
                     \/ hcOwner[g] = hcOwner[k] /\ hcOwner[k] \in hcAlive /\ e.kind = kind /\ e.of = g
            /\ HcOnce(in[hcOwner[g]], "event", g)
               /\ ~(HcHas(in[hcOwner[g]], "event", g) /\ e.of = g)
                 => HcOnce(hcIn'[hcOwner[g]], "event", g)
        <4>1. \A m, x \in HcMods :
                /\ \A kind : HcHas(HcSent(in, m, <<e>>)[x], kind, g)
                     <=> \/ HcHas(in[x], kind, g)
                         \/ x = m /\ m \in hcAlive /\ e.kind = kind /\ e.of = g
                /\ HcOnce(in[x], "event", g)
                   /\ ~(x = m /\ HcHas(in[x], "event", g) /\ e.kind = "event" /\ e.of = g)
                     => HcOnce(HcSent(in, m, <<e>>)[x], "event", g)
          BY HcSentHas
        <4> QED BY <2>0, <3>1, <3>2, <4>1
      <3>4. HcIn(g, "event")' => HcIn(g, "event") \/ g = k
        BY <3>1, <3>3 DEF HcIn
      <3>5. HcIn(g, "result")' <=> HcIn(g, "result")
        BY <3>1, <3>3 DEF HcIn
      <3>6. HcInOrder(g)'
        BY <1>7, <3>1, <3>3 DEF HcInOrder
      <3>7. g = k => hcActive'[hcOwner[g]] = g
        BY <3>2 DEF HcTyped
      <3>8. \A m \in HcMods : hcActive'[m] = g => hcOwner[g] = m
        BY <1>3, <3>2 DEF HcTyped, HcFlow, HcOneToken
      <3> QED BY <3>4, <3>5, <3>6, <3>7, <3>8
    <2>2. CASE k \notin HcHook
      BY <1>3, <1>4, <2>2 DEF HcBegin, HcIn, HcInOrder, HcFlow, HcOneToken
    <2> QED BY <2>1, <2>2
  <1>9. HcToken(g)' => g = k
    <2>1. CASE g = h
      <3>1. ~HcIn(h, "event") /\ ~(hcCtx[h] = "busy" /\ hcNext[h] = "no")
        BY <1>3 DEF HcFlow, HcOneToken, HcToken
      <3> QED BY <1>8, <2>1, <3>1 DEF HcToken
    <2>2. CASE g # h
      BY <1>2, <1>8, <2>2 DEF HcToken
    <2> QED BY <2>1, <2>2
  <1>10. HcOneToken(g)'
    <2>1. CASE g = k
      <3>1. hcPc[g] = "off" /\ hcCell'[g] = "off" /\ hcPc'[g] = "loop"
        BY <1>4, <1>5, <1>6, <1>3, <2>1
      <3> QED BY <1>3, <1>8, <2>1, <3>1 DEF HcFlow, HcOneToken
    <2>2. CASE g # k
      <3>1. ~HcToken(g)'
        BY <1>9, <2>2
      <3>2. hcPc'[g] = "off" => hcPc[g] = "off"
        BY <1>5, <2>2
      <3>3. ~HcIn(g, "event")' /\ ~HcOut(g, "next")'
        BY <3>1 DEF HcToken
      <3> QED BY <1>3, <1>8, <3>1, <3>2, <3>3 DEF HcFlow, HcOneToken
    <2> QED BY <2>1, <2>2
  <1>11. HcKept(g)'
    <2>1. CASE g = h
      <3>0. ~HcToken(h)' /\ hcPc'[h] # "off"
        BY <1>3, <1>5, <1>9, <2>1
      <3>1. CASE hcPc[h] = "catch" /\ hcCell' = hcCell /\ hcPend' = hcPend
        <4>1. ~HcOut(h, "next")
          BY <1>3, <3>1 DEF HcFlow, HcOneToken, HcToken
        <4> QED BY <1>3, <1>8, <2>1, <3>0, <3>1, <4>1 DEF HcFlow, HcKept, HcAtRest, HcCached
      <3>2. CASE /\ hcCell' = [hcCell EXCEPT ![h] = "run"] /\ hcNext[h] = "pending"
                 /\ hcPend' = hcPend \cup {<<h, h>>} /\ HcOut(h, "next")
        <4>1. hcCell'[h] = "run" /\ <<h, h>> \in hcPend' /\ hcNext'[h] = "pending"
          BY <3>2 DEF HcTyped
        <4>2. ~HcIn(h, "result")
          BY <1>3, <3>2 DEF HcFlow, HcKept, HcToken
        <4> QED BY <1>8, <2>1, <4>1, <4>2 DEF HcKept, HcResults
      <3> QED BY <3>1, <3>2
    <2>2. CASE g # h /\ g # k
      <3>1. ~HcToken(g)' /\ (hcPc'[g] = "off" <=> hcPc[g] = "off")
        BY <1>5, <1>9, <2>2
      <3> QED BY <1>3, <1>6, <1>8, <2>2, <3>1 DEF HcFlow, HcKept, HcAtRest, HcCached
    <2>3. CASE g = k
      <3>1. hcPc[g] = "off" /\ hcCell'[g] = "off" /\ hcCell[g] = "off"
        BY <1>4, <1>6, <1>3, <2>3
      <3>2. ~HcIn(g, "result") /\ hcNext[g] = "no"
        BY <1>3, <3>1 DEF HcFlow, HcKept, HcOneToken
      <3> QED BY <1>3, <1>6, <1>8, <2>3, <3>1, <3>2 DEF HcFlow, HcKept, HcResults
    <2> QED BY <2>1, <2>2, <2>3
  <1>12. HcPrompt(g)'
    <2>1. CASE g = h \/ g = k
      <3>1. hcPc'[g] \in {"loop", "below"}
        BY <1>3, <1>5, <2>1
      <3> QED BY <1>3, <3>1 DEF HcFlow, HcPrompt
    <2>2. CASE g # h /\ g # k
      BY <1>3, <1>5, <2>2 DEF HcFlow, HcPrompt
    <2> QED BY <2>1, <2>2
  <1> QED BY <1>10, <1>11, <1>12 DEF HcFlow

\* A frame read that is no next frame: what it says of g's frames.
LEMMA HcTakeOut ==
    ASSUME HcTyped, HcGoodOut, NEW m \in HcMods, HcTake(m), hcOwner' = hcOwner,
           NEW g \in HcHook, HcOutOrder(g)
    PROVE  /\ HcOut(g, "next") <=> \/ HcOut(g, "next")'
                                   \/ Head(hcOut[m]).kind = "next" /\ Head(hcOut[m]).of = g
           /\ HcOut(g, "answer")' => HcOut(g, "answer")
           /\ HcAnswered(g)' => HcAnswered(g)
           /\ HcOutOrder(g)'
           /\ Head(hcOut[m]).kind = "next" /\ Head(hcOut[m]).of = g => ~HcOut(g, "next")'
           /\ Head(hcOut[m]).kind = "answer" /\ Head(hcOut[m]).of = g =>
                /\ HcOut(g, "answer") /\ ~HcOut(g, "next")'
                /\ Head(hcOut[m]).res = "answered" => HcAnswered(g)
           /\ Head(hcOut[m]).kind \in {"next", "answer"} /\ Head(hcOut[m]).of = g => hcOwner[g] = m
  <1> DEFINE s == hcOut[m]
             f == Head(hcOut[m])
  <1>1. /\ s \in Seq(HcToBroker) /\ s # <<>>
        /\ \A x \in HcMods : hcOut'[x] = IF x = m THEN Tail(s) ELSE hcOut[x]
    BY HcTakeTyped
  <1>2. /\ \A kind, x : HcHas(s, kind, x) <=> HcHas(Tail(s), kind, x) \/ (f.kind = kind /\ f.of = x)
        /\ \A x : HcHasAnswer(s, x) <=> HcHasAnswer(Tail(s), x)
                    \/ (f.kind = "answer" /\ f.of = x /\ f.res = "answered")
    BY <1>1, HcTaken
  <1>3. /\ HcOnce(s, "next", g) =>
             /\ HcOnce(Tail(s), "next", g)
             /\ f.kind = "next" /\ f.of = g => ~HcHas(Tail(s), "next", g)
        /\ HcNextFirst(s, g) =>
             /\ HcNextFirst(Tail(s), g)
             /\ f.kind = "answer" /\ f.of = g => ~HcHas(Tail(s), "next", g)
    BY <1>1, HcTakenOrder
  <1>4. hcOwner[g] \in HcMods
    BY DEF HcTyped
  <1>5. f.kind \in {"next", "answer"} /\ f.of = g => hcOwner[g] = m
    BY <1>2 DEF HcGoodOut
  <1> HIDE DEF s, f
  <1>6. CASE hcOwner[g] = m
    <2>1. hcOut[m] = s /\ hcOut'[m] = Tail(s)
      BY <1>1 DEF s
    <2> QED BY <1>2, <1>3, <1>6, <2>1 DEF HcOut, HcAnswered, HcOutOrder, f
  <1>7. CASE hcOwner[g] # m
    <2>1. hcOut'[hcOwner[g]] = hcOut[hcOwner[g]]
      BY <1>1, <1>4, <1>7
    <2> QED BY <1>5, <1>7, <2>1 DEF HcOut, HcAnswered, HcOutOrder, f
  <1> QED BY <1>6, <1>7

\* A frame sent that is neither an event nor a result changes none of them.
LEMMA HcSentQuiet ==
    ASSUME HcTyped, NEW m \in HcMods, NEW e \in HcToRunner, e.kind \notin {"event", "result"},
           NEW g \in HcHook
    PROVE  /\ HcSent(hcIn, m, <<e>>) \in [HcMods -> Seq(HcToRunner)]
           /\ HcHas(HcSent(hcIn, m, <<e>>)[hcOwner[g]], "event", g) <=> HcIn(g, "event")
           /\ HcHas(HcSent(hcIn, m, <<e>>)[hcOwner[g]], "result", g) <=> HcIn(g, "result")
           /\ HcInOrder(g) => HcOnce(HcSent(hcIn, m, <<e>>)[hcOwner[g]], "event", g)
  <1>1. hcOwner[g] \in HcMods /\ hcIn \in [HcMods -> Seq(HcToRunner)]
    BY DEF HcTyped
  <1>2. \A x \in HcMods :
          /\ \A kind : HcHas(HcSent(hcIn, m, <<e>>)[x], kind, g)
               <=> HcHas(hcIn[x], kind, g) \/ (x = m /\ m \in hcAlive /\ e.kind = kind /\ e.of = g)
          /\ HcOnce(hcIn[x], "event", g)
             /\ ~(x = m /\ HcHas(hcIn[x], "event", g) /\ e.kind = "event" /\ e.of = g)
               => HcOnce(HcSent(hcIn, m, <<e>>)[x], "event", g)
    BY <1>1, HcSentHas
  <1>3. HcSent(hcIn, m, <<e>>) \in [HcMods -> Seq(HcToRunner)]
    BY <1>1, HcSentOne
  <1> QED BY <1>1, <1>2, <1>3 DEF HcIn, HcInOrder

\* Nothing but frames that matter to nobody.
LEMMA HcStill ==
    ASSUME HcNested, UNCHANGED <<hcPc, hcWhy, hcCell, hcPend, hcActive, hcRuns, hcRes>>
    PROVE  /\ HcNested'
           /\ \A g \in HcHook : HcFlow(g) /\ HcQuiet(g) => HcFlow(g)'
  <1>1. HcNested'
    BY DEF HcNested, HcNothingTwice, HcDone
  <1>2. ASSUME NEW g \in HcHook, HcFlow(g), HcQuiet(g) PROVE HcFlow(g)'
    <2>1. HcOneToken(g)'
      BY <1>2 DEF HcFlow, HcOneToken, HcToken, HcQuiet
    <2>2. HcKept(g)'
      BY <1>2 DEF HcFlow, HcKept, HcQuiet, HcAtRest, HcToken, HcCached
    <2>3. HcPrompt(g)'
      BY <1>2 DEF HcFlow, HcPrompt, HcQuiet
    <2> QED BY <2>1, <2>2, <2>3 DEF HcFlow
  <1> QED BY <1>1, <1>2

\* A verdict on a hook that has no token.
LEMMA HcVerdictFlow ==
    ASSUME HcTyped, HcNested, \A g \in HcHook : HcFlow(g),
           NEW h \in HcHook, HcLoops(h), NEW why, NEW in \in [HcMods -> Seq(HcToRunner)],
           HcVerdict(h, why, in),
           hcOwner' = hcOwner, hcAlive' = hcAlive, hcCtx' = hcCtx, hcNext' = hcNext,
           \A g \in HcHook :
             /\ HcHas(in[hcOwner[g]], "event", g) <=> HcIn(g, "event")
             /\ HcHas(in[hcOwner[g]], "result", g) <=> HcIn(g, "result")
             /\ HcOnce(in[hcOwner[g]], "event", g)
             /\ HcOut(g, "next")' <=> HcOut(g, "next")
             /\ HcOut(g, "answer")' => HcOut(g, "answer")
             /\ HcAnswered(g)' => HcAnswered(g)
             /\ HcOutOrder(g)',
           ~HcToken(h),
           hcPc[h] = "loop" /\ why \in {"answered", "refused"} => hcNext[h] # "pending"
    PROVE  HcNested' /\ \A g \in HcHook : HcFlow(g)'
  <1>1. /\ hcWhy' = [hcWhy EXCEPT ![h] = why] /\ hcCell' = hcCell /\ hcPend' = hcPend
        /\ \A x \in HcHook : x # h => hcWhy'[x] = hcWhy[x]
        /\ hcWhy'[h] = why
    BY DEF HcVerdict, HcTyped
  <1>2. ASSUME hcIn' = in, NEW g \in HcHook PROVE HcQuiet(g)
    <2>1. /\ HcIn(g, "event")' <=> HcIn(g, "event")
          /\ HcIn(g, "result")' <=> HcIn(g, "result")
          /\ HcInOrder(g)'
      BY <1>2 DEF HcIn, HcInOrder
    <2> QED BY <2>1 DEF HcQuiet
  <1>3. CASE hcPc[h] = "loop"
    <2>1. /\ hcPc' = [hcPc EXCEPT ![h] = "broke"] /\ hcIn' = in
          /\ hcActive' = hcActive /\ hcRuns' = hcRuns /\ hcRes' = hcRes
      BY <1>3 DEF HcVerdict, HcPcTo
    <2>2. HcNested'
      BY <1>1, <1>3, <2>1, HcMoveNested
    <2>3. ASSUME NEW g \in HcHook PROVE HcFlow(g)'
      <3>1. ~HcToken(h)'
        BY <1>2, <2>1 DEF HcToken, HcQuiet
      <3>2. "broke" \in HcPcs \ {"off"}
        BY DEF HcPcs
      <3>3. HcQuiet(g)
        BY <1>2, <2>1
      <3> QED BY <1>1, <1>3, <2>1, <3>1, <3>2, <3>3, HcMoveFlow
    <2> QED BY <2>2, <2>3
  <1>4. CASE hcPc[h] = "catch" /\ why # "answered" /\ HcUnrun(h)
    <2>1. HcRunFrom(h + 1) /\ HcBegin(h + 1, [hcPc EXCEPT ![h] = "below"], in)
      BY <1>4 DEF HcVerdict
    <2>2. hcCell[h] = "off"
      BY <1>4 DEF HcUnrun, HcCached, HcNested
    <2>3. HcNested'
      BY <1>1, <1>4, <2>1, <2>2, HcStartNested
    <2>4. ~HcOut(h, "next")
      BY DEF HcToken
    <2>5. ASSUME NEW g \in HcHook PROVE HcFlow(g)'
      BY <1>1, <1>4, <2>1, <2>2, <2>4, HcStartFlow
    <2> QED BY <2>3, <2>5
  <1>5. CASE hcPc[h] = "catch" /\ ~(why # "answered" /\ HcUnrun(h))
    <2>1. /\ HcReturn(h, hcPc, hcActive) /\ hcIn' = in /\ hcRuns' = hcRuns
          /\ \E r : hcRes' = [hcRes EXCEPT ![h] = r]
      BY <1>5 DEF HcVerdict
    <2>2. hcCell[h] \in {"off", "ok", "err"} /\ HcDone(h)
      BY <1>5, HcDeepest DEF HcNested
    <2>3. HcNested'
      BY <1>1, <1>5, <2>1, <2>2, HcReturnNested
    <2>4. ASSUME NEW g \in HcHook PROVE HcFlow(g)'
      <3>1. HcQuiet(g)
        BY <1>2, <2>1
      <3> QED BY <1>1, <1>5, <2>1, <2>2, <3>1, HcReturnFlow
    <2> QED BY <2>3, <2>4
  <1> QED BY <1>3, <1>4, <1>5 DEF HcLoops
-----------------------------------------------------------------------------
(* The broker's steps.                                                     *)

\* A next frame is of the hook the Active entry names, and starts the run
\* beneath it.
LEMMA HcReadNextFlows ==
    ASSUME HcTyped, HcCarried, HcFlows, NEW m \in HcMods, HcReadNext(m)
    PROVE  HcFlows'
  <1> DEFINE h == Head(hcOut[m]).of
  <1>1. /\ HcTake(m) /\ Head(hcOut[m]).kind = "next" /\ h \in HcHook
        /\ HcGoodOut
        /\ hcOwner' = hcOwner /\ hcAlive' = hcAlive /\ hcCtx' = hcCtx /\ hcNext' = hcNext
    <2>1. HcTake(m) /\ Head(hcOut[m]).kind = "next" /\ HcBrokerOnly
      BY DEF HcReadNext
    <2>2. Head(hcOut[m]) \in HcToBroker
      BY <2>1, HcTakeTyped
    <2> QED BY <2>1, <2>2, HcFrameFields DEF HcBrokerOnly, hcRunner, HcCarried
  <1>2. HcNested /\ \A g \in HcHook : HcFlow(g)
    BY DEF HcFlows
  <1>3. \A g \in HcHook :
          /\ HcOut(g, "next") <=> HcOut(g, "next")' \/ h = g
          /\ HcOut(g, "answer")' => HcOut(g, "answer")
          /\ HcAnswered(g)' => HcAnswered(g)
          /\ HcOutOrder(g)'
          /\ h = g => ~HcOut(g, "next")' /\ hcOwner[g] = m
    BY <1>1, <1>2, HcTakeOut DEF HcFlow, HcOneToken
  <1>4. HcOut(h, "next") /\ hcOwner[h] = m
    BY <1>1, <1>3
  <1>5. /\ hcPc[h] = "loop" /\ hcCell[h] = "off" /\ hcActive[m] = h /\ hcNext[h] = "pending"
        /\ h # 0
    BY <1>1, <1>2, <1>4, HcNumbered DEF HcFlow, HcOneToken, HcToken
  <1> HIDE DEF h
  <1>6. CASE /\ hcPend' = hcPend \cup {<<h, h>>} /\ hcCell' = [hcCell EXCEPT ![h] = "run"]
             /\ HcRunFrom(h + 1) /\ HcBegin(h + 1, hcPc, hcIn) /\ hcWhy' = hcWhy
    <2>1. HcNested'
      BY <1>1, <1>2, <1>5, <1>6, HcStartNested
    <2>2. ASSUME NEW g \in HcHook PROVE HcFlow(g)'
      <3>1. /\ HcHas(hcIn[hcOwner[g]], "event", g) <=> HcIn(g, "event")
            /\ HcHas(hcIn[hcOwner[g]], "result", g) <=> HcIn(g, "result")
            /\ HcOnce(hcIn[hcOwner[g]], "event", g)
        BY <1>2 DEF HcIn, HcFlow, HcOneToken, HcInOrder
      <3>2. HcOut(g, "next")' <=> HcOut(g, "next") /\ g # h
        BY <1>3
      <3>3. hcIn \in [HcMods -> Seq(HcToRunner)]
        BY DEF HcTyped
      <3> QED BY <1>1, <1>2, <1>3, <1>4, <1>5, <1>6, <3>1, <3>2, <3>3, HcStartFlow
    <2> QED BY <2>1, <2>2 DEF HcFlows
  <1>7. CASE HcRefused(m, h) /\ UNCHANGED hcBroker
    <2>1. UNCHANGED <<hcPc, hcWhy, hcCell, hcPend, hcActive, hcRuns, hcRes>>
      BY <1>7 DEF hcBroker
    <2>2. HcNested'
      BY <1>2, <2>1, HcStill
    <2>3. [kind |-> "result", of |-> h, res |-> "err"] \in HcToRunner
      BY <1>1 DEF HcToRunner, HcResults, h
    <2>4. PICK e \in HcToRunner : /\ e = [kind |-> "result", of |-> h, res |-> "err"]
                                  /\ e.kind = "result" /\ e.of = h
      BY <2>3
    <2>5. hcIn' = HcSent(hcIn, m, <<e>>)
      BY <1>7, <2>4 DEF HcRefused, HcTo
    <2>6. ASSUME NEW g \in HcHook PROVE HcFlow(g)'
      <3>0. hcOwner[g] \in HcMods /\ hcIn \in [HcMods -> Seq(HcToRunner)]
        BY DEF HcTyped
      <3>1. /\ \A kind : HcHas(hcIn'[hcOwner[g]], kind, g)
                 <=> \/ HcHas(hcIn[hcOwner[g]], kind, g)
                     \/ hcOwner[g] = m /\ m \in hcAlive /\ kind = "result" /\ g = h
            /\ HcOnce(hcIn[hcOwner[g]], "event", g) => HcOnce(hcIn'[hcOwner[g]], "event", g)
        <4>1. \A x \in HcMods :
                /\ \A kind : HcHas(HcSent(hcIn, m, <<e>>)[x], kind, g)
                     <=> \/ HcHas(hcIn[x], kind, g)
                         \/ x = m /\ m \in hcAlive /\ e.kind = kind /\ e.of = g
                /\ HcOnce(hcIn[x], "event", g)
                   /\ ~(x = m /\ HcHas(hcIn[x], "event", g) /\ e.kind = "event" /\ e.of = g)
                     => HcOnce(HcSent(hcIn, m, <<e>>)[x], "event", g)
          BY <3>0, HcSentHas
        <4> QED BY <2>4, <2>5, <3>0, <4>1
      <3>2. /\ HcIn(g, "event")' <=> HcIn(g, "event")
            /\ HcIn(g, "result")' <=> HcIn(g, "result") \/ (g = h /\ m \in hcAlive)
            /\ HcInOrder(g)'
        BY <1>1, <1>2, <1>4, <3>1 DEF HcIn, HcInOrder, HcFlow, HcOneToken
      <3>3. HcToken(g)' => HcToken(g)
        BY <1>1, <1>3, <3>2 DEF HcToken
      <3>4. g = h => ~HcToken(g)'
        BY <1>1, <1>2, <1>3, <1>5, <3>2 DEF HcToken, HcFlow, HcOneToken
      <3>5. HcFlow(g)
        BY <1>2
      <3>6. HcOneToken(g)'
        BY <1>1, <1>3, <2>1, <3>2, <3>3, <3>5 DEF HcFlow, HcOneToken
      <3>7. HcKept(g)'
        <4>1. CASE g = h
          <5>1. hcPc'[g] = "loop" /\ hcCell'[g] = "off" /\ hcNext'[g] = "pending"
            BY <1>1, <1>5, <2>1, <4>1
          <5>2. hcOwner'[g] \in hcAlive' => HcIn(g, "result")'
            BY <1>1, <1>4, <3>2, <4>1
          <5>3. <<g, g>> \notin hcPend'
            BY <1>5, <2>1, <3>5, <4>1 DEF HcFlow, HcKept
          <5> QED BY <3>4, <4>1, <5>1, <5>2, <5>3 DEF HcKept, HcAtRest, HcResults
        <4>2. CASE g # h
          BY <1>1, <1>3, <2>1, <3>2, <3>3, <3>5, <4>2 DEF HcFlow, HcKept, HcAtRest, HcCached
        <4> QED BY <4>1, <4>2
      <3>8. HcPrompt(g)'
        BY <1>1, <1>3, <2>1, <3>5 DEF HcFlow, HcPrompt
      <3> QED BY <3>6, <3>7, <3>8 DEF HcFlow
    <2> QED BY <2>2, <2>6 DEF HcFlows
  <1> QED BY <1>5, <1>6, <1>7 DEF HcReadNext, HcLoops, HcCached, HcJoined, h

\* A frame that is read and no next frame.
LEMMA HcTakeQuiet ==
    ASSUME HcTyped, HcCarried, HcFlows, NEW m \in HcMods, HcTake(m), HcBrokerOnly,
           Head(hcOut[m]).kind # "next"
    PROVE  /\ hcOwner' = hcOwner /\ hcAlive' = hcAlive /\ hcCtx' = hcCtx /\ hcNext' = hcNext
           /\ \A g \in HcHook :
                /\ HcOut(g, "next")' <=> HcOut(g, "next")
                /\ HcOut(g, "answer")' => HcOut(g, "answer")
                /\ HcAnswered(g)' => HcAnswered(g)
                /\ HcOutOrder(g)'
                /\ Head(hcOut[m]).kind = "answer" /\ Head(hcOut[m]).of = g =>
                     /\ HcOut(g, "answer") /\ ~HcOut(g, "next")
                     /\ Head(hcOut[m]).res = "answered" => HcAnswered(g)
           /\ hcIn' = hcIn => \A g \in HcHook : HcQuiet(g)
  <1>1. hcOwner' = hcOwner /\ hcAlive' = hcAlive /\ hcCtx' = hcCtx /\ hcNext' = hcNext
    BY DEF HcBrokerOnly, hcRunner
  <1>2. HcGoodOut /\ \A g \in HcHook : HcOutOrder(g) /\ HcInOrder(g)
    BY DEF HcCarried, HcFlows, HcFlow, HcOneToken
  <1>3. \A g \in HcHook :
                /\ HcOut(g, "next")' <=> HcOut(g, "next")
                /\ HcOut(g, "answer")' => HcOut(g, "answer")
                /\ HcAnswered(g)' => HcAnswered(g)
                /\ HcOutOrder(g)'
                /\ Head(hcOut[m]).kind = "answer" /\ Head(hcOut[m]).of = g =>
                     /\ HcOut(g, "answer") /\ ~HcOut(g, "next")
                     /\ Head(hcOut[m]).res = "answered" => HcAnswered(g)
    BY <1>1, <1>2, HcTakeOut
  <1>4. ASSUME hcIn' = hcIn, NEW g \in HcHook PROVE HcQuiet(g)
    <2>1. /\ HcIn(g, "event")' <=> HcIn(g, "event")
          /\ HcIn(g, "result")' <=> HcIn(g, "result")
          /\ HcInOrder(g)'
      BY <1>1, <1>2, <1>4 DEF HcIn, HcInOrder
    <2> QED BY <1>1, <1>3, <2>1 DEF HcQuiet
  <1> QED BY <1>1, <1>3, <1>4

\* A reply finds its hook without a token: the next frame is ahead of the
\* answer, and a hook that has answered calls no more.
LEMMA HcReadReplyFlows ==
    ASSUME HcTyped, HcCarried, HcFlows, NEW m \in HcMods, HcReadReply(m)
    PROVE  HcFlows'
  <1> DEFINE f == Head(hcOut[m])
             h == Head(hcOut[m]).of
  <1>1. HcTake(m) /\ f.kind \in {"answer", "caught"} /\ HcBrokerOnly
    BY DEF HcReadReply
  <1>2. f \in HcToBroker /\ h \in HcHook
        /\ f.res \in {"answered", "throw", "core", "nocatch"}
    BY <1>1, HcTakeTyped, HcFrameFields
  <1>3. HcNested /\ \A g \in HcHook : HcFlow(g)
    BY DEF HcFlows
  <1>4. /\ hcOwner' = hcOwner /\ hcAlive' = hcAlive /\ hcCtx' = hcCtx /\ hcNext' = hcNext
        /\ \A g \in HcHook :
                /\ HcOut(g, "next")' <=> HcOut(g, "next")
                /\ HcOut(g, "answer")' => HcOut(g, "answer")
                /\ HcAnswered(g)' => HcAnswered(g)
                /\ HcOutOrder(g)'
                /\ f.kind = "answer" /\ h = g =>
                     /\ HcOut(g, "answer") /\ ~HcOut(g, "next")
                     /\ f.res = "answered" => HcAnswered(g)
        /\ hcIn' = hcIn => \A g \in HcHook : HcQuiet(g)
    BY <1>1, HcTakeQuiet
  <1> HIDE DEF f, h
  <1>5. CASE hcPc[h] = (IF f.kind = "answer" THEN "loop" ELSE "catch")
    <2>1. PICK why \in HcClassified(f.res) : HcVerdict(h, why, hcIn)
      BY <1>5 DEF HcReadReply, f, h
    <2>2. HcLoops(h)
      BY <1>1, <1>5 DEF HcLoops
    <2>3. ~HcToken(h)
      <3>1. CASE f.kind = "answer"
        <4>1. HcOut(h, "answer") /\ ~HcOut(h, "next")
          BY <1>2, <1>4, <3>1
        <4> QED BY <1>2, <1>3, <4>1 DEF HcFlow, HcOneToken, HcToken
      <3>2. CASE f.kind # "answer"
        BY <1>2, <1>3, <1>5, <3>2 DEF HcFlow, HcOneToken
      <3> QED BY <3>1, <3>2
    <2>4. hcPc[h] = "loop" /\ why \in {"answered", "refused"} => hcNext[h] # "pending"
      <3> SUFFICES ASSUME hcPc[h] = "loop", why \in {"answered", "refused"}
                   PROVE hcNext[h] # "pending"
        OBVIOUS
      <3>1. f.kind = "answer" /\ f.res = "answered"
        BY <1>2, <1>5, <2>1 DEF HcClassified
      <3> QED BY <1>2, <1>3, <1>4, <3>1 DEF HcFlow, HcPrompt
    <2>5. \A g \in HcHook :
            /\ HcHas(hcIn[hcOwner[g]], "event", g) <=> HcIn(g, "event")
            /\ HcHas(hcIn[hcOwner[g]], "result", g) <=> HcIn(g, "result")
            /\ HcOnce(hcIn[hcOwner[g]], "event", g)
      BY <1>3 DEF HcIn, HcFlow, HcOneToken, HcInOrder
    <2>6. hcIn \in [HcMods -> Seq(HcToRunner)]
      BY DEF HcTyped
    <2> QED BY <1>2, <1>3, <1>4, <2>1, <2>2, <2>3, <2>4, <2>5, <2>6, HcVerdictFlow DEF HcFlows
  <1>6. CASE hcPc[h] # (IF f.kind = "answer" THEN "loop" ELSE "catch")
    <2>1. UNCHANGED <<hcBroker, hcIn>>
      BY <1>6 DEF HcReadReply, f, h
    <2> QED BY <1>3, <1>4, <2>1, HcStill DEF HcFlows, hcBroker
  <1> QED BY <1>5, <1>6

\* A death leaves no token: the runner's hooks and frames are gone, and the
\* death is the last frame from it.
LEMMA HcReadDeadFlows ==
    ASSUME HcTyped, HcCarried, HcFlows, NEW m \in HcMods, HcReadDead(m)
    PROVE  HcFlows'
  <1>0. PICK h \in HcHook \cup {0} : h = hcActive[m]
    BY DEF HcTyped
  <1>1. HcTake(m) /\ Head(hcOut[m]).kind = "dead" /\ HcBrokerOnly
    BY DEF HcReadDead
  <1>2. HcNested /\ \A g \in HcHook : HcFlow(g)
    BY DEF HcFlows
  <1>3. /\ hcOwner' = hcOwner /\ hcAlive' = hcAlive /\ hcCtx' = hcCtx /\ hcNext' = hcNext
        /\ \A g \in HcHook :
                /\ HcOut(g, "next")' <=> HcOut(g, "next")
                /\ HcOut(g, "answer")' => HcOut(g, "answer")
                /\ HcAnswered(g)' => HcAnswered(g)
                /\ HcOutOrder(g)'
        /\ hcIn' = hcIn => \A g \in HcHook : HcQuiet(g)
    BY <1>1, HcTakeQuiet
  <1>4. CASE h # 0 /\ HcLoops(h)
    <2>1. h \in HcHook /\ hcOwner[h] = m
      BY <1>0, <1>2, <1>4 DEF HcTyped, HcFlow, HcOneToken
    <2>2. HcVerdict(h, "dead", hcIn)
      BY <1>0, <1>4 DEF HcReadDead
    <2>3. /\ hcOut[m] \in Seq(HcToBroker) /\ hcOut[m] # <<>>
          /\ HcHasDead(hcOut[m]) /\ hcOut'[m] = Tail(hcOut[m])
      BY <1>1, HcTakeTyped, HcTaken
    <2>4. m \notin hcAlive /\ Tail(hcOut[m]) = <<>>
      BY <1>1, <2>3, HcTakenOrder DEF HcCarried, HcGoodOut
    <2>5. hcIn[m] = <<>> /\ hcCtx[h] = "none"
      BY <2>1, <2>4 DEF HcCarried, HcGoodIn, HcGoodMods
    <2>6. ~HcOut(h, "next")
      <3>1. ~HcHas(<<>>, "next", h)
        BY DEF HcHas
      <3>2. hcOut'[hcOwner'[h]] = <<>>
        BY <1>3, <2>1, <2>3, <2>4
      <3>3. ~HcOut(h, "next")'
        BY <3>1, <3>2 DEF HcOut
      <3> QED BY <1>3, <2>1, <3>3
    <2>7. ~HcIn(h, "event")
      BY <2>1, <2>5 DEF HcIn, HcHas
    <2>8. ~HcToken(h)
      BY <2>5, <2>6, <2>7 DEF HcToken
    <2>9. \A g \in HcHook :
            /\ HcHas(hcIn[hcOwner[g]], "event", g) <=> HcIn(g, "event")
            /\ HcHas(hcIn[hcOwner[g]], "result", g) <=> HcIn(g, "result")
            /\ HcOnce(hcIn[hcOwner[g]], "event", g)
      BY <1>2 DEF HcIn, HcFlow, HcOneToken, HcInOrder
    <2>10. hcIn \in [HcMods -> Seq(HcToRunner)]
      BY DEF HcTyped
    <2> QED BY <1>2, <1>3, <1>4, <2>1, <2>2, <2>8, <2>9, <2>10, HcVerdictFlow DEF HcFlows
  <1>5. CASE ~(h # 0 /\ HcLoops(h))
    <2>1. UNCHANGED <<hcBroker, hcIn>>
      BY <1>0, <1>5 DEF HcReadDead
    <2> QED BY <1>2, <1>3, <2>1, HcStill DEF HcFlows, hcBroker
  <1> QED BY <1>4, <1>5

\* The limit of a hook expires only when it can send nothing any more.
LEMMA HcExpireFlows ==
    ASSUME HcTyped, HcCarried, HcFlows, HcTimely, NEW h \in HcHook, HcExpire(h)
    PROVE  HcFlows'
  <1>1. HcNested /\ \A g \in HcHook : HcFlow(g)
    BY DEF HcFlows
  <1>2. /\ hcOwner' = hcOwner /\ hcAlive' = hcAlive /\ hcCtx' = hcCtx /\ hcNext' = hcNext
        /\ hcOut' = hcOut /\ HcLoops(h) /\ HcHung(h)
    BY DEF HcExpire, HcTimely, HcBrokerOnly, hcRunner
  <1>3. [kind |-> "timeout", of |-> h] \in HcToRunner /\ hcOwner[h] \in HcMods
    BY DEF HcToRunner, HcTyped
  <1>4. PICK e \in HcToRunner : e = [kind |-> "timeout", of |-> h] /\ e.kind = "timeout"
    BY <1>3
  <1>5. PICK in : in = HcSent(hcIn, hcOwner[h], <<e>>) /\ HcVerdict(h, "timeout", in)
    BY <1>4 DEF HcExpire
  <1>6. /\ in \in [HcMods -> Seq(HcToRunner)]
        /\ \A g \in HcHook :
             /\ HcHas(in[hcOwner[g]], "event", g) <=> HcIn(g, "event")
             /\ HcHas(in[hcOwner[g]], "result", g) <=> HcIn(g, "result")
             /\ HcOnce(in[hcOwner[g]], "event", g)
    <2>1. \A g \in HcHook : HcInOrder(g)
      BY <1>1 DEF HcFlow, HcOneToken
    <2> QED BY <1>3, <1>4, <1>5, <2>1, HcSentQuiet
  <1>7. \A g \in HcHook :
             /\ HcOut(g, "next")' <=> HcOut(g, "next")
             /\ HcOut(g, "answer")' => HcOut(g, "answer")
             /\ HcAnswered(g)' => HcAnswered(g)
             /\ HcOutOrder(g)'
    BY <1>1, <1>2 DEF HcOut, HcAnswered, HcOutOrder, HcFlow, HcOneToken
  <1>8. ~HcToken(h)
    <2>1. ~HcIn(h, "event") /\ ~HcOut(h, "next")
      BY <1>2 DEF HcHung, HcIn, HcOut, HcHas
    <2>2. hcPc[h] = "loop" => hcCtx[h] # "busy"
      BY <1>2 DEF HcHung
    <2> QED BY <1>1, <2>1, <2>2 DEF HcToken, HcFlow, HcOneToken
  <1> QED BY <1>1, <1>2, <1>5, <1>6, <1>7, <1>8, HcVerdictFlow DEF HcFlows

\* A step of the broker that reads nothing, and sends nothing or a frame that
\* is neither an event nor a result.
LEMMA HcIdle ==
    ASSUME HcTyped, HcFlows, HcBrokerOnly, hcOut' = hcOut,
           \/ hcIn' = hcIn
           \/ \E m \in HcMods, e \in HcToRunner :
                e.kind \notin {"event", "result"} /\ hcIn' = HcSent(hcIn, m, <<e>>)
    PROVE  \A g \in HcHook : HcQuiet(g)
  <1> SUFFICES ASSUME NEW g \in HcHook PROVE HcQuiet(g)
    OBVIOUS
  <1>1. hcOwner' = hcOwner /\ hcAlive' = hcAlive /\ hcCtx' = hcCtx /\ hcNext' = hcNext
    BY DEF HcBrokerOnly, hcRunner
  <1>2. HcInOrder(g) /\ HcOutOrder(g)
    BY DEF HcFlows, HcFlow, HcOneToken
  <1>3. /\ HcOut(g, "next")' <=> HcOut(g, "next")
        /\ HcOut(g, "answer")' <=> HcOut(g, "answer")
        /\ HcAnswered(g)' <=> HcAnswered(g)
        /\ HcOutOrder(g)'
    BY <1>1, <1>2 DEF HcOut, HcAnswered, HcOutOrder
  <1>4. /\ HcIn(g, "event")' <=> HcIn(g, "event")
        /\ HcIn(g, "result")' <=> HcIn(g, "result")
        /\ HcInOrder(g)'
    <2>1. CASE hcIn' = hcIn
      BY <1>1, <1>2, <2>1 DEF HcIn, HcInOrder
    <2>2. ASSUME NEW m \in HcMods, NEW e \in HcToRunner, e.kind \notin {"event", "result"},
                 hcIn' = HcSent(hcIn, m, <<e>>)
          PROVE  /\ HcIn(g, "event")' <=> HcIn(g, "event")
                 /\ HcIn(g, "result")' <=> HcIn(g, "result")
                 /\ HcInOrder(g)'
      <3>1. /\ HcHas(hcIn'[hcOwner[g]], "event", g) <=> HcIn(g, "event")
            /\ HcHas(hcIn'[hcOwner[g]], "result", g) <=> HcIn(g, "result")
            /\ HcOnce(hcIn'[hcOwner[g]], "event", g)
        BY <1>2, <2>2, HcSentQuiet
      <3> QED BY <1>1, <3>1 DEF HcIn, HcInOrder
    <2> QED BY <2>1, <2>2
  <1> QED BY <1>1, <1>3, <1>4 DEF HcQuiet

\* What a hook does once its cell has settled: it returns, or asks its handler.
LEMMA HcConcludeFlows ==
    ASSUME HcTyped, HcFlows, NEW h \in HcHook, hcPc[h] \in {"broke", "await"},
           hcCell[h] \in {"off", "ok", "err"}, HcConclude(h), HcBrokerOnly,
           UNCHANGED <<hcWhy, hcCell, hcPend, hcRuns, hcOut>>
    PROVE  HcFlows'
  <1>1. HcNested /\ \A g \in HcHook : HcFlow(g)
    BY DEF HcFlows
  <1>2. HcDone(h)
    BY <1>1, HcDeepest
  <1>3. \A g \in HcHook : ~HcToken(g)
    BY <1>1, <1>2, HcOnlyOne DEF HcFlow, HcOneToken
  <1>4. CASE hcWhy[h] = "answered" \/ HcRides(h)
    <2>1. HcReturn(h, hcPc, hcActive) /\ hcIn' = hcIn /\ \E r : hcRes' = [hcRes EXCEPT ![h] = r]
      BY <1>4 DEF HcConclude
    <2>2. HcNested'
      BY <1>1, <1>2, <2>1, HcReturnNested
    <2>3. \A g \in HcHook : HcQuiet(g)
      BY <2>1, HcIdle
    <2>4. \A g \in HcHook : HcFlow(g)'
      BY <1>1, <1>2, <2>1, <2>3, HcReturnFlow
    <2> QED BY <2>2, <2>4 DEF HcFlows
  <1>5. CASE ~(hcWhy[h] = "answered" \/ HcRides(h))
    <2>1. /\ hcPc' = [hcPc EXCEPT ![h] = "catch"] /\ hcActive' = [hcActive EXCEPT ![hcOwner[h]] = h]
          /\ hcIn' = HcSent(hcIn, hcOwner[h], <<[kind |-> "catch", of |-> h]>>)
          /\ hcRes' = hcRes
      BY <1>5 DEF HcConclude, HcPcTo, HcTo
    <2>2. HcNested'
      BY <1>1, <2>1, HcMoveNested
    <2>3. [kind |-> "catch", of |-> h] \in HcToRunner /\ hcOwner[h] \in HcMods
      BY DEF HcToRunner, HcTyped
    <2>4. \A g \in HcHook : HcQuiet(g)
      BY <2>1, <2>3, HcIdle
    <2>5. ~HcToken(h)'
      BY <1>3, <2>4 DEF HcQuiet, HcToken
    <2>6. "catch" \in HcPcs \ {"off"}
      BY DEF HcPcs
    <2>7. \A g \in HcHook : HcFlow(g)'
      BY <1>1, <1>3, <2>1, <2>4, <2>5, <2>6, HcMoveFlow
    <2> QED BY <2>2, <2>7 DEF HcFlows
  <1> QED BY <1>4, <1>5

\* A hook that waits for what runs beneath it, or stops waiting.  An answer
\* never waits: its next, if it called one, has had its result.
LEMMA HcWaitFlows ==
    ASSUME HcTyped, HcFlows, NEW h \in HcHook,
           HcBroke(h) \/ HcAwait(h) \/ HcListen(h) \/ HcNotify(h) \/ HcBelow(h)
    PROVE  HcFlows'
  <1>1. HcNested /\ \A g \in HcHook : HcFlow(g)
    BY DEF HcFlows
  <1>2. /\ UNCHANGED <<hcWhy, hcCell, hcPend, hcRuns, hcOut>> /\ HcBrokerOnly
    BY DEF HcBroke, HcAwait, HcListen, HcNotify, HcBelow
  <1>3. ASSUME NEW pc \in {"await", "deaf", "listen"}, hcPc' = [hcPc EXCEPT ![h] = pc],
               hcPc[h] \in {"broke", "await", "deaf", "listen"}, hcCell[h] # "off",
               UNCHANGED <<hcActive, hcRes, hcIn>>,
               pc = "await" /\ hcWhy[h] \in {"answered", "refused"} => hcNext[h] # "pending",
               pc \in {"deaf", "listen"} => hcWhy[h] \notin {"answered", "refused"}
        PROVE  HcFlows'
    <2>1. HcNested'
      BY <1>1, <1>2, <1>3, HcMoveNested
    <2>2. \A g \in HcHook : HcQuiet(g)
      BY <1>2, <1>3, HcIdle
    <2>3. ~HcToken(h)'
      BY <1>1, <1>3, <2>2 DEF HcQuiet, HcToken, HcFlow, HcOneToken
    <2>4. pc \in HcPcs \ {"off"}
      BY DEF HcPcs
    <2>5. \A g \in HcHook : HcFlow(g)'
      BY <1>1, <1>2, <1>3, <2>2, <2>3, <2>4, HcMoveFlow
    <2> QED BY <2>1, <2>5 DEF HcFlows
  <1>4. CASE HcBroke(h)
    <2>1. CASE HcWaits(h)
      BY <1>1, <1>3, <1>4, <2>1 DEF HcBroke, HcWaits, HcPcTo, HcFlow, HcPrompt
    <2>2. CASE ~HcWaits(h)
      BY <1>2, <1>4, <2>2, HcConcludeFlows DEF HcBroke, HcWaits
    <2> QED BY <2>1, <2>2
  <1>5. CASE HcAwait(h)
    <2>1. CASE HcCached(h)
      BY <1>2, <1>5, <2>1, HcConcludeFlows DEF HcAwait, HcCached
    <2>2. CASE ~HcCached(h)
      <3>1. hcCell[h] # "off"
        BY <1>1, <1>5 DEF HcNested, HcAwait
      <3>2. hcNext[h] = "pending"
        BY <1>1, <2>2, <3>1 DEF HcFlow, HcKept, HcAtRest, HcTyped
      <3>3. hcWhy[h] \notin {"answered", "refused"}
        BY <1>1, <1>5, <3>2 DEF HcFlow, HcPrompt, HcAwait
      <3> QED BY <1>3, <1>5, <2>2, <3>1, <3>3 DEF HcAwait, HcPcTo
    <2> QED BY <2>1, <2>2
  <1>6. CASE HcListen(h)
    BY <1>1, <1>3, <1>6 DEF HcListen, HcPcTo, HcNested, HcFlow, HcPrompt
  <1>7. CASE HcNotify(h)
    <2>1. UNCHANGED <<hcActive, hcRes, hcIn>>
      BY <1>7 DEF HcNotify
    <2>2. CASE hcPc[h] = "listen"
      <3>1. hcPc' = [hcPc EXCEPT ![h] = "await"]
        BY <1>7, <2>2 DEF HcNotify
      <3> QED BY <1>1, <1>3, <2>1, <2>2, <3>1 DEF HcNested, HcFlow, HcPrompt
    <2>3. CASE hcPc[h] # "listen"
      <3>1. hcPc' = hcPc
        BY <1>7, <2>3 DEF HcNotify, HcTyped
      <3>2. \A g \in HcHook : HcQuiet(g)
        BY <1>2, <2>1, HcIdle
      <3> QED BY <1>1, <1>2, <2>1, <3>1, <3>2, HcStill DEF HcFlows
    <2> QED BY <2>2, <2>3
  <1>8. CASE HcBelow(h)
    <2>1. /\ hcPc[h] = "below" /\ hcRes[h + 1] # "none" /\ hcIn' = hcIn
          /\ HcReturn(h, hcPc, hcActive) /\ \E r : hcRes' = [hcRes EXCEPT ![h] = r]
      BY <1>8 DEF HcBelow
    <2>2. HcDone(h) /\ hcCell[h] = "off"
      BY <1>1, <2>1, HcDeepest DEF HcNested
    <2>3. HcNested'
      BY <1>1, <1>2, <2>1, <2>2, HcReturnNested
    <2>4. \A g \in HcHook : HcQuiet(g)
      BY <1>2, <2>1, HcIdle
    <2>5. \A g \in HcHook : HcFlow(g)'
      BY <1>1, <1>2, <2>1, <2>2, <2>4, HcReturnFlow
    <2> QED BY <2>3, <2>5 DEF HcFlows
  <1> QED BY <1>4, <1>5, <1>6, <1>7, <1>8

\* The run beneath is back.
LEMMA HcBackFlows ==
    ASSUME HcTyped, HcFlows, NEW h \in HcHook, HcBack(h)
    PROVE  HcFlows'
  <1>1. HcNested /\ \A g \in HcHook : HcFlow(g)
    BY DEF HcFlows
  <1>2. /\ hcCell[h] = "run" /\ hcRes[h + 1] # "none" /\ hcCell' = [hcCell EXCEPT ![h] = "back"]
        /\ UNCHANGED <<hcPc, hcWhy, hcTold, hcPend, hcActive, hcRuns, hcRes, hcIn, hcOut>>
        /\ HcBrokerOnly
    BY DEF HcBack
  <1>3. HcDone(h)
    BY <1>1, <1>2, HcDeepest
  <1>4. HcNested'
    BY <1>1, <1>2, <1>3, HcCellNested
  <1>5. \A g \in HcHook : HcQuiet(g)
    BY <1>2, HcIdle
  <1>6. ASSUME NEW g \in HcHook PROVE HcFlow(g)'
    <2>1. HcFlow(g) /\ HcQuiet(g)
      BY <1>1, <1>5
    <2>2. hcCell'[g] = IF g = h THEN "back" ELSE hcCell[g]
      BY <1>2 DEF HcTyped
    <2>3. HcOneToken(g)'
      BY <1>2, <2>1, <2>2 DEF HcFlow, HcOneToken, HcToken, HcQuiet
    <2>4. HcKept(g)'
      BY <1>2, <2>1, <2>2 DEF HcFlow, HcKept, HcQuiet, HcAtRest, HcToken, HcCached, HcResults
    <2>5. HcPrompt(g)'
      BY <1>2, <2>1 DEF HcFlow, HcPrompt, HcQuiet
    <2> QED BY <2>3, <2>4, <2>5 DEF HcFlow
  <1> QED BY <1>4, <1>6 DEF HcFlows

\* The cell settles, and whose next it has kept has its result.
LEMMA HcSettleFlows ==
    ASSUME HcTyped, HcBlamed, HcFlows, NEW h \in HcHook, HcSettle(h)
    PROVE  HcFlows'
  <1>1. HcNested /\ \A g \in HcHook : HcFlow(g)
    BY DEF HcFlows
  <1>2. /\ hcCell[h] = "back" /\ hcCell' = [hcCell EXCEPT ![h] = hcRes[h + 1]]
        /\ hcPend' = {p \in hcPend : p[1] # h}
        /\ UNCHANGED <<hcPc, hcWhy, hcTold, hcActive, hcRuns, hcRes, hcOut>>
        /\ hcOwner' = hcOwner /\ hcAlive' = hcAlive /\ hcCtx' = hcCtx /\ hcNext' = hcNext
    BY DEF HcSettle, HcBrokerOnly, hcRunner
  <1>3. hcRes[h + 1] \in {"ok", "err"}
    BY <1>2, HcNumbered DEF HcTyped, HcBlamed, HcResults
  <1>4. HcNested'
    <2>1. HcDone(h)
      BY <1>1, <1>2, HcDeepest
    <2> QED BY <1>1, <1>2, <1>3, <2>1, HcCellNested
  <1>5. ASSUME NEW g \in HcHook
        PROVE  /\ HcIn(g, "event")' <=> HcIn(g, "event")
               /\ HcIn(g, "result")' <=> \/ HcIn(g, "result")
                                         \/ g = h /\ <<h, h>> \in hcPend /\ hcOwner[h] \in hcAlive
               /\ HcInOrder(g)'
    <2>0. hcOwner[g] \in HcMods /\ hcOwner[h] \in HcMods /\ hcIn \in [HcMods -> Seq(HcToRunner)]
          /\ HcInOrder(g)
      BY <1>1 DEF HcTyped, HcFlow, HcOneToken
    <2>1. CASE <<h, h>> \in hcPend
      <3>0. [kind |-> "result", of |-> h, res |-> hcRes[h + 1]] \in HcToRunner
        BY <1>3 DEF HcToRunner, HcResults
      <3>1. PICK e \in HcToRunner : /\ e = [kind |-> "result", of |-> h, res |-> hcRes[h + 1]]
                                    /\ e.kind = "result" /\ e.of = h
        BY <3>0
      <3>2. hcIn' = HcSent(hcIn, hcOwner[h], <<e>>)
        BY <2>1, <3>1 DEF HcSettle, HcTo
      <3>3. \A m, x \in HcMods :
              /\ \A kind : HcHas(HcSent(hcIn, m, <<e>>)[x], kind, g)
                   <=> \/ HcHas(hcIn[x], kind, g)
                       \/ x = m /\ m \in hcAlive /\ e.kind = kind /\ e.of = g
              /\ HcOnce(hcIn[x], "event", g)
                 /\ ~(x = m /\ HcHas(hcIn[x], "event", g) /\ e.kind = "event" /\ e.of = g)
                   => HcOnce(HcSent(hcIn, m, <<e>>)[x], "event", g)
        BY <2>0, HcSentHas
      <3>4. /\ \A kind : HcHas(hcIn'[hcOwner[g]], kind, g)
                 <=> \/ HcHas(hcIn[hcOwner[g]], kind, g)
                     \/ /\ hcOwner[g] = hcOwner[h] /\ hcOwner[h] \in hcAlive
                        /\ kind = "result" /\ g = h
            /\ HcOnce(hcIn[hcOwner[g]], "event", g) => HcOnce(hcIn'[hcOwner[g]], "event", g)
        BY <2>0, <3>1, <3>2, <3>3
      <3> QED BY <1>2, <2>0, <2>1, <3>4 DEF HcIn, HcInOrder
    <2>2. CASE <<h, h>> \notin hcPend
      <3>1. [kind |-> "catch", of |-> h] \in HcToRunner
        BY DEF HcToRunner
      <3>2. HcSent(hcIn, hcOwner[h], <<>>) = hcIn
        BY <2>0, <3>1, HcSentOne
      <3>3. hcIn' = hcIn
        BY <2>2, <3>2 DEF HcSettle, HcTo
      <3> QED BY <1>2, <2>0, <2>2, <3>3 DEF HcIn, HcInOrder
    <2> QED BY <2>1, <2>2
  <1>6. ASSUME NEW g \in HcHook PROVE HcFlow(g)'
    <2>1. /\ HcFlow(g)
          /\ hcCell'[g] = IF g = h THEN hcRes[h + 1] ELSE hcCell[g]
          /\ <<g, g>> \in hcPend' <=> <<g, g>> \in hcPend /\ g # h
      BY <1>1, <1>2 DEF HcTyped
    <2>2. /\ HcOut(g, "next")' <=> HcOut(g, "next")
          /\ HcOut(g, "answer")' <=> HcOut(g, "answer")
          /\ HcAnswered(g)' <=> HcAnswered(g)
          /\ HcOutOrder(g)' <=> HcOutOrder(g)
      BY <1>2 DEF HcOut, HcAnswered, HcOutOrder
    <2>3. HcToken(g)' <=> HcToken(g)
      BY <1>2, <1>5, <2>2 DEF HcToken
    <2>4. HcOneToken(g)'
      BY <1>2, <1>5, <2>1, <2>2, <2>3 DEF HcFlow, HcOneToken
    <2>7. g = h => ~HcToken(g) /\ hcPc[g] # "off"
      BY <1>1, <1>2, <2>1 DEF HcFlow, HcOneToken, HcNested
    <2>5. HcKept(g)'
      BY <1>2, <1>3, <1>5, <2>1, <2>2, <2>3, <2>7
         DEF HcFlow, HcKept, HcAtRest, HcCached, HcResults
    <2>6. HcPrompt(g)'
      BY <1>2, <2>1, <2>2 DEF HcFlow, HcPrompt
    <2> QED BY <2>4, <2>5, <2>6 DEF HcFlow
  <1> QED BY <1>4, <1>6 DEF HcFlows

-----------------------------------------------------------------------------
(* The runners' steps.                                                     *)

\* A frame that a runner takes: what it says of g's frames.
LEMMA HcGetIn ==
    ASSUME HcTyped, HcCarried, NEW m \in HcMods, NEW kind, HcGet(m, kind), hcOwner' = hcOwner,
           NEW g \in HcHook, HcInOrder(g)
    PROVE  /\ Head(hcIn[m]).of \in HcHook
           /\ kind = "result" => Head(hcIn[m]).res \in HcResults
           /\ Head(hcIn[m]).of = g => hcOwner[g] = m
           /\ HcIn(g, "event") <=> \/ HcIn(g, "event")'
                                   \/ kind = "event" /\ Head(hcIn[m]).of = g
           /\ HcIn(g, "result") <=> \/ HcIn(g, "result")'
                                    \/ kind = "result" /\ Head(hcIn[m]).of = g
           /\ HcInOrder(g)'
           /\ kind = "event" /\ Head(hcIn[m]).of = g => ~HcIn(g, "event")'
  <1> DEFINE s == hcIn[m]
             f == Head(hcIn[m])
  <1>1. /\ s \in Seq(HcToRunner) /\ s # <<>> /\ f.kind = kind /\ f \in HcToRunner
        /\ \A x \in HcMods : hcIn'[x] = IF x = m THEN Tail(s) ELSE hcIn[x]
    BY DEF HcGet, HcTyped
  <1>2. \A k, x : HcHas(s, k, x) <=> HcHas(Tail(s), k, x) \/ (f.kind = k /\ f.of = x)
    BY <1>1, HcTaken
  <1>3. HcOnce(s, "event", g) =>
             /\ HcOnce(Tail(s), "event", g)
             /\ f.kind = "event" /\ f.of = g => ~HcHas(Tail(s), "event", g)
    BY <1>1, HcTakenOrder
  <1>4. hcOwner[g] \in HcMods
    BY DEF HcTyped
  <1>5. f.of = g => hcOwner[g] = m
    <2>1. HcHas(hcIn[m], f.kind, f.of)
      BY <1>2
    <2> QED BY <2>1 DEF HcCarried, HcGoodIn
  <1>6. f.of \in HcHook /\ (kind = "result" => f.res \in HcResults)
    BY <1>1, HcFrameFields
  <1> HIDE DEF s, f
  <1>7. CASE hcOwner[g] = m
    <2>1. hcIn[m] = s /\ hcIn'[m] = Tail(s)
      BY <1>1 DEF s
    <2> QED BY <1>1, <1>2, <1>3, <1>6, <1>7, <2>1 DEF HcIn, HcInOrder, f
  <1>8. CASE hcOwner[g] # m
    <2>1. hcIn'[hcOwner[g]] = hcIn[hcOwner[g]]
      BY <1>1, <1>4, <1>8
    <2> QED BY <1>5, <1>6, <1>8, <2>1 DEF HcIn, HcInOrder, f
  <1> QED BY <1>7, <1>8

\* A frame that a runner sends.
LEMMA HcFromOut ==
    ASSUME HcTyped, NEW m \in HcMods, NEW f \in HcToBroker, HcFrom(m, f), hcOwner' = hcOwner,
           f.kind \in {"next", "answer"} => hcOwner[f.of] = m,
           NEW g \in HcHook, HcOutOrder(g),
           f.kind = "next" /\ f.of = g => ~HcOut(g, "next") /\ ~HcOut(g, "answer")
    PROVE  /\ HcOut(g, "next")' <=> HcOut(g, "next") \/ (f.kind = "next" /\ f.of = g)
           /\ HcOut(g, "answer")' <=> HcOut(g, "answer") \/ (f.kind = "answer" /\ f.of = g)
           /\ HcAnswered(g)' <=> \/ HcAnswered(g)
                                 \/ f.kind = "answer" /\ f.of = g /\ f.res = "answered"
           /\ HcOutOrder(g)'
  <1> DEFINE s == hcOut[m]
  <1>1. /\ s \in Seq(HcToBroker)
        /\ \A x \in HcMods : hcOut'[x] = IF x = m THEN Append(s, f) ELSE hcOut[x]
    BY DEF HcFrom, HcTyped
  <1>2. /\ \A kind, x : HcHas(Append(s, f), kind, x)
                          <=> HcHas(s, kind, x) \/ (f.kind = kind /\ f.of = x)
        /\ \A x : HcHasAnswer(Append(s, f), x) <=> HcHasAnswer(s, x)
                    \/ (f.kind = "answer" /\ f.of = x /\ f.res = "answered")
    BY <1>1, HcAppended
  <1>3. /\ HcOnce(s, "next", g) /\ ~(HcHas(s, "next", g) /\ f.kind = "next" /\ f.of = g)
             => HcOnce(Append(s, f), "next", g)
        /\ HcNextFirst(s, g) /\ ~(HcHas(s, "answer", g) /\ f.kind = "next" /\ f.of = g)
             => HcNextFirst(Append(s, f), g)
    BY <1>1, HcAppendedOrder
  <1>4. hcOwner[g] \in HcMods
    BY DEF HcTyped
  <1> HIDE DEF s
  <1>5. CASE hcOwner[g] = m
    <2>1. hcOut[m] = s /\ hcOut'[m] = Append(s, f)
      BY <1>1 DEF s
    <2> QED BY <1>2, <1>3, <1>5, <2>1 DEF HcOut, HcAnswered, HcOutOrder
  <1>6. CASE hcOwner[g] # m
    <2>1. hcOut'[hcOwner[g]] = hcOut[hcOwner[g]]
      BY <1>1, <1>4, <1>6
    <2> QED BY <1>6, <2>1 DEF HcOut, HcAnswered, HcOutOrder
  <1> QED BY <1>5, <1>6

\* An answer, of the hook or of a handler.
LEMMA HcReplyOut ==
    ASSUME HcTyped, NEW kind \in {"answer", "caught"}, NEW h \in HcHook,
           NEW res \in {"answered", "throw", "core", "nocatch"}, HcReply(kind, h, res),
           hcOwner' = hcOwner, NEW g \in HcHook, HcOutOrder(g)
    PROVE  /\ HcOut(g, "next")' <=> HcOut(g, "next")
           /\ HcOut(g, "answer")' <=> HcOut(g, "answer") \/ (kind = "answer" /\ h = g)
           /\ HcAnswered(g)' <=> HcAnswered(g) \/ (kind = "answer" /\ h = g /\ res = "answered")
           /\ HcOutOrder(g)'
  <1>1. [kind |-> kind, of |-> h, res |-> res] \in HcToBroker /\ hcOwner[h] \in HcMods
    BY DEF HcToBroker, HcTyped
  <1>2. PICK f \in HcToBroker : /\ f = [kind |-> kind, of |-> h, res |-> res]
                                /\ f.kind = kind /\ f.of = h /\ f.res = res
    BY <1>1
  <1>3. HcFrom(hcOwner[h], f)
    BY <1>2 DEF HcReply
  <1> QED BY <1>1, <1>2, <1>3, HcFromOut

\* A hook that is as it was, or that was held and is busy no more, and whose
\* next is as it was.
LEMMA HcHookFlow ==
    ASSUME NEW g \in HcHook, HcFlow(g),
           UNCHANGED <<hcOwner, hcBroker, hcAlive>>, hcNext'[g] = hcNext[g],
           HcIn(g, "event")' => HcIn(g, "event"), HcIn(g, "result")' <=> HcIn(g, "result"),
           HcOut(g, "next")' <=> HcOut(g, "next"),
           HcInOrder(g)', HcOutOrder(g)',
           HcAnswered(g)' => HcAnswered(g) \/ hcNext[g] # "pending",
           \/ hcCtx'[g] = hcCtx[g] /\ (HcOut(g, "answer")' => HcOut(g, "answer"))
           \/ hcCtx[g] # "none" /\ hcCtx'[g] # "busy"
    PROVE  HcFlow(g)'
  <1>0. UNCHANGED <<hcPc, hcWhy, hcCell, hcPend, hcActive>>
    BY DEF hcBroker
  <1>1. HcToken(g)' => HcToken(g)
    BY DEF HcToken
  <1>2. HcOneToken(g)'
    BY <1>0, <1>1 DEF HcFlow, HcOneToken
  <1>3. HcKept(g)'
    BY <1>0 DEF HcFlow, HcKept, HcAtRest, HcToken, HcCached
  <1>4. HcPrompt(g)'
    BY <1>0 DEF HcFlow, HcPrompt
  <1> QED BY <1>2, <1>3, <1>4 DEF HcFlow

\* A runner's step is none of the broker's.
LEMMA HcRunnerNested ==
    ASSUME HcNested, UNCHANGED hcBroker
    PROVE  HcNested'
  BY DEF HcNested, HcNothingTwice, HcDone, hcBroker

\* An answer in the pipe is a frame in the pipe.
LEMMA HcAnswerIsSent ==
    ASSUME NEW g, HcAnswered(g)
    PROVE  HcOut(g, "answer")
  BY DEF HcAnswered, HcHasAnswer, HcOut, HcHas

\* The hook starts: its event frame is the token, and it holds it from now on.
LEMMA HcEventFlows ==
    ASSUME HcTyped, HcCarried, HcFlows, NEW m \in HcMods, HcEvent(m)
    PROVE  HcFlows'
  <1>1. PICK h : h = Head(hcIn[m]).of
    OBVIOUS
  <1>2. /\ HcGet(m, "event") /\ UNCHANGED <<hcOwner, hcBroker, hcAlive>>
        /\ hcOut' = hcOut /\ hcNext' = hcNext
        /\ HcNested /\ \A g \in HcHook : HcFlow(g)
    BY DEF HcEvent, HcRunnerOnly, HcFlows
  <1>3. \A g \in HcHook :
          /\ HcOut(g, "next")' <=> HcOut(g, "next")
          /\ HcOut(g, "answer")' <=> HcOut(g, "answer")
          /\ HcAnswered(g)' <=> HcAnswered(g)
          /\ HcOutOrder(g)' /\ HcInOrder(g)
    BY <1>2 DEF HcOut, HcAnswered, HcOutOrder, HcFlow, HcOneToken
  <1>4. \A g \in HcHook :
          /\ h \in HcHook
          /\ HcIn(g, "event") <=> HcIn(g, "event")' \/ h = g
          /\ HcIn(g, "result") <=> HcIn(g, "result")'
          /\ HcInOrder(g)'
          /\ h = g => ~HcIn(g, "event")'
    BY <1>1, <1>2, <1>3, HcGetIn
  <1>5. ASSUME NEW g \in HcHook PROVE HcFlow(g)'
    <2>1. CASE hcCtx'[g] = hcCtx[g]
      BY <1>2, <1>3, <1>4, <2>1, HcHookFlow
    <2>2. CASE hcCtx'[g] # hcCtx[g]
      <3>1. g = h /\ hcCtx'[g] = "busy"
        BY <1>1, <1>4, <2>2 DEF HcEvent, HcCtxTo, HcTyped
      <3>2. HcIn(g, "event") /\ ~HcIn(g, "event")' /\ (HcIn(g, "result")' <=> HcIn(g, "result"))
        BY <1>4, <3>1
      <3>3. /\ hcPc[g] = "loop" /\ hcCell[g] = "off" /\ hcActive[hcOwner[g]] = g
            /\ hcNext[g] = "no" /\ ~HcOut(g, "answer") /\ ~HcOut(g, "next")
        BY <1>2, <3>2 DEF HcFlow, HcOneToken, HcToken
      <3>4. UNCHANGED <<hcPc, hcWhy, hcCell, hcPend, hcActive>>
        BY <1>2 DEF hcBroker
      <3>5. HcOneToken(g)'
        BY <1>2, <1>3, <1>4, <3>2, <3>3, <3>4 DEF HcFlow, HcOneToken
      <3>6. HcKept(g)'
        BY <1>2, <1>3, <3>2, <3>4 DEF HcFlow, HcKept, HcAtRest, HcToken, HcCached
      <3>7. HcPrompt(g)'
        BY <1>2, <1>3, <3>4 DEF HcFlow, HcPrompt
      <3> QED BY <3>5, <3>6, <3>7 DEF HcFlow
    <2> QED BY <2>1, <2>2
  <1> QED BY <1>2, <1>5, HcRunnerNested DEF HcFlows

\* The hook calls next: the next frame is the token.
LEMMA HcCallNextFlows ==
    ASSUME HcTyped, HcCarried, HcFlows, NEW h \in HcHook, HcCallNext(h)
    PROVE  HcFlows'
  <1>1. /\ UNCHANGED <<hcOwner, hcBroker, hcAlive>> /\ UNCHANGED <<hcIn, hcCtx>>
        /\ hcCtx[h] = "busy" /\ hcNext[h] = "no" /\ hcNext' = [hcNext EXCEPT ![h] = "pending"]
        /\ HcFrom(hcOwner[h], [kind |-> "next", of |-> h])
        /\ HcNested /\ \A g \in HcHook : HcFlow(g)
    BY DEF HcCallNext, HcRunnerOnly, HcFlows
  <1>2. \A g \in HcHook :
          /\ HcIn(g, "event")' <=> HcIn(g, "event")
          /\ HcIn(g, "result")' <=> HcIn(g, "result")
          /\ HcInOrder(g)' /\ HcOutOrder(g)
    BY <1>1 DEF HcIn, HcInOrder, HcFlow, HcOneToken
  <1>3. /\ hcPc[h] = "loop" /\ hcCell[h] = "off" /\ hcActive[hcOwner[h]] = h
        /\ ~HcOut(h, "next") /\ ~HcOut(h, "answer") /\ ~HcIn(h, "event")
    BY <1>1 DEF HcFlow, HcOneToken, HcToken
  <1>4. [kind |-> "next", of |-> h] \in HcToBroker /\ hcOwner[h] \in HcMods
    BY DEF HcToBroker, HcTyped
  <1>5. PICK f \in HcToBroker : /\ f = [kind |-> "next", of |-> h]
                                /\ f.kind = "next" /\ f.of = h
    BY <1>4
  <1>6. \A g \in HcHook :
          /\ HcOut(g, "next")' <=> HcOut(g, "next") \/ g = h
          /\ HcOut(g, "answer")' <=> HcOut(g, "answer")
          /\ HcAnswered(g)' <=> HcAnswered(g)
          /\ HcOutOrder(g)'
    BY <1>1, <1>2, <1>3, <1>4, <1>5, HcFromOut
  <1>7. ASSUME NEW g \in HcHook PROVE HcFlow(g)'
    <2>1. CASE g # h
      <3>1. hcNext'[g] = hcNext[g]
        BY <1>1, <2>1 DEF HcTyped
      <3> QED BY <1>1, <1>2, <1>6, <2>1, <3>1, HcHookFlow
    <2>2. CASE g = h
      <3>1. UNCHANGED <<hcPc, hcWhy, hcCell, hcPend, hcActive>>
        BY <1>1 DEF hcBroker
      <3>2. hcNext'[g] = "pending" /\ HcOut(g, "next")' /\ ~HcOut(g, "answer")' /\ ~HcIn(g, "event")'
        BY <1>1, <1>2, <1>3, <1>6, <2>2 DEF HcTyped
      <3>3. HcOneToken(g)'
        BY <1>1, <1>2, <1>3, <1>6, <2>2, <3>1, <3>2 DEF HcFlow, HcOneToken
      <3>4. HcKept(g)'
        BY <1>1, <1>2, <1>3, <2>2, <3>1, <3>2 DEF HcFlow, HcKept, HcAtRest, HcToken, HcCached, HcResults
      <3>5. ~HcAnswered(g)'
        BY <1>3, <1>6, <2>2, HcAnswerIsSent
      <3>6. HcPrompt(g)'
        BY <1>3, <2>2, <3>1, <3>5 DEF HcPrompt
      <3> QED BY <3>3, <3>4, <3>6 DEF HcFlow
    <2> QED BY <2>1, <2>2
  <1> QED BY <1>1, <1>7, HcRunnerNested DEF HcFlows

\* The result of next arrives; an answer that was held for it is sent.
LEMMA HcResultFlows ==
    ASSUME HcTyped, HcCarried, HcFlows, NEW m \in HcMods, HcResult(m)
    PROVE  HcFlows'
  <1>1. PICK h : h = Head(hcIn[m]).of
    OBVIOUS
  <1>2. /\ HcGet(m, "result") /\ UNCHANGED <<hcOwner, hcBroker, hcAlive>>
        /\ hcNext' = [hcNext EXCEPT ![h] = Head(hcIn[m]).res]
        /\ HcNested /\ \A g \in HcHook : HcFlow(g)
    BY <1>1 DEF HcResult, HcRunnerOnly, HcFlows
  <1>3. \A g \in HcHook :
          /\ h \in HcHook /\ Head(hcIn[m]).res \in HcResults
          /\ HcIn(g, "event") <=> HcIn(g, "event")'
          /\ HcIn(g, "result") <=> HcIn(g, "result")' \/ h = g
          /\ HcInOrder(g)' /\ HcOutOrder(g)
    <2>1. \A g \in HcHook : HcInOrder(g) /\ HcOutOrder(g)
      BY <1>2 DEF HcFlow, HcOneToken
    <2> QED BY <1>1, <1>2, <2>1, HcGetIn
  <1>4. h \in HcHook /\ HcAtRest(h) /\ ~HcToken(h) /\ hcPc[h] # "off"
    <2>1. h \in HcHook
      BY <1>3, HcNumbered
    <2>2. HcIn(h, "result")
      BY <1>3, <2>1
    <2> QED BY <1>2, <2>1, <2>2 DEF HcFlow, HcKept
  <1>5. /\ ~HcIn(h, "event") /\ ~HcOut(h, "next") /\ hcPc[h] # "off"
    BY <1>4 DEF HcToken
  <1>6. \/ /\ hcCtx[h] = "finishing" /\ hcCtx' = [hcCtx EXCEPT ![h] = "settled"]
           /\ HcReply("answer", h, "answered")
        \/ hcCtx' = hcCtx /\ hcOut' = hcOut
    BY <1>1 DEF HcResult, HcCtxTo
  <1>7. \A g \in HcHook :
          /\ HcOut(g, "next")' <=> HcOut(g, "next")
          /\ HcOut(g, "answer")' => HcOut(g, "answer") \/ (g = h /\ hcCtx'[h] = "settled")
          /\ HcAnswered(g)' => HcAnswered(g) \/ g = h
          /\ HcOutOrder(g)'
    <2>1. CASE hcCtx' = [hcCtx EXCEPT ![h] = "settled"] /\ HcReply("answer", h, "answered")
      <3>1. hcCtx'[h] = "settled"
        BY <1>4, <2>1 DEF HcTyped
      <3> QED BY <1>2, <1>3, <1>4, <2>1, <3>1, HcReplyOut
    <2>2. CASE hcOut' = hcOut
      BY <1>2, <1>3, <2>2 DEF HcOut, HcAnswered, HcOutOrder
    <2> QED BY <1>6, <2>1, <2>2
  <1>8. ASSUME NEW g \in HcHook PROVE HcFlow(g)'
    <2>1. CASE g # h
      <3>1. hcNext'[g] = hcNext[g] /\ hcCtx'[g] = hcCtx[g]
        BY <1>2, <1>4, <1>6, <2>1 DEF HcTyped
      <3> QED BY <1>2, <1>3, <1>7, <2>1, <3>1, HcHookFlow
    <2>2. CASE g = h
      <3>1. UNCHANGED <<hcPc, hcWhy, hcCell, hcPend, hcActive>>
        BY <1>2 DEF hcBroker
      <3>2. hcNext'[g] \in HcResults
        BY <1>2, <1>3, <2>2 DEF HcTyped
      <3>3. hcNext'[g] \notin {"no", "pending"}
        BY <3>2 DEF HcResults
      <3>4. hcCtx'[g] = hcCtx[g] \/ hcCtx'[g] = "settled"
        BY <1>6, <2>2 DEF HcTyped
      <3>5. HcOneToken(g)'
        <4>1. ~HcIn(g, "event")' /\ ~HcOut(g, "next")' /\ ~HcToken(g)'
          BY <1>3, <1>5, <1>7, <2>2, <3>3 DEF HcToken
        <4>2. HcOut(g, "answer")' => hcCtx'[g] # "busy"
          BY <1>2, <1>7, <2>2, <3>4 DEF HcFlow, HcOneToken
        <4> QED BY <1>2, <1>3, <1>5, <1>7, <2>2, <3>1, <4>1, <4>2 DEF HcFlow, HcOneToken
      <3>6. HcKept(g)'
        <4>1. HcAtRest(g)' /\ hcPc'[g] # "off"
          BY <1>4, <2>2, <3>1 DEF HcAtRest, HcCached
        <4>2. <<g, g>> \in hcPend' => hcCell'[g] \in {"run", "back"}
          BY <1>2, <3>1 DEF HcFlow, HcKept
        <4>3. ~HcToken(g)'
          BY <1>3, <1>5, <1>7, <2>2, <3>3 DEF HcToken
        <4> QED BY <3>3, <4>1, <4>2, <4>3 DEF HcKept
      <3>7. HcPrompt(g)'
        BY <1>2, <3>1, <3>3 DEF HcFlow, HcPrompt
      <3> QED BY <3>5, <3>6, <3>7 DEF HcFlow
    <2> QED BY <2>1, <2>2
  <1> QED BY <1>2, <1>8, HcRunnerNested DEF HcFlows

\* A frame for the runner's hooks that is neither an event nor a result: one
\* of the hooks it holds may end, answering or not.
LEMMA HcEndedFlows ==
    ASSUME HcTyped, HcCarried, HcFlows, NEW m \in HcMods, HcAbandon(m) \/ HcCatchCall(m)
    PROVE  HcFlows'
  <1>1. PICK kind \in {"timeout", "catch"} : HcGet(m, kind)
    BY DEF HcAbandon, HcCatchCall
  <1>2. /\ UNCHANGED <<hcOwner, hcBroker, hcAlive>> /\ hcNext' = hcNext
        /\ HcNested /\ \A g \in HcHook : HcFlow(g)
        /\ \A g \in HcHook : HcInOrder(g) /\ HcOutOrder(g)
    BY DEF HcAbandon, HcCatchCall, HcRunnerOnly, HcFlows, HcFlow, HcOneToken
  <1>3. PICK h : h = Head(hcIn[m]).of
    OBVIOUS
  <1>4. /\ h \in HcHook
        /\ \A g \in HcHook :
             /\ HcIn(g, "event")' <=> HcIn(g, "event")
             /\ HcIn(g, "result")' <=> HcIn(g, "result")
             /\ HcInOrder(g)'
    <2>1. \A g \in HcHook :
             /\ h \in HcHook
             /\ HcIn(g, "event")' <=> HcIn(g, "event")
             /\ HcIn(g, "result")' <=> HcIn(g, "result")
             /\ HcInOrder(g)'
      BY <1>1, <1>2, <1>3, HcGetIn
    <2> QED BY <2>1, HcNumbered
  <1>5. \/ hcOut' = hcOut
        \/ \E g \in HcHook : hcCtx[g] # "none" /\ HcCtxTo(g, "none") /\ HcReply("answer", g, "throw")
        \/ HcReply("caught", h, "nocatch")
    BY <1>3 DEF HcAbandon, HcCatchCall, HcHeld
  <1>6. \A g \in HcHook : hcCtx'[g] = hcCtx[g] \/ (hcCtx[g] # "none" /\ hcCtx'[g] # "busy")
    BY DEF HcAbandon, HcCatchCall, HcHeld, HcCtxTo, HcTyped
  <1>7. \A g \in HcHook :
          /\ HcOut(g, "next")' <=> HcOut(g, "next")
          /\ \/ HcOut(g, "answer")' => HcOut(g, "answer")
             \/ hcCtx[g] # "none" /\ hcCtx'[g] # "busy"
          /\ HcAnswered(g)' => HcAnswered(g)
          /\ HcOutOrder(g)'
    <2>1. CASE hcOut' = hcOut
      BY <1>2, <2>1 DEF HcOut, HcAnswered, HcOutOrder
    <2>2. ASSUME NEW x \in HcHook, hcCtx[x] # "none", HcCtxTo(x, "none"),
                 HcReply("answer", x, "throw"), NEW g \in HcHook
          PROVE  /\ HcOut(g, "next")' <=> HcOut(g, "next")
                 /\ \/ HcOut(g, "answer")' => HcOut(g, "answer")
                    \/ hcCtx[g] # "none" /\ hcCtx'[g] # "busy"
                 /\ HcAnswered(g)' => HcAnswered(g)
                 /\ HcOutOrder(g)'
      <3>1. hcCtx'[x] = "none"
        BY <2>2 DEF HcCtxTo, HcTyped
      <3>2. /\ HcOut(g, "next")' <=> HcOut(g, "next")
            /\ HcOut(g, "answer")' <=> HcOut(g, "answer") \/ x = g
            /\ HcAnswered(g)' <=> HcAnswered(g)
            /\ HcOutOrder(g)'
        BY <1>2, <2>2, HcReplyOut
      <3> QED BY <2>2, <3>1, <3>2
    <2>3. CASE HcReply("caught", h, "nocatch")
      <3>1. \A g \in HcHook :
              /\ HcOut(g, "next")' <=> HcOut(g, "next")
              /\ HcOut(g, "answer")' <=> HcOut(g, "answer")
              /\ HcAnswered(g)' <=> HcAnswered(g)
              /\ HcOutOrder(g)'
        BY <1>2, <1>4, <2>3, HcReplyOut
      <3> QED BY <3>1
    <2> QED BY <1>5, <2>1, <2>2, <2>3
  <1>8. ASSUME NEW g \in HcHook PROVE HcFlow(g)'
    BY <1>2, <1>4, <1>6, <1>7, HcHookFlow
  <1> QED BY <1>2, <1>8, HcRunnerNested DEF HcFlows

\* A hook that answers, throws, has its failure handled or is swept.
LEMMA HcHookFlows ==
    ASSUME HcTyped, HcFlows, NEW h \in HcHook,
           HcAnswer(h) \/ HcThrow(h) \/ HcCaught(h) \/ HcSweep(h)
    PROVE  HcFlows'
  <1>1. /\ UNCHANGED <<hcOwner, hcBroker, hcAlive>> /\ hcIn' = hcIn /\ hcNext' = hcNext
        /\ HcNested /\ \A g \in HcHook : HcFlow(g)
        /\ \A g \in HcHook : HcInOrder(g) /\ HcOutOrder(g)
    BY DEF HcAnswer, HcThrow, HcCaught, HcSweep, HcRunnerOnly, HcFlows, HcFlow, HcOneToken
  <1>2. \A g \in HcHook :
          /\ HcIn(g, "event")' <=> HcIn(g, "event")
          /\ HcIn(g, "result")' <=> HcIn(g, "result")
          /\ HcInOrder(g)'
    BY <1>1 DEF HcIn, HcInOrder
  <1>3. PICK ctx \in {"none", "finishing", "failed", "settled"} : hcCtx' = [hcCtx EXCEPT ![h] = ctx]
    BY DEF HcAnswer, HcThrow, HcCaught, HcSweep, HcCtxTo
  <1>4. hcCtx[h] # "none" /\ hcCtx'[h] # "busy" /\ \A g \in HcHook : g # h => hcCtx'[g] = hcCtx[g]
    BY <1>3 DEF HcAnswer, HcThrow, HcCaught, HcSweep, HcTyped
  <1>5. \A g \in HcHook :
          /\ HcOut(g, "next")' <=> HcOut(g, "next")
          /\ HcOut(g, "answer")' => HcOut(g, "answer") \/ g = h
          /\ HcAnswered(g)' => HcAnswered(g) \/ hcNext[g] # "pending"
          /\ HcOutOrder(g)'
    <2>1. CASE hcOut' = hcOut
      BY <1>1, <2>1 DEF HcOut, HcAnswered, HcOutOrder
    <2>2. ASSUME HcReply("answer", h, "answered"), ~HcHolds(h), NEW g \in HcHook
          PROVE  /\ HcOut(g, "next")' <=> HcOut(g, "next")
                 /\ HcOut(g, "answer")' => HcOut(g, "answer") \/ g = h
                 /\ HcAnswered(g)' => HcAnswered(g) \/ hcNext[g] # "pending"
                 /\ HcOutOrder(g)'
      <3>1. /\ HcOut(g, "next")' <=> HcOut(g, "next")
            /\ HcOut(g, "answer")' <=> HcOut(g, "answer") \/ h = g
            /\ HcAnswered(g)' <=> HcAnswered(g) \/ h = g
            /\ HcOutOrder(g)'
        BY <1>1, <2>2, HcReplyOut
      <3> QED BY <2>2, <3>1 DEF HcHolds
    <2>3. ASSUME NEW res \in {"core", "throw"}, HcReply("answer", h, res), NEW g \in HcHook
          PROVE  /\ HcOut(g, "next")' <=> HcOut(g, "next")
                 /\ HcOut(g, "answer")' => HcOut(g, "answer") \/ g = h
                 /\ HcAnswered(g)' => HcAnswered(g) \/ hcNext[g] # "pending"
                 /\ HcOutOrder(g)'
      <3>1. /\ HcOut(g, "next")' <=> HcOut(g, "next")
            /\ HcOut(g, "answer")' <=> HcOut(g, "answer") \/ h = g
            /\ HcAnswered(g)' <=> HcAnswered(g)
            /\ HcOutOrder(g)'
        BY <1>1, <2>3, HcReplyOut
      <3> QED BY <3>1
    <2>4. ASSUME NEW res \in {"answered", "throw"}, HcReply("caught", hcFor[h], res), NEW g \in HcHook
          PROVE  /\ HcOut(g, "next")' <=> HcOut(g, "next")
                 /\ HcOut(g, "answer")' => HcOut(g, "answer") \/ g = h
                 /\ HcAnswered(g)' => HcAnswered(g) \/ hcNext[g] # "pending"
                 /\ HcOutOrder(g)'
      <3>0. PICK x \in HcHook : x = hcFor[h]
        BY DEF HcTyped
      <3>1. /\ HcOut(g, "next")' <=> HcOut(g, "next")
            /\ HcOut(g, "answer")' <=> HcOut(g, "answer")
            /\ HcAnswered(g)' <=> HcAnswered(g)
            /\ HcOutOrder(g)'
        BY <1>1, <2>4, <3>0, HcReplyOut
      <3> QED BY <3>1
    <2>5. \/ hcOut' = hcOut
          \/ HcReply("answer", h, "answered") /\ ~HcHolds(h)
          \/ \E res \in {"core", "throw"} : HcReply("answer", h, res)
          \/ \E res \in {"answered", "throw"} : HcReply("caught", hcFor[h], res)
      BY DEF HcAnswer, HcThrow, HcCaught, HcSweep
    <2> QED BY <2>1, <2>2, <2>3, <2>4, <2>5
  <1>6. ASSUME NEW g \in HcHook PROVE HcFlow(g)'
    BY <1>1, <1>2, <1>4, <1>5, HcHookFlow
  <1> QED BY <1>1, <1>6, HcRunnerNested DEF HcFlows

\* A runner dies, and its hooks and the frames to it are gone.
LEMMA HcDieFlows ==
    ASSUME HcTyped, HcCarried, HcFlows, NEW m \in HcMods, HcDie(m)
    PROVE  HcFlows'
  <1>1. /\ UNCHANGED <<hcOwner, hcBroker>> /\ hcNext' = hcNext
        /\ m \in hcAlive /\ hcAlive' = hcAlive \ {m}
        /\ HcFrom(m, [kind |-> "dead"])
        /\ \A x \in HcMods : hcIn'[x] = IF x = m THEN <<>> ELSE hcIn[x]
        /\ \A g \in HcHook : hcCtx'[g] = IF hcOwner[g] = m THEN "none" ELSE hcCtx[g]
        /\ HcNested /\ \A g \in HcHook : HcFlow(g)
        /\ \A g \in HcHook : HcInOrder(g) /\ HcOutOrder(g)
    BY DEF HcDie, HcFlows, HcFlow, HcOneToken, HcTyped
  <1>2. [kind |-> "dead"] \in HcToBroker
    BY DEF HcToBroker
  <1>3. PICK f \in HcToBroker : f = [kind |-> "dead"] /\ f.kind = "dead"
    BY <1>2
  <1>4. \A g \in HcHook :
          /\ HcOut(g, "next")' <=> HcOut(g, "next")
          /\ HcOut(g, "answer")' <=> HcOut(g, "answer")
          /\ HcAnswered(g)' <=> HcAnswered(g)
          /\ HcOutOrder(g)'
    BY <1>1, <1>3, HcFromOut
  <1>5. UNCHANGED <<hcPc, hcWhy, hcCell, hcPend, hcActive>>
    BY <1>1 DEF hcBroker
  <1>6. ASSUME NEW g \in HcHook PROVE HcFlow(g)'
    <2>0. hcOwner[g] \in HcMods
      BY DEF HcTyped
    <2>1. /\ HcIn(g, "event")' => HcIn(g, "event")
          /\ HcIn(g, "result")' => HcIn(g, "result")
          /\ hcOwner[g] # m => (HcIn(g, "result") => HcIn(g, "result")')
          /\ HcInOrder(g)'
      <3>1. ~HcHas(<<>>, "event", g) /\ ~HcHas(<<>>, "result", g) /\ HcOnce(<<>>, "event", g)
        BY DEF HcHas, HcOnce
      <3>2. hcIn'[hcOwner'[g]] = IF hcOwner[g] = m THEN <<>> ELSE hcIn[hcOwner[g]]
        BY <1>1, <2>0
      <3> QED BY <1>1, <3>1, <3>2 DEF HcIn, HcInOrder
    <2>2. HcToken(g)' => HcToken(g)
      BY <1>1, <1>4, <2>1 DEF HcToken
    <2>3. HcOneToken(g)'
      BY <1>1, <1>4, <1>5, <2>1, <2>2 DEF HcFlow, HcOneToken
    <2>4. HcKept(g)'
      BY <1>1, <1>4, <1>5, <2>0, <2>1 DEF HcFlow, HcKept, HcAtRest, HcToken, HcCached
    <2>5. HcPrompt(g)'
      BY <1>1, <1>4, <1>5 DEF HcFlow, HcPrompt
    <2> QED BY <2>3, <2>4, <2>5 DEF HcFlow
  <1> QED BY <1>1, <1>6, HcRunnerNested DEF HcFlows

-----------------------------------------------------------------------------
(* The chain.                                                              *)

HcInTime == HcTimely => HcFlows

\* At the start the event frame of the first hook is the only token.
LEMMA HcInitFlows == HcInit => HcCarried /\ HcFlows
  <1> SUFFICES ASSUME HcInit PROVE HcCarried /\ HcFlows
    OBVIOUS
  <1>0. HcTyped /\ 1 \in HcHook /\ hcOwner \in [HcHook -> HcMods]
    BY HcInitTyped, HcNumbered DEF HcTyped
  <1>1. /\ \A m \in HcMods : /\ hcIn[m] = IF m = hcOwner[1]
                                          THEN <<[kind |-> "event", of |-> 1]>> ELSE <<>>
                             /\ hcOut[m] = <<>>
        /\ hcAlive = HcMods
    BY DEF HcInit
  <1>2. /\ \A kind, g : ~HcHas(<<>>, kind, g)
        /\ \A kind, g : HcOnce(<<>>, kind, g)
        /\ \A g : HcNextFirst(<<>>, g) /\ ~HcHasAnswer(<<>>, g)
        /\ ~HcHasDead(<<>>) /\ HcDeadLast(<<>>)
    BY DEF HcHas, HcOnce, HcNextFirst, HcHasAnswer, HcHasDead, HcDeadLast
  <1>3. PICK e \in HcToRunner :
          e = [kind |-> "event", of |-> 1] /\ e.kind = "event" /\ e.of = 1
    <2>1. [kind |-> "event", of |-> 1] \in HcToRunner
      BY <1>0 DEF HcToRunner
    <2> QED BY <2>1
  <1>4. /\ \A kind, g : HcHas(<<e>>, kind, g) => kind = "event" /\ g = 1
        /\ \A g : HcOnce(<<e>>, "event", g)
    <2>1. Len(<<e>>) = 1 /\ \A i \in 1..1 : <<e>>[i] = e /\ i = 1
      OBVIOUS
    <2> QED BY <1>3, <2>1 DEF HcHas, HcOnce
  <1>5. /\ \A m \in HcMods : hcIn[m] = IF m = hcOwner[1] THEN <<e>> ELSE <<>>
        /\ \A m \in HcMods : \A kind, g : HcHas(hcIn[m], kind, g) =>
             kind = "event" /\ g = 1 /\ m = hcOwner[1]
        /\ \A m \in HcMods : \A g : HcOnce(hcIn[m], "event", g)
    <2>1. \A m \in HcMods : hcIn[m] = IF m = hcOwner[1] THEN <<e>> ELSE <<>>
      BY <1>1, <1>3
    <2>2. ASSUME NEW m \in HcMods
          PROVE  /\ \A kind, g : HcHas(hcIn[m], kind, g) =>
                      kind = "event" /\ g = 1 /\ m = hcOwner[1]
                 /\ \A g : HcOnce(hcIn[m], "event", g)
      <3>1. CASE m = hcOwner[1]
        BY <1>4, <2>1, <3>1
      <3>2. CASE m # hcOwner[1]
        BY <1>2, <2>1, <3>2
      <3> QED BY <3>1, <3>2
    <2> QED BY <2>1, <2>2
  <1>6. HcCarried
    <2>1. HcGoodIn(hcIn)
      BY <1>1, <1>5 DEF HcGoodIn
    <2>2. HcGoodOut
      BY <1>1, <1>2 DEF HcGoodOut
    <2>3. HcGoodMods
      BY <1>0 DEF HcInit, HcGoodMods
    <2> QED BY <2>1, <2>2, <2>3 DEF HcCarried
  <1>7. HcNested
    <2>1. \A k \in HcHook : hcPc[k] = (IF k = 1 THEN "loop" ELSE "off") /\ hcCell[k] = "off"
                            /\ hcRes[k] = "none"
      BY HcNumbered DEF HcInit
    <2>2. \A k \in 1..HcCore : hcRuns[k] = IF k = 1 THEN 1 ELSE 0
      BY DEF HcInit
    <2>3. \A h \in HcHook : h + 1 # 1
      BY HcNumbered DEF HcHook
    <2>4. \A j, k \in 1..HcCore : j <= k /\ k = 1 => j = 1
      BY HcNumbered
    <2> QED BY <2>1, <2>2, <2>3, <2>4, HcNumbered DEF HcNested, HcNothingTwice
  <1>8. ASSUME NEW g \in HcHook PROVE HcFlow(g)
    <2>0. hcOwner[g] \in HcMods /\ g # 0
      BY <1>0, HcNumbered
    <2>1. /\ HcIn(g, "event") => g = 1
          /\ ~HcIn(g, "result") /\ HcInOrder(g)
          /\ ~HcOut(g, "next") /\ ~HcOut(g, "answer") /\ ~HcAnswered(g) /\ HcOutOrder(g)
      <3>1. hcOut[hcOwner[g]] = <<>>
        BY <1>1, <2>0
      <3>2. ~HcOut(g, "next") /\ ~HcOut(g, "answer") /\ ~HcAnswered(g) /\ HcOutOrder(g)
        BY <1>2, <3>1 DEF HcOut, HcAnswered, HcOutOrder
      <3>3. ASSUME NEW kind, HcHas(hcIn[hcOwner[g]], kind, g) PROVE kind = "event" /\ g = 1
        <4>1. \A m \in HcMods : HcHas(hcIn[m], kind, g) => kind = "event" /\ g = 1
          BY <1>5
        <4> QED BY <2>0, <3>3, <4>1
      <3>4. HcOnce(hcIn[hcOwner[g]], "event", g)
        BY <1>5, <2>0
      <3> QED BY <3>2, <3>3, <3>4 DEF HcIn, HcInOrder
    <2>2. /\ hcPc[g] = (IF g = 1 THEN "loop" ELSE "off") /\ hcCell[g] = "off" /\ hcWhy[g] = "none"
          /\ hcPend = {} /\ hcCtx[g] = "none" /\ hcNext[g] = "no"
          /\ \A m \in HcMods : hcActive[m] = IF m = hcOwner[1] THEN 1 ELSE 0
      BY DEF HcInit
    <2>3. HcOneToken(g)
      BY <2>0, <2>1, <2>2 DEF HcOneToken, HcToken
    <2>4. HcKept(g) /\ HcPrompt(g)
      BY <2>1, <2>2 DEF HcKept, HcPrompt, HcResults
    <2> QED BY <2>3, <2>4 DEF HcFlow
  <1> QED BY <1>6, <1>7, <1>8 DEF HcFlows

\* The invariant of the chain.
HcChain == HcSound /\ HcCarried /\ HcInTime

\* Where every hook answers within its time the runs are nested and every
\* frame is in its place.
THEOREM HcChainHolds == HcSpec => []HcChain
  <1>1. HcInit => HcChain
    BY HcInitTyped, HcInitFlows DEF HcChain, HcSound, HcInTime
  <1>2. HcSound /\ HcChain /\ [HcNextStep]_hcVars /\ HcSound' => HcChain'
    <2> SUFFICES ASSUME HcChain, [HcNextStep]_hcVars, HcSound' PROVE HcChain'
      OBVIOUS
    <2>0. HcTyped /\ HcBlamed /\ HcCarried
      BY DEF HcChain, HcSound
    <2>1. CASE HcBrokerStep
      <3>1. HcCarried'
        BY <2>0, <2>1, HcBrokerGood
      <3>2. hcMay' = hcMay
        BY <2>1 DEF HcBrokerStep, HcReadNext, HcReadReply, HcReadDead, HcExpire, HcCapped, HcBroke,
                    HcAwait, HcListen, HcBack, HcSettle, HcNotify, HcBelow, HcBrokerOnly
      <3>3. ASSUME HcTimely PROVE HcFlows'
        <4>1. HcFlows
          BY <3>3 DEF HcChain, HcInTime
        <4>2. ASSUME NEW m \in HcMods, HcReadNext(m) \/ HcReadReply(m) \/ HcReadDead(m)
              PROVE  HcFlows'
          BY <2>0, <4>1, <4>2, HcReadNextFlows, HcReadReplyFlows, HcReadDeadFlows
        <4>3. ASSUME NEW h \in HcHook, HcExpire(h) PROVE HcFlows'
          BY <2>0, <3>3, <4>1, <4>3, HcExpireFlows
        <4>6. \A h \in HcHook : ~HcCapped(h)
          BY <3>3 DEF HcCapped, HcTimely
        <4>4. ASSUME NEW h \in HcHook, HcBroke(h) \/ HcAwait(h) \/ HcListen(h) \/ HcNotify(h)
                                       \/ HcBelow(h)
              PROVE  HcFlows'
          BY <2>0, <4>1, <4>4, HcWaitFlows
        <4>5. ASSUME NEW h \in HcHook, HcBack(h) \/ HcSettle(h) PROVE HcFlows'
          BY <2>0, <4>1, <4>5, HcBackFlows, HcSettleFlows
        <4> QED BY <2>1, <4>2, <4>3, <4>4, <4>5, <4>6 DEF HcBrokerStep
      <3> QED BY <3>1, <3>2, <3>3 DEF HcChain, HcInTime, HcTimely
    <2>2. CASE HcRunnerStep
      <3>1. HcCarried'
        BY <2>0, <2>2, HcRunnerGood
      <3>2. hcMay' = hcMay
        BY <2>2 DEF HcRunnerStep, HcEvent, HcResult, HcAbandon, HcCatchCall, HcDie, HcCallNext,
                    HcAnswer, HcThrow, HcCaught, HcSweep, HcRunnerOnly
      <3>3. ASSUME HcTimely PROVE HcFlows'
        <4>1. HcFlows
          BY <3>3 DEF HcChain, HcInTime
        <4>2. ASSUME NEW m \in HcMods, HcEvent(m) \/ HcResult(m) \/ HcDie(m) PROVE HcFlows'
          BY <2>0, <4>1, <4>2, HcEventFlows, HcResultFlows, HcDieFlows
        <4>3. ASSUME NEW m \in HcMods, HcAbandon(m) \/ HcCatchCall(m) PROVE HcFlows'
          BY <2>0, <4>1, <4>3, HcEndedFlows
        <4>4. ASSUME NEW h \in HcHook, HcCallNext(h) PROVE HcFlows'
          BY <2>0, <4>1, <4>4, HcCallNextFlows
        <4>5. ASSUME NEW h \in HcHook, HcAnswer(h) \/ HcThrow(h) \/ HcCaught(h) \/ HcSweep(h)
              PROVE  HcFlows'
          BY <2>0, <4>1, <4>5, HcHookFlows
        <4> QED BY <2>2, <4>2, <4>3, <4>4, <4>5 DEF HcRunnerStep
      <3> QED BY <3>1, <3>2, <3>3 DEF HcChain, HcInTime, HcTimely
    <2>3. CASE UNCHANGED hcVars
      <3>1. UNCHANGED <<hcOwner, hcMay, hcPc, hcWhy, hcCell, hcTold, hcPend, hcActive, hcRuns, hcRes,
                        hcIn, hcOut, hcAlive, hcCtx, hcNext, hcFor>>
        BY <2>3 DEF hcVars, hcBroker, hcRunner
      <3>2. HcCarried'
        BY <2>0, <3>1 DEF HcCarried, HcGoodIn, HcGoodOut, HcGoodMods
      <3>3. HcInTime'
        <4>1. HcNested => HcNested'
          BY <3>1 DEF HcNested, HcNothingTwice, HcDone
        <4>2. \A g \in HcHook : HcFlow(g) => HcFlow(g)'
          BY <3>1 DEF HcFlow, HcOneToken, HcKept, HcPrompt, HcToken, HcIn, HcOut, HcAnswered,
                      HcInOrder, HcOutOrder, HcAtRest, HcCached
        <4> QED BY <3>1, <4>1, <4>2 DEF HcChain, HcInTime, HcFlows, HcTimely
      <3> QED BY <3>2, <3>3 DEF HcChain
    <2> QED BY <2>1, <2>2, <2>3 DEF HcNextStep
  <1> QED BY <1>1, <1>2, HcIsSound, PTL DEF HcSpec

\* Nothing beneath a hook runs twice, as long as every hook answers in time.
THEOREM HcRunsOnceHolds == HcSpec => []HcRunsOnce
  <1>1. HcChain => HcRunsOnce
    BY DEF HcChain, HcInTime, HcFlows, HcNested, HcRunsOnce
  <1> QED BY <1>1, HcChainHolds, PTL

\* A run that has returned has nothing under way beneath it.
THEOREM HcSettlesLastHolds == HcSpec => []HcSettlesLast
  <1>1. HcChain => HcSettlesLast
    BY DEF HcChain, HcInTime, HcFlows, HcNested, HcSettlesLast
  <1> QED BY <1>1, HcChainHolds, PTL

\* No living hook is left waiting for the next it called.
THEOREM HcNextIsAnswered == HcSpec => []HcNextAnswered
  <1>1. HcChain => HcNextAnswered
    <2> SUFFICES ASSUME HcChain, HcTimely, NEW h \in HcHook,
                        hcOwner[h] \in hcAlive, hcIn[hcOwner[h]] = <<>>,
                        hcOut[hcOwner[h]] = <<>>, hcPc[h] = "ret"
                 PROVE  hcNext[h] # "pending"
      BY DEF HcNextAnswered
    <2>1. HcNested /\ HcFlow(h)
      BY DEF HcChain, HcInTime, HcFlows
    <2>2. ~HcOut(h, "next") /\ ~HcIn(h, "result")
      BY DEF HcOut, HcIn, HcHas
    <2>3. <<h, h>> \notin hcPend
      BY <2>1 DEF HcNested, HcFlow, HcKept
    <2> QED BY <2>1, <2>2, <2>3 DEF HcFlow, HcKept
  <1> QED BY <1>1, HcChainHolds, PTL

\* A hook that answers is never caught between the look at the cell and the
\* listening.
THEOREM HcAnswerIsPrompt == HcSpec => []HcAnswerNeverWaits
  <1>1. HcChain => HcAnswerNeverWaits
    BY DEF HcChain, HcInTime, HcFlows, HcFlow, HcPrompt, HcAnswerNeverWaits
  <1> QED BY <1>1, HcChainHolds, PTL
=============================================================================
