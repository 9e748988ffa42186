------------------------ MODULE CheckpointLogProofs ------------------------
(***************************************************************************)
(* What the log of a session keeps, for any writers, ids, histories and    *)
(* number of lines, if a crash never leaves a line whole but for its end   *)
(* of line: no chain of deltas breaks (CpAnchored), every checkpoint is    *)
(* rebuilt into the messages it was put with (CpExact), a fork starts from *)
(* the same (CpForkSame), and readers see a CheckpointHistory              *)
(* (CpKeepsPromise).                                                       *)
(*                                                                         *)
(* None is inductive: a commit was computed from the file before it took   *)
(* the path lock, so the invariants have to say that what it relies on is  *)
(* still there when it is appended.  It is, because only a truncate takes  *)
(* checkpoints away, and a truncate is only in flight alone.  Inv says so  *)
(* of the lines, Stored of the entries the fold makes of them.             *)
(*                                                                         *)
(* CpFold and CpRebuilt are recursive functions.  What they are is shown   *)
(* from the definition of a function by recursion (whichever function      *)
(* satisfies the equation), by induction from the least counterexample.    *)
(***************************************************************************)
EXTENDS CheckpointLog, SequenceTheorems, WellFoundedInduction, TLAPS

\* s is a sequence; nothing is said of its elements.
IsSeq(s) == \E S : s \in Seq(S)

\* What is stored in a file rests on what is stored before it.
Anchored(lines) ==
    \A k \in DOMAIN lines :
        CpLive(lines, k) /\ lines[k].base # CpNone =>
            \E j \in 1..k-1 : CpLive(lines, j) /\ lines[j].id = lines[k].base

Op(st, line) == [stage |-> st, line |-> line]

OpsOK ==
    /\ cpOp = [w \in CpWriters |-> cpOp[w]]
    /\ \A w \in CpWriters :
        \/ cpOp[w] = CpIdle
        \/ \E line : cpOp[w] = Op("ready", line) \/ cpOp[w] = Op("migrated", line)

FilesOK ==
    /\ IsSeq(cpLog) /\ IsSeq(cpLegacy)
    /\ cpExists \in BOOLEAN
    /\ ~cpExists => cpLog = <<>>
    /\ cpTorn.kind # "bare"

\* A line about to be appended: a delta has its base in the file, a truncate
\* names a checkpoint of the file and is alone.
Ready(w) ==
    LET line == cpOp[w].line IN
    cpOp[w] # CpIdle =>
        \/ line.op = "writes"
        \/ line.op = "cp" /\ (line.base # CpNone => line.base \in CpLiveIds(CpFile))
        \/ /\ line.op = "truncate"
           /\ line.id \in CpLiveIds(CpFile)
           /\ \A v \in CpWriters \ {w} : cpOp[v] = CpIdle

Inv ==
    /\ OpsOK
    /\ FilesOK
    /\ Anchored(CpFile)
    /\ \A w \in CpWriters : Ready(w)

-----------------------------------------------------------------------------
(* Sequences.                                                              *)

\* What an append does to a log.
LEMMA AppendSeq ==
    ASSUME NEW s, NEW e, IsSeq(s)
    PROVE  /\ IsSeq(Append(s, e))
           /\ Len(s) \in Nat /\ DOMAIN s = 1..Len(s)
           /\ Len(Append(s, e)) = Len(s) + 1
           /\ DOMAIN Append(s, e) = 1..Len(s) + 1
           /\ \A k \in 1..Len(s) : Append(s, e)[k] = s[k]
           /\ Append(s, e)[Len(s) + 1] = e
<1>1. PICK S : s \in Seq(S)  BY DEF IsSeq
<1>2. s \in Seq(S \cup {e}) /\ e \in S \cup {e}  BY <1>1
<1>3. Append(s, e) \in Seq(S \cup {e})  BY <1>2
<1>4. IsSeq(Append(s, e))  BY <1>3 DEF IsSeq
<1> QED  BY <1>2, <1>3, <1>4

\* Appending anything but a truncate leaves what is stored and adds a
\* checkpoint if the line is one.
LEMMA AppendLive ==
    ASSUME NEW s, NEW e, IsSeq(s), e.op # "truncate"
    PROVE  /\ \A k \in 1..Len(s) : CpLive(Append(s, e), k) <=> CpLive(s, k)
           /\ CpLive(Append(s, e), Len(s) + 1) <=> e.op = "cp"
<1> DEFINE t == Append(s, e)
           n == Len(s)
<1>1. /\ n \in Nat /\ Len(t) = n + 1 /\ t[n + 1] = e
      /\ \A k \in 1..n : t[k] = s[k]
  BY AppendSeq
<1> HIDE DEF t, n
<1>2. ASSUME NEW k \in 1..n  PROVE CpLive(t, k) <=> CpLive(s, k)
  <2>1. t[k] = s[k]  BY <1>1
  <2>2. ASSUME CpLive(t, k)  PROVE CpLive(s, k)
    <3> SUFFICES ASSUME NEW i \in k+1..n, s[i].op = "truncate"
                 PROVE  \E j \in k..i-1 : s[j].op = "cp" /\ s[j].id = s[i].id
      BY <2>1, <2>2 DEF CpLive, n
    <3>1. i \in k+1..Len(t) /\ t[i] = s[i]  BY <1>1
    <3>2. PICK j \in k..i-1 : t[j].op = "cp" /\ t[j].id = t[i].id
      BY <3>1, <2>2 DEF CpLive
    <3>3. t[j] = s[j]  BY <1>1
    <3> QED  BY <3>1, <3>2, <3>3
  <2>3. ASSUME CpLive(s, k)  PROVE CpLive(t, k)
    <3> SUFFICES ASSUME NEW i \in k+1..Len(t), t[i].op = "truncate"
                 PROVE  \E j \in k..i-1 : t[j].op = "cp" /\ t[j].id = t[i].id
      BY <2>1, <2>3 DEF CpLive
    <3>1. i # n + 1  BY <1>1
    <3>2. i \in k+1..n /\ t[i] = s[i]  BY <1>1, <3>1
    <3>3. PICK j \in k..i-1 : s[j].op = "cp" /\ s[j].id = s[i].id
      BY <3>2, <2>3 DEF CpLive, n
    <3>4. t[j] = s[j]  BY <1>1, <3>2
    <3> QED  BY <3>2, <3>3, <3>4
  <2> QED  BY <2>2, <2>3
<1>3. CpLive(t, n + 1) <=> e.op = "cp"
  <2>1. (n + 1) + 1..Len(t) = {}  BY <1>1
  <2> QED  BY <1>1, <2>1 DEF CpLive
<1> QED  BY <1>2, <1>3 DEF t, n

\* Appending a truncate keeps what is stored up to a checkpoint it names.
LEMMA AppendTruncate ==
    ASSUME NEW s, NEW e, IsSeq(s), e.op = "truncate"
    PROVE  /\ \A k \in 1..Len(s) : CpLive(Append(s, e), k) <=>
                  /\ CpLive(s, k)
                  /\ \E j \in k..Len(s) : s[j].op = "cp" /\ s[j].id = e.id
           /\ ~CpLive(Append(s, e), Len(s) + 1)
<1> DEFINE t == Append(s, e)
           n == Len(s)
<1>1. /\ n \in Nat /\ Len(t) = n + 1 /\ t[n + 1] = e
      /\ \A k \in 1..n : t[k] = s[k]
  BY AppendSeq
<1> HIDE DEF t, n
<1>2. ASSUME NEW k \in 1..n
      PROVE  CpLive(t, k) <=>
                /\ CpLive(s, k)
                /\ \E j \in k..n : s[j].op = "cp" /\ s[j].id = e.id
  <2>1. t[k] = s[k]  BY <1>1
  <2>2. ASSUME CpLive(t, k)
        PROVE  CpLive(s, k) /\ \E j \in k..n : s[j].op = "cp" /\ s[j].id = e.id
    <3>1. ASSUME NEW i \in k+1..n, s[i].op = "truncate"
          PROVE  \E j \in k..i-1 : s[j].op = "cp" /\ s[j].id = s[i].id
      <4>1. i \in k+1..Len(t) /\ t[i] = s[i]  BY <1>1
      <4>2. PICK j \in k..i-1 : t[j].op = "cp" /\ t[j].id = t[i].id
        BY <3>1, <4>1, <2>2 DEF CpLive
      <4>3. t[j] = s[j]  BY <1>1
      <4> QED  BY <4>1, <4>2, <4>3
    <3>2. CpLive(s, k)  BY <2>1, <2>2, <3>1 DEF CpLive, n
    <3>3. n + 1 \in k+1..Len(t)  BY <1>1
    <3>4. PICK j \in k..(n + 1)-1 : t[j].op = "cp" /\ t[j].id = t[n + 1].id
      BY <3>3, <2>2, <1>1 DEF CpLive
    <3>5. j \in k..n /\ t[j] = s[j]  BY <1>1
    <3> QED  BY <3>2, <3>4, <3>5, <1>1
  <2>3. ASSUME CpLive(s, k), \E j \in k..n : s[j].op = "cp" /\ s[j].id = e.id
        PROVE  CpLive(t, k)
    <3> SUFFICES ASSUME NEW i \in k+1..Len(t), t[i].op = "truncate"
                 PROVE  \E j \in k..i-1 : t[j].op = "cp" /\ t[j].id = t[i].id
      BY <2>1, <2>3 DEF CpLive
    <3>1. CASE i = n + 1
      <4>1. PICK j \in k..n : s[j].op = "cp" /\ s[j].id = e.id  BY <2>3
      <4> QED  BY <1>1, <3>1, <4>1
    <3>2. CASE i # n + 1
      <4>2. i \in k+1..n /\ t[i] = s[i]  BY <1>1, <3>2
      <4>3. PICK j \in k..i-1 : s[j].op = "cp" /\ s[j].id = s[i].id
        BY <4>2, <2>3 DEF CpLive, n
      <4>4. t[j] = s[j]  BY <1>1, <4>2
      <4> QED  BY <4>2, <4>3, <4>4
    <3> QED  BY <3>1, <3>2
  <2> QED  BY <2>2, <2>3
<1>3. ~CpLive(t, n + 1)  BY <1>1 DEF CpLive
<1> QED  BY <1>2, <1>3 DEF t, n

-----------------------------------------------------------------------------
(* Appending a ready line.                                                 *)

\* A line that rests on the file leaves the file resting on itself.
LEMMA AppendAnchored ==
    ASSUME NEW s, NEW e, IsSeq(s), Anchored(s),
           \/ e.op = "writes"
           \/ e.op = "cp" /\ (e.base # CpNone => e.base \in CpLiveIds(s))
           \/ e.op = "truncate"
    PROVE  Anchored(Append(s, e))
<1> DEFINE t == Append(s, e)
           n == Len(s)
<1>1. /\ n \in Nat /\ Len(t) = n + 1 /\ t[n + 1] = e
      /\ DOMAIN s = 1..n /\ DOMAIN t = 1..n + 1
      /\ \A k \in 1..n : t[k] = s[k]
  BY AppendSeq
<1>l. CASE e.op # "truncate"
  <2>0. /\ \A k \in 1..n : CpLive(t, k) <=> CpLive(s, k)
        /\ CpLive(t, n + 1) <=> e.op = "cp"
    BY <1>l, AppendLive
  <2> HIDE DEF t, n
  <2> SUFFICES ASSUME NEW k \in DOMAIN t, CpLive(t, k), t[k].base # CpNone
               PROVE  \E j \in 1..k-1 : CpLive(t, j) /\ t[j].id = t[k].base
    BY DEF Anchored, t
  <2>1. CASE k \in 1..n
    <3>1. PICK j \in 1..k-1 : CpLive(s, j) /\ s[j].id = s[k].base
      BY <1>1, <2>0, <2>1 DEF Anchored
    <3>2. j \in 1..n  BY <1>1, <2>1
    <3> QED  BY <1>1, <2>0, <2>1, <3>1, <3>2
  <2>2. CASE k = n + 1
    <3>1. e.op = "cp" /\ e.base # CpNone  BY <1>1, <2>0, <2>2
    <3>2. PICK j \in 1..n : CpLive(s, j) /\ s[j].id = e.base
      BY <3>1, <1>1 DEF CpLiveIds
    <3> QED  BY <1>1, <2>0, <2>2, <3>2
  <2> QED  BY <1>1, <2>1, <2>2
<1>t. CASE e.op = "truncate"
  <2>0. /\ \A k \in 1..n : CpLive(t, k) <=>
              /\ CpLive(s, k)
              /\ \E j \in k..n : s[j].op = "cp" /\ s[j].id = e.id
        /\ ~CpLive(t, n + 1)
    BY <1>t, AppendTruncate
  <2> HIDE DEF t, n
  <2> SUFFICES ASSUME NEW k \in DOMAIN t, CpLive(t, k), t[k].base # CpNone
               PROVE  \E j \in 1..k-1 : CpLive(t, j) /\ t[j].id = t[k].base
    BY DEF Anchored, t
  <2>1. k \in 1..n  BY <1>1, <2>0
  <2>2. PICK j \in 1..k-1 : CpLive(s, j) /\ s[j].id = s[k].base
    BY <1>1, <2>0, <2>1 DEF Anchored
  <2>3. PICK i \in k..n : s[i].op = "cp" /\ s[i].id = e.id  BY <2>0, <2>1
  <2>4. j \in 1..n /\ i \in j..n  BY <1>1, <2>1, <2>2, <2>3
  <2> QED  BY <1>1, <2>0, <2>1, <2>2, <2>3, <2>4
<1> QED  BY <1>l, <1>t

\* What is stored stays stored unless the line is a truncate.
LEMMA AppendKeeps ==
    ASSUME NEW s, NEW e, IsSeq(s), e.op # "truncate"
    PROVE  CpLiveIds(s) \subseteq CpLiveIds(Append(s, e))
<1>1. /\ Len(s) \in Nat /\ DOMAIN s = 1..Len(s)
      /\ DOMAIN Append(s, e) = 1..Len(s) + 1
      /\ \A k \in 1..Len(s) : Append(s, e)[k] = s[k]
  BY AppendSeq
<1>2. \A k \in 1..Len(s) : CpLive(Append(s, e), k) <=> CpLive(s, k)  BY AppendLive
<1> SUFFICES ASSUME NEW k \in DOMAIN s, CpLive(s, k)
             PROVE  s[k].id \in CpLiveIds(Append(s, e))
  BY DEF CpLiveIds
<1>3. k \in DOMAIN Append(s, e) /\ CpLive(Append(s, e), k) /\ Append(s, e)[k] = s[k]
  BY <1>1, <1>2
<1> QED  BY <1>3 DEF CpLiveIds

-----------------------------------------------------------------------------
(* The invariant.                                                          *)

\* The invariant holds at the beginning ...
LEMMA InitInv == "bare" \notin CpTears /\ CpInit => Inv
<1> SUFFICES ASSUME CpInit  PROVE Inv  OBVIOUS
<1> USE DEF CpInit
<1>1. OpsOK  BY DEF OpsOK
<1>2. FilesOK
  <2>1. IsSeq(cpLegacy)
    <3>1. <<>> \in Seq({})  OBVIOUS
    <3> QED  BY <3>1, CpDocumentAssumption DEF IsSeq
  <2>2. IsSeq(cpLog)  
    <3>1. <<>> \in Seq({})  OBVIOUS
    <3> QED  BY <3>1 DEF IsSeq
  <2> QED  BY <2>1, <2>2 DEF FilesOK, CpWhole
<1>3. Anchored(CpFile)  BY CpDocumentAssumption DEF Anchored, CpFile
<1>4. \A w \in CpWriters : Ready(w)  BY DEF Ready
<1> QED  BY <1>1, <1>2, <1>3, <1>4 DEF Inv

\* Nothing but a torn line that parses sets the reader's lines apart from the file's.
LEMMA LinesAreFile == Inv => CpLines = CpFile
BY DEF Inv, FilesOK, CpLines

\* ... and every step keeps it.
LEMMA NextInv == "bare" \notin CpTears /\ Inv /\ [CpNext]_cpVars => Inv'
<1> SUFFICES ASSUME "bare" \notin CpTears, Inv, [CpNext]_cpVars  PROVE Inv'
  OBVIOUS
<1>lines. CpLines = CpFile  BY LinesAreFile
<1>p. ASSUME NEW w \in CpWriters, CpPutRead(w)  PROVE Inv'
  <2> USE <1>p DEF CpPutRead
  <2>1. PICK id \in CpIds, msgs \in CpHistories,
             parent \in IF CpLiveIds(CpFile) = {} THEN {CpNone} ELSE CpLiveIds(CpFile) :
            cpOp' = [cpOp EXCEPT ![w] = [stage |-> "ready", line |-> CpEncode(id, parent, msgs)]]
    BY <1>lines
  <2> DEFINE line == CpEncode(id, parent, msgs)
  <2>2. /\ line.op = "cp"
        /\ line.base # CpNone => line.base \in CpLiveIds(CpFile)
    <3>1. line.op = "cp" /\ line.base \in {parent, CpNone}
      BY DEF CpEncode, CpLine
    <3> QED  BY <3>1
  <2> HIDE DEF line
  <2>3. CpFile' = CpFile  BY DEF CpFile
  <2>4. OpsOK'
    <3>1. cpOp' = [v \in CpWriters |-> cpOp'[v]]  BY <2>1 DEF Inv, OpsOK
    <3>2. ASSUME NEW v \in CpWriters
          PROVE  cpOp'[v] = CpIdle \/ \E l : cpOp'[v] = Op("ready", l) \/ cpOp'[v] = Op("migrated", l)
      BY <2>1 DEF Inv, OpsOK, Op, line
    <3> QED  BY <3>1, <3>2 DEF OpsOK
  <2>5. FilesOK' /\ Anchored(CpFile)'
    BY <2>3 DEF Inv, FilesOK, Anchored, CpLive
  <2>6. ASSUME NEW v \in CpWriters  PROVE Ready(v)'
    <3>1. CpLiveIds(CpFile)' = CpLiveIds(CpFile)  BY <2>3 DEF CpLiveIds, CpLive
    <3>2. CASE v = w
      BY <2>1, <2>2, <3>1, <3>2 DEF Inv, OpsOK, Ready, line
    <3>3. CASE v # w
      <4>1. cpOp'[v] = cpOp[v]  BY <2>1, <3>3 DEF Inv, OpsOK
      <4>2. cpOp[v] # CpIdle => cpOp[v].line.op # "truncate"  BY DEF CpRewinding
      <4> QED  BY <3>1, <4>1, <4>2 DEF Inv, Ready
    <3> QED  BY <3>2, <3>3
  <2> QED  BY <2>4, <2>5, <2>6 DEF Inv
<1>w. ASSUME NEW w \in CpWriters, CpWritesReady(w)  PROVE Inv'
  <2> USE <1>w DEF CpWritesReady
  <2>1. PICK id, kind :
            cpOp' = [cpOp EXCEPT ![w] = [stage |-> "ready", line |-> CpWritesLine(id, kind)]]
    OBVIOUS
  <2>2. CpWritesLine(id, kind).op = "writes"  BY DEF CpWritesLine
  <2>3. CpFile' = CpFile  BY DEF CpFile
  <2>4. OpsOK'
    <3>1. cpOp' = [v \in CpWriters |-> cpOp'[v]]  BY <2>1 DEF Inv, OpsOK
    <3>2. ASSUME NEW v \in CpWriters
          PROVE  cpOp'[v] = CpIdle \/ \E l : cpOp'[v] = Op("ready", l) \/ cpOp'[v] = Op("migrated", l)
      BY <2>1 DEF Inv, OpsOK, Op
    <3> QED  BY <3>1, <3>2 DEF OpsOK
  <2>5. FilesOK' /\ Anchored(CpFile)'
    BY <2>3 DEF Inv, FilesOK, Anchored, CpLive
  <2>6. ASSUME NEW v \in CpWriters  PROVE Ready(v)'
    <3>1. CpLiveIds(CpFile)' = CpLiveIds(CpFile)  BY <2>3 DEF CpLiveIds, CpLive
    <3>2. CASE v = w
      BY <2>1, <2>2, <3>2 DEF Inv, OpsOK, Ready
    <3>3. CASE v # w
      <4>1. cpOp'[v] = cpOp[v]  BY <2>1, <3>3 DEF Inv, OpsOK
      <4>2. cpOp[v] # CpIdle => cpOp[v].line.op # "truncate"  BY DEF CpRewinding
      <4> QED  BY <3>1, <4>1, <4>2 DEF Inv, Ready
    <3> QED  BY <3>2, <3>3
  <2> QED  BY <2>4, <2>5, <2>6 DEF Inv
<1>t. ASSUME NEW w \in CpWriters, CpTruncateRead(w)  PROVE Inv'
  <2> USE <1>t DEF CpTruncateRead, CpIdleWriter
  <2>1. PICK id \in CpLiveIds(CpFile) :
            cpOp' = [cpOp EXCEPT ![w] = [stage |-> "ready", line |-> CpTruncateLine(id)]]
    BY <1>lines
  <2>2. CpTruncateLine(id).op = "truncate" /\ CpTruncateLine(id).id = id  BY DEF CpTruncateLine
  <2>3. CpFile' = CpFile  BY DEF CpFile
  <2>4. OpsOK'
    <3>1. cpOp' = [v \in CpWriters |-> cpOp'[v]]  BY <2>1 DEF Inv, OpsOK
    <3>2. ASSUME NEW v \in CpWriters
          PROVE  cpOp'[v] = CpIdle \/ \E l : cpOp'[v] = Op("ready", l) \/ cpOp'[v] = Op("migrated", l)
      BY <2>1 DEF Inv, OpsOK, Op
    <3> QED  BY <3>1, <3>2 DEF OpsOK
  <2>5. FilesOK' /\ Anchored(CpFile)'
    BY <2>3 DEF Inv, FilesOK, Anchored, CpLive
  <2>6. ASSUME NEW v \in CpWriters  PROVE Ready(v)'
    <3>1. CpLiveIds(CpFile)' = CpLiveIds(CpFile)  BY <2>3 DEF CpLiveIds, CpLive
    <3>2. \A u \in CpWriters \ {w} : cpOp'[u] = CpIdle  BY <2>1 DEF Inv, OpsOK
    <3>3. cpOp'[w].line = CpTruncateLine(id)  BY <2>1 DEF Inv, OpsOK
    <3> QED  BY <2>2, <3>1, <3>2, <3>3 DEF Ready
  <2> QED  BY <2>4, <2>5, <2>6 DEF Inv
<1>m. ASSUME NEW w \in CpWriters, CpMigrate(w)  PROVE Inv'
  <2> USE <1>m DEF CpMigrate
  <2>1. CpFile' = CpFile  BY DEF CpFile
  <2>2. OpsOK'
    <3>1. cpOp' = [v \in CpWriters |-> cpOp'[v]]  BY DEF Inv, OpsOK
    <3>2. ASSUME NEW v \in CpWriters
          PROVE  cpOp'[v] = CpIdle \/ \E l : cpOp'[v] = Op("ready", l) \/ cpOp'[v] = Op("migrated", l)
      BY DEF Inv, OpsOK, Op
    <3> QED  BY <3>1, <3>2 DEF OpsOK
  <2>3. FilesOK' /\ Anchored(CpFile)'
    BY <2>1 DEF Inv, FilesOK, Anchored, CpLive
  <2>4. CpLiveIds(CpFile)' = CpLiveIds(CpFile)  BY <2>1 DEF CpLiveIds, CpLive
  <2>5. cpOp[w] # CpIdle  BY DEF CpIdle
  <2>6. \A v \in CpWriters :
            /\ (cpOp'[v] = CpIdle) <=> (cpOp[v] = CpIdle)
            /\ cpOp[v] # CpIdle => cpOp'[v].line = cpOp[v].line
    BY <2>5 DEF Inv, OpsOK, CpIdle
  <2> HIDE <1>m DEF CpMigrate
  <2>7. ASSUME NEW v \in CpWriters  PROVE Ready(v)'
    <3> SUFFICES ASSUME cpOp'[v] # CpIdle  PROVE Ready(v)'  BY DEF Ready
    <3>1. cpOp[v] # CpIdle /\ cpOp'[v].line = cpOp[v].line  BY <2>6
    <3>2. Ready(v)  BY DEF Inv
    <3>3. (\A u \in CpWriters \ {v} : cpOp[u] = CpIdle) =>
              \A u \in CpWriters \ {v} : cpOp'[u] = CpIdle
      BY <2>6
    <3> QED  BY <2>4, <3>1, <3>2, <3>3 DEF Ready
  <2> QED  BY <2>2, <2>3, <2>7 DEF Inv
<1>c. ASSUME NEW w \in CpWriters, CpCommit(w)  PROVE Inv'
  <2> USE <1>c DEF CpCommit, CpAppending, CpRepaired
  <2> DEFINE line == cpOp[w].line
  <2>1. cpOp[w] # CpIdle  BY DEF CpIdle
  <2>2. CpFile = cpLog /\ IsSeq(CpFile)  BY DEF Inv, FilesOK, CpFile
  <2>3. CpFile' = Append(CpFile, line)  BY <2>2 DEF CpFile
  <2>4. \/ line.op = "writes"
        \/ line.op = "cp" /\ (line.base # CpNone => line.base \in CpLiveIds(CpFile))
        \/ line.op = "truncate" /\ \A v \in CpWriters \ {w} : cpOp[v] = CpIdle
    BY <2>1 DEF Inv, Ready
  <2> HIDE DEF line
  <2>5. Anchored(CpFile')
    <3>1. Anchored(CpFile)  BY DEF Inv
    <3>2. Anchored(Append(CpFile, line))  BY <2>2, <2>4, <3>1, AppendAnchored
    <3> QED  BY <2>3, <3>2
  <2>6. OpsOK'
    <3>1. cpOp' = [v \in CpWriters |-> cpOp'[v]]  BY DEF Inv, OpsOK
    <3>2. ASSUME NEW v \in CpWriters
          PROVE  cpOp'[v] = CpIdle \/ \E l : cpOp'[v] = Op("ready", l) \/ cpOp'[v] = Op("migrated", l)
      BY DEF Inv, OpsOK
    <3> QED  BY <3>1, <3>2 DEF OpsOK
  <2>7. FilesOK'
    <3>1. IsSeq(cpLog')  BY <2>2, AppendSeq
    <3>2. IsSeq(cpLegacy')
      <4>1. <<>> \in Seq({})  OBVIOUS
      <4> QED  BY <4>1 DEF Inv, FilesOK, IsSeq
    <3> QED  BY <3>1, <3>2 DEF FilesOK, CpWhole
  <2>8. ASSUME NEW v \in CpWriters  PROVE Ready(v)'
    <3>1. CASE v = w  BY <3>1 DEF Inv, OpsOK, Ready
    <3>2. CASE v # w /\ cpOp[v] = CpIdle  BY <3>2 DEF Inv, OpsOK, Ready
    <3>3. CASE v # w /\ cpOp[v] # CpIdle
      <4>1. cpOp'[v] = cpOp[v]  BY <3>3 DEF Inv, OpsOK
      <4>2. line.op # "truncate"  BY <2>4, <3>3
      <4>3. CpLiveIds(CpFile) \subseteq CpLiveIds(CpFile')
        BY <2>2, <2>3, <4>2, AppendKeeps
      <4>4. cpOp[v].line.op # "truncate"  BY <2>1, <3>3 DEF Inv, Ready
      <4> QED  BY <3>3, <4>1, <4>3, <4>4 DEF Inv, Ready
    <3> QED  BY <3>1, <3>2, <3>3
  <2> QED  BY <2>5, <2>6, <2>7, <2>8 DEF Inv
<1>x. ASSUME NEW w \in CpWriters, CpTear(w)  PROVE Inv'
  <2> USE <1>x DEF CpTear, CpAppending, CpRepaired
  <2>1. CpFile' = CpFile  BY DEF Inv, FilesOK, CpFile
  <2>2. OpsOK'  BY DEF OpsOK
  <2>3. cpTorn'.kind # "bare"  OBVIOUS
  <2>4. IsSeq(cpLegacy')
    <3>1. <<>> \in Seq({})  OBVIOUS
    <3> QED  BY <3>1 DEF Inv, FilesOK, IsSeq
  <2>5. FilesOK' /\ Anchored(CpFile)'
    BY <2>1, <2>3, <2>4 DEF Inv, FilesOK, Anchored, CpLive
  <2>6. \A v \in CpWriters : Ready(v)'  BY DEF Ready
  <2> QED  BY <2>2, <2>5, <2>6 DEF Inv
<1>r. ASSUME CpCrash  PROVE Inv'
  <2> USE <1>r DEF CpCrash
  <2>1. CpFile' = CpFile  BY DEF CpFile
  <2>2. OpsOK' /\ \A v \in CpWriters : Ready(v)'  BY DEF OpsOK, Ready
  <2>3. FilesOK' /\ Anchored(CpFile)'
    BY <2>1 DEF Inv, FilesOK, Anchored, CpLive
  <2> QED  BY <2>2, <2>3 DEF Inv
<1>u. CASE UNCHANGED cpVars
  BY <1>u DEF cpVars, Inv, OpsOK, FilesOK, Anchored, Ready, CpFile, CpLive, CpLiveIds
<1> QED  BY <1>p, <1>w, <1>t, <1>m, <1>c, <1>x, <1>r, <1>u DEF CpNext

\* No crash short of a bare line, no interleaving of commits, no rewind and
\* no migration breaks a chain: every delta stored has its base stored
\* before it (_reconstruct_checkpoint never raises).
THEOREM AlwaysAnchored == "bare" \notin CpTears => (CpSpec => []CpAnchored)
<1> SUFFICES ASSUME "bare" \notin CpTears  PROVE CpSpec => []CpAnchored  OBVIOUS
<1>1. CpInit => Inv  BY InitInv
<1>2. Inv /\ [CpNext]_cpVars => Inv'  BY NextInv
<1>3. Inv => CpAnchored
  <2> SUFFICES ASSUME Inv  PROVE CpAnchored  OBVIOUS
  <2> QED  BY LinesAreFile DEF Inv, Anchored, CpAnchored
<1> QED  BY <1>1, <1>2, <1>3, PTL DEF CpSpec

-----------------------------------------------------------------------------
(* Recursion.                                                              *)

\* What holds of 0 and passes from a number to the next holds of every one.
LEMMA SetInduction ==
    ASSUME NEW S, 0 \in S, \A n \in S \cap Nat : n + 1 \in S
    PROVE  Nat \subseteq S
<1> SUFFICES ASSUME Nat \ S # {}  PROVE FALSE  OBVIOUS
<1>1. \E x \in Nat \ S : \A y \in Nat \ S : <<y, x>> \notin OpToRel(<, Nat)
  <2>1. Nat \ S \subseteq Nat  OBVIOUS
  <2> QED  BY <2>1, WFMin, NatLessThanWellFounded
<1>2. PICK x \in Nat \ S : \A y \in Nat \ S : ~(y < x)  BY <1>1 DEF OpToRel
<1>3. x # 0 /\ x - 1 \in Nat /\ x - 1 < x  OBVIOUS
<1>4. x - 1 \in S  BY <1>2, <1>3
<1>5. (x - 1) + 1 \in S  BY <1>3, <1>4
<1> QED  BY <1>5

\* The element of a singleton.
LEMMA OnlyOne == ASSUME NEW e  PROVE CpOnly({e}) = e
BY DEF CpOnly

\* f reads the first n lines one by one.
Folds(f, lines, n) ==
    f = [i \in 0..n |-> IF i = 0 THEN <<>>
                        ELSE CpOnly({CpFoldLine(before, lines[i]) : before \in {f[i-1]}})]

\* A fold starts from nothing and folds one line after the other.
LEMMA FoldsStep ==
    ASSUME NEW f, NEW lines, NEW n \in Nat
    PROVE  Folds(f, lines, n) <=>
               f = [i \in 0..n |-> IF i = 0 THEN <<>> ELSE CpFoldLine(f[i-1], lines[i])]
<1>1. ASSUME NEW i
      PROVE  CpOnly({CpFoldLine(before, lines[i]) : before \in {f[i-1]}})
               = CpFoldLine(f[i-1], lines[i])
  <2>1. {CpFoldLine(before, lines[i]) : before \in {f[i-1]}} = {CpFoldLine(f[i-1], lines[i])}
    OBVIOUS
  <2> QED  BY <2>1, OnlyOne
<1> QED  BY <1>1 DEF Folds

\* Two readers of the same lines agree.
LEMMA FoldsUnique ==
    ASSUME NEW f, NEW g, NEW lines, NEW n \in Nat, Folds(f, lines, n), Folds(g, lines, n)
    PROVE  f = g
<1>1. /\ f = [i \in 0..n |-> IF i = 0 THEN <<>> ELSE CpFoldLine(f[i-1], lines[i])]
      /\ g = [i \in 0..n |-> IF i = 0 THEN <<>> ELSE CpFoldLine(g[i-1], lines[i])]
  BY FoldsStep
<1> DEFINE S == {i \in Nat : i \in 0..n => f[i] = g[i]}
<1>2. 0 \in S  BY <1>1
<1>3. ASSUME NEW i \in S \cap Nat  PROVE i + 1 \in S
  <2> SUFFICES ASSUME i + 1 \in 0..n  PROVE f[i+1] = g[i+1]  OBVIOUS
  <2>1. i \in 0..n /\ i + 1 # 0 /\ (i + 1) - 1 = i  OBVIOUS
  <2>2. f[i] = g[i]  BY <2>1
  <2> QED  BY <1>1, <2>1, <2>2
<1> HIDE DEF S
<1>4. Nat \subseteq S  BY <1>2, <1>3, SetInduction
<1>5. \A i \in 0..n : f[i] = g[i]  BY <1>4 DEF S
<1> QED  BY <1>1, <1>5

\* Reading one line more.
LEMMA FoldsMore ==
    ASSUME NEW f, NEW lines, NEW more, NEW n \in Nat, Folds(f, lines, n),
           \A i \in 1..n : more[i] = lines[i]
    PROVE  Folds([i \in 0..n+1 |-> IF i \in 0..n THEN f[i] ELSE CpFoldLine(f[n], more[n+1])],
                 more, n + 1)
<1>1. f = [i \in 0..n |-> IF i = 0 THEN <<>> ELSE CpFoldLine(f[i-1], lines[i])]
  BY FoldsStep
<1>2. PICK g : g = [i \in 0..n+1 |-> IF i \in 0..n THEN f[i] ELSE CpFoldLine(f[n], more[n+1])]
  OBVIOUS
<1>3. ASSUME NEW i \in 0..n+1
      PROVE  g[i] = IF i = 0 THEN <<>> ELSE CpFoldLine(g[i-1], more[i])
  <2>1. CASE i = 0  BY <1>1, <1>2, <2>1
  <2>2. CASE i \in 1..n
    <3>1. i - 1 \in 0..n /\ i \in 0..n /\ i - 1 \in 0..n+1  BY <2>2
    <3>2. g[i-1] = f[i-1] /\ g[i] = f[i]  BY <1>2, <3>1
    <3>3. f[i] = CpFoldLine(f[i-1], lines[i])  BY <1>1, <2>2
    <3>4. more[i] = lines[i]  BY <2>2
    <3> QED  BY <3>2, <3>3, <3>4, <2>2
  <2>3. CASE i = n + 1
    <3>1. i \notin 0..n /\ i - 1 = n /\ n \in 0..n+1 /\ n \in 0..n /\ i # 0  BY <2>3
    <3>2. g[i-1] = f[n] /\ g[i] = CpFoldLine(f[n], more[i])  BY <1>2, <2>3, <3>1
    <3> QED  BY <3>1, <3>2
  <2> QED  BY <2>1, <2>2, <2>3
<1>4. g = [i \in 0..n+1 |-> IF i = 0 THEN <<>> ELSE CpFoldLine(g[i-1], more[i])]
  BY <1>2, <1>3
<1>5. n + 1 \in Nat  OBVIOUS
<1>6. Folds(g, more, n + 1)  BY <1>4, <1>5, FoldsStep
<1> QED  BY <1>2, <1>6

\* Any number of lines can be read.
LEMMA FoldsExist ==
    ASSUME NEW lines, NEW n \in Nat
    PROVE  \E f : Folds(f, lines, n)
<1> DEFINE S == {i \in Nat : \E f : Folds(f, lines, i)}
<1>1. 0 \in S
  <2>1. PICK f : f = [i \in 0..0 |-> IF i = 0 THEN <<>> ELSE <<>>]  OBVIOUS
  <2>2. f = [i \in 0..0 |-> IF i = 0 THEN <<>> ELSE CpFoldLine(f[i-1], lines[i])]
    BY <2>1
  <2>3. Folds(f, lines, 0)  BY <2>2, FoldsStep
  <2> QED  BY <2>3
<1>2. ASSUME NEW i \in S \cap Nat  PROVE i + 1 \in S
  <2>1. PICK f : Folds(f, lines, i)  OBVIOUS
  <2>2. \E g : Folds(g, lines, i + 1)  BY <2>1, FoldsMore
  <2> QED  BY <2>2
<1> HIDE DEF S
<1>3. n \in S  BY <1>1, <1>2, SetInduction
<1> QED  BY <1>3 DEF S

\* Whoever reads the lines one by one ends with CpFold.
LEMMA FoldIs ==
    ASSUME NEW f, NEW lines, Len(lines) \in Nat, Folds(f, lines, Len(lines))
    PROVE  CpFold(lines) = f[Len(lines)]
<1>1. \A g : Folds(g, lines, Len(lines)) => g = f  BY FoldsUnique
<1>2. (CHOOSE g : g = [n \in 0..Len(lines) |->
            IF n = 0 THEN <<>>
            ELSE CpOnly({CpFoldLine(before, lines[n]) : before \in {g[n-1]}})]) = f
  BY <1>1 DEF Folds
<1> QED  BY <1>2 DEF CpFold

\* An empty log stores nothing.
LEMMA FoldEmpty == CpFold(<<>>) = <<>>
<1>1. Len(<<>>) = 0  OBVIOUS
<1>2. PICK f : Folds(f, <<>>, 0)  BY FoldsExist
<1>3. f[0] = <<>>  BY <1>2, FoldsStep
<1> QED  BY <1>1, <1>2, <1>3, FoldIs

\* What one line more does to what is stored.
LEMMA FoldAppend ==
    ASSUME NEW s, NEW e, IsSeq(s)
    PROVE  CpFold(Append(s, e)) = CpFoldLine(CpFold(s), e)
<1>1. /\ Len(s) \in Nat /\ Len(Append(s, e)) = Len(s) + 1
      /\ \A k \in 1..Len(s) : Append(s, e)[k] = s[k]
      /\ Append(s, e)[Len(s) + 1] = e
  BY AppendSeq
<1>2. PICK f : Folds(f, s, Len(s))  BY <1>1, FoldsExist
<1>3. PICK g : g = [i \in 0..Len(s)+1 |->
                IF i \in 0..Len(s) THEN f[i] ELSE CpFoldLine(f[Len(s)], Append(s, e)[Len(s)+1])]
  OBVIOUS
<1>4. Folds(g, Append(s, e), Len(Append(s, e)))
  <2>1. Folds([i \in 0..Len(s)+1 |->
                IF i \in 0..Len(s) THEN f[i] ELSE CpFoldLine(f[Len(s)], Append(s, e)[Len(s)+1])],
              Append(s, e), Len(s) + 1)
    BY <1>1, <1>2, FoldsMore
  <2> QED  BY <1>1, <1>3, <2>1
<1>5. CpFold(s) = f[Len(s)]  BY <1>1, <1>2, FoldIs
<1>6. CpFold(Append(s, e)) = g[Len(s) + 1]
  <2>1. Len(Append(s, e)) \in Nat  BY <1>1
  <2>2. CpFold(Append(s, e)) = g[Len(Append(s, e))]  BY <1>4, <2>1, FoldIs
  <2> QED  BY <1>1, <2>2
<1>7. g[Len(s) + 1] = CpFoldLine(f[Len(s)], e)  BY <1>1, <1>3
<1> QED  BY <1>5, <1>6, <1>7

\* A file of whole lines of checkpoints stores one entry for each.
LEMMA FoldOfEntries ==
    ASSUME NEW s, IsSeq(s), \A k \in DOMAIN s : s[k].op = "cp"
    PROVE  CpFold(s) = [k \in DOMAIN s |-> CpEntry(s[k])]
<1>1. PICK n \in Nat : n = Len(s) /\ DOMAIN s = 1..n  BY DEF IsSeq
<1>2. PICK f : f = [i \in 0..n |-> [k \in 1..i |-> CpEntry(s[k])]]  OBVIOUS
<1>3. ASSUME NEW i \in 0..n
      PROVE  f[i] = IF i = 0 THEN <<>> ELSE CpFoldLine(f[i-1], s[i])
  <2>1. CASE i = 0
    <3>1. 1..0 = {}  OBVIOUS
    <3>2. f[0] = [k \in 1..0 |-> CpEntry(s[k])]  BY <1>2, <2>1
    <3>3. [k \in 1..0 |-> CpEntry(s[k])] = <<>>  BY <3>1
    <3> QED  BY <2>1, <3>2, <3>3
  <2>2. CASE i \in 1..n
    <3>1. i - 1 \in 0..n /\ i - 1 \in Nat /\ i \in Nat /\ (i - 1) + 1 = i  BY <2>2
    <3>2. PICK g : g = [k \in 1..i-1 |-> CpEntry(s[k])]  OBVIOUS
    <3>3. CpFoldLine(g, s[i]) = Append(g, CpEntry(s[i]))
      BY <1>1, <2>2 DEF CpFoldLine
    <3>4. g \in Seq({CpEntry(s[k]) : k \in 1..i-1}) /\ Len(g) = i - 1
      BY <3>1, <3>2
    <3>5. IsSeq(g)  BY <3>4 DEF IsSeq
    <3>6. Append(g, CpEntry(s[i])) = [k \in 1..i |-> CpEntry(s[k])]
      <4>1. /\ DOMAIN Append(g, CpEntry(s[i])) = 1..i
            /\ \A k \in 1..i-1 : Append(g, CpEntry(s[i]))[k] = g[k]
            /\ Append(g, CpEntry(s[i]))[i] = CpEntry(s[i])
        BY <3>1, <3>4, <3>5, AppendSeq
      <4>2. \A k \in 1..i : Append(g, CpEntry(s[i]))[k] = CpEntry(s[k])
        <5> TAKE k \in 1..i
        <5>1. k \in 1..i-1 \/ k = i  BY <3>1
        <5> QED  BY <3>2, <4>1, <5>1
      <4>3. Append(g, CpEntry(s[i])) = [k \in 1..i |-> Append(g, CpEntry(s[i]))[k]]
        <5>1. Append(g, CpEntry(s[i])) \in Seq({CpEntry(s[k]) : k \in 1..i-1} \cup {CpEntry(s[i])})
          BY <3>4
        <5> QED  BY <4>1, <5>1
      <4> QED  BY <4>2, <4>3
    <3>7. f[i] = [k \in 1..i |-> CpEntry(s[k])] /\ f[i-1] = g
      BY <1>2, <2>2, <3>1, <3>2
    <3> QED  BY <2>2, <3>3, <3>6, <3>7
  <2> QED  BY <2>1, <2>2
<1>4. f = [i \in 0..n |-> IF i = 0 THEN <<>> ELSE CpFoldLine(f[i-1], s[i])]
  BY <1>2, <1>3
<1>5. Folds(f, s, n)  BY <1>4, FoldsStep
<1>6. CpFold(s) = f[n]  BY <1>1, <1>5, FoldIs
<1> QED  BY <1>1, <1>2, <1>6

-----------------------------------------------------------------------------
(* What the file stores.                                                   *)

\* Entries as the fold makes them, each with an id of its own.
Entries(es) ==
    /\ IsSeq(es)
    /\ \A i \in DOMAIN es :
        /\ es[i] = [id |-> es[i].id, base |-> es[i].base, msgs |-> es[i].msgs, writes |-> es[i].writes]
        /\ es[i].id \in CpIds /\ es[i].writes \in Seq(CpKinds)
    /\ \A i, j \in DOMAIN es : es[i].id = es[j].id => i = j

\* The entries es are the live lines of the file, in its order.
Mirrors(s, es) ==
    /\ \A i \in DOMAIN es : \E k \in DOMAIN s : CpLive(s, k) /\ s[k].id = es[i].id
    /\ \A k \in DOMAIN s : CpLive(s, k) => \E i \in DOMAIN es : es[i].id = s[k].id
    /\ \A i, j \in DOMAIN es, k, l \in DOMAIN s :
        /\ i < j
        /\ CpLive(s, k) /\ s[k].id = es[i].id
        /\ CpLive(s, l) /\ s[l].id = es[j].id
        => k < l

\* No two checkpoints of the file have one id, and each was put.
OwnIds(s) ==
    /\ \A k \in DOMAIN s : s[k].op = "cp" => s[k].id \in CpIds /\ cpPut[s[k].id] # CpUnput
    /\ \A j, k \in DOMAIN s : s[j].op = "cp" /\ s[k].op = "cp" /\ s[j].id = s[k].id => j = k

\* A line, or an entry, says what its checkpoint appends to its base.
Says(x) ==
    IF x.base = CpNone THEN x.msgs = cpPut[x.id]
    ELSE cpPut[x.id] = cpPut[x.base] \o x.msgs

Faithful(es) ==
    \A i \in DOMAIN es :
        /\ Says(es[i])
        /\ es[i].base # CpNone => \E j \in 1..i-1 : es[j].id = es[i].base

\* A line about to be appended.
Planned(w) ==
    LET line == cpOp[w].line IN
    cpOp[w] # CpIdle =>
        /\ line.id \in CpIds
        /\ line.op = "writes" => \E kind \in CpKinds : line.writes = <<kind>>
        /\ line.op = "cp" =>
            /\ line.writes = <<>> /\ cpPut[line.id] \in CpHistories
            /\ Says(line)
            /\ \A k \in DOMAIN CpFile : CpFile[k].op = "cp" => CpFile[k].id # line.id
            /\ \A v \in CpWriters \ {w} :
                cpOp[v] # CpIdle /\ cpOp[v].line.op = "cp" => cpOp[v].line.id # line.id
        /\ line.op = "truncate" => line.id \notin CpHead(CpFile)

Puts ==
    /\ cpPut = [id \in CpIds |-> cpPut[id]]
    /\ \A id \in CpIds : cpPut[id] \in CpCommitted \cup {CpUnput}

-----------------------------------------------------------------------------
(* The entries of a fold.                                                  *)

\* A function on 1..n is a sequence.
LEMMA FunSeq ==
    ASSUME NEW f, NEW n \in Nat, f = [i \in 1..n |-> f[i]]
    PROVE  IsSeq(f) /\ Len(f) = n /\ DOMAIN f = 1..n
<1>1. f \in Seq({f[i] : i \in 1..n}) /\ Len(f) = n
  <2>1. PICK S : S = {f[i] : i \in 1..n}  OBVIOUS
  <2>2. f \in [1..n -> S]  BY <2>1
  <2> QED  BY <2>1, <2>2
<1> QED  BY <1>1 DEF IsSeq

\* A sequence is a function on 1..Len.
LEMMA SeqFun ==
    ASSUME NEW s, IsSeq(s)
    PROVE  Len(s) \in Nat /\ DOMAIN s = 1..Len(s) /\ s = [i \in 1..Len(s) |-> s[i]]
<1>1. PICK S : s \in Seq(S)  BY DEF IsSeq
<1> QED  BY <1>1

\* An id has one place.
LEMMA IndexOf ==
    ASSUME NEW es, Entries(es), NEW p \in DOMAIN es
    PROVE  CpIndex(es, es[p].id) = {p} /\ CpOnly(CpIndex(es, es[p].id)) = p
<1>1. CpIndex(es, es[p].id) = {p}  BY DEF Entries, CpIndex
<1> QED  BY <1>1, OnlyOne

\* How writes are folded.
LEMMA FoldWrites ==
    ASSUME NEW es, NEW e, e.op = "writes"
    PROVE  CpFoldLine(es, e) =
             IF es = <<>> THEN es
             ELSE [es EXCEPT ![IF CpIndex(es, e.id) = {} THEN Len(es) ELSE CpOnly(CpIndex(es, e.id))].writes
                                = @ \o e.writes]
BY DEF CpFoldLine

\* How a truncate is folded.
LEMMA FoldTruncate ==
    ASSUME NEW es, NEW e, e.op = "truncate", CpIndex(es, e.id) # {}
    PROVE  CpFoldLine(es, e) =
             [SubSeq(es, 1, CpOnly(CpIndex(es, e.id))) EXCEPT ![CpOnly(CpIndex(es, e.id))].writes = <<>>]
BY DEF CpFoldLine

Rewrites(fs, es, o, ws) == fs = [es EXCEPT ![o].writes = ws]
Cuts(fs, es, p) == fs = SubSeq(es, 1, p)

\* Other writes leave an entry the entry it is.
LEMMA Rewritten ==
    ASSUME NEW es, Entries(es), NEW o \in DOMAIN es, NEW ws \in Seq(CpKinds),
           NEW fs, Rewrites(fs, es, o, ws)
    PROVE  /\ Entries(fs) /\ DOMAIN fs = DOMAIN es /\ Len(fs) = Len(es)
           /\ \A i \in DOMAIN es :
                /\ fs[i].id = es[i].id /\ fs[i].base = es[i].base /\ fs[i].msgs = es[i].msgs
                /\ fs[i].writes = IF i = o THEN ws ELSE es[i].writes
<1>2. IsSeq(es) /\ Len(es) \in Nat /\ DOMAIN es = 1..Len(es)
      /\ es = [i \in 1..Len(es) |-> es[i]]
  BY SeqFun DEF Entries
<1>3. /\ fs[o] = [es[o] EXCEPT !.writes = ws]
      /\ \A i \in DOMAIN es : i # o => fs[i] = es[i]
      /\ fs = [i \in 1..Len(es) |-> fs[i]]
  BY <1>2 DEF Rewrites
<1>4. es[o] = [id |-> es[o].id, base |-> es[o].base, msgs |-> es[o].msgs, writes |-> es[o].writes]
  BY DEF Entries
<1>5. fs[o] = [id |-> es[o].id, base |-> es[o].base, msgs |-> es[o].msgs, writes |-> ws]
  BY <1>3, <1>4
<1>6. IsSeq(fs) /\ Len(fs) = Len(es) /\ DOMAIN fs = DOMAIN es  BY <1>2, <1>3, FunSeq
<1>7. ASSUME NEW i \in DOMAIN es
      PROVE  /\ fs[i].id = es[i].id /\ fs[i].base = es[i].base /\ fs[i].msgs = es[i].msgs
             /\ fs[i].writes = IF i = o THEN ws ELSE es[i].writes
             /\ fs[i] = [id |-> fs[i].id, base |-> fs[i].base, msgs |-> fs[i].msgs, writes |-> fs[i].writes]
  <2>1. CASE i = o  BY <2>1, <1>5
  <2>2. CASE i # o  BY <2>2, <1>3 DEF Entries
  <2> QED  BY <2>1, <2>2
<1>8. Entries(fs)
  <2>1. \A i \in DOMAIN fs : fs[i].id \in CpIds /\ fs[i].writes \in Seq(CpKinds)
    BY <1>6, <1>7 DEF Entries
  <2>2. \A i, j \in DOMAIN fs : fs[i].id = fs[j].id => i = j
    BY <1>6, <1>7 DEF Entries
  <2> QED  BY <1>6, <1>7, <2>1, <2>2 DEF Entries
<1> QED  BY <1>6, <1>7, <1>8

\* A prefix of the entries.
LEMMA Prefix ==
    ASSUME NEW es, Entries(es), NEW p \in DOMAIN es, NEW fs, Cuts(fs, es, p)
    PROVE  /\ Entries(fs) /\ DOMAIN fs = 1..p /\ Len(fs) = p
           /\ \A i \in 1..p : i \in DOMAIN es /\ fs[i] = es[i]
<1>2. PICK S : es \in Seq(S)  BY DEF Entries, IsSeq
<1>3. DOMAIN es = 1..Len(es) /\ Len(es) \in Nat  BY <1>2
<1>4. p \in Nat /\ 1 <= p /\ p <= Len(es)  BY <1>3
<1>5. fs \in Seq(S) /\ Len(fs) = p /\ \A i \in 1..p : fs[i] = es[i]
  <2>1. \A i \in 1..p : es[i] \in S  BY <1>2, <1>4
  <2>2. p - 1 + 1 = p /\ 1 \in Int /\ p \in Int /\ \A i \in 1..p : 1 + i - 1 = i  BY <1>4
  <2> QED  BY <1>4, <2>1, <2>2, SubSeqProperties DEF Cuts
<1>6. IsSeq(fs) /\ DOMAIN fs = 1..p  BY <1>5 DEF IsSeq
<1>7. \A i \in 1..p : i \in DOMAIN es  BY <1>3, <1>4
<1>8. Entries(fs)  BY <1>5, <1>6, <1>7 DEF Entries
<1> QED  BY <1>5, <1>6, <1>7, <1>8

-----------------------------------------------------------------------------
(* What one line more does to what is stored.                              *)

\* The head is the last entry, and what is stored is what is live.
LEMMA MirrorsIds ==
    ASSUME NEW s, NEW es, IsSeq(s), Entries(es), Mirrors(s, es), OwnIds(s)
    PROVE  /\ {es[i].id : i \in DOMAIN es} = CpLiveIds(s)
           /\ es = <<>> => CpLiveIds(s) = {} /\ CpHead(s) = {}
           /\ es # <<>> => CpHead(s) = {es[Len(es)].id}
<1>1. {es[i].id : i \in DOMAIN es} = CpLiveIds(s)
  BY DEF Mirrors, CpLiveIds
<1>2. /\ Len(s) \in Nat /\ DOMAIN s = 1..Len(s)
      /\ Len(es) \in Nat /\ DOMAIN es = 1..Len(es) /\ (es # <<>> => Len(es) \in DOMAIN es)
  <2>1. IsSeq(es)  BY DEF Entries
  <2>2. PICK S : es \in Seq(S)  BY <2>1 DEF IsSeq
  <2>3. es # <<>> => Len(es) # 0  BY <2>2
  <2> QED  BY <2>1, <2>3, SeqFun
<1>3. ASSUME es = <<>>  PROVE CpLiveIds(s) = {} /\ CpHead(s) = {}
  <2>1. DOMAIN es = {}  BY <1>3
  <2>2. \A k \in DOMAIN s : ~CpLive(s, k)  BY <2>1 DEF Mirrors
  <2> QED  BY <2>2 DEF CpLiveIds, CpHead
<1>4. ASSUME es # <<>>  PROVE CpHead(s) = {es[Len(es)].id}
  <2>1. PICK n : n = Len(es) /\ n \in DOMAIN es  BY <1>2, <1>4
  <2>2. PICK k \in DOMAIN s : CpLive(s, k) /\ s[k].id = es[n].id  BY <2>1 DEF Mirrors
  <2>3. ASSUME NEW l \in DOMAIN s, CpLive(s, l)  PROVE l <= k
    <3>1. PICK i \in DOMAIN es : es[i].id = s[l].id  BY <2>3 DEF Mirrors
    <3>2. CASE i = n
      <4>1. s[l].id = s[k].id /\ s[l].op = "cp" /\ s[k].op = "cp"
        BY <2>2, <2>3, <3>1, <3>2 DEF CpLive
      <4>2. l = k  BY <4>1 DEF OwnIds
      <4> QED  BY <4>2, <1>2
    <3>3. CASE i # n
      <4>1. i < n  BY <1>2, <2>1, <3>3
      <4>2. l < k  BY <2>1, <2>2, <2>3, <3>1, <4>1 DEF Mirrors
      <4> QED  BY <4>2, <1>2
    <3> QED  BY <3>2, <3>3
  <2>4. \A j \in k+1..Len(s) : ~CpLive(s, j)
    <3> TAKE j \in k+1..Len(s)
    <3>1. j \in DOMAIN s /\ ~(j <= k)  BY <1>2
    <3> QED  BY <2>3, <3>1
  <2>5. ASSUME NEW i \in DOMAIN s, CpLive(s, i), \A j \in i+1..Len(s) : ~CpLive(s, j)  PROVE i = k
    <3>1. i <= k  BY <2>3, <2>5
    <3>2. ~(k \in i+1..Len(s))  BY <2>2, <2>5
    <3> QED  BY <1>2, <3>1, <3>2
  <2>6. {i \in DOMAIN s : CpLive(s, i) /\ \A j \in i+1..Len(s) : ~CpLive(s, j)} = {k}
    BY <2>2, <2>4, <2>5
  <2> QED  BY <2>1, <2>2, <2>6 DEF CpHead
<1> QED  BY <1>1, <1>3, <1>4

StoredIn(s, es) ==
    IsSeq(s) /\ Entries(es) /\ Mirrors(s, es) /\ OwnIds(s) /\ Faithful(es)

\* A checkpoint more.
LEMMA AddCheckpoint ==
    ASSUME NEW s, NEW es, NEW e, StoredIn(s, es),
           e.op = "cp", e.id \in CpIds, e.writes \in Seq(CpKinds), cpPut[e.id] # CpUnput, Says(e),
           e.base # CpNone => e.base \in CpLiveIds(s),
           \A k \in DOMAIN s : s[k].op = "cp" => s[k].id # e.id
    PROVE  /\ StoredIn(Append(s, e), CpFoldLine(es, e))
           /\ CpFoldLine(es, e) = Append(es, CpEntry(e))
<1> USE DEF StoredIn
<1>1. CpFoldLine(es, e) = Append(es, CpEntry(e))  BY DEF CpFoldLine
<1>2. PICK t : t = Append(s, e)  OBVIOUS
<1>3. PICK fs : fs = Append(es, CpEntry(e))  OBVIOUS
<1>4. PICK n \in Nat : n = Len(s)  BY AppendSeq
<1>5. PICK m \in Nat : m = Len(es)  BY AppendSeq DEF Entries
<1>6. /\ IsSeq(t) /\ Len(t) = n + 1 /\ DOMAIN s = 1..n /\ DOMAIN t = 1..n+1
      /\ \A k \in 1..n : t[k] = s[k]
      /\ t[n+1] = e
  BY <1>2, <1>4, AppendSeq
<1>7. /\ IsSeq(fs) /\ Len(fs) = m + 1 /\ DOMAIN es = 1..m /\ DOMAIN fs = 1..m+1
      /\ \A i \in 1..m : fs[i] = es[i]
      /\ fs[m+1] = CpEntry(e)
  BY <1>3, <1>5, AppendSeq DEF Entries
<1>8. /\ \A k \in 1..n : CpLive(t, k) <=> CpLive(s, k)
      /\ CpLive(t, n + 1)
  <2>1. e.op # "truncate"  OBVIOUS
  <2> QED  BY <1>2, <1>4, <2>1, AppendLive
<1>9. \A i \in 1..m : es[i].id # e.id
  <2> TAKE i \in 1..m
  <2>1. PICK k \in DOMAIN s : CpLive(s, k) /\ s[k].id = es[i].id  BY <1>7 DEF Mirrors
  <2> QED  BY <2>1 DEF CpLive
<1>10. Entries(fs)
  <2>1. CpEntry(e) = [id |-> e.id, base |-> e.base, msgs |-> e.msgs, writes |-> e.writes]
    BY DEF CpEntry
  <2>2. ASSUME NEW i \in DOMAIN fs
        PROVE  /\ fs[i] = [id |-> fs[i].id, base |-> fs[i].base, msgs |-> fs[i].msgs, writes |-> fs[i].writes]
               /\ fs[i].id \in CpIds /\ fs[i].writes \in Seq(CpKinds)
    <3>1. CASE i \in 1..m  BY <1>7, <3>1 DEF Entries
    <3>2. CASE i = m + 1  BY <1>7, <2>1, <3>2
    <3> QED  BY <1>7, <3>1, <3>2
  <2>3. ASSUME NEW i \in DOMAIN fs, NEW j \in DOMAIN fs, fs[i].id = fs[j].id  PROVE i = j
    <3>1. fs[m+1].id = e.id  BY <1>7, <2>1
    <3>2. CASE i \in 1..m /\ j \in 1..m  BY <1>7, <2>3, <3>2 DEF Entries
    <3>3. CASE i = m + 1 /\ j \in 1..m  BY <1>7, <1>9, <2>3, <3>1, <3>3
    <3>4. CASE i \in 1..m /\ j = m + 1  BY <1>7, <1>9, <2>3, <3>1, <3>4
    <3>5. (i \in 1..m \/ i = m + 1) /\ (j \in 1..m \/ j = m + 1)  BY <1>7
    <3> QED  BY <3>2, <3>3, <3>4, <3>5
  <2> QED  BY <1>7, <2>2, <2>3 DEF Entries
<1>11. Mirrors(t, fs)
  <2>1. fs[m+1].id = e.id  BY <1>7 DEF CpEntry
  <2>2. ASSUME NEW i \in DOMAIN fs  PROVE \E k \in DOMAIN t : CpLive(t, k) /\ t[k].id = fs[i].id
    <3>1. CASE i \in 1..m
      <4>1. PICK k \in 1..n : CpLive(s, k) /\ s[k].id = es[i].id  BY <1>6, <1>7, <3>1 DEF Mirrors
      <4>2. k \in DOMAIN t  BY <1>6
      <4> QED  BY <1>6, <1>7, <1>8, <3>1, <4>1, <4>2
    <3>2. CASE i = m + 1
      <4>1. n + 1 \in DOMAIN t  BY <1>6
      <4> QED  BY <1>6, <1>8, <2>1, <3>2, <4>1
    <3> QED  BY <1>7, <3>1, <3>2
  <2>3. ASSUME NEW k \in DOMAIN t, CpLive(t, k)  PROVE \E i \in DOMAIN fs : fs[i].id = t[k].id
    <3>1. CASE k \in 1..n
      <4>1. PICK i \in 1..m : es[i].id = s[k].id  BY <1>6, <1>7, <1>8, <2>3, <3>1 DEF Mirrors
      <4>2. i \in DOMAIN fs  BY <1>7
      <4> QED  BY <1>6, <1>7, <3>1, <4>1, <4>2
    <3>2. CASE k = n + 1
      <4>1. m + 1 \in DOMAIN fs  BY <1>7
      <4> QED  BY <1>6, <2>1, <3>2, <4>1
    <3> QED  BY <1>6, <3>1, <3>2
  <2>4. ASSUME NEW i \in DOMAIN fs, NEW j \in DOMAIN fs, NEW k \in DOMAIN t, NEW l \in DOMAIN t,
               i < j, CpLive(t, k), t[k].id = fs[i].id, CpLive(t, l), t[l].id = fs[j].id
        PROVE  k < l
    <3>1. i \in 1..m  BY <1>7, <2>4
    <3>2. fs[i] = es[i]  BY <1>7, <3>1
    <3>3. k \in 1..n
      <4>1. k = n + 1 => es[i].id = e.id  BY <1>6, <2>4, <3>2
      <4>2. k \in 1..n \/ k = n + 1  BY <1>6
      <4> QED  BY <1>9, <3>1, <4>1, <4>2
    <3>4. CpLive(s, k) /\ s[k].id = es[i].id  BY <1>6, <1>8, <2>4, <3>2, <3>3
    <3>5. CASE l = n + 1  BY <3>3, <3>5
    <3>6. CASE l \in 1..n
      <4>1. CpLive(s, l) /\ s[l].id = fs[j].id /\ s[l].op = "cp"  BY <1>6, <1>8, <2>4, <3>6 DEF CpLive
      <4>2. s[l].id # e.id  BY <4>1, <1>6, <3>6
      <4>3. j \in 1..m  BY <1>7, <2>1, <4>1, <4>2
      <4>4. fs[j] = es[j]  BY <1>7, <4>3
      <4>5. /\ i \in DOMAIN es /\ j \in DOMAIN es /\ k \in DOMAIN s /\ l \in DOMAIN s
        BY <1>6, <1>7, <3>1, <3>3, <3>6, <4>3
      <4> QED  BY <2>4, <3>4, <4>1, <4>4, <4>5 DEF Mirrors
    <3> QED  BY <1>6, <3>5, <3>6
  <2> QED  BY <2>2, <2>3, <2>4 DEF Mirrors
<1>12. OwnIds(t)
  <2>1. \A k \in DOMAIN t : (k \in 1..n /\ t[k] = s[k]) \/ (k = n + 1 /\ t[k] = e)  BY <1>6
  <2>2. \A k \in DOMAIN t : t[k].op = "cp" => t[k].id \in CpIds /\ cpPut[t[k].id] # CpUnput
    BY <1>6, <2>1 DEF OwnIds
  <2>3. \A j, k \in DOMAIN t : t[j].op = "cp" /\ t[k].op = "cp" /\ t[j].id = t[k].id => j = k
    BY <1>6, <2>1 DEF OwnIds
  <2> QED  BY <2>2, <2>3 DEF OwnIds
<1>13. Faithful(fs)
  <2> SUFFICES ASSUME NEW i \in DOMAIN fs
               PROVE  Says(fs[i]) /\ (fs[i].base # CpNone => \E j \in 1..i-1 : fs[j].id = fs[i].base)
    BY DEF Faithful
  <2>1. CASE i \in 1..m
    <3>1. fs[i] = es[i] /\ Says(es[i])  BY <1>7, <2>1 DEF Faithful
    <3>2. ASSUME es[i].base # CpNone  PROVE \E j \in 1..i-1 : fs[j].id = es[i].base
      <4>1. PICK j \in 1..i-1 : es[j].id = es[i].base  BY <1>7, <2>1, <3>2 DEF Faithful
      <4>2. j \in 1..m  BY <2>1
      <4> QED  BY <1>7, <4>1, <4>2
    <3> QED  BY <3>1, <3>2
  <2>2. CASE i = m + 1
    <3>1. /\ fs[i].id = e.id /\ fs[i].base = e.base /\ fs[i].msgs = e.msgs
      BY <1>7, <2>2 DEF CpEntry
    <3>2. Says(fs[i])  BY <3>1 DEF Says
    <3>3. ASSUME e.base # CpNone  PROVE \E j \in 1..i-1 : fs[j].id = e.base
      <4>1. PICK k \in DOMAIN s : CpLive(s, k) /\ s[k].id = e.base  BY <3>3 DEF CpLiveIds
      <4>2. PICK j \in 1..m : es[j].id = e.base  BY <1>7, <4>1 DEF Mirrors
      <4> QED  BY <1>7, <2>2, <4>2
    <3> QED  BY <3>1, <3>2, <3>3
  <2> QED  BY <1>7, <2>1, <2>2
<1> QED  BY <1>1, <1>2, <1>3, <1>6, <1>10, <1>11, <1>12, <1>13

\* Entries and lines that agree on ids, bases and messages.
SameChains(es, fs) ==
    /\ DOMAIN fs = DOMAIN es
    /\ \A i \in DOMAIN es :
        fs[i].id = es[i].id /\ fs[i].base = es[i].base /\ fs[i].msgs = es[i].msgs

\* Writes disturb neither the chains ...
LEMMA SameFaithful ==
    ASSUME NEW es, NEW fs, IsSeq(es), SameChains(es, fs), Faithful(es)
    PROVE  Faithful(fs)
<1> SUFFICES ASSUME NEW i \in DOMAIN fs
             PROVE  Says(fs[i]) /\ (fs[i].base # CpNone => \E j \in 1..i-1 : fs[j].id = fs[i].base)
  BY DEF Faithful
<1>1. i \in DOMAIN es /\ fs[i].id = es[i].id /\ fs[i].base = es[i].base /\ fs[i].msgs = es[i].msgs
  BY DEF SameChains
<1>2. Says(fs[i])  BY <1>1 DEF Faithful, Says
<1>3. ASSUME es[i].base # CpNone  PROVE \E j \in 1..i-1 : fs[j].id = es[i].base
  <2>1. PICK j \in 1..i-1 : es[j].id = es[i].base  BY <1>1, <1>3 DEF Faithful
  <2>2. Len(es) \in Nat /\ DOMAIN es = 1..Len(es)  BY SeqFun
  <2>3. j \in DOMAIN es  BY <1>1, <2>2
  <2> QED  BY <2>1, <2>3 DEF SameChains
<1> QED  BY <1>1, <1>2, <1>3

\* The owner of the writes, or the head, has one more.
WritesMore(es, fs, id, kind) ==
    \E o \in DOMAIN es :
        /\ o = IF CpIndex(es, id) = {} THEN Len(es) ELSE CpOnly(CpIndex(es, id))
        /\ \A i \in DOMAIN es :
            fs[i].writes = IF i = o THEN Append(es[i].writes, kind) ELSE es[i].writes

\* Writes more.
LEMMA AddWrites ==
    ASSUME NEW s, NEW es, NEW e, StoredIn(s, es),
           e.op = "writes", NEW kind \in CpKinds, e.writes = <<kind>>
    PROVE  /\ StoredIn(Append(s, e), CpFoldLine(es, e))
           /\ SameChains(es, CpFoldLine(es, e))
           /\ es = <<>> => CpFoldLine(es, e) = es
           /\ es # <<>> => WritesMore(es, CpFoldLine(es, e), e.id, kind)
<1> USE DEF StoredIn
<1>1. PICK t : t = Append(s, e)  OBVIOUS
<1>2. PICK n \in Nat : n = Len(s)  BY AppendSeq
<1>3. /\ IsSeq(t) /\ Len(t) = n + 1 /\ DOMAIN s = 1..n /\ DOMAIN t = 1..n+1
      /\ \A k \in 1..n : t[k] = s[k]
      /\ t[n+1] = e
  BY <1>1, <1>2, AppendSeq
<1>4. /\ \A k \in 1..n : CpLive(t, k) <=> CpLive(s, k)
      /\ ~CpLive(t, n + 1)
  <2>1. e.op # "truncate" /\ e.op # "cp"  OBVIOUS
  <2> QED  BY <1>1, <1>2, <2>1, AppendLive
<1>5. OwnIds(t)
  <2>1. \A k \in DOMAIN t : t[k].op = "cp" => k \in DOMAIN s /\ t[k] = s[k]
    <3> TAKE k \in DOMAIN t
    <3>1. k \in 1..n \/ k = n + 1  BY <1>3
    <3>2. e.op # "cp"  OBVIOUS
    <3> QED  BY <1>3, <3>1, <3>2
  <2> QED  BY <2>1 DEF OwnIds
<1>6. ASSUME NEW fs, Entries(fs), SameChains(es, fs)  PROVE StoredIn(t, fs)
  <2>1. Faithful(fs)  BY <1>6, SameFaithful DEF Entries
  <2>2. \A k \in DOMAIN t : CpLive(t, k) => k \in 1..n  BY <1>3, <1>4
  <2>3. \A k \in DOMAIN s : k \in DOMAIN t /\ t[k] = s[k]  BY <1>3
  <2>4. \A i \in DOMAIN fs : i \in DOMAIN es /\ fs[i].id = es[i].id  BY <1>6 DEF SameChains
  <2>5. \A i \in DOMAIN es : i \in DOMAIN fs  BY <1>6 DEF SameChains
  <2>6. \A i \in DOMAIN fs : \E k \in DOMAIN t : CpLive(t, k) /\ t[k].id = fs[i].id
    BY <1>3, <1>4, <2>3, <2>4 DEF Mirrors
  <2>7. \A k \in DOMAIN t : CpLive(t, k) => \E i \in DOMAIN fs : fs[i].id = t[k].id
    BY <1>3, <1>4, <2>2, <2>4, <2>5 DEF Mirrors
  <2>8. ASSUME NEW i \in DOMAIN fs, NEW j \in DOMAIN fs, NEW k \in DOMAIN t, NEW l \in DOMAIN t,
               i < j, CpLive(t, k), t[k].id = fs[i].id, CpLive(t, l), t[l].id = fs[j].id
        PROVE  k < l
    <3>1. k \in DOMAIN s /\ l \in DOMAIN s /\ CpLive(s, k) /\ CpLive(s, l) /\ t[k] = s[k] /\ t[l] = s[l]
      BY <1>3, <1>4, <2>2, <2>8
    <3>2. i \in DOMAIN es /\ j \in DOMAIN es /\ s[k].id = es[i].id /\ s[l].id = es[j].id
      BY <2>4, <2>8, <3>1
    <3> QED  BY <2>8, <3>1, <3>2 DEF Mirrors
  <2>9. Mirrors(t, fs)  BY <2>6, <2>7, <2>8 DEF Mirrors
  <2> QED  BY <1>3, <1>5, <1>6, <2>1, <2>9
<1>7. CASE es = <<>>
  <2>1. CpFoldLine(es, e) = es  BY <1>7, FoldWrites
  <2>2. SameChains(es, es)  BY DEF SameChains
  <2> QED  BY <1>1, <1>6, <1>7, <2>1, <2>2
<1>8. CASE es # <<>>
  <2>1. PICK o : o = IF CpIndex(es, e.id) = {} THEN Len(es) ELSE CpOnly(CpIndex(es, e.id))  OBVIOUS
  <2>2. o \in DOMAIN es
    <3>1. CASE CpIndex(es, e.id) = {}
      <4>1. PICK S : es \in Seq(S)  BY DEF Entries, IsSeq
      <4> QED  BY <1>8, <2>1, <3>1, <4>1
    <3>2. CASE CpIndex(es, e.id) # {}
      <4>1. PICK p \in DOMAIN es : es[p].id = e.id  BY <3>2 DEF CpIndex
      <4> QED  BY <2>1, <3>2, <4>1, IndexOf
    <3> QED  BY <3>1, <3>2
  <2>3. PICK ws : ws = es[o].writes \o e.writes  OBVIOUS
  <2>4. PICK fs : fs = [es EXCEPT ![o].writes = ws]  OBVIOUS
  <2>5. CpFoldLine(es, e) = fs
    <3>1. CpFoldLine(es, e) = [es EXCEPT ![o].writes = es[o].writes \o e.writes]
      BY <1>8, <2>1, FoldWrites
    <3> QED  BY <2>3, <2>4, <3>1
  <2>6. es[o].writes \in Seq(CpKinds)  BY <2>2 DEF Entries
  <2>7. ws = Append(es[o].writes, kind) /\ ws \in Seq(CpKinds)  BY <2>3, <2>6
  <2>e. Entries(es)  OBVIOUS
  <2>r. Rewrites(fs, es, o, ws)  BY <2>4 DEF Rewrites
  <2>k. ws \in Seq(CpKinds)  BY <2>7
  <2>8. /\ Entries(fs) /\ DOMAIN fs = DOMAIN es
        /\ \A i \in DOMAIN es :
             /\ fs[i].id = es[i].id /\ fs[i].base = es[i].base /\ fs[i].msgs = es[i].msgs
             /\ fs[i].writes = IF i = o THEN ws ELSE es[i].writes
    BY <2>2, <2>k, <2>e, <2>r, Rewritten
  <2>9. SameChains(es, fs)  BY <2>8 DEF SameChains
  <2>10. StoredIn(t, fs)  BY <1>6, <2>8, <2>9
  <2>11. \A i \in DOMAIN es : fs[i].writes = IF i = o THEN Append(es[i].writes, kind) ELSE es[i].writes
    BY <2>7, <2>8
  <2>12. WritesMore(es, fs, e.id, kind)  BY <2>1, <2>2, <2>11 DEF WritesMore
  <2> HIDE DEF StoredIn
  <2>13. StoredIn(Append(s, e), CpFoldLine(es, e))  BY <1>1, <2>5, <2>10
  <2> QED  BY <1>8, <2>5, <2>9, <2>12, <2>13
<1> QED  BY <1>7, <1>8

\* The first entries, but not all of them, the last of them without its writes.
KeepsFirst(es, fs) ==
    \E p \in 1..Len(es) - 1 :
        /\ DOMAIN fs = 1..p
        /\ \A i \in 1..p :
            /\ i \in DOMAIN es
            /\ fs[i].id = es[i].id
            /\ fs[i].writes = IF i = p THEN <<>> ELSE es[i].writes

\* A rewind: it names a checkpoint that is stored and not the last.
LEMMA CutBack ==
    ASSUME NEW s, NEW es, NEW e, StoredIn(s, es), e.op = "truncate",
           e.id \in CpLiveIds(s), e.id \notin CpHead(s)
    PROVE  /\ StoredIn(Append(s, e), CpFoldLine(es, e))
           /\ KeepsFirst(es, CpFoldLine(es, e))
<1>0. IsSeq(s) /\ Entries(es) /\ Mirrors(s, es) /\ OwnIds(s) /\ Faithful(es)  BY DEF StoredIn
<1>1. PICK t : t = Append(s, e)  OBVIOUS
<1>2. PICK n \in Nat : n = Len(s)  BY <1>0, AppendSeq
<1>3. /\ IsSeq(t) /\ Len(t) = n + 1 /\ DOMAIN s = 1..n /\ DOMAIN t = 1..n+1
      /\ \A k \in 1..n : t[k] = s[k]
      /\ t[n+1] = e
  BY <1>0, <1>1, <1>2, AppendSeq
<1>4. /\ \A k \in 1..n : CpLive(t, k) <=>
            CpLive(s, k) /\ \E j \in k..n : s[j].op = "cp" /\ s[j].id = e.id
      /\ ~CpLive(t, n + 1)
  BY <1>0, <1>1, <1>2, AppendTruncate
<1>5. /\ {es[i].id : i \in DOMAIN es} = CpLiveIds(s)
      /\ es # <<>> => CpHead(s) = {es[Len(es)].id}
  BY <1>0, MirrorsIds
<1>6. PICK p \in DOMAIN es : es[p].id = e.id
  <2>1. e.id \in {es[i].id : i \in DOMAIN es}  BY <1>5
  <2> QED  BY <2>1
<1>7. IsSeq(es) /\ Len(es) \in Nat /\ DOMAIN es = 1..Len(es)  BY <1>0, SeqFun DEF Entries
<1>8. p \in 1..Len(es) - 1
  <2>1. es # <<>>  BY <1>6, <1>7
  <2>2. p # Len(es)  BY <1>5, <1>6, <2>1
  <2> QED  BY <1>7, <2>2
<1>9. PICK kp \in 1..n : CpLive(s, kp) /\ s[kp].op = "cp" /\ s[kp].id = e.id
  <2>1. PICK k \in DOMAIN s : CpLive(s, k) /\ s[k].id = es[p].id  BY <1>0 DEF Mirrors
  <2>2. s[k].op = "cp"  BY <2>1 DEF CpLive
  <2> QED  BY <1>3, <1>6, <2>1, <2>2
<1>10. \A j \in 1..n : s[j].op = "cp" /\ s[j].id = e.id => j = kp
  BY <1>0, <1>3, <1>9 DEF OwnIds
<1>11. \A k \in 1..n : CpLive(t, k) <=> CpLive(s, k) /\ k <= kp
  <2> TAKE k \in 1..n
  <2>1. ASSUME CpLive(t, k)  PROVE CpLive(s, k) /\ k <= kp
    <3>1. PICK j \in k..n : s[j].op = "cp" /\ s[j].id = e.id  BY <1>4, <2>1
    <3>2. j \in 1..n /\ k <= j  OBVIOUS
    <3>3. j = kp  BY <1>10, <3>1, <3>2
    <3> QED  BY <1>4, <2>1, <3>2, <3>3
  <2>2. ASSUME CpLive(s, k), k <= kp  PROVE CpLive(t, k)
    <3>1. kp \in k..n  BY <2>2
    <3> QED  BY <1>4, <1>9, <2>2, <3>1
  <2> QED  BY <2>1, <2>2
<1>12. PICK hs : Cuts(hs, es, p)  BY DEF Cuts
<1>13. /\ Entries(hs) /\ DOMAIN hs = 1..p /\ Len(hs) = p
       /\ \A i \in 1..p : i \in DOMAIN es /\ hs[i] = es[i]
  BY <1>0, <1>12, Prefix
<1>n. PICK none : none = <<>> /\ none \in Seq(CpKinds)
  <2>1. <<>> \in Seq(CpKinds)  OBVIOUS
  <2> QED  BY <2>1
<1>14. PICK fs : Rewrites(fs, hs, p, none)  BY DEF Rewrites
<1>15. /\ Entries(fs) /\ DOMAIN fs = DOMAIN hs
       /\ \A i \in DOMAIN hs :
            /\ fs[i].id = hs[i].id /\ fs[i].base = hs[i].base /\ fs[i].msgs = hs[i].msgs
            /\ fs[i].writes = IF i = p THEN none ELSE hs[i].writes
  <2>1. none \in Seq(CpKinds)  BY <1>n
  <2>2. p \in DOMAIN hs  BY <1>8, <1>13
  <2>3. Entries(hs)  BY <1>13
  <2> QED  BY <1>14, <2>1, <2>2, <2>3, Rewritten
<1>16. CpFoldLine(es, e) = fs
  <2>1. CpIndex(es, e.id) = {p} /\ CpOnly(CpIndex(es, e.id)) = p  BY <1>0, <1>6, IndexOf
  <2>2. CpFoldLine(es, e) = [SubSeq(es, 1, p) EXCEPT ![p].writes = <<>>]
    BY <2>1, FoldTruncate
  <2> QED  BY <1>12, <1>14, <1>n, <2>2 DEF Cuts, Rewrites
<1>17. /\ DOMAIN fs = 1..p
       /\ \A i \in 1..p :
            /\ i \in DOMAIN es
            /\ fs[i].id = es[i].id /\ fs[i].base = es[i].base /\ fs[i].msgs = es[i].msgs
            /\ fs[i].writes = IF i = p THEN <<>> ELSE es[i].writes
  BY <1>13, <1>15, <1>n
<1>18. OwnIds(t)
  <2>1. \A k \in DOMAIN t : t[k].op = "cp" => k \in DOMAIN s /\ t[k] = s[k]
    <3> TAKE k \in DOMAIN t
    <3>1. k \in 1..n \/ k = n + 1  BY <1>3
    <3>2. e.op # "cp"  OBVIOUS
    <3> QED  BY <1>3, <3>1, <3>2
  <2> QED  BY <1>0, <2>1 DEF OwnIds
<1>19. Faithful(fs)
  <2> SUFFICES ASSUME NEW i \in DOMAIN fs
               PROVE  Says(fs[i]) /\ (fs[i].base # CpNone => \E j \in 1..i-1 : fs[j].id = fs[i].base)
    BY DEF Faithful
  <2>1. /\ i \in 1..p /\ i \in DOMAIN es
        /\ fs[i].id = es[i].id /\ fs[i].base = es[i].base /\ fs[i].msgs = es[i].msgs
    BY <1>17
  <2>2. Says(fs[i])  BY <1>0, <2>1 DEF Faithful, Says
  <2>3. ASSUME es[i].base # CpNone  PROVE \E j \in 1..i-1 : fs[j].id = es[i].base
    <3>1. PICK j \in 1..i-1 : es[j].id = es[i].base  BY <1>0, <2>1, <2>3 DEF Faithful
    <3>2. j \in 1..p  BY <2>1, <1>8
    <3> QED  BY <1>17, <3>1, <3>2
  <2> QED  BY <2>1, <2>2, <2>3
<1>20. Mirrors(t, fs)
  <2>1. ASSUME NEW i \in DOMAIN fs  PROVE \E k \in DOMAIN t : CpLive(t, k) /\ t[k].id = fs[i].id
    <3>1. i \in 1..p /\ i \in DOMAIN es /\ fs[i].id = es[i].id  BY <1>17
    <3>2. PICK k \in 1..n : CpLive(s, k) /\ s[k].id = es[i].id  BY <1>0, <1>3, <3>1 DEF Mirrors
    <3>3. k <= kp
      <4>1. CASE i = p  BY <1>6, <1>10, <3>2, <4>1 DEF CpLive
      <4>2. CASE i # p
        <5>1. i < p  BY <3>1, <4>2, <1>8
        <5>2. k \in DOMAIN s /\ kp \in DOMAIN s  BY <1>3
        <5>3. k < kp  BY <1>0, <1>6, <1>9, <3>1, <3>2, <5>1, <5>2 DEF Mirrors
        <5> QED  BY <5>3
      <4> QED  BY <4>1, <4>2
    <3>4. k \in DOMAIN t  BY <1>3
    <3> QED  BY <1>3, <1>11, <3>1, <3>2, <3>3, <3>4
  <2>2. ASSUME NEW k \in DOMAIN t, CpLive(t, k)  PROVE \E i \in DOMAIN fs : fs[i].id = t[k].id
    <3>1. k \in 1..n
      <4>1. k \in 1..n \/ k = n + 1  BY <1>3
      <4> QED  BY <1>4, <2>2, <4>1
    <3>2. CpLive(s, k) /\ k <= kp /\ t[k] = s[k] /\ k \in DOMAIN s  BY <1>3, <1>11, <2>2, <3>1
    <3>3. PICK i \in DOMAIN es : es[i].id = s[k].id  BY <1>0, <3>2 DEF Mirrors
    <3>4. ~(p < i)
      <4>1. kp \in DOMAIN s  BY <1>3
      <4>2. p < i => kp < k  BY <1>0, <1>6, <1>9, <3>2, <3>3, <4>1 DEF Mirrors
      <4> QED  BY <3>1, <3>2, <4>2
    <3>5. i \in 1..p  BY <1>7, <3>4
    <3> QED  BY <1>17, <3>2, <3>3, <3>5
  <2>3. ASSUME NEW i \in DOMAIN fs, NEW j \in DOMAIN fs, NEW k \in DOMAIN t, NEW l \in DOMAIN t,
               i < j, CpLive(t, k), t[k].id = fs[i].id, CpLive(t, l), t[l].id = fs[j].id
        PROVE  k < l
    <3>1. i \in DOMAIN es /\ j \in DOMAIN es /\ fs[i].id = es[i].id /\ fs[j].id = es[j].id  BY <1>17
    <3>2. k \in 1..n /\ l \in 1..n
      <4>1. (k \in 1..n \/ k = n + 1) /\ (l \in 1..n \/ l = n + 1)  BY <1>3
      <4> QED  BY <1>4, <2>3, <4>1
    <3>3. CpLive(s, k) /\ CpLive(s, l) /\ t[k] = s[k] /\ t[l] = s[l] /\ k \in DOMAIN s /\ l \in DOMAIN s
      BY <1>3, <1>11, <2>3, <3>2
    <3> QED  BY <1>0, <2>3, <3>1, <3>3 DEF Mirrors
  <2> QED  BY <2>1, <2>2, <2>3 DEF Mirrors
<1>21. Entries(fs)  BY <1>15
<1>22. StoredIn(t, fs)  BY <1>3, <1>18, <1>19, <1>20, <1>21 DEF StoredIn
<1>23. KeepsFirst(es, fs)  BY <1>8, <1>17 DEF KeepsFirst
<1> QED  BY <1>1, <1>16, <1>22, <1>23

-----------------------------------------------------------------------------
(* What a reader rebuilds.                                                 *)

\* The messages of entry k, if g has those of the entries before it.
RebuiltFrom(g, es, k) ==
    IF es[k].base = CpNone THEN es[k].msgs
    ELSE LET at == {j \in CpIndex(es, es[k].base) : j < k}
         IN  IF at = {} THEN CpUnput
             ELSE CpOnly({IF base = CpUnput THEN CpUnput ELSE base \o es[k].msgs :
                            base \in {g[CpOnly(at)]}})

AllPut(es) == \A i \in DOMAIN es : cpPut[es[i].id] # CpUnput

\* Entries say what their checkpoints append, so they rebuild what was put.
LEMMA RebuiltStep ==
    ASSUME NEW es, Entries(es), Faithful(es), AllPut(es), NEW g, NEW k \in DOMAIN es,
           \A j \in DOMAIN es : j < k => g[j] = cpPut[es[j].id]
    PROVE  RebuiltFrom(g, es, k) = cpPut[es[k].id]
<1>1. CASE es[k].base = CpNone  BY <1>1 DEF RebuiltFrom, Faithful, Says
<1>2. CASE es[k].base # CpNone
  <2>1. PICK q \in 1..k-1 : es[q].id = es[k].base  BY <1>2 DEF Faithful
  <2>2. q \in DOMAIN es /\ q < k
    <3>1. Len(es) \in Nat /\ DOMAIN es = 1..Len(es)  BY SeqFun DEF Entries
    <3> QED  BY <2>1, <3>1
  <2>3. CpIndex(es, es[k].base) = {q}  BY <2>1, <2>2, IndexOf
  <2>4. {j \in CpIndex(es, es[k].base) : j < k} = {q}  BY <2>2, <2>3
  <2>5. CpOnly({q}) = q  BY OnlyOne
  <2>6. g[q] = cpPut[es[k].base] /\ g[q] # CpUnput  BY <2>1, <2>2 DEF AllPut
  <2>7. RebuiltFrom(g, es, k) =
            CpOnly({IF base = CpUnput THEN CpUnput ELSE base \o es[k].msgs : base \in {g[q]}})
    BY <1>2, <2>4, <2>5 DEF RebuiltFrom
  <2>8. {IF base = CpUnput THEN CpUnput ELSE base \o es[k].msgs : base \in {g[q]}}
            = {g[q] \o es[k].msgs}
    BY <2>6
  <2>9. RebuiltFrom(g, es, k) = g[q] \o es[k].msgs  BY <2>7, <2>8, OnlyOne
  <2>10. cpPut[es[k].id] = cpPut[es[k].base] \o es[k].msgs  BY <1>2 DEF Faithful, Says
  <2> QED  BY <2>6, <2>9, <2>10
<1> QED  BY <1>1, <1>2

\* Along the chain of bases every entry is rebuilt to what was put.
LEMMA RebuiltIs ==
    ASSUME NEW es, Entries(es), Faithful(es), AllPut(es)
    PROVE  CpRebuilt(es) = [k \in DOMAIN es |-> cpPut[es[k].id]]
<1>1. PICK h : h = [k \in DOMAIN es |-> cpPut[es[k].id]]  OBVIOUS
<1>2. \A k \in DOMAIN es : h[k] = cpPut[es[k].id]  BY <1>1
<1>3. \A k \in DOMAIN es : RebuiltFrom(h, es, k) = h[k]  BY <1>2, RebuiltStep
<1>4. h = [k \in DOMAIN es |-> RebuiltFrom(h, es, k)]  BY <1>1, <1>3
<1>5. ASSUME NEW g, g = [k \in DOMAIN es |-> RebuiltFrom(g, es, k)]  PROVE g = h
  <2> DEFINE S == {n \in Nat : \A k \in DOMAIN es : k <= n => g[k] = cpPut[es[k].id]}
  <2>1. Len(es) \in Nat /\ DOMAIN es = 1..Len(es)  BY SeqFun DEF Entries
  <2>2. 0 \in S  BY <2>1
  <2>3. ASSUME NEW n \in S \cap Nat  PROVE n + 1 \in S
    <3> SUFFICES ASSUME NEW k \in DOMAIN es, k <= n + 1  PROVE g[k] = cpPut[es[k].id]  OBVIOUS
    <3>1. \A j \in DOMAIN es : j < k => g[j] = cpPut[es[j].id]
      <4> TAKE j \in DOMAIN es
      <4>1. j < k => j <= n  BY <2>1
      <4> QED  BY <4>1
    <3>2. RebuiltFrom(g, es, k) = cpPut[es[k].id]  BY <3>1, RebuiltStep
    <3> QED  BY <1>5, <3>2
  <2> HIDE DEF S
  <2>4. Nat \subseteq S  BY <2>2, <2>3, SetInduction
  <2>5. \A k \in DOMAIN es : k \in Nat /\ k <= k  BY <2>1
  <2>6. \A k \in DOMAIN es : g[k] = cpPut[es[k].id]  BY <2>4, <2>5 DEF S
  <2> QED  BY <1>1, <1>5, <2>6
<1>6. (CHOOSE g : g = [k \in DOMAIN es |-> RebuiltFrom(g, es, k)]) = h  BY <1>4, <1>5
<1>7. CpRebuilt(es) = (CHOOSE g : g = [k \in DOMAIN es |-> RebuiltFrom(g, es, k)])
  BY DEF CpRebuilt, RebuiltFrom
<1> QED  BY <1>1, <1>6, <1>7

-----------------------------------------------------------------------------
(* What is stored is what was put.                                         *)

Stored ==
    /\ Puts
    /\ StoredIn(CpFile, CpFold(CpFile))
    /\ \A w \in CpWriters : Planned(w)

\* A history is a sequence.
LEMMA HistoriesAreSeqs == \A h \in CpCommitted : IsSeq(h) /\ h # CpUnput
BY CpHistoriesAssumption DEF IsSeq

\* Whatever is live was put.
LEMMA LivePut ==
    ASSUME NEW s, OwnIds(s)
    PROVE  \A id \in CpLiveIds(s) : id \in CpIds /\ cpPut[id] # CpUnput
BY DEF OwnIds, CpLiveIds, CpLive

\* ... and so are the entries.
LEMMA EntriesPut ==
    ASSUME NEW s, NEW es, StoredIn(s, es)
    PROVE  AllPut(es)
<1>1. {es[i].id : i \in DOMAIN es} = CpLiveIds(s)  BY MirrorsIds DEF StoredIn
<1>2. \A id \in CpLiveIds(s) : cpPut[id] # CpUnput  BY LivePut DEF StoredIn
<1> QED  BY <1>1, <1>2 DEF AllPut

\* The document, or an empty session, is stored as it says.
LEMMA InitStored == "bare" \notin CpTears /\ CpInit => Stored
<1> SUFFICES ASSUME "bare" \notin CpTears, CpInit  PROVE Stored  OBVIOUS
<1>1. PICK s : s = cpLegacy  OBVIOUS
<1>2. CpFile = s  BY <1>1 DEF CpInit, CpFile
<1>3. IsSeq(s)  BY <1>1, InitInv DEF Inv, FilesOK
<1>4. s = CpDocument \/ DOMAIN s = {}  BY <1>1 DEF CpInit
<1>5. /\ \A k \in DOMAIN s :
            /\ s[k].op = "cp" /\ s[k].base = CpNone
            /\ s[k].id \in CpIds /\ s[k].writes \in Seq(CpKinds)
            /\ s[k].msgs \in CpCommitted
      /\ \A j, k \in DOMAIN s : s[j].id = s[k].id => j = k
  BY <1>4, CpDocumentAssumption DEF CpCommitted
<1>6. ASSUME NEW k \in DOMAIN s  PROVE cpPut[s[k].id] = s[k].msgs
  <2>1. s = CpDocument /\ s # <<>>  BY <1>4, <1>6
  <2>2. s[k].id \in CpIds  BY <1>5
  <2>3. PICK id : id = s[k].id  OBVIOUS
  <2>4. \E j \in DOMAIN CpDocument : CpDocument[j].id = id  BY <2>1, <2>3
  <2>5. cpPut[id] = CpDocument[CHOOSE j \in DOMAIN CpDocument : CpDocument[j].id = id].msgs
    BY <1>1, <2>1, <2>2, <2>3, <2>4 DEF CpInit
  <2>6. (CHOOSE j \in DOMAIN CpDocument : CpDocument[j].id = id) = k
    BY <1>5, <2>1, <2>3, <2>4
  <2> QED  BY <2>1, <2>3, <2>5, <2>6
<1>7. Puts
  <2>1. cpPut = [id \in CpIds |-> cpPut[id]]  BY DEF CpInit
  <2>2. ASSUME NEW id \in CpIds  PROVE cpPut[id] \in CpCommitted \cup {CpUnput}
    <3>1. CASE cpLegacy # <<>> /\ \E k \in DOMAIN CpDocument : CpDocument[k].id = id
      <4>1. PICK k \in DOMAIN CpDocument : CpDocument[k].id = id  BY <3>1
      <4>2. k \in DOMAIN s /\ s[k].id = id  BY <1>1, <3>1, <4>1 DEF CpInit
      <4> QED  BY <1>5, <1>6, <4>2
    <3>2. CASE ~(cpLegacy # <<>> /\ \E k \in DOMAIN CpDocument : CpDocument[k].id = id)
      BY <3>2 DEF CpInit
    <3> QED  BY <3>1, <3>2
  <2> QED  BY <2>1, <2>2 DEF Puts
<1>8. PICK es : es = [k \in DOMAIN s |-> CpEntry(s[k])]  OBVIOUS
<1>9. CpFold(s) = es  BY <1>3, <1>5, <1>8, FoldOfEntries
<1>10. \A k \in DOMAIN s :
            /\ es[k] = [id |-> s[k].id, base |-> s[k].base, msgs |-> s[k].msgs, writes |-> s[k].writes]
            /\ es[k].id = s[k].id /\ es[k].base = CpNone
            /\ es[k].msgs = s[k].msgs /\ es[k].writes = s[k].writes
  BY <1>5, <1>8 DEF CpEntry
<1>11. DOMAIN es = DOMAIN s  BY <1>8
<1>12. Entries(es)
  <2>1. IsSeq(es)
    <3>1. Len(s) \in Nat /\ DOMAIN s = 1..Len(s)  BY <1>3, SeqFun
    <3>2. es = [i \in 1..Len(s) |-> es[i]]  BY <1>8, <3>1
    <3> QED  BY <3>1, <3>2, FunSeq
  <2> QED  BY <1>5, <1>10, <1>11, <2>1 DEF Entries
<1>13. \A k \in DOMAIN s : CpLive(s, k)
  <2> TAKE k \in DOMAIN s
  <2>1. Len(s) \in Nat /\ DOMAIN s = 1..Len(s)  BY <1>3, SeqFun
  <2>2. \A t \in k+1..Len(s) : t \in DOMAIN s  BY <2>1
  <2> QED  BY <1>5, <2>2 DEF CpLive
<1>14. Mirrors(s, es)
  <2>1. \A i, j \in DOMAIN es, k, l \in DOMAIN s :
            i < j /\ s[k].id = es[i].id /\ s[l].id = es[j].id => k < l
    BY <1>5, <1>10, <1>11
  <2> QED  BY <1>10, <1>11, <1>13, <2>1 DEF Mirrors
<1>15. OwnIds(s)
  <2>1. \A k \in DOMAIN s : cpPut[s[k].id] # CpUnput  BY <1>5, <1>6, HistoriesAreSeqs
  <2> QED  BY <1>5, <2>1 DEF OwnIds
<1>16. Faithful(es)  BY <1>6, <1>10, <1>11 DEF Faithful, Says
<1>17. StoredIn(CpFile, CpFold(CpFile))
  BY <1>2, <1>3, <1>9, <1>12, <1>14, <1>15, <1>16 DEF StoredIn
<1>18. \A w \in CpWriters : Planned(w)  BY DEF CpInit, Planned
<1> QED  BY <1>7, <1>17, <1>18 DEF Stored

\* What a commit finds when it rebuilds its parent.
LEMMA ParentIs ==
    ASSUME Inv, Stored, NEW id \in CpLiveIds(CpFile)
    PROVE  CpMessages(id) = cpPut[id]
<1>1. PICK es : es = CpFold(CpFile)  OBVIOUS
<1>2. CpEntries = es  BY <1>1, LinesAreFile DEF CpEntries
<1>3. StoredIn(CpFile, es)  BY <1>1 DEF Stored
<1>4. Entries(es) /\ Faithful(es) /\ AllPut(es)  BY <1>3, EntriesPut DEF StoredIn
<1>5. {es[i].id : i \in DOMAIN es} = CpLiveIds(CpFile)  BY <1>3, MirrorsIds DEF StoredIn
<1>6. PICK p \in DOMAIN es : es[p].id = id
  <2>1. id \in {es[i].id : i \in DOMAIN es}  BY <1>5
  <2> QED  BY <2>1
<1>7. CpIndex(es, id) = {p} /\ CpOnly(CpIndex(es, id)) = p  BY <1>4, <1>6, IndexOf
<1>8. CpRebuilt(es)[p] = cpPut[id]
  <2>1. CpRebuilt(es) = [k \in DOMAIN es |-> cpPut[es[k].id]]  BY <1>4, RebuiltIs
  <2> QED  BY <1>6, <2>1
<1> QED  BY <1>2, <1>7, <1>8 DEF CpMessages

\* An extension is what it extends and the rest.
LEMMA Extends ==
    ASSUME NEW old, NEW new, IsSeq(old), IsSeq(new), IsExtension(old, new)
    PROVE  old \o SubSeq(new, Len(old) + 1, Len(new)) = new
<1>1. PICK S : new \in Seq(S)  BY DEF IsSeq
<1>2. Len(old) \in Nat /\ Len(new) \in Nat /\ Len(old) <= Len(new)
  BY SeqFun DEF IsExtension
<1>3. SubSeq(new, 1, Len(old)) \o SubSeq(new, Len(old) + 1, Len(new)) = SubSeq(new, 1, Len(new))
  <2>1. 1 \in 1..Len(new)+1 /\ Len(old) \in 1-1..Len(new) /\ Len(new) \in Len(old)..Len(new)
    BY <1>2
  <2> QED  BY <1>1, <2>1, ConcatAdjacentSubSeq
<1>4. SubSeq(new, 1, Len(new)) = new  BY <1>1, SubSeqFull
<1>5. SubSeq(new, 1, Len(old)) = old  BY DEF IsExtension
<1> QED  BY <1>3, <1>4, <1>5

Tells(line, id, msgs) ==
    /\ line.op = "cp" /\ line.id = id /\ line.writes = <<>>
    /\ \/ line.base = CpNone /\ line.msgs = msgs
       \/ /\ line.base \in CpLiveIds(CpFile) /\ line.base # CpNone
          /\ msgs = cpPut[line.base] \o line.msgs

Encodes(line, id, parent, msgs) == line = CpEncode(id, parent, msgs)

\* A commit says what it appends to its parent, or all of it.
LEMMA EncodeSays ==
    ASSUME Inv, Stored, NEW id \in CpIds, cpPut[id] = CpUnput, NEW msgs \in CpHistories,
           NEW parent, parent = CpNone \/ parent \in CpLiveIds(CpFile),
           NEW line, Encodes(line, id, parent, msgs)
    PROVE  Tells(line, id, msgs)
<1>1. line = CpEncode(id, parent, msgs)  BY DEF Encodes
<1>2. line = CpLine(id, CpNone, msgs) \/ line # CpLine(id, CpNone, msgs)  OBVIOUS
<1>3. CASE line = CpLine(id, CpNone, msgs)
  BY <1>1, <1>3 DEF CpLine, Tells
<1>4. CASE line # CpLine(id, CpNone, msgs)
  <2>1. PICK old : old = IF parent = CpNone THEN CpUnput ELSE CpMessages(parent)  OBVIOUS
  <2>2. old # CpUnput /\ IsExtension(old, msgs)
        /\ line = CpLine(id, parent, SubSeq(msgs, Len(old) + 1, Len(msgs)))
    BY <1>1, <1>4, <2>1 DEF CpEncode
  <2>3. parent \in CpLiveIds(CpFile) /\ parent # CpNone /\ old = CpMessages(parent)
    BY <2>1, <2>2
  <2>4. old = cpPut[parent]  BY <2>3, ParentIs
  <2>5. parent \in CpIds  BY <2>3, LivePut DEF Stored, StoredIn
  <2>6. IsSeq(old)
    <3>1. cpPut[parent] \in CpCommitted  BY <2>2, <2>4, <2>5 DEF Stored, Puts
    <3> QED  BY <2>4, <3>1, HistoriesAreSeqs
  <2>7. IsSeq(msgs)
    <3>1. msgs \in CpCommitted  BY DEF CpCommitted
    <3> QED  BY <3>1, HistoriesAreSeqs
  <2>8. old \o SubSeq(msgs, Len(old) + 1, Len(msgs)) = msgs  BY <2>2, <2>6, <2>7, Extends
  <2>9. /\ line.op = "cp" /\ line.id = id /\ line.writes = <<>> /\ line.base = parent
        /\ line.msgs = SubSeq(msgs, Len(old) + 1, Len(msgs))
    BY <2>2 DEF CpLine
  <2> QED  BY <1>1, <2>3, <2>4, <2>8, <2>9 DEF Tells
<1> QED  BY <1>3, <1>4

\* What was put is never put otherwise.
PutsGrow == \A id \in CpIds : cpPut[id] # CpUnput => cpPut'[id] = cpPut[id]

\* A line about checkpoints that were put goes on to say the truth.
LEMMA SaysOn ==
    ASSUME NEW x, PutsGrow, x.id \in CpIds, cpPut[x.id] # CpUnput,
           x.base # CpNone => x.base \in CpIds /\ cpPut[x.base] # CpUnput, Says(x)
    PROVE  Says(x)'
BY DEF PutsGrow, Says

\* A file nobody touches stores what it stored.
LEMMA StoredOn ==
    ASSUME Inv, Stored, PutsGrow, CpFile' = CpFile
    PROVE  StoredIn(CpFile, CpFold(CpFile))'
<1>1. PICK s : s = CpFile  OBVIOUS
<1>2. PICK es : es = CpFold(s)  OBVIOUS
<1>3. StoredIn(s, es)  BY <1>1, <1>2 DEF Stored
<1>4. IsSeq(s) /\ Entries(es) /\ Mirrors(s, es) /\ OwnIds(s) /\ Faithful(es) /\ AllPut(es)
  BY <1>3, EntriesPut DEF StoredIn
<1>5. OwnIds(s)'
  <2>1. \A k \in DOMAIN s : s[k].op = "cp" => s[k].id \in CpIds /\ cpPut'[s[k].id] # CpUnput
    BY <1>4 DEF OwnIds, PutsGrow
  <2>2. \A j, k \in DOMAIN s : s[j].op = "cp" /\ s[k].op = "cp" /\ s[j].id = s[k].id => j = k
    BY <1>4 DEF OwnIds
  <2> QED  BY <2>1, <2>2 DEF OwnIds
<1>6. Faithful(es)'
  <2> SUFFICES ASSUME NEW i \in DOMAIN es
               PROVE  Says(es[i])' /\ (es[i].base # CpNone => \E j \in 1..i-1 : es[j].id = es[i].base)
    BY DEF Faithful
  <2>1. es[i].base # CpNone => \E j \in 1..i-1 : es[j].id = es[i].base  BY <1>4 DEF Faithful
  <2>2. es[i].id \in CpIds /\ cpPut[es[i].id] # CpUnput /\ Says(es[i])
    BY <1>4 DEF Entries, AllPut, Faithful
  <2>3. ASSUME es[i].base # CpNone  PROVE es[i].base \in CpIds /\ cpPut[es[i].base] # CpUnput
    <3>1. PICK j \in 1..i-1 : es[j].id = es[i].base  BY <2>1, <2>3
    <3>2. Len(es) \in Nat /\ DOMAIN es = 1..Len(es)  BY <1>4, SeqFun DEF Entries
    <3>3. j \in DOMAIN es  BY <3>2
    <3> QED  BY <1>4, <3>1, <3>3 DEF Entries, AllPut
  <2>4. Says(es[i])'
    <3>1. PICK x : x = es[i]  OBVIOUS
    <3>2. Says(x)'  BY <2>2, <2>3, <3>1, SaysOn
    <3> QED  BY <3>1, <3>2 DEF Says
  <2> QED  BY <2>1, <2>4
<1>7. s = CpFile' /\ es = CpFold(CpFile')  BY <1>1, <1>2
<1>8. IsSeq(CpFile)' /\ Entries(CpFold(CpFile))'
  BY <1>4, <1>7 DEF Entries, IsSeq
<1>9. Mirrors(CpFile, CpFold(CpFile))'  BY <1>4, <1>7 DEF Mirrors, CpLive
<1>10. OwnIds(CpFile)'  BY <1>5, <1>7 DEF OwnIds
<1>11. Faithful(CpFold(CpFile))'  BY <1>6, <1>7 DEF Faithful, Says
<1> QED  BY <1>8, <1>9, <1>10, <1>11 DEF StoredIn

\* A line about to be appended to such a file goes on to be right.
LEMMA PlannedOn ==
    ASSUME Inv, Stored, PutsGrow, CpFile' = CpFile, NEW v \in CpWriters,
           cpOp[v] # CpIdle, cpOp'[v].line = cpOp[v].line,
           \A u \in CpWriters \ {v} : cpOp'[u] # CpIdle /\ cpOp'[u].line.op = "cp" =>
                \/ cpOp[u] # CpIdle /\ cpOp'[u].line = cpOp[u].line
                \/ cpPut[cpOp'[u].line.id] = CpUnput
    PROVE  Planned(v)'
<1>1. PICK line : line = cpOp[v].line  OBVIOUS
<1>2. PICK s : s = CpFile  OBVIOUS
<1>3. Planned(v)  BY DEF Stored
<1>4. /\ line.id \in CpIds
      /\ line.op = "writes" => \E kind \in CpKinds : line.writes = <<kind>>
      /\ line.op = "truncate" => line.id \notin CpHead(s)
  BY <1>1, <1>2, <1>3 DEF Planned
<1>5. ASSUME line.op = "cp"
      PROVE  /\ line.writes = <<>> /\ cpPut'[line.id] \in CpHistories
             /\ Says(line)'
             /\ \A k \in DOMAIN s : s[k].op = "cp" => s[k].id # line.id
             /\ \A u \in CpWriters \ {v} :
                    cpOp'[u] # CpIdle /\ cpOp'[u].line.op = "cp" => cpOp'[u].line.id # line.id
  <2>1. /\ line.writes = <<>> /\ cpPut[line.id] \in CpHistories /\ Says(line)
        /\ \A k \in DOMAIN s : s[k].op = "cp" => s[k].id # line.id
        /\ \A u \in CpWriters \ {v} :
                cpOp[u] # CpIdle /\ cpOp[u].line.op = "cp" => cpOp[u].line.id # line.id
    BY <1>1, <1>2, <1>3, <1>5 DEF Planned
  <2>2. cpPut[line.id] # CpUnput
    <3>1. cpPut[line.id] \in CpCommitted  BY <2>1 DEF CpCommitted
    <3> QED  BY <3>1, HistoriesAreSeqs
  <2>3. cpPut'[line.id] = cpPut[line.id]  BY <1>4, <2>2 DEF PutsGrow
  <2>4. Says(line)'
    <3>1. line.base # CpNone => line.base \in CpLiveIds(s)
      <4>1. Ready(v)  BY DEF Inv
      <4> QED  BY <1>1, <1>2, <1>5, <4>1 DEF Ready
    <3>2. OwnIds(s)  BY <1>2 DEF Stored, StoredIn
    <3>3. line.base # CpNone => line.base \in CpIds /\ cpPut[line.base] # CpUnput
      BY <3>1, <3>2, LivePut
    <3> QED  BY <1>4, <2>1, <2>2, <3>3, SaysOn
  <2>5. ASSUME NEW u \in CpWriters \ {v}, cpOp'[u] # CpIdle, cpOp'[u].line.op = "cp"
        PROVE  cpOp'[u].line.id # line.id
    <3>1. CASE cpOp[u] # CpIdle /\ cpOp'[u].line = cpOp[u].line  BY <2>1, <2>5, <3>1
    <3>2. CASE cpPut[cpOp'[u].line.id] = CpUnput  BY <2>2, <3>2
    <3> QED  BY <2>5, <3>1, <3>2
  <2> QED  BY <2>1, <2>3, <2>4, <2>5
<1>6. line = cpOp'[v].line /\ s = CpFile'  BY <1>1, <1>2
<1>7. CpHead(CpFile)' = CpHead(s)  BY <1>6 DEF CpHead, CpLive
<1> QED  BY <1>4, <1>5, <1>6, <1>7 DEF Planned, Says

\* Idle writers plan nothing.
LEMMA PlannedIdle == ASSUME NEW v, cpOp'[v] = CpIdle  PROVE Planned(v)'
BY DEF Planned

\* Steps that leave the file and the plans alone.
LEMMA StoredStill ==
    ASSUME Inv, Stored, CpFile' = CpFile, UNCHANGED cpPut,
           \A v \in CpWriters : cpOp'[v] = CpIdle \/ (cpOp[v] # CpIdle /\ cpOp'[v].line = cpOp[v].line)
    PROVE  Stored'
<1>1. PutsGrow  BY DEF PutsGrow
<1>2. StoredIn(CpFile, CpFold(CpFile))'  BY <1>1, StoredOn
<1>3. ASSUME NEW v \in CpWriters  PROVE Planned(v)'
  <2>1. CASE cpOp'[v] = CpIdle  BY <2>1, PlannedIdle
  <2>2. CASE cpOp[v] # CpIdle /\ cpOp'[v].line = cpOp[v].line
    BY <1>1, <2>2, PlannedOn
  <2> QED  BY <2>1, <2>2
<1>4. Puts'  BY DEF Stored, Puts
<1> QED  BY <1>2, <1>3, <1>4 DEF Stored

\* put, up to the lock.
LEMMA StoredPutRead ==
    ASSUME Inv, Stored, NEW w \in CpWriters, CpPutRead(w)
    PROVE  Stored'
<1>1. CpLines = CpFile /\ CpFile' = CpFile  BY LinesAreFile DEF CpPutRead, CpFile
<1>2. PICK id \in CpIds, msgs \in CpHistories,
           parent \in IF CpLiveIds(CpFile) = {} THEN {CpNone} ELSE CpLiveIds(CpFile) :
          /\ cpPut[id] = CpUnput
          /\ cpOp' = [cpOp EXCEPT ![w] = [stage |-> "ready", line |-> CpEncode(id, parent, msgs)]]
          /\ cpPut' = [cpPut EXCEPT ![id] = msgs]
  BY <1>1 DEF CpPutRead
<1>3. cpPut = [i \in CpIds |-> cpPut[i]]  BY DEF Stored, Puts
<1>4. PutsGrow /\ cpPut'[id] = msgs  BY <1>2, <1>3 DEF PutsGrow
<1>5. StoredIn(CpFile, CpFold(CpFile))'  BY <1>1, <1>4, StoredOn
<1>6. Puts'
  <2>1. cpPut' = [i \in CpIds |-> cpPut'[i]]  BY <1>2, <1>3
  <2>2. \A i \in CpIds : cpPut'[i] \in CpCommitted \cup {CpUnput}
    BY <1>2, <1>3 DEF Stored, Puts, CpCommitted
  <2> QED  BY <2>1, <2>2 DEF Puts
<1>7. PICK line : line = CpEncode(id, parent, msgs)  OBVIOUS
<1>8. /\ line.op = "cp" /\ line.id = id /\ line.writes = <<>>
      /\ \/ line.base = CpNone /\ line.msgs = msgs
         \/ /\ line.base \in CpLiveIds(CpFile) /\ line.base # CpNone
            /\ msgs = cpPut[line.base] \o line.msgs
  <2>1. parent = CpNone \/ parent \in CpLiveIds(CpFile)  OBVIOUS
  <2>2. Encodes(line, id, parent, msgs)  BY <1>7 DEF Encodes
  <2>3. cpPut[id] = CpUnput  BY <1>2
  <2>4. Tells(line, id, msgs)  BY <2>1, <2>2, <2>3, EncodeSays
  <2> QED  BY <2>4 DEF Tells
<1>9. /\ cpOp'[w].line = line
      /\ \A v \in CpWriters : v # w => cpOp'[v] = cpOp[v]
  BY <1>2, <1>7 DEF Inv, OpsOK
<1>10. Planned(w)'
  <2>1. Says(line)'
    <3>1. line.base \in CpLiveIds(CpFile) => line.base \in CpIds /\ cpPut[line.base] # CpUnput
      BY LivePut DEF Stored, StoredIn
    <3>2. line.base \in CpLiveIds(CpFile) => cpPut'[line.base] = cpPut[line.base]
      BY <1>4, <3>1 DEF PutsGrow
    <3>3. cpPut'[line.id] = msgs  BY <1>4, <1>8
    <3> QED  BY <1>8, <3>2, <3>3 DEF Says
  <2>2. \A k \in DOMAIN CpFile : CpFile[k].op = "cp" => CpFile[k].id # line.id
    BY <1>2, <1>8 DEF Stored, StoredIn, OwnIds
  <2>3. ASSUME NEW v \in CpWriters \ {w}, cpOp'[v] # CpIdle, cpOp'[v].line.op = "cp"
        PROVE  cpOp'[v].line.id # line.id
    <3>1. cpOp[v] # CpIdle /\ cpOp[v].line.op = "cp" /\ cpOp'[v] = cpOp[v]  BY <1>9, <2>3
    <3>2. Planned(v)  BY DEF Stored
    <3>3. cpPut[cpOp[v].line.id] \in CpHistories  BY <3>1, <3>2 DEF Planned
    <3>4. cpPut[cpOp[v].line.id] # CpUnput
      <4>1. cpPut[cpOp[v].line.id] \in CpCommitted  BY <3>3 DEF CpCommitted
      <4> QED  BY <4>1, HistoriesAreSeqs
    <3> QED  BY <1>2, <1>8, <3>1, <3>4
  <2>4. cpPut'[line.id] \in CpHistories  BY <1>2, <1>4, <1>8
  <2>5. line.op = "cp" /\ line.id \in CpIds /\ line.writes = <<>>  BY <1>8
  <2>6. \A k \in DOMAIN CpFile' : CpFile'[k].op = "cp" => CpFile'[k].id # line.id
    BY <1>1, <2>2
  <2>7. cpOp'[w].line = line  BY <1>9
  <2> QED  BY <2>1, <2>3, <2>4, <2>5, <2>6, <2>7 DEF Planned, Says
<1>11. ASSUME NEW v \in CpWriters, v # w  PROVE Planned(v)'
  <2>1. CASE cpOp[v] = CpIdle  BY <1>9, <1>11, <2>1, PlannedIdle
  <2>2. CASE cpOp[v] # CpIdle
    <3>1. cpOp'[v].line = cpOp[v].line  BY <1>9, <1>11
    <3>2. \A u \in CpWriters \ {v} : cpOp'[u] # CpIdle /\ cpOp'[u].line.op = "cp" =>
                \/ cpOp[u] # CpIdle /\ cpOp'[u].line = cpOp[u].line
                \/ cpPut[cpOp'[u].line.id] = CpUnput
      BY <1>2, <1>8, <1>9
    <3> QED  BY <1>1, <1>4, <2>2, <3>1, <3>2, PlannedOn
  <2> QED  BY <2>1, <2>2
<1> QED  BY <1>5, <1>6, <1>10, <1>11 DEF Stored

\* put_writes and truncate_to, up to the lock.
LEMMA StoredOtherReads ==
    ASSUME Inv, Stored, NEW w \in CpWriters, CpWritesReady(w) \/ CpTruncateRead(w)
    PROVE  Stored'
<1>1. CpLines = CpFile /\ CpFile' = CpFile /\ UNCHANGED cpPut
  BY LinesAreFile DEF CpWritesReady, CpTruncateRead, CpFile
<1>2. PICK line :
        /\ cpOp' = [cpOp EXCEPT ![w] = [stage |-> "ready", line |-> line]]
        /\ line.id \in CpIds
        /\ \/ line.op = "writes" /\ \E kind \in CpKinds : line.writes = <<kind>>
           \/ line.op = "truncate" /\ line.id \notin CpHead(CpFile)
  <2>1. CASE CpWritesReady(w)
    <3>1. PICK id \in CpLiveIds(CpFile) \cup CpInFlight, kind \in CpKinds :
            cpOp' = [cpOp EXCEPT ![w] = [stage |-> "ready", line |-> CpWritesLine(id, kind)]]
      BY <1>1, <2>1 DEF CpWritesReady
    <3>2. id \in CpIds
      <4>1. CASE id \in CpLiveIds(CpFile)  BY <4>1, LivePut DEF Stored, StoredIn
      <4>2. CASE id \in CpInFlight
        <5>1. PICK v \in CpWriters : cpOp[v] # CpIdle /\ id = cpOp[v].line.id
          BY <4>2 DEF CpInFlight, CpIdleWriter
        <5>2. Planned(v)  BY DEF Stored
        <5> QED  BY <5>1, <5>2 DEF Planned
      <4> QED  BY <4>1, <4>2
    <3>3. LET l == CpWritesLine(id, kind)
          IN  l.id = id /\ l.op = "writes" /\ l.writes = <<kind>>
      BY DEF CpWritesLine
    <3> QED  BY <3>1, <3>2, <3>3
  <2>2. CASE CpTruncateRead(w)
    <3>1. PICK id \in CpLiveIds(CpFile) \ CpHead(CpFile) :
            cpOp' = [cpOp EXCEPT ![w] = [stage |-> "ready", line |-> CpTruncateLine(id)]]
      BY <1>1, <2>2 DEF CpTruncateRead
    <3>2. id \in CpIds  BY <3>1, LivePut DEF Stored, StoredIn
    <3>3. CpTruncateLine(id).id = id /\ CpTruncateLine(id).op = "truncate"
      BY DEF CpTruncateLine
    <3> QED  BY <3>1, <3>2, <3>3
  <2> QED  BY <2>1, <2>2
<1>3. /\ cpOp'[w].line = line
      /\ \A v \in CpWriters : v # w => cpOp'[v] = cpOp[v]
  BY <1>2 DEF Inv, OpsOK
<1>4. PutsGrow  BY <1>1 DEF PutsGrow
<1>5. StoredIn(CpFile, CpFold(CpFile))'  BY <1>1, <1>4, StoredOn
<1>6. Puts'  BY <1>1 DEF Stored, Puts
<1>7. Planned(w)'
  <2>1. CpHead(CpFile)' = CpHead(CpFile)  BY <1>1 DEF CpHead, CpLive
  <2>2. line.op # "cp"  BY <1>2
  <2> QED  BY <1>2, <1>3, <2>1, <2>2 DEF Planned
<1>8. ASSUME NEW v \in CpWriters, v # w  PROVE Planned(v)'
  <2>1. CASE cpOp[v] = CpIdle  BY <1>3, <1>8, <2>1, PlannedIdle
  <2>2. CASE cpOp[v] # CpIdle
    <3>1. cpOp'[v].line = cpOp[v].line  BY <1>3, <1>8
    <3>2. line.op # "cp"  BY <1>2
    <3>3. \A u \in CpWriters \ {v} : cpOp'[u] # CpIdle /\ cpOp'[u].line.op = "cp" =>
                \/ cpOp[u] # CpIdle /\ cpOp'[u].line = cpOp[u].line
                \/ cpPut[cpOp'[u].line.id] = CpUnput
      BY <1>3, <3>2
    <3> QED  BY <1>1, <1>4, <2>2, <3>1, <3>3, PlannedOn
  <2> QED  BY <2>1, <2>2
<1> QED  BY <1>5, <1>6, <1>7, <1>8 DEF Stored

\* The same file stores the same, seen from the next state.
LEMMA StoredAlike ==
    ASSUME NEW s, NEW es, StoredIn(s, es), UNCHANGED cpPut, s = CpFile'
    PROVE  es = CpFold(s) => StoredIn(CpFile, CpFold(CpFile))'
<1> SUFFICES ASSUME es = CpFold(s)  PROVE StoredIn(CpFile, CpFold(CpFile))'
  OBVIOUS
<1>1. IsSeq(s) /\ Entries(es) /\ Mirrors(s, es) /\ OwnIds(s) /\ Faithful(es)
  BY DEF StoredIn
<1>2. IsSeq(CpFile)' /\ Entries(CpFold(CpFile))'  BY <1>1 DEF Entries, IsSeq
<1>3. Mirrors(CpFile, CpFold(CpFile))'  BY <1>1 DEF Mirrors, CpLive
<1>4. OwnIds(CpFile)'  BY <1>1 DEF OwnIds
<1>5. Faithful(CpFold(CpFile))'  BY <1>1 DEF Faithful, Says
<1> QED  BY <1>2, <1>3, <1>4, <1>5 DEF StoredIn

\* One line more, of one of three kinds.
Adds(s, e) ==
    /\ e.op = "cp" /\ e.id \in CpIds /\ e.writes = <<>> /\ cpPut[e.id] \in CpHistories /\ Says(e)
    /\ e.base # CpNone => e.base \in CpLiveIds(s)
    /\ \A k \in DOMAIN s : s[k].op = "cp" => s[k].id # e.id

Attaches(e) ==
    e.op = "writes" /\ e.id \in CpIds /\ \E kind \in CpKinds : e.writes = <<kind>>

CutsBack(s, e) ==
    e.op = "truncate" /\ e.id \in CpLiveIds(s) /\ e.id \notin CpHead(s)

\* What is appended under the lock is what was planned before it.
LEMMA CommitAppends ==
    ASSUME Inv, Stored, NEW w \in CpWriters, CpCommit(w)
    PROVE  /\ cpOp[w] # CpIdle
           /\ CpFile' = Append(CpFile, cpOp[w].line)
           /\ IsSeq(CpFile)
           /\ \/ Adds(CpFile, cpOp[w].line)
              \/ Attaches(cpOp[w].line)
              \/ CutsBack(CpFile, cpOp[w].line)
<1>1. cpOp[w] # CpIdle  BY DEF CpCommit, CpAppending, CpIdle
<1>2. CpFile = cpLog /\ IsSeq(CpFile)  BY DEF Inv, FilesOK, CpFile, CpCommit, CpAppending
<1>3. CpFile' = Append(CpFile, cpOp[w].line)
  BY <1>2 DEF CpFile, CpCommit, CpAppending, CpRepaired
<1>4. Ready(w) /\ Planned(w)  BY DEF Inv, Stored
<1>5. PICK line : line = cpOp[w].line  OBVIOUS
<1>6. CASE line.op = "writes"
  BY <1>1, <1>2, <1>3, <1>4, <1>5, <1>6 DEF Planned, Attaches
<1>7. CASE line.op = "cp"
  BY <1>1, <1>2, <1>3, <1>4, <1>5, <1>7 DEF Ready, Planned, Adds
<1>8. CASE line.op = "truncate"
  BY <1>1, <1>2, <1>3, <1>4, <1>5, <1>8 DEF Ready, Planned, CutsBack
<1> QED  BY <1>1, <1>4, <1>5, <1>6, <1>7, <1>8 DEF Ready

\* Each leaves what is stored right.
LEMMA AddsStored ==
    ASSUME NEW s, NEW es, NEW e, StoredIn(s, es), Adds(s, e)
    PROVE  /\ StoredIn(Append(s, e), CpFoldLine(es, e))
           /\ CpFoldLine(es, e) = Append(es, CpEntry(e))
<1>1. cpPut[e.id] # CpUnput
  <2>1. cpPut[e.id] \in CpCommitted  BY DEF Adds, CpCommitted
  <2> QED  BY <2>1, HistoriesAreSeqs
<1>2. e.writes \in Seq(CpKinds)
  <2>1. <<>> \in Seq(CpKinds)  OBVIOUS
  <2> QED  BY <2>1 DEF Adds
<1>3. /\ e.op = "cp" /\ e.id \in CpIds /\ Says(e)
      /\ e.base # CpNone => e.base \in CpLiveIds(s)
      /\ \A k \in DOMAIN s : s[k].op = "cp" => s[k].id # e.id
  BY DEF Adds
<1> QED  BY <1>1, <1>2, <1>3, AddCheckpoint

\* _append, under the lock.
LEMMA StoredCommit ==
    ASSUME Inv, Inv', Stored, NEW w \in CpWriters, CpCommit(w)
    PROVE  Stored'
<1>1. /\ cpOp[w] # CpIdle
      /\ CpFile' = Append(CpFile, cpOp[w].line)
      /\ IsSeq(CpFile)
      /\ \/ Adds(CpFile, cpOp[w].line)
         \/ Attaches(cpOp[w].line)
         \/ CutsBack(CpFile, cpOp[w].line)
  BY CommitAppends
<1>2. PICK s, es, e : s = CpFile /\ es = CpFold(CpFile) /\ e = cpOp[w].line  OBVIOUS
<1>3. StoredIn(s, es)  BY <1>2 DEF Stored
<1>4. StoredIn(Append(s, e), CpFoldLine(es, e))
  <2>1. CASE Adds(s, e)  BY <1>3, <2>1, AddsStored
  <2>2. CASE Attaches(e)
    <3>1. PICK kind \in CpKinds : e.writes = <<kind>>  BY <2>2 DEF Attaches
    <3>2. e.op = "writes"  BY <2>2 DEF Attaches
    <3> QED  BY <1>3, <3>1, <3>2, AddWrites
  <2>3. CASE CutsBack(s, e)
    <3>1. e.op = "truncate" /\ e.id \in CpLiveIds(s) /\ e.id \notin CpHead(s)
      BY <2>3 DEF CutsBack
    <3> QED  BY <1>3, <3>1, CutBack
  <2> QED  BY <1>1, <1>2, <2>1, <2>2, <2>3
<1>5. UNCHANGED cpPut  BY DEF CpCommit
<1>6. StoredIn(CpFile, CpFold(CpFile))'
  <2>1. PICK t : t = Append(s, e)  OBVIOUS
  <2>2. CpFoldLine(es, e) = CpFold(t)  BY <1>1, <1>2, <2>1, FoldAppend
  <2>3. StoredIn(t, CpFold(t))  BY <1>4, <2>1, <2>2
  <2>4. t = CpFile'  BY <1>1, <1>2, <2>1
  <2> QED  BY <1>5, <2>3, <2>4, StoredAlike
<1>7. Puts'  BY <1>5 DEF Stored, Puts
<1>8. cpOp' = [cpOp EXCEPT ![w] = CpIdle]  BY DEF CpCommit
<1>9. /\ cpOp'[w] = CpIdle
      /\ \A v \in CpWriters : v # w => cpOp'[v] = cpOp[v]
  BY <1>8 DEF Inv, OpsOK
<1>10. ASSUME NEW v \in CpWriters, v # w, cpOp[v] # CpIdle  PROVE Planned(v)'
  <2>1. cpOp'[v] = cpOp[v]  BY <1>9, <1>10
  <2>2. PICK line : line = cpOp[v].line  OBVIOUS
  <2>3. Planned(v) /\ Ready(v) /\ Planned(w)  BY DEF Stored, Inv
  <2>4. line.op # "truncate"  BY <1>1, <1>10, <2>2, <2>3 DEF Ready
  <2>5. /\ line.id \in CpIds
        /\ line.op = "writes" => \E kind \in CpKinds : line.writes = <<kind>>
    BY <1>10, <2>2, <2>3 DEF Planned
  <2>6. ASSUME line.op = "cp"
        PROVE  /\ line.writes = <<>> /\ cpPut'[line.id] \in CpHistories
               /\ Says(line)'
               /\ \A k \in DOMAIN CpFile' : CpFile'[k].op = "cp" => CpFile'[k].id # line.id
               /\ \A u \in CpWriters \ {v} :
                    cpOp'[u] # CpIdle /\ cpOp'[u].line.op = "cp" => cpOp'[u].line.id # line.id
    <3>1. /\ line.writes = <<>> /\ cpPut[line.id] \in CpHistories /\ Says(line)
          /\ \A k \in DOMAIN s : s[k].op = "cp" => s[k].id # line.id
          /\ \A u \in CpWriters \ {v} :
                cpOp[u] # CpIdle /\ cpOp[u].line.op = "cp" => cpOp[u].line.id # line.id
      BY <1>2, <1>10, <2>2, <2>3, <2>6 DEF Planned
    <3>2. Says(line)'  BY <1>5, <3>1 DEF Says
    <3>3. ASSUME NEW k \in DOMAIN CpFile', CpFile'[k].op = "cp"  PROVE CpFile'[k].id # line.id
      <4>1. /\ Len(s) \in Nat /\ DOMAIN s = 1..Len(s)
            /\ DOMAIN Append(s, e) = 1..Len(s) + 1
            /\ \A i \in 1..Len(s) : Append(s, e)[i] = s[i]
            /\ Append(s, e)[Len(s) + 1] = e
        BY <1>1, <1>2, AppendSeq
      <4>2. e.op = "cp" => e.id # line.id  BY <1>1, <1>2, <1>10, <3>1
      <4>3. CpFile' = Append(s, e)  BY <1>1, <1>2
      <4>4. k \in 1..Len(s) \/ k = Len(s) + 1  BY <4>1, <4>3
      <4> QED  BY <3>1, <3>3, <4>1, <4>2, <4>3, <4>4
    <3>4. \A u \in CpWriters \ {v} :
                cpOp'[u] # CpIdle /\ cpOp'[u].line.op = "cp" => cpOp'[u].line.id # line.id
      BY <1>9, <3>1
    <3> QED  BY <1>5, <3>1, <3>2, <3>3, <3>4
  <2>7. line = cpOp'[v].line  BY <2>1, <2>2
  <2> QED  BY <2>4, <2>5, <2>6, <2>7 DEF Planned, Says
<1>11. ASSUME NEW v \in CpWriters  PROVE Planned(v)'
  <2>1. CASE cpOp'[v] = CpIdle  BY <2>1, PlannedIdle
  <2>2. CASE cpOp'[v] # CpIdle  BY <1>9, <1>10, <2>2
  <2> QED  BY <2>1, <2>2
<1> QED  BY <1>6, <1>7, <1>11 DEF Stored

\* Every step keeps what is stored right.
LEMMA NextStored == Inv /\ Inv' /\ Stored /\ [CpNext]_cpVars => Stored'
<1> SUFFICES ASSUME Inv, Inv', Stored, [CpNext]_cpVars  PROVE Stored'  OBVIOUS
<1>1. ASSUME NEW w \in CpWriters, CpPutRead(w)  PROVE Stored'  BY <1>1, StoredPutRead
<1>2. ASSUME NEW w \in CpWriters, CpWritesReady(w) \/ CpTruncateRead(w)  PROVE Stored'
  BY <1>2, StoredOtherReads
<1>3. ASSUME NEW w \in CpWriters, CpMigrate(w)  PROVE Stored'
  <2>1. CpFile' = CpFile /\ UNCHANGED cpPut  BY <1>3 DEF CpMigrate, CpFile
  <2>2. \A v \in CpWriters : cpOp'[v] = CpIdle \/ (cpOp[v] # CpIdle /\ cpOp'[v].line = cpOp[v].line)
    <3>1. cpOp[w] # CpIdle  BY <1>3 DEF CpMigrate, CpIdle
    <3>2. cpOp' = [cpOp EXCEPT ![w] = [stage |-> "migrated", line |-> cpOp[w].line]]
      BY <1>3 DEF CpMigrate
    <3> QED  BY <3>1, <3>2 DEF Inv, OpsOK
  <2> QED  BY <2>1, <2>2, StoredStill
<1>4. ASSUME NEW w \in CpWriters, CpCommit(w)  PROVE Stored'  BY <1>4, StoredCommit
<1>5. ASSUME NEW w \in CpWriters, CpTear(w)  PROVE Stored'
  <2>1. CpFile' = CpFile /\ UNCHANGED cpPut
    BY <1>5 DEF CpTear, CpAppending, CpRepaired, CpFile, Inv, FilesOK
  <2>2. \A v \in CpWriters : cpOp'[v] = CpIdle  BY <1>5 DEF CpTear
  <2> QED  BY <2>1, <2>2, StoredStill
<1>6. ASSUME CpCrash  PROVE Stored'
  <2>1. CpFile' = CpFile /\ UNCHANGED cpPut  BY <1>6 DEF CpCrash, CpFile
  <2>2. \A v \in CpWriters : cpOp'[v] = CpIdle  BY <1>6 DEF CpCrash
  <2> QED  BY <2>1, <2>2, StoredStill
<1>7. CASE UNCHANGED cpVars
  <2>1. CpFile' = CpFile /\ UNCHANGED cpPut  BY <1>7 DEF cpVars, CpFile
  <2>2. \A v \in CpWriters : cpOp'[v] = cpOp[v]  BY <1>7 DEF cpVars
  <2> QED  BY <2>1, <2>2, StoredStill
<1> QED  BY <1>1, <1>2, <1>3, <1>4, <1>5, <1>6, <1>7 DEF CpNext

\* What is stored is what a reader rebuilds.
LEMMA StoredExact == Inv /\ Stored => CpExact
<1> SUFFICES ASSUME Inv, Stored  PROVE CpExact  OBVIOUS
<1>1. PICK s, es : s = CpFile /\ es = CpFold(CpFile)  OBVIOUS
<1>2. CpLines = s /\ CpEntries = es  BY <1>1, LinesAreFile DEF CpEntries
<1>3. StoredIn(s, es)  BY <1>1 DEF Stored
<1>4. CpRebuilt(es) = [k \in DOMAIN es |-> cpPut[es[k].id]]
  BY <1>3, EntriesPut, RebuiltIs DEF StoredIn
<1>5. /\ {es[i].id : i \in DOMAIN es} = CpLiveIds(s)
      /\ es # <<>> => CpHead(s) = {es[Len(es)].id}
  BY <1>3, MirrorsIds DEF StoredIn
<1> QED  BY <1>2, <1>4, <1>5 DEF CpExact

\* A fork of what is stored stores the same.
LEMMA StoredForks == Inv /\ Stored => CpForkSame
<1> SUFFICES ASSUME Inv, Stored  PROVE CpForkSame  OBVIOUS
<1>1. PICK s, es : s = CpFile /\ es = CpFold(CpFile)  OBVIOUS
<1>2. CpLines = s /\ CpEntries = es  BY <1>1, LinesAreFile DEF CpEntries
<1>3. Entries(es)  BY <1>1 DEF Stored, StoredIn
<1>4. PICK cl : cl = [k \in DOMAIN es |->
        [op |-> "cp", id |-> es[k].id, base |-> es[k].base,
         msgs |-> es[k].msgs, writes |-> es[k].writes]]
  OBVIOUS
<1>5. CpCloned(s) = cl  BY <1>1, <1>4 DEF CpCloned
<1>6. Len(es) \in Nat /\ DOMAIN es = 1..Len(es) /\ es = [k \in 1..Len(es) |-> es[k]]
  BY <1>3, SeqFun DEF Entries
<1>7. IsSeq(cl)
  <2>1. cl = [k \in 1..Len(es) |-> cl[k]]  BY <1>4, <1>6
  <2> QED  BY <1>6, <2>1, FunSeq
<1>8. DOMAIN cl = DOMAIN es  BY <1>4
<1>9. \A k \in DOMAIN cl : cl[k].op = "cp" /\ CpEntry(cl[k]) = es[k]
  BY <1>3, <1>4, <1>8 DEF Entries, CpEntry
<1>10. CpFold(cl) = [k \in DOMAIN cl |-> CpEntry(cl[k])]  BY <1>7, <1>9, FoldOfEntries
<1>11. CpFold(cl) = es  BY <1>6, <1>8, <1>9, <1>10
<1> QED  BY <1>2, <1>5, <1>11 DEF CpForkSame

-----------------------------------------------------------------------------
(* Readers see a CheckpointHistory.                                        *)

\* What a reader is shown of the entries es.
Seen(es) ==
    [k \in DOMAIN es |-> [id |-> es[k].id, msgs |-> cpPut[es[k].id], writes |-> es[k].writes]]

\* The view is what was put, with the writes that are stored.
LEMMA ViewIs == Inv /\ Stored => CpView = Seen(CpFold(CpFile))
<1> SUFFICES ASSUME Inv, Stored  PROVE CpView = Seen(CpFold(CpFile))  OBVIOUS
<1>1. PICK s, es : s = CpFile /\ es = CpFold(CpFile)  OBVIOUS
<1>2. CpEntries = es  BY <1>1, LinesAreFile DEF CpEntries
<1>3. StoredIn(s, es)  BY <1>1 DEF Stored
<1>4. CpRebuilt(es) = [k \in DOMAIN es |-> cpPut[es[k].id]]
  BY <1>3, EntriesPut, RebuiltIs DEF StoredIn
<1>5. {CpViewOf(entries) : entries \in {CpEntries}} = {CpViewOf(es)}  BY <1>2
<1>6. CpView = CpViewOf(es)  BY <1>5, OnlyOne DEF CpView
<1>7. CpViewOf(es) = Seen(es)  BY <1>4 DEF CpViewOf, Seen
<1> QED  BY <1>1, <1>6, <1>7

\* Two sequences are one if they agree everywhere.
LEMMA SeqSame ==
    ASSUME NEW s, NEW t, IsSeq(s), IsSeq(t), DOMAIN s = DOMAIN t,
           \A k \in DOMAIN s : s[k] = t[k]
    PROVE  s = t
<1>1. /\ s = [k \in 1..Len(s) |-> s[k]] /\ DOMAIN s = 1..Len(s)
      /\ t = [k \in 1..Len(t) |-> t[k]] /\ DOMAIN t = 1..Len(t)
  BY SeqFun
<1>2. s = [k \in DOMAIN s |-> s[k]] /\ t = [k \in DOMAIN s |-> t[k]]  BY <1>1
<1> QED  BY <1>2

\* What is seen of entries is a sequence of records.
LEMMA SeenSeq ==
    ASSUME NEW es, IsSeq(es)
    PROVE  /\ IsSeq(Seen(es)) /\ DOMAIN Seen(es) = DOMAIN es
           /\ Len(Seen(es)) = Len(es) /\ DOMAIN es = 1..Len(es) /\ Len(es) \in Nat
           /\ \A k \in DOMAIN es : Seen(es)[k] =
                [id |-> es[k].id, msgs |-> cpPut[es[k].id], writes |-> es[k].writes]
<1>1. Len(es) \in Nat /\ DOMAIN es = 1..Len(es)  BY SeqFun
<1>2. PICK h : h = Seen(es)  OBVIOUS
<1>3. h = [k \in 1..Len(es) |-> h[k]]  BY <1>1, <1>2 DEF Seen
<1>4. IsSeq(h) /\ Len(h) = Len(es)  BY <1>1, <1>3, FunSeq
<1> QED  BY <1>1, <1>2, <1>4 DEF Seen

\* Other writes in what is seen.
LEMMA SeenRewritten ==
    ASSUME NEW h, IsSeq(h), NEW o \in DOMAIN h, NEW ws, NEW g, Rewrites(g, h, o, ws),
           h[o] = [id |-> h[o].id, msgs |-> h[o].msgs, writes |-> h[o].writes]
    PROVE  /\ IsSeq(g) /\ DOMAIN g = DOMAIN h
           /\ \A i \in DOMAIN h :
                g[i] = IF i = o THEN [id |-> h[o].id, msgs |-> h[o].msgs, writes |-> ws] ELSE h[i]
<1>1. Len(h) \in Nat /\ DOMAIN h = 1..Len(h) /\ h = [i \in 1..Len(h) |-> h[i]]
  BY SeqFun
<1>2. /\ g[o] = [h[o] EXCEPT !.writes = ws]
      /\ \A i \in DOMAIN h : i # o => g[i] = h[i]
      /\ g = [i \in 1..Len(h) |-> g[i]]
  BY <1>1 DEF Rewrites
<1>3. g[o] = [id |-> h[o].id, msgs |-> h[o].msgs, writes |-> ws]  BY <1>2
<1>4. IsSeq(g) /\ DOMAIN g = DOMAIN h  BY <1>1, <1>2, FunSeq
<1> QED  BY <1>2, <1>3, <1>4

\* A checkpoint more is a Put ...
LEMMA SeenPut ==
    ASSUME NEW s, NEW es, NEW e, StoredIn(s, es), Adds(s, e)
    PROVE  CpPromised!Put(Seen(es), Seen(CpFoldLine(es, e)))
<1>1. PICK fs : fs = CpFoldLine(es, e)  OBVIOUS
<1>2. fs = Append(es, CpEntry(e))  BY <1>1, AddsStored
<1>3. IsSeq(es) /\ StoredIn(s, es)  BY DEF StoredIn, Entries
<1>4. PICK m \in Nat : m = Len(es)  BY <1>3, SeqFun
<1>5. /\ IsSeq(fs) /\ DOMAIN es = 1..m /\ DOMAIN fs = 1..m+1
      /\ \A i \in 1..m : fs[i] = es[i]
      /\ fs[m+1] = CpEntry(e)
  BY <1>2, <1>3, <1>4, AppendSeq
<1>6. PICK x : x = [id |-> e.id, msgs |-> cpPut[e.id], writes |-> <<>>]  OBVIOUS
<1>7. PICK old, new : old = Seen(es) /\ new = Seen(fs)  OBVIOUS
<1>8. /\ IsSeq(old) /\ DOMAIN old = 1..m /\ Len(old) = m
      /\ \A k \in 1..m : old[k] = [id |-> es[k].id, msgs |-> cpPut[es[k].id], writes |-> es[k].writes]
  BY <1>3, <1>4, <1>5, <1>7, SeenSeq
<1>9. /\ IsSeq(new) /\ DOMAIN new = 1..m+1
      /\ \A k \in 1..m+1 : new[k] = [id |-> fs[k].id, msgs |-> cpPut[fs[k].id], writes |-> fs[k].writes]
  BY <1>5, <1>7, SeenSeq
<1>10. PICK t : t = Append(old, x)  OBVIOUS
<1>11. /\ IsSeq(t) /\ DOMAIN t = 1..m+1
       /\ \A k \in 1..m : t[k] = old[k]
       /\ t[m+1] = x
  BY <1>8, <1>10, AppendSeq
<1>12. new = t
  <2>1. ASSUME NEW k \in 1..m+1  PROVE new[k] = t[k]
    <3>1. CASE k \in 1..m  BY <1>5, <1>8, <1>9, <1>11, <3>1
    <3>2. CASE k = m + 1
      <4>1. fs[k].id = e.id /\ fs[k].writes = <<>>  BY <1>5, <3>2 DEF CpEntry, Adds
      <4> QED  BY <1>6, <1>9, <1>11, <3>2, <4>1
    <3> QED  BY <3>1, <3>2
  <2> QED  BY <1>9, <1>11, <2>1, SeqSame
<1>13. \A k \in DOMAIN old : old[k].id # e.id
  <2> TAKE k \in DOMAIN old
  <2>1. k \in DOMAIN es /\ old[k].id = es[k].id  BY <1>5, <1>8
  <2>2. PICK j \in DOMAIN s : CpLive(s, j) /\ s[j].id = es[k].id
    BY <2>1 DEF StoredIn, Mirrors
  <2> QED  BY <2>1, <2>2 DEF Adds, CpLive
<1>14. cpPut[e.id] \in CpCommitted /\ e.id \in CpIds  BY DEF Adds, CpCommitted
<1>15. CpPromised!Put(old, new)  BY <1>6, <1>10, <1>12, <1>13, <1>14 DEF CpPromised!Put
<1> QED  BY <1>1, <1>7, <1>15

\* ... writes more are an Attach, or nothing if nothing is stored ...
LEMMA SeenAttach ==
    ASSUME NEW s, NEW es, NEW e, StoredIn(s, es), Attaches(e)
    PROVE  \/ CpPromised!Attach(Seen(es), Seen(CpFoldLine(es, e)))
           \/ Seen(CpFoldLine(es, e)) = Seen(es)
<1>1. PICK fs : fs = CpFoldLine(es, e)  OBVIOUS
<1>2. PICK kind \in CpKinds : e.writes = <<kind>>  BY DEF Attaches
<1>3. e.op = "writes" /\ e.id \in CpIds  BY DEF Attaches
<1>4. /\ StoredIn(Append(s, e), fs) /\ SameChains(es, fs)
      /\ es = <<>> => fs = es
      /\ es # <<>> => WritesMore(es, fs, e.id, kind)
  BY <1>1, <1>2, <1>3, AddWrites
<1>5. CASE es = <<>>  BY <1>1, <1>4, <1>5
<1>6. CASE es # <<>>
  <2>1. PICK o \in DOMAIN es :
            /\ o = IF CpIndex(es, e.id) = {} THEN Len(es) ELSE CpOnly(CpIndex(es, e.id))
            /\ \A i \in DOMAIN es : fs[i].writes =
                    IF i = o THEN Append(es[i].writes, kind) ELSE es[i].writes
    BY <1>4, <1>6 DEF WritesMore
  <2>2. IsSeq(es) /\ IsSeq(fs) /\ DOMAIN fs = DOMAIN es
        /\ \A i \in DOMAIN es : fs[i].id = es[i].id
    BY <1>4 DEF StoredIn, Entries, SameChains
  <2>3. PICK old, new : old = Seen(es) /\ new = Seen(fs)  OBVIOUS
  <2>4. /\ IsSeq(old) /\ DOMAIN old = DOMAIN es /\ Len(old) = Len(es)
        /\ DOMAIN es = 1..Len(es) /\ Len(es) \in Nat
        /\ \A k \in DOMAIN es : old[k] =
                [id |-> es[k].id, msgs |-> cpPut[es[k].id], writes |-> es[k].writes]
    BY <2>2, <2>3, SeenSeq
  <2>5. /\ IsSeq(new) /\ DOMAIN new = DOMAIN es
        /\ \A k \in DOMAIN es : new[k] =
                [id |-> fs[k].id, msgs |-> cpPut[fs[k].id], writes |-> fs[k].writes]
    BY <2>2, <2>3, SeenSeq
  <2>6. CpPromised!Owner(old, e.id) = o
    <3>1. \A k \in DOMAIN old : old[k].id = es[k].id  BY <2>4
    <3>2. {k \in DOMAIN old : old[k].id = e.id} = CpIndex(es, e.id)
      BY <2>4, <3>1 DEF CpIndex
    <3>3. PICK at : at = CpIndex(es, e.id) /\ at = {k \in DOMAIN old : old[k].id = e.id}
      BY <3>2
    <3>6. CpPromised!Owner(old, e.id) = IF at = {} THEN Len(old) ELSE CHOOSE k \in at : TRUE
      BY <3>3 DEF CpPromised!Owner
    <3>7. CpOnly(at) = CHOOSE k \in at : TRUE  BY DEF CpOnly
    <3>4. Len(old) = Len(es)  BY <2>4
    <3>5. o = IF CpIndex(es, e.id) = {} THEN Len(es) ELSE CpOnly(CpIndex(es, e.id))  BY <2>1
    <3> QED  BY <3>3, <3>4, <3>5, <3>6, <3>7
  <2>7. PICK g : Rewrites(g, old, o, Append(old[o].writes, kind))  BY DEF Rewrites
  <2>8. /\ IsSeq(g) /\ DOMAIN g = DOMAIN old
        /\ \A i \in DOMAIN old :
             g[i] = IF i = o THEN [id |-> old[o].id, msgs |-> old[o].msgs,
                                   writes |-> Append(old[o].writes, kind)]
                    ELSE old[i]
    <3>1. PICK ws : ws = Append(old[o].writes, kind)  OBVIOUS
    <3>2. Rewrites(g, old, o, ws)  BY <2>7, <3>1
    <3>3. old[o] = [id |-> old[o].id, msgs |-> old[o].msgs, writes |-> old[o].writes] /\ o \in DOMAIN old
      BY <2>4
    <3>4. IsSeq(old)  BY <2>4
    <3>5. /\ IsSeq(g) /\ DOMAIN g = DOMAIN old
          /\ \A i \in DOMAIN old :
               g[i] = IF i = o THEN [id |-> old[o].id, msgs |-> old[o].msgs, writes |-> ws]
                      ELSE old[i]
      BY <3>2, <3>3, <3>4, SeenRewritten
    <3> QED  BY <3>1, <3>5
  <2>9. new = g
    <3>1. ASSUME NEW k \in DOMAIN new  PROVE new[k] = g[k]
      <4>1. k \in DOMAIN es  BY <2>5
      <4>2. /\ new[k] = [id |-> fs[k].id, msgs |-> cpPut[fs[k].id], writes |-> fs[k].writes]
            /\ old[k] = [id |-> es[k].id, msgs |-> cpPut[es[k].id], writes |-> es[k].writes]
            /\ fs[k].id = es[k].id
            /\ fs[k].writes = IF k = o THEN Append(es[k].writes, kind) ELSE es[k].writes
        BY <2>1, <2>2, <2>4, <2>5, <4>1
      <4>3. g[k] = IF k = o THEN [id |-> old[k].id, msgs |-> old[k].msgs,
                                  writes |-> Append(old[k].writes, kind)]
                   ELSE old[k]
        BY <2>4, <2>8, <4>1
      <4>4. old[k].id = es[k].id /\ old[k].msgs = cpPut[es[k].id] /\ old[k].writes = es[k].writes
        BY <4>2
      <4>5. CASE k = o  BY <4>2, <4>3, <4>4, <4>5
      <4>6. CASE k # o  BY <4>2, <4>3, <4>6
      <4> QED  BY <4>5, <4>6
    <3> QED  BY <2>4, <2>5, <2>8, <3>1, SeqSame
  <2>10. old # <<>>  BY <2>1, <2>4
  <2>11. new = [old EXCEPT ![CpPromised!Owner(old, e.id)].writes = Append(@, kind)]
    BY <2>6, <2>7, <2>9 DEF Rewrites
  <2>12. CpPromised!Attach(old, new)  BY <1>3, <2>10, <2>11 DEF CpPromised!Attach
  <2> QED  BY <1>1, <2>3, <2>12
<1> QED  BY <1>5, <1>6

\* ... and a truncate is a Rewind.
LEMMA SeenRewind ==
    ASSUME NEW s, NEW es, NEW e, StoredIn(s, es), CutsBack(s, e)
    PROVE  CpPromised!Rewind(Seen(es), Seen(CpFoldLine(es, e)))
<1>1. PICK fs : fs = CpFoldLine(es, e)  OBVIOUS
<1>2. e.op = "truncate" /\ e.id \in CpLiveIds(s) /\ e.id \notin CpHead(s)  BY DEF CutsBack
<1>3. /\ StoredIn(Append(s, e), fs)
      /\ KeepsFirst(es, fs)
  BY <1>1, <1>2, CutBack
<1>4. PICK p \in 1..Len(es) - 1 :
            /\ DOMAIN fs = 1..p
            /\ \A i \in 1..p :
                /\ i \in DOMAIN es
                /\ fs[i].id = es[i].id
                /\ fs[i].writes = IF i = p THEN <<>> ELSE es[i].writes
  BY <1>3 DEF KeepsFirst
<1>5. IsSeq(es) /\ IsSeq(fs)  BY <1>3 DEF StoredIn, Entries
<1>6. PICK old, new : old = Seen(es) /\ new = Seen(fs)  OBVIOUS
<1>7. /\ IsSeq(old) /\ DOMAIN old = DOMAIN es /\ Len(old) = Len(es)
      /\ DOMAIN es = 1..Len(es) /\ Len(es) \in Nat
      /\ \A k \in DOMAIN es : old[k] =
            [id |-> es[k].id, msgs |-> cpPut[es[k].id], writes |-> es[k].writes]
  BY <1>5, <1>6, SeenSeq
<1>8. /\ IsSeq(new) /\ DOMAIN new = 1..p
      /\ \A k \in 1..p : new[k] =
            [id |-> fs[k].id, msgs |-> cpPut[fs[k].id], writes |-> fs[k].writes]
  BY <1>4, <1>5, <1>6, SeenSeq
<1>9. p \in Nat /\ p \in 1..p /\ p \in 1..Len(old) - 1  BY <1>7
<1>10. PICK h : h = SubSeq(old, 1, p)  OBVIOUS
<1>11. IsSeq(h) /\ DOMAIN h = 1..p /\ \A k \in 1..p : h[k] = old[k]
  <2>1. PICK S : old \in Seq(S)  BY <1>7 DEF IsSeq
  <2>2. \A i \in 1..p : old[i] \in S  BY <1>9, <2>1
  <2>3. p - 1 + 1 = p /\ 1 \in Int /\ p \in Int /\ 1 <= p /\ \A i \in 1..p : 1 + i - 1 = i  BY <1>9
  <2>4. h \in Seq(S) /\ Len(h) = p /\ \A i \in 1..p : h[i] = old[i]
    BY <1>10, <2>2, <2>3, SubSeqProperties
  <2> QED  BY <2>4 DEF IsSeq
<1>12. PICK g : Rewrites(g, h, p, <<>>)  BY DEF Rewrites
<1>13. /\ IsSeq(g) /\ DOMAIN g = DOMAIN h
       /\ \A i \in DOMAIN h :
            g[i] = IF i = p THEN [id |-> h[p].id, msgs |-> h[p].msgs, writes |-> <<>>] ELSE h[i]
  <2>1. PICK ws : ws = <<>>  OBVIOUS
  <2>2. Rewrites(g, h, p, ws)  BY <1>12, <2>1
  <2>3. h[p] = [id |-> h[p].id, msgs |-> h[p].msgs, writes |-> h[p].writes] /\ p \in DOMAIN h
    <3>1. p \in DOMAIN es /\ h[p] = old[p]  BY <1>4, <1>9, <1>11
    <3> QED  BY <1>7, <1>9, <1>11, <3>1
  <2>4. IsSeq(h)  BY <1>11
  <2>5. /\ IsSeq(g) /\ DOMAIN g = DOMAIN h
        /\ \A i \in DOMAIN h :
             g[i] = IF i = p THEN [id |-> h[p].id, msgs |-> h[p].msgs, writes |-> ws] ELSE h[i]
    BY <2>2, <2>3, <2>4, SeenRewritten
  <2> QED  BY <2>1, <2>5
<1>14. new = g
  <2>1. ASSUME NEW k \in DOMAIN new  PROVE new[k] = g[k]
    <3>1. k \in 1..p /\ k \in DOMAIN es /\ h[k] = old[k]  BY <1>4, <1>8, <1>11, <2>1
    <3>2. /\ new[k] = [id |-> fs[k].id, msgs |-> cpPut[fs[k].id], writes |-> fs[k].writes]
          /\ old[k] = [id |-> es[k].id, msgs |-> cpPut[es[k].id], writes |-> es[k].writes]
          /\ fs[k].id = es[k].id /\ fs[k].writes = IF k = p THEN <<>> ELSE es[k].writes
      BY <1>4, <1>7, <1>8, <3>1
    <3>3. g[k] = IF k = p THEN [id |-> h[k].id, msgs |-> h[k].msgs, writes |-> <<>>] ELSE h[k]
      BY <1>11, <1>13, <3>1
    <3>4. CASE k = p
      <4>1. h[k].id = es[k].id /\ h[k].msgs = cpPut[es[k].id]  BY <3>1, <3>2
      <4> QED  BY <3>2, <3>3, <3>4, <4>1
    <3>5. CASE k # p  BY <3>1, <3>2, <3>3, <3>5
    <3> QED  BY <3>4, <3>5
  <2> QED  BY <1>8, <1>11, <1>13, <2>1, SeqSame
<1>15. new = [SubSeq(old, 1, p) EXCEPT ![p].writes = <<>>]
  BY <1>10, <1>12, <1>14 DEF Rewrites
<1>16. CpPromised!Rewind(old, new)  BY <1>9, <1>15 DEF CpPromised!Rewind
<1> QED  BY <1>1, <1>6, <1>16

\* A session opens as a history does.
LEMMA InitRefines == "bare" \notin CpTears /\ CpInit => CpPromised!Init
<1> SUFFICES ASSUME "bare" \notin CpTears, CpInit  PROVE CpPromised!Init  OBVIOUS
<1>1. Inv /\ Stored  BY InitInv, InitStored
<1>2. PICK es : es = CpFold(CpFile)  OBVIOUS
<1>3. CpView = Seen(es)  BY <1>1, <1>2, ViewIs
<1>4. Entries(es) /\ AllPut(es)  BY <1>1, <1>2, EntriesPut DEF Stored, StoredIn
<1>5. /\ DOMAIN es = 1..Len(es) /\ Len(es) \in Nat  BY <1>4, SeqFun DEF Entries
<1>6. ASSUME NEW k \in DOMAIN es
      PROVE  [id |-> es[k].id, msgs |-> cpPut[es[k].id], writes |-> es[k].writes] \in CpPromised!Entry
  <2>1. es[k].id \in CpIds /\ es[k].writes \in Seq(CpKinds)  BY <1>4 DEF Entries
  <2>2. cpPut[es[k].id] \in CpCommitted  BY <1>1, <1>4, <2>1 DEF AllPut, Stored, Puts
  <2> QED  BY <2>1, <2>2 DEF CpPromised!Entry
<1>7. Seen(es) \in Seq(CpPromised!Entry)
  <2>1. Seen(es) \in [1..Len(es) -> CpPromised!Entry]  BY <1>5, <1>6 DEF Seen
  <2> QED  BY <1>5, <2>1
<1> QED  BY <1>3, <1>7 DEF CpPromised!Init

\* Steps that leave the file alone are not seen.
LEMMA SeenStill ==
    ASSUME Inv, Inv', Stored, Stored', PutsGrow, CpFile' = CpFile
    PROVE  CpView' = CpView
<1>1. PICK es : es = CpFold(CpFile)  OBVIOUS
<1>2. CpView = Seen(es)  BY <1>1, ViewIs
<1>3. (Inv /\ Stored => CpView = Seen(CpFold(CpFile)))'  BY ViewIs, PTL
<1>4. CpView' = Seen(CpFold(CpFile))'  BY <1>3
<1>5. CpFold(CpFile)' = es  BY <1>1
<1>6. Entries(es) /\ AllPut(es)  BY <1>1, EntriesPut DEF Stored, StoredIn
<1>7. \A k \in DOMAIN es : cpPut'[es[k].id] = cpPut[es[k].id]
  BY <1>6 DEF Entries, AllPut, PutsGrow
<1>8. Seen(CpFold(CpFile))' = Seen(es)  BY <1>5, <1>7 DEF Seen
<1> QED  BY <1>2, <1>4, <1>8

\* Every step is a step of the history or none at all.
LEMMA NextRefines ==
    Inv /\ Inv' /\ Stored /\ Stored' /\ [CpNext]_cpVars => [CpPromised!Next]_CpView
<1> SUFFICES ASSUME Inv, Inv', Stored, Stored', [CpNext]_cpVars
             PROVE  CpPromised!Next \/ CpView' = CpView
  OBVIOUS
<1>1. ASSUME NEW w \in CpWriters, CpPutRead(w)  PROVE CpView' = CpView
  <2>1. CpFile' = CpFile  BY <1>1 DEF CpPutRead, CpFile
  <2>2. PutsGrow
    <3>1. cpPut = [i \in CpIds |-> cpPut[i]]  BY DEF Stored, Puts
    <3> QED  BY <1>1, <3>1 DEF CpPutRead, PutsGrow
  <2> QED  BY <2>1, <2>2, SeenStill
<1>2. ASSUME NEW w \in CpWriters, CpWritesReady(w) \/ CpTruncateRead(w) \/ CpMigrate(w) \/ CpTear(w)
      PROVE  CpView' = CpView
  <2>1. UNCHANGED cpPut  BY <1>2 DEF CpWritesReady, CpTruncateRead, CpMigrate, CpTear
  <2>2. PutsGrow  BY <2>1 DEF PutsGrow
  <2>3. CpFile' = CpFile
    <3>1. CASE CpWritesReady(w) \/ CpTruncateRead(w) \/ CpMigrate(w)
      BY <3>1 DEF CpWritesReady, CpTruncateRead, CpMigrate, CpFile
    <3>2. CASE CpTear(w)
      BY <3>2 DEF CpTear, CpAppending, CpRepaired, CpFile, Inv, FilesOK
    <3> QED  BY <1>2, <3>1, <3>2
  <2> QED  BY <2>2, <2>3, SeenStill
<1>3. ASSUME CpCrash \/ UNCHANGED cpVars  PROVE CpView' = CpView
  <2>1. CpFile' = CpFile /\ UNCHANGED cpPut  BY <1>3 DEF CpCrash, cpVars, CpFile
  <2>2. PutsGrow  BY <2>1 DEF PutsGrow
  <2> QED  BY <2>1, <2>2, SeenStill
<1>4. ASSUME NEW w \in CpWriters, CpCommit(w)  PROVE CpPromised!Next \/ CpView' = CpView
  <2>1. /\ CpFile' = Append(CpFile, cpOp[w].line)
        /\ IsSeq(CpFile)
        /\ \/ Adds(CpFile, cpOp[w].line)
           \/ Attaches(cpOp[w].line)
           \/ CutsBack(CpFile, cpOp[w].line)
    BY <1>4, CommitAppends
  <2>2. PICK s, es, e : s = CpFile /\ es = CpFold(CpFile) /\ e = cpOp[w].line  OBVIOUS
  <2>3. StoredIn(s, es)  BY <2>2 DEF Stored
  <2>4. PICK fs : fs = CpFoldLine(es, e)  OBVIOUS
  <2>5. CpFold(CpFile)' = fs
    <3>1. CpFold(Append(s, e)) = fs  BY <2>1, <2>2, <2>4, FoldAppend
    <3>2. Append(s, e) = CpFile'  BY <2>1, <2>2
    <3> QED  BY <3>1, <3>2
  <2>6. CpView = Seen(es)  BY <2>2, ViewIs
  <2>7. CpView' = Seen(fs)
    <3>1. (Inv /\ Stored => CpView = Seen(CpFold(CpFile)))'  BY ViewIs, PTL
    <3>2. CpView' = Seen(CpFold(CpFile))'  BY <3>1
    <3>3. cpPut' = cpPut  BY <1>4 DEF CpCommit
    <3>4. Seen(CpFold(CpFile))' = Seen(fs)  BY <2>5, <3>3 DEF Seen
    <3> QED  BY <3>2, <3>4
  <2>8. \/ CpPromised!Put(Seen(es), Seen(fs))
        \/ CpPromised!Attach(Seen(es), Seen(fs)) \/ Seen(fs) = Seen(es)
        \/ CpPromised!Rewind(Seen(es), Seen(fs))
    BY <2>1, <2>2, <2>3, <2>4, SeenPut, SeenAttach, SeenRewind
  <2>9. CASE Seen(fs) = Seen(es)  BY <2>6, <2>7, <2>9
  <2>10. CASE \/ CpPromised!Put(Seen(es), Seen(fs)) \/ CpPromised!Attach(Seen(es), Seen(fs))
              \/ CpPromised!Rewind(Seen(es), Seen(fs))
    BY <2>6, <2>7, <2>10 DEF CpPromised!Next
  <2> QED  BY <2>8, <2>9, <2>10
<1> QED  BY <1>1, <1>2, <1>3, <1>4 DEF CpNext

\* The invariant of both parts.
LEMMA AlwaysStored == "bare" \notin CpTears => (CpSpec => [](Inv /\ Stored))
<1> SUFFICES ASSUME "bare" \notin CpTears  PROVE CpSpec => [](Inv /\ Stored)  OBVIOUS
<1>1. CpInit => Inv /\ Stored  BY InitInv, InitStored
<1>2. Inv /\ Stored /\ [CpNext]_cpVars => (Inv /\ Stored)'
  <2> SUFFICES ASSUME Inv, Stored, [CpNext]_cpVars  PROVE Inv' /\ Stored'  OBVIOUS
  <2>1. Inv'  BY NextInv
  <2> QED  BY <2>1, NextStored
<1> QED  BY <1>1, <1>2, PTL DEF CpSpec

\* Whatever is appended, cut off, torn or migrated, and however the commits
\* interleave, _reconstruct_checkpoint rebuilds every stored checkpoint into the
\* messages it was put with, and _read_log stores the live lines, in order.
THEOREM AlwaysExact == "bare" \notin CpTears => (CpSpec => []CpExact)
BY AlwaysStored, StoredExact, PTL

\* clone_checkpoint at any moment gives a log whose readers see what the
\* source's readers see, the writes of an interrupted superstep included.
THEOREM AlwaysForkSame == "bare" \notin CpTears => (CpSpec => []CpForkSame)
BY AlwaysStored, StoredForks, PTL

\* The log implements the history: every step of a writer, a crash, a repair or
\* the migration shows a reader one Put, one Attach, one Rewind, or nothing.
THEOREM KeepsPromise == "bare" \notin CpTears => (CpSpec => CpKeepsPromise)
<1> SUFFICES ASSUME "bare" \notin CpTears  PROVE CpSpec => CpKeepsPromise  OBVIOUS
<1>1. CpSpec => [](Inv /\ Stored)  BY AlwaysStored
<1>2. CpInit => CpPromised!Init  BY InitRefines
<1>3. Inv /\ Inv' /\ Stored /\ Stored' /\ [CpNext]_cpVars => [CpPromised!Next]_CpView
  BY NextRefines
<1> QED  BY <1>1, <1>2, <1>3, PTL DEF CpSpec, CpKeepsPromise, CpPromised!Spec
=============================================================================
