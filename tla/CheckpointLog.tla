--------------------------- MODULE CheckpointLog ---------------------------
(***************************************************************************)
(* FileCheckpointer (checkpointer.py): one append-only log per session.    *)
(*                                                                         *)
(* A commit is computed from what the file says (cpOp holds it while the   *)
(* writer waits for the path lock) and appended in one write.  A crash     *)
(* during that write leaves a last line without its end of line: the next  *)
(* commit cuts it off, a reader skips it when it does not parse.  A line   *)
(* of which only the end of line is missing does parse: cpTorn tells the   *)
(* two apart.                                                              *)
(*                                                                         *)
(* A checkpoint is stored whole or as what it appends to the messages of   *)
(* its base.  The header line, metadata, channels other than messages and  *)
(* the serialisation are left out.  Checkpoint ids are fresh (uuid6).      *)
(***************************************************************************)
EXTENDS Naturals, Sequences, FiniteSets
LOCAL INSTANCE Functions

CONSTANTS
    CpWriters,      \* the commits that may be in flight at a time
    CpIds,          \* checkpoint ids
    CpNone,         \* no checkpoint id
    CpHistories,    \* message histories a turn may commit
    CpKinds,        \* what a superstep writes: an interrupt or an update
    CpDocument,     \* the v1 document, or the clone, a session starts from
    CpTears,        \* what a crash may leave of a line: "partial", "bare"
    CpBound         \* lines of the log (the bound)

ASSUME CpTearsAssumption == CpTears \subseteq {"partial", "bare"}
ASSUME CpNoneAssumption == CpNone \notin CpIds
\* The document holds whole checkpoints (v1 entries, or a clone's anchors),
\* each with an id of its own.
ASSUME CpDocumentAssumption ==
    /\ CpDocument \in Seq(Range(CpDocument))
    /\ \A k \in DOMAIN CpDocument :
        /\ CpDocument[k].op = "cp" /\ CpDocument[k].base = CpNone
        /\ CpDocument[k].id \in CpIds /\ CpDocument[k].writes \in Seq(CpKinds)
    /\ \A j, k \in DOMAIN CpDocument : CpDocument[j].id = CpDocument[k].id => j = k

VARIABLES
    cpLog,      \* the lines of the log that end in an end of line
    cpExists,   \* the log file exists
    cpLegacy,   \* the entries of the v1 document, none if there is no file
    cpTorn,     \* the last line, if its end of line is missing
    cpOp,       \* writer -> the commit it is about to append
    cpPut       \* history: id -> the messages it was put with

cpVars == <<cpLog, cpExists, cpLegacy, cpTorn, cpOp, cpPut>>

CpIdle == [stage |-> "idle"]
CpWhole == [kind |-> "whole"]
CpUnput == <<CpNone>>

\* Every history committed, the document's included.
CpCommitted == CpHistories \cup {CpDocument[k].msgs : k \in DOMAIN CpDocument}

\* A history is a sequence of messages, and CpNone is not a message.
ASSUME CpHistoriesAssumption ==
    \A h \in CpCommitted : h \in Seq(Range(h)) /\ h # CpUnput

\* One line of each kind.  A full checkpoint has no base.
CpLine(id, base, msgs) ==
    [op |-> "cp", id |-> id, base |-> base, msgs |-> msgs, writes |-> <<>>]
CpWritesLine(id, kind) ==
    [op |-> "writes", id |-> id, base |-> CpNone, msgs |-> <<>>, writes |-> <<kind>>]
CpTruncateLine(id) ==
    [op |-> "truncate", id |-> id, base |-> CpNone, msgs |-> <<>>, writes |-> <<>>]
-----------------------------------------------------------------------------
(* Reading.                                                                *)

\* existing_checkpoint_path: the log if there is one, else the v1 document.
CpFile == IF cpExists THEN cpLog ELSE cpLegacy

\* The lines a reader gets: a torn last line that parses is one of them.
CpLines == IF cpTorn.kind = "bare" THEN Append(CpFile, cpTorn.line) ELSE CpFile

\* Line k is a checkpoint that no later truncate has cut off.
CpLive(lines, k) ==
    /\ lines[k].op = "cp"
    /\ \A t \in k+1..Len(lines) :
        lines[t].op = "truncate" =>
            \E j \in k..t-1 : lines[j].op = "cp" /\ lines[j].id = lines[t].id

CpLiveIds(lines) == {lines[k].id : k \in {j \in DOMAIN lines : CpLive(lines, j)}}

\* The head, if anything is stored.
CpHead(lines) ==
    {lines[k].id : k \in {i \in DOMAIN lines :
        CpLive(lines, i) /\ \A j \in i+1..Len(lines) : ~CpLive(lines, j)}}

\* The element of a singleton.  TLC evaluates a bound variable once, which a
\* fold that mentions its last result several times relies on.
CpOnly(S) == CHOOSE x \in S : TRUE

CpEntry(line) == [id |-> line.id, base |-> line.base, msgs |-> line.msgs, writes |-> line.writes]

CpIndex(entries, id) == {j \in DOMAIN entries : entries[j].id = id}

\* mutant: a rewind keeps one entry too many
CpFoldLineLong(entries, line) ==
    LET at == CpIndex(entries, line.id) IN
    CASE line.op = "cp" -> Append(entries, CpEntry(line))
      [] line.op = "writes" ->
            IF entries = <<>> THEN entries
            ELSE LET owner == IF at = {} THEN Len(entries) ELSE CpOnly(at)
                 IN  [entries EXCEPT ![owner].writes = @ \o line.writes]
      [] line.op = "truncate" ->
            IF at = {} THEN entries
            ELSE SubSeq(entries, 1, CpOnly(at) + 1)

\* _read_log, line by line, as the code folds it.
CpFoldLine(entries, line) ==
    LET at == CpIndex(entries, line.id) IN
    CASE line.op = "cp" -> Append(entries, CpEntry(line))
      [] line.op = "writes" ->
            IF entries = <<>> THEN entries
            ELSE LET owner == IF at = {} THEN Len(entries) ELSE CpOnly(at)
                 IN  [entries EXCEPT ![owner].writes = @ \o line.writes]
      [] line.op = "truncate" ->
            IF at = {} THEN entries
            ELSE [SubSeq(entries, 1, CpOnly(at)) EXCEPT ![CpOnly(at)].writes = <<>>]

CpFold(lines) ==
    LET upTo[n \in 0..Len(lines)] ==
            IF n = 0 THEN <<>>
            ELSE CpOnly({CpFoldLine(before, lines[n]) : before \in {upTo[n-1]}})
    IN  upTo[Len(lines)]

CpEntries == CpFold(CpLines)

\* _reconstruct_checkpoint: the messages of every entry, along its chain of
\* bases to a full one.  CpUnput stands for the ValueError of a broken chain.
CpRebuilt(entries) ==
    LET msgs[k \in DOMAIN entries] ==
            IF entries[k].base = CpNone THEN entries[k].msgs
            ELSE LET at == {j \in CpIndex(entries, entries[k].base) : j < k}
                 IN  IF at = {} THEN CpUnput
                     ELSE CpOnly({IF base = CpUnput THEN CpUnput ELSE base \o entries[k].msgs :
                                    base \in {msgs[CpOnly(at)]}})
    IN  msgs

CpMessages(id) ==
    LET entries == CpEntries
        at == CpIndex(entries, id)
    IN  IF at = {} THEN CpUnput ELSE CpRebuilt(entries)[CpOnly(at)]

IsExtension(old, new) ==
    Len(old) <= Len(new) /\ SubSeq(new, 1, Len(old)) = old

\* mutant: the parent's messages are not compared
CpEncodeBlind(id, parent, msgs) ==
    LET old == IF parent = CpNone THEN CpUnput ELSE CpMessages(parent) IN
    IF old # CpUnput THEN CpLine(id, parent, SubSeq(msgs, Len(old) + 1, Len(msgs)))
    ELSE CpLine(id, CpNone, msgs)

\* _try_messages_delta: what is appended to the parent's messages, or all of them.
CpEncode(id, parent, msgs) ==
    LET old == IF parent = CpNone THEN CpUnput ELSE CpMessages(parent) IN
    IF old # CpUnput /\ IsExtension(old, msgs)
    THEN CpLine(id, parent, SubSeq(msgs, Len(old) + 1, Len(msgs)))
    ELSE CpLine(id, CpNone, msgs)

\* mutant: the fork loses the writes of its entries
CpClonedBare(lines) ==
    LET entries == CpFold(lines) IN
    [k \in DOMAIN entries |-> CpLine(entries[k].id, entries[k].base, entries[k].msgs)]

\* clone_checkpoint: a fork starts from the folded entries, one line each.
CpCloned(lines) ==
    LET entries == CpFold(lines) IN
    [k \in DOMAIN entries |->
        [op |-> "cp", id |-> entries[k].id, base |-> entries[k].base,
         msgs |-> entries[k].msgs, writes |-> entries[k].writes]]
-----------------------------------------------------------------------------
CpInit ==
    /\ cpLegacy \in {<<>>, CpDocument}
    /\ cpLog = <<>> /\ cpExists = FALSE /\ cpTorn = CpWhole
    /\ cpOp = [w \in CpWriters |-> CpIdle]
    /\ cpPut = [id \in CpIds |->
                    IF cpLegacy # <<>> /\ \E k \in DOMAIN CpDocument : CpDocument[k].id = id
                    THEN CpDocument[CHOOSE k \in DOMAIN CpDocument : CpDocument[k].id = id].msgs
                    ELSE CpUnput]

CpIdleWriter(w) == cpOp[w] = CpIdle
\* truncate_to is called on a fresh clone, before its run is streamed.
CpRewinding == \E w \in CpWriters : cpOp[w] # CpIdle /\ cpOp[w].line.op = "truncate"
\* _path_lock: held from the migration to the end of the append.
CpUnlocked(w) == \A v \in CpWriters \ {w} : cpOp[v].stage # "migrated"

\* put: the entry is computed from the file before the path lock is taken.
CpPutRead(w) ==
    /\ CpIdleWriter(w) /\ ~CpRewinding
    /\ \E id \in CpIds, msgs \in CpHistories :
        /\ cpPut[id] = CpUnput
        /\ \E parent \in IF CpLiveIds(CpLines) = {} THEN {CpNone} ELSE CpLiveIds(CpLines) :
            cpOp' = [cpOp EXCEPT ![w] = [stage |-> "ready", line |-> CpEncode(id, parent, msgs)]]
        /\ cpPut' = [cpPut EXCEPT ![id] = msgs]
    /\ UNCHANGED <<cpLog, cpExists, cpLegacy, cpTorn>>

\* put_writes: appends what a superstep wrote, for a checkpoint that is
\* stored or on its way (LangGraph drives the two concurrently).
CpInFlight == {cpOp[w].line.id : w \in {v \in CpWriters : ~CpIdleWriter(v)}}

CpWritesReady(w) ==
    /\ CpIdleWriter(w) /\ ~CpRewinding
    /\ \E id \in CpLiveIds(CpLines) \cup CpInFlight, kind \in CpKinds :
        cpOp' = [cpOp EXCEPT ![w] = [stage |-> "ready", line |-> CpWritesLine(id, kind)]]
    /\ UNCHANGED <<cpLog, cpExists, cpLegacy, cpTorn, cpPut>>

\* truncate_to: nothing for an unknown id or the head.
CpTruncateRead(w) ==
    /\ \A v \in CpWriters : CpIdleWriter(v)
    /\ \E id \in CpLiveIds(CpLines) \ CpHead(CpLines) :
        cpOp' = [cpOp EXCEPT ![w] = [stage |-> "ready", line |-> CpTruncateLine(id)]]
    /\ UNCHANGED <<cpLog, cpExists, cpLegacy, cpTorn, cpPut>>

\* _append with a v1 document and no log: the log replaces it first.
CpMigrate(w) ==
    /\ cpOp[w].stage = "ready" /\ CpUnlocked(w)
    /\ ~cpExists /\ cpLegacy # <<>>
    /\ cpLog' = cpLegacy /\ cpExists' = TRUE
    /\ cpOp' = [cpOp EXCEPT ![w] = [stage |-> "migrated", line |-> cpOp[w].line]]
    /\ UNCHANGED <<cpLegacy, cpTorn, cpPut>>

\* _append: what may be left of the v1 document is unlinked, a torn last
\* line is cut off, the line is written.
CpAppending(w) ==
    /\ cpOp[w].stage \in {"ready", "migrated"} /\ CpUnlocked(w)
    /\ cpExists \/ cpLegacy = <<>>
    /\ Len(cpLog) < CpBound
    /\ cpExists' = TRUE
    /\ cpLegacy' = IF cpOp[w].stage = "migrated" THEN <<>> ELSE cpLegacy

\* mutant: the repair looks for the end of line before the torn one
CpRepairedTwice ==
    IF cpTorn # CpWhole /\ cpLog # <<>> THEN SubSeq(cpLog, 1, Len(cpLog) - 1) ELSE cpLog

\* _repair_tail leaves the whole lines.
CpRepaired == cpLog

CpCommit(w) ==
    /\ CpAppending(w)
    /\ cpLog' = Append(CpRepaired, cpOp[w].line)
    /\ cpTorn' = CpWhole
    /\ cpOp' = [cpOp EXCEPT ![w] = CpIdle]
    /\ UNCHANGED cpPut

\* The process dies while the line is being written.
CpTear(w) ==
    /\ CpAppending(w)
    /\ cpLog' = CpRepaired
    /\ \E kind \in CpTears : cpTorn' = [kind |-> kind, line |-> cpOp[w].line]
    /\ cpOp' = [v \in CpWriters |-> CpIdle]
    /\ UNCHANGED cpPut

\* The process dies between two steps of a commit.
CpCrash ==
    /\ \E w \in CpWriters : ~CpIdleWriter(w)
    /\ cpOp' = [w \in CpWriters |-> CpIdle]
    /\ UNCHANGED <<cpLog, cpExists, cpLegacy, cpTorn, cpPut>>

CpNext ==
    \/ \E w \in CpWriters :
        \/ CpPutRead(w) \/ CpWritesReady(w) \/ CpTruncateRead(w)
        \/ CpMigrate(w) \/ CpCommit(w) \/ CpTear(w)
    \/ CpCrash

CpSpec == CpInit /\ [][CpNext]_cpVars
-----------------------------------------------------------------------------
\* Every stored checkpoint that says only what it appends has its base among
\* the stored ones, before it: _reconstruct_checkpoint neither raises for a
\* missing base nor meets a cycle.
CpAnchored ==
    \A k \in DOMAIN CpLines :
        CpLive(CpLines, k) /\ CpLines[k].base # CpNone =>
            \E j \in 1..k-1 : CpLive(CpLines, j) /\ CpLines[j].id = CpLines[k].base

\* Every stored checkpoint is rebuilt into the messages it was put with,
\* whatever was appended, cut off or torn around it; and the line by line fold
\* of _read_log stores what the rule CpLive, by which CpAnchored is stated, says.
CpExact ==
    LET entries == CpEntries
        messages == CpRebuilt(entries)
    IN  /\ \A k \in DOMAIN entries : messages[k] = cpPut[entries[k].id]
        /\ {entries[k].id : k \in DOMAIN entries} = CpLiveIds(CpLines)
        /\ entries # <<>> => CpHead(CpLines) = {entries[Len(entries)].id}

\* A fork (retry, rerun) starts from exactly what readers of its source see,
\* the writes of an interrupted superstep included.
CpForkSame == CpFold(CpCloned(CpLines)) = CpEntries

\* Readers see a CheckpointHistory: a commit adds to it at one instant, and
\* neither a crash nor what repairs it nor the migration shows.
CpViewOf(entries) ==
    [k \in DOMAIN entries |->
        [id |-> entries[k].id, msgs |-> CpRebuilt(entries)[k], writes |-> entries[k].writes]]
CpView == CpOnly({CpViewOf(entries) : entries \in {CpEntries}})

CpPromised == INSTANCE CheckpointHistory WITH
    Ids <- CpIds, Kinds <- CpKinds,
    Histories <- CpCommitted, history <- CpView
CpKeepsPromise == CpPromised!Spec
=============================================================================
