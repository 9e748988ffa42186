------------------------- MODULE CheckpointHistory -------------------------
(***************************************************************************)
(* What a reader of a session's checkpoints is promised: a list of         *)
(* checkpoints, each with the message history it was put with and the      *)
(* writes of the superstep that started from it.  Putting one adds it at   *)
(* the end, rewinding cuts the list after one and forgets that one's       *)
(* writes.  Nothing else changes the list: not a crash in the middle of a  *)
(* commit, not the repair of what the crash left, not the move of an old   *)
(* document into the log.                                                  *)
(***************************************************************************)
EXTENDS Naturals, Sequences

CONSTANTS Ids, Histories, Kinds

VARIABLE history    \* sequence of [id, msgs, writes]

Entry == [id : Ids, msgs : Histories, writes : Seq(Kinds)]

Init == history \in Seq(Entry)

\* Where the writes of checkpoint id belong: to it, or to the head if it is
\* not known.
Owner(old, id) ==
    LET at == {k \in DOMAIN old : old[k].id = id} IN
    IF at = {} THEN Len(old) ELSE CHOOSE k \in at : TRUE

Put(old, new) == \E msgs \in Histories, id \in Ids :
    /\ \A k \in DOMAIN old : old[k].id # id
    /\ new = Append(old, [id |-> id, msgs |-> msgs, writes |-> <<>>])

Attach(old, new) == \E id \in Ids, kind \in Kinds :
    /\ old # <<>>
    /\ new = [old EXCEPT ![Owner(old, id)].writes = Append(@, kind)]

Rewind(old, new) == \E k \in 1..Len(old) - 1 :
    new = [SubSeq(old, 1, k) EXCEPT ![k].writes = <<>>]

Next == \E old \in {history}, new \in {history'} :
            Put(old, new) \/ Attach(old, new) \/ Rewind(old, new)

Spec == Init /\ [][Next]_history
=============================================================================
