------------------------------- MODULE IdList -------------------------------
(***************************************************************************)
(* What the list of thread ids is for: a sequence of ids that grows and    *)
(* shrinks at both ends.                                                   *)
(***************************************************************************)
EXTENDS Integers, Sequences

CONSTANTS Ids, NoId

VARIABLES
  ids,      \* the ids, from head to tail
  result    \* what the last call returned

Init == ids = <<>> /\ result = NoId

\* An insertion may fail for lack of memory and then changes nothing.
Insert(id) ==
  /\ ids' \in {<<id>> \o ids, Append(ids, id), ids}
  /\ result' = NoId

RemoveHead ==
  /\ ids # <<>>
  /\ ids' = Tail(ids)
  /\ result' = Head(ids)

RemoveTail ==
  /\ ids # <<>>
  /\ ids' = SubSeq(ids, 1, Len(ids) - 1)
  /\ result' = ids[Len(ids)]

\* Looking at the first or last id, or replacing it.
Look(k) ==
  /\ result' = ids[k]
  /\ UNCHANGED ids

Replace(k, id) ==
  /\ ids' = [ids EXCEPT ![k] = id]
  /\ result' = NoId

Next ==
  \/ RemoveHead \/ RemoveTail
  \/ \E id \in Ids : Insert(id)
  \/ \E k \in {1, Len(ids)} \cap DOMAIN ids :
       Look(k) \/ \E id \in Ids : Replace(k, id)

Spec == Init /\ [][Next]_<<ids, result>>
=============================================================================
