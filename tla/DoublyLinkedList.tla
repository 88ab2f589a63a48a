-------------------------- MODULE DoublyLinkedList --------------------------
(***************************************************************************)
(* The doubly linked list of thread ids (server/src/doubly_linked_list.c,  *)
(* node.c) and the queue made of it (queue.c), at the level of nodes and   *)
(* links.  The server uses it from its main thread only, so a call is one  *)
(* step.                                                                   *)
(*                                                                         *)
(* Callers respect the assertion at the head of the function they call     *)
(* (the guards below); an assertion of a helper that fails aborts the      *)
(* process, and so does following a NULL pointer.                          *)
(***************************************************************************)
EXTENDS Integers, FiniteSets, Sequences

CONSTANTS
  Nodes,         \* the addresses malloc may return
  NULL,
  Ids,           \* thread ids
  NoId           \* what a call without a result leaves

\* What the constants are (assumed where they get their values).
ListConstants ==
  IsFiniteSet(Nodes) /\ NULL \notin Nodes /\ NoId \notin Ids

VARIABLES
  head, tail, size,      \* struct doubly_linked_list
  next, prev, tid,       \* struct node of each address
  live,                  \* the addresses allocated
  result,                \* what the last call returned
  stopped                \* "no", or why the process died in the last call

links == <<head, tail, size, next, prev>>
vars == <<links, tid, live, result, stopped>>

\* doubly_linked_list_initialize.  The fields of a node not allocated are NULL
\* (the code clears a new node).
Init ==
  /\ head = NULL /\ tail = NULL /\ size = 0
  /\ next = [n \in Nodes |-> NULL] /\ prev = [n \in Nodes |-> NULL]
  /\ tid = [n \in Nodes |-> NoId]
  /\ live = {}
  /\ result = NoId /\ stopped = "no"

Usable == stopped = "no"

-----------------------------------------------------------------------------
(* Finding a node *)

\* The node reached from the head by following a link the given number of
\* times; NULL stands for the crash on the way.
Follow(link, steps) ==
  LET node[i \in 0 .. steps] ==
        IF i = 0 THEN head
        ELSE IF node[i - 1] = NULL THEN NULL ELSE link[node[i - 1]]
  IN  node[steps]

\* doubly_linked_list_get_node.  (get_node_from_tail also starts at the head.)
NodeAt(pos) ==
  IF pos = 0 THEN head
  ELSE IF pos < size \div 2 THEN Follow(next, pos)
  ELSE Follow(prev, size - 1 - pos)

Abort(why) ==
  /\ stopped' = why
  /\ UNCHANGED <<links, tid, live, result>>

-----------------------------------------------------------------------------
(* Insertion *)

\* Mutant: the old head does not learn of its predecessor.
LinkAtHeadOneWay(n) ==
  /\ next' = [next EXCEPT ![n] = head]
  /\ prev' = [prev EXCEPT ![n] = NULL]
  /\ head' = n
  /\ UNCHANGED tail

LinkAtHead(n) ==
  /\ next' = [next EXCEPT ![n] = head]
  /\ prev' = [prev EXCEPT ![n] = NULL, ![head] = n]
  /\ head' = n
  /\ UNCHANGED tail

LinkAtTail(n) ==
  /\ prev' = [prev EXCEPT ![n] = tail]
  /\ next' = [next EXCEPT ![n] = NULL, ![tail] = n]
  /\ tail' = n
  /\ UNCHANGED head

LinkAlone(n) ==
  /\ next' = [next EXCEPT ![n] = NULL]
  /\ prev' = [prev EXCEPT ![n] = NULL]
  /\ head' = n /\ tail' = n

LinkBefore(n, successor) ==
  /\ prev' = [prev EXCEPT ![n] = prev[successor], ![successor] = n]
  /\ next' = [next EXCEPT ![n] = successor, ![prev[successor]] = n]
  /\ UNCHANGED <<head, tail>>

\* A new node for id, linked by one of the functions above.
Insert(id, Link(_)) ==
  /\ Usable
  /\ \E n \in Nodes \ live :
       /\ live' = live \cup {n}
       /\ tid' = [tid EXCEPT ![n] = id]
       /\ size' = size + 1
       /\ IF size = 0 THEN LinkAlone(n) ELSE Link(n)
  /\ result' = NoId
  /\ UNCHANGED stopped

\* Any of the insertions, when malloc fails.
InsertFails ==
  /\ Usable
  /\ result' = NoId
  /\ UNCHANGED <<links, tid, live, stopped>>

\* doubly_linked_list_insert_head (queue_enqueue), insert_tail
InsertHead(id) == Insert(id, LinkAtHead)
InsertTail(id) == Insert(id, LinkAtTail)

\* doubly_linked_list_insert between two nodes.  At the head and at the tail it
\* does what InsertHead and InsertTail do.
InsertAt(pos, id) ==
  /\ Usable
  /\ pos \in 1 .. size - 1
  /\ LET successor == NodeAt(pos)
     IN  IF successor = NULL \/ prev[successor] = NULL
         THEN Nodes # live /\ Abort("NULL")
         ELSE Insert(id, LAMBDA n : LinkBefore(n, successor))

-----------------------------------------------------------------------------
(* Removal *)

\* The node n is destroyed, and the links of its neighbours are now those of
\* the two functions given.
Destroy(n, nexts, prevs) ==
  /\ result' = tid[n]
  /\ live' = live \ {n}
  /\ next' = [nexts EXCEPT ![n] = NULL]
  /\ prev' = [prevs EXCEPT ![n] = NULL]
  /\ tid' = [tid EXCEPT ![n] = NoId]
  /\ size' = size - 1
  /\ UNCHANGED stopped

RemoveLast ==
  /\ Destroy(head, next, prev)
  /\ head' = NULL /\ tail' = NULL

UnlinkHead ==
  /\ Destroy(head, next, [prev EXCEPT ![next[head]] = NULL])
  /\ head' = next[head]
  /\ UNCHANGED tail

\* Mutant: the new tail still points to the freed node.
UnlinkTailDangling ==
  /\ Destroy(tail, next, prev)
  /\ tail' = prev[tail]
  /\ UNCHANGED head

UnlinkTail ==
  /\ Destroy(tail, [next EXCEPT ![prev[tail]] = NULL], prev)
  /\ tail' = prev[tail]
  /\ UNCHANGED head

Unlink(n) ==
  /\ Destroy(n, [next EXCEPT ![prev[n]] = next[n]],
                [prev EXCEPT ![next[n]] = prev[n]])
  /\ UNCHANGED <<head, tail>>

\* doubly_linked_list_remove_head, remove_tail (queue_dequeue)
RemoveHead ==
  /\ Usable /\ size > 0
  /\ IF size = 1 THEN RemoveLast ELSE UnlinkHead
RemoveTail ==
  /\ Usable /\ size > 0
  /\ IF size = 1 THEN RemoveLast ELSE UnlinkTail

\* doubly_linked_list_remove: the only node and the tail are treated as a head
\* and a middle node, which the helpers' assertions refuse.
RemoveAt(pos) ==
  /\ Usable
  /\ pos \in 0 .. size - 1
  /\ \/ pos = 0 /\ size > 1 /\ UnlinkHead
     \/ pos = 0 /\ size = 1 /\ Abort("assert")
     \/ pos > 0 /\ pos = size - 1 /\ Abort("assert")
     \/ /\ pos > 0 /\ pos < size - 1
        /\ IF NodeAt(pos) = NULL THEN Abort("NULL") ELSE Unlink(NodeAt(pos))

-----------------------------------------------------------------------------
(* Reading and overwriting an element *)

Get(n) ==
  /\ result' = tid[n]
  /\ UNCHANGED <<links, tid, live, stopped>>

Set(n, id) ==
  /\ tid' = [tid EXCEPT ![n] = id]
  /\ result' = NoId
  /\ UNCHANGED <<links, live, stopped>>

\* doubly_linked_list_get_head, get_tail, set_head, set_tail
AtEnds(id) ==
  /\ Usable /\ size > 0
  /\ \E n \in {head, tail} : Get(n) \/ Set(n, id)

\* doubly_linked_list_get, set
AtPosition(pos, id) ==
  /\ Usable
  /\ pos \in 0 .. size - 1
  /\ IF NodeAt(pos) = NULL THEN Abort("NULL")
     ELSE Get(NodeAt(pos)) \/ Set(NodeAt(pos), id)

-----------------------------------------------------------------------------
Next ==
  \/ InsertFails \/ RemoveHead \/ RemoveTail
  \/ \E pos \in 0 .. Cardinality(Nodes) : RemoveAt(pos)
  \/ \E id \in Ids :
       \/ InsertHead(id) \/ InsertTail(id) \/ AtEnds(id)
       \/ \E pos \in 0 .. Cardinality(Nodes) :
            InsertAt(pos, id) \/ AtPosition(pos, id)

Spec == Init /\ [][Next]_vars

-----------------------------------------------------------------------------
(* What the list promises *)

\* The ids from the head on.
Contents == [k \in 1 .. size |-> tid[Follow(next, k - 1)]]

\* The allocated nodes form one chain from head to tail, linked both ways, of
\* the recorded size: nothing leaks, nothing freed is reachable, and removing
\* at either end finds the right neighbour.
WellLinked ==
  LET node == [k \in 1 .. size |-> Follow(next, k - 1)]
  IN  Usable =>
        /\ {node[k] : k \in 1 .. size} = live /\ Cardinality(live) = size
        /\ IF size = 0 THEN head = NULL /\ tail = NULL
           ELSE /\ node[size] = tail /\ next[tail] = NULL
                /\ prev[head] = NULL
        /\ \A k \in 2 .. size : prev[node[k]] = node[k - 1]

IdList == INSTANCE IdList WITH ids <- Contents

\* A call of a function that takes a position.
Positioned ==
  \E pos \in 0 .. Cardinality(Nodes) :
    RemoveAt(pos) \/ \E id \in Ids : InsertAt(pos, id) \/ AtPosition(pos, id)

\* Used at its ends, as the thread queue uses it, the list is the sequence of
\* the ids inserted and not removed, each handed out exactly once and in order,
\* even when other calls rearrange the middle of it in between.
EndsImplementIdList ==
  IdList!Init /\ [][IdList!Next \/ Positioned]_<<Contents, result>>
=============================================================================
