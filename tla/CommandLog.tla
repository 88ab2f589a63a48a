----------------------------- MODULE CommandLog -----------------------------
(***************************************************************************)
(* What the circular buffer promises its caller: the last Depth entries,   *)
(* oldest first.  Adding to a full log drops the oldest entry and hands    *)
(* its pointer back, so that the caller can free it.                       *)
(***************************************************************************)
EXTENDS Integers, Sequences

CONSTANTS Depth, Entries, NoPointer

VARIABLES
  log,        \* the entries kept, oldest first
  handedBack  \* the pointer the last Add gave back, NoPointer if none

Init ==
  /\ log = <<>>
  /\ handedBack = NoPointer

Add(entry) ==
  IF Len(log) < Depth
  THEN /\ log' = Append(log, entry)
       /\ handedBack' = NoPointer
  ELSE /\ log' = Append(Tail(log), entry)
       /\ handedBack' = Head(log).buffptr

Next == \E entry \in Entries : Add(entry)

Spec == Init /\ [][Next]_<<log, handedBack>>

=============================================================================
