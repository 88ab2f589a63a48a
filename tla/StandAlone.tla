----------------------------- MODULE StandAlone -----------------------------
(***************************************************************************)
(* The parts of the repository that are used by one thread or one program  *)
(* alone: the threading example, the list of thread ids and the            *)
(* systemcalls example.  They share nothing, so that a behaviour exercises *)
(* one of them and the other two keep their initial states.                *)
(***************************************************************************)
EXTENDS Threading

CONSTANTS Nodes, NULL, Ids, NoId     \* of the list
CONSTANT MaxCalls                    \* of the systemcalls example

VARIABLES head, tail, size, next, prev, tid, live, result, stopped
VARIABLES stdout, printed, now, doing, call, ok, child, out, unflushed, status,
          file

listVars == <<head, tail, size, next, prev, tid, live, result, stopped>>
execVars == <<stdout, printed, now, doing, call, ok, child, out, unflushed,
              status, file>>

List == INSTANCE DoublyLinkedList
Exec == INSTANCE Systemcalls WITH at <- child

ASSUME ListAssumption  == List!ListConstants
ASSUME CallsAssumption == MaxCalls \in Nat

VARIABLE part      \* the part that a behaviour exercises

partVars == <<part, vars, listVars, execVars>>

PartsInit ==
  /\ part \in {"threading", "list", "systemcalls"}
  /\ Init /\ List!Init /\ Exec!Init

PartsNext ==
  /\ UNCHANGED part
  /\ \/ part = "threading"   /\ Next      /\ UNCHANGED <<listVars, execVars>>
     \/ part = "list"        /\ List!Next /\ UNCHANGED <<vars, execVars>>
     \/ part = "systemcalls" /\ Exec!Next /\ UNCHANGED <<vars, listVars>>

\* No action that is owed fairness is enabled in the initial states, so that a
\* part at rest owes nothing.
PartsSpec ==
  PartsInit /\ [][PartsNext]_partVars /\ Fairness /\ Exec!Fairness

-----------------------------------------------------------------------------
\* The chain of the list of thread ids stays sound in both directions, and no
\* node leaks (DoublyLinkedList).
WellLinked == List!WellLinked

\* At its ends, where queue.c uses it, the list is a sequence that hands out
\* every id once (DoublyLinkedList).
EndsImplementIdList == List!EndsImplementIdList

\* do_exec and do_exec_redirect report success for their own command only
\* (Systemcalls).
SuccessIsOwn == Exec!SuccessIsOwn

\* do_exec_redirect runs its command with the file as its standard output, or
\* not at all (Systemcalls).
OutputRedirected == Exec!OutputRedirected

\* After a successful do_exec_redirect the file holds its command's output and
\* nothing else (Systemcalls).
OutputIsCommands == Exec!OutputIsCommands

\* Every call of the systemcalls example returns (Systemcalls).
CallsReturn == Exec!CallsReturn

=============================================================================
