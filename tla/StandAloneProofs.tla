-------------------------- MODULE StandAloneProofs ---------------------------
(***************************************************************************)
(* Proofs about the parts used alone: threading.c for any set of threads,  *)
(* systemcalls.c for any number of calls, and doubly_linked_list.c for any *)
(* set of addresses.                                                       *)
(***************************************************************************)
EXTENDS StandAlone, InductionLemmas, SequenceTheorems, TLAPS

(* The threading example *)

\* A thread reports success only when it has unlocked and returned.
SuccessIsLate ==
  \A t \in Threads : thread_complete_success[t] => Ended(t)

HoldersInv == TypeOK /\ HoldersExclude /\ SuccessIsLate

LEMMA HoldersInit == Init => HoldersInv
BY DEF Init, HoldersInv, TypeOK, HoldersExclude, SuccessIsLate, Holding,
       Places

\* The steps that lock and unlock, and a thread's return with or without the
\* mutex.
LEMMA ThreadKeepsHolders ==
  ASSUME HoldersInv, NEW t \in Threads, ThreadStep(t)
  PROVE  HoldersInv'
<1>1. t # Nobody /\ t # Caller
  BY ThreadsAssumption
<1>2. CASE Slept(t)
  BY <1>2 DEF Slept, Move, HoldersInv, TypeOK, HoldersExclude, SuccessIsLate,
              Holding, Ended, Places
<1>3. CASE Lock(t)
  BY <1>1, <1>3, ThreadsAssumption
     DEF Lock, Move, HoldersInv, TypeOK, HoldersExclude, SuccessIsLate,
         Holding, Ended, Places
<1>4. CASE Held(t)
  BY <1>4 DEF Held, Move, HoldersInv, TypeOK, HoldersExclude, SuccessIsLate,
              Holding, Ended, Places
<1>5. CASE SleepFails(t)
  BY <1>5 DEF SleepFails, Move, HoldersInv, TypeOK, HoldersExclude,
              SuccessIsLate, Holding, Ended, Places
<1>6. CASE Unlock(t)
  BY <1>1, <1>6, ThreadsAssumption
     DEF Unlock, Move, HoldersInv, TypeOK, HoldersExclude, SuccessIsLate,
         Holding, Ended, Places
<1>7. QED
  BY <1>2, <1>3, <1>4, <1>5, <1>6 DEF ThreadStep

\* The caller's steps: its own locking, starting threads and joining them.
LEMMA CallerKeepsHolders ==
  ASSUME HoldersInv, Next,
         ~ \E t \in Threads : ThreadStep(t)
  PROVE  HoldersInv'
<1>1. CASE CallerLocks
  BY <1>1, ThreadsAssumption
     DEF CallerLocks, HoldersInv, TypeOK, HoldersExclude, SuccessIsLate,
         Holding, Ended
<1>2. CASE CallerUnlocks
  BY <1>2, ThreadsAssumption
     DEF CallerUnlocks, HoldersInv, TypeOK, HoldersExclude, SuccessIsLate,
         Holding, Ended
<1>3. ASSUME NEW t \in Threads, StartThread(t)
      PROVE  HoldersInv'
  BY <1>3 DEF StartThread, Move, HoldersInv, TypeOK, HoldersExclude,
              SuccessIsLate, Holding, Ended, Places
<1>4. ASSUME NEW t \in Threads, StartFails(t)
      PROVE  HoldersInv'
  BY <1>4 DEF StartFails, Move, HoldersInv, TypeOK, HoldersExclude,
              SuccessIsLate, Holding, Ended, Places
<1>5. ASSUME NEW t \in Threads, Join(t)
      PROVE  HoldersInv'
  BY <1>5 DEF Join, Move, HoldersInv, TypeOK, HoldersExclude, SuccessIsLate,
              Holding, Ended, Places
<1>6. QED
  BY <1>1, <1>2, <1>3, <1>4, <1>5 DEF Next

LEMMA NextKeepsHolders == HoldersInv /\ [Next]_vars => HoldersInv'
<1>1. HoldersInv /\ Next => HoldersInv'
  BY ThreadKeepsHolders, CallerKeepsHolders
<1>2. HoldersInv /\ UNCHANGED vars => HoldersInv'
  BY DEF vars, HoldersInv, TypeOK, HoldersExclude, SuccessIsLate, Holding,
         Ended
<1>3. QED
  BY <1>1, <1>2

\* However many threads share the mutex and whichever sleeps are interrupted,
\* at most one holds it, not while the caller does, and a thread that reports
\* success has released it.
THEOREM OneHolder == Spec => []HoldersExclude
<1>1. Init => HoldersInv
  BY HoldersInit
<1>2. HoldersInv /\ [Next]_vars => HoldersInv'
  BY NextKeepsHolders
<1>3. HoldersInv => HoldersExclude
  BY DEF HoldersInv
<1>4. QED
  BY <1>1, <1>2, <1>3, PTL DEF Spec

\* For any set of threads the variables have their types, and a thread that
\* runs has its thread_data, which only the caller frees.
THEOREM ThreadingTypeOK == Spec => []TypeOK
<1>1. Init => HoldersInv
  BY HoldersInit
<1>2. HoldersInv /\ [Next]_vars => HoldersInv'
  BY NextKeepsHolders
<1>3. HoldersInv => TypeOK
  BY DEF HoldersInv
<1>4. QED
  BY <1>1, <1>2, <1>3, PTL DEF Spec

-----------------------------------------------------------------------------
(* The systemcalls example *)

ChildPlaces == {"none", "creat", "close", "dup2", "close out_fd", "execv",
                "command", "exit", "zombie", "reaped"}
Forking     == {"do_exec", "do_exec_redirect"}

ExecTypes ==
  /\ stdout \in BOOLEAN /\ printed \in BOOLEAN
  /\ now \in 0 .. MaxCalls /\ doing \in {"nothing", "waitpid"}
  /\ call \in [Exec!Calls -> Forking \cup {"none", "do_system"}]
  /\ ok \in [Exec!Calls -> BOOLEAN]
  /\ child \in [Exec!Calls -> ChildPlaces]
  /\ out \in [Exec!Calls -> {"closed", "stdout", "file"}]
  /\ unflushed \in [Exec!Calls -> BOOLEAN]
  /\ status \in [Exec!Calls -> {"none", "zero", "other"}]
  /\ file \subseteq Exec!Calls \cup {Exec!CallersText}

\* A call still to come has no child and no result.
ComingCalls ==
  \A c \in Exec!Calls : c > now => child[c] = "none" /\ ~ok[c]

\* Only do_exec and do_exec_redirect fork.
OnlyExecForks ==
  \A c \in Exec!Calls : child[c] # "none" => call[c] \in Forking

\* A child that has not ended has no status.
StatusAtEnd ==
  \A c \in Exec!Calls : child[c] \notin {"zombie", "reaped"} => status[c] = "none"

\* The call in waitpid has a child, which nobody else has waited for.
WaitHasChild ==
  doing = "waitpid" => now > 0 /\ child[now] \notin {"none", "reaped"}

CallsInOrder == ComingCalls /\ OnlyExecForks /\ StatusAtEnd /\ WaitHasChild

Inherited == IF stdout THEN "stdout" ELSE "closed"

\* Only a child of do_exec_redirect is on its way through creat and dup2, and
\* what the standard output of a child is after that.
OutputOnTheWay ==
  \A c \in Exec!Calls :
    /\ child[c] \in {"creat", "close", "dup2", "close out_fd"} =>
         call[c] = "do_exec_redirect"
    /\ child[c] = "close out_fd" => out[c] = "file"
    /\ child[c] \in {"execv", "command"} =>
         out[c] = IF call[c] = "do_exec_redirect" THEN "file" ELSE Inherited

\* A child that an interrupted call left behind, which is never reaped.
Leftover == \E c \in 1 .. now - 1 : child[c] \notin {"none", "reaped"}

Filling == {"close", "dup2", "close out_fd", "execv", "command"}

\* From creat to the end of its command, if that comes with status zero, the
\* file has no text but that of the current call.
FileOfCurrentCall ==
  /\ now > 0 /\ call[now] = "do_exec_redirect" /\ ~Leftover
  /\ child[now] \in Filling \/ status[now] = "zero"
  => file \subseteq {now}

ExecInv ==
  /\ ExecTypes /\ CallsInOrder /\ OutputOnTheWay /\ FileOfCurrentCall
  /\ SuccessIsOwn

LEMMA ExecInit == Exec!Init => ExecInv
<1> SUFFICES ASSUME Exec!Init PROVE ExecInv
  OBVIOUS
<1>1. stdout \in BOOLEAN /\ printed \in BOOLEAN
  BY DEF Exec!Init
<1>2. now \in 0 .. MaxCalls /\ doing \in {"nothing", "waitpid"}
  BY CallsAssumption DEF Exec!Init
<1>3. /\ call \in [Exec!Calls -> Forking \cup {"none", "do_system"}]
      /\ ok \in [Exec!Calls -> BOOLEAN]
  BY DEF Exec!Init
<1>4. /\ child \in [Exec!Calls -> ChildPlaces]
      /\ out \in [Exec!Calls -> {"closed", "stdout", "file"}]
  BY DEF Exec!Init, ChildPlaces
<1>5. /\ unflushed \in [Exec!Calls -> BOOLEAN]
      /\ status \in [Exec!Calls -> {"none", "zero", "other"}]
      /\ file \subseteq Exec!Calls \cup {Exec!CallersText}
  BY DEF Exec!Init
<1>6. CallsInOrder
  BY DEF Exec!Init, CallsInOrder, ComingCalls, OnlyExecForks, StatusAtEnd,
         WaitHasChild
<1>7. OutputOnTheWay /\ FileOfCurrentCall
  BY DEF Exec!Init, OutputOnTheWay, FileOfCurrentCall
<1>8. SuccessIsOwn
  BY DEF Exec!Init, SuccessIsOwn, Exec!SuccessIsOwn
<1>9. QED
  BY <1>1, <1>2, <1>3, <1>4, <1>5, <1>6, <1>7, <1>8 DEF ExecInv, ExecTypes

(* The caller's steps *)

\* Another call begins.
LEMMA CallingTypes ==
  ASSUME ExecTypes, NEW function \in Forking \cup {"do_system"},
         Exec!Calling(function)
  PROVE  /\ now + 1 \in Exec!Calls /\ now' = now + 1 /\ now' \in 0 .. MaxCalls
         /\ doing = "nothing"
         /\ call' = [call EXCEPT ![now + 1] = function]
         /\ call' \in [Exec!Calls -> Forking \cup {"none", "do_system"}]
BY CallsAssumption DEF Exec!Calling, Exec!Calls, ExecTypes

\* do_system and do_exec with a fork that fails leave no child.
Childless == Exec!DoSystem \/ Exec!ForkFails

LEMMA ChildlessStep ==
  ASSUME ExecInv, Childless
  PROVE  \E function \in Forking \cup {"do_system"} :
           /\ Exec!Calling(function)
           /\ ok' \in [Exec!Calls -> BOOLEAN]
           /\ ok' = ok \/ function = "do_system"
           /\ \A c \in Exec!Calls : c # now + 1 => ok'[c] = ok[c]
           /\ UNCHANGED <<stdout, printed, doing, child, out, unflushed, status,
                          file>>
<1>1. CASE Exec!DoSystem
  <2>1. PICK ended :
               ok' = [ok EXCEPT ![now + 1] = ended \in {"zero", "nonzero"}]
    BY <1>1 DEF Exec!DoSystem
  <2>2. Exec!Calling("do_system")
    BY <1>1 DEF Exec!DoSystem
  <2> DEFINE returned == ended \in {"zero", "nonzero"}
  <2>3. returned \in BOOLEAN /\ ok' = [ok EXCEPT ![now + 1] = returned]
    BY <2>1
  <2> HIDE DEF returned
  <2>4. /\ ok' \in [Exec!Calls -> BOOLEAN]
        /\ \A c \in Exec!Calls : c # now + 1 => ok'[c] = ok[c]
    BY <2>3 DEF ExecInv, ExecTypes
  <2>5. QED
    BY <1>1, <2>2, <2>4 DEF Exec!DoSystem, Exec!caller, Exec!children
<1>2. CASE Exec!ForkFails
  BY <1>2 DEF Exec!ForkFails, Exec!caller, Exec!children, ExecInv, ExecTypes,
              Forking
<1>3. QED
  BY <1>1, <1>2 DEF Childless

LEMMA ChildlessKeepsExecInv ==
  ASSUME ExecInv, Childless
  PROVE  ExecInv'
<1>1. PICK function \in Forking \cup {"do_system"} :
        /\ Exec!Calling(function)
        /\ ok' \in [Exec!Calls -> BOOLEAN]
        /\ ok' = ok \/ function = "do_system"
        /\ \A c \in Exec!Calls : c # now + 1 => ok'[c] = ok[c]
        /\ UNCHANGED <<stdout, printed, doing, child, out, unflushed, status,
                       file>>
  BY ChildlessStep
<1> ExecTypes /\ CallsInOrder
  BY DEF ExecInv
<1>2. /\ now + 1 \in Exec!Calls /\ now' = now + 1 /\ now' \in 0 .. MaxCalls
      /\ doing = "nothing"
      /\ call' = [call EXCEPT ![now + 1] = function]
      /\ call' \in [Exec!Calls -> Forking \cup {"none", "do_system"}]
  BY <1>1, CallingTypes
<1>3. child[now + 1] = "none" /\ ~ok[now + 1] /\ status[now + 1] = "none"
  BY <1>2, CallsAssumption
     DEF ExecTypes, CallsInOrder, ComingCalls, StatusAtEnd, Exec!Calls
<1>4. ExecTypes'
  BY <1>1, <1>2 DEF ExecTypes
<1>5. ComingCalls'
  BY <1>1, <1>2, CallsAssumption
     DEF ExecTypes, CallsInOrder, ComingCalls, Exec!Calls
<1>6. (OnlyExecForks /\ StatusAtEnd /\ WaitHasChild)'
  BY <1>1, <1>2, <1>3
     DEF ExecTypes, CallsInOrder, OnlyExecForks, StatusAtEnd, WaitHasChild
<1>7. OutputOnTheWay'
  BY <1>1, <1>2, <1>3
     DEF ExecInv, ExecTypes, OutputOnTheWay, Inherited
<1>8. FileOfCurrentCall'
  BY <1>1, <1>2, <1>3 DEF FileOfCurrentCall, Filling
<1>9. SuccessIsOwn'
  BY <1>1, <1>2, <1>3 DEF ExecInv, ExecTypes, SuccessIsOwn, Exec!SuccessIsOwn
<1>10. QED
  BY <1>4, <1>5, <1>6, <1>7, <1>8, <1>9 DEF ExecInv, CallsInOrder

LEMMA ForkKeepsExecInv ==
  ASSUME ExecInv, Exec!Fork
  PROVE  ExecInv'
<1>1. PICK function \in Forking :
        /\ Exec!Calling(function)
        /\ \/ function = "do_exec" /\ child' = [child EXCEPT ![now + 1] = "execv"]
           \/ /\ function = "do_exec_redirect"
              /\ child' = [child EXCEPT ![now + 1] = "creat"]
  BY DEF Exec!Fork, Exec!Become, Forking
<1>2. /\ out' = [out EXCEPT ![now + 1] = Inherited]
      /\ unflushed' = [unflushed EXCEPT ![now + 1] = printed]
      /\ doing' = "waitpid"
      /\ UNCHANGED <<stdout, printed, ok, status, file>>
  BY DEF Exec!Fork, Exec!caller, Inherited
<1> ExecTypes /\ CallsInOrder
  BY DEF ExecInv
<1>3. /\ now + 1 \in Exec!Calls /\ now' = now + 1 /\ now' \in 0 .. MaxCalls
      /\ call' = [call EXCEPT ![now + 1] = function]
      /\ call' \in [Exec!Calls -> Forking \cup {"none", "do_system"}]
  BY <1>1, CallingTypes
<1>4. child[now + 1] = "none" /\ ~ok[now + 1] /\ status[now + 1] = "none"
  BY <1>3, CallsAssumption
     DEF ExecTypes, CallsInOrder, ComingCalls, StatusAtEnd, Exec!Calls
<1>5. ExecTypes'
  BY <1>1, <1>2, <1>3 DEF ExecTypes, ChildPlaces, Inherited
<1>6. ComingCalls'
  BY <1>1, <1>2, <1>3, CallsAssumption
     DEF ExecTypes, CallsInOrder, ComingCalls, Exec!Calls
<1>7. (OnlyExecForks /\ StatusAtEnd)'
  BY <1>1, <1>2, <1>3, <1>4
     DEF ExecTypes, CallsInOrder, OnlyExecForks, StatusAtEnd
<1>8. WaitHasChild'
  BY <1>1, <1>2, <1>3, CallsAssumption DEF ExecTypes, WaitHasChild, Exec!Calls
<1>9. OutputOnTheWay'
  <2>1. OutputOnTheWay /\ Inherited' = Inherited
    BY <1>2 DEF ExecInv, Inherited
  <2>2. CASE function = "do_exec"
    BY <1>1, <1>2, <1>3, <2>1, <2>2, ZenonT(60) DEF ExecTypes, OutputOnTheWay
  <2>3. CASE function = "do_exec_redirect"
    BY <1>1, <1>2, <1>3, <2>1, <2>3, ZenonT(60) DEF ExecTypes, OutputOnTheWay
  <2>4. QED
    BY <2>2, <2>3 DEF Forking
<1>10. FileOfCurrentCall'
  BY <1>1, <1>2, <1>3, <1>4 DEF ExecTypes, FileOfCurrentCall, Filling
<1>11. SuccessIsOwn'
  BY <1>1, <1>2, <1>3, <1>4
     DEF ExecInv, ExecTypes, SuccessIsOwn, Exec!SuccessIsOwn
<1>12. QED
  BY <1>5, <1>6, <1>7, <1>8, <1>9, <1>10, <1>11 DEF ExecInv, CallsInOrder

LEMMA WaitKeepsExecInv ==
  ASSUME ExecInv, Exec!Wait
  PROVE  ExecInv'
<1>1. /\ child[now] = "zombie" /\ child' = [child EXCEPT ![now] = "reaped"]
      /\ ok' = [ok EXCEPT ![now] = status[now] = "zero"]
      /\ doing = "waitpid" /\ doing' = "nothing"
      /\ UNCHANGED <<stdout, printed, now, call, out, unflushed, status, file>>
  BY DEF Exec!Wait, Exec!Become, Exec!caller
<1>2. now \in Exec!Calls
  BY <1>1, CallsAssumption
     DEF ExecInv, ExecTypes, CallsInOrder, WaitHasChild, Exec!Calls
<1>3. ExecTypes'
  BY <1>1, <1>2 DEF ExecInv, ExecTypes, ChildPlaces
<1>4. ComingCalls'
  BY <1>1, <1>2, CallsAssumption
     DEF ExecInv, ExecTypes, CallsInOrder, ComingCalls, Exec!Calls
<1>5. (OnlyExecForks /\ StatusAtEnd /\ WaitHasChild)'
  BY <1>1, <1>2
     DEF ExecInv, ExecTypes, CallsInOrder, OnlyExecForks, StatusAtEnd,
         WaitHasChild
<1>6. OutputOnTheWay'
  BY <1>1, <1>2 DEF ExecInv, ExecTypes, OutputOnTheWay, Inherited
<1>7. Leftover' = Leftover
  BY <1>1, <1>2, CallsAssumption DEF ExecInv, ExecTypes, Leftover, Exec!Calls
<1>8. FileOfCurrentCall'
  BY <1>1, <1>2, <1>7 DEF ExecInv, ExecTypes, FileOfCurrentCall, Filling
<1>9. SuccessIsOwn'
  BY <1>1, <1>2 DEF ExecInv, ExecTypes, SuccessIsOwn, Exec!SuccessIsOwn
<1>10. QED
  BY <1>3, <1>4, <1>5, <1>6, <1>8, <1>9 DEF ExecInv, CallsInOrder

\* A waitpid that is interrupted and what the caller prints leave the children
\* alone.
LEMMA CallerKeepsExecInv ==
  ASSUME ExecInv,
         \/ UNCHANGED Exec!vars
         \/ Exec!Printf
         \/ Exec!WaitFails
  PROVE  ExecInv'
<1>1. /\ doing' \in {doing, "nothing"} /\ printed' \in BOOLEAN
      /\ UNCHANGED <<stdout, now, call, ok, child, out, unflushed, status, file>>
  BY DEF Exec!vars, Exec!Printf, Exec!WaitFails, Exec!caller, Exec!children,
         ExecInv, ExecTypes
<1>2. ExecTypes'
  BY <1>1 DEF ExecInv, ExecTypes
<1>3. CallsInOrder'
  BY <1>1 DEF ExecInv, CallsInOrder, ComingCalls, OnlyExecForks, StatusAtEnd,
              WaitHasChild
<1>4. OutputOnTheWay' /\ FileOfCurrentCall' /\ SuccessIsOwn'
  BY <1>1 DEF ExecInv, OutputOnTheWay, Inherited, FileOfCurrentCall, Leftover,
              SuccessIsOwn, Exec!SuccessIsOwn
<1>5. QED
  BY <1>2, <1>3, <1>4 DEF ExecInv

(* The children's steps *)

\* A child goes on to another place, and may leave a status as it ends.  Only
\* its own output and status change.
ChildMoves(c, to) ==
  /\ child[c] \notin {"none", "zombie", "reaped"}
  /\ to \in ChildPlaces \ {"none", "reaped"}
  /\ child' = [child EXCEPT ![c] = to]
  /\ status' \in [Exec!Calls -> {"none", "zero", "other"}]
  /\ \A d \in Exec!Calls : d # c => status'[d] = status[d]
  /\ to # "zombie" => UNCHANGED status
  /\ UNCHANGED <<stdout, printed, now, doing, call, ok, unflushed>>

LEMMA MovesKeepOrder ==
  ASSUME ExecInv, NEW c \in Exec!Calls, NEW to, ChildMoves(c, to)
  PROVE  CallsInOrder' /\ SuccessIsOwn' /\ c <= now /\ Leftover' = Leftover
<1>1. c <= now /\ now \in Nat
  BY CallsAssumption
     DEF ExecInv, ExecTypes, CallsInOrder, ComingCalls, ChildMoves, Exec!Calls
<1>2. ComingCalls'
  BY <1>1, CallsAssumption
     DEF ExecInv, ExecTypes, CallsInOrder, ComingCalls, ChildMoves, Exec!Calls
<1>3. OnlyExecForks'
  BY DEF ExecInv, ExecTypes, CallsInOrder, OnlyExecForks, ChildMoves
<1>4. StatusAtEnd'
  BY DEF ExecInv, ExecTypes, CallsInOrder, StatusAtEnd, ChildMoves
<1>5. WaitHasChild'
  BY CallsAssumption
     DEF ExecInv, ExecTypes, CallsInOrder, WaitHasChild, ChildMoves, Exec!Calls
<1>6. SuccessIsOwn'
  BY DEF ExecInv, ExecTypes, SuccessIsOwn, Exec!SuccessIsOwn, ChildMoves
<1>7. Leftover' = Leftover
  BY CallsAssumption DEF ExecInv, ExecTypes, Leftover, ChildMoves, Exec!Calls
<1>8. QED
  BY <1>1, <1>2, <1>3, <1>4, <1>5, <1>6, <1>7 DEF CallsInOrder

\* Its output is on the way that leads to the right one.
OutputGoesOn(c, to) ==
  /\ \A d \in Exec!Calls : d # c => out'[d] = out[d]
  /\ to \in {"creat", "close", "dup2", "close out_fd"} =>
       call[c] = "do_exec_redirect"
  /\ to = "close out_fd" => out'[c] = "file"
  /\ to \in {"execv", "command"} =>
       out'[c] = IF call[c] = "do_exec_redirect" THEN "file" ELSE Inherited

\* The file was emptied, or gets no text but its own, unless it is not to be
\* relied on.
FileGoesOn(c, to) ==
  to \in Filling \/ status'[c] = "zero" =>
    file' = {} \/ (child[c] \in Filling /\ file' \subseteq file \cup {c})

LEMMA GoesOnKeepsExecInv ==
  ASSUME ExecInv, NEW c \in Exec!Calls, NEW to, ChildMoves(c, to), ExecTypes',
         OutputGoesOn(c, to), FileGoesOn(c, to)
  PROVE  ExecInv'
<1>1. CallsInOrder' /\ SuccessIsOwn' /\ c <= now /\ Leftover' = Leftover
  BY MovesKeepOrder
<1>2. OutputOnTheWay'
  BY ZenonT(60)
     DEF ExecInv, ExecTypes, OutputOnTheWay, OutputGoesOn, ChildMoves, Inherited
<1>3. ASSUME c = now PROVE FileOfCurrentCall'
  BY <1>1, <1>3 DEF ExecInv, ExecTypes, FileOfCurrentCall, FileGoesOn, ChildMoves
<1>4. ASSUME c # now PROVE FileOfCurrentCall'
  <2>1. Leftover
    BY <1>1, <1>4, CallsAssumption
       DEF ExecInv, ExecTypes, Leftover, ChildMoves, Exec!Calls
  <2>2. QED
    BY <1>1, <2>1 DEF FileOfCurrentCall
<1>5. FileOfCurrentCall'
  BY <1>3, <1>4
<1>6. QED
  BY <1>1, <1>2, <1>5 DEF ExecInv

LEMMA ChildKeepsExecInv ==
  ASSUME ExecInv, NEW c \in Exec!Calls, Exec!ChildStep(c) \/ Exec!Output(c)
  PROVE  ExecInv'
<1>1. CASE Exec!Creat(c)
  <2>1. ChildMoves(c, "close")
    BY <1>1 DEF Exec!Creat, Exec!Child, Exec!Become, Exec!caller, ChildMoves,
       ExecInv, ExecTypes, ChildPlaces
  <2>2. ExecTypes'
    BY <1>1, <2>1 DEF Exec!Creat, ChildMoves, ExecInv, ExecTypes
  <2>3. OutputGoesOn(c, "close")
    BY <1>1 DEF Exec!Creat, Exec!Child, Exec!Become, Exec!caller, ExecInv, ExecTypes, OutputOnTheWay, OutputGoesOn,
       Inherited, Exec!CanFail
  <2>4. FileGoesOn(c, "close")
    BY <1>1
       DEF Exec!Creat, Exec!Child, ExecInv, ExecTypes, CallsInOrder, StatusAtEnd, FileGoesOn, Filling
  <2>5. QED
    BY <2>1, <2>2, <2>3, <2>4, GoesOnKeepsExecInv DEF ExecInv
<1>2. CASE Exec!CloseStdout(c)
  <2>1. ChildMoves(c, "dup2")
    BY <1>2 DEF Exec!CloseStdout, Exec!Child, Exec!Become, Exec!caller, ChildMoves,
       ExecInv, ExecTypes, ChildPlaces
  <2>2. ExecTypes'
    BY <1>2, <2>1 DEF Exec!CloseStdout, ChildMoves, ExecInv, ExecTypes
  <2>3. OutputGoesOn(c, "dup2")
    BY <1>2 DEF Exec!CloseStdout, Exec!Child, Exec!Become, Exec!caller, ExecInv, ExecTypes, OutputOnTheWay, OutputGoesOn,
       Inherited, Exec!CanFail
  <2>4. FileGoesOn(c, "dup2")
    BY <1>2
       DEF Exec!CloseStdout, Exec!Child, ExecInv, ExecTypes, CallsInOrder, StatusAtEnd, FileGoesOn, Filling
  <2>5. QED
    BY <2>1, <2>2, <2>3, <2>4, GoesOnKeepsExecInv DEF ExecInv
<1>3. CASE Exec!Dup2(c)
  <2>1. ChildMoves(c, "close out_fd")
    BY <1>3 DEF Exec!Dup2, Exec!Child, Exec!Become, Exec!caller, ChildMoves,
       ExecInv, ExecTypes, ChildPlaces
  <2>2. ExecTypes'
    BY <1>3, <2>1 DEF Exec!Dup2, ChildMoves, ExecInv, ExecTypes
  <2>3. OutputGoesOn(c, "close out_fd")
    BY <1>3 DEF Exec!Dup2, Exec!Child, Exec!Become, Exec!caller, ExecInv, ExecTypes, OutputOnTheWay, OutputGoesOn,
       Inherited, Exec!CanFail
  <2>4. FileGoesOn(c, "close out_fd")
    BY <1>3
       DEF Exec!Dup2, Exec!Child, ExecInv, ExecTypes, CallsInOrder, StatusAtEnd, FileGoesOn, Filling
  <2>5. QED
    BY <2>1, <2>2, <2>3, <2>4, GoesOnKeepsExecInv DEF ExecInv
<1>4. CASE Exec!CloseOutFd(c)
  <2>1. ChildMoves(c, "execv")
    BY <1>4 DEF Exec!CloseOutFd, Exec!Child, Exec!Become, Exec!caller, ChildMoves,
       ExecInv, ExecTypes, ChildPlaces
  <2>2. ExecTypes'
    BY <1>4, <2>1 DEF Exec!CloseOutFd, ChildMoves, ExecInv, ExecTypes
  <2>3. OutputGoesOn(c, "execv")
    BY <1>4 DEF Exec!CloseOutFd, Exec!Child, Exec!Become, Exec!caller, ExecInv, ExecTypes, OutputOnTheWay, OutputGoesOn,
       Inherited, Exec!CanFail
  <2>4. FileGoesOn(c, "execv")
    BY <1>4
       DEF Exec!CloseOutFd, Exec!Child, ExecInv, ExecTypes, CallsInOrder, StatusAtEnd, FileGoesOn, Filling
  <2>5. QED
    BY <2>1, <2>2, <2>3, <2>4, GoesOnKeepsExecInv DEF ExecInv
<1>5. CASE Exec!Execv(c)
  <2>1. ChildMoves(c, "command")
    BY <1>5 DEF Exec!Execv, Exec!Child, Exec!Become, Exec!caller, ChildMoves,
       ExecInv, ExecTypes, ChildPlaces
  <2>2. ExecTypes'
    BY <1>5, <2>1 DEF Exec!Execv, ChildMoves, ExecInv, ExecTypes
  <2>3. OutputGoesOn(c, "command")
    BY <1>5 DEF Exec!Execv, Exec!Child, Exec!Become, Exec!caller, ExecInv, ExecTypes, OutputOnTheWay, OutputGoesOn,
       Inherited, Exec!CanFail
  <2>4. FileGoesOn(c, "command")
    BY <1>5
       DEF Exec!Execv, Exec!Child, ExecInv, ExecTypes, CallsInOrder, StatusAtEnd, FileGoesOn, Filling
  <2>5. QED
    BY <2>1, <2>2, <2>3, <2>4, GoesOnKeepsExecInv DEF ExecInv
<1>6. CASE Exec!ChildFails(c)
  <2>1. ChildMoves(c, "exit")
    BY <1>6 DEF Exec!ChildFails, Exec!Child, Exec!Become, Exec!caller, ChildMoves,
       ExecInv, ExecTypes, ChildPlaces, Exec!CanFail
  <2>2. ExecTypes'
    BY <1>6, <2>1 DEF Exec!ChildFails, ChildMoves, ExecInv, ExecTypes
  <2>3. OutputGoesOn(c, "exit")
    BY <1>6 DEF Exec!ChildFails, Exec!Child, Exec!Become, Exec!caller, ExecInv, ExecTypes, OutputOnTheWay, OutputGoesOn,
       Inherited, Exec!CanFail
  <2>4. FileGoesOn(c, "exit")
    BY <1>6
       DEF Exec!ChildFails, Exec!Child, ExecInv, ExecTypes, CallsInOrder, StatusAtEnd, FileGoesOn, Filling, Exec!CanFail
  <2>5. QED
    BY <2>1, <2>2, <2>3, <2>4, GoesOnKeepsExecInv DEF ExecInv
<1>7. CASE Exec!Exit(c)
  <2>1. ChildMoves(c, "zombie")
    BY <1>7 DEF Exec!Exit, Exec!Child, Exec!Become, Exec!caller, ChildMoves,
       ExecInv, ExecTypes, ChildPlaces
  <2>2. ExecTypes'
    BY <1>7, <2>1 DEF Exec!Exit, ChildMoves, ExecInv, ExecTypes
  <2>3. OutputGoesOn(c, "zombie")
    BY <1>7 DEF Exec!Exit, Exec!Child, Exec!Become, Exec!caller, ExecInv, ExecTypes, OutputOnTheWay, OutputGoesOn,
       Inherited, Exec!CanFail
  <2>4. FileGoesOn(c, "zombie")
    BY <1>7
       DEF Exec!Exit, Exec!Child, ExecInv, ExecTypes, CallsInOrder, StatusAtEnd, FileGoesOn, Filling
  <2>5. QED
    BY <2>1, <2>2, <2>3, <2>4, GoesOnKeepsExecInv DEF ExecInv
<1>8. CASE Exec!CommandEnds(c)
  <2>1. ChildMoves(c, "zombie")
    BY <1>8, ZenonT(60)
       DEF Exec!CommandEnds, Exec!Child, Exec!Become, Exec!caller, ChildMoves,
           ExecInv, ExecTypes, ChildPlaces
  <2>2. ExecTypes'
    BY <1>8, <2>1 DEF Exec!CommandEnds, ChildMoves, ExecInv, ExecTypes
  <2>3. OutputGoesOn(c, "zombie")
    BY <1>8 DEF Exec!CommandEnds, Exec!Child, Exec!Become, Exec!caller, ExecInv, ExecTypes, OutputOnTheWay, OutputGoesOn,
       Inherited, Exec!CanFail
  <2>4. FileGoesOn(c, "zombie")
    BY <1>8
       DEF Exec!CommandEnds, Exec!Child, ExecInv, ExecTypes, CallsInOrder, StatusAtEnd, FileGoesOn, Filling
  <2>5. QED
    BY <2>1, <2>2, <2>3, <2>4, GoesOnKeepsExecInv DEF ExecInv
<1>9. CASE Exec!Output(c)
  <2>1. ChildMoves(c, "command")
    BY <1>9 DEF Exec!Output, Exec!Child, Exec!Become, Exec!caller, ChildMoves,
       ExecInv, ExecTypes, ChildPlaces
  <2>2. ExecTypes'
    BY <1>9, <2>1 DEF Exec!Output, ChildMoves, ExecInv, ExecTypes
  <2>3. OutputGoesOn(c, "command")
    BY <1>9 DEF Exec!Output, Exec!Child, Exec!Become, Exec!caller, ExecInv, ExecTypes, OutputOnTheWay, OutputGoesOn,
       Inherited, Exec!CanFail
  <2>4. FileGoesOn(c, "command")
    BY <1>9
       DEF Exec!Output, Exec!Child, ExecInv, ExecTypes, CallsInOrder, StatusAtEnd, FileGoesOn, Filling
  <2>5. QED
    BY <2>1, <2>2, <2>3, <2>4, GoesOnKeepsExecInv DEF ExecInv
<1>10. QED
  BY <1>1, <1>2, <1>3, <1>4, <1>5, <1>6, <1>7, <1>8, <1>9 DEF Exec!ChildStep

LEMMA NextKeepsExecInv == ExecInv /\ [Exec!Next]_(Exec!vars) => ExecInv'
<1> SUFFICES ASSUME ExecInv, [Exec!Next]_(Exec!vars)
             PROVE  ExecInv'
  OBVIOUS
<1>1. CASE Exec!DoSystem \/ Exec!ForkFails
  BY <1>1, ChildlessKeepsExecInv DEF Childless
<1>2. CASE Exec!Fork
  BY <1>2, ForkKeepsExecInv
<1>3. CASE Exec!Wait
  BY <1>3, WaitKeepsExecInv
<1>4. CASE UNCHANGED Exec!vars \/ Exec!Printf \/ Exec!WaitFails
  BY <1>4, CallerKeepsExecInv
<1>5. ASSUME NEW c \in Exec!Calls, Exec!ChildStep(c) \/ Exec!Output(c)
      PROVE  ExecInv'
  BY <1>5, ChildKeepsExecInv
<1>6. QED
  BY <1>1, <1>2, <1>3, <1>4, <1>5 DEF Exec!Next

LEMMA ExecAlwaysInv == Exec!Spec => []ExecInv
BY ExecInit, NextKeepsExecInv, PTL DEF Exec!Spec

\* Whatever fails in the children, whichever waits are interrupted and whatever
\* they leave running, do_exec and do_exec_redirect report success only for a
\* child of their own that returned zero.
THEOREM SuccessAlwaysOwn == Exec!Spec => []SuccessIsOwn
<1>1. ExecInv => SuccessIsOwn
  BY DEF ExecInv
<1>2. QED
  BY <1>1, ExecAlwaysInv, PTL

\* A command runs with the standard output it should have, also in a program
\* that has closed its own and gets that descriptor from creat().
THEOREM OutputAlwaysRedirected == Exec!Spec => []OutputRedirected
<1>1. ExecInv => OutputRedirected
  BY DEF ExecInv, OutputOnTheWay, Inherited, OutputRedirected,
         Exec!OutputRedirected
<1>2. QED
  BY <1>1, ExecAlwaysInv, PTL

\* The file of a do_exec_redirect that succeeds has only its command's output,
\* in any number of calls with any leftovers of failed ones.
THEOREM OutputAlwaysCommands == Exec!Spec => []OutputIsCommands
<1>1. ASSUME ExecInv
      PROVE  OutputIsCommands
  <2> SUFFICES ASSUME now > 0, doing = "nothing",
                      call[now] = "do_exec_redirect", ok[now], ~Leftover
               PROVE  file \subseteq {now}
    BY DEF OutputIsCommands, Exec!OutputIsCommands, Leftover
  <2>1. now \in Exec!Calls
    BY <1>1, CallsAssumption DEF ExecInv, ExecTypes, Exec!Calls
  <2>2. status[now] = "zero"
    BY <1>1, <2>1 DEF ExecInv, SuccessIsOwn, Exec!SuccessIsOwn
  <2>3. QED
    BY <1>1, <2>2 DEF ExecInv, FileOfCurrentCall
<1>2. QED
  BY <1>1, ExecAlwaysInv, PTL

-----------------------------------------------------------------------------
(* The parts together *)

\* The three parts share nothing: a behaviour of all of them is a behaviour of
\* each, so that what is proved of one alone holds in PartsSpec.
THEOREM PartsRunAlone == PartsSpec => Spec /\ List!Spec /\ Exec!Spec
<1>1. PartsInit => Init /\ List!Init /\ Exec!Init
  BY DEF PartsInit
<1>2. [PartsNext]_partVars =>
        [Next]_vars /\ [List!Next]_(List!vars) /\ [Exec!Next]_(Exec!vars)
  <2>1. UNCHANGED listVars => UNCHANGED List!vars
    BY DEF listVars, List!vars, List!links
  <2>2. UNCHANGED execVars => UNCHANGED Exec!vars
    BY DEF execVars, Exec!vars, Exec!caller, Exec!children
  <2>3. PartsNext => \/ Next      /\ UNCHANGED <<listVars, execVars>>
                     \/ List!Next /\ UNCHANGED <<vars, execVars>>
                     \/ Exec!Next /\ UNCHANGED <<vars, listVars>>
    BY DEF PartsNext
  <2>4. UNCHANGED partVars => UNCHANGED <<vars, listVars, execVars>>
    BY DEF partVars
  <2>5. QED
    BY <2>1, <2>2, <2>3, <2>4
<1>3. QED
  BY <1>1, <1>2, PTL DEF PartsSpec, Spec, List!Spec, Exec!Spec

-----------------------------------------------------------------------------
(* The list of thread ids *)

\* The k-th node of a chain of m nodes, or what is beyond its ends.
Node(s, m, k) == IF k \in 1 .. m THEN s[k] ELSE NULL

\* The m allocated nodes in the order of the sequence s are linked both ways
\* from the head h to the tail t.
Chain(s, m, h, t, nx, pv, allocated) ==
  /\ m \in Nat /\ s \in [1 .. m -> allocated]
  /\ \A x \in allocated : \E k \in 1 .. m : s[k] = x
  /\ \A j, k \in 1 .. m : s[j] = s[k] => j = k
  /\ h = Node(s, m, 1) /\ t = Node(s, m, m)
  /\ \A k \in 1 .. m : /\ nx[s[k]] = Node(s, m, k + 1)
                       /\ pv[s[k]] = Node(s, m, k - 1)

\* With the node n behind the first p, and without the k-th.
Inserted(s, m, p, n) ==
  [k \in 1 .. m + 1 |-> IF k <= p THEN s[k] ELSE IF k = p + 1 THEN n ELSE s[k - 1]]
Removed(s, m, k) == [i \in 1 .. m - 1 |-> IF i < k THEN s[i] ELSE s[i + 1]]

\* The links nx2 and pv2 are nx and pv with n linked in behind the first p nodes.
LinkedIn(s, m, p, n, allocated, nx, pv, nx2, pv2) ==
  /\ NULL \notin allocated /\ n \notin allocated /\ n # NULL /\ p \in 0 .. m
  /\ nx2[n] = Node(s, m, p + 1) /\ pv2[n] = Node(s, m, p)
  /\ \A x \in allocated : x # Node(s, m, p) => nx2[x] = nx[x]
  /\ \A x \in allocated : x # Node(s, m, p + 1) => pv2[x] = pv[x]
  /\ p > 0 => nx2[s[p]] = n
  /\ p < m => pv2[s[p + 1]] = n

\* They are nx and pv with the k-th node left out.
LinkedOut(s, m, k, allocated, nx, pv, nx2, pv2) ==
  /\ NULL \notin allocated /\ k \in 1 .. m
  /\ \A x \in allocated \ {s[k]} : x # Node(s, m, k - 1) => nx2[x] = nx[x]
  /\ \A x \in allocated \ {s[k]} : x # Node(s, m, k + 1) => pv2[x] = pv[x]
  /\ k > 1 => nx2[s[k - 1]] = nx[s[k]]
  /\ k < m => pv2[s[k + 1]] = pv[s[k]]

\* A new node whose links are those of its neighbours, and which they link to,
\* makes the chain longer by one.
LEMMA ChainInserted ==
  ASSUME NEW s, NEW m, NEW h, NEW t, NEW nx, NEW pv, NEW allocated,
         NEW p, NEW n, NEW nx2, NEW pv2,
         Chain(s, m, h, t, nx, pv, allocated),
         LinkedIn(s, m, p, n, allocated, nx, pv, nx2, pv2)
  PROVE  Chain(Inserted(s, m, p, n), m + 1, IF p = 0 THEN n ELSE h,
               IF p = m THEN n ELSE t, nx2, pv2, allocated \cup {n})
<1> DEFINE r == Inserted(s, m, p, n)
<1>0. /\ NULL \notin allocated /\ n \notin allocated /\ n # NULL /\ p \in 0 .. m
      /\ nx2[n] = Node(s, m, p + 1) /\ pv2[n] = Node(s, m, p)
      /\ \A x \in allocated : x # Node(s, m, p) => nx2[x] = nx[x]
      /\ \A x \in allocated : x # Node(s, m, p + 1) => pv2[x] = pv[x]
      /\ p > 0 => nx2[s[p]] = n
      /\ p < m => pv2[s[p + 1]] = n
  BY DEF LinkedIn
<1>1. /\ m \in Nat /\ p \in Nat /\ p <= m
      /\ \A k \in 1 .. m : s[k] \in allocated
      /\ \A j, k \in 1 .. m : s[j] = s[k] => j = k
  <2>1. m \in Nat /\ s \in [1 .. m -> allocated]
    BY DEF Chain
  <2>2. \A j, k \in 1 .. m : s[j] = s[k] => j = k
    BY Zenon DEF Chain
  <2>3. QED
    BY <1>0, <2>1, <2>2
<1>2. \A k \in 1 .. m + 1 :
        r[k] = IF k <= p THEN s[k] ELSE IF k = p + 1 THEN n ELSE s[k - 1]
  BY DEF Inserted
<1>3. r \in [1 .. m + 1 -> allocated \cup {n}]
  BY <1>0, <1>1 DEF Inserted
<1> HIDE DEF r
<1>4. ASSUME NEW x \in allocated \cup {n}
      PROVE  \E k \in 1 .. m + 1 : r[k] = x
  <2>1. CASE x = n
    <3>1. p + 1 \in 1 .. m + 1 /\ ~ p + 1 <= p
      BY <1>0, <1>1
    <3>2. QED
      BY <1>2, <2>1, <3>1
  <2>2. CASE x \in allocated
    <3>1. PICK k \in 1 .. m : s[k] = x
      BY <2>2 DEF Chain
    <3>2. k \in 1 .. m + 1 /\ k + 1 \in 1 .. m + 1 /\ (k + 1) - 1 = k
          /\ (~ k <= p => ~ k + 1 <= p /\ k + 1 # p + 1)
      BY <1>0, <1>1
    <3>3. QED
      BY <1>2, <3>1, <3>2
  <2>3. QED
    BY <2>1, <2>2
<1>5. ASSUME NEW j \in 1 .. m + 1, NEW k \in 1 .. m + 1, r[j] = r[k]
      PROVE  j = k
  BY <1>0, <1>1, <1>2, <1>5
<1>6. (IF p = 0 THEN n ELSE h) = Node(r, m + 1, 1)
  BY <1>0, <1>1, <1>2 DEF Node, Chain
<1>7. (IF p = m THEN n ELSE t) = Node(r, m + 1, m + 1)
  BY <1>0, <1>1, <1>2 DEF Node, Chain
<1>8. ASSUME NEW k \in 1 .. m + 1
      PROVE  nx2[r[k]] = Node(r, m + 1, k + 1) /\ pv2[r[k]] = Node(r, m + 1, k - 1)
  <2>1. CASE k = p + 1
    BY <1>0, <1>1, <1>2, <2>1 DEF Node
  <2>2. CASE k <= p
    <3>1. k \in 1 .. m /\ r[k] = s[k] /\ r[k] \in allocated
      BY <1>0, <1>1, <1>2, <2>2
    <3>2. nx[s[k]] = Node(s, m, k + 1) /\ pv[s[k]] = Node(s, m, k - 1)
      BY <3>1 DEF Chain
    <3>3. pv2[r[k]] = Node(r, m + 1, k - 1)
      <4>1. s[k] # Node(s, m, p + 1)
        BY <1>0, <1>1, <2>2, <3>1 DEF Node
      <4>2. Node(s, m, k - 1) = Node(r, m + 1, k - 1)
        BY <1>0, <1>1, <1>2, <2>2, <3>1 DEF Node
      <4>3. QED
        BY <1>0, <3>1, <3>2, <4>1, <4>2
    <3>4. CASE k = p
      BY <1>0, <1>1, <1>2, <3>1, <3>3, <3>4 DEF Node
    <3>5. CASE k # p
      <4>1. s[k] # Node(s, m, p)
        BY <1>0, <1>1, <3>1, <3>5 DEF Node
      <4>2. Node(s, m, k + 1) = Node(r, m + 1, k + 1)
        BY <1>0, <1>1, <1>2, <2>2, <3>1, <3>5 DEF Node
      <4>3. QED
        BY <1>0, <3>1, <3>2, <3>3, <4>1, <4>2
    <3>6. QED
      BY <3>4, <3>5
  <2>3. CASE k > p + 1
    <3>1. /\ k - 1 \in 1 .. m /\ r[k] = s[k - 1] /\ r[k] \in allocated
          /\ (k - 1) + 1 = k /\ k - 1 # p
      BY <1>0, <1>1, <1>2, <2>3
    <3>2. /\ nx[s[k - 1]] = Node(s, m, (k - 1) + 1)
          /\ pv[s[k - 1]] = Node(s, m, (k - 1) - 1)
      BY <3>1 DEF Chain
    <3>3. nx2[r[k]] = Node(r, m + 1, k + 1)
      <4>1. s[k - 1] # Node(s, m, p)
        BY <1>0, <1>1, <3>1 DEF Node
      <4>2. Node(s, m, k) = Node(r, m + 1, k + 1)
        BY <1>0, <1>1, <1>2, <2>3, <3>1 DEF Node
      <4>3. QED
        BY <1>0, <3>1, <3>2, <4>1, <4>2
    <3>4. CASE k - 1 = p + 1
      BY <1>0, <1>1, <1>2, <3>1, <3>3, <3>4 DEF Node
    <3>5. CASE k - 1 # p + 1
      <4>1. s[k - 1] # Node(s, m, p + 1)
        BY <1>0, <1>1, <3>1, <3>5 DEF Node
      <4>2. Node(s, m, (k - 1) - 1) = Node(r, m + 1, k - 1)
        BY <1>0, <1>1, <1>2, <2>3, <3>1, <3>5 DEF Node
      <4>3. QED
        BY <1>0, <3>1, <3>2, <3>3, <4>1, <4>2
    <3>6. QED
      BY <3>4, <3>5
  <2>4. QED
    BY <1>0, <1>1, <2>1, <2>2, <2>3
<1>9. QED
  BY <1>0, <1>1, <1>3, <1>4, <1>5, <1>6, <1>7, <1>8 DEF Chain, r

\* When a node leaves and its neighbours get its links, the chain is shorter by
\* one.
LEMMA ChainRemoved ==
  ASSUME NEW s, NEW m, NEW h, NEW t, NEW nx, NEW pv, NEW allocated,
         NEW k, NEW nx2, NEW pv2,
         Chain(s, m, h, t, nx, pv, allocated),
         LinkedOut(s, m, k, allocated, nx, pv, nx2, pv2)
  PROVE  Chain(Removed(s, m, k), m - 1, IF k = 1 THEN nx[h] ELSE h,
               IF k = m THEN pv[t] ELSE t, nx2, pv2, allocated \ {s[k]})
<1> DEFINE r == Removed(s, m, k)
<1>0. /\ NULL \notin allocated /\ k \in 1 .. m
      /\ \A x \in allocated \ {s[k]} : x # Node(s, m, k - 1) => nx2[x] = nx[x]
      /\ \A x \in allocated \ {s[k]} : x # Node(s, m, k + 1) => pv2[x] = pv[x]
      /\ k > 1 => nx2[s[k - 1]] = nx[s[k]]
      /\ k < m => pv2[s[k + 1]] = pv[s[k]]
  BY DEF LinkedOut
<1>1. /\ m \in Nat /\ k \in Nat /\ 1 <= k /\ k <= m
      /\ \A j \in 1 .. m : s[j] \in allocated
      /\ \A i, j \in 1 .. m : s[i] = s[j] => i = j
  <2>1. m \in Nat /\ s \in [1 .. m -> allocated]
    BY DEF Chain
  <2>2. \A i, j \in 1 .. m : s[i] = s[j] => i = j
    BY Zenon DEF Chain
  <2>3. QED
    BY <1>0, <2>1, <2>2
<1>2. \A i \in 1 .. m - 1 : r[i] = IF i < k THEN s[i] ELSE s[i + 1]
  BY DEF Removed
<1>3. r \in [1 .. m - 1 -> allocated \ {s[k]}]
  <2>1. ASSUME NEW i \in 1 .. m - 1
        PROVE  (IF i < k THEN s[i] ELSE s[i + 1]) \in allocated \ {s[k]}
    <3>1. i \in 1 .. m /\ i + 1 \in 1 .. m /\ (i < k => i # k)
          /\ (~ i < k => i + 1 # k)
      BY <1>0, <1>1
    <3>2. QED
      BY <1>0, <1>1, <3>1
  <2>2. QED
    BY <2>1 DEF Removed
<1> HIDE DEF r
<1>4. ASSUME NEW x \in allocated \ {s[k]}
      PROVE  \E i \in 1 .. m - 1 : r[i] = x
  <2>1. PICK i \in 1 .. m : s[i] = x
    BY DEF Chain
  <2>2. i # k
    BY <2>1
  <2>3. CASE i < k
    <3>1. i \in 1 .. m - 1
      BY <1>0, <1>1, <2>3
    <3>2. QED
      BY <1>2, <2>1, <2>3, <3>1
  <2>4. CASE i > k
    <3>1. i - 1 \in 1 .. m - 1 /\ ~ i - 1 < k /\ (i - 1) + 1 = i
      BY <1>0, <1>1, <2>4
    <3>2. QED
      BY <1>2, <2>1, <3>1
  <2>5. QED
    BY <1>0, <1>1, <2>2, <2>3, <2>4
<1>5. ASSUME NEW i \in 1 .. m - 1, NEW j \in 1 .. m - 1, r[i] = r[j]
      PROVE  i = j
  <2> DEFINE place(x) == IF x < k THEN x ELSE x + 1
  <2>1. /\ place(i) \in 1 .. m /\ place(j) \in 1 .. m
        /\ r[i] = s[place(i)] /\ r[j] = s[place(j)]
    BY <1>0, <1>1, <1>2
  <2> HIDE DEF place
  <2>2. s[place(i)] = s[place(j)]
    BY <1>5, <2>1
  <2>3. place(i) = place(j)
    BY <1>0, <1>1, <2>1, <2>2
  <2>4. QED
    BY <1>0, <1>1, <2>3 DEF place
<1>6. (IF k = 1 THEN nx[h] ELSE h) = Node(r, m - 1, 1)
  <2>1. h = s[1] /\ nx[s[1]] = Node(s, m, 1 + 1)
    BY <1>0, <1>1 DEF Chain, Node
  <2>2. QED
    BY <1>0, <1>1, <1>2, <2>1 DEF Node
<1>7. (IF k = m THEN pv[t] ELSE t) = Node(r, m - 1, m - 1)
  <2>1. t = s[m] /\ pv[s[m]] = Node(s, m, m - 1)
    BY <1>0, <1>1 DEF Chain, Node
  <2>2. QED
    BY <1>0, <1>1, <1>2, <2>1 DEF Node
<1>8. ASSUME NEW i \in 1 .. m - 1
      PROVE  nx2[r[i]] = Node(r, m - 1, i + 1) /\ pv2[r[i]] = Node(r, m - 1, i - 1)
  <2>1. r[i] \in allocated \ {s[k]}
    BY <1>3
  <2>2. CASE i < k
    <3>1. i \in 1 .. m /\ r[i] = s[i]
      BY <1>0, <1>1, <1>2, <2>2
    <3>2. nx[s[i]] = Node(s, m, i + 1) /\ pv[s[i]] = Node(s, m, i - 1)
      BY <3>1 DEF Chain
    <3>3. pv2[r[i]] = Node(r, m - 1, i - 1)
      <4>1. s[i] # Node(s, m, k + 1)
        BY <1>0, <1>1, <2>2, <3>1 DEF Node
      <4>2. Node(s, m, i - 1) = Node(r, m - 1, i - 1)
        BY <1>0, <1>1, <1>2, <2>2 DEF Node
      <4>3. QED
        BY <1>0, <2>1, <3>1, <3>2, <4>1, <4>2
    <3>4. CASE i = k - 1
      <4>1. nx[s[k]] = Node(s, m, k + 1)
        BY <1>0 DEF Chain
      <4>2. Node(s, m, k + 1) = Node(r, m - 1, i + 1)
        BY <1>0, <1>1, <1>2, <3>4 DEF Node
      <4>3. QED
        BY <1>0, <1>1, <3>1, <3>3, <3>4, <4>1, <4>2
    <3>5. CASE i # k - 1
      <4>1. s[i] # Node(s, m, k - 1)
        BY <1>0, <1>1, <3>1, <3>5 DEF Node
      <4>2. Node(s, m, i + 1) = Node(r, m - 1, i + 1)
        BY <1>0, <1>1, <1>2, <2>2, <3>5 DEF Node
      <4>3. QED
        BY <1>0, <2>1, <3>1, <3>2, <3>3, <4>1, <4>2
    <3>6. QED
      BY <3>4, <3>5
  <2>3. CASE ~ i < k
    <3>1. i + 1 \in 1 .. m /\ r[i] = s[i + 1] /\ (i + 1) - 1 = i
      BY <1>0, <1>1, <1>2, <2>3
    <3>2. nx[s[i + 1]] = Node(s, m, (i + 1) + 1) /\ pv[s[i + 1]] = Node(s, m, i)
      <4>1. /\ nx[s[i + 1]] = Node(s, m, (i + 1) + 1)
            /\ pv[s[i + 1]] = Node(s, m, (i + 1) - 1)
        BY <3>1 DEF Chain
      <4>2. QED
        BY <3>1, <4>1
    <3>3. nx2[r[i]] = Node(r, m - 1, i + 1)
      <4>1. s[i + 1] # Node(s, m, k - 1)
        BY <1>0, <1>1, <2>3, <3>1 DEF Node
      <4>2. Node(s, m, (i + 1) + 1) = Node(r, m - 1, i + 1)
        BY <1>0, <1>1, <1>2, <2>3 DEF Node
      <4>3. QED
        BY <1>0, <2>1, <3>1, <3>2, <4>1, <4>2
    <3>4. CASE i = k
      <4>1. pv[s[k]] = Node(s, m, k - 1)
        BY <1>0 DEF Chain
      <4>2. Node(s, m, k - 1) = Node(r, m - 1, i - 1)
        BY <1>0, <1>1, <1>2, <3>4 DEF Node
      <4>3. QED
        BY <1>0, <1>1, <3>1, <3>3, <3>4, <4>1, <4>2
    <3>5. CASE i # k
      <4>1. s[i + 1] # Node(s, m, k + 1)
        BY <1>0, <1>1, <3>1, <3>5 DEF Node
      <4>2. Node(s, m, i) = Node(r, m - 1, i - 1)
        BY <1>0, <1>1, <1>2, <2>3, <3>5 DEF Node
      <4>3. QED
        BY <1>0, <2>1, <3>1, <3>2, <3>3, <4>1, <4>2
    <3>6. QED
      BY <3>4, <3>5
  <2>4. QED
    BY <2>2, <2>3
<1>9. m - 1 \in Nat
  BY <1>0, <1>1
<1>10. \A i, j \in 1 .. m - 1 : r[i] = r[j] => i = j
  BY <1>5
<1>11. Chain(r, m - 1, IF k = 1 THEN nx[h] ELSE h, IF k = m THEN pv[t] ELSE t,
             nx2, pv2, allocated \ {s[k]})
  BY <1>3, <1>4, <1>6, <1>7, <1>8, <1>9, <1>10, Zenon DEF Chain
<1>12. QED
  BY <1>11 DEF r

\* The nodes met on the way from the head along a link.
IsWalk(f, link, steps) ==
  f = [i \in 0 .. steps |-> IF i = 0 THEN head
                            ELSE IF f[i - 1] = NULL THEN NULL ELSE link[f[i - 1]]]

\* There is only one such way, which Follow goes.
LEMMA WalkIsFollowed ==
  ASSUME NEW link, NEW steps \in Nat, NEW w, IsWalk(w, link, steps)
  PROVE  List!Follow(link, steps) = w[steps]
<1> DEFINE node == CHOOSE f : IsWalk(f, link, steps)
           T == {i \in Nat : i <= steps => node[i] = w[i]}
<1>1. IsWalk(node, link, steps)
  OBVIOUS
<1>2. List!Follow(link, steps) = node[steps]
  BY DEF List!Follow, IsWalk
<1> HIDE DEF node
<1>3. 0 \in T
  <2>1. 0 \in 0 .. steps
    OBVIOUS
  <2>2. node[0] = head /\ w[0] = head
    BY <1>1, <2>1 DEF IsWalk
  <2>3. QED
    BY <2>2
<1>4. ASSUME NEW i \in T
      PROVE  i + 1 \in T
  <2> SUFFICES ASSUME i + 1 <= steps PROVE node[i + 1] = w[i + 1]
    OBVIOUS
  <2>1. i + 1 \in 0 .. steps /\ i + 1 # 0 /\ (i + 1) - 1 = i /\ node[i] = w[i]
    OBVIOUS
  <2>2. node[i + 1] = IF node[i] = NULL THEN NULL ELSE link[node[i]]
    BY <1>1, <2>1 DEF IsWalk
  <2>3. w[i + 1] = IF w[i] = NULL THEN NULL ELSE link[w[i]]
    BY <2>1 DEF IsWalk
  <2>4. QED
    BY <2>1, <2>2, <2>3
<1>5. T \in SUBSET Nat
  OBVIOUS
<1> HIDE DEF T
<1>6. T = Nat
  BY <1>3, <1>4, <1>5, SetInduction
<1>7. QED
  BY <1>2, <1>6 DEF T

\* From the head on, Follow meets the nodes of the chain in their order ...
LEMMA FollowNext ==
  ASSUME NEW s, Chain(s, size, head, tail, next, prev, live), NULL \notin live,
         NEW k \in 0 .. size - 1
  PROVE  List!Follow(next, k) = s[k + 1]
<1> DEFINE w == [i \in 0 .. k |-> s[i + 1]]
<1>1. size \in Nat /\ k \in Nat /\ \A i \in 1 .. size : s[i] \in live
  BY DEF Chain
<1>2. ASSUME NEW i \in 0 .. k
      PROVE  s[i + 1] = IF i = 0 THEN head
                        ELSE IF w[i - 1] = NULL THEN NULL ELSE next[w[i - 1]]
  <2>1. CASE i = 0
    BY <1>1, <2>1 DEF Chain, Node
  <2>2. CASE i # 0
    <3>1. /\ i - 1 \in 0 .. k /\ i \in 1 .. size /\ i + 1 \in 1 .. size
          /\ (i - 1) + 1 = i
      BY <1>1, <2>2
    <3>2. w[i - 1] = s[i] /\ s[i] # NULL
      BY <1>1, <3>1
    <3>3. next[s[i]] = s[i + 1]
      BY <3>1 DEF Chain, Node
    <3>4. QED
      BY <2>2, <3>2, <3>3
  <2>3. QED
    BY <2>1, <2>2
<1>3. IsWalk(w, next, k)
  BY <1>2 DEF IsWalk
<1>4. w[k] = s[k + 1]
  BY <1>1
<1> HIDE DEF w
<1>5. QED
  BY <1>1, <1>3, <1>4, WalkIsFollowed

\* ... and along the other link it falls off at once.
LEMMA FollowPrev ==
  ASSUME NEW s, Chain(s, size, head, tail, next, prev, live), NULL \notin live,
         size > 0, NEW k \in Nat
  PROVE  List!Follow(prev, k) = IF k = 0 THEN head ELSE NULL
<1> DEFINE w == [i \in 0 .. k |-> IF i = 0 THEN head ELSE NULL]
<1>1. size \in Nat /\ head = s[1] /\ prev[head] = NULL /\ head # NULL
  BY DEF Chain, Node
<1>2. ASSUME NEW i \in 0 .. k
      PROVE  w[i] = IF i = 0 THEN head
                    ELSE IF w[i - 1] = NULL THEN NULL ELSE prev[w[i - 1]]
  <2>1. i # 0 => /\ i - 1 \in 0 .. k
                 /\ w[i - 1] = IF i - 1 = 0 THEN head ELSE NULL
    OBVIOUS
  <2>2. QED
    BY <1>1, <2>1
<1>3. IsWalk(w, prev, k)
  BY <1>2 DEF IsWalk
<1>4. w[k] = IF k = 0 THEN head ELSE NULL
  OBVIOUS
<1> HIDE DEF w
<1>5. QED
  BY <1>3, <1>4, WalkIsFollowed

\* The node that a position leads to, if any: the right one in the first half,
\* in the other the head, and only for the last position.
LEMMA NodeAtIs ==
  ASSUME NEW s, Chain(s, size, head, tail, next, prev, live), NULL \notin live,
         NEW pos \in 0 .. size - 1
  PROVE  \/ List!NodeAt(pos) = s[pos + 1]
         \/ List!NodeAt(pos) = NULL
         \/ pos = size - 1 /\ List!NodeAt(pos) = head
<1>1. size \in Nat /\ pos \in Nat /\ size - 1 - pos \in Nat /\ size > 0
  BY DEF Chain
<1>2. CASE pos = 0
  BY <1>1, <1>2 DEF List!NodeAt, Chain, Node
<1>3. CASE pos # 0 /\ pos < size \div 2
  BY <1>3, FollowNext DEF List!NodeAt
<1>4. CASE pos # 0 /\ ~ pos < size \div 2
  <2>1. List!NodeAt(pos) = List!Follow(prev, size - 1 - pos)
    BY <1>4 DEF List!NodeAt
  <2>2. List!NodeAt(pos) = IF size - 1 - pos = 0 THEN head ELSE NULL
    BY <1>1, <2>1, FollowPrev
  <2>3. QED
    BY <1>1, <2>2
<1>5. QED
  BY <1>2, <1>3, <1>4

\* The inductive invariant of the list: its nodes form a chain.
ListInv ==
  /\ live \subseteq Nodes /\ Cardinality(live) = size
  /\ next \in [Nodes -> Nodes \cup {NULL}] /\ prev \in [Nodes -> Nodes \cup {NULL}]
  /\ tid \in [Nodes -> Ids \cup {NoId}] /\ result \in Ids \cup {NoId}
  /\ \E s : Chain(s, size, head, tail, next, prev, live)

\* What the insertions and removals do to the chain.
LongerBy(s, p, id, n) ==
  /\ n \in Nodes \ live /\ p \in 0 .. size
  /\ Chain(Inserted(s, size, p, n), size', head', tail', next', prev', live')
  /\ size' = size + 1 /\ live' = live \cup {n}
  /\ next' \in [Nodes -> Nodes \cup {NULL}] /\ prev' \in [Nodes -> Nodes \cup {NULL}]
  /\ tid' = [tid EXCEPT ![n] = id]
  /\ result' = NoId

ShorterBy(s, k) ==
  /\ k \in 1 .. size
  /\ Chain(Removed(s, size, k), size', head', tail', next', prev', live')
  /\ size' = size - 1 /\ live' = live \ {s[k]}
  /\ next' \in [Nodes -> Nodes \cup {NULL}] /\ prev' \in [Nodes -> Nodes \cup {NULL}]
  /\ tid' = [tid EXCEPT ![s[k]] = NoId]
  /\ result' = tid[s[k]]

LEMMA ListFacts ==
  ASSUME ListInv, NEW s, Chain(s, size, head, tail, next, prev, live)
  PROVE  /\ NULL \notin Nodes /\ NoId \notin Ids /\ NULL \notin live
         /\ size \in Nat /\ \A k \in 1 .. size : s[k] \in live /\ s[k] \in Nodes
         /\ \A j, k \in 1 .. size : s[j] = s[k] => j = k
         /\ size = 0 => head = NULL /\ tail = NULL /\ live = {}
         /\ size > 0 => /\ head = s[1] /\ tail = s[size]
                        /\ next[s[size]] = NULL /\ prev[s[1]] = NULL
<1>1. NULL \notin Nodes /\ NoId \notin Ids
  BY ListAssumption DEF List!ListConstants
<1>2. size \in Nat /\ \A k \in 1 .. size : s[k] \in live
  BY DEF Chain
<1>3. \A j, k \in 1 .. size : s[j] = s[k] => j = k
  BY Zenon DEF Chain
<1>4. size = 0 => head = NULL /\ tail = NULL /\ live = {}
  BY DEF Chain, Node
<1>5. size > 0 => /\ head = s[1] /\ tail = s[size]
                  /\ next[s[size]] = NULL /\ prev[s[1]] = NULL
  BY <1>2 DEF Chain, Node
<1>6. QED
  BY <1>1, <1>2, <1>3, <1>4, <1>5 DEF ListInv

\* A node that is linked by Link makes the chain longer by one, at p.
LEMMA InsertStep ==
  ASSUME ListInv, NEW s, Chain(s, size, head, tail, next, prev, live),
         NEW id, NEW n \in Nodes \ live, NEW p \in 0 .. size,
         live' = live \cup {n}, tid' = [tid EXCEPT ![n] = id],
         size' = size + 1, result' = NoId,
         next' \in [Nodes -> Nodes \cup {NULL}],
         prev' \in [Nodes -> Nodes \cup {NULL}],
         LinkedIn(s, size, p, n, live, next, prev, next', prev'),
         head' = IF p = 0 THEN n ELSE head,
         tail' = IF p = size THEN n ELSE tail
  PROVE  LongerBy(s, p, id, n)
<1>1. Chain(Inserted(s, size, p, n), size + 1, IF p = 0 THEN n ELSE head,
            IF p = size THEN n ELSE tail, next', prev', live \cup {n})
  BY ChainInserted
<1>2. QED
  BY <1>1 DEF LongerBy

LEMMA RemoveStep ==
  ASSUME ListInv, NEW s, Chain(s, size, head, tail, next, prev, live),
         NEW k \in 1 .. size, NEW nexts, NEW prevs,
         List!Destroy(s[k], nexts, prevs),
         nexts \in [Nodes -> Nodes \cup {NULL}],
         prevs \in [Nodes -> Nodes \cup {NULL}],
         LinkedOut(s, size, k, live, next, prev, nexts, prevs),
         head' = IF k = 1 THEN next[head] ELSE head,
         tail' = IF k = size THEN prev[tail] ELSE tail
  PROVE  ShorterBy(s, k)
<1>1. /\ result' = tid[s[k]] /\ live' = live \ {s[k]} /\ size' = size - 1
      /\ next' = [nexts EXCEPT ![s[k]] = NULL]
      /\ prev' = [prevs EXCEPT ![s[k]] = NULL]
      /\ tid' = [tid EXCEPT ![s[k]] = NoId]
  BY DEF List!Destroy
<1>2. /\ NULL \notin live /\ size \in Nat /\ live \subseteq Nodes
      /\ \A j \in 1 .. size : s[j] \in live
      /\ \A i, j \in 1 .. size : s[i] = s[j] => i = j
  BY ListFacts DEF ListInv
<1>3. /\ next' \in [Nodes -> Nodes \cup {NULL}]
      /\ prev' \in [Nodes -> Nodes \cup {NULL}]
  BY <1>1
<1>4. \A x \in live \ {s[k]} : next'[x] = nexts[x] /\ prev'[x] = prevs[x]
  BY <1>1, <1>2
<1>5. LinkedOut(s, size, k, live, next, prev, next', prev')
  <2>1. k > 1 => s[k - 1] \in live \ {s[k]}
    BY <1>2
  <2>2. k < size => s[k + 1] \in live \ {s[k]}
    BY <1>2
  <2>3. QED
    BY <1>4, <2>1, <2>2 DEF LinkedOut
<1>6. Chain(Removed(s, size, k), size - 1, IF k = 1 THEN next[head] ELSE head,
            IF k = size THEN prev[tail] ELSE tail, next', prev', live \ {s[k]})
  BY <1>5, ChainRemoved
<1>7. QED
  BY <1>1, <1>3, <1>6 DEF ShorterBy

\* The first node of a list.
LEMMA AloneStep ==
  ASSUME ListInv, NEW s, Chain(s, size, head, tail, next, prev, live),
         NEW id, NEW n \in Nodes \ live, size = 0, List!LinkAlone(n),
         live' = live \cup {n}, tid' = [tid EXCEPT ![n] = id],
         size' = size + 1, result' = NoId
  PROVE  LongerBy(s, 0, id, n)
<1>1. /\ NULL \notin Nodes /\ live = {}
      /\ next \in [Nodes -> Nodes \cup {NULL}] /\ prev \in [Nodes -> Nodes \cup {NULL}]
  BY ListFacts DEF ListInv
<1>2. /\ next' = [next EXCEPT ![n] = NULL] /\ prev' = [prev EXCEPT ![n] = NULL]
      /\ head' = n /\ tail' = n
  BY DEF List!LinkAlone
<1>3. LinkedIn(s, size, 0, n, live, next, prev, next', prev')
  BY <1>1, <1>2 DEF LinkedIn, Node
<1>4. /\ next' \in [Nodes -> Nodes \cup {NULL}]
      /\ prev' \in [Nodes -> Nodes \cup {NULL}]
  BY <1>1, <1>2
<1>5. 0 \in 0 .. size
  OBVIOUS
<1>6. QED
  BY <1>2, <1>3, <1>4, <1>5, InsertStep

LEMMA InsertHeadStep ==
  ASSUME ListInv, NEW s, Chain(s, size, head, tail, next, prev, live),
         NEW id, List!InsertHead(id)
  PROVE  \E n : LongerBy(s, 0, id, n)
<1>1. PICK n \in Nodes \ live :
        /\ live' = live \cup {n} /\ tid' = [tid EXCEPT ![n] = id]
        /\ size' = size + 1 /\ result' = NoId
        /\ IF size = 0 THEN List!LinkAlone(n) ELSE List!LinkAtHead(n)
  BY DEF List!InsertHead, List!Insert
<1>2. CASE size = 0
  BY <1>1, <1>2, AloneStep
<1>3. CASE size # 0
  <2>1. /\ NULL \notin Nodes /\ NULL \notin live /\ size \in Nat
        /\ head = s[1] /\ s[1] \in live /\ head \in Nodes /\ n # head
        /\ \A j, k \in 1 .. size : s[j] = s[k] => j = k
        /\ live \subseteq Nodes
        /\ next \in [Nodes -> Nodes \cup {NULL}]
        /\ prev \in [Nodes -> Nodes \cup {NULL}]
    BY <1>3, ListFacts DEF ListInv
  <2>2. /\ next' = [next EXCEPT ![n] = head]
        /\ prev' = [prev EXCEPT ![n] = NULL, ![head] = n]
        /\ head' = n /\ tail' = tail
    BY <1>1, <1>3 DEF List!LinkAtHead
  <2>3. /\ next' \in [Nodes -> Nodes \cup {NULL}]
        /\ prev' \in [Nodes -> Nodes \cup {NULL}]
    BY <2>1, <2>2
  <2>4. Node(s, size, 0) = NULL /\ Node(s, size, 0 + 1) = head
    BY <1>3, <2>1 DEF Node
  <2>5. LinkedIn(s, size, 0, n, live, next, prev, next', prev')
    BY <1>3, <2>1, <2>2, <2>4 DEF LinkedIn
  <2>6. 0 \in 0 .. size /\ tail' = IF 0 = size THEN n ELSE tail
    BY <1>3, <2>1, <2>2
  <2>7. QED
    BY <1>1, <2>2, <2>3, <2>5, <2>6, InsertStep
<1>4. QED
  BY <1>2, <1>3

LEMMA InsertTailStep ==
  ASSUME ListInv, NEW s, Chain(s, size, head, tail, next, prev, live),
         NEW id, List!InsertTail(id)
  PROVE  \E n : LongerBy(s, size, id, n)
<1>1. PICK n \in Nodes \ live :
        /\ live' = live \cup {n} /\ tid' = [tid EXCEPT ![n] = id]
        /\ size' = size + 1 /\ result' = NoId
        /\ IF size = 0 THEN List!LinkAlone(n) ELSE List!LinkAtTail(n)
  BY DEF List!InsertTail, List!Insert
<1>2. CASE size = 0
  BY <1>1, <1>2, AloneStep
<1>3. CASE size # 0
  <2>1. /\ NULL \notin Nodes /\ NULL \notin live /\ size \in Nat
        /\ tail = s[size] /\ s[size] \in live /\ tail \in Nodes /\ n # tail
        /\ \A j, k \in 1 .. size : s[j] = s[k] => j = k
        /\ live \subseteq Nodes
        /\ next \in [Nodes -> Nodes \cup {NULL}]
        /\ prev \in [Nodes -> Nodes \cup {NULL}]
    BY <1>3, ListFacts DEF ListInv
  <2>2. /\ prev' = [prev EXCEPT ![n] = tail]
        /\ next' = [next EXCEPT ![n] = NULL, ![tail] = n]
        /\ tail' = n /\ head' = head
    BY <1>1, <1>3 DEF List!LinkAtTail
  <2>3. /\ next' \in [Nodes -> Nodes \cup {NULL}]
        /\ prev' \in [Nodes -> Nodes \cup {NULL}]
    BY <2>1, <2>2
  <2>4. Node(s, size, size) = tail /\ Node(s, size, size + 1) = NULL
    BY <1>3, <2>1 DEF Node
  <2>5. LinkedIn(s, size, size, n, live, next, prev, next', prev')
    BY <1>3, <2>1, <2>2, <2>4 DEF LinkedIn
  <2>6. size \in 0 .. size /\ head' = IF size = 0 THEN n ELSE head
    BY <1>3, <2>1, <2>2
  <2>7. QED
    BY <1>1, <2>2, <2>3, <2>5, <2>6, InsertStep
<1>4. QED
  BY <1>2, <1>3

Aborted == UNCHANGED <<head, tail, size, next, prev, tid, live, result>>

LEMMA InsertAtStep ==
  ASSUME ListInv, NEW s, Chain(s, size, head, tail, next, prev, live),
         NEW pos, NEW id, List!InsertAt(pos, id)
  PROVE  Aborted \/ (pos \in 1 .. size - 1 /\ \E n : LongerBy(s, pos, id, n))
<1> DEFINE successor == List!NodeAt(pos)
<1>1. /\ pos \in 1 .. size - 1
      /\ IF successor = NULL \/ prev[successor] = NULL
         THEN List!Abort("NULL")
         ELSE List!Insert(id, LAMBDA n : List!LinkBefore(n, successor))
  BY DEF List!InsertAt
<1>2. CASE successor = NULL \/ prev[successor] = NULL
  BY <1>1, <1>2 DEF List!Abort, List!links, Aborted
<1>3. CASE successor # NULL /\ prev[successor] # NULL
  <2>1. /\ NULL \notin Nodes /\ NULL \notin live /\ size \in Nat
        /\ \A k \in 1 .. size : s[k] \in live /\ s[k] \in Nodes
        /\ \A j, k \in 1 .. size : s[j] = s[k] => j = k
        /\ live \subseteq Nodes
        /\ next \in [Nodes -> Nodes \cup {NULL}]
        /\ prev \in [Nodes -> Nodes \cup {NULL}]
        /\ size > 0 => head = s[1] /\ prev[s[1]] = NULL
    BY ListFacts DEF ListInv
  <2>2. /\ pos \in 0 .. size - 1 /\ pos \in 0 .. size /\ pos # 0 /\ pos # size
        /\ pos \in 1 .. size /\ pos + 1 \in 1 .. size /\ size > 0
    BY <1>1, <2>1
  <2>3. successor = s[pos + 1]
    BY <1>3, <2>1, <2>2, NodeAtIs
  <2>4. /\ prev[s[pos + 1]] = s[pos]
        /\ Node(s, size, pos) = s[pos] /\ Node(s, size, pos + 1) = s[pos + 1]
    <3>1. (pos + 1) - 1 = pos
      BY <2>2
    <3>2. \A k \in 1 .. size : prev[s[k]] = Node(s, size, k - 1)
      BY DEF Chain
    <3>3. prev[s[pos + 1]] = Node(s, size, pos)
      BY <2>2, <3>1, <3>2
    <3>4. QED
      BY <2>2, <3>3 DEF Node
  <2> HIDE DEF successor
  <2>5. PICK n \in Nodes \ live :
          /\ live' = live \cup {n} /\ tid' = [tid EXCEPT ![n] = id]
          /\ size' = size + 1 /\ result' = NoId
          /\ IF size = 0 THEN List!LinkAlone(n) ELSE List!LinkBefore(n, successor)
    BY <1>1, <1>3 DEF List!Insert
  <2>6. /\ prev' = [prev EXCEPT ![n] = s[pos], ![s[pos + 1]] = n]
        /\ next' = [next EXCEPT ![n] = s[pos + 1], ![s[pos]] = n]
        /\ tail' = tail /\ head' = head
    BY <2>2, <2>3, <2>4, <2>5 DEF List!LinkBefore
  <2>7. /\ next' \in [Nodes -> Nodes \cup {NULL}]
        /\ prev' \in [Nodes -> Nodes \cup {NULL}]
    BY <2>1, <2>2, <2>6
  <2>8. LinkedIn(s, size, pos, n, live, next, prev, next', prev')
    BY <2>1, <2>2, <2>4, <2>6 DEF LinkedIn
  <2>9. /\ head' = IF pos = 0 THEN n ELSE head
        /\ tail' = IF pos = size THEN n ELSE tail
    BY <2>2, <2>6
  <2>10. LongerBy(s, pos, id, n)
    BY <2>2, <2>5, <2>7, <2>8, <2>9, InsertStep
  <2>11. QED
    BY <1>1, <2>10
<1>4. QED
  BY <1>2, <1>3

\* The last node leaves, from either end.
LEMMA LastStep ==
  ASSUME ListInv, NEW s, Chain(s, size, head, tail, next, prev, live),
         size = 1, List!RemoveLast
  PROVE  ShorterBy(s, 1)
<1>1. /\ NULL \notin live /\ head = s[1] /\ next[head] = NULL /\ prev[tail] = NULL
      /\ tail = s[1] /\ \A k \in 1 .. size : s[k] \in live
      /\ next \in [Nodes -> Nodes \cup {NULL}] /\ prev \in [Nodes -> Nodes \cup {NULL}]
  BY ListFacts DEF ListInv
<1>2. List!Destroy(s[1], next, prev) /\ head' = NULL /\ tail' = NULL
  BY <1>1 DEF List!RemoveLast
<1>3. LinkedOut(s, size, 1, live, next, prev, next, prev)
  BY <1>1 DEF LinkedOut
<1>4. 1 \in 1 .. size
  OBVIOUS
<1>5. QED
  BY <1>1, <1>2, <1>3, <1>4, RemoveStep

LEMMA UnlinkHeadStep ==
  ASSUME ListInv, NEW s, Chain(s, size, head, tail, next, prev, live),
         size > 1, List!UnlinkHead
  PROVE  ShorterBy(s, 1)
<1>1. /\ NULL \notin live /\ head = s[1] /\ size \in Nat
      /\ \A k \in 1 .. size : s[k] \in live /\ s[k] \in Nodes
      /\ \A j, k \in 1 .. size : s[j] = s[k] => j = k
      /\ live \subseteq Nodes /\ prev[s[1]] = NULL
      /\ next \in [Nodes -> Nodes \cup {NULL}] /\ prev \in [Nodes -> Nodes \cup {NULL}]
  BY ListFacts DEF ListInv
<1>2. 1 \in 1 .. size /\ 2 \in 1 .. size
  BY <1>1
<1>3. next[head] = s[2] /\ Node(s, size, 1 + 1) = s[2]
  BY <1>1, <1>2 DEF Chain, Node
<1> DEFINE prevs == [prev EXCEPT ![s[2]] = NULL]
<1>4. List!Destroy(s[1], next, prevs) /\ head' = next[head] /\ tail' = tail
  BY <1>1, <1>3 DEF List!UnlinkHead
<1>5. prevs \in [Nodes -> Nodes \cup {NULL}]
  BY <1>1, <1>2
<1>6. LinkedOut(s, size, 1, live, next, prev, next, prevs)
  BY <1>1, <1>2, <1>3 DEF LinkedOut
<1> HIDE DEF prevs
<1>7. /\ head' = IF 1 = 1 THEN next[head] ELSE head
      /\ tail' = IF 1 = size THEN prev[tail] ELSE tail
  BY <1>1, <1>4
<1>8. QED
  BY <1>1, <1>2, <1>4, <1>5, <1>6, <1>7, RemoveStep

LEMMA UnlinkTailStep ==
  ASSUME ListInv, NEW s, Chain(s, size, head, tail, next, prev, live),
         size > 1, List!UnlinkTail
  PROVE  ShorterBy(s, size)
<1>1. /\ NULL \notin live /\ tail = s[size] /\ size \in Nat
      /\ \A k \in 1 .. size : s[k] \in live /\ s[k] \in Nodes
      /\ \A j, k \in 1 .. size : s[j] = s[k] => j = k
      /\ live \subseteq Nodes /\ next[s[size]] = NULL
      /\ next \in [Nodes -> Nodes \cup {NULL}] /\ prev \in [Nodes -> Nodes \cup {NULL}]
  BY ListFacts DEF ListInv
<1>2. size \in 1 .. size /\ size - 1 \in 1 .. size /\ size # size - 1
  BY <1>1
<1>3. prev[tail] = s[size - 1] /\ Node(s, size, size - 1) = s[size - 1]
  BY <1>1, <1>2 DEF Chain, Node
<1> DEFINE nexts == [next EXCEPT ![s[size - 1]] = NULL]
<1>4. List!Destroy(s[size], nexts, prev) /\ tail' = prev[tail] /\ head' = head
  BY <1>1, <1>3 DEF List!UnlinkTail
<1>5. nexts \in [Nodes -> Nodes \cup {NULL}]
  BY <1>1, <1>2
<1>6. LinkedOut(s, size, size, live, next, prev, nexts, prev)
  BY <1>1, <1>2, <1>3 DEF LinkedOut
<1> HIDE DEF nexts
<1>7. /\ head' = IF size = 1 THEN next[head] ELSE head
      /\ tail' = IF size = size THEN prev[tail] ELSE tail
  BY <1>1, <1>4
<1>8. QED
  BY <1>1, <1>2, <1>4, <1>5, <1>6, <1>7, RemoveStep

LEMMA RemoveHeadStep ==
  ASSUME ListInv, NEW s, Chain(s, size, head, tail, next, prev, live),
         List!RemoveHead
  PROVE  ShorterBy(s, 1)
<1>1. /\ size \in Nat /\ size > 0
      /\ IF size = 1 THEN List!RemoveLast ELSE List!UnlinkHead
  BY ListFacts DEF List!RemoveHead
<1>2. CASE size = 1
  BY <1>1, <1>2, LastStep
<1>3. CASE size > 1
  BY <1>1, <1>3, UnlinkHeadStep
<1>4. QED
  BY <1>1, <1>2, <1>3

LEMMA RemoveTailStep ==
  ASSUME ListInv, NEW s, Chain(s, size, head, tail, next, prev, live),
         List!RemoveTail
  PROVE  ShorterBy(s, size)
<1>1. /\ size \in Nat /\ size > 0
      /\ IF size = 1 THEN List!RemoveLast ELSE List!UnlinkTail
  BY ListFacts DEF List!RemoveTail
<1>2. CASE size = 1
  BY <1>1, <1>2, LastStep
<1>3. CASE size > 1
  BY <1>1, <1>3, UnlinkTailStep
<1>4. QED
  BY <1>1, <1>2, <1>3

LEMMA RemoveAtStep ==
  ASSUME ListInv, NEW s, Chain(s, size, head, tail, next, prev, live),
         NEW pos, List!RemoveAt(pos)
  PROVE  Aborted \/ (pos \in 0 .. size - 1 /\ ShorterBy(s, pos + 1))
<1>1. /\ NULL \notin live /\ size \in Nat
      /\ \A k \in 1 .. size : s[k] \in live /\ s[k] \in Nodes
      /\ \A j, k \in 1 .. size : s[j] = s[k] => j = k
      /\ live \subseteq Nodes
      /\ next \in [Nodes -> Nodes \cup {NULL}] /\ prev \in [Nodes -> Nodes \cup {NULL}]
  BY ListFacts DEF ListInv
<1>2. /\ pos \in 0 .. size - 1
      /\ \/ pos = 0 /\ size > 1 /\ List!UnlinkHead
         \/ List!Abort("assert") \/ List!Abort("NULL")
         \/ /\ pos > 0 /\ pos < size - 1 /\ List!NodeAt(pos) # NULL
            /\ List!Unlink(List!NodeAt(pos))
  BY DEF List!RemoveAt
<1>3. CASE pos = 0 /\ size > 1 /\ List!UnlinkHead
  BY <1>2, <1>3, UnlinkHeadStep
<1>4. CASE List!Abort("assert") \/ List!Abort("NULL")
  BY <1>4 DEF List!Abort, List!links, Aborted
<1>5. CASE /\ pos > 0 /\ pos < size - 1 /\ List!NodeAt(pos) # NULL
           /\ List!Unlink(List!NodeAt(pos))
  <2> DEFINE k == pos + 1
  <2>1. /\ k \in 1 .. size /\ k - 1 \in 1 .. size /\ k + 1 \in 1 .. size
        /\ k # 1 /\ k # size /\ k - 1 = pos /\ k # k - 1 /\ k # k + 1
    BY <1>1, <1>2, <1>5
  <2>2. List!NodeAt(pos) = s[k]
    BY <1>1, <1>2, <1>5, NodeAtIs
  <2> HIDE DEF k
  <2>3. /\ prev[s[k]] = s[k - 1] /\ Node(s, size, k - 1) = s[k - 1]
        /\ next[s[k]] = s[k + 1] /\ Node(s, size, k + 1) = s[k + 1]
    BY <2>1 DEF Chain, Node
  <2> DEFINE nexts == [next EXCEPT ![s[k - 1]] = s[k + 1]]
             prevs == [prev EXCEPT ![s[k + 1]] = s[k - 1]]
  <2>4. List!Destroy(s[k], nexts, prevs) /\ tail' = tail /\ head' = head
    BY <1>5, <2>2, <2>3 DEF List!Unlink
  <2>5. nexts \in [Nodes -> Nodes \cup {NULL}] /\ prevs \in [Nodes -> Nodes \cup {NULL}]
    BY <1>1, <2>1
  <2>6. LinkedOut(s, size, k, live, next, prev, nexts, prevs)
    BY <1>1, <2>1, <2>3 DEF LinkedOut
  <2> HIDE DEF nexts, prevs
  <2>7. /\ head' = IF k = 1 THEN next[head] ELSE head
        /\ tail' = IF k = size THEN prev[tail] ELSE tail
    BY <2>1, <2>4
  <2>8. ShorterBy(s, k)
    BY <2>1, <2>4, <2>5, <2>6, <2>7, RemoveStep
  <2>9. QED
    BY <1>2, <2>8 DEF k
<1>6. QED
  BY <1>2, <1>3, <1>4, <1>5

\* Calls that change no link: looking at an element and replacing one.
LEMMA OtherStep ==
  ASSUME ListInv, NEW id \in Ids,
         \/ List!InsertFails \/ List!AtEnds(id) \/ UNCHANGED List!vars
         \/ \E pos : List!AtPosition(pos, id)
  PROVE  /\ UNCHANGED <<head, tail, size, next, prev, live>>
         /\ tid' \in [Nodes -> Ids \cup {NoId}] /\ result' \in Ids \cup {NoId}
<1>1. tid \in [Nodes -> Ids \cup {NoId}] /\ result \in Ids \cup {NoId}
  BY DEF ListInv
<1>2. ASSUME NEW n \in Nodes, List!Get(n) \/ List!Set(n, id)
      PROVE  /\ UNCHANGED <<head, tail, size, next, prev, live>>
             /\ tid' \in [Nodes -> Ids \cup {NoId}] /\ result' \in Ids \cup {NoId}
  BY <1>1, <1>2 DEF List!Get, List!Set, List!links
<1>3. CASE List!InsertFails \/ List!Abort("NULL") \/ UNCHANGED List!vars
  BY <1>1, <1>3 DEF List!InsertFails, List!Abort, List!vars, List!links
<1>4. PICK s : Chain(s, size, head, tail, next, prev, live)
  BY DEF ListInv
<1>5. /\ NULL \notin live /\ size \in Nat /\ \A k \in 1 .. size : s[k] \in Nodes
      /\ size > 0 => head = s[1] /\ tail = s[size]
  BY <1>4, ListFacts
<1>6. size > 0 => head \in Nodes /\ tail \in Nodes
  BY <1>5
<1>7. CASE List!AtEnds(id)
  BY <1>2, <1>6, <1>7 DEF List!AtEnds
<1>8. CASE \E pos : List!AtPosition(pos, id)
  <2>1. PICK pos : List!AtPosition(pos, id)
    BY <1>8
  <2>2. /\ pos \in 0 .. size - 1
        /\ IF List!NodeAt(pos) = NULL THEN List!Abort("NULL")
           ELSE List!Get(List!NodeAt(pos)) \/ List!Set(List!NodeAt(pos), id)
    BY <2>1 DEF List!AtPosition
  <2>3. List!NodeAt(pos) # NULL => List!NodeAt(pos) \in Nodes
    <3>1. \/ List!NodeAt(pos) = s[pos + 1] \/ List!NodeAt(pos) = NULL
          \/ List!NodeAt(pos) = head
      BY <1>4, <1>5, <2>2, NodeAtIs
    <3>2. size > 0 /\ pos + 1 \in 1 .. size
      BY <1>5, <2>2
    <3>3. QED
      BY <1>5, <1>6, <3>1, <3>2
  <2>4. QED
    BY <1>2, <1>3, <2>2, <2>3
<1>9. QED
  BY <1>3, <1>7, <1>8

\* The finite sets and sizes the list's module sees are the ones seen here.
LEMMA SameFiniteSets ==
  ASSUME NEW S
  PROVE  /\ List!IsFiniteSet(S) <=> IsFiniteSet(S)
         /\ List!Cardinality(S) = Cardinality(S)
<1>1. List!IsFiniteSet(S) <=> IsFiniteSet(S)
  BY DEF List!IsFiniteSet, IsFiniteSet
<1>2. List!Cardinality(S) = Cardinality(S)
  BY <1>1 DEF List!Cardinality, Cardinality
<1>3. QED
  BY <1>1, <1>2

LEMMA LongerKeepsListInv ==
  ASSUME ListInv, NEW s, NEW p, NEW id \in Ids \cup {NoId}, NEW n,
         LongerBy(s, p, id, n)
  PROVE  ListInv'
<1>0. IsFiniteSet(Nodes)
  BY ListAssumption, SameFiniteSets DEF List!ListConstants
<1>1. live \subseteq Nodes /\ n \in Nodes /\ n \notin live
  BY DEF ListInv, LongerBy
<1>2. IsFiniteSet(live)
  BY <1>0, <1>1, FS_Subset
<1>3. Cardinality(live \cup {n}) = Cardinality(live) + 1
  BY <1>1, <1>2, FS_AddElement
<1>4. live' \subseteq Nodes /\ Cardinality(live') = size'
  BY <1>1, <1>3 DEF ListInv, LongerBy
<1>5. tid' \in [Nodes -> Ids \cup {NoId}] /\ result' \in Ids \cup {NoId}
  BY DEF ListInv, LongerBy
<1>6. QED
  BY <1>4, <1>5 DEF ListInv, LongerBy

LEMMA ShorterKeepsListInv ==
  ASSUME ListInv, NEW s, Chain(s, size, head, tail, next, prev, live), NEW k,
         ShorterBy(s, k)
  PROVE  ListInv'
<1>0. IsFiniteSet(Nodes)
  BY ListAssumption, SameFiniteSets DEF List!ListConstants
<1>1. live \subseteq Nodes /\ s[k] \in live /\ size \in Nat
  <2>1. live \subseteq Nodes /\ k \in 1 .. size
    BY DEF ListInv, ShorterBy
  <2>2. QED
    BY <2>1, ListFacts
<1>2. IsFiniteSet(live)
  BY <1>0, <1>1, FS_Subset
<1>3. Cardinality(live \ {s[k]}) = Cardinality(live) - 1
  BY <1>1, <1>2, FS_RemoveElement
<1>4. live' \subseteq Nodes /\ Cardinality(live') = size'
  BY <1>1, <1>3 DEF ListInv, ShorterBy
<1>5. tid' \in [Nodes -> Ids \cup {NoId}] /\ result' \in Ids \cup {NoId}
  BY <1>1 DEF ListInv, ShorterBy
<1>6. QED
  BY <1>4, <1>5 DEF ListInv, ShorterBy

LEMMA ListInit == List!Init => ListInv
<1> SUFFICES ASSUME List!Init PROVE ListInv
  OBVIOUS
<1>1. /\ live = {} /\ size = 0 /\ head = NULL /\ tail = NULL
      /\ next \in [Nodes -> Nodes \cup {NULL}] /\ prev \in [Nodes -> Nodes \cup {NULL}]
      /\ tid \in [Nodes -> Ids \cup {NoId}] /\ result \in Ids \cup {NoId}
  BY DEF List!Init
<1>2. Chain([k \in 1 .. 0 |-> NULL], size, head, tail, next, prev, live)
  BY <1>1 DEF Chain, Node
<1>3. QED
  BY <1>1, <1>2, FS_EmptySet DEF ListInv

LEMMA NextKeepsListInv == ListInv /\ [List!Next]_(List!vars) => ListInv'
<1> SUFFICES ASSUME ListInv, [List!Next]_(List!vars) PROVE ListInv'
  OBVIOUS
<1>1. PICK s : Chain(s, size, head, tail, next, prev, live)
  BY DEF ListInv
<1>2. CASE UNCHANGED List!vars
  BY <1>2 DEF List!vars, List!links, ListInv
<1>3. CASE List!InsertFails
  BY <1>3 DEF List!InsertFails, List!links, ListInv
<1>4. CASE List!RemoveHead
  BY <1>1, <1>4, RemoveHeadStep, ShorterKeepsListInv
<1>5. CASE List!RemoveTail
  BY <1>1, <1>5, RemoveTailStep, ShorterKeepsListInv
<1>6. CASE Aborted
  BY <1>6 DEF Aborted, ListInv
<1>7. ASSUME NEW pos, List!RemoveAt(pos) PROVE ListInv'
  BY <1>1, <1>6, <1>7, RemoveAtStep, ShorterKeepsListInv
<1>8. ASSUME NEW id \in Ids, List!InsertHead(id) PROVE ListInv'
  BY <1>1, <1>8, InsertHeadStep, LongerKeepsListInv
<1>9. ASSUME NEW id \in Ids, List!InsertTail(id) PROVE ListInv'
  BY <1>1, <1>9, InsertTailStep, LongerKeepsListInv
<1>10. ASSUME NEW id \in Ids, NEW pos, List!InsertAt(pos, id) PROVE ListInv'
  BY <1>1, <1>6, <1>10, InsertAtStep, LongerKeepsListInv
<1>11. ASSUME NEW id \in Ids,
              List!AtEnds(id) \/ \E pos : List!AtPosition(pos, id)
       PROVE  ListInv'
  <2>1. /\ UNCHANGED <<head, tail, size, next, prev, live>>
        /\ tid' \in [Nodes -> Ids \cup {NoId}] /\ result' \in Ids \cup {NoId}
    BY <1>11, OtherStep
  <2>2. QED
    BY <2>1 DEF ListInv
<1>12. QED
  BY <1>2, <1>3, <1>4, <1>5, <1>7, <1>8, <1>9, <1>10, <1>11 DEF List!Next

LEMMA ListAlwaysInv == List!Spec => []ListInv
BY ListInit, NextKeepsListInv, PTL DEF List!Spec

\* After any calls the allocated nodes are one chain, linked both ways, of the
\* recorded size; a call that a helper refuses leaves it as it is.
THEOREM AlwaysWellLinked == List!Spec => []WellLinked
<1>1. ASSUME ListInv
      PROVE  WellLinked
  <2> DEFINE node == [k \in 1 .. size |-> List!Follow(next, k - 1)]
  <2>1. PICK s : Chain(s, size, head, tail, next, prev, live)
    BY <1>1 DEF ListInv
  <2>2. /\ NULL \notin live /\ size \in Nat
        /\ \A k \in 1 .. size : s[k] \in live
        /\ size = 0 => head = NULL /\ tail = NULL /\ live = {}
        /\ size > 0 => /\ head = s[1] /\ tail = s[size]
                       /\ next[s[size]] = NULL /\ prev[s[1]] = NULL
    BY <1>1, <2>1, ListFacts
  <2>3. ASSUME NEW k \in 1 .. size
        PROVE  node[k] = s[k]
    <3>1. k - 1 \in 0 .. size - 1 /\ (k - 1) + 1 = k
      BY <2>2
    <3>2. List!Follow(next, k - 1) = s[(k - 1) + 1]
      BY <2>1, <2>2, <3>1, FollowNext
    <3>3. QED
      BY <3>1, <3>2
  <2>4. \A k \in 1 .. size : k \in 2 .. size => prev[s[k]] = s[k - 1]
    BY <2>1, <2>2 DEF Chain, Node
  <2> HIDE DEF node
  <2>5. {node[k] : k \in 1 .. size} = live
    <3>1. \A x \in live : \E k \in 1 .. size : s[k] = x
      BY <2>1 DEF Chain
    <3>2. QED
      BY <2>2, <2>3, <3>1
  <2>6. Cardinality(live) = size
    BY <1>1 DEF ListInv
  <2>7. IF size = 0 THEN head = NULL /\ tail = NULL
        ELSE node[size] = tail /\ next[tail] = NULL /\ prev[head] = NULL
    BY <2>2, <2>3
  <2>8. \A k \in 2 .. size : prev[node[k]] = node[k - 1]
    <3>1. \A k \in 2 .. size : k \in 1 .. size /\ k - 1 \in 1 .. size
      BY <2>2
    <3>2. QED
      BY <2>3, <2>4, <3>1
  <2>9. QED
    BY <2>5, <2>6, <2>7, <2>8, SameFiniteSets DEF WellLinked, List!WellLinked, node
<1>2. QED
  BY <1>1, ListAlwaysInv, PTL

-----------------------------------------------------------------------------
(* The list used at its ends is a sequence *)

\* The list's contents, read off the chain s.
IdsOf(s) ==
  ListInv /\ Chain(s, size, head, tail, next, prev, live) =>
    /\ List!Contents \in Seq(Ids \cup {NoId}) /\ Len(List!Contents) = size
    /\ size \in Nat
    /\ \A k \in 1 .. size : List!Contents[k] = tid[s[k]]

LEMMA ContentsAre == \A s : IdsOf(s)
<1> SUFFICES ASSUME NEW s, ListInv, Chain(s, size, head, tail, next, prev, live)
             PROVE  /\ List!Contents \in Seq(Ids \cup {NoId})
                    /\ Len(List!Contents) = size /\ size \in Nat
                    /\ \A k \in 1 .. size : List!Contents[k] = tid[s[k]]
  BY DEF IdsOf
<1>1. /\ NULL \notin live /\ size \in Nat /\ \A k \in 1 .. size : s[k] \in Nodes
      /\ tid \in [Nodes -> Ids \cup {NoId}]
  BY ListFacts DEF ListInv
<1>2. ASSUME NEW k \in 1 .. size
      PROVE  List!Follow(next, k - 1) = s[k]
  <2>1. k - 1 \in 0 .. size - 1 /\ (k - 1) + 1 = k
    BY <1>1
  <2>2. List!Follow(next, k - 1) = s[(k - 1) + 1]
    BY <1>1, <2>1, FollowNext
  <2>3. QED
    BY <2>1, <2>2
<1>3. List!Contents = [k \in 1 .. size |-> tid[List!Follow(next, k - 1)]]
  BY DEF List!Contents
<1>4. \A k \in 1 .. size : List!Contents[k] = tid[s[k]]
  BY <1>2, <1>3
<1>5. List!Contents \in [1 .. size -> Ids \cup {NoId}]
  BY <1>1, <1>2, <1>3
<1>6. QED
  BY <1>1, <1>4, <1>5

LEMMA ContentsBecome == (\A s : IdsOf(s))'
BY ContentsAre, PTL

\* A sequence with an element more at one of its ends.
LEMMA LongerAtEnds ==
  ASSUME NEW S, NEW m \in Nat, NEW c \in Seq(S), NEW d \in Seq(S), NEW id \in S,
         NEW p \in {0, m}, Len(c) = m, Len(d) = m + 1,
         \A k \in 1 .. m + 1 :
           d[k] = IF k <= p THEN c[k] ELSE IF k = p + 1 THEN id ELSE c[k - 1]
  PROVE  d \in {<<id>> \o c, Append(c, id)}
<1>1. CASE p = 0
  <2>1. /\ <<id>> \in Seq(S) /\ Len(<<id>>) = 1 /\ <<id>>[1] = id
    OBVIOUS
  <2>2. /\ <<id>> \o c \in Seq(S) /\ Len(<<id>> \o c) = m + 1
        /\ \A k \in 1 .. m + 1 : (<<id>> \o c)[k] = IF k <= 1 THEN <<id>>[k] ELSE c[k - 1]
    BY <2>1, ConcatProperties
  <2>3. \A k \in 1 .. m + 1 : (<<id>> \o c)[k] = d[k]
    BY <1>1, <2>1, <2>2
  <2>4. QED
    BY <2>2, <2>3, SeqEqual
<1>2. CASE p = m
  <2>1. /\ Append(c, id) \in Seq(S) /\ Len(Append(c, id)) = m + 1
        /\ \A k \in 1 .. m : Append(c, id)[k] = c[k]
        /\ Append(c, id)[m + 1] = id
    BY AppendProperties
  <2>2. \A k \in 1 .. m + 1 : Append(c, id)[k] = d[k]
    BY <1>2, <2>1
  <2>3. QED
    BY <2>1, <2>2, SeqEqual
<1>3. QED
  BY <1>1, <1>2

LEMMA LongerInserts ==
  ASSUME ListInv, ListInv', NEW s, Chain(s, size, head, tail, next, prev, live),
         NEW id \in Ids, NEW p \in {0, size}, NEW n, LongerBy(s, p, id, n)
  PROVE  List!IdList!Insert(id)
<1> DEFINE r == Inserted(s, size, p, n)
<1>1. /\ List!Contents \in Seq(Ids \cup {NoId}) /\ Len(List!Contents) = size
      /\ size \in Nat /\ \A k \in 1 .. size : List!Contents[k] = tid[s[k]]
  BY ContentsAre DEF IdsOf
<1>2. /\ Chain(r, size', head', tail', next', prev', live')
      /\ size' = size + 1 /\ tid' = [tid EXCEPT ![n] = id] /\ result' = NoId
      /\ n \in Nodes \ live
  BY DEF LongerBy
<1>3. /\ List!Contents' \in Seq(Ids \cup {NoId}) /\ Len(List!Contents') = size + 1
      /\ \A k \in 1 .. size + 1 : List!Contents'[k] = tid'[r[k]]
  BY <1>2, ContentsBecome DEF IdsOf
<1>4. tid \in [Nodes -> Ids \cup {NoId}] /\ live \subseteq Nodes
      /\ \A k \in 1 .. size : s[k] \in live
  BY ListFacts DEF ListInv
<1>5. \A k \in 1 .. size + 1 :
        r[k] = IF k <= p THEN s[k] ELSE IF k = p + 1 THEN n ELSE s[k - 1]
  BY DEF Inserted
<1> HIDE DEF r
<1>6. /\ tid'[n] = id
      /\ \A k \in 1 .. size : tid'[s[k]] = List!Contents[k]
  BY <1>1, <1>2, <1>4
<1>7. \A k \in 1 .. size + 1 :
        List!Contents'[k] = IF k <= p THEN List!Contents[k]
                            ELSE IF k = p + 1 THEN id ELSE List!Contents[k - 1]
  BY <1>1, <1>3, <1>5, <1>6
<1>8. List!Contents' \in {<<id>> \o List!Contents, Append(List!Contents, id)}
  BY <1>1, <1>3, <1>7, LongerAtEnds
<1>9. QED
  BY <1>2, <1>8 DEF List!IdList!Insert

LEMMA ShorterRemoves ==
  ASSUME ListInv, ListInv', NEW s, Chain(s, size, head, tail, next, prev, live),
         NEW k \in {1, size}, ShorterBy(s, k)
  PROVE  List!IdList!RemoveHead \/ List!IdList!RemoveTail
<1> DEFINE r == Removed(s, size, k)
           c == List!Contents
           d == List!Contents'
           S == Ids \cup {NoId}
<1>1. /\ c \in Seq(S) /\ Len(c) = size
      /\ size \in Nat /\ \A i \in 1 .. size : c[i] = tid[s[i]]
  BY ContentsAre DEF IdsOf
<1>2. /\ Chain(r, size', head', tail', next', prev', live')
      /\ size' = size - 1 /\ tid' = [tid EXCEPT ![s[k]] = NoId]
      /\ result' = tid[s[k]] /\ k \in 1 .. size
  BY DEF ShorterBy
<1>3. /\ d \in Seq(S) /\ Len(d) = size - 1
      /\ \A i \in 1 .. size - 1 : d[i] = tid'[r[i]]
  BY <1>2, ContentsBecome DEF IdsOf
<1>4. /\ tid \in [Nodes -> S] /\ \A i \in 1 .. size : s[i] \in Nodes
      /\ \A i, j \in 1 .. size : s[i] = s[j] => i = j
  BY ListFacts DEF ListInv
<1>5. \A i \in 1 .. size - 1 : r[i] = IF i < k THEN s[i] ELSE s[i + 1]
  BY DEF Removed
<1> HIDE DEF r, c, d
<1>6. \A i \in 1 .. size : i # k => tid'[s[i]] = c[i]
  BY <1>1, <1>2, <1>4
<1>7. \A i \in 1 .. size - 1 : d[i] = IF i < k THEN c[i] ELSE c[i + 1]
  BY <1>1, <1>2, <1>3, <1>5, <1>6
<1>8. c # <<>> /\ Len(c) > 0 /\ result' = c[k]
  BY <1>1, <1>2
<1>9. CASE k = 1
  <2>1. /\ Tail(c) \in Seq(S) /\ Len(Tail(c)) = size - 1
        /\ \A i \in 1 .. size - 1 : Tail(c)[i] = c[i + 1]
    BY <1>1, <1>8, HeadTailProperties
  <2>2. \A i \in 1 .. size - 1 : d[i] = Tail(c)[i]
    BY <1>7, <1>9, <2>1
  <2>3. d = Tail(c)
    BY <1>3, <2>1, <2>2, SeqEqual
  <2>4. Head(c) = c[1]
    BY <1>1, <1>8
  <2>5. QED
    BY <1>8, <1>9, <2>3, <2>4 DEF List!IdList!RemoveHead, c, d
<1>10. CASE k = size
  <2>1. \A i \in 1 .. size - 1 : c[i] \in S
    BY <1>1, ElementOfSeq
  <2>2. /\ SubSeq(c, 1, size - 1) \in Seq(S)
        /\ Len(SubSeq(c, 1, size - 1)) = size - 1
        /\ \A i \in 1 .. size - 1 : SubSeq(c, 1, size - 1)[i] = c[i]
    <3>1. size - 1 \in Int /\ 1 \in Int /\ (size - 1) - 1 + 1 = size - 1
          /\ (~ 1 <= size - 1 => size - 1 = 0)
      BY <1>1, <1>2
    <3>2. /\ SubSeq(c, 1, size - 1) \in Seq(S)
          /\ Len(SubSeq(c, 1, size - 1))
               = IF 1 <= size - 1 THEN (size - 1) - 1 + 1 ELSE 0
          /\ \A i \in 1 .. (size - 1) - 1 + 1 :
               SubSeq(c, 1, size - 1)[i] = c[1 + i - 1]
      BY <2>1, <3>1, SubSeqProperties
    <3>3. QED
      BY <1>1, <3>1, <3>2
  <2>3. \A i \in 1 .. size - 1 : d[i] = SubSeq(c, 1, size - 1)[i]
    BY <1>1, <1>7, <1>10, <2>2
  <2>4. d = SubSeq(c, 1, size - 1)
    BY <1>3, <2>2, <2>3, SeqEqual
  <2>5. QED
    BY <1>1, <1>8, <1>10, <2>4 DEF List!IdList!RemoveTail, c, d
<1>11. QED
  BY <1>9, <1>10

\* Reading or overwriting the first or the last id.
LEMMA EndsLookOrReplace ==
  ASSUME ListInv, ListInv', NEW s, Chain(s, size, head, tail, next, prev, live),
         NEW id \in Ids, List!AtEnds(id)
  PROVE  \E k \in {1, Len(List!Contents)} \cap DOMAIN List!Contents :
           List!IdList!Look(k) \/ List!IdList!Replace(k, id)
<1> DEFINE c == List!Contents
           d == List!Contents'
           S == Ids \cup {NoId}
<1>1. /\ c \in Seq(S) /\ Len(c) = size
      /\ size \in Nat /\ \A i \in 1 .. size : c[i] = tid[s[i]]
  BY ContentsAre DEF IdsOf
<1>2. /\ UNCHANGED <<head, tail, size, next, prev, live>>
      /\ size > 0 /\ \E n \in {head, tail} : List!Get(n) \/ List!Set(n, id)
  BY OtherStep DEF List!AtEnds
<1>3. /\ d \in Seq(S) /\ Len(d) = size
      /\ \A i \in 1 .. size : d[i] = tid'[s[i]]
  BY <1>2, ContentsBecome DEF IdsOf
<1>4. /\ tid \in [Nodes -> S] /\ \A i \in 1 .. size : s[i] \in Nodes
      /\ \A i, j \in 1 .. size : s[i] = s[j] => i = j
      /\ size > 0 => head = s[1] /\ tail = s[size]
  BY ListFacts DEF ListInv
<1> HIDE DEF c, d
<1>5. PICK k \in {1, size} : List!Get(s[k]) \/ List!Set(s[k], id)
  BY <1>2, <1>4
<1>6. k \in 1 .. size /\ k \in {1, Len(c)} \cap DOMAIN c
  BY <1>1, <1>2, <1>5
<1>7. CASE List!Get(s[k])
  <2>1. tid' = tid /\ result' = tid[s[k]]
    BY <1>7 DEF List!Get
  <2>2. \A i \in 1 .. size : d[i] = c[i]
    BY <1>1, <1>3, <2>1
  <2>3. d = c
    BY <1>1, <1>3, <2>2, SeqEqual
  <2>4. result' = c[k]
    BY <1>1, <1>6, <2>1
  <2>5. List!IdList!Look(k)
    BY <2>3, <2>4 DEF List!IdList!Look, c, d
  <2>6. QED
    BY <1>6, <2>5 DEF c
<1>8. CASE List!Set(s[k], id)
  <2>1. tid' = [tid EXCEPT ![s[k]] = id] /\ result' = NoId
    BY <1>8 DEF List!Set
  <2>2. /\ [c EXCEPT ![k] = id] \in Seq(S) /\ Len([c EXCEPT ![k] = id]) = size
        /\ \A i \in 1 .. size : [c EXCEPT ![k] = id][i] = IF i = k THEN id ELSE c[i]
    BY <1>1, <1>6, ExceptSeq
  <2>3. \A i \in 1 .. size : d[i] = IF i = k THEN id ELSE c[i]
    BY <1>1, <1>3, <1>4, <1>6, <2>1
  <2>4. d = [c EXCEPT ![k] = id]
    <3>1. \A i \in 1 .. size : d[i] = [c EXCEPT ![k] = id][i]
      BY <2>2, <2>3
    <3>2. QED
      BY <1>3, <2>2, <3>1, SeqEqual
  <2>5. List!IdList!Replace(k, id)
    BY <2>1, <2>4 DEF List!IdList!Replace, c, d
  <2>6. QED
    BY <1>6, <2>5 DEF c
<1>9. QED
  BY <1>5, <1>7, <1>8

\* Steps that leave the nodes and their ids alone leave the contents alone.
LEMMA SameContents ==
  ASSUME ListInv, ListInv',
         UNCHANGED <<head, tail, size, next, prev, live, tid>>
  PROVE  List!Contents' = List!Contents
<1>1. PICK s : Chain(s, size, head, tail, next, prev, live)
  BY DEF ListInv
<1>2. /\ List!Contents \in Seq(Ids \cup {NoId}) /\ Len(List!Contents) = size
      /\ size \in Nat /\ \A i \in 1 .. size : List!Contents[i] = tid[s[i]]
  BY <1>1, ContentsAre DEF IdsOf
<1>3. /\ List!Contents' \in Seq(Ids \cup {NoId}) /\ Len(List!Contents') = size
      /\ \A i \in 1 .. size : List!Contents'[i] = tid[s[i]]
  BY <1>1, ContentsBecome DEF IdsOf
<1>4. QED
  BY <1>2, <1>3, SeqEqual

\* A failed insertion is an insertion that adds nothing; where there is no id to
\* insert, nothing was ever returned and the call changes nothing.
LEMMA FailedInsertion ==
  ASSUME ListInv, ListInv', List!InsertFails
  PROVE  \/ \E id \in Ids : List!IdList!Insert(id)
         \/ UNCHANGED <<List!Contents, result>>
<1>1. /\ UNCHANGED <<head, tail, size, next, prev, live, tid>> /\ result' = NoId
      /\ result \in Ids \cup {NoId}
  BY DEF List!InsertFails, List!links, ListInv
<1>2. List!Contents' = List!Contents
  BY <1>1, SameContents
<1>3. CASE \E id \in Ids : TRUE
  BY <1>1, <1>2, <1>3 DEF List!IdList!Insert
<1>4. CASE Ids = {}
  BY <1>1, <1>2, <1>4
<1>5. QED
  BY <1>3, <1>4

\* There is nothing in a new list.
LEMMA EmptyContents == List!Init => List!IdList!Init
<1> SUFFICES ASSUME List!Init PROVE List!IdList!Init
  OBVIOUS
<1>1. PICK s : Chain(s, size, head, tail, next, prev, live)
  BY ListInit DEF ListInv
<1>2. List!Contents \in Seq(Ids \cup {NoId}) /\ Len(List!Contents) = 0
  BY <1>1, ListInit, ContentsAre DEF IdsOf, List!Init
<1>3. List!Contents = <<>>
  BY <1>2, EmptySeq, SeqEqual
<1>4. QED
  BY <1>3 DEF List!IdList!Init, List!Init

LEMMA StepImplementsIdList ==
  ListInv /\ ListInv' /\ [List!Next]_(List!vars)
    => [List!IdList!Next \/ List!Positioned]_<<List!Contents, result>>
<1> SUFFICES ASSUME ListInv, ListInv', [List!Next]_(List!vars),
                    ~ UNCHANGED <<List!Contents, result>>
             PROVE  List!IdList!Next \/ List!Positioned
  OBVIOUS
<1>1. PICK s : Chain(s, size, head, tail, next, prev, live)
  BY DEF ListInv
<1>2. UNCHANGED List!vars => UNCHANGED <<List!Contents, result>>
  BY SameContents DEF List!vars, List!links
<1>3. CASE List!InsertFails
  BY <1>3, FailedInsertion DEF List!IdList!Next
<1>4. CASE List!RemoveHead
  BY <1>1, <1>4, RemoveHeadStep, ShorterRemoves DEF List!IdList!Next
<1>5. CASE List!RemoveTail
  BY <1>1, <1>5, RemoveTailStep, ShorterRemoves DEF List!IdList!Next
<1>6. ASSUME NEW pos \in 0 .. List!Cardinality(Nodes), List!RemoveAt(pos)
      PROVE  List!Positioned
  BY <1>6 DEF List!Positioned
<1>7. ASSUME NEW id \in Ids, List!InsertHead(id)
      PROVE  List!IdList!Next
  <2>1. PICK n : LongerBy(s, 0, id, n)
    BY <1>1, <1>7, InsertHeadStep
  <2>2. List!IdList!Insert(id)
    BY <1>1, <2>1, LongerInserts
  <2>3. QED
    BY <2>2 DEF List!IdList!Next
<1>8. ASSUME NEW id \in Ids, List!InsertTail(id)
      PROVE  List!IdList!Next
  <2>1. PICK n : LongerBy(s, size, id, n)
    BY <1>1, <1>8, InsertTailStep
  <2>2. List!IdList!Insert(id)
    BY <1>1, <2>1, LongerInserts
  <2>3. QED
    BY <2>2 DEF List!IdList!Next
<1>9. ASSUME NEW id \in Ids, List!AtEnds(id)
      PROVE  List!IdList!Next
  BY <1>1, <1>9, EndsLookOrReplace DEF List!IdList!Next
<1>10. ASSUME NEW id \in Ids, NEW pos \in 0 .. List!Cardinality(Nodes),
              List!InsertAt(pos, id) \/ List!AtPosition(pos, id)
       PROVE  List!Positioned
  BY <1>10 DEF List!Positioned
<1>11. QED
  BY <1>2, <1>3, <1>4, <1>5, <1>6, <1>7, <1>8, <1>9, <1>10 DEF List!Next

\* Used at its ends, the list of doubly_linked_list.c is the sequence of the ids
\* put in and not taken out: every call there is a call of the sequence, and
\* returns what it returns, whatever calls by position came in between.
THEOREM EndsAlwaysImplementIdList == List!Spec => EndsImplementIdList
<1>1. List!Spec => [][List!IdList!Next \/ List!Positioned]_<<List!Contents, result>>
  BY StepImplementsIdList, ListAlwaysInv, PTL DEF List!Spec
<1>2. QED
  BY <1>1, EmptyContents, PTL DEF List!Spec, EndsImplementIdList, List!EndsImplementIdList

=============================================================================
