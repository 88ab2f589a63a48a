----------------------------- MODULE Systemcalls -----------------------------
(***************************************************************************)
(* examples/systemcalls/systemcalls.c: do_system, do_exec and              *)
(* do_exec_redirect, called one after the other by one program, and the    *)
(* processes the last two fork.  A process is named by the number of the   *)
(* call that forked it.  An interrupted waitpid leaves its child behind,   *)
(* which then runs on beside the later calls.                              *)
(*                                                                         *)
(* Text is told apart by who produced it.  All calls that redirect use one *)
(* output file; the standard input of the caller is open.                  *)
(***************************************************************************)
EXTENDS Integers

CONSTANT MaxCalls      \* bound on the calls the program makes

Calls       == 1 .. MaxCalls
CallersText == 0       \* the name of the caller's text

VARIABLES
  stdout,      \* has the caller its standard output open
  printed,     \* is text of the caller waiting in its stdio buffer
  now, doing,  \* the current call, and is it in waitpid or has it returned
  call,        \* the function called
  ok,          \* what each call has returned
  at,          \* where each child is
  out,         \* what the standard output of each child is
  unflushed,   \* has the child's copy of the stdio buffer the caller's text
  status,      \* how each child has ended
  file         \* whose text is in the output file

caller   == <<stdout, printed>>
children == <<at, out, unflushed, status, file>>
vars     == <<caller, now, doing, call, ok, children>>

Become(c, place) == at' = [at EXCEPT ![c] = place]

Init ==
  /\ stdout \in BOOLEAN /\ printed = FALSE
  /\ now = 0 /\ doing = "nothing"
  /\ call = [c \in Calls |-> "none"] /\ ok = [c \in Calls |-> FALSE]
  /\ at = [c \in Calls |-> "none"] /\ out = [c \in Calls |-> "closed"]
  /\ unflushed = [c \in Calls |-> FALSE]
  /\ status = [c \in Calls |-> "none"]
  /\ file = {}

-----------------------------------------------------------------------------
(* The caller *)

\* It prints something between the calls, or its buffer is written out.
Printf ==
  /\ doing = "nothing"
  /\ printed' = ~printed
  /\ UNCHANGED <<stdout, now, doing, call, ok, children>>

Calling(function) ==
  /\ doing = "nothing" /\ now < MaxCalls
  /\ now' = now + 1
  /\ call' = [call EXCEPT ![now + 1] = function]

\* do_system.  The command's own exit status does not matter unless it is the
\* 127 of a shell that could not run it; without a command it returns false.
DoSystem ==
  /\ Calling("do_system")
  /\ \E result \in {"error", "zero", "nonzero", "127", "signal", "no command"} :
       ok' = [ok EXCEPT ![now + 1] = result \in {"zero", "nonzero"}]
  /\ UNCHANGED <<caller, doing, children>>

\* do_exec and do_exec_redirect up to waitpid
Fork ==
  /\ \/ Calling("do_exec") /\ Become(now + 1, "execv")
     \/ Calling("do_exec_redirect") /\ Become(now + 1, "creat")
  /\ out' = [out EXCEPT ![now + 1] = IF stdout THEN "stdout" ELSE "closed"]
  /\ unflushed' = [unflushed EXCEPT ![now + 1] = printed]
  /\ doing' = "waitpid"
  /\ UNCHANGED <<caller, ok, status, file>>

ForkFails ==
  /\ Calling("do_exec") \/ Calling("do_exec_redirect")
  /\ UNCHANGED <<caller, doing, ok, children>>

\* Mutant: the first child to end is taken for the one just forked.
WaitForAny ==
  /\ doing = "waitpid"
  /\ \E c \in Calls :
       /\ at[c] = "zombie"
       /\ Become(c, "reaped")
       /\ ok' = [ok EXCEPT ![now] = status[c] = "zero"]
  /\ doing' = "nothing"
  /\ UNCHANGED <<caller, now, call, out, unflushed, status, file>>

\* waitpid, and what is made of the status word.
Wait ==
  /\ doing = "waitpid"
  /\ at[now] = "zombie"
  /\ Become(now, "reaped")
  /\ ok' = [ok EXCEPT ![now] = status[now] = "zero"]
  /\ doing' = "nothing"
  /\ UNCHANGED <<caller, now, call, out, unflushed, status, file>>

\* waitpid fails with EINTR, in a program that catches a signal.
WaitFails ==
  /\ doing = "waitpid" /\ doing' = "nothing"
  /\ UNCHANGED <<caller, now, call, ok, children>>

-----------------------------------------------------------------------------
(* The children: do_exec_child and do_exec_redirect_child *)

Child(c, from, to) ==
  /\ at[c] = from /\ Become(c, to)
  /\ UNCHANGED <<caller, now, doing, call, ok, unflushed>>

\* Mutant: the file is opened without being emptied.
CreatKeeping(c) ==
  /\ Child(c, "creat", "close")
  /\ out' = IF stdout THEN out ELSE [out EXCEPT ![c] = "file"]
  /\ UNCHANGED <<status, file>>

\* creat empties the file.  If the caller has closed its standard output, the
\* descriptor it returns is that one.
Creat(c) ==
  /\ Child(c, "creat", "close")
  /\ out' = IF stdout THEN out ELSE [out EXCEPT ![c] = "file"]
  /\ file' = {}
  /\ UNCHANGED status

CloseStdout(c) ==
  /\ Child(c, "close", "dup2")
  /\ out' = [out EXCEPT ![c] = "closed"]
  /\ UNCHANGED <<status, file>>

\* Mutant: the result of dup2 is not looked at.
Dup2Unchecked(c) ==
  /\ Child(c, "dup2", "close out_fd")
  /\ out' = IF stdout THEN [out EXCEPT ![c] = "file"] ELSE out
  /\ UNCHANGED <<status, file>>

\* dup2 of out_fd, which fails if the close before was that of out_fd itself.
Dup2(c) ==
  /\ stdout
  /\ Child(c, "dup2", "close out_fd")
  /\ out' = [out EXCEPT ![c] = "file"]
  /\ UNCHANGED <<status, file>>

CloseOutFd(c) ==
  /\ Child(c, "close out_fd", "execv")
  /\ UNCHANGED <<out, status, file>>

Execv(c) ==
  /\ Child(c, "execv", "command")
  /\ UNCHANGED <<out, status, file>>

CanFail == {"creat", "close", "dup2", "close out_fd", "execv"}

\* Mutant: without exit() the child returns into its copy of the caller.
ChildReturns(c) ==
  /\ at[c] \in CanFail
  /\ Child(c, at[c], "returned")
  /\ UNCHANGED <<out, status, file>>

\* A call fails.  (The close of out_fd that follows changes nothing exit() does
\* not.)
ChildFails(c) ==
  /\ at[c] \in CanFail
  /\ Child(c, at[c], "exit")
  /\ UNCHANGED <<out, status, file>>

\* exit(EXIT_FAILURE) writes out the stdio buffer inherited from the caller.
Exit(c) ==
  /\ Child(c, "exit", "zombie")
  /\ status' = [status EXCEPT ![c] = "other"]
  /\ file' = file \cup {w \in {CallersText} : unflushed[c] /\ out[c] = "file"}
  /\ UNCHANGED out

\* The command writes to its standard output.
Output(c) ==
  /\ Child(c, "command", "command")
  /\ out[c] = "file" /\ file' = file \cup {c}
  /\ UNCHANGED <<out, status>>

\* With status zero, or with another or by a signal.
CommandEnds(c) ==
  /\ Child(c, "command", "zombie")
  /\ \E how \in {"zero", "other"} : status' = [status EXCEPT ![c] = how]
  /\ UNCHANGED <<out, file>>

ChildStep(c) ==
  \/ Creat(c) \/ CloseStdout(c) \/ Dup2(c) \/ CloseOutFd(c) \/ Execv(c)
  \/ ChildFails(c) \/ Exit(c) \/ CommandEnds(c)

Next ==
  \/ Printf \/ DoSystem \/ Fork \/ ForkFails \/ Wait \/ WaitFails
  \/ \E c \in Calls : ChildStep(c) \/ Output(c)

Spec == Init /\ [][Next]_vars

\* Processes run on, and the commands end.
Fairness == WF_vars(Wait) /\ \A c \in Calls : WF_vars(ChildStep(c))

-----------------------------------------------------------------------------
\* do_exec and do_exec_redirect report success only when their own command was
\* executed and returned zero (systemcalls.c:90-93), never for the end of a
\* child that an interrupted call has left behind.
SuccessIsOwn ==
  \A c \in Calls :
    ok[c] /\ call[c] # "do_system" => status[c] = "zero" /\ at[c] = "reaped"

\* A command of do_exec_redirect runs only with the output file as its standard
\* output, one of do_exec with the caller's, even if the caller has none and
\* creat() returns that descriptor.
OutputRedirected ==
  \A c \in Calls :
    at[c] = "command" =>
      out[c] = IF call[c] = "do_exec_redirect" THEN "file"
               ELSE IF stdout THEN "stdout" ELSE "closed"

\* After a successful do_exec_redirect the file holds what its command wrote
\* and nothing else: nothing of earlier commands and nothing the caller had
\* printed.  (Unless an interrupted call has left a child behind; and a child
\* that fails does write the caller's text, as it leaves with exit().)
OutputIsCommands ==
  now > 0 /\ doing = "nothing" /\ call[now] = "do_exec_redirect" /\ ok[now] =>
    \/ file \subseteq {now}
    \/ \E c \in 1 .. now - 1 : at[c] \notin {"none", "reaped"}

\* Every call returns, whatever fails in the child, if the command ends.
CallsReturn == doing = "waitpid" ~> doing = "nothing"

=============================================================================
